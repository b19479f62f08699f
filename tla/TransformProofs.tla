--------------------------- MODULE TransformProofs ---------------------------
(***************************************************************************)
(* The plans of SyncPlanTransformer, proved for every extract result, CRM  *)
(* context and region settings.  Each plan is taken apart by the kind of   *)
(* its operations once (PlanKinds); the theorems follow kind by kind.      *)
(***************************************************************************)
EXTENDS Transform, TLAPS

-----------------------------------------------------------------------------
(* _index and the lookups.                                                 *)

LEMMA ValuesType ==
    ASSUME NEW S, NEW list \in Seq(S)
    PROVE  Values(list) \subseteq S
BY DEF Values

LEMMA DevelopersType ==
    ASSUME NEW x,
           x \in Extracts, NEW d \in Values(x.developers)
    PROVE  d.id \in IdType /\ d.inn \in IdType /\ d.group \in Nat
<1> DEFINE D == [id : IdType, inn : IdType, group : Nat, region : IdType]
<1>1. x.developers \in Seq(D)
    BY DEF Extracts
<1>2. d \in D
    BY <1>1, ValuesType
<1> QED BY <1>2

LEMMA ObjectOfPlan ==
    ASSUME NEW x, NEW c,
           x \in Extracts, NEW o \in NewObjects(x, c)
    PROVE  /\ o \in Values(x.objects)
           /\ o.id \in IdType /\ o.developer \in IdType /\ o.group \in Nat
           /\ ~Has(c.leads, "source", o.id)
<1> DEFINE O == [id : IdType, developer : IdType, group : Nat, region : IdType]
<1>1. o \in Values(x.objects) /\ ~Has(c.leads, "source", o.id)
    BY DEF NewObjects
<1>2. x.objects \in Seq(O)
    BY DEF Extracts
<1>3. o \in O
    BY <1>1, <1>2, ValuesType
<1> QED BY <1>1, <1>3

LEMMA DeveloperFound ==
    ASSUME NEW x, NEW c, NEW s,
           x \in Extracts, Accepted(x, c, s), NEW o \in NewObjects(x, c)
    PROVE  /\ DeveloperOf(x, o) \in Values(x.developers)
           /\ DeveloperOf(x, o).id = o.developer
           /\ DeveloperOf(x, o) \in RequiredDevelopers(x, c)
BY DEF Accepted, DeveloperError, Has, Get, DeveloperOf, RequiredDevelopers

LEMMA DeveloperRequired ==
    ASSUME NEW x, NEW c, NEW s,
           x \in Extracts, Accepted(x, c, s), NEW d \in RequiredDevelopers(x, c)
    PROVE  /\ d \in Values(x.developers)
           /\ d.id \in IdType /\ d.inn \in IdType
           /\ \E o \in NewObjects(x, c) : o.developer = d.id /\ DeveloperOf(x, o) = d
<1>1. PICK o \in NewObjects(x, c) : d = DeveloperOf(x, o)
    BY DEF RequiredDevelopers
<1>2. d \in Values(x.developers) /\ d.id = o.developer
    BY <1>1, DeveloperFound
<1>3. d.id \in IdType /\ d.inn \in IdType
    BY <1>2, DevelopersType
<1> QED BY <1>1, <1>2, <1>3

(* Two required developers with one id are one.                            *)
LEMMA DeveloperById ==
    ASSUME NEW x, NEW c, NEW s,
           x \in Extracts, Accepted(x, c, s),
           NEW d \in RequiredDevelopers(x, c), NEW e \in RequiredDevelopers(x, c),
           d.id = e.id
    PROVE  d = e
<1>1. d \in Values(x.developers) /\ e \in Values(x.developers)
    BY DeveloperRequired
<1>2. ~Repeats(x.developers, "id")
    BY DEF Accepted, IndexError
<1> QED BY <1>1, <1>2 DEF Values, Repeats

LEMMA ObjectById ==
    ASSUME NEW x, NEW c, NEW s,
           Accepted(x, c, s), NEW o \in NewObjects(x, c), NEW p \in NewObjects(x, c),
           o.id = p.id
    PROVE  o = p
<1>1. ~Repeats(x.objects, "id")
    BY DEF Accepted, IndexError
<1> QED BY <1>1 DEF NewObjects, Values, Repeats

LEMMA GroupRequired ==
    ASSUME NEW x, NEW c,
           x \in Extracts, NEW g \in RequiredGroups(x, c)
    PROVE  g \in IdType /\ \E o \in NewObjects(x, c) : o.group = g
BY ObjectOfPlan DEF RequiredGroups, None, IdType
-----------------------------------------------------------------------------
(* The operations of a plan by kind.                                       *)

IsGroup(x, c, s, op) ==
    \E g \in RequiredGroups(x, c) :
        ~Has(c.groups, "source", g) /\ op = GroupOperation(g, s, c)

IsCompany(c, s, op, d) == op = CompanyOperation(d, s, c)
IsRequisite(op, d) == op = RequisiteOperation(d)
IsAddress(op, d) == \E kind \in AddressKinds : op = AddressOperation(d, kind)

NewDevelopers(x, c) == {d \in RequiredDevelopers(x, c) : ~CompanyExists(c, d)}

IsLead(x, c, s, op) == \E o \in NewObjects(x, c) : op = LeadOperation(x, c, s, o)

LEMMA PlanKinds ==
    ASSUME NEW x, NEW c, NEW s, NEW op
    PROVE  op \in Operations(x, c, s) <=>
             \/ IsGroup(x, c, s, op)
             \/ \E d \in NewDevelopers(x, c) : IsCompany(c, s, op, d)
             \/ \E d \in NewDevelopers(x, c) : IsRequisite(op, d)
             \/ \E d \in NewDevelopers(x, c) : IsAddress(op, d)
             \/ IsLead(x, c, s, op)
<1>1. op \in GroupOperations(x, c, s) <=> IsGroup(x, c, s, op)
    BY DEF GroupOperations, IsGroup
<1>2. op \in LeadOperations(x, c, s) <=> IsLead(x, c, s, op)
    BY DEF LeadOperations, IsLead
<1>3. op \in CompanyOperations(x, c, s) <=>
        \E d \in NewDevelopers(x, c) : op \in DeveloperOperations(d, s, c)
    BY DEF CompanyOperations, NewDevelopers
<1>4. ASSUME NEW d
      PROVE  op \in DeveloperOperations(d, s, c) <=>
               IsCompany(c, s, op, d) \/ IsRequisite(op, d) \/ IsAddress(op, d)
    BY DEF DeveloperOperations, IsCompany, IsRequisite, IsAddress
<1> QED BY <1>1, <1>2, <1>3, <1>4 DEF Operations

(* The company, requisite and address operations of a new developer are in *)
(* the plan together.                                                      *)
LEMMA WholeDeveloper ==
    ASSUME NEW x, NEW c, NEW s,
           NEW d \in NewDevelopers(x, c)
    PROVE  /\ CompanyOperation(d, s, c) \in Operations(x, c, s)
           /\ RequisiteOperation(d) \in Operations(x, c, s)
           /\ \A kind \in AddressKinds : AddressOperation(d, kind) \in Operations(x, c, s)
BY PlanKinds DEF IsCompany, IsRequisite, IsAddress
-----------------------------------------------------------------------------
(* The id of an operation tells its kind and whose it is.                  *)
LEMMA Ids ==
    /\ \A g, s, c : GroupOperation(g, s, c).id = <<"group", g>>
    /\ \A d, s, c : CompanyOperation(d, s, c).id = <<"company", d.id>>
    /\ \A d : RequisiteOperation(d).id = <<"requisite", d.id>>
    /\ \A d, kind : AddressOperation(d, kind).id = <<kind, d.id>>
    /\ \A x, c, s, o : LeadOperation(x, c, s, o).id = <<"lead", o.id>>
<1>1. \A g, s, c : GroupOperation(g, s, c).id = <<"group", g>>
    BY DEF GroupOperation
<1>2. \A d, s, c : CompanyOperation(d, s, c).id = <<"company", d.id>>
    BY DEF CompanyOperation
<1>3. \A d : RequisiteOperation(d).id = <<"requisite", d.id>>
    BY DEF RequisiteOperation
<1>4. \A d, kind : AddressOperation(d, kind).id = <<kind, d.id>>
    BY DEF AddressOperation
<1>5. \A x, c, s, o : LeadOperation(x, c, s, o).id = <<"lead", o.id>>
    BY DEF LeadOperation
<1> QED BY <1>1, <1>2, <1>3, <1>4, <1>5

LEMMA Tags ==
    ASSUME NEW x, NEW c, NEW s, NEW op
    PROVE  /\ IsGroup(x, c, s, op) => op.id[1] = "group"
           /\ (\E d \in NewDevelopers(x, c) : IsCompany(c, s, op, d)) => op.id[1] = "company"
           /\ (\E d \in NewDevelopers(x, c) : IsRequisite(op, d)) => op.id[1] = "requisite"
           /\ (\E d \in NewDevelopers(x, c) : IsAddress(op, d)) => op.id[1] \in AddressKinds
           /\ IsLead(x, c, s, op) => op.id[1] = "lead"
<1>1. IsGroup(x, c, s, op) => op.id[1] = "group"
    BY Ids DEF IsGroup
<1>2. \A d : IsCompany(c, s, op, d) => op.id[1] = "company"
    BY Ids DEF IsCompany
<1>3. \A d : IsRequisite(op, d) => op.id[1] = "requisite"
    BY Ids DEF IsRequisite
<1>4. \A d : IsAddress(op, d) => op.id[1] \in AddressKinds
    BY Ids DEF IsAddress
<1>5. IsLead(x, c, s, op) => op.id[1] = "lead"
    BY Ids DEF IsLead
<1> QED BY <1>1, <1>2, <1>3, <1>4, <1>5

(* ... and the other way about.                                            *)
LEMMA KindOfId ==
    ASSUME NEW x, NEW c, NEW s, NEW op \in Operations(x, c, s)
    PROVE  /\ op.id[1] = "group" => IsGroup(x, c, s, op)
           /\ op.id[1] = "company" => \E d \in NewDevelopers(x, c) : IsCompany(c, s, op, d)
           /\ op.id[1] = "requisite" => \E d \in NewDevelopers(x, c) : IsRequisite(op, d)
           /\ op.id[1] \in AddressKinds => \E d \in NewDevelopers(x, c) : IsAddress(op, d)
           /\ op.id[1] = "lead" => IsLead(x, c, s, op)
BY PlanKinds, Tags DEF AddressKinds

LEMMA PlanIdsUnique ==
    ASSUME NEW x, NEW c, NEW s,
           x \in Extracts, Accepted(x, c, s)
    PROVE  IdsUnique(Operations(x, c, s))
<1> SUFFICES ASSUME NEW a \in Operations(x, c, s), NEW b \in Operations(x, c, s), a.id = b.id
             PROVE  a = b
    BY DEF IdsUnique
<1> USE DEF AddressKinds
<1>1. CASE IsGroup(x, c, s, a)
    <2>1. IsGroup(x, c, s, b)
        BY <1>1, Tags, KindOfId
    <2>2. PICK g, h : a = GroupOperation(g, s, c) /\ b = GroupOperation(h, s, c)
        BY <1>1, <2>1 DEF IsGroup
    <2>3. <<"group", g>> = <<"group", h>>
        BY <2>2, Ids
    <2> QED BY <2>2, <2>3
<1>2. CASE \E d \in NewDevelopers(x, c) : IsCompany(c, s, a, d)
    <2>1. \E d \in NewDevelopers(x, c) : IsCompany(c, s, b, d)
        <3>1. a.id[1] = "company"
            BY <1>2, Tags
        <3> QED BY <3>1, KindOfId
    <2>2. PICK d \in NewDevelopers(x, c), e \in NewDevelopers(x, c) :
              IsCompany(c, s, a, d) /\ IsCompany(c, s, b, e)
        BY <1>2, <2>1
    <2>3. <<"company", d.id>> = <<"company", e.id>>
        BY <2>2, Ids DEF IsCompany
    <2>4. d = e
        BY <2>3, DeveloperById DEF NewDevelopers
    <2> QED BY <2>2, <2>4 DEF IsCompany
<1>3. CASE \E d \in NewDevelopers(x, c) : IsRequisite(a, d)
    <2>1. \E d \in NewDevelopers(x, c) : IsRequisite(b, d)
        BY <1>3, Tags, KindOfId
    <2>2. PICK d \in NewDevelopers(x, c), e \in NewDevelopers(x, c) : IsRequisite(a, d) /\ IsRequisite(b, e)
        BY <1>3, <2>1
    <2>3. <<"requisite", d.id>> = <<"requisite", e.id>>
        BY <2>2, Ids DEF IsRequisite
    <2>4. d = e
        BY <2>3, DeveloperById DEF NewDevelopers
    <2> QED BY <2>2, <2>4 DEF IsRequisite
<1>4. CASE \E d \in NewDevelopers(x, c) : IsAddress(a, d)
    <2>1. \E d \in NewDevelopers(x, c) : IsAddress(b, d)
        BY <1>4, Tags, KindOfId
    <2>2. PICK d \in NewDevelopers(x, c), e \in NewDevelopers(x, c) : IsAddress(a, d) /\ IsAddress(b, e)
        BY <1>4, <2>1
    <2>3. PICK k \in AddressKinds, l \in AddressKinds :
              a = AddressOperation(d, k) /\ b = AddressOperation(e, l)
        BY <2>2 DEF IsAddress
    <2>4. <<k, d.id>> = <<l, e.id>>
        BY <2>3, Ids
    <2>5. k = l /\ d.id = e.id
        BY <2>4
    <2>6. d = e
        BY <2>5, DeveloperById DEF NewDevelopers
    <2> QED BY <2>3, <2>5, <2>6
<1>5. CASE IsLead(x, c, s, a)
    <2>1. IsLead(x, c, s, b)
        BY <1>5, Tags, KindOfId
    <2>2. PICK o \in NewObjects(x, c), p \in NewObjects(x, c) :
              a = LeadOperation(x, c, s, o) /\ b = LeadOperation(x, c, s, p)
        BY <1>5, <2>1 DEF IsLead
    <2>3. <<"lead", o.id>> = <<"lead", p.id>>
        BY <2>2, Ids
    <2>4. o = p
        BY <2>3, ObjectById
    <2> QED BY <2>2, <2>4
<1> QED BY <1>1, <1>2, <1>3, <1>4, <1>5, PlanKinds
-----------------------------------------------------------------------------
(* What SyncPlanValidator asks of one operation.                           *)
OperationValid(x, c, s, op) ==
    /\ CommandValid(op)
    /\ BindingsValid(Operations(x, c, s), op)
    /\ DependenciesValid(Operations(x, c, s), op)
    /\ OrderValid(Operations(x, c, s), op)

(* An operation on its own needs no other.                                 *)
LEMMA IndependentValid ==
    ASSUME NEW x, NEW c, NEW s,
           NEW op, op.bindings = {}, op.dependencies = {}, CommandValid(op)
    PROVE  OperationValid(x, c, s, op)
BY DEF OperationValid, BindingsValid, DependenciesValid, OrderValid, Sources

LEMMA GroupValid ==
    ASSUME NEW x, NEW c, NEW s,
           NEW op, IsGroup(x, c, s, op)
    PROVE  OperationValid(x, c, s, op)
BY IndependentValid DEF IsGroup, GroupOperation, CommandValid

LEMMA CompanyValid ==
    ASSUME NEW x, NEW c, NEW s,
           NEW op, NEW d, IsCompany(c, s, op, d)
    PROVE  OperationValid(x, c, s, op)
BY IndependentValid DEF IsCompany, CompanyOperation, CommandValid

(* An operation with one binding, to an operation before it.               *)
LEMMA OwnedValid ==
    ASSUME NEW x, NEW c, NEW s,
           NEW op, NEW owner \in Operations(x, c, s),
           op.literals = {}, op.dependencies = {}, op.bindings = {Binding("owner", owner.id)},
           SourceKindRight(op, "owner", owner), Before(owner.id, op.id),
           \/ op.command = "requisite" /\ op.entity = "company"
           \/ op.command = "address" /\ op.entity = "requisite"
    PROVE  OperationValid(x, c, s, op)
<1>1. OneReference(op, "owner")
    BY DEF OneReference, One, Binding
<1>2. CommandValid(op)
    BY <1>1 DEF CommandValid
<1>3. Sources(op) = {owner.id}
    BY DEF Sources, Binding
<1>4. BindingsValid(Operations(x, c, s), op)
    BY DEF BindingsValid, Binding
<1>5. DependenciesValid(Operations(x, c, s), op)
    BY DEF DependenciesValid
<1>6. OrderValid(Operations(x, c, s), op)
    BY <1>3 DEF OrderValid
<1> QED BY <1>2, <1>4, <1>5, <1>6 DEF OperationValid

LEMMA RequisiteValid ==
    ASSUME NEW x, NEW c, NEW s,
           NEW op, NEW d \in NewDevelopers(x, c), IsRequisite(op, d)
    PROVE  OperationValid(x, c, s, op)
<1> DEFINE company == CompanyOperation(d, s, c)
<1>1. company \in Operations(x, c, s)
    BY WholeDeveloper
<1>2. company.id = <<"company", d.id>> /\ op.id = <<"requisite", d.id>>
    BY Ids DEF IsRequisite
<1>3. Before(company.id, op.id)
    BY <1>2 DEF Before, Place
<1>4. company.command = "item" /\ company.entity = "company"
    BY DEF CompanyOperation
<1>5. /\ op.literals = {} /\ op.dependencies = {}
      /\ op.bindings = {Binding("owner", <<"company", d.id>>)}
      /\ op.command = "requisite" /\ op.entity = "company"
    BY DEF IsRequisite, RequisiteOperation
<1>6. SourceKindRight(op, "owner", company)
    BY <1>4, <1>5 DEF SourceKindRight
<1> HIDE DEF company
<1> QED BY <1>1, <1>2, <1>3, <1>5, <1>6, OwnedValid

LEMMA AddressValid ==
    ASSUME NEW x, NEW c, NEW s,
           NEW op, NEW d \in NewDevelopers(x, c), IsAddress(op, d)
    PROVE  OperationValid(x, c, s, op)
<1> DEFINE requisite == RequisiteOperation(d)
<1>0. PICK kind \in AddressKinds : op = AddressOperation(d, kind)
    BY DEF IsAddress
<1>1. requisite \in Operations(x, c, s)
    BY WholeDeveloper
<1>2. requisite.id = <<"requisite", d.id>> /\ op.id = <<kind, d.id>>
    BY <1>0, Ids
<1>3. Before(requisite.id, op.id)
    BY <1>2 DEF Before, Place, AddressKinds
<1>4. requisite.command = "requisite"
    BY DEF RequisiteOperation
<1>5. /\ op.literals = {} /\ op.dependencies = {}
      /\ op.bindings = {Binding("owner", <<"requisite", d.id>>)}
      /\ op.command = "address" /\ op.entity = "requisite"
    BY <1>0 DEF AddressOperation
<1>6. SourceKindRight(op, "owner", requisite)
    BY <1>4, <1>5 DEF SourceKindRight
<1> HIDE DEF requisite
<1> QED BY <1>1, <1>2, <1>3, <1>5, <1>6, OwnedValid

(* What a context holds has positive ids.                                  *)
HoldsIds(c) ==
    /\ \A e \in Values(c.companies) : e.id \in IdType
    /\ \A e \in Values(c.groups) : e.id \in IdType

LEMMA ContextHoldsIds == ASSUME NEW c \in Contexts PROVE HoldsIds(c)
<1>1. /\ c.companies \in Seq([inn : IdType, id : IdType])
      /\ c.groups \in Seq([source : IdType, id : IdType])
    BY DEF Contexts
<1>2. /\ Values(c.companies) \subseteq [inn : IdType, id : IdType]
      /\ Values(c.groups) \subseteq [source : IdType, id : IdType]
    BY <1>1, ValuesType
<1> QED BY <1>2 DEF HoldsIds

(* An element of the CRM is found, under its key.                          *)
LEMMA FoundInCrm ==
    ASSUME NEW c
    PROVE  /\ \A inn : Has(c.companies, "inn", inn) =>
                 /\ Get(c.companies, "inn", inn) \in Values(c.companies)
                 /\ Get(c.companies, "inn", inn).inn = inn
           /\ \A source : Has(c.groups, "source", source) =>
                 /\ Get(c.groups, "source", source) \in Values(c.groups)
                 /\ Get(c.groups, "source", source).source = source
BY DEF Has, Get

(* A lead refers to its company by a literal or by a binding, and so to    *)
(* its group, if its object has one.                                       *)
LeadTied(op, c, o, d, inCrm, groupInCrm, inPlan, groupInPlan) ==
    /\ op.literals =
          (IF CompanyExists(c, d) THEN {inCrm} ELSE {})
          \cup (IF o.group # None /\ GroupExists(c, o) THEN {groupInCrm} ELSE {})
    /\ op.bindings =
          (IF CompanyExists(c, d) THEN {} ELSE {inPlan})
          \cup (IF o.group = None \/ GroupExists(c, o) THEN {} ELSE {groupInPlan})
    /\ op.dependencies =
          IF CompanyExists(c, d) THEN {}
          ELSE {<<kind, o.developer>> : kind \in {"actual", "legal", "requisite"}}
    /\ op.command = "item" /\ op.entity = "lead" /\ op.id = <<"lead", o.id>>
    /\ inPlan.field = "company" /\ inPlan.source = <<"company", o.developer>>
    /\ groupInPlan.field = "group" /\ groupInPlan.source = <<"group", o.group>>
    /\ inCrm.field = "company" /\ groupInCrm.field = "group"
    /\ CompanyExists(c, d) => inCrm.value \in IdType
    /\ GroupExists(c, o) => groupInCrm.value \in IdType

LEMMA LeadParts ==
    ASSUME NEW x, NEW c, NEW s,
           x \in Extracts, HoldsIds(c), Accepted(x, c, s),
           NEW o \in NewObjects(x, c), NEW op, op = LeadOperation(x, c, s, o),
           NEW d, d = DeveloperOf(x, o),
           NEW inCrm, inCrm = Literal("company", Get(c.companies, "inn", d.inn).id),
           NEW groupInCrm, groupInCrm = Literal("group", Get(c.groups, "source", o.group).id),
           NEW inPlan, inPlan = Binding("company", <<"company", o.developer>>),
           NEW groupInPlan, groupInPlan = Binding("group", <<"group", o.group>>)
    PROVE  LeadTied(op, c, o, d, inCrm, groupInCrm, inPlan, groupInPlan)
<1>1. op.literals =
          (IF CompanyExists(c, d) THEN {inCrm} ELSE {})
          \cup (IF o.group # None /\ GroupExists(c, o) THEN {groupInCrm} ELSE {})
    BY DEF LeadOperation, LeadLiterals
<1>2. op.bindings =
          (IF CompanyExists(c, d) THEN {} ELSE {inPlan})
          \cup (IF o.group = None \/ GroupExists(c, o) THEN {} ELSE {groupInPlan})
    BY DEF LeadOperation, LeadBindings
<1>3. op.dependencies = IF CompanyExists(c, d) THEN {}
                        ELSE {<<kind, o.developer>> : kind \in {"actual", "legal", "requisite"}}
    <2>1. AddressKinds \cup {"requisite"} = {"actual", "legal", "requisite"}
        BY DEF AddressKinds
    <2>2. op.dependencies = LeadDependencies(x, c, o)
        BY DEF LeadOperation
    <2> QED BY <2>1, <2>2, Zenon DEF LeadDependencies
<1>4. op.command = "item" /\ op.entity = "lead" /\ op.id = <<"lead", o.id>>
    BY DEF LeadOperation
<1>5. /\ inPlan.field = "company" /\ inPlan.source = <<"company", o.developer>>
      /\ groupInPlan.field = "group" /\ groupInPlan.source = <<"group", o.group>>
      /\ inCrm.field = "company" /\ groupInCrm.field = "group"
    BY DEF Binding, Literal
<1>6. /\ CompanyExists(c, d) => inCrm.value \in IdType
      /\ GroupExists(c, o) => groupInCrm.value \in IdType
    BY FoundInCrm DEF CompanyExists, GroupExists, Literal, HoldsIds
<1> QED BY <1>1, <1>2, <1>3, <1>4, <1>5, <1>6 DEF LeadTied

(* What a lead waits for is in the plan.                                   *)
LEMMA CompanySources ==
    ASSUME NEW x, NEW c, NEW s,
           x \in Extracts, Accepted(x, c, s), NEW o \in NewObjects(x, c),
           ~CompanyExists(c, DeveloperOf(x, o)),
           NEW kind \in {"company", "requisite", "actual", "legal"}
    PROVE  \E q \in Operations(x, c, s) :
               /\ q.id = <<kind, o.developer>>
               /\ kind = "company" => q.command = "item" /\ q.entity = "company"
<1>1. PICK d : d = DeveloperOf(x, o)
    OBVIOUS
<1>2. d.id = o.developer /\ d \in RequiredDevelopers(x, c)
    BY <1>1, DeveloperFound
<1>3. d \in NewDevelopers(x, c)
    BY <1>1, <1>2 DEF NewDevelopers
<1>4. CompanyOperation(d, s, c).command = "item" /\ CompanyOperation(d, s, c).entity = "company"
    BY DEF CompanyOperation
<1>5. /\ CompanyOperation(d, s, c) \in Operations(x, c, s)
      /\ RequisiteOperation(d) \in Operations(x, c, s)
      /\ kind \in AddressKinds => AddressOperation(d, kind) \in Operations(x, c, s)
    BY <1>3, WholeDeveloper
<1>6. /\ CompanyOperation(d, s, c).id = <<"company", d.id>>
      /\ RequisiteOperation(d).id = <<"requisite", d.id>>
      /\ AddressOperation(d, kind).id = <<kind, d.id>>
    BY Ids
<1> QED BY <1>2, <1>4, <1>5, <1>6 DEF AddressKinds

LEMMA GroupSource ==
    ASSUME NEW x, NEW c, NEW s,
           x \in Extracts, Accepted(x, c, s), NEW o \in NewObjects(x, c),
           o.group # None, ~GroupExists(c, o)
    PROVE  \E q \in Operations(x, c, s) :
               /\ q.id = <<"group", o.group>> /\ q.key = o.group
               /\ q.command = "item" /\ q.entity = "group"
<1>1. PICK q : q = GroupOperation(o.group, s, c)
    OBVIOUS
<1>2. IsGroup(x, c, s, q)
    BY <1>1 DEF IsGroup, RequiredGroups, GroupExists
<1>3. q.key = o.group /\ q.command = "item" /\ q.entity = "group"
    BY <1>1 DEF GroupOperation
<1>4. q.id = <<"group", o.group>>
    BY <1>1, Ids
<1>5. q \in Operations(x, c, s)
    BY <1>2, PlanKinds
<1> QED BY <1>3, <1>4, <1>5

LEMMA LeadValid ==
    ASSUME NEW x, NEW c, NEW s,
           x \in Extracts, HoldsIds(c), Accepted(x, c, s), NEW op, IsLead(x, c, s, op)
    PROVE  OperationValid(x, c, s, op)
<1>1. PICK o \in NewObjects(x, c) : op = LeadOperation(x, c, s, o)
    BY DEF IsLead
<1> DEFINE P == Operations(x, c, s)
<1>2. PICK d, inCrm, groupInCrm, inPlan, groupInPlan :
          /\ d = DeveloperOf(x, o)
          /\ inCrm = Literal("company", Get(c.companies, "inn", d.inn).id)
          /\ groupInCrm = Literal("group", Get(c.groups, "source", o.group).id)
          /\ inPlan = Binding("company", <<"company", o.developer>>)
          /\ groupInPlan = Binding("group", <<"group", o.group>>)
    OBVIOUS
<1>3. /\ op.literals =
            (IF CompanyExists(c, d) THEN {inCrm} ELSE {})
            \cup (IF o.group # None /\ GroupExists(c, o) THEN {groupInCrm} ELSE {})
      /\ op.bindings =
            (IF CompanyExists(c, d) THEN {} ELSE {inPlan})
            \cup (IF o.group = None \/ GroupExists(c, o) THEN {} ELSE {groupInPlan})
      /\ op.dependencies = IF CompanyExists(c, d) THEN {}
                           ELSE {<<kind, o.developer>> : kind \in {"actual", "legal", "requisite"}}
      /\ op.command = "item" /\ op.entity = "lead" /\ op.id = <<"lead", o.id>>
      /\ inPlan.field = "company" /\ inPlan.source = <<"company", o.developer>>
      /\ groupInPlan.field = "group" /\ groupInPlan.source = <<"group", o.group>>
      /\ inCrm.field = "company" /\ groupInCrm.field = "group"
      /\ CompanyExists(c, d) => inCrm.value > 0
      /\ GroupExists(c, o) => groupInCrm.value > 0
    <2>1. LeadTied(op, c, o, d, inCrm, groupInCrm, inPlan, groupInPlan)
        BY <1>1, <1>2, LeadParts
    <2> QED BY <2>1 DEF LeadTied, IdType
<1>4. OneReference(op, "company")
    BY <1>3 DEF OneReference, One
<1>5. Mentions(op, "group") => OneReference(op, "group")
    BY <1>3 DEF OneReference, One, Mentions
<1>6. CommandValid(op)
    BY <1>3, <1>4, <1>5 DEF CommandValid
<1>7. /\ \A q \in P : q.id = <<"company", o.developer>> => Before(q.id, op.id)
      /\ \A q \in P : q.id = <<"group", o.group>> => Before(q.id, op.id)
      /\ \A q \in P : \A kind \in {"actual", "legal", "requisite"} :
              q.id = <<kind, o.developer>> => Before(q.id, op.id) /\ q.id # op.id
    <2>1. op.id = <<"lead", o.id>>
        BY <1>3
    <2>2. \A kind \in {"company", "group", "requisite", "actual", "legal"} : \A n :
              Before(<<kind, n>>, <<"lead", o.id>>) /\ <<kind, n>> # <<"lead", o.id>>
        BY DEF Before, Place
    <2> QED BY <2>1, <2>2
<1>10. ASSUME ~CompanyExists(c, d)
       PROVE  /\ \A kind \in {"requisite", "actual", "legal"} :
                    \E q \in P : q.id = <<kind, o.developer>>
              /\ \E q \in P : /\ q.id = <<"company", o.developer>>
                              /\ q.command = "item" /\ q.entity = "company"
    <2>1. \A kind \in {"company", "requisite", "actual", "legal"} :
              \E q \in P : /\ q.id = <<kind, o.developer>>
                           /\ kind = "company" => q.command = "item" /\ q.entity = "company"
        BY <1>2, <1>10, CompanySources
    <2> HIDE DEF P
    <2>2. \A kind \in {"requisite", "actual", "legal"} : \E q \in P : q.id = <<kind, o.developer>>
        BY <2>1
    <2>3. \E q \in P : /\ q.id = <<"company", o.developer>>
                       /\ q.command = "item" /\ q.entity = "company"
        BY <2>1
    <2> QED BY <2>2, <2>3
<1>11. ASSUME o.group # None, ~GroupExists(c, o)
       PROVE  \E q \in P : /\ q.id = <<"group", o.group>>
                           /\ q.command = "item" /\ q.entity = "group"
    BY <1>11, GroupSource
<1> HIDE DEF P
<1>8. BindingsValid(P, op)
    <2>1. ASSUME NEW b \in op.bindings
          PROVE  \E q \in P : q.id = b.source /\ SourceKindRight(op, b.field, q)
        <3>1. CASE b = inPlan
            <4>1. ~CompanyExists(c, d)
                BY <2>1, <3>1, <1>3
            <4> QED BY <4>1, <3>1, <1>3, <1>10 DEF SourceKindRight
        <3>2. CASE b = groupInPlan
            <4>1. o.group # None /\ ~GroupExists(c, o)
                BY <2>1, <3>2, <1>3
            <4> QED BY <4>1, <3>2, <1>3, <1>11 DEF SourceKindRight
        <3> QED BY <2>1, <3>1, <3>2, <1>3
    <2>2. \A a, b \in op.bindings : a.field = b.field => a = b
        BY <1>3
    <2>3. \A b \in op.bindings : \A l \in op.literals : l.field # b.field
        BY <1>3
    <2> QED BY <2>1, <2>2, <2>3 DEF BindingsValid
<1>9. DependenciesValid(P, op) /\ OrderValid(P, op)
    <2>1. ASSUME NEW source \in op.dependencies
          PROVE  \E q \in P : q.id = source /\ source # op.id /\ Before(source, op.id)
        <3>1. ~CompanyExists(c, d) /\ \E kind \in {"actual", "legal", "requisite"} :
                  source = <<kind, o.developer>>
            BY <2>1, <1>3
        <3> QED BY <3>1, <1>7, <1>10
    <2>2. ASSUME NEW b \in op.bindings
          PROVE  \E q \in P : q.id = b.source /\ Before(b.source, op.id)
        <3>1. b.source = <<"company", o.developer>> \/ b.source = <<"group", o.group>>
            BY <2>2, <1>3
        <3> QED BY <3>1, <2>2, <1>7, <1>8 DEF BindingsValid
    <2> QED BY <2>1, <2>2 DEF DependenciesValid, OrderValid, Sources
<1> QED BY <1>6, <1>8, <1>9 DEF OperationValid, P

(* The validator lets pass whatever the transformer makes.                 *)
LEMMA PlanValid ==
    ASSUME NEW x, NEW c, NEW s,
           x \in Extracts, HoldsIds(c), Accepted(x, c, s)
    PROVE  ValidPlan(Operations(x, c, s))
<1>1. \A op \in Operations(x, c, s) : OperationValid(x, c, s, op)
    BY PlanKinds, GroupValid, CompanyValid, RequisiteValid, AddressValid, LeadValid
<1> QED BY <1>1, PlanIdsUnique DEF ValidPlan, OperationValid
LEMMA Keys ==
    /\ \A g, s, c : GroupOperation(g, s, c).key = g
    /\ \A d, s, c : CompanyOperation(d, s, c).key = None
    /\ \A d : RequisiteOperation(d).key = d.inn
    /\ \A d, kind : AddressOperation(d, kind).key = None
    /\ \A x, c, s, o : LeadOperation(x, c, s, o).key = o.id
<1>1. \A g, s, c : GroupOperation(g, s, c).key = g
    BY DEF GroupOperation
<1>2. \A d, s, c : CompanyOperation(d, s, c).key = None
    BY DEF CompanyOperation
<1>3. \A d : RequisiteOperation(d).key = d.inn
    BY DEF RequisiteOperation
<1>4. \A d, kind : AddressOperation(d, kind).key = None
    BY DEF AddressOperation
<1>5. \A x, c, s, o : LeadOperation(x, c, s, o).key = o.id
    BY DEF LeadOperation
<1> QED BY <1>1, <1>2, <1>3, <1>4, <1>5

(* A plan repeats no natural key, neither its own nor one of the CRM.      *)
LEMMA PlanKeysOnce ==
    ASSUME NEW x, NEW c, NEW s,
           x \in Extracts, Accepted(x, c, s),
           NEW op \in Operations(x, c, s), op.key # None
    PROVE  /\ \A other \in Operations(x, c, s) :
                 other.id[1] = op.id[1] /\ other.key = op.key => other = op
           /\ op.id[1] = "lead" => ~Has(c.leads, "source", op.key)
           /\ op.id[1] = "requisite" => ~Has(c.companies, "inn", op.key)
           /\ op.id[1] = "group" => ~Has(c.groups, "source", op.key)
<1>1. CASE IsGroup(x, c, s, op)
    <2>1. PICK g : op = GroupOperation(g, s, c) /\ ~Has(c.groups, "source", g)
        BY <1>1 DEF IsGroup
    <2>2. op.id[1] = "group" /\ op.key = g
        BY <2>1 DEF GroupOperation
    <2>3. ASSUME NEW other \in Operations(x, c, s), other.id[1] = "group", other.key = op.key
          PROVE  other = op
        <3>1. IsGroup(x, c, s, other)
            BY <2>3, KindOfId
        <3>2. PICK h : other = GroupOperation(h, s, c)
            BY <3>1 DEF IsGroup
        <3>3. h = g
            BY <2>2, <2>3, <3>2, Keys
        <3> QED BY <2>1, <3>2, <3>3
    <2> QED BY <2>1, <2>2, <2>3
<1>2. CASE \E d \in NewDevelopers(x, c) : IsRequisite(op, d)
    <2>1. PICK d \in NewDevelopers(x, c) : op = RequisiteOperation(d)
        BY <1>2 DEF IsRequisite
    <2>2. op.id[1] = "requisite" /\ op.key = d.inn
        BY <2>1 DEF RequisiteOperation
    <2>3. ~Has(c.companies, "inn", d.inn)
        BY DEF NewDevelopers, CompanyExists
    <2>4. ASSUME NEW other \in Operations(x, c, s), other.id[1] = "requisite", other.key = op.key
          PROVE  other = op
        <3>1. \E e \in NewDevelopers(x, c) : IsRequisite(other, e)
            BY <2>4, KindOfId
        <3>2. PICK e \in NewDevelopers(x, c) : other = RequisiteOperation(e)
            BY <3>1 DEF IsRequisite
        <3>3. e.inn = d.inn
            BY <2>2, <2>4, <3>2, Keys
        <3>4. e = d
            BY <3>3 DEF NewDevelopers, Accepted, DeveloperError
        <3> QED BY <2>1, <3>2, <3>4
    <2> QED BY <2>2, <2>3, <2>4
<1>3. CASE IsLead(x, c, s, op)
    <2>1. PICK o \in NewObjects(x, c) : op = LeadOperation(x, c, s, o)
        BY <1>3 DEF IsLead
    <2>2. op.id[1] = "lead" /\ op.key = o.id
        BY <2>1 DEF LeadOperation
    <2>3. ~Has(c.leads, "source", o.id)
        BY DEF NewObjects
    <2>4. ASSUME NEW other \in Operations(x, c, s), other.id[1] = "lead", other.key = op.key
          PROVE  other = op
        <3>1. IsLead(x, c, s, other)
            BY <2>4, KindOfId
        <3>2. PICK p \in NewObjects(x, c) : other = LeadOperation(x, c, s, p)
            BY <3>1 DEF IsLead
        <3>3. p.id = o.id
            BY <2>2, <2>4, <3>2, Keys
        <3>4. p = o
            BY <3>3, ObjectById
        <3> QED BY <2>1, <3>2, <3>4
    <2> QED BY <2>2, <2>3, <2>4
<1>4. ~(\E d : IsCompany(c, s, op, d) \/ IsAddress(op, d))
    <2>1. ASSUME NEW d, IsCompany(c, s, op, d) PROVE op.key = None
        BY <2>1, Keys DEF IsCompany
    <2>2. ASSUME NEW d, IsAddress(op, d) PROVE op.key = None
        BY <2>2, Keys DEF IsAddress
    <2> QED BY <2>1, <2>2
<1> QED BY <1>1, <1>2, <1>3, <1>4, PlanKinds

(* The ids of a plan, its natural keys and the fields its commands fill.   *)
FieldsOf(op) == {f.field : f \in op.literals \cup op.bindings}

PlanIds == {"group", "company", "requisite", "actual", "legal", "lead"} \X IdType

LEMMA LeadTyped ==
    ASSUME NEW x, NEW c, NEW s,
           x \in Extracts, HoldsIds(c), Accepted(x, c, s),
           NEW o \in NewObjects(x, c), NEW op, op = LeadOperation(x, c, s, o)
    PROVE  /\ op.id \in PlanIds
           /\ op.key \in Nat
           /\ FieldsOf(op) \in {{"company"}, {"company", "group"}}
           /\ \A l \in op.literals : l.value \in IdType
           /\ \A f, g \in op.literals \cup op.bindings : f.field = g.field => f = g
<1>1. PICK d, inCrm, groupInCrm, inPlan, groupInPlan :
          /\ d = DeveloperOf(x, o)
          /\ inCrm = Literal("company", Get(c.companies, "inn", d.inn).id)
          /\ groupInCrm = Literal("group", Get(c.groups, "source", o.group).id)
          /\ inPlan = Binding("company", <<"company", o.developer>>)
          /\ groupInPlan = Binding("group", <<"group", o.group>>)
    OBVIOUS
<1>2. /\ op.literals =
            (IF CompanyExists(c, d) THEN {inCrm} ELSE {})
            \cup (IF o.group # None /\ GroupExists(c, o) THEN {groupInCrm} ELSE {})
      /\ op.bindings =
            (IF CompanyExists(c, d) THEN {} ELSE {inPlan})
            \cup (IF o.group = None \/ GroupExists(c, o) THEN {} ELSE {groupInPlan})
      /\ op.dependencies = IF CompanyExists(c, d) THEN {}
                           ELSE {<<kind, o.developer>> : kind \in {"actual", "legal", "requisite"}}
      /\ op.command = "item" /\ op.entity = "lead" /\ op.id = <<"lead", o.id>>
      /\ inPlan.field = "company" /\ inPlan.source = <<"company", o.developer>>
      /\ groupInPlan.field = "group" /\ groupInPlan.source = <<"group", o.group>>
      /\ inCrm.field = "company" /\ groupInCrm.field = "group"
      /\ CompanyExists(c, d) => inCrm.value \in IdType
      /\ GroupExists(c, o) => groupInCrm.value \in IdType
    <2>1. LeadTied(op, c, o, d, inCrm, groupInCrm, inPlan, groupInPlan)
        BY <1>1, LeadParts
    <2> QED BY <2>1 DEF LeadTied
<1>3. o.id \in IdType
    BY ObjectOfPlan
<1>4. op.id \in PlanIds
    BY <1>2, <1>3 DEF PlanIds
<1>5. op.key \in Nat
    BY <1>3, Keys DEF IdType
<1>6. \A l \in op.literals : l.value \in IdType
    BY <1>2
<1>7. CASE o.group = None
    <2>1. op.literals \cup op.bindings = {IF CompanyExists(c, d) THEN inCrm ELSE inPlan}
        BY <1>2, <1>7
    <2>2. FieldsOf(op) = {"company"}
        BY <1>2, <2>1 DEF FieldsOf
    <2> QED BY <1>4, <1>5, <1>6, <2>1, <2>2
<1>8. CASE o.group # None
    <2>1. PICK f, g : /\ f = IF CompanyExists(c, d) THEN inCrm ELSE inPlan
                      /\ g = IF GroupExists(c, o) THEN groupInCrm ELSE groupInPlan
        OBVIOUS
    <2>2. op.literals \cup op.bindings = {f, g}
        BY <1>2, <1>8, <2>1
    <2>3. f.field = "company" /\ g.field = "group"
        BY <1>2, <2>1
    <2>4. FieldsOf(op) = {"company", "group"}
        BY <2>2, <2>3 DEF FieldsOf
    <2> QED BY <1>4, <1>5, <1>6, <2>2, <2>3, <2>4
<1> QED BY <1>7, <1>8

LEMMA OperationTyped ==
    ASSUME NEW x, NEW c, NEW s,
           x \in Extracts, HoldsIds(c), Accepted(x, c, s), NEW op \in Operations(x, c, s)
    PROVE  /\ op.id \in PlanIds
           /\ op.key \in Nat
           /\ FieldsOf(op) \in {{}, {"owner"}, {"company"}, {"company", "group"}}
           /\ \A l \in op.literals : l.value \in IdType
           /\ \A f, g \in op.literals \cup op.bindings : f.field = g.field => f = g
<1>1. CASE IsGroup(x, c, s, op)
    <2>1. PICK g \in RequiredGroups(x, c) : op = GroupOperation(g, s, c)
        BY <1>1 DEF IsGroup
    <2>2. g \in IdType
        BY <2>1, GroupRequired
    <2>3. /\ op.id = <<"group", g>> /\ op.key = g
          /\ op.literals = {} /\ op.bindings = {}
        BY <2>1 DEF GroupOperation
    <2>4. op.id \in PlanIds
        BY <2>2, <2>3 DEF PlanIds
    <2>5. FieldsOf(op) = {}
        BY <2>3 DEF FieldsOf
    <2> QED BY <2>2, <2>3, <2>4, <2>5 DEF IdType
<1>2. CASE \E d \in NewDevelopers(x, c) :
               IsCompany(c, s, op, d) \/ IsRequisite(op, d) \/ IsAddress(op, d)
    <2>1. PICK d \in NewDevelopers(x, c) :
              IsCompany(c, s, op, d) \/ IsRequisite(op, d) \/ IsAddress(op, d)
        BY <1>2
    <2>2. d.id \in IdType /\ d.inn \in IdType
        BY DeveloperRequired DEF NewDevelopers
    <2>3. CASE IsCompany(c, s, op, d)
        <3>1. op.id = <<"company", d.id>> /\ op.key = None /\ op.literals = {} /\ op.bindings = {}
            BY <2>3 DEF IsCompany, CompanyOperation
        <3>2. op.id \in PlanIds
            BY <2>2, <3>1 DEF PlanIds
        <3>3. FieldsOf(op) = {}
            BY <3>1 DEF FieldsOf
        <3> QED BY <3>1, <3>2, <3>3 DEF None
    <2>4. CASE IsRequisite(op, d)
        <3>1. /\ op.id = <<"requisite", d.id>> /\ op.key = d.inn /\ op.literals = {}
              /\ op.bindings = {Binding("owner", <<"company", d.id>>)}
            BY <2>4 DEF IsRequisite, RequisiteOperation
        <3>2. op.id \in PlanIds
            BY <2>2, <3>1 DEF PlanIds
        <3>3. FieldsOf(op) = {"owner"}
            BY <3>1 DEF FieldsOf, Binding
        <3> QED BY <2>2, <3>1, <3>2, <3>3 DEF IdType
    <2>5. CASE IsAddress(op, d)
        <3>1. PICK kind \in AddressKinds : op = AddressOperation(d, kind)
            BY <2>5 DEF IsAddress
        <3>2. /\ op.id = <<kind, d.id>> /\ op.key = None /\ op.literals = {}
              /\ op.bindings = {Binding("owner", <<"requisite", d.id>>)}
            BY <3>1 DEF AddressOperation
        <3>3. op.id \in PlanIds
            BY <2>2, <3>2 DEF AddressKinds, PlanIds
        <3>4. FieldsOf(op) = {"owner"}
            BY <3>2 DEF FieldsOf, Binding
        <3> QED BY <3>2, <3>3, <3>4 DEF None
    <2> QED BY <2>1, <2>3, <2>4, <2>5
<1>3. CASE IsLead(x, c, s, op)
    BY <1>3, LeadTyped DEF IsLead
<1> QED BY <1>1, <1>2, <1>3, PlanKinds

(* The operations with a natural key.                                      *)
LEMMA KeyedOperation ==
    ASSUME NEW x, NEW c, NEW s,
           x \in Extracts, Accepted(x, c, s), NEW op \in Operations(x, c, s),
           op.id[1] \in {"lead", "group", "requisite"}
    PROVE  op.key \in IdType
<1>1. CASE op.id[1] = "group"
    <2>1. PICK g \in RequiredGroups(x, c) : op = GroupOperation(g, s, c)
        BY <1>1, KindOfId DEF IsGroup
    <2> QED BY <2>1, Keys, GroupRequired
<1>2. CASE op.id[1] = "requisite"
    <2>1. PICK d \in NewDevelopers(x, c) : op = RequisiteOperation(d)
        BY <1>2, KindOfId DEF IsRequisite
    <2> QED BY <2>1, Keys, DeveloperRequired DEF NewDevelopers
<1>3. CASE op.id[1] = "lead"
    <2>1. PICK o \in NewObjects(x, c) : op = LeadOperation(x, c, s, o)
        BY <1>3, KindOfId DEF IsLead
    <2> QED BY <2>1, Keys, ObjectOfPlan
<1> QED BY <1>1, <1>2, <1>3

(* Whose an operation of a new developer is, by its id.                    *)
LEMMA DeveloperOperation ==
    ASSUME NEW x, NEW c, NEW s,
           x \in Extracts, Accepted(x, c, s),
           NEW d \in NewDevelopers(x, c), NEW op \in Operations(x, c, s)
    PROVE  /\ op.id = <<"requisite", d.id>> =>
                 /\ op.key = d.inn
                 /\ op.bindings = {Binding("owner", <<"company", d.id>>)}
           /\ \A kind \in AddressKinds :
                 op.id = <<kind, d.id>> =>
                     op.bindings = {Binding("owner", <<"requisite", d.id>>)}
<1>1. \A a, b \in Operations(x, c, s) : a.id = b.id => a = b
    BY PlanIdsUnique DEF IdsUnique
<1>2. ASSUME op.id = <<"requisite", d.id>>
      PROVE  /\ op.key = d.inn
             /\ op.bindings = {Binding("owner", <<"company", d.id>>)}
    <2>1. op = RequisiteOperation(d)
        BY <1>1, <1>2, Ids, WholeDeveloper
    <2> QED BY <2>1 DEF RequisiteOperation
<1>3. ASSUME NEW kind \in AddressKinds, op.id = <<kind, d.id>>
      PROVE  op.bindings = {Binding("owner", <<"requisite", d.id>>)}
    <2>1. op = AddressOperation(d, kind)
        BY <1>1, <1>3, Ids, WholeDeveloper
    <2> QED BY <2>1 DEF AddressOperation
<1> QED BY <1>2, <1>3

(* Before is a strict order on ids.                                        *)
LEMMA BeforeStrict ==
    ASSUME NEW a \in PlanIds, NEW b \in PlanIds, Before(a, b)
    PROVE  a # b /\ ~Before(b, a)
<1>1. \A kind \in {"group", "company", "requisite", "actual", "legal", "lead"} :
          Place[kind][1] \in Nat /\ Place[kind][2] \in Nat
    BY DEF Place
<1>2. /\ a[1] \in {"group", "company", "requisite", "actual", "legal", "lead"} /\ a[2] \in Nat
      /\ b[1] \in {"group", "company", "requisite", "actual", "legal", "lead"} /\ b[2] \in Nat
    BY DEF PlanIds, IdType
<1>3. PICK p, q : p = Place[a[1]] /\ q = Place[b[1]]
    OBVIOUS
<1>4. p[1] \in Nat /\ p[2] \in Nat /\ q[1] \in Nat /\ q[2] \in Nat
    BY <1>1, <1>2, <1>3
<1>5. \/ p[1] < q[1]
      \/ p[1] = q[1] /\ a[2] < b[2]
      \/ p[1] = q[1] /\ a[2] = b[2] /\ p[2] < q[2]
    BY <1>3 DEF Before
<1>6. ASSUME Before(b, a)
      PROVE  \/ q[1] < p[1]
             \/ q[1] = p[1] /\ b[2] < a[2]
             \/ q[1] = p[1] /\ b[2] = a[2] /\ q[2] < p[2]
    BY <1>3, <1>6 DEF Before
<1>7. ~Before(b, a)
    BY <1>2, <1>4, <1>5, <1>6
<1>8. a # b
    BY <1>7
<1> QED BY <1>7, <1>8

(* The operations an operation waits for come before it.                   *)
LEMMA SourcesBefore ==
    ASSUME NEW x, NEW c, NEW s,
           x \in Extracts, HoldsIds(c), Accepted(x, c, s),
           NEW op \in Operations(x, c, s), NEW source \in Sources(op)
    PROVE  \E q \in Operations(x, c, s) : q.id = source /\ Before(source, op.id)
BY PlanValid DEF ValidPlan, OrderValid

(* Whatever else a plan creates is needed by a lead it creates.            *)
LEMMA NeededByLead ==
    ASSUME NEW x, NEW c, NEW s,
           x \in Extracts, Accepted(x, c, s),
           NEW op \in Operations(x, c, s), op.id[1] # "lead"
    PROVE  \E lead \in Operations(x, c, s) : lead.id[1] = "lead" /\ op.id \in Sources(lead)
<1> DEFINE lead(o) == LeadOperation(x, c, s, o)
<1>1. ASSUME NEW o \in NewObjects(x, c)
      PROVE  lead(o) \in Operations(x, c, s) /\ lead(o).id[1] = "lead"
    <2>1. IsLead(x, c, s, lead(o))
        BY DEF IsLead
    <2> QED BY <2>1, PlanKinds, Tags
<1>2. CASE IsGroup(x, c, s, op)
    <2>1. PICK g \in RequiredGroups(x, c) :
              ~Has(c.groups, "source", g) /\ op = GroupOperation(g, s, c)
        BY <1>2 DEF IsGroup
    <2>2. PICK o \in NewObjects(x, c) : o.group = g
        BY GroupRequired
    <2>3. g # None /\ op.id = <<"group", g>>
        BY <2>1, Ids DEF RequiredGroups
    <2>4. Binding("group", <<"group", g>>) \in lead(o).bindings
        BY <2>1, <2>2, <2>3 DEF LeadOperation, LeadBindings, GroupExists
    <2>5. op.id \in Sources(lead(o))
        BY <2>3, <2>4 DEF Sources, Binding
    <2> HIDE DEF lead
    <2> QED BY <1>1, <2>5
<1>3. CASE \E d \in NewDevelopers(x, c) :
               IsCompany(c, s, op, d) \/ IsRequisite(op, d) \/ IsAddress(op, d)
    <2>1. PICK d \in NewDevelopers(x, c) :
              IsCompany(c, s, op, d) \/ IsRequisite(op, d) \/ IsAddress(op, d)
        BY <1>3
    <2>2. PICK o \in NewObjects(x, c) : o.developer = d.id /\ DeveloperOf(x, o) = d
        BY DeveloperRequired DEF NewDevelopers
    <2>3. ~CompanyExists(c, DeveloperOf(x, o))
        BY <2>2 DEF NewDevelopers
    <2>4. Binding("company", <<"company", d.id>>) \in lead(o).bindings
        BY <2>2, <2>3 DEF LeadOperation, LeadBindings
    <2>5. lead(o).dependencies = {<<kind, d.id>> : kind \in AddressKinds \cup {"requisite"}}
        <3>1. lead(o).dependencies = LeadDependencies(x, c, o)
            BY DEF LeadOperation
        <3> QED BY <3>1, <2>2, <2>3, Zenon DEF LeadDependencies
    <2> HIDE DEF lead
    <2>6. op.id = <<"company", d.id>> \/ \E kind \in AddressKinds \cup {"requisite"} :
              op.id = <<kind, d.id>>
        <3>1. CASE IsCompany(c, s, op, d)
            BY <3>1, Ids DEF IsCompany
        <3>2. CASE IsRequisite(op, d)
            BY <3>2, Ids DEF IsRequisite
        <3>3. CASE IsAddress(op, d)
            BY <3>3, Ids DEF IsAddress
        <3> QED BY <2>1, <3>1, <3>2, <3>3
    <2>7. op.id \in Sources(lead(o))
        BY <2>4, <2>5, <2>6 DEF Sources, Binding
    <2> QED BY <1>1, <2>7
<1> QED BY <1>2, <1>3, PlanKinds, Tags
-----------------------------------------------------------------------------
IInv ==
    /\ TypeOK
    /\ PlansAreValid
    /\ stage \in {"validation", "returned"} =>
          /\ Accepted(extract_result, crm_context, region_settings)
          /\ plan = Operations(extract_result, crm_context, region_settings)

LEMMA Invariance == Spec => []IInv
<1>1. Init => IInv
    BY DEF Init, IInv, TypeOK, PlansAreValid, Stages
<1>2. IInv /\ [Next]_vars => IInv'
    <2> SUFFICES ASSUME IInv, [Next]_vars PROVE IInv'
        OBVIOUS
    <2> USE DEF IInv, TypeOK, PlansAreValid, Stages
    <2>1. CASE RejectInput
        BY <2>1 DEF RejectInput
    <2>2. CASE Build
        BY <2>2 DEF Build
    <2>3. CASE Validate
        <3>1. ValidPlan(plan)
            BY <2>3, PlanValid, ContextHoldsIds, InputsAssumption DEF Validate
        <3> QED BY <2>3, <3>1 DEF Validate
    <2>4. CASE UNCHANGED vars
        BY <2>4 DEF vars
    <2> QED BY <2>1, <2>2, <2>3, <2>4 DEF Next
<1> QED BY <1>1, <1>2, PTL DEF Spec

(* The variables keep their types.                                         *)
THEOREM TypeCorrect == Spec => []TypeOK
<1>1. IInv => TypeOK
    BY DEF IInv
<1> QED BY <1>1, Invariance, PTL

(* SyncPlanValidator never rejects a plan of SyncPlanTransformer.          *)
THEOREM TransformerMeetsValidator == Spec => []PlansAreValid
<1>1. IInv => PlansAreValid
    BY DEF IInv
<1> QED BY <1>1, Invariance, PTL
-----------------------------------------------------------------------------
(* The plan made, whenever there is one.                                   *)
PlanMade(x, c, s) ==
    /\ x = extract_result /\ c = crm_context /\ s = region_settings
    /\ x \in Extracts /\ HoldsIds(c)
    /\ stage = "returned" \/ plan # {} => Accepted(x, c, s) /\ plan = Operations(x, c, s)

LEMMA PlanIsMade == ASSUME IInv PROVE \E x, c, s : PlanMade(x, c, s)
BY InputsAssumption, ContextHoldsIds DEF IInv, TypeOK, PlansAreValid, Stages, PlanMade

(* A plan creates nothing under a natural key that is taken.               *)
THEOREM KeysCreatedOnce == Spec => []NaturalKeysOnce
<1>1. ASSUME IInv PROVE NaturalKeysOnce
    <2>1. PICK x, c, s : PlanMade(x, c, s)
        BY <1>1, PlanIsMade
    <2> QED BY <2>1, PlanKeysOnce DEF PlanMade, NaturalKeysOnce
<1> QED BY <1>1, Invariance, PTL

(* Every new object gets a lead tied to its developer's company and group. *)
THEOREM NewObjectsTied == Spec => []LeadsAreTied
<1>1. ASSUME IInv PROVE LeadsAreTied
    <2>0. PICK x, c, s : PlanMade(x, c, s)
        BY <1>1, PlanIsMade
    <2> SUFFICES ASSUME stage = "returned", NEW i \in DOMAIN x.objects,
                        NEW o, o = x.objects[i], ~Has(c.leads, "source", o.id)
                 PROVE  \E op \in plan : \E d \in Values(x.developers) :
                      /\ op.id = <<"lead", o.id>>
                      /\ d.id = o.developer
                      /\ \E r \in op.literals \cup op.bindings : IsCompanyOf(r, d.inn)
                      /\ o.group # None =>
                            \E r \in op.literals \cup op.bindings : IsGroupOf(r, o.group)
                      /\ op.bindings # {} /\ ~CompanyExists(c, d) =>
                            {"requisite", "actual", "legal"} \X {d.id} \subseteq op.dependencies
        BY <2>0 DEF LeadsAreTied, PlanMade
    <2>1. x \in Extracts /\ HoldsIds(c) /\ Accepted(x, c, s) /\ plan = Operations(x, c, s)
        BY <2>0 DEF PlanMade
    <2>2. o \in NewObjects(x, c)
        BY DEF NewObjects, Values
    <2>3. PICK op, d, inCrm, groupInCrm, inPlan, groupInPlan :
              /\ op = LeadOperation(x, c, s, o)
              /\ d = DeveloperOf(x, o)
              /\ inCrm = Literal("company", Get(c.companies, "inn", d.inn).id)
              /\ groupInCrm = Literal("group", Get(c.groups, "source", o.group).id)
              /\ inPlan = Binding("company", <<"company", o.developer>>)
              /\ groupInPlan = Binding("group", <<"group", o.group>>)
        OBVIOUS
    <2>4. /\ op.literals =
                (IF CompanyExists(c, d) THEN {inCrm} ELSE {})
                \cup (IF o.group # None /\ GroupExists(c, o) THEN {groupInCrm} ELSE {})
          /\ op.bindings =
                (IF CompanyExists(c, d) THEN {} ELSE {inPlan})
                \cup (IF o.group = None \/ GroupExists(c, o) THEN {} ELSE {groupInPlan})
          /\ op.dependencies = IF CompanyExists(c, d) THEN {}
               ELSE {<<kind, o.developer>> : kind \in {"actual", "legal", "requisite"}}
          /\ op.id = <<"lead", o.id>>
        <3>1. LeadTied(op, c, o, d, inCrm, groupInCrm, inPlan, groupInPlan)
            BY <2>1, <2>2, <2>3, LeadParts
        <3> QED BY <3>1 DEF LeadTied
    <2>5. op \in plan
        BY <2>1, <2>2, <2>3, PlanKinds DEF IsLead
    <2>6. /\ d \in Values(x.developers) /\ d.id = o.developer
          /\ d \in RequiredDevelopers(x, c)
        BY <2>1, <2>2, <2>3, DeveloperFound
    <2>7. \E r \in op.literals \cup op.bindings : IsCompanyOf(r, d.inn)
        <3>1. CASE CompanyExists(c, d)
            <4>1. inCrm \in op.literals
                BY <3>1, <2>4
            <4>2. /\ Get(c.companies, "inn", d.inn) \in Values(c.companies)
                  /\ Get(c.companies, "inn", d.inn).inn = d.inn
                BY <3>1, FoundInCrm DEF CompanyExists
            <4>3. IsCompanyOf(inCrm, d.inn)
                BY <2>0, <2>3, <4>2, Zenon DEF IsCompanyOf, PlanMade
            <4> QED BY <4>1, <4>3
        <3>2. CASE ~CompanyExists(c, d)
            <4>1. inPlan \in op.bindings
                BY <3>2, <2>4
            <4>2. d \in NewDevelopers(x, c)
                BY <2>6, <3>2 DEF NewDevelopers
            <4>3. RequisiteOperation(d) \in plan
                BY <2>1, <4>2, WholeDeveloper
            <4>4. /\ RequisiteOperation(d).id[1] = "requisite" /\ RequisiteOperation(d).id[2] = d.id
                  /\ RequisiteOperation(d).key = d.inn
                BY DEF RequisiteOperation
            <4>5. Binding("owner", <<"company", d.id>>) \in RequisiteOperation(d).bindings
                BY DEF RequisiteOperation
            <4>6. inPlan = Binding("company", <<"company", d.id>>)
                BY <2>3, <2>6
            <4>7. inPlan.source = <<"company", d.id>>
                BY <4>6 DEF Binding
            <4>8. IsCompanyOf(inPlan, d.inn)
                BY <4>3, <4>4, <4>5, <4>6, <4>7, Zenon DEF IsCompanyOf
            <4> QED BY <4>1, <4>8
        <3> QED BY <3>1, <3>2
    <2>8. ASSUME o.group # None
          PROVE  \E r \in op.literals \cup op.bindings : IsGroupOf(r, o.group)
        <3>1. CASE GroupExists(c, o)
            <4>1. groupInCrm \in op.literals
                BY <3>1, <2>4, <2>8
            <4>2. /\ Get(c.groups, "source", o.group) \in Values(c.groups)
                  /\ Get(c.groups, "source", o.group).source = o.group
                BY <3>1, FoundInCrm DEF GroupExists
            <4>3. IsGroupOf(groupInCrm, o.group)
                BY <2>0, <2>3, <4>2, Zenon DEF IsGroupOf, PlanMade
            <4> QED BY <4>1, <4>3
        <3>2. CASE ~GroupExists(c, o)
            <4>1. groupInPlan \in op.bindings
                BY <3>2, <2>4, <2>8
            <4>2. PICK q \in plan : q.id = <<"group", o.group>> /\ q.key = o.group
                BY <2>1, <2>2, <2>8, <3>2, GroupSource
            <4> QED BY <4>1, <4>2, <2>3 DEF IsGroupOf
        <3> QED BY <3>1, <3>2
    <2>9. ~CompanyExists(c, d) =>
              {"requisite", "actual", "legal"} \X {d.id} \subseteq op.dependencies
        BY <2>4, <2>6
    <2> QED BY <2>4, <2>5, <2>6, <2>7, <2>8, <2>9
<1> QED BY <1>1, Invariance, PTL

(* Nothing is created that no lead needs.                                  *)
THEOREM NothingIdleCreated == Spec => []NothingIdle
<1>1. ASSUME IInv PROVE NothingIdle
    <2>1. PICK x, c, s : PlanMade(x, c, s)
        BY <1>1, PlanIsMade
    <2> QED BY <2>1, NeededByLead DEF PlanMade, NothingIdle
<1> QED BY <1>1, Invariance, PTL
=============================================================================
