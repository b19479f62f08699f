------------------------------ MODULE SyncPlan ------------------------------
(***************************************************************************)
(* SyncPlanTransformer and SyncPlanValidator as operators.                 *)
(*                                                                         *)
(* The transformer gets what Extract found (x), what the CRM holds (c) and *)
(* who is responsible for which region (s), and makes the operations that  *)
(* create what is missing.  A plan is the set of its operations: each has  *)
(* an id made of its kind and the id of its object, developer or group at  *)
(* the source, and Before is the order the transformer puts the ids in.    *)
(* Of the fields of a command, the references, the natural key and the     *)
(* person responsible are kept.                                            *)
(***************************************************************************)
EXTENDS Naturals, Sequences

None == 0  \* no company group; no natural key

IdType == Nat \ {0}

(* ExtractResult, as far as a plan depends on it.                          *)
Extracts ==
    [objects : Seq([id : IdType, developer : IdType, group : Nat, region : IdType]),
     developers : Seq([id : IdType, inn : IdType, group : Nat, region : IdType]),
     groups : Seq([id : IdType])]

Values(list) == {list[i] : i \in DOMAIN list}

(* _index raises: two records have one key.                                *)
Repeats(list, field) ==
    \E i, j \in DOMAIN list : i # j /\ list[i][field] = list[j][field]

Has(list, field, key) == \E record \in Values(list) : record[field] = key

Get(list, field, key) == CHOOSE record \in Values(list) : record[field] = key
-----------------------------------------------------------------------------
(* SyncPlanTransformer: what it selects.                                   *)

NewObjects(x, c) == {o \in Values(x.objects) : ~Has(c.leads, "source", o.id)}

DeveloperOf(x, o) == Get(x.developers, "id", o.developer)

RequiredDevelopers(x, c) == {DeveloperOf(x, o) : o \in NewObjects(x, c)}

RequiredGroups(x, c) == {o.group : o \in NewObjects(x, c)} \ {None}

ManagerName(s, region) ==
    IF region \in DOMAIN s.assignment THEN s.assignment[region] ELSE s.default

Manager(s, c, region) == Get(c.managers, "name", ManagerName(s, region)).id

DefaultManager(s, c) == Get(c.managers, "name", s.default).id

IndexError(x, c) ==
    \/ Repeats(x.developers, "id")
    \/ Repeats(x.groups, "id")
    \/ Repeats(x.objects, "id")
    \/ Repeats(c.leads, "source")
    \/ Repeats(c.companies, "inn")
    \/ Repeats(c.groups, "source")
    \/ Repeats(c.managers, "name")

ManagerError(c, s) ==
    \/ ~Has(c.managers, "name", s.default)
    \/ \E region \in DOMAIN s.assignment :
          ~Has(c.managers, "name", ManagerName(s, region))

DeveloperErrorMissing(x, c) ==
    \E o \in NewObjects(x, c) : ~Has(x.developers, "id", o.developer)

DeveloperError(x, c) ==
    \/ \E o \in NewObjects(x, c) : ~Has(x.developers, "id", o.developer)
    \/ \E d, e \in RequiredDevelopers(x, c) : d # e /\ d.inn = e.inn

(* The developer's own group is compared with that of its objects, the     *)
(* groups of its objects with each other.                                  *)
GroupError(x, c) ==
    \/ \E o \in NewObjects(x, c) :
          o.group # None /\ DeveloperOf(x, o).group \notin {None, o.group}
    \/ \E o, p \in NewObjects(x, c) :
          /\ o.developer = p.developer
          /\ o.group # None /\ p.group # None /\ o.group # p.group
    \/ \E g \in RequiredGroups(x, c) : ~Has(x.groups, "id", g)

(* No TransformInputError is raised.                                       *)
Accepted(x, c, s) ==
    /\ ~IndexError(x, c)
    /\ ~ManagerError(c, s)
    /\ ~DeveloperError(x, c)
    /\ ~GroupError(x, c)
-----------------------------------------------------------------------------
(* SyncPlanTransformer: the operations it makes.                           *)

Literal(field, value) == [field |-> field, value |-> value]
Binding(field, source) == [field |-> field, source |-> source]

GroupOperation(g, s, c) ==
    [id |-> <<"group", g>>, command |-> "item", entity |-> "group", key |-> g,
     manager |-> DefaultManager(s, c), literals |-> {}, bindings |-> {}, dependencies |-> {}]

CompanyOperation(d, s, c) ==
    [id |-> <<"company", d.id>>, command |-> "item", entity |-> "company", key |-> None,
     manager |-> Manager(s, c, d.region), literals |-> {}, bindings |-> {},
     dependencies |-> {}]

RequisiteOperation(d) ==
    [id |-> <<"requisite", d.id>>, command |-> "requisite", entity |-> "company",
     key |-> d.inn, manager |-> None, literals |-> {},
     bindings |-> {Binding("owner", <<"company", d.id>>)}, dependencies |-> {}]

AddressOperation(d, kind) ==
    [id |-> <<kind, d.id>>, command |-> "address", entity |-> "requisite", key |-> None,
     manager |-> None, literals |-> {},
     bindings |-> {Binding("owner", <<"requisite", d.id>>)}, dependencies |-> {}]

AddressKinds == {"actual", "legal"}

DeveloperOperations(d, s, c) ==
    {CompanyOperation(d, s, c), RequisiteOperation(d)}
        \cup {AddressOperation(d, kind) : kind \in AddressKinds}

CompanyExists(c, d) == Has(c.companies, "inn", d.inn)

GroupExists(c, o) == Has(c.groups, "source", o.group)

LeadLiterals(x, c, o) ==
    LET d == DeveloperOf(x, o)
    IN  (IF CompanyExists(c, d)
         THEN {Literal("company", Get(c.companies, "inn", d.inn).id)} ELSE {})
        \cup
        (IF o.group # None /\ GroupExists(c, o)
         THEN {Literal("group", Get(c.groups, "source", o.group).id)} ELSE {})

LeadBindings(x, c, o) ==
    (IF CompanyExists(c, DeveloperOf(x, o))
     THEN {} ELSE {Binding("company", <<"company", o.developer>>)})
    \cup
    (IF o.group = None \/ GroupExists(c, o)
     THEN {} ELSE {Binding("group", <<"group", o.group>>)})

(* A lead waits for the whole of its new company.                          *)
LeadDependencies(x, c, o) ==
    IF CompanyExists(c, DeveloperOf(x, o)) THEN {}
    ELSE {<<kind, o.developer>> : kind \in AddressKinds \cup {"requisite"}}

LeadOperation(x, c, s, o) ==
    [id |-> <<"lead", o.id>>, command |-> "item", entity |-> "lead", key |-> o.id,
     manager |-> Manager(s, c, o.region), literals |-> LeadLiterals(x, c, o),
     bindings |-> LeadBindings(x, c, o), dependencies |-> LeadDependencies(x, c, o)]

GroupOperationsOfAll(x, c, s) ==
    {GroupOperation(g, s, c) : g \in RequiredGroups(x, c)}

GroupOperations(x, c, s) ==
    {GroupOperation(g, s, c) :
        g \in {h \in RequiredGroups(x, c) : ~Has(c.groups, "source", h)}}

CompanyOperations(x, c, s) ==
    UNION {DeveloperOperations(d, s, c) :
        d \in {e \in RequiredDevelopers(x, c) : ~CompanyExists(c, e)}}

LeadOperations(x, c, s) == {LeadOperation(x, c, s, o) : o \in NewObjects(x, c)}

Operations(x, c, s) ==
    GroupOperations(x, c, s) \cup CompanyOperations(x, c, s) \cup LeadOperations(x, c, s)

PlaceGroupsLast ==
    [group |-> <<4, 0>>, company |-> <<2, 1>>, requisite |-> <<2, 2>>,
     actual |-> <<2, 3>>, legal |-> <<2, 4>>, lead |-> <<3, 0>>]

(* Groups, then developers, then leads, by ascending ids; a developer's    *)
(* operations in this order.                                               *)
Place ==
    [group |-> <<1, 0>>, company |-> <<2, 1>>, requisite |-> <<2, 2>>,
     actual |-> <<2, 3>>, legal |-> <<2, 4>>, lead |-> <<3, 0>>]

Before(a, b) ==
    LET p == Place[a[1]]
        q == Place[b[1]]
    IN  \/ p[1] < q[1]
        \/ p[1] = q[1] /\ a[2] < b[2]
        \/ p[1] = q[1] /\ a[2] = b[2] /\ p[2] < q[2]
-----------------------------------------------------------------------------
(* SyncPlanValidator.                                                      *)

One(set) == \E e \in set : \A f \in set : f = e

Sources(op) == {b.source : b \in op.bindings} \cup op.dependencies

IdsUnique(plan) == \A a, b \in plan : a.id = b.id => a = b

(* A literal or one binding, and a literal that is an id.                  *)
OneReference(op, field) ==
    /\ One({l \in op.literals : l.field = field} \cup {b \in op.bindings : b.field = field})
    /\ \A l \in op.literals : l.field = field => l.value > 0

Mentions(op, field) ==
    \E r \in op.literals \cup op.bindings : r.field = field

CommandValid(op) ==
    CASE op.command = "item" ->
            /\ op.entity \in {"lead", "company", "group"}
            /\ op.entity = "lead" =>
                  /\ OneReference(op, "company")
                  /\ Mentions(op, "group") => OneReference(op, "group")
      [] op.command = "requisite" -> OneReference(op, "owner") /\ op.entity = "company"
      [] op.command = "address" -> OneReference(op, "owner") /\ op.entity = "requisite"

(* The kind of element a field refers to.                                  *)
SourceKindRight(op, field, producer) ==
    /\ op.command = "address" /\ field = "owner" => producer.command = "requisite"
    /\ op.command = "requisite" /\ field = "owner" =>
          producer.command = "item" /\ producer.entity = "company"
    /\ op.command = "item" /\ op.entity = "lead" /\ field \in {"company", "group"} =>
          producer.command = "item" /\ producer.entity = field

BindingsValid(plan, op) ==
    \A b \in op.bindings :
        /\ \A a \in op.bindings : a.field = b.field => a = b
        /\ \A l \in op.literals : l.field # b.field
        /\ \E producer \in plan :
              producer.id = b.source /\ SourceKindRight(op, b.field, producer)

DependenciesValid(plan, op) ==
    \A source \in op.dependencies :
        source # op.id /\ \E other \in plan : other.id = source

OrderValid(plan, op) ==
    \A source \in Sources(op) :
        \E other \in plan : other.id = source /\ Before(source, op.id)

ValidPlan(plan) ==
    /\ IdsUnique(plan)
    /\ \A op \in plan :
          /\ CommandValid(op)
          /\ BindingsValid(plan, op)
          /\ DependenciesValid(plan, op)
          /\ OrderValid(plan, op)
=============================================================================
