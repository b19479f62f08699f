--------------------------- MODULE SyncRunsProofs ---------------------------
(***************************************************************************)
(* SyncRuns for every number of runs, whatever each finds on the site and  *)
(* wherever it fails.                                                      *)
(*                                                                         *)
(* What keeps the CRM in order is what every element carries of the plan   *)
(* it was made from (Stands): its run accepted what it found against what  *)
(* it listed, the element is an operation of that plan, refers to elements *)
(* the same run made before it, and came after all its run listed.         *)
(***************************************************************************)
EXTENDS SyncRuns, TransformProofs, SequenceTheorems, WellFoundedInduction

Working == {"load", "waiting"}

Planned == Working \cup Over  \* a plan may have been made

PlanOf(r) == Operations(x[r], Context(r), Settings)

AcceptedBy(r) == x[r] \in OnSite /\ Accepted(x[r], Context(r), Settings)

(* Element k of the CRM was made for the operation id of run r, before     *)
(* place n.                                                                *)
MadeBefore(r, id, k, n) == k \in DOMAIN crm /\ k < n /\ crm[k].run = r /\ crm[k].id = id

(* The request or element e refers to what operation op of run r names.    *)
Wired(r, op, e, n) ==
    /\ \A l \in op.literals : e.refs[l.field] = l.value
    /\ \A b \in op.bindings : MadeBefore(r, b.source, e.refs[b.field], n)
    /\ \A source \in op.dependencies : \E k \in DOMAIN crm : MadeBefore(r, source, k, n)

InOrder(r) ==
    /\ seen[r].leads <= seen[r].companies
    /\ seen[r].companies <= seen[r].requisites
    /\ seen[r].requisites <= seen[r].groups

(* Request or element e, at place n of the CRM or to come there.           *)
Stands(e, n) ==
    /\ AcceptedBy(e.run)
    /\ InOrder(e.run)
    /\ seen[e.run].groups < n
    /\ \E op \in PlanOf(e.run) : e.id = op.id /\ e.key = op.key /\ Wired(e.run, op, e, n)

AllStand ==
    /\ \A k \in DOMAIN crm : Stands(crm[k], k)
    /\ \A e \in open : Stands(e, Len(crm) + 1)

Alike(e, f) == e.run = f.run /\ e.id = f.id

(* No operation of a run has two elements, in the CRM or still to come.    *)
OnceEach ==
    /\ \A k, l \in DOMAIN crm : Alike(crm[k], crm[l]) => k = l
    /\ \A k \in DOMAIN crm : \A e \in open : ~Alike(crm[k], e)
    /\ \A e, f \in open : Alike(e, f) => e = f

(* The operation whose answer run r waits for.                             *)
InFlight(r, id) == state[r] = "waiting" /\ \E op \in Todo(r) : op.id = id /\ IsNext(r, op)

Sent(e) ==
    \/ state[e.run] \in Over
    \/ state[e.run] \in Working /\ (e.id \in DOMAIN results[e.run] \/ InFlight(e.run, e.id))

AllSent == \A e \in open \cup Values(crm) : Sent(e)

PlanIsTheirs(r) ==
    IF state[r] \in Working
    THEN plans[r] = PlanOf(r) /\ AcceptedBy(r)
    ELSE plans[r] = {} /\ results[r] = <<>>

ResultsAreTheirs(r) ==
    \A id \in DOMAIN results[r] :
        results[r][id] = None \/ MadeBefore(r, id, results[r][id], Len(crm) + 1)

ListedInOrder(r) ==
    /\ state[r] \in {"requisites", "groups", "extract"} \cup Working =>
          seen[r].leads <= seen[r].companies
    /\ state[r] \in {"groups", "extract"} \cup Working =>
          seen[r].companies <= seen[r].requisites
    /\ state[r] \in {"extract"} \cup Working => seen[r].requisites <= seen[r].groups

UnusableForDuplicates(r) ==
    state[r] = "unusable" =>
        \E k, l \in Keyed : k < l /\ Same(k, l) /\ crm[k].kind # "lead"

Complete(r) ==
    state[r] = "succeeded" =>
        \A o \in Values(x[r].objects) :
            \E k \in DOMAIN crm : crm[k].kind = "lead" /\ crm[k].key = o.id

InHand(r) ==
    /\ PlanIsTheirs(r)
    /\ ResultsAreTheirs(r)
    /\ ListedInOrder(r)
    /\ UnusableForDuplicates(r)
    /\ Complete(r)

RunsInv ==
    /\ RunsTypeOK
    /\ AllStand
    /\ OnceEach
    /\ AllSent
    /\ \A r \in Runs : InHand(r)
-----------------------------------------------------------------------------
(* The CRM only grows.                                                     *)

Grows == crm' = crm \/ \E e \in open : crm' = Append(crm, e)

LEMMA GrowsAtEnd ==
    ASSUME RunsTypeOK, Grows
    PROVE  /\ Len(crm) \in Nat /\ DOMAIN crm = 1..Len(crm)
           /\ Len(crm') \in Nat /\ DOMAIN crm' = 1..Len(crm')
           /\ Len(crm) <= Len(crm')
           /\ \A k \in DOMAIN crm : k \in DOMAIN crm' /\ crm'[k] = crm[k]
           /\ crm' \in Seq(Elements)
<1>1. crm \in Seq(Elements) /\ open \subseteq Elements
    BY DEF RunsTypeOK
<1>2. CASE crm' = crm
    BY <1>1, <1>2, LenProperties
<1>3. ASSUME NEW e \in open, crm' = Append(crm, e)
      PROVE  /\ crm' \in Seq(Elements) /\ Len(crm') = Len(crm) + 1
             /\ \A k \in 1..Len(crm) : crm'[k] = crm[k]
    BY <1>1, <1>3, AppendProperties
<1> QED BY <1>1, <1>2, <1>3, LenProperties DEF Grows

(* What a listing found does not change while its extent stays.            *)
LEMMA ListedKept ==
    ASSUME RunsTypeOK, Grows, NEW kind, NEW n \in 0..Len(crm)
    PROVE  /\ Listed(kind, n)' = Listed(kind, n)
           /\ BySourceId(kind, n)' = BySourceId(kind, n)
<1>1. Listed(kind, n)' = Listed(kind, n)
    BY GrowsAtEnd DEF Listed
<1>2. \A k \in Listed(kind, n) : crm'[k] = crm[k]
    BY GrowsAtEnd DEF Listed
<1> QED BY <1>1, <1>2 DEF BySourceId

LEMMA RequisitesKept ==
    ASSUME RunsTypeOK, Grows, NEW n \in 0..Len(crm)
    PROVE  Requisites(n)' = Requisites(n)
<1>1. Listed("requisite", n)' = Listed("requisite", n)
    BY ListedKept
<1>2. \A k \in Listed("requisite", n) : crm'[k] = crm[k]
    BY GrowsAtEnd DEF Listed
<1> QED BY <1>1, <1>2 DEF Requisites

LEMMA ContextKept ==
    ASSUME RunsTypeOK, Grows, NEW r \in Runs, seen'[r] = seen[r]
    PROVE  Context(r)' = Context(r)
<1>1. /\ seen[r].leads \in 0..Len(crm) /\ seen[r].companies \in 0..Len(crm)
      /\ seen[r].requisites \in 0..Len(crm) /\ seen[r].groups \in 0..Len(crm)
    BY DEF RunsTypeOK, Listings, AfterListing
<1>2. /\ BySourceId("lead", seen[r].leads)' = BySourceId("lead", seen[r].leads)
      /\ BySourceId("group", seen[r].groups)' = BySourceId("group", seen[r].groups)
      /\ Listed("company", seen[r].companies)' = Listed("company", seen[r].companies)
      /\ Requisites(seen[r].requisites)' = Requisites(seen[r].requisites)
    BY <1>1, ListedKept, RequisitesKept
<1> QED BY <1>2 DEF Context
-----------------------------------------------------------------------------
(* What a run lists and what its context holds.                            *)

LEMMA Least ==
    ASSUME NEW S \in SUBSET Nat, S # {}
    PROVE  \E least \in S : \A other \in S : least <= other
<1>1. PICK least \in S : \A other \in S : <<other, least>> \notin OpToRel(<, Nat)
    BY NatLessThanWellFounded, WFMin
<1>2. \A other \in S : ~(other < least)
    BY <1>1 DEF OpToRel
<1> QED BY <1>2

LEMMA SourcesIndexed ==
    ASSUME NEW records, DOMAIN records \subseteq Nat,
           NEW pairs, pairs = SourceIdPairs(records)
    PROVE  /\ \A e \in Values(pairs) : \E i \in DOMAIN records : e = records[i]
           /\ \A i \in DOMAIN records :
                 records[i].source # None => Has(pairs, "source", records[i].source)
<1> DEFINE sourced == {i \in DOMAIN records : records[i].source # None}
           first == {i \in sourced :
                        \A j \in sourced : records[j].source = records[i].source => i <= j}
<1>1. pairs = [i \in first |-> records[i]]
    BY DEF SourceIdPairs, FirstOfSource, Sourced
<1>2. ASSUME NEW i \in sourced PROVE \E k \in first : records[k].source = records[i].source
    <2> DEFINE S == {j \in sourced : records[j].source = records[i].source}
    <2>1. S \in SUBSET Nat /\ S # {}
        BY <1>2
    <2>2. PICK k \in S : \A j \in S : k <= j
        BY <2>1, Least
    <2> QED BY <2>2
<1>3. DOMAIN pairs = first /\ \A i \in first : pairs[i] = records[i]
    BY <1>1
<1> HIDE DEF first
<1>4. \A i \in first : i \in DOMAIN records
    BY DEF first
<1>5. ASSUME NEW i \in sourced PROVE Has(pairs, "source", records[i].source)
    <2>1. PICK k \in first : records[k].source = records[i].source
        BY <1>2, <1>5
    <2>2. pairs[k] \in Values(pairs) /\ pairs[k].source = records[i].source
        BY <1>3, <2>1 DEF Values
    <2> QED BY <2>2 DEF Has
<1> QED BY <1>3, <1>4, <1>5 DEF Values

LEMMA InnsIndexed ==
    ASSUME NEW records, DOMAIN records \subseteq Nat, NEW companies,
           NEW index, index = ExistingDevelopers(companies, records)
    PROVE  /\ \A e \in Values(index) :
                 \E i \in DOMAIN records :
                     /\ records[i].inn = e.inn /\ records[i].owner = e.id
                     /\ e.id \in companies
           /\ \A i \in DOMAIN records :
                 records[i].inn # None /\ records[i].owner \in companies =>
                     Has(index, "inn", records[i].inn)
<1> DEFINE owned == {i \in DOMAIN records :
                        records[i].inn # None /\ records[i].owner \in companies}
           first == {i \in owned : \A j \in owned : records[j].inn = records[i].inn => i <= j}
<1>1. index = [i \in first |-> [inn |-> records[i].inn, id |-> records[i].owner]]
    BY DEF ExistingDevelopers, FirstOfInn, Owned
<1>2. ASSUME NEW i \in owned PROVE \E k \in first : records[k].inn = records[i].inn
    <2> DEFINE S == {j \in owned : records[j].inn = records[i].inn}
    <2>1. S \in SUBSET Nat /\ S # {}
        BY <1>2
    <2>2. PICK k \in S : \A j \in S : k <= j
        BY <2>1, Least
    <2> QED BY <2>2
<1> HIDE DEF first
<1>3. /\ DOMAIN index = first
      /\ \A i \in first : index[i].inn = records[i].inn /\ index[i].id = records[i].owner
    BY <1>1
<1>4. \A i \in first : i \in owned
    BY DEF first
<1>5. ASSUME NEW i \in owned PROVE Has(index, "inn", records[i].inn)
    <2>1. PICK k \in first : records[k].inn = records[i].inn
        BY <1>2, <1>5
    <2>2. index[k] \in Values(index) /\ index[k].inn = records[i].inn
        BY <1>3, <2>1 DEF Values
    <2> QED BY <2>2 DEF Has
<1> QED BY <1>3, <1>4, <1>5 DEF Values

LEMMA ContextParts ==
    ASSUME RunsTypeOK, NEW r \in Runs
    PROVE  /\ seen[r].leads \in Nat /\ seen[r].companies \in Nat
           /\ seen[r].requisites \in Nat /\ seen[r].groups \in Nat
           /\ seen[r].leads <= Len(crm) /\ seen[r].companies <= Len(crm)
           /\ seen[r].requisites <= Len(crm) /\ seen[r].groups <= Len(crm)
           /\ Len(crm) \in Nat /\ DOMAIN crm = 1..Len(crm)
           /\ \A k \in DOMAIN crm : crm[k] \in Elements
           /\ \A kind, n : Listed(kind, n) \subseteq 1..Len(crm)
<1>1. crm \in Seq(Elements)
    BY DEF RunsTypeOK
<1>2. Len(crm) \in Nat /\ DOMAIN crm = 1..Len(crm) /\ \A k \in DOMAIN crm : crm[k] \in Elements
    BY <1>1, LenProperties
<1>3. seen[r] \in [Listings -> 0..Len(crm)]
    BY DEF RunsTypeOK
<1>4. Listings = {"leads", "companies", "requisites", "groups"}
    BY DEF Listings, AfterListing
<1> QED BY <1>2, <1>3, <1>4 DEF Listed

(* What the context of a run holds is in the CRM.                          *)
LEMMA ContextInCrm ==
    ASSUME RunsTypeOK, NEW r \in Runs, NEW c, c = Context(r)
    PROVE  /\ \A e \in Values(c.leads) :
                 \E k \in DOMAIN crm : crm[k].kind = "lead" /\ crm[k].key = e.source
           /\ \A e \in Values(c.groups) :
                 /\ e.id \in DOMAIN crm /\ e.id <= seen[r].groups
                 /\ crm[e.id].kind = "group" /\ crm[e.id].key = e.source
           /\ \A e \in Values(c.companies) :
                 /\ e.id \in DOMAIN crm /\ e.id <= seen[r].companies
                 /\ \E k \in DOMAIN crm :
                       /\ crm[k].kind = "requisite" /\ k <= seen[r].requisites
                       /\ crm[k].key = e.inn /\ crm[k].refs["owner"] = e.id
<1> DEFINE leads == BySourceId("lead", seen[r].leads)
           groups == BySourceId("group", seen[r].groups)
           requisites == Requisites(seen[r].requisites)
           companies == Listed("company", seen[r].companies)
<1>1. /\ c.leads = SourceIdPairs(leads) /\ c.groups = SourceIdPairs(groups)
      /\ c.companies = ExistingDevelopers(companies, requisites)
    BY DEF Context
<1>2. /\ DOMAIN leads = Listed("lead", seen[r].leads)
      /\ \A i \in DOMAIN leads : leads[i].source = crm[i].key
      /\ DOMAIN groups = Listed("group", seen[r].groups)
      /\ \A i \in DOMAIN groups : groups[i].source = crm[i].key /\ groups[i].id = i
    BY DEF BySourceId
<1>3. /\ DOMAIN requisites = Listed("requisite", seen[r].requisites)
      /\ \A i \in DOMAIN requisites :
            requisites[i].inn = crm[i].key /\ requisites[i].owner = crm[i].refs["owner"]
    BY DEF Requisites
<1>4. /\ DOMAIN leads \subseteq Nat /\ DOMAIN groups \subseteq Nat
      /\ DOMAIN requisites \subseteq Nat
    BY <1>2, <1>3, ContextParts
<1> HIDE DEF leads, groups, requisites
<1>5. /\ \A e \in Values(c.leads) : \E i \in DOMAIN leads : e = leads[i]
      /\ \A e \in Values(c.groups) : \E i \in DOMAIN groups : e = groups[i]
    BY <1>1, <1>4, SourcesIndexed
<1>6. \A e \in Values(c.companies) :
          \E i \in DOMAIN requisites :
              requisites[i].inn = e.inn /\ requisites[i].owner = e.id /\ e.id \in companies
    BY <1>1, <1>4, InnsIndexed
<1>7. /\ \A k \in Listed("lead", seen[r].leads) : k \in DOMAIN crm /\ crm[k].kind = "lead"
      /\ \A k \in Listed("group", seen[r].groups) :
            k \in DOMAIN crm /\ crm[k].kind = "group" /\ k <= seen[r].groups
      /\ \A k \in Listed("requisite", seen[r].requisites) :
            k \in DOMAIN crm /\ crm[k].kind = "requisite" /\ k <= seen[r].requisites
      /\ \A k \in companies : k \in DOMAIN crm /\ k <= seen[r].companies
    BY DEF Listed
<1> HIDE DEF companies
<1>8. ASSUME NEW e \in Values(c.leads)
      PROVE  \E k \in DOMAIN crm : crm[k].kind = "lead" /\ crm[k].key = e.source
    BY <1>8, <1>2, <1>5, <1>7
<1>9. ASSUME NEW e \in Values(c.groups)
      PROVE  /\ e.id \in DOMAIN crm /\ e.id <= seen[r].groups
             /\ crm[e.id].kind = "group" /\ crm[e.id].key = e.source
    BY <1>9, <1>2, <1>5, <1>7
<1>10. ASSUME NEW e \in Values(c.companies)
       PROVE  /\ e.id \in DOMAIN crm /\ e.id <= seen[r].companies
              /\ \E k \in DOMAIN crm :
                    /\ crm[k].kind = "requisite" /\ k <= seen[r].requisites
                    /\ crm[k].key = e.inn /\ crm[k].refs["owner"] = e.id
    BY <1>10, <1>3, <1>6, <1>7
<1> QED BY <1>8, <1>9, <1>10

(* ... and what a run saw there is in its context.                         *)
LEMMA CrmInContext ==
    ASSUME RunsTypeOK, NEW r \in Runs, NEW c, c = Context(r),
           NEW k \in DOMAIN crm, crm[k].key # None
    PROVE  /\ crm[k].kind = "lead" /\ k <= seen[r].leads => Has(c.leads, "source", crm[k].key)
           /\ crm[k].kind = "group" /\ k <= seen[r].groups =>
                 Has(c.groups, "source", crm[k].key)
           /\ /\ crm[k].kind = "requisite" /\ k <= seen[r].requisites
              /\ crm[k].refs["owner"] \in Listed("company", seen[r].companies)
              => Has(c.companies, "inn", crm[k].key)
<1> DEFINE leads == BySourceId("lead", seen[r].leads)
           groups == BySourceId("group", seen[r].groups)
           requisites == Requisites(seen[r].requisites)
           companies == Listed("company", seen[r].companies)
<1>1. /\ c.leads = SourceIdPairs(leads) /\ c.groups = SourceIdPairs(groups)
      /\ c.companies = ExistingDevelopers(companies, requisites)
    BY DEF Context
<1>2. /\ DOMAIN leads = Listed("lead", seen[r].leads)
      /\ \A i \in DOMAIN leads : leads[i].source = crm[i].key
      /\ DOMAIN groups = Listed("group", seen[r].groups)
      /\ \A i \in DOMAIN groups : groups[i].source = crm[i].key
    BY DEF BySourceId
<1>3. /\ DOMAIN requisites = Listed("requisite", seen[r].requisites)
      /\ \A i \in DOMAIN requisites :
            requisites[i].inn = crm[i].key /\ requisites[i].owner = crm[i].refs["owner"]
    BY DEF Requisites
<1>4. /\ DOMAIN leads \subseteq Nat /\ DOMAIN groups \subseteq Nat
      /\ DOMAIN requisites \subseteq Nat
    BY <1>2, <1>3, ContextParts
<1> HIDE DEF leads, groups, requisites
<1>5. /\ k \in DOMAIN leads => Has(c.leads, "source", crm[k].key)
      /\ k \in DOMAIN groups => Has(c.groups, "source", crm[k].key)
    BY <1>1, <1>2, <1>4, SourcesIndexed
<1>6. k \in DOMAIN requisites /\ crm[k].refs["owner"] \in companies =>
          Has(c.companies, "inn", crm[k].key)
    BY <1>1, <1>3, <1>4, InnsIndexed
<1>7. /\ crm[k].kind = "lead" /\ k <= seen[r].leads => k \in DOMAIN leads
      /\ crm[k].kind = "group" /\ k <= seen[r].groups => k \in DOMAIN groups
      /\ crm[k].kind = "requisite" /\ k <= seen[r].requisites => k \in DOMAIN requisites
    BY <1>2, <1>3 DEF Listed
<1> QED BY <1>5, <1>6, <1>7

LEMMA ContextHolds ==
    ASSUME RunsTypeOK, NEW r \in Runs
    PROVE  HoldsIds(Context(r))
<1>1. \A k \in DOMAIN crm : k \in IdType
    BY ContextParts DEF IdType
<1> QED BY <1>1, ContextInCrm DEF HoldsIds
-----------------------------------------------------------------------------
(* The plan a run works on.                                                *)

LEMMA PlanKnown ==
    ASSUME RunsInv, NEW r \in Runs, AcceptedBy(r)
    PROVE  /\ x[r] \in Extracts /\ HoldsIds(Context(r)) /\ Accepted(x[r], Context(r), Settings)
           /\ ValidPlan(PlanOf(r))
           /\ \A op \in PlanOf(r) : op.id \in PlanIds
<1>1. /\ x[r] \in Extracts /\ HoldsIds(Context(r)) /\ Accepted(x[r], Context(r), Settings)
    BY ContextHolds, OnSiteAssumption DEF AcceptedBy, RunsInv
<1> QED BY <1>1, PlanValid, OperationTyped DEF PlanOf

LEMMA NextIsOne ==
    ASSUME RunsInv, NEW r \in Runs, state[r] \in Working,
           NEW a \in Todo(r), IsNext(r, a), NEW b \in Todo(r), IsNext(r, b)
    PROVE  a = b
<1>1. plans[r] = PlanOf(r) /\ AcceptedBy(r)
    BY DEF RunsInv, InHand, PlanIsTheirs
<1>2. a.id \in PlanIds /\ b.id \in PlanIds
    BY <1>1, PlanKnown DEF Todo
<1>3. a = b \/ (Before(a.id, b.id) /\ Before(b.id, a.id))
    BY DEF IsNext
<1> QED BY <1>2, <1>3, BeforeStrict

(* When its turn comes, all an operation waits for is done.                *)
LEMMA SourcesDone ==
    ASSUME RunsInv, NEW r \in Runs, state[r] \in Working,
           NEW op \in Todo(r), IsNext(r, op)
    PROVE  op \in PlanOf(r) /\ AcceptedBy(r) /\ Sources(op) \subseteq DOMAIN results[r]
<1>1. plans[r] = PlanOf(r) /\ AcceptedBy(r)
    BY DEF RunsInv, InHand, PlanIsTheirs
<1>2. op \in PlanOf(r) /\ op.id \notin DOMAIN results[r]
    BY <1>1 DEF Todo
<1>3. ASSUME NEW source \in Sources(op), source \notin DOMAIN results[r] PROVE FALSE
    <2>1. PICK q \in PlanOf(r) : q.id = source /\ Before(source, op.id)
        BY <1>1, <1>2, PlanKnown, SourcesBefore DEF PlanOf
    <2>2. q.id \in PlanIds /\ op.id \in PlanIds
        BY <1>1, <1>2, PlanKnown
    <2>3. q # op
        BY <2>1, <2>2, BeforeStrict
    <2>4. q \in Todo(r)
        BY <1>1, <1>3, <2>1 DEF Todo
    <2>5. Before(op.id, q.id)
        BY <2>3, <2>4 DEF IsNext
    <2> QED BY <2>1, <2>2, <2>5, BeforeStrict
<1> QED BY <1>1, <1>2, <1>3

(* What a step of one run, or of Bitrix24, leaves as it was.               *)

LEMMA ElementFacts ==
    ASSUME RunsInv, NEW e \in open \cup Values(crm)
    PROVE  e \in Elements /\ e.run \in Runs /\ e.kind = e.id[1] /\ state[e.run] \in Planned
<1>1. e \in Elements /\ e.kind = e.id[1]
    BY ValuesType DEF RunsInv, RunsTypeOK
<1>2. e.run \in Runs
    BY <1>1 DEF Elements
<1>3. Sent(e)
    BY DEF RunsInv, AllSent
<1> QED BY <1>1, <1>2, <1>3 DEF Sent, Planned

LEMMA StandsKept ==
    ASSUME RunsTypeOK, Grows, NEW e, NEW n, e.run \in Runs,
           seen'[e.run] = seen[e.run], x'[e.run] = x[e.run], Stands(e, n)
    PROVE  Stands(e, n)'
<1>1. Context(e.run)' = Context(e.run)
    BY ContextKept
<1>2. PlanOf(e.run)' = PlanOf(e.run) /\ AcceptedBy(e.run)'
    BY <1>1 DEF PlanOf, AcceptedBy, Stands
<1>3. InOrder(e.run)' /\ seen'[e.run].groups < n
    BY DEF InOrder, Stands
<1>4. ASSUME NEW id, NEW k, MadeBefore(e.run, id, k, n) PROVE MadeBefore(e.run, id, k, n)'
    BY <1>4, GrowsAtEnd DEF MadeBefore
<1>5. PICK op \in PlanOf(e.run) : e.id = op.id /\ e.key = op.key /\ Wired(e.run, op, e, n)
    BY DEF Stands
<1>6. Wired(e.run, op, e, n)'
    <2>1. \A l \in op.literals : e.refs[l.field] = l.value
        BY <1>5 DEF Wired
    <2>2. \A b \in op.bindings : MadeBefore(e.run, b.source, e.refs[b.field], n)'
        BY <1>4, <1>5 DEF Wired
    <2>3. ASSUME NEW source \in op.dependencies
          PROVE  \E k \in DOMAIN crm' : MadeBefore(e.run, source, k, n)'
        <3>1. PICK k \in DOMAIN crm : MadeBefore(e.run, source, k, n)
            BY <1>5, <2>3 DEF Wired
        <3> QED BY <3>1, <1>4, GrowsAtEnd
    <2> QED BY <2>1, <2>2, <2>3 DEF Wired
<1> QED BY <1>2, <1>3, <1>5, <1>6 DEF Stands

(* Run q lists and extracts nothing.                                       *)
Settled(q) == seen'[q] = seen[q] /\ x'[q] = x[q]

(* Run q does nothing.                                                     *)
Idle(q) ==
    /\ Settled(q)
    /\ state'[q] = state[q] /\ plans'[q] = plans[q] /\ results'[q] = results[q]

LEMMA ElementsStand ==
    ASSUME RunsInv, Grows, \A q \in Runs : state[q] \in Planned => Settled(q),
           NEW e \in open \cup Values(crm), NEW n, Stands(e, n)
    PROVE  Stands(e, n)'
BY ElementFacts, StandsKept DEF Settled, RunsInv

LEMMA AllStandKept ==
    ASSUME RunsInv, UNCHANGED crm, open' \subseteq open,
           \A q \in Runs : state[q] \in Planned => Settled(q)
    PROVE  AllStand'
<1>1. Grows
    BY DEF Grows
<1>2. ASSUME NEW k \in DOMAIN crm PROVE Stands(crm[k], k)'
    <2>1. PICK e : e = crm[k] /\ e \in Values(crm)
        BY DEF Values
    <2>2. Stands(e, k)
        BY <2>1 DEF RunsInv, AllStand
    <2>3. Stands(e, k)'
        BY <1>1, <2>1, <2>2, ElementsStand
    <2> QED BY <2>1, <2>3
<1>3. ASSUME NEW e \in open PROVE Stands(e, Len(crm) + 1)'
    <2>1. PICK n : n = Len(crm) + 1
        OBVIOUS
    <2>2. Stands(e, n)
        BY <2>1 DEF RunsInv, AllStand
    <2>3. Stands(e, n)'
        BY <1>1, <2>2, ElementsStand
    <2> QED BY <2>1, <2>3
<1> QED BY <1>2, <1>3 DEF AllStand

LEMMA OnceEachKept ==
    ASSUME RunsInv, UNCHANGED crm, open' \subseteq open
    PROVE  OnceEach'
BY DEF RunsInv, OnceEach, Alike

LEMMA SentKept ==
    ASSUME NEW e, e.run \in Runs, Idle(e.run), Sent(e)
    PROVE  Sent(e)'
BY DEF Sent, InFlight, Todo, IsNext, Idle

LEMMA InHandKept ==
    ASSUME RunsInv, Grows, NEW q \in Runs, Idle(q)
    PROVE  InHand(q)'
<1> USE DEF Idle, Settled
<1>0. InHand(q) /\ RunsTypeOK
    BY DEF RunsInv
<1>1. Context(q)' = Context(q)
    BY <1>0, ContextKept
<1>2. PlanIsTheirs(q)'
    BY <1>0, <1>1 DEF InHand, PlanIsTheirs, PlanOf, AcceptedBy
<1>3. ResultsAreTheirs(q)'
    <2>1. ASSUME NEW id, NEW k, MadeBefore(q, id, k, Len(crm) + 1)
          PROVE  MadeBefore(q, id, k, Len(crm) + 1)'
        BY <1>0, <2>1, GrowsAtEnd DEF MadeBefore
    <2> QED BY <1>0, <2>1 DEF InHand, ResultsAreTheirs
<1>4. ListedInOrder(q)'
    BY <1>0 DEF InHand, ListedInOrder
<1>5. UnusableForDuplicates(q)'
    BY <1>0, GrowsAtEnd DEF InHand, UnusableForDuplicates, Keyed, Same
<1>6. Complete(q)'
    BY <1>0, GrowsAtEnd DEF InHand, Complete
<1> QED BY <1>2, <1>3, <1>4, <1>5, <1>6 DEF InHand
-----------------------------------------------------------------------------
(* Init and the steps of a run.                                            *)

LEMMA RunsInvInit == ASSUME RunsInit PROVE RunsInv
<1> USE DEF RunsInit
<1>0. crm = <<>> /\ DOMAIN crm = {} /\ Len(crm) = 0 /\ Values(crm) = {} /\ open = {}
    BY DEF Values
<1>1. RunsTypeOK
    <2>1. Listings = {"leads", "companies", "requisites", "groups"}
        BY DEF Listings, AfterListing
    <2>2. state \in [Runs -> States]
        BY <2>1 DEF States
    <2>3. seen \in [Runs -> [Listings -> 0..Len(crm)]]
        BY <1>0
    <2>4. crm \in Seq(Elements)
        BY <1>0
    <2> QED BY <1>0, <2>2, <2>3, <2>4 DEF RunsTypeOK
<1>2. AllStand /\ OnceEach /\ AllSent
    BY <1>0 DEF AllStand, OnceEach, AllSent
<1>3. ASSUME NEW r \in Runs PROVE InHand(r)
    BY <1>3 DEF InHand, PlanIsTheirs, ResultsAreTheirs, ListedInOrder, UnusableForDuplicates,
        Complete, Working
<1> QED BY <1>1, <1>2, <1>3 DEF RunsInv

(* A step of run r that leaves the CRM and its requests alone.             *)
LEMMA RunStep ==
    ASSUME RunsInv, NEW r \in Runs, UNCHANGED <<crm, open>>, RunsTypeOK',
           \A q \in Runs \ {r} : Idle(q),
           state[r] \in Planned => Settled(r),
           \A e \in open \cup Values(crm) : e.run = r => Sent(e)',
           InHand(r)'
    PROVE  RunsInv'
<1>1. Grows
    BY DEF Grows
<1>2. AllStand' /\ OnceEach'
    BY AllStandKept, OnceEachKept DEF Idle
<1>3. ASSUME NEW e \in open \cup Values(crm) PROVE Sent(e)'
    <2>1. e.run \in Runs /\ Sent(e)
        BY ElementFacts DEF RunsInv, AllSent
    <2>2. e.run # r => Sent(e)'
        BY <2>1, SentKept
    <2> QED BY <2>2
<1>4. AllSent'
    <2>1. open' = open /\ Values(crm') = Values(crm)
        BY DEF Values
    <2> QED BY <1>3, <2>1 DEF AllSent
<1>5. \A q \in Runs : InHand(q)'
    BY <1>1, InHandKept
<1> QED BY <1>2, <1>4, <1>5 DEF RunsInv

LEMMA TypeStep ==
    ASSUME RunsTypeOK, UNCHANGED crm, open' \subseteq open,
           state' \in [Runs -> States],
           seen' \in [Runs -> [Listings -> 0..Len(crm)]],
           x' \in [Runs -> OnSite \cup {Nothing}],
           DOMAIN plans' = Runs, DOMAIN results' = Runs,
           \A q \in Runs : DOMAIN results'[q] \subseteq {op.id : op \in plans'[q]}
    PROVE  RunsTypeOK'
<1>1. Values(crm') = Values(crm)
    BY DEF Values
<1> QED BY <1>1 DEF RunsTypeOK

(* Who has an element or a request made a plan.                            *)
LEMMA NotPlannedYet ==
    ASSUME RunsInv, NEW r \in Runs, state[r] \notin Planned
    PROVE  \A e \in open \cup Values(crm) : e.run # r
BY ElementFacts

(* A listing is unusable only for two elements with one key.               *)
LEMMA UnusableMeans ==
    ASSUME RunsTypeOK, NEW list, NEW found, Unusable(list, found)
    PROVE  \E k, l \in Keyed : k < l /\ Same(k, l) /\ crm[k].kind # "lead"
<1>0. \A k \in DOMAIN crm : k \in Nat
    BY GrowsAtEnd DEF Grows
<1>1. ASSUME NEW k \in Keyed, NEW l \in Keyed, k # l, Same(k, l),
             crm[k].kind # "lead"
      PROVE  \E i, j \in Keyed : i < j /\ Same(i, j) /\ crm[i].kind # "lead"
    <2>1. k \in Nat /\ l \in Nat /\ Same(l, k) /\ crm[l].kind # "lead"
        BY <1>0, <1>1 DEF Keyed, Same
    <2>2. k < l \/ l < k
        BY <2>1, <1>1
    <2> QED BY <1>1, <2>1, <2>2
<1>2. CASE InnAmbiguous(Listed("company", found.companies), Requisites(found.requisites))
    <2> DEFINE requisites == Requisites(found.requisites)
    <2>1. PICK i \in DOMAIN requisites, j \in DOMAIN requisites :
              requisites[i].inn = requisites[j].inn /\ requisites[i].owner # requisites[j].owner
        BY <1>2 DEF InnAmbiguous, Owned
    <2>2. /\ DOMAIN requisites = Listed("requisite", found.requisites)
          /\ \A k \in DOMAIN requisites : requisites[k].inn = crm[k].key
        BY DEF Requisites
    <2> HIDE DEF requisites
    <2>3. i # j /\ crm[i].key = crm[j].key
        BY <2>1, <2>2
    <2>4. i \in Keyed /\ j \in Keyed /\ Same(i, j) /\ crm[i].kind # "lead"
        BY <2>1, <2>2, <2>3 DEF Listed, Keyed, Same
    <2> QED BY <1>1, <2>3, <2>4
<1>3. CASE SourceRepeats(BySourceId("group", found.groups))
    <2> DEFINE groups == BySourceId("group", found.groups)
    <2>1. PICK i \in DOMAIN groups, j \in DOMAIN groups :
              groups[i].source = groups[j].source /\ ~(i <= j)
        BY <1>3 DEF SourceRepeats, FirstOfSource, Sourced
    <2>2. /\ DOMAIN groups = Listed("group", found.groups)
          /\ \A k \in DOMAIN groups : groups[k].source = crm[k].key
        BY DEF BySourceId
    <2> HIDE DEF groups
    <2>3. i \in Keyed /\ j \in Keyed /\ Same(i, j) /\ crm[i].kind # "lead"
        BY <2>1, <2>2 DEF Listed, Keyed, Same
    <2>4. i # j
        BY <1>0, <2>1, <2>3 DEF Keyed
    <2> QED BY <1>1, <2>3, <2>4
<1> QED BY <1>2, <1>3 DEF Unusable

LEMMA ListStep == ASSUME RunsInv, NEW r \in Runs, List(r) PROVE RunsInv'
<1> USE DEF List
<1>0. RunsTypeOK /\ InHand(r)
    BY DEF RunsInv
<1>1. Listings = {"leads", "companies", "requisites", "groups"}
    BY DEF Listings, AfterListing
<1>2. state[r] \in {"leads", "companies", "requisites", "groups"} /\ state[r] \notin Planned
    BY <1>1 DEF Planned, Working, Over
<1>3. /\ seen' = [seen EXCEPT ![r] = [seen[r] EXCEPT ![state[r]] = Len(crm)]]
      /\ seen \in [Runs -> [Listings -> 0..Len(crm)]]
      /\ Len(crm) \in Nat
    BY <1>0, ContextParts DEF RunsTypeOK
<1>4. /\ seen' \in [Runs -> [Listings -> 0..Len(crm)]]
      /\ seen'[r][state[r]] = Len(crm)
      /\ \A list \in Listings : list # state[r] => seen'[r][list] = seen[r][list]
      /\ \A q \in Runs : q # r => seen'[q] = seen[q]
    BY <1>2, <1>3
<1>5. /\ state' = [state EXCEPT ![r] = state'[r]]
      /\ state'[r] \in {AfterListing[state[r]], "unusable"}
    BY <1>0 DEF RunsTypeOK
<1>6. AfterListing[state[r]] \in {"companies", "requisites", "groups", "extract"}
    BY <1>2 DEF AfterListing
<1>7. state' \in [Runs -> States] /\ \A q \in Runs : q # r => state'[q] = state[q]
    BY <1>0, <1>1, <1>5, <1>6 DEF RunsTypeOK, States, Over
<1>8. RunsTypeOK'
    BY <1>0, <1>4, <1>7, TypeStep DEF RunsTypeOK
<1>9. \A q \in Runs \ {r} : Idle(q)
    BY <1>4, <1>7 DEF Idle, Settled
<1>10. InHand(r)'
    <2>1. PlanIsTheirs(r)'
        BY <1>0, <1>2, <1>5, <1>6 DEF InHand, PlanIsTheirs, Working, Planned, Over
    <2>2. ResultsAreTheirs(r)'
        BY <2>1, <1>2, <1>5, <1>6 DEF PlanIsTheirs, ResultsAreTheirs, Working
    <2>3. ListedInOrder(r)'
        <3>1. /\ seen[r].leads \in 0..Len(crm) /\ seen[r].companies \in 0..Len(crm)
              /\ seen[r].requisites \in 0..Len(crm)
            BY <1>1, <1>3
        <3>2. CASE state[r] = "leads"
            <4>1. state'[r] \in {"companies", "unusable"}
                BY <3>2, <1>5 DEF AfterListing
            <4> QED BY <4>1 DEF ListedInOrder, Working
        <3>3. CASE state[r] = "companies"
            <4>1. state'[r] \in {"requisites", "unusable"}
                BY <3>3, <1>5 DEF AfterListing
            <4>2. seen'[r].companies = Len(crm) /\ seen'[r].leads = seen[r].leads
                BY <1>1, <1>4, <3>3
            <4> QED BY <3>1, <4>1, <4>2, <1>3 DEF ListedInOrder, Working
        <3>4. CASE state[r] = "requisites"
            <4>1. state'[r] \in {"groups", "unusable"}
                BY <3>4, <1>5 DEF AfterListing
            <4>2. /\ seen'[r].requisites = Len(crm) /\ seen'[r].leads = seen[r].leads
                  /\ seen'[r].companies = seen[r].companies
                BY <1>1, <1>4, <3>4
            <4> QED BY <1>0, <3>1, <3>4, <4>1, <4>2, <1>3 DEF InHand, ListedInOrder, Working
        <3>5. CASE state[r] = "groups"
            <4>1. state'[r] \in {"extract", "unusable"}
                BY <3>5, <1>5 DEF AfterListing
            <4>2. /\ seen'[r].groups = Len(crm) /\ seen'[r].leads = seen[r].leads
                  /\ seen'[r].companies = seen[r].companies
                  /\ seen'[r].requisites = seen[r].requisites
                BY <1>1, <1>4, <3>5
            <4> QED BY <1>0, <3>1, <3>5, <4>1, <4>2, <1>3 DEF InHand, ListedInOrder, Working
        <3> QED BY <1>2, <3>2, <3>3, <3>4, <3>5
    <2>4. UnusableForDuplicates(r)'
        <3> SUFFICES ASSUME state'[r] = "unusable"
                     PROVE  \E k, l \in Keyed :
                                k < l /\ Same(k, l) /\ crm[k].kind # "lead"
            BY DEF UnusableForDuplicates, Keyed, Same
        <3>1. PICK found : found = seen'[r] /\ Unusable(state[r], found)
            BY <1>0, <1>6 DEF RunsTypeOK
        <3> QED BY <3>1, UnusableMeans, <1>0
    <2>5. Complete(r)'
        BY <1>5, <1>6 DEF Complete
    <2> QED BY <2>1, <2>2, <2>3, <2>4, <2>5 DEF InHand
<1> QED BY <1>2, <1>8, <1>9, <1>10, NotPlannedYet, RunStep

LEMMA ExtractAndTransformStep ==
    ASSUME RunsInv, NEW r \in Runs, ExtractAndTransform(r) PROVE RunsInv'
<1> USE DEF ExtractAndTransform
<1>0. RunsTypeOK /\ InHand(r)
    BY DEF RunsInv
<1>1. state[r] = "extract" /\ state[r] \notin Planned
    BY DEF Planned, Working, Over
<1>2. plans[r] = {} /\ results[r] = <<>>
    BY <1>0, <1>1 DEF InHand, PlanIsTheirs, Working
<1>3. PICK found \in OnSite :
          /\ x' = [x EXCEPT ![r] = found]
          /\ IF Accepted(found, Context(r), Settings)
             THEN /\ plans' = [plans EXCEPT ![r] = Operations(found, Context(r), Settings)]
                  /\ state' = [state EXCEPT ![r] = "load"]
             ELSE /\ state' = [state EXCEPT ![r] = "failed"]
                  /\ UNCHANGED plans
    OBVIOUS
<1>4. /\ x' \in [Runs -> OnSite \cup {Nothing}] /\ x'[r] = found
      /\ state' \in [Runs -> States] /\ DOMAIN plans' = Runs
      /\ \A q \in Runs \ {r} : x'[q] = x[q] /\ plans'[q] = plans[q] /\ state'[q] = state[q]
    BY <1>0, <1>3 DEF RunsTypeOK, States, Over
<1>5. RunsTypeOK'
    <2>1. ASSUME NEW q \in Runs PROVE DOMAIN results'[q] \subseteq {op.id : op \in plans'[q]}
        <3>1. CASE q = r
            <4>1. DOMAIN results'[q] = {}
                BY <1>2, <3>1
            <4> QED BY <4>1
        <3>2. CASE q # r
            <4>1. results'[q] = results[q] /\ plans'[q] = plans[q]
                BY <1>4, <3>2
            <4> QED BY <1>0, <4>1 DEF RunsTypeOK
        <3> QED BY <3>1, <3>2
    <2> QED BY <1>0, <1>4, <2>1, TypeStep DEF RunsTypeOK
<1>6. \A q \in Runs \ {r} : Idle(q)
    BY <1>4 DEF Idle, Settled
<1>7. Context(r)' = Context(r)
    BY <1>0, ContextKept DEF Grows
<1>8. InHand(r)'
    <2>1. CASE Accepted(found, Context(r), Settings)
        <3>1. state'[r] = "load" /\ plans'[r] = Operations(found, Context(r), Settings)
            BY <1>0, <1>3, <2>1 DEF RunsTypeOK
        <3>2. PlanIsTheirs(r)'
            BY <1>4, <1>7, <2>1, <3>1 DEF PlanIsTheirs, PlanOf, AcceptedBy, Working
        <3>3. ListedInOrder(r)'
            BY <1>0, <1>1 DEF InHand, ListedInOrder
        <3> QED BY <1>2, <3>1, <3>2, <3>3
            DEF InHand, ResultsAreTheirs, UnusableForDuplicates, Complete
    <2>2. CASE ~Accepted(found, Context(r), Settings)
        <3>1. state'[r] = "failed" /\ plans'[r] = {}
            BY <1>0, <1>2, <1>3, <2>2 DEF RunsTypeOK
        <3> QED BY <1>2, <3>1
            DEF InHand, PlanIsTheirs, ResultsAreTheirs, ListedInOrder, UnusableForDuplicates,
                Complete, Working
    <2> QED BY <2>1, <2>2
<1> QED BY <1>1, <1>5, <1>6, <1>8, NotPlannedYet, RunStep

(* An operation is done with: the element created, or None.                *)
LEMMA Recorded ==
    ASSUME RunsInv, NEW r \in Runs, state[r] \in Working, UNCHANGED <<crm, seen, x, plans>>,
           open' \subseteq open, NEW op \in Todo(r), IsNext(r, op), NEW element,
           Record(r, op, element), state' = [state EXCEPT ![r] = "load"],
           element = None \/ MadeBefore(r, op.id, element, Len(crm) + 1)
    PROVE  RunsInv'
<1>0. RunsTypeOK /\ InHand(r) /\ Grows
    BY DEF RunsInv, Grows
<1>1. op \in plans[r] /\ op.id \notin DOMAIN results[r]
    BY DEF Todo
<1>2. /\ DOMAIN results' = Runs
      /\ results'[r] = [id \in DOMAIN results[r] \cup {op.id} |->
                           IF id = op.id THEN element ELSE results[r][id]]
      /\ \A q \in Runs \ {r} : results'[q] = results[q]
    BY <1>0 DEF Record, RunsTypeOK
<1>3. /\ state' \in [Runs -> States] /\ state'[r] = "load"
      /\ \A q \in Runs \ {r} : state'[q] = state[q]
    BY <1>0 DEF RunsTypeOK, States
<1>4. RunsTypeOK'
    <2>1. ASSUME NEW q \in Runs PROVE DOMAIN results'[q] \subseteq {p.id : p \in plans'[q]}
        <3>1. DOMAIN results[q] \subseteq {p.id : p \in plans[q]}
            BY <1>0 DEF RunsTypeOK
        <3>2. q # r => results'[q] = results[q]
            BY <1>2
        <3>3. q = r => DOMAIN results'[q] = DOMAIN results[q] \cup {op.id}
            BY <1>2
        <3> QED BY <1>1, <3>1, <3>2, <3>3
    <2> QED BY <1>0, <1>2, <1>3, <2>1, TypeStep DEF RunsTypeOK
<1>5. \A q \in Runs : Settled(q)
    BY DEF Settled
<1>6. \A q \in Runs \ {r} : Idle(q)
    BY <1>2, <1>3, <1>5 DEF Idle
<1>7. AllStand' /\ OnceEach'
    BY <1>5, AllStandKept, OnceEachKept
<1>8. ASSUME NEW e \in open \cup Values(crm) PROVE Sent(e)'
    <2>1. e.run \in Runs /\ Sent(e)
        BY ElementFacts DEF RunsInv, AllSent
    <2>2. CASE e.run # r
        BY <1>6, <2>1, <2>2, SentKept
    <2>3. CASE e.run = r
        <3>1. e.id \in DOMAIN results[r] \/ InFlight(r, e.id)
            BY <2>1, <2>3 DEF Sent, Working, Over
        <3>2. e.id \in DOMAIN results[r] \/ e.id = op.id
            BY <3>1, NextIsOne DEF InFlight
        <3>3. e.id \in DOMAIN results'[r]
            BY <1>2, <3>2
        <3> QED BY <1>3, <2>3, <3>3 DEF Sent, Working
    <2> QED BY <2>2, <2>3
<1>9. AllSent'
    <2>1. open' \subseteq open /\ Values(crm') = Values(crm)
        BY DEF Values
    <2> QED BY <1>8, <2>1 DEF AllSent
<1>10. InHand(r)'
    <2>1. Context(r)' = Context(r)
        BY <1>0, ContextKept
    <2>2. PlanIsTheirs(r)'
        BY <1>0, <1>3, <2>1 DEF InHand, PlanIsTheirs, PlanOf, AcceptedBy, Working
    <2>3. ResultsAreTheirs(r)'
        BY <1>0, <1>2 DEF InHand, ResultsAreTheirs, MadeBefore
    <2>4. ListedInOrder(r)'
        BY <1>0, <1>3 DEF InHand, ListedInOrder, Working
    <2> QED BY <1>3, <2>2, <2>3, <2>4 DEF InHand, UnusableForDuplicates, Complete
<1>11. \A q \in Runs : InHand(q)'
    BY <1>0, <1>6, <1>10, InHandKept
<1> QED BY <1>4, <1>7, <1>9, <1>11 DEF RunsInv

LEMMA BlockStep == ASSUME RunsInv, NEW r \in Runs, Block(r) PROVE RunsInv'
<1>1. PICK op \in Todo(r) : IsNext(r, op) /\ Record(r, op, None)
    BY DEF Block
<1>2. /\ state[r] \in Working /\ UNCHANGED <<crm, seen, x, plans>> /\ open' \subseteq open
      /\ state' = [state EXCEPT ![r] = "load"]
    BY DEF Block, Working, RunsInv, RunsTypeOK
<1> QED BY <1>1, <1>2, Recorded

LEMMA AnswerStep == ASSUME RunsInv, NEW r \in Runs, Answer(r) PROVE RunsInv'
<1>1. PICK op \in Todo(r) :
          IsNext(r, op) /\ (Succeed(r, op) \/ Fail(r, op) \/ Uncertain(r, op))
    BY DEF Answer
<1>2. state[r] \in Working
    BY DEF Answer, Working
<1>3. CASE Succeed(r, op)
    <2>1. PICK k \in DOMAIN crm : crm[k].run = r /\ crm[k].id = op.id /\ Answered(r, op, k)
        BY <1>3 DEF Succeed
    <2>2. MadeBefore(r, op.id, k, Len(crm) + 1)
        BY <2>1, GrowsAtEnd DEF MadeBefore, RunsInv, Grows
    <2>3. UNCHANGED <<crm, seen, x, plans>> /\ open' \subseteq open
        BY <1>3, <2>1 DEF Succeed, Answered
    <2> QED BY <1>1, <1>2, <2>1, <2>2, <2>3, Recorded DEF Answered
<1>4. CASE Fail(r, op)
    <2>1. Answered(r, op, None) /\ UNCHANGED <<crm, seen, x, plans>> /\ open' \subseteq open
        BY <1>4 DEF Fail, Answered
    <2> QED BY <1>1, <1>2, <2>1, Recorded DEF Answered
<1>5. CASE Uncertain(r, op)
    <2>1. Answered(r, op, None) /\ UNCHANGED <<crm, seen, x, plans>> /\ open' \subseteq open
        BY <1>5 DEF Uncertain, Answered
    <2> QED BY <1>1, <1>2, <2>1, Recorded DEF Answered
<1> QED BY <1>1, <1>3, <1>4, <1>5

(* A run is over: nothing of it is left in memory.                         *)
LEMMA Ended ==
    ASSUME RunsInv, NEW r \in Runs, UNCHANGED <<crm, open, seen, x>>, Forget(r),
           NEW end \in Over, end # "unusable", state' = [state EXCEPT ![r] = end],
           Complete(r)'
    PROVE  RunsInv'
<1>0. RunsTypeOK /\ InHand(r)
    BY DEF RunsInv
<1>1. /\ state' \in [Runs -> States] /\ state'[r] = end
      /\ \A q \in Runs \ {r} : state'[q] = state[q]
    BY <1>0 DEF RunsTypeOK, States
<1>2. /\ DOMAIN plans' = Runs /\ DOMAIN results' = Runs
      /\ plans'[r] = {} /\ results'[r] = <<>>
      /\ \A q \in Runs \ {r} : plans'[q] = plans[q] /\ results'[q] = results[q]
    BY <1>0 DEF Forget, RunsTypeOK
<1>3. RunsTypeOK'
    <2>1. ASSUME NEW q \in Runs PROVE DOMAIN results'[q] \subseteq {op.id : op \in plans'[q]}
        <3>1. DOMAIN results[q] \subseteq {op.id : op \in plans[q]}
            BY <1>0 DEF RunsTypeOK
        <3>2. q # r => results'[q] = results[q] /\ plans'[q] = plans[q]
            BY <1>2
        <3>3. q = r => DOMAIN results'[q] = {}
            BY <1>2
        <3> QED BY <3>1, <3>2, <3>3
    <2> QED BY <1>0, <1>1, <1>2, <2>1, TypeStep DEF RunsTypeOK
<1>4. \A q \in Runs : Settled(q)
    BY DEF Settled
<1>5. \A q \in Runs \ {r} : Idle(q)
    BY <1>1, <1>2, <1>4 DEF Idle
<1>6. \A e \in open \cup Values(crm) : e.run = r => Sent(e)'
    BY <1>1 DEF Sent
<1>7. InHand(r)'
    BY <1>1, <1>2
    DEF InHand, PlanIsTheirs, ResultsAreTheirs, ListedInOrder, UnusableForDuplicates,
        Working, Over
<1> QED BY <1>3, <1>4, <1>5, <1>6, <1>7, RunStep

LEMMA StopStep == ASSUME RunsInv, NEW r \in Runs, Stop(r) PROVE RunsInv'
<1>1. Complete(r)'
    BY DEF Stop, Complete, RunsInv, RunsTypeOK
<1> QED BY <1>1, Ended DEF Stop, Over

(* What an element of the CRM carries of its plan.                         *)
LEMMA OperationOf ==
    ASSUME RunsInv, NEW k \in DOMAIN crm, NEW r, r = crm[k].run
    PROVE  /\ r \in Runs /\ AcceptedBy(r) /\ InOrder(r)
           /\ seen[r].groups < k
           /\ crm[k] \in Elements /\ crm[k].kind = crm[k].id[1]
           /\ \E op \in PlanOf(r) :
                 crm[k].id = op.id /\ crm[k].key = op.key /\ Wired(r, op, crm[k], k)
<1>1. crm[k] \in open \cup Values(crm)
    BY DEF Values
<1>2. Stands(crm[k], k)
    BY DEF RunsInv, AllStand
<1> QED BY <1>1, <1>2, ElementFacts DEF Stands

LEMMA FinishStep == ASSUME RunsInv, NEW r \in Runs, Finish(r) PROVE RunsInv'
<1>0. RunsTypeOK /\ InHand(r)
    BY DEF RunsInv
<1>1. /\ state[r] = "load" /\ Todo(r) = {} /\ Forget(r) /\ UNCHANGED <<crm, open, seen, x>>
      /\ state' = [state EXCEPT ![r] =
            IF \E id \in DOMAIN results[r] : results[r][id] = None THEN "incomplete"
            ELSE "succeeded"]
    BY DEF Finish
<1>2. CASE \E id \in DOMAIN results[r] : results[r][id] = None
    <2>1. state' = [state EXCEPT ![r] = "incomplete"]
        BY <1>1, <1>2
    <2>2. Complete(r)'
        BY <1>0, <2>1 DEF Complete, RunsTypeOK
    <2> QED BY <1>1, <2>1, <2>2, Ended DEF Over
<1>3. CASE ~ \E id \in DOMAIN results[r] : results[r][id] = None
    <2>1. state' = [state EXCEPT ![r] = "succeeded"]
        BY <1>1, <1>3
    <2>2. plans[r] = PlanOf(r) /\ AcceptedBy(r)
        BY <1>0, <1>1 DEF InHand, PlanIsTheirs, Working
    <2>3. /\ x[r] \in Extracts /\ Accepted(x[r], Context(r), Settings)
        BY <2>2, PlanKnown
    <2>4. ASSUME NEW o \in Values(x[r].objects)
          PROVE  \E k \in DOMAIN crm : crm[k].kind = "lead" /\ crm[k].key = o.id
        <3>1. CASE Has(Context(r).leads, "source", o.id)
            BY <1>0, <3>1, ContextInCrm DEF Has
        <3>2. CASE ~Has(Context(r).leads, "source", o.id)
            <4>1. o \in NewObjects(x[r], Context(r))
                BY <2>4, <3>2 DEF NewObjects
            <4>2. PICK op : op = LeadOperation(x[r], Context(r), Settings, o)
                OBVIOUS
            <4>3. op \in PlanOf(r) /\ op.id = <<"lead", o.id>> /\ op.key = o.id
                BY <4>1, <4>2, PlanKinds, Ids, Keys DEF IsLead, PlanOf
            <4>4. op.id \in DOMAIN results[r]
                BY <1>1, <2>2, <4>3 DEF Todo
            <4>5. PICK k : k = results[r][op.id] /\ MadeBefore(r, op.id, k, Len(crm) + 1)
                BY <1>0, <1>3, <4>4 DEF InHand, ResultsAreTheirs
            <4>6. k \in DOMAIN crm /\ crm[k].run = r /\ crm[k].id = op.id
                BY <4>5 DEF MadeBefore
            <4>7. PICK p \in PlanOf(r) : crm[k].id = p.id /\ crm[k].key = p.key
                BY <4>6, OperationOf
            <4>8. p = op
                BY <2>3, <4>3, <4>6, <4>7, PlanIdsUnique DEF PlanOf, IdsUnique
            <4>9. crm[k].kind = "lead" /\ crm[k].key = o.id
                BY <4>3, <4>6, <4>7, <4>8, OperationOf
            <4> QED BY <4>6, <4>9
        <3> QED BY <3>1, <3>2
    <2>5. Complete(r)'
        BY <1>1, <2>4 DEF Complete
    <2> QED BY <1>1, <2>1, <2>5, Ended DEF Over
<1> QED BY <1>2, <1>3

LEMMA CarryOutStep ==
    ASSUME RunsInv, NEW request \in open, CarryOut(request) PROVE RunsInv'
<1> DEFINE last == Len(crm) + 1
<1>0. /\ open' = open \ {request} /\ crm' = Append(crm, request)
      /\ UNCHANGED <<state, seen, x, plans, results>>
      /\ RunsTypeOK /\ Grows
    BY DEF CarryOut, RunsInv, Grows
<1>1. /\ crm \in Seq(Elements) /\ request \in Elements /\ Len(crm) \in Nat
      /\ DOMAIN crm = 1..Len(crm) /\ \A k \in DOMAIN crm : crm'[k] = crm[k]
      /\ crm' \in Seq(Elements)
    BY <1>0, GrowsAtEnd DEF RunsTypeOK
<1>2. /\ Len(crm') = last /\ DOMAIN crm' = 1..last /\ crm'[last] = request
    BY <1>0, <1>1, AppendProperties, LenProperties
<1> HIDE DEF last
<1>3. DOMAIN crm' = DOMAIN crm \cup {last} /\ last \notin DOMAIN crm /\ last = Len(crm) + 1
    BY <1>1, <1>2 DEF last
<1>4. Values(crm') = Values(crm) \cup {request}
    BY <1>1, <1>2, <1>3 DEF Values
<1>5. \A q \in Runs : Idle(q)
    BY <1>0 DEF Idle, Settled
<1>6. RunsTypeOK'
    <2>1. seen' \in [Runs -> [Listings -> 0..Len(crm')]]
        <3>1. seen \in [Runs -> [Listings -> 0..Len(crm)]]
            BY <1>0 DEF RunsTypeOK
        <3>2. 0..Len(crm) \subseteq 0..Len(crm')
            BY <1>1, <1>2, <1>3
        <3> QED BY <1>0, <3>1, <3>2
    <2>2. \A e \in open' \cup Values(crm') : e.kind = e.id[1]
        BY <1>0, <1>4 DEF RunsTypeOK
    <2> QED BY <1>0, <1>1, <2>1, <2>2 DEF RunsTypeOK
<1>7. AllStand'
    <2>1. ASSUME NEW e \in open \cup Values(crm), NEW n, Stands(e, n) PROVE Stands(e, n)'
        BY <1>0, <1>5, <2>1, ElementsStand DEF Idle
    <2>2. ASSUME NEW k \in DOMAIN crm PROVE Stands(crm[k], k)'
        <3>1. PICK e : e = crm[k] /\ e \in Values(crm)
            BY DEF Values
        <3>2. Stands(e, k)'
            BY <2>1, <3>1 DEF RunsInv, AllStand
        <3> QED BY <1>1, <3>1, <3>2
    <2>3. PICK n : n = last
        OBVIOUS
    <2>4. ASSUME NEW e \in open PROVE Stands(e, n)'
        BY <2>1, <2>3, <1>3 DEF RunsInv, AllStand
    <2>5. ASSUME NEW e \in open PROVE Stands(e, n + 1)'
        <3>0. e.run \in Runs
            BY ElementFacts
        <3>1. seen'[e.run].groups \in Nat
            BY <1>0, <3>0, ContextParts
        <3>2. n \in Nat
            BY <1>1, <1>3, <2>3
        <3>3. \A id, k : MadeBefore(e.run, id, k, n)' => MadeBefore(e.run, id, k, n + 1)'
            BY <1>1, <1>3, <3>2 DEF MadeBefore
        <3> QED BY <2>4, <3>1, <3>2, <3>3 DEF Stands, Wired
    <2>6. ASSUME NEW k \in DOMAIN crm' PROVE Stands(crm[k], k)'
        <3>1. CASE k = last
            <4>1. Stands(request, k)'
                BY <2>3, <2>4, <3>1
            <4> QED BY <1>2, <3>1, <4>1
        <3> QED BY <1>3, <2>2, <3>1
    <2>7. ASSUME NEW e \in open' PROVE Stands(e, Len(crm) + 1)'
        <3>1. PICK m : m = Len(crm') + 1
            OBVIOUS
        <3>2. m = n + 1
            BY <1>2, <2>3, <3>1
        <3>3. Stands(e, m)'
            BY <1>0, <2>5, <3>2
        <3> QED BY <3>1, <3>3
    <2> QED BY <2>6, <2>7 DEF AllStand
<1>8. OnceEach'
    <2> USE DEF OnceEach, Alike
    <2>1. \A k, l \in DOMAIN crm' : Alike(crm'[k], crm'[l]) => k = l
        BY <1>1, <1>2, <1>3 DEF RunsInv
    <2>2. \A k \in DOMAIN crm' : \A e \in open' : ~Alike(crm'[k], e)
        BY <1>0, <1>1, <1>2, <1>3 DEF RunsInv
    <2>3. \A e, f \in open' : Alike(e, f) => e = f
        BY <1>0 DEF RunsInv
    <2> QED BY <2>1, <2>2, <2>3
<1>9. AllSent'
    <2>1. \A e \in open \cup Values(crm) : Sent(e)'
        BY <1>5, ElementFacts, SentKept DEF RunsInv, AllSent
    <2> QED BY <1>0, <1>4, <2>1 DEF AllSent
<1>10. \A q \in Runs : InHand(q)'
    BY <1>0, <1>5, InHandKept
<1> QED BY <1>6, <1>7, <1>8, <1>9, <1>10 DEF RunsInv

(* What a command refers to is there.                                      *)
LEMMA ReferencesKnown ==
    ASSUME RunsInv, NEW r \in Runs, state[r] \in Working,
           NEW op \in Todo(r), IsNext(r, op), ~Blocked(r, op),
           NEW e, e = Element(r, op), NEW n, n = Len(crm) + 1
    PROVE  e \in Elements /\ Wired(r, op, e, n)
<1>1. op \in PlanOf(r) /\ AcceptedBy(r) /\ Sources(op) \subseteq DOMAIN results[r]
    BY SourcesDone
<1>2. /\ op.id \in PlanIds /\ op.key \in Nat
      /\ FieldsOf(op) \in {{}, {"owner"}, {"company"}, {"company", "group"}}
      /\ \A l \in op.literals : l.value \in IdType
      /\ \A f, g \in op.literals \cup op.bindings : f.field = g.field => f = g
    BY <1>1, PlanKnown, OperationTyped DEF PlanOf
<1>3. \A b \in op.bindings : \A l \in op.literals : l.field # b.field
    BY <1>1, PlanKnown DEF ValidPlan, BindingsValid
<1>4. \A source \in Sources(op) : MadeBefore(r, source, results[r][source], n)
    BY <1>1 DEF Blocked, RunsInv, InHand, ResultsAreTheirs
<1>5. \A b \in op.bindings : MadeBefore(r, b.source, results[r][b.source], n)
    BY <1>4 DEF Sources
<1>6. e = [run |-> r, id |-> op.id, kind |-> op.id[1], key |-> op.key,
           refs |-> References(r, op)]
    BY DEF Element
<1>7. PICK refs : refs = References(r, op)
    OBVIOUS
<1>8. e.refs = refs /\ e.run = r /\ e.id = op.id /\ e.kind = op.id[1] /\ e.key = op.key
    BY <1>6, <1>7
<1>9. refs = [field \in FieldsOf(op) |->
          IF \E b \in op.bindings : b.field = field
          THEN results[r][(CHOOSE b \in op.bindings : b.field = field).source]
          ELSE (CHOOSE l \in op.literals : l.field = field).value]
    BY <1>7 DEF References, FieldsOf
<1>10. ASSUME NEW b \in op.bindings
       PROVE  b.field \in FieldsOf(op) /\ refs[b.field] = results[r][b.source]
    <2>1. b.field \in FieldsOf(op)
        BY DEF FieldsOf
    <2>2. (CHOOSE d \in op.bindings : d.field = b.field) = b
        BY <1>2
    <2>3. refs[b.field] = results[r][(CHOOSE d \in op.bindings : d.field = b.field).source]
        BY <1>9, <2>1
    <2> QED BY <2>1, <2>2, <2>3
<1>11. ASSUME NEW l \in op.literals
       PROVE  l.field \in FieldsOf(op) /\ refs[l.field] = l.value
    <2>1. l.field \in FieldsOf(op)
        BY DEF FieldsOf
    <2>2. (CHOOSE d \in op.literals : d.field = l.field) = l
        BY <1>2
    <2>3. ~ \E b \in op.bindings : b.field = l.field
        BY <1>3
    <2>4. refs[l.field] = (CHOOSE d \in op.literals : d.field = l.field).value
        BY <1>9, <2>1, <2>3
    <2> QED BY <2>1, <2>2, <2>4
<1>12. refs \in [FieldsOf(op) -> IdType]
    <2>1. DOMAIN refs = FieldsOf(op)
        BY <1>9
    <2>2. \A k \in DOMAIN crm : k \in IdType
        BY ContextParts DEF IdType, RunsInv
    <2>3. ASSUME NEW field \in FieldsOf(op) PROVE refs[field] \in IdType
        <3>1. PICK f \in op.literals \cup op.bindings : field = f.field
            BY DEF FieldsOf
        <3>2. CASE f \in op.bindings
            BY <3>1, <3>2, <1>5, <1>10, <2>2 DEF MadeBefore
        <3>3. CASE f \in op.literals
            BY <3>1, <3>3, <1>2, <1>11
        <3> QED BY <3>1, <3>2, <3>3
    <2>4. refs = [field \in FieldsOf(op) |-> refs[field]]
        BY <1>9, <2>1
    <2> HIDE DEF FieldsOf
    <2> QED BY <2>3, <2>4
<1>13. e \in Elements
    <2>1. op.id \in Kinds \X IdType /\ op.id[1] \in Kinds
        BY <1>2 DEF PlanIds, Kinds, Place
    <2>2. refs \in [{} -> IdType] \cup [{"owner"} -> IdType]
                 \cup [{"company"} -> IdType] \cup [{"company", "group"} -> IdType]
        BY <1>2, <1>12
    <2> QED BY <1>2, <1>6, <1>7, <2>1, <2>2 DEF Elements
<1>14. Wired(r, op, e, n)
    <2>1. \A l \in op.literals : e.refs[l.field] = l.value
        BY <1>8, <1>11
    <2>2. \A b \in op.bindings : MadeBefore(r, b.source, e.refs[b.field], n)
        BY <1>5, <1>8, <1>10
    <2>3. \A source \in op.dependencies : \E k \in DOMAIN crm : MadeBefore(r, source, k, n)
        BY <1>4 DEF Sources, MadeBefore
    <2> QED BY <2>1, <2>2, <2>3 DEF Wired
<1> QED BY <1>13, <1>14

LEMMA SendStep == ASSUME RunsInv, NEW r \in Runs, Send(r) PROVE RunsInv'
<1>0. RunsTypeOK /\ InHand(r) /\ Grows
    BY DEF RunsInv, Send, Grows
<1>1. PICK op \in Todo(r) :
          IsNext(r, op) /\ ~Blocked(r, op) /\ open' = open \cup {Element(r, op)}
    BY DEF Send
<1>2. PICK e, n : e = Element(r, op) /\ n = Len(crm) + 1
    OBVIOUS
<1>3. /\ state[r] = "load" /\ state' = [state EXCEPT ![r] = "waiting"]
      /\ UNCHANGED <<crm, seen, x, plans, results>> /\ open' = open \cup {e}
    BY <1>1, <1>2 DEF Send
<1>4. /\ e \in Elements /\ Wired(r, op, e, n)
      /\ op \in PlanOf(r) /\ AcceptedBy(r) /\ op.id \notin DOMAIN results[r]
    BY <1>1, <1>2, <1>3, ReferencesKnown, SourcesDone DEF Working, Todo
<1>5. e.run = r /\ e.id = op.id /\ e.kind = e.id[1] /\ e.key = op.key
    BY <1>2 DEF Element
<1>6. /\ state' \in [Runs -> States] /\ state'[r] = "waiting"
      /\ \A q \in Runs \ {r} : state'[q] = state[q]
    BY <1>0, <1>3 DEF RunsTypeOK, States
<1>7. \A q \in Runs : Settled(q)
    BY <1>3 DEF Settled
<1>8. \A q \in Runs \ {r} : Idle(q)
    BY <1>3, <1>6, <1>7 DEF Idle
<1>9. Values(crm') = Values(crm) /\ Len(crm') = Len(crm)
    BY <1>3 DEF Values
<1>10. RunsTypeOK'
    BY <1>0, <1>3, <1>4, <1>5, <1>6, <1>9 DEF RunsTypeOK
<1>11. AllStand'
    <2>1. ASSUME NEW f \in open \cup Values(crm), NEW m, Stands(f, m) PROVE Stands(f, m)'
        BY <1>0, <1>7, <2>1, ElementsStand
    <2>2. ASSUME NEW k \in DOMAIN crm PROVE Stands(crm[k], k)'
        <3>1. PICK f : f = crm[k] /\ f \in Values(crm)
            BY DEF Values
        <3>2. Stands(f, k)'
            BY <2>1, <3>1 DEF RunsInv, AllStand
        <3> QED BY <1>3, <3>1, <3>2
    <2>3. ASSUME NEW f \in open PROVE Stands(f, n)'
        BY <1>2, <2>1 DEF RunsInv, AllStand
    <2>4. Stands(e, n)
        <3>1. InOrder(r)
            BY <1>0, <1>3 DEF InHand, ListedInOrder, InOrder, Working
        <3>2. seen[r].groups < n
            BY <1>0, <1>2, ContextParts
        <3> QED BY <1>4, <1>5, <3>1, <3>2 DEF Stands
    <2>5. Stands(e, n)'
        BY <1>0, <1>5, <1>7, <2>4, StandsKept DEF Settled
    <2>6. ASSUME NEW f \in open' PROVE Stands(f, Len(crm) + 1)'
        BY <1>2, <1>3, <1>9, <2>3, <2>5
    <2> QED BY <1>3, <2>2, <2>6 DEF AllStand
<1>12. \A f \in open \cup Values(crm) : Sent(f) /\ ~Alike(e, f)
    <2>1. ASSUME NEW f \in open \cup Values(crm), Alike(e, f) PROVE FALSE
        <3>1. f.run = r /\ f.id = op.id /\ Sent(f)
            BY <1>5, <2>1 DEF Alike, RunsInv, AllSent
        <3> QED BY <1>3, <1>4, <3>1 DEF Sent, InFlight, Over
    <2> QED BY <2>1 DEF RunsInv, AllSent
<1>13. OnceEach'
    <2>1. \A k \in DOMAIN crm : crm[k] \in Values(crm)
        BY DEF Values
    <2>2. \A f, g : Alike(f, g) => Alike(g, f)
        BY DEF Alike
    <2>3. OnceEach
        BY DEF RunsInv
    <2> QED BY <1>3, <1>12, <2>1, <2>2, <2>3 DEF OnceEach
<1>14. AllSent'
    <2>1. ASSUME NEW f \in open \cup Values(crm) PROVE Sent(f)'
        <3>1. f.run \in Runs /\ Sent(f)
            BY <1>12, ElementFacts
        <3>2. f.run # r => Sent(f)'
            BY <1>8, <3>1, SentKept
        <3>3. f.run = r => f.id \in DOMAIN results[r]
            BY <1>3, <3>1 DEF Sent, InFlight, Over
        <3>4. f.run = r => Sent(f)'
            BY <1>3, <1>6, <3>3 DEF Sent, Working
        <3> QED BY <3>2, <3>4
    <2>2. Sent(e)'
        <3>1. op \in Todo(r)' /\ IsNext(r, op)'
            BY <1>1, <1>3 DEF Todo, IsNext
        <3> QED BY <1>5, <1>6, <3>1 DEF Sent, InFlight, Working
    <2> QED BY <1>3, <1>9, <2>1, <2>2 DEF AllSent
<1>15. InHand(r)'
    <2>1. Context(r)' = Context(r)
        BY <1>0, <1>7, ContextKept DEF Settled
    <2>2. PlanIsTheirs(r)'
        BY <1>0, <1>3, <1>6, <2>1 DEF InHand, PlanIsTheirs, PlanOf, AcceptedBy, Working
    <2>3. ResultsAreTheirs(r)'
        BY <1>0, <1>3 DEF InHand, ResultsAreTheirs, MadeBefore
    <2>4. ListedInOrder(r)'
        BY <1>0, <1>3, <1>6 DEF InHand, ListedInOrder, Working
    <2> QED BY <1>6, <2>2, <2>3, <2>4 DEF InHand, UnusableForDuplicates, Complete
<1>16. \A q \in Runs : InHand(q)'
    BY <1>0, <1>8, <1>15, InHandKept
<1> QED BY <1>10, <1>11, <1>13, <1>14, <1>16 DEF RunsInv
-----------------------------------------------------------------------------
(* The invariant, and what follows from it.                                *)

LEMMA RunsInvariance == RunsSpec => []RunsInv
<1>1. RunsInv /\ [RunsNext]_runsVars => RunsInv'
    <2> SUFFICES ASSUME RunsInv, [RunsNext]_runsVars PROVE RunsInv'
        OBVIOUS
    <2>1. ASSUME NEW r \in Runs, RunNext(r) PROVE RunsInv'
        BY <2>1, ListStep, ExtractAndTransformStep, BlockStep, SendStep, AnswerStep, FinishStep,
           StopStep DEF RunNext
    <2>2. ASSUME NEW request \in open, CarryOut(request) PROVE RunsInv'
        BY <2>2, CarryOutStep
    <2>3. CASE UNCHANGED runsVars
        <3>1. UNCHANGED <<crm, open>> /\ Grows /\ \A q \in Runs : Idle(q)
            BY <2>3 DEF runsVars, Grows, Idle, Settled
        <3>2. RunsTypeOK'
            BY <2>3 DEF runsVars, RunsInv, RunsTypeOK, Values
        <3>3. AllStand' /\ OnceEach'
            BY <3>1, AllStandKept, OnceEachKept DEF Idle
        <3>4. AllSent'
            <4>1. \A e \in open \cup Values(crm) : Sent(e)'
                BY <3>1, ElementFacts, SentKept DEF RunsInv, AllSent
            <4>2. open' \cup Values(crm') = open \cup Values(crm)
                BY <3>1 DEF Values
            <4> QED BY <4>1, <4>2 DEF AllSent
        <3> QED BY <3>1, <3>2, <3>3, <3>4, InHandKept DEF RunsInv
    <2> QED BY <2>1, <2>2, <2>3 DEF RunsNext
<1> QED BY <1>1, RunsInvInit, PTL DEF RunsSpec

(* The variables keep their types.                                         *)
THEOREM RunsTypeCorrect == RunsSpec => []RunsTypeOK
<1>1. RunsInv => RunsTypeOK
    BY DEF RunsInv
<1> QED BY <1>1, RunsInvariance, PTL

(* A requisite that belongs to a company of its run, made before it.       *)
LEMMA RequisiteOwner ==
    ASSUME RunsInv, NEW k \in DOMAIN crm, crm[k].kind = "requisite",
           NEW company, company = crm[k].refs["owner"]
    PROVE  /\ company \in DOMAIN crm /\ company < k
           /\ crm[company].kind = "company" /\ crm[company].run = crm[k].run
<1>1. PICK r : r = crm[k].run
    OBVIOUS
<1>2. PICK op \in PlanOf(r) :
          crm[k].id = op.id /\ crm[k].key = op.key /\ Wired(r, op, crm[k], k)
    BY <1>1, OperationOf
<1>3. /\ r \in Runs /\ AcceptedBy(r) /\ op.id[1] = "requisite"
    BY <1>1, <1>2, OperationOf
<1>4. PICK d : op = RequisiteOperation(d)
    BY <1>2, <1>3, KindOfId DEF PlanOf, IsRequisite
<1>5. PICK b : b = Binding("owner", <<"company", d.id>>) /\ b \in op.bindings
    BY <1>4 DEF RequisiteOperation
<1>6. b.field = "owner" /\ b.source = <<"company", d.id>>
    BY <1>5 DEF Binding
<1>7. MadeBefore(r, b.source, company, k)
    BY <1>2, <1>5, <1>6 DEF Wired
<1>8. company \in DOMAIN crm /\ company < k /\ crm[company].run = r
      /\ crm[company].id = <<"company", d.id>>
    BY <1>6, <1>7 DEF MadeBefore
<1>9. crm[company].kind = crm[company].id[1]
    BY <1>8, OperationOf
<1> QED BY <1>1, <1>8, <1>9

LEMMA OverlapsOnly == ASSUME RunsInv PROVE OnlyOverlapsDuplicate
<1> SUFFICES ASSUME NEW k \in Keyed, NEW l \in Keyed, k < l, Same(k, l)
             PROVE  crm[k].run # crm[l].run /\ ~Saw(crm[l].run, k)
    BY DEF OnlyOverlapsDuplicate
<1>1. PICK r : r = crm[l].run
    OBVIOUS
<1>2. k \in DOMAIN crm /\ l \in DOMAIN crm /\ k # l
      /\ crm[l].kind \in {"lead", "group", "requisite"} /\ crm[k].kind = crm[l].kind
      /\ crm[k].key = crm[l].key
    BY ContextParts, GrowsAtEnd DEF Keyed, Same, RunsInv, Grows
<1>3. PICK op \in PlanOf(r) : crm[l].id = op.id /\ crm[l].key = op.key
    BY <1>1, <1>2, OperationOf
<1>4. /\ r \in Runs /\ AcceptedBy(r) /\ InOrder(r) /\ op.id[1] = crm[l].kind
    BY <1>1, <1>2, <1>3, OperationOf
<1>5. x[r] \in Extracts /\ Accepted(x[r], Context(r), Settings)
    BY <1>4, PlanKnown
<1>6. op.key \in IdType /\ op.key # None
    BY <1>2, <1>3, <1>4, <1>5, KeyedOperation DEF PlanOf, IdType, None
<1>7. crm[k].run # r
    <2>1. SUFFICES ASSUME crm[k].run = r PROVE FALSE
        OBVIOUS
    <2>2. PICK other \in PlanOf(r) : crm[k].id = other.id /\ crm[k].key = other.key
        BY <1>2, <2>1, OperationOf
    <2>3. other.id[1] = op.id[1] /\ other.key = op.key
        BY <1>2, <1>3, <1>4, <2>1, <2>2, OperationOf
    <2>4. other = op
        BY <1>5, <1>6, <2>3, PlanKeysOnce DEF PlanOf
    <2>5. Alike(crm[k], crm[l])
        BY <1>1, <1>3, <2>1, <2>2, <2>4 DEF Alike
    <2> QED BY <1>2, <2>5 DEF RunsInv, OnceEach
<1>8. ~Saw(r, k)
    <2>1. SUFFICES ASSUME Saw(r, k) PROVE FALSE
        OBVIOUS
    <2>2. PICK c : c = Context(r)
        OBVIOUS
    <2>3. /\ op.id[1] = "lead" => ~Has(c.leads, "source", op.key)
          /\ op.id[1] = "requisite" => ~Has(c.companies, "inn", op.key)
          /\ op.id[1] = "group" => ~Has(c.groups, "source", op.key)
        BY <1>5, <1>6, <2>2, PlanKeysOnce DEF PlanOf
    <2>4. crm[k].key = op.key /\ crm[k].key # None
        BY <1>2, <1>3, <1>6
    <2>5. CASE crm[k].kind = "lead"
        BY <1>2, <1>4, <2>1, <2>2, <2>3, <2>4, <2>5, CrmInContext DEF RunsInv, Saw
    <2>6. CASE crm[k].kind = "group"
        BY <1>2, <1>4, <2>1, <2>2, <2>3, <2>4, <2>6, CrmInContext DEF RunsInv, Saw
    <2>7. CASE crm[k].kind = "requisite"
        <3>1. k <= seen[r].requisites /\ crm[k].refs["owner"] <= seen[r].companies
            BY <2>1, <2>7 DEF Saw
        <3>2. crm[k].refs["owner"] \in Listed("company", seen[r].companies)
            BY <1>2, <2>7, <3>1, RequisiteOwner DEF Listed
        <3> QED BY <1>2, <1>4, <2>2, <2>3, <2>4, <2>7, <3>1, <3>2, CrmInContext DEF RunsInv
    <2> QED BY <1>2, <2>5, <2>6, <2>7
<1> QED BY <1>1, <1>7, <1>8

(* Two elements with one natural key are from runs that overlapped, and    *)
(* the later was listing before the earlier element was there.             *)
THEOREM DuplicatesFromOverlaps == RunsSpec => []OnlyOverlapsDuplicate
BY OverlapsOnly, RunsInvariance, PTL

(* What turns a run away are two elements of runs that overlapped.         *)
THEOREM ContextNeverSpoiled == RunsSpec => []ContextStaysUsable
<1>1. ASSUME RunsInv PROVE ContextStaysUsable
    <2> SUFFICES ASSUME NEW u \in Runs, state[u] = "unusable"
                 PROVE  \E k, l \in Keyed :
                            /\ k < l /\ Same(k, l) /\ crm[k].kind # "lead"
                            /\ crm[k].run # crm[l].run
                            /\ Overlap(crm[k].run, crm[l].run)
        BY DEF ContextStaysUsable
    <2>1. PICK k \in Keyed, l \in Keyed : k < l /\ Same(k, l) /\ crm[k].kind # "lead"
        BY <1>1 DEF RunsInv, InHand, UnusableForDuplicates
    <2>2. PICK p, q : p = crm[k].run /\ q = crm[l].run
        OBVIOUS
    <2>3. p # q /\ ~Saw(q, k)
        BY <1>1, <2>1, <2>2, OverlapsOnly DEF OnlyOverlapsDuplicate
    <2>4. k \in DOMAIN crm /\ l \in DOMAIN crm /\ crm[k].kind \in {"lead", "group", "requisite"}
        BY DEF Keyed
    <2>5. /\ p \in Runs /\ seen[p].groups < k /\ InOrder(p)
          /\ q \in Runs /\ InOrder(q)
        BY <1>1, <2>2, <2>4, OperationOf
    <2>6. /\ seen[p].leads \in Nat /\ seen[p].companies \in Nat
          /\ seen[p].requisites \in Nat /\ seen[p].groups \in Nat
          /\ seen[q].leads \in Nat /\ seen[q].companies \in Nat
          /\ seen[q].requisites \in Nat /\ seen[q].groups \in Nat
          /\ k \in Nat /\ l \in Nat /\ DOMAIN crm \subseteq Nat
        BY <1>1, <2>4, <2>5, ContextParts DEF RunsInv
    <2>7. ASSUME Precedes(p, q) PROVE FALSE
        <3>1. k <= seen[q].leads
            BY <2>2, <2>4, <2>7 DEF Precedes
        <3>2. /\ k <= seen[q].companies /\ k <= seen[q].requisites /\ k <= seen[q].groups
            BY <2>5, <2>6, <3>1 DEF InOrder
        <3>3. crm[k].kind = "requisite" => crm[k].refs["owner"] <= seen[q].companies
            BY <1>1, <2>4, <2>6, <3>2, RequisiteOwner
        <3> QED BY <2>3, <2>4, <3>1, <3>2, <3>3 DEF Saw
    <2>8. ASSUME Precedes(q, p) PROVE FALSE
        <3>1. l <= seen[p].leads
            BY <2>2, <2>4, <2>8 DEF Precedes
        <3> QED BY <2>1, <2>5, <2>6, <3>1 DEF InOrder
    <2> QED BY <2>1, <2>2, <2>3, <2>7, <2>8 DEF Overlap
<1> QED BY <1>1, RunsInvariance, PTL

(* A lead's object.                                                        *)
LEMMA LeadObject ==
    ASSUME RunsInv, NEW k \in DOMAIN crm, crm[k].kind = "lead", NEW r, r = crm[k].run
    PROVE  \E o \in NewObjects(x[r], Context(r)), op \in PlanOf(r) :
               /\ op = LeadOperation(x[r], Context(r), Settings, o)
               /\ Wired(r, op, crm[k], k)
               /\ ObjectOf(k) = o
<1>1. PICK op \in PlanOf(r) :
          crm[k].id = op.id /\ crm[k].key = op.key /\ Wired(r, op, crm[k], k)
    BY OperationOf
<1>2. r \in Runs /\ AcceptedBy(r) /\ op.id[1] = "lead"
    BY <1>1, OperationOf
<1>3. PICK o \in NewObjects(x[r], Context(r)) :
          op = LeadOperation(x[r], Context(r), Settings, o)
    BY <1>1, <1>2, KindOfId DEF PlanOf, IsLead
<1>4. crm[k].key = o.id /\ o \in Values(x[r].objects)
    BY <1>1, <1>3, Keys DEF NewObjects
<1>5. Get(x[r].objects, "id", o.id) = o
    <2>1. ~Repeats(x[r].objects, "id")
        BY <1>2, PlanKnown DEF Accepted, IndexError
    <2>2. \A p \in Values(x[r].objects) : p.id = o.id => p = o
        BY <1>4, <2>1 DEF Values, Repeats
    <2> QED BY <1>4, <2>2 DEF Get
<1>6. ObjectOf(k) = o
    BY <1>4, <1>5 DEF ObjectOf
<1> QED BY <1>1, <1>3, <1>6

(* The one element of an operation.                                        *)
LEMMA OneElement ==
    ASSUME RunsInv, NEW r, NEW id, NEW k, NEW l, NEW n, NEW m,
           MadeBefore(r, id, k, n), MadeBefore(r, id, l, m)
    PROVE  k = l
BY DEF MadeBefore, RunsInv, OnceEach, Alike

(* The requisite and the addresses of a new developer's company.           *)
LEMMA NewCompany ==
    ASSUME RunsInv, NEW r \in Runs, AcceptedBy(r), NEW n,
           NEW d \in NewDevelopers(x[r], Context(r)),
           NEW company, MadeBefore(r, <<"company", d.id>>, company, n),
           NEW l, MadeBefore(r, <<"requisite", d.id>>, l, n)
    PROVE  /\ crm[l].kind = "requisite" /\ crm[l].key = d.inn
           /\ crm[l].refs["owner"] = company
           /\ \A kind \in AddressKinds : \A a \in DOMAIN crm :
                 MadeBefore(r, <<kind, d.id>>, a, n) =>
                     crm[a].kind = kind /\ crm[a].refs["owner"] = l
<1>1. x[r] \in Extracts /\ Accepted(x[r], Context(r), Settings)
    BY PlanKnown
<1>2. /\ l \in DOMAIN crm /\ crm[l].run = r /\ crm[l].id = <<"requisite", d.id>>
    BY DEF MadeBefore
<1>3. PICK q \in PlanOf(r) :
          crm[l].id = q.id /\ crm[l].key = q.key /\ Wired(r, q, crm[l], l)
    BY <1>2, OperationOf
<1>4. q.key = d.inn /\ q.bindings = {Binding("owner", <<"company", d.id>>)}
    BY <1>1, <1>2, <1>3, DeveloperOperation DEF PlanOf
<1>5. MadeBefore(r, <<"company", d.id>>, crm[l].refs["owner"], l)
    BY <1>3, <1>4 DEF Wired, Binding
<1>6. crm[l].refs["owner"] = company
    BY <1>5, OneElement
<1>7. crm[l].kind = "requisite"
    BY <1>2, OperationOf
<1>8. ASSUME NEW kind \in AddressKinds, NEW a \in DOMAIN crm,
             MadeBefore(r, <<kind, d.id>>, a, n)
      PROVE  crm[a].kind = kind /\ crm[a].refs["owner"] = l
    <2>1. crm[a].run = r /\ crm[a].id = <<kind, d.id>>
        BY <1>8 DEF MadeBefore
    <2>2. PICK p \in PlanOf(r) : crm[a].id = p.id /\ Wired(r, p, crm[a], a)
        BY <2>1, OperationOf
    <2>3. p.bindings = {Binding("owner", <<"requisite", d.id>>)}
        BY <1>1, <2>1, <2>2, DeveloperOperation DEF PlanOf
    <2>4. MadeBefore(r, <<"requisite", d.id>>, crm[a].refs["owner"], a)
        BY <2>2, <2>3 DEF Wired, Binding
    <2>5. crm[a].refs["owner"] = l
        BY <2>4, OneElement
    <2> QED BY <2>1, <2>5, OperationOf
<1> QED BY <1>3, <1>4, <1>6, <1>7, <1>8

(* A lead is tied to a company with its developer's INN: one the context   *)
(* of its run held, or one its run made and completed before.              *)
LEMMA LeadHasCompany == ASSUME RunsInv, NEW k \in DOMAIN crm, crm[k].kind = "lead"
                        PROVE  HasCompany(k)
<1>1. RunsInv
    OBVIOUS
<1>2. ASSUME NEW company, company = crm[k].refs["company"], NEW r, r = crm[k].run
      PROVE  \E l \in 1..(k - 1) :
                /\ crm[l].kind = "requisite"
                /\ crm[l].refs["owner"] = company
                /\ crm[l].key = DeveloperOf(x[r], ObjectOf(k)).inn
                /\ crm[company].run = r =>
                      \A kind \in AddressKinds : \E a \in 1..(k - 1) :
                          crm[a].kind = kind /\ crm[a].refs["owner"] = l
    <2>0. company = crm[k].refs["company"] /\ r = crm[k].run
        BY <1>2
    <2>1. PICK o \in NewObjects(x[r], Context(r)), op \in PlanOf(r) :
              /\ op = LeadOperation(x[r], Context(r), Settings, o)
              /\ Wired(r, op, crm[k], k)
              /\ ObjectOf(k) = o
        BY <1>1, <2>0, LeadObject
    <2>2. r \in Runs /\ AcceptedBy(r) /\ InOrder(r) /\ seen[r].groups < k
        BY <1>1, <2>0, OperationOf
    <2>3. /\ x[r] \in Extracts /\ HoldsIds(Context(r))
          /\ Accepted(x[r], Context(r), Settings)
        BY <1>1, <2>2, PlanKnown
    <2>4. PICK c, d, inCrm, groupInCrm, inPlan, groupInPlan :
              /\ c = Context(r) /\ d = DeveloperOf(x[r], o)
              /\ inCrm = Literal("company", Get(c.companies, "inn", d.inn).id)
              /\ groupInCrm = Literal("group", Get(c.groups, "source", o.group).id)
              /\ inPlan = Binding("company", <<"company", o.developer>>)
              /\ groupInPlan = Binding("group", <<"group", o.group>>)
        OBVIOUS
    <2>5. /\ op.literals =
                (IF CompanyExists(c, d) THEN {inCrm} ELSE {})
                \cup (IF o.group # None /\ GroupExists(c, o) THEN {groupInCrm} ELSE {})
          /\ op.bindings =
                (IF CompanyExists(c, d) THEN {} ELSE {inPlan})
                \cup (IF o.group = None \/ GroupExists(c, o) THEN {} ELSE {groupInPlan})
          /\ op.dependencies = IF CompanyExists(c, d) THEN {}
               ELSE {<<kind, o.developer>> : kind \in {"actual", "legal", "requisite"}}
          /\ inPlan.field = "company" /\ inPlan.source = <<"company", o.developer>>
          /\ inCrm.field = "company"
        <3>1. LeadTied(op, c, o, d, inCrm, groupInCrm, inPlan, groupInPlan)
            BY <2>1, <2>3, <2>4, LeadParts
        <3> QED BY <3>1 DEF LeadTied
    <2>6. /\ seen[r].companies \in Nat /\ seen[r].requisites \in Nat /\ seen[r].groups \in Nat
          /\ k \in Nat /\ DOMAIN crm = 1..Len(crm) /\ Len(crm) \in Nat
        <3>1. RunsTypeOK
            BY <1>1 DEF RunsInv
        <3>2. k \in DOMAIN crm
            OBVIOUS
        <3>3. DOMAIN crm = 1..Len(crm) /\ Len(crm) \in Nat
            BY <3>1, <2>2, ContextParts
        <3> QED BY <3>1, <3>2, <3>3, <2>2, ContextParts
    <2>7. CASE CompanyExists(c, d)
        <3>1. inCrm \in op.literals
            BY <2>5, <2>7
        <3>2. PICK e : e = Get(c.companies, "inn", d.inn)
            OBVIOUS
        <3>3. e \in Values(c.companies) /\ e.inn = d.inn
            BY <2>7, <3>2, FoundInCrm DEF CompanyExists
        <3>4. company = e.id
            BY <2>0, <2>1, <2>4, <2>5, <3>1, <3>2 DEF Wired, Literal
        <3>5. /\ company \in DOMAIN crm /\ company <= seen[r].companies
              /\ \E l \in DOMAIN crm :
                    /\ crm[l].kind = "requisite" /\ l <= seen[r].requisites
                    /\ crm[l].key = d.inn /\ crm[l].refs["owner"] = company
            BY <1>1, <2>2, <2>4, <3>3, <3>4, ContextInCrm DEF RunsInv
        <3>6. PICK l \in DOMAIN crm :
                  /\ crm[l].kind = "requisite" /\ l <= seen[r].requisites
                  /\ crm[l].key = d.inn /\ crm[l].refs["owner"] = company
            BY <3>5
        <3>7. l \in 1..(k - 1)
            BY <2>2, <2>6, <3>6 DEF InOrder
        <3>8. crm[company].run # r
            <4>1. crm[company].run = r => seen[r].groups < company
                BY <1>1, <3>5, OperationOf
            <4> QED BY <2>2, <2>6, <3>5, <4>1 DEF InOrder
        <3> QED BY <2>1, <2>4, <3>6, <3>7, <3>8
    <2>8. CASE ~CompanyExists(c, d)
        <3>1. d \in NewDevelopers(x[r], Context(r)) /\ d.id = o.developer
            BY <2>1, <2>3, <2>4, <2>8, DeveloperFound DEF NewDevelopers
        <3>2. inPlan \in op.bindings /\ inPlan.source = <<"company", d.id>>
            BY <2>5, <2>8, <3>1
        <3>3. MadeBefore(r, <<"company", d.id>>, company, k)
            BY <2>0, <2>1, <2>5, <3>2 DEF Wired
        <3>4. ASSUME NEW kind \in {"actual", "legal", "requisite"}
              PROVE  \E l \in DOMAIN crm : MadeBefore(r, <<kind, d.id>>, l, k)
            <4>1. <<kind, d.id>> \in op.dependencies
                BY <2>5, <2>8, <3>1
            <4> QED BY <2>1, <4>1 DEF Wired
        <3>5. PICK l \in DOMAIN crm : MadeBefore(r, <<"requisite", d.id>>, l, k)
            BY <3>4
        <3>6. /\ crm[l].kind = "requisite" /\ crm[l].key = d.inn
              /\ crm[l].refs["owner"] = company
              /\ \A kind \in AddressKinds : \A a \in DOMAIN crm :
                    MadeBefore(r, <<kind, d.id>>, a, k) =>
                        crm[a].kind = kind /\ crm[a].refs["owner"] = l
            BY <1>1, <2>2, <3>1, <3>3, <3>5, NewCompany
        <3>7. \A id, a : MadeBefore(r, id, a, k) => a \in 1..(k - 1)
            BY <2>6 DEF MadeBefore
        <3>8. \A kind \in AddressKinds : \E a \in 1..(k - 1) :
                  crm[a].kind = kind /\ crm[a].refs["owner"] = l
            BY <3>4, <3>6, <3>7 DEF AddressKinds
        <3> QED BY <2>1, <2>4, <3>5, <3>6, <3>7, <3>8
    <2> QED BY <2>7, <2>8
<1> QED BY <1>2 DEF HasCompany

(* The operation of a group is keyed with the group.                       *)
LEMMA GroupKeyed ==
    ASSUME NEW r, NEW op \in PlanOf(r), NEW g, op.id = <<"group", g>>
    PROVE  op.key = g
<1>1. op.id[1] = "group"
    OBVIOUS
<1>2. PICK h : op = GroupOperation(h, Settings, Context(r))
    BY <1>1, KindOfId DEF PlanOf, IsGroup
<1>3. op.id = <<"group", h>> /\ op.key = h
    BY <1>2, Ids, Keys
<1> QED BY <1>3

(* A lead whose object names a group is tied to it: the context of its run *)
(* held it, or its run made it before.                                     *)
LEMMA LeadHasGroup == ASSUME RunsInv, NEW k \in DOMAIN crm, crm[k].kind = "lead"
                      PROVE  HasGroup(k)
<1>1. PICK r, group : r = crm[k].run /\ group = crm[k].refs["group"]
    OBVIOUS
<1>2. PICK o \in NewObjects(x[r], Context(r)), op \in PlanOf(r) :
          /\ op = LeadOperation(x[r], Context(r), Settings, o)
          /\ Wired(r, op, crm[k], k)
          /\ ObjectOf(k) = o
    BY <1>1, LeadObject
<1>3. r \in Runs /\ AcceptedBy(r) /\ seen[r].groups < k
    BY <1>1, OperationOf
<1>4. x[r] \in Extracts /\ HoldsIds(Context(r)) /\ Accepted(x[r], Context(r), Settings)
    BY <1>3, PlanKnown
<1>5. PICK c, d, inCrm, groupInCrm, inPlan, groupInPlan :
          /\ c = Context(r) /\ d = DeveloperOf(x[r], o)
          /\ inCrm = Literal("company", Get(c.companies, "inn", d.inn).id)
          /\ groupInCrm = Literal("group", Get(c.groups, "source", o.group).id)
          /\ inPlan = Binding("company", <<"company", o.developer>>)
          /\ groupInPlan = Binding("group", <<"group", o.group>>)
    OBVIOUS
<1>6. LeadTied(op, c, o, d, inCrm, groupInCrm, inPlan, groupInPlan)
    BY <1>2, <1>4, <1>5, LeadParts
<1>7. /\ seen[r].groups \in Nat /\ k \in Nat
      /\ DOMAIN crm = 1..Len(crm) /\ Len(crm) \in Nat
    <2>1. RunsTypeOK
        BY DEF RunsInv
    <2>2. k \in DOMAIN crm /\ DOMAIN crm = 1..Len(crm) /\ Len(crm) \in Nat
        BY <2>1, <1>3, ContextParts
    <2> QED BY <2>1, <2>2, <1>3, ContextParts
<1>8. ASSUME o.group # None, GroupExists(c, o)
      PROVE  /\ group \in 1..(k - 1)
             /\ crm[group].kind = "group" /\ crm[group].key = o.group
    <2>1. groupInCrm \in op.literals /\ groupInCrm.field = "group"
        BY <1>6, <1>8 DEF LeadTied
    <2>2. PICK e : e = Get(c.groups, "source", o.group)
        OBVIOUS
    <2>3. e \in Values(c.groups) /\ e.source = o.group
        BY <1>8, <2>2, FoundInCrm DEF GroupExists
    <2>4. group = e.id
        BY <1>1, <1>2, <1>5, <2>1, <2>2 DEF Wired, Literal
    <2>5. /\ group \in DOMAIN crm /\ group <= seen[r].groups
          /\ crm[group].kind = "group" /\ crm[group].key = o.group
        BY <1>3, <1>5, <2>3, <2>4, ContextInCrm DEF RunsInv
    <2> QED BY <1>3, <1>7, <2>5
<1>9. ASSUME o.group # None, ~GroupExists(c, o)
      PROVE  /\ group \in 1..(k - 1)
             /\ crm[group].kind = "group" /\ crm[group].key = o.group
    <2>1. /\ groupInPlan \in op.bindings
          /\ groupInPlan.field = "group" /\ groupInPlan.source = <<"group", o.group>>
        BY <1>6, <1>9 DEF LeadTied
    <2>2. MadeBefore(r, <<"group", o.group>>, group, k)
        BY <1>1, <1>2, <2>1 DEF Wired
    <2>3. /\ group \in DOMAIN crm /\ group < k
          /\ crm[group].run = r /\ crm[group].id = <<"group", o.group>>
        BY <2>2 DEF MadeBefore
    <2>4. /\ crm[group].kind = crm[group].id[1]
          /\ \E q \in PlanOf(r) : crm[group].id = q.id /\ crm[group].key = q.key
        BY <2>3, OperationOf
    <2>5. crm[group].key = o.group
        BY <2>3, <2>4, GroupKeyed
    <2>6. crm[group].kind = "group"
        BY <2>3, <2>4
    <2> QED BY <1>7, <2>3, <2>5, <2>6
<1> QED BY <1>1, <1>2, <1>8, <1>9 DEF HasGroup

(* A lead stands on its company and on the group its object names.         *)
THEOREM LeadsHaveCompanyAndGroup == RunsSpec => []LeadsStandOnCompanyAndGroup
<1>1. RunsInv => LeadsStandOnCompanyAndGroup
    BY LeadHasCompany, LeadHasGroup DEF LeadsStandOnCompanyAndGroup
<1> QED BY <1>1, RunsInvariance, PTL

(* A run that succeeds leaves a lead of each object it found.              *)
THEOREM SuccessComplete == RunsSpec => []SuccessIsComplete
<1>1. RunsInv => SuccessIsComplete
    BY DEF RunsInv, InHand, Complete, SuccessIsComplete
<1> QED BY <1>1, RunsInvariance, PTL
=============================================================================
