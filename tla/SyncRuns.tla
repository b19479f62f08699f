------------------------------ MODULE SyncRuns ------------------------------
(***************************************************************************)
(* Runs of the synchronisation over one CRM.  A run lists what the CRM     *)
(* holds, entity type by entity type, extracts, plans and loads.  Nothing  *)
(* keeps two runs apart, a run may end at any statement, and a request may *)
(* be carried out after its run has given it up or has ended.              *)
(*                                                                         *)
(* The CRM is the log of the elements the runs created, an element's id is *)
(* its place in the log, so what a listing found is a prefix of the log.   *)
(***************************************************************************)
EXTENDS CrmContext

CONSTANTS
    Runs,
    OnSite,   \* what a run may find there
    Settings  \* RegionSettings and the managers of the CRM

(* ExtractedObject and ExtractedDeveloper hold positive ids.               *)
ASSUME OnSiteAssumption == OnSite \subseteq Extracts

VARIABLES
    crm,    \* the elements in the order Bitrix24 created them
    open,   \* requests Bitrix24 may still carry out
    state,  \* of each run
    seen,   \* how much of the log each listing of a run found
    x,      \* what each run extracted
    plans,  \* the operations of each run
    results \* of the operations each run is done with: the element created,
            \* None if the operation failed, is unknown or was blocked

runsVars == <<crm, open, state, seen, x, plans, results>>

(* The order in which _build_existing lists.                               *)
AfterListing ==
    [leads |-> "companies", companies |-> "requisites", requisites |-> "groups",
     groups |-> "extract"]

Listings == DOMAIN AfterListing

Over == {"succeeded", "incomplete", "unusable", "failed"}

Nothing == [objects |-> <<>>, developers |-> <<>>, groups |-> <<>>]

RunsInit ==
    /\ crm = <<>>
    /\ open = {}
    /\ state = [r \in Runs |-> "leads"]
    /\ seen = [r \in Runs |-> [list \in Listings |-> 0]]
    /\ x = [r \in Runs |-> Nothing]
    /\ plans = [r \in Runs |-> {}]
    /\ results = [r \in Runs |-> <<>>]
-----------------------------------------------------------------------------
(* CrmProvider: the records a listing returns are those of the log.        *)

Listed(kind, n) == {k \in DOMAIN crm : k <= n /\ crm[k].kind = kind}

BySourceId(kind, n) == [k \in Listed(kind, n) |-> [source |-> crm[k].key, id |-> k]]

Requisites(n) == [k \in Listed("requisite", n) |->
                     [inn |-> crm[k].key, owner |-> crm[k].refs["owner"]]]

(* A listing after which _build_existing raises CrmInvalidDataError.       *)
Unusable(list, found) ==
    \/ list = "requisites" /\ InnAmbiguous(Listed("company", found.companies),
                                           Requisites(found.requisites))
    \/ list = "groups" /\ SourceRepeats(BySourceId("group", found.groups))

List(r) ==
    /\ state[r] \in Listings
    /\ seen' = [seen EXCEPT ![r][state[r]] = Len(crm)]
    /\ state' = [state EXCEPT ![r] = IF Unusable(state[r], seen'[r]) THEN "unusable"
                                     ELSE AfterListing[state[r]]]
    /\ UNCHANGED <<crm, open, x, plans, results>>

Context(r) ==
    [leads |-> SourceIdPairs(BySourceId("lead", seen[r].leads)),
     companies |-> ExistingDevelopers(Listed("company", seen[r].companies),
                                      Requisites(seen[r].requisites)),
     groups |-> SourceIdPairs(BySourceId("group", seen[r].groups)),
     managers |-> Settings.managers]

ExtractAndTransform(r) ==
    /\ state[r] = "extract"
    /\ \E found \in OnSite :
          /\ x' = [x EXCEPT ![r] = found]
          /\ IF Accepted(found, Context(r), Settings)
             THEN /\ plans' = [plans EXCEPT ![r] = Operations(found, Context(r), Settings)]
                  /\ state' = [state EXCEPT ![r] = "load"]
             ELSE /\ state' = [state EXCEPT ![r] = "failed"]
                  /\ UNCHANGED plans
    /\ UNCHANGED <<crm, open, seen, results>>
-----------------------------------------------------------------------------
(* SyncPlanExecutor, as in module Load: one operation after another.       *)

Todo(r) == {op \in plans[r] : op.id \notin DOMAIN results[r]}

IsNext(r, op) ==
    /\ op \in Todo(r)
    /\ \A other \in Todo(r) : other = op \/ Before(op.id, other.id)

BlockedWhenUnbound(r, op) == \E b \in op.bindings : results[r][b.source] = None

Blocked(r, op) == \E source \in Sources(op) : results[r][source] = None

Record(r, op, element) ==
    results' = [results EXCEPT ![r] =
        [id \in DOMAIN results[r] \cup {op.id} |->
            IF id = op.id THEN element ELSE results[r][id]]]

Block(r) ==
    /\ state[r] = "load"
    /\ \E op \in Todo(r) :
          /\ IsNext(r, op)
          /\ Blocked(r, op)
          /\ Record(r, op, None)
    /\ UNCHANGED <<crm, open, state, seen, x, plans>>

(* The elements a command refers to, by field.                             *)
References(r, op) ==
    [field \in {f.field : f \in op.literals \cup op.bindings} |->
        IF \E b \in op.bindings : b.field = field
        THEN results[r][(CHOOSE b \in op.bindings : b.field = field).source]
        ELSE (CHOOSE l \in op.literals : l.field = field).value]

Element(r, op) ==
    [run |-> r, id |-> op.id, kind |-> op.id[1], key |-> op.key, refs |-> References(r, op)]

Send(r) ==
    /\ state[r] = "load"
    /\ \E op \in Todo(r) :
          /\ IsNext(r, op)
          /\ ~Blocked(r, op)
          /\ open' = open \cup {Element(r, op)}
    /\ state' = [state EXCEPT ![r] = "waiting"]
    /\ UNCHANGED <<crm, seen, x, plans, results>>

(* Bitrix24 (external), at any time after Send, if ever.                   *)
CarryOut(request) ==
    /\ open' = open \ {request}
    /\ crm' = Append(crm, request)
    /\ UNCHANGED <<state, seen, x, plans, results>>

Answered(r, op, element) ==
    /\ Record(r, op, element)
    /\ state' = [state EXCEPT ![r] = "load"]
    /\ UNCHANGED <<crm, seen, x, plans>>

Requested(r, op) == {request \in open : request.run = r /\ request.id = op.id}

Succeed(r, op) ==
    \E k \in DOMAIN crm :
        /\ crm[k].run = r /\ crm[k].id = op.id
        /\ Answered(r, op, k)
        /\ UNCHANGED open

Fail(r, op) ==
    /\ Requested(r, op) # {}
    /\ Answered(r, op, None)
    /\ open' = open \ Requested(r, op)

UncertainRepeated(r, op) ==
    /\ Answered(r, op, None)
    /\ open' = open \cup {Element(r, op)}

(* UNKNOWN: the request may have been carried out, or may be later.        *)
Uncertain(r, op) ==
    /\ Answered(r, op, None)
    /\ UNCHANGED open

Answer(r) ==
    /\ state[r] = "waiting"
    /\ \E op \in Todo(r) :
          /\ IsNext(r, op)
          /\ Succeed(r, op) \/ Fail(r, op) \/ Uncertain(r, op)

(* The process of the run ends, and what it kept in memory is gone.        *)
Forget(r) ==
    /\ plans' = [plans EXCEPT ![r] = {}]
    /\ results' = [results EXCEPT ![r] = <<>>]

FinishAlways(r) ==
    /\ state[r] = "load"
    /\ Todo(r) = {}
    /\ state' = [state EXCEPT ![r] = "succeeded"]
    /\ Forget(r)
    /\ UNCHANGED <<crm, open, seen, x>>

Finish(r) ==
    /\ state[r] = "load"
    /\ Todo(r) = {}
    /\ state' = [state EXCEPT ![r] =
          IF \E id \in DOMAIN results[r] : results[r][id] = None THEN "incomplete"
          ELSE "succeeded"]
    /\ Forget(r)
    /\ UNCHANGED <<crm, open, seen, x>>

(* An error or the death of the process, wherever the run is.              *)
Stop(r) ==
    /\ state[r] \notin Over
    /\ state' = [state EXCEPT ![r] = "failed"]
    /\ Forget(r)
    /\ UNCHANGED <<crm, open, seen, x>>

RunNext(r) ==
    List(r) \/ ExtractAndTransform(r) \/ Block(r) \/ Send(r) \/ Answer(r) \/ Finish(r) \/ Stop(r)

RunsNext ==
    \/ \E r \in Runs : RunNext(r)
    \/ \E request \in open : CarryOut(request)

RunsSpec == RunsInit /\ [][RunsNext]_runsVars
-----------------------------------------------------------------------------
States == Listings \cup {"extract", "load", "waiting"} \cup Over

Kinds == DOMAIN Place

Elements ==
    [run : Runs, id : Kinds \X IdType, kind : Kinds, key : Nat,
     refs : [{} -> IdType] \cup [{"owner"} -> IdType]
            \cup [{"company"} -> IdType] \cup [{"company", "group"} -> IdType]]

RunsTypeOK ==
    /\ crm \in Seq(Elements)
    /\ open \subseteq Elements
    /\ \A element \in open \cup Values(crm) : element.kind = element.id[1]
    /\ state \in [Runs -> States]
    /\ seen \in [Runs -> [Listings -> 0..Len(crm)]]
    /\ x \in [Runs -> OnSite \cup {Nothing}]
    /\ DOMAIN plans = Runs /\ DOMAIN results = Runs
    /\ \A r \in Runs : DOMAIN results[r] \subseteq {op.id : op \in plans[r]}

(* Run r was told of element k: in the listing of its kind, and, of a      *)
(* requisite, after its company was listed.                                *)
Saw(r, k) ==
    CASE crm[k].kind = "lead" -> k <= seen[r].leads
      [] crm[k].kind = "group" -> k <= seen[r].groups
      [] crm[k].kind = "requisite" ->
            k <= seen[r].requisites /\ crm[k].refs["owner"] <= seen[r].companies

Keyed == {k \in DOMAIN crm : crm[k].kind \in {"lead", "group", "requisite"}}

Same(k, l) == crm[k].kind = crm[l].kind /\ crm[k].key = crm[l].key

(* A second lead of an object, group of a source id or company of an INN   *)
(* is only ever created by another run, one that listed the CRM before the *)
(* first was there; neither a failure nor a restart in between makes one.  *)
OnlyOverlapsDuplicate ==
    \A k, l \in Keyed :
        k < l /\ Same(k, l) => crm[k].run # crm[l].run /\ ~Saw(crm[l].run, k)

(* All that run r ever created was there before q listed anything.         *)
Precedes(r, q) == \A k \in DOMAIN crm : crm[k].run = r => k <= seen[q].leads

(* Each created something after the other began to list, be it by a        *)
(* request carried out after its end.                                      *)
Overlap(r, q) == ~Precedes(r, q) /\ ~Precedes(q, r)

(* A run is turned away only for a group or an INN that two runs which     *)
(* overlapped have both created.  Whatever else went before - runs that    *)
(* failed half way, overlaps and late requests over other records - the    *)
(* listings are read.                                                      *)
ContextStaysUsable ==
    \A r \in Runs :
        state[r] = "unusable" =>
            \E k, l \in Keyed :
                /\ k < l /\ Same(k, l) /\ crm[k].kind # "lead"
                /\ crm[k].run # crm[l].run
                /\ Overlap(crm[k].run, crm[l].run)

(* The object that lead k of the CRM was made for.                         *)
ObjectOf(k) == Get(x[crm[k].run].objects, "id", crm[k].key)

HasCompany(k) ==
    LET company == crm[k].refs["company"]
        inn == DeveloperOf(x[crm[k].run], ObjectOf(k)).inn
        before(kind) == {l \in 1..(k - 1) : crm[l].kind = kind}
    IN  \E l \in before("requisite") :
           /\ crm[l].refs["owner"] = company
           /\ crm[l].key = inn
           /\ crm[company].run = crm[k].run =>
                 \A kind \in AddressKinds :
                     \E a \in before(kind) : crm[a].refs["owner"] = l

HasGroup(k) ==
    ObjectOf(k).group # None =>
        \E g \in 1..(k - 1) :
            /\ g = crm[k].refs["group"]
            /\ crm[g].kind = "group" /\ crm[g].key = ObjectOf(k).group

(* A lead in the CRM is tied to a company that has the requisite with its  *)
(* developer's INN, to one of its own run only if both addresses are there *)
(* (a company that an earlier run left without them stays so), and to the  *)
(* group that its object names.                                            *)
LeadsStandOnCompanyAndGroup ==
    \A k \in DOMAIN crm : crm[k].kind = "lead" => HasCompany(k) /\ HasGroup(k)

(* After a run that succeeded the CRM has a lead of each object it found.  *)
SuccessIsComplete ==
    \A r \in Runs :
        state[r] = "succeeded" =>
            \A o \in Values(x[r].objects) :
                \E k \in DOMAIN crm : crm[k].kind = "lead" /\ crm[k].key = o.id
=============================================================================
