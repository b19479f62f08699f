-------------------------------- MODULE Load --------------------------------
(***************************************************************************)
(* The Load stage of the synchronisation: SyncPlanExecutor works through a *)
(* validated plan one operation after another, with its binding resolver,  *)
(* command executor and CRM client, against the Gateway and Bitrix24.      *)
(*                                                                         *)
(* An operation is known by its place in the plan.  What it writes is left *)
(* out but for the ids it takes from operations before it.  Bitrix24 is a  *)
(* log of the elements created; an element's id is its place in the log.   *)
(***************************************************************************)
EXTENDS Naturals, Sequences

CONSTANT Plans  \* the plans SyncPlanValidator lets pass

VARIABLES
    plan,     \* the plan being loaded
    results,  \* results of the operations done, in plan order
    state,    \* of LoadService.load
    open,     \* requests Bitrix24 may still carry out
    crm       \* requests Bitrix24 has carried out

vars == <<plan, results, state, open, crm>>

(* SyncPlanValidator: operations refer to operations before them only.     *)
Valid(p) == \A i \in DOMAIN p : p[i].deps \cup p[i].binds \subseteq 1..(i - 1)

(* creates tells the commands that return an id (items and requisites)     *)
(* from those that return none (addresses).                                *)
Operations == [creates : BOOLEAN, deps : SUBSET Nat, binds : SUBSET Nat]

ASSUME PlansAssumption ==
    \A p \in Plans : p \in Seq(Operations) /\ Valid(p)

Outcomes == {"SUCCESS", "FAILED", "UNKNOWN", "BLOCKED"}
States == {"running", "waiting", "returned", "invariant", "failed"}

Init ==
    /\ plan \in Plans
    /\ results = <<>>
    /\ state = "running"
    /\ open = {}
    /\ crm = <<>>
-----------------------------------------------------------------------------
(* The operation whose turn it is.                                         *)
Op == Len(results) + 1

MoreToDo == state = "running" /\ Op <= Len(plan)

(* The operations whose success operation i needs.                         *)
Sources(i) == plan[i].deps \cup plan[i].binds

BlockersAnywhere(i) == {d \in DOMAIN results : results[d].status # "SUCCESS"}

Blockers(i) == {d \in Sources(i) : results[d].status # "SUCCESS"}

ResolvedWithLatest(i) ==
    [d \in DOMAIN plan |-> IF d \in plan[i].binds THEN results[i - 1].id ELSE 0]

(* RuntimeBindingResolver.resolve: the ids the command is sent with, by    *)
(* the operation they are taken from (0 for one that is not bound).        *)
Resolved(i) ==
    [d \in DOMAIN plan |-> IF d \in plan[i].binds THEN results[d].id ELSE 0]

Record(status, id) ==
    /\ results' = Append(results, [status |-> status, id |-> id])
    /\ state' = "running"

BlockUnrecorded ==
    /\ MoreToDo
    /\ Sources(Op) \subseteq DOMAIN results
    /\ Blockers(Op) # {}
    /\ UNCHANGED vars

Block ==
    /\ MoreToDo
    /\ Sources(Op) \subseteq DOMAIN results
    /\ Blockers(Op) # {}
    /\ Record("BLOCKED", 0)
    /\ UNCHANGED <<plan, open, crm>>

(* A source without a result, or a binding without an id to bind.          *)
Inconsistent(i) ==
    \/ ~(Sources(i) \subseteq DOMAIN results)
    \/ /\ Blockers(i) = {}
       /\ \E d \in plan[i].binds : \/ results[d].status # "SUCCESS"
                                   \/ results[d].id = 0

(* LoadInvariantError                                                      *)
RaiseInvariantError ==
    /\ MoreToDo
    /\ Inconsistent(Op)
    /\ state' = "invariant"
    /\ UNCHANGED <<plan, results, open, crm>>

(* The command goes to the Gateway, under RetryPolicy.NEVER.               *)
Send ==
    /\ MoreToDo
    /\ Blockers(Op) = {}
    /\ ~Inconsistent(Op)
    /\ open' = open \cup {[op |-> Op, refs |-> Resolved(Op)]}
    /\ state' = "waiting"
    /\ UNCHANGED <<plan, results, crm>>
-----------------------------------------------------------------------------
(***************************************************************************)
(* Bitrix24 and the Gateway (external).  That FAILED means no effect and   *)
(* that a NEVER request is carried out at most once is what module         *)
(* Execution shows of the Gateway.                                         *)
(***************************************************************************)

CarryOut(request) ==
    /\ request \in open
    /\ open' = open \ {request}
    /\ crm' = Append(crm, request)
    /\ UNCHANGED <<plan, results, state>>

Elements(i) == {k \in DOMAIN crm : crm[k].op = i}
OpenFor(i) == {request \in open : request.op = i}
-----------------------------------------------------------------------------
(* The Gateway answers SUCCESS, with the new id where there is one.        *)
Succeed ==
    /\ state = "waiting"
    /\ \E k \in Elements(Op) : Record("SUCCESS", IF plan[Op].creates THEN k ELSE 0)
    /\ UNCHANGED <<plan, open, crm>>

(* The Gateway answers FAILED: BitrixRequestFailedError.                   *)
Fail ==
    /\ state = "waiting"
    /\ OpenFor(Op) # {}
    /\ open' = open \ OpenFor(Op)
    /\ Record("FAILED", 0)
    /\ UNCHANGED <<plan, crm>>

UncertainRetried ==
    /\ state = "waiting"
    /\ state' = "running"
    /\ UNCHANGED <<plan, results, open, crm>>

UncertainAsFailed ==
    /\ state = "waiting"
    /\ Record("FAILED", 0)
    /\ UNCHANGED <<plan, open, crm>>

(* The Gateway answers UNKNOWN: BitrixRequestUnknownError.  Bitrix24 may   *)
(* have carried the request out, or may do so later.                       *)
Uncertain ==
    /\ state = "waiting"
    /\ Record("UNKNOWN", 0)
    /\ UNCHANGED <<plan, open, crm>>

GatewayFailsCaught ==
    /\ state = "waiting"
    /\ Record("FAILED", 0)
    /\ open' \in {open, open \ OpenFor(Op)}
    /\ UNCHANGED <<plan, crm>>

(* No usable answer from the Gateway: BitrixGatewayError ends the load     *)
(* without a LoadResult.  The request is dropped (HTTP 503, or 504 while   *)
(* it was queued) or goes on (504 later, a lost connection, the client's   *)
(* timeout), or it was carried out (an answer out of contract).            *)
GatewayFails ==
    /\ state = "waiting"
    /\ state' = "failed"
    /\ open' \in {open, open \ OpenFor(Op)}
    /\ UNCHANGED <<plan, results, crm>>

(* The process is interrupted, or the CRM client cannot be closed.         *)
Interrupt ==
    /\ state \in {"running", "waiting"}
    /\ state' = "failed"
    /\ UNCHANGED <<plan, results, open, crm>>

Return ==
    /\ state = "running"
    /\ Op > Len(plan)
    /\ state' = "returned"
    /\ UNCHANGED <<plan, results, open, crm>>

CallEnds == Succeed \/ Fail \/ Uncertain \/ GatewayFails

Next ==
    \/ Block
    \/ RaiseInvariantError
    \/ Send
    \/ \E request \in open : CarryOut(request)
    \/ CallEnds
    \/ Interrupt
    \/ Return

Spec == Init /\ [][Next]_vars

(* The loop goes on, and a call to the Gateway ends: the CRM client's HTTP *)
(* timeouts see to it.  Nothing is promised of Bitrix24.                   *)
FairSpec ==
    /\ Spec
    /\ WF_vars(Block)
    /\ WF_vars(RaiseInvariantError)
    /\ WF_vars(Send)
    /\ WF_vars(CallEnds)
    /\ WF_vars(Return)
-----------------------------------------------------------------------------
(* A request: the operation, and the ids of the operations bound.          *)
Requests == [op : DOMAIN plan, refs : [DOMAIN plan -> Nat]]

TypeOK ==
    /\ plan \in Plans
    /\ results \in Seq([status : Outcomes, id : Nat])
    /\ Len(results) <= Len(plan)
    /\ state \in States
    /\ open \subseteq Requests
    /\ crm \in Seq(Requests)

(* No operation of a plan is ever carried out twice, whatever the Gateway  *)
(* answered, although it may still carry a request out after its client    *)
(* has given it up.                                                        *)
NothingTwice == \A k, l \in DOMAIN crm : crm[k].op = crm[l].op => k = l

(* What the plan's dependencies are for: at no time, whether the load goes *)
(* on, has ended or was cut off, does Bitrix24 hold an element without     *)
(* those it depends on, such as a lead without its company, the company's  *)
(* requisite and addresses.                                                *)
CrmIsClosed ==
    \A k \in DOMAIN crm : \A d \in Sources(crm[k].op) :
        \E l \in 1..(k - 1) : crm[l].op = d

(* Each reference in Bitrix24 is to the element the bound operation has    *)
(* created, not to another one or to none.                                 *)
ReferencesAreRight ==
    \A k \in DOMAIN crm : \A d \in plan[crm[k].op].binds :
        /\ crm[k].refs[d] \in 1..(k - 1)
        /\ crm[crm[k].refs[d]].op = d

(* What Bitrix24 holds stands on what it was planned to stand on, at every *)
(* moment.                                                                 *)
CrmIsSound == CrmIsClosed /\ ReferencesAreRight

(* The results tell what Bitrix24 did and will still do: SUCCESS that the  *)
(* element is there under the id reported, FAILED and BLOCKED that it is   *)
(* not and will not be.                                                    *)
ResultsAreTrue ==
    \A i \in DOMAIN results :
        /\ results[i].status = "SUCCESS" =>
              \E k \in Elements(i) : plan[i].creates => results[i].id = k
        /\ results[i].status \in {"FAILED", "BLOCKED"} =>
              Elements(i) = {} /\ OpenFor(i) = {}

(* A load that is cut off leaves one operation at most whose fate its      *)
(* results do not tell: the one it was at.                                 *)
OneUntold ==
    \A k \in DOMAIN crm :
        \/ /\ crm[k].op \in DOMAIN results
           /\ results[crm[k].op].status \in {"SUCCESS", "UNKNOWN"}
        \/ crm[k].op = Op /\ state \in {"waiting", "failed"}

(* The set holds what failed or is unknown and, with an operation, those   *)
(* that need its success.                                                  *)
ClosedDownstream(set) ==
    \A i \in DOMAIN results :
        results[i].status \in {"FAILED", "UNKNOWN"} \/ Sources(i) \cap set # {} => i \in set

Downstream == {i \in DOMAIN results :
                  \A set \in SUBSET DOMAIN results : ClosedDownstream(set) => i \in set}

(* An operation is blocked exactly when one it depends on, over any number *)
(* of steps, failed or is unknown; the rest of the plan is carried out.    *)
BlockedDownstream ==
    \A i \in DOMAIN results :
        /\ results[i].status = "SUCCESS" <=> i \notin Downstream
        /\ results[i].status = "BLOCKED" <=> Sources(i) \cap Downstream # {}

(* LoadInvariantError means what it says: a plan the transformer can have  *)
(* made, whose bindings are to operations that create an id, never ends    *)
(* that way, whatever fails before.                                        *)
NoInvariantError ==
    state = "invariant" => \E i \in DOMAIN plan : \E d \in plan[i].binds :
                               ~plan[d].creates

(* Every load ends.                                                        *)
LoadEnds == <>(state \notin {"running", "waiting"})
=============================================================================
