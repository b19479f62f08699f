----------------------------- MODULE LoadProofs -----------------------------
(***************************************************************************)
(* Proofs about Load for every set of validated plans.                     *)
(***************************************************************************)
EXTENDS Load, WellFoundedInduction, TLAPS

(* The request rests on the first n elements: what its operation depends   *)
(* on is among them, and its ids are those of the operations bound.        *)
RestsOn(request, n) ==
    /\ \A d \in Sources(request.op) : \E l \in 1..n : crm[l].op = d
    /\ \A d \in plan[request.op].binds :
          /\ request.refs[d] \in 1..n
          /\ crm[request.refs[d]].op = d

ElementsRest == \A k \in DOMAIN crm : RestsOn(crm[k], k - 1)
OpenRest == \A c \in open : RestsOn(c, Len(crm))

(* A request is open or carried out, not both, and not twice.              *)
OpenOnce ==
    /\ \A c \in open, k \in DOMAIN crm : crm[k].op # c.op
    /\ \A c, e \in open : c.op = e.op => c = e

(* A request still open was reported UNKNOWN or not reported at all.       *)
OpenUntold ==
    \A c \in open :
        \/ c.op \in DOMAIN results /\ results[c.op].status = "UNKNOWN"
        \/ c.op = Op /\ state \in {"waiting", "failed"}

(* An id reported is that of an element of the operation.                  *)
IdsAreReal ==
    \A i \in DOMAIN results : results[i].id # 0 => results[i].id \in Elements(i)

WaitsInPlan == state = "waiting" => Op <= Len(plan) /\ Blockers(Op) = {}

(* An operation is blocked for those it names.                             *)
BlockedForBlockers ==
    \A i \in DOMAIN results : results[i].status = "BLOCKED" <=> Blockers(i) # {}

Inv ==
    /\ TypeOK /\ IdsAreReal /\ WaitsInPlan
    /\ ElementsRest /\ OpenRest
    /\ OpenOnce /\ OpenUntold
    /\ NothingTwice /\ OneUntold /\ ResultsAreTrue
    /\ NoInvariantError
    /\ BlockedForBlockers
-----------------------------------------------------------------------------
LEMMA InvInit == Init => Inv
<1> SUFFICES ASSUME Init PROVE Inv
  OBVIOUS
<1>1. TypeOK
  <2>1. plan \in Seq(Operations)
    BY PlansAssumption DEF Init
  <2>2. QED
    BY <2>1 DEF Init, TypeOK, States
<1>2. /\ ElementsRest /\ OpenRest /\ OpenOnce /\ OpenUntold
      /\ IdsAreReal /\ WaitsInPlan
  BY DEF Init, ElementsRest, OpenRest, OpenOnce, OpenUntold, IdsAreReal, WaitsInPlan
<1>3. NothingTwice /\ OneUntold /\ ResultsAreTrue /\ NoInvariantError /\ BlockedForBlockers
  BY DEF Init, NothingTwice, OneUntold, ResultsAreTrue, NoInvariantError, BlockedForBlockers
<1>4. QED
  BY <1>1, <1>2, <1>3 DEF Inv

(* Places in a plan and in the results.                                    *)
LEMMA Places ==
    ASSUME Inv
    PROVE  /\ plan \in Seq(Operations) /\ Len(plan) \in Nat
           /\ Len(results) \in Nat /\ Op = Len(results) + 1
           /\ DOMAIN results = 1..Len(results)
           /\ DOMAIN plan = 1..Len(plan)
           /\ Len(crm) \in Nat /\ DOMAIN crm = 1..Len(crm)
           /\ \A i \in DOMAIN plan : Sources(i) \subseteq 1..(i - 1)
           /\ \A k \in DOMAIN crm : crm[k] \in Requests
<1>1. plan \in Plans /\ plan \in Seq(Operations) /\ Valid(plan)
  BY PlansAssumption DEF Inv, TypeOK
<1>2. \A i \in DOMAIN plan : Sources(i) \subseteq 1..(i - 1)
  BY <1>1 DEF Valid, Sources
<1>3. QED
  BY <1>1, <1>2 DEF Inv, TypeOK, Op

(* Appending a result that is true keeps everything.                       *)
LEMMA RecordKeeps ==
    ASSUME Inv, NEW s \in Outcomes, NEW n \in Nat, Record(s, n),
           plan' = plan, crm' = crm, open' \subseteq open,
           Op <= Len(plan), state \in {"running", "waiting"},
           s = "SUCCESS" => \E k \in Elements(Op) : plan[Op].creates => n = k,
           n # 0 => n \in Elements(Op),
           s \in {"FAILED", "BLOCKED"} =>
              \A k \in DOMAIN crm : crm[k].op # Op,
           s # "UNKNOWN" => \A c \in open' : c.op # Op,
           s = "BLOCKED" => state = "running",
           s = "BLOCKED" <=> Blockers(Op) # {}
    PROVE  Inv'
<1>1. /\ state' = "running"
      /\ results' \in Seq([status : Outcomes, id : Nat])
      /\ Len(results') = Len(results) + 1
      /\ DOMAIN results' = 1..(Len(results) + 1)
      /\ \A i \in DOMAIN results : results'[i] = results[i]
      /\ results'[Op] = [status |-> s, id |-> n]
  <2> DEFINE R == [status : Outcomes, id : Nat]
             r == [status |-> s, id |-> n]
  <2>1. results \in Seq(R) /\ r \in R /\ results' = Append(results, r) /\ state' = "running"
    BY DEF Record, Inv, TypeOK
  <2> HIDE DEF R, r
  <2>2. /\ results' \in Seq(R)
        /\ Len(results') = Len(results) + 1
        /\ DOMAIN results' = 1..(Len(results) + 1)
        /\ \A i \in DOMAIN results : results'[i] = results[i]
        /\ results'[Op] = r
    BY <2>1, Places
  <2>3. QED
    BY <2>1, <2>2 DEF R, r
<1>2. TypeOK'
  <2>1. plan' \in Plans /\ open' \subseteq Requests' /\ crm' \in Seq(Requests')
    BY DEF Inv, TypeOK, Requests
  <2>2. Len(results') <= Len(plan')
    BY <1>1, Places
  <2>3. QED
    BY <1>1, <2>1, <2>2 DEF TypeOK, States
<1>3. ElementsRest' /\ OpenRest'
  <2>1. ElementsRest'
    BY DEF Inv, ElementsRest, RestsOn, Sources
  <2>2. OpenRest'
    BY DEF Inv, OpenRest, RestsOn, Sources
  <2>3. QED
    BY <2>1, <2>2
<1>4. OpenOnce' /\ NothingTwice'
  BY DEF Inv, OpenOnce, NothingTwice
<1>5. OpenUntold'
  <2> SUFFICES ASSUME NEW c \in open'
               PROVE  c.op \in DOMAIN results' /\ results'[c.op].status = "UNKNOWN"
    BY DEF OpenUntold
  <2>1. CASE c.op \in DOMAIN results /\ results[c.op].status = "UNKNOWN"
    BY <1>1, <2>1, Places
  <2>2. CASE c.op = Op
    BY <1>1, <2>2, Places
  <2>3. QED
    BY <2>1, <2>2 DEF Inv, OpenUntold
<1>6. OneUntold'
  <2> SUFFICES ASSUME NEW k \in DOMAIN crm
               PROVE  /\ crm[k].op \in DOMAIN results'
                      /\ results'[crm[k].op].status \in {"SUCCESS", "UNKNOWN"}
    BY DEF OneUntold
  <2>1. CASE /\ crm[k].op \in DOMAIN results
             /\ results[crm[k].op].status \in {"SUCCESS", "UNKNOWN"}
    BY <1>1, <2>1, Places
  <2>2. CASE crm[k].op = Op
    BY <1>1, <2>2, Places DEF Outcomes
  <2>3. QED
    BY <2>1, <2>2 DEF Inv, OneUntold
<1>7. ResultsAreTrue'
  <2> SUFFICES ASSUME NEW i \in DOMAIN results'
               PROVE  /\ results'[i].status = "SUCCESS" =>
                           \E k \in Elements(i) : plan[i].creates => results'[i].id = k
                      /\ results'[i].status \in {"FAILED", "BLOCKED"} =>
                           /\ Elements(i) = {}
                           /\ \A c \in open' : c.op # i
    BY DEF ResultsAreTrue, Elements, OpenFor
  <2>1. CASE i \in DOMAIN results
    BY <1>1, <2>1 DEF Inv, ResultsAreTrue, OpenFor
  <2>2. CASE i = Op
    BY <1>1, <2>2 DEF Elements
  <2>3. QED
    BY <1>1, <2>1, <2>2, Places
<1>8. NoInvariantError' /\ WaitsInPlan'
  BY <1>1 DEF NoInvariantError, WaitsInPlan
<1>9. IdsAreReal'
  <2> SUFFICES ASSUME NEW i \in DOMAIN results', results'[i].id # 0
               PROVE  results'[i].id \in Elements(i)
    BY DEF IdsAreReal, Elements
  <2>1. CASE i \in DOMAIN results
    BY <1>1, <2>1 DEF Inv, IdsAreReal
  <2>2. CASE i = Op
    BY <1>1, <2>2
  <2>3. QED
    BY <1>1, <2>1, <2>2, Places
<1>10. BlockedForBlockers'
  <2> SUFFICES ASSUME NEW i \in DOMAIN results'
               PROVE  results'[i].status = "BLOCKED" <=>
                          \E d \in Sources(i) : results'[d].status # "SUCCESS"
    BY DEF BlockedForBlockers, Blockers, Sources
  <2>1. i \in DOMAIN plan /\ (i \in DOMAIN results \/ i = Op)
    BY <1>1, Places
  <2>2. \A d \in Sources(i) : d \in DOMAIN results /\ results'[d] = results[d]
    BY <1>1, <2>1, Places
  <2>3. CASE i \in DOMAIN results
    BY <1>1, <2>2, <2>3 DEF Inv, BlockedForBlockers, Blockers
  <2>4. CASE i = Op
    BY <1>1, <2>2, <2>4 DEF Blockers
  <2>5. QED
    BY <2>1, <2>3, <2>4
<1>11. QED
  BY <1>2, <1>3, <1>4, <1>5, <1>6, <1>7, <1>8, <1>9, <1>10 DEF Inv

(* Steps that only end the load, and may drop a request.                   *)
LEMMA EndKeeps ==
    ASSUME Inv, UNCHANGED <<plan, results, crm>>, open' \subseteq open,
           state' \in {"returned", "invariant", "failed"},
           state \in {"waiting", "failed"} => state' = "failed",
           state' = "invariant" => NoInvariantError'
    PROVE  Inv'
<1>1. TypeOK'
  BY DEF Inv, TypeOK, Requests, States
<1>2. ElementsRest'
  BY DEF Inv, ElementsRest, RestsOn, Sources
<1>3. OpenRest'
  BY DEF Inv, OpenRest, RestsOn, Sources
<1>4. OpenOnce' /\ NothingTwice'
  BY DEF Inv, OpenOnce, NothingTwice
<1>5. OpenUntold' /\ OneUntold'
  BY DEF Inv, OpenUntold, OneUntold, Op
<1>6. ResultsAreTrue' /\ IdsAreReal'
  BY DEF Inv, ResultsAreTrue, IdsAreReal, Elements, OpenFor
<1>7. NoInvariantError' /\ WaitsInPlan' /\ BlockedForBlockers'
  BY DEF Inv, NoInvariantError, WaitsInPlan, BlockedForBlockers, Blockers, Sources
<1>8. QED
  BY <1>1, <1>2, <1>3, <1>4, <1>5, <1>6, <1>7 DEF Inv

(* While the loop is between two calls, nothing of the current operation   *)
(* or a later one has been asked for.                                      *)
LEMMA NothingAhead ==
    ASSUME Inv, state = "running"
    PROVE  /\ \A k \in DOMAIN crm : crm[k].op # Op
           /\ \A c \in open : c.op # Op
<1>1. Op \notin DOMAIN results
  BY Places
<1>2. QED
  BY <1>1 DEF Inv, OneUntold, OpenUntold

LEMMA BlockKeeps == ASSUME Inv, Block PROVE Inv'
<1>1. /\ state = "running" /\ Op <= Len(plan) /\ Blockers(Op) # {}
      /\ Record("BLOCKED", 0) /\ UNCHANGED <<plan, open, crm>>
  BY DEF Block, MoreToDo
<1>2. "BLOCKED" \in Outcomes
  BY DEF Outcomes
<1>3. QED
  BY <1>1, <1>2, NothingAhead, RecordKeeps

LEMMA SucceedKeeps == ASSUME Inv, Succeed PROVE Inv'
<1>1. PICK k \in Elements(Op) : Record("SUCCESS", IF plan[Op].creates THEN k ELSE 0)
  BY DEF Succeed
<1>2. state = "waiting" /\ UNCHANGED <<plan, open, crm>>
  BY DEF Succeed
<1>3. /\ k \in DOMAIN crm /\ crm[k].op = Op
      /\ k \in Nat /\ Op <= Len(plan)
  BY <1>1, Places DEF Elements, Requests
<1>4. "SUCCESS" \in Outcomes
  BY DEF Outcomes
<1>5. \A c \in open : c.op # Op
  BY <1>3 DEF Inv, OpenOnce
<1>6. /\ (IF plan[Op].creates THEN k ELSE 0) \in Nat
      /\ (IF plan[Op].creates THEN k ELSE 0) # 0 =>
            (IF plan[Op].creates THEN k ELSE 0) \in Elements(Op)
  BY <1>1, <1>3
<1>7. Blockers(Op) = {}
  BY <1>2 DEF Inv, WaitsInPlan
<1>8. QED
  BY <1>1, <1>2, <1>3, <1>4, <1>5, <1>6, <1>7, RecordKeeps

LEMMA FailKeeps == ASSUME Inv, Fail PROVE Inv'
<1>1. /\ state = "waiting" /\ open' = open \ OpenFor(Op)
      /\ Record("FAILED", 0) /\ UNCHANGED <<plan, crm>>
  BY DEF Fail
<1>2. PICK c \in open : c.op = Op
  BY DEF Fail, OpenFor
<1>3. Op <= Len(plan)
  BY <1>2, Places DEF Inv, TypeOK, Requests
<1>4. \A k \in DOMAIN crm : crm[k].op # Op
  BY <1>2 DEF Inv, OpenOnce
<1>5. \A e \in open' : e.op # Op
  BY <1>1 DEF OpenFor
<1>6. "FAILED" \in Outcomes
  BY DEF Outcomes
<1>7. Blockers(Op) = {}
  BY <1>1 DEF Inv, WaitsInPlan
<1>8. QED
  BY <1>1, <1>3, <1>4, <1>5, <1>6, <1>7, RecordKeeps

LEMMA UncertainKeeps ==
    ASSUME Inv, Uncertain
    PROVE  Inv'
<1>1. /\ state = "waiting" /\ Op <= Len(plan) /\ Blockers(Op) = {}
      /\ Record("UNKNOWN", 0) /\ UNCHANGED <<plan, open, crm>>
  BY DEF Uncertain, Inv, WaitsInPlan
<1>2. "UNKNOWN" \in Outcomes
  BY DEF Outcomes
<1>3. QED
  BY <1>1, <1>2, RecordKeeps

(* What makes RaiseInvariantError a sign of a wrong plan: the operations   *)
(* before the current one have results, and a success has the id it should *)
(* have.                                                                   *)
LEMMA InconsistentPlan ==
    ASSUME Inv, Op <= Len(plan), Inconsistent(Op)
    PROVE  \E d \in plan[Op].binds : ~plan[d].creates
<1>1. Op \in DOMAIN plan /\ Sources(Op) \subseteq DOMAIN results
  BY Places
<1>2. /\ Blockers(Op) = {}
      /\ \E d \in plan[Op].binds : results[d].status # "SUCCESS" \/ results[d].id = 0
  BY <1>1 DEF Inconsistent
<1>3. PICK d \in plan[Op].binds : results[d].status # "SUCCESS" \/ results[d].id = 0
  BY <1>2
<1>4. d \in DOMAIN results /\ d \in Sources(Op)
  BY <1>1 DEF Sources
<1>5. results[d].status = "SUCCESS" /\ results[d].id = 0
  BY <1>2, <1>3, <1>4 DEF Blockers
<1>6. PICK k \in Elements(d) : plan[d].creates => results[d].id = k
  BY <1>4, <1>5 DEF Inv, ResultsAreTrue
<1>7. k # 0
  BY <1>6, Places DEF Elements
<1>8. QED
  BY <1>5, <1>6, <1>7

LEMMA RaiseInvariantErrorKeeps == ASSUME Inv, RaiseInvariantError PROVE Inv'
<1>1. /\ state = "running" /\ Op <= Len(plan) /\ Inconsistent(Op)
      /\ state' = "invariant" /\ UNCHANGED <<plan, results, open, crm>>
  BY DEF RaiseInvariantError, MoreToDo
<1>2. NoInvariantError'
  <2>1. Op \in DOMAIN plan
    BY <1>1, Places
  <2>2. QED
    BY <1>1, <2>1, InconsistentPlan DEF NoInvariantError
<1>3. QED
  BY <1>1, <1>2, EndKeeps

LEMMA EndsKeep == ASSUME Inv, GatewayFails \/ Interrupt \/ Return PROVE Inv'
<1>1. /\ UNCHANGED <<plan, results, crm>> /\ open' \subseteq open
      /\ state' \in {"failed", "returned"}
      /\ state \in {"waiting", "failed"} => state' = "failed"
  BY DEF GatewayFails, Interrupt, Return
<1>2. QED
  BY <1>1, EndKeeps

(* Sending the current operation's request: all it depends on is there,    *)
(* under the ids it takes.                                                 *)
LEMMA SendKeeps == ASSUME Inv, Send PROVE Inv'
<1> DEFINE request == [op |-> Op, refs |-> Resolved(Op)]
<1>1. /\ state = "running" /\ Op <= Len(plan)
      /\ Blockers(Op) = {} /\ ~Inconsistent(Op)
      /\ open' = open \cup {request}
      /\ state' = "waiting"
      /\ UNCHANGED <<plan, results, crm>>
  BY DEF Send, MoreToDo
<1>2. Op \in DOMAIN plan /\ Sources(Op) \subseteq DOMAIN results /\ Op \notin DOMAIN results
  BY <1>1, Places
<1>3. \A d \in Sources(Op) : /\ results[d].status = "SUCCESS"
                             /\ \E k \in Elements(d) : plan[d].creates => results[d].id = k
  BY <1>1, <1>2 DEF Blockers, Inv, ResultsAreTrue
<1>4. \A d \in plan[Op].binds : d \in DOMAIN plan /\ d \in Sources(Op)
  BY <1>2, Places DEF Sources
<1>5. request.op = Op /\ request.refs = Resolved(Op) /\ request \in Requests
  <2>1. \A d \in DOMAIN results : results[d].id \in Nat
    <3> DEFINE R == [status : Outcomes, id : Nat]
    <3>1. results \in Seq(R)
      BY DEF Inv, TypeOK
    <3>2. \A r \in R : r.id \in Nat
      OBVIOUS
    <3> HIDE DEF R
    <3>3. \A d \in DOMAIN results : results[d] \in R
      BY <3>1
    <3>4. QED
      BY <3>2, <3>3
  <2>2. Resolved(Op) \in [DOMAIN plan -> Nat]
    BY <1>2, <1>4, <2>1 DEF Resolved
  <2>3. QED
    BY <1>2, <2>2 DEF Requests
<1>6. TypeOK'
  BY <1>1, <1>5 DEF Inv, TypeOK, Requests, States
<1>7. ElementsRest'
  BY <1>1 DEF Inv, ElementsRest, RestsOn, Sources
<1>8. RestsOn(request, Len(crm))
  <2>1. \A d \in Sources(Op) : \E l \in 1..Len(crm) : crm[l].op = d
    BY <1>3, Places DEF Elements
  <2>2. ASSUME NEW d \in plan[Op].binds
        PROVE  /\ Resolved(Op)[d] \in 1..Len(crm)
               /\ crm[Resolved(Op)[d]].op = d
    <3>1. Resolved(Op)[d] = results[d].id
      BY <1>4 DEF Resolved
    <3>2. d \in DOMAIN results /\ results[d].id # 0
      BY <1>1, <1>2, <1>4 DEF Inconsistent
    <3>3. results[d].id \in Elements(d)
      BY <3>2 DEF Inv, IdsAreReal
    <3>4. QED
      BY <3>1, <3>3, Places DEF Elements
  <2>3. QED
    BY <1>5, <2>1, <2>2 DEF RestsOn
<1>9. OpenRest'
  <2>1. ASSUME NEW c \in open' PROVE RestsOn(c, Len(crm))
    BY <1>1, <1>8 DEF Inv, OpenRest
  <2>2. QED
    BY <1>1, <2>1 DEF OpenRest, RestsOn, Sources
<1>10. OpenOnce' /\ OpenUntold'
  <2>1. /\ \A k \in DOMAIN crm : crm[k].op # Op
        /\ \A c \in open : c.op # Op
    BY <1>1, NothingAhead
  <2>2. OpenOnce'
    BY <1>1, <1>5, <2>1 DEF Inv, OpenOnce
  <2>3. OpenUntold'
    BY <1>1, <1>5 DEF Inv, OpenUntold, Op
  <2>4. QED
    BY <2>2, <2>3
<1>11. /\ NothingTwice' /\ OneUntold' /\ NoInvariantError' /\ IdsAreReal' /\ WaitsInPlan'
       /\ BlockedForBlockers'
  BY <1>1 DEF Inv, NothingTwice, OneUntold, NoInvariantError, IdsAreReal, WaitsInPlan,
              BlockedForBlockers, Blockers, Sources, Elements, Op
<1>12. ResultsAreTrue'
  BY <1>1, <1>2, <1>5 DEF Inv, ResultsAreTrue, Elements, OpenFor
<1>13. QED
  BY <1>6, <1>7, <1>9, <1>10, <1>11, <1>12 DEF Inv

(* Bitrix24 carries out an open request: it becomes the next element.      *)
LEMMA CarryOutKeeps == ASSUME Inv, NEW request \in open, CarryOut(request) PROVE Inv'
<1> DEFINE n == Len(crm) + 1
<1>1. /\ open' = open \ {request}
      /\ UNCHANGED <<plan, results, state>>
      /\ crm' = Append(crm, request)
  BY DEF CarryOut
<1>2. /\ crm' \in Seq(Requests) /\ DOMAIN crm' = 1..n /\ Len(crm') = n
      /\ \A k \in DOMAIN crm : crm'[k] = crm[k]
      /\ crm'[n] = request
      /\ DOMAIN crm = 1..Len(crm) /\ Len(crm) \in Nat
  BY <1>1 DEF Inv, TypeOK
<1>3. /\ \A k \in DOMAIN crm : crm[k].op # request.op
      /\ \A c \in open' : c.op # request.op
  BY <1>1 DEF Inv, OpenOnce
<1>4. \A k \in 1..n : k \in DOMAIN crm \/ k = n
  BY <1>2
<1>5. TypeOK' /\ WaitsInPlan' /\ BlockedForBlockers'
  BY <1>1, <1>2
  DEF Inv, TypeOK, Requests, WaitsInPlan, BlockedForBlockers, Blockers, Sources, Op
<1>6. ASSUME NEW c \in Requests, NEW j \in 0..Len(crm), RestsOn(c, j)
      PROVE  /\ \A d \in plan[c.op].deps \cup plan[c.op].binds :
                   \E l \in 1..j : crm'[l].op = d
             /\ \A d \in plan[c.op].binds :
                   c.refs[d] \in 1..j /\ crm'[c.refs[d]].op = d
  <2>1. \A l \in 1..j : l \in DOMAIN crm /\ crm'[l] = crm[l]
    BY <1>2
  <2>2. QED
    BY <1>6, <2>1 DEF RestsOn, Sources
<1>7. RestsOn(request, Len(crm)) /\ request \in Requests
  BY DEF Inv, OpenRest, TypeOK
<1>8. ElementsRest'
  <2> SUFFICES ASSUME NEW k \in 1..n
               PROVE  /\ \A d \in plan[crm'[k].op].deps \cup plan[crm'[k].op].binds :
                            \E l \in 1..(k - 1) : crm'[l].op = d
                      /\ \A d \in plan[crm'[k].op].binds :
                            /\ crm'[k].refs[d] \in 1..(k - 1)
                            /\ crm'[crm'[k].refs[d]].op = d
    BY <1>1, <1>2 DEF ElementsRest, RestsOn, Sources
  <2>1. CASE k \in DOMAIN crm
    <3>1. RestsOn(crm[k], k - 1) /\ crm[k] \in Requests /\ k - 1 \in 0..Len(crm)
      BY <1>2, <2>1, Places DEF Inv, ElementsRest
    <3>2. /\ \A d \in plan[crm[k].op].deps \cup plan[crm[k].op].binds :
                \E l \in 1..(k - 1) : crm'[l].op = d
          /\ \A d \in plan[crm[k].op].binds :
                /\ crm[k].refs[d] \in 1..(k - 1)
                /\ crm'[crm[k].refs[d]].op = d
      BY <1>6, <3>1
    <3>3. crm'[k] = crm[k]
      BY <1>2, <2>1
    <3>4. QED
      BY <3>2, <3>3
  <2>2. CASE k = n
    <3>1. k - 1 = Len(crm) /\ Len(crm) \in 0..Len(crm)
      BY <1>2, <2>2
    <3>2. /\ \A d \in plan[request.op].deps \cup plan[request.op].binds :
                \E l \in 1..Len(crm) : crm'[l].op = d
          /\ \A d \in plan[request.op].binds :
                /\ request.refs[d] \in 1..Len(crm)
                /\ crm'[request.refs[d]].op = d
      BY <1>6, <1>7, <3>1
    <3>3. crm'[k] = request
      BY <1>2, <2>2
    <3>4. QED
      BY <3>1, <3>2, <3>3
  <2>3. QED
    BY <1>4, <2>1, <2>2
<1>9. OpenRest'
  <2> SUFFICES ASSUME NEW c \in open'
               PROVE  /\ \A d \in plan[c.op].deps \cup plan[c.op].binds :
                            \E l \in 1..n : crm'[l].op = d
                      /\ \A d \in plan[c.op].binds :
                            c.refs[d] \in 1..n /\ crm'[c.refs[d]].op = d
    BY <1>1, <1>2 DEF OpenRest, RestsOn, Sources
  <2>1. c \in Requests /\ RestsOn(c, Len(crm)) /\ Len(crm) \in 0..Len(crm)
    BY <1>1, <1>2 DEF Inv, TypeOK, OpenRest
  <2>2. \A l \in 1..Len(crm) : l \in 1..n
    BY <1>2
  <2>3. QED
    BY <1>6, <2>1, <2>2
<1>10. OpenOnce' /\ OpenUntold'
  BY <1>1, <1>2, <1>3, <1>4 DEF Inv, OpenOnce, OpenUntold, Op
<1>11. NothingTwice'
  BY <1>2, <1>3, <1>4 DEF Inv, NothingTwice
<1>12. OneUntold'
  <2>1. \/ /\ request.op \in DOMAIN results
           /\ results[request.op].status = "UNKNOWN"
        \/ request.op = Op /\ state \in {"waiting", "failed"}
    BY DEF Inv, OpenUntold
  <2>2. QED
    BY <1>1, <1>2, <1>4, <2>1 DEF Inv, OneUntold, Op
<1>13. ResultsAreTrue' /\ IdsAreReal'
  <2>1. \A i \in DOMAIN results :
           /\ Elements(i) \subseteq Elements(i)'
           /\ results[i].status \in {"FAILED", "BLOCKED"} =>
                 Elements(i)' = {} /\ OpenFor(i)' = {}
    BY <1>1, <1>2, <1>4 DEF Inv, ResultsAreTrue, OpenUntold, Elements, OpenFor
  <2>2. ResultsAreTrue'
    BY <1>1, <2>1 DEF Inv, ResultsAreTrue
  <2>3. IdsAreReal'
    BY <1>1, <2>1 DEF Inv, IdsAreReal
  <2>4. QED
    BY <2>2, <2>3
<1>14. NoInvariantError'
  BY <1>1 DEF Inv, NoInvariantError
<1>15. QED
  BY <1>5, <1>8, <1>9, <1>10, <1>11, <1>12, <1>13, <1>14 DEF Inv

LEMMA InvNext == Inv /\ [Next]_vars => Inv'
<1> SUFFICES ASSUME Inv, [Next]_vars PROVE Inv'
  OBVIOUS
<1>1. CASE Block \/ Send \/ RaiseInvariantError
  BY <1>1, BlockKeeps, SendKeeps, RaiseInvariantErrorKeeps
<1>2. CASE \E request \in open : CarryOut(request)
  BY <1>2, CarryOutKeeps
<1>3. CASE CallEnds
  BY <1>3, SucceedKeeps, FailKeeps, UncertainKeeps, EndsKeep DEF CallEnds
<1>4. CASE Interrupt \/ Return
  BY <1>4, EndsKeep
<1>5. CASE UNCHANGED vars
  <2>1. /\ plan' = plan /\ results' = results /\ state' = state
        /\ open' = open /\ crm' = crm
    BY <1>5 DEF vars
  <2>2. TypeOK' /\ IdsAreReal' /\ WaitsInPlan'
    BY <2>1 DEF Inv, TypeOK, IdsAreReal, WaitsInPlan, Blockers, Sources, Requests, Elements, Op
  <2>3. ElementsRest' /\ OpenRest'
    BY <2>1 DEF Inv, ElementsRest, OpenRest, RestsOn, Sources
  <2>4. OpenOnce' /\ OpenUntold' /\ NothingTwice' /\ OneUntold'
    BY <2>1 DEF Inv, OpenOnce, OpenUntold, NothingTwice, OneUntold, Op
  <2>5. ResultsAreTrue' /\ NoInvariantError' /\ BlockedForBlockers'
    BY <2>1 DEF Inv, ResultsAreTrue, NoInvariantError, Elements, OpenFor,
                BlockedForBlockers, Blockers, Sources
  <2>6. QED
    BY <2>2, <2>3, <2>4, <2>5 DEF Inv
<1>6. QED
  BY <1>1, <1>2, <1>3, <1>4, <1>5 DEF Next
-----------------------------------------------------------------------------
(* The Load stage, for every set of validated plans: log, open requests    *)
(* and results are as the inductive invariant says.                        *)
THEOREM Invariance == Spec => []Inv
<1>1. QED
  BY InvInit, InvNext, PTL DEF Spec

(* The variables of the Load stage have their types; there is never a      *)
(* result too many.                                                        *)
THEOREM TypeCorrect == Spec => []TypeOK
<1>1. Inv => TypeOK
  BY DEF Inv
<1>2. QED
  BY <1>1, Invariance, PTL

(* No operation of any plan is carried out twice, for any mixture of       *)
(* answers, failures and late effects.                                     *)
THEOREM OperationsOnce == Spec => []NothingTwice
<1>1. Inv => NothingTwice
  BY DEF Inv
<1>2. QED
  BY <1>1, Invariance, PTL

(* Bitrix24 never holds an element without all those its operation depends *)
(* on, at whatever point the load ends.                                    *)
THEOREM CrmClosed == Spec => []CrmIsClosed
<1>1. Inv => CrmIsClosed
  BY DEF Inv, ElementsRest, RestsOn, CrmIsClosed
<1>2. QED
  BY <1>1, Invariance, PTL

(* Every reference in Bitrix24 is to the element of the operation bound.   *)
THEOREM ReferencesRight == Spec => []ReferencesAreRight
<1>1. Inv => ReferencesAreRight
  BY DEF Inv, ElementsRest, RestsOn, ReferencesAreRight
<1>2. QED
  BY <1>1, Invariance, PTL

(* What Bitrix24 holds stands on what it was planned to stand on: both of  *)
(* the above, for every set of plans.                                      *)
THEOREM CrmSound == Spec => []CrmIsSound
<1>1. CrmIsClosed /\ ReferencesAreRight => CrmIsSound
  BY DEF CrmIsSound
<1>2. QED
  BY <1>1, CrmClosed, ReferencesRight, PTL

(* A LoadResult's operations are as reported, for good.                    *)
THEOREM ResultsTrue == Spec => []ResultsAreTrue
<1>1. Inv => ResultsAreTrue
  BY DEF Inv
<1>2. QED
  BY <1>1, Invariance, PTL

(* However a load is cut off, one operation at most was carried out that   *)
(* its results do not tell of.                                             *)
THEOREM AtMostOneUntold == Spec => []OneUntold
<1>1. Inv => OneUntold
  BY DEF Inv
<1>2. QED
  BY <1>1, Invariance, PTL

(* A plan whose bindings are to operations that create an id never raises  *)
(* LoadInvariantError.                                                     *)
THEOREM PlansAreConsistent == Spec => []NoInvariantError
<1>1. Inv => NoInvariantError
  BY DEF Inv
<1>2. QED
  BY <1>1, Invariance, PTL

(* What an operation depends on has its result before it.                  *)
LEMMA SourcesHaveResults ==
    ASSUME Inv
    PROVE  /\ DOMAIN results \subseteq Nat
           /\ \A i \in DOMAIN results : Sources(i) \subseteq DOMAIN results
           /\ \A i \in DOMAIN results : \A d \in Sources(i) : d < i
<1>1. Len(results) <= Len(plan)
  BY DEF Inv, TypeOK
<1>2. /\ Len(plan) \in Nat /\ Len(results) \in Nat
      /\ DOMAIN results = 1..Len(results) /\ DOMAIN plan = 1..Len(plan)
      /\ \A i \in DOMAIN plan : Sources(i) \subseteq 1..(i - 1)
  BY Places
<1>3. ASSUME NEW i \in DOMAIN results, NEW d \in Sources(i) PROVE d \in DOMAIN results /\ d < i
  <2>1. i \in 1..Len(results) /\ i \in DOMAIN plan
    BY <1>1, <1>2
  <2>2. d \in 1..(i - 1)
    BY <1>2, <1>3, <2>1
  <2>3. QED
    BY <1>2, <2>1, <2>2
<1>4. QED
  BY <1>2, <1>3

(* Downstream of a failure is what did not succeed.                        *)
LEMMA DownstreamIsUndone ==
    ASSUME Inv
    PROVE  Downstream = {i \in DOMAIN results : results[i].status # "SUCCESS"}
<1> DEFINE undone == {i \in DOMAIN results : results[i].status # "SUCCESS"}
<1>1. /\ DOMAIN results \subseteq Nat
      /\ \A i \in DOMAIN results : Sources(i) \subseteq DOMAIN results
      /\ \A i \in DOMAIN results : \A d \in Sources(i) : d < i
  BY SourcesHaveResults
<1>2. \A i \in DOMAIN results : results[i].status \in Outcomes
  <2> DEFINE R == [status : Outcomes, id : Nat]
  <2>1. results \in Seq(R)
    BY DEF Inv, TypeOK
  <2>2. \A r \in R : r.status \in Outcomes
    OBVIOUS
  <2> HIDE DEF R
  <2>3. \A i \in DOMAIN results : results[i] \in R
    BY <2>1
  <2>4. QED
    BY <2>2, <2>3
<1>3. \A i \in DOMAIN results :
          results[i].status = "BLOCKED" <=> \E d \in Sources(i) : d \in undone
  BY <1>1 DEF Inv, BlockedForBlockers, Blockers
<1>4. ClosedDownstream(undone)
  BY <1>1, <1>3 DEF ClosedDownstream
<1>5. ASSUME NEW set \in SUBSET DOMAIN results, ClosedDownstream(set) PROVE undone \subseteq set
  <2> DEFINE left == undone \ set
  <2>1. SUFFICES ASSUME left # {} PROVE FALSE
    OBVIOUS
  <2>2. left \in SUBSET Nat
    BY <1>1
  <2>3. PICK i \in left : \A d \in left : <<d, i>> \notin OpToRel(<, Nat)
    BY <2>1, <2>2, NatLessThanWellFounded, WFMin
  <2>4. \A d \in left : ~(d < i)
    BY <2>2, <2>3 DEF OpToRel
  <2>5. i \in DOMAIN results /\ results[i].status # "SUCCESS" /\ i \notin set
    BY <2>3
  <2>6. results[i].status = "BLOCKED"
    BY <1>2, <1>5, <2>5 DEF ClosedDownstream, Outcomes
  <2>7. PICK d \in Sources(i) : d \in undone
    BY <1>3, <2>5, <2>6
  <2>8. d \in set
    BY <1>1, <2>4, <2>5, <2>7
  <2>9. QED
    BY <1>5, <2>5, <2>7, <2>8 DEF ClosedDownstream
<1>6. QED
  BY <1>4, <1>5 DEF Downstream

(* An operation is blocked exactly when one it depends on, over any number *)
(* of steps, failed or is unknown, in plans of any length.                 *)
THEOREM FailureStopsDownstream == Spec => []BlockedDownstream
<1>1. ASSUME Inv PROVE BlockedDownstream
  <2>1. \A i \in DOMAIN results : Sources(i) \subseteq DOMAIN results
    BY <1>1, SourcesHaveResults
  <2>2. \A i \in DOMAIN results :
            results[i].status = "BLOCKED" <=> \E d \in Sources(i) : results[d].status # "SUCCESS"
    BY <1>1 DEF Inv, BlockedForBlockers, Blockers
  <2>3. QED
    BY <1>1, <2>1, <2>2, DownstreamIsUndone DEF BlockedDownstream
<1>2. QED
  BY <1>1, Invariance, PTL
=============================================================================
