---------------------------- MODULE GatewayProofs ----------------------------
(***************************************************************************)
(* Proofs about the Gateway: about its executor (module Execution) for     *)
(* every set of methods, every number of attempts and all durations, and   *)
(* about the whole (module Gateway) for every set of calls, every workload *)
(* and every queue capacity.                                               *)
(***************************************************************************)
EXTENDS Gateway, TLAPS

(* Where the loop of execute stands: how many requests have been sent and  *)
(* how many of them Bitrix24 can have carried out.                         *)
Unsent == phase \in {"cooldown", "pacing"} => attempt = sends + 1 /\ effects <= sends
Unanswered == phase = "sent" => attempt = sends /\ effects < sends
Retrying == phase = "backoff" => /\ attempt = sends
                                 /\ effects <= sends
                                 /\ policy = "SAFE"
                                 /\ attempt < MaxAttempts
Ended == phase = "idle" => /\ sends <= attempt
                           /\ effects <= sends
                           /\ status # "none" => attempt = sends
OneAttempt == policy = "NEVER" => attempt <= 1
NoVerdictYet == phase # "idle" => status = "none"

LoopInv == Unsent /\ Unanswered /\ Retrying /\ Ended /\ OneAttempt /\ NoVerdictYet

(* What the limits know: the rate limiter's record is the truth, a sleep   *)
(* covers what is missing, and a cooldown covers what is owed.             *)
LimitInv ==
    /\ gap = sinceStart
    /\ announced = resetIn
    /\ \A m \in Methods : owed[m] <= blocked[m]
    /\ phase = "pacing" => sleep + sinceStart >= MinInterval
    /\ phase \in {"pacing", "sent"} => blocked[method] = 0

Inv == TypeOK /\ LoopInv /\ LimitInv /\ VerdictIsHonest
-----------------------------------------------------------------------------
LEMMA ResetIsTime ==
    ASSUME NEW a \in Answers, a.reset # {}
    PROVE  (CHOOSE t \in a.reset : TRUE) \in Times
<1>1. PICK t \in Times : a.reset = {t}
  BY DEF Answers
<1>2. QED
  BY <1>1

LEMMA InvInit == Init => Inv
<1> SUFFICES ASSUME Init PROVE Inv
  OBVIOUS
<1>1. TypeOK
  BY ExecutionAssumption DEF Init, TypeOK, Phases, Statuses, Times, Sleeps, Longest
<1>2. LoopInv /\ LimitInv /\ VerdictIsHonest
  BY ExecutionAssumption DEF Init, LoopInv, Unsent, Unanswered, Retrying, Ended, OneAttempt, NoVerdictYet, LimitInv, VerdictIsHonest
<1>3. QED
  BY <1>1, <1>2 DEF Inv

(* What the limits may do to a request: hold it back in one of two ways or *)
(* let it through.                                                         *)
LEMMA WaitTurnKeeps ==
    ASSUME Inv, NEW m \in Methods, NEW n \in 0..MaxAttempts, n + 1 <= MaxAttempts,
           WaitTurn(m, n), method' = m,
           UNCHANGED <<blocked, resetIn, announced, owed>>
    PROVE  /\ phase' \in {"cooldown", "pacing", "sent"}
           /\ phase' \in {"cooldown", "pacing"} => sends' = n
           /\ phase' = "sent" => sends' = n + 1
           /\ sends' \in 0..MaxAttempts
           /\ sleep' \in Sleeps
           /\ sinceStart' \in 0..MinInterval
           /\ gap' \in 0..MinInterval
           /\ LimitInv'
<1>1. CASE blocked[m] > 0 /\ Wait("cooldown", blocked[m], n)
  BY <1>1, ExecutionAssumption DEF Inv, TypeOK, LimitInv, Wait, Times, Sleeps, Longest
<1>2. CASE /\ blocked[m] = 0
           /\ sinceStart < MinInterval
           /\ Wait("pacing", MinInterval - sinceStart, n)
  BY <1>2, ExecutionAssumption DEF Inv, TypeOK, LimitInv, Wait, Times, Sleeps, Longest
<1>3. CASE blocked[m] = 0 /\ Send(n)
  BY <1>3, ExecutionAssumption DEF Inv, TypeOK, LimitInv, Send, Times, Sleeps, Longest
<1>4. QED
  BY <1>1, <1>2, <1>3 DEF WaitTurn

LEMMA StartKeeps ==
    ASSUME Inv, NEW m \in Methods, NEW p \in Policies, Start(m, p)
    PROVE  Inv'
<1>1. /\ phase' \in {"cooldown", "pacing", "sent"}
      /\ phase' \in {"cooldown", "pacing"} => sends' = 0
      /\ phase' = "sent" => sends' = 1
      /\ sends' \in 0..MaxAttempts
      /\ sleep' \in Sleeps
      /\ sinceStart' \in 0..MinInterval
      /\ gap' \in 0..MinInterval
      /\ LimitInv'
  <2>1. 0 \in 0..MaxAttempts /\ 0 + 1 <= MaxAttempts
    BY ExecutionAssumption
  <2>2. WaitTurn(m, 0) /\ method' = m /\ UNCHANGED <<blocked, resetIn, announced, owed>>
    BY DEF Start
  <2>3. QED
    BY <2>1, <2>2, WaitTurnKeeps
<1>2. TypeOK'
  BY <1>1, ExecutionAssumption DEF Start, Inv, TypeOK, Phases, Statuses
<1>3. /\ attempt' = 1 /\ effects' = 0 /\ status' = "none"
      /\ phase' = "sent" \/ phase' \in {"cooldown", "pacing"}
  BY <1>1 DEF Start
<1>4. LoopInv'
  <2>0. /\ phase' \in {"cooldown", "pacing"} => sends' = 0
        /\ phase' = "sent" => sends' = 1
    BY <1>1
  <2>1. Unsent' /\ Unanswered'
    BY <1>3, <2>0 DEF Unsent, Unanswered
  <2>2. Retrying' /\ Ended' /\ OneAttempt' /\ NoVerdictYet'
    BY <1>3 DEF Retrying, Ended, OneAttempt, NoVerdictYet
  <2>3. QED
    BY <2>1, <2>2 DEF LoopInv
<1>5. VerdictIsHonest'
  BY <1>3 DEF VerdictIsHonest
<1>6. QED
  BY <1>1, <1>2, <1>4, <1>5 DEF Inv

LEMMA ResumeKeeps ==
    ASSUME Inv, CooldownOver \/ BackoffOver
    PROVE  Inv'
<1>1. /\ sends + 1 <= MaxAttempts
      /\ sends \in 0..MaxAttempts
      /\ attempt' = sends + 1
      /\ WaitTurn(method, sends)
      /\ policy = "NEVER" => attempt' <= 1
      /\ effects <= sends /\ status = "none"
      /\ UNCHANGED <<method, policy, status, blocked, resetIn, effects,
                     announced, owed>>
  BY ExecutionAssumption DEF CooldownOver, BackoffOver, Inv, TypeOK,
     LoopInv, Unsent, Unanswered, Retrying, Ended, OneAttempt, NoVerdictYet
<1>2. /\ phase' \in {"cooldown", "pacing", "sent"}
      /\ phase' \in {"cooldown", "pacing"} => sends' = sends
      /\ phase' = "sent" => sends' = sends + 1
      /\ sends' \in 0..MaxAttempts
      /\ sleep' \in Sleeps
      /\ sinceStart' \in 0..MinInterval
      /\ gap' \in 0..MinInterval
      /\ LimitInv'
  <2>1. method \in Methods /\ method' = method
    BY <1>1 DEF Inv, TypeOK
  <2>2. UNCHANGED <<blocked, resetIn, announced, owed>>
    BY <1>1
  <2>3. QED
    BY <1>1, <2>1, <2>2, WaitTurnKeeps
<1>3. TypeOK'
  BY <1>1, <1>2, ExecutionAssumption DEF Inv, TypeOK, Phases
<1>4. LoopInv'
  <2>0. /\ phase' \in {"cooldown", "pacing"} => sends' = sends
        /\ phase' = "sent" => sends' = sends + 1
        /\ attempt' = sends + 1 /\ effects' = effects
        /\ effects <= sends /\ effects \in Nat /\ sends \in Nat
    BY <1>1, <1>2 DEF Inv, TypeOK
  <2>1. Unsent' /\ Unanswered'
    BY <2>0 DEF Unsent, Unanswered
  <2>2. Retrying' /\ Ended' /\ OneAttempt' /\ NoVerdictYet'
    BY <1>1, <1>2 DEF Retrying, Ended, OneAttempt, NoVerdictYet
  <2>3. QED
    BY <2>1, <2>2 DEF LoopInv
<1>5. VerdictIsHonest'
  BY <1>1 DEF Inv, VerdictIsHonest
<1>6. QED
  BY <1>2, <1>3, <1>4, <1>5 DEF Inv

LEMMA PacingOverKeeps == ASSUME Inv, PacingOver PROVE Inv'
<1> USE ExecutionAssumption DEF Inv, PacingOver, Send
<1>1. TypeOK'
  BY DEF TypeOK, LoopInv, Unsent, Phases, Sleeps, Longest
<1>2. LoopInv'
  BY DEF TypeOK, LoopInv, Unsent, Unanswered, Retrying, Ended, OneAttempt, NoVerdictYet
<1>3. LimitInv' /\ VerdictIsHonest'
  BY DEF TypeOK, LimitInv, VerdictIsHonest
<1>4. QED
  BY <1>1, <1>2, <1>3
-----------------------------------------------------------------------------
(* While a request is under way: one more effect at most, and none before  *)
(* it if it must not be repeated.                                          *)
LEMMA SentFacts ==
    ASSUME Inv, phase = "sent"
    PROVE  /\ attempt = sends /\ attempt \in 0..MaxAttempts
           /\ effects \in Nat /\ effects + 1 <= sends
           /\ sends \in 0..MaxAttempts
           /\ policy = "NEVER" => attempt = 1 /\ sends = 1 /\ effects = 0
           /\ policy \in Policies
           /\ status = "none"
<1> USE ExecutionAssumption DEF Inv, TypeOK
<1>1. /\ attempt = sends /\ effects < sends
      /\ policy = "NEVER" => attempt <= 1
      /\ status = "none"
  BY DEF LoopInv, Unanswered, OneAttempt, NoVerdictYet
<1>2. /\ sends \in Nat /\ effects \in Nat
      /\ attempt \in 0..MaxAttempts /\ sends \in 0..MaxAttempts
      /\ policy \in Policies
  OBVIOUS
<1>3. effects + 1 <= sends
  BY <1>1, <1>2
<1>4. policy = "NEVER" => attempt = 1 /\ sends = 1 /\ effects = 0
  BY <1>1, <1>2
<1>5. QED
  BY <1>1, <1>2, <1>3, <1>4

(* Ending execute with a status that tells the truth about the effects.    *)
LEMMA FinishKeeps ==
    ASSUME Inv, phase = "sent", NEW s \in Statuses \ {"none"}, Finish(s),
           sends' = sends, policy' = policy, method' = method,
           effects' \in {effects, effects + 1},
           policy = "NEVER" /\ s = "FAILED" => effects' = effects,
           s = "SUCCESS" => effects' = effects + 1,
           s = "UNKNOWN" => policy = "NEVER"
    PROVE  /\ phase' = "idle" /\ sleep' = 0 /\ sleep' \in Sleeps
           /\ attempt' \in 0..MaxAttempts
           /\ effects' \in 0..MaxAttempts
           /\ status' \in Statuses
           /\ LoopInv' /\ VerdictIsHonest'
<1>1. phase' = "idle" /\ sleep' = 0 /\ status' = s /\ attempt' = attempt
  BY DEF Finish
<1>2. /\ effects' \in Nat /\ effects' <= sends
      /\ effects' \in 0..MaxAttempts
  BY SentFacts, ExecutionAssumption
<1>3. LoopInv'
  <2>1. Unsent' /\ Unanswered' /\ Retrying' /\ NoVerdictYet'
    BY <1>1 DEF Unsent, Unanswered, Retrying, NoVerdictYet
  <2>2. Ended'
    BY <1>1, <1>2, SentFacts DEF Ended
  <2>3. OneAttempt'
    BY <1>1, SentFacts DEF OneAttempt
  <2>4. QED
    BY <2>1, <2>2, <2>3 DEF LoopInv
<1>4. VerdictIsHonest'
  BY <1>1, SentFacts DEF VerdictIsHonest
<1>5. 0 \in Sleeps
  BY ExecutionAssumption DEF Sleeps, Longest
<1>6. QED
  BY <1>1, <1>2, <1>3, <1>4, <1>5, SentFacts

(* Going back for another attempt.                                         *)
LEMMA BackoffKeeps ==
    ASSUME Inv, phase = "sent", MayRetry, Backoff, attempt' = attempt,
           sends' = sends, policy' = policy, method' = method,
           effects' \in {effects, effects + 1}
    PROVE  /\ phase' = "backoff" /\ sleep' \in Sleeps
           /\ attempt' \in 0..MaxAttempts
           /\ effects' \in 0..MaxAttempts
           /\ status' \in Statuses
           /\ LoopInv' /\ VerdictIsHonest'
<1>1. /\ phase' = "backoff" /\ sleep' = RetryDelay /\ status' = status
      /\ policy = "SAFE" /\ attempt < MaxAttempts
  BY DEF Backoff, MayRetry
<1>2. /\ effects' \in Nat /\ effects' <= sends
      /\ effects' \in 0..MaxAttempts
  BY SentFacts, ExecutionAssumption
<1>3. LoopInv'
  <2>1. Unsent' /\ Unanswered' /\ Ended' /\ OneAttempt'
    BY <1>1 DEF Unsent, Unanswered, Ended, OneAttempt
  <2>2. Retrying' /\ NoVerdictYet'
    BY <1>1, <1>2, SentFacts DEF Retrying, NoVerdictYet
  <2>3. QED
    BY <2>1, <2>2 DEF LoopInv
<1>4. VerdictIsHonest'
  BY <1>1, SentFacts DEF VerdictIsHonest
<1>5. RetryDelay \in Sleeps
  BY ExecutionAssumption DEF Sleeps, Longest
<1>6. QED
  BY <1>1, <1>2, <1>3, <1>4, <1>5, SentFacts DEF Statuses

LEMMA TransportFailsKeeps ==
    ASSUME Inv, NEW f \in Failures, TransportFails(f)
    PROVE  Inv'
<1>1. /\ phase = "sent"
      /\ UNCHANGED <<method, policy, sinceStart, blocked, resetIn, sends, gap,
                     announced, owed>>
  BY DEF TransportFails, limitVars
<1>2. /\ effects' \in {effects, effects + 1}
      /\ ~OutcomeUncertain(f) => effects' = effects
  BY SentFacts, <1>1 DEF TransportFails, EffectsOfFailure, OutcomeUncertain
<1>3. /\ phase' \in Phases /\ phase' \notin {"pacing", "sent"}
      /\ sleep' \in Sleeps /\ attempt' \in 0..MaxAttempts
      /\ effects' \in 0..MaxAttempts /\ status' \in Statuses
      /\ LoopInv' /\ VerdictIsHonest'
  <2>1. CASE MayRetry
    BY <1>1, <1>2, <2>1, BackoffKeeps DEF TransportFails, Phases
  <2>2. CASE ~MayRetry
    <3> DEFINE s == IF policy = "NEVER" /\ OutcomeUncertain(f)
                    THEN "UNKNOWN" ELSE "FAILED"
    <3>1. /\ s \in Statuses \ {"none"} /\ s # "SUCCESS"
          /\ s = "UNKNOWN" => policy = "NEVER"
          /\ policy = "NEVER" /\ s = "FAILED" => effects' = effects
      BY <1>2 DEF Statuses
    <3>2. Finish(s)
      BY <2>2 DEF TransportFails
    <3>3. QED
      BY <1>1, <1>2, <3>1, <3>2, FinishKeeps DEF Phases
  <2>3. QED
    BY <2>1, <2>2
<1>4. TypeOK'
  BY <1>1, <1>3 DEF Inv, TypeOK
<1>5. LimitInv'
  BY <1>1, <1>3 DEF Inv, LimitInv
<1>6. QED
  BY <1>3, <1>4, <1>5 DEF Inv

(* What an answer does whatever becomes of the job.                        *)
LEMMA ReceiveFacts ==
    ASSUME Inv, NEW a \in Answers, Receive(a)
    PROVE  /\ phase = "sent"
           /\ effects' \in {effects, effects + 1}
           /\ IsSuccess(a) => effects' = effects + 1
           /\ ~IsSuccess(a) /\ (a.http # "5xx" \/ a.code \in LimitCodes)
                => effects' = effects
           /\ UNCHANGED <<method, policy, sinceStart, sends, gap>>
           /\ resetIn' \in [Methods -> Times]
           /\ announced' = resetIn'
<1>1. /\ phase = "sent"
      /\ UNCHANGED <<method, policy, sinceStart, sends, gap>>
      /\ announced = resetIn /\ resetIn \in [Methods -> Times]
  BY DEF Receive, Inv, LimitInv, TypeOK
<1>2. /\ effects' \in {effects, effects + 1}
      /\ IsSuccess(a) => effects' = effects + 1
      /\ ~IsSuccess(a) /\ (a.http # "5xx" \/ a.code \in LimitCodes)
           => effects' = effects
  BY <1>1, SentFacts DEF Receive, EffectsOfAnswer, IsSuccess, LimitCodes
<1>3. resetIn' \in [Methods -> Times]
  BY <1>1, ResetIsTime DEF Receive, RememberReset
<1>4. announced' = resetIn'
  BY <1>1 DEF Receive, RememberReset
<1>5. QED
  BY <1>1, <1>2, <1>3, <1>4

LEMMA SucceedsKeeps ==
    ASSUME Inv, NEW a \in Answers, Succeeds(a)
    PROVE  Inv'
<1>1. IsSuccess(a) /\ Receive(a) /\ Finish("SUCCESS") /\ UNCHANGED <<blocked, owed>>
  BY DEF Succeeds
<1>2. /\ phase' = "idle" /\ sleep' \in Sleeps /\ attempt' \in 0..MaxAttempts
      /\ effects' \in 0..MaxAttempts /\ status' \in Statuses
      /\ LoopInv' /\ VerdictIsHonest'
  <2>1. "SUCCESS" \in Statuses \ {"none"}
    BY DEF Statuses
  <2>2. QED
    BY <1>1, <2>1, ReceiveFacts, FinishKeeps
<1>3. TypeOK' /\ LimitInv'
  BY <1>1, <1>2, ReceiveFacts DEF Inv, TypeOK, LimitInv, Phases
<1>4. QED
  BY <1>2, <1>3 DEF Inv

LEMMA IsFinalKeeps ==
    ASSUME Inv, NEW a \in Answers, IsFinal(a)
    PROVE  Inv'
<1> DEFINE s == IF IsUncertain(a) THEN "UNKNOWN" ELSE "FAILED"
<1>1. ~IsSuccess(a) /\ Receive(a) /\ Finish(s) /\ UNCHANGED <<blocked, owed>>
  BY DEF IsFinal
<1>2. /\ s \in Statuses \ {"none"} /\ s # "SUCCESS"
      /\ s = "UNKNOWN" => policy = "NEVER"
      /\ policy = "NEVER" /\ s = "FAILED" => effects' = effects
  BY <1>1, ReceiveFacts DEF Statuses, IsUncertain
<1>3. /\ phase' = "idle" /\ sleep' \in Sleeps /\ attempt' \in 0..MaxAttempts
      /\ effects' \in 0..MaxAttempts /\ status' \in Statuses
      /\ LoopInv' /\ VerdictIsHonest'
  BY <1>1, <1>2, ReceiveFacts, FinishKeeps
<1>4. TypeOK' /\ LimitInv'
  BY <1>1, <1>3, ReceiveFacts DEF Inv, TypeOK, LimitInv, Phases
<1>5. QED
  BY <1>3, <1>4 DEF Inv

LEMMA IsRetriedKeeps ==
    ASSUME Inv, NEW a \in Answers, IsRetried(a)
    PROVE  Inv'
<1>1. /\ MayRetry /\ Receive(a) /\ Backoff /\ attempt' = attempt
      /\ UNCHANGED <<blocked, owed>>
  BY DEF IsRetried, ShouldRetry
<1>2. /\ phase' = "backoff" /\ sleep' \in Sleeps /\ attempt' \in 0..MaxAttempts
      /\ effects' \in 0..MaxAttempts /\ status' \in Statuses
      /\ LoopInv' /\ VerdictIsHonest'
  BY <1>1, ReceiveFacts, BackoffKeeps
<1>3. TypeOK' /\ LimitInv'
  BY <1>1, <1>2, ReceiveFacts DEF Inv, TypeOK, LimitInv, Phases
<1>4. QED
  BY <1>2, <1>3 DEF Inv

LEMMA HitsOperationLimitKeeps ==
    ASSUME Inv, NEW a \in Answers, HitsOperationLimit(a)
    PROVE  Inv'
<1>1. /\ a.code = "OPERATION_TIME_LIMIT" /\ Receive(a) /\ Finish("FAILED")
  BY DEF HitsOperationLimit
<1>2. effects' = effects
  BY <1>1, ReceiveFacts DEF IsSuccess, LimitCodes
<1>3. /\ phase' = "idle" /\ sleep' \in Sleeps /\ attempt' \in 0..MaxAttempts
      /\ effects' \in 0..MaxAttempts /\ status' \in Statuses
      /\ LoopInv' /\ VerdictIsHonest'
  <2>1. "FAILED" \in Statuses \ {"none"}
    BY DEF Statuses
  <2>2. QED
    BY <1>1, <1>2, <2>1, ReceiveFacts, FinishKeeps
<1>4. /\ method \in Methods
      /\ blocked \in [Methods -> Times] /\ owed \in [Methods -> Times]
      /\ resetIn'[method] \in Times /\ announced'[method] = resetIn'[method]
      /\ \A m \in Methods : owed[m] <= blocked[m]
  BY <1>1, ReceiveFacts DEF Inv, TypeOK, LimitInv
<1>5. /\ blocked' \in [Methods -> Times] /\ owed' \in [Methods -> Times]
  BY <1>4 DEF HitsOperationLimit
<1>6. \A m \in Methods : owed'[m] <= blocked'[m]
  <2> SUFFICES ASSUME NEW m \in Methods PROVE owed'[m] <= blocked'[m]
    OBVIOUS
  <2>1. owed[m] \in Nat /\ blocked[m] \in Nat /\ resetIn'[method] \in Nat
    BY <1>4, ExecutionAssumption DEF Times
  <2>2. CASE m # method
    BY <1>4, <2>1, <2>2 DEF HitsOperationLimit
  <2>3. CASE m = method
    BY <1>4, <2>1, <2>3 DEF HitsOperationLimit
  <2>4. QED
    BY <2>2, <2>3
<1>7. TypeOK' /\ LimitInv'
  BY <1>1, <1>3, <1>5, <1>6, ReceiveFacts DEF Inv, TypeOK, LimitInv, Phases
<1>8. QED
  BY <1>3, <1>7 DEF Inv
-----------------------------------------------------------------------------
LEMMA LessMore ==
    /\ \A n \in Nat : Less(n) \in Nat /\ Less(n) <= n /\ (n > 0 => Less(n) + 1 = n)
    /\ \A n, k \in Nat : n <= k => Less(n) <= Less(k)
    /\ \A n \in 0..MinInterval : More(n) \in 0..MinInterval
    /\ \A n \in 0..MinInterval, k \in Nat :
          k + n >= MinInterval => Less(k) + More(n) >= MinInterval
  BY ExecutionAssumption DEF Less, More

LEMMA TickKeeps == ASSUME Inv, Tick PROVE Inv'
<1>1. /\ phase' = phase /\ method' = method /\ policy' = policy
      /\ attempt' = attempt /\ status' = status /\ sends' = sends
      /\ effects' = effects
  BY DEF Tick
<1>2. LoopInv' /\ VerdictIsHonest'
  BY <1>1 DEF Inv, VerdictIsHonest, LoopInv, Unsent, Unanswered, Retrying, Ended, OneAttempt, NoVerdictYet
<1>3. /\ sleep \in Nat /\ sinceStart \in 0..MinInterval /\ gap = sinceStart
      /\ \A m \in Methods : /\ blocked[m] \in Nat /\ resetIn[m] \in Nat
                            /\ announced[m] \in Nat /\ owed[m] \in Nat
  BY ExecutionAssumption DEF Inv, TypeOK, LimitInv, Sleeps, Times, Longest
<1>4. TypeOK'
  <2>1. sleep' \in Sleeps
    <3>1. sleep' = Less(sleep) /\ sleep \in Sleeps
      BY DEF Tick, Inv, TypeOK
    <3>2. QED
      BY <3>1, ExecutionAssumption DEF Less, Sleeps, Longest
  <2>2. sinceStart' \in 0..MinInterval /\ gap' \in 0..MinInterval
    BY <1>3, LessMore DEF Tick
  <2>3. \A f \in [Methods -> Times] : [m \in Methods |-> Less(f[m])] \in [Methods -> Times]
    BY ExecutionAssumption DEF Less, Times
  <2>4. /\ blocked' \in [Methods -> Times] /\ resetIn' \in [Methods -> Times]
        /\ announced' \in [Methods -> Times] /\ owed' \in [Methods -> Times]
    BY <2>3 DEF Tick, Inv, TypeOK
  <2>5. QED
    BY <1>1, <2>1, <2>2, <2>4 DEF Inv, TypeOK
<1>5. LimitInv'
  <2>1. gap' = sinceStart' /\ announced' = resetIn'
    BY <1>3 DEF Tick, Inv, LimitInv
  <2>2. \A m \in Methods : owed'[m] <= blocked'[m]
    BY <1>3, LessMore DEF Tick, Inv, LimitInv
  <2>3. phase' = "pacing" => sleep' + sinceStart' >= MinInterval
    BY <1>1, <1>3, LessMore DEF Tick, Inv, LimitInv
  <2>4. phase' \in {"pacing", "sent"} => blocked'[method'] = 0
    BY <1>1 DEF Tick, Inv, TypeOK, LimitInv, Less
  <2>5. QED
    BY <2>1, <2>2, <2>3, <2>4 DEF LimitInv
<1>6. QED
  BY <1>2, <1>4, <1>5 DEF Inv

LEMMA RaiseKeeps == ASSUME Inv, Raise PROVE Inv'
<1>1. /\ phase # "idle" /\ phase' = "idle" /\ sleep' = 0
      /\ UNCHANGED <<method, policy, attempt, status, sinceStart, blocked,
                     resetIn, sends, gap, announced, owed>>
      /\ effects' = effects \/ (phase = "sent" /\ effects' = effects + 1)
  <2>1. effects \in Nat
    BY DEF Inv, TypeOK
  <2>2. QED
    BY <2>1 DEF Raise, limitVars
<1>2. /\ status = "none" /\ attempt \in Nat /\ sends \in 0..MaxAttempts
      /\ sends <= attempt
      /\ effects' \in Nat /\ effects' <= sends
  <2>1. phase \in {"cooldown", "pacing", "sent", "backoff"}
    BY <1>1 DEF Inv, TypeOK, Phases
  <2>2. attempt \in Nat /\ sends \in 0..MaxAttempts /\ sends \in Nat /\ effects \in Nat
    BY ExecutionAssumption DEF Inv, TypeOK
  <2>3. QED
    BY <1>1, <2>1, <2>2 DEF Inv, LoopInv, Unsent, Unanswered, Retrying, NoVerdictYet
<1>3. TypeOK'
  <2>1. 0 \in Sleeps
    BY ExecutionAssumption DEF Sleeps, Longest
  <2>2. effects' \in 0..MaxAttempts
    BY <1>2, ExecutionAssumption
  <2>3. QED
    BY <1>1, <2>1, <2>2 DEF Inv, TypeOK, Phases
<1>4. LoopInv'
  BY <1>1, <1>2 DEF Inv, LoopInv, Unsent, Unanswered, Retrying, Ended, OneAttempt, NoVerdictYet
<1>5. LimitInv' /\ VerdictIsHonest'
  BY <1>1, <1>2 DEF Inv, LimitInv, VerdictIsHonest
<1>6. QED
  BY <1>3, <1>4, <1>5 DEF Inv

LEMMA InvNext == Inv /\ [Next]_vars => Inv'
<1> SUFFICES ASSUME Inv, [Next]_vars PROVE Inv'
  OBVIOUS
<1>1. CASE \E m \in Methods, p \in Policies : Start(m, p)
  BY <1>1, StartKeeps
<1>2. CASE CooldownOver \/ BackoffOver
  BY <1>2, ResumeKeeps
<1>3. CASE PacingOver
  BY <1>3, PacingOverKeeps
<1>4. CASE RequestEnds
  BY <1>4, TransportFailsKeeps, SucceedsKeeps, HitsOperationLimitKeeps,
     IsRetriedKeeps, IsFinalKeeps DEF RequestEnds
<1>5. CASE Tick
  BY <1>5, TickKeeps
<1>6. CASE Raise
  BY <1>6, RaiseKeeps
<1>7. CASE UNCHANGED vars
  BY <1>7 DEF vars, jobVars, limitVars, historyVars, Inv, TypeOK, LimitInv,
              VerdictIsHonest, LoopInv, Unsent, Unanswered, Retrying, Ended, OneAttempt, NoVerdictYet
<1>8. QED
  BY <1>1, <1>2, <1>3, <1>4, <1>5, <1>6, <1>7 DEF Next
-----------------------------------------------------------------------------
(* RequestExecutor.execute with its limits and transport, for every set of *)
(* methods and all settings: the loop's and the limits' state is as the    *)
(* inductive invariant says.                                               *)
THEOREM Invariance == Spec => []Inv
<1>1. QED
  BY InvInit, InvNext, PTL DEF Spec

(* The executor's variables have their types: attempt never passes         *)
(* max_attempts, and no sleep is longer than the settings and Bitrix24's   *)
(* announcements allow.                                                    *)
THEOREM TypeCorrect == Spec => []TypeOK
<1>1. Inv => TypeOK
  BY DEF Inv
<1>2. QED
  BY <1>1, Invariance, PTL

LEMMA NeverTwice == ASSUME Inv PROVE NeverSentTwice
<1> SUFFICES ASSUME policy = "NEVER" PROVE sends <= 1
  BY DEF NeverSentTwice
<1>1. attempt <= 1 /\ attempt \in Nat /\ sends \in Nat
  BY ExecutionAssumption DEF Inv, TypeOK, LoopInv, OneAttempt
<1>2. sends <= attempt
  BY <1>1 DEF Inv, TypeOK, Phases, LoopInv, Unsent, Unanswered, Retrying, Ended
<1>3. QED
  BY <1>1, <1>2

(* A job whose retry policy is NEVER is sent to Bitrix24 at most once,     *)
(* whatever max_attempts is and however its request ends.                  *)
THEOREM NeverJobsSentOnce == Spec => []NeverSentTwice
<1>1. Inv => NeverSentTwice
  BY NeverTwice
<1>2. QED
  BY <1>1, Invariance, PTL

(* attempt_count of every GatewayResult is the number of requests sent.    *)
THEOREM AttemptCountIsTrue == Spec => []AttemptsAreSends
<1>1. Inv => AttemptsAreSends
  BY DEF Inv, LoopInv, Ended, AttemptsAreSends
<1>2. QED
  BY <1>1, Invariance, PTL

(* The status of every GatewayResult tells the truth about what Bitrix24   *)
(* did.                                                                    *)
THEOREM VerdictsAreHonest == Spec => []VerdictIsHonest
<1>1. Inv => VerdictIsHonest
  BY DEF Inv
<1>2. QED
  BY <1>1, Invariance, PTL

(* A GatewayResult is to be believed: both of the above.                   *)
THEOREM ResultsAreHonest == Spec => []ResultIsHonest
<1>1. AttemptsAreSends /\ VerdictIsHonest => ResultIsHonest
  BY DEF ResultIsHonest
<1>2. QED
  BY <1>1, AttemptCountIsTrue, VerdictsAreHonest, PTL

(* No request of a method is under way while the method owes Bitrix24 the  *)
(* wait announced for it: a cooldown is never shortened, and the wait for  *)
(* the rate limit cannot outlast a check that another job invalidates.     *)
THEOREM CooldownsAreKept == Spec => []CooldownRespected
<1>1. Inv => CooldownRespected
  <2> SUFFICES ASSUME Inv, phase = "sent" PROVE owed[method] = 0
    BY DEF CooldownRespected
  <2>1. method \in Methods /\ owed[method] \in Nat
    BY ExecutionAssumption DEF Inv, TypeOK, Times
  <2>2. owed[method] <= blocked[method] /\ blocked[method] = 0
    BY <2>1 DEF Inv, LimitInv
  <2>3. QED
    BY <2>1, <2>2
<1>2. QED
  BY <1>1, Invariance, PTL

(* Requests start at least MinInterval apart, retries and jobs of other    *)
(* methods included.                                                       *)
THEOREM StartsAreSpaced == Spec => StartsSpaced
<1>1. Inv /\ [Next]_vars => [phase' = "sent" /\ phase # "sent" => gap >= MinInterval]_vars
  <2> SUFFICES ASSUME Inv, Next, phase' = "sent", phase # "sent"
               PROVE  gap >= MinInterval
    OBVIOUS
  <2>1. gap = sinceStart
    BY DEF Inv, LimitInv
  <2>2. ASSUME NEW m \in Methods, NEW n \in Nat, WaitTurn(m, n)
        PROVE  gap >= MinInterval
    BY <2>1, <2>2 DEF WaitTurn, Wait
  <2>3. CASE \E m \in Methods, p \in Policies : Start(m, p)
    BY <2>2, <2>3 DEF Start
  <2>4. CASE CooldownOver \/ BackoffOver
    <3>1. method \in Methods /\ sends \in Nat /\ WaitTurn(method, sends)
      BY <2>4, ExecutionAssumption DEF CooldownOver, BackoffOver, Inv, TypeOK
    <3>2. QED
      BY <2>2, <3>1
  <2>5. CASE PacingOver
    <3>1. sleep = 0 /\ sleep + sinceStart >= MinInterval /\ sinceStart \in Nat
      BY <2>5, ExecutionAssumption DEF PacingOver, Inv, TypeOK, LimitInv
    <3>2. QED
      BY <2>1, <3>1
  <2>6. CASE RequestEnds
    BY <2>6 DEF RequestEnds, TransportFails, Succeeds, HitsOperationLimit,
                IsRetried, IsFinal, Receive
  <2>7. CASE Tick
    BY <2>7 DEF Tick
  <2>8. CASE Raise
    BY <2>8 DEF Raise
  <2>9. QED
    BY <2>3, <2>4, <2>5, <2>6, <2>7, <2>8 DEF Next
<1>2. QED
  BY <1>1, Invariance, PTL DEF Spec, StartsSpaced
-----------------------------------------------------------------------------
(***************************************************************************)
(* The Gateway.                                                            *)
(***************************************************************************)

(* What is proved of the dispatcher, with the Gateway's variables.         *)
Dispatching == INSTANCE DispatchProofs

LEMMA DispatchConstants == Dispatching!DispatchAssumption
BY GatewayAssumption DEF Dispatching!DispatchAssumption

LEMMA SameDispatcher ==
    /\ Dispatcher!Init => Dispatching!Init
    /\ Dispatcher!Next \/ UNCHANGED dispatchVars
         => Dispatching!Next \/ UNCHANGED Dispatching!vars
<1>1. Dispatcher!Init => Dispatching!Init
  BY DEF Dispatcher!Init, Dispatching!Init, Dispatcher!Future, Dispatching!Future,
         Dispatcher!Answer, Dispatching!Answer
<1>2. UNCHANGED dispatchVars => UNCHANGED Dispatching!vars
  BY DEF dispatchVars, Dispatching!vars, Dispatching!callVars, Dispatching!workVars
<1>3. ASSUME NEW c \in Calls, Dispatcher!CallStep(c) PROVE Dispatching!CallStep(c)
  BY <1>3 DEF Dispatcher!CallStep, Dispatching!CallStep,
     Dispatcher!Call, Dispatching!Call,
     Dispatcher!SubmitAccepted, Dispatching!SubmitAccepted,
     Dispatcher!SubmitRefused, Dispatching!SubmitRefused,
     Dispatcher!SubmitResumes, Dispatching!SubmitResumes,
     Dispatcher!Expire, Dispatching!Expire,
     Dispatcher!GiveUp, Dispatching!GiveUp,
     Dispatcher!Reply, Dispatching!Reply,
     Dispatcher!ReplyTimeout, Dispatching!ReplyTimeout,
     Dispatcher!workVars, Dispatching!workVars,
     Dispatcher!Future, Dispatching!Future, Dispatcher!Answer, Dispatching!Answer,
     Dispatcher!TaskOver, Dispatching!TaskOver
<1>4. Dispatcher!TakeNext => Dispatching!TakeNext
  BY DEF Dispatcher!TakeNext, Dispatching!TakeNext, Dispatcher!Live, Dispatching!Live
<1>5. ASSUME Dispatcher!WakeWorker PROVE Dispatching!WakeWorker
  BY <1>4, <1>5 DEF Dispatcher!WakeWorker, Dispatching!WakeWorker,
     Dispatcher!callVars, Dispatching!callVars
<1>6. ASSUME Dispatcher!FinishJob PROVE Dispatching!FinishJob
  BY <1>4, <1>6 DEF Dispatcher!FinishJob, Dispatching!FinishJob,
     Dispatcher!Complete, Dispatching!Complete, Dispatcher!Live, Dispatching!Live,
     Dispatcher!Future, Dispatching!Future
<1>7. ASSUME Dispatcher!WorkerDies \/ Dispatcher!Stop
      PROVE  Dispatching!WorkerDies \/ Dispatching!Stop
  BY <1>7 DEF Dispatcher!WorkerDies, Dispatching!WorkerDies,
     Dispatcher!Stop, Dispatching!Stop, Dispatcher!callVars, Dispatching!callVars
<1>8. Dispatcher!Next => Dispatching!Next
  BY <1>3, <1>5, <1>6, <1>7 DEF Dispatcher!Next, Dispatching!Next
<1>9. QED
  BY <1>1, <1>2, <1>8

(* What the Gateway's step does to the dispatcher is a step of it, or      *)
(* nothing.                                                                *)
LEMMA StepsDispatch ==
    GatewayNext \/ UNCHANGED gatewayVars
       => Dispatcher!Next \/ UNCHANGED dispatchVars
BY DEF GatewayNext, gatewayVars, Handle, TakeJob, Execute, Elapse, ReturnJob, Die,
       ShutDown, Dispatcher!Next

(* The Gateway is a dispatcher: all that is proved of module Dispatch      *)
(* holds of it.                                                            *)
THEOREM GatewayDispatches == GatewaySpec => Dispatcher!Spec
<1>1. GatewayInit => Dispatcher!Init
  BY DEF GatewayInit
<1>2. [GatewayNext]_gatewayVars => [Dispatcher!Next]_(Dispatcher!vars)
  <2>1. UNCHANGED dispatchVars => UNCHANGED Dispatcher!vars
    BY DEF dispatchVars, Dispatcher!vars, Dispatcher!callVars, Dispatcher!workVars
  <2>2. QED
    BY <2>1, StepsDispatch
<1>3. QED
  BY <1>1, <1>2, PTL DEF GatewaySpec, Dispatcher!Spec
-----------------------------------------------------------------------------
(* The worker and execute agree on the job, and a job that is not being    *)
(* executed leaves execute idle.                                           *)
Engaged ==
    /\ worker # NoCall => method = job[worker].method /\ policy = job[worker].policy
    /\ worker = NoCall => phase = "idle"

Verdicts == {"none", "SUCCESS", "FAILED", "UNKNOWN", "raised"}
Endings == [sends : Nat, effects : Nat, verdict : Verdicts]

(* What is kept of a job is the truth, before its start and after its end. *)
KeptOnce ==
    \A c \in Calls :
       /\ c \notin begun => done[c] = NotRun
       /\ job[c].policy = "NEVER" => done[c].sends <= 1

(* The futures and the answers tell how the execution ended.               *)
FutureTells ==
    \A c \in Calls :
       /\ future[c].state = "result" =>
             c # worker /\ done[c].verdict \in {"SUCCESS", "FAILED", "UNKNOWN"}
       /\ future[c].state = "error" => c # worker /\ done[c].verdict = "raised"

AnswerTells ==
    \A c \in Calls :
       /\ answer[c].code = "200" => task[c] = "returned"
       /\ answer[c].code = "500" => task[c] = "failed"
       /\ answer[c].code = "503" => task[c] = "refused"

JobsTyped == job \in [Calls -> Jobs] /\ done \in [Calls -> Endings]

GatewayInv ==
    /\ Inv
    /\ Dispatching!Inv
    /\ JobsTyped
    /\ Engaged
    /\ KeptOnce
    /\ FutureTells
    /\ AnswerTells
-----------------------------------------------------------------------------
(* What of the dispatcher's invariant matters here.                        *)
LEMMA DispatchFacts ==
    ASSUME Dispatching!Inv
    PROVE  /\ worker \in Calls \cup {NoCall}
           /\ worker # NoCall => worker \in begun
           /\ begun \subseteq Calls
           /\ \A c \in begun : /\ task[c] \notin {"none", "scheduled", "refused"}
                               /\ api[c] # "idle"
           /\ \A c \in Calls : /\ api[c] = "idle" => task[c] = "none"
                               /\ task[c] = "returned" => future[c].state = "result"
                               /\ task[c] = "failed" => future[c].state = "error"
                               /\ task[c] \in {"scheduled", "refused"}
                                     => future[c].state = "none"
           /\ api \in [Calls -> Dispatching!ApiStates]
           /\ task \in [Calls -> Dispatching!TaskStates]
           /\ future \in [Calls -> [state : Dispatching!FutureStates,
                                    of : Calls \cup {NoCall}]]
           /\ answer \in [Calls -> [code : Dispatching!Codes, of : Calls \cup {NoCall}]]
<1>1. Dispatching!TypeOK
  BY DEF Dispatching!Inv
<1>2. \A c \in begun : /\ c \in Calls
                       /\ task[c] \notin {"none", "scheduled", "refused"}
  <2> TAKE c \in begun
  <2>1. PICK i \in 1..Dispatching!Taken : arrivals[i] = c
    BY DEF Dispatching!Inv, Dispatching!BegunWereTaken
  <2>2. i \in 1..Len(arrivals)
    BY <1>1 DEF Dispatching!TypeOK, Dispatching!Taken
  <2>3. QED
    BY <1>1, <2>1, <2>2 DEF Dispatching!Inv, Dispatching!AcceptedHaveTask, Dispatching!TypeOK
<1>3. \A c \in Calls : Dispatching!Coherent(c)
  BY DEF Dispatching!Inv
<1>4. QED
  BY <1>1, <1>2, <1>3 DEF Dispatching!Inv, Dispatching!TypeOK, Dispatching!WorkerBegun,
     Dispatching!Coherent

(* The worker goes on to a job that nobody has begun and whose caller      *)
(* still waits.                                                            *)
LEMMA NextJob ==
    ASSUME Dispatching!Inv, Dispatcher!TakeNext
    PROVE  \/ worker' = NoCall /\ begun' = begun
           \/ /\ worker' \in Calls \ begun
              /\ begun' = begun \cup {worker'}
              /\ future[worker'].state = "pending"
<1>1. Dispatching!TakeNext /\ Dispatching!TypeOK
  BY DEF Dispatcher!TakeNext, Dispatching!TakeNext, Dispatcher!Live, Dispatching!Live,
         Dispatching!Inv
<1>2. CASE worker' = NoCall /\ begun' = begun
  BY <1>2
<1>3. CASE /\ worker' \in Dispatching!Live
           /\ begun' = begun \cup {worker'}
           /\ Len(queue') < Len(queue)
           /\ worker' = queue[Len(queue) - Len(queue')]
  <2>1. Len(queue) \in Nat /\ Len(queue') \in Nat
    BY <1>1, DispatchConstants, Dispatching!TakeNextEffect DEF Dispatching!TypeOK
  <2>2. Len(queue) - Len(queue') \in 1..Len(queue)
    BY <1>3, <2>1
  <2>3. worker' \in Dispatching!Queued
    BY <1>3, <2>2 DEF Dispatching!Queued
  <2>4. worker' \notin begun
    BY <2>3, DispatchConstants, Dispatching!QueuedNotBegun
  <2>5. QED
    BY <1>1, <1>3, <2>4 DEF Dispatching!Live, Dispatching!TypeOK
<1>4. QED
  BY <1>1, <1>2, <1>3, DispatchConstants, Dispatching!TakeNextEffect

(* How execute goes on after a request.                                    *)
Ends(v, n) ==
    /\ phase' = "idle"
    /\ status' = v
    /\ effects' = effects + n

LEMMA RequestOutcome ==
    ASSUME Inv, RequestEnds
    PROVE  /\ phase = "sent"
           /\ UNCHANGED <<method, policy, sends>>
           /\ \/ /\ phase' = "backoff" /\ policy = "SAFE" /\ status' = "none"
                 /\ effects' \in {effects, effects + 1}
              \/ Ends("SUCCESS", 1)
              \/ policy = "NEVER" /\ \E n \in {0, 1} : Ends("UNKNOWN", n)
              \/ Ends("FAILED", 0)
              \/ policy # "NEVER" /\ Ends("FAILED", 1)
<1>1. ASSUME NEW f \in Failures, TransportFails(f)
      PROVE  /\ phase = "sent"
             /\ UNCHANGED <<method, policy, sends>>
             /\ \/ /\ phase' = "backoff" /\ policy = "SAFE" /\ status' = "none"
                   /\ effects' \in {effects, effects + 1}
                \/ policy = "NEVER" /\ \E n \in {0, 1} : Ends("UNKNOWN", n)
                \/ Ends("FAILED", 0)
                \/ policy # "NEVER" /\ Ends("FAILED", 1)
  <2>1. phase = "sent" /\ UNCHANGED <<method, policy, sends>>
    BY <1>1 DEF TransportFails
  <2>2. PICK n \in EffectsOfFailure(f) : effects' = effects + n
    BY <1>1 DEF TransportFails
  <2>3. n \in {0, 1} /\ (n = 1 => OutcomeUncertain(f)) /\ effects \in Nat
    BY <2>2 DEF EffectsOfFailure, OutcomeUncertain, Inv, TypeOK
  <2>4. CASE MayRetry
    BY <1>1, <2>1, <2>2, <2>3, <2>4, SentFacts DEF TransportFails, MayRetry, Backoff
  <2>5. CASE ~MayRetry
    BY <1>1, <2>1, <2>2, <2>3, <2>5 DEF TransportFails, Finish, Ends
  <2>6. QED
    BY <2>1, <2>4, <2>5
<1>2. ASSUME NEW a \in Answers,
             Succeeds(a) \/ HitsOperationLimit(a) \/ IsRetried(a) \/ IsFinal(a)
      PROVE  /\ phase = "sent"
             /\ UNCHANGED <<method, policy, sends>>
             /\ \/ /\ phase' = "backoff" /\ policy = "SAFE" /\ status' = "none"
                   /\ effects' \in {effects, effects + 1}
                \/ Ends("SUCCESS", 1)
                \/ policy = "NEVER" /\ \E n \in {0, 1} : Ends("UNKNOWN", n)
                \/ Ends("FAILED", 0)
                \/ policy # "NEVER" /\ Ends("FAILED", 1)
  <2>1. Receive(a) /\ effects \in Nat
    BY <1>2 DEF Succeeds, HitsOperationLimit, IsRetried, IsFinal, Inv, TypeOK
  <2>2. /\ phase = "sent" /\ UNCHANGED <<method, policy, sends>>
        /\ effects' \in {effects, effects + 1}
        /\ IsSuccess(a) => effects' = effects + 1
        /\ ~IsSuccess(a) /\ (a.http # "5xx" \/ a.code \in LimitCodes)
             => effects' = effects
    BY <2>1, ReceiveFacts
  <2>3. CASE Succeeds(a)
    BY <2>1, <2>2, <2>3 DEF Succeeds, Finish, Ends
  <2>4. CASE HitsOperationLimit(a)
    BY <2>1, <2>2, <2>4 DEF HitsOperationLimit, Finish, Ends, IsSuccess, LimitCodes
  <2>5. CASE IsRetried(a)
    BY <2>2, <2>5, SentFacts DEF IsRetried, ShouldRetry, MayRetry, Backoff
  <2>6. CASE IsFinal(a) /\ IsUncertain(a)
    BY <2>1, <2>2, <2>6 DEF IsFinal, IsUncertain, Finish, Ends
  <2>7. CASE IsFinal(a) /\ ~IsUncertain(a)
    BY <2>1, <2>2, <2>7 DEF IsFinal, IsUncertain, Finish, Ends
  <2>8. QED
    BY <1>2, <2>3, <2>4, <2>5, <2>6, <2>7
<1>3. QED
  BY <1>1, <1>2 DEF RequestEnds
-----------------------------------------------------------------------------
LEMMA GatewayInvInit == GatewayInit => GatewayInv
<1> SUFFICES ASSUME GatewayInit PROVE GatewayInv
  OBVIOUS
<1>1. Inv
  BY InvInit DEF GatewayInit
<1>2. Dispatching!Inv
  BY SameDispatcher, DispatchConstants, Dispatching!InvInit DEF GatewayInit
<1>3. /\ worker = NoCall /\ phase = "idle"
      /\ future = [c \in Calls |-> [state |-> "none", of |-> NoCall]]
      /\ answer = [c \in Calls |-> [code |-> "none", of |-> NoCall]]
      /\ job \in Workloads
      /\ done = [c \in Calls |-> NotRun]
  BY DEF GatewayInit, Init, Dispatcher!Init, Dispatcher!Future, Dispatcher!Answer
<1>4. JobsTyped
  BY <1>3, GatewayAssumption DEF JobsTyped, Endings, NotRun, Verdicts
<1>5. Engaged /\ KeptOnce /\ FutureTells /\ AnswerTells
  BY <1>3 DEF Engaged, KeptOnce, FutureTells, AnswerTells, NotRun
<1>6. QED
  BY <1>1, <1>2, <1>4, <1>5 DEF GatewayInv

(* What execute has done when it suspends for the first time.              *)
LEMMA StartFacts ==
    ASSUME NEW m \in Methods, NEW p \in Policies, Start(m, p)
    PROVE  /\ phase' # "idle" /\ status' = "none" /\ effects' = 0
           /\ method' = m /\ policy' = p
BY DEF Start, WaitTurn, Wait, Send

LEMMA BeginFacts ==
    ASSUME JobsTyped, job' = job, worker' \in Calls \cup {NoCall}, NoCall \notin Calls,
           phase = "idle", BeginJob
    PROVE  /\ Next \/ UNCHANGED vars
           /\ worker' = NoCall => UNCHANGED vars
           /\ worker' # NoCall => phase' # "idle" /\ effects' = 0
           /\ Engaged'
<1>1. CASE worker' = NoCall
  <2>1. UNCHANGED vars
    BY <1>1 DEF BeginJob
  <2>2. phase' = "idle"
    BY <2>1 DEF vars, jobVars
  <2>3. QED
    BY <1>1, <2>1, <2>2 DEF Engaged
<1>2. CASE worker' # NoCall
  <2>1. job[worker'].method \in Methods /\ job[worker'].policy \in Policies
    BY <1>2 DEF JobsTyped, Jobs
  <2>2. Start(job[worker'].method, job[worker'].policy)
    BY <1>2 DEF BeginJob
  <2>3. Next
    BY <2>1, <2>2 DEF Next
  <2>4. QED
    BY <1>2, <2>1, <2>2, <2>3, StartFacts DEF Engaged
<1>3. QED
  BY <1>1, <1>2

(* What the Gateway's step does to the executor is a step of it, or        *)
(* nothing.                                                                *)
LEMMA StepsExecute ==
    ASSUME GatewayInv, GatewayNext \/ UNCHANGED gatewayVars
    PROVE  Next \/ UNCHANGED vars
<1>1. JobsTyped /\ Dispatching!Inv /\ worker \in Calls \cup {NoCall} /\ NoCall \notin Calls
  BY DispatchFacts, GatewayAssumption DEF GatewayInv
<1>2. CASE TakeJob
  <2>1. /\ worker = NoCall /\ Dispatcher!TakeNext /\ BeginJob /\ job' = job
    BY <1>2 DEF TakeJob, Dispatcher!WakeWorker
  <2>2. worker' \in Calls \cup {NoCall} /\ phase = "idle"
    BY <1>1, <2>1, NextJob DEF GatewayInv, Engaged
  <2>3. QED
    BY <1>1, <2>1, <2>2, BeginFacts
<1>3. CASE ReturnJob
  <2>1. /\ phase = "idle" /\ Dispatcher!TakeNext /\ BeginJob /\ job' = job
    BY <1>3 DEF ReturnJob, Returning, Dispatcher!FinishJob
  <2>2. worker' \in Calls \cup {NoCall}
    BY <1>1, <2>1, NextJob
  <2>3. QED
    BY <1>1, <2>1, <2>2, BeginFacts
<1>4. CASE \E c \in Calls : Handle(c)
  BY <1>4 DEF Handle
<1>5. CASE Execute \/ Elapse \/ Die \/ ShutDown
  BY <1>5 DEF Execute, Elapse, Die, ShutDown, CutShort, Next
<1>6. CASE UNCHANGED gatewayVars
  BY <1>6 DEF gatewayVars
<1>7. QED
  BY <1>2, <1>3, <1>4, <1>5, <1>6 DEF GatewayNext

LEMMA ComponentsKeep ==
    ASSUME GatewayInv, GatewayNext \/ UNCHANGED gatewayVars
    PROVE  Inv' /\ Dispatching!Inv'
<1>1. Inv'
  BY StepsExecute, InvNext DEF GatewayInv
<1>2. Dispatching!Next \/ UNCHANGED Dispatching!vars
  BY StepsDispatch, SameDispatcher
<1>3. QED
  BY <1>1, <1>2, DispatchConstants, Dispatching!InvNext DEF GatewayInv
-----------------------------------------------------------------------------
(* The Gateway's own part of the invariant.                                *)
OwnInv == JobsTyped /\ Engaged /\ KeptOnce /\ FutureTells /\ AnswerTells

LEMMA HandleKeeps ==
    ASSUME GatewayInv, NEW c \in Calls, Handle(c)
    PROVE  OwnInv'
<1> USE DEF GatewayInv
<1>1. /\ Dispatcher!CallStep(c)
      /\ UNCHANGED <<worker, mode, begun, finished>>
      /\ UNCHANGED <<phase, method, policy, sends, effects, status, job, done>>
  BY DEF Handle, vars, jobVars, historyVars, Dispatcher!CallStep, Dispatcher!Call,
     Dispatcher!SubmitAccepted, Dispatcher!SubmitRefused, Dispatcher!SubmitResumes,
     Dispatcher!Expire, Dispatcher!GiveUp, Dispatcher!Reply, Dispatcher!ReplyTimeout,
     Dispatcher!workVars
<1>2. JobsTyped' /\ Engaged' /\ KeptOnce'
  BY <1>1 DEF JobsTyped, Engaged, KeptOnce
<1>3. FutureTells'
  <2>1. \A d \in Calls : \/ future'[d].state = future[d].state
                         \/ future'[d].state \in {"pending", "cancelled"}
    BY <1>1, DispatchFacts DEF Dispatcher!CallStep, Dispatcher!Call,
     Dispatcher!SubmitAccepted, Dispatcher!SubmitRefused, Dispatcher!SubmitResumes,
     Dispatcher!Expire, Dispatcher!GiveUp, Dispatcher!Reply, Dispatcher!ReplyTimeout,
     Dispatcher!Future
  <2>2. QED
    BY <1>1, <2>1 DEF FutureTells
<1>4. AnswerTells'
  <2>1. CASE Dispatcher!Call(c) \/ Dispatcher!SubmitAccepted(c)
             \/ Dispatcher!SubmitRefused(c) \/ Dispatcher!SubmitResumes(c)
    <3>1. /\ answer' = answer
          /\ task[c] \notin {"returned", "failed", "refused"}
          /\ \A d \in Calls : d # c => task'[d] = task[d]
      BY <2>1, DispatchFacts DEF Dispatcher!Call, Dispatcher!SubmitAccepted,
         Dispatcher!SubmitRefused, Dispatcher!SubmitResumes
    <3>2. QED
      BY <3>1 DEF AnswerTells
  <2>2. CASE Dispatcher!Expire(c) \/ Dispatcher!GiveUp(c)
    <3>1. /\ answer' = answer
          /\ \A d \in Calls : task'[d] = task[d] \/ task[d] = "parked"
      BY <2>2, DispatchFacts DEF Dispatcher!Expire, Dispatcher!GiveUp
    <3>2. QED
      BY <3>1 DEF AnswerTells
  <2>3. CASE Dispatcher!Reply(c) \/ Dispatcher!ReplyTimeout(c)
    BY <2>3, DispatchFacts DEF Dispatcher!Reply, Dispatcher!ReplyTimeout, Dispatcher!Answer,
       AnswerTells
  <2>4. QED
    BY <1>1, <2>1, <2>2, <2>3 DEF Dispatcher!CallStep
<1>5. QED
  BY <1>2, <1>3, <1>4 DEF OwnInv

LEMMA TakeJobKeeps == ASSUME GatewayInv, TakeJob PROVE OwnInv'
<1> USE DEF GatewayInv
<1>1. /\ worker = NoCall /\ Dispatcher!TakeNext /\ BeginJob
      /\ UNCHANGED <<job, done, future, task, answer>>
  BY DEF TakeJob, Dispatcher!WakeWorker, Dispatcher!callVars
<1>2. \/ worker' = NoCall /\ begun' = begun
      \/ /\ worker' \in Calls \ begun
         /\ begun' = begun \cup {worker'}
         /\ future[worker'].state = "pending"
  BY <1>1, NextJob
<1>3. Engaged'
  BY <1>1, <1>2, BeginFacts, GatewayAssumption DEF Engaged
<1>4. JobsTyped' /\ AnswerTells'
  BY <1>1 DEF JobsTyped, AnswerTells
<1>5. KeptOnce' /\ FutureTells'
  BY <1>1, <1>2, GatewayAssumption DEF KeptOnce, FutureTells
<1>6. QED
  BY <1>3, <1>4, <1>5 DEF OwnInv

LEMMA ExecuteKeeps == ASSUME GatewayInv, Execute \/ Elapse PROVE OwnInv'
<1> USE DEF GatewayInv
<1>1. /\ UNCHANGED <<worker, begun, future, task, answer, job, done>>
  BY DEF Execute, Elapse, dispatchVars
<1>2. JobsTyped' /\ KeptOnce' /\ FutureTells' /\ AnswerTells'
  BY <1>1 DEF JobsTyped, KeptOnce, FutureTells, AnswerTells
<1>3. /\ method' = method /\ policy' = policy
      /\ phase = "idle" => phase' = "idle"
  <2>1. CASE Elapse
    BY <2>1 DEF Elapse, Tick
  <2>2. CASE Execute /\ RequestEnds
    BY <2>2, RequestOutcome
  <2>3. CASE Execute /\ ~RequestEnds
    BY <2>3 DEF Execute, CooldownOver, PacingOver, BackoffOver, Raise
  <2>4. QED
    BY <2>1, <2>2, <2>3
<1>4. Engaged'
  BY <1>1, <1>3 DEF Engaged
<1>5. QED
  BY <1>2, <1>4 DEF OwnInv

LEMMA ReturnJobKeeps == ASSUME GatewayInv, ReturnJob PROVE OwnInv'
<1> USE DEF GatewayInv
<1>1. /\ worker # NoCall /\ phase = "idle" /\ Dispatcher!TakeNext /\ BeginJob
      /\ CompleteJob
      /\ done' = [done EXCEPT ![worker] =
                    [sends |-> sends, effects |-> effects, verdict |-> Verdict]]
      /\ UNCHANGED <<job, task, answer>>
  BY DEF ReturnJob, Returning, Dispatcher!FinishJob
<1>2. \/ worker' = NoCall /\ begun' = begun
      \/ /\ worker' \in Calls \ begun
         /\ begun' = begun \cup {worker'}
         /\ future[worker'].state = "pending"
  BY <1>1, NextJob
<1>3. worker \in Calls /\ worker \in begun /\ worker' # worker /\ NoCall \notin Calls
  BY <1>1, <1>2, DispatchFacts, GatewayAssumption
<1>4. Engaged'
  BY <1>1, <1>2, BeginFacts, GatewayAssumption DEF Engaged
<1>5. /\ done' \in [Calls -> Endings]
      /\ done'[worker].verdict = Verdict /\ done'[worker].sends = sends
      /\ \A c \in Calls : c # worker => done'[c] = done[c]
  <2>1. sends \in Nat /\ effects \in Nat /\ Verdict \in Verdicts
    BY ExecutionAssumption DEF Inv, TypeOK, Statuses, Verdict, Verdicts
  <2>2. QED
    BY <1>1, <1>3, <2>1 DEF JobsTyped, Endings
<1>6. JobsTyped' /\ AnswerTells'
  BY <1>1, <1>5 DEF JobsTyped, AnswerTells
<1>7. KeptOnce'
  <2>1. job[worker].policy = "NEVER" => sends <= 1
    BY <1>1, NeverTwice DEF Engaged, NeverSentTwice
  <2>2. QED
    BY <1>1, <1>2, <1>3, <1>5, <2>1 DEF KeptOnce
<1>8. FutureTells'
  <2>1. /\ \A c \in Calls : c # worker => future'[c] = future[c]
        /\ future'[worker].state = future[worker].state
           \/ future'[worker].state = IF status = "none" THEN "error" ELSE "result"
    BY <1>1, <1>3, DispatchFacts DEF CompleteJob, Dispatcher!Complete, Dispatcher!Future
  <2>2. status \in {"none", "SUCCESS", "FAILED", "UNKNOWN"}
    BY DEF Inv, TypeOK, Statuses
  <2>3. future[worker].state \notin {"result", "error"}
    BY <1>3 DEF FutureTells
  <2>4. QED
    BY <1>2, <1>3, <1>5, <2>1, <2>2, <2>3 DEF FutureTells, Verdict
<1>9. QED
  BY <1>4, <1>6, <1>7, <1>8 DEF OwnInv

LEMMA CutShortKeeps == ASSUME GatewayInv, Die \/ ShutDown PROVE OwnInv'
<1> USE DEF GatewayInv
<1>1. /\ worker' = NoCall
      /\ UNCHANGED <<future, task, answer, begun, job>>
  BY DEF Die, ShutDown, Dispatcher!WorkerDies, Dispatcher!Stop, Dispatcher!callVars
<1>2. CASE worker # NoCall /\ CutShort
  <2>1. /\ phase' = "idle"
        /\ sends \in Nat /\ effects' \in Nat
    BY <1>2, ExecutionAssumption DEF CutShort, Raise, Inv, TypeOK
  <2>2. worker \in Calls /\ worker \in begun
    BY <1>2, DispatchFacts
  <2>3. /\ done' \in [Calls -> Endings]
        /\ done'[worker].sends = sends
        /\ \A c \in Calls : c # worker => done'[c] = done[c]
    BY <1>2, <2>1, <2>2 DEF CutShort, JobsTyped, Endings, Verdicts
  <2>4. job[worker].policy = "NEVER" => sends <= 1
    BY <1>2, NeverTwice DEF Engaged, NeverSentTwice
  <2>5. JobsTyped' /\ Engaged' /\ KeptOnce'
    BY <1>1, <2>1, <2>2, <2>3, <2>4 DEF JobsTyped, Engaged, KeptOnce
  <2>6. FutureTells' /\ AnswerTells'
    BY <1>1, <2>2, <2>3, GatewayAssumption DEF FutureTells, AnswerTells
  <2>7. QED
    BY <2>5, <2>6 DEF OwnInv
<1>3. CASE worker = NoCall /\ UNCHANGED <<vars, done>>
  BY <1>1, <1>3, GatewayAssumption
     DEF vars, jobVars, OwnInv, JobsTyped, Engaged, KeptOnce, FutureTells, AnswerTells
<1>4. QED
  BY <1>2, <1>3 DEF Die, ShutDown, Dispatcher!WorkerDies

LEMMA GatewayInvNext == GatewayInv /\ [GatewayNext]_gatewayVars => GatewayInv'
<1> SUFFICES ASSUME GatewayInv, [GatewayNext]_gatewayVars PROVE GatewayInv'
  OBVIOUS
<1>1. Inv' /\ Dispatching!Inv'
  BY ComponentsKeep
<1>2. OwnInv'
  <2>1. CASE GatewayNext
    BY <2>1, HandleKeeps, TakeJobKeeps, ExecuteKeeps, ReturnJobKeeps, CutShortKeeps
       DEF GatewayNext
  <2>2. CASE UNCHANGED gatewayVars
    BY <2>2 DEF gatewayVars, vars, jobVars, dispatchVars, GatewayInv, OwnInv,
       JobsTyped, Engaged, KeptOnce, FutureTells, AnswerTells
  <2>3. QED
    BY <2>1, <2>2
<1>3. QED
  BY <1>1, <1>2 DEF GatewayInv, OwnInv

(* What dispatcher and executor know of a job agrees, at every step of the *)
(* Gateway.                                                                *)
THEOREM GatewayInvariance == GatewaySpec => []GatewayInv
<1>1. QED
  BY GatewayInvInit, GatewayInvNext, PTL DEF GatewaySpec

(* The Gateway's worker is the executor's only user and keeps to its       *)
(* protocol: all that is proved of module Execution holds of the Gateway.  *)
THEOREM GatewayExecutes == GatewaySpec => Spec
<1>1. GatewayInit => Init
  BY DEF GatewayInit
<1>2. GatewayInv /\ [GatewayNext]_gatewayVars => [Next]_vars
  BY StepsExecute
<1>3. QED
  BY <1>1, <1>2, GatewayInvariance, PTL DEF GatewaySpec, Spec

(* SentOnce: a call that must not be repeated makes the Gateway send one   *)
(* request at most, and a call refused with 503 none, whatever becomes of  *)
(* its caller, of the worker and of the request.                           *)
THEOREM CallsSentOnce == GatewaySpec => []SentOnce
<1>1. ASSUME GatewayInv PROVE SentOnce
  <2> SUFFICES ASSUME NEW c \in Calls
               PROVE  /\ job[c].policy = "NEVER" => Sends(c) <= 1
                      /\ answer[c].code = "503" => Sends(c) = 0
    BY DEF SentOnce
  <2> USE <1>1 DEF GatewayInv
  <2>1. CASE c = worker
    <3>1. job[c].policy = "NEVER" => sends <= 1
      BY <2>1, NeverTwice, GatewayAssumption DEF Engaged, NeverSentTwice
    <3>2. answer[c].code # "503"
      BY <2>1, DispatchFacts, GatewayAssumption DEF AnswerTells
    <3>3. QED
      BY <2>1, <3>1, <3>2 DEF Sends
  <2>2. CASE c # worker
    <3>1. answer[c].code = "503" => c \notin begun
      BY DispatchFacts DEF AnswerTells
    <3>2. QED
      BY <2>2, <3>1 DEF KeptOnce, Sends, NotRun
  <2>3. QED
    BY <2>1, <2>2
<1>2. QED
  BY <1>1, GatewayInvariance, PTL
-----------------------------------------------------------------------------
(* A running job may act, as far as GatewayService is concerned.           *)
LEMMA RunningMayAct ==
    ASSUME GatewayInv, worker # NoCall, phase # "idle"
    PROVE  /\ worker \in Calls
           /\ Service!MayAct(worker)
           /\ Effects(worker) = effects /\ VerdictOf(worker) = "none"
<1> USE DEF GatewayInv
<1>1. worker \in Calls /\ worker \in begun /\ api[worker] # "idle"
  BY DispatchFacts
<1>2. VerdictOf(worker) = "none" /\ Effects(worker) = effects
  BY DEF VerdictOf, Effects
<1>3. answer[worker].code \in {"none", "504"}
  <2>1. answer[worker].code \in {"none", "200", "500", "503", "504"}
    BY <1>1, DispatchFacts DEF Dispatching!Codes
  <2>2. answer[worker].code \notin {"200", "500"}
    BY <1>1, DispatchFacts DEF AnswerTells, FutureTells
  <2>3. answer[worker].code # "503"
    BY <1>1, DispatchFacts DEF AnswerTells
  <2>4. QED
    BY <2>1, <2>2, <2>3
<1>4. QED
  BY <1>1, <1>2, <1>3 DEF Service!MayAct

(* A step that gives the running job this verdict, with n more effects.    *)
LEMMA ConcludeStep ==
    ASSUME GatewayInv, NEW c \in Calls, c = worker, phase # "idle",
           NEW v \in Service!Verdicts, NEW n \in {0, 1},
           VerdictOf(c)' = v, Effects(c)' = effects + n,
           \A d \in Calls : d # c => /\ VerdictOf(d)' = VerdictOf(d)
                                     /\ Effects(d)' = Effects(d),
           UNCHANGED <<job, api, answer>>,
           v = "SUCCESS" => n = 1,
           v = "FAILED" /\ job[c].policy = "NEVER" => n = 0,
           v = "UNKNOWN" => job[c].policy = "NEVER"
    PROVE  Service!Next
<1>1. /\ Service!MayAct(c)
      /\ Effects(c) = effects /\ VerdictOf(c) = "none" /\ effects \in Nat
  BY RunningMayAct, GatewayAssumption DEF GatewayInv, Inv, TypeOK
<1>2. [d \in Calls |-> VerdictOf(d)]' = [[d \in Calls |-> VerdictOf(d)] EXCEPT ![c] = v]
  BY <1>1
<1>3. n = 0 => [d \in Calls |-> Effects(d)]' = [d \in Calls |-> Effects(d)]
  BY <1>1
<1>4. n = 1 => [d \in Calls |-> Effects(d)]'
                 = [[d \in Calls |-> Effects(d)] EXCEPT ![c] = @ + 1]
  BY <1>1
<1>5. c \in {d \in Calls : job[d].policy = "NEVER"} <=> job[c].policy = "NEVER"
  OBVIOUS
<1>6. Service!Conclude(c, v)
  BY <1>1, <1>2, <1>3, <1>4, <1>5 DEF Service!Conclude
<1>7. QED
  BY <1>6 DEF Service!Next

LEMMA HandleServes ==
    ASSUME GatewayInv, NEW c \in Calls, Handle(c)
    PROVE  Service!Next \/ UNCHANGED Service!vars
<1> USE DEF GatewayInv
<1>1. /\ Dispatcher!CallStep(c)
      /\ UNCHANGED <<worker, begun, finished>>
      /\ UNCHANGED <<phase, effects, status, job, done>>
  BY DEF Handle, vars, jobVars, historyVars, Dispatcher!CallStep, Dispatcher!Call,
     Dispatcher!SubmitAccepted, Dispatcher!SubmitRefused, Dispatcher!SubmitResumes,
     Dispatcher!Expire, Dispatcher!GiveUp, Dispatcher!Reply, Dispatcher!ReplyTimeout,
     Dispatcher!workVars
<1>2. \A d \in Calls : Effects(d)' = Effects(d) /\ VerdictOf(d)' = VerdictOf(d)
  BY <1>1 DEF Effects, VerdictOf, Verdict
<1> DEFINE st == [d \in Calls |-> IF api[d] = "idle" THEN "idle"
                                  ELSE IF api[d] = "answered" THEN "closed" ELSE "open"]
           cd == [d \in Calls |-> answer[d].code]
<1>3. /\ api \in [Calls -> Dispatching!ApiStates]
      /\ answer \in [Calls -> [code : Dispatching!Codes, of : Calls \cup {NoCall}]]
  BY DispatchFacts
<1>4. CASE Dispatcher!Call(c)
  <2>1. st[c] = "idle" /\ st' = [st EXCEPT ![c] = "open"] /\ answer' = answer
    BY <1>3, <1>4 DEF Dispatcher!Call
  <2>2. Service!Open(c)
    BY <1>1, <1>2, <2>1 DEF Service!Open
  <2>3. QED
    BY <2>2 DEF Service!Next
<1>5. CASE Dispatcher!SubmitAccepted(c) \/ Dispatcher!SubmitRefused(c)
           \/ Dispatcher!SubmitResumes(c) \/ Dispatcher!Expire(c) \/ Dispatcher!GiveUp(c)
  <2>1. st' = st /\ answer' = answer
    BY <1>3, <1>5 DEF Dispatcher!SubmitAccepted, Dispatcher!SubmitRefused,
       Dispatcher!SubmitResumes, Dispatcher!Expire, Dispatcher!GiveUp
  <2>2. UNCHANGED Service!vars
    BY <1>1, <1>2, <2>1 DEF Service!vars
  <2>3. QED
    BY <2>2
<1>6. CASE Dispatcher!Reply(c) \/ Dispatcher!ReplyTimeout(c)
  <2>1. st[c] = "open" /\ st' = [st EXCEPT ![c] = "closed"]
    BY <1>3, <1>6 DEF Dispatcher!Reply, Dispatcher!ReplyTimeout
  <2>2. ASSUME NEW code, answer'[c].code = code,
               \A d \in Calls : d # c => answer'[d] = answer[d]
        PROVE  Service!Close(c, code)
    <3>1. cd' = [cd EXCEPT ![c] = code]
      BY <2>2
    <3>2. QED
      BY <1>1, <1>2, <2>1, <3>1 DEF Service!Close
  <2>3. CASE Dispatcher!Reply(c) /\ task[c] = "returned"
    <3>1. VerdictOf(c) \in {"SUCCESS", "FAILED", "UNKNOWN"}
      BY <2>3, DispatchFacts DEF FutureTells, VerdictOf
    <3>2. Service!Close(c, "200")
      BY <1>3, <2>2, <2>3 DEF Dispatcher!Reply, Dispatcher!Answer
    <3>3. Service!AnswerResult(c)
      BY <3>1, <3>2 DEF Service!AnswerResult
    <3>4. QED
      BY <3>3 DEF Service!Next
  <2>4. CASE Dispatcher!Reply(c) /\ task[c] = "failed"
    <3>1. VerdictOf(c) = "raised"
      BY <2>4, DispatchFacts DEF FutureTells, VerdictOf
    <3>2. Service!Close(c, "500")
      BY <1>3, <2>2, <2>4 DEF Dispatcher!Reply, Dispatcher!Answer
    <3>3. Service!AnswerError(c)
      BY <3>1, <3>2 DEF Service!AnswerError
    <3>4. QED
      BY <3>3 DEF Service!Next
  <2>5. CASE Dispatcher!Reply(c) /\ task[c] = "refused"
    <3>1. c \notin begun /\ c # worker
      BY <2>5, DispatchFacts, GatewayAssumption
    <3>2. VerdictOf(c) = "none" /\ Effects(c) = 0
      BY <3>1 DEF VerdictOf, Effects, KeptOnce, NotRun
    <3>3. Service!Close(c, "503")
      BY <1>3, <2>2, <2>5 DEF Dispatcher!Reply, Dispatcher!Answer
    <3>4. Service!AnswerBusy(c)
      BY <3>2, <3>3 DEF Service!AnswerBusy
    <3>5. QED
      BY <3>4 DEF Service!Next
  <2>6. CASE Dispatcher!ReplyTimeout(c)
    <3>1. Service!Close(c, "504")
      BY <1>3, <2>2, <2>6 DEF Dispatcher!ReplyTimeout, Dispatcher!Answer
    <3>2. QED
      BY <3>1 DEF Service!AnswerTimeout, Service!Next
  <2>7. QED
    BY <1>6, <2>3, <2>4, <2>5, <2>6 DEF Dispatcher!Reply
<1>7. QED
  BY <1>1, <1>4, <1>5, <1>6 DEF Dispatcher!CallStep

(* Taking a job from the queue, and handing back a finished one, shows     *)
(* nothing to a client.                                                    *)
LEMMA SwitchServes ==
    ASSUME GatewayInv, TakeJob \/ ReturnJob
    PROVE  UNCHANGED Service!vars
<1> USE DEF GatewayInv
<1>1. /\ Dispatcher!TakeNext /\ BeginJob /\ phase = "idle"
      /\ UNCHANGED <<api, answer, job>>
  BY DEF TakeJob, ReturnJob, Returning, Engaged, Dispatcher!WakeWorker,
     Dispatcher!FinishJob, Dispatcher!callVars
<1>2. /\ worker' \in Calls \cup {NoCall} /\ NoCall \notin Calls
      /\ worker # NoCall => worker \in begun
      /\ worker' # NoCall => worker' \notin begun
  BY <1>1, NextJob, DispatchFacts, GatewayAssumption
<1>3. /\ worker # NoCall =>
           done' = [done EXCEPT ![worker] =
                      [sends |-> sends, effects |-> effects, verdict |-> Verdict]]
      /\ worker = NoCall => done' = done
  BY DEF TakeJob, ReturnJob, Returning, Dispatcher!WakeWorker
<1>4. worker' # NoCall => phase' # "idle" /\ effects' = 0
  BY <1>1, <1>2, BeginFacts
<1>5. ASSUME NEW c \in Calls
      PROVE  Effects(c)' = Effects(c) /\ VerdictOf(c)' = VerdictOf(c)
  <2>1. CASE c = worker
    <3>1. /\ c # worker'
          /\ done'[c].effects = effects /\ done'[c].verdict = Verdict
      BY <1>2, <1>3, <2>1 DEF JobsTyped
    <3>2. QED
      BY <1>1, <2>1, <3>1 DEF Effects, VerdictOf
  <2>2. CASE c # worker /\ c = worker'
    <3>1. done[c].effects = 0 /\ done[c].verdict = "none"
      BY <1>2, <2>2 DEF KeptOnce, NotRun
    <3>2. QED
      BY <1>2, <1>4, <2>2, <3>1 DEF Effects, VerdictOf
  <2>3. CASE c # worker /\ c # worker'
    <3>1. done'[c] = done[c]
      BY <1>3, <2>3 DEF JobsTyped
    <3>2. QED
      BY <2>3, <3>1 DEF Effects, VerdictOf
  <2>4. QED
    BY <2>1, <2>2, <2>3
<1>6. QED
  BY <1>1, <1>5 DEF Service!vars

LEMMA ExecuteServes ==
    ASSUME GatewayInv, Execute \/ Elapse
    PROVE  Service!Next \/ UNCHANGED Service!vars
<1> USE DEF GatewayInv
<1>1. UNCHANGED <<api, answer, worker, job, done>>
  BY DEF Execute, Elapse, dispatchVars
<1>2. \A c \in Calls : c # worker => Effects(c)' = Effects(c) /\ VerdictOf(c)' = VerdictOf(c)
  BY <1>1 DEF Effects, VerdictOf
<1>3. CASE effects' = effects /\ status' = status /\ (phase' = "idle" <=> phase = "idle")
  <2>1. \A c \in Calls : Effects(c)' = Effects(c) /\ VerdictOf(c)' = VerdictOf(c)
    BY <1>1, <1>3 DEF Effects, VerdictOf, Verdict
  <2>2. UNCHANGED Service!vars
    BY <1>1, <2>1 DEF Service!vars
  <2>3. QED
    BY <2>2
<1>4. CASE Elapse
  BY <1>3, <1>4 DEF Elapse, Tick
<1>5. CASE Execute /\ (CooldownOver \/ PacingOver \/ BackoffOver)
  BY <1>3, <1>5 DEF CooldownOver, PacingOver, BackoffOver, WaitTurn, Wait, Send
<1>6. CASE Execute /\ phase = "sent" /\ (RequestEnds \/ Raise)
  <2>0. PICK c \in Calls : c = worker
    BY <1>6, DispatchFacts DEF Engaged
  <2>1. /\ c # NoCall /\ c = worker' /\ job[c].policy = policy
        /\ Effects(c) = effects /\ VerdictOf(c) = "none" /\ status = "none"
    BY <1>1, <1>6, <2>0, GatewayAssumption, SentFacts DEF Engaged, Effects, VerdictOf
  <2>2. Effects(c)' = effects'
    BY <2>1 DEF Effects
  <2>3. phase' = "idle" => VerdictOf(c)' = IF status' = "none" THEN "raised" ELSE status'
    BY <2>1 DEF VerdictOf, Verdict
  <2>4. ASSUME phase' = "backoff", policy = "SAFE", effects' \in {effects, effects + 1}
        PROVE  Service!Next \/ UNCHANGED Service!vars
    <3>1. VerdictOf(c)' = "none"
      BY <2>1, <2>4 DEF VerdictOf
    <3>2. [d \in Calls |-> VerdictOf(d)]' = [d \in Calls |-> VerdictOf(d)]
      BY <1>2, <2>0, <2>1, <3>1
    <3>3. CASE effects' = effects
      <4>1. [d \in Calls |-> Effects(d)]' = [d \in Calls |-> Effects(d)]
        BY <1>2, <2>0, <2>1, <2>2, <3>3
      <4>2. UNCHANGED Service!vars
        BY <1>1, <3>2, <4>1 DEF Service!vars
      <4>3. QED
        BY <4>2
    <3>4. CASE effects' = effects + 1
      <4>1. [d \in Calls |-> Effects(d)]' = [[d \in Calls |-> Effects(d)] EXCEPT ![c] = @ + 1]
        BY <1>2, <2>0, <2>1, <2>2, <3>4
      <4>2. Service!MayAct(c)
        BY <1>6, <2>0, <2>1, RunningMayAct
      <4>3. c \notin {d \in Calls : job[d].policy = "NEVER"}
        BY <2>1, <2>4
      <4>4. Service!Try(c)
        BY <1>1, <3>2, <4>1, <4>2, <4>3 DEF Service!Try
      <4>5. QED
        BY <4>4 DEF Service!Next
    <3>5. QED
      BY <2>4, <3>3, <3>4
  <2>5. ASSUME NEW v \in Service!Verdicts, NEW n \in {0, 1}, phase' = "idle",
               v = IF status' = "none" THEN "raised" ELSE status',
               effects' = effects + n,
               v = "SUCCESS" => n = 1,
               v = "FAILED" /\ policy = "NEVER" => n = 0,
               v = "UNKNOWN" => policy = "NEVER"
        PROVE  Service!Next
    BY <1>1, <1>2, <1>6, <2>0, <2>1, <2>2, <2>3, <2>5, ConcludeStep
  <2>6. CASE RequestEnds
    BY <2>4, <2>5, <2>6, RequestOutcome DEF Ends, Service!Verdicts
  <2>7. CASE Raise
    <3>1. PICK n \in {0, 1} : effects' = effects + n
      BY <1>6, <2>7 DEF Raise
    <3>2. phase' = "idle" /\ status' = "none"
      BY <2>1, <2>7 DEF Raise
    <3>3. QED
      BY <2>5, <3>1, <3>2 DEF Service!Verdicts
  <2>8. QED
    BY <1>6, <2>6, <2>7
<1>7. QED
  BY <1>4, <1>5, <1>6, RequestOutcome DEF Execute

LEMMA CutShortServes ==
    ASSUME GatewayInv, Die \/ ShutDown
    PROVE  Service!Next \/ UNCHANGED Service!vars
<1> USE DEF GatewayInv
<1>1. worker' = NoCall /\ UNCHANGED <<api, answer, job>>
  BY DEF Die, ShutDown, Dispatcher!WorkerDies, Dispatcher!Stop, Dispatcher!callVars
<1>2. CASE worker = NoCall /\ UNCHANGED <<vars, done>>
  <2>1. \A c \in Calls : Effects(c)' = Effects(c) /\ VerdictOf(c)' = VerdictOf(c)
    BY <1>1, <1>2, GatewayAssumption DEF Effects, VerdictOf
  <2>2. UNCHANGED Service!vars
    BY <1>1, <2>1 DEF Service!vars
  <2>3. QED
    BY <2>2
<1>3. CASE worker # NoCall /\ CutShort
  <2>1. PICK c \in Calls : c = worker
    BY <1>3, DispatchFacts
  <2>2. PICK n \in {0, 1} : effects' = effects + n
    BY <1>3 DEF CutShort, Raise
  <2>3. phase # "idle"
    BY <1>3 DEF CutShort, Raise
  <2>4. /\ done'[c].effects = effects' /\ done'[c].verdict = "raised"
        /\ \A d \in Calls : d # c => done'[d] = done[d]
    BY <1>3, <2>1 DEF CutShort, JobsTyped
  <2>5. VerdictOf(c)' = "raised" /\ Effects(c)' = effects + n
    BY <1>1, <2>2, <2>4, GatewayAssumption DEF VerdictOf, Effects
  <2>6. \A d \in Calls : d # c => Effects(d)' = Effects(d) /\ VerdictOf(d)' = VerdictOf(d)
    BY <1>1, <2>1, <2>4, GatewayAssumption DEF VerdictOf, Effects
  <2>7. "raised" \in Service!Verdicts
    BY DEF Service!Verdicts
  <2>8. QED
    BY <1>1, <2>1, <2>3, <2>5, <2>6, <2>7, ConcludeStep
<1>4. QED
  BY <1>2, <1>3 DEF Die, ShutDown, Dispatcher!WorkerDies

(* ImplementsGatewayService: what the Gateway answers is true of what      *)
(* Bitrix24 was made to do.  Neither part shows it alone: the executor     *)
(* knows the verdict, the dispatcher who gets it and when.                 *)
THEOREM GatewayServes == GatewaySpec => ImplementsGatewayService
<1>1. ASSUME GatewayInit PROVE Service!Init
  BY <1>1, GatewayAssumption DEF GatewayInit, Dispatcher!Init, Dispatcher!Answer, NotRun,
     Service!Init, Effects, VerdictOf
<1>2. GatewayInv /\ [GatewayNext]_gatewayVars => [Service!Next]_(Service!vars)
  <2> SUFFICES ASSUME GatewayInv, [GatewayNext]_gatewayVars
               PROVE  Service!Next \/ UNCHANGED Service!vars
    OBVIOUS
  <2>1. CASE GatewayNext
    BY <2>1, HandleServes, SwitchServes, ExecuteServes, CutShortServes DEF GatewayNext
  <2>2. CASE UNCHANGED gatewayVars
    BY <2>2 DEF gatewayVars, vars, jobVars, historyVars, dispatchVars, Service!vars,
       Effects, VerdictOf, Verdict
  <2>3. QED
    BY <2>1, <2>2
<1>3. QED
  BY <1>1, <1>2, GatewayInvariance, PTL
     DEF GatewaySpec, ImplementsGatewayService, Service!Spec
=============================================================================
