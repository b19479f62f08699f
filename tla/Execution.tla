----------------------------- MODULE Execution -----------------------------
(***************************************************************************)
(* One job in the Gateway's executor: RequestExecutor.execute with the     *)
(* BitrixApiLimitController it waits for (MethodCooldownRegistry, then     *)
(* RateLimiter) and the HttpBitrixTransport it calls.  The dispatcher's    *)
(* worker runs one job after another, so the limits have one user.         *)
(*                                                                         *)
(* Time is discrete and relative: a deadline is kept as the time left      *)
(* until it (0 once it has passed), the rate limiter's last start as the   *)
(* time since it, up to MinInterval.  The code compares its clocks only in *)
(* these ways, and an absent dictionary entry acts as a passed deadline.   *)
(* A sleep may take longer than asked for, never less.                     *)
(***************************************************************************)
EXTENDS Naturals

CONSTANTS
    Methods,      \* Bitrix24 methods
    MaxAttempts,  \* executor.max_attempts
    MinInterval,  \* RateLimiter.min_interval
    RetryDelay,   \* executor.retry_delay
    MaxReset      \* the farthest operating_reset_at Bitrix24 announces

ASSUME ExecutionAssumption ==
    /\ MaxAttempts \in Nat \ {0}
    /\ MinInterval \in Nat \ {0}
    /\ RetryDelay \in Nat
    /\ MaxReset \in Nat

VARIABLES
    phase,      \* where execute is suspended
    method,     \* the job's method
    policy,     \* the job's retry policy
    attempt,    \* loop variable of execute
    sleep,      \* time left of the current asyncio.sleep
    status,     \* status of the last GatewayResult
    sinceStart, \* RateLimiter: time since _last_start_ts
    blocked,    \* MethodCooldownRegistry._blocked_until, as time left
    resetIn,    \* RequestExecutor._operating_reset_at, as time left
    (* history *)
    sends,      \* HTTP requests sent for the job
    effects,    \* how often Bitrix24 has carried the job's request out
    gap,        \* time since the last HTTP request, up to MinInterval
    announced,  \* per method: time left to the reset Bitrix24 announced last
    owed        \* per method: how long it must not be sent

jobVars == <<phase, method, policy, attempt, sleep, status>>
limitVars == <<sinceStart, blocked, resetIn>>
historyVars == <<sends, effects, gap, announced, owed>>
vars == <<jobVars, limitVars, historyVars>>

Phases == {"idle", "cooldown", "pacing", "sent", "backoff"}
Policies == {"SAFE", "NEVER"}
Statuses == {"none", "SUCCESS", "FAILED", "UNKNOWN"}
Times == 0..MaxReset

Longest == IF RetryDelay > MinInterval THEN RetryDelay ELSE MinInterval
Sleeps == 0..(IF MaxReset > Longest THEN MaxReset ELSE Longest)

Init ==
    /\ phase = "idle"
    /\ method \in Methods
    /\ policy \in Policies
    /\ attempt = 0
    /\ sleep = 0
    /\ status = "none"
    /\ sinceStart = MinInterval
    /\ blocked = [m \in Methods |-> 0]
    /\ resetIn = [m \in Methods |-> 0]
    /\ sends = 0
    /\ effects = 0
    /\ gap = MinInterval
    /\ announced = [m \in Methods |-> 0]
    /\ owed = [m \in Methods |-> 0]
-----------------------------------------------------------------------------
(***************************************************************************)
(* Bitrix24 and the network (external), and what the transport makes of    *)
(* them.                                                                   *)
(***************************************************************************)

HttpClasses == {"2xx", "3xx4xx", "5xx"}
ErrorCodes == {"none", "QUERY_LIMIT_EXCEEDED", "OPERATION_TIME_LIMIT", "other"}

(* No usable answer: the connection was not made (ConnectError,            *)
(* ConnectTimeout, PoolTimeout), it broke later, or the body is no JSON    *)
(* object.                                                                 *)
Failures == {"unconnected", "broken", "garbled"}

(* An answer: HTTP status, Bitrix error code, and the time left to         *)
(* time.operating_reset_at in a set that is empty when it is absent.       *)
Answers == [http : HttpClasses, code : ErrorCodes,
            reset : {{}} \cup {{t} : t \in Times}]

LimitCodes == {"QUERY_LIMIT_EXCEEDED", "OPERATION_TIME_LIMIT"}

(* How often Bitrix24 may have carried the request out: it does what it    *)
(* reports as done, does nothing it reports as refused, and may or may not *)
(* have acted when it fails or stays silent.                               *)
EffectsOfFailure(f) == IF f = "unconnected" THEN {0} ELSE {0, 1}

EffectsOfAnswer(a) ==
    IF a.http = "2xx" /\ a.code = "none" THEN {1}
    ELSE IF a.http = "5xx" /\ a.code \notin LimitCodes THEN {0, 1}
    ELSE {0}

(* TransportError.outcome_uncertain                                        *)
OutcomeUncertain(f) == f # "unconnected"
-----------------------------------------------------------------------------
(***************************************************************************)
(* Waiting for the limits and sending.                                     *)
(***************************************************************************)

SendUnrecorded(n) ==
    /\ phase' = "sent"
    /\ sleep' = 0
    /\ sinceStart' = sinceStart
    /\ sends' = n + 1
    /\ gap' = 0

(* The rate limiter lets the request through; n were sent before it.       *)
Send(n) ==
    /\ phase' = "sent"
    /\ sleep' = 0
    /\ sinceStart' = 0
    /\ sends' = n + 1
    /\ gap' = 0

Wait(where, time, n) ==
    /\ phase' = where
    /\ sleep' = time
    /\ sends' = n
    /\ UNCHANGED <<sinceStart, gap>>

(* limits.wait_turn up to its first suspension, or up to the send: the     *)
(* method's cooldown first, the common rate limit second.                  *)
WaitTurn(m, n) ==
    \/ /\ blocked[m] > 0
       /\ Wait("cooldown", blocked[m], n)
    \/ /\ blocked[m] = 0
       /\ sinceStart < MinInterval
       /\ Wait("pacing", MinInterval - sinceStart, n)
    \/ /\ blocked[m] = 0
       /\ sinceStart >= MinInterval
       /\ Send(n)

Start(m, p) ==
    /\ phase = "idle"
    /\ method' = m
    /\ policy' = p
    /\ attempt' = 1
    /\ status' = "none"
    /\ effects' = 0
    /\ WaitTurn(m, 0)
    /\ UNCHANGED <<blocked, resetIn, announced, owed>>

CooldownNeverCleared ==
    /\ phase = "cooldown"
    /\ sleep = 0
    /\ Wait("cooldown", blocked[method], sends)
    /\ UNCHANGED <<method, policy, attempt, status, blocked, resetIn,
                   effects, announced, owed>>

(* The registry looks again after its sleep.                               *)
CooldownOver ==
    /\ phase = "cooldown"
    /\ sleep = 0
    /\ WaitTurn(method, sends)
    /\ UNCHANGED <<method, policy, attempt, status, blocked, resetIn,
                   effects, announced, owed>>

(* The rate limiter does not look again after its sleep.                   *)
PacingOver ==
    /\ phase = "pacing"
    /\ sleep = 0
    /\ Send(sends)
    /\ UNCHANGED <<method, policy, attempt, status, blocked, resetIn,
                   effects, announced, owed>>

BackoffOver ==
    /\ phase = "backoff"
    /\ sleep = 0
    /\ attempt' = attempt + 1
    /\ WaitTurn(method, sends)
    /\ UNCHANGED <<method, policy, status, blocked, resetIn,
                   effects, announced, owed>>
-----------------------------------------------------------------------------
(***************************************************************************)
(* The outcome of a request.                                               *)
(***************************************************************************)

RetryAnyPolicy == attempt < MaxAttempts

(* A retry needs the SAFE policy and an attempt left.                      *)
MayRetry == policy = "SAFE" /\ attempt < MaxAttempts

Backoff ==
    /\ phase' = "backoff"
    /\ sleep' = RetryDelay
    /\ status' = status

(* execute returns a result with this status and attempt_count = attempt.  *)
Finish(s) ==
    /\ phase' = "idle"
    /\ sleep' = 0
    /\ status' = s
    /\ attempt' = attempt

(* _handle_transport_error                                                 *)
TransportFails(f) ==
    /\ phase = "sent"
    /\ \E e \in EffectsOfFailure(f) : effects' = effects + e
    /\ IF MayRetry
       THEN Backoff /\ attempt' = attempt
       ELSE Finish(IF policy = "NEVER" /\ OutcomeUncertain(f)
                   THEN "UNKNOWN" ELSE "FAILED")
    /\ UNCHANGED <<method, policy, limitVars, sends, gap, announced, owed>>

RememberResetOnce(a) ==
    resetIn' = IF a.reset = {} \/ resetIn[method] > 0 THEN resetIn
               ELSE [resetIn EXCEPT ![method] = CHOOSE t \in a.reset : TRUE]

(* _remember_operating_reset                                               *)
RememberReset(a) ==
    resetIn' = IF a.reset = {} THEN resetIn
               ELSE [resetIn EXCEPT ![method] = CHOOSE t \in a.reset : TRUE]

(* An answer arrives; Bitrix24 has acted on the request or not.            *)
Receive(a) ==
    /\ phase = "sent"
    /\ \E e \in EffectsOfAnswer(a) : effects' = effects + e
    /\ RememberReset(a)
    /\ announced' = IF a.reset = {} THEN announced
                    ELSE [announced EXCEPT ![method] = CHOOSE t \in a.reset : TRUE]
    /\ UNCHANGED <<method, policy, sinceStart, sends, gap>>

IsSuccess(a) == a.http = "2xx" /\ a.code = "none"

Succeeds(a) ==
    /\ IsSuccess(a)
    /\ Receive(a)
    /\ Finish("SUCCESS")
    /\ UNCHANGED <<blocked, owed>>

(* OPERATION_TIME_LIMIT: _apply_method_cooldown by the reset remembered    *)
(* last, which set_cooldown takes unless a longer one is in force; the     *)
(* call fails whatever its policy.                                         *)
HitsOperationLimit(a) ==
    /\ a.code = "OPERATION_TIME_LIMIT"
    /\ Receive(a)
    /\ blocked' = IF resetIn'[method] > blocked[method]
                  THEN [blocked EXCEPT ![method] = resetIn'[method]]
                  ELSE blocked
    /\ owed' = IF announced'[method] > owed[method]
               THEN [owed EXCEPT ![method] = announced'[method]]
               ELSE owed
    /\ Finish("FAILED")

(* _should_retry_response                                                  *)
ShouldRetry(a) == MayRetry /\ (a.code = "QUERY_LIMIT_EXCEEDED" \/ a.http = "5xx")

IsRetried(a) ==
    /\ ~IsSuccess(a)
    /\ a.code # "OPERATION_TIME_LIMIT"
    /\ ShouldRetry(a)
    /\ Receive(a)
    /\ Backoff
    /\ UNCHANGED <<attempt, blocked, owed>>

UncertainOnlyWithoutCode(a) ==
    policy = "NEVER" /\ a.http = "5xx" /\ a.code = "none"

(* _is_uncertain_response                                                  *)
IsUncertain(a) == policy = "NEVER" /\ a.http = "5xx" /\ a.code \notin LimitCodes

IsFinal(a) ==
    /\ ~IsSuccess(a)
    /\ a.code # "OPERATION_TIME_LIMIT"
    /\ ~ShouldRetry(a)
    /\ Receive(a)
    /\ Finish(IF IsUncertain(a) THEN "UNKNOWN" ELSE "FAILED")
    /\ UNCHANGED <<blocked, owed>>
(* An exception that is no TransportError leaves execute without a result: *)
(* a cancellation or another BaseException wherever it is suspended, an    *)
(* Exception of the HTTP client or over a malformed answer after sending.  *)
Raise ==
    /\ phase # "idle"
    /\ phase' = "idle"
    /\ sleep' = 0
    /\ \E e \in IF phase = "sent" THEN {0, 1} ELSE {0} : effects' = effects + e
    /\ UNCHANGED <<method, policy, attempt, status, limitVars, sends, gap,
                   announced, owed>>
-----------------------------------------------------------------------------
Less(n) == IF n > 0 THEN n - 1 ELSE 0
More(n) == IF n < MinInterval THEN n + 1 ELSE n

(* One unit of time passes.                                                *)
Tick ==
    /\ sleep' = Less(sleep)
    /\ sinceStart' = More(sinceStart)
    /\ gap' = More(gap)
    /\ blocked' = [m \in Methods |-> Less(blocked[m])]
    /\ resetIn' = [m \in Methods |-> Less(resetIn[m])]
    /\ announced' = [m \in Methods |-> Less(announced[m])]
    /\ owed' = [m \in Methods |-> Less(owed[m])]
    /\ UNCHANGED <<phase, method, policy, attempt, status, sends, effects>>

RequestEnds ==
    \/ \E f \in Failures : TransportFails(f)
    \/ \E a \in Answers : \/ Succeeds(a)
                          \/ HitsOperationLimit(a)
                          \/ IsRetried(a)
                          \/ IsFinal(a)

Next ==
    \/ \E m \in Methods, p \in Policies : Start(m, p)
    \/ CooldownOver
    \/ PacingOver
    \/ BackoffOver
    \/ RequestEnds
    \/ Raise
    \/ Tick

Spec == Init /\ [][Next]_vars

(* Time passes, the event loop resumes a sleeper, and a request ends: the  *)
(* HTTP client has a timeout for each of its operations.                   *)
FairSpec ==
    /\ Spec
    /\ WF_vars(Tick)
    /\ WF_vars(CooldownOver)
    /\ WF_vars(PacingOver)
    /\ WF_vars(BackoffOver)
    /\ WF_vars(RequestEnds)
-----------------------------------------------------------------------------
TypeOK ==
    /\ phase \in Phases
    /\ method \in Methods
    /\ policy \in Policies
    /\ attempt \in 0..MaxAttempts
    /\ sleep \in Sleeps
    /\ status \in Statuses
    /\ sinceStart \in 0..MinInterval
    /\ blocked \in [Methods -> Times]
    /\ resetIn \in [Methods -> Times]
    /\ sends \in 0..MaxAttempts
    /\ effects \in 0..MaxAttempts
    /\ gap \in 0..MinInterval
    /\ announced \in [Methods -> Times]
    /\ owed \in [Methods -> Times]

(* RetryPolicy.NEVER means what its callers rely on: along no path through *)
(* limits, errors and answers is such a request sent a second time.        *)
NeverSentTwice == policy = "NEVER" => sends <= 1

(* attempt_count of a result is the number of requests Bitrix24 was sent,  *)
(* over every mixture of retried errors, limits and waits.                 *)
AttemptsAreSends == phase = "idle" /\ status # "none" => attempt = sends

(* What the statuses promise a caller that must not repeat its call:       *)
(* FAILED means Bitrix24 did nothing, SUCCESS that it acted exactly once,  *)
(* and only NEVER calls end as UNKNOWN.                                    *)
VerdictIsHonest ==
    /\ policy = "NEVER" /\ status = "FAILED" => effects = 0
    /\ policy = "NEVER" /\ status = "SUCCESS" => effects = 1
    /\ status = "SUCCESS" => effects >= 1
    /\ status = "UNKNOWN" => policy = "NEVER"

(* A result is to be believed, the status and the count of attempts.       *)
ResultIsHonest == AttemptsAreSends /\ VerdictIsHonest

(* A method that ran into its operation limit is not sent again before the *)
(* reset Bitrix24 announced last for it, although the announcement may     *)
(* have come with an earlier answer than the refusal.                      *)
CooldownRespected == phase = "sent" => owed[method] = 0

(* RateLimiter: starts of requests are MinInterval apart, across retries,  *)
(* cooldowns and jobs.                                                     *)
StartsSpaced == [][phase' = "sent" /\ phase # "sent" => gap >= MinInterval]_vars

(* Every job ends, so the dispatcher's worker gets to the next one.        *)
JobEnds == (phase # "idle") ~> (phase = "idle")
=============================================================================
