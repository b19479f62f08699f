------------------------------ MODULE Gateway ------------------------------
(***************************************************************************)
(* The Gateway as a whole: the dispatcher of module Dispatch whose worker  *)
(* runs the executor of module Execution.  The two share the event loop,   *)
(* the worker's current job and the way it ends, nothing else.             *)
(***************************************************************************)
EXTENDS Execution, Sequences

CONSTANTS
    Calls, QueueMax, NoCall,  \* of Dispatch
    Workloads                 \* what the calls may ask for, one job each

Jobs == [method : Methods, policy : Policies]

ASSUME GatewayAssumption ==
    /\ QueueMax \in Nat \ {0}
    /\ NoCall \notin Calls
    /\ Workloads \subseteq [Calls -> Jobs]

VARIABLES
    api, task, future, pending, queue, worker, mode, answer,  \* of Dispatch
    arrivals, begun, finished,                                \* of Dispatch
    job,   \* per call: the job it asks for
    done   \* history, per call: how the execution of its job ended

Dispatcher == INSTANCE Dispatch

dispatchVars == <<api, task, future, pending, queue, worker, mode, answer,
                  arrivals, begun, finished>>
gatewayVars == <<vars, dispatchVars, job, done>>

NotRun == [sends |-> 0, effects |-> 0, verdict |-> "none"]

GatewayInit ==
    /\ Init
    /\ Dispatcher!Init
    /\ job \in Workloads
    /\ done = [c \in Calls |-> NotRun]
-----------------------------------------------------------------------------
(* execute has ended and RequestDispatcher.run goes on at once: what       *)
(* follows is the rest of one step of the event loop.                      *)
Returning == worker # NoCall /\ phase = "idle"

Verdict == IF status = "none" THEN "raised" ELSE status

Handle(c) ==
    /\ ~Returning
    /\ Dispatcher!CallStep(c)
    /\ UNCHANGED <<vars, job, done>>

(* The worker calls execute for the job it has taken, if there is one.     *)
BeginJob ==
    IF worker' = NoCall THEN UNCHANGED vars
    ELSE Start(job[worker'].method, job[worker'].policy)

TakeJob ==
    /\ Dispatcher!WakeWorker
    /\ BeginJob
    /\ UNCHANGED <<job, done>>

(* execute goes on after a sleep or a request.                             *)
Execute ==
    /\ \/ CooldownOver
       \/ PacingOver
       \/ BackoffOver
       \/ RequestEnds
       \/ phase = "sent" /\ Raise
    /\ UNCHANGED <<dispatchVars, job, done>>

Elapse ==
    /\ ~Returning
    /\ Tick
    /\ UNCHANGED <<dispatchVars, job, done>>

CompleteAlways ==
    Dispatcher!Complete("result")

(* A result goes to the job's future, or the exception execute raised.     *)
CompleteJob ==
    Dispatcher!Complete(IF status = "none" THEN "error" ELSE "result")

ReturnJob ==
    /\ Returning
    /\ Dispatcher!FinishJob
    /\ CompleteJob
    /\ done' = [done EXCEPT ![worker] =
                   [sends |-> sends, effects |-> effects, verdict |-> Verdict]]
    /\ BeginJob
    /\ job' = job

(* The execution is cut short where it is suspended: by a BaseException,   *)
(* or as the lifespan's exit cancels the worker.                           *)
CutShort ==
    /\ Raise
    /\ done' = [done EXCEPT ![worker] =
                   [sends |-> sends, effects |-> effects', verdict |-> "raised"]]

Die ==
    /\ Dispatcher!WorkerDies
    /\ CutShort
    /\ job' = job

ShutDown ==
    /\ Dispatcher!Stop
    /\ \/ worker # NoCall /\ CutShort
       \/ worker = NoCall /\ UNCHANGED <<vars, done>>
    /\ job' = job

GatewayNext ==
    \/ \E c \in Calls : Handle(c)
    \/ TakeJob
    \/ Execute
    \/ Elapse
    \/ ReturnJob
    \/ Die
    \/ ShutDown

GatewaySpec == GatewayInit /\ [][GatewayNext]_gatewayVars

(* As in Execution: time passes, sleepers are resumed, and a request ends. *)
GatewayFairSpec ==
    /\ GatewaySpec
    /\ WF_gatewayVars(Elapse)
    /\ WF_gatewayVars(Execute)
    /\ WF_gatewayVars(ReturnJob)
-----------------------------------------------------------------------------
(* What has become of a call's job so far.                                 *)
Sends(c) == IF c = worker THEN sends ELSE done[c].sends
Effects(c) == IF c = worker THEN effects ELSE done[c].effects
VerdictOf(c) ==
    IF c # worker THEN done[c].verdict
    ELSE IF phase = "idle" THEN Verdict ELSE "none"

(* Queue, timeouts, retries, deaths and shutdown together: a call with     *)
(* RetryPolicy.NEVER makes the Gateway send one request at most, and a     *)
(* call that was refused none.                                             *)
SentOnce ==
    \A c \in Calls :
       /\ job[c].policy = "NEVER" => Sends(c) <= 1
       /\ answer[c].code = "503" => Sends(c) = 0

Service == INSTANCE GatewayService WITH
              once <- {c \in Calls : job[c].policy = "NEVER"},
              state <- [c \in Calls |->
                          IF api[c] = "idle" THEN "idle"
                          ELSE IF api[c] = "answered" THEN "closed" ELSE "open"],
              acts <- [c \in Calls |-> Effects(c)],
              verdict <- [c \in Calls |-> VerdictOf(c)],
              code <- [c \in Calls |-> answer[c].code]

(* What Load assumes of the Gateway, which no one part of it shows: an     *)
(* answer of the dispatcher tells the truth about what the executor has    *)
(* done to Bitrix24, and after an answer other than a timeout nothing more *)
(* is done.                                                                *)
ImplementsGatewayService == Service!Spec
=============================================================================
