------------------------------ MODULE Dispatch ------------------------------
(***************************************************************************)
(* The Gateway's dispatcher: GatewayHttpApi.call, RequestDispatcher and    *)
(* InMemoryJobQueue, as coroutines of one asyncio event loop.              *)
(*                                                                         *)
(* A step is what the loop runs between two suspension points.  One HTTP   *)
(* call involves two coroutines: the handler, suspended in                 *)
(* asyncio.wait_for, and the task wait_for makes of dispatcher.submit,     *)
(* suspended on the job's future.  The worker (dispatcher.run) is a third  *)
(* one, shared by all calls.  What executor.execute does is left to module *)
(* Execution; here a job takes an arbitrary time and ends with a result,   *)
(* an Exception or a BaseException.                                        *)
(***************************************************************************)
EXTENDS Naturals, Sequences

CONSTANTS
    Calls,      \* the HTTP requests; each makes exactly one job
    QueueMax,   \* capacity of the job queue
    NoCall      \* "no job": the worker is waiting in dequeue

ASSUME DispatchAssumption ==
    /\ QueueMax \in Nat \ {0}
    /\ NoCall \notin Calls

VARIABLES
    api,        \* per call: where the handler's wait_for stands
    task,       \* per call: where the submit task stands
    future,     \* per call: its future, with the job whose outcome it holds
    pending,    \* calls whose job id is a key of dispatcher._pending
    queue,      \* the jobs in InMemoryJobQueue
    worker,     \* the call whose job is being executed, or NoCall
    mode,       \* the worker task: "up", "dead" (BaseException), "stopped"
    answer,     \* per call: the HTTP answer
    (* history *)
    arrivals,   \* the accepted jobs in the order of their acceptance
    begun,      \* calls whose job was given to the executor
    finished    \* calls whose job the executor brought to its end

callVars == <<api, task, future, pending, answer>>
workVars == <<queue, worker, mode, arrivals, begun, finished>>
vars == <<callVars, workVars>>

ApiStates == {"idle", "waiting", "expired", "cancelling", "answered"}
TaskStates == {"none", "scheduled", "parked", "doomed",
               "returned", "failed", "refused", "cancelled"}
TaskOver == {"returned", "failed", "refused", "cancelled"}
FutureStates == {"none", "pending", "result", "error", "cancelled"}
Codes == {"none", "200", "500", "503", "504"}

Future(state, of) == [state |-> state, of |-> of]
Answer(code, of) == [code |-> code, of |-> of]

Init ==
    /\ api = [c \in Calls |-> "idle"]
    /\ task = [c \in Calls |-> "none"]
    /\ future = [c \in Calls |-> Future("none", NoCall)]
    /\ pending = {}
    /\ queue = <<>>
    /\ worker = NoCall
    /\ mode = "up"
    /\ answer = [c \in Calls |-> Answer("none", NoCall)]
    /\ arrivals = <<>>
    /\ begun = {}
    /\ finished = {}
-----------------------------------------------------------------------------
(***************************************************************************)
(* The submit task.                                                        *)
(***************************************************************************)

(* A request arrives: the handler makes a task of submit and suspends in   *)
(* wait_for.  The server accepts requests until it is stopped, also when   *)
(* the worker task has died.                                               *)
Call(c) ==
    /\ mode # "stopped"
    /\ api[c] = "idle"
    /\ api' = [api EXCEPT ![c] = "waiting"]
    /\ task' = [task EXCEPT ![c] = "scheduled"]
    /\ UNCHANGED <<future, pending, answer, workVars>>

(* submit up to its first suspension: register the future, enqueue, park.  *)
SubmitAccepted(c) ==
    /\ task[c] = "scheduled"
    /\ Len(queue) < QueueMax
    /\ task' = [task EXCEPT ![c] = "parked"]
    /\ future' = [future EXCEPT ![c] = Future("pending", NoCall)]
    /\ pending' = pending \cup {c}
    /\ queue' = Append(queue, c)
    /\ arrivals' = Append(arrivals, c)
    /\ UNCHANGED <<api, answer, worker, mode, begun, finished>>

(* The queue is full: QueueFullError leaves submit at once, the finally    *)
(* block takes the future out of _pending again.                           *)
SubmitRefused(c) ==
    /\ task[c] = "scheduled"
    /\ Len(queue) >= QueueMax
    /\ task' = [task EXCEPT ![c] = "refused"]
    /\ UNCHANGED <<api, future, pending, answer, workVars>>

SubmitResumesUncleaned(c) ==
    /\ task[c] \in {"parked", "doomed"}
    /\ future[c].state \notin {"none", "pending"}
    /\ task' = [task EXCEPT ![c] =
                    IF @ = "doomed" \/ future[c].state = "cancelled" THEN "cancelled"
                    ELSE IF future[c].state = "result" THEN "returned" ELSE "failed"]
    /\ pending' = IF task'[c] = "cancelled" THEN pending ELSE pending \ {c}
    /\ UNCHANGED <<api, future, answer, workVars>>

(* The future is done, so the task runs to its end.  A task marked for     *)
(* cancellation gets CancelledError even when its future holds a result.   *)
SubmitResumes(c) ==
    /\ task[c] \in {"parked", "doomed"}
    /\ future[c].state \notin {"none", "pending"}
    /\ task' = [task EXCEPT ![c] =
                    IF @ = "doomed" \/ future[c].state = "cancelled" THEN "cancelled"
                    ELSE IF future[c].state = "result" THEN "returned" ELSE "failed"]
    /\ pending' = pending \ {c}
    /\ UNCHANGED <<api, future, answer, workVars>>
-----------------------------------------------------------------------------
(***************************************************************************)
(* The handler, around asyncio.wait_for.                                   *)
(***************************************************************************)

ExpireWhileQueued(c) ==
    /\ api[c] = "waiting"
    /\ task[c] = "parked"
    /\ \E i \in 1..Len(queue) : queue[i] = c
    /\ api' = [api EXCEPT ![c] = "expired"]
    /\ UNCHANGED <<task, future, pending, answer, workVars>>

(* The timer's callback releases the handler, which runs later.            *)
Expire(c) ==
    /\ api[c] = "waiting"
    /\ task[c] = "parked"
    /\ api' = [api EXCEPT ![c] = "expired"]
    /\ UNCHANGED <<task, future, pending, answer, workVars>>

(* The handler runs after the timer and finds the task unfinished: it      *)
(* cancels the task and waits for its end.  Cancelling reaches the future  *)
(* while that is pending; a future already set leaves a mark on the task.  *)
GiveUp(c) ==
    /\ api[c] = "expired"
    /\ task[c] = "parked"
    /\ api' = [api EXCEPT ![c] = "cancelling"]
    /\ \/ /\ future[c].state = "pending"
          /\ future' = [future EXCEPT ![c] = Future("cancelled", NoCall)]
          /\ task' = task
       \/ /\ future[c].state # "pending"
          /\ task' = [task EXCEPT ![c] = "doomed"]
          /\ future' = future
    /\ UNCHANGED <<pending, answer, workVars>>

(* The task ended before the handler looked: its outcome is the answer.    *)
Reply(c) ==
    /\ api[c] \in {"waiting", "expired"}
    /\ \/ /\ task[c] = "returned"
          /\ answer' = [answer EXCEPT ![c] = Answer("200", future[c].of)]
       \/ /\ task[c] = "failed"
          /\ answer' = [answer EXCEPT ![c] = Answer("500", future[c].of)]
       \/ /\ task[c] = "refused"
          /\ answer' = [answer EXCEPT ![c] = Answer("503", NoCall)]
    /\ api' = [api EXCEPT ![c] = "answered"]
    /\ UNCHANGED <<task, future, pending, workVars>>

ReplyTimeout(c) ==
    /\ api[c] = "cancelling"
    /\ task[c] \in TaskOver
    /\ api' = [api EXCEPT ![c] = "answered"]
    /\ answer' = [answer EXCEPT ![c] = Answer("504", NoCall)]
    /\ UNCHANGED <<task, future, pending, workVars>>
-----------------------------------------------------------------------------
(***************************************************************************)
(* The worker.                                                             *)
(***************************************************************************)

LiveWithoutDoneCheck == pending

(* The calls whose dequeued job would be executed: the future is still     *)
(* registered and not done.                                                *)
Live == {c \in pending : future[c].state = "pending"}

TakeNewest ==
    \/ /\ \A i \in 1..Len(queue) : queue[i] \notin Live
       /\ queue' = <<>>
       /\ worker' = NoCall
       /\ begun' = begun
    \/ \E n \in 1..Len(queue) :
          /\ queue[n] \in Live
          /\ \A i \in (n + 1)..Len(queue) : queue[i] \notin Live
          /\ queue' = SubSeq(queue, 1, n - 1)
          /\ worker' = queue[n]
          /\ begun' = begun \cup {queue[n]}

TakeNextStuckOnSkipped ==
    IF queue # <<>> /\ queue[1] \in Live
    THEN /\ worker' = queue[1]
         /\ begun' = begun \cup {queue[1]}
         /\ queue' = Tail(queue)
    ELSE /\ worker' = NoCall
         /\ UNCHANGED <<queue, begun>>

(* The worker's loop until it suspends again.  dequeue does not suspend    *)
(* while the queue holds something, so the worker drops every job at the   *)
(* front whose caller has left, in one go, and stops at the first job it   *)
(* executes or at the empty queue.                                         *)
TakeNext ==
    \E n \in 0..Len(queue) :
       /\ \A i \in 1..n : queue[i] \notin Live
       /\ \/ /\ n = Len(queue)
             /\ queue' = <<>>
             /\ worker' = NoCall
             /\ begun' = begun
          \/ /\ n < Len(queue)
             /\ queue[n + 1] \in Live
             /\ queue' = SubSeq(queue, n + 2, Len(queue))
             /\ worker' = queue[n + 1]
             /\ begun' = begun \cup {queue[n + 1]}

(* A suspended worker is resumed after an enqueue.                         *)
WakeWorker ==
    /\ mode = "up"
    /\ worker = NoCall
    /\ queue # <<>>
    /\ TakeNext
    /\ UNCHANGED <<callVars, mode, arrivals, finished>>

(* _complete_with_result and _complete_with_exception: nothing happens     *)
(* when the caller is gone or its future is done.                          *)
Complete(state) ==
    future' = IF worker \in Live
              THEN [future EXCEPT ![worker] = Future(state, worker)]
              ELSE future

(* execute ends with a result or an Exception, and the loop goes on.       *)
FinishJob ==
    /\ mode = "up"
    /\ worker # NoCall
    /\ \E state \in {"result", "error"} : Complete(state)
    /\ finished' = finished \cup {worker}
    /\ TakeNext
    /\ UNCHANGED <<api, task, pending, answer, mode, arrivals>>

(* execute ends with a BaseException: the worker task is gone, the job's   *)
(* future stays as it is, and nobody restarts the worker.                  *)
WorkerDies ==
    /\ mode = "up"
    /\ worker # NoCall
    /\ mode' = "dead"
    /\ worker' = NoCall
    /\ UNCHANGED <<callVars, queue, arrivals, begun, finished>>

(* Shutdown.  Uvicorn lets open requests end before the lifespan's exit    *)
(* cancels the worker, which may then be in the middle of an abandoned     *)
(* job.                                                                    *)
Stop ==
    /\ mode # "stopped"
    /\ \A c \in Calls : api[c] \in {"idle", "answered"}
    /\ mode' = "stopped"
    /\ worker' = NoCall
    /\ UNCHANGED <<callVars, queue, arrivals, begun, finished>>
-----------------------------------------------------------------------------
CallStep(c) ==
    \/ Call(c)
    \/ SubmitAccepted(c)
    \/ SubmitRefused(c)
    \/ SubmitResumes(c)
    \/ Expire(c)
    \/ GiveUp(c)
    \/ Reply(c)
    \/ ReplyTimeout(c)

Next ==
    \/ \E c \in Calls : CallStep(c)
    \/ WakeWorker
    \/ FinishJob
    \/ WorkerDies
    \/ Stop

Spec == Init /\ [][Next]_vars

(* The event loop runs every ready callback, and the timer of wait_for     *)
(* fires: a request that has arrived keeps moving.  Nothing is assumed     *)
(* about the worker or about how long a job takes.                         *)
CallerFairness ==
    \A c \in Calls :
       /\ WF_vars(SubmitAccepted(c) \/ SubmitRefused(c))
       /\ WF_vars(SubmitResumes(c))
       /\ WF_vars(Expire(c))
       /\ WF_vars(GiveUp(c))
       /\ WF_vars(Reply(c))
       /\ WF_vars(ReplyTimeout(c))

(* The worker is scheduled, and a job that is being executed ends: module  *)
(* Execution shows that for the code of RequestExecutor.                   *)
WorkerFairness == WF_vars(WakeWorker) /\ WF_vars(FinishJob)

CallerFairSpec == Spec /\ CallerFairness
-----------------------------------------------------------------------------
TypeOK ==
    /\ api \in [Calls -> ApiStates]
    /\ task \in [Calls -> TaskStates]
    /\ future \in [Calls -> [state : FutureStates, of : Calls \cup {NoCall}]]
    /\ pending \subseteq Calls
    /\ queue \in Seq(Calls)
    /\ Len(queue) <= QueueMax
    /\ worker \in Calls \cup {NoCall}
    /\ mode \in {"up", "dead", "stopped"}
    /\ answer \in [Calls -> [code : Codes, of : Calls \cup {NoCall}]]
    /\ arrivals \in Seq(Calls)
    /\ begun \subseteq Calls
    /\ finished \subseteq Calls

Queued == {queue[i] : i \in 1..Len(queue)}

(* dispatcher.submit and dispatcher.run share _pending: it must hold       *)
(* exactly the submissions that still wait on their future.  One key too   *)
(* many is a leak in a process that runs for months, one too few makes     *)
(* the worker drop a job somebody waits for.                               *)
PendingIsExact == pending = {c \in Calls : task[c] \in {"parked", "doomed"}}

(* The worker drops jobs from the queue, the handlers cancel futures:      *)
(* whatever the interleaving, a caller with an unresolved future always    *)
(* has its job in the queue or in the executor while the worker lives.     *)
NoLostJob ==
    mode = "up" => \A c \in Calls :
                      future[c].state = "pending" => c \in Queued \/ c = worker

(* Nobody waits for a job that is not there, and no job is there that the  *)
(* dispatcher does not know of.                                            *)
JobsAreAccounted == PendingIsExact /\ NoLostJob

(* "FIFO" of JobQueue and of the tests, across skipped and abandoned       *)
(* jobs: no job is started while one accepted before it is still queued.   *)
NoOvertaking ==
    \A i, j \in 1..Len(arrivals) :
       i < j /\ arrivals[j] \in begun => arrivals[i] \notin Queued

(* The dispatcher provides CallService: one job at a time, each at most    *)
(* once and only for a caller not yet given up, outcomes only to the       *)
(* caller whose job produced them.                                         *)
Phase == [c \in Calls |->
            CASE api[c] = "idle" -> "idle"
              [] api[c] \in {"waiting", "expired"} -> "open"
              [] api[c] = "cancelling" -> "leaving"
              [] OTHER -> "closed"]

Service == INSTANCE CallService WITH
              phase <- Phase, running <- worker, reply <- answer

ImplementsCallService == Service!Spec

(* api.call bounds the whole submission: every request is answered, also   *)
(* when the executor hangs or the worker task has died.                    *)
EveryCallAnswered ==
    \A c \in Calls : (api[c] = "waiting") ~> (api[c] = "answered")

(* Jobs whose callers left still occupy the queue; a worker that lives and *)
(* is scheduled clears them, so they cannot keep the queue full for ever.  *)
QueueDrains ==
    WorkerFairness => ((queue # <<>>) ~> (queue = <<>> \/ mode # "up"))
=============================================================================
