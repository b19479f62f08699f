--------------------------- MODULE DispatchProofs ---------------------------
(***************************************************************************)
(* Proofs about Dispatch for every set of calls and every queue capacity.  *)
(* Inv strengthens the invariants of Dispatch to an inductive one; the     *)
(* refinement of CallService follows from it.                              *)
(***************************************************************************)
EXTENDS Dispatch, TLAPS

(* How far a handler, its submit task and its future can be apart.         *)
Coherent(c) ==
    /\ api[c] = "idle" <=> task[c] = "none"
    /\ api[c] \in {"waiting", "expired"} =>
          /\ task[c] \notin {"doomed", "cancelled"}
          /\ future[c].state # "cancelled"
    /\ api[c] = "cancelling" =>
          \/ task[c] = "parked" /\ future[c].state = "cancelled"
          \/ task[c] \in {"doomed", "cancelled"}
    /\ api[c] = "answered" => task[c] \in TaskOver
    /\ task[c] \in {"none", "scheduled", "refused"} <=> future[c].state = "none"
    /\ task[c] = "doomed" => future[c].state \in {"result", "error"}
    /\ task[c] = "returned" => future[c].state = "result"
    /\ task[c] = "failed" => future[c].state = "error"
    /\ future[c].state = "pending" => task[c] = "parked"
    /\ future[c].state \in {"result", "error"} =>
          future[c].of = c /\ c \in finished

(* The jobs taken from the queue are the first Taken of the accepted ones. *)
Taken == Len(arrivals) - Len(queue)

QueueIsSuffix ==
    /\ Len(queue) <= Len(arrivals)
    /\ \A i \in 1..Len(queue) : queue[i] = arrivals[Taken + i]

ArrivalsDistinct ==
    \A i, j \in 1..Len(arrivals) : arrivals[i] = arrivals[j] => i = j

BegunWereTaken == \A c \in begun : \E i \in 1..Taken : arrivals[i] = c

(* A call with an accepted job has passed submit's enqueue.                *)
AcceptedHaveTask ==
    \A i \in 1..Len(arrivals) :
       task[arrivals[i]] \notin {"none", "scheduled", "refused"}

WorkerBegun == worker # NoCall => worker \in begun /\ mode = "up"

Inv ==
    /\ TypeOK
    /\ \A c \in Calls : Coherent(c)
    /\ PendingIsExact
    /\ NoLostJob
    /\ QueueIsSuffix
    /\ ArrivalsDistinct
    /\ BegunWereTaken
    /\ AcceptedHaveTask
    /\ WorkerBegun
-----------------------------------------------------------------------------
(* What the worker's loop does to the queue: it drops a prefix of it, and  *)
(* the only live job in that prefix, if there is one, is the last, which   *)
(* is the one it goes on to execute.                                       *)
LEMMA TakeNextEffect ==
    ASSUME TypeOK, TakeNext
    PROVE  /\ queue' \in Seq(Calls)
           /\ Len(queue') <= Len(queue)
           /\ \A i \in 1..Len(queue') :
                 queue'[i] = queue[(Len(queue) - Len(queue')) + i]
           /\ \A i \in 1..(Len(queue) - Len(queue')) :
                 queue[i] \in Live => queue[i] = worker'
           /\ \/ worker' = NoCall /\ begun' = begun
              \/ /\ worker' \in Live
                 /\ begun' = begun \cup {worker'}
                 /\ Len(queue') < Len(queue)
                 /\ worker' = queue[Len(queue) - Len(queue')]
<1>1. PICK n \in 0..Len(queue) :
         /\ \A i \in 1..n : queue[i] \notin Live
         /\ \/ /\ n = Len(queue)
               /\ queue' = <<>>
               /\ worker' = NoCall
               /\ begun' = begun
            \/ /\ n < Len(queue)
               /\ queue[n + 1] \in Live
               /\ queue' = SubSeq(queue, n + 2, Len(queue))
               /\ worker' = queue[n + 1]
               /\ begun' = begun \cup {queue[n + 1]}
  BY DEF TakeNext
<1>2. queue \in Seq(Calls) /\ Len(queue) \in Nat
  BY DEF TypeOK
<1>3. CASE n = Len(queue)
  <2>1. queue' = <<>> /\ worker' = NoCall /\ begun' = begun
    BY <1>1, <1>2, <1>3
  <2>2. queue' \in Seq(Calls) /\ Len(queue') = 0
    BY <2>1
  <2>3. \A i \in 1..(Len(queue) - Len(queue')) : queue[i] \notin Live
    BY <1>1, <1>2, <1>3, <2>2
  <2>4. QED
    BY <1>2, <2>1, <2>2, <2>3
<1>4. CASE n < Len(queue)
  <2>1. /\ queue[n + 1] \in Live
        /\ queue' = SubSeq(queue, n + 2, Len(queue))
        /\ worker' = queue[n + 1]
        /\ begun' = begun \cup {queue[n + 1]}
    BY <1>1, <1>2, <1>4
  <2>2. /\ queue' \in Seq(Calls)
        /\ Len(queue') = Len(queue) - (n + 1)
        /\ \A i \in 1..Len(queue') : queue'[i] = queue[(n + 1) + i]
    BY <1>2, <1>4, <2>1
  <2>3. Len(queue) - Len(queue') = n + 1
    BY <1>2, <2>2
  <2>4. \A i \in 1..(n + 1) : queue[i] \in Live => queue[i] = worker'
    <3>1. TAKE i \in 1..(n + 1)
    <3>2. i \in 1..n \/ i = n + 1
      OBVIOUS
    <3>3. QED
      BY <1>1, <2>1, <3>2
  <2>5. Len(queue') < Len(queue)
    BY <1>2, <2>2
  <2>6. \A i \in 1..Len(queue') :
           queue'[i] = queue[(Len(queue) - Len(queue')) + i]
    BY <2>2, <2>3
  <2>7. \A i \in 1..(Len(queue) - Len(queue')) :
           queue[i] \in Live => queue[i] = worker'
    BY <2>3, <2>4
  <2>8. worker' \in Live /\ worker' = queue[Len(queue) - Len(queue')]
    BY <2>1, <2>3
  <2>9. begun' = begun \cup {worker'}
    BY <2>1
  <2>10. QED
    BY <1>2, <2>2, <2>5, <2>6, <2>7, <2>8, <2>9
<1>5. QED
  BY <1>2, <1>3, <1>4
-----------------------------------------------------------------------------
LEMMA InvInit == Init => Inv
<1> SUFFICES ASSUME Init PROVE Inv
  OBVIOUS
<1>1. TypeOK
  BY DispatchAssumption DEF Init, TypeOK, ApiStates, TaskStates, FutureStates,
     Codes, Future, Answer
<1>2. \A c \in Calls : Coherent(c)
  BY DEF Init, Coherent, Future, TaskOver
<1>3. PendingIsExact /\ NoLostJob
  BY DEF Init, PendingIsExact, NoLostJob, Future
<1>4. QueueIsSuffix /\ ArrivalsDistinct /\ BegunWereTaken /\ AcceptedHaveTask
  BY DEF Init, QueueIsSuffix, ArrivalsDistinct, BegunWereTaken, AcceptedHaveTask
<1>5. WorkerBegun
  BY DEF Init, WorkerBegun
<1>6. QED
  BY <1>1, <1>2, <1>3, <1>4, <1>5 DEF Inv

LEMMA CallKeeps == ASSUME NEW c \in Calls, Inv, Call(c) PROVE Inv'
<1> USE DEF Inv
<1>1. TypeOK'
  BY DEF Call, workVars, TypeOK, ApiStates, TaskStates, FutureStates, Codes,
     Future, Answer
<1>2. \A d \in Calls : Coherent(d)'
  BY DEF Call, workVars, TypeOK, Coherent, TaskOver, Future
<1>3. PendingIsExact'
  BY DEF Call, workVars, TypeOK, PendingIsExact, Coherent, TaskStates
<1>4. NoLostJob'
  BY DEF Call, workVars, TypeOK, NoLostJob, Queued, Future
<1>5. QueueIsSuffix' /\ ArrivalsDistinct' /\ BegunWereTaken'
  BY DEF Call, workVars, TypeOK, QueueIsSuffix, ArrivalsDistinct,
     BegunWereTaken, Taken
<1>6. AcceptedHaveTask'
  BY DEF Call, workVars, TypeOK, AcceptedHaveTask, Coherent
<1>7. WorkerBegun'
  BY DEF Call, workVars, WorkerBegun
<1>8. QED
  BY <1>1, <1>2, <1>3, <1>4, <1>5, <1>6, <1>7

LEMMA SubmitAcceptedKeeps == ASSUME NEW c \in Calls, Inv, SubmitAccepted(c) PROVE Inv'
<1> USE DEF Inv
<1>1. TypeOK'
  <2>1. /\ queue' \in Seq(Calls) /\ arrivals' \in Seq(Calls)
        /\ Len(queue') = Len(queue) + 1 /\ Len(queue') <= QueueMax
    BY DispatchAssumption DEF SubmitAccepted, TypeOK
  <2>2. task' \in [Calls -> TaskStates]
    BY DEF SubmitAccepted, TypeOK, TaskStates
  <2>3. future' \in [Calls -> [state : FutureStates, of : Calls \cup {NoCall}]]
    BY DEF SubmitAccepted, TypeOK, FutureStates, Future
  <2>4. pending' \subseteq Calls
    BY DEF SubmitAccepted, TypeOK
  <2>5. QED
    BY <2>1, <2>2, <2>3, <2>4 DEF SubmitAccepted, TypeOK
<1>2. \A d \in Calls : Coherent(d)'
  BY DEF SubmitAccepted, workVars, TypeOK, Coherent, TaskOver, Future
<1>3. PendingIsExact'
  BY DEF SubmitAccepted, workVars, TypeOK, PendingIsExact, Coherent, TaskStates
<1>4. NoLostJob'
  <2>1. queue' = Append(queue, c) /\ worker' = worker /\ mode' = mode
    BY DEF SubmitAccepted
  <2>2. Queued \cup {c} \subseteq Queued'
    BY <2>1 DEF TypeOK, Queued
  <2>3. \A d \in Calls : d # c => future'[d] = future[d]
    BY DEF SubmitAccepted, TypeOK
  <2>4. QED
    BY <2>1, <2>2, <2>3 DEF NoLostJob
<1>5. QueueIsSuffix' /\ ArrivalsDistinct' /\ BegunWereTaken'
  <2>1. /\ queue \in Seq(Calls) /\ arrivals \in Seq(Calls)
        /\ Len(queue) \in Nat /\ Len(arrivals) \in Nat
        /\ Len(queue) <= Len(arrivals)
    BY DEF TypeOK, QueueIsSuffix
  <2>2. /\ Len(queue') = Len(queue) + 1
        /\ Len(arrivals') = Len(arrivals) + 1
        /\ \A i \in 1..Len(queue) : queue'[i] = queue[i]
        /\ \A i \in 1..Len(arrivals) : arrivals'[i] = arrivals[i]
        /\ queue'[Len(queue) + 1] = c
        /\ arrivals'[Len(arrivals) + 1] = c
    BY <2>1 DEF SubmitAccepted
  <2>3. Taken' = Taken /\ Taken \in Nat
    BY <2>1, <2>2 DEF Taken
  <2>4. \A i \in 1..Len(arrivals) : arrivals[i] # c
    BY DEF SubmitAccepted, AcceptedHaveTask
  <2>5. QueueIsSuffix'
    <3>1. ASSUME NEW i \in 1..Len(queue') PROVE queue'[i] = arrivals'[Taken + i]
      <4>1. CASE i \in 1..Len(queue)
        <5>1. Taken + i \in 1..Len(arrivals)
          BY <2>1, <4>1 DEF Taken
        <5>2. queue[i] = arrivals[Taken + i]
          BY <4>1 DEF QueueIsSuffix
        <5>3. QED
          BY <2>2, <4>1, <5>1, <5>2
      <4>2. CASE i = Len(queue) + 1
        BY <2>1, <2>2, <4>2 DEF Taken
      <4>3. QED
        BY <2>1, <2>2, <4>1, <4>2
    <3>2. QED
      BY <2>1, <2>2, <2>3, <3>1 DEF QueueIsSuffix
  <2>6. ArrivalsDistinct'
    BY <2>1, <2>2, <2>4 DEF ArrivalsDistinct
  <2>7. BegunWereTaken'
    <3>1. \A i \in 1..Taken : i \in 1..Len(arrivals)
      BY <2>1, <2>3 DEF Taken
    <3>2. QED
      BY <2>2, <2>3, <3>1 DEF BegunWereTaken, SubmitAccepted
  <2>8. QED
    BY <2>5, <2>6, <2>7
<1>6. AcceptedHaveTask'
  BY DEF SubmitAccepted, workVars, TypeOK, AcceptedHaveTask
<1>7. WorkerBegun'
  BY DEF SubmitAccepted, workVars, WorkerBegun
<1>8. QED
  BY <1>1, <1>2, <1>3, <1>4, <1>5, <1>6, <1>7

LEMMA SubmitRefusedKeeps == ASSUME NEW c \in Calls, Inv, SubmitRefused(c) PROVE Inv'
<1> USE DEF Inv
<1>1. TypeOK'
  BY DEF SubmitRefused, workVars, TypeOK, ApiStates, TaskStates, FutureStates, Codes,
     Future, Answer
<1>2. \A d \in Calls : Coherent(d)'
  BY DEF SubmitRefused, workVars, TypeOK, Coherent, TaskOver, Future
<1>3. PendingIsExact'
  BY DEF SubmitRefused, workVars, TypeOK, PendingIsExact, Coherent, TaskStates
<1>4. NoLostJob'
  BY DEF SubmitRefused, workVars, TypeOK, NoLostJob, Queued, Future
<1>5. QueueIsSuffix' /\ ArrivalsDistinct' /\ BegunWereTaken'
  BY DEF SubmitRefused, workVars, TypeOK, QueueIsSuffix, ArrivalsDistinct,
     BegunWereTaken, Taken
<1>6. AcceptedHaveTask'
  BY DEF SubmitRefused, workVars, TypeOK, AcceptedHaveTask
<1>7. WorkerBegun'
  BY DEF SubmitRefused, workVars, WorkerBegun
<1>8. QED
  BY <1>1, <1>2, <1>3, <1>4, <1>5, <1>6, <1>7

LEMMA SubmitResumesKeeps == ASSUME NEW c \in Calls, Inv, SubmitResumes(c) PROVE Inv'
<1> USE DEF Inv
<1>1. TypeOK'
  BY DEF SubmitResumes, workVars, TypeOK, ApiStates, TaskStates, FutureStates, Codes,
     Future, Answer
<1>2. \A d \in Calls : Coherent(d)'
  <2>1. /\ task[c] \in {"parked", "doomed"}
        /\ future[c].state \in {"result", "error", "cancelled"}
        /\ UNCHANGED <<api, future, finished>>
    BY DEF SubmitResumes, workVars, TypeOK, FutureStates
  <2>2. \A d \in Calls : d # c => task'[d] = task[d]
    BY DEF SubmitResumes, TypeOK
  <2>3. task'[c] = IF task[c] = "doomed" \/ future[c].state = "cancelled"
                   THEN "cancelled"
                   ELSE IF future[c].state = "result" THEN "returned" ELSE "failed"
    BY DEF SubmitResumes, TypeOK
  <2>4. ASSUME NEW d \in Calls, d # c PROVE Coherent(d)'
    BY <2>1, <2>2, <2>4 DEF Coherent
  <2>5. Coherent(c)'
    <3>1. task[c] = "doomed" \/ future[c].state = "cancelled" => api[c] = "cancelling"
      BY <2>1 DEF Coherent, TaskOver, TypeOK, ApiStates
    <3>2. api[c] \in {"waiting", "expired", "cancelling"}
      BY <2>1 DEF Coherent, TaskOver, TypeOK, ApiStates
    <3>3. QED
      BY <2>1, <2>3, <3>1, <3>2 DEF Coherent
  <2>6. QED
    BY <2>4, <2>5
<1>3. PendingIsExact'
  BY DEF SubmitResumes, workVars, TypeOK, PendingIsExact, Coherent, TaskStates
<1>4. NoLostJob'
  BY DEF SubmitResumes, workVars, TypeOK, NoLostJob, Queued, Future
<1>5. QueueIsSuffix' /\ ArrivalsDistinct' /\ BegunWereTaken'
  BY DEF SubmitResumes, workVars, TypeOK, QueueIsSuffix, ArrivalsDistinct,
     BegunWereTaken, Taken
<1>6. AcceptedHaveTask'
  BY DEF SubmitResumes, workVars, TypeOK, AcceptedHaveTask
<1>7. WorkerBegun'
  BY DEF SubmitResumes, workVars, WorkerBegun
<1>8. QED
  BY <1>1, <1>2, <1>3, <1>4, <1>5, <1>6, <1>7

LEMMA ExpireKeeps == ASSUME NEW c \in Calls, Inv, Expire(c) PROVE Inv'
<1> USE DEF Inv
<1>1. TypeOK'
  BY DEF Expire, workVars, TypeOK, ApiStates, TaskStates, FutureStates, Codes,
     Future, Answer
<1>2. \A d \in Calls : Coherent(d)'
  BY DEF Expire, workVars, TypeOK, Coherent, TaskOver, Future
<1>3. PendingIsExact'
  BY DEF Expire, workVars, TypeOK, PendingIsExact, Coherent, TaskStates
<1>4. NoLostJob'
  BY DEF Expire, workVars, TypeOK, NoLostJob, Queued, Future
<1>5. QueueIsSuffix' /\ ArrivalsDistinct' /\ BegunWereTaken'
  BY DEF Expire, workVars, TypeOK, QueueIsSuffix, ArrivalsDistinct,
     BegunWereTaken, Taken
<1>6. AcceptedHaveTask'
  BY DEF Expire, workVars, TypeOK, AcceptedHaveTask
<1>7. WorkerBegun'
  BY DEF Expire, workVars, WorkerBegun
<1>8. QED
  BY <1>1, <1>2, <1>3, <1>4, <1>5, <1>6, <1>7

LEMMA GiveUpKeeps == ASSUME NEW c \in Calls, Inv, GiveUp(c) PROVE Inv'
<1> USE DEF Inv
<1>1. TypeOK' /\ \A d \in Calls : Coherent(d)'
  <2>1. CASE future[c].state = "pending"
    <3>1. /\ api' = [api EXCEPT ![c] = "cancelling"]
          /\ future' = [future EXCEPT ![c] = Future("cancelled", NoCall)]
          /\ task[c] = "parked"
          /\ UNCHANGED <<task, pending, answer, workVars>>
      BY <2>1 DEF GiveUp
    <3>2. TypeOK'
      BY <3>1 DEF workVars, TypeOK, ApiStates, FutureStates, Future
    <3>3. \A d \in Calls : Coherent(d)'
      BY <3>1 DEF workVars, TypeOK, Coherent, Future
    <3>4. QED
      BY <3>2, <3>3
  <2>2. CASE future[c].state # "pending"
    <3>1. /\ api[c] = "expired"
          /\ api' = [api EXCEPT ![c] = "cancelling"]
          /\ task' = [task EXCEPT ![c] = "doomed"]
          /\ task[c] = "parked"
          /\ UNCHANGED <<future, pending, answer, workVars>>
      BY <2>2 DEF GiveUp
    <3>2. TypeOK'
      BY <3>1 DEF workVars, TypeOK, ApiStates, TaskStates
    <3>3. future[c].state \in {"result", "error"}
      BY <2>2, <3>1 DEF TypeOK, Coherent, FutureStates
    <3>4. ASSUME NEW d \in Calls, d # c PROVE Coherent(d)'
      BY <3>1, <3>4 DEF workVars, TypeOK, Coherent
    <3>5. Coherent(c)'
      BY <3>1, <3>3 DEF workVars, TypeOK, Coherent
    <3>6. QED
      BY <3>2, <3>4, <3>5
  <2>3. QED
    BY <2>1, <2>2
<1>3. PendingIsExact'
  BY DEF GiveUp, workVars, TypeOK, PendingIsExact, Coherent, TaskStates
<1>4. NoLostJob'
  BY DEF GiveUp, workVars, TypeOK, NoLostJob, Queued, Future
<1>5. QueueIsSuffix' /\ ArrivalsDistinct' /\ BegunWereTaken'
  BY DEF GiveUp, workVars, TypeOK, QueueIsSuffix, ArrivalsDistinct,
     BegunWereTaken, Taken
<1>6. AcceptedHaveTask'
  BY DEF GiveUp, workVars, TypeOK, AcceptedHaveTask
<1>7. WorkerBegun'
  BY DEF GiveUp, workVars, WorkerBegun
<1>8. QED
  BY <1>1, <1>3, <1>4, <1>5, <1>6, <1>7

LEMMA ReplyKeeps == ASSUME NEW c \in Calls, Inv, Reply(c) PROVE Inv'
<1> USE DEF Inv
<1>1. TypeOK'
  <2>1. /\ api' = [api EXCEPT ![c] = "answered"]
        /\ UNCHANGED <<task, future, pending, workVars>>
    BY DEF Reply
  <2>2. answer' \in [Calls -> [code : Codes, of : Calls \cup {NoCall}]]
    BY DEF Reply, TypeOK, FutureStates, Codes, Answer
  <2>3. api' \in [Calls -> ApiStates]
    BY <2>1 DEF TypeOK, ApiStates
  <2>4. QED
    BY <2>1, <2>2, <2>3 DEF workVars, TypeOK
<1>2. \A d \in Calls : Coherent(d)'
  BY DEF Reply, workVars, TypeOK, Coherent, TaskOver, Future
<1>3. PendingIsExact'
  BY DEF Reply, workVars, TypeOK, PendingIsExact, Coherent, TaskStates
<1>4. NoLostJob'
  BY DEF Reply, workVars, TypeOK, NoLostJob, Queued, Future
<1>5. QueueIsSuffix' /\ ArrivalsDistinct' /\ BegunWereTaken'
  BY DEF Reply, workVars, TypeOK, QueueIsSuffix, ArrivalsDistinct,
     BegunWereTaken, Taken
<1>6. AcceptedHaveTask'
  BY DEF Reply, workVars, TypeOK, AcceptedHaveTask
<1>7. WorkerBegun'
  BY DEF Reply, workVars, WorkerBegun
<1>8. QED
  BY <1>1, <1>2, <1>3, <1>4, <1>5, <1>6, <1>7

LEMMA ReplyTimeoutKeeps == ASSUME NEW c \in Calls, Inv, ReplyTimeout(c) PROVE Inv'
<1> USE DEF Inv
<1>1. TypeOK'
  BY DEF ReplyTimeout, workVars, TypeOK, ApiStates, TaskStates, FutureStates, Codes,
     Future, Answer
<1>2. \A d \in Calls : Coherent(d)'
  BY DEF ReplyTimeout, workVars, TypeOK, Coherent, TaskOver, Future
<1>3. PendingIsExact'
  BY DEF ReplyTimeout, workVars, TypeOK, PendingIsExact, Coherent, TaskStates
<1>4. NoLostJob'
  BY DEF ReplyTimeout, workVars, TypeOK, NoLostJob, Queued, Future
<1>5. QueueIsSuffix' /\ ArrivalsDistinct' /\ BegunWereTaken'
  BY DEF ReplyTimeout, workVars, TypeOK, QueueIsSuffix, ArrivalsDistinct,
     BegunWereTaken, Taken
<1>6. AcceptedHaveTask'
  BY DEF ReplyTimeout, workVars, TypeOK, AcceptedHaveTask
<1>7. WorkerBegun'
  BY DEF ReplyTimeout, workVars, WorkerBegun
<1>8. QED
  BY <1>1, <1>2, <1>3, <1>4, <1>5, <1>6, <1>7

-----------------------------------------------------------------------------
LEMMA TakeNextKeepsQueue ==
    ASSUME Inv, TakeNext, arrivals' = arrivals
    PROVE  /\ QueueIsSuffix'
           /\ ArrivalsDistinct'
           /\ BegunWereTaken'
           /\ worker' # NoCall => worker' \in begun'
<1> DEFINE gone == Len(queue) - Len(queue')
<1>1. /\ queue \in Seq(Calls) /\ queue' \in Seq(Calls) /\ arrivals \in Seq(Calls)
      /\ Len(queue) \in Nat /\ Len(queue') \in Nat /\ Len(arrivals) \in Nat
      /\ Len(queue') <= Len(queue) /\ Len(queue) <= Len(arrivals)
  BY TakeNextEffect DEF Inv, TypeOK, QueueIsSuffix
<1>2. \A i \in 1..Len(queue') : queue'[i] = queue[gone + i]
  BY TakeNextEffect DEF Inv
<1>3. Taken' = Taken + gone /\ gone \in Nat /\ Taken \in Nat
  BY <1>1 DEF Taken
<1>4. QueueIsSuffix'
  <2>1. ASSUME NEW i \in 1..Len(queue') PROVE queue'[i] = arrivals'[Taken' + i]
    <3>1. gone + i \in 1..Len(queue)
      BY <1>1
    <3>2. queue[gone + i] = arrivals[Taken + (gone + i)]
      BY <3>1 DEF Inv, QueueIsSuffix
    <3>3. Taken + (gone + i) = Taken' + i
      BY <1>1, <1>3
    <3>4. QED
      BY <1>2, <3>2, <3>3
  <2>2. QED
    BY <1>1, <2>1 DEF QueueIsSuffix
<1>5. BegunWereTaken'
  <2>1. 1..Taken \subseteq 1..Taken'
    BY <1>3
  <2>2. \A c \in begun : \E i \in 1..Taken' : arrivals'[i] = c
    BY <2>1 DEF Inv, BegunWereTaken
  <2>3. CASE begun' = begun
    BY <2>2, <2>3 DEF BegunWereTaken
  <2>4. CASE /\ begun' = begun \cup {worker'}
             /\ Len(queue') < Len(queue)
             /\ worker' = queue[gone]
    <3>1. gone \in 1..Len(queue)
      BY <1>1, <2>4
    <3>2. queue[gone] = arrivals[Taken + gone]
      BY <3>1 DEF Inv, QueueIsSuffix
    <3>3. Taken' \in 1..Taken' /\ arrivals'[Taken'] = worker'
      BY <1>3, <2>4, <3>1, <3>2
    <3>4. QED
      BY <2>2, <2>4, <3>3 DEF BegunWereTaken
  <2>5. QED
    BY <2>3, <2>4, TakeNextEffect DEF Inv
<1>6. ArrivalsDistinct'
  BY DEF Inv, ArrivalsDistinct
<1>7. worker' # NoCall => worker' \in begun'
  BY TakeNextEffect DEF Inv
<1>8. QED
  BY <1>4, <1>5, <1>6, <1>7

(* The worker never drops a job somebody still waits for.                  *)
LEMMA LiveNotDropped ==
    ASSUME TypeOK, TakeNext, NEW c \in Queued, c \in Live
    PROVE  c \in Queued' \/ c = worker'
<1>1. PICK i \in 1..Len(queue) : queue[i] = c
  BY DEF Queued
<1>2. /\ Len(queue) \in Nat /\ Len(queue') \in Nat /\ Len(queue') <= Len(queue)
  BY TakeNextEffect DEF TypeOK
<1>3. CASE i \in 1..(Len(queue) - Len(queue'))
  BY <1>1, <1>3, TakeNextEffect
<1>4. CASE i > Len(queue) - Len(queue')
  <2>1. i - (Len(queue) - Len(queue')) \in 1..Len(queue')
    BY <1>2, <1>4
  <2>2. queue'[i - (Len(queue) - Len(queue'))] = queue[i]
    BY <1>2, <2>1, TakeNextEffect
  <2>3. QED
    BY <1>1, <2>1, <2>2 DEF Queued
<1>5. QED
  BY <1>2, <1>3, <1>4

LEMMA TakeNextTypes ==
    ASSUME TypeOK, TakeNext
    PROVE  /\ queue' \in Seq(Calls)
           /\ Len(queue') <= QueueMax
           /\ worker' \in Calls \cup {NoCall}
           /\ begun' \subseteq Calls
<1>1. Len(queue') <= QueueMax
  <2>1. Len(queue') \in Nat /\ Len(queue') <= Len(queue)
    BY TakeNextEffect
  <2>2. Len(queue) \in Nat /\ Len(queue) <= QueueMax
    BY DEF TypeOK
  <2>3. QED
    BY <2>1, <2>2, DispatchAssumption
<1>2. QED
  BY <1>1, TakeNextEffect DEF TypeOK, Live

LEMMA WakeWorkerKeeps == ASSUME Inv, WakeWorker PROVE Inv'
<1> USE DEF Inv
<1>1. /\ TakeNext /\ mode = "up" /\ worker = NoCall
      /\ UNCHANGED <<api, task, future, pending, answer, mode, arrivals, finished>>
  BY DEF WakeWorker, callVars
<1>2. TypeOK'
  BY <1>1, TakeNextTypes DEF TypeOK
<1>3. \A d \in Calls : Coherent(d)'
  BY <1>1 DEF Coherent
<1>4. PendingIsExact' /\ AcceptedHaveTask'
  BY <1>1 DEF PendingIsExact, AcceptedHaveTask
<1>5. NoLostJob'
  <2>1. ASSUME NEW c \in Calls, future[c].state = "pending"
        PROVE  c \in Queued' \/ c = worker'
    <3>1. c \in Queued
      BY <1>1, <2>1, DispatchAssumption DEF NoLostJob
    <3>2. c \in Live
      BY <2>1 DEF Live, Coherent, PendingIsExact
    <3>3. QED
      BY <1>1, <3>1, <3>2, LiveNotDropped
  <2>2. QED
    BY <1>1, <2>1 DEF NoLostJob
<1>6. QueueIsSuffix' /\ ArrivalsDistinct' /\ BegunWereTaken' /\ WorkerBegun'
  BY <1>1, TakeNextKeepsQueue DEF WorkerBegun
<1>7. QED
  BY <1>2, <1>3, <1>4, <1>5, <1>6

LEMMA FinishJobKeeps == ASSUME Inv, FinishJob PROVE Inv'
<1> USE DEF Inv
<1>1. /\ TakeNext /\ mode = "up" /\ worker \in Calls
      /\ finished' = finished \cup {worker}
      /\ UNCHANGED <<api, task, pending, answer, mode, arrivals>>
  BY DEF FinishJob, TypeOK
<1>2. PICK state \in {"result", "error"} : Complete(state)
  BY DEF FinishJob
<1>3. future' \in [Calls -> [state : FutureStates, of : Calls \cup {NoCall}]]
  BY <1>1, <1>2 DEF Complete, Future, FutureStates, TypeOK
<1>4. \A c \in Calls : c # worker => future'[c] = future[c]
  BY <1>2 DEF Complete, TypeOK
<1>5. /\ worker \in Live => /\ future'[worker].state = state
                            /\ future'[worker].of = worker
      /\ worker \notin Live => future'[worker] = future[worker]
  BY <1>1, <1>2 DEF Complete, Future, TypeOK
<1>6. TypeOK'
  BY <1>1, <1>3, TakeNextTypes DEF TypeOK
<1>7. \A d \in Calls : Coherent(d)'
  <2>1. ASSUME NEW d \in Calls, d # worker PROVE Coherent(d)'
    BY <1>1, <1>4, <2>1 DEF Coherent
  <2>2. ASSUME NEW d \in Calls, d = worker, worker \in Live PROVE Coherent(d)'
    <3>1. future[d].state = "pending" /\ task[d] = "parked" /\ api[d] # "cancelling"
      BY <2>2 DEF Live, Coherent
    <3>2. future'[d].state \in {"result", "error"} /\ future'[d].of = d
      BY <1>2, <1>5, <2>2
    <3>3. d \in finished'
      BY <1>1, <2>2
    <3>4. QED
      BY <1>1, <3>1, <3>2, <3>3 DEF Coherent, TaskOver
  <2>3. ASSUME NEW d \in Calls, d = worker, worker \notin Live PROVE Coherent(d)'
    <3>1. future'[d] = future[d]
      BY <1>5, <2>3
    <3>2. QED
      BY <1>1, <3>1 DEF Coherent
  <2>4. QED
    BY <2>1, <2>2, <2>3
<1>8. PendingIsExact' /\ AcceptedHaveTask'
  BY <1>1 DEF PendingIsExact, AcceptedHaveTask
<1>9. NoLostJob'
  <2>1. ASSUME NEW c \in Calls, future'[c].state = "pending"
        PROVE  c \in Queued' \/ c = worker'
    <3>1. c # worker
      BY <1>1, <1>5, <2>1 DEF Live, Coherent, PendingIsExact
    <3>2. future[c].state = "pending"
      BY <1>4, <2>1, <3>1
    <3>3. c \in Queued /\ c \in Live
      BY <1>1, <3>1, <3>2 DEF NoLostJob, Live, Coherent, PendingIsExact
    <3>4. QED
      BY <1>1, <3>3, LiveNotDropped
  <2>2. QED
    BY <2>1 DEF NoLostJob
<1>10. QueueIsSuffix' /\ ArrivalsDistinct' /\ BegunWereTaken' /\ WorkerBegun'
  BY <1>1, TakeNextKeepsQueue DEF WorkerBegun
<1>11. QED
  BY <1>6, <1>7, <1>8, <1>9, <1>10

(* The worker's end, by a BaseException or by shutdown, only makes         *)
(* NoLostJob vacuous.                                                      *)
LEMMA WorkerEndsKeeps == ASSUME Inv, WorkerDies \/ Stop PROVE Inv'
<1> USE DEF Inv
<1>1. /\ worker' = NoCall /\ mode' \in {"dead", "stopped"}
      /\ UNCHANGED <<api, task, future, pending, answer, queue, arrivals,
                     begun, finished>>
  BY DEF WorkerDies, Stop, callVars
<1>2. TypeOK'
  BY <1>1 DEF TypeOK
<1>3. \A d \in Calls : Coherent(d)'
  BY <1>1 DEF Coherent
<1>4. /\ PendingIsExact' /\ AcceptedHaveTask' /\ NoLostJob'
      /\ QueueIsSuffix' /\ ArrivalsDistinct' /\ BegunWereTaken' /\ WorkerBegun'
  BY <1>1 DEF PendingIsExact, AcceptedHaveTask, NoLostJob, QueueIsSuffix,
     ArrivalsDistinct, BegunWereTaken, WorkerBegun, Taken
<1>5. QED
  BY <1>2, <1>3, <1>4

LEMMA InvNext == Inv /\ [Next]_vars => Inv'
<1> SUFFICES ASSUME Inv, [Next]_vars PROVE Inv'
  OBVIOUS
<1>1. ASSUME NEW c \in Calls, CallStep(c) PROVE Inv'
  BY <1>1, CallKeeps, SubmitAcceptedKeeps, SubmitRefusedKeeps, SubmitResumesKeeps,
     ExpireKeeps, GiveUpKeeps, ReplyKeeps, ReplyTimeoutKeeps DEF CallStep
<1>2. CASE WakeWorker
  BY <1>2, WakeWorkerKeeps
<1>3. CASE FinishJob
  BY <1>3, FinishJobKeeps
<1>4. CASE WorkerDies \/ Stop
  BY <1>4, WorkerEndsKeeps
<1>5. CASE UNCHANGED vars
  BY <1>5 DEF vars, callVars, workVars, Inv, TypeOK, Coherent, PendingIsExact,
     NoLostJob, QueueIsSuffix, ArrivalsDistinct, BegunWereTaken,
     AcceptedHaveTask, WorkerBegun, Taken, Queued
<1>6. QED
  BY <1>1, <1>2, <1>3, <1>4, <1>5 DEF Next

(* The inductive invariant holds of every behaviour of the dispatcher.      *)
THEOREM Invariance == Spec => []Inv
<1>1. QED
  BY InvInit, InvNext, PTL DEF Spec

(* TypeOK holds of every reachable state, for every set of calls and every *)
(* queue capacity; in particular the queue never exceeds its capacity.     *)
THEOREM TypeCorrect == Spec => []TypeOK
<1>1. Inv => TypeOK
  BY DEF Inv
<1>2. QED
  BY <1>1, Invariance, PTL

(* PendingIsExact: dispatcher._pending never leaks a future and never      *)
(* forgets one that is awaited.                                            *)
THEOREM PendingExact == Spec => []PendingIsExact
<1>1. Inv => PendingIsExact
  BY DEF Inv
<1>2. QED
  BY <1>1, Invariance, PTL

(* NoLostJob: while the worker lives, an unresolved future has its job in  *)
(* the queue or in the executor.                                           *)
THEOREM NoJobLost == Spec => []NoLostJob
<1>1. Inv => NoLostJob
  BY DEF Inv
<1>2. QED
  BY <1>1, Invariance, PTL

(* Every job is accounted for: both of the above, for every number of      *)
(* calls and every capacity.                                               *)
THEOREM JobsAccounted == Spec => []JobsAreAccounted
<1>1. PendingIsExact /\ NoLostJob => JobsAreAccounted
  BY DEF JobsAreAccounted
<1>2. QED
  BY <1>1, PendingExact, NoJobLost, PTL

(* A queued job lies beyond the taken ones, so it has not been started.    *)
LEMMA QueuedBeyondTaken ==
    ASSUME Inv, NEW i \in 1..Len(arrivals), arrivals[i] \in Queued
    PROVE  i > Taken
<1>1. PICK m \in 1..Len(queue) : queue[m] = arrivals[i]
  BY DEF Queued
<1>2. Len(queue) \in Nat /\ Len(arrivals) \in Nat /\ Len(queue) <= Len(arrivals)
  BY DEF Inv, TypeOK, QueueIsSuffix
<1>3. Taken + m \in 1..Len(arrivals) /\ Taken + m > Taken
  BY <1>2 DEF Taken
<1>4. arrivals[Taken + m] = arrivals[i]
  BY <1>1 DEF Inv, QueueIsSuffix
<1>5. i = Taken + m
  BY <1>3, <1>4 DEF Inv, ArrivalsDistinct
<1>6. QED
  BY <1>3, <1>5

LEMMA QueuedNotBegun == ASSUME Inv, NEW c \in Queued PROVE c \notin begun
<1> SUFFICES ASSUME c \in begun PROVE FALSE
  OBVIOUS
<1>1. PICK i \in 1..Taken : arrivals[i] = c
  BY DEF Inv, BegunWereTaken
<1>2. i \in 1..Len(arrivals) /\ ~ (i > Taken)
  BY DEF Inv, TypeOK, QueueIsSuffix, Taken
<1>3. QED
  BY <1>1, <1>2, QueuedBeyondTaken

(* NoOvertaking: jobs are started in the order in which submit accepted    *)
(* them, skipped jobs notwithstanding.                                     *)
THEOREM FirstComeFirstServed == Spec => []NoOvertaking
<1>1. ASSUME Inv PROVE NoOvertaking
  <2> SUFFICES ASSUME NEW i \in 1..Len(arrivals), NEW j \in 1..Len(arrivals),
                      i < j, arrivals[j] \in begun, arrivals[i] \in Queued
               PROVE  FALSE
    BY DEF NoOvertaking
  <2>1. PICK k \in 1..Taken : arrivals[k] = arrivals[j]
    BY <1>1 DEF Inv, BegunWereTaken
  <2>2. k \in 1..Len(arrivals) /\ Taken \in Nat
    BY <1>1 DEF Inv, TypeOK, QueueIsSuffix, Taken
  <2>3. k = j
    BY <1>1, <2>1, <2>2 DEF Inv, ArrivalsDistinct
  <2>4. i > Taken
    BY <1>1, QueuedBeyondTaken
  <2>5. QED
    BY <2>2, <2>3, <2>4
<1>2. QED
  BY <1>1, Invariance, PTL
-----------------------------------------------------------------------------
LEMMA InitImplements == Init => Service!Init
BY DEF Init, Service!Init, Phase, Service!NoReply, Answer

(* A call with a live job in the queue may be started as far as the        *)
(* service is concerned.                                                   *)
LEMMA LiveStartable ==
    ASSUME Inv, TakeNext
    PROVE  Service!StartSome
<1>1. CASE worker' = NoCall /\ begun' = begun
  BY <1>1 DEF Service!StartSome
<1>2. CASE /\ worker' \in Live
           /\ begun' = begun \cup {worker'}
           /\ Len(queue') < Len(queue)
           /\ worker' = queue[Len(queue) - Len(queue')]
  <2>1. worker' \in Queued
    <3>1. Len(queue) \in Nat /\ Len(queue') \in Nat
      BY TakeNextEffect DEF Inv, TypeOK
    <3>2. Len(queue) - Len(queue') \in 1..Len(queue)
      BY <1>2, <3>1
    <3>3. QED
      BY <1>2, <3>2 DEF Queued
  <2>2. worker' \notin begun
    BY <2>1, QueuedNotBegun
  <2>3. worker' \in Calls /\ api[worker'] \in {"waiting", "expired"}
    BY <1>2 DEF Inv, Live, TypeOK, ApiStates, Coherent, TaskOver
  <2>4. worker' \in Service!Startable
    BY <2>2, <2>3 DEF Service!Startable, Phase
  <2>5. QED
    BY <1>2, <2>4 DEF Service!StartSome
<1>3. QED
  BY <1>1, <1>2, TakeNextEffect DEF Inv

LEMMA CallStepImplements ==
    ASSUME NEW c \in Calls, Inv, Inv', CallStep(c)
    PROVE  Service!Next \/ UNCHANGED Service!vars
<1> USE DEF Inv
<1>1. CASE Call(c)
  <2>1. Service!Open(c)
    BY <1>1 DEF Call, workVars, Service!Open, Phase, TypeOK
  <2>2. QED
    BY <2>1 DEF Service!Next
<1>2. CASE SubmitAccepted(c) \/ SubmitRefused(c) \/ SubmitResumes(c)
  <2>1. UNCHANGED <<api, worker, begun, finished, answer>>
    BY <1>2 DEF SubmitAccepted, SubmitRefused, SubmitResumes, workVars
  <2>2. QED
    BY <2>1 DEF Service!vars, Phase
<1>3. CASE Expire(c)
  <2>1. UNCHANGED Service!vars
    BY <1>3 DEF Expire, workVars, Service!vars, Phase, TypeOK
  <2>2. QED
    BY <2>1
<1>4. CASE GiveUp(c)
  <2>1. Service!Leave(c)
    BY <1>4 DEF GiveUp, workVars, Service!Leave, Phase, TypeOK
  <2>2. QED
    BY <2>1 DEF Service!Next
<1>5. CASE Reply(c)
  <2>1. Phase[c] = "open" /\ Phase' = [Phase EXCEPT ![c] = "closed"]
    BY <1>5 DEF Reply, Phase, TypeOK
  <2>2. CASE task[c] \in {"returned", "failed"}
    <3>1. future[c].of = c /\ c \in finished
      BY <2>2 DEF Coherent
    <3>2. Service!AnswerOutcome(c)
      BY <1>5, <2>1, <2>2, <3>1 DEF Reply, workVars, Service!AnswerOutcome,
         Service!Close, Answer
    <3>3. QED
      BY <3>2 DEF Service!Next
  <2>3. CASE task[c] = "refused"
    <3>1. c \notin begun
      <4>1. \A i \in 1..Taken : i \in 1..Len(arrivals)
        BY DEF TypeOK, QueueIsSuffix, Taken
      <4>2. QED
        BY <2>3, <4>1 DEF BegunWereTaken, AcceptedHaveTask
    <3>2. Service!AnswerBusy(c)
      BY <1>5, <2>1, <2>3, <3>1 DEF Reply, workVars, Service!AnswerBusy,
         Service!Close, Answer
    <3>3. QED
      BY <3>2 DEF Service!Next
  <2>4. QED
    BY <1>5, <2>2, <2>3 DEF Reply
<1>6. CASE ReplyTimeout(c)
  <2>1. Phase[c] = "leaving" /\ Phase' = [Phase EXCEPT ![c] = "closed"]
    BY <1>6 DEF ReplyTimeout, Phase, TypeOK
  <2>2. Service!AnswerTimeout(c)
    BY <1>6, <2>1 DEF ReplyTimeout, workVars, Service!AnswerTimeout,
       Service!Close, Answer
  <2>3. QED
    BY <2>2 DEF Service!Next
<1>7. QED
  BY <1>1, <1>2, <1>3, <1>4, <1>5, <1>6 DEF CallStep

LEMMA WorkerStepImplements ==
    ASSUME Inv, WakeWorker \/ FinishJob \/ WorkerDies \/ Stop
    PROVE  Service!Next
<1>1. Phase' = Phase /\ answer' = answer
  BY DEF WakeWorker, FinishJob, WorkerDies, Stop, callVars, Phase
<1>2. CASE WakeWorker
  <2>1. Service!Start
    BY <1>1, <1>2, LiveStartable DEF WakeWorker, Service!Start
  <2>2. QED
    BY <2>1 DEF Service!Next
<1>3. CASE FinishJob
  <2>1. Service!Finish
    BY <1>1, <1>3, LiveStartable DEF FinishJob, Service!Finish
  <2>2. QED
    BY <2>1 DEF Service!Next
<1>4. CASE WorkerDies \/ Stop
  <2>1. Service!Cut
    BY <1>1, <1>4 DEF WorkerDies, Stop, Service!Cut
  <2>2. QED
    BY <2>1 DEF Service!Next
<1>5. QED
  BY <1>2, <1>3, <1>4

(* ImplementsCallService: every behaviour of the dispatcher is one that    *)
(* CallService allows, under the mapping that reads a handler's progress   *)
(* as the caller's phase and the worker's job as the running one.          *)
THEOREM Refinement == Spec => ImplementsCallService
<1>1. Inv /\ Inv' /\ [Next]_vars => [Service!Next]_(Service!vars)
  <2> SUFFICES ASSUME Inv, Inv', [Next]_vars
               PROVE  Service!Next \/ UNCHANGED Service!vars
    OBVIOUS
  <2>1. CASE UNCHANGED vars
    BY <2>1 DEF vars, callVars, workVars, Service!vars, Phase
  <2>2. ASSUME NEW c \in Calls, CallStep(c)
        PROVE  Service!Next \/ UNCHANGED Service!vars
    BY <2>2, CallStepImplements
  <2>3. CASE WakeWorker \/ FinishJob \/ WorkerDies \/ Stop
    BY <2>3, WorkerStepImplements
  <2>4. QED
    BY <2>1, <2>2, <2>3 DEF Next
<1>2. QED
  BY <1>1, InitImplements, Invariance, PTL
     DEF Spec, ImplementsCallService, Service!Spec
=============================================================================
