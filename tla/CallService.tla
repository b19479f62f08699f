---------------------------- MODULE CallService ----------------------------
(***************************************************************************)
(* What the Gateway's HTTP interface promises about one "call" request,    *)
(* without saying how: at most one job runs at a time, a job runs at most  *)
(* once and only for a caller that is still being served, a caller gets a  *)
(* result only after its own job has finished, and a caller refused with   *)
(* 503 never has its job run.                                              *)
(***************************************************************************)
CONSTANTS
    Calls,    \* the HTTP requests; each of them asks for one job
    NoCall    \* "no job"

VARIABLES
    phase,    \* per call: "idle", "open", "leaving" (timed out), "closed"
    running,  \* the call whose job is being executed, or NoCall
    begun,    \* the calls whose job was started
    finished, \* the calls whose job ran to its end
    reply     \* per call: the answer sent and whose outcome it carries

vars == <<phase, running, begun, finished, reply>>

NoReply == [code |-> "none", of |-> NoCall]

Init ==
    /\ phase = [c \in Calls |-> "idle"]
    /\ running = NoCall
    /\ begun = {}
    /\ finished = {}
    /\ reply = [c \in Calls |-> NoReply]

Open(c) ==
    /\ phase[c] = "idle"
    /\ phase' = [phase EXCEPT ![c] = "open"]
    /\ UNCHANGED <<running, begun, finished, reply>>

(* The jobs that may be started now: the caller is being served and the    *)
(* job has not been started before.                                        *)
Startable == {c \in Calls : phase[c] = "open" /\ c \notin begun}

StartSome ==
    \/ /\ running' = NoCall
       /\ begun' = begun
    \/ \E c \in Startable :
          /\ running' = c
          /\ begun' = begun \cup {c}

Start ==
    /\ running = NoCall
    /\ StartSome
    /\ UNCHANGED <<phase, finished, reply>>

Finish ==
    /\ running # NoCall
    /\ finished' = finished \cup {running}
    /\ StartSome
    /\ UNCHANGED <<phase, reply>>

(* The job is cut short: nobody will ever get its outcome.                 *)
Cut ==
    /\ running' = NoCall
    /\ UNCHANGED <<phase, begun, finished, reply>>

Leave(c) ==
    /\ phase[c] = "open"
    /\ phase' = [phase EXCEPT ![c] = "leaving"]
    /\ UNCHANGED <<running, begun, finished, reply>>

Close(c, code, of) ==
    /\ phase' = [phase EXCEPT ![c] = "closed"]
    /\ reply' = [reply EXCEPT ![c] = [code |-> code, of |-> of]]
    /\ UNCHANGED <<running, begun, finished>>

AnswerOutcome(c) ==
    /\ phase[c] = "open"
    /\ c \in finished
    /\ \E code \in {"200", "500"} : Close(c, code, c)

AnswerBusy(c) ==
    /\ phase[c] = "open"
    /\ c \notin begun
    /\ Close(c, "503", NoCall)

AnswerTimeout(c) ==
    /\ phase[c] = "leaving"
    /\ Close(c, "504", NoCall)

Next ==
    \/ Start
    \/ Finish
    \/ Cut
    \/ \E c \in Calls :
          \/ Open(c)
          \/ Leave(c)
          \/ AnswerOutcome(c)
          \/ AnswerBusy(c)
          \/ AnswerTimeout(c)

Spec == Init /\ [][Next]_vars
=============================================================================
