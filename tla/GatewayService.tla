--------------------------- MODULE GatewayService ---------------------------
(***************************************************************************)
(* What a client of the Gateway may rely on when it writes to Bitrix24,    *)
(* without saying how: how often the request of a call is carried out, and *)
(* what the answer to the call tells about that.                           *)
(***************************************************************************)
EXTENDS Naturals

CONSTANT Calls  \* the HTTP requests

VARIABLES
    once,     \* the calls that must not be repeated (RetryPolicy.NEVER)
    state,    \* per call: "idle", "open", "closed"
    acts,     \* per call: how often Bitrix24 has carried its request out
    verdict,  \* per call: what became of its job; "none" while it may go on
    code      \* per call: the HTTP answer

vars == <<once, state, acts, verdict, code>>

Verdicts == {"SUCCESS", "FAILED", "UNKNOWN", "raised"}

Init ==
    /\ once \subseteq Calls
    /\ state = [c \in Calls |-> "idle"]
    /\ acts = [c \in Calls |-> 0]
    /\ verdict = [c \in Calls |-> "none"]
    /\ code = [c \in Calls |-> "none"]

Open(c) ==
    /\ state[c] = "idle"
    /\ state' = [state EXCEPT ![c] = "open"]
    /\ UNCHANGED <<once, acts, verdict, code>>

(* The job of a call may go on behind a timeout, but not behind any other  *)
(* answer.                                                                 *)
MayAct(c) ==
    /\ state[c] # "idle"
    /\ verdict[c] = "none"
    /\ code[c] \in {"none", "504"}

(* An attempt after which there will be another one.                       *)
Try(c) ==
    /\ MayAct(c)
    /\ c \notin once
    /\ acts' = [acts EXCEPT ![c] = @ + 1]
    /\ UNCHANGED <<once, state, verdict, code>>

(* The job ends, with an attempt that Bitrix24 carries out or not.  Of a   *)
(* call that must not be repeated this is the only attempt, and its        *)
(* verdict is the truth.                                                   *)
Conclude(c, v) ==
    /\ MayAct(c)
    /\ verdict' = [verdict EXCEPT ![c] = v]
    /\ \/ /\ v # "SUCCESS"
          /\ acts' = acts
       \/ /\ ~(c \in once /\ v = "FAILED")
          /\ acts' = [acts EXCEPT ![c] = @ + 1]
    /\ v = "UNKNOWN" => c \in once
    /\ UNCHANGED <<once, state, code>>

Close(c, status) ==
    /\ state[c] = "open"
    /\ state' = [state EXCEPT ![c] = "closed"]
    /\ code' = [code EXCEPT ![c] = status]
    /\ UNCHANGED <<once, acts, verdict>>

AnswerResult(c) == verdict[c] \in {"SUCCESS", "FAILED", "UNKNOWN"} /\ Close(c, "200")
AnswerError(c) == verdict[c] = "raised" /\ Close(c, "500")
AnswerBusy(c) == verdict[c] = "none" /\ acts[c] = 0 /\ Close(c, "503")
AnswerTimeout(c) == Close(c, "504")

Next ==
    \E c \in Calls :
       \/ Open(c)
       \/ Try(c)
       \/ \E v \in Verdicts : Conclude(c, v)
       \/ AnswerResult(c)
       \/ AnswerError(c)
       \/ AnswerBusy(c)
       \/ AnswerTimeout(c)

Spec == Init /\ [][Next]_vars
=============================================================================
