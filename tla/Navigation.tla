----------------------------- MODULE Navigation ------------------------------
(***************************************************************************)
(* NashDomClient opens a page: _navigate with its retries, the classifying *)
(* of what the driver raises, and the check of the page that was opened.   *)
(*                                                                         *)
(* The browser may die at any time.  What the driver raises then, and what *)
(* it raises when the page or the network is at fault, is Selenium's and   *)
(* urllib3's (external).                                                   *)
(***************************************************************************)
EXTENDS Naturals

CONSTANT MaxAttempts  \* navigation_max_attempts

ASSUME MaxAttemptsAssumption == MaxAttempts \in Nat \ {0}

VARIABLES
    operation,  \* a page of its own, or any NashDom page as context of fetches
    browser,    \* alive or gone
    tab,        \* what it shows
    command,    \* the one that comes next
    attempt,
    lost,       \* has a command met a browser that was gone?
    outcome     \* running, ok or the error raised

visitVars == <<operation, browser, tab, command, attempt, lost, outcome>>

Pages == {"nashdom", "server_error", "challenge"}

VisitInit ==
    /\ operation \in {"context", "page"}
    /\ browser = "alive"
    /\ tab \in {"elsewhere", "nashdom"}
    /\ command = IF operation = "context" THEN "current_url" ELSE "get"
    /\ attempt = 1
    /\ lost = FALSE
    /\ outcome = "running"
-----------------------------------------------------------------------------
(* What the driver raises (external).  The marks are what the code looks   *)
(* for in the message: net::ERR_INTERNET_DISCONNECTED has the word         *)
(* disconnected in it, and so has the message of a dead browser.           *)

WebDriver(marks) == [class |-> "WebDriver", cause |-> "none", marks |-> marks]
Raised(class) == [class |-> class, cause |-> "none", marks |-> {}]

OfLiveBrowser ==
    {Raised("Timeout"), WebDriver({})}
        \cup {WebDriver({"net_err"} \cup marks) : marks \in SUBSET {"dead", "timed_out"}}
        \cup {WebDriver({"timed_out"})}

(* A POST that is cut off raises ProtocolError as it is: it is not sent    *)
(* again.  A GET is, and then finds the port closed.                       *)
OfGoneBrowser ==
    {Raised("InvalidSessionId"), Raised("ReadTimeout"), Raised("NewConnection"),
     WebDriver({"dead"}), WebDriver({"dead", "timed_out"}), Raised("Protocol")}
        \cup [class : {"MaxRetry"}, cause : {"NewConnection", "ReadTimeout", "Protocol"},
              marks : {{}}]

Exceptions == OfLiveBrowser \cup OfGoneBrowser

Posts == {"get", "stop"}

Raises(e) ==
    /\ e \in IF browser = "alive" THEN OfLiveBrowser ELSE OfGoneBrowser
    /\ e.class = "Protocol" => command \in Posts
-----------------------------------------------------------------------------
(* _raise_if_session_unavailable.  The driver is on localhost.             *)

HttpErrors == {"ReadTimeout", "NewConnection", "MaxRetry", "Protocol"}

SessionUnavailable(e) ==
    \/ e.class \in {"ReadTimeout", "NewConnection", "InvalidSessionId"}
    \/ e.class = "MaxRetry" /\ e.cause \in {"NewConnection", "ReadTimeout", "Protocol"}
    \/ e.class = "WebDriver" /\ "net_err" \notin e.marks /\ "dead" \in e.marks

Passes(e) == ~SessionUnavailable(e) /\ e.class \notin HttpErrors

Raise(error) == outcome' = error /\ UNCHANGED <<command, attempt>>

RaiseClassified(e) == Raise(IF SessionUnavailable(e) THEN "session" ELSE "http")

(* Every command but driver.get and window.stop.                           *)
CommandFails(e) ==
    /\ Raises(e)
    /\ lost' = (browser = "gone")
    /\ IF Passes(e) THEN Raise("client") ELSE RaiseClassified(e)
    /\ UNCHANGED <<operation, browser, tab>>

Running == outcome = "running"
-----------------------------------------------------------------------------
(* _ensure_nashdom_context: a page of NashDom is left as it is.            *)

ReadUrl ==
    /\ Running /\ command = "current_url" /\ browser = "alive"
    /\ IF tab = "elsewhere" THEN command' = "get" /\ UNCHANGED outcome
                            ELSE outcome' = "ok" /\ UNCHANGED command
    /\ UNCHANGED <<operation, browser, tab, attempt, lost>>

ReadUrlFails == Running /\ command = "current_url" /\ \E e \in Exceptions : CommandFails(e)

(* driver.get.                                                             *)
Get ==
    /\ Running /\ command = "get" /\ browser = "alive"
    /\ tab' \in Pages
    /\ command' = "check"
    /\ UNCHANGED <<operation, browser, attempt, lost, outcome>>

Transient(e) == e.class = "Timeout" \/ e.marks \cap {"timed_out", "net_err"} # {}

GetFails ==
    /\ Running /\ command = "get"
    /\ \E e \in Exceptions :
          /\ Raises(e)
          /\ lost' = (browser = "gone")
          /\ CASE ~Passes(e) -> RaiseClassified(e)
               [] Passes(e) /\ ~Transient(e) -> Raise("client")
               [] Passes(e) /\ Transient(e) -> command' = "stop" /\ UNCHANGED <<attempt, outcome>>
    /\ UNCHANGED <<operation, browser, tab>>

RetryOrGiveUpUncounted ==
    IF attempt = MaxAttempts
    THEN Raise("unavailable")
    ELSE command' = "get" /\ UNCHANGED <<attempt, outcome>>

(* The pause between two attempts is part of this step.                    *)
RetryOrGiveUp ==
    IF attempt = MaxAttempts
    THEN Raise("unavailable")
    ELSE command' = "get" /\ attempt' = attempt + 1 /\ UNCHANGED outcome

Stop ==
    /\ Running /\ command = "stop" /\ browser = "alive"
    /\ RetryOrGiveUp
    /\ UNCHANGED <<operation, browser, tab, lost>>

StopFailsQuietly ==
    /\ Running /\ command = "stop"
    /\ \E e \in Exceptions : Raises(e)
    /\ lost' = (browser = "gone")
    /\ RetryOrGiveUp
    /\ UNCHANGED <<operation, browser, tab>>

(* window.stop is an effort: only a lost session counts.                   *)
StopFails ==
    /\ Running /\ command = "stop"
    /\ \E e \in Exceptions :
          /\ Raises(e)
          /\ lost' = (browser = "gone")
          /\ IF Passes(e) THEN RetryOrGiveUp ELSE RaiseClassified(e)
    /\ UNCHANGED <<operation, browser, tab>>

(* _raise_if_unavailable_page and _raise_if_unavailable_developer_page.    *)
Check ==
    /\ Running /\ command = "check" /\ browser = "alive"
    /\ outcome' = IF tab = "nashdom" THEN "ok" ELSE "unavailable"
    /\ UNCHANGED <<operation, browser, tab, command, attempt, lost>>

CheckFails == Running /\ command = "check" /\ \E e \in Exceptions : CommandFails(e)

(* The browser or its driver dies.                                         *)
Die ==
    /\ Running /\ browser = "alive"
    /\ browser' = "gone"
    /\ UNCHANGED <<operation, tab, command, attempt, lost, outcome>>

Commands == ReadUrl \/ ReadUrlFails \/ Get \/ GetFails \/ Stop \/ StopFails \/ Check \/ CheckFails

VisitNext == Commands \/ Die

VisitSpec == VisitInit /\ [][VisitNext]_visitVars

(* Every command returns or fails: page loads, scripts and the requests to *)
(* the driver have their timeouts.                                         *)
FairVisitSpec == VisitSpec /\ WF_visitVars(Commands)
-----------------------------------------------------------------------------
Errors == {"session", "http", "client", "unavailable"}

VisitTypeOK ==
    /\ operation \in {"context", "page"}
    /\ browser \in {"alive", "gone"}
    /\ tab \in Pages \cup {"elsewhere"}
    /\ command \in {"current_url", "get", "stop", "check"}
    /\ attempt \in 1..MaxAttempts
    /\ lost \in BOOLEAN
    /\ outcome \in Errors \cup {"running", "ok"}

(* A trouble of the network or of the site, whatever its message says,     *)
(* never costs another browser session: only a browser that is gone does.  *)
(* And the client does no more with a browser it has found gone, not even  *)
(* after a failed navigation, where other errors are passed over.          *)
LossIsTold ==
    /\ outcome = "session" => browser = "gone"
    /\ lost => outcome \in {"session", "http"}

(* What is read next is read from a page of NashDom, neither a challenge,  *)
(* nor an error page, nor the page of the visit before.                    *)
OkIsUsable == outcome = "ok" => tab = "nashdom"

(* How a visit ends can be relied on by the calls that go on from there.   *)
VisitIsSound == VisitTypeOK /\ LossIsTold /\ OkIsUsable

(* Every visit comes to an end, however often navigation fails.            *)
VisitEnds == <>(outcome # "running")
=============================================================================
