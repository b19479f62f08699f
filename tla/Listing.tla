------------------------------- MODULE Listing -------------------------------
(***************************************************************************)
(* ClientBitrixCRM._call_all_pages: it gathers the records of one type     *)
(* page by page, each page from the number the one before it gave as next, *)
(* while others create and delete records.                                 *)
(***************************************************************************)
EXTENDS Lists, FiniteSets

CONSTANTS
    PageSize,  \* records Bitrix24 puts on a page
    Initial,   \* the records there may be when the listing begins
    MaxRecord  \* bound: the records there ever are are 1..MaxRecord

ASSUME PageAssumption ==
    /\ PageSize \in Nat \ {0}
    /\ MaxRecord \in Nat
    /\ \A list \in Initial :
          /\ list \in Seq(Nat) /\ Len(list) <= MaxRecord
          /\ \A i \in DOMAIN list : list[i] = i

VARIABLES
    present,  \* the records of the CRM, in the order it lists them
    created,  \* how many there ever were
    old,      \* the records there were when the listing began
    gone,     \* those deleted since the listing began
    start,    \* of the page asked for
    records,  \* received
    orderly,  \* has every answer named the next page as Bitrix24 documents it?
    state

vars == <<present, created, old, gone, start, records, orderly, state>>

Init ==
    /\ present \in Initial
    /\ created = Len(present)
    /\ old = 1..created
    /\ gone = {}
    /\ start = 0
    /\ records = <<>>
    /\ orderly = TRUE
    /\ state = "paging"
-----------------------------------------------------------------------------
(* Bitrix24 (external): records are listed in the order of their ids, so a *)
(* new one comes last.                                                     *)

Create ==
    /\ created < MaxRecord
    /\ created' = created + 1
    /\ present' = Append(present, created + 1)
    /\ UNCHANGED <<old, gone, start, records, orderly, state>>

Delete ==
    /\ \E i \in DOMAIN present :
          /\ present' = Without(present, i)
          /\ gone' = gone \cup {present[i]}
    /\ UNCHANGED <<created, old, start, records, orderly, state>>

(* Are there records behind this page?                                     *)
MoreToCome == start + PageSize < Len(present)

Page ==
    SubSeq(present, start + 1, IF MoreToCome THEN start + PageSize ELSE Len(present))
-----------------------------------------------------------------------------
ReceiveAndDropFirst ==
    /\ state = "paging"
    /\ records' = Page
    /\ \E next \in start + 1..MaxRecord :
          /\ start' = next
          /\ orderly' = (orderly /\ MoreToCome /\ next = start + PageSize)
    /\ UNCHANGED <<present, created, old, gone, state>>

(* A page that names a next one.  Any number beyond start is followed, be  *)
(* it before or behind the end of this page.  MaxRecord stands for all     *)
(* numbers behind the last record there ever is: the pages there are       *)
(* empty, and going on from one to a later one changes nothing.            *)
Receive ==
    /\ state = "paging"
    /\ records' = records \o Page
    /\ \E next \in start + 1..MaxRecord :
          /\ start' = next
          /\ orderly' = (orderly /\ MoreToCome /\ next = start + PageSize)
    /\ UNCHANGED <<present, created, old, gone, state>>

(* A page without a next is the last.                                      *)
ReceiveLast ==
    /\ state = "paging"
    /\ records' = records \o Page
    /\ state' = "done"
    /\ orderly' = (orderly /\ ~MoreToCome)
    /\ UNCHANGED <<present, created, old, gone, start>>

ReceiveBadNextRestarting ==
    /\ state = "paging"
    /\ start' = 0
    /\ records' = <<>>
    /\ UNCHANGED <<present, created, old, gone, orderly, state>>

(* A page whose next is no number beyond start: BitrixGatewayError.        *)
ReceiveBadNext ==
    /\ state = "paging"
    /\ state' = "raised"
    /\ UNCHANGED <<present, created, old, gone, start, records, orderly>>

(* The Gateway fails, answers FAILED or UNKNOWN, or sends no list.         *)
CallFails ==
    /\ state = "paging"
    /\ state' = "raised"
    /\ UNCHANGED <<present, created, old, gone, start, records, orderly>>

Answered == Receive \/ ReceiveLast \/ ReceiveBadNext \/ CallFails

Next == Create \/ Delete \/ Answered

Spec == Init /\ [][Next]_vars

(* Each call to the Gateway returns or times out.  Behind the last record  *)
(* every answer may be an empty page that names a larger next, so nothing  *)
(* is assumed to change there.                                             *)
FairSpec == Spec /\ WF_vars(start < MaxRecord /\ Answered)
-----------------------------------------------------------------------------
Received == Entries(records)

TypeOK ==
    /\ present \in Seq(1..created)
    /\ created \in 0..MaxRecord
    /\ gone \subseteq 1..created
    /\ start \in Nat
    /\ records \in Seq(1..created)
    /\ orderly \in BOOLEAN
    /\ state \in {"paging", "done", "raised"}

(* No record is received twice: a listing makes no duplicates of its own,  *)
(* which would turn the context away.                                      *)
NoneTwice == \A i, j \in DOMAIN records : i < j => records[i] < records[j]

(* A listing misses no more of the records that were there all the time    *)
(* than were deleted meanwhile: none if none was.                          *)
MissesNoMoreThanDeleted ==
    state = "done" =>
        Cardinality(old \ (gone \cup Received)) <= Cardinality(gone)

(* What a listing returns, as long as Bitrix24 names the next page as it   *)
(* documents: _call_all_pages relies on that and cannot tell.              *)
ListingIsSound == orderly => NoneTwice /\ MissesNoMoreThanDeleted

(* Every listing comes to an end, whatever next the pages name and however *)
(* the records change, unless it is sent behind the last record: the loop  *)
(* has no bound, and follows ever larger numbers for as long as it is told *)
(* to.  The records there ever are are bounded by MaxRecord: were others   *)
(* to create them faster than they are listed, it would not end either.    *)
ListingEnds == <>(state # "paging" \/ start = MaxRecord)
=============================================================================
