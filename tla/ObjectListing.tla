---------------------------- MODULE ObjectListing ----------------------------
(***************************************************************************)
(* NashDomClient.get_objects and the validation of what it returns: for    *)
(* each region the objects of its page or, if they are too few and there   *)
(* is more, those of the API, batch by batch, while objects are published  *)
(* and taken off.                                                          *)
(*                                                                         *)
(* Opening a page is one step here (see Navigation), and so are finding    *)
(* and clicking the button with the wait for its request.                  *)
(***************************************************************************)
EXTENDS SourceData, FiniteSets

CONSTANTS
    RegionCount,      \* the regions of the settings are 1..RegionCount
    Target,           \* objects_to_parse_count
    BatchSize,        \* _API_BATCH_SIZE
    PageSizes,        \* how many objects the site may put on the page of a region
    InitialListings,  \* the listings there may be at first
    KnownObjects,     \* their objects are among 1..KnownObjects
    MaxObject         \* bound: the objects there ever are are 1..MaxObject

ASSUME SizesAssumption ==
    /\ RegionCount \in Nat \ {0} /\ Target \in Nat \ {0}
    /\ BatchSize \in Nat \ {0} /\ PageSizes \subseteq Nat \ {0}

(* The site lists newer objects first; an object's number is when it was   *)
(* published.                                                              *)
NewestFirst(list) == \A i, j \in DOMAIN list : i < j => list[i].id > list[j].id

ASSUME ListingsAssumption ==
    /\ KnownObjects \in Nat /\ MaxObject \in Nat /\ KnownObjects <= MaxObject
    /\ \A lists \in InitialListings :
          /\ lists \in [1..RegionCount -> Seq([id : 1..KnownObjects, region : Nat])]
          /\ \A r \in 1..RegionCount : NewestFirst(lists[r])

VARIABLES
    listing,  \* of each region, [id, region] of its objects, the newest first
    published,  \* how many objects there ever were
    stuck,    \* does the API answer every offset as if it were the first?
    region,   \* the one under way
    pc,       \* what comes next
    page,     \* the objects of the page that is open
    objects,  \* collected for this region
    total,    \* api_total of this region
    offset,
    result,   \* the objects of the regions before
    wanted,   \* what the listing began with when it was first read
    newest,   \* the last object created before that
    removed,  \* from this region's listing since then
    hidden    \* was there a button that could not be used?

site == <<listing, published, stuck>>
ghosts == <<wanted, newest, removed, hidden>>
objectsVars == <<site, region, pc, page, objects, total, offset, result, ghosts>>

Regions == 1..RegionCount
Unknown == MaxObject + 1  \* None of api_total

Least(a, b) == IF a < b THEN a ELSE b
First(list, n) == SubSeq(list, 1, Least(n, Len(list)))

ObjectsInit ==
    /\ listing \in InitialListings
    /\ published = KnownObjects
    /\ stuck \in BOOLEAN
    /\ region = 1
    /\ pc = "open"
    /\ page = <<>> /\ objects = <<>> /\ result = <<>>
    /\ total = Unknown
    /\ offset = 0
    /\ wanted = <<>> /\ newest = 0 /\ removed = {} /\ hidden = FALSE

(* The regions whose listings are still read.                              *)
Ahead == {r \in Regions : r >= region /\ pc \in {"open", "page", "fetch"}}

Over == pc \in {"ok", "raised", "rejected"}
-----------------------------------------------------------------------------
(* The site (external).  What happens to a listing no longer read is left  *)
(* out.                                                                    *)

Publish ==
    /\ published < MaxObject
    /\ published' = published + 1
    /\ \E r \in Ahead :
          listing' = [listing EXCEPT ![r] =
                        <<[id |-> published + 1, region |-> r]>> \o listing[r]]
    /\ UNCHANGED <<stuck, region, pc, page, objects, total, offset, result, ghosts>>

Remove ==
    /\ \E r \in Ahead : \E i \in DOMAIN listing[r] :
          /\ listing' = [listing EXCEPT ![r] = Without(@, i)]
          /\ removed' = IF r = region /\ pc # "open"
                        THEN removed \cup {listing[r][i].id} ELSE removed
    /\ UNCHANGED <<published, stuck, region, pc, page, objects, total, offset, result,
                   wanted, newest, hidden>>

Current == listing[region]

FirstRead ==
    /\ wanted' = First(Current, Target)
    /\ newest' = published
    /\ removed' = {}
-----------------------------------------------------------------------------
(* _get_region_objects.                                                    *)

OpenRegion ==
    /\ pc = "open"
    /\ \E size \in PageSizes : page' = First(Current, size)
    /\ pc' = "page"
    /\ FirstRead
    /\ hidden' = FALSE
    /\ UNCHANGED <<site, region, objects, total, offset, result>>

TakePage ==
    /\ pc = "page"
    /\ Len(page) >= Target
    /\ objects' = First(page, Target)
    /\ pc' = "collected"
    /\ UNCHANGED <<site, region, page, total, offset, result, ghosts>>

(* No button: the page is all there is, or the button was not to be used.  *)
TakeShortPage ==
    /\ pc = "page"
    /\ Len(page) < Target
    /\ objects' = page
    /\ pc' = "collected"
    /\ hidden' = (Len(page) < Len(wanted))
    /\ UNCHANGED <<site, region, page, total, offset, result, wanted, newest, removed>>

(* There may be a button although the page holds everything: objects may   *)
(* have gone meanwhile.                                                    *)
ClickLoadMore ==
    /\ pc = "page"
    /\ Len(page) < Target
    /\ pc' = "fetch"
    /\ UNCHANGED <<site, region, page, objects, total, offset, result, ghosts>>
-----------------------------------------------------------------------------
(* _collect_api_objects.                                                   *)

ApiTotal == IF total = Unknown THEN Len(Current) ELSE total

Effective == Least(Target, ApiTotal)

(* The batch the API answers with: it may be shorter than asked for, and a *)
(* server need not heed the limit.                                         *)
Batches ==
    LET from == IF stuck THEN 0 ELSE offset
    IN  {SubSeq(Current, from + 1, Least(from + n, Len(Current))) : n \in 1..BatchSize}

HasNew(batch) == IdsOf(batch) \ IdsOf(objects) # {}

TakeBatchFromPage(batch) ==
    /\ HasNew(batch)
    /\ objects' = objects \o First(batch, Effective - Len(objects))
    /\ offset' = offset + BatchSize
    /\ pc' = IF Len(objects') = Effective THEN "collected" ELSE "fetch"

TakeBatch(batch) ==
    /\ HasNew(batch)
    /\ objects' = objects \o First(batch, Effective - Len(objects))
    /\ offset' = offset + Len(batch)
    /\ pc' = IF Len(objects') = Effective THEN "collected" ELSE "fetch"

KeepTotal ==
    /\ total' = ApiTotal
    /\ IF total = Unknown THEN FirstRead ELSE UNCHANGED <<wanted, newest, removed>>

ReceiveBatch ==
    /\ pc = "fetch"
    /\ KeepTotal
    /\ ApiTotal # 0
    /\ \E batch \in Batches : batch # <<>> /\ TakeBatch(batch)
    /\ UNCHANGED <<site, region, page, result, hidden>>

ReceiveTotalZero ==
    /\ pc = "fetch"
    /\ KeepTotal
    /\ ApiTotal = 0
    /\ pc' = "collected"
    /\ UNCHANGED <<site, region, page, objects, offset, result, hidden>>

ReceiveNothingNewAskingAgain ==
    /\ pc = "fetch"
    /\ KeepTotal
    /\ ApiTotal # 0
    /\ \E batch \in Batches : ~HasNew(batch)
    /\ UNCHANGED <<site, region, pc, page, objects, offset, result, hidden>>

(* Before the total is reached.                                            *)
ReceiveNothingNew ==
    /\ pc = "fetch"
    /\ KeepTotal
    /\ ApiTotal # 0
    /\ \E batch \in Batches : ~HasNew(batch)
    /\ pc' = "raised"
    /\ UNCHANGED <<site, region, page, objects, offset, result, hidden>>

(* The page, the button, the request or an answer is not as expected, the  *)
(* site is not available, the browser is gone, an object not normalised.   *)
Fail ==
    /\ pc \in {"open", "page", "fetch", "collected"}
    /\ pc' = "raised"
    /\ UNCHANGED <<site, region, page, objects, total, offset, result, ghosts>>
-----------------------------------------------------------------------------
(* get_objects: the next region.                                           *)
NextRegion ==
    /\ pc = "collected"
    /\ result' = result \o objects
    /\ pc' = IF region = RegionCount THEN "validate" ELSE "open"
    /\ region' = Least(region + 1, RegionCount)
    /\ page' = <<>> /\ objects' = <<>>
    /\ total' = Unknown
    /\ offset' = 0
    /\ wanted' = <<>> /\ newest' = 0 /\ removed' = {} /\ hidden' = FALSE
    /\ UNCHANGED site

(* SourceDataValidator.validate_objects.                                   *)
Validate ==
    /\ pc = "validate"
    /\ pc' = IF ObjectsValid(result, Regions) THEN "ok" ELSE "rejected"
    /\ UNCHANGED <<site, region, page, objects, total, offset, result, ghosts>>

ObjectsAnswered ==
    \/ OpenRegion \/ TakePage \/ TakeShortPage \/ ClickLoadMore
    \/ ReceiveBatch \/ ReceiveTotalZero \/ ReceiveNothingNew
    \/ NextRegion \/ Validate

ObjectsNext == ObjectsAnswered \/ Fail \/ Publish \/ Remove

ObjectsSpec == ObjectsInit /\ [][ObjectsNext]_objectsVars

(* The browser answers every command, or fails in time.                    *)
FairObjectsSpec == ObjectsSpec /\ WF_objectsVars(ObjectsAnswered)
-----------------------------------------------------------------------------
Objects == [id : 1..published, region : Nat]

ObjectsTypeOK ==
    /\ listing \in [Regions -> Seq(Objects)]
    /\ published \in 0..MaxObject
    /\ stuck \in BOOLEAN
    /\ region \in Regions
    /\ pc \in {"open", "page", "fetch", "collected", "validate", "ok", "raised", "rejected"}
    /\ page \in Seq(Objects)
    /\ objects \in Seq(Objects) /\ Len(objects) <= Target
    /\ total \in 0..Unknown
    /\ offset \in Nat
    /\ result \in Seq(Objects)

(* What passes has every object once and objects of every region.          *)
OkIsSound ==
    pc = "ok" =>
        /\ Cardinality(IdsOf(result)) = Len(result)
        /\ \A r \in Regions : \E i \in DOMAIN result : result[i].region = r

Missed == IdsOf(wanted) \ (IdsOf(objects) \cup removed)
Newer == {id \in IdsOf(objects) : id > newest}

(* However the listing moves between two batches, a region's objects,      *)
(* unless one is there twice and validation turns them away, miss no more  *)
(* of the newest ones than were taken off meanwhile or made room for newer *)
(* ones.  Nothing is skipped between batches.                              *)
EveryMissHasItsCause ==
    pc = "collected" /\ Distinct(objects) /\ ~hidden =>
        Cardinality(Missed) <= Cardinality(removed) + Cardinality(Newer)

(* What is returned can be accounted for.                                  *)
ObjectsAreExplained == ObjectsTypeOK /\ OkIsSound /\ EveryMissHasItsCause

(* Every listing ends, even of an API that does not heed the offset.       *)
ObjectListingEnds == <>Over
=============================================================================
