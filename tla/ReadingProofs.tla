---------------------------- MODULE ReadingProofs ----------------------------
(***************************************************************************)
(* What is read while it changes, for every size and every interleaving:   *)
(* a listing of the CRM, a visit of a page, the objects of the regions and *)
(* the registry of the developers.                                         *)
(*                                                                         *)
(* Listing.  As long as every next page is the one behind the last (the    *)
(* listing is orderly), it has received start records, each of them        *)
(* deleted since or still among the first start of the CRM: whatever is    *)
(* listed further on is newer than all of them.  What the last page leaves *)
(* out stands among the first start and has not been received, so for      *)
(* every record left out one of the received is gone.                      *)
(*                                                                         *)
(* Navigation.  What a command raises tells a browser that is gone from a  *)
(* page at fault (GoneIsNoFault, LiveIsNoLoss).                            *)
(*                                                                         *)
(* DeveloperRegistry.  In a registry that keeps its order everything       *)
(* before the offset has been seen (Unmoved).                              *)
(*                                                                         *)
(* ObjectListing.  An object that was behind the wanted ones can be taken  *)
(* only at one of the first places, as many as are wanted; for it to stand *)
(* there, as many must be gone as there were from the wanted ones down to  *)
(* it (Paid).  At the end as many distinct objects are collected as were   *)
(* wanted, so those missed are no more than those behind, which are paid   *)
(* for, and the newer ones.                                                *)
(***************************************************************************)
EXTENDS Listing, Navigation, ObjectListing, DeveloperRegistry, FiniteSetTheorems,
        SequenceTheorems, WellFoundedInduction, TLAPS

(* Lists that lose an entry or gain one.                                   *)
LEMMA WithoutOne ==
    ASSUME NEW S, NEW list \in Seq(S), NEW i \in DOMAIN list
    PROVE  /\ Without(list, i) \in Seq(S)
           /\ Len(Without(list, i)) = Len(list) - 1
           /\ DOMAIN Without(list, i) = 1..Len(list) - 1
           /\ \A j \in 1..Len(list) - 1 :
                 Without(list, i)[j] = IF j < i THEN list[j] ELSE list[j + 1]
<1> DEFINE front == SubSeq(list, 1, i - 1)
           back == SubSeq(list, i + 1, Len(list))
<1>1. /\ Len(list) \in Nat /\ DOMAIN list = 1..Len(list)
      /\ i \in 1..Len(list)
      /\ \A j \in 1..Len(list) : list[j] \in S
    BY LenProperties, ElementOfSeq
<1>2. /\ front \in Seq(S) /\ Len(front) = i - 1
      /\ \A j \in 1..i - 1 : front[j] = list[j]
    <2>1. \A j \in 1..i - 1 : list[j] \in S
        BY <1>1
    <2>2. /\ front \in Seq(S)
          /\ Len(front) = IF 1 <= i - 1 THEN (i - 1) - 1 + 1 ELSE 0
          /\ \A j \in 1..(i - 1) - 1 + 1 : front[j] = list[1 + j - 1]
        BY <1>1, <2>1, SubSeqProperties
    <2> QED BY <1>1, <2>2
<1>3. /\ back \in Seq(S) /\ Len(back) = Len(list) - i
      /\ \A j \in 1..Len(list) - i : back[j] = list[i + j]
    <2>1. \A j \in i + 1..Len(list) : list[j] \in S
        BY <1>1
    <2>2. /\ back \in Seq(S)
          /\ Len(back) = IF i + 1 <= Len(list) THEN Len(list) - (i + 1) + 1 ELSE 0
          /\ \A j \in 1..Len(list) - (i + 1) + 1 : back[j] = list[i + 1 + j - 1]
        <3>1. PICK next \in Nat : next = i + 1
            BY <1>1
        <3>2. \A j \in next..Len(list) : list[j] \in S
            BY <2>1, <3>1
        <3>3. LET part == SubSeq(list, next, Len(list))
              IN  /\ part \in Seq(S)
                  /\ Len(part) = IF next <= Len(list) THEN Len(list) - next + 1 ELSE 0
                  /\ \A j \in 1..Len(list) - next + 1 : part[j] = list[next + j - 1]
            BY <1>1, <3>1, <3>2, SubSeqProperties
        <3> QED BY <3>1, <3>3
    <2>3. Len(back) = Len(list) - i
        BY <1>1, <2>2
    <2>4. ASSUME NEW j \in 1..Len(list) - i PROVE back[j] = list[i + j]
        <3>1. j \in 1..Len(list) - (i + 1) + 1 /\ i + 1 + j - 1 = i + j
            BY <1>1
        <3> QED BY <2>2, <3>1
    <2> QED BY <2>2, <2>3, <2>4
<1>4. /\ Without(list, i) \in Seq(S)
      /\ Len(Without(list, i)) = Len(front) + Len(back)
      /\ \A j \in 1..Len(front) + Len(back) :
            Without(list, i)[j] = IF j <= Len(front) THEN front[j] ELSE back[j - Len(front)]
    BY <1>2, <1>3, ConcatProperties DEF Without
<1>5. DOMAIN Without(list, i) = 1..Len(Without(list, i))
    BY <1>4, LenProperties
<1> QED
  <2> HIDE DEF front, back
  <2>1. Len(front) + Len(back) = Len(list) - 1
      BY <1>1, <1>2, <1>3
  <2>2. \A j \in 1..Len(list) - 1 :
            Without(list, i)[j] = IF j < i THEN list[j] ELSE list[j + 1]
      <3> TAKE j \in 1..Len(list) - 1
      <3>1. CASE j < i
          BY <3>1, <1>1, <1>2, <1>4, <2>1
      <3>2. CASE ~(j < i)
          <4>1. j - (i - 1) \in 1..Len(list) - i
              BY <3>2, <1>1
          <4>2. Without(list, i)[j] = back[j - (i - 1)]
              BY <3>2, <1>1, <1>2, <1>4, <2>1
          <4> QED BY <4>1, <4>2, <3>2, <1>1, <1>3
      <3> QED BY <3>1, <3>2
  <2> QED BY <1>4, <1>5, <2>1, <2>2

(* The part of a list from behind one place up to another.                 *)
LEMMA PartOfList ==
    ASSUME NEW S, NEW list \in Seq(S), NEW from \in Nat, NEW last \in Nat, last <= Len(list)
    PROVE  LET part == SubSeq(list, from + 1, last)
           IN  /\ part \in Seq(S)
               /\ Len(part) = IF from < last THEN last - from ELSE 0
               /\ DOMAIN part = 1..Len(part)
               /\ \A i \in 1..Len(part) : part[i] = list[from + i]
<1> DEFINE part == SubSeq(list, from + 1, last)
<1>1. /\ Len(list) \in Nat
      /\ \A j \in 1..Len(list) : list[j] \in S
    BY LenProperties, ElementOfSeq
<1>2. \A j \in from + 1..last : list[j] \in S
    BY <1>1
<1>3. /\ part \in Seq(S)
      /\ Len(part) = IF from + 1 <= last THEN last - (from + 1) + 1 ELSE 0
      /\ \A i \in 1..last - (from + 1) + 1 : part[i] = list[from + 1 + i - 1]
    BY <1>1, <1>2, SubSeqProperties
<1>4. DOMAIN part = 1..Len(part)
    BY <1>3, LenProperties
<1>5. Len(part) = IF from < last THEN last - from ELSE 0
    BY <1>1, <1>3
<1>6. ASSUME NEW i \in 1..Len(part) PROVE part[i] = list[from + i]
    <2>1. i \in 1..last - (from + 1) + 1 /\ from + 1 + i - 1 = from + i
        BY <1>1, <1>5
    <2> QED BY <1>3, <2>1
<1> QED BY <1>3, <1>4, <1>5, <1>6

LEMMA LeastOf ==
    ASSUME NEW S \in SUBSET Nat, S # {}
    PROVE  \E least \in S : \A other \in S : least <= other
<1>1. PICK least \in S : \A other \in S : <<other, least>> \notin OpToRel(<, Nat)
    BY NatLessThanWellFounded, WFMin
<1>2. \A other \in S : ~(other < least)
    BY <1>1 DEF OpToRel
<1> QED BY <1>2
-----------------------------------------------------------------------------
(* Listing.                                                                *)

Ascends(list) == \A i, j \in DOMAIN list : i < j => list[i] < list[j]

Present == {present[i] : i \in DOMAIN present}

(* Nothing vanishes but what is deleted.                                   *)
Accounted ==
    /\ old \subseteq gone \cup Present
    /\ Received \subseteq gone \cup Present
    /\ old \subseteq 1..created

(* The next page begins behind everything received.                        *)
Position ==
    state = "paging" =>
        /\ Len(records) = start
        /\ \A i \in DOMAIN present, j \in DOMAIN records :
              start < i => records[j] < present[i]

(* What holds as long as every next page has been named as documented.     *)
OrderlyInv ==
    /\ TypeOK
    /\ Ascends(present) /\ Ascends(records)
    /\ Accounted
    /\ Position
    /\ MissesNoMoreThanDeleted

ListingInv == TypeOK /\ (orderly => OrderlyInv)
-----------------------------------------------------------------------------
(* The part of the list from start up to the given place.                  *)
LEMMA PartFacts ==
    ASSUME TypeOK, NEW last \in Nat, last <= Len(present),
           NEW part, part = SubSeq(present, start + 1, last)
    PROVE  /\ part \in Seq(1..created)
           /\ Len(part) = IF start < last THEN last - start ELSE 0
           /\ DOMAIN part = 1..Len(part)
           /\ \A i \in 1..Len(part) : part[i] = present[start + i]
BY PartOfList DEF TypeOK

(* What a page holds.                                                      *)
LEMMA PageFacts ==
    ASSUME TypeOK
    PROVE  /\ Page \in Seq(1..created)
           /\ Len(Page) = IF MoreToCome THEN PageSize
                          ELSE IF start < Len(present) THEN Len(present) - start ELSE 0
           /\ DOMAIN Page = 1..Len(Page)
           /\ \A i \in 1..Len(Page) : Page[i] = present[start + i]
<1>1. Len(present) \in Nat /\ start \in Nat /\ PageSize \in Nat \ {0}
    BY LenProperties, PageAssumption DEF TypeOK
<1>2. CASE MoreToCome
    <2>1. PICK last \in Nat : last = start + PageSize
        BY <1>1
    <2>2. Page = SubSeq(present, start + 1, last)
        BY <1>2, <2>1 DEF Page
    <2>3. last <= Len(present) /\ start < last /\ last - start = PageSize
        BY <1>1, <1>2, <2>1 DEF MoreToCome
    <2>4. /\ Page \in Seq(1..created)
          /\ Len(Page) = IF start < last THEN last - start ELSE 0
          /\ DOMAIN Page = 1..Len(Page)
          /\ \A i \in 1..Len(Page) : Page[i] = present[start + i]
        BY <2>2, <2>3, PartFacts
    <2> QED BY <1>2, <2>3, <2>4
<1>3. CASE ~MoreToCome
    <2>1. Page = SubSeq(present, start + 1, Len(present))
        BY <1>3 DEF Page
    <2>2. Len(present) <= Len(present)
        BY <1>1
    <2>3. /\ Page \in Seq(1..created)
          /\ Len(Page) = IF start < Len(present) THEN Len(present) - start ELSE 0
          /\ DOMAIN Page = 1..Len(Page)
          /\ \A i \in 1..Len(Page) : Page[i] = present[start + i]
        BY <1>1, <2>1, <2>2, PartFacts
    <2> QED BY <1>3, <2>3
<1> QED BY <1>2, <1>3
-----------------------------------------------------------------------------
(* Facts about the sequences that the steps use.                           *)
LEMMA ListingShape ==
    ASSUME TypeOK
    PROVE  /\ created \in Nat /\ start \in Nat /\ PageSize \in Nat \ {0}
           /\ Len(present) \in Nat /\ DOMAIN present = 1..Len(present)
           /\ Len(records) \in Nat /\ DOMAIN records = 1..Len(records)
           /\ \A i \in 1..Len(present) : present[i] \in 1..created
           /\ \A i \in 1..Len(records) : records[i] \in 1..created
BY LenProperties, ElementOfSeq, PageAssumption DEF TypeOK

LEMMA ListingInitially == Init => OrderlyInv
<1> SUFFICES ASSUME Init PROVE OrderlyInv
    OBVIOUS
<1>1. /\ present \in Seq(Nat) /\ Len(present) <= MaxRecord /\ MaxRecord \in Nat
      /\ \A i \in DOMAIN present : present[i] = i
    BY PageAssumption DEF Init
<1>2. Len(present) \in Nat /\ DOMAIN present = 1..Len(present)
    BY <1>1, LenProperties
<1>3. created = Len(present) /\ old = 1..created /\ gone = {} /\ start = 0
      /\ records = <<>> /\ orderly = TRUE /\ state = "paging"
    BY DEF Init
<1>4. present \in Seq(1..created)
    <2>1. \A i \in 1..Len(present) : present[i] \in 1..created
        BY <1>1, <1>2, <1>3
    <2>2. present = SubSeq(present, 1, Len(present))
        BY <1>1, SubSeqFull
    <2>3. SubSeq(present, 1, Len(present)) \in Seq(1..created)
        BY <1>2, <2>1, SubSeqProperties
    <2> QED BY <2>2, <2>3
<1>5. records \in Seq(1..created) /\ Len(records) = 0 /\ DOMAIN records = {}
    BY <1>3, EmptySeq
<1>6. TypeOK
    BY <1>1, <1>2, <1>3, <1>4, <1>5 DEF TypeOK
<1>7. Ascends(present)
    BY <1>1, <1>2 DEF Ascends
<1>8. Ascends(records)
    BY <1>5 DEF Ascends
<1>9. Accounted
    <2>1. Received = {}
        BY <1>5 DEF Received, Entries
    <2>2. \A i \in 1..created : i \in Present
        BY <1>1, <1>2, <1>3 DEF Present
    <2> QED BY <1>3, <2>1, <2>2 DEF Accounted
<1>10. Position
    BY <1>3, <1>5 DEF Position
<1>11. MissesNoMoreThanDeleted
    BY <1>3 DEF MissesNoMoreThanDeleted
<1> QED BY <1>6, <1>7, <1>8, <1>9, <1>10, <1>11 DEF OrderlyInv
-----------------------------------------------------------------------------
(* Whatever next the pages name, the lists stay lists of records.          *)
LEMMA ListingTypeStep ==
    ASSUME TypeOK, [Next]_vars
    PROVE  TypeOK'
<1>1. /\ created \in Nat /\ start \in Nat /\ PageSize \in Nat \ {0}
      /\ present \in Seq(1..created) /\ records \in Seq(1..created)
      /\ orderly \in BOOLEAN
    BY ListingShape DEF TypeOK
<1>2. CASE Create
    <2>1. /\ created' = created + 1 /\ created < MaxRecord
          /\ present' = Append(present, created + 1)
          /\ gone' = gone /\ start' = start /\ records' = records
          /\ orderly' = orderly /\ state' = state
        BY <1>2 DEF Create
    <2>2. /\ 1..created \subseteq 1..created' /\ created + 1 \in 1..created'
          /\ created' \in 0..MaxRecord
        BY <2>1, <1>1, PageAssumption
    <2>3. present \in Seq(1..created') /\ records \in Seq(1..created')
        BY <1>1, <2>2, SeqMonotonic
    <2>4. present' \in Seq(1..created')
        BY <2>1, <2>2, <2>3, AppendProperties
    <2>5. gone' \subseteq 1..created'
        BY <2>1, <2>2 DEF TypeOK
    <2> QED BY <2>1, <2>2, <2>3, <2>4, <2>5 DEF TypeOK
<1>3. CASE Delete
    <2>1. PICK i \in DOMAIN present :
              present' = Without(present, i) /\ gone' = gone \cup {present[i]}
        BY <1>3 DEF Delete
    <2>2. present' \in Seq(1..created)
        BY <1>1, <2>1, WithoutOne
    <2>3. gone' \subseteq 1..created
        BY <1>1, <2>1, ListingShape DEF TypeOK
    <2> QED BY <1>3, <2>2, <2>3 DEF Delete, TypeOK
<1>4. CASE Receive \/ ReceiveLast
    <2>1. /\ records' = records \o Page /\ orderly' \in BOOLEAN
          /\ present' = present /\ created' = created /\ gone' = gone
          /\ start' \in Nat /\ state' \in {state, "done"}
        <3>1. CASE Receive
            <4>1. PICK next \in start + 1..MaxRecord :
                      /\ start' = next
                      /\ orderly' = (orderly /\ MoreToCome /\ next = start + PageSize)
                BY <3>1 DEF Receive
            <4>2. next \in Nat
                BY <1>1, PageAssumption
            <4>3. orderly' \in BOOLEAN
                BY <4>1
            <4> QED BY <3>1, <4>1, <4>2, <4>3 DEF Receive
        <3>2. CASE ReceiveLast
            BY <3>2, <1>1 DEF ReceiveLast
        <3> QED BY <1>4, <3>1, <3>2
    <2>2. records' \in Seq(1..created)
        BY <1>1, <2>1, PageFacts, ConcatProperties
    <2> QED BY <2>1, <2>2 DEF TypeOK
<1>5. CASE ReceiveBadNext \/ CallFails \/ UNCHANGED vars
    BY <1>5 DEF ReceiveBadNext, CallFails, vars, TypeOK
<1> QED BY <1>2, <1>3, <1>4, <1>5 DEF Next, Answered

LEMMA CreateStep == ASSUME OrderlyInv, Create PROVE OrderlyInv'
<1> USE DEF OrderlyInv
<1>1. /\ created' = created + 1 /\ present' = Append(present, created + 1)
      /\ old' = old /\ gone' = gone /\ start' = start /\ records' = records
      /\ state' = state /\ created < MaxRecord
    BY DEF Create
<1>2. /\ created \in Nat /\ Len(present) \in Nat /\ DOMAIN present = 1..Len(present)
      /\ Len(records) \in Nat /\ DOMAIN records = 1..Len(records)
      /\ start \in Nat
      /\ \A i \in 1..Len(present) : present[i] \in 1..created
      /\ \A i \in 1..Len(records) : records[i] \in 1..created
    BY ListingShape
<1>3. 1..created \subseteq 1..created' /\ created + 1 \in 1..created' /\ created' \in Nat
    BY <1>1, <1>2
<1>4. present \in Seq(1..created') /\ records \in Seq(1..created')
    BY <1>3, SeqMonotonic DEF TypeOK
<1>5. /\ present' \in Seq(1..created')
      /\ Len(present') = Len(present) + 1
      /\ \A i \in 1..Len(present) : present'[i] = present[i]
      /\ present'[Len(present) + 1] = created + 1
    BY <1>1, <1>3, <1>4, AppendProperties
<1>6. DOMAIN present' = 1..Len(present) + 1
    BY <1>5, LenProperties
<1>7. TypeOK'
    BY ListingTypeStep DEF Next
<1>8. Ascends(present)'
    <2> SUFFICES ASSUME NEW i \in 1..Len(present) + 1, NEW j \in 1..Len(present) + 1, i < j
                 PROVE  present'[i] < present'[j]
        BY <1>6 DEF Ascends
    <2>1. i \in 1..Len(present)
        BY <1>2
    <2>2. CASE j = Len(present) + 1
        <3>1. present'[j] = created + 1 /\ present'[i] = present[i]
            BY <2>1, <2>2, <1>5
        <3>2. present[i] \in 1..created
            BY <2>1, <1>2
        <3> QED BY <3>1, <3>2, <1>2
    <2>3. CASE j # Len(present) + 1
        <3>1. j \in 1..Len(present)
            <4>1. Len(present) \in Nat
                BY <1>2
            <4> HIDE DEF OrderlyInv
            <4> QED BY <4>1, <2>3
        <3>2. present'[i] = present[i] /\ present'[j] = present[j]
            BY <2>1, <3>1, <1>5
        <3>3. i \in DOMAIN present /\ j \in DOMAIN present /\ Ascends(present)
            BY <2>1, <3>1, <1>2
        <3>4. present[i] < present[j]
            BY <3>3 DEF Ascends
        <3> QED BY <3>2, <3>4
    <2> QED BY <2>2, <2>3
<1>9. Ascends(records)'
    BY <1>1 DEF Ascends
<1>10. Accounted'
    <2>1. Present \subseteq Present'
        BY <1>2, <1>5, <1>6 DEF Present
    <2>2. Received' = Received
        BY <1>1 DEF Received, Entries
    <2> QED BY <1>1, <1>3, <2>1, <2>2 DEF Accounted
<1>11. Position'
    <2> SUFFICES ASSUME state = "paging",
                        NEW i \in 1..Len(present) + 1, NEW j \in 1..Len(records), start < i
                 PROVE  records[j] < present'[i]
        BY <1>1, <1>2, <1>6 DEF Position
    <2>1. CASE i = Len(present) + 1
        BY <2>1, <1>2, <1>5
    <2>2. CASE i # Len(present) + 1
        <3>1. i \in 1..Len(present)
            BY <2>2, <1>2
        <3> QED BY <3>1, <1>2, <1>5 DEF Position
    <2> QED BY <2>1, <2>2
<1>12. MissesNoMoreThanDeleted'
    BY <1>1 DEF MissesNoMoreThanDeleted, Received
<1> QED BY <1>7, <1>8, <1>9, <1>10, <1>11, <1>12

LEMMA DeleteStep == ASSUME OrderlyInv, Delete PROVE OrderlyInv'
<1> USE DEF OrderlyInv
<1>1. PICK i \in DOMAIN present : present' = Without(present, i) /\ gone' = gone \cup {present[i]}
    BY DEF Delete
<1>2. /\ created' = created /\ old' = old /\ start' = start /\ records' = records
      /\ state' = state
    BY DEF Delete
<1>3. /\ created \in Nat /\ Len(present) \in Nat /\ DOMAIN present = 1..Len(present)
      /\ Len(records) \in Nat /\ DOMAIN records = 1..Len(records)
      /\ start \in Nat
      /\ \A j \in 1..Len(present) : present[j] \in 1..created
      /\ \A j \in 1..Len(records) : records[j] \in 1..created
    BY ListingShape
<1>4. /\ present' \in Seq(1..created)
      /\ DOMAIN present' = 1..Len(present) - 1
      /\ \A j \in 1..Len(present) - 1 : present'[j] = IF j < i THEN present[j] ELSE present[j + 1]
    <2>1. present \in Seq(1..created)
        BY DEF TypeOK
    <2> QED BY <1>1, <2>1, WithoutOne
(* The place a record had before.                                          *)
<1>5. ASSUME NEW j \in 1..Len(present) - 1
      PROVE  \E k \in 1..Len(present) :
                /\ k = IF j < i THEN j ELSE j + 1
                /\ j <= k
                /\ present'[j] = present[k]
    BY <1>1, <1>3, <1>4
<1>6. TypeOK'
    BY ListingTypeStep DEF Next
<1>7. Ascends(present)'
    <2> SUFFICES ASSUME NEW j \in 1..Len(present) - 1, NEW k \in 1..Len(present) - 1, j < k
                 PROVE  present'[j] < present'[k]
        BY <1>4 DEF Ascends
    <2>1. PICK m \in 1..Len(present) :
              m = (IF j < i THEN j ELSE j + 1) /\ present'[j] = present[m]
        BY <1>5
    <2>2. PICK n \in 1..Len(present) :
              n = (IF k < i THEN k ELSE k + 1) /\ present'[k] = present[n]
        BY <1>5
    <2>3. m < n
        BY <1>1, <1>3, <2>1, <2>2
    <2> QED BY <1>3, <2>1, <2>2, <2>3 DEF Ascends
<1>8. Ascends(records)'
    BY <1>2 DEF Ascends
<1>9. Accounted'
    <2>1. ASSUME NEW r \in Present, r # present[i] PROVE r \in Present'
        <3>1. PICK k \in 1..Len(present) : present[k] = r
            BY <1>3 DEF Present
        <3>2. CASE k < i
            <4>1. k \in 1..Len(present) - 1 /\ present'[k] = r
                BY <3>1, <3>2, <1>1, <1>3, <1>4
            <4> QED BY <4>1, <1>4 DEF Present
        <3>3. CASE k > i
            <4>1. k - 1 \in 1..Len(present) - 1 /\ ~(k - 1 < i) /\ k - 1 + 1 = k
                BY <3>1, <3>3, <1>1, <1>3
            <4>2. present'[k - 1] = r
                BY <4>1, <3>1, <1>4
            <4> QED BY <4>1, <4>2, <1>4 DEF Present
        <3>4. k # i
            BY <2>1, <3>1
        <3> QED BY <3>2, <3>3, <3>4, <1>1, <1>3
    <2>2. Received' = Received
        BY <1>2 DEF Received, Entries
    <2> QED BY <1>1, <1>2, <2>1, <2>2 DEF Accounted
<1>10. Position'
    <2> SUFFICES ASSUME state = "paging",
                        NEW j \in 1..Len(present) - 1, NEW k \in 1..Len(records), start < j
                 PROVE  records[k] < present'[j]
        BY <1>2, <1>3, <1>4 DEF Position
    <2>1. PICK m \in 1..Len(present) : j <= m /\ present'[j] = present[m]
        BY <1>5
    <2>2. start < m
        BY <2>1, <1>3
    <2> QED BY <2>1, <2>2, <1>3 DEF Position
<1>11. MissesNoMoreThanDeleted'
    <2> SUFFICES ASSUME state = "done"
                 PROVE  Cardinality(old \ (gone' \cup Received)) <= Cardinality(gone')
        BY <1>2 DEF MissesNoMoreThanDeleted, Received
    <2> DEFINE before == old \ (gone \cup Received)
               after == old \ (gone' \cup Received)
    <2>1. IsFiniteSet(1..created)
        BY <1>3, FS_Interval
    <2>2. gone' \subseteq 1..created
        BY <1>2, <1>6 DEF TypeOK
    <2>3. IsFiniteSet(before) /\ IsFiniteSet(gone') /\ IsFiniteSet(gone)
        <3>1. before \subseteq 1..created /\ gone \subseteq 1..created
            BY DEF Accounted, TypeOK
        <3> QED BY <2>1, <2>2, <3>1, FS_Subset
    <2>4. Cardinality(after) <= Cardinality(before) /\ Cardinality(gone) <= Cardinality(gone')
        <3>1. after \subseteq before /\ gone \subseteq gone'
            BY <1>1
        <3> QED BY <2>3, <3>1, FS_Subset
    <2>5. Cardinality(before) <= Cardinality(gone)
        BY DEF MissesNoMoreThanDeleted
    <2>6. IsFiniteSet(after)
        BY <1>1, <2>3, FS_Subset
    <2>7. /\ Cardinality(after) \in Nat /\ Cardinality(before) \in Nat
          /\ Cardinality(gone) \in Nat /\ Cardinality(gone') \in Nat
        BY <2>3, <2>6, FS_CardinalityType
    <2> QED BY <2>4, <2>5, <2>7
<1> QED BY <1>6, <1>7, <1>8, <1>9, <1>10, <1>11
-----------------------------------------------------------------------------
(* An ascending list has as many values as places.                         *)
LEMMA AscendingCount ==
    ASSUME NEW n \in Nat, NEW list, DOMAIN list = 1..n, Ascends(list),
           \A i \in 1..n : list[i] \in Nat,
           NEW S, S = {list[i] : i \in 1..n}
    PROVE  IsFiniteSet(S) /\ Cardinality(S) = n
<1> DEFINE f == [i \in 1..n |-> list[i]]
<1>1. f \in Bijection(1..n, S)
    <2>1. f \in [1..n -> S]
        OBVIOUS
    <2>2. ASSUME NEW i \in 1..n, NEW j \in 1..n, f[i] = f[j] PROVE i = j
        <3>1. list[i] = list[j] /\ list[i] \in Nat
            BY <2>2
        <3>2. ~(i < j) /\ ~(j < i)
            BY <3>1 DEF Ascends
        <3> QED BY <3>2
    <2>3. \A v \in S : \E i \in 1..n : f[i] = v
        OBVIOUS
    <2> QED BY <2>1, <2>2, <2>3 DEF Bijection, Injection, IsInjective, Surjection
<1>2. IsFiniteSet(1..n) /\ Cardinality(1..n) = n
    BY FS_Interval
<1> QED BY <1>1, <1>2, FS_Bijection DEF ExistsBijection

(* The values at n places are at most n.                                   *)
LEMMA ValuesAtMost ==
    ASSUME NEW n \in Nat, NEW list, NEW S, S = {list[i] : i \in 1..n}
    PROVE  IsFiniteSet(S) /\ Cardinality(S) <= n
<1> DEFINE f == [i \in 1..n |-> list[i]]
<1>1. f \in Surjection(1..n, S)
    BY DEF Surjection
<1>2. IsFiniteSet(1..n) /\ Cardinality(1..n) = n
    BY FS_Interval
<1> QED BY <1>1, <1>2, FS_Surjection

(* Of the records the last page does not hold, as many are missed at most  *)
(* as of the received are gone.                                            *)
LEMMA LastPage ==
    ASSUME OrderlyInv, state = "paging", ~MoreToCome,
           NEW received, received = Received \cup {Page[i] : i \in DOMAIN Page}
    PROVE  Cardinality(old \ (gone \cup received)) <= Cardinality(gone)
<1> USE DEF OrderlyInv
<1> DEFINE n == IF start < Len(present) THEN start ELSE Len(present)
           front == {present[i] : i \in 1..n}
           missed == old \ (gone \cup received)
           kept == Received \ gone
<1>1. /\ created \in Nat /\ Len(present) \in Nat /\ DOMAIN present = 1..Len(present)
      /\ Len(records) \in Nat /\ DOMAIN records = 1..Len(records)
      /\ start \in Nat /\ Len(records) = start
      /\ \A i \in 1..Len(present) : present[i] \in 1..created
      /\ \A i \in 1..Len(records) : records[i] \in 1..created
    BY ListingShape DEF Position
<1>2. n \in Nat /\ n <= start /\ n <= Len(present)
    BY <1>1
<1>3. IsFiniteSet(front) /\ Cardinality(front) <= n
    BY <1>2, ValuesAtMost
<1>4. IsFiniteSet(Received) /\ Cardinality(Received) = start
    <2>1. Received = {records[i] : i \in 1..start}
        BY <1>1 DEF Received, Entries
    <2> QED BY <1>1, <2>1, AscendingCount
<1>5. missed \subseteq front
    <2> SUFFICES ASSUME NEW r \in missed PROVE r \in front
        OBVIOUS
    <2>1. PICK i \in 1..Len(present) : present[i] = r
        BY <1>1 DEF Accounted, Present
    <2>2. i <= start
        <3> SUFFICES ASSUME start < i PROVE FALSE
            BY <1>1
        <3>1. Len(Page) = Len(present) - start /\ DOMAIN Page = 1..Len(Page)
            <4>1. start < Len(present)
                BY <1>1
            <4> QED BY <4>1, PageFacts
        <3>2. i - start \in 1..Len(Page) /\ start + (i - start) = i
            BY <1>1, <3>1
        <3>3. Page[i - start] = r
            BY <2>1, <3>2, PageFacts
        <3> QED BY <3>1, <3>2, <3>3
    <2> QED BY <1>1, <2>1, <2>2
<1>6. kept \subseteq front
    <2> SUFFICES ASSUME NEW r \in kept PROVE r \in front
        OBVIOUS
    <2>1. PICK i \in 1..Len(present) : present[i] = r
        BY <1>1 DEF Accounted, Present
    <2>2. PICK j \in 1..Len(records) : records[j] = r
        BY <1>1 DEF Received, Entries
    <2>3. ~(start < i)
        <3>1. start < i => records[j] < present[i]
            BY <1>1 DEF Position
        <3> QED BY <3>1, <2>1, <2>2, <1>1
    <2> QED BY <1>1, <2>1, <2>3
<1>7. missed \cap kept = {}
    OBVIOUS
<1> HIDE DEF front, n
<1>8. IsFiniteSet(missed) /\ IsFiniteSet(kept) /\ IsFiniteSet(gone)
    <2>1. IsFiniteSet(1..created) /\ gone \subseteq 1..created
        BY <1>1, FS_Interval DEF TypeOK
    <2> QED BY <1>3, <1>5, <1>6, <2>1, FS_Subset
<1>9. Cardinality(missed) + Cardinality(kept) <= Cardinality(front)
    <2> HIDE DEF missed, kept
    <2>1. Cardinality(missed \cup kept) = Cardinality(missed) + Cardinality(kept)
        <3>1. Cardinality(missed \cap kept) = 0
            BY <1>7, FS_EmptySet
        <3>2. Cardinality(missed \cup kept)
                 = Cardinality(missed) + Cardinality(kept) - Cardinality(missed \cap kept)
            BY <1>8, FS_Union
        <3>3. Cardinality(missed) \in Nat /\ Cardinality(kept) \in Nat
            BY <1>8, FS_CardinalityType
        <3> QED BY <3>1, <3>2, <3>3
    <2>2. missed \cup kept \subseteq front
        BY <1>5, <1>6
    <2> QED BY <1>3, <2>1, <2>2, FS_Subset
<1>10. start <= Cardinality(kept) + Cardinality(gone)
    <2>1. Received \subseteq kept \cup gone
        OBVIOUS
    <2> HIDE DEF kept
    <2>2. IsFiniteSet(kept \cup gone)
          /\ Cardinality(kept \cup gone)
                = Cardinality(kept) + Cardinality(gone) - Cardinality(kept \cap gone)
        BY <1>8, FS_Union
    <2>3. IsFiniteSet(kept \cap gone)
        BY <1>8, FS_Subset
    <2>4. Cardinality(Received) <= Cardinality(kept \cup gone)
        BY <2>1, <2>2, FS_Subset
    <2>5. /\ Cardinality(kept) \in Nat /\ Cardinality(gone) \in Nat
          /\ Cardinality(kept \cap gone) \in Nat
        BY <1>8, <2>3, FS_CardinalityType
    <2> QED BY <1>1, <1>4, <2>2, <2>4, <2>5
<1>11. /\ Cardinality(missed) \in Nat /\ Cardinality(kept) \in Nat
       /\ Cardinality(gone) \in Nat /\ Cardinality(front) \in Nat
    BY <1>3, <1>8, FS_CardinalityType
<1> QED
  <2> HIDE DEF missed, kept
  <2>1. Cardinality(missed) <= Cardinality(gone)
      BY <1>1, <1>2, <1>3, <1>9, <1>10, <1>11
  <2> QED BY <2>1 DEF missed
-----------------------------------------------------------------------------
LEMMA ReceiveStep ==
    ASSUME OrderlyInv, Receive \/ ReceiveLast, orderly'
    PROVE  OrderlyInv'
<1> USE DEF OrderlyInv
<1>1. /\ state = "paging" /\ records' = records \o Page
      /\ present' = present /\ created' = created /\ old' = old /\ gone' = gone
      /\ MoreToCome => start' = start + PageSize /\ state' = state
      /\ ~MoreToCome => start' = start /\ state' = "done"
    BY DEF Receive, ReceiveLast
<1>2. /\ created \in Nat /\ Len(present) \in Nat /\ DOMAIN present = 1..Len(present)
      /\ Len(records) \in Nat /\ DOMAIN records = 1..Len(records)
      /\ start \in Nat /\ Len(records) = start /\ PageSize \in Nat \ {0}
      /\ \A i \in 1..Len(present) : present[i] \in 1..created
      /\ \A i \in 1..Len(records) : records[i] \in 1..created
    BY <1>1, ListingShape DEF Position
<1>3. /\ Page \in Seq(1..created)
      /\ Len(Page) = IF MoreToCome THEN PageSize
                     ELSE IF start < Len(present) THEN Len(present) - start ELSE 0
      /\ DOMAIN Page = 1..Len(Page)
      /\ \A i \in 1..Len(Page) : Page[i] = present[start + i]
    BY PageFacts
<1>4. Len(Page) \in Nat
    BY <1>3, LenProperties
<1>5. \A i \in 1..Len(Page) : start + i \in 1..Len(present)
    <2>1. CASE MoreToCome
        <3>1. Len(Page) = PageSize /\ start + PageSize < Len(present)
            BY <2>1, <1>3 DEF MoreToCome
        <3> QED BY <3>1, <1>2
    <2>2. CASE ~MoreToCome
        <3>1. Len(Page) = IF start < Len(present) THEN Len(present) - start ELSE 0
            BY <2>2, <1>3
        <3>2. CASE start < Len(present)
            <4>1. Len(Page) = Len(present) - start
                BY <3>1, <3>2
            <4> QED BY <4>1, <1>2
        <3>3. CASE ~(start < Len(present))
            <4>1. Len(Page) = 0
                BY <3>1, <3>3
            <4> QED BY <4>1
        <3> QED BY <3>2, <3>3
    <2> QED BY <2>1, <2>2
<1>6. /\ records' \in Seq(1..created)
      /\ Len(records') = start + Len(Page)
      /\ DOMAIN records' = 1..start + Len(Page)
      /\ \A i \in 1..start : records'[i] = records[i]
      /\ \A i \in 1..Len(Page) : records'[start + i] = Page[i]
    <2>1. /\ records' \in Seq(1..created)
          /\ Len(records') = start + Len(Page)
          /\ \A i \in 1..start + Len(Page) :
                records'[i] = IF i <= start THEN records[i] ELSE Page[i - start]
        <3>1. records \in Seq(1..created) /\ Page \in Seq(1..created)
            BY <1>3 DEF TypeOK
        <3>2. /\ records \o Page \in Seq(1..created)
              /\ Len(records \o Page) = Len(records) + Len(Page)
              /\ \A i \in 1..Len(records) + Len(Page) :
                    (records \o Page)[i] =
                        IF i <= Len(records) THEN records[i] ELSE Page[i - Len(records)]
            BY <3>1, ConcatProperties
        <3> QED BY <1>1, <1>2, <3>2
    <2>2. DOMAIN records' = 1..start + Len(Page)
        BY <2>1, LenProperties
    <2>3. \A i \in 1..start : i \in 1..start + Len(Page) /\ i <= start
        BY <1>2, <1>4
    <2>4. \A i \in 1..start : records'[i] = records[i]
        BY <2>1, <2>3
    <2>5. ASSUME NEW i \in 1..Len(Page) PROVE records'[start + i] = Page[i]
        <3>1. PICK k : k = start + i
            OBVIOUS
        <3>2. k \in 1..start + Len(Page) /\ ~(k <= start) /\ k - start = i
            BY <3>1, <1>2, <1>4
        <3>3. records'[k] = IF k <= start THEN records[k] ELSE Page[k - start]
            BY <2>1, <3>2
        <3>4. records'[k] = Page[i]
            BY <3>2, <3>3
        <3> QED BY <3>1, <3>4
    <2> QED BY <2>1, <2>2, <2>4, <2>5
(* Where a record that has now been received stands.                       *)
<1>7. ASSUME NEW j \in 1..start + Len(Page)
      PROVE  \/ j \in 1..start /\ records'[j] = records[j]
             \/ start < j /\ j \in 1..Len(present) /\ records'[j] = present[j]
    <2>1. CASE j <= start
        <3>1. j \in 1..start
            BY <2>1, <1>2, <1>4
        <3> QED BY <3>1, <1>6
    <2>2. CASE ~(j <= start)
        <3>1. j - start \in 1..Len(Page) /\ start + (j - start) = j
            BY <2>2, <1>2, <1>4
        <3>2. records'[j] = Page[j - start] /\ Page[j - start] = present[j]
            BY <3>1, <1>3, <1>6
        <3>3. j \in 1..Len(present)
            BY <3>1, <1>5
        <3> QED BY <2>2, <3>2, <3>3, <1>2
    <2> QED BY <2>1, <2>2
<1>8. TypeOK'
    BY ListingTypeStep DEF Next, Answered
<1>9. Ascends(present)'
    BY <1>1 DEF Ascends
<1>10. Ascends(records)'
    <2> SUFFICES ASSUME NEW i \in 1..start + Len(Page), NEW j \in 1..start + Len(Page), i < j
                 PROVE  records'[i] < records'[j]
        BY <1>6 DEF Ascends
    <2>1. CASE i \in 1..start /\ records'[i] = records[i]
        <3>1. CASE j \in 1..start /\ records'[j] = records[j]
            BY <2>1, <3>1, <1>2 DEF Ascends
        <3>2. CASE start < j /\ j \in 1..Len(present) /\ records'[j] = present[j]
            BY <2>1, <3>2, <1>1, <1>2 DEF Position
        <3> QED BY <3>1, <3>2, <1>7
    <2>2. CASE start < i /\ i \in 1..Len(present) /\ records'[i] = present[i]
        <3>1. ~(j \in 1..start)
            BY <2>2, <1>2
        <3>2. j \in 1..Len(present) /\ records'[j] = present[j]
            BY <3>1, <1>7
        <3> QED BY <2>2, <3>2, <1>2 DEF Ascends
    <2> QED BY <2>1, <2>2, <1>7
<1>11. Received' = Received \cup {Page[i] : i \in DOMAIN Page}
    <2>1. ASSUME NEW j \in 1..start + Len(Page)
          PROVE  records'[j] \in Received \cup {Page[i] : i \in DOMAIN Page}
        <3>1. CASE j <= start
            <4>1. j \in 1..start
                BY <3>1, <1>2, <1>4
            <4> QED BY <4>1, <1>2, <1>6 DEF Received, Entries
        <3>2. CASE ~(j <= start)
            <4>1. j - start \in 1..Len(Page) /\ start + (j - start) = j
                BY <3>2, <1>2, <1>4
            <4> QED BY <4>1, <1>3, <1>6
        <3> QED BY <3>1, <3>2
    <2>2. ASSUME NEW i \in 1..start PROVE records[i] \in Received'
        <3>1. i \in 1..start + Len(Page)
            BY <1>2, <1>4
        <3> QED BY <3>1, <1>6 DEF Received, Entries
    <2>3. ASSUME NEW i \in 1..Len(Page) PROVE Page[i] \in Received'
        <3>1. start + i \in 1..start + Len(Page)
            BY <1>2, <1>4
        <3> QED BY <3>1, <1>6 DEF Received, Entries
    <2>4. /\ Received = {records[i] : i \in 1..start}
          /\ Received' = {records'[i] : i \in 1..start + Len(Page)}
        <3>1. DOMAIN records = 1..start /\ DOMAIN records' = 1..start + Len(Page)
            BY <1>2, <1>6
        <3> HIDE DEF OrderlyInv
        <3> QED BY <3>1 DEF Received, Entries
    <2>5. DOMAIN Page = 1..Len(Page)
        BY <1>3
    <2> HIDE DEF OrderlyInv
    <2>6. Received' \subseteq Received \cup {Page[i] : i \in DOMAIN Page}
        BY <2>1, <2>4
    <2>7. Received \cup {Page[i] : i \in DOMAIN Page} \subseteq Received'
        BY <2>2, <2>3, <2>4, <2>5
    <2> QED BY <2>6, <2>7
<1>12. Accounted'
    <2>1. {Page[i] : i \in DOMAIN Page} \subseteq Present
        <3>1. ASSUME NEW i \in 1..Len(Page) PROVE Page[i] \in Present
            <4>1. Page[i] = present[start + i] /\ start + i \in DOMAIN present
                BY <1>2, <1>3, <1>5
            <4> QED BY <4>1 DEF Present
        <3>2. DOMAIN Page = 1..Len(Page)
            BY <1>3
        <3> HIDE DEF OrderlyInv
        <3> QED BY <3>1, <3>2
    <2>2. Present' = Present
        BY <1>1 DEF Present
    <2> QED BY <1>1, <1>11, <2>1, <2>2 DEF Accounted
<1>13. Position'
    <2> SUFFICES ASSUME state' = "paging"
                 PROVE  /\ Len(records') = start'
                        /\ \A i \in 1..Len(present), j \in 1..start + Len(Page) :
                              start' < i => records'[j] < present[i]
        BY <1>1, <1>2, <1>6 DEF Position
    <2>1. MoreToCome /\ start' = start + PageSize /\ Len(Page) = PageSize
        BY <1>1, <1>3
    <2>2. ASSUME NEW i \in 1..Len(present), NEW j \in 1..start + Len(Page), start' < i
          PROVE  records'[j] < present[i]
        <3>1. start < i /\ j < i
            BY <2>1, <2>2, <1>2
        <3>2. CASE j \in 1..start /\ records'[j] = records[j]
            BY <3>1, <3>2, <1>1, <1>2 DEF Position
        <3>3. CASE j \in 1..Len(present) /\ records'[j] = present[j]
            BY <3>1, <3>3, <1>2 DEF Ascends
        <3> QED BY <3>2, <3>3, <1>7
    <2> QED BY <1>6, <2>1, <2>2
<1>14. MissesNoMoreThanDeleted'
    <2> SUFFICES ASSUME state' = "done"
                 PROVE  Cardinality(old \ (gone \cup Received')) <= Cardinality(gone)
        BY <1>1 DEF MissesNoMoreThanDeleted
    <2>1. ~MoreToCome
        BY <1>1
    <2> QED BY <1>1, <1>11, <2>1, LastPage
<1> QED BY <1>8, <1>9, <1>10, <1>12, <1>13, <1>14

LEMMA RaiseStep ==
    ASSUME OrderlyInv, ReceiveBadNext \/ CallFails \/ UNCHANGED vars PROVE OrderlyInv'
<1>1. /\ present' = present /\ created' = created /\ old' = old /\ gone' = gone
      /\ start' = start /\ records' = records /\ orderly' = orderly
      /\ state' \in {state, "raised"}
    BY DEF ReceiveBadNext, CallFails, vars
<1>2. Present' = Present /\ Received' = Received
    BY <1>1 DEF Present, Received
<1> QED
    BY <1>1, <1>2
       DEF OrderlyInv, TypeOK, Ascends, Accounted, Position, MissesNoMoreThanDeleted
-----------------------------------------------------------------------------
(* ListingInv holds of every listing.                                      *)
LEMMA ListingInvariance == Spec => []ListingInv
<1>1. Init => ListingInv
    BY ListingInitially DEF ListingInv, OrderlyInv
<1>2. ASSUME ListingInv, [Next]_vars PROVE ListingInv'
    <2>1. TypeOK'
        BY <1>2, ListingTypeStep DEF ListingInv
    <2>2. ASSUME orderly' PROVE OrderlyInv'
        <3>1. orderly
            BY <1>2, <2>2
            DEF Next, Answered, Create, Delete, Receive, ReceiveLast, ReceiveBadNext, CallFails,
                vars
        <3>2. OrderlyInv
            BY <1>2, <3>1 DEF ListingInv
        <3> QED
            BY <1>2, <2>2, <3>2, CreateStep, DeleteStep, ReceiveStep, RaiseStep DEF Next, Answered
    <2> QED BY <2>1, <2>2 DEF ListingInv
<1> QED BY <1>1, <1>2, PTL DEF Spec

(* The listing, the received records and the deleted ones keep their shape. *)
THEOREM ListingTypeCorrect == Spec => []TypeOK
<1>1. ListingInv => TypeOK
    BY DEF ListingInv
<1> QED BY <1>1, ListingInvariance, PTL

(* As long as every next page is named as documented, no record is         *)
(* received twice, and no more are missed than were deleted while the      *)
(* pages were fetched.                                                     *)
THEOREM ListingSound == Spec => []ListingIsSound
<1>1. ListingInv => ListingIsSound
    BY DEF ListingInv, OrderlyInv, ListingIsSound, NoneTwice, Ascends
<1> QED BY <1>1, ListingInvariance, PTL
-----------------------------------------------------------------------------
(* Navigation.                                                             *)

(* A visit that goes on has not met a browser that was gone, and a context *)
(* that is only looked at was not opened by this visit.                    *)
VisitInv ==
    /\ VisitIsSound
    /\ command = "current_url" => tab \in {"elsewhere", "nashdom"}

(* A browser that is gone is never taken for a page at fault.              *)
LEMMA GoneIsNoFault ==
    ASSUME browser = "gone", NEW e \in Exceptions, Raises(e)
    PROVE  ~Passes(e)
<1>1. e \in OfGoneBrowser
    BY DEF Raises
<1>2. CASE e \in {Raised("InvalidSessionId"), Raised("ReadTimeout"),
                  Raised("NewConnection"), Raised("Protocol")}
    BY <1>2 DEF Passes, SessionUnavailable, HttpErrors, Raised
<1>3. CASE e \in {WebDriver({"dead"}), WebDriver({"dead", "timed_out"})}
    BY <1>3 DEF Passes, SessionUnavailable, WebDriver
<1>4. CASE e.class = "MaxRetry"
    BY <1>4 DEF Passes, HttpErrors
<1> QED BY <1>1, <1>2, <1>3, <1>4 DEF OfGoneBrowser

(* Only a browser that is gone raises what is taken for a lost session: a  *)
(* network error with a word of a dead browser in it is not.               *)
LEMMA LiveIsNoLoss ==
    ASSUME browser = "alive", NEW e \in Exceptions, Raises(e)
    PROVE  ~SessionUnavailable(e)
<1>1. e \in OfLiveBrowser
    BY DEF Raises
<1>2. CASE e \in {Raised("Timeout"), WebDriver({}), WebDriver({"timed_out"})}
    BY <1>2 DEF SessionUnavailable, Raised, WebDriver
<1>3. CASE e \in {WebDriver({"net_err"} \cup marks) : marks \in SUBSET {"dead", "timed_out"}}
    BY <1>3 DEF SessionUnavailable, WebDriver
<1> QED BY <1>1, <1>2, <1>3 DEF OfLiveBrowser

(* What a command that fails leaves behind, unless the visit goes on.      *)
LEMMA RaisedIsSound ==
    ASSUME VisitInv, Running, NEW e \in Exceptions, Raises(e),
           lost' = (browser = "gone"), UNCHANGED <<operation, browser, tab>>,
           \/ ~Passes(e) /\ RaiseClassified(e)
           \/ Passes(e) /\ Raise("client")
    PROVE  VisitInv'
<1> USE DEF VisitInv, VisitIsSound
<1>1. browser \in {"alive", "gone"} /\ command' = command /\ attempt' = attempt
    BY DEF RaiseClassified, Raise, VisitTypeOK
<1>2. outcome' \in Errors /\ lost' \in BOOLEAN
    BY DEF RaiseClassified, Raise, Errors
<1>3. VisitTypeOK'
    BY <1>1, <1>2 DEF VisitTypeOK
<1>4. outcome' = "session" => browser = "gone"
    BY <1>1, LiveIsNoLoss DEF RaiseClassified, Raise
<1>5. browser = "gone" => outcome' \in {"session", "http"}
    BY GoneIsNoFault DEF RaiseClassified, Raise
<1>6. OkIsUsable'
    BY <1>2 DEF OkIsUsable, Errors
<1>7. LossIsTold'
    BY <1>4, <1>5 DEF LossIsTold
<1> QED BY <1>1, <1>3, <1>6, <1>7

LEMMA VisitInitially == VisitInit => VisitInv
<1> SUFFICES ASSUME VisitInit PROVE VisitInv
    OBVIOUS
<1>1. attempt \in 1..MaxAttempts
    BY MaxAttemptsAssumption DEF VisitInit
<1>2. VisitTypeOK
    BY <1>1 DEF VisitInit, VisitTypeOK, Pages
<1> QED BY <1>2 DEF VisitInit, VisitInv, VisitIsSound, LossIsTold, OkIsUsable

LEMMA FailsStep ==
    ASSUME VisitInv, Running, NEW e \in Exceptions, CommandFails(e)
    PROVE  VisitInv'
<1>1. Raises(e) /\ lost' = (browser = "gone") /\ UNCHANGED <<operation, browser, tab>>
    BY DEF CommandFails
<1>2. \/ ~Passes(e) /\ RaiseClassified(e)
      \/ Passes(e) /\ Raise("client")
    BY DEF CommandFails
<1> QED BY <1>1, <1>2, RaisedIsSound

LEMMA GetFailsStep == ASSUME VisitInv, GetFails PROVE VisitInv'
<1>1. Running /\ UNCHANGED <<operation, browser, tab>>
    BY DEF GetFails
<1>2. PICK e \in Exceptions :
          /\ Raises(e)
          /\ lost' = (browser = "gone")
          /\ CASE ~Passes(e) -> RaiseClassified(e)
               [] Passes(e) /\ ~Transient(e) -> Raise("client")
               [] Passes(e) /\ Transient(e) -> command' = "stop" /\ UNCHANGED <<attempt, outcome>>
    BY DEF GetFails
<1>3. CASE ~Passes(e)
    BY <1>1, <1>2, <1>3, RaisedIsSound
<1>4. CASE Passes(e) /\ ~Transient(e)
    BY <1>1, <1>2, <1>4, RaisedIsSound
<1>5. CASE Passes(e) /\ Transient(e)
    <2>1. command' = "stop" /\ UNCHANGED <<attempt, outcome>>
        BY <1>2, <1>5
    <2>2. browser = "alive" /\ lost' = FALSE
        BY <1>2, <1>5, GoneIsNoFault DEF VisitInv, VisitIsSound, VisitTypeOK
    <2> QED BY <1>1, <2>1, <2>2
            DEF VisitInv, VisitIsSound, VisitTypeOK, LossIsTold, OkIsUsable
<1> QED BY <1>3, <1>4, <1>5

(* After another attempt or the last one.                                  *)
LEMMA RetryIsSound ==
    ASSUME VisitInv, Running, RetryOrGiveUp, lost' = FALSE,
           UNCHANGED <<operation, browser, tab>>
    PROVE  VisitInv'
<1> USE DEF VisitInv, VisitIsSound, VisitTypeOK, LossIsTold, OkIsUsable, Running
<1>1. CASE attempt = MaxAttempts
    BY <1>1 DEF RetryOrGiveUp, Raise, Errors
<1>2. CASE attempt # MaxAttempts
    <2>1. attempt + 1 \in 1..MaxAttempts
        BY <1>2, MaxAttemptsAssumption
    <2> QED BY <1>2, <2>1 DEF RetryOrGiveUp
<1> QED BY <1>1, <1>2

LEMMA StopFailsStep == ASSUME VisitInv, StopFails PROVE VisitInv'
<1>1. Running /\ UNCHANGED <<operation, browser, tab>>
    BY DEF StopFails
<1>2. PICK e \in Exceptions :
          /\ Raises(e)
          /\ lost' = (browser = "gone")
          /\ IF Passes(e) THEN RetryOrGiveUp ELSE RaiseClassified(e)
    BY DEF StopFails
<1>3. CASE ~Passes(e)
    BY <1>1, <1>2, <1>3, RaisedIsSound
<1>4. CASE Passes(e)
    <2>1. lost' = FALSE
        BY <1>2, <1>4, GoneIsNoFault DEF VisitInv, VisitIsSound, VisitTypeOK
    <2> QED BY <1>1, <1>2, <1>4, <2>1, RetryIsSound
<1> QED BY <1>3, <1>4

LEMMA VisitStep == VisitInv /\ [VisitNext]_visitVars => VisitInv'
<1> SUFFICES ASSUME VisitInv, [VisitNext]_visitVars PROVE VisitInv'
    OBVIOUS
<1> USE DEF VisitInv, VisitIsSound
<1>1. ASSUME Running PROVE lost = FALSE
    BY <1>1 DEF LossIsTold, Running, VisitTypeOK
<1>2. CASE ReadUrl
    BY <1>2 DEF ReadUrl, Running, VisitTypeOK, LossIsTold, OkIsUsable, Pages
<1>3. CASE ReadUrlFails
    BY <1>3, FailsStep DEF ReadUrlFails
<1>4. CASE Get
    BY <1>4 DEF Get, Running, VisitTypeOK, LossIsTold, OkIsUsable, Pages
<1>5. CASE GetFails
    BY <1>5, GetFailsStep
<1>6. CASE Stop
    BY <1>1, <1>6, RetryIsSound DEF Stop
<1>7. CASE StopFails
    BY <1>7, StopFailsStep
<1>8. CASE Check
    BY <1>8 DEF Check, Running, VisitTypeOK, LossIsTold, OkIsUsable, Errors
<1>9. CASE CheckFails
    BY <1>9, FailsStep DEF CheckFails
<1>10. CASE Die
    BY <1>10 DEF Die, Running, VisitTypeOK, LossIsTold, OkIsUsable
<1>11. CASE UNCHANGED visitVars
    BY <1>11 DEF visitVars, VisitTypeOK, LossIsTold, OkIsUsable
<1> QED BY <1>2, <1>3, <1>4, <1>5, <1>6, <1>7, <1>8, <1>9, <1>10, <1>11 DEF VisitNext, Commands

(* Navigation: however a visit ends, a lost session is told as one and     *)
(* nothing else is, and a visit that returns shows a page of NashDom.      *)
THEOREM VisitsAreSound == VisitSpec => []VisitIsSound
<1>1. VisitInv => VisitIsSound
    BY DEF VisitInv
<1> QED BY <1>1, VisitInitially, VisitStep, PTL DEF VisitSpec
-----------------------------------------------------------------------------
(* DeveloperRegistry.                                                      *)

(* Of a registry that keeps its order everything before the offset was     *)
(* seen, and nothing after it.                                             *)
Unmoved ==
    ~moved /\ heeds =>
        /\ Distinct(registry)
        /\ phase = "bulk" =>
              /\ bulk_offset <= Len(registry)
              /\ Ids(index) = {registry[i].id : i \in 1..bulk_offset}
        /\ phase = "details" => requested \cap IdsOf(registry) \subseteq Ids(developers)

RegistryInv ==
    /\ RegistryTypeOK
    /\ RequestedOnce
    /\ DetailsOnlyForMoved
    /\ Ids(developers) \subseteq requested
    /\ {r \in index : r.id \in requested} \subseteq developers
    /\ phase = "bulk" => developers \subseteq index
    /\ Unmoved

LEMMA RegistryInitially == RegistryInit => RegistryInv
<1> SUFFICES ASSUME RegistryInit PROVE RegistryInv
    OBVIOUS
<1> USE DEF RegistryInit
<1>1. /\ registry \in Seq([id : 1..KnownDevelopers, version : Nat])
      /\ Distinct(registry)
      /\ KnownDevelopers \in Nat /\ MaxChanges \in Nat
    BY RegistryAssumption
<1>2. registry \in Seq(Records)
    <2>1. [id : 1..KnownDevelopers, version : Nat] \subseteq Records
        BY <1>1 DEF Records
    <2> QED BY <1>1, <2>1, SeqMonotonic
<1>3. Ids(index) = {} /\ Ids(developers) = {}
    BY DEF Ids
<1>4. RegistryTypeOK
    <2>1. changes \in 0..MaxChanges /\ bulk_offset \in Nat
        BY <1>1
    <2>2. moved \in BOOLEAN /\ heeds \in BOOLEAN /\ requested \in Requests /\ phase = "bulk"
        OBVIOUS
    <2>3. index = {} /\ developers = {} /\ detailed = {}
        OBVIOUS
    <2> QED BY <1>2, <2>1, <2>2, <2>3 DEF RegistryTypeOK
<1>5. Unmoved
    <2>1. bulk_offset <= Len(registry) /\ {registry[i].id : i \in 1..bulk_offset} = {}
        BY <1>2, LenProperties
    <2> QED BY <1>1, <1>3, <2>1 DEF Unmoved
<1> QED BY <1>3, <1>4, <1>5 DEF RegistryInv, RequestedOnce, OneVersionEach, DetailsOnlyForMoved

(* What the registry becomes is a registry again.                          *)
LEMMA Inserted ==
    ASSUME NEW list \in Seq(Records), NEW i \in 1..Len(list) + 1, NEW record \in Records
    PROVE  InsertedAt(list, i, record) \in Seq(Records)
<1>1. Len(list) \in Nat /\ \A j \in 1..Len(list) : list[j] \in Records
    BY LenProperties, ElementOfSeq
<1>2. SubSeq(list, 1, i - 1) \in Seq(Records)
    <2>1. \A j \in 1..i - 1 : list[j] \in Records
        BY <1>1
    <2> QED BY <1>1, <2>1, SubSeqProperties
<1>3. SubSeq(list, i, Len(list)) \in Seq(Records)
    <2>1. \A j \in i..Len(list) : list[j] \in Records
        BY <1>1
    <2> QED BY <1>1, <2>1, SubSeqProperties
<1>4. <<record>> \in Seq(Records)
    OBVIOUS
<1>5. SubSeq(list, 1, i - 1) \o <<record>> \in Seq(Records)
    BY <1>2, <1>4, ConcatProperties
<1> QED BY <1>3, <1>5, ConcatProperties DEF InsertedAt

LEMMA ChangeKeeps ==
    ASSUME RegistryInv, NEW list \in Seq(Records), Change(list),
           \/ moved' = TRUE
           \/ /\ moved' = moved
              /\ Len(list) = Len(registry)
              /\ \A i \in 1..Len(list) : list[i].id = registry[i].id
    PROVE  RegistryInv'
<1> USE DEF RegistryInv
<1>1. /\ registry' = list /\ changes' = changes + 1 /\ changes < MaxChanges /\ ~ReadingOver
      /\ UNCHANGED <<heeds, requested, phase, bulk_offset, index, developers, detailed>>
    BY DEF Change
<1>2. RegistryTypeOK'
    <2>1. changes' \in 0..MaxChanges
        BY <1>1, RegistryAssumption DEF RegistryTypeOK
    <2>2. moved' \in BOOLEAN
        BY DEF RegistryTypeOK
    <2>3. registry' \in Seq(Records)
        BY <1>1
    <2> QED BY <1>1, <2>1, <2>2, <2>3 DEF RegistryTypeOK
<1>3. RequestedOnce' /\ (Ids(developers) \subseteq requested)'
      /\ ({r \in index : r.id \in requested} \subseteq developers)'
      /\ (phase = "bulk" => developers \subseteq index)'
    BY <1>1 DEF RequestedOnce, OneVersionEach, Ids
<1>4. moved' \/ moved' = moved
    OBVIOUS
<1>5. DetailsOnlyForMoved'
    BY <1>1, <1>4 DEF DetailsOnlyForMoved, RegistryTypeOK
<1>6. ASSUME ~moved', heeds' PROVE Unmoved'
    <2>1. /\ ~moved /\ heeds /\ Len(list) = Len(registry)
          /\ \A i \in 1..Len(list) : list[i].id = registry[i].id
        BY <1>1, <1>6
    <2>2. DOMAIN list = 1..Len(list) /\ DOMAIN registry = 1..Len(registry) /\ Len(list) \in Nat
        BY LenProperties DEF RegistryTypeOK
    <2>3. Distinct(list)
        BY <2>1, <2>2 DEF Unmoved, Distinct
    <2>4. IdsOf(list) = IdsOf(registry)
        BY <2>1, <2>2 DEF IdsOf, Entries
    <2>5. ASSUME phase = "bulk"
          PROVE  {list[i].id : i \in 1..bulk_offset} = {registry[i].id : i \in 1..bulk_offset}
        <3>1. bulk_offset \in Nat /\ bulk_offset <= Len(list)
            BY <2>1, <2>5 DEF Unmoved, RegistryTypeOK
        <3>2. \A i \in 1..bulk_offset : list[i].id = registry[i].id
            BY <2>1, <2>2, <3>1
        <3> QED BY <3>2
    <2>6. Ids(index)' = Ids(index) /\ Ids(developers)' = Ids(developers)
        BY <1>1 DEF Ids
    <2> QED BY <1>1, <2>1, <2>3, <2>4, <2>5, <2>6 DEF Unmoved
<1>7. Unmoved'
    BY <1>6 DEF Unmoved
<1> QED BY <1>2, <1>3, <1>5, <1>7

LEMMA SiteStep ==
    ASSUME RegistryInv, Enter \/ StrikeOff \/ Edit \/ Rename
    PROVE  RegistryInv'
<1>1. /\ registry \in Seq(Records) /\ changes \in Nat /\ Len(registry) \in Nat
      /\ DOMAIN registry = 1..Len(registry)
      /\ \A i \in 1..Len(registry) : registry[i] \in Records
    BY LenProperties, ElementOfSeq DEF RegistryInv, RegistryTypeOK
<1>2. CASE Enter
    <2>1. PICK i \in 1..Len(registry) + 1 :
              Change(InsertedAt(registry, i, Newcomer)) /\ moved' = TRUE
        BY <1>2 DEF Enter
    <2>2. Newcomer \in Records
        BY <1>1, RegistryAssumption DEF Newcomer, Records
    <2> QED BY <1>1, <2>1, <2>2, Inserted, ChangeKeeps
<1>3. CASE StrikeOff
    <2>1. PICK i \in DOMAIN registry : Change(Without(registry, i)) /\ moved' = TRUE
        BY <1>3 DEF StrikeOff
    <2>2. Without(registry, i) \in Seq(Records)
        BY <1>1, WithoutOne
    <2> QED BY <2>1, <2>2, ChangeKeeps
<1>4. CASE Edit
    <2>1. PICK i \in 1..Len(registry) :
              /\ Change([registry EXCEPT ![i].version = @ + 1])
              /\ moved' = moved
        BY <1>1, <1>4 DEF Edit
    <2> DEFINE edited == [registry[i] EXCEPT !.version = @ + 1]
               list == [registry EXCEPT ![i] = edited]
    <2>2. edited \in Records /\ edited.id = registry[i].id
        BY <1>1 DEF Records
    <2>3. [registry EXCEPT ![i].version = @ + 1] = list
        OBVIOUS
    <2> HIDE DEF edited
    <2>4. /\ list \in Seq(Records) /\ Len(list) = Len(registry)
          /\ \A j \in 1..Len(registry) : list[j] = IF j = i THEN edited ELSE registry[j]
        BY <1>1, <2>2, ExceptSeq
    <2>5. \A j \in 1..Len(list) : list[j].id = registry[j].id
        BY <2>2, <2>4
    <2> HIDE DEF list
    <2> QED BY <2>1, <2>3, <2>4, <2>5, ChangeKeeps
<1>5. CASE Rename
    <2>1. PICK i \in DOMAIN registry, j \in DOMAIN registry :
              /\ Change(InsertedAt(Without(registry, i), j,
                                   [registry[i] EXCEPT !.version = @ + 1]))
              /\ moved' = TRUE
        BY <1>5 DEF Rename
    <2>2. [registry[i] EXCEPT !.version = @ + 1] \in Records
        <3>1. registry[i] \in Records
            BY <1>1
        <3> QED BY <3>1 DEF Records
    <2>3. Without(registry, i) \in Seq(Records) /\ Len(Without(registry, i)) = Len(registry) - 1
        BY <1>1, WithoutOne
    <2>4. j \in 1..Len(Without(registry, i)) + 1
        BY <1>1, <2>3
    <2> QED BY <2>1, <2>2, <2>3, <2>4, Inserted, ChangeKeeps
<1> QED BY <1>2, <1>3, <1>4, <1>5

(* What a batch holds.                                                     *)
LEMMA BatchFacts ==
    ASSUME RegistryInv,
           NEW from \in Nat, from = (IF heeds THEN bulk_offset ELSE 0)
    PROVE  \E end \in Nat :
              /\ end = IF from + DeveloperBatchSize < Len(registry)
                       THEN from + DeveloperBatchSize ELSE Len(registry)
              /\ Batch \in Seq(Records)
              /\ Len(Batch) = IF from < end THEN end - from ELSE 0
              /\ DOMAIN Batch = 1..Len(Batch)
              /\ \A i \in 1..Len(Batch) : Batch[i] = registry[from + i]
<1>1. registry \in Seq(Records) /\ Len(registry) \in Nat /\ DeveloperBatchSize \in Nat
    BY LenProperties, RegistryAssumption DEF RegistryInv, RegistryTypeOK
<1>2. PICK end \in Nat : end = IF from + DeveloperBatchSize < Len(registry)
                               THEN from + DeveloperBatchSize ELSE Len(registry)
    BY <1>1
<1>3. end <= Len(registry) /\ Batch = SubSeq(registry, from + 1, end)
    BY <1>1, <1>2 DEF Batch
<1>4. /\ Batch \in Seq(Records)
      /\ Len(Batch) = IF from < end THEN end - from ELSE 0
      /\ DOMAIN Batch = 1..Len(Batch)
      /\ \A i \in 1..Len(Batch) : Batch[i] = registry[from + i]
    BY <1>1, <1>3, PartOfList
<1> QED BY <1>2, <1>4

LEMMA BulkStep == ASSUME RegistryInv, ReceiveBulk PROVE RegistryInv'
<1> USE DEF RegistryInv
<1> DEFINE batch == Entries(Batch)
           found == developers \cup {r \in batch : r.id \in requested}
<1>1. /\ phase = "bulk" /\ ~Differs(Batch)
      /\ developers' = found
      /\ phase' = IF BulkEnds(Batch, found) THEN "details" ELSE "bulk"
      /\ index' = index \cup batch
      /\ bulk_offset' = IF phase' = "bulk" THEN bulk_offset + Len(Batch) ELSE bulk_offset
      /\ UNCHANGED <<registry, changes, moved, heeds, requested, detailed>>
    BY DEF ReceiveBulk, registrySite
<1>2. PICK from \in Nat : from = IF heeds THEN bulk_offset ELSE 0
    BY DEF RegistryTypeOK
<1>3. PICK end \in Nat :
          /\ end = IF from + DeveloperBatchSize < Len(registry)
                   THEN from + DeveloperBatchSize ELSE Len(registry)
          /\ Batch \in Seq(Records)
          /\ Len(Batch) = IF from < end THEN end - from ELSE 0
          /\ DOMAIN Batch = 1..Len(Batch)
          /\ \A i \in 1..Len(Batch) : Batch[i] = registry[from + i]
    BY <1>2, BatchFacts
<1>4. batch \subseteq Records
    BY <1>3, ElementOfSeq DEF Entries
<1>5. Len(Batch) \in Nat /\ Len(registry) \in Nat /\ DeveloperBatchSize \in Nat \ {0}
    BY <1>3, LenProperties, RegistryAssumption DEF RegistryTypeOK
<1> HIDE DEF batch
<1>6. RegistryTypeOK'
    BY <1>1, <1>4, <1>5 DEF RegistryTypeOK
<1>7. developers' \subseteq index'
    BY <1>1
<1>8. (Ids(developers) \subseteq requested)'
    BY <1>1 DEF Ids
<1>9. ({r \in index : r.id \in requested} \subseteq developers)'
    BY <1>1
<1>10. RequestedOnce'
    <2>1. phase' # "ok"
        BY <1>1
    <2>2. \A r, s \in index : r.id = s.id => r = s
        BY DEF RequestedOnce, OneVersionEach
    <2>3. \A r \in batch, s \in index \cup batch : r.id = s.id => r.version = s.version
        BY <1>1 DEF Differs, batch
    <2>4. \A r, s \in index \cup batch : r.id = s.id => r = s
        <3> SUFFICES ASSUME NEW r \in index \cup batch, NEW s \in index \cup batch, r.id = s.id
                     PROVE  r = s
            OBVIOUS
        <3>1. r \in Records /\ s \in Records
            BY <1>4 DEF RegistryTypeOK
        <3>2. r = s \/ r.version = s.version
            BY <2>2, <2>3
        <3> QED BY <3>1, <3>2 DEF Records
    <2> QED BY <1>1, <1>7, <2>1, <2>4 DEF RequestedOnce, OneVersionEach
<1>11. DetailsOnlyForMoved'
    BY <1>1 DEF DetailsOnlyForMoved
<1>12. ASSUME ~moved, heeds PROVE Unmoved'
    <2>1. /\ Distinct(registry) /\ bulk_offset <= Len(registry) /\ from = bulk_offset
          /\ Ids(index) = {registry[i].id : i \in 1..from}
        BY <1>1, <1>2, <1>12 DEF Unmoved
    <2>2. DOMAIN registry = 1..Len(registry)
        BY LenProperties DEF RegistryTypeOK
    <2>3. Len(Batch) = end - from /\ from <= end /\ end <= Len(registry)
        BY <1>3, <1>5, <2>1
    <2>4. Ids(batch) = {registry[i].id : i \in from + 1..end}
        <3>1. \A i \in from + 1..end : i - from \in 1..Len(Batch) /\ from + (i - from) = i
            BY <2>3
        <3>2. \A i \in 1..Len(Batch) : from + i \in from + 1..end
            BY <2>3
        <3>3. Ids(batch) = {Batch[i].id : i \in 1..Len(Batch)}
            BY <1>3 DEF Ids, Entries, batch
        <3>4. \A i \in 1..Len(Batch) : Batch[i] = registry[from + i]
            BY <1>3
        <3>5. \A i \in from + 1..end : registry[i].id \in {Batch[j].id : j \in 1..Len(Batch)}
            BY <3>1, <3>4
        <3>6. \A j \in 1..Len(Batch) :
                  \E i \in from + 1..end : Batch[j].id = registry[i].id
            BY <3>2, <3>4
        <3> HIDE DEF batch
        <3> QED BY <3>3, <3>5, <3>6
    <2>5. Ids(index') = {registry[i].id : i \in 1..end}
        <3>1. Ids(index') = Ids(index) \cup Ids(batch)
            BY <1>1 DEF Ids
        <3>2. 1..end = (1..from) \cup (from + 1..end)
            BY <2>3
        <3> QED BY <2>1, <2>4, <3>1, <3>2
    <2>6. ASSUME phase' = "bulk" PROVE bulk_offset' = end
        BY <1>1, <2>1, <2>3, <2>6
    <2>7. ASSUME phase' = "details"
          PROVE  requested \cap IdsOf(registry) \subseteq Ids(developers')
        <3>1. BulkEnds(Batch, found)
            BY <1>1, <2>7
        <3>2. ASSUME IdsOf(registry) \subseteq Ids(index')
              PROVE  requested \cap IdsOf(registry) \subseteq Ids(developers')
            BY <1>9, <1>1, <3>2 DEF Ids
        <3>3. CASE requested \subseteq Ids(found)
            BY <1>1, <3>3
        <3>4. CASE Len(Batch) < DeveloperBatchSize
            <4>1. end = Len(registry)
                BY <1>3, <1>5, <2>3, <3>4
            <4>2. IdsOf(registry) \subseteq Ids(index')
                BY <2>2, <2>5, <4>1 DEF IdsOf, Entries
            <4> QED BY <3>2, <4>2
        <3>5. CASE Len(Batch) >= DeveloperBatchSize /\ Ids(batch) \subseteq Ids(index)
            <4>1. from + 1 \in from + 1..end /\ from + 1 \in 1..Len(registry)
                BY <1>5, <2>3, <3>5
            <4>2. registry[from + 1].id \in Ids(index)
                BY <2>4, <3>5, <4>1
            <4>3. PICK i \in 1..from : registry[i].id = registry[from + 1].id
                BY <2>1, <4>2
            <4>4. i \in 1..Len(registry) /\ i # from + 1
                BY <2>3, <1>5
            <4> QED BY <2>1, <2>2, <4>1, <4>3, <4>4 DEF Distinct
        <3> QED BY <3>1, <3>3, <3>4, <3>5, <1>5 DEF BulkEnds, batch
    <2>8. Ids(index)' = Ids(index') /\ Ids(developers)' = Ids(developers')
        BY DEF Ids
    <2> QED BY <1>1, <2>1, <2>3, <2>5, <2>6, <2>7, <2>8 DEF Unmoved
<1>13. Unmoved'
    BY <1>1, <1>12 DEF Unmoved
<1> QED BY <1>6, <1>7, <1>8, <1>9, <1>10, <1>11, <1>13

LEMMA DetailStep == ASSUME RegistryInv, ReadDetail PROVE RegistryInv'
<1> USE DEF RegistryInv
<1>1. /\ phase = "details" /\ Missing # {}
      /\ detailed' = detailed \cup {NextMissing}
      /\ UNCHANGED <<registry, changes, moved, heeds, requested, phase, bulk_offset, index>>
    BY DEF ReadDetail, registrySite
<1>2. PICK r \in Shown(NextMissing) : developers' = developers \cup {r}
    BY DEF ReadDetail
<1>3. NextMissing \in Missing
    <2>1. Missing \subseteq Nat
        BY RegistryAssumption DEF Missing, RegistryTypeOK
    <2>2. \E id \in Missing : \A other \in Missing : id <= other
        BY <1>1, <2>1, LeastOf
    <2> QED BY <2>2 DEF NextMissing
<1>4. r \in Entries(registry) /\ r.id = NextMissing
    BY DEF Shown
<1>5. r \in Records
    BY <1>4, LenProperties, ElementOfSeq DEF Entries, RegistryTypeOK
<1>6. r.id \in requested /\ r.id \notin Ids(developers)
    BY <1>3, <1>4 DEF Missing
<1>7. r.id \notin Ids(index)
    BY <1>6 DEF Ids
<1>8. RegistryTypeOK'
    BY <1>1, <1>2, <1>4, <1>5, <1>6 DEF RegistryTypeOK
<1>9. RequestedOnce'
    <2>1. \A s \in index \cup developers : s.id # r.id
        BY <1>6, <1>7 DEF Ids
    <2>2. \A s, t \in index \cup developers : s.id = t.id => s = t
        BY DEF RequestedOnce, OneVersionEach
    <2>3. OneVersionEach'
        BY <1>1, <1>2, <2>1, <2>2 DEF OneVersionEach
    <2> QED BY <1>1, <2>3 DEF RequestedOnce
<1>10. (Ids(developers) \subseteq requested)'
    BY <1>1, <1>2, <1>6 DEF Ids
<1>11. ({s \in index : s.id \in requested} \subseteq developers)'
    BY <1>1, <1>2
<1>12. moved \/ ~heeds
    <2>1. r.id \in IdsOf(registry)
        BY <1>4 DEF IdsOf
    <2> QED BY <1>1, <1>6, <2>1 DEF Unmoved
<1> QED BY <1>1, <1>8, <1>9, <1>10, <1>11, <1>12 DEF DetailsOnlyForMoved, Unmoved

LEMMA RegistryEndStep ==
    ASSUME RegistryInv, ReceiveDiffering \/ DetailNotFound \/ Return \/ ReadingFails
    PROVE  RegistryInv'
<1> USE DEF RegistryInv
<1>1. /\ phase' \in {"ok", "raised"}
      /\ UNCHANGED <<registry, changes, moved, heeds, requested, bulk_offset, index, developers,
                     detailed>>
    BY DEF ReceiveDiffering, DetailNotFound, Return, ReadingFails, registrySite
<1>2. phase' = "ok" => requested \subseteq Ids(developers)
    BY DEF ReceiveDiffering, DetailNotFound, Return, ReadingFails, Missing
<1>3. RegistryTypeOK'
    BY <1>1 DEF RegistryTypeOK
<1>4. RequestedOnce'
    BY <1>1, <1>2 DEF RequestedOnce, OneVersionEach, Ids
<1>5. Unmoved'
    BY <1>1 DEF Unmoved
<1> QED BY <1>1, <1>3, <1>4, <1>5 DEF DetailsOnlyForMoved, Ids

LEMMA RegistryStep == RegistryInv /\ [RegistryNext]_registryVars => RegistryInv'
<1> SUFFICES ASSUME RegistryInv, [RegistryNext]_registryVars PROVE RegistryInv'
    OBVIOUS
<1>1. CASE UNCHANGED registryVars
    <2>1. UNCHANGED <<registry, changes, moved, heeds, requested, phase, bulk_offset, index,
                      developers, detailed>>
        BY <1>1 DEF registryVars, registrySite
    <2>2. RegistryTypeOK' /\ RequestedOnce' /\ DetailsOnlyForMoved'
        BY <2>1 DEF RegistryInv, RegistryTypeOK, RequestedOnce, OneVersionEach,
                    DetailsOnlyForMoved, Ids
    <2>3. Unmoved'
        BY <2>1 DEF RegistryInv, Unmoved, Ids
    <2> QED BY <2>1, <2>2, <2>3 DEF RegistryInv, Ids
<1>2. CASE RegistryNext
    BY <1>2, BulkStep, DetailStep, RegistryEndStep, SiteStep DEF RegistryNext, RegistryAnswered
<1> QED BY <1>1, <1>2

LEMMA RegistryInvariance == RegistrySpec => []RegistryInv
BY RegistryInitially, RegistryStep, PTL DEF RegistrySpec

(* DeveloperRegistry: whatever moves while the registry is read, a call    *)
(* that returns has each developer it was asked for, in one version.       *)
THEOREM DevelopersReadOnce == RegistrySpec => []RequestedOnce
<1>1. RegistryInv => RequestedOnce
    BY DEF RegistryInv
<1> QED BY <1>1, RegistryInvariance, PTL

(* DeveloperRegistry: no page of a developer is opened if the registry     *)
(* kept its order and its API heeds the offset.                            *)
THEOREM NoDetailsUnmoved == RegistrySpec => []DetailsOnlyForMoved
<1>1. RegistryInv => DetailsOnlyForMoved
    BY DEF RegistryInv
<1> QED BY <1>1, RegistryInvariance, PTL
-----------------------------------------------------------------------------
(* ObjectListing.                                                          *)

(* What the region's listing held at some time since it was first read.    *)
Ever == IdsOf(Current) \cup removed

(* The objects that were behind the wanted ones.                           *)
Beyond == {id \in Ever : id <= newest /\ id \notin IdsOf(wanted)}

Tracked ==
    /\ wanted \in Seq(Objects) /\ NewestFirst(wanted)
    /\ newest \in 0..published /\ removed \subseteq 1..published
    /\ IdsOf(wanted) \subseteq Ever
    /\ \A w \in IdsOf(wanted) : w <= newest /\ \A id \in Beyond : id < w

(* To come within reach, an object that was behind them needs that as many *)
(* are removed as there are from the wanted ones down to it.               *)
Paid ==
    \A b \in IdsOf(objects) \cap Beyond :
        Cardinality({id \in Beyond : b <= id}) <= Cardinality(removed)

(* Is the listing being followed?                                          *)
UnderWay == pc = "page" \/ (pc = "fetch" /\ total # Unknown)

Followed == UnderWay => Tracked /\ Paid /\ IdsOf(objects) \subseteq Ever

Fetching ==
    pc = "fetch" /\ total # Unknown =>
        /\ Len(wanted) = Least(Target, total)
        /\ Len(objects) < Len(wanted)
        /\ offset = Len(objects)

Fresh ==
    pc \in {"open", "page"} \/ (pc = "fetch" /\ total = Unknown) =>
        objects = <<>> /\ total = Unknown /\ offset = 0

PageRead ==
    pc = "page" =>
        /\ Len(page) >= Target => First(page, Target) = wanted
        /\ Len(page) < Target /\ Len(wanted) <= Len(page) => page = wanted

ObjectsInv ==
    /\ ObjectsAreExplained
    /\ \A r \in Regions : NewestFirst(listing[r])
    /\ Followed /\ Fetching /\ Fresh /\ PageRead
-----------------------------------------------------------------------------
(* Counting.                                                               *)

LEMMA IdsByPlace ==
    ASSUME NEW S, NEW list \in Seq(S)
    PROVE  /\ Len(list) \in Nat /\ DOMAIN list = 1..Len(list)
           /\ IdsOf(list) = {list[i].id : i \in 1..Len(list)}
<1>1. Len(list) \in Nat /\ DOMAIN list = 1..Len(list)
    BY LenProperties
<1> QED BY <1>1 DEF IdsOf, Entries

(* Of n distinct objects there are n ids.                                  *)
LEMMA DistinctCount ==
    ASSUME NEW list, NEW n \in Nat,
           \A i, j \in 1..n : i # j => list[i].id # list[j].id
    PROVE  /\ IsFiniteSet({list[i].id : i \in 1..n})
           /\ Cardinality({list[i].id : i \in 1..n}) = n
<1> DEFINE ids == {list[i].id : i \in 1..n}
           f == [i \in 1..n |-> list[i].id]
<1>1. f \in Bijection(1..n, ids)
    <2>1. f \in [1..n -> ids]
        OBVIOUS
    <2>2. \A i, j \in 1..n : f[i] = f[j] => i = j
        OBVIOUS
    <2>3. \A v \in ids : \E i \in 1..n : f[i] = v
        OBVIOUS
    <2> QED BY <2>1, <2>2, <2>3 DEF Bijection, Injection, IsInjective, Surjection
<1>2. IsFiniteSet(1..n) /\ Cardinality(1..n) = n
    BY FS_Interval
<1> QED BY <1>1, <1>2, FS_Bijection DEF ExistsBijection

(* An object at one of the first places, as many as there are wanted ones, *)
(* that was behind these: as many are gone as there are from them down to  *)
(* it.                                                                     *)
LEMMA PaidWithinReach ==
    ASSUME NEW list, NEW n \in Nat, DOMAIN list = 1..n, NewestFirst(list),
           \A i \in 1..n : list[i].id \in Nat,
           NEW W \in SUBSET Nat, IsFiniteSet(W), NEW taken \in SUBSET Nat, IsFiniteSet(taken),
           W \subseteq IdsOf(list) \cup taken,
           NEW p \in 1..n, p <= Cardinality(W),
           list[p].id \notin W, \A w \in W : list[p].id < w,
           NEW behind, behind \subseteq (IdsOf(list) \cup taken) \ W
    PROVE  Cardinality({id \in behind : list[p].id <= id}) <= Cardinality(taken)
<1> DEFINE b == list[p].id
           front == {list[i].id : i \in 1..p}
           A == {id \in behind : b <= id}
<1>1. IsFiniteSet(front) /\ Cardinality(front) = p
    <2>1. \A i, j \in 1..p : i # j => list[i].id # list[j].id
        <3> SUFFICES ASSUME NEW i \in 1..p, NEW j \in 1..p, i # j
                     PROVE  list[i].id # list[j].id
            OBVIOUS
        <3>1. i \in 1..n /\ j \in 1..n
            OBVIOUS
        <3>2. i < j => list[i].id > list[j].id
            BY <3>1 DEF NewestFirst
        <3>3. j < i => list[j].id > list[i].id
            BY <3>1 DEF NewestFirst
        <3>4. list[i].id \in Nat /\ list[j].id \in Nat
            BY <3>1
        <3> QED BY <3>2, <3>3, <3>4
    <2>2. p \in Nat
        OBVIOUS
    <2> HIDE DEF A
    <2> QED BY <2>1, <2>2, DistinctCount
<1>2. ASSUME NEW id \in IdsOf(list), b <= id PROVE id \in front
    <2>1. PICK i \in 1..n : list[i].id = id
        BY DEF IdsOf, Entries
    <2>2. i <= p
        <3> SUFFICES ASSUME p < i PROVE FALSE
            OBVIOUS
        <3>1. list[p].id > list[i].id
            BY DEF NewestFirst
        <3>2. b \in Nat /\ id \in Nat
            BY <2>1
        <3> QED BY <1>2, <2>1, <3>1, <3>2
    <2> QED BY <2>1, <2>2
<1>3. W \subseteq (front \cap W) \cup (W \cap taken)
    <2> SUFFICES ASSUME NEW w \in W, w \notin taken PROVE w \in front
        OBVIOUS
    <2>1. w \in IdsOf(list) /\ b < w /\ w \in Nat /\ b \in Nat
        OBVIOUS
    <2> QED BY <2>1, <1>2
<1>4. A \subseteq (front \ W) \cup (taken \ W)
    BY <1>2
<1> HIDE DEF front, A
<1> DEFINE fw == front \cap W
           gw == W \cap taken
           fo == front \ W
           go == taken \ W
<1>5. IsFiniteSet(fw) /\ IsFiniteSet(gw) /\ IsFiniteSet(fo) /\ IsFiniteSet(go)
    BY <1>1, FS_Subset
<1>6. Cardinality(fo) = p - Cardinality(fw)
    BY <1>1, FS_Difference
<1>7. Cardinality(go) = Cardinality(taken) - Cardinality(gw)
    <2>1. taken \cap W = gw
        OBVIOUS
    <2>2. Cardinality(taken \ W) = Cardinality(taken) - Cardinality(taken \cap W)
        BY FS_Difference
    <2> QED BY <2>1, <2>2
<1>8. Cardinality(W) <= Cardinality(fw) + Cardinality(gw)
    <2>1. IsFiniteSet(fw \cup gw)
          /\ Cardinality(fw \cup gw)
                = Cardinality(fw) + Cardinality(gw) - Cardinality(fw \cap gw)
        BY <1>5, FS_Union
    <2>2. Cardinality(W) <= Cardinality(fw \cup gw)
        BY <1>3, <2>1, FS_Subset
    <2>3. IsFiniteSet(fw \cap gw)
        BY <1>5, FS_Subset
    <2>4. /\ Cardinality(fw \cap gw) \in Nat /\ Cardinality(W) \in Nat
          /\ Cardinality(fw \cup gw) \in Nat
          /\ Cardinality(fw) \in Nat /\ Cardinality(gw) \in Nat
        BY <1>5, <2>1, <2>3, FS_CardinalityType
    <2> QED BY <2>1, <2>2, <2>4
<1>9. Cardinality(A) <= Cardinality(fo) + Cardinality(go)
    <2>1. IsFiniteSet(fo \cup go)
          /\ Cardinality(fo \cup go)
                = Cardinality(fo) + Cardinality(go) - Cardinality(fo \cap go)
        BY <1>5, FS_Union
    <2>2. IsFiniteSet(A) /\ Cardinality(A) <= Cardinality(fo \cup go)
        BY <1>4, <2>1, FS_Subset
    <2>3. IsFiniteSet(fo \cap go)
        BY <1>5, FS_Subset
    <2>4. /\ Cardinality(fo \cap go) \in Nat /\ Cardinality(A) \in Nat
          /\ Cardinality(fo \cup go) \in Nat
          /\ Cardinality(fo) \in Nat /\ Cardinality(go) \in Nat
        BY <1>5, <2>1, <2>2, <2>3, FS_CardinalityType
    <2> QED BY <2>1, <2>2, <2>4
<1>10. IsFiniteSet(A)
    <2>1. IsFiniteSet(fo \cup go)
        BY <1>5, FS_Union
    <2> QED BY <1>4, <2>1, FS_Subset
<1>11. /\ Cardinality(A) \in Nat /\ Cardinality(W) \in Nat /\ Cardinality(taken) \in Nat
       /\ Cardinality(fw) \in Nat /\ Cardinality(gw) \in Nat
       /\ Cardinality(fo) \in Nat /\ Cardinality(go) \in Nat
    BY <1>5, <1>10, FS_CardinalityType
<1>12. Cardinality(A) <= Cardinality(taken)
    <2> HIDE DEF fw, gw, fo, go
    <2> QED BY <1>6, <1>7, <1>8, <1>9, <1>11
<1> QED BY <1>12 DEF A

(* As many objects as are wanted: those missed are no more than the gone   *)
(* and the newer ones, if each of the others was paid for.                 *)
LEMMA MissedForACause ==
    ASSUME NEW W \in SUBSET Nat, IsFiniteSet(W), NEW taken \in SUBSET Nat, IsFiniteSet(taken),
           NEW O \in SUBSET Nat, IsFiniteSet(O), Cardinality(O) = Cardinality(W),
           NEW new \in Nat, \A w \in W : w <= new,
           NEW behind \in SUBSET Nat, IsFiniteSet(behind),
           \A id \in O : id <= new /\ id \notin W => id \in behind,
           \A b \in O \cap behind :
               Cardinality({id \in behind : b <= id}) <= Cardinality(taken)
    PROVE  Cardinality(W \ (O \cup taken))
              <= Cardinality(taken) + Cardinality({id \in O : id > new})
<1> DEFINE C == O \cap behind
           N == {id \in O : id > new}
           M == W \ (O \cup taken)
<1>1. IsFiniteSet(C) /\ IsFiniteSet(N) /\ IsFiniteSet(M) /\ IsFiniteSet(O \ W)
      /\ IsFiniteSet(W \ O) /\ IsFiniteSet(O \cap W)
    BY FS_Subset
<1>2. Cardinality(C) <= Cardinality(taken)
    <2>1. CASE C = {}
        <3>1. Cardinality(C) = 0
            BY <2>1, FS_EmptySet
        <3>2. Cardinality(taken) \in Nat
            BY FS_CardinalityType
        <3> QED BY <3>1, <3>2
    <2>2. CASE C # {}
        <3>1. PICK b \in C : \A other \in C : b <= other
            BY <2>2, LeastOf
        <3> DEFINE down == {id \in behind : b <= id}
        <3>2. C \subseteq down /\ down \subseteq behind
            BY <3>1
        <3>3. IsFiniteSet(down)
            BY <3>2, FS_Subset
        <3>4. Cardinality(C) <= Cardinality(down)
            BY <3>2, <3>3, FS_Subset
        <3>5. Cardinality(down) <= Cardinality(taken)
            OBVIOUS
        <3>6. /\ Cardinality(C) \in Nat /\ Cardinality(down) \in Nat
              /\ Cardinality(taken) \in Nat
            BY <1>1, <3>3, FS_CardinalityType
        <3> QED BY <3>4, <3>5, <3>6
    <2> QED BY <2>1, <2>2
<1>3. O \ W \subseteq N \cup C
    OBVIOUS
<1>4. Cardinality(O \ W) <= Cardinality(N) + Cardinality(C)
    <2>1. IsFiniteSet(N \cup C)
          /\ Cardinality(N \cup C) = Cardinality(N) + Cardinality(C) - Cardinality(N \cap C)
        BY <1>1, FS_Union
    <2>2. Cardinality(O \ W) <= Cardinality(N \cup C)
        BY <1>3, <2>1, FS_Subset
    <2>3. IsFiniteSet(N \cap C)
        BY <1>1, FS_Subset
    <2>4. /\ Cardinality(N \cup C) \in Nat /\ Cardinality(N \cap C) \in Nat
          /\ Cardinality(N) \in Nat /\ Cardinality(C) \in Nat
          /\ Cardinality(O \ W) \in Nat
        BY <1>1, <2>1, <2>3, FS_CardinalityType
    <2> HIDE DEF N, C
    <2> QED BY <2>1, <2>2, <2>4
<1>5. Cardinality(W \ O) = Cardinality(O \ W)
    <2>1. Cardinality(W \ O) = Cardinality(W) - Cardinality(W \cap O)
        BY FS_Difference
    <2>2. Cardinality(O \ W) = Cardinality(O) - Cardinality(O \cap W)
        BY FS_Difference
    <2>3. W \cap O = O \cap W
        OBVIOUS
    <2> QED BY <2>1, <2>2, <2>3
<1>6. Cardinality(M) <= Cardinality(W \ O)
    <2>1. M \subseteq W \ O
        OBVIOUS
    <2> QED BY <1>1, <2>1, FS_Subset
<1>7. /\ Cardinality(M) \in Nat /\ Cardinality(W \ O) \in Nat /\ Cardinality(N) \in Nat
      /\ Cardinality(C) \in Nat /\ Cardinality(taken) \in Nat
    BY <1>1, FS_CardinalityType
<1>8. Cardinality(M) <= Cardinality(taken) + Cardinality(N)
    <2> HIDE DEF M, N, C
    <2> QED BY <1>2, <1>4, <1>5, <1>6, <1>7
<1> QED BY <1>8
-----------------------------------------------------------------------------
LEMMA ObjectsShape ==
    ASSUME ObjectsTypeOK
    PROVE  /\ Target \in Nat \ {0} /\ BatchSize \in Nat \ {0} /\ published \in Nat
           /\ Current \in Seq(Objects)
           /\ Len(Current) \in Nat /\ DOMAIN Current = 1..Len(Current)
           /\ \A i \in 1..Len(Current) : Current[i] \in Objects /\ Current[i].id \in 1..published
           /\ IdsOf(Current) \subseteq 1..published
           /\ IdsOf(Current) = {Current[i].id : i \in 1..Len(Current)}
<1>1. Target \in Nat \ {0} /\ BatchSize \in Nat \ {0}
    BY SizesAssumption
<1>2. published \in Nat /\ Current \in Seq(Objects)
    BY DEF ObjectsTypeOK, Current
<1>3. Len(Current) \in Nat /\ DOMAIN Current = 1..Len(Current)
    BY <1>2, LenProperties
<1>4. \A i \in 1..Len(Current) : Current[i] \in Objects
    BY <1>2, ElementOfSeq
<1>5. \A i \in 1..Len(Current) : Current[i].id \in 1..published
    BY <1>4 DEF Objects
<1>6. IdsOf(Current) = {Current[i].id : i \in 1..Len(Current)}
    BY <1>3 DEF IdsOf, Entries
<1> QED BY <1>1, <1>2, <1>3, <1>4, <1>5, <1>6

(* A listing has no more objects than there ever were.                     *)
LEMMA CurrentLength ==
    ASSUME ObjectsInv
    PROVE  Len(Current) <= published /\ Len(Current) \in 0..MaxObject
<1>1. ObjectsTypeOK /\ NewestFirst(Current)
    BY DEF ObjectsInv, ObjectsAreExplained, ObjectsTypeOK, Current
<1>2. /\ Len(Current) \in Nat /\ DOMAIN Current = 1..Len(Current) /\ published \in Nat
      /\ \A i \in 1..Len(Current) : Current[i].id \in 1..published
    BY <1>1, ObjectsShape
<1>3. \A i, j \in 1..Len(Current) : i # j => Current[i].id # Current[j].id
    <2> SUFFICES ASSUME NEW i \in 1..Len(Current), NEW j \in 1..Len(Current), i # j
                 PROVE  Current[i].id # Current[j].id
        OBVIOUS
    <2>1. i < j => Current[i].id > Current[j].id
        BY <1>1, <1>2 DEF NewestFirst
    <2>2. j < i => Current[j].id > Current[i].id
        BY <1>1, <1>2 DEF NewestFirst
    <2>3. Current[i].id \in Nat /\ Current[j].id \in Nat
        BY <1>2
    <2> QED BY <1>2, <2>1, <2>2, <2>3
<1> DEFINE ids == {Current[i].id : i \in 1..Len(Current)}
<1>4. Cardinality(ids) = Len(Current)
    BY <1>2, <1>3, DistinctCount
<1>5. ids \subseteq 1..published
    BY <1>2
<1>6. IsFiniteSet(1..published) /\ Cardinality(1..published) = published
    BY <1>2, FS_Interval
<1>7. Cardinality(ids) <= Cardinality(1..published)
    BY <1>5, <1>6, FS_Subset
<1>8. published <= MaxObject /\ MaxObject \in Nat
    BY <1>1, ListingsAssumption DEF ObjectsTypeOK
<1> HIDE DEF ids
<1>9. Len(Current) <= published
    BY <1>4, <1>6, <1>7
<1> QED BY <1>2, <1>8, <1>9

(* What First leaves of a list.                                            *)
LEMMA FirstOf ==
    ASSUME NEW S, NEW list \in Seq(S), NEW n \in Nat
    PROVE  /\ First(list, n) \in Seq(S)
           /\ Len(First(list, n)) = Least(n, Len(list))
           /\ Least(n, Len(list)) \in Nat
           /\ \A i \in 1..Least(n, Len(list)) : First(list, n)[i] = list[i]
<1>1. PICK last \in Nat : last = Least(n, Len(list))
    BY LenProperties DEF Least
<1>2. last <= Len(list) /\ Len(list) \in Nat
    BY <1>1, LenProperties DEF Least
<1>3. First(list, n) = SubSeq(list, 0 + 1, last)
    BY <1>1 DEF First
<1>4. LET part == SubSeq(list, 0 + 1, last)
      IN  /\ part \in Seq(S)
          /\ Len(part) = IF 0 < last THEN last - 0 ELSE 0
          /\ \A i \in 1..Len(part) : part[i] = list[0 + i]
    BY <1>2, PartOfList
<1>5. Len(First(list, n)) = last
    BY <1>3, <1>4
<1>6. \A i \in 1..last : First(list, n)[i] = list[0 + i] /\ 0 + i = i
    BY <1>3, <1>4, <1>5
<1> QED BY <1>1, <1>3, <1>4, <1>5, <1>6

LEMMA ObjectsInitially == ObjectsInit => ObjectsInv
<1> SUFFICES ASSUME ObjectsInit PROVE ObjectsInv
    OBVIOUS
<1> USE DEF ObjectsInit
<1>1. /\ KnownObjects \in Nat /\ MaxObject \in Nat /\ KnownObjects <= MaxObject
      /\ listing \in [1..RegionCount -> Seq([id : 1..KnownObjects, region : Nat])]
      /\ \A r \in Regions : NewestFirst(listing[r])
      /\ RegionCount \in Nat \ {0} /\ Target \in Nat \ {0}
    BY ListingsAssumption, SizesAssumption DEF Regions
<1>2. listing \in [Regions -> Seq(Objects)]
    BY <1>1 DEF Regions, Objects
<1>3. <<>> \in Seq(Objects) /\ Len(<<>>) = 0
    BY EmptySeq
<1>4. ObjectsTypeOK
    <2>1. published \in 0..MaxObject /\ region \in Regions
        BY <1>1 DEF Regions
    <2>2. total \in 0..Unknown /\ offset \in Nat
        BY <1>1 DEF Unknown
    <2>3. Len(objects) <= Target
        BY <1>1, <1>3
    <2> QED BY <1>2, <1>3, <2>1, <2>2, <2>3 DEF ObjectsTypeOK
<1>5. OkIsSound /\ EveryMissHasItsCause
    BY DEF OkIsSound, EveryMissHasItsCause
<1>6. Followed /\ Fetching /\ Fresh /\ PageRead
    BY DEF Followed, UnderWay, Fetching, Fresh, PageRead
<1> QED BY <1>1, <1>4, <1>5, <1>6 DEF ObjectsInv, ObjectsAreExplained
-----------------------------------------------------------------------------
(* What a change of the site leaves of an invariant about this region.     *)
LEMMA SiteKeeps ==
    ASSUME ObjectsInv, pc \in {"open", "page", "fetch"},
           UNCHANGED <<stuck, region, pc, page, objects, total, offset, result, wanted, newest,
                       hidden>>,
           ObjectsTypeOK', \A r \in Regions : NewestFirst(listing'[r]),
           UnderWay => (Tracked /\ Paid /\ IdsOf(objects) \subseteq Ever)'
    PROVE  ObjectsInv'
<1> USE DEF ObjectsInv, ObjectsAreExplained
<1>1. OkIsSound' /\ EveryMissHasItsCause'
    BY DEF OkIsSound, EveryMissHasItsCause
<1>2. Unknown' = Unknown /\ Regions' = Regions
    BY DEF Unknown, Regions
<1>3. Followed' /\ Fetching'
    BY <1>2 DEF Followed, UnderWay, Fetching, Least
<1>4. Fresh' /\ PageRead'
    BY <1>2 DEF Fresh, PageRead, First, Least
<1> QED BY <1>1, <1>2, <1>3, <1>4

LEMMA PublishStep == ASSUME ObjectsInv, Publish PROVE ObjectsInv'
<1> USE DEF ObjectsInv, ObjectsAreExplained
<1>1. PICK r \in Ahead :
          listing' = [listing EXCEPT ![r] =
                        <<[id |-> published + 1, region |-> r]>> \o listing[r]]
    BY DEF Publish
<1>2. /\ published < MaxObject /\ published' = published + 1
      /\ UNCHANGED <<stuck, region, pc, page, objects, total, offset, result, wanted, newest,
                     removed, hidden>>
    BY DEF Publish, ghosts
<1>3. r \in Regions /\ pc \in {"open", "page", "fetch"} /\ r \in Nat
    BY DEF Ahead, Regions
<1>4. /\ published \in Nat /\ MaxObject \in Nat /\ region \in Regions
      /\ listing \in [Regions -> Seq(Objects)]
    BY ListingsAssumption DEF ObjectsTypeOK
<1> DEFINE new == [id |-> published + 1, region |-> r]
           list == <<new>> \o listing[r]
<1>5. Objects \subseteq Objects'
    BY <1>2, <1>4 DEF Objects
<1>6. new \in Objects'
    BY <1>2, <1>3, <1>4 DEF Objects
<1>7. \A q \in Regions : listing[q] \in Seq(Objects')
    <2> TAKE q \in Regions
    <2>1. listing[q] \in Seq(Objects)
        BY <1>4
    <2> QED BY <1>5, <2>1, SeqMonotonic
<1>8. /\ list \in Seq(Objects') /\ Len(list) = 1 + Len(listing[r])
      /\ \A i \in 1..1 + Len(listing[r]) : list[i] = IF i <= 1 THEN new ELSE listing[r][i - 1]
    <2> HIDE DEF new
    <2>1. <<new>> \in Seq(Objects') /\ Len(<<new>>) = 1 /\ <<new>>[1] = new
        BY <1>6
    <2>2. /\ list \in Seq(Objects') /\ Len(list) = 1 + Len(listing[r])
          /\ \A i \in 1..1 + Len(listing[r]) :
                list[i] = IF i <= 1 THEN <<new>>[i] ELSE listing[r][i - 1]
        BY <1>3, <1>7, <2>1, ConcatProperties
    <2>3. Len(listing[r]) \in Nat
        BY <1>3, <1>4, LenProperties
    <2> QED BY <2>1, <2>2, <2>3
<1> HIDE DEF list
<1>9. listing' = [listing EXCEPT ![r] = list]
    BY <1>1 DEF list
<1>10. ObjectsTypeOK'
    <2>1. listing' \in [Regions -> Seq(Objects')]
        BY <1>3, <1>4, <1>7, <1>8, <1>9
    <2>2. page \in Seq(Objects') /\ objects \in Seq(Objects') /\ result \in Seq(Objects')
        BY <1>5, SeqMonotonic DEF ObjectsTypeOK
    <2>3. published' \in 0..MaxObject
        BY <1>2, <1>4
    <2> QED BY <1>2, <2>1, <2>2, <2>3 DEF ObjectsTypeOK, Regions, Unknown
<1>11. ASSUME NEW q \in Regions PROVE NewestFirst(listing'[q])
    <2>1. CASE q # r
        BY <1>4, <1>9, <2>1
    <2>2. CASE q = r
        <3>1. listing'[q] = list
            BY <1>3, <1>4, <1>9, <2>2
        <3>2. listing[r] \in Seq(Objects) /\ NewestFirst(listing[r])
            BY <1>3, <1>4
        <3>3. /\ Len(listing[r]) \in Nat /\ DOMAIN listing[r] = 1..Len(listing[r])
              /\ \A i \in 1..Len(listing[r]) : listing[r][i] \in Objects
            BY <3>2, LenProperties, ElementOfSeq
        <3>4. DOMAIN list = 1..1 + Len(listing[r])
            BY <1>8, LenProperties
        <3>5. ASSUME NEW i \in 1..1 + Len(listing[r]), NEW j \in 1..1 + Len(listing[r]), i < j
              PROVE  list[i].id > list[j].id
            <4>1. /\ ~(j <= 1) /\ j - 1 \in 1..Len(listing[r]) /\ list[j] = listing[r][j - 1]
                BY <1>8, <3>3, <3>5
            <4>2. CASE i <= 1
                <5>1. list[i].id = published + 1
                    BY <1>8, <4>2
                <5>2. listing[r][j - 1].id \in 1..published
                    BY <3>3, <4>1 DEF Objects
                <5> QED BY <1>4, <4>1, <5>1, <5>2
            <4>3. CASE ~(i <= 1)
                <5>1. i - 1 \in 1..Len(listing[r]) /\ list[i] = listing[r][i - 1]
                    BY <1>8, <3>3, <4>3
                <5>2. i - 1 < j - 1
                    BY <3>3, <3>5
                <5>3. listing[r][i - 1].id > listing[r][j - 1].id
                    BY <3>2, <3>3, <4>1, <5>1, <5>2 DEF NewestFirst
                <5> QED BY <4>1, <5>1, <5>3
            <4> QED BY <4>2, <4>3
        <3> QED BY <3>1, <3>4, <3>5 DEF NewestFirst
    <2> QED BY <2>1, <2>2
<1>12. IdsOf(Current') \subseteq IdsOf(Current) \cup {published + 1}
       /\ IdsOf(Current) \subseteq IdsOf(Current')
    <2>1. CASE region # r
        <3>1. Current' = Current
            BY <1>2, <1>4, <1>9, <2>1 DEF Current
        <3> QED BY <3>1
    <2>2. CASE region = r
        <3>1. Current' = list /\ Current = listing[r]
            BY <1>2, <1>3, <1>4, <1>9, <2>2 DEF Current
        <3>2. /\ Len(Current) \in Nat
              /\ IdsOf(Current) = {Current[i].id : i \in 1..Len(Current)}
            BY ObjectsShape
        <3>3. IdsOf(list) = {list[i].id : i \in 1..Len(list)}
            BY <1>8, IdsByPlace
        <3>4. \A i \in 1..Len(list) : list[i].id = published + 1 \/ list[i].id \in IdsOf(Current)
            BY <1>8, <3>1, <3>2
        <3>5. ASSUME NEW i \in 1..Len(Current) PROVE Current[i].id \in IdsOf(list)
            <4>1. i + 1 \in 1..Len(list) /\ list[i + 1] = Current[i]
                BY <1>8, <3>1, <3>2
            <4> QED BY <3>3, <4>1
        <3> QED BY <3>1, <3>2, <3>3, <3>4, <3>5
    <2> QED BY <2>1, <2>2
<1>13. ASSUME UnderWay
       PROVE  (Tracked /\ Paid /\ IdsOf(objects) \subseteq Ever)'
    <2>1. Tracked /\ Paid /\ IdsOf(objects) \subseteq Ever
        BY <1>13 DEF Followed
    <2>2. IdsOf(objects)' = IdsOf(objects) /\ IdsOf(wanted)' = IdsOf(wanted)
          /\ IdsOf(Current)' = IdsOf(Current')
        BY <1>2 DEF IdsOf, Entries
    <2>3. Ever \subseteq Ever' /\ Ever' \subseteq Ever \cup {published + 1}
        BY <1>2, <1>12, <2>2 DEF Ever
    <2>4. newest \in Nat /\ newest <= published
        BY <1>4, <2>1 DEF Tracked
    <2>5. Beyond' = Beyond
        BY <1>2, <1>4, <2>2, <2>3, <2>4 DEF Beyond
    <2>6. Tracked'
        <3>1. wanted' \in Seq(Objects')
            BY <1>2, <1>5, <2>1, SeqMonotonic DEF Tracked
        <3>2. newest' \in 0..published' /\ removed' \subseteq 1..published'
            BY <1>2, <1>4, <2>1 DEF Tracked
        <3> QED BY <1>2, <2>1, <2>2, <2>3, <2>5, <3>1, <3>2 DEF Tracked, NewestFirst
    <2>7. Paid'
        BY <1>2, <2>1, <2>2, <2>5 DEF Paid
    <2> QED BY <2>1, <2>2, <2>3, <2>6, <2>7
<1> QED BY <1>2, <1>3, <1>10, <1>11, <1>13, SiteKeeps

(* The ids of a list that loses an entry.                                  *)
LEMMA IdsWithout ==
    ASSUME NEW S, NEW list \in Seq(S), NEW i \in DOMAIN list
    PROVE  IdsOf(list) = IdsOf(Without(list, i)) \cup {list[i].id}
<1>1. Len(list) \in Nat /\ DOMAIN list = 1..Len(list)
    BY LenProperties
<1>2. /\ DOMAIN Without(list, i) = 1..Len(list) - 1
      /\ \A j \in 1..Len(list) - 1 : Without(list, i)[j] = IF j < i THEN list[j] ELSE list[j + 1]
    BY WithoutOne
<1>3. \A j \in 1..Len(list) - 1 : \E k \in 1..Len(list) : Without(list, i)[j] = list[k]
    <2> TAKE j \in 1..Len(list) - 1
    <2>1. j \in 1..Len(list) /\ j + 1 \in 1..Len(list)
        BY <1>1
    <2> QED BY <1>2, <2>1
<1>4. ASSUME NEW k \in 1..Len(list), k # i
      PROVE  \E j \in 1..Len(list) - 1 : Without(list, i)[j] = list[k]
    <2>1. CASE k < i
        <3>1. k \in 1..Len(list) - 1
            BY <1>1, <2>1
        <3> QED BY <1>2, <2>1, <3>1
    <2>2. CASE ~(k < i)
        <3>1. k - 1 \in 1..Len(list) - 1 /\ ~(k - 1 < i) /\ k - 1 + 1 = k
            BY <1>1, <1>4, <2>2
        <3> QED BY <1>2, <3>1
    <2> QED BY <2>1, <2>2
<1>5. IdsOf(Without(list, i)) = {Without(list, i)[j].id : j \in 1..Len(list) - 1}
    BY <1>2 DEF IdsOf, Entries
<1>6. IdsOf(list) = {list[k].id : k \in 1..Len(list)}
    BY <1>1 DEF IdsOf, Entries
<1>7. IdsOf(Without(list, i)) \subseteq IdsOf(list)
    BY <1>3, <1>5, <1>6
<1>8. list[i].id \in IdsOf(list)
    BY <1>1, <1>6
<1>9. ASSUME NEW k \in 1..Len(list), k # i PROVE list[k].id \in IdsOf(Without(list, i))
    BY <1>4, <1>5, <1>9
<1> QED BY <1>6, <1>7, <1>8, <1>9

LEMMA NewestFirstWithout ==
    ASSUME NEW S, NEW list \in Seq(S), NEW i \in DOMAIN list, NewestFirst(list)
    PROVE  NewestFirst(Without(list, i))
<1>1. Len(list) \in Nat /\ DOMAIN list = 1..Len(list)
    BY LenProperties
<1>2. /\ DOMAIN Without(list, i) = 1..Len(list) - 1
      /\ \A j \in 1..Len(list) - 1 : Without(list, i)[j] = IF j < i THEN list[j] ELSE list[j + 1]
    BY WithoutOne
<1>3. SUFFICES ASSUME NEW j \in 1..Len(list) - 1, NEW k \in 1..Len(list) - 1, j < k
               PROVE  Without(list, i)[j].id > Without(list, i)[k].id
    BY <1>2 DEF NewestFirst
<1>4. PICK m \in 1..Len(list) : m = (IF j < i THEN j ELSE j + 1) /\ Without(list, i)[j] = list[m]
    <2>1. j \in 1..Len(list) /\ j + 1 \in 1..Len(list)
        BY <1>1
    <2> QED BY <1>2, <2>1
<1>5. PICK n \in 1..Len(list) : n = (IF k < i THEN k ELSE k + 1) /\ Without(list, i)[k] = list[n]
    <2>1. k \in 1..Len(list) /\ k + 1 \in 1..Len(list)
        BY <1>1
    <2> QED BY <1>2, <2>1
<1>6. m < n
    BY <1>1, <1>3, <1>4, <1>5
<1> QED BY <1>1, <1>4, <1>5, <1>6 DEF NewestFirst

LEMMA RemoveStep == ASSUME ObjectsInv, Remove PROVE ObjectsInv'
<1> USE DEF ObjectsInv, ObjectsAreExplained
<1>0. PICK r \in Ahead : \E i \in DOMAIN listing[r] :
          /\ listing' = [listing EXCEPT ![r] = Without(@, i)]
          /\ removed' = IF r = region /\ pc # "open"
                        THEN removed \cup {listing[r][i].id} ELSE removed
    BY DEF Remove
<1>1. PICK i \in DOMAIN listing[r] :
          /\ listing' = [listing EXCEPT ![r] = Without(@, i)]
          /\ removed' = IF r = region /\ pc # "open"
                        THEN removed \cup {listing[r][i].id} ELSE removed
    BY <1>0
<1>2. UNCHANGED <<published, stuck, region, pc, page, objects, total, offset, result, wanted,
                  newest, hidden>>
    BY DEF Remove
<1>3. r \in Regions /\ pc \in {"open", "page", "fetch"} /\ region \in Regions
    <2>1. r \in Regions /\ pc \in {"open", "page", "fetch"}
        BY DEF Ahead
    <2> QED BY <2>1 DEF ObjectsTypeOK
<1>4. listing \in [Regions -> Seq(Objects)] /\ Objects' = Objects /\ published \in Nat
    <2>1. Objects' = Objects
        BY <1>2 DEF Objects
    <2>2. listing \in [Regions -> Seq(Objects)] /\ published \in Nat
        BY DEF ObjectsTypeOK
    <2> QED BY <2>1, <2>2
<1>5. listing[r] \in Seq(Objects) /\ listing' = [listing EXCEPT ![r] = Without(listing[r], i)]
    BY <1>1, <1>3, <1>4
<1>6. Without(listing[r], i) \in Seq(Objects)
    BY <1>5, WithoutOne
<1>7. ObjectsTypeOK'
    <2>1. listing' \in [Regions -> Seq(Objects)]
        BY <1>4, <1>5, <1>6
    <2> QED BY <1>2, <1>4, <2>1 DEF ObjectsTypeOK, Regions, Unknown
<1>8. ASSUME NEW q \in Regions PROVE NewestFirst(listing'[q])
    <2>1. CASE q # r
        BY <1>4, <1>5, <2>1
    <2>2. CASE q = r
        <3>1. listing'[q] = Without(listing[r], i)
            BY <1>3, <1>4, <1>5, <2>2
        <3>2. NewestFirst(listing[r])
            BY <1>3
        <3> QED BY <1>5, <3>1, <3>2, NewestFirstWithout
    <2> QED BY <2>1, <2>2
<1>9. ASSUME UnderWay
      PROVE  (Tracked /\ Paid /\ IdsOf(objects) \subseteq Ever)'
    <2>1. Tracked /\ Paid /\ IdsOf(objects) \subseteq Ever
        BY <1>9 DEF Followed
    <2>2. IdsOf(objects)' = IdsOf(objects) /\ IdsOf(wanted)' = IdsOf(wanted)
          /\ IdsOf(Current)' = IdsOf(Current')
        BY <1>2 DEF IdsOf, Entries
    <2>3. Ever' = Ever
        <3>1. CASE r # region
            <4>1. Current' = Current /\ removed' = removed
                BY <1>1, <1>2, <1>3, <1>4, <1>5, <3>1 DEF Current
            <4> QED BY <2>2, <4>1 DEF Ever
        <3>2. CASE r = region
            <4>1. /\ Current' = Without(listing[r], i) /\ Current = listing[r]
                  /\ removed' = removed \cup {listing[r][i].id}
                BY <1>1, <1>2, <1>3, <1>4, <1>5, <1>9, <3>2 DEF Current, UnderWay
            <4>2. IdsOf(Current) = IdsOf(Current') \cup {listing[r][i].id}
                BY <1>5, <4>1, IdsWithout
            <4> QED BY <2>2, <4>1, <4>2 DEF Ever
        <3> QED BY <3>1, <3>2
    <2>4. Beyond' = Beyond
        BY <1>2, <2>2, <2>3 DEF Beyond
    <2>5. removed \subseteq removed' /\ removed' \subseteq 1..published
        <3>1. listing[r][i].id \in 1..published
            <4>1. listing[r][i] \in Objects
                BY <1>5, LenProperties, ElementOfSeq
            <4> QED BY <4>1 DEF Objects
        <3> QED BY <1>1, <2>1, <3>1 DEF Tracked
    <2>6. Tracked'
        BY <1>2, <1>4, <2>1, <2>2, <2>3, <2>4, <2>5 DEF Tracked, NewestFirst
    <2>7. Cardinality(removed) <= Cardinality(removed')
          /\ Cardinality(removed) \in Nat /\ Cardinality(removed') \in Nat
        <3>1. IsFiniteSet(1..published)
            BY <1>4, FS_Interval
        <3>2. IsFiniteSet(removed') /\ IsFiniteSet(removed)
            BY <2>5, <3>1, FS_Subset
        <3> QED BY <2>5, <3>2, FS_Subset, FS_CardinalityType
    <2>8. Paid'
        <3> SUFFICES ASSUME NEW b \in IdsOf(objects) \cap Beyond
                     PROVE  Cardinality({id \in Beyond : b <= id}) <= Cardinality(removed')
            BY <2>2, <2>4 DEF Paid
        <3>1. Cardinality({id \in Beyond : b <= id}) <= Cardinality(removed)
            BY <2>1 DEF Paid
        <3>2. Cardinality({id \in Beyond : b <= id}) \in Nat
            <4>1. IsFiniteSet(1..published)
                BY <1>4, FS_Interval
            <4>2. Ever \subseteq 1..published
                BY <2>1, ObjectsShape DEF Tracked, Ever
            <4>3. {id \in Beyond : b <= id} \subseteq 1..published
                BY <4>2 DEF Beyond
            <4>4. IsFiniteSet({id \in Beyond : b <= id})
                BY <4>1, <4>3, FS_Subset
            <4> QED BY <4>4, FS_CardinalityType
        <3> QED BY <2>7, <3>1, <3>2
    <2> QED BY <2>1, <2>2, <2>3, <2>6, <2>8
<1> QED BY <1>2, <1>3, <1>7, <1>8, <1>9, SiteKeeps
-----------------------------------------------------------------------------
(* Steps at the end of which the region is not being fetched.              *)
LEMMA RegionKeeps ==
    ASSUME ObjectsInv, UNCHANGED site, ObjectsTypeOK', pc' \notin {"page", "fetch"},
           OkIsSound', EveryMissHasItsCause', Fresh'
    PROVE  ObjectsInv'
BY DEF ObjectsInv, ObjectsAreExplained, site, Followed, UnderWay, Fetching, PageRead, Regions

(* What is wanted at the time of the first look.                           *)
LEMMA FirstReadTracks ==
    ASSUME ObjectsInv, FirstRead, UNCHANGED <<site, region>>
    PROVE  /\ Tracked' /\ Beyond' \cap IdsOf(Current) = Beyond'
           /\ Current' = Current /\ removed' = {}
           /\ Len(wanted') = Least(Target, Len(Current)) /\ Len(wanted') \in Nat
           /\ wanted' = First(Current, Target)
<1> USE DEF ObjectsInv, ObjectsAreExplained
<1>1. wanted' = First(Current, Target) /\ newest' = published /\ removed' = {}
    BY DEF FirstRead
<1>2. Current' = Current /\ published' = published /\ Objects' = Objects
    BY DEF site, Current, Objects
<1>3. /\ Target \in Nat /\ published \in Nat /\ Current \in Seq(Objects)
      /\ Len(Current) \in Nat /\ DOMAIN Current = 1..Len(Current)
      /\ \A i \in 1..Len(Current) : Current[i] \in Objects /\ Current[i].id \in 1..published
      /\ IdsOf(Current) \subseteq 1..published
      /\ IdsOf(Current) = {Current[i].id : i \in 1..Len(Current)}
    BY ObjectsShape
<1>4. NewestFirst(Current)
    <2>1. region \in Regions
        BY DEF ObjectsTypeOK
    <2>2. NewestFirst(listing[region])
        BY <2>1
    <2> QED BY <2>2 DEF Current
<1>5. PICK n \in Nat : n = Least(Target, Len(Current)) /\ n <= Len(Current)
    <2>1. Target \in Nat /\ Len(Current) \in Nat
        BY <1>3
    <2> HIDE DEF ObjectsInv, ObjectsAreExplained
    <2>2. Least(Target, Len(Current)) \in Nat /\ Least(Target, Len(Current)) <= Len(Current)
        BY <2>1 DEF Least
    <2> QED BY <2>2
<1>6. /\ wanted' \in Seq(Objects) /\ Len(wanted') = n
      /\ \A i \in 1..n : wanted'[i] = Current[i]
    BY <1>1, <1>3, <1>5, FirstOf
<1>7. DOMAIN wanted' = 1..n /\ IdsOf(wanted') = {wanted'[i].id : i \in 1..n}
    BY <1>6, IdsByPlace
<1>8. \A i \in 1..n : i \in 1..Len(Current)
    BY <1>3, <1>5
<1>9. NewestFirst(wanted')
    BY <1>3, <1>4, <1>6, <1>7, <1>8 DEF NewestFirst
<1>10. IdsOf(wanted)' = IdsOf(wanted') /\ IdsOf(Current)' = IdsOf(Current)
    BY <1>2 DEF IdsOf, Entries
<1>11. Ever' = IdsOf(Current)
    BY <1>1, <1>10 DEF Ever
<1>12. Beyond' \subseteq IdsOf(Current) /\ \A id \in Beyond' : id \notin IdsOf(wanted')
    BY <1>10, <1>11 DEF Beyond
<1>13. IdsOf(wanted') \subseteq IdsOf(Current)
    BY <1>3, <1>6, <1>7, <1>8
<1>14. ASSUME NEW w \in IdsOf(wanted'), NEW id \in Beyond' PROVE id < w
    <2>1. PICK i \in 1..n : Current[i].id = w
        BY <1>6, <1>7
    <2>2. PICK j \in 1..Len(Current) : Current[j].id = id
        BY <1>3, <1>12
    <2>3. j \notin 1..n
        BY <1>6, <1>7, <1>12, <2>2
    <2>4. i < j /\ i \in 1..Len(Current)
        BY <1>3, <1>5, <2>3
    <2>5. Current[i].id > Current[j].id
        BY <1>3, <1>4, <2>4 DEF NewestFirst
    <2> QED BY <1>3, <2>1, <2>2, <2>4, <2>5
<1>15. Tracked'
    <2>1. newest' \in 0..published' /\ removed' \subseteq 1..published'
        BY <1>1, <1>2, <1>3
    <2>2. \A w \in IdsOf(wanted') : w <= newest'
        BY <1>1, <1>3, <1>13
    <2> QED BY <1>2, <1>6, <1>9, <1>10, <1>11, <1>13, <1>14, <2>1, <2>2 DEF Tracked, NewestFirst
<1> QED BY <1>1, <1>2, <1>5, <1>6, <1>12, <1>15
-----------------------------------------------------------------------------
LEMMA FirstOfFirst ==
    ASSUME NEW S, NEW list \in Seq(S), NEW m \in Nat, NEW n \in Nat, n <= Least(m, Len(list))
    PROVE  First(First(list, m), n) = First(list, n)
<1> DEFINE outer == First(list, m)
<1>1. /\ outer \in Seq(S) /\ Len(outer) = Least(m, Len(list)) /\ Len(outer) \in Nat
      /\ \A i \in 1..Len(outer) : outer[i] = list[i]
    BY FirstOf
<1>2. Len(list) \in Nat /\ n <= Len(list) /\ n <= Len(outer)
    <2>1. Len(list) \in Nat
        BY LenProperties
    <2>2. Least(m, Len(list)) <= Len(list)
        BY <2>1 DEF Least
    <2> QED BY <1>1, <2>1, <2>2
<1> HIDE DEF outer
<1>3. Least(n, Len(outer)) = n /\ Least(n, Len(list)) = n
    BY <1>1, <1>2 DEF Least
<1>4. /\ First(outer, n) \in Seq(S) /\ Len(First(outer, n)) = n
      /\ \A i \in 1..n : First(outer, n)[i] = outer[i]
    BY <1>1, <1>3, FirstOf
<1>5. /\ First(list, n) \in Seq(S) /\ Len(First(list, n)) = n
      /\ \A i \in 1..n : First(list, n)[i] = list[i]
    BY <1>3, FirstOf
<1>6. \A i \in 1..n : First(outer, n)[i] = First(list, n)[i]
    <2> TAKE i \in 1..n
    <2>1. i \in 1..Len(outer)
        BY <1>1, <1>2
    <2> QED BY <1>1, <1>4, <1>5, <2>1
<1>7. First(outer, n) = First(list, n)
    BY <1>4, <1>5, <1>6, SeqEqual
<1> QED BY <1>7 DEF outer

LEMMA OpenRegionStep == ASSUME ObjectsInv, OpenRegion PROVE ObjectsInv'
<1> USE DEF ObjectsInv, ObjectsAreExplained
<1>1. PICK size \in PageSizes : page' = First(Current, size)
    BY DEF OpenRegion
<1>2. /\ pc = "open" /\ pc' = "page" /\ FirstRead
      /\ UNCHANGED <<site, region, objects, total, offset, result>>
    BY DEF OpenRegion
<1>3. /\ objects = <<>> /\ total = Unknown /\ offset = 0
    BY <1>2 DEF Fresh
<1>4. size \in Nat /\ Target \in Nat \ {0} /\ Current \in Seq(Objects) /\ Len(Current) \in Nat
    BY ObjectsShape, SizesAssumption
<1>5. /\ page' \in Seq(Objects) /\ Len(page') = Least(size, Len(Current))
    BY <1>1, <1>4, FirstOf
<1>6. Objects' = Objects /\ Unknown' = Unknown /\ Regions' = Regions
    BY <1>2 DEF site, Objects, Unknown, Regions
<1>7. ObjectsTypeOK'
    BY <1>2, <1>5, <1>6 DEF ObjectsTypeOK, site
<1>8. OkIsSound' /\ EveryMissHasItsCause'
    BY <1>2 DEF OkIsSound, EveryMissHasItsCause
<1>9. Tracked' /\ wanted' = First(Current, Target)
      /\ Len(wanted') = Least(Target, Len(Current))
    BY <1>2, FirstReadTracks
<1>10. Followed'
    <2>1. IdsOf(objects') = {}
        BY <1>2, <1>3 DEF IdsOf, Entries
    <2>2. IdsOf(objects)' = IdsOf(objects')
        BY DEF IdsOf, Entries
    <2> QED BY <1>9, <2>1, <2>2 DEF Followed, Paid
<1>11. Fetching' /\ Fresh'
    BY <1>2, <1>3, <1>6 DEF Fetching, Fresh
<1>12. PageRead'
    <2>1. ASSUME Len(page') >= Target PROVE First(page', Target) = wanted'
        <3>1. Target <= Least(size, Len(Current))
            BY <1>4, <1>5, <2>1 DEF Least
        <3>2. First(First(Current, size), Target) = First(Current, Target)
            BY <1>4, <3>1, FirstOfFirst
        <3> QED BY <1>1, <1>9, <3>2
    <2>2. ASSUME Len(page') < Target, Len(wanted') <= Len(page') PROVE page' = wanted'
        <3>1. Least(size, Len(Current)) = Least(Target, Len(Current))
            BY <1>4, <1>5, <1>9, <2>2 DEF Least
        <3> QED BY <1>1, <1>9, <3>1 DEF First
    <2> QED BY <2>1, <2>2 DEF PageRead, First, Least
<1>13. \A r \in Regions : NewestFirst(listing'[r])
    BY <1>2 DEF site
<1> QED BY <1>6, <1>7, <1>8, <1>10, <1>11, <1>12, <1>13 DEF NewestFirst

LEMMA IdsWithin == ASSUME NEW list \in Seq(Objects) PROVE IdsOf(list) \subseteq 1..published
<1>1. IdsOf(list) = {list[i].id : i \in 1..Len(list)}
    BY IdsByPlace
<1>2. \A i \in 1..Len(list) : list[i] \in Objects
    BY ElementOfSeq
<1>3. \A o \in Objects : o.id \in 1..published
    BY DEF Objects
<1> QED BY <1>1, <1>2, <1>3

(* The region is collected with everything wanted.                         *)
LEMMA AllThatIsWanted ==
    ASSUME ObjectsInv, pc = "page", objects' = wanted, pc' = "collected",
           UNCHANGED <<site, region, page, total, offset, result, wanted, newest, removed>>
    PROVE  ObjectsTypeOK' => EveryMissHasItsCause'
<1>1. SUFFICES ASSUME ObjectsTypeOK'
               PROVE  Cardinality(Missed') <= Cardinality(removed') + Cardinality(Newer')
    BY DEF EveryMissHasItsCause
<1>2. /\ published \in Nat /\ removed \subseteq 1..published
      /\ UNCHANGED published /\ Objects' = Objects
    BY DEF ObjectsInv, ObjectsAreExplained, ObjectsTypeOK, Followed, UnderWay, Tracked, site,
           Objects
<1>3. Missed' = {}
    BY DEF Missed, IdsOf, Entries
<1>4. IsFiniteSet(removed')
    <2>1. IsFiniteSet(1..published)
        BY <1>2, FS_Interval
    <2> QED BY <1>2, <2>1, FS_Subset
<1>5. IsFiniteSet(Newer')
    <2>1. IdsOf(objects') \subseteq 1..published
        BY <1>1, <1>2, IdsWithin DEF ObjectsTypeOK
    <2>2. Newer' \subseteq 1..published
        BY <2>1 DEF Newer, IdsOf, Entries
    <2>3. IsFiniteSet(1..published)
        BY <1>2, FS_Interval
    <2> QED BY <2>2, <2>3, FS_Subset
<1>6. Cardinality(Missed') = 0 /\ Cardinality(removed') \in Nat /\ Cardinality(Newer') \in Nat
    BY <1>3, <1>4, <1>5, FS_EmptySet, FS_CardinalityType
<1> QED BY <1>6

LEMMA TakePageStep == ASSUME ObjectsInv, TakePage PROVE ObjectsInv'
<1> USE DEF ObjectsInv, ObjectsAreExplained
<1>1. /\ pc = "page" /\ Len(page) >= Target /\ objects' = First(page, Target)
      /\ pc' = "collected"
      /\ UNCHANGED <<site, region, page, total, offset, result, wanted, newest, removed, hidden>>
    BY DEF TakePage, ghosts
<1>2. objects' = wanted
    BY <1>1 DEF PageRead
<1>3. page \in Seq(Objects) /\ Len(page) \in Nat /\ Target \in Nat
    <2>1. page \in Seq(Objects) /\ Target \in Nat
        BY SizesAssumption DEF ObjectsTypeOK
    <2> QED BY <2>1, LenProperties
<1>4. objects' \in Seq(Objects) /\ Len(objects') <= Target
    <2>1. objects' \in Seq(Objects) /\ Len(objects') = Least(Target, Len(page))
        BY <1>1, <1>3, FirstOf
    <2>2. Least(Target, Len(page)) <= Target
        BY <1>3 DEF Least
    <2> QED BY <2>1, <2>2
<1>5. ObjectsTypeOK'
    BY <1>1, <1>4 DEF ObjectsTypeOK, Objects, site, Unknown, Regions
<1>6. EveryMissHasItsCause'
    BY <1>1, <1>2, <1>5, AllThatIsWanted
<1>7. OkIsSound' /\ Fresh'
    BY <1>1 DEF OkIsSound, Fresh
<1> QED BY <1>1, <1>5, <1>6, <1>7, RegionKeeps

LEMMA TakeShortPageStep == ASSUME ObjectsInv, TakeShortPage PROVE ObjectsInv'
<1> USE DEF ObjectsInv, ObjectsAreExplained
<1>1. /\ pc = "page" /\ Len(page) < Target /\ objects' = page
      /\ pc' = "collected" /\ hidden' = (Len(page) < Len(wanted))
      /\ UNCHANGED <<site, region, page, total, offset, result, wanted, newest, removed>>
    BY DEF TakeShortPage
<1>2. /\ page \in Seq(Objects) /\ Len(page) \in Nat /\ Target \in Nat
      /\ Len(wanted) \in Nat
    <2>1. page \in Seq(Objects) /\ Target \in Nat
        BY SizesAssumption DEF ObjectsTypeOK
    <2>2. wanted \in Seq(Objects)
        BY <1>1 DEF Followed, UnderWay, Tracked
    <2> QED BY <2>1, <2>2, LenProperties
<1>3. ObjectsTypeOK'
    <2>1. objects' \in Seq(Objects) /\ Len(objects') <= Target
        BY <1>1, <1>2
    <2> QED BY <1>1, <2>1 DEF ObjectsTypeOK, Objects, site, Unknown, Regions
<1>4. EveryMissHasItsCause'
    <2>1. CASE hidden'
        BY <2>1 DEF EveryMissHasItsCause
    <2>2. CASE ~hidden'
        <3>1. Len(wanted) <= Len(page)
            <4>1. ~(Len(page) < Len(wanted))
                BY <1>1, <2>2, Zenon
            <4> HIDE DEF ObjectsInv, ObjectsAreExplained
            <4> QED BY <1>2, <4>1
        <3>2. objects' = wanted
            BY <1>1, <3>1 DEF PageRead
        <3> QED BY <1>1, <1>3, <3>2, AllThatIsWanted
    <2> QED BY <2>1, <2>2
<1>5. OkIsSound' /\ Fresh'
    BY <1>1 DEF OkIsSound, Fresh
<1> QED BY <1>1, <1>3, <1>4, <1>5, RegionKeeps

LEMMA ClickLoadMoreStep == ASSUME ObjectsInv, ClickLoadMore PROVE ObjectsInv'
<1> USE DEF ObjectsInv, ObjectsAreExplained
<1>1. /\ pc = "page" /\ pc' = "fetch"
      /\ UNCHANGED <<site, region, page, objects, total, offset, result, ghosts>>
    BY DEF ClickLoadMore
<1>2. objects = <<>> /\ total = Unknown /\ offset = 0
    BY <1>1 DEF Fresh
<1>3. ObjectsTypeOK'
    BY <1>1 DEF ObjectsTypeOK, Objects, site, Unknown, Regions
<1>4. OkIsSound' /\ EveryMissHasItsCause'
    BY <1>1 DEF OkIsSound, EveryMissHasItsCause
<1>5. Followed' /\ Fetching' /\ Fresh' /\ PageRead'
    BY <1>1, <1>2 DEF Followed, UnderWay, Fetching, Fresh, PageRead, Unknown
<1>6. \A r \in Regions' : NewestFirst(listing'[r])
    BY <1>1 DEF site, Regions
<1> QED BY <1>3, <1>4, <1>5, <1>6 DEF NewestFirst
-----------------------------------------------------------------------------
(* What follows of the answer's total, be it the first one or a later one. *)
LEMMA KeepTotalTracks ==
    ASSUME ObjectsInv, pc = "fetch", KeepTotal, UNCHANGED <<site, region>>
    PROVE  /\ ApiTotal \in 0..MaxObject /\ total' = ApiTotal
           /\ Effective \in Nat /\ Effective <= Target /\ Len(wanted') = Effective
           /\ ApiTotal = 0 => Effective = 0
           /\ Len(objects) \in Nat /\ offset = Len(objects)
           /\ Effective # 0 => Len(objects) < Effective
           /\ Tracked' /\ Current' = Current
           /\ IdsOf(objects) \subseteq Ever'
           /\ \A b \in IdsOf(objects) \cap Beyond' :
                 Cardinality({id \in Beyond' : b <= id}) <= Cardinality(removed')
<1> USE DEF ObjectsInv, ObjectsAreExplained
<1>1. /\ Target \in Nat \ {0} /\ Len(Current) \in 0..MaxObject /\ MaxObject \in Nat
      /\ Len(objects) \in Nat /\ total \in 0..Unknown /\ Unknown = MaxObject + 1
    <2>1. Target \in Nat \ {0} /\ MaxObject \in Nat /\ Len(Current) \in 0..MaxObject
        BY SizesAssumption, ListingsAssumption, CurrentLength
    <2>2. objects \in Seq(Objects) /\ total \in 0..Unknown
        BY DEF ObjectsTypeOK
    <2> QED BY <2>1, <2>2, LenProperties DEF Unknown
<1>2. Current' = Current
    BY DEF site, Current
<1>3. CASE total = Unknown
    <2>1. objects = <<>> /\ offset = 0
        BY <1>3 DEF Fresh
    <2>2. ApiTotal = Len(Current) /\ FirstRead /\ total' = ApiTotal
        BY <1>3 DEF KeepTotal, ApiTotal
    <2>3. Tracked' /\ Len(wanted') = Least(Target, Len(Current))
        BY <2>2, FirstReadTracks
    <2>4. IdsOf(objects) = {} /\ Len(objects) = 0
        BY <2>1 DEF IdsOf, Entries
    <2>5. Effective = Least(Target, Len(Current))
        BY <2>2 DEF Effective
    <2>6. /\ Effective \in Nat /\ Effective <= Target
          /\ ApiTotal = 0 => Effective = 0
          /\ Effective # 0 => 0 < Effective
        BY <1>1, <2>2, <2>5 DEF Least
    <2> QED BY <1>1, <1>2, <2>1, <2>2, <2>3, <2>4, <2>5, <2>6
<1>4. CASE total # Unknown
    <2>1. Tracked /\ Paid /\ IdsOf(objects) \subseteq Ever
        BY <1>4 DEF Followed, UnderWay
    <2>2. /\ Len(wanted) = Least(Target, total)
          /\ Len(objects) < Len(wanted) /\ offset = Len(objects)
        BY <1>4 DEF Fetching
    <2>3. /\ ApiTotal = total /\ total' = total
          /\ UNCHANGED <<wanted, newest, removed>>
        BY <1>4 DEF KeepTotal, ApiTotal
    <2>4. Ever' = Ever
        BY <1>2, <2>3 DEF Ever, IdsOf, Entries
    <2>5. Beyond' = Beyond
        BY <2>3, <2>4 DEF Beyond, IdsOf, Entries
    <2>6. Objects' = Objects /\ published' = published
        BY DEF site, Objects
    <2>7. Tracked'
        BY <2>1, <2>3, <2>4, <2>5, <2>6 DEF Tracked, NewestFirst, IdsOf, Entries
    <2>8. Effective = Least(Target, total)
        BY <2>3 DEF Effective
    <2>9. /\ Effective \in Nat /\ Effective <= Target
          /\ total = 0 => Effective = 0
          /\ total \in 0..MaxObject
        BY <1>1, <1>4, <2>8 DEF Least
    <2>10. \A b \in IdsOf(objects) \cap Beyond' :
               Cardinality({id \in Beyond' : b <= id}) <= Cardinality(removed')
        BY <2>1, <2>3, <2>5 DEF Paid
    <2> QED BY <1>1, <1>2, <2>1, <2>2, <2>3, <2>4, <2>7, <2>8, <2>9, <2>10
<1> QED BY <1>3, <1>4

(* The wanted objects are as many as their ids.                            *)
LEMMA WantedCount ==
    ASSUME NEW S, NEW list \in Seq(S), NewestFirst(list), \A w \in IdsOf(list) : w \in Nat
    PROVE  IsFiniteSet(IdsOf(list)) /\ Cardinality(IdsOf(list)) = Len(list)
<1>1. /\ Len(list) \in Nat /\ DOMAIN list = 1..Len(list)
      /\ IdsOf(list) = {list[i].id : i \in 1..Len(list)}
    BY IdsByPlace
<1>2. ASSUME NEW i \in 1..Len(list), NEW j \in 1..Len(list), i # j
      PROVE  list[i].id # list[j].id
    <2>1. i < j => list[i].id > list[j].id
        BY <1>1 DEF NewestFirst
    <2>2. j < i => list[j].id > list[i].id
        BY <1>1 DEF NewestFirst
    <2>3. list[i].id \in Nat /\ list[j].id \in Nat
        BY <1>1
    <2> QED BY <1>1, <1>2, <2>1, <2>2, <2>3
<1>3. PICK n \in Nat : n = Len(list)
    BY <1>1
<1>4. \A i, j \in 1..n : i # j => list[i].id # list[j].id
    BY <1>2, <1>3
<1>5. IsFiniteSet({list[i].id : i \in 1..n}) /\ Cardinality({list[i].id : i \in 1..n}) = n
    BY <1>4, DistinctCount
<1> QED BY <1>1, <1>3, <1>5

LEMMA ReceiveBatchStep == ASSUME ObjectsInv, ReceiveBatch PROVE ObjectsInv'
<1> USE DEF ObjectsInv, ObjectsAreExplained
<1>1. /\ pc = "fetch" /\ KeepTotal /\ ApiTotal # 0
      /\ UNCHANGED <<site, region, page, result, hidden>>
    BY DEF ReceiveBatch
<1>2. PICK batch \in Batches : batch # <<>> /\ TakeBatch(batch)
    BY DEF ReceiveBatch
<1>3. PICK n \in 1..BatchSize :
          batch = SubSeq(Current, (IF stuck THEN 0 ELSE offset) + 1,
                         Least((IF stuck THEN 0 ELSE offset) + n, Len(Current)))
    BY DEF Batches
<1> DEFINE from == IF stuck THEN 0 ELSE offset
           last == Least(from + n, Len(Current))
           added == First(batch, Effective - Len(objects))
           W == IdsOf(wanted')
           O == IdsOf(objects')
<1>4. /\ ApiTotal \in 0..MaxObject /\ total' = ApiTotal
      /\ Effective \in Nat /\ Effective <= Target /\ Len(wanted') = Effective
      /\ Len(objects) \in Nat /\ offset = Len(objects)
      /\ Tracked' /\ Current' = Current
      /\ IdsOf(objects) \subseteq Ever'
      /\ \A b \in IdsOf(objects) \cap Beyond' :
            Cardinality({id \in Beyond' : b <= id}) <= Cardinality(removed')
    BY <1>1, KeepTotalTracks
<1>5. Len(objects) < Effective
    <2>1. Effective # 0
        BY <1>1, <1>4, SizesAssumption DEF Effective, Least
    <2> QED BY <1>1, <2>1, KeepTotalTracks
<1>6. /\ Current \in Seq(Objects) /\ Len(Current) \in Nat /\ published \in Nat
      /\ DOMAIN Current = 1..Len(Current)
      /\ IdsOf(Current) = {Current[i].id : i \in 1..Len(Current)}
      /\ IdsOf(Current) \subseteq 1..published
      /\ \A i \in 1..Len(Current) : Current[i].id \in 1..published
      /\ BatchSize \in Nat \ {0}
    BY ObjectsShape
<1>7. NewestFirst(Current)
    <2>1. region \in Regions
        BY DEF ObjectsTypeOK
    <2> QED BY <2>1 DEF Current
<1>8. /\ Objects' = Objects /\ published' = published /\ Unknown' = Unknown
      /\ Regions' = Regions /\ objects \in Seq(Objects) /\ Unknown = MaxObject + 1
      /\ MaxObject \in Nat
    BY <1>1, ListingsAssumption DEF site, Objects, ObjectsTypeOK, Regions, Unknown
<1>9. from \in Nat /\ last \in Nat /\ last <= Len(Current) /\ from <= Len(objects)
    <2>1. from \in Nat /\ from <= Len(objects)
        BY <1>4
    <2> HIDE DEF from
    <2>2. last \in Nat /\ last <= Len(Current)
        BY <1>6, <2>1 DEF Least
    <2> QED BY <2>1, <2>2
<1>10. batch = SubSeq(Current, from + 1, last)
    BY <1>3
<1> HIDE DEF from, last
<1>11. /\ Len(batch) \in Nat /\ added \in Seq(Objects) /\ Len(added) \in Nat
       /\ Len(added) <= Effective - Len(objects)
       /\ Len(objects) + Len(added) # Effective => Len(added) = Len(batch)
       /\ \A i \in 1..Len(added) : \E p \in 1..Len(Current) :
             p <= Effective /\ added[i] = Current[p]
    <2> DEFINE room == Effective - Len(objects)
    <2>1. /\ batch \in Seq(Objects)
          /\ Len(batch) = IF from < last THEN last - from ELSE 0
          /\ \A i \in 1..Len(batch) : batch[i] = Current[from + i]
        BY <1>6, <1>9, <1>10, PartOfList
    <2>2. room \in Nat /\ Len(batch) \in Nat
        BY <1>4, <1>5, <1>9, <2>1
    <2> HIDE DEF room, ObjectsInv, ObjectsAreExplained
    <2>3. /\ First(batch, room) \in Seq(Objects)
          /\ Len(First(batch, room)) = Least(room, Len(batch))
          /\ Least(room, Len(batch)) \in Nat
          /\ \A i \in 1..Least(room, Len(batch)) : First(batch, room)[i] = batch[i]
        BY <2>1, <2>2, FirstOf
    <2>4. /\ Least(room, Len(batch)) <= room /\ Least(room, Len(batch)) <= Len(batch)
          /\ Least(room, Len(batch)) # room => Least(room, Len(batch)) = Len(batch)
        BY <2>2 DEF Least
    <2>5. added = First(batch, room)
        BY DEF added, room
    <2> HIDE DEF added
    <2>6. /\ added \in Seq(Objects) /\ Len(added) \in Nat
          /\ Len(added) <= room /\ Len(added) <= Len(batch)
          /\ Len(added) # room => Len(added) = Len(batch)
          /\ \A i \in 1..Len(added) : added[i] = batch[i]
        BY <2>3, <2>4, <2>5
    <2>7. Len(objects) + Len(added) # Effective => Len(added) # room
        <3>1. Len(objects) \in Nat /\ Effective \in Nat /\ Len(added) \in Nat
            BY <1>4, <2>6
        <3> QED BY <3>1 DEF room
    <2>8. ASSUME NEW i \in 1..Len(added)
          PROVE  \E p \in 1..Len(Current) : p <= Effective /\ added[i] = Current[p]
        <3>1. i \in 1..Len(batch) /\ i <= room
            BY <2>2, <2>6
        <3>2. added[i] = Current[from + i]
            BY <2>1, <2>6, <3>1
        <3>3. from + i \in 1..Len(Current) /\ from + i <= Effective
            BY <1>4, <1>6, <1>9, <2>1, <3>1 DEF room
        <3> QED BY <3>2, <3>3
    <2>9. Len(added) <= Effective - Len(objects)
        BY <2>6 DEF room
    <2> QED BY <2>2, <2>6, <2>7, <2>8, <2>9
<1>12. /\ objects' = objects \o added /\ offset' = offset + Len(batch)
       /\ pc' = IF Len(objects') = Effective THEN "collected" ELSE "fetch"
    BY <1>2 DEF TakeBatch
<1> HIDE DEF added
<1>13. /\ objects' \in Seq(Objects) /\ Len(objects') = Len(objects) + Len(added)
       /\ \A i \in 1..Len(objects) + Len(added) :
             objects'[i] = IF i <= Len(objects) THEN objects[i] ELSE added[i - Len(objects)]
    BY <1>8, <1>11, <1>12, ConcatProperties
<1>14. Len(objects') <= Effective
    BY <1>4, <1>11, <1>13
<1>15. /\ O = {objects'[i].id : i \in 1..Len(objects')} /\ Len(objects') \in Nat
       /\ DOMAIN objects' = 1..Len(objects')
       /\ IdsOf(objects) = {objects[i].id : i \in 1..Len(objects)}
    BY <1>8, <1>13, IdsByPlace
<1>16. ASSUME NEW id \in O, id \notin IdsOf(objects)
       PROVE  \E p \in 1..Len(Current) : p <= Effective /\ Current[p].id = id
    <2>1. PICK i \in 1..Len(objects') : objects'[i].id = id
        BY <1>15
    <2>2. ~(i <= Len(objects))
        <3> SUFFICES ASSUME i <= Len(objects) PROVE FALSE
            OBVIOUS
        <3>1. i \in 1..Len(objects) /\ objects'[i] = objects[i]
            BY <1>4, <1>13
        <3> QED BY <1>15, <1>16, <2>1, <3>1
    <2>3. i - Len(objects) \in 1..Len(added) /\ objects'[i] = added[i - Len(objects)]
        BY <1>4, <1>11, <1>13, <2>2
    <2> QED BY <1>11, <2>1, <2>3
<1>17. IdsOf(Current') \subseteq Ever'
    BY DEF Ever, IdsOf, Entries
<1>18. O \subseteq Ever'
    <2> SUFFICES ASSUME NEW id \in O, id \notin IdsOf(objects) PROVE id \in Ever'
        BY <1>4
    <2>1. id \in IdsOf(Current)
        BY <1>6, <1>16
    <2> QED BY <1>4, <1>17, <2>1
<1>19. /\ W \subseteq Ever' /\ Ever' = IdsOf(Current) \cup removed'
       /\ newest' \in Nat /\ newest' <= published /\ removed' \subseteq 1..published
       /\ \A w \in W : w <= newest' /\ \A id \in Beyond' : id < w
       /\ wanted' \in Seq(Objects) /\ NewestFirst(wanted')
       /\ Beyond' = {id \in Ever' : id <= newest' /\ id \notin W}
    <2>1. IdsOf(wanted)' = W /\ IdsOf(Current)' = IdsOf(Current)
        BY <1>4 DEF IdsOf, Entries
    <2>2. newest' \in 0..published'
        BY <1>4 DEF Tracked
    <2>3. newest' \in Nat /\ newest' <= published
        BY <1>6, <1>8, <2>2
    <2>4. /\ W \subseteq Ever' /\ removed' \subseteq 1..published
          /\ \A w \in W : w <= newest' /\ \A id \in Beyond' : id < w
          /\ wanted' \in Seq(Objects) /\ NewestFirst(wanted')
        BY <1>4, <1>8, <2>1 DEF Tracked, NewestFirst
    <2> QED BY <2>1, <2>3, <2>4 DEF Ever, Beyond
<1>20. /\ IsFiniteSet(Ever') /\ Ever' \subseteq 1..published
       /\ IsFiniteSet(removed') /\ IsFiniteSet(Beyond') /\ IsFiniteSet(O)
       /\ IsFiniteSet(W) /\ Cardinality(W) = Effective
    <2>1. IsFiniteSet(1..published)
        BY <1>6, FS_Interval
    <2>2. Ever' \subseteq 1..published
        BY <1>6, <1>19
    <2>3. Beyond' \subseteq 1..published /\ O \subseteq 1..published
        BY <1>18, <1>19, <2>2
    <2>4. \A w \in W : w \in Nat
        BY <1>19, <2>2
    <2>5. IsFiniteSet(W) /\ Cardinality(W) = Effective
        BY <1>4, <1>19, <2>4, WantedCount
    <2> QED BY <1>19, <2>1, <2>2, <2>3, <2>5, FS_Subset
<1>21. ASSUME NEW b \in O \cap Beyond'
       PROVE  Cardinality({id \in Beyond' : b <= id}) <= Cardinality(removed')
    <2>1. CASE b \in IdsOf(objects)
        BY <1>4, <2>1
    <2>2. CASE b \notin IdsOf(objects)
        <3>1. PICK p \in 1..Len(Current) : p <= Effective /\ Current[p].id = b
            BY <1>16, <2>2
        <3>2. /\ \A i \in 1..Len(Current) : Current[i].id \in Nat
              /\ W \in SUBSET Nat /\ removed' \in SUBSET Nat
            BY <1>6, <1>19, <1>20
        <3>3. /\ Current[p].id \notin W /\ \A w \in W : Current[p].id < w
              /\ Beyond' \subseteq (IdsOf(Current) \cup removed') \ W
              /\ W \subseteq IdsOf(Current) \cup removed'
            BY <1>19, <3>1
        <3>4. Cardinality({id \in Beyond' : Current[p].id <= id}) <= Cardinality(removed')
            <4> DEFINE behind == Beyond'
                       taken == removed'
                       size == Len(Current)
            <4>1. /\ size \in Nat /\ DOMAIN Current = 1..size /\ p \in 1..size
                  /\ NewestFirst(Current) /\ \A i \in 1..size : Current[i].id \in Nat
                BY <1>6, <1>7, <3>2
            <4>2. /\ W \in SUBSET Nat /\ IsFiniteSet(W) /\ p <= Cardinality(W)
                  /\ taken \in SUBSET Nat /\ IsFiniteSet(taken)
                BY <1>20, <3>1, <3>2
            <4>3. /\ W \subseteq IdsOf(Current) \cup taken
                  /\ behind \subseteq (IdsOf(Current) \cup taken) \ W
                  /\ Current[p].id \notin W /\ \A w \in W : Current[p].id < w
                BY <3>3
            <4> HIDE DEF W, O, behind, taken, size
            <4>4. Cardinality({id \in behind : Current[p].id <= id}) <= Cardinality(taken)
                BY <4>1, <4>2, <4>3, PaidWithinReach, ZenonT(120)
            <4> QED BY <4>4 DEF behind, taken
        <3> QED BY <3>1, <3>4
    <2> QED BY <2>1, <2>2
<1>22. ObjectsTypeOK'
    <2>1. Len(objects') <= Target
        <3>1. Target \in Nat
            BY SizesAssumption
        <3> QED BY <1>4, <1>14, <1>15, <3>1
    <2>2. total' \in 0..Unknown' /\ offset' \in Nat
        BY <1>4, <1>8, <1>11, <1>12
    <2>3. pc' \in {"fetch", "collected"}
        BY <1>12
    <2> QED BY <1>1, <1>8, <1>13, <2>1, <2>2, <2>3 DEF ObjectsTypeOK, site
<1>23. OkIsSound' /\ Fresh' /\ PageRead'
    <2>1. pc' \in {"fetch", "collected"} /\ total' # Unknown'
        BY <1>4, <1>8, <1>12
    <2> QED BY <2>1 DEF OkIsSound, Fresh, PageRead
<1>24. Followed'
    <2>1. IdsOf(objects)' = O
        BY DEF IdsOf, Entries
    <2>2. Paid'
        BY <1>21, <2>1 DEF Paid
    <2> QED BY <1>4, <1>18, <2>1, <2>2 DEF Followed
<1>25. Fetching'
    <2> SUFFICES ASSUME pc' = "fetch"
                 PROVE  /\ Len(wanted') = Least(Target, total')
                        /\ Len(objects') < Len(wanted') /\ offset' = Len(objects')
        BY DEF Fetching, Least
    <2>1. Len(objects') # Effective
        BY <1>12
    <2>2. Len(wanted') = Least(Target, total')
        BY <1>4 DEF Effective
    <2> QED BY <1>4, <1>11, <1>12, <1>13, <1>14, <1>15, <2>1, <2>2
<1>26. EveryMissHasItsCause'
    <2> SUFFICES ASSUME pc' = "collected", Distinct(objects')
                 PROVE  Cardinality(Missed') <= Cardinality(removed') + Cardinality(Newer')
        BY DEF EveryMissHasItsCause, Distinct
    <2>1. Len(objects') = Effective
        BY <1>12
    <2>2. Cardinality(O) = Cardinality(W)
        <3>1. \A i, j \in 1..Len(objects') : i # j => objects'[i].id # objects'[j].id
            BY <1>15 DEF Distinct
        <3>2. Cardinality(O) = Len(objects')
            <4> HIDE DEF O
            <4> QED BY <1>15, <3>1, DistinctCount
        <3> QED BY <1>20, <2>1, <3>2
    <2>3. /\ W \in SUBSET Nat /\ O \in SUBSET Nat /\ removed' \in SUBSET Nat
          /\ Beyond' \in SUBSET Nat
        BY <1>18, <1>19, <1>20
    <2>4. \A id \in O : id <= newest' /\ id \notin W => id \in Beyond'
        BY <1>18, <1>19
    <2>5. Cardinality(W \ (O \cup removed'))
             <= Cardinality(removed') + Cardinality({id \in O : id > newest'})
        <3> DEFINE behind == Beyond'
                   taken == removed'
                   new == newest'
        <3>1. /\ W \in SUBSET Nat /\ IsFiniteSet(W) /\ taken \in SUBSET Nat /\ IsFiniteSet(taken)
              /\ O \in SUBSET Nat /\ IsFiniteSet(O) /\ Cardinality(O) = Cardinality(W)
              /\ new \in Nat /\ \A w \in W : w <= new
            BY <1>19, <1>20, <2>2, <2>3
        <3>2. /\ behind \in SUBSET Nat /\ IsFiniteSet(behind)
              /\ \A id \in O : id <= new /\ id \notin W => id \in behind
            BY <1>20, <2>3, <2>4
        <3>3. \A b \in O \cap behind :
                  Cardinality({id \in behind : b <= id}) <= Cardinality(taken)
            BY <1>21
        <3> HIDE DEF W, O, behind, taken, new
        <3>4. Cardinality(W \ (O \cup taken))
                 <= Cardinality(taken) + Cardinality({id \in O : id > new})
            BY <3>1, <3>2, <3>3, MissedForACause
        <3> QED BY <3>4 DEF taken, new
    <2>6. Missed' = W \ (O \cup removed') /\ Newer' = {id \in O : id > newest'}
        BY DEF Missed, Newer, IdsOf, Entries
    <2> QED BY <2>5, <2>6
<1>27. \A r \in Regions' : NewestFirst(listing[r])'
    BY <1>1, <1>8 DEF site, NewestFirst
<1> QED BY <1>22, <1>23, <1>24, <1>25, <1>26, <1>27

LEMMA ReceiveTotalZeroStep == ASSUME ObjectsInv, ReceiveTotalZero PROVE ObjectsInv'
<1> USE DEF ObjectsInv, ObjectsAreExplained
<1>1. /\ pc = "fetch" /\ KeepTotal /\ ApiTotal = 0 /\ pc' = "collected"
      /\ UNCHANGED <<site, region, page, objects, offset, result, hidden>>
    BY DEF ReceiveTotalZero
<1>2. /\ ApiTotal \in 0..MaxObject /\ total' = ApiTotal
      /\ Len(wanted') = 0 /\ Tracked'
    BY <1>1, KeepTotalTracks
<1>3. ObjectsTypeOK'
    <2>1. total' \in 0..Unknown
        BY <1>2, ListingsAssumption DEF Unknown
    <2> QED BY <1>1, <2>1 DEF ObjectsTypeOK, Objects, site, Unknown, Regions
<1>4. EveryMissHasItsCause'
    <2>1. /\ Objects' = Objects /\ published' = published /\ published \in Nat
          /\ objects' \in Seq(Objects)
        BY <1>1 DEF Objects, site, ObjectsTypeOK
    <2>2. Missed' = {}
        <3>1. wanted' \in Seq(Objects)
            BY <1>2, <2>1 DEF Tracked
        <3>2. IdsOf(wanted') = {wanted'[i].id : i \in 1..0}
            BY <1>2, <3>1, IdsByPlace
        <3>3. IdsOf(wanted') = {}
            BY <3>2
        <3>4. IdsOf(wanted)' = {}
            BY <3>3 DEF IdsOf, Entries
        <3> QED BY <3>4 DEF Missed
    <2>3. IsFiniteSet(1..published)
        BY <2>1, FS_Interval
    <2>4. IsFiniteSet(removed')
        BY <1>2, <2>1, <2>3, FS_Subset DEF Tracked
    <2>5. IsFiniteSet(Newer')
        <3>1. IdsOf(objects') \subseteq 1..published
            BY <2>1, IdsWithin
        <3>2. Newer' \subseteq 1..published
            BY <3>1 DEF Newer, IdsOf, Entries
        <3> QED BY <2>3, <3>2, FS_Subset
    <2>6. /\ Cardinality(Missed') = 0 /\ Cardinality(removed') \in Nat
          /\ Cardinality(Newer') \in Nat
        BY <2>2, <2>4, <2>5, FS_EmptySet, FS_CardinalityType
    <2> QED BY <2>6 DEF EveryMissHasItsCause
<1>5. OkIsSound' /\ Fresh'
    BY <1>1 DEF OkIsSound, Fresh
<1> QED BY <1>1, <1>3, <1>4, <1>5, RegionKeeps

LEMMA ReceiveNothingNewStep == ASSUME ObjectsInv, ReceiveNothingNew PROVE ObjectsInv'
<1> USE DEF ObjectsInv, ObjectsAreExplained
<1>1. /\ pc = "fetch" /\ KeepTotal /\ pc' = "raised"
      /\ UNCHANGED <<site, region, page, objects, offset, result, hidden>>
    BY DEF ReceiveNothingNew
<1>2. total' \in 0..Unknown
    <2>1. total' \in 0..MaxObject
        BY <1>1, KeepTotalTracks
    <2> QED BY <2>1, ListingsAssumption DEF Unknown
<1>3. ObjectsTypeOK'
    BY <1>1, <1>2 DEF ObjectsTypeOK, Objects, site, Unknown, Regions
<1>4. OkIsSound' /\ EveryMissHasItsCause' /\ Fresh'
    BY <1>1 DEF OkIsSound, EveryMissHasItsCause, Fresh
<1> QED BY <1>1, <1>3, <1>4, RegionKeeps

LEMMA FailStep == ASSUME ObjectsInv, Fail PROVE ObjectsInv'
<1> USE DEF ObjectsInv, ObjectsAreExplained
<1>1. /\ pc' = "raised"
      /\ UNCHANGED <<site, region, page, objects, total, offset, result, ghosts>>
    BY DEF Fail
<1>2. ObjectsTypeOK'
    BY <1>1 DEF ObjectsTypeOK, Objects, site, Unknown, Regions
<1>3. OkIsSound' /\ EveryMissHasItsCause' /\ Fresh'
    BY <1>1 DEF OkIsSound, EveryMissHasItsCause, Fresh
<1> QED BY <1>1, <1>2, <1>3, RegionKeeps

LEMMA NextRegionStep == ASSUME ObjectsInv, NextRegion PROVE ObjectsInv'
<1> USE DEF ObjectsInv, ObjectsAreExplained
<1>1. /\ result' = result \o objects
      /\ pc' = IF region = RegionCount THEN "validate" ELSE "open"
      /\ region' = Least(region + 1, RegionCount)
      /\ page' = <<>> /\ objects' = <<>> /\ total' = Unknown /\ offset' = 0
      /\ UNCHANGED site
    BY DEF NextRegion
<1>2. /\ Objects' = Objects /\ Unknown' = Unknown /\ Regions' = Regions
      /\ Unknown \in 0..Unknown
    BY <1>1, ListingsAssumption DEF site, Objects, Unknown, Regions
<1>3. pc' \in {"validate", "open"}
    BY <1>1
<1>4. ObjectsTypeOK'
    <2>1. region' \in Regions
        <3>1. region \in 1..RegionCount /\ RegionCount \in Nat
            BY SizesAssumption DEF ObjectsTypeOK, Regions
        <3> HIDE DEF ObjectsInv
        <3> QED BY <1>1, <3>1 DEF Least, Regions
    <2>2. result' \in Seq(Objects)
        <3>1. result \in Seq(Objects) /\ objects \in Seq(Objects)
            BY DEF ObjectsTypeOK
        <3> QED BY <1>1, <3>1, ConcatProperties
    <2>3. <<>> \in Seq(Objects) /\ Len(<<>>) <= Target
        <3>1. <<>> \in Seq(Objects) /\ Len(<<>>) = 0
            BY EmptySeq
        <3> QED BY <3>1, SizesAssumption
    <2>4. listing' = listing /\ published' = published /\ stuck' = stuck
        BY <1>1 DEF site
    <2> QED BY <1>1, <1>2, <1>3, <2>1, <2>2, <2>3, <2>4 DEF ObjectsTypeOK
<1>5. OkIsSound' /\ EveryMissHasItsCause' /\ Fresh'
    BY <1>1, <1>2, <1>3 DEF OkIsSound, EveryMissHasItsCause, Fresh
<1> QED BY <1>1, <1>3, <1>4, <1>5, RegionKeeps

LEMMA ValidateStep == ASSUME ObjectsInv, Validate PROVE ObjectsInv'
<1> USE DEF ObjectsInv, ObjectsAreExplained
<1>1. /\ pc' = IF ObjectsValid(result, Regions) THEN "ok" ELSE "rejected"
      /\ UNCHANGED <<site, region, page, objects, total, offset, result, ghosts>>
    BY DEF Validate
<1>2. pc' \in {"ok", "rejected"}
    BY <1>1
<1>3. ObjectsTypeOK'
    BY <1>1, <1>2 DEF ObjectsTypeOK, Objects, site, Unknown, Regions
<1>4. OkIsSound'
    <2> SUFFICES ASSUME pc' = "ok"
                 PROVE  /\ Cardinality(IdsOf(result)) = Len(result)
                        /\ \A r \in Regions : \E i \in DOMAIN result : result[i].region = r
        BY <1>1 DEF OkIsSound, Regions, IdsOf, Entries
    <2>1. Distinct(result) /\ RegionsOf(result) = Regions
        BY <1>1 DEF ObjectsValid
    <2>2. result \in Seq(Objects)
        BY DEF ObjectsTypeOK
    <2>3. PICK n \in Nat : n = Len(result)
        BY <2>2, LenProperties
    <2>4. DOMAIN result = 1..n /\ IdsOf(result) = {result[i].id : i \in 1..n}
        BY <2>2, <2>3, IdsByPlace
    <2>5. \A i, j \in 1..n : i # j => result[i].id # result[j].id
        BY <2>1, <2>4 DEF Distinct
    <2>6. Cardinality({result[i].id : i \in 1..n}) = n
        BY <2>5, DistinctCount
    <2>7. \A r \in Regions : \E i \in DOMAIN result : result[i].region = r
        BY <2>1 DEF RegionsOf, Entries
    <2> QED BY <2>3, <2>4, <2>6, <2>7
<1>5. EveryMissHasItsCause' /\ Fresh'
    BY <1>2 DEF EveryMissHasItsCause, Fresh
<1> QED BY <1>1, <1>2, <1>3, <1>4, <1>5, RegionKeeps

LEMMA ObjectsStep == ObjectsInv /\ [ObjectsNext]_objectsVars => ObjectsInv'
<1> SUFFICES ASSUME ObjectsInv, [ObjectsNext]_objectsVars PROVE ObjectsInv'
    OBVIOUS
<1>1. CASE UNCHANGED objectsVars
    <2>1. UNCHANGED <<listing, published, stuck, region, pc, page, objects, total, offset,
                      result, wanted, newest, removed, hidden>>
        BY <1>1 DEF objectsVars, site, ghosts
    <2>2. ObjectsTypeOK'
        BY <2>1 DEF ObjectsInv, ObjectsAreExplained, ObjectsTypeOK, Objects, Regions, Unknown
    <2>3. OkIsSound' /\ EveryMissHasItsCause'
        BY <2>1 DEF ObjectsInv, ObjectsAreExplained, OkIsSound, EveryMissHasItsCause, Missed,
                    Newer, Regions, IdsOf, Entries, Distinct
    <2>4. Ever' = Ever /\ Beyond' = Beyond /\ IdsOf(objects)' = IdsOf(objects)
          /\ IdsOf(wanted)' = IdsOf(wanted) /\ Objects' = Objects
        BY <2>1 DEF Ever, Beyond, Current, IdsOf, Entries, Objects
    <2>5. Followed'
        BY <2>1, <2>4 DEF ObjectsInv, Followed, UnderWay, Tracked, Paid, NewestFirst, Unknown
    <2>6. Fetching' /\ Fresh' /\ PageRead'
        BY <2>1 DEF ObjectsInv, Fetching, Fresh, PageRead, First, Least, Unknown
    <2>7. (\A r \in Regions : NewestFirst(listing[r]))'
        BY <2>1 DEF ObjectsInv, Regions, NewestFirst
    <2> QED BY <2>2, <2>3, <2>5, <2>6, <2>7 DEF ObjectsInv, ObjectsAreExplained
<1>2. CASE ObjectsAnswered
    BY <1>2, OpenRegionStep, TakePageStep, TakeShortPageStep, ClickLoadMoreStep,
       ReceiveBatchStep, ReceiveTotalZeroStep, ReceiveNothingNewStep, NextRegionStep,
       ValidateStep DEF ObjectsAnswered
<1>3. CASE Fail \/ Publish \/ Remove
    BY <1>3, FailStep, PublishStep, RemoveStep
<1> QED BY <1>1, <1>2, <1>3 DEF ObjectsNext

(* However the listings move while they are read, whatever the server makes *)
(* of the limit and the offset: a region's objects, before they are        *)
(* validated, miss no more of those it began with than were taken off or   *)
(* made room for newer ones, and a result that passes has every object     *)
(* once and objects of every region.                                       *)
THEOREM ObjectsExplained == ObjectsSpec => []ObjectsAreExplained
<1>1. ObjectsInv => ObjectsAreExplained
    BY DEF ObjectsInv
<1> QED BY ObjectsInitially, ObjectsStep, <1>1, PTL DEF ObjectsSpec
==============================================================================
