-------------------------- MODULE DeveloperRegistry --------------------------
(***************************************************************************)
(* NashDomClient.get_developers: the registry is read from its start,      *)
(* batch by batch, until the developers asked for have been seen, then the *)
(* pages of those that have not, while developers are entered, renamed,    *)
(* edited and struck off.                                                  *)
(*                                                                         *)
(* A record is the id and the version of its data.                         *)
(***************************************************************************)
EXTENDS SourceData, FiniteSets

CONSTANTS
    Requests,            \* the sets of developers there may be asked for
    DeveloperBatchSize,  \* _DEVELOPER_API_BATCH_SIZE
    InitialRegistries,   \* the registries there may be at first
    KnownDevelopers,     \* the ids of their records are 1..KnownDevelopers
    MaxChanges           \* bound on the changes of the registry

ASSUME RegistryAssumption ==
    /\ DeveloperBatchSize \in Nat \ {0}
    /\ \A ids \in Requests : ids \subseteq Nat
    /\ KnownDevelopers \in Nat /\ MaxChanges \in Nat
    /\ \A list \in InitialRegistries :
          list \in Seq([id : 1..KnownDevelopers, version : Nat]) /\ Distinct(list)

VARIABLES
    registry,   \* the records, by name
    changes,    \* how many there were
    moved,      \* has a record come, gone or changed its place?
    heeds,      \* does the API heed the offset?
    requested,  \* developer_ids
    phase,      \* bulk, details or over
    bulk_offset,
    index,      \* registry_index: the records seen
    developers, \* raw_developers
    detailed    \* the developers read from their own pages

registrySite == <<registry, changes, moved, heeds>>
registryVars == <<registrySite, requested, phase, bulk_offset, index, developers, detailed>>

Records == [id : Nat, version : Nat]

Ids(records) == {r.id : r \in records}

RegistryInit ==
    /\ registry \in InitialRegistries
    /\ changes = 0
    /\ moved = FALSE
    /\ heeds \in BOOLEAN
    /\ requested \in Requests
    /\ phase = "bulk"
    /\ bulk_offset = 0
    /\ index = {} /\ developers = {} /\ detailed = {}

ReadingOver == phase \in {"ok", "raised"}
-----------------------------------------------------------------------------
(* The registry (external).                                                *)

InsertedAt(list, i, record) == SubSeq(list, 1, i - 1) \o <<record>> \o SubSeq(list, i, Len(list))

Change(list) ==
    /\ ~ReadingOver
    /\ changes < MaxChanges
    /\ changes' = changes + 1
    /\ registry' = list
    /\ UNCHANGED <<heeds, requested, phase, bulk_offset, index, developers, detailed>>

Newcomer == [id |-> KnownDevelopers + 1 + changes, version |-> 0]

Enter ==
    \E i \in 1..Len(registry) + 1 : Change(InsertedAt(registry, i, Newcomer)) /\ moved' = TRUE

StrikeOff ==
    \E i \in DOMAIN registry : Change(Without(registry, i)) /\ moved' = TRUE

Edit ==
    \E i \in DOMAIN registry :
        /\ Change([registry EXCEPT ![i].version = @ + 1])
        /\ UNCHANGED moved

Rename ==
    \E i, j \in DOMAIN registry :
        /\ i # j
        /\ Change(InsertedAt(Without(registry, i), j, [registry[i] EXCEPT !.version = @ + 1]))
        /\ moved' = TRUE
-----------------------------------------------------------------------------
(* _collect_bulk_developers.                                               *)

Batch ==
    LET from == IF heeds THEN bulk_offset ELSE 0
        end == IF from + DeveloperBatchSize < Len(registry) THEN from + DeveloperBatchSize
                                                            ELSE Len(registry)
    IN  SubSeq(registry, from + 1, end)

(* A record differs from one with its id seen before.                      *)
Differs(batch) ==
    \E r \in Entries(batch) : \E s \in index \cup Entries(batch) :
        r.id = s.id /\ r.version # s.version

(* All are found, the registry ends, or the batch has nothing new.         *)
BulkEnds(batch, found) ==
    \/ requested \subseteq Ids(found)
    \/ Len(batch) < DeveloperBatchSize
    \/ Ids(Entries(batch)) \subseteq Ids(index)

ReceiveBulkSkipping ==
    /\ phase = "bulk"
    /\ ~Differs(Batch)
    /\ LET found == developers \cup {r \in Entries(Batch) : r.id \in requested}
       IN  /\ developers' = found
           /\ phase' = IF BulkEnds(Batch, found) THEN "details" ELSE "bulk"
    /\ index' = index \cup Entries(Batch)
    /\ bulk_offset' = IF phase' = "bulk" THEN bulk_offset + Len(Batch) + 1 ELSE bulk_offset
    /\ UNCHANGED <<registrySite, requested, detailed>>

ReceiveBulkAdvancingByNews ==
    /\ phase = "bulk"
    /\ ~Differs(Batch)
    /\ LET found == developers \cup {r \in Entries(Batch) : r.id \in requested}
       IN  /\ developers' = found
           /\ phase' = IF requested \subseteq Ids(found) \/ Len(Batch) < DeveloperBatchSize
                    THEN "details" ELSE "bulk"
    /\ index' = index \cup Entries(Batch)
    /\ bulk_offset' = bulk_offset + Cardinality(Entries(Batch) \ index)
    /\ UNCHANGED <<registrySite, requested, detailed>>

ReceiveBulk ==
    /\ phase = "bulk"
    /\ ~Differs(Batch)
    /\ LET found == developers \cup {r \in Entries(Batch) : r.id \in requested}
       IN  /\ developers' = found
           /\ phase' = IF BulkEnds(Batch, found) THEN "details" ELSE "bulk"
    /\ index' = index \cup Entries(Batch)
    /\ bulk_offset' = IF phase' = "bulk" THEN bulk_offset + Len(Batch) ELSE bulk_offset
    /\ UNCHANGED <<registrySite, requested, detailed>>

ReceiveDiffering ==
    /\ phase = "bulk"
    /\ Differs(Batch)
    /\ phase' = "raised"
    /\ UNCHANGED <<registrySite, requested, bulk_offset, index, developers, detailed>>
-----------------------------------------------------------------------------
(* get_developers: the pages of the missing ones, by ascending ids.        *)

Missing == requested \ Ids(developers)

NextMissing == CHOOSE id \in Missing : \A other \in Missing : id <= other

Shown(id) == {r \in Entries(registry) : r.id = id}

ReadDetail ==
    /\ phase = "details"
    /\ Missing # {}
    /\ \E r \in Shown(NextMissing) : developers' = developers \cup {r}
    /\ detailed' = detailed \cup {NextMissing}
    /\ UNCHANGED <<registrySite, requested, phase, bulk_offset, index>>

SkipDetail ==
    /\ phase = "details"
    /\ Missing # {}
    /\ Shown(NextMissing) = {}
    /\ phase' = "ok"
    /\ UNCHANGED <<registrySite, requested, bulk_offset, index, developers, detailed>>

(* The site answers 404: the developer is gone.                            *)
DetailNotFound ==
    /\ phase = "details"
    /\ Missing # {}
    /\ Shown(NextMissing) = {}
    /\ phase' = "raised"
    /\ UNCHANGED <<registrySite, requested, bulk_offset, index, developers, detailed>>

(* They are normalised.                                                    *)
Return ==
    /\ phase = "details"
    /\ Missing = {}
    /\ phase' = "ok"
    /\ UNCHANGED <<registrySite, requested, bulk_offset, index, developers, detailed>>

(* An answer or a page is not as expected, the site is not available, the  *)
(* browser is gone, or a record is not normalised.                         *)
ReadingFails ==
    /\ ~ReadingOver
    /\ phase' = "raised"
    /\ UNCHANGED <<registrySite, requested, bulk_offset, index, developers, detailed>>

RegistryAnswered == ReceiveBulk \/ ReceiveDiffering \/ ReadDetail \/ DetailNotFound \/ Return

RegistryNext == RegistryAnswered \/ ReadingFails \/ Enter \/ StrikeOff \/ Edit \/ Rename

RegistrySpec == RegistryInit /\ [][RegistryNext]_registryVars

(* The browser answers every command, or fails in time.                    *)
FairRegistrySpec == RegistrySpec /\ WF_registryVars(RegistryAnswered)
-----------------------------------------------------------------------------
RegistryTypeOK ==
    /\ registry \in Seq(Records)
    /\ changes \in 0..MaxChanges
    /\ moved \in BOOLEAN /\ heeds \in BOOLEAN
    /\ requested \in Requests
    /\ phase \in {"bulk", "details", "ok", "raised"}
    /\ bulk_offset \in Nat
    /\ index \subseteq Records
    /\ developers \subseteq Records
    /\ detailed \subseteq requested

(* One developer is not taken from two versions of its record: what was    *)
(* read twice while it was edited raises.                                  *)
OneVersionEach == \A r, s \in index \cup developers : r.id = s.id => r = s

(* Whatever moves while the registry is read, a call that returns has      *)
(* every developer it was asked for, once, and no other: the details make  *)
(* up for what slipped between two batches.                                *)
RequestedOnce ==
    /\ phase = "ok" => Ids(developers) = requested
    /\ OneVersionEach

(* Pages of developers are opened only for what moved: of a registry that  *)
(* keeps its order no batch skips anything.                                *)
DetailsOnlyForMoved == ~moved /\ heeds => detailed = {}

(* Reading the registry ends, even if it is an API that repeats itself.    *)
ReadingEnds == <>ReadingOver
=============================================================================
