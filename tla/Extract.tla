------------------------------ MODULE Extract --------------------------------
(***************************************************************************)
(* ExtractService: the objects of the regions, their developers, the       *)
(* company groups both name, each validated before the next is asked for.  *)
(*                                                                         *)
(* How NashDomClient gets the objects and the developers is the subject of *)
(* ObjectListing and DeveloperRegistry; here each answer is one step, and  *)
(* any of what these modules let the client return.  The groups are got    *)
(* one by one, from the API or from their pages.                           *)
(***************************************************************************)
EXTENDS Normalizer, SourceData, SyncPlan

CONSTANTS
    Regions,         \* the codes of the regions of the settings
    ObjectLists,     \* source records the listings may give
    DeveloperLists,  \* source records the registry may give
    GroupRecords     \* source records of groups

ASSUME SourceAssumption ==
    /\ Regions \subseteq Nat \ {0}
    /\ \A list \in ObjectLists : list \in Seq(RawObjects)
    /\ \A list \in DeveloperLists : list \in Seq(RawDevelopers)
    /\ GroupRecords \subseteq RawGroups

VARIABLES
    pc,
    objects,       \* normalised
    developers,    \* normalised
    wantedGroups,  \* ids still to be fetched
    fetched,       \* source records of groups
    groups         \* normalised

vars == <<pc, objects, developers, wantedGroups, fetched, groups>>

Init ==
    /\ pc = "objects"
    /\ objects = <<>> /\ developers = <<>> /\ groups = <<>>
    /\ wantedGroups = {}
    /\ fetched = <<>>

Over == pc \in {"ok", "raised"}
-----------------------------------------------------------------------------
ObjectsOf(list) == [i \in DOMAIN list |-> Object(list[i])]
DevelopersOf(list) == [i \in DOMAIN list |-> Developer(list[i])]
GroupsOf(list) == [i \in DOMAIN list |-> Group(list[i])]

ObjectsPass(list) ==
    /\ \A i \in DOMAIN list : ObjectNormal(list[i])
    /\ ObjectsValid(ObjectsOf(list), Regions)

ReceiveObjects ==
    /\ pc = "objects"
    /\ \E list \in ObjectLists :
          /\ ObjectsPass(list)
          /\ objects' = ObjectsOf(list)
    /\ pc' = "developers"
    /\ UNCHANGED <<developers, wantedGroups, fetched, groups>>

RejectObjects ==
    /\ pc = "objects"
    /\ \E list \in ObjectLists : ~ObjectsPass(list)
    /\ pc' = "raised"
    /\ UNCHANGED <<objects, developers, wantedGroups, fetched, groups>>

DeveloperIds == {o.developer : o \in Values(objects)}

(* get_developers gives one record for each id, by ascending ids.          *)
Ascending(list) == \A i, j \in DOMAIN list : i < j => list[i].id.value < list[j].id.value

GroupIds(list) == {e.group : e \in Values(objects) \cup Values(list)} \ {NoGroup}

Registered(list) ==
    {r.id.value : r \in Values(list)} = DeveloperIds /\ Ascending(list)

DevelopersPass(list) ==
    /\ \A i \in DOMAIN list : DeveloperNormal(list[i])
    /\ ExactlyThose(DevelopersOf(list), DeveloperIds)
    /\ GroupsConsistent(objects, DevelopersOf(list))

ReceiveDevelopers ==
    /\ pc = "developers"
    /\ \E list \in DeveloperLists :
          /\ Registered(list) /\ DevelopersPass(list)
          /\ developers' = DevelopersOf(list)
    /\ wantedGroups' = GroupIds(developers')
    /\ pc' = "groups"
    /\ UNCHANGED <<objects, fetched, groups>>

RejectDevelopers ==
    /\ pc = "developers"
    /\ \E list \in DeveloperLists : Registered(list) /\ ~DevelopersPass(list)
    /\ pc' = "raised"
    /\ UNCHANGED <<objects, developers, wantedGroups, fetched, groups>>
-----------------------------------------------------------------------------
(* get_company_groups, by ascending ids.                                   *)

NextGroup == CHOOSE id \in wantedGroups : \A other \in wantedGroups : id <= other

TakeGroup ==
    /\ \E raw \in GroupRecords : raw.id.value = NextGroup /\ fetched' = Append(fetched, raw)
    /\ wantedGroups' = wantedGroups \ {NextGroup}
    /\ pc' = "groups"
    /\ UNCHANGED <<objects, developers, groups>>

FetchGroup == pc = "groups" /\ wantedGroups # {} /\ TakeGroup

(* The API does not know the group (data.code is 404).                     *)
GroupUnknown ==
    /\ pc = "groups" /\ wantedGroups # {}
    /\ pc' = "group_page"
    /\ UNCHANGED <<objects, developers, wantedGroups, fetched, groups>>

ReadGroupPage == pc = "group_page" /\ TakeGroup

(* Nor does its page: the group is left out, and missed by the validator.  *)
GroupPageNotFound ==
    /\ pc = "group_page"
    /\ wantedGroups' = wantedGroups \ {NextGroup}
    /\ pc' = "groups"
    /\ UNCHANGED <<objects, developers, fetched, groups>>

GroupsNormal == \A i \in DOMAIN fetched : GroupNormal(fetched[i])

GroupsPassIfNormal == GroupsNormal /\ Distinct(GroupsOf(fetched))

GroupsPass == GroupsNormal /\ ExactlyThose(GroupsOf(fetched), GroupIds(developers))

Return ==
    /\ pc = "groups" /\ wantedGroups = {}
    /\ GroupsPass
    /\ groups' = GroupsOf(fetched)
    /\ pc' = "ok"
    /\ UNCHANGED <<objects, developers, wantedGroups, fetched>>

RejectGroups ==
    /\ pc = "groups" /\ wantedGroups = {}
    /\ ~GroupsPass
    /\ pc' = "raised"
    /\ UNCHANGED <<objects, developers, wantedGroups, fetched, groups>>

(* The client raises.                                                      *)
Fail ==
    /\ ~Over
    /\ pc' = "raised"
    /\ UNCHANGED <<objects, developers, wantedGroups, fetched, groups>>

Next ==
    \/ ReceiveObjects \/ RejectObjects
    \/ ReceiveDevelopers \/ RejectDevelopers
    \/ FetchGroup \/ GroupUnknown \/ ReadGroupPage \/ GroupPageNotFound
    \/ Return \/ RejectGroups \/ Fail

Spec == Init /\ [][Next]_vars
-----------------------------------------------------------------------------
(* ExtractResult, as Transform gets it.                                    *)
Result ==
    [objects |-> objects,
     developers |-> [i \in DOMAIN developers |->
        [id |-> developers[i].id, inn |-> developers[i].inn,
         group |-> developers[i].group, region |-> developers[i].region]],
     groups |-> groups]

TypeOK ==
    /\ pc \in {"objects", "developers", "groups", "group_page", "ok", "raised"}
    /\ objects \in Seq([id : IdType, developer : IdType, group : Nat, region : IdType])
    /\ developers \in Seq([id : IdType, inn : IdType, group : Nat, region : IdType,
                           legal : IdType, actual : IdType])
    /\ wantedGroups \subseteq IdType
    /\ fetched \in Seq(RawGroups)
    /\ groups \in Seq([id : IdType])

(* The result is closed: it has the objects of all regions asked for and   *)
(* of no other, exactly their developers, exactly the groups these and     *)
(* those name, and nothing twice.                                          *)
ResultIsClosed ==
    pc = "ok" =>
        /\ Distinct(objects) /\ Distinct(developers) /\ Distinct(groups)
        /\ RegionsOf(objects) = Regions
        /\ IdsOf(developers) = {o.developer : o \in Values(objects)}
        /\ IdsOf(groups) = {e.group : e \in Values(objects) \cup Values(developers)} \ {NoGroup}
=============================================================================
