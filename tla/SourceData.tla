----------------------------- MODULE SourceData ------------------------------
(***************************************************************************)
(* SourceDataValidator, as operators on lists of records.                  *)
(***************************************************************************)
EXTENDS Lists

IdsOf(list) == {e.id : e \in Entries(list)}

RegionsOf(list) == {e.region : e \in Entries(list)}

Distinct(list) == \A i, j \in DOMAIN list : i # j => list[i].id # list[j].id

(* No id twice, no region but those asked for, and each of these.          *)
ObjectsValid(list, regions) == Distinct(list) /\ RegionsOf(list) = regions

ExactlyThose(list, ids) == Distinct(list) /\ IdsOf(list) = ids

(* The groups the objects of a developer name.                             *)
GroupsNamed(objects, developer) ==
    {o.group : o \in {p \in Entries(objects) : p.developer = developer}} \ {0}

GroupsConsistentPerObject(objects, developers) ==
    \A d \in Entries(developers) :
        d.group # 0 => GroupsNamed(objects, d.id) \subseteq {d.group}

(* They agree with each other, and with the developer where it names one.  *)
GroupsConsistent(objects, developers) ==
    /\ \A o, p \in Entries(objects) :
          /\ o.developer = p.developer
          /\ o.group # 0 /\ p.group # 0
          => o.group = p.group
    /\ \A d \in Entries(developers) :
          d.group # 0 => GroupsNamed(objects, d.id) \subseteq {d.group}
=============================================================================
