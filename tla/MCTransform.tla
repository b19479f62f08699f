----------------------------- MODULE MCTransform -----------------------------
(***************************************************************************)
(* Transform for TLC: up to two objects, two developers and two groups, a  *)
(* CRM that knows some of them, duplicates and missing records included.   *)
(***************************************************************************)
EXTENDS Transform, TLC

ObjectLists ==
    LET Object(i) == [id : {i}, developer : {1, 2}, group : 0..2, region : {1}]
    IN  {<<o>> : o \in Object(1)}
        \cup {<<o, p>> : o \in Object(2), p \in Object(1)}
        \cup {<<o, o>> : o \in {[id |-> 1, developer |-> 1, group |-> 0, region |-> 1]}}

DeveloperLists ==
    LET Developer(i) == [id : {i}, inn : {1, 2}, group : 0..2, region : {2}]
    IN  {<<d>> : d \in Developer(1)}
        \cup {<<d, e>> : d \in Developer(1), e \in {f \in Developer(2) : f.group = 0}}
        \cup {<<d, e>> : d \in {[id |-> 1, inn |-> 1, group |-> 0, region |-> 2]},
                         e \in {f \in Developer(1) : f.group = 2}}

MCExtracts ==
    [objects : ObjectLists, developers : DeveloperLists,
     groups : {<< [id |-> 1], [id |-> 2] >>, << [id |-> 1] >>}]

MCContexts ==
    [leads : {<<>>, << [source |-> 1, id |-> 11] >>},
     companies : {<<>>, << [inn |-> 1, id |-> 21] >>,
                  << [inn |-> 1, id |-> 21], [inn |-> 1, id |-> 22] >>},
     groups : {<<>>, << [source |-> 1, id |-> 31] >>},
     managers : {<< [name |-> 1, id |-> 41], [name |-> 2, id |-> 42] >>}]

(* The second assignment names a manager the CRM does not have.            *)
MCSettings == {[default |-> 1, assignment |-> (2 :> 2)], [default |-> 1, assignment |-> (2 :> 3)]}
=============================================================================
