--------------------------- MODULE MCObjectListing ---------------------------
(***************************************************************************)
(* ObjectListing for TLC: two regions, four objects in the first and one  *)
(* in the second, which may be one of the first region's.                  *)
(***************************************************************************)
EXTENDS ObjectListing

Listed(ids, r) == [i \in 1..Len(ids) |-> [id |-> ids[i], region |-> r]]

MCInitial ==
    {<<Listed(<<4, 3, 2, 1>>, 1), second>> :
        second \in {Listed(<<5>>, 2), Listed(<<1>>, 1)}}
=============================================================================
