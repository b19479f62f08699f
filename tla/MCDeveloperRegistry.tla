------------------------- MODULE MCDeveloperRegistry -------------------------
(***************************************************************************)
(* DeveloperRegistry for TLC: up to five developers, two to a batch, of    *)
(* whom one or two are asked for, and maybe one entered later on.          *)
(***************************************************************************)
EXTENDS DeveloperRegistry

MCInitial == {[i \in 1..n |-> [id |-> i, version |-> 0]] : n \in {0, 1, 4, 5}}

MCRequests == {{1}, {3}, {1, 5}, {2, 4}, {4, 6}}
=============================================================================
