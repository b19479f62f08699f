------------------------------ MODULE MCListing ------------------------------
(***************************************************************************)
(* Listing for TLC: up to six records, two to a page.                     *)
(***************************************************************************)
EXTENDS Listing

MCInitial == {[i \in 1..n |-> i] : n \in 0..4}
=============================================================================
