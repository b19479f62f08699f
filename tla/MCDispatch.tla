----------------------------- MODULE MCDispatch -----------------------------
(* Instance of Dispatch for TLC: calls are model values.                   *)
EXTENDS Dispatch

CONSTANTS c1, c2, c3, none

ThreeCalls == {c1, c2, c3}
=============================================================================
