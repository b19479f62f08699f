----------------------------- MODULE MCSyncRun ------------------------------
(***************************************************************************)
(* Two sessions with two launches each: both retry loops are entered again *)
(* and exhausted, and the second starts anew in the second session.        *)
(***************************************************************************)
EXTENDS SyncRun
=============================================================================
