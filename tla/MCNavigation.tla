---------------------------- MODULE MCNavigation -----------------------------
(***************************************************************************)
(* Navigation for TLC, with the three attempts of the settings.            *)
(***************************************************************************)
EXTENDS Navigation
=============================================================================
