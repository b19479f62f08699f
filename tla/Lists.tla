-------------------------------- MODULE Lists --------------------------------
(***************************************************************************)
(* Lists that the programs read while others change them.                  *)
(***************************************************************************)
EXTENDS Naturals, Sequences

Entries(list) == {list[i] : i \in DOMAIN list}

(* What is left when the i-th entry is taken off.                          *)
Without(list, i) == SubSeq(list, 1, i - 1) \o SubSeq(list, i + 1, Len(list))
=============================================================================
