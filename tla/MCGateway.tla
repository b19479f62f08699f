----------------------------- MODULE MCGateway -----------------------------
(***************************************************************************)
(* Gateway for TLC: one call that must not be repeated and one that may    *)
(* be, of the same method or of another.                                   *)
(***************************************************************************)
EXTENDS Gateway

CONSTANTS add, list, c1, c2, none

TwoMethods == {add, list}
TwoCalls == {c1, c2}

MCWorkloads ==
    {[c \in TwoCalls |-> IF c = c1 THEN [method |-> add, policy |-> "NEVER"]
                         ELSE [method |-> m, policy |-> "SAFE"]] : m \in TwoMethods}

(* The call that may be repeated does not time out.                        *)
OneTimeout == api[c2] # "expired"
=============================================================================
