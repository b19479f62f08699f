------------------------------- MODULE MCLoad -------------------------------
(***************************************************************************)
(* Load for TLC: every validated plan of MaxOps operations, and the plan   *)
(* the transformer makes of one new company group, one new developer and   *)
(* one object.                                                             *)
(***************************************************************************)
EXTENDS Load

CONSTANT MaxOps  \* bound on the number of operations of the arbitrary plans

Places == 1..(MaxOps - 1)

SmallOperations == [creates : BOOLEAN, deps : SUBSET Places, binds : SUBSET Places]

(* An operation is either a dependency or a binding; the code unites them. *)
SmallPlans ==
    {p \in [1..MaxOps -> {o \in SmallOperations : o.deps \cap o.binds = {}}] : Valid(p)}

NewDeveloper ==
    << [creates |-> TRUE,  deps |-> {},        binds |-> {}],      \* group
       [creates |-> TRUE,  deps |-> {},        binds |-> {}],      \* company
       [creates |-> TRUE,  deps |-> {},        binds |-> {2}],     \* requisite
       [creates |-> FALSE, deps |-> {},        binds |-> {3}],     \* actual address
       [creates |-> FALSE, deps |-> {},        binds |-> {3}],     \* legal address
       [creates |-> TRUE,  deps |-> {3, 4, 5}, binds |-> {1, 2}]   \* lead
    >>

MCPlans == SmallPlans \cup {NewDeveloper}
=============================================================================
