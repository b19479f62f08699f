----------------------------- MODULE MCSyncRuns -----------------------------
(***************************************************************************)
(* SyncRuns for TLC: one object of one developer, with a company group or  *)
(* without.                                                                *)
(***************************************************************************)
EXTENDS SyncRuns, TLC

Found(group) ==
    [objects |-> << [id |-> 1, developer |-> 1, group |-> group, region |-> 1] >>,
     developers |-> << [id |-> 1, inn |-> 7, group |-> 0, region |-> 1] >>,
     groups |-> << [id |-> 1] >>]

WithOrWithoutGroup == {Found(0), Found(1)}
MCSettings ==
    [default |-> 1, assignment |-> <<>>, managers |-> << [name |-> 1, id |-> 41] >>]

CONSTANT Last  \* the run that starts when the others are over, if it does

RunsSymmetry == Permutations(Runs \ {Last})

MaxElements == 2

(* An address fails only with its requisite: what it leaves without        *)
(* address is an affair of its own run, and followed in turn.              *)
AddressesComplete ==
    \A r \in Runs : \A id \in DOMAIN results[r] :
        id[1] \in AddressKinds /\ results[r][id] = None =>
            results[r][<<"requisite", id[2]>>] = None

LastComesLast == state[Last] # "leads" => \A r \in Runs \ {Last} : state[r] \in Over

(* Two runs that may overlap, with groups only until the CRM holds         *)
(* MaxElements elements, and the listings of a third after them.           *)
TwoAtOnce ==
    /\ state[Last] \in Listings
    /\ LastComesLast
    /\ Len(crm) <= MaxElements \/ \A r \in Runs : x[r] # Found(1)
    /\ AddressesComplete

(* One run at a time, each with the group, and no request that outlives    *)
(* its run: a lost request leaves what a refused one does.                 *)
InTurn ==
    /\ \A r, q \in Runs : r = q \/ ~Overlap(r, q)
    /\ \A request \in open : state[request.run] \notin Over
    /\ \A r \in Runs : x[r] # Found(0)
    /\ \A r, q \in Runs : r = q \/ state[r] \in Over \cup {"leads"}
                                \/ state[q] \in Over \cup {"leads"}
    /\ LastComesLast

VARIABLE inTurn  \* which of the two

MCInit == RunsInit /\ inTurn \in BOOLEAN

MCSpec == MCInit /\ [][RunsNext /\ UNCHANGED inTurn]_<<runsVars, inTurn>>

Bounds == IF inTurn THEN InTurn ELSE TwoAtOnce
=============================================================================
