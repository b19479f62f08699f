---------------------------- MODULE Preparation ------------------------------
(***************************************************************************)
(* What SyncOrchestrator.run gives to TransformService: the context that   *)
(* CrmProvider returns, fresh from the CRM, and then the result of         *)
(* ExtractService.  Each fails for reasons of its own, and neither knows   *)
(* what the other found.  SyncRun has the rest of the orchestrator.        *)
(***************************************************************************)
EXTENDS Extract

CONSTANTS Answers, UserLists, Specs, Configured  \* see CrmProvider

VARIABLES configured, answers, managers, found, stage, failure, client

Provider == INSTANCE CrmProvider

Names == UNION {Values(names) : names \in Configured}
Users == UNION {Values(users) : users \in UserLists}

(* Every call returns a list, and the settings name a default manager.     *)
ASSUME ProviderAssumption ==
    /\ \A call \in Provider!ExistingCalls : \A records \in Answers[call] :
          DOMAIN records = 1..Len(records) /\ Len(records) \in Nat
    /\ \A names \in Configured :
          DOMAIN names = 1..Len(names) /\ Len(names) \in Nat \ {0}

providerVars == <<configured, answers, managers, found, stage, failure, client>>

PreparationInit == Init /\ Provider!Init

Provide == Provider!Next /\ UNCHANGED vars

ExtractAfterwards == stage = "returned" /\ Next /\ UNCHANGED providerVars

PreparationNext == Provide \/ ExtractAfterwards

PreparationSpec == PreparationInit /\ [][PreparationNext]_<<vars, providerVars>>
-----------------------------------------------------------------------------
SharedInn == \E i, j \in DOMAIN developers : i # j /\ developers[i].inn = developers[j].inn

(* What the provider and Extract let pass the transformer can use: however *)
(* the CRM repeats its leads, the settings their managers and the site its *)
(* groups, it is turned away only for an INN that two developers share.    *)
InputsAreAccepted ==
    pc = "ok" => Accepted(Result, Provider!Context, Provider!RegionNames) \/ SharedInn

(* The context is complete and unambiguous where the run relies on it, and *)
(* nothing is left open: see CrmProvider.                                  *)
ContextIsSound == Provider!ContextIsSound
=============================================================================
