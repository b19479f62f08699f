----------------------------- MODULE CrmContext -----------------------------
(***************************************************************************)
(* CrmProvider: how what the CRM lists becomes the index of what exists.   *)
(*                                                                         *)
(* A listing is a function of the records received; j < i says that record *)
(* j came before record i.  Records are compared by source id or by INN,   *)
(* None where the field is blank.                                          *)
(***************************************************************************)
EXTENDS SyncPlan

(* _load_source_id_pairs: leads and company groups.                        *)
Sourced(records) == {i \in DOMAIN records : records[i].source # None}

FirstOfSource(records) ==
    {i \in Sourced(records) :
        \A j \in Sourced(records) : records[j].source = records[i].source => i <= j}

SourceIdPairs(records) == [i \in FirstOfSource(records) |-> records[i]]

(* CrmInvalidDataError where duplicates are not allowed.                   *)
SourceRepeats(records) == Sourced(records) # FirstOfSource(records)

(* _load_existing_requisites leaves blank INNs out, _load_existing_        *)
(* developers the requisites whose owner is not among the companies.       *)
Owned(companies, requisites) ==
    {i \in DOMAIN requisites : requisites[i].inn # None /\ requisites[i].owner \in companies}

(* CrmInvalidDataError: one INN on two companies.                          *)
InnAmbiguous(companies, requisites) ==
    \E i, j \in Owned(companies, requisites) :
        /\ requisites[i].inn = requisites[j].inn
        /\ requisites[i].owner # requisites[j].owner

FirstOfInnAnywhere(companies, requisites) ==
    {i \in Owned(companies, requisites) :
        \A j \in DOMAIN requisites : requisites[j].inn = requisites[i].inn => i <= j}

FirstOfInn(companies, requisites) ==
    {i \in Owned(companies, requisites) :
        \A j \in Owned(companies, requisites) :
            requisites[j].inn = requisites[i].inn => i <= j}

ExistingDevelopers(companies, requisites) ==
    [i \in FirstOfInn(companies, requisites) |->
        [inn |-> requisites[i].inn, id |-> requisites[i].owner]]
=============================================================================
