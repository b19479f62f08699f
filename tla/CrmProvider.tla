----------------------------- MODULE CrmProvider -----------------------------
(***************************************************************************)
(* CrmProvider.provide: with a client of its own it asks the CRM one       *)
(* question after another, and returns the whole context or raises.        *)
(*                                                                         *)
(* An answer is the function of the records a call of the client returns   *)
(* (module Listing shows what becomes of records that move meanwhile).     *)
(***************************************************************************)
EXTENDS CrmContext

CONSTANTS
    Answers,     \* of each call: what it may return
    UserLists,   \* what user.search may return
    Specs,       \* of each call for fields: the fields to be found
    Configured   \* the names of a RegionSettings: the default one, the assigned ones

VARIABLES
    configured,
    answers,   \* of the calls for what exists
    managers,  \* resolved so far
    found,     \* of each manager: the users user.search has returned
    stage,     \* the call to be made next, "close", or how provide ended
    failure,   \* what is raised once the client is closed
    client

vars == <<configured, answers, managers, found, stage, failure, client>>

(* The names to be found in each table, by _unique.                        *)
Tables ==
    [owner_types |-> {"group of companies"}, SOURCE |-> {"site"}, INDUSTRY |-> {"developer"},
     COMPANY_TYPE |-> {"partner"}, presets |-> {"organization"},
     address_types |-> {"actual", "legal"}]

FieldCalls == {"lead_fields", "company_fields", "group_fields"}

After ==
    [owner_types |-> "lead_fields", lead_fields |-> "company_fields",
     company_fields |-> "group_fields", group_fields |-> "SOURCE", SOURCE |-> "INDUSTRY",
     INDUSTRY |-> "COMPANY_TYPE", COMPANY_TYPE |-> "presets", presets |-> "address_types",
     address_types |-> "leads", leads |-> "companies", companies |-> "requisites",
     requisites |-> "groups", groups |-> "managers"]

Calls == DOMAIN After

ExistingCalls == {"leads", "companies", "requisites", "groups"}

Init ==
    /\ configured \in Configured
    /\ answers = <<>>
    /\ managers = <<>>
    /\ found = <<>>
    /\ stage = "create"
    /\ failure = "none"
    /\ client = "none"
-----------------------------------------------------------------------------
(* How an answer is read.                                                  *)

(* _unique and _id or _status_id of the record.                            *)
Lookup(records, name) ==
    LET matches == {i \in DOMAIN records : records[i].name = name}
    IN  IF matches = {} THEN "missing"
        ELSE IF ~One(matches) THEN "ambiguous"
        ELSE IF \E i \in matches : records[i].id = None THEN "invalid" ELSE "found"

(* _resolve_fields: by title; among several of that title, or all if there *)
(* is none, by upperName.                                                  *)
Field(fields, name) ==
    LET matches == {i \in DOMAIN fields : fields[i].title = name}
        fallback == {i \in IF matches = {} THEN DOMAIN fields ELSE matches :
                        fields[i].upper = name}
    IN  IF One(matches) \/ One(fallback) THEN "found"
        ELSE IF matches # {} \/ fallback # {} THEN "ambiguous" ELSE "missing"

(* The ids of every record are checked, also of those left out.            *)
Existing(call, records) ==
    IF \E i \in DOMAIN records : ~records[i].valid THEN "invalid"
    ELSE IF \/ call = "groups" /\ SourceRepeats(records)
            \/ call = "requisites" /\ InnAmbiguous(
                   {answers.companies[i].id : i \in DOMAIN answers.companies}, records)
    THEN "invalid" ELSE "found"

(* What provide makes of the answer to a call.                             *)
Verdict(call, answer) ==
    LET verdicts == IF call \in DOMAIN Tables THEN {Lookup(answer, n) : n \in Tables[call]}
                    ELSE IF call \in FieldCalls THEN {Field(answer, f) : f \in Specs[call]}
                    ELSE {Existing(call, answer)}
    IN  verdicts \ {"found"}

(* _resolve_manager: a user who is no employee is passed over; the names a *)
(* user may be called by are those with both names, in either order.       *)
Bearers(users, name) ==
    {i \in DOMAIN users : users[i].employee /\ name \in users[i].names}
-----------------------------------------------------------------------------
Create ==
    /\ stage = "create"
    /\ client' = "open"
    /\ stage' = "owner_types"
    /\ UNCHANGED <<configured, answers, managers, found, failure>>

Raise(error) ==
    /\ failure' = error
    /\ stage' = "close"

(* The client cannot be made: it is not there to be closed.                *)
CannotCreate ==
    /\ stage = "create"
    /\ failure' = "raw"
    /\ stage' = "raised"
    /\ UNCHANGED <<configured, answers, managers, found, client>>

Ask ==
    /\ stage \in Calls
    /\ \E answer \in Answers[stage] :
          /\ answers' = [call \in DOMAIN answers \cup ({stage} \cap ExistingCalls) |->
                            IF call = stage THEN answer ELSE answers[call]]
          /\ LET faults == Verdict(stage, answer)
             IN  \/ faults = {} /\ stage' = After[stage] /\ UNCHANGED failure
                 \/ \E error \in faults : Raise(error)
    /\ UNCHANGED <<configured, managers, found, client>>

Named(i) == \E m \in Values(managers) : m.name = configured[i]

AskForManagerFirst ==
    /\ stage = "managers"
    /\ \E i \in DOMAIN configured : \E users \in UserLists :
          /\ ~Named(i) /\ \A j \in 1..(i - 1) : Named(j)
          /\ LET bearers == Bearers(users, configured[i])
             IN  \/ bearers = {} /\ Raise("missing") /\ UNCHANGED <<managers, found>>
                 \/ \E u \in bearers :
                       /\ \A v \in bearers : u <= v
                       /\ IF users[u].id = None
                          THEN Raise("invalid") /\ UNCHANGED <<managers, found>>
                          ELSE /\ managers' = Append(managers, [name |-> configured[i],
                                                                id |-> users[u].id])
                               /\ found' = Append(found, users)
                               /\ UNCHANGED <<stage, failure>>
    /\ UNCHANGED <<configured, answers, client>>

(* Each name once, in the order of the settings.                           *)
AskForManager ==
    /\ stage = "managers"
    /\ \E i \in DOMAIN configured : \E users \in UserLists :
          /\ ~Named(i) /\ \A j \in 1..(i - 1) : Named(j)
          /\ LET bearers == Bearers(users, configured[i])
             IN  \/ bearers = {} /\ Raise("missing") /\ UNCHANGED <<managers, found>>
                 \/ bearers # {} /\ ~One(bearers) /\ Raise("ambiguous")
                       /\ UNCHANGED <<managers, found>>
                 \/ /\ One(bearers)
                    /\ \E u \in bearers :
                          IF users[u].id = None
                          THEN Raise("invalid") /\ UNCHANGED <<managers, found>>
                          ELSE /\ managers' = Append(managers, [name |-> configured[i],
                                                                id |-> users[u].id])
                               /\ found' = Append(found, users)
                               /\ UNCHANGED <<stage, failure>>
    /\ UNCHANGED <<configured, answers, client>>

(* All is found.                                                           *)
Complete ==
    /\ stage = "managers"
    /\ \A i \in DOMAIN configured : Named(i)
    /\ stage' = "close"
    /\ UNCHANGED <<configured, answers, managers, found, failure, client>>

(* BitrixGatewayError, BitrixRequestFailedError or UnknownError: raised as *)
(* CrmProviderError.                                                       *)
CallFails ==
    /\ stage \in Calls \cup {"managers"}
    /\ Raise("provider")
    /\ UNCHANGED <<configured, answers, managers, found, client>>

Close ==
    /\ stage = "close"
    /\ client' = "closed"
    /\ stage' = IF failure = "none" THEN "returned" ELSE "raised"
    /\ UNCHANGED <<configured, answers, managers, found, failure>>

(* An error of close takes the place of the one raised before, if any.     *)
CannotClose ==
    /\ stage = "close"
    /\ client' = "stuck"
    /\ failure' = "raw"
    /\ stage' = "raised"
    /\ UNCHANGED <<configured, answers, managers, found>>

Next ==
    \/ Create \/ CannotCreate \/ Ask \/ AskForManager \/ Complete
    \/ CallFails \/ Close \/ CannotClose

Spec == Init /\ [][Next]_vars
-----------------------------------------------------------------------------
Ended == stage \in {"returned", "raised"}

(* The context returned, as SyncPlan takes it.                             *)
Context ==
    [leads |-> SourceIdPairs(answers.leads),
     companies |-> ExistingDevelopers(
         {answers.companies[i].id : i \in DOMAIN answers.companies}, answers.requisites),
     groups |-> SourceIdPairs(answers.groups),
     managers |-> managers]

RegionNames == [default |-> configured[1], assignment |-> configured]

TypeOK ==
    /\ configured \in Configured
    /\ DOMAIN answers \subseteq ExistingCalls
    /\ \A call \in DOMAIN answers : answers[call] \in Answers[call]
    /\ Len(managers) = Len(found)
    /\ stage \in Calls \cup {"create", "managers", "close", "returned", "raised"}
    /\ failure \in {"none", "missing", "ambiguous", "invalid", "provider", "raw"}
    /\ client \in {"none", "open", "closed", "stuck"}

(* However provide ends, the client it made does not stay open, and only a *)
(* client that cannot be made or closed lets an error through that is no   *)
(* CrmProviderError.                                                       *)
NothingLeftOpen ==
    Ended =>
        /\ client # "open"
        /\ failure = "raw" <=> client \in {"none", "stuck"}

(* The transformer never turns down a context that was returned: no source *)
(* id, INN or name in it twice, and a manager for every configured name,   *)
(* however the settings repeat the names and the CRM its leads.  Leads may *)
(* repeat a source id, and the first of them stands for all: README.md:140 *)
(* of the app says that repeated source ids are rejected, the code rejects *)
(* those of groups only.                                                   *)
ContextIsAccepted ==
    stage = "returned" =>
        /\ ~Repeats(Context.leads, "source")
        /\ ~Repeats(Context.companies, "inn")
        /\ ~Repeats(Context.groups, "source")
        /\ ~Repeats(Context.managers, "name")
        /\ ~ManagerError(Context, RegionNames)

(* Nothing the synchronisation could create again is missing from it: the  *)
(* leads and groups of the CRM that have a source id, and the companies    *)
(* that have an INN.                                                       *)
NothingOverlooked ==
    stage = "returned" =>
        /\ \A l \in Values(answers.leads) : l.source # None => Has(Context.leads, "source", l.source)
        /\ \A g \in Values(answers.groups) : g.source # None => Has(Context.groups, "source", g.source)
        /\ \A q \in Values(answers.requisites) : \A f \in Values(answers.companies) :
              q.inn # None /\ q.owner = f.id => Has(Context.companies, "inn", q.inn)

(* Each manager is the one employee of the configured name among all users *)
(* the CRM has found for it, and has an id: an ambiguous name is never     *)
(* settled by the order in which the CRM lists its users.  Whether the     *)
(* user is active is not asked: README.md:134 of the app says that         *)
(* inactive users are excluded, _resolve_manager does not look at ACTIVE.  *)
ManagersAreTheOnes ==
    stage = "returned" =>
        \A i \in DOMAIN managers : \E u \in DOMAIN found[i] :
            /\ found[i][u].id = managers[i].id /\ managers[i].id # None
            /\ \A v \in DOMAIN found[i] :
                  found[i][v].employee /\ managers[i].name \in found[i][v].names <=> v = u

(* What whoever calls provide relies on.                                   *)
ContextIsSound ==
    /\ TypeOK
    /\ NothingLeftOpen
    /\ ContextIsAccepted
    /\ NothingOverlooked
    /\ ManagersAreTheOnes
=============================================================================
