-------------------------- MODULE PreparationProofs --------------------------
(***************************************************************************)
(* Extract and Preparation for every CRM and every source.                 *)
(*                                                                         *)
(* Extract: whatever the site returns, in whatever order and however       *)
(* incomplete, a result that gets past the three validations is closed.    *)
(* No validation sees the whole: each is made once, of one kind of record, *)
(* against what the one before let pass.  What each established must hold  *)
(* until the end, and no later step change what it was about.              *)
(*                                                                         *)
(* Preparation: the context the provider returns is complete and           *)
(* unambiguous, and with the closed result of Extract it is accepted by    *)
(* the transformer, unless two developers share an INN.                    *)
(***************************************************************************)
EXTENDS Preparation, SequenceTheorems, WellFoundedInduction, TLAPS

ObjectType == [id : IdType, developer : IdType, group : Nat, region : IdType]

DeveloperType ==
    [id : IdType, inn : IdType, group : Nat, region : IdType, legal : IdType, actual : IdType]

GroupType == [id : IdType]

(* What the validations passed so far established.                         *)
ObjectsArePassed ==
    pc \in {"developers", "groups", "group_page", "ok"} => ObjectsValid(objects, Regions)

DevelopersArePassed ==
    pc \in {"groups", "group_page", "ok"} =>
        ExactlyThose(developers, DeveloperIds) /\ GroupsConsistent(objects, developers)

GroupsArePassed == pc = "ok" => ExactlyThose(groups, GroupIds(developers))

IInv == TypeOK /\ ObjectsArePassed /\ DevelopersArePassed /\ GroupsArePassed
-----------------------------------------------------------------------------
LEMMA IdTyped == ASSUME NEW v \in Fields, IdNormal(v) PROVE v.value \in IdType
BY DEF Fields, IdNormal, IdType

LEMMA TextTyped == ASSUME NEW v \in Fields, TextNormal(v) PROVE v.value \in IdType
BY DEF Fields, TextNormal, Blank, IdType

LEMMA OptionalIdTyped == ASSUME NEW v \in Fields, OptionalIdNormal(v) PROVE OptionalId(v) \in Nat
BY IdTyped DEF OptionalIdNormal, OptionalId, NoGroup, IdType

(* What the normaliser lets pass has the type of its contract.             *)
LEMMA ObjectsNormalised ==
    ASSUME NEW list \in Seq(RawObjects), \A i \in DOMAIN list : ObjectNormal(list[i])
    PROVE  ObjectsOf(list) \in Seq(ObjectType)
<1>1. Len(list) \in Nat /\ DOMAIN list = 1..Len(list)
    BY LenProperties
<1>2. ASSUME NEW i \in 1..Len(list) PROVE Object(list[i]) \in ObjectType
    <2>1. list[i] \in RawObjects /\ ObjectNormal(list[i])
        BY <1>1, ElementOfSeq
    <2> QED BY <2>1, IdTyped, OptionalIdTyped DEF RawObjects, ObjectNormal, Object, ObjectType
<1>3. ObjectsOf(list) = [i \in 1..Len(list) |-> Object(list[i])]
    BY <1>1 DEF ObjectsOf
<1> QED BY <1>1, <1>2, <1>3

LEMMA DevelopersNormalised ==
    ASSUME NEW list \in Seq(RawDevelopers), \A i \in DOMAIN list : DeveloperNormal(list[i])
    PROVE  DevelopersOf(list) \in Seq(DeveloperType)
<1>1. Len(list) \in Nat /\ DOMAIN list = 1..Len(list)
    BY LenProperties
<1>2. ASSUME NEW i \in 1..Len(list) PROVE Developer(list[i]) \in DeveloperType
    <2>1. list[i] \in RawDevelopers /\ DeveloperNormal(list[i])
        BY <1>1, ElementOfSeq
    <2> DEFINE r == list[i]
    <2>2. /\ r.id.value \in IdType /\ r.region.value \in IdType /\ r.inn.value \in IdType
          /\ OptionalId(r.group) \in Nat
        BY <2>1, IdTyped, TextTyped, OptionalIdTyped DEF RawDevelopers, DeveloperNormal
    <2>3. Address(r.legal, r.actual) \in IdType /\ Address(r.actual, r.legal) \in IdType
        BY <2>1, TextTyped DEF RawDevelopers, DeveloperNormal, AddressesNormal, Address
    <2> QED BY <2>2, <2>3 DEF Developer, DeveloperType
<1>3. DevelopersOf(list) = [i \in 1..Len(list) |-> Developer(list[i])]
    BY <1>1 DEF DevelopersOf
<1> QED BY <1>1, <1>2, <1>3

LEMMA GroupsNormalised ==
    ASSUME NEW list \in Seq(RawGroups), \A i \in DOMAIN list : GroupNormal(list[i])
    PROVE  GroupsOf(list) \in Seq(GroupType)
<1>1. Len(list) \in Nat /\ DOMAIN list = 1..Len(list)
    BY LenProperties
<1>2. ASSUME NEW i \in 1..Len(list) PROVE Group(list[i]) \in GroupType
    <2>1. list[i] \in RawGroups /\ GroupNormal(list[i])
        BY <1>1, ElementOfSeq
    <2> QED BY <2>1, IdTyped DEF RawGroups, GroupNormal, Group, GroupType
<1>3. GroupsOf(list) = [i \in 1..Len(list) |-> Group(list[i])]
    BY <1>1 DEF GroupsOf
<1> QED BY <1>1, <1>2, <1>3

(* The groups that are named have ids.                                     *)
LEMMA GroupIdsTyped ==
    ASSUME objects \in Seq(ObjectType), NEW list \in Seq(DeveloperType)
    PROVE  GroupIds(list) \subseteq IdType
<1>1. \A e \in Values(objects) \cup Values(list) : e.group \in Nat
    <2>1. /\ \A i \in DOMAIN objects : objects[i] \in ObjectType
          /\ \A i \in DOMAIN list : list[i] \in DeveloperType
        BY ElementOfSeq, LenProperties
    <2> QED BY <2>1 DEF Values, ObjectType, DeveloperType
<1> QED BY <1>1 DEF GroupIds, NoGroup, IdType
-----------------------------------------------------------------------------
LEMMA InitInvariant == Init => IInv
BY EmptySeq
DEF Init, IInv, TypeOK, ObjectsArePassed, DevelopersArePassed, GroupsArePassed, IdType

LEMMA ObjectsStep == ASSUME IInv, ReceiveObjects PROVE IInv'
<1>1. PICK list \in ObjectLists :
          /\ \A i \in DOMAIN list : ObjectNormal(list[i])
          /\ objects' = ObjectsOf(list)
          /\ ObjectsValid(objects', Regions)
    BY DEF ReceiveObjects, ObjectsPass
<1>2. /\ pc' = "developers" /\ developers' = developers /\ wantedGroups' = wantedGroups
      /\ fetched' = fetched /\ groups' = groups
    BY DEF ReceiveObjects
<1>3. objects' \in Seq(ObjectType)
    BY <1>1, ObjectsNormalised, SourceAssumption
<1> QED BY <1>1, <1>2, <1>3
    DEF IInv, TypeOK, ObjectType, ObjectsArePassed, DevelopersArePassed, GroupsArePassed

LEMMA DevelopersStep == ASSUME IInv, ReceiveDevelopers PROVE IInv'
<1>1. PICK list \in DeveloperLists : DevelopersPass(list) /\ developers' = DevelopersOf(list)
    BY DEF ReceiveDevelopers
<1>2. /\ pc = "developers" /\ pc' = "groups" /\ wantedGroups' = GroupIds(developers')
      /\ objects' = objects /\ fetched' = fetched /\ groups' = groups
    BY DEF ReceiveDevelopers
<1>3. developers' \in Seq(DeveloperType)
    BY <1>1, DevelopersNormalised, SourceAssumption DEF DevelopersPass
<1>4. wantedGroups' \subseteq IdType
    BY <1>2, <1>3, GroupIdsTyped DEF IInv, TypeOK, ObjectType
<1>5. TypeOK'
    BY <1>2, <1>3, <1>4 DEF IInv, TypeOK, DeveloperType
<1>6. ObjectsArePassed'
    BY <1>2 DEF IInv, ObjectsArePassed
<1>7. DevelopersArePassed'
    BY <1>1, <1>2 DEF DevelopersPass, DevelopersArePassed, DeveloperIds
<1>8. GroupsArePassed'
    BY <1>2 DEF GroupsArePassed
<1> QED BY <1>5, <1>6, <1>7, <1>8 DEF IInv

(* A record of a group is added, or the group is given up.                 *)
LEMMA FetchingStep ==
    ASSUME IInv, FetchGroup \/ GroupUnknown \/ ReadGroupPage \/ GroupPageNotFound
    PROVE  IInv'
<1>1. /\ pc \in {"groups", "group_page"} /\ pc' \in {"groups", "group_page"}
      /\ objects' = objects /\ developers' = developers /\ groups' = groups
      /\ wantedGroups' \subseteq wantedGroups
      /\ fetched' = fetched \/ \E raw \in GroupRecords : fetched' = Append(fetched, raw)
    BY DEF FetchGroup, GroupUnknown, ReadGroupPage, GroupPageNotFound, TakeGroup
<1>2. fetched' \in Seq(RawGroups)
    <2>1. fetched \in Seq(RawGroups)
        BY DEF IInv, TypeOK
    <2>2. ASSUME NEW raw \in GroupRecords PROVE Append(fetched, raw) \in Seq(RawGroups)
        <3>1. raw \in RawGroups
            BY SourceAssumption
        <3> QED BY <2>1, <3>1, AppendProperties
    <2> QED BY <1>1, <2>1, <2>2
<1>3. TypeOK'
    BY <1>1, <1>2 DEF IInv, TypeOK
<1>4. ObjectsArePassed'
    BY <1>1 DEF IInv, ObjectsArePassed
<1>5. DevelopersArePassed'
    BY <1>1 DEF IInv, DevelopersArePassed, DeveloperIds
<1>6. GroupsArePassed'
    BY <1>1 DEF GroupsArePassed
<1> QED BY <1>3, <1>4, <1>5, <1>6 DEF IInv

LEMMA ReturnStep == ASSUME IInv, Return PROVE IInv'
<1>1. /\ pc = "groups" /\ pc' = "ok"
      /\ objects' = objects /\ developers' = developers
      /\ wantedGroups' = wantedGroups /\ fetched' = fetched
      /\ groups' = GroupsOf(fetched) /\ GroupsPass
    BY DEF Return
<1>2. groups' \in Seq(GroupType)
    BY <1>1, GroupsNormalised DEF IInv, TypeOK, GroupsPass, GroupsNormal
<1>3. TypeOK'
    BY <1>1, <1>2 DEF IInv, TypeOK, GroupType
<1>4. ObjectsArePassed'
    BY <1>1 DEF IInv, ObjectsArePassed
<1>5. DevelopersArePassed'
    BY <1>1 DEF IInv, DevelopersArePassed, DeveloperIds
<1>6. GroupsArePassed'
    BY <1>1 DEF GroupsArePassed, GroupsPass, GroupIds
<1> QED BY <1>3, <1>4, <1>5, <1>6 DEF IInv

LEMMA RaiseStep ==
    ASSUME IInv, RejectObjects \/ RejectDevelopers \/ RejectGroups \/ Fail
    PROVE  IInv'
<1>1. pc' = "raised" /\ UNCHANGED <<objects, developers, wantedGroups, fetched, groups>>
    BY DEF RejectObjects, RejectDevelopers, RejectGroups, Fail
<1> QED BY <1>1
    DEF IInv, TypeOK, ObjectsArePassed, DevelopersArePassed, GroupsArePassed

LEMMA InvariantStep == IInv /\ [Next]_vars => IInv'
<1> SUFFICES ASSUME IInv, [Next]_vars PROVE IInv'
    OBVIOUS
<1>1. CASE UNCHANGED vars
    BY <1>1 DEF vars, IInv, TypeOK, ObjectsArePassed, DevelopersArePassed, GroupsArePassed,
                DeveloperIds, GroupIds
<1> QED BY <1>1, ObjectsStep, DevelopersStep, FetchingStep, ReturnStep, RaiseStep DEF Next
-----------------------------------------------------------------------------
(* What one validation established no later step undoes.                   *)
THEOREM Inductive == Spec => []IInv
BY InitInvariant, InvariantStep, PTL DEF Spec

(* What is normalised has the type of its contract all the way.            *)
THEOREM TypeCorrect == Spec => []TypeOK
<1>1. IInv => TypeOK
    BY DEF IInv
<1> QED BY <1>1, Inductive, PTL

(* The invariant of a finished extraction is what it promises.             *)
LEMMA InvariantImpliesClosed == IInv => ResultIsClosed
BY DEF IInv, ObjectsArePassed, DevelopersArePassed, GroupsArePassed, ResultIsClosed,
       ObjectsValid, ExactlyThose, DeveloperIds, GroupIds

(* What Extract returns has each object, developer and group once, all of  *)
(* the regions asked for, and neither more nor fewer developers and groups *)
(* than are named.                                                         *)
THEOREM ResultClosed == Spec => []ResultIsClosed
BY InvariantImpliesClosed, Inductive, PTL
-----------------------------------------------------------------------------
(* The calls for what exists that lie behind a stage.                      *)
AnsweredAt ==
    [companies |-> {"leads"}, requisites |-> {"leads", "companies"},
     groups |-> {"leads", "companies", "requisites"}]

Finished == stage = "returned" \/ (stage = "close" /\ failure = "none")

ProviderTypes ==
    /\ Provider!TypeOK
    /\ managers \in Seq([name : Names, id : {u.id : u \in Users}])
    /\ found \in Seq(UserLists)

(* Every call is answered before the next is made.                         *)
AnswersKept ==
    /\ stage \in DOMAIN AnsweredAt => AnsweredAt[stage] \subseteq DOMAIN answers
    /\ stage = "managers" \/ Finished => Provider!ExistingCalls \subseteq DOMAIN answers

(* An error is kept until the client is closed, and the client until then. *)
ErrorsKept ==
    /\ stage \in Provider!Calls \cup {"create", "managers"} => failure = "none"
    /\ stage \in Provider!Calls \cup {"managers", "close"} => client = "open"
    /\ stage = "create" => client = "none"
    /\ stage = "close" => failure # "raw"
    /\ stage = "returned" => client = "closed" /\ failure = "none"
    /\ stage = "raised" => Provider!NothingLeftOpen

(* The manager is the only bearer of its name among the users.             *)
TheOne(manager, users) ==
    \E u \in DOMAIN users :
        /\ users[u].id = manager.id /\ manager.id # Provider!None
        /\ \A v \in DOMAIN users :
              users[v].employee /\ manager.name \in users[v].names <=> v = u

ManagersKept ==
    /\ \A i, j \in DOMAIN managers : managers[i].name = managers[j].name => i = j
    /\ \A i \in DOMAIN managers : TheOne(managers[i], found[i])
    /\ Finished => \A i \in DOMAIN configured : Provider!Named(i)

ProviderInv == ProviderTypes /\ AnswersKept /\ ErrorsKept /\ ManagersKept
-----------------------------------------------------------------------------
(* There is a least element.                                               *)
LEMMA Least ==
    ASSUME NEW S \in SUBSET Nat, S # {}
    PROVE  \E least \in S : \A other \in S : least <= other
<1>1. PICK least \in S : \A other \in S : <<other, least>> \notin OpToRel(<, Nat)
    BY NatLessThanWellFounded, WFMin
<1>2. \A other \in S : ~(other < least)
    BY <1>1 DEF OpToRel
<1> QED BY <1>2

(* An answer is turned down for one of these reasons.                      *)
LEMMA VerdictType ==
    ASSUME NEW call, NEW answer
    PROVE  Provider!Verdict(call, answer) \subseteq {"missing", "ambiguous", "invalid"}
<1>1. \A records, name :
          Provider!Lookup(records, name) \in {"missing", "ambiguous", "invalid", "found"}
    BY DEF Provider!Lookup
<1>2. \A fields, name : Provider!Field(fields, name) \in {"missing", "ambiguous", "found"}
    BY DEF Provider!Field
<1>3. \A records : Provider!Existing(call, records) \in {"invalid", "found"}
    BY DEF Provider!Existing
<1> QED BY <1>1, <1>2, <1>3 DEF Provider!Verdict
-----------------------------------------------------------------------------
(* The calls by name.                                                      *)
LEMMA Stages ==
    /\ Provider!Calls =
          {"owner_types", "lead_fields", "company_fields", "group_fields", "SOURCE", "INDUSTRY",
           "COMPANY_TYPE", "presets", "address_types", "leads", "companies", "requisites",
           "groups"}
    /\ Provider!ExistingCalls \subseteq Provider!Calls
    /\ \A call \in Provider!Calls : Provider!After[call] \in Provider!Calls \cup {"managers"}
    /\ DOMAIN AnsweredAt = {"companies", "requisites", "groups"}
BY DEF Provider!Calls, Provider!After, Provider!ExistingCalls, AnsweredAt

LEMMA ProviderInitially == Provider!Init => ProviderInv
<1> SUFFICES ASSUME Provider!Init PROVE ProviderInv
    OBVIOUS
<1>1. /\ configured \in Configured /\ answers = <<>> /\ managers = <<>> /\ found = <<>>
      /\ stage = "create" /\ failure = "none" /\ client = "none"
    BY DEF Provider!Init
<1>2. DOMAIN answers = {} /\ DOMAIN managers = {} /\ Len(managers) = Len(found)
    BY <1>1, EmptySeq
<1>3. ProviderTypes
    BY <1>1, <1>2, EmptySeq DEF ProviderTypes, Provider!TypeOK
<1>4. AnswersKept
    BY <1>1 DEF AnswersKept, AnsweredAt, Finished
<1>5. ErrorsKept
    BY <1>1, Stages DEF ErrorsKept
<1>6. ManagersKept
    BY <1>1, <1>2 DEF ManagersKept, Finished
<1> QED BY <1>3, <1>4, <1>5, <1>6 DEF ProviderInv

LEMMA AskStep == ASSUME ProviderInv, Provider!Ask PROVE ProviderInv'
<1>1. PICK answer \in Answers[stage] :
          /\ answers' = [call \in DOMAIN answers \cup ({stage} \cap Provider!ExistingCalls) |->
                            IF call = stage THEN answer ELSE answers[call]]
          /\ \/ stage' = Provider!After[stage] /\ failure' = failure
             \/ \E error \in Provider!Verdict(stage, answer) :
                   failure' = error /\ stage' = "close"
    BY DEF Provider!Ask, Provider!Raise
<1>2. /\ stage \in Provider!Calls
      /\ configured' = configured /\ managers' = managers /\ found' = found /\ client' = client
    BY DEF Provider!Ask
<1>3. DOMAIN answers' = DOMAIN answers \cup ({stage} \cap Provider!ExistingCalls)
    BY <1>1
<1>4. \/ stage' = Provider!After[stage] /\ failure' = failure
      \/ stage' = "close" /\ failure' \in {"missing", "ambiguous", "invalid"}
    BY <1>1, VerdictType
<1>5. ProviderTypes'
    <2>1. \A call \in DOMAIN answers' : answers'[call] \in Answers[call]
        BY <1>1, <1>3 DEF ProviderInv, ProviderTypes, Provider!TypeOK
    <2>2. stage' \in Provider!Calls \cup {"managers", "close"}
        BY <1>2, <1>4, Stages
    <2>3. failure' \in {"none", "missing", "ambiguous", "invalid", "provider", "raw"}
        BY <1>4 DEF ProviderInv, ProviderTypes, Provider!TypeOK
    <2> QED BY <1>2, <1>3, <2>1, <2>2, <2>3 DEF ProviderInv, ProviderTypes, Provider!TypeOK
<1>6. AnswersKept'
    <2>1. CASE stage' = "close" /\ failure' # "none"
        BY <2>1, Stages DEF AnswersKept, Finished
    <2>2. CASE stage' = Provider!After[stage]
        <3>1. ~Finished'
            BY <1>2, <2>2, Stages DEF Finished
        <3>2. CASE stage \in Provider!ExistingCalls
            <4>1. \/ stage = "leads" /\ stage' = "companies"
                  \/ stage = "companies" /\ stage' = "requisites"
                  \/ stage = "requisites" /\ stage' = "groups"
                  \/ stage = "groups" /\ stage' = "managers"
                BY <2>2, <3>2 DEF Provider!After, Provider!ExistingCalls
            <4>2. DOMAIN answers' = DOMAIN answers \cup {stage}
                BY <1>3, <3>2
            <4> QED BY <3>1, <4>1, <4>2, Stages
                DEF ProviderInv, AnswersKept, AnsweredAt, Provider!ExistingCalls
        <3>3. CASE stage \notin Provider!ExistingCalls
            <4>1. stage' \notin {"companies", "requisites", "groups", "managers"}
                BY <1>2, <2>2, <3>3, Stages DEF Provider!After, Provider!ExistingCalls
            <4> QED BY <3>1, <4>1, Stages DEF AnswersKept
        <3> QED BY <3>2, <3>3
    <2> QED BY <1>4, <2>1, <2>2
<1>7. ErrorsKept'
    BY <1>2, <1>4, Stages DEF ProviderInv, ErrorsKept
<1>8. ManagersKept'
    <2>1. ~Finished'
        BY <1>2, <1>4, Stages DEF Finished
    <2> QED BY <1>2, <2>1 DEF ProviderInv, ManagersKept
<1> QED BY <1>5, <1>6, <1>7, <1>8 DEF ProviderInv

(* Of a manager that is found there is one user with an id.                *)
LEMMA ManagerStep == ASSUME ProviderInv, Provider!AskForManager PROVE ProviderInv'
<1>1. PICK i \in DOMAIN configured, users \in UserLists :
          /\ ~Provider!Named(i)
          /\ \/ failure' \in {"missing", "ambiguous", "invalid"} /\ stage' = "close"
                /\ UNCHANGED <<managers, found>>
             \/ \E u \in Provider!Bearers(users, configured[i]) :
                   /\ Provider!One(Provider!Bearers(users, configured[i])) /\ users[u].id # Provider!None
                   /\ managers' = Append(managers, [name |-> configured[i], id |-> users[u].id])
                   /\ found' = Append(found, users)
                   /\ UNCHANGED <<stage, failure>>
    BY DEF Provider!AskForManager, Provider!Raise
<1>2. /\ stage = "managers"
      /\ configured' = configured /\ answers' = answers /\ client' = client
    BY DEF Provider!AskForManager
<1>3. CASE failure' \in {"missing", "ambiguous", "invalid"} /\ stage' = "close"
           /\ UNCHANGED <<managers, found>>
    <2>1. ~Finished'
        BY <1>3 DEF Finished
    <2>2. ProviderTypes' /\ AnswersKept' /\ ErrorsKept'
        BY <1>2, <1>3, <2>1, Stages
        DEF ProviderInv, ProviderTypes, Provider!TypeOK, AnswersKept, ErrorsKept, AnsweredAt
    <2> QED BY <1>2, <1>3, <2>1, <2>2 DEF ProviderInv, ManagersKept
<1>4. ASSUME NEW u \in Provider!Bearers(users, configured[i]),
             Provider!One(Provider!Bearers(users, configured[i])), users[u].id # Provider!None,
             managers' = Append(managers, [name |-> configured[i], id |-> users[u].id]),
             found' = Append(found, users),
             UNCHANGED <<stage, failure>>
      PROVE  ProviderInv'
    <2> DEFINE Entry == [name : Names, id : {v.id : v \in Users}]
               m == [name |-> configured[i], id |-> users[u].id]
               n == Len(managers)
    <2>1. u \in DOMAIN users /\ users[u].employee /\ configured[i] \in users[u].names
        BY <1>4 DEF Provider!Bearers
    <2>2. users[u] \in Users /\ configured[i] \in Names
        BY <2>1 DEF Users, Names, Values, ProviderInv, ProviderTypes, Provider!TypeOK
    <2>3. m \in Entry
        BY <2>2
    <2>4. /\ managers \in Seq(Entry) /\ found \in Seq(UserLists)
          /\ n \in Nat /\ DOMAIN managers = 1..n /\ Len(found) = n /\ DOMAIN found = 1..n
        BY LenProperties DEF ProviderInv, ProviderTypes, Provider!TypeOK
    <2>5. /\ managers' \in Seq(Entry) /\ DOMAIN managers' = 1..n + 1 /\ Len(managers') = n + 1
          /\ \A j \in 1..n : managers'[j] = managers[j]
          /\ managers'[n + 1] = m
        BY <1>4, <2>3, <2>4, AppendProperties, LenProperties
    <2>6. /\ found' \in Seq(UserLists) /\ DOMAIN found' = 1..n + 1 /\ Len(found') = n + 1
          /\ \A j \in 1..n : found'[j] = found[j]
          /\ found'[n + 1] = users
        BY <1>4, <2>2, <2>4, AppendProperties, LenProperties
    <2>7. ProviderTypes'
        BY <1>2, <1>4, <2>5, <2>6 DEF ProviderInv, ProviderTypes, Provider!TypeOK
    <2>8. AnswersKept' /\ ErrorsKept'
        BY <1>2, <1>4 DEF ProviderInv, AnswersKept, ErrorsKept, Finished
    <2>9. ManagersKept'
        <3>1. ~Finished'
            BY <1>2, <1>4 DEF Finished
        <3>2. \A j \in 1..n : managers[j].name # configured[i]
            BY <1>1, <2>4 DEF Provider!Named, Provider!Values
        <3>3. \A j \in 1..n + 1 : j \in 1..n \/ j = n + 1
            BY <2>4
        <3>4. \A j, k \in DOMAIN managers' : managers'[j].name = managers'[k].name => j = k
            BY <2>4, <2>5, <3>2, <3>3 DEF ProviderInv, ManagersKept
        <3>5. TheOne(m, users)
            <4>1. \A v \in DOMAIN users :
                      v \in Provider!Bearers(users, configured[i]) <=> v = u
                BY <1>4 DEF Provider!One
            <4> QED BY <1>4, <2>1, <4>1 DEF TheOne, Provider!Bearers
        <3>6. \A j \in DOMAIN managers' : TheOne(managers'[j], found'[j])
            <4> HIDE DEF m
            <4> QED BY <2>4, <2>5, <2>6, <3>3, <3>5 DEF ProviderInv, ManagersKept
        <3> QED BY <3>1, <3>4, <3>6 DEF ManagersKept, TheOne
    <2> QED BY <2>7, <2>8, <2>9 DEF ProviderInv
<1> QED BY <1>1, <1>3, <1>4

(* The client is made, all is found, a call fails, the client is closed.   *)
LEMMA OtherStep ==
    ASSUME ProviderInv,
           \/ Provider!Create \/ Provider!CannotCreate \/ Provider!Complete
           \/ Provider!CallFails \/ Provider!Close \/ Provider!CannotClose
    PROVE  ProviderInv'
<1>1. configured' = configured /\ answers' = answers /\ managers' = managers /\ found' = found
    BY DEF Provider!Create, Provider!CannotCreate, Provider!Complete, Provider!CallFails,
           Provider!Close, Provider!CannotClose
<1>2. \/ stage = "create" /\ stage' = "owner_types" /\ client' = "open" /\ failure' = failure
      \/ stage = "create" /\ stage' = "raised" /\ client' = client /\ failure' = "raw"
      \/ /\ stage = "managers" /\ stage' = "close" /\ client' = client /\ failure' = failure
         /\ \A i \in DOMAIN configured : Provider!Named(i)
      \/ /\ stage \in Provider!Calls \cup {"managers"}
         /\ stage' = "close" /\ client' = client /\ failure' = "provider"
      \/ /\ stage = "close" /\ client' = "closed" /\ failure' = failure
         /\ stage' = IF failure = "none" THEN "returned" ELSE "raised"
      \/ stage = "close" /\ client' = "stuck" /\ failure' = "raw" /\ stage' = "raised"
    BY DEF Provider!Create, Provider!CannotCreate, Provider!Complete, Provider!CallFails,
           Provider!Close, Provider!CannotClose, Provider!Raise
<1>3. ProviderTypes'
    BY <1>1, <1>2, Stages DEF ProviderInv, ProviderTypes, Provider!TypeOK
<1>4. AnswersKept'
    BY <1>1, <1>2, Stages DEF ProviderInv, AnswersKept, AnsweredAt, Finished
<1>5. ErrorsKept'
    BY <1>2, Stages DEF ProviderInv, ErrorsKept, Provider!NothingLeftOpen, Provider!Ended
<1>6. ManagersKept'
    <2>1. Finished' => \A i \in DOMAIN configured : Provider!Named(i)
        BY <1>2 DEF ProviderInv, ManagersKept, Finished
    <2> QED BY <1>1, <2>1 DEF ProviderInv, ManagersKept, Provider!Named
<1> QED BY <1>3, <1>4, <1>5, <1>6 DEF ProviderInv

LEMMA ProviderStep ==
    ASSUME ProviderInv, Provider!Next \/ UNCHANGED providerVars
    PROVE  ProviderInv'
<1>1. CASE UNCHANGED providerVars
    BY <1>1 DEF providerVars, ProviderInv, ProviderTypes, Provider!TypeOK, AnswersKept, Finished,
        ErrorsKept, Provider!NothingLeftOpen, Provider!Ended, ManagersKept, Provider!Named
<1> QED BY <1>1, AskStep, ManagerStep, OtherStep DEF Provider!Next
-----------------------------------------------------------------------------
(* Every source id of the records is in their index, once.                 *)
LEMMA SourcesIndexed ==
    ASSUME NEW records, DOMAIN records \subseteq Nat,
           NEW pairs, pairs = Provider!SourceIdPairs(records)
    PROVE  /\ \A i, j \in DOMAIN pairs : pairs[i].source = pairs[j].source => i = j
           /\ \A i \in DOMAIN records :
                 records[i].source # None =>
                     \E k \in DOMAIN pairs : pairs[k].source = records[i].source
<1> DEFINE sourced == {i \in DOMAIN records : records[i].source # None}
           first == {i \in sourced :
                        \A j \in sourced : records[j].source = records[i].source => i <= j}
<1>1. pairs = [i \in first |-> records[i]]
    BY DEF Provider!SourceIdPairs, Provider!FirstOfSource, Provider!Sourced, Provider!None, None
<1>2. ASSUME NEW i \in first, NEW j \in first, records[i].source = records[j].source
      PROVE  i = j
    <2>1. i \in Nat /\ j \in Nat /\ i <= j /\ j <= i
        BY <1>2
    <2> QED BY <2>1
<1>3. ASSUME NEW i \in sourced PROVE \E k \in first : records[k].source = records[i].source
    <2> DEFINE S == {j \in sourced : records[j].source = records[i].source}
    <2>1. S \in SUBSET Nat /\ S # {}
        BY <1>3
    <2>2. PICK k \in S : \A j \in S : k <= j
        BY <2>1, Least
    <2> QED BY <2>2
<1> QED BY <1>1, <1>2, <1>3

(* Every INN of a company is in the index, once.                           *)
LEMMA InnsIndexed ==
    ASSUME NEW records, DOMAIN records \subseteq Nat, NEW companies,
           NEW index, index = Provider!ExistingDevelopers(companies, records)
    PROVE  /\ \A i, j \in DOMAIN index : index[i].inn = index[j].inn => i = j
           /\ \A i \in DOMAIN records :
                 records[i].inn # None /\ records[i].owner \in companies =>
                     \E k \in DOMAIN index : index[k].inn = records[i].inn
<1> DEFINE owned == {i \in DOMAIN records : records[i].inn # None /\ records[i].owner \in companies}
           first == {i \in owned : \A j \in owned : records[j].inn = records[i].inn => i <= j}
<1>1. index = [i \in first |-> [inn |-> records[i].inn, id |-> records[i].owner]]
    BY DEF Provider!ExistingDevelopers, Provider!FirstOfInn, Provider!Owned, Provider!None, None
<1>2. ASSUME NEW i \in first, NEW j \in first, records[i].inn = records[j].inn
      PROVE  i = j
    <2>1. i \in Nat /\ j \in Nat /\ i <= j /\ j <= i
        BY <1>2
    <2> QED BY <2>1
<1>3. ASSUME NEW i \in owned PROVE \E k \in first : records[k].inn = records[i].inn
    <2> DEFINE S == {j \in owned : records[j].inn = records[i].inn}
    <2>1. S \in SUBSET Nat /\ S # {}
        BY <1>3
    <2>2. PICK k \in S : \A j \in S : k <= j
        BY <2>1, Least
    <2> QED BY <2>2
<1>4. DOMAIN index = first /\ \A i \in first : index[i].inn = records[i].inn
    BY <1>1
<1> QED BY <1>2, <1>3, <1>4

CompanyIds == {answers.companies[i].id : i \in DOMAIN answers.companies}

(* The parts of a context that is returned.                                *)
LEMMA ContextParts ==
    ASSUME ProviderInv, stage = "returned", NEW c, c = Provider!Context
    PROVE  /\ c.leads = Provider!SourceIdPairs(answers.leads)
           /\ c.companies = Provider!ExistingDevelopers(CompanyIds, answers.requisites)
           /\ c.groups = Provider!SourceIdPairs(answers.groups)
           /\ c.managers = managers
           /\ DOMAIN answers.leads \subseteq Nat
           /\ DOMAIN answers.groups \subseteq Nat
           /\ DOMAIN answers.requisites \subseteq Nat
<1>1. Provider!ExistingCalls \subseteq DOMAIN answers
    BY DEF ProviderInv, AnswersKept, Finished
<1>2. \A call \in Provider!ExistingCalls : answers[call] \in Answers[call]
    BY <1>1 DEF ProviderInv, ProviderTypes, Provider!TypeOK
<1>3. \A call \in Provider!ExistingCalls : DOMAIN answers[call] \subseteq Nat
    BY <1>2, ProviderAssumption
<1> QED BY <1>3 DEF Provider!Context, CompanyIds, Provider!ExistingCalls

(* Of what is listed nothing is overlooked, and nothing is there twice.    *)
LEMMA ContextIndexed ==
    ASSUME ProviderInv, stage = "returned", NEW c, c = Provider!Context
    PROVE  /\ \A i, j \in DOMAIN c.leads : c.leads[i].source = c.leads[j].source => i = j
           /\ \A i, j \in DOMAIN c.groups : c.groups[i].source = c.groups[j].source => i = j
           /\ \A i, j \in DOMAIN c.companies : c.companies[i].inn = c.companies[j].inn => i = j
           /\ \A i, j \in DOMAIN c.managers : c.managers[i].name = c.managers[j].name => i = j
BY ContextParts, SourcesIndexed, InnsIndexed DEF ProviderInv, ManagersKept

LEMMA ContextOverlooksNothing ==
    ASSUME ProviderInv, stage = "returned" PROVE Provider!NothingOverlooked
<1> DEFINE c == Provider!Context
<1> HIDE DEF c
<1>0. c = Provider!Context
    BY DEF c
<1>1. \A i \in DOMAIN answers.leads :
          answers.leads[i].source # None =>
              \E k \in DOMAIN c.leads : c.leads[k].source = answers.leads[i].source
    BY <1>0, ContextParts, SourcesIndexed
<1>2. \A i \in DOMAIN answers.groups :
          answers.groups[i].source # None =>
              \E k \in DOMAIN c.groups : c.groups[k].source = answers.groups[i].source
    BY <1>0, ContextParts, SourcesIndexed
<1>3. \A i \in DOMAIN answers.requisites :
          answers.requisites[i].inn # None /\ answers.requisites[i].owner \in CompanyIds =>
              \E k \in DOMAIN c.companies : c.companies[k].inn = answers.requisites[i].inn
    BY <1>0, ContextParts, InnsIndexed
<1> QED
    BY <1>0, <1>1, <1>2, <1>3
    DEF Provider!NothingOverlooked, Provider!Has, Provider!Values, Provider!None, None, CompanyIds

(* Each configured name has its manager in the context.                    *)
LEMMA ManagersNamed ==
    ASSUME ProviderInv, stage = "returned"
    PROVE  /\ \A i \in DOMAIN configured : \E k \in DOMAIN managers : managers[k].name = configured[i]
           /\ 1 \in DOMAIN configured
<1>1. \A i \in DOMAIN configured : Provider!Named(i)
    BY DEF ProviderInv, ManagersKept, Finished
<1>2. 1 \in DOMAIN configured
    BY ProviderAssumption DEF ProviderInv, ProviderTypes, Provider!TypeOK
<1> QED BY <1>1, <1>2 DEF Provider!Named, Provider!Values

LEMMA ContextAccepted ==
    ASSUME ProviderInv, stage = "returned" PROVE Provider!ContextIsAccepted
<1> DEFINE c == Provider!Context
           s == Provider!RegionNames
<1>1. ~Provider!ManagerError(c, s)
    <2>1. c.managers = managers
        BY ContextParts
    <2>2. s.default = configured[1] /\ s.assignment = configured
        BY DEF Provider!RegionNames
    <2> HIDE DEF c, s
    <2> QED BY <2>1, <2>2, ManagersNamed
        DEF Provider!ManagerError, Provider!Has, Provider!Values, Provider!ManagerName
<1>2. /\ ~Provider!Repeats(c.leads, "source")
      /\ ~Provider!Repeats(c.companies, "inn")
      /\ ~Provider!Repeats(c.groups, "source")
      /\ ~Provider!Repeats(c.managers, "name")
    <2>0. c = Provider!Context
        OBVIOUS
    <2> HIDE DEF c
    <2> QED BY <2>0, ContextIndexed DEF Provider!Repeats
<1> QED BY <1>1, <1>2 DEF Provider!ContextIsAccepted

LEMMA ContextSound == ProviderInv => ContextIsSound
<1> SUFFICES ASSUME ProviderInv PROVE ContextIsSound
    OBVIOUS
<1>1. Provider!TypeOK
    BY DEF ProviderInv, ProviderTypes
<1>2. Provider!NothingLeftOpen
    BY DEF ProviderInv, ErrorsKept, Provider!NothingLeftOpen, Provider!Ended
<1>3. Provider!ContextIsAccepted
    BY ContextAccepted DEF Provider!ContextIsAccepted
<1>4. Provider!NothingOverlooked
    BY ContextOverlooksNothing DEF Provider!NothingOverlooked
<1>5. Provider!ManagersAreTheOnes
    BY DEF ProviderInv, ManagersKept, TheOne, Provider!ManagersAreTheOnes
<1> QED BY <1>1, <1>2, <1>3, <1>4, <1>5 DEF ContextIsSound, Provider!ContextIsSound
-----------------------------------------------------------------------------
(* What Extract returns and what the provider returns, together.           *)
LEMMA Acceptable ==
    ASSUME ProviderInv, IInv, stage = "returned", pc = "ok", ~SharedInn
    PROVE  Accepted(Result, Provider!Context, Provider!RegionNames)
<1> DEFINE x == Result
           c == Provider!Context
           s == Provider!RegionNames
<1>1. /\ Distinct(objects) /\ Distinct(developers) /\ Distinct(groups)
      /\ IdsOf(developers) = DeveloperIds
      /\ IdsOf(groups) = GroupIds(developers)
      /\ GroupsConsistent(objects, developers)
    BY DEF IInv, ObjectsArePassed, DevelopersArePassed, GroupsArePassed, ObjectsValid, ExactlyThose
<1>2. /\ x.objects = objects /\ x.groups = groups
      /\ DOMAIN x.developers = DOMAIN developers
      /\ \A i \in DOMAIN developers :
            /\ x.developers[i].id = developers[i].id
            /\ x.developers[i].inn = developers[i].inn
            /\ x.developers[i].group = developers[i].group
    BY DEF Result
<1>3. c = Provider!Context /\ s = Provider!RegionNames
    OBVIOUS
<1> HIDE DEF x, c, s
<1>4. ~IndexError(x, c)
    <2>1. /\ ~Repeats(x.developers, "id") /\ ~Repeats(x.groups, "id") /\ ~Repeats(x.objects, "id")
        BY <1>1, <1>2 DEF Distinct, Repeats
    <2>2. /\ ~Repeats(c.leads, "source") /\ ~Repeats(c.companies, "inn")
          /\ ~Repeats(c.groups, "source") /\ ~Repeats(c.managers, "name")
        BY <1>3, ContextIndexed DEF Repeats
    <2> QED BY <2>1, <2>2 DEF IndexError
<1>5. ~ManagerError(c, s)
    <2>1. c.managers = managers
        BY <1>3, ContextParts
    <2>2. s.default = configured[1] /\ s.assignment = configured
        BY <1>3 DEF Provider!RegionNames
    <2> QED BY <2>1, <2>2, ManagersNamed DEF ManagerError, Has, Values, ManagerName
(* The developer of an object stands in the list of developers.            *)
<1>6. ASSUME NEW o \in NewObjects(x, c)
      PROVE  /\ o \in Values(objects)
             /\ Has(x.developers, "id", o.developer)
             /\ \E i \in DOMAIN developers :
                   DeveloperOf(x, o) = x.developers[i] /\ developers[i].id = o.developer
    <2>1. o \in Values(objects)
        BY <1>2 DEF NewObjects
    <2>2. o.developer \in IdsOf(developers)
        BY <1>1, <2>1 DEF DeveloperIds
    <2>3. \E i \in DOMAIN developers : developers[i].id = o.developer
        BY <2>2 DEF IdsOf, Entries
    <2>4. \E d \in Values(x.developers) : d["id"] = o.developer
        BY <1>2, <2>3 DEF Values
    <2>5. /\ DeveloperOf(x, o) \in Values(x.developers)
          /\ DeveloperOf(x, o).id = o.developer
        BY <2>4 DEF DeveloperOf, Get
    <2>6. PICK i \in DOMAIN x.developers : DeveloperOf(x, o) = x.developers[i]
        BY <2>5 DEF Values
    <2>7. developers[i].id = o.developer
        BY <1>2, <2>5, <2>6
    <2> QED BY <1>2, <2>1, <2>4, <2>6, <2>7 DEF Has
<1>7. ~DeveloperError(x, c)
    <2> SUFFICES ASSUME NEW d \in RequiredDevelopers(x, c), NEW e \in RequiredDevelopers(x, c),
                        d.inn = e.inn
                 PROVE  d = e
        BY <1>6 DEF DeveloperError
    <2>1. PICK i \in DOMAIN developers : d = x.developers[i]
        BY <1>6 DEF RequiredDevelopers
    <2>2. PICK j \in DOMAIN developers : e = x.developers[j]
        BY <1>6 DEF RequiredDevelopers
    <2>3. developers[i].inn = developers[j].inn
        BY <1>2, <2>1, <2>2
    <2>4. i = j
        BY <2>3 DEF SharedInn
    <2> QED BY <2>1, <2>2, <2>4
<1>8. ~GroupError(x, c)
    <2>1. ASSUME NEW o \in NewObjects(x, c), o.group # None
          PROVE  DeveloperOf(x, o).group \in {None, o.group}
        <3>1. PICK i \in DOMAIN developers :
                  DeveloperOf(x, o) = x.developers[i] /\ developers[i].id = o.developer
            BY <1>6
        <3>2. o.group \in GroupsNamed(objects, developers[i].id)
            BY <1>6, <2>1, <3>1 DEF GroupsNamed, Entries, Values, None
        <3>3. developers[i].group # 0 => GroupsNamed(objects, developers[i].id) \subseteq {developers[i].group}
            BY <1>1 DEF GroupsConsistent, Entries
        <3>4. DeveloperOf(x, o).group = developers[i].group
            BY <1>2, <3>1
        <3> QED BY <3>2, <3>3, <3>4 DEF None
    <2>2. ASSUME NEW o \in NewObjects(x, c), NEW p \in NewObjects(x, c),
                 o.developer = p.developer, o.group # None, p.group # None
          PROVE  o.group = p.group
        <3>1. o \in Values(objects) /\ p \in Values(objects)
            BY <1>6
        <3> QED BY <1>1, <2>2, <3>1 DEF GroupsConsistent, Entries, Values, None
    <2>3. ASSUME NEW g \in RequiredGroups(x, c) PROVE Has(x.groups, "id", g)
        <3>1. PICK o \in NewObjects(x, c) : g = o.group /\ g # None
            BY DEF RequiredGroups
        <3>2. g \in GroupIds(developers)
            BY <1>6, <3>1 DEF GroupIds, NoGroup, None
        <3> QED BY <1>1, <1>2, <3>2 DEF IdsOf, Entries, Has, Values
    <2> QED BY <2>1, <2>2, <2>3 DEF GroupError
<1> QED BY <1>4, <1>5, <1>7, <1>8 DEF Accepted, x, c, s
-----------------------------------------------------------------------------
PreparationInv ==
    /\ ProviderInv
    /\ IInv
    /\ stage # "returned" => pc = "objects"

(* The provider is done before Extract begins, and stays so.               *)
THEOREM PreparationInvariant == PreparationSpec => []PreparationInv
<1>1. PreparationInit => PreparationInv
    BY ProviderInitially, InitInvariant DEF PreparationInit, PreparationInv, Init
<1>2. ASSUME PreparationInv, [PreparationNext]_<<vars, providerVars>> PROVE PreparationInv'
    <2>1. CASE Provide
        <3>1. ProviderInv'
            BY <1>2, <2>1, ProviderStep DEF Provide, PreparationInv
        <3>2. UNCHANGED vars
            BY <2>1 DEF Provide
        <3>3. IInv'
            BY <1>2, <3>2, InvariantStep DEF PreparationInv
        <3>4. stage # "returned"
            BY <2>1, Stages DEF Provide, Provider!Next, Provider!Create, Provider!CannotCreate, Provider!Ask,
                        Provider!AskForManager, Provider!Complete, Provider!CallFails,
                        Provider!Close, Provider!CannotClose
        <3>5. pc' = "objects"
            BY <1>2, <3>2, <3>4 DEF PreparationInv, vars
        <3> QED BY <3>1, <3>3, <3>5 DEF PreparationInv
    <2>2. CASE ExtractAfterwards
        <3>1. IInv'
            BY <1>2, <2>2, InvariantStep DEF ExtractAfterwards, PreparationInv
        <3>2. ProviderInv'
            BY <1>2, <2>2, ProviderStep DEF ExtractAfterwards, PreparationInv
        <3>3. stage' = "returned"
            BY <2>2 DEF ExtractAfterwards, providerVars
        <3> QED BY <3>1, <3>2, <3>3 DEF PreparationInv
    <2>3. CASE UNCHANGED <<vars, providerVars>>
        <3>1. ProviderInv' /\ IInv'
            BY <1>2, <2>3, ProviderStep, InvariantStep DEF PreparationInv
        <3>2. stage' = stage /\ pc' = pc
            BY <2>3 DEF vars, providerVars
        <3> QED BY <1>2, <3>1, <3>2 DEF PreparationInv
    <2> QED BY <1>2, <2>1, <2>2, <2>3 DEF PreparationNext
<1> QED BY <1>1, <1>2, PTL DEF PreparationSpec

(* The context the provider returns is complete and unambiguous, names a   *)
(* manager for every configured name, and leaves no client open.           *)
THEOREM ContextIsAlwaysSound == PreparationSpec => []ContextIsSound
<1>1. PreparationInv => ContextIsSound
    BY ContextSound DEF PreparationInv
<1> QED BY <1>1, PreparationInvariant, PTL

(* What the provider and Extract let pass the transformer accepts, unless  *)
(* two developers share an INN.                                            *)
THEOREM InputsAccepted == PreparationSpec => []InputsAreAccepted
<1>1. PreparationInv => InputsAreAccepted
    BY Acceptable DEF PreparationInv, InputsAreAccepted
<1> QED BY <1>1, PreparationInvariant, PTL

(* The guarantee of Extract holds as well when the provider runs before    *)
(* it: what is returned is referentially closed.                           *)
THEOREM ExtractedIsClosed == PreparationSpec => []ResultIsClosed
<1>1. PreparationInv => ResultIsClosed
    BY InvariantImpliesClosed DEF PreparationInv
<1> QED BY <1>1, PreparationInvariant, PTL
=============================================================================
