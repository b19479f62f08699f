----------------------------- MODULE Normalizer ------------------------------
(***************************************************************************)
(* NashDomDataNormalizer and the contracts it normalises to, as operators  *)
(* on records of the source.                                               *)
(*                                                                         *)
(* A field of a source record is [type, value]: it is absent (missing or   *)
(* null), an integer (0 for all that are not positive), a text (its value  *)
(* a number that stands for the text without its margins, Blank if nothing *)
(* is left; for a date or a kind what the text means, Blank if nothing) or *)
(* of another type.  The texts nothing depends on, all required, are one   *)
(* field, rest.                                                            *)
(***************************************************************************)
EXTENDS Integers

Fields == [type : {"absent", "integer", "text", "other"}, value : Nat]

RawObjects ==
    [id : Fields, developer : Fields, group : Fields, region : Fields, address : Fields,
     title : Fields, publicationDate : Fields, objPublDt : Fields, period : Fields, kind : Fields]

RawDevelopers ==
    [id : Fields, inn : Fields, group : Fields, region : Fields, rest : Fields,
     legal : Fields, actual : Fields, url : Fields]

RawGroups == [id : Fields, name : Fields]

Blank == 0
NoGroup == 0  \* company_group_id is None

Known(v) == v.type # "absent"

IdNormal(v) == v.type = "integer" /\ v.value > 0

TextNormal(v) == v.type = "text" /\ v.value # Blank

OptionalIdNormal(v) == Known(v) => IdNormal(v)

OptionalId(v) == IF Known(v) THEN v.value ELSE NoGroup

(* _resolve_value over the two names of the date in the two schemas.       *)
PublicationNormal(raw) ==
    LET dates == {v \in {raw.publicationDate, raw.objPublDt} : Known(v)}
    IN  /\ dates # {}
        /\ \A v \in dates : TextNormal(v)
        /\ \A v, w \in dates : v.value = w.value

ObjectNormal(raw) ==
    /\ IdNormal(raw.id) /\ IdNormal(raw.region) /\ IdNormal(raw.developer)
    /\ OptionalIdNormal(raw.group)
    /\ TextNormal(raw.address)
    /\ raw.title.type \in {"absent", "text"}
    /\ PublicationNormal(raw)
    /\ TextNormal(raw.period)
    /\ TextNormal(raw.kind)

Object(raw) ==
    [id |-> raw.id.value, developer |-> raw.developer.value,
     group |-> OptionalId(raw.group), region |-> raw.region.value]

(* One address may stand for both.                                         *)
AddressesNormal(raw) ==
    /\ raw.legal.type \in {"absent", "text"} /\ raw.actual.type \in {"absent", "text"}
    /\ TextNormal(raw.legal) \/ TextNormal(raw.actual)

Address(v, other) == IF TextNormal(v) THEN v.value ELSE other.value

DeveloperNormal(raw) ==
    /\ IdNormal(raw.id) /\ IdNormal(raw.region)
    /\ OptionalIdNormal(raw.group)
    /\ TextNormal(raw.inn) /\ TextNormal(raw.rest)
    /\ AddressesNormal(raw)
    /\ Known(raw.url) => TextNormal(raw.url)

Developer(raw) ==
    [id |-> raw.id.value, inn |-> raw.inn.value,
     group |-> OptionalId(raw.group), region |-> raw.region.value,
     legal |-> Address(raw.legal, raw.actual), actual |-> Address(raw.actual, raw.legal)]

GroupNormal(raw) == IdNormal(raw.id) /\ TextNormal(raw.name)

Group(raw) == [id |-> raw.id.value]
=============================================================================
