--------------------------- MODULE MCPreparation ----------------------------
(***************************************************************************)
(* Preparation for TLC: answers with missing, repeated and invalid records *)
(* at each call of the provider; up to two objects, developers and groups, *)
(* with records that are incomplete, name groups that differ or are of     *)
(* other regions.                                                          *)
(***************************************************************************)
EXTENDS Preparation, TLC

Row(name, id) == [name |-> name, id |-> id]

Rows(names) ==
    LET whole == [i \in DOMAIN names |-> Row(names[i], i)]
    IN  {whole, <<Row("other", 9)>> \o whole, Tail(whole), Append(whole, Row(names[1], 8)),
         Append(Tail(whole), Row(names[1], None))}

FieldRow(title, upper) == [title |-> title, upper |-> upper]

FieldLists(name) ==
    {<<FieldRow(name, "other")>>, <<FieldRow("other", name)>>,
     <<FieldRow(name, "other"), FieldRow(name, name)>>,
     <<FieldRow("other", name), FieldRow("other", name)>>, <<FieldRow("other", "other")>>}

Item(id, source) == [id |-> id, source |-> source, valid |-> TRUE]

Items == {<<>>, <<Item(1, 1)>>, <<Item(1, 1), Item(2, None), Item(3, 1)>>,
          << [id |-> 1, source |-> 1, valid |-> FALSE] >>}

Companies == {<<>>, <<Item(1, None), Item(2, None)>>}

Requisite(owner, inn) == [owner |-> owner, inn |-> inn, valid |-> TRUE]

MCAnswers ==
    [owner_types |-> Rows(<<"group of companies">>), SOURCE |-> Rows(<<"site">>),
     INDUSTRY |-> Rows(<<"developer">>), COMPANY_TYPE |-> Rows(<<"partner">>),
     presets |-> Rows(<<"organization">>), address_types |-> Rows(<<"actual", "legal">>),
     lead_fields |-> FieldLists("source id") , company_fields |-> FieldLists("contact"),
     group_fields |-> FieldLists("source id"),
     leads |-> Items, groups |-> Items, companies |-> Companies,
     requisites |-> {<<>>, <<Requisite(3, 7), Requisite(1, 7), Requisite(1, 7), Requisite(2, None)>>,
                     <<Requisite(1, 7), Requisite(2, 7)>>}]

MCSpecs ==
    [lead_fields |-> {"source id"}, company_fields |-> {"contact"}, group_fields |-> {"source id"}]

User(id, names, employee, active) ==
    [id |-> id, names |-> names, employee |-> employee, active |-> active]

MCUserLists ==
    {<<>>, <<User(1, {"a", "b"}, TRUE, TRUE)>>, <<User(1, {"a"}, TRUE, FALSE)>>,
     <<User(1, {"a"}, TRUE, TRUE), User(2, {"a"}, FALSE, TRUE)>>,
     <<User(1, {"b"}, TRUE, TRUE), User(2, {"b"}, TRUE, TRUE)>>, <<User(None, {"b"}, TRUE, TRUE)>>,
     <<User(1, {"a"}, FALSE, TRUE)>>}

MCConfigured == {<<"a">>, <<"a", "b", "a">>}
-----------------------------------------------------------------------------
Absent == [type |-> "absent", value |-> 0]
Number(n) == [type |-> "integer", value |-> n]
Text(n) == [type |-> "text", value |-> n]
Other == [type |-> "other", value |-> 0]

RawObject(id, developer, group, region) ==
    [id |-> Number(id), developer |-> developer, group |-> group, region |-> Number(region),
     address |-> Text(1), title |-> Absent, publicationDate |-> Text(1), objPublDt |-> Absent,
     period |-> Text(1), kind |-> Text(1)]

SomeGroups == {Absent, Number(1), Number(2)}

MCObjectLists ==
    LET one == RawObject(1, Number(1), Absent, 1)
    IN  {<<RawObject(1, Number(1), g, 1)>> : g \in SomeGroups \cup {Number(0), Other}}
        \cup {<<RawObject(1, Number(1), g, 1), RawObject(2, Number(d), h, 1)>> :
                d \in {1, 2}, g \in SomeGroups, h \in SomeGroups}
        \cup {<<>>, <<one, one>>, <<one, RawObject(2, Number(1), Absent, 2)>>,
              <<RawObject(1, Absent, Absent, 1)>>}
        \cup {<<[one EXCEPT !.objPublDt = v]>> : v \in {Text(1), Text(2), Other}}
        \cup {<<[one EXCEPT !.title = v]>> : v \in {Text(0), Text(1), Number(1)}}
        \cup {<<[one EXCEPT !.publicationDate = Absent]>>, <<[one EXCEPT !.address = Text(0)]>>}

RawDeveloper(id, inn, group) ==
    [id |-> Number(id), inn |-> inn, group |-> group, region |-> Number(3), rest |-> Text(1),
     legal |-> Text(1), actual |-> Text(2), url |-> Absent]

MCDeveloperLists ==
    LET one == RawDeveloper(1, Text(1), Absent)
    IN  {<<RawDeveloper(1, Text(1), g)>> : g \in SomeGroups}
        \cup {<<RawDeveloper(1, Text(1), g), RawDeveloper(2, Text(inn), h)>> :
                inn \in {1, 2}, g \in SomeGroups, h \in SomeGroups}
        \cup {<<[one EXCEPT !.legal = v, !.actual = w]>> :
                v \in {Absent, Text(0), Text(1), Other}, w \in {Absent, Text(0), Text(2)}}
        \cup {<<[one EXCEPT !.inn = Text(0)]>>, <<[one EXCEPT !.url = Text(0)]>>}

MCGroupRecords ==
    {[id |-> Number(id), name |-> name] : id \in {1, 2}, name \in {Text(1), Text(0)}}
=============================================================================
