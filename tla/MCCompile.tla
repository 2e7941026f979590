----------------------------- MODULE MCCompile ------------------------------
(* Two editions of an assessor's roll, a tax list, deeds and code violations   *)
(* of one county, about East and West Main Street number 12 and a flat there;  *)
(* a deed and a tax record of one property have no date.                       *)
EXTENDS Compile

Source(id, label, asOf) == [id |-> id, scope |-> "cook", label |-> label, asOf |-> asOf]
Roll1 == Source("roll1", "assessor_roll", 1)
Roll2 == Source("roll2", "assessor_roll", 2)
Tax == Source("tax", "tax_delinquency", 0)
Deeds == Source("deeds", "deed_transfer", 0)
Code == Source("code", "code_violation", 0)
Abroad == [Source("abroad", "code_violation", 0) EXCEPT !.scope = "lake"]
AllSources == {Roll1, Roll2, Tax, Deeds, Code, Abroad}
Cook == {"cook"}

Word(text) == [text |-> text, class |-> "word", zeros |-> 0]
Twelve == [text |-> "12", class |-> "digits", zeros |-> 0]
OhTwelve == [Twelve EXCEPT !.zeros = 1]
B == [Word("b") EXCEPT !.class = "letter"]
East == <<Twelve, Word("east"), Word("main"), Word("street")>>
EastShort == <<OhTwelve, Word("e"), Word("main"), Word("st")>>
West == <<Twelve, Word("w"), Word("main"), Word("st")>>
Plain == <<Twelve, Word("main"), Word("st")>>
Flat == <<Twelve, Word("main"), Word("st"), Word("apt"), B>>
FlatBare == <<Twelve, Word("main"), Word("street"), B>>

P1 == <<"1", "-", "a">>
P1Bare == <<"1", "A">>
P2 == <<"2">>

Batch(records, level) == [records |-> records, confidence |-> 5,
                          trust |-> [address |-> level, owner |-> 5, assessed_value |-> 5]]
At(parcel, address, rest) == rest @@ [parcel_id |-> parcel, address |-> address]
By(address, rest) == rest @@ [address |-> address]

Read ==
    [s \in AllSources |->
        CASE s = Roll1 -> {Batch(<<At(P1, East, [assessed_value |-> 100]),
                                   At(P2, West, [assessed_value |-> 50])>>, 7)}
          [] s = Roll2 -> {Batch(<<At(P1Bare, Plain, [assessed_value |-> 120])>>, 5),
                           Batch(<<At(P1Bare, EastShort, [owner |-> "ann"]),
                                   At(P2, Flat, [assessed_value |-> 60])>>, 5)}
          [] s = Tax -> {Batch(<<By(Plain, [amount_due |-> 7, mailing_address |-> Plain])>>, 6),
                         Batch(<<At(P1, FlatBare, [amount_due |-> 8, event_date |-> 3]),
                                 [amount_due |-> 9]>>, 4)}
          [] s = Deeds -> {Batch(<<By(East, [event_date |-> 4, owner |-> "bob",
                                             mailing_address |-> EastShort]),
                                   At(P2, West, [event_date |-> 2, owner |-> "eve"])>>, 5),
                            Batch(<<[parcel_id |-> P1, event_date |-> 4, owner |-> "di"],
                                    By(Plain, [owner |-> "fi"])>>, 5)}
          [] s = Code -> {Batch(<<By(East, [event_date |-> 5, owner |-> "cy"]),
                                  By(<<Word("main"), Word("st")>>, [event_date |-> 1])>>, 5)}
          [] s = Abroad -> {Batch(<<By(East, [event_date |-> 1])>>, 5)}]

SchemaFields == <<"parcel_id", "address", "owner", "mailing_address", "amount_due",
                  "assessed_value", "event_date">>
Labels ==
    [f \in ToSet(SchemaFields) |->
        CASE f = "owner" -> "deed_transfer" [] f = "amount_due" -> "tax_delinquency"
          [] f = "assessed_value" -> "assessor_roll" [] OTHER -> ""]

\* Any fixed order will do.
KeyList ==
    <<PropertyKey("cook", P1, <<>>), PropertyKey("cook", P2, <<>>), PropertyKey("cook", <<>>, East),
      PropertyKey("cook", <<>>, Plain), PropertyKey("cook", <<>>, <<Word("main"), Word("st")>>),
      PropertyKey("lake", <<>>, East)>>
SourceList == <<"tax", "roll2", "code", "deeds", "roll1", "abroad">>
Position(list, x) == CHOOSE i \in DOMAIN list : list[i] = x
KeyOrder(a, b) == Position(KeyList, a) < Position(KeyList, b)
IdOrder(a, b) ==
    \/ Position(SourceList, a.source) < Position(SourceList, b.source)
    \/ a.source = b.source /\ KeyOrder(a.key, b.key)
=============================================================================
