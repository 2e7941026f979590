----------------------------- MODULE MCMatching -----------------------------
(* A source with a parcel column, a column of coordinates and an owner column, *)
(* each of which changes its shape from one fetch to the next.                 *)
EXTENDS Matching, TLC

Registry ==
    <<[name |-> "parcel", kind |-> "id", identity |-> TRUE],
      [name |-> "owner", kind |-> "name", identity |-> FALSE],
      [name |-> "latitude", kind |-> "number", identity |-> FALSE],
      [name |-> "longitude", kind |-> "number", identity |-> FALSE]>>
MapOrder == <<"latitude", "longitude", "owner", "parcel">>

\* Likeness of names in twelfths; what is not named here is unlike.
Like(label, name) ==
    CASE label = "pin" /\ name = "parcel" -> 12
      [] label = "ref" /\ name = "parcel" -> 8
      [] label = "lat long" /\ name = "latitude" -> 5
      [] label = "lat" /\ name = "latitude" -> 12
      [] label = "long" /\ name = "longitude" -> 11
      [] label = "name" /\ name = "owner" -> 11
      [] OTHER -> 0
Labels == {"pin", "ref", "lat long", "name"}
Likeness == [l \in Labels \union {"lat", "long"} |->
                [n \in {"parcel", "owner", "latitude", "longitude"} |-> Like(l, n)]]
WordsOf == [l \in Labels |-> IF l = "lat long" THEN <<"lat", "long">> ELSE <<l>>]
Verdicts == [l \in Labels |-> IF l = "lat long" THEN [field |-> "parcel", score |-> 9]
                              ELSE [field |-> "none", score |-> 0]]

V(fits, holds) == [fits |-> fits, holds |-> holds]
Cell(v) == [whole |-> v, parts |-> <<>>]
Id == Cell(V({"id"}, {"id"}))
LabelledId == Cell(V({"text"}, {"id"}))
Prose == V({"name", "text"}, {})
Degrees == V({"number", "id"}, {})
Numbers == V({"id", "text"}, {"id"})
Pair == [whole |-> Numbers, parts |-> <<Degrees, Degrees>>]
HalfPair == [whole |-> Numbers, parts |-> <<Degrees, Prose>>]
Triple == [whole |-> Numbers, parts |-> <<Degrees, Degrees, Degrees>>]

\* Columns of four rows, of which three are looked at.
Parcels == {<<Id, Id, Id, Id>>, <<Id, LabelledId, LabelledId, Id>>,
            <<Id, Cell(Prose), Cell(Prose), Cell(Prose)>>}
Places == {<<Pair, Pair, Pair, Pair>>, <<Pair, HalfPair, Pair, HalfPair>>,
           <<Pair, Pair, Triple, Pair>>, [i \in 1..4 |-> Cell(Degrees)]}
Owners == {[i \in 1..4 |-> Cell(Prose)]}

Doc(ids, label, places, owners) ==
    [labels |-> <<label, "lat long", "name">>,
     records |-> [i \in 1..4 |->
                    (label :> ids[i]) @@ ("lat long" :> places[i]) @@ ("name" :> owners[i])]]
Served == {Doc(ids, label, places, owners) :
              ids \in Parcels, label \in {"pin", "ref"}, places \in Places, owners \in Owners}
=============================================================================
