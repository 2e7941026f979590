------------------------------- MODULE Entity -------------------------------
(* Parcels, addresses and property keys (engine/entity.cpp).  A parcel is a    *)
(* sequence of symbols.  An address is the sequence of its words, records      *)
(* [text, class, zeros]: class is "digits", "mixed" (a longer word that begins *)
(* with a digit), "letter" (one letter) or "word", and zeros is how many       *)
(* leading zeros a number is written with.                                     *)
EXTENDS Integers, SequencesExt

Abbreviation ==
    [street |-> "st", avenue |-> "ave", av |-> "ave", road |-> "rd", lane |-> "ln",
     drive |-> "dr", court |-> "ct", place |-> "pl", north |-> "n", south |-> "s",
     east |-> "e", west |-> "w", apartment |-> "apt", suite |-> "ste", number |-> "no"]

Punctuation == {"-", ".", "/", " "}
UpperCase == [a |-> "A", b |-> "B"]

\* Letters count in either case, marks between them not at all.
AddSymbol(out, c) ==
    CASE c \in Punctuation       -> out
      [] c \in DOMAIN UpperCase  -> Append(out, UpperCase[c])
      [] OTHER                   -> Append(out, c)

NormalizeParcel(parcel) == FoldLeft(AddSymbol, <<>>, parcel)

CanonicalWord(word) ==
    IF word.text \in DOMAIN Abbreviation
    THEN [word EXCEPT !.text = Abbreviation[word.text]]
    ELSE [word EXCEPT !.zeros = 0]

NormalizeAddress(address) == [i \in DOMAIN address |-> CanonicalWord(address[i])]

Directionals == {"n", "s", "e", "w", "ne", "nw", "se", "sw"}
StreetSuffixes == {"st", "ave", "rd", "ln", "dr", "ct", "pl", "way"}
UnitMarkers == {"apt", "ste", "unit", "no"}

NoAddress == [number |-> "", directional |-> "", street |-> <<>>, suffix |-> "", unit |-> "",
              locatable |-> FALSE]

\* A word after the number.  A marker takes the word behind it as the unit; of the
\* directions the first counts, of the suffixes the last.
ParseWord(p, word) ==
    CASE p.marked -> [p EXCEPT !.marked = FALSE, !.unit = word.text, !.left = @ - 1]
      [] ~p.marked /\ word.text \in UnitMarkers /\ p.left > 1 ->
            [p EXCEPT !.marked = TRUE, !.left = @ - 1]
      [] ~p.marked /\ word.text \in Directionals ->
            [p EXCEPT !.directional = IF @ = "" THEN word.text ELSE @, !.left = @ - 1]
      [] ~p.marked /\ word.text \in StreetSuffixes -> [p EXCEPT !.suffix = word.text, !.left = @ - 1]
      [] OTHER -> [p EXCEPT !.street = Append(@, word), !.left = @ - 1]

\* "1400 block of Main" names a stretch of road, not a building.
IsBlock(words) ==
    \E i \in 1..(Len(words) - 1) : words[i].text \in {"block", "blk"} /\ words[i + 1].text = "of"

\* A single letter behind the street's name is a unit without its marker.
TakeUnit(p) ==
    IF p.unit = "" /\ Len(p.street) > 1 /\ Last(p.street).class = "letter"
    THEN [p EXCEPT !.unit = Last(p.street).text, !.street = Front(p.street)]
    ELSE p

Numbered(words) == words # <<>> /\ words[1].class \in {"digits", "mixed"}

\* What the words behind the number, or all where there is none, say.
ReadWords(words) ==
    TakeUnit(FoldLeft(ParseWord, [marked |-> FALSE, left |-> Len(words), directional |-> "",
                                  street |-> <<>>, suffix |-> "", unit |-> ""], words))

Building(number, p) ==
    [number |-> number, directional |-> p.directional, street |-> p.street, suffix |-> p.suffix,
     unit |-> p.unit, locatable |-> number \notin {"", "0"} /\ p.street # <<>>]

ParseWords(words) ==
    CASE words = <<>> \/ IsBlock(words) -> NoAddress
      [] Numbered(words) /\ ~IsBlock(words) -> Building(words[1].text, ReadWords(Tail(words)))
      [] OTHER -> Building("", ReadWords(words))

ParseAddress(address) == ParseWords(NormalizeAddress(address))

Compatible(a, b) ==
    /\ "" \in {a.directional, b.directional} \/ a.directional = b.directional
    /\ "" \in {a.suffix, b.suffix} \/ a.suffix = b.suffix

NoKey == [scope |-> "", parcel |-> <<>>, address |-> <<>>]

\* A property is known by its parcel, or by its address where it has none.
Key(scope, parcel, address) ==
    CASE parcel # <<>> -> [scope |-> scope, parcel |-> parcel, address |-> <<>>]
      [] parcel = <<>> /\ address # <<>> -> [scope |-> scope, parcel |-> <<>>, address |-> address]
      [] OTHER -> NoKey

PropertyKey(scope, parcel, address) ==
    Key(scope, NormalizeParcel(parcel), NormalizeAddress(address))
=============================================================================
