------------------------------- MODULE Schema -------------------------------
(* How a source's columns are matched to canonical fields and records are read *)
(* with the match (engine/schema.cpp).  Scores are whole parts of Unit and     *)
(* weighted ones of 100 * Unit.  A document is [labels, records]; a record is  *)
(* a function from the labels it has a value for to cells [whole, parts]: the  *)
(* value and, where a separator splits it, its parts.  A value is what the     *)
(* validators make of it: [fits, holds], the kinds it is of and the kinds      *)
(* that can be extracted from it.                                              *)
EXTENDS Integers, FiniteSets, SequencesExt, Sorting

CONSTANTS
    Fields,         \* the registry, in its order: [name, kind, identity]
    Similarity,     \* label or word of a label -> field name -> 0..Unit
    Words,          \* label -> its words
    Decisive,       \* label -> [field, score]: the column model's verdict, 7/10 and above
    Unit,           \* one, in parts
    SampleLimit     \* rows looked at (25 in the code)

IsSequence(s) == s \in Seq(ToSet(s))

ASSUME SampleAssumption == Unit \in Nat \ {0} /\ SampleLimit \in Nat
ASSUME FieldsAssumption == IsSequence(Fields)

Names == {Fields[i].name : i \in DOMAIN Fields}
\* Likeness is a number for every field, and so is the verdict of the model.
ASSUME ScoresAssumption ==
    /\ \A label \in DOMAIN Similarity, name \in Names : Similarity[label][name] \in Nat
    /\ \A label \in DOMAIN Decisive : Decisive[label].score \in Nat

FieldOf(name) == Fields[CHOOSE i \in DOMAIN Fields : Fields[i].name = name]

Accept == 65 * Unit
PartAccept == 80 * Unit
MaxParts == 6
Whole == 0                  \* the part that stands for the cell as it is

Weak(kind) == kind \in {"name", "address", "status", "text"}
Coercible(kind) == kind \in {"id", "money", "date"}

Coerce(field, value) ==
    [ok |-> field.kind \in value.fits \/ (Coercible(field.kind) /\ field.kind \in value.holds),
     reformatted |-> field.kind \notin value.fits]

\* The values of one part of a column, row by row; a row without it has none.
PartOf(cell, part) ==
    CASE part = Whole -> <<cell.whole>>
      [] part \in DOMAIN cell.parts -> <<cell.parts[part]>>
      [] OTHER -> <<>>

AddPart(label, part, values, record) ==
    IF label \in DOMAIN record THEN values \o PartOf(record[label], part) ELSE values

ColumnOf(doc, label, part) ==
    FoldLeft(LAMBDA values, record : AddPart(label, part, values, record), <<>>, doc.records)

Sampled(s) == IF Len(s) > SampleLimit THEN SubSeq(s, 1, SampleLimit) ELSE s

\* The share of sampled values a field can take, and whether most need extraction.
PassOf(field, sample) ==
    LET good == {i \in DOMAIN sample : Coerce(field, sample[i]).ok}
        extracted == {i \in good : Coerce(field, sample[i]).reformatted} IN
    IF sample = <<>> THEN [rate |-> 0, reformatted |-> FALSE]
    ELSE [rate |-> (Unit * Cardinality(good)) \div Len(sample),
          reformatted |-> 2 * Cardinality(extracted) > Cardinality(good)]

MeasuredPass(doc, field, label, part) ==
    PassOf(field, Sampled(ColumnOf(doc, label, part)))

\* A column is composite when every sampled cell splits into as many parts.
StablePartCount(doc, label) ==
    LET rows == SelectSeq(doc.records, LAMBDA r : label \in DOMAIN r)
        sample == Sampled(rows)
        counts == {Len(sample[i][label].parts) : i \in DOMAIN sample} IN
    IF Len(sample) >= 2 /\ Cardinality(counts) = 1 /\ counts \subseteq 2..MaxParts
    THEN CHOOSE n \in counts : TRUE ELSE 0

NameEvidence(field, label) ==
    LET nn == IF Decisive[label].field = field.name THEN Decisive[label].score ELSE 0 IN
    IF Similarity[label][field.name] >= nn THEN Similarity[label][field.name] ELSE nn

\* A column against a field, whole or, where its label names its parts, by part.
Weighed(field, label, part, pass) ==
    LET evidence == IF part = Whole THEN NameEvidence(field, label)
                    ELSE Similarity[Words[label][part]][field.name] IN
    [field |-> field.name, label |-> label, part |-> part,
     similarity |-> Similarity[label][field.name],
     pass |-> pass.rate, reformatted |-> part # Whole \/ pass.reformatted,
     confidence |-> 55 * evidence + 45 * pass.rate]

Candidate(doc, field, label, part) ==
    Weighed(field, label, part, MeasuredPass(doc, field, label, part))

PartsOf(doc, label) ==
    {k \in 1..Len(Words[label]) : StablePartCount(doc, label) = Len(Words[label])}

\* Mutant: the least confident candidate goes first.
LessConfident(a, b) == a.confidence < b.confidence

MoreConfident(a, b) == a.confidence > b.confidence

\* A column against a field: whole, then by its parts.
OfPair(doc, label, field) ==
    [k \in 1..(1 + Cardinality(PartsOf(doc, label))) |-> Candidate(doc, field, label, k - 1)]

AddGood(floor, found, c) ==
    IF c.pass > 0 /\ c.confidence >= floor THEN Append(found, c) ELSE found

AddPair(doc, floor, label, found, field) ==
    FoldLeft(LAMBDA out, c : AddGood(floor, out, c), found, OfPair(doc, label, field))

AddLabel(doc, floor, found, label) ==
    FoldLeft(LAMBDA out, field : AddPair(doc, floor, label, out, field), found, Fields)

\* Every pair above the floor, best first; of equals, in the order they were met.
Scored(doc, floor) ==
    SortBy(MoreConfident,
           FoldLeft(LAMBDA out, label : AddLabel(doc, floor, out, label), <<>>, doc.labels))

\* A part must clear a higher bar, and a field with a weak validator is matched
\* by name and never by part.
Passes(c) ==
    /\ c.confidence >= IF c.part = Whole THEN Accept ELSE PartAccept
    /\ Weak(FieldOf(c.field).kind) => c.part = Whole /\ 10 * c.similarity >= 7 * Unit

\* A field has one slot; a column goes to one field, or its parts to one each.  (No
\* label here continues another with a "#", which would also stand in its way.)
Clash(c, d) ==
    \/ c.field = d.field
    \/ c.label = d.label /\ (c.part = d.part \/ Whole \in {c.part, d.part})

\* Mutant: a part does not stand in the way of the whole column.
TakeBySlot(taken, c) ==
    IF Passes(c) /\ \A i \in DOMAIN taken :
           taken[i].field # c.field /\ (taken[i].label # c.label \/ taken[i].part # c.part)
    THEN Append(taken, c) ELSE taken

Take(taken, c) ==
    IF Passes(c) /\ \A i \in DOMAIN taken : ~Clash(c, taken[i]) THEN Append(taken, c) ELSE taken

Accepted(candidates) == FoldLeft(Take, <<>>, candidates)

Entry(c) == [field |-> c.field, label |-> c.label, part |-> c.part,
             reformatted |-> c.reformatted, confidence |-> c.confidence]

Order(name) == CHOOSE i \in DOMAIN Fields : Fields[i].name = name
InSchemaOrder(a, b) == Order(a.field) < Order(b.field)

NoMapping == <<>>

\* A match without a field that identifies a property is no match.
MappingOf(taken) ==
    IF \E i \in DOMAIN taken : FieldOf(taken[i].field).identity
    THEN SortBy(InSchemaOrder, [i \in DOMAIN taken |-> Entry(taken[i])])
    ELSE NoMapping

InferMapping(doc) == MappingOf(Accepted(Scored(doc, Accept)))

Confidence(mapping) ==
    IF mapping = NoMapping THEN 0
    ELSE FoldLeft(LAMBDA n, e : n + e.confidence, 0, mapping) \div Len(mapping)

\* A pinned pair is scored by its name and its values; the column model has no say.
Pinned(field, label, pass) ==
    [field |-> field.name, label |-> label, part |-> Whole, reformatted |-> pass.reformatted,
     confidence |-> 55 * Similarity[label][field.name] + 45 * pass.rate]

EraseIf(s, hit) ==
    FoldLeft(LAMBDA kept, e : IF e \in hit THEN kept ELSE Append(kept, e), <<>>, s)

\* One decision of the operator: a field goes to a column, whole, or to none. A
\* column the document does not have leaves the field unmapped.
Pin(doc, mapping, name, label) ==
    LET rest == EraseIf(mapping, {e \in ToSet(mapping) : e.field = name})
        free == EraseIf(rest, {e \in ToSet(rest) : e.label = label}) IN
    IF label = "" \/ ~Contains(doc.labels, label) THEN rest
    ELSE Append(free, Pinned(FieldOf(name), label,
                                MeasuredPass(doc, FieldOf(name), label, Whole)))

PinNext(doc, overrides, mapping, name) ==
    IF name \in DOMAIN overrides THEN Pin(doc, mapping, name, overrides[name]) ELSE mapping

\* overrides is a map: its names come in their own order, NameOrder.
ApplyOverrides(doc, mapping, overrides, nameOrder) ==
    SortBy(InSchemaOrder,
           FoldLeft(LAMBDA m, name : PinNext(doc, overrides, m, name), mapping, nameOrder))

\* What Mapping::deserialize takes back.
Loads(mapping) ==
    \A i, j \in DOMAIN mapping : i # j =>
        /\ mapping[i].field # mapping[j].field
        /\ mapping[i].label # mapping[j].label \/ mapping[i].part # mapping[j].part

\* Whether a record has a value for an entry of the mapping.
Reads(record, e) ==
    /\ e.label \in DOMAIN record
    /\ LET value == PartOf(record[e.label], e.part) IN
       value # <<>> /\ Coerce(FieldOf(e.field), value[1]).ok

\* apply_mapping: the mean completeness of the records, in hundredths.
Rate(doc, mapping) ==
    IF mapping = NoMapping \/ doc.records = <<>> THEN 0
    ELSE (100 * Cardinality({p \in (DOMAIN doc.records) \X (DOMAIN mapping) :
                                Reads(doc.records[p[1]], mapping[p[2]])}))
             \div (Len(doc.records) * Len(mapping))
=============================================================================
