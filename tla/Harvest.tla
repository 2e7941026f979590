------------------------------ MODULE Harvest -------------------------------
(* harvest::run (engine/harvest.cpp): labelled columns from what the portals   *)
(* answer.  A dataset is [domain, id, plausible, columns, served]; a column is *)
(* [field, display, values] with the values its sampled rows hold.  Names are  *)
(* compared by their slugs; a column the portal keeps for itself has none.     *)
EXTENDS Integers, FiniteSets, SequencesExt

CONSTANTS
    Fields,         \* the names of the fields, in the registry's order
    Words,          \* field -> its name and synonyms
    Overlaps,       \* pairs of a name and a word, of four letters or more, one in the other
    Fits,           \* value -> the strongly validated fields it passes for
    NoField,
    Unnamed,        \* a display name that is empty
    PerQuery,       \* datasets_per_query
    MaxNone         \* max_none_per_dataset

\* "none" is what a column of no field is labelled, and no field of data/schema.json.
ASSUME FieldsAssumption ==
    /\ Fields \in Seq(ToSet(Fields)) /\ {NoField, "none"} \intersect ToSet(Fields) = {}
    /\ Fits \in [DOMAIN Fits -> SUBSET ToSet(Fields)]
    /\ PerQuery \in Nat /\ MaxNone \in Nat

MaxColumns == 64
MaxValues == 3

\* The first field whose name or synonym a name is.
ExactHit(name) ==
    LET hits == {i \in DOMAIN Fields : name \in Words[Fields[i]]} IN
    IF hits = {} THEN NoField ELSE Fields[Min(hits)]

TouchesLexicon(name) == \E i \in DOMAIN Fields : \E word \in Words[Fields[i]] : <<name, word>> \in Overlaps

\* The two names of a column speak for one field, or for none.
WeakLabel(field, display) ==
    LET named == {ExactHit(field), ExactHit(display)} \ {NoField} IN
    CASE Cardinality(named) = 2 -> [field |-> NoField, masked |-> TRUE]
      [] Cardinality(named) = 1 -> [field |-> CHOOSE f \in named : TRUE, masked |-> FALSE]
      [] OTHER -> [field |-> NoField, masked |-> TouchesLexicon(field) \/ TouchesLexicon(display)]

\* The values name a field when they are two or more and only one takes them all.
ValidatorLabel(values) ==
    LET claims == {f \in UNION {Fits[values[i]] : i \in DOMAIN values} :
                      \A i \in DOMAIN values : f \in Fits[values[i]]} IN
    IF Len(values) >= 2 /\ Cardinality(claims) = 1 THEN CHOOSE f \in claims : TRUE ELSE NoField

Sample(values) == IF Len(values) > MaxValues THEN SubSeq(values, 1, MaxValues) ELSE values

Example(dataset, column, label) ==
    [domain |-> dataset.domain, label |-> label,
     name |-> IF column.display = Unnamed THEN column.field ELSE column.display]

\* Mutant: a near miss counts as a column of no field.
TakeUnmasked(taken, dataset, column) ==
    LET named == WeakLabel(column.field, column.display).field
        label == IF named # NoField THEN named
                 ELSE ValidatorLabel(Sample(column.values)) IN
    CASE label # NoField -> [taken EXCEPT !.out = Append(@, Example(dataset, column, label))]
      [] label = NoField /\ taken.none < MaxNone ->
            [none |-> taken.none + 1, out |-> Append(taken.out, Example(dataset, column, "none"))]
      [] OTHER -> taken

\* A column is labelled by its names, else by its values; a near miss the values do
\* not settle is left out, and of the rest only so many per dataset are kept.
TakeColumn(taken, dataset, column) ==
    LET weak == WeakLabel(column.field, column.display)
        label == IF weak.field # NoField THEN weak.field
                 ELSE ValidatorLabel(Sample(column.values)) IN
    CASE label # NoField -> [taken EXCEPT !.out = Append(@, Example(dataset, column, label))]
      [] label = NoField /\ ~weak.masked /\ taken.none < MaxNone ->
            [none |-> taken.none + 1, out |-> Append(taken.out, Example(dataset, column, "none"))]
      [] OTHER -> taken

Columns(dataset) ==
    IF Len(dataset.columns) > MaxColumns THEN SubSeq(dataset.columns, 1, MaxColumns)
    ELSE dataset.columns

Taken(dataset, out) ==
    FoldLeft(LAMBDA taken, c : TakeColumn(taken, dataset, c), [none |-> 0, out |-> out],
             Columns(dataset))

\* A dataset is sampled once, and only if its rows are served and hold a value.
TakeDataset(found, dataset) ==
    LET key == <<dataset.domain, dataset.id>>
        sampled == dataset.served /\ \E i \in DOMAIN dataset.columns :
                                        dataset.columns[i].values # <<>> IN
    IF ~dataset.plausible \/ key \in found.seen THEN found
    ELSE [seen |-> found.seen \union {key},
          out |-> IF sampled THEN Taken(dataset, found.out).out ELSE found.out]

Entries(answer) == IF Len(answer) > PerQuery THEN SubSeq(answer, 1, PerQuery) ELSE answer
TakeAnswer(found, answer) == FoldLeft(TakeDataset, found, Entries(answer))

\* The answers to the queries, in order; one that failed has no datasets.
Harvested(answers) == FoldLeft(TakeAnswer, [seen |-> {}, out |-> <<>>], answers).out
=============================================================================
