--------------------------- MODULE TrainingProofs ---------------------------
(* The session serves the models that are saved; the corpus keeps what it had; *)
(* and no column a harvest adds as one of no field is named like one: for      *)
(* every corpus, every harvest and every sequence of commands.                 *)
EXTENDS Training, FiniteSetTheorems, TLAPS

Versions == Nat \union {NoModel}
Pair == [columns : Versions, classifier : Versions]

\* What a shell has not loaded it cannot serve: a process that is down has nothing.
SessionInv ==
    /\ trained \in Nat /\ files \in Pair /\ shell \in Pair
    /\ pipeline = NoModel \/ pipeline \in Pair
    /\ files.classifier \in 0..trained
    /\ IF doing = "down" THEN pipeline = NoModel ELSE shell.classifier \in 0..trained
    /\ SessionServesSaved

LEMMA SessionInit == Init => SessionInv
  BY DEF Init, SessionInv, Pair, Versions, None, SessionServesSaved

LEMMA SessionNext == SessionInv /\ [Next]_vars => SessionInv'
<1> SUFFICES ASSUME SessionInv, [Next]_vars
             PROVE  SessionInv'
  OBVIOUS
<1> USE DEF SessionInv, Versions
\* Most steps leave the models alone and the process up.
<1>a. ASSUME UNCHANGED models, doing # "down", doing' # "down"
      PROVE  SessionInv'
  BY <1>a DEF models, SessionServesSaved
<1>d. ASSUME Down, UNCHANGED <<files, trained, elsewhere, retrained>>
      PROVE  SessionInv'
  BY <1>d DEF Down, None, Pair, SessionServesSaved
<1>1. CASE Start
  BY <1>1 DEF Start, SessionServesSaved
<1>2. CASE Ensure
  <2>1. files = [columns |-> files.columns, classifier |-> files.classifier]
    BY DEF Pair
  <2>2. pipeline' \in Pair /\ (~elsewhere => pipeline' = files)
    BY <1>2, <2>1 DEF Ensure, Pair, SessionServesSaved
  <2> QED
    BY <1>2, <2>2 DEF Ensure, SessionServesSaved
<1>3. CASE Stop
  BY <1>3, <1>d DEF Stop
<1>4. CASE TrainElsewhere
  <2>1. /\ trained' \in Nat /\ trained' = trained + 1
        /\ files' \in Pair /\ files'.classifier \in 0..trained'
    <3>1. PICK which \in {"columns", "classifier"} : files' = [files EXCEPT ![which] = trained']
      BY <1>4 DEF TrainElsewhere
    <3>2. CASE which = "columns"
      BY <1>4, <3>1, <3>2 DEF TrainElsewhere, Pair
    <3>3. CASE which = "classifier"
      BY <1>4, <3>1, <3>3 DEF TrainElsewhere, Pair
    <3> QED
      BY <3>1, <3>2, <3>3
  <2>2. /\ UNCHANGED <<doing, shell, pipeline>>
        /\ doing # "down" => elsewhere'
    BY <1>4 DEF TrainElsewhere
  <2>3. SessionServesSaved'
    BY <2>2 DEF SessionServesSaved
  <2>4. shell.classifier \in 0..trained => shell.classifier \in 0..trained'
    BY <2>1
  <2> QED
    BY <2>1, <2>2, <2>3, <2>4
<1>5. CASE HarvestColumns \/ WriteLine \/ Written \/ HarvestDocs \/ TrainingFails
  BY <1>5, <1>a DEF HarvestColumns, WriteLine, Written, HarvestDocs, TrainingFails
<1>6. CASE TrainColumnsThrows \/ TrainThrows
  BY <1>6, <1>d DEF TrainColumnsThrows, TrainThrows
<1>7. CASE TrainColumns
  <2>1. /\ trained' \in Nat /\ files' \in Pair /\ files'.columns = trained'
        /\ trained' = trained + 1 /\ files'.classifier = files.classifier
    BY <1>7 DEF TrainColumns, Pair
  <2>2. shell' \in Pair /\ shell'.columns = trained' /\ shell'.classifier = shell.classifier
    BY <1>7, <2>1 DEF TrainColumns, Pair
  <2>3. CASE pipeline = NoModel
    BY <1>7, <2>1, <2>2, <2>3 DEF TrainColumns, SessionServesSaved
  <2>4. CASE pipeline # NoModel
    <3>1. pipeline' = [pipeline EXCEPT !.columns = trained'] /\ pipeline' \in Pair
      BY <1>7, <2>1, <2>4 DEF TrainColumns, Pair
    <3>2. pipeline = files => pipeline' = files'
      BY <1>7, <3>1 DEF TrainColumns
    <3> QED
      BY <1>7, <2>1, <2>2, <2>4, <3>1, <3>2 DEF TrainColumns, SessionServesSaved
  <2> QED
    BY <2>3, <2>4
<1>8. CASE Train
  <2>1. /\ trained' \in Nat /\ files' \in Pair /\ shell' = shell
        /\ files'.columns = files.columns
        /\ files'.classifier = trained' /\ trained' = trained + 1 /\ retrained'
    BY <1>8 DEF Train, Pair
  <2>2. CASE pipeline = NoModel
    BY <1>8, <2>1, <2>2 DEF Train, SessionServesSaved
  <2>3. CASE pipeline # NoModel
    <3>1. pipeline' = [pipeline EXCEPT !.classifier = trained'] /\ pipeline' \in Pair
      BY <1>8, <2>1, <2>3 DEF Train, Pair
    <3>2. pipeline = files => pipeline' = files'
      BY <1>8, <3>1 DEF Train
    <3> QED
      BY <1>8, <2>1, <2>3, <3>1, <3>2 DEF Train, SessionServesSaved
  <2> QED
    BY <2>2, <2>3
<1>9. CASE UNCHANGED vars
  BY <1>9 DEF vars, models, SessionServesSaved
<1> QED
  BY <1>1, <1>2, <1>3, <1>4, <1>5, <1>6, <1>7, <1>8, <1>9 DEF Next

\* Training.tla's SessionServesSaved.  Wherever a model was trained in this process
\* and whenever the pipeline was made, what the pipeline matches and classifies with
\* and every column model is what is saved; the shell's own classifier is it exactly
\* until the session trains a classifier (commands.cpp 446-452, main.cpp 401-410).
THEOREM ServesSaved == Spec => []SessionServesSaved
<1>1. Init => SessionInv
  BY SessionInit
<1>2. SessionInv /\ [Next]_vars => SessionInv'
  BY SessionNext
<1>3. SessionInv => SessionServesSaved
  BY DEF SessionInv
<1> QED
  BY <1>1, <1>2, <1>3, PTL DEF Spec
-----------------------------------------------------------------------------
(* Folds.                                                                    *)

TakesColumn(dataset, taken, column) == TakeColumn(taken, dataset, column)
TakesDataset(any, found, dataset) == TakeDataset(found, dataset)
TakesAnswer(any, found, answer) == TakeAnswer(found, answer)
AddsNew(any, merged, example) == AddNew(merged, example)

Taking == INSTANCE FoldProofs WITH Op <- TakesColumn
Sampling == INSTANCE FoldProofs WITH Op <- TakesDataset
Answering == INSTANCE FoldProofs WITH Op <- TakesAnswer
Merging == INSTANCE FoldProofs WITH Op <- AddsNew

\* A dataset's columns are taken one by one, and each leaves what was taken in T.
LEMMA TakenType ==
    ASSUME NEW T, NEW dataset, NEW out, [none |-> 0, out |-> out] \in T,
           NEW C, Columns(dataset) \in Seq(C),
           \A taken \in T, c \in C : TakeColumn(taken, dataset, c) \in T
    PROVE  Taken(dataset, out) \in T
<1>1. Taken(dataset, out) = Taking!Folded(dataset, [none |-> 0, out |-> out], Columns(dataset))
  BY Zenon DEF Taken, TakesColumn, FoldLeft, MapThenFoldSet, Max,
     Taking!Folded, Taking!FoldLeft, Taking!MapThenFoldSet, Taking!Max
<1>2. Taking!Keeps(dataset, T, C)
  BY Zenon DEF Taking!Keeps, TakesColumn
<1> QED
  BY <1>1, <1>2, Taking!FoldType, Zenon

\* So are the datasets of an answer, and the answers.
LEMMA TakeAnswerType ==
    ASSUME NEW T, NEW found \in T, NEW answer, NEW D, Entries(answer) \in Seq(D),
           \A f \in T, d \in D : TakeDataset(f, d) \in T
    PROVE  TakeAnswer(found, answer) \in T
<1>1. TakeAnswer(found, answer) = Sampling!Folded({}, found, Entries(answer))
  BY Zenon DEF TakeAnswer, TakesDataset, FoldLeft, MapThenFoldSet, Max,
     Sampling!Folded, Sampling!FoldLeft, Sampling!MapThenFoldSet, Sampling!Max
<1>2. Sampling!Keeps({}, T, D)
  BY Zenon DEF Sampling!Keeps, TakesDataset
<1>3. Sampling!Folded({}, found, Entries(answer)) \in T
  BY <1>2, Sampling!FoldType
<1> QED
  BY <1>1, <1>3, Zenon

LEMMA TakeAnswersType ==
    ASSUME NEW T, NEW none \in T, NEW A, NEW answers \in Seq(A),
           \A f \in T, a \in A : TakeAnswer(f, a) \in T
    PROVE  FoldLeft(TakeAnswer, none, answers) \in T
<1>1. FoldLeft(TakeAnswer, none, answers) = Answering!Folded({}, none, answers)
  BY Zenon DEF TakesAnswer, FoldLeft, MapThenFoldSet, Max,
     Answering!Folded, Answering!FoldLeft, Answering!MapThenFoldSet, Answering!Max
<1>2. Answering!Keeps({}, T, A)
  BY Zenon DEF Answering!Keeps, TakesAnswer
<1>3. Answering!Folded({}, none, answers) \in T
  BY <1>2, Answering!FoldType
<1> QED
  BY <1>1, <1>3, Zenon

\* Merging goes through the examples one by one.
LEMMA MergeRuns ==
    ASSUME NEW S, NEW s \in Seq(S)
    PROVE  \E run : /\ run[0] = <<>> /\ run[Len(s)] = FoldLeft(AddNew, <<>>, s)
                    /\ \A k \in 1..Len(s) : run[k] = AddNew(run[k - 1], s[k])
<1>1. FoldLeft(AddNew, <<>>, s) = Merging!Folded({}, <<>>, s)
  BY Zenon DEF AddsNew, FoldLeft, MapThenFoldSet, Max,
     Merging!Folded, Merging!FoldLeft, Merging!MapThenFoldSet, Merging!Max
<1>2. Merging!Keeps({}, Seq(S), S) /\ <<>> \in Seq(S)
  BY DEF Merging!Keeps, AddsNew, AddNew
<1>3. PICK run : Merging!IsRun({}, <<>>, s, run)
  BY <1>2, Merging!FoldRuns, Zenon
<1> QED
  BY <1>1, <1>3, Zenon DEF Merging!IsRun, AddsNew

LEMMA MinOfPart ==
    ASSUME NEW n \in Nat, NEW s \in SUBSET (1..n), s # {}
    PROVE  Min(s) \in s /\ \A i \in s : Min(s) <= i
<1>1. Min(s) = Merging!Min(s)
  BY Zenon DEF Min, Merging!Min
<1> QED
  BY <1>1, Merging!MinOfPart, Zenon

-----------------------------------------------------------------------------
(* What a harvest finds.                                                     *)

Datasets == UNION {UNION {ToSet(answers[i]) : i \in DOMAIN answers} : answers \in Answers}
AllColumns == UNION {ToSet(dataset.columns) : dataset \in Datasets}

Sure(name) == ~TouchesLexicon(name) /\ ExactHit(name) = NoField

\* The examples a harvest may make: those of no field have a name that is sure.
Learned ==
    {e \in [domain : {dataset.domain : dataset \in Datasets},
            label  : ToSet(Fields) \union {"none"},
            name   : {c.field : c \in AllColumns} \union {c.display : c \in AllColumns}] :
        e.label = "none" => Sure(e.name)}

LEMMA HitType == \A name : ExactHit(name) \in ToSet(Fields) \union {NoField}
<1> SUFFICES ASSUME NEW name
             PROVE  ExactHit(name) \in ToSet(Fields) \union {NoField}
  OBVIOUS
<1> DEFINE hits == {i \in DOMAIN Fields : name \in Words[Fields[i]]}
<1>1. CASE hits = {}
  BY <1>1 DEF ExactHit
<1>2. CASE hits # {}
  <2>1. Len(Fields) \in Nat /\ DOMAIN Fields = 1..Len(Fields)
    BY FieldsAssumption
  <2>2. hits \in SUBSET (1..Len(Fields))
    BY <2>1
  <2>3. Min(hits) \in hits
    <3> HIDE DEF hits
    <3> QED
      BY <1>2, <2>1, <2>2, MinOfPart
  <2>4. ExactHit(name) = Fields[Min(hits)]
    BY <1>2 DEF ExactHit
  <2> QED
    BY <2>3, <2>4 DEF ToSet
<1> QED
  BY <1>1, <1>2

\* A name that is no hit and no near miss is sure.
LEMMA WeakType ==
    ASSUME NEW field, NEW display
    PROVE  LET weak == WeakLabel(field, display) IN
           /\ weak.field \in ToSet(Fields) \union {NoField}
           /\ weak.field = NoField /\ ~weak.masked => Sure(field) /\ Sure(display)
<1> DEFINE named == {ExactHit(field), ExactHit(display)} \ {NoField}
<1>1. named \subseteq ToSet(Fields)
  BY HitType
<1>2. CASE Cardinality(named) = 2
  BY <1>2 DEF WeakLabel
<1>3. CASE Cardinality(named) = 1
  <2>1. named # {}
    BY <1>3, FS_EmptySet
  <2>2. (CHOOSE f \in named : TRUE) \in named
    BY <2>1
  <2>3. WeakLabel(field, display).field = CHOOSE f \in named : TRUE
    BY <1>3 DEF WeakLabel
  <2>4. WeakLabel(field, display).field # NoField
    BY <1>1, <2>2, <2>3
  <2> QED
    BY <1>1, <2>2, <2>3, <2>4
<1>4. CASE Cardinality(named) \notin {1, 2}
  <2>1. named = {}
    <3> SUFFICES ASSUME named # {}
                 PROVE  FALSE
      OBVIOUS
    <3>1. PICK x, y : named = {x, y}
      OBVIOUS
    <3>2. CASE x = y
      BY <1>4, <3>1, <3>2, FS_Singleton
    <3>3. CASE x # y
      <4>1. IsFiniteSet({x}) /\ Cardinality({x}) = 1
        BY FS_Singleton
      <4>2. {x, y} = {x} \union {y} /\ y \notin {x}
        BY <3>3
      <4>3. Cardinality({x} \union {y}) = 2
        BY <4>1, <4>2, FS_AddElement
      <4> QED
        BY <1>4, <3>1, <4>2, <4>3
    <3> QED
      BY <3>2, <3>3
  <2>2. WeakLabel(field, display) =
          [field |-> NoField, masked |-> TouchesLexicon(field) \/ TouchesLexicon(display)]
    BY <1>4 DEF WeakLabel
  <2>3. ExactHit(field) = NoField /\ ExactHit(display) = NoField
    BY <2>1
  <2>4. ~WeakLabel(field, display).masked => Sure(field) /\ Sure(display)
    <3>1. WeakLabel(field, display).masked = (TouchesLexicon(field) \/ TouchesLexicon(display))
      BY <2>2
    <3> QED
      BY <2>3, <3>1, Zenon DEF Sure
  <2>5. WeakLabel(field, display).field = NoField
    BY <2>2
  <2> QED
    BY <2>4, <2>5
<1> QED
  BY <1>2, <1>3, <1>4

LEMMA ValidatorType ==
    ASSUME NEW values \in Seq(DOMAIN Fits)
    PROVE  ValidatorLabel(Sample(values)) \in ToSet(Fields) \union {NoField}
<1> DEFINE sample == Sample(values)
           claims == {f \in UNION {Fits[sample[i]] : i \in DOMAIN sample} :
                        \A i \in DOMAIN sample : f \in Fits[sample[i]]}
<1>1. sample \in Seq(DOMAIN Fits)
  BY Merging!ShortType DEF Sample, MaxValues
<1>2. claims \subseteq ToSet(Fields)
  BY <1>1, FieldsAssumption
<1>3. Cardinality(claims) = 1 => (CHOOSE f \in claims : TRUE) \in claims
  BY FS_EmptySet
<1>4. ValidatorLabel(sample) =
        IF Len(sample) >= 2 /\ Cardinality(claims) = 1 THEN CHOOSE f \in claims : TRUE ELSE NoField
  BY DEF ValidatorLabel
<1> HIDE DEF claims, sample
<1> QED
  BY <1>2, <1>3, <1>4 DEF sample

\* A column adds an example with a field's label, or one of no field with a sure name.
LEMMA ColumnType ==
    ASSUME NEW taken \in [none : Nat, out : Seq(Learned)],
           NEW dataset \in Datasets, NEW column \in ToSet(dataset.columns),
           column.values \in Seq(DOMAIN Fits)
    PROVE  TakeColumn(taken, dataset, column) \in [none : Nat, out : Seq(Learned)]
<1> DEFINE weak == WeakLabel(column.field, column.display)
           label == IF weak.field # NoField THEN weak.field
                    ELSE ValidatorLabel(Sample(column.values))
<1>1. /\ weak.field \in ToSet(Fields) \union {NoField}
      /\ weak.field = NoField /\ ~weak.masked => Sure(column.field) /\ Sure(column.display)
  BY WeakType
<1>2. label \in ToSet(Fields) \union {NoField}
  BY <1>1, ValidatorType
<1>3. column \in AllColumns
  BY DEF AllColumns
<1>4. ASSUME NEW l \in ToSet(Fields) \union {"none"},
             l = "none" => Sure(column.field) /\ Sure(column.display)
      PROVE  Example(dataset, column, l) \in Learned
  BY <1>3, <1>4 DEF Example, Learned
<1>5. CASE label # NoField
  <2>1. Example(dataset, column, label) \in Learned
    BY <1>2, <1>4, <1>5, FieldsAssumption
  <2>2. TakeColumn(taken, dataset, column) =
          [taken EXCEPT !.out = Append(@, Example(dataset, column, label))]
    BY <1>5 DEF TakeColumn
  <2> HIDE DEF label
  <2>3. Append(taken.out, Example(dataset, column, label)) \in Seq(Learned)
    BY <2>1
  <2> QED
    BY <2>2, <2>3
<1>6. CASE label = NoField /\ ~weak.masked /\ taken.none < MaxNone
  <2>1. Sure(column.field) /\ Sure(column.display)
    BY <1>1, <1>6
  <2>2. Example(dataset, column, "none") \in Learned
    BY <1>4, <2>1
  <2>3. TakeColumn(taken, dataset, column) =
          [none |-> taken.none + 1, out |-> Append(taken.out, Example(dataset, column, "none"))]
    BY <1>6 DEF TakeColumn
  <2>4. Append(taken.out, Example(dataset, column, "none")) \in Seq(Learned)
    BY <2>2
  <2> QED
    BY <2>3, <2>4
<1>7. CASE label = NoField /\ ~(~weak.masked /\ taken.none < MaxNone)
  BY <1>7 DEF TakeColumn
<1> QED
  BY <1>5, <1>6, <1>7

Findings == [seen : SUBSET ({dataset.domain : dataset \in Datasets} \X {dataset.id : dataset \in Datasets}),
             out  : Seq(Learned)]

LEMMA DatasetType ==
    ASSUME NEW found \in Findings, NEW dataset \in Datasets
    PROVE  TakeDataset(found, dataset) \in Findings
<1>0. PICK answers \in Answers : dataset \in UNION {ToSet(answers[i]) : i \in DOMAIN answers}
  BY DEF Datasets
<1>1. PICK i \in DOMAIN answers : dataset \in ToSet(answers[i])
  BY <1>0
<1>2. answers[i] \in ToSet(answers)
  BY DEF ToSet
<1>3. /\ dataset.columns \in Seq(ToSet(dataset.columns))
      /\ \A column \in ToSet(dataset.columns) : column.values \in Seq(DOMAIN Fits)
  BY <1>1, <1>2, CorpusAssumption DEF IsAnswer
<1>4. Columns(dataset) \in Seq(ToSet(dataset.columns))
  BY <1>3, Merging!ShortType DEF Columns, MaxColumns
<1>5. Taken(dataset, found.out) \in [none : Nat, out : Seq(Learned)]
  <2> DEFINE T == [none : Nat, out : Seq(Learned)]
  <2>1. [none |-> 0, out |-> found.out] \in T
    BY DEF Findings
  <2>2. \A taken \in T, c \in ToSet(dataset.columns) : TakeColumn(taken, dataset, c) \in T
    BY <1>3, ColumnType
  <2> HIDE DEF T
  <2>3. Taken(dataset, found.out) \in T
    BY <1>4, <2>1, <2>2, TakenType
  <2> QED
    BY <2>3 DEF T
<1> QED
  BY <1>5 DEF TakeDataset, Findings

\* What a harvest finds is learned from the answers.
LEMMA HarvestedType ==
    ASSUME NEW answers \in Answers
    PROVE  Harvested(answers) \in Seq(Learned)
<1>1. \A i \in DOMAIN answers : ToSet(answers[i]) \subseteq Datasets
  BY DEF Datasets
<1>2. ASSUME NEW found \in Findings, NEW answer \in ToSet(answers)
      PROVE  TakeAnswer(found, answer) \in Findings
  <2>1. answer \in Seq(ToSet(answer)) /\ ToSet(answer) \subseteq Datasets
    BY <1>1, CorpusAssumption DEF IsAnswer, ToSet
  <2>2. Entries(answer) \in Seq(Datasets)
    BY <2>1, FieldsAssumption, Merging!ShortType DEF Entries
  <2> QED
    BY <2>2, DatasetType, TakeAnswerType
<1>3. [seen |-> {}, out |-> <<>>] \in Findings
  BY DEF Findings
<1>4. FoldLeft(TakeAnswer, [seen |-> {}, out |-> <<>>], answers) \in Findings
  <2>1. answers \in Seq(ToSet(answers))
    BY CorpusAssumption
  <2> QED
    BY <1>2, <1>3, <2>1, TakeAnswersType
<1> QED
  BY <1>4 DEF Harvested, Findings

-----------------------------------------------------------------------------
(* What a merge keeps.                                                       *)

Distinct(c) == \A i, j \in DOMAIN c : Key(c[i]) = Key(c[j]) => i = j

\* Of a corpus with each column once and new examples, every line of the corpus stays.
LEMMA MergeKeeps ==
    ASSUME NEW S, NEW old \in Seq(S), NEW new \in Seq(S), Distinct(old)
    PROVE  LET merged == FoldLeft(AddNew, <<>>, old \o new) IN
           /\ merged \in Seq(S) /\ Distinct(merged)
           /\ ToSet(old) \subseteq ToSet(merged)
           /\ new # <<>> => merged # <<>>
<1> DEFINE s == old \o new
           n == Len(s)
<1>1. /\ s \in Seq(S) /\ n \in Nat /\ n = Len(old) + Len(new)
      /\ \A k \in 1..Len(old) : s[k] = old[k]
  OBVIOUS
<1> HIDE DEF s
<1>2. PICK run : /\ run[0] = <<>> /\ run[n] = FoldLeft(AddNew, <<>>, s)
                 /\ \A k \in 1..n : run[k] = AddNew(run[k - 1], s[k])
  BY <1>1, MergeRuns
<1> DEFINE From(k) == \A i \in DOMAIN run[k] : \E j \in 1..k : run[k][i] = s[j]
           Has(k) == \A j \in 1..k : j <= Len(old) => \E i \in DOMAIN run[k] : run[k][i] = s[j]
           G == {k \in 0..n : /\ run[k] \in Seq(S) /\ Distinct(run[k])
                              /\ From(k) /\ Has(k)
                              /\ k > 0 => run[k] # <<>>}
<1>3. 0 \in G
  <2>1. run[0] \in Seq(S) /\ DOMAIN run[0] = {} /\ 1..0 = {}
    BY <1>2
  <2>2. Distinct(run[0]) /\ From(0) /\ Has(0)
    BY <2>1 DEF Distinct
  <2> QED
    BY <1>1, <2>1, <2>2
<1>4. ASSUME NEW k \in 1..n, k - 1 \in G
      PROVE  k \in G
  <2> DEFINE out == run[k - 1]
  <2>1. /\ out \in Seq(S) /\ Distinct(out) /\ From(k - 1) /\ Has(k - 1)
        /\ run[k] = AddNew(out, s[k]) /\ s[k] \in S
    BY <1>1, <1>2, <1>4
  <2>2. CASE \E i \in DOMAIN out : Key(out[i]) = Key(s[k])
    <3>1. run[k] = out /\ out # <<>>
      BY <2>1, <2>2 DEF AddNew
    <3>2. k > Len(old)
      <4> SUFFICES ASSUME k <= Len(old)
                   PROVE  FALSE
        BY <1>1
      <4>1. PICK i \in DOMAIN out : Key(out[i]) = Key(s[k])
        BY <2>2
      <4>2. PICK j \in 1..(k - 1) : out[i] = s[j]
        BY <2>1
      <4>3. j \in DOMAIN old /\ k \in DOMAIN old /\ old[j] = s[j] /\ old[k] = s[k]
        BY <1>1, <1>4
      <4>4. j = k
        BY <4>1, <4>2, <4>3 DEF Distinct
      <4> QED
        BY <4>4
    <3>3. From(k)
      <4>1. 1..(k - 1) \subseteq 1..k
        BY <1>1
      <4> QED
        BY <2>1, <3>1, <4>1
    <3>4. Has(k)
      <4>1. \A j \in 1..k : j <= Len(old) => j \in 1..(k - 1)
        BY <1>1, <3>2
      <4> QED
        BY <2>1, <3>1, <4>1
    <3> QED
      BY <2>1, <3>1, <3>3, <3>4
  <2>3. CASE ~\E i \in DOMAIN out : Key(out[i]) = Key(s[k])
    <3>1. run[k] = Append(out, s[k])
      BY <2>1, <2>3 DEF AddNew
    <3>2. /\ run[k] \in Seq(S) /\ run[k] # <<>> /\ Len(run[k]) = Len(out) + 1
          /\ \A i \in DOMAIN out : run[k][i] = out[i]
          /\ DOMAIN run[k] = DOMAIN out \union {Len(out) + 1}
          /\ run[k][Len(out) + 1] = s[k]
      BY <2>1, <3>1
    <3>3. Distinct(run[k])
      BY <2>1, <2>3, <3>2 DEF Distinct
    <3>4. From(k)
      BY <2>1, <3>2
    <3>5. Has(k)
      BY <2>1, <3>2
    <3> QED
      BY <3>2, <3>3, <3>4, <3>5
  <2> QED
    BY <2>2, <2>3
<1>5. n \in G
  <2> HIDE DEF G, n
  <2> QED
    BY <1>1, <1>3, <1>4, Merging!ReachesLast
<1>6. ToSet(old) \subseteq ToSet(run[n])
  <2> SUFFICES ASSUME NEW j \in DOMAIN old
               PROVE  old[j] \in ToSet(run[n])
    BY DEF ToSet
  <2>1. j \in 1..n /\ j <= Len(old) /\ s[j] = old[j]
    BY <1>1
  <2> QED
    BY <1>5, <2>1 DEF ToSet
<1> QED
  BY <1>1, <1>2, <1>5, <1>6 DEF s

-----------------------------------------------------------------------------
(* The corpus.                                                               *)

LinesOf(c) == IF c = NoCorpus THEN <<>> ELSE c
AllLines == ShippedLines \union FoundLines

\* While the corpus is written again, the lines in the file and those to come hold
\* what it had, each column once; else it holds that, or a line in it is torn.
CorpusInv ==
    /\ left \in Seq(AllLines)
    /\ corpus = NoCorpus \/ corpus \in Seq(AllLines \union {Torn})
    /\ doing = "writing" =>
          /\ LinesOf(corpus) \in Seq(AllLines)
          /\ Distinct(LinesOf(corpus) \o left)
          /\ kept \subseteq ToSet(LinesOf(corpus) \o left)
          /\ left = <<>> => corpus # NoCorpus
    /\ doing # "writing" =>
          /\ left = <<>> /\ Distinct(Readable)
          /\ HarvestKeeps

LEMMA NoTornLine == Torn \notin AllLines /\ NoCorpus \notin Seq(AllLines \union {Torn})
BY CorpusAssumption DEF AllLines, ShippedLines, IsCorpus

\* A corpus without a torn line is read as it is, one with such a line as none.
LEMMA ReadsWhole ==
    ASSUME corpus \in Seq(AllLines)
    PROVE  Readable = corpus /\ corpus # NoCorpus /\ Torn \notin ToSet(corpus)
<1>1. Torn \notin ToSet(corpus)
  BY NoTornLine DEF ToSet
<1>2. corpus # NoCorpus
  <2>1. corpus \in Seq(AllLines \union {Torn})
    OBVIOUS
  <2> QED
    BY <2>1, NoTornLine
<1> QED
  BY <1>1, <1>2 DEF Readable

\* Of a corpus with each column once, so has every beginning of it.
LEMMA DistinctPart ==
    ASSUME NEW S, NEW a \in Seq(S), NEW b \in Seq(S), Distinct(a \o b)
    PROVE  Distinct(a)
BY DEF Distinct

\* A line moves from those to come to those in the file.
LEMMA LineMoves ==
    ASSUME CorpusInv, doing = "writing", left # <<>>
    PROVE  /\ Line \in Seq(AllLines) /\ Tail(left) \in Seq(AllLines)
           /\ Line \o Tail(left) = LinesOf(corpus) \o left
           /\ Line # <<>> /\ Line # NoCorpus
<1>1. left \in Seq(AllLines) /\ left[1] \in AllLines
  BY DEF CorpusInv
<1>2. LinesOf(corpus) \in Seq(AllLines)
  BY DEF CorpusInv
<1>3. Line = Append(LinesOf(corpus), left[1])
  <2>1. Append(<<>>, left[1]) = <<left[1]>>
    OBVIOUS
  <2> QED
    BY <2>1, Zenon DEF Line, LinesOf
<1> DEFINE written == LinesOf(corpus)
           l == left
<1> HIDE DEF written, l
<1>4. Append(written, l[1]) \o Tail(l) = written \o l
  BY <1>1, <1>2 DEF written, l
<1>5. Line \in Seq(AllLines) /\ Line # <<>> /\ Tail(left) \in Seq(AllLines)
  BY <1>1, <1>2, <1>3
<1>6. Line # NoCorpus
  <2>1. Line \in Seq(AllLines \union {Torn})
    BY <1>5
  <2> QED
    BY <2>1, NoTornLine
<1> QED
  BY <1>3, <1>4, <1>5, <1>6 DEF written, l

LEMMA CorpusInit == Init => CorpusInv
<1> SUFFICES ASSUME Init
             PROVE  CorpusInv
  OBVIOUS
<1>1. doing = "down" /\ left = <<>> /\ kept = Lines /\ corpus \in Shipped
  BY DEF Init
<1>2. CASE corpus = NoCorpus
  BY <1>1, <1>2 DEF CorpusInv, Readable, Lines, HarvestKeeps, Distinct
<1>3. CASE corpus # NoCorpus
  <2>1. IsCorpus(corpus) /\ ToSet(corpus) \subseteq ShippedLines
    BY <1>1, <1>3, CorpusAssumption DEF ShippedLines
  <2>2. corpus \in Seq(AllLines)
    BY <2>1 DEF IsCorpus, AllLines
  <2>3. Readable = corpus /\ corpus \in Seq(AllLines \union {Torn})
    BY <2>2, ReadsWhole
  <2>4. Distinct(Readable)
    BY <2>1, <2>3 DEF IsCorpus, Distinct
  <2>5. kept = ToSet(corpus)
    BY <1>1, <1>3 DEF Lines
  <2> QED
    BY <1>1, <2>3, <2>4, <2>5 DEF CorpusInv, HarvestKeeps
<1> QED
  BY <1>2, <1>3

LEMMA CorpusStops == CorpusInv /\ Stop => CorpusInv'
<1> SUFFICES ASSUME CorpusInv, Stop
             PROVE  CorpusInv'
  OBVIOUS
<1>1. doing # "down" /\ doing' = "down" /\ left' = <<>>
  BY DEF Stop, Down
<1>2. CASE doing # "writing"
  <2>1. corpus' = corpus /\ kept' = kept
    BY <1>2 DEF Stop
  <2>2. Readable' = Readable
    BY <2>1 DEF Readable
  <2> QED
    BY <1>1, <1>2, <2>1, <2>2 DEF CorpusInv, HarvestKeeps, Distinct
<1>3. ASSUME doing = "writing",
             corpus' \in Seq(AllLines), Distinct(corpus'), kept' \subseteq ToSet(corpus')
      PROVE  CorpusInv'
  <2>1. Torn \notin ToSet(corpus') /\ corpus' \in Seq(AllLines \union {Torn}) /\ corpus' # NoCorpus
    <3>1. Torn \notin ToSet(corpus')
      BY <1>3, NoTornLine DEF ToSet
    <3>2. corpus' \in Seq(AllLines \union {Torn})
      BY <1>3
    <3> QED
      BY <3>1, <3>2, NoTornLine
  <2>2. Readable' = corpus'
    BY <2>1 DEF Readable
  <2> QED
    BY <1>1, <1>3, <2>1, <2>2 DEF CorpusInv, HarvestKeeps, Distinct, AllLines, ShippedLines, FoundLines
<1>4. CASE doing = "writing" /\ corpus' = corpus
  <2>1. CASE corpus = NoCorpus
    <3>1. left # <<>> /\ kept' = {}
      BY <1>4, <2>1 DEF CorpusInv, Stop
    <3>2. Readable' = <<>>
      BY <1>4, <2>1 DEF Readable
    <3> QED
      BY <1>1, <1>4, <2>1, <3>1, <3>2 DEF CorpusInv, HarvestKeeps, Distinct
  <2>2. CASE corpus # NoCorpus
    <3>1. corpus \in Seq(AllLines) /\ left \in Seq(AllLines) /\ Distinct(corpus \o left)
      BY <1>4, <2>2 DEF CorpusInv, LinesOf
    <3>2. Distinct(corpus)
      BY <3>1, DistinctPart
    <3>3. kept' \subseteq ToSet(corpus)
      <4>1. CASE left = <<>>
        <5>1. kept' = kept
          BY <1>4, <4>1 DEF Stop
        <5>2. kept \subseteq ToSet(corpus \o left) /\ corpus \o left = corpus
          BY <1>4, <2>2, <3>1, <4>1 DEF CorpusInv, LinesOf
        <5> QED
          BY <5>1, <5>2
      <4>2. CASE left # <<>>
        BY <1>4, <2>2, <4>2 DEF Stop
      <4> QED
        BY <4>1, <4>2
    <3>4. Distinct(corpus') /\ kept' \subseteq ToSet(corpus')
      BY <1>4, <3>2, <3>3
    <3> QED
      BY <1>3, <1>4, <3>1, <3>4
  <2> QED
    BY <2>1, <2>2
<1>5. CASE doing = "writing" /\ left # <<>> /\ corpus' = Line /\ corpus' # corpus
  <2>1. /\ Line \in Seq(AllLines) /\ Tail(left) \in Seq(AllLines)
        /\ Line \o Tail(left) = LinesOf(corpus) \o left
        /\ Line # NoCorpus
    BY <1>5, LineMoves
  <2>2. Distinct(Line \o Tail(left))
    BY <1>5, <2>1 DEF CorpusInv
  <2>3. Distinct(Line)
    BY <2>1, <2>2, DistinctPart
  <2>4. kept' \subseteq ToSet(Line)
    BY <1>5, <2>1 DEF Stop
  <2> QED
    BY <1>3, <1>5, <2>1, <2>3, <2>4
<1>6. CASE /\ doing = "writing" /\ left # <<>>
           /\ corpus' = Append(SubSeq(Line, 1, Len(Line) - 1), Torn)
  <2> DEFINE part == SubSeq(Line, 1, Len(Line) - 1)
  <2>1. Line \in Seq(AllLines) /\ Line # <<>>
    BY <1>6, LineMoves
  <2>2. part \in Seq(AllLines)
    BY <2>1, Merging!ShortType
  <2> HIDE DEF part
  <2>3. corpus' \in Seq(AllLines \union {Torn}) /\ Torn \in ToSet(corpus')
    <3>1. corpus' = Append(part, Torn)
      BY <1>6 DEF part
    <3>2. part \in Seq(AllLines \union {Torn})
      BY <2>2
    <3> QED
      BY <3>1, <3>2 DEF ToSet
  <2>4. corpus' # NoCorpus
    BY <2>3, NoTornLine
  <2>5. Readable' = <<>>
    BY <2>3, <2>4 DEF Readable
  <2>6. kept' = {}
    BY <1>6, <2>3, <2>4 DEF Stop
  <2>7. (corpus \in Seq(AllLines \union {Torn}))'
    BY <2>3 DEF AllLines, ShippedLines, FoundLines
  <2> QED
    BY <1>1, <2>5, <2>6, <2>7 DEF CorpusInv, HarvestKeeps, Distinct, AllLines, ShippedLines, FoundLines
<1> QED
  BY <1>2, <1>4, <1>5, <1>6 DEF Stop

LEMMA CorpusStep == CorpusInv /\ Next => CorpusInv'
<1> SUFFICES ASSUME CorpusInv, Next
             PROVE  CorpusInv'
  OBVIOUS
<1>1. CASE Stop
  BY <1>1, CorpusStops
<1>2. CASE HarvestColumns
  <2>1. PICK answers \in Answers :
           /\ Harvested(answers) # <<>>
           /\ left' = Merge(Harvested(answers))
    BY <1>2 DEF HarvestColumns
  <2>2. doing # "writing" /\ doing' = "writing" /\ corpus' = NoCorpus /\ kept' = kept
    BY <1>2 DEF HarvestColumns
  <2>3. Harvested(answers) \in Seq(AllLines)
    BY HarvestedType DEF AllLines, FoundLines, ToSet
  <2>4. Readable \in Seq(AllLines) /\ Distinct(Readable) /\ kept \subseteq ToSet(Readable)
    <3>1. corpus = NoCorpus \/ corpus \in Seq(AllLines \union {Torn})
      BY DEF CorpusInv
    <3>2. Readable \in Seq(AllLines)
      BY <3>1 DEF Readable, ToSet
    <3> QED
      BY <2>2, <3>2 DEF CorpusInv, HarvestKeeps
  <2>5. /\ left' \in Seq(AllLines) /\ Distinct(left') /\ left' # <<>>
        /\ ToSet(Readable) \subseteq ToSet(left')
    BY <2>1, <2>3, <2>4, MergeKeeps DEF Merge
  <2>6. LinesOf(corpus') = <<>> /\ <<>> \o left' = left'
    BY <2>2, <2>5 DEF LinesOf
  <2> QED
    BY <2>2, <2>4, <2>5, <2>6 DEF CorpusInv, AllLines, ShippedLines, FoundLines, Distinct, LinesOf
<1>3. CASE WriteLine
  <2>1. /\ doing = "writing" /\ left # <<>> /\ doing' = doing /\ kept' = kept
        /\ corpus' = Line /\ left' = Tail(left)
    BY <1>3 DEF WriteLine, models
  <2>2. /\ Line \in Seq(AllLines) /\ Tail(left) \in Seq(AllLines)
        /\ Line \o Tail(left) = LinesOf(corpus) \o left
        /\ Line # NoCorpus
    BY <2>1, LineMoves
  <2>3. LinesOf(corpus') = Line
    BY <2>1, <2>2 DEF LinesOf
  <2>4. /\ Distinct(LinesOf(corpus') \o left')
        /\ kept' \subseteq ToSet(LinesOf(corpus') \o left')
    BY <2>1, <2>2, <2>3 DEF CorpusInv
  <2>5. corpus' \in Seq(AllLines \union {Torn})
    BY <2>1, <2>2
  <2> QED
    BY <2>1, <2>2, <2>3, <2>4, <2>5 DEF CorpusInv, AllLines, ShippedLines, FoundLines, Distinct, LinesOf
<1>4. CASE Written
  <2>1. /\ doing = "writing" /\ left = <<>> /\ doing' = "idle" /\ kept' = ToSet(corpus)
        /\ corpus' = corpus /\ left' = left /\ corpus # NoCorpus
    BY <1>4 DEF Written, CorpusInv
  <2>2. corpus \in Seq(AllLines) /\ Distinct(corpus \o left)
    BY <2>1 DEF CorpusInv, LinesOf
  <2>3. Distinct(corpus) /\ Readable = corpus
    BY <2>1, <2>2, DistinctPart, ReadsWhole
  <2>4. Readable' = Readable
    BY <2>1 DEF Readable
  <2> QED
    BY <2>1, <2>2, <2>3, <2>4 DEF CorpusInv, HarvestKeeps, Distinct
<1>5. ASSUME corpus' = corpus, kept' = kept, left' = left,
             doing = "writing" <=> doing' = "writing"
      PROVE  CorpusInv'
  <2>1. Readable' = Readable
    BY <1>5 DEF Readable
  <2> QED
    BY <1>5, <2>1 DEF CorpusInv, HarvestKeeps, Distinct, LinesOf, AllLines, ShippedLines, FoundLines
<1>6. CASE TrainColumnsThrows \/ TrainThrows
  <2>1. /\ corpus' = corpus /\ kept' = kept /\ left' = <<>>
        /\ doing = "idle" /\ doing' = "down"
    BY <1>6 DEF TrainColumnsThrows, TrainThrows, Down
  <2>2. left' = left
    BY <2>1 DEF CorpusInv
  <2> QED
    BY <1>5, <2>1, <2>2
<1>7. CASE Start \/ Ensure \/ TrainElsewhere \/ HarvestDocs \/ TrainColumns \/ Train \/ TrainingFails
  <2>1. CASE Start
    BY <1>5, <2>1 DEF Start, corpora
  <2>2. CASE Ensure \/ TrainElsewhere \/ TrainColumns \/ Train \/ TrainingFails
    <3>1. UNCHANGED <<doing, corpora>>
      BY <2>2, Zenon DEF Ensure, TrainElsewhere, TrainColumns, Train, TrainingFails
    <3>2. corpus' = corpus /\ kept' = kept /\ left' = left /\ doing' = doing
      BY <3>1 DEF corpora
    <3> QED
      BY <1>5, <3>2
  <2>3. CASE HarvestDocs
    BY <1>5, <2>3 DEF HarvestDocs
  <2> QED
    BY <1>7, <2>1, <2>2, <2>3
<1> QED
  BY <1>1, <1>2, <1>3, <1>4, <1>6, <1>7 DEF Next

LEMMA CorpusAlways == Spec => []CorpusInv
<1>1. CorpusInv /\ UNCHANGED vars => CorpusInv'
  <2> SUFFICES ASSUME CorpusInv, UNCHANGED vars
               PROVE  CorpusInv'
    OBVIOUS
  <2>1. Readable' = Readable
    BY DEF Readable, vars
  <2> QED
    BY <2>1 DEF vars, CorpusInv, HarvestKeeps, Distinct, LinesOf, AllLines, ShippedLines, FoundLines
<1> QED
  BY <1>1, CorpusInit, CorpusStep, PTL DEF Spec

\* Training.tla's HarvestKeeps.  Whatever is harvested, and wherever the process ends,
\* a session that is not writing the corpus finds in it what the last harvest left.
THEOREM HarvestsAdd == Spec => []HarvestKeeps
<1>1. CorpusInv => HarvestKeeps
  BY DEF CorpusInv, HarvestKeeps
<1> QED
  BY <1>1, CorpusAlways, PTL

\* Training.tla's NoneIsSure.  What a merge, a rewrite or a crash makes of the corpus,
\* its lines are lines it shipped with or lines a harvest labelled, and those that
\* a harvest labelled with no field are neither named like one nor nearly.
THEOREM NoneNamesNoField == Spec => []NoneIsSure
<1>1. CorpusInv => NoneIsSure
  <2> SUFFICES ASSUME CorpusInv, NEW e \in ToSet(Readable) \ ShippedLines, e.label = "none"
               PROVE  ~TouchesLexicon(e.name) /\ ExactHit(e.name) = NoField
    BY DEF NoneIsSure
  <2>1. corpus \in Seq(AllLines \union {Torn}) /\ Torn \notin ToSet(corpus) /\ e \in ToSet(corpus)
    BY DEF CorpusInv, Readable, ToSet
  <2>2. e \in AllLines
    BY <2>1 DEF ToSet
  <2>3. PICK answers \in Answers : e \in ToSet(Harvested(answers))
    BY <2>2 DEF AllLines, FoundLines
  <2>4. e \in Learned
    BY <2>3, HarvestedType DEF ToSet
  <2> QED
    BY <2>4 DEF Learned, Sure
<1> QED
  BY <1>1, CorpusAlways, PTL
=============================================================================
