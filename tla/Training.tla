------------------------------ MODULE Training ------------------------------
(* The two models, what they are trained on, and the shell that uses them:     *)
(* commands::harvest, train, train_columns and harvest_docs (app/commands.cpp) *)
(* and ShellState (app/main.cpp).  A model is the number of its training.  The *)
(* corpus of columns is removed and written again line by line; the process    *)
(* may die between two lines and inside one.                                   *)
EXTENDS Harvest

CONSTANTS
    Shipped,        \* corpora a checkout may begin with, NoCorpus among them
    Answers,        \* what the portals may answer a harvest
    Held,           \* the domains split_by_domain holds out
    Kinds,          \* the classes of documents
    DocFloor,       \* documents a classifier needs (8 in the code)
    MaxDocs,        \* bound on the documents of a class
    NoCorpus,       \* no corpus file
    NoModel,        \* no model, or no file of one
    Torn,           \* a line that cannot be parsed
    MaxCommands     \* bound on starts and commands

VARIABLES
    doing,          \* "down", "idle" or "writing"
    corpus,         \* the lines of corpus.jsonl, or NoCorpus
    left,           \* the lines still to be written
    documents,      \* class -> how many documents the classifier's corpus has of it
    files,          \* the saved models: [columns, classifier]
    shell,          \* ShellState's models: [columns, classifier]
    pipeline,       \* the pipeline's, or NoModel before the first command that needs one
    trained,        \* how many models were trained
    commands,       \* how many starts and commands there were
    kept,           \* the examples a harvest that ended left in the corpus (history)
    elsewhere,      \* another process saved a model since this one read them (history)
    retrained       \* this session saved a classifier (history)

vars == <<doing, corpus, left, documents, files, shell, pipeline, trained, commands,
          kept, elsewhere, retrained>>
corpora == <<corpus, left, documents, kept>>
models == <<files, shell, pipeline, trained, elsewhere, retrained>>

Lines == IF corpus = NoCorpus THEN {} ELSE ToSet(corpus)

None == [columns |-> NoModel, classifier |-> NoModel]

\* A classifier is always there, or the shell does not start.
Init ==
    /\ doing = "down" /\ corpus \in Shipped /\ left = <<>>
    /\ documents \in [Kinds -> 0..MaxDocs]
    /\ files \in [columns : {NoModel, 0}, classifier : {0}]
    /\ shell = None /\ pipeline = NoModel
    /\ trained = 0 /\ commands = 0 /\ kept = Lines
    /\ elsewhere = FALSE /\ retrained = FALSE

Command == commands < MaxCommands /\ commands' = commands + 1

\* The shell reads both models once; its own classifier never changes again.
Start ==
    /\ doing = "down" /\ doing' = "idle" /\ Command
    /\ shell' = files /\ elsewhere' = FALSE /\ retrained' = FALSE
    /\ UNCHANGED <<corpora, files, pipeline, trained>>

\* Mutant: the pipeline is made without the column model.
EnsureBare ==
    /\ doing = "idle" /\ pipeline = NoModel /\ Command
    /\ pipeline' = [columns |-> NoModel, classifier |-> files.classifier]
    /\ UNCHANGED <<doing, corpora, files, shell, trained, elsewhere, retrained>>

\* The first command on the store makes the pipeline: the classifier from its file,
\* the column model from the shell.
Ensure ==
    /\ doing = "idle" /\ pipeline = NoModel /\ Command
    /\ pipeline' = [columns |-> shell.columns, classifier |-> files.classifier]
    /\ UNCHANGED <<doing, corpora, files, shell, trained, elsewhere, retrained>>

Key(e) == <<e.domain, e.name>>
AddNew(merged, e) ==
    IF \E i \in DOMAIN merged : Key(merged[i]) = Key(e) THEN merged ELSE Append(merged, e)

\* What harvest writes has a column of a domain once, and so has the corpus in data/.
IsCorpus(c) ==
    /\ c \in Seq(ToSet(c)) /\ Torn \notin ToSet(c)
    /\ \A i, j \in DOMAIN c : Key(c[i]) = Key(c[j]) => i = j

IsAnswer(answer) ==
    /\ answer \in Seq(ToSet(answer))
    /\ \A dataset \in ToSet(answer) :
          /\ dataset.columns \in Seq(ToSet(dataset.columns))
          /\ \A column \in ToSet(dataset.columns) : column.values \in Seq(DOMAIN Fits)

ShippedLines == UNION {ToSet(c) : c \in Shipped \ {NoCorpus}}
FoundLines == UNION {ToSet(Harvested(answers)) : answers \in Answers}

ASSUME CorpusAssumption ==
    /\ \A c \in Shipped \ {NoCorpus} : IsCorpus(c)
    /\ \A answers \in Answers :
          answers \in Seq(ToSet(answers)) /\ \A answer \in ToSet(answers) : IsAnswer(answer)
    /\ Torn \notin FoundLines /\ NoCorpus \notin Seq(ShippedLines \union FoundLines \union {Torn})

\* A corpus that is missing or has an unreadable line reads as none at all.
Readable == IF corpus = NoCorpus THEN <<>> ELSE IF Torn \in ToSet(corpus) THEN <<>> ELSE corpus

\* Mutant: the new examples come first.
MergeNewFirst(examples) == FoldLeft(AddNew, <<>>, examples \o Readable)

\* What is there comes first: of two examples of one column of a domain it stays.
Merge(examples) == FoldLeft(AddNew, <<>>, Readable \o examples)

\* A harvest that found something removes the corpus and begins to write it again.
HarvestColumns ==
    /\ doing = "idle" /\ doing' = "writing" /\ Command
    /\ \E answers \in Answers :
          /\ Harvested(answers) # <<>>
          /\ left' = Merge(Harvested(answers))
    /\ corpus' = NoCorpus
    /\ UNCHANGED <<documents, kept, models>>

Line == IF corpus = NoCorpus THEN <<left[1]>> ELSE Append(corpus, left[1])

WriteLine ==
    /\ doing = "writing" /\ left # <<>>
    /\ corpus' = Line /\ left' = Tail(left)
    /\ UNCHANGED <<doing, documents, commands, kept, models>>

Written ==
    /\ doing = "writing" /\ left = <<>> /\ doing' = "idle"
    /\ kept' = ToSet(corpus)
    /\ UNCHANGED <<corpus, left, documents, commands, models>>

\* Documents are only added, each to the class it was asked for and under its own name.
HarvestDocs ==
    /\ doing = "idle" /\ Command
    /\ \E found \in [Kinds -> 0..MaxDocs] :
          /\ \E k \in Kinds : found[k] > 0
          /\ documents' = [k \in Kinds |-> documents[k] + found[k]]
          /\ \A k \in Kinds : documents'[k] <= MaxDocs
    /\ UNCHANGED <<doing, corpus, left, kept, models>>

Down == doing' = "down" /\ shell' = None /\ pipeline' = NoModel /\ left' = <<>>

Examples(held) == {e \in ToSet(Readable) : (e.domain \in Held) = held}
Classes == {e.label : e \in Examples(FALSE)}
Trainable == Cardinality(Classes) >= 2

\* Training throws, and ends the shell, on a corpus that cannot be read or has fewer
\* than two classes to learn.
TrainColumnsThrows ==
    /\ doing = "idle" /\ Command
    /\ ~Trainable
    /\ Down
    /\ UNCHANGED <<corpus, documents, kept, files, trained, elsewhere, retrained>>

Corpus == FoldFunction(+, 0, documents)

\* A document is held out and predicted from the others, so that the only one of
\* its class is always misread; four fifths must be right.
MayBeAccurate ==
    LET right == FoldFunction(LAMBDA n, sum : sum + IF n > 1 THEN n ELSE 0, 0, documents) IN
    10 * right >= 8 * Corpus

\* A model that does badly on what it was not taught is not saved.
TrainingFails ==
    /\ doing = "idle" /\ Command
    /\ Trainable \/ Corpus >= DocFloor
    /\ UNCHANGED <<doing, corpora, models>>

\* Half of the held-out fields right takes one it was taught.
MayPass == \E e \in Examples(TRUE) : e.label \in Classes \ {"none"}

\* One that passes is saved; then the pipeline and the shell take it.
TrainColumns ==
    /\ doing = "idle" /\ Command /\ Trainable /\ MayPass
    /\ trained' = trained + 1
    /\ files' = [files EXCEPT !.columns = trained']
    /\ shell' = [shell EXCEPT !.columns = trained']
    /\ pipeline' = IF pipeline = NoModel THEN NoModel ELSE [pipeline EXCEPT !.columns = trained']
    /\ UNCHANGED <<doing, corpora, elsewhere, retrained>>

\* A classifier that is accurate enough is saved and takes its place in the pipeline,
\* if there is one; the shell's own, which align, watch and crawl use, stays what it was.
Train ==
    /\ doing = "idle" /\ Command /\ Corpus >= DocFloor /\ MayBeAccurate
    /\ trained' = trained + 1
    /\ files' = [files EXCEPT !.classifier = trained']
    /\ pipeline' = IF pipeline = NoModel THEN NoModel ELSE [pipeline EXCEPT !.classifier = trained']
    /\ retrained' = TRUE
    /\ UNCHANGED <<doing, corpora, shell, elsewhere>>

TrainThrows ==
    /\ doing = "idle" /\ Command /\ Corpus < DocFloor /\ Down
    /\ UNCHANGED <<corpus, documents, kept, files, trained, elsewhere, retrained>>

\* `datadiver train` or `train-columns` in another process.
TrainElsewhere ==
    /\ Command
    /\ trained' = trained + 1
    /\ \E which \in {"columns", "classifier"} : files' = [files EXCEPT ![which] = trained']
    /\ elsewhere' = (doing # "down" \/ elsewhere)
    /\ UNCHANGED <<doing, corpora, shell, pipeline, retrained>>

\* The process ends or dies; in the middle of a line, part of it or all of it but its
\* end is in the file.
Stop ==
    /\ doing # "down" /\ Down
    /\ \/ UNCHANGED corpus
       \/ doing = "writing" /\ left # <<>>
          /\ corpus' \in {Line, Append(SubSeq(Line, 1, Len(Line) - 1), Torn)}
    /\ kept' = IF doing # "writing" \/ (left = <<>> /\ corpus' = corpus) THEN kept
               ELSE IF corpus' = NoCorpus THEN {}
               ELSE IF Torn \in ToSet(corpus') THEN {} ELSE kept \intersect ToSet(corpus')
    /\ UNCHANGED <<documents, files, trained, commands, elsewhere, retrained>>

Next ==
    \/ Start \/ Ensure \/ Stop \/ TrainElsewhere
    \/ HarvestColumns \/ WriteLine \/ Written \/ HarvestDocs
    \/ TrainColumns \/ TrainColumnsThrows \/ Train \/ TrainThrows \/ TrainingFails

Spec == Init /\ [][Next]_vars
-----------------------------------------------------------------------------
\* A harvest adds to the corpus: every example one left there is still there, with
\* the label it had, unless the process died in the middle of a rewrite.
HarvestKeeps == doing # "writing" => kept \subseteq ToSet(Readable)

\* The column model everywhere in the session and both models of its pipeline are the
\* saved ones, wherever in this process they were trained and whenever the pipeline
\* was made.  The shell's own classifier, which align, watch and crawl use, is the
\* saved one until the session trains a classifier, and not after that.
SessionServesSaved ==
    doing # "down" /\ ~elsewhere =>
        /\ shell.columns = files.columns
        /\ pipeline = NoModel \/ pipeline = files
        /\ shell.classifier = files.classifier <=> ~retrained

\* README.md: "exact lexicon hits as labels, near-misses masked".  A column that a
\* harvest teaches as one of no field is not named like one.
NoneIsSure ==
    \A e \in ToSet(Readable) \ ShippedLines :
        e.label = "none" => ~TouchesLexicon(e.name) /\ ExactHit(e.name) = NoField
=============================================================================
