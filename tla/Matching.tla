------------------------------ MODULE Matching ------------------------------
(* One source's mapping over its life: learned, drifted, repaired, approved,   *)
(* reviewed (the mapping stage of Pipeline::ingest_model, commands::review and *)
(* Store::resolve_repair), with the matching of Schema done in full; and the   *)
(* watch of its url (watch_url, app/main.cpp), which keeps a mapping of its    *)
(* own.  Ingest models the rest of a run and what reaches the disk.            *)
EXTENDS Schema

CONSTANTS
    Documents,      \* what the source may serve
    NameOrder,      \* the field names as std::map orders them
    MaxRuns         \* bound on runs and reviews

ASSUME RunsAssumption == MaxRuns \in Nat
ASSUME OrderAssumption ==
    /\ NameOrder \in Seq(Names) /\ ToSet(NameOrder) = Names
    /\ \A i, j \in DOMAIN NameOrder : NameOrder[i] = NameOrder[j] => i = j

\* The names of a document's columns, and the words in them, have been compared with
\* the fields; the cells of its rows are split, or are not.
ASSUME DocumentsAssumption ==
    \A doc \in Documents :
        /\ IsSequence(doc.labels) /\ IsSequence(doc.records)
        /\ \A label \in ToSet(doc.labels) :
              /\ label \in DOMAIN Similarity \intersect DOMAIN Decisive
              /\ Words[label] \in Seq(DOMAIN Similarity)

H == INSTANCE Heal

VARIABLES
    cached,         \* <<the document fetched last>>, or <<>>
    state,          \* the part of SourceState a mapping is judged by
    pending,        \* the candidates of repairs that wait for a decision
    ok,             \* whether the last step was a run that ended well (history)
    watched,        \* watch: <<the document its mapping was made for>>, or <<>>
    said,           \* watch: what it said of its last fetch
    runs            \* how many runs, reviews and looks there were

matchVars == <<cached, state, pending, ok, watched, said, runs>>

MatchInit ==
    /\ cached = <<>>
    /\ state = [mapping |-> NoMapping, overrides |-> <<>>, baseline |-> 0, good |-> 0]
    /\ pending = {}
    /\ ok = FALSE
    /\ watched = <<>> /\ said = "nothing"
    /\ runs = 0

\* What a confidence is in hundredths.
Percent(confidence) == confidence \div Unit

\* What each document suggests by itself, and the pairs a review of it offers.
Suggested == [doc \in Documents |-> InferMapping(doc)]
Offered == [doc \in Documents |-> Scored(doc, 50 * Unit)]
Matched == [doc \in Documents |-> ToSet(Accepted(Offered[doc]))]

Drifts(st, doc) ==
    H!Drifted(st.mapping # NoMapping, st.good, st.baseline, Rate(doc, st.mapping))

Repairs(st, doc, candidate) ==
    H!Acceptable(candidate # NoMapping, st.baseline, Percent(Confidence(candidate)),
                 Rate(doc, candidate))

\* Mutant: decisions count only when a mapping is learned.
DecidedOnce(st, doc, chosen) ==
    IF st.mapping = chosen THEN chosen ELSE ApplyOverrides(doc, chosen, st.overrides, NameOrder)

Decided(st, doc, chosen) ==
    IF st.overrides = <<>> THEN chosen ELSE ApplyOverrides(doc, chosen, st.overrides, NameOrder)

\* The end of a run whose mapping is settled, after so many good runs of it.
EndRun(st, doc, mapping, goodRuns) ==
    /\ ok' = (mapping # NoMapping)
    /\ state' = IF mapping = NoMapping THEN st
                ELSE [st EXCEPT !.mapping = mapping, !.good = goodRuns + 1,
                                !.baseline = H!UpdateBaseline(@, goodRuns, Rate(doc, mapping))]

\* The mapping in force is used while it fits, else what the document itself
\* suggests, unless that is too little to replace it.
Judge(st, doc, drifts, inferred) ==
    LET anew == drifts \/ st.mapping = NoMapping IN
    \/ /\ drifts /\ ~Repairs(st, doc, inferred)
       /\ pending' = pending \union {inferred}
       /\ ok' = FALSE /\ state' = st
    \/ /\ ~(drifts /\ ~Repairs(st, doc, inferred))
       /\ EndRun(st, doc, Decided(st, doc, IF anew THEN inferred ELSE st.mapping),
                 IF drifts \/ (anew /\ inferred # NoMapping) THEN 0 ELSE st.good)
       /\ UNCHANGED pending

\* A run of the source on a document, from the state st it has then.
RunOn(st, doc) ==
    /\ cached' = <<doc>>
    /\ Judge(st, doc, Drifts(st, doc), Suggested[doc])

Run == \E doc \in Documents :
    /\ runs < MaxRuns /\ runs' = runs + 1
    /\ RunOn(state, doc)
    /\ UNCHANGED <<watched, said>>

Decide(overrides, name, label) ==
    [n \in DOMAIN overrides \union {name} |-> IF n = name THEN label ELSE overrides[n]]

\* One candidate put to the operator: an accepted match that is not quite certain
\* may be refused, a pair held back may be matched anyway.
Answer(overrides, c, accepted, yes) ==
    CASE c.field \in DOMAIN overrides -> overrides
      [] c.field \notin DOMAIN overrides /\ accepted /\ c.confidence < 85 * Unit ->
            Decide(overrides, c.field, IF yes THEN c.label ELSE "")
      [] /\ c.field \notin DOMAIN overrides
         /\ ~accepted /\ yes /\ \A i \in DOMAIN state.mapping : state.mapping[i].field # c.field ->
            Decide(overrides, c.field, c.label)
      [] OTHER -> overrides

\* The decisions there are after all candidates of a document, in their order, when
\* these are the ones the operator says yes to.
Reviewed(doc, overrides, yes) ==
    FoldLeft(LAMBDA o, i : Answer(o, Offered[doc][i], Offered[doc][i] \in Matched[doc], i \in yes),
             overrides, [i \in DOMAIN Offered[doc] |-> i])

\* A review is about the document fetched last.  One that decides something saves the decisions and runs the source
\* again; where that fetch fails, the decisions stay.
Review ==
    /\ cached # <<>> /\ runs < MaxRuns /\ runs' = runs + 1
    /\ \E overrides \in {Reviewed(cached[1], state.overrides, yes) :
                             yes \in SUBSET DOMAIN Offered[cached[1]]} \ {state.overrides} :
          LET decided == [state EXCEPT !.overrides = overrides] IN
          \/ \E doc \in Documents : RunOn(decided, doc)
          \/ /\ state' = decided /\ ok' = FALSE
             /\ UNCHANGED <<cached, pending>>
    /\ UNCHANGED <<watched, said>>

\* An approved repair takes force and is judged afresh; no decision is applied to it.
Approve == \E candidate \in pending :
    /\ pending' = pending \ {candidate}
    /\ state' = [state EXCEPT !.mapping = candidate, !.good = 0]
    /\ ok' = FALSE
    /\ UNCHANGED <<cached, watched, said, runs>>

\* The old mapping reads less than six tenths of what it was made for.
Fell(before, now) == 10 * now < 6 * before

\* Mutant: what counts is what the new mapping reads.
CollapsesAnew(mapping, previous, doc) == Fell(Rate(previous, mapping), Rate(doc, Suggested[doc]))

Collapses(mapping, previous, doc) == Fell(Rate(previous, mapping), Rate(doc, mapping))

\* A look at the url: bytes that changed are matched afresh, whatever is said of
\* them, and the next ones are held against that.  (A repair is only printed.)
Watch == \E doc \in Documents :
    /\ runs < MaxRuns /\ runs' = runs + 1
    /\ watched' = <<doc>>
    /\ said' = CASE watched = <<>> -> "first"
                 [] watched = <<doc>> -> "unchanged"
                 [] watched \notin {<<>>, <<doc>>} /\ Collapses(Suggested[watched[1]], watched[1], doc) -> "drift"
                 [] OTHER -> "ok"
    /\ UNCHANGED <<cached, state, pending, ok>>

StopWatching ==
    /\ watched # <<>> /\ watched' = <<>> /\ said' = "nothing"
    /\ UNCHANGED <<cached, state, pending, ok, runs>>

MatchNext == Run \/ Review \/ Approve \/ Watch \/ StopWatching

MatchSpec == MatchInit /\ [][MatchNext]_matchVars
-----------------------------------------------------------------------------
\* schema.cpp: "Claiming a part rules out claiming the whole column, and the reverse",
\* and deserialize once "rejected the very mappings inference is now allowed to
\* produce, the first time they were reloaded".  What is in force or waits for
\* approval keeps the first, whatever was pinned, and can be read back.
WholeOrParts ==
    \A m \in pending \union {state.mapping} :
        Loads(m) /\ \A i, j \in DOMAIN m : i # j => ~Clash(m[i], m[j])

StandsOut(candidates, taken) ==
    \A c \in candidates : Passes(c) /\ c \notin taken =>
        \E t \in taken : Clash(c, t) /\ t.confidence >= c.confidence

\* The matching a document suggests is the best there is pair by pair: what it
\* leaves out stands against something at least as certain that it took.
MatchIsStable ==
    cached # <<>> => StandsOut(ToSet(Offered[cached[1]]), Matched[cached[1]])

\* A field is unmapped where the operator refused it or its column is missing.
InForce(doc, overrides, mapping, name) ==
    IF overrides[name] = "" \/ ~Contains(doc.labels, overrides[name])
    THEN \A e \in ToSet(mapping) : e.field # name
    ELSE \/ \E e \in ToSet(mapping) : e.field = name /\ e.label = overrides[name] /\ e.part = Whole
         \/ \E other \in DOMAIN overrides \ {name} : overrides[other] = overrides[name]

\* After a run that ended well every decision is in force: a refused field is not
\* mapped, a pinned one has its column where the document has it, unless another
\* pin of that column came after.
DecisionsInForce ==
    ok => \A name \in DOMAIN state.overrides :
              InForce(cached[1], state.overrides, state.mapping, name)

\* README.md: review's "answers persist".  A match the operator keeps is kept as it is.
KeptMatchesStay ==
    [][\A i \in DOMAIN state.mapping :
          LET e == state.mapping[i] IN
          (/\ e.field \in DOMAIN state'.overrides \ DOMAIN state.overrides
           /\ state'.overrides[e.field] = e.label
           /\ ok' /\ cached' = cached)
             => \E j \in DOMAIN state'.mapping :
                   state'.mapping[j].field = e.field /\ state'.mapping[j].part = e.part]_matchVars

\* Watching a url and running a source tell drift by the same measure: of a change
\* from one document to another, watch says drift exactly if a source that learned
\* its mapping from the first would.
WatchTellsDrift ==
    [][watched # <<>> /\ watched' \notin {<<>>, watched} =>
          LET mapping == Suggested[watched[1]]
              before == Rate(watched[1], mapping)
              learned == [mapping |-> mapping, overrides |-> <<>>,
                          baseline |-> H!UpdateBaseline(0, 0, before), good |-> 1] IN
          (said' = "drift") <=> Drifts(learned, watched'[1])]_matchVars
=============================================================================
