------------------------------ MODULE RunWaves ------------------------------
(* Pipeline::run_sources (engine/pipeline.cpp): the sources of one `run all`   *)
(* are divided into two waves; a pool of threads drains each wave through a    *)
(* shared atomic counter and is joined before the next wave starts.            *)
(*                                                                             *)
(* Sources are their positions in the argument.  What a run does to the store  *)
(* is module Ingest; what matters here is whether the run of a source whose    *)
(* URL is a template finds tracked properties to expand it with.               *)
EXTENDS Integers, FiniteSets

CONSTANTS
    N,              \* how many sources are run
    Parcels,        \* the sources whose URL contains {parcels}
    Templated,      \* those whose URL contains {parcels}, {streets} or {numbers}
    Threads         \* the threads argument, or 2 to 8 by the machine

Sources == 1..N
Workers == 1..Threads

ASSUME SizeAssumption == N \in Nat /\ Threads \in Nat \ {0}
ASSUME TemplateAssumption == Parcels \subseteq Templated /\ Templated \subseteq Sources

VARIABLES
    phase,          \* the wave being drained: "primary", "enrichment", or "done"
    next,           \* the counter of the wave
    job,            \* the source each worker is running, 0 when it has none
    read,           \* did the worker's run find its template's targets?
    left,           \* the workers that found the wave drained
    tracked,        \* does the store hold an event of some property?
    out             \* the result of each source

vars == <<phase, next, job, read, left, tracked, out>>

Wave(ph) == CASE ph = "primary"    -> Sources \ Parcels
              [] ph = "enrichment" -> Parcels
              [] OTHER             -> {}

\* The position of source i in its wave, in the order of the argument.
Position(i, ph) == Cardinality({j \in Wave(ph) : j < i})

\* The pool is never larger than the wave; a pool of one runs the wave in place.
Pool(ph) == {w \in Workers : w <= Cardinality(Wave(ph))}

Init ==
    /\ phase = "primary"
    /\ next = 0
    /\ job = [w \in Workers |-> 0]
    /\ read = [w \in Workers |-> FALSE]
    /\ left = {}
    /\ tracked \in BOOLEAN
    /\ out = [i \in Sources |-> "none"]

Free(w) == w \in Pool(phase) \ left /\ job[w] = 0

\* at = next++: the worker takes the source at that position ...
Claim(w) ==
    /\ Free(w)
    /\ next < Cardinality(Wave(phase))
    /\ \E i \in Wave(phase) :
         /\ Position(i, phase) = next
         /\ job' = [job EXCEPT ![w] = i]
         /\ read' = [read EXCEPT ![w] = i \in Templated => tracked]
    /\ next' = next + 1
    /\ UNCHANGED <<phase, left, tracked, out>>

\* Mutant: at > wave.size() ends the loop.
LeaveLate(w) ==
    /\ Free(w)
    /\ next > Cardinality(Wave(phase))
    /\ next' = next + 1
    /\ left' = left \cup {w}
    /\ UNCHANGED <<phase, job, read, tracked, out>>

\* ... or leaves the loop, its increment spent.
Leave(w) ==
    /\ Free(w)
    /\ next >= Cardinality(Wave(phase))
    /\ next' = next + 1
    /\ left' = left \cup {w}
    /\ UNCHANGED <<phase, job, read, tracked, out>>

\* run_source returns: a run without targets failed, another may have failed too,
\* and a good one stored what it found.
Finish(w) ==
    /\ job[w] # 0
    /\ \E result \in IF read[w] THEN {"done", "failed"} ELSE {"failed"} :
         /\ out' = [out EXCEPT ![job[w]] = result]
         /\ tracked' \in IF result = "done" THEN {tracked, TRUE} ELSE {tracked}
    /\ job' = [job EXCEPT ![w] = 0]
    /\ UNCHANGED <<phase, next, read, left>>

\* Mutants: one counter shared by both waves, and a wave started without the join.
JoinKeepsCounter ==
    /\ phase # "done"
    /\ left = Pool(phase)
    /\ phase' = IF phase = "primary" THEN "enrichment" ELSE "done"
    /\ left' = {}
    /\ UNCHANGED <<next, job, read, tracked, out>>

JoinEarly ==
    /\ phase # "done"
    /\ left # {}
    /\ phase' = IF phase = "primary" THEN "enrichment" ELSE "done"
    /\ next' = 0
    /\ left' = {}
    /\ UNCHANGED <<job, read, tracked, out>>

\* Every thread joined: the next wave, with a counter of its own.
Join ==
    /\ phase # "done"
    /\ left = Pool(phase)
    /\ phase' = IF phase = "primary" THEN "enrichment" ELSE "done"
    /\ next' = 0
    /\ left' = {}
    /\ UNCHANGED <<job, read, tracked, out>>

Returned == phase = "done" /\ UNCHANGED vars

Next == Join \/ Returned \/ \E w \in Workers : Claim(w) \/ Leave(w) \/ Finish(w)

Spec == Init /\ [][Next]_vars

\* Threads that can run do, and a source's run returns.
FairSpec == Spec /\ WF_vars(Join) /\ \A w \in Workers : WF_vars(Claim(w) \/ Leave(w) \/ Finish(w))
-----------------------------------------------------------------------------
TypeOK ==
    /\ phase \in {"primary", "enrichment", "done"}
    /\ next \in Nat
    /\ job \in [Workers -> 0..N]
    /\ read \in [Workers -> BOOLEAN]
    /\ left \subseteq Workers
    /\ tracked \in BOOLEAN
    /\ out \in [Sources -> {"none", "done", "failed"}]

Running(i) == \E w \in Workers : job[w] = i

\* A result, once in, is never written again, and no two threads are on one
\* source: run_sources runs each source once.
RunOnce ==
    /\ \A v, w \in Workers : job[v] = job[w] /\ job[v] # 0 => v = w
    /\ \A i \in Sources : Running(i) => out[i] = "none"

\* When run_sources returns, every source has its result: the shared counter
\* skips none of them.
NoneSkipped == phase = "done" => \A i \in Sources : out[i] # "none"

\* run_sources runs every source, and each of them once.
EachOnce == RunOnce /\ NoneSkipped

\* The {parcels} sources start after every other source has its result.
ParcelsWait ==
    \A i \in Parcels : Running(i) \/ out[i] # "none" =>
        \A j \in Sources \ Parcels : out[j] # "none"

\* run_sources returns.
Returns == <>(phase = "done")
=============================================================================
