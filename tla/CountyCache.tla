---------------------------- MODULE CountyCache -----------------------------
(* The worker's compiled county (cloud/src/worker.ts): runs that store what  *)
(* they fetched in a database (runSource), requests that compile the         *)
(* county's events or answer from the cached compile (compileCountyPayload), *)
(* and the table of properties that compiles fill.  Every database statement *)
(* and every bucket operation is a step of its own: requests and runs are    *)
(* handled by isolates that share nothing else.                              *)
EXTENDS EventWindow

CONSTANTS
  Callers,    \* requests and workflow steps that need the compiled county
  Events,     \* events that may be stored, numbered in the order of their dates
  Keys,       \* property keys of the county
  KeyOf,      \* KeyOf[e]: the property of event e
  Sources,
  SourceOf,   \* SourceOf[e]: the source event e comes from
  MaxRun,     \* bound on runs, numbered by startedAt
  RunOf,      \* RunOf[r]: the source run r reads
  EventLimit, \* EVENT_LIMIT
  LastEngine  \* bound on engine versions (abi), from 1

Runs == 1..MaxRun

ASSUME EventsAssumption ==
  /\ Events \subseteq Nat /\ IsFiniteSet(Events)
  /\ KeyOf \in [Events -> Keys] /\ SourceOf \in [Events -> Sources]
ASSUME BoundsAssumption ==
  /\ MaxRun \in Nat /\ RunOf \in [Runs -> Sources]
  /\ EventLimit \in Nat \ {0} /\ LastEngine \in Nat \ {0}

VARIABLES
  runs,    \* runs[r]: how far run r came, and the events of its document
  listed,  \* keys with a row of their own in the properties table
  events,  \* the events table
  table,   \* table[k]: the events k's row was compiled from, {} for a blank row
  cache,   \* compiled/<county>.json; abi 0 while there is none
  engine,  \* abi of the deployed engine
  call,    \* call[c]: the request of c, see Call
  answer   \* the answer given since the last question (history)

vars == <<runs, listed, events, table, cache, engine, call, answer>>

Taken(S) == Newest(S, EventLimit)
KeysOf(S) == {KeyOf[e] : e \in S}
Stamp == Cardinality(events)

RunStages == {"new", "store", "listed", "landed", "done", "dead"}
Run == [stage : RunStages, doc : SUBSET Events]
Trust == [Sources -> SUBSET Runs]
Compiled == [stamp : Nat, abi : 0..LastEngine, of : SUBSET Events, trust : Trust]
Steps == {"idle", "asked", "load", "trust", "persist"}
(* since: what was stored when the request read its stamp (history);         *)
(* of, trust: what the compile read; todo: rows it has still to write.       *)
Call == [step : Steps, since : SUBSET Events, stamp : Nat, abi : 1..LastEngine,
         of : SUBSET Events, trust : Trust, todo : SUBSET Keys]

NoTrust == [s \in Sources |-> {}]
Idle == [step |-> "idle", since |-> {}, stamp |-> 0, abi |-> 1, of |-> {},
         trust |-> NoTrust, todo |-> {}]
NoAnswer == [given |-> FALSE, shown |-> {}]

Init ==
  /\ runs = [r \in Runs |-> [stage |-> "new", doc |-> {}]]
  /\ listed = {} /\ events = {} /\ table = [k \in Keys |-> {}]
  /\ cache = [stamp |-> 0, abi |-> 0, of |-> {}, trust |-> NoTrust]
  /\ engine = 1
  /\ call = [c \in Callers |-> Idle] /\ answer = NoAnswer

-----------------------------------------------------------------------------
(* runSource                                                                 *)

InStage(r, stage) == runs[r].stage = stage
Reach(r, stage) == runs' = [runs EXCEPT ![r].stage = stage]
RunOnly == UNCHANGED <<table, cache, engine, call, answer>>

(* The fetch, and the run's row, written as unfinished: nothing reads it     *)
(* before it says ok.  Runs are numbered by startedAt, taken before their    *)
(* fetch: one that started first may store last.                             *)
CreateRun(r) ==
  /\ InStage(r, "new")
  /\ \E doc \in SUBSET {e \in Events : SourceOf[e] = RunOf[r]} :
       runs' = [runs EXCEPT ![r] = [stage |-> "store", doc |-> doc]]
  /\ RunOnly /\ UNCHANGED <<listed, events>>

ListProperties(r) ==
  /\ InStage(r, "store") /\ Reach(r, "listed")
  /\ listed' = listed \union KeysOf(runs[r].doc)
  /\ RunOnly /\ UNCHANGED events

LandEvents(r) ==
  /\ InStage(r, "listed") /\ Reach(r, "landed")
  /\ events' = events \union runs[r].doc
  /\ RunOnly /\ UNCHANGED listed

\* Mutant: a run claims success before its events land.
MarkDoneEarly(r) ==
  InStage(r, "listed") /\ Reach(r, "done") /\ RunOnly /\ UNCHANGED <<listed, events>>

MarkDone(r) ==
  InStage(r, "landed") /\ Reach(r, "done") /\ RunOnly /\ UNCHANGED <<listed, events>>

(* A statement throws or the isolate dies: the run's row never says ok.      *)
RunDies(r) ==
  /\ runs[r].stage \in {"store", "listed", "landed"} /\ Reach(r, "dead")
  /\ RunOnly /\ UNCHANGED <<listed, events>>

-----------------------------------------------------------------------------
(* compileCountyPayload                                                      *)

AtStep(c, step) == call[c].step = step
CompileOnly == UNCHANGED <<runs, events, engine>>
Goes == CompileOnly /\ UNCHANGED answer
Return(c, shown) ==
  /\ answer' = [given |-> TRUE, shown |-> shown]
  /\ call' = [call EXCEPT ![c] = Idle] /\ CompileOnly

(* countyStamp, and the abi of the isolate that serves the request.          *)
Ask(c) ==
  /\ AtStep(c, "idle")
  /\ call' = [call EXCEPT ![c] =
                [Idle EXCEPT !.step = "asked", !.since = events, !.stamp = Stamp,
                             !.abi = engine]]
  /\ answer' = NoAnswer
  /\ CompileOnly /\ UNCHANGED <<listed, table, cache>>

\* Mutant: an entry of the right engine is fresh.
FreshAnyStamp(entry, c) == entry.abi = call[c].abi
Fresh(entry, c) == entry.abi = call[c].abi /\ entry.stamp = call[c].stamp

AnswerFromCache(c) ==
  /\ AtStep(c, "asked") /\ Fresh(cache, c)
  /\ Return(c, Taken(cache.of))
  /\ UNCHANGED <<listed, table, cache>>

Miss(c) ==
  /\ AtStep(c, "asked") /\ ~Fresh(cache, c)
  /\ call' = [call EXCEPT ![c].step = "load"]
  /\ Goes /\ UNCHANGED <<listed, table, cache>>

(* loadCountyEvents; of is the whole table at that moment, the rows taken    *)
(* are Taken(of).                                                            *)
Load(c) ==
  /\ AtStep(c, "load") /\ events # {}
  /\ call' = [call EXCEPT ![c].step = "trust", ![c].of = events]
  /\ Goes /\ UNCHANGED <<listed, table, cache>>

NoEvents(c) ==
  /\ AtStep(c, "load") /\ events = {}
  /\ Return(c, {})
  /\ UNCHANGED <<listed, table, cache>>

(* The newest run of the source that ended well, {} for none.                *)
OkRuns(s) == {r \in Runs : RunOf[r] = s /\ InStage(r, "done")}
NewestRun(s) == {r \in OkRuns(s) : \A q \in OkRuns(s) : q <= r}
TrustIn(S) == [s \in Sources |-> {r \in NewestRun(s) : \E e \in S : SourceOf[e] = s}]

ReadTrust(c) ==
  /\ AtStep(c, "trust")
  /\ call' = [call EXCEPT ![c].step = "persist", ![c].trust = TrustIn(Taken(call[c].of)),
                          ![c].todo = KeysOf(Taken(call[c].of))]
  /\ Goes /\ UNCHANGED <<listed, table, cache>>

RowOf(S, k) == {e \in S : KeyOf[e] = k}

\* Mutant: persist's offset does not advance.
PersistRowAgain(c) ==
  /\ AtStep(c, "persist")
  /\ \E k \in call[c].todo :
       /\ table' = [table EXCEPT ![k] = RowOf(Taken(call[c].of), k)]
       /\ listed' = listed \union {k}
  /\ Goes /\ UNCHANGED <<cache, call>>

(* One upsert of persist.                                                    *)
PersistRow(c) ==
  /\ AtStep(c, "persist")
  /\ \E k \in call[c].todo :
       /\ table' = [table EXCEPT ![k] = RowOf(Taken(call[c].of), k)]
       /\ listed' = listed \union {k}
       /\ call' = [call EXCEPT ![c].todo = @ \ {k}]
  /\ Goes /\ UNCHANGED cache

\* Mutant: the stamp as it is when the entry is put.
EntryRestamped(c) == [stamp |-> Stamp, abi |-> call[c].abi, of |-> call[c].of,
                      trust |-> call[c].trust]
Entry(c) == [stamp |-> call[c].stamp, abi |-> call[c].abi, of |-> call[c].of,
             trust |-> call[c].trust]

\* Mutant: the entry is put before the rows are written.
PutCacheFirst(c) ==
  /\ AtStep(c, "persist")
  /\ cache' = Entry(c)
  /\ Return(c, Taken(call[c].of))
  /\ UNCHANGED <<listed, table>>

PutCache(c) ==
  /\ AtStep(c, "persist") /\ call[c].todo = {}
  /\ cache' = Entry(c)
  /\ Return(c, Taken(call[c].of))
  /\ UNCHANGED <<listed, table>>

(* The request exceeds its limits or an await of it rejects.                 *)
Drop(c) ==
  /\ ~AtStep(c, "idle")
  /\ call' = [call EXCEPT ![c] = Idle]
  /\ answer' = NoAnswer
  /\ CompileOnly /\ UNCHANGED <<listed, table, cache>>

(* A new engine; requests under way finish on the old one.                   *)
Deploy ==
  /\ engine < LastEngine /\ engine' = engine + 1
  /\ UNCHANGED <<runs, listed, events, table, cache, call, answer>>

-----------------------------------------------------------------------------
RunStep(r) ==
  \/ CreateRun(r) \/ ListProperties(r) \/ LandEvents(r)
  \/ MarkDone(r) \/ RunDies(r)

Answers(c) == AnswerFromCache(c) \/ NoEvents(c) \/ PutCache(c)
CallStep(c) == Miss(c) \/ Load(c) \/ ReadTrust(c) \/ PersistRow(c) \/ Answers(c)

Next ==
  \/ \E r \in Runs : RunStep(r)
  \/ \E c \in Callers : Ask(c) \/ CallStep(c) \/ Drop(c)
  \/ Deploy

Spec == Init /\ [][Next]_vars

(* A request under way goes on until it has answered or died.  Nothing says  *)
(* that another one comes, and runs and deployments need not go on.          *)
FairSpec == Spec /\ \A c \in Callers : WF_vars(CallStep(c))

-----------------------------------------------------------------------------
(* Properties                                                                *)

(* Every variable has its type.                                              *)
TypeOK ==
  /\ runs \in [Runs -> Run] /\ call \in [Callers -> Call]
  /\ listed \subseteq Keys /\ events \subseteq Events
  /\ answer \in [given : BOOLEAN, shown : SUBSET Events]
  /\ table \in [Keys -> SUBSET Events]
  /\ cache \in Compiled /\ engine \in 1..LastEngine

(* countyIsWarm for the deployed engine.                                     *)
Warm == cache.abi = engine /\ cache.stamp = Stamp

(* A warm county is compiled from every event stored: however requests and   *)
(* runs overlap, an entry is never stored under a stamp its events are       *)
(* behind (the order of countyStamp and loadCountyEvents).                   *)
WarmIsWhole == Warm => cache.of = events

(* A run marked done has its events and their property rows stored: the      *)
(* update at the end of runSource is the last write, wherever runs die.      *)
DoneMeansStored ==
  \A r \in Runs : InStage(r, "done") =>
    runs[r].doc \subseteq events /\ KeysOf(runs[r].doc) \subseteq listed

(* Whatever the cached compile shows has a filled row in the properties      *)
(* table, from that compile or another, whoever dropped or overtook whom.    *)
CachedMeansPersisted ==
  cache.abi # 0 => \A k \in KeysOf(Taken(cache.of)) : table[k] # {} /\ k \in listed

(* Every answer, cached or compiled, is the view of the events at one moment *)
(* between the question and the answer.                                      *)
View == INSTANCE CountyView WITH
  pending <- {c \in Callers : ~AtStep(c, "idle")},
  since <- [c \in Callers |-> call[c].since]
ImplementsView == View!ViewSpec

(* Once nothing more is stored or deployed and requests no longer die, a     *)
(* county with events that somebody keeps asking for becomes and stays warm, *)
(* whatever late writers of old compiles still put.  The asking is supposed  *)
(* here, not scheduled by the worker: of its callers only a request for the  *)
(* county compiles it again after such a late put.                           *)
KeepsAsking(c) == []<>~AtStep(c, "idle")

EventuallyWarm ==
  <>[][\A c \in Callers : ~Drop(c)]_vars /\ (\E c \in Callers : KeepsAsking(c))
    => <>[](events = {} \/ Warm)

AtRest == \A c \in Callers : AtStep(c, "idle")

(* worker.ts 1353-1355: with a fresh entry "the properties table was already *)
(* written when this was compiled": at rest a warm county's rows are the     *)
(* ones of the cached compile.                                               *)
FreshRowsAreWritten ==
  AtRest /\ Warm =>
    \A k \in KeysOf(Taken(cache.of)) : table[k] = RowOf(Taken(cache.of), k)
=============================================================================
