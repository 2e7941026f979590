------------------------------- MODULE Ingest -------------------------------
(* The ingest engine: Pipeline::run_source over the Store (engine/pipeline.cpp,*)
(* engine/store.cpp).  Runs of different sources proceed concurrently; every  *)
(* call into the store is one step, because the store's mutex is held for the *)
(* whole of it; the process may be killed between any two steps, or inside a  *)
(* write, and starts again from what the files hold.                          *)
(*                                                                            *)
(* A document is what a site serves.  What the parser, the classifier and the *)
(* matcher make of it is data: the functions below.                           *)
EXTENDS Heal, LineFile, FiniteSets

CONSTANTS
    Sources,        \* the configured sources
    Enrichment,     \* those with {parcels} or {streets} in their URL
    Docs, NoDoc,    \* documents a fetch can return
    FirstPage,      \* [Docs -> Docs]: the page of a paged Socrata fetch that is cached
    Reading,        \* [Docs -> [content type -> Docs]]: a body under the type of another
    StopsAt,        \* [Docs -> stage]: where a document ends its run early
    Mappings, NoMapping,  \* field mappings with at least one field, and the empty one
    Infer,          \* [Docs -> mapping] infer_mapping
    Confidence,     \* [Docs -> 0..Scale] of the inferred mapping
    Rate,           \* [Mappings -> [Docs -> 0..Scale]] extraction rate
    Decisions,      \* (field, label) pairs an operator can pin in a review
    Pin,            \* [SUBSET Decisions -> [mapping -> [Docs -> mapping]]] apply_overrides
    Events,         \* property events; two records with one id are one event
    PropertyOf,     \* [Events -> property]
    DateOf,         \* [Events -> Nat], 0 when the record carries no date
    EventsOf,       \* [Sources -> [Mappings -> [Docs -> SUBSET Events]]] build_events
    MaxRuns,        \* bound: runs ever started
    MaxTears        \* bound: crashes that cut a log line short

Candidates == Mappings \cup {NoMapping}
DocStages == {"parse", "classify", "map", "read"}

ASSUME SourcesAssumption == Enrichment \subseteq Sources
ASSUME SentinelAssumption == NoMapping \notin Mappings /\ NoDoc \notin Docs
ASSUME DocAssumption ==
    /\ FirstPage \in [Docs -> Docs]
    /\ Reading \in [Docs -> [Docs \cup {NoDoc} -> Docs]]
    /\ StopsAt \in [Docs -> DocStages]
    /\ Infer \in [Docs -> Candidates]
    /\ Confidence \in [Docs -> 0..Scale]
    /\ Rate \in [Mappings -> [Docs -> 0..Scale]]
    /\ Pin \in [SUBSET Decisions -> [Candidates -> [Docs -> Candidates]]]
ASSUME PinAssumption == \A m \in Candidates, d \in Docs : Pin[{}][m][d] = m
ASSUME EventAssumption ==
    /\ DateOf \in [Events -> Nat]
    /\ EventsOf \in [Sources -> [Mappings -> [Docs -> SUBSET Events]]]
ASSUME BoundAssumption == MaxRuns \in Nat /\ MaxTears \in Nat

VARIABLES
    states, saved,          \* learned state of each source: in memory, in state/*.json
    temp,                   \* a whole state/*.json.tmp that was never renamed, if any
    known, eventLog,        \* property events: in memory, events.jsonl
    repairs, repairLog,     \* repairs: in memory, repairs.jsonl
    runs, runLog,           \* run records: in memory, runs.jsonl
    records,                \* records/*.json: the mapping and document of the last snapshot
    cache,                  \* cache/*: the body and the document its .meta describes
    work,                   \* the run in progress of each source
    nextId,                 \* run and repair ids, in the order runs started
    tears,                  \* history: how many crashes cut a log line short
    killed                  \* history: the runs the process was killed under

memory == <<states, known, repairs, runs>>
files  == <<saved, temp, eventLog, repairLog, runLog, records, cache>>
vars   == <<memory, files, work, nextId, tears, killed>>

Pcs == {"idle", "start", "fetched", "ingest", "batch", "events",
        "records", "state", "record"}
Stages == {"none", "fetch", "parse", "classify", "map", "done"}

NewState == [mapping |-> NoMapping, baseline |-> 0, good |-> 0, pins |-> {}]
SourceState == [mapping : Candidates, baseline : 0..Scale, good : Nat, pins : SUBSET Decisions]

\* status: what became of it ("auto", "pending", "approved", "rejected").
RepairRecord == [id : Nat, source : Sources, before : Mappings, after : Candidates,
                 status : {"auto", "pending", "approved", "rejected"}]

\* events: the run's events, of which the code keeps the count.
RunRecord == [id : Nat, source : Sources, stage : Stages, newest : Nat, rate : 0..Scale,
              baseline : 0..Scale, repaired : BOOLEAN, events : SUBSET Events]

\* state: the run's own copy of the source's state, read in ingest_model.
Idle == [pc |-> "idle", id |-> 0, doc |-> NoDoc, state |-> NewState,
         repaired |-> FALSE, batch |-> {}, stage |-> "none"]
Job == [pc : Pcs, id : Nat, doc : Docs \cup {NoDoc}, state : SourceState,
        repaired : BOOLEAN, batch : SUBSET Events, stage : Stages]

Init ==
    /\ states = [s \in Sources |-> NewState] /\ saved = states
    /\ temp = [s \in Sources |-> {}]
    /\ known = {} /\ eventLog = Blank
    /\ repairs = {} /\ repairLog = Blank
    /\ runs = {} /\ runLog = Blank
    /\ records = [s \in Sources |-> <<NoMapping, NoDoc>>]
    /\ cache = [s \in Sources |-> [body |-> NoDoc, meta |-> NoDoc]]
    /\ work = [s \in Sources |-> Idle]
    /\ nextId = 1
    /\ tears = 0 /\ killed = {}
-----------------------------------------------------------------------------
(* Fetching.                                                                 *)

Quiet == \A s \in Sources : work[s].pc = "idle"

Tracked == {PropertyOf[e] : e \in known}

\* The run of s ends with this stage; its record is written by RecordRun.
Conclude(s, stage) == work' = [work EXCEPT ![s].pc = "record", ![s].stage = stage]

\* run_source: the run gets its id.
Begin(s) ==
    /\ work[s].pc = "idle"
    /\ nextId <= MaxRuns
    /\ work' = [work EXCEPT ![s] = [Idle EXCEPT !.pc = "start", !.id = nextId]]
    /\ nextId' = nextId + 1
    /\ UNCHANGED <<memory, files, tears, killed>>

\* The URL template has no target, or the site cannot be fetched.
FetchFails(s) ==
    /\ work[s].pc = "start"
    /\ Conclude(s, "fetch")
    /\ UNCHANGED <<memory, files, nextId, tears, killed>>

\* An enrichment URL needs tracked properties to expand.  save_fetch_cache
\* replaces the body first, with the first page of a paged fetch ...
Fetch(s) ==
    /\ work[s].pc = "start"
    /\ s \in Enrichment => Tracked # {}
    /\ \E d \in Docs :
         /\ work' = [work EXCEPT ![s].pc = "fetched", ![s].doc = d]
         /\ cache' = [cache EXCEPT ![s].body = FirstPage[d]]
    /\ UNCHANGED <<memory, saved, temp, eventLog, repairLog, runLog, records, nextId, tears, killed>>

\* ... and its .meta after it.
SaveMeta(s) ==
    /\ work[s].pc = "fetched"
    /\ work' = [work EXCEPT ![s].pc = "ingest"]
    /\ cache' = [cache EXCEPT ![s].meta = FirstPage[work[s].doc]]
    /\ UNCHANGED <<memory, saved, temp, eventLog, repairLog, runLog, records, nextId, tears, killed>>

\* run_cached: a run over the cached body, with no fetch.  The content type its
\* .meta gives may be that of an earlier body.
RunCached(s) ==
    /\ work[s].pc = "idle"
    /\ nextId <= MaxRuns
    /\ cache[s].body # NoDoc
    /\ work' = [work EXCEPT ![s] =
                  [Idle EXCEPT !.pc = "ingest", !.id = nextId,
                               !.doc = Reading[cache[s].body][cache[s].meta]]]
    /\ nextId' = nextId + 1
    /\ UNCHANGED <<memory, files, tears, killed>>
-----------------------------------------------------------------------------
(* ingest_model: from a document to a mapping.                               *)

\* Mutant: a document that cannot be read returns early, without a run record.
RejectUnrecorded(s) ==
    /\ work[s].pc = "ingest"
    /\ StopsAt[work[s].doc] # "read"
    /\ work' = [work EXCEPT ![s] = Idle]
    /\ UNCHANGED <<memory, files, nextId, tears, killed>>

\* An unparseable, empty, unclassifiable or record-less document.
Reject(s) ==
    /\ work[s].pc = "ingest"
    /\ StopsAt[work[s].doc] # "read"
    /\ Conclude(s, StopsAt[work[s].doc])
    /\ UNCHANGED <<memory, files, nextId, tears, killed>>

Readies(s) == work[s].pc = "ingest" /\ StopsAt[work[s].doc] = "read"

Learned(s) == states[s].mapping # NoMapping

RateOf(m, d) == IF m = NoMapping THEN 0 ELSE Rate[m][d]

Drifts(s) == Drifted(Learned(s), states[s].good, states[s].baseline,
                     RateOf(states[s].mapping, work[s].doc))

\* The repair propose() makes of the document, and its verdict.
Heals(s) ==
    LET d == work[s].doc IN
    Acceptable(Infer[d] # NoMapping, states[s].baseline, Confidence[d], RateOf(Infer[d], d))

Repair(s, status) == [id |-> work[s].id, source |-> s, before |-> states[s].mapping,
                      after |-> Infer[work[s].doc], status |-> status]

LogRepair(s, status) ==
    /\ repairs' = repairs \cup {Repair(s, status)}
    /\ repairLog' = AppendLine(repairLog, Repair(s, status))

\* The operator's decisions are applied over the mapping the run settled on; a
\* mapping they leave without a field ends the run.
Settle(s, base, good, repaired) ==
    LET m == Pin[states[s].pins][base][work[s].doc]
        state == [states[s] EXCEPT !.mapping = m, !.good = good]
    IN  work' = [work EXCEPT ![s] =
                   IF m = NoMapping
                   THEN [@ EXCEPT !.pc = "record", !.stage = "map",
                                  !.state = state, !.repaired = repaired]
                   ELSE [@ EXCEPT !.pc = "batch", !.state = state, !.repaired = repaired]]

\* A source with no mapping yet learns one.
Learn(s) ==
    /\ Readies(s) /\ ~Learned(s)
    /\ LET base == Infer[work[s].doc] IN
       Settle(s, base, IF base = NoMapping THEN states[s].good ELSE 0, FALSE)
    /\ UNCHANGED <<memory, files, nextId, tears, killed>>

\* The mapping in force still extracts.
Keep(s) ==
    /\ Readies(s) /\ Learned(s) /\ ~Drifts(s)
    /\ Settle(s, states[s].mapping, states[s].good, FALSE)
    /\ UNCHANGED <<memory, files, nextId, tears, killed>>

\* Mutant: the mapping is repaired without a record of it.
AutoRepairSilently(s) ==
    /\ Readies(s) /\ Drifts(s) /\ Heals(s)
    /\ Settle(s, Infer[work[s].doc], 0, TRUE)
    /\ UNCHANGED <<memory, files, nextId, tears, killed>>

\* Drift, and a repair good enough to take: it is logged before it is used.
AutoRepair(s) ==
    /\ Readies(s) /\ Drifts(s) /\ Heals(s)
    /\ LogRepair(s, "auto")
    /\ Settle(s, Infer[work[s].doc], 0, TRUE)
    /\ UNCHANGED <<states, known, runs, saved, temp, eventLog, runLog, records, cache,
                   nextId, tears, killed>>

\* Drift, and no such repair: the run ends and the proposal awaits a decision.
Quarantine(s) ==
    /\ Readies(s) /\ Drifts(s) /\ ~Heals(s)
    /\ LogRepair(s, "pending")
    /\ work' = [work EXCEPT ![s].pc = "record", ![s].stage = "map", ![s].state = states[s]]
    /\ UNCHANGED <<states, known, runs, saved, temp, eventLog, runLog, records, cache,
                   nextId, tears, killed>>
-----------------------------------------------------------------------------
(* ingest_model: from a mapping to the store.                                *)

\* Mutant: an enrichment source keeps every event.
BuildWholeBatch(s) ==
    /\ work[s].pc = "batch"
    /\ work' = [work EXCEPT ![s].pc = "events",
                  ![s].batch = EventsOf[s][work[s].state.mapping][work[s].doc]]
    /\ UNCHANGED <<memory, files, nextId, tears, killed>>

\* The events of the extraction; an enrichment source keeps those of tracked
\* properties.
BuildBatch(s) ==
    LET all == EventsOf[s][work[s].state.mapping][work[s].doc] IN
    /\ work[s].pc = "batch"
    /\ work' = [work EXCEPT ![s].pc = "events",
                  ![s].batch = IF s \in Enrichment
                               THEN {e \in all : PropertyOf[e] \in Tracked} ELSE all]
    /\ UNCHANGED <<memory, files, nextId, tears, killed>>

NewEvents(s) == work[s].batch \ known

\* Mutant: events are indexed now and written at some other time.
AddEventsInMemory(s) ==
    /\ work[s].pc = "events"
    /\ known' = known \cup work[s].batch
    /\ work' = [work EXCEPT ![s].pc = "records"]
    /\ UNCHANGED <<states, repairs, runs, files, nextId, tears, killed>>

\* add_events: each event not known yet is appended, then indexed.  The lock is held
\* for the whole batch: nobody sees a part of it but a process that starts after
\* this one was killed between two lines (KillEvents) or within one (TearEvents).
AddEvents(s) ==
    /\ work[s].pc = "events"
    /\ eventLog' \in Appends(eventLog, NewEvents(s))
    /\ known' = known \cup work[s].batch
    /\ work' = [work EXCEPT ![s].pc = "records"]
    /\ UNCHANGED <<states, repairs, runs, saved, temp, repairLog, runLog, records, cache,
                   nextId, tears, killed>>

SaveRecords(s) ==
    /\ work[s].pc = "records"
    /\ records' = [records EXCEPT ![s] = <<work[s].state.mapping, work[s].doc>>]
    /\ work' = [work EXCEPT ![s].pc = "state"]
    /\ UNCHANGED <<memory, saved, temp, eventLog, repairLog, runLog, cache, nextId, tears, killed>>

JobRate(s) == RateOf(work[s].state.mapping, work[s].doc)

Advanced(s) ==
    LET state == work[s].state IN
    [state EXCEPT !.baseline = UpdateBaseline(state.baseline, state.good, JobRate(s)),
                  !.good = @ + 1]

\* Mutant: the state is learned in memory only.
SaveInMemory(s, st) ==
    /\ states' = [states EXCEPT ![s] = st]
    /\ UNCHANGED <<saved, temp>>

\* save_source_state: the .tmp file, renamed over the file, then the map in memory.
SaveSourceState(s, st) ==
    /\ states' = [states EXCEPT ![s] = st]
    /\ saved' = [saved EXCEPT ![s] = st]
    /\ temp' = [temp EXCEPT ![s] = {}]

\* The process dies inside it, its .tmp file unfinished or whole.
CutSave(s, st) ==
    /\ \E left \in {{}, {st}} : temp' = [temp EXCEPT ![s] = left]
    /\ UNCHANGED saved

SaveState(s) ==
    /\ work[s].pc = "state"
    /\ SaveSourceState(s, Advanced(s))
    /\ Conclude(s, "done")
    /\ UNCHANGED <<known, repairs, runs, eventLog, repairLog, runLog, records, cache, nextId, tears, killed>>

\* The latest date among the events, 0 when there are none.
Newest(E) ==
    LET latest == {e \in E : \A f \in E : DateOf[f] <= DateOf[e]} IN
    IF latest = {} THEN 0 ELSE DateOf[CHOOSE e \in latest : TRUE]

\* The baseline recorded is the one the run read, not the one it saved.
RunOf(s) ==
    [id |-> work[s].id, source |-> s, stage |-> work[s].stage,
     newest |-> Newest(work[s].batch), rate |-> JobRate(s),
     baseline |-> work[s].state.baseline, repaired |-> work[s].repaired,
     events |-> work[s].batch]

RecordRun(s) ==
    /\ work[s].pc = "record"
    /\ runs' = runs \cup {RunOf(s)}
    /\ runLog' = AppendLine(runLog, RunOf(s))
    /\ work' = [work EXCEPT ![s] = Idle]
    /\ UNCHANGED <<states, known, repairs, saved, temp, eventLog, repairLog, records, cache,
                   nextId, tears, killed>>
-----------------------------------------------------------------------------
(* The operator, between runs: the shell is a single thread.                 *)

\* review: further matches of the cached document are pinned or unmapped, the
\* state is saved, and the source runs again.
Review(s) ==
    /\ Quiet
    /\ nextId <= MaxRuns
    /\ cache[s].body # NoDoc
    /\ \E pins \in SUBSET Decisions :
         /\ states[s].pins \subseteq pins /\ pins # states[s].pins
         /\ SaveSourceState(s, [states[s] EXCEPT !.pins = pins])
    /\ work' = [work EXCEPT ![s] = [Idle EXCEPT !.pc = "start", !.id = nextId]]
    /\ nextId' = nextId + 1
    /\ UNCHANGED <<known, repairs, runs, eventLog, repairLog, runLog, records, cache, tears, killed>>

Resolved(r, status) == (repairs \ {r}) \cup {[r EXCEPT !.status = status]}

\* Mutants: a repair resolved whatever became of it, and one that takes force over a
\* state made from nothing.
ApproveAnew(r) ==
    /\ Quiet
    /\ repairs' = Resolved(r, "approved")
    /\ repairLog' = Rewritten(repairs')
    /\ SaveSourceState(r.source, [states[r.source] EXCEPT !.mapping = r.after, !.good = 0])
    /\ UNCHANGED <<known, runs, eventLog, runLog, records, cache, work, nextId, tears, killed>>

ApproveOverNothing(r) ==
    /\ Quiet
    /\ r.status = "pending"
    /\ repairs' = Resolved(r, "approved")
    /\ repairLog' = Rewritten(repairs')
    /\ SaveSourceState(r.source, [NewState EXCEPT !.mapping = r.after])
    /\ UNCHANGED <<known, runs, eventLog, runLog, records, cache, work, nextId, tears, killed>>

\* resolve_repair: the log is rewritten, then an approved mapping takes force,
\* to be judged afresh by the next run.
Approve(r) ==
    /\ Quiet
    /\ r.status = "pending"
    /\ repairs' = Resolved(r, "approved")
    /\ repairLog' = Rewritten(repairs')
    /\ SaveSourceState(r.source, [states[r.source] EXCEPT !.mapping = r.after, !.good = 0])
    /\ UNCHANGED <<known, runs, eventLog, runLog, records, cache, work, nextId, tears, killed>>

Refuse(r) ==
    /\ Quiet
    /\ r.status = "pending"
    /\ repairs' = Resolved(r, "rejected")
    /\ repairLog' = Rewritten(repairs')
    /\ UNCHANGED <<states, known, runs, saved, temp, eventLog, runLog, records, cache, work,
                   nextId, tears, killed>>
-----------------------------------------------------------------------------
(* Crashes and restarts.                                                     *)

\* RunRecord::deserialize does not read newest_record_date.
Deserialize(run) == [run EXCEPT !.newest = 0]

\* Store::load reads every file of state/ in the order of their names: what a
\* .tmp file holds overrides what the file it was to replace holds.
OnDisk(s) == IF temp[s] = {} THEN saved[s] ELSE CHOOSE st \in temp[s] : TRUE

\* Store::load, with whatever the files hold by then.
Load ==
    /\ states' = [s \in Sources |-> OnDisk(s)']
    /\ known' = Readable(eventLog')
    /\ repairs' = Readable(repairLog')
    /\ runs' = {Deserialize(run) : run \in Readable(runLog')}
    /\ killed' = killed \cup {work[s].id : s \in {t \in Sources : work[t].pc # "idle"}}
    /\ work' = [s \in Sources |-> Idle]

\* The process exits or is killed between two writes, and starts again.
Restart ==
    /\ UNCHANGED <<files, nextId, tears>>
    /\ Load

\* The process dies inside an append of s's run, and starts again.
Tear ==
    /\ tears < MaxTears
    /\ tears' = tears + 1
    /\ UNCHANGED <<saved, temp, records, cache, nextId>>
    /\ Load

\* It is killed between two lines of a batch: some of its events are on disk.
KillEvents(s) ==
    /\ work[s].pc = "events"
    /\ \E written \in SUBSET NewEvents(s) : eventLog' \in Appends(eventLog, written)
    /\ UNCHANGED <<saved, temp, repairLog, runLog, records, cache, nextId, tears>>
    /\ Load

\* It is killed within one.
TearEvents(s) ==
    /\ work[s].pc = "events"
    /\ \E written \in SUBSET NewEvents(s) : \E e \in NewEvents(s) \ written :
       \E f \in Appends(eventLog, written) : eventLog' \in TornAppend(f, e)
    /\ UNCHANGED <<repairLog, runLog>>
    /\ Tear

TearRepair(s) ==
    /\ Readies(s) /\ Drifts(s)
    /\ repairLog' \in TornAppend(repairLog, Repair(s, IF Heals(s) THEN "auto" ELSE "pending"))
    /\ UNCHANGED <<eventLog, runLog>>
    /\ Tear

TearRun(s) ==
    /\ work[s].pc = "record"
    /\ runLog' \in TornAppend(runLog, RunOf(s))
    /\ UNCHANGED <<eventLog, repairLog>>
    /\ Tear

\* The process dies while the state is saved, at the end of a run, ...
TearState(s) ==
    /\ work[s].pc = "state"
    /\ CutSave(s, Advanced(s))
    /\ UNCHANGED <<eventLog, repairLog, runLog, records, cache, nextId, tears>>
    /\ Load

\* ... of a review, ...
TearReview(s) ==
    /\ Quiet
    /\ cache[s].body # NoDoc
    /\ \E pins \in SUBSET Decisions :
         /\ states[s].pins \subseteq pins /\ pins # states[s].pins
         /\ CutSave(s, [states[s] EXCEPT !.pins = pins])
    /\ UNCHANGED <<eventLog, repairLog, runLog, records, cache, nextId, tears>>
    /\ Load

\* ... or of an approval, whose repair was resolved before.
TearApproval(r) ==
    /\ Quiet
    /\ r.status = "pending"
    /\ repairLog' = Rewritten(Resolved(r, "approved"))
    /\ \/ CutSave(r.source, [states[r.source] EXCEPT !.mapping = r.after, !.good = 0])
       \/ UNCHANGED <<saved, temp>>
    /\ UNCHANGED <<eventLog, runLog, records, cache, nextId, tears>>
    /\ Load
-----------------------------------------------------------------------------
\* The steps a started run takes by itself.
Step(s) ==
    \/ FetchFails(s) \/ Fetch(s) \/ SaveMeta(s)
    \/ Reject(s) \/ Learn(s) \/ Keep(s) \/ AutoRepair(s) \/ Quarantine(s)
    \/ BuildBatch(s) \/ AddEvents(s) \/ SaveRecords(s) \/ SaveState(s) \/ RecordRun(s)

Crash ==
    \/ Restart
    \/ \E s \in Sources : \/ KillEvents(s) \/ TearEvents(s) \/ TearRepair(s) \/ TearRun(s)
                         \/ TearState(s) \/ TearReview(s)
    \/ \E r \in repairs : TearApproval(r)

Next ==
    \/ \E s \in Sources : Begin(s) \/ RunCached(s) \/ Step(s) \/ Review(s)
    \/ \E r \in repairs : Approve(r) \/ Refuse(r)
    \/ Crash

Spec == Init /\ [][Next]_vars

\* Started runs are driven to their end: run_sources joins its workers.
FairSpec == Spec /\ \A s \in Sources : WF_vars(Step(s))
-----------------------------------------------------------------------------
(* Properties.                                                               *)

TypeOK ==
    /\ states \in [Sources -> SourceState] /\ saved \in [Sources -> SourceState]
    /\ temp \in [Sources -> SUBSET SourceState]
    /\ known \subseteq Events /\ eventLog \in FileOf(Events)
    /\ repairs \subseteq RepairRecord /\ repairLog \in FileOf(RepairRecord)
    /\ runs \subseteq RunRecord /\ runLog \in FileOf(RunRecord)
    /\ records \in [Sources -> Candidates \X (Docs \cup {NoDoc})]
    /\ cache \in [Sources -> [body : Docs \cup {NoDoc}, meta : Docs \cup {NoDoc}]]
    /\ work \in [Sources -> Job]
    /\ nextId \in Nat /\ tears \in Nat /\ killed \subseteq Nat

\* What the process believes is what a restart would load: of the learned state
\* always, of the logs as long as no crash cut a line short (save the date a run
\* record loses).  A log never holds what memory does not.
MemoryMatchesFiles ==
    /\ \A s \in Sources : states[s] = OnDisk(s)
    /\ Readable(eventLog) \subseteq known
    /\ Readable(repairLog) \subseteq repairs
    /\ tears = 0 => /\ known = Readable(eventLog)
                    /\ repairs = Readable(repairLog)
                    /\ {Deserialize(run) : run \in runs}
                         = {Deserialize(run) : run \in Readable(runLog)}

Delivered == UNION {run.events : run \in {r \in runs : r.stage = "done"}}

\* Until a crash cuts a line short, every event of a run recorded as done is in
\* events.jsonl, whatever runs beside it and wherever the process was killed: what
\* a killed batch left on disk counts as known to the run that is repeated.
DoneRunsAreDurable == tears = 0 => Delivered \subseteq Readable(eventLog)

\* A line cut short costs the log at most two events of finished runs: the one
\* left without its newline and the one appended after it.
LossBound == Cardinality(Delivered \ Readable(eventLog)) <= 2 * tears

\* A crash cuts the save of a state that was only in a .tmp file: what the process
\* had loaded from there is gone, and an older state is in force.
Forgets(s) == temp[s] # {} /\ temp'[s] = {} /\ states'[s] = saved[s]

\* A live mapping is replaced only by a repair logged beforehand that started
\* from it, by an approved repair, or under an operator's decisions.
MappingChangesAreLogged ==
    [][\A s \in Sources : states[s].mapping \notin {NoMapping, states'[s].mapping} =>
         \/ states[s].pins # {}
         \/ \E r \in repairs : /\ r.source = s /\ r.status = "auto"
                               /\ r.id = work[s].id /\ r.before = states[s].mapping
         \/ \E r \in repairs' : /\ r.source = s /\ r.status = "approved"
                                /\ r.after = states'[s].mapping
         \/ Forgets(s)]_vars

\* Without operator decisions, a source whose baseline is in force never loses
\* more than three tenths of it in one run, repaired or not (and the part that
\* UpdateBaseline's whole division drops).
BaselineNeverSlips ==
    [][\A s \in Sources : states[s].pins = {} /\ states[s].good > 0 =>
         \/ 10 * (states'[s].baseline + 1) > 7 * states[s].baseline
         \/ Forgets(s)]_vars

\* An enrichment source only adds to properties that were tracked before it.
EnrichmentOnlyTracked ==
    [][\A e \in known' \ known :
         \/ PropertyOf[e] \in Tracked
         \/ \E s \in Sources \ Enrichment : e \in work[s].batch]_vars

\* A repair is decided once, whatever crash comes between.
RepairsAreDecidedOnce ==
    [][\A r \in repairs, q \in repairs' :
         r.id = q.id /\ r.status # "pending" => q = r]_vars

\* What an operator pinned in a review stays pinned: no run, repair, approval or
\* restart takes it back, save the crash that makes the source forget a state.
DecisionsStand ==
    [][\A s \in Sources : states[s].pins \subseteq states'[s].pins \/ Forgets(s)]_vars

\* Every run that starts comes to its record, whatever document it gets and
\* wherever it ends early, unless the process is killed under it.
Running(id) == \E s \in Sources : work[s].pc # "idle" /\ work[s].id = id

RunsEnd == \A id \in 1..MaxRuns : Running(id) ~> id \in killed \/ \E r \in runs : r.id = id
=============================================================================
