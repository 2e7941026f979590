---------------------------- MODULE IngestProofs ----------------------------
(* Theorems of the ingest engine: its types, what its files hold, and why what *)
(* it has learned of a source changes.                                         *)
EXTENDS Ingest, FiniteSetTheorems, TLAPS

-----------------------------------------------------------------------------
(* Type correctness of the ingest engine, with what a run's job says of itself *)
(* at each of its steps.                                                       *)

\* A run that has fetched has a document, one that has settled on a mapping has
\* a mapping, and a mapping is never without the document it is applied to.
JobOK(job) ==
    /\ job.pc \in {"fetched", "ingest", "batch", "events", "records", "state"} => job.doc \in Docs
    /\ job.state.mapping # NoMapping => job.doc \in Docs
    /\ job.pc \in {"batch", "events", "records", "state"} => job.state.mapping # NoMapping

TypeInv == TypeOK /\ \A s \in Sources : JobOK(work[s])

-----------------------------------------------------------------------------
(* The data.                                                                 *)

\* The moving average of two rates is a rate.
LEMMA BaselineType ==
    ASSUME NEW b \in 0..Scale, NEW g \in Nat, NEW r \in 0..Scale
    PROVE  UpdateBaseline(b, g, r) \in 0..Scale
BY SMTT(30) DEF UpdateBaseline, Scale

LEMMA RateType ==
    ASSUME NEW m \in Candidates, NEW d, m # NoMapping => d \in Docs
    PROVE  RateOf(m, d) \in 0..Scale
BY DocAssumption DEF RateOf, Candidates, Scale

LEMMA NewestType ==
    ASSUME NEW E \in SUBSET Events
    PROVE  Newest(E) \in Nat
BY EventAssumption DEF Newest

LEMMA PinnedType ==
    ASSUME NEW pins \in SUBSET Decisions, NEW m \in Candidates, NEW d \in Docs
    PROVE  Pin[pins][m][d] \in Candidates
BY DocAssumption

LEMMA IdleType == Idle \in Job /\ JobOK(Idle)
BY DEF Idle, Job, JobOK, NewState, SourceState, Candidates, Pcs, Stages, Scale

\* Every way a log is written keeps it a log of the same lines.
LEMMA LogType ==
    ASSUME NEW Lines, NEW f \in FileOf(Lines)
    PROVE  /\ Readable(f) \subseteq Lines
           /\ \A x \in Lines : AppendLine(f, x) \in FileOf(Lines)
           /\ \A x \in Lines : TornAppend(f, x) \subseteq FileOf(Lines)
           /\ \A new \in SUBSET Lines : Appends(f, new) \subseteq FileOf(Lines)
           /\ \A all \in SUBSET Lines : Rewritten(all) \in FileOf(Lines)
<1>1. Readable(f) \subseteq Lines
  BY DEF Readable, FileOf
<1>2. \A all \in SUBSET Lines : Rewritten(all) \in FileOf(Lines)
  BY DEF Rewritten, FileOf
<1>3. ASSUME NEW x \in Lines PROVE AppendLine(f, x) \in FileOf(Lines)
  BY DEF AppendLine, Rewritten, FileOf
<1>4. ASSUME NEW x \in Lines, NEW g \in TornAppend(f, x) PROVE g \in FileOf(Lines)
  <2>1. PICK tail \in {{}, IF f.dirty THEN {} ELSE {x}} :
          g = [f EXCEPT !.last = tail, !.dirty = TRUE]
    BY <1>4 DEF TornAppend
  <2>2. tail \subseteq Lines
    OBVIOUS
  <2>3. QED BY <2>1, <2>2 DEF FileOf
<1>5. ASSUME NEW new \in SUBSET Lines, NEW g \in Appends(f, new) PROVE g \in FileOf(Lines)
  <2>1. CASE f.dirty /\ new # {}
    <3>1. PICK first \in new : g = Rewritten(f.lines \cup (new \ {first}))
      BY <1>5, <2>1 DEF Appends
    <3>2. f.lines \cup (new \ {first}) \in SUBSET Lines
      BY DEF FileOf
    <3>3. QED BY <1>2, <3>1, <3>2
  <2>2. CASE ~(f.dirty /\ new # {})
    <3>1. g = [f EXCEPT !.lines = @ \cup new]
      BY <1>5, <2>2 DEF Appends
    <3>2. QED BY <3>1 DEF FileOf
  <2>3. QED BY <2>1, <2>2
<1>6. QED BY <1>1, <1>2, <1>3, <1>4, <1>5

-----------------------------------------------------------------------------
(* One job changes at a time.                                                *)

WorkOK == work \in [Sources -> Job] /\ \A s \in Sources : JobOK(work[s])

LEMMA WorkStep ==
    ASSUME WorkOK, NEW s \in Sources, NEW job \in Job, JobOK(job),
           work' = [work EXCEPT ![s] = job]
    PROVE  WorkOK'
BY DEF WorkOK

\* A run that ends, with its own copy of the state or with the one in force.
LEMMA ConcludeType ==
    ASSUME WorkOK, NEW s \in Sources, NEW stage \in Stages, Conclude(s, stage)
    PROVE  WorkOK'
<1> DEFINE job == work[s]
           new == [job EXCEPT !.pc = "record", !.stage = stage]
<1>1. job \in Job /\ JobOK(job)
  BY DEF WorkOK
<1>2. new \in Job
  BY <1>1 DEF Job, Pcs
<1>3. JobOK(new)
  BY <1>1 DEF Job, JobOK
<1>4. work' = [work EXCEPT ![s] = new]
  BY DEF Conclude, WorkOK
<1> HIDE DEF new
<1>5. QED BY <1>2, <1>3, <1>4, WorkStep

\* A run that starts from nothing, or over the cached document.
LEMMA BeginType ==
    ASSUME WorkOK, NEW s \in Sources, NEW id \in Nat
    PROVE  /\ work' = [work EXCEPT ![s] = [Idle EXCEPT !.pc = "start", !.id = id]] => WorkOK'
           /\ \A d \in Docs :
                work' = [work EXCEPT ![s] = [Idle EXCEPT !.pc = "ingest", !.id = id, !.doc = d]]
                  => WorkOK'
<1>1. [Idle EXCEPT !.pc = "start", !.id = id] \in Job
  BY IdleType DEF Idle, Job, Pcs
<1>2. JobOK([Idle EXCEPT !.pc = "start", !.id = id])
  BY DEF Idle, JobOK, NewState
<1>3. ASSUME NEW d \in Docs PROVE [Idle EXCEPT !.pc = "ingest", !.id = id, !.doc = d] \in Job
  BY IdleType DEF Idle, Job, Pcs
<1>4. ASSUME NEW d \in Docs PROVE JobOK([Idle EXCEPT !.pc = "ingest", !.id = id, !.doc = d])
  BY DEF Idle, JobOK, NewState
<1>5. QED BY <1>1, <1>2, <1>3, <1>4, WorkStep

\* A run that settles on a mapping, or ends because its pins leave none.
LEMMA SettleType ==
    ASSUME TypeInv, NEW s \in Sources, Readies(s),
           NEW base \in Candidates, NEW good \in Nat, NEW repaired \in BOOLEAN,
           Settle(s, base, good, repaired)
    PROVE  WorkOK'
<1> DEFINE job == work[s]
           m == Pin[states[s].pins][base][job.doc]
           state == [states[s] EXCEPT !.mapping = m, !.good = good]
           ended == [job EXCEPT !.pc = "record", !.stage = "map",
                                !.state = state, !.repaired = repaired]
           going == [job EXCEPT !.pc = "batch", !.state = state, !.repaired = repaired]
<1>1. WorkOK /\ job \in Job /\ JobOK(job) /\ states[s] \in SourceState
  BY DEF TypeInv, TypeOK, WorkOK
<1>2. job.doc \in Docs
  BY <1>1 DEF Readies, JobOK
<1>3. m \in Candidates
  BY <1>1, <1>2, PinnedType DEF SourceState
<1>4. state \in SourceState /\ state.mapping = m
  BY <1>1, <1>3 DEF SourceState
<1>5. work' = [work EXCEPT ![s] = IF m = NoMapping THEN ended ELSE going]
  BY <1>1 DEF Settle, WorkOK
<1> HIDE DEF m, state
<1>6. ended \in Job /\ going \in Job
  BY <1>1, <1>4 DEF Job, Pcs, Stages
<1>7. JobOK(ended)
  BY <1>1, <1>2, <1>4 DEF Job, JobOK
<1>8. m # NoMapping => JobOK(going)
  BY <1>1, <1>2, <1>4 DEF Job, JobOK
<1> HIDE DEF ended, going
<1>9. QED BY <1>1, <1>5, <1>6, <1>7, <1>8, WorkStep

LEMMA AdvancedType ==
    ASSUME TypeInv, NEW s \in Sources, work[s].pc = "state"
    PROVE  Advanced(s) \in SourceState
<1> DEFINE st == work[s].state
           b == UpdateBaseline(st.baseline, st.good, JobRate(s))
<1>1. work[s] \in Job /\ JobOK(work[s])
  BY DEF TypeInv, TypeOK
<1>2. st \in SourceState /\ work[s].doc \in Docs
  BY <1>1 DEF Job, JobOK
<1>3. JobRate(s) \in 0..Scale
  BY <1>2, RateType DEF JobRate, SourceState
<1>4. b \in 0..Scale
  BY <1>2, <1>3, BaselineType DEF SourceState
<1> HIDE DEF b
<1>5. st.good + 1 \in Nat
  BY <1>2 DEF SourceState
<1>6. Advanced(s) = [st EXCEPT !.baseline = b, !.good = st.good + 1]
  BY DEF Advanced, b
<1> HIDE DEF st
<1>7. [st EXCEPT !.baseline = b, !.good = st.good + 1] \in SourceState
  BY <1>2, <1>4, <1>5 DEF SourceState
<1>8. QED BY <1>6, <1>7

LEMMA RepairType ==
    ASSUME TypeInv, NEW s \in Sources, Readies(s), Drifts(s), NEW status \in {"auto", "pending"}
    PROVE  Repair(s, status) \in RepairRecord
<1>1. work[s] \in Job /\ JobOK(work[s]) /\ states[s] \in SourceState
  BY DEF TypeInv, TypeOK
<1>2. work[s].doc \in Docs /\ states[s].mapping \in Mappings
  BY <1>1 DEF Readies, JobOK, Drifts, Drifted, Learned, SourceState, Candidates
<1>3. Infer[work[s].doc] \in Candidates
  BY <1>2, DocAssumption
<1>4. QED BY <1>1, <1>2, <1>3 DEF Repair, RepairRecord, Job

LEMMA RunType ==
    ASSUME TypeInv, NEW s \in Sources
    PROVE  RunOf(s) \in RunRecord
<1>1. work[s] \in Job /\ JobOK(work[s])
  BY DEF TypeInv, TypeOK
<1>2. work[s].state \in SourceState /\ work[s].batch \in SUBSET Events
  BY <1>1 DEF Job
<1>3. JobRate(s) \in 0..Scale
  BY <1>1, <1>2, RateType DEF JobRate, SourceState, JobOK
<1>4. Newest(work[s].batch) \in Nat
  BY <1>2, NewestType
<1>5. QED BY <1>1, <1>2, <1>3, <1>4 DEF RunOf, RunRecord, Job, SourceState

LEMMA SaveType ==
    ASSUME TypeInv, NEW s \in Sources, NEW st \in SourceState, SaveSourceState(s, st)
    PROVE  /\ states' \in [Sources -> SourceState] /\ saved' \in [Sources -> SourceState]
           /\ temp' \in [Sources -> SUBSET SourceState]
BY DEF TypeInv, TypeOK, SaveSourceState

LEMMA CutType ==
    ASSUME TypeInv, NEW s \in Sources, NEW st \in SourceState, CutSave(s, st)
    PROVE  /\ saved' \in [Sources -> SourceState]
           /\ temp' \in [Sources -> SUBSET SourceState]
<1>1. PICK left \in {{}, {st}} : temp' = [temp EXCEPT ![s] = left]
  BY DEF CutSave
<1>2. left \in SUBSET SourceState
  OBVIOUS
<1>3. QED BY <1>1, <1>2 DEF TypeInv, TypeOK, CutSave

\* What an approved repair makes of its source's state.
LEMMA ApprovedType ==
    ASSUME TypeInv, NEW r \in repairs
    PROVE  /\ r.source \in Sources
           /\ [states[r.source] EXCEPT !.mapping = r.after, !.good = 0] \in SourceState
           /\ \A status \in {"approved", "rejected"} : Resolved(r, status) \in SUBSET RepairRecord
<1>1. r \in RepairRecord /\ states \in [Sources -> SourceState] /\ repairs \subseteq RepairRecord
  BY DEF TypeInv, TypeOK
<1>2. r.source \in Sources /\ r.after \in Candidates
  BY <1>1 DEF RepairRecord
<1>3. [states[r.source] EXCEPT !.mapping = r.after, !.good = 0] \in SourceState
  BY <1>1, <1>2 DEF SourceState
<1>4. ASSUME NEW status \in {"approved", "rejected"}
      PROVE  Resolved(r, status) \in SUBSET RepairRecord
  <2>1. [r EXCEPT !.status = status] \in RepairRecord
    BY <1>1 DEF RepairRecord
  <2>2. QED BY <1>1, <2>1 DEF Resolved
<1>5. QED BY <1>2, <1>3, <1>4

-----------------------------------------------------------------------------
(* The steps.                                                                *)

LEMMA InitType == Init => TypeInv
<1> SUFFICES ASSUME Init PROVE TypeInv
  OBVIOUS
<1>1. NewState \in SourceState
  BY DEF NewState, SourceState, Candidates, Scale
<1>2. Blank \in FileOf(Events) /\ Blank \in FileOf(RepairRecord) /\ Blank \in FileOf(RunRecord)
  BY DEF Blank, FileOf
<1>3. QED
  BY <1>1, <1>2, IdleType DEF Init, TypeInv, TypeOK, Candidates

\* Steps that only move the job of one source.
LEMMA JobSteps ==
    ASSUME TypeInv, NEW s \in Sources,
           \/ Begin(s) \/ FetchFails(s) \/ RunCached(s) \/ Reject(s)
           \/ Learn(s) \/ Keep(s) \/ BuildBatch(s)
    PROVE  TypeInv'
<1> DEFINE job == work[s]
<1>1. /\ WorkOK /\ job \in Job /\ JobOK(job) /\ states[s] \in SourceState
      /\ cache[s] \in [body : Docs \cup {NoDoc}, meta : Docs \cup {NoDoc}]
      /\ nextId \in Nat
  BY DEF TypeInv, TypeOK, WorkOK
<1>2. ASSUME WorkOK', UNCHANGED <<memory, files, tears, killed>>, nextId' \in Nat
      PROVE  TypeInv'
  BY <1>2 DEF TypeInv, TypeOK, memory, files, WorkOK
<1>3. CASE Begin(s)
  <2>1. WorkOK'
    BY <1>1, <1>3, BeginType DEF Begin
  <2>2. nextId' \in Nat
    BY <1>1, <1>3 DEF Begin
  <2>3. QED BY <1>2, <1>3, <2>1, <2>2 DEF Begin
<1>4. CASE RunCached(s)
  <2>1. Reading[cache[s].body][cache[s].meta] \in Docs
    BY <1>1, <1>4, DocAssumption DEF RunCached
  <2>2. WorkOK'
    BY <1>1, <1>4, <2>1, BeginType DEF RunCached
  <2>3. nextId' \in Nat
    BY <1>1, <1>4 DEF RunCached
  <2>4. QED BY <1>2, <1>4, <2>2, <2>3 DEF RunCached
<1>5. CASE FetchFails(s)
  BY <1>1, <1>2, <1>5, ConcludeType DEF FetchFails, Stages
<1>6. CASE Reject(s)
  <2>1. StopsAt[job.doc] \in Stages
    BY <1>1, <1>6, DocAssumption DEF Reject, JobOK, DocStages, Stages
  <2>2. QED BY <1>1, <1>2, <1>6, <2>1, ConcludeType DEF Reject
<1>7. CASE BuildBatch(s)
  <2> DEFINE all == EventsOf[s][job.state.mapping][job.doc]
             batch == IF s \in Enrichment THEN {e \in all : PropertyOf[e] \in Tracked} ELSE all
             new == [job EXCEPT !.pc = "events", !.batch = batch]
  <2>1. job.doc \in Docs /\ job.state.mapping \in Mappings
    BY <1>1, <1>7 DEF BuildBatch, JobOK, Job, SourceState, Candidates
  <2>2. batch \in SUBSET Events
    BY <2>1, EventAssumption
  <2>3. work' = [work EXCEPT ![s] = new]
    BY <1>1, <1>7 DEF BuildBatch, WorkOK
  <2> HIDE DEF batch
  <2>4. new \in Job
    BY <1>1, <2>2 DEF Job, Pcs
  <2>5. JobOK(new)
    BY <1>1, <1>7, <2>1 DEF Job, JobOK, BuildBatch
  <2> HIDE DEF new
  <2>6. QED BY <1>1, <1>2, <1>7, <2>3, <2>4, <2>5, WorkStep DEF BuildBatch
<1>8. CASE Learn(s)
  <2>1. job.doc \in Docs
    BY <1>1, <1>8 DEF Learn, Readies, JobOK
  <2>2. Infer[job.doc] \in Candidates /\ states[s].good \in Nat
    BY <1>1, <2>1, DocAssumption DEF SourceState
  <2>3. (IF Infer[job.doc] = NoMapping THEN states[s].good ELSE 0) \in Nat
    BY <2>2
  <2>4. QED BY <1>1, <1>2, <1>8, <2>2, <2>3, SettleType DEF Learn
<1>9. CASE Keep(s)
  <2>1. states[s].mapping \in Candidates /\ states[s].good \in Nat
    BY <1>1 DEF SourceState
  <2>2. QED BY <1>1, <1>2, <1>9, <2>1, SettleType DEF Keep
<1>10. QED BY <1>3, <1>4, <1>5, <1>6, <1>7, <1>8, <1>9

\* Fetching, and the three saves of a document that was read.
LEMMA FileSteps ==
    ASSUME TypeInv, NEW s \in Sources,
           Fetch(s) \/ SaveMeta(s) \/ AddEvents(s) \/ SaveRecords(s) \/ SaveState(s)
    PROVE  TypeInv'
<1> DEFINE job == work[s]
<1>1. /\ WorkOK /\ job \in Job /\ JobOK(job)
      /\ cache \in [Sources -> [body : Docs \cup {NoDoc}, meta : Docs \cup {NoDoc}]]
  BY DEF TypeInv, TypeOK, WorkOK
<1>2. ASSUME NEW pc \in Pcs,
             pc = "ingest" => job.doc \in Docs,
             pc \in {"records", "state"} => job.doc \in Docs /\ job.state.mapping # NoMapping,
             pc \in {"ingest", "records", "state"},
             work' = [work EXCEPT ![s].pc = pc]
      PROVE  WorkOK'
  <2>1. [job EXCEPT !.pc = pc] \in Job
    BY <1>1 DEF Job
  <2>2. JobOK([job EXCEPT !.pc = pc])
    BY <1>1, <1>2 DEF Job, JobOK
  <2>3. work' = [work EXCEPT ![s] = [job EXCEPT !.pc = pc]]
    BY <1>1, <1>2 DEF WorkOK
  <2>4. QED BY <1>1, <2>1, <2>2, <2>3, WorkStep
<1>3. CASE Fetch(s)
  <2>1. PICK d \in Docs : /\ work' = [work EXCEPT ![s].pc = "fetched", ![s].doc = d]
                          /\ cache' = [cache EXCEPT ![s].body = FirstPage[d]]
    BY <1>3 DEF Fetch
  <2> DEFINE new == [job EXCEPT !.pc = "fetched", !.doc = d]
  <2>2. new \in Job /\ JobOK(new)
    BY <1>1 DEF Job, JobOK, Pcs
  <2>3. work' = [work EXCEPT ![s] = new]
    BY <1>1, <2>1 DEF WorkOK
  <2> HIDE DEF new
  <2>4. WorkOK'
    BY <1>1, <2>2, <2>3, WorkStep
  <2>5. cache' \in [Sources -> [body : Docs \cup {NoDoc}, meta : Docs \cup {NoDoc}]]
    BY <1>1, <2>1, DocAssumption
  <2>6. QED BY <1>3, <2>4, <2>5 DEF Fetch, TypeInv, TypeOK, WorkOK, memory
<1>4. CASE SaveMeta(s)
  <2>1. job.doc \in Docs /\ "ingest" \in Pcs
    BY <1>1, <1>4 DEF SaveMeta, JobOK, Pcs
  <2>2. WorkOK'
    BY <1>2, <1>4, <2>1 DEF SaveMeta
  <2>3. cache' \in [Sources -> [body : Docs \cup {NoDoc}, meta : Docs \cup {NoDoc}]]
    BY <1>1, <1>4, <2>1, DocAssumption DEF SaveMeta
  <2>4. QED BY <1>4, <2>2, <2>3 DEF SaveMeta, TypeInv, TypeOK, WorkOK, memory
<1>5. CASE AddEvents(s)
  <2>1. /\ job.doc \in Docs /\ job.state.mapping # NoMapping /\ "records" \in Pcs
        /\ job.batch \in SUBSET Events
    BY <1>1, <1>5 DEF AddEvents, JobOK, Job, Pcs
  <2>2. WorkOK'
    BY <1>2, <1>5, <2>1 DEF AddEvents
  <2>3. eventLog \in FileOf(Events) /\ known \subseteq Events /\ NewEvents(s) \in SUBSET Events
    BY <2>1 DEF TypeInv, TypeOK, NewEvents
  <2>4. eventLog' \in FileOf(Events)
    BY <1>5, <2>3, LogType DEF AddEvents
  <2>5. known' \subseteq Events
    BY <1>5, <2>1, <2>3 DEF AddEvents
  <2>6. QED BY <1>5, <2>2, <2>4, <2>5 DEF AddEvents, TypeInv, TypeOK, WorkOK
<1>6. CASE SaveRecords(s)
  <2>1. /\ job.doc \in Docs /\ job.state.mapping # NoMapping /\ "state" \in Pcs
        /\ job.state.mapping \in Candidates
    BY <1>1, <1>6 DEF SaveRecords, JobOK, Job, Pcs, SourceState
  <2>2. WorkOK'
    BY <1>2, <1>6, <2>1 DEF SaveRecords
  <2>3. records' \in [Sources -> Candidates \X (Docs \cup {NoDoc})]
    BY <1>6, <2>1 DEF SaveRecords, TypeInv, TypeOK
  <2>4. QED BY <1>6, <2>2, <2>3 DEF SaveRecords, TypeInv, TypeOK, WorkOK, memory
<1>7. CASE SaveState(s)
  <2>1. WorkOK'
    BY <1>1, <1>7, ConcludeType DEF SaveState, Stages
  <2>2. /\ states' \in [Sources -> SourceState] /\ saved' \in [Sources -> SourceState]
        /\ temp' \in [Sources -> SUBSET SourceState]
    BY <1>7, AdvancedType, SaveType DEF SaveState
  <2>3. QED BY <1>7, <2>1, <2>2 DEF SaveState, TypeInv, TypeOK, WorkOK
<1>8. QED BY <1>3, <1>4, <1>5, <1>6, <1>7

\* Steps that log a repair or a run.
LEMMA LogSteps ==
    ASSUME TypeInv, NEW s \in Sources, AutoRepair(s) \/ Quarantine(s) \/ RecordRun(s)
    PROVE  TypeInv'
<1> DEFINE job == work[s]
<1>1. /\ WorkOK /\ job \in Job /\ JobOK(job) /\ states[s] \in SourceState
      /\ repairs \subseteq RepairRecord /\ repairLog \in FileOf(RepairRecord)
      /\ runs \subseteq RunRecord /\ runLog \in FileOf(RunRecord)
  BY DEF TypeInv, TypeOK, WorkOK
<1>2. ASSUME NEW status \in {"auto", "pending"}, Readies(s), Drifts(s), LogRepair(s, status)
      PROVE  repairs' \subseteq RepairRecord /\ repairLog' \in FileOf(RepairRecord)
  <2>1. Repair(s, status) \in RepairRecord
    BY <1>2, RepairType
  <2>2. AppendLine(repairLog, Repair(s, status)) \in FileOf(RepairRecord)
    BY <1>1, <2>1, LogType
  <2>3. QED BY <1>1, <1>2, <2>1, <2>2 DEF LogRepair
<1>3. CASE AutoRepair(s)
  <2>1. Infer[job.doc] \in Candidates
    BY <1>1, <1>3, DocAssumption DEF AutoRepair, Readies, JobOK
  <2>2. WorkOK'
    BY <1>3, <2>1, SettleType DEF AutoRepair
  <2>3. repairs' \subseteq RepairRecord /\ repairLog' \in FileOf(RepairRecord)
    BY <1>2, <1>3 DEF AutoRepair
  <2>4. QED BY <1>3, <2>2, <2>3 DEF AutoRepair, TypeInv, TypeOK, WorkOK
<1>4. CASE Quarantine(s)
  <2> DEFINE new == [job EXCEPT !.pc = "record", !.stage = "map", !.state = states[s]]
  <2>1. job.doc \in Docs
    BY <1>1, <1>4 DEF Quarantine, Readies, JobOK
  <2>2. new \in Job
    BY <1>1 DEF Job, Pcs, Stages
  <2>3. JobOK(new)
    BY <1>1, <2>1 DEF Job, JobOK
  <2>4. work' = [work EXCEPT ![s] = new]
    BY <1>1, <1>4 DEF Quarantine, WorkOK
  <2> HIDE DEF new
  <2>5. WorkOK'
    BY <1>1, <2>2, <2>3, <2>4, WorkStep
  <2>6. repairs' \subseteq RepairRecord /\ repairLog' \in FileOf(RepairRecord)
    BY <1>2, <1>4 DEF Quarantine
  <2>7. QED BY <1>4, <2>5, <2>6 DEF Quarantine, TypeInv, TypeOK, WorkOK
<1>5. CASE RecordRun(s)
  <2>1. WorkOK'
    BY <1>1, <1>5, IdleType, WorkStep DEF RecordRun
  <2>2. RunOf(s) \in RunRecord
    BY RunType
  <2>3. runs' \subseteq RunRecord
    BY <1>1, <1>5, <2>2 DEF RecordRun
  <2>4. runLog' \in FileOf(RunRecord)
    BY <1>1, <1>5, <2>2, LogType DEF RecordRun
  <2>5. QED BY <1>5, <2>1, <2>3, <2>4 DEF RecordRun, TypeInv, TypeOK, WorkOK
<1>6. QED BY <1>3, <1>4, <1>5

\* What the operator does between runs.
LEMMA OperatorSteps ==
    ASSUME TypeInv,
           \/ \E s \in Sources : Review(s)
           \/ \E r \in repairs : Approve(r) \/ Refuse(r)
    PROVE  TypeInv'
<1>1. /\ WorkOK /\ states \in [Sources -> SourceState] /\ nextId \in Nat
      /\ repairs \subseteq RepairRecord
  BY DEF TypeInv, TypeOK, WorkOK
<1>2. ASSUME NEW s \in Sources, Review(s) PROVE TypeInv'
  <2>1. PICK pins \in SUBSET Decisions :
          SaveSourceState(s, [states[s] EXCEPT !.pins = pins])
    BY <1>2 DEF Review
  <2>2. [states[s] EXCEPT !.pins = pins] \in SourceState
    BY <1>1 DEF SourceState
  <2>3. /\ states' \in [Sources -> SourceState] /\ saved' \in [Sources -> SourceState]
        /\ temp' \in [Sources -> SUBSET SourceState]
    BY <2>1, <2>2, SaveType
  <2>4. WorkOK'
    BY <1>1, <1>2, BeginType DEF Review
  <2>5. nextId' \in Nat
    BY <1>1, <1>2 DEF Review
  <2>6. QED BY <1>2, <2>3, <2>4, <2>5 DEF Review, TypeInv, TypeOK, WorkOK
<1>3. ASSUME NEW r \in repairs, Approve(r) PROVE TypeInv'
  <2>1. /\ states' \in [Sources -> SourceState] /\ saved' \in [Sources -> SourceState]
        /\ temp' \in [Sources -> SUBSET SourceState]
    BY <1>3, ApprovedType, SaveType DEF Approve
  <2>2. repairs' \in SUBSET RepairRecord
    BY <1>3, ApprovedType DEF Approve
  <2>3. repairLog' \in FileOf(RepairRecord)
    BY <1>3, <2>2 DEF Approve, Rewritten, FileOf
  <2>4. QED BY <1>3, <2>1, <2>2, <2>3 DEF Approve, TypeInv, TypeOK
<1>4. ASSUME NEW r \in repairs, Refuse(r) PROVE TypeInv'
  <2>1. repairs' \in SUBSET RepairRecord
    BY <1>4, ApprovedType DEF Refuse
  <2>2. repairLog' \in FileOf(RepairRecord)
    BY <1>4, <2>1 DEF Refuse, Rewritten, FileOf
  <2>3. QED BY <1>4, <2>1, <2>2 DEF Refuse, TypeInv, TypeOK
<1>5. QED BY <1>2, <1>3, <1>4

\* Whatever the files hold after a crash, what is read from them has its type.
LEMMA LoadType ==
    ASSUME TypeInv, Load, saved' \in [Sources -> SourceState],
           temp' \in [Sources -> SUBSET SourceState], eventLog' \in FileOf(Events),
           repairLog' \in FileOf(RepairRecord), runLog' \in FileOf(RunRecord),
           records' \in [Sources -> Candidates \X (Docs \cup {NoDoc})],
           cache' \in [Sources -> [body : Docs \cup {NoDoc}, meta : Docs \cup {NoDoc}]],
           nextId' \in Nat, tears' \in Nat
    PROVE  TypeInv'
<1>1. Readable(eventLog') \subseteq Events /\ Readable(repairLog') \subseteq RepairRecord
  BY DEF Readable, FileOf
<1>2. Readable(runLog') \subseteq RunRecord
  BY DEF Readable, FileOf
<1>3. ASSUME NEW run \in RunRecord PROVE Deserialize(run) \in RunRecord
  BY DEF Deserialize, RunRecord
<1>4. runs' \subseteq RunRecord
  BY <1>2, <1>3 DEF Load
<1>5. WorkOK'
  BY IdleType DEF Load, WorkOK
<1>6. ASSUME NEW s \in Sources PROVE OnDisk(s)' \in SourceState
  BY DEF OnDisk
<1>7. states' \in [Sources -> SourceState]
  BY <1>6 DEF Load
<1>8. known' \subseteq Events /\ repairs' \subseteq RepairRecord
  BY <1>1 DEF Load
<1>9. killed' \subseteq Nat
  <2>1. \A s \in Sources : work[s].id \in Nat
    BY DEF TypeInv, TypeOK, Job
  <2>2. QED BY <2>1 DEF TypeInv, TypeOK, Load
<1>10. QED BY <1>4, <1>5, <1>7, <1>8, <1>9 DEF TypeInv, TypeOK, WorkOK

LEMMA CrashSteps == ASSUME TypeInv, Crash PROVE TypeInv'
<1>1. /\ saved \in [Sources -> SourceState] /\ temp \in [Sources -> SUBSET SourceState]
      /\ states \in [Sources -> SourceState] /\ eventLog \in FileOf(Events)
      /\ repairLog \in FileOf(RepairRecord) /\ runLog \in FileOf(RunRecord)
      /\ records \in [Sources -> Candidates \X (Docs \cup {NoDoc})]
      /\ cache \in [Sources -> [body : Docs \cup {NoDoc}, meta : Docs \cup {NoDoc}]]
      /\ nextId \in Nat /\ tears \in Nat /\ repairs \subseteq RepairRecord
  BY DEF TypeInv, TypeOK
<1>2. CASE Restart
  BY <1>1, <1>2, LoadType DEF Restart, files
<1>3. ASSUME Tear, eventLog' \in FileOf(Events), repairLog' \in FileOf(RepairRecord),
             runLog' \in FileOf(RunRecord)
      PROVE  TypeInv'
  <2>1. tears' \in Nat
    BY <1>1, <1>3 DEF Tear
  <2>2. QED BY <1>1, <1>3, <2>1, LoadType DEF Tear
<1>4. ASSUME NEW s \in Sources, TearEvents(s) PROVE TypeInv'
  <2>1. PICK written \in SUBSET NewEvents(s) : \E e \in NewEvents(s) \ written :
               \E f \in Appends(eventLog, written) : eventLog' \in TornAppend(f, e)
    BY <1>4 DEF TearEvents
  <2>2. PICK e \in NewEvents(s) \ written :
               \E f \in Appends(eventLog, written) : eventLog' \in TornAppend(f, e)
    BY <2>1
  <2>3. PICK f \in Appends(eventLog, written) : eventLog' \in TornAppend(f, e)
    BY <2>2
  <2>4. NewEvents(s) \subseteq Events
    BY DEF NewEvents, TypeInv, TypeOK, Job
  <2>5. f \in FileOf(Events)
    BY <1>1, <2>3, <2>4, LogType
  <2>6. eventLog' \in FileOf(Events)
    BY <2>2, <2>3, <2>4, <2>5, LogType
  <2>7. QED BY <1>1, <1>3, <1>4, <2>6 DEF TearEvents
<1>5. ASSUME NEW s \in Sources, TearRepair(s) PROVE TypeInv'
  <2>1. Repair(s, IF Heals(s) THEN "auto" ELSE "pending") \in RepairRecord
    BY <1>5, RepairType DEF TearRepair
  <2>2. repairLog' \in FileOf(RepairRecord)
    BY <1>1, <1>5, <2>1, LogType DEF TearRepair
  <2>3. QED BY <1>1, <1>3, <1>5, <2>2 DEF TearRepair
<1>6. ASSUME NEW s \in Sources, TearRun(s) PROVE TypeInv'
  <2>1. RunOf(s) \in RunRecord
    BY RunType
  <2>2. runLog' \in FileOf(RunRecord)
    BY <1>1, <1>6, <2>1, LogType DEF TearRun
  <2>3. QED BY <1>1, <1>3, <1>6, <2>2 DEF TearRun
<1>7. ASSUME NEW s \in Sources, TearState(s) PROVE TypeInv'
  <2>1. saved' \in [Sources -> SourceState] /\ temp' \in [Sources -> SUBSET SourceState]
    BY <1>7, AdvancedType, CutType DEF TearState
  <2>2. QED BY <1>1, <1>7, <2>1, LoadType DEF TearState
<1>8. ASSUME NEW s \in Sources, TearReview(s) PROVE TypeInv'
  <2>1. PICK pins \in SUBSET Decisions : CutSave(s, [states[s] EXCEPT !.pins = pins])
    BY <1>8 DEF TearReview
  <2>2. [states[s] EXCEPT !.pins = pins] \in SourceState
    BY <1>1 DEF SourceState
  <2>3. saved' \in [Sources -> SourceState] /\ temp' \in [Sources -> SUBSET SourceState]
    BY <2>1, <2>2, CutType
  <2>4. QED BY <1>1, <1>8, <2>3, LoadType DEF TearReview
<1>9. ASSUME NEW r \in repairs, TearApproval(r) PROVE TypeInv'
  <2>1. repairLog' \in FileOf(RepairRecord)
    BY <1>9, ApprovedType DEF TearApproval, Rewritten, FileOf
  <2>2. saved' \in [Sources -> SourceState] /\ temp' \in [Sources -> SUBSET SourceState]
    BY <1>1, <1>9, ApprovedType, CutType DEF TearApproval
  <2>3. QED BY <1>1, <1>9, <2>1, <2>2, LoadType DEF TearApproval
<1>10. ASSUME NEW s \in Sources, KillEvents(s) PROVE TypeInv'
  <2>1. NewEvents(s) \subseteq Events
    BY DEF NewEvents, TypeInv, TypeOK, Job
  <2>2. eventLog' \in FileOf(Events)
    BY <1>1, <1>10, <2>1, LogType DEF KillEvents
  <2>3. QED BY <1>1, <1>10, <2>2, LoadType DEF KillEvents
<1>11. QED BY <1>2, <1>4, <1>5, <1>6, <1>7, <1>8, <1>9, <1>10 DEF Crash

LEMMA TypeStep == TypeInv /\ [Next]_vars => TypeInv'
<1> SUFFICES ASSUME TypeInv, [Next]_vars PROVE TypeInv'
  OBVIOUS
<1>1. ASSUME NEW s \in Sources, Begin(s) \/ RunCached(s) \/ Step(s) \/ Review(s)
      PROVE  TypeInv'
  BY <1>1, JobSteps, FileSteps, LogSteps, OperatorSteps DEF Step
<1>2. ASSUME NEW r \in repairs, Approve(r) \/ Refuse(r) PROVE TypeInv'
  BY <1>2, OperatorSteps
<1>3. CASE Crash
  BY <1>3, CrashSteps
<1>4. CASE UNCHANGED vars
  BY <1>4 DEF vars, memory, files, TypeInv, TypeOK
<1>5. QED BY <1>1, <1>2, <1>3, <1>4 DEF Next

\* In every execution the engine's state has its type, and a run past the mapping
\* step has a document and a mapping with a field (pipeline.cpp ingest_model).
THEOREM Typed == Spec => []TypeInv
BY InitType, TypeStep, PTL DEF Spec

\* TypeOK, of every execution: for instance a baseline never leaves 0..Scale
\* (pipeline.cpp update_baseline).
THEOREM TypeCorrect == Spec => []TypeOK
<1>1. TypeInv => TypeOK
  BY DEF TypeInv
<1>2. QED BY <1>1, Typed, PTL

-----------------------------------------------------------------------------
(* What the engine's files hold: a restart loads what the process believed; the *)
(* events of a run recorded as done are in events.jsonl as long as no crash cut *)
(* a log line short, and each such crash costs two of them at most.             *)

\* Until then a log is in one piece: the lines in memory, each with its newline.
FilesInv ==
    /\ \A s \in Sources : states[s] = OnDisk(s)
    /\ Readable(eventLog) \subseteq known
    /\ Readable(repairLog) \subseteq repairs
    /\ tears = 0 =>
         /\ eventLog = Rewritten(known)
         /\ repairLog = Rewritten(repairs)
         /\ runLog = Rewritten(runLog.lines)
         /\ {Deserialize(run) : run \in runs} = {Deserialize(run) : run \in runLog.lines}

\* A run's events are known from the step that adds them to its record.
Added(s) == \/ work[s].pc \in {"records", "state"}
            \/ work[s].pc = "record" /\ work[s].stage = "done"

DurableInv ==
    /\ \A s \in Sources : Added(s) => work[s].batch \subseteq known
    /\ tears = 0 => \A run \in runs : run.stage = "done" => run.events \subseteq known

-----------------------------------------------------------------------------
(* Logs.                                                                     *)

LEMMA LogReads ==
    ASSUME NEW f, NEW Lines, f \in FileOf(Lines)
    PROVE  /\ \A all : Readable(Rewritten(all)) = all
           /\ \A x \in Lines : Readable(AppendLine(f, x)) \subseteq Readable(f) \cup {x}
           /\ \A new \in SUBSET Lines : \A g \in Appends(f, new) :
                Readable(g) \subseteq Readable(f) \cup new
           /\ \A x \in Lines : \A g \in TornAppend(f, x) :
                Readable(g) \subseteq Readable(f) \cup {x}
<1>1. \A all : Readable(Rewritten(all)) = all
  BY DEF Readable, Rewritten
<1>2. ASSUME NEW x \in Lines PROVE Readable(AppendLine(f, x)) \subseteq Readable(f) \cup {x}
  BY DEF Readable, AppendLine, Rewritten, FileOf
<1>3. ASSUME NEW new \in SUBSET Lines, NEW g \in Appends(f, new)
      PROVE  Readable(g) \subseteq Readable(f) \cup new
  <2>1. CASE f.dirty /\ new # {}
    <3>1. PICK first \in new : g = Rewritten(f.lines \cup (new \ {first}))
      BY <1>3, <2>1 DEF Appends
    <3>2. QED BY <1>1, <3>1 DEF Readable
  <2>2. CASE ~(f.dirty /\ new # {})
    <3>1. g = [f EXCEPT !.lines = @ \cup new]
      BY <1>3, <2>2 DEF Appends
    <3>2. QED BY <3>1 DEF Readable, FileOf
  <2>3. QED BY <2>1, <2>2
<1>4. ASSUME NEW x \in Lines, NEW g \in TornAppend(f, x)
      PROVE  Readable(g) \subseteq Readable(f) \cup {x}
  <2>1. PICK tail \in {{}, IF f.dirty THEN {} ELSE {x}} :
          g = [f EXCEPT !.last = tail, !.dirty = TRUE]
    BY <1>4 DEF TornAppend
  <2>2. QED BY <2>1 DEF Readable, FileOf
<1>5. QED BY <1>1, <1>2, <1>3, <1>4

\* Appending to a log in one piece leaves it in one piece.
LEMMA CleanAppends ==
    ASSUME NEW Lines
    PROVE  /\ \A x : AppendLine(Rewritten(Lines), x) = Rewritten(Lines \cup {x})
           /\ \A new : Appends(Rewritten(Lines), new) = {Rewritten(Lines \cup new)}
<1> DEFINE f == Rewritten(Lines)
<1>1. f.dirty = FALSE
  BY DEF Rewritten
<1>2. ASSUME NEW all PROVE [f EXCEPT !.lines = @ \cup all] = Rewritten(Lines \cup all)
  <2> DEFINE g == [f EXCEPT !.lines = @ \cup all]
  <2>1. f \in [lines : {Lines}, last : {{}}, dirty : BOOLEAN]
    BY DEF Rewritten
  <2>2. /\ g \in [lines : {Lines \cup all}, last : {{}}, dirty : BOOLEAN]
        /\ g.lines = Lines \cup all /\ g.last = {} /\ g.dirty = FALSE
    BY <1>1, <2>1
  <2> HIDE DEF g
  <2>3. g = [lines |-> Lines \cup all, last |-> {}, dirty |-> FALSE]
    BY <2>2
  <2>4. QED BY <2>3 DEF Rewritten, g
<1> HIDE DEF f
<1>3. \A x : AppendLine(f, x) = Rewritten(Lines \cup {x})
  BY <1>1, <1>2 DEF AppendLine
<1>4. \A new : Appends(f, new) = {Rewritten(Lines \cup new)}
  BY <1>1, <1>2 DEF Appends
<1>5. QED BY <1>3, <1>4 DEF f

LEMMA InitFiles == Init => FilesInv /\ DurableInv
<1> SUFFICES ASSUME Init PROVE FilesInv /\ DurableInv
  OBVIOUS
<1>1. \A s \in Sources : states[s] = OnDisk(s)
  BY DEF Init, OnDisk
<1>2. Blank = Rewritten({}) /\ Readable(Blank) = {} /\ Blank.lines = {}
  BY DEF Blank, Rewritten, Readable
<1>3. FilesInv
  BY <1>1, <1>2 DEF Init, FilesInv
<1>4. \A s \in Sources : ~Added(s)
  BY DEF Init, Idle, Added
<1>5. QED BY <1>3, <1>4 DEF Init, DurableInv

-----------------------------------------------------------------------------
(* The steps of a run.                                                       *)

\* Most steps of a run change neither what the store believes nor its logs.
Kept == UNCHANGED <<states, known, repairs, runs, saved, temp, eventLog, repairLog, runLog, tears>>

LEMMA KeptSteps ==
    ASSUME NEW s \in Sources,
           \/ Begin(s) \/ FetchFails(s) \/ Fetch(s) \/ SaveMeta(s) \/ RunCached(s) \/ Reject(s)
           \/ Learn(s) \/ Keep(s) \/ BuildBatch(s) \/ SaveRecords(s)
    PROVE  Kept
BY DEF Kept, Begin, FetchFails, Fetch, SaveMeta, RunCached, Reject, Learn, Keep, BuildBatch,
       SaveRecords, memory, files

LEMMA KeptFiles == FilesInv /\ Kept => FilesInv'
BY DEF FilesInv, Kept, OnDisk

\* A saved state is in its file, and nowhere else.
LEMMA SavedIsOnDisk ==
    ASSUME TypeInv, NEW s \in Sources, NEW st, SaveSourceState(s, st),
           \A t \in Sources : states[t] = OnDisk(t)
    PROVE  \A t \in Sources : states'[t] = OnDisk(t)'
<1> SUFFICES ASSUME NEW t \in Sources PROVE states'[t] = OnDisk(t)'
  OBVIOUS
<1>1. /\ states' = [states EXCEPT ![s] = st] /\ saved' = [saved EXCEPT ![s] = st]
      /\ temp' = [temp EXCEPT ![s] = {}]
  BY DEF SaveSourceState
<1>2. states \in [Sources -> SourceState] /\ saved \in [Sources -> SourceState]
      /\ temp \in [Sources -> SUBSET SourceState]
  BY DEF TypeInv, TypeOK
<1>3. CASE t = s
  BY <1>1, <1>2, <1>3 DEF OnDisk
<1>4. CASE t # s
  <2>1. states'[t] = states[t] /\ saved'[t] = saved[t] /\ temp'[t] = temp[t]
    BY <1>1, <1>2, <1>4
  <2>2. QED BY <2>1 DEF OnDisk
<1>5. QED BY <1>3, <1>4

LEMMA RunFiles ==
    ASSUME TypeInv, FilesInv, NEW s \in Sources, Begin(s) \/ RunCached(s) \/ Step(s)
    PROVE  FilesInv'
<1>1. /\ eventLog \in FileOf(Events) /\ repairLog \in FileOf(RepairRecord)
      /\ runLog \in FileOf(RunRecord) /\ work[s] \in Job /\ known \subseteq Events
  BY DEF TypeInv, TypeOK
<1>2. CASE \/ Begin(s) \/ FetchFails(s) \/ Fetch(s) \/ SaveMeta(s) \/ RunCached(s) \/ Reject(s)
           \/ Learn(s) \/ Keep(s) \/ BuildBatch(s) \/ SaveRecords(s)
  BY <1>2, KeptSteps, KeptFiles
<1>3. ASSUME NEW status \in {"auto", "pending"}, Readies(s), Drifts(s), LogRepair(s, status),
             UNCHANGED <<states, known, runs, saved, temp, eventLog, runLog, tears>>
      PROVE  FilesInv'
  <2>1. Repair(s, status) \in RepairRecord
    BY <1>3, RepairType
  <2>2. Readable(repairLog') \subseteq repairs'
    BY <1>1, <1>3, <2>1, LogReads DEF FilesInv, LogRepair
  <2>3. tears = 0 => repairLog' = Rewritten(repairs')
    BY <1>3, CleanAppends DEF FilesInv, LogRepair
  <2>4. QED BY <1>3, <2>2, <2>3 DEF FilesInv, OnDisk
<1>4. CASE AutoRepair(s)
  BY <1>3, <1>4 DEF AutoRepair
<1>5. CASE Quarantine(s)
  BY <1>3, <1>5 DEF Quarantine
<1>6. CASE AddEvents(s)
  <2>1. NewEvents(s) \in SUBSET Events /\ known' = known \cup NewEvents(s)
    BY <1>1, <1>6 DEF NewEvents, Job, AddEvents
  <2>2. Readable(eventLog') \subseteq known'
    BY <1>1, <1>6, <2>1, LogReads DEF FilesInv, AddEvents
  <2>3. tears = 0 => eventLog' = Rewritten(known')
    BY <1>6, <2>1, CleanAppends DEF FilesInv, AddEvents
  <2>4. QED BY <1>6, <2>2, <2>3 DEF AddEvents, FilesInv, OnDisk
<1>7. CASE SaveState(s)
  <2>1. \A t \in Sources : states'[t] = OnDisk(t)'
    BY <1>7, SavedIsOnDisk DEF SaveState, FilesInv
  <2>2. QED BY <1>7, <2>1 DEF SaveState, FilesInv
<1>8. CASE RecordRun(s)
  <2>1. ASSUME tears = 0
        PROVE  /\ runLog' = Rewritten(runLog'.lines)
               /\ {Deserialize(run) : run \in runs'} = {Deserialize(run) : run \in runLog'.lines}
    <3>1. runLog' = Rewritten(runLog.lines \cup {RunOf(s)})
      BY <1>8, <2>1, CleanAppends DEF FilesInv, RecordRun
    <3>2. runLog'.lines = runLog.lines \cup {RunOf(s)}
      BY <3>1 DEF Rewritten
    <3>3. runs' = runs \cup {RunOf(s)}
      BY <1>8 DEF RecordRun
    <3>4. {Deserialize(run) : run \in runs} = {Deserialize(run) : run \in runLog.lines}
      BY <2>1 DEF FilesInv
    <3>5. {Deserialize(run) : run \in runs'}
            = {Deserialize(run) : run \in runs} \cup {Deserialize(RunOf(s))}
      BY <3>3
    <3>6. {Deserialize(run) : run \in runLog'.lines}
            = {Deserialize(run) : run \in runLog.lines} \cup {Deserialize(RunOf(s))}
      BY <3>2
    <3>7. QED BY <3>1, <3>2, <3>4, <3>5, <3>6
  <2>2. QED BY <1>8, <2>1 DEF RecordRun, FilesInv, OnDisk
<1>9. QED BY <1>2, <1>4, <1>5, <1>6, <1>7, <1>8 DEF Step

\* The operator's changes.
LEMMA OperatorFiles ==
    ASSUME TypeInv, FilesInv,
           \/ \E s \in Sources : Review(s)
           \/ \E r \in repairs : Approve(r) \/ Refuse(r)
    PROVE  FilesInv'
<1>1. ASSUME NEW s \in Sources, Review(s) PROVE FilesInv'
  <2>1. PICK pins \in SUBSET Decisions : SaveSourceState(s, [states[s] EXCEPT !.pins = pins])
    BY <1>1 DEF Review
  <2>2. \A t \in Sources : states'[t] = OnDisk(t)'
    BY <2>1, SavedIsOnDisk DEF FilesInv
  <2>3. QED BY <1>1, <2>2 DEF Review, FilesInv
<1>2. ASSUME NEW r \in repairs, Approve(r) PROVE FilesInv'
  <2>1. \A t \in Sources : states'[t] = OnDisk(t)'
    BY <1>2, ApprovedType, SavedIsOnDisk DEF Approve, FilesInv
  <2>2. Readable(repairLog') = repairs'
    BY <1>2 DEF Approve, Readable, Rewritten
  <2>3. QED BY <1>2, <2>1, <2>2 DEF Approve, FilesInv
<1>3. ASSUME NEW r \in repairs, Refuse(r) PROVE FilesInv'
  <2>1. Readable(repairLog') = repairs'
    BY <1>3 DEF Refuse, Readable, Rewritten
  <2>2. QED BY <1>3, <2>1 DEF Refuse, FilesInv, OnDisk
<1>4. QED BY <1>1, <1>2, <1>3

-----------------------------------------------------------------------------
(* Crashes.                                                                  *)

\* A crash that cuts no log line leaves the logs in one piece: of the events, with
\* what a killed batch added to those that were known.
LEMMA CrashLogs ==
    ASSUME TypeInv, FilesInv, Crash
    PROVE  /\ Load
           /\ tears' = 0 => /\ tears = 0 /\ runLog' = runLog
                            /\ eventLog' = Rewritten(eventLog'.lines)
                            /\ known \subseteq eventLog'.lines
                            /\ repairLog' = Rewritten(repairLog'.lines)
<1>1. tears \in Nat
  BY DEF TypeInv, TypeOK
<1>2. Tear => Load /\ tears' # 0
  BY <1>1 DEF Tear
<1>3. \A all : Rewritten(all) = Rewritten(Rewritten(all).lines)
  BY DEF Rewritten
<1>4. tears = 0 => /\ repairLog = Rewritten(repairLog.lines)
                   /\ eventLog = Rewritten(eventLog.lines) /\ known \subseteq eventLog.lines
  <2>1. \A all : Rewritten(all).lines = all
    BY DEF Rewritten
  <2>2. QED BY <1>3, <2>1 DEF FilesInv
<1>5. CASE Restart
  BY <1>4, <1>5 DEF Restart, files
<1>6. ASSUME NEW s \in Sources, TearEvents(s) \/ TearRepair(s) \/ TearRun(s)
      PROVE  Load /\ tears' # 0
  BY <1>2, <1>6 DEF TearEvents, TearRepair, TearRun
<1>7. ASSUME NEW s \in Sources, TearState(s) \/ TearReview(s)
      PROVE  Load /\ UNCHANGED <<tears, eventLog, runLog, repairLog>>
  BY <1>7 DEF TearState, TearReview
<1>8. ASSUME NEW r \in repairs, TearApproval(r)
      PROVE  /\ Load /\ UNCHANGED <<tears, eventLog, runLog>>
             /\ repairLog' = Rewritten(repairLog'.lines)
  BY <1>3, <1>8 DEF TearApproval
<1>9. ASSUME NEW s \in Sources, KillEvents(s)
      PROVE  /\ Load /\ UNCHANGED <<tears, runLog, repairLog>>
             /\ tears = 0 => /\ eventLog' = Rewritten(eventLog'.lines)
                             /\ known \subseteq eventLog'.lines
  <2>1. PICK written \in SUBSET NewEvents(s) : eventLog' \in Appends(eventLog, written)
    BY <1>9 DEF KillEvents
  <2>2. tears = 0 => eventLog' = Rewritten(known \cup written)
    BY <2>1, CleanAppends DEF FilesInv
  <2>3. Rewritten(known \cup written).lines = known \cup written
    BY DEF Rewritten
  <2>4. QED BY <1>9, <2>2, <2>3 DEF KillEvents
<1>10. QED BY <1>4, <1>5, <1>6, <1>7, <1>8, <1>9 DEF Crash

\* What deserialize keeps of a run record.
LEMMA Deserialized ==
    ASSUME NEW run \in RunRecord
    PROVE  /\ Deserialize(run) \in RunRecord
           /\ Deserialize(run).stage = run.stage /\ Deserialize(run).events = run.events
           /\ Deserialize(Deserialize(run)) = Deserialize(run)
BY DEF Deserialize, RunRecord

LEMMA CrashFiles ==
    ASSUME TypeInv, FilesInv, Crash
    PROVE  FilesInv'
<1>1. Load
  BY CrashLogs
<1>2. \A s \in Sources : states'[s] = OnDisk(s)'
  BY <1>1 DEF Load
<1>3. /\ known' = Readable(eventLog') /\ repairs' = Readable(repairLog')
      /\ runs' = {Deserialize(run) : run \in Readable(runLog')}
  BY <1>1 DEF Load
<1>4. ASSUME tears' = 0
      PROVE  /\ eventLog' = Rewritten(known')
             /\ repairLog' = Rewritten(repairs')
             /\ runLog' = Rewritten(runLog'.lines)
             /\ {Deserialize(run) : run \in runs'} = {Deserialize(run) : run \in runLog'.lines}
  <2>1. /\ tears = 0 /\ eventLog' = Rewritten(eventLog'.lines) /\ runLog' = runLog
        /\ repairLog' = Rewritten(repairLog'.lines)
    BY <1>4, CrashLogs
  <2>2. runLog = Rewritten(runLog.lines)
    BY <2>1 DEF FilesInv
  <2>3. \A all : Readable(Rewritten(all)) = all
    BY DEF Readable, Rewritten
  <2>4. /\ known' = eventLog'.lines /\ repairs' = repairLog'.lines
        /\ Readable(runLog) = runLog.lines
    BY <1>3, <2>1, <2>2, <2>3
  <2>5. runLog.lines \subseteq RunRecord
    BY DEF TypeInv, TypeOK, FileOf
  <2>6. runs' = {Deserialize(run) : run \in runLog.lines}
    BY <1>3, <2>1, <2>4
  <2>7. \A q \in runLog.lines : Deserialize(Deserialize(q)) = Deserialize(q)
    BY <2>5, Deserialized
  <2>8. {Deserialize(run) : run \in runs'} = {Deserialize(run) : run \in runLog.lines}
    BY <2>6, <2>7
  <2>9. QED BY <2>1, <2>2, <2>4, <2>8
<1>5. QED BY <1>2, <1>3, <1>4 DEF FilesInv

LEMMA FilesStep == TypeInv /\ FilesInv /\ [Next]_vars => FilesInv'
<1> SUFFICES ASSUME TypeInv, FilesInv, [Next]_vars PROVE FilesInv'
  OBVIOUS
<1>1. CASE UNCHANGED vars
  BY <1>1, KeptFiles DEF vars, memory, files, Kept
<1>2. QED BY <1>1, RunFiles, OperatorFiles, CrashFiles DEF Next

-----------------------------------------------------------------------------
(* Delivery.                                                                 *)

LEMMA RunDurable ==
    ASSUME TypeInv, DurableInv, NEW s \in Sources, Begin(s) \/ RunCached(s) \/ Step(s)
    PROVE  DurableInv'
<1>1. work \in [Sources -> Job] /\ JobOK(work[s])
  BY DEF TypeInv, TypeOK
<1>2. ASSUME NEW job, work' = [work EXCEPT ![s] = job], known \subseteq known',
             \/ job.pc \notin {"records", "state", "record"}
             \/ job.pc = "record" /\ job.stage # "done"
             \/ job.batch \subseteq known'
      PROVE  \A t \in Sources : Added(t)' => work'[t].batch \subseteq known'
  <2> SUFFICES ASSUME NEW t \in Sources, Added(t)' PROVE work'[t].batch \subseteq known'
    OBVIOUS
  <2>1. CASE t = s
    BY <1>1, <1>2, <2>1 DEF Added
  <2>2. CASE t # s
    <3>1. work'[t] = work[t]
      BY <1>1, <1>2, <2>2
    <3>2. QED BY <1>2, <3>1 DEF Added, DurableInv
  <2>3. QED BY <2>1, <2>2
<1>3. CASE AddEvents(s)
  <2>1. work' = [work EXCEPT ![s] = [work[s] EXCEPT !.pc = "records"]]
    BY <1>1, <1>3 DEF AddEvents
  <2>2. [work[s] EXCEPT !.pc = "records"].batch \subseteq known'
    BY <1>1, <1>3 DEF AddEvents, Job
  <2>3. known \subseteq known' /\ runs' = runs /\ tears' = tears
    BY <1>3 DEF AddEvents
  <2>4. \A t \in Sources : Added(t)' => work'[t].batch \subseteq known'
    BY <1>2, <2>1, <2>2, <2>3
  <2>5. QED BY <2>3, <2>4 DEF DurableInv
<1>4. CASE SaveRecords(s) \/ SaveState(s)
  <2> DEFINE job == IF SaveRecords(s) THEN [work[s] EXCEPT !.pc = "state"]
                    ELSE [work[s] EXCEPT !.pc = "record", !.stage = "done"]
  <2>1. work' = [work EXCEPT ![s] = job] /\ UNCHANGED <<known, runs, tears>>
    BY <1>1, <1>4 DEF SaveRecords, SaveState, Conclude, memory
  <2>2. job.batch = work[s].batch
    BY <1>1 DEF Job
  <2>3. Added(s)
    BY <1>4 DEF SaveRecords, SaveState, Added
  <2> HIDE DEF job
  <2>4. job.batch \subseteq known'
    BY <2>1, <2>2, <2>3 DEF DurableInv
  <2>5. \A t \in Sources : Added(t)' => work'[t].batch \subseteq known'
    BY <1>2, <2>1, <2>4
  <2>6. QED BY <2>1, <2>5 DEF DurableInv
<1>5. CASE RecordRun(s)
  <2>1. work' = [work EXCEPT ![s] = Idle] /\ Idle.pc = "idle" /\ UNCHANGED <<known, tears>>
    BY <1>5 DEF RecordRun, Idle
  <2>2. \A t \in Sources : Added(t)' => work'[t].batch \subseteq known'
    BY <1>2, <2>1
  <2>3. RunOf(s).stage = "done" => RunOf(s).events \subseteq known
    BY <1>5 DEF RecordRun, RunOf, Added, DurableInv
  <2>4. QED BY <1>5, <2>1, <2>2, <2>3 DEF RecordRun, DurableInv
<1>6. ASSUME NEW job, work' = [work EXCEPT ![s] = job], UNCHANGED <<known, runs, tears>>,
             \/ job.pc \notin {"records", "state", "record"}
             \/ job.pc = "record" /\ job.stage # "done"
      PROVE  DurableInv'
  BY <1>2, <1>6 DEF DurableInv
<1>7. CASE Begin(s)
  BY <1>6, <1>7 DEF Begin, Idle, memory
<1>8. CASE RunCached(s)
  BY <1>6, <1>8 DEF RunCached, Idle, memory
<1>9. ASSUME NEW stage \in Stages \ {"done"}, Conclude(s, stage), UNCHANGED <<known, runs, tears>>
      PROVE  DurableInv'
  <2>1. work' = [work EXCEPT ![s] = [work[s] EXCEPT !.pc = "record", !.stage = stage]]
    BY <1>1, <1>9 DEF Conclude
  <2>2. [work[s] EXCEPT !.pc = "record", !.stage = stage].pc = "record"
        /\ [work[s] EXCEPT !.pc = "record", !.stage = stage].stage = stage
    BY <1>1 DEF Job
  <2>3. QED BY <1>6, <1>9, <2>1, <2>2
<1>10. CASE FetchFails(s)
  BY <1>9, <1>10 DEF FetchFails, Stages, memory
<1>11. CASE Reject(s)
  <2>1. StopsAt[work[s].doc] \in Stages \ {"done"}
    BY <1>1, <1>11, DocAssumption DEF Reject, JobOK, DocStages, Stages
  <2>2. QED BY <1>9, <1>11, <2>1 DEF Reject, memory
<1>12. CASE Fetch(s)
  <2>1. PICK d \in Docs : work' = [work EXCEPT ![s].pc = "fetched", ![s].doc = d]
    BY <1>12 DEF Fetch
  <2>2. work' = [work EXCEPT ![s] = [work[s] EXCEPT !.pc = "fetched", !.doc = d]]
    BY <1>1, <2>1
  <2>3. [work[s] EXCEPT !.pc = "fetched", !.doc = d].pc = "fetched"
    BY <1>1 DEF Job
  <2>4. QED BY <1>6, <1>12, <2>2, <2>3 DEF Fetch, memory
<1>13. CASE SaveMeta(s)
  <2>1. work' = [work EXCEPT ![s] = [work[s] EXCEPT !.pc = "ingest"]]
    BY <1>1, <1>13 DEF SaveMeta
  <2>2. [work[s] EXCEPT !.pc = "ingest"].pc = "ingest"
    BY <1>1 DEF Job
  <2>3. QED BY <1>6, <1>13, <2>1, <2>2 DEF SaveMeta, memory
<1>14. ASSUME NEW base, NEW good, NEW repaired, Settle(s, base, good, repaired),
              UNCHANGED <<known, runs, tears>>
       PROVE  DurableInv'
  <2> DEFINE m == Pin[states[s].pins][base][work[s].doc]
             state == [states[s] EXCEPT !.mapping = m, !.good = good]
             ended == [work[s] EXCEPT !.pc = "record", !.stage = "map",
                                      !.state = state, !.repaired = repaired]
             going == [work[s] EXCEPT !.pc = "batch", !.state = state, !.repaired = repaired]
  <2>1. work' = [work EXCEPT ![s] = IF m = NoMapping THEN ended ELSE going]
    BY <1>1, <1>14 DEF Settle
  <2> HIDE DEF m, state
  <2>2. ended.pc = "record" /\ ended.stage = "map" /\ going.pc = "batch"
    BY <1>1 DEF Job
  <2> HIDE DEF ended, going
  <2>3. QED BY <1>6, <1>14, <2>1, <2>2
<1>15. CASE Learn(s)
  BY <1>14, <1>15 DEF Learn, memory
<1>16. CASE Keep(s)
  BY <1>14, <1>16 DEF Keep, memory
<1>17. CASE AutoRepair(s)
  BY <1>14, <1>17 DEF AutoRepair
<1>a. CASE Quarantine(s)
  <2> DEFINE job == [work[s] EXCEPT !.pc = "record", !.stage = "map", !.state = states[s]]
  <2>1. work' = [work EXCEPT ![s] = job]
    BY <1>1, <1>a DEF Quarantine
  <2>2. job.pc = "record" /\ job.stage = "map"
    BY <1>1 DEF Job
  <2> HIDE DEF job
  <2>3. QED BY <1>6, <1>a, <2>1, <2>2 DEF Quarantine
<1>19. CASE BuildBatch(s)
  <2> DEFINE all == EventsOf[s][work[s].state.mapping][work[s].doc]
             batch == IF s \in Enrichment THEN {e \in all : PropertyOf[e] \in Tracked} ELSE all
             job == [work[s] EXCEPT !.pc = "events", !.batch = batch]
  <2>1. work' = [work EXCEPT ![s] = job]
    BY <1>1, <1>19 DEF BuildBatch
  <2> HIDE DEF batch
  <2>2. job.pc = "events"
    BY <1>1 DEF Job
  <2> HIDE DEF job
  <2>3. QED BY <1>6, <1>19, <2>1, <2>2 DEF BuildBatch, memory
<1>20. QED
  BY <1>3, <1>4, <1>5, <1>7, <1>8, <1>10, <1>11, <1>12, <1>13, <1>15, <1>16, <1>17, <1>a, <1>19
     DEF Step

LEMMA DurableStep == TypeInv /\ FilesInv /\ DurableInv /\ [Next]_vars => DurableInv'
<1> SUFFICES ASSUME TypeInv, FilesInv, DurableInv, [Next]_vars PROVE DurableInv'
  OBVIOUS
<1>1. work \in [Sources -> Job]
  BY DEF TypeInv, TypeOK
<1>2. ASSUME NEW s \in Sources, Review(s) PROVE DurableInv'
  <2>1. work' = [work EXCEPT ![s] = [Idle EXCEPT !.pc = "start", !.id = nextId]]
        /\ UNCHANGED <<known, runs, tears>>
    BY <1>2 DEF Review
  <2>2. ~Added(s)'
    BY <1>1, <2>1 DEF Added, Idle
  <2>3. \A t \in Sources : t # s => work'[t] = work[t]
    BY <1>1, <2>1
  <2>4. QED BY <2>1, <2>2, <2>3 DEF DurableInv, Added
<1>3. ASSUME NEW r \in repairs, Approve(r) \/ Refuse(r) PROVE DurableInv'
  BY <1>3 DEF Approve, Refuse, DurableInv, Added
<1>4. CASE Crash
  <2>1. Load
    BY <1>4, CrashLogs
  <2>2. \A t \in Sources : ~Added(t)'
    BY <2>1 DEF Load, Idle, Added
  <2>3. ASSUME tears' = 0, NEW run \in runs', run.stage = "done"
        PROVE  run.events \subseteq known'
    <3>1. tears = 0 /\ runLog' = runLog /\ known \subseteq eventLog'.lines
      BY <1>4, <2>3, CrashLogs
    <3>2. known \subseteq known'
      BY <2>1, <3>1 DEF Load, Readable
    <3>3. Readable(runLog) = runLog.lines
      BY <3>1 DEF FilesInv, Readable, Rewritten
    <3>4. PICK q \in runLog.lines : run = Deserialize(q)
      BY <2>1, <2>3, <3>1, <3>3 DEF Load
    <3>5. PICK p \in runs : Deserialize(p) = Deserialize(q)
      BY <3>1, <3>4 DEF FilesInv
    <3>6. p \in RunRecord
      BY DEF TypeInv, TypeOK
    <3>7. p.stage = "done" /\ p.events = run.events
      BY <2>3, <3>4, <3>5, <3>6, Deserialized
    <3>8. QED BY <3>1, <3>2, <3>7 DEF DurableInv
  <2>4. QED BY <2>2, <2>3 DEF DurableInv
<1>5. CASE UNCHANGED vars
  BY <1>5 DEF vars, memory, DurableInv, Added
<1>6. QED BY <1>2, <1>3, <1>4, <1>5, RunDurable DEF Next

-----------------------------------------------------------------------------
(* Losses.                                                                   *)

\* At most one line has no newline, and it ends a dirty file.
Ended(f) ==
    /\ ~f.dirty => f.last = {}
    /\ f.last = {} \/ \E line : f.last = {line}

\* The lines the next append to a dirty file can cost: its end, and the line itself.
AtStake(f) == IF ~f.dirty THEN 0 ELSE IF f.last = {} THEN 1 ELSE 2

\* All but a few of `seen` can be read from f, and will be after its next append.
Misses(f, seen, bound) ==
    \E gone : /\ IsFiniteSet(gone)
              /\ Cardinality(gone) + AtStake(f) <= bound
              /\ seen \subseteq Readable(f) \cup gone

\* The events of finished runs, of those whose record a restart would find included.
Reported == UNION {run.events : run \in {r \in runs \cup Readable(runLog) : r.stage = "done"}}

LossInv == Ended(eventLog) /\ Misses(eventLog, known \cup Reported, 2 * tears)

LEMMA MissesLess ==
    ASSUME NEW f, NEW seen, NEW more, NEW m \in Nat, NEW n \in Nat,
           Misses(f, more, m), seen \subseteq more \cup Readable(f), m <= n
    PROVE  Misses(f, seen, n)
<1>1. PICK gone : /\ IsFiniteSet(gone) /\ Cardinality(gone) + AtStake(f) <= m
                  /\ more \subseteq Readable(f) \cup gone
  BY DEF Misses
<1>2. Cardinality(gone) \in Nat /\ AtStake(f) \in Nat
  BY <1>1, FS_CardinalityType DEF AtStake
<1>3. Cardinality(gone) + AtStake(f) <= n
  BY <1>1, <1>2
<1>4. seen \subseteq Readable(f) \cup gone
  BY <1>1
<1>5. QED BY <1>1, <1>3, <1>4 DEF Misses

\* Lines that are glued to the end of a dirty file were at stake before.
LEMMA AppendsMiss ==
    ASSUME NEW Lines, NEW f \in FileOf(Lines), NEW new \in SUBSET Lines, NEW g \in Appends(f, new),
           NEW seen, NEW n \in Nat, Ended(f), Misses(f, seen, n)
    PROVE  Ended(g) /\ Misses(g, seen \cup new, n)
<1>1. PICK gone : /\ IsFiniteSet(gone) /\ Cardinality(gone) + AtStake(f) <= n
                  /\ seen \subseteq Readable(f) \cup gone
  BY DEF Misses
<1>2. Cardinality(gone) \in Nat
  BY <1>1, FS_CardinalityType
<1>3. CASE f.dirty /\ new # {}
  <2>1. PICK first \in new : g = Rewritten(f.lines \cup (new \ {first}))
    BY <1>3 DEF Appends
  <2>2. /\ Ended(g) /\ AtStake(g) = 0
        /\ Readable(g) = f.lines \cup (new \ {first})
    BY <2>1 DEF Ended, AtStake, Rewritten, Readable
  <2>3. PICK more :
          /\ more = gone \cup {first} /\ IsFiniteSet(more)
          /\ Cardinality(more) \in Nat /\ Cardinality(more) <= Cardinality(gone) + 1
    <3>1. /\ IsFiniteSet(gone \cup {first}) /\ Cardinality(gone \cup {first}) \in Nat
          /\ Cardinality(gone \cup {first}) <= Cardinality(gone) + 1
      BY <1>1, <1>2, FS_AddElement
    <3>2. QED BY <3>1, Zenon
  <2>4. CASE f.last = {}
    <3>1. AtStake(f) = 1 /\ Readable(f) = f.lines
      BY <1>3, <2>4 DEF AtStake, Readable
    <3>2. Cardinality(more) + AtStake(g) <= n
      BY <1>1, <1>2, <2>2, <2>3, <3>1
    <3>3. seen \cup new \subseteq Readable(g) \cup more
      BY <1>1, <2>2, <2>3, <3>1
    <3>4. QED BY <2>2, <2>3, <3>2, <3>3 DEF Misses
  <2>5. ASSUME NEW line, f.last = {line} PROVE Misses(g, seen \cup new, n)
    <3>1. AtStake(f) = 2 /\ Readable(f) = f.lines \cup {line}
      BY <1>3, <2>5 DEF AtStake, Readable
    <3>2. /\ IsFiniteSet(more \cup {line})
          /\ Cardinality(more \cup {line}) \in Nat
          /\ Cardinality(more \cup {line}) <= Cardinality(more) + 1
      BY <2>3, FS_AddElement
    <3>3. Cardinality(more \cup {line}) + AtStake(g) <= n
      BY <1>1, <1>2, <2>2, <2>3, <3>1, <3>2
    <3>4. seen \cup new \subseteq Readable(g) \cup (more \cup {line})
      BY <1>1, <2>2, <2>3, <3>1
    <3>5. QED BY <3>2, <3>3, <3>4 DEF Misses
  <2>6. QED BY <2>2, <2>4, <2>5 DEF Ended
<1>4. CASE ~(f.dirty /\ new # {})
  <2>1. g = [f EXCEPT !.lines = @ \cup new]
    BY <1>4 DEF Appends
  <2>2. g.dirty = f.dirty /\ g.last = f.last /\ Readable(g) = Readable(f) \cup new
    BY <2>1 DEF FileOf, Readable
  <2>3. AtStake(g) = AtStake(f) /\ Ended(g)
    BY <2>2 DEF AtStake, Ended
  <2>4. seen \cup new \subseteq Readable(g) \cup gone
    BY <1>1, <2>2
  <2>5. QED BY <1>1, <2>3, <2>4 DEF Misses
<1>5. QED BY <1>3, <1>4

\* A line cut short puts itself at stake, and the line appended after it.
LEMMA TornMisses ==
    ASSUME NEW Lines, NEW f \in FileOf(Lines), NEW line \in Lines, NEW g \in TornAppend(f, line),
           NEW seen, NEW n \in Nat, Ended(f), Misses(f, seen, n)
    PROVE  Ended(g) /\ Misses(g, seen, n + 2)
<1>1. PICK gone : /\ IsFiniteSet(gone) /\ Cardinality(gone) + AtStake(f) <= n
                  /\ seen \subseteq Readable(f) \cup gone
  BY DEF Misses
<1>2. Cardinality(gone) \in Nat
  BY <1>1, FS_CardinalityType
<1>3. PICK tail \in {{}, IF f.dirty THEN {} ELSE {line}} : g = [f EXCEPT !.last = tail, !.dirty = TRUE]
  BY DEF TornAppend
<1>4. g.lines = f.lines /\ g.last = tail /\ g.dirty
  BY <1>3 DEF FileOf
<1>5. Ended(g) /\ AtStake(g) \in {1, 2}
  BY <1>3, <1>4 DEF Ended, AtStake
<1>6. CASE f.last = {}
  <2>1. Readable(f) \subseteq Readable(g) /\ AtStake(f) \in Nat
    BY <1>4, <1>6 DEF Readable, AtStake
  <2>2. Cardinality(gone) + AtStake(g) <= n + 2
    BY <1>1, <1>2, <1>5, <2>1
  <2>3. seen \subseteq Readable(g) \cup gone
    BY <1>1, <2>1
  <2>4. QED BY <1>1, <1>5, <2>2, <2>3 DEF Misses
<1>7. ASSUME NEW old, f.last = {old} PROVE Misses(g, seen, n + 2)
  <2>1. Readable(f) \subseteq Readable(g) \cup {old} /\ AtStake(f) \in Nat
    BY <1>4, <1>7 DEF Readable, AtStake
  <2>2. f.dirty /\ AtStake(f) = 2
    BY <1>7 DEF Ended, AtStake
  <2>3. IsFiniteSet(gone \cup {old}) /\ Cardinality(gone \cup {old}) <= Cardinality(gone) + 1
        /\ Cardinality(gone \cup {old}) \in Nat
    BY <1>1, <1>2, FS_AddElement
  <2>4. Cardinality(gone \cup {old}) + AtStake(g) <= n + 2
    BY <1>1, <1>2, <1>5, <2>2, <2>3
  <2>5. seen \subseteq Readable(g) \cup (gone \cup {old})
    BY <1>1, <2>1
  <2>6. QED BY <2>3, <2>4, <2>5 DEF Misses
<1>8. QED BY <1>5, <1>6, <1>7 DEF Ended

LEMMA InitLoss == Init => LossInv
<1> SUFFICES ASSUME Init PROVE LossInv
  OBVIOUS
<1>1. Ended(eventLog) /\ AtStake(eventLog) = 0
  BY DEF Init, Blank, Ended, AtStake
<1>2. known \cup Reported = {}
  BY DEF Init, Blank, Readable, Reported
<1>3. IsFiniteSet({}) /\ Cardinality({}) + AtStake(eventLog) <= 2 * tears
  BY <1>1, FS_EmptySet DEF Init
<1>4. QED BY <1>1, <1>2, <1>3 DEF LossInv, Misses

\* A run that is recorded as done has added its events.
LEMMA ReportedAdded ==
    ASSUME TypeInv, DurableInv, NEW s \in Sources, work[s].pc = "record",
           runs' \subseteq {Deserialize(run) : run \in runs \cup Readable(runLog) \cup {RunOf(s)}}
                            \cup runs \cup {RunOf(s)},
           Readable(runLog') \subseteq Readable(runLog) \cup {RunOf(s)}
    PROVE  Reported' \subseteq known \cup Reported
<1> SUFFICES ASSUME NEW run \in runs' \cup Readable(runLog'), run.stage = "done"
             PROVE  run.events \subseteq known \cup Reported
  BY DEF Reported
<1>1. RunOf(s) \in RunRecord
  BY RunType
<1>2. runs \cup Readable(runLog) \subseteq RunRecord
  BY DEF TypeInv, TypeOK, FileOf, Readable
<1>3. PICK r \in runs \cup Readable(runLog) \cup {RunOf(s)} :
        r.stage = run.stage /\ r.events = run.events
  BY <1>1, <1>2, Deserialized
<1>4. CASE r \in runs \cup Readable(runLog)
  BY <1>3, <1>4 DEF Reported
<1>5. CASE r = RunOf(s)
  <2>1. r.stage = work[s].stage /\ r.events = work[s].batch
    BY <1>5 DEF RunOf
  <2>2. QED BY <1>3, <2>1 DEF Added, DurableInv
<1>6. QED BY <1>3, <1>4, <1>5

\* A restart knows what it reads, and reports no more than was reported.
LEMMA LoadReports ==
    ASSUME TypeInv, Load, Readable(runLog') \subseteq Readable(runLog)
    PROVE  Reported' \subseteq Reported
<1> SUFFICES ASSUME NEW run \in runs' \cup Readable(runLog'), run.stage = "done"
             PROVE  run.events \subseteq Reported
  BY DEF Reported
<1>1. Readable(runLog) \subseteq RunRecord
  BY DEF TypeInv, TypeOK, FileOf, Readable
<1>2. PICK r \in Readable(runLog) : r.stage = run.stage /\ r.events = run.events
  BY <1>1, Deserialized DEF Load
<1>3. QED BY <1>2 DEF Reported

LEMMA LossStep == TypeInv /\ DurableInv /\ LossInv /\ [Next]_vars => LossInv'
<1> SUFFICES ASSUME TypeInv, DurableInv, LossInv, [Next]_vars PROVE LossInv'
  OBVIOUS
<1>1. /\ eventLog \in FileOf(Events) /\ runLog \in FileOf(RunRecord) /\ tears \in Nat
      /\ work \in [Sources -> Job] /\ known \subseteq Events
  BY DEF TypeInv, TypeOK
<1>a. PICK seen, bound : bound \in Nat /\ seen = known \cup Reported /\ bound = 2 * tears
  <2>1. tears \in Nat
    BY <1>1
  <2>2. 2 * tears \in Nat
    BY <2>1
  <2> DEFINE all == known \cup Reported
             both == 2 * tears
  <2>3. \E seen, bound : bound \in Nat /\ seen = all /\ bound = both
    <3> HIDE DEF all
    <3>1. \E seen : seen = all
      OBVIOUS
    <3>2. QED BY <2>2, <3>1
  <2>4. QED BY <2>3
<1>b. bound \in Nat /\ Ended(eventLog) /\ Misses(eventLog, seen, bound)
  BY <1>a DEF LossInv
<1>2. ASSUME UNCHANGED <<known, eventLog, runs, runLog, tears>> PROVE LossInv'
  BY <1>2 DEF LossInv, Reported, Readable
<1>3. ASSUME eventLog' = eventLog, tears' \in {tears, tears + 1},
             known' \cup Reported' \subseteq seen \cup Readable(eventLog)
      PROVE  LossInv'
  <2>1. PICK later \in Nat : later = 2 * tears' /\ bound <= later
    <3>1. \A t \in Nat : 2 * t \in Nat /\ 2 * (t + 1) \in Nat /\ 2 * t <= 2 * (t + 1)
      OBVIOUS
    <3>2. tears \in Nat /\ tears' \in {tears, tears + 1} /\ bound = 2 * tears
      BY <1>1, <1>3, <1>a
    <3>3. 2 * tears' \in Nat /\ bound <= 2 * tears'
      <4>1. CASE tears' = tears
        BY <3>1, <3>2, <4>1
      <4>2. CASE tears' = tears + 1
        BY <3>1, <3>2, <4>2
      <4>3. QED BY <3>2, <4>1, <4>2
    <3>4. QED BY <3>3
  <2>2. Misses(eventLog, known' \cup Reported', later)
    BY <1>b, <1>3, <2>1, MissesLess
  <2>3. QED BY <1>b, <1>3, <2>1, <2>2 DEF LossInv
<1>4. ASSUME NEW s \in Sources, AddEvents(s) PROVE LossInv'
  <2>1. NewEvents(s) \in SUBSET Events /\ known' = known \cup NewEvents(s)
    BY <1>1, <1>4 DEF NewEvents, Job, AddEvents
  <2>2. Reported' = Reported /\ tears' = tears
    BY <1>4 DEF AddEvents, Reported, Readable
  <2>3. eventLog' \in Appends(eventLog, NewEvents(s))
    BY <1>4 DEF AddEvents
  <2>4. Ended(eventLog') /\ Misses(eventLog', seen \cup NewEvents(s), bound)
    BY <1>b, <1>1, <2>1, <2>3, AppendsMiss
  <2>5. seen \cup NewEvents(s) = known' \cup Reported'
    BY <1>a, <2>1, <2>2
  <2>6. QED BY <1>a, <2>2, <2>4, <2>5 DEF LossInv
<1>5. ASSUME NEW s \in Sources, RecordRun(s) PROVE LossInv'
  <2>1. RunOf(s) \in RunRecord
    BY <1>5, RunType DEF RecordRun
  <2>2. Readable(runLog') \subseteq Readable(runLog) \cup {RunOf(s)}
    BY <1>1, <1>5, <2>1, LogReads DEF RecordRun
  <2>3. Reported' \subseteq seen
    BY <1>a, <1>5, <2>2, ReportedAdded DEF RecordRun
  <2>4. QED BY <1>a, <1>3, <1>5, <2>3 DEF RecordRun
<1>6. ASSUME NEW s \in Sources, TearEvents(s) PROVE LossInv'
  <2>1. PICK written \in SUBSET NewEvents(s) : \E e \in NewEvents(s) \ written :
          \E f \in Appends(eventLog, written) : eventLog' \in TornAppend(f, e)
    BY <1>6 DEF TearEvents
  <2>2. PICK e \in NewEvents(s) \ written, f \in Appends(eventLog, written) :
          eventLog' \in TornAppend(f, e)
    BY <2>1
  <2>3. written \in SUBSET Events /\ e \in Events
    BY <1>1, <1>6, <2>1, <2>2 DEF NewEvents, Job
  <2>4. f \in FileOf(Events)
    BY <1>1, <2>2, <2>3, LogType
  <2>5. Ended(f) /\ Misses(f, seen \cup written, bound)
    BY <1>b, <1>1, <2>2, <2>3, AppendsMiss
  <2>6. Ended(eventLog') /\ Misses(eventLog', seen \cup written, bound + 2)
    BY <1>b, <2>2, <2>3, <2>4, <2>5, TornMisses
  <2>7. known' = Readable(eventLog') /\ Reported' \subseteq Reported /\ tears' = tears + 1
    BY <1>6, LoadReports DEF TearEvents, Tear, Load
  <2>8. bound + 2 = 2 * tears' /\ bound + 2 \in Nat
    BY <1>a, <1>1, <2>7
  <2>9. Misses(eventLog', known' \cup Reported', bound + 2)
    BY <1>a, <2>6, <2>7, <2>8, MissesLess
  <2>10. QED BY <2>6, <2>8, <2>9 DEF LossInv
<1>7. ASSUME NEW s \in Sources, TearRun(s) PROVE LossInv'
  <2>1. RunOf(s) \in RunRecord
    BY <1>7, RunType DEF TearRun
  <2>2. Readable(runLog') \subseteq Readable(runLog) \cup {RunOf(s)}
    BY <1>1, <1>7, <2>1, LogReads DEF TearRun
  <2>3. runs' = {Deserialize(run) : run \in Readable(runLog')}
    BY <1>7 DEF TearRun, Tear, Load
  <2>4. Reported' \subseteq seen
    BY <1>a, <1>7, <2>2, <2>3, ReportedAdded DEF TearRun
  <2>5. eventLog' = eventLog /\ tears' = tears + 1 /\ known' = Readable(eventLog)
    BY <1>7 DEF TearRun, Tear, Load
  <2>6. QED BY <1>3, <2>4, <2>5
<1>8. ASSUME Load, UNCHANGED <<eventLog, runLog>>, tears' \in {tears, tears + 1} PROVE LossInv'
  <2>1. Reported' \subseteq Reported /\ known' = Readable(eventLog)
    BY <1>8, LoadReports DEF Load
  <2>2. QED BY <1>a, <1>3, <1>8, <2>1
<1>9. ASSUME NEW s \in Sources, TearRepair(s) \/ TearState(s) \/ TearReview(s) PROVE LossInv'
  BY <1>8, <1>9 DEF TearRepair, TearState, TearReview, Tear
<1>10. ASSUME NEW r \in repairs, TearApproval(r) PROVE LossInv'
  BY <1>8, <1>10 DEF TearApproval
<1>11. CASE Restart
  BY <1>8, <1>11 DEF Restart, files
<1>c. ASSUME NEW s \in Sources, KillEvents(s) PROVE LossInv'
  <2>1. PICK written \in SUBSET NewEvents(s) : eventLog' \in Appends(eventLog, written)
    BY <1>c DEF KillEvents
  <2>2. written \in SUBSET Events
    BY <1>1, <2>1 DEF NewEvents, Job
  <2>3. Ended(eventLog') /\ Misses(eventLog', seen \cup written, bound)
    BY <1>b, <1>1, <2>1, <2>2, AppendsMiss
  <2>4. known' = Readable(eventLog') /\ Reported' \subseteq Reported /\ tears' = tears
    BY <1>c, LoadReports DEF KillEvents, Load
  <2>5. Misses(eventLog', known' \cup Reported', bound)
    BY <1>a, <2>3, <2>4, MissesLess
  <2>6. QED BY <1>a, <2>3, <2>4, <2>5 DEF LossInv
<1>12. CASE Crash
  BY <1>6, <1>7, <1>9, <1>10, <1>11, <1>12, <1>c DEF Crash
<1>13. ASSUME NEW s \in Sources,
              \/ Begin(s) \/ FetchFails(s) \/ Fetch(s) \/ SaveMeta(s) \/ RunCached(s) \/ Reject(s)
              \/ Learn(s) \/ Keep(s) \/ BuildBatch(s) \/ SaveRecords(s)
       PROVE  LossInv'
  BY <1>2, <1>13, KeptSteps DEF Kept
<1>14. ASSUME NEW s \in Sources, AutoRepair(s) \/ Quarantine(s) \/ SaveState(s) \/ Review(s)
       PROVE  LossInv'
  BY <1>2, <1>14 DEF AutoRepair, Quarantine, SaveState, Review
<1>15. ASSUME NEW r \in repairs, Approve(r) \/ Refuse(r) PROVE LossInv'
  BY <1>2, <1>15 DEF Approve, Refuse
<1>16. CASE UNCHANGED vars
  BY <1>2, <1>16 DEF vars, memory, files
<1>17. QED
  BY <1>4, <1>5, <1>12, <1>13, <1>14, <1>15, <1>16 DEF Next, Step

-----------------------------------------------------------------------------
(* The theorems.                                                             *)

LEMMA FilesAndDelivery == Spec => [](TypeInv /\ FilesInv /\ DurableInv)
<1>1. Init => TypeInv /\ FilesInv /\ DurableInv
  BY InitType, InitFiles
<1>2. TypeInv /\ FilesInv /\ DurableInv /\ [Next]_vars => (TypeInv /\ FilesInv /\ DurableInv)'
  BY TypeStep, FilesStep, DurableStep
<1>3. QED BY <1>1, <1>2, PTL DEF Spec

\* A process killed at any step starts again from what it believed: the learned
\* states always, the logs until a crash cuts a line short (store.cpp load).
THEOREM RestartLosesNothing == Spec => []MemoryMatchesFiles
<1>1. FilesInv => MemoryMatchesFiles
  <2> SUFFICES ASSUME FilesInv PROVE MemoryMatchesFiles
    OBVIOUS
  <2>1. \A all : Readable(Rewritten(all)) = all
    BY DEF Readable, Rewritten
  <2>2. tears = 0 => /\ known = Readable(eventLog) /\ repairs = Readable(repairLog)
                     /\ runLog.lines = Readable(runLog)
    BY <2>1 DEF FilesInv
  <2>3. tears = 0 => {Deserialize(run) : run \in runs}
                       = {Deserialize(run) : run \in Readable(runLog)}
    BY <2>2 DEF FilesInv
  <2>4. QED BY <2>2, <2>3 DEF FilesInv, MemoryMatchesFiles
<1>2. QED BY <1>1, FilesAndDelivery, PTL

\* However runs and crashes interleave, the events of a run recorded as done are
\* in events.jsonl (pipeline.cpp ingest_model: add_events before record_run).
THEOREM DoneIsDurable == Spec => []DoneRunsAreDurable
<1>1. FilesInv /\ DurableInv => DoneRunsAreDurable
  <2> SUFFICES ASSUME FilesInv, DurableInv, tears = 0, NEW e \in Delivered
               PROVE  e \in Readable(eventLog)
    BY DEF DoneRunsAreDurable
  <2>1. e \in known
    BY DEF Delivered, DurableInv
  <2>2. QED BY <2>1 DEF FilesInv, Readable, Rewritten
<1>2. QED BY <1>1, FilesAndDelivery, PTL

\* However often crashes cut a line short, and whatever is appended after it, each
\* costs the log two events of finished runs at most (core.cpp append_line).
THEOREM LossIsBounded == Spec => []LossBound
<1>1. LossInv /\ TypeInv => LossBound
  <2> SUFFICES ASSUME LossInv, TypeInv PROVE LossBound
    OBVIOUS
  <2>1. PICK gone : /\ IsFiniteSet(gone) /\ Cardinality(gone) + AtStake(eventLog) <= 2 * tears
                    /\ known \cup Reported \subseteq Readable(eventLog) \cup gone
    BY DEF LossInv, Misses
  <2>2. Delivered \ Readable(eventLog) \in SUBSET gone
    BY <2>1 DEF Delivered, Reported
  <2>3. /\ Cardinality(Delivered \ Readable(eventLog)) <= Cardinality(gone)
        /\ IsFiniteSet(Delivered \ Readable(eventLog))
    BY <2>1, <2>2, FS_Subset
  <2>4. /\ Cardinality(gone) \in Nat /\ Cardinality(Delivered \ Readable(eventLog)) \in Nat
        /\ AtStake(eventLog) \in Nat /\ 2 * tears \in Nat
    BY <2>1, <2>3, FS_CardinalityType DEF AtStake, TypeInv, TypeOK
  <2>5. QED BY <2>1, <2>3, <2>4 DEF LossBound
<1>2. TypeInv /\ FilesInv /\ DurableInv /\ LossInv /\ [Next]_vars
        => (TypeInv /\ FilesInv /\ DurableInv /\ LossInv)'
  BY TypeStep, FilesStep, DurableStep, LossStep
<1>3. Init => TypeInv /\ FilesInv /\ DurableInv /\ LossInv
  BY InitType, InitFiles, InitLoss
<1>4. QED BY <1>1, <1>2, <1>3, PTL DEF Spec

-----------------------------------------------------------------------------
(* Why the learned state of a source changes: a mapping only with a record of   *)
(* the reason, a baseline never by more than a run may take, a pinned decision  *)
(* only by a crash; and that a repair is decided once.                          *)

\* A run before it read the learned state, and one that has settled on a mapping.
Early(s) == work[s].pc \in {"start", "fetched", "ingest"}
Settled(s) == work[s].pc \in {"batch", "events", "records", "state"}

\* Ids are given once, and a run has logged no repair before it read the state.
IdsInv ==
    /\ \A r, q \in repairs : r.id = q.id => r = q
    /\ \A r \in repairs : r.id < nextId
    /\ \A s \in Sources : work[s].pc # "idle" => work[s].id < nextId
    /\ \A s, t \in Sources :
         work[s].pc # "idle" /\ work[t].pc # "idle" /\ work[s].id = work[t].id => s = t
    /\ \A s \in Sources : Early(s) => \A r \in repairs : r.id # work[s].id

\* The run's repair, if it made one, is in the log.
Repaired(s) ==
    \E r \in repairs : /\ r.source = s /\ r.status = "auto"
                       /\ r.id = work[s].id /\ r.before = states[s].mapping

\* The state of a source does not change under a run that read it; the mapping the
\* run settled on extracts enough, or replaces one that was repaired.
SettledOK(s) ==
    Settled(s) =>
      /\ work[s].state.pins = states[s].pins
      /\ work[s].state.baseline = states[s].baseline
      /\ states[s].pins = {} =>
           /\ states[s].mapping \notin {NoMapping, work[s].state.mapping} => Repaired(s)
           /\ states[s].good > 0 =>
                IF work[s].state.good > 0 THEN 10 * JobRate(s) >= 6 * states[s].baseline
                                          ELSE Recovered(states[s].baseline, JobRate(s))

\* Good runs are runs of a mapping.
Earned(st) == st.good > 0 => st.mapping # NoMapping

EarnedInv ==
    \A s \in Sources : Earned(states[s]) /\ Earned(saved[s]) /\ \A st \in temp[s] : Earned(st)

\* What an enrichment run is about to add was filtered by what is tracked.
FilteredInv ==
    \A s \in Enrichment : work[s].pc = "events" =>
        \A e \in work[s].batch : PropertyOf[e] \in Tracked

HistoryInv ==
    /\ IdsInv
    /\ \A s \in Sources : SettledOK(s)
    /\ EarnedInv
    /\ FilteredInv

-----------------------------------------------------------------------------
(* What the steps have in common.                                            *)

LEMMA InitHistory == Init => HistoryInv
<1> SUFFICES ASSUME Init PROVE HistoryInv
  OBVIOUS
<1>1. \A s \in Sources : work[s].pc = "idle"
  BY DEF Init, Idle
<1>2. IdsInv
  BY <1>1 DEF Init, IdsInv, Early
<1>3. \A s \in Sources : SettledOK(s)
  BY <1>1 DEF SettledOK, Settled
<1>4. EarnedInv
  BY DEF Init, EarnedInv, Earned, NewState
<1>5. FilteredInv
  BY <1>1, SourcesAssumption DEF FilteredInv
<1>6. QED BY <1>2, <1>3, <1>4, <1>5 DEF HistoryInv

\* What a step of a run does to its job, to the repairs and to the states.
LEMMA JobMoves ==
    ASSUME TypeInv, NEW s \in Sources, Step(s)
    PROVE  /\ \A t \in Sources : t # s => work'[t] = work[t]
           /\ nextId' = nextId
           /\ work[s].pc # "idle"
           /\ work'[s].pc # "idle" => work'[s].id = work[s].id
           /\ Early(s)' => Early(s) /\ repairs' = repairs
           /\ \/ repairs' = repairs
              \/ \E status \in {"auto", "pending"} :
                   repairs' = repairs \cup {Repair(s, status)} /\ Early(s) /\ ~Early(s)'
           /\ \/ Learn(s) \/ Keep(s) \/ AutoRepair(s) \/ ~Settled(s)'
              \/ Settled(s) /\ work'[s].state = work[s].state /\ work'[s].doc = work[s].doc
           /\ UNCHANGED <<states, saved, temp>> \/ SaveState(s)
<1>1. work \in [Sources -> Job] /\ JobOK(work[s])
  BY DEF TypeInv, TypeOK
<1>2. CASE FetchFails(s)
  BY <1>1, <1>2 DEF FetchFails, Conclude, Early, Settled, Job, memory, files
<1>3. CASE Fetch(s)
  <2>1. PICK d \in Docs : work' = [work EXCEPT ![s].pc = "fetched", ![s].doc = d]
    BY <1>3 DEF Fetch
  <2>2. QED BY <1>1, <1>3, <2>1 DEF Fetch, Early, Settled, Job, memory
<1>4. CASE SaveMeta(s)
  BY <1>1, <1>4 DEF SaveMeta, Early, Settled, Job, memory
<1>5. CASE Reject(s)
  BY <1>1, <1>5 DEF Reject, Conclude, Early, Settled, Job, memory, files
<1>6. CASE BuildBatch(s)
  BY <1>1, <1>6 DEF BuildBatch, Early, Settled, Job, memory, files
<1>7. CASE AddEvents(s)
  BY <1>1, <1>7 DEF AddEvents, Early, Settled, Job
<1>8. CASE SaveRecords(s)
  BY <1>1, <1>8 DEF SaveRecords, Early, Settled, Job, memory
<1>9. CASE SaveState(s)
  BY <1>1, <1>9 DEF SaveState, Conclude, Early, Settled, Job
<1>10. CASE RecordRun(s)
  BY <1>1, <1>10 DEF RecordRun, Idle, Early, Settled, Job
<1>11. CASE Quarantine(s)
  BY <1>1, <1>11 DEF Quarantine, Readies, LogRepair, Early, Settled, Job
<1>12. ASSUME NEW base, NEW good, NEW repaired, Settle(s, base, good, repaired)
       PROVE  /\ \A t \in Sources : t # s => work'[t] = work[t]
              /\ work'[s].id = work[s].id
              /\ work'[s].pc \in {"record", "batch"}
  <2> DEFINE m == Pin[states[s].pins][base][work[s].doc]
             state == [states[s] EXCEPT !.mapping = m, !.good = good]
             ended == [work[s] EXCEPT !.pc = "record", !.stage = "map",
                                      !.state = state, !.repaired = repaired]
             going == [work[s] EXCEPT !.pc = "batch", !.state = state, !.repaired = repaired]
  <2>1. work' = [work EXCEPT ![s] = IF m = NoMapping THEN ended ELSE going]
    BY <1>1, <1>12 DEF Settle
  <2> HIDE DEF m, state
  <2>2. /\ ended.pc = "record" /\ going.pc = "batch"
        /\ ended.id = work[s].id /\ going.id = work[s].id
    BY <1>1 DEF Job
  <2> HIDE DEF ended, going
  <2>3. QED BY <1>1, <2>1, <2>2
<1>13. CASE Learn(s)
  BY <1>12, <1>13 DEF Learn, Readies, Early, memory, files
<1>14. CASE Keep(s)
  BY <1>12, <1>14 DEF Keep, Readies, Early, memory, files
<1>15. CASE AutoRepair(s)
  BY <1>12, <1>15 DEF AutoRepair, Readies, LogRepair, Early
<1>16. QED
  BY <1>2, <1>3, <1>4, <1>5, <1>6, <1>7, <1>8, <1>9, <1>10, <1>11, <1>13, <1>14, <1>15 DEF Step

\* A new run, fetched, cached or asked for by a review, takes the next id.
Starts(s) ==
    /\ \A t \in Sources : t # s => work'[t] = work[t]
    /\ work[s].pc = "idle" /\ work'[s].id = nextId /\ ~Settled(s)'
    /\ nextId' = nextId + 1
    /\ repairs' = repairs

LEMMA StartMoves ==
    ASSUME TypeInv, NEW s \in Sources, Begin(s) \/ RunCached(s) \/ Review(s)
    PROVE  Starts(s)
<1>1. work \in [Sources -> Job]
  BY DEF TypeInv, TypeOK
<1>2. CASE Begin(s)
  BY <1>1, <1>2 DEF Begin, Starts, Idle, Settled, memory
<1>3. CASE RunCached(s)
  BY <1>1, <1>3 DEF RunCached, Starts, Idle, Settled, memory
<1>4. CASE Review(s)
  BY <1>1, <1>4 DEF Review, Quiet, Starts, Idle, Settled
<1>5. QED BY <1>2, <1>3, <1>4

-----------------------------------------------------------------------------
(* Ids.                                                                      *)

LEMMA StepIds ==
    ASSUME TypeInv, IdsInv, NEW s \in Sources, Step(s)
    PROVE  IdsInv'
<1>1. /\ \A t \in Sources : t # s => work'[t] = work[t]
      /\ nextId' = nextId /\ work[s].pc # "idle"
      /\ work'[s].pc # "idle" => work'[s].id = work[s].id
      /\ Early(s)' => Early(s) /\ repairs' = repairs
  BY JobMoves
<1>2. \A t \in Sources : work'[t].pc # "idle" => work[t].pc # "idle" /\ work'[t].id = work[t].id
  BY <1>1
<1>3. \A t \in Sources : Early(t)' => Early(t)
  BY <1>1 DEF Early
<1>4. \A t \in Sources : work'[t].pc # "idle" => work'[t].id < nextId'
  BY <1>1, <1>2 DEF IdsInv
<1>5. \A t, u \in Sources :
        work'[t].pc # "idle" /\ work'[u].pc # "idle" /\ work'[t].id = work'[u].id => t = u
  BY <1>2 DEF IdsInv
<1>6. CASE repairs' = repairs
  <2>1. \A t \in Sources : Early(t)' => \A r \in repairs' : r.id # work'[t].id
    BY <1>2, <1>3, <1>6 DEF IdsInv, Early
  <2>2. QED BY <1>1, <1>4, <1>5, <1>6, <2>1 DEF IdsInv
<1>7. ASSUME NEW status \in {"auto", "pending"}, repairs' = repairs \cup {Repair(s, status)},
             Early(s), ~Early(s)'
      PROVE  IdsInv'
  <2>1. Repair(s, status).id = work[s].id
    BY DEF Repair
  <2>2. \A r \in repairs : r.id # work[s].id
    BY <1>7 DEF IdsInv
  <2>3. \A r, q \in repairs' : r.id = q.id => r = q
    BY <1>7, <2>1, <2>2 DEF IdsInv
  <2>4. \A r \in repairs' : r.id < nextId'
    BY <1>1, <1>7, <2>1 DEF IdsInv
  <2>5. ASSUME NEW t \in Sources, Early(t)', NEW r \in repairs' PROVE r.id # work'[t].id
    <3>1. t # s /\ work'[t] = work[t]
      BY <1>1, <1>7, <2>5
    <3>2. Early(t) /\ work[t].pc # "idle"
      BY <2>5, <3>1 DEF Early
    <3>3. work[t].id # work[s].id
      BY <1>1, <3>1, <3>2 DEF IdsInv
    <3>4. QED BY <1>7, <2>1, <3>1, <3>2, <3>3 DEF IdsInv
  <2>6. QED BY <1>4, <1>5, <2>3, <2>4, <2>5 DEF IdsInv
<1>8. QED BY <1>6, <1>7, JobMoves

LEMMA StartIds ==
    ASSUME TypeInv, IdsInv, NEW s \in Sources, Starts(s)
    PROVE  IdsInv'
<1>1. /\ nextId \in Nat /\ repairs \subseteq RepairRecord /\ work \in [Sources -> Job]
      /\ \A t \in Sources : work[t].id \in Nat
  BY DEF TypeInv, TypeOK, Job
<1>2. \A r \in repairs : r.id \in Nat
  BY <1>1 DEF RepairRecord
<1>3. \A r \in repairs' : r.id < nextId'
  BY <1>1, <1>2 DEF Starts, IdsInv
<1>4. \A t \in Sources : work'[t].pc # "idle" => work'[t].id < nextId'
  BY <1>1 DEF Starts, IdsInv
<1>5. \A t, u \in Sources :
        work'[t].pc # "idle" /\ work'[u].pc # "idle" /\ work'[t].id = work'[u].id => t = u
  BY <1>1 DEF Starts, IdsInv
<1>6. \A t \in Sources : Early(t)' => \A r \in repairs' : r.id # work'[t].id
  BY <1>1, <1>2 DEF Starts, IdsInv, Early
<1>7. QED BY <1>3, <1>4, <1>5, <1>6 DEF Starts, IdsInv

\* Resolving a repair keeps its id.
LEMMA ResolvedIds ==
    ASSUME TypeInv, IdsInv, NEW r \in repairs, NEW status \in {"approved", "rejected"}
    PROVE  /\ \A p, q \in Resolved(r, status) : p.id = q.id => p = q
           /\ \A p \in Resolved(r, status) : p.id < nextId
<1>1. r \in RepairRecord
  BY DEF TypeInv, TypeOK
<1>2. [r EXCEPT !.status = status].id = r.id
  BY <1>1 DEF RepairRecord
<1>3. QED BY <1>2 DEF Resolved, IdsInv

\* The repairs a restart loads: those that were there, with at most the one the
\* dying run was logging, or with one resolved by a review that died.
LEMMA CrashRepairs ==
    ASSUME TypeInv, FilesInv, Crash
    PROVE  \/ repairs' \subseteq repairs
           \/ \E s \in Sources, status \in {"auto", "pending"} :
                Early(s) /\ repairs' \subseteq repairs \cup {Repair(s, status)}
           \/ \E r \in repairs : r.status = "pending" /\ repairs' = Resolved(r, "approved")
<1>1. repairs' = Readable(repairLog') /\ Readable(repairLog) \subseteq repairs
  BY CrashLogs DEF Load, FilesInv
<1>2. CASE UNCHANGED repairLog
  BY <1>1, <1>2
<1>3. ASSUME NEW s \in Sources, TearRepair(s)
      PROVE  \E status \in {"auto", "pending"} :
               Early(s) /\ repairs' \subseteq repairs \cup {Repair(s, status)}
  <2> DEFINE status == IF Heals(s) THEN "auto" ELSE "pending"
  <2>1. Repair(s, status) \in RepairRecord
    BY <1>3, RepairType DEF TearRepair
  <2>2. repairLog' \in TornAppend(repairLog, Repair(s, status))
    BY <1>3 DEF TearRepair
  <2>3. repairLog \in FileOf(RepairRecord)
    BY DEF TypeInv, TypeOK
  <2>4. Readable(repairLog') \subseteq Readable(repairLog) \cup {Repair(s, status)}
    BY <2>1, <2>2, <2>3, LogReads
  <2>5. Early(s)
    BY <1>3 DEF TearRepair, Readies, Early
  <2>6. status \in {"auto", "pending"}
    OBVIOUS
  <2> HIDE DEF status
  <2>7. QED BY <1>1, <2>4, <2>5, <2>6
<1>4. ASSUME NEW r \in repairs, TearApproval(r)
      PROVE  r.status = "pending" /\ repairs' = Resolved(r, "approved")
  BY <1>1, <1>4 DEF TearApproval, Readable, Rewritten
<1>5. ASSUME NEW s \in Sources,
             KillEvents(s) \/ TearEvents(s) \/ TearRun(s) \/ TearState(s) \/ TearReview(s)
      PROVE  UNCHANGED repairLog
  BY <1>5 DEF KillEvents, TearEvents, TearRun, TearState, TearReview
<1>6. CASE Restart
  BY <1>2, <1>6 DEF Restart, files
<1>7. QED BY <1>2, <1>3, <1>4, <1>5, <1>6 DEF Crash

\* A crash ends every run, takes no id and forgets no state but one left in a .tmp.
LEMMA CrashMoves ==
    ASSUME TypeInv, FilesInv, Crash
    PROVE  /\ \A s \in Sources : work'[s].pc = "idle"
           /\ nextId' = nextId
<1>1. Load
  BY CrashLogs
<1>2. nextId' = nextId
  BY DEF Crash, Restart, KillEvents, TearEvents, TearRepair, TearRun, Tear, TearState, TearReview,
         TearApproval
<1>3. QED BY <1>1, <1>2 DEF Load, Idle

LEMMA StoppedIds ==
    ASSUME IdsInv, \A s \in Sources : work'[s].pc = "idle", nextId' = nextId,
           \A r, q \in repairs' : r.id = q.id => r = q,
           \A r \in repairs' : r.id < nextId
    PROVE  IdsInv'
BY DEF IdsInv, Early

LEMMA IdsStep == TypeInv /\ FilesInv /\ IdsInv /\ [Next]_vars => IdsInv'
<1> SUFFICES ASSUME TypeInv, FilesInv, IdsInv, [Next]_vars PROVE IdsInv'
  OBVIOUS
<1>1. ASSUME NEW s \in Sources, Begin(s) \/ RunCached(s) \/ Step(s) \/ Review(s)
      PROVE  IdsInv'
  BY <1>1, StepIds, StartMoves, StartIds
<1>2. ASSUME NEW r \in repairs, Approve(r) \/ Refuse(r) PROVE IdsInv'
  <2>1. \A s \in Sources : work'[s].pc = "idle"
    BY <1>2 DEF Approve, Refuse, Quiet
  <2>2. nextId' = nextId /\ \E status \in {"approved", "rejected"} : repairs' = Resolved(r, status)
    BY <1>2 DEF Approve, Refuse
  <2>3. QED BY <2>1, <2>2, ResolvedIds, StoppedIds
<1>3. CASE Crash
  <2>1. (\A s \in Sources : work'[s].pc = "idle") /\ nextId' = nextId
    BY <1>3, CrashMoves
  <2>2. CASE repairs' \subseteq repairs
    BY <2>1, <2>2, StoppedIds DEF IdsInv
  <2>3. ASSUME NEW s \in Sources, NEW status \in {"auto", "pending"}, Early(s),
               repairs' \subseteq repairs \cup {Repair(s, status)}
        PROVE  IdsInv'
    <3>1. Repair(s, status).id = work[s].id /\ work[s].pc # "idle"
      BY <2>3 DEF Repair, Early
    <3>2. \A r \in repairs : r.id # work[s].id
      BY <2>3 DEF IdsInv
    <3>3. \A r, q \in repairs' : r.id = q.id => r = q
      BY <2>3, <3>1, <3>2 DEF IdsInv
    <3>4. \A r \in repairs' : r.id < nextId
      BY <2>3, <3>1 DEF IdsInv
    <3>5. QED BY <2>1, <3>3, <3>4, StoppedIds
  <2>4. ASSUME NEW r \in repairs, repairs' = Resolved(r, "approved") PROVE IdsInv'
    BY <2>1, <2>4, ResolvedIds, StoppedIds
  <2>5. QED BY <1>3, <2>2, <2>3, <2>4, CrashRepairs
<1>4. CASE UNCHANGED vars
  BY <1>4 DEF vars, memory, IdsInv, Early
<1>5. QED BY <1>1, <1>2, <1>3, <1>4 DEF Next

-----------------------------------------------------------------------------
(* What a run settled on.                                                    *)

\* A job that stays where it settled, over a source whose state stays.
LEMMA SettledStays ==
    ASSUME NEW s \in Sources, SettledOK(s), Settled(s)' => Settled(s),
           Settled(s)' => /\ work'[s].state = work[s].state /\ work'[s].doc = work[s].doc
                          /\ work'[s].id = work[s].id /\ states'[s] = states[s],
           repairs \subseteq repairs'
    PROVE  SettledOK(s)'
BY DEF SettledOK, Settled, Repaired, JobRate

LEMMA DriftedNot ==
    ASSUME NEW s \in Sources, Learned(s), ~Drifts(s), states[s].good \in Nat, states[s].good > 0,
           states[s].baseline \in 0..Scale, RateOf(states[s].mapping, work[s].doc) \in 0..Scale
    PROVE  10 * RateOf(states[s].mapping, work[s].doc) >= 6 * states[s].baseline
BY DEF Drifts, Drifted, Scale

LEMMA SettlingOK ==
    ASSUME TypeInv, EarnedInv, NEW s \in Sources, Learn(s) \/ Keep(s) \/ AutoRepair(s)
    PROVE  SettledOK(s)'
<1> DEFINE job == work[s]
           d == job.doc
           st == states[s]
<1>1. /\ work \in [Sources -> Job] /\ job \in Job /\ JobOK(job) /\ st \in SourceState
      /\ Earned(st)
  BY DEF TypeInv, TypeOK, EarnedInv
<1>2. Readies(s) /\ d \in Docs /\ states' = states
  BY <1>1 DEF Learn, Keep, AutoRepair, Readies, JobOK, memory
<1>3. ASSUME NEW base \in Candidates, NEW good \in Nat, NEW repaired \in BOOLEAN,
             Settle(s, base, good, repaired),
             base \notin {NoMapping, st.mapping} /\ st.mapping # NoMapping =>
               \E r \in repairs' : /\ r.source = s /\ r.status = "auto"
                                   /\ r.id = job.id /\ r.before = st.mapping,
             base # NoMapping /\ st.good > 0 =>
               IF good > 0 THEN 10 * RateOf(base, d) >= 6 * st.baseline
                           ELSE Recovered(st.baseline, RateOf(base, d))
      PROVE  SettledOK(s)'
  <2> DEFINE m == Pin[st.pins][base][d]
             state == [st EXCEPT !.mapping = m, !.good = good]
             ended == [job EXCEPT !.pc = "record", !.stage = "map",
                                  !.state = state, !.repaired = repaired]
             going == [job EXCEPT !.pc = "batch", !.state = state, !.repaired = repaired]
  <2>1. work' = [work EXCEPT ![s] = IF m = NoMapping THEN ended ELSE going]
    BY <1>1, <1>3 DEF Settle
  <2>2. st.pins = {} => m = base
    BY <1>2, <1>3, PinAssumption
  <2>3. /\ state.mapping = m /\ state.good = good
        /\ state.pins = st.pins /\ state.baseline = st.baseline
    BY <1>1 DEF SourceState
  <2> HIDE DEF m, state
  <2>4. /\ ended.pc = "record" /\ going.pc = "batch" /\ going.id = job.id
        /\ going.doc = d /\ going.state = state
    BY <1>1 DEF Job
  <2> HIDE DEF ended, going
  <2>5. CASE m = NoMapping
    BY <1>1, <2>1, <2>4, <2>5 DEF SettledOK, Settled
  <2>6. CASE m # NoMapping
    <3>1. work'[s] = going
      BY <1>1, <2>1, <2>6
    <3>2. st.pins = {} => JobRate(s)' = RateOf(base, d)
      BY <2>2, <2>3, <2>4, <3>1 DEF JobRate
    <3>3. work'[s].state = state /\ work'[s].id = job.id /\ states'[s] = st
      BY <1>2, <2>4, <3>1
    <3>4. st.pins = {} /\ st.mapping \notin {NoMapping, state.mapping} => Repaired(s)'
      BY <1>3, <2>2, <2>3, <2>6, <3>3 DEF Repaired
    <3>5. st.pins = {} /\ st.good > 0 =>
            IF state.good > 0 THEN 10 * JobRate(s)' >= 6 * st.baseline
                              ELSE Recovered(st.baseline, JobRate(s)')
      BY <1>3, <2>2, <2>3, <2>6, <3>2
    <3>6. /\ work'[s].state.pins = states'[s].pins
          /\ work'[s].state.baseline = states'[s].baseline
      BY <2>3, <3>3
    <3>7. states'[s].pins = {} =>
            (states'[s].mapping \notin {NoMapping, work'[s].state.mapping} => Repaired(s)')
      BY <3>3, <3>4
    <3>8. states'[s].pins = {} /\ states'[s].good > 0 =>
            IF work'[s].state.good > 0 THEN 10 * JobRate(s)' >= 6 * states'[s].baseline
                                       ELSE Recovered(states'[s].baseline, JobRate(s)')
      BY <3>3, <3>5
    <3> HIDE DEF job, st
    <3>9. QED BY <3>6, <3>7, <3>8 DEF SettledOK
  <2>7. QED BY <2>5, <2>6
<1>4. Infer[d] \in Candidates /\ st.mapping \in Candidates /\ st.good \in Nat
      /\ st.baseline \in 0..Scale
  BY <1>1, <1>2, DocAssumption DEF SourceState
<1>5. CASE Learn(s)
  <2>1. st.mapping = NoMapping /\ ~(st.good > 0)
    BY <1>1, <1>5 DEF Learn, Learned, Earned
  <2>2. (IF Infer[d] = NoMapping THEN st.good ELSE 0) \in Nat
    BY <1>4
  <2>3. QED BY <1>3, <1>4, <1>5, <2>1, <2>2 DEF Learn
<1>6. CASE Keep(s)
  <2>1. RateOf(st.mapping, d) \in 0..Scale
    BY <1>2, <1>4, RateType
  <2>2. st.good > 0 => 10 * RateOf(st.mapping, d) >= 6 * st.baseline
    BY <1>4, <1>6, <2>1, DriftedNot DEF Keep
  <2>3. QED BY <1>3, <1>4, <1>6, <2>2 DEF Keep
<1>7. CASE AutoRepair(s)
  <2>1. Recovered(st.baseline, RateOf(Infer[d], d))
    BY <1>7 DEF AutoRepair, Heals, Acceptable
  <2>2. Repair(s, "auto") \in repairs'
    BY <1>7 DEF AutoRepair, LogRepair
  <2>3. /\ Repair(s, "auto").source = s /\ Repair(s, "auto").status = "auto"
        /\ Repair(s, "auto").id = job.id /\ Repair(s, "auto").before = st.mapping
    BY DEF Repair
  <2>4. \E r \in repairs' : /\ r.source = s /\ r.status = "auto"
                            /\ r.id = job.id /\ r.before = st.mapping
    BY <2>2, <2>3
  <2>5. Settle(s, Infer[d], 0, TRUE)
    BY <1>7 DEF AutoRepair
  <2>6. IF 0 > 0 THEN 10 * RateOf(Infer[d], d) >= 6 * st.baseline
                 ELSE Recovered(st.baseline, RateOf(Infer[d], d))
    BY <2>1
  <2>7. 0 \in Nat /\ TRUE \in BOOLEAN
    OBVIOUS
  <2>8. Infer[d] \in Candidates
    BY <1>4
  <2>9. QED
    BY <1>3, <2>4, <2>5, <2>6, <2>7, <2>8, Zenon
<1>8. QED BY <1>5, <1>6, <1>7

LEMMA StepSettled ==
    ASSUME TypeInv, EarnedInv, \A t \in Sources : SettledOK(t), NEW s \in Sources, Step(s)
    PROVE  \A t \in Sources : SettledOK(t)'
<1>1. /\ \A t \in Sources : t # s => work'[t] = work[t]
      /\ work[s].pc # "idle" /\ (work'[s].pc # "idle" => work'[s].id = work[s].id)
      /\ repairs \subseteq repairs'
      /\ \/ Learn(s) \/ Keep(s) \/ AutoRepair(s) \/ ~Settled(s)'
         \/ Settled(s) /\ work'[s].state = work[s].state /\ work'[s].doc = work[s].doc
      /\ UNCHANGED <<states, saved, temp>> \/ SaveState(s)
  BY JobMoves
<1>2. /\ states \in [Sources -> SourceState] /\ work \in [Sources -> Job]
  BY DEF TypeInv, TypeOK
<1>3. \A t \in Sources : t # s => states'[t] = states[t]
  BY <1>1, <1>2 DEF SaveState, SaveSourceState
<1>4. SaveState(s) => ~Settled(s)'
  BY <1>2 DEF SaveState, Conclude, Settled, Job
<1>5. ASSUME NEW t \in Sources, t # s PROVE SettledOK(t)'
  BY <1>1, <1>3, <1>5, SettledStays DEF Settled
<1>6. CASE Learn(s) \/ Keep(s) \/ AutoRepair(s)
  BY <1>5, <1>6, SettlingOK
<1>7. CASE ~Settled(s)'
  <2>1. SettledOK(s)'
    BY <1>7 DEF SettledOK
  <2>2. QED BY <1>5, <2>1
<1>8. CASE /\ Settled(s)' /\ Settled(s)
           /\ work'[s].state = work[s].state /\ work'[s].doc = work[s].doc
  <2>1. work'[s].id = work[s].id
    BY <1>1, <1>8 DEF Settled
  <2>2. states'[s] = states[s]
    BY <1>1, <1>4, <1>8
  <2>3. SettledOK(s)'
    BY <1>1, <1>8, <2>1, <2>2, SettledStays
  <2>4. QED BY <1>5, <2>3
<1>9. QED BY <1>1, <1>6, <1>7, <1>8

LEMMA SettledStep ==
    ASSUME TypeInv, FilesInv, HistoryInv, [Next]_vars
    PROVE  \A s \in Sources : SettledOK(s)'
<1>1. EarnedInv /\ \A s \in Sources : SettledOK(s)
  BY DEF HistoryInv
<1>2. states \in [Sources -> SourceState]
  BY DEF TypeInv, TypeOK
<1>3. ASSUME NEW s \in Sources, Step(s) PROVE \A t \in Sources : SettledOK(t)'
  BY <1>1, <1>3, StepSettled
<1>4. ASSUME NEW s \in Sources, Begin(s) \/ RunCached(s) \/ Review(s), NEW t \in Sources
      PROVE  SettledOK(t)'
  <2>1. Starts(s)
    BY <1>4, StartMoves
  <2>2. CASE t = s
    BY <2>1, <2>2 DEF Starts, SettledOK
  <2>3. CASE t # s
    <3>1. states'[t] = states[t]
      BY <1>2, <1>4, <2>3 DEF Begin, RunCached, Review, SaveSourceState, memory
    <3>2. work'[t] = work[t] /\ repairs' = repairs
      BY <2>1, <2>3 DEF Starts
    <3>3. QED BY <1>1, <3>1, <3>2, SettledStays DEF Settled
  <2>4. QED BY <2>2, <2>3
<1>5. ASSUME \A s \in Sources : work'[s].pc = "idle" PROVE \A s \in Sources : SettledOK(s)'
  BY <1>5 DEF SettledOK, Settled
<1>6. ASSUME NEW r \in repairs, Approve(r) \/ Refuse(r) PROVE \A s \in Sources : SettledOK(s)'
  <2>1. \A s \in Sources : work'[s].pc = "idle"
    BY <1>6 DEF Approve, Refuse, Quiet
  <2>2. QED BY <1>5, <2>1
<1>7. CASE Crash
  BY <1>5, <1>7, CrashMoves
<1>8. CASE UNCHANGED vars
  BY <1>1, <1>8, SettledStays DEF vars, memory, Settled
<1>9. QED BY <1>3, <1>4, <1>6, <1>7, <1>8 DEF Next

-----------------------------------------------------------------------------
(* How the learned state of a source changes.                                *)

\* An approval resolves a pending repair and puts its mapping in force.
Approves(t) ==
    \E r \in repairs :
        /\ r.source = t /\ r.status = "pending" /\ repairs' = Resolved(r, "approved")
        /\ states'[t] = [states[t] EXCEPT !.mapping = r.after, !.good = 0]

\* The end of a run, a review or an approval, whether or not the process died of it.
StateMove(t) ==
    \/ states'[t] = states[t]
    \/ Forgets(t)
    \/ work[t].pc = "state" /\ states'[t] = Advanced(t)
    \/ \E pins \in SUBSET Decisions :
         states[t].pins \subseteq pins /\ states'[t] = [states[t] EXCEPT !.pins = pins]
    \/ Approves(t)

\* What the next start-up reads after a save was cut.
LEMMA CutStates ==
    ASSUME TypeInv, FilesInv, NEW s \in Sources, NEW st, CutSave(s, st), Load
    PROVE  /\ \A t \in Sources : t # s => states'[t] = states[t]
           /\ states'[s] = st \/ states'[s] = states[s] \/ Forgets(s)
<1>1. PICK left \in {{}, {st}} : temp' = [temp EXCEPT ![s] = left]
  BY DEF CutSave
<1>2. /\ temp \in [Sources -> SUBSET SourceState] /\ saved' = saved
      /\ \A t \in Sources : states'[t] = OnDisk(t)' /\ states[t] = OnDisk(t)
  BY DEF TypeInv, TypeOK, CutSave, Load, FilesInv
<1>3. \A t \in Sources : t # s => states'[t] = states[t]
  BY <1>1, <1>2 DEF OnDisk
<1>4. CASE left = {st}
  BY <1>1, <1>2, <1>3, <1>4 DEF OnDisk
<1>5. CASE left = {}
  <2>1. states'[s] = saved[s] /\ temp'[s] = {}
    BY <1>1, <1>2, <1>5 DEF OnDisk
  <2>2. CASE temp[s] = {}
    BY <1>2, <1>3, <2>1, <2>2 DEF OnDisk
  <2>3. CASE temp[s] # {}
    BY <1>3, <2>1, <2>3 DEF Forgets
  <2>4. QED BY <2>2, <2>3
<1>6. QED BY <1>1, <1>4, <1>5

LEMMA CrashStates ==
    ASSUME TypeInv, FilesInv, Crash, NEW t \in Sources
    PROVE  StateMove(t)
<1>1. Load
  BY CrashLogs
<1>2. ASSUME UNCHANGED <<saved, temp>> PROVE states'[t] = states[t]
  BY <1>1, <1>2 DEF Load, FilesInv, OnDisk
<1>3. CASE Restart
  BY <1>2, <1>3 DEF Restart, files, StateMove
<1>4. ASSUME NEW s \in Sources, KillEvents(s) \/ TearEvents(s) \/ TearRepair(s) \/ TearRun(s)
      PROVE  StateMove(t)
  BY <1>2, <1>4 DEF KillEvents, TearEvents, TearRepair, TearRun, Tear, StateMove
<1>5. ASSUME NEW s \in Sources, TearState(s) PROVE StateMove(t)
  <2>1. CutSave(s, Advanced(s)) /\ work[s].pc = "state"
    BY <1>5 DEF TearState
  <2>2. QED BY <1>1, <2>1, CutStates DEF StateMove
<1>6. ASSUME NEW s \in Sources, TearReview(s) PROVE StateMove(t)
  <2>1. PICK pins \in SUBSET Decisions :
          states[s].pins \subseteq pins /\ CutSave(s, [states[s] EXCEPT !.pins = pins])
    BY <1>6 DEF TearReview
  <2>2. QED BY <1>1, <2>1, CutStates DEF StateMove
<1>7. ASSUME NEW r \in repairs, TearApproval(r) PROVE StateMove(t)
  <2>1. r.status = "pending" /\ repairLog' = Rewritten(Resolved(r, "approved"))
    BY <1>7 DEF TearApproval
  <2>2. repairs' = Resolved(r, "approved")
    BY <1>1, <2>1 DEF Load, Readable, Rewritten
  <2>3. r.source \in Sources
    BY ApprovedType
  <2>4. CASE UNCHANGED <<saved, temp>>
    BY <1>2, <2>4 DEF StateMove
  <2>5. CASE CutSave(r.source, [states[r.source] EXCEPT !.mapping = r.after, !.good = 0])
    BY <1>1, <2>1, <2>2, <2>3, <2>5, CutStates DEF StateMove, Approves
  <2>6. QED BY <1>7, <2>4, <2>5 DEF TearApproval
<1>8. QED BY <1>3, <1>4, <1>5, <1>6, <1>7 DEF Crash

LEMMA StatesMove ==
    ASSUME TypeInv, FilesInv, [Next]_vars, NEW t \in Sources
    PROVE  StateMove(t)
<1>1. states \in [Sources -> SourceState]
  BY DEF TypeInv, TypeOK
<1>2. ASSUME NEW s \in Sources, Step(s) PROVE StateMove(t)
  <2>1. UNCHANGED <<states, saved, temp>> \/ SaveState(s)
    BY <1>2, JobMoves
  <2>2. SaveState(s) => StateMove(t)
    BY <1>1 DEF SaveState, SaveSourceState, StateMove
  <2>3. QED BY <2>1, <2>2 DEF StateMove
<1>3. ASSUME NEW s \in Sources, Begin(s) \/ RunCached(s) PROVE StateMove(t)
  BY <1>3 DEF Begin, RunCached, memory, StateMove
<1>4. ASSUME NEW s \in Sources, Review(s) PROVE StateMove(t)
  <2>1. PICK pins \in SUBSET Decisions :
          states[s].pins \subseteq pins /\ SaveSourceState(s, [states[s] EXCEPT !.pins = pins])
    BY <1>4 DEF Review
  <2>2. QED BY <1>1, <2>1 DEF SaveSourceState, StateMove
<1>5. ASSUME NEW r \in repairs, Approve(r) PROVE StateMove(t)
  <2>1. /\ r.status = "pending" /\ repairs' = Resolved(r, "approved")
        /\ states' = [states EXCEPT ![r.source] =
                        [states[r.source] EXCEPT !.mapping = r.after, !.good = 0]]
    BY <1>5 DEF Approve, SaveSourceState
  <2>2. QED BY <1>1, <2>1 DEF StateMove, Approves
<1>6. ASSUME NEW r \in repairs, Refuse(r) PROVE StateMove(t)
  BY <1>6 DEF Refuse, StateMove
<1>7. CASE Crash
  BY <1>7, CrashStates
<1>8. CASE UNCHANGED vars
  BY <1>8 DEF vars, memory, StateMove
<1>9. QED BY <1>2, <1>3, <1>4, <1>5, <1>6, <1>7, <1>8 DEF Next

\* A state file, whole or left in a .tmp, holds what it held or the new state.
LEMMA FilesMove ==
    ASSUME TypeInv, FilesInv, [Next]_vars, NEW t \in Sources
    PROVE  /\ saved'[t] \in {saved[t], states'[t]}
           /\ temp'[t] \subseteq temp[t] \cup {states'[t]}
<1>1. /\ states \in [Sources -> SourceState] /\ saved \in [Sources -> SourceState]
      /\ temp \in [Sources -> SUBSET SourceState]
  BY DEF TypeInv, TypeOK
<1> DEFINE Goal == /\ saved'[t] \in {saved[t], states'[t]}
                   /\ temp'[t] \subseteq temp[t] \cup {states'[t]}
<1>2. UNCHANGED <<saved, temp>> => Goal
  OBVIOUS
<1>3. ASSUME NEW s \in Sources, NEW st, SaveSourceState(s, st) PROVE Goal
  BY <1>1, <1>3 DEF SaveSourceState
<1>4. ASSUME NEW s \in Sources, NEW st, CutSave(s, st), Load PROVE Goal
  <2>1. PICK left \in {{}, {st}} : temp' = [temp EXCEPT ![s] = left]
    BY <1>4 DEF CutSave
  <2>2. saved' = saved /\ states'[t] = OnDisk(t)'
    BY <1>4 DEF CutSave, Load
  <2>3. CASE t = s /\ left = {st}
    BY <1>1, <2>1, <2>2, <2>3 DEF OnDisk
  <2>4. CASE t # s \/ left = {}
    BY <1>1, <2>1, <2>2, <2>4
  <2>5. QED BY <2>1, <2>3, <2>4
<1>5. ASSUME NEW s \in Sources, Step(s) PROVE Goal
  BY <1>2, <1>3, <1>5, JobMoves DEF SaveState
<1>6. ASSUME NEW s \in Sources, Begin(s) \/ RunCached(s) PROVE Goal
  BY <1>2, <1>6 DEF Begin, RunCached, files
<1>7. ASSUME NEW s \in Sources, Review(s) PROVE Goal
  BY <1>3, <1>7 DEF Review
<1>8. ASSUME NEW r \in repairs, Approve(r) \/ Refuse(r) PROVE Goal
  <2>1. r.source \in Sources
    BY ApprovedType
  <2>2. QED BY <1>2, <1>3, <1>8, <2>1 DEF Approve, Refuse
<1>9. CASE Crash
  <2>1. Load
    BY <1>9, CrashLogs
  <2>2. ASSUME NEW r \in repairs, TearApproval(r) PROVE Goal
    <3>1. r.source \in Sources
      BY ApprovedType
    <3>2. QED BY <1>2, <1>4, <2>1, <2>2, <3>1 DEF TearApproval
  <2>3. ASSUME NEW s \in Sources, TearState(s) \/ TearReview(s) PROVE Goal
    BY <1>4, <2>1, <2>3 DEF TearState, TearReview
  <2>4. ASSUME NEW s \in Sources, KillEvents(s) \/ TearEvents(s) \/ TearRepair(s) \/ TearRun(s)
        PROVE  Goal
    BY <1>2, <2>4 DEF KillEvents, TearEvents, TearRepair, TearRun, Tear
  <2>5. CASE Restart
    BY <1>2, <2>5 DEF Restart, files
  <2>6. QED BY <1>9, <2>2, <2>3, <2>4, <2>5 DEF Crash
<1>10. CASE UNCHANGED vars
  BY <1>2, <1>10 DEF vars, files
<1>11. QED BY <1>5, <1>6, <1>7, <1>8, <1>9, <1>10 DEF Next

LEMMA EarnedStep ==
    ASSUME TypeInv, FilesInv, EarnedInv, [Next]_vars
    PROVE  EarnedInv'
<1>1. /\ states \in [Sources -> SourceState] /\ \A s \in Sources : work[s] \in Job /\ JobOK(work[s])
  BY DEF TypeInv, TypeOK
<1>2. ASSUME NEW s \in Sources PROVE Earned(states'[s])
  <2>1. states[s] \in SourceState /\ Earned(states[s]) /\ Earned(saved[s])
    BY <1>1 DEF EarnedInv
  <2>2. CASE work[s].pc = "state" /\ states'[s] = Advanced(s)
    <3>1. work[s].state.mapping # NoMapping /\ work[s].state \in SourceState
      BY <1>1, <2>2 DEF JobOK, Job
    <3>2. Advanced(s).mapping = work[s].state.mapping
      BY <3>1 DEF Advanced, SourceState
    <3>3. QED BY <2>2, <3>1, <3>2 DEF Earned
  <2>3. ASSUME NEW pins \in SUBSET Decisions, states'[s] = [states[s] EXCEPT !.pins = pins]
        PROVE  Earned(states'[s])
    BY <2>1, <2>3 DEF Earned, SourceState
  <2>4. ASSUME NEW r \in repairs, states'[s] = [states[s] EXCEPT !.mapping = r.after, !.good = 0]
        PROVE  Earned(states'[s])
    BY <2>1, <2>4 DEF Earned, SourceState
  <2>5. StateMove(s)
    BY StatesMove
  <2>6. QED BY <2>1, <2>2, <2>3, <2>4, <2>5 DEF StateMove, Forgets, Approves
<1>3. ASSUME NEW s \in Sources PROVE Earned(saved'[s]) /\ \A st \in temp'[s] : Earned(st)
  BY <1>2, FilesMove DEF EarnedInv
<1>4. QED BY <1>2, <1>3 DEF EarnedInv

-----------------------------------------------------------------------------
(* Enrichment.                                                               *)

LEMMA FilteredStep ==
    ASSUME TypeInv, FilesInv, FilteredInv, [Next]_vars
    PROVE  FilteredInv'
<1>1. work \in [Sources -> Job] /\ Enrichment \subseteq Sources
  BY SourcesAssumption DEF TypeInv, TypeOK
<1>2. ASSUME known \subseteq known',
             \A s \in Enrichment : work'[s].pc = "events" => work'[s] = work[s]
      PROVE  FilteredInv'
  BY <1>2 DEF FilteredInv, Tracked
<1>3. ASSUME NEW s \in Sources, BuildBatch(s) PROVE FilteredInv'
  <2> DEFINE all == EventsOf[s][work[s].state.mapping][work[s].doc]
  <2>1. known' = known
    BY <1>3 DEF BuildBatch, memory
  <2>2. work' = [work EXCEPT ![s].pc = "events",
                   ![s].batch = IF s \in Enrichment
                                THEN {e \in all : PropertyOf[e] \in Tracked} ELSE all]
    BY <1>3 DEF BuildBatch
  <2>3. s \in Enrichment => work'[s].batch = {e \in all : PropertyOf[e] \in Tracked}
    BY <1>1, <2>2 DEF Job
  <2>4. \A t \in Sources : t # s => work'[t] = work[t]
    BY <1>1, <2>2
  <2> HIDE DEF all
  <2>5. QED BY <1>1, <2>1, <2>3, <2>4 DEF FilteredInv, Tracked
<1>4. ASSUME NEW s \in Sources, Step(s), ~BuildBatch(s) PROVE FilteredInv'
  <2>1. \A t \in Sources : t # s => work'[t] = work[t]
    BY <1>4, JobMoves
  <2>2. known \subseteq known'
    BY <1>4 DEF Step, FetchFails, Fetch, SaveMeta, Reject, Learn, Keep, AutoRepair, Quarantine,
                AddEvents, SaveRecords, SaveState, RecordRun, memory
  <2>3. work'[s].pc # "events"
    <3>1. CASE FetchFails(s) \/ Fetch(s) \/ SaveMeta(s) \/ Reject(s)
      BY <1>1, <3>1 DEF FetchFails, Fetch, SaveMeta, Reject, Conclude, Job
    <3>2. CASE AddEvents(s) \/ SaveRecords(s) \/ SaveState(s) \/ RecordRun(s) \/ Quarantine(s)
      BY <1>1, <3>2 DEF AddEvents, SaveRecords, SaveState, RecordRun, Quarantine, Conclude, Idle,
                        Job
    <3>3. ASSUME NEW base, NEW good, NEW repaired, Settle(s, base, good, repaired)
          PROVE  work'[s].pc # "events"
      BY <1>1, <3>3 DEF Settle, Job
    <3>4. CASE Learn(s) \/ Keep(s) \/ AutoRepair(s)
      BY <3>3, <3>4 DEF Learn, Keep, AutoRepair
    <3>5. QED BY <1>4, <3>1, <3>2, <3>4 DEF Step
  <2>4. QED BY <1>1, <1>2, <2>1, <2>2, <2>3
<1>5. ASSUME NEW s \in Sources, Begin(s) \/ RunCached(s) \/ Review(s) PROVE FilteredInv'
  <2>1. known' = known
    BY <1>5 DEF Begin, RunCached, Review, memory
  <2>2. (\A t \in Sources : t # s => work'[t] = work[t]) /\ work'[s].pc # "events"
    BY <1>1, <1>5 DEF Begin, RunCached, Review, Idle
  <2>3. QED BY <1>1, <1>2, <2>1, <2>2
<1>6. ASSUME NEW r \in repairs, Approve(r) \/ Refuse(r) PROVE FilteredInv'
  BY <1>2, <1>6 DEF Approve, Refuse
<1>7. CASE Crash
  BY <1>1, <1>7, CrashMoves DEF FilteredInv
<1>8. CASE UNCHANGED vars
  BY <1>2, <1>8 DEF vars, memory
<1>9. QED BY <1>3, <1>4, <1>5, <1>6, <1>7, <1>8 DEF Next

-----------------------------------------------------------------------------
(* The invariant, and what it shows of a step.                               *)

LEMMA HistoryStep == TypeInv /\ FilesInv /\ HistoryInv /\ [Next]_vars => HistoryInv'
BY IdsStep, SettledStep, EarnedStep, FilteredStep DEF HistoryInv

LEMMA Holds == Spec => [](TypeInv /\ FilesInv /\ HistoryInv)
<1>1. Init => TypeInv /\ FilesInv /\ HistoryInv
  BY InitType, InitFiles, InitHistory
<1>2. TypeInv /\ FilesInv /\ HistoryInv /\ [Next]_vars => (TypeInv /\ FilesInv /\ HistoryInv)'
  BY TypeStep, FilesStep, HistoryStep
<1>3. QED BY <1>1, <1>2, PTL DEF Spec

\* A mapping in force is replaced with a record of why (pipeline.cpp ingest_model
\* logs a repair before it uses it; store.cpp resolve_repair).
THEOREM MappingHistory == Spec => MappingChangesAreLogged
<1> DEFINE Logged(s) ==
      states[s].mapping \notin {NoMapping, states'[s].mapping} =>
         \/ states[s].pins # {}
         \/ \E r \in repairs : /\ r.source = s /\ r.status = "auto"
                               /\ r.id = work[s].id /\ r.before = states[s].mapping
         \/ \E r \in repairs' : /\ r.source = s /\ r.status = "approved"
                                /\ r.after = states'[s].mapping
         \/ Forgets(s)
<1>1. ASSUME TypeInv, FilesInv, HistoryInv, [Next]_vars, NEW s \in Sources PROVE Logged(s)
  <2>1. /\ states[s] \in SourceState /\ repairs \subseteq RepairRecord
        /\ work[s] \in Job /\ work[s].state \in SourceState /\ SettledOK(s)
    BY <1>1 DEF TypeInv, TypeOK, HistoryInv, Job
  <2>2. StateMove(s)
    BY <1>1, StatesMove
  <2>3. CASE work[s].pc = "state" /\ states'[s] = Advanced(s)
    <3>1. states'[s].mapping = work[s].state.mapping
      BY <2>1, <2>3 DEF Advanced, SourceState
    <3>2. QED BY <2>1, <2>3, <3>1 DEF SettledOK, Settled, Repaired
  <2>4. ASSUME NEW pins \in SUBSET Decisions, states'[s] = [states[s] EXCEPT !.pins = pins]
        PROVE  Logged(s)
    BY <2>1, <2>4 DEF SourceState
  <2>5. ASSUME NEW r \in repairs, r.source = s, repairs' = Resolved(r, "approved"),
               states'[s] = [states[s] EXCEPT !.mapping = r.after, !.good = 0]
        PROVE  Logged(s)
    <3>1. states'[s].mapping = r.after
      BY <2>1, <2>5 DEF SourceState
    <3>2. r \in RepairRecord
      BY <2>1
    <3> DEFINE q == [r EXCEPT !.status = "approved"]
    <3>3. q \in repairs' /\ q.source = s /\ q.status = "approved" /\ q.after = r.after
      BY <2>5, <3>2 DEF Resolved, RepairRecord
    <3> HIDE DEF q
    <3>4. QED BY <3>1, <3>3
  <2> HIDE DEF Logged
  <2>6. states'[s] = states[s] \/ Forgets(s) => Logged(s)
    BY DEF Logged
  <2>7. QED BY <2>2, <2>3, <2>4, <2>5, <2>6 DEF StateMove, Approves
<1>2. TypeInv /\ FilesInv /\ HistoryInv /\ [Next]_vars
        => [\A s \in Sources : Logged(s)]_vars
  BY <1>1
<1>3. QED BY <1>2, Holds, PTL DEF MappingChangesAreLogged, Spec

\* What a run keeps of a baseline: three tenths below at most, less what the whole
\* division drops.
LEMMA AverageKeeps ==
    ASSUME NEW b \in 0..Scale, NEW g \in Nat, NEW r \in 0..Scale,
           ~(g > 0) => Recovered(b, r)
    PROVE  10 * (UpdateBaseline(b, g, r) + 1) > 7 * b
<1>1. CASE g > 0
  <2>1. UpdateBaseline(b, g, r) = (7 * b + 3 * r) \div 10
    BY <1>1 DEF UpdateBaseline
  <2>2. ASSUME NEW x \in Nat PROVE 10 * ((x \div 10) + 1) > x
    BY SMTT(30)
  <2>3. 7 * b + 3 * r \in Nat /\ 7 * b + 3 * r >= 7 * b
    BY DEF Scale
  <2>4. 10 * (((7 * b + 3 * r) \div 10) + 1) > 7 * b + 3 * r
    BY <2>2, <2>3
  <2>5. (7 * b + 3 * r) \div 10 \in Int
    BY <2>3
  <2>6. QED BY <2>1, <2>3, <2>4, <2>5 DEF Scale
<1>2. CASE ~(g > 0)
  <2>1. UpdateBaseline(b, g, r) = r
    BY <1>2 DEF UpdateBaseline
  <2>2. CASE b > 0
    BY <1>2, <2>1, <2>2 DEF Recovered, Scale
  <2>3. CASE b = 0
    BY <2>1, <2>3 DEF Scale
  <2>4. QED BY <2>2, <2>3 DEF Scale
<1>3. QED BY <1>1, <1>2

\* A baseline in force slips by what a run may take, or with a forgotten state
\* (heal.cpp propose asks for seven tenths; pipeline.cpp update_baseline averages).
THEOREM BaselineHistory == Spec => BaselineNeverSlips
<1> DEFINE Slips(s) ==
      states[s].pins = {} /\ states[s].good > 0 =>
         \/ 10 * (states'[s].baseline + 1) > 7 * states[s].baseline
         \/ Forgets(s)
<1>1. ASSUME TypeInv, FilesInv, HistoryInv, [Next]_vars, NEW s \in Sources PROVE Slips(s)
  <2>1. /\ states[s] \in SourceState /\ work[s] \in Job /\ JobOK(work[s]) /\ SettledOK(s)
        /\ work[s].state \in SourceState
    BY <1>1 DEF TypeInv, TypeOK, HistoryInv, Job
  <2>2. states[s].baseline \in 0..Scale
    BY <2>1 DEF SourceState
  <2>3. 10 * (states[s].baseline + 1) > 7 * states[s].baseline
    BY <2>2 DEF Scale
  <2>4. CASE work[s].pc = "state" /\ states'[s] = Advanced(s)
    <3> DEFINE b == work[s].state.baseline
               g == work[s].state.good
               r == JobRate(s)
    <3>1. /\ work[s].doc \in Docs /\ work[s].state.mapping \in Candidates
          /\ b \in 0..Scale /\ g \in Nat
      BY <2>1, <2>4 DEF JobOK, SourceState
    <3>2. r \in 0..Scale
      BY <3>1, RateType DEF JobRate
    <3>3. states'[s].baseline = UpdateBaseline(b, g, r)
      BY <2>1, <2>4 DEF Advanced, SourceState
    <3>4. ASSUME states[s].pins = {}, states[s].good > 0
          PROVE  b = states[s].baseline /\ (~(g > 0) => Recovered(b, r))
      BY <2>1, <2>4, <3>4 DEF SettledOK, Settled
    <3> HIDE DEF b, g, r
    <3>5. QED BY <3>1, <3>2, <3>3, <3>4, AverageKeeps
  <2>5. ASSUME NEW pins \in SUBSET Decisions, states'[s] = [states[s] EXCEPT !.pins = pins]
        PROVE  Slips(s)
    <3>1. states'[s].baseline = states[s].baseline
      BY <2>1, <2>5 DEF SourceState
    <3>2. QED BY <2>3, <3>1
  <2>6. ASSUME NEW r \in repairs,
               states'[s] = [states[s] EXCEPT !.mapping = r.after, !.good = 0]
        PROVE  Slips(s)
    <3>1. states'[s].baseline = states[s].baseline
      BY <2>1, <2>6 DEF SourceState
    <3>2. QED BY <2>3, <3>1
  <2>7. states'[s] = states[s] \/ Forgets(s) => Slips(s)
    BY <2>3
  <2>8. StateMove(s)
    BY <1>1, StatesMove
  <2> HIDE DEF Slips
  <2>9. QED BY <2>4, <2>5, <2>6, <2>7, <2>8 DEF StateMove, Approves
<1>2. TypeInv /\ FilesInv /\ HistoryInv /\ [Next]_vars
        => [\A s \in Sources : Slips(s)]_vars
  BY <1>1
<1>3. QED BY <1>2, Holds, PTL DEF BaselineNeverSlips, Spec

\* A pinned decision outlives runs, repairs, approvals and restarts
\* (pipeline.cpp reads the state it saves; store.cpp resolve_repair keeps it).
THEOREM DecisionHistory == Spec => DecisionsStand
<1> DEFINE Stands(s) == states[s].pins \subseteq states'[s].pins \/ Forgets(s)
<1>1. ASSUME TypeInv, FilesInv, HistoryInv, [Next]_vars, NEW s \in Sources PROVE Stands(s)
  <2>1. /\ states[s] \in SourceState /\ work[s] \in Job /\ work[s].state \in SourceState
        /\ SettledOK(s)
    BY <1>1 DEF TypeInv, TypeOK, HistoryInv, Job
  <2>2. CASE work[s].pc = "state" /\ states'[s] = Advanced(s)
    <3>1. states'[s].pins = work[s].state.pins
      BY <2>1, <2>2 DEF Advanced, SourceState
    <3>2. QED BY <2>1, <2>2, <3>1 DEF SettledOK, Settled
  <2>3. ASSUME NEW pins \in SUBSET Decisions, states[s].pins \subseteq pins,
               states'[s] = [states[s] EXCEPT !.pins = pins]
        PROVE  Stands(s)
    BY <2>1, <2>3 DEF SourceState
  <2>4. ASSUME NEW r \in repairs,
               states'[s] = [states[s] EXCEPT !.mapping = r.after, !.good = 0]
        PROVE  Stands(s)
    BY <2>1, <2>4 DEF SourceState
  <2>5. states'[s] = states[s] \/ Forgets(s) => Stands(s)
    OBVIOUS
  <2>6. StateMove(s)
    BY <1>1, StatesMove
  <2> HIDE DEF Stands
  <2>7. QED BY <2>2, <2>3, <2>4, <2>5, <2>6 DEF StateMove, Approves
<1>2. TypeInv /\ FilesInv /\ HistoryInv /\ [Next]_vars
        => [\A s \in Sources : Stands(s)]_vars
  BY <1>1
<1>3. QED BY <1>2, Holds, PTL DEF DecisionsStand, Spec

\* How the repairs change: one is logged, one that was pending is resolved, or a
\* restart loses those it cannot read.
LEMMA RepairMoves ==
    ASSUME TypeInv, FilesInv, [Next]_vars
    PROVE  \/ repairs' \subseteq repairs
           \/ \E s \in Sources, status \in {"auto", "pending"} :
                Early(s) /\ repairs' \subseteq repairs \cup {Repair(s, status)}
           \/ \E r \in repairs, status \in {"approved", "rejected"} :
                r.status = "pending" /\ repairs' = Resolved(r, status)
<1>1. ASSUME NEW s \in Sources, Step(s)
      PROVE  \/ repairs' \subseteq repairs
             \/ \E status \in {"auto", "pending"} :
                  Early(s) /\ repairs' \subseteq repairs \cup {Repair(s, status)}
  BY <1>1, JobMoves
<1>2. ASSUME NEW s \in Sources, Begin(s) \/ RunCached(s) \/ Review(s) PROVE repairs' = repairs
  BY <1>2, StartMoves DEF Starts
<1>3. ASSUME NEW r \in repairs, Approve(r) \/ Refuse(r)
      PROVE  \E status \in {"approved", "rejected"} :
               r.status = "pending" /\ repairs' = Resolved(r, status)
  BY <1>3 DEF Approve, Refuse
<1>4. CASE Crash
  BY <1>4, CrashRepairs
<1>5. CASE UNCHANGED vars
  BY <1>5 DEF vars, memory
<1>6. QED BY <1>1, <1>2, <1>3, <1>4, <1>5 DEF Next

\* A decided repair stays as it was decided (store.cpp resolve_repair refuses one
\* that is not pending, and rewrites the log before the state).
THEOREM RepairHistory == Spec => RepairsAreDecidedOnce
<1>1. ASSUME TypeInv, FilesInv, IdsInv, [Next]_vars,
             NEW r \in repairs, NEW q \in repairs', r.id = q.id, r.status # "pending"
      PROVE  q = r
  <2>1. \A p, t \in repairs : p.id = t.id => p = t
    BY <1>1 DEF IdsInv
  <2>2. CASE repairs' \subseteq repairs
    BY <1>1, <2>1, <2>2
  <2>3. ASSUME NEW s \in Sources, NEW status \in {"auto", "pending"}, Early(s),
               repairs' \subseteq repairs \cup {Repair(s, status)}
        PROVE  q = r
    <3>1. Repair(s, status).id = work[s].id
      BY DEF Repair
    <3>2. r.id # work[s].id
      BY <1>1, <2>3 DEF IdsInv
    <3>3. QED BY <1>1, <2>1, <2>3, <3>1, <3>2
  <2>4. ASSUME NEW p \in repairs, NEW status \in {"approved", "rejected"},
               p.status = "pending", repairs' = Resolved(p, status)
        PROVE  q = r
    <3>1. p \in RepairRecord
      BY <1>1 DEF TypeInv, TypeOK
    <3>2. [p EXCEPT !.status = status].id = p.id
      BY <3>1 DEF RepairRecord
    <3>3. q \in repairs \/ q.id = p.id
      BY <2>4, <3>2 DEF Resolved
    <3>4. r # p
      BY <1>1, <2>4
    <3>5. QED BY <1>1, <2>1, <3>3, <3>4
  <2>5. QED BY <1>1, <2>2, <2>3, <2>4, RepairMoves
<1>2. TypeInv /\ FilesInv /\ HistoryInv /\ [Next]_vars
        => [\A r \in repairs, q \in repairs' :
              r.id = q.id /\ r.status # "pending" => q = r]_vars
  BY <1>1 DEF HistoryInv
<1>3. QED BY <1>2, Holds, PTL DEF RepairsAreDecidedOnce, Spec

\* New events are those a run is adding, whether or not the process dies of it.
LEMMA EventMoves ==
    ASSUME TypeInv, FilesInv, [Next]_vars, NEW e \in known' \ known
    PROVE  \E s \in Sources : work[s].pc = "events" /\ e \in work[s].batch
<1>1. eventLog \in FileOf(Events) /\ known \subseteq Events
      /\ \A s \in Sources : work[s].batch \subseteq Events
  BY DEF TypeInv, TypeOK, Job
<1>2. ASSUME NEW s \in Sources, Step(s)
      PROVE  known' = known \/ AddEvents(s)
  BY <1>2 DEF Step, FetchFails, Fetch, SaveMeta, Reject, Learn, Keep, AutoRepair, Quarantine,
              BuildBatch, SaveRecords, SaveState, RecordRun, memory
<1>3. ASSUME NEW s \in Sources, Begin(s) \/ RunCached(s) \/ Review(s) PROVE known' = known
  BY <1>3 DEF Begin, RunCached, Review, memory
<1>4. ASSUME NEW r \in repairs, Approve(r) \/ Refuse(r) PROVE known' = known
  BY <1>4 DEF Approve, Refuse
<1>5. ASSUME NEW s \in Sources, AddEvents(s) PROVE work[s].pc = "events" /\ e \in work[s].batch
  BY <1>5 DEF AddEvents
<1>6. CASE Crash
  <2>1. known' = Readable(eventLog') /\ Readable(eventLog) \subseteq known
    BY <1>6, CrashLogs DEF Load, FilesInv
  <2>2. eventLog' # eventLog
    BY <2>1
  <2>3. PICK s \in Sources : KillEvents(s) \/ TearEvents(s)
    BY <1>6, <2>2 DEF Crash, Restart, files, TearRepair, TearRun, TearState, TearReview,
                      TearApproval
  <2>4. CASE KillEvents(s)
    <3>1. PICK written \in SUBSET NewEvents(s) : eventLog' \in Appends(eventLog, written)
      BY <2>4 DEF KillEvents
    <3>2. written \in SUBSET Events
      BY <1>1, <3>1 DEF NewEvents
    <3>3. Readable(eventLog') \subseteq Readable(eventLog) \cup written
      BY <1>1, <3>1, <3>2, LogReads
    <3>4. QED BY <2>1, <2>4, <3>1, <3>3 DEF KillEvents, NewEvents
  <2>5. CASE TearEvents(s)
    <3>1. PICK written \in SUBSET NewEvents(s), x \in NewEvents(s) :
            \E f \in Appends(eventLog, written) : eventLog' \in TornAppend(f, x)
      BY <2>5 DEF TearEvents
    <3>2. PICK f \in Appends(eventLog, written) : eventLog' \in TornAppend(f, x)
      BY <3>1
    <3>3. written \in SUBSET Events /\ x \in Events
      BY <1>1, <3>1 DEF NewEvents
    <3>4. Readable(f) \subseteq Readable(eventLog) \cup written
      BY <1>1, <3>2, <3>3, LogReads
    <3>5. f \in FileOf(Events)
      BY <1>1, <3>2, <3>3, LogType
    <3>6. Readable(eventLog') \subseteq Readable(f) \cup {x}
      BY <3>2, <3>3, <3>5, LogReads
    <3>7. e \in work[s].batch
      BY <2>1, <3>1, <3>4, <3>6 DEF NewEvents
    <3>8. QED BY <2>5, <3>7 DEF TearEvents
  <2>6. QED BY <2>3, <2>4, <2>5
<1>7. CASE UNCHANGED vars
  BY <1>7 DEF vars, memory
<1>8. QED BY <1>2, <1>3, <1>4, <1>5, <1>6, <1>7 DEF Next

\* An enrichment run adds nothing to a property nobody tracked when it filtered
\* its events, however many runs came between (pipeline.cpp ingest_model).
THEOREM EnrichmentHistory == Spec => EnrichmentOnlyTracked
<1>1. ASSUME TypeInv, FilesInv, FilteredInv, [Next]_vars, NEW e \in known' \ known
      PROVE  \/ PropertyOf[e] \in Tracked
             \/ \E s \in Sources \ Enrichment : e \in work[s].batch
  BY <1>1, EventMoves DEF FilteredInv
<1>2. TypeInv /\ FilesInv /\ HistoryInv /\ [Next]_vars
        => [\A e \in known' \ known :
              \/ PropertyOf[e] \in Tracked
              \/ \E s \in Sources \ Enrichment : e \in work[s].batch]_vars
  BY <1>1 DEF HistoryInv
<1>3. QED BY <1>2, Holds, PTL DEF EnrichmentOnlyTracked, Spec
=============================================================================
