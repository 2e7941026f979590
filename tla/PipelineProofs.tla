--------------------------- MODULE PipelineProofs ---------------------------
(* Three parts of Pipeline that share no state.  run_sources, for any number   *)
(* of sources and threads: each source is run once, none is skipped, and       *)
(* {parcels} sources wait for all the others.  fetch_socrata_pages, for every  *)
(* page size, cap and growth of the dataset: it is bounded, has no gap and is  *)
(* complete when it says so.  The mapping of a source, for every registry and  *)
(* all documents: the best pairs are taken, nothing is mapped twice, the       *)
(* operator's decisions are in force, and watch tells drift as a run does.     *)
EXTENDS RunWaves, SocrataPages, Matching, FiniteSetTheorems, SequenceTheorems, TLAPS

-----------------------------------------------------------------------------
(* run_sources.                                                              *)

\* A worker is on a source of the wave whose position the counter has passed,
\* and whose result is not in yet.
JobsAreClaims ==
    \A w \in Workers : job[w] # 0 =>
        /\ job[w] \in Wave(phase)
        /\ Position(job[w], phase) < next
        /\ out[job[w]] = "none"
        /\ w \in Pool(phase) \ left

JobsDiffer == \A v, w \in Workers : job[v] = job[w] /\ job[v] # 0 => v = w

\* The counter divides the wave: behind it every source is run or running,
\* ahead of it none.
CounterDivides ==
    \A i \in Wave(phase) :
        /\ Position(i, phase) < next => out[i] # "none" \/ Running(i)
        /\ Position(i, phase) >= next => out[i] = "none"

WavesInOrder ==
    /\ phase = "primary" => \A i \in Parcels : out[i] = "none"
    /\ phase # "primary" => \A j \in Sources \ Parcels : out[j] # "none"
    /\ phase = "done" => \A i \in Parcels : out[i] # "none"

\* A worker leaves only a drained wave.
LeftDrained == left \subseteq Pool(phase) /\ (left # {} => next >= Cardinality(Wave(phase)))

IInv == TypeOK /\ JobsAreClaims /\ JobsDiffer /\ CounterDivides /\ WavesInOrder /\ LeftDrained

-----------------------------------------------------------------------------
\* Waves are finite sets of positions.
LEMMA WaveFinite ==
    ASSUME NEW ph
    PROVE  /\ Wave(ph) \subseteq Sources
           /\ IsFiniteSet(Wave(ph))
           /\ Cardinality(Wave(ph)) \in Nat
<1>1. Wave(ph) \subseteq Sources
  BY TemplateAssumption DEF Wave
<1>2. IsFiniteSet(Sources)
  BY FS_Interval, SizeAssumption DEF Sources
<1>3. IsFiniteSet(Wave(ph))
  BY <1>1, <1>2, FS_Subset
<1>4. QED
  BY <1>1, <1>3, FS_CardinalityType

\* A position is a number below the size of the wave.
LEMMA PositionInWave ==
    ASSUME NEW ph, NEW i \in Wave(ph)
    PROVE  Position(i, ph) \in Nat /\ Position(i, ph) < Cardinality(Wave(ph))
<1> DEFINE Below == {j \in Wave(ph) : j < i}
<1>1. Wave(ph) \subseteq Sources /\ IsFiniteSet(Wave(ph)) /\ Cardinality(Wave(ph)) \in Nat
  BY WaveFinite
<1>2. Below \in SUBSET Wave(ph)
  OBVIOUS
<1>3. IsFiniteSet(Below) /\ Cardinality(Below) <= Cardinality(Wave(ph))
      /\ (Cardinality(Wave(ph)) = Cardinality(Below) => Wave(ph) = Below)
  BY <1>1, <1>2, FS_Subset
<1>4. Cardinality(Below) \in Nat
  BY <1>3, FS_CardinalityType
<1>5. i \notin Below
  BY <1>1, SizeAssumption DEF Sources
<1>6. Wave(ph) # Below
  BY <1>5
<1> HIDE DEF Below
<1>7. Cardinality(Below) < Cardinality(Wave(ph))
  BY <1>1, <1>3, <1>4, <1>6
<1>8. QED
  BY <1>4, <1>7 DEF Position, Below

\* Two sources of a wave have different positions in it.
LEMMA PositionInjective ==
    ASSUME NEW ph, NEW i \in Wave(ph), NEW j \in Wave(ph), Position(i, ph) = Position(j, ph)
    PROVE  i = j
<1>1. Wave(ph) \subseteq Sources /\ IsFiniteSet(Wave(ph))
  BY WaveFinite
<1>2. ASSUME NEW a \in Wave(ph), NEW b \in Wave(ph), a < b
      PROVE  Position(a, ph) # Position(b, ph)
  <2> DEFINE Below(x) == {k \in Wave(ph) : k < x}
  <2>1. a \in Int /\ b \in Int /\ \A k \in Wave(ph) : k \in Int
    BY <1>1 DEF Sources
  <2>2. Below(a) \in SUBSET Below(b)
    <3> SUFFICES ASSUME NEW k \in Wave(ph), k < a PROVE k < b
      OBVIOUS
    <3>1. k \in Int
      BY <2>1
    <3>2. QED BY <1>2, <2>1, <3>1
  <2>3. a \in Below(b) /\ a \notin Below(a)
    BY <1>2, <2>1
  <2>4. Below(b) \in SUBSET Wave(ph)
    OBVIOUS
  <2>5. IsFiniteSet(Below(b))
    BY <1>1, <2>4, FS_Subset
  <2>6. Below(a) # Below(b)
    BY <2>3
  <2>7. Cardinality(Below(b)) # Cardinality(Below(a))
    <3> HIDE DEF Below
    <3> QED BY <2>2, <2>5, <2>6, FS_Subset
  <2>8. QED
    BY <2>7 DEF Position
<1>3. i \in Int /\ j \in Int
  BY <1>1 DEF Sources
<1>4. QED
  BY <1>2, <1>3

\* A wave with a source has a pool with the first worker.
LEMMA EmptyPool ==
    ASSUME NEW ph, Pool(ph) = {}
    PROVE  Wave(ph) = {}
<1>1. Cardinality(Wave(ph)) \in Nat /\ IsFiniteSet(Wave(ph))
  BY WaveFinite
<1>2. 1 \in Workers
  BY SizeAssumption DEF Workers
<1>3. ~(1 <= Cardinality(Wave(ph)))
  BY <1>2 DEF Pool
<1>4. Cardinality(Wave(ph)) = 0
  BY <1>1, <1>3
<1>5. QED
  BY <1>1, <1>4, FS_EmptySet

-----------------------------------------------------------------------------
LEMMA InitIInv == Init => IInv
<1> SUFFICES ASSUME Init PROVE IInv
  OBVIOUS
<1>1. TypeOK
  BY SizeAssumption DEF Init, TypeOK
<1>2. \A i \in Wave("primary") : i \in Sources /\ Position(i, "primary") \in Nat
  BY WaveFinite, PositionInWave
<1>3. CounterDivides
  BY <1>2 DEF Init, CounterDivides
<1>4. JobsAreClaims /\ JobsDiffer /\ LeftDrained
  BY DEF Init, JobsAreClaims, JobsDiffer, LeftDrained
<1>5. WavesInOrder
  BY TemplateAssumption DEF Init, WavesInOrder
<1>6. QED
  BY <1>1, <1>3, <1>4, <1>5 DEF IInv

\* A claim takes the one source at the counter, which nothing has touched.
LEMMA ClaimStep ==
    ASSUME IInv, NEW w \in Workers, Claim(w)
    PROVE  IInv'
<1> USE DEF IInv
<1>1. PICK i \in Wave(phase) : Position(i, phase) = next /\ job' = [job EXCEPT ![w] = i]
                               /\ read' = [read EXCEPT ![w] = i \in Templated => tracked]
  BY DEF Claim
<1>2. /\ next' = next + 1 /\ UNCHANGED <<phase, left, tracked, out>>
      /\ job[w] = 0 /\ w \in Pool(phase) \ left
  BY DEF Claim, Free
<1>3. /\ i \in Sources /\ i # 0 /\ i \in 0..N
      /\ \A j \in Wave(phase) : Position(j, phase) \in Nat
      /\ next \in Nat /\ job \in [Workers -> 0..N]
  BY WaveFinite, PositionInWave, SizeAssumption DEF Sources, TypeOK
<1>4. TypeOK'
  BY <1>1, <1>2, <1>3 DEF TypeOK
<1>5. out[i] = "none"
  BY <1>1, <1>3 DEF CounterDivides
<1>6. JobsAreClaims'
  <2> SUFFICES ASSUME NEW v \in Workers, job'[v] # 0
               PROVE  /\ job'[v] \in Wave(phase) /\ Position(job'[v], phase) < next + 1
                      /\ out[job'[v]] = "none" /\ v \in Pool(phase) \ left
    BY <1>2 DEF JobsAreClaims, Wave, Position, Pool
  <2>1. CASE v = w
    BY <1>1, <1>2, <1>3, <1>5, <2>1
  <2>2. CASE v # w
    <3>1. job'[v] = job[v]
      BY <1>1, <1>3, <2>2
    <3>2. QED BY <1>3, <3>1 DEF JobsAreClaims
  <2>3. QED BY <2>1, <2>2
<1>7. JobsDiffer'
  BY <1>1, <1>2, <1>3 DEF JobsDiffer, JobsAreClaims
<1>8. CounterDivides'
  <2> SUFFICES ASSUME NEW j \in Wave(phase)
               PROVE  /\ Position(j, phase) < next + 1 => out[j] # "none" \/ Running(j)'
                      /\ Position(j, phase) >= next + 1 => out[j] = "none"
    BY <1>2 DEF CounterDivides, Wave, Position
  <2>1. Running(j) => Running(j)'
    <3> SUFFICES ASSUME NEW v \in Workers, job[v] = j PROVE job'[v] = j
      BY DEF Running
    <3>1. j # 0
      BY WaveFinite, SizeAssumption DEF Sources
    <3>2. QED BY <1>1, <1>2, <1>3, <3>1
  <2>2. Running(i)'
    BY <1>1, <1>3 DEF Running
  <2>3. CASE j = i
    BY <1>1, <1>3, <2>2, <2>3
  <2>4. CASE j # i
    <3>1. Position(j, phase) # next
      BY <1>1, <2>4, PositionInjective
    <3>2. QED
      BY <1>3, <2>1, <3>1 DEF CounterDivides
  <2>5. QED BY <2>3, <2>4
<1>9. WavesInOrder' /\ LeftDrained'
  <2>1. Cardinality(Wave(phase)) \in Nat
    BY WaveFinite
  <2>2. WavesInOrder'
    BY <1>2 DEF WavesInOrder
  <2>3. Pool(phase)' = Pool(phase) /\ Wave(phase)' = Wave(phase)
    BY <1>2 DEF Pool, Wave
  <2>4. LeftDrained'
    BY <1>2, <1>3, <2>1, <2>3 DEF LeftDrained
  <2>5. QED BY <2>2, <2>4
<1>10. QED BY <1>4, <1>6, <1>7, <1>8, <1>9

\* Leaving spends an increment past the end of the wave.
LEMMA LeaveStep ==
    ASSUME IInv, NEW w \in Workers, Leave(w)
    PROVE  IInv'
<1> USE DEF IInv
<1>1. /\ next >= Cardinality(Wave(phase)) /\ next' = next + 1 /\ left' = left \cup {w}
      /\ UNCHANGED <<phase, job, read, tracked, out>>
      /\ job[w] = 0 /\ w \in Pool(phase) \ left
  BY DEF Leave, Free
<1>2. /\ next \in Nat /\ Cardinality(Wave(phase)) \in Nat
      /\ \A j \in Wave(phase) : Position(j, phase) \in Nat
                                /\ Position(j, phase) < Cardinality(Wave(phase))
  BY WaveFinite, PositionInWave DEF TypeOK
<1>3. TypeOK'
  BY <1>1, <1>2 DEF TypeOK
<1>4. JobsAreClaims'
  <2> SUFFICES ASSUME NEW v \in Workers, job[v] # 0
               PROVE  /\ job[v] \in Wave(phase) /\ Position(job[v], phase) < next + 1
                      /\ out[job[v]] = "none" /\ v \in Pool(phase) \ (left \cup {w})
    BY <1>1 DEF JobsAreClaims, Wave, Position, Pool
  <2>1. /\ job[v] \in Wave(phase) /\ Position(job[v], phase) < next
        /\ out[job[v]] = "none" /\ v \in Pool(phase) \ left
    BY DEF JobsAreClaims
  <2>2. v # w
    BY <1>1
  <2>3. QED BY <1>2, <2>1, <2>2
<1>5. CounterDivides'
  BY <1>1, <1>2 DEF CounterDivides, Wave, Position, Running
<1>6. WavesInOrder'
  BY <1>1 DEF WavesInOrder
<1>7. LeftDrained'
  <2>1. Pool(phase)' = Pool(phase) /\ Wave(phase)' = Wave(phase)
    BY <1>1 DEF Pool, Wave
  <2>2. QED BY <1>1, <1>2, <2>1 DEF LeftDrained
<1>8. JobsDiffer'
  BY <1>1 DEF JobsDiffer
<1>9. QED BY <1>3, <1>4, <1>5, <1>6, <1>7, <1>8

\* A result goes to the slot of the worker's own source.
LEMMA FinishStep ==
    ASSUME IInv, NEW w \in Workers, Finish(w)
    PROVE  IInv'
<1> USE DEF IInv
<1>1. PICK results \in {"done", "failed"} : out' = [out EXCEPT ![job[w]] = results]
  BY DEF Finish
<1>2. /\ job[w] # 0 /\ job' = [job EXCEPT ![w] = 0]
      /\ UNCHANGED <<phase, next, read, left>>
      /\ tracked' \in BOOLEAN
  BY DEF Finish, TypeOK
<1>3. /\ job[w] \in Wave(phase) /\ job[w] \in Sources /\ Wave(phase) \subseteq Sources
      /\ Position(job[w], phase) < next /\ next \in Nat
      /\ job \in [Workers -> 0..N] /\ out \in [Sources -> {"none", "done", "failed"}]
  BY <1>2, WaveFinite DEF JobsAreClaims, TypeOK
<1>4. TypeOK'
  BY <1>1, <1>2, <1>3, SizeAssumption DEF TypeOK
<1>5. JobsDiffer'
  BY <1>2, <1>3 DEF JobsDiffer
<1>6. JobsAreClaims'
  BY <1>1, <1>2, <1>3 DEF JobsAreClaims, JobsDiffer, Wave, Position, Pool
<1>7. CounterDivides'
  <2> SUFFICES ASSUME NEW j \in Wave(phase)
               PROVE  /\ Position(j, phase) < next => out'[j] # "none" \/ Running(j)'
                      /\ Position(j, phase) >= next => out'[j] = "none"
    BY <1>2 DEF CounterDivides, Wave, Position
  <2>1. CASE j = job[w]
    <3>1. Position(j, phase) \in Nat
      BY PositionInWave
    <3>2. QED BY <1>1, <1>3, <2>1, <3>1
  <2>2. CASE j # job[w]
    <3>1. out'[j] = out[j]
      BY <1>1, <1>3, <2>2
    <3>2. Running(j) => Running(j)'
      BY <1>2, <1>3, <2>2 DEF Running
    <3>3. QED BY <3>1, <3>2 DEF CounterDivides
  <2>3. QED BY <2>1, <2>2
<1>8. WavesInOrder'
  <2>1. \A j \in Sources : out'[j] = IF j = job[w] THEN results ELSE out[j]
    BY <1>1, <1>3
  <2>2. phase = "primary" => job[w] \notin Parcels
    BY <1>3 DEF Wave
  <2>3. Parcels \subseteq Sources /\ results # "none"
    BY TemplateAssumption
  <2>4. QED BY <1>2, <2>1, <2>2, <2>3 DEF WavesInOrder
<1>9. LeftDrained'
  <2>1. Pool(phase)' = Pool(phase) /\ Wave(phase)' = Wave(phase)
    BY <1>2 DEF Pool, Wave
  <2>2. QED BY <1>2, <2>1 DEF LeftDrained
<1>10. QED BY <1>4, <1>5, <1>6, <1>7, <1>8, <1>9

\* The join finds the wave drained and every result in.
LEMMA JoinStep ==
    ASSUME IInv, Join
    PROVE  IInv'
<1> USE DEF IInv
<1>1. /\ phase # "done" /\ left = Pool(phase) /\ next' = 0 /\ left' = {}
      /\ phase' = IF phase = "primary" THEN "enrichment" ELSE "done"
      /\ UNCHANGED <<job, read, tracked, out>>
  BY DEF Join
<1>2. \A v \in Workers : job[v] = 0
  BY <1>1 DEF JobsAreClaims
<1>3. \A i \in Wave(phase) : out[i] # "none"
  <2> SUFFICES ASSUME NEW i \in Wave(phase) PROVE out[i] # "none"
    OBVIOUS
  <2>1. Pool(phase) # {}
    BY EmptyPool
  <2>2. next >= Cardinality(Wave(phase))
    BY <1>1, <2>1 DEF LeftDrained
  <2>3. Position(i, phase) < next
    BY <2>2, PositionInWave, WaveFinite DEF TypeOK
  <2>4. ~Running(i)
    BY <1>2, WaveFinite, SizeAssumption DEF Running, Sources
  <2>5. QED BY <2>3, <2>4 DEF CounterDivides
<1>4. TypeOK'
  BY <1>1 DEF TypeOK
<1>5. JobsAreClaims' /\ JobsDiffer' /\ LeftDrained'
  BY <1>1, <1>2 DEF JobsAreClaims, JobsDiffer, LeftDrained
<1>6. WavesInOrder'
  BY <1>1, <1>3, TemplateAssumption DEF WavesInOrder, Wave, TypeOK
<1>7. CounterDivides'
  <2>1. ASSUME NEW i \in Wave(phase') PROVE Position(i, phase') \in Nat
    BY PositionInWave
  <2>2. \A i \in Wave(phase') : out[i] = "none"
    BY <1>1 DEF WavesInOrder, Wave, TypeOK
  <2>3. QED
    BY <1>1, <2>1, <2>2 DEF CounterDivides, Wave, Position
<1>8. QED BY <1>4, <1>5, <1>6, <1>7

\* Nothing in the invariant reads a step that changes nothing.
LEMMA StutterStep ==
    ASSUME IInv, UNCHANGED vars
    PROVE  IInv'
BY DEF IInv, vars, TypeOK, JobsAreClaims, JobsDiffer, CounterDivides, WavesInOrder,
       LeftDrained, Running, Wave, Position, Pool

THEOREM Invariance == Spec => []IInv
<1>1. IInv /\ [Next]_vars => IInv'
  <2> SUFFICES ASSUME IInv, [Next]_vars PROVE IInv'
    OBVIOUS
  <2>1. CASE Join
    BY <2>1, JoinStep
  <2>2. CASE Returned
    BY <2>2, StutterStep DEF Returned
  <2>3. ASSUME NEW w \in Workers, Claim(w) PROVE IInv'
    BY <2>3, ClaimStep
  <2>4. ASSUME NEW w \in Workers, Leave(w) PROVE IInv'
    BY <2>4, LeaveStep
  <2>5. ASSUME NEW w \in Workers, Finish(w) PROVE IInv'
    BY <2>5, FinishStep
  <2>6. CASE UNCHANGED vars
    BY <2>6, StutterStep
  <2>7. QED BY <2>1, <2>2, <2>3, <2>4, <2>5, <2>6 DEF Next
<1>2. QED BY <1>1, InitIInv, PTL DEF Spec

\* No source is run by two threads or run twice, for any list and pool.
THEOREM SourcesRunOnce == Spec => []RunOnce
<1>1. IInv => RunOnce
  <2> SUFFICES ASSUME IInv PROVE RunOnce
    OBVIOUS
  <2>1. \A i \in Sources : i # 0
    BY SizeAssumption DEF Sources
  <2>2. QED BY <2>1 DEF IInv, RunOnce, JobsDiffer, JobsAreClaims, Running
<1>2. QED BY <1>1, Invariance, PTL

\* Every source has a result when run_sources returns.
THEOREM NoSourceSkipped == Spec => []NoneSkipped
<1>1. IInv => NoneSkipped
  BY DEF IInv, NoneSkipped, WavesInOrder
<1>2. QED BY <1>1, Invariance, PTL

\* Both together: run_sources runs every source, and each of them once.
THEOREM EachRunsOnce == Spec => []EachOnce
BY SourcesRunOnce, NoSourceSkipped, PTL DEF EachOnce

\* The second wave follows the first.
THEOREM ParcelSourcesWait == Spec => []ParcelsWait
<1>1. IInv => ParcelsWait
  <2> SUFFICES ASSUME IInv, NEW i \in Parcels, Running(i) \/ out[i] # "none"
               PROVE  \A j \in Sources \ Parcels : out[j] # "none"
    BY DEF ParcelsWait
  <2>1. i # 0
    BY TemplateAssumption, SizeAssumption DEF Sources
  <2>2. phase # "primary"
    BY <2>1 DEF IInv, WavesInOrder, JobsAreClaims, Running, Wave
  <2>3. QED BY <2>2 DEF IInv, WavesInOrder
<1>2. QED BY <1>1, Invariance, PTL

\* Type correctness, from the same invariant.
THEOREM TypeCorrect == Spec => []TypeOK
<1>1. IInv => TypeOK
  BY DEF IInv
<1>2. QED BY <1>1, Invariance, PTL
-----------------------------------------------------------------------------
(* fetch_socrata_pages.                                                      *)

\* While pages are read, every one so far was full: the next offset is the number
\* of records, below the cap, and inside the dataset.
OffsetCounts ==
    result = "fetching" => /\ Len(records) = offset
                           /\ offset < RecordCap /\ offset <= rows
                           /\ ~truncated /\ ending = "none"
                           /\ offset = 0 => asked = 0

\* The row before the next page is at most one newer than the page's first.
Meets == result = "fetching" /\ offset > 0 => records[offset] <= rows - offset + 1

\* What was there at the start and is newer than the next page has been read.
Covered ==
    result = "fetching" =>
        \A row \in 1..asked : row > rows - offset => \E k \in 1..Len(records) : records[k] = row

AskedBounded == asked <= rows

PagesInv == /\ FetchTypeOK /\ OffsetCounts /\ Meets /\ Covered /\ AskedBounded
        /\ CapHolds /\ NoGap /\ ShortMeansAll

-----------------------------------------------------------------------------
\* A page, and what it makes of the records: row by row, the i-th record read now
\* is the i-th newest.
LEMMA GatheredFacts ==
    ASSUME PagesInv, result = "fetching"
    PROVE  /\ PageLen \in Nat /\ PageLen <= Limit /\ PageLen <= rows - offset
           /\ PageLen < Limit => PageLen = rows - offset
           /\ Gathered \in Seq(Nat)
           /\ Len(Gathered) = offset + PageLen
           /\ \A i \in 1..offset : Gathered[i] = records[i]
           /\ \A i \in (offset + 1)..(offset + PageLen) : Gathered[i] = rows - i + 1
<1>1. /\ rows \in Nat /\ offset \in Nat /\ Limit \in Nat \ {0} /\ records \in Seq(Nat)
      /\ offset <= rows /\ Len(records) = offset
  BY LimitAssumption DEF PagesInv, FetchTypeOK, OffsetCounts
<1>2. /\ PageLen \in Nat /\ PageLen <= Limit /\ PageLen <= rows - offset
      /\ PageLen < Limit => PageLen = rows - offset
  BY <1>1 DEF PageLen
<1>3. \A k \in 1..PageLen : rows - offset - k + 1 \in Nat
  BY <1>1, <1>2
<1>4. Page \in Seq(Nat)
  <2>1. \A k \in 1..PageLen : rows - offset - k + 1 \in Nat
    BY <1>3
  <2>2. QED BY <1>2, <2>1, IsASeq DEF Page
<1>5. Len(Page) = PageLen
  <2>1. DOMAIN Page = 1..PageLen
    BY DEF Page
  <2>2. Len(Page) \in Nat /\ DOMAIN Page = 1..Len(Page)
    BY <1>4, LenProperties
  <2>3. QED BY <1>2, <2>1, <2>2
<1>6. /\ Gathered \in Seq(Nat)
      /\ Len(Gathered) = offset + PageLen
      /\ \A i \in 1..(offset + PageLen) :
           Gathered[i] = IF i <= offset THEN records[i] ELSE Page[i - offset]
  BY <1>1, <1>4, <1>5, ConcatProperties DEF Gathered
<1>7. \A i \in 1..offset : Gathered[i] = records[i]
  BY <1>1, <1>2, <1>6
<1>8. ASSUME NEW i \in (offset + 1)..(offset + PageLen)
      PROVE  Gathered[i] = rows - i + 1
  <2>1. i \in 1..(offset + PageLen) /\ ~(i <= offset) /\ i - offset \in 1..PageLen
    BY <1>1, <1>2
  <2>2. Page[i - offset] = rows - offset - (i - offset) + 1
    BY <2>1 DEF Page
  <2>3. Gathered[i] = Page[i - offset]
    BY <1>6, <2>1
  <2>4. QED BY <1>1, <2>1, <2>2, <2>3
<1>9. QED BY <1>2, <1>6, <1>7, <1>8

\* What is kept is the records read so far, up to the cap.
LEMMA KeptFacts ==
    ASSUME PagesInv, result = "fetching"
    PROVE  /\ Kept \in Seq(Nat)
           /\ Len(Kept) = IF Len(Gathered) > RecordCap THEN RecordCap ELSE Len(Gathered)
           /\ \A i \in 1..Len(Kept) : i \in 1..Len(Gathered) /\ Kept[i] = Gathered[i]
<1>1. /\ Gathered \in Seq(Nat) /\ Len(Gathered) \in Nat /\ RecordCap \in Nat \ {0}
      /\ \A i \in 1..Len(Gathered) : Gathered[i] \in Nat
  BY GatheredFacts, LenProperties, ElementOfSeq, LimitAssumption
<1>2. CASE Len(Gathered) > RecordCap
  <2>1. \A i \in 1..RecordCap : Gathered[i] \in Nat
    BY <1>1, <1>2
  <2>2. /\ SubSeq(Gathered, 1, RecordCap) \in Seq(Nat)
        /\ Len(SubSeq(Gathered, 1, RecordCap)) = RecordCap
        /\ \A i \in 1..RecordCap : SubSeq(Gathered, 1, RecordCap)[i] = Gathered[i]
    <3>1. 1 \in Int /\ RecordCap \in Int /\ 1 <= RecordCap
      BY <1>1
    <3>2. /\ SubSeq(Gathered, 1, RecordCap) \in Seq(Nat)
          /\ Len(SubSeq(Gathered, 1, RecordCap)) = RecordCap - 1 + 1
          /\ \A i \in 1..(RecordCap - 1 + 1) : SubSeq(Gathered, 1, RecordCap)[i] = Gathered[1 + i - 1]
      BY <2>1, <3>1, SubSeqProperties
    <3>3. RecordCap - 1 + 1 = RecordCap /\ \A i \in 1..RecordCap : 1 + i - 1 = i
      BY <1>1
    <3>4. QED BY <3>2, <3>3
  <2>3. Kept = SubSeq(Gathered, 1, RecordCap)
    BY <1>2 DEF Kept
  <2>4. QED BY <1>1, <1>2, <2>2, <2>3
<1>3. CASE ~(Len(Gathered) > RecordCap)
  BY <1>1, <1>3 DEF Kept
<1>4. QED BY <1>2, <1>3

\* The records after a page: contiguous down to the page's last row.
LEMMA KeptNoGap ==
    ASSUME PagesInv, result = "fetching"
    PROVE  \A k \in 1..(Len(Kept) - 1) : Kept[k + 1] >= Kept[k] - 1
<1> SUFFICES ASSUME NEW k \in 1..(Len(Kept) - 1) PROVE Kept[k + 1] >= Kept[k] - 1
  OBVIOUS
<1>1. /\ rows \in Nat /\ offset \in Nat /\ records \in Seq(Nat) /\ Len(records) = offset
      /\ NoGap /\ Meets
  BY DEF PagesInv, FetchTypeOK, OffsetCounts
<1>2. /\ Len(Gathered) = offset + PageLen /\ PageLen \in Nat
      /\ \A i \in 1..offset : Gathered[i] = records[i]
      /\ \A i \in (offset + 1)..(offset + PageLen) : Gathered[i] = rows - i + 1
  BY GatheredFacts
<1>3. /\ Len(Kept) \in Nat /\ k \in 1..Len(Kept) /\ k + 1 \in 1..Len(Kept)
      /\ Kept[k] = Gathered[k] /\ Kept[k + 1] = Gathered[k + 1]
      /\ k + 1 \in 1..(offset + PageLen)
  <2>1. Len(Kept) \in Nat
    BY KeptFacts, LenProperties
  <2>2. k \in 1..Len(Kept) /\ k + 1 \in 1..Len(Kept)
    BY <2>1
  <2>3. QED BY <1>2, <2>1, <2>2, KeptFacts
<1>4. CASE k + 1 <= offset
  <2>1. k \in 1..offset /\ k + 1 \in 1..offset /\ k \in 1..(Len(records) - 1)
    BY <1>1, <1>3, <1>4
  <2>2. QED BY <1>1, <1>2, <1>3, <2>1 DEF NoGap
<1>5. CASE k = offset
  <2>1. k \in 1..offset /\ offset > 0 /\ k + 1 \in (offset + 1)..(offset + PageLen)
    BY <1>1, <1>2, <1>3, <1>5
  <2>2. Gathered[k + 1] = rows - offset
    BY <1>1, <1>2, <1>5, <2>1
  <2>3. Gathered[k] = records[offset] /\ records[offset] \in Nat
    BY <1>1, <1>2, <1>5, <2>1, ElementOfSeq
  <2>4. records[offset] <= rows - offset + 1
    BY <1>1, <2>1 DEF Meets
  <2>5. QED BY <1>1, <1>3, <2>2, <2>3, <2>4
<1>6. CASE k > offset
  <2>1. k \in (offset + 1)..(offset + PageLen) /\ k + 1 \in (offset + 1)..(offset + PageLen)
    BY <1>1, <1>2, <1>3, <1>6
  <2>2. Gathered[k] = rows - k + 1 /\ Gathered[k + 1] = rows - (k + 1) + 1
    BY <1>2, <2>1
  <2>3. QED BY <1>1, <1>3, <2>2
<1>7. QED BY <1>1, <1>3, <1>4, <1>5, <1>6

\* The records after a page: every row of the start that is at least as new as the
\* page's last.
LEMMA KeptCovers ==
    ASSUME PagesInv, result = "fetching", Len(Gathered) <= RecordCap,
           NEW row \in Nat \ {0},
           offset = 0 \/ row <= asked, row <= rows, row > rows - offset - PageLen
    PROVE  \E k \in 1..Len(Kept) : Kept[k] = row
<1>1. /\ rows \in Nat /\ offset \in Nat /\ asked \in Nat /\ Len(records) = offset
  BY DEF PagesInv, FetchTypeOK, OffsetCounts
<1>2. /\ Len(Gathered) = offset + PageLen /\ PageLen \in Nat
      /\ \A i \in 1..offset : Gathered[i] = records[i]
      /\ \A i \in (offset + 1)..(offset + PageLen) : Gathered[i] = rows - i + 1
  BY GatheredFacts
<1>3. /\ Len(Kept) = offset + PageLen
      /\ \A i \in 1..(offset + PageLen) : Kept[i] = Gathered[i]
  BY <1>1, <1>2, KeptFacts, LimitAssumption
<1>4. CASE row > rows - offset
  <2>1. PICK k \in 1..offset : records[k] = row
    BY <1>1, <1>4 DEF PagesInv, Covered
  <2>2. k \in 1..(offset + PageLen)
    BY <1>1, <1>2
  <2>3. QED BY <1>2, <1>3, <2>1, <2>2
<1>5. CASE row <= rows - offset
  <2> DEFINE k == rows - row + 1
  <2>1. k \in (offset + 1)..(offset + PageLen) /\ k \in 1..(offset + PageLen)
    BY <1>1, <1>2, <1>5
  <2>2. rows - k + 1 = row
    BY <1>1
  <2>3. QED BY <1>2, <1>3, <2>1, <2>2
<1>6. QED BY <1>1, <1>4, <1>5

-----------------------------------------------------------------------------
LEMMA InitPages == FetchInit => PagesInv
<1> SUFFICES ASSUME FetchInit PROVE PagesInv
  OBVIOUS
<1>1. rows \in Nat /\ RecordCap \in Nat \ {0} /\ records \in Seq(Nat) /\ Len(records) = 0
  BY LimitAssumption, BoundAssumption, EmptySeq DEF FetchInit
<1>2. truncated \in BOOLEAN /\ ~truncated
  BY DEF FetchInit
<1>6. FetchTypeOK
  BY <1>1, <1>2 DEF FetchInit, FetchTypeOK
<1>7. OffsetCounts /\ AskedBounded
  BY <1>1, <1>2 DEF FetchInit, OffsetCounts, AskedBounded
<1>3. CapHolds /\ NoGap
  BY <1>1 DEF FetchInit, CapHolds, NoGap
<1>4. Meets /\ Covered /\ ShortMeansAll
  BY DEF FetchInit, Meets, Covered, ShortMeansAll
<1>5. QED BY <1>3, <1>4, <1>6, <1>7 DEF PagesInv

LEMMA ReadPageStep ==
    ASSUME PagesInv, ReadPage
    PROVE  PagesInv'
<1>0. result = "fetching"
  BY DEF ReadPage
<1>1. /\ rows \in Nat /\ offset \in Nat /\ asked \in Nat /\ asked <= rows
      /\ offset <= rows /\ offset < RecordCap /\ Len(records) = offset
      /\ ~truncated /\ ending = "none"
      /\ Limit \in Nat \ {0} /\ RecordCap \in Nat \ {0}
  BY <1>0, LimitAssumption DEF PagesInv, FetchTypeOK, OffsetCounts, AskedBounded
<1>2. /\ PageLen \in Nat /\ PageLen <= Limit /\ PageLen <= rows - offset
      /\ PageLen < Limit => PageLen = rows - offset
      /\ Len(Gathered) = offset + PageLen
      /\ \A i \in (offset + 1)..(offset + PageLen) : Gathered[i] = rows - i + 1
  BY <1>0, GatheredFacts
<1>3. /\ records' = Kept /\ Kept \in Seq(Nat)
      /\ Len(Kept) = IF Len(Gathered) > RecordCap THEN RecordCap ELSE Len(Gathered)
      /\ \A i \in 1..Len(Kept) : Kept[i] = Gathered[i]
  BY <1>0, KeptFacts DEF ReadPage
<1>4. /\ rows' = rows /\ asked' = IF offset = 0 THEN rows ELSE asked
  BY DEF ReadPage, First
<1>5. AskedBounded' /\ asked' \in Nat
  BY <1>1, <1>4 DEF AskedBounded
<1>6. NoGap'
  BY <1>0, <1>3, KeptNoGap DEF NoGap
<1>7. CASE Len(Gathered) >= RecordCap
  <2>1. /\ truncated' = TRUE /\ result' = "ok" /\ ending' \in {"short", "cap"} /\ offset' = offset
    BY <1>7 DEF ReadPage
  <2>2. FetchTypeOK'
    BY <1>1, <1>3, <1>4, <1>5, <2>1 DEF FetchTypeOK
  <2>3. CapHolds'
    BY <1>1, <1>2, <1>3, <1>7, <2>1 DEF CapHolds
  <2>4. OffsetCounts' /\ Meets' /\ Covered' /\ ShortMeansAll'
    BY <2>1 DEF OffsetCounts, Meets, Covered, ShortMeansAll
  <2>5. QED BY <1>5, <1>6, <2>2, <2>3, <2>4 DEF PagesInv
<1>8. CASE Len(Gathered) < RecordCap /\ PageLen < Limit
  <2>1. /\ result' = "ok" /\ ending' = "short" /\ offset' = offset /\ truncated' = truncated
    BY <1>1, <1>2, <1>8 DEF ReadPage, Short
  <2>2. FetchTypeOK'
    <3>1. truncated' \in BOOLEAN
      BY <2>1 DEF PagesInv, FetchTypeOK
    <3>2. QED BY <1>1, <1>3, <1>4, <1>5, <2>1, <3>1 DEF FetchTypeOK
  <2>3. CapHolds'
    BY <1>1, <1>2, <1>3, <1>8, <2>1 DEF CapHolds
  <2>4. OffsetCounts' /\ Meets' /\ Covered'
    BY <2>1 DEF OffsetCounts, Meets, Covered
  <2>5. ShortMeansAll'
    <3> SUFFICES ASSUME NEW row \in 1..asked' PROVE \E k \in 1..Len(Kept) : Kept[k] = row
      BY <1>3 DEF ShortMeansAll
    <3>1. /\ row \in Nat \ {0} /\ row <= rows /\ (offset = 0 \/ row <= asked)
          /\ row > rows - offset - PageLen /\ Len(Gathered) <= RecordCap
      BY <1>1, <1>2, <1>4, <1>8
    <3>2. QED BY <1>0, <3>1, KeptCovers
  <2>6. QED BY <1>5, <1>6, <2>2, <2>3, <2>4, <2>5 DEF PagesInv
<1>9. CASE Len(Gathered) < RecordCap /\ ~(PageLen < Limit)
  <2>1. /\ result' = result /\ ending' = ending /\ offset' = offset + Limit
        /\ truncated' = truncated
    BY <1>1, <1>2, <1>9 DEF ReadPage, Short, NextOffset
  <2>2. PageLen = Limit /\ Len(Kept) = offset + Limit
    BY <1>1, <1>2, <1>3, <1>9
  <2>3. FetchTypeOK'
    <3>1. truncated' \in BOOLEAN
      BY <2>1 DEF PagesInv, FetchTypeOK
    <3>2. QED BY <1>0, <1>1, <1>3, <1>4, <1>5, <2>1, <3>1 DEF FetchTypeOK
  <2>4. CapHolds'
    BY <1>1, <1>2, <1>3, <1>9, <2>1 DEF CapHolds
  <2>5. OffsetCounts'
    BY <1>1, <1>2, <1>3, <1>4, <1>9, <2>1, <2>2 DEF OffsetCounts
  <2>6. Meets'
    <3>1. offset + Limit \in (offset + 1)..(offset + PageLen) /\ offset + Limit \in 1..Len(Kept)
      BY <1>1, <2>2
    <3>2. Kept[offset + Limit] = rows - (offset + Limit) + 1
      BY <1>2, <1>3, <3>1
    <3>3. QED BY <1>1, <1>3, <1>4, <2>1, <3>2 DEF Meets
  <2>7. Covered'
    <3> SUFFICES ASSUME NEW row \in 1..asked', row > rows - (offset + Limit)
                 PROVE  \E k \in 1..Len(Kept) : Kept[k] = row
      BY <1>3, <1>4, <2>1 DEF Covered
    <3>1. /\ row \in Nat \ {0} /\ row <= rows /\ (offset = 0 \/ row <= asked)
          /\ row > rows - offset - PageLen /\ Len(Gathered) <= RecordCap
      BY <1>1, <1>2, <1>4, <1>9, <2>2
    <3>2. QED BY <1>0, <3>1, KeptCovers
  <2>8. ShortMeansAll'
    BY <1>1, <2>1 DEF ShortMeansAll
  <2>9. QED BY <1>5, <1>6, <2>3, <2>4, <2>5, <2>6, <2>7, <2>8 DEF PagesInv
<1>10. QED BY <1>1, <1>2, <1>7, <1>8, <1>9

\* A fetch that stops on a bad page claims nothing about its end.
LEMMA StopStep ==
    ASSUME PagesInv, PageFails \/ PageUnusable
    PROVE  PagesInv'
<1>1. /\ UNCHANGED <<rows, offset, records, truncated, asked>>
      /\ result' \in {"ok", "error"} /\ ending' \in {"none", "cut"}
  BY DEF PageFails, PageUnusable, PagesInv, OffsetCounts
<1>2. QED
  BY <1>1 DEF PagesInv, FetchTypeOK, OffsetCounts, Meets, Covered, AskedBounded, CapHolds, NoGap, ShortMeansAll

\* A new row moves every page down by one: nothing older is missed.
LEMMA PublishStep ==
    ASSUME PagesInv, Publish
    PROVE  PagesInv'
<1>1. /\ rows' = rows + 1 /\ UNCHANGED <<offset, records, result, truncated, asked, ending>>
      /\ rows \in Nat /\ offset \in Nat /\ asked \in Nat /\ result = "fetching"
      /\ records \in Seq(Nat) /\ Len(records) = offset
  BY DEF Publish, PagesInv, FetchTypeOK, OffsetCounts
<1>2. FetchTypeOK' /\ CapHolds' /\ NoGap' /\ AskedBounded' /\ OffsetCounts'
  BY <1>1 DEF PagesInv, FetchTypeOK, CapHolds, NoGap, AskedBounded, OffsetCounts
<1>3. Meets'
  <2>1. offset > 0 => records[offset] \in Nat
    BY <1>1, ElementOfSeq
  <2>2. QED BY <1>1, <2>1 DEF PagesInv, Meets
<1>4. Covered'
  <2> SUFFICES ASSUME NEW row \in 1..asked, row > rows + 1 - offset
               PROVE  \E k \in 1..Len(records) : records[k] = row
    BY <1>1 DEF Covered
  <2>1. row > rows - offset
    BY <1>1
  <2>2. QED BY <1>1, <2>1 DEF PagesInv, Covered
<1>5. ShortMeansAll'
  BY <1>1 DEF PagesInv, ShortMeansAll
<1>6. QED BY <1>2, <1>3, <1>4, <1>5 DEF PagesInv

THEOREM PagesAlways == FetchSpec => []PagesInv
<1>1. PagesInv /\ [FetchNext]_fetchVars => PagesInv'
  <2> SUFFICES ASSUME PagesInv, [FetchNext]_fetchVars PROVE PagesInv'
    OBVIOUS
  <2>1. CASE ReadPage
    BY <2>1, ReadPageStep
  <2>2. CASE PageFails \/ PageUnusable
    BY <2>2, StopStep
  <2>3. CASE Publish
    BY <2>3, PublishStep
  <2>4. CASE UNCHANGED fetchVars
    BY <2>4 DEF fetchVars, PagesInv, FetchTypeOK, OffsetCounts, Meets, Covered, AskedBounded, CapHolds,
                NoGap, ShortMeansAll
  <2>5. QED BY <2>1, <2>2, <2>3, <2>4 DEF FetchNext, Ended
<1>2. QED BY <1>1, InitPages, PTL DEF FetchSpec

\* No fetch exceeds the cap, and a truncated one holds exactly the cap.
THEOREM CapAlwaysHolds == FetchSpec => []CapHolds
<1>1. PagesInv => CapHolds
  BY DEF PagesInv
<1>2. QED BY <1>1, PagesAlways, PTL

\* Paging a growing dataset steps over no row.
THEOREM PagesMeet == FetchSpec => []NoGap
<1>1. PagesInv => NoGap
  BY DEF PagesInv
<1>2. QED BY <1>1, PagesAlways, PTL

\* A fetch that ends on a short page below the cap is complete.
THEOREM ShortFetchIsComplete == FetchSpec => []ShortMeansAll
<1>1. PagesInv => ShortMeansAll
  BY DEF PagesInv
<1>2. QED BY <1>1, PagesAlways, PTL

-----------------------------------------------------------------------------
(* The matching of a source's columns, by folds over its rows, its columns, the *)
(* registry, the candidates and the operator's decisions.                      *)

\* What each loop of the matching does with an element.
Parts(d, values, record) == AddPart(d.label, d.part, values, record)
Goods(floor, found, c) == AddGood(floor, found, c)
Pairs(d, found, field) == AddPair(d.doc, d.floor, d.label, found, field)
Columns(d, found, label) == AddLabel(d.doc, d.floor, found, label)
Ranks(any, sorted, c) == InsertBy(MoreConfident, sorted, c)
Takes(any, taken, c) == Take(taken, c)
Orders(any, sorted, e) == InsertBy(InSchemaOrder, sorted, e)
Drops(hit, kept, e) == IF e \in hit THEN kept ELSE Append(kept, e)
Pins(d, mapping, name) == PinNext(d.doc, d.overrides, mapping, name)
Answers(d, overrides, i) ==
    Answer(overrides, d.candidates[i], d.candidates[i] \in d.accepted, i \in d.yes)

Sampling == INSTANCE FoldProofs WITH Op <- Parts
Filtering == INSTANCE FoldProofs WITH Op <- Goods
Pairing == INSTANCE FoldProofs WITH Op <- Pairs
Scoring == INSTANCE FoldProofs WITH Op <- Columns
Ranking == INSTANCE FoldProofs WITH Op <- Ranks
Taking == INSTANCE FoldProofs WITH Op <- Takes
Ordering == INSTANCE FoldProofs WITH Op <- Orders
Erasing == INSTANCE FoldProofs WITH Op <- Drops
Pinning == INSTANCE FoldProofs WITH Op <- Pins
Answering == INSTANCE FoldProofs WITH Op <- Answers

-----------------------------------------------------------------------------
(* Candidates.                                                               *)

Labels == UNION {ToSet(doc.labels) : doc \in Documents}

Candidates ==
    [field : Names, label : Labels, part : Nat, similarity : Nat, pass : Nat,
     reformatted : BOOLEAN, confidence : Nat]

LEMMA PassType ==
    ASSUME NEW V, NEW sample \in Seq(V), NEW field
    PROVE  PassOf(field, sample).rate \in Nat /\ PassOf(field, sample).reformatted \in BOOLEAN
<1> DEFINE good == {i \in DOMAIN sample : Coerce(field, sample[i]).ok}
           extracted == {i \in good : Coerce(field, sample[i]).reformatted}
           g == Cardinality(good)
           e == Cardinality(extracted)
           n == Len(sample)
<1>1. PassOf(field, sample) =
         IF sample = <<>> THEN [rate |-> 0, reformatted |-> FALSE]
         ELSE [rate |-> (Unit * g) \div n, reformatted |-> 2 * e > g]
  BY Zenon DEF PassOf
<1>2. good \in SUBSET DOMAIN sample /\ extracted \in SUBSET DOMAIN sample
  OBVIOUS
<1> HIDE DEF good, extracted
<1>3. g \in Nat /\ e \in Nat
  <2>1. g \in 0..Len(sample) /\ e \in 0..Len(sample)
    BY <1>2, Sampling!PartSize, Zenon DEF Cardinality, Sampling!Cardinality, IsFiniteSet, Sampling!IsFiniteSet
  <2> HIDE DEF g, e
  <2> QED
    BY <2>1
<1>4. n \in Nat /\ (sample # <<>> => n \in Nat \ {0})
  OBVIOUS
<1> HIDE DEF g, e, n
<1>5. Unit * g \in Nat
  BY <1>3, SampleAssumption
<1>6. sample # <<>> => (Unit * g) \div n \in Nat
  BY <1>4, <1>5
<1>7. (2 * e > g) \in BOOLEAN
  OBVIOUS
<1> DEFINE rate == (Unit * g) \div n
           most == 2 * e > g
<1>8. PassOf(field, sample) = IF sample = <<>> THEN [rate |-> 0, reformatted |-> FALSE]
                              ELSE [rate |-> rate, reformatted |-> most]
  BY <1>1
<1>9. (sample # <<>> => rate \in Nat) /\ most \in BOOLEAN /\ 0 \in Nat
  BY <1>6, <1>7
<1> HIDE DEF rate, most
<1>10. CASE sample = <<>>
  BY <1>8, <1>9, <1>10
<1>11. CASE sample # <<>>
  BY <1>8, <1>9, <1>11
<1> QED
  BY <1>10, <1>11

LEMMA ColumnType ==
    ASSUME NEW doc \in Documents, NEW label, NEW part
    PROVE  \E V : ColumnOf(doc, label, part) \in Seq(V)
<1> DEFINE R == ToSet(doc.records)
           V == UNION {Sampling!Members(PartOf(record[label], part)) : record \in R}
           T == Seq(V)
           d == [label |-> label, part |-> part]
<1>1. ColumnOf(doc, label, part) = Sampling!Folded(d, <<>>, doc.records)
  BY Zenon DEF ColumnOf, Parts, FoldLeft, MapThenFoldSet, Max,
     Sampling!Folded, Sampling!FoldLeft, Sampling!MapThenFoldSet, Sampling!Max
<1>2. doc.records \in Seq(R)
  BY DocumentsAssumption DEF IsSequence
<1>3. ASSUME NEW values \in T, NEW record \in R
      PROVE  Parts(d, values, record) \in T
  <2> DEFINE piece == PartOf(record[label], part)
  <2>1. piece = <<>> \/ \E v : piece = <<v>>
    <3>1. CASE part = Whole
      BY <3>1 DEF PartOf
    <3>2. CASE part # Whole /\ part \in DOMAIN record[label].parts
      BY <3>2 DEF PartOf
    <3>3. CASE part # Whole /\ part \notin DOMAIN record[label].parts
      BY <3>3 DEF PartOf
    <3> QED
      BY <3>1, <3>2, <3>3
  <2>2. piece \in Seq(Sampling!Members(piece))
    <3>1. CASE piece = <<>>
      BY <3>1
    <3>2. ASSUME NEW v, piece = <<v>>
          PROVE  piece \in Seq(Sampling!Members(piece))
      <4>1. DOMAIN <<v>> = {1} /\ <<v>>[1] = v
        OBVIOUS
      <4>2. v \in Sampling!Members(<<v>>)
        BY <4>1, Zenon DEF Sampling!Members
      <4> DEFINE M == Sampling!Members(<<v>>)
      <4> HIDE DEF M
      <4>3. <<v>> \in Seq(M)
        BY <4>2 DEF M
      <4> QED
        BY <3>2, <4>3 DEF M
    <3> QED
      BY <2>1, <3>1, <3>2
  <2>3. Sampling!Members(piece) \subseteq V
    OBVIOUS
  <2>4. Parts(d, values, record) = IF label \in DOMAIN record THEN values \o piece ELSE values
    BY DEF Parts, AddPart
  <2> HIDE DEF piece, V
  <2>5. piece \in Seq(V)
    BY <2>2, <2>3
  <2> DEFINE both == values \o piece
  <2>6. both \in T
    BY <2>5, ConcatProperties
  <2> HIDE DEF both
  <2> QED
    BY <2>4, <2>6 DEF both
<1>4. Sampling!Keeps(d, T, R)
  <2> HIDE DEF T, R, d
  <2> QED
    BY <1>3, Zenon DEF Sampling!Keeps
<1>5. <<>> \in T
  OBVIOUS
<1>6. Sampling!Folded(d, <<>>, doc.records) \in T
  <2> HIDE DEF T, R, d
  <2> QED
    BY <1>2, <1>4, <1>5, Sampling!FoldType
<1> QED
  BY <1>1, <1>6

LEMMA MeasuredType ==
    ASSUME NEW doc \in Documents, NEW field, NEW label, NEW part
    PROVE  /\ MeasuredPass(doc, field, label, part).rate \in Nat
           /\ MeasuredPass(doc, field, label, part).reformatted \in BOOLEAN
<1>1. PICK V : ColumnOf(doc, label, part) \in Seq(V)
  BY ColumnType
<1> DEFINE column == ColumnOf(doc, label, part)
<1>2. Sampled(column) \in Seq(V)
  <2> HIDE DEF column
  <2>1. Len(column) > SampleLimit => SubSeq(column, 1, SampleLimit) \in Seq(V)
    BY <1>1, SampleAssumption, Sampling!ShortType DEF column
  <2> QED
    BY <1>1, <2>1 DEF Sampled, column
<1> QED
  BY <1>2, PassType DEF MeasuredPass

LEMMA FieldsOf ==
    /\ \A field \in ToSet(Fields) : field.name \in Names
    /\ \A name \in Names : FieldOf(name) \in ToSet(Fields) /\ FieldOf(name).name = name
BY DEF Names, FieldOf, ToSet

LEMMA EvidenceType ==
    ASSUME NEW doc \in Documents, NEW label \in ToSet(doc.labels), NEW field \in ToSet(Fields)
    PROVE  /\ label \in Labels /\ field.name \in Names
           /\ Similarity[label][field.name] \in Nat /\ NameEvidence(field, label) \in Nat
           /\ \A k \in 1..Len(Words[label]) : Similarity[Words[label][k]][field.name] \in Nat
<1>1. /\ label \in DOMAIN Similarity /\ label \in DOMAIN Decisive
      /\ Words[label] \in Seq(DOMAIN Similarity)
  BY DocumentsAssumption
<1>2. field.name \in Names
  BY FieldsOf
<1>3. Similarity[label][field.name] \in Nat /\ Decisive[label].score \in Nat
  BY <1>1, <1>2, ScoresAssumption
<1>4. NameEvidence(field, label) \in Nat
  BY <1>3 DEF NameEvidence
<1>5. \A k \in 1..Len(Words[label]) : Words[label][k] \in DOMAIN Similarity
  BY <1>1
<1> QED
  BY <1>2, <1>3, <1>4, <1>5, ScoresAssumption DEF Labels

LEMMA CandidateType ==
    ASSUME NEW doc \in Documents, NEW label \in ToSet(doc.labels), NEW field \in ToSet(Fields),
           NEW part \in 0..Len(Words[label])
    PROVE  Candidate(doc, field, label, part) \in Candidates
<1> DEFINE pass == MeasuredPass(doc, field, label, part)
           evidence == IF part = Whole THEN NameEvidence(field, label)
                       ELSE Similarity[Words[label][part]][field.name]
<1>1. pass.rate \in Nat /\ pass.reformatted \in BOOLEAN
  BY MeasuredType
<1>2. /\ label \in Labels /\ field.name \in Names
      /\ Similarity[label][field.name] \in Nat /\ NameEvidence(field, label) \in Nat
      /\ \A k \in 1..Len(Words[label]) : Similarity[Words[label][k]][field.name] \in Nat
  BY EvidenceType
<1>3. Words[label] \in Seq(DOMAIN Similarity)
  BY DocumentsAssumption
<1>4. part \in Nat /\ (part # Whole => part \in 1..Len(Words[label]))
  BY <1>3 DEF Whole
<1>5. evidence \in Nat
  BY <1>2, <1>4
<1>6. Candidate(doc, field, label, part) =
        [field |-> field.name, label |-> label, part |-> part,
         similarity |-> Similarity[label][field.name],
         pass |-> pass.rate, reformatted |-> part # Whole \/ pass.reformatted,
         confidence |-> 55 * evidence + 45 * pass.rate]
  BY Zenon DEF Candidate, Weighed
<1> HIDE DEF pass, evidence
<1>7. 55 * evidence + 45 * pass.rate \in Nat
  BY <1>1, <1>5
<1>8. (part # Whole \/ pass.reformatted) \in BOOLEAN
  BY <1>1
<1> DEFINE confidence == 55 * evidence + 45 * pass.rate
           similarity == Similarity[label][field.name]
<1>9. confidence \in Nat /\ similarity \in Nat
  BY <1>2, <1>7
<1>10. Candidate(doc, field, label, part) =
         [field |-> field.name, label |-> label, part |-> part,
          similarity |-> similarity,
          pass |-> pass.rate, reformatted |-> part # Whole \/ pass.reformatted,
          confidence |-> confidence]
  BY <1>6, Zenon
<1> HIDE DEF confidence, similarity
<1> QED
  BY <1>1, <1>2, <1>4, <1>8, <1>9, <1>10 DEF Candidates

LEMMA PairType ==
    ASSUME NEW doc \in Documents, NEW label \in ToSet(doc.labels), NEW field \in ToSet(Fields)
    PROVE  OfPair(doc, label, field) \in Seq(Candidates)
<1> DEFINE c == Cardinality(PartsOf(doc, label))
           n == Len(Words[label])
<1>1. Words[label] \in Seq(DOMAIN Similarity)
  BY DocumentsAssumption
<1>2. PartsOf(doc, label) \in SUBSET DOMAIN Words[label]
  BY <1>1 DEF PartsOf
<1>3. c \in 0..n /\ n \in Nat
  <2>1. c \in 0..n
    BY <1>1, <1>2, Sampling!PartSize, Zenon DEF Cardinality, Sampling!Cardinality, IsFiniteSet, Sampling!IsFiniteSet
  <2> HIDE DEF c
  <2> QED
    BY <1>1, <2>1
<1>4. OfPair(doc, label, field) = [k \in 1..(1 + c) |-> Candidate(doc, field, label, k - 1)]
  BY Zenon DEF OfPair
<1> HIDE DEF c
<1>5. ASSUME NEW k \in 1..(1 + c)
      PROVE  Candidate(doc, field, label, k - 1) \in Candidates
  <2>1. k - 1 \in 0..n
    BY <1>3
  <2> QED
    BY <2>1, CandidateType
<1> HIDE DEF n
<1>6. 1 + c \in Nat
  BY <1>3
<1> QED
  BY <1>4, <1>5, <1>6

Found(doc, floor) ==
    FoldLeft(LAMBDA made, label : AddLabel(doc, floor, made, label), <<>>, doc.labels)

LEMMA FoundType ==
    ASSUME NEW doc \in Documents, NEW floor
    PROVE  Found(doc, floor) \in Seq(Candidates)
<1> DEFINE T == Seq(Candidates)
           L == ToSet(doc.labels)
           F == ToSet(Fields)
<1>0. doc.labels \in Seq(L) /\ Fields \in Seq(F) /\ <<>> \in T
  BY DocumentsAssumption, FieldsAssumption DEF IsSequence
<1>1. Filtering!Keeps(floor, T, Candidates)
  BY DEF Filtering!Keeps, Goods, AddGood
<1>2. ASSUME NEW label \in L, NEW field \in F, NEW found \in T
      PROVE  AddPair(doc, floor, label, found, field) \in T
  <2>1. OfPair(doc, label, field) \in Seq(Candidates)
    BY PairType
  <2>2. Filtering!Folded(floor, found, OfPair(doc, label, field)) \in T
    <3> HIDE DEF T
    <3> QED
      BY <1>1, <2>1, Filtering!FoldType
  <2>3. AddPair(doc, floor, label, found, field)
          = Filtering!Folded(floor, found, OfPair(doc, label, field))
    BY Zenon DEF AddPair, Goods, FoldLeft, MapThenFoldSet, Max,
       Filtering!Folded, Filtering!FoldLeft, Filtering!MapThenFoldSet, Filtering!Max
  <2> QED
    BY <2>2, <2>3
<1>3. ASSUME NEW label \in L, NEW found \in T
      PROVE  AddLabel(doc, floor, found, label) \in T
  <2> DEFINE d == [doc |-> doc, floor |-> floor, label |-> label]
  <2>1. d.doc = doc /\ d.floor = floor /\ d.label = label
    OBVIOUS
  <2>2. AddLabel(doc, floor, found, label) = Pairing!Folded(d, found, Fields)
    BY Zenon DEF AddLabel, Pairs, FoldLeft, MapThenFoldSet, Max,
       Pairing!Folded, Pairing!FoldLeft, Pairing!MapThenFoldSet, Pairing!Max
  <2> HIDE DEF d
  <2>4. Pairing!Keeps(d, T, F)
    <3> HIDE DEF T, F
    <3> QED
      BY <1>2, <2>1, Zenon DEF Pairing!Keeps, Pairs
  <2>5. Pairing!Folded(d, found, Fields) \in T
    <3> HIDE DEF T, F
    <3> QED
      BY <1>0, <2>4, Pairing!FoldType
  <2> QED
    BY <2>2, <2>5
<1> DEFINE d == [doc |-> doc, floor |-> floor]
           all == Found(doc, floor)
<1>4. d.doc = doc /\ d.floor = floor
  OBVIOUS
<1>6. all = Scoring!Folded(d, <<>>, doc.labels)
  BY Zenon DEF Found, Columns, FoldLeft, MapThenFoldSet, Max,
     Scoring!Folded, Scoring!FoldLeft, Scoring!MapThenFoldSet, Scoring!Max
<1> HIDE DEF d, all
<1>7. Scoring!Keeps(d, T, L)
  <2> HIDE DEF T, L
  <2> QED
    BY <1>3, <1>4, Zenon DEF Scoring!Keeps, Columns
<1>8. all \in T
  <2> HIDE DEF T, L
  <2> QED
    BY <1>0, <1>6, <1>7, Scoring!FoldType
<1> QED
  BY <1>8 DEF all

\* What a sort by insertion does with one element, whatever its order.
LEMMA InsertByDoes ==
    ASSUME NEW S, NEW s \in Seq(S), NEW x \in S, NEW D \in SUBSET DOMAIN s
    PROVE  /\ Cardinality(D) \in 0..Len(s)
           /\ Sampling!Inserted(S, s, x, Cardinality(D), InsertAt(s, 1 + Cardinality(D), x))
<1> DEFINE m == Cardinality(D)
<1>1. m \in 0..Len(s)
  BY Sampling!PartSize, Zenon DEF Cardinality, Sampling!Cardinality,
     IsFiniteSet, Sampling!IsFiniteSet
<1> HIDE DEF m
<1>2. Sampling!Inserted(S, s, x, m, Sampling!Insertion(s, x, m))
  BY <1>1, Sampling!InsertsAt
<1>3. m \in Nat /\ 1 + m - 1 = m /\ 1 + m = m + 1
  BY <1>1
<1> DEFINE i == 1 + m
<1>4. InsertAt(s, i, x) = SubSeq(s, 1, i - 1) \o <<x>> \o SubSeq(s, i, Len(s))
  BY Zenon DEF InsertAt
<1>5. i - 1 = m /\ i = m + 1
  BY <1>3
<1> HIDE DEF i
<1>6. InsertAt(s, i, x) = Sampling!Insertion(s, x, m)
  BY <1>4, <1>5, Zenon DEF Sampling!Insertion
<1> QED
  BY <1>1, <1>2, <1>6, Zenon DEF i, m

Descending(s) == \A i, j \in DOMAIN s : i < j => s[i].confidence >= s[j].confidence

\* The candidates come best first.
LEMMA ScoredType ==
    ASSUME NEW doc \in Documents, NEW floor
    PROVE  Scored(doc, floor) \in Seq(Candidates) /\ Descending(Scored(doc, floor))
<1> DEFINE T == {s \in Seq(Candidates) : Descending(s)}
           found == Found(doc, floor)
<1>1. found \in Seq(Candidates)
  BY FoundType
<1> HIDE DEF found
<1>2. ASSUME NEW s \in T, NEW x \in Candidates
      PROVE  Ranks({}, s, x) \in T
  <2> DEFINE D == {i \in DOMAIN s : ~MoreConfident(x, s[i])}
             m == Cardinality(D)
             made == InsertAt(s, 1 + m, x)
  <2>1. s \in Seq(Candidates) /\ Descending(s) /\ D \in SUBSET DOMAIN s
    OBVIOUS
  <2>2. Ranks({}, s, x) = made
    BY Zenon DEF Ranks, InsertBy
  <2>3. m \in 0..Len(s) /\ Sampling!Inserted(Candidates, s, x, m, made)
    <3> HIDE DEF D, T
    <3> QED
      BY <2>1, InsertByDoes, Zenon
  <2>4. x.confidence \in Nat /\ \A i \in DOMAIN s : s[i].confidence \in Nat
    <3>1. \A i \in DOMAIN s : s[i] \in Candidates
      BY <2>1
    <3>2. \A c \in Candidates : c.confidence \in Nat
      BY DEF Candidates
    <3> QED
      BY <3>1, <3>2
  <2>5. \A i \in D : \A j \in 1..Len(s) : j < i => j \in D
    BY <2>1, <2>4 DEF Descending, MoreConfident
  <2>6. D = 1..m
    <3> DEFINE n == Len(s)
    <3>1. n \in Nat /\ D \in SUBSET (1..n) /\ \A i \in D : \A j \in 1..n : j < i => j \in D
      BY <2>1, <2>5
    <3> HIDE DEF n, D
    <3> QED
      BY <3>1, Sampling!Prefix, Zenon DEF Cardinality, Sampling!Cardinality
  <2>7. \A i \in DOMAIN s : i \in 1..m <=> s[i].confidence >= x.confidence
    BY <2>4, <2>6 DEF MoreConfident
  <2> HIDE DEF D, m, made
  <2>8. /\ made \in Seq(Candidates) /\ Len(made) = Len(s) + 1
        /\ \A i \in 1..m : made[i] = s[i]
        /\ made[m + 1] = x
        /\ \A i \in (m + 2)..(Len(s) + 1) : made[i] = s[i - 1]
    BY <2>3, Zenon DEF Sampling!Inserted
  <2>9. Descending(made)
    <3> SUFFICES ASSUME NEW i \in DOMAIN made, NEW j \in DOMAIN made, i < j
                 PROVE  made[i].confidence >= made[j].confidence
      BY DEF Descending
    <3>1. DOMAIN made = 1..(Len(s) + 1) /\ DOMAIN s = 1..Len(s) /\ Len(s) \in Nat
      BY <2>1, <2>8
    <3>2. CASE j <= m
      <4>1. i \in 1..m /\ j \in 1..m /\ i \in DOMAIN s /\ j \in DOMAIN s
        BY <2>3, <3>1, <3>2
      <4> QED
        BY <2>1, <2>8, <4>1 DEF Descending
    <3>3. CASE j = m + 1
      <4>1. i \in 1..m /\ i \in DOMAIN s
        BY <2>3, <3>1, <3>3
      <4> QED
        BY <2>7, <2>8, <3>3, <4>1
    <3>4. CASE j > m + 1 /\ i <= m
      <4>1. i \in 1..m /\ i \in DOMAIN s /\ j - 1 \in DOMAIN s /\ i < j - 1
            /\ j \in (m + 2)..(Len(s) + 1)
        BY <2>3, <3>1, <3>4
      <4> QED
        BY <2>1, <2>8, <4>1 DEF Descending
    <3>5. CASE j > m + 1 /\ i = m + 1
      <4>1. j - 1 \in DOMAIN s /\ j - 1 \notin 1..m /\ j \in (m + 2)..(Len(s) + 1)
        BY <2>3, <3>1, <3>5
      <4>2. ~(s[j - 1].confidence >= x.confidence)
        BY <2>7, <4>1
      <4> QED
        BY <2>4, <2>8, <3>5, <4>1, <4>2
    <3>6. CASE i > m + 1
      <4>1. i - 1 \in DOMAIN s /\ j - 1 \in DOMAIN s /\ i - 1 < j - 1
            /\ i \in (m + 2)..(Len(s) + 1) /\ j \in (m + 2)..(Len(s) + 1)
        BY <2>3, <3>1, <3>6
      <4> QED
        BY <2>1, <2>8, <4>1 DEF Descending
    <3> QED
      BY <2>3, <3>1, <3>2, <3>3, <3>4, <3>5, <3>6
  <2> QED
    BY <2>2, <2>8, <2>9
<1>3. Ranking!Keeps({}, T, Candidates)
  <2> HIDE DEF T
  <2> QED
    BY <1>2, Zenon DEF Ranking!Keeps
<1>4. <<>> \in T
  BY DEF Descending
<1>5. Scored(doc, floor) = Ranking!Folded({}, <<>>, found)
  BY Zenon DEF Scored, SortBy, Found, found, Ranks, FoldLeft, MapThenFoldSet, Max,
     Ranking!Folded, Ranking!FoldLeft, Ranking!MapThenFoldSet, Ranking!Max
<1>6. Ranking!Folded({}, <<>>, found) \in T
  <2> HIDE DEF T
  <2> QED
    BY <1>1, <1>3, <1>4, Ranking!FoldType
<1> QED
  BY <1>5, <1>6

-----------------------------------------------------------------------------
(* The greedy matching.                                                      *)

Apart(s) == \A i, j \in DOMAIN s : i # j => ~Clash(s[i], s[j])

LEMMA ClashSymmetric == \A c, d : Clash(c, d) <=> Clash(d, c)
BY DEF Clash

\* The first k candidates, with what was taken of them.
Stands(s, k, taken) ==
    /\ Apart(taken)
    /\ \A i \in 1..k : Passes(s[i]) =>
          \E j \in DOMAIN taken : /\ taken[j] = s[i] \/ Clash(s[i], taken[j])
                                  /\ taken[j].confidence >= s[i].confidence
    /\ \A j \in DOMAIN taken : \E i \in 1..k : taken[j] = s[i]

LEMMA AcceptedStands ==
    ASSUME NEW s \in Seq(Candidates), Descending(s)
    PROVE  Accepted(s) \in Seq(Candidates) /\ Stands(s, Len(s), Accepted(s))
<1> DEFINE T == Seq(Candidates)
           G == {p \in (0..Len(s)) \X T : Stands(s, p[1], p[2])}
<1>1. Taking!Keeps({}, T, Candidates)
  BY DEF Taking!Keeps, Takes, Take
<1>2. <<>> \in T /\ <<0, <<>>>> \in G
  <2>1. 0 \in 0..Len(s) /\ <<>> \in T /\ DOMAIN <<>> = {} /\ 1..0 = {}
    OBVIOUS
  <2>2. Stands(s, 0, <<>>)
    BY <2>1, Zenon DEF Stands, Apart
  <2> HIDE DEF T
  <2> QED
    BY <2>1, <2>2
<1>3. ASSUME NEW k \in 1..Len(s), NEW taken \in T, <<k - 1, taken>> \in G
      PROVE  <<k, Takes({}, taken, s[k])>> \in G
  <2> DEFINE c == s[k]
             after == Takes({}, taken, c)
  <2>1. Stands(s, k - 1, taken)
    BY <1>3
  <2>2. c \in Candidates /\ k \in DOMAIN s /\ k \in 0..Len(s)
    OBVIOUS
  <2>3. after = IF Passes(c) /\ \A i \in DOMAIN taken : ~Clash(c, taken[i])
               THEN Append(taken, c) ELSE taken
    BY Zenon DEF Takes, Take
  <2>4. /\ \A i \in 1..Len(s) : s[i].confidence \in Nat
        /\ \A i \in 1..k : s[i].confidence >= c.confidence
    <3>1. \A i \in 1..Len(s) : s[i] \in Candidates
      OBVIOUS
    <3>2. \A e \in Candidates : e.confidence \in Nat
      BY DEF Candidates
    <3>3. \A i \in 1..Len(s) : s[i].confidence \in Nat
      BY <3>1, <3>2
    <3> QED
      BY <3>3 DEF Descending
  <2> HIDE DEF after, c
  <2>5. CASE Passes(c) /\ \A i \in DOMAIN taken : ~Clash(c, taken[i])
    <3>1. /\ after \in T /\ after[Len(taken) + 1] = c
          /\ DOMAIN after = DOMAIN taken \union {Len(taken) + 1}
          /\ \A j \in DOMAIN taken : after[j] = taken[j] /\ j # Len(taken) + 1
      BY <2>2, <2>3, <2>5
    <3>2. Apart(after)
      BY <2>1, <2>5, <3>1, ClashSymmetric DEF Stands, Apart
    <3>3. ASSUME NEW i \in 1..k, Passes(s[i])
          PROVE  \E j \in DOMAIN after : /\ after[j] = s[i] \/ Clash(s[i], after[j])
                                        /\ after[j].confidence >= s[i].confidence
      <4>1. CASE i = k
        <5>1. after[Len(taken) + 1] = s[i] /\ c.confidence >= s[i].confidence
          BY <2>4, <3>1, <4>1 DEF c
        <5> QED
          BY <3>1, <5>1
      <4>2. CASE i # k
        <5>1. i \in 1..(k - 1)
          BY <4>2
        <5>2. PICK j \in DOMAIN taken : /\ taken[j] = s[i] \/ Clash(s[i], taken[j])
                                        /\ taken[j].confidence >= s[i].confidence
          BY <2>1, <3>3, <5>1 DEF Stands
        <5> QED
          BY <3>1, <5>2
      <4> QED
        BY <4>1, <4>2
    <3>4. ASSUME NEW j \in DOMAIN after
          PROVE  \E i \in 1..k : after[j] = s[i]
      <4>1. CASE j = Len(taken) + 1
        BY <3>1, <4>1 DEF c
      <4>2. CASE j # Len(taken) + 1
        <5>1. j \in DOMAIN taken /\ after[j] = taken[j]
          BY <3>1, <4>2
        <5>2. PICK i \in 1..(k - 1) : taken[j] = s[i]
          BY <2>1, <5>1 DEF Stands
        <5> QED
          BY <5>1, <5>2
      <4> QED
        BY <4>1, <4>2
    <3>5. Stands(s, k, after)
      BY <3>2, <3>3, <3>4 DEF Stands
    <3> QED
      BY <2>2, <3>1, <3>5 DEF after, c
  <2>6. CASE ~(Passes(c) /\ \A i \in DOMAIN taken : ~Clash(c, taken[i]))
    <3>1. after = taken
      BY <2>3, <2>6
    <3>2. ASSUME NEW i \in 1..k, Passes(s[i])
          PROVE  \E j \in DOMAIN taken : /\ taken[j] = s[i] \/ Clash(s[i], taken[j])
                                         /\ taken[j].confidence >= s[i].confidence
      <4>1. CASE i = k
        <5>1. PICK j \in DOMAIN taken : Clash(s[i], taken[j])
          BY <2>6, <3>2, <4>1 DEF c
        <5>2. PICK h \in 1..(k - 1) : taken[j] = s[h]
          BY <2>1, <5>1 DEF Stands
        <5>3. taken[j].confidence >= s[i].confidence
          BY <2>4, <4>1, <5>2 DEF c
        <5> QED
          BY <5>1, <5>3
      <4>2. CASE i # k
        <5>1. i \in 1..(k - 1)
          BY <4>2
        <5> QED
          BY <2>1, <3>2, <5>1 DEF Stands
      <4> QED
        BY <4>1, <4>2
    <3>3. ASSUME NEW j \in DOMAIN taken
          PROVE  \E i \in 1..k : taken[j] = s[i]
      BY <2>1 DEF Stands
    <3>4. Stands(s, k, taken)
      BY <2>1, <3>2, <3>3 DEF Stands
    <3> QED
      BY <2>2, <3>1, <3>4 DEF after, c
  <2> QED
    BY <2>5, <2>6
<1>4. <<Len(s), Taking!Folded({}, <<>>, s)>> \in G
  <2> HIDE DEF G, T
  <2> QED
    BY <1>1, <1>2, <1>3, Taking!FoldReaches
<1>5. Accepted(s) = Taking!Folded({}, <<>>, s)
  BY Zenon DEF Accepted, Takes, FoldLeft, MapThenFoldSet, Max,
     Taking!Folded, Taking!FoldLeft, Taking!MapThenFoldSet, Taking!Max
<1> QED
  BY <1>4, <1>5

LEMMA OfferedStands ==
    \A doc \in Documents : StandsOut(ToSet(Offered[doc]), Matched[doc])
<1> TAKE doc \in Documents
<1> DEFINE s == Scored(doc, 50 * Unit)
<1>1. s \in Seq(Candidates) /\ Descending(s)
  BY ScoredType
<1>2. Offered[doc] = s /\ Matched[doc] = ToSet(Accepted(s))
  BY DEF Offered, Matched
<1> HIDE DEF s
<1>3. Stands(s, Len(s), Accepted(s)) /\ DOMAIN s = 1..Len(s)
  BY <1>1, AcceptedStands
<1> SUFFICES ASSUME NEW i \in DOMAIN s, Passes(s[i]), s[i] \notin ToSet(Accepted(s))
             PROVE  \E t \in ToSet(Accepted(s)) : Clash(s[i], t) /\ t.confidence >= s[i].confidence
  BY <1>2 DEF StandsOut, ToSet
<1>4. PICK j \in DOMAIN Accepted(s) :
         /\ Accepted(s)[j] = s[i] \/ Clash(s[i], Accepted(s)[j])
         /\ Accepted(s)[j].confidence >= s[i].confidence
  BY <1>3 DEF Stands
<1> QED
  BY <1>4 DEF ToSet

\* A matching has one solution that nothing outside it could improve, and it is what
\* a review is offered.
THEOREM BestPairByPair == MatchSpec => []MatchIsStable
<1> DEFINE Fetched == cached = <<>> \/ \E doc \in Documents : cached = <<doc>>
<1>1. MatchInit => Fetched
  BY DEF MatchInit
<1>2. Fetched /\ [MatchNext]_matchVars => Fetched'
  BY DEF MatchNext, matchVars, Run, RunOn, Review, Approve, Watch, StopWatching
<1>3. Fetched => MatchIsStable
  BY OfferedStands DEF MatchIsStable
<1> QED
  BY <1>1, <1>2, <1>3, PTL DEF MatchSpec

-----------------------------------------------------------------------------
(* Mappings.                                                                 *)

Entries ==
    [field : Names, label : Labels, part : Nat, reformatted : BOOLEAN, confidence : Nat]

Mappings == {m \in Seq(Entries) : Apart(m)}

Unlike == {p \in Entries \X Entries : ~Clash(p[1], p[2])}

LEMMA ApartPairs ==
    ASSUME NEW s \in Seq(Entries)
    PROVE  Apart(s) <=> Ordering!Pairwise(Unlike, s)
<1>1. \A i \in DOMAIN s : s[i] \in Entries
  OBVIOUS
<1>2. \A e, f \in Entries : <<e, f>> \in Unlike <=> ~Clash(e, f)
  BY DEF Unlike
<1> QED
  BY <1>1, <1>2, Zenon DEF Apart, Ordering!Pairwise

\* A mapping in the order of the registry is the mapping it was.
LEMMA OrderedFacts ==
    ASSUME NEW s \in Mappings
    PROVE  /\ SortBy(InSchemaOrder, s) \in Mappings
           /\ ToSet(SortBy(InSchemaOrder, s)) = ToSet(s)
<1> DEFINE made == Ordering!Folded({}, <<>>, s)
<1>1. SortBy(InSchemaOrder, s) = made
  BY Zenon DEF SortBy, Orders, FoldLeft, MapThenFoldSet, Max,
     Ordering!Folded, Ordering!FoldLeft, Ordering!MapThenFoldSet, Ordering!Max
<1>2. Ordering!Inserts({}, Entries)
  <2> SUFFICES ASSUME NEW r \in Seq(Entries), NEW x \in Entries
               PROVE  \E m \in 0..Len(r) : Ordering!Inserted(Entries, r, x, m, Orders({}, r, x))
    BY Zenon DEF Ordering!Inserts
  <2> DEFINE D == {i \in DOMAIN r : ~InSchemaOrder(x, r[i])}
             m == Cardinality(D)
  <2>1. Orders({}, r, x) = InsertAt(r, 1 + m, x) /\ D \in SUBSET DOMAIN r
    BY Zenon DEF Orders, InsertBy
  <2>2. m \in 0..Len(r) /\ Sampling!Inserted(Entries, r, x, m, InsertAt(r, 1 + m, x))
    <3> HIDE DEF D
    <3> QED
      BY <2>1, InsertByDoes, Zenon
  <2> HIDE DEF m
  <2> QED
    BY <2>1, <2>2, Zenon DEF Sampling!Inserted, Ordering!Inserted
<1>3. s \in Seq(Entries) /\ Ordering!Pairwise(Unlike, s)
  BY ApartPairs DEF Mappings
<1>4. /\ made \in Seq(Entries) /\ Ordering!Members(made) = Ordering!Members(s)
      /\ Ordering!Pairwise(Unlike, made)
  <2> HIDE DEF made
  <2> QED
    BY <1>2, <1>3, Ordering!SortsMembers, Zenon DEF made
<1> HIDE DEF made
<1>5. made \in Mappings
  BY <1>4, ApartPairs DEF Mappings
<1>6. ToSet(made) = ToSet(s)
  BY <1>4, Zenon DEF ToSet, Ordering!Members
<1> QED
  BY <1>1, <1>5, <1>6

\* What a document suggests by itself.
LEMMA SuggestedType ==
    \A doc \in Documents : Suggested[doc] \in Mappings
<1> TAKE doc \in Documents
<1> DEFINE s == Scored(doc, Accept)
           taken == Accepted(s)
           entries == [i \in DOMAIN taken |-> Entry(taken[i])]
<1>1. s \in Seq(Candidates) /\ Descending(s)
  BY ScoredType
<1>2. taken \in Seq(Candidates) /\ Apart(taken)
  <2> HIDE DEF s
  <2> QED
    BY <1>1, AcceptedStands DEF Stands
<1>3. Suggested[doc] = IF \E i \in DOMAIN taken : FieldOf(taken[i].field).identity
                       THEN SortBy(InSchemaOrder, entries) ELSE <<>>
  BY Zenon DEF Suggested, InferMapping, MappingOf, NoMapping
<1> HIDE DEF taken
<1>4. \A c \in Candidates : Entry(c) \in Entries
  BY DEF Candidates, Entries, Entry
<1>5. entries \in Seq(Entries) /\ DOMAIN entries = DOMAIN taken
  BY <1>2, <1>4
<1>6. Apart(entries)
  <2>1. \A c, d : Clash(Entry(c), Entry(d)) <=> Clash(c, d)
    BY DEF Clash, Entry
  <2> QED
    BY <1>2, <2>1 DEF Apart
<1>7. entries \in Mappings /\ <<>> \in Mappings
  BY <1>5, <1>6 DEF Mappings, Apart
<1> HIDE DEF entries
<1> QED
  BY <1>3, <1>7, OrderedFacts

\* Erasing leaves the others, in a mapping again.
Leaves(s, hit, k, made) ==
    /\ Apart(made)
    /\ \A j \in DOMAIN made : \E i \in 1..k : made[j] = s[i] /\ s[i] \notin hit
    /\ \A i \in 1..k : s[i] \notin hit => \E j \in DOMAIN made : made[j] = s[i]

LEMMA ErasedFacts ==
    ASSUME NEW s \in Mappings, NEW hit
    PROVE  EraseIf(s, hit) \in Mappings /\ ToSet(EraseIf(s, hit)) = ToSet(s) \ hit
<1> DEFINE T == Seq(Entries)
           G == {p \in (0..Len(s)) \X T : Leaves(s, hit, p[1], p[2])}
<1>0. s \in T /\ Apart(s)
  BY DEF Mappings
<1>1. Erasing!Keeps(hit, T, Entries)
  BY DEF Erasing!Keeps, Drops
<1>2. <<>> \in T /\ <<0, <<>>>> \in G
  <2>1. 0 \in 0..Len(s) /\ <<>> \in T /\ DOMAIN <<>> = {} /\ 1..0 = {}
    BY <1>0
  <2>2. Leaves(s, hit, 0, <<>>)
    BY <2>1, Zenon DEF Leaves, Apart
  <2> HIDE DEF T
  <2> QED
    BY <2>1, <2>2
<1>3. ASSUME NEW k \in 1..Len(s), NEW made \in T, <<k - 1, made>> \in G
      PROVE  <<k, Drops(hit, made, s[k])>> \in G
  <2> DEFINE e == s[k]
             after == Drops(hit, made, e)
  <2>1. Leaves(s, hit, k - 1, made)
    BY <1>3
  <2>2. e \in Entries /\ k \in DOMAIN s /\ k \in 0..Len(s) /\ 1..k = 1..(k - 1) \union {k}
    BY <1>0
  <2>3. \A i \in 1..(k - 1) : i \in DOMAIN s /\ i # k
    BY <1>0
  <2> HIDE DEF e, after
  <2>4. CASE e \in hit
    <3>1. after = made
      BY <2>4, Zenon DEF Drops, after
    <3>2. Leaves(s, hit, k, made)
      BY <2>1, <2>2, <2>4 DEF Leaves, e
    <3> QED
      BY <2>2, <3>1, <3>2 DEF e, after
  <2>5. CASE e \notin hit
    <3>1. after = Append(made, e)
      BY <2>5, Zenon DEF Drops, after
    <3>2. /\ after \in T /\ after[Len(made) + 1] = e
          /\ DOMAIN after = DOMAIN made \union {Len(made) + 1}
          /\ \A j \in DOMAIN made : after[j] = made[j] /\ j # Len(made) + 1
      BY <2>2, <3>1
    <3>3. Apart(after)
      <4>1. \A j \in DOMAIN made : ~Clash(made[j], e)
        BY <1>0, <2>1, <2>2, <2>3 DEF Leaves, Apart, e
      <4> QED
        BY <2>1, <3>2, <4>1, ClashSymmetric DEF Leaves, Apart
    <3>4. Leaves(s, hit, k, after)
      <4>1. ASSUME NEW j \in DOMAIN after
            PROVE  \E i \in 1..k : after[j] = s[i] /\ s[i] \notin hit
        BY <2>1, <2>2, <2>5, <3>2 DEF Leaves, e
      <4>2. ASSUME NEW i \in 1..k, s[i] \notin hit
            PROVE  \E j \in DOMAIN after : after[j] = s[i]
        <5>1. CASE i = k
          BY <3>2, <5>1 DEF e
        <5>2. CASE i # k
          <6>1. i \in 1..(k - 1)
            BY <5>2
          <6>2. PICK j \in DOMAIN made : made[j] = s[i]
            BY <2>1, <4>2, <6>1 DEF Leaves
          <6> QED
            BY <3>2, <6>2
        <5> QED
          BY <5>1, <5>2
      <4> QED
        BY <3>3, <4>1, <4>2 DEF Leaves
    <3> QED
      BY <2>2, <3>2, <3>4 DEF e, after
  <2> QED
    BY <2>4, <2>5
<1>4. s \in Seq(Entries)
  BY <1>0
<1>5. <<Len(s), Erasing!Folded(hit, <<>>, s)>> \in G
  <2> HIDE DEF G, T
  <2> QED
    BY <1>4, <1>1, <1>2, <1>3, Erasing!FoldReaches
<1>6. EraseIf(s, hit) = Erasing!Folded(hit, <<>>, s)
  BY Zenon DEF EraseIf, Drops, FoldLeft, MapThenFoldSet, Max,
     Erasing!Folded, Erasing!FoldLeft, Erasing!MapThenFoldSet, Erasing!Max
<1> DEFINE made == EraseIf(s, hit)
<1>7. made \in T /\ Leaves(s, hit, Len(s), made)
  BY <1>5, <1>6
<1> HIDE DEF made
<1>8. made \in Mappings
  BY <1>7 DEF Mappings, Leaves
<1>9. ToSet(made) = ToSet(s) \ hit
  <2>1. DOMAIN s = 1..Len(s)
    BY <1>0
  <2>2. ASSUME NEW j \in DOMAIN made
        PROVE  made[j] \in ToSet(s) \ hit
    <3>1. PICK i \in 1..Len(s) : made[j] = s[i] /\ s[i] \notin hit
      BY <1>7 DEF Leaves
    <3> QED
      BY <2>1, <3>1, Zenon DEF ToSet
  <2>3. ASSUME NEW i \in DOMAIN s, s[i] \notin hit
        PROVE  s[i] \in ToSet(made)
    <3>1. PICK j \in DOMAIN made : made[j] = s[i]
      BY <1>7, <2>1, <2>3 DEF Leaves
    <3> QED
      BY <3>1, Zenon DEF ToSet
  <2> QED
    BY <2>2, <2>3 DEF ToSet
<1> QED
  BY <1>8, <1>9 DEF made

-----------------------------------------------------------------------------
(* The operator's decisions.                                                 *)

\* What a decision on a field leaves of a mapping.
Refuses(doc, label) == label = "" \/ ~Contains(doc.labels, label)

LEMMA PinFacts ==
    ASSUME NEW doc \in Documents, NEW mapping \in Mappings, NEW name \in Names, NEW label
    PROVE  /\ Pin(doc, mapping, name, label) \in Mappings
           /\ Refuses(doc, label) =>
                 ToSet(Pin(doc, mapping, name, label)) = {e \in ToSet(mapping) : e.field # name}
           /\ ~Refuses(doc, label) =>
                 \E pinned \in Entries :
                    /\ pinned.field = name /\ pinned.label = label /\ pinned.part = Whole
                    /\ ToSet(Pin(doc, mapping, name, label)) =
                          {e \in ToSet(mapping) : e.field # name /\ e.label # label} \union {pinned}
<1> DEFINE rest == EraseIf(mapping, {e \in ToSet(mapping) : e.field = name})
           free == EraseIf(rest, {e \in ToSet(rest) : e.label = label})
           pinned == Pinned(FieldOf(name), label, MeasuredPass(doc, FieldOf(name), label, Whole))
           made == Pin(doc, mapping, name, label)
<1>1. made = IF label = "" \/ ~Contains(doc.labels, label) THEN rest ELSE Append(free, pinned)
  BY Zenon DEF Pin
<1>2. rest \in Mappings /\ ToSet(rest) = {e \in ToSet(mapping) : e.field # name}
  <2> DEFINE hit == {e \in ToSet(mapping) : e.field = name}
  <2>1. \A e : e \in ToSet(mapping) \ hit <=> e \in ToSet(mapping) /\ e.field # name
    OBVIOUS
  <2> HIDE DEF hit
  <2>2. rest \in Mappings /\ ToSet(rest) = ToSet(mapping) \ hit
    BY ErasedFacts DEF hit
  <2> HIDE DEF rest
  <2> QED
    BY <2>1, <2>2
<1> HIDE DEF rest
<1>3. /\ free \in Mappings
      /\ ToSet(free) = {e \in ToSet(mapping) : e.field # name /\ e.label # label}
  <2> DEFINE hit == {e \in ToSet(rest) : e.label = label}
  <2>1. \A e : e \in ToSet(rest) \ hit <=> e \in ToSet(rest) /\ e.label # label
    OBVIOUS
  <2> HIDE DEF hit
  <2>2. free \in Mappings /\ ToSet(free) = ToSet(rest) \ hit
    BY <1>2, ErasedFacts DEF hit
  <2> HIDE DEF free
  <2> QED
    BY <1>2, <2>1, <2>2
<1> HIDE DEF free
<1>4. CASE Refuses(doc, label)
  <2>1. made = rest
    BY <1>1, <1>4, Zenon DEF Refuses
  <2> HIDE DEF made
  <2> QED
    BY <1>2, <1>4, <2>1 DEF made
<1>5. CASE ~Refuses(doc, label)
  <2>0. made = Append(free, pinned)
    BY <1>1, <1>5, Zenon DEF Refuses
  <2>1. label \in ToSet(doc.labels)
    <3>1. doc.labels \in Seq(ToSet(doc.labels))
      BY DocumentsAssumption DEF IsSequence
    <3>2. \A i \in 1..Len(doc.labels) : doc.labels[i] \in ToSet(doc.labels)
      BY <3>1
    <3>3. \E i \in 1..Len(doc.labels) : doc.labels[i] = label
      BY <1>5, Zenon DEF Refuses, Contains
    <3> QED
      BY <3>2, <3>3
  <2>2. /\ pinned \in Entries
        /\ pinned.field = name /\ pinned.label = label /\ pinned.part = Whole
    <3> DEFINE pass == MeasuredPass(doc, FieldOf(name), label, Whole)
               similarity == Similarity[label][FieldOf(name).name]
               confidence == 55 * similarity + 45 * pass.rate
    <3>1. pass.rate \in Nat /\ pass.reformatted \in BOOLEAN
      BY MeasuredType
    <3>2. FieldOf(name) \in ToSet(Fields) /\ FieldOf(name).name = name
      BY FieldsOf
    <3>3. label \in Labels /\ similarity \in Nat
      BY <2>1, <3>2, EvidenceType
    <3>4. pinned = [field |-> FieldOf(name).name, label |-> label, part |-> Whole,
                    reformatted |-> pass.reformatted, confidence |-> confidence]
      BY Zenon DEF Pinned
    <3> HIDE DEF pass, similarity, pinned
    <3>5. confidence \in Nat
      BY <3>1, <3>3
    <3>6. Whole \in Nat
      BY DEF Whole
    <3> HIDE DEF confidence
    <3> QED
      BY <3>1, <3>2, <3>3, <3>4, <3>5, <3>6 DEF Entries
  <2> HIDE DEF pinned, made
  <2>3. /\ made \in Seq(Entries) /\ made[Len(free) + 1] = pinned
        /\ DOMAIN made = DOMAIN free \union {Len(free) + 1}
        /\ \A j \in DOMAIN free : made[j] = free[j] /\ j # Len(free) + 1
    BY <1>3, <2>0, <2>2 DEF Mappings
  <2>4. \A j \in DOMAIN free : free[j].field # name /\ free[j].label # label
    <3>1. \A j \in DOMAIN free : free[j] \in ToSet(free)
      BY Zenon DEF ToSet
    <3> QED
      BY <1>3, <3>1
  <2>5. \A j \in DOMAIN free : ~Clash(free[j], pinned) /\ ~Clash(pinned, free[j])
    BY <2>2, <2>4 DEF Clash
  <2>6. made \in Mappings
    <3>1. Apart(free)
      BY <1>3 DEF Mappings
    <3>2. Apart(made)
      BY <2>3, <2>5, <3>1 DEF Apart
    <3> QED
      BY <2>3, <3>2 DEF Mappings
  <2>7. ToSet(made) = ToSet(free) \union {pinned}
    BY <2>3 DEF ToSet
  <2> QED
    BY <1>3, <1>5, <2>2, <2>6, <2>7 DEF made
<1> QED
  BY <1>4, <1>5

\* A decision in force stays in force when another is applied, or is outdone by it.
LEMMA PinKeeps ==
    ASSUME NEW doc \in Documents, NEW m \in Mappings, NEW overrides,
           NEW other \in Names \intersect DOMAIN overrides,
           NEW name \in DOMAIN overrides, name # other,
           InForce(doc, overrides, m, name)
    PROVE  InForce(doc, overrides, Pin(doc, m, other, overrides[other]), name)
<1> DEFINE label == overrides[other]
           made == Pin(doc, m, other, label)
<1>1. /\ Refuses(doc, label) => ToSet(made) = {e \in ToSet(m) : e.field # other}
      /\ ~Refuses(doc, label) =>
            \E pinned \in Entries :
               /\ pinned.field = other /\ pinned.label = label /\ pinned.part = Whole
               /\ ToSet(made) =
                     {e \in ToSet(m) : e.field # other /\ e.label # label} \union {pinned}
  BY PinFacts
<1> HIDE DEF made
<1>2. CASE Refuses(doc, overrides[name])
  <2>1. \A e \in ToSet(m) : e.field # name
    BY <1>2 DEF InForce, Refuses
  <2>2. \A e \in ToSet(made) : e.field # name
    BY <1>1, <2>1
  <2> QED
    BY <1>2, <2>2 DEF InForce, Refuses, made
<1>3. CASE ~Refuses(doc, overrides[name]) /\ overrides[name] = label
  <2>1. other \in DOMAIN overrides \ {name} /\ overrides[other] = overrides[name]
    BY <1>3
  <2> QED
    BY <1>3, <2>1 DEF InForce, Refuses, made
<1>4. CASE ~Refuses(doc, overrides[name]) /\ overrides[name] # label
  <2>1. \/ \E e \in ToSet(m) : e.field = name /\ e.label = overrides[name] /\ e.part = Whole
        \/ \E o \in DOMAIN overrides \ {name} : overrides[o] = overrides[name]
    BY <1>4 DEF InForce, Refuses
  <2>2. ASSUME NEW e \in ToSet(m), e.field = name, e.label = overrides[name]
        PROVE  e \in ToSet(made)
    BY <1>1, <1>4, <2>2
  <2> QED
    BY <1>4, <2>1, <2>2 DEF InForce, Refuses, made
<1> QED
  BY <1>2, <1>3, <1>4

\* A decision is in force when it has just been applied.
LEMMA PinForces ==
    ASSUME NEW doc \in Documents, NEW m \in Mappings, NEW overrides,
           NEW name \in Names \intersect DOMAIN overrides
    PROVE  InForce(doc, overrides, Pin(doc, m, name, overrides[name]), name)
<1> DEFINE label == overrides[name]
           made == Pin(doc, m, name, label)
<1>1. /\ Refuses(doc, label) => ToSet(made) = {e \in ToSet(m) : e.field # name}
      /\ ~Refuses(doc, label) =>
            \E pinned \in Entries :
               /\ pinned.field = name /\ pinned.label = label /\ pinned.part = Whole
               /\ ToSet(made) =
                     {e \in ToSet(m) : e.field # name /\ e.label # label} \union {pinned}
  BY PinFacts
<1> HIDE DEF made
<1>2. CASE Refuses(doc, label)
  BY <1>1, <1>2 DEF InForce, Refuses, made
<1>3. CASE ~Refuses(doc, label)
  BY <1>1, <1>3 DEF InForce, Refuses, made
<1> QED
  BY <1>2, <1>3

\* Of the first k names, those that were decided on.
Applied(doc, overrides, k, m) ==
    \A i \in 1..k : NameOrder[i] \in DOMAIN overrides => InForce(doc, overrides, m, NameOrder[i])

\* After all of them every decision is in force.
LEMMA OverridesFacts ==
    ASSUME NEW doc \in Documents, NEW mapping \in Mappings,
           NEW overrides, DOMAIN overrides \subseteq Names
    PROVE  /\ ApplyOverrides(doc, mapping, overrides, NameOrder) \in Mappings
           /\ \A name \in DOMAIN overrides :
                 InForce(doc, overrides, ApplyOverrides(doc, mapping, overrides, NameOrder), name)
<1> DEFINE d == [doc |-> doc, overrides |-> overrides]
           G == {p \in (0..Len(NameOrder)) \X Mappings : Applied(doc, overrides, p[1], p[2])}
           all == Pinning!Folded(d, mapping, NameOrder)
<1>1. ApplyOverrides(doc, mapping, overrides, NameOrder) = SortBy(InSchemaOrder, all)
  BY Zenon DEF ApplyOverrides, Pins, FoldLeft, MapThenFoldSet, Max,
     Pinning!Folded, Pinning!FoldLeft, Pinning!MapThenFoldSet, Pinning!Max
<1>2. d.doc = doc /\ d.overrides = overrides
  OBVIOUS
<1> HIDE DEF d
<1>3. \A m, name : Pins(d, m, name) =
         IF name \in DOMAIN overrides THEN Pin(doc, m, name, overrides[name]) ELSE m
  BY <1>2, Zenon DEF Pins, PinNext
<1>4. NameOrder \in Seq(Names) /\ Names = {NameOrder[i] : i \in 1..Len(NameOrder)}
  BY OrderAssumption DEF ToSet
<1>5. Pinning!Keeps(d, Mappings, Names)
  <2>1. ASSUME NEW m \in Mappings, NEW name \in Names
        PROVE  Pins(d, m, name) \in Mappings
    BY <1>3, PinFacts
  <2> QED
    BY <2>1, Zenon DEF Pinning!Keeps
<1>6. <<0, mapping>> \in G
  <2>1. 0 \in 0..Len(NameOrder) /\ 1..0 = {}
    BY <1>4
  <2> QED
    BY <2>1 DEF Applied
<1>7. ASSUME NEW k \in 1..Len(NameOrder), NEW m \in Mappings, <<k - 1, m>> \in G
      PROVE  <<k, Pins(d, m, NameOrder[k])>> \in G
  <2> DEFINE name == NameOrder[k]
             after == Pins(d, m, name)
  <2>1. Applied(doc, overrides, k - 1, m)
    BY <1>7
  <2>2. name \in Names /\ k \in 0..Len(NameOrder)
    BY <1>4
  <2>3. \A i \in 1..(k - 1) : NameOrder[i] \in Names /\ NameOrder[i] # name
    <3>1. \A i \in 1..(k - 1) : i \in DOMAIN NameOrder /\ k \in DOMAIN NameOrder /\ i # k
      BY <1>4
    <3> QED
      BY <1>4, <3>1, OrderAssumption
  <2> HIDE DEF name, after
  <2>4. after \in Mappings
    BY <1>5, <2>2, Zenon DEF Pinning!Keeps, after
  <2>5. ASSUME NEW i \in 1..k, NameOrder[i] \in DOMAIN overrides
        PROVE  InForce(doc, overrides, after, NameOrder[i])
    <3>1. CASE i = k
      <4>1. name \in DOMAIN overrides /\ NameOrder[i] = name
        BY <2>5, <3>1 DEF name
      <4>2. after = Pin(doc, m, name, overrides[name])
        BY <1>3, <4>1 DEF after
      <4> QED
        BY <2>2, <4>1, <4>2, PinForces
    <3>2. CASE i # k
      <4>1. i \in 1..(k - 1)
        BY <3>2
      <4>2. InForce(doc, overrides, m, NameOrder[i]) /\ NameOrder[i] # name
        BY <2>1, <2>3, <2>5, <4>1 DEF Applied
      <4>3. CASE name \in DOMAIN overrides
        <5>1. after = Pin(doc, m, name, overrides[name])
          BY <1>3, <4>3 DEF after
        <5> QED
          BY <2>2, <2>5, <4>2, <4>3, <5>1, PinKeeps
      <4>4. CASE name \notin DOMAIN overrides
        <5>1. after = m
          BY <1>3, <4>4 DEF after
        <5> QED
          BY <4>2, <5>1
      <4> QED
        BY <4>3, <4>4
    <3> QED
      BY <3>1, <3>2
  <2>6. Applied(doc, overrides, k, after)
    BY <2>5 DEF Applied
  <2> QED
    BY <2>2, <2>4, <2>6 DEF after, name
<1>8. <<Len(NameOrder), all>> \in G
  <2> HIDE DEF G
  <2> QED
    BY <1>4, <1>5, <1>6, <1>7, Pinning!FoldReaches
<1> HIDE DEF all
<1>9. all \in Mappings /\ \A name \in DOMAIN overrides : InForce(doc, overrides, all, name)
  <2>1. all \in Mappings /\ Applied(doc, overrides, Len(NameOrder), all)
    BY <1>8
  <2>2. \A name \in DOMAIN overrides : \E i \in 1..Len(NameOrder) : name = NameOrder[i]
    BY <1>4
  <2> QED
    BY <2>1, <2>2 DEF Applied
<1> DEFINE sorted == SortBy(InSchemaOrder, all)
<1>10. sorted \in Mappings /\ ToSet(sorted) = ToSet(all)
  BY <1>9, OrderedFacts
<1> HIDE DEF sorted
<1>11. \A name \in DOMAIN overrides : InForce(doc, overrides, sorted, name)
  BY <1>9, <1>10 DEF InForce
<1> QED
  BY <1>1, <1>10, <1>11 DEF sorted

-----------------------------------------------------------------------------
(* The source.                                                               *)

Decisions == UNION {[D -> Labels \union {""}] : D \in SUBSET Names}

MatchState(st) ==
    /\ st = [mapping |-> st.mapping, overrides |-> st.overrides,
             baseline |-> st.baseline, good |-> st.good]
    /\ st.mapping \in Mappings /\ st.overrides \in Decisions

\* Between the steps: what is kept is a mapping, decisions are about fields, and the
\* decisions are in force when a run has ended well.
MatchInv ==
    /\ cached = <<>> \/ \E doc \in Documents : cached = <<doc>>
    /\ MatchState(state)
    /\ pending \subseteq Mappings
    /\ ok => cached # <<>>
    /\ DecisionsInForce

LEMMA DecisionsFacts ==
    ASSUME NEW o
    PROVE  o \in Decisions <=>
              /\ o = [name \in DOMAIN o |-> o[name]] /\ DOMAIN o \subseteq Names
              /\ \A name \in DOMAIN o : o[name] \in Labels \union {""}
<1>1. ASSUME o \in Decisions
      PROVE  /\ o = [name \in DOMAIN o |-> o[name]] /\ DOMAIN o \subseteq Names
             /\ \A name \in DOMAIN o : o[name] \in Labels \union {""}
  <2>1. PICK D \in SUBSET Names : o \in [D -> Labels \union {""}]
    BY <1>1 DEF Decisions
  <2> QED
    BY <2>1
<1>2. ASSUME o = [name \in DOMAIN o |-> o[name]], DOMAIN o \subseteq Names,
             \A name \in DOMAIN o : o[name] \in Labels \union {""}
      PROVE  o \in Decisions
  <2>1. o \in [DOMAIN o -> Labels \union {""}]
    BY <1>2
  <2> QED
    BY <1>2, <2>1 DEF Decisions
<1> QED
  BY <1>1, <1>2

LEMMA DecidedMore ==
    ASSUME NEW o \in Decisions, NEW name \in Names, NEW label \in Labels \union {""}
    PROVE  Decide(o, name, label) \in Decisions
<1> DEFINE more == Decide(o, name, label)
<1>1. /\ DOMAIN more = {name} \union DOMAIN o
      /\ \A x \in DOMAIN more : more[x] = IF x = name THEN label ELSE o[x]
  BY DEF Decide
<1>2. more = [x \in DOMAIN more |-> more[x]]
  BY DEF Decide
<1> HIDE DEF more
<1>3. DOMAIN o \subseteq Names /\ \A x \in DOMAIN o : o[x] \in Labels \union {""}
  BY DecisionsFacts
<1>4. \A x \in DOMAIN more : more[x] \in Labels \union {""}
  BY <1>1, <1>3
<1>5. DOMAIN more \subseteq Names
  BY <1>1, <1>3
<1>6. more \in Decisions
  BY <1>2, <1>4, <1>5, DecisionsFacts
<1> QED
  BY <1>6 DEF more

LEMMA AnswerType ==
    ASSUME NEW o \in Decisions, NEW c \in Candidates, NEW accepted, NEW yes
    PROVE  Answer(o, c, accepted, yes) \in Decisions
<1>1. c.field \in Names /\ c.label \in Labels
  BY DEF Candidates
<1>2. (IF yes THEN c.label ELSE "") \in Labels \union {""}
  BY <1>1
<1> DEFINE decided == Decide(o, c.field, IF yes THEN c.label ELSE "")
           matched == Decide(o, c.field, c.label)
<1>3. decided \in Decisions /\ matched \in Decisions
  BY <1>1, <1>2, DecidedMore
<1>4. Answer(o, c, accepted, yes) \in {o, decided, matched}
  <2> DEFINE A == c.field \in DOMAIN o
             B == c.field \notin DOMAIN o /\ accepted /\ c.confidence < 85 * Unit
             C == /\ c.field \notin DOMAIN o
                  /\ ~accepted /\ yes
                  /\ \A i \in DOMAIN state.mapping : state.mapping[i].field # c.field
  <2>1. Answer(o, c, accepted, yes) =
          CASE A -> o [] B -> decided [] C -> matched [] OTHER -> o
    BY Zenon DEF Answer
  <2>2. ~(A /\ B) /\ ~(A /\ C) /\ ~(B /\ C)
    OBVIOUS
  <2> HIDE DEF A, B, C, decided, matched
  <2>3. CASE A
    BY <2>1, <2>2, <2>3
  <2>4. CASE B
    BY <2>1, <2>2, <2>4
  <2>5. CASE C
    BY <2>1, <2>2, <2>5
  <2>6. CASE ~A /\ ~B /\ ~C
    BY <2>1, <2>6
  <2> QED
    BY <2>3, <2>4, <2>5, <2>6
<1> QED
  BY <1>3, <1>4

LEMMA AnswersType ==
    ASSUME NEW doc \in Documents, NEW o \in Decisions, NEW yes
    PROVE  Reviewed(doc, o, yes) \in Decisions
<1> DEFINE c == Offered[doc]
           accepted == Matched[doc]
           d == [candidates |-> c, accepted |-> accepted, yes |-> yes]
           s == [i \in DOMAIN c |-> i]
<1>1. c \in Seq(Candidates)
  BY ScoredType DEF Offered
<1>2. Reviewed(doc, o, yes) = Answering!Folded(d, o, s)
  BY Zenon DEF Reviewed, Answers, FoldLeft, MapThenFoldSet, Max,
     Answering!Folded, Answering!FoldLeft, Answering!MapThenFoldSet, Answering!Max
<1>3. d.candidates = c /\ d.accepted = accepted /\ d.yes = yes
  OBVIOUS
<1> HIDE DEF c, d
<1>4. s \in Seq(DOMAIN c)
  BY <1>1
<1>5. ASSUME NEW p \in Decisions, NEW i \in DOMAIN c
      PROVE  Answers(d, p, i) \in Decisions
  <2>1. c[i] \in Candidates
    BY <1>1
  <2>2. Answers(d, p, i) = Answer(p, c[i], c[i] \in accepted, i \in yes)
    BY <1>3, Zenon DEF Answers
  <2> QED
    BY <2>1, <2>2, AnswerType
<1>6. Answering!Keeps(d, Decisions, DOMAIN c)
  BY <1>5, Zenon DEF Answering!Keeps
<1> HIDE DEF s
<1>7. Answering!Folded(d, o, s) \in Decisions
  BY <1>4, <1>6, Answering!FoldType
<1> QED
  BY <1>2, <1>7

\* What a run settles on, whatever it started from.
LEMMA DecidedFacts ==
    ASSUME NEW doc \in Documents, NEW st, MatchState(st), NEW chosen \in Mappings
    PROVE  /\ Decided(st, doc, chosen) \in Mappings
           /\ \A name \in DOMAIN st.overrides :
                 InForce(doc, st.overrides, Decided(st, doc, chosen), name)
<1> DEFINE o == st.overrides
<1>1. o \in Decisions
  BY DEF MatchState
<1>2. DOMAIN o \subseteq Names
  BY <1>1, DecisionsFacts
<1>3. Decided(st, doc, chosen) =
         IF o = <<>> THEN chosen ELSE ApplyOverrides(doc, chosen, o, NameOrder)
  BY Zenon DEF Decided
<1> HIDE DEF o
<1>4. CASE o = <<>>
  <2>1. DOMAIN o = {}
    BY <1>4
  <2> QED
    BY <1>3, <1>4, <2>1 DEF o
<1>5. CASE o # <<>>
  <2> DEFINE all == ApplyOverrides(doc, chosen, o, NameOrder)
  <2>1. all \in Mappings /\ \A name \in DOMAIN o : InForce(doc, o, all, name)
    BY <1>2, OverridesFacts
  <2>2. Decided(st, doc, chosen) = all
    BY <1>3, <1>5
  <2> HIDE DEF all
  <2> QED
    BY <2>1, <2>2 DEF o
<1> QED
  BY <1>4, <1>5

LEMMA EndRunKeeps ==
    ASSUME NEW STATE st, MatchState(st), NEW doc \in Documents, NEW STATE chosen,
           chosen \in Mappings, NEW STATE goodRuns, cached' = <<doc>>,
           EndRun(st, doc, Decided(st, doc, chosen), goodRuns)
    PROVE  MatchState(state)' /\ DecisionsInForce'
<1> DEFINE m == Decided(st, doc, chosen)
           rate == Rate(doc, m)
<1>1. m \in Mappings /\ \A name \in DOMAIN st.overrides : InForce(doc, st.overrides, m, name)
  BY DecidedFacts
<1>2. /\ ok' = (m # NoMapping)
      /\ state' = IF m = NoMapping THEN st
                  ELSE [st EXCEPT !.mapping = m, !.good = goodRuns + 1,
                                  !.baseline = H!UpdateBaseline(@, goodRuns, rate)]
  BY Zenon DEF EndRun
<1>3. /\ st = [mapping |-> st.mapping, overrides |-> st.overrides,
               baseline |-> st.baseline, good |-> st.good]
      /\ st.mapping \in Mappings /\ st.overrides \in Decisions
  BY DEF MatchState
<1> HIDE DEF m, rate
<1>4. CASE m = NoMapping
  <2>1. state' = st /\ ~ok'
    BY <1>2, <1>4
  <2> QED
    BY <1>3, <2>1 DEF MatchState, DecisionsInForce
<1>5. CASE m # NoMapping
  <2> DEFINE baseline == H!UpdateBaseline(st.baseline, goodRuns, rate)
  <2>1. state' = [mapping |-> m, overrides |-> st.overrides,
                  baseline |-> baseline, good |-> goodRuns + 1]
    BY <1>2, <1>3, <1>5
  <2> HIDE DEF baseline
  <2>2. state'.mapping = m /\ state'.overrides = st.overrides
        /\ state'.baseline = baseline /\ state'.good = goodRuns + 1
    BY <2>1
  <2>3. MatchState(state)'
    BY <1>1, <1>3, <2>1, <2>2 DEF MatchState
  <2>4. cached'[1] = doc
    OBVIOUS
  <2> QED
    BY <1>1, <2>2, <2>3, <2>4 DEF DecisionsInForce
<1> QED
  BY <1>4, <1>5

LEMMA RunOnKeeps ==
    ASSUME NEW STATE st, MatchState(st), pending \subseteq Mappings,
           NEW doc \in Documents, RunOn(st, doc)
    PROVE  MatchInv'
<1> DEFINE inferred == Suggested[doc]
           drifts == Drifts(st, doc)
           repairs == Repairs(st, doc, inferred)
           anew == drifts \/ st.mapping = NoMapping
           chosen == IF anew THEN inferred ELSE st.mapping
           goodRuns == IF drifts \/ (anew /\ inferred # NoMapping) THEN 0 ELSE st.good
<1>1. /\ cached' = <<doc>>
      /\ \/ /\ drifts /\ ~repairs
            /\ pending' = pending \union {inferred}
            /\ ok' = FALSE /\ state' = st
         \/ /\ EndRun(st, doc, Decided(st, doc, chosen), goodRuns)
            /\ UNCHANGED pending
  BY Zenon DEF RunOn, Judge
<1>2. inferred \in Mappings /\ st.mapping \in Mappings
  BY SuggestedType DEF MatchState
<1>3. chosen \in Mappings
  BY <1>2
<1> HIDE DEF inferred, drifts, repairs, chosen, goodRuns
<1>4. <<doc>> # <<>>
  OBVIOUS
<1>5. CASE drifts /\ ~repairs /\ pending' = pending \union {inferred} /\ ok' = FALSE /\ state' = st
  <2>1. MatchState(state)' /\ ~ok' /\ pending' \subseteq Mappings
    BY <1>2, <1>5 DEF MatchState
  <2> QED
    BY <1>1, <2>1 DEF MatchInv, DecisionsInForce
<1>6. CASE EndRun(st, doc, Decided(st, doc, chosen), goodRuns) /\ UNCHANGED pending
  <2>1. MatchState(state)' /\ DecisionsInForce'
    BY <1>1, <1>3, <1>6, EndRunKeeps
  <2>2. pending' \subseteq Mappings /\ cached' # <<>>
    BY <1>1, <1>4, <1>6
  <2> QED
    BY <1>1, <2>1, <2>2, Zenon DEF MatchInv
<1> QED
  BY <1>1, <1>5, <1>6

THEOREM MatchAlways == MatchSpec => []MatchInv
<1>1. MatchInit => MatchInv
  <2> SUFFICES ASSUME MatchInit
               PROVE  MatchInv
    OBVIOUS
  <2>1. cached = <<>> /\ pending = {} /\ ok = FALSE
        /\ state = [mapping |-> <<>>, overrides |-> <<>>, baseline |-> 0, good |-> 0]
    BY DEF MatchInit, NoMapping
  <2>2. <<>> \in Mappings
    BY DEF Mappings, Apart
  <2>3. <<>> \in Decisions
    <3>1. <<>> \in [{} -> Labels \union {""}]
      OBVIOUS
    <3> QED
      BY <3>1 DEF Decisions
  <2> QED
    BY <2>1, <2>2, <2>3 DEF MatchInv, MatchState, DecisionsInForce
<1>2. MatchInv /\ [MatchNext]_matchVars => MatchInv'
  <2> SUFFICES ASSUME MatchInv, [MatchNext]_matchVars
               PROVE  MatchInv'
    OBVIOUS
  <2>0. MatchState(state) /\ pending \subseteq Mappings
    BY DEF MatchInv
  <2>1. CASE Run
    <3>1. PICK doc \in Documents : RunOn(state, doc)
      BY <2>1 DEF Run
    <3> QED
      BY <2>0, <3>1, RunOnKeeps
  <2>2. CASE Review
    <3>1. PICK doc \in Documents : cached = <<doc>>
      BY <2>2 DEF Review, MatchInv
    <3>2. cached[1] = doc
      BY <3>1
    <3>3. PICK yes \in SUBSET DOMAIN Offered[doc] :
             \/ \E after \in Documents :
                   RunOn([state EXCEPT !.overrides = Reviewed(doc, state.overrides, yes)], after)
             \/ /\ state' = [state EXCEPT !.overrides = Reviewed(doc, state.overrides, yes)]
                /\ ok' = FALSE /\ UNCHANGED <<cached, pending>>
      BY <2>2, <3>2 DEF Review
    <3> DEFINE overrides == Reviewed(doc, state.overrides, yes)
               decided == [state EXCEPT !.overrides = overrides]
    <3>4. overrides \in Decisions
      <4>1. state.overrides \in Decisions
        BY <2>0 DEF MatchState
      <4> QED
        BY <4>1, AnswersType
    <3>5. \/ \E after \in Documents : RunOn(decided, after)
          \/ state' = decided /\ ok' = FALSE /\ UNCHANGED <<cached, pending>>
      BY <3>3
    <3> HIDE DEF overrides
    <3>6. MatchState(decided)
      BY <2>0, <3>4 DEF MatchState
    <3> HIDE DEF decided
    <3>7. CASE \E after \in Documents : RunOn(decided, after)
      BY <2>0, <3>6, <3>7, RunOnKeeps
    <3>8. CASE state' = decided /\ ok' = FALSE /\ UNCHANGED <<cached, pending>>
      BY <3>6, <3>8 DEF MatchInv, DecisionsInForce, MatchState
    <3> QED
      BY <3>5, <3>7, <3>8
  <2>3. CASE Approve
    <3>1. PICK candidate \in pending :
             /\ pending' = pending \ {candidate} /\ ok' = FALSE /\ UNCHANGED cached
             /\ state' = [state EXCEPT !.mapping = candidate, !.good = 0]
      BY <2>3 DEF Approve
    <3>2. MatchState(state)'
      BY <2>0, <3>1 DEF MatchState
    <3> QED
      BY <3>1, <3>2 DEF MatchInv, DecisionsInForce
  <2>4. CASE Watch \/ StopWatching \/ UNCHANGED matchVars
    <3>1. UNCHANGED <<cached, state, pending, ok>>
      BY <2>4 DEF Watch, StopWatching, matchVars
    <3> QED
      BY <3>1 DEF MatchInv, DecisionsInForce, MatchState
  <2> QED
    BY <2>1, <2>2, <2>3, <2>4 DEF MatchNext
<1> QED
  BY <1>1, <1>2, PTL DEF MatchSpec

\* A mapping never has a column whole and one of its parts, or two columns for a
\* field, and can be read back.
THEOREM NeverBoth == MatchSpec => []WholeOrParts
<1>1. MatchInv => WholeOrParts
  <2>1. ASSUME NEW m \in Mappings
        PROVE  Loads(m) /\ \A i, j \in DOMAIN m : i # j => ~Clash(m[i], m[j])
    BY DEF Mappings, Apart, Loads, Clash
  <2> QED
    BY <2>1 DEF MatchInv, MatchState, WholeOrParts
<1> QED
  BY <1>1, MatchAlways, PTL

\* The operator's decisions are in force after every run that ends well.
THEOREM DecisionsHold == MatchSpec => []DecisionsInForce
<1>1. MatchInv => DecisionsInForce
  BY DEF MatchInv
<1> QED
  BY <1>1, MatchAlways, PTL

-----------------------------------------------------------------------------
\* A watch holds a document against the mapping of the one before as a run would that
\* had learned it from that one.
THEOREM WatchAgrees == MatchSpec => WatchTellsDrift
<1> DEFINE mapping == Suggested[watched[1]]
           before == Rate(watched[1], mapping)
           learned == [mapping |-> mapping, overrides |-> <<>>,
                       baseline |-> H!UpdateBaseline(0, 0, before), good |-> 1]
           Tells == watched # <<>> /\ watched' \notin {<<>>, watched} =>
                       ((said' = "drift") <=> Drifts(learned, watched'[1]))
<1>1. ASSUME [MatchNext]_matchVars, watched # <<>>, watched' \notin {<<>>, watched}
      PROVE  (said' = "drift") <=> Drifts(learned, watched'[1])
  <2>1. Watch
    BY <1>1 DEF MatchNext, matchVars, Run, Review, Approve, StopWatching
  <2>2. PICK doc \in Documents :
           /\ watched' = <<doc>>
           /\ said' = CASE watched = <<>> -> "first"
                        [] watched = <<doc>> -> "unchanged"
                        [] watched \notin {<<>>, <<doc>>} /\ Collapses(Suggested[watched[1]], watched[1], doc) -> "drift"
                        [] OTHER -> "ok"
    BY <2>1 DEF Watch
  <2>3. watched \notin {<<>>, <<doc>>} /\ watched'[1] = doc
    BY <1>1, <2>2
  <2>4. (said' = "drift") <=> Collapses(mapping, watched[1], doc)
    <3> HIDE DEF Collapses
    <3> QED
      BY <2>2, <2>3
  <2>5. Collapses(mapping, watched[1], doc) <=> 10 * Rate(doc, mapping) < 6 * before
    BY DEF Collapses, Fell
  <2>6. learned.mapping = mapping /\ learned.good = 1 /\ learned.baseline = before
    BY DEF H!UpdateBaseline
  <2>7. Drifts(learned, doc) <=> mapping # NoMapping /\ 10 * Rate(doc, mapping) < 6 * before
    <3> HIDE DEF learned, before, mapping
    <3> QED
      BY <2>6 DEF Drifts, H!Drifted
  <2>8. mapping = NoMapping => Rate(doc, mapping) = 0 /\ before = 0
    BY DEF Rate
  <2> HIDE DEF mapping, before, learned
  <2>9. mapping = NoMapping => ~(10 * Rate(doc, mapping) < 6 * before)
    BY <2>8
  <2> QED
    BY <2>3, <2>4, <2>5, <2>7, <2>9
<1>2. [MatchNext]_matchVars => Tells
  BY <1>1
<1> QED
  BY <1>2, PTL DEF MatchSpec, WatchTellsDrift
=============================================================================
