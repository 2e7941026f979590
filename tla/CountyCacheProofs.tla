------------------------- MODULE CountyCacheProofs --------------------------
(* What CountyCache's runs check on a small county, for every county, number *)
(* of requests, runs and engines, and every EVENT_LIMIT.                     *)
EXTENDS CountyCache, FiniteSetTheorems, TLAPS

USE EventsAssumption, BoundsAssumption

-----------------------------------------------------------------------------
(* Snapshots of the events table.                                            *)

(* Any set of events has a count.                                            *)
LEMMA Counted ==
  ASSUME NEW S \in SUBSET Events
  PROVE  IsFiniteSet(S) /\ Cardinality(S) \in Nat
BY FS_Subset, FS_CardinalityType

(* The newest events are events of the snapshot they are taken from.         *)
LEMMA TakenType ==
  ASSUME NEW S \in SUBSET Events
  PROVE  /\ Taken(S) \in SUBSET S /\ Taken(S) \in SUBSET Events
         /\ KeysOf(Taken(S)) \in SUBSET Keys
BY DEF Taken, Newest, KeysOf

(* A property that is compiled has at least one event in its row.            *)
LEMMA RowFilled ==
  ASSUME NEW S \in SUBSET Events, NEW k \in KeysOf(S)
  PROVE  RowOf(S, k) # {} /\ RowOf(S, k) \in SUBSET Events
BY DEF RowOf, KeysOf

(* Of two snapshots, one containing the other, the one that counts as many   *)
(* contains the other.                                                       *)
LEMMA CountDecides ==
  ASSUME NEW S \in SUBSET Events, NEW T \in SUBSET Events,
         S \subseteq T \/ T \subseteq S, Cardinality(S) <= Cardinality(T)
  PROVE  S \subseteq T
<1>1. CASE S \subseteq T
  BY <1>1
<1>2. CASE T \subseteq S
  <2>1. IsFiniteSet(S) /\ Cardinality(S) \in Nat /\ Cardinality(T) \in Nat
    BY Counted
  <2>2. Cardinality(T) <= Cardinality(S) /\ (Cardinality(T) = Cardinality(S) => T = S)
    BY <1>2, <2>1, FS_Subset
  <2> QED BY <2>1, <2>2
<1> QED BY <1>1, <1>2

-----------------------------------------------------------------------------
(* Types.                                                                    *)

LEMMA TrustType ==
  ASSUME NEW S
  PROVE  TrustIn(S) \in Trust
BY DEF TrustIn, Trust, NewestRun, OkRuns

LEMMA IdleType == Idle \in Call
BY DEF Idle, Call, Steps, NoTrust, Trust

LEMMA NoAnswerType == NoAnswer \in [given : BOOLEAN, shown : SUBSET Events]
BY DEF NoAnswer

LEMMA InitTyped == Init => TypeOK
BY IdleType, NoAnswerType DEF Init, TypeOK, Run, RunStages, Compiled, NoTrust, Trust

LEMMA NextTyped == TypeOK /\ [Next]_vars => TypeOK'
<1> SUFFICES ASSUME TypeOK, [Next]_vars PROVE TypeOK'
  OBVIOUS
<1> USE DEF TypeOK
<1>1. ASSUME NEW r \in Runs, RunStep(r) PROVE TypeOK'
  <2> USE DEF Run, RunStages, RunOnly, InStage, Reach
  <2>1. CASE CreateRun(r)
    BY <2>1 DEF CreateRun
  <2>2. CASE ListProperties(r)
    BY <2>2 DEF ListProperties, KeysOf
  <2>3. CASE LandEvents(r)
    BY <2>3 DEF LandEvents
  <2>4. CASE MarkDone(r)
    BY <2>4 DEF MarkDone
  <2>5. CASE RunDies(r)
    BY <2>5 DEF RunDies
  <2> QED BY <1>1, <2>1, <2>2, <2>3, <2>4, <2>5 DEF RunStep
<1>2. ASSUME NEW c \in Callers, Ask(c) \/ CallStep(c) \/ Drop(c) PROVE TypeOK'
  <2> USE DEF CompileOnly, Goes, Return
  <2>0. /\ call[c] \in Call /\ cache \in Compiled
        /\ Stamp \in Nat /\ call[c].of \in SUBSET Events /\ call[c].todo \in SUBSET Keys
    BY Counted DEF Call, Stamp
  <2>1. CASE Ask(c)
    BY <2>0, <2>1, IdleType, NoAnswerType DEF Ask, Idle, Call, Steps
  <2>2. CASE Miss(c)
    BY <2>0, <2>2 DEF Miss, Call, Steps
  <2>3. CASE Load(c)
    BY <2>0, <2>3 DEF Load, Call, Steps
  <2>4. CASE ReadTrust(c)
    BY <2>0, <2>4, TrustType, TakenType DEF ReadTrust, Call, Steps
  <2>5. CASE PersistRow(c)
    <3>1. PICK k \in call[c].todo :
            /\ table' = [table EXCEPT ![k] = RowOf(Taken(call[c].of), k)]
            /\ listed' = listed \union {k}
            /\ call' = [call EXCEPT ![c].todo = @ \ {k}]
      BY <2>5 DEF PersistRow
    <3>2. RowOf(Taken(call[c].of), k) \in SUBSET Events
      BY <2>0, TakenType DEF RowOf
    <3> QED BY <2>0, <2>5, <3>1, <3>2 DEF PersistRow, Call
  <2>6. CASE AnswerFromCache(c)
    BY <2>0, <2>6, IdleType, TakenType DEF AnswerFromCache, Compiled
  <2>7. CASE NoEvents(c)
    BY <2>7, IdleType DEF NoEvents
  <2>8. CASE PutCache(c)
    BY <2>0, <2>8, IdleType, TakenType DEF PutCache, Entry, Compiled, Call
  <2>9. CASE Drop(c)
    BY <2>9, IdleType, NoAnswerType DEF Drop
  <2> QED BY <1>2, <2>1, <2>2, <2>3, <2>4, <2>5, <2>6, <2>7, <2>8, <2>9
          DEF CallStep, Answers
<1>3. CASE Deploy
  BY <1>3 DEF Deploy
<1>4. CASE UNCHANGED vars
  BY <1>4 DEF vars
<1> QED BY <1>1, <1>2, <1>3, <1>4 DEF Next

(* Type correctness, of the database, the cached compile and every request.  *)
THEOREM TypeCorrect == Spec => []TypeOK
BY InitTyped, NextTyped, PTL DEF Spec

-----------------------------------------------------------------------------
(* What a request knows.                                                     *)

(* since, of and the cached compile's of are snapshots of a table that only  *)
(* grows, so of any two one contains the other.                              *)
Snapshots ==
  {call[c].since : c \in Callers} \union {call[c].of : c \in Callers} \union {cache.of}
Chain ==
  /\ \A S \in Snapshots : S \subseteq events
  /\ \A S, T \in Snapshots : S \subseteq T \/ T \subseteq S

(* A request's stamp counts what was stored when it asked, and what it loads *)
(* it loads later; a cached compile has at least the events its stamp counts.*)
StampsLag ==
  /\ \A c \in Callers :
       /\ ~AtStep(c, "idle") => call[c].stamp = Cardinality(call[c].since)
       /\ call[c].step \in {"trust", "persist"} => call[c].since \subseteq call[c].of
  /\ cache.abi # 0 => cache.stamp <= Cardinality(cache.of)

Knows == TypeOK /\ Chain /\ StampsLag

LEMMA InitKnows == Init => Knows
<1> SUFFICES ASSUME Init PROVE Knows
  OBVIOUS
<1>1. TypeOK
  BY InitTyped
<1>2. Snapshots \subseteq {{}}
  BY DEF Init, Snapshots, Idle
<1>3. Chain
  BY <1>2 DEF Chain
<1>4. StampsLag
  BY DEF Init, StampsLag, AtStep, Idle
<1> QED BY <1>1, <1>3, <1>4 DEF Knows

(* A step adds to the snapshots at most the table as it is, and {}.          *)
LEMMA NextChain ==
  ASSUME Chain, events \subseteq events', Snapshots' \subseteq Snapshots \union {events, {}}
  PROVE  Chain'
BY DEF Chain

LEMMA NextKnows == Knows /\ [Next]_vars => Knows'
<1> SUFFICES ASSUME Knows, [Next]_vars PROVE Knows'
  OBVIOUS
<1>0. TypeOK /\ TypeOK' /\ Chain /\ StampsLag
  BY NextTyped DEF Knows
<1>1. ASSUME NEW r \in Runs, RunStep(r) PROVE Chain' /\ StampsLag'
  <2>1. call' = call /\ cache' = cache /\ events \subseteq events'
    BY <1>1 DEF RunStep, CreateRun, ListProperties, LandEvents, MarkDone, RunDies, RunOnly
  <2>2. Chain'
    BY <1>0, <2>1, NextChain DEF Snapshots
  <2>3. StampsLag'
    BY <1>0, <2>1 DEF StampsLag, AtStep
  <2> QED BY <2>2, <2>3
<1>2. ASSUME NEW c \in Callers, Ask(c) \/ CallStep(c) \/ Drop(c) PROVE Chain' /\ StampsLag'
  <2> USE DEF CompileOnly, Goes, Return, AtStep
  <2>0. /\ call \in [Callers -> Call] /\ call[c] \in Call /\ cache \in Compiled
        /\ events' = events /\ call[c].since \subseteq events
    BY <1>0, <1>2 DEF TypeOK, Ask, CallStep, Miss, Load, ReadTrust, PersistRow, Answers,
                      AnswerFromCache, NoEvents, PutCache, Drop, Chain, Snapshots
  <2>1. CASE Ask(c)
    <3>1. Snapshots' \subseteq Snapshots \union {events, {}}
      BY <2>0, <2>1 DEF Ask, Snapshots, Idle
    <3>2. StampsLag'
      BY <1>0, <2>0, <2>1 DEF Ask, StampsLag, Idle, Stamp, Call
    <3> QED BY <1>0, <2>0, <3>1, <3>2, NextChain
  <2>2. CASE Miss(c) \/ ReadTrust(c) \/ PersistRow(c)
    <3>1. /\ cache' = cache
          /\ \A d \in Callers : /\ call'[d].since = call[d].since
                                /\ call'[d].of = call[d].of
                                /\ call'[d].stamp = call[d].stamp
      BY <2>0, <2>2 DEF Miss, ReadTrust, PersistRow, Call
    <3>2. Snapshots' = Snapshots
      BY <3>1 DEF Snapshots
    <3>3. StampsLag'
      BY <1>0, <2>0, <2>2, <3>1 DEF Miss, ReadTrust, PersistRow, StampsLag, Call
    <3> QED BY <1>0, <2>0, <3>2, <3>3, NextChain
  <2>3. CASE Load(c)
    <3>1. Snapshots' \subseteq Snapshots \union {events, {}}
      BY <2>0, <2>3 DEF Load, Snapshots, Call
    <3>2. StampsLag'
      BY <1>0, <2>0, <2>3 DEF Load, StampsLag, Call
    <3> QED BY <1>0, <2>0, <3>1, <3>2, NextChain
  <2>4. CASE AnswerFromCache(c) \/ NoEvents(c) \/ Drop(c)
    <3>1. cache' = cache /\ call' = [call EXCEPT ![c] = Idle]
      BY <2>4 DEF AnswerFromCache, NoEvents, Drop
    <3>2. Snapshots' \subseteq Snapshots \union {events, {}}
      BY <2>0, <3>1 DEF Snapshots, Idle
    <3>3. StampsLag'
      BY <1>0, <2>0, <3>1 DEF StampsLag, Idle
    <3> QED BY <1>0, <2>0, <3>2, <3>3, NextChain
  <2>5. CASE PutCache(c)
    <3>1. cache' = Entry(c) /\ call' = [call EXCEPT ![c] = Idle]
      BY <2>5 DEF PutCache
    <3>2. Snapshots' \subseteq Snapshots \union {events, {}}
      BY <2>0, <3>1 DEF Snapshots, Idle, Entry
    <3>3. call[c].since \subseteq call[c].of /\ call[c].stamp = Cardinality(call[c].since)
      BY <1>0, <2>5 DEF PutCache, StampsLag
    <3>4. Cardinality(call[c].since) <= Cardinality(call[c].of)
      <4>1. call[c].of \in SUBSET Events
        BY <2>0 DEF Call
      <4> QED BY <3>3, <4>1, Counted, FS_Subset
    <3>5. StampsLag'
      BY <1>0, <2>0, <3>1, <3>3, <3>4 DEF StampsLag, Idle, Entry
    <3> QED BY <1>0, <2>0, <3>2, <3>5, NextChain
  <2> QED BY <1>2, <2>1, <2>2, <2>3, <2>4, <2>5 DEF CallStep, Answers
<1>3. ASSUME call' = call, cache' = cache, events' = events PROVE Chain' /\ StampsLag'
  <2>0. Snapshots' = Snapshots
    BY <1>3 DEF Snapshots
  <2>1. Chain'
    BY <1>0, <1>3, <2>0, NextChain
  <2>2. StampsLag'
    BY <1>0, <1>3 DEF StampsLag, AtStep
  <2> QED BY <2>1, <2>2
<1>4. CASE Deploy
  BY <1>0, <1>3, <1>4 DEF Deploy, Knows
<1>5. CASE UNCHANGED vars
  BY <1>0, <1>3, <1>5 DEF vars, Knows
<1> QED BY <1>0, <1>1, <1>2, <1>4, <1>5 DEF Next, Knows

LEMMA Known == Spec => []Knows
BY InitKnows, NextKnows, PTL DEF Spec

LEMMA WarmKnows == Knows => WarmIsWhole
<1> SUFFICES ASSUME Knows, Warm PROVE cache.of = events
  BY DEF WarmIsWhole
<1>1. cache.abi # 0 /\ cache.stamp = Cardinality(events)
  BY DEF Knows, TypeOK, Warm, Stamp
<1>2. cache.of \subseteq events /\ Cardinality(events) <= Cardinality(cache.of)
  BY <1>1 DEF Knows, Chain, Snapshots, StampsLag
<1>3. events \in SUBSET Events /\ cache.of \in SUBSET Events
  BY <1>2 DEF Knows, TypeOK
<1>4. events \subseteq cache.of
  BY <1>2, <1>3, CountDecides
<1> QED BY <1>2, <1>4

(* An entry under the current stamp holds every event, for any number of     *)
(* overlapping compiles, runs, dropped requests and engines.                 *)
THEOREM WarmCountyIsWhole == Spec => []WarmIsWhole
BY Known, WarmKnows, PTL

-----------------------------------------------------------------------------
(* What is written.                                                          *)

(* A run's rows are there from the step that writes them on.                 *)
Written ==
  \A r \in Runs :
    /\ runs[r].stage \in {"listed", "landed", "done"} => KeysOf(runs[r].doc) \subseteq listed
    /\ runs[r].stage \in {"landed", "done"} => runs[r].doc \subseteq events

LEMMA InitWritten == Init => Written
BY DEF Init, Written

LEMMA NextWritten == TypeOK /\ Written /\ [Next]_vars => Written'
<1> SUFFICES ASSUME TypeOK, Written, [Next]_vars PROVE Written'
  OBVIOUS
<1>1. ASSUME NEW r \in Runs, RunStep(r) PROVE Written'
  <2> USE DEF Written, TypeOK, Run, InStage, Reach
  <2>1. CASE CreateRun(r)
    BY <2>1 DEF CreateRun
  <2>2. CASE ListProperties(r)
    BY <2>2 DEF ListProperties
  <2>3. CASE LandEvents(r)
    BY <2>3 DEF LandEvents
  <2>4. CASE MarkDone(r)
    BY <2>4 DEF MarkDone
  <2>5. CASE RunDies(r)
    BY <2>5 DEF RunDies
  <2> QED BY <1>1, <2>1, <2>2, <2>3, <2>4, <2>5 DEF RunStep
<1>2. ASSUME runs' = runs, events' = events, listed \subseteq listed' PROVE Written'
  BY <1>2 DEF Written
<1>3. ASSUME NEW c \in Callers, Ask(c) \/ CallStep(c) \/ Drop(c) PROVE Written'
  <2>1. runs' = runs /\ events' = events /\ listed \subseteq listed'
    BY <1>3 DEF Ask, CallStep, Miss, Load, ReadTrust, PersistRow, Answers, AnswerFromCache,
                NoEvents, PutCache, Drop, CompileOnly, Goes, Return
  <2> QED BY <1>2, <2>1
<1>4. CASE Deploy
  BY <1>2, <1>4 DEF Deploy
<1>5. CASE UNCHANGED vars
  BY <1>2, <1>5 DEF vars
<1> QED BY <1>1, <1>3, <1>4, <1>5 DEF Next

(* A run that says done has its events and their property rows stored, for   *)
(* any number of runs dying anywhere.                                        *)
THEOREM DoneIsStored == Spec => []DoneMeansStored
<1>1. Written => DoneMeansStored
  BY DEF Written, DoneMeansStored, InStage
<1> QED BY InitTyped, NextTyped, InitWritten, NextWritten, <1>1, PTL DEF Spec

(* Rows a compile has written, and those behind the cached one, are filled.  *)
Filled(S) == \A k \in S : table[k] # {} /\ k \in listed
RowsFilled ==
  /\ \A c \in Callers : AtStep(c, "persist") =>
       /\ call[c].todo \subseteq KeysOf(Taken(call[c].of))
       /\ Filled(KeysOf(Taken(call[c].of)) \ call[c].todo)
  /\ cache.abi # 0 => Filled(KeysOf(Taken(cache.of)))

LEMMA InitFilled == Init => RowsFilled
BY DEF Init, RowsFilled, AtStep, Idle

LEMMA NextFilled == TypeOK /\ RowsFilled /\ [Next]_vars => RowsFilled'
<1> SUFFICES ASSUME TypeOK, RowsFilled, [Next]_vars PROVE RowsFilled'
  OBVIOUS
<1>1. ASSUME table' = table, listed \subseteq listed', cache' = cache,
             \A d \in Callers : call'[d] = call[d] \/ call'[d].step # "persist"
      PROVE  RowsFilled'
  BY <1>1 DEF RowsFilled, Filled, AtStep
<1>2. ASSUME NEW r \in Runs, RunStep(r) PROVE RowsFilled'
  BY <1>1, <1>2 DEF RunStep, CreateRun, ListProperties, LandEvents, MarkDone, RunDies, RunOnly
<1>3. ASSUME NEW c \in Callers, Ask(c) \/ CallStep(c) \/ Drop(c) PROVE RowsFilled'
  <2> USE DEF CompileOnly, Goes, Return, AtStep
  <2>0. /\ call \in [Callers -> Call] /\ call[c] \in Call /\ Idle.step = "idle"
        /\ call[c].of \in SUBSET Events
    BY DEF TypeOK, Call, Idle
  <2>1. CASE Ask(c) \/ Miss(c) \/ Load(c) \/ AnswerFromCache(c) \/ NoEvents(c) \/ Drop(c)
    <3>1. table' = table /\ listed' = listed /\ cache' = cache
      BY <2>1 DEF Ask, Miss, Load, AnswerFromCache, NoEvents, Drop
    <3>2. \A d \in Callers : call'[d] = call[d] \/ call'[d].step # "persist"
      <4>1. CASE Ask(c)
        BY <2>0, <4>1 DEF Ask, Idle
      <4>2. CASE Miss(c) \/ Load(c)
        BY <2>0, <4>2 DEF Miss, Load, Call
      <4>3. CASE AnswerFromCache(c) \/ NoEvents(c) \/ Drop(c)
        BY <2>0, <4>3 DEF AnswerFromCache, NoEvents, Drop
      <4> QED BY <2>1, <4>1, <4>2, <4>3
    <3> QED BY <1>1, <3>1, <3>2
  <2>2. CASE ReadTrust(c)
    <3>1. /\ table' = table /\ listed' = listed /\ cache' = cache
          /\ call'[c].of = call[c].of /\ call'[c].todo = KeysOf(Taken(call[c].of))
          /\ \A d \in Callers \ {c} : call'[d] = call[d]
      BY <2>0, <2>2 DEF ReadTrust, Call
    <3> QED BY <3>1 DEF RowsFilled, Filled
  <2>3. CASE PersistRow(c)
    <3>1. PICK k \in call[c].todo :
            /\ table' = [table EXCEPT ![k] = RowOf(Taken(call[c].of), k)]
            /\ listed' = listed \union {k}
            /\ call' = [call EXCEPT ![c].todo = @ \ {k}]
      BY <2>3 DEF PersistRow
    <3>2. k \in KeysOf(Taken(call[c].of)) /\ k \in Keys
      BY <2>0, <2>3, <3>1 DEF PersistRow, RowsFilled, Call
    <3>3. RowOf(Taken(call[c].of), k) # {}
      BY <2>0, <3>2, TakenType, RowFilled
    <3>4. /\ table'[k] # {} /\ k \in listed'
          /\ \A j \in Keys : table[j] # {} => table'[j] # {}
          /\ listed \subseteq listed' /\ listed \subseteq Keys
      BY <3>1, <3>2, <3>3 DEF TypeOK
    <3>5. \A S : Filled(S) => Filled(S)' /\ Filled(S \union {k})'
      BY <3>1, <3>4 DEF Filled
    <3>6. /\ call'[c].todo = call[c].todo \ {k} /\ call'[c].of = call[c].of
          /\ call'[c].step = call[c].step /\ cache' = cache
          /\ \A d \in Callers \ {c} : call'[d] = call[d]
      BY <2>0, <2>3, <3>1 DEF PersistRow, Call
    <3>7. KeysOf(Taken(call[c].of)) \ (call[c].todo \ {k})
             \subseteq (KeysOf(Taken(call[c].of)) \ call[c].todo) \union {k}
      OBVIOUS
    <3> QED BY <2>3, <3>5, <3>6, <3>7 DEF RowsFilled, PersistRow, Filled
  <2>4. CASE PutCache(c)
    <3>1. /\ table' = table /\ listed' = listed /\ cache' = Entry(c)
          /\ call' = [call EXCEPT ![c] = Idle]
      BY <2>4 DEF PutCache
    <3>2. Filled(KeysOf(Taken(call[c].of)))
      BY <2>4 DEF PutCache, RowsFilled, Filled
    <3> QED BY <2>0, <3>1, <3>2 DEF RowsFilled, Filled, Entry
  <2> QED BY <1>3, <2>1, <2>2, <2>3, <2>4 DEF CallStep, Answers
<1>4. CASE Deploy
  BY <1>1, <1>4 DEF Deploy
<1>5. CASE UNCHANGED vars
  BY <1>1, <1>5 DEF vars
<1> QED BY <1>2, <1>3, <1>4, <1>5 DEF Next

(* Every property a cached compile shows has a filled row in the table.      *)
THEOREM CachedIsPersisted == Spec => []CachedMeansPersisted
<1>1. RowsFilled => CachedMeansPersisted
  BY DEF RowsFilled, Filled, CachedMeansPersisted
<1> QED BY InitTyped, NextTyped, InitFilled, NextFilled, <1>1, PTL DEF Spec

-----------------------------------------------------------------------------
(* The view.                                                                 *)

Waiting == {c \in Callers : ~AtStep(c, "idle")}
Asked == [c \in Callers |-> call[c].since]

LEMMA InitView == Init => View!ViewInit
BY DEF Init, View!ViewInit, View!NoAnswer, NoAnswer, AtStep, Idle

(* A cached compile is fresh for a request only if it has every event that   *)
(* was stored when the request was made.                                     *)
LEMMA FreshCovers ==
  ASSUME Knows, NEW c \in Callers, AtStep(c, "asked"), Fresh(cache, c)
  PROVE  call[c].since \subseteq cache.of /\ cache.of \subseteq events
<1>1. /\ call[c] \in Call /\ cache \in Compiled
      /\ cache.of \in SUBSET Events /\ call[c].since \in SUBSET Events
  BY DEF Knows, TypeOK, Call, Compiled
<1>2. cache.abi # 0 /\ cache.stamp = Cardinality(call[c].since)
  BY <1>1 DEF Knows, StampsLag, Fresh, AtStep, Call
<1>3. Cardinality(call[c].since) <= Cardinality(cache.of)
  BY <1>2 DEF Knows, StampsLag
<1>4. /\ cache.of \subseteq events
      /\ call[c].since \subseteq cache.of \/ cache.of \subseteq call[c].since
  BY DEF Knows, Chain, Snapshots
<1> QED BY <1>1, <1>3, <1>4, CountDecides

(* An answer is the view of a snapshot between question and answer.          *)
LEMMA AnswerImplements ==
  ASSUME Knows, NEW c \in Callers, Answers(c)
  PROVE  View!AnswerView(c)
<1> USE DEF CompileOnly, Return, AtStep
<1>0. call \in [Callers -> Call] /\ call[c] \in Call /\ Idle.step = "idle" /\ Idle.since = {}
  BY DEF Knows, TypeOK, Call, Idle
<1>1. /\ events' = events /\ call' = [call EXCEPT ![c] = Idle] /\ c \in Waiting
  BY DEF Answers, AnswerFromCache, NoEvents, PutCache, Waiting
<1>2. Waiting' = Waiting \ {c} /\ Asked' = [Asked EXCEPT ![c] = {}]
  BY <1>0, <1>1 DEF Waiting, Asked
<1>3. \E S \in SUBSET events :
       Asked[c] \subseteq S /\ answer' = [given |-> TRUE, shown |-> Newest(S, EventLimit)]
  <2>1. CASE AnswerFromCache(c)
    <3>1. Asked[c] \subseteq cache.of /\ cache.of \subseteq events
      BY <2>1, FreshCovers DEF AnswerFromCache, Asked
    <3> QED BY <2>1, <3>1 DEF AnswerFromCache, Taken
  <2>2. CASE NoEvents(c)
    <3>0. events = {} /\ call[c].since \in Snapshots
      BY <2>2 DEF NoEvents, Snapshots
    <3>1. Asked[c] \subseteq {}
      BY <3>0 DEF Knows, Chain, Asked
    <3>2. Newest({}, EventLimit) = {}
      BY DEF Newest
    <3> QED BY <2>2, <3>1, <3>2 DEF NoEvents
  <2>3. CASE PutCache(c)
    <3>1. Asked[c] \subseteq call[c].of /\ call[c].of \subseteq events
      BY <2>3 DEF PutCache, Knows, Chain, StampsLag, Snapshots, Asked
    <3> QED BY <2>3, <3>1 DEF PutCache, Taken
  <2> QED BY <2>1, <2>2, <2>3 DEF Answers
<1>4. \A S : View!Newest(S, EventLimit) = Newest(S, EventLimit)
  BY DEF View!Newest, Newest, View!Cardinality, Cardinality
<1> QED BY <1>1, <1>2, <1>3, <1>4 DEF View!AnswerView, Waiting, Asked

LEMMA StepView == Knows /\ [Next]_vars => [View!ViewNext]_View!viewVars
<1> SUFFICES ASSUME Knows, [Next]_vars PROVE [View!ViewNext]_View!viewVars
  OBVIOUS
<1> USE DEF AtStep
<1>1. ASSUME NEW r \in Runs, RunStep(r) PROVE View!Grow
  <2>1. /\ call' = call /\ answer' = answer
        /\ events' = events \/ events' = events \union runs[r].doc
    BY <1>1 DEF RunStep, CreateRun, ListProperties, LandEvents, MarkDone, RunDies, RunOnly
  <2>2. runs[r].doc \in SUBSET Events
    BY DEF Knows, TypeOK, Run
  <2>3. \E D \in SUBSET Events : events' = events \union D
    <3>1. CASE events' = events
      BY <3>1, events' = events \union {}
    <3>2. CASE events' = events \union runs[r].doc
      BY <2>2, <3>2
    <3> QED BY <2>1, <3>1, <3>2
  <2> QED BY <2>1, <2>3 DEF View!Grow
<1>2. ASSUME NEW c \in Callers, Ask(c) \/ CallStep(c) \/ Drop(c)
      PROVE  [View!ViewNext]_View!viewVars
  <2>0. call \in [Callers -> Call] /\ Idle.step = "idle" /\ Idle.since = {}
    BY DEF Knows, TypeOK, Idle
  <2>1. CASE Ask(c)
    <3>1. /\ Waiting' = Waiting \union {c} /\ c \notin Waiting
          /\ Asked' = [Asked EXCEPT ![c] = events]
      BY <2>0, <2>1 DEF Ask, Idle, Waiting, Asked
    <3>2. View!AskView(c)
      BY <2>1, <3>1 DEF Ask, CompileOnly, View!AskView, View!NoAnswer, NoAnswer, Waiting, Asked
    <3> QED BY <3>2 DEF View!ViewNext
  <2>2. CASE Miss(c) \/ Load(c) \/ ReadTrust(c) \/ PersistRow(c)
    <3>1. \A d \in Callers : /\ (call'[d].step = "idle") = (call[d].step = "idle")
                            /\ call'[d].since = call[d].since
      BY <2>0, <2>2 DEF Miss, Load, ReadTrust, PersistRow, Call
    <3>2. events' = events /\ answer' = answer
      BY <2>2 DEF Miss, Load, ReadTrust, PersistRow, Goes, CompileOnly
    <3>3. Waiting' = Waiting /\ Asked' = Asked
      BY <3>1 DEF Waiting, Asked
    <3> QED BY <3>2, <3>3 DEF View!viewVars, Waiting, Asked
  <2>3. CASE Answers(c)
    BY <2>3, AnswerImplements DEF View!ViewNext
  <2>4. CASE Drop(c)
    <3>1. /\ Waiting' = Waiting \ {c} /\ c \in Waiting
          /\ Asked' = [Asked EXCEPT ![c] = {}]
      BY <2>0, <2>4 DEF Drop, Waiting, Asked
    <3>2. View!DropView(c)
      BY <2>4, <3>1 DEF Drop, CompileOnly, View!DropView, View!NoAnswer, NoAnswer, Waiting, Asked
    <3> QED BY <3>2 DEF View!ViewNext
  <2> QED BY <1>2, <2>1, <2>2, <2>3, <2>4 DEF CallStep
<1>3. ASSUME call' = call, events' = events, answer' = answer
      PROVE  UNCHANGED View!viewVars
  BY <1>3 DEF View!viewVars
<1>4. CASE Deploy
  BY <1>3, <1>4 DEF Deploy
<1>5. CASE UNCHANGED vars
  BY <1>3, <1>5 DEF vars
<1> QED BY <1>1, <1>2, <1>4, <1>5 DEF Next, View!ViewNext

(* Cache, compile, engine and every overlap of requests and runs together    *)
(* answer as the abstract view does.                                         *)
THEOREM Refinement == Spec => ImplementsView
<1>1. Spec => View!ViewInit /\ [][View!ViewNext]_View!viewVars
  BY InitView, StepView, Known, PTL DEF Spec
<1> QED BY <1>1 DEF ImplementsView, View!ViewSpec
=============================================================================
