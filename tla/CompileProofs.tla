--------------------------- MODULE CompileProofs ----------------------------
(* What the county report is made of: the state of a property, the values and  *)
(* conflicts of its fields and the keys it is put together from, whatever the  *)
(* sources say and in whatever order they are run, and that its properties     *)
(* account for the events.                                                     *)
EXTENDS Compile, FiniteSetTheorems, SequenceTheorems, TLAPS

Sorts(any, sorted, e) == InsertBy(Earlier, sorted, e)
Builds(context, built, values) == AddBuilt(context, built, values)
Stores(any, events, e) == AddEvent(events, e)
Selects(keys, events, e) == AddOf(keys, events, e)

Considers(field, r, e) == Consider(field, r, e)
Moves(any, life, e) == Transition(life, e)
Places(any, buckets, key) == Place(buckets, key)
Orders(any, sorted, key) == InsertBy(KeyBefore, sorted, key)
Ranks(any, sorted, p) == InsertBy(Worse, sorted, p)
Spells(any, out, c) == AddSymbol(out, c)
Counts(any, n, p) == n + Len(p.events)

Placing == INSTANCE FoldProofs WITH Op <- Sorts
Reading == INSTANCE FoldProofs WITH Op <- Builds
Storing == INSTANCE FoldProofs WITH Op <- Stores
Selecting == INSTANCE FoldProofs WITH Op <- Selects
Considering == INSTANCE FoldProofs WITH Op <- Considers
Moving == INSTANCE FoldProofs WITH Op <- Moves
Bucketing == INSTANCE FoldProofs WITH Op <- Places
Ordering == INSTANCE FoldProofs WITH Op <- Orders
Ranking == INSTANCE FoldProofs WITH Op <- Ranks
Spelling == INSTANCE FoldProofs WITH Op <- Spells
Counting == INSTANCE FoldProofs WITH Op <- Counts

\* out is s with x behind the first m.
Inserted(S, s, x, m, out) ==
    /\ out \in Seq(S) /\ Len(out) = Len(s) + 1
    /\ \A i \in 1..m : out[i] = s[i]
    /\ out[m + 1] = x
    /\ \A i \in (m + 2)..(Len(s) + 1) : out[i] = s[i - 1]

LEMMA InsertsAt ==
    ASSUME NEW S, NEW s \in Seq(S), NEW x \in S, NEW m \in 0..Len(s)
    PROVE  Inserted(S, s, x, m, InsertAt(s, 1 + m, x))
<1>1. Placing!Inserted(S, s, x, m, Placing!Insertion(s, x, m))
  BY Placing!InsertsAt
<1> DEFINE i == 1 + m
<1>2. i - 1 = m /\ i = m + 1
  OBVIOUS
<1>3. InsertAt(s, i, x) = SubSeq(s, 1, i - 1) \o <<x>> \o SubSeq(s, i, Len(s))
  BY Zenon DEF InsertAt
<1> HIDE DEF i
<1>4. InsertAt(s, i, x) = Placing!Insertion(s, x, m)
  BY <1>2, <1>3, Zenon DEF Placing!Insertion
<1>5. Inserted(S, s, x, m, InsertAt(s, i, x))
  BY <1>1, <1>4, Zenon DEF Inserted, Placing!Inserted
<1> QED
  BY <1>5 DEF i

LEMMA InsertedAdds ==
    ASSUME NEW S, NEW s \in Seq(S), NEW x \in S, NEW m \in 0..Len(s),
           NEW out, Inserted(S, s, x, m, out)
    PROVE  ToSet(out) = ToSet(s) \union {x}
<1>1. Placing!Inserted(S, s, x, m, out)
  BY Zenon DEF Inserted, Placing!Inserted
<1>2. Placing!Members(out) = Placing!Members(s) \union {x}
  BY <1>1, Placing!InsertedAdds
<1> QED
  BY <1>2, Zenon DEF ToSet, Placing!Members

\* A part of 1..n is as large as the count says when it has no gap.
LEMMA Prefix ==
    ASSUME NEW n \in Nat, NEW D \in SUBSET (1..n),
           \A i \in D : \A j \in 1..n : j < i => j \in D
    PROVE  Cardinality(D) \in 0..n /\ D = 1..Cardinality(D)
BY Placing!Prefix, Zenon DEF Cardinality, Placing!Cardinality

-----------------------------------------------------------------------------
(* Events and their order.                                                   *)

\* The events there can be.
Events == UNION {EventsRead(s, n) : s \in Sources, n \in Nat}

LEMMA DateIsNumber ==
    ASSUME NEW values,
           \A field \in {"event_date", "auction_date"} \intersect DOMAIN values : values[field] \in Int
    PROVE  PickRole(<<"event_date", "auction_date">>, values, 0) \in Int
<1> DEFINE roles == <<"event_date", "auction_date">>
           has == {i \in DOMAIN roles : roles[i] \in DOMAIN values}
<1>1. roles[1] = "event_date" /\ roles[2] = "auction_date" /\ DOMAIN roles = 1..2
  OBVIOUS
<1>2. PickRole(roles, values, 0) = IF has = {} THEN 0 ELSE values[roles[Min(has)]]
  BY Zenon DEF PickRole
<1>3. has \in SUBSET (1..2) /\ \A i \in has : roles[i] \in {"event_date", "auction_date"} \intersect DOMAIN values
  BY <1>1
<1> HIDE DEF roles, has
<1>4. has # {} => Min(has) \in has
  <2>1. Min(has) = Placing!Min(has)
    BY Zenon DEF Min, Placing!Min
  <2> QED
    BY <1>3, <2>1, Placing!MinOfPart
<1>5. has # {} => values[roles[Min(has)]] \in Int
  BY <1>3, <1>4
<1>6. PickRole(roles, values, 0) \in Int
  BY <1>2, <1>5
<1> QED
  BY <1>6 DEF roles

LEMMA EventFacts ==
    ASSUME NEW e \in Events
    PROVE  /\ e.date \in Int /\ e.recordedAt \in Nat /\ e.asOf \in Nat
           /\ e.id \in EventIds /\ \E s \in Sources : e.source = s.id /\ e.label = s.label
<1>1. PICK s \in Sources, n \in Nat : e \in EventsRead(s, n)
  BY DEF Events
<1>2. PICK batch \in Batches[s] :
         e \in {x \in {BuildEvent(Context(s, batch, n), values) : values \in ToSet(batch.records)} :
                  HasIdentity(x)}
  BY <1>1, Zenon DEF EventsRead
<1>21. PICK values \in ToSet(batch.records) :
         e = BuildEvent(Context(s, batch, n), values) /\ HasIdentity(e)
  BY <1>2, Zenon
<1> DEFINE f == BuildEvent(Context(s, batch, 0), values)
<1>3. /\ e.date = PickRole(<<"event_date", "auction_date">>, values, 0)
      /\ e.recordedAt = n /\ e.asOf = s.asOf /\ e.source = s.id /\ e.label = s.label
      /\ f.id = e.id /\ f.key = e.key
  BY <1>21, Zenon DEF BuildEvent, Context, EventId
<1>4. f \in EventsRead(s, 0)
  <2>1. HasIdentity(f)
    BY <1>21, <1>3, Zenon DEF HasIdentity
  <2>2. f \in {x \in {BuildEvent(Context(s, batch, 0), v) : v \in ToSet(batch.records)} :
                 HasIdentity(x)}
    BY <2>1, Zenon
  <2> HIDE DEF f
  <2> QED
    BY <2>2, Zenon DEF EventsRead
<1>5. f.id \in EventIds
  <2> HIDE DEF f
  <2>1. f.id \in {x.id : x \in EventsRead(s, 0)}
    BY <1>4, Zenon
  <2> QED
    BY <2>1, Zenon DEF EventIds
<1>6. e.date \in Int
  <2>1. \A field \in {"event_date", "auction_date"} \intersect DOMAIN values : values[field] \in Int
    BY BatchesAssumption, Zenon
  <2> QED
    BY <1>3, <2>1, DateIsNumber, Zenon
<1> QED
  BY <1>3, <1>5, <1>6, BatchesAssumption, Zenon

\* Of two events one comes first, unless both have one id and one date.
LEMMA EarlierOrders ==
    ASSUME NEW a \in Events, NEW b \in Events
    PROVE  /\ ~Earlier(a, b) /\ ~Earlier(b, a) => a.id = b.id
           /\ ~(Earlier(a, b) /\ Earlier(b, a))
BY EventFacts, OrderAssumption DEF Earlier

LEMMA EarlierTransitive ==
    ASSUME NEW a \in Events, NEW b \in Events, NEW c \in Events
    PROVE  /\ Earlier(a, b) /\ Earlier(b, c) => Earlier(a, c)
           /\ Earlier(a, b) /\ ~Earlier(c, b) => Earlier(a, c)
<1>1. /\ a.date \in Int /\ b.date \in Int /\ c.date \in Int
      /\ a.recordedAt \in Nat /\ b.recordedAt \in Nat /\ c.recordedAt \in Nat
      /\ a.id \in EventIds /\ b.id \in EventIds /\ c.id \in EventIds
  BY EventFacts
<1> QED
  BY <1>1, OrderAssumption DEF Earlier

-----------------------------------------------------------------------------
(* Sorting by time.                                                          *)

InOrder(s) == \A i, j \in DOMAIN s : i < j => ~Earlier(s[j], s[i])

\* A sequence in order that has the events of a set.
Sorted(s, E) == s \in Seq(Events) /\ InOrder(s) /\ ToSet(s) = E

\* An event put where it belongs leaves a sequence in order.
LEMMA InsertKeepsOrder ==
    ASSUME NEW s, NEW E, Sorted(s, E), NEW e \in Events
    PROVE  Sorted(InsertBy(Earlier, s, e), E \union {e})
<1> USE DEF Sorted
<1> DEFINE D == {i \in DOMAIN s : ~Earlier(e, s[i])}
           m == Cardinality(D)
           out == InsertBy(Earlier, s, e)
<1>1. Len(s) \in Nat /\ DOMAIN s = 1..Len(s) /\ \A i \in 1..Len(s) : s[i] \in Events
  OBVIOUS
<1>2. D \in SUBSET (1..Len(s)) /\ \A i \in D : \A j \in 1..Len(s) : j < i => j \in D
  BY <1>1, EarlierTransitive DEF InOrder
<1>3. m \in 0..Len(s) /\ D = 1..m
  <2> HIDE DEF D
  <2> QED
    BY <1>1, <1>2, Prefix
<1>4. out = InsertAt(s, 1 + m, e)
  BY Zenon DEF InsertBy
<1> HIDE DEF m, out
<1>5. /\ out \in Seq(Events) /\ Len(out) = Len(s) + 1
      /\ \A i \in 1..m : out[i] = s[i]
      /\ out[m + 1] = e
      /\ \A i \in (m + 2)..(Len(s) + 1) : out[i] = s[i - 1]
  <2> HIDE DEF D
  <2>1. Inserted(Events, s, e, m, out)
    BY <1>3, <1>4, InsertsAt, Zenon
  <2> QED
    BY <2>1, Zenon DEF Inserted
<1>6. ASSUME NEW i \in 1..(Len(s) + 1)
      PROVE  \/ i \in 1..m /\ out[i] = s[i]
             \/ i = m + 1 /\ out[i] = e
             \/ i - 1 \in (m + 1)..Len(s) /\ out[i] = s[i - 1]
  BY <1>1, <1>3, <1>5
<1>7. DOMAIN out = 1..(Len(s) + 1)
  BY <1>1, <1>5
<1>8. \A i \in (m + 1)..Len(s) : Earlier(e, s[i])
  BY <1>1, <1>3
<1>9. \A i \in 1..m : ~Earlier(e, s[i])
  BY <1>3
<1> HIDE DEF D
<1>10. ASSUME NEW i \in 1..(Len(s) + 1), NEW j \in 1..(Len(s) + 1), i < j
       PROVE  ~Earlier(out[j], out[i])
  <2>1. CASE i \in 1..m /\ j \in 1..m
    <3>1. i \in DOMAIN s /\ j \in DOMAIN s /\ out[i] = s[i] /\ out[j] = s[j]
      BY <1>1, <1>3, <1>5, <2>1
    <3> QED
      BY <1>10, <3>1 DEF InOrder
  <2>2. CASE i \in 1..m /\ j = m + 1
    BY <1>5, <1>9, <2>2
  <2>3. CASE i \in 1..m /\ j - 1 \in (m + 1)..Len(s)
    <3>1. i \in DOMAIN s /\ j - 1 \in DOMAIN s /\ i < j - 1
      BY <1>1, <1>3, <2>3
    <3>2. out[i] = s[i] /\ out[j] = s[j - 1]
      BY <1>3, <1>5, <2>3
    <3> QED
      BY <3>1, <3>2 DEF InOrder
  <2>4. CASE i = m + 1 /\ j - 1 \in (m + 1)..Len(s)
    <3>1. out[i] = e /\ out[j] = s[j - 1] /\ s[j - 1] \in Events
      BY <1>1, <1>3, <1>5, <2>4
    <3> QED
      BY <1>8, <2>4, <3>1, EarlierOrders
  <2>5. CASE i - 1 \in (m + 1)..Len(s)
    <3>1. j - 1 \in (m + 1)..Len(s) /\ i - 1 < j - 1
      BY <1>1, <1>3, <1>10, <2>5
    <3>2. i - 1 \in DOMAIN s /\ j - 1 \in DOMAIN s
      BY <1>1, <1>3, <2>5, <3>1
    <3>3. out[i] = s[i - 1] /\ out[j] = s[j - 1]
      BY <1>3, <1>5, <2>5, <3>1
    <3> QED
      BY <3>1, <3>2, <3>3 DEF InOrder
  <2> QED
    BY <1>3, <1>10, <2>1, <2>2, <2>3, <2>4, <2>5
<1>11. InOrder(out)
  BY <1>7, <1>10 DEF InOrder
<1>12. ToSet(out) = ToSet(s) \union {e}
  <2>1. Inserted(Events, s, e, m, out)
    BY <1>5, Zenon DEF Inserted
  <2> QED
    BY <1>3, <2>1, InsertedAdds
<1> QED
  BY <1>5, <1>11, <1>12, Zenon DEF out

LEMMA ChronologicalFacts ==
    ASSUME NEW s \in Seq(Events)
    PROVE  Sorted(Chronological(s), ToSet(s))
<1> DEFINE T == {out \in Seq(Events) : Sorted(out, ToSet(out))}
           E(k) == {s[i] : i \in 1..k}
<1>1. Chronological(s) = Placing!Folded({}, <<>>, s)
  BY Zenon DEF Sorts, Chronological, SortBy, FoldLeft, MapThenFoldSet, Max,
     Placing!Folded, Placing!FoldLeft, Placing!MapThenFoldSet, Placing!Max
<1>2. Placing!Keeps({}, T, Events)
  <2>1. ASSUME NEW out \in T, NEW e \in Events
        PROVE  Sorts({}, out, e) \in T
    <3>1. Sorted(InsertBy(Earlier, out, e), ToSet(out) \union {e})
      BY InsertKeepsOrder
    <3> QED
      BY <3>1 DEF Sorted, Sorts
  <2> HIDE DEF T
  <2> QED
    BY <2>1, Zenon DEF Placing!Keeps
<1>3. <<>> \in T
  BY DEF Sorted, InOrder
<1>4. PICK run : Placing!IsRun({}, <<>>, s, run) /\ \A k \in 0..Len(s) : run[k] \in T
  <2> HIDE DEF T
  <2> QED
    BY <1>2, <1>3, Placing!FoldRuns
<1> DEFINE G == {k \in 0..Len(s) : ToSet(run[k]) = E(k)}
<1>5. 0 \in G
  <2>1. run[0] = <<>> /\ ToSet(<<>>) = {} /\ E(0) = {} /\ 0 \in 0..Len(s)
    BY <1>4 DEF Placing!IsRun, ToSet
  <2> QED
    BY <2>1
<1>6. ASSUME NEW k \in 1..Len(s), k - 1 \in G
      PROVE  k \in G
  <2>1. run[k] = InsertBy(Earlier, run[k - 1], s[k])
    BY <1>4, Zenon DEF Placing!IsRun, Sorts
  <2>2. Sorted(run[k - 1], ToSet(run[k - 1])) /\ s[k] \in Events /\ k - 1 \in 0..Len(s)
    BY <1>4
  <2>3. ToSet(run[k]) = ToSet(run[k - 1]) \union {s[k]}
    BY <2>1, <2>2, InsertKeepsOrder DEF Sorted
  <2>4. E(k) = E(k - 1) \union {s[k]}
    OBVIOUS
  <2>5. ToSet(run[k]) = E(k) /\ k \in 0..Len(s)
    <3> HIDE DEF E
    <3> QED
      BY <1>6, <2>3, <2>4
  <2> QED
    BY <2>5
<1>7. Len(s) \in G
  <2> HIDE DEF G
  <2> QED
    BY <1>5, <1>6, Placing!ReachesLast
<1>8. E(Len(s)) = ToSet(s)
  BY DEF ToSet
<1>9. Sorted(run[Len(s)], ToSet(run[Len(s)]))
  BY <1>4
<1> QED
  BY <1>1, <1>4, <1>7, <1>8, <1>9, Zenon DEF Placing!IsRun

-----------------------------------------------------------------------------
(* The stored events.                                                        *)

OneOfAnId(s) == \A i, j \in DOMAIN s : s[i].id = s[j].id => i = j

\* The log is a sequence of events, no two of one id.
LogInv == runs \in Nat /\ log \in Seq(Events) /\ OneOfAnId(log)

LEMMA BuildEventsType ==
    ASSUME NEW s \in Sources, NEW batch \in Batches[s], NEW n \in Nat
    PROVE  BuildEvents(Context(s, batch, n), batch.records) \in Seq(Events)
<1> DEFINE context == Context(s, batch, n)
           R == ToSet(batch.records)
           T == Seq(Events)
<1>1. BuildEvents(context, batch.records) = Reading!Folded(context, <<>>, batch.records)
  <2> HIDE DEF context
  <2> QED
    BY Zenon DEF Builds, BuildEvents, FoldLeft, MapThenFoldSet, Max,
       Reading!Folded, Reading!FoldLeft, Reading!MapThenFoldSet, Reading!Max
<1>2. ASSUME NEW built \in T, NEW values \in R
      PROVE  Builds(context, built, values) \in T
  <2> DEFINE e == BuildEvent(context, values)
  <2>1. ASSUME HasIdentity(e)
        PROVE  e \in Events
    <3>1. e \in {x \in {BuildEvent(context, v) : v \in R} : HasIdentity(x)}
      BY <2>1, Zenon
    <3> HIDE DEF e
    <3>2. e \in EventsRead(s, n)
      BY <3>1, Zenon DEF EventsRead
    <3> QED
      BY <3>2 DEF Events
  <2>2. Builds(context, built, values) = IF HasIdentity(e) THEN Append(built, e) ELSE built
    BY Zenon DEF Builds, AddBuilt
  <2> HIDE DEF e
  <2>3. HasIdentity(e) => Append(built, e) \in T
    BY <2>1
  <2> QED
    BY <2>2, <2>3, Zenon
<1>3. <<>> \in T /\ batch.records \in Seq(R)
  BY BatchesAssumption DEF IsSequence
<1> HIDE DEF T, R, context
<1>4. Reading!Keeps(context, T, R)
  BY <1>2, Zenon DEF Reading!Keeps
<1>5. Reading!Folded(context, <<>>, batch.records) \in T
  BY <1>3, <1>4, Reading!FoldType
<1> QED
  BY <1>1, <1>5, Zenon DEF T, context

LEMMA StoredType ==
    ASSUME LogInv, NEW read \in Seq(Events)
    PROVE  FoldLeft(AddEvent, log, read) \in Seq(Events) /\ OneOfAnId(FoldLeft(AddEvent, log, read))
<1> DEFINE T == {out \in Seq(Events) : OneOfAnId(out)}
<1>1. FoldLeft(AddEvent, log, read) = Storing!Folded({}, log, read)
  BY Zenon DEF Stores, FoldLeft, MapThenFoldSet, Max,
     Storing!Folded, Storing!FoldLeft, Storing!MapThenFoldSet, Storing!Max
<1>2. ASSUME NEW out \in T, NEW e \in Events
      PROVE  Stores({}, out, e) \in T
  <2>1. CASE \E i \in DOMAIN out : out[i].id = e.id
    BY <2>1 DEF Stores, AddEvent
  <2>2. CASE ~(\E i \in DOMAIN out : out[i].id = e.id)
    <3> DEFINE more == Append(out, e)
    <3>1. /\ more \in Seq(Events) /\ DOMAIN more = 1..(Len(out) + 1) /\ DOMAIN out = 1..Len(out)
          /\ more[Len(out) + 1] = e /\ Len(out) \in Nat
          /\ \A i \in 1..Len(out) : more[i] = out[i]
      OBVIOUS
    <3> HIDE DEF more
    <3>2. OneOfAnId(more)
      BY <2>2, <3>1 DEF OneOfAnId
    <3>3. Stores({}, out, e) = more
      BY <2>2, Zenon DEF Stores, AddEvent, more
    <3> QED
      BY <3>1, <3>2, <3>3
  <2> QED
    BY <2>1, <2>2
<1>3. log \in T
  BY DEF LogInv
<1> HIDE DEF T
<1>4. Storing!Keeps({}, T, Events)
  BY <1>2, Zenon DEF Storing!Keeps
<1>5. Storing!Folded({}, log, read) \in T
  BY <1>3, <1>4, Storing!FoldType
<1> QED
  BY <1>1, <1>5, Zenon DEF T

\* The log only ever grows by events that were read and not stored before.
THEOREM LogAlways == Spec => []LogInv
<1>1. Init => LogInv
  BY DEF Init, LogInv, OneOfAnId
<1>2. LogInv /\ [Next]_vars => LogInv'
  <2> SUFFICES ASSUME LogInv, [Next]_vars
               PROVE  LogInv'
    OBVIOUS
  <2>1. ASSUME NEW s \in Sources, Run(s)
        PROVE  LogInv'
    <3>1. PICK batch \in Batches[s] :
             /\ runs' = runs + 1
             /\ log' = FoldLeft(AddEvent, log, BuildEvents(Context(s, batch, runs + 1), batch.records))
      BY <2>1, Zenon DEF Run
    <3>2. runs + 1 \in Nat
      BY DEF LogInv
    <3>3. log' \in Seq(Events) /\ OneOfAnId(log')
      BY <3>1, <3>2, BuildEventsType, StoredType, Zenon
    <3> QED
      BY <3>1, <3>2, <3>3, Zenon DEF LogInv, OneOfAnId
  <2>2. CASE UNCHANGED vars
    BY <2>2, Zenon DEF LogInv, OneOfAnId, vars
  <2> QED
    BY <2>1, <2>2, Zenon DEF Next
<1> QED
  BY <1>1, <1>2, PTL DEF Spec

LEMMA EventsOfType ==
    ASSUME LogInv, NEW keys
    PROVE  EventsOf(keys) \in Seq(ToSet(log))
<1> DEFINE S == ToSet(log)
           T == Seq(S)
<1>1. EventsOf(keys) = Selecting!Folded(keys, <<>>, log)
  BY Zenon DEF Selects, EventsOf, FoldLeft, MapThenFoldSet, Max,
     Selecting!Folded, Selecting!FoldLeft, Selecting!MapThenFoldSet, Selecting!Max
<1>2. ASSUME NEW events \in T, NEW e \in S
      PROVE  Selects(keys, events, e) \in T
  <2> HIDE DEF S
  <2> QED
    BY DEF Selects, AddOf
<1>3. <<>> \in T /\ log \in Seq(S)
  BY DEF LogInv, ToSet
<1> HIDE DEF T, S
<1>4. Selecting!Keeps(keys, T, S)
  BY <1>2, Zenon DEF Selecting!Keeps
<1>5. Selecting!Folded(keys, <<>>, log) \in T
  BY <1>3, <1>4, Selecting!FoldType
<1> QED
  BY <1>1, <1>5, Zenon DEF T, S

\* What a property is compiled from: events of the log, by their dates.
LEMMA EventsInFacts ==
    ASSUME LogInv, NEW keys
    PROVE  /\ Sorted(EventsIn(keys), ToSet(EventsOf(keys)))
           /\ ToSet(EventsIn(keys)) \subseteq ToSet(log)
           /\ EventsIn(keys) \in Seq(Events)
<1>1. EventsOf(keys) \in Seq(ToSet(log)) /\ ToSet(log) \subseteq Events
  BY EventsOfType DEF LogInv, ToSet
<1> DEFINE events == EventsOf(keys)
<1> HIDE DEF events
<1>2. events \in Seq(Events) /\ ToSet(events) \subseteq ToSet(log)
  <2>1. ASSUME NEW S, NEW U, S \subseteq U, events \in Seq(S)
        PROVE  events \in Seq(U) /\ ToSet(events) \subseteq S
    BY <2>1 DEF ToSet
  <2> QED
    BY <1>1, <2>1, Zenon DEF events
<1>3. EventsIn(keys) = Chronological(events)
  BY Zenon DEF EventsIn, events
<1> QED
  BY <1>2, <1>3, ChronologicalFacts, Zenon DEF Sorted, events

-----------------------------------------------------------------------------
(* Weighing claims.                                                          *)

\* The claims there can be about a field.
Claimable(field) == {Claim(e, field) : e \in {e \in Events : field \in DOMAIN e.details}}

Observations(field) ==
    {[asOf |-> c.asOf, value |-> c.value, source |-> c.source] : c \in Claimable(field)}

Weighings(field) ==
    [best : {<<>>} \union {<<c>> : c \in Claimable(field)},
     seen : Seq(Observations(field)),
     conflicts : Seq([kept : Claimable(field), dropped : Claimable(field)])]

Fresh == [best |-> <<>>, seen |-> <<>>, conflicts |-> <<>>]

\* Where the field's authority made a claim the best is its own, and if the claims
\* that count are dated it is of the newest.
Prefers(field, best, claims) ==
    /\ (\E c \in claims : Authority[field] # "" /\ c.label = Authority[field])
          => best[1].label = Authority[field]
    /\ NewestOf(Rivals(claims, field), best)

\* The best of some claims is one of them and the rest are on record.
Weighs(field, r, claims) ==
    /\ r \in Weighings(field) /\ claims \subseteq Claimable(field)
    /\ r.best = <<>> => claims = {}
    /\ r.best # <<>> => r.best[1] \in claims
    /\ \A c \in claims : Kept(r, field, c)
    /\ Prefers(field, r.best, claims)

LEMMA SameValueIsOne ==
    ASSUME NEW field, NEW a, NEW b, NEW c
    PROVE  /\ SameValue(field, a, a)
           /\ SameValue(field, a, b) => SameValue(field, b, a)
           /\ SameValue(field, a, b) /\ SameValue(field, b, c) => SameValue(field, a, c)
BY Zenon DEF SameValue

LEMMA ClaimType ==
    ASSUME NEW field, NEW c \in Claimable(field)
    PROVE  c.asOf \in Nat
<1>1. PICK e \in Events : c = Claim(e, field)
  BY DEF Claimable
<1>2. c.asOf = e.asOf
  BY <1>1 DEF Claim
<1> QED
  BY <1>2, EventFacts

LEMMA WeighType ==
    ASSUME NEW field, NEW r \in Weighings(field), NEW c \in Claimable(field)
    PROVE  Weigh(field, r, c) \in Weighings(field)
<1> DEFINE C == Claimable(field)
           O == Observations(field)
           K == [kept : C, dropped : C]
<1>1. r.best = <<>> \/ \E b \in C : r.best = <<b>>
  BY DEF Weighings
<1>2. r.seen \in Seq(O) /\ r.conflicts \in Seq(K)
  BY DEF Weighings
<1>3. AddObservation(r.seen, c) \in Seq(O)
  <2>1. [asOf |-> c.asOf, value |-> c.value, source |-> c.source] \in O
    BY Zenon DEF Observations
  <2> HIDE DEF O
  <2> QED
    BY <1>2, <2>1 DEF AddObservation
<1>4. r.best # <<>> => r.best[1] \in C
  BY <1>1
<1> DEFINE w == Weigh(field, r, c)
<1>5. /\ w = [best |-> w.best, seen |-> w.seen, conflicts |-> w.conflicts]
      /\ w.best \in {r.best, <<c>>} /\ w.seen = AddObservation(r.seen, c)
      /\ \/ w.conflicts = r.conflicts
         \/ r.best # <<>> /\ w.conflicts = Append(r.conflicts, [kept |-> c, dropped |-> r.best[1]])
         \/ r.best # <<>> /\ w.conflicts = Append(r.conflicts, [kept |-> r.best[1], dropped |-> c])
  BY Zenon DEF Weigh
<1> HIDE DEF w
<1>6. w.conflicts \in Seq(K)
  <2>1. r.best # <<>> => /\ [kept |-> c, dropped |-> r.best[1]] \in K
                         /\ [kept |-> r.best[1], dropped |-> c] \in K
    BY <1>4
  <2> DEFINE x == [kept |-> c, dropped |-> r.best[1]]
             y == [kept |-> r.best[1], dropped |-> c]
  <2>2. w.conflicts = r.conflicts \/ (r.best # <<>> /\ w.conflicts \in {Append(r.conflicts, x), Append(r.conflicts, y)})
    BY <1>5, Zenon
  <2> HIDE DEF K, x, y, w
  <2>3. \A z \in K : Append(r.conflicts, z) \in Seq(K)
    BY <1>2
  <2> QED
    BY <1>2, <2>1, <2>2, <2>3, Zenon DEF x, y
<1>7. w.best \in {<<>>} \union {<<x>> : x \in C}
  BY <1>1, <1>5
<1>8. w.seen \in Seq(O)
  BY <1>3, <1>5
<1>9. w \in [best : {<<>>} \union {<<x>> : x \in C}, seen : Seq(O), conflicts : Seq(K)]
  <2> HIDE DEF C, O, K
  <2> QED
    BY <1>5, <1>6, <1>7, <1>8
<1> QED
  BY <1>9, Zenon DEF w, Weighings

\* Weighing one more claim loses none: the one that does not win is of the value
\* that does, or dropped on record.
LEMMA WeighKeeps ==
    ASSUME NEW field, NEW r, NEW claims, Weighs(field, r, claims), NEW c \in Claimable(field),
           NEW d \in claims \union {c}
    PROVE  Kept(Weigh(field, r, c), field, d)
<1> DEFINE w == Weigh(field, r, c)
           K == [kept : Claimable(field), dropped : Claimable(field)]
           wins == r.best = <<>> \/ Wins(field, c, r.best[1])
           differs == r.best # <<>> /\ ~SameValue(field, c.value, r.best[1].value)
           loss == IF wins THEN [kept |-> c, dropped |-> r.best[1]]
                   ELSE [kept |-> r.best[1], dropped |-> c]
<1>1. /\ w.best = IF wins THEN <<c>> ELSE r.best
      /\ w.conflicts = IF ~differs THEN r.conflicts ELSE Append(r.conflicts, loss)
  BY Zenon DEF Weigh
<1>2. r.conflicts \in Seq(K) /\ r.best \in {<<>>} \union {<<x>> : x \in Claimable(field)}
  BY DEF Weighs, Weighings
<1>3. loss.dropped = IF wins THEN r.best[1] ELSE c
  OBVIOUS
<1> HIDE DEF w, K, loss
<1>4. \A i \in DOMAIN r.conflicts : i \in DOMAIN w.conflicts /\ w.conflicts[i] = r.conflicts[i]
  BY <1>1, <1>2
<1>5. differs => \E i \in DOMAIN w.conflicts : w.conflicts[i].dropped = loss.dropped
  <2> SUFFICES ASSUME differs
               PROVE  \E i \in DOMAIN w.conflicts : w.conflicts[i].dropped = loss.dropped
    OBVIOUS
  <2>1. w.conflicts = Append(r.conflicts, loss)
    BY <1>1, Zenon
  <2>2. Len(r.conflicts) + 1 \in DOMAIN w.conflicts /\ w.conflicts[Len(r.conflicts) + 1] = loss
    BY <1>2, <2>1
  <2> QED
    BY <2>2, Zenon
<1>6. d \in claims => r.best # <<>> /\ Kept(r, field, d)
  BY DEF Weighs
<1>7. CASE wins
  <2>1. w.best[1] = c
    BY <1>1, <1>7
  <2>2. CASE d = c
    BY <2>1, <2>2, SameValueIsOne, Zenon DEF Kept, w
  <2>3. CASE d \in claims /\ SameValue(field, d.value, r.best[1].value)
    <3>1. CASE differs
      <4>1. \E i \in DOMAIN w.conflicts : w.conflicts[i].dropped = r.best[1]
        BY <1>3, <1>5, <1>7, <3>1, Zenon
      <4> QED
        BY <2>3, <4>1, SameValueIsOne, Zenon DEF Kept, w
    <3>2. CASE ~differs
      <4>1. SameValue(field, c.value, r.best[1].value)
        BY <1>6, <2>3, <3>2, Zenon
      <4>2. SameValue(field, d.value, c.value)
        BY <2>3, <4>1, SameValueIsOne, Zenon
      <4> QED
        BY <2>1, <4>2, Zenon DEF Kept, w
    <3> QED
      BY <3>1, <3>2
  <2>4. CASE d \in claims /\ ~SameValue(field, d.value, r.best[1].value)
    <3>1. PICK i \in DOMAIN r.conflicts : SameValue(field, r.conflicts[i].dropped.value, d.value)
      BY <1>6, <2>4, Zenon DEF Kept
    <3> QED
      BY <1>4, <3>1, Zenon DEF Kept, w
  <2> QED
    BY <2>2, <2>3, <2>4
<1>8. CASE ~wins
  <2>1. w.best = r.best /\ r.best # <<>>
    BY <1>1, <1>8
  <2>2. CASE d = c
    <3>1. CASE differs
      <4>1. \E i \in DOMAIN w.conflicts : w.conflicts[i].dropped = c
        BY <1>3, <1>5, <1>8, <3>1, Zenon
      <4> QED
        BY <2>2, <4>1, SameValueIsOne, Zenon DEF Kept, w
    <3>2. CASE ~differs
      BY <2>1, <2>2, <3>2, Zenon DEF Kept, w
    <3> QED
      BY <3>1, <3>2
  <2>3. CASE d \in claims
    <3>1. Kept(r, field, d)
      BY <1>6, <2>3
    <3> QED
      BY <1>4, <2>1, <3>1, Zenon DEF Kept, w
  <2> QED
    BY <2>2, <2>3
<1> QED
  BY <1>7, <1>8

\* The better of the best claim so far and another is the best of them all.
LEMMA WeighPrefers ==
    ASSUME NEW field, NEW r, NEW claims, Weighs(field, r, claims), NEW c \in Claimable(field)
    PROVE  Prefers(field, Weigh(field, r, c).best, claims \union {c})
<1> DEFINE best == Weigh(field, r, c).best
           b == r.best[1]
           authority == Authority[field]
           all == claims \union {c}
           Own(S) == {x \in S : authority # "" /\ x.label = authority}
           wins == r.best = <<>> \/ Wins(field, c, b)
<1>1. best = IF wins THEN <<c>> ELSE r.best
  BY Zenon DEF Weigh
<1>2. /\ r.best = <<>> => claims = {}
      /\ r.best # <<>> => b \in claims
      /\ Own(claims) # {} => b.label = authority
      /\ NewestOf(Rivals(claims, field), r.best)
  <2>1. Prefers(field, r.best, claims) /\ (r.best = <<>> => claims = {}) /\ (r.best # <<>> => b \in claims)
    BY Zenon DEF Weighs
  <2>2. ASSUME NEW x \in Own(claims)
        PROVE  b.label = authority
    BY <2>1, <2>2 DEF Prefers
  <2> QED
    BY <2>1, <2>2, Zenon DEF Prefers
<1>3. claims \subseteq Claimable(field) /\ \A x \in all : x.asOf \in Nat
  BY ClaimType DEF Weighs
<1>4. \A S : Rivals(S, field) = IF Own(S) = {} THEN S ELSE Own(S)
  BY Zenon DEF Rivals
<1>7. /\ Own(all) = Own(claims) \union Own({c})
      /\ Own({c}) = IF authority # "" /\ c.label = authority THEN {c} ELSE {}
      /\ Own(claims) \subseteq claims /\ (authority = "" => Own(claims) = {})
      /\ \A S : (\E x \in S : authority # "" /\ x.label = authority) <=> Own(S) # {}
  OBVIOUS
<1>8. \A x \in Own(all) : x.label = authority
  OBVIOUS
<1>9. b \in claims /\ authority # "" /\ b.label = authority => b \in Own(claims)
  OBVIOUS
<1> HIDE DEF best, Own, b
<1>5. CASE r.best = <<>>
  <2>1. all = {c} /\ best = <<c>> /\ best[1] = c
    BY <1>1, <1>2, <1>5
  <2>2. Rivals(all, field) = {c}
    BY <1>4, <1>7, <2>1, Zenon
  <2> QED
    <3>1. NewestOf({c}, best)
      BY <1>3, <2>1 DEF NewestOf
    <3>2. Own(all) # {} => best[1].label = authority
      BY <1>7, <2>1, Zenon
    <3> QED
      BY <1>7, <2>2, <3>1, <3>2, Zenon DEF Prefers, best
<1>6. CASE r.best # <<>>
  <2>1. b \in claims /\ best = IF Wins(field, c, b) THEN <<c>> ELSE r.best
    BY <1>1, <1>2, <1>6, Zenon
  <2>2. best[1] = IF Wins(field, c, b) THEN c ELSE b
    BY <2>1 DEF b
  <2>3. CASE authority # "" /\ c.label = authority /\ b.label # authority
    <3>1. Wins(field, c, b)
      BY <2>3 DEF Wins
    <3>2. Own(claims) = {} /\ Own(all) = {c}
      BY <1>2, <1>7, <2>3
    <3>3. Rivals(all, field) = {c} /\ best[1] = c
      BY <1>4, <2>2, <3>1, <3>2
    <3>4. NewestOf({c}, best)
      BY <1>3, <3>3 DEF NewestOf
    <3> QED
      BY <2>3, <3>3, <3>4, Zenon DEF Prefers, best
  <2>4. CASE authority # "" /\ c.label # authority /\ b.label = authority
    <3>1. ~Wins(field, c, b)
      BY <2>4 DEF Wins
    <3>2. Own(claims) # {} /\ Own(all) = Own(claims)
      BY <1>7, <1>9, <2>1, <2>4
    <3>3. Rivals(all, field) = Rivals(claims, field) /\ best[1] = b
      BY <1>4, <2>2, <3>1, <3>2
    <3> QED
      BY <1>2, <1>6, <2>1, <2>2, <2>4, <3>1, <3>3, Zenon DEF Prefers, best, NewestOf
  <2>5. CASE authority = "" \/ (c.label = authority <=> b.label = authority)
    <3>1. Rivals(all, field) = Rivals(claims, field) \union {c}
      <4>1. CASE authority # "" /\ c.label = authority
        <5>1. Own(claims) # {} /\ Own(all) = Own(claims) \union {c}
          BY <1>7, <1>9, <2>1, <2>5, <4>1
        <5> QED
          BY <1>4, <5>1
      <4>2. CASE ~(authority # "" /\ c.label = authority)
        <5>1. Own(claims) = {} /\ Own(all) = {}
          BY <1>2, <1>7, <2>5, <4>2
        <5> QED
          BY <1>4, <5>1
      <4> QED
        BY <4>1, <4>2
    <3>2. b.asOf # 0 /\ c.asOf # 0 =>
             /\ Wins(field, c, b) => c.asOf >= b.asOf
             /\ ~Wins(field, c, b) => b.asOf >= c.asOf
      <4>1. b.asOf \in Nat /\ c.asOf \in Nat
        BY <1>3, <2>1
      <4>2. c.asOf # 0 /\ b.asOf # 0 /\ c.asOf # b.asOf => (Wins(field, c, b) <=> c.asOf > b.asOf)
        BY <2>5, Zenon DEF Wins
      <4> QED
        BY <4>1, <4>2
    <3>3. NewestOf(Rivals(all, field), best)
      <4> SUFFICES ASSUME \A x \in Rivals(all, field) : x.asOf # 0,
                          NEW x \in Rivals(all, field)
                   PROVE  x.asOf <= best[1].asOf /\ best[1] \in Rivals(all, field)
        BY DEF NewestOf
      <4>1. \A y \in Rivals(claims, field) : y.asOf # 0
        BY <3>1
      <4>2. Rivals(claims, field) # {}
        BY <1>4, <2>1, Zenon
      <4>3. b \in Rivals(claims, field) /\ \A y \in Rivals(claims, field) : y.asOf <= b.asOf
        BY <1>2, <4>1, <4>2, Zenon DEF NewestOf, b
      <4>4. Rivals(claims, field) \subseteq claims
        BY <1>4, <1>7, Zenon
      <4>5. b.asOf # 0 /\ c.asOf # 0 /\ b.asOf \in Nat /\ c.asOf \in Nat /\ x.asOf \in Nat
        BY <1>3, <2>1, <3>1, <4>1, <4>3, <4>4
      <4>6. best[1] \in {b, c} /\ b.asOf <= best[1].asOf /\ c.asOf <= best[1].asOf
        BY <2>2, <3>2, <4>5
      <4>7. x = c \/ x.asOf <= b.asOf
        BY <3>1, <4>3
      <4>8. x.asOf <= best[1].asOf
        BY <4>5, <4>6, <4>7
      <4> QED
        BY <3>1, <4>3, <4>6, <4>8
    <3>4. (\E x \in all : authority # "" /\ x.label = authority) => best[1].label = authority
      <4> SUFFICES ASSUME Own(all) # {}
                   PROVE  best[1].label = authority
        BY <1>7, Zenon
      <4>1. CASE Own(claims) # {}
        BY <1>2, <1>7, <2>2, <2>5, <4>1
      <4>2. CASE Own(claims) = {}
        BY <1>7, <1>9, <2>1, <2>2, <2>5, <4>2
      <4> QED
        BY <4>1, <4>2
    <3> QED
      BY <3>3, <3>4, Zenon DEF Prefers, best
  <2> QED
    BY <2>3, <2>4, <2>5
<1> QED
  BY <1>5, <1>6

LEMMA WeighsOn ==
    ASSUME NEW field, NEW r, NEW claims, Weighs(field, r, claims), NEW c \in Claimable(field)
    PROVE  Weighs(field, Weigh(field, r, c), claims \union {c})
<1> DEFINE w == Weigh(field, r, c)
<1>1. w \in Weighings(field)
  BY WeighType, Zenon DEF Weighs
<1>2. Prefers(field, w.best, claims \union {c}) /\ \A d \in claims \union {c} : Kept(w, field, d)
  BY WeighKeeps, WeighPrefers, Zenon
<1>3. w.best = IF r.best = <<>> \/ Wins(field, c, r.best[1]) THEN <<c>> ELSE r.best
  BY Zenon DEF Weigh
<1>4. claims \subseteq Claimable(field) /\ (r.best # <<>> => r.best[1] \in claims)
  BY Zenon DEF Weighs
<1> HIDE DEF w
<1>5. w.best # <<>> /\ w.best[1] \in claims \union {c}
  BY <1>3, <1>4
<1> QED
  BY <1>1, <1>2, <1>4, <1>5, Zenon DEF Weighs, w

\* A field's value and its conflicts account for what the property's events claim.
LEMMA ResolveWeighs ==
    ASSUME LogInv, NEW group, NEW field
    PROVE  \E r : /\ Weighs(field, r, Claims(group, field))
                  /\ Resolve(group, field) = [r EXCEPT !.seen = NewestFirst(@)]
<1> DEFINE s == EventsIn(group)
           T == {r \in Weighings(field) : TRUE}
           Read(k) == {s[i] : i \in 1..k}
           E(k) == {Claim(e, field) : e \in {e \in Read(k) : field \in DOMAIN e.details}}
           folded == FoldLeft(LAMBDA weighed, e : Consider(field, weighed, e), Fresh, s)
<1>1. folded = Considering!Folded(field, Fresh, s)
  <2> HIDE DEF s
  <2> QED
    BY Zenon DEF Considers, FoldLeft, MapThenFoldSet, Max,
       Considering!Folded, Considering!FoldLeft, Considering!MapThenFoldSet, Considering!Max
<1>2. Resolve(group, field) = [folded EXCEPT !.seen = NewestFirst(@)]
  BY Zenon DEF Resolve, Fresh
<1> HIDE DEF folded
<1>3. s \in Seq(Events)
  BY EventsInFacts
<1>4. ASSUME NEW e \in Events, field \in DOMAIN e.details
      PROVE  Claim(e, field) \in Claimable(field)
  BY <1>4, Zenon DEF Claimable
<1>5. Considering!Keeps(field, T, Events)
  <2>1. ASSUME NEW r \in T, NEW e \in Events
        PROVE  Considers(field, r, e) \in T
    BY <1>4, WeighType, Zenon DEF Considers, Consider
  <2> HIDE DEF T
  <2> QED
    BY <2>1, Zenon DEF Considering!Keeps
<1>6. Fresh \in T
  BY DEF Fresh, Weighings
<1>7. PICK run : /\ Considering!IsRun(field, Fresh, s, run)
                 /\ \A k \in 0..Len(s) : run[k] \in T
  <2> HIDE DEF T, s
  <2> QED
    BY <1>3, <1>5, <1>6, Considering!FoldRuns
<1> DEFINE G == {k \in 0..Len(s) : Weighs(field, run[k], E(k))}
<1>8. 0 \in G
  <2>1. run[0] = Fresh /\ E(0) = {} /\ 0 \in 0..Len(s)
    <3> HIDE DEF s
    <3> QED
      BY <1>3, <1>7 DEF Considering!IsRun
  <2>2. NewestOf(Rivals({}, field), <<>>)
    BY DEF NewestOf, Rivals
  <2>3. Weighs(field, Fresh, {})
    BY <1>6, <2>2 DEF Weighs, Prefers, Fresh
  <2> QED
    BY <2>1, <2>3
<1>9. ASSUME NEW k \in 1..Len(s), k - 1 \in G
      PROVE  k \in G
  <2>1. run[k] = Consider(field, run[k - 1], s[k])
    BY <1>7, Zenon DEF Considering!IsRun, Considers
  <2>2. Weighs(field, run[k - 1], E(k - 1)) /\ s[k] \in Events /\ k \in 0..Len(s)
    BY <1>3, <1>9
  <2>3. Read(k) = Read(k - 1) \union {s[k]}
    OBVIOUS
  <2> HIDE DEF s, Read
  <2>4. CASE field \in DOMAIN s[k].details
    <3>1. E(k) = E(k - 1) \union {Claim(s[k], field)}
      BY <2>3, <2>4
    <3>2. Weighs(field, run[k], E(k - 1) \union {Claim(s[k], field)})
      <4>1. run[k] = Weigh(field, run[k - 1], Claim(s[k], field))
        BY <2>1, <2>4, Zenon DEF Consider
      <4>2. Claim(s[k], field) \in Claimable(field)
        BY <1>4, <2>2, <2>4
      <4>3. Weighs(field, run[k - 1], E(k - 1))
        BY <2>2
      <4> HIDE DEF E
      <4> DEFINE before == run[k - 1]
                 claims == E(k - 1)
                 c == Claim(s[k], field)
      <4>4. run[k] = Weigh(field, before, c) /\ c \in Claimable(field) /\ Weighs(field, before, claims)
        BY <4>1, <4>2, <4>3, Zenon
      <4> HIDE DEF before, claims, c
      <4>5. Weighs(field, run[k], claims \union {c})
        BY <4>4, WeighsOn
      <4> QED
        BY <4>5, Zenon DEF claims, c
    <3> HIDE DEF E
    <3> QED
      BY <2>2, <3>1, <3>2
  <2>5. CASE field \notin DOMAIN s[k].details
    <3>1. E(k) = E(k - 1)
      BY <2>3, <2>5
    <3>2. run[k] = run[k - 1]
      BY <2>1, <2>5, Zenon DEF Consider
    <3> HIDE DEF E
    <3> QED
      BY <2>2, <3>1, <3>2
  <2> QED
    BY <2>4, <2>5
<1>10. Len(s) \in G
  <2> HIDE DEF G
  <2>1. Len(s) \in Nat
    BY <1>3
  <2> QED
    BY <1>8, <1>9, <2>1, Considering!ReachesLast
<1>11. E(Len(s)) = Claims(group, field)
  <2>1. Read(Len(s)) = ToSet(s)
    BY <1>3 DEF ToSet
  <2> HIDE DEF Read, s
  <2> QED
    BY <2>1, Zenon DEF Claims, s
<1>12. Weighs(field, folded, Claims(group, field))
  <2> HIDE DEF E, s
  <2> QED
    BY <1>1, <1>7, <1>10, <1>11, Zenon DEF Considering!IsRun
<1> QED
  BY <1>2, <1>12, Zenon

-----------------------------------------------------------------------------
(* What a report's fields show.                                              *)

\* A value that another source's won over is on record as dropped, or is the same:
\* whatever the sources say, in whatever order they are run (compile.cpp 38-114).
THEOREM ConflictsKept == Spec => []NoSilentLoss
<1>1. LogInv => NoSilentLoss
  <2> SUFFICES ASSUME LogInv, NEW group \in Groups, NEW field \in ToSet(Fields),
                      NEW c \in Claims(group, field)
               PROVE  Kept(Resolve(group, field), field, c)
    BY Zenon DEF NoSilentLoss
  <2>1. PICK r : /\ Weighs(field, r, Claims(group, field))
                 /\ Resolve(group, field) = [r EXCEPT !.seen = NewestFirst(@)]
    BY ResolveWeighs
  <2>2. r \in Weighings(field) /\ Kept(r, field, c)
    BY <2>1, Zenon DEF Weighs
  <2> DEFINE w == Resolve(group, field)
  <2>3. w.best = r.best /\ w.conflicts = r.conflicts
    <3> HIDE DEF w
    <3>1. w = [r EXCEPT !.seen = NewestFirst(@)]
      BY <2>1 DEF w
    <3> QED
      BY <2>2, <3>1 DEF Weighings
  <2> QED
    BY <2>2, <2>3, Zenon DEF Kept
<1> QED
  BY <1>1, LogAlways, PTL

\* Among sources that name their edition a field has a value of the newest, and its
\* authority's where it has one that made a claim (compile.cpp 62-78).
THEOREM NewestWins == Spec => []NewestOfDated
<1>1. LogInv => NewestOfDated
  <2> SUFFICES ASSUME LogInv, NEW group \in Groups, NEW field \in ToSet(Fields)
               PROVE  NewestOf(Rivals(Claims(group, field), field), Resolve(group, field).best)
    BY Zenon DEF NewestOfDated
  <2>1. PICK r : /\ Weighs(field, r, Claims(group, field))
                 /\ Resolve(group, field) = [r EXCEPT !.seen = NewestFirst(@)]
    BY ResolveWeighs
  <2>2. r \in Weighings(field) /\ NewestOf(Rivals(Claims(group, field), field), r.best)
    BY <2>1, Zenon DEF Weighs, Prefers
  <2> DEFINE w == Resolve(group, field)
  <2>3. w.best = r.best
    <3> HIDE DEF w
    <3>1. w = [r EXCEPT !.seen = NewestFirst(@)]
      BY <2>1 DEF w
    <3> QED
      BY <2>2, <3>1 DEF Weighings
  <2> QED
    BY <2>2, <2>3, Zenon
<1> QED
  BY <1>1, LogAlways, PTL

-----------------------------------------------------------------------------
(* States.                                                                   *)

StateNames == {"NORMAL", "TAX_DELINQUENT", "FORECLOSURE_FILED", "AUCTION_SCHEDULED",
               "SOLD_AT_AUCTION"}

LEMMA RankIsNumber ==
    ASSUME NEW state \in StateNames
    PROVE  StateRank(state) \in Nat
<1>1. \E i \in DOMAIN States : States[i] = state
  <2>1. /\ States[1] = "NORMAL" /\ States[2] = "TAX_DELINQUENT" /\ States[3] = "FORECLOSURE_FILED"
        /\ States[4] = "AUCTION_SCHEDULED" /\ States[5] = "SOLD_AT_AUCTION" /\ DOMAIN States = 1..5
    BY DEF States
  <2> QED
    BY <2>1 DEF StateNames
<1>2. DOMAIN States \subseteq Nat
  BY DEF States
<1> QED
  BY <1>1, <1>2, Zenon DEF StateRank

LEMMA ProposedType ==
    ASSUME NEW kind
    PROVE  Proposed(kind) \in StateNames /\ (kind = "deed_transfer" => Proposed(kind) = "NORMAL")
BY DEF Proposed, StateNames

\* A state and how it was reached.
Lives(ids) == [state : StateNames, transitions : Seq([state : StateNames, event : ids])]

\* Where the events of a set lead from the last deed on, in the order they are folded.
LeadsInOrder(events) ==
    LET since == {e \in events : \A d \in events : d.kind = "deed_transfer" => ~Earlier(e, d)} IN
    {Proposed(e.kind) : e \in since} \union {"NORMAL"}

\* The state is the farthest of these, and only a deed leads back.
FollowsOrder(life, events) ==
    /\ life.state \in LeadsInOrder(events)
    /\ \A s \in LeadsInOrder(events) : StateRank(s) <= StateRank(life.state)
    /\ \A i \in 1..(Len(life.transitions) - 1) :
          LET t == life.transitions[i] u == life.transitions[i + 1] IN
          u.state = "NORMAL" \/ StateRank(u.state) > StateRank(t.state)

\* What some events make of a property, and that its last transition led there.
Lived(life, events) ==
    /\ FollowsOrder(life, events)
    /\ life.transitions # <<>> => life.transitions[Len(life.transitions)].state = life.state

LEMMA MoveType ==
    ASSUME NEW ids, NEW life \in Lives(ids), NEW e, e.id \in ids
    PROVE  Transition(life, e) \in Lives(ids)
<1> DEFINE t == [state |-> Proposed(e.kind), event |-> e.id]
           R == [state : StateNames, event : ids]
<1>1. t \in R /\ Proposed(e.kind) \in StateNames
  BY ProposedType
<1>2. life.transitions \in Seq(R) /\ life.state \in StateNames
  BY DEF Lives
<1>3. Transition(life, e) = life
      \/ Transition(life, e) = [state |-> Proposed(e.kind), transitions |-> Append(life.transitions, t)]
  BY Zenon DEF Transition
<1> HIDE DEF R, t
<1>4. Append(life.transitions, t) \in Seq(R)
  BY <1>1, <1>2
<1>5. [state |-> Proposed(e.kind), transitions |-> Append(life.transitions, t)]
         \in [state : StateNames, transitions : Seq(R)]
  BY <1>1, <1>4
<1> QED
  BY <1>3, <1>5, Zenon DEF Lives, R

\* A deed sends all that came before it out of sight; another event adds where it leads.
LEMMA LeadsOn ==
    ASSUME NEW events \in SUBSET Events, NEW e \in Events,
           \A x \in events : ~Earlier(e, x) /\ (x.id = e.id => x = e)
    PROVE  LeadsInOrder(events \union {e}) =
             IF e.kind = "deed_transfer" THEN {"NORMAL"}
             ELSE LeadsInOrder(events) \union {Proposed(e.kind)}
<1> DEFINE Since(E) == {x \in E : \A d \in E : d.kind = "deed_transfer" => ~Earlier(x, d)}
<1>1. \A E : LeadsInOrder(E) = {Proposed(x.kind) : x \in Since(E)} \union {"NORMAL"}
  BY Zenon DEF LeadsInOrder
<1>2. ~Earlier(e, e)
  BY EarlierOrders
<1>3. CASE e.kind = "deed_transfer"
  <2>1. ASSUME NEW x \in Since(events \union {e})
        PROVE  x = e
    <3>1. x \in events \union {e} /\ ~Earlier(x, e)
      BY <1>3
    <3>2. CASE x \in events
      <4>1. ~Earlier(e, x) /\ x \in Events
        BY <3>2
      <4>2. x.id = e.id
        BY <3>1, <4>1, EarlierOrders
      <4> QED
        BY <3>2, <4>2
    <3> QED
      BY <3>1, <3>2
  <2>2. {Proposed(x.kind) : x \in Since(events \union {e})} \subseteq {"NORMAL"}
    <3> HIDE DEF Since
    <3> QED
      BY <1>3, <2>1, ProposedType
  <2> HIDE DEF Since
  <2> QED
    BY <1>1, <1>3, <2>2
<1>4. CASE e.kind # "deed_transfer"
  <2>1. Since(events \union {e}) = Since(events) \union {e}
    BY <1>4
  <2> HIDE DEF Since
  <2>2. LeadsInOrder(events \union {e}) = {Proposed(x.kind) : x \in Since(events) \union {e}} \union {"NORMAL"}
    BY <1>1, <2>1, Zenon
  <2> QED
    BY <1>1, <1>4, <2>2
<1> QED
  BY <1>3, <1>4

LEMMA MoveFollows ==
    ASSUME NEW ids, NEW life \in Lives(ids), NEW events \in SUBSET Events, Lived(life, events),
           NEW e \in Events,
           \A x \in events : ~Earlier(e, x) /\ (x.id = e.id => x = e)
    PROVE  Lived(Transition(life, e), events \union {e})
<1> DEFINE next == Transition(life, e)
           proposed == Proposed(e.kind)
           deed == e.kind = "deed_transfer"
           n == Len(life.transitions)
           t == [state |-> proposed, event |-> e.id]
           all == events \union {e}
<1>1. life.state \in StateNames /\ proposed \in StateNames /\ (deed => proposed = "NORMAL")
  BY ProposedType DEF Lives
<1>2. StateRank(life.state) \in Nat /\ StateRank(proposed) \in Nat
  BY <1>1, RankIsNumber
<1>3. LeadsInOrder(all) = IF deed THEN {"NORMAL"} ELSE LeadsInOrder(events) \union {proposed}
  BY LeadsOn
<1>4. \A s \in LeadsInOrder(events) : s \in StateNames /\ StateRank(s) \in Nat
  <2>1. LeadsInOrder(events) \subseteq StateNames
    BY ProposedType DEF LeadsInOrder, StateNames
  <2> QED
    BY <2>1, RankIsNumber
<1>5. /\ life.state \in LeadsInOrder(events)
      /\ \A s \in LeadsInOrder(events) : StateRank(s) <= StateRank(life.state)
      /\ \A i \in 1..(n - 1) : \/ life.transitions[i + 1].state = "NORMAL"
                               \/ StateRank(life.transitions[i + 1].state) > StateRank(life.transitions[i].state)
      /\ life.transitions # <<>> => life.transitions[n].state = life.state
  BY Zenon DEF Lived, FollowsOrder
<1>6. "NORMAL" \in LeadsInOrder(events)
  BY DEF LeadsInOrder
<1> DEFINE moves == (deed /\ life.state # "NORMAL") \/ StateRank(proposed) > StateRank(life.state)
<1>7. next = IF moves THEN [state |-> proposed, transitions |-> Append(life.transitions, t)] ELSE life
  BY Zenon DEF Transition
<1> HIDE DEF next, proposed, deed, all
<1>8. CASE ~moves
  <2>1. next = life
    BY <1>7, <1>8
  <2>2. life.state \in LeadsInOrder(all) /\ \A s \in LeadsInOrder(all) : StateRank(s) <= StateRank(life.state)
    BY <1>1, <1>2, <1>3, <1>4, <1>5, <1>8
  <2> QED
    BY <1>5, <2>1, <2>2, Zenon DEF Lived, FollowsOrder, next, all
<1>9. CASE moves
  <2>1. next.state = proposed /\ next.transitions = Append(life.transitions, t)
    BY <1>7, <1>9
  <2>2. proposed \in LeadsInOrder(all) /\ \A s \in LeadsInOrder(all) : StateRank(s) <= StateRank(proposed)
    BY <1>1, <1>2, <1>3, <1>4, <1>5, <1>9
  <2>3. /\ Len(next.transitions) = n + 1 /\ n \in Nat
        /\ next.transitions[n + 1] = t
        /\ \A i \in 1..n : next.transitions[i] = life.transitions[i]
    <3>1. life.transitions \in Seq([state : StateNames, event : ids])
      BY DEF Lives
    <3> HIDE DEF t
    <3> QED
      BY <2>1, <3>1
  <2>4. t.state = proposed
    OBVIOUS
  <2>5. ASSUME NEW i \in 1..(Len(next.transitions) - 1)
        PROVE  \/ next.transitions[i + 1].state = "NORMAL"
               \/ StateRank(next.transitions[i + 1].state) > StateRank(next.transitions[i].state)
    <3>1. CASE i < n
      <4>1. i \in 1..(n - 1) /\ i \in 1..n /\ i + 1 \in 1..n
        BY <2>3, <3>1
      <4> QED
        BY <1>5, <2>3, <4>1
    <3>2. CASE i = n
      <4>1. n \in 1..n /\ life.transitions # <<>>
        BY <2>3, <3>2
      <4>2. next.transitions[i].state = life.state /\ next.transitions[i + 1].state = proposed
        BY <1>5, <2>3, <2>4, <3>2, <4>1
      <4> QED
        BY <1>1, <1>9, <4>2
    <3> QED
      BY <2>3, <3>1, <3>2
  <2>6. next.transitions[Len(next.transitions)].state = next.state
    BY <2>1, <2>3, <2>4
  <2> HIDE DEF t, moves
  <2> QED
    BY <2>1, <2>2, <2>5, <2>6, Zenon DEF Lived, FollowsOrder, next, all
<1> QED
  BY <1>8, <1>9

LEMMA ReduceFollows ==
    ASSUME LogInv, NEW read \in Seq(Events), ToSet(read) \subseteq ToSet(log)
    PROVE  FollowsOrder(Reduce(read), ToSet(read))
<1> DEFINE s == Chronological(read)
           base == [state |-> "NORMAL", transitions |-> <<>>]
           T == Lives(EventIds)
           Read(k) == {s[i] : i \in 1..k}
<1>1. Reduce(read) = Moving!Folded({}, base, s)
  <2> HIDE DEF s
  <2> QED
    BY Zenon DEF s, Moves, Reduce, FoldLeft, MapThenFoldSet, Max,
       Moving!Folded, Moving!FoldLeft, Moving!MapThenFoldSet, Moving!Max
<1>2. s \in Seq(Events) /\ InOrder(s) /\ ToSet(s) = ToSet(read)
  BY ChronologicalFacts, Zenon DEF Sorted
<1> HIDE DEF s
<1>3. \A i \in DOMAIN s : s[i] \in Events /\ s[i] \in ToSet(log)
  BY <1>2 DEF ToSet
<1>4. \A a, b \in ToSet(log) : a.id = b.id => a = b
  BY DEF LogInv, OneOfAnId, ToSet
<1>5. Moving!Keeps({}, T, Events)
  <2>1. ASSUME NEW life \in T, NEW e \in Events
        PROVE  Moves({}, life, e) \in T
    <3>1. e.id \in EventIds
      BY EventFacts
    <3> QED
      BY <3>1, MoveType, Zenon DEF Moves
  <2> HIDE DEF T
  <2> QED
    BY <2>1, Zenon DEF Moving!Keeps
<1>6. base \in T
  BY DEF Lives, StateNames
<1>7. PICK run : Moving!IsRun({}, base, s, run) /\ \A k \in 0..Len(s) : run[k] \in T
  <2> HIDE DEF T, base
  <2> QED
    BY <1>2, <1>5, <1>6, Moving!FoldRuns
<1> DEFINE G == {k \in 0..Len(s) : Lived(run[k], Read(k))}
<1>8. 0 \in G
  <2>1. run[0] = base /\ Read(0) = {} /\ 0 \in 0..Len(s)
    BY <1>2, <1>7 DEF Moving!IsRun
  <2>2. LeadsInOrder({}) = {"NORMAL"}
    BY DEF LeadsInOrder
  <2>3. StateRank("NORMAL") \in Nat
    BY RankIsNumber DEF StateNames
  <2>4. base.state = "NORMAL" /\ base.transitions = <<>> /\ Len(<<>>) = 0
    OBVIOUS
  <2>5. Lived(base, {})
    <3> HIDE DEF base
    <3> QED
      BY <2>2, <2>3, <2>4 DEF Lived, FollowsOrder
  <2> QED
    BY <2>1, <2>5
<1>9. ASSUME NEW k \in 1..Len(s), k - 1 \in G
      PROVE  k \in G
  <2>1. run[k] = Transition(run[k - 1], s[k])
    BY <1>7, Zenon DEF Moving!IsRun, Moves
  <2>2. Lived(run[k - 1], Read(k - 1)) /\ k \in 0..Len(s) /\ k \in DOMAIN s
    BY <1>2, <1>9
  <2>3. s[k] \in Events /\ run[k - 1] \in T
    BY <1>3, <1>7, <2>2
  <2>4. ASSUME NEW x \in Read(k - 1)
        PROVE  x \in Events /\ ~Earlier(s[k], x) /\ (x.id = s[k].id => x = s[k])
    <3>1. PICK i \in 1..(k - 1) : x = s[i]
      BY <2>4
    <3>2. i \in DOMAIN s /\ i < k
      BY <1>2
    <3> QED
      BY <1>2, <1>3, <1>4, <2>2, <3>1, <3>2 DEF InOrder
  <2>5. Read(k) = Read(k - 1) \union {s[k]}
    OBVIOUS
  <2> DEFINE before == run[k - 1]
             events == Read(k - 1)
             e == s[k]
  <2>6. /\ before \in Lives(EventIds) /\ events \in SUBSET Events /\ Lived(before, events)
        /\ e \in Events /\ \A x \in events : ~Earlier(e, x) /\ (x.id = e.id => x = e)
    BY <2>2, <2>3, <2>4
  <2> HIDE DEF before, events, e, Read
  <2>7. Lived(Transition(before, e), events \union {e})
    BY <2>6, MoveFollows
  <2> QED
    BY <2>1, <2>2, <2>5, <2>7 DEF before, events, e
<1>10. Len(s) \in G
  <2> HIDE DEF G
  <2>1. Len(s) \in Nat
    BY <1>2
  <2> QED
    BY <1>8, <1>9, <2>1, Moving!ReachesLast
<1>11. Read(Len(s)) = ToSet(read)
  <2>1. DOMAIN s = 1..Len(s)
    BY <1>2
  <2>2. ToSet(s) = Read(Len(s))
    BY <2>1, Zenon DEF ToSet
  <2> QED
    BY <1>2, <2>2, Zenon
<1> QED
  <2> HIDE DEF Read
  <2> QED
    BY <1>1, <1>7, <1>10, <1>11, Zenon DEF Moving!IsRun, Lived

\* What the order of the events says, their dates say where they tell them apart.
LEMMA OrderFollowsDates ==
    ASSUME NEW life, NEW events \in SUBSET Events, FollowsOrder(life, events)
    PROVE  Follows(life, events)
<1>1. \A a, b \in events : /\ a.date \in Int /\ b.date \in Int
                           /\ a.date < b.date => Earlier(a, b)
                           /\ Earlier(a, b) => a.date <= b.date
  BY EventFacts DEF Earlier
<1> DEFINE since == {e \in events : \A d \in events : d.kind = "deed_transfer" => ~Earlier(e, d)}
<1>2. LeadsInOrder(events) = LeadTo(since)
  BY Zenon DEF LeadsInOrder, LeadTo
<1>3. since \subseteq SinceDeeds(events)
  BY <1>1 DEF SinceDeeds, DeedDates
<1>4. AfterDeeds(events) \subseteq since
  BY <1>1 DEF AfterDeeds, DeedDates
<1> HIDE DEF since
<1>5. LeadsInOrder(events) \subseteq LeadTo(SinceDeeds(events))
  BY <1>2, <1>3 DEF LeadTo
<1>6. LeadTo(AfterDeeds(events)) \subseteq LeadsInOrder(events)
  BY <1>2, <1>4 DEF LeadTo
<1> QED
  BY <1>5, <1>6 DEF FollowsOrder, Follows

\* Compile.tla's StateFollowsDates.  Whatever was read and in whatever order, a
\* property's state is where its events lead by their dates; only events that have the
\* date of the last deed are told apart by when they were read (events.cpp 138-169,
\* compile.cpp 303-305).
THEOREM FollowsDates == Spec => []StateFollowsDates
<1>1. ASSUME LogInv, NEW group \in Groups
      PROVE  Follows(Reduce(EventsIn(group)), ToSet(EventsIn(group)))
  <2>1. /\ EventsIn(group) \in Seq(Events)
        /\ FollowsOrder(Reduce(EventsIn(group)), ToSet(EventsIn(group)))
    BY <1>1, EventsInFacts, ReduceFollows, Zenon
  <2>2. ToSet(EventsIn(group)) \in SUBSET Events
    BY <2>1 DEF ToSet
  <2> QED
    BY <2>1, <2>2, OrderFollowsDates, Zenon
<1>2. LogInv => StateFollowsDates
  BY <1>1, Zenon DEF StateFollowsDates
<1> QED
  BY <1>2, LogAlways, PTL

-----------------------------------------------------------------------------
(* Sequences of a set's members.                                             *)

\* A sequence that has each member of a set once.
Lists(s, S) == s \in Seq(S) /\ ToSet(s) = S /\ Len(s) = Cardinality(S)

LEMMA ListsOnce ==
    ASSUME NEW S, IsFiniteSet(S), NEW s, Lists(s, S)
    PROVE  \A i, j \in DOMAIN s : s[i] = s[j] => i = j
<1>1. s \in [1..Len(s) -> S] /\ Len(s) \in Nat /\ \A x \in S : \E i \in 1..Len(s) : s[i] = x
  BY DEF Lists, ToSet
<1> DEFINE n == Len(s)
<1>2. IsFiniteSet(1..n) /\ Cardinality(1..n) = n
  <2>1. n \in Nat
    BY <1>1
  <2> HIDE DEF n
  <2> QED
    BY <2>1, FS_Interval
<1>3. s \in Surjection(1..n, S)
  BY <1>1 DEF Surjection
<1> HIDE DEF n
<1>4. Cardinality(S) = Cardinality(1..n)
  BY <1>2 DEF n, Lists
<1>5. s \in Injection(1..n, S)
  BY <1>2, <1>3, <1>4, FS_Surjection
<1> QED
  BY <1>1, <1>5 DEF Injection, IsInjective, n

LEMMA SetToSeqLists ==
    ASSUME NEW S, IsFiniteSet(S)
    PROVE  Lists(SetToSeq(S), S)
<1> DEFINE n == Cardinality(S)
           f == SetToSeq(S)
<1>1. n \in Nat /\ ExistsBijection(1..n, S)
  BY FS_CardinalityType
<1>2. \E g \in [1..n -> S] : IsInjective(g)
  BY <1>1 DEF ExistsBijection, Bijection, Injection
<1>3. f \in [1..n -> S] /\ IsInjective(f)
  BY <1>2, Zenon DEF SetToSeq
<1> HIDE DEF n, f
<1>4. IsFiniteSet(1..n) /\ Cardinality(1..n) = n
  BY <1>1, FS_Interval
<1>5. f \in Injection(1..n, S)
  BY <1>3 DEF Injection
<1>6. f \in Surjection(1..n, S)
  BY <1>4, <1>5, FS_Injection DEF n
<1>7. \A x \in S : \E i \in 1..n : f[i] = x
  BY <1>6 DEF Surjection
<1>8. f \in Seq(S) /\ Len(f) = n /\ DOMAIN f = 1..n
  BY <1>1, <1>3
<1>9. ToSet(f) = S
  BY <1>3, <1>7, <1>8 DEF ToSet
<1> QED
  BY <1>8, <1>9, Zenon DEF Lists, n, f

\* What inserting a sequence's elements one by one, wherever, makes of them.
LEMMA InsertionLists ==
    ASSUME NEW S, NEW s \in Seq(S), NEW run, run[0] = <<>>,
           \A k \in 1..Len(s) : run[k - 1] \in Seq(S) =>
              \E m \in 0..Len(run[k - 1]) : run[k] = InsertAt(run[k - 1], 1 + m, s[k])
    PROVE  /\ run[Len(s)] \in Seq(S) /\ Len(run[Len(s)]) = Len(s)
           /\ ToSet(run[Len(s)]) = ToSet(s)
<1> DEFINE E(k) == {s[i] : i \in 1..k}
           G == {k \in 0..Len(s) : run[k] \in Seq(S) /\ Len(run[k]) = k /\ ToSet(run[k]) = E(k)}
<1>1. 0 \in G
  <2>1. ToSet(<<>>) = {} /\ E(0) = {} /\ <<>> \in Seq(S) /\ Len(<<>>) = 0 /\ 0 \in 0..Len(s)
    BY DEF ToSet
  <2> QED
    BY <2>1
<1>2. ASSUME NEW k \in 1..Len(s), k - 1 \in G
      PROVE  k \in G
  <2> DEFINE r == run[k - 1]
             w == run[k]
             x == s[k]
  <2>1. r \in Seq(S) /\ Len(r) = k - 1 /\ ToSet(r) = E(k - 1) /\ x \in S /\ k \in 0..Len(s)
    BY <1>2
  <2>2. PICK m \in 0..Len(r) : w = InsertAt(r, 1 + m, x)
    BY <2>1, Zenon
  <2>3. E(k) = E(k - 1) \union {x}
    OBVIOUS
  <2> HIDE DEF r, w, x, E
  <2>4. Inserted(S, r, x, m, w)
    BY <2>1, <2>2, InsertsAt, Zenon
  <2>5. w \in Seq(S) /\ Len(w) = k
    BY <2>1, <2>4 DEF Inserted
  <2>6. ToSet(w) = E(k)
    <3>1. ToSet(w) = ToSet(r) \union {x}
      BY <2>1, <2>4, InsertedAdds
    <3> QED
      BY <2>1, <2>3, <3>1
  <2> QED
    BY <2>1, <2>5, <2>6 DEF w
<1>3. Len(s) \in G
  <2> HIDE DEF G
  <2>1. Len(s) \in Nat
    OBVIOUS
  <2> QED
    BY <1>1, <1>2, <2>1, Moving!ReachesLast
<1>4. E(Len(s)) = ToSet(s)
  BY DEF ToSet
<1> HIDE DEF E
<1> QED
  BY <1>3, <1>4

LEMMA PartSize ==
    ASSUME NEW S, NEW s \in Seq(S), NEW D \in SUBSET DOMAIN s
    PROVE  IsFiniteSet(D) /\ Cardinality(D) \in 0..Len(s)
BY Placing!PartSize, Zenon DEF Cardinality, Placing!Cardinality, IsFiniteSet, Placing!IsFiniteSet

LEMMA KeysListed ==
    ASSUME NEW S, IsFiniteSet(S)
    PROVE  Lists(SortSet(KeyBefore, S), S)
<1> DEFINE s == SetToSeq(S)
           T == Seq(S)
<1>1. SortSet(KeyBefore, S) = Ordering!Folded({}, <<>>, s)
  <2> HIDE DEF s
  <2> QED
    BY Zenon DEF s, Orders, SortSet, SortBy, FoldLeft, MapThenFoldSet, Max,
       Ordering!Folded, Ordering!FoldLeft, Ordering!MapThenFoldSet, Ordering!Max
<1>2. Lists(s, S)
  BY SetToSeqLists
<1> HIDE DEF s
<1>3. s \in Seq(S) /\ ToSet(s) = S /\ Len(s) = Cardinality(S)
  BY <1>2, Zenon DEF Lists
<1>4. ASSUME NEW r \in T, NEW x \in S
      PROVE  Orders({}, r, x) \in T /\ \E m \in 0..Len(r) : Orders({}, r, x) = InsertAt(r, 1 + m, x)
  <2> DEFINE D == {i \in DOMAIN r : ~KeyBefore(x, r[i])}
             m == Cardinality(D)
  <2>1. D \in SUBSET DOMAIN r
    OBVIOUS
  <2>2. Orders({}, r, x) = InsertAt(r, 1 + m, x)
    BY Zenon DEF Orders, InsertBy
  <2> HIDE DEF D
  <2>3. m \in 0..Len(r)
    BY <2>1, PartSize
  <2> HIDE DEF m
  <2>4. Inserted(S, r, x, m, InsertAt(r, 1 + m, x))
    BY <2>3, InsertsAt
  <2> QED
    BY <2>2, <2>3, <2>4, Zenon DEF Inserted
<1>5. Ordering!Keeps({}, T, S)
  <2> HIDE DEF T
  <2> QED
    BY <1>4, Zenon DEF Ordering!Keeps
<1>6. <<>> \in T
  OBVIOUS
<1>7. PICK run : Ordering!IsRun({}, <<>>, s, run) /\ \A k \in 0..Len(s) : run[k] \in T
  <2> HIDE DEF T
  <2> QED
    BY <1>3, <1>5, <1>6, Ordering!FoldRuns
<1>8. run[0] = <<>> /\ SortSet(KeyBefore, S) = run[Len(s)]
  BY <1>1, <1>7, Zenon DEF Ordering!IsRun
<1>9. ASSUME NEW k \in 1..Len(s), run[k - 1] \in Seq(S)
      PROVE  \E m \in 0..Len(run[k - 1]) : run[k] = InsertAt(run[k - 1], 1 + m, s[k])
  <2> DEFINE out == run[k - 1]
             x == s[k]
  <2>1. run[k] = Orders({}, out, x)
    BY <1>7, Zenon DEF Ordering!IsRun
  <2>2. out \in T /\ x \in S
    BY <1>3, <1>9
  <2> HIDE DEF out, x, T
  <2>3. \E m \in 0..Len(out) : Orders({}, out, x) = InsertAt(out, 1 + m, x)
    BY <1>4, <2>2
  <2> QED
    BY <2>1, <2>3 DEF out, x
<1>10. /\ run[Len(s)] \in Seq(S) /\ Len(run[Len(s)]) = Len(s)
       /\ ToSet(run[Len(s)]) = ToSet(s)
  BY <1>3, <1>8, <1>9, InsertionLists, Zenon
<1> QED
  BY <1>3, <1>8, <1>10, Zenon DEF Lists

LEMMA WorstListed ==
    ASSUME NEW S, IsFiniteSet(S)
    PROVE  Lists(SortSet(Worse, S), S)
<1> DEFINE s == SetToSeq(S)
           T == Seq(S)
<1>1. SortSet(Worse, S) = Ranking!Folded({}, <<>>, s)
  <2> HIDE DEF s
  <2> QED
    BY Zenon DEF s, Ranks, SortSet, SortBy, FoldLeft, MapThenFoldSet, Max,
       Ranking!Folded, Ranking!FoldLeft, Ranking!MapThenFoldSet, Ranking!Max
<1>2. Lists(s, S)
  BY SetToSeqLists
<1> HIDE DEF s
<1>3. s \in Seq(S) /\ ToSet(s) = S /\ Len(s) = Cardinality(S)
  BY <1>2, Zenon DEF Lists
<1>4. ASSUME NEW r \in T, NEW x \in S
      PROVE  Ranks({}, r, x) \in T /\ \E m \in 0..Len(r) : Ranks({}, r, x) = InsertAt(r, 1 + m, x)
  <2> DEFINE D == {i \in DOMAIN r : ~Worse(x, r[i])}
             m == Cardinality(D)
  <2>1. D \in SUBSET DOMAIN r
    OBVIOUS
  <2>2. Ranks({}, r, x) = InsertAt(r, 1 + m, x)
    BY Zenon DEF Ranks, InsertBy
  <2> HIDE DEF D
  <2>3. m \in 0..Len(r)
    BY <2>1, PartSize
  <2> HIDE DEF m
  <2>4. Inserted(S, r, x, m, InsertAt(r, 1 + m, x))
    BY <2>3, InsertsAt
  <2> QED
    BY <2>2, <2>3, <2>4, Zenon DEF Inserted
<1>5. Ranking!Keeps({}, T, S)
  <2> HIDE DEF T
  <2> QED
    BY <1>4, Zenon DEF Ranking!Keeps
<1>6. <<>> \in T
  OBVIOUS
<1>7. PICK run : Ranking!IsRun({}, <<>>, s, run) /\ \A k \in 0..Len(s) : run[k] \in T
  <2> HIDE DEF T
  <2> QED
    BY <1>3, <1>5, <1>6, Ranking!FoldRuns
<1>8. run[0] = <<>> /\ SortSet(Worse, S) = run[Len(s)]
  BY <1>1, <1>7, Zenon DEF Ranking!IsRun
<1>9. ASSUME NEW k \in 1..Len(s), run[k - 1] \in Seq(S)
      PROVE  \E m \in 0..Len(run[k - 1]) : run[k] = InsertAt(run[k - 1], 1 + m, s[k])
  <2> DEFINE out == run[k - 1]
             x == s[k]
  <2>1. run[k] = Ranks({}, out, x)
    BY <1>7, Zenon DEF Ranking!IsRun
  <2>2. out \in T /\ x \in S
    BY <1>3, <1>9
  <2> HIDE DEF out, x, T
  <2>3. \E m \in 0..Len(out) : Ranks({}, out, x) = InsertAt(out, 1 + m, x)
    BY <1>4, <2>2
  <2> QED
    BY <2>1, <2>3 DEF out, x
<1>10. /\ run[Len(s)] \in Seq(S) /\ Len(run[Len(s)]) = Len(s)
       /\ ToSet(run[Len(s)]) = ToSet(s)
  BY <1>3, <1>8, <1>9, InsertionLists, Zenon
<1> QED
  BY <1>3, <1>8, <1>10, Zenon DEF Lists

-----------------------------------------------------------------------------
(* Groups.                                                                   *)

MayShare(j, k) == Compatible(AddressOf(j), AddressOf(k))

\* Each of some keys is in one bucket, with keys it may share an address with.
Bucketed(buckets, keys) ==
    /\ UNION ToSet(buckets) = keys
    /\ \A i, j \in DOMAIN buckets : buckets[i] \intersect buckets[j] # {} => i = j
    /\ \A i \in DOMAIN buckets : buckets[i] # {} /\ \A j, k \in buckets[i] : MayShare(j, k)

LEMMA SharesWithItself ==
    ASSUME NEW j, NEW k
    PROVE  MayShare(j, j) /\ (MayShare(j, k) => MayShare(k, j))
BY Zenon DEF MayShare, Compatible

\* What placing a key makes of the buckets.
Placed(buckets, key, out) ==
    \/ out = Append(buckets, {key})
    \/ \E i \in DOMAIN buckets :
          /\ \A k \in buckets[i] : MayShare(key, k)
          /\ out = [buckets EXCEPT ![i] = @ \union {key}]

LEMMA PlaceDoes ==
    ASSUME NEW S, NEW buckets \in Seq(SUBSET S), NEW key \in S
    PROVE  Placed(buckets, key, Place(buckets, key))
<1> DEFINE fits == {i \in DOMAIN buckets : \A k \in buckets[i] : Compatible(AddressOf(key), AddressOf(k))}
<1>1. Place(buckets, key) = Join(buckets, key, fits)
  BY Zenon DEF Place
<1>2. CASE fits = {}
  <2> HIDE DEF fits
  <2> QED
    BY <1>1, <1>2, Zenon DEF Join, Placed
<1>3. CASE fits # {}
  <2>1. \A i \in fits : i \in DOMAIN buckets /\ \A k \in buckets[i] : MayShare(key, k)
    BY Zenon DEF MayShare
  <2>2. fits \in SUBSET (1..Len(buckets)) /\ Len(buckets) \in Nat
    OBVIOUS
  <2> HIDE DEF fits
  <2> DEFINE i == CHOOSE i \in fits : \A j \in fits : i <= j
  <2>3. i \in fits
    BY <1>3, <2>2, Bucketing!MinOfPart
  <2>4. Join(buckets, key, fits) = [buckets EXCEPT ![i] = @ \union {key}]
    BY <1>3, Zenon DEF Join
  <2> HIDE DEF i
  <2> QED
    BY <1>1, <2>1, <2>3, <2>4, Zenon DEF Placed
<1> QED
  BY <1>2, <1>3

LEMMA PlaceType ==
    ASSUME NEW S, NEW buckets \in Seq(SUBSET S), NEW key \in S
    PROVE  Place(buckets, key) \in Seq(SUBSET S)
<1>1. {key} \in SUBSET S
  OBVIOUS
<1>2. Append(buckets, {key}) \in Seq(SUBSET S)
  BY <1>1
<1>3. ASSUME NEW i \in DOMAIN buckets
      PROVE  [buckets EXCEPT ![i] = @ \union {key}] \in Seq(SUBSET S)
  <2> DEFINE joined == buckets[i] \union {key}
  <2>1. buckets[i] \in SUBSET S
    OBVIOUS
  <2>2. joined \in SUBSET S
    BY <2>1
  <2> HIDE DEF joined
  <2>3. [buckets EXCEPT ![i] = joined] \in Seq(SUBSET S)
    BY <2>2
  <2> QED
    BY <2>3 DEF joined
<1>4. Placed(buckets, key, Place(buckets, key))
  BY PlaceDoes, Zenon
<1> QED
  BY <1>2, <1>3, <1>4, Zenon DEF Placed

LEMMA PlaceKeeps ==
    ASSUME NEW S, NEW buckets \in Seq(SUBSET S), NEW keys, Bucketed(buckets, keys),
           NEW key \in S \ keys
    PROVE  Bucketed(Place(buckets, key), keys \union {key})
<1> DEFINE b == Place(buckets, key)
           n == Len(buckets)
<1>1. n \in Nat /\ DOMAIN buckets = 1..n /\ \A i \in 1..n : key \notin buckets[i] /\ buckets[i] \subseteq keys
  BY DEF Bucketed, ToSet
<1>2. \A i, j \in 1..n : buckets[i] \intersect buckets[j] # {} => i = j
  BY <1>1 DEF Bucketed
<1>3. \A i \in 1..n : buckets[i] # {} /\ \A j, k \in buckets[i] : MayShare(j, k)
  BY <1>1 DEF Bucketed
<1>4. UNION {buckets[i] : i \in 1..n} = keys
  BY <1>1 DEF Bucketed, ToSet
<1>5. ASSUME b = Append(buckets, {key})
      PROVE  Bucketed(b, keys \union {key})
  <2>1. /\ DOMAIN b = 1..(n + 1) /\ b[n + 1] = {key}
        /\ \A i \in 1..n : b[i] = buckets[i]
    BY <1>1, <1>5
  <2> HIDE DEF b, n
  <2>2. UNION {b[i] : i \in 1..(n + 1)} = keys \union {key}
    <3>1. \A i \in 1..n : i \in 1..(n + 1)
      BY <1>1
    <3>2. \A i \in 1..(n + 1) : i \in 1..n \/ i = n + 1
      BY <1>1
    <3>3. n + 1 \in 1..(n + 1)
      BY <1>1
    <3>4. UNION {b[i] : i \in 1..(n + 1)} \subseteq keys \union {key}
      BY <1>4, <2>1, <3>2
    <3>5. keys \subseteq UNION {b[i] : i \in 1..(n + 1)}
      BY <1>4, <2>1, <3>1
    <3>6. key \in UNION {b[i] : i \in 1..(n + 1)}
      BY <2>1, <3>3
    <3> QED
      BY <3>4, <3>5, <3>6
  <2>3. \A i, j \in 1..(n + 1) : b[i] \intersect b[j] # {} => i = j
    BY <1>1, <1>2, <2>1
  <2>4. \A i \in 1..(n + 1) : b[i] # {} /\ \A j, k \in b[i] : MayShare(j, k)
    BY <1>1, <1>3, <2>1, SharesWithItself
  <2> QED
    BY <2>1, <2>2, <2>3, <2>4, Zenon DEF Bucketed, ToSet
<1>6. ASSUME NEW i \in 1..n, \A k \in buckets[i] : MayShare(key, k),
             b = [buckets EXCEPT ![i] = @ \union {key}]
      PROVE  Bucketed(b, keys \union {key})
  <2>1. /\ DOMAIN b = 1..n /\ b[i] = buckets[i] \union {key}
        /\ \A j \in 1..n : j # i => b[j] = buckets[j]
    BY <1>1, <1>6
  <2> HIDE DEF b, n
  <2>2. UNION {b[j] : j \in 1..n} = keys \union {key}
    BY <1>4, <2>1
  <2>3. \A j, k \in 1..n : b[j] \intersect b[k] # {} => j = k
    BY <1>1, <1>2, <2>1
  <2>4. \A j \in 1..n : b[j] # {} /\ \A k, l \in b[j] : MayShare(k, l)
    BY <1>3, <1>6, <2>1, SharesWithItself
  <2> QED
    BY <2>1, <2>2, <2>3, <2>4, Zenon DEF Bucketed, ToSet
<1> QED
  BY <1>1, <1>5, <1>6, PlaceDoes DEF Placed

\* Whatever the order of its keys, a group is divided into buckets of keys that may
\* share an address.
LEMMA BucketsFacts ==
    ASSUME NEW S, IsFiniteSet(S)
    PROVE  Bucketed(Buckets(S), S) /\ Buckets(S) \in Seq(SUBSET S)
<1> DEFINE s == SortSet(KeyBefore, S)
           T == Seq(SUBSET S)
           E(k) == {s[i] : i \in 1..k}
<1>1. Buckets(S) = Bucketing!Folded({}, <<>>, s)
  <2> HIDE DEF s
  <2> QED
    BY Zenon DEF s, Places, Buckets, FoldLeft, MapThenFoldSet, Max,
       Bucketing!Folded, Bucketing!FoldLeft, Bucketing!MapThenFoldSet, Bucketing!Max
<1>2. Lists(s, S)
  BY KeysListed
<1> HIDE DEF s
<1>3. s \in Seq(S) /\ ToSet(s) = S /\ \A i, j \in DOMAIN s : s[i] = s[j] => i = j
  BY <1>2, ListsOnce, Zenon DEF Lists
<1>4. Bucketing!Keeps({}, T, S)
  <2>1. ASSUME NEW b \in T, NEW key \in S
        PROVE  Places({}, b, key) \in T
    BY PlaceType DEF Places
  <2> HIDE DEF T
  <2> QED
    BY <2>1, Zenon DEF Bucketing!Keeps
<1>5. <<>> \in T
  OBVIOUS
<1>6. PICK run : Bucketing!IsRun({}, <<>>, s, run) /\ \A k \in 0..Len(s) : run[k] \in T
  <2> HIDE DEF T
  <2> QED
    BY <1>3, <1>4, <1>5, Bucketing!FoldRuns
<1> DEFINE G == {k \in 0..Len(s) : Bucketed(run[k], E(k))}
<1>7. 0 \in G
  <2>1. run[0] = <<>> /\ E(0) = {} /\ 0 \in 0..Len(s)
    BY <1>3, <1>6 DEF Bucketing!IsRun
  <2>2. Bucketed(<<>>, {})
    BY DEF Bucketed, ToSet
  <2> QED
    BY <2>1, <2>2
<1>8. ASSUME NEW k \in 1..Len(s), k - 1 \in G
      PROVE  k \in G
  <2> DEFINE before == run[k - 1]
             keys == E(k - 1)
             key == s[k]
  <2>1. run[k] = Place(before, key)
    BY <1>6, Zenon DEF Bucketing!IsRun, Places
  <2>2. /\ Bucketed(before, keys) /\ k \in 0..Len(s) /\ before \in Seq(SUBSET S)
        /\ key \in S /\ key \notin keys
    <3>1. key \in S /\ k \in DOMAIN s /\ k - 1 \in 0..Len(s) /\ k \in 0..Len(s)
      BY <1>3
    <3>2. \A i \in 1..(k - 1) : i \in DOMAIN s /\ s[i] # s[k]
      BY <1>3
    <3> QED
      BY <1>6, <1>8, <3>1, <3>2
  <2>3. E(k) = keys \union {key}
    OBVIOUS
  <2> HIDE DEF before, keys, key, E
  <2>4. Bucketed(Place(before, key), keys \union {key})
    BY <2>2, PlaceKeeps
  <2> QED
    BY <2>1, <2>2, <2>3, <2>4
<1>9. Len(s) \in G
  <2> HIDE DEF G
  <2>1. Len(s) \in Nat
    BY <1>3
  <2> QED
    BY <1>7, <1>8, <2>1, Bucketing!ReachesLast
<1>10. E(Len(s)) = S
  <2>1. DOMAIN s = 1..Len(s)
    BY <1>3
  <2>2. ToSet(s) = E(Len(s))
    BY <2>1, Zenon DEF ToSet
  <2> QED
    BY <1>3, <2>2, Zenon
<1>11. run[Len(s)] \in T
  BY <1>3, <1>6
<1> HIDE DEF E, T
<1> QED
  BY <1>1, <1>6, <1>9, <1>10, <1>11, Zenon DEF Bucketing!IsRun, T

-----------------------------------------------------------------------------
LEMMA KeysFinite ==
    ASSUME NEW S, log \in Seq(S)
    PROVE  IsFiniteSet(CountyKeys) /\ \A key : GroupOf(key) \in SUBSET CountyKeys
<1> DEFINE K == {log[i].key : i \in DOMAIN log}
<1>1. IsFiniteSet(DOMAIN log)
  <2> DEFINE n == Len(log)
  <2>1. n \in Nat /\ DOMAIN log = 1..n
    OBVIOUS
  <2> HIDE DEF n
  <2>2. IsFiniteSet(1..n)
    BY <2>1, FS_Interval
  <2> QED
    BY <2>1, <2>2
<1>2. IsFiniteSet(K)
  <2> DEFINE f == [i \in DOMAIN log |-> log[i].key]
  <2>1. K = {f[i] : i \in DOMAIN log} /\ f \in [DOMAIN log -> K]
    OBVIOUS
  <2>2. f \in Surjection(DOMAIN log, K)
    BY <2>1 DEF Surjection
  <2> QED
    BY <1>1, <2>2, FS_Surjection
<1>3. CountyKeys \subseteq K
  BY DEF CountyKeys
<1>4. IsFiniteSet(CountyKeys)
  BY <1>2, <1>3, FS_Subset
<1>5. \A key : GroupOf(key) \in SUBSET CountyKeys
  BY DEF GroupOf
<1> QED
  BY <1>4, <1>5

\* What a group is: a part of a county's keys, in one bucket, of one address.
LEMMA GroupIsBucket ==
    ASSUME NEW S, log \in Seq(S), NEW group \in Groups
    PROVE  \E key \in CountyKeys :
              \/ group \subseteq GroupOf(key) /\ Cardinality(group) = 1 /\ \E k \in GroupOf(key) : group = {k}
              \/ /\ group \in ToSet(Buckets(GroupOf(key)))
                 /\ Cardinality(GroupOf(key)) > 1 => AddressIsUnique(GroupOf(key))
<1> DEFINE Divided(g) == IF Cardinality(g) > 1 /\ ~AddressIsUnique(g) THEN {{k} : k \in g}
                         ELSE ToSet(Buckets(g))
<1>1. PICK key \in CountyKeys : group \in Divided(GroupOf(key))
  BY Zenon DEF Groups
<1>2. CASE Cardinality(GroupOf(key)) > 1 /\ ~AddressIsUnique(GroupOf(key))
  <2>1. PICK k \in GroupOf(key) : group = {k}
    BY <1>1, <1>2, Zenon
  <2>2. Cardinality({k}) = 1
    BY FS_Singleton
  <2> QED
    BY <2>1, <2>2
<1>3. CASE ~(Cardinality(GroupOf(key)) > 1 /\ ~AddressIsUnique(GroupOf(key)))
  <2>1. group \in ToSet(Buckets(GroupOf(key)))
    BY <1>1, <1>3, Zenon
  <2> QED
    BY <1>3, <2>1, Zenon
<1> QED
  BY <1>2, <1>3, Zenon

LEMMA ParcelsFinite ==
    ASSUME NEW S, log \in Seq(S), NEW source, NEW keys, NEW part \in SUBSET keys
    PROVE  /\ IsFiniteSet(ParcelsOf(source, keys))
           /\ ParcelsOf(source, part) \subseteq ParcelsOf(source, keys)
<1> DEFINE I == {i \in DOMAIN log : /\ log[i].key \in keys /\ log[i].source = source
                                    /\ "parcel_id" \in DOMAIN log[i].details}
           f == [i \in I |-> log[i].details["parcel_id"]]
<1>1. IsFiniteSet(DOMAIN log)
  <2> DEFINE n == Len(log)
  <2>1. n \in Nat /\ DOMAIN log = 1..n
    OBVIOUS
  <2> HIDE DEF n
  <2>2. IsFiniteSet(1..n)
    BY <2>1, FS_Interval
  <2> QED
    BY <2>1, <2>2
<1>2. IsFiniteSet(I)
  <2>1. I \subseteq DOMAIN log
    OBVIOUS
  <2> QED
    BY <1>1, <2>1, FS_Subset
<1>3. ParcelsOf(source, keys) = {log[i].details["parcel_id"] : i \in I}
  BY Zenon DEF ParcelsOf
<1>4. ParcelsOf(source, part) \subseteq ParcelsOf(source, keys)
  BY DEF ParcelsOf
<1> HIDE DEF I
<1>5. f \in Surjection(I, ParcelsOf(source, keys))
  BY <1>3 DEF Surjection
<1> QED
  BY <1>2, <1>4, <1>5, FS_Surjection

\* Properties that are compiled into one are told apart by no source, and are of
\* one number and street.
THEOREM NeighboursStayApart == Spec => []NeighboursApart
<1>1. ASSUME LogInv
      PROVE  NeighboursApart
  <2>1. PICK S : log \in Seq(S)
    BY <1>1 DEF LogInv
  <2> SUFFICES ASSUME NEW group \in Groups, Cardinality(group) > 1
               PROVE  /\ \A s \in Sources : Cardinality(ParcelsOf(s.id, group)) <= 1
                      /\ \A j, k \in group : /\ AddressOf(j).number = AddressOf(k).number
                                             /\ AddressOf(j).street = AddressOf(k).street
                                             /\ Compatible(AddressOf(j), AddressOf(k))
    BY Zenon DEF NeighboursApart
  <2>2. PICK key \in CountyKeys :
              \/ group \subseteq GroupOf(key) /\ Cardinality(group) = 1 /\ \E k \in GroupOf(key) : group = {k}
              \/ /\ group \in ToSet(Buckets(GroupOf(key)))
                 /\ Cardinality(GroupOf(key)) > 1 => AddressIsUnique(GroupOf(key))
    BY <2>1, GroupIsBucket
  <2> DEFINE all == GroupOf(key)
  <2>3. /\ group \in ToSet(Buckets(all))
        /\ Cardinality(all) > 1 => AddressIsUnique(all)
    <3> HIDE DEF all
    <3> DEFINE c == Cardinality(group)
    <3>1. c > 1 => c # 1
      OBVIOUS
    <3> HIDE DEF c
    <3>2. c > 1
      BY DEF c
    <3> QED
      BY <2>2, <3>1, <3>2, Zenon DEF c, all
  <2>4. IsFiniteSet(all)
    <3>1. IsFiniteSet(CountyKeys) /\ all \in SUBSET CountyKeys
      BY <2>1, KeysFinite, Zenon
    <3> QED
      BY <3>1, FS_Subset
  <2>5. /\ group \subseteq all /\ IsFiniteSet(group)
        /\ \A j, k \in group : MayShare(j, k)
    <3> HIDE DEF all
    <3>1. Bucketed(Buckets(all), all)
      BY <2>4, BucketsFacts
    <3>2. PICK i \in DOMAIN Buckets(all) : group = Buckets(all)[i]
      BY <2>3, Zenon DEF ToSet
    <3>3. group \subseteq all
      BY <2>3, <3>1 DEF Bucketed
    <3>4. \A j, k \in group : MayShare(j, k)
      BY <3>1, <3>2, Zenon DEF Bucketed
    <3> QED
      BY <2>4, <3>3, <3>4, FS_Subset
  <2>6. AddressIsUnique(all)
    <3> DEFINE c == Cardinality(group)
               d == Cardinality(all)
    <3> HIDE DEF all
    <3>1. c <= d /\ c \in Nat /\ d \in Nat
      BY <2>4, <2>5, FS_Subset, FS_CardinalityType
    <3>2. c > 1
      OBVIOUS
    <3> HIDE DEF c, d
    <3>3. d > 1
      BY <3>1, <3>2
    <3> QED
      BY <2>3, <3>3 DEF d
  <2>7. ASSUME NEW s \in Sources
        PROVE  Cardinality(ParcelsOf(s.id, group)) <= 1
    <3> DEFINE c == Cardinality(ParcelsOf(s.id, group))
               d == Cardinality(ParcelsOf(s.id, all))
               id == s.id
    <3> HIDE DEF all
    <3>1. d <= 1
      BY <2>6 DEF AddressIsUnique
    <3> HIDE DEF id
    <3>2. /\ IsFiniteSet(ParcelsOf(id, all))
          /\ ParcelsOf(id, group) \subseteq ParcelsOf(id, all)
      BY <2>1, <2>5, ParcelsFinite
    <3>3. c <= d /\ c \in Nat /\ d \in Nat
      BY <3>2, FS_Subset, FS_CardinalityType DEF id
    <3> HIDE DEF c, d
    <3>4. c <= 1
      BY <3>1, <3>3
    <3> QED
      BY <3>4 DEF c
  <2>8. ASSUME NEW j \in group, NEW k \in group
        PROVE  /\ AddressOf(j).number = AddressOf(k).number
               /\ AddressOf(j).street = AddressOf(k).street
    <3>1. /\ j = key \/ OneBuilding(AddressOf(j), AddressOf(key))
          /\ k = key \/ OneBuilding(AddressOf(k), AddressOf(key))
      BY <2>5, Zenon DEF GroupOf
    <3> QED
      BY <3>1, Zenon DEF OneBuilding
  <2> QED
    BY <2>5, <2>7, <2>8, Zenon DEF MayShare
<1> QED
  BY <1>1, LogAlways, PTL

-----------------------------------------------------------------------------
(* A property's events, counted.                                             *)

\* Where the log has events of some properties.
At(keys) == {i \in DOMAIN log : log[i].key \in keys}

LEMMA LogParts ==
    ASSUME LogInv, NEW D \in SUBSET DOMAIN log
    PROVE  IsFiniteSet(D) /\ Cardinality(D) \in Nat
<1>1. log \in Seq(Events)
  BY DEF LogInv
<1>2. IsFiniteSet(D)
  BY <1>1, PartSize
<1> QED
  BY <1>2, FS_CardinalityType

\* Sorting by time takes no event away and adds none.
LEMMA ChronologicalLength ==
    ASSUME NEW s \in Seq(Events)
    PROVE  Len(Chronological(s)) = Len(s)
<1>1. Chronological(s) = Placing!Folded({}, <<>>, s)
  BY Zenon DEF Sorts, Chronological, SortBy, FoldLeft, MapThenFoldSet, Max,
     Placing!Folded, Placing!FoldLeft, Placing!MapThenFoldSet, Placing!Max
<1>2. Placing!Inserts({}, Events)
  <2> SUFFICES ASSUME NEW out \in Seq(Events), NEW x \in Events
               PROVE  \E m \in 0..Len(out) : Placing!Inserted(Events, out, x, m, Sorts({}, out, x))
    BY Zenon DEF Placing!Inserts
  <2> DEFINE D == {i \in DOMAIN out : ~Earlier(x, out[i])}
             m == Cardinality(D)
  <2>1. D \in SUBSET DOMAIN out
    OBVIOUS
  <2>2. Sorts({}, out, x) = InsertAt(out, 1 + m, x)
    BY Zenon DEF Sorts, InsertBy
  <2> HIDE DEF D
  <2>3. m \in 0..Len(out)
    BY <2>1, PartSize
  <2> HIDE DEF m
  <2>4. Inserted(Events, out, x, m, InsertAt(out, 1 + m, x))
    BY <2>3, InsertsAt
  <2> QED
    BY <2>2, <2>3, <2>4, Zenon DEF Inserted, Placing!Inserted
<1> DEFINE R == Events \X Events
<1>3. Placing!Pairwise(R, s)
  BY DEF Placing!Pairwise
<1> HIDE DEF R
<1>4. Len(Placing!Folded({}, <<>>, s)) = Len(s)
  BY <1>2, <1>3, Placing!SortsMembers
<1> QED
  BY <1>1, <1>4, Zenon

LEMMA EventsOfFacts ==
    ASSUME LogInv, NEW keys
    PROVE  /\ Len(EventsOf(keys)) = Cardinality(At(keys))
           /\ ToSet(EventsOf(keys)) = {log[i] : i \in At(keys)}
<1> DEFINE S == ToSet(log)
           T == Seq(S)
           I(k) == {i \in 1..k : log[i].key \in keys}
           Good(k, out) == Len(out) = Cardinality(I(k)) /\ ToSet(out) = {log[i] : i \in I(k)}
           G == {p \in (0..Len(log)) \X T : Good(p[1], p[2])}
<1>1. EventsOf(keys) = Selecting!Folded(keys, <<>>, log)
  BY Zenon DEF Selects, EventsOf, FoldLeft, MapThenFoldSet, Max,
     Selecting!Folded, Selecting!FoldLeft, Selecting!MapThenFoldSet, Selecting!Max
<1>2. ASSUME NEW events \in T, NEW e \in S
      PROVE  Selects(keys, events, e) \in T
  <2> HIDE DEF S
  <2> QED
    BY DEF Selects, AddOf
<1>3. <<>> \in T /\ log \in Seq(S) /\ Len(log) \in Nat /\ DOMAIN log = 1..Len(log)
  BY DEF LogInv, ToSet
<1>4. Selecting!Keeps(keys, T, S)
  <2> HIDE DEF T, S
  <2> QED
    BY <1>2, Zenon DEF Selecting!Keeps
<1>5. <<0, <<>>>> \in G
  <2>1. I(0) = {} /\ Len(<<>>) = 0 /\ ToSet(<<>>) = {} /\ 0 \in 0..Len(log)
    BY <1>3 DEF ToSet
  <2>2. Good(0, <<>>)
    BY <2>1, FS_EmptySet
  <2> HIDE DEF Good, T
  <2> QED
    BY <1>3, <2>1, <2>2
<1>6. ASSUME NEW k \in 1..Len(log), NEW out \in T, <<k - 1, out>> \in G
      PROVE  <<k, Selects(keys, out, log[k])>> \in G
  <2> DEFINE e == log[k]
             next == Selects(keys, out, e)
  <2>1. /\ Len(out) = Cardinality(I(k - 1)) /\ ToSet(out) = {log[i] : i \in I(k - 1)}
        /\ k \in 0..Len(log) /\ e \in S
    <3>1. k \in 0..Len(log) /\ e \in S
      BY <1>3
    <3>2. Good(k - 1, out)
      <4> HIDE DEF Good, T
      <4> QED
        BY <1>6
    <3> QED
      BY <3>1, <3>2
  <2>2. IsFiniteSet(I(k - 1)) /\ k \notin I(k - 1)
    <3>1. I(k - 1) \in SUBSET DOMAIN log
      BY <1>3
    <3>2. IsFiniteSet(I(k - 1))
      BY <3>1, LogParts
    <3> QED
      BY <3>2
  <2>3. CASE e.key \in keys
    <3>1. I(k) = I(k - 1) \union {k}
      BY <2>3
    <3>2. Cardinality(I(k)) = Cardinality(I(k - 1)) + 1
      <4> HIDE DEF I
      <4> QED
        BY <2>2, <3>1, FS_AddElement
    <3>3. {log[i] : i \in I(k)} = {log[i] : i \in I(k - 1)} \union {e}
      <4> HIDE DEF I
      <4> QED
        BY <3>1
    <3>4. next = Append(out, e)
      BY <2>3, Zenon DEF Selects, AddOf
    <3> HIDE DEF e, I, S
    <3>5. next \in T /\ Len(next) = Len(out) + 1 /\ ToSet(next) = ToSet(out) \union {e}
      <4> HIDE DEF next
      <4> QED
        BY <2>1, <3>4 DEF ToSet
    <3> HIDE DEF next, T
    <3>6. Good(k, next)
      BY <2>1, <3>2, <3>3, <3>5
    <3> HIDE DEF Good
    <3> QED
      BY <2>1, <3>5, <3>6 DEF next, e
  <2>4. CASE e.key \notin keys
    <3>1. I(k) = I(k - 1)
      BY <2>4
    <3>2. next = out
      BY <2>4, Zenon DEF Selects, AddOf
    <3> HIDE DEF I, S, T
    <3>3. Good(k, next)
      BY <2>1, <3>1, <3>2
    <3> HIDE DEF Good
    <3> QED
      BY <2>1, <3>2, <3>3
  <2> QED
    BY <2>3, <2>4
<1>7. <<Len(log), Selecting!Folded(keys, <<>>, log)>> \in G
  <2> HIDE DEF G, T, S
  <2> QED
    BY <1>3, <1>4, <1>5, <1>6, Selecting!FoldReaches
<1>8. I(Len(log)) = At(keys)
  BY <1>3 DEF At
<1> DEFINE last == EventsOf(keys)
<1>9. Good(Len(log), last)
  <2> HIDE DEF Good, T, last
  <2> QED
    BY <1>1, <1>7 DEF last
<1> QED
  BY <1>8, <1>9

\* A property is compiled from every event of its keys, each once.
LEMMA EventsInCounted ==
    ASSUME LogInv, NEW keys
    PROVE  /\ Len(EventsIn(keys)) = Cardinality(At(keys))
           /\ ToSet(EventsIn(keys)) = {log[i] : i \in At(keys)}
           /\ IsFiniteSet(At(keys)) /\ Cardinality(At(keys)) \in Nat
<1>1. EventsOf(keys) \in Seq(Events)
  <2>1. EventsOf(keys) \in Seq(ToSet(log)) /\ ToSet(log) \subseteq Events
    BY EventsOfType DEF LogInv, ToSet
  <2> QED
    BY <2>1
<1>2. Len(EventsIn(keys)) = Len(EventsOf(keys))
  BY <1>1, ChronologicalLength, Zenon DEF EventsIn
<1>3. ToSet(EventsIn(keys)) = ToSet(EventsOf(keys))
  BY EventsInFacts, Zenon DEF Sorted
<1>4. At(keys) \in SUBSET DOMAIN log
  BY DEF At
<1> QED
  BY <1>2, <1>3, <1>4, EventsOfFacts, LogParts, Zenon

-----------------------------------------------------------------------------
(* What locates a property.                                                  *)

LEMMA PicksOne ==
    ASSUME NEW field, NEW values, NEW none
    PROVE  PickRole(<<field>>, values, none) = IF field \in DOMAIN values THEN values[field] ELSE none
<1> DEFINE roles == <<field>>
           has == {i \in DOMAIN roles : roles[i] \in DOMAIN values}
<1>1. roles[1] = field /\ DOMAIN roles = 1..1
  OBVIOUS
<1>2. PickRole(roles, values, none) = IF has = {} THEN none ELSE values[roles[Min(has)]]
  BY Zenon DEF PickRole
<1>3. has \in SUBSET (1..1) /\ (field \in DOMAIN values => 1 \in has)
      /\ (field \notin DOMAIN values => has = {})
  BY <1>1
<1> HIDE DEF has
<1>4. has # {} => Min(has) = 1
  <2>1. Min(has) = Placing!Min(has)
    BY Zenon DEF Min, Placing!Min
  <2>2. has # {} => Placing!Min(has) \in has
    BY <1>3, Placing!MinOfPart
  <2> DEFINE first == Placing!Min(has)
  <2>3. has # {} => first \in 1..1
    BY <1>3, <2>2
  <2> HIDE DEF first
  <2>4. has # {} => first = 1
    BY <2>3
  <2> QED
    BY <2>1, <2>4 DEF first
<1> HIDE DEF roles
<1>5. PickRole(roles, values, none) = IF field \in DOMAIN values THEN values[field] ELSE none
  BY <1>1, <1>2, <1>3, <1>4
<1> QED
  BY <1>5 DEF roles

LEMMA NothingNormalized == NormalizeParcel(<<>>) = <<>> /\ NormalizeAddress(<<>>) = <<>>
<1>1. NormalizeParcel(<<>>) = Spelling!Folded({}, <<>>, <<>>)
  BY Zenon DEF Spells, NormalizeParcel, FoldLeft, MapThenFoldSet, Max,
     Spelling!Folded, Spelling!FoldLeft, Spelling!MapThenFoldSet, Spelling!Max
<1> DEFINE T == {<<>>}
           s == <<>>
<1>2. s \in T /\ s \in Seq({}) /\ Spelling!Keeps({}, T, {})
  BY DEF Spelling!Keeps
<1> HIDE DEF s, T
<1>3. Spelling!Folded({}, s, s) \in T
  BY <1>2, Spelling!FoldType
<1>4. NormalizeAddress(<<>>) = <<>>
  BY DEF NormalizeAddress
<1> QED
  BY <1>1, <1>3, <1>4 DEF s, T

\* What an event's key comes from.
LEMMA KeyOfEvent ==
    ASSUME NEW e \in Events
    PROVE  /\ "parcel_id" \in DOMAIN e.details => e.details["parcel_id"] # <<>>
           /\ e.key.parcel # <<>> => "parcel_id" \in DOMAIN e.details
           /\ e.key.parcel = <<>> =>
                 HasAddress(e) /\ e.key.address = NormalizeAddress(e.details["address"])
<1>1. PICK s \in Sources, n \in Nat : e \in EventsRead(s, n)
  BY DEF Events
<1>2. PICK batch \in Batches[s] :
         e \in {x \in {BuildEvent(Context(s, batch, n), values) : values \in ToSet(batch.records)} :
                  HasIdentity(x)}
  BY <1>1, Zenon DEF EventsRead
<1>3. PICK values \in ToSet(batch.records) :
         e = BuildEvent(Context(s, batch, n), values) /\ HasIdentity(e)
  BY <1>2, Zenon
<1> DEFINE parcel == PickRole(<<"parcel_id">>, values, <<>>)
           address == PickRole(<<"address">>, values, <<>>)
           p == NormalizeParcel(parcel)
           a == NormalizeAddress(address)
<1>4. e.details = values /\ e.key = Key(s.scope, p, a) /\ e.key # NoKey
  BY <1>3, Zenon DEF BuildEvent, Context, PropertyKey, HasIdentity
<1>5. /\ parcel = IF "parcel_id" \in DOMAIN values THEN values["parcel_id"] ELSE <<>>
      /\ address = IF "address" \in DOMAIN values THEN values["address"] ELSE <<>>
  BY PicksOne, Zenon
<1>6. \A field \in {"parcel_id", "address"} \intersect DOMAIN values : values[field] # <<>>
  BY BatchesAssumption, Zenon
<1>7. /\ "parcel_id" \notin DOMAIN values => p = <<>>
      /\ "address" \notin DOMAIN values => a = <<>>
      /\ "address" \in DOMAIN values => a = NormalizeAddress(values["address"])
  BY <1>5, NothingNormalized
<1> HIDE DEF p, a
<1>8. p # <<>> \/ a # <<>>
  BY <1>4, Zenon DEF Key
<1>9. /\ p # <<>> => e.key.parcel = p
      /\ p = <<>> => e.key.parcel = <<>> /\ e.key.address = a
  BY <1>4, <1>8 DEF Key
<1>10. "parcel_id" \in DOMAIN e.details => e.details["parcel_id"] # <<>>
  BY <1>4, <1>6
<1>11. e.key.parcel # <<>> => "parcel_id" \in DOMAIN e.details
  BY <1>4, <1>7, <1>9
<1>12. e.key.parcel = <<>> =>
          HasAddress(e) /\ e.key.address = NormalizeAddress(e.details["address"])
  <2> SUFFICES ASSUME e.key.parcel = <<>>
               PROVE  HasAddress(e) /\ e.key.address = NormalizeAddress(e.details["address"])
    OBVIOUS
  <2>1. p = <<>> /\ e.key.address = a /\ a # <<>>
    BY <1>8, <1>9
  <2>2. "address" \in DOMAIN values
    BY <1>7, <2>1
  <2> QED
    BY <1>4, <1>7, <2>1, <2>2, Zenon DEF HasAddress
<1> QED
  BY <1>10, <1>11, <1>12

\* A field that some event of a property has gets the value of one of them.
LEMMA ValueIsClaimed ==
    ASSUME LogInv, NEW group, NEW field, NEW e \in ToSet(EventsIn(group)), field \in DOMAIN e.details
    PROVE  \E f \in ToSet(EventsIn(group)) :
              field \in DOMAIN f.details /\ Value(group, field, <<>>) = f.details[field]
<1>1. PICK r : /\ Weighs(field, r, Claims(group, field))
               /\ Resolve(group, field) = [r EXCEPT !.seen = NewestFirst(@)]
  BY ResolveWeighs
<1>2. /\ r \in Weighings(field) /\ (r.best = <<>> => Claims(group, field) = {})
      /\ (r.best # <<>> => r.best[1] \in Claims(group, field))
  BY <1>1, Zenon DEF Weighs
<1> DEFINE w == Resolve(group, field)
<1>3. w.best = r.best
  <2> HIDE DEF w
  <2>1. w = [r EXCEPT !.seen = NewestFirst(@)]
    BY <1>1 DEF w
  <2> QED
    BY <1>2, <2>1 DEF Weighings
<1>4. Claim(e, field) \in Claims(group, field)
  BY Zenon DEF Claims
<1>5. r.best # <<>> /\ r.best[1] \in Claims(group, field)
  BY <1>2, <1>4
<1>6. PICK f \in {f \in ToSet(EventsIn(group)) : field \in DOMAIN f.details} : r.best[1] = Claim(f, field)
  BY <1>5, Zenon DEF Claims
<1>7. r.best[1].value = f.details[field]
  BY <1>6 DEF Claim
<1>8. Value(group, field, <<>>) = r.best[1].value
  BY <1>3, <1>5, Zenon DEF Value, ValueOf
<1> QED
  BY <1>6, <1>7, <1>8, Zenon

-----------------------------------------------------------------------------
(* Every key is in one group.                                                *)

Same(j, k) == j = k \/ (j.scope = k.scope /\ OneBuilding(AddressOf(j), AddressOf(k)))

\* What a group of keys is divided into.
Divided(all) ==
    IF Cardinality(all) > 1 /\ ~AddressIsUnique(all) THEN {{k} : k \in all}
    ELSE ToSet(Buckets(all))

LEMMA SameIsOne ==
    ASSUME NEW j, NEW k, NEW l
    PROVE  /\ Same(j, j) /\ (Same(j, k) => Same(k, j))
           /\ Same(j, k) /\ Same(k, l) => Same(j, l)
BY DEF Same, OneBuilding

LEMMA GroupsAre ==
    /\ Groups = UNION {Divided(GroupOf(key)) : key \in CountyKeys}
    /\ \A key, k : k \in GroupOf(key) <=> k \in CountyKeys /\ Same(k, key)
<1>1. Groups = UNION {Divided(GroupOf(key)) : key \in CountyKeys}
  BY Zenon DEF Groups, Divided
<1>2. \A key, k : k \in GroupOf(key) <=> k \in CountyKeys /\ Same(k, key)
  BY Zenon DEF GroupOf, Same
<1> QED
  BY <1>1, <1>2

LEMMA DividedFacts ==
    ASSUME NEW all, IsFiniteSet(all)
    PROVE  /\ \A part \in Divided(all) : part \subseteq all
           /\ \A k \in all : \E part \in Divided(all) : k \in part
           /\ \A one, other \in Divided(all) : one \intersect other # {} => one = other
<1>1. CASE Cardinality(all) > 1 /\ ~AddressIsUnique(all)
  <2>1. Divided(all) = {{k} : k \in all}
    BY <1>1, Zenon DEF Divided
  <2> QED
    BY <2>1
<1>2. CASE ~(Cardinality(all) > 1 /\ ~AddressIsUnique(all))
  <2> DEFINE b == Buckets(all)
  <2>1. Divided(all) = ToSet(b)
    BY <1>2, Zenon DEF Divided
  <2>2. Bucketed(b, all)
    BY BucketsFacts
  <2> HIDE DEF b
  <2>3. UNION ToSet(b) = all
    BY <2>2 DEF Bucketed
  <2>4. ASSUME NEW one \in ToSet(b), NEW other \in ToSet(b), one \intersect other # {}
        PROVE  one = other
    <3>1. PICK i \in DOMAIN b : one = b[i]
      BY Zenon DEF ToSet
    <3>2. PICK j \in DOMAIN b : other = b[j]
      BY Zenon DEF ToSet
    <3>3. i = j
      BY <2>2, <2>4, <3>1, <3>2, Zenon DEF Bucketed
    <3> QED
      BY <3>1, <3>2, <3>3
  <2> QED
    BY <2>1, <2>3, <2>4
<1> QED
  BY <1>1, <1>2

\* The groups divide the county's keys.
LEMMA GroupsDivide ==
    ASSUME LogInv
    PROVE  /\ IsFiniteSet(Groups) /\ \A group \in Groups : group \subseteq CountyKeys
           /\ \A key \in CountyKeys : \E group \in Groups : key \in group
           /\ \A one, other \in Groups : one \intersect other # {} => one = other
           /\ \A group \in Groups : \A j, k \in group : Same(j, k)
<1>1. IsFiniteSet(CountyKeys) /\ \A key : GroupOf(key) \in SUBSET CountyKeys
  <2>1. PICK S : log \in Seq(S)
    BY DEF LogInv
  <2> QED
    BY <2>1, KeysFinite
<1>2. \A key : IsFiniteSet(GroupOf(key))
  BY <1>1, FS_Subset
<1>3. ASSUME NEW key, NEW part \in Divided(GroupOf(key))
      PROVE  part \subseteq GroupOf(key) /\ part \subseteq CountyKeys
  BY <1>1, <1>2, DividedFacts
<1>4. \A group \in Groups : \E key \in CountyKeys : group \in Divided(GroupOf(key))
  BY GroupsAre, Zenon
<1>5. \A group \in Groups : group \subseteq CountyKeys
  BY <1>3, <1>4
<1>6. IsFiniteSet(Groups)
  <2>1. Groups \subseteq SUBSET CountyKeys
    BY <1>5
  <2>2. IsFiniteSet(SUBSET CountyKeys)
    BY <1>1, FS_SUBSET
  <2> QED
    BY <2>1, <2>2, FS_Subset
<1>7. ASSUME NEW key \in CountyKeys
      PROVE  \E group \in Groups : key \in group
  <2>1. key \in GroupOf(key)
    BY GroupsAre, SameIsOne, Zenon
  <2>2. PICK part \in Divided(GroupOf(key)) : key \in part
    BY <1>2, <2>1, DividedFacts
  <2>3. part \in Groups
    BY GroupsAre, Zenon
  <2> QED
    BY <2>2, <2>3
<1>8. ASSUME NEW one \in Groups, NEW other \in Groups, one \intersect other # {}
      PROVE  one = other
  <2>1. PICK k : k \in one /\ k \in other
    BY <1>8
  <2>2. PICK a \in CountyKeys : one \in Divided(GroupOf(a))
    BY <1>4
  <2>3. PICK b \in CountyKeys : other \in Divided(GroupOf(b))
    BY <1>4
  <2>4. k \in GroupOf(a) /\ k \in GroupOf(b)
    BY <1>3, <2>1, <2>2, <2>3
  <2>5. Same(a, b)
    BY <2>4, GroupsAre, SameIsOne, Zenon
  <2>6. \A l : l \in GroupOf(a) <=> l \in GroupOf(b)
    BY <2>5, GroupsAre, SameIsOne, Zenon
  <2>7. GroupOf(a) = GroupOf(b)
    BY <2>6
  <2> QED
    BY <1>2, <1>8, <2>2, <2>3, <2>7, DividedFacts
<1>9. ASSUME NEW group \in Groups, NEW j \in group, NEW k \in group
      PROVE  Same(j, k)
  <2>1. PICK a \in CountyKeys : group \in Divided(GroupOf(a))
    BY <1>4
  <2>2. j \in GroupOf(a) /\ k \in GroupOf(a)
    BY <1>3, <2>1
  <2> QED
    BY <2>2, GroupsAre, SameIsOne, Zenon
<1> QED
  BY <1>5, <1>6, <1>7, <1>8, <1>9

-----------------------------------------------------------------------------
(* What a report leaves out.                                                 *)

\* An address that was written down is parsed as its key's is.
LEMMA AddressOfKey ==
    ASSUME LogInv, NEW i \in DOMAIN log, log[i].key.parcel = <<>>
    PROVE  /\ HasAddress(log[i])
           /\ ParseAddress(log[i].details["address"]) = AddressOf(log[i].key)
<1> DEFINE key == log[i].key
           has == {j \in DOMAIN log : log[j].key = key /\ HasAddress(log[j])}
           first == Min(has)
<1>1. /\ log \in Seq(Events) /\ DOMAIN log = 1..Len(log) /\ Len(log) \in Nat
      /\ \A j \in DOMAIN log : log[j] \in Events
  BY DEF LogInv
<1>2. HasAddress(log[i]) /\ key.address = NormalizeAddress(log[i].details["address"])
  BY <1>1, KeyOfEvent
<1>3. i \in has
  BY <1>2
<1>4. has \in SUBSET (1..Len(log)) /\ \A j \in has : j \in DOMAIN log /\ log[j].key = key
  BY <1>1
<1>5. AddressOf(key) = ParseAddress(IF has = {} THEN <<>> ELSE log[first].details["address"])
  BY Zenon DEF AddressOf
<1> HIDE DEF has
<1>6. first \in has
  <2>1. Min(has) = Placing!Min(has)
    BY Zenon DEF Min, Placing!Min
  <2> QED
    BY <1>1, <1>3, <1>4, <2>1, Placing!MinOfPart
<1> HIDE DEF first, key
<1>7. key.address = NormalizeAddress(log[first].details["address"])
  <2>1. log[first].key = key /\ log[first] \in Events /\ key.parcel = <<>>
    BY <1>1, <1>4, <1>6 DEF key
  <2> QED
    BY <2>1, KeyOfEvent
<1>8. AddressOf(key) = ParseWords(key.address)
  BY <1>3, <1>5, <1>7, Zenon DEF ParseAddress
<1>9. ParseAddress(log[i].details["address"]) = ParseWords(key.address)
  BY <1>2, Zenon DEF ParseAddress
<1> QED
  BY <1>2, <1>8, <1>9, Zenon DEF key

\* A group with a key that a parcel or a building's address locates is listed.
LEMMA LocatedIsListed ==
    ASSUME LogInv, NEW group \in Groups, NEW i \in DOMAIN log, log[i].key \in group,
           log[i].key.parcel # <<>> \/ AddressOf(log[i].key).locatable
    PROVE  Locates(group)
<1> DEFINE events == ToSet(EventsIn(group))
<1>1. events = {log[j] : j \in At(group)} /\ i \in At(group)
  BY EventsInCounted DEF At
<1>2. \A e \in events : e \in Events /\ \E j \in DOMAIN log : e = log[j] /\ log[j].key \in group
  BY <1>1 DEF At, LogInv
<1>3. log[i] \in events
  BY <1>1
<1> HIDE DEF events
<1>4. ASSUME NEW e \in events, "parcel_id" \in DOMAIN e.details
      PROVE  Locates(group)
  <2>1. PICK f \in events :
           "parcel_id" \in DOMAIN f.details /\ Value(group, "parcel_id", <<>>) = f.details["parcel_id"]
    BY <1>4, ValueIsClaimed DEF events
  <2>2. f.details["parcel_id"] # <<>>
    BY <1>2, <2>1, KeyOfEvent
  <2> QED
    BY <2>1, <2>2, Zenon DEF Locates
<1>5. ASSUME \A e \in events : "parcel_id" \notin DOMAIN e.details
      PROVE  Locates(group)
  <2>1. \A e \in events : e.key.parcel = <<>>
    BY <1>2, <1>5, KeyOfEvent
  <2>2. log[i].key.parcel = <<>> /\ AddressOf(log[i].key).locatable /\ HasAddress(log[i])
    BY <1>3, <2>1, AddressOfKey
  <2>3. PICK f \in events :
           "address" \in DOMAIN f.details /\ Value(group, "address", <<>>) = f.details["address"]
    BY <1>3, <2>2, ValueIsClaimed, Zenon DEF HasAddress, events
  <2>4. PICK j \in DOMAIN log : f = log[j] /\ log[j].key \in group
    BY <1>2
  <2>5. ParseAddress(f.details["address"]) = AddressOf(log[j].key)
    BY <2>1, <2>4, AddressOfKey
  <2>6. Same(log[j].key, log[i].key)
    BY <2>4, GroupsDivide
  <2>7. AddressOf(log[j].key).locatable
    BY <2>2, <2>6, Zenon DEF Same, OneBuilding
  <2> QED
    BY <2>3, <2>5, <2>7, Zenon DEF Locates
<1> QED
  BY <1>4, <1>5

-----------------------------------------------------------------------------
(* The report.                                                               *)

\* Two sets without a common element are as large as both.
LEMMA SizeOfBoth ==
    ASSUME NEW A, NEW B, IsFiniteSet(A), IsFiniteSet(B), A \intersect B = {}
    PROVE  Cardinality(A \union B) = Cardinality(A) + Cardinality(B)
<1>1. Cardinality(A \intersect B) = 0
  BY FS_EmptySet
<1>2. Cardinality(A \union B) = Cardinality(A) + Cardinality(B) - Cardinality(A \intersect B)
  BY FS_Union
<1>3. Cardinality(A) \in Nat /\ Cardinality(B) \in Nat
  BY FS_CardinalityType
<1> QED
  BY <1>1, <1>2, <1>3

Located == {group \in Groups : Locates(group)}
Properties == {Property(group) : group \in Located}

LEMMA PropertyHas ==
    ASSUME NEW group
    PROVE  Property(group).keys = group /\ Property(group).events = EventsIn(group)
BY DEF Property, PropertyOf

\* Each group that is located is listed once.
LEMMA ReportLists ==
    ASSUME LogInv
    PROVE  /\ Lists(Report, Properties) /\ IsFiniteSet(Properties)
           /\ IsFiniteSet(Located) /\ Len(Report) = Cardinality(Located)
<1>1. IsFiniteSet(Groups) /\ Located \subseteq Groups
  BY GroupsDivide, Zenon DEF Located
<1>2. IsFiniteSet(Located)
  BY <1>1, FS_Subset
<1> DEFINE f == [group \in Located |-> Property(group)]
<1>3. f \in [Located -> Properties] /\ \A p \in Properties : \E group \in Located : f[group] = p
  BY Zenon DEF Properties
<1>4. ASSUME NEW one \in Located, NEW other \in Located, f[one] = f[other]
      PROVE  one = other
  <2>1. Property(one) = Property(other)
    BY <1>4
  <2>2. Property(one).keys = one /\ Property(other).keys = other
    BY PropertyHas, Zenon
  <2> QED
    BY <2>1, <2>2, Zenon
<1> HIDE DEF f
<1>5. f \in Surjection(Located, Properties) /\ f \in Injection(Located, Properties)
  BY <1>3, <1>4 DEF Surjection, Injection, IsInjective
<1>6. IsFiniteSet(Properties) /\ Cardinality(Properties) = Cardinality(Located)
  BY <1>2, <1>5, FS_Surjection
<1>7. Report = SortSet(Worse, Properties)
  BY Zenon DEF Report, Properties, Located
<1>8. Lists(Report, Properties)
  BY <1>6, <1>7, WorstListed
<1> QED
  BY <1>2, <1>6, <1>8, Zenon DEF Lists

\* No two properties of a report share a key.
LEMMA ReportApart ==
    ASSUME LogInv
    PROVE  /\ \A m \in DOMAIN Report : \E group \in Located : Report[m] = Property(group)
           /\ \A m, n \in DOMAIN Report : Report[m].keys \intersect Report[n].keys # {} => m = n
<1> DEFINE r == Report
<1>1. Lists(r, Properties) /\ \A i, j \in DOMAIN r : r[i] = r[j] => i = j
  BY ReportLists, ListsOnce
<1> HIDE DEF r
<1>2. \A m \in DOMAIN r : \E group \in Located : r[m] = Property(group)
  <2>1. \A m \in DOMAIN r : r[m] \in Properties
    BY <1>1 DEF Lists
  <2> QED
    BY <2>1, Zenon DEF Properties
<1>3. ASSUME NEW m \in DOMAIN r, NEW n \in DOMAIN r, r[m].keys \intersect r[n].keys # {}
      PROVE  m = n
  <2>1. PICK one \in Located : r[m] = Property(one)
    BY <1>2
  <2>2. PICK other \in Located : r[n] = Property(other)
    BY <1>2
  <2>3. r[m].keys = one /\ r[n].keys = other
    BY <2>1, <2>2, PropertyHas, Zenon
  <2>4. one \intersect other # {} /\ one \in Groups /\ other \in Groups
    BY <1>3, <2>3, Zenon DEF Located
  <2>5. one = other
    BY <2>4, GroupsDivide, Zenon
  <2> QED
    BY <1>1, <2>1, <2>2, <2>5, Zenon
<1> QED
  BY <1>2, <1>3, Zenon DEF r

\* The events of the first k properties of a report, as they lie in the log.
ShownBy(k) == {i \in DOMAIN log : \E m \in 1..k : log[i].key \in Report[m].keys}

LEMMA ShownGrows ==
    ASSUME LogInv, NEW k \in 1..Len(Report)
    PROVE  /\ Cardinality(ShownBy(k - 1)) \in Nat
           /\ Cardinality(ShownBy(k)) = Cardinality(ShownBy(k - 1)) + Len(Report[k].events)
<1> DEFINE r == Report
           before == ShownBy(k - 1)
           more == At(r[k].keys)
<1>1. Lists(r, Properties) /\ DOMAIN r = 1..Len(r) /\ Len(r) \in Nat
  <2> HIDE DEF r
  <2>1. Lists(r, Properties)
    BY ReportLists DEF r
  <2> QED
    BY <2>1 DEF Lists
<1> HIDE DEF r
<1>2. k \in DOMAIN r /\ \A m \in 1..(k - 1) : m \in DOMAIN r /\ m # k
  BY <1>1 DEF r
<1>3. PICK group \in Located : r[k] = Property(group)
  BY <1>2, ReportApart DEF r
<1>4. Len(r[k].events) = Cardinality(more)
  BY <1>3, PropertyHas, EventsInCounted, Zenon
<1>5. ShownBy(k) = before \union more
  <2>1. 1..k = (1..(k - 1)) \union {k}
    OBVIOUS
  <2> QED
    BY <2>1, Zenon DEF ShownBy, At, r
<1>6. before \intersect more = {}
  <2> SUFFICES ASSUME NEW i \in before, i \in more
               PROVE  FALSE
    OBVIOUS
  <2>1. PICK m \in 1..(k - 1) : log[i].key \in r[m].keys
    BY Zenon DEF ShownBy, r
  <2>2. log[i].key \in r[k].keys
    BY Zenon DEF At
  <2>3. r[m].keys \intersect r[k].keys # {}
    BY <2>1, <2>2
  <2> QED
    BY <1>2, <2>1, <2>3, ReportApart DEF r
<1>7. before \in SUBSET DOMAIN log /\ more \in SUBSET DOMAIN log
  BY Zenon DEF ShownBy, At
<1>8. /\ IsFiniteSet(before) /\ IsFiniteSet(more)
      /\ Cardinality(before) \in Nat /\ Cardinality(more) \in Nat
  BY <1>7, LogParts
<1> HIDE DEF before, more
<1>9. Cardinality(before \union more) = Cardinality(before) + Cardinality(more)
  BY <1>6, <1>8, SizeOfBoth
<1> QED
  BY <1>4, <1>5, <1>8, <1>9 DEF before, r

\* The events its properties are compiled from are as many as the log has of them.
LEMMA ReportCounts ==
    ASSUME LogInv
    PROVE  Cardinality(Shown(Report)) = FoldLeft(LAMBDA n, p : n + Len(p.events), 0, Report)
<1> DEFINE r == Report
           last == Counting!Folded({}, 0, r)
<1>1. FoldLeft(LAMBDA n, p : n + Len(p.events), 0, r) = last
  <2> HIDE DEF r
  <2> QED
    BY Zenon DEF last, Counts, FoldLeft, MapThenFoldSet, Max,
       Counting!Folded, Counting!FoldLeft, Counting!MapThenFoldSet, Counting!Max
<1>2. r \in Seq(Properties) /\ DOMAIN r = 1..Len(r) /\ Len(r) \in Nat
  <2> HIDE DEF r
  <2>1. Lists(r, Properties)
    BY ReportLists DEF r
  <2> QED
    BY <2>1 DEF Lists
<1> HIDE DEF last, r
<1>3. Counting!Keeps({}, Nat, Properties)
  <2>1. ASSUME NEW n \in Nat, NEW p \in Properties
        PROVE  Counts({}, n, p) \in Nat
    <3>1. PICK group \in Located : p = Property(group)
      BY Zenon DEF Properties
    <3>2. Len(p.events) = Cardinality(At(group)) /\ Cardinality(At(group)) \in Nat
      BY <3>1, PropertyHas, EventsInCounted, Zenon
    <3> QED
      BY <3>2 DEF Counts
  <2> QED
    BY <2>1, Zenon DEF Counting!Keeps
<1> DEFINE G == {p \in (0..Len(r)) \X Nat : p[2] = Cardinality(ShownBy(p[1]))}
<1>4. <<0, 0>> \in G
  <2>1. ShownBy(0) = {} /\ 0 \in 0..Len(r)
    BY <1>2 DEF ShownBy
  <2> QED
    BY <2>1, FS_EmptySet
<1>5. ASSUME NEW k \in 1..Len(r), NEW n \in Nat, <<k - 1, n>> \in G
      PROVE  <<k, Counts({}, n, r[k])>> \in G
  <2>1. n = Cardinality(ShownBy(k - 1)) /\ k \in 0..Len(r)
    BY <1>2, <1>5
  <2>2. Cardinality(ShownBy(k)) = n + Len(r[k].events)
    BY <2>1, ShownGrows DEF r
  <2>3. r[k] \in Properties
    BY <1>2
  <2>4. Counts({}, n, r[k]) \in Nat
    BY <1>3, <2>3, Zenon DEF Counting!Keeps
  <2>5. Counts({}, n, r[k]) = Cardinality(ShownBy(k))
    BY <2>2, Zenon DEF Counts
  <2> QED
    BY <2>1, <2>4, <2>5
<1>6. <<Len(r), last>> \in G
  <2> HIDE DEF G
  <2>1. 0 \in Nat
    OBVIOUS
  <2> QED
    BY <1>2, <1>3, <1>4, <1>5, <2>1, Counting!FoldReaches DEF last
<1>7. last = Cardinality(ShownBy(Len(r)))
  BY <1>6
<1>8. Shown(Report) = ShownBy(Len(r))
  BY <1>2, Zenon DEF Shown, ShownBy, ToSet, r
<1> QED
  BY <1>1, <1>7, <1>8, Zenon DEF r

\* A county's report has no event twice, and leaves out only events that neither a
\* parcel nor a building's address locates; what it hides are all it leaves out
\* (compile.cpp 229-343).
THEOREM ReportedOnce == Spec => []EventsReportedOnce
<1>1. ASSUME LogInv
      PROVE  EventsReportedOnce
  <2>1. ASSUME NEW i \in DOMAIN log, log[i].key \in CountyKeys,
               log[i].key.parcel # <<>> \/ AddressOf(log[i].key).locatable
        PROVE  i \in Shown(Report)
    <3>1. PICK group \in Groups : log[i].key \in group
      BY <1>1, <2>1, GroupsDivide
    <3>2. Locates(group)
      BY <1>1, <2>1, <3>1, LocatedIsListed
    <3>3. Property(group) \in Properties
      BY <3>2, Zenon DEF Properties, Located
    <3>4. Property(group) \in ToSet(Report)
      BY <1>1, <3>3, ReportLists DEF Lists
    <3> QED
      BY <3>1, <3>4, PropertyHas, Zenon DEF Shown
  <2>2. Accounts(Report)
    BY <1>1, <2>1, ReportApart, ReportCounts, Zenon DEF Accounts
  <2>3. Hidden + Len(Report) = Cardinality(Groups)
    <3> DEFINE rest == {group \in Groups : ~Locates(group)}
    <3>1. IsFiniteSet(Groups) /\ IsFiniteSet(Located) /\ Len(Report) = Cardinality(Located)
      BY <1>1, GroupsDivide, ReportLists
    <3>2. /\ Groups = rest \union Located /\ rest \intersect Located = {}
          /\ rest \subseteq Groups /\ Hidden = Cardinality(rest)
      BY Zenon DEF Located, Hidden
    <3> HIDE DEF rest
    <3>3. IsFiniteSet(rest)
      BY <3>1, <3>2, FS_Subset
    <3>4. Cardinality(rest) \in Nat /\ Cardinality(Located) \in Nat
      BY <3>1, <3>3, FS_CardinalityType
    <3>5. Cardinality(rest \union Located) = Cardinality(rest) + Cardinality(Located)
      BY <3>1, <3>2, <3>3, SizeOfBoth
    <3> QED
      BY <3>1, <3>2, <3>5
  <2> QED
    BY <2>2, <2>3, Zenon DEF EventsReportedOnce
<1> QED
  BY <1>1, LogAlways, PTL
=============================================================================
