------------------------------ MODULE Compile -------------------------------
(* compile::county_from_events (engine/compile.cpp) over the events the runs   *)
(* of a county's sources leave in the store.  A run hands over what it read at *)
(* once; Ingest models how it does.  Trust and confidence are numbers, an      *)
(* edition is a number and 0 where a source has none.                          *)
EXTENDS Integers, FiniteSets, SequencesExt, TLC, Lifecycle

CONSTANTS
    Sources,            \* [id, scope, label, asOf]
    Batches,            \* source -> what a run may read: [records, trust, confidence]
    Fields,             \* the schema's fields, in its order
    Authority,          \* field -> the label that wins conflicts on it; "" for none
    CountyScopes,       \* the jurisdictions whose slug contains the county's
    KeyBefore(_, _),    \* the order of property keys: text
    MaxRuns             \* bound on runs

ASSUME RunsAssumption == MaxRuns \in Nat

IsSequence(s) == s \in Seq(ToSet(s))

\* An edition is a number, and so is a date; a value that is there is not empty.
ASSUME BatchesAssumption ==
    \A s \in Sources :
        /\ s.asOf \in Nat
        /\ \A batch \in Batches[s] :
              /\ IsSequence(batch.records)
              /\ \A values \in ToSet(batch.records) :
                    /\ \A field \in {"event_date", "auction_date"} \intersect DOMAIN values :
                          values[field] \in Int
                    /\ \A field \in {"parcel_id", "address"} \intersect DOMAIN values :
                          values[field] # <<>>

Context(s, batch, recordedAt) ==
    [scope |-> s.scope, source |-> s.id, label |-> s.label, asOf |-> s.asOf,
     recordedAt |-> recordedAt, confidence |-> batch.confidence]

\* What a source can come to have stored when it is run for the n-th time.
EventsRead(s, n) ==
    UNION {{e \in {BuildEvent(Context(s, batch, n), values) : values \in ToSet(batch.records)} :
               HasIdentity(e)} : batch \in Batches[s]}

EventIds == UNION {{e.id : e \in EventsRead(s, 0)} : s \in Sources}

\* Ids are compared as text, which orders any two of them.
ASSUME OrderAssumption ==
    /\ \A a, b \in EventIds : a = b <=> ~Before(a, b) /\ ~Before(b, a)
    /\ \A a, b, c \in EventIds : Before(a, b) /\ Before(b, c) => Before(a, c)

VARIABLES
    log,        \* the stored events, in the order they were appended
    trust,      \* source id -> field -> confidence of its mapping
    runs        \* how many runs there were

vars == <<log, trust, runs>>

Init == log = <<>> /\ trust = <<>> /\ runs = 0

AddEvent(events, e) ==
    IF \E i \in DOMAIN events : events[i].id = e.id THEN events ELSE Append(events, e)

\* A run stores the events that are not there yet and measures its mapping anew.
Run(s) == \E batch \in Batches[s] :
    /\ runs < MaxRuns /\ runs' = runs + 1
    /\ log' = FoldLeft(AddEvent, log, BuildEvents(Context(s, batch, runs + 1), batch.records))
    /\ trust' = (s.id :> batch.trust) @@ trust

Next == \E s \in Sources : Run(s)

Spec == Init /\ [][Next]_vars
-----------------------------------------------------------------------------
AddOf(keys, events, e) == IF e.key \in keys THEN Append(events, e) ELSE events

\* The events of some properties, as they lie in the file.
EventsOf(keys) == FoldLeft(LAMBDA events, e : AddOf(keys, events, e), <<>>, log)

CountyKeys == {k \in {log[i].key : i \in DOMAIN log} : k.scope \in CountyScopes}

HasAddress(e) == "address" \in DOMAIN e.details

\* A property's address is the first one its events have, as they lie in the file.
AddressOf(key) ==
    LET has == {i \in DOMAIN log : log[i].key = key /\ HasAddress(log[i])} IN
    ParseAddress(IF has = {} THEN <<>> ELSE log[Min(has)].details["address"])

OneBuilding(a, b) ==
    /\ a.locatable /\ b.locatable
    /\ a.number = b.number /\ a.street = b.street /\ a.unit = b.unit

\* Properties of one jurisdiction with one number, street and unit are one group;
\* without a building's address a property is a group of its own.
GroupOf(key) ==
    {k \in CountyKeys :
        k = key \/ (k.scope = key.scope /\ OneBuilding(AddressOf(k), AddressOf(key)))}

ParcelsOf(source, keys) ==
    {log[i].details["parcel_id"] :
        i \in {i \in DOMAIN log : /\ log[i].key \in keys /\ log[i].source = source
                                  /\ "parcel_id" \in DOMAIN log[i].details}}

\* A source that has two parcels at the address says it is not one property.
AddressIsUnique(keys) ==
    \A s \in Sources : Cardinality(ParcelsOf(s.id, keys)) <= 1

\* A key joins the first bucket that fits, else one of its own.
Join(buckets, key, fits) ==
    IF fits = {} THEN Append(buckets, {key})
    ELSE [buckets EXCEPT ![CHOOSE i \in fits : \A j \in fits : i <= j] = @ \union {key}]

\* Mutant: one member it may share an address with will do.
PlaceAny(buckets, key) ==
    Join(buckets, key, {i \in DOMAIN buckets :
                           \E k \in buckets[i] : Compatible(AddressOf(key), AddressOf(k))})

\* A bucket fits if the key may share an address with all its members.
Place(buckets, key) ==
    Join(buckets, key, {i \in DOMAIN buckets :
                           \A k \in buckets[i] : Compatible(AddressOf(key), AddressOf(k))})

Buckets(keys) == FoldLeft(Place, <<>>, SortSet(KeyBefore, keys))

\* The sets of keys that are compiled into one property each.
Groups ==
    UNION {IF Cardinality(group) > 1 /\ ~AddressIsUnique(group) THEN {{k} : k \in group}
           ELSE ToSet(Buckets(group)) : group \in {GroupOf(k) : k \in CountyKeys}}

EventsIn(group) == Chronological(EventsOf(group))
-----------------------------------------------------------------------------
SameValue(field, a, b) ==
    IF field \in {"address", "mailing_address"} THEN NormalizeAddress(a) = NormalizeAddress(b)
    ELSE a = b

\* What an event says of a field, with the confidence it is held with.
Claim(e, field) ==
    [value |-> e.details[field], source |-> e.source, date |-> e.date, asOf |-> e.asOf,
     label |-> e.label,
     confidence |-> IF e.source \in DOMAIN trust /\ field \in DOMAIN trust[e.source]
                    THEN trust[e.source][field] ELSE e.confidence]

\* Mutant: an edition does not count.
WinsByConfidence(field, c, best) ==
    \/ c.confidence > best.confidence
    \/ c.confidence = best.confidence /\ c.date >= best.date

\* The better of two claims: of the field's authority, else of a newer edition,
\* else held with more confidence, else made later.
Wins(field, c, best) ==
    LET authority == Authority[field]
        ours == c.label = authority
        theirs == best.label = authority IN
    CASE authority # "" /\ ours # theirs -> ours
      [] ~(authority # "" /\ ours # theirs) /\ c.asOf # 0 /\ best.asOf # 0 /\ c.asOf # best.asOf ->
            c.asOf > best.asOf
      [] OTHER -> \/ c.confidence > best.confidence
                  \/ c.confidence = best.confidence /\ c.date >= best.date

AddObservation(seen, c) ==
    IF \E i \in DOMAIN seen : seen[i].asOf = c.asOf /\ seen[i].source = c.source THEN seen
    ELSE Append(seen, [asOf |-> c.asOf, value |-> c.value, source |-> c.source])

\* Mutant: only a value that is replaced is kept as a conflict.
WeighReplaced(field, r, c) ==
    LET wins == r.best = <<>> \/ Wins(field, c, r.best[1]) IN
    [best |-> IF wins THEN <<c>> ELSE r.best,
     seen |-> AddObservation(r.seen, c),
     conflicts |-> IF wins /\ r.best # <<>> /\ ~SameValue(field, c.value, r.best[1].value)
                   THEN Append(r.conflicts, [kept |-> c, dropped |-> r.best[1]])
                   ELSE r.conflicts]

\* One claim after another: the winner so far, what was observed, what lost.
Weigh(field, r, c) ==
    LET wins == r.best = <<>> \/ Wins(field, c, r.best[1])
        differs == r.best # <<>> /\ ~SameValue(field, c.value, r.best[1].value) IN
    [best |-> IF wins THEN <<c>> ELSE r.best,
     seen |-> AddObservation(r.seen, c),
     conflicts |-> IF ~differs THEN r.conflicts
                   ELSE Append(r.conflicts, IF wins THEN [kept |-> c, dropped |-> r.best[1]]
                                            ELSE [kept |-> r.best[1], dropped |-> c])]

\* Newest edition first; of one edition, the one observed first.
NewestFirst(seen) == SortBy(LAMBDA o, p : o.asOf > p.asOf, seen)

\* Only the events that have the field count.
Consider(field, r, e) ==
    IF field \in DOMAIN e.details THEN Weigh(field, r, Claim(e, field)) ELSE r

\* A field of a property; best is empty where no event has it.
Resolve(group, field) ==
    LET r == FoldLeft(LAMBDA weighed, e : Consider(field, weighed, e),
                      [best |-> <<>>, seen |-> <<>>, conflicts |-> <<>>], EventsIn(group)) IN
    [r EXCEPT !.seen = NewestFirst(@)]

ValueOf(r, none) == IF r.best = <<>> THEN none ELSE r.best[1].value
Value(group, field, none) == ValueOf(Resolve(group, field), none)

OfKind(events, kind) == SelectSeq(events, LAMBDA e : e.kind = kind)
CountOf(events, kind) == Len(OfKind(events, kind))

\* The last of the events of a kind counts.
LastOf(events, kind) ==
    IF OfKind(events, kind) = <<>> THEN [date |-> 0, amount |-> 0]
    ELSE LET e == Last(OfKind(events, kind)) IN [date |-> e.date, amount |-> e.amount]

\* The assessed value one edition away from the one the property has.
PreviousAssessment(r) ==
    LET others == SelectSeq(r.seen, LAMBDA o : o.asOf # r.best[1].asOf /\ o.value > 0) IN
    IF r.best = <<>> \/ others = <<>> THEN 0 ELSE others[1].value

Occupancy(mailing, address) ==
    CASE <<>> \in {mailing, address} -> "unknown"
      [] <<>> \notin {mailing, address} /\ SameValue("mailing_address", mailing, address) ->
            "owner_occupied"
      [] OTHER -> "absentee_owned"

Signals(events, address, mailing, assessed) ==
    [due |-> LastOf(events, "tax_delinquency").amount,
     violations |-> CountOf(events, "code_violation"),
     permits |-> CountOf(events, "permit_issued"),
     auction |-> LastOf(events, "auction_scheduled").date,
     sold |-> LastOf(events, "sold_at_auction").date,
     transfer |-> LastOf(events, "deed_transfer").date,
     assessed |-> ValueOf(assessed, 0), previous |-> PreviousAssessment(assessed),
     occupancy |-> Occupancy(mailing, address)]

\* Mutant: only an address names a building.
LocatesByAddress(group) == ParseAddress(Value(group, "address", <<>>)).locatable

\* Properties that name no building are counted but not listed.
Locates(group) ==
    \/ Value(group, "parcel_id", <<>>) # <<>>
    \/ ParseAddress(Value(group, "address", <<>>)).locatable

\* A property of the report, from its events and its fields as they were resolved.
PropertyOf(keys, events, fields) ==
    [keys |-> keys, events |-> events, state |-> Reduce(events).state,
     fields |-> [field \in {f \in DOMAIN fields : fields[f].best # <<>>} |-> fields[field]],
     signals |-> Signals(events, ValueOf(fields["address"], <<>>),
                         ValueOf(fields["mailing_address"], <<>>), fields["assessed_value"])]

Property(group) ==
    PropertyOf(group, EventsIn(group), [field \in ToSet(Fields) |-> Resolve(group, field)])

\* What is due, then what was violated, then what it is worth.
Worse(p, q) ==
    \/ p.signals.due > q.signals.due
    \/ p.signals.due = q.signals.due /\ p.signals.violations > q.signals.violations
    \/ /\ p.signals.due = q.signals.due /\ p.signals.violations = q.signals.violations
       /\ p.signals.assessed > q.signals.assessed

Report == SortSet(Worse, {Property(group) : group \in {g \in Groups : Locates(g)}})
Hidden == Cardinality({g \in Groups : ~Locates(g)})
-----------------------------------------------------------------------------
Shown(report) == {i \in DOMAIN log : \E p \in ToSet(report) : log[i].key \in p.keys}

\* A report has no event twice and leaves out only those that neither a parcel nor
\* a building's address locates.
Accounts(report) ==
    /\ \A m, n \in DOMAIN report : report[m].keys \intersect report[n].keys # {} => m = n
    /\ Cardinality(Shown(report)) = FoldLeft(LAMBDA n, p : n + Len(p.events), 0, report)
    /\ \A i \in DOMAIN log :
          (/\ log[i].key \in CountyKeys
           /\ log[i].key.parcel # <<>> \/ AddressOf(log[i].key).locatable)
             => i \in Shown(report)

\* A report lists every event of the county that names a building, once, and the
\* properties it hides are all it leaves out.
EventsReportedOnce ==
    /\ Accounts(Report)
    /\ Hidden + Len(Report) = Cardinality(Groups)

\* Two parcels one source tells apart are two properties, and so are the same
\* number on East and West Main Street.
NeighboursApart ==
    \A group \in Groups : Cardinality(group) > 1 =>
        /\ \A s \in Sources : Cardinality(ParcelsOf(s.id, group)) <= 1
        /\ \A j, k \in group : /\ AddressOf(j).number = AddressOf(k).number
                               /\ AddressOf(j).street = AddressOf(k).street
                               /\ Compatible(AddressOf(j), AddressOf(k))

\* Where some events lead from normal.
LeadTo(events) == {Proposed(e.kind) : e \in events} \union {"NORMAL"}

DeedDates(events) == {e.date : e \in {d \in events : d.kind = "deed_transfer"}}
AfterDeeds(events) == {e \in events : \A date \in DeedDates(events) : e.date > date}
SinceDeeds(events) == {e \in events : \A date \in DeedDates(events) : e.date >= date}

\* The state is where an event not older than the last deed leads, and no nearer than
\* any newer one does: one state, unless events have the deed's very date (or have
\* none, as the deed), for then their arrival decides.  Only a deed leads back.
Follows(life, events) ==
    /\ life.state \in LeadTo(SinceDeeds(events))
    /\ \A s \in LeadTo(AfterDeeds(events)) : StateRank(s) <= StateRank(life.state)
    /\ \A i \in 1..(Len(life.transitions) - 1) :
          LET t == life.transitions[i] u == life.transitions[i + 1] IN
          u.state = "NORMAL" \/ StateRank(u.state) > StateRank(t.state)

\* A property's state follows from the dates of its events, so far as these tell an
\* event from the last deed.
StateFollowsDates ==
    \A group \in Groups : Follows(Reduce(EventsIn(group)), ToSet(EventsIn(group)))

Claims(group, field) ==
    {Claim(e, field) : e \in {e \in ToSet(EventsIn(group)) : field \in DOMAIN e.details}}

Kept(r, field, c) ==
    \/ SameValue(field, c.value, r.best[1].value)
    \/ \E i \in DOMAIN r.conflicts : SameValue(field, r.conflicts[i].dropped.value, c.value)

\* A value that is not the field's is on record as dropped.
NoSilentLoss ==
    \A group \in Groups, field \in ToSet(Fields) :
        \A c \in Claims(group, field) : Kept(Resolve(group, field), field, c)

\* The claims no other may outrank: the authority's where it made one.
Rivals(claims, field) ==
    LET own == {c \in claims : Authority[field] # "" /\ c.label = Authority[field]} IN
    IF own = {} THEN claims ELSE own

NewestOf(rivals, best) ==
    (\A c \in rivals : c.asOf # 0) => \A c \in rivals : c.asOf <= best[1].asOf /\ best[1] \in rivals

\* Among sources that all name their edition, a field's value is of the newest.
NewestOfDated ==
    \A group \in Groups, field \in ToSet(Fields) :
        NewestOf(Rivals(Claims(group, field), field), Resolve(group, field).best)
=============================================================================
