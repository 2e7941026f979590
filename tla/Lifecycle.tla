------------------------------ MODULE Lifecycle -----------------------------
(* Property events and the state they put a property in (engine/events.cpp).   *)
(* A record's values are a function from the fields it has; parcels and        *)
(* addresses are those of Entity, a date is a number and 0 where there is      *)
(* none, a status is "sold" or "open".  hash64 is taken to be injective.       *)
EXTENDS Integers, SequencesExt, Entity, Sorting

CONSTANT Before(_, _)       \* the order of event ids: hexadecimal text

States == <<"NORMAL", "TAX_DELINQUENT", "FORECLOSURE_FILED", "AUCTION_SCHEDULED",
            "SOLD_AT_AUCTION">>
StateRank(state) == CHOOSE i \in DOMAIN States : States[i] = state

KindOf(label, status) ==
    CASE label = "tax_delinquency" -> "tax_delinquency"
      [] label = "foreclosure_filing" -> "foreclosure_filed"
      [] label = "trustee_auction" /\ status = "sold" -> "sold_at_auction"
      [] label = "trustee_auction" /\ status # "sold" -> "auction_scheduled"
      [] label = "deed_transfer" -> "deed_transfer"
      [] label = "code_violation" -> "code_violation"
      [] label = "building_permit" -> "permit_issued"
      [] label = "probate_case" -> "probate_opened"
      [] OTHER -> "assessment_recorded"

\* The first of a role's fields, in the schema's order, that the record has.
PickRole(roles, values, none) ==
    LET has == {i \in DOMAIN roles : roles[i] \in DOMAIN values} IN
    IF has = {} THEN none ELSE values[roles[Min(has)]]

AmountFields == <<"amount_due", "assessed_value", "sale_price">>

\* What an event is known by: neither its amount nor its edition is part of it.
EventId(key, kind, date, source, values) ==
    [key |-> key, kind |-> kind, date |-> date, source |-> source,
     case |-> IF "case_number" \in DOMAIN values THEN values["case_number"] ELSE ""]

\* context: [scope, source, label, asOf, recordedAt, confidence]
BuildEvent(context, values) ==
    LET key == PropertyKey(context.scope, PickRole(<<"parcel_id">>, values, <<>>),
                           PickRole(<<"address">>, values, <<>>))
        kind == KindOf(context.label, PickRole(<<"status">>, values, "open"))
        date == PickRole(<<"event_date", "auction_date">>, values, 0) IN
    [id |-> EventId(key, kind, date, context.source, values),
     key |-> key, kind |-> kind, date |-> date, recordedAt |-> context.recordedAt,
     source |-> context.source, label |-> context.label, asOf |-> context.asOf,
     amount |-> PickRole(AmountFields, values, 0), confidence |-> context.confidence,
     details |-> values]

HasIdentity(event) == event.key # NoKey

\* A record without parcel and address makes no event.
AddBuilt(context, built, values) ==
    LET e == BuildEvent(context, values) IN IF HasIdentity(e) THEN Append(built, e) ELSE built

BuildEvents(context, records) ==
    FoldLeft(LAMBDA built, values : AddBuilt(context, built, values), <<>>, records)

Earlier(a, b) ==
    \/ a.date < b.date
    \/ a.date = b.date /\ a.recordedAt < b.recordedAt
    \/ a.date = b.date /\ a.recordedAt = b.recordedAt /\ Before(a.id, b.id)

\* Mutant: events count in the order they were stored.
AsStored(events) == events

Chronological(events) == SortBy(Earlier, events)

Proposed(kind) ==
    CASE kind = "tax_delinquency" -> "TAX_DELINQUENT"
      [] kind = "foreclosure_filed" -> "FORECLOSURE_FILED"
      [] kind = "auction_scheduled" -> "AUCTION_SCHEDULED"
      [] kind = "sold_at_auction" -> "SOLD_AT_AUCTION"
      [] OTHER -> "NORMAL"

\* A deed resets a property in distress; any other event only moves it forward.
Transition(life, e) ==
    LET reset == e.kind = "deed_transfer" /\ life.state # "NORMAL"
        advance == StateRank(Proposed(e.kind)) > StateRank(life.state) IN
    IF reset \/ advance
    THEN [state |-> Proposed(e.kind),
          transitions |-> Append(life.transitions, [state |-> Proposed(e.kind), event |-> e.id])]
    ELSE life

Reduce(events) ==
    FoldLeft(Transition, [state |-> "NORMAL", transitions |-> <<>>], Chronological(events))
=============================================================================
