---------------------------- MODULE SocrataPages ----------------------------
(* fetch_socrata_pages (engine/pipeline.cpp): a Socrata resource is read page  *)
(* after page by $offset until a short page, a failure, a change of columns or *)
(* the record cap.  The dataset is read newest first (order_by_learned_date)   *)
(* and keeps growing while it is paged through, so an offset does not name the *)
(* same row twice.                                                             *)
EXTENDS Integers, Sequences

CONSTANTS
    Limit,          \* socrata_url_limit: rows asked for per page
    RecordCap,      \* kSocrataRecordCap
    MaxRows         \* bound: rows the dataset ever has

ASSUME LimitAssumption == Limit \in Nat \ {0} /\ RecordCap \in Nat \ {0}
ASSUME BoundAssumption == MaxRows \in Nat

VARIABLES
    rows,           \* the dataset's newest row; rows are numbered from 1, oldest first
    offset,         \* the next page's $offset
    records,        \* out.model.records
    result,         \* "fetching", "ok" or "error"
    truncated,      \* out.truncated
    asked,          \* the newest row when the first page came (history)
    ending          \* why an "ok" fetch stopped: "short", "cap" or "cut" (history)

fetchVars == <<rows, offset, records, result, truncated, asked, ending>>

FetchInit ==
    /\ rows \in 0..MaxRows
    /\ offset = 0
    /\ records = <<>>
    /\ result = "fetching"
    /\ truncated = FALSE
    /\ asked = 0
    /\ ending = "none"

\* How many rows a page holds, and the page itself, newest row first.
PageLen == IF rows - offset < Limit THEN rows - offset ELSE Limit
Page == [k \in 1..PageLen |-> rows - offset - k + 1]

First == offset = 0
Gathered == records \o Page

\* Mutants of the two definitions below: a page that steps over a row, and a full
\* last page taken for the end.
NextOffsetSkips == offset + Limit + 1
ShortOrFull == PageLen <= Limit

NextOffset == offset + Limit
Short == PageLen < Limit

\* Mutant: the cap ends the fetch but the last page stays whole.
KeptWhole == Gathered

Kept == IF Len(Gathered) > RecordCap THEN SubSeq(Gathered, 1, RecordCap) ELSE Gathered

\* A page joins the records: past the cap they are cut to it, a short page is the
\* last, and any other is followed by the next.
ReadPage ==
    /\ result = "fetching"
    /\ asked' = IF First THEN rows ELSE asked
    /\ IF Len(Gathered) >= RecordCap
       THEN /\ truncated' = TRUE
            /\ result' = "ok"
            /\ ending' = IF Short /\ Len(Gathered) = RecordCap THEN "short" ELSE "cap"
            /\ UNCHANGED offset
       ELSE /\ IF Short
               THEN /\ result' = "ok" /\ ending' = "short"
                    /\ UNCHANGED offset
               ELSE /\ offset' = NextOffset
                    /\ UNCHANGED <<result, ending>>
            /\ UNCHANGED truncated
    /\ records' = Kept
    /\ UNCHANGED rows

\* A page cannot be fetched: an error on the first, the end on a later one.
PageFails ==
    /\ result = "fetching"
    /\ IF First THEN result' = "error" /\ UNCHANGED ending
                ELSE result' = "ok" /\ ending' = "cut"
    /\ UNCHANGED <<rows, offset, records, truncated, asked>>

\* Mutant: a page that cannot be used starts the paging over.
PageStartsOver ==
    /\ result = "fetching"
    /\ offset' = 0 /\ records' = <<>>
    /\ UNCHANGED <<rows, result, truncated, asked, ending>>

\* A page does not parse, or a later one has other columns: what was gathered
\* stands, even when that is nothing.
PageUnusable ==
    /\ result = "fetching"
    /\ result' = "ok" /\ ending' = "cut"
    /\ UNCHANGED <<rows, offset, records, truncated, asked>>

\* The publisher adds a row.
Publish ==
    /\ result = "fetching" /\ rows < MaxRows
    /\ rows' = rows + 1
    /\ UNCHANGED <<offset, records, result, truncated, asked, ending>>

Ended == result # "fetching" /\ UNCHANGED fetchVars

FetchNext == ReadPage \/ PageFails \/ PageUnusable \/ Publish \/ Ended

FetchSpec == FetchInit /\ [][FetchNext]_fetchVars

\* Every request comes back, with a page or with an error.
FairFetchSpec == FetchSpec /\ WF_fetchVars(ReadPage \/ PageFails \/ PageUnusable)
-----------------------------------------------------------------------------
FetchTypeOK ==
    /\ rows \in Nat /\ offset \in Nat /\ asked \in Nat
    /\ records \in Seq(Nat)
    /\ result \in {"fetching", "ok", "error"}
    /\ truncated \in BOOLEAN
    /\ ending \in {"none", "short", "cap", "cut"}

\* No fetch hands more than the cap to the ingest, and one that says it was
\* truncated hands exactly the cap.
CapHolds == Len(records) <= RecordCap /\ (truncated => Len(records) = RecordCap)

\* However the dataset grew between pages, the pages leave no gap: a row may be
\* read twice, never stepped over.
NoGap == \A k \in 1..(Len(records) - 1) : records[k + 1] >= records[k] - 1

\* A fetch that ended on a short page below the cap has every row that was there
\* when it began.
ShortMeansAll ==
    ending = "short" /\ ~truncated =>
        \A row \in 1..asked : \E k \in 1..Len(records) : records[k] = row

\* The paging ends: a growing dataset cannot keep it going past the cap.
Ends == <>(result # "fetching")
=============================================================================
