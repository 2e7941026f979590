----------------------------- MODULE MCIngest -----------------------------
(* A small county for Ingest: a primary feed and an enrichment source over two *)
(* tracked properties and a stranger; a site that is redesigned (v1, v2), that *)
(* degrades past repair (poor), turns into something with no field to map      *)
(* (alien), or stops being a document (dead).  v2 is paged: its first page is  *)
(* page.  Read under the type of an error page, v1 is no document either.      *)
EXTENDS Ingest

CONSTANTS feed, roll, v1, v2, page, poor, alien, dead, old, new, sparse,
          violation, deed, permit, assessed, stray

MCEnrichment == Sources \cap {roll}
MCFirstPage == [d \in Docs |-> IF d = v2 THEN page ELSE d]
MCReading == [d \in Docs |-> [type \in Docs \cup {NoDoc} |->
               IF d = v1 /\ type = dead THEN dead ELSE d]]
MCStopsAt == [d \in Docs |-> IF d = dead THEN "parse" ELSE "read"]
MCInfer == [d \in Docs |-> CASE d = v1 -> old [] d \in {v2, page, poor} -> new [] OTHER -> NoMapping]
MCConfidence == [d \in Docs |-> IF d = poor THEN 100 ELSE 90]
MCRate == [m \in Mappings |-> [d \in Docs |->
            CASE d = v1 -> IF m = old THEN 90 ELSE 20
              [] d \in {v2, page} -> IF m = new THEN 80 ELSE 30
              [] d = poor -> 50
              [] OTHER -> 0]]

\* The pinned column is nearly empty outside v1: forced into the new mapping, it
\* makes a sparse one.
MCPin == [pins \in SUBSET Decisions |-> [m \in Candidates |-> [d \in Docs |->
            IF pins # {} /\ m = new /\ d # v1 THEN sparse ELSE m]]]

MCPropertyOf == [e \in Events |-> CASE e \in {violation, assessed} -> "elm_1"
                                    [] e \in {deed, permit} -> "elm_2" [] OTHER -> "oak_9"]
MCDateOf == [e \in Events |-> IF e = violation THEN 3 ELSE IF e = deed THEN 2 ELSE 0]
MCEventsOf == [s \in Sources |-> [m \in Mappings |-> [d \in Docs |->
                CASE s = roll -> {assessed, stray}
                  [] d = v1 /\ m = old -> {violation}
                  [] d = v2 /\ m = new -> {violation, deed, permit}
                  [] d = page /\ m = new -> {violation}
                  [] OTHER -> {}]]]
=============================================================================
