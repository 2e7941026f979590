----------------------------- MODULE CountyView -----------------------------
(* What the worker promises to someone who asks for a county: the answer is  *)
(* the compiled view of the county's events as they stood at one moment      *)
(* between the question and the answer, cut to the newest EventLimit of them *)
(* - whether it comes from the cache or is compiled for the occasion.        *)
EXTENDS EventWindow

CONSTANTS
  Callers,    \* those who ask for the county
  Events,     \* events that may be stored, numbered in the order of their dates
  EventLimit  \* EVENT_LIMIT, events read for one compile

VARIABLES
  events,   \* events stored so far
  pending,  \* callers who wait for an answer
  since,    \* since[c]: what was stored when c asked, {} if c does not wait
  answer    \* the answer given since the last question, if any, as the events it
            \* shows, {} for "no events"

viewVars == <<events, pending, since, answer>>

NoAnswer == [given |-> FALSE, shown |-> {}]

ViewInit ==
  /\ events = {} /\ pending = {}
  /\ since = [c \in Callers |-> {}]
  /\ answer = NoAnswer

(* Events are only ever added.                                               *)
Grow ==
  /\ \E D \in SUBSET Events : events' = events \union D
  /\ UNCHANGED <<pending, since, answer>>

AskView(c) ==
  /\ c \notin pending
  /\ pending' = pending \union {c}
  /\ since' = [since EXCEPT ![c] = events]
  /\ answer' = NoAnswer
  /\ UNCHANGED events

AnswerView(c) ==
  /\ c \in pending
  /\ pending' = pending \ {c}
  /\ \E S \in SUBSET events :
       since[c] \subseteq S /\ answer' = [given |-> TRUE, shown |-> Newest(S, EventLimit)]
  /\ since' = [since EXCEPT ![c] = {}]
  /\ UNCHANGED events

(* A request that dies answers nothing.                                      *)
DropView(c) ==
  /\ c \in pending
  /\ pending' = pending \ {c}
  /\ since' = [since EXCEPT ![c] = {}]
  /\ answer' = NoAnswer
  /\ UNCHANGED events

ViewNext == Grow \/ \E c \in Callers : AskView(c) \/ AnswerView(c) \/ DropView(c)

ViewSpec == ViewInit /\ [][ViewNext]_viewVars
=============================================================================
