------------------------------- MODULE Robots -------------------------------
(* Robots::parse and Robots::allowed (net/crawl.cpp).  A line of robots.txt is *)
(* a record [key, value]; blank lines, comments and lines without a colon are  *)
(* passed over by the parser and have no record.  An agent is "*", "ours" (the *)
(* name occurs in our user agent) or "other"; a path is a sequence of symbols. *)
EXTENDS Integers, SequencesExt

NoRecord == [rules |-> <<>>, delay |-> 0]

Start == [inAny |-> FALSE, inOurs |-> FALSE, afterAgent |-> FALSE,
          any |-> NoRecord, ours |-> NoRecord]

\* Mutant: a record's agent line keeps the agents of the record before it.
AgentLineSticky(r, who) ==
    [r EXCEPT !.inAny = @ \/ who = "*", !.inOurs = @ \/ who = "ours", !.afterAgent = TRUE]

\* The first agent line after rules opens a record; the ones that follow join it.
AgentLine(r, who) ==
    [r EXCEPT !.inAny  = who = "*"    \/ (r.afterAgent /\ @),
              !.inOurs = who = "ours" \/ (r.afterAgent /\ @),
              !.afterAgent = TRUE]

\* A rule goes to every record it stands in; "Disallow:" without a path is none.
AddRule(record, inside, rule) ==
    IF inside /\ (rule.allow \/ rule.path # <<>>)
    THEN [record EXCEPT !.rules = Append(@, rule)]
    ELSE record

SetDelay(record, inside, delay) == IF inside THEN [record EXCEPT !.delay = delay] ELSE record

ReadLine(r, line) ==
    LET after == [r EXCEPT !.afterAgent = FALSE]
        rule == [path |-> line.value, allow |-> line.key = "allow"] IN
    CASE line.key = "agent" -> AgentLine(r, line.value)
      [] line.key \in {"allow", "disallow"} ->
            [after EXCEPT !.ours = AddRule(@, r.inOurs, rule), !.any = AddRule(@, r.inAny, rule)]
      [] line.key = "delay" ->
            [after EXCEPT !.ours = SetDelay(@, r.inOurs, line.value),
                          !.any = SetDelay(@, r.inAny, line.value)]
      [] OTHER -> after

AllowAll == NoRecord

\* Our own record if it has a rule or a delay, else the wildcard's.
Parse(lines) ==
    LET r == FoldLeft(ReadLine, Start, lines) IN
    IF r.ours.rules # <<>> \/ r.ours.delay > 0 THEN r.ours ELSE r.any

\* The longest rule that matches decides, and an Allow among the longest wins.
Allowed(rules, path) ==
    LET matching == {i \in DOMAIN rules : rules[i].path # <<>> /\ IsPrefix(rules[i].path, path)}
        longest == {i \in matching :
                       \A k \in matching : Len(rules[k].path) <= Len(rules[i].path)} IN
    longest = {} \/ \E i \in longest : rules[i].allow
=============================================================================
