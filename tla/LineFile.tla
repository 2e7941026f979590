------------------------------ MODULE LineFile ------------------------------
(* The durable files of the engine's store: a log of JSON lines that is only  *)
(* appended to (core.cpp append_line) and read back line by line at start-up, *)
(* where a line that does not parse is skipped (store.cpp load).              *)
(*                                                                            *)
(* Every line carries its own id, so the set of lines is what a reader sees;  *)
(* what the order of the bytes decides is only how the file ENDS.  A process  *)
(* killed inside append_line leaves the file without its final newline, and   *)
(* the next append is then glued to what is there: one unreadable line.       *)

\* lines: the readable lines.  dirty: the file does not end in a newline.
\* last: the unterminated end of a dirty file, when its bytes are a whole line.
FileOf(Lines) == [lines : SUBSET Lines, last : SUBSET Lines, dirty : BOOLEAN]

Blank == [lines |-> {}, last |-> {}, dirty |-> FALSE]

\* What a start-up reads: whole lines, and an unterminated one that still parses.
Readable(f) == f.lines \cup f.last

\* A file that has just been rewritten in one piece (write, then rename).
Rewritten(Lines) == [lines |-> Lines, last |-> {}, dirty |-> FALSE]

\* One completed append: on a dirty file the line merges with the unterminated
\* end, and neither can be read again.
AppendLine(f, line) ==
    IF f.dirty THEN Rewritten(f.lines) ELSE [f EXCEPT !.lines = @ \cup {line}]

\* The outcomes of completed appends of all the lines of `new`: on a dirty file
\* whichever comes first is the one that merges.
Appends(f, new) ==
    IF f.dirty /\ new # {}
    THEN {Rewritten(f.lines \cup (new \ {first})) : first \in new}
    ELSE {[f EXCEPT !.lines = @ \cup new]}

\* Mutant: a log opened for writing from its start.
TornRewrite(f, line) == {[lines |-> {}, last |-> {}, dirty |-> TRUE]}

\* What a crash inside the append of `line` leaves: part of it, or all of it
\* but the newline.
TornAppend(f, line) ==
    {[f EXCEPT !.last = tail, !.dirty = TRUE] :
        tail \in {{}, IF f.dirty THEN {} ELSE {line}}}
=============================================================================
