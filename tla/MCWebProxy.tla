----------------------------- MODULE MCWebProxy -----------------------------
(* A small instance of WebProxy for TLC, over commands of two statements:  *)
(* the first flips the contents, the second of "refuse" throws.            *)
EXTENDS WebProxy, TLC

MCDb == {0, 1}
MCCommand == {"flip", "refuse"}
MCSession == [op : MCCommand, left : 0 .. 2, threw : BOOLEAN]
MCInitialDb == {0}
MCStart(c) == [op |-> c, left |-> 2, threw |-> FALSE]
MCReturned(s) == s.left = 0 /\ ~s.threw
MCThrew(s) == s.threw
MCFailed == [op |-> "refuse", left |-> 0, threw |-> TRUE]

MCExec(d, s) ==
    IF s.left = 2 THEN [db |-> 1 - d, session |-> [s EXCEPT !.left = 1]]
    ELSE IF s.op = "refuse" THEN [db |-> d, session |-> MCFailed]
    ELSE [db |-> d, session |-> [s EXCEPT !.left = 0]]

RECURSIVE MCResult(_, _)
MCResult(d, s) ==
    IF MCReturned(s) \/ MCThrew(s) THEN [db |-> d, session |-> s]
    ELSE MCResult(MCExec(d, s).db, MCExec(d, s).session)

CallsAlike == Permutations(Caller)
=============================================================================
