--------------------------- MODULE AtomicCommands ---------------------------
(***************************************************************************)
(* What the server promises its clients, and what the other modules take a *)
(* command for: it happens in one step, all of it or nothing, between the  *)
(* request and the answer, and the answer tells which.  A command that     *)
(* throws leaves no trace.  A caller is whoever has one request on its way *)
(* at a time: a worker thread, or the connection it serves.                *)
(***************************************************************************)
EXTENDS DbCommands

CONSTANT Caller

VARIABLES
    db,     \* contents of the database
    asked,  \* the command a caller waits for
    told    \* the session it ended with, once it has

atomicVars == <<db, asked, told>>

AtomicInit ==
    /\ db \in InitialDb
    /\ asked = [w \in Caller |-> NoCommand]
    /\ told = [w \in Caller |-> NoSession]

Ask(w, c) ==
    /\ asked[w] = NoCommand
    /\ asked' = [asked EXCEPT ![w] = c]
    /\ UNCHANGED <<db, told>>

Waiting(w) == asked[w] # NoCommand /\ told[w] = NoSession

Perform(w) ==
    /\ Waiting(w)
    /\ LET r == Result(db, Start(asked[w]))
       IN  /\ db' = IF Returned(r.session) THEN r.db ELSE db
           /\ told' = [told EXCEPT ![w] = r.session]
    /\ UNCHANGED asked

\* No database, or a statement it refuses.
Fail(w) ==
    /\ Waiting(w)
    /\ told' = [told EXCEPT ![w] = Failed]
    /\ UNCHANGED <<db, asked>>

Answer(w) ==
    /\ told[w] # NoSession
    /\ asked' = [asked EXCEPT ![w] = NoCommand]
    /\ told' = [told EXCEPT ![w] = NoSession]
    /\ UNCHANGED db

\* The process ends: callers get no answer, whether performed or not.
Restart ==
    /\ asked' = [w \in Caller |-> NoCommand]
    /\ told' = [w \in Caller |-> NoSession]
    /\ UNCHANGED db

AtomicNext ==
    \/ \E w \in Caller :
          \/ \E c \in Command : Ask(w, c)
          \/ Perform(w)
          \/ Fail(w)
          \/ Answer(w)
    \/ Restart

AtomicSpec == AtomicInit /\ [][AtomicNext]_atomicVars
=============================================================================
