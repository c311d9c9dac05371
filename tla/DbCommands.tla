----------------------------- MODULE DbCommands -----------------------------
(***************************************************************************)
(* What Database::execute is given: a command is a callable that runs in a *)
(* DatabaseSession, statement by statement, and returns or throws.  A      *)
(* session is all the callable has in hand between two statements: its     *)
(* arguments, what it has read so far, and what is left to do.             *)
(***************************************************************************)
CONSTANTS
    Command,        \* what clients may ask for
    Db,             \* contents of the database
    InitialDb,      \* contents the server is started on
    Session,
    Start(_),       \* the session a command begins with
    Exec(_, _),     \* contents and session after the session's next statement
    Returned(_),    \* the callable has returned
    Threw(_),       \* it has thrown: InvalidData, DuplicateName, InUse, ...
    Failed,         \* the session of a command whose statement failed
    Result(_, _),   \* contents and session once it has run to its end, alone
    NoCommand,      \* nothing is asked
    NoSession       \* nothing is run, nothing answered

Finished(s) == Returned(s) \/ Threw(s)

\* Nothing but the contents and the session decides what a command does next,
\* and it comes to its end.
ASSUME CommandAssumption ==
    /\ InitialDb \subseteq Db
    /\ NoCommand \notin Command
    /\ NoSession \notin Session
    /\ \A c \in Command : Start(c) \in Session
    /\ Failed \in Session
    /\ Threw(Failed)
    /\ \A s \in Session : ~(Returned(s) /\ Threw(s))
    /\ \A d \in Db, s \in Session :
          /\ Result(d, s) \in [db : Db, session : {f \in Session : Finished(f)}]
          /\ IF Finished(s)
             THEN Result(d, s) = [db |-> d, session |-> s]
             ELSE /\ Exec(d, s) \in [db : Db, session : Session]
                  /\ Result(d, s) = Result(Exec(d, s).db, Exec(d, s).session)
=============================================================================
