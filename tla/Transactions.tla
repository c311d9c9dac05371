---------------------------- MODULE Transactions ----------------------------
(***************************************************************************)
(* Database::execute under several workers (main.cpp starts four): the     *)
(* mutex, the one connection with its transaction, the command's           *)
(* statements, and the destructors that commit or not and then let the     *)
(* mutex go.  pqxx opens the transaction with the first statement; the     *)
(* connection has at most one, whoever's statement it is.                  *)
(***************************************************************************)
EXTENDS DbCommands

CONSTANT Worker   \* threads of the ThreadManager

VARIABLES
    db,       \* contents as committed
    work,     \* contents as the connection sees and leaves them
    locked,   \* cmdMutex
    pc,       \* where a worker is in execute
    cmd,      \* the command it was given
    session   \* and how far that is

txVars == <<db, work, locked, pc, cmd, session>>

Step == {"idle", "lock", "run", "unlock", "answer"}

TxInit ==
    /\ db \in InitialDb
    /\ work = db
    /\ locked = FALSE
    /\ pc = [w \in Worker |-> "idle"]
    /\ cmd = [w \in Worker |-> NoCommand]
    /\ session = [w \in Worker |-> NoSession]

Goto(w, step) == pc' = [pc EXCEPT ![w] = step]

\* A request is handed to an idle worker, whose handler calls execute.
Request(w, c) ==
    /\ pc[w] = "idle"
    /\ cmd' = [cmd EXCEPT ![w] = c]
    /\ session' = [session EXCEPT ![w] = Start(c)]
    /\ Goto(w, "lock")
    /\ UNCHANGED <<db, work, locked>>

\* The lock_guard; after it WorkGuard and session are constructed, which asks
\* nothing of the database yet.
Lock(w) ==
    /\ pc[w] = "lock"
    /\ ~locked
    /\ locked' = TRUE
    /\ Goto(w, "run")
    /\ UNCHANGED <<db, work, cmd, session>>

\* DatabaseSession::execute and getResult(s).
Statement(w) ==
    /\ pc[w] = "run"
    /\ ~Finished(session[w])
    /\ work' = Exec(work, session[w]).db
    /\ session' = [session EXCEPT ![w] = Exec(work, session[w]).session]
    /\ UNCHANGED <<db, locked, pc, cmd>>

\* A statement throws pqxx::failure: the transaction is lost, with it what it
\* has done, cancel is called and a DatabaseException thrown.  A connection
\* that broke is opened again by the next transaction.
FailStatement(w) ==
    /\ pc[w] = "run"
    /\ ~Finished(session[w])
    /\ work' = db
    /\ session' = [session EXCEPT ![w] = Failed]
    /\ Goto(w, "unlock")
    /\ UNCHANGED <<db, locked, cmd>>

\* The command returned: ~WorkGuard commits.
Commit(w) ==
    /\ pc[w] = "run"
    /\ Returned(session[w])
    /\ db' = work
    /\ Goto(w, "unlock")
    /\ UNCHANGED <<work, locked, cmd, session>>

\* Mutant of Cancel: catch (...) rethrows without cancel.
CommitAnyway(w) ==
    /\ pc[w] = "run"
    /\ Threw(session[w])
    /\ db' = work
    /\ Goto(w, "unlock")
    /\ UNCHANGED <<work, locked, cmd, session>>

\* Mutant of Cancel: the mutex is unlocked by hand, on the normal way only.
CancelLocked(w) ==
    /\ pc[w] = "run"
    /\ Threw(session[w])
    /\ work' = db
    /\ Goto(w, "answer")
    /\ UNCHANGED <<db, locked, cmd, session>>

\* The command threw: catch (...) calls cancel, ~work rolls back.
Cancel(w) ==
    /\ pc[w] = "run"
    /\ Threw(session[w])
    /\ work' = db
    /\ Goto(w, "unlock")
    /\ UNCHANGED <<db, locked, cmd, session>>

\* ~lock_guard, the first to be constructed and the last to be destroyed.
Unlock(w) ==
    /\ pc[w] = "unlock"
    /\ locked' = FALSE
    /\ Goto(w, "answer")
    /\ UNCHANGED <<db, work, cmd, session>>

\* The handler's answer: a response, or an exception of the interface.
Answer(w) ==
    /\ pc[w] = "answer"
    /\ cmd' = [cmd EXCEPT ![w] = NoCommand]
    /\ session' = [session EXCEPT ![w] = NoSession]
    /\ Goto(w, "idle")
    /\ UNCHANGED <<db, work, locked>>

\* The process ends, or a commit throws in the destructor, which ends it too,
\* with the commit done or not.  Its connection goes with it.
Crash ==
    /\ work' = db
    /\ locked' = FALSE
    /\ pc' = [w \in Worker |-> "idle"]
    /\ cmd' = [w \in Worker |-> NoCommand]
    /\ session' = [w \in Worker |-> NoSession]
    /\ UNCHANGED db

\* From the lock to its release.
Locked(w) == Statement(w) \/ FailStatement(w) \/ Commit(w) \/ Cancel(w) \/ Unlock(w)

TxNext ==
    \/ \E w \in Worker :
          \/ \E c \in Command : Request(w, c)
          \/ Lock(w)
          \/ Locked(w)
          \/ Answer(w)
    \/ Crash

TxSpec == TxInit /\ [][TxNext]_txVars

-----------------------------------------------------------------------------
(* Properties *)

TxTypeOK ==
    /\ db \in Db
    /\ work \in Db
    /\ locked \in BOOLEAN
    /\ pc \in [Worker -> Step]
    /\ cmd \in [Worker -> Command \union {NoCommand}]
    /\ session \in [Worker -> Session \union {NoSession}]
    /\ \A w \in Worker :
          /\ cmd[w] = NoCommand <=> pc[w] = "idle"
          /\ session[w] = NoSession <=> pc[w] = "idle"

\* A command has taken effect, or has not and never will.
Over(w) == pc[w] \in {"unlock", "answer"}

Atomic == INSTANCE AtomicCommands WITH
    Caller <- Worker,
    asked <- cmd,
    told <- [w \in Worker |-> IF Over(w) THEN session[w] ELSE NoSession]

\* Every command happens at one point between request and answer or not at
\* all, on what those before it left, whatever the other workers are at and
\* wherever an exception or the end of the process comes.
CommandsAtomic == Atomic!AtomicSpec

Inside(w) == pc[w] \in {"run", "unlock"}

\* At most one worker is between lock and unlock, and the mutex is held just
\* then: two commands never share the transaction, and no way a command ends
\* leaves the mutex behind.
Exclusive ==
    /\ locked <=> \E w \in Worker : Inside(w)
    /\ \A w, v \in Worker : Inside(w) /\ Inside(v) => w = v

-----------------------------------------------------------------------------
(* The inductive invariant *)

\* The connection sees what is not committed only while a command runs.
WorkOwned == work # db => \E w \in Worker : pc[w] = "run"

\* Where the running command is going from here is where it was going from
\* the start: nobody has come in between.
Undisturbed ==
    \A w \in Worker : pc[w] = "run" =>
        Result(work, session[w]) = Result(db, Start(cmd[w]))

\* A command that waits for the mutex has not begun.
NotBegun == \A w \in Worker : pc[w] = "lock" => session[w] = Start(cmd[w])

TxInv == TxTypeOK /\ Exclusive /\ WorkOwned /\ Undisturbed /\ NotBegun
=============================================================================
