------------------------- MODULE TransactionsProofs -------------------------
(***************************************************************************)
(* Transactions implements AtomicCommands, for any commands that keep to   *)
(* CommandAssumption and any number of workers.                            *)
(***************************************************************************)
EXTENDS Transactions, TLAPS

USE DEF Finished, Inside

\* The server starts with the mutex free and no transaction open.
LEMMA InvInit == TxInit => TxInv
  <1>1. InitialDb \subseteq Db
    BY CommandAssumption
  <1>2. TxInit => TxTypeOK
    BY <1>1 DEF TxInit, TxTypeOK, Step
  <1>3. TxInit => Exclusive /\ WorkOwned /\ Undisturbed /\ NotBegun
    BY DEF TxInit, Exclusive, WorkOwned, Undisturbed, NotBegun
  <1>. QED  BY <1>2, <1>3 DEF TxInv

\* A worker's last request, on its way to the mutex, disturbs nobody.
LEMMA InvRequest ==
    ASSUME TxInv, NEW w \in Worker, NEW c \in Command, Request(w, c)
    PROVE  TxInv'
  <1>1. TxTypeOK'
    BY CommandAssumption DEF TxInv, TxTypeOK, Step, Request, Goto
  <1>2. \A v \in Worker : Inside(v)' <=> Inside(v)
    BY DEF TxInv, TxTypeOK, Request, Goto
  <1>3. Exclusive'
    BY <1>2 DEF TxInv, Exclusive, Request
  <1>4. \A v \in Worker : pc[v] = "run" <=> pc'[v] = "run"
    BY DEF TxInv, TxTypeOK, Request, Goto
  <1>5. WorkOwned'
    BY <1>4 DEF TxInv, WorkOwned, Request
  <1>6. \A v \in Worker \ {w} :
          pc'[v] = pc[v] /\ session'[v] = session[v] /\ cmd'[v] = cmd[v]
    BY DEF TxInv, TxTypeOK, Request, Goto
  <1>7. pc[w] = "idle" /\ pc'[w] = "lock" /\ session'[w] = Start(c) /\ cmd'[w] = c
    BY DEF TxInv, TxTypeOK, Request, Goto
  <1>8. Undisturbed'
    BY <1>6, <1>7 DEF TxInv, Undisturbed, Request
  <1>9. NotBegun'
    BY <1>6, <1>7 DEF TxInv, NotBegun
  <1>. QED  BY <1>1, <1>3, <1>5, <1>8, <1>9 DEF TxInv

\* Who gets the mutex finds no transaction open, and his command at its start.
LEMMA InvLock ==
    ASSUME TxInv, NEW w \in Worker, Lock(w)
    PROVE  TxInv'
  <1>1. TxTypeOK'
    BY DEF TxInv, TxTypeOK, Step, Lock, Goto
  <1>2. \A v \in Worker : ~Inside(v)
    BY DEF TxInv, Exclusive, Lock
  <1>3. \A v \in Worker : Inside(v)' <=> v = w
    BY <1>2 DEF TxInv, TxTypeOK, Lock, Goto
  <1>4. Exclusive'
    BY <1>3 DEF Exclusive, Lock
  <1>5. work = db
    BY <1>2 DEF TxInv, WorkOwned
  <1>6. WorkOwned'
    BY <1>5 DEF WorkOwned, Lock
  <1>7. session[w] = Start(cmd[w])
    BY DEF TxInv, NotBegun, Lock
  <1>8. Undisturbed'
    BY <1>3, <1>5, <1>7 DEF Undisturbed, Lock
  <1>9. NotBegun'
    BY DEF TxInv, TxTypeOK, NotBegun, Lock, Goto
  <1>. QED  BY <1>1, <1>4, <1>6, <1>8, <1>9 DEF TxInv

\* A statement takes the command on along the way it was on.
LEMMA InvStatement ==
    ASSUME TxInv, NEW w \in Worker, Statement(w)
    PROVE  TxInv'
  <1>1. session[w] \in Session
    BY DEF TxInv, TxTypeOK, Statement
  <1>2. /\ Exec(work, session[w]) \in [db : Db, session : Session]
        /\ Result(work, session[w])
              = Result(Exec(work, session[w]).db, Exec(work, session[w]).session)
    BY <1>1, CommandAssumption DEF TxInv, TxTypeOK, Statement
  <1>3. TxTypeOK'
    BY <1>2, CommandAssumption DEF TxInv, TxTypeOK, Statement
  <1>4. Exclusive'
    BY DEF TxInv, Exclusive, Statement
  <1>5. WorkOwned'
    BY DEF WorkOwned, Statement
  <1>6. \A v \in Worker : pc[v] = "run" => v = w
    BY DEF TxInv, Exclusive, Statement
  <1>7. session'[w] = Exec(work, session[w]).session
    BY DEF TxInv, TxTypeOK, Statement
  <1>8. Undisturbed'
    BY <1>2, <1>6, <1>7 DEF TxInv, Undisturbed, Statement
  <1>9. \A v \in Worker \ {w} : session'[v] = session[v]
    BY DEF TxInv, TxTypeOK, Statement
  <1>10. NotBegun'
    BY <1>9 DEF TxInv, NotBegun, Statement
  <1>. QED  BY <1>3, <1>4, <1>5, <1>8, <1>10 DEF TxInv

\* However a command leaves "run", its transaction is closed behind it.
LEMMA InvClose ==
    ASSUME TxInv, NEW w \in Worker, FailStatement(w) \/ Commit(w) \/ Cancel(w)
    PROVE  TxInv'
  <1>1. TxTypeOK'
    BY CommandAssumption
    DEF TxInv, TxTypeOK, Step, FailStatement, Commit, Cancel, Goto
  <1>2. \A v \in Worker : Inside(v)' <=> Inside(v)
    BY DEF TxInv, TxTypeOK, FailStatement, Commit, Cancel, Goto
  <1>3. Exclusive'
    BY <1>2 DEF TxInv, Exclusive, FailStatement, Commit, Cancel
  <1>4. work' = db'
    BY DEF FailStatement, Commit, Cancel
  <1>5. \A v \in Worker : pc'[v] # "run"
    BY DEF TxInv, TxTypeOK, Exclusive, FailStatement, Commit, Cancel, Goto
  <1>6. \A v \in Worker \ {w} :
          pc'[v] = pc[v] /\ session'[v] = session[v] /\ cmd'[v] = cmd[v]
    BY DEF TxInv, TxTypeOK, FailStatement, Commit, Cancel, Goto
  <1>7. pc'[w] # "lock"
    BY DEF TxInv, TxTypeOK, FailStatement, Commit, Cancel, Goto
  <1>8. NotBegun'
    BY <1>6, <1>7 DEF TxInv, NotBegun
  <1>. QED  BY <1>1, <1>3, <1>4, <1>5, <1>8 DEF TxInv, WorkOwned, Undisturbed

LEMMA InvUnlock ==
    ASSUME TxInv, NEW w \in Worker, Unlock(w)
    PROVE  TxInv'
  <1>1. TxTypeOK'
    BY DEF TxInv, TxTypeOK, Step, Unlock, Goto
  <1>2. \A v \in Worker : ~Inside(v)'
    BY DEF TxInv, TxTypeOK, Exclusive, Unlock, Goto
  <1>3. Exclusive'
    BY <1>2 DEF Exclusive, Unlock
  <1>4. \A v \in Worker : pc[v] # "run"
    BY DEF TxInv, Exclusive, Unlock
  <1>5. WorkOwned' /\ Undisturbed'
    BY <1>2, <1>4 DEF TxInv, WorkOwned, Undisturbed, Unlock
  <1>6. NotBegun'
    BY DEF TxInv, TxTypeOK, NotBegun, Unlock, Goto
  <1>. QED  BY <1>1, <1>3, <1>5, <1>6 DEF TxInv

LEMMA InvAnswer ==
    ASSUME TxInv, NEW w \in Worker, Answer(w)
    PROVE  TxInv'
  <1>1. TxTypeOK'
    BY CommandAssumption DEF TxInv, TxTypeOK, Step, Answer, Goto
  <1>2. \A v \in Worker \ {w} :
          pc'[v] = pc[v] /\ session'[v] = session[v] /\ cmd'[v] = cmd[v]
    BY DEF TxInv, TxTypeOK, Answer, Goto
  <1>3. pc[w] = "answer" /\ pc'[w] = "idle"
    BY DEF TxInv, TxTypeOK, Answer, Goto
  <1>4. Exclusive'
    BY <1>2, <1>3 DEF TxInv, Exclusive, Answer
  <1>5. WorkOwned'
    BY <1>2, <1>3 DEF TxInv, WorkOwned, Answer
  <1>6. Undisturbed' /\ NotBegun'
    BY <1>2, <1>3 DEF TxInv, Undisturbed, NotBegun, Answer
  <1>. QED  BY <1>1, <1>4, <1>5, <1>6 DEF TxInv

LEMMA InvCrash == ASSUME TxInv, Crash PROVE TxInv'
  BY CommandAssumption
  DEF TxInv, TxTypeOK, Step, Exclusive, WorkOwned, Undisturbed, NotBegun, Crash

LEMMA InvStep == TxInv /\ [TxNext]_txVars => TxInv'
  <1>. SUFFICES ASSUME TxInv, [TxNext]_txVars PROVE TxInv'
    OBVIOUS
  <1>1. CASE UNCHANGED txVars
    BY <1>1
    DEF txVars, TxInv, TxTypeOK, Exclusive, WorkOwned, Undisturbed, NotBegun
  <1>2. CASE Crash
    BY <1>2, InvCrash
  <1>3. ASSUME NEW w \in Worker, NEW c \in Command, Request(w, c) PROVE TxInv'
    BY <1>3, InvRequest
  <1>4. ASSUME NEW w \in Worker, Lock(w) \/ Locked(w) \/ Answer(w) PROVE TxInv'
    BY <1>4, InvLock, InvStatement, InvClose, InvUnlock, InvAnswer DEF Locked
  <1>. QED  BY <1>1, <1>2, <1>3, <1>4 DEF TxNext

\* The invariant, for any commands and any number of workers: the transaction
\* a command runs in is its own, and no two hold the mutex.
THEOREM Invariance == TxSpec => []TxInv
  BY InvInit, InvStep, PTL DEF TxSpec

\* No two commands are between lock and unlock, and the mutex is never left
\* behind: not by a throw, a failed statement, or the end of the process.
THEOREM MutexExclusive == TxSpec => []Exclusive
  <1>1. TxInv => Exclusive
    BY DEF TxInv
  <1>. QED  BY <1>1, Invariance, PTL

-----------------------------------------------------------------------------
(* Refinement *)

Told == [w \in Worker |-> IF Over(w) THEN session[w] ELSE NoSession]

LEMMA RefInit == TxInit => Atomic!AtomicInit
  BY DEF TxInit, Atomic!AtomicInit, Over

\* A step that leaves contents, requests and outcomes alone is a stutter.
LEMMA Stutter ==
    ASSUME UNCHANGED <<db, cmd>>,
           \A w \in Worker : Over(w)' = Over(w) /\ (Over(w) => session'[w] = session[w])
    PROVE  UNCHANGED Atomic!atomicVars
  <1>1. \A w \in Worker : (IF Over(w) THEN session[w] ELSE NoSession)'
                            = IF Over(w) THEN session[w] ELSE NoSession
    OBVIOUS
  <1>2. Told' = Told
    BY <1>1 DEF Told
  <1>. QED  BY <1>2 DEF Told, Atomic!atomicVars

\* What a caller is told changes at one worker only, as EXCEPT has it.
LEMMA ToldAt ==
    ASSUME NEW w \in Worker, NEW s,
           (IF Over(w) THEN session[w] ELSE NoSession)' = s,
           \A v \in Worker \ {w} :
              Over(v)' = Over(v) /\ session'[v] = session[v]
    PROVE  Told' = [Told EXCEPT ![w] = s]
  <1>1. \A v \in Worker \ {w} : (IF Over(v) THEN session[v] ELSE NoSession)'
                                  = IF Over(v) THEN session[v] ELSE NoSession
    OBVIOUS
  <1>. QED  BY <1>1 DEF Told

LEMMA RefRequest ==
    ASSUME TxInv, NEW w \in Worker, NEW c \in Command, Request(w, c)
    PROVE  Atomic!Ask(w, c)
  <1>1. cmd[w] = NoCommand /\ cmd' = [cmd EXCEPT ![w] = c] /\ db' = db
    BY DEF TxInv, TxTypeOK, Request
  <1>2. \A v \in Worker : (IF Over(v) THEN session[v] ELSE NoSession)'
                            = IF Over(v) THEN session[v] ELSE NoSession
    BY DEF TxInv, TxTypeOK, Request, Goto, Over
  <1>3. Told' = Told
    BY <1>2 DEF Told
  <1>. QED  BY <1>1, <1>3 DEF Atomic!Ask, Told

\* Commit and rollback are the moment the command happens.
LEMMA RefPerform ==
    ASSUME TxInv, NEW w \in Worker, Commit(w) \/ Cancel(w)
    PROVE  Atomic!Perform(w)
  <1>1. /\ pc[w] = "run" /\ Finished(session[w]) /\ session[w] \in Session
        /\ work \in Db /\ cmd[w] # NoCommand
    BY DEF TxInv, TxTypeOK, Commit, Cancel
  <1>2. Result(work, session[w]) = [db |-> work, session |-> session[w]]
    BY <1>1, CommandAssumption
  <1>3. Result(db, Start(cmd[w])) = [db |-> work, session |-> session[w]]
    BY <1>1, <1>2 DEF TxInv, Undisturbed
  <1>4. db' = IF Returned(session[w]) THEN work ELSE db
    BY <1>1, CommandAssumption DEF Commit, Cancel
  <1>5. pc'[w] = "unlock" /\ session' = session /\ cmd' = cmd
    BY DEF TxInv, TxTypeOK, Commit, Cancel, Goto
  <1>6. \A v \in Worker \ {w} : Over(v)' = Over(v) /\ session'[v] = session[v]
    BY <1>5 DEF TxInv, TxTypeOK, Commit, Cancel, Goto, Over
  <1>7. Told' = [Told EXCEPT ![w] = session[w]]
    BY <1>5, <1>6, ToldAt DEF Over
  <1>8. Told[w] = NoSession
    BY <1>1 DEF Told, Over
  <1>. QED  BY <1>1, <1>3, <1>4, <1>5, <1>7, <1>8
            DEF Atomic!Perform, Atomic!Waiting, Told

\* A statement that fails undoes the command.
LEMMA RefFail ==
    ASSUME TxInv, NEW w \in Worker, FailStatement(w)
    PROVE  Atomic!Fail(w)
  <1>1. pc[w] = "run" /\ cmd[w] # NoCommand
    BY DEF TxInv, TxTypeOK, FailStatement
  <1>2. pc'[w] = "unlock" /\ session'[w] = Failed /\ cmd' = cmd /\ db' = db
    BY DEF TxInv, TxTypeOK, FailStatement, Goto
  <1>3. \A v \in Worker \ {w} : Over(v)' = Over(v) /\ session'[v] = session[v]
    BY DEF TxInv, TxTypeOK, FailStatement, Goto, Over
  <1>4. Told' = [Told EXCEPT ![w] = Failed]
    BY <1>2, <1>3, ToldAt DEF Over
  <1>5. Told[w] = NoSession
    BY <1>1 DEF Told, Over
  <1>. QED  BY <1>1, <1>2, <1>4, <1>5 DEF Atomic!Fail, Atomic!Waiting, Told

LEMMA RefAnswer ==
    ASSUME TxInv, NEW w \in Worker, Answer(w)
    PROVE  Atomic!Answer(w)
  <1>1. pc[w] = "answer" /\ session[w] # NoSession
    BY DEF TxInv, TxTypeOK, Answer
  <1>2. pc'[w] = "idle" /\ cmd' = [cmd EXCEPT ![w] = NoCommand] /\ db' = db
    BY DEF TxInv, TxTypeOK, Answer, Goto
  <1>3. \A v \in Worker \ {w} : Over(v)' = Over(v) /\ session'[v] = session[v]
    BY DEF TxInv, TxTypeOK, Answer, Goto, Over
  <1>4. Told' = [Told EXCEPT ![w] = NoSession]
    BY <1>2, <1>3, ToldAt DEF Over
  <1>5. Told[w] # NoSession
    BY <1>1 DEF Told, Over
  <1>. QED  BY <1>2, <1>4, <1>5 DEF Atomic!Answer, Told

LEMMA RefCrash == ASSUME Crash PROVE Atomic!Restart
  BY DEF Crash, Atomic!Restart, Over

\* Taking the mutex, a statement and letting it go are nobody's business.
LEMMA RefQuiet ==
    ASSUME TxInv, NEW w \in Worker, Lock(w) \/ Statement(w) \/ Unlock(w)
    PROVE  UNCHANGED Atomic!atomicVars
  <1>1. UNCHANGED <<db, cmd>>
    BY DEF Lock, Statement, Unlock
  <1>2. \A v \in Worker : Over(v)' = Over(v) /\ (Over(v) => session'[v] = session[v])
    BY DEF TxInv, TxTypeOK, Lock, Statement, Unlock, Goto, Over
  <1>. QED  BY <1>1, <1>2, Stutter

LEMMA RefStep == TxInv /\ [TxNext]_txVars => [Atomic!AtomicNext]_(Atomic!atomicVars)
  <1>. SUFFICES ASSUME TxInv, [TxNext]_txVars
                PROVE  Atomic!AtomicNext \/ UNCHANGED Atomic!atomicVars
    OBVIOUS
  <1>1. CASE UNCHANGED txVars
    <2>1. UNCHANGED <<db, cmd>>
      BY <1>1 DEF txVars
    <2>2. \A v \in Worker : Over(v)' = Over(v) /\ session'[v] = session[v]
      BY <1>1 DEF txVars, Over
    <2>. QED  BY <2>1, <2>2, Stutter
  <1>2. CASE Crash
    BY <1>2, RefCrash DEF Atomic!AtomicNext
  <1>3. ASSUME NEW w \in Worker, NEW c \in Command, Request(w, c) PROVE Atomic!AtomicNext
    BY <1>3, RefRequest DEF Atomic!AtomicNext
  <1>4. ASSUME NEW w \in Worker, Lock(w) \/ Statement(w) \/ Unlock(w)
        PROVE  UNCHANGED Atomic!atomicVars
    BY <1>4, RefQuiet
  <1>5. ASSUME NEW w \in Worker, FailStatement(w) PROVE Atomic!AtomicNext
    BY <1>5, RefFail DEF Atomic!AtomicNext
  <1>6. ASSUME NEW w \in Worker, Commit(w) \/ Cancel(w) PROVE Atomic!AtomicNext
    BY <1>6, RefPerform DEF Atomic!AtomicNext
  <1>7. ASSUME NEW w \in Worker, Answer(w) PROVE Atomic!AtomicNext
    BY <1>7, RefAnswer DEF Atomic!AtomicNext
  <1>. QED  BY <1>1, <1>2, <1>3, <1>4, <1>5, <1>6, <1>7 DEF TxNext, Locked

\* Database::execute keeps the promise every other module relies on: under
\* any number of workers, throws, failing statements and ends of the process,
\* a command happens in one step or not at all.
THEOREM Refinement == TxSpec => CommandsAtomic
  <1>1. TxSpec => Atomic!AtomicInit /\ [][Atomic!AtomicNext]_(Atomic!atomicVars)
    BY RefInit, RefStep, Invariance, PTL DEF TxSpec
  <1>. QED  BY <1>1 DEF CommandsAtomic, Atomic!AtomicSpec
=============================================================================
