----------------------- MODULE ExhibitCommandsProofs -----------------------
(***************************************************************************)
(* The exhibit and map commands: they keep to CommandAssumption, so what   *)
(* TransactionsProofs shows of Database::execute holds of them, and what   *)
(* they leave in the tables is what module Exhibits says, for any number   *)
(* of workers, exhibits, floors and frames.                                *)
(***************************************************************************)
EXTENDS ExhibitCommands, SequenceTheorems, TLAPS

P == INSTANCE TransactionsProofs WITH InitialDb <- {EmptyDb}

Outcome == [db : Db, session : Session]

\* Statements a session has before it, with those they may call for.
Left(s) ==
    IF s.todo = <<>> THEN 0
    ELSE Len(s.todo) + (IF s.todo[1] = "get" THEN 8 ELSE 0)
            + (IF s.todo[1] = "getLastDeleted" THEN 2 ELSE 0)
            + (IF s.todo[Len(s.todo)] = "getMap" THEN 1 ELSE 0)

-----------------------------------------------------------------------------
(* Sessions *)

LEMMA Finishing ==
    ASSUME NEW s \in Session
    PROVE  Returned(s) \/ Threw(s) <=> s.todo = <<>>
  BY DEF Session, Returned, Threw

LEMMA UpToEight ==
    ASSUME NEW n \in Nat, n # 0, n =< 8
    PROVE  n \in 1 .. 8
  OBVIOUS

LEMMA NotEmpty ==
    ASSUME NEW q \in Seq(Statement), q # <<>>
    PROVE  /\ Len(q) \in Nat /\ Len(q) # 0
           /\ DOMAIN q = 1 .. Len(q) /\ 1 \in DOMAIN q /\ Len(q) \in DOMAIN q
  <1>1. Len(q) \in Nat /\ Len(q) # 0 /\ DOMAIN q = 1 .. Len(q)
    OBVIOUS
  <1>. QED  BY <1>1

LEMMA LeftIs ==
    ASSUME NEW s, s.todo # <<>>
    PROVE  \E a \in {0, 8}, b \in {0, 2}, c \in {0, 1} :
              /\ Left(s) = Len(s.todo) + a + b + c
              /\ a = 8 <=> s.todo[1] = "get"
              /\ b = 2 <=> s.todo[1] = "getLastDeleted"
              /\ c = 1 <=> s.todo[Len(s.todo)] = "getMap"
  <1>. DEFINE a == IF s.todo[1] = "get" THEN 8 ELSE 0
             b == IF s.todo[1] = "getLastDeleted" THEN 2 ELSE 0
             c == IF s.todo[Len(s.todo)] = "getMap" THEN 1 ELSE 0
  <1>1. a \in {0, 8} /\ (a = 8 <=> s.todo[1] = "get")
    OBVIOUS
  <1>2. b \in {0, 2} /\ (b = 2 <=> s.todo[1] = "getLastDeleted")
    OBVIOUS
  <1>3. c \in {0, 1} /\ (c = 1 <=> s.todo[Len(s.todo)] = "getMap")
    OBVIOUS
  <1>4. Left(s) = Len(s.todo) + a + b + c
    BY DEF Left
  <1>. HIDE DEF a, b, c
  <1>. QED  BY <1>1, <1>2, <1>3, <1>4

LEMMA LeftBounded ==
    ASSUME NEW s \in Session
    PROVE  Left(s) \in 0 .. 16 /\ (Left(s) = 0 <=> s.todo = <<>>)
  <1>1. s.todo \in Seq(Statement) /\ Len(s.todo) =< 8 /\ InPlace(s)
    BY DEF Session
  <1>2. CASE s.todo # <<>>
    <2>. DEFINE n == Len(s.todo)
    <2>1. n \in 1 .. 8 /\ 1 \in DOMAIN s.todo
      BY <1>1, <1>2, NotEmpty, UpToEight
    <2>2. s.todo[1] = "get" => n = 1
      BY <1>1, <2>1 DEF InPlace
    <2>3. PICK a \in {0, 8}, b \in {0, 2}, c \in {0, 1} :
             /\ Left(s) = n + a + b + c
             /\ a = 8 <=> s.todo[1] = "get"
             /\ b = 2 <=> s.todo[1] = "getLastDeleted"
             /\ c = 1 <=> s.todo[n] = "getMap"
      BY <1>2, LeftIs
    <2>4. a = 8 => n = 1 /\ b = 0 /\ c = 0
      BY <2>2, <2>3
    <2>. HIDE DEF n
    <2>. QED  BY <1>2, <2>1, <2>3, <2>4
  <1>3. CASE s.todo = <<>>
    BY <1>3 DEF Left
  <1>. QED  BY <1>2, <1>3

\* Nothing left calls for others: what is left is what is there.
LEMMA LeftPlain ==
    ASSUME NEW s, s.todo \in Seq(Statement), s.todo # <<>>,
           s.todo[1] \notin {"get", "getLastDeleted"}
    PROVE  Left(s) = Len(s.todo) + (IF s.todo[Len(s.todo)] = "getMap" THEN 1 ELSE 0)
  <1>1. Len(s.todo) \in Nat
    OBVIOUS
  <1>2. PICK a \in {0, 8}, b \in {0, 2}, c \in {0, 1} :
           /\ Left(s) = Len(s.todo) + a + b + c
           /\ a = 8 <=> s.todo[1] = "get"
           /\ b = 2 <=> s.todo[1] = "getLastDeleted"
           /\ c = 1 <=> s.todo[Len(s.todo)] = "getMap"
    BY LeftIs
  <1>3. a = 0 /\ b = 0
    BY <1>2
  <1>4. Left(s) = Len(s.todo) + c
    BY <1>1, <1>2, <1>3
  <1>5. c = IF s.todo[Len(s.todo)] = "getMap" THEN 1 ELSE 0
    BY <1>2
  <1>. QED  BY <1>4, <1>5

LEMMA FailedTyped == Failed \in Session /\ Left(Failed) = 0 /\ Threw(Failed)
  <1>1. [e \in {} |-> <<>>] \in [{} -> MaybeFrame \X Colour]
    OBVIOUS
  <1>2. NoAnswer \in Answers
    <2>1. [e \in {} |-> <<>>] \in UNION {[E -> MaybeFrame \X Colour] : E \in SUBSET Exhibit}
      BY <1>1
    <2>. QED  BY <2>1 DEF NoAnswer, Answers
  <1>3. 0 \in 0 .. MaxVersion
    BY CommandsAssumption
  <1>. QED  BY <1>2, <1>3 DEF Failed, Session, InPlace, MaybeFrame, Left, Threw

\* What a session has read and collected is not among what it has left.
LEMMA Reading ==
    ASSUME NEW s \in Session, NEW v \in 0 .. MaxVersion
    PROVE  /\ [s EXCEPT !.read = v] \in Session
           /\ Left([s EXCEPT !.read = v]) = Left(s)
           /\ [s EXCEPT !.read = v].todo = s.todo
  BY DEF Session, InPlace, Left

LEMMA Collecting ==
    ASSUME NEW s \in Session, NEW a \in Answers
    PROVE  /\ [s EXCEPT !.answer = a] \in Session
           /\ Left([s EXCEPT !.answer = a]) = Left(s)
           /\ [s EXCEPT !.answer = a].todo = s.todo
  BY DEF Session, InPlace, Left

\* A session with other statements before it is one, if they are the
\* command's and in place.
LEMMA AheadTyped ==
    ASSUME NEW s \in Session, s.todo # <<>>, NEW t \in Seq(Statement), Len(t) =< 8,
           \A i \in DOMAIN t : /\ t[i] \in StatementsOf(s.cmd)
                               /\ t[i] = "checkFrame" => s.frame # NoFrame
                               /\ t[i] \notin {"get", "getLastDeleted"}
                               /\ t[i] = "getMap" => i = Len(t)
    PROVE  [s EXCEPT !.todo = t] \in Session
  <1>. DEFINE n == [s EXCEPT !.todo = t]
  <1>1. n \in [cmd : Command \union {NoCommand}, todo : Seq(Statement), threw : BOOLEAN,
               read : 0 .. MaxVersion, answer : Answers, frame : MaybeFrame]
    BY DEF Session
  <1>2. n.threw = s.threw /\ n.cmd = s.cmd /\ n.frame = s.frame /\ n.todo = t
    BY DEF Session
  <1>3. s.cmd \in Command /\ s.threw = FALSE
    BY DEF Session
  <1>4. InPlace(n)
    BY <1>2 DEF InPlace
  <1>. HIDE DEF n
  <1>5. n \in Session
    BY <1>1, <1>2, <1>3, <1>4 DEF Session
  <1>. QED  BY <1>5 DEF n

\* The statement at the head goes; the others stay in their places.
LEMMA TailTyped ==
    ASSUME NEW s \in Session, s.todo # <<>>
    PROVE  /\ [s EXCEPT !.todo = Tail(@)] \in Session
           /\ Left([s EXCEPT !.todo = Tail(@)]) < Left(s)
  <1>. DEFINE t == Tail(s.todo)
             n == [s EXCEPT !.todo = t]
             k == Len(s.todo)
  <1>1. s.todo \in Seq(Statement) /\ k =< 8 /\ InPlace(s) /\ n.todo = t
    BY DEF Session
  <1>2. k \in 1 .. 8 /\ DOMAIN s.todo = 1 .. k
    BY <1>1, NotEmpty, UpToEight
  <1>3. t \in Seq(Statement) /\ Len(t) = k - 1 /\ DOMAIN t = 1 .. k - 1
        /\ \A i \in 1 .. k - 1 : t[i] = s.todo[i + 1]
    BY <1>1, <1>2
  <1>4. \A i \in DOMAIN t : i \in Nat /\ i # 0 /\ i + 1 \in DOMAIN s.todo /\ t[i] = s.todo[i + 1]
    BY <1>2, <1>3
  <1>5. \A i \in DOMAIN t : /\ t[i] \notin {"get", "getLastDeleted"}
                            /\ t[i] = "getMap" => i = Len(t)
    <2>. SUFFICES ASSUME NEW i \in DOMAIN t
                  PROVE  /\ t[i] \notin {"get", "getLastDeleted"}
                         /\ t[i] = "getMap" => i = Len(t)
      OBVIOUS
    <2>1. i \in 1 .. k - 1 /\ t[i] = s.todo[i + 1] /\ i + 1 \in DOMAIN s.todo
      BY <1>3, <1>4
    <2>2. k # 1 /\ i + 1 # 1
      BY <1>2, <2>1
    <2>3. t[i] = "getMap" => i + 1 = k
      BY <1>1, <2>1 DEF InPlace
    <2>. QED  BY <1>1, <1>2, <1>3, <2>1, <2>2, <2>3 DEF InPlace
  <1>6. n \in Session
    <2>1. Len(t) =< 8
      <3>. HIDE DEF t, k
      <3>. QED  BY <1>2, <1>3
    <2>2. \A i \in DOMAIN s.todo : /\ s.todo[i] \in StatementsOf(s.cmd)
                                   /\ s.todo[i] = "checkFrame" => s.frame # NoFrame
      BY DEF Session
    <2>. QED  BY <1>3, <1>4, <1>5, <2>1, <2>2, AheadTyped
  <1>7. Left(n) < Left(s)
    <2>. HIDE DEF n
    <2>0. Left(s) >= k /\ Left(s) \in Nat /\ (s.todo[k] = "getMap" => Left(s) > k)
      <3>1. PICK a \in {0, 8}, b \in {0, 2}, c \in {0, 1} :
               Left(s) = k + a + b + c /\ (c = 1 <=> s.todo[k] = "getMap")
        BY LeftIs
      <3>. QED  BY <1>2, <3>1
    <2>1. CASE t = <<>>
      <3>1. Left(n) = 0
        BY <1>1, <2>1 DEF Left
      <3>. HIDE DEF t, k
      <3>. QED  BY <1>2, <2>0, <3>1
    <2>2. CASE t # <<>>
      <3>1. 1 \in DOMAIN t /\ Len(t) \in DOMAIN t
        BY <1>3, <2>2, NotEmpty
      <3>2. t[Len(t)] = s.todo[k]
        BY <1>2, <1>3, <3>1
      <3>3. Left(n) = Len(t) + (IF t[Len(t)] = "getMap" THEN 1 ELSE 0)
        BY <1>1, <1>3, <1>5, <2>2, <3>1, LeftPlain
      <3>. HIDE DEF t, k
      <3>. QED  BY <1>2, <1>3, <2>0, <3>2, <3>3
    <2>. QED  BY <2>1, <2>2
  <1>. QED  BY <1>6, <1>7

\* A statement gives way to others.
LEMMA MoreTyped ==
    ASSUME NEW s \in Session, s.todo # <<>>, NEW more \in Seq(Statement),
           \A i \in DOMAIN more : /\ more[i] \in StatementsOf(s.cmd)
                                  /\ more[i] = "checkFrame" => s.frame # NoFrame
                                  /\ more[i] \notin {"get", "getLastDeleted", "getMap"},
           \A i \in DOMAIN s.todo : i > 1 => s.todo[i] # "getMap",
           Len(more) + Len(s.todo) =< 9,
           Len(more) + Len(s.todo) - 1 < Left(s)
    PROVE  /\ [s EXCEPT !.todo = more \o Tail(@)] \in Session
           /\ Left([s EXCEPT !.todo = more \o Tail(@)]) < Left(s)
  <1>. DEFINE t == more \o Tail(s.todo)
             n == [s EXCEPT !.todo = t]
             k == Len(s.todo)
             m == Len(more)
  <1>1. s.todo \in Seq(Statement) /\ k =< 8 /\ InPlace(s) /\ n.todo = t
    BY DEF Session
  <1>2. k \in 1 .. 8 /\ DOMAIN s.todo = 1 .. k /\ m \in Nat /\ DOMAIN more = 1 .. m
    <2>1. k \in 1 .. 8 /\ DOMAIN s.todo = 1 .. k
      BY <1>1, NotEmpty, UpToEight
    <2>. QED  BY <2>1
  <1>3. Tail(s.todo) \in Seq(Statement) /\ Len(Tail(s.todo)) = k - 1
        /\ \A i \in 1 .. k - 1 : Tail(s.todo)[i] = s.todo[i + 1]
    BY <1>1, <1>2
  <1>4. t \in Seq(Statement) /\ Len(t) = m + (k - 1) /\ DOMAIN t = 1 .. m + (k - 1)
        /\ \A i \in 1 .. m + (k - 1) : t[i] = IF i =< m THEN more[i] ELSE Tail(s.todo)[i - m]
    BY <1>2, <1>3
  <1>5. \A i \in DOMAIN t :
           \/ i \in DOMAIN more /\ t[i] = more[i]
           \/ \E j \in DOMAIN s.todo : j # 1 /\ j > 1 /\ t[i] = s.todo[j]
    <2>. SUFFICES ASSUME NEW i \in 1 .. m + (k - 1)
                  PROVE  \/ i \in DOMAIN more /\ t[i] = more[i]
                         \/ \E j \in DOMAIN s.todo : j # 1 /\ j > 1 /\ t[i] = s.todo[j]
      BY <1>4
    <2>. HIDE DEF t, k, m
    <2>1. CASE i =< m
      BY <1>2, <1>4, <2>1
    <2>2. CASE ~(i =< m)
      <3>1. i - m \in 1 .. k - 1 /\ (i - m) + 1 \in 2 .. k
        BY <1>2, <2>2
      <3>2. t[i] = s.todo[(i - m) + 1]
        BY <1>3, <1>4, <2>2, <3>1
      <3>3. (i - m) + 1 \in DOMAIN s.todo /\ (i - m) + 1 # 1 /\ (i - m) + 1 > 1
        BY <1>2, <3>1
      <3>. QED  BY <3>2, <3>3
    <2>. QED  BY <2>1, <2>2
  <1>6. \A i \in DOMAIN t : /\ t[i] \in StatementsOf(s.cmd)
                            /\ t[i] = "checkFrame" => s.frame # NoFrame
                            /\ t[i] \notin {"get", "getLastDeleted", "getMap"}
    <2>1. \A i \in DOMAIN s.todo : /\ s.todo[i] \in StatementsOf(s.cmd)
                                   /\ s.todo[i] = "checkFrame" => s.frame # NoFrame
      BY DEF Session
    <2>2. \A i \in DOMAIN s.todo : i > 1 /\ i # 1 =>
             s.todo[i] \notin {"get", "getLastDeleted", "getMap"}
      <3>. SUFFICES ASSUME NEW i \in DOMAIN s.todo, i > 1, i # 1
                    PROVE  s.todo[i] \notin {"get", "getLastDeleted", "getMap"}
        OBVIOUS
      <3>1. k # 1
        BY <1>2
      <3>. QED  BY <1>1, <3>1 DEF InPlace
    <2>. HIDE DEF t
    <2>. QED  BY <1>5, <2>1, <2>2
  <1>. HIDE DEF t, m, k
  <1>7. n \in Session
    <2>1. Len(t) =< 8
      BY <1>2, <1>4 DEF k, m
    <2>. QED  BY <1>4, <1>6, <2>1, AheadTyped
  <1>8. Left(n) < Left(s)
    <2>. HIDE DEF n
    <2>1. CASE t = <<>>
      <3>1. Left(s) # 0 /\ Left(s) \in Nat
        BY LeftBounded
      <3>2. Left(n) = 0
        BY <1>1, <2>1 DEF Left
      <3>. QED  BY <3>1, <3>2
    <2>2. CASE t # <<>>
      <3>1. 1 \in DOMAIN t /\ Len(t) \in DOMAIN t
        BY <1>4, <2>2, NotEmpty
      <3>2. Left(n) = Len(t) + (IF t[Len(t)] = "getMap" THEN 1 ELSE 0)
        BY <1>1, <1>4, <1>6, <2>2, <3>1, LeftPlain
      <3>3. Left(n) = m + (k - 1)
        BY <1>2, <1>4, <1>6, <3>1, <3>2
      <3>. QED  BY <1>2, <3>3 DEF k, m
    <2>. QED  BY <2>1, <2>2
  <1>. QED  BY <1>7, <1>8 DEF t

-----------------------------------------------------------------------------
(* Statements *)

\* A statement leaves contents and a session, and that nearer to its end.
Closer(r, s) == r \in Outcome /\ Left(r.session) < Left(s)

Runs(s) == s \in Session /\ s.todo # <<>>

LEMMA GoCloser ==
    ASSUME NEW d \in Db, NEW s, Runs(s)
    PROVE  Closer(Go(d, s), s)
  BY TailTyped DEF Runs, Closer, Go, Outcome

LEMMA ThrowCloser ==
    ASSUME NEW d \in Db, NEW s, Runs(s)
    PROVE  Closer(Throw(d, s), s)
  <1>1. Left(s) \in Nat /\ Left(s) # 0
    BY LeftBounded DEF Runs
  <1>. QED  BY <1>1, FailedTyped DEF Closer, Throw, Outcome

LEMMA RequireCloser ==
    ASSUME NEW d \in Db, NEW s, Runs(s), NEW ok
    PROVE  Closer(Require(ok, d, s), s)
  BY GoCloser, ThrowCloser DEF Require

LEMMA AtRest ==
    ASSUME NEW s \in Session, s.todo = <<>>
    PROVE  [s EXCEPT !.read = 0, !.frame = NoFrame] \in Session
  <1>1. 0 \in 0 .. MaxVersion
    BY CommandsAssumption
  <1>2. DOMAIN s.todo = {}
    OBVIOUS
  <1>. QED  BY <1>1, <1>2 DEF Session, InPlace, MaybeFrame

LEMMA SettleCloser ==
    ASSUME NEW r, NEW s, Closer(r, s)
    PROVE  Closer(Settle(r), s)
  <1>. DEFINE n == [r.session EXCEPT !.read = 0, !.frame = NoFrame]
  <1>1. r \in [db : Db, session : Session] /\ Left(r.session) < Left(s)
    BY DEF Closer, Outcome
  <1>2. CASE r.session.todo # <<>> \/ r.session.threw
    BY <1>2 DEF Settle
  <1>3. CASE ~(r.session.todo # <<>> \/ r.session.threw)
    <2>1. r.session.todo = <<>> /\ r.session \in Session
      BY <1>1, <1>3
    <2>2. n \in Session
      BY <2>1, AtRest
    <2>3. n.todo = r.session.todo
      BY <2>1 DEF Session
    <2>4. Left(n) = Left(r.session)
      <3>. HIDE DEF n
      <3>. QED  BY <2>1, <2>3 DEF Left
    <2>5. Settle(r) = [db |-> r.db, session |-> n]
      BY <1>1, <1>3, <2>1 DEF Settle, Session
    <2>. HIDE DEF n
    <2>. QED  BY <1>1, <2>2, <2>4, <2>5 DEF Closer, Outcome
  <1>. QED  BY <1>2, <1>3

\* The commands a statement can be of.
LEMMA WhoseStatement ==
    ASSUME NEW c \in Command, NEW st \in StatementsOf(c)
    PROVE  /\ st = "insert" => c.op = "create"
           /\ st = "setRgb" => c.op = "update"
           /\ st = "get" => c.op \in {"update", "setFrame"}
           /\ st = "getMap" => c.op = "removeOldData"
           /\ st = "insertMap" => c.op = "saveMap"
           /\ st \in {"getAll", "getVersion"} => c.op = "getNew"
           /\ st \in {"getLastDeleted", "getNewer"} => c.op = "getNew" /\ c.acquired # NoVersion
           /\ st \in Statement
  BY DEF Command, ExhibitCommand, RemoveData, SaveMap, StatementsOf, Statement

LEMMA Arguments ==
    ASSUME NEW c \in Command
    PROVE  /\ c.op = "create" => c.colour \in Colour /\ c.frame \in MaybeFrame
           /\ c.op = "update" => c.colour \in Colour /\ c.frame \in MaybeFrame
           /\ c.op = "setFrame" => c.extent \in Extent
           /\ c.op = "saveMap" => c.size \in Extent
           /\ c.op = "getNew" => c.acquired \in 0 .. MaxVersion \union {NoVersion}
  BY DEF Command, ExhibitCommand, RemoveData, SaveMap

LEMMA HeadOf ==
    ASSUME NEW s, Runs(s)
    PROVE  /\ s.cmd \in Command
           /\ Head(s.todo) = s.todo[1] /\ 1 \in DOMAIN s.todo
           /\ Head(s.todo) \in StatementsOf(s.cmd)
           /\ Head(s.todo) \in Statement
  <1>1. s.todo \in Seq(Statement) /\ s.todo # <<>> /\ s.cmd \in Command
        /\ \A i \in DOMAIN s.todo : s.todo[i] \in StatementsOf(s.cmd)
    BY DEF Runs, Session
  <1>2. 1 \in DOMAIN s.todo /\ Head(s.todo) = s.todo[1]
    BY <1>1, NotEmpty
  <1>. QED  BY <1>1, <1>2

\* Contents and sessions as the statements leave them.
LEMMA ReadCloser ==
    ASSUME NEW d \in Db, NEW s, Runs(s), NEW v \in 0 .. MaxVersion
    PROVE  Closer(Go(d, [s EXCEPT !.read = v]), s)
  <1>. DEFINE n == [s EXCEPT !.read = v]
  <1>1. Runs(n) /\ Left(n) = Left(s)
    BY Reading DEF Runs
  <1>. HIDE DEF n
  <1>2. Closer(Go(d, n), n)
    BY <1>1, GoCloser
  <1>. QED  BY <1>1, <1>2 DEF Closer, n

LEMMA AnswerCloser ==
    ASSUME NEW d \in Db, NEW s, Runs(s), NEW a \in Answers
    PROVE  Closer(Go(d, [s EXCEPT !.answer = a]), s)
  <1>. DEFINE n == [s EXCEPT !.answer = a]
  <1>1. Runs(n) /\ Left(n) = Left(s)
    BY Collecting DEF Runs
  <1>. HIDE DEF n
  <1>2. Closer(Go(d, n), n)
    BY <1>1, GoCloser
  <1>. QED  BY <1>1, <1>2 DEF Closer, n

LEMMA GetLastVersionCloser ==
    ASSUME NEW d \in Db, NEW s, Runs(s)
    PROVE  Closer(GetLastVersion(d, s), s)
  BY ReadCloser DEF GetLastVersion, Db

LEMMA SetLastVersionCloser ==
    ASSUME NEW d \in Db, NEW s, Runs(s)
    PROVE  Closer(SetLastVersion(d, s), s)
  <1>1. CASE s.read < MaxVersion
    <2>1. s.read + 1 \in 0 .. MaxVersion
      BY <1>1, CommandsAssumption DEF Runs, Session
    <2>2. [d EXCEPT !.lastVersion = s.read + 1] \in Db
      BY <2>1 DEF Db
    <2>. QED  BY <1>1, <2>1, <2>2, ReadCloser DEF SetLastVersion
  <1>2. CASE ~(s.read < MaxVersion)
    BY <1>2, ThrowCloser DEF SetLastVersion
  <1>. QED  BY <1>1, <1>2

LEMMA InsertCloser ==
    ASSUME NEW d \in Db, NEW s, Runs(s), Head(s.todo) = "insert"
    PROVE  Closer(Insert(d, s), s)
  <1>. DEFINE free == {e \in Exhibit : d.status[e] = "unused" /\ NameOf[e] = s.cmd.name}
             e == CHOOSE x \in free : TRUE
             n == [d EXCEPT !.status[e] = "live", !.version[e] = s.read,
                            !.frame[e] = s.frame, !.rgb[e] = s.cmd.colour]
  <1>1. s.cmd.colour \in Colour
    BY HeadOf, WhoseStatement, Arguments
  <1>2. s.read \in 0 .. MaxVersion /\ s.frame \in MaybeFrame
    BY DEF Runs, Session
  <1>. HIDE DEF e
  <1>3. n \in Db
    BY <1>1, <1>2 DEF Db
  <1>4. Insert(d, s) = IF free = {} THEN Throw(d, s) ELSE Go(n, s)
    BY DEF Insert, e
  <1>. HIDE DEF n, free
  <1>. QED  BY <1>3, <1>4, GoCloser, ThrowCloser

LEMMA SetRgbCloser ==
    ASSUME NEW d \in Db, NEW s, Runs(s), Head(s.todo) = "setRgb"
    PROVE  Closer(SetRgb(d, s), s)
  <1>1. s.cmd.colour \in Colour
    BY HeadOf, WhoseStatement, Arguments
  <1>2. [d EXCEPT !.rgb[s.cmd.id] = s.cmd.colour] \in Db
    BY <1>1 DEF Db
  <1>. QED  BY <1>2, GoCloser DEF SetRgb

LEMMA WriteFrameCloser ==
    ASSUME NEW d \in Db, NEW s, Runs(s)
    PROVE  Closer(WriteFrame(d, s), s)
  <1>1. s.read \in 0 .. MaxVersion /\ s.frame \in MaybeFrame
    BY DEF Runs, Session
  <1>2. [d EXCEPT !.version[s.cmd.id] = s.read, !.frame[s.cmd.id] = s.frame] \in Db
    BY <1>1 DEF Db
  <1>. QED  BY <1>2, GoCloser DEF WriteFrame

LEMMA MarkDeletedCloser ==
    ASSUME NEW d \in Db, NEW s, Runs(s)
    PROVE  Closer(MarkDeleted(d, s), s)
  <1>1. [d EXCEPT !.status[s.cmd.id] = "removed"] \in Db
    BY DEF Db
  <1>. QED  BY <1>1, GoCloser DEF MarkDeleted

LEMMA SetLastDeletedCloser ==
    ASSUME NEW d \in Db, NEW s, Runs(s)
    PROVE  Closer(SetLastDeleted(d, s), s)
  <1>1. [d EXCEPT !.lastDeleted = s.read] \in Db
    BY DEF Db, Runs, Session
  <1>. QED  BY <1>1, GoCloser DEF SetLastDeleted

LEMMA ResetFramesCloser ==
    ASSUME NEW d \in Db, NEW s, Runs(s)
    PROVE  Closer(ResetFrames(d, s), s)
  <1>. DEFINE onFloor == {e \in Exhibit :
                            d.frame[e] # NoFrame /\ d.frame[e].floor = s.cmd.floor}
             v == [e \in Exhibit |-> IF e \in onFloor THEN s.read ELSE d.version[e]]
             f == [e \in Exhibit |-> IF e \in onFloor THEN NoFrame ELSE d.frame[e]]
  <1>1. s.read \in 0 .. MaxVersion
    BY DEF Runs, Session
  <1>2. d.version \in [Exhibit -> 0 .. MaxVersion] /\ d.frame \in [Exhibit -> MaybeFrame]
    BY DEF Db
  <1>3. v \in [Exhibit -> 0 .. MaxVersion] /\ f \in [Exhibit -> MaybeFrame]
    <2>. HIDE DEF onFloor
    <2>. QED  BY <1>1, <1>2 DEF MaybeFrame
  <1>4. ResetFrames(d, s) = Go([d EXCEPT !.version = v, !.frame = f], s)
    BY DEF ResetFrames
  <1>. HIDE DEF v, f
  <1>5. [d EXCEPT !.version = v, !.frame = f] \in Db
    BY <1>3 DEF Db
  <1>. QED  BY <1>4, <1>5, GoCloser

LEMMA RemoveMapCloser ==
    ASSUME NEW d \in Db, NEW s, Runs(s)
    PROVE  Closer(RemoveMap(d, s), s)
  <1>1. [d EXCEPT !.mapSize[s.cmd.floor] = 0] \in Db
    BY DEF Db
  <1>. QED  BY <1>1, GoCloser DEF RemoveMap

LEMMA InsertMapCloser ==
    ASSUME NEW d \in Db, NEW s, Runs(s), Head(s.todo) = "insertMap"
    PROVE  Closer(InsertMap(d, s), s)
  <1>1. s.cmd.size \in Extent
    BY HeadOf, WhoseStatement, Arguments
  <1>2. [d EXCEPT !.mapSize[s.cmd.floor] = s.cmd.size] \in Db
    BY <1>1 DEF Db
  <1>. QED  BY <1>2, GoCloser DEF InsertMap

LEMMA CollectCloser ==
    ASSUME NEW d \in Db, NEW s, Runs(s), NEW full \in BOOLEAN, NEW sent \in SUBSET Exhibit
    PROVE  Closer(Collect(d, s, full, sent), s)
  <1>. DEFINE items == [e \in sent |-> <<d.frame[e], d.rgb[e]>>]
             a == [full |-> full, version |-> NoVersion, items |-> items]
  <1>1. items \in [sent -> MaybeFrame \X Colour]
    BY DEF Db
  <1>. HIDE DEF items
  <1>2. items \in UNION {[E -> MaybeFrame \X Colour] : E \in SUBSET Exhibit}
    BY <1>1
  <1>3. a \in Answers
    BY <1>2 DEF Answers
  <1>4. Collect(d, s, full, sent) = Go(d, [s EXCEPT !.answer = a])
    BY DEF Collect, items
  <1>. HIDE DEF a
  <1>. QED  BY <1>3, <1>4, AnswerCloser

LEMMA GetVersionCloser ==
    ASSUME NEW d \in Db, NEW s, Runs(s)
    PROVE  Closer(GetVersion(d, s), s)
  <1>. DEFINE a == [s.answer EXCEPT !.version = d.lastVersion]
  <1>1. a \in Answers
    BY DEF Answers, Runs, Session, Db
  <1>2. GetVersion(d, s) = Go(d, [s EXCEPT !.answer = a])
    BY DEF GetVersion
  <1>. HIDE DEF a
  <1>. QED  BY <1>1, <1>2, AnswerCloser

LEMMA OneIn ==
    ASSUME NEW S, NEW x \in S
    PROVE  <<x>> \in Seq(S) /\ Len(<<x>>) = 1
  OBVIOUS

LEMMA TwoIn ==
    ASSUME NEW S, NEW x \in S, NEW y \in S
    PROVE  <<x, y>> \in Seq(S) /\ Len(<<x, y>>) = 2
  OBVIOUS

LEMMA NoneIn ==
    ASSUME NEW S
    PROVE  <<>> \in Seq(S) /\ Len(<<>>) = 0
  OBVIOUS

\* What is to be done once the exhibit is read, or the counter, or the map.
LEMMA SetFrameIs ==
    ASSUME NEW f, NEW S,
           {"checkID", "getLastVersion", "setLastVersion", "writeFrame"} \subseteq S,
           f # NoFrame => "checkFrame" \in S
    PROVE  SetFrame(f) \in Seq(S) /\ Len(SetFrame(f)) \in {4, 5}
  <1>. DEFINE b == IF f = NoFrame THEN <<>> ELSE <<"checkFrame">>
             ab == <<"checkID">> \o b
             abc == ab \o IncrementVersion
  <1>1. b \in Seq(S) /\ Len(b) \in {0, 1}
    <2>1. CASE f = NoFrame
      BY <2>1, NoneIn
    <2>2. CASE f # NoFrame
      BY <2>2, OneIn
    <2>. QED  BY <2>1, <2>2
  <1>. HIDE DEF b
  <1>2. ab \in Seq(S) /\ Len(ab) = 1 + Len(b)
    BY <1>1, OneIn, ConcatProperties
  <1>. HIDE DEF ab
  <1>3. IncrementVersion \in Seq(S) /\ Len(IncrementVersion) = 2
    BY TwoIn DEF IncrementVersion
  <1>4. abc \in Seq(S) /\ Len(abc) = Len(ab) + 2
    <2>1. abc \in Seq(S) /\ Len(abc) = Len(ab) + Len(IncrementVersion)
      BY <1>2, <1>3, ConcatProperties
    <2>. QED  BY <1>3, <2>1
  <1>. HIDE DEF abc
  <1>5. abc \o <<"writeFrame">> \in Seq(S) /\ Len(abc \o <<"writeFrame">>) = Len(abc) + 1
    BY <1>4, OneIn, ConcatProperties
  <1>6. SetFrame(f) = abc \o <<"writeFrame">>
    BY DEF SetFrame, abc, ab, b
  <1>. DEFINE lb == Len(b)
             lab == Len(ab)
             labc == Len(abc)
             l == Len(SetFrame(f))
  <1>7. lb \in {0, 1} /\ lab = 1 + lb /\ labc = lab + 2 /\ l = labc + 1
    BY <1>1, <1>2, <1>4, <1>5, <1>6
  <1>. HIDE DEF lb, lab, labc, l
  <1>8. l \in {4, 5}
    BY <1>7
  <1>. QED  BY <1>5, <1>6, <1>8 DEF l

LEMMA MoreCloser ==
    ASSUME NEW d \in Db, NEW s, Runs(s), NEW S, NEW more \in Seq(S),
           S \subseteq StatementsOf(s.cmd),
           "checkFrame" \in S => s.frame # NoFrame,
           {"get", "getLastDeleted", "getMap"} \intersect S = {},
           \A i \in DOMAIN s.todo : i > 1 => s.todo[i] # "getMap",
           NEW k \in 1 .. 8, Len(more) \in 0 .. k,
           NEW j \in Nat, Len(s.todo) = j, k + j =< 9, Left(s) >= k + j
    PROVE  Closer(GoOn(d, s, more), s)
  <1>. DEFINE m == Len(more)
             l == Left(s)
             t == Len(s.todo)
  <1>1. s \in Session /\ s.todo # <<>> /\ s.cmd \in Command
    BY DEF Runs, Session
  <1>2. S \subseteq Statement
    BY <1>1, WhoseStatement
  <1>3. more \in Seq(Statement)
    BY <1>2
  <1>4. \A i \in DOMAIN more : /\ more[i] \in StatementsOf(s.cmd)
                               /\ more[i] = "checkFrame" => s.frame # NoFrame
                               /\ more[i] \notin {"get", "getLastDeleted", "getMap"}
    <2>1. \A i \in DOMAIN more : more[i] \in S
      OBVIOUS
    <2>. QED  BY <2>1
  <1>5. m + t =< 9 /\ m + t - 1 < l
    <2>1. m \in 0 .. k /\ t = j /\ l \in Nat /\ l >= k + j
      BY <1>1, LeftBounded
    <2>. HIDE DEF m, l, t
    <2>. QED  BY <2>1
  <1>6. /\ [s EXCEPT !.todo = more \o Tail(@)] \in Session
        /\ Left([s EXCEPT !.todo = more \o Tail(@)]) < Left(s)
    BY <1>1, <1>3, <1>4, <1>5, MoreTyped
  <1>. QED  BY <1>6 DEF Closer, Outcome, GoOn

LEMMA AloneWithGet ==
    ASSUME NEW s, Runs(s), Head(s.todo) = "get"
    PROVE  Len(s.todo) = 1 /\ Left(s) = 9 /\ DOMAIN s.todo = {1}
  <1>1. s.todo \in Seq(Statement) /\ InPlace(s) /\ s.todo[1] = "get" /\ 1 \in DOMAIN s.todo
    BY HeadOf DEF Runs, Session
  <1>2. Len(s.todo) = 1
    BY <1>1 DEF InPlace
  <1>3. PICK a \in {0, 8}, b \in {0, 2}, c \in {0, 1} :
           /\ Left(s) = Len(s.todo) + a + b + c
           /\ a = 8 <=> s.todo[1] = "get"
           /\ b = 2 <=> s.todo[1] = "getLastDeleted"
           /\ c = 1 <=> s.todo[Len(s.todo)] = "getMap"
    BY LeftIs DEF Runs
  <1>4. a = 8 /\ b = 0 /\ c = 0
    BY <1>1, <1>2, <1>3
  <1>. QED  BY <1>1, <1>2, <1>3, <1>4

LEMMA UpdateAfterGetCloser ==
    ASSUME NEW d \in Db, NEW s, Runs(s), Head(s.todo) = "get", s.cmd.op = "update"
    PROVE  Closer(UpdateAfterGet(d, s), s)
  <1>. DEFINE old == d.frame[s.cmd.id]
             same == s.frame # NoFrame /\ old # NoFrame /\ s.frame.floor = old.floor
             mid == IF same THEN <<>> ELSE SetFrame(s.frame)
             S == {st \in StatementsOf(s.cmd) \ {"get"} : st = "checkFrame" => s.frame # NoFrame}
             a == <<"checkID", "setRgb">> \o mid
             more == a \o <<"getAgain">>
  <1>1. StatementsOf(s.cmd) = {"get", "checkID", "setRgb", "checkFrame", "getLastVersion",
                               "setLastVersion", "writeFrame", "getAgain"}
    BY DEF StatementsOf
  <1>2. /\ {"checkID", "setRgb", "getLastVersion", "setLastVersion", "writeFrame",
            "getAgain"} \subseteq S
        /\ s.frame # NoFrame => "checkFrame" \in S
        /\ {"get", "getLastDeleted", "getMap"} \intersect S = {}
        /\ "checkFrame" \in S => s.frame # NoFrame
        /\ S \subseteq StatementsOf(s.cmd)
    BY <1>1
  <1>. HIDE DEF S
  <1>3. mid \in Seq(S) /\ Len(mid) \in {0, 4, 5}
    <2>. HIDE DEF same
    <2>1. CASE same
      BY <2>1, NoneIn
    <2>2. CASE ~same
      BY <1>2, <2>2, SetFrameIs
    <2>. QED  BY <2>1, <2>2
  <1>4. UpdateAfterGet(d, s) = GoOn(d, s, more)
    BY DEF UpdateAfterGet
  <1>. HIDE DEF mid
  <1>5. <<"checkID", "setRgb">> \in Seq(S) /\ Len(<<"checkID", "setRgb">>) = 2
    BY <1>2, TwoIn
  <1>6. a \in Seq(S) /\ Len(a) = 2 + Len(mid)
    BY <1>3, <1>5, ConcatProperties
  <1>. HIDE DEF a
  <1>7. <<"getAgain">> \in Seq(S) /\ Len(<<"getAgain">>) = 1
    BY <1>2, OneIn
  <1>8. more \in Seq(S) /\ Len(more) = Len(a) + 1
    BY <1>6, <1>7, ConcatProperties
  <1>. HIDE DEF more
  <1>9. Len(more) \in 0 .. 8
    <2>. DEFINE lm == Len(mid)
               la == Len(a)
               l == Len(more)
    <2>1. lm \in {0, 4, 5} /\ la = 2 + lm /\ l = la + 1
      BY <1>3, <1>6, <1>8
    <2>. HIDE DEF lm, la, l
    <2>2. l \in 0 .. 8
      BY <2>1
    <2>. QED  BY <2>2 DEF l
  <1>10. Len(s.todo) = 1 /\ Left(s) >= 9 /\ \A i \in DOMAIN s.todo : i > 1 => s.todo[i] # "getMap"
    BY AloneWithGet
  <1>11. 8 \in 1 .. 8 /\ 1 \in Nat /\ 8 + 1 =< 9 /\ Left(s) >= 8 + 1
    BY <1>10
  <1>. QED  BY <1>2, <1>4, <1>8, <1>9, <1>10, <1>11, MoreCloser

LEMMA SetFrameAfterGetCloser ==
    ASSUME NEW d \in Db, NEW s, Runs(s), Head(s.todo) = "get", s.cmd.op = "setFrame",
           s.cmd.id \in Exhibit
    PROVE  Closer(SetFrameAfterGet(d, s), s)
  <1>. DEFINE old == d.frame[s.cmd.id]
             new == [floor |-> old.floor, extent |-> s.cmd.extent]
             n == [s EXCEPT !.frame = new]
             S == {"checkID", "checkFrame", "getLastVersion", "setLastVersion", "writeFrame"}
  <1>1. CASE old = NoFrame
    BY <1>1, ThrowCloser DEF SetFrameAfterGet
  <1>2. CASE old # NoFrame
    <2>1. old \in Frame /\ s.cmd.extent \in Extent
      BY <1>2, HeadOf, Arguments DEF Db, MaybeFrame
    <2>2. new \in Frame /\ new # NoFrame
      BY <2>1, CommandsAssumption DEF Frame
    <2>3. SetFrameAfterGet(d, s) = GoOn(d, n, SetFrame(new))
      BY <1>2 DEF SetFrameAfterGet
    <2>. HIDE DEF new
    <2>4. n \in Session /\ Left(n) = Left(s) /\ n.todo = s.todo /\ n.cmd = s.cmd
          /\ n.frame = new
      BY <2>2 DEF Runs, Session, InPlace, Left, MaybeFrame
    <2>. HIDE DEF n
    <2>5. SetFrame(new) \in Seq(S) /\ Len(SetFrame(new)) \in 0 .. 5
      <3>1. /\ {"checkID", "getLastVersion", "setLastVersion", "writeFrame"} \subseteq S
            /\ "checkFrame" \in S
        OBVIOUS
      <3>. HIDE DEF S
      <3>2. SetFrame(new) \in Seq(S) /\ Len(SetFrame(new)) \in {4, 5}
        BY <3>1, SetFrameIs
      <3>. QED  BY <3>2
    <2>6. S \subseteq StatementsOf(n.cmd) /\ {"get", "getLastDeleted", "getMap"} \intersect S = {}
      BY <2>4 DEF StatementsOf
    <2>7. Len(n.todo) = 1 /\ Left(n) = 9 /\ \A i \in DOMAIN n.todo : i > 1 => n.todo[i] # "getMap"
      BY <2>4, AloneWithGet
    <2>8. Runs(n)
      BY <2>4 DEF Runs
    <2>. HIDE DEF S
    <2>9. Closer(GoOn(d, n, SetFrame(new)), n)
      <3>1. Left(n) >= 5 + 1 /\ 5 \in 1 .. 8 /\ 5 + 1 =< 9 /\ n.frame # NoFrame
        BY <2>2, <2>4, <2>7
      <3>. QED  BY <2>5, <2>6, <2>7, <2>8, <3>1, MoreCloser
    <2>. QED  BY <2>3, <2>4, <2>9 DEF Closer
  <1>. QED  BY <1>1, <1>2

LEMMA GetCloser ==
    ASSUME NEW d \in Db, NEW s, Runs(s), Head(s.todo) = "get"
    PROVE  Closer(Get(d, s), s)
  <1>1. s.cmd.op \in {"update", "setFrame"}
    BY HeadOf, WhoseStatement
  <1>2. CASE s.cmd.id \notin Live(d)
    BY <1>2, ThrowCloser DEF Get
  <1>3. CASE s.cmd.id \in Live(d)
    <2>1. s.cmd.id \in Exhibit
      BY <1>3 DEF Live
    <2>. QED  BY <1>1, <1>3, <2>1, UpdateAfterGetCloser, SetFrameAfterGetCloser DEF Get
  <1>. QED  BY <1>2, <1>3

LEMMA GetMapCloser ==
    ASSUME NEW d \in Db, NEW s, Runs(s), Head(s.todo) = "getMap"
    PROVE  Closer(GetMap(d, s), s)
  <1>. DEFINE more == IF d.mapSize[s.cmd.floor] = 0 THEN <<>> ELSE <<"removeMap">>
             S == {"removeMap"}
  <1>1. s \in Session /\ s.todo \in Seq(Statement) /\ InPlace(s) /\ s.todo[1] = "getMap"
        /\ 1 \in DOMAIN s.todo /\ s.todo # <<>> /\ s.cmd \in Command
        /\ s.cmd.op = "removeOldData"
    BY HeadOf, WhoseStatement DEF Runs, Session
  <1>2. Len(s.todo) = 1
    BY <1>1 DEF InPlace
  <1>3. Left(s) = 2
    <2>1. Left(s) = Len(s.todo) + (IF s.todo[Len(s.todo)] = "getMap" THEN 1 ELSE 0)
      BY <1>1, LeftPlain
    <2>2. s.todo[Len(s.todo)] = "getMap"
      BY <1>1, <1>2
    <2>. QED  BY <1>2, <2>1, <2>2
  <1>4. more \in Seq(S) /\ Len(more) \in 0 .. 1
    BY NoneIn, OneIn
  <1>5. GetMap(d, s) = GoOn(d, s, more)
    BY DEF GetMap
  <1>6. S \subseteq StatementsOf(s.cmd) /\ {"get", "getLastDeleted", "getMap"} \intersect S = {}
        /\ "checkFrame" \notin S
    BY <1>1 DEF StatementsOf
  <1>7. \A i \in DOMAIN s.todo : i > 1 => s.todo[i] # "getMap"
    BY <1>1, <1>2
  <1>. HIDE DEF more, S
  <1>8. 1 \in 1 .. 8 /\ 1 + 1 =< 9 /\ Left(s) >= 1 + 1
    BY <1>3
  <1>. QED  BY <1>2, <1>4, <1>5, <1>6, <1>7, <1>8, MoreCloser

LEMMA GetLastDeletedCloser ==
    ASSUME NEW d \in Db, NEW s, Runs(s), Head(s.todo) = "getLastDeleted"
    PROVE  Closer(GetLastDeleted(d, s), s)
  <1>. DEFINE more == IF s.cmd.acquired < d.lastDeleted THEN <<"getAll">>
                      ELSE <<"getLastDeletedAgain", "getNewer">>
             S == {"getAll", "getLastDeletedAgain", "getNewer"}
  <1>1. s \in Session /\ s.todo \in Seq(Statement) /\ InPlace(s)
        /\ s.todo[1] = "getLastDeleted"
        /\ 1 \in DOMAIN s.todo /\ s.todo # <<>> /\ s.cmd \in Command
        /\ s.cmd.op = "getNew" /\ s.cmd.acquired # NoVersion
    BY HeadOf, WhoseStatement DEF Runs, Session
  <1>2. Len(s.todo) = 2
    BY <1>1 DEF InPlace
  <1>3. \A i \in DOMAIN s.todo : s.todo[i] # "getMap"
    BY <1>1 DEF Session, StatementsOf
  <1>4. Left(s) = 4
    <2>1. PICK a \in {0, 8}, b \in {0, 2}, c \in {0, 1} :
             /\ Left(s) = Len(s.todo) + a + b + c
             /\ a = 8 <=> s.todo[1] = "get"
             /\ b = 2 <=> s.todo[1] = "getLastDeleted"
             /\ c = 1 <=> s.todo[Len(s.todo)] = "getMap"
      BY <1>1, LeftIs
    <2>2. Len(s.todo) \in DOMAIN s.todo
      BY <1>1, NotEmpty
    <2>3. a = 0 /\ b = 2 /\ c = 0
      BY <1>1, <1>3, <2>1, <2>2
    <2>. QED  BY <1>2, <2>1, <2>3
  <1>5. more \in Seq(S) /\ Len(more) \in 0 .. 2
    <2>1. <<"getAll">> \in Seq(S) /\ Len(<<"getAll">>) = 1
      BY OneIn
    <2>2. <<"getLastDeletedAgain", "getNewer">> \in Seq(S)
          /\ Len(<<"getLastDeletedAgain", "getNewer">>) = 2
      BY TwoIn
    <2>. HIDE DEF S
    <2>. QED  BY <2>1, <2>2
  <1>6. GetLastDeleted(d, s) = GoOn(d, s, more)
    BY DEF GetLastDeleted
  <1>7. S \subseteq StatementsOf(s.cmd) /\ {"get", "getLastDeleted", "getMap"} \intersect S = {}
        /\ "checkFrame" \notin S
    BY <1>1 DEF StatementsOf
  <1>. HIDE DEF more, S
  <1>8. 2 \in 1 .. 8 /\ 2 \in Nat /\ 2 + 2 =< 9 /\ Left(s) >= 2 + 2
    BY <1>4
  <1>. QED  BY <1>2, <1>3, <1>5, <1>6, <1>7, <1>8, MoreCloser

\* Every statement leaves contents and a session nearer to its end.
LEMMA ExecCloser ==
    ASSUME NEW d \in Db, NEW s, Runs(s)
    PROVE  Closer(Exec(d, s), s)
  <1>1. Head(s.todo) \in Statement
    BY HeadOf
  <1>2. \A sent \in SUBSET Exhibit : /\ Closer(Collect(d, s, TRUE, sent), s)
                                     /\ Closer(Collect(d, s, FALSE, sent), s)
    BY CollectCloser
  <1>3. Closer(GetAll(d, s), s) /\ Closer(GetNewer(d, s), s)
    BY <1>2 DEF GetAll, GetNewer, Live
  <1>4. /\ Closer(CheckName(d, s), s)
        /\ Closer(CheckID(d, s), s)
        /\ Closer(CheckFrame(d, s), s)
    BY RequireCloser DEF CheckName, CheckID, CheckFrame
  <1>5. /\ Closer(GetLastVersion(d, s), s)
        /\ Closer(SetLastVersion(d, s), s)
        /\ Closer(WriteFrame(d, s), s)
        /\ Closer(MarkDeleted(d, s), s)
        /\ Closer(SetLastDeleted(d, s), s)
        /\ Closer(ResetFrames(d, s), s)
        /\ Closer(RemoveMap(d, s), s)
        /\ Closer(GetVersion(d, s), s)
        /\ Closer(Go(d, s), s)
    BY GetLastVersionCloser, SetLastVersionCloser, WriteFrameCloser, MarkDeletedCloser,
       SetLastDeletedCloser, ResetFramesCloser, RemoveMapCloser, GetVersionCloser, GoCloser
  <1>6. /\ Head(s.todo) = "insert" => Closer(Insert(d, s), s)
        /\ Head(s.todo) = "setRgb" => Closer(SetRgb(d, s), s)
        /\ Head(s.todo) = "insertMap" => Closer(InsertMap(d, s), s)
        /\ Head(s.todo) = "get" => Closer(Get(d, s), s)
        /\ Head(s.todo) = "getMap" => Closer(GetMap(d, s), s)
        /\ Head(s.todo) = "getLastDeleted" => Closer(GetLastDeleted(d, s), s)
    BY InsertCloser, SetRgbCloser, InsertMapCloser, GetCloser, GetMapCloser,
       GetLastDeletedCloser
  <1>7. PICK r : Closer(r, s) /\ Exec(d, s) = Settle(r)
    BY <1>1, <1>3, <1>4, <1>5, <1>6 DEF Exec, Statement
  <1>. QED  BY <1>7, SettleCloser

-----------------------------------------------------------------------------
(* Running to the end *)

\* q is r some statements on: k of them, or all there were.
Further(r, q, k) ==
    /\ q \in Outcome
    /\ Left(q.session) + k =< Left(r.session) \/ Left(q.session) = 0
    /\ Left(r.session) = 0 => q = r

LEMMA FurtherStill ==
    ASSUME NEW r \in Outcome, NEW q, NEW p, NEW j \in Nat, NEW k \in Nat,
           Further(r, q, j), Further(q, p, k)
    PROVE  Further(r, p, j + k)
  <1>. DEFINE lr == Left(r.session)
             lq == Left(q.session)
             lp == Left(p.session)
  <1>1. lr \in Nat /\ lq \in Nat /\ lp \in Nat
    <2>1. r.session \in Session /\ q.session \in Session /\ p.session \in Session
      BY DEF Further, Outcome
    <2>. QED  BY <2>1, LeftBounded
  <1>2. /\ lq + j =< lr \/ lq = 0
        /\ lr = 0 => q = r
        /\ lp + k =< lq \/ lp = 0
        /\ lq = 0 => p = q
        /\ p \in Outcome
    BY DEF Further
  <1>3. q = r => lq = lr
    OBVIOUS
  <1>4. p = q => lp = lq
    OBVIOUS
  <1>. HIDE DEF lr, lq, lp
  <1>5. lp + (j + k) =< lr \/ lp = 0
    BY <1>1, <1>2, <1>4
  <1>6. lr = 0 => p = r
    BY <1>2, <1>3
  <1>. QED  BY <1>2, <1>5, <1>6 DEF Further, lr, lp

LEMMA OnceFurther ==
    ASSUME NEW r \in Outcome
    PROVE  Further(r, Once(r), 1)
  <1>1. r.db \in Db /\ r.session \in Session
    BY DEF Outcome
  <1>2. Left(r.session) \in Nat /\ (Left(r.session) = 0 <=> r.session.todo = <<>>)
    BY <1>1, LeftBounded
  <1>3. CASE r.session.todo = <<>>
    BY <1>1, <1>2, <1>3, Finishing DEF Once, Further
  <1>4. CASE r.session.todo # <<>>
    <2>1. Once(r) = Exec(r.db, r.session)
      BY <1>1, <1>4, Finishing DEF Once
    <2>2. Closer(Exec(r.db, r.session), r.session)
      BY <1>1, <1>4, ExecCloser DEF Runs
    <2>3. Once(r) \in Outcome /\ Left(Once(r).session) < Left(r.session)
      BY <2>1, <2>2 DEF Closer
    <2>4. Left(Once(r).session) \in Nat
      BY <2>3, LeftBounded DEF Outcome
    <2>. QED  BY <1>2, <1>4, <2>3, <2>4 DEF Further
  <1>. QED  BY <1>3, <1>4

LEMMA ResultFurther ==
    ASSUME NEW r \in Outcome
    PROVE  Further(r, EightTimes(EightTimes(r)), 16)
  <1>1. \A x \in Outcome : Further(x, Once(x), 1) /\ Once(x) \in Outcome
    BY OnceFurther DEF Further
  <1>2. \A x \in Outcome : Further(x, Twice(x), 2) /\ Twice(x) \in Outcome
    <2>. SUFFICES ASSUME NEW x \in Outcome
                  PROVE  Further(x, Twice(x), 1 + 1)
      BY DEF Further
    <2>. QED  BY <1>1, FurtherStill DEF Twice
  <1>3. \A x \in Outcome : Further(x, FourTimes(x), 4) /\ FourTimes(x) \in Outcome
    <2>. SUFFICES ASSUME NEW x \in Outcome
                  PROVE  Further(x, FourTimes(x), 2 + 2)
      BY DEF Further
    <2>. QED  BY <1>2, FurtherStill DEF FourTimes
  <1>4. \A x \in Outcome : Further(x, EightTimes(x), 8) /\ EightTimes(x) \in Outcome
    <2>. SUFFICES ASSUME NEW x \in Outcome
                  PROVE  Further(x, EightTimes(x), 4 + 4)
      BY DEF Further
    <2>. QED  BY <1>3, FurtherStill DEF EightTimes
  <1>5. Further(r, EightTimes(EightTimes(r)), 8 + 8)
    BY <1>4, FurtherStill
  <1>. QED  BY <1>5

\* However far a command is, its end is the same.
LEMMA OnceCommutes ==
    ASSUME NEW r
    PROVE  EightTimes(EightTimes(Once(r))) = Once(EightTimes(EightTimes(r)))
  <1>1. \A x : Twice(Once(x)) = Once(Twice(x))
    BY DEF Twice
  <1>2. \A x : FourTimes(Once(x)) = Once(FourTimes(x))
    BY <1>1 DEF FourTimes
  <1>3. \A x : EightTimes(Once(x)) = Once(EightTimes(x))
    BY <1>2 DEF EightTimes
  <1>. QED  BY <1>3

LEMMA ResultEnds ==
    ASSUME NEW d \in Db, NEW s \in Session
    PROVE  /\ Result(d, s) \in Outcome
           /\ Result(d, s).session.todo = <<>>
           /\ s.todo = <<>> => Result(d, s) = [db |-> d, session |-> s]
  <1>. DEFINE r == [db |-> d, session |-> s]
             q == EightTimes(EightTimes(r))
  <1>1. r \in Outcome /\ r.session = s /\ r.db = d
    BY DEF Outcome
  <1>. HIDE DEF r
  <1>2. Further(r, q, 16)
    BY <1>1, ResultFurther
  <1>. HIDE DEF q
  <1>3. q \in Outcome /\ q.session \in Session
    BY <1>2 DEF Further, Outcome
  <1>4. Left(q.session) \in 0 .. 16 /\ Left(r.session) \in 0 .. 16
    BY <1>1, <1>3, LeftBounded
  <1>5. Left(q.session) = 0
    BY <1>2, <1>4 DEF Further
  <1>6. q.session.todo = <<>>
    BY <1>3, <1>5, LeftBounded
  <1>7. s.todo = <<>> => q = r
    BY <1>1, <1>2, LeftBounded DEF Further
  <1>8. Result(d, s) = q
    BY DEF Result, q, r
  <1>. QED  BY <1>3, <1>6, <1>7, <1>8 DEF r

LEMMA ResultSame ==
    ASSUME NEW d \in Db, NEW s \in Session, s.todo # <<>>
    PROVE  Result(d, s) = Result(Exec(d, s).db, Exec(d, s).session)
  <1>. DEFINE r == [db |-> d, session |-> s]
             q == EightTimes(EightTimes(r))
             n == Exec(d, s)
  <1>1. n \in Outcome
    BY ExecCloser DEF Runs, Closer
  <1>2. Once(r) = n
    BY Finishing DEF Once
  <1>3. [db |-> n.db, session |-> n.session] = n
    BY <1>1 DEF Outcome
  <1>4. Result(n.db, n.session) = Once(q)
    <2>1. Result(n.db, n.session) = EightTimes(EightTimes(n))
      BY <1>3 DEF Result
    <2>. HIDE DEF n, r
    <2>. QED  BY <1>2, <2>1, OnceCommutes
  <1>5. q = Result(d, s)
    BY DEF Result
  <1>6. q \in Outcome /\ q.session.todo = <<>> /\ q.session \in Session
    BY <1>5, ResultEnds DEF Outcome
  <1>. HIDE DEF q
  <1>7. Once(q) = q
    BY <1>6, Finishing DEF Once
  <1>. QED  BY <1>4, <1>5, <1>7

-----------------------------------------------------------------------------
(* What Database::execute asks of its commands *)

LEMMA EmptyDbTyped == EmptyDb \in Db
  <1>1. (CHOOSE c \in Colour : TRUE) \in Colour
    BY CommandsAssumption
  <1>2. 0 \in 0 .. MaxVersion
    BY CommandsAssumption
  <1>. QED  BY <1>1, <1>2 DEF EmptyDb, Db, MaybeFrame

\* A session that is beginning.
LEMMA BegunTyped ==
    ASSUME NEW c \in Command, NEW f \in MaybeFrame, NEW S \in SUBSET StatementsOf(c),
           "checkFrame" \in S => f # NoFrame, NEW t \in Seq(S), Len(t) =< 8,
           \A i \in DOMAIN t : /\ t[i] = "get" => Len(t) = 1
                               /\ t[i] = "getLastDeleted" => i = 1 /\ Len(t) = 2
                               /\ t[i] = "getMap" => i = Len(t)
    PROVE  [cmd |-> c, todo |-> t, threw |-> FALSE, read |-> 0, answer |-> NoAnswer,
            frame |-> f] \in Session
  <1>. DEFINE n == [cmd |-> c, todo |-> t, threw |-> FALSE, read |-> 0, answer |-> NoAnswer,
                    frame |-> f]
  <1>1. NoAnswer \in Answers /\ 0 \in 0 .. MaxVersion
    BY FailedTyped, CommandsAssumption DEF Failed, Session
  <1>2. S \subseteq Statement
    BY WhoseStatement
  <1>3. t \in Seq(Statement)
    BY <1>2
  <1>4. \A i \in DOMAIN t : t[i] \in S
    OBVIOUS
  <1>5. \A i \in DOMAIN t : /\ t[i] \in StatementsOf(c)
                            /\ t[i] = "checkFrame" => f # NoFrame
    BY <1>4
  <1>6. n \in [cmd : Command \union {NoCommand}, todo : Seq(Statement), threw : BOOLEAN,
               read : 0 .. MaxVersion, answer : Answers, frame : MaybeFrame]
    BY <1>1, <1>3
  <1>7. n.cmd = c /\ n.todo = t /\ n.threw = FALSE /\ n.frame = f
    OBVIOUS
  <1>. HIDE DEF n
  <1>8. InPlace(n)
    BY <1>7 DEF InPlace
  <1>9. n \in Session
    BY <1>5, <1>6, <1>7, <1>8 DEF Session
  <1>. QED  BY <1>9 DEF n

LEMMA StartIs ==
    ASSUME NEW c, c.op # "create", c.op # "update"
    PROVE  Start(c) = [cmd |-> c, todo |-> Begin(c), threw |-> FALSE, read |-> 0,
                       answer |-> NoAnswer, frame |-> NoFrame]
  BY DEF Start

LEMMA IncrementIs ==
    ASSUME NEW S, {"getLastVersion", "setLastVersion"} \subseteq S
    PROVE  IncrementVersion \in Seq(S) /\ Len(IncrementVersion) = 2
  BY TwoIn DEF IncrementVersion

LEMMA StartCreate ==
    ASSUME NEW c \in Command, c.op = "create"
    PROVE  Start(c) \in Session
  <1>. DEFINE S == {st \in StatementsOf(c) : st = "checkFrame" => c.frame # NoFrame}
             b == IF c.frame = NoFrame THEN <<>> ELSE <<"checkFrame">>
             ab == <<"checkName">> \o b
             abc == ab \o IncrementVersion
             t == abc \o <<"insert">>
  <1>1. StatementsOf(c) = {"checkName", "checkFrame", "getLastVersion", "setLastVersion",
                           "insert"}
    BY DEF StatementsOf
  <1>2. /\ {"checkName", "getLastVersion", "setLastVersion", "insert"} \subseteq S
        /\ c.frame # NoFrame => "checkFrame" \in S
        /\ "checkFrame" \in S => c.frame # NoFrame
        /\ {"get", "getLastDeleted", "getMap"} \intersect S = {}
        /\ S \in SUBSET StatementsOf(c)
    BY <1>1
  <1>. HIDE DEF S
  <1>3. b \in Seq(S) /\ Len(b) \in {0, 1}
    <2>1. CASE c.frame = NoFrame
      BY <2>1, NoneIn
    <2>2. CASE c.frame # NoFrame
      BY <1>2, <2>2, OneIn
    <2>. QED  BY <2>1, <2>2
  <1>. HIDE DEF b
  <1>4. ab \in Seq(S) /\ Len(ab) = 1 + Len(b)
    BY <1>2, <1>3, OneIn, ConcatProperties
  <1>. HIDE DEF ab
  <1>5. abc \in Seq(S) /\ Len(abc) = Len(ab) + 2
    <2>1. IncrementVersion \in Seq(S) /\ Len(IncrementVersion) = 2
      BY <1>2, IncrementIs
    <2>2. abc \in Seq(S) /\ Len(abc) = Len(ab) + Len(IncrementVersion)
      BY <1>4, <2>1, ConcatProperties
    <2>. QED  BY <2>1, <2>2
  <1>. HIDE DEF abc
  <1>6. t \in Seq(S) /\ Len(t) = Len(abc) + 1
    <2>1. <<"insert">> \in Seq(S) /\ Len(<<"insert">>) = 1
      BY <1>2, OneIn
    <2>. QED  BY <1>5, <2>1, ConcatProperties
  <1>7. Begin(c) = t
    BY DEF Begin, t, abc, ab, b
  <1>. HIDE DEF t
  <1>8. Len(t) =< 8
    <2>. DEFINE lb == Len(b)
               lab == Len(ab)
               labc == Len(abc)
               l == Len(t)
    <2>1. lb \in {0, 1} /\ lab = 1 + lb /\ labc = lab + 2 /\ l = labc + 1
      BY <1>3, <1>4, <1>5, <1>6
    <2>. HIDE DEF lb, lab, labc, l
    <2>2. l =< 8
      BY <2>1
    <2>. QED  BY <2>2 DEF l
  <1>9. \A i \in DOMAIN t : t[i] \notin {"get", "getLastDeleted", "getMap"}
    <2>1. \A i \in DOMAIN t : t[i] \in S
      BY <1>6
    <2>. QED  BY <1>2, <2>1
  <1>10. c.frame \in MaybeFrame
    BY Arguments
  <1>11. Start(c) = [cmd |-> c, todo |-> t, threw |-> FALSE, read |-> 0,
                     answer |-> NoAnswer, frame |-> c.frame]
    BY <1>7 DEF Start
  <1>. QED  BY <1>2, <1>6, <1>8, <1>9, <1>10, <1>11, BegunTyped

LEMMA StartRemove ==
    ASSUME NEW c \in Command, c.op = "remove"
    PROVE  Start(c) \in Session
  <1>. DEFINE S == StatementsOf(c)
             a == <<"checkID", "markDeleted">>
             ab == a \o IncrementVersion
             t == ab \o <<"setLastDeleted">>
  <1>1. S = {"checkID", "markDeleted", "getLastVersion", "setLastVersion", "setLastDeleted"}
    BY DEF StatementsOf
  <1>. HIDE DEF S
  <1>2. a \in Seq(S) /\ Len(a) = 2
    BY <1>1, TwoIn
  <1>. HIDE DEF a
  <1>3. ab \in Seq(S) /\ Len(ab) = 4
    <2>1. IncrementVersion \in Seq(S) /\ Len(IncrementVersion) = 2
      BY <1>1, IncrementIs
    <2>2. ab \in Seq(S) /\ Len(ab) = Len(a) + Len(IncrementVersion)
      BY <1>2, <2>1, ConcatProperties
    <2>. QED  BY <1>2, <2>1, <2>2
  <1>. HIDE DEF ab
  <1>4. t \in Seq(S) /\ Len(t) = 5
    <2>1. <<"setLastDeleted">> \in Seq(S) /\ Len(<<"setLastDeleted">>) = 1
      BY <1>1, OneIn
    <2>2. t \in Seq(S) /\ Len(t) = Len(ab) + Len(<<"setLastDeleted">>)
      BY <1>3, <2>1, ConcatProperties
    <2>. QED  BY <1>3, <2>1, <2>2
  <1>5. Begin(c) = t
    BY DEF Begin, t, ab, a
  <1>. HIDE DEF t
  <1>6. \A i \in DOMAIN t : t[i] \notin {"get", "getLastDeleted", "getMap"}
    <2>1. \A i \in DOMAIN t : t[i] \in S
      BY <1>4
    <2>. QED  BY <1>1, <2>1
  <1>7. NoFrame \in MaybeFrame /\ S \in SUBSET StatementsOf(c) /\ "checkFrame" \notin S
        /\ Len(t) =< 8
    BY <1>1, <1>4 DEF MaybeFrame, S
  <1>. QED  BY <1>4, <1>5, <1>6, <1>7, BegunTyped, StartIs

LEMMA StartRemoveOldData ==
    ASSUME NEW c \in Command, c.op = "removeOldData"
    PROVE  Start(c) \in Session
  <1>. DEFINE S == StatementsOf(c)
             b == <<"resetFrames", "getMap">>
             t == IncrementVersion \o b
  <1>1. S = {"getLastVersion", "setLastVersion", "resetFrames", "getMap", "removeMap"}
    BY DEF StatementsOf
  <1>. HIDE DEF S
  <1>2. /\ IncrementVersion \in Seq(S) /\ Len(IncrementVersion) = 2
        /\ IncrementVersion[1] = "getLastVersion" /\ IncrementVersion[2] = "setLastVersion"
    BY <1>1, IncrementIs DEF IncrementVersion
  <1>3. b \in Seq(S) /\ Len(b) = 2 /\ b[1] = "resetFrames" /\ b[2] = "getMap"
    BY <1>1, TwoIn
  <1>4. Begin(c) = t
    BY DEF Begin
  <1>. HIDE DEF b
  <1>5. t \in Seq(S) /\ Len(t) = 4 /\ DOMAIN t = 1 .. 4
    <2>1. t \in Seq(S) /\ Len(t) = Len(IncrementVersion) + Len(b)
      BY <1>2, <1>3, ConcatProperties
    <2>2. Len(t) = 4
      BY <1>2, <1>3, <2>1
    <2>. QED  BY <2>1, <2>2
  <1>6. t[1] = "getLastVersion" /\ t[2] = "setLastVersion" /\ t[3] = "resetFrames"
    <2>1. \A i \in 1 .. Len(IncrementVersion) + Len(b) :
             t[i] = IF i =< Len(IncrementVersion) THEN IncrementVersion[i]
                    ELSE b[i - Len(IncrementVersion)]
      BY <1>2, <1>3, ConcatProperties
    <2>2. \A i \in 1 .. 4 : t[i] = IF i =< 2 THEN IncrementVersion[i] ELSE b[i - 2]
      BY <1>2, <1>3, <2>1
    <2>3. 1 \in 1 .. 4 /\ 2 \in 1 .. 4 /\ 3 \in 1 .. 4
      OBVIOUS
    <2>. HIDE DEF t
    <2>4. t[1] = IncrementVersion[1] /\ t[2] = IncrementVersion[2] /\ t[3] = b[1]
      BY <2>2, <2>3
    <2>. QED  BY <1>2, <1>3, <2>4
  <1>. HIDE DEF t
  <1>7. \A i \in DOMAIN t : /\ t[i] \notin {"get", "getLastDeleted"}
                            /\ t[i] = "getMap" => i = Len(t)
    <2>1. \A i \in DOMAIN t : t[i] \in S
      <3>1. \A q \in Seq(S) : \A i \in DOMAIN q : q[i] \in S
        OBVIOUS
      <3>. QED  BY <1>5, <3>1
    <2>2. \A i \in 1 .. 4 : i \in {1, 2, 3, 4}
      OBVIOUS
    <2>3. \A i \in DOMAIN t : i \in {1, 2, 3, 4}
      BY <1>5, <2>2
    <2>. QED  BY <1>1, <1>5, <1>6, <2>1, <2>3
  <1>8. NoFrame \in MaybeFrame /\ S \in SUBSET StatementsOf(c) /\ "checkFrame" \notin S
        /\ Len(t) =< 8
    BY <1>1, <1>5 DEF MaybeFrame, S
  <1>. QED  BY <1>4, <1>5, <1>7, <1>8, BegunTyped, StartIs

\* The commands whose first statements are one or two.
LEMMA StartShort ==
    ASSUME NEW c \in Command, NEW f \in MaybeFrame, NEW t,
           Start(c) = [cmd |-> c, todo |-> t, threw |-> FALSE, read |-> 0,
                       answer |-> NoAnswer, frame |-> f],
           \/ \E x \in StatementsOf(c) \ {"checkFrame", "getLastDeleted"} : t = <<x>>
           \/ \E x \in StatementsOf(c) \ {"checkFrame", "get", "getMap"},
                 y \in StatementsOf(c) \ {"checkFrame", "get", "getLastDeleted"} : t = <<x, y>>
    PROVE  Start(c) \in Session
  <1>. DEFINE S == StatementsOf(c) \ {"checkFrame"}
  <1>1. /\ t \in Seq(S)
        /\ Len(t) =< 8
        /\ \A i \in DOMAIN t : /\ t[i] = "get" => Len(t) = 1
                               /\ t[i] = "getLastDeleted" => i = 1 /\ Len(t) = 2
                               /\ t[i] = "getMap" => i = Len(t)
    <2>1. CASE \E x \in StatementsOf(c) \ {"checkFrame", "getLastDeleted"} : t = <<x>>
      BY <2>1
    <2>2. CASE \E x \in StatementsOf(c) \ {"checkFrame", "get", "getMap"},
                  y \in StatementsOf(c) \ {"checkFrame", "get", "getLastDeleted"} :
                     t = <<x, y>>
      BY <2>2
    <2>. QED  BY <2>1, <2>2
  <1>. QED  BY <1>1, BegunTyped

LEMMA StartTyped ==
    ASSUME NEW c \in Command
    PROVE  Start(c) \in Session
  <1>1. c.op \in {"create", "update", "setFrame", "remove", "getNew", "removeOldData", "saveMap"}
    BY DEF Command, ExhibitCommand, RemoveData, SaveMap
  <1>2. NoFrame \in MaybeFrame
    BY DEF MaybeFrame
  <1>3. CASE c.op \in {"update", "setFrame"}
    <2>1. Begin(c) = <<"get">> /\ "get" \in StatementsOf(c)
      BY <1>3 DEF Begin, StatementsOf
    <2>2. \E f \in MaybeFrame :
             Start(c) = [cmd |-> c, todo |-> <<"get">>, threw |-> FALSE, read |-> 0,
                         answer |-> NoAnswer, frame |-> f]
      BY <1>2, <1>3, <2>1, Arguments DEF Start
    <2>. QED  BY <2>1, <2>2, StartShort
  <1>4. CASE c.op = "getNew"
    <2>. DEFINE x == IF c.acquired = NoVersion THEN "getAll" ELSE "getLastDeleted"
    <2>1. Begin(c) = <<x, "getVersion">>
      BY <1>4 DEF Begin
    <2>2. /\ x \in StatementsOf(c) \ {"checkFrame", "get", "getMap"}
          /\ "getVersion" \in StatementsOf(c) \ {"checkFrame", "get", "getLastDeleted"}
      BY <1>4 DEF StatementsOf
    <2>3. Start(c) = [cmd |-> c, todo |-> <<x, "getVersion">>, threw |-> FALSE, read |-> 0,
                      answer |-> NoAnswer, frame |-> NoFrame]
      BY <1>4, <2>1, StartIs
    <2>. HIDE DEF x
    <2>. QED  BY <1>2, <2>2, <2>3, StartShort
  <1>5. CASE c.op = "saveMap"
    <2>1. Begin(c) = <<"removeMap", "insertMap">>
      BY <1>5 DEF Begin
    <2>2. /\ "removeMap" \in StatementsOf(c) \ {"checkFrame", "get", "getMap"}
          /\ "insertMap" \in StatementsOf(c) \ {"checkFrame", "get", "getLastDeleted"}
      BY <1>5 DEF StatementsOf
    <2>3. Start(c) = [cmd |-> c, todo |-> <<"removeMap", "insertMap">>, threw |-> FALSE,
                      read |-> 0, answer |-> NoAnswer, frame |-> NoFrame]
      BY <1>5, <2>1, StartIs
    <2>. QED  BY <1>2, <2>2, <2>3, StartShort
  <1>. QED  BY <1>1, <1>3, <1>4, <1>5, StartCreate, StartRemove, StartRemoveOldData

LEMMA CommandsKeepToIt ==
    /\ {EmptyDb} \subseteq Db
    /\ NoCommand \notin Command
    /\ NoSession \notin Session
    /\ \A c \in Command : Start(c) \in Session
    /\ Failed \in Session
    /\ Threw(Failed)
    /\ \A s \in Session : ~(Returned(s) /\ Threw(s))
    /\ \A d \in Db, s \in Session :
          /\ Result(d, s) \in [db : Db, session : {f \in Session : P!Finished(f)}]
          /\ IF P!Finished(s)
             THEN Result(d, s) = [db |-> d, session |-> s]
             ELSE /\ Exec(d, s) \in [db : Db, session : Session]
                  /\ Result(d, s) = Result(Exec(d, s).db, Exec(d, s).session)
  <1>1. \A s \in Session : ~(Returned(s) /\ Threw(s)) /\ (P!Finished(s) <=> s.todo = <<>>)
    <2>1. \A s \in Session : ~(Returned(s) /\ Threw(s))
      BY DEF Returned, Threw
    <2>. QED  BY <2>1, Finishing DEF P!Finished
  <1>2. ASSUME NEW d \in Db, NEW s \in Session
        PROVE  /\ Result(d, s) \in [db : Db, session : {f \in Session : P!Finished(f)}]
               /\ s.todo = <<>> => Result(d, s) = [db |-> d, session |-> s]
               /\ s.todo # <<>> => /\ Exec(d, s) \in [db : Db, session : Session]
                                   /\ Result(d, s) = Result(Exec(d, s).db, Exec(d, s).session)
    <2>1. Result(d, s) \in [db : Db, session : {f \in Session : P!Finished(f)}]
      BY <1>1, ResultEnds DEF Outcome
    <2>2. s.todo # <<>> => Exec(d, s) \in [db : Db, session : Session]
      BY ExecCloser DEF Runs, Closer, Outcome
    <2>. QED  BY <2>1, <2>2, ResultEnds, ResultSame
  <1>3. {EmptyDb} \subseteq Db /\ \A c \in Command : Start(c) \in Session
    BY EmptyDbTyped, StartTyped
  <1>. QED  BY <1>1, <1>2, <1>3, FailedTyped, CommandsAssumption

-----------------------------------------------------------------------------
(* The map commands and MapCommands::inProgress *)

MapChange == [worker : Worker, floor : Floor, next : {"clear", "set", "render"}]

OfMaps(c) == c.op \in {"removeOldData", "saveMap"}

\* Who has the flag, and what of: it is the worker that has set it whose map
\* transactions are under way, of the floor it was set for, and no other's.
FlagHeld ==
    /\ change \in MapChange \union {NoChange}
    /\ \A w \in Worker : cmd[w] # NoCommand /\ OfMaps(cmd[w]) => Changing(w)
    /\ change # NoChange =>
          /\ change.next = "render" => pc[change.worker] = "idle"
          /\ change.next = "set" => /\ pc[change.worker] # "idle"
                                    /\ cmd[change.worker] = RemoveData(change.floor)
          /\ change.next = "clear" => /\ pc[change.worker] # "idle"
                                      /\ \/ cmd[change.worker] = RemoveData(change.floor)
                                         \/ \E n \in Extent :
                                               cmd[change.worker] = SaveMap(change.floor, n)

LEMMA InitTx == Init => P!TxInit
  BY DEF Init, Tx!TxInit, P!TxInit

LEMMA RequestTx ==
    ASSUME NEW w \in Worker, NEW c \in Command, Tx!Request(w, c)
    PROVE  P!TxNext
  <1>1. P!Request(w, c)
    BY DEF Tx!Request, P!Request, Tx!Goto, P!Goto
  <1>. QED  BY <1>1 DEF P!TxNext

LEMMA LockedTx ==
    ASSUME NEW w \in Worker, Tx!Locked(w)
    PROVE  P!TxNext
  <1>1. CASE Tx!Statement(w)
    BY <1>1 DEF Tx!Statement, P!Statement, Tx!Finished, P!Finished, P!Locked, P!TxNext
  <1>2. CASE Tx!FailStatement(w)
    BY <1>2 DEF Tx!FailStatement, P!FailStatement, Tx!Finished, P!Finished, Tx!Goto, P!Goto,
                P!Locked, P!TxNext
  <1>3. CASE Tx!Commit(w)
    BY <1>3 DEF Tx!Commit, P!Commit, Tx!Goto, P!Goto, P!Locked, P!TxNext
  <1>4. CASE Tx!Cancel(w)
    BY <1>4 DEF Tx!Cancel, P!Cancel, Tx!Goto, P!Goto, P!Locked, P!TxNext
  <1>5. CASE Tx!Unlock(w)
    BY <1>5 DEF Tx!Unlock, P!Unlock, Tx!Goto, P!Goto, P!Locked, P!TxNext
  <1>. QED  BY <1>1, <1>2, <1>3, <1>4, <1>5 DEF Tx!Locked

LEMMA WorkerStepTx ==
    ASSUME NEW w \in Worker, WorkerStep(w)
    PROVE  P!TxNext
  <1>1. CASE Tx!Lock(w)
    BY <1>1 DEF Tx!Lock, P!Lock, Tx!Goto, P!Goto, P!TxNext
  <1>2. CASE Tx!Locked(w)
    BY <1>2, LockedTx
  <1>3. CASE Answered(w)
    BY <1>3 DEF Answered, Tx!Answer, P!Answer, Tx!Goto, P!Goto, P!TxNext
  <1>. QED  BY <1>1, <1>2, <1>3 DEF WorkerStep

\* The workers' steps are steps of Database::execute, or none.
LEMMA NextTx == FlagHeld /\ [Next]_vars => [P!TxNext]_(P!txVars)
  <1>. SUFFICES ASSUME FlagHeld, [Next]_vars
                PROVE  [P!TxNext]_(P!txVars)
    OBVIOUS
  <1>1. ASSUME NEW w \in Worker, ExhibitRequest(w)
        PROVE  P!TxNext
    <2>1. ExhibitCommand \subseteq Command
      BY DEF Command
    <2>. QED  BY <1>1, <2>1, RequestTx DEF ExhibitRequest
  <1>2. ASSUME NEW w \in Worker, NEW f \in Floor, NEW next \in {"clear", "set"},
               MapRequest(w, f, next)
        PROVE  P!TxNext
    <2>1. RemoveData(f) \in Command
      BY DEF Command
    <2>. QED  BY <1>2, <2>1, RequestTx DEF MapRequest
  <1>3. ASSUME NEW w \in Worker, NEW n \in Extent, MapRendered(w, n)
        PROVE  P!TxNext
    <2>1. change.floor \in Floor
      BY <1>3 DEF FlagHeld, MapRendered, Changing, MapChange
    <2>2. SaveMap(change.floor, n) \in Command
      BY <2>1 DEF Command
    <2>. QED  BY <1>3, <2>2, RequestTx DEF MapRendered
  <1>4. ASSUME NEW w \in Worker, RenderFails(w)
        PROVE  UNCHANGED P!txVars
    BY <1>4 DEF RenderFails, P!txVars
  <1>5. CASE Ends
    BY <1>5 DEF Ends, Tx!Crash, P!Crash, P!TxNext
  <1>6. CASE UNCHANGED vars
    BY <1>6 DEF vars, P!txVars
  <1>. QED  BY <1>1, <1>2, <1>3, <1>4, <1>5, <1>6, WorkerStepTx DEF Next

\* A worker goes on; what it is asked stays, and it stays busy.
LEMMA FlagWhileBusy ==
    ASSUME FlagHeld, P!TxTypeOK, NEW w \in Worker, pc[w] # "idle",
           NEW step \in {"run", "unlock", "answer"},
           pc' = [pc EXCEPT ![w] = step] \/ UNCHANGED pc, UNCHANGED <<cmd, change>>
    PROVE  FlagHeld'
  <1>1. \A v \in Worker : pc'[v] = "idle" <=> pc[v] = "idle"
    BY DEF P!TxTypeOK
  <1>2. change # NoChange => change.worker \in Worker
    BY DEF FlagHeld, MapChange
  <1>. QED  BY <1>1, <1>2 DEF FlagHeld, Changing

LEMMA InitFlag == Init => FlagHeld
  BY DEF Init, Tx!TxInit, FlagHeld, Changing

LEMMA NextFlag ==
    ASSUME FlagHeld, P!TxTypeOK, [Next]_vars
    PROVE  FlagHeld'
  <1>1. change # NoChange => change \in MapChange /\ change.worker \in Worker
                             /\ change.floor \in Floor
    BY DEF FlagHeld, MapChange
  <1>2. \A w \in Worker : cmd[w] = NoCommand <=> pc[w] = "idle"
    BY DEF P!TxTypeOK
  <1>3. ASSUME NEW w \in Worker, ExhibitRequest(w)
        PROVE  FlagHeld'
    <2>1. PICK c \in ExhibitCommand : Tx!Request(w, c)
      BY <1>3 DEF ExhibitRequest
    <2>2. cmd' = [cmd EXCEPT ![w] = c] /\ pc' = [pc EXCEPT ![w] = "lock"] /\ change' = change
          /\ ~Changing(w)
      BY <1>3, <2>1 DEF ExhibitRequest, Tx!Request, Tx!Goto
    <2>3. ~OfMaps(c)
      BY DEF ExhibitCommand, OfMaps
    <2>. QED  BY <1>1, <2>2, <2>3 DEF FlagHeld, Changing, P!TxTypeOK
  <1>4. ASSUME NEW w \in Worker, NEW f \in Floor, NEW next \in {"clear", "set"},
               MapRequest(w, f, next)
        PROVE  FlagHeld'
    <2>1. /\ cmd' = [cmd EXCEPT ![w] = RemoveData(f)] /\ pc' = [pc EXCEPT ![w] = "lock"]
          /\ change = NoChange /\ change' = [worker |-> w, floor |-> f, next |-> next]
      BY <1>4 DEF MapRequest, Tx!Request, Tx!Goto
    <2>2. change' \in MapChange /\ change'.worker = w /\ change'.floor = f /\ change'.next = next
      BY <2>1 DEF MapChange
    <2>3. change' # NoChange
      BY <2>2, CommandsAssumption DEF MapChange
    <2>4. cmd'[w] = RemoveData(f) /\ pc'[w] = "lock" /\ \A v \in Worker \ {w} : cmd'[v] = cmd[v]
      BY <2>1 DEF P!TxTypeOK
    <2>. QED  BY <2>1, <2>2, <2>3, <2>4 DEF FlagHeld, Changing
  <1>5. ASSUME NEW w \in Worker, NEW n \in Extent, MapRendered(w, n)
        PROVE  FlagHeld'
    <2>1. /\ cmd' = [cmd EXCEPT ![w] = SaveMap(change.floor, n)]
          /\ pc' = [pc EXCEPT ![w] = "lock"]
          /\ Changing(w) /\ change' = [change EXCEPT !.next = "clear"]
      BY <1>5 DEF MapRendered, Tx!Request, Tx!Goto
    <2>2. change' \in MapChange /\ change'.worker = w /\ change'.floor = change.floor
          /\ change'.next = "clear"
      BY <1>1, <2>1 DEF MapChange, Changing
    <2>3. change' # NoChange
      BY <2>2, CommandsAssumption DEF MapChange
    <2>4. cmd'[w] = SaveMap(change'.floor, n) /\ pc'[w] = "lock"
          /\ \A v \in Worker \ {w} : cmd'[v] = cmd[v]
      BY <2>1, <2>2 DEF P!TxTypeOK
    <2>. QED  BY <2>1, <2>2, <2>3, <2>4 DEF FlagHeld, Changing
  <1>6. ASSUME NEW w \in Worker, RenderFails(w)
        PROVE  FlagHeld'
    <2>1. Changing(w) /\ pc[w] = "idle" /\ change' = NoChange /\ cmd' = cmd /\ pc' = pc
      BY <1>6 DEF RenderFails
    <2>2. \A v \in Worker : ~(cmd[v] # NoCommand /\ OfMaps(cmd[v]))
      BY <1>2, <2>1 DEF FlagHeld, Changing
    <2>. QED  BY <2>1, <2>2 DEF FlagHeld
  <1>7. ASSUME NEW w \in Worker, WorkerStep(w)
        PROVE  FlagHeld'
    <2>1. CASE Tx!Lock(w) /\ UNCHANGED change
      BY <2>1, FlagWhileBusy DEF Tx!Lock, Tx!Goto
    <2>2. CASE Tx!Locked(w) /\ UNCHANGED change
      BY <2>2, FlagWhileBusy DEF Tx!Locked, Tx!Statement, Tx!FailStatement, Tx!Commit,
                                 Tx!Cancel, Tx!Unlock, Tx!Goto
    <2>3. CASE Answered(w)
      <3>1. /\ cmd' = [cmd EXCEPT ![w] = NoCommand] /\ pc' = [pc EXCEPT ![w] = "idle"]
            /\ IF ~Changing(w) THEN UNCHANGED change
               ELSE IF change.next = "set" /\ Returned(session[w])
                    THEN change' = [change EXCEPT !.next = "render"]
                    ELSE change' = NoChange
        BY <2>3 DEF Answered, Tx!Answer, Tx!Goto
      <3>2. cmd'[w] = NoCommand /\ pc'[w] = "idle"
            /\ \A v \in Worker \ {w} : cmd'[v] = cmd[v] /\ pc'[v] = pc[v]
        BY <3>1 DEF P!TxTypeOK
      <3>3. CASE ~Changing(w)
        BY <1>1, <3>1, <3>2, <3>3 DEF FlagHeld, Changing
      <3>4. CASE Changing(w) /\ change' = [change EXCEPT !.next = "render"]
        <4>1. change' \in MapChange /\ change'.worker = w /\ change'.next = "render"
          BY <1>1, <3>4 DEF MapChange, Changing
        <4>2. change' # NoChange
          BY <4>1, CommandsAssumption DEF MapChange
        <4>. QED  BY <3>2, <3>4, <4>1, <4>2 DEF FlagHeld, Changing
      <3>5. CASE Changing(w) /\ change' = NoChange
        BY <3>2, <3>5 DEF FlagHeld, Changing
      <3>. QED  BY <3>1, <3>3, <3>4, <3>5
    <2>. QED  BY <1>7, <2>1, <2>2, <2>3 DEF WorkerStep
  <1>8. CASE Ends
    <2>1. change' = NoChange /\ \A w \in Worker : cmd'[w] = NoCommand
      BY <1>8 DEF Ends, Tx!Crash
    <2>. QED  BY <2>1 DEF FlagHeld
  <1>9. CASE UNCHANGED vars
    BY <1>9 DEF vars, FlagHeld, Changing
  <1>. QED  BY <1>3, <1>4, <1>5, <1>6, <1>7, <1>8, <1>9 DEF Next

\* The inductive invariant: that of Database::execute, and who has the flag.
CommandsInv == P!TxInv /\ FlagHeld

\* The commands as they are keep Database::execute's invariant and the map
\* commands their flag, however many workers, exhibits and maps there are.
THEOREM CommandsInvariance == Spec => []CommandsInv
  <1>1. Init => CommandsInv
    BY InitTx, InitFlag, CommandsKeepToIt, P!InvInit DEF CommandsInv
  <1>2. CommandsInv /\ [Next]_vars => CommandsInv'
    <2>. SUFFICES ASSUME CommandsInv, [Next]_vars
                  PROVE  CommandsInv'
      OBVIOUS
    <2>1. P!TxTypeOK
      BY DEF CommandsInv, P!TxInv
    <2>2. [P!TxNext]_(P!txVars)
      BY NextTx DEF CommandsInv
    <2>3. P!TxInv'
      BY <2>2, CommandsKeepToIt, P!InvStep DEF CommandsInv
    <2>4. FlagHeld'
      BY <2>1, NextFlag DEF CommandsInv
    <2>. QED  BY <2>3, <2>4 DEF CommandsInv
  <1>. QED  BY <1>1, <1>2, PTL DEF Spec

\* Of the exhibit and map commands no two are ever between lock and unlock,
\* and none leaves the mutex behind.
THEOREM CommandsExclusive == Spec => []Exclusive
  <1>1. CommandsInv => Exclusive
    BY DEF CommandsInv, P!TxInv, Exclusive, P!Exclusive, Tx!Exclusive, P!Inside, Tx!Inside
  <1>. QED  BY <1>1, CommandsInvariance, PTL

\* Every exhibit or map command happens at one point or not at all.
THEOREM CommandsAreAtomic == Spec => CommandsAtomic
  <1>1. Spec => P!TxSpec
    <2>1. CommandsInv /\ [Next]_vars => [P!TxNext]_(P!txVars)
      BY NextTx DEF CommandsInv
    <2>. QED  BY <2>1, InitTx, CommandsInvariance, PTL DEF Spec, P!TxSpec
  <1>2. P!TxSpec => P!CommandsAtomic
    BY CommandsKeepToIt, P!Refinement
  <1>3. P!Atomic!AtomicInit => Tx!Atomic!AtomicInit
    BY DEF P!Atomic!AtomicInit, Tx!Atomic!AtomicInit, P!Over, Tx!Over
  <1>4. [P!Atomic!AtomicNext]_(P!Atomic!atomicVars) => [Tx!Atomic!AtomicNext]_(Tx!Atomic!atomicVars)
    BY DEF P!Atomic!AtomicNext, Tx!Atomic!AtomicNext, P!Atomic!atomicVars, Tx!Atomic!atomicVars,
           P!Atomic!Ask, Tx!Atomic!Ask, P!Atomic!Perform, Tx!Atomic!Perform,
           P!Atomic!Waiting, Tx!Atomic!Waiting, P!Atomic!Fail, Tx!Atomic!Fail,
           P!Atomic!Answer, Tx!Atomic!Answer, P!Atomic!Restart, Tx!Atomic!Restart,
           P!Over, Tx!Over
  <1>. QED  BY <1>1, <1>2, <1>3, <1>4, PTL DEF CommandsAtomic, Tx!CommandsAtomic,
                  P!CommandsAtomic, Tx!Atomic!AtomicSpec, P!Atomic!AtomicSpec

-----------------------------------------------------------------------------
(* What a command that returns has done, statement by statement *)

\* A session, in full: the command, what is left, what is read, the frame to
\* write and the answer so far.
Sess(c, t, v, f, a) ==
    [cmd |-> c, todo |-> t, threw |-> FALSE, read |-> v, answer |-> a, frame |-> f]

\* From contents d and session s the command returns and leaves x.
Leaves(d, s, x) ==
    /\ d \in Db
    /\ s \in Session
    /\ Returned(Result(d, s).session)
    /\ Result(d, s).db = x

LEMMA LeavesDone ==
    ASSUME NEW d, NEW s, NEW x, Leaves(d, s, x), s.todo = <<>>
    PROVE  x = d
  BY ResultEnds DEF Leaves

\* If it returns, its next statement has not thrown, and is on the way there.
LEMMA LeavesNext ==
    ASSUME NEW d, NEW s, NEW x, Leaves(d, s, x), s.todo # <<>>,
           NEW q \in Outcome, Exec(d, s) = Settle(q)
    PROVE  Leaves(q.db, q.session, x) /\ q.session.threw = FALSE
  <1>. DEFINE e == Settle(q)
  <1>1. q.db \in Db /\ q.session \in Session
    BY DEF Outcome
  <1>2. e \in Outcome
    BY ExecCloser DEF Leaves, Runs, Closer
  <1>3. Returned(Result(e.db, e.session).session) /\ Result(e.db, e.session).db = x
    BY ResultSame DEF Leaves
  <1>4. CASE q.session.todo # <<>>
    <2>1. e = q
      BY <1>4 DEF Settle
    <2>2. q.session.threw = FALSE
      BY <1>1, <1>4 DEF Session
    <2>. QED  BY <1>1, <1>3, <2>1, <2>2 DEF Leaves
  <1>5. CASE q.session.todo = <<>>
    <2>1. Result(q.db, q.session) = [db |-> q.db, session |-> q.session]
      BY <1>1, <1>5, ResultEnds
    <2>2. CASE q.session.threw
      <3>1. e = q
        BY <2>2 DEF Settle
      <3>. QED  BY <1>3, <2>1, <2>2, <3>1 DEF Returned
    <2>3. CASE ~q.session.threw
      <3>1. e.db = q.db /\ e.session.todo = <<>>
        BY <1>1, <1>5, <2>3 DEF Settle, Outcome, Session
      <3>2. Result(e.db, e.session) = [db |-> e.db, session |-> e.session]
        BY <1>2, <3>1, ResultEnds DEF Outcome
      <3>3. q.session.threw = FALSE
        BY <1>1, <2>3 DEF Session
      <3>. HIDE DEF e
      <3>. QED  BY <1>1, <1>3, <1>5, <2>1, <3>1, <3>2, <3>3 DEF Leaves, Returned
    <2>. QED  BY <2>2, <2>3
  <1>. QED  BY <1>4, <1>5

LEMMA Cons ==
    ASSUME NEW st \in Statement, NEW r \in Seq(Statement)
    PROVE  /\ <<st>> \o r \in Seq(Statement) /\ <<st>> \o r # <<>>
           /\ Head(<<st>> \o r) = st /\ Tail(<<st>> \o r) = r
  <1>. DEFINE t == <<st>> \o r
  <1>1. <<st>> \in Seq(Statement) /\ Len(<<st>>) = 1 /\ <<st>>[1] = st
    OBVIOUS
  <1>2. /\ t \in Seq(Statement) /\ Len(t) = 1 + Len(r)
        /\ \A i \in 1 .. 1 + Len(r) : t[i] = IF i =< 1 THEN <<st>>[i] ELSE r[i - 1]
    <2>1. /\ t \in Seq(Statement) /\ Len(t) = Len(<<st>>) + Len(r)
          /\ \A i \in 1 .. Len(<<st>>) + Len(r) :
                t[i] = IF i =< Len(<<st>>) THEN <<st>>[i] ELSE r[i - Len(<<st>>)]
      BY <1>1, ConcatProperties
    <2>. QED  BY <1>1, <2>1
  <1>3. Len(r) \in Nat
    OBVIOUS
  <1>. HIDE DEF t
  <1>4. t # <<>>
    <2>1. Len(<<>>) = 0
      OBVIOUS
    <2>. QED  BY <1>2, <1>3, <2>1
  <1>5. Head(t) = st
    <2>1. 1 \in 1 .. 1 + Len(r) /\ t[1] = st
      BY <1>1, <1>2, <1>3
    <2>. QED  BY <1>2, <1>4, <2>1
  <1>6. Tail(t) = r
    <2>1. /\ Tail(t) \in Seq(Statement) /\ Len(Tail(t)) = Len(t) - 1
          /\ \A i \in 1 .. Len(Tail(t)) : Tail(t)[i] = t[i + 1]
      BY <1>2, <1>4, HeadTailProperties
    <2>2. Len(Tail(t)) = Len(r)
      BY <1>2, <1>3, <2>1
    <2>3. ASSUME NEW i \in 1 .. Len(r)
          PROVE  Tail(t)[i] = r[i]
      <3>1. i + 1 \in 1 .. 1 + Len(r) /\ ~(i + 1 =< 1) /\ (i + 1) - 1 = i
        BY <1>3
      <3>2. t[i + 1] = r[(i + 1) - 1]
        BY <1>2, <3>1
      <3>. QED  BY <2>1, <2>2, <3>1, <3>2
    <2>. QED  BY <2>1, <2>2, <2>3, SeqEqual
  <1>. QED  BY <1>2, <1>4, <1>5, <1>6 DEF t

LEMMA PairCons ==
    ASSUME NEW x \in Statement, NEW y \in Statement, NEW r \in Seq(Statement)
    PROVE  <<x, y>> \o r = <<x>> \o (<<y>> \o r)
  <1>1. <<x>> \o <<y>> = <<x, y>>
    <2>. DEFINE t == <<x>> \o <<y>>
    <2>1. <<x>> \in Seq(Statement) /\ Len(<<x>>) = 1 /\ <<x>>[1] = x
          /\ <<y>> \in Seq(Statement) /\ Len(<<y>>) = 1 /\ <<y>>[1] = y
      OBVIOUS
    <2>2. /\ t \in Seq(Statement) /\ Len(t) = Len(<<x>>) + Len(<<y>>)
          /\ \A i \in 1 .. Len(<<x>>) + Len(<<y>>) :
                t[i] = IF i =< Len(<<x>>) THEN <<x>>[i] ELSE <<y>>[i - Len(<<x>>)]
      BY <2>1, ConcatProperties
    <2>. HIDE DEF t
    <2>3. Len(t) = 2 /\ \A i \in 1 .. 2 : t[i] = IF i =< 1 THEN <<x>>[i] ELSE <<y>>[i - 1]
      BY <2>1, <2>2
    <2>4. t[1] = x /\ t[2] = y
      BY <2>1, <2>3
    <2>5. t = <<t[1], t[2]>>
      BY <2>2, <2>3
    <2>. QED  BY <2>4, <2>5 DEF t
  <1>2. <<x>> \in Seq(Statement) /\ <<y>> \in Seq(Statement)
    OBVIOUS
  <1>3. (<<x>> \o <<y>>) \o r = <<x>> \o (<<y>> \o r)
    BY <1>2, ConcatAssociative
  <1>. QED  BY <1>1, <1>3

LEMMA NextOf ==
    ASSUME NEW d, NEW x, NEW c, NEW st \in Statement, NEW r \in Seq(Statement),
           NEW v, NEW f, NEW a, NEW s, s = Sess(c, <<st>> \o r, v, f, a), Leaves(d, s, x)
    PROVE  /\ d \in Db
           /\ Runs(s)
           /\ Head(s.todo) = st
           /\ v \in 0 .. MaxVersion
           /\ f \in MaybeFrame
           /\ c \in Command
           /\ st \in StatementsOf(c)
           /\ s.cmd = c /\ s.read = v /\ s.frame = f /\ s.answer = a
  <1>1. d \in Db /\ s \in Session
    BY DEF Leaves
  <1>2. s.todo = <<st>> \o r /\ s.cmd = c /\ s.read = v /\ s.frame = f /\ s.answer = a
    BY DEF Sess
  <1>3. s.todo # <<>> /\ Head(s.todo) = st
    BY <1>2, Cons
  <1>4. Runs(s)
    BY <1>1, <1>3 DEF Runs
  <1>5. s.cmd \in Command /\ Head(s.todo) \in StatementsOf(s.cmd)
    BY <1>4, HeadOf
  <1>6. s.read \in 0 .. MaxVersion /\ s.frame \in MaybeFrame
    BY <1>1 DEF Session
  <1>. QED  BY <1>1, <1>2, <1>3, <1>4, <1>5, <1>6

LEMMA SessTodo ==
    ASSUME NEW c, NEW t, NEW v, NEW f, NEW a, NEW r
    PROVE  [Sess(c, t, v, f, a) EXCEPT !.todo = r] = Sess(c, r, v, f, a)
  <1>. DEFINE s == Sess(c, t, v, f, a)
             n == [s EXCEPT !.todo = r]
             Sessions == [cmd : {c}, todo : {t, r}, threw : {FALSE}, read : {v},
                          answer : {a}, frame : {f}]
  <1>1. s \in Sessions /\ s.cmd = c /\ s.threw = FALSE
        /\ s.read = v /\ s.frame = f /\ s.answer = a
    BY DEF Sess
  <1>. HIDE DEF s
  <1>2. n \in Sessions /\ n.cmd = c /\ n.threw = FALSE /\ n.todo = r
        /\ n.read = v /\ n.frame = f /\ n.answer = a
    BY <1>1
  <1>. HIDE DEF n
  <1>3. n = [cmd |-> n.cmd, todo |-> n.todo, threw |-> n.threw, read |-> n.read,
             answer |-> n.answer, frame |-> n.frame]
    BY <1>2
  <1>4. n = Sess(c, r, v, f, a)
    BY <1>2, <1>3 DEF Sess
  <1>. QED  BY <1>4 DEF n, s

LEMMA SessRead ==
    ASSUME NEW c, NEW t, NEW v, NEW f, NEW a, NEW u
    PROVE  [Sess(c, t, v, f, a) EXCEPT !.read = u] = Sess(c, t, u, f, a)
  <1>. DEFINE s == Sess(c, t, v, f, a)
             n == [s EXCEPT !.read = u]
             Sessions == [cmd : {c}, todo : {t}, threw : {FALSE}, read : {v, u},
                          answer : {a}, frame : {f}]
  <1>1. s \in Sessions /\ s.cmd = c /\ s.threw = FALSE
        /\ s.todo = t /\ s.frame = f /\ s.answer = a
    BY DEF Sess
  <1>. HIDE DEF s
  <1>2. n \in Sessions /\ n.cmd = c /\ n.threw = FALSE /\ n.read = u
        /\ n.todo = t /\ n.frame = f /\ n.answer = a
    BY <1>1
  <1>. HIDE DEF n
  <1>3. n = [cmd |-> n.cmd, todo |-> n.todo, threw |-> n.threw, read |-> n.read,
             answer |-> n.answer, frame |-> n.frame]
    BY <1>2
  <1>4. n = Sess(c, t, u, f, a)
    BY <1>2, <1>3 DEF Sess
  <1>. QED  BY <1>4 DEF n, s

LEMMA SessFrame ==
    ASSUME NEW c, NEW t, NEW v, NEW f, NEW a, NEW g
    PROVE  [Sess(c, t, v, f, a) EXCEPT !.frame = g] = Sess(c, t, v, g, a)
  <1>. DEFINE s == Sess(c, t, v, f, a)
             n == [s EXCEPT !.frame = g]
             Sessions == [cmd : {c}, todo : {t}, threw : {FALSE}, read : {v},
                          answer : {a}, frame : {f, g}]
  <1>1. s \in Sessions /\ s.cmd = c /\ s.threw = FALSE
        /\ s.todo = t /\ s.read = v /\ s.answer = a
    BY DEF Sess
  <1>. HIDE DEF s
  <1>2. n \in Sessions /\ n.cmd = c /\ n.threw = FALSE /\ n.frame = g
        /\ n.todo = t /\ n.read = v /\ n.answer = a
    BY <1>1
  <1>. HIDE DEF n
  <1>3. n = [cmd |-> n.cmd, todo |-> n.todo, threw |-> n.threw, read |-> n.read,
             answer |-> n.answer, frame |-> n.frame]
    BY <1>2
  <1>4. n = Sess(c, t, v, g, a)
    BY <1>2, <1>3 DEF Sess
  <1>. QED  BY <1>4 DEF n, s

LEMMA SessAnswer ==
    ASSUME NEW c, NEW t, NEW v, NEW f, NEW a, NEW b
    PROVE  [Sess(c, t, v, f, a) EXCEPT !.answer = b] = Sess(c, t, v, f, b)
  <1>. DEFINE s == Sess(c, t, v, f, a)
             n == [s EXCEPT !.answer = b]
             Sessions == [cmd : {c}, todo : {t}, threw : {FALSE}, read : {v},
                          answer : {a, b}, frame : {f}]
  <1>1. s \in Sessions /\ s.cmd = c /\ s.threw = FALSE
        /\ s.todo = t /\ s.read = v /\ s.frame = f
    BY DEF Sess
  <1>. HIDE DEF s
  <1>2. n \in Sessions /\ n.cmd = c /\ n.threw = FALSE /\ n.answer = b
        /\ n.todo = t /\ n.read = v /\ n.frame = f
    BY <1>1
  <1>. HIDE DEF n
  <1>3. n = [cmd |-> n.cmd, todo |-> n.todo, threw |-> n.threw, read |-> n.read,
             answer |-> n.answer, frame |-> n.frame]
    BY <1>2
  <1>4. n = Sess(c, t, v, f, b)
    BY <1>2, <1>3 DEF Sess
  <1>. QED  BY <1>4 DEF n, s

LEMMA GoSess ==
    ASSUME NEW d, NEW c, NEW st \in Statement, NEW r \in Seq(Statement), NEW v, NEW f, NEW a
    PROVE  Go(d, Sess(c, <<st>> \o r, v, f, a)) = [db |-> d, session |-> Sess(c, r, v, f, a)]
  <1>. DEFINE s == Sess(c, <<st>> \o r, v, f, a)
  <1>1. s.todo = <<st>> \o r
    BY DEF Sess
  <1>2. Tail(s.todo) = r
    BY <1>1, Cons
  <1>3. [s EXCEPT !.todo = r] = Sess(c, r, v, f, a)
    BY SessTodo
  <1>. HIDE DEF s
  <1>4. Go(d, s) = [db |-> d, session |-> Sess(c, r, v, f, a)]
    BY <1>2, <1>3 DEF Go
  <1>. QED  BY <1>4 DEF s

\* A check has let the command pass.
LEMMA RunRequire ==
    ASSUME NEW d, NEW x, NEW c, NEW st \in Statement, NEW r \in Seq(Statement),
           NEW v, NEW f, NEW a, NEW ok, Leaves(d, Sess(c, <<st>> \o r, v, f, a), x),
           Exec(d, Sess(c, <<st>> \o r, v, f, a)) =
              Settle(Require(ok, d, Sess(c, <<st>> \o r, v, f, a)))
    PROVE  ok /\ Leaves(d, Sess(c, r, v, f, a), x)
  <1>. DEFINE s == Sess(c, <<st>> \o r, v, f, a)
             q == Require(ok, d, s)
  <1>1. d \in Db /\ Runs(s)
    BY NextOf
  <1>2. q \in Outcome
    BY <1>1, RequireCloser DEF Closer
  <1>3. Leaves(q.db, q.session, x) /\ q.session.threw = FALSE
    BY <1>1, <1>2, LeavesNext DEF Runs
  <1>4. ok
    BY <1>3 DEF Require, Throw, Failed
  <1>5. q = Go(d, s)
    BY <1>4 DEF Require
  <1>6. q = [db |-> d, session |-> Sess(c, r, v, f, a)]
    BY <1>5, GoSess
  <1>. HIDE DEF q
  <1>. QED  BY <1>3, <1>4, <1>6

\* A statement that changes contents, or what is read, and goes on.
LEMMA RunGo ==
    ASSUME NEW d, NEW x, NEW c, NEW st \in Statement, NEW r \in Seq(Statement),
           NEW v, NEW f, NEW a, Leaves(d, Sess(c, <<st>> \o r, v, f, a), x),
           NEW n, NEW u, NEW b,
           Exec(d, Sess(c, <<st>> \o r, v, f, a)) =
              Settle(Go(n, Sess(c, <<st>> \o r, u, f, b))),
           Go(n, Sess(c, <<st>> \o r, u, f, b)) \in Outcome
    PROVE  Leaves(n, Sess(c, r, u, f, b), x)
  <1>. DEFINE s == Sess(c, <<st>> \o r, v, f, a)
             q == Go(n, Sess(c, <<st>> \o r, u, f, b))
  <1>1. Runs(s)
    BY NextOf
  <1>2. Leaves(q.db, q.session, x)
    BY <1>1, LeavesNext DEF Runs
  <1>3. q = [db |-> n, session |-> Sess(c, r, u, f, b)]
    BY GoSess
  <1>. HIDE DEF q
  <1>. QED  BY <1>2, <1>3

\* What each statement asks and does, in a command that returns.

LEMMA RunCheckName ==
    ASSUME NEW d, NEW x, NEW c, NEW r \in Seq(Statement), NEW v, NEW f, NEW a,
           Leaves(d, Sess(c, <<"checkName">> \o r, v, f, a), x)
    PROVE  (\A e \in Live(d) : NameOf[e] # c.name) /\ Leaves(d, Sess(c, r, v, f, a), x)
  <1>. DEFINE s == Sess(c, <<"checkName">> \o r, v, f, a)
             ok == \A e \in Live(d) : NameOf[e] # c.name
  <1>1. "checkName" \in Statement
    BY DEF Statement
  <1>2. s = Sess(c, <<"checkName">> \o r, v, f, a) /\ Leaves(d, s, x)
    OBVIOUS
  <1>. HIDE DEF s
  <1>3. /\ Head(s.todo) = "checkName" /\ Runs(s) /\ d \in Db
        /\ s.cmd = c /\ s.frame = f /\ s.read = v
    BY <1>1, <1>2, NextOf
  <1>4. Exec(d, s) = Settle(Require(ok, d, s))
    BY <1>3 DEF Exec, CheckName
  <1>. HIDE DEF ok
  <1>5. ok /\ Leaves(d, Sess(c, r, v, f, a), x)
    BY <1>1, <1>4, RunRequire DEF s
  <1>. QED  BY <1>5 DEF ok

LEMMA RunCheckID ==
    ASSUME NEW d, NEW x, NEW c, NEW r \in Seq(Statement), NEW v, NEW f, NEW a,
           Leaves(d, Sess(c, <<"checkID">> \o r, v, f, a), x)
    PROVE  c.id \in Live(d) /\ Leaves(d, Sess(c, r, v, f, a), x)
  <1>. DEFINE s == Sess(c, <<"checkID">> \o r, v, f, a)
             ok == c.id \in Live(d)
  <1>1. "checkID" \in Statement
    BY DEF Statement
  <1>2. s = Sess(c, <<"checkID">> \o r, v, f, a) /\ Leaves(d, s, x)
    OBVIOUS
  <1>. HIDE DEF s
  <1>3. /\ Head(s.todo) = "checkID" /\ Runs(s) /\ d \in Db
        /\ s.cmd = c /\ s.frame = f /\ s.read = v
    BY <1>1, <1>2, NextOf
  <1>4. Exec(d, s) = Settle(Require(ok, d, s))
    BY <1>3 DEF Exec, CheckID
  <1>. HIDE DEF ok
  <1>5. ok /\ Leaves(d, Sess(c, r, v, f, a), x)
    BY <1>1, <1>4, RunRequire DEF s
  <1>. QED  BY <1>5 DEF ok

LEMMA RunGetAgain ==
    ASSUME NEW d, NEW x, NEW c, NEW r \in Seq(Statement), NEW v, NEW f, NEW a,
           Leaves(d, Sess(c, <<"getAgain">> \o r, v, f, a), x)
    PROVE  c.id \in Live(d) /\ Leaves(d, Sess(c, r, v, f, a), x)
  <1>. DEFINE s == Sess(c, <<"getAgain">> \o r, v, f, a)
             ok == c.id \in Live(d)
  <1>1. "getAgain" \in Statement
    BY DEF Statement
  <1>2. s = Sess(c, <<"getAgain">> \o r, v, f, a) /\ Leaves(d, s, x)
    OBVIOUS
  <1>. HIDE DEF s
  <1>3. /\ Head(s.todo) = "getAgain" /\ Runs(s) /\ d \in Db
        /\ s.cmd = c /\ s.frame = f /\ s.read = v
    BY <1>1, <1>2, NextOf
  <1>4. Exec(d, s) = Settle(Require(ok, d, s))
    BY <1>3 DEF Exec, CheckID
  <1>. HIDE DEF ok
  <1>5. ok /\ Leaves(d, Sess(c, r, v, f, a), x)
    BY <1>1, <1>4, RunRequire DEF s
  <1>. QED  BY <1>5 DEF ok

LEMMA RunCheckFrame ==
    ASSUME NEW d, NEW x, NEW c, NEW r \in Seq(Statement), NEW v, NEW f, NEW a,
           Leaves(d, Sess(c, <<"checkFrame">> \o r, v, f, a), x)
    PROVE  f.extent =< d.mapSize[f.floor] /\ Leaves(d, Sess(c, r, v, f, a), x)
  <1>. DEFINE s == Sess(c, <<"checkFrame">> \o r, v, f, a)
             ok == f.extent =< d.mapSize[f.floor]
  <1>1. "checkFrame" \in Statement
    BY DEF Statement
  <1>2. s = Sess(c, <<"checkFrame">> \o r, v, f, a) /\ Leaves(d, s, x)
    OBVIOUS
  <1>. HIDE DEF s
  <1>3. /\ Head(s.todo) = "checkFrame" /\ Runs(s) /\ d \in Db
        /\ s.cmd = c /\ s.frame = f /\ s.read = v
    BY <1>1, <1>2, NextOf
  <1>4. Exec(d, s) = Settle(Require(ok, d, s))
    BY <1>3 DEF Exec, CheckFrame
  <1>. HIDE DEF ok
  <1>5. ok /\ Leaves(d, Sess(c, r, v, f, a), x)
    BY <1>1, <1>4, RunRequire DEF s
  <1>. QED  BY <1>5 DEF ok

LEMMA RunSetRgb ==
    ASSUME NEW d, NEW x, NEW c, NEW r \in Seq(Statement), NEW v, NEW f, NEW a,
           Leaves(d, Sess(c, <<"setRgb">> \o r, v, f, a), x)
    PROVE  Leaves([d EXCEPT !.rgb[c.id] = c.colour], Sess(c, r, v, f, a), x)
  <1>. DEFINE s == Sess(c, <<"setRgb">> \o r, v, f, a)
             n == [d EXCEPT !.rgb[c.id] = c.colour]
  <1>1. "setRgb" \in Statement
    BY DEF Statement
  <1>2. s = Sess(c, <<"setRgb">> \o r, v, f, a) /\ Leaves(d, s, x)
    OBVIOUS
  <1>. HIDE DEF s
  <1>3. /\ Head(s.todo) = "setRgb" /\ Runs(s) /\ d \in Db
        /\ s.cmd = c /\ s.frame = f /\ s.read = v
    BY <1>1, <1>2, NextOf
  <1>4. SetRgb(d, s) = Go(n, s)
    BY <1>3 DEF SetRgb
  <1>. HIDE DEF n
  <1>5. Exec(d, s) = Settle(Go(n, s))
    BY <1>3, <1>4 DEF Exec
  <1>6. Go(n, s) \in Outcome
    BY <1>3, <1>4, SetRgbCloser DEF Closer
  <1>7. Leaves(n, Sess(c, r, v, f, a), x)
    BY <1>1, <1>5, <1>6, RunGo DEF s
  <1>. QED  BY <1>7 DEF n

LEMMA RunWriteFrame ==
    ASSUME NEW d, NEW x, NEW c, NEW r \in Seq(Statement), NEW v, NEW f, NEW a,
           Leaves(d, Sess(c, <<"writeFrame">> \o r, v, f, a), x)
    PROVE  Leaves([d EXCEPT !.version[c.id] = v, !.frame[c.id] = f], Sess(c, r, v, f, a), x)
  <1>. DEFINE s == Sess(c, <<"writeFrame">> \o r, v, f, a)
             n == [d EXCEPT !.version[c.id] = v, !.frame[c.id] = f]
  <1>1. "writeFrame" \in Statement
    BY DEF Statement
  <1>2. s = Sess(c, <<"writeFrame">> \o r, v, f, a) /\ Leaves(d, s, x)
    OBVIOUS
  <1>. HIDE DEF s
  <1>3. /\ Head(s.todo) = "writeFrame" /\ Runs(s) /\ d \in Db
        /\ s.cmd = c /\ s.frame = f /\ s.read = v
    BY <1>1, <1>2, NextOf
  <1>4. WriteFrame(d, s) = Go(n, s)
    BY <1>3 DEF WriteFrame
  <1>. HIDE DEF n
  <1>5. Exec(d, s) = Settle(Go(n, s))
    BY <1>3, <1>4 DEF Exec
  <1>6. Go(n, s) \in Outcome
    BY <1>3, <1>4, WriteFrameCloser DEF Closer
  <1>7. Leaves(n, Sess(c, r, v, f, a), x)
    BY <1>1, <1>5, <1>6, RunGo DEF s
  <1>. QED  BY <1>7 DEF n

LEMMA RunMarkDeleted ==
    ASSUME NEW d, NEW x, NEW c, NEW r \in Seq(Statement), NEW v, NEW f, NEW a,
           Leaves(d, Sess(c, <<"markDeleted">> \o r, v, f, a), x)
    PROVE  Leaves([d EXCEPT !.status[c.id] = "removed"], Sess(c, r, v, f, a), x)
  <1>. DEFINE s == Sess(c, <<"markDeleted">> \o r, v, f, a)
             n == [d EXCEPT !.status[c.id] = "removed"]
  <1>1. "markDeleted" \in Statement
    BY DEF Statement
  <1>2. s = Sess(c, <<"markDeleted">> \o r, v, f, a) /\ Leaves(d, s, x)
    OBVIOUS
  <1>. HIDE DEF s
  <1>3. /\ Head(s.todo) = "markDeleted" /\ Runs(s) /\ d \in Db
        /\ s.cmd = c /\ s.frame = f /\ s.read = v
    BY <1>1, <1>2, NextOf
  <1>4. MarkDeleted(d, s) = Go(n, s)
    BY <1>3 DEF MarkDeleted
  <1>. HIDE DEF n
  <1>5. Exec(d, s) = Settle(Go(n, s))
    BY <1>3, <1>4 DEF Exec
  <1>6. Go(n, s) \in Outcome
    BY <1>3, <1>4, MarkDeletedCloser DEF Closer
  <1>7. Leaves(n, Sess(c, r, v, f, a), x)
    BY <1>1, <1>5, <1>6, RunGo DEF s
  <1>. QED  BY <1>7 DEF n

LEMMA RunSetLastDeleted ==
    ASSUME NEW d, NEW x, NEW c, NEW r \in Seq(Statement), NEW v, NEW f, NEW a,
           Leaves(d, Sess(c, <<"setLastDeleted">> \o r, v, f, a), x)
    PROVE  Leaves([d EXCEPT !.lastDeleted = v], Sess(c, r, v, f, a), x)
  <1>. DEFINE s == Sess(c, <<"setLastDeleted">> \o r, v, f, a)
             n == [d EXCEPT !.lastDeleted = v]
  <1>1. "setLastDeleted" \in Statement
    BY DEF Statement
  <1>2. s = Sess(c, <<"setLastDeleted">> \o r, v, f, a) /\ Leaves(d, s, x)
    OBVIOUS
  <1>. HIDE DEF s
  <1>3. /\ Head(s.todo) = "setLastDeleted" /\ Runs(s) /\ d \in Db
        /\ s.cmd = c /\ s.frame = f /\ s.read = v
    BY <1>1, <1>2, NextOf
  <1>4. SetLastDeleted(d, s) = Go(n, s)
    BY <1>3 DEF SetLastDeleted
  <1>. HIDE DEF n
  <1>5. Exec(d, s) = Settle(Go(n, s))
    BY <1>3, <1>4 DEF Exec
  <1>6. Go(n, s) \in Outcome
    BY <1>3, <1>4, SetLastDeletedCloser DEF Closer
  <1>7. Leaves(n, Sess(c, r, v, f, a), x)
    BY <1>1, <1>5, <1>6, RunGo DEF s
  <1>. QED  BY <1>7 DEF n

LEMMA RunRemoveMap ==
    ASSUME NEW d, NEW x, NEW c, NEW r \in Seq(Statement), NEW v, NEW f, NEW a,
           Leaves(d, Sess(c, <<"removeMap">> \o r, v, f, a), x)
    PROVE  Leaves([d EXCEPT !.mapSize[c.floor] = 0], Sess(c, r, v, f, a), x)
  <1>. DEFINE s == Sess(c, <<"removeMap">> \o r, v, f, a)
             n == [d EXCEPT !.mapSize[c.floor] = 0]
  <1>1. "removeMap" \in Statement
    BY DEF Statement
  <1>2. s = Sess(c, <<"removeMap">> \o r, v, f, a) /\ Leaves(d, s, x)
    OBVIOUS
  <1>. HIDE DEF s
  <1>3. /\ Head(s.todo) = "removeMap" /\ Runs(s) /\ d \in Db
        /\ s.cmd = c /\ s.frame = f /\ s.read = v
    BY <1>1, <1>2, NextOf
  <1>4. RemoveMap(d, s) = Go(n, s)
    BY <1>3 DEF RemoveMap
  <1>. HIDE DEF n
  <1>5. Exec(d, s) = Settle(Go(n, s))
    BY <1>3, <1>4 DEF Exec
  <1>6. Go(n, s) \in Outcome
    BY <1>3, <1>4, RemoveMapCloser DEF Closer
  <1>7. Leaves(n, Sess(c, r, v, f, a), x)
    BY <1>1, <1>5, <1>6, RunGo DEF s
  <1>. QED  BY <1>7 DEF n

LEMMA RunInsertMap ==
    ASSUME NEW d, NEW x, NEW c, NEW r \in Seq(Statement), NEW v, NEW f, NEW a,
           Leaves(d, Sess(c, <<"insertMap">> \o r, v, f, a), x)
    PROVE  Leaves([d EXCEPT !.mapSize[c.floor] = c.size], Sess(c, r, v, f, a), x)
  <1>. DEFINE s == Sess(c, <<"insertMap">> \o r, v, f, a)
             n == [d EXCEPT !.mapSize[c.floor] = c.size]
  <1>1. "insertMap" \in Statement
    BY DEF Statement
  <1>2. s = Sess(c, <<"insertMap">> \o r, v, f, a) /\ Leaves(d, s, x)
    OBVIOUS
  <1>. HIDE DEF s
  <1>3. /\ Head(s.todo) = "insertMap" /\ Runs(s) /\ d \in Db
        /\ s.cmd = c /\ s.frame = f /\ s.read = v
    BY <1>1, <1>2, NextOf
  <1>4. InsertMap(d, s) = Go(n, s)
    BY <1>3 DEF InsertMap
  <1>. HIDE DEF n
  <1>5. Exec(d, s) = Settle(Go(n, s))
    BY <1>3, <1>4 DEF Exec
  <1>6. Go(n, s) \in Outcome
    BY <1>3, <1>4, InsertMapCloser DEF Closer
  <1>7. Leaves(n, Sess(c, r, v, f, a), x)
    BY <1>1, <1>5, <1>6, RunGo DEF s
  <1>. QED  BY <1>7 DEF n

\* Every row on the floor leaves it, with the version read.
Reset(d, fl, v) ==
    [d EXCEPT
       !.version = [e \in Exhibit |-> IF d.frame[e] # NoFrame /\ d.frame[e].floor = fl
                                      THEN v ELSE d.version[e]],
       !.frame = [e \in Exhibit |-> IF d.frame[e] # NoFrame /\ d.frame[e].floor = fl
                                    THEN NoFrame ELSE d.frame[e]]]

LEMMA RunResetFrames ==
    ASSUME NEW d, NEW x, NEW c, NEW r \in Seq(Statement), NEW v, NEW f, NEW a,
           Leaves(d, Sess(c, <<"resetFrames">> \o r, v, f, a), x)
    PROVE  Leaves(Reset(d, c.floor, v), Sess(c, r, v, f, a), x)
  <1>. DEFINE s == Sess(c, <<"resetFrames">> \o r, v, f, a)
             n == Reset(d, c.floor, v)
  <1>1. "resetFrames" \in Statement
    BY DEF Statement
  <1>2. s = Sess(c, <<"resetFrames">> \o r, v, f, a) /\ Leaves(d, s, x)
    OBVIOUS
  <1>. HIDE DEF s
  <1>3. /\ Head(s.todo) = "resetFrames" /\ Runs(s) /\ d \in Db
        /\ s.cmd = c /\ s.frame = f /\ s.read = v
    BY <1>1, <1>2, NextOf
  <1>4. ResetFrames(d, s) = Go(n, s)
    BY <1>3 DEF ResetFrames, Reset
  <1>. HIDE DEF n
  <1>5. Exec(d, s) = Settle(Go(n, s))
    BY <1>3, <1>4 DEF Exec
  <1>6. Go(n, s) \in Outcome
    BY <1>3, <1>4, ResetFramesCloser DEF Closer
  <1>7. Leaves(n, Sess(c, r, v, f, a), x)
    BY <1>1, <1>5, <1>6, RunGo DEF s
  <1>. QED  BY <1>7 DEF n

LEMMA RunIncrement ==
    ASSUME NEW d, NEW x, NEW c, NEW r \in Seq(Statement), NEW v, NEW f, NEW a,
           Leaves(d, Sess(c, IncrementVersion \o r, v, f, a), x)
    PROVE  /\ d.lastVersion < MaxVersion
           /\ Leaves([d EXCEPT !.lastVersion = @ + 1], Sess(c, r, d.lastVersion + 1, f, a), x)
  <1>. DEFINE l == d.lastVersion
             n == [d EXCEPT !.lastVersion = l + 1]
             rest == <<"setLastVersion">> \o r
             s1 == Sess(c, <<"getLastVersion">> \o rest, v, f, a)
             s2 == Sess(c, rest, l, f, a)
  <1>1. "getLastVersion" \in Statement /\ "setLastVersion" \in Statement
    BY DEF Statement
  <1>2. IncrementVersion \o r = <<"getLastVersion">> \o rest
    BY <1>1, PairCons DEF IncrementVersion
  <1>3. rest \in Seq(Statement)
    BY <1>1, Cons
  <1>. HIDE DEF rest
  <1>4. Leaves(d, s1, x)
    BY <1>2
  <1>5. Head(s1.todo) = "getLastVersion" /\ Runs(s1) /\ d \in Db
    <2>1. s1 = Sess(c, <<"getLastVersion">> \o rest, v, f, a)
      OBVIOUS
    <2>. HIDE DEF s1
    <2>. QED  BY <1>1, <1>3, <1>4, <2>1, NextOf
  <1>6. Leaves(d, s2, x)
    <2>1. GetLastVersion(d, s1) = Go(d, [s1 EXCEPT !.read = l])
      BY DEF GetLastVersion
    <2>2. [s1 EXCEPT !.read = l] = Sess(c, <<"getLastVersion">> \o rest, l, f, a)
      BY SessRead
    <2>. HIDE DEF s1, s2, l
    <2>3. GetLastVersion(d, s1) = Go(d, Sess(c, <<"getLastVersion">> \o rest, l, f, a))
      BY <2>1, <2>2
    <2>4. Exec(d, s1) = Settle(GetLastVersion(d, s1))
      BY <1>5 DEF Exec
    <2>5. GetLastVersion(d, s1) \in Outcome
      BY <1>5, GetLastVersionCloser DEF Closer
    <2>6. Leaves(d, Sess(c, rest, l, f, a), x)
      BY <1>1, <1>3, <1>4, <2>3, <2>4, <2>5, RunGo DEF s1
    <2>. QED  BY <2>6 DEF s2
  <1>7. Head(s2.todo) = "setLastVersion" /\ Runs(s2)
    <2>1. s2 = Sess(c, <<"setLastVersion">> \o r, l, f, a)
      BY DEF rest
    <2>. HIDE DEF s2
    <2>. QED  BY <1>1, <1>6, <2>1, NextOf
  <1>8. s2.read = l
    BY DEF Sess
  <1>9. SetLastVersion(d, s2) \in Outcome /\ Exec(d, s2) = Settle(SetLastVersion(d, s2))
    <2>. HIDE DEF s2
    <2>. QED  BY <1>5, <1>7, SetLastVersionCloser DEF Closer, Exec
  <1>10. l < MaxVersion
    <2>1. SetLastVersion(d, s2).session.threw = FALSE
      <3>. HIDE DEF s2
      <3>. QED  BY <1>6, <1>7, <1>9, LeavesNext DEF Runs
    <2>. HIDE DEF s2, l
    <2>. QED  BY <1>8, <2>1 DEF SetLastVersion, Throw, Failed
  <1>11. Leaves(n, Sess(c, r, l + 1, f, a), x)
    <2>1. SetLastVersion(d, s2) = Go(n, [s2 EXCEPT !.read = l + 1])
      <3>. HIDE DEF s2
      <3>. QED  BY <1>8, <1>10 DEF SetLastVersion
    <2>2. [s2 EXCEPT !.read = l + 1] = Sess(c, rest, l + 1, f, a)
      BY SessRead
    <2>. HIDE DEF s2, l, n
    <2>3. SetLastVersion(d, s2) = Go(n, Sess(c, <<"setLastVersion">> \o r, l + 1, f, a))
      BY <2>1, <2>2 DEF rest
    <2>. QED  BY <1>1, <1>6, <1>9, <2>3, RunGo DEF s2, rest
  <1>. QED  BY <1>10, <1>11

LEMMA RunInsert ==
    ASSUME NEW d, NEW x, NEW c, NEW r \in Seq(Statement), NEW v, NEW f, NEW a,
           Leaves(d, Sess(c, <<"insert">> \o r, v, f, a), x)
    PROVE  \E e \in Exhibit :
              /\ d.status[e] = "unused" /\ NameOf[e] = c.name
              /\ Leaves([d EXCEPT !.status[e] = "live", !.version[e] = v, !.frame[e] = f,
                                  !.rgb[e] = c.colour], Sess(c, r, v, f, a), x)
  <1>. DEFINE s == Sess(c, <<"insert">> \o r, v, f, a)
             free == {y \in Exhibit : d.status[y] = "unused" /\ NameOf[y] = c.name}
             e == CHOOSE y \in free : TRUE
             n == [d EXCEPT !.status[e] = "live", !.version[e] = v, !.frame[e] = f,
                            !.rgb[e] = c.colour]
  <1>1. "insert" \in Statement
    BY DEF Statement
  <1>2. s = Sess(c, <<"insert">> \o r, v, f, a) /\ Leaves(d, s, x)
    OBVIOUS
  <1>. HIDE DEF s
  <1>3. /\ Head(s.todo) = "insert" /\ Runs(s) /\ d \in Db
        /\ s.cmd = c /\ s.frame = f /\ s.read = v
    BY <1>1, <1>2, NextOf
  <1>. HIDE DEF e
  <1>4. Insert(d, s) = IF free = {} THEN Throw(d, s) ELSE Go(n, s)
    BY <1>3 DEF Insert, e
  <1>. HIDE DEF n, free
  <1>5. Exec(d, s) = Settle(Insert(d, s)) /\ Insert(d, s) \in Outcome
    BY <1>3, InsertCloser DEF Exec, Closer
  <1>6. free # {}
    <2>1. Insert(d, s).session.threw = FALSE
      BY <1>2, <1>3, <1>5, LeavesNext DEF Runs
    <2>. QED  BY <1>4, <2>1 DEF Throw, Failed
  <1>7. Leaves(n, Sess(c, r, v, f, a), x)
    BY <1>1, <1>2, <1>4, <1>5, <1>6, RunGo
  <1>8. e \in free
    BY <1>6 DEF e
  <1>. QED  BY <1>7, <1>8 DEF n, free

\* Contents with the next version given out.
Counted(d) == [d EXCEPT !.lastVersion = @ + 1]

\* A frame is written, with a version of its own.
Framed(d, e, g) ==
    [Counted(d) EXCEPT !.version[e] = d.lastVersion + 1, !.frame[e] = g]

LEMMA RunFrame ==
    ASSUME NEW d, NEW x, NEW c, NEW r \in Seq(Statement), NEW v, NEW f, NEW a,
           Leaves(d, Sess(c, (IF f = NoFrame THEN <<>> ELSE <<"checkFrame">>) \o r, v, f, a), x)
    PROVE  /\ f # NoFrame => f.extent =< d.mapSize[f.floor]
           /\ Leaves(d, Sess(c, r, v, f, a), x)
  <1>1. CASE f = NoFrame
    <2>1. <<>> \o r = r
      BY ConcatEmptySeq
    <2>. QED  BY <1>1, <2>1
  <1>2. CASE f # NoFrame
    <2>1. Leaves(d, Sess(c, <<"checkFrame">> \o r, v, f, a), x)
      BY <1>2
    <2>. QED  BY <1>2, <2>1, RunCheckFrame
  <1>. QED  BY <1>1, <1>2

Cat(s, t) == s \o t

LEMMA CatTyped ==
    ASSUME NEW s \in Seq(Statement), NEW t \in Seq(Statement)
    PROVE  Cat(s, t) \in Seq(Statement)
  BY ConcatProperties DEF Cat

LEMMA CatAssoc ==
    ASSUME NEW s \in Seq(Statement), NEW t \in Seq(Statement), NEW u \in Seq(Statement)
    PROVE  Cat(Cat(s, t), u) = Cat(s, Cat(t, u))
  BY ConcatAssociative DEF Cat

LEMMA RegroupFour ==
    ASSUME NEW p \in Seq(Statement), NEW b \in Seq(Statement), NEW i \in Seq(Statement),
           NEW w \in Seq(Statement)
    PROVE  /\ Cat(Cat(Cat(p, b), i), w) = Cat(p, Cat(b, Cat(i, w)))
           /\ Cat(Cat(p, b), i) = Cat(p, Cat(b, i))
           /\ Cat(b, Cat(i, w)) \in Seq(Statement)
           /\ Cat(i, w) \in Seq(Statement)
           /\ Cat(b, i) \in Seq(Statement)
           /\ Cat(p, b) \in Seq(Statement)
  <1>1. Cat(p, b) \in Seq(Statement) /\ Cat(b, i) \in Seq(Statement)
        /\ Cat(i, w) \in Seq(Statement)
    BY CatTyped
  <1>2. Cat(b, Cat(i, w)) \in Seq(Statement)
    BY <1>1, CatTyped
  <1>3. Cat(Cat(p, b), i) = Cat(p, Cat(b, i))
    BY CatAssoc
  <1>4. Cat(Cat(Cat(p, b), i), w) = Cat(Cat(p, b), Cat(i, w))
    BY <1>1, CatAssoc
  <1>5. Cat(Cat(p, b), Cat(i, w)) = Cat(p, Cat(b, Cat(i, w)))
    BY <1>1, CatAssoc
  <1>. QED  BY <1>1, <1>2, <1>3, <1>4, <1>5

LEMMA Regroup ==
    ASSUME NEW p \in Seq(Statement), NEW b \in Seq(Statement), NEW i \in Seq(Statement),
           NEW w \in Seq(Statement), NEW r \in Seq(Statement)
    PROVE  /\ Cat(Cat(Cat(Cat(p, b), i), w), r) = Cat(p, Cat(b, Cat(i, Cat(w, r))))
           /\ Cat(b, Cat(i, Cat(w, r))) \in Seq(Statement)
           /\ Cat(i, Cat(w, r)) \in Seq(Statement)
           /\ Cat(w, r) \in Seq(Statement)
  <1>1. Cat(p, b) \in Seq(Statement) /\ Cat(w, r) \in Seq(Statement)
    BY CatTyped
  <1>2. Cat(Cat(Cat(Cat(p, b), i), w), r) = Cat(Cat(p, b), Cat(i, Cat(w, r)))
    BY <1>1, RegroupFour
  <1>3. Cat(i, Cat(w, r)) \in Seq(Statement)
    BY <1>1, CatTyped
  <1>4. Cat(Cat(p, b), Cat(i, Cat(w, r))) = Cat(p, Cat(b, Cat(i, Cat(w, r))))
    BY <1>3, CatAssoc
  <1>5. Cat(b, Cat(i, Cat(w, r))) \in Seq(Statement)
    BY <1>3, CatTyped
  <1>. QED  BY <1>1, <1>2, <1>3, <1>4, <1>5

LEMMA Pieces ==
    /\ \A st \in Statement : <<st>> \in Seq(Statement)
    /\ <<>> \in Seq(Statement)
    /\ IncrementVersion \in Seq(Statement)
    /\ \A f : (IF f = NoFrame THEN <<>> ELSE <<"checkFrame">>) \in Seq(Statement)
  <1>1. \A st \in Statement : <<st>> \in Seq(Statement)
    OBVIOUS
  <1>2. <<>> \in Seq(Statement)
    OBVIOUS
  <1>3. IncrementVersion \in Seq(Statement)
    BY IncrementIs DEF Statement
  <1>4. "checkFrame" \in Statement
    BY DEF Statement
  <1>. QED  BY <1>1, <1>2, <1>3, <1>4

LEMMA RunSetFrame ==
    ASSUME NEW d, NEW x, NEW c, NEW r \in Seq(Statement), NEW v, NEW f, NEW a,
           Leaves(d, Sess(c, SetFrame(f) \o r, v, f, a), x)
    PROVE  /\ c.id \in Live(d)
           /\ f # NoFrame => f.extent =< d.mapSize[f.floor]
           /\ d.lastVersion < MaxVersion
           /\ Leaves(Framed(d, c.id, f), Sess(c, r, d.lastVersion + 1, f, a), x)
  <1>. DEFINE b == IF f = NoFrame THEN <<>> ELSE <<"checkFrame">>
             p == <<"checkID">>
             w == <<"writeFrame">>
             i == IncrementVersion
  <1>1. p \in Seq(Statement) /\ b \in Seq(Statement) /\ i \in Seq(Statement)
        /\ w \in Seq(Statement)
    <2>1. "checkID" \in Statement /\ "writeFrame" \in Statement
      BY DEF Statement
    <2>. QED  BY <2>1, Pieces
  <1>2. SetFrame(f) \o r = (((p \o b) \o i) \o w) \o r
    BY DEF SetFrame
  <1>. HIDE DEF b, p, w, i
  <1>3. /\ SetFrame(f) \o r = p \o (b \o (i \o (w \o r)))
        /\ b \o (i \o (w \o r)) \in Seq(Statement)
        /\ i \o (w \o r) \in Seq(Statement)
        /\ w \o r \in Seq(Statement)
    <2>1. /\ Cat(Cat(Cat(Cat(p, b), i), w), r) = Cat(p, Cat(b, Cat(i, Cat(w, r))))
          /\ Cat(b, Cat(i, Cat(w, r))) \in Seq(Statement)
          /\ Cat(i, Cat(w, r)) \in Seq(Statement)
          /\ Cat(w, r) \in Seq(Statement)
      BY <1>1, Regroup
    <2>2. SetFrame(f) \o r = Cat(Cat(Cat(Cat(p, b), i), w), r)
      BY <1>2 DEF Cat
    <2>. QED  BY <2>1, <2>2 DEF Cat
  <1>4. c.id \in Live(d) /\ Leaves(d, Sess(c, b \o (i \o (w \o r)), v, f, a), x)
    BY <1>3, RunCheckID DEF p
  <1>5. /\ f # NoFrame => f.extent =< d.mapSize[f.floor]
        /\ Leaves(d, Sess(c, i \o (w \o r), v, f, a), x)
    BY <1>3, <1>4, RunFrame DEF b
  <1>6. /\ d.lastVersion < MaxVersion
        /\ Leaves(Counted(d), Sess(c, w \o r, d.lastVersion + 1, f, a), x)
    BY <1>3, <1>5, RunIncrement DEF i, Counted
  <1>7. Leaves(Framed(d, c.id, f), Sess(c, r, d.lastVersion + 1, f, a), x)
    BY <1>6, RunWriteFrame DEF w, Framed
  <1>. QED  BY <1>4, <1>5, <1>6, <1>7

\* A read that calls for other statements.
LEMMA RunRead ==
    ASSUME NEW d, NEW x, NEW c, NEW st \in Statement, NEW r \in Seq(Statement),
           NEW v, NEW f, NEW a, NEW s, s = Sess(c, <<st>> \o r, v, f, a), Leaves(d, s, x),
           NEW q \in Outcome, Exec(d, s) = Settle(q),
           NEW more \in Seq(Statement), NEW g,
           q = GoOn(d, Sess(c, <<st>> \o r, v, g, a), more)
    PROVE  Leaves(d, Sess(c, more \o r, v, g, a), x)
  <1>. DEFINE n == Sess(c, <<st>> \o r, v, g, a)
  <1>1. s.todo = <<st>> \o r
    BY DEF Sess
  <1>2. Leaves(q.db, q.session, x)
    BY <1>1, Cons, LeavesNext
  <1>3. n.todo = <<st>> \o r
    BY DEF Sess
  <1>4. more \o Tail(n.todo) = more \o r
    BY <1>3, Cons
  <1>5. [n EXCEPT !.todo = more \o r] = Sess(c, more \o r, v, g, a)
    <2>. DEFINE t == <<st>> \o r
               u == more \o r
    <2>1. n = Sess(c, t, v, g, a)
      OBVIOUS
    <2>. HIDE DEF t, u, n
    <2>2. [n EXCEPT !.todo = u] = Sess(c, u, v, g, a)
      BY <2>1, SessTodo
    <2>. QED  BY <2>2 DEF u
  <1>. HIDE DEF n
  <1>6. q = [db |-> d, session |-> Sess(c, more \o r, v, g, a)]
    BY <1>4, <1>5 DEF GoOn, n
  <1>. QED  BY <1>2, <1>6

\* The same where it is the last.
LEMMA RunLastRead ==
    ASSUME NEW d, NEW x, NEW c, NEW st \in Statement,
           NEW v, NEW f, NEW a, NEW s, s = Sess(c, <<st>>, v, f, a), Leaves(d, s, x),
           NEW q \in Outcome, Exec(d, s) = Settle(q),
           NEW more \in Seq(Statement), NEW g,
           q = GoOn(d, Sess(c, <<st>>, v, g, a), more)
    PROVE  Leaves(d, Sess(c, more, v, g, a), x)
  <1>1. <<st>> = <<st>> \o <<>> /\ <<>> \in Seq(Statement) /\ more \o <<>> = more
    BY ConcatEmptySeq, Pieces
  <1>2. s = Sess(c, <<st>> \o <<>>, v, f, a) /\ q = GoOn(d, Sess(c, <<st>> \o <<>>, v, g, a), more)
    BY <1>1
  <1>3. Leaves(d, Sess(c, more \o <<>>, v, g, a), x)
    BY <1>1, <1>2, RunRead
  <1>. QED  BY <1>1, <1>3

\* A statement that adds to the answer.
LEMMA RunAnswer ==
    ASSUME NEW d, NEW x, NEW c, NEW st \in Statement, NEW r \in Seq(Statement),
           NEW v, NEW f, NEW a, NEW s, s = Sess(c, <<st>> \o r, v, f, a), Leaves(d, s, x),
           NEW b, Exec(d, s) = Settle(Go(d, [s EXCEPT !.answer = b])),
           Go(d, [s EXCEPT !.answer = b]) \in Outcome
    PROVE  Leaves(d, Sess(c, r, v, f, b), x)
  <1>1. [s EXCEPT !.answer = b] = Sess(c, <<st>> \o r, v, f, b)
    BY SessAnswer
  <1>2. Exec(d, Sess(c, <<st>> \o r, v, f, a)) = Settle(Go(d, Sess(c, <<st>> \o r, v, f, b)))
        /\ Go(d, Sess(c, <<st>> \o r, v, f, b)) \in Outcome
        /\ Leaves(d, Sess(c, <<st>> \o r, v, f, a), x)
    BY <1>1
  <1>. QED  BY <1>2, RunGo

-----------------------------------------------------------------------------
(* What a command that returns has done, as a whole *)

LEMMA StartSess ==
    ASSUME NEW c \in Command
    PROVE  Start(c) = Sess(c, Begin(c), 0,
                           IF c.op \in {"create", "update"} THEN c.frame ELSE NoFrame, NoAnswer)
  BY DEF Start, Sess

LEMMA LastOne ==
    ASSUME NEW st \in Statement
    PROVE  <<st>> = <<st>> \o <<>> /\ <<st>> \in Seq(Statement) /\ <<>> \in Seq(Statement)
  BY ConcatEmptySeq, Pieces

LEMMA SessDone ==
    ASSUME NEW d, NEW x, NEW c, NEW v, NEW f, NEW a, Leaves(d, Sess(c, <<>>, v, f, a), x)
    PROVE  x = d
  <1>1. Sess(c, <<>>, v, f, a).todo = <<>>
    BY DEF Sess
  <1>. QED  BY <1>1, LeavesDone

Inserted(d, e, c) ==
    [Counted(d) EXCEPT !.status[e] = "live", !.version[e] = d.lastVersion + 1,
                       !.frame[e] = c.frame, !.rgb[e] = c.colour]

LEMMA CreateEffect ==
    ASSUME NEW c \in Command, c.op = "create", NEW d, NEW x, Leaves(d, Start(c), x)
    PROVE  /\ \A y \in Live(d) : NameOf[y] # c.name
           /\ c.frame # NoFrame => c.frame.extent =< d.mapSize[c.frame.floor]
           /\ d.lastVersion < MaxVersion
           /\ \E e \in Exhibit : /\ d.status[e] = "unused" /\ NameOf[e] = c.name
                                 /\ x = Inserted(d, e, c)
  <1>. DEFINE f == c.frame
             b == IF f = NoFrame THEN <<>> ELSE <<"checkFrame">>
             p == <<"checkName">>
             i == IncrementVersion
             w == <<"insert">>
             a == NoAnswer
  <1>1. p \in Seq(Statement) /\ b \in Seq(Statement) /\ i \in Seq(Statement)
        /\ w \in Seq(Statement) /\ <<>> \in Seq(Statement) /\ w = w \o <<>>
    <2>1. "checkName" \in Statement /\ "insert" \in Statement
      BY DEF Statement
    <2>. QED  BY <2>1, Pieces, LastOne
  <1>2. Begin(c) = ((p \o b) \o i) \o w
    BY DEF Begin
  <1>3. Leaves(d, Sess(c, Begin(c), 0, f, a), x)
    BY StartSess
  <1>. HIDE DEF b, p, w, i, f, a
  <1>4. /\ Begin(c) = p \o (b \o (i \o w))
        /\ b \o (i \o w) \in Seq(Statement)
        /\ i \o w \in Seq(Statement)
    <2>1. /\ Cat(Cat(Cat(p, b), i), w) = Cat(p, Cat(b, Cat(i, w)))
          /\ Cat(b, Cat(i, w)) \in Seq(Statement)
          /\ Cat(i, w) \in Seq(Statement)
      BY <1>1, RegroupFour
    <2>2. Begin(c) = Cat(Cat(Cat(p, b), i), w)
      BY <1>2 DEF Cat
    <2>. QED  BY <2>1, <2>2 DEF Cat
  <1>5. /\ \A y \in Live(d) : NameOf[y] # c.name
        /\ Leaves(d, Sess(c, b \o (i \o w), 0, f, a), x)
    BY <1>3, <1>4, RunCheckName DEF p
  <1>6. /\ f # NoFrame => f.extent =< d.mapSize[f.floor]
        /\ Leaves(d, Sess(c, i \o w, 0, f, a), x)
    BY <1>4, <1>5, RunFrame DEF b
  <1>7. /\ d.lastVersion < MaxVersion
        /\ Leaves(Counted(d), Sess(c, w, d.lastVersion + 1, f, a), x)
    BY <1>1, <1>6, RunIncrement DEF i, Counted
  <1>8. Leaves(Counted(d), Sess(c, w \o <<>>, d.lastVersion + 1, f, a), x)
    BY <1>1, <1>7
  <1>9. PICK e \in Exhibit :
           /\ Counted(d).status[e] = "unused" /\ NameOf[e] = c.name
           /\ Leaves([Counted(d) EXCEPT !.status[e] = "live", !.version[e] = d.lastVersion + 1,
                                        !.frame[e] = f, !.rgb[e] = c.colour],
                     Sess(c, <<>>, d.lastVersion + 1, f, a), x)
    BY <1>1, <1>8, RunInsert DEF w
  <1>10. x = Inserted(d, e, c)
    BY <1>9, SessDone DEF Inserted, f
  <1>11. d.status[e] = "unused"
    BY <1>9 DEF Counted, Leaves, Db
  <1>. QED  BY <1>5, <1>6, <1>7, <1>9, <1>10, <1>11 DEF f

LEMMA RemoveEffect ==
    ASSUME NEW c \in Command, c.op = "remove", NEW d, NEW x, Leaves(d, Start(c), x)
    PROVE  /\ c.id \in Live(d)
           /\ d.lastVersion < MaxVersion
           /\ x = [Counted([d EXCEPT !.status[c.id] = "removed"])
                      EXCEPT !.lastDeleted = d.lastVersion + 1]
  <1>. DEFINE p == <<"checkID">>
             q == <<"markDeleted">>
             i == IncrementVersion
             w == <<"setLastDeleted">>
             m == [d EXCEPT !.status[c.id] = "removed"]
             a == NoAnswer
  <1>1. p \in Seq(Statement) /\ q \in Seq(Statement) /\ i \in Seq(Statement)
        /\ w \in Seq(Statement) /\ <<>> \in Seq(Statement) /\ w = w \o <<>>
        /\ "checkID" \in Statement /\ "markDeleted" \in Statement
    <2>1. "checkID" \in Statement /\ "markDeleted" \in Statement
          /\ "setLastDeleted" \in Statement
      BY DEF Statement
    <2>. QED  BY <2>1, Pieces, LastOne
  <1>2. Begin(c) = (<<"checkID", "markDeleted">> \o i) \o w
    BY DEF Begin
  <1>3. Leaves(d, Sess(c, Begin(c), 0, NoFrame, a), x) /\ d \in Db
    BY StartSess DEF Leaves
  <1>4. <<"checkID", "markDeleted">> \o i = p \o (q \o i)
    BY <1>1, PairCons
  <1>. HIDE DEF p, q, w, i, m, a
  <1>5. /\ Begin(c) = p \o (q \o (i \o w))
        /\ q \o (i \o w) \in Seq(Statement)
        /\ i \o w \in Seq(Statement)
    <2>1. /\ Cat(Cat(Cat(p, q), i), w) = Cat(p, Cat(q, Cat(i, w)))
          /\ Cat(Cat(p, q), i) = Cat(p, Cat(q, i))
          /\ Cat(q, Cat(i, w)) \in Seq(Statement)
          /\ Cat(i, w) \in Seq(Statement)
      BY <1>1, RegroupFour
    <2>2. Begin(c) = Cat(Cat(p, Cat(q, i)), w)
      BY <1>2, <1>4 DEF Cat
    <2>. QED  BY <2>1, <2>2 DEF Cat
  <1>6. c.id \in Live(d) /\ Leaves(d, Sess(c, q \o (i \o w), 0, NoFrame, a), x)
    BY <1>3, <1>5, RunCheckID DEF p
  <1>7. Leaves(m, Sess(c, i \o w, 0, NoFrame, a), x)
    BY <1>5, <1>6, RunMarkDeleted DEF q, m
  <1>8. /\ m.lastVersion < MaxVersion
        /\ Leaves(Counted(m), Sess(c, w, m.lastVersion + 1, NoFrame, a), x)
    BY <1>1, <1>7, RunIncrement DEF i, Counted
  <1>9. m.lastVersion = d.lastVersion
    BY <1>3 DEF m, Db
  <1>10. Leaves(Counted(m), Sess(c, w \o <<>>, d.lastVersion + 1, NoFrame, a), x)
    BY <1>1, <1>8, <1>9
  <1>11. Leaves([Counted(m) EXCEPT !.lastDeleted = d.lastVersion + 1],
                Sess(c, <<>>, d.lastVersion + 1, NoFrame, a), x)
    BY <1>1, <1>10, RunSetLastDeleted DEF w
  <1>12. x = [Counted(m) EXCEPT !.lastDeleted = d.lastVersion + 1]
    BY <1>11, SessDone
  <1>. QED  BY <1>6, <1>8, <1>9, <1>12 DEF m

LEMMA SaveMapEffect ==
    ASSUME NEW c \in Command, c.op = "saveMap", NEW d, NEW x, Leaves(d, Start(c), x)
    PROVE  x = [[d EXCEPT !.mapSize[c.floor] = 0] EXCEPT !.mapSize[c.floor] = c.size]
  <1>. DEFINE w == <<"insertMap">>
             m == [d EXCEPT !.mapSize[c.floor] = 0]
             a == NoAnswer
  <1>1. "removeMap" \in Statement /\ "insertMap" \in Statement
    BY DEF Statement
  <1>2. w \in Seq(Statement) /\ <<>> \in Seq(Statement) /\ w = w \o <<>>
        /\ <<"removeMap", "insertMap">> \o <<>> = <<"removeMap", "insertMap">>
    <2>1. <<"removeMap", "insertMap">> \in Seq(Statement)
      BY <1>1
    <2>. QED  BY <1>1, <2>1, LastOne, ConcatEmptySeq
  <1>3. <<"removeMap", "insertMap">> \o <<>> = <<"removeMap">> \o (w \o <<>>)
    BY <1>1, <1>2, PairCons
  <1>4. Begin(c) = <<"removeMap">> \o w
    BY <1>2, <1>3 DEF Begin
  <1>5. Leaves(d, Sess(c, <<"removeMap">> \o w, 0, NoFrame, a), x)
    BY <1>4, StartSess
  <1>. HIDE DEF w, m, a
  <1>6. Leaves(m, Sess(c, w, 0, NoFrame, a), x)
    BY <1>2, <1>5, RunRemoveMap DEF m
  <1>7. Leaves(m, Sess(c, w \o <<>>, 0, NoFrame, a), x)
    BY <1>2, <1>6
  <1>8. Leaves([m EXCEPT !.mapSize[c.floor] = c.size], Sess(c, <<>>, 0, NoFrame, a), x)
    BY <1>2, <1>7, RunInsertMap DEF w
  <1>. QED  BY <1>8, SessDone DEF m

LEMMA MoveEffect ==
    ASSUME NEW c \in Command, c.op = "setFrame", NEW d, NEW x, Leaves(d, Start(c), x)
    PROVE  /\ c.id \in Live(d)
           /\ d.frame[c.id] # NoFrame
           /\ d.lastVersion < MaxVersion
           /\ c.extent =< d.mapSize[d.frame[c.id].floor]
           /\ x = Framed(d, c.id, [floor |-> d.frame[c.id].floor, extent |-> c.extent])
  <1>. DEFINE old == d.frame[c.id]
             new == [floor |-> old.floor, extent |-> c.extent]
             a == NoAnswer
             s == Sess(c, <<"get">>, 0, NoFrame, a)
             more == SetFrame(new)
             q == Get(d, s)
  <1>1. "get" \in Statement
    BY DEF Statement
  <1>2. Leaves(d, s, x) /\ d \in Db
    BY StartSess DEF Begin, Leaves
  <1>3. s.todo = <<"get">> /\ s.cmd = c /\ s.threw = FALSE
    BY DEF Sess
  <1>4. Head(s.todo) = "get" /\ s.todo # <<>> /\ Runs(s)
    <2>1. Head(<<"get">>) = "get" /\ <<"get">> # <<>>
      OBVIOUS
    <2>. QED  BY <1>2, <1>3, <2>1 DEF Leaves, Runs
  <1>5. q \in Outcome /\ Exec(d, s) = Settle(q)
    <2>. HIDE DEF s
    <2>. QED  BY <1>2, <1>4, GetCloser DEF Exec, Closer
  <1>6. q.session.threw = FALSE
    <2>. HIDE DEF s, q
    <2>. QED  BY <1>2, <1>4, <1>5, LeavesNext
  <1>7. c.id \in Live(d) /\ old # NoFrame /\ q = GoOn(d, [s EXCEPT !.frame = new], more)
    <2>. HIDE DEF s, more, new
    <2>. QED  BY <1>3, <1>6 DEF Get, SetFrameAfterGet, Throw, Failed, more, new
  <1>8. [s EXCEPT !.frame = new] = Sess(c, <<"get">>, 0, new, a)
    BY SessFrame
  <1>9. more \in Seq(Statement) /\ more \o <<>> = more /\ <<>> \in Seq(Statement)
    <2>. HIDE DEF new
    <2>1. more \in Seq(Statement)
      BY SetFrameIs DEF Statement
    <2>. QED  BY <2>1, ConcatEmptySeq, Pieces
  <1>10. s = Sess(c, <<"get">>, 0, NoFrame, a) /\ q = GoOn(d, Sess(c, <<"get">>, 0, new, a), more)
    BY <1>7, <1>8
  <1>. HIDE DEF s, q, new, a, more
  <1>11. Leaves(d, Sess(c, more, 0, new, a), x)
    BY <1>1, <1>2, <1>5, <1>9, <1>10, RunLastRead
  <1>12. Leaves(d, Sess(c, SetFrame(new) \o <<>>, 0, new, a), x)
    BY <1>9, <1>11 DEF more
  <1>13. /\ new # NoFrame => new.extent =< d.mapSize[new.floor]
         /\ d.lastVersion < MaxVersion
         /\ Leaves(Framed(d, c.id, new), Sess(c, <<>>, d.lastVersion + 1, new, a), x)
    BY <1>9, <1>12, RunSetFrame
  <1>14. x = Framed(d, c.id, new)
    BY <1>13, SessDone
  <1>15. new # NoFrame /\ new.extent = c.extent /\ new.floor = old.floor
    <2>1. old \in Frame /\ c.extent \in Extent
      BY <1>2, <1>7, Arguments DEF Db, MaybeFrame, Live
    <2>. QED  BY <2>1, CommandsAssumption DEF new, Frame
  <1>. QED  BY <1>7, <1>13, <1>14, <1>15 DEF new

\* The frame of the request is on the floor the exhibit is on.
SameFloor(d, c) ==
    c.frame # NoFrame /\ d.frame[c.id] # NoFrame /\ c.frame.floor = d.frame[c.id].floor

LEMMA UpdateEffect ==
    ASSUME NEW c \in Command, c.op = "update", NEW d, NEW x, Leaves(d, Start(c), x)
    PROVE  /\ c.id \in Live(d)
           /\ SameFloor(d, c) => x = [d EXCEPT !.rgb[c.id] = c.colour]
           /\ ~SameFloor(d, c) =>
                 /\ c.frame # NoFrame => c.frame.extent =< d.mapSize[c.frame.floor]
                 /\ d.lastVersion < MaxVersion
                 /\ x = Framed([d EXCEPT !.rgb[c.id] = c.colour], c.id, c.frame)
  <1>. DEFINE f == c.frame
             a == NoAnswer
             s == Sess(c, <<"get">>, 0, f, a)
             mid == IF SameFloor(d, c) THEN <<>> ELSE SetFrame(f)
             more == (<<"checkID", "setRgb">> \o mid) \o <<"getAgain">>
             q == Get(d, s)
             m == [d EXCEPT !.rgb[c.id] = c.colour]
             w == <<"getAgain">>
             y == <<"setRgb">>
             p == <<"checkID">>
  <1>1. "get" \in Statement /\ "checkID" \in Statement /\ "setRgb" \in Statement
        /\ "getAgain" \in Statement
    BY DEF Statement
  <1>2. Leaves(d, s, x) /\ d \in Db
    BY StartSess DEF Begin, Leaves
  <1>3. s.todo = <<"get">> /\ s.cmd = c /\ s.threw = FALSE /\ s.frame = f
    BY DEF Sess
  <1>4. Head(s.todo) = "get" /\ s.todo # <<>> /\ Runs(s)
    <2>1. Head(<<"get">>) = "get" /\ <<"get">> # <<>>
      OBVIOUS
    <2>. QED  BY <1>2, <1>3, <2>1 DEF Leaves, Runs
  <1>5. q \in Outcome /\ Exec(d, s) = Settle(q)
    <2>. HIDE DEF s
    <2>. QED  BY <1>2, <1>4, GetCloser DEF Exec, Closer
  <1>6. q.session.threw = FALSE
    <2>. HIDE DEF s, q
    <2>. QED  BY <1>2, <1>4, <1>5, LeavesNext
  <1>7. c.id \in Live(d) /\ q = GoOn(d, s, more)
    <2>1. c.id \in Live(d)
      <3>. HIDE DEF s
      <3>. QED  BY <1>3, <1>6 DEF Get, Throw, Failed
    <2>2. q = UpdateAfterGet(d, s)
      <3>. HIDE DEF s
      <3>. QED  BY <1>3, <2>1 DEF Get
    <2>3. UpdateAfterGet(d, s) = GoOn(d, s, more)
      <3>. HIDE DEF s
      <3>. QED  BY <1>3 DEF UpdateAfterGet, SameFloor
    <2>. QED  BY <2>1, <2>2, <2>3
  <1>8. mid \in Seq(Statement)
    <2>1. SetFrame(f) \in Seq(Statement)
      BY SetFrameIs DEF Statement
    <2>. QED  BY <2>1, Pieces
  <1>9. p \in Seq(Statement) /\ y \in Seq(Statement) /\ w \in Seq(Statement)
        /\ w \o <<>> = w /\ <<>> \in Seq(Statement)
    BY <1>1, Pieces, ConcatEmptySeq
  <1>10. <<"checkID", "setRgb">> \o mid = p \o (y \o mid)
    <2>. HIDE DEF mid
    <2>. QED  BY <1>1, <1>8, PairCons
  <1>. HIDE DEF q, a, mid, w, y, p
  <1>11. /\ more = p \o (y \o (mid \o w))
         /\ y \o (mid \o w) \in Seq(Statement)
         /\ mid \o w \in Seq(Statement)
    <2>1. /\ Cat(Cat(Cat(p, y), mid), w) = Cat(p, Cat(y, Cat(mid, w)))
          /\ Cat(Cat(p, y), mid) = Cat(p, Cat(y, mid))
          /\ Cat(y, Cat(mid, w)) \in Seq(Statement)
          /\ Cat(mid, w) \in Seq(Statement)
      BY <1>8, <1>9, RegroupFour
    <2>2. more = Cat(Cat(p, Cat(y, mid)), w)
      BY <1>10 DEF Cat, w
    <2>. QED  BY <2>1, <2>2 DEF Cat
  <1>12. more \in Seq(Statement)
    BY <1>9, <1>11, ConcatProperties
  <1>. DEFINE g == f
  <1>13. s = Sess(c, <<"get">>, 0, f, a) /\ q = GoOn(d, Sess(c, <<"get">>, 0, g, a), more)
    BY <1>7
  <1>. HIDE DEF s, g, more, f, m
  <1>14. Leaves(d, Sess(c, more, 0, f, a), x)
    <2>1. Leaves(d, Sess(c, more, 0, g, a), x)
      BY <1>1, <1>2, <1>5, <1>12, <1>13, RunLastRead
    <2>. QED  BY <2>1 DEF g
  <1>15. Leaves(d, Sess(c, y \o (mid \o w), 0, f, a), x)
    BY <1>11, <1>14, RunCheckID DEF p
  <1>16. Leaves(m, Sess(c, mid \o w, 0, f, a), x)
    BY <1>11, <1>15, RunSetRgb DEF y, m
  <1>17. ASSUME NEW n, NEW v, Leaves(n, Sess(c, w, v, f, a), x)
         PROVE  x = n
    <2>1. Leaves(n, Sess(c, w \o <<>>, v, f, a), x)
      BY <1>9, <1>17
    <2>2. Leaves(n, Sess(c, <<>>, v, f, a), x)
      BY <1>9, <2>1, RunGetAgain DEF w
    <2>. QED  BY <2>2, SessDone
  <1>18. SameFloor(d, c) => x = m
    <2>1. SameFloor(d, c) => mid \o w = w
      BY <1>9, ConcatEmptySeq DEF mid
    <2>. QED  BY <1>16, <1>17, <2>1
  <1>19. ASSUME ~SameFloor(d, c)
         PROVE  /\ f # NoFrame => f.extent =< m.mapSize[f.floor]
                /\ m.lastVersion < MaxVersion
                /\ x = Framed(m, c.id, f)
    <2>1. Leaves(m, Sess(c, SetFrame(f) \o w, 0, f, a), x)
      BY <1>16, <1>19 DEF mid
    <2>2. /\ f # NoFrame => f.extent =< m.mapSize[f.floor]
          /\ m.lastVersion < MaxVersion
          /\ Leaves(Framed(m, c.id, f), Sess(c, w, m.lastVersion + 1, f, a), x)
      BY <1>9, <2>1, RunSetFrame
    <2>. QED  BY <1>17, <2>2
  <1>20. m.mapSize = d.mapSize /\ m.lastVersion = d.lastVersion
    BY <1>2 DEF m, Db
  <1>. QED  BY <1>7, <1>18, <1>19, <1>20 DEF f, m

LEMMA RemoveOldEffect ==
    ASSUME NEW c \in Command, c.op = "removeOldData", NEW d, NEW x, Leaves(d, Start(c), x)
    PROVE  /\ d.lastVersion < MaxVersion
           /\ LET n == Reset(Counted(d), c.floor, d.lastVersion + 1)
              IN  x = IF d.mapSize[c.floor] = 0 THEN n ELSE [n EXCEPT !.mapSize[c.floor] = 0]
  <1>. DEFINE i == IncrementVersion
             p == <<"resetFrames">>
             w == <<"getMap">>
             v == d.lastVersion + 1
             n == Reset(Counted(d), c.floor, v)
             a == NoAnswer
             more == IF n.mapSize[c.floor] = 0 THEN <<>> ELSE <<"removeMap">>
  <1>1. p \in Seq(Statement) /\ i \in Seq(Statement) /\ w \in Seq(Statement)
        /\ <<>> \in Seq(Statement) /\ w \o <<>> = w /\ "getMap" \in Statement
        /\ more \in Seq(Statement) /\ more \o <<>> = more
    <2>1. "resetFrames" \in Statement /\ "getMap" \in Statement /\ "removeMap" \in Statement
      BY DEF Statement
    <2>2. more \in Seq(Statement)
      BY <2>1, Pieces
    <2>. HIDE DEF more
    <2>. QED  BY <2>1, <2>2, Pieces, ConcatEmptySeq
  <1>2. Begin(c) = i \o <<"resetFrames", "getMap">> /\ Start(c) = Sess(c, Begin(c), 0, NoFrame, a)
    BY StartSess DEF Begin
  <1>3. <<"resetFrames", "getMap">> = p \o w
    <2>1. "resetFrames" \in Statement /\ "getMap" \in Statement
      BY DEF Statement
    <2>2. <<"resetFrames", "getMap">> \in Seq(Statement)
      BY <2>1
    <2>3. <<"resetFrames", "getMap">> \o <<>> = p \o (w \o <<>>)
      BY <1>1, <2>1, PairCons
    <2>. QED  BY <1>1, <2>2, <2>3, ConcatEmptySeq
  <1>4. Leaves(d, Sess(c, i \o (p \o w), 0, NoFrame, a), x) /\ d \in Db
    BY <1>2, <1>3 DEF Leaves
  <1>5. p \o w \in Seq(Statement)
    BY <1>1, ConcatProperties
  <1>6. n.mapSize = d.mapSize
    BY <1>4 DEF Reset, Counted, Db
  <1>. HIDE DEF i, p, w, a, n, more
  <1>7. d.lastVersion < MaxVersion /\ Leaves(Counted(d), Sess(c, p \o w, v, NoFrame, a), x)
    BY <1>4, <1>5, RunIncrement DEF i, Counted
  <1>8. Leaves(n, Sess(c, w, v, NoFrame, a), x)
    BY <1>1, <1>7, RunResetFrames DEF p, n
  <1>9. Leaves(n, Sess(c, more, v, NoFrame, a), x)
    <2>. DEFINE s == Sess(c, <<"getMap">>, v, NoFrame, a)
               q == GetMap(n, s)
               f == NoFrame
    <2>1. s.todo = <<"getMap">> /\ s.cmd = c
      BY DEF Sess
    <2>2. Head(s.todo) = "getMap" /\ s.todo # <<>>
      <3>1. Head(<<"getMap">>) = "getMap" /\ <<"getMap">> # <<>>
        OBVIOUS
      <3>. QED  BY <2>1, <3>1
    <2>3. s = Sess(c, <<"getMap">>, v, f, a) /\ Leaves(n, s, x) /\ n \in Db
      BY <1>8 DEF w, Leaves
    <2>4. q = GoOn(n, s, more)
      BY <2>1 DEF GetMap, more
    <2>. HIDE DEF s
    <2>5. Runs(s)
      BY <2>2, <2>3 DEF Leaves, Runs
    <2>6. q \in Outcome /\ Exec(n, s) = Settle(q)
      BY <2>2, <2>3, <2>5, GetMapCloser DEF Exec, Closer
    <2>7. q = GoOn(n, Sess(c, <<"getMap">>, v, f, a), more)
      BY <2>3, <2>4
    <2>. HIDE DEF q, f
    <2>8. Leaves(n, Sess(c, more, v, f, a), x)
      BY <1>1, <2>3, <2>6, <2>7, RunLastRead
    <2>. QED  BY <2>8 DEF f
  <1>10. CASE d.mapSize[c.floor] = 0
    <2>1. Leaves(n, Sess(c, <<>>, v, NoFrame, a), x)
      BY <1>6, <1>9, <1>10 DEF more
    <2>. QED  BY <1>7, <1>10, <2>1, SessDone DEF n
  <1>11. CASE d.mapSize[c.floor] # 0
    <2>1. more = <<"removeMap">>
      BY <1>6, <1>11 DEF more
    <2>2. Leaves(n, Sess(c, <<"removeMap">> \o <<>>, v, NoFrame, a), x)
      BY <1>1, <1>9, <2>1
    <2>3. Leaves([n EXCEPT !.mapSize[c.floor] = 0], Sess(c, <<>>, v, NoFrame, a), x)
      BY <1>1, <2>2, RunRemoveMap
    <2>. QED  BY <1>7, <1>11, <2>3, SessDone DEF n
  <1>. QED  BY <1>10, <1>11

\* The statements of getNew that read what to send.
Gathering == {"getAll", "getNewer"}

LEMMA RunCollect ==
    ASSUME NEW d, NEW x, NEW c, NEW st \in Gathering, NEW r \in Seq(Statement),
           NEW v, NEW f, NEW a, Leaves(d, Sess(c, <<st>> \o r, v, f, a), x)
    PROVE  \E b : Leaves(d, Sess(c, r, v, f, b), x)
  <1>. DEFINE s == Sess(c, <<st>> \o r, v, f, a)
  <1>1. st \in Statement
    BY DEF Statement, Gathering
  <1>2. s = Sess(c, <<st>> \o r, v, f, a) /\ Leaves(d, s, x)
    OBVIOUS
  <1>. HIDE DEF s
  <1>3. /\ Head(s.todo) = st /\ Runs(s) /\ d \in Db
        /\ s.cmd = c /\ s.frame = f /\ s.read = v
    BY <1>1, <1>2, NextOf
  <1>4. PICK full \in BOOLEAN, sent \in SUBSET Exhibit :
           Exec(d, s) = Settle(Collect(d, s, full, sent))
    <2>1. Live(d) \in SUBSET Exhibit
          /\ {e \in Live(d) : d.version[e] > s.cmd.acquired} \in SUBSET Exhibit
      BY DEF Live
    <2>2. CASE st = "getAll"
      <3>1. Exec(d, s) = Settle(Collect(d, s, TRUE, Live(d)))
        BY <1>3, <2>2 DEF Exec, GetAll
      <3>. QED  BY <2>1, <3>1
    <2>3. CASE st = "getNewer"
      <3>1. Exec(d, s) =
               Settle(Collect(d, s, FALSE, {e \in Live(d) : d.version[e] > s.cmd.acquired}))
        BY <1>3, <2>3 DEF Exec, GetNewer
      <3>. QED  BY <2>1, <3>1
    <2>. QED  BY <2>2, <2>3 DEF Gathering
  <1>. DEFINE b == [full |-> full, version |-> NoVersion,
                   items |-> [e \in sent |-> <<d.frame[e], d.rgb[e]>>]]
  <1>5. Collect(d, s, full, sent) = Go(d, [s EXCEPT !.answer = b])
    BY DEF Collect
  <1>. HIDE DEF b
  <1>6. Go(d, [s EXCEPT !.answer = b]) \in Outcome
    BY <1>3, <1>5, CollectCloser DEF Closer
  <1>7. Leaves(d, Sess(c, r, v, f, b), x)
    BY <1>1, <1>2, <1>4, <1>5, <1>6, RunAnswer
  <1>. QED  BY <1>7

LEMMA RunGetVersion ==
    ASSUME NEW d, NEW x, NEW c, NEW v, NEW f, NEW a,
           Leaves(d, Sess(c, <<"getVersion">>, v, f, a), x)
    PROVE  x = d
  <1>. DEFINE r == <<>>
             s == Sess(c, <<"getVersion">> \o r, v, f, a)
             b == [s.answer EXCEPT !.version = d.lastVersion]
  <1>1. "getVersion" \in Statement /\ r \in Seq(Statement)
        /\ <<"getVersion">> = <<"getVersion">> \o r
    <2>1. "getVersion" \in Statement
      BY DEF Statement
    <2>. QED  BY <2>1, LastOne
  <1>2. s = Sess(c, <<"getVersion">> \o r, v, f, a) /\ Leaves(d, s, x)
    BY <1>1
  <1>. HIDE DEF s, r
  <1>3. /\ Head(s.todo) = "getVersion" /\ Runs(s) /\ d \in Db
        /\ s.cmd = c /\ s.frame = f /\ s.read = v
    BY <1>1, <1>2, NextOf
  <1>4. GetVersion(d, s) = Go(d, [s EXCEPT !.answer = b])
    BY DEF GetVersion
  <1>. HIDE DEF b
  <1>5. Exec(d, s) = Settle(Go(d, [s EXCEPT !.answer = b]))
    BY <1>3, <1>4 DEF Exec
  <1>6. Go(d, [s EXCEPT !.answer = b]) \in Outcome
    BY <1>3, <1>4, GetVersionCloser DEF Closer
  <1>7. Leaves(d, Sess(c, r, v, f, b), x)
    BY <1>1, <1>2, <1>5, <1>6, RunAnswer
  <1>. QED  BY <1>7, SessDone DEF r

LEMMA GetNewEffect ==
    ASSUME NEW c \in Command, c.op = "getNew", NEW d, NEW x, Leaves(d, Start(c), x)
    PROVE  x = d
  <1>. DEFINE w == <<"getVersion">>
             a == NoAnswer
             f == NoFrame
             st == IF c.acquired = NoVersion THEN "getAll" ELSE "getLastDeleted"
  <1>1. w \in Seq(Statement) /\ "getVersion" \in Statement /\ "getLastDeletedAgain" \in Statement
        /\ "getNewer" \in Statement /\ "getLastDeleted" \in Statement /\ "getAll" \in Statement
    <2>1. "getVersion" \in Statement
      BY DEF Statement
    <2>. QED  BY <2>1, Pieces DEF Statement
  <1>2. Begin(c) = <<st>> \o w
    <2>1. Begin(c) = <<st, "getVersion">>
      BY DEF Begin
    <2>2. <<st, "getVersion">> \in Seq(Statement) /\ st \in Statement
          /\ w \o <<>> = w /\ <<>> \in Seq(Statement)
      BY <1>1, ConcatEmptySeq, Pieces
    <2>. HIDE DEF st
    <2>3. <<st, "getVersion">> \o <<>> = <<st>> \o (w \o <<>>)
      BY <1>1, <2>2, PairCons
    <2>. QED  BY <2>1, <2>2, <2>3, ConcatEmptySeq
  <1>3. Leaves(d, Sess(c, <<st>> \o w, 0, f, a), x) /\ d \in Db
    BY <1>2, StartSess DEF Leaves
  <1>4. \A b : Leaves(d, Sess(c, w, 0, f, b), x) => x = d
    BY RunGetVersion
  <1>5. /\ Leaves(d, Sess(c, <<"getAll">> \o w, 0, f, a), x) => x = d
        /\ Leaves(d, Sess(c, <<"getNewer">> \o w, 0, f, a), x) => x = d
    <2>1. ASSUME NEW t \in Gathering, Leaves(d, Sess(c, <<t>> \o w, 0, f, a), x)
          PROVE  x = d
      <3>. HIDE DEF w, f, a
      <3>1. PICK b : Leaves(d, Sess(c, w, 0, f, b), x)
        BY <1>1, <2>1, RunCollect
      <3>. QED  BY <1>4, <3>1
    <2>. QED  BY <2>1 DEF Gathering
  <1>6. CASE c.acquired = NoVersion
    <2>1. st = "getAll"
      BY <1>6
    <2>. HIDE DEF st, w, f, a
    <2>. QED  BY <1>3, <1>5, <2>1
  <1>7. CASE c.acquired # NoVersion
    <2>. DEFINE s == Sess(c, <<"getLastDeleted">> \o w, 0, f, a)
               more == IF c.acquired < d.lastDeleted THEN <<"getAll">>
                       ELSE <<"getLastDeletedAgain", "getNewer">>
               q == GetLastDeleted(d, s)
    <2>1. s = Sess(c, <<"getLastDeleted">> \o w, 0, f, a) /\ Leaves(d, s, x) /\ s.cmd = c
      BY <1>3, <1>7 DEF Sess
    <2>. HIDE DEF s, w, f, a
    <2>2. Head(s.todo) = "getLastDeleted" /\ Runs(s)
      BY <1>1, <2>1, NextOf
    <2>3. q \in Outcome /\ Exec(d, s) = Settle(q)
      BY <1>3, <2>2, GetLastDeletedCloser DEF Exec, Closer
    <2>4. q = GoOn(d, Sess(c, <<"getLastDeleted">> \o w, 0, f, a), more)
      BY <2>1 DEF GetLastDeleted
    <2>5. more \in Seq(Statement)
      BY <1>1
    <2>. HIDE DEF q, more
    <2>6. Leaves(d, Sess(c, more \o w, 0, f, a), x)
      BY <1>1, <2>1, <2>3, <2>4, <2>5, RunRead
    <2>7. CASE more = <<"getAll">>
      BY <1>5, <2>6, <2>7
    <2>8. CASE more = <<"getLastDeletedAgain", "getNewer">>
      <3>. DEFINE y == <<"getNewer">> \o w
      <3>1. more \o w = <<"getLastDeletedAgain">> \o y /\ y \in Seq(Statement)
        BY <1>1, <2>8, PairCons, Cons
      <3>. DEFINE t == Sess(c, <<"getLastDeletedAgain">> \o y, 0, f, a)
                 u == 0
      <3>2. t = Sess(c, <<"getLastDeletedAgain">> \o y, u, f, a) /\ Leaves(d, t, x)
        BY <2>6, <3>1
      <3>. HIDE DEF t, y, u
      <3>3. Head(t.todo) = "getLastDeletedAgain" /\ Runs(t)
        BY <1>1, <3>1, <3>2, NextOf
      <3>4. Exec(d, t) = Settle(Go(d, t)) /\ Go(d, t) \in Outcome
        BY <1>3, <3>3, GoCloser DEF Exec, Closer
      <3>5. Leaves(d, Sess(c, y, u, f, a), x)
        BY <1>1, <3>1, <3>2, <3>4, RunGo
      <3>. QED  BY <1>5, <3>5 DEF y, u
    <2>. QED  BY <2>7, <2>8 DEF more
  <1>. QED  BY <1>6, <1>7

-----------------------------------------------------------------------------
(* The catalogue behind the commands *)

LEMMA CountedIs ==
    ASSUME NEW d \in Db
    PROVE  LET n == Counted(d)
           IN  /\ n.lastVersion = d.lastVersion + 1
               /\ n.status = d.status /\ n.version = d.version /\ n.frame = d.frame
               /\ n.rgb = d.rgb /\ n.lastDeleted = d.lastDeleted /\ n.mapSize = d.mapSize
  BY DEF Counted, Db

LEMMA InsertedIs ==
    ASSUME NEW d \in Db, NEW e \in Exhibit, NEW c
    PROVE  LET n == Inserted(d, e, c)
           IN  /\ n.status = [d.status EXCEPT ![e] = "live"]
               /\ n.version = [d.version EXCEPT ![e] = d.lastVersion + 1]
               /\ n.frame = [d.frame EXCEPT ![e] = c.frame]
               /\ n.rgb = [d.rgb EXCEPT ![e] = c.colour]
               /\ n.lastVersion = d.lastVersion + 1
               /\ n.lastDeleted = d.lastDeleted
               /\ n.mapSize = d.mapSize
  BY DEF Inserted, Counted, Db

LEMMA CreateMaps ==
    ASSUME NEW c \in Command, c.op = "create", Leaves(db, Start(c), db'),
           UNCHANGED FloorChanging
    PROVE  Catalogue!ServerNext
  <1>1. db \in Db
    BY DEF Leaves
  <1>2. /\ \A y \in Live(db) : NameOf[y] # c.name
        /\ c.frame # NoFrame => c.frame.extent =< db.mapSize[c.frame.floor]
        /\ db.lastVersion < MaxVersion
    BY CreateEffect
  <1>3. PICK e \in Exhibit : /\ db.status[e] = "unused" /\ NameOf[e] = c.name
                             /\ db' = Inserted(db, e, c)
    BY CreateEffect
  <1>4. c.colour \in Colour /\ c.frame \in Catalogue!MaybeFrame
    BY Arguments DEF MaybeFrame, Frame, Catalogue!MaybeFrame, Catalogue!Frame
  <1>5. Catalogue!NameFree(e) /\ Catalogue!FrameFits(c.frame)
    BY <1>2, <1>3 DEF Catalogue!NameFree, Catalogue!FrameFits, Catalogue!Live, Live
  <1>6. /\ db'.status = [db.status EXCEPT ![e] = "live"]
        /\ db'.version = [db.version EXCEPT ![e] = db.lastVersion + 1]
        /\ db'.frame = [db.frame EXCEPT ![e] = c.frame]
        /\ db'.rgb = [db.rgb EXCEPT ![e] = c.colour]
        /\ db'.lastVersion = db.lastVersion + 1
        /\ db'.lastDeleted = db.lastDeleted
        /\ db'.mapSize = db.mapSize
    BY <1>1, <1>3, InsertedIs
  <1>7. Catalogue!Create(e, c.colour, c.frame)
    BY <1>2, <1>3, <1>5, <1>6 DEF Catalogue!Create, Catalogue!NextVersion, Catalogue!mapVars
  <1>. QED  BY <1>4, <1>7 DEF Catalogue!ServerNext

LEMMA FramedIs ==
    ASSUME NEW d \in Db, NEW e \in Exhibit, NEW g
    PROVE  LET n == Framed(d, e, g)
           IN  /\ n.status = d.status
               /\ n.version = [d.version EXCEPT ![e] = d.lastVersion + 1]
               /\ n.frame = [d.frame EXCEPT ![e] = g]
               /\ n.rgb = d.rgb
               /\ n.lastVersion = d.lastVersion + 1
               /\ n.lastDeleted = d.lastDeleted
               /\ n.mapSize = d.mapSize
  BY DEF Framed, Counted, Db

LEMMA PaintedIs ==
    ASSUME NEW d \in Db, NEW e \in Exhibit, NEW colour \in Colour
    PROVE  LET n == [d EXCEPT !.rgb[e] = colour]
           IN  /\ n \in Db
               /\ n.status = d.status /\ n.version = d.version /\ n.frame = d.frame
               /\ n.rgb = [d.rgb EXCEPT ![e] = colour]
               /\ n.lastVersion = d.lastVersion /\ n.lastDeleted = d.lastDeleted
               /\ n.mapSize = d.mapSize
  BY DEF Db

LEMMA MoveMaps ==
    ASSUME NEW c \in Command, c.op = "setFrame", Leaves(db, Start(c), db'),
           UNCHANGED FloorChanging
    PROVE  Catalogue!ServerNext
  <1>. DEFINE e == c.id
             old == db.frame[e]
             new == [floor |-> old.floor, extent |-> c.extent]
  <1>1. db \in Db /\ c.extent \in Extent
    BY Arguments DEF Leaves
  <1>2. /\ e \in Live(db)
        /\ old # NoFrame
        /\ db.lastVersion < MaxVersion
        /\ c.extent =< db.mapSize[old.floor]
        /\ db' = Framed(db, e, new)
    BY MoveEffect
  <1>3. e \in Exhibit /\ db.status[e] = "live"
    BY <1>2 DEF Live
  <1>4. [old EXCEPT !.extent = c.extent] = new /\ new # NoFrame
        /\ new.extent = c.extent /\ new.floor = old.floor
    <2>1. old \in Frame
      BY <1>1, <1>2, <1>3 DEF Db, MaybeFrame
    <2>. QED  BY <1>1, <2>1, CommandsAssumption DEF Frame
  <1>. HIDE DEF new
  <1>5. /\ db'.status = db.status
        /\ db'.version = [db.version EXCEPT ![e] = db.lastVersion + 1]
        /\ db'.frame = [db.frame EXCEPT ![e] = new]
        /\ db'.rgb = db.rgb
        /\ db'.lastVersion = db.lastVersion + 1
        /\ db'.lastDeleted = db.lastDeleted
        /\ db'.mapSize = db.mapSize
    BY <1>1, <1>2, <1>3, FramedIs
  <1>6. Catalogue!FrameFits(new)
    BY <1>2, <1>4 DEF Catalogue!FrameFits
  <1>7. Catalogue!Move(e, c.extent)
    BY <1>2, <1>3, <1>4, <1>5, <1>6 DEF Catalogue!Move, Catalogue!SetFrame,
       Catalogue!NextVersion, Catalogue!mapVars
  <1>. QED  BY <1>1, <1>3, <1>7 DEF Catalogue!ServerNext

LEMMA UpdateMaps ==
    ASSUME NEW c \in Command, c.op = "update", Leaves(db, Start(c), db'),
           UNCHANGED FloorChanging
    PROVE  Catalogue!ServerNext
  <1>. DEFINE e == c.id
             m == [db EXCEPT !.rgb[e] = c.colour]
  <1>1. db \in Db /\ c.colour \in Colour /\ c.frame \in Catalogue!MaybeFrame
    BY Arguments DEF Leaves, MaybeFrame, Frame, Catalogue!MaybeFrame, Catalogue!Frame
  <1>2. /\ e \in Live(db)
        /\ SameFloor(db, c) => db' = m
        /\ ~SameFloor(db, c) => /\ c.frame # NoFrame => c.frame.extent =< db.mapSize[c.frame.floor]
                                /\ db.lastVersion < MaxVersion
                                /\ db' = Framed(m, e, c.frame)
    BY UpdateEffect
  <1>3. e \in Exhibit /\ db.status[e] = "live"
    BY <1>2 DEF Live
  <1>4. /\ m \in Db
        /\ m.status = db.status /\ m.version = db.version /\ m.frame = db.frame
        /\ m.rgb = [db.rgb EXCEPT ![e] = c.colour]
        /\ m.lastVersion = db.lastVersion /\ m.lastDeleted = db.lastDeleted
        /\ m.mapSize = db.mapSize
    BY <1>1, <1>3, PaintedIs
  <1>. HIDE DEF m
  <1>5. Catalogue!SameFloor(e, c.frame) <=> SameFloor(db, c)
    BY DEF Catalogue!SameFloor, SameFloor
  <1>6. Catalogue!Update(e, c.colour, c.frame)
    <2>1. CASE SameFloor(db, c)
      BY <1>2, <1>3, <1>4, <1>5, <2>1 DEF Catalogue!Update, Catalogue!mapVars
    <2>2. CASE ~SameFloor(db, c)
      <3>1. /\ db'.status = db.status
            /\ db'.version = [db.version EXCEPT ![e] = db.lastVersion + 1]
            /\ db'.frame = [db.frame EXCEPT ![e] = c.frame]
            /\ db'.rgb = [db.rgb EXCEPT ![e] = c.colour]
            /\ db'.lastVersion = db.lastVersion + 1
            /\ db'.lastDeleted = db.lastDeleted
            /\ db'.mapSize = db.mapSize
        BY <1>2, <1>3, <1>4, <2>2, FramedIs
      <3>2. Catalogue!FrameFits(c.frame)
        BY <1>2, <2>2 DEF Catalogue!FrameFits
      <3>. QED  BY <1>2, <1>3, <1>5, <2>2, <3>1, <3>2
                DEF Catalogue!Update, Catalogue!SetFrame, Catalogue!NextVersion, Catalogue!mapVars
    <2>. QED  BY <2>1, <2>2
  <1>. QED  BY <1>1, <1>3, <1>6 DEF Catalogue!ServerNext

LEMMA RemoveMaps ==
    ASSUME NEW c \in Command, c.op = "remove", Leaves(db, Start(c), db'),
           UNCHANGED FloorChanging
    PROVE  Catalogue!ServerNext
  <1>. DEFINE e == c.id
             v == db.lastVersion + 1
  <1>1. db \in Db
    BY DEF Leaves
  <1>2. /\ e \in Live(db)
        /\ db.lastVersion < MaxVersion
        /\ db' = [Counted([db EXCEPT !.status[e] = "removed"]) EXCEPT !.lastDeleted = v]
    BY RemoveEffect
  <1>3. e \in Exhibit /\ db.status[e] = "live"
    BY <1>2 DEF Live
  <1>4. /\ db'.status = [db.status EXCEPT ![e] = "removed"]
        /\ db'.version = db.version /\ db'.frame = db.frame /\ db'.rgb = db.rgb
        /\ db'.lastVersion = v /\ db'.lastDeleted = v
        /\ db'.mapSize = db.mapSize
    BY <1>1, <1>2, <1>3 DEF Counted, Db
  <1>5. Catalogue!Remove(e)
    BY <1>2, <1>3, <1>4 DEF Catalogue!Remove, Catalogue!NextVersion, Catalogue!mapVars
  <1>. QED  BY <1>3, <1>5 DEF Catalogue!ServerNext

\* removeOldData returns: remove is over with it, set has its map to make.
LEMMA RemoveOldMaps ==
    ASSUME NEW f \in Floor, Leaves(db, Start(RemoveData(f)), db'),
           FloorChanging = NoFloor, FloorChanging' \in {NoFloor, f}
    PROVE  Catalogue!ServerNext
  <1>. DEFINE c == RemoveData(f)
             v == db.lastVersion + 1
             n == Reset(Counted(db), f, v)
             m == [n EXCEPT !.mapSize[f] = 0]
  <1>1. c \in Command /\ c.op = "removeOldData" /\ c.floor = f /\ db \in Db
    BY DEF Command, RemoveData, Leaves
  <1>2. /\ db.lastVersion < MaxVersion
        /\ db' = IF db.mapSize[f] = 0 THEN n ELSE m
    <2>. HIDE DEF c
    <2>. QED  BY <1>1, RemoveOldEffect DEF c
  <1>3. /\ n.status = db.status /\ n.rgb = db.rgb /\ n.lastVersion = v
        /\ n.lastDeleted = db.lastDeleted /\ n.mapSize = db.mapSize
        /\ n.version = [e \in Exhibit |-> IF db.frame[e] # NoFrame /\ db.frame[e].floor = f
                                          THEN v ELSE db.version[e]]
        /\ n.frame = [e \in Exhibit |-> IF db.frame[e] # NoFrame /\ db.frame[e].floor = f
                                        THEN NoFrame ELSE db.frame[e]]
    BY <1>1 DEF Reset, Counted, Db
  <1>4. /\ m.status = n.status /\ m.rgb = n.rgb /\ m.lastVersion = n.lastVersion
        /\ m.lastDeleted = n.lastDeleted /\ m.version = n.version /\ m.frame = n.frame
        /\ m.mapSize = [db.mapSize EXCEPT ![f] = 0]
    BY <1>1 DEF Reset, Counted, Db
  <1>5. db.mapSize[f] = 0 => db.mapSize = [db.mapSize EXCEPT ![f] = 0]
    BY <1>1 DEF Db
  <1>. HIDE DEF n, m
  <1>6. /\ db'.status = db.status /\ db'.rgb = db.rgb /\ db'.lastVersion = v
        /\ db'.lastDeleted = db.lastDeleted
        /\ db'.mapSize = [db.mapSize EXCEPT ![f] = 0]
        /\ db'.version = n.version /\ db'.frame = n.frame
    BY <1>2, <1>3, <1>4, <1>5
  <1>7. Catalogue!ResetFrames(f)
    BY <1>2, <1>3, <1>6 DEF Catalogue!ResetFrames, Catalogue!NextVersion
  <1>8. Catalogue!RemoveOldData(f)
    BY <1>6, <1>7 DEF Catalogue!RemoveOldData
  <1>9. Catalogue!RemoveMap(f) \/ Catalogue!BeginSetMap(f)
    BY <1>8 DEF Catalogue!RemoveMap, Catalogue!BeginSetMap
  <1>. QED  BY <1>9 DEF Catalogue!ServerNext

LEMMA SaveMaps ==
    ASSUME NEW f \in Floor, NEW size \in Extent, Leaves(db, Start(SaveMap(f, size)), db'),
           FloorChanging = f, FloorChanging' = NoFloor
    PROVE  Catalogue!ServerNext
  <1>. DEFINE c == SaveMap(f, size)
  <1>1. c \in Command /\ c.op = "saveMap" /\ c.floor = f /\ c.size = size /\ db \in Db
    BY DEF Command, SaveMap, Leaves
  <1>2. db' = [[db EXCEPT !.mapSize[f] = 0] EXCEPT !.mapSize[f] = size]
    <2>. HIDE DEF c
    <2>. QED  BY <1>1, SaveMapEffect DEF c
  <1>3. /\ db'.status = db.status /\ db'.version = db.version /\ db'.frame = db.frame
        /\ db'.rgb = db.rgb /\ db'.lastVersion = db.lastVersion
        /\ db'.lastDeleted = db.lastDeleted
        /\ db'.mapSize = [db.mapSize EXCEPT ![f] = size]
    BY <1>1, <1>2 DEF Db
  <1>4. Catalogue!FinishSetMap(size)
    BY <1>3, CommandsAssumption DEF Catalogue!FinishSetMap, Catalogue!rowVars
  <1>. QED  BY <1>4 DEF Catalogue!ServerNext

-----------------------------------------------------------------------------
(* The floor whose map is under way, step by step *)

\* The worker's command has returned and is committed.
Done(w) == pc[w] \in {"unlock", "answer"} /\ Returned(session[w])

LEMMA FloorIs ==
    FloorChanging =
       IF change = NoChange THEN NoFloor
       ELSE IF \/ change.next = "render"
               \/ change.next = "set" /\ Done(change.worker)
               \/ /\ change.next = "clear" /\ ~Done(change.worker)
                  /\ cmd[change.worker] # RemoveData(change.floor)
            THEN change.floor ELSE NoFloor
  BY DEF FloorChanging, Done

\* No worker's command is committed now that was not, or the other way round.
LEMMA FloorSame ==
    ASSUME FlagHeld, UNCHANGED change,
           \A v \in Worker : Changing(v) => /\ Done(v)' <=> Done(v)
                                            /\ cmd'[v] = cmd[v]
    PROVE  UNCHANGED FloorChanging
  <1>1. CASE change = NoChange
    <2>1. FloorChanging' = NoFloor
      BY <1>1 DEF FloorChanging
    <2>. QED  BY <1>1, <2>1, FloorIs
  <1>2. CASE change # NoChange
    <2>1. PICK v \in Worker : change.worker = v
      BY <1>2 DEF FlagHeld, MapChange
    <2>2. /\ Done(v)' <=> Done(v)
          /\ cmd'[v] = cmd[v]
      BY <1>2, <2>1 DEF Changing
    <2>3. FloorChanging' =
             IF \/ change.next = "render"
                \/ change.next = "set" /\ Done(v)'
                \/ /\ change.next = "clear" /\ ~Done(v)'
                   /\ cmd'[v] # RemoveData(change.floor)
             THEN change.floor ELSE NoFloor
      BY <1>2, <2>1 DEF FloorChanging, Done
    <2>. QED  BY <1>2, <2>1, <2>2, <2>3, FloorIs
  <1>. QED  BY <1>1, <1>2

\* The contents stay, and a map that was under way is, or is given up.
LEMMA Quiet ==
    ASSUME UNCHANGED db, UNCHANGED FloorChanging \/ FloorChanging' = NoFloor
    PROVE  [Catalogue!ServerNext]_(Catalogue!serverVars)
  <1>1. CASE UNCHANGED FloorChanging
    BY <1>1 DEF Catalogue!serverVars, Catalogue!rowVars, Catalogue!mapVars
  <1>2. CASE FloorChanging # NoFloor /\ FloorChanging' = NoFloor
    <2>1. Catalogue!FailSetMap
      BY <1>2 DEF Catalogue!FailSetMap, Catalogue!rowVars
    <2>. QED  BY <2>1 DEF Catalogue!ServerNext
  <1>. QED  BY <1>1, <1>2

\* A commit is what module Exhibits says of the command.
LEMMA CommitMaps ==
    ASSUME CommandsInv, NEW w \in Worker, Tx!Commit(w), UNCHANGED change
    PROVE  [Catalogue!ServerNext]_(Catalogue!serverVars)
  <1>. DEFINE c == cmd[w]
  <1>1. /\ pc[w] = "run" /\ Returned(session[w]) /\ db' = work
        /\ pc' = [pc EXCEPT ![w] = "unlock"] /\ UNCHANGED <<cmd, session>>
    BY DEF Tx!Commit, Tx!Goto
  <1>2. P!TxTypeOK /\ FlagHeld /\ db \in Db /\ work \in Db
    BY DEF CommandsInv, P!TxInv, P!TxTypeOK
  <1>3. c \in Command /\ session[w] \in Session
    BY <1>1, <1>2 DEF P!TxTypeOK
  <1>4. Leaves(db, Start(c), db')
    <2>1. Result(work, session[w]) = Result(db, Start(c))
      BY <1>1 DEF CommandsInv, P!TxInv, P!Undisturbed
    <2>2. Result(work, session[w]) = [db |-> work, session |-> session[w]]
      BY <1>1, <1>2, <1>3, ResultEnds DEF Returned
    <2>3. Start(c) \in Session
      BY <1>3, StartTyped
    <2>. QED  BY <1>1, <1>2, <2>1, <2>2, <2>3 DEF Leaves
  <1>5. \A v \in Worker \ {w} : /\ Done(v)' <=> Done(v)
                                /\ cmd'[v] = cmd[v]
    BY <1>1, <1>2 DEF Done, P!TxTypeOK
  <1>6. ~Done(w) /\ Done(w)'
    BY <1>1, <1>2 DEF Done, P!TxTypeOK
  <1>7. CASE ~Changing(w)
    <2>1. UNCHANGED FloorChanging
      BY <1>2, <1>5, <1>7, FloorSame
    <2>2. ~OfMaps(c)
      BY <1>2, <1>3, <1>7, CommandsAssumption DEF FlagHeld
    <2>3. c.op \in {"create", "update", "setFrame", "remove", "getNew"}
      BY <1>3, <2>2 DEF Command, ExhibitCommand, RemoveData, SaveMap, OfMaps
    <2>4. CASE c.op = "getNew"
      <3>1. db' = db
        BY <1>3, <1>4, <2>4, GetNewEffect
      <3>. QED  BY <2>1, <3>1, Quiet
    <2>. HIDE DEF c
    <2>. QED  BY <1>3, <1>4, <2>1, <2>3, <2>4, CreateMaps, UpdateMaps, MoveMaps, RemoveMaps
  <1>8. CASE Changing(w)
    <2>. DEFINE f == change.floor
    <2>1. change # NoChange /\ change.worker = w /\ f \in Floor /\ f # NoFloor
      BY <1>2, <1>8, CommandsAssumption DEF Changing, FlagHeld, MapChange
    <2>2. FloorChanging' =
             IF \/ change.next = "render"
                \/ change.next = "set" /\ Done(w)'
                \/ change.next = "clear" /\ ~Done(w)' /\ c # RemoveData(f)
             THEN f ELSE NoFloor
      BY <1>1, <2>1 DEF FloorChanging, Done
    <2>3. FloorChanging' \in {f, NoFloor}
      BY <2>2
    <2>4. CASE c = RemoveData(f)
      <3>1. change.next # "render"
        BY <1>1, <1>2, <2>1 DEF FlagHeld
      <3>2. FloorChanging = NoFloor
        BY <1>6, <2>1, <2>4, <3>1, FloorIs
      <3>. HIDE DEF f, c
      <3>. QED  BY <1>4, <2>1, <2>3, <2>4, <3>2, RemoveOldMaps
    <2>5. CASE c # RemoveData(f)
      <3>1. change.next = "clear"
        BY <1>1, <1>2, <2>1, <2>5 DEF FlagHeld, MapChange
      <3>2. PICK n \in Extent : c = SaveMap(f, n)
        BY <1>2, <2>1, <2>5, <3>1 DEF FlagHeld
      <3>3. FloorChanging = f
        BY <1>6, <2>1, <2>5, <3>1, FloorIs
      <3>4. FloorChanging' = NoFloor
        BY <1>6, <2>2, <3>1
      <3>. HIDE DEF f, c
      <3>. QED  BY <1>4, <2>1, <3>2, <3>3, <3>4, SaveMaps
    <2>. QED  BY <2>4, <2>5
  <1>. QED  BY <1>7, <1>8

\* The other steps of a worker leave the contents alone; only its own map can
\* be given up by them.
LEMMA WorkerMaps ==
    ASSUME CommandsInv, NEW w \in Worker, WorkerStep(w)
    PROVE  [Catalogue!ServerNext]_(Catalogue!serverVars)
  <1>1. /\ P!TxTypeOK /\ FlagHeld /\ pc \in [Worker -> P!Step]
        /\ cmd \in [Worker -> Command \union {NoCommand}]
        /\ session \in [Worker -> Session \union {NoSession}]
    BY DEF CommandsInv, P!TxInv, P!TxTypeOK
  <1>2. ASSUME UNCHANGED <<change, cmd, db>>, NEW step, pc' = [pc EXCEPT ![w] = step],
               \A v \in Worker \ {w} : session'[v] = session[v],
               Done(w)' <=> Done(w)
        PROVE  [Catalogue!ServerNext]_(Catalogue!serverVars)
    <2>1. \A v \in Worker \ {w} : Done(v)' <=> Done(v)
      BY <1>1, <1>2 DEF Done
    <2>2. \A v \in Worker : (Done(v)' <=> Done(v)) /\ cmd'[v] = cmd[v]
      BY <1>2, <2>1
    <2>. QED  BY <1>1, <1>2, <2>2, FloorSame, Quiet
  <1>3. CASE Tx!Lock(w) /\ UNCHANGED change
    <2>1. Done(w)' <=> Done(w)
      BY <1>1, <1>3 DEF Tx!Lock, Tx!Goto, Done
    <2>. QED  BY <1>2, <1>3, <2>1 DEF Tx!Lock, Tx!Goto
  <1>4. CASE Tx!Statement(w) /\ UNCHANGED change
    <2>1. UNCHANGED <<change, cmd, db, pc>> /\ pc[w] = "run"
          /\ session' = [session EXCEPT ![w] = Exec(work, session[w]).session]
      BY <1>4 DEF Tx!Statement
    <2>2. \A v \in Worker : (Done(v)' <=> Done(v)) /\ cmd'[v] = cmd[v]
      BY <1>1, <2>1 DEF Done
    <2>. QED  BY <1>1, <1>4, <2>1, <2>2, FloorSame, Quiet
  <1>5. CASE Tx!FailStatement(w) /\ UNCHANGED change
    <2>1. /\ UNCHANGED <<change, cmd, db>> /\ pc[w] = "run"
          /\ pc' = [pc EXCEPT ![w] = "unlock"]
          /\ session' = [session EXCEPT ![w] = Failed]
      BY <1>5 DEF Tx!FailStatement, Tx!Goto
    <2>2. ~Returned(Failed)
      BY DEF Returned, Failed
    <2>3. ~Done(w) /\ ~Done(w)'
      BY <1>1, <2>1, <2>2 DEF Done
    <2>4. \A v \in Worker \ {w} : session'[v] = session[v]
      BY <1>1, <2>1
    <2>. QED  BY <1>2, <2>1, <2>3, <2>4
  <1>6. CASE Tx!Commit(w) /\ UNCHANGED change
    BY <1>6, CommitMaps
  <1>7. CASE Tx!Cancel(w) /\ UNCHANGED change
    <2>1. /\ UNCHANGED <<change, cmd, db, session>> /\ pc[w] = "run" /\ Threw(session[w])
          /\ pc' = [pc EXCEPT ![w] = "unlock"]
      BY <1>7 DEF Tx!Cancel, Tx!Goto
    <2>2. ~Done(w) /\ ~Done(w)'
      BY <1>1, <2>1 DEF Done, Returned, Threw
    <2>. QED  BY <1>2, <2>1, <2>2
  <1>8. CASE Tx!Unlock(w) /\ UNCHANGED change
    <2>1. /\ UNCHANGED <<change, cmd, db, session>> /\ pc[w] = "unlock"
          /\ pc' = [pc EXCEPT ![w] = "answer"]
      BY <1>8 DEF Tx!Unlock, Tx!Goto
    <2>2. Done(w)' <=> Done(w)
      BY <1>1, <2>1 DEF Done
    <2>. QED  BY <1>2, <2>1, <2>2
  <1>9. CASE Answered(w)
    <2>1. /\ UNCHANGED db /\ pc[w] = "answer"
          /\ pc' = [pc EXCEPT ![w] = "idle"]
          /\ cmd' = [cmd EXCEPT ![w] = NoCommand]
          /\ session' = [session EXCEPT ![w] = NoSession]
          /\ IF ~Changing(w) THEN UNCHANGED change
             ELSE IF change.next = "set" /\ Returned(session[w])
                  THEN change' = [change EXCEPT !.next = "render"]
                  ELSE change' = NoChange
      BY <1>9 DEF Answered, Tx!Answer, Tx!Goto
    <2>2. CASE ~Changing(w)
      <3>1. \A v \in Worker : Changing(v) => (Done(v)' <=> Done(v)) /\ cmd'[v] = cmd[v]
        BY <1>1, <2>1, <2>2 DEF Done
      <3>. QED  BY <1>1, <2>1, <2>2, <3>1, FloorSame, Quiet
    <2>3. CASE Changing(w) /\ change' = NoChange
      <3>1. FloorChanging' = NoFloor
        BY <2>3 DEF FloorChanging
      <3>. QED  BY <2>1, <3>1, Quiet
    <2>4. CASE Changing(w) /\ change.next = "set" /\ Returned(session[w])
               /\ change' = [change EXCEPT !.next = "render"]
      <3>1. change # NoChange /\ change.worker = w /\ change \in MapChange
        BY <1>1, <2>4 DEF Changing, FlagHeld
      <3>2. change' \in MapChange /\ change'.next = "render" /\ change'.floor = change.floor
        BY <2>4, <3>1 DEF MapChange
      <3>3. change' # NoChange
        BY <3>2, CommandsAssumption DEF MapChange
      <3>4. FloorChanging' = change.floor
        BY <3>2, <3>3 DEF FloorChanging
      <3>5. FloorChanging = change.floor
        BY <2>1, <2>4, <3>1, FloorIs DEF Done
      <3>. QED  BY <2>1, <3>4, <3>5, Quiet
    <2>. QED  BY <2>1, <2>2, <2>3, <2>4
  <1>. QED  BY <1>3, <1>4, <1>5, <1>6, <1>7, <1>8, <1>9 DEF WorkerStep, Tx!Locked

\* A step of the workers is a command of module Exhibits, or nothing there.
LEMMA StepMaps ==
    ASSUME CommandsInv, [Next]_vars
    PROVE  [Catalogue!ServerNext]_(Catalogue!serverVars)
  <1>1. /\ P!TxTypeOK /\ FlagHeld /\ pc \in [Worker -> P!Step]
        /\ cmd \in [Worker -> Command \union {NoCommand}]
        /\ session \in [Worker -> Session \union {NoSession}]
    BY DEF CommandsInv, P!TxInv, P!TxTypeOK
  <1>2. ASSUME NEW w \in Worker, ExhibitRequest(w)
        PROVE  [Catalogue!ServerNext]_(Catalogue!serverVars)
    <2>1. PICK c \in ExhibitCommand : Tx!Request(w, c)
      BY <1>2 DEF ExhibitRequest
    <2>2. /\ UNCHANGED <<db, change>> /\ ~Changing(w)
          /\ pc' = [pc EXCEPT ![w] = "lock"] /\ cmd' = [cmd EXCEPT ![w] = c]
          /\ session' = [session EXCEPT ![w] = Start(c)]
      BY <1>2, <2>1 DEF ExhibitRequest, Tx!Request, Tx!Goto
    <2>3. \A v \in Worker : Changing(v) => (Done(v)' <=> Done(v)) /\ cmd'[v] = cmd[v]
      BY <1>1, <2>2 DEF Done
    <2>. QED  BY <1>1, <2>2, <2>3, FloorSame, Quiet
  <1>3. ASSUME NEW w \in Worker, NEW f \in Floor, NEW next \in {"clear", "set"},
               MapRequest(w, f, next)
        PROVE  [Catalogue!ServerNext]_(Catalogue!serverVars)
    <2>1. /\ UNCHANGED db /\ change' = [worker |-> w, floor |-> f, next |-> next]
          /\ pc' = [pc EXCEPT ![w] = "lock"] /\ cmd' = [cmd EXCEPT ![w] = RemoveData(f)]
      BY <1>3 DEF MapRequest, Tx!Request, Tx!Goto
    <2>2. change'.worker = w /\ change'.floor = f /\ change'.next = next
      BY <2>1
    <2>3. pc'[w] = "lock" /\ cmd'[w] = RemoveData(f)
      BY <1>1, <2>1
    <2>4. FloorChanging' = NoFloor
      BY <2>2, <2>3 DEF FloorChanging
    <2>. QED  BY <2>1, <2>4, Quiet
  <1>4. ASSUME NEW w \in Worker, NEW n \in Extent, MapRendered(w, n)
        PROVE  [Catalogue!ServerNext]_(Catalogue!serverVars)
    <2>. DEFINE f == change.floor
    <2>1. /\ UNCHANGED db /\ change' = [change EXCEPT !.next = "clear"] /\ Changing(w)
          /\ change.next = "render"
          /\ pc' = [pc EXCEPT ![w] = "lock"] /\ cmd' = [cmd EXCEPT ![w] = SaveMap(f, n)]
      BY <1>4 DEF MapRendered, Tx!Request, Tx!Goto
    <2>2. change # NoChange /\ change.worker = w /\ change \in MapChange
      BY <1>1, <2>1 DEF Changing, FlagHeld
    <2>3. /\ change' \in MapChange /\ change'.worker = w /\ change'.floor = f
          /\ change'.next = "clear"
      BY <2>1, <2>2 DEF MapChange
    <2>4. change' # NoChange
      BY <2>3, CommandsAssumption DEF MapChange
    <2>5. pc'[w] = "lock" /\ cmd'[w] = SaveMap(f, n) /\ SaveMap(f, n) # RemoveData(f)
      BY <1>1, <2>1 DEF SaveMap, RemoveData
    <2>6. FloorChanging' = f
      BY <2>3, <2>4, <2>5 DEF FloorChanging
    <2>7. FloorChanging = f
      BY <2>1, <2>2, FloorIs
    <2>. QED  BY <2>1, <2>6, <2>7, Quiet
  <1>5. ASSUME NEW w \in Worker, RenderFails(w)
        PROVE  [Catalogue!ServerNext]_(Catalogue!serverVars)
    <2>1. UNCHANGED db /\ FloorChanging' = NoFloor
      BY <1>5 DEF RenderFails, FloorChanging
    <2>. QED  BY <2>1, Quiet
  <1>6. CASE Ends
    <2>1. UNCHANGED db /\ FloorChanging' = NoFloor
      BY <1>6 DEF Ends, Tx!Crash, FloorChanging
    <2>. QED  BY <2>1, Quiet
  <1>7. CASE UNCHANGED vars
    <2>1. UNCHANGED db /\ UNCHANGED FloorChanging
      BY <1>7 DEF vars, FloorChanging
    <2>. QED  BY <2>1, Quiet
  <1>. QED  BY <1>2, <1>3, <1>4, <1>5, <1>6, <1>7, WorkerMaps DEF Next

\* However the workers' statements interleave, throw, fail and are cut short,
\* what they leave in the tables is what module Exhibits says of commands that
\* happen one at a time and whole.
THEOREM CommandsKeepCatalogue == Spec => CatalogueKept
  <1>1. Init => Catalogue!ServerInit
    <2>. SUFFICES ASSUME Init
                  PROVE  Catalogue!ServerInit
      OBVIOUS
    <2>1. db = EmptyDb /\ FloorChanging = NoFloor
      BY DEF Init, Tx!TxInit, FloorChanging
    <2>. QED  BY <2>1 DEF EmptyDb, Catalogue!ServerInit
  <1>2. CommandsInv /\ [Next]_vars => [Catalogue!ServerNext]_(Catalogue!serverVars)
    BY StepMaps
  <1>. QED  BY <1>1, <1>2, CommandsInvariance, PTL DEF Spec, CatalogueKept, Catalogue!ServerSpec
=============================================================================
