-------------------------- MODULE ExhibitCommands --------------------------
(***************************************************************************)
(* The exhibit and map commands as Database::execute runs them: statement  *)
(* by statement, several workers at once, with exceptions, failing         *)
(* statements and the end of the process.  Module Exhibits takes each of   *)
(* their transactions for one step; CatalogueKept checks it.  The commands *)
(* of reports and experiments, which count an exhibit's uses and purge it, *)
(* are not here.                                                           *)
(***************************************************************************)
EXTENDS Naturals, Sequences, FiniteSets

CONSTANTS
    Exhibit, NameOf, Floor, Extent, Colour, NoFrame, NoFloor,
    MaxVersion,             \* as in module Exhibits
    Worker,                 \* threads of the ThreadManager
    NoVersion,              \* acquiredVersion is not set
    NoChange,               \* MapCommands::inProgress is clear
    NoCommand, NoSession

VARIABLES
    db, work, locked, pc, cmd, session,    \* as in module Transactions
    change    \* the map change under way: whose, of which floor, how far

Frame == [floor : Floor, extent : Extent]
MaybeFrame == Frame \union {NoFrame}
Name == {NameOf[e] : e \in Exhibit}

\* Contents of the tables; the columns are those of module Exhibits.
EmptyDb ==
    [status |-> [e \in Exhibit |-> "unused"],
     version |-> [e \in Exhibit |-> 0],
     frame |-> [e \in Exhibit |-> NoFrame],
     rgb |-> [e \in Exhibit |-> CHOOSE c \in Colour : TRUE],
     lastVersion |-> 0,
     lastDeleted |-> 0,
     mapSize |-> [f \in Floor |-> 0]]

\* What the web client, the tablets and the other commands ask for.  `frame`
\* is what createFrame makes of the request.
ExhibitCommand ==
    [op : {"create"}, name : Name, colour : Colour, frame : MaybeFrame]
    \union [op : {"update"}, id : Exhibit, colour : Colour, frame : MaybeFrame]
    \union [op : {"setFrame"}, id : Exhibit, extent : Extent]
    \union [op : {"remove"}, id : Exhibit]
    \union [op : {"getNew"}, acquired : 0 .. MaxVersion \union {NoVersion}]

\* The transactions of MapCommands.
RemoveData(f) == [op |-> "removeOldData", floor |-> f]
SaveMap(f, n) == [op |-> "saveMap", floor |-> f, size |-> n]

-----------------------------------------------------------------------------
(* Commands as the statements they execute *)

IncrementVersion == <<"getLastVersion", "setLastVersion">>

\* Exhibits::setFrame.
SetFrame(f) ==
    <<"checkID">> \o (IF f = NoFrame THEN <<>> ELSE <<"checkFrame">>)
        \o IncrementVersion \o <<"writeFrame">>

\* What a command is sure to execute first; the rest depends on what it reads.
Begin(c) ==
    CASE c.op = "create" ->
            <<"checkName">> \o (IF c.frame = NoFrame THEN <<>> ELSE <<"checkFrame">>)
                \o IncrementVersion \o <<"insert">>
      [] c.op \in {"update", "setFrame"} -> <<"get">>
      [] c.op = "remove" ->
            <<"checkID", "markDeleted">> \o IncrementVersion \o <<"setLastDeleted">>
      [] c.op = "getNew" ->
            <<IF c.acquired = NoVersion THEN "getAll" ELSE "getLastDeleted", "getVersion">>
      [] c.op = "removeOldData" ->
            IncrementVersion \o <<"resetFrames", "getMap">>
      [] c.op = "saveMap" -> <<"removeMap", "insertMap">>

NoAnswer == [full |-> FALSE, version |-> NoVersion, items |-> [e \in {} |-> <<>>]]

\* todo: statements ahead; frame: the one to write; read: a counter's value;
\* answer: what getNew collects.
Start(c) ==
    [cmd |-> c, todo |-> Begin(c), threw |-> FALSE, read |-> 0, answer |-> NoAnswer,
     frame |-> IF c.op \in {"create", "update"} THEN c.frame ELSE NoFrame]

Failed == [cmd |-> NoCommand, todo |-> <<>>, threw |-> TRUE, read |-> 0,
           answer |-> NoAnswer, frame |-> NoFrame]

Returned(s) == s.todo = <<>> /\ ~s.threw
Threw(s) == s.threw

-----------------------------------------------------------------------------
(* Statements.  Each gives the contents and the session after it. *)

Live(d) == {e \in Exhibit : d.status[e] = "live"}

Go(d, s) == [db |-> d, session |-> [s EXCEPT !.todo = Tail(@)]]

\* Go on with what a read calls for.
GoOn(d, s, more) == [db |-> d, session |-> [s EXCEPT !.todo = more \o Tail(@)]]

Throw(d, s) == [db |-> d, session |-> Failed]

Require(ok, d, s) == IF ok THEN Go(d, s) ELSE Throw(d, s)

CheckName(d, s) == Require(\A e \in Live(d) : NameOf[e] # s.cmd.name, d, s)

CheckID(d, s) == Require(s.cmd.id \in Live(d), d, s)

CheckFrame(d, s) == Require(s.frame.extent =< d.mapSize[s.frame.floor], d, s)

GetLastVersion(d, s) == Go(d, [s EXCEPT !.read = d.lastVersion])

\* Bounded by MaxVersion.
SetLastVersion(d, s) ==
    IF s.read < MaxVersion
    THEN Go([d EXCEPT !.lastVersion = s.read + 1], [s EXCEPT !.read = @ + 1])
    ELSE Throw(d, s)

\* The serial column hands out an id not used before; out of Exhibit's ids
\* the command throws.
Insert(d, s) ==
    LET free == {e \in Exhibit : d.status[e] = "unused" /\ NameOf[e] = s.cmd.name}
        e == CHOOSE x \in free : TRUE
    IN  IF free = {} THEN Throw(d, s)
        ELSE Go([d EXCEPT !.status[e] = "live", !.version[e] = s.read,
                          !.frame[e] = s.frame, !.rgb[e] = s.cmd.colour], s)

SetRgb(d, s) == Go([d EXCEPT !.rgb[s.cmd.id] = s.cmd.colour], s)

WriteFrame(d, s) ==
    Go([d EXCEPT !.version[s.cmd.id] = s.read, !.frame[s.cmd.id] = s.frame], s)

\* update: the colour first, then the frame if the floor is another one.
UpdateAfterGet(d, s) ==
    LET old == d.frame[s.cmd.id]
        same == s.frame # NoFrame /\ old # NoFrame /\ s.frame.floor = old.floor
    IN  GoOn(d, s, <<"checkID", "setRgb">> \o (IF same THEN <<>> ELSE SetFrame(s.frame))
                       \o <<"getAgain">>)

\* setFrame: the floor stays the same.
SetFrameAfterGet(d, s) ==
    LET old == d.frame[s.cmd.id]
        new == [floor |-> old.floor, extent |-> s.cmd.extent]
    IN  IF old = NoFrame THEN Throw(d, s)
        ELSE GoOn(d, [s EXCEPT !.frame = new], SetFrame(new))

Get(d, s) ==
    IF s.cmd.id \notin Live(d) THEN Throw(d, s)
    ELSE IF s.cmd.op = "update" THEN UpdateAfterGet(d, s) ELSE SetFrameAfterGet(d, s)

MarkDeleted(d, s) == Go([d EXCEPT !.status[s.cmd.id] = "removed"], s)

SetLastDeleted(d, s) == Go([d EXCEPT !.lastDeleted = s.read], s)

ResetFrames(d, s) ==
    LET onFloor == {e \in Exhibit :
                      d.frame[e] # NoFrame /\ d.frame[e].floor = s.cmd.floor}
    IN  Go([d EXCEPT
              !.version = [e \in Exhibit |-> IF e \in onFloor THEN s.read ELSE d.version[e]],
              !.frame = [e \in Exhibit |-> IF e \in onFloor THEN NoFrame ELSE d.frame[e]]], s)

\* removeOldData deletes the row only if it found one.
GetMap(d, s) ==
    GoOn(d, s, IF d.mapSize[s.cmd.floor] = 0 THEN <<>> ELSE <<"removeMap">>)

RemoveMap(d, s) == Go([d EXCEPT !.mapSize[s.cmd.floor] = 0], s)

InsertMap(d, s) == Go([d EXCEPT !.mapSize[s.cmd.floor] = s.cmd.size], s)

Collect(d, s, full, sent) ==
    Go(d, [s EXCEPT !.answer = [full |-> full, version |-> NoVersion,
                                items |-> [e \in sent |-> <<d.frame[e], d.rgb[e]>>]]])

GetAll(d, s) == Collect(d, s, TRUE, Live(d))

\* getNew's test; getAllNewerThan reads the same counter again.
GetLastDeleted(d, s) ==
    GoOn(d, s, IF s.cmd.acquired < d.lastDeleted THEN <<"getAll">>
               ELSE <<"getLastDeletedAgain", "getNewer">>)

GetNewer(d, s) ==
    Collect(d, s, FALSE, {e \in Live(d) : d.version[e] > s.cmd.acquired})

GetVersion(d, s) == Go(d, [s EXCEPT !.answer.version = d.lastVersion])

\* A session that has returned holds its answer only.
Settle(r) ==
    IF r.session.todo # <<>> \/ r.session.threw THEN r
    ELSE [r EXCEPT !.session.read = 0, !.session.frame = NoFrame]

Exec(d, s) ==
    Settle(CASE Head(s.todo) = "checkName" -> CheckName(d, s)
             [] Head(s.todo) = "checkID" -> CheckID(d, s)
             [] Head(s.todo) = "checkFrame" -> CheckFrame(d, s)
             [] Head(s.todo) = "getLastVersion" -> GetLastVersion(d, s)
             [] Head(s.todo) = "setLastVersion" -> SetLastVersion(d, s)
             [] Head(s.todo) = "insert" -> Insert(d, s)
             [] Head(s.todo) = "get" -> Get(d, s)
             [] Head(s.todo) = "getAgain" -> CheckID(d, s)
             [] Head(s.todo) = "setRgb" -> SetRgb(d, s)
             [] Head(s.todo) = "writeFrame" -> WriteFrame(d, s)
             [] Head(s.todo) = "markDeleted" -> MarkDeleted(d, s)
             [] Head(s.todo) = "setLastDeleted" -> SetLastDeleted(d, s)
             [] Head(s.todo) = "resetFrames" -> ResetFrames(d, s)
             [] Head(s.todo) = "getMap" -> GetMap(d, s)
             [] Head(s.todo) = "removeMap" -> RemoveMap(d, s)
             [] Head(s.todo) = "insertMap" -> InsertMap(d, s)
             [] Head(s.todo) = "getAll" -> GetAll(d, s)
             [] Head(s.todo) = "getLastDeleted" -> GetLastDeleted(d, s)
             [] Head(s.todo) = "getLastDeletedAgain" -> Go(d, s)
             [] Head(s.todo) = "getNewer" -> GetNewer(d, s)
             [] Head(s.todo) = "getVersion" -> GetVersion(d, s))

\* One statement more, of those that are left; no command executes more than
\* sixteen.
Once(r) == IF Returned(r.session) \/ Threw(r.session) THEN r ELSE Exec(r.db, r.session)
Twice(r) == Once(Once(r))
FourTimes(r) == Twice(Twice(r))
EightTimes(r) == FourTimes(FourTimes(r))

Result(d, s) == EightTimes(EightTimes([db |-> d, session |-> s]))

Command ==
    ExhibitCommand
    \union {RemoveData(f) : f \in Floor}
    \union {SaveMap(f, n) : f \in Floor, n \in Extent}

-----------------------------------------------------------------------------
(* What contents and sessions can be *)

Db == [status : [Exhibit -> {"unused", "live", "removed"}],
       version : [Exhibit -> 0 .. MaxVersion],
       frame : [Exhibit -> MaybeFrame],
       rgb : [Exhibit -> Colour],
       lastVersion : 0 .. MaxVersion,
       lastDeleted : 0 .. MaxVersion,
       mapSize : [Floor -> Extent \union {0}]]

\* The statements a command may come to.
StatementsOf(c) ==
    CASE c.op = "create" ->
            {"checkName", "checkFrame", "getLastVersion", "setLastVersion", "insert"}
      [] c.op = "update" ->
            {"get", "checkID", "setRgb", "checkFrame", "getLastVersion", "setLastVersion",
             "writeFrame", "getAgain"}
      [] c.op = "setFrame" ->
            {"get", "checkID", "checkFrame", "getLastVersion", "setLastVersion", "writeFrame"}
      [] c.op = "remove" ->
            {"checkID", "markDeleted", "getLastVersion", "setLastVersion", "setLastDeleted"}
      [] c.op = "getNew" ->
            {"getAll", "getVersion"}
            \union (IF c.acquired = NoVersion THEN {}
                    ELSE {"getLastDeleted", "getLastDeletedAgain", "getNewer"})
      [] c.op = "removeOldData" ->
            {"getLastVersion", "setLastVersion", "resetFrames", "getMap", "removeMap"}
      [] c.op = "saveMap" -> {"removeMap", "insertMap"}

\* The statements whose outcome calls for others come first, or last.
InPlace(s) ==
    \A i \in DOMAIN s.todo :
        /\ s.todo[i] = "get" => Len(s.todo) = 1
        /\ s.todo[i] = "getLastDeleted" => i = 1 /\ Len(s.todo) = 2
        /\ s.todo[i] = "getMap" => i = Len(s.todo)

Statement ==
    {"checkName", "checkID", "checkFrame", "getLastVersion", "setLastVersion", "insert", "get",
     "getAgain", "setRgb", "writeFrame", "markDeleted", "setLastDeleted", "resetFrames",
     "getMap", "removeMap", "insertMap", "getAll", "getLastDeleted", "getLastDeletedAgain",
     "getNewer", "getVersion"}

Answers == [full : BOOLEAN, version : 0 .. MaxVersion \union {NoVersion},
            items : UNION {[E -> MaybeFrame \X Colour] : E \in SUBSET Exhibit}]

Session ==
    {s \in [cmd : Command \union {NoCommand}, todo : Seq(Statement), threw : BOOLEAN,
            read : 0 .. MaxVersion, answer : Answers, frame : MaybeFrame] :
        /\ s.threw => s.todo = <<>>
        /\ s.todo # <<>> => /\ s.cmd \in Command
                           /\ \A i \in DOMAIN s.todo : s.todo[i] \in StatementsOf(s.cmd)
        /\ \A i \in DOMAIN s.todo : s.todo[i] = "checkFrame" => s.frame # NoFrame
        /\ Len(s.todo) =< 8 /\ InPlace(s)}

\* What stands for nothing is none of the things it stands beside.
ASSUME CommandsAssumption ==
    /\ Floor \subseteq Nat
    /\ Extent \subseteq Nat \ {0}
    /\ Colour # {}
    /\ MaxVersion \in Nat
    /\ NoFrame \notin Frame /\ NoFloor \notin Floor
    /\ NoVersion \notin 0 .. MaxVersion
    /\ NoChange \notin [worker : Worker, floor : Floor, next : {"clear", "set", "render"}]
    /\ NoCommand \notin Command
    /\ NoSession \notin Session

Tx == INSTANCE Transactions WITH InitialDb <- {EmptyDb}

-----------------------------------------------------------------------------
(* Workers.  A map command holds MapCommands::inProgress around its        *)
(* transactions; the other commands are one transaction each.              *)

Init == Tx!TxInit /\ change = NoChange

Changing(w) == change # NoChange /\ change.worker = w

ExhibitRequest(w) ==
    /\ ~Changing(w)
    /\ \E c \in ExhibitCommand : Tx!Request(w, c)
    /\ UNCHANGED change

\* Mutant of MapRequest: the flag is set without being tested.
MapRequestUntested(w, f, next) ==
    /\ change' = [worker |-> w, floor |-> f, next |-> next]
    /\ Tx!Request(w, RemoveData(f))

\* MapCommands::remove, or set up to its first transaction; refused while
\* the flag is set.
MapRequest(w, f, next) ==
    /\ change = NoChange
    /\ change' = [worker |-> w, floor |-> f, next |-> next]
    /\ Tx!Request(w, RemoveData(f))

\* set has made its files: the last transaction.
MapRendered(w, n) ==
    /\ Changing(w) /\ change.next = "render" /\ pc[w] = "idle"
    /\ Tx!Request(w, SaveMap(change.floor, n))
    /\ change' = [change EXCEPT !.next = "clear"]

\* set throws between its transactions.
RenderFails(w) ==
    /\ Changing(w) /\ change.next = "render" /\ pc[w] = "idle"
    /\ change' = NoChange
    /\ UNCHANGED <<db, work, locked, pc, cmd, session>>

\* A command's transaction is over; a map command goes on, or clears the flag.
Answered(w) ==
    /\ Tx!Answer(w)
    /\ IF ~Changing(w) THEN UNCHANGED change
       ELSE IF change.next = "set" /\ Returned(session[w])
            THEN change' = [change EXCEPT !.next = "render"]
            ELSE change' = NoChange

Ends == Tx!Crash /\ change' = NoChange

WorkerStep(w) ==
    \/ Tx!Lock(w) /\ UNCHANGED change
    \/ Tx!Locked(w) /\ UNCHANGED change
    \/ Answered(w)

Next ==
    \/ \E w \in Worker :
          \/ ExhibitRequest(w)
          \/ \E f \in Floor, next \in {"clear", "set"} : MapRequest(w, f, next)
          \/ \E n \in Extent : MapRendered(w, n)
          \/ RenderFails(w)
          \/ WorkerStep(w)
    \/ Ends

vars == <<db, work, locked, pc, cmd, session, change>>

Spec == Init /\ [][Next]_vars

-----------------------------------------------------------------------------
(* Properties *)

CommandsAtomic == Tx!CommandsAtomic

Exclusive == Tx!Exclusive

\* The floor whose new map is under way, as module Exhibits has it: from the
\* first transaction's commit to the second's.
FloorChanging ==
    IF change = NoChange THEN NoFloor
    ELSE LET committed == pc[change.worker] \in {"unlock", "answer"}
                             /\ Returned(session[change.worker])
         IN  IF \/ change.next = "render"
                \/ change.next = "set" /\ committed
                \/ change.next = "clear" /\ ~committed
                      /\ cmd[change.worker] # RemoveData(change.floor)
             THEN change.floor ELSE NoFloor

Catalogue == INSTANCE Exhibits WITH
    status <- db.status, version <- db.version, frame <- db.frame, rgb <- db.rgb,
    refCount <- [e \in Exhibit |-> 0], MaxRefs <- [e \in Exhibit |-> 0], lastVersion <- db.lastVersion,
    lastDeleted <- db.lastDeleted, mapSize <- db.mapSize, mapChange <- FloorChanging

\* What the workers leave in the database, statement by statement, is what
\* module Exhibits says of whole commands: no name given twice, no version
\* used twice, no frame outside its map, no half of a command that threw.
CatalogueKept == Catalogue!ServerSpec
=============================================================================
