----------------------------- MODULE ExhibitSync -----------------------------
(***************************************************************************)
(* One tablet's copy of the exhibit catalogue.  ExhibitDownloadTask asks   *)
(* the server what changed since the version in memory, and ExhibitsData   *)
(* stores the answer in Realm and then in memory, in separate steps.  The  *)
(* tablet's tasks share one executor thread, so a task runs to its end     *)
(* before the next one starts; the process may die at any step, the reset  *)
(* button may be pressed at any step, an answer may be lost, and a Realm   *)
(* transaction may throw, which ends the schedule of the task it is in.    *)
(***************************************************************************)
EXTENDS Exhibits, Integers

CONSTANTS Absent,     \* the tablet holds nothing under this id
          NoReply,    \* no answer is in flight
          NoColour,   \* the zero colour of an exhibit without a frame
          Partial     \* bound on the floors loaded when loading throws

NoVersion == -1    \* exhibitsVersion is null

Item == [frame : MaybeFrame, rgb : Colour \union {NoColour}]
Reply == [full : BOOLEAN, version : Nat, items : [Exhibit -> Item \union {Absent}]]

ASSUME SyncAssumption == Absent \notin Item /\ NoReply \notin Reply /\ Partial \subseteq Nat

VARIABLES
    dbItems,      \* Realm: ExhibitRealm objects
    dbVersion,    \* Realm: VersionRealm of EXHIBITS
    dbFloors,     \* Realm: getFloorCount, 0 when no map is stored
    shown,        \* memory: the exhibits in ExhibitsData.floorInfos
    memVersion,   \* memory: ExhibitsData.exhibitsVersion
    memFloors,    \* memory: number of floorInfos
    schedule,     \* of the download task, in this process
    phase,        \* how far the executor's current task is
    reply,        \* the answer that task is working on
    toSave,       \* floors a map download has still to store
    hollow        \* history: Realm was emptied under a version that is current

realmVars == <<dbItems, dbVersion, dbFloors>>
memoryVars == <<shown, memVersion, memFloors, schedule>>
taskVars == <<phase, reply, toSave>>
clientVars == <<realmVars, memoryVars, taskVars, hollow>>
vars == <<serverVars, clientVars>>

Nothing == [e \in Exhibit |-> Absent]

\* models.Exhibit: without a frame the colour is dropped as well.
FromServer(e) ==
    [frame |-> frame[e], rgb |-> IF frame[e] = NoFrame THEN NoColour ELSE rgb[e]]

\* No exhibit was removed since version v: the server answers v with changes.
UpToDeletion(v) == v # NoVersion /\ v >= lastDeleted

\* What is sent to a tablet for the exhibits in `sent`.
Answer(full, sent) ==
    [full |-> full,
     version |-> lastVersion,
     items |-> [e \in Exhibit |-> IF e \in sent THEN FromServer(e) ELSE Absent]]

\* Mutant of NewExhibits: a deletion does not make the answer a full one.
NewIgnoringDeletions(v) ==
    Answer(v = NoVersion, {e \in Live : version[e] > v})

\* ExhibitCommands::getNew, for the version a tablet says it has.
NewExhibits(v) ==
    LET full == ~UpToDeletion(v)
    IN  Answer(full, {e \in Live : full \/ version[e] > v})

Sent == {e \in Exhibit : reply.items[e] # Absent}

\* The exhibits of `items` that lie on one of the first n floors.
OnFloors(items, n) ==
    [e \in Exhibit |->
        IF items[e] # Absent /\ items[e].frame # NoFrame /\ items[e].frame.floor < n
        THEN items[e] ELSE Absent]

\* ExhibitsData.loadDbData, of the first n floors in Realm.
LoadFromRealm(n) ==
    /\ memFloors' = n
    /\ shown' = OnFloors(dbItems, n)
    /\ memVersion' = dbVersion

\* startBgDataSync schedules the tasks once in a process, whatever became of
\* them.
StartSync == schedule' = IF schedule = "none" THEN "runs" ELSE schedule

ClientInit ==
    /\ dbItems = Nothing /\ dbVersion = NoVersion /\ dbFloors = 0
    /\ shown = Nothing /\ memVersion = NoVersion /\ memFloors = 0
    /\ schedule = "none"
    /\ phase = "idle" /\ reply = NoReply /\ toSave = {}
    /\ hollow = FALSE

EndTask == phase' = "idle" /\ reply' = NoReply /\ toSave' = {}

-----------------------------------------------------------------------------
(* ExhibitDownloadTask *)

\* The request, answered by the server in one transaction.
Fetch ==
    /\ schedule = "runs" /\ phase = "idle"
    /\ reply' = NewExhibits(memVersion)
    /\ phase' = "answered"
    /\ UNCHANGED <<realmVars, memoryVars, toSave, hollow>>

\* The answer is lost, an Exception that run catches.
LoseAnswer ==
    /\ phase = "answered"
    /\ EndTask
    /\ UNCHANGED <<realmVars, memoryVars, hollow>>

\* The next Realm transaction throws and is taken back.  InternalDatabaseError
\* is an Error: it leaves run, and the executor does not run the task again.
RealmThrows ==
    /\ phase \in {"answered", "cleared"}
    /\ schedule' = "ended"
    /\ EndTask
    /\ UNCHANGED <<realmVars, shown, memVersion, memFloors, hollow>>

\* Mutant of ClearExhibits: the floors in memory keep their exhibits.
ClearRealmOnly ==
    /\ phase = "answered" /\ reply.full
    /\ dbItems' = Nothing
    /\ phase' = "cleared"
    /\ hollow' = (hollow \/ UpToDeletion(dbVersion))
    /\ UNCHANGED <<dbVersion, dbFloors, memoryVars, reply, toSave>>

\* setExhibits, full refresh: clearAllExhibits, then every floor's map.
ClearExhibits ==
    /\ phase = "answered" /\ reply.full
    /\ dbItems' = Nothing
    /\ shown' = Nothing
    /\ phase' = "cleared"
    /\ hollow' = (hollow \/ UpToDeletion(dbVersion))
    /\ UNCHANGED <<dbVersion, dbFloors, memVersion, memFloors, schedule, reply, toSave>>

\* setExhibits: addOrUpdateExhibits, objects and version in one transaction.
StoreExhibits ==
    /\ phase = "cleared" \/ (phase = "answered" /\ ~reply.full)
    /\ dbItems' = [e \in Exhibit |-> IF e \in Sent THEN reply.items[e] ELSE dbItems[e]]
    /\ dbVersion' = reply.version
    /\ phase' = "stored"
    /\ hollow' = (hollow /\ ~reply.full)
    /\ UNCHANGED <<dbFloors, memoryVars, reply, toSave>>

\* findAndChangeExhibit for the exhibits of `done`, in this process's memory.
ShowItems(done) ==
    shown' = [e \in Exhibit |->
                IF e \notin done THEN shown[e]
                ELSE OnFloors(reply.items, memFloors)[e]]

OffFloor(e) ==
    /\ reply.items[e].frame # NoFrame
    /\ reply.items[e].frame.floor >= memFloors

\* Mutant of ShowExhibits: the version in memory is not advanced.
ShowUnversioned ==
    /\ phase = "stored"
    /\ \A e \in Sent : ~OffFloor(e)
    /\ ShowItems(Sent)
    /\ EndTask
    /\ UNCHANGED <<realmVars, memVersion, memFloors, schedule, hollow>>

\* updateExhibits and exhibitsVersion := version.
ShowExhibits ==
    /\ phase = "stored"
    /\ \A e \in Sent : ~OffFloor(e)
    /\ ShowItems(Sent)
    /\ memVersion' = reply.version
    /\ EndTask
    /\ UNCHANGED <<realmVars, memFloors, schedule, hollow>>

\* updateExhibits throws an Exception at an exhibit whose floor is not in
\* floorInfos: it is already taken off its old floor, exhibitsVersion stays
\* behind.
MissFloor ==
    /\ phase = "stored"
    /\ \E bad \in Sent, done \in SUBSET Sent :
          /\ OffFloor(bad)
          /\ \A e \in done : ~OffFloor(e)
          /\ ShowItems(done \union {bad})
    /\ EndTask
    /\ UNCHANGED <<realmVars, memVersion, memFloors, schedule, hollow>>

-----------------------------------------------------------------------------
(* MapDownloadTask, on the same thread *)

\* getMapImages, then MapData.setMaps starts with clearMaps.
StartMapDownload ==
    /\ phase = "idle"
    /\ toSave' = {fl \in Floor : mapSize[fl] # 0}
    /\ dbFloors' = 0
    /\ phase' = "mapping"
    /\ UNCHANGED <<dbItems, dbVersion, memoryVars, reply, hollow>>

\* setMap: one transaction per floor.
SaveFloor(fl) ==
    /\ phase = "mapping" /\ fl \in toSave
    /\ dbFloors' = IF fl < dbFloors THEN dbFloors ELSE fl + 1
    /\ toSave' = toSave \ {fl}
    /\ UNCHANGED <<dbItems, dbVersion, memoryVars, phase, reply, hollow>>

\* mapDownloaded: everything is loaded again and the sync is started.
FinishMapDownload ==
    /\ phase = "mapping" /\ toSave = {} /\ dbFloors > 0
    /\ LoadFromRealm(dbFloors)
    /\ StartSync
    /\ EndTask
    /\ UNCHANGED <<realmVars, hollow>>

\* A Realm transaction throws when n floors are loaded: nothing catches the
\* Error, and the sync is not started.
LoadThrows ==
    /\ phase = "mapping" /\ toSave = {}
    /\ \E n \in Partial : n < dbFloors /\ LoadFromRealm(n)
    /\ EndTask
    /\ UNCHANGED <<realmVars, schedule, hollow>>

\* A tile cannot be fetched, a file not renamed, a Realm transaction throws,
\* there is no map at all.
FailMapDownload ==
    /\ phase = "mapping"
    /\ EndTask
    /\ UNCHANGED <<realmVars, memoryVars, hollow>>

-----------------------------------------------------------------------------
(* The user and the operating system *)

\* Mutant of ResetClick: version 0 instead of none.
ResetToZero ==
    /\ dbVersion' = 0
    /\ UNCHANGED <<dbItems, dbFloors, memoryVars, taskVars, hollow>>

\* StartScreen.resetClick, on the UI thread: only Realm forgets its version.
ResetClick ==
    /\ dbVersion' = NoVersion
    /\ UNCHANGED <<dbItems, dbFloors, memoryVars, taskVars, hollow>>

\* The process dies and StartScreen.onCreate runs in a new one.
Restart ==
    /\ IF dbFloors > 0
       THEN LoadFromRealm(dbFloors) /\ schedule' = "runs"
       ELSE /\ shown' = Nothing /\ memVersion' = NoVersion
            /\ memFloors' = 0 /\ schedule' = "none"
    /\ EndTask
    /\ UNCHANGED <<realmVars, hollow>>

MapStep == (\E fl \in Floor : SaveFloor(fl)) \/ FinishMapDownload \/ LoadThrows \/ FailMapDownload

\* The answer arrives, and Realm is asked to take it.
ReachRealm == ClearExhibits \/ StoreExhibits \/ RealmThrows

\* What the tablet does without being told to.
ExecutorStep ==
    \/ Fetch \/ LoseAnswer \/ ReachRealm
    \/ ShowExhibits \/ MissFloor
    \/ MapStep

\* What the user and the operating system may do to it.
Disturbance == StartMapDownload \/ ResetClick \/ Restart

ClientNext == ExecutorStep \/ Disturbance

Init == ServerInit /\ ClientInit

Next ==
    \/ ServerNext /\ UNCHANGED clientVars
    \/ ClientNext /\ UNCHANGED serverVars

Spec == Init /\ [][Next]_vars

\* scheduleWithFixedDelay runs the download task again after an Exception, and
\* a task once started goes on; of requests made again and again, not every
\* answer is lost.  That Realm takes an answer is not assumed: a transaction
\* that throws ends the schedule.
FairSpec ==
    /\ Spec
    /\ WF_vars(ExecutorStep /\ UNCHANGED serverVars)
    /\ SF_vars(ReachRealm /\ UNCHANGED serverVars)

-----------------------------------------------------------------------------
(* Properties *)

TypeOK ==
    /\ ServerTypeOK
    /\ dbItems \in [Exhibit -> Item \union {Absent}]
    /\ dbVersion \in Nat \union {NoVersion}
    /\ dbFloors \in Nat
    /\ shown \in [Exhibit -> Item \union {Absent}]
    /\ memVersion \in Nat \union {NoVersion}
    /\ memFloors \in Nat
    /\ schedule \in {"none", "runs", "ended"}
    /\ phase \in {"idle", "answered", "cleared", "stored", "mapping"}
    /\ reply \in IF phase \in {"answered", "cleared", "stored"} THEN Reply ELSE {NoReply}
    /\ toSave \in SUBSET Floor
    /\ hollow \in BOOLEAN

\* What a copy that claims version v must agree on with the catalogue: it
\* holds no exhibit that is gone, and every live exhibit that did not change
\* after v with the frame it has now.
Faithful(items, v) ==
    UpToDeletion(v) =>
        \A e \in Exhibit :
            /\ items[e] # Absent => status[e] = "live"
            /\ status[e] = "live" /\ version[e] =< v =>
                  items[e] # Absent /\ items[e].frame = frame[e]

\* The copy in Realm is right about everything the server will not send
\* again: else the tablet would be wrong for ever.
RealmSound == Faithful(dbItems, dbVersion)

\* The same, but for a Realm that lost its exhibits and kept its version.
RealmSoundUnlessHollow == hollow \/ RealmSound

\* What the map screen draws agrees with the catalogue on the floors this
\* process knows: no removed exhibit, and each exhibit that did not change
\* after memVersion where it is now.
MemorySound ==
    ~hollow /\ UpToDeletion(memVersion) =>
        \A e \in Exhibit :
            /\ shown[e] # Absent => status[e] = "live"
            /\ status[e] = "live" /\ version[e] =< memVersion =>
                  IF frame[e] # NoFrame /\ frame[e].floor < memFloors
                  THEN shown[e] # Absent /\ shown[e].frame = frame[e]
                  ELSE shown[e] = Absent

\* The inductive invariant behind them.
\*
\* What an answer in flight, or half stored, still promises: it was computed
\* for the version in memory, and what it left out had not changed since.
ReplySound ==
    phase \in {"answered", "cleared", "stored"} =>
        /\ memVersion =< reply.version /\ reply.version =< lastVersion
        /\ reply.full => ~UpToDeletion(memVersion)
        /\ ~reply.full => UpToDeletion(memVersion) \/ lastDeleted > reply.version
        /\ lastDeleted =< reply.version =>
              \A e \in Exhibit :
                  /\ e \in Sent => status[e] = "live" /\ (reply.full \/ version[e] > memVersion)
                  /\ status[e] = "live" /\ version[e] =< reply.version =>
                        IF e \in Sent THEN reply.items[e].frame = frame[e]
                        ELSE ~reply.full /\ version[e] =< memVersion

\* A full refresh in progress has emptied both copies.
RefreshSound ==
    /\ phase = "cleared" => reply.full /\ dbItems = Nothing
    /\ phase \in {"cleared", "stored"} /\ reply.full => shown = Nothing
    /\ phase = "cleared" /\ ~hollow => ~UpToDeletion(dbVersion)

\* Realm is right about its own version, about the version in memory and,
\* once it has stored an answer, about the version of that answer.
RealmSoundThroughout ==
    ~hollow =>
        /\ Faithful(dbItems, dbVersion)
        /\ Faithful(dbItems, memVersion)
        /\ phase = "stored" => Faithful(dbItems, reply.version)

SyncInv ==
    /\ VersionsBounded
    /\ dbVersion =< lastVersion
    /\ memVersion =< lastVersion
    /\ ReplySound
    /\ RefreshSound
    /\ RealmSoundThroughout
    /\ MemorySound

\* A version once stored in Realm is only ever replaced by a newer or equal
\* one, or forgotten by the reset button: a late answer cannot set it back.
RealmVersionMonotonic ==
    [][dbVersion' # NoVersion => dbVersion' >= dbVersion]_vars

UpToDate ==
    /\ dbVersion = lastVersion /\ memVersion = lastVersion
    /\ RealmSound /\ MemorySound

FloorsKnown == \A e \in Live : frame[e] # NoFrame => frame[e].floor < memFloors

\* A tablet whose download task is scheduled and not ended by a throwing Realm
\* transaction, that knows the floors exhibits are on, has not lost Realm's
\* exhibits under a version that stays current (hollow), and is left alone,
\* reaches the server's latest version and stays there with nothing missing
\* or wrong, however many answers were lost and wherever earlier crashes,
\* throws and resets hit it.
CatchesUp ==
    <>[](schedule = "runs" /\ FloorsKnown /\ ~hollow) /\ <>[][~Disturbance]_vars => <>[]UpToDate
=============================================================================
