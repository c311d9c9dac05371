------------------------------- MODULE Raports -------------------------------
(***************************************************************************)
(* A visit's report from the tablet to the server: ExperimentData.java     *)
(* writes it while the visit lasts, ReadyRaports.java queues it,           *)
(* RaportUploadTask.java sends it, ReportCommands::save stores it.         *)
(*                                                                         *)
(* Four parties: the UI thread ends the visit under raportLock; one        *)
(* BgRaportSaver thread per visit saves its file every 5 s under the same  *)
(* lock; the executor thread starts visits, uploads and reloads, without   *)
(* the lock; the server numbers and stores.  The process can be killed at  *)
(* any step: Realm rows and files stay.                                    *)
(*                                                                         *)
(* Of a report's contents it matters only whether its end date is set, the *)
(* last thing written.  Java objects are told apart, since the queue is    *)
(* keyed by identity: the visit's own and one per loading.                 *)
(***************************************************************************)
EXTENDS Naturals, FiniteSets

CONSTANTS
    Raport,      \* ids of raports on the tablet
    NoRaport,    \* none
    NoId,        \* no server id yet
    NotQueued,   \* not in the queue
    MaxLoads,    \* bound on loadDbData calls of one process
    MaxRestarts, \* bound on restarts
    MaxReportID  \* bound on the counter last_report_id

ASSUME RaportAssumption ==
    /\ IsFiniteSet(Raport) /\ NoRaport \notin Raport
    /\ MaxLoads \in Nat \ {0} /\ MaxRestarts \in Nat /\ MaxReportID \in Nat
    /\ NoId \notin Nat /\ NotQueued \notin Nat /\ NoId # NotQueued

ServerID == 1 .. MaxReportID
Obj == Raport \X (0 .. MaxLoads)   \* 0: the visit's own, k: of the k-th loading
Own(r) == <<r, 0>>

VARIABLES
    row,       \* RaportFileRealm.state
    rowId,     \* RaportFileRealm.serverId
    file,      \* the raport's file: none, without or with its end date
    visit,     \* ExperimentData.currentRaport
    ending,    \* how far markRaportAsReady is
    live,      \* state of the visit's own object
    saver,     \* its BgRaportSaver
    lock,      \* raportLock: its holder
    queue,     \* ReadyRaports.readyRaports: server ids, by object
    partial,   \* loaded objects that have no end date
    loads,     \* calls of loadDbData in this process
    phase,     \* what the executor thread is doing
    todo,      \* RaportUploadTask.toSend, less what is dealt with
    sending,   \* the object being sent
    sendId,    \* and its server id
    lastReportID, \* server: counter last_report_id
    stored,    \* server: table reports, whose raport is stored under an id
    open,      \* server: the experiment is active
    schedule,  \* of the upload task, in this process
    restarts,  \* process starts so far
    cut,       \* history: raports whose saver a kill stopped before its last save
    twice      \* history: raports loaded when in the queue already

diskVars == <<row, rowId, file>>
visitVars == <<visit, ending, live, saver, lock>>
queueVars == <<queue, partial, loads>>
taskVars == <<phase, todo, sending, sendId>>
serverVars == <<lastReportID, stored, open>>
processVars == <<schedule, restarts, cut, twice>>
vars == <<diskVars, visitVars, queueVars, taskVars, serverVars, processVars>>

NoObj == <<NoRaport, 0>>

Init ==
    /\ row = [r \in Raport |-> "none"]
    /\ rowId = [r \in Raport |-> NoId]
    /\ file = [r \in Raport |-> "none"]
    /\ visit = NoRaport
    /\ ending = "no"
    /\ live = [r \in Raport |-> "none"]
    /\ saver = [r \in Raport |-> "off"]
    /\ lock = "free"
    /\ queue = [o \in Obj |-> NotQueued]
    /\ partial = {}
    /\ loads = 1
    /\ phase = "idle"
    /\ todo = {}
    /\ sending = NoObj
    /\ sendId = NoId
    /\ lastReportID = 0
    /\ stored = [i \in ServerID |-> NoRaport]
    /\ open = TRUE
    /\ schedule = "runs"
    /\ restarts = 0
    /\ cut = {}
    /\ twice = {}

-----------------------------------------------------------------------------
(* A visit begins: startNewRaport, called back on the executor thread *)

\* A new object with a new id, and its saver is started.
StartNewRaport(r) ==
    /\ phase = "idle" /\ visit = NoRaport
    /\ row[r] = "none"
    /\ visit' = r
    /\ live' = [live EXCEPT ![r] = "in_progress"]
    /\ saver' = [saver EXCEPT ![r] = "asleep"]
    /\ phase' = "starting"
    /\ UNCHANGED <<diskVars, ending, lock, queueVars, todo, sending, sendId, serverVars, processVars>>

\* setRaportFile: only now does the raport have a row.
SetRaportFile ==
    /\ phase = "starting"
    /\ row' = [row EXCEPT ![visit] = "in_progress"]
    /\ rowId' = [rowId EXCEPT ![visit] = NoId]
    /\ phase' = "idle"
    /\ UNCHANGED <<file, visitVars, queueVars, todo, sending, sendId, serverVars, processVars>>

-----------------------------------------------------------------------------
(* BgRaportSaver *)

\* Mutant of WakeSaver: the loop goes on only while the visit does.
WakeIfInProgress(r) ==
    /\ saver[r] = "asleep"
    /\ saver' = [saver EXCEPT ![r] = IF live[r] = "in_progress" THEN "awake" ELSE "off"]
    /\ UNCHANGED <<diskVars, visit, ending, live, lock, queueVars, taskVars, serverVars, processVars>>

\* The loop's condition: a raport already sent is not saved any more.
WakeSaver(r) ==
    /\ saver[r] = "asleep"
    /\ saver' = [saver EXCEPT ![r] = IF live[r] = "sent" THEN "off" ELSE "awake"]
    /\ UNCHANGED <<diskVars, visit, ending, live, lock, queueVars, taskVars, serverVars, processVars>>

\* The temporary file is written and the old file deleted.  A save that fails
\* with an IOException leaves everything as it is, to be tried again.
DeleteOldFile(r) ==
    /\ saver[r] = "awake" /\ lock = "free"
    /\ lock' = r
    /\ saver' = [saver EXCEPT ![r] = "renaming"]
    /\ file' = [file EXCEPT ![r] = "none"]
    /\ UNCHANGED <<row, rowId, visit, ending, live, queueVars, taskVars, serverVars, processVars>>

SavedAs(state) == IF state = "in_progress" THEN "partial" ELSE "complete"

\* Mutant of RenameFile: the state is looked at before the file is written.
RenameStale(r) ==
    /\ saver[r] = "renaming"
    /\ file' = [file EXCEPT ![r] = "partial"]
    /\ saver' = [saver EXCEPT ![r] = IF live[r] = "ready" THEN "off" ELSE "asleep"]
    /\ lock' = "free"
    /\ UNCHANGED <<row, rowId, visit, ending, live, queueVars, taskVars, serverVars, processVars>>

\* The temporary file takes the old one's place; the saver stops if that was
\* the save of a raport that is ready.
RenameFile(r) ==
    /\ saver[r] = "renaming"
    /\ file' = [file EXCEPT ![r] = SavedAs(live[r])]
    /\ saver' = [saver EXCEPT ![r] = IF live[r] = "ready" THEN "off" ELSE "asleep"]
    /\ lock' = "free"
    /\ UNCHANGED <<row, rowId, visit, ending, live, queueVars, taskVars, serverVars, processVars>>

-----------------------------------------------------------------------------
(* The visit ends: markRaportAsReady, on the UI thread, holding raportLock *)

MarkAsReady ==
    /\ visit # NoRaport /\ phase # "starting" /\ ending = "no" /\ lock = "free"
    /\ lock' = "ui"
    /\ live' = [live EXCEPT ![visit] = "ready"]
    /\ ending' = "marked"
    /\ UNCHANGED <<diskVars, visit, saver, queueVars, taskVars, serverVars, processVars>>

\* From here on the executor thread may take it.
AddNewReadyRaport ==
    /\ ending = "marked"
    /\ queue' = [queue EXCEPT ![Own(visit)] = NoId]
    /\ ending' = "queued"
    /\ UNCHANGED <<diskVars, visit, live, saver, lock, partial, loads, taskVars, serverVars, processVars>>

SetReadyInRealm ==
    /\ ending = "queued"
    /\ row' = [row EXCEPT ![visit] = "ready_to_send"]
    /\ visit' = NoRaport
    /\ ending' = "no"
    /\ lock' = "free"
    /\ UNCHANGED <<rowId, file, live, saver, queueVars, taskVars, serverVars, processVars>>

-----------------------------------------------------------------------------
(* RaportUploadTask, on the executor thread *)

StartUpload ==
    /\ schedule = "runs" /\ phase = "idle"
    /\ todo' = {o \in Obj : queue[o] # NotQueued}
    /\ todo' # {}
    /\ phase' = "next"
    /\ UNCHANGED <<diskVars, visitVars, queueVars, sending, sendId, serverVars, processVars>>

\* The map's order is that of the objects' addresses: any.
NextRaport(o) ==
    /\ phase = "next" /\ o \in todo
    /\ todo' = todo \ {o}
    /\ sending' = o
    /\ sendId' = queue[o]
    /\ phase' = IF queue[o] = NoId THEN "reserve" ELSE "send"
    /\ UNCHANGED <<diskVars, visitVars, queueVars, serverVars, processVars>>

EndUpload ==
    /\ phase' = "idle"
    /\ todo' = {}
    /\ sending' = NoObj
    /\ sendId' = NoId

AllSent ==
    /\ phase = "next" /\ todo = {}
    /\ EndUpload
    /\ UNCHANGED <<diskVars, visitVars, queueVars, serverVars, processVars>>

\* Mutant of ReserveID: the counter is read but not incremented.
ReserveUncounted ==
    /\ phase = "reserve" /\ lastReportID < MaxReportID
    /\ sendId' = lastReportID + 1
    /\ phase' = "reserved"
    /\ UNCHANGED <<diskVars, visitVars, queueVars, todo, sending, serverVars, processVars>>

\* getIdForNewReport.  An id whose answer is lost nobody ever learns of; it is
\* left out of the count.
ReserveID ==
    /\ phase = "reserve" /\ lastReportID < MaxReportID
    /\ lastReportID' = lastReportID + 1
    /\ sendId' = lastReportID + 1
    /\ phase' = "reserved"
    /\ UNCHANGED <<diskVars, visitVars, queueVars, todo, sending, stored, open, processVars>>

\* Mutant of SetServerId: the id is kept in memory only.
SetServerIdInMemory ==
    /\ phase = "reserved"
    /\ queue' = [queue EXCEPT ![sending] = sendId]
    /\ phase' = "send"
    /\ UNCHANGED <<diskVars, visitVars, partial, loads, todo, sending, sendId, serverVars, processVars>>

\* setServerId, in memory and then in Realm, before anything is sent under it.
SetServerId ==
    /\ phase = "reserved"
    /\ queue' = [queue EXCEPT ![sending] = sendId]
    /\ rowId' = [rowId EXCEPT ![sending[1]] = sendId]
    /\ phase' = "send"
    /\ UNCHANGED <<row, file, visitVars, partial, loads, todo, sending, sendId, serverVars, processVars>>

Accepted == stored[sendId] # NoRaport \/ open

\* ReportCommands::save: an id that is stored already is accepted as it is.
SaveReport ==
    /\ phase = "send" /\ sending \notin partial /\ Accepted
    /\ stored' = [stored EXCEPT ![sendId] = IF @ = NoRaport THEN sending[1] ELSE @]

SaveAnswered ==
    /\ SaveReport
    /\ phase' = "sent"
    /\ UNCHANGED <<diskVars, visitVars, queueVars, todo, sending, sendId, lastReportID, open, processVars>>

\* The server stored it, the answer is lost.
SaveUnanswered ==
    /\ SaveReport
    /\ EndUpload
    /\ UNCHANGED <<diskVars, visitVars, queueVars, lastReportID, open, processVars>>

\* Mutant of FailUpload: a failed sending is taken for a good one.
FailUnnoticed ==
    /\ phase \in {"reserve", "send"}
    /\ phase' = "sent"
    /\ UNCHANGED <<diskVars, visitVars, queueVars, todo, sending, sendId, serverVars, processVars>>

\* Mutant of FailUpload: what could not be sent leaves the queue.
DropOnFailure ==
    /\ phase \in {"reserve", "send"}
    /\ queue' = [queue EXCEPT ![sending] = NotQueued]
    /\ EndUpload
    /\ UNCHANGED <<diskVars, visitVars, partial, loads, serverVars, processVars>>

\* A request that is lost or refused, or an end date that is null: the task
\* ends, and the raports behind this one wait for the next.
FailUpload ==
    /\ phase \in {"reserve", "send"}
    /\ EndUpload
    /\ UNCHANGED <<diskVars, visitVars, queueVars, serverVars, processVars>>

\* markRaportAsSent: the object and the queue, then Realm.
MarkAsSent ==
    /\ phase = "sent"
    /\ live' = IF sending = Own(sending[1]) THEN [live EXCEPT ![sending[1]] = "sent"] ELSE live
    /\ queue' = [queue EXCEPT ![sending] = NotQueued]
    /\ phase' = "removed"
    /\ UNCHANGED <<diskVars, visit, ending, saver, lock, partial, loads, todo, sending, sendId,
                   serverVars, processVars>>

SetSentInRealm ==
    /\ phase = "removed"
    /\ row' = [row EXCEPT ![sending[1]] = "sent"]
    /\ sending' = NoObj
    /\ sendId' = NoId
    /\ phase' = "next"
    /\ UNCHANGED <<rowId, file, visitVars, queueVars, todo, serverVars, processVars>>

\* The Realm transaction of setServerId or markRaportAsSent throws, when memory
\* has the id or has let go of the object.  InternalDatabaseError is an Error:
\* it leaves run, and the executor does not run the task again.
RealmThrows ==
    /\ phase \in {"reserved", "removed"}
    /\ queue' = IF phase = "reserved" THEN [queue EXCEPT ![sending] = sendId] ELSE queue
    /\ schedule' = "ended"
    /\ EndUpload
    /\ UNCHANGED <<diskVars, visitVars, partial, loads, serverVars, restarts, cut, twice>>

-----------------------------------------------------------------------------
(* ReadyRaports.loadDbData, kills and restarts *)

\* The k-th loading: an object for each ready row whose file can be read.
Loaded(k) == {<<r, k>> : r \in {s \in Raport : row[s] = "ready_to_send" /\ file[s] # "none"}}
LoadedPartial(k) == {o \in Loaded(k) : file[o[1]] = "partial"}
LoadInto(q, k) == [o \in Obj |-> IF o \in Loaded(k) THEN rowId[o[1]] ELSE q[o]]

\* mapDownloaded, on the executor thread, adds to what the queue holds.
Reload ==
    /\ phase = "idle" /\ visit = NoRaport
    /\ loads < MaxLoads
    /\ loads' = loads + 1
    /\ queue' = LoadInto(queue, loads')
    /\ partial' = partial \union LoadedPartial(loads')
    /\ twice' = twice \union
         {r \in Raport : /\ <<r, loads'>> \in Loaded(loads')
                         /\ \E o \in Obj : o[1] = r /\ queue[o] # NotQueued}
    /\ UNCHANGED <<diskVars, visitVars, taskVars, serverVars, schedule, restarts, cut>>

\* The process is killed and started again; onCreate loads.
Restart ==
    /\ restarts < MaxRestarts
    /\ restarts' = restarts + 1
    /\ schedule' = "runs"
    /\ cut' = cut \union {r \in Raport : saver[r] # "off" /\ file[r] # "complete"}
    /\ visit' = NoRaport
    /\ ending' = "no"
    /\ live' = [r \in Raport |-> "none"]
    /\ saver' = [r \in Raport |-> "off"]
    /\ lock' = "free"
    /\ loads' = 1
    /\ queue' = LoadInto([o \in Obj |-> NotQueued], 1)
    /\ partial' = LoadedPartial(1)
    /\ EndUpload
    /\ UNCHANGED <<diskVars, serverVars, twice>>

\* ExperimentCommands::finish: from now on new reports are refused.
FinishExperiment ==
    /\ open
    /\ open' = FALSE
    /\ UNCHANGED <<diskVars, visitVars, queueVars, taskVars, lastReportID, stored, processVars>>

UiStep == MarkAsReady \/ AddNewReadyRaport \/ SetReadyInRealm
SaverStep(r) == WakeSaver(r) \/ DeleteOldFile(r) \/ RenameFile(r)
Exchange == ReserveID \/ SaveAnswered
UploadStep ==
    \/ StartUpload
    \/ \E o \in Obj : NextRaport(o)
    \/ AllSent
    \/ Exchange
    \/ SetServerId
    \/ MarkAsSent
    \/ SetSentInRealm
    \/ SaveUnanswered
    \/ FailUpload
    \/ RealmThrows

Next ==
    \/ \E r \in Raport : StartNewRaport(r) \/ SaverStep(r)
    \/ SetRaportFile
    \/ UiStep
    \/ UploadStep
    \/ Reload
    \/ Restart
    \/ FinishExperiment

Spec == Init /\ [][Next]_vars

\* The threads run, requests time out, the upload task is scheduled until one of
\* its Realm transactions throws, and an exchange with the server that is tried
\* again and again succeeds sometimes.  SetRaportFile and SetReadyInRealm that
\* throw are a Restart: the visit's spinner stays, or the UI thread dies.
FairSpec ==
    /\ Spec
    /\ WF_vars(SetRaportFile) /\ WF_vars(AddNewReadyRaport) /\ WF_vars(SetReadyInRealm)
    /\ \A r \in Raport : WF_vars(SaverStep(r))
    /\ WF_vars(UploadStep)
    /\ SF_vars(Exchange)

-----------------------------------------------------------------------------
(* Properties *)

TypeOK ==
    /\ row \in [Raport -> {"none", "in_progress", "ready_to_send", "sent"}]
    /\ rowId \in [Raport -> ServerID \union {NoId}]
    /\ file \in [Raport -> {"none", "partial", "complete"}]
    /\ visit \in Raport \union {NoRaport}
    /\ ending \in {"no", "marked", "queued"}
    /\ live \in [Raport -> {"none", "in_progress", "ready", "sent"}]
    /\ saver \in [Raport -> {"off", "asleep", "awake", "renaming"}]
    /\ lock \in {"free", "ui"} \union Raport
    /\ queue \in [Obj -> ServerID \union {NoId, NotQueued}]
    /\ partial \subseteq Obj
    /\ loads \in 0 .. MaxLoads
    /\ phase \in {"idle", "starting", "next", "reserve", "reserved", "send", "sent", "removed"}
    /\ todo \subseteq Obj
    /\ sending \in Obj \union {NoObj}
    /\ sendId \in ServerID \union {NoId}
    /\ lastReportID \in 0 .. MaxReportID
    /\ stored \in [ServerID -> Raport \union {NoRaport}]
    /\ open \in BOOLEAN
    /\ schedule \in {"runs", "ended"}
    /\ restarts \in 0 .. MaxRestarts
    /\ cut \subseteq Raport
    /\ twice \subseteq Raport

Received(r) == \E i \in ServerID : stored[i] = r
Copies(r) == {i \in ServerID : stored[i] = r}

\* The tablet never counts a raport as sent that the server does not have,
\* whichever answers were lost and wherever it was killed.
SentMeansReceived == \A r \in Raport : row[r] = "sent" \/ live[r] = "sent" => Received(r)

\* The server ids the tablet still means to use.
IdsOf(r) ==
    {rowId[r]} \union {queue[o] : o \in {p \in Obj : p[1] = r}}
      \union (IF sending[1] = r THEN {sendId} ELSE {})

\* No two raports share a server id, and none uses one that another is stored
\* under: save would accept the second and drop it silently.
IdsNotShared ==
    \A r, s \in Raport : r # s =>
        /\ IdsOf(r) \intersect IdsOf(s) \subseteq {NoId, NotQueued}
        /\ IdsOf(r) \intersect Copies(s) = {}

\* A raport that is ready is never lost: it is on the server, or the queue
\* holds it whole, unless a kill stopped its saver before the last save.
ReadyNeverLost ==
    \A r \in Raport : row[r] = "ready_to_send" /\ r \notin cut =>
        \/ Received(r)
        \/ \E o \in Obj : o[1] = r /\ queue[o] # NotQueued /\ o \notin partial

\* An object without end date can never be sent and holds up those behind it.
\* It is one whose saver a kill cut off, or that was loaded before its last
\* save, or that the server has already: sent before the UI thread wrote
\* READY_TO_SEND, so that its saver saw SENT and stopped short, and the row
\* says ready.
StuckExplained ==
    \A o \in partial : o[1] \in cut \/ o[1] \in twice \/ Received(o[1])

\* A visit is on the server once, whatever was sent again after a lost answer
\* or a kill.
DeliveredOnce == \A r \in Raport : Cardinality(Copies(r)) =< 1

\* ... as long as it was not loaded when in the queue already.
OnceUnlessLoadedTwice ==
    \A r \in Raport : r \notin twice => Cardinality(Copies(r)) =< 1

\* Every finished visit reaches the server, unless its experiment is finished
\* first, a kill cuts it off, an object that can never be sent is in the queue,
\* before it or not, or a Realm transaction of the upload throws, which ends
\* it until the process is started again.
AllDelivered ==
    \A r \in Raport :
        visit = r /\ ending = "marked" ~>
            Received(r) \/ ~open \/ r \in cut \/ partial # {} \/ schedule = "ended"
=============================================================================
