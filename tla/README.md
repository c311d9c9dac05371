# TLA+ models of NUBZ

NUBZ surveys museum visitors. This directory holds TLA+ models of the program, the TLC configurations that check them
on small instances, and TLAPS proofs of the results that matter most. It is written beside the code and translated from
it; paths below are relative to the repository.

## 1. The system

| part | where | state it keeps | operations | talks to |
|---|---|---|---|---|
| Exhibit catalogue | `server/src/repository/Exhibits.cpp`, `Counters.cpp`, `server/src/server/command/ExhibitCommands.cpp` | table `exhibits` (version, frame, colour, is_deleted, ref_count), counters `last_exhibit_version`, `last_deleted_exhibit_version` | create, update, setFrame, remove, getAll, getNew; inc/decReferenceCount; refresh; resetFrames | maps (frames), reports (reference counts), tablets (getNew) |
| Maps | `server/src/server/command/MapCommands.cpp`, `repository/MapImages.cpp`, `utils/ImageProcessor.cpp`, `utils/FileHandler.cpp` | table `map_images`, tile and image files, the flag `inProgress` all workers share | getAll, remove, set | catalogue, web, tablets |
| Actions and questions | `repository/Actions.cpp`, `SimpleQuestions.cpp`, `SortQuestions.cpp`, `MultipleChoiceQuestions.cpp` | one table each (two with options), `ref_count` | create, getAll, inc/decReferenceCount, remove | experiments |
| Experiments | `repository/Experiments.cpp`, `server/src/server/command/ExperimentCommands.cpp` | table `experiments`: state Ready, Active, Finished; surveys, actions, break actions | create, clone, update, start, finish, remove, lists | actions, questions (retain/release), catalogue (refresh), reports (cascade) |
| Reports | `repository/Reports.cpp`, `server/src/server/command/ReportCommands.cpp` | table `reports`, counter `last_report_id` | reserveID, save, lists, createExcelReport | experiments, exhibits (retain) |
| Transactions | `server/src/db/Database.cpp`, `DatabaseSession.cpp`, `main.cpp` | one connection, `cmdMutex`, four worker threads | execute: begin, command, commit or cancel | every command |
| Spreadsheets | `server/src/utils/excel`, `ReportCommands.cpp`, `www/cnk_admin_site/views/manageReports.py` | two csv files in the temporary directory, zip files in the directory of reports, the mutex `excelGenerationLock` | read the reports, write data and legend, zip; open and remove the zip | reports, experiments, exhibits (names), web |
| Web proxy | `www/cnk_admin_site` | none of its own but a shared connection object; files on disk | one view per operation, report download, map upload | server |
| Tablet copy of the exhibits | `android/.../data/exhibits/ExhibitsData.java`, `communication/task/ExhibitDownloadTask.java`, `database/DatabaseHelper.java` | Realm exhibits and version; the same in memory, by floor | download task every 30 s, load, reset | catalogue, tablet maps |
| Tablet maps | `android/.../data/map/MapData.java`, `communication/task/MapDownloadTask.java` | Realm tile and resolution rows, tile files, floor count in memory | download, load | maps, tablet exhibits |
| Tablet reports | `android/.../data/raports/*.java`, `data/experiment/ExperimentData.java`, `communication/task/RaportUploadTask.java`, `data/FileHandler.java` | Realm rows (IN_PROGRESS, READY_TO_SEND, SENT; server id), report files, queue in memory, the visit in progress | start, add event, save in background, finish, load, upload every 30 s | reports |
| Tablet survey | `activities/SurveyActivity.java`, `ui/questions/*.java`, `ui/adapters/S*ListAdapter.java`, `data/experiment/survey/` | questions still to be shown, answers, one view per question | download, show, next, previous, finish | reports (answers), server (survey and checks) |
| Tablet tasks and screens | `communication/NetworkHandler.java`, `task/ServerTask.java`, `activities/*.java` | one executor thread, UI thread, saver thread | run a task and call its callbacks; screen flow | all tablet parts |

Paths below `server/src`, `android/...` stand for `android/prj/app/src/main/java/com/cnk`, `www` for `www/cnk_admin_site`.

### How the parts run

- **Server.** Four worker threads (`main.cpp`) take Thrift requests. `Database::execute` holds `cmdMutex` from the begin
  of a command's transaction to its commit, so the transactions of two commands never interleave. Commands that do more
  than one thing (`MapCommands::set`, the spreadsheets) are several transactions with file operations in between, and
  those do interleave. The commit is in a destructor: a commit that throws ends the process.
- **Web.** Django threads call the server through an object that each view module keeps; they hold no other state.
- **Tablet.** The UI thread, one executor thread that runs all tasks one after the other (`NetworkHandler`), and one
  `BgRaportSaver` thread per visit. Realm transactions and files survive a kill, memory does not. Every request may fail;
  what the server did before its answer was lost stays done.

### What is hard in each part, and what makes it correct

| part | hard behaviour | correct when |
|---|---|---|
| Exhibit catalogue | the counter, the version of each row and the last deletion must move together under every command, map changes and finishing an experiment included | no change escapes the counters; no stored frame lies outside its map |
| Tablet copy of the exhibits | server and tablet go on between request, answer, two Realm transactions and memory; kill, reset, map download, lost answer at any of them | what the server will not send again is there, and right; the tablet catches up |
| Maps | files are outside the transactions; each of ten steps may throw, the process may die | a row never names files that are not whole; the flag is neither shared nor leaked |
| Tablet maps | the server reuses the names of the tiles; retries, kills, three stores (directory, Realm, memory) | what Realm and the screen name is on the disk, and is one map |
| Actions, questions, experiments | counts change by one per list position, through insert, clone, update and removal | counts are exact, so nothing an experiment names can be removed |
| Reports | a tablet sends again, the experiment ends, exhibits and experiments are removed in between | a stored report is kept, counted once, and can be printed |
| Tablet reports | the executor works without the lock of the other two threads; kills between rename, row and queue; lost answers | a finished visit reaches the server, once |
| Spreadsheets | the csv files have the same names for all; generation is under a mutex, reading and removing the zip is not; header and rows are printed apart | a download is of what was asked for and fresh, its columns are in line, nothing is left behind |
| Web proxy | several threads share one connection object | an answer belongs to the request |
| Tablet survey | five queues and lists must stay in step; answers are changed after going back; Android recreates the activity | what can be finished is what the server accepts |
| Tablet tasks and screens | two callbacks of one task, taps on their way, screens left and entered while a task runs | every screen of a visit has its raport and experiment; the map shows the exhibits as they are |

The full list, line by line, is `hazards` in `PROJECT.json`.

## 2. The modules

```
DbCommands -> AtomicCommands -> WebProxy --> ServerProofs     a command as one step; the connection threads share
        \---> Transactions ---> ExhibitCommands               mutex, transaction, statements; exhibits' commands so
                       |                \---> ExhibitCommandsProofs
                       \------> TransactionsProofs
Exhibits ---> ExhibitSync --> ExhibitSyncProofs               the catalogue; a tablet's copy of it
MapFiles ---> TabletMaps ---> TabletMapsProofs                maps on the server; a tablet's copy of them
ItemUse <---- Experiments --> ServerProofs                    actions, questions, experiments, stored reports
Raports ----> RaportsProofs                                   a visit's report, from the tablet to the server
ExcelReports > ExcelReportsProofs                             a spreadsheet, from the tables to the user
Survey -----> TabletVisitProofs                               one survey and its answers
Visit ------> TabletVisitProofs                               screens and tasks of a visit
```

An arrow points to the module that EXTENDS the other, instantiates it (ExhibitCommands) or implements it (ItemUse).
Transactions implements AtomicCommands, and ExhibitCommands implements Exhibits. ExhibitCommandsProofs instantiates
TransactionsProofs with the commands as they are. `MC*` modules give TLC its small instances.

**AtomicCommands** is what every other module takes the server for: a command happens in one step between request and
answer, all of it or, when it throws, nothing. **DbCommands** says what a command is: a callable that executes statements in
a session, each depending on nothing but the contents and what was read before, and comes to its end.

**Transactions** is `Database::execute` in all of its steps, for any such commands and any number of workers: `Lock` the
mutex, `Statement` by statement on the one connection, `FailStatement` (pqxx throws, the transaction is gone), `Commit` or
`Cancel` in `~WorkGuard`, `Unlock` in `~lock_guard`, `Answer`. `Crash` stands for the end of the process and for a commit
that throws in the destructor, which ends it. `work` is what the connection sees of its open transaction.

**ExhibitCommands** instantiates it with the commands of exhibits and maps as the statements they execute: `Begin` lists
what a command is sure to ask, `Exec` adds what a read calls for, and checks throw. `MapRequest` to `Answered` put the two
transactions of `MapCommands::set` under the flag `inProgress`. `createFrame` is taken for given: a request has its frame.
The commands of reports and experiments that count an exhibit's uses and purge it (`Retain`, `Refresh` of Exhibits) are left
out, hence no count moves here.

**WebProxy** is `ThriftCommunicator` assignment by assignment, for calls of one view module on several threads, on top of a
server that is AtomicCommands with a caller per connection. A call, the transport it makes and the connection that opens are
the same number, since each call makes one of either; `Open`, `Send`, `Receive`, `Close` go to whatever the fields hold by
then. `OpenFails` is a connection that is refused: the call raises, and leaves a closed transport, a protocol and the client
of an earlier call behind. An exception leaves the transport open, as in the code. What two calls write to one transport does not mingle, and
there are no timeouts, as the code sets none.

**Exhibits** is the server's catalogue. One action per command transaction: `Create`, `Update`, `Move` (setFrame),
`Remove`, `Retain` (a stored event names the exhibit), `Refresh` (finishing an experiment), `RemoveMap`, and a map change
in its two transactions `BeginSetMap`, `FinishSetMap` or the failure between them. Commands the code rejects roll back
and are no step. A frame is its floor and its right/bottom edge, as that is what `checkFrame` compares; colours are
opaque. A serial id is chosen together with its name, which makes names a constant function.

**ExhibitSync** adds one tablet. `Fetch` is the request with its answer; `ClearExhibits` and `StoreExhibits` are the two
Realm transactions of `setExhibits`; `ShowExhibits` or `MissFloor` is the update in memory, which throws at a floor
the tablet does not know. `StartMapDownload`, `SaveFloor`, `FinishMapDownload` replace the floors under it on the same
executor thread. `ResetClick` comes from the UI thread at any step, `Restart` too, and `LoseAnswer` is an answer that gets
lost, an Exception that `ServerTask.run` catches. `RealmThrows` is not: `DatabaseHelper.inTransaction` turns every failure
into `InternalDatabaseError`, an Error, which leaves `run`, and `scheduleWithFixedDelay` never runs the task again. So
`schedule` is "none" before `startBgDataSync`, then "runs", and "ended" after a throw; `bgSyncStarted` stays true, so that
only a new process starts it again. `LoadThrows` is the same Error in the callback of a map download, outside the try: some
floors are loaded, and the synchronisation is not started. Other tablets do not matter: a tablet never writes to the catalogue.

**ItemUse** is the promise of the repositories' headers without counts: an item some list names stays. **Experiments** is
the store with counts. The four tables of actions and questions are one set of items, and the lists of an experiment are
one list of positions. Reports keep the exhibits of their events and the lists the visitor was asked with; `served` is
what tablets downloaded. `Update`, `Clone`, `Remove`, `Start`, `Finish`, `Save` are the commands with every repository
call they make, and with the cascade of the schema.

**Raports** has the four parties of a visit's report at the granularity of their locks, transactions and file
operations: the UI thread (`MarkAsReady`, `AddNewReadyRaport`, `SetReadyInRealm`, under `raportLock`), a saver per visit
(`WakeSaver`, `DeleteOldFile`, `RenameFile`), the executor (`StartNewRaport` ... `SetSentInRealm`, `Reload`), the server
(`ReserveID`, `SaveReport`, `FinishExperiment`). Contents are abstracted to whether the end date is set, which is the
last thing written. Objects are told apart, because the queue is keyed by identity. The back buttons are disabled during
a visit, so there is one at a time. `RealmThrows` is a transaction of the upload that throws, when memory has the new id or
has let go of the object already; it ends the upload task as it does the synchronisation (`schedule`). Transactions that
throw while a visit starts or ends are kills: the spinner stays or the UI thread dies. Ids whose answer is lost are left out of the counter.

**MapFiles** has `MapCommands::set` and `remove` step by step for several workers: `pc` is the worker's next step, `Throw`
leads to the destructors of the `FileHandler`s that exist at that point and on to the catch block, `ServerCrash` stops
all. A picture stands for the uploaded file and all that is rendered from it; `TilesOf` gives the tiles its size leads
to. The frames a change resets are in Exhibits.

**TabletMaps** puts a tablet next to it. The progress dialog keeps the user away until the task's callback, so one
`phase` covers screen and executor. Tiles are fetched one at a time from whatever the server has then. `getMapImages` and
`clearMaps` are one step; a change between them shows itself in the fetching just as well. A `renameTo` that returns
false is not modelled, nor is `floorsCount` apart from the maps in memory; the second of two successive loads is left out.

**Survey** takes one survey from the checks of the server that let it be created (`Offered`) over the queues of the
tablet's `Survey` object (`InitViews`) and the views to the checks of the server on its answers (`CheckSurveyAns`).
`Type`, `SelectOption`, `UnselectOption`, `MoveUp`, `MoveDown` are what a visitor can do to a question, `Redraw` is
Android drawing a row again, which changes `activeId`; `NextQuestion`, `Prev`, `Finish` save and check, each in its own
order. `Recreate` is the activity destroyed and created again on a configuration change. A text is empty, digits or
words, since no check tells more apart; an option is its text, which is unique in its question.

**Visit** is the flow around it: start screen, survey, map, survey, with a survey as one step. The executor's two tasks
that meet a visit run next to it: the download of the experiment, with both callbacks of `NoExperiment`, and the
synchronisation of the exhibits as far as memory and the observers go (ExhibitSync has the rest). `posts` is the queue of
`runOnUiThread`. Opening the map is one handler of the UI thread, but the executor goes on under it, hence `ReadFloor` and
`AddObserver`; taps may come in after a dialog was asked for, hence clicks are not disabled by a dialog that is up, only by
`dialogOpened`. The last button of a survey (`FinishClick`) and the button that ends the visit (`EndClick`) bring up a
confirmation per tap; `confirms` counts those that are up. After the first is confirmed, the activity is on its way out
("starting", "leaving", "ending") and the second can still be: `StartMap` then starts a second map over the first
(`mapLeft`), `ConfirmEnd` a second survey (`twice`). A map that was left under the other comes back when the visit has ended
("stale"), without experiment or raport. `StartFails` is a Realm transaction of `startNewRaport` that throws in the success
callback, outside the try: the future swallows the Error, nothing is posted, the spinner stays (`threw`). `Crash` is a
process that dies, of an exception on the UI thread, by the user at a spinner, or by the system, on any screen but the
first. What an activity held goes with it.

**ExcelReports** has two layers. The first is a function of an experiment and a report: `Header`, `ReportRows` and `Legend`
put the tables together cell by cell, class by class as `utils/excel` does; a heading is the column it stands over. Columns
of dates and times, which every row has, are left out, as is the wording. `TablesAssumption` is what the checks of the
server leave possible: kinds and questions match (`checkSurvey`), there is an answer to each (`checkSurveyAns`), an id names
one question and only simple ones have no options; questions, options and actions may come up more than once. The second is a request: `Transact` is its one
transaction, `Lock` to `CheckZip` what it does under the mutex, `Throw` the exceptions with the `FileHandler`s that remove
all three files, `OpenFile` and `RemoveFile` the web process. A csv file stands for what it was written from. `DbStep`
changes the tables meanwhile, and either side may stop. `ZipFails` leaves an older file alone, as zip does. Each web process
has a connection of its own; threads that share one are the web proxy's problem.

## 3. What is checked

| run | instance | shows |
|---|---|---|
| `exhibits_colour` | the catalogue alone, 2 colours | **violated**: a new colour without a new version |
| `exhibit_commands` | 2 exhibits of one name, 1 floor, 2 colours, 3 versions, 2 workers | a command, statement by statement, is one step or none; what the workers leave is what Exhibits says; the mutex is let go |
| `exhibit_sync` | 2 exhibits (one that reports name once), 2 floors, 4 versions, one tablet, loading that may stop after the first floor, fairness | both copies are right about all the server will not send again; the version in Realm never goes back but by a reset; frames fit their map; a tablet whose task still runs catches up |
| `experiments` | 2 experiments, 2 names, 2 items, 2 positions, 1 exhibit, 2 reports of 2 events | exact counts, events counted, printable and permanent reports, ItemUse implemented |
| `raports` | 2 visits, 1 kill, 2 loadings, ids up to 4 | nothing is counted as sent that is not stored, ids are not shared, what is ready is not lost, wherever a transaction throws |
| `raports_live` | the same without map downloads, ids up to 3, fairness | every finished visit is delivered, unless a throw ended the upload task |
| `raports_twice` | 1 visit, no kill, 2 loadings | **violated**: a visit is stored twice |
| `tablet_maps` | 2 workers, 1 change, 2 floors, 2 pictures with different tiles, one tablet | rows have their files, the flag has one holder; on the tablet, tiles are there and right, floors complete, with the two exceptions named below |
| `survey` | 2 surveys with questions of all kinds, one without any, 2 the server refuses; up to 3 options | what is finished is accepted; going back and forth keeps answers; single answers are single |
| `visit` | 2 experiments, 1 exhibit, 2 floors, 1 action, 1 event a visit, 1 waiting runnable, fairness | screens have their raport, events will be accepted, the map follows the exhibits, the spinner ends unless starting the raport throws |
| `excel_reports` | 2 experiments (no questions before, one asked twice after), 2 reports, 1 exhibit, 2 web processes, 3 targets, 1 stop, fairness | downloads are what was asked for, and fresh with two exceptions; tables are aligned and explained; the mutex is let go |
| `web_proxy` | 3 calls of 2 commands, two statements each | a call that meets no other gets its own answer, done once, whatever earlier calls left in the communicator |

Each passing run stops within three minutes. `Experiments`, `Raports`, `Survey`, `ExhibitCommands` and `WebProxy` may stop
for good (no ids or versions left, all visits over, a survey finished, all calls made), so their runs do not check deadlock;
the others do.

**Bounds.** They are chosen so that each hazard has its smallest instance. Two exhibits give one that changes and one that
must not be forgotten; two floors give a floor beyond those the tablet knows. Four versions allow creation, download,
change, and deletion. Two items over two positions give a list that names an item twice, and overlapping lists on update.
Two visits give an object that waits behind another. Pictures with one and two tiles give a tile that exists in one map
only. Two workers, who are alike (symmetry), meet on the flag, and one change on the server, begun again as often as it
fails, is enough to tear a map. In `exhibit_commands` the exhibits have one name, so two creations meet on it; three
versions let a creation, a move and a removal pass, and two colours tell an update that was taken back. Of the three calls
of `web_proxy` two can meet and leave something behind for the third. The surveys have two questions of one kind around one
of another, so that order and numbering differ. Two experiments with disjoint actions give an event that is right for the
wrong one; one exhibit that moves over two floors and nowhere meets every point of a map being opened, as exhibits do not
interact there. Two requests meet on the mutex, on the csv files and on one zip; the two experiments have empty lists and
surveys, every kind of question, kinds out of order, and a question asked twice; one more report comes while all of an
experiment are asked for. `MaxVersion`, `MaxRefs`, `MaxReports`, `MaxLoads`, `MaxRestarts`, `MaxReportID`, `MaxChanges`,
`MaxEvents`, `MaxPosts` and `MaxStops` bound counters in guards, `MaxRefs` for each exhibit (in `exhibit_sync` one exhibit
is retained and the other can vanish at once), and `Partial` names the floors after which loading may stop; no state
constraint is used.

**Fairness.** `ExhibitSync!FairSpec`: the executor goes on while the task is scheduled (an Exception is caught in
`ServerTask.run`, so the task comes again), and of the answers to requests made again and again not all are lost: strong
fairness on the answer reaching Realm (`ReachRealm`), where the transaction may succeed or throw. That it succeeds is not
assumed, and nothing is owed once the schedule has ended. Nothing is assumed of the server or the user: `CatchesUp` asks for
a tablet whose schedule runs and that is left alone. It also asks that the tablet know the floors (an exhibit on another
makes every task fail until the user downloads the map) and that it not be `hollow` (section 4). `Raports!FairSpec`: the
threads run, the upload task is scheduled until one of its transactions throws, an exchange that is tried for ever succeeds
sometimes; a kill or a new visit is never owed. `Visit!FairSpec`: the UI thread runs what is posted, the executor goes
through with what it has begun, whether it throws or not (`Callback`, `SyncGoesOn`), and a download that waits is not
overtaken for ever by the synchronisation, since the executor's queue is in order of time (strong fairness, as the executor
is busy in between). That the synchronisation is ever run again is not assumed. The download may fail every time; no user ever has to tap. `ExcelReports!FairSpec`: a server thread
that can go on does. Nothing is owed to a request that waits for the mutex, since `std::mutex` is not fair, nor by the web
server: `LockReleased` is about the thread that has the mutex.

**Type invariants.** They say what a module's variables range over. All are part of an inductive invariant that is proved
(section 5), and no run repeats them. WebProxy, AtomicCommands and ExhibitCommands have none of their own: the last two
share their variables with Transactions and Exhibits.

**Mutants.** Every property of a passing run is violated when the definition named in `PROJECT.json` is replaced by its
mutant, a version of the code with one plausible slip; the mutants stand before what they mutate.

## 4. What the code does not do

Two runs end in a counterexample; `findings` in `PROJECT.json` has the quotations.

- A colour changed without changing floor gets no new version (`ExhibitCommands::update`, `Exhibits::setRgbHex`), against
  `Exhibits.h:21`; tablets keep the old colour until something else about the exhibit changes.
- `mapDownloaded` loads the waiting reports again although the queue holds them; `twice` marks the visits, and
  `OnceUnlessLoadedTwice` holds for all others.

Others are excluded by name in properties that hold, so that these say exactly where the code falls short:

- `hollow` (ExhibitSync). `setExhibits` empties Realm in one transaction and stores exhibits and version in another. The
  old version normally makes the server send everything again after a kill in between. But when `updateExhibits` threw at an
  unknown floor, Realm has the current version and memory an older one; the next task is a full refresh, and a kill between
  its transactions leaves an empty Realm that a restart takes for complete.
- `schedule` (ExhibitSync, Raports). One Realm transaction that throws in a periodic task ends this task for the life of
  the process, as the Error passes `ServerTask.run` and the executor drops the task; nothing tells the user. `CatchesUp` and
  `AllDelivered` hold for tasks that have not ended. The safety properties hold through it.
- `threw` (Visit). The same Error in the callback that starts a visit leaves a spinner that nobody can cancel, and after the
  first of the two transactions a raport no screen is for; only a kill helps.
- `changed` (TabletMaps). A map replaced while its tiles are fetched is stored with the old sizes and tiles of the new one.
- `cut` (TabletMaps). A kill between the transactions of two floors leaves a Realm with some of the floors, which no
  restart repairs.
- `StuckExplained` (Raports) names the three ways to a raport that can never be sent. One: `markRaportAsReady` queues it
  before it writes READY_TO_SEND, so the executor may write SENT first and be overwritten; the saver may stop on seeing
  SENT, and the raport loaded after a restart has no end date and fails every task it comes up in.
- `alone` (WebProxy). Of two calls of one view module that meet, each may get the other's answer, lose its connection to the
  other's `close`, or be performed with its answer dropped.
- `recreated` (Survey). The survey after the visit, recreated, finds its queues empty and ends the visit with null answers,
  which Thrift refuses to write: the raport stays on the tablet.
- `twice` (Visit). The button that ends the visit brings up a dialog per tap; confirming two starts two second surveys. One
  ends the visit with null answers, the other dies of the null raport, as does a second survey whose own end is confirmed
  twice.
- `mapLeft` (Visit). The last button of the first survey does so too; confirming two starts two maps, and the one below
  comes back after the visit, without experiment or raport, to die at the next tap. More than two confirmations are not
  followed, nor is what the lower map draws before it is covered.
- `unseen` (Visit). Exhibits changed after the map read their floor and before it became an observer, or in an update that
  threw, are shown as they were.
- `met` (ExcelReports). Two requests for one file: the second zips over the first's file before it is read, with what its
  own, perhaps older, transaction saw; or the first removes the file and the second gets an error, on the server
  ("zip creation failed") or on the web server (error 500).
- `unzipped` (ExcelReports). A file nobody fetched, because somebody stopped, is handed out as new if zip fails over it.
- A report without events has no row in the table, so the answers of its surveys are in no spreadsheet
  (`ExcelProcessor::saveReport` prints rows in the loop over events). Nothing in the repository says it should be otherwise.

- `Twice` (ExcelReports). `checkMultipleChoiceAns` and `checkActions` take an answer or an event that names an option or an
  action twice, and `Survey.cpp:119` and `History.cpp:53` mark what is counted exactly once: it is printed as not chosen.
- `AskedTwice` (ExcelReports). `mergeQuestions` leaves out what comes up again in the second list only, so the legend
  explains twice what the survey before the visit asks twice.

## 5. What is proved

`tlapm` checks the theorems of eight modules for every value of the constants, under the assumptions the modules state:
`CommandAssumption`, `CommandsAssumption`, `ProxyAssumption`, `CatalogueAssumption`, `SyncAssumption`, `StoreAssumption`,
`ReportAssumption`, `MapAssumption`, `ChangesAssumption`, `RaportAssumption`, `ExcelAssumption`, `TablesAssumption`,
`VisitAssumption`, `SurveyAssumption`: finite or typed parameters, null values outside their sets, and in `TablesAssumption`
what the server's checks say of surveys and answers. Only `CommandAssumption` says something of behaviour: that a command is
decided by contents and session, and that it comes to its end within the tables' types. Of the commands of exhibits and maps
it is not assumed but proved (`CommandsKeepToIt`).

| module | theorems | argument |
|---|---|---|
| TransactionsProofs | `Invariance`; from it `MutexExclusive` and the refinement `Refinement` | `TxInv`: a worker is between lock and unlock just when the mutex is held, and then alone; only it has uncommitted contents, and (`Undisturbed`) running on from where it is gives what running from the start on the committed contents gives. So `Commit` and `Cancel` are the abstract step, and every other step stutters or is request and answer. |
| ExhibitCommandsProofs | `CommandsInvariance`; from it `CommandsExclusive`, the refinement of AtomicCommands `CommandsAreAtomic`, and the refinement of Exhibits `CommandsKeepCatalogue` | A measure of what a session has before it (`Left`) falls with every statement, so a command ends, and `Result`, sixteen statements one after the other, is its end: that is `CommandAssumption`, and TransactionsProofs holds of these commands. `FlagHeld` adds who has `MapCommands::inProgress` and which of the two transactions of a map change comes next. For the second refinement each command is followed statement by statement to what it `Leaves` when it returns; a lemma per command puts these together into the one step of Exhibits it is (`CreateEffect`, `CreateMaps` and so on), and one that threw has left the tables alone. `FloorChanging`, the floor whose map is under way, is worked out from the flag and the next transaction, since Exhibits has no workers. |
| ExhibitSyncProofs | `CatalogueInvariant`; from it `FramesAlwaysFit`, `NoFrameMeanwhile`; `ExhibitSyncTyped`, `CopySound`; from it `RealmCopySound`, `MemoryCopySound`; `RealmNeverBack` | `FrameInv`, of the catalogue: no frame can be put on a floor while its map is being replaced, because the row is gone by then (`MapGone`); the new map may have any size. `SyncInv`: Realm's soundness alone is not inductive, because an answer in flight was computed for an older state. `ReplySound` says what it still promises: it was made for the version in memory, and whatever it left out has not changed since. `RefreshSound` covers the gap between the two transactions of a full refresh: Realm's version is older than the last removal there, unless `hollow`. `RealmNeverBack` adds `ReplyNotOlder`: an answer is at least as new as Realm was when it was asked for, and nobody else writes to Realm meanwhile. |
| ServerProofs, experiments | `StoreTyped`, `StoreSound`; from it `CountsExact`, `ReportsAlwaysPrintable`, `EventsAlwaysCounted`, `OneActive`; `NamesUnique`, `ReportsNeverLost`, and the refinement `CountingKeepsItems` | `StoreInv`: a report can be printed because its experiment cannot be edited (`ServedFaithfully`: what a tablet downloaded is what the experiment still says), because counts are exact, so that nothing named is removed, and because events are counted. The counting lemmas relate one change of a list to the cardinality of the positions that name an item. ItemUse follows: an item with positions has a positive count. |
| ServerProofs, communicator | `ProxyInvariance`; from it `OwnAnswer` | `ProxyInv`: a call that meets no other finds in the fields of the communicator what it has put there (`AloneFields`), although earlier calls leave theirs behind, and its one message is in one place of its own connection (`AloneMessage`), which nobody else knows of: connections are silent until they are opened (`SilentUntilOpen`), and a call is performed only after it was sent (`NothingBeforeSend`), hence once. |
| TabletMapsProofs | `MapsTyped`, `MapInvariant`; from it `MapsWhole`, `OneMapChange`; `TabletInvariant`; from it `RealmServed`, `ScreenServed`, `TilesRightOrChanged`, `FloorsTogether` | `MapInv`, of the server: the flag has one holder, so the holder's program counter tells what is on the disk (`RowGone`, `Rendered`). `TabletInv`: what a download has fetched (`Fetching`), moved and stored (`Storing`), and that the map on the screen keeps its files until then. It contains the server's `MapInv`, kept by the server's steps by the same lemmas and untouched by the tablet's. |
| RaportsProofs | `RaportInvariant`; from it `SentIsReceived`, `IdsAreNotShared`, `StoredOnce`; `KeptInvariant`; from it `ReadyIsKept`, `StuckIsExplained` | `RaportInv`: an id is in one place or in several of one raport (`Distinct`: row, queue, the exchange under way, the server), all below the counter (`Issued`), and a raport that is not `twice` has it in one object (`Single`), for which, once a throw has ended the upload, memory may know an id that Realm does not. What the executor writes as SENT was answered, so the server has it. `KeptInv` follows a visit from its own object over saver, file and row to the queue: whoever has stopped working on it has left it where somebody else goes on, or one of the named ways happened. |
| ExcelReportsProofs | `ExcelInvariant`; from it `DownloadsRight`, `DownloadsFresh`, `NothingLeft` | `ExcelInv`: the csv files are of the request that has the mutex (`LockHeld`, `CsvOwned`), so every zip is of what its name says (`ZipsRight`) whoever made it; two requests under way for one file have met (`Met`), so the zip of one that met nobody is its own (`Fresh`). |
| ExcelReportsProofs, tables | `EveryRowAligned`, `EveryLegendExplains`; from them `TablesAlwaysRight` | Header and row are joined from parts that are aligned (`JoinedAligned`), and so is what a survey joins in a loop (`FlatAligned`, by `Recursion` and `UpTo`: induction over sets, since the provers have none over operators). Both take the n-th question of a kind at the same place (`AskedIs`), so an answer is under its question. For the legend, the iterators must also reach the last question of each kind (`NthOnto`: as many places as questions, and no two alike), and `MergedIs` says what the loop of `mergeQuestions` has after any number of steps. |
| TabletVisitProofs, visit | `VisitInvariant`; from it `ScreensHaveRaports`, `EventsAreAccepted`, `DialogsAlone`, `MapFollowsMemory` | `VisitInv`: of the two callbacks and the posted runnables at most one is an outcome, and only for a screen that waits (`Waiting`, which also has the raport each screen needs); confirmations are up only where a button brings them up, two at most, and a second survey is marked (`Ending`); dialogs were made for the visit's experiment and one flag guards both (`Dialogs`). For the map, the queue is what has to be strengthened: for each exhibit that did not change unseen, either a task has yet to tell of it, or the last runnable that does brings what memory has, or none waits and the map is right (`MapFollows`). |
| TabletVisitProofs, survey | `SurveyInvariant`, `SurveyTypes`; from it `FinishedSurveysAccepted`, `OneOption`, `NoneSkipped`, `NothingLost` | `SurveyInv`: order, views and answers are laid out alike (`Laid`), every value fits its question (`Fits`), and only the question on the screen may differ from what is stored (`Stored`). Two lemmas about counting carry it: no two positions of one kind have the same number, so that saving one answer leaves the others alone, and every number up to the count is taken, so that answering every view answers every question. Moving a row swaps two neighbours and changes no count. |

Each invariant was checked by TLC before it was proved. Only model-checked is liveness (`CatchesUp`, `AllDelivered`,
`SpinnerEnds`, `LockReleased`), which like ENABLED is out of the prover's reach.

## 6. What is not modelled

- The views of the web proxy keep no state of their own but the communicator: what they send are the server's commands, and
  the download of reports is in ExcelReports. Nor does any module have the commands that only list (getAll and the like).
- An experiment's removal takes its reports with it by ON DELETE CASCADE, after which nobody lowers the counts of
  their exhibits: such an exhibit stays in the table, marked as deleted. Experiments has it so; it does no harm but the row.
- Web client (jQuery, Leaflet): what it sends is checked again by the server's commands, which are modelled.
- Conversions between Thrift, database and program structures: field by field, without state. What they refuse (null in
  a required field) is in the models where it matters.
- SQL and JSON wrappers, configuration, build: no behaviour beyond what the tables' models assume.
- Pixels, colours, layout, wording, wall clocks. A duration that comes out negative because the clock was set back is the
  one effect of the clock that is known to matter (`hazards`).
- The tiles `ImageProcessor` cuts are taken from the size of the picture as given (`TilesOf`): `RowHasFiles` says that a row
  and its files come and go together, not that the arithmetic is right.
- Two taps on the button that starts a visit: a visit of Visit starts with one (`hazards`).
- Other tablets: they meet only in the server, whose commands interleave freely with the tablet's steps.

## 7. Plan

1. Activities recreated in the middle of a visit, two taps on the survey button (Visit).
2. Pure algorithms: `createFrame` on the web client against `checkFrame` on the server, the tiles `ImageProcessor` cuts
   against those the tablet's view asks for.
3. The commands of experiments and reports statement by statement, as ExhibitCommands has those of exhibits and maps.

## 8. How to run

In this directory, with TLC, the community modules and TLAPS 1.4.5 installed:

```
tlc -workers 2 -config ExhibitSync.cfg MCExhibitSync.tla      # a run: its cfg and module are in PROJECT.json
tlapm ExhibitSyncProofs.tla                                   # the proofs of a component
```
