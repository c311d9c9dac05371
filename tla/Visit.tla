-------------------------------- MODULE Visit --------------------------------
(***************************************************************************)
(* A visit on the tablet: from the start screen over the survey, the map   *)
(* and the second survey back to the start screen, with the executor       *)
(* thread's two tasks that meet it, the download of the experiment and the *)
(* synchronisation of the exhibits.                                        *)
(*                                                                         *)
(* The UI thread runs one handler or posted runnable at a time; posts is   *)
(* what the executor gave to runOnUiThread.  Opening the map is one        *)
(* handler, but the executor goes on under it, so it has a step per floor. *)
(* A tap already under way when a dialog comes up still reaches the map.   *)
(* Of a survey on the screen the model has its last button and what its    *)
(* confirmation does (Survey has the questions).  Two confirmations of one *)
(* end are followed, and of a visit started by two taps only one survey.   *)
(***************************************************************************)
EXTENDS Naturals, Sequences, FiniteSets

CONSTANTS
    Experiment,    \* experiments
    None,          \* null
    Action,        \* actions
    ExhibitActions, \* those of an experiment for an exhibit
    BreakActions,  \* and those for a break
    Exhibit,       \* exhibits
    Floors,        \* number of floors the tablet has maps of
    Nowhere,       \* not on a floor
    Unchanged,     \* not in the list of changed exhibits
    MaxEvents,     \* bound on the events of a visit
    MaxPosts       \* bound on waiting runnables

\* What the visitor did at an exhibit, or in a break.
Event == [exhibit : Exhibit \union {None}, actions : SUBSET Action]
Raport == [experiment : Experiment, events : SUBSET Event]

ASSUME VisitAssumption ==
    /\ ExhibitActions \in [Experiment -> SUBSET Action]
    /\ BreakActions \in [Experiment -> SUBSET Action]
    /\ None \notin Experiment \union Exhibit /\ None \notin Raport
    /\ Floors \in Nat \ {0} /\ MaxEvents \in Nat /\ MaxPosts \in Nat \ {0}
    /\ Nowhere \notin 0 .. Floors - 1 /\ Unchanged \notin (0 .. Floors - 1) \union {Nowhere}

Floor == 0 .. Floors - 1
Place == Floor \union {Nowhere}
Places == [Exhibit -> Place]
Dialog == {"exhibit", "break"}

VARIABLES
    active,     \* server: the active experiment
    screen,     \* what the user has in front
    experiment, \* ExperimentData.experiment
    raport,     \* ExperimentData.currentRaport
    threw,      \* history: a Realm transaction of startNewRaport threw
    requested,  \* the download of the experiment is waiting for the executor
    job,        \* what the executor is in the middle of
    change,     \* where it has put exhibits and not told of it
    posts,      \* runnables waiting for the UI thread
    memory,     \* ExhibitsData.floorInfos
    shown,      \* MapContainer.exhibits
    toRead,     \* the next floor of prepareMapContainer
    observing,  \* MapActivity is among the observers of ExhibitsData
    dialogOf,   \* the experiment the two dialogs were made for
    dialogOpened, \* MapActivity.dialogOpened
    showing,    \* dialogs that are up
    about,      \* the exhibit of the exhibit dialog
    selected,   \* options checked in each dialog's adapter
    confirms,   \* confirmations that are up: of a survey's end, of the map's
    afters,     \* surveys after the visit that are open
    mapLeft,    \* the survey before it was confirmed twice: an older map is left
    unseen,     \* history: exhibits changed without this map being told
    twice       \* history: the end of the visit was confirmed twice

visitVars == <<experiment, raport, threw>>
taskVars == <<requested, job, change>>
mapVars == <<shown, toRead, observing, dialogOf, unseen>>
dialogVars == <<dialogOpened, showing, about, selected>>
endVars == <<confirms, afters, mapLeft, twice>>
vars == <<active, screen, visitVars, taskVars, posts, memory, mapVars, dialogVars, endVars>>

NoChange == [x \in Exhibit |-> Unchanged]
Changes == [Exhibit -> Place \union {Unchanged}]
Runnable == [what : {"failure", "questions", "exhibits"}, change : Changes]

NoMap == toRead' = 0 /\ observing' = FALSE /\ dialogOf' = None /\ unseen' = {}
NoDialogs == dialogOpened' = FALSE /\ showing' = {} /\ about' = None /\ selected' = [d \in Dialog |-> {}]

Init ==
    /\ active \in Experiment \union {None}
    /\ screen = "start"
    /\ experiment = None /\ raport = None /\ threw = FALSE
    /\ requested = FALSE /\ job = "idle" /\ change = NoChange
    /\ posts = <<>>
    /\ memory \in Places
    /\ shown = [x \in Exhibit |-> Nowhere] /\ toRead = 0 /\ observing = FALSE /\ dialogOf = None
    /\ unseen = {}
    /\ dialogOpened = FALSE /\ showing = {} /\ about = None /\ selected = [d \in Dialog |-> {}]
    /\ confirms = 0 /\ afters = 0 /\ mapLeft = FALSE /\ twice = FALSE

-----------------------------------------------------------------------------
(* The server *)

StartExperiment(e) ==
    /\ active = None
    /\ active' = e
    /\ UNCHANGED <<screen, visitVars, taskVars, posts, memory, mapVars, dialogVars, endVars>>

FinishActive ==
    /\ active # None
    /\ active' = None
    /\ UNCHANGED <<screen, visitVars, taskVars, posts, memory, mapVars, dialogVars, endVars>>

-----------------------------------------------------------------------------
(* Starting a visit *)

Post(what) == posts' = Append(posts, [what |-> what, change |-> NoChange])

\* The survey's activity comes up with a spinner that cannot be cancelled.
SurveyClick ==
    /\ screen = "start"
    /\ screen' = "waiting"
    /\ requested' = TRUE
    /\ UNCHANGED <<active, visitVars, job, change, posts, memory, mapVars, dialogVars, endVars>>

\* No network, no server, no answer.
DownloadFails ==
    /\ job = "idle" /\ requested /\ Len(posts) < MaxPosts
    /\ requested' = FALSE
    /\ Post("failure")
    /\ UNCHANGED <<active, screen, visitVars, job, change, memory, mapVars, dialogVars, endVars>>

Download ==
    /\ job = "idle" /\ requested /\ active # None
    /\ requested' = FALSE
    /\ experiment' = active
    /\ job' = "success"
    /\ UNCHANGED <<active, screen, raport, threw, change, posts, memory, mapVars, dialogVars, endVars>>

\* Mutant of NoExperiment: the failure is not passed on.
NoExperimentUntold ==
    /\ job = "idle" /\ requested /\ active = None /\ Len(posts) < MaxPosts
    /\ requested' = FALSE
    /\ job' = "success"
    /\ UNCHANGED <<active, screen, visitVars, change, posts, memory, mapVars, dialogVars, endVars>>

\* The failure callback; run() does not return after it.
NoExperiment ==
    /\ job = "idle" /\ requested /\ active = None /\ Len(posts) < MaxPosts
    /\ requested' = FALSE
    /\ Post("failure")
    /\ job' = "success"
    /\ UNCHANGED <<active, screen, visitVars, change, memory, mapVars, dialogVars, endVars>>

NewRaport == [experiment |-> experiment, events |-> {}]

\* The success callback: startNewRaport, then initViews on the UI thread.
StartNewRaport ==
    /\ job = "success" /\ experiment # None /\ Len(posts) < MaxPosts
    /\ raport' = NewRaport
    /\ Post("questions")
    /\ job' = "idle"
    /\ UNCHANGED <<active, screen, experiment, threw, requested, change, memory, mapVars, dialogVars, endVars>>

\* The callback runs outside run's try: a transaction of startNewRaport that
\* throws, before there is a raport or after, ends it.  The executor's future
\* swallows the Error, nothing is posted and the spinner is not dismissed.
StartFails ==
    /\ job = "success" /\ experiment # None
    /\ raport' \in {raport, NewRaport}
    /\ threw' = TRUE
    /\ job' = "idle"
    /\ UNCHANGED <<active, screen, experiment, requested, change, posts, memory, mapVars, dialogVars, endVars>>

\* The same callback without an experiment: the executor's future swallows
\* the NullPointerException.
StartNothing ==
    /\ job = "success" /\ experiment = None
    /\ job' = "idle"
    /\ UNCHANGED <<active, screen, visitVars, requested, change, posts, memory, mapVars, dialogVars, endVars>>

RunPost ==
    /\ posts # <<>> /\ Head(posts).what \in {"failure", "questions"} /\ screen # "opening"
    /\ posts' = Tail(posts)
    /\ screen' = IF Head(posts).what = "failure" THEN "failed" ELSE "before"
    /\ UNCHANGED <<active, visitVars, taskVars, memory, mapVars, dialogVars, endVars>>

TryAgain ==
    /\ screen = "failed"
    /\ screen' = "waiting"
    /\ requested' = TRUE
    /\ UNCHANGED <<active, visitVars, job, change, posts, memory, mapVars, dialogVars, endVars>>

GiveUp ==
    /\ screen = "failed"
    /\ screen' = "start"
    /\ UNCHANGED <<active, visitVars, taskVars, posts, memory, mapVars, dialogVars, endVars>>

-----------------------------------------------------------------------------
(* The exhibits are synchronised *)

\* setExhibits on a full refresh: Realm and memory are emptied first.
RemoveAllExhibits ==
    /\ job = "idle"
    /\ memory' = [x \in Exhibit |-> Nowhere]
    /\ job' = "refill"
    /\ UNCHANGED <<active, screen, visitVars, requested, change, posts, mapVars, dialogVars, endVars>>

\* The exhibits that came are put where they are now.  In a full refresh every
\* exhibit changes: those that did not come are nowhere.
UpdateExhibits(c) ==
    /\ job \in {"idle", "refill"}
    /\ job = "refill" => \A x \in Exhibit : c[x] # Unchanged
    /\ memory' = [x \in Exhibit |-> IF c[x] = Unchanged THEN memory[x] ELSE c[x]]
    /\ change' = c
    /\ job' = "notify"
    /\ UNCHANGED <<active, screen, visitVars, requested, posts, mapVars, dialogVars, endVars>>

\* A floor without a map, a Realm transaction that throws: nobody is told.
\* The task will not run again in this process if it was the transaction.
UpdateFails ==
    /\ job \in {"refill", "notify"}
    /\ job' = "idle"
    /\ change' = NoChange
    /\ unseen' = IF screen \in {"opening", "map"} THEN Exhibit ELSE {}
    /\ UNCHANGED <<active, screen, visitVars, requested, posts, memory, shown, toRead, observing, dialogOf,
                   dialogVars, endVars>>

Told == {x \in Exhibit : change[x] # Unchanged}

\* notifyObservers: an activity that is still reading is not among them.
NotifyObservers ==
    /\ job = "notify" /\ Len(posts) < MaxPosts
    /\ job' = "idle"
    /\ change' = NoChange
    /\ posts' = IF observing THEN Append(posts, [what |-> "exhibits", change |-> change]) ELSE posts
    /\ unseen' = CASE observing -> unseen \ Told
                   [] screen = "opening" -> unseen \union {x \in Told : shown[x] # memory[x]}
                   [] OTHER -> {}
    /\ UNCHANGED <<active, screen, visitVars, requested, memory, shown, toRead, observing, dialogOf,
                   dialogVars, endVars>>

-----------------------------------------------------------------------------
(* The map is opened and follows the changes *)

\* The last button of a survey: nothing keeps a second tap from bringing up
\* a second dialog.
FinishClick ==
    /\ screen = "before" \/ (screen = "after" /\ afters = 1)
    /\ confirms < 2
    /\ confirms' = confirms + 1
    /\ UNCHANGED <<active, screen, visitVars, taskVars, posts, memory, mapVars, dialogVars, afters, mapLeft, twice>>

\* The survey before the visit is confirmed: it finishes and a MapActivity is
\* started, which leaves time to confirm the other dialog.  The second
\* MapActivity will cover the first.
StartMap ==
    /\ screen \in {"before", "starting"} /\ confirms > 0
    /\ screen' = "starting"
    /\ confirms' = confirms - 1
    /\ mapLeft' = (screen = "starting")
    /\ UNCHANGED <<active, visitVars, taskVars, posts, memory, mapVars, dialogVars, afters, twice>>

\* The survey's activity is gone, with its dialogs, and the MapActivity that
\* was started last comes up.  What was posted before has run, as runnables
\* keep their order.
OpenMap ==
    /\ screen = "starting" /\ posts = <<>>
    /\ screen' = "opening"
    /\ shown' = [x \in Exhibit |-> Nowhere]
    /\ NoMap /\ NoDialogs
    /\ confirms' = 0
    /\ UNCHANGED <<active, visitVars, taskVars, posts, memory, afters, mapLeft, twice>>

ReadFloor ==
    /\ screen = "opening" /\ toRead < Floors
    /\ shown' = [x \in Exhibit |-> IF memory[x] = toRead THEN toRead ELSE shown[x]]
    /\ toRead' = toRead + 1
    /\ UNCHANGED <<active, screen, visitVars, taskVars, posts, memory, observing, dialogOf, unseen,
                   dialogVars, endVars>>

\* prepareDialogs, and at last addObserver.
AddObserver ==
    /\ screen = "opening" /\ toRead = Floors
    /\ dialogOf' = experiment
    /\ observing' = TRUE
    /\ screen' = "map"
    /\ UNCHANGED <<active, visitVars, taskVars, posts, memory, shown, toRead, unseen, dialogVars, endVars>>

Posted == Head(posts).change

\* Mutant of RunUpdate: exhibits that are nowhere now stay on the map.
RunUpdateAdding ==
    /\ posts # <<>> /\ Head(posts).what = "exhibits" /\ observing
    /\ shown' = [x \in Exhibit |-> IF Posted[x] \in {Unchanged, Nowhere} THEN shown[x] ELSE Posted[x]]
    /\ posts' = Tail(posts)
    /\ UNCHANGED <<active, screen, visitVars, taskVars, memory, toRead, observing, dialogOf, unseen,
                   dialogVars, endVars>>

\* MapContainer.updateExhibits.
RunUpdate ==
    /\ posts # <<>> /\ Head(posts).what = "exhibits" /\ observing
    /\ shown' = [x \in Exhibit |-> IF Posted[x] = Unchanged THEN shown[x] ELSE Posted[x]]
    /\ posts' = Tail(posts)
    /\ UNCHANGED <<active, screen, visitVars, taskVars, memory, toRead, observing, dialogOf, unseen,
                   dialogVars, endVars>>

\* The same for a map that is destroyed, where nothing is on its floor.
RunLateUpdate ==
    /\ posts # <<>> /\ Head(posts).what = "exhibits" /\ ~observing
    /\ posts' = Tail(posts)
    /\ shown' = [x \in Exhibit |-> Nowhere]
    /\ UNCHANGED <<active, screen, visitVars, taskVars, memory, toRead, observing, dialogOf, unseen,
                   dialogVars, endVars>>

-----------------------------------------------------------------------------
(* The user on the map *)

DialogActions(d) == IF d = "break" THEN BreakActions[dialogOf] ELSE ExhibitActions[dialogOf]

Open(d) ==
    /\ dialogOpened' = TRUE
    /\ showing' = showing \union {d}
    /\ selected' = [selected EXCEPT ![d] = {}]

\* Mutant of PauseClick: the flag is not looked at.
PauseClickAnyway ==
    /\ screen = "map"
    /\ Open("break")
    /\ UNCHANGED <<active, screen, visitVars, taskVars, posts, memory, mapVars, about, endVars>>

PauseClick ==
    /\ screen = "map" /\ ~dialogOpened
    /\ Open("break")
    /\ UNCHANGED <<active, screen, visitVars, taskVars, posts, memory, mapVars, about, endVars>>

ExhibitClick(x) ==
    /\ screen = "map" /\ ~dialogOpened /\ shown[x] \in Floor
    /\ Open("exhibit")
    /\ about' = x
    /\ UNCHANGED <<active, screen, visitVars, taskVars, posts, memory, mapVars, endVars>>

\* An action is selected or unselected.
ClickAction(d, a) ==
    /\ screen = "map" /\ d \in showing /\ a \in DialogActions(d)
    /\ selected' = [selected EXCEPT ![d] = IF a \in @ THEN @ \ {a} ELSE @ \union {a}]
    /\ UNCHANGED <<active, screen, visitVars, taskVars, posts, memory, mapVars, dialogOpened, showing, about, endVars>>

Close(d) == dialogOpened' = FALSE /\ showing' = showing \ {d}

\* Mutant of NewEvent: a break is taken for the last exhibit as well.
EventAboutLast(d) == [exhibit |-> about, actions |-> selected[d]]

NewEvent(d) == [exhibit |-> IF d = "exhibit" THEN about ELSE None, actions |-> selected[d]]

DialogFinished(d) ==
    /\ screen = "map" /\ d \in showing
    /\ Cardinality(raport.events \union {NewEvent(d)}) <= MaxEvents
    /\ raport' = [raport EXCEPT !.events = @ \union {NewEvent(d)}]
    /\ Close(d)
    /\ UNCHANGED <<active, screen, experiment, threw, taskVars, posts, memory, mapVars, about, selected, endVars>>

DialogCanceled(d) ==
    /\ screen = "map" /\ d \in showing
    /\ Close(d)
    /\ UNCHANGED <<active, screen, visitVars, taskVars, posts, memory, mapVars, about, selected, endVars>>

-----------------------------------------------------------------------------
(* The visit ends *)

\* As with the last button of a survey, every tap brings up a dialog.
EndClick ==
    /\ screen = "map" /\ confirms < 2
    /\ confirms' = confirms + 1
    /\ UNCHANGED <<active, screen, visitVars, taskVars, posts, memory, mapVars, dialogVars, afters, mapLeft, twice>>

CancelEnd ==
    /\ screen \in {"before", "map", "after"} /\ confirms > 0
    /\ confirms' = confirms - 1
    /\ UNCHANGED <<active, screen, visitVars, taskVars, posts, memory, mapVars, dialogVars, afters, mapLeft, twice>>

\* The survey after the visit is started and the map finishes, which leaves
\* time to confirm the other dialog.
ConfirmEnd ==
    /\ screen \in {"map", "leaving"} /\ confirms > 0
    /\ screen' = "leaving"
    /\ confirms' = confirms - 1
    /\ afters' = afters + 1
    /\ twice' = (afters = 1)
    /\ UNCHANGED <<active, visitVars, taskVars, posts, memory, mapVars, dialogVars, mapLeft>>

\* The activity is gone with its fields, but for a runnable that holds it.
DestroyMap ==
    /\ screen = "leaving"
    /\ screen' = "after"
    /\ NoMap /\ NoDialogs
    /\ shown' = IF posts = <<>> THEN [x \in Exhibit |-> Nowhere] ELSE shown
    /\ confirms' = 0
    /\ UNCHANGED <<active, visitVars, taskVars, posts, memory, afters, mapLeft, twice>>

\* Mutant of FinishExperiment: the experiment is kept.
FinishRaport == raport' = None /\ UNCHANGED <<experiment, threw>>

FinishExperiment == raport' = None /\ experiment' = None /\ UNCHANGED threw

\* A second survey has no questions left to ask and ends the visit.
SkipSurvey ==
    /\ screen = "after" /\ afters = 2
    /\ FinishExperiment
    /\ afters' = 1
    /\ UNCHANGED <<active, screen, taskVars, posts, memory, mapVars, dialogVars, confirms, mapLeft, twice>>

\* The survey after the visit is confirmed.  markRaportAsReady fails without a
\* raport (Crash).
FinishSurvey ==
    /\ screen = "after" /\ afters = 1 /\ confirms > 0 /\ raport # None
    /\ FinishExperiment
    /\ screen' = "ending"
    /\ confirms' = confirms - 1
    /\ afters' = 0
    /\ UNCHANGED <<active, taskVars, posts, memory, mapVars, dialogVars, mapLeft, twice>>

\* The survey's activity is gone too.  The start screen comes back, or the
\* map that was left under the other: without an experiment it cannot be
\* drawn again, nor take an event, nor be ended (Crash).
DestroySurvey ==
    /\ screen = "ending"
    /\ screen' = IF mapLeft THEN "stale" ELSE "start"
    /\ confirms' = 0
    /\ UNCHANGED <<active, visitVars, taskVars, posts, memory, mapVars, dialogVars, afters, mapLeft, twice>>

\* The process dies and is started again: by an exception on the UI thread
\* (the end of a survey without a raport, with raportLock held; an event, a
\* dialog or a survey of a stale map; the exhibits of a destroyed map; a Realm
\* transaction that throws), by the user at a spinner, or by the system.
Crash ==
    /\ screen # "start"
    /\ screen' = "start"
    /\ experiment' = None /\ raport' = None /\ threw' = FALSE
    /\ requested' = FALSE /\ job' = "idle" /\ change' = NoChange
    /\ posts' = <<>>
    /\ shown' = [x \in Exhibit |-> Nowhere]
    /\ NoMap /\ NoDialogs
    /\ confirms' = 0 /\ afters' = 0 /\ mapLeft' = FALSE /\ twice' = FALSE
    /\ UNCHANGED <<active, memory>>

-----------------------------------------------------------------------------
DownloadTask == DownloadFails \/ Download \/ NoExperiment
Callback == StartNewRaport \/ StartFails \/ StartNothing
SyncTask == UpdateFails \/ NotifyObservers \/ \E c \in Changes : UpdateExhibits(c)
SyncGoesOn == job # "idle" /\ SyncTask
UserStarts == SurveyClick \/ TryAgain \/ GiveUp \/ StartMap
UserOnMap ==
    \/ PauseClick \/ \E x \in Exhibit : ExhibitClick(x)
    \/ \E d \in Dialog : DialogFinished(d) \/ DialogCanceled(d) \/ \E a \in Action : ClickAction(d, a)
UserEnds == FinishClick \/ EndClick \/ CancelEnd \/ ConfirmEnd \/ FinishSurvey
Loop == RunPost \/ RunUpdate \/ RunLateUpdate
Lifecycle == OpenMap \/ ReadFloor \/ AddObserver \/ DestroyMap \/ SkipSurvey \/ DestroySurvey

Next ==
    \/ FinishActive \/ \E e \in Experiment : StartExperiment(e)
    \/ DownloadTask \/ Callback \/ RemoveAllExhibits \/ SyncTask
    \/ UserStarts \/ UserOnMap \/ UserEnds \/ Loop \/ Lifecycle \/ Crash

Spec == Init /\ [][Next]_vars

\* The UI thread runs what is posted, the executor goes through with a task
\* it has begun, whether it throws or not, and takes up a waiting download
\* before a later sync task: its queue is in order of time, and every request
\* has a timeout.  Nothing is assumed of the user, nor that the sync task,
\* which a transaction that throws ends for good, is ever run again.
FairSpec ==
    /\ Spec
    /\ WF_vars(Loop) /\ WF_vars(Callback \/ SyncGoesOn) /\ SF_vars(DownloadTask)

-----------------------------------------------------------------------------
(* Properties *)

FlowTypeOK ==
    /\ active \in Experiment \union {None} /\ experiment \in Experiment \union {None}
    /\ screen \in {"start", "waiting", "failed", "before", "starting", "opening", "map", "leaving", "after",
                  "ending", "stale"}
    /\ raport \in Raport \union {None} /\ threw \in BOOLEAN
    /\ requested \in BOOLEAN /\ job \in {"idle", "success", "refill", "notify"}
    /\ change \in Changes

PostsTypeOK == posts \in Seq(Runnable) /\ Len(posts) <= MaxPosts

MapTypeOK ==
    /\ memory \in Places /\ shown \in Places /\ toRead \in 0 .. Floors
    /\ observing \in BOOLEAN /\ dialogOf \in Experiment \union {None} /\ unseen \subseteq Exhibit

DialogsTypeOK ==
    /\ dialogOpened \in BOOLEAN /\ showing \subseteq Dialog /\ about \in Exhibit \union {None}
    /\ selected \in [Dialog -> SUBSET Action]
    /\ confirms \in 0 .. 2 /\ afters \in 0 .. 2 /\ mapLeft \in BOOLEAN /\ twice \in BOOLEAN

TypeOK == FlowTypeOK /\ PostsTypeOK /\ MapTypeOK /\ DialogsTypeOK

HasItsRaport == raport # None /\ raport.experiment = experiment

\* A visit goes on exactly while its screens are up: the first survey, the map
\* being started, open or left have its raport and the experiment the raport
\* is for.  So have the second survey, unless the end of the map was confirmed
\* twice, and a map that comes back after it, unless the first survey was.
\* Behind the start screen, the dialog of a failed download and a survey that
\* has ended there is none.
VisitHasItsRaport ==
    /\ screen \in {"before", "starting", "opening", "map", "leaving"} => HasItsRaport
    /\ screen = "after" => HasItsRaport \/ twice
    /\ screen = "stale" => HasItsRaport \/ mapLeft
    /\ screen \in {"start", "failed", "ending"} => raport = None

\* Reports::checkActions and checkBreakActions will accept every event of the
\* raport, for the experiment it names.
EventsAccepted ==
    raport # None =>
        \A e \in raport.events :
            e.actions \subseteq IF e.exhibit = None THEN BreakActions[raport.experiment]
                                                    ELSE ExhibitActions[raport.experiment]

\* Taps on their way cannot bring up the second of the two dialogs, so the
\* events of a visit do not overlap.
OneDialog == Cardinality(showing) <= 1

\* When nothing is under way, the map shows every exhibit where memory has
\* it, but for those whose change came while the map was being opened, or
\* was not passed on because the update failed.
MapShowsMemory ==
    screen = "map" /\ job = "idle" /\ (\A i \in DOMAIN posts : posts[i].what # "exhibits")
        => \A x \in Exhibit \ unseen : shown[x] = memory[x]

\* The spinner cannot be cancelled and the back button is dead: the download
\* ends with the questions or with the dialog, whatever the server answers,
\* unless a Realm transaction of startNewRaport throws.
SpinnerEnds == screen = "waiting" ~> screen # "waiting" \/ threw
==============================================================================
