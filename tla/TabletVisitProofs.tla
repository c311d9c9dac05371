-------------------------- MODULE TabletVisitProofs --------------------------
(***************************************************************************)
(* A visit on the tablet and the surveys around it.  The visit: its screens *)
(* have its raport, its events will be accepted, one dialog is up at a      *)
(* time, and the map shows the exhibits as they are, for any number of      *)
(* experiments, floors, exhibits, events and waiting runnables.  A survey:  *)
(* what can be finished is what the server accepts, a question with a       *)
(* single answer has one, nobody gets past a question unanswered, and what  *)
(* the views show is what is stored, for any surveys of any length and any  *)
(* options.                                                                 *)
(***************************************************************************)
EXTENDS Visit, Survey, FiniteSetTheorems, FunctionTheorems, SequenceTheorems, TLAPS

-----------------------------------------------------------------------------
(* The invariant *)

\* The outcome of a download, on its way to the UI thread.
Outcome(i) == posts[i].what # "exhibits"
NoOutcome == \A i \in DOMAIN posts : posts[i].what = "exhibits"

\* A screen that waits has a request, until there is an outcome.  Before that
\* there is no experiment but the one just downloaded.
Requesting ==
    /\ screen # "waiting" => ~requested
    /\ requested => NoOutcome /\ experiment = None /\ raport = None
    /\ job = "success" /\ experiment # None =>
        screen = "waiting" /\ ~requested /\ NoOutcome /\ raport = None

\* The outcome comes once, to a screen that waits, and is what it says.
Outcomes ==
    /\ screen # "waiting" => NoOutcome
    /\ \A i, j \in DOMAIN posts : Outcome(i) /\ Outcome(j) => i = j
    /\ \A i \in DOMAIN posts :
        /\ posts[i].what = "failure" => experiment = None /\ raport = None
        /\ posts[i].what = "questions" => raport # None /\ raport.experiment = experiment

Screens ==
    /\ VisitHasItsRaport
    /\ screen \in {"start", "failed", "ending"} => experiment = None

Waiting == Requesting /\ Outcomes /\ Screens

\* Two confirmations of the map's end are taken at most, and twice tells of
\* both.  Nobody confirms but a survey or a map.
Ending ==
    /\ screen \notin {"leaving", "after"} => afters = 0
    /\ screen \notin {"before", "starting", "map", "leaving", "after", "ending"} => confirms = 0
    /\ screen \in {"map", "leaving"} => confirms + afters <= 2
    /\ afters = 2 => twice

\* A dialog is up only while dialogOpened is set, on a map whose dialogs were
\* made for the visit's experiment, and offers that experiment's actions.
Dialogs ==
    /\ screen = "map" => dialogOf = experiment
    /\ showing # {} => dialogOpened /\ screen \in {"map", "leaving"}
    /\ \A d, e \in showing : d = e
    /\ "exhibit" \in showing => about # None
    /\ screen = "map" => \A d \in showing : selected[d] \subseteq DialogActions(d)

\* An exhibit whose change is in memory while the map has not been told.
Pending(x) == job = "refill" \/ (job = "notify" /\ x \in Told)

\* A waiting runnable that tells of x, and none after it does.
Tells(i, x) == posts[i].what = "exhibits" /\ posts[i].change[x] # Unchanged
TellsLast(i, x) == Tells(i, x) /\ \A j \in DOMAIN posts : j > i => ~Tells(j, x)

\* An open map is told, and nothing is posted while one is being opened.
Observed ==
    /\ observing <=> screen \in {"map", "leaving"}
    /\ screen = "opening" => posts = <<>>

\* What an observer will be told is what is in memory.
Noticed == job = "notify" => \A x \in Told : memory[x] = change[x]

\* A map being opened has read some floors.
OpeningReads ==
    screen = "opening" => \A x \in Exhibit \ unseen : ~Pending(x) =>
        shown[x] = memory[x] \/ (shown[x] = Nowhere /\ memory[x] \in toRead .. Floors - 1)

\* An open one has the changes that wait for it before it.
MapFollows ==
    screen = "map" => \A x \in Exhibit \ unseen : ~Pending(x) =>
        /\ (\A i \in DOMAIN posts : ~Tells(i, x)) => shown[x] = memory[x]
        /\ \A i \in DOMAIN posts : TellsLast(i, x) => posts[i].change[x] = memory[x]

MapInv == Observed /\ Noticed /\ OpeningReads /\ MapFollows

VisitInv == TypeOK /\ Waiting /\ Ending /\ Dialogs /\ EventsAccepted /\ MapInv
-----------------------------------------------------------------------------
(* Every step keeps its parts *)

\* What is posted waits behind the others.
LEMMA Appended ==
    ASSUME PostsTypeOK, NEW w \in {"failure", "questions", "exhibits"}, NEW c \in Changes,
           Len(posts) < MaxPosts, posts' = Append(posts, [what |-> w, change |-> c])
    PROVE  /\ posts' \in Seq(Runnable)
           /\ Len(posts') = Len(posts) + 1 /\ Len(posts') <= MaxPosts
           /\ DOMAIN posts = 1 .. Len(posts) /\ DOMAIN posts' = 1 .. Len(posts) + 1
           /\ \A i \in DOMAIN posts : posts'[i] = posts[i]
           /\ posts'[Len(posts) + 1] = [what |-> w, change |-> c]
<1>1. [what |-> w, change |-> c] \in Runnable /\ posts \in Seq(Runnable)
  BY DEF Runnable, PostsTypeOK
<1>2. QED
  BY <1>1, AppendProperties, VisitAssumption DEF PostsTypeOK

\* What is run was the first; the others move up.
LEMMA Shifted ==
    ASSUME PostsTypeOK, posts # <<>>, posts' = Tail(posts)
    PROVE  /\ posts' \in Seq(Runnable)
           /\ Len(posts') <= MaxPosts /\ 1 \in DOMAIN posts /\ Head(posts) = posts[1]
           /\ Head(posts) \in Runnable
           /\ DOMAIN posts = 1 .. Len(posts) /\ DOMAIN posts' = 1 .. Len(posts) - 1
           /\ \A i \in DOMAIN posts' : i + 1 \in DOMAIN posts /\ posts'[i] = posts[i + 1]
<1>1. posts \in Seq(Runnable) /\ Len(posts) \in Nat /\ Len(posts) <= MaxPosts
  BY DEF PostsTypeOK
<1>2. Len(posts) >= 1 /\ Head(posts) = posts[1]
  BY <1>1
<1>3. QED
  BY <1>1, <1>2, HeadTailProperties, VisitAssumption

\* Nothing changes, or everything comes new.
LEMMA ChangesTyped ==
    /\ NoChange \in Changes
    /\ [x \in Exhibit |-> Nowhere] \in Places
    /\ [d \in Dialog |-> {}] \in [Dialog -> SUBSET Action]
BY DEF NoChange, Changes, Places, Place

\* What a dialog adds is an event of the visit.
LEMMA EventAdded ==
    ASSUME TypeOK, Screens, Ending, NEW d \in Dialog, DialogFinished(d)
    PROVE  /\ raport \in Raport /\ raport.experiment = experiment
           /\ raport' \in Raport /\ raport' # None
           /\ raport'.experiment = experiment
           /\ raport'.events = raport.events \union {NewEvent(d)}
<1>1. raport \in Raport /\ raport.experiment = experiment
  BY DEF DialogFinished, Screens, VisitHasItsRaport, HasItsRaport, Ending, TypeOK, FlowTypeOK
<1>2. NewEvent(d) \in Event
  BY DEF NewEvent, Event, TypeOK, DialogsTypeOK
<1>3. QED
  BY <1>1, <1>2, VisitAssumption DEF DialogFinished, Raport

\* The types. Every event is added to a raport, as the map has one.
LEMMA FlowTyped ==
    ASSUME TypeOK, FlowTypeOK, Waiting, Ending, Next
    PROVE  FlowTypeOK'
<1>1. CASE
    \/ ReadFloor
    \/ PauseClick
    \/ \E x \in Exhibit : ExhibitClick(x)
    \/ \E d \in Dialog : DialogCanceled(d)
    \/ \E d \in Dialog : \E a \in Action : ClickAction(d, a)
    \/ EndClick
    \/ CancelEnd
    \/ RunUpdate
    \/ RunLateUpdate
    \/ FinishClick
  BY <1>1 DEF FinishClick, ReadFloor, PauseClick, ExhibitClick, DialogCanceled, ClickAction,
      EndClick, CancelEnd, RunUpdate, RunLateUpdate, FlowTypeOK, visitVars, taskVars,
      mapVars, dialogVars, endVars
<1>2. CASE FinishActive
  BY <1>2, ChangesTyped DEF FinishActive, FlowTypeOK, visitVars, taskVars, mapVars,
      dialogVars, endVars
<1>3. ASSUME NEW e \in Experiment, StartExperiment(e) PROVE FlowTypeOK'
  BY <1>3, ChangesTyped DEF StartExperiment, FlowTypeOK, visitVars, taskVars, mapVars,
      dialogVars, endVars
<1>4. CASE DownloadFails
  BY <1>4, ChangesTyped DEF DownloadFails, FlowTypeOK, visitVars, taskVars, mapVars,
      dialogVars, endVars
<1>5. CASE Download
  BY <1>5, ChangesTyped DEF Download, FlowTypeOK, visitVars, taskVars, mapVars, dialogVars,
      endVars
<1>6. CASE NoExperiment
  BY <1>6, ChangesTyped DEF NoExperiment, FlowTypeOK, visitVars, taskVars, mapVars,
      dialogVars, endVars
<1>7. CASE StartNewRaport
  <2>1. raport' \in Raport
    BY <1>7 DEF StartNewRaport, NewRaport, FlowTypeOK, Raport
  <2> QED
    BY <1>7, <2>1 DEF StartNewRaport, FlowTypeOK
<1>8. CASE StartNothing
  BY <1>8, ChangesTyped DEF StartNothing, FlowTypeOK, visitVars, taskVars, mapVars,
      dialogVars, endVars
<1>9. CASE RemoveAllExhibits
  BY <1>9, ChangesTyped DEF RemoveAllExhibits, FlowTypeOK, visitVars, taskVars, mapVars,
      dialogVars, endVars
<1>10. CASE UpdateFails
  BY <1>10, ChangesTyped DEF UpdateFails, FlowTypeOK, visitVars, taskVars, mapVars, dialogVars,
      endVars
<1>11. CASE NotifyObservers
  BY <1>11, ChangesTyped DEF NotifyObservers, FlowTypeOK, visitVars, taskVars, mapVars,
      dialogVars, endVars
<1>12. ASSUME NEW c \in Changes, UpdateExhibits(c) PROVE FlowTypeOK'
  BY <1>12, ChangesTyped DEF UpdateExhibits, FlowTypeOK, visitVars, taskVars, mapVars,
      dialogVars, endVars
<1>13. CASE SurveyClick
  BY <1>13, ChangesTyped DEF SurveyClick, FlowTypeOK, visitVars, taskVars, mapVars, dialogVars,
      endVars
<1>14. CASE TryAgain
  BY <1>14, ChangesTyped DEF TryAgain, FlowTypeOK, visitVars, taskVars, mapVars, dialogVars,
      endVars
<1>15. CASE GiveUp
  BY <1>15, ChangesTyped DEF GiveUp, FlowTypeOK, visitVars, taskVars, mapVars, dialogVars,
      endVars
<1>16. CASE OpenMap
  BY <1>16, ChangesTyped DEF OpenMap, FlowTypeOK, visitVars, taskVars, mapVars, dialogVars,
      endVars
<1>17. ASSUME NEW d \in Dialog, DialogFinished(d) PROVE FlowTypeOK'
  BY <1>17, EventAdded DEF DialogFinished, FlowTypeOK, taskVars, Waiting
<1>18. CASE ConfirmEnd
  BY <1>18, ChangesTyped DEF ConfirmEnd, FlowTypeOK, visitVars, taskVars, mapVars, dialogVars,
      endVars
<1>19. CASE FinishSurvey
  BY <1>19, ChangesTyped DEF FinishSurvey, FlowTypeOK, visitVars, taskVars, mapVars,
      dialogVars, endVars, FinishExperiment
<1>20. CASE RunPost
  BY <1>20, ChangesTyped DEF RunPost, FlowTypeOK, visitVars, taskVars, mapVars, dialogVars,
      endVars
<1>21. CASE Crash
  BY <1>21, ChangesTyped DEF Crash, FlowTypeOK, visitVars, taskVars, mapVars, dialogVars,
      endVars
<1>22. CASE AddObserver
  BY <1>22, ChangesTyped DEF AddObserver, FlowTypeOK, visitVars, taskVars, mapVars, dialogVars,
      endVars
<1>23. CASE DestroyMap
  BY <1>23, ChangesTyped DEF DestroyMap, FlowTypeOK, visitVars, taskVars, mapVars, dialogVars,
      endVars
<1>24. CASE SkipSurvey
  BY <1>24, ChangesTyped DEF SkipSurvey, FlowTypeOK, visitVars, taskVars, mapVars, dialogVars,
      endVars, FinishExperiment
<1>25. CASE StartFails
  <2>1. raport' \in Raport \union {None}
    BY <1>25 DEF StartFails, NewRaport, FlowTypeOK, Raport
  <2> QED
    BY <1>25, <2>1 DEF StartFails, FlowTypeOK
<1>26. CASE StartMap
  BY <1>26 DEF StartMap, FlowTypeOK, visitVars, taskVars, mapVars, dialogVars, endVars
<1>27. CASE DestroySurvey
  BY <1>27 DEF DestroySurvey, FlowTypeOK, visitVars, taskVars, mapVars, dialogVars, endVars
<1>28. QED
  BY <1>1, <1>2, <1>3, <1>4, <1>5, <1>6, <1>7, <1>8, <1>9, <1>10, <1>11, <1>12, <1>13,
      <1>14, <1>15, <1>16, <1>17, <1>18, <1>19, <1>20, <1>21, <1>22, <1>23, <1>24, <1>25,
      <1>26, <1>27 DEF Next, DownloadTask, Callback, SyncTask, UserStarts, UserOnMap,
      UserEnds, Loop, Lifecycle

\* What is posted to the main looper is a runnable of a known kind.
LEMMA PostsTyped ==
    ASSUME FlowTypeOK, PostsTypeOK, Next
    PROVE  PostsTypeOK'
<1>1. CASE
    \/ FinishActive
    \/ \E e \in Experiment : StartExperiment(e)
    \/ Download
    \/ StartNothing
    \/ RemoveAllExhibits
    \/ UpdateFails
    \/ \E c \in Changes : UpdateExhibits(c)
    \/ SurveyClick
    \/ TryAgain
    \/ GiveUp
    \/ OpenMap
    \/ PauseClick
    \/ \E x \in Exhibit : ExhibitClick(x)
    \/ \E d \in Dialog : DialogFinished(d)
    \/ \E d \in Dialog : DialogCanceled(d)
    \/ \E d \in Dialog : \E a \in Action : ClickAction(d, a)
    \/ EndClick
    \/ CancelEnd
    \/ ConfirmEnd
    \/ FinishSurvey
    \/ ReadFloor
    \/ AddObserver
    \/ DestroyMap
    \/ SkipSurvey
    \/ StartFails
    \/ FinishClick
    \/ StartMap
    \/ DestroySurvey
  BY <1>1 DEF StartFails, FinishClick, StartMap, DestroySurvey, FinishActive,
      StartExperiment, Download, StartNothing, RemoveAllExhibits, UpdateFails,
      UpdateExhibits, SurveyClick, TryAgain, GiveUp, OpenMap, PauseClick, ExhibitClick,
      DialogFinished, DialogCanceled, ClickAction, EndClick, CancelEnd, ConfirmEnd,
      FinishSurvey, ReadFloor, AddObserver, DestroyMap, SkipSurvey, PostsTypeOK
<1>2. CASE DownloadFails
  BY <1>2, ChangesTyped, Appended DEF DownloadFails, Post, PostsTypeOK
<1>3. CASE NoExperiment
  BY <1>3, ChangesTyped, Appended DEF NoExperiment, Post, PostsTypeOK
<1>4. CASE StartNewRaport
  BY <1>4, ChangesTyped, Appended DEF StartNewRaport, Post, PostsTypeOK
<1>5. CASE NotifyObservers
  BY <1>5, Appended DEF NotifyObservers, FlowTypeOK, PostsTypeOK
<1>6. CASE RunPost
  BY <1>6, Shifted DEF RunPost, PostsTypeOK
<1>7. CASE RunUpdate
  BY <1>7, Shifted DEF RunUpdate, PostsTypeOK
<1>8. CASE RunLateUpdate
  BY <1>8, Shifted DEF RunLateUpdate, PostsTypeOK
<1>9. CASE Crash
  BY <1>9, VisitAssumption DEF Crash, PostsTypeOK
<1>10. QED
  BY <1>1, <1>2, <1>3, <1>4, <1>5, <1>6, <1>7, <1>8, <1>9 DEF Next, DownloadTask, Callback,
      SyncTask, UserStarts, UserOnMap, UserEnds, Loop, Lifecycle

\* The open map, what it shows and what memory has keep their types.
LEMMA MapTyped ==
    ASSUME FlowTypeOK, PostsTypeOK, MapTypeOK, Next
    PROVE  MapTypeOK'
<1>1. CASE
    \/ FinishActive
    \/ \E e \in Experiment : StartExperiment(e)
    \/ DownloadFails
    \/ Download
    \/ NoExperiment
    \/ StartNewRaport
    \/ StartNothing
    \/ SurveyClick
    \/ TryAgain
    \/ GiveUp
    \/ PauseClick
    \/ \E x \in Exhibit : ExhibitClick(x)
    \/ \E d \in Dialog : DialogFinished(d)
    \/ \E d \in Dialog : DialogCanceled(d)
    \/ \E d \in Dialog : \E a \in Action : ClickAction(d, a)
    \/ EndClick
    \/ CancelEnd
    \/ ConfirmEnd
    \/ FinishSurvey
    \/ RunPost
    \/ SkipSurvey
    \/ StartFails
    \/ FinishClick
    \/ StartMap
    \/ DestroySurvey
  BY <1>1 DEF StartFails, FinishClick, StartMap, DestroySurvey, FinishActive,
      StartExperiment, DownloadFails, Download, NoExperiment, StartNewRaport, StartNothing,
      SurveyClick, TryAgain, GiveUp, PauseClick, ExhibitClick, DialogFinished,
      DialogCanceled, ClickAction, EndClick, CancelEnd, ConfirmEnd, FinishSurvey, RunPost,
      SkipSurvey, MapTypeOK, mapVars
<1>2. CASE RemoveAllExhibits
  BY <1>2, ChangesTyped DEF RemoveAllExhibits, MapTypeOK, mapVars
<1>3. CASE UpdateFails
  BY <1>3, VisitAssumption, ChangesTyped DEF UpdateFails, MapTypeOK, NoMap
<1>4. CASE NotifyObservers
  BY <1>4 DEF NotifyObservers, MapTypeOK, Told
<1>5. ASSUME NEW c \in Changes, UpdateExhibits(c) PROVE MapTypeOK'
  <2>1. memory' \in Places
    BY <1>5 DEF UpdateExhibits, Changes, Places, MapTypeOK
  <2> QED
    BY <1>5, <2>1 DEF UpdateExhibits, MapTypeOK, mapVars
<1>6. CASE OpenMap
  <2>1. observing' \in BOOLEAN
    BY <1>6 DEF OpenMap, NoMap
  <2>2. toRead' \in 0 .. Floors /\ shown' \in Places
    BY <1>6, VisitAssumption, ChangesTyped DEF OpenMap, NoMap, MapTypeOK
  <2> QED
    BY <1>6, <2>1, <2>2 DEF OpenMap, NoMap, MapTypeOK
<1>7. CASE RunUpdate
  <2>1. Posted \in Changes
    BY <1>7, Shifted DEF RunUpdate, Posted, Runnable
  <2>2. shown' \in Places
    BY <1>7, <2>1 DEF RunUpdate, Changes, Places, MapTypeOK
  <2> QED
    BY <1>7, <2>2 DEF RunUpdate, MapTypeOK
<1>8. CASE RunLateUpdate
  BY <1>8, VisitAssumption, ChangesTyped DEF RunLateUpdate, MapTypeOK, NoMap
<1>9. CASE Crash
  <2>1. observing' \in BOOLEAN
    BY <1>9 DEF Crash, NoMap
  <2>2. toRead' \in 0 .. Floors /\ shown' \in Places
    BY <1>9, VisitAssumption, ChangesTyped DEF Crash, NoMap, MapTypeOK
  <2> QED
    BY <1>9, <2>1, <2>2 DEF Crash, NoMap, MapTypeOK
<1>10. CASE ReadFloor
  <2>1. toRead \in Floor /\ toRead + 1 \in 0 .. Floors
    BY <1>10, VisitAssumption DEF ReadFloor, MapTypeOK, Floor
  <2>2. shown' \in Places
    BY <1>10, <2>1 DEF ReadFloor, Places, Place, MapTypeOK
  <2> QED
    BY <1>10, <2>1, <2>2 DEF ReadFloor, MapTypeOK
<1>11. CASE AddObserver
  BY <1>11 DEF AddObserver, MapTypeOK, FlowTypeOK
<1>12. CASE DestroyMap
  <2>1. observing' \in BOOLEAN
    BY <1>12 DEF DestroyMap, NoMap
  <2>2. toRead' \in 0 .. Floors /\ shown' \in Places
    BY <1>12, VisitAssumption, ChangesTyped DEF DestroyMap, NoMap, MapTypeOK
  <2> QED
    BY <1>12, <2>1, <2>2 DEF DestroyMap, NoMap, MapTypeOK
<1>13. QED
  BY <1>1, <1>2, <1>3, <1>4, <1>5, <1>6, <1>7, <1>8, <1>9, <1>10, <1>11, <1>12 DEF Next,
      DownloadTask, Callback, SyncTask, UserStarts, UserOnMap, UserEnds, Loop, Lifecycle

\* The dialogs keep their types.
LEMMA DialogsTyped ==
    ASSUME DialogsTypeOK, Ending, Next
    PROVE  DialogsTypeOK'
<1>1. CASE
    \/ FinishActive
    \/ \E e \in Experiment : StartExperiment(e)
    \/ DownloadFails
    \/ Download
    \/ NoExperiment
    \/ StartNewRaport
    \/ StartNothing
    \/ RemoveAllExhibits
    \/ UpdateFails
    \/ NotifyObservers
    \/ \E c \in Changes : UpdateExhibits(c)
    \/ SurveyClick
    \/ TryAgain
    \/ GiveUp
    \/ RunPost
    \/ RunUpdate
    \/ RunLateUpdate
    \/ ReadFloor
    \/ AddObserver
    \/ StartFails
  BY <1>1 DEF StartFails, FinishActive, StartExperiment, DownloadFails, Download,
      NoExperiment, StartNewRaport, StartNothing, RemoveAllExhibits, UpdateFails,
      NotifyObservers, UpdateExhibits, SurveyClick, TryAgain, GiveUp, RunPost, RunUpdate,
      RunLateUpdate, ReadFloor, AddObserver, DialogsTypeOK, dialogVars, endVars
<1>2. CASE OpenMap
  <2>1. dialogOpened' \in BOOLEAN /\ twice' \in BOOLEAN /\ mapLeft' \in BOOLEAN
    BY <1>2 DEF OpenMap, DialogsTypeOK, NoDialogs
  <2>2. confirms' \in 0 .. 2 /\ afters' \in 0 .. 2
    BY <1>2 DEF OpenMap, DialogsTypeOK
  <2> QED
    BY <1>2, <2>1, <2>2, ChangesTyped DEF OpenMap, DialogsTypeOK, NoDialogs
<1>3. CASE PauseClick
  BY <1>3, ChangesTyped DEF PauseClick, DialogsTypeOK, Open, Dialog, endVars
<1>4. ASSUME NEW x \in Exhibit, ExhibitClick(x) PROVE DialogsTypeOK'
  BY <1>4, ChangesTyped DEF ExhibitClick, DialogsTypeOK, Open, Dialog, endVars
<1>5. ASSUME NEW d \in Dialog, DialogFinished(d) PROVE DialogsTypeOK'
  BY <1>5, ChangesTyped DEF DialogFinished, DialogsTypeOK, Close, endVars
<1>6. ASSUME NEW d \in Dialog, DialogCanceled(d) PROVE DialogsTypeOK'
  BY <1>6, ChangesTyped DEF DialogCanceled, DialogsTypeOK, Close, endVars
<1>7. ASSUME NEW d \in Dialog, NEW a \in Action, ClickAction(d, a) PROVE DialogsTypeOK'
  BY <1>7, ChangesTyped DEF ClickAction, DialogsTypeOK, endVars
<1>8. CASE EndClick
  BY <1>8, ChangesTyped DEF EndClick, DialogsTypeOK, dialogVars
<1>9. CASE CancelEnd
  BY <1>9, ChangesTyped DEF CancelEnd, DialogsTypeOK, dialogVars
<1>10. CASE ConfirmEnd
  BY <1>10, ChangesTyped DEF ConfirmEnd, DialogsTypeOK, Ending, dialogVars
<1>11. CASE FinishSurvey
  <2>1. dialogOpened' \in BOOLEAN /\ twice' \in BOOLEAN
    BY <1>11 DEF FinishSurvey, DialogsTypeOK, dialogVars
  <2>2. confirms' \in 0 .. 2 /\ afters' \in 0 .. 2
    BY <1>11 DEF FinishSurvey, DialogsTypeOK
  <2> QED
    BY <1>11, <2>1, <2>2, ChangesTyped DEF FinishSurvey, DialogsTypeOK, dialogVars
<1>12. CASE Crash
  <2>1. dialogOpened' \in BOOLEAN /\ twice' \in BOOLEAN
    BY <1>12 DEF Crash, DialogsTypeOK, NoDialogs
  <2>2. confirms' \in 0 .. 2 /\ afters' \in 0 .. 2
    BY <1>12 DEF Crash, DialogsTypeOK
  <2> QED
    BY <1>12, <2>1, <2>2, ChangesTyped DEF Crash, DialogsTypeOK, NoDialogs
<1>13. CASE DestroyMap
  <2>1. dialogOpened' \in BOOLEAN /\ twice' \in BOOLEAN
    BY <1>13 DEF DestroyMap, DialogsTypeOK, NoDialogs
  <2>2. confirms' \in 0 .. 2 /\ afters' \in 0 .. 2
    BY <1>13 DEF DestroyMap, DialogsTypeOK
  <2> QED
    BY <1>13, <2>1, <2>2, ChangesTyped DEF DestroyMap, DialogsTypeOK, NoDialogs
<1>14. CASE SkipSurvey
  BY <1>14, ChangesTyped DEF SkipSurvey, DialogsTypeOK, dialogVars
<1>15. CASE FinishClick
  BY <1>15 DEF FinishClick, DialogsTypeOK, dialogVars
<1>16. CASE StartMap
  BY <1>16 DEF StartMap, DialogsTypeOK, dialogVars
<1>17. CASE DestroySurvey
  BY <1>17 DEF DestroySurvey, DialogsTypeOK, dialogVars
<1>18. QED
  BY <1>1, <1>2, <1>3, <1>4, <1>5, <1>6, <1>7, <1>8, <1>9, <1>10, <1>11, <1>12, <1>13,
      <1>14, <1>15, <1>16, <1>17 DEF Next, DownloadTask, Callback, SyncTask, UserStarts,
      UserOnMap, UserEnds, Loop, Lifecycle

\* All of them.
LEMMA NextKeepsType ==
    ASSUME TypeOK, Waiting, Ending, Next
    PROVE  TypeOK'
BY FlowTyped, PostsTyped, MapTyped, DialogsTyped DEF TypeOK

\* What a screen waits for comes once.
LEMMA RequestingKept ==
    ASSUME TypeOK, Requesting, Outcomes, Screens, Next
    PROVE  Requesting'
<1>1. CASE
    \/ FinishActive
    \/ \E e \in Experiment : StartExperiment(e)
    \/ ReadFloor
    \/ PauseClick
    \/ \E x \in Exhibit : ExhibitClick(x)
    \/ \E d \in Dialog : DialogCanceled(d)
    \/ \E d \in Dialog : \E a \in Action : ClickAction(d, a)
    \/ EndClick
    \/ CancelEnd
    \/ FinishClick
  BY <1>1 DEF FinishClick, FinishActive, StartExperiment, ReadFloor, PauseClick,
      ExhibitClick, DialogCanceled, ClickAction, EndClick, CancelEnd, Requesting, NoOutcome,
      visitVars, taskVars
<1>2. CASE DownloadFails
  BY <1>2 DEF DownloadFails, Requesting, visitVars
<1>3. CASE Download
  BY <1>3 DEF Download, Requesting, NoOutcome, visitVars, taskVars, TypeOK, FlowTypeOK
<1>4. CASE NoExperiment
  BY <1>4 DEF NoExperiment, Requesting, visitVars
<1>5. CASE StartNewRaport
  BY <1>5 DEF StartNewRaport, Requesting, visitVars
<1>6. CASE StartNothing
  BY <1>6 DEF StartNothing, Requesting, NoOutcome, visitVars, taskVars
<1>7. CASE RemoveAllExhibits
  BY <1>7 DEF RemoveAllExhibits, Requesting, NoOutcome, visitVars, taskVars
<1>8. CASE UpdateFails
  BY <1>8 DEF UpdateFails, Requesting, NoOutcome, visitVars, taskVars
<1>9. CASE NotifyObservers
  <2>1. CASE observing
    <3>1. /\ Len(posts) \in Nat /\ DOMAIN posts = 1 .. Len(posts) /\ DOMAIN posts' = 1 .. Len(posts) + 1
          /\ \A i \in DOMAIN posts : posts'[i] = posts[i]
          /\ posts'[Len(posts) + 1].what = "exhibits"
      BY <1>9, <2>1, Appended DEF NotifyObservers, TypeOK, FlowTypeOK, PostsTypeOK
    <3> QED
      BY <1>9, <3>1 DEF NotifyObservers, Requesting, NoOutcome, visitVars
  <2>2. CASE ~observing
    BY <1>9, <2>2 DEF NotifyObservers, Requesting, NoOutcome, visitVars
  <2> QED
    BY <2>1, <2>2
<1>10. ASSUME NEW c \in Changes, UpdateExhibits(c) PROVE Requesting'
  BY <1>10 DEF UpdateExhibits, Requesting, NoOutcome, visitVars, taskVars
<1>11. CASE SurveyClick
  BY <1>11 DEF SurveyClick, Requesting, NoOutcome, visitVars, taskVars, Outcomes, Screens,
      VisitHasItsRaport
<1>12. CASE TryAgain
  BY <1>12 DEF TryAgain, Requesting, NoOutcome, visitVars, taskVars, Outcomes, Screens,
      VisitHasItsRaport
<1>13. CASE GiveUp
  BY <1>13 DEF GiveUp, Requesting, NoOutcome, visitVars, taskVars
<1>14. CASE OpenMap
  BY <1>14 DEF OpenMap, NoMap, NoDialogs, Requesting, NoOutcome, visitVars, taskVars
<1>15. ASSUME NEW d \in Dialog, DialogFinished(d) PROVE Requesting'
  <2>1. ~requested /\ ~(job = "success" /\ experiment # None)
    BY <1>15 DEF DialogFinished, Requesting
  <2> QED
    BY <1>15, <2>1 DEF DialogFinished, Requesting, taskVars
<1>16. CASE ConfirmEnd
  BY <1>16 DEF ConfirmEnd, Requesting, NoOutcome, visitVars, taskVars
<1>17. CASE FinishSurvey
  BY <1>17 DEF FinishSurvey, FinishExperiment, Requesting, NoOutcome, visitVars, taskVars
<1>18. CASE RunPost
  <2>1. /\ Len(posts) \in Nat /\ DOMAIN posts = 1 .. Len(posts) /\ 1 \in DOMAIN posts /\ Head(posts) = posts[1]
        /\ DOMAIN posts' = 1 .. Len(posts) - 1
        /\ \A i \in DOMAIN posts' : i + 1 \in DOMAIN posts /\ posts'[i] = posts[i + 1]
    BY <1>18, Shifted DEF RunPost, TypeOK, PostsTypeOK
  <2> QED
    BY <1>18, <2>1 DEF RunPost, Requesting, NoOutcome, visitVars, taskVars, Outcomes, Outcome
<1>19. CASE RunUpdate
  <2>1. /\ Len(posts) \in Nat /\ DOMAIN posts = 1 .. Len(posts) /\ 1 \in DOMAIN posts /\ Head(posts) = posts[1]
        /\ DOMAIN posts' = 1 .. Len(posts) - 1
        /\ \A i \in DOMAIN posts' : i + 1 \in DOMAIN posts /\ posts'[i] = posts[i + 1]
    BY <1>19, Shifted DEF RunUpdate, TypeOK, PostsTypeOK
  <2> QED
    BY <1>19, <2>1 DEF RunUpdate, Requesting, NoOutcome, visitVars, taskVars
<1>20. CASE RunLateUpdate
  <2>1. /\ Len(posts) \in Nat /\ DOMAIN posts = 1 .. Len(posts) /\ 1 \in DOMAIN posts /\ Head(posts) = posts[1]
        /\ DOMAIN posts' = 1 .. Len(posts) - 1
        /\ \A i \in DOMAIN posts' : i + 1 \in DOMAIN posts /\ posts'[i] = posts[i + 1]
    BY <1>20, Shifted DEF RunLateUpdate, TypeOK, PostsTypeOK
  <2> QED
    BY <1>20, <2>1 DEF RunLateUpdate, Requesting, NoOutcome, visitVars, taskVars
<1>21. CASE Crash
  BY <1>21 DEF Crash, NoMap, NoDialogs, Requesting, NoOutcome, visitVars, taskVars
<1>22. CASE AddObserver
  BY <1>22 DEF AddObserver, Requesting, NoOutcome, visitVars, taskVars
<1>23. CASE DestroyMap
  BY <1>23 DEF DestroyMap, NoMap, NoDialogs, Requesting, NoOutcome, visitVars, taskVars
<1>24. CASE SkipSurvey
  BY <1>24 DEF SkipSurvey, FinishExperiment, Requesting, NoOutcome, visitVars, taskVars
<1>25. CASE StartFails
  BY <1>25 DEF StartFails, Requesting, NoOutcome, visitVars, taskVars
<1>26. CASE StartMap
  BY <1>26 DEF StartMap, Requesting, NoOutcome, visitVars, taskVars
<1>27. CASE DestroySurvey
  BY <1>27 DEF DestroySurvey, Requesting, NoOutcome, visitVars, taskVars
<1>28. QED
  BY <1>1, <1>2, <1>3, <1>4, <1>5, <1>6, <1>7, <1>8, <1>9, <1>10, <1>11, <1>12, <1>13,
      <1>14, <1>15, <1>16, <1>17, <1>18, <1>19, <1>20, <1>21, <1>22, <1>23, <1>24, <1>25,
      <1>26, <1>27 DEF Next, DownloadTask, Callback, SyncTask, UserStarts, UserOnMap,
      UserEnds, Loop, Lifecycle

\* A screen that still waits has at most one outcome, posted or to come.
LEMMA OutcomesKept ==
    ASSUME TypeOK, Requesting, Outcomes, Next
    PROVE  Outcomes'
<1>1. CASE
    \/ FinishActive
    \/ \E e \in Experiment : StartExperiment(e)
    \/ ReadFloor
    \/ PauseClick
    \/ \E x \in Exhibit : ExhibitClick(x)
    \/ \E d \in Dialog : DialogCanceled(d)
    \/ \E d \in Dialog : \E a \in Action : ClickAction(d, a)
    \/ EndClick
    \/ CancelEnd
    \/ FinishClick
  BY <1>1 DEF FinishClick, FinishActive, StartExperiment, ReadFloor, PauseClick,
      ExhibitClick, DialogCanceled, ClickAction, EndClick, CancelEnd, Outcomes, NoOutcome,
      Outcome, visitVars, taskVars
<1>2. CASE DownloadFails
  <2>1. /\ Len(posts) \in Nat /\ DOMAIN posts = 1 .. Len(posts) /\ DOMAIN posts' = 1 .. Len(posts) + 1
        /\ \A i \in DOMAIN posts : posts'[i] = posts[i]
        /\ posts'[Len(posts) + 1].what = "failure"
    BY <1>2, Appended, ChangesTyped DEF DownloadFails, Post, TypeOK, PostsTypeOK
  <2>2. NoOutcome /\ experiment = None /\ raport = None /\ screen = "waiting"
    BY <1>2 DEF DownloadFails, Requesting
  <2>3. experiment' = None /\ raport' = None
    BY <1>2, <2>2 DEF DownloadFails, visitVars
  <2> QED
    BY <1>2, <2>1, <2>2, <2>3 DEF DownloadFails, Outcomes, NoOutcome, Outcome
<1>3. CASE Download
  <2>1. posts' = posts /\ screen' = screen /\ NoOutcome
    BY <1>3 DEF Download, Requesting
  <2> QED
    BY <2>1 DEF Outcomes, NoOutcome, Outcome
<1>4. CASE NoExperiment
  <2>1. /\ Len(posts) \in Nat /\ DOMAIN posts = 1 .. Len(posts) /\ DOMAIN posts' = 1 .. Len(posts) + 1
        /\ \A i \in DOMAIN posts : posts'[i] = posts[i]
        /\ posts'[Len(posts) + 1].what = "failure"
    BY <1>4, Appended, ChangesTyped DEF NoExperiment, Post, TypeOK, PostsTypeOK
  <2>2. NoOutcome /\ experiment = None /\ raport = None /\ screen = "waiting"
    BY <1>4 DEF NoExperiment, Requesting
  <2>3. experiment' = None /\ raport' = None
    BY <1>4, <2>2 DEF NoExperiment, visitVars
  <2> QED
    BY <1>4, <2>1, <2>2, <2>3 DEF NoExperiment, Outcomes, NoOutcome, Outcome
<1>5. CASE StartNewRaport
  <2>1. /\ Len(posts) \in Nat /\ DOMAIN posts = 1 .. Len(posts) /\ DOMAIN posts' = 1 .. Len(posts) + 1
        /\ \A i \in DOMAIN posts : posts'[i] = posts[i]
        /\ posts'[Len(posts) + 1].what = "questions"
    BY <1>5, Appended, ChangesTyped DEF StartNewRaport, Post, TypeOK, PostsTypeOK
  <2>2. NoOutcome /\ experiment \in Experiment /\ screen = "waiting"
    BY <1>5 DEF StartNewRaport, TypeOK, FlowTypeOK, Requesting
  <2>3. raport' # None /\ raport'.experiment = experiment'
    BY <1>5, <2>2, VisitAssumption DEF StartNewRaport, NewRaport, Raport
  <2> QED
    BY <1>5, <2>1, <2>2, <2>3 DEF StartNewRaport, Outcomes, NoOutcome, Outcome
<1>6. CASE StartNothing
  BY <1>6 DEF StartNothing, Outcomes, NoOutcome, Outcome, visitVars
<1>7. CASE RemoveAllExhibits
  BY <1>7 DEF RemoveAllExhibits, Outcomes, NoOutcome, Outcome, visitVars
<1>8. CASE UpdateFails
  BY <1>8 DEF UpdateFails, Outcomes, NoOutcome, Outcome, visitVars
<1>9. CASE NotifyObservers
  <2>1. CASE observing
    <3>1. /\ Len(posts) \in Nat /\ DOMAIN posts = 1 .. Len(posts) /\ DOMAIN posts' = 1 .. Len(posts) + 1
          /\ \A i \in DOMAIN posts : posts'[i] = posts[i]
          /\ posts'[Len(posts) + 1].what = "exhibits"
      BY <1>9, <2>1, Appended DEF NotifyObservers, TypeOK, FlowTypeOK, PostsTypeOK
    <3> QED
      BY <1>9, <3>1 DEF NotifyObservers, Outcomes, NoOutcome, Outcome, visitVars
  <2>2. CASE ~observing
    BY <1>9, <2>2 DEF NotifyObservers, Outcomes, NoOutcome, Outcome, visitVars
  <2> QED
    BY <2>1, <2>2
<1>10. ASSUME NEW c \in Changes, UpdateExhibits(c) PROVE Outcomes'
  BY <1>10 DEF UpdateExhibits, Outcomes, NoOutcome, Outcome, visitVars
<1>11. CASE SurveyClick
  BY <1>11 DEF SurveyClick, Outcomes, NoOutcome, Outcome, visitVars
<1>12. CASE TryAgain
  BY <1>12 DEF TryAgain, Outcomes, NoOutcome, Outcome, visitVars
<1>13. CASE GiveUp
  BY <1>13 DEF GiveUp, Outcomes, NoOutcome, Outcome, visitVars
<1>14. CASE OpenMap
  BY <1>14 DEF OpenMap, NoMap, NoDialogs, Outcomes, NoOutcome, Outcome, visitVars
<1>15. ASSUME NEW d \in Dialog, DialogFinished(d) PROVE Outcomes'
  <2>1. posts' = posts /\ NoOutcome
    BY <1>15 DEF DialogFinished, Outcomes
  <2> QED
    BY <1>15, <2>1 DEF DialogFinished, Outcomes, NoOutcome, Outcome
<1>16. CASE ConfirmEnd
  BY <1>16 DEF ConfirmEnd, Outcomes, NoOutcome, Outcome, visitVars
<1>17. CASE FinishSurvey
  <2>1. posts' = posts /\ NoOutcome
    BY <1>17 DEF FinishSurvey, Outcomes
  <2> QED
    BY <1>17, <2>1 DEF FinishSurvey, Outcomes, NoOutcome, Outcome
<1>18. CASE RunPost
  <2>1. /\ Len(posts) \in Nat /\ DOMAIN posts = 1 .. Len(posts) /\ 1 \in DOMAIN posts /\ Head(posts) = posts[1]
        /\ DOMAIN posts' = 1 .. Len(posts) - 1
        /\ \A i \in DOMAIN posts' : i + 1 \in DOMAIN posts /\ posts'[i] = posts[i + 1]
    BY <1>18, Shifted DEF RunPost, TypeOK, PostsTypeOK
  <2> QED
    BY <1>18, <2>1 DEF RunPost, Outcomes, NoOutcome, Outcome, visitVars
<1>19. CASE RunUpdate
  <2>1. /\ Len(posts) \in Nat /\ DOMAIN posts = 1 .. Len(posts) /\ 1 \in DOMAIN posts /\ Head(posts) = posts[1]
        /\ DOMAIN posts' = 1 .. Len(posts) - 1
        /\ \A i \in DOMAIN posts' : i + 1 \in DOMAIN posts /\ posts'[i] = posts[i + 1]
    BY <1>19, Shifted DEF RunUpdate, TypeOK, PostsTypeOK
  <2> QED
    BY <1>19, <2>1 DEF RunUpdate, Outcomes, NoOutcome, Outcome, visitVars
<1>20. CASE RunLateUpdate
  <2>1. /\ Len(posts) \in Nat /\ DOMAIN posts = 1 .. Len(posts) /\ 1 \in DOMAIN posts /\ Head(posts) = posts[1]
        /\ DOMAIN posts' = 1 .. Len(posts) - 1
        /\ \A i \in DOMAIN posts' : i + 1 \in DOMAIN posts /\ posts'[i] = posts[i + 1]
    BY <1>20, Shifted DEF RunLateUpdate, TypeOK, PostsTypeOK
  <2> QED
    BY <1>20, <2>1 DEF RunLateUpdate, Outcomes, NoOutcome, Outcome, visitVars
<1>21. CASE Crash
  BY <1>21 DEF Crash, Outcomes, NoOutcome
<1>22. CASE AddObserver
  BY <1>22 DEF AddObserver, Outcomes, NoOutcome, Outcome, visitVars
<1>23. CASE DestroyMap
  BY <1>23 DEF DestroyMap, NoMap, NoDialogs, Outcomes, NoOutcome, Outcome, visitVars
<1>24. CASE SkipSurvey
  <2>1. posts' = posts /\ NoOutcome
    BY <1>24 DEF SkipSurvey, Outcomes
  <2> QED
    BY <1>24, <2>1 DEF SkipSurvey, Outcomes, NoOutcome, Outcome
<1>25. CASE StartFails
  <2>1. posts' = posts /\ screen' = screen /\ NoOutcome
    BY <1>25 DEF StartFails, Requesting
  <2> QED
    BY <2>1 DEF Outcomes, NoOutcome, Outcome
<1>26. CASE StartMap
  BY <1>26 DEF StartMap, Outcomes, NoOutcome, Outcome, visitVars
<1>27. CASE DestroySurvey
  BY <1>27 DEF DestroySurvey, Outcomes, NoOutcome, Outcome, visitVars
<1>28. QED
  BY <1>1, <1>2, <1>3, <1>4, <1>5, <1>6, <1>7, <1>8, <1>9, <1>10, <1>11, <1>12, <1>13,
      <1>14, <1>15, <1>16, <1>17, <1>18, <1>19, <1>20, <1>21, <1>22, <1>23, <1>24, <1>25,
      <1>26, <1>27 DEF Next, DownloadTask, Callback, SyncTask, UserStarts, UserOnMap,
      UserEnds, Loop, Lifecycle

\* A screen past its wait has its raport.
LEMMA ScreensKept ==
    ASSUME TypeOK, Requesting, Outcomes, Screens, Ending, Next
    PROVE  Screens'
<1>1. CASE
    \/ FinishActive
    \/ \E e \in Experiment : StartExperiment(e)
    \/ ReadFloor
    \/ PauseClick
    \/ \E x \in Exhibit : ExhibitClick(x)
    \/ \E d \in Dialog : DialogCanceled(d)
    \/ \E d \in Dialog : \E a \in Action : ClickAction(d, a)
    \/ EndClick
    \/ CancelEnd
    \/ FinishClick
  BY <1>1 DEF FinishClick, FinishActive, StartExperiment, ReadFloor, PauseClick,
      ExhibitClick, DialogCanceled, ClickAction, EndClick, CancelEnd, Screens,
      VisitHasItsRaport, HasItsRaport, visitVars, endVars
<1>2. CASE DownloadFails
  BY <1>2 DEF DownloadFails, Post, Screens, VisitHasItsRaport, HasItsRaport, visitVars, endVars
<1>3. CASE Download
  BY <1>3 DEF Download, Screens, VisitHasItsRaport, HasItsRaport, visitVars, endVars, Requesting
<1>4. CASE NoExperiment
  BY <1>4 DEF NoExperiment, Post, Screens, VisitHasItsRaport, HasItsRaport, visitVars, endVars
<1>5. CASE StartNewRaport
  BY <1>5 DEF StartNewRaport, Post, Screens, VisitHasItsRaport, HasItsRaport, visitVars, endVars, Requesting
<1>6. CASE StartNothing
  BY <1>6 DEF StartNothing, Screens, VisitHasItsRaport, HasItsRaport, visitVars, endVars
<1>7. CASE RemoveAllExhibits
  BY <1>7 DEF RemoveAllExhibits, Screens, VisitHasItsRaport, HasItsRaport, visitVars, endVars
<1>8. CASE UpdateFails
  BY <1>8 DEF UpdateFails, Screens, VisitHasItsRaport, HasItsRaport, visitVars, endVars
<1>9. CASE NotifyObservers
  BY <1>9 DEF NotifyObservers, Screens, VisitHasItsRaport, HasItsRaport, visitVars, endVars
<1>10. ASSUME NEW c \in Changes, UpdateExhibits(c) PROVE Screens'
  BY <1>10 DEF UpdateExhibits, Screens, VisitHasItsRaport, HasItsRaport, visitVars, endVars
<1>11. CASE SurveyClick
  BY <1>11 DEF SurveyClick, Screens, VisitHasItsRaport, HasItsRaport, visitVars, endVars
<1>12. CASE TryAgain
  BY <1>12 DEF TryAgain, Screens, VisitHasItsRaport, HasItsRaport, visitVars, endVars
<1>13. CASE GiveUp
  BY <1>13 DEF GiveUp, Screens, VisitHasItsRaport, HasItsRaport, visitVars, endVars
<1>14. CASE OpenMap
  BY <1>14 DEF OpenMap, NoMap, NoDialogs, Screens, VisitHasItsRaport, HasItsRaport, visitVars, endVars
<1>15. ASSUME NEW d \in Dialog, DialogFinished(d) PROVE Screens'
  BY <1>15, EventAdded DEF DialogFinished, Screens, VisitHasItsRaport, HasItsRaport, endVars
<1>16. CASE ConfirmEnd
  BY <1>16 DEF ConfirmEnd, Screens, VisitHasItsRaport, HasItsRaport, visitVars, endVars, Ending, TypeOK,
      DialogsTypeOK
<1>17. CASE FinishSurvey
  BY <1>17 DEF FinishSurvey, FinishExperiment, Screens, VisitHasItsRaport, HasItsRaport, visitVars, endVars
<1>18. CASE RunPost
  <2>1. /\ Head(posts) = posts[1] /\ 1 \in DOMAIN posts
        /\ screen = "waiting" /\ posts[1].what \in {"failure", "questions"}
    BY <1>18, Shifted DEF RunPost, TypeOK, PostsTypeOK, Outcomes, NoOutcome
  <2> QED
    BY <1>18, <2>1 DEF RunPost, Outcomes, Screens, VisitHasItsRaport, HasItsRaport, visitVars, endVars
<1>19. CASE RunUpdate
  BY <1>19 DEF RunUpdate, Screens, VisitHasItsRaport, HasItsRaport, visitVars, endVars
<1>20. CASE RunLateUpdate
  BY <1>20 DEF RunLateUpdate, Screens, VisitHasItsRaport, HasItsRaport, visitVars, endVars
<1>21. CASE Crash
  BY <1>21 DEF Crash, NoMap, NoDialogs, Screens, VisitHasItsRaport, HasItsRaport, visitVars, endVars
<1>22. CASE AddObserver
  BY <1>22 DEF AddObserver, Screens, VisitHasItsRaport, HasItsRaport, visitVars, endVars
<1>23. CASE DestroyMap
  BY <1>23 DEF DestroyMap, NoMap, NoDialogs, Screens, VisitHasItsRaport, HasItsRaport, visitVars, endVars
<1>24. CASE SkipSurvey
  BY <1>24 DEF SkipSurvey, FinishExperiment, Screens, VisitHasItsRaport, HasItsRaport, visitVars, endVars,
      Ending
<1>25. CASE StartFails
  BY <1>25 DEF StartFails, Requesting, Screens, VisitHasItsRaport, HasItsRaport, visitVars, endVars
<1>26. CASE StartMap
  BY <1>26 DEF StartMap, Screens, VisitHasItsRaport, HasItsRaport, visitVars, endVars
<1>27. CASE DestroySurvey
  BY <1>27 DEF DestroySurvey, Screens, VisitHasItsRaport, HasItsRaport, visitVars, endVars
<1>28. QED
  BY <1>1, <1>2, <1>3, <1>4, <1>5, <1>6, <1>7, <1>8, <1>9, <1>10, <1>11, <1>12, <1>13,
      <1>14, <1>15, <1>16, <1>17, <1>18, <1>19, <1>20, <1>21, <1>22, <1>23, <1>24, <1>25,
      <1>26, <1>27 DEF Next, DownloadTask, Callback, SyncTask, UserStarts, UserOnMap,
      UserEnds, Loop, Lifecycle

\* The three parts of the argument that an outcome comes once.
LEMMA NextKeepsWaiting ==
    ASSUME TypeOK, Waiting, Ending, Next
    PROVE  Waiting'
BY RequestingKept, OutcomesKept, ScreensKept DEF Waiting

\* The end of the map is confirmed twice at most.
LEMMA NextKeepsEnding ==
    ASSUME TypeOK, Outcomes, Ending, Next
    PROVE  Ending'
<1>1. CASE
    \/ FinishActive
    \/ \E e \in Experiment : StartExperiment(e)
    \/ DownloadFails
    \/ Download
    \/ NoExperiment
    \/ StartNewRaport
    \/ StartNothing
    \/ RemoveAllExhibits
    \/ UpdateFails
    \/ NotifyObservers
    \/ \E c \in Changes : UpdateExhibits(c)
    \/ PauseClick
    \/ \E x \in Exhibit : ExhibitClick(x)
    \/ \E d \in Dialog : DialogFinished(d)
    \/ \E d \in Dialog : DialogCanceled(d)
    \/ \E d \in Dialog : \E a \in Action : ClickAction(d, a)
    \/ RunUpdate
    \/ RunLateUpdate
    \/ StartFails
  <2>1. screen' = screen /\ UNCHANGED endVars
    BY <1>1 DEF StartFails, FinishActive, StartExperiment, DownloadFails, Download,
        NoExperiment, StartNewRaport, StartNothing, RemoveAllExhibits, UpdateFails,
        NotifyObservers, UpdateExhibits, PauseClick, ExhibitClick, DialogFinished,
        DialogCanceled, ClickAction, RunUpdate, RunLateUpdate, endVars
  <2> QED
    BY <2>1 DEF Ending, endVars
<1>2. CASE SurveyClick
  BY <1>2 DEF SurveyClick, Ending, endVars, TypeOK, DialogsTypeOK
<1>3. CASE TryAgain
  BY <1>3 DEF TryAgain, Ending, endVars, TypeOK, DialogsTypeOK
<1>4. CASE GiveUp
  BY <1>4 DEF GiveUp, Ending, endVars, TypeOK, DialogsTypeOK
<1>5. CASE OpenMap
  BY <1>5 DEF OpenMap, NoMap, NoDialogs, Ending, endVars, TypeOK, DialogsTypeOK
<1>6. CASE EndClick
  BY <1>6 DEF EndClick, Ending, endVars, TypeOK, DialogsTypeOK
<1>7. CASE CancelEnd
  BY <1>7 DEF CancelEnd, Ending, endVars, TypeOK, DialogsTypeOK
<1>8. CASE ConfirmEnd
  <2>1. confirms \in 1 .. 2 /\ afters \in 0 .. 1 /\ confirms + afters <= 2
    BY <1>8 DEF ConfirmEnd, Ending, TypeOK, DialogsTypeOK
  <2>2. confirms' = confirms - 1 /\ afters' = afters + 1 /\ (afters = 1 => twice') /\ screen' = "leaving"
    BY <1>8 DEF ConfirmEnd
  <2> QED
    BY <2>1, <2>2 DEF Ending
<1>9. CASE FinishSurvey
  BY <1>9 DEF FinishSurvey, FinishExperiment, Ending, endVars, TypeOK, DialogsTypeOK
<1>10. CASE RunPost
  <2>1. screen = "waiting"
    BY <1>10, Shifted DEF RunPost, TypeOK, PostsTypeOK, Outcomes, NoOutcome
  <2> QED
    BY <1>10, <2>1 DEF RunPost, Ending, endVars
<1>11. CASE Crash
  BY <1>11 DEF Crash, NoMap, NoDialogs, Ending, endVars, TypeOK, DialogsTypeOK
<1>12. CASE ReadFloor
  BY <1>12 DEF ReadFloor, Ending, endVars, TypeOK, DialogsTypeOK
<1>13. CASE AddObserver
  BY <1>13 DEF AddObserver, Ending, endVars, TypeOK, DialogsTypeOK
<1>14. CASE DestroyMap
  BY <1>14 DEF DestroyMap, NoMap, NoDialogs, Ending, endVars, TypeOK, DialogsTypeOK
<1>15. CASE SkipSurvey
  BY <1>15 DEF SkipSurvey, FinishExperiment, Ending, endVars, TypeOK, DialogsTypeOK
<1>16. CASE FinishClick
  BY <1>16 DEF FinishClick, Ending, endVars, TypeOK, DialogsTypeOK
<1>17. CASE StartMap
  BY <1>17 DEF StartMap, Ending, endVars, TypeOK, DialogsTypeOK
<1>18. CASE DestroySurvey
  BY <1>18 DEF DestroySurvey, Ending, endVars, TypeOK, DialogsTypeOK
<1>19. QED
  BY <1>1, <1>2, <1>3, <1>4, <1>5, <1>6, <1>7, <1>8, <1>9, <1>10, <1>11, <1>12, <1>13,
      <1>14, <1>15, <1>16, <1>17, <1>18 DEF Next, DownloadTask, Callback, SyncTask,
      UserStarts, UserOnMap, UserEnds, Loop, Lifecycle

\* A dialog offers what the experiment of the visit has.
LEMMA NextKeepsDialogs ==
    ASSUME TypeOK, Waiting, Dialogs, Next
    PROVE  Dialogs'
<1>1. CASE
    \/ FinishActive
    \/ \E e \in Experiment : StartExperiment(e)
    \/ DownloadFails
    \/ NoExperiment
    \/ StartNewRaport
    \/ StartNothing
    \/ RemoveAllExhibits
    \/ UpdateFails
    \/ NotifyObservers
    \/ \E c \in Changes : UpdateExhibits(c)
    \/ EndClick
    \/ CancelEnd
    \/ RunUpdate
    \/ RunLateUpdate
    \/ ReadFloor
    \/ StartFails
    \/ FinishClick
  BY <1>1 DEF StartFails, FinishClick, FinishActive, StartExperiment, DownloadFails,
      NoExperiment, StartNewRaport, StartNothing, RemoveAllExhibits, UpdateFails,
      NotifyObservers, UpdateExhibits, EndClick, CancelEnd, RunUpdate, RunLateUpdate,
      ReadFloor, Dialogs, DialogActions, visitVars, mapVars, dialogVars
<1>2. CASE Download
  BY <1>2 DEF Download, Dialogs, DialogActions, dialogVars, mapVars, visitVars, Waiting,
      Requesting
<1>3. CASE SurveyClick
  BY <1>3 DEF SurveyClick, Dialogs, DialogActions, dialogVars, mapVars, visitVars, TypeOK,
      DialogsTypeOK
<1>4. CASE TryAgain
  BY <1>4 DEF TryAgain, Dialogs, DialogActions, dialogVars, mapVars, visitVars
<1>5. CASE GiveUp
  BY <1>5 DEF GiveUp, Dialogs, DialogActions, dialogVars, mapVars, visitVars
<1>6. CASE OpenMap
  BY <1>6 DEF OpenMap, NoMap, NoDialogs, Dialogs, DialogActions, dialogVars, mapVars,
      visitVars
<1>7. CASE PauseClick
  <2>1. showing = {} /\ showing' = {"break"} /\ dialogOpened' /\ screen' = "map" /\ dialogOf' = experiment'
    BY <1>7 DEF PauseClick, Open, Dialogs, visitVars, mapVars
  <2>2. selected'["break"] = {}
    BY <1>7 DEF PauseClick, Open, Dialog, TypeOK, DialogsTypeOK
  <2> QED
    BY <2>1, <2>2 DEF Dialogs
<1>8. ASSUME NEW x \in Exhibit, ExhibitClick(x) PROVE Dialogs'
  <2>1. showing = {} /\ showing' = {"exhibit"} /\ dialogOpened' /\ screen' = "map" /\ dialogOf' = experiment'
    BY <1>8 DEF ExhibitClick, Open, Dialogs, visitVars, mapVars
  <2>2. selected'["exhibit"] = {}
    BY <1>8 DEF ExhibitClick, Open, Dialog, TypeOK, DialogsTypeOK
  <2>3. about' # None
    BY <1>8, VisitAssumption DEF ExhibitClick
  <2> QED
    BY <2>1, <2>2, <2>3 DEF Dialogs
<1>9. ASSUME NEW d \in Dialog, DialogFinished(d) PROVE Dialogs'
  BY <1>9 DEF DialogFinished, Close, NewEvent, Dialogs, DialogActions, dialogVars, mapVars,
      visitVars
<1>10. ASSUME NEW d \in Dialog, DialogCanceled(d) PROVE Dialogs'
  BY <1>10 DEF DialogCanceled, Close, Dialogs, DialogActions, dialogVars, mapVars, visitVars
<1>11. ASSUME NEW d \in Dialog, NEW a \in Action, ClickAction(d, a) PROVE Dialogs'
  BY <1>11 DEF ClickAction, Dialogs, DialogActions, dialogVars, mapVars, visitVars, TypeOK,
      DialogsTypeOK
<1>12. CASE ConfirmEnd
  BY <1>12 DEF ConfirmEnd, Dialogs, DialogActions, dialogVars, mapVars, visitVars
<1>13. CASE FinishSurvey
  BY <1>13 DEF FinishSurvey, FinishExperiment, Dialogs, DialogActions, dialogVars, mapVars,
      visitVars
<1>14. CASE RunPost
  <2>1. screen = "waiting" /\ screen' \in {"before", "failed"}
    BY <1>14, Shifted DEF RunPost, TypeOK, PostsTypeOK, Waiting, Outcomes, NoOutcome
  <2> QED
    BY <1>14, <2>1 DEF RunPost, Dialogs, DialogActions, dialogVars, mapVars, visitVars
<1>15. CASE Crash
  BY <1>15 DEF Crash, NoMap, NoDialogs, Dialogs, DialogActions, dialogVars, mapVars, visitVars
<1>16. CASE AddObserver
  BY <1>16 DEF AddObserver, Dialogs, DialogActions, dialogVars, mapVars, visitVars
<1>17. CASE DestroyMap
  BY <1>17 DEF DestroyMap, NoMap, NoDialogs, Dialogs, DialogActions, dialogVars, mapVars,
      visitVars
<1>18. CASE SkipSurvey
  BY <1>18 DEF SkipSurvey, FinishExperiment, Dialogs, DialogActions, dialogVars, mapVars,
      visitVars
<1>19. CASE StartMap
  BY <1>19 DEF StartMap, Dialogs, DialogActions, dialogVars, mapVars, visitVars
<1>20. CASE DestroySurvey
  BY <1>20 DEF DestroySurvey, Dialogs, DialogActions, dialogVars, mapVars, visitVars
<1>21. QED
  BY <1>1, <1>2, <1>3, <1>4, <1>5, <1>6, <1>7, <1>8, <1>9, <1>10, <1>11, <1>12, <1>13,
      <1>14, <1>15, <1>16, <1>17, <1>18, <1>19, <1>20 DEF Next, DownloadTask, Callback,
      SyncTask, UserStarts, UserOnMap, UserEnds, Loop, Lifecycle

\* What a dialog adds is an event of the visit.
LEMMA NextKeepsEvents ==
    ASSUME TypeOK, Waiting, Ending, Dialogs, EventsAccepted, Next
    PROVE  EventsAccepted'
<1>1. CASE
    \/ FinishActive
    \/ \E e \in Experiment : StartExperiment(e)
    \/ DownloadFails
    \/ Download
    \/ NoExperiment
    \/ StartNothing
    \/ RemoveAllExhibits
    \/ UpdateFails
    \/ NotifyObservers
    \/ \E c \in Changes : UpdateExhibits(c)
    \/ SurveyClick
    \/ TryAgain
    \/ GiveUp
    \/ OpenMap
    \/ PauseClick
    \/ \E x \in Exhibit : ExhibitClick(x)
    \/ \E d \in Dialog : DialogCanceled(d)
    \/ \E d \in Dialog : \E a \in Action : ClickAction(d, a)
    \/ EndClick
    \/ CancelEnd
    \/ ConfirmEnd
    \/ RunPost
    \/ RunUpdate
    \/ RunLateUpdate
    \/ ReadFloor
    \/ AddObserver
    \/ DestroyMap
    \/ FinishClick
    \/ StartMap
    \/ DestroySurvey
  BY <1>1 DEF FinishClick, StartMap, DestroySurvey, FinishActive, StartExperiment,
      DownloadFails, Download, NoExperiment, StartNothing, RemoveAllExhibits, UpdateFails,
      NotifyObservers, UpdateExhibits, SurveyClick, TryAgain, GiveUp, OpenMap, PauseClick,
      ExhibitClick, DialogCanceled, ClickAction, EndClick, CancelEnd, ConfirmEnd, RunPost,
      RunUpdate, RunLateUpdate, ReadFloor, AddObserver, DestroyMap, EventsAccepted,
      visitVars
<1>2. CASE StartNewRaport
  BY <1>2 DEF StartNewRaport, NewRaport, EventsAccepted
<1>3. ASSUME NEW d \in Dialog, DialogFinished(d) PROVE EventsAccepted'
  <2>1. dialogOf = experiment /\ selected[d] \subseteq DialogActions(d)
    BY <1>3 DEF DialogFinished, Dialogs
  <2>2. selected[d] \subseteq IF NewEvent(d).exhibit = None THEN BreakActions[experiment]
                                                           ELSE ExhibitActions[experiment]
    BY <1>3, <2>1 DEF DialogFinished, Dialogs, DialogActions, NewEvent, Dialog
  <2>3. NewEvent(d).actions = selected[d]
    BY DEF NewEvent
  <2> QED
    BY <1>3, <2>2, <2>3, EventAdded, VisitAssumption DEF EventsAccepted, Waiting
<1>4. CASE FinishSurvey
  BY <1>4 DEF FinishSurvey, FinishExperiment, EventsAccepted
<1>5. CASE Crash
  BY <1>5 DEF Crash, NoMap, NoDialogs, EventsAccepted
<1>6. CASE SkipSurvey
  BY <1>6 DEF SkipSurvey, FinishExperiment, EventsAccepted
<1>7. CASE StartFails
  BY <1>7 DEF StartFails, NewRaport, EventsAccepted
<1>8. QED
  BY <1>1, <1>2, <1>3, <1>4, <1>5, <1>6, <1>7 DEF Next, DownloadTask, Callback, SyncTask,
      UserStarts, UserOnMap, UserEnds, Loop, Lifecycle

\* The map is told while it is open.
LEMMA ObservedKept ==
    ASSUME TypeOK, Requesting, Outcomes, Observed, Next
    PROVE  Observed'
<1>1. CASE
    \/ FinishActive
    \/ \E e \in Experiment : StartExperiment(e)
    \/ Download
    \/ StartNothing
    \/ RemoveAllExhibits
    \/ UpdateFails
    \/ \E c \in Changes : UpdateExhibits(c)
    \/ PauseClick
    \/ \E x \in Exhibit : ExhibitClick(x)
    \/ \E d \in Dialog : DialogFinished(d)
    \/ \E d \in Dialog : DialogCanceled(d)
    \/ \E d \in Dialog : \E a \in Action : ClickAction(d, a)
    \/ EndClick
    \/ CancelEnd
    \/ ReadFloor
    \/ SkipSurvey
    \/ StartFails
    \/ FinishClick
  <2>1. screen' = screen /\ observing' = observing /\ posts' = posts
    BY <1>1 DEF StartFails, FinishClick, FinishActive, StartExperiment, Download,
        StartNothing, RemoveAllExhibits, UpdateFails, UpdateExhibits, PauseClick,
        ExhibitClick, DialogFinished, DialogCanceled, ClickAction, EndClick, CancelEnd,
        ReadFloor, SkipSurvey, mapVars
  <2> QED
    BY <2>1 DEF Observed, mapVars
<1>2. CASE DownloadFails
  BY <1>2 DEF DownloadFails, Observed, Requesting, mapVars
<1>3. CASE NoExperiment
  BY <1>3 DEF NoExperiment, Observed, Requesting, mapVars
<1>4. CASE StartNewRaport
  BY <1>4 DEF StartNewRaport, Observed, Requesting, mapVars
<1>5. CASE NotifyObservers
  BY <1>5 DEF NotifyObservers, Observed, mapVars
<1>6. CASE SurveyClick
  BY <1>6 DEF SurveyClick, Observed, mapVars
<1>7. CASE TryAgain
  BY <1>7 DEF TryAgain, Observed, mapVars
<1>8. CASE GiveUp
  BY <1>8 DEF GiveUp, Observed, mapVars
<1>9. CASE OpenMap
  BY <1>9 DEF OpenMap, NoMap, NoDialogs, Observed, mapVars
<1>10. CASE ConfirmEnd
  BY <1>10 DEF ConfirmEnd, Observed, mapVars
<1>11. CASE FinishSurvey
  BY <1>11 DEF FinishSurvey, FinishExperiment, Observed, mapVars
<1>12. CASE RunPost
  <2>1. screen = "waiting" /\ screen' \in {"before", "failed"}
    BY <1>12, Shifted DEF RunPost, TypeOK, PostsTypeOK, Outcomes, NoOutcome
  <2> QED
    BY <1>12, <2>1 DEF RunPost, Observed, mapVars
<1>13. CASE RunUpdate
  BY <1>13 DEF RunUpdate, Observed, mapVars
<1>14. CASE RunLateUpdate
  BY <1>14 DEF RunLateUpdate, Observed, mapVars
<1>15. CASE Crash
  BY <1>15 DEF Crash, NoMap, NoDialogs, Observed, mapVars
<1>16. CASE AddObserver
  BY <1>16 DEF AddObserver, Observed, mapVars
<1>17. CASE DestroyMap
  BY <1>17 DEF DestroyMap, NoMap, NoDialogs, Observed, mapVars
<1>18. CASE StartMap
  BY <1>18 DEF StartMap, Observed, mapVars
<1>19. CASE DestroySurvey
  BY <1>19 DEF DestroySurvey, Observed, mapVars
<1>20. QED
  BY <1>1, <1>2, <1>3, <1>4, <1>5, <1>6, <1>7, <1>8, <1>9, <1>10, <1>11, <1>12, <1>13,
      <1>14, <1>15, <1>16, <1>17, <1>18, <1>19 DEF Next, DownloadTask, Callback, SyncTask,
      UserStarts, UserOnMap, UserEnds, Loop, Lifecycle

\* What changed unseen is marked as such.
LEMMA NoticedKept ==
    ASSUME TypeOK, Noticed, Next
    PROVE  Noticed'
<1>1. CASE
    \/ FinishActive
    \/ \E e \in Experiment : StartExperiment(e)
    \/ DownloadFails
    \/ SurveyClick
    \/ TryAgain
    \/ GiveUp
    \/ OpenMap
    \/ PauseClick
    \/ \E x \in Exhibit : ExhibitClick(x)
    \/ \E d \in Dialog : DialogFinished(d)
    \/ \E d \in Dialog : DialogCanceled(d)
    \/ \E d \in Dialog : \E a \in Action : ClickAction(d, a)
    \/ EndClick
    \/ CancelEnd
    \/ ConfirmEnd
    \/ FinishSurvey
    \/ RunPost
    \/ RunUpdate
    \/ RunLateUpdate
    \/ ReadFloor
    \/ AddObserver
    \/ DestroyMap
    \/ SkipSurvey
    \/ FinishClick
    \/ StartMap
    \/ DestroySurvey
  <2>1. UNCHANGED <<job, change, memory>>
    BY <1>1 DEF FinishClick, StartMap, DestroySurvey, FinishActive, StartExperiment,
        DownloadFails, SurveyClick, TryAgain, GiveUp, OpenMap, PauseClick, ExhibitClick,
        DialogFinished, DialogCanceled, ClickAction, EndClick, CancelEnd, ConfirmEnd,
        FinishSurvey, RunPost, RunUpdate, RunLateUpdate, ReadFloor, AddObserver, DestroyMap,
        SkipSurvey, taskVars
  <2> QED
    BY <2>1 DEF Noticed, Told, taskVars
<1>2. CASE Download
  BY <1>2 DEF Download, Noticed, Told
<1>3. CASE NoExperiment
  BY <1>3 DEF NoExperiment, Noticed, Told
<1>4. CASE StartNewRaport
  BY <1>4 DEF StartNewRaport, Noticed, Told
<1>5. CASE StartNothing
  BY <1>5 DEF StartNothing, Noticed, Told
<1>6. CASE RemoveAllExhibits
  BY <1>6 DEF RemoveAllExhibits, Noticed, Told
<1>7. CASE UpdateFails
  BY <1>7 DEF UpdateFails, Noticed, Told
<1>8. CASE NotifyObservers
  BY <1>8 DEF NotifyObservers, Noticed, Told
<1>9. ASSUME NEW c \in Changes, UpdateExhibits(c) PROVE Noticed'
  <2>1. memory' = [x \in Exhibit |-> IF c[x] = Unchanged THEN memory[x] ELSE c[x]] /\ change' = c
    BY <1>9 DEF UpdateExhibits
  <2> QED
    BY <2>1 DEF Noticed, Told
<1>10. CASE Crash
  BY <1>10 DEF Crash, Noticed, Told
<1>11. CASE StartFails
  BY <1>11 DEF StartFails, Noticed, Told
<1>12. QED
  BY <1>1, <1>2, <1>3, <1>4, <1>5, <1>6, <1>7, <1>8, <1>9, <1>10, <1>11 DEF Next,
      DownloadTask, Callback, SyncTask, UserStarts, UserOnMap, UserEnds, Loop, Lifecycle

\* Whether a change is pending depends on the executor alone.
LEMMA PendingSame ==
    ASSUME UNCHANGED <<job, change>>, NEW x \in Exhibit
    PROVE  Pending(x)' <=> Pending(x)
BY DEF Pending, Told

\* A task that is not the synchronisation has nothing to tell.
LEMMA PendingNone ==
    ASSUME job \in {"idle", "success"}, job' \in {"idle", "success"}, NEW x \in Exhibit
    PROVE  ~Pending(x)' /\ ~Pending(x)
BY DEF Pending

\* Opening a map reads every floor once; what changes meanwhile is unseen.
LEMMA OpeningReadsKept ==
    ASSUME TypeOK, Observed, OpeningReads, Next
    PROVE  OpeningReads'
<1>1. CASE
    \/ FinishActive
    \/ \E e \in Experiment : StartExperiment(e)
    \/ DownloadFails
    \/ PauseClick
    \/ \E x \in Exhibit : ExhibitClick(x)
    \/ \E d \in Dialog : DialogFinished(d)
    \/ \E d \in Dialog : DialogCanceled(d)
    \/ \E d \in Dialog : \E a \in Action : ClickAction(d, a)
    \/ EndClick
    \/ CancelEnd
    \/ SkipSurvey
    \/ FinishClick
  <2>1. UNCHANGED <<screen, unseen, shown, memory, toRead, job, change>>
    BY <1>1 DEF FinishClick, FinishActive, StartExperiment, DownloadFails, PauseClick,
        ExhibitClick, DialogFinished, DialogCanceled, ClickAction, EndClick, CancelEnd,
        SkipSurvey, mapVars, taskVars
  <2> QED
    BY <2>1 DEF OpeningReads, Pending, Told, mapVars, taskVars
<1>2. CASE Download
  <2>1. UNCHANGED <<screen, mapVars, memory>> /\ job \in {"idle", "success"} /\ job' \in {"idle", "success"}
    BY <1>2 DEF Download
  <2> QED
    BY <2>1, PendingNone DEF OpeningReads, mapVars
<1>3. CASE NoExperiment
  <2>1. UNCHANGED <<screen, mapVars, memory>> /\ job \in {"idle", "success"} /\ job' \in {"idle", "success"}
    BY <1>3 DEF NoExperiment
  <2> QED
    BY <2>1, PendingNone DEF OpeningReads, mapVars
<1>4. CASE StartNewRaport
  <2>1. UNCHANGED <<screen, mapVars, memory>> /\ job \in {"idle", "success"} /\ job' \in {"idle", "success"}
    BY <1>4 DEF StartNewRaport
  <2> QED
    BY <2>1, PendingNone DEF OpeningReads, mapVars
<1>5. CASE StartNothing
  <2>1. UNCHANGED <<screen, mapVars, memory>> /\ job \in {"idle", "success"} /\ job' \in {"idle", "success"}
    BY <1>5 DEF StartNothing
  <2> QED
    BY <2>1, PendingNone DEF OpeningReads, mapVars
<1>6. CASE RemoveAllExhibits
  <2>1. \A x \in Exhibit : Pending(x)'
    BY <1>6 DEF RemoveAllExhibits, Pending
  <2> QED
    BY <1>6, <2>1 DEF OpeningReads, RemoveAllExhibits, mapVars
<1>7. CASE UpdateFails
  <2>1. screen' = "opening" => unseen' = Exhibit
    BY <1>7 DEF UpdateFails
  <2> QED
    BY <2>1 DEF OpeningReads
<1>8. CASE NotifyObservers
  <2> SUFFICES ASSUME screen' = "opening", NEW x \in Exhibit \ unseen'
               PROVE  shown'[x] = memory'[x] \/ (shown'[x] = Nowhere /\ memory'[x] \in toRead' .. Floors - 1)
    BY DEF OpeningReads
  <2>1. screen = "opening" /\ ~observing /\ UNCHANGED <<shown, memory, toRead>>
    BY <1>8 DEF NotifyObservers, Observed
  <2>2. x \notin unseen /\ (x \in Told => shown[x] = memory[x])
    BY <1>8, <2>1 DEF NotifyObservers, Told
  <2>3. x \notin Told => ~Pending(x)
    BY <1>8 DEF NotifyObservers, Pending
  <2> QED
    BY <2>1, <2>2, <2>3 DEF OpeningReads
<1>9. ASSUME NEW c \in Changes, UpdateExhibits(c) PROVE OpeningReads'
  <2>1. \A x \in Exhibit : ~Pending(x)' => ~Pending(x) /\ memory'[x] = memory[x]
    BY <1>9 DEF UpdateExhibits, Pending, Told
  <2> QED
    BY <1>9, <2>1 DEF OpeningReads, UpdateExhibits, mapVars
<1>10. CASE SurveyClick
  <2>1. screen' # "opening"
    BY <1>10 DEF SurveyClick
  <2> QED
    BY <2>1 DEF OpeningReads
<1>11. CASE TryAgain
  <2>1. screen' # "opening"
    BY <1>11 DEF TryAgain
  <2> QED
    BY <2>1 DEF OpeningReads
<1>12. CASE GiveUp
  <2>1. screen' # "opening"
    BY <1>12 DEF GiveUp
  <2> QED
    BY <2>1 DEF OpeningReads
<1>13. CASE OpenMap
  <2>1. toRead' = 0 /\ shown' = [x \in Exhibit |-> Nowhere] /\ memory' = memory
    BY <1>13 DEF OpenMap, NoMap
  <2>2. \A x \in Exhibit : memory[x] = Nowhere \/ memory[x] \in 0 .. Floors - 1
    BY DEF TypeOK, MapTypeOK, Places, Place, Floor
  <2> QED
    BY <2>1, <2>2 DEF OpeningReads
<1>14. CASE ConfirmEnd
  <2>1. screen' # "opening"
    BY <1>14 DEF ConfirmEnd
  <2> QED
    BY <2>1 DEF OpeningReads
<1>15. CASE FinishSurvey
  <2>1. screen' # "opening"
    BY <1>15 DEF FinishSurvey
  <2> QED
    BY <2>1 DEF OpeningReads
<1>16. CASE RunPost
  <2>1. screen' # "opening"
    BY <1>16 DEF RunPost
  <2> QED
    BY <2>1 DEF OpeningReads
<1>17. CASE RunUpdate
  <2>1. screen' # "opening"
    BY <1>17 DEF RunUpdate, Observed
  <2> QED
    BY <2>1 DEF OpeningReads
<1>18. CASE RunLateUpdate
  <2>1. screen' # "opening"
    BY <1>18 DEF RunLateUpdate, Observed
  <2> QED
    BY <2>1 DEF OpeningReads
<1>19. CASE Crash
  <2>1. screen' # "opening"
    BY <1>19 DEF Crash
  <2> QED
    BY <2>1 DEF OpeningReads
<1>20. CASE ReadFloor
  <2> SUFFICES ASSUME NEW x \in Exhibit \ unseen', ~Pending(x)'
               PROVE  shown'[x] = memory'[x] \/ (shown'[x] = Nowhere /\ memory'[x] \in toRead' .. Floors - 1)
    BY DEF OpeningReads
  <2>1. screen = "opening" /\ x \notin unseen /\ ~Pending(x) /\ memory' = memory /\ toRead' = toRead + 1
    BY <1>20, PendingSame DEF ReadFloor, taskVars
  <2>2. shown'[x] = IF memory[x] = toRead THEN toRead ELSE shown[x]
    BY <1>20 DEF ReadFloor
  <2>3. shown[x] = memory[x] \/ (shown[x] = Nowhere /\ memory[x] \in toRead .. Floors - 1)
    BY <2>1 DEF OpeningReads
  <2> QED
    BY <2>1, <2>2, <2>3, VisitAssumption DEF TypeOK, MapTypeOK
<1>21. CASE AddObserver
  <2>1. screen' # "opening"
    BY <1>21 DEF AddObserver
  <2> QED
    BY <2>1 DEF OpeningReads
<1>22. CASE DestroyMap
  <2>1. screen' # "opening"
    BY <1>22 DEF DestroyMap
  <2> QED
    BY <2>1 DEF OpeningReads
<1>23. CASE StartFails
  <2>1. UNCHANGED <<screen, mapVars, memory>> /\ job \in {"idle", "success"} /\ job' \in {"idle", "success"}
    BY <1>23 DEF StartFails
  <2> QED
    BY <2>1, PendingNone DEF OpeningReads, mapVars
<1>24. CASE StartMap
  <2>1. screen' # "opening"
    BY <1>24 DEF StartMap
  <2> QED
    BY <2>1 DEF OpeningReads
<1>25. CASE DestroySurvey
  <2>1. screen' # "opening"
    BY <1>25 DEF DestroySurvey
  <2> QED
    BY <2>1 DEF OpeningReads
<1>26. QED
  BY <1>1, <1>2, <1>3, <1>4, <1>5, <1>6, <1>7, <1>8, <1>9, <1>10, <1>11, <1>12, <1>13,
      <1>14, <1>15, <1>16, <1>17, <1>18, <1>19, <1>20, <1>21, <1>22, <1>23, <1>24, <1>25 DEF
      Next, DownloadTask, Callback, SyncTask, UserStarts, UserOnMap, UserEnds, Loop,
      Lifecycle

\* Which runnable tells of an exhibit depends on the queue alone.
LEMMA TellsSame ==
    ASSUME posts' = posts, NEW i, NEW x
    PROVE  (Tells(i, x)' <=> Tells(i, x)) /\ (TellsLast(i, x)' <=> TellsLast(i, x))
BY DEF Tells, TellsLast

\* What waits for an open map brings it to what memory has.
LEMMA MapFollowsKept ==
    ASSUME TypeOK, Requesting, Observed, Noticed, OpeningReads, MapFollows, Next
    PROVE  MapFollows'
<1>1. CASE
    \/ FinishActive
    \/ \E e \in Experiment : StartExperiment(e)
    \/ PauseClick
    \/ \E x \in Exhibit : ExhibitClick(x)
    \/ \E d \in Dialog : DialogFinished(d)
    \/ \E d \in Dialog : DialogCanceled(d)
    \/ \E d \in Dialog : \E a \in Action : ClickAction(d, a)
    \/ EndClick
    \/ CancelEnd
    \/ SkipSurvey
    \/ FinishClick
  <2>1. UNCHANGED <<screen, unseen, shown, memory, posts, job, change>>
    BY <1>1 DEF FinishClick, FinishActive, StartExperiment, PauseClick, ExhibitClick,
        DialogFinished, DialogCanceled, ClickAction, EndClick, CancelEnd, SkipSurvey,
        mapVars, taskVars
  <2> QED
    BY <2>1 DEF MapFollows, Pending, Told, Tells, TellsLast, mapVars, taskVars
<1>2. CASE DownloadFails
  <2>1. screen' # "map"
    BY <1>2 DEF DownloadFails, Requesting
  <2> QED
    BY <2>1 DEF MapFollows
<1>3. CASE Download
  <2>1. screen' # "map"
    BY <1>3 DEF Download, Requesting
  <2> QED
    BY <2>1 DEF MapFollows
<1>4. CASE NoExperiment
  <2>1. screen' # "map"
    BY <1>4 DEF NoExperiment, Requesting
  <2> QED
    BY <2>1 DEF MapFollows
<1>5. CASE StartNewRaport
  <2>1. screen' # "map"
    BY <1>5 DEF StartNewRaport, Requesting
  <2> QED
    BY <2>1 DEF MapFollows
<1>6. CASE StartNothing
  <2>1. UNCHANGED <<screen, mapVars, memory, posts>> /\ job \in {"idle", "success"} /\ job' \in {"idle", "success"}
    BY <1>6 DEF StartNothing
  <2> QED
    BY <2>1, PendingNone, TellsSame DEF MapFollows, mapVars
<1>7. CASE RemoveAllExhibits
  <2>1. \A x \in Exhibit : Pending(x)'
    BY <1>7 DEF RemoveAllExhibits, Pending
  <2> QED
    BY <2>1 DEF MapFollows
<1>8. CASE UpdateFails
  <2>1. screen' = "map" => unseen' = Exhibit
    BY <1>8 DEF UpdateFails
  <2> QED
    BY <2>1 DEF MapFollows
<1>9. CASE NotifyObservers
  <2> SUFFICES ASSUME screen' = "map", NEW x \in Exhibit \ unseen'
               PROVE  /\ (\A i \in DOMAIN posts' : ~Tells(i, x)') => shown'[x] = memory'[x]
                      /\ \A i \in DOMAIN posts' : TellsLast(i, x)' => posts'[i].change[x] = memory'[x]
    BY DEF MapFollows
  <2>1. screen = "map" /\ observing /\ unseen' = unseen \ Told /\ UNCHANGED <<shown, memory>>
    BY <1>9 DEF NotifyObservers, Observed
  <2>2. PICK n \in Nat :
        /\ DOMAIN posts = 1 .. n /\ DOMAIN posts' = 1 .. n + 1
        /\ \A i \in DOMAIN posts : posts'[i] = posts[i]
        /\ posts'[n + 1] = [what |-> "exhibits", change |-> change]
    <3>1. Len(posts) \in Nat /\ change \in Changes /\ Len(posts) < MaxPosts
      BY <1>9 DEF NotifyObservers, TypeOK, FlowTypeOK, PostsTypeOK
    <3>2. posts' = Append(posts, [what |-> "exhibits", change |-> change])
      BY <1>9, <2>1 DEF NotifyObservers
    <3> QED
      BY <3>1, <3>2, Appended DEF TypeOK
  <2>3. CASE x \in Told
    <3>1. Tells(n + 1, x)' /\ change[x] = memory[x]
      BY <1>9, <2>2, <2>3 DEF Tells, Told, Noticed, NotifyObservers
    <3>2. \A i \in DOMAIN posts' : TellsLast(i, x)' => i = n + 1
      BY <2>2, <3>1 DEF TellsLast
    <3> QED
      BY <2>1, <2>2, <3>1, <3>2
  <2>4. CASE x \notin Told
    <3>1. x \in Exhibit \ unseen /\ ~Pending(x)
      BY <1>9, <2>1, <2>4 DEF NotifyObservers, Pending
    <3>2. ~Tells(n + 1, x)' /\ \A i \in DOMAIN posts : Tells(i, x)' <=> Tells(i, x)
      BY <2>2, <2>4 DEF Tells, Told
    <3>3. \A i \in DOMAIN posts' : TellsLast(i, x)' => i \in DOMAIN posts /\ TellsLast(i, x)
      BY <2>2, <3>2 DEF TellsLast
    <3> QED
      BY <2>1, <2>2, <3>1, <3>2, <3>3 DEF MapFollows
  <2> QED
    BY <2>3, <2>4
<1>10. ASSUME NEW c \in Changes, UpdateExhibits(c) PROVE MapFollows'
  <2>1. \A x \in Exhibit : ~Pending(x)' => ~Pending(x) /\ memory'[x] = memory[x]
    BY <1>10 DEF UpdateExhibits, Pending, Told
  <2>2. UNCHANGED <<screen, posts, shown, unseen>>
    BY <1>10 DEF UpdateExhibits, mapVars
  <2> QED
    BY <2>1, <2>2, TellsSame DEF MapFollows
<1>11. CASE SurveyClick
  <2>1. screen' # "map"
    BY <1>11 DEF SurveyClick
  <2> QED
    BY <2>1 DEF MapFollows
<1>12. CASE TryAgain
  <2>1. screen' # "map"
    BY <1>12 DEF TryAgain
  <2> QED
    BY <2>1 DEF MapFollows
<1>13. CASE GiveUp
  <2>1. screen' # "map"
    BY <1>13 DEF GiveUp
  <2> QED
    BY <2>1 DEF MapFollows
<1>14. CASE OpenMap
  <2>1. screen' # "map"
    BY <1>14 DEF OpenMap
  <2> QED
    BY <2>1 DEF MapFollows
<1>15. CASE ConfirmEnd
  <2>1. screen' # "map"
    BY <1>15 DEF ConfirmEnd
  <2> QED
    BY <2>1 DEF MapFollows
<1>16. CASE FinishSurvey
  <2>1. screen' # "map"
    BY <1>16 DEF FinishSurvey
  <2> QED
    BY <2>1 DEF MapFollows
<1>17. CASE RunPost
  <2>1. screen' # "map"
    BY <1>17 DEF RunPost
  <2> QED
    BY <2>1 DEF MapFollows
<1>18. CASE RunUpdate
  <2> SUFFICES ASSUME screen' = "map", NEW x \in Exhibit \ unseen', ~Pending(x)'
               PROVE  /\ (\A i \in DOMAIN posts' : ~Tells(i, x)') => shown'[x] = memory'[x]
                      /\ \A i \in DOMAIN posts' : TellsLast(i, x)' => posts'[i].change[x] = memory'[x]
    BY DEF MapFollows
  <2>1. screen = "map" /\ x \in Exhibit \ unseen /\ ~Pending(x) /\ memory' = memory
    BY <1>18, PendingSame DEF RunUpdate, taskVars
  <2>2. /\ Len(posts) \in Nat /\ DOMAIN posts = 1 .. Len(posts) /\ 1 \in DOMAIN posts
        /\ DOMAIN posts' = 1 .. Len(posts) - 1 /\ posts[1].what = "exhibits"
        /\ \A i \in DOMAIN posts' : i + 1 \in DOMAIN posts /\ posts'[i] = posts[i + 1]
        /\ shown'[x] = IF posts[1].change[x] = Unchanged THEN shown[x] ELSE posts[1].change[x]
    BY <1>18, Shifted DEF RunUpdate, Posted, TypeOK, PostsTypeOK
  <2>3. \A i \in DOMAIN posts' : Tells(i, x)' <=> Tells(i + 1, x)
    BY <2>2 DEF Tells
  <2>4. \A i \in DOMAIN posts' : TellsLast(i, x)' => TellsLast(i + 1, x)
    <3> SUFFICES ASSUME NEW i \in DOMAIN posts', TellsLast(i, x)', NEW j \in DOMAIN posts, j > i + 1
                 PROVE  ~Tells(j, x)
      BY <2>3 DEF TellsLast
    <3>1. j - 1 \in DOMAIN posts' /\ j - 1 > i /\ (j - 1) + 1 = j
      BY <2>2
    <3>2. ~Tells(j - 1, x)'
      BY <3>1 DEF TellsLast
    <3> QED
      BY <2>3, <3>1, <3>2
  <2>5. ASSUME \A i \in DOMAIN posts' : ~Tells(i, x)'
        PROVE  shown'[x] = memory'[x]
    <3>1. \A j \in DOMAIN posts : j > 1 => ~Tells(j, x)
      <4> SUFFICES ASSUME NEW j \in DOMAIN posts, j > 1 PROVE ~Tells(j, x)
        OBVIOUS
      <4>1. j - 1 \in DOMAIN posts' /\ (j - 1) + 1 = j
        BY <2>2
      <4> QED
        BY <2>3, <2>5, <4>1
    <3>2. CASE posts[1].change[x] = Unchanged
      <4>1. \A j \in DOMAIN posts : ~Tells(j, x)
        BY <2>2, <3>1, <3>2 DEF Tells
      <4> QED
        BY <2>1, <2>2, <3>2, <4>1 DEF MapFollows
    <3>3. CASE posts[1].change[x] # Unchanged
      <4>1. TellsLast(1, x)
        BY <2>2, <3>1, <3>3 DEF Tells, TellsLast
      <4> QED
        BY <2>1, <2>2, <3>3, <4>1 DEF MapFollows
    <3> QED
      BY <3>2, <3>3
  <2> QED
    BY <2>1, <2>2, <2>4, <2>5 DEF MapFollows
<1>19. CASE RunLateUpdate
  <2>1. screen' # "map"
    BY <1>19 DEF RunLateUpdate, Observed
  <2> QED
    BY <2>1 DEF MapFollows
<1>20. CASE Crash
  <2>1. screen' # "map"
    BY <1>20 DEF Crash
  <2> QED
    BY <2>1 DEF MapFollows
<1>21. CASE ReadFloor
  <2>1. screen' # "map"
    BY <1>21 DEF ReadFloor
  <2> QED
    BY <2>1 DEF MapFollows
<1>22. CASE AddObserver
  <2> SUFFICES ASSUME NEW x \in Exhibit \ unseen', ~Pending(x)'
               PROVE  shown'[x] = memory'[x] /\ posts' = <<>>
    BY DEF MapFollows
  <2>1. /\ screen = "opening" /\ toRead = Floors /\ x \notin unseen /\ ~Pending(x) /\ posts = <<>>
        /\ UNCHANGED <<shown, memory, posts>>
    BY <1>22, PendingSame DEF AddObserver, Observed, taskVars
  <2>2. toRead .. Floors - 1 = {}
    BY <2>1, VisitAssumption
  <2> QED
    BY <2>1, <2>2 DEF OpeningReads
<1>23. CASE DestroyMap
  <2>1. screen' # "map"
    BY <1>23 DEF DestroyMap
  <2> QED
    BY <2>1 DEF MapFollows
<1>24. CASE StartFails
  <2>1. screen' # "map"
    BY <1>24 DEF StartFails, Requesting
  <2> QED
    BY <2>1 DEF MapFollows
<1>25. CASE StartMap
  <2>1. screen' # "map"
    BY <1>25 DEF StartMap
  <2> QED
    BY <2>1 DEF MapFollows
<1>26. CASE DestroySurvey
  <2>1. screen' # "map"
    BY <1>26 DEF DestroySurvey
  <2> QED
    BY <2>1 DEF MapFollows
<1>27. QED
  BY <1>1, <1>2, <1>3, <1>4, <1>5, <1>6, <1>7, <1>8, <1>9, <1>10, <1>11, <1>12, <1>13,
      <1>14, <1>15, <1>16, <1>17, <1>18, <1>19, <1>20, <1>21, <1>22, <1>23, <1>24, <1>25,
      <1>26 DEF Next, DownloadTask, Callback, SyncTask, UserStarts, UserOnMap, UserEnds,
      Loop, Lifecycle

\* The parts of the map's invariant together.
LEMMA NextKeepsMap ==
    ASSUME TypeOK, Requesting, Outcomes, MapInv, Next
    PROVE  MapInv'
BY ObservedKept, NoticedKept, OpeningReadsKept, MapFollowsKept DEF MapInv

-----------------------------------------------------------------------------
(* The specification *)

\* The tablet is started.
LEMMA InitInv == Init => VisitInv
<1> SUFFICES ASSUME Init PROVE VisitInv
  OBVIOUS
<1>1. TypeOK
  <2>1. FlowTypeOK
    BY ChangesTyped DEF Init, FlowTypeOK
  <2>2. PostsTypeOK
    BY VisitAssumption DEF Init, PostsTypeOK
  <2>3. MapTypeOK
    <3>1. toRead \in 0 .. Floors /\ memory \in Places /\ shown \in Places
      BY VisitAssumption, ChangesTyped DEF Init
    <3> QED
      BY <3>1 DEF Init, MapTypeOK
  <2>4. DialogsTypeOK
    <3>1. confirms \in 0 .. 2 /\ afters \in 0 .. 2
      BY DEF Init
    <3> QED
      BY <3>1, ChangesTyped DEF Init, DialogsTypeOK
  <2> QED
    BY <2>1, <2>2, <2>3, <2>4 DEF TypeOK
<1>2. Waiting
  BY DEF Init, Waiting, Requesting, Outcomes, NoOutcome, Outcome, Screens, VisitHasItsRaport, HasItsRaport
<1>3. Ending
  BY DEF Init, Ending
<1>4. Dialogs /\ EventsAccepted
  BY DEF Init, Dialogs, EventsAccepted
<1>5. MapInv
  BY DEF Init, MapInv, Observed, Noticed, OpeningReads, MapFollows
<1> QED
  BY <1>1, <1>2, <1>3, <1>4, <1>5 DEF VisitInv

\* Nothing happens.
LEMMA StutterInv == VisitInv /\ UNCHANGED vars => VisitInv'
<1> SUFFICES ASSUME VisitInv, UNCHANGED vars PROVE VisitInv'
  OBVIOUS
<1> USE DEF vars, visitVars, taskVars, mapVars, dialogVars, endVars, VisitInv
<1>1. TypeOK'
  BY DEF TypeOK, FlowTypeOK, PostsTypeOK, MapTypeOK, DialogsTypeOK
<1>2. Waiting'
  BY DEF Waiting, Requesting, Outcomes, NoOutcome, Outcome, Screens, VisitHasItsRaport, HasItsRaport
<1>3. Ending' /\ Dialogs' /\ EventsAccepted'
  BY DEF Ending, Dialogs, DialogActions, EventsAccepted
<1>4. MapInv'
  BY DEF MapInv, Observed, Noticed, OpeningReads, MapFollows, Pending, Told, Tells, TellsLast
<1> QED
  BY <1>1, <1>2, <1>3, <1>4

\* The inductive invariant of a visit: what a waiting screen waits for comes
\* once, twice tells when the map's end is confirmed twice, a dialog offers
\* what the visit's experiment has, and the map follows memory but for what is
\* pending.
THEOREM VisitInvariant == Spec => []VisitInv
<1>1. VisitInv /\ [Next]_vars => VisitInv'
  <2> SUFFICES ASSUME VisitInv, Next PROVE VisitInv'
    BY StutterInv
  <2>1. TypeOK' /\ Waiting' /\ Ending' /\ Dialogs' /\ EventsAccepted'
    BY NextKeepsType, NextKeepsWaiting, NextKeepsEnding, NextKeepsDialogs, NextKeepsEvents DEF VisitInv, Waiting
  <2>2. MapInv'
    BY NextKeepsMap DEF VisitInv, Waiting
  <2> QED
    BY <2>1, <2>2 DEF VisitInv
<1> QED
  BY <1>1, InitInv, PTL DEF Spec

\* VisitHasItsRaport: every screen of a visit that was started with one tap has
\* its raport and the raport's experiment, and no visit is left behind at the
\* start, in any order of callbacks, failures and taps.  The exceptions are a
\* second survey when the map's end was confirmed twice, and a map that comes
\* back when the first survey's was.
THEOREM ScreensHaveRaports == Spec => []VisitHasItsRaport
<1>1. VisitInv => VisitHasItsRaport
  BY DEF VisitInv, Waiting, Screens
<1> QED
  BY <1>1, VisitInvariant, PTL

\* EventsAccepted: the server's checks of actions will pass every event.
THEOREM EventsAreAccepted == Spec => []EventsAccepted
<1>1. VisitInv => EventsAccepted
  BY DEF VisitInv
<1> QED
  BY <1>1, VisitInvariant, PTL

\* OneDialog: however taps and closings fall, no two dialogs are up.
THEOREM DialogsAlone == Spec => []OneDialog
<1>1. VisitInv => OneDialog
  <2> SUFFICES ASSUME VisitInv PROVE Cardinality(showing) <= 1
    BY DEF OneDialog
  <2>1. showing = {} \/ \E d \in showing : showing = {d}
    BY DEF VisitInv, Dialogs
  <2> QED
    BY <2>1, FS_EmptySet, FS_Singleton
<1> QED
  BY <1>1, VisitInvariant, PTL

\* MapShowsMemory: with nothing under way, the map shows each exhibit where
\* memory has it, unless it changed unseen.
THEOREM MapFollowsMemory == Spec => []MapShowsMemory
<1>1. VisitInv => MapShowsMemory
  <2> SUFFICES ASSUME VisitInv, screen = "map", job = "idle", NEW x \in Exhibit \ unseen,
                      \A i \in DOMAIN posts : posts[i].what # "exhibits"
               PROVE  shown[x] = memory[x]
    BY DEF MapShowsMemory
  <2>1. ~Pending(x) /\ \A i \in DOMAIN posts : ~Tells(i, x)
    BY DEF Pending, Tells
  <2> QED
    BY <2>1 DEF VisitInv, MapInv, MapFollows
<1> QED
  BY <1>1, VisitInvariant, PTL

-----------------------------------------------------------------------------
(* Module Survey: counting                                                 *)

\* Positions of a list are finitely many.
LEMMA CountType ==
    ASSUME NEW X, NEW list \in Seq(X), NEW x
    PROVE  /\ IsFiniteSet({i \in DOMAIN list : list[i] = x})
           /\ Count(list, x) \in 0 .. Len(list)
<1> DEFINE P == {i \in DOMAIN list : list[i] = x}
<1>0. Len(list) \in Nat
  OBVIOUS
<1>1. IsFiniteSet(1 .. Len(list)) /\ Cardinality(1 .. Len(list)) = Len(list)
  BY <1>0, FS_Interval
<1>2. P \subseteq 1 .. Len(list)
  OBVIOUS
<1>3. IsFiniteSet(P) /\ Cardinality(P) <= Len(list)
  BY <1>1, <1>2, FS_Subset
<1>4. Cardinality(P) \in Nat
  BY <1>3, FS_CardinalityType
<1> QED
  BY <1>3, <1>4 DEF Count

\* Nothing is counted in an empty list.
LEMMA CountNone == \A x : Count(<<>>, x) = 0
<1> SUFFICES ASSUME NEW x PROVE Count(<<>>, x) = 0
  OBVIOUS
<1>1. {i \in DOMAIN <<>> : <<>>[i] = x} = {}
  OBVIOUS
<1> QED
  BY <1>1, FS_EmptySet DEF Count

\* The n-th of a kind is one of that kind.
LEMMA NthIn ==
    ASSUME NEW order \in Seq(Kind), NEW i \in DOMAIN order
    PROVE  Nth(order, i) \in 1 .. Count(order, order[i])
<1> DEFINE P == {j \in DOMAIN order : order[j] = order[i]}
           Q == {j \in 1 .. i : order[j] = order[i]}
<1>1. IsFiniteSet(P)
  BY CountType
<1>2. Q \subseteq P /\ i \in Q
  OBVIOUS
<1>3. IsFiniteSet(Q) /\ Cardinality(Q) <= Cardinality(P)
  BY <1>1, <1>2, FS_Subset
<1>4. Cardinality(Q) # 0
  BY <1>2, <1>3, FS_EmptySet
<1>5. Cardinality(Q) \in Nat /\ Cardinality(P) \in Nat
  BY <1>1, <1>3, FS_CardinalityType
<1> QED
  BY <1>3, <1>4, <1>5 DEF Nth, Count

\* A later one of the same kind has a higher number.
LEMMA NthGrows ==
    ASSUME NEW order \in Seq(Kind), NEW i \in DOMAIN order, NEW j \in DOMAIN order,
           i < j, order[i] = order[j]
    PROVE  Nth(order, i) < Nth(order, j)
<1> DEFINE P == {m \in 1 .. i : order[m] = order[i]}
           Q == {m \in 1 .. j : order[m] = order[j]}
<1>1. IsFiniteSet(1 .. j)
  BY FS_Interval
<1>2. Q \subseteq 1 .. j /\ P \subseteq Q /\ j \in Q /\ j \notin P
  OBVIOUS
<1>3. IsFiniteSet(Q)
  BY <1>1, <1>2, FS_Subset
<1>4. Cardinality(P) <= Cardinality(Q) /\ Cardinality(P) # Cardinality(Q) /\ IsFiniteSet(P)
  BY <1>2, <1>3, FS_Subset
<1>5. Cardinality(P) \in Nat /\ Cardinality(Q) \in Nat
  BY <1>3, <1>4, FS_CardinalityType
<1> QED
  BY <1>4, <1>5 DEF Nth

\* So no two of one kind have the same number ...
LEMMA NthDiffers ==
    ASSUME NEW order \in Seq(Kind), NEW i \in DOMAIN order, NEW j \in DOMAIN order,
           i # j, order[i] = order[j]
    PROVE  Nth(order, i) # Nth(order, j)
<1>1. i < j \/ j < i
  OBVIOUS
<1>2. Nth(order, i) \in Int /\ Nth(order, j) \in Int
  BY NthIn
<1> QED
  BY <1>1, <1>2, NthGrows

\* ... and every number up to their count is one's.
LEMMA NthOnto ==
    ASSUME NEW order \in Seq(Kind), NEW k \in Kind, NEW n \in 1 .. Count(order, k)
    PROVE  \E i \in DOMAIN order : order[i] = k /\ Nth(order, i) = n
<1> DEFINE P == {i \in DOMAIN order : order[i] = k}
           T == 1 .. Count(order, k)
           f == [i \in P |-> Nth(order, i)]
<1>1. Count(order, k) \in Nat /\ IsFiniteSet(P)
  BY CountType
<1>2. Cardinality(P) = Count(order, k)
  BY DEF Count
<1>3. IsFiniteSet(T) /\ Cardinality(T) = Count(order, k)
  BY <1>1, FS_Interval
<1>4. f \in [P -> T]
  BY NthIn
<1>5. \A i, j \in P : f[i] = f[j] => i = j
  BY NthDiffers
<1> HIDE DEF P, T, f
<1>6. f \in Injection(P, T)
  BY <1>4, <1>5, Fun_IsInj
<1>7. f \in Surjection(P, T)
  BY <1>1, <1>2, <1>3, <1>6, FS_Injection
<1>8. PICK i \in P : f[i] = n
  BY <1>7 DEF Surjection, T
<1> QED
  BY <1>8 DEF P, f

\* Swapping two neighbours changes no count.
LEMMA SwapCounts ==
    ASSUME NEW X, NEW list \in Seq(X), NEW i \in 1 .. Len(list) - 1, NEW x,
           NEW other, other = [list EXCEPT ![i] = list[i + 1], ![i + 1] = list[i]]
    PROVE  Count(other, x) = Count(list, x)
<1> DEFINE P == {m \in DOMAIN list : list[m] = x}
           Q == {m \in DOMAIN other : other[m] = x}
           f == [m \in P |-> IF m = i THEN i + 1 ELSE IF m = i + 1 THEN i ELSE m]
<1>1. IsFiniteSet(P)
  BY CountType
<1>2. DOMAIN other = DOMAIN list /\ i \in DOMAIN list /\ i + 1 \in DOMAIN list
  OBVIOUS
<1>3. \A m \in DOMAIN list :
        other[m] = IF m = i THEN list[i + 1] ELSE IF m = i + 1 THEN list[i] ELSE list[m]
  BY <1>2
<1>4. f \in [P -> Q]
  BY <1>2, <1>3
<1>5. \A m, n \in P : f[m] = f[n] => m = n
  OBVIOUS
<1>6. \A n \in Q : \E m \in P : f[m] = n
  <2> SUFFICES ASSUME NEW n \in Q PROVE \E m \in P : f[m] = n
    OBVIOUS
  <2>1. CASE n = i
    <3>1. i + 1 \in P /\ f[i + 1] = n
      BY <1>2, <1>3, <2>1
    <3> QED
      BY <3>1
  <2>2. CASE n = i + 1
    <3>1. i \in P /\ f[i] = n
      BY <1>2, <1>3, <2>2
    <3> QED
      BY <3>1
  <2>3. CASE n # i /\ n # i + 1
    <3>1. n \in P /\ f[n] = n
      BY <1>2, <1>3, <2>3
    <3> QED
      BY <3>1
  <2> QED
    BY <2>1, <2>2, <2>3
<1> HIDE DEF P, Q, f
<1>7. f \in Bijection(P, Q)
  BY <1>4, <1>5, <1>6, Fun_IsBij
<1>8. Cardinality(Q) = Cardinality(P)
  BY <1>1, <1>7, FS_Bijection DEF ExistsBijection
<1> QED
  BY <1>8 DEF Count, P, Q
-----------------------------------------------------------------------------
(* The invariant *)

Value == Text \union (SUBSET Option) \union Seq(Option)
View == [question : Question, no : Nat, active : Option \union {NoOption}, value : Value]

\* The survey after the visit that ends by itself.
Excused == recreated /\ type = "after"

\* A view's value is one its question allows.
Fits(v) ==
    /\ v.value \in ValueOf(v.question)
    /\ v.question.kind = "simple" /\ v.question.number => v.value # "words"
    /\ v.question.kind = "sort" =>
        \A o \in Option : Count(v.value, o) = Count(v.question.options, o)

\* The position in the order has the question that is next of its kind.
Placed(v, i) ==
    /\ v.question = survey.questions[survey.order[i]][Nth(survey.order, i)]
    /\ v.no = Nth(survey.order, i)

\* One view for every position, one answer for every question.
Laid ==
    /\ Len(views) = Len(survey.order)
    /\ \A i \in DOMAIN views : Placed(views[i], i) /\ Fits(views[i])
    /\ \A k \in Kind : Len(answers[k]) = Count(survey.order, k)

\* Nothing is laid out twice: the queues are full or the survey is excused.
Fresh ==
    /\ page \notin {"asking", "confirming", "done"} => views = <<>> /\ current = 0
    /\ page = "posted" =>
        \/ left = survey /\ answers = Nothing
        \/ Excused /\ left.order = <<>>

Answered(i) == Saved(views[i]) # NoAnswer /\ AnswerOf(views[i]) = Saved(views[i])

\* What is confirmed is the last question, answered.
Complete ==
    /\ page = "asking" => Laid /\ current > 0
    /\ page = "confirming" => Laid /\ current = Len(views) /\ Answered(current)
    /\ page = "done" =>
        Excused \/ (Laid /\ current = Len(views) /\ (current > 0 => Answered(current)))

SurveyTyped ==
    /\ views \in Seq(View)
    /\ answers \in [Kind -> Seq(Value \union {NoAnswer})]
    /\ left \in QuestionsList
    /\ SurveyTypeOK

Stored ==
    page \in {"asking", "confirming", "done"} =>
        \A i \in DOMAIN views \ {current} :
            \/ AnswerOf(views[i]) = Saved(views[i])
            \/ AnswerOf(views[i]) = NoAnswer /\ views[i].value = views[i].question.options

SurveyInv ==
    SurveyTyped /\ Fresh /\ Complete /\ OneOptionIfSingle /\ EarlierAnswered /\ Stored
-----------------------------------------------------------------------------
(* The offered surveys and their views *)

\* A question that is offered is one of its list's kind, and has two options
\* if it is a list to sort.
LEMMA OfferedQuestion ==
    ASSUME NEW s \in Offered, NEW k \in Kind, NEW n \in 1 .. Len(s.questions[k])
    PROVE  /\ s.questions[k][n] \in Question /\ s.questions[k][n].kind = k
           /\ k = "sort" => Len(s.questions[k][n].options) >= 2
<1>1. s \in QuestionsList
  BY SurveyAssumption DEF Offered
<1>2. s.questions[k] \in Seq(Question)
  BY <1>1 DEF QuestionsList
<1>3. n \in DOMAIN s.questions[k] /\ s.questions[k][n] \in Question
  BY <1>2
<1>4. s.questions[k][n].kind = k
  BY <1>3, SurveyAssumption DEF Offered
<1>5. s.questions[k][n] \in Elements(s.questions[k])
  BY <1>3 DEF Elements
<1>6. k = "sort" => SortExists(s.questions[k][n])
  BY <1>4, <1>5 DEF Offered, MultipleChoiceExists, SimpleExists
<1> QED
  BY <1>3, <1>4, <1>6 DEF SortExists, CheckOptions

\* The order names every question once.
LEMMA OfferedCounts ==
    ASSUME NEW s \in Offered, NEW k \in Kind
    PROVE  /\ s.order \in Seq(Kind) /\ s.questions[k] \in Seq(Question)
           /\ Count(s.order, k) = Len(s.questions[k])
BY SurveyAssumption DEF Offered, QuestionsList, CheckSurvey

\* The view at a position has that position's question and answer.
LEMMA PlacedView ==
    ASSUME SurveyTyped, Laid, NEW i \in DOMAIN views
    PROVE  /\ views[i] \in View /\ i \in DOMAIN survey.order
           /\ views[i].question.kind = survey.order[i]
           /\ views[i].question.kind = "sort" => Len(views[i].question.options) >= 2
           /\ views[i].no \in DOMAIN answers[views[i].question.kind]
<1>1. survey \in Offered /\ views[i] \in View /\ i \in 1 .. Len(views)
  BY DEF SurveyTyped, SurveyTypeOK
<1>2. survey.order \in Seq(Kind)
  BY <1>1, OfferedCounts DEF Kind
<1>3. i \in DOMAIN survey.order /\ survey.order[i] \in Kind
  BY <1>1, <1>2 DEF Laid
<1> DEFINE k == survey.order[i]
           n == Nth(survey.order, i)
<1>4. n \in 1 .. Count(survey.order, k)
  BY <1>2, <1>3, NthIn
<1>5. Count(survey.order, k) = Len(survey.questions[k])
  BY <1>1, <1>3, OfferedCounts
<1>6. /\ survey.questions[k][n].kind = k
      /\ k = "sort" => Len(survey.questions[k][n].options) >= 2
  BY <1>1, <1>3, <1>4, <1>5, OfferedQuestion
<1>7. views[i].question = survey.questions[k][n] /\ views[i].no = n
  BY DEF Laid, Placed
<1>8. answers[k] \in Seq(Value \union {NoAnswer}) /\ Len(answers[k]) = Count(survey.order, k)
  BY <1>3 DEF SurveyTyped, Laid
<1> QED
  BY <1>1, <1>3, <1>4, <1>6, <1>7, <1>8

\* No two views share an answer.
LEMMA AnswersApart ==
    ASSUME SurveyTyped, Laid, NEW i \in DOMAIN views, NEW j \in DOMAIN views, i # j
    PROVE  \/ views[i].question.kind # views[j].question.kind
           \/ views[i].no # views[j].no
<1>1. survey.order \in Seq(Kind)
  BY OfferedCounts DEF Kind, SurveyTyped, SurveyTypeOK
<1>2. views[i].no = Nth(survey.order, i) /\ views[j].no = Nth(survey.order, j)
  BY DEF Laid, Placed
<1> QED
  BY <1>1, <1>2, PlacedView, NthDiffers

-----------------------------------------------------------------------------
(* The steps *)

\* Saving is about the question shown alone.
LEMMA Saving ==
    ASSUME SurveyTyped, Laid, current \in DOMAIN views, SaveAnswer, UNCHANGED <<survey, views>>
    PROVE  /\ answers' \in [Kind -> Seq(Value \union {NoAnswer})]
           /\ \A k \in Kind : Len(answers'[k]) = Len(answers[k])
           /\ Laid'
           /\ \A i \in DOMAIN views :
                AnswerOf(views[i])' = IF i = current THEN Saved(views[i]) ELSE AnswerOf(views[i])
<1> DEFINE v == views[current]
           k == v.question.kind
<1>1. v \in View /\ k \in Kind /\ v.no \in DOMAIN answers[k]
  BY PlacedView DEF View, Question
<1>2. Saved(v) \in Value \union {NoAnswer}
  BY <1>1 DEF Saved, View
<1>3. answers \in [Kind -> Seq(Value \union {NoAnswer})]
  BY DEF SurveyTyped
<1>4. answers' = [answers EXCEPT ![k] = [answers[k] EXCEPT ![v.no] = Saved(v)]]
  BY <1>1, <1>3 DEF SaveAnswer, Shown
<1> HIDE DEF v, k
<1>5. [answers[k] EXCEPT ![v.no] = Saved(v)] \in Seq(Value \union {NoAnswer})
  BY <1>1, <1>2, <1>3
<1>6. answers' \in [Kind -> Seq(Value \union {NoAnswer})]
  BY <1>1, <1>3, <1>4, <1>5
<1>7. \A l \in Kind : Len(answers'[l]) = Len(answers[l])
  BY <1>1, <1>2, <1>3, <1>4
<1>8. Laid'
  BY <1>7 DEF Laid, Placed
<1>9. answers'[k][v.no] = Saved(v)
  BY <1>1, <1>3, <1>4
<1>10. ASSUME NEW i \in DOMAIN views \ {current}
       PROVE  answers'[views[i].question.kind][views[i].no] = answers[views[i].question.kind][views[i].no]
  <2>1. views[i].question.kind # k \/ views[i].no # v.no
    BY AnswersApart DEF v, k
  <2>2. views[i].question.kind \in Kind /\ views[i].no \in DOMAIN answers[views[i].question.kind]
    BY PlacedView DEF View, Question
  <2> QED
    BY <2>1, <2>2, <1>1, <1>3, <1>4
<1> QED
  BY <1>6, <1>7, <1>8, <1>9, <1>10 DEF AnswerOf, v, k

\* Changing the value on the screen, within what the question allows.
LEMMA Changing ==
    ASSUME SurveyInv, page = "asking", NEW value \in Value, NEW chosen, Change(value, chosen),
           chosen \in Elements(Shown.question.options) \union {NoOption},
           Fits([Shown EXCEPT !.value = value, !.active = chosen]),
           Shown.question.kind = "multi" /\ Shown.question.single => value \subseteq {chosen}
    PROVE  SurveyInv'
<1> DEFINE v == views[current]
           w == [v EXCEPT !.value = value, !.active = chosen]
<1>1. SurveyTyped /\ Laid /\ current \in DOMAIN views /\ Fresh /\ OneOptionIfSingle /\ EarlierAnswered /\ Stored
  BY DEF SurveyInv, Complete, SurveyTyped, SurveyTypeOK
<1>2. v \in View /\ v.question \in Question
  BY <1>1, PlacedView DEF View
<1>3. v.question.options \in Seq(Option)
  BY <1>2 DEF Question
<1>4. chosen \in Option \union {NoOption}
  BY <1>3 DEF Elements, Shown
<1>5. w \in View /\ w.question = v.question /\ w.no = v.no /\ w.value = value /\ w.active = chosen
  BY <1>2, <1>4 DEF View
<1>6. views \in Seq(View)
  BY DEF SurveyInv, SurveyTyped
<1> HIDE DEF w
<1>7. views' = [views EXCEPT ![current] = w]
  BY <1>1, <1>2, <1>6 DEF Change, View, w
<1>8. UNCHANGED <<type, survey, left, answers, page, current, recreated>>
  BY DEF Change, questionVars
<1>9. /\ views' \in Seq(View) /\ DOMAIN views' = DOMAIN views /\ Len(views') = Len(views)
      /\ views'[current] = w
      /\ \A i \in DOMAIN views \ {current} : views'[i] = views[i]
  BY <1>1, <1>5, <1>6, <1>7
<1>10. \A i \in DOMAIN views : views'[i].question = views[i].question /\ views'[i].no = views[i].no
  BY <1>5, <1>9
<1>11. Fits(w)
  BY DEF Shown, w
<1>12. Laid'
  BY <1>1, <1>8, <1>9, <1>10, <1>11 DEF Laid, Placed
<1>13. SurveyTypeOK'
  <2>1. \A i \in DOMAIN views' :
          /\ views'[i].value \in ValueOf(views'[i].question)
          /\ views'[i].active \in Elements(views'[i].question.options) \union {NoOption}
          /\ views'[i].no \in DOMAIN answers'[views'[i].question.kind]
    BY <1>1, <1>5, <1>8, <1>9, <1>11 DEF SurveyTyped, SurveyTypeOK, Fits, Shown
  <2> QED
    BY <1>1, <1>8, <1>9, <2>1 DEF SurveyTyped, SurveyTypeOK
<1>14. SurveyTyped'
  BY <1>1, <1>8, <1>9, <1>13 DEF SurveyTyped
<1>15. Fresh' /\ Complete'
  BY <1>1, <1>8, <1>12 DEF SurveyInv, Fresh, Complete
<1>16. OneOptionIfSingle'
  BY <1>1, <1>5, <1>9, <1>10 DEF OneOptionIfSingle, Shown
<1>17. EarlierAnswered'
  BY <1>1, <1>8, <1>9, <1>10 DEF EarlierAnswered, AnswerOf
<1>18. Stored'
  BY <1>1, <1>8, <1>9 DEF Stored, AnswerOf
<1> QED
  BY <1>14, <1>15, <1>16, <1>17, <1>18 DEF SurveyInv

\* What is known of the question on the screen.
LEMMA ShownTyped ==
    ASSUME SurveyInv, page = "asking"
    PROVE  /\ Shown \in View /\ Shown.question \in Question /\ Fits(Shown)
           /\ Shown.question.options \in Seq(Option)
           /\ Shown.question.kind = "multi" /\ Shown.question.single => Shown.value \subseteq {Shown.active}
<1>1. SurveyTyped /\ Laid /\ current \in DOMAIN views /\ OneOptionIfSingle
  BY DEF SurveyInv, Complete, SurveyTyped, SurveyTypeOK
<1> QED
  BY <1>1, PlacedView DEF Shown, Laid, View, Question, OneOptionIfSingle

\* A text box keeps a text it allows.
LEMMA TypeKeeps == \A t \in Text : SurveyInv /\ Type(t) => SurveyInv'
<1> SUFFICES ASSUME NEW t \in Text, SurveyInv, Type(t) PROVE SurveyInv'
  OBVIOUS
<1>1. page = "asking" /\ Shown.question.kind = "simple" /\ Change(t, NoOption)
  BY DEF Type, Asking
<1>2. Fits([Shown EXCEPT !.value = t, !.active = NoOption])
  BY <1>1, ShownTyped DEF View, Fits, ValueOf, Type, Question
<1> QED
  BY <1>1, <1>2, Changing DEF Value

\* A choice keeps options of the question, one if there is a single answer.
LEMMA OptionKeeps ==
    ASSUME SurveyInv, NEW o \in Option, SelectOption(o) \/ UnselectOption(o) \/ Redraw(o)
    PROVE  SurveyInv'
<1> DEFINE E == Elements(Shown.question.options)
<1>1. page = "asking" /\ Shown.question.kind = "multi"
  BY DEF SelectOption, UnselectOption, Redraw, Asking
<1>2. E \subseteq Option /\ Shown.value \subseteq E
  BY <1>1, ShownTyped DEF Elements, Fits, ValueOf
<1>3. PICK value, chosen :
        /\ Change(value, chosen) /\ value \subseteq E /\ chosen \in E \union {NoOption}
        /\ Shown.question.single => value \subseteq {chosen}
  <2>1. CASE SelectOption(o)
    BY <1>1, <1>2, <2>1, ShownTyped DEF SelectOption
  <2>2. CASE UnselectOption(o)
    BY <1>1, <1>2, <2>2, ShownTyped DEF UnselectOption
  <2>3. CASE Redraw(o)
    BY <1>1, <1>2, <2>3, ShownTyped DEF Redraw
  <2> QED
    BY <2>1, <2>2, <2>3
<1>4. Fits([Shown EXCEPT !.value = value, !.active = chosen])
  BY <1>1, <1>3, ShownTyped DEF View, Fits, ValueOf
<1> QED
  BY <1>1, <1>2, <1>3, <1>4, Changing DEF Value

\* A sorted list is as long as the list of options.
LEMMA SortedIsList ==
    ASSUME NEW options \in Seq(Option), NEW s \in [DOMAIN options -> Elements(options)]
    PROVE  s \in Seq(Option) /\ Len(s) = Len(options)
<1>1. Elements(options) \subseteq Option /\ DOMAIN options = 1 .. Len(options) /\ Len(options) \in Nat
  BY DEF Elements
<1>2. s \in [1 .. Len(options) -> Option]
  BY <1>1
<1> QED
  BY <1>1, <1>2

\* A list to sort keeps its elements.
LEMMA MoveKeeps ==
    ASSUME SurveyInv, NEW i \in 1 .. MaxOptions, MoveUp(i) \/ MoveDown(i)
    PROVE  SurveyInv'
<1> DEFINE s == Shown.value
           options == Shown.question.options
<1>1. page = "asking" /\ Shown.question.kind = "sort"
  BY DEF MoveUp, MoveDown, Asking
<1>2. options \in Seq(Option) /\ s \in [DOMAIN options -> Elements(options)]
  BY <1>1, ShownTyped DEF Fits, ValueOf
<1>3. s \in Seq(Option) /\ Len(s) = Len(options)
  BY <1>2, SortedIsList
<1>4. PICK j \in 1 .. Len(s) - 1 : Change([s EXCEPT ![j] = s[j + 1], ![j + 1] = s[j]], NoOption)
  <2>1. CASE MoveUp(i)
    <3>1. i - 1 \in 1 .. Len(s) - 1 /\ (i - 1) + 1 = i
      BY <1>3, <2>1, SurveyAssumption DEF MoveUp
    <3>2. [s EXCEPT ![i] = s[i - 1], ![i - 1] = s[i]] = [s EXCEPT ![i - 1] = s[i], ![i] = s[i - 1]]
      BY <1>3, <3>1
    <3> QED
      BY <2>1, <3>1, <3>2 DEF MoveUp
  <2>2. CASE MoveDown(i)
    BY <2>2 DEF MoveDown
  <2> QED
    BY <2>1, <2>2
<1> DEFINE t == [s EXCEPT ![j] = s[j + 1], ![j + 1] = s[j]]
<1>5. t \in [DOMAIN options -> Elements(options)] /\ t \in Seq(Option)
  BY <1>2, <1>3, <1>4
<1>6. \A o \in Option : Count(t, o) = Count(s, o)
  BY <1>3, <1>4, SwapCounts
<1>7. \A o \in Option : Count(s, o) = Count(options, o)
  BY <1>1, ShownTyped DEF Fits
<1> HIDE DEF t, s, options
<1>8. Fits([Shown EXCEPT !.value = t, !.active = NoOption])
  BY <1>1, <1>5, <1>6, <1>7, ShownTyped DEF View, Fits, ValueOf, options
<1>9. Change(t, NoOption)
  BY <1>4 DEF t
<1> QED
  BY <1>1, <1>5, <1>8, <1>9, Changing DEF Value

\* A new view shows what its question allows, and nobody's answer.
LEMMA NewViewFits ==
    ASSUME NEW q \in Question, NEW n \in Nat
    PROVE  LET v == NewView(q, n)
           IN  /\ v \in View /\ v.question = q /\ v.no = n /\ v.active = NoOption
               /\ Fits(v) /\ (v.question.kind = "multi" => v.value = {})
               /\ Saved(v) = NoAnswer \/ v.value = v.question.options
<1> DEFINE v == NewView(q, n)
<1> SUFFICES /\ v \in View /\ v.question = q /\ v.no = n /\ v.active = NoOption
             /\ Fits(v) /\ (v.question.kind = "multi" => v.value = {})
             /\ Saved(v) = NoAnswer \/ v.value = v.question.options
  OBVIOUS
<1>1. q.kind \in Kind /\ q.options \in Seq(Option)
  BY DEF Question
<1>2. PICK value : v = [question |-> q, no |-> n, active |-> NoOption, value |-> value]
  BY DEF NewView
<1>3. v.question = q /\ v.no = n /\ v.active = NoOption /\ v.value = value
  BY <1>2
<1>4. value \in Value => v \in View
  BY <1>2 DEF View
<1>5. CASE q.kind = "simple"
  <2>1. v.value = ""
    BY <1>5 DEF NewView
  <2> HIDE DEF v
  <2> QED
    BY <1>3, <1>4, <1>5, <2>1 DEF Value, Text, Fits, ValueOf, Saved
<1>6. CASE q.kind = "multi"
  <2>1. v.value = {}
    BY <1>6 DEF NewView
  <2> HIDE DEF v
  <2> QED
    BY <1>3, <1>4, <1>6, <2>1 DEF Value, Fits, ValueOf, Saved
<1>7. CASE q.kind = "sort"
  <2>1. v.value = q.options
    BY <1>7 DEF NewView
  <2>2. q.options \in [DOMAIN q.options -> Elements(q.options)]
    BY <1>1 DEF Elements
  <2> HIDE DEF v
  <2> QED
    BY <1>1, <1>3, <1>4, <1>7, <2>1, <2>2 DEF Value, Fits, ValueOf
<1> QED
  BY <1>1, <1>5, <1>6, <1>7 DEF Kind

\* The queues are read, position by position.
LEMMA InitViewsKeeps == SurveyInv /\ InitViews => SurveyInv'
<1> SUFFICES ASSUME SurveyInv, InitViews PROVE SurveyInv'
  OBVIOUS
<1>1. /\ SurveyTyped /\ SurveyTypeOK /\ page = "posted" /\ survey \in Offered
      /\ left \in QuestionsList /\ left.order \in Seq(Kind)
  BY DEF SurveyInv, SurveyTyped, SurveyTypeOK, InitViews, QuestionsList
<1>2. UNCHANGED <<type, survey, recreated>>
  BY DEF InitViews
<1> DEFINE Q(i) == left.questions[left.order[i]][Nth(left.order, i)]
           N(i) == Len(answers[left.order[i]]) + Nth(left.order, i)
<1>3. views' = [i \in DOMAIN left.order |-> NewView(Q(i), N(i))]
  BY DEF InitViews
<1>4. CASE left.order = <<>>
  <2>1. views' = <<>> /\ current' = 0 /\ page' = "done"
    BY <1>3, <1>4 DEF InitViews
  <2>2. \A k \in Kind : Count(left.order, k) = 0
    BY <1>4, CountNone
  <2>3. answers' = answers /\ left' = left
    <3>1. ASSUME NEW k \in Kind
          PROVE  /\ answers[k] \o [n \in 1 .. Count(left.order, k) |-> NoAnswer] = answers[k]
                 /\ SubSeq(left.questions[k], Count(left.order, k) + 1, Len(left.questions[k]))
                        = left.questions[k]
      <4>1. answers[k] \in Seq(Value \union {NoAnswer}) /\ left.questions[k] \in Seq(Question)
        BY <1>1 DEF SurveyTyped, QuestionsList
      <4>2. [n \in 1 .. Count(left.order, k) |-> NoAnswer] = <<>>
        BY <2>2
      <4> QED
        BY <2>2, <4>1, <4>2
    <3> QED
      BY <1>1, <1>4, <3>1 DEF InitViews, SurveyTyped, QuestionsList
  <2>4. Excused \/ (survey.order = <<>> /\ answers = Nothing)
    BY <1>1, <1>4 DEF SurveyInv, Fresh
  <2>5. Excused' \/ Laid'
    <3>1. CASE survey.order = <<>> /\ answers = Nothing
      <4>1. \A k \in Kind : Count(survey.order, k) = 0
        BY <3>1, CountNone
      <4> QED
        BY <1>2, <2>1, <2>3, <3>1, <4>1 DEF Laid, Nothing
    <3> QED
      BY <1>2, <2>4, <3>1 DEF Excused
  <2>6. SurveyTyped'
    BY <1>1, <1>2, <2>1, <2>3 DEF SurveyTyped, SurveyTypeOK
  <2> QED
    BY <2>1, <2>5, <2>6 DEF SurveyInv, Fresh, Complete, OneOptionIfSingle, EarlierAnswered, Stored
<1>5. CASE left.order # <<>>
  <2>1. left = survey /\ answers = Nothing
    BY <1>1, <1>5 DEF SurveyInv, Fresh
  <2>2. \A k \in Kind : Count(survey.order, k) = Len(survey.questions[k]) /\ survey.questions[k] \in Seq(Question)
    BY <1>1, OfferedCounts
  <2>3. \A k \in Kind : Count(survey.order, k) \in Nat
    BY <2>2
  <2>4. current' = 1 /\ page' = "asking" /\ Len(survey.order) > 0
    BY <1>1, <1>5, <2>1 DEF InitViews
  <2>5. ASSUME NEW i \in DOMAIN survey.order
        PROVE  /\ survey.order[i] \in Kind /\ Nth(survey.order, i) \in 1 .. Count(survey.order, survey.order[i])
               /\ N(i) = Nth(survey.order, i)
               /\ Q(i) \in Question /\ Q(i).kind = survey.order[i] /\ Q(i).options \in Seq(Option)
    <3>1. survey.order[i] \in Kind /\ Nth(survey.order, i) \in 1 .. Count(survey.order, survey.order[i])
      BY <1>1, <2>1, NthIn
    <3>2. N(i) = Nth(survey.order, i)
      BY <2>1, <2>3, <3>1 DEF Nothing
    <3>3. Q(i) \in Question /\ Q(i).kind = survey.order[i]
      <4>1. Nth(survey.order, i) \in 1 .. Len(survey.questions[survey.order[i]])
        BY <2>2, <3>1
      <4>2. Q(i) = survey.questions[survey.order[i]][Nth(survey.order, i)]
        BY <2>1
      <4>3. /\ survey.questions[survey.order[i]][Nth(survey.order, i)] \in Question
            /\ survey.questions[survey.order[i]][Nth(survey.order, i)].kind = survey.order[i]
        BY <1>1, <3>1, <4>1, OfferedQuestion
      <4> QED
        BY <4>2, <4>3
    <3> QED
      BY <3>1, <3>2, <3>3 DEF Question
  <2> HIDE DEF Q, N
  <2>6. ASSUME NEW i \in DOMAIN survey.order
        PROVE  LET v == NewView(Q(i), N(i))
               IN  /\ v \in View /\ v.question = Q(i) /\ v.no = N(i) /\ v.active = NoOption
                   /\ Fits(v) /\ (v.question.kind = "multi" => v.value = {})
                   /\ Saved(v) = NoAnswer \/ v.value = v.question.options
    <3>1. Q(i) \in Question /\ N(i) \in Nat
      BY <2>3, <2>5
    <3> QED
      BY <3>1, NewViewFits
  <2>7. /\ DOMAIN views' = DOMAIN survey.order
        /\ \A i \in DOMAIN survey.order : views'[i] = NewView(Q(i), N(i))
    BY <1>3, <2>1
  <2>8. views' \in Seq(View) /\ Len(views') = Len(survey.order)
    <3>1. views' \in [1 .. Len(survey.order) -> View] /\ Len(survey.order) \in Nat
      BY <1>1, <1>3, <2>1, <2>6, <2>7
    <3> QED
      BY <3>1
  <2>9. \A k \in Kind : answers'[k] = [n \in 1 .. Count(survey.order, k) |-> NoAnswer]
    <3> SUFFICES ASSUME NEW k \in Kind
                 PROVE  answers'[k] = [n \in 1 .. Count(survey.order, k) |-> NoAnswer]
      OBVIOUS
    <3> DEFINE e == [n \in 1 .. Count(survey.order, k) |-> NoAnswer]
    <3>1. e \in Seq({NoAnswer})
      BY <2>3
    <3>2. answers'[k] = <<>> \o e
      BY <2>1 DEF InitViews, Nothing
    <3> QED
      BY <3>1, <3>2
  <2>10. answers' \in [Kind -> Seq(Value \union {NoAnswer})]
    <3>1. \A k \in Kind : [n \in 1 .. Count(survey.order, k) |-> NoAnswer] \in Seq(Value \union {NoAnswer})
      BY <2>3
    <3>2. DOMAIN answers' = Kind /\ answers' = [k \in Kind |-> answers'[k]]
      BY DEF InitViews
    <3> QED
      BY <2>9, <3>1, <3>2
  <2>11. \A k \in Kind : /\ Len(answers'[k]) = Count(survey.order, k)
                         /\ \A n \in 1 .. Count(survey.order, k) : answers'[k][n] = NoAnswer
    <3> SUFFICES ASSUME NEW k \in Kind
                 PROVE  /\ Len(answers'[k]) = Count(survey.order, k)
                        /\ \A n \in 1 .. Count(survey.order, k) : answers'[k][n] = NoAnswer
      OBVIOUS
    <3> DEFINE c == Count(survey.order, k)
    <3>1. c \in Nat /\ answers'[k] = [n \in 1 .. c |-> NoAnswer]
      BY <2>3, <2>9
    <3> HIDE DEF c
    <3>2. Len(answers'[k]) = c /\ \A n \in 1 .. c : answers'[k][n] = NoAnswer
      BY <3>1
    <3> QED
      BY <3>2 DEF c
  <2>12. left'.order = <<>> /\ left' \in QuestionsList
    <3>1. \A k \in Kind : SubSeq(left.questions[k], Count(left.order, k) + 1, Len(left.questions[k])) \in Seq(Question)
      BY <2>1, <2>2, <2>3
    <3> QED
      BY <3>1 DEF InitViews, QuestionsList
  <2>13. Laid'
    BY <1>2, <2>1, <2>5, <2>6, <2>7, <2>8, <2>11 DEF Laid, Placed, Q
  <2>14. SurveyTypeOK'
    <3>1. \A i \in DOMAIN views' :
            /\ views'[i].value \in ValueOf(views'[i].question)
            /\ views'[i].active \in Elements(views'[i].question.options) \union {NoOption}
            /\ views'[i].no \in DOMAIN answers'[views'[i].question.kind]
      <4> SUFFICES ASSUME NEW i \in DOMAIN survey.order
                   PROVE  /\ views'[i].value \in ValueOf(views'[i].question)
                          /\ views'[i].active \in Elements(views'[i].question.options) \union {NoOption}
                          /\ views'[i].no \in DOMAIN answers'[views'[i].question.kind]
        BY <2>7
      <4>1. views'[i] = NewView(Q(i), N(i))
        BY <2>7
      <4>2. survey.order[i] \in Kind
        BY <2>5
      <4>3. DOMAIN answers'[survey.order[i]] = 1 .. Count(survey.order, survey.order[i])
        BY <2>9, <4>2
      <4>4. views'[i].no \in DOMAIN answers'[views'[i].question.kind]
        BY <2>5, <2>6, <4>1, <4>3
      <4> QED
        BY <2>6, <4>1, <4>4 DEF Fits
    <3> QED
      BY <1>1, <1>2, <2>4, <2>8, <2>10, <2>12, <3>1 DEF SurveyTypeOK
  <2>15. SurveyTyped'
    BY <2>8, <2>10, <2>12, <2>14 DEF SurveyTyped
  <2>16. OneOptionIfSingle' /\ EarlierAnswered'
    BY <2>4, <2>6, <2>7, <2>8 DEF OneOptionIfSingle, EarlierAnswered
  <2>17. Stored'
    <3>1. \A i \in DOMAIN views' : answers'[views'[i].question.kind][views'[i].no] = NoAnswer
      BY <2>5, <2>6, <2>7, <2>11
    <3> QED
      BY <2>6, <2>7, <3>1 DEF Stored, AnswerOf
  <2> QED
    BY <2>4, <2>13, <2>15, <2>16, <2>17 DEF SurveyInv, Fresh, Complete
<1> QED
  BY <1>4, <1>5

\* Leaving a question stores its answer; only an answered one is left behind.
LEMMA SaveKeeps == SurveyInv /\ (NextQuestion \/ Finish \/ Prev) => SurveyInv'
<1> SUFFICES ASSUME SurveyInv, NextQuestion \/ Finish \/ Prev PROVE SurveyInv'
  OBVIOUS
<1>1. /\ page = "asking" /\ SaveAnswer /\ page' \in {"asking", "confirming"}
      /\ UNCHANGED <<type, survey, left, views, recreated>>
  BY DEF NextQuestion, Finish, Prev, questionVars
<1>2. SurveyTyped /\ Laid /\ Len(views) \in Nat /\ current \in DOMAIN views /\ DOMAIN views = 1 .. Len(views)
  BY <1>1 DEF SurveyInv, Complete, SurveyTyped, SurveyTypeOK
<1>3. /\ answers' \in [Kind -> Seq(Value \union {NoAnswer})]
      /\ \A k \in Kind : Len(answers'[k]) = Len(answers[k])
      /\ Laid'
      /\ \A i \in DOMAIN views :
            AnswerOf(views[i])' = IF i = current THEN Saved(views[i]) ELSE AnswerOf(views[i])
  BY <1>1, <1>2, Saving
<1>4. current' \in DOMAIN views /\ current' <= current + 1
  BY <1>1, <1>2 DEF NextQuestion, Finish, Prev
<1>5. current' > current \/ page' = "confirming" => Saved(views[current]) # NoAnswer
  <2>1. CanContinue => Saved(views[current]) # NoAnswer
    <3>1. Shown = views[current] /\ Shown.question.kind = "sort" => Shown.value # NoAnswer /\ Shown.value # <<>>
      <4> SUFFICES ASSUME Shown.question.kind = "sort" PROVE Shown.value # NoAnswer /\ Shown.value # <<>>
        BY DEF Shown
      <4>1. Shown.question.options \in Seq(Option) /\ Len(Shown.question.options) >= 2
        BY <1>2, PlacedView DEF Shown, View, Question
      <4>2. Shown.value \in [DOMAIN Shown.question.options -> Elements(Shown.question.options)]
        BY <1>2 DEF Laid, Fits, ValueOf, Shown
      <4>3. Shown.value \in Seq(Option) /\ Len(Shown.value) >= 2
        BY <4>1, <4>2, SortedIsList
      <4> QED
        BY <4>3, SurveyAssumption
    <3> QED
      BY <3>1 DEF CanContinue, Saved, Shown
  <2>2. current' > current \/ page' = "confirming" => CanContinue
    BY <1>1, <1>2 DEF NextQuestion, Finish, Prev
  <2> QED
    BY <2>1, <2>2
<1>6. Stored'
  BY <1>1, <1>2, <1>3, <1>4, <1>5 DEF SurveyInv, Stored
<1>7. EarlierAnswered'
  BY <1>1, <1>2, <1>3, <1>4, <1>5 DEF SurveyInv, EarlierAnswered
<1>8. SurveyTypeOK'
  <2>1. ASSUME NEW k \in Kind PROVE DOMAIN answers'[k] = DOMAIN answers[k]
    <3>1. answers'[k] \in Seq(Value \union {NoAnswer}) /\ answers[k] \in Seq(Value \union {NoAnswer})
      BY <1>2, <1>3 DEF SurveyTyped
    <3> QED
      BY <1>3, <3>1
  <2>2. \A i \in DOMAIN views : views[i].question.kind \in Kind
    BY <1>2, PlacedView DEF View, Question
  <2>3. \A i \in DOMAIN views : views[i].no \in DOMAIN answers'[views[i].question.kind]
    BY <1>2, <2>1, <2>2, PlacedView
  <2> QED
    BY <1>1, <1>2, <1>3, <1>4, <2>3 DEF SurveyTypeOK, SurveyTyped
<1>9. Complete'
  <2>1. page' = "confirming" => current' = current /\ current = Len(views)
    BY <1>1, <1>2 DEF NextQuestion, Finish, Prev
  <2>2. page' = "confirming" => Answered(current)'
    BY <1>1, <1>2, <1>3, <1>5, <2>1 DEF Answered, Saved
  <2> QED
    BY <1>1, <1>2, <1>3, <1>4, <2>1, <2>2 DEF Complete
<1>10. OneOptionIfSingle' /\ Fresh' /\ SurveyTyped'
  BY <1>1, <1>3, <1>8 DEF SurveyInv, OneOptionIfSingle, Fresh, SurveyTyped
<1> QED
  BY <1>6, <1>7, <1>9, <1>10 DEF SurveyInv

\* Before the survey is laid out, and when it is torn down.
LEMMA RestKeeps ==
    SurveyInv /\ (Downloaded \/ DownloadingFailed \/ AnswerFailure \/ AnswerDialog \/ Recreate) => SurveyInv'
<1> SUFFICES ASSUME SurveyInv,
                    Downloaded \/ DownloadingFailed \/ AnswerFailure \/ AnswerDialog \/ Recreate
             PROVE  SurveyInv'
  OBVIOUS
<1>1. CASE Downloaded
  <2>1. /\ page' = "posted" /\ views = <<>> /\ current = 0
        /\ UNCHANGED <<type, survey, views, current, recreated>>
    BY <1>1 DEF Downloaded, SurveyInv, Fresh
  <2>2. left' = survey /\ answers' = Nothing /\ survey \in QuestionsList
    BY <1>1, SurveyAssumption DEF Downloaded, SurveyInv, SurveyTyped, SurveyTypeOK, Offered
  <2>3. answers' \in [Kind -> Seq(Value \union {NoAnswer})]
    BY <2>2 DEF Nothing
  <2>4. SurveyTyped'
    BY <2>1, <2>2, <2>3 DEF SurveyInv, SurveyTyped, SurveyTypeOK
  <2> QED
    BY <2>1, <2>2, <2>4 DEF SurveyInv, Fresh, Complete, OneOptionIfSingle, EarlierAnswered, Stored
<1>2. CASE DownloadingFailed \/ AnswerFailure
  <2>1. /\ page' \in {"loading", "failed", "left"} /\ views = <<>> /\ current = 0
        /\ UNCHANGED <<type, survey, left, answers, views, current, recreated>>
    BY <1>2 DEF DownloadingFailed, AnswerFailure, questionVars, SurveyInv, Fresh
  <2> QED
    BY <2>1 DEF SurveyInv, SurveyTyped, SurveyTypeOK, Fresh, Complete, OneOptionIfSingle, EarlierAnswered, Stored
<1>3. CASE AnswerDialog
  <2>1. /\ page = "confirming" /\ page' \in {"asking", "done"}
        /\ UNCHANGED <<type, survey, left, answers, views, current, recreated>>
    BY <1>3 DEF AnswerDialog, questionVars
  <2>2. current > 0 /\ left.order = <<>> /\ Laid /\ current = Len(views) /\ Answered(current)
    BY <2>1 DEF SurveyInv, SurveyTyped, SurveyTypeOK, Complete
  <2>3. SurveyTyped' /\ Fresh'
    BY <2>1, <2>2 DEF SurveyInv, SurveyTyped, SurveyTypeOK, Fresh
  <2>4. Complete'
    BY <2>1, <2>2 DEF Complete, Laid, Placed, Answered, AnswerOf
  <2> QED
    BY <2>1, <2>3, <2>4 DEF SurveyInv, OneOptionIfSingle, EarlierAnswered, AnswerOf, Stored
<1>4. CASE Recreate
  <2>1. /\ page \in {"asking", "confirming"} /\ left.order = <<>>
        /\ views' = <<>> /\ current' = 0 /\ page' = OnCreate /\ recreated'
        /\ UNCHANGED <<type, survey, left, answers>>
    BY <1>4 DEF Recreate, questionVars, SurveyInv, SurveyTyped, SurveyTypeOK
  <2>2. SurveyTyped'
    BY <2>1 DEF SurveyInv, SurveyTyped, SurveyTypeOK, OnCreate
  <2>3. Fresh'
    BY <2>1 DEF Fresh, Excused, OnCreate, SurveyInv, SurveyTyped, SurveyTypeOK
  <2> QED
    BY <2>1, <2>2, <2>3 DEF OnCreate, SurveyInv, Complete, OneOptionIfSingle, EarlierAnswered, Stored
<1> QED
  BY <1>1, <1>2, <1>3, <1>4

\* The activity is created.
LEMMA SurveyInitInv == SurveyInit => SurveyInv
<1> SUFFICES ASSUME SurveyInit PROVE SurveyInv
  OBVIOUS
<1>1. survey \in Offered /\ left = survey /\ survey \in QuestionsList
  BY SurveyAssumption DEF SurveyInit, Offered
<1>2. answers = Nothing /\ answers \in [Kind -> Seq(Value \union {NoAnswer})]
  BY DEF SurveyInit, Nothing
<1>3. views = <<>> /\ current = 0 /\ page \in {"loading", "posted"} /\ recreated = FALSE
  BY DEF SurveyInit, OnCreate
<1>4. SurveyTyped
  <2>1. SurveyTypeOK
    <3>1. Len(views) = 0 /\ DOMAIN views = {} /\ DOMAIN answers = Kind
      BY <1>2, <1>3
    <3>2. type \in {"before", "after"} /\ recreated \in BOOLEAN
      BY <1>3 DEF SurveyInit
    <3>3. current \in 0 .. Len(views)
      BY <1>3, <3>1
    <3>4. left.order \in {survey.order, <<>>}
      BY <1>1
    <3>5. \A i \in DOMAIN views :
            /\ views[i].value \in ValueOf(views[i].question)
            /\ views[i].active \in Elements(views[i].question.options) \union {NoOption}
            /\ views[i].no \in DOMAIN answers[views[i].question.kind]
      BY <3>1
    <3> QED
      BY <1>1, <1>3, <3>1, <3>2, <3>3, <3>4, <3>5 DEF SurveyTypeOK
  <2>2. views \in Seq(View)
    BY <1>3
  <2> QED
    BY <1>1, <1>2, <2>1, <2>2 DEF SurveyTyped
<1> QED
  BY <1>1, <1>2, <1>3, <1>4
     DEF SurveyInv, Fresh, Complete, OneOptionIfSingle, EarlierAnswered, Stored

-----------------------------------------------------------------------------
(* The theorems *)

\* The inductive invariant of a survey: views, answers and order are laid out
\* alike, every value is one its question allows, and what is not on the
\* screen is stored.
THEOREM SurveyInvariant == SurveySpec => []SurveyInv
<1>1. SurveyInv /\ [SurveyNext]_surveyVars => SurveyInv'
  <2> SUFFICES ASSUME SurveyInv, [SurveyNext]_surveyVars PROVE SurveyInv'
    OBVIOUS
  <2>1. CASE UNCHANGED surveyVars
    BY <2>1 DEF surveyVars, questionVars, SurveyInv, SurveyTyped, SurveyTypeOK, Fresh, Excused, Complete, Laid, Placed,
                Answered, AnswerOf, OneOptionIfSingle, EarlierAnswered, Stored
  <2>2. CASE SurveyNext
    BY <2>2, RestKeeps, InitViewsKeeps, TypeKeeps, OptionKeeps, MoveKeeps, SaveKeeps DEF SurveyNext
  <2> QED
    BY <2>1, <2>2
<1> QED
  BY <1>1, SurveyInitInv, PTL DEF SurveySpec

\* TypeOK: every view has a value its question allows and an answer to store
\* it in.
THEOREM SurveyTypes == SurveySpec => []SurveyTypeOK
<1>1. SurveyInv => SurveyTypeOK
  BY DEF SurveyInv, SurveyTyped
<1> QED
  BY <1>1, SurveyInvariant, PTL

\* OneOptionIfSingle: active option and checks stay in step.
THEOREM OneOption == SurveySpec => []OneOptionIfSingle
<1>1. SurveyInv => OneOptionIfSingle
  BY DEF SurveyInv
<1> QED
  BY <1>1, SurveyInvariant, PTL

\* EarlierAnswered: nobody is past a question without an answer.
THEOREM NoneSkipped == SurveySpec => []EarlierAnswered
<1>1. SurveyInv => EarlierAnswered
  BY DEF SurveyInv
<1> QED
  BY <1>1, SurveyInvariant, PTL

\* StoredAsShown: what is not on the screen is stored as it is shown.
THEOREM NothingLost == SurveySpec => []StoredAsShown
<1>1. SurveyInv => StoredAsShown
  BY DEF SurveyInv, Stored, StoredAsShown
<1> QED
  BY <1>1, SurveyInvariant, PTL

\* An answer that was stored and fits its question passes the server's checks.
LEMMA FittingIsAccepted ==
    ASSUME NEW v \in View, Fits(v), v.question.kind \in Kind, v.question.options \in Seq(Option),
           Saved(v) # NoAnswer
    PROVE  /\ Saved(v) = v.value
           /\ v.question.kind = "simple" => CheckSimpleAns(v.question, v.value)
           /\ v.question.kind = "multi" => CheckMultipleChoiceAns(v.question, v.value)
           /\ v.question.kind = "sort" => CheckSortAns(v.question, v.value)
<1>1. Saved(v) = v.value
  BY DEF Saved
<1>2. v.question.kind = "simple" => CheckSimpleAns(v.question, v.value)
  BY DEF Saved, Fits, ValueOf, Text, CheckSimpleAns
<1>3. v.question.kind = "multi" => CheckMultipleChoiceAns(v.question, v.value)
  BY DEF Saved, Fits, ValueOf, CheckMultipleChoiceAns
<1>4. v.question.kind = "sort" => CheckSortAns(v.question, v.value)
  BY DEF Fits, CheckSortAns
<1> QED
  BY <1>1, <1>2, <1>3, <1>4

\* FinishedIsAccepted: for any survey, whatever way the visitor went through
\* it, Reports::insert accepts its answers.
THEOREM FinishedSurveysAccepted == SurveySpec => []FinishedIsAccepted
<1>1. SurveyInv => FinishedIsAccepted
  <2> SUFFICES ASSUME SurveyInv, page = "done", ~Excused
               PROVE  Translatable(answers) /\ CheckSurveyAns(survey, answers)
    BY DEF FinishedIsAccepted, Excused
  <2>1. /\ SurveyTyped /\ Laid /\ survey \in Offered /\ views \in Seq(View)
        /\ current = Len(views) /\ (current > 0 => Answered(current))
    BY DEF SurveyInv, SurveyTyped, SurveyTypeOK, Complete
  <2>2. ASSUME NEW i \in DOMAIN views PROVE Answered(i)
    <3>1. CASE i = current
      BY <2>1, <3>1 DEF Answered
    <3>2. CASE i # current
      <4>1. i < current
        BY <2>1, <3>2
      <4>2. AnswerOf(views[i]) # NoAnswer
        BY <4>1 DEF SurveyInv, EarlierAnswered
      <4>3. AnswerOf(views[i]) = Saved(views[i])
        BY <3>2, <4>2 DEF SurveyInv, Stored
      <4> QED
        BY <4>2, <4>3 DEF Answered
    <3> QED
      BY <3>1, <3>2
  <2>3. ASSUME NEW k \in Kind
        PROVE  /\ Len(answers[k]) = Len(survey.questions[k]) /\ Len(answers[k]) \in Nat
               /\ DOMAIN answers[k] = 1 .. Count(survey.order, k)
               /\ survey.order \in Seq(Kind)
    <3>1. /\ survey.order \in Seq(Kind) /\ survey.questions[k] \in Seq(Question)
          /\ Count(survey.order, k) = Len(survey.questions[k])
      BY <2>1, OfferedCounts
    <3>2. Len(answers[k]) = Count(survey.order, k) /\ answers[k] \in Seq(Value \union {NoAnswer})
      BY <2>1 DEF Laid, SurveyTyped
    <3> QED
      BY <3>1, <3>2
  <2>4. ASSUME NEW k \in Kind, NEW n \in DOMAIN answers[k]
        PROVE  /\ answers[k][n] # NoAnswer
               /\ k = "simple" => CheckSimpleAns(survey.questions[k][n], answers[k][n])
               /\ k = "multi" => CheckMultipleChoiceAns(survey.questions[k][n], answers[k][n])
               /\ k = "sort" => CheckSortAns(survey.questions[k][n], answers[k][n])
    <3>1. PICK i \in DOMAIN survey.order : survey.order[i] = k /\ Nth(survey.order, i) = n
      <4>1. survey.order \in Seq(Kind) /\ n \in 1 .. Count(survey.order, k)
        BY <2>3
      <4> QED
        BY <4>1, NthOnto
    <3>2. i \in DOMAIN views
      BY <2>1, <2>3 DEF Laid
    <3>3. /\ views[i] \in View /\ views[i].question = survey.questions[k][n]
          /\ views[i].no = n /\ views[i].question.kind = k /\ Fits(views[i])
      BY <2>1, <3>1, <3>2, PlacedView DEF Laid, Placed
    <3>4. Saved(views[i]) # NoAnswer /\ answers[k][n] = Saved(views[i])
      BY <2>2, <3>2, <3>3 DEF Answered, AnswerOf
    <3>5. views[i].question.options \in Seq(Option)
      BY <3>3 DEF View, Question
    <3> QED
      BY <3>3, <3>4, <3>5, FittingIsAccepted
  <2>5. Translatable(answers)
    BY <2>4 DEF Translatable
  <2>6. {"simple", "multi", "sort"} = Kind
    BY DEF Kind
  <2> QED
    BY <2>3, <2>4, <2>5, <2>6 DEF CheckSurveyAns
<1> QED
  BY <1>1, SurveyInvariant, PTL
=============================================================================
