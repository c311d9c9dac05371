----------------------------- MODULE Experiments -----------------------------
(***************************************************************************)
(* Experiments, the actions and questions their lists name, and the        *)
(* reports stored for them: repository/Experiments.cpp, Actions.cpp,       *)
(* *Questions.cpp, Reports.cpp and the commands that call them.  Nothing   *)
(* but reference counts and checks keeps the ids in these tables alive, so *)
(* the counts are what this module is about.                               *)
(*                                                                         *)
(* An item is an action or a question; the four repositories count and     *)
(* remove alike.  The lists of an experiment (actions, breakActions, three *)
(* per survey) are positions, its slots; a list may name an item twice.    *)
(* A report is the exhibits its events name and, as history, the lists the *)
(* visitor was asked with.  Every command is one transaction.              *)
(***************************************************************************)
EXTENDS Naturals, FiniteSets

CONSTANTS
    Experiment,  \* ids of experiments
    Name,        \* non-empty names
    Item,        \* ids of actions and questions
    Slot,        \* positions in an experiment's lists
    NoItem,      \* a position beyond the end of its list
    Exhibit,     \* ids of exhibits
    Event,       \* positions in a report's history
    NoExhibit,   \* the event is a break, or there is none
    NoReport,    \* no row with this id
    MaxReports   \* bound on the counter last_report_id

ASSUME StoreAssumption ==
    /\ IsFiniteSet(Experiment) /\ IsFiniteSet(Slot) /\ IsFiniteSet(Event)
    /\ Name # {}
    /\ NoItem \notin Item
    /\ NoExhibit \notin Exhibit
    /\ MaxReports \in Nat

ReportID == 1 .. MaxReports
Content == [Slot -> Item \union {NoItem}]
History == [Event -> Exhibit \union {NoExhibit}]
Report == [experiment : Experiment, asked : Content, history : History]

ASSUME ReportAssumption == NoReport \notin Report

VARIABLES
    itemState,     \* not yet inserted, stored, removed
    itemRefs,      \* column ref_count of the item's table
    state,         \* of an experiment: column state, or no row
    name,          \* column name
    content,       \* column content
    exhibitState,  \* as in Exhibits
    exhibitRefs,   \* column ref_count of exhibits
    lastReportID,  \* counter last_report_id
    reports,       \* table reports
    served         \* history: the experiments tablets have downloaded

itemVars == <<itemState, itemRefs>>
experimentVars == <<state, name, content>>
exhibitVars == <<exhibitState, exhibitRefs>>
reportVars == <<lastReportID, reports>>
vars == <<itemVars, experimentVars, exhibitVars, reportVars, served>>

Empty == [s \in Slot |-> NoItem]

Exists(x) == state[x] \in {"ready", "active", "finished"}
Uses(c, i) == {s \in Slot : c[s] = i}
Names(h, e) == {v \in Event : h[v] = e}

\* Every item the lists name has a row: incRefCount and get throw otherwise.
Stored(c) == \A s \in Slot : c[s] # NoItem => itemState[c[s]] = "stored"

\* checkName: among all experiments, finished ones included.
NameFree(n) == \A x \in Experiment : Exists(x) => name[x] # n

Retained(refs, c) == [i \in Item |-> refs[i] + Cardinality(Uses(c, i))]
Released(refs, c) == [i \in Item |-> refs[i] - Cardinality(Uses(c, i))]

Init ==
    /\ itemState = [i \in Item |-> "unused"]
    /\ itemRefs = [i \in Item |-> 0]
    /\ state = [x \in Experiment |-> "unused"]
    /\ name = [x \in Experiment |-> CHOOSE n \in Name : TRUE]
    /\ content = [x \in Experiment |-> Empty]
    /\ exhibitState = [e \in Exhibit |-> "unused"]
    /\ exhibitRefs = [e \in Exhibit |-> 0]
    /\ lastReportID = 0
    /\ reports = [r \in ReportID |-> NoReport]
    /\ served = {}

-----------------------------------------------------------------------------
(* Actions and questions *)

CreateItem(i) ==
    /\ itemState[i] = "unused"
    /\ itemState' = [itemState EXCEPT ![i] = "stored"]
    /\ UNCHANGED <<itemRefs, experimentVars, exhibitVars, reportVars, served>>

\* Mutant of RemoveItem: the count is not looked at.
RemoveItemInUse(i) ==
    /\ itemState[i] = "stored"
    /\ itemState' = [itemState EXCEPT ![i] = "removed"]
    /\ UNCHANGED <<itemRefs, experimentVars, exhibitVars, reportVars, served>>

\* remove: InUse unless the count is 0.
RemoveItem(i) ==
    /\ itemState[i] = "stored"
    /\ itemRefs[i] = 0
    /\ itemState' = [itemState EXCEPT ![i] = "removed"]
    /\ UNCHANGED <<itemRefs, experimentVars, exhibitVars, reportVars, served>>

-----------------------------------------------------------------------------
(* Experiments *)

\* insertExec: retainData, then a row in state Ready.
InsertExec(x, n, c) ==
    /\ state[x] = "unused"
    /\ Stored(c)
    /\ itemRefs' = Retained(itemRefs, c)
    /\ state' = [state EXCEPT ![x] = "ready"]
    /\ name' = [name EXCEPT ![x] = n]
    /\ content' = [content EXCEPT ![x] = c]
    /\ UNCHANGED <<itemState, exhibitVars, reportVars, served>>

Insert(x, n, c) == NameFree(n) /\ InsertExec(x, n, c)

\* clone: the lists of any existing experiment under a new name.
Clone(x, y, n) == Exists(y) /\ NameFree(n) /\ InsertExec(x, n, content[y])

\* update, for an experiment whose old lists are given back as `freed`.
UpdateFrom(freed, x, n, c) ==
    /\ state[x] = "ready"
    /\ Stored(content[x])
    /\ n = name[x] \/ NameFree(n)
    /\ Stored(c)
    /\ itemRefs' = Retained(Released(itemRefs, freed), c)
    /\ name' = [name EXCEPT ![x] = n]
    /\ content' = [content EXCEPT ![x] = c]
    /\ UNCHANGED <<itemState, state, exhibitVars, reportVars, served>>

\* Mutant of Update: nothing is released.
UpdateUnreleased(x, n, c) == UpdateFrom(Empty, x, n, c)

\* update: release what the lists named, retain what they name now.
Update(x, n, c) == UpdateFrom(content[x], x, n, c)

\* start: only a ready experiment, and only if none is active.
StartExperiment(x) ==
    /\ \A y \in Experiment : state[y] # "active"
    /\ state[x] = "ready"
    /\ state' = [state EXCEPT ![x] = "active"]
    /\ UNCHANGED <<itemVars, name, content, exhibitVars, reportVars, served>>

\* ExperimentCommands::finish, where refresh deletes the exhibits in `gone`.
FinishPurging(gone) ==
    /\ \E x \in Experiment : state[x] = "active" /\ Stored(content[x])
    /\ state' = [x \in Experiment |-> IF state[x] = "active" THEN "finished" ELSE state[x]]
    /\ exhibitState' = [e \in Exhibit |-> IF e \in gone THEN "purged" ELSE exhibitState[e]]
    /\ UNCHANGED <<itemVars, name, content, exhibitRefs, reportVars, served>>

RemovedExhibits == {e \in Exhibit : exhibitState[e] = "removed"}

\* Mutant of Finish: refresh deletes every removed exhibit.
FinishPurgingAll == FinishPurging(RemovedExhibits)

\* finish: finishActive and Exhibits::refresh in one transaction.
Finish == FinishPurging({e \in RemovedExhibits : exhibitRefs[e] = 0})

\* remove, for an experiment in one of `states`: releaseData, and the row with
\* its reports (ON DELETE CASCADE).  The reports' exhibits are not released.
RemoveFrom(states, x) ==
    /\ state[x] \in states
    /\ itemRefs' = Released(itemRefs, content[x])
    /\ state' = [state EXCEPT ![x] = "removed"]
    /\ content' = [content EXCEPT ![x] = Empty]
    /\ reports' = [r \in ReportID |->
                     IF reports[r] # NoReport /\ reports[r].experiment = x
                     THEN NoReport ELSE reports[r]]
    /\ UNCHANGED <<itemState, name, exhibitVars, lastReportID, served>>

\* Mutant of Remove: the active experiment can be removed.
RemoveActive(x) == RemoveFrom({"ready", "active", "finished"}, x)

\* remove: any experiment but the active one.
Remove(x) == RemoveFrom({"ready", "finished"}, x)

\* getCurrent: a tablet downloads the active experiment.
GetCurrent(x) ==
    /\ state[x] = "active" /\ Stored(content[x])
    /\ served' = served \union {<<x, content[x]>>}
    /\ UNCHANGED <<itemVars, experimentVars, exhibitVars, reportVars>>

-----------------------------------------------------------------------------
(* Exhibits, as far as reports depend on them *)

CreateExhibit(e) ==
    /\ exhibitState[e] = "unused"
    /\ exhibitState' = [exhibitState EXCEPT ![e] = "live"]
    /\ UNCHANGED <<itemVars, experimentVars, exhibitRefs, reportVars, served>>

RemoveExhibit(e) ==
    /\ exhibitState[e] = "live"
    /\ exhibitState' = [exhibitState EXCEPT ![e] = "removed"]
    /\ UNCHANGED <<itemVars, experimentVars, exhibitRefs, reportVars, served>>

-----------------------------------------------------------------------------
(* Reports *)

ReserveID ==
    /\ lastReportID < MaxReports
    /\ lastReportID' = lastReportID + 1
    /\ UNCHANGED <<itemVars, experimentVars, exhibitVars, reports, served>>

\* checkSurveyAns: as many answers as the survey has questions.
SameShape(c, d) == \A s \in Slot : c[s] = NoItem <=> d[s] = NoItem

\* An accepted report, its events adding added[e] to the count of exhibit e.
SaveCounting(added, r, x, c, h) ==
    /\ r =< lastReportID /\ reports[r] = NoReport
    /\ <<x, c>> \in served
    /\ state[x] = "active" /\ Stored(content[x])
    /\ SameShape(c, content[x])
    /\ \A v \in Event : h[v] # NoExhibit => exhibitState[h[v]] \in {"live", "removed"}
    /\ exhibitRefs' = [e \in Exhibit |-> exhibitRefs[e] + added[e]]
    /\ reports' = [reports EXCEPT ![r] = [experiment |-> x, asked |-> c, history |-> h]]
    /\ UNCHANGED <<itemVars, experimentVars, exhibitState, lastReportID, served>>

\* Mutant of Save: an exhibit named by several events is counted once.
SaveCountingOnce(r, x, c, h) ==
    SaveCounting([e \in Exhibit |-> IF Names(h, e) = {} THEN 0 ELSE 1], r, x, c, h)

\* save: an id that is stored already is accepted and changes nothing, so it
\* is no step.  c is the experiment as the visitor's tablet downloaded it.
Save(r, x, c, h) ==
    SaveCounting([e \in Exhibit |-> Cardinality(Names(h, e))], r, x, c, h)

Next ==
    \/ \E i \in Item : CreateItem(i) \/ RemoveItem(i)
    \/ \E x \in Experiment, n \in Name, c \in Content : Insert(x, n, c) \/ Update(x, n, c)
    \/ \E x, y \in Experiment, n \in Name : Clone(x, y, n)
    \/ \E x \in Experiment : StartExperiment(x) \/ Remove(x) \/ GetCurrent(x)
    \/ Finish
    \/ \E e \in Exhibit : CreateExhibit(e) \/ RemoveExhibit(e)
    \/ ReserveID
    \/ \E r \in ReportID, x \in Experiment, c \in Content, h \in History : Save(r, x, c, h)

Spec == Init /\ [][Next]_vars

-----------------------------------------------------------------------------
(* Properties *)

TypeOK ==
    /\ itemState \in [Item -> {"unused", "stored", "removed"}]
    /\ itemRefs \in [Item -> Nat]
    /\ state \in [Experiment -> {"unused", "ready", "active", "finished", "removed"}]
    /\ name \in [Experiment -> Name]
    /\ content \in [Experiment -> Content]
    /\ exhibitState \in [Exhibit -> {"unused", "live", "removed", "purged"}]
    /\ exhibitRefs \in [Exhibit -> Nat]
    /\ lastReportID \in 0 .. MaxReports
    /\ reports \in [ReportID -> Report \union {NoReport}]
    /\ served \subseteq Experiment \X Content

\* At any time at most one experiment is active, so a report's experiment
\* and the one a tablet downloads are never in doubt.
AtMostOneActive ==
    \A x, y \in Experiment : state[x] = "active" /\ state[y] = "active" => x = y

\* No two experiments share a name, whatever clones, renames and removals
\* came before.
UniqueNames ==
    \A x, y \in Experiment : Exists(x) /\ Exists(y) /\ name[x] = name[y] => x = y

UsedAt(i) == {u \in Experiment \X Slot : content[u[1]][u[2]] = i}

\* The count of an action or question is the number of positions that name
\* it in the lists of all experiments: no update, clone or removal loses or
\* forgets one.
RefCountsExact == \A i \in Item : itemRefs[i] = Cardinality(UsedAt(i))

\* Hence an experiment can always be loaded: what its lists name is there.
ExperimentsLoadable == \A x \in Experiment : Exists(x) => Stored(content[x])

NamedAt(e) ==
    {u \in ReportID \X Event : reports[u[1]] # NoReport /\ reports[u[1]].history[u[2]] = e}

\* An exhibit's count covers the events of stored reports that name it.
EventsCounted == \A e \in Exhibit : exhibitRefs[e] >= Cardinality(NamedAt(e))

\* A stored report can be printed (ExcelProcessor): its experiment is there,
\* with the very lists the visitor answered, as answers are matched to
\* questions by position; and every exhibit its events name has a row, where
\* ExhibitNameColumn looks the name up with at().
ReportsPrintable ==
    \A r \in ReportID : reports[r] # NoReport =>
        /\ state[reports[r].experiment] \in {"active", "finished"}
        /\ reports[r].asked = content[reports[r].experiment]
        /\ \A v \in Event : reports[r].history[v] # NoExhibit =>
              exhibitState[reports[r].history[v]] \in {"live", "removed"}

\* A stored report is never altered, and never lost while its experiment is
\* there: not when a tablet sends it again, not when others are removed.
ReportsKept ==
    [][\A r \in ReportID :
          reports[r] # NoReport /\ reports'[r] # reports[r] =>
              /\ reports'[r] = NoReport
              /\ state[reports[r].experiment] = "finished"
              /\ state'[reports[r].experiment] = "removed"]_vars

\* The inductive invariant: rows that do not exist name nothing, and what a
\* tablet downloaded is what the experiment still says.
ServedFaithfully ==
    \A x \in Experiment, c \in Content : <<x, c>> \in served =>
        \/ state[x] \in {"active", "finished"} /\ content[x] = c
        \/ state[x] = "removed"

StoreInv ==
    /\ \A x \in Experiment : ~Exists(x) => content[x] = Empty
    /\ RefCountsExact
    /\ ExperimentsLoadable
    /\ EventsCounted
    /\ AtMostOneActive
    /\ ServedFaithfully
    /\ ReportsPrintable

\* The counted store implements the promise without counts.
Use == INSTANCE ItemUse WITH items <- {i \in Item : itemState[i] = "stored"}
ItemsKeptWhileUsed == Use!Spec
=============================================================================
