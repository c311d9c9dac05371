----------------------------- MODULE ExcelReports -----------------------------
(***************************************************************************)
(* A spreadsheet from the database to the user who asked for it:           *)
(* ReportCommands.cpp and utils/excel on the server, manageReports.py on   *)
(* the web server.                                                         *)
(*                                                                         *)
(* A request reads its reports in one transaction and then writes, under a *)
(* mutex all requests share, two csv files with fixed names and a zip of   *)
(* both with a name made of the ids.  The web process that asked opens     *)
(* that zip by name and removes it, outside the mutex.  Server and web     *)
(* processes can stop at any step; the files stay.                         *)
(*                                                                         *)
(* Each web process handles one request at a time with a connection of its *)
(* own.  The tables are worked out cell by cell, a heading being the       *)
(* column it is over; a csv file stands for what it was written from.      *)
(***************************************************************************)
EXTENDS Naturals, Sequences, FiniteSets, SequencesExt

CONSTANTS
    Experiment, Report, Exhibit,
    Request,          \* the web processes' requests
    Wanted,           \* what they ask for
    ExperimentOf,     \* what an experiment asks and offers
    ReportOf,         \* what a report says
    FirstActive,      \* the experiment that is active at first; others are over
    MaxStops,         \* bound on processes that stop
    NoExperiment, NoExhibit, NoTarget, NoFile, Nobody

Kind == {"simple", "multi", "sort"}
When == {"before", "after"}

\* What can be asked for: one report, or all of an experiment.
Target == ({"one"} \X Report) \union ({"all"} \X Experiment)

\* What the csv files and the zip of both are made from.
Dane == [experiment : Experiment, reports : SUBSET Report]
Legenda == [experiment : Experiment]
ZipFile == [data : Dane \union {NoFile}, legend : Legenda \union {NoFile}]

ASSUME ExcelAssumption ==
    /\ FirstActive \in Experiment /\ NoExperiment \notin Experiment
    /\ NoExhibit \notin Exhibit /\ Nobody \notin Request /\ NoTarget \notin Target
    /\ NoFile \notin Dane /\ NoFile \notin Legenda /\ NoFile \notin ZipFile
    /\ \A r \in Report :
        /\ ReportOf[r].experiment \in Experiment
        /\ \A i \in DOMAIN ReportOf[r].history :
            ReportOf[r].history[i].exhibit \in Exhibit \union {NoExhibit}
    /\ Wanted \subseteq Target /\ MaxStops \in Nat

-----------------------------------------------------------------------------
(* The tables *)

Count(list, x) == Cardinality({i \in DOMAIN list : list[i] = x})
Map(list, Op(_)) == [i \in DOMAIN list |-> Op(list[i])]

\* A cell with nothing in it.
Empty == <<>>

\* A container without columns prints nothing between the delimiters around
\* it: one empty cell.
Row(cells) == IF cells = <<>> THEN <<Empty>> ELSE cells

\* How many of its kind come up to position i: one iterator for each kind.
Nth(order, i) == Cardinality({j \in 1 .. i : order[j] = order[i]})

\* The columns of a survey, in the order in which the questions were asked.
SurveyColumns(survey, Cells(_, _)) ==
    Row(FlattenSeq([i \in DOMAIN survey.order |-> Cells(survey.order[i], Nth(survey.order, i))]))

QuestionHeader(when, kind, q) ==
    IF kind = "simple" THEN <<<<when, kind, q.id>>>>
    ELSE Row([n \in DOMAIN q.options |-> <<when, kind, q.id, n>>])

SurveyHeader(when, e) ==
    LET survey == ExperimentOf[e].survey[when]
    IN  SurveyColumns(survey, LAMBDA k, n : QuestionHeader(when, k, survey.questions[k][n]))

Mark(b) == IF b THEN <<"mark", 1>> ELSE Empty

\* The position of an option in a sorted answer.
Place(ans, o) == CHOOSE n \in DOMAIN ans : ans[n] = o

AnswerCells(kind, q, ans) ==
    CASE kind = "simple" -> <<<<"text", ans>>>>
      [] kind = "multi" -> Row(Map(q.options, LAMBDA o : Mark(Count(ans, o) = 1)))
      [] kind = "sort" -> Row(Map(q.options, LAMBDA o : <<"place", Place(ans, o)>>))

\* Mutant of SurveyEntry: the answers are taken as they come, kind by kind.
SurveyByKind(when, e, r) ==
    LET survey == ExperimentOf[e].survey[when]
        sorted == SelectSeq(survey.order, LAMBDA k : k = "simple")
                    \o SelectSeq(survey.order, LAMBDA k : k = "multi")
                    \o SelectSeq(survey.order, LAMBDA k : k = "sort")
    IN  SurveyColumns([survey EXCEPT !.order = sorted],
            LAMBDA k, n : AnswerCells(k, survey.questions[k][n], ReportOf[r].survey[when][k][n]))

SurveyEntry(when, e, r) ==
    LET survey == ExperimentOf[e].survey[when]
    IN  SurveyColumns(survey,
            LAMBDA k, n : AnswerCells(k, survey.questions[k][n], ReportOf[r].survey[when][k][n]))

ActionsHeader(column, actions) == Row(Map(actions, LAMBDA a : <<column, a>>))

ActionsEntry(isBreak, actions, event) ==
    Row(Map(actions, LAMBDA a : Mark(/\ isBreak = (event.exhibit = NoExhibit)
                                     /\ Count(event.actions, a) = 1)))

ExperimentHeader == <<<<"experiment">>>>
ExperimentEntry(e) == <<<<"experiment", e>>>>

ReportHeader(e) == <<<<"report">>>> \o SurveyHeader("before", e) \o SurveyHeader("after", e)
ReportEntry(e, r) == <<<<"report", r>>>> \o SurveyEntry("before", e, r) \o SurveyEntry("after", e, r)

HistoryHeader(e) ==
    <<<<"exhibit">>>> \o ActionsHeader("action", ExperimentOf[e].actions)
      \o ActionsHeader("break action", ExperimentOf[e].breakActions) \o <<<<"is break">>>>

ExhibitName(x) == IF x = NoExhibit THEN Empty ELSE <<"exhibit", x>>

HistoryEntry(e, event) ==
    <<ExhibitName(event.exhibit)>> \o ActionsEntry(FALSE, ExperimentOf[e].actions, event)
      \o ActionsEntry(TRUE, ExperimentOf[e].breakActions, event)
      \o <<<<"is break", event.exhibit = NoExhibit>>>>

Header == [e \in Experiment |-> ExperimentHeader \o ReportHeader(e) \o HistoryHeader(e)]

\* One row for each event, with the experiment's and the report's own cells in
\* each; so a report without events has none.
ReportRows == [r \in Report |->
    LET e == ReportOf[r].experiment
    IN  Map(ReportOf[r].history,
            LAMBDA event : ExperimentEntry(e) \o ReportEntry(e, r) \o HistoryEntry(e, event))]

\* A question of the second survey is added unless it is there already.
MergeQuestions(q1, q2) ==
    LET merged[i \in 0 .. Len(q2)] ==
            IF i = 0 THEN q1
            ELSE IF \E j \in DOMAIN merged[i - 1] : merged[i - 1][j].id = q2[i].id THEN merged[i - 1]
            ELSE Append(merged[i - 1], q2[i])
    IN  merged[Len(q2)]

LegendOf(kind, q) == <<<<kind, q.id>>>> \o [n \in DOMAIN q.options |-> <<kind, q.id, n>>]

LegendOfKind(kind, e) ==
    LET survey == ExperimentOf[e].survey
    IN  FlattenSeq(Map(MergeQuestions(survey["before"].questions[kind], survey["after"].questions[kind]),
                       LAMBDA q : LegendOf(kind, q)))

Legend == [e \in Experiment |->
    LegendOfKind("simple", e) \o LegendOfKind("multi", e) \o LegendOfKind("sort", e)]

Cells(list) == {list[i] : i \in DOMAIN list}
List(f) == f \in Seq(Cells(f))

\* What an experiment's tables hold.  Kinds and questions match (checkSurvey),
\* only simple questions have no options, and an id names one question.
SurveysMatch(e) ==
    \A when \in When : \A kind \in Kind :
        LET survey == ExperimentOf[e].survey[when]
        IN  /\ survey.order \in Seq(Kind) /\ List(survey.questions[kind])
            /\ Len(survey.questions[kind]) = Count(survey.order, kind)
            /\ \A i \in DOMAIN survey.questions[kind] :
                LET q == survey.questions[kind][i]
                IN  /\ List(q.options) /\ (q.options = <<>> <=> kind = "simple")
                    /\ \A other \in When :
                        \A j \in DOMAIN ExperimentOf[e].survey[other].questions[kind] :
                            LET p == ExperimentOf[e].survey[other].questions[kind][j]
                            IN  p.id = q.id => p = q

\* There is an answer to each question (checkSurveyAns).
AnswersMatch(r) ==
    \A when \in When : \A kind \in Kind :
        LET ans == ReportOf[r].survey[when][kind]
        IN  /\ List(ans)
            /\ Len(ans) = Len(ExperimentOf[ReportOf[r].experiment].survey[when].questions[kind])

ASSUME TablesAssumption ==
    /\ \A e \in Experiment :
        /\ SurveysMatch(e)
        /\ List(ExperimentOf[e].actions) /\ List(ExperimentOf[e].breakActions)
    /\ \A r \in Report : AnswersMatch(r) /\ List(ReportOf[r].history)

-----------------------------------------------------------------------------
VARIABLES
    experiments, \* table experiments
    active,      \* the active one
    stored,      \* table reports
    exhibits,    \* table exhibits: live, removed (is_deleted), gone (no row)
    counted,     \* exhibits whose ref_count is not 0
    phase,       \* how far a request is, on the server and then on the web
    asked,       \* what it is for
    proc,        \* its ExcelProcessor
    lock,        \* excelGenerationLock: its holder
    dane,        \* dane.csv in the temporary directory
    legenda,     \* legenda.csv beside it
    zips,        \* the zip files in the directory of reports
    got,         \* what the web process has read
    gone,        \* requests whose web process has stopped
    stops,       \* processes that stopped so far
    met,         \* history: requests that met another for the same file
    unzipped,    \* history: files a failed zip left as they were
    orphaned     \* history: files somebody stopped before removing

dbVars == <<experiments, active, stored, exhibits, counted>>
csvVars == <<dane, legenda>>
webVars == <<got, gone>>
historyVars == <<stops, met, unzipped, orphaned>>
vars == <<dbVars, phase, asked, proc, lock, csvVars, zips, webVars, historyVars>>

NoProc == [experiment |-> NoExperiment, reports |-> {}, exhibits |-> {}]

\* The ids in the name tell all targets apart.
PathForExcelZip(t) == t

Init ==
    /\ experiments = Experiment
    /\ active = FirstActive
    /\ stored = {r \in Report : ReportOf[r].experiment # FirstActive}
    /\ exhibits = [x \in Exhibit |-> "live"]
    /\ counted = {x \in Exhibit : \E r \in stored : \E i \in DOMAIN ReportOf[r].history :
                                      ReportOf[r].history[i].exhibit = x}
    /\ phase = [q \in Request |-> "idle"]
    /\ asked = [q \in Request |-> NoTarget]
    /\ proc = [q \in Request |-> NoProc]
    /\ lock = Nobody
    /\ dane = NoFile /\ legenda = NoFile
    /\ zips = [p \in Target |-> NoFile]
    /\ got = [q \in Request |-> NoFile]
    /\ gone = {}
    /\ stops = 0
    /\ met = {} /\ unzipped = {} /\ orphaned = {}

-----------------------------------------------------------------------------
(* Meanwhile, in the database *)

ExhibitsOf(r) == {ReportOf[r].history[i].exhibit : i \in DOMAIN ReportOf[r].history} \ {NoExhibit}

\* A report of the active experiment; its exhibits need a row and keep it.
InsertReport(r) ==
    /\ r \notin stored /\ ReportOf[r].experiment = active
    /\ \A x \in ExhibitsOf(r) : exhibits[x] # "gone"
    /\ stored' = stored \union {r}
    /\ counted' = counted \union ExhibitsOf(r)
    /\ UNCHANGED <<experiments, active, exhibits>>

RemoveExhibit(x) ==
    /\ exhibits[x] = "live"
    /\ exhibits' = [exhibits EXCEPT ![x] = "removed"]
    /\ UNCHANGED <<experiments, active, stored, counted>>

\* Removed exhibits that nothing counts are deleted for good.
FinishExperiment ==
    /\ active # NoExperiment
    /\ active' = NoExperiment
    /\ exhibits' = [x \in Exhibit |-> IF exhibits[x] = "removed" /\ x \notin counted THEN "gone"
                                      ELSE exhibits[x]]
    /\ UNCHANGED <<experiments, stored, counted>>

\* Its reports go with it (ON DELETE CASCADE), their exhibits stay counted.
RemoveExperiment(e) ==
    /\ e \in experiments /\ e # active
    /\ experiments' = experiments \ {e}
    /\ stored' = {r \in stored : ReportOf[r].experiment # e}
    /\ UNCHANGED <<active, exhibits, counted>>

DbStep ==
    /\ \/ \E r \in Report : InsertReport(r)
       \/ \E x \in Exhibit : RemoveExhibit(x)
       \/ FinishExperiment
       \/ \E e \in Experiment : RemoveExperiment(e)
    /\ UNCHANGED <<phase, asked, proc, lock, csvVars, zips, webVars, historyVars>>

-----------------------------------------------------------------------------
(* A request on the server *)

Path(q) == PathForExcelZip(asked[q])

\* Requests that are under way, for the same file.
Others(q, t) == {p \in Request \ {q} : phase[p] # "idle" /\ asked[p] = t}

\* getReport, getAllReports: the web process calls the server.
Ask(q, t) ==
    /\ phase[q] = "idle"
    /\ phase' = [phase EXCEPT ![q] = "called"]
    /\ asked' = [asked EXCEPT ![q] = t]
    /\ met' = IF Others(q, t) = {} THEN met \ {q} ELSE met \union Others(q, t) \union {q}
    /\ UNCHANGED <<dbVars, proc, lock, csvVars, zips, webVars, stops, unzipped, orphaned>>

End(q) ==
    /\ phase' = [phase EXCEPT ![q] = "idle"]
    /\ asked' = [asked EXCEPT ![q] = NoTarget]
    /\ proc' = [proc EXCEPT ![q] = NoProc]
    /\ got' = [got EXCEPT ![q] = NoFile]
    /\ gone' = gone \ {q}

\* An id that names nothing: InvalidData.
Refuse(q) ==
    /\ phase[q] = "called"
    /\ asked[q][2] \notin stored \union experiments
    /\ End(q)
    /\ UNCHANGED <<dbVars, lock, csvVars, zips, historyVars>>

\* Which reports, and of which experiment, a target stands for.
ExperimentAsked(t) == IF t[1] = "one" THEN ReportOf[t[2]].experiment ELSE t[2]
ReportsAsked(t) == IF t[1] = "one" THEN {t[2]} ELSE {r \in stored : ReportOf[r].experiment = t[2]}

AllWithDeleted == {x \in Exhibit : exhibits[x] # "gone"}

\* The one transaction of a request.
Transact(q) ==
    /\ phase[q] = "called"
    /\ asked[q][2] \in stored \union experiments
    /\ proc' = [proc EXCEPT ![q] = [experiment |-> ExperimentAsked(asked[q]),
                                    reports |-> ReportsAsked(asked[q]),
                                    exhibits |-> AllWithDeleted]]
    /\ phase' = [phase EXCEPT ![q] = "waiting"]
    /\ UNCHANGED <<dbVars, asked, lock, csvVars, zips, webVars, historyVars>>

\* Mutant of Lock: the mutex is not there.
LockNothing(q) ==
    /\ phase[q] = "waiting"
    /\ lock' = q
    /\ phase' = [phase EXCEPT ![q] = "report"]
    /\ UNCHANGED <<dbVars, asked, proc, csvVars, zips, webVars, historyVars>>

Lock(q) ==
    /\ phase[q] = "waiting" /\ lock = Nobody
    /\ lock' = q
    /\ phase' = [phase EXCEPT ![q] = "report"]
    /\ UNCHANGED <<dbVars, asked, proc, csvVars, zips, webVars, historyVars>>

\* The exhibits' names a table needs; one that is missing throws.
Named(q) == \A r \in proc[q].reports : ExhibitsOf(r) \subseteq proc[q].exhibits

SaveReport(q) ==
    /\ phase[q] = "report"
    /\ dane' = IF Named(q) THEN [experiment |-> proc[q].experiment, reports |-> proc[q].reports]
             ELSE NoFile
    /\ phase' = [phase EXCEPT ![q] = IF Named(q) THEN "legend" ELSE "throwing"]
    /\ UNCHANGED <<dbVars, asked, proc, lock, legenda, zips, webVars, historyVars>>

SaveLegend(q) ==
    /\ phase[q] = "legend"
    /\ legenda' = [experiment |-> proc[q].experiment]
    /\ phase' = [phase EXCEPT ![q] = "zip"]
    /\ UNCHANGED <<dbVars, asked, proc, lock, dane, zips, webVars, historyVars>>

\* Mutant of ZipFiles: what an older file has is kept.
ZipOnce(q) ==
    /\ phase[q] = "zip"
    /\ zips' = [zips EXCEPT ![Path(q)] = IF @ = NoFile THEN [data |-> dane, legend |-> legenda] ELSE @]
    /\ unzipped' = unzipped \ {Path(q)}
    /\ phase' = [phase EXCEPT ![q] = "check"]
    /\ UNCHANGED <<dbVars, asked, proc, lock, csvVars, webVars, stops, met, orphaned>>

\* zip takes what is there and replaces what an older file has of the same name.
ZipFiles(q) ==
    /\ phase[q] = "zip"
    /\ zips' = [zips EXCEPT ![Path(q)] = [data |-> dane, legend |-> legenda]]
    /\ unzipped' = unzipped \ {Path(q)}
    /\ phase' = [phase EXCEPT ![q] = "check"]
    /\ UNCHANGED <<dbVars, asked, proc, lock, csvVars, webVars, stops, met, orphaned>>

\* It fails, and leaves an older file alone; its exit status is not looked at.
ZipFails(q) ==
    /\ phase[q] = "zip"
    /\ unzipped' = IF zips[Path(q)] # NoFile THEN unzipped \union {Path(q)} ELSE unzipped
    /\ phase' = [phase EXCEPT ![q] = "check"]
    /\ UNCHANGED <<dbVars, asked, proc, lock, csvVars, zips, webVars, stops, met, orphaned>>

\* The handlers of the two csv files and the guard of the mutex.
CleanUp == dane' = NoFile /\ legenda' = NoFile /\ lock' = Nobody

\* Mutant of CheckZip: without a zip, zip is called once more.
CheckZipAgain(q) ==
    /\ phase[q] = "check"
    /\ IF zips[Path(q)] = NoFile
       THEN /\ phase' = [phase EXCEPT ![q] = "zip"]
            /\ UNCHANGED <<csvVars, lock>>
       ELSE /\ phase' = [phase EXCEPT ![q] = "done"]
            /\ CleanUp
    /\ UNCHANGED <<dbVars, asked, proc, zips, webVars, historyVars>>

\* is_regular_file, release.
CheckZip(q) ==
    /\ phase[q] = "check" /\ zips[Path(q)] # NoFile
    /\ phase' = [phase EXCEPT ![q] = "done"]
    /\ CleanUp
    /\ UNCHANGED <<dbVars, asked, proc, zips, webVars, historyVars>>

\* An exception: the handlers remove all three files, whoever made the zip.
Throw(q) ==
    /\ phase[q] \in {"throwing", "check"}
    /\ phase[q] = "check" => zips[Path(q)] = NoFile
    /\ zips' = [zips EXCEPT ![Path(q)] = NoFile]
    /\ CleanUp
    /\ End(q)
    /\ UNCHANGED <<dbVars, historyVars>>

-----------------------------------------------------------------------------
(* _getReportFile, on the web server *)

\* The name is there for a web process that is.
NobodyReads(q) ==
    /\ phase[q] = "done" /\ q \in gone
    /\ orphaned' = orphaned \union {Path(q)}
    /\ End(q)
    /\ UNCHANGED <<dbVars, lock, csvVars, zips, stops, met, unzipped>>

OpenFile(q) ==
    /\ phase[q] = "done" /\ q \notin gone
    /\ zips[Path(q)] # NoFile
    /\ got' = [got EXCEPT ![q] = zips[Path(q)]]
    /\ phase' = [phase EXCEPT ![q] = "read"]
    /\ UNCHANGED <<dbVars, asked, proc, lock, csvVars, zips, gone, historyVars>>

\* Mutant of RemoveFile: the file is left for the next one.
KeepFile(q) ==
    /\ phase[q] = "read" /\ zips[Path(q)] # NoFile
    /\ End(q)
    /\ UNCHANGED <<dbVars, lock, csvVars, zips, historyVars>>

\* And what was read is sent to the user.
RemoveFile(q) ==
    /\ phase[q] = "read" /\ zips[Path(q)] # NoFile
    /\ zips' = [zips EXCEPT ![Path(q)] = NoFile]
    /\ unzipped' = unzipped \ {Path(q)}
    /\ orphaned' = orphaned \ {Path(q)}
    /\ End(q)
    /\ UNCHANGED <<dbVars, lock, csvVars, stops, met>>

\* Another request for the same file was faster: error 500.
FileIsGone(q) ==
    /\ phase[q] \in {"done", "read"} /\ q \notin gone
    /\ zips[Path(q)] = NoFile
    /\ End(q)
    /\ UNCHANGED <<dbVars, lock, csvVars, zips, historyVars>>

-----------------------------------------------------------------------------
(* Processes that stop *)

OnServer == {"called", "waiting", "report", "legend", "zip", "check", "throwing"}

\* The server's threads stop where they are, and the callers get an error.
ServerStops ==
    /\ \E q \in Request : phase[q] \in OnServer
    /\ stops < MaxStops /\ stops' = stops + 1
    /\ LET cut == {q \in Request : phase[q] \in OnServer}
       IN  /\ phase' = [q \in Request |-> IF q \in cut THEN "idle" ELSE phase[q]]
           /\ asked' = [q \in Request |-> IF q \in cut THEN NoTarget ELSE asked[q]]
           /\ proc' = [q \in Request |-> IF q \in cut THEN NoProc ELSE proc[q]]
           /\ gone' = gone \ cut
           /\ orphaned' = orphaned \union {Path(q) : q \in {p \in cut : phase[p] = "check"}}
    /\ lock' = Nobody
    /\ UNCHANGED <<dbVars, csvVars, zips, got, met, unzipped>>

\* A web process stops; the server goes on with what it was asked.
WebStops(q) ==
    /\ phase[q] # "idle" /\ q \notin gone
    /\ stops < MaxStops /\ stops' = stops + 1
    /\ IF phase[q] \in OnServer \union {"done"}
       THEN gone' = gone \union {q} /\ UNCHANGED <<phase, asked, proc, got, orphaned>>
       ELSE End(q) /\ orphaned' = IF phase[q] = "read" THEN orphaned \union {Path(q)} ELSE orphaned
    /\ UNCHANGED <<dbVars, lock, csvVars, zips, met, unzipped>>

ServerStep(q) ==
    Transact(q) \/ Refuse(q) \/ SaveReport(q) \/ SaveLegend(q) \/ ZipFiles(q) \/ ZipFails(q)
      \/ CheckZip(q) \/ Throw(q)
WebStep(q) == OpenFile(q) \/ RemoveFile(q) \/ FileIsGone(q) \/ NobodyReads(q)

Next ==
    \/ DbStep
    \/ \E q \in Request :
        \/ \E t \in Wanted : Ask(q, t)
        \/ Lock(q)
        \/ ServerStep(q)
        \/ WebStep(q)
        \/ WebStops(q)
    \/ ServerStops

Spec == Init /\ [][Next]_vars

\* The server's threads run; a request under way is never owed a mutex.
FairSpec == Spec /\ \A q \in Request : WF_vars(ServerStep(q))

-----------------------------------------------------------------------------
(* Properties *)

TypeOK ==
    /\ experiments \subseteq Experiment
    /\ active \in Experiment \union {NoExperiment}
    /\ stored \subseteq Report
    /\ exhibits \in [Exhibit -> {"live", "removed", "gone"}]
    /\ counted \subseteq Exhibit
    /\ phase \in [Request -> OnServer \union {"idle", "done", "read"}]
    /\ asked \in [Request -> Target \union {NoTarget}]
    /\ proc \in [Request -> [experiment : Experiment \union {NoExperiment},
                              reports : SUBSET Report, exhibits : SUBSET Exhibit]]
    /\ lock \in Request \union {Nobody}
    /\ dane \in Dane \union {NoFile} /\ legenda \in Legenda \union {NoFile}
    /\ zips \in [Target -> ZipFile \union {NoFile}]
    /\ got \in [Request -> ZipFile \union {NoFile}]
    /\ stops \in 0 .. MaxStops
    /\ gone \subseteq Request /\ met \subseteq Request
    /\ unzipped \subseteq Target /\ orphaned \subseteq Target

\* A file whole and of what is asked for.
Right(zip, t) ==
    /\ zip.data # NoFile /\ zip.data.experiment = ExperimentAsked(t)
    /\ zip.legend = [experiment |-> ExperimentAsked(t)]
    /\ \A r \in zip.data.reports :
        IF t[1] = "one" THEN r = t[2] ELSE ReportOf[r].experiment = t[2]

\* Nobody is given another report, another experiment's, or a torn file,
\* although the csv files have the same names for all requests.
DownloadIsWhatWasAsked == \A q \in Request : got[q] # NoFile => Right(got[q], asked[q])

\* What a heading promises of a row: the report's answer to that question in
\* that survey, that event's exhibit, or whether that action was done there.  A
\* survey may ask a question twice.  The server takes an answer or an event
\* that names something twice, of which nothing is promised.
AsksAt(s, kind, id) == {n \in DOMAIN s.questions[kind] : s.questions[kind][n].id = id}

Twice(list, x) == \E i, j \in DOMAIN list : i # j /\ list[i] = x /\ list[j] = x
Marks(cell, list, x) == cell = Mark(x \in Cells(list)) \/ Twice(list, x)

\* A cell of an answer to question q, about its n-th option if it has any.
Answers(cell, kind, q, n, ans) ==
    CASE kind = "simple" -> cell = <<"text", ans>>
      [] kind = "multi" -> Marks(cell, ans, q.options[n])
      [] kind = "sort" -> cell = <<"place", Place(ans, q.options[n])>>

Keeps(cell, col, r, event) ==
    CASE col[1] = "experiment" -> cell = <<"experiment", ReportOf[r].experiment>>
      [] col[1] = "report" -> cell = <<"report", r>>
      [] col[1] = "exhibit" -> cell = ExhibitName(event.exhibit)
      [] col[1] = "is break" -> cell = <<"is break", event.exhibit = NoExhibit>>
      [] col[1] = "action" ->
            IF event.exhibit = NoExhibit THEN cell = Empty ELSE Marks(cell, event.actions, col[2])
      [] col[1] = "break action" ->
            IF event.exhibit = NoExhibit THEN Marks(cell, event.actions, col[2]) ELSE cell = Empty
      [] col[1] \in When ->
            LET s == ExperimentOf[ReportOf[r].experiment].survey[col[1]]
            IN  \E n \in AsksAt(s, col[2], col[3]) :
                    Answers(cell, col[2], s.questions[col[2]][n],
                            IF col[2] = "simple" THEN 0 ELSE col[4],
                            ReportOf[r].survey[col[1]][col[2]][n])

RowAligned(row, header, r, event) ==
    /\ Len(row) = Len(header)
    /\ \A c \in DOMAIN header :
        IF header[c] = Empty THEN row[c] = Empty ELSE Keeps(row[c], header[c], r, event)

Aligned == [r \in Report |->
    \A i \in DOMAIN ReportOf[r].history :
        RowAligned(ReportRows[r][i], Header[ReportOf[r].experiment], r, ReportOf[r].history[i])]

\* A question the survey before a visit asks twice is explained twice.
AskedTwice(e, kind, id) ==
    \E i, j \in AsksAt(ExperimentOf[e].survey["before"], kind, id) : i # j

Explained == [e \in Experiment |->
    LET columns == {c \in Cells(Header[e]) : c # Empty /\ c[1] \in When}
    IN  /\ \A c \in columns : Count(Legend[e], Tail(c)) = 1 \/ AskedTwice(e, c[2], c[3])
        /\ {<<l[1], l[2]>> : l \in Cells(Legend[e])} = {<<c[2], c[3]>> : c \in columns}]

\* In every table a request writes, each row has a cell under each heading, and
\* it is the one the heading promises, whichever surveys and lists are empty.
\* The legend explains each question and option of the headings once, also
\* when it was asked before and after the visit, and no other question.
TablesRight ==
    /\ dane # NoFile => \A r \in dane.reports : Aligned[r]
    /\ legenda # NoFile => Explained[legenda.experiment]

\* A download is as its own transaction saw the reports, unless another request
\* for the same file was under way at the same time, or zip failed over a file
\* that was never fetched.
FreshUnlessShared ==
    \A q \in Request : got[q] # NoFile =>
        \/ got[q].data.reports = proc[q].reports
        \/ q \in met \/ asked[q] \in unzipped

\* No file stays behind unless somebody stopped before removing it.
NoLeftovers ==
    \A p \in Target : zips[p] # NoFile =>
        p \in orphaned \/ \E q \in Request : phase[q] \in {"check", "done", "read"} /\ Path(q) = p

\* Whoever holds the mutex lets it go: one request cannot keep the others, and
\* with them the server's workers, waiting.
LockReleased == \A q \in Request : lock = q ~> lock # q
=============================================================================
