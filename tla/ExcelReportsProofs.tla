------------------------- MODULE ExcelReportsProofs -------------------------
(***************************************************************************)
(* Spreadsheets: that a download is whole, of what was asked for, fresh    *)
(* unless it is shared, and removed, for any number of requests and for    *)
(* any experiments and reports; and that the tables in it have each answer *)
(* under its question, whatever is asked and however often.                *)
(***************************************************************************)
EXTENDS ExcelReports, FiniteSetTheorems, SequenceTheorems, WellFoundedInduction, TLAPS

\* What is asked for is an experiment's and a set of reports.
LEMMA FilesTyped ==
    ASSUME NEW t \in Target
    PROVE  ExperimentAsked(t) \in Experiment
BY ExcelAssumption DEF Target, ExperimentAsked

-----------------------------------------------------------------------------
(* The invariant *)

InMutex == {"report", "legend", "zip", "check", "throwing"}
WithFile == {"check", "done", "read"}
Asked == {"called", "waiting", "done", "read"} \union InMutex

\* The mutex is held just from Lock to the release or the exception.
LockHeld == \A q \in Request : phase[q] \in InMutex <=> lock = q

\* A request under way has its target; once it has read the tables, it has what
\* that stands for.
ProcRight ==
    \A q \in Request :
        /\ phase[q] \in Asked => asked[q] \in Target
        /\ phase[q] \in Asked \ {"called"} =>
            /\ proc[q].experiment = ExperimentAsked(asked[q])
            /\ \A r \in proc[q].reports :
                IF asked[q][1] = "one" THEN r = asked[q][2] ELSE ReportOf[r].experiment = asked[q][2]

\* The csv files are those of the request that has the mutex.
CsvOwned ==
    \A q \in Request :
        /\ phase[q] \in {"legend", "zip"} =>
            dane = [experiment |-> proc[q].experiment, reports |-> proc[q].reports]
        /\ phase[q] = "zip" => legenda = [experiment |-> proc[q].experiment]

\* So every zip is of what its name says, and a web process reads such a one.
ZipsRight ==
    /\ \A p \in Target : zips[p] # NoFile => Right(zips[p], p)
    /\ \A q \in Request : got[q] # NoFile => phase[q] = "read" /\ Right(got[q], asked[q])

\* Two requests under way for one file know of each other.
Met ==
    \A q, p \in Request :
        q # p /\ phase[q] \in Asked /\ phase[p] \in Asked /\ asked[q] = asked[p] => q \in met

\* A request that met no other finds and reads its own zip.
Fresh ==
    \A q \in Request :
        phase[q] \in WithFile /\ q \notin met /\ asked[q] \notin unzipped =>
            /\ zips[asked[q]] # NoFile => zips[asked[q]].data.reports = proc[q].reports
            /\ got[q] # NoFile => got[q].data.reports = proc[q].reports

ExcelInv ==
    TypeOK /\ LockHeld /\ ProcRight /\ CsvOwned /\ ZipsRight /\ Met /\ Fresh /\ NoLeftovers

-----------------------------------------------------------------------------
(* Every step keeps its parts *)

\* The types.
LEMMA TypePreserved ==
    ASSUME TypeOK, ProcRight, Next
    PROVE  TypeOK'
<1>1. CASE DbStep
  <2>1. experiments' \subseteq Experiment /\ active' \in Experiment \union {NoExperiment}
    BY <1>1 DEF DbStep, InsertReport, RemoveExhibit, FinishExperiment, RemoveExperiment, TypeOK
  <2>2. stored' \subseteq Report /\ exhibits' \in [Exhibit -> {"live", "removed", "gone"}]
    BY <1>1 DEF DbStep, InsertReport, RemoveExhibit, FinishExperiment, RemoveExperiment, TypeOK
  <2>3. counted' \subseteq Exhibit
    <3>1. \A r \in Report : InsertReport(r) => ExhibitsOf(r) \subseteq Exhibit
      BY ExcelAssumption DEF ExhibitsOf
    <3>2. QED
      BY <1>1, <3>1 DEF DbStep, InsertReport, RemoveExhibit, FinishExperiment, RemoveExperiment, TypeOK
  <2>4. QED
    BY <1>1, <2>1, <2>2, <2>3 DEF DbStep, TypeOK, csvVars, webVars, historyVars
<1>2. ASSUME NEW q \in Request, NEW t \in Wanted, Ask(q, t) PROVE TypeOK'
  BY <1>2, ExcelAssumption DEF Ask, Others, dbVars, csvVars, webVars, TypeOK,
     OnServer, ProcRight, Asked, InMutex
<1>3. ASSUME NEW q \in Request, Refuse(q) PROVE TypeOK'
  BY <1>3, ExcelAssumption DEF Refuse, End, NoProc, dbVars, csvVars,
     historyVars, TypeOK, OnServer, ProcRight, Asked, InMutex
<1>4. ASSUME NEW q \in Request, Transact(q) PROVE TypeOK'
  <2>1. asked[q] \in Target /\ proc'[q].experiment \in Experiment
    BY <1>4, FilesTyped DEF Transact, TypeOK, ProcRight, Asked
  <2>2. proc' \in [Request -> [experiment : Experiment \union {NoExperiment},
                               reports : SUBSET Report, exhibits : SUBSET Exhibit]]
    <3>1. ReportsAsked(asked[q]) \subseteq Report /\ AllWithDeleted \subseteq Exhibit
      BY <1>4, <2>1, ExcelAssumption DEF ReportsAsked, AllWithDeleted, Target, TypeOK
    <3>2. ExperimentAsked(asked[q]) \in Experiment
      BY <2>1, FilesTyped
    <3>3. QED
      BY <1>4, <3>1, <3>2 DEF Transact, TypeOK
  <2>3. QED
    BY <1>4, <2>2 DEF Transact, TypeOK, OnServer, dbVars, csvVars, webVars, historyVars
<1>5. ASSUME NEW q \in Request, Lock(q) PROVE TypeOK'
  BY <1>5, ExcelAssumption DEF Lock, dbVars, csvVars, webVars, historyVars,
     TypeOK, OnServer, ProcRight, Asked, InMutex
<1>6. ASSUME NEW q \in Request, SaveReport(q) PROVE TypeOK'
  <2>1. proc[q].experiment \in Experiment /\ proc[q].reports \in SUBSET Report
    BY <1>6, FilesTyped DEF SaveReport, TypeOK, ProcRight, Asked, InMutex
  <2>2. dane' \in Dane \union {NoFile}
    BY <1>6, <2>1 DEF SaveReport, Dane
  <2>3. QED
    BY <1>6, <2>2 DEF SaveReport, TypeOK, OnServer, dbVars, webVars, historyVars
<1>7. ASSUME NEW q \in Request, SaveLegend(q) PROVE TypeOK'
  <2>1. proc[q].experiment \in Experiment
    BY <1>7, FilesTyped DEF SaveLegend, TypeOK, ProcRight, Asked, InMutex
  <2>2. legenda' \in Legenda
    BY <1>7, <2>1 DEF SaveLegend, Legenda
  <2>3. QED
    BY <1>7, <2>2 DEF SaveLegend, TypeOK, OnServer, dbVars, webVars, historyVars
<1>8. ASSUME NEW q \in Request, ZipFiles(q) PROVE TypeOK'
  <2>1. [data |-> dane, legend |-> legenda] \in ZipFile
    BY DEF TypeOK, ZipFile
  <2>2. QED
    BY <1>8, <2>1 DEF ZipFiles, TypeOK, OnServer, dbVars, csvVars, webVars
<1>9. ASSUME NEW q \in Request, ZipFails(q) PROVE TypeOK'
  BY <1>9, ExcelAssumption DEF ZipFails, Path, PathForExcelZip, dbVars,
     csvVars, webVars, TypeOK, OnServer, ProcRight, Asked, InMutex
<1>10. ASSUME NEW q \in Request, CheckZip(q) PROVE TypeOK'
  BY <1>10, ExcelAssumption DEF CheckZip, CleanUp, Path, PathForExcelZip,
     dbVars, webVars, historyVars, TypeOK, OnServer, ProcRight, Asked, InMutex
<1>11. ASSUME NEW q \in Request, Throw(q) PROVE TypeOK'
  BY <1>11, ExcelAssumption DEF Throw, CleanUp, Path, PathForExcelZip, End,
     NoProc, dbVars, historyVars, TypeOK, OnServer, ProcRight, Asked, InMutex
<1>12. ASSUME NEW q \in Request, OpenFile(q) PROVE TypeOK'
  BY <1>12, ExcelAssumption DEF OpenFile, Path, PathForExcelZip, dbVars,
     csvVars, historyVars, TypeOK, OnServer, ProcRight, Asked, InMutex
<1>13. ASSUME NEW q \in Request, RemoveFile(q) PROVE TypeOK'
  BY <1>13, ExcelAssumption DEF RemoveFile, Path, PathForExcelZip, End, NoProc,
     dbVars, csvVars, TypeOK, OnServer, ProcRight, Asked, InMutex
<1>14. ASSUME NEW q \in Request, FileIsGone(q) PROVE TypeOK'
  BY <1>14, ExcelAssumption DEF FileIsGone, Path, PathForExcelZip, End, NoProc,
     dbVars, csvVars, historyVars, TypeOK, OnServer, ProcRight, Asked, InMutex
<1>15. ASSUME NEW q \in Request, NobodyReads(q) PROVE TypeOK'
  BY <1>15, ExcelAssumption DEF NobodyReads, Path, PathForExcelZip, End,
     NoProc, dbVars, csvVars, TypeOK, OnServer, ProcRight, Asked, InMutex
<1>16. ASSUME NEW q \in Request, WebStops(q) PROVE TypeOK'
  <2>1. phase[q] \in Asked => Path(q) \in Target
    BY DEF ProcRight, Path, PathForExcelZip
  <2>2. NoProc \in [experiment : Experiment \union {NoExperiment},
                    reports : SUBSET Report, exhibits : SUBSET Exhibit]
    BY DEF NoProc
  <2>3. stops' \in 0 .. MaxStops /\ met' = met /\ unzipped' = unzipped
    BY <1>16, ExcelAssumption DEF WebStops, TypeOK
  <2>4. CASE phase[q] \in OnServer \union {"done"}
    BY <1>16, <2>3, <2>4 DEF WebStops, TypeOK, dbVars, csvVars
  <2>5. CASE phase[q] \notin OnServer \union {"done"}
    <3>1. phase[q] = "read" /\ Path(q) \in Target
      BY <1>16, <2>1, <2>5 DEF WebStops, TypeOK, Asked
    <3>2. End(q) /\ orphaned' = orphaned \union {Path(q)}
      BY <1>16, <2>5, <3>1 DEF WebStops
    <3>3. /\ phase' \in [Request -> OnServer \union {"idle", "done", "read"}]
          /\ asked' \in [Request -> Target \union {NoTarget}]
          /\ got' \in [Request -> ZipFile \union {NoFile}]
          /\ proc' \in [Request -> [experiment : Experiment \union {NoExperiment},
                                    reports : SUBSET Report, exhibits : SUBSET Exhibit]]
          /\ gone' \subseteq Request /\ orphaned' \subseteq Target
      BY <2>2, <3>1, <3>2 DEF End, TypeOK
    <3>4. QED
      BY <1>16, <2>3, <3>3 DEF WebStops, TypeOK, dbVars, csvVars
  <2>6. QED
    BY <2>4, <2>5
<1>17. CASE ServerStops
  BY <1>17, ExcelAssumption DEF ServerStops, OnServer, Path, PathForExcelZip,
     NoProc, dbVars, csvVars, TypeOK, ProcRight, Asked, InMutex
<1>18. QED
  BY <1>1, <1>2, <1>3, <1>4, <1>5, <1>6, <1>7, <1>8, <1>9, <1>10, <1>11, <1>12,
     <1>13, <1>14, <1>15, <1>16, <1>17 DEF Next, ServerStep, WebStep

\* The mutex.
LEMMA LockPreserved ==
    ASSUME TypeOK, LockHeld, Next
    PROVE  LockHeld'
<1>1. CASE DbStep
  BY <1>1, ExcelAssumption DEF DbStep, InsertReport, RemoveExhibit,
     FinishExperiment, RemoveExperiment, csvVars, webVars, historyVars, TypeOK,
     LockHeld, InMutex
<1>2. ASSUME NEW q \in Request, NEW t \in Wanted, Ask(q, t) PROVE LockHeld'
  BY <1>2, ExcelAssumption DEF Ask, Others, dbVars, csvVars, webVars, TypeOK,
     LockHeld, InMutex
<1>3. ASSUME NEW q \in Request, Refuse(q) PROVE LockHeld'
  BY <1>3, ExcelAssumption DEF Refuse, End, NoProc, dbVars, csvVars,
     historyVars, TypeOK, LockHeld, InMutex
<1>4. ASSUME NEW q \in Request, Transact(q) PROVE LockHeld'
  BY <1>4, ExcelAssumption DEF Transact, ReportsAsked, AllWithDeleted, dbVars,
     csvVars, webVars, historyVars, TypeOK, LockHeld, InMutex
<1>5. ASSUME NEW q \in Request, Lock(q) PROVE LockHeld'
  BY <1>5, ExcelAssumption DEF Lock, dbVars, csvVars, webVars, historyVars,
     TypeOK, LockHeld, InMutex
<1>6. ASSUME NEW q \in Request, SaveReport(q) PROVE LockHeld'
  BY <1>6, ExcelAssumption DEF SaveReport, dbVars, webVars, historyVars,
     TypeOK, LockHeld, InMutex
<1>7. ASSUME NEW q \in Request, SaveLegend(q) PROVE LockHeld'
  BY <1>7, ExcelAssumption DEF SaveLegend, dbVars, webVars, historyVars,
     TypeOK, LockHeld, InMutex
<1>8. ASSUME NEW q \in Request, ZipFiles(q) PROVE LockHeld'
  BY <1>8, ExcelAssumption DEF ZipFiles, Path, PathForExcelZip, dbVars,
     csvVars, webVars, TypeOK, LockHeld, InMutex
<1>9. ASSUME NEW q \in Request, ZipFails(q) PROVE LockHeld'
  BY <1>9, ExcelAssumption DEF ZipFails, Path, PathForExcelZip, dbVars,
     csvVars, webVars, TypeOK, LockHeld, InMutex
<1>10. ASSUME NEW q \in Request, CheckZip(q) PROVE LockHeld'
  BY <1>10, ExcelAssumption DEF CheckZip, CleanUp, Path, PathForExcelZip,
     dbVars, webVars, historyVars, TypeOK, LockHeld, InMutex
<1>11. ASSUME NEW q \in Request, Throw(q) PROVE LockHeld'
  BY <1>11, ExcelAssumption DEF Throw, CleanUp, Path, PathForExcelZip, End,
     NoProc, dbVars, historyVars, TypeOK, LockHeld, InMutex
<1>12. ASSUME NEW q \in Request, OpenFile(q) PROVE LockHeld'
  BY <1>12, ExcelAssumption DEF OpenFile, Path, PathForExcelZip, dbVars,
     csvVars, historyVars, TypeOK, LockHeld, InMutex
<1>13. ASSUME NEW q \in Request, RemoveFile(q) PROVE LockHeld'
  BY <1>13, ExcelAssumption DEF RemoveFile, Path, PathForExcelZip, End, NoProc,
     dbVars, csvVars, TypeOK, LockHeld, InMutex
<1>14. ASSUME NEW q \in Request, FileIsGone(q) PROVE LockHeld'
  BY <1>14, ExcelAssumption DEF FileIsGone, Path, PathForExcelZip, End, NoProc,
     dbVars, csvVars, historyVars, TypeOK, LockHeld, InMutex
<1>15. ASSUME NEW q \in Request, NobodyReads(q) PROVE LockHeld'
  BY <1>15, ExcelAssumption DEF NobodyReads, Path, PathForExcelZip, End,
     NoProc, dbVars, csvVars, TypeOK, LockHeld, InMutex
<1>16. ASSUME NEW q \in Request, WebStops(q) PROVE LockHeld'
  BY <1>16, ExcelAssumption DEF WebStops, OnServer, Path, PathForExcelZip, End,
     NoProc, dbVars, csvVars, TypeOK, LockHeld, InMutex
<1>17. CASE ServerStops
  BY <1>17, ExcelAssumption DEF ServerStops, OnServer, Path, PathForExcelZip,
     NoProc, dbVars, csvVars, TypeOK, LockHeld, InMutex
<1>18. QED
  BY <1>1, <1>2, <1>3, <1>4, <1>5, <1>6, <1>7, <1>8, <1>9, <1>10, <1>11, <1>12,
     <1>13, <1>14, <1>15, <1>16, <1>17 DEF Next, ServerStep, WebStep

\* What a request has read.
LEMMA ProcPreserved ==
    ASSUME TypeOK, ProcRight, Next
    PROVE  ProcRight'
<1>1. CASE DbStep
  BY <1>1, ExcelAssumption DEF DbStep, InsertReport, RemoveExhibit,
     FinishExperiment, RemoveExperiment, csvVars, webVars, historyVars, TypeOK,
     ProcRight, Target, Asked, InMutex
<1>2. ASSUME NEW q \in Request, NEW t \in Wanted, Ask(q, t) PROVE ProcRight'
  BY <1>2, ExcelAssumption DEF Ask, Others, dbVars, csvVars, webVars, TypeOK,
     ProcRight, Target, Asked, InMutex
<1>3. ASSUME NEW q \in Request, Refuse(q) PROVE ProcRight'
  BY <1>3, ExcelAssumption DEF Refuse, End, NoProc, dbVars, csvVars,
     historyVars, TypeOK, ProcRight, Target, Asked, InMutex
<1>4. ASSUME NEW q \in Request, Transact(q) PROVE ProcRight'
  BY <1>4, ExcelAssumption DEF Transact, ReportsAsked, AllWithDeleted, dbVars,
     csvVars, webVars, historyVars, TypeOK, ProcRight, Target, Asked, InMutex
<1>5. ASSUME NEW q \in Request, Lock(q) PROVE ProcRight'
  BY <1>5, ExcelAssumption DEF Lock, dbVars, csvVars, webVars, historyVars,
     TypeOK, ProcRight, Target, Asked, InMutex
<1>6. ASSUME NEW q \in Request, SaveReport(q) PROVE ProcRight'
  BY <1>6, ExcelAssumption DEF SaveReport, dbVars, webVars, historyVars,
     TypeOK, ProcRight, Target, Asked, InMutex
<1>7. ASSUME NEW q \in Request, SaveLegend(q) PROVE ProcRight'
  BY <1>7, ExcelAssumption DEF SaveLegend, dbVars, webVars, historyVars,
     TypeOK, ProcRight, Target, Asked, InMutex
<1>8. ASSUME NEW q \in Request, ZipFiles(q) PROVE ProcRight'
  BY <1>8, ExcelAssumption DEF ZipFiles, Path, PathForExcelZip, dbVars,
     csvVars, webVars, TypeOK, ProcRight, Target, Asked, InMutex
<1>9. ASSUME NEW q \in Request, ZipFails(q) PROVE ProcRight'
  BY <1>9, ExcelAssumption DEF ZipFails, Path, PathForExcelZip, dbVars,
     csvVars, webVars, TypeOK, ProcRight, Target, Asked, InMutex
<1>10. ASSUME NEW q \in Request, CheckZip(q) PROVE ProcRight'
  BY <1>10, ExcelAssumption DEF CheckZip, CleanUp, Path, PathForExcelZip,
     dbVars, webVars, historyVars, TypeOK, ProcRight, Target, Asked, InMutex
<1>11. ASSUME NEW q \in Request, Throw(q) PROVE ProcRight'
  BY <1>11, ExcelAssumption DEF Throw, CleanUp, Path, PathForExcelZip, End,
     NoProc, dbVars, historyVars, TypeOK, ProcRight, Target, Asked, InMutex
<1>12. ASSUME NEW q \in Request, OpenFile(q) PROVE ProcRight'
  BY <1>12, ExcelAssumption DEF OpenFile, Path, PathForExcelZip, dbVars,
     csvVars, historyVars, TypeOK, ProcRight, Target, Asked, InMutex
<1>13. ASSUME NEW q \in Request, RemoveFile(q) PROVE ProcRight'
  BY <1>13, ExcelAssumption DEF RemoveFile, Path, PathForExcelZip, End, NoProc,
     dbVars, csvVars, TypeOK, ProcRight, Target, Asked, InMutex
<1>14. ASSUME NEW q \in Request, FileIsGone(q) PROVE ProcRight'
  BY <1>14, ExcelAssumption DEF FileIsGone, Path, PathForExcelZip, End, NoProc,
     dbVars, csvVars, historyVars, TypeOK, ProcRight, Target, Asked, InMutex
<1>15. ASSUME NEW q \in Request, NobodyReads(q) PROVE ProcRight'
  BY <1>15, ExcelAssumption DEF NobodyReads, Path, PathForExcelZip, End,
     NoProc, dbVars, csvVars, TypeOK, ProcRight, Target, Asked, InMutex
<1>16. ASSUME NEW q \in Request, WebStops(q) PROVE ProcRight'
  BY <1>16, ExcelAssumption DEF WebStops, OnServer, Path, PathForExcelZip, End,
     NoProc, dbVars, csvVars, TypeOK, ProcRight, Target, Asked, InMutex
<1>17. CASE ServerStops
  BY <1>17, ExcelAssumption DEF ServerStops, OnServer, Path, PathForExcelZip,
     NoProc, dbVars, csvVars, TypeOK, ProcRight, Target, Asked, InMutex
<1>18. QED
  BY <1>1, <1>2, <1>3, <1>4, <1>5, <1>6, <1>7, <1>8, <1>9, <1>10, <1>11, <1>12,
     <1>13, <1>14, <1>15, <1>16, <1>17 DEF Next, ServerStep, WebStep

\* The csv files, which no request without the mutex touches.
LEMMA CsvPreserved ==
    ASSUME TypeOK, LockHeld, CsvOwned, Next
    PROVE  CsvOwned'
<1>1. CASE DbStep
  BY <1>1, ExcelAssumption DEF DbStep, InsertReport, RemoveExhibit,
     FinishExperiment, RemoveExperiment, csvVars, webVars, historyVars, TypeOK,
     LockHeld, CsvOwned, InMutex
<1>2. ASSUME NEW q \in Request, NEW t \in Wanted, Ask(q, t) PROVE CsvOwned'
  BY <1>2, ExcelAssumption DEF Ask, Others, dbVars, csvVars, webVars, TypeOK,
     LockHeld, CsvOwned, InMutex
<1>3. ASSUME NEW q \in Request, Refuse(q) PROVE CsvOwned'
  BY <1>3, ExcelAssumption DEF Refuse, End, NoProc, dbVars, csvVars,
     historyVars, TypeOK, LockHeld, CsvOwned, InMutex
<1>4. ASSUME NEW q \in Request, Transact(q) PROVE CsvOwned'
  BY <1>4, ExcelAssumption DEF Transact, ReportsAsked, AllWithDeleted, dbVars,
     csvVars, webVars, historyVars, TypeOK, LockHeld, CsvOwned, InMutex
<1>5. ASSUME NEW q \in Request, Lock(q) PROVE CsvOwned'
  BY <1>5, ExcelAssumption DEF Lock, dbVars, csvVars, webVars, historyVars,
     TypeOK, LockHeld, CsvOwned, InMutex
<1>6. ASSUME NEW q \in Request, SaveReport(q) PROVE CsvOwned'
  BY <1>6, ExcelAssumption DEF SaveReport, dbVars, webVars, historyVars,
     TypeOK, LockHeld, CsvOwned, InMutex
<1>7. ASSUME NEW q \in Request, SaveLegend(q) PROVE CsvOwned'
  BY <1>7, ExcelAssumption DEF SaveLegend, dbVars, webVars, historyVars,
     TypeOK, LockHeld, CsvOwned, InMutex
<1>8. ASSUME NEW q \in Request, ZipFiles(q) PROVE CsvOwned'
  BY <1>8, ExcelAssumption DEF ZipFiles, Path, PathForExcelZip, dbVars,
     csvVars, webVars, TypeOK, LockHeld, CsvOwned, InMutex
<1>9. ASSUME NEW q \in Request, ZipFails(q) PROVE CsvOwned'
  BY <1>9, ExcelAssumption DEF ZipFails, Path, PathForExcelZip, dbVars,
     csvVars, webVars, TypeOK, LockHeld, CsvOwned, InMutex
<1>10. ASSUME NEW q \in Request, CheckZip(q) PROVE CsvOwned'
  BY <1>10, ExcelAssumption DEF CheckZip, CleanUp, Path, PathForExcelZip,
     dbVars, webVars, historyVars, TypeOK, LockHeld, CsvOwned, InMutex
<1>11. ASSUME NEW q \in Request, Throw(q) PROVE CsvOwned'
  BY <1>11, ExcelAssumption DEF Throw, CleanUp, Path, PathForExcelZip, End,
     NoProc, dbVars, historyVars, TypeOK, LockHeld, CsvOwned, InMutex
<1>12. ASSUME NEW q \in Request, OpenFile(q) PROVE CsvOwned'
  BY <1>12, ExcelAssumption DEF OpenFile, Path, PathForExcelZip, dbVars,
     csvVars, historyVars, TypeOK, LockHeld, CsvOwned, InMutex
<1>13. ASSUME NEW q \in Request, RemoveFile(q) PROVE CsvOwned'
  BY <1>13, ExcelAssumption DEF RemoveFile, Path, PathForExcelZip, End, NoProc,
     dbVars, csvVars, TypeOK, LockHeld, CsvOwned, InMutex
<1>14. ASSUME NEW q \in Request, FileIsGone(q) PROVE CsvOwned'
  BY <1>14, ExcelAssumption DEF FileIsGone, Path, PathForExcelZip, End, NoProc,
     dbVars, csvVars, historyVars, TypeOK, LockHeld, CsvOwned, InMutex
<1>15. ASSUME NEW q \in Request, NobodyReads(q) PROVE CsvOwned'
  BY <1>15, ExcelAssumption DEF NobodyReads, Path, PathForExcelZip, End,
     NoProc, dbVars, csvVars, TypeOK, LockHeld, CsvOwned, InMutex
<1>16. ASSUME NEW q \in Request, WebStops(q) PROVE CsvOwned'
  BY <1>16, ExcelAssumption DEF WebStops, OnServer, Path, PathForExcelZip, End,
     NoProc, dbVars, csvVars, TypeOK, LockHeld, CsvOwned, InMutex
<1>17. CASE ServerStops
  BY <1>17, ExcelAssumption DEF ServerStops, OnServer, Path, PathForExcelZip,
     NoProc, dbVars, csvVars, TypeOK, LockHeld, CsvOwned, InMutex
<1>18. QED
  BY <1>1, <1>2, <1>3, <1>4, <1>5, <1>6, <1>7, <1>8, <1>9, <1>10, <1>11, <1>12,
     <1>13, <1>14, <1>15, <1>16, <1>17 DEF Next, ServerStep, WebStep

\* The zips and what is read of them.
LEMMA ZipsPreserved ==
    ASSUME TypeOK, ProcRight, CsvOwned, ZipsRight, Next
    PROVE  ZipsRight'
<1>1. CASE DbStep
  BY <1>1, ExcelAssumption DEF DbStep, InsertReport, RemoveExhibit,
     FinishExperiment, RemoveExperiment, csvVars, webVars, historyVars, TypeOK,
     ProcRight, CsvOwned, ZipsRight, Asked, InMutex
<1>2. ASSUME NEW q \in Request, NEW t \in Wanted, Ask(q, t) PROVE ZipsRight'
  BY <1>2, ExcelAssumption DEF Ask, Others, dbVars, csvVars, webVars, TypeOK,
     ProcRight, CsvOwned, ZipsRight, Asked, InMutex
<1>3. ASSUME NEW q \in Request, Refuse(q) PROVE ZipsRight'
  BY <1>3, ExcelAssumption DEF Refuse, End, NoProc, dbVars, csvVars,
     historyVars, TypeOK, ProcRight, CsvOwned, ZipsRight, Asked, InMutex
<1>4. ASSUME NEW q \in Request, Transact(q) PROVE ZipsRight'
  BY <1>4, ExcelAssumption DEF Transact, ReportsAsked, AllWithDeleted, dbVars,
     csvVars, webVars, historyVars, TypeOK, ProcRight, CsvOwned, ZipsRight,
     Asked, InMutex
<1>5. ASSUME NEW q \in Request, Lock(q) PROVE ZipsRight'
  BY <1>5, ExcelAssumption DEF Lock, dbVars, csvVars, webVars, historyVars,
     TypeOK, ProcRight, CsvOwned, ZipsRight, Asked, InMutex
<1>6. ASSUME NEW q \in Request, SaveReport(q) PROVE ZipsRight'
  BY <1>6, ExcelAssumption DEF SaveReport, dbVars, webVars, historyVars,
     TypeOK, ProcRight, CsvOwned, ZipsRight, Asked, InMutex
<1>7. ASSUME NEW q \in Request, SaveLegend(q) PROVE ZipsRight'
  BY <1>7, ExcelAssumption DEF SaveLegend, dbVars, webVars, historyVars,
     TypeOK, ProcRight, CsvOwned, ZipsRight, Asked, InMutex
<1>8. ASSUME NEW q \in Request, ZipFiles(q) PROVE ZipsRight'
  <2>1. proc[q].experiment \in Experiment /\ proc[q].reports \subseteq Report /\ asked[q] \in Target
    BY <1>8, FilesTyped DEF ZipFiles, TypeOK, ProcRight, Asked, InMutex
  <2>2. /\ dane = [experiment |-> proc[q].experiment, reports |-> proc[q].reports]
        /\ legenda = [experiment |-> proc[q].experiment]
    BY <1>8 DEF ZipFiles, CsvOwned
  <2>3. dane \in Dane /\ dane # NoFile
    BY <2>1, <2>2, ExcelAssumption DEF Dane
  <2>4. Right([data |-> dane, legend |-> legenda], asked[q])
    BY <1>8, <2>2, <2>3 DEF ZipFiles, ProcRight, Asked, InMutex, Right
  <2>5. zips' = [zips EXCEPT ![asked[q]] = [data |-> dane, legend |-> legenda]]
    BY <1>8 DEF ZipFiles, Path, PathForExcelZip
  <2>6. \A p \in Target : zips'[p] # NoFile => Right(zips'[p], p)
    BY <2>1, <2>4, <2>5 DEF ZipsRight, TypeOK
  <2>7. QED
    BY <1>8, <2>6 DEF ZipFiles, ZipsRight, TypeOK, webVars
<1>9. ASSUME NEW q \in Request, ZipFails(q) PROVE ZipsRight'
  BY <1>9, ExcelAssumption DEF ZipFails, Path, PathForExcelZip, dbVars,
     csvVars, webVars, TypeOK, ProcRight, CsvOwned, ZipsRight, Asked, InMutex
<1>10. ASSUME NEW q \in Request, CheckZip(q) PROVE ZipsRight'
  BY <1>10, ExcelAssumption DEF CheckZip, CleanUp, Path, PathForExcelZip,
     dbVars, webVars, historyVars, TypeOK, ProcRight, CsvOwned, ZipsRight,
     Asked, InMutex
<1>11. ASSUME NEW q \in Request, Throw(q) PROVE ZipsRight'
  BY <1>11, ExcelAssumption DEF Throw, CleanUp, Path, PathForExcelZip, End,
     NoProc, dbVars, historyVars, TypeOK, ProcRight, CsvOwned, ZipsRight,
     Asked, InMutex
<1>12. ASSUME NEW q \in Request, OpenFile(q) PROVE ZipsRight'
  BY <1>12, ExcelAssumption DEF OpenFile, Path, PathForExcelZip, dbVars,
     csvVars, historyVars, TypeOK, ProcRight, CsvOwned, ZipsRight, Asked,
     InMutex
<1>13. ASSUME NEW q \in Request, RemoveFile(q) PROVE ZipsRight'
  BY <1>13, ExcelAssumption DEF RemoveFile, Path, PathForExcelZip, End, NoProc,
     dbVars, csvVars, TypeOK, ProcRight, CsvOwned, ZipsRight, Asked, InMutex
<1>14. ASSUME NEW q \in Request, FileIsGone(q) PROVE ZipsRight'
  BY <1>14, ExcelAssumption DEF FileIsGone, Path, PathForExcelZip, End, NoProc,
     dbVars, csvVars, historyVars, TypeOK, ProcRight, CsvOwned, ZipsRight,
     Asked, InMutex
<1>15. ASSUME NEW q \in Request, NobodyReads(q) PROVE ZipsRight'
  BY <1>15, ExcelAssumption DEF NobodyReads, Path, PathForExcelZip, End,
     NoProc, dbVars, csvVars, TypeOK, ProcRight, CsvOwned, ZipsRight, Asked,
     InMutex
<1>16. ASSUME NEW q \in Request, WebStops(q) PROVE ZipsRight'
  BY <1>16, ExcelAssumption DEF WebStops, OnServer, Path, PathForExcelZip, End,
     NoProc, dbVars, csvVars, TypeOK, ProcRight, CsvOwned, ZipsRight, Asked,
     InMutex
<1>17. CASE ServerStops
  BY <1>17, ExcelAssumption DEF ServerStops, OnServer, Path, PathForExcelZip,
     NoProc, dbVars, csvVars, TypeOK, ProcRight, CsvOwned, ZipsRight, Asked,
     InMutex
<1>18. QED
  BY <1>1, <1>2, <1>3, <1>4, <1>5, <1>6, <1>7, <1>8, <1>9, <1>10, <1>11, <1>12,
     <1>13, <1>14, <1>15, <1>16, <1>17 DEF Next, ServerStep, WebStep

\* Requests for one file.
LEMMA MetPreserved ==
    ASSUME TypeOK, Met, Next
    PROVE  Met'
<1>1. CASE DbStep
  BY <1>1, ExcelAssumption DEF DbStep, InsertReport, RemoveExhibit,
     FinishExperiment, RemoveExperiment, csvVars, webVars, historyVars, TypeOK,
     Met, Asked, InMutex
<1>2. ASSUME NEW q \in Request, NEW t \in Wanted, Ask(q, t) PROVE Met'
  BY <1>2, ExcelAssumption DEF Ask, Others, dbVars, csvVars, webVars, TypeOK,
     Met, Asked, InMutex
<1>3. ASSUME NEW q \in Request, Refuse(q) PROVE Met'
  BY <1>3, ExcelAssumption DEF Refuse, End, NoProc, dbVars, csvVars,
     historyVars, TypeOK, Met, Asked, InMutex
<1>4. ASSUME NEW q \in Request, Transact(q) PROVE Met'
  BY <1>4, ExcelAssumption DEF Transact, ReportsAsked, AllWithDeleted, dbVars,
     csvVars, webVars, historyVars, TypeOK, Met, Asked, InMutex
<1>5. ASSUME NEW q \in Request, Lock(q) PROVE Met'
  BY <1>5, ExcelAssumption DEF Lock, dbVars, csvVars, webVars, historyVars,
     TypeOK, Met, Asked, InMutex
<1>6. ASSUME NEW q \in Request, SaveReport(q) PROVE Met'
  BY <1>6, ExcelAssumption DEF SaveReport, dbVars, webVars, historyVars,
     TypeOK, Met, Asked, InMutex
<1>7. ASSUME NEW q \in Request, SaveLegend(q) PROVE Met'
  BY <1>7, ExcelAssumption DEF SaveLegend, dbVars, webVars, historyVars,
     TypeOK, Met, Asked, InMutex
<1>8. ASSUME NEW q \in Request, ZipFiles(q) PROVE Met'
  BY <1>8, ExcelAssumption DEF ZipFiles, Path, PathForExcelZip, dbVars,
     csvVars, webVars, TypeOK, Met, Asked, InMutex
<1>9. ASSUME NEW q \in Request, ZipFails(q) PROVE Met'
  BY <1>9, ExcelAssumption DEF ZipFails, Path, PathForExcelZip, dbVars,
     csvVars, webVars, TypeOK, Met, Asked, InMutex
<1>10. ASSUME NEW q \in Request, CheckZip(q) PROVE Met'
  BY <1>10, ExcelAssumption DEF CheckZip, CleanUp, Path, PathForExcelZip,
     dbVars, webVars, historyVars, TypeOK, Met, Asked, InMutex
<1>11. ASSUME NEW q \in Request, Throw(q) PROVE Met'
  BY <1>11, ExcelAssumption DEF Throw, CleanUp, Path, PathForExcelZip, End,
     NoProc, dbVars, historyVars, TypeOK, Met, Asked, InMutex
<1>12. ASSUME NEW q \in Request, OpenFile(q) PROVE Met'
  BY <1>12, ExcelAssumption DEF OpenFile, Path, PathForExcelZip, dbVars,
     csvVars, historyVars, TypeOK, Met, Asked, InMutex
<1>13. ASSUME NEW q \in Request, RemoveFile(q) PROVE Met'
  BY <1>13, ExcelAssumption DEF RemoveFile, Path, PathForExcelZip, End, NoProc,
     dbVars, csvVars, TypeOK, Met, Asked, InMutex
<1>14. ASSUME NEW q \in Request, FileIsGone(q) PROVE Met'
  BY <1>14, ExcelAssumption DEF FileIsGone, Path, PathForExcelZip, End, NoProc,
     dbVars, csvVars, historyVars, TypeOK, Met, Asked, InMutex
<1>15. ASSUME NEW q \in Request, NobodyReads(q) PROVE Met'
  BY <1>15, ExcelAssumption DEF NobodyReads, Path, PathForExcelZip, End,
     NoProc, dbVars, csvVars, TypeOK, Met, Asked, InMutex
<1>16. ASSUME NEW q \in Request, WebStops(q) PROVE Met'
  BY <1>16, ExcelAssumption DEF WebStops, OnServer, Path, PathForExcelZip, End,
     NoProc, dbVars, csvVars, TypeOK, Met, Asked, InMutex
<1>17. CASE ServerStops
  BY <1>17, ExcelAssumption DEF ServerStops, OnServer, Path, PathForExcelZip,
     NoProc, dbVars, csvVars, TypeOK, Met, Asked, InMutex
<1>18. QED
  BY <1>1, <1>2, <1>3, <1>4, <1>5, <1>6, <1>7, <1>8, <1>9, <1>10, <1>11, <1>12,
     <1>13, <1>14, <1>15, <1>16, <1>17 DEF Next, ServerStep, WebStep

\* Nobody replaces the zip of a request that met no other.
LEMMA FreshPreserved ==
    ASSUME TypeOK, ProcRight, CsvOwned, ZipsRight, Met, Fresh, Next
    PROVE  Fresh'
<1>1. CASE DbStep
  BY <1>1, ExcelAssumption DEF DbStep, InsertReport, RemoveExhibit,
     FinishExperiment, RemoveExperiment, csvVars, webVars, historyVars, TypeOK,
     ProcRight, CsvOwned, ZipsRight, Met, Fresh, WithFile, Asked, InMutex
<1>2. ASSUME NEW q \in Request, NEW t \in Wanted, Ask(q, t) PROVE Fresh'
  BY <1>2, ExcelAssumption DEF Ask, Others, dbVars, csvVars, webVars, TypeOK,
     ProcRight, CsvOwned, ZipsRight, Met, Fresh, WithFile, Asked, InMutex
<1>3. ASSUME NEW q \in Request, Refuse(q) PROVE Fresh'
  BY <1>3, ExcelAssumption DEF Refuse, End, NoProc, dbVars, csvVars,
     historyVars, TypeOK, ProcRight, CsvOwned, ZipsRight, Met, Fresh, WithFile,
     Asked, InMutex
<1>4. ASSUME NEW q \in Request, Transact(q) PROVE Fresh'
  BY <1>4, ExcelAssumption DEF Transact, ReportsAsked, AllWithDeleted, dbVars,
     csvVars, webVars, historyVars, TypeOK, ProcRight, CsvOwned, ZipsRight,
     Met, Fresh, WithFile, Asked, InMutex
<1>5. ASSUME NEW q \in Request, Lock(q) PROVE Fresh'
  BY <1>5, ExcelAssumption DEF Lock, dbVars, csvVars, webVars, historyVars,
     TypeOK, ProcRight, CsvOwned, ZipsRight, Met, Fresh, WithFile, Asked,
     InMutex
<1>6. ASSUME NEW q \in Request, SaveReport(q) PROVE Fresh'
  BY <1>6, ExcelAssumption DEF SaveReport, dbVars, webVars, historyVars,
     TypeOK, ProcRight, CsvOwned, ZipsRight, Met, Fresh, WithFile, Asked,
     InMutex
<1>7. ASSUME NEW q \in Request, SaveLegend(q) PROVE Fresh'
  BY <1>7, ExcelAssumption DEF SaveLegend, dbVars, webVars, historyVars,
     TypeOK, ProcRight, CsvOwned, ZipsRight, Met, Fresh, WithFile, Asked,
     InMutex
<1>8. ASSUME NEW q \in Request, ZipFiles(q) PROVE Fresh'
  BY <1>8, ExcelAssumption DEF ZipFiles, Path, PathForExcelZip, dbVars,
     csvVars, webVars, TypeOK, ProcRight, CsvOwned, ZipsRight, Met, Fresh,
     WithFile, Asked, InMutex
<1>9. ASSUME NEW q \in Request, ZipFails(q) PROVE Fresh'
  BY <1>9, ExcelAssumption DEF ZipFails, Path, PathForExcelZip, dbVars,
     csvVars, webVars, TypeOK, ProcRight, CsvOwned, ZipsRight, Met, Fresh,
     WithFile, Asked, InMutex
<1>10. ASSUME NEW q \in Request, CheckZip(q) PROVE Fresh'
  BY <1>10, ExcelAssumption DEF CheckZip, CleanUp, Path, PathForExcelZip,
     dbVars, webVars, historyVars, TypeOK, ProcRight, CsvOwned, ZipsRight, Met,
     Fresh, WithFile, Asked, InMutex
<1>11. ASSUME NEW q \in Request, Throw(q) PROVE Fresh'
  BY <1>11, ExcelAssumption DEF Throw, CleanUp, Path, PathForExcelZip, End,
     NoProc, dbVars, historyVars, TypeOK, ProcRight, CsvOwned, ZipsRight, Met,
     Fresh, WithFile, Asked, InMutex
<1>12. ASSUME NEW q \in Request, OpenFile(q) PROVE Fresh'
  BY <1>12, ExcelAssumption DEF OpenFile, Path, PathForExcelZip, dbVars,
     csvVars, historyVars, TypeOK, ProcRight, CsvOwned, ZipsRight, Met, Fresh,
     WithFile, Asked, InMutex
<1>13. ASSUME NEW q \in Request, RemoveFile(q) PROVE Fresh'
  BY <1>13, ExcelAssumption DEF RemoveFile, Path, PathForExcelZip, End, NoProc,
     dbVars, csvVars, TypeOK, ProcRight, CsvOwned, ZipsRight, Met, Fresh,
     WithFile, Asked, InMutex
<1>14. ASSUME NEW q \in Request, FileIsGone(q) PROVE Fresh'
  BY <1>14, ExcelAssumption DEF FileIsGone, Path, PathForExcelZip, End, NoProc,
     dbVars, csvVars, historyVars, TypeOK, ProcRight, CsvOwned, ZipsRight, Met,
     Fresh, WithFile, Asked, InMutex
<1>15. ASSUME NEW q \in Request, NobodyReads(q) PROVE Fresh'
  BY <1>15, ExcelAssumption DEF NobodyReads, Path, PathForExcelZip, End,
     NoProc, dbVars, csvVars, TypeOK, ProcRight, CsvOwned, ZipsRight, Met,
     Fresh, WithFile, Asked, InMutex
<1>16. ASSUME NEW q \in Request, WebStops(q) PROVE Fresh'
  BY <1>16, ExcelAssumption DEF WebStops, OnServer, Path, PathForExcelZip, End,
     NoProc, dbVars, csvVars, TypeOK, ProcRight, CsvOwned, ZipsRight, Met,
     Fresh, WithFile, Asked, InMutex
<1>17. CASE ServerStops
  BY <1>17, ExcelAssumption DEF ServerStops, OnServer, Path, PathForExcelZip,
     NoProc, dbVars, csvVars, TypeOK, ProcRight, CsvOwned, ZipsRight, Met,
     Fresh, WithFile, Asked, InMutex
<1>18. QED
  BY <1>1, <1>2, <1>3, <1>4, <1>5, <1>6, <1>7, <1>8, <1>9, <1>10, <1>11, <1>12,
     <1>13, <1>14, <1>15, <1>16, <1>17 DEF Next, ServerStep, WebStep

\* A zip is removed, or somebody stopped.
LEMMA NoLeftoversPreserved ==
    ASSUME TypeOK, ProcRight, NoLeftovers, Next
    PROVE  NoLeftovers'
<1>1. CASE DbStep
  BY <1>1, ExcelAssumption DEF DbStep, InsertReport, RemoveExhibit,
     FinishExperiment, RemoveExperiment, csvVars, webVars, historyVars, TypeOK,
     ProcRight, NoLeftovers, Path, PathForExcelZip, Asked, InMutex
<1>2. ASSUME NEW q \in Request, NEW t \in Wanted, Ask(q, t) PROVE NoLeftovers'
  BY <1>2, ExcelAssumption DEF Ask, Others, dbVars, csvVars, webVars, TypeOK,
     ProcRight, NoLeftovers, Path, PathForExcelZip, Asked, InMutex
<1>3. ASSUME NEW q \in Request, Refuse(q) PROVE NoLeftovers'
  BY <1>3, ExcelAssumption DEF Refuse, End, NoProc, dbVars, csvVars,
     historyVars, TypeOK, ProcRight, NoLeftovers, Path, PathForExcelZip, Asked,
     InMutex
<1>4. ASSUME NEW q \in Request, Transact(q) PROVE NoLeftovers'
  BY <1>4, ExcelAssumption DEF Transact, ReportsAsked, AllWithDeleted, dbVars,
     csvVars, webVars, historyVars, TypeOK, ProcRight, NoLeftovers, Path,
     PathForExcelZip, Asked, InMutex
<1>5. ASSUME NEW q \in Request, Lock(q) PROVE NoLeftovers'
  BY <1>5, ExcelAssumption DEF Lock, dbVars, csvVars, webVars, historyVars,
     TypeOK, ProcRight, NoLeftovers, Path, PathForExcelZip, Asked, InMutex
<1>6. ASSUME NEW q \in Request, SaveReport(q) PROVE NoLeftovers'
  BY <1>6, ExcelAssumption DEF SaveReport, dbVars, webVars, historyVars,
     TypeOK, ProcRight, NoLeftovers, Path, PathForExcelZip, Asked, InMutex
<1>7. ASSUME NEW q \in Request, SaveLegend(q) PROVE NoLeftovers'
  BY <1>7, ExcelAssumption DEF SaveLegend, dbVars, webVars, historyVars,
     TypeOK, ProcRight, NoLeftovers, Path, PathForExcelZip, Asked, InMutex
<1>8. ASSUME NEW q \in Request, ZipFiles(q) PROVE NoLeftovers'
  BY <1>8, ExcelAssumption DEF ZipFiles, Path, PathForExcelZip, dbVars,
     csvVars, webVars, TypeOK, ProcRight, NoLeftovers, Asked, InMutex
<1>9. ASSUME NEW q \in Request, ZipFails(q) PROVE NoLeftovers'
  BY <1>9, ExcelAssumption DEF ZipFails, Path, PathForExcelZip, dbVars,
     csvVars, webVars, TypeOK, ProcRight, NoLeftovers, Asked, InMutex
<1>10. ASSUME NEW q \in Request, CheckZip(q) PROVE NoLeftovers'
  BY <1>10, ExcelAssumption DEF CheckZip, CleanUp, Path, PathForExcelZip,
     dbVars, webVars, historyVars, TypeOK, ProcRight, NoLeftovers, Asked,
     InMutex
<1>11. ASSUME NEW q \in Request, Throw(q) PROVE NoLeftovers'
  BY <1>11, ExcelAssumption DEF Throw, CleanUp, Path, PathForExcelZip, End,
     NoProc, dbVars, historyVars, TypeOK, ProcRight, NoLeftovers, Asked,
     InMutex
<1>12. ASSUME NEW q \in Request, OpenFile(q) PROVE NoLeftovers'
  BY <1>12, ExcelAssumption DEF OpenFile, Path, PathForExcelZip, dbVars,
     csvVars, historyVars, TypeOK, ProcRight, NoLeftovers, Asked, InMutex
<1>13. ASSUME NEW q \in Request, RemoveFile(q) PROVE NoLeftovers'
  BY <1>13, ExcelAssumption DEF RemoveFile, Path, PathForExcelZip, End, NoProc,
     dbVars, csvVars, TypeOK, ProcRight, NoLeftovers, Asked, InMutex
<1>14. ASSUME NEW q \in Request, FileIsGone(q) PROVE NoLeftovers'
  BY <1>14, ExcelAssumption DEF FileIsGone, Path, PathForExcelZip, End, NoProc,
     dbVars, csvVars, historyVars, TypeOK, ProcRight, NoLeftovers, Asked,
     InMutex
<1>15. ASSUME NEW q \in Request, NobodyReads(q) PROVE NoLeftovers'
  BY <1>15, ExcelAssumption DEF NobodyReads, Path, PathForExcelZip, End,
     NoProc, dbVars, csvVars, TypeOK, ProcRight, NoLeftovers, Asked, InMutex
<1>16. ASSUME NEW q \in Request, WebStops(q) PROVE NoLeftovers'
  BY <1>16, ExcelAssumption DEF WebStops, OnServer, Path, PathForExcelZip, End,
     NoProc, dbVars, csvVars, TypeOK, ProcRight, NoLeftovers, Asked, InMutex
<1>17. CASE ServerStops
  <2> SUFFICES ASSUME NEW p \in Target, zips[p] # NoFile
               PROVE  \/ p \in orphaned'
                      \/ \E q \in Request : phase'[q] \in {"check", "done", "read"} /\ asked'[q] = p
    BY <1>17 DEF ServerStops, NoLeftovers, Path, PathForExcelZip
  <2>1. CASE p \in orphaned
    BY <1>17, <2>1 DEF ServerStops
  <2>2. ASSUME NEW q \in Request, phase[q] = "check", asked[q] = p PROVE p \in orphaned'
    BY <1>17, <2>2 DEF ServerStops, OnServer, Path, PathForExcelZip
  <2>3. ASSUME NEW q \in Request, phase[q] \in {"done", "read"}, asked[q] = p
        PROVE  phase'[q] \in {"done", "read"} /\ asked'[q] = p
    BY <1>17, <2>3 DEF ServerStops, OnServer
  <2>4. QED
    BY <2>1, <2>2, <2>3 DEF NoLeftovers, Path, PathForExcelZip
<1>18. QED
  BY <1>1, <1>2, <1>3, <1>4, <1>5, <1>6, <1>7, <1>8, <1>9, <1>10, <1>11, <1>12,
     <1>13, <1>14, <1>15, <1>16, <1>17 DEF Next, ServerStep, WebStep

-----------------------------------------------------------------------------
(* Loops *)

\* What holds of 0, and of i whenever of i - 1, holds up to n.  Sets stand for
\* what holds: the library has this for operators only.
LEMMA UpTo ==
    ASSUME NEW n \in Nat, NEW G, 0 \in G, \A i \in 1 .. n : i - 1 \in G => i \in G
    PROVE  \A i \in 0 .. n : i \in G
<1>. DEFINE Bad == (0 .. n) \ G
<1>. SUFFICES ASSUME Bad # {} PROVE FALSE
  OBVIOUS
<1>1. \E x \in Bad : \A y \in Bad : ~ (<<y, x>> \in OpToRel(<, Nat))
  <2>1. Bad \subseteq Nat
    OBVIOUS
  <2>. HIDE DEF Bad
  <2>. QED  BY <2>1, WFMin, NatLessThanWellFounded
<1>2. PICK x \in Bad : \A y \in Bad : ~ (<<y, x>> \in OpToRel(<, Nat))
  BY <1>1
<1>3. x \in 1 .. n /\ x - 1 \in 0 .. n /\ x - 1 < x
  OBVIOUS
<1>4. <<x - 1, x>> \in OpToRel(<, Nat)
  <2>1. x - 1 \in Nat /\ x \in Nat
    BY <1>3
  <2>. QED  BY <2>1, <1>3 DEF OpToRel
<1>5. x - 1 \in G
  BY <1>2, <1>3, <1>4
<1>. QED  BY <1>2, <1>3, <1>5

\* One function for each step of a loop, and a run of the loop.
Steps(n, X) == [1 .. n -> [X -> X]]
Follows(f, n, base, step) == f[0] = base /\ \A i \in 1 .. n : f[i] = step[i][f[i - 1]]

\* Every loop of n steps has a run: the recursive definitions below denote what
\* their equations say.
LEMMA Recursion ==
    ASSUME NEW n \in Nat, NEW X, NEW base \in X, NEW step \in Steps(n, X)
    PROVE  \E f \in [0 .. n -> X] : Follows(f, n, base, step)
<1>. USE DEF Steps, Follows
<1>. DEFINE Good(m, f) == f \in [0 .. m -> X] /\ f[0] = base
                            /\ \A i \in 1 .. m : f[i] = step[i][f[i - 1]]
            G == {m \in 0 .. n : \E f \in [0 .. m -> X] : Good(m, f)}
<1>1. 0 \in G
  <2>. DEFINE f == [i \in 0 .. 0 |-> base]
  <2>1. f \in [0 .. 0 -> X] /\ Good(0, f) /\ 0 \in 0 .. n
    OBVIOUS
  <2>. HIDE DEF f, Good
  <2>. QED  BY <2>1
<1>2. ASSUME NEW m \in 1 .. n, m - 1 \in G PROVE m \in G
  <2>1. PICK f \in [0 .. m - 1 -> X] : Good(m - 1, f)
    BY <1>2
  <2>. DEFINE g == [i \in 0 .. m |-> IF i = m THEN step[m][f[m - 1]] ELSE f[i]]
  <2>2. f[m - 1] \in X /\ step[m] \in [X -> X]
    OBVIOUS
  <2>3. step[m][f[m - 1]] \in X
    BY <2>2
  <2>4. \A i \in 0 .. m : i # m => i \in 0 .. m - 1
    OBVIOUS
  <2>5. g \in [0 .. m -> X]
    BY <2>3, <2>4
  <2>6. \A i \in 0 .. m - 1 : g[i] = f[i]
    OBVIOUS
  <2>7. g[0] = base
    BY <2>1, <2>6
  <2>8. ASSUME NEW i \in 1 .. m PROVE g[i] = step[i][g[i - 1]]
    <3>1. g[i - 1] = f[i - 1]
      BY <2>6
    <3>2. CASE i = m
      BY <3>1, <3>2
    <3>3. CASE i # m
      <4>1. i \in 1 .. m - 1
        BY <3>3
      <4>. QED  BY <3>1, <2>1, <2>6, <4>1
    <3>. QED  BY <3>2, <3>3
  <2>9. Good(m, g)
    BY <2>5, <2>7, <2>8
  <2>. HIDE DEF g, Good
  <2>. QED  BY <2>5, <2>9
<1>3. n \in G
  <2>. HIDE DEF G
  <2>1. \A m \in 1 .. n : m - 1 \in G => m \in G
    BY <1>2
  <2>2. \A m \in 0 .. n : m \in G
    BY <1>1, <2>1, UpTo
  <2>. QED  BY <2>2
<1>. QED  BY <1>3

\* FlattenSeq joins its lists from the left, the way a container prints its
\* columns one after the other.
LEMMA Flattening ==
    ASSUME NEW S, NEW seqs \in Seq(Seq(S))
    PROVE  \E f \in [0 .. Len(seqs) -> Seq(S)] :
              /\ f[0] = <<>> /\ FlattenSeq(seqs) = f[Len(seqs)]
              /\ \A i \in 1 .. Len(seqs) : f[i] = f[i - 1] \o seqs[i]
<1>. DEFINE n == Len(seqs)
            X == Seq(S)
            step == [i \in 1 .. n |-> [x \in X |-> x \o seqs[i]]]
<1>1. n \in Nat /\ <<>> \in X /\ \A i \in 1 .. n : seqs[i] \in X
  OBVIOUS
<1>2. step \in [1 .. n -> [X -> X]]
  <2>1. \A i \in 1 .. n, x \in X : x \o seqs[i] \in X
    BY <1>1
  <2>. HIDE DEF X, n
  <2>. QED  BY <2>1
<1>3. PICK f \in [0 .. n -> X] : f[0] = <<>> /\ \A i \in 1 .. n : f[i] = step[i][f[i - 1]]
  <2>. HIDE DEF X, n, step
  <2>1. <<>> \in X /\ n \in Nat
    BY <1>1
  <2>2. step \in Steps(n, X)
    BY <1>2 DEF Steps
  <2>3. \E h \in [0 .. n -> X] : Follows(h, n, <<>>, step)
    BY <2>1, <2>2, Recursion
  <2>. QED  BY <2>3 DEF Follows
<1>4. \A i \in 1 .. n : f[i - 1] \in X /\ f[i] = f[i - 1] \o seqs[i]
  <2>1. \A i \in 1 .. n : i - 1 \in 0 .. n
    BY <1>1
  <2>2. \A i \in 1 .. n : f[i - 1] \in X
    BY <2>1
  <2>. HIDE DEF X, n
  <2>. QED  BY <1>3, <2>2
<1>5. FlattenSeq(seqs) = f[n]
  <2>1. CASE n = 0
    BY <2>1, <1>3 DEF FlattenSeq
  <2>2. CASE n # 0
    <3>. DEFINE D == 1 .. n
                Flat(h) == h = [i \in D |-> IF i = 1 THEN seqs[i] ELSE h[i - 1] \o seqs[i]]
    <3>1. FlattenSeq(seqs) = (CHOOSE h : Flat(h))[n]
      BY <2>2 DEF FlattenSeq
    <3>. DEFINE g == [i \in D |-> f[i]]
    <3>2. Flat(g)
      <4>1. \A i \in D : f[i] = IF i = 1 THEN seqs[i] ELSE g[i - 1] \o seqs[i]
        <5>1. \A i \in D : i # 1 => i - 1 \in D /\ g[i - 1] = f[i - 1]
          BY <1>1
        <5>2. f[1] = seqs[1]
          <6>1. 1 \in D
            BY <1>1, <2>2
          <6>2. f[1] = f[1 - 1] \o seqs[1] /\ seqs[1] \in Seq(S) /\ f[0] = <<>>
            BY <6>1, <1>4, <1>3, <1>1
          <6>3. 1 - 1 = 0
            OBVIOUS
          <6>4. f[1] = <<>> \o seqs[1]
            BY <6>2, <6>3
          <6>5. \A x \in Seq(S) : <<>> \o x = x
            OBVIOUS
          <6>. QED  BY <6>2, <6>4, <6>5
        <5>. QED  BY <5>1, <5>2, <1>4
      <4>. QED  BY <4>1
    <3>3. PICK h : h = (CHOOSE k : Flat(k)) /\ Flat(h)
      <4>. HIDE DEF Flat, g
      <4>. QED  BY <3>2
    <3>. DEFINE G == {i \in 0 .. n : i # 0 => h[i] = f[i]}
    <3>4. 0 \in G
      BY <1>1
    <3>5. ASSUME NEW i \in 1 .. n, i - 1 \in G PROVE i \in G
      <4>1. h[i] = IF i = 1 THEN seqs[i] ELSE h[i - 1] \o seqs[i]
        BY <3>3
      <4>2. f[i] = IF i = 1 THEN seqs[i] ELSE g[i - 1] \o seqs[i]
        BY <3>2
      <4>3. i # 1 => h[i - 1] = g[i - 1]
        BY <3>5, <1>1
      <4>. QED  BY <4>1, <4>2, <4>3
    <3>6. n \in G
      <4>. HIDE DEF G, n
      <4>1. \A i \in 1 .. n : i - 1 \in G => i \in G
        BY <3>5
      <4>2. \A i \in 0 .. n : i \in G
        BY <3>4, <4>1, UpTo, <1>1
      <4>. QED  BY <4>2, <1>1
    <3>. QED  BY <3>6, <3>1, <3>3, <2>2
  <2>. QED  BY <2>1, <2>2
<1>. QED  BY <1>3, <1>4, <1>5

\* What mergeQuestions has after i questions of the second list.
Merges(f, q1, q2) ==
    /\ f[0] = q1
    /\ \A i \in 1 .. Len(q2) :
        f[i] = IF \E j \in DOMAIN f[i - 1] : f[i - 1][j].id = q2[i].id THEN f[i - 1]
               ELSE Append(f[i - 1], q2[i])

\* MergeQuestions is the last state of that loop.
LEMMA Merging ==
    ASSUME NEW Q, NEW q1 \in Seq(Q), NEW q2 \in Seq(Q)
    PROVE  \E f \in [0 .. Len(q2) -> Seq(Q)] :
              Merges(f, q1, q2) /\ MergeQuestions(q1, q2) = f[Len(q2)]
<1>. DEFINE n == Len(q2)
            X == Seq(Q)
            Extended(x, i) == IF \E j \in DOMAIN x : x[j].id = q2[i].id THEN x ELSE Append(x, q2[i])
            step == [i \in 1 .. n |-> [x \in X |-> Extended(x, i)]]
<1>1. n \in Nat /\ q1 \in X /\ \A i \in 1 .. n : q2[i] \in Q
  OBVIOUS
<1>2. \A i \in 1 .. n, x \in X : Extended(x, i) \in X
  BY <1>1
<1>3. step \in Steps(n, X)
  <2>. HIDE DEF X, n, Extended
  <2>. QED  BY <1>2 DEF Steps
<1>4. PICK f \in [0 .. n -> X] : Follows(f, n, q1, step)
  <2>. HIDE DEF X, n, step
  <2>. QED  BY <1>1, <1>3, Recursion
<1>5. \A i \in 1 .. n : f[i - 1] \in X /\ f[i] = Extended(f[i - 1], i)
  <2>1. \A i \in 1 .. n : i - 1 \in 0 .. n
    BY <1>1
  <2>2. \A i \in 1 .. n : f[i - 1] \in X
    BY <2>1
  <2>3. \A i \in 1 .. n : f[i] = step[i][f[i - 1]]
    BY <1>4 DEF Follows
  <2>. HIDE DEF X, n, Extended
  <2>. QED  BY <2>2, <2>3
<1>6. f[0] = q1
  BY <1>4 DEF Follows
<1>. DEFINE Merged(h) == h = [i \in 0 .. n |-> IF i = 0 THEN q1 ELSE Extended(h[i - 1], i)]
<1>7. MergeQuestions(q1, q2) = (CHOOSE h : Merged(h))[n]
  BY DEF MergeQuestions
<1>8. Merged(f)
  <2>. HIDE DEF X, n, Extended
  <2>1. \A i \in 0 .. n : f[i] = IF i = 0 THEN q1 ELSE Extended(f[i - 1], i)
    BY <1>5, <1>6, <1>1
  <2>. QED  BY <2>1
<1>9. PICK h : h = (CHOOSE k : Merged(k)) /\ Merged(h)
  <2>. HIDE DEF Merged
  <2>. QED  BY <1>8
<1>. DEFINE G == {i \in 0 .. n : h[i] = f[i]}
<1>10. n \in G
  <2>. HIDE DEF Extended, n
  <2>0. \A i \in 0 .. n : h[i] = IF i = 0 THEN q1 ELSE Extended(h[i - 1], i)
    BY <1>9
  <2>1. 0 \in G
    BY <2>0, <1>6, <1>1
  <2>2. ASSUME NEW i \in 1 .. n, i - 1 \in G PROVE i \in G
    <3>1. h[i] = Extended(h[i - 1], i) /\ h[i - 1] = f[i - 1] /\ i \in 0 .. n
      BY <2>0, <2>2, <1>1
    <3>. QED  BY <3>1, <1>5
  <2>. HIDE DEF G
  <2>3. \A i \in 1 .. n : i - 1 \in G => i \in G
    BY <2>2
  <2>4. \A i \in 0 .. n : i \in G
    BY <2>1, <2>3, UpTo, <1>1
  <2>. QED  BY <2>4, <1>1
<1>11. Merges(f, q1, q2)
  BY <1>5, <1>6 DEF Merges
<1>. QED  BY <1>7, <1>9, <1>10, <1>11

\* What a merged list has: the first list as it was, and of the second list's
\* questions those that are new, each once.
IsMerged(m, q1, q2, n) ==
    /\ Len(q1) =< Len(m) /\ \A a \in DOMAIN q1 : m[a] = q1[a]
    /\ \A a \in DOMAIN m : a \in DOMAIN q1 \/ \E i \in 1 .. n : m[a] = q2[i]
    /\ \A i \in 1 .. n : \E a \in DOMAIN m : m[a].id = q2[i].id
    /\ \A a, b \in DOMAIN m : m[a].id = m[b].id => a = b \/ (a \in DOMAIN q1 /\ b \in DOMAIN q1)

\* So it is for any two lists of questions.
LEMMA MergedIs ==
    ASSUME NEW Q, NEW q1 \in Seq(Q), NEW q2 \in Seq(Q)
    PROVE  /\ MergeQuestions(q1, q2) \in Seq(Q)
           /\ IsMerged(MergeQuestions(q1, q2), q1, q2, Len(q2))
<1>. DEFINE n == Len(q2)
<1>1. PICK f \in [0 .. n -> Seq(Q)] : Merges(f, q1, q2) /\ MergeQuestions(q1, q2) = f[n]
  BY Merging
<1>2. n \in Nat
  OBVIOUS
<1>. DEFINE G == {i \in 0 .. n : IsMerged(f[i], q1, q2, i)}
<1>3. 0 \in G
  BY <1>1, <1>2 DEF Merges, IsMerged
<1>4. ASSUME NEW i \in 1 .. n, i - 1 \in G PROVE i \in G
  <2>. DEFINE m == f[i - 1]
  <2>1. i - 1 \in 0 .. n /\ i \in 0 .. n /\ i \in Nat /\ 1 .. i = (1 .. i - 1) \union {i}
    OBVIOUS
  <2>2. m \in Seq(Q) /\ f[i] \in Seq(Q) /\ q2[i] \in Q
    BY <2>1
  <2>3. IsMerged(m, q1, q2, i - 1)
    BY <1>4
  <2>4. f[i] = IF \E j \in DOMAIN m : m[j].id = q2[i].id THEN m ELSE Append(m, q2[i])
    BY <1>1 DEF Merges
  <2>5. CASE \E j \in DOMAIN m : m[j].id = q2[i].id
    <3>. HIDE DEF m
    <3>1. f[i] = m
      BY <2>4, <2>5
    <3>2. IsMerged(m, q1, q2, i)
      BY <2>1, <2>3, <2>5 DEF IsMerged
    <3>. QED  BY <3>1, <3>2, <2>1
  <2>6. CASE ~ \E j \in DOMAIN m : m[j].id = q2[i].id
    <3>. HIDE DEF m
    <3>. DEFINE M == Append(m, q2[i])
    <3>1. f[i] = M /\ Len(M) = Len(m) + 1 /\ M[Len(m) + 1] = q2[i]
          /\ \A a \in DOMAIN m : M[a] = m[a]
      BY <2>2, <2>4, <2>6
    <3>2. /\ DOMAIN M = DOMAIN m \union {Len(m) + 1} /\ Len(m) + 1 \notin DOMAIN m
          /\ Len(m) \in Nat /\ Len(q1) \in Nat /\ DOMAIN m = 1 .. Len(m)
          /\ DOMAIN q1 = 1 .. Len(q1)
      BY <2>2
    <3>. HIDE DEF M
    <3>3. Len(q1) =< Len(M) /\ \A a \in DOMAIN q1 : M[a] = q1[a]
      BY <3>1, <3>2, <2>3 DEF IsMerged
    <3>4. ASSUME NEW a \in DOMAIN M PROVE a \in DOMAIN q1 \/ \E j \in 1 .. i : M[a] = q2[j]
      <4>1. CASE a \in DOMAIN m
        <5>1. M[a] = m[a] /\ (a \in DOMAIN q1 \/ \E j \in 1 .. i - 1 : m[a] = q2[j])
          BY <4>1, <3>1, <2>3 DEF IsMerged
        <5>. QED  BY <5>1, <2>1
      <4>2. CASE a = Len(m) + 1
        BY <4>2, <3>1, <2>1
      <4>. QED  BY <4>1, <4>2, <3>2
    <3>5. ASSUME NEW j \in 1 .. i PROVE \E a \in DOMAIN M : M[a].id = q2[j].id
      <4>1. CASE j \in 1 .. i - 1
        <5>1. PICK a \in DOMAIN m : m[a].id = q2[j].id
          BY <4>1, <2>3 DEF IsMerged
        <5>. QED  BY <5>1, <3>1, <3>2
      <4>2. CASE j = i
        BY <4>2, <3>1, <3>2
      <4>. QED  BY <4>1, <4>2, <2>1
    <3>6. \A a, b \in DOMAIN M :
             M[a].id = M[b].id => a = b \/ (a \in DOMAIN q1 /\ b \in DOMAIN q1)
      BY <3>1, <3>2, <2>3, <2>6 DEF IsMerged
    <3>. QED  BY <3>1, <3>3, <3>4, <3>5, <3>6, <2>1 DEF IsMerged
  <2>. QED  BY <2>5, <2>6
<1>5. n \in G
  <2>. HIDE DEF G, n
  <2>1. \A i \in 1 .. n : i - 1 \in G => i \in G
    BY <1>4
  <2>2. \A i \in 0 .. n : i \in G
    BY <1>2, <1>3, <2>1, UpTo
  <2>. QED  BY <1>2, <2>2
<1>. QED  BY <1>1, <1>2, <1>5

-----------------------------------------------------------------------------
(* Lists *)

\* Whatever is indexed from 1 to n is a list.
LEMMA ListIs ==
    ASSUME NEW f, NEW n \in Nat, f = [i \in 1 .. n |-> f[i]]
    PROVE  List(f) /\ Len(f) = n
<1>1. DOMAIN f = 1 .. n
  OBVIOUS
<1>. DEFINE C == Cells(f)
<1>2. \A i \in 1 .. n : f[i] \in C
  BY <1>1 DEF Cells
<1>3. f \in [1 .. n -> C]
  <2>. HIDE DEF C
  <2>. QED  BY <1>2
<1>4. f \in Seq(C)
  <2>. HIDE DEF C
  <2>. QED  BY <1>3, SeqDef
<1>5. Len(f) = n
  <2>. HIDE DEF C
  <2>. QED  BY <1>1, <1>4
<1>. QED  BY <1>4, <1>5 DEF List

\* And a list is indexed that way.
LEMMA ListHas ==
    ASSUME NEW f, List(f)
    PROVE  Len(f) \in Nat /\ DOMAIN f = 1 .. Len(f) /\ f = [i \in 1 .. Len(f) |-> f[i]]
BY DEF List

\* A list of lists, and all that is in them.
Lists(seqs) == List(seqs) /\ \A i \in DOMAIN seqs : List(seqs[i])
AllCells(seqs) == UNION {Cells(seqs[i]) : i \in DOMAIN seqs}

\* Lists of lists in terms of the library's sequences.
LEMMA ListsAre ==
    ASSUME NEW seqs, Lists(seqs)
    PROVE  seqs \in Seq(Seq(AllCells(seqs)))
<1>. DEFINE S == AllCells(seqs)
            X == Seq(S)
<1>1. Len(seqs) \in Nat /\ DOMAIN seqs = 1 .. Len(seqs) /\ seqs = [i \in 1 .. Len(seqs) |-> seqs[i]]
  BY ListHas DEF Lists
<1>2. ASSUME NEW i \in 1 .. Len(seqs) PROVE seqs[i] \in X
  <2>1. seqs[i] \in Seq(Cells(seqs[i])) /\ Cells(seqs[i]) \subseteq S
    BY <1>1 DEF Lists, List, AllCells
  <2>. HIDE DEF S
  <2>. QED  BY <2>1, SeqMonotonic
<1>3. seqs \in [1 .. Len(seqs) -> X]
  <2>. HIDE DEF X
  <2>. QED  BY <1>1, <1>2
<1>. QED
  <2>. HIDE DEF X
  <2>1. seqs \in Seq(X)
    BY <1>1, <1>3, SeqDef
  <2>. QED  BY <2>1 DEF X

\* The library's sequences are lists.
LEMMA SeqIsList ==
    ASSUME NEW S, NEW f \in Seq(S)
    PROVE  List(f)
<1>1. Len(f) \in Nat /\ f = [i \in 1 .. Len(f) |-> f[i]]
  OBVIOUS
<1>. QED  BY <1>1, ListIs

\* Two lists are sequences over one set.
LEMMA ListsJoin ==
    ASSUME NEW a, NEW b, List(a), List(b)
    PROVE  \E S : a \in Seq(S) /\ b \in Seq(S)
<1>. DEFINE A == Cells(a)
            B == Cells(b)
            S == A \union B
<1>1. a \in Seq(A) /\ b \in Seq(B)
  BY DEF List
<1>2. A \subseteq S /\ B \subseteq S
  OBVIOUS
<1>. HIDE DEF A, B, S
<1>. QED  BY <1>1, <1>2, SeqMonotonic

\* Joined lists have the cells of both.
LEMMA JoinedCells ==
    ASSUME NEW a, NEW b, List(a), List(b)
    PROVE  List(a \o b) /\ Cells(a \o b) = Cells(a) \union Cells(b)
<1>0. PICK S : a \in Seq(S) /\ b \in Seq(S)
  BY ListsJoin
<1>1. /\ DOMAIN a = 1 .. Len(a) /\ DOMAIN b = 1 .. Len(b) /\ Len(a) \in Nat /\ Len(b) \in Nat
      /\ DOMAIN (a \o b) = 1 .. Len(a) + Len(b)
      /\ \A i \in 1 .. Len(a) : (a \o b)[i] = a[i]
      /\ \A i \in 1 .. Len(b) : (a \o b)[Len(a) + i] = b[i]
  BY <1>0
<1>2. \A i \in 1 .. Len(a) + Len(b) : i \notin 1 .. Len(a) => i - Len(a) \in 1 .. Len(b) /\ Len(a) + (i - Len(a)) = i
  BY <1>1
<1>3. Cells(a \o b) \subseteq Cells(a) \union Cells(b)
  BY <1>1, <1>2 DEF Cells
<1>4. Cells(a) \union Cells(b) \subseteq Cells(a \o b)
  <2>1. \A i \in 1 .. Len(a) : i \in DOMAIN (a \o b)
    BY <1>1
  <2>2. \A i \in 1 .. Len(b) : Len(a) + i \in DOMAIN (a \o b)
    BY <1>1
  <2>. QED  BY <1>1, <2>1, <2>2 DEF Cells
<1>5. List(a \o b)
  <2>1. a \o b \in Seq(S)
    BY <1>0
  <2>. QED  BY <2>1, SeqIsList
<1>. QED  BY <1>3, <1>4, <1>5

\* In a list just once.
Single(list, x) == \E i \in DOMAIN list : list[i] = x /\ \A j \in DOMAIN list : list[j] = x => j = i

\* What is in a list just once is counted once.
LEMMA SingleCount ==
    ASSUME NEW list, NEW x, Single(list, x)
    PROVE  Count(list, x) = 1
<1>1. PICK i \in DOMAIN list : list[i] = x /\ \A j \in DOMAIN list : list[j] = x => j = i
  BY DEF Single
<1>2. {j \in DOMAIN list : list[j] = x} = {i}
  BY <1>1
<1>. QED  BY <1>2, FS_Singleton DEF Count

\* Joining a list without it does not change that.
LEMMA JoinedSingle ==
    ASSUME NEW a, NEW b, List(a), List(b), NEW x
    PROVE  /\ Single(a, x) /\ x \notin Cells(b) => Single(a \o b, x)
           /\ x \notin Cells(a) /\ Single(b, x) => Single(a \o b, x)
<1>0. PICK S : a \in Seq(S) /\ b \in Seq(S)
  BY ListsJoin
<1>1. /\ DOMAIN a = 1 .. Len(a) /\ DOMAIN b = 1 .. Len(b) /\ Len(a) \in Nat /\ Len(b) \in Nat
      /\ DOMAIN (a \o b) = 1 .. Len(a) + Len(b)
      /\ \A i \in 1 .. Len(a) : (a \o b)[i] = a[i]
      /\ \A i \in 1 .. Len(b) : (a \o b)[Len(a) + i] = b[i]
  BY <1>0
<1>2. \A i \in 1 .. Len(a) + Len(b) : i \notin 1 .. Len(a) => i - Len(a) \in 1 .. Len(b) /\ Len(a) + (i - Len(a)) = i
  BY <1>1
<1>3. ASSUME Single(a, x), x \notin Cells(b) PROVE Single(a \o b, x)
  <2>1. PICK i \in DOMAIN a : a[i] = x /\ \A j \in DOMAIN a : a[j] = x => j = i
    BY <1>3 DEF Single
  <2>2. i \in DOMAIN (a \o b) /\ (a \o b)[i] = x
    BY <1>1, <2>1
  <2>3. \A j \in DOMAIN (a \o b) : (a \o b)[j] = x => j = i
    BY <1>1, <1>2, <1>3, <2>1 DEF Cells
  <2>. QED  BY <2>2, <2>3 DEF Single
<1>4. ASSUME Single(b, x), x \notin Cells(a) PROVE Single(a \o b, x)
  <2>1. PICK i \in DOMAIN b : b[i] = x /\ \A j \in DOMAIN b : b[j] = x => j = i
    BY <1>4 DEF Single
  <2>2. Len(a) + i \in DOMAIN (a \o b) /\ (a \o b)[Len(a) + i] = x
    BY <1>1, <2>1
  <2>3. ASSUME NEW j \in DOMAIN (a \o b), (a \o b)[j] = x PROVE j = Len(a) + i
    <3>1. j \notin 1 .. Len(a)
      BY <1>1, <1>4, <2>3 DEF Cells
    <3>2. b[j - Len(a)] = x /\ j - Len(a) \in DOMAIN b
      BY <1>1, <1>2, <2>3, <3>1
    <3>3. j - Len(a) = i
      BY <2>1, <3>2
    <3>. QED  BY <3>3, <1>1
  <2>. QED  BY <2>2, <2>3 DEF Single
<1>. QED  BY <1>3, <1>4

\* Flattened lists have the cells of all.
LEMMA FlatCells ==
    ASSUME NEW seqs, Lists(seqs)
    PROVE  List(FlattenSeq(seqs)) /\ Cells(FlattenSeq(seqs)) = AllCells(seqs)
<1>0. PICK S : seqs \in Seq(Seq(S))
  BY ListsAre
<1>. DEFINE n == Len(seqs)
            CellsUpTo(i) == UNION {Cells(seqs[j]) : j \in 1 .. i}
<1>1. PICK f \in [0 .. n -> Seq(S)] :
         /\ f[0] = <<>> /\ FlattenSeq(seqs) = f[n]
         /\ \A i \in 1 .. n : f[i] = f[i - 1] \o seqs[i]
  BY <1>0, Flattening
<1>2. n \in Nat /\ DOMAIN seqs = 1 .. n /\ \A i \in 1 .. n : seqs[i] \in Seq(S)
  BY <1>0
<1>. DEFINE G == {i \in 0 .. n : Cells(f[i]) = CellsUpTo(i)}
<1>3. 0 \in G
  <2>1. Cells(<<>>) = {}
    BY DEF Cells
  <2>2. 1 .. 0 = {}
    OBVIOUS
  <2>3. CellsUpTo(0) = {}
    BY <2>2
  <2>. QED  BY <2>1, <2>3, <1>1, <1>2
<1>4. ASSUME NEW i \in 1 .. n, i - 1 \in G PROVE i \in G
  <2>1. i - 1 \in 0 .. n /\ i \in 0 .. n /\ 1 .. i = (1 .. i - 1) \union {i}
    BY <1>2
  <2>2. f[i] = f[i - 1] \o seqs[i] /\ f[i - 1] \in Seq(S) /\ seqs[i] \in Seq(S)
    BY <1>1, <1>2, <2>1
  <2>5. List(f[i - 1]) /\ List(seqs[i])
    BY <2>2, SeqIsList
  <2>4. Cells(f[i]) = Cells(f[i - 1]) \union Cells(seqs[i])
    BY <2>2, <2>5, JoinedCells
  <2>3. CellsUpTo(i) = CellsUpTo(i - 1) \union Cells(seqs[i])
    BY <2>1
  <2>. QED  BY <1>4, <2>1, <2>4, <2>3
<1>5. n \in G
  <2>. HIDE DEF G, n
  <2>1. \A i \in 1 .. n : i - 1 \in G => i \in G
    BY <1>4
  <2>2. \A i \in 0 .. n : i \in G
    BY <1>2, <1>3, <2>1, UpTo
  <2>. QED  BY <1>2, <2>2
<1>6. List(f[n])
  BY <1>1, <1>2, SeqIsList
<1>. QED  BY <1>1, <1>2, <1>5, <1>6 DEF AllCells

\* What one of the lists has once, and the others do not have, is there once.
LEMMA FlatSingle ==
    ASSUME NEW seqs, Lists(seqs), NEW x, NEW a \in DOMAIN seqs, Single(seqs[a], x),
           \A i \in DOMAIN seqs : i # a => x \notin Cells(seqs[i])
    PROVE  Single(FlattenSeq(seqs), x)
<1>0. PICK S : seqs \in Seq(Seq(S))
  BY ListsAre
<1>. DEFINE n == Len(seqs)
<1>1. PICK f \in [0 .. n -> Seq(S)] :
         /\ f[0] = <<>> /\ FlattenSeq(seqs) = f[n]
         /\ \A i \in 1 .. n : f[i] = f[i - 1] \o seqs[i]
  BY <1>0, Flattening
<1>2. n \in Nat /\ DOMAIN seqs = 1 .. n /\ \A i \in 1 .. n : seqs[i] \in Seq(S)
  BY <1>0
<1>. DEFINE FoundBy(i) == IF i < a THEN x \notin Cells(f[i]) ELSE Single(f[i], x)
            G == {i \in 0 .. n : FoundBy(i)}
<1>3. 0 \in G
  <2>1. Cells(<<>>) = {}
    BY DEF Cells
  <2>. QED  BY <2>1, <1>1, <1>2
<1>4. ASSUME NEW i \in 1 .. n, i - 1 \in G PROVE i \in G
  <2>1. i - 1 \in 0 .. n /\ i \in 0 .. n /\ a \in Nat /\ i \in Nat
    BY <1>2
  <2>2. f[i] = f[i - 1] \o seqs[i] /\ f[i - 1] \in Seq(S) /\ seqs[i] \in Seq(S)
    BY <1>1, <1>2, <2>1
  <2>8. List(f[i - 1]) /\ List(seqs[i])
    BY <2>2, SeqIsList
  <2>3. Cells(f[i]) = Cells(f[i - 1]) \union Cells(seqs[i])
    BY <2>2, <2>8, JoinedCells
  <2>4. /\ Single(f[i - 1], x) /\ x \notin Cells(seqs[i]) => Single(f[i], x)
        /\ x \notin Cells(f[i - 1]) /\ Single(seqs[i], x) => Single(f[i], x)
    BY <2>2, <2>8, JoinedSingle
  <2>5. CASE i < a
    <3>1. i - 1 < a /\ i # a /\ i \in DOMAIN seqs
      BY <2>5, <2>1, <1>2
    <3>2. x \notin Cells(f[i - 1]) /\ x \notin Cells(seqs[i])
      BY <3>1, <1>4
    <3>. QED  BY <3>2, <2>1, <2>3, <2>5
  <2>6. CASE i = a
    BY <2>6, <2>1, <2>4, <1>4
  <2>7. CASE a < i
    <3>1. ~ (i - 1 < a) /\ ~ (i < a) /\ i # a /\ i \in DOMAIN seqs
      BY <2>7, <2>1, <1>2
    <3>2. Single(f[i - 1], x) /\ x \notin Cells(seqs[i])
      BY <3>1, <1>4
    <3>. QED  BY <3>1, <3>2, <2>1, <2>4
  <2>. QED  BY <2>1, <2>5, <2>6, <2>7
<1>5. n \in G
  <2>. HIDE DEF G, n
  <2>1. \A i \in 1 .. n : i - 1 \in G => i \in G
    BY <1>4
  <2>2. \A i \in 0 .. n : i \in G
    BY <1>2, <1>3, <2>1, UpTo
  <2>. QED  BY <1>2, <2>2
<1>. QED  BY <1>1, <1>2, <1>5

\* Rows that are aligned with their headings stay so side by side.
LEMMA JoinedAligned ==
    ASSUME NEW a, NEW b, NEW h, NEW g, List(a), List(b), List(h), List(g),
           NEW r, NEW event, RowAligned(a, h, r, event), RowAligned(b, g, r, event)
    PROVE  RowAligned(a \o b, h \o g, r, event)
<1>1. Len(a) = Len(h) /\ Len(b) = Len(g)
  BY DEF RowAligned
<1>0. PICK S, T : a \in Seq(S) /\ b \in Seq(S) /\ h \in Seq(T) /\ g \in Seq(T)
  BY ListsJoin
<1>2. /\ DOMAIN h = 1 .. Len(h) /\ DOMAIN g = 1 .. Len(g) /\ Len(h) \in Nat /\ Len(g) \in Nat
      /\ DOMAIN (h \o g) = 1 .. Len(h) + Len(g)
      /\ Len(a \o b) = Len(a) + Len(b) /\ Len(h \o g) = Len(h) + Len(g)
      /\ \A i \in 1 .. Len(h) : (h \o g)[i] = h[i] /\ (a \o b)[i] = a[i]
      /\ \A i \in 1 .. Len(g) : (h \o g)[Len(h) + i] = g[i] /\ (a \o b)[Len(h) + i] = b[i]
  BY <1>0, <1>1
<1>3. \A i \in 1 .. Len(h) + Len(g) : i \notin 1 .. Len(h) => i - Len(h) \in 1 .. Len(g) /\ Len(h) + (i - Len(h)) = i
  BY <1>2
<1>4. ASSUME NEW c \in DOMAIN (h \o g)
      PROVE  IF (h \o g)[c] = Empty THEN (a \o b)[c] = Empty ELSE Keeps((a \o b)[c], (h \o g)[c], r, event)
  <2>1. CASE c \in 1 .. Len(h)
    BY <2>1, <1>2 DEF RowAligned
  <2>2. CASE c \notin 1 .. Len(h)
    <3>1. c - Len(h) \in 1 .. Len(g) /\ (h \o g)[c] = g[c - Len(h)] /\ (a \o b)[c] = b[c - Len(h)]
      BY <2>2, <1>2, <1>3
    <3>. QED  BY <3>1, <1>2 DEF RowAligned
  <2>. QED  BY <2>1, <2>2
<1>. QED  BY <1>1, <1>2, <1>4 DEF RowAligned

\* And any number of them, which is how a survey is printed.
LEMMA FlatAligned ==
    ASSUME NEW rows, NEW heads, Lists(rows), Lists(heads),
           Len(rows) = Len(heads), NEW r, NEW event,
           \A i \in DOMAIN heads : RowAligned(rows[i], heads[i], r, event)
    PROVE  RowAligned(FlattenSeq(rows), FlattenSeq(heads), r, event)
<1>0. PICK S, T : rows \in Seq(Seq(S)) /\ heads \in Seq(Seq(T))
  BY ListsAre
<1>. DEFINE n == Len(heads)
<1>1. PICK f \in [0 .. n -> Seq(S)] :
         /\ f[0] = <<>> /\ FlattenSeq(rows) = f[n]
         /\ \A i \in 1 .. n : f[i] = f[i - 1] \o rows[i]
  <2>1. n = Len(rows)
    OBVIOUS
  <2>. HIDE DEF n
  <2>. QED  BY <1>0, <2>1, Flattening
<1>2. PICK g \in [0 .. n -> Seq(T)] :
         /\ g[0] = <<>> /\ FlattenSeq(heads) = g[n]
         /\ \A i \in 1 .. n : g[i] = g[i - 1] \o heads[i]
  BY <1>0, Flattening
<1>3. n \in Nat /\ DOMAIN heads = 1 .. n /\ \A i \in 1 .. n : heads[i] \in Seq(T) /\ rows[i] \in Seq(S)
  BY <1>0
<1>. DEFINE G == {i \in 0 .. n : RowAligned(f[i], g[i], r, event)}
<1>4. 0 \in G
  BY <1>1, <1>2, <1>3 DEF RowAligned
<1>5. ASSUME NEW i \in 1 .. n, i - 1 \in G PROVE i \in G
  <2>1. i - 1 \in 0 .. n /\ i \in 0 .. n
    BY <1>3
  <2>2. /\ f[i - 1] \in Seq(S) /\ g[i - 1] \in Seq(T) /\ rows[i] \in Seq(S) /\ heads[i] \in Seq(T)
        /\ f[i] = f[i - 1] \o rows[i] /\ g[i] = g[i - 1] \o heads[i]
    BY <2>1, <1>1, <1>2, <1>3
  <2>3. RowAligned(f[i - 1], g[i - 1], r, event) /\ RowAligned(rows[i], heads[i], r, event)
    BY <1>5, <1>3
  <2>4. RowAligned(f[i], g[i], r, event)
    <3>1. List(f[i - 1]) /\ List(g[i - 1]) /\ List(rows[i]) /\ List(heads[i])
      BY <2>2, SeqIsList
    <3>. QED  BY <2>2, <2>3, <3>1, JoinedAligned
  <2>. QED  BY <2>1, <2>4
<1>6. n \in G
  <2>. HIDE DEF G, n
  <2>1. \A i \in 1 .. n : i - 1 \in G => i \in G
    BY <1>5
  <2>2. \A i \in 0 .. n : i \in G
    BY <1>3, <1>4, <2>1, UpTo
  <2>. QED  BY <1>3, <2>2
<1>. QED  BY <1>1, <1>2, <1>6

-----------------------------------------------------------------------------
(* Surveys and their order *)

\* What is counted in a list is finite.
LEMMA PositionsFinite ==
    ASSUME NEW X, NEW list \in Seq(X), NEW x
    PROVE  IsFiniteSet({i \in DOMAIN list : list[i] = x}) /\ Count(list, x) \in Nat
<1>. DEFINE P == {i \in DOMAIN list : list[i] = x}
<1>1. Len(list) \in Nat /\ DOMAIN list = 1 .. Len(list)
  OBVIOUS
<1>2. IsFiniteSet(1 .. Len(list))
  BY <1>1, FS_Interval
<1>3. IsFiniteSet(P)
  BY <1>1, <1>2, FS_Subset
<1>4. Cardinality(P) \in Nat
  BY <1>3, FS_CardinalityType
<1>. QED  BY <1>3, <1>4 DEF Count

\* The n-th question of a kind in the order is one the survey has.
LEMMA NthIn ==
    ASSUME NEW order \in Seq(Kind), NEW i \in DOMAIN order
    PROVE  Nth(order, i) \in 1 .. Count(order, order[i])
<1>. DEFINE P == {j \in DOMAIN order : order[j] = order[i]}
            Q == {j \in 1 .. i : order[j] = order[i]}
<1>1. IsFiniteSet(P)
  BY PositionsFinite
<1>2. Q \subseteq P /\ i \in Q
  OBVIOUS
<1>3. IsFiniteSet(Q) /\ Cardinality(Q) <= Cardinality(P)
  BY <1>1, <1>2, FS_Subset
<1>4. Cardinality(Q) # 0
  BY <1>2, <1>3, FS_EmptySet
<1>5. Cardinality(Q) \in Nat /\ Cardinality(P) \in Nat
  BY <1>1, <1>3, FS_CardinalityType
<1>. QED  BY <1>3, <1>4, <1>5 DEF Nth, Count

\* The iterator of a kind moves on: two places take different questions.
LEMMA NthDiffers ==
    ASSUME NEW order \in Seq(Kind), NEW i \in DOMAIN order, NEW j \in DOMAIN order,
           i < j, order[i] = order[j]
    PROVE  Nth(order, i) # Nth(order, j)
<1>. DEFINE P == {m \in 1 .. i : order[m] = order[i]}
            Q == {m \in 1 .. j : order[m] = order[j]}
<1>1. IsFiniteSet(1 .. j)
  BY FS_Interval
<1>2. Q \subseteq 1 .. j /\ P \subseteq Q /\ j \in Q /\ j \notin P
  OBVIOUS
<1>3. IsFiniteSet(Q)
  BY <1>1, <1>2, FS_Subset
<1>4. Cardinality(P) # Cardinality(Q)
  BY <1>2, <1>3, FS_Subset
<1>. QED  BY <1>4 DEF Nth

\* And it gets to the last: every question of the kind is taken at some place.
\* As many places as questions, each another one, so none is left.
LEMMA NthOnto ==
    ASSUME NEW order \in Seq(Kind), NEW k \in Kind, NEW n \in 1 .. Count(order, k)
    PROVE  \E i \in DOMAIN order : order[i] = k /\ Nth(order, i) = n
<1>. DEFINE P == {i \in DOMAIN order : order[i] = k}
            T == 1 .. Count(order, k)
            f == [i \in P |-> Nth(order, i)]
<1>1. Count(order, k) \in Nat /\ IsFiniteSet(P)
  BY PositionsFinite
<1>2. Cardinality(P) = Count(order, k)
  BY DEF Count
<1>3. IsFiniteSet(T) /\ Cardinality(T) = Count(order, k)
  BY <1>1, FS_Interval
<1>4. f \in [P -> T]
  BY NthIn
<1>5. \A i, j \in P : f[i] = f[j] => i = j
  <2>. SUFFICES ASSUME NEW i \in P, NEW j \in P, f[i] = f[j] PROVE i = j
    OBVIOUS
  <2>1. i \in Nat /\ j \in Nat
    OBVIOUS
  <2>2. CASE i < j
    BY <2>2, NthDiffers
  <2>3. CASE j < i
    BY <2>3, NthDiffers
  <2>. QED  BY <2>1, <2>2, <2>3
<1>. HIDE DEF P, T, f
<1>6. f \in Injection(P, T)
  BY <1>4, <1>5 DEF Injection, IsInjective
<1>7. f \in Surjection(P, T)
  BY <1>1, <1>2, <1>3, <1>6, FS_Injection
<1>8. PICK i \in P : f[i] = n
  BY <1>7 DEF Surjection, T
<1>. QED  BY <1>8 DEF P, f

\* What was asked before or after a visit.
SurveyOf(when, e) == ExperimentOf[e].survey[when]

\* What the assumption says of a survey.
LEMMA SurveyIs ==
    ASSUME NEW e \in Experiment, NEW when \in When
    PROVE  LET s == SurveyOf(when, e)
           IN  /\ s.order \in Seq(Kind)
               /\ \A k \in Kind :
                    /\ List(s.questions[k]) /\ Len(s.questions[k]) = Count(s.order, k)
                    /\ DOMAIN s.questions[k] = 1 .. Count(s.order, k)
                    /\ \A n \in DOMAIN s.questions[k] :
                        /\ List(s.questions[k][n].options)
                        /\ s.questions[k][n].options = <<>> <=> k = "simple"
<1>. DEFINE s == SurveyOf(when, e)
<1>1. "simple" \in Kind /\ SurveysMatch(e)
  BY TablesAssumption DEF Kind
<1>2. s.order \in Seq(Kind)
  BY <1>1 DEF SurveysMatch, SurveyOf
<1>3. ASSUME NEW k \in Kind
      PROVE  /\ List(s.questions[k]) /\ Len(s.questions[k]) = Count(s.order, k)
             /\ \A n \in DOMAIN s.questions[k] :
                 /\ List(s.questions[k][n].options)
                 /\ s.questions[k][n].options = <<>> <=> k = "simple"
  BY <1>1 DEF SurveysMatch, SurveyOf
<1>4. \A k \in Kind : DOMAIN s.questions[k] = 1 .. Count(s.order, k)
  BY <1>3, ListHas
<1>. QED  BY <1>2, <1>3, <1>4

\* Every place of the order has its question.
LEMMA AskedIs ==
    ASSUME NEW e \in Experiment, NEW when \in When, NEW i \in DOMAIN SurveyOf(when, e).order
    PROVE  LET s == SurveyOf(when, e)
           IN  s.order[i] \in Kind /\ Nth(s.order, i) \in DOMAIN s.questions[s.order[i]]
<1>. DEFINE s == SurveyOf(when, e)
<1>1. s.order \in Seq(Kind) /\ \A k \in Kind : DOMAIN s.questions[k] = 1 .. Count(s.order, k)
  BY SurveyIs
<1>2. s.order[i] \in Kind
  BY <1>1
<1>. QED  BY <1>1, <1>2, NthIn

\* Every question of a survey has its place in the order.
LEMMA AllAsked ==
    ASSUME NEW e \in Experiment, NEW when \in When, NEW k \in Kind,
           NEW n \in DOMAIN SurveyOf(when, e).questions[k]
    PROVE  LET order == SurveyOf(when, e).order
           IN  \E i \in DOMAIN order : order[i] = k /\ Nth(order, i) = n
<1>. DEFINE s == SurveyOf(when, e)
<1>1. s.order \in Seq(Kind) /\ DOMAIN s.questions[k] = 1 .. Count(s.order, k)
  BY SurveyIs
<1>. QED  BY <1>1, NthOnto

\* A mark is there just if the list names the option, unless it names it twice.
LEMMA MarkRight ==
    ASSUME NEW list, NEW x
    PROVE  Marks(Mark(Count(list, x) = 1), list, x)
<1>1. CASE Twice(list, x)
  BY <1>1 DEF Marks
<1>2. CASE x \notin Cells(list)
  <2>1. {i \in DOMAIN list : list[i] = x} = {}
    BY <1>2 DEF Cells
  <2>2. Count(list, x) = 0
    BY <2>1, FS_EmptySet DEF Count
  <2>. QED  BY <1>2, <2>2 DEF Marks
<1>3. CASE x \in Cells(list) /\ ~ Twice(list, x)
  <2>1. Single(list, x)
    BY <1>3 DEF Cells, Twice, Single
  <2>2. Count(list, x) = 1
    BY <2>1, SingleCount
  <2>. QED  BY <1>3, <2>2 DEF Marks
<1>. QED  BY <1>1, <1>2, <1>3

\* A container without columns adds one empty cell.
LEMMA RowIs ==
    ASSUME NEW a, List(a)
    PROVE  /\ List(Row(a)) /\ Cells(a) \subseteq Cells(Row(a)) /\ Cells(Row(a)) \subseteq Cells(a) \union {Empty}
<1>1. CASE a = <<>>
  <2>1. Row(a) = <<Empty>>
    BY <1>1 DEF Row
  <2>2. <<Empty>> \in Seq({Empty})
    OBVIOUS
  <2>3. List(<<Empty>>)
    BY <2>2, SeqIsList
  <2>4. Cells(a) = {} /\ Cells(<<Empty>>) = {Empty}
    BY <1>1 DEF Cells
  <2>. QED  BY <2>1, <2>3, <2>4
<1>2. CASE a # <<>>
  BY <1>2 DEF Row
<1>. QED  BY <1>1, <1>2

\* It does so in the heading and in the row, so they stay aligned.
LEMMA RowsAligned ==
    ASSUME NEW a, NEW h, List(a), List(h), NEW r, NEW event, RowAligned(a, h, r, event)
    PROVE  RowAligned(Row(a), Row(h), r, event)
<1>0. a = <<>> <=> h = <<>>
  BY DEF List, RowAligned
<1>1. CASE h = <<>>
  <2>1. Row(a) = <<Empty>> /\ Row(h) = <<Empty>>
    BY <1>0, <1>1 DEF Row
  <2>. QED  BY <2>1 DEF RowAligned
<1>2. CASE h # <<>>
  BY <1>0, <1>2 DEF Row
<1>. QED  BY <1>1, <1>2

\* One cell under one heading.
LEMMA OneAligned ==
    ASSUME NEW cell, NEW col, col # Empty, NEW r, NEW event, Keeps(cell, col, r, event)
    PROVE  /\ List(<<cell>>) /\ List(<<col>>) /\ RowAligned(<<cell>>, <<col>>, r, event)
<1>1. <<cell>> \in Seq({cell}) /\ <<col>> \in Seq({col})
  OBVIOUS
<1>2. List(<<cell>>) /\ List(<<col>>)
  BY <1>1, SeqIsList
<1>. QED  BY <1>2 DEF RowAligned

\* Cells and headings of the positions of a list.
LEMMA ManyAligned ==
    ASSUME NEW list, List(list), NEW a, NEW h, NEW r, NEW event,
           a = [i \in DOMAIN list |-> a[i]], h = [i \in DOMAIN list |-> h[i]],
           \A i \in DOMAIN list : h[i] # Empty /\ Keeps(a[i], h[i], r, event)
    PROVE  List(a) /\ List(h) /\ RowAligned(a, h, r, event)
<1>1. Len(list) \in Nat /\ DOMAIN list = 1 .. Len(list)
  BY ListHas
<1>2. List(a) /\ List(h) /\ Len(a) = Len(list) /\ Len(h) = Len(list)
  BY <1>1, ListIs
<1>. QED  BY <1>1, <1>2 DEF RowAligned

\* What a heading over an answer promises.
LEMMA KeepsAnswer ==
    ASSUME NEW cell, NEW col, NEW r, NEW event, col[1] \in When
    PROVE  Keeps(cell, col, r, event) <=>
            LET s == SurveyOf(col[1], ReportOf[r].experiment)
            IN  \E n \in AsksAt(s, col[2], col[3]) :
                    Answers(cell, col[2], s.questions[col[2]][n],
                            IF col[2] = "simple" THEN 0 ELSE col[4],
                            ReportOf[r].survey[col[1]][col[2]][n])
BY DEF Keeps, When, SurveyOf

-----------------------------------------------------------------------------
(* Rows *)

\* The cells of an answer are under the headings of its question.
LEMMA QuestionAligned ==
    ASSUME NEW r \in Report, NEW event, NEW when \in When, NEW k \in Kind,
           NEW n \in DOMAIN SurveyOf(when, ReportOf[r].experiment).questions[k]
    PROVE  LET q == SurveyOf(when, ReportOf[r].experiment).questions[k][n]
               a == AnswerCells(k, q, ReportOf[r].survey[when][k][n])
               h == QuestionHeader(when, k, q)
           IN  List(a) /\ List(h) /\ RowAligned(a, h, r, event)
<1>. DEFINE s == SurveyOf(when, ReportOf[r].experiment)
            q == s.questions[k][n]
            ans == ReportOf[r].survey[when][k][n]
<1>1. ReportOf[r].experiment \in Experiment
  BY ExcelAssumption
<1>2. List(q.options) /\ n \in AsksAt(s, k, q.id)
  BY <1>1, SurveyIs DEF AsksAt
<1>3. CASE k = "simple"
  <2>. DEFINE col == <<when, k, q.id>>
              cell == <<"text", ans>>
  <2>1. QuestionHeader(when, k, q) = <<col>> /\ AnswerCells(k, q, ans) = <<cell>>
    BY <1>3 DEF QuestionHeader, AnswerCells
  <2>2. col # Empty /\ col[1] = when /\ col[2] = k /\ col[3] = q.id
    BY DEF Empty
  <2>3. Answers(cell, k, q, 0, ans)
    BY <1>3 DEF Answers
  <2>. HIDE DEF col, cell
  <2>4. Keeps(cell, col, r, event)
    BY <2>2, <2>3, <1>2, <1>3, KeepsAnswer
  <2>5. List(<<cell>>) /\ List(<<col>>) /\ RowAligned(<<cell>>, <<col>>, r, event)
    BY <2>2, <2>4, OneAligned
  <2>. QED  BY <2>1, <2>5
<1>4. CASE k # "simple"
  <2>. DEFINE h == [i \in DOMAIN q.options |-> <<when, k, q.id, i>>]
              a == [i \in DOMAIN q.options |-> IF k = "multi" THEN Mark(Count(ans, q.options[i]) = 1)
                                               ELSE <<"place", Place(ans, q.options[i])>>]
  <2>1. QuestionHeader(when, k, q) = Row(h)
    BY <1>4 DEF QuestionHeader
  <2>2. AnswerCells(k, q, ans) = Row(a)
    <3>1. CASE k = "multi"
      BY <3>1 DEF AnswerCells, Map
    <3>2. CASE k = "sort"
      BY <3>2 DEF AnswerCells, Map
    <3>. QED  BY <1>4, <3>1, <3>2 DEF Kind
  <2>3. ASSUME NEW i \in DOMAIN q.options PROVE h[i] # Empty /\ Keeps(a[i], h[i], r, event)
    <3>. DEFINE col == <<when, k, q.id, i>>
    <3>1. col # Empty /\ col[1] = when /\ col[2] = k /\ col[3] = q.id /\ col[4] = i
      BY DEF Empty
    <3>2. Answers(a[i], k, q, i, ans)
      <4>1. CASE k = "multi"
        BY <4>1, MarkRight DEF Answers
      <4>2. CASE k = "sort"
        BY <4>2 DEF Answers
      <4>. QED  BY <1>4, <4>1, <4>2 DEF Kind
    <3>3. h[i] = col
      OBVIOUS
    <3>. HIDE DEF col, a, h
    <3>4. Keeps(a[i], col, r, event)
      BY <3>1, <3>2, <1>2, <1>4, KeepsAnswer
    <3>. QED  BY <3>1, <3>3, <3>4
  <2>4. a = [i \in DOMAIN q.options |-> a[i]] /\ h = [i \in DOMAIN q.options |-> h[i]]
    OBVIOUS
  <2>. HIDE DEF a, h
  <2>5. List(a) /\ List(h) /\ RowAligned(a, h, r, event)
    BY <1>2, <2>3, <2>4, ManyAligned
  <2>. QED  BY <2>1, <2>2, <2>5, RowIs, RowsAligned
<1>. QED  BY <1>3, <1>4

\* The answers of a survey are under its questions: both go through the order
\* with an iterator for each kind.
LEMMA SurveyAligned ==
    ASSUME NEW r \in Report, NEW event, NEW when \in When
    PROVE  LET e == ReportOf[r].experiment
           IN  /\ List(SurveyEntry(when, e, r)) /\ List(SurveyHeader(when, e))
               /\ RowAligned(SurveyEntry(when, e, r), SurveyHeader(when, e), r, event)
<1>. DEFINE e == ReportOf[r].experiment
            s == SurveyOf(when, e)
            order == s.order
            rows == [i \in DOMAIN order |-> AnswerCells(order[i], s.questions[order[i]][Nth(order, i)],
                                                ReportOf[r].survey[when][order[i]][Nth(order, i)])]
            heads == [i \in DOMAIN order |->
                        QuestionHeader(when, order[i], s.questions[order[i]][Nth(order, i)])]
<1>1. e \in Experiment
  BY ExcelAssumption
<1>2. SurveyEntry(when, e, r) = Row(FlattenSeq(rows)) /\ SurveyHeader(when, e) = Row(FlattenSeq(heads))
  BY DEF SurveyEntry, SurveyHeader, SurveyColumns, SurveyOf
<1>3. order \in Seq(Kind)
  BY <1>1, SurveyIs
<1>4. ASSUME NEW i \in DOMAIN order
      PROVE List(rows[i]) /\ List(heads[i]) /\ RowAligned(rows[i], heads[i], r, event)
  <2>1. order[i] \in Kind /\ Nth(order, i) \in DOMAIN s.questions[order[i]]
    BY <1>1, AskedIs
  <2>. QED  BY <2>1, QuestionAligned
<1>5. /\ Len(order) \in Nat /\ DOMAIN order = 1 .. Len(order)
      /\ rows = [i \in 1 .. Len(order) |-> rows[i]] /\ heads = [i \in 1 .. Len(order) |-> heads[i]]
      /\ DOMAIN rows = DOMAIN order /\ DOMAIN heads = DOMAIN order
  <2>1. Len(order) \in Nat /\ DOMAIN order = 1 .. Len(order)
    <3>. HIDE DEF order
    <3>. QED  BY <1>3
  <2>. QED  BY <2>1
<1>. HIDE DEF rows, heads
<1>6. List(rows) /\ List(heads) /\ Len(rows) = Len(heads)
  BY <1>5, ListIs
<1>7. Lists(rows) /\ Lists(heads)
  BY <1>4, <1>5, <1>6 DEF Lists
<1>8. RowAligned(FlattenSeq(rows), FlattenSeq(heads), r, event)
  BY <1>4, <1>5, <1>6, <1>7, FlatAligned
<1>9. List(FlattenSeq(rows)) /\ List(FlattenSeq(heads))
  BY <1>7, FlatCells
<1>. QED  BY <1>2, <1>8, <1>9, RowIs, RowsAligned

\* What the other headings promise.
LEMMA KeepsCell ==
    ASSUME NEW cell, NEW col, NEW r, NEW event
    PROVE  /\ col[1] = "experiment" => (Keeps(cell, col, r, event) <=> cell = <<"experiment", ReportOf[r].experiment>>)
           /\ col[1] = "report" => (Keeps(cell, col, r, event) <=> cell = <<"report", r>>)
           /\ col[1] = "exhibit" => (Keeps(cell, col, r, event) <=> cell = ExhibitName(event.exhibit))
           /\ col[1] = "is break" =>
                (Keeps(cell, col, r, event) <=> cell = <<"is break", event.exhibit = NoExhibit>>)
           /\ col[1] = "action" =>
                (Keeps(cell, col, r, event) <=>
                    IF event.exhibit = NoExhibit THEN cell = Empty ELSE Marks(cell, event.actions, col[2]))
           /\ col[1] = "break action" =>
                (Keeps(cell, col, r, event) <=>
                    IF event.exhibit = NoExhibit THEN Marks(cell, event.actions, col[2]) ELSE cell = Empty)
<1>1. col[1] = "experiment" => (Keeps(cell, col, r, event) <=> cell = <<"experiment", ReportOf[r].experiment>>)
  BY DEF Keeps, When
<1>2. col[1] = "report" => (Keeps(cell, col, r, event) <=> cell = <<"report", r>>)
  BY DEF Keeps, When
<1>3. col[1] = "exhibit" => (Keeps(cell, col, r, event) <=> cell = ExhibitName(event.exhibit))
  BY DEF Keeps, When
<1>4. col[1] = "is break" => (Keeps(cell, col, r, event) <=> cell = <<"is break", event.exhibit = NoExhibit>>)
  BY DEF Keeps, When
<1>5. col[1] = "action" =>
        (Keeps(cell, col, r, event) <=>
            IF event.exhibit = NoExhibit THEN cell = Empty ELSE Marks(cell, event.actions, col[2]))
  BY DEF Keeps, When
<1>6. col[1] = "break action" =>
        (Keeps(cell, col, r, event) <=>
            IF event.exhibit = NoExhibit THEN Marks(cell, event.actions, col[2]) ELSE cell = Empty)
  BY DEF Keeps, When
<1>. QED  BY <1>1, <1>2, <1>3, <1>4, <1>5, <1>6

\* The marks of an event are under the actions, of which a break has others.
LEMMA ActionsAligned ==
    ASSUME NEW r \in Report, NEW event, NEW list, List(list), NEW b \in BOOLEAN
    PROVE  LET col == IF b THEN "break action" ELSE "action"
           IN  /\ List(ActionsEntry(b, list, event)) /\ List(ActionsHeader(col, list))
               /\ RowAligned(ActionsEntry(b, list, event), ActionsHeader(col, list), r, event)
<1>. DEFINE col == IF b THEN "break action" ELSE "action"
            h == [i \in DOMAIN list |-> <<col, list[i]>>]
            a == [i \in DOMAIN list |-> Mark(/\ b = (event.exhibit = NoExhibit)
                                             /\ Count(event.actions, list[i]) = 1)]
<1>1. ActionsHeader(col, list) = Row(h) /\ ActionsEntry(b, list, event) = Row(a)
  BY DEF ActionsHeader, ActionsEntry, Map
<1>2. ASSUME NEW i \in DOMAIN list PROVE h[i] # Empty /\ Keeps(a[i], h[i], r, event)
  <2>1. h[i] = <<col, list[i]>> /\ h[i] # Empty /\ h[i][1] = col /\ h[i][2] = list[i]
    BY DEF Empty
  <2>2. Marks(Mark(Count(event.actions, list[i]) = 1), event.actions, list[i])
    BY MarkRight
  <2>3. CASE b = (event.exhibit = NoExhibit)
    <3>1. a[i] = Mark(Count(event.actions, list[i]) = 1)
      BY <2>3 DEF Mark
    <3>. HIDE DEF a, h
    <3>. QED  BY <2>1, <2>2, <2>3, <3>1, KeepsCell DEF col
  <2>4. CASE b # (event.exhibit = NoExhibit)
    <3>1. a[i] = Empty
      BY <2>4 DEF Mark
    <3>. HIDE DEF a, h
    <3>. QED  BY <2>1, <2>4, <3>1, KeepsCell DEF col
  <2>. QED  BY <2>1, <2>3, <2>4
<1>3. a = [i \in DOMAIN list |-> a[i]] /\ h = [i \in DOMAIN list |-> h[i]]
  OBVIOUS
<1>. HIDE DEF a, h
<1>4. List(a) /\ List(h) /\ RowAligned(a, h, r, event)
  BY <1>2, <1>3, ManyAligned
<1>. QED  BY <1>1, <1>4, RowIs, RowsAligned

\* Every row of every report is aligned with the headings of its experiment.
LEMMA EveryRowAligned ==
    ASSUME NEW r \in Report
    PROVE  Aligned[r]
<1>. DEFINE e == ReportOf[r].experiment
<1>1. e \in Experiment /\ List(ExperimentOf[e].actions) /\ List(ExperimentOf[e].breakActions)
  BY ExcelAssumption, TablesAssumption
<1>. SUFFICES ASSUME NEW i \in DOMAIN ReportOf[r].history
              PROVE  RowAligned(ReportRows[r][i], Header[e], r, ReportOf[r].history[i])
  BY DEF Aligned
<1>. DEFINE event == ReportOf[r].history[i]
            Fit(a, h) == List(a) /\ List(h) /\ RowAligned(a, h, r, event)
<1>. HIDE DEF e
<1>2. ASSUME NEW a, NEW h, NEW b, NEW g, Fit(a, h), Fit(b, g) PROVE Fit(a \o b, h \o g)
  BY <1>2, JoinedCells, JoinedAligned
<1>3. Fit(ExperimentEntry(e), ExperimentHeader)
  <2>1. Keeps(<<"experiment", e>>, <<"experiment">>, r, event) /\ <<"experiment">> # Empty
    BY KeepsCell DEF Empty, e
  <2>. QED  BY <2>1, OneAligned DEF ExperimentEntry, ExperimentHeader
<1>4. Fit(<<<<"report", r>>>>, <<<<"report">>>>)
  <2>1. Keeps(<<"report", r>>, <<"report">>, r, event) /\ <<"report">> # Empty
    <3>1. <<"report">>[1] = "report" /\ <<"report">> # Empty
      BY DEF Empty
    <3>. QED  BY <3>1, KeepsCell
  <2>. QED  BY <2>1, OneAligned
<1>5. Fit(<<ExhibitName(event.exhibit)>>, <<<<"exhibit">>>>)
  <2>1. Keeps(ExhibitName(event.exhibit), <<"exhibit">>, r, event) /\ <<"exhibit">> # Empty
    <3>1. <<"exhibit">>[1] = "exhibit" /\ <<"exhibit">> # Empty
      BY DEF Empty
    <3>. QED  BY <3>1, KeepsCell
  <2>. QED  BY <2>1, OneAligned
<1>6. Fit(<<<<"is break", event.exhibit = NoExhibit>>>>, <<<<"is break">>>>)
  <2>1. Keeps(<<"is break", event.exhibit = NoExhibit>>, <<"is break">>, r, event) /\ <<"is break">> # Empty
    <3>1. <<"is break">>[1] = "is break" /\ <<"is break">> # Empty
      BY DEF Empty
    <3>2. \A cell, col : col[1] = "is break" /\ cell = <<"is break", event.exhibit = NoExhibit>>
                            => Keeps(cell, col, r, event)
      BY KeepsCell
    <3>. QED  BY <3>1, <3>2, Zenon
  <2>. QED  BY <2>1, OneAligned
<1>7. \A when \in When : Fit(SurveyEntry(when, e, r), SurveyHeader(when, e))
  BY SurveyAligned DEF e
<1>8. Fit(ActionsEntry(FALSE, ExperimentOf[e].actions, event), ActionsHeader("action", ExperimentOf[e].actions))
  BY <1>1, ActionsAligned
<1>9. Fit(ActionsEntry(TRUE, ExperimentOf[e].breakActions, event),
          ActionsHeader("break action", ExperimentOf[e].breakActions))
  BY <1>1, ActionsAligned
<1>. HIDE DEF Fit
<1>10. Fit(ReportEntry(e, r), ReportHeader(e))
  BY <1>2, <1>4, <1>7 DEF ReportEntry, ReportHeader, When
<1>11. Fit(HistoryEntry(e, event), HistoryHeader(e))
  BY <1>2, <1>5, <1>6, <1>8, <1>9 DEF HistoryEntry, HistoryHeader
<1>12. Fit(ExperimentEntry(e) \o ReportEntry(e, r) \o HistoryEntry(e, event), Header[e])
  <2>1. Header[e] = ExperimentHeader \o ReportHeader(e) \o HistoryHeader(e)
    BY <1>1 DEF Header
  <2>. QED  BY <2>1, <1>2, <1>3, <1>10, <1>11
<1>13. ReportRows[r][i] = ExperimentEntry(e) \o ReportEntry(e, r) \o HistoryEntry(e, event)
  BY DEF ReportRows, Map, e
<1>. QED  BY <1>12, <1>13 DEF Fit

-----------------------------------------------------------------------------
(* The legend *)

\* The questions of one kind in one survey.
QuestionsOf(e, when, k) == SurveyOf(when, e).questions[k]

\* A question is explained by a line for it and one for each of its options.
LEMMA LegendOfIs ==
    ASSUME NEW k, NEW q, List(q.options)
    PROVE  /\ List(LegendOf(k, q))
           /\ Cells(LegendOf(k, q)) = {<<k, q.id>>} \union {<<k, q.id, m>> : m \in DOMAIN q.options}
           /\ \A x \in Cells(LegendOf(k, q)) : Single(LegendOf(k, q), x)
<1>. DEFINE A == <<<<k, q.id>>>>
            B == [m \in DOMAIN q.options |-> <<k, q.id, m>>]
<1>1. LegendOf(k, q) = A \o B
  BY DEF LegendOf
<1>2. List(A) /\ Cells(A) = {<<k, q.id>>} /\ Single(A, <<k, q.id>>)
  <2>1. A \in Seq({<<k, q.id>>})
    OBVIOUS
  <2>2. DOMAIN A = {1} /\ A[1] = <<k, q.id>>
    OBVIOUS
  <2>. HIDE DEF A
  <2>. QED  BY <2>1, <2>2, SeqIsList DEF Cells, Single
<1>3. List(B) /\ Cells(B) = {<<k, q.id, m>> : m \in DOMAIN q.options}
  <2>1. Len(q.options) \in Nat /\ DOMAIN q.options = 1 .. Len(q.options)
    BY ListHas
  <2>2. B = [m \in 1 .. Len(q.options) |-> B[m]]
    BY <2>1
  <2>3. DOMAIN B = DOMAIN q.options /\ \A m \in DOMAIN B : B[m] = <<k, q.id, m>>
    OBVIOUS
  <2>. HIDE DEF B
  <2>. QED  BY <2>1, <2>2, <2>3, ListIs DEF Cells
<1>4. \A m : <<k, q.id>> # <<k, q.id, m>>
  OBVIOUS
<1>5. \A m \in DOMAIN q.options : Single(B, <<k, q.id, m>>)
  BY DEF Single
<1>. HIDE DEF A, B
<1>6. List(A \o B) /\ Cells(A \o B) = Cells(A) \union Cells(B)
  BY <1>2, <1>3, JoinedCells
<1>7. ASSUME NEW x \in Cells(A \o B) PROVE Single(A \o B, x)
  <2>1. CASE x = <<k, q.id>>
    <3>1. x \notin Cells(B)
      BY <2>1, <1>3, <1>4
    <3>. QED  BY <2>1, <3>1, <1>2, <1>3, JoinedSingle
  <2>2. CASE x \in Cells(B)
    <3>1. x \notin Cells(A) /\ Single(B, x)
      BY <2>2, <1>2, <1>3, <1>4, <1>5
    <3>. QED  BY <3>1, <1>2, <1>3, JoinedSingle
  <2>. QED  BY <2>1, <2>2, <1>2, <1>6
<1>. QED  BY <1>1, <1>2, <1>3, <1>6, <1>7

\* An id names one question, before and after the visit.
LEMMA SameQuestion ==
    ASSUME NEW e \in Experiment, NEW k \in Kind, NEW w \in When, NEW v \in When,
           NEW m \in DOMAIN QuestionsOf(e, w, k), NEW n \in DOMAIN QuestionsOf(e, v, k),
           QuestionsOf(e, w, k)[m].id = QuestionsOf(e, v, k)[n].id
    PROVE  QuestionsOf(e, w, k)[m] = QuestionsOf(e, v, k)[n]
<1>1. SurveysMatch(e)
  BY TablesAssumption
<1>. QED  BY <1>1 DEF SurveysMatch, QuestionsOf, SurveyOf

\* The merged list has every question of both surveys and no other, and one
\* twice only if the survey before the visit asks it twice.
LEMMA MergedQuestions ==
    ASSUME NEW e \in Experiment, NEW k \in Kind
    PROVE  LET q1 == QuestionsOf(e, "before", k)
               q2 == QuestionsOf(e, "after", k)
               m == MergeQuestions(q1, q2)
           IN  /\ List(m)
               /\ \A a \in DOMAIN m : \E w \in When : \E n \in DOMAIN QuestionsOf(e, w, k) :
                    m[a] = QuestionsOf(e, w, k)[n]
               /\ \A w \in When : \A n \in DOMAIN QuestionsOf(e, w, k) :
                    \E a \in DOMAIN m : m[a] = QuestionsOf(e, w, k)[n]
               /\ \A a, b \in DOMAIN m : m[a].id = m[b].id /\ a # b => AskedTwice(e, k, m[a].id)
<1>. DEFINE q1 == QuestionsOf(e, "before", k)
            q2 == QuestionsOf(e, "after", k)
            m == MergeQuestions(q1, q2)
<1>1. "before" \in When /\ "after" \in When /\ \A w \in When : w = "before" \/ w = "after"
  BY DEF When
<1>2. List(q1) /\ List(q2)
  BY <1>1, SurveyIs DEF QuestionsOf
<1>3. PICK Q : q1 \in Seq(Q) /\ q2 \in Seq(Q)
  BY <1>2, ListsJoin
<1>4. m \in Seq(Q) /\ IsMerged(m, q1, q2, Len(q2))
  <2>. HIDE DEF q1, q2
  <2>. QED  BY <1>3, MergedIs
<1>5. DOMAIN q1 = 1 .. Len(q1) /\ DOMAIN q2 = 1 .. Len(q2) /\ DOMAIN m = 1 .. Len(m)
      /\ Len(q1) \in Nat /\ Len(m) \in Nat
  <2>. HIDE DEF q1, q2, m
  <2>. QED  BY <1>3, <1>4
<1>6. List(m)
  BY <1>4, SeqIsList
<1>7. ASSUME NEW a \in DOMAIN m
      PROVE  \E w \in When : \E n \in DOMAIN QuestionsOf(e, w, k) : m[a] = QuestionsOf(e, w, k)[n]
  <2>1. CASE a \in DOMAIN q1
    <3>1. m[a] = q1[a]
      BY <2>1, <1>4 DEF IsMerged
    <3>. QED  BY <2>1, <3>1, <1>1
  <2>2. CASE a \notin DOMAIN q1
    <3>1. PICK i \in DOMAIN q2 : m[a] = q2[i]
      BY <2>2, <1>4, <1>5 DEF IsMerged
    <3>. QED  BY <3>1, <1>1
  <2>. QED  BY <2>1, <2>2
<1>7b. \A a \in DOMAIN m : \E w \in When : \E n \in DOMAIN QuestionsOf(e, w, k) : m[a] = QuestionsOf(e, w, k)[n]
  <2>. HIDE DEF q1, q2, m
  <2>. QED  BY <1>7
<1>8. ASSUME NEW w \in When, NEW n \in DOMAIN QuestionsOf(e, w, k)
      PROVE  \E a \in DOMAIN m : m[a] = QuestionsOf(e, w, k)[n]
  <2>1. CASE w = "before"
    <3>1. n \in DOMAIN m /\ m[n] = q1[n]
      <4>. HIDE DEF q1, q2, m
      <4>1. n \in DOMAIN q1
        BY <2>1 DEF q1
      <4>. QED  BY <4>1, <1>4, <1>5 DEF IsMerged
    <3>. QED  BY <2>1, <3>1
  <2>2. CASE w = "after"
    <3>1. PICK a \in DOMAIN m : m[a].id = q2[n].id
      BY <2>2, <1>4, <1>5 DEF IsMerged
    <3>2. PICK v \in When : \E i \in DOMAIN QuestionsOf(e, v, k) : m[a] = QuestionsOf(e, v, k)[i]
      <4>. HIDE DEF q1, q2, m
      <4>1. a \in DOMAIN m
        BY <3>1
      <4>. QED  BY <4>1, <1>7b
    <3>3. PICK i \in DOMAIN QuestionsOf(e, v, k) : m[a] = QuestionsOf(e, v, k)[i]
      BY <3>2
    <3>4. QuestionsOf(e, v, k)[i] = QuestionsOf(e, w, k)[n]
      BY <2>2, <3>1, <3>3, SameQuestion
    <3>. QED  BY <3>3, <3>4
  <2>. QED  BY <1>1, <2>1, <2>2
<1>9. ASSUME NEW a \in DOMAIN m, NEW b \in DOMAIN m, m[a].id = m[b].id, a # b
      PROVE  AskedTwice(e, k, m[a].id)
  <2>1. a \in DOMAIN q1 /\ b \in DOMAIN q1 /\ m[a] = q1[a] /\ m[b] = q1[b]
    <3>. HIDE DEF q1, q2, m
    <3>. QED  BY <1>9, <1>4 DEF IsMerged
  <2>2. q1 = ExperimentOf[e].survey["before"].questions[k]
    BY DEF QuestionsOf, SurveyOf
  <2>. HIDE DEF q1, q2, m
  <2>. QED  BY <1>9, <2>1, <2>2 DEF AskedTwice, AsksAt
<1>. QED  BY <1>6, <1>7, <1>8, <1>9

\* The lines of a kind are those of its questions, each once unless the question
\* was asked twice.
LEMMA LegendOfKindIs ==
    ASSUME NEW e \in Experiment, NEW k \in Kind
    PROVE  LET L == LegendOfKind(k, e)
           IN  /\ List(L)
               /\ \A l \in Cells(L) :
                    /\ l[1] = k
                    /\ \E w \in When : \E n \in DOMAIN QuestionsOf(e, w, k) : l[2] = QuestionsOf(e, w, k)[n].id
               /\ \A w \in When : \A n \in DOMAIN QuestionsOf(e, w, k) :
                    LET q == QuestionsOf(e, w, k)[n]
                    IN  /\ <<k, q.id>> \in Cells(L)
                        /\ \A x \in Cells(LegendOf(k, q)) : Single(L, x) \/ AskedTwice(e, k, q.id)
<1>. DEFINE m == MergeQuestions(QuestionsOf(e, "before", k), QuestionsOf(e, "after", k))
            seqs == [a \in DOMAIN m |-> LegendOf(k, m[a])]
<1>1. LegendOfKind(k, e) = FlattenSeq(seqs)
  BY DEF LegendOfKind, Map, QuestionsOf, SurveyOf
<1>2. /\ List(m)
      /\ \A a \in DOMAIN m : \E w \in When : \E n \in DOMAIN QuestionsOf(e, w, k) :
            m[a] = QuestionsOf(e, w, k)[n]
      /\ \A w \in When : \A n \in DOMAIN QuestionsOf(e, w, k) :
            \E a \in DOMAIN m : m[a] = QuestionsOf(e, w, k)[n]
      /\ \A a, b \in DOMAIN m : m[a].id = m[b].id /\ a # b => AskedTwice(e, k, m[a].id)
  BY MergedQuestions
<1>. HIDE DEF m
<1>3. Len(m) \in Nat /\ DOMAIN m = 1 .. Len(m)
  BY <1>2, ListHas
<1>4. \A a \in DOMAIN m : List(m[a].options)
  <2>1. \A w \in When : \A n \in DOMAIN QuestionsOf(e, w, k) : List(QuestionsOf(e, w, k)[n].options)
    BY SurveyIs DEF QuestionsOf
  <2>. QED  BY <2>1, <1>2
<1>5. DOMAIN seqs = DOMAIN m /\ \A a \in DOMAIN m : seqs[a] = LegendOf(k, m[a])
  OBVIOUS
<1>6. seqs = [a \in 1 .. Len(m) |-> seqs[a]]
  BY <1>3
<1>. HIDE DEF seqs
<1>7. ASSUME NEW a \in DOMAIN m
      PROVE  /\ List(seqs[a]) /\ \A x \in Cells(seqs[a]) : Single(seqs[a], x)
             /\ Cells(seqs[a]) = {<<k, m[a].id>>} \union {<<k, m[a].id, i>> : i \in DOMAIN m[a].options}
  BY <1>4, <1>5, LegendOfIs
<1>8. Lists(seqs)
  BY <1>3, <1>5, <1>6, <1>7, ListIs DEF Lists
<1>9. List(FlattenSeq(seqs)) /\ Cells(FlattenSeq(seqs)) = AllCells(seqs)
  BY <1>8, FlatCells
<1>10. \A a \in DOMAIN m : \A x \in Cells(seqs[a]) : x[1] = k /\ x[2] = m[a].id
  BY <1>7
<1>11. ASSUME NEW l \in Cells(FlattenSeq(seqs))
       PROVE  /\ l[1] = k
              /\ \E w \in When : \E n \in DOMAIN QuestionsOf(e, w, k) : l[2] = QuestionsOf(e, w, k)[n].id
  <2>1. PICK a \in DOMAIN m : l \in Cells(seqs[a])
    BY <1>5, <1>9 DEF AllCells
  <2>2. \E w \in When : \E n \in DOMAIN QuestionsOf(e, w, k) : m[a] = QuestionsOf(e, w, k)[n]
    BY <1>2
  <2>. QED  BY <2>1, <2>2, <1>10
<1>12. ASSUME NEW w \in When, NEW n \in DOMAIN QuestionsOf(e, w, k)
       PROVE  LET q == QuestionsOf(e, w, k)[n]
              IN  /\ <<k, q.id>> \in Cells(FlattenSeq(seqs))
                  /\ \A x \in Cells(LegendOf(k, q)) : Single(FlattenSeq(seqs), x) \/ AskedTwice(e, k, q.id)
  <2>. DEFINE q == QuestionsOf(e, w, k)[n]
  <2>1. PICK a \in DOMAIN m : m[a] = q
    BY <1>2
  <2>2. <<k, q.id>> \in Cells(seqs[a])
    BY <2>1, <1>7
  <2>3. ASSUME NEW x \in Cells(LegendOf(k, q)), ~ AskedTwice(e, k, q.id)
        PROVE  Single(FlattenSeq(seqs), x)
    <3>1. x \in Cells(seqs[a]) /\ Single(seqs[a], x) /\ x[2] = q.id
      BY <2>1, <1>5, <1>7, <1>10
    <3>2. \A i \in DOMAIN seqs : i # a => x \notin Cells(seqs[i])
      BY <2>1, <2>3, <3>1, <1>2, <1>5, <1>10
    <3>. QED  BY <3>1, <3>2, <1>5, <1>8, FlatSingle
  <2>. QED  BY <2>2, <2>3, <1>5, <1>9 DEF AllCells
<1>. QED  BY <1>1, <1>9, <1>11, <1>12

-----------------------------------------------------------------------------
(* Headings *)

\* The headings over the answers to a question.
ColumnsOf(when, k, q) ==
    IF k = "simple" THEN {<<when, k, q.id>>} ELSE {<<when, k, q.id, m>> : m \in DOMAIN q.options}

\* The headings of a question; there is at least one.
LEMMA QuestionColumns ==
    ASSUME NEW e \in Experiment, NEW when \in When, NEW k \in Kind,
           NEW n \in DOMAIN QuestionsOf(e, when, k)
    PROVE  LET q == QuestionsOf(e, when, k)[n]
           IN  /\ List(QuestionHeader(when, k, q))
               /\ Cells(QuestionHeader(when, k, q)) = ColumnsOf(when, k, q)
               /\ ColumnsOf(when, k, q) # {}
<1>. DEFINE q == QuestionsOf(e, when, k)[n]
<1>1. List(q.options) /\ (q.options = <<>> <=> k = "simple")
  BY SurveyIs DEF QuestionsOf
<1>2. Len(q.options) \in Nat /\ DOMAIN q.options = 1 .. Len(q.options)
  BY <1>1, ListHas
<1>3. CASE k = "simple"
  <2>. DEFINE A == <<<<when, k, q.id>>>>
  <2>1. A \in Seq({<<when, k, q.id>>}) /\ DOMAIN A = {1} /\ A[1] = <<when, k, q.id>>
    OBVIOUS
  <2>2. QuestionHeader(when, k, q) = A
    BY <1>3 DEF QuestionHeader
  <2>. HIDE DEF A
  <2>. QED  BY <1>3, <2>1, <2>2, SeqIsList DEF Cells, ColumnsOf
<1>4. CASE k # "simple"
  <2>. DEFINE A == [i \in DOMAIN q.options |-> <<when, k, q.id, i>>]
  <2>1. QuestionHeader(when, k, q) = Row(A)
    BY <1>4 DEF QuestionHeader
  <2>2. DOMAIN A = DOMAIN q.options /\ \A i \in DOMAIN A : A[i] = <<when, k, q.id, i>>
    OBVIOUS
  <2>3. A = [i \in 1 .. Len(q.options) |-> A[i]]
    BY <1>2
  <2>. HIDE DEF A
  <2>4. List(A) /\ Len(A) = Len(q.options)
    BY <1>2, <2>3, ListIs
  <2>5. q.options # <<>> /\ Len(q.options) # 0
    BY <1>1, <1>4 DEF List
  <2>6. A # <<>>
    BY <2>4, <2>5
  <2>7. Row(A) = A
    BY <2>6 DEF Row
  <2>8. 1 \in DOMAIN q.options
    BY <1>2, <2>5
  <2>. QED  BY <1>4, <2>1, <2>2, <2>4, <2>7, <2>8 DEF Cells, ColumnsOf
<1>. QED  BY <1>3, <1>4

\* The headings of a survey are those of its questions.
LEMMA SurveyHeaderIs ==
    ASSUME NEW e \in Experiment, NEW when \in When
    PROVE  /\ List(SurveyHeader(when, e))
           /\ \A c \in Cells(SurveyHeader(when, e)) : c # Empty =>
                \E k \in Kind : \E n \in DOMAIN QuestionsOf(e, when, k) :
                    c \in ColumnsOf(when, k, QuestionsOf(e, when, k)[n])
           /\ \A k \in Kind : \A n \in DOMAIN QuestionsOf(e, when, k) :
                ColumnsOf(when, k, QuestionsOf(e, when, k)[n]) \subseteq Cells(SurveyHeader(when, e))
<1>. DEFINE s == SurveyOf(when, e)
            order == s.order
            heads == [i \in DOMAIN order |->
                        QuestionHeader(when, order[i], s.questions[order[i]][Nth(order, i)])]
<1>1. SurveyHeader(when, e) = Row(FlattenSeq(heads))
  BY DEF SurveyHeader, SurveyColumns, SurveyOf
<1>2. Len(order) \in Nat /\ DOMAIN order = 1 .. Len(order)
  <2>1. order \in Seq(Kind)
    BY SurveyIs
  <2>. QED  BY <2>1
<1>3. DOMAIN heads = DOMAIN order /\ heads = [i \in 1 .. Len(order) |-> heads[i]]
      /\ \A i \in DOMAIN order : heads[i] = QuestionHeader(when, order[i], s.questions[order[i]][Nth(order, i)])
  BY <1>2
<1>4. \A k \in Kind : s.questions[k] = QuestionsOf(e, when, k)
  BY DEF QuestionsOf
<1>. HIDE DEF heads
<1>5. ASSUME NEW i \in DOMAIN order
      PROVE  \E k \in Kind : \E n \in DOMAIN QuestionsOf(e, when, k) :
                /\ k = order[i] /\ n = Nth(order, i)
                /\ List(heads[i]) /\ Cells(heads[i]) = ColumnsOf(when, k, QuestionsOf(e, when, k)[n])
  <2>1. order[i] \in Kind /\ Nth(order, i) \in DOMAIN s.questions[order[i]]
    BY AskedIs
  <2>2. /\ Nth(order, i) \in DOMAIN QuestionsOf(e, when, order[i])
        /\ heads[i] = QuestionHeader(when, order[i], QuestionsOf(e, when, order[i])[Nth(order, i)])
    BY <2>1, <1>3, <1>4
  <2>3. List(heads[i]) /\ Cells(heads[i]) = ColumnsOf(when, order[i], QuestionsOf(e, when, order[i])[Nth(order, i)])
    BY <2>1, <2>2, QuestionColumns
  <2>. QED  BY <2>1, <2>2, <2>3
<1>6. List(heads) /\ Len(heads) = Len(order)
  BY <1>2, <1>3, ListIs
<1>7. Lists(heads)
  BY <1>3, <1>5, <1>6 DEF Lists
<1>8. List(FlattenSeq(heads)) /\ Cells(FlattenSeq(heads)) = AllCells(heads)
  BY <1>7, FlatCells
<1>9. /\ List(SurveyHeader(when, e)) /\ AllCells(heads) \subseteq Cells(SurveyHeader(when, e))
      /\ Cells(SurveyHeader(when, e)) \subseteq AllCells(heads) \union {Empty}
  BY <1>1, <1>8, RowIs
<1>10. ASSUME NEW c \in Cells(SurveyHeader(when, e)), c # Empty
       PROVE  \E k \in Kind : \E n \in DOMAIN QuestionsOf(e, when, k) :
                c \in ColumnsOf(when, k, QuestionsOf(e, when, k)[n])
  <2>1. PICK i \in DOMAIN heads : c \in Cells(heads[i])
    BY <1>9, <1>10 DEF AllCells
  <2>. QED  BY <2>1, <1>3, <1>5
<1>11. ASSUME NEW k \in Kind, NEW n \in DOMAIN QuestionsOf(e, when, k)
       PROVE  ColumnsOf(when, k, QuestionsOf(e, when, k)[n]) \subseteq Cells(SurveyHeader(when, e))
  <2>1. PICK i \in DOMAIN order : order[i] = k /\ Nth(order, i) = n
    BY <1>4, AllAsked
  <2>2. Cells(heads[i]) = ColumnsOf(when, k, QuestionsOf(e, when, k)[n])
    BY <2>1, <1>5
  <2>3. Cells(heads[i]) \subseteq AllCells(heads)
    BY <1>3 DEF AllCells
  <2>. QED  BY <2>2, <2>3, <1>9
<1>. QED  BY <1>9, <1>10, <1>11

\* A heading of its own.
LEMMA PlainHeader ==
    ASSUME NEW x
    PROVE  List(<<<<x>>>>) /\ Cells(<<<<x>>>>) = {<<x>>}
<1>. DEFINE A == <<<<x>>>>
<1>1. A \in Seq({<<x>>}) /\ DOMAIN A = {1} /\ A[1] = <<x>>
  OBVIOUS
<1>. HIDE DEF A
<1>2. List(A) /\ Cells(A) = {<<x>>}
  BY <1>1, SeqIsList DEF Cells
<1>. QED  BY <1>2 DEF A

\* The headings of actions say so.
LEMMA ActionsHeaderIs ==
    ASSUME NEW col, NEW list, List(list)
    PROVE  /\ List(ActionsHeader(col, list))
           /\ \A c \in Cells(ActionsHeader(col, list)) : c = Empty \/ c[1] = col
<1>. DEFINE h == [i \in DOMAIN list |-> <<col, list[i]>>]
<1>1. ActionsHeader(col, list) = Row(h)
  BY DEF ActionsHeader, Map
<1>2. Len(list) \in Nat /\ DOMAIN list = 1 .. Len(list)
  BY ListHas
<1>3. h = [i \in 1 .. Len(list) |-> h[i]]
  BY <1>2
<1>4. \A c \in Cells(h) : c[1] = col
  BY DEF Cells
<1>. HIDE DEF h
<1>5. List(h)
  BY <1>2, <1>3, ListIs
<1>. QED  BY <1>1, <1>4, <1>5, RowIs

\* A heading over an answer names the survey, the question and the option, and
\* the legend's line for it the latter two.
LEMMA ColumnIs ==
    ASSUME NEW when \in When, NEW k \in Kind, NEW q, List(q.options),
           NEW c \in ColumnsOf(when, k, q)
    PROVE  /\ c # Empty /\ c[1] = when /\ c[2] = k /\ c[3] = q.id
           /\ Tail(c) \in Cells(LegendOf(k, q))
<1>1. Cells(LegendOf(k, q)) = {<<k, q.id>>} \union {<<k, q.id, m>> : m \in DOMAIN q.options}
  BY LegendOfIs
<1>2. CASE k = "simple"
  <2>1. c = <<when, k, q.id>>
    BY <1>2 DEF ColumnsOf
  <2>2. c # <<>> /\ c[1] = when /\ c[2] = k /\ c[3] = q.id /\ Tail(c) = <<k, q.id>>
    BY <2>1
  <2>. QED  BY <2>2, <1>1 DEF Empty
<1>3. CASE k # "simple"
  <2>1. PICK m \in DOMAIN q.options : c = <<when, k, q.id, m>>
    BY <1>3 DEF ColumnsOf
  <2>2. c # <<>> /\ c[1] = when /\ c[2] = k /\ c[3] = q.id /\ Tail(c) = <<k, q.id, m>>
    BY <2>1
  <2>. QED  BY <2>2, <1>1 DEF Empty
<1>. QED  BY <1>2, <1>3

\* The headings over answers are those of the questions of both surveys.
LEMMA HeaderIs ==
    ASSUME NEW e \in Experiment
    PROVE  /\ \A c \in Cells(Header[e]) : c # Empty /\ c[1] \in When =>
                \E w \in When : \E k \in Kind : \E n \in DOMAIN QuestionsOf(e, w, k) :
                    c \in ColumnsOf(w, k, QuestionsOf(e, w, k)[n])
           /\ \A w \in When : \A k \in Kind : \A n \in DOMAIN QuestionsOf(e, w, k) :
                ColumnsOf(w, k, QuestionsOf(e, w, k)[n]) \subseteq Cells(Header[e])
<1>. DEFINE X == ExperimentHeader
            R == <<<<"report">>>>
            SB == SurveyHeader("before", e)
            SA == SurveyHeader("after", e)
            E == <<<<"exhibit">>>>
            AH == ActionsHeader("action", ExperimentOf[e].actions)
            BH == ActionsHeader("break action", ExperimentOf[e].breakActions)
            I == <<<<"is break">>>>
<1>1. Header[e] = X \o (R \o SB \o SA) \o (E \o AH \o BH \o I)
  BY DEF Header, ReportHeader, HistoryHeader
<1>2. /\ List(X) /\ Cells(X) = {<<"experiment">>} /\ List(R) /\ Cells(R) = {<<"report">>}
      /\ List(E) /\ Cells(E) = {<<"exhibit">>} /\ List(I) /\ Cells(I) = {<<"is break">>}
  BY PlainHeader DEF ExperimentHeader
<1>3. "before" \in When /\ "after" \in When /\ \A w \in When : w = "before" \/ w = "after"
  BY DEF When
<1>4. List(SB) /\ List(SA)
  BY <1>3, SurveyHeaderIs
<1>5. /\ List(AH) /\ \A c \in Cells(AH) : c = Empty \/ c[1] = "action"
      /\ List(BH) /\ \A c \in Cells(BH) : c = Empty \/ c[1] = "break action"
  BY TablesAssumption, ActionsHeaderIs
<1>6. \A w \in When : Cells(SurveyHeader(w, e)) = Cells(SB) \/ Cells(SurveyHeader(w, e)) = Cells(SA)
  BY <1>3
<1>7. \A w \in When : w \notin {"experiment", "report", "exhibit", "action", "break action", "is break"}
  BY DEF When
<1>. HIDE DEF X, R, SB, SA, E, AH, BH, I
<1>8. List(R \o SB \o SA) /\ Cells(R \o SB \o SA) = Cells(R) \union Cells(SB) \union Cells(SA)
  <2>1. List(R \o SB) /\ Cells(R \o SB) = Cells(R) \union Cells(SB)
    BY <1>2, <1>4, JoinedCells
  <2>. QED  BY <2>1, <1>4, JoinedCells
<1>9. List(E \o AH \o BH \o I)
      /\ Cells(E \o AH \o BH \o I) = Cells(E) \union Cells(AH) \union Cells(BH) \union Cells(I)
  <2>1. List(E \o AH) /\ Cells(E \o AH) = Cells(E) \union Cells(AH)
    BY <1>2, <1>5, JoinedCells
  <2>2. List(E \o AH \o BH) /\ Cells(E \o AH \o BH) = Cells(E) \union Cells(AH) \union Cells(BH)
    BY <2>1, <1>5, JoinedCells
  <2>. DEFINE W == E \o AH \o BH
  <2>3. List(W) /\ Cells(W) = Cells(E) \union Cells(AH) \union Cells(BH)
    BY <2>2
  <2>. HIDE DEF W
  <2>4. List(W \o I) /\ Cells(W \o I) = Cells(W) \union Cells(I)
    BY <2>3, <1>2, JoinedCells
  <2>. QED  BY <2>3, <2>4 DEF W
<1>10. Cells(Header[e]) = Cells(X) \union (Cells(R) \union Cells(SB) \union Cells(SA))
                            \union (Cells(E) \union Cells(AH) \union Cells(BH) \union Cells(I))
  <2>. DEFINE Y == R \o SB \o SA
              Z == E \o AH \o BH \o I
  <2>1. Header[e] = X \o Y \o Z
    BY <1>1
  <2>2. /\ List(Y) /\ Cells(Y) = Cells(R) \union Cells(SB) \union Cells(SA)
        /\ List(Z) /\ Cells(Z) = Cells(E) \union Cells(AH) \union Cells(BH) \union Cells(I)
    BY <1>8, <1>9
  <2>. HIDE DEF Y, Z
  <2>3. List(X \o Y) /\ Cells(X \o Y) = Cells(X) \union Cells(Y)
    BY <1>2, <2>2, JoinedCells
  <2>4. Cells(X \o Y \o Z) = Cells(X) \union Cells(Y) \union Cells(Z)
    BY <2>2, <2>3, JoinedCells
  <2>. QED  BY <2>1, <2>2, <2>4
<1>11. ASSUME NEW c \in Cells(Header[e]), c # Empty, c[1] \in When
       PROVE  c \in Cells(SB) \union Cells(SA)
  <2>1. c \notin Cells(X) \union Cells(R) \union Cells(E) \union Cells(I)
    <3>1. /\ c # <<"experiment">> /\ c # <<"report">> /\ c # <<"exhibit">> /\ c # <<"is break">>
      <4>1. c[1] # "experiment" /\ c[1] # "report" /\ c[1] # "exhibit" /\ c[1] # "is break"
        BY <1>7, <1>11
      <4>2. /\ <<"experiment">>[1] = "experiment" /\ <<"report">>[1] = "report"
            /\ <<"exhibit">>[1] = "exhibit" /\ <<"is break">>[1] = "is break"
        OBVIOUS
      <4>. QED  BY <4>1, <4>2
    <3>. QED  BY <3>1, <1>2
  <2>2. c \notin Cells(AH) \union Cells(BH)
    BY <1>5, <1>7, <1>11
  <2>. QED  BY <2>1, <2>2, <1>10
<1>12. ASSUME NEW c \in Cells(Header[e]), c # Empty, c[1] \in When
       PROVE  \E w \in When : \E k \in Kind : \E n \in DOMAIN QuestionsOf(e, w, k) :
                c \in ColumnsOf(w, k, QuestionsOf(e, w, k)[n])
  <2>1. \E w \in When : c \in Cells(SurveyHeader(w, e))
    BY <1>3, <1>11, <1>12 DEF SB, SA
  <2>. QED  BY <2>1, <1>12, SurveyHeaderIs
<1>13. ASSUME NEW w \in When, NEW k \in Kind, NEW n \in DOMAIN QuestionsOf(e, w, k)
       PROVE  ColumnsOf(w, k, QuestionsOf(e, w, k)[n]) \subseteq Cells(Header[e])
  <2>1. ColumnsOf(w, k, QuestionsOf(e, w, k)[n]) \subseteq Cells(SurveyHeader(w, e))
    BY SurveyHeaderIs
  <2>. QED  BY <2>1, <1>6, <1>10
<1>. QED  BY <1>12, <1>13

\* The legend has all lines of the three kinds, and a line of a kind no more
\* often than the lines of that kind have it.
LEMMA LegendIs ==
    ASSUME NEW e \in Experiment
    PROVE  /\ \A l : l \in Cells(Legend[e]) <=> \E k \in Kind : l \in Cells(LegendOfKind(k, e))
           /\ \A k \in Kind : \A x \in Cells(LegendOfKind(k, e)) :
                Single(LegendOfKind(k, e), x) => Single(Legend[e], x)
<1>. DEFINE A == LegendOfKind("simple", e)
            B == LegendOfKind("multi", e)
            C == LegendOfKind("sort", e)
<1>1. Legend[e] = A \o B \o C
  BY DEF Legend
<1>2. \A k : k \in Kind <=> k \in {"simple", "multi", "sort"}
  BY DEF Kind
<1>3. /\ List(A) /\ \A x \in Cells(A) : x[1] = "simple"
      /\ List(B) /\ \A x \in Cells(B) : x[1] = "multi"
      /\ List(C) /\ \A x \in Cells(C) : x[1] = "sort"
  BY <1>2, LegendOfKindIs
<1>4. \A k \in Kind : LegendOfKind(k, e) = A \/ LegendOfKind(k, e) = B \/ LegendOfKind(k, e) = C
  BY <1>2
<1>5. ASSUME NEW l, \E k \in Kind : l \in Cells(LegendOfKind(k, e))
      PROVE  l \in Cells(A) \union Cells(B) \union Cells(C)
  BY <1>4, <1>5
<1>6. ASSUME NEW l, l \in Cells(A) \union Cells(B) \union Cells(C)
      PROVE  \E k \in Kind : l \in Cells(LegendOfKind(k, e))
  BY <1>2, <1>6
<1>. HIDE DEF A, B, C
<1>7. List(A \o B) /\ Cells(A \o B) = Cells(A) \union Cells(B)
  BY <1>3, JoinedCells
<1>8. Cells(A \o B \o C) = Cells(A) \union Cells(B) \union Cells(C)
  BY <1>3, <1>7, JoinedCells
<1>9. ASSUME NEW x \in Cells(A) PROVE Single(A, x) => Single(A \o B \o C, x)
  <2>1. x \notin Cells(B) /\ x \notin Cells(C)
    BY <1>3
  <2>2. Single(A, x) => Single(A \o B, x)
    BY <2>1, <1>3, JoinedSingle
  <2>. QED  BY <2>1, <2>2, <1>3, <1>7, JoinedSingle
<1>10. ASSUME NEW x \in Cells(B) PROVE Single(B, x) => Single(A \o B \o C, x)
  <2>1. x \notin Cells(A) /\ x \notin Cells(C)
    BY <1>3
  <2>2. Single(B, x) => Single(A \o B, x)
    BY <2>1, <1>3, JoinedSingle
  <2>. QED  BY <2>1, <2>2, <1>3, <1>7, JoinedSingle
<1>11. ASSUME NEW x \in Cells(C) PROVE Single(C, x) => Single(A \o B \o C, x)
  <2>1. x \notin Cells(A \o B)
    BY <1>3, <1>7
  <2>. QED  BY <2>1, <1>3, <1>7, JoinedSingle
<1>12. \A l : l \in Cells(Legend[e]) <=> \E k \in Kind : l \in Cells(LegendOfKind(k, e))
  BY <1>1, <1>5, <1>6, <1>8
<1>13. ASSUME NEW k \in Kind, NEW x \in Cells(LegendOfKind(k, e)), Single(LegendOfKind(k, e), x)
       PROVE  Single(Legend[e], x)
  BY <1>1, <1>4, <1>9, <1>10, <1>11, <1>13
<1>. QED  BY <1>12, <1>13

\* The legend of every experiment explains what its headings name, once unless
\* the survey before the visit asks it twice, and nothing else.
LEMMA EveryLegendExplains ==
    ASSUME NEW e \in Experiment
    PROVE  Explained[e]
<1>. DEFINE columns == {c \in Cells(Header[e]) : c # Empty /\ c[1] \in When}
            lines == Cells(Legend[e])
<1>1. ASSUME NEW c \in columns
      PROVE  \E w \in When : \E k \in Kind : \E n \in DOMAIN QuestionsOf(e, w, k) :
                LET q == QuestionsOf(e, w, k)[n]
                IN  /\ c[2] = k /\ c[3] = q.id /\ Tail(c) \in Cells(LegendOf(k, q))
  <2>1. PICK w \in When : \E k \in Kind : \E n \in DOMAIN QuestionsOf(e, w, k) :
            c \in ColumnsOf(w, k, QuestionsOf(e, w, k)[n])
    BY HeaderIs
  <2>2. PICK k \in Kind : \E n \in DOMAIN QuestionsOf(e, w, k) :
            c \in ColumnsOf(w, k, QuestionsOf(e, w, k)[n])
    BY <2>1
  <2>3. PICK n \in DOMAIN QuestionsOf(e, w, k) : c \in ColumnsOf(w, k, QuestionsOf(e, w, k)[n])
    BY <2>2
  <2>4. List(QuestionsOf(e, w, k)[n].options)
    BY SurveyIs DEF QuestionsOf
  <2>5. c[2] = k /\ c[3] = QuestionsOf(e, w, k)[n].id /\ Tail(c) \in Cells(LegendOf(k, QuestionsOf(e, w, k)[n]))
    BY <2>3, <2>4, ColumnIs
  <2>. QED  BY <2>5
<1>2. ASSUME NEW c \in columns
      PROVE  Count(Legend[e], Tail(c)) = 1 \/ AskedTwice(e, c[2], c[3])
  <2>1. PICK w \in When : \E k \in Kind : \E n \in DOMAIN QuestionsOf(e, w, k) :
                LET q == QuestionsOf(e, w, k)[n]
                IN  /\ c[2] = k /\ c[3] = q.id /\ Tail(c) \in Cells(LegendOf(k, q))
    BY <1>1
  <2>2. PICK k \in Kind : \E n \in DOMAIN QuestionsOf(e, w, k) :
                LET q == QuestionsOf(e, w, k)[n]
                IN  /\ c[2] = k /\ c[3] = q.id /\ Tail(c) \in Cells(LegendOf(k, q))
    BY <2>1
  <2>3. Single(LegendOfKind(k, e), Tail(c)) \/ AskedTwice(e, k, c[3])
    <3>1. PICK n \in DOMAIN QuestionsOf(e, w, k) :
            /\ c[3] = QuestionsOf(e, w, k)[n].id
            /\ Tail(c) \in Cells(LegendOf(k, QuestionsOf(e, w, k)[n]))
      BY <2>2
    <3>. DEFINE q == QuestionsOf(e, w, k)[n]
    <3>2. \A x \in Cells(LegendOf(k, q)) : Single(LegendOfKind(k, e), x) \/ AskedTwice(e, k, q.id)
      BY LegendOfKindIs
    <3>. QED  BY <3>1, <3>2
  <2>4. CASE Single(LegendOfKind(k, e), Tail(c))
    <3>1. Tail(c) \in Cells(LegendOfKind(k, e))
      BY <2>4 DEF Single, Cells
    <3>. QED  BY <3>1, <2>4, LegendIs, SingleCount
  <2>. QED  BY <2>2, <2>3, <2>4
<1>3. ASSUME NEW c \in columns
      PROVE  \E l \in lines : <<l[1], l[2]>> = <<c[2], c[3]>>
  <2>1. PICK w \in When : \E k \in Kind : \E n \in DOMAIN QuestionsOf(e, w, k) :
                c[2] = k /\ c[3] = QuestionsOf(e, w, k)[n].id
    BY <1>1
  <2>2. PICK k \in Kind : \E n \in DOMAIN QuestionsOf(e, w, k) :
                c[2] = k /\ c[3] = QuestionsOf(e, w, k)[n].id
    BY <2>1
  <2>3. <<k, c[3]>> \in Cells(LegendOfKind(k, e))
    BY <2>2, LegendOfKindIs
  <2>4. <<k, c[3]>> \in lines
    BY <2>3, LegendIs
  <2>5. <<k, c[3]>>[1] = k /\ <<k, c[3]>>[2] = c[3]
    OBVIOUS
  <2>. QED  BY <2>2, <2>4, <2>5
<1>4. ASSUME NEW l \in lines
      PROVE  \E c \in columns : <<l[1], l[2]>> = <<c[2], c[3]>>
  <2>1. PICK k \in Kind : l \in Cells(LegendOfKind(k, e))
    BY LegendIs
  <2>2. l[1] = k
    BY <2>1, LegendOfKindIs
  <2>3. PICK w \in When : \E n \in DOMAIN QuestionsOf(e, w, k) : l[2] = QuestionsOf(e, w, k)[n].id
    BY <2>1, LegendOfKindIs
  <2>4. PICK n \in DOMAIN QuestionsOf(e, w, k) : l[2] = QuestionsOf(e, w, k)[n].id
    BY <2>3
  <2>5. PICK c : c \in ColumnsOf(w, k, QuestionsOf(e, w, k)[n])
    BY QuestionColumns
  <2>6. List(QuestionsOf(e, w, k)[n].options)
    BY SurveyIs DEF QuestionsOf
  <2>7. c # Empty /\ c[1] = w /\ c[2] = k /\ c[3] = l[2]
    BY <2>4, <2>5, <2>6, ColumnIs
  <2>8. c \in Cells(Header[e])
    BY <2>5, HeaderIs
  <2>. QED  BY <2>2, <2>7, <2>8
<1>. HIDE DEF columns, lines
<1>5. {<<l[1], l[2]>> : l \in lines} = {<<c[2], c[3]>> : c \in columns}
  <2>1. \A c \in columns : \E l \in lines : <<l[1], l[2]>> = <<c[2], c[3]>>
    BY <1>3
  <2>2. \A l \in lines : \E c \in columns : <<l[1], l[2]>> = <<c[2], c[3]>>
    BY <1>4
  <2>. QED  BY <2>1, <2>2
<1>. QED  BY <1>2, <1>5 DEF Explained, columns, lines

-----------------------------------------------------------------------------
(* The theorems *)

\* The invariant holds of every state that is reached.
THEOREM ExcelInvariant == Spec => []ExcelInv
<1>1. Init => ExcelInv
  <2> SUFFICES ASSUME Init PROVE ExcelInv
    OBVIOUS
  <2>1. TypeOK
    BY ExcelAssumption DEF Init, TypeOK, NoProc
  <2>2. LockHeld /\ ProcRight /\ CsvOwned
    BY ExcelAssumption DEF Init, LockHeld, InMutex, ProcRight, Asked, CsvOwned
  <2>3. ZipsRight /\ Met /\ Fresh /\ NoLeftovers
    BY DEF Init, ZipsRight, Met, Asked, InMutex, Fresh, WithFile, NoLeftovers
  <2>4. QED
    BY <2>1, <2>2, <2>3 DEF ExcelInv
<1>2. ExcelInv /\ [Next]_vars => ExcelInv'
  <2>1. CASE Next
    BY <2>1, TypePreserved, LockPreserved, ProcPreserved, CsvPreserved, ZipsPreserved, MetPreserved,
       FreshPreserved, NoLeftoversPreserved DEF ExcelInv
  <2>2. CASE UNCHANGED vars
    BY <2>2 DEF ExcelInv, TypeOK, LockHeld, ProcRight, CsvOwned, ZipsRight, Met, Fresh, NoLeftovers,
                Path, PathForExcelZip, vars, dbVars, csvVars, webVars, historyVars
  <2>3. QED
    BY <2>1, <2>2
<1>3. QED
  BY <1>1, <1>2, PTL DEF Spec

\* Whatever requests run together, for any experiments and reports, whoever
\* stops, and although the csv files of all have the same names, a user is given
\* the whole of what was asked for and nothing of another experiment.
THEOREM DownloadsRight == Spec => []DownloadIsWhatWasAsked
<1>1. ExcelInv => DownloadIsWhatWasAsked
  BY DEF ExcelInv, ZipsRight, DownloadIsWhatWasAsked
<1>2. QED
  BY <1>1, ExcelInvariant, PTL

\* A download is as the request's own transaction saw the tables, unless another
\* one for the same file was under way or zip failed over a file nobody fetched.
THEOREM DownloadsFresh == Spec => []FreshUnlessShared
<1>1. ExcelInv => FreshUnlessShared
  BY DEF ExcelInv, ZipsRight, Fresh, WithFile, FreshUnlessShared
<1>2. QED
  BY <1>1, ExcelInvariant, PTL

\* Every zip has a request that will remove it, unless somebody stopped.
THEOREM NothingLeft == Spec => []NoLeftovers
BY ExcelInvariant, PTL DEF ExcelInv

\* In whatever a request has written, for any surveys, lists of actions and
\* reports, each row has under each heading the cell that heading promises, and
\* the legend explains each question and option once unless the survey before
\* the visit asks it twice.
THEOREM TablesAlwaysRight == Spec => []TablesRight
<1>1. ExcelInv => TablesRight
  <2>. SUFFICES ASSUME ExcelInv PROVE TablesRight
    OBVIOUS
  <2>1. dane # NoFile => dane.reports \subseteq Report
    BY DEF ExcelInv, TypeOK, Dane
  <2>2. legenda # NoFile => legenda.experiment \in Experiment
    BY DEF ExcelInv, TypeOK, Legenda
  <2>. QED  BY <2>1, <2>2, EveryRowAligned, EveryLegendExplains DEF TablesRight
<1>. QED  BY <1>1, ExcelInvariant, PTL

=============================================================================
