--------------------------- MODULE RaportsProofs ---------------------------
(***************************************************************************)
(* Delivery of the raports: that ids are never shared, that what the       *)
(* tablet takes for sent is on the server, that it is there once, that     *)
(* what is ready is kept until then, and why it may be stuck, for any      *)
(* number of visits, loadings, kills and ids.                              *)
(***************************************************************************)
EXTENDS Raports, FiniteSetTheorems, TLAPS

\* An object belongs to a raport; no object to none.
LEMMA ObjOfRaport ==
    /\ \A o \in Obj : o[1] \in Raport
    /\ \A r \in Raport : Own(r) \in Obj /\ Own(r)[1] = r
    /\ NoObj \notin Obj /\ NoObj[1] = NoRaport
BY RaportAssumption DEF Obj, Own, NoObj

\* What a loading puts into the queue, and what it leaves there.
LEMMA LoadedQueue ==
    ASSUME TypeOK, NEW k \in 1 .. MaxLoads,
           NEW q \in [Obj -> ServerID \union {NoId, NotQueued}]
    PROVE  /\ LoadInto(q, k) \in [Obj -> ServerID \union {NoId, NotQueued}]
           /\ Loaded(k) \subseteq Obj /\ LoadedPartial(k) \subseteq Obj
           /\ \A o \in Obj :
                LoadInto(q, k)[o] = IF o \in Loaded(k) THEN rowId[o[1]] ELSE q[o]
           /\ \A o \in Loaded(k) : o = <<o[1], k>> /\ row[o[1]] = "ready_to_send"
<1>1. Loaded(k) \subseteq Obj /\ LoadedPartial(k) \subseteq Loaded(k)
  BY RaportAssumption DEF Loaded, LoadedPartial, Obj
<1>2. \A o \in Loaded(k) : o = <<o[1], k>> /\ row[o[1]] = "ready_to_send"
  BY DEF Loaded
<1>3. \A o \in Obj : o[1] \in Raport
  BY ObjOfRaport
<1>4. QED
  BY <1>1, <1>2, <1>3 DEF LoadInto, TypeOK

\* Loading again adds objects of ready rows, under the ids in Realm.
LEMMA QueueReloaded ==
    ASSUME TypeOK, Reload
    PROVE  /\ queue' \in [Obj -> ServerID \union {NoId, NotQueued}]
           /\ partial' \subseteq Obj
           /\ \A o \in partial' \ partial : o \in Loaded(loads') /\ file[o[1]] = "partial"
           /\ \A o \in Obj :
                \/ queue'[o] = queue[o]
                \/ o \in Loaded(loads') /\ queue'[o] = rowId[o[1]]
           /\ \A o \in Loaded(loads') : o = <<o[1], loads'>> /\ row[o[1]] = "ready_to_send"
<1>1. loads' \in 1 .. MaxLoads /\ queue \in [Obj -> ServerID \union {NoId, NotQueued}]
  BY RaportAssumption DEF Reload, TypeOK
<1>2. QED
  BY <1>1, LoadedQueue DEF Reload, TypeOK, LoadedPartial

\* A new process holds nothing else.
LEMMA QueueRestarted ==
    ASSUME TypeOK, Restart
    PROVE  /\ queue' \in [Obj -> ServerID \union {NoId, NotQueued}]
           /\ partial' \subseteq Obj
           /\ \A o \in partial' : o \in Loaded(1) /\ file[o[1]] = "partial"
           /\ \A o \in Obj :
                queue'[o] = IF o \in Loaded(1) THEN rowId[o[1]] ELSE NotQueued
           /\ \A o \in Loaded(1) : o = <<o[1], 1>> /\ row[o[1]] = "ready_to_send"
<1> DEFINE none == [o \in Obj |-> NotQueued]
<1>1. 1 \in 1 .. MaxLoads /\ none \in [Obj -> ServerID \union {NoId, NotQueued}]
  BY RaportAssumption
<1>2. queue' = LoadInto(none, 1) /\ partial' = LoadedPartial(1)
  BY DEF Restart
<1>3. QED
  BY <1>1, <1>2, LoadedQueue DEF LoadedPartial

-----------------------------------------------------------------------------
(* The invariant *)

Sends == {"reserve", "reserved", "send", "sent", "removed"}

\* What the executor's step says of the object it sends and of those to come.
Control ==
    /\ phase \in Sends <=> sending \in Obj
    /\ phase \in Sends \ {"reserve"} <=> sendId # NoId
    /\ phase \in {"idle", "starting"} => todo = {}
    /\ sending \notin todo
    /\ \A o \in todo : queue[o] # NotQueued
    /\ phase \in {"reserve", "reserved"} => queue[sending] = NoId
    /\ phase = "send" => queue[sending] = sendId
    /\ phase = "starting" \/ ending # "no" => visit \in Raport
    /\ phase = "starting" => ending = "no"
    /\ schedule = "ended" => phase \in {"idle", "starting"}

\* A raport that is not queued yet has no server id anywhere.
NotYetQueued(r) == row[r] = "none" \/ (visit = r /\ ending # "queued")

Fresh ==
    \A r \in Raport : NotYetQueued(r) =>
        /\ rowId[r] = NoId
        /\ sending[1] # r
        /\ \A o \in Obj : o[1] = r => queue[o] = NotQueued
        /\ \A i \in ServerID : stored[i] # r
        /\ visit = r => row[r] = IF phase = "starting" THEN "none" ELSE "in_progress"

\* The raport is, or may be, sent or stored under the id.
Has(r, i) ==
    \/ rowId[r] = i
    \/ \E o \in Obj : o[1] = r /\ queue[o] = i
    \/ sending[1] = r /\ sendId = i
    \/ stored[i] = r

\* Ids are taken from the server's counter, each by one raport.
Issued == \A r \in Raport, i \in ServerID : Has(r, i) => i <= lastReportID

Distinct == \A r, s \in Raport, i \in ServerID : Has(r, i) /\ Has(s, i) => r = s

\* What is counted as sent, or about to be, is stored.
SentStored ==
    /\ SentMeansReceived
    /\ phase \in {"sent", "removed"} => Received(sending[1])

\* A raport that was not loaded twice is queued once, under the id in Realm,
\* and known by no other id than the one just reserved for it, or one that was
\* left in memory when the upload ended and that nothing will be sent under.
Single(r) ==
    /\ \A o, p \in Obj :
         o[1] = r /\ p[1] = r /\ queue[o] # NotQueued /\ queue[p] # NotQueued => o = p
    /\ \A o \in Obj : o[1] = r /\ queue[o] # NotQueued => queue[o] = rowId[r] \/ schedule = "ended"
    /\ \A i \in ServerID : Has(r, i) =>
         \/ rowId[r] = i
         \/ phase = "reserved" /\ sending[1] = r /\ sendId = i /\ stored[i] # r
         \/ schedule = "ended" /\ stored[i] # r

SingleUnlessTwice == \A r \in Raport : r \notin twice => Single(r)

RaportInv == TypeOK /\ Control /\ Fresh /\ Issued /\ Distinct /\ SentStored /\ SingleUnlessTwice

\* What is known of a raport in this process: it is ready from the end of its
\* visit, and its own object stays queued until it is sent.
LiveOf(r) ==
    /\ live[r] = "in_progress" => visit = r /\ ending = "no"
    /\ visit = r => live[r] # "none" /\ (ending # "no" => live[r] \in {"ready", "sent"})
    /\ live[r] = "ready" => queue[Own(r)] # NotQueued \/ (visit = r /\ ending = "marked")
    /\ saver[r] # "off" => live[r] # "none"

\* Objects are numbered by their loading; the visits' own are whole.
Numbered ==
    /\ \A o \in Obj : queue[o] # NotQueued => o[2] <= loads
    /\ \A o \in partial : o[2] # 0

Lives == Numbered /\ \A r \in Raport : LiveOf(r)

\* A saver stops after its last save, or on seeing that the raport was sent.
LastSaved ==
    \A r \in Raport :
        (live[r] # "none" \/ row[r] = "ready_to_send") /\ saver[r] = "off" /\ r \notin cut =>
            file[r] = "complete" \/ Received(r)

\* A raport of an earlier process was loaded whole, or had been sent.
LoadedWhole ==
    \A r \in Raport :
        row[r] = "ready_to_send" /\ live[r] = "none" /\ r \notin cut =>
            \/ Received(r)
            \/ \E o \in Obj : o[1] = r /\ queue[o] # NotQueued /\ o \notin partial

\* Of what is ready nothing is lost, and what is stuck has a reason.
KeptInv == Lives /\ LastSaved /\ LoadedWhole /\ StuckExplained

-----------------------------------------------------------------------------
(* Every step keeps its parts *)

\* The types.
LEMMA TypePreserved ==
    ASSUME TypeOK, Control, Next
    PROVE  TypeOK'
<1>1. ASSUME NEW v \in Raport, StartNewRaport(v) PROVE TypeOK'
  BY <1>1, RaportAssumption, ObjOfRaport DEF StartNewRaport, diskVars,
     queueVars, serverVars, processVars, TypeOK, Control, Sends, ServerID
<1>2. ASSUME NEW v \in Raport, SaverStep(v) PROVE TypeOK'
  <2>1. CASE WakeSaver(v)
    BY <1>2, <2>1 DEF WakeSaver, diskVars, queueVars, taskVars, serverVars, processVars, TypeOK
  <2>2. CASE DeleteOldFile(v)
    BY <1>2, <2>2 DEF DeleteOldFile, queueVars, taskVars, serverVars, processVars, TypeOK
  <2>3. CASE RenameFile(v)
    BY <1>2, <2>3 DEF RenameFile, SavedAs, queueVars, taskVars, serverVars, processVars, TypeOK
  <2>4. QED
    BY <1>2, <2>1, <2>2, <2>3 DEF SaverStep
<1>3. CASE SetRaportFile
  BY <1>3, RaportAssumption, ObjOfRaport DEF SetRaportFile, visitVars,
     queueVars, serverVars, processVars, TypeOK, Control, Sends, ServerID
<1>4. CASE MarkAsReady
  BY <1>4, RaportAssumption, ObjOfRaport DEF MarkAsReady, diskVars, queueVars,
     taskVars, serverVars, processVars, TypeOK, Control, Sends, ServerID
<1>5. CASE AddNewReadyRaport
  BY <1>5, RaportAssumption, ObjOfRaport DEF AddNewReadyRaport, Own, diskVars,
     taskVars, serverVars, processVars, TypeOK, Control, Sends, ServerID
<1>6. CASE SetReadyInRealm
  BY <1>6, RaportAssumption, ObjOfRaport DEF SetReadyInRealm, queueVars,
     taskVars, serverVars, processVars, TypeOK, Control, Sends, ServerID
<1>7. CASE StartUpload
  BY <1>7, RaportAssumption, ObjOfRaport DEF StartUpload, diskVars, visitVars,
     queueVars, serverVars, processVars, TypeOK, Control, Sends, ServerID
<1>8. ASSUME NEW o \in Obj, NextRaport(o) PROVE TypeOK'
  BY <1>8, RaportAssumption, ObjOfRaport DEF NextRaport, diskVars, visitVars,
     queueVars, serverVars, processVars, TypeOK, Control, Sends, ServerID
<1>9. CASE AllSent
  BY <1>9, RaportAssumption, ObjOfRaport DEF AllSent, EndUpload, NoObj,
     diskVars, visitVars, queueVars, serverVars, processVars, TypeOK, Control,
     Sends, ServerID
<1>10. CASE ReserveID
  BY <1>10, RaportAssumption, ObjOfRaport DEF ReserveID, diskVars, visitVars,
     queueVars, processVars, TypeOK, Control, Sends, ServerID
<1>11. CASE SetServerId
  BY <1>11, RaportAssumption, ObjOfRaport DEF SetServerId, visitVars,
     serverVars, processVars, TypeOK, Control, Sends, ServerID
<1>12. CASE SaveAnswered
  BY <1>12, RaportAssumption, ObjOfRaport DEF SaveAnswered, SaveReport,
     diskVars, visitVars, queueVars, processVars, TypeOK, Control, Sends,
     ServerID
<1>13. CASE SaveUnanswered
  BY <1>13, RaportAssumption, ObjOfRaport DEF SaveUnanswered, SaveReport,
     EndUpload, NoObj, diskVars, visitVars, queueVars, processVars, TypeOK,
     Control, Sends, ServerID
<1>14. CASE FailUpload
  BY <1>14, RaportAssumption, ObjOfRaport DEF FailUpload, EndUpload, NoObj,
     diskVars, visitVars, queueVars, serverVars, processVars, TypeOK, Control,
     Sends, ServerID
<1>15. CASE MarkAsSent
  BY <1>15, RaportAssumption, ObjOfRaport DEF MarkAsSent, Own, diskVars,
     serverVars, processVars, TypeOK, Control, Sends, ServerID
<1>16. CASE SetSentInRealm
  BY <1>16, RaportAssumption, ObjOfRaport DEF SetSentInRealm, NoObj, visitVars,
     queueVars, serverVars, processVars, TypeOK, Control, Sends, ServerID
<1>17. CASE Reload
  BY <1>17, RaportAssumption, ObjOfRaport, QueueReloaded DEF Reload, diskVars,
     visitVars, taskVars, serverVars, TypeOK, Control, Sends, ServerID
<1>18. CASE Restart
  BY <1>18, RaportAssumption, ObjOfRaport, QueueRestarted DEF Restart,
     EndUpload, NoObj, diskVars, serverVars, TypeOK, Control, Sends, ServerID
<1>19. CASE FinishExperiment
  BY <1>19, RaportAssumption, ObjOfRaport DEF FinishExperiment, diskVars,
     visitVars, queueVars, taskVars, processVars, TypeOK, Control, Sends,
     ServerID
<1>20. CASE RealmThrows
  BY <1>20, RaportAssumption, ObjOfRaport DEF RealmThrows, EndUpload, NoObj,
     diskVars, visitVars, serverVars, TypeOK, Control, Sends,
     ServerID
<1>21. QED
  BY <1>1, <1>2, <1>3, <1>4, <1>5, <1>6, <1>7, <1>8, <1>9, <1>10, <1>11, <1>12,
     <1>13, <1>14, <1>15, <1>16, <1>17, <1>18, <1>19, <1>20 DEF Next, UiStep,
     UploadStep, Exchange

\* The executor knows what it is sending.  The UI thread puts a new object into
\* the queue meanwhile, but never the one being sent.
LEMMA ControlPreserved ==
    ASSUME TypeOK, Control, Fresh, Next
    PROVE  Control'
<1>1. ASSUME NEW v \in Raport, StartNewRaport(v) PROVE Control'
  BY <1>1, RaportAssumption, ObjOfRaport DEF StartNewRaport, diskVars,
     queueVars, serverVars, processVars, TypeOK, Control, Fresh, NotYetQueued,
     Sends
<1>2. ASSUME NEW v \in Raport, SaverStep(v) PROVE Control'
  BY <1>2, RaportAssumption, ObjOfRaport DEF SaverStep, WakeSaver,
     DeleteOldFile, RenameFile, SavedAs, diskVars, queueVars, taskVars,
     serverVars, processVars, TypeOK, Control, Fresh, NotYetQueued, Sends
<1>3. CASE SetRaportFile
  BY <1>3, RaportAssumption, ObjOfRaport DEF SetRaportFile, visitVars,
     queueVars, serverVars, processVars, TypeOK, Control, Fresh, NotYetQueued,
     Sends
<1>4. CASE MarkAsReady
  BY <1>4, RaportAssumption, ObjOfRaport DEF MarkAsReady, diskVars, queueVars,
     taskVars, serverVars, processVars, TypeOK, Control, Fresh, NotYetQueued,
     Sends
<1>5. CASE AddNewReadyRaport
  BY <1>5, RaportAssumption, ObjOfRaport DEF AddNewReadyRaport, Own, diskVars,
     taskVars, serverVars, processVars, TypeOK, Control, Fresh, NotYetQueued,
     Sends
<1>6. CASE SetReadyInRealm
  BY <1>6, RaportAssumption, ObjOfRaport DEF SetReadyInRealm, queueVars,
     taskVars, serverVars, processVars, TypeOK, Control, Fresh, NotYetQueued,
     Sends
<1>7. CASE StartUpload
  BY <1>7, RaportAssumption, ObjOfRaport DEF StartUpload, diskVars, visitVars,
     queueVars, serverVars, processVars, TypeOK, Control, Fresh, NotYetQueued,
     Sends
<1>8. ASSUME NEW o \in Obj, NextRaport(o) PROVE Control'
  BY <1>8, RaportAssumption, ObjOfRaport DEF NextRaport, diskVars, visitVars,
     queueVars, serverVars, processVars, TypeOK, Control, Fresh, NotYetQueued,
     Sends
<1>9. CASE AllSent
  BY <1>9, RaportAssumption, ObjOfRaport DEF AllSent, EndUpload, NoObj,
     diskVars, visitVars, queueVars, serverVars, processVars, TypeOK, Control,
     Fresh, NotYetQueued, Sends
<1>10. CASE ReserveID
  BY <1>10, RaportAssumption, ObjOfRaport DEF ReserveID, diskVars, visitVars,
     queueVars, processVars, TypeOK, Control, Fresh, NotYetQueued, Sends
<1>11. CASE SetServerId
  BY <1>11, RaportAssumption, ObjOfRaport DEF SetServerId, visitVars,
     serverVars, processVars, TypeOK, Control, Fresh, NotYetQueued, Sends
<1>12. CASE SaveAnswered
  BY <1>12, RaportAssumption, ObjOfRaport DEF SaveAnswered, SaveReport,
     diskVars, visitVars, queueVars, processVars, TypeOK, Control, Fresh,
     NotYetQueued, Sends
<1>13. CASE SaveUnanswered
  BY <1>13, RaportAssumption, ObjOfRaport DEF SaveUnanswered, SaveReport,
     EndUpload, NoObj, diskVars, visitVars, queueVars, processVars, TypeOK,
     Control, Fresh, NotYetQueued, Sends
<1>14. CASE FailUpload
  BY <1>14, RaportAssumption, ObjOfRaport DEF FailUpload, EndUpload, NoObj,
     diskVars, visitVars, queueVars, serverVars, processVars, TypeOK, Control,
     Fresh, NotYetQueued, Sends
<1>15. CASE MarkAsSent
  BY <1>15, RaportAssumption, ObjOfRaport DEF MarkAsSent, Own, diskVars,
     serverVars, processVars, TypeOK, Control, Fresh, NotYetQueued, Sends
<1>16. CASE SetSentInRealm
  BY <1>16, RaportAssumption, ObjOfRaport DEF SetSentInRealm, NoObj, visitVars,
     queueVars, serverVars, processVars, TypeOK, Control, Fresh, NotYetQueued,
     Sends
<1>17. CASE Reload
  BY <1>17, RaportAssumption, ObjOfRaport, QueueReloaded DEF Reload, diskVars,
     visitVars, taskVars, serverVars, TypeOK, Control, Fresh, NotYetQueued,
     Sends
<1>18. CASE Restart
  BY <1>18, RaportAssumption, ObjOfRaport, QueueRestarted DEF Restart,
     EndUpload, NoObj, diskVars, serverVars, TypeOK, Control, Fresh,
     NotYetQueued, Sends
<1>19. CASE FinishExperiment
  BY <1>19, RaportAssumption, ObjOfRaport DEF FinishExperiment, diskVars,
     visitVars, queueVars, taskVars, processVars, TypeOK, Control, Fresh,
     NotYetQueued, Sends
<1>20. CASE RealmThrows
  BY <1>20, RaportAssumption, ObjOfRaport DEF RealmThrows, EndUpload, NoObj,
     diskVars, visitVars, serverVars, TypeOK, Control, Fresh,
     NotYetQueued, Sends
<1>21. QED
  BY <1>1, <1>2, <1>3, <1>4, <1>5, <1>6, <1>7, <1>8, <1>9, <1>10, <1>11, <1>12,
     <1>13, <1>14, <1>15, <1>16, <1>17, <1>18, <1>19, <1>20 DEF Next, UiStep,
     UploadStep, Exchange

\* Nothing is known of a raport by any id before its visit is over.
LEMMA FreshPreserved ==
    ASSUME TypeOK, Control, Fresh, Next
    PROVE  Fresh'
<1>1. ASSUME NEW v \in Raport, StartNewRaport(v) PROVE Fresh'
  BY <1>1, RaportAssumption, ObjOfRaport DEF StartNewRaport, diskVars,
     queueVars, serverVars, processVars, TypeOK, Control, Fresh, NotYetQueued,
     Sends
<1>2. ASSUME NEW v \in Raport, SaverStep(v) PROVE Fresh'
  BY <1>2, RaportAssumption, ObjOfRaport DEF SaverStep, WakeSaver,
     DeleteOldFile, RenameFile, SavedAs, diskVars, queueVars, taskVars,
     serverVars, processVars, TypeOK, Control, Fresh, NotYetQueued, Sends
<1>3. CASE SetRaportFile
  BY <1>3, RaportAssumption, ObjOfRaport DEF SetRaportFile, visitVars,
     queueVars, serverVars, processVars, TypeOK, Control, Fresh, NotYetQueued,
     Sends
<1>4. CASE MarkAsReady
  BY <1>4, RaportAssumption, ObjOfRaport DEF MarkAsReady, diskVars, queueVars,
     taskVars, serverVars, processVars, TypeOK, Control, Fresh, NotYetQueued,
     Sends
<1>5. CASE AddNewReadyRaport
  BY <1>5, RaportAssumption, ObjOfRaport DEF AddNewReadyRaport, Own, diskVars,
     taskVars, serverVars, processVars, TypeOK, Control, Fresh, NotYetQueued,
     Sends
<1>6. CASE SetReadyInRealm
  BY <1>6, RaportAssumption, ObjOfRaport DEF SetReadyInRealm, queueVars,
     taskVars, serverVars, processVars, TypeOK, Control, Fresh, NotYetQueued,
     Sends
<1>7. CASE StartUpload
  BY <1>7, RaportAssumption, ObjOfRaport DEF StartUpload, diskVars, visitVars,
     queueVars, serverVars, processVars, TypeOK, Control, Fresh, NotYetQueued,
     Sends
<1>8. ASSUME NEW o \in Obj, NextRaport(o) PROVE Fresh'
  BY <1>8, RaportAssumption, ObjOfRaport DEF NextRaport, diskVars, visitVars,
     queueVars, serverVars, processVars, TypeOK, Control, Fresh, NotYetQueued,
     Sends
<1>9. CASE AllSent
  BY <1>9, RaportAssumption, ObjOfRaport DEF AllSent, EndUpload, NoObj,
     diskVars, visitVars, queueVars, serverVars, processVars, TypeOK, Control,
     Fresh, NotYetQueued, Sends
<1>10. CASE ReserveID
  BY <1>10, RaportAssumption, ObjOfRaport DEF ReserveID, diskVars, visitVars,
     queueVars, processVars, TypeOK, Control, Fresh, NotYetQueued, Sends
<1>11. CASE SetServerId
  BY <1>11, RaportAssumption, ObjOfRaport DEF SetServerId, visitVars,
     serverVars, processVars, TypeOK, Control, Fresh, NotYetQueued, Sends
<1>12. CASE SaveAnswered
  BY <1>12, RaportAssumption, ObjOfRaport DEF SaveAnswered, SaveReport,
     diskVars, visitVars, queueVars, processVars, TypeOK, Control, Fresh,
     NotYetQueued, Sends
<1>13. CASE SaveUnanswered
  BY <1>13, RaportAssumption, ObjOfRaport DEF SaveUnanswered, SaveReport,
     EndUpload, NoObj, diskVars, visitVars, queueVars, processVars, TypeOK,
     Control, Fresh, NotYetQueued, Sends
<1>14. CASE FailUpload
  BY <1>14, RaportAssumption, ObjOfRaport DEF FailUpload, EndUpload, NoObj,
     diskVars, visitVars, queueVars, serverVars, processVars, TypeOK, Control,
     Fresh, NotYetQueued, Sends
<1>15. CASE MarkAsSent
  BY <1>15, RaportAssumption, ObjOfRaport DEF MarkAsSent, Own, diskVars,
     serverVars, processVars, TypeOK, Control, Fresh, NotYetQueued, Sends
<1>16. CASE SetSentInRealm
  BY <1>16, RaportAssumption, ObjOfRaport DEF SetSentInRealm, NoObj, visitVars,
     queueVars, serverVars, processVars, TypeOK, Control, Fresh, NotYetQueued,
     Sends
<1>17. CASE Reload
  BY <1>17, RaportAssumption, ObjOfRaport, QueueReloaded DEF Reload, diskVars,
     visitVars, taskVars, serverVars, TypeOK, Control, Fresh, NotYetQueued,
     Sends
<1>18. CASE Restart
  BY <1>18, RaportAssumption, ObjOfRaport, QueueRestarted DEF Restart,
     EndUpload, NoObj, diskVars, serverVars, TypeOK, Control, Fresh,
     NotYetQueued, Sends
<1>19. CASE FinishExperiment
  BY <1>19, RaportAssumption, ObjOfRaport DEF FinishExperiment, diskVars,
     visitVars, queueVars, taskVars, processVars, TypeOK, Control, Fresh,
     NotYetQueued, Sends
<1>20. CASE RealmThrows
  BY <1>20, RaportAssumption, ObjOfRaport DEF RealmThrows, EndUpload, NoObj,
     diskVars, visitVars, serverVars, TypeOK, Control, Fresh,
     NotYetQueued, Sends
<1>21. QED
  BY <1>1, <1>2, <1>3, <1>4, <1>5, <1>6, <1>7, <1>8, <1>9, <1>10, <1>11, <1>12,
     <1>13, <1>14, <1>15, <1>16, <1>17, <1>18, <1>19, <1>20 DEF Next, UiStep,
     UploadStep, Exchange

\* The only step after which a raport is known by an id that it was not known
\* by is the one that takes it from the server's counter.
LEMMA HasStep ==
    ASSUME TypeOK, Control, Next, NEW r \in Raport, NEW i \in ServerID, Has(r, i)'
    PROVE  Has(r, i) \/ (ReserveID /\ sending[1] = r /\ i = lastReportID + 1)
<1>1. CASE UNCHANGED <<rowId, queue, sending, sendId, stored>>
  BY <1>1 DEF TypeOK, Control, Has, Sends, ServerID
<1>2. CASE SetRaportFile
  BY <1>2, RaportAssumption, ObjOfRaport DEF SetRaportFile, visitVars,
     queueVars, serverVars, processVars, TypeOK, Control, Has, Sends, ServerID
<1>3. CASE AddNewReadyRaport
  BY <1>3, RaportAssumption, ObjOfRaport DEF AddNewReadyRaport, Own, diskVars,
     taskVars, serverVars, processVars, TypeOK, Control, Has, Sends, ServerID
<1>4. ASSUME NEW o \in Obj, NextRaport(o)
      PROVE  Has(r, i) \/ (ReserveID /\ sending[1] = r /\ i = lastReportID + 1)
  BY <1>4, RaportAssumption, ObjOfRaport DEF NextRaport, diskVars, visitVars,
     queueVars, serverVars, processVars, TypeOK, Control, Has, Sends, ServerID
<1>5. CASE AllSent
  BY <1>5, RaportAssumption, ObjOfRaport DEF AllSent, EndUpload, NoObj,
     diskVars, visitVars, queueVars, serverVars, processVars, TypeOK, Control,
     Has, Sends, ServerID
<1>6. CASE ReserveID
  BY <1>6, RaportAssumption, ObjOfRaport DEF ReserveID, diskVars, visitVars,
     queueVars, processVars, TypeOK, Control, Has, Sends, ServerID
<1>7. CASE SetServerId
  BY <1>7, RaportAssumption, ObjOfRaport DEF SetServerId, visitVars,
     serverVars, processVars, TypeOK, Control, Has, Sends, ServerID
<1>8. CASE SaveAnswered
  BY <1>8, RaportAssumption, ObjOfRaport DEF SaveAnswered, SaveReport,
     diskVars, visitVars, queueVars, processVars, TypeOK, Control, Has, Sends,
     ServerID
<1>9. CASE SaveUnanswered
  BY <1>9, RaportAssumption, ObjOfRaport DEF SaveUnanswered, SaveReport,
     EndUpload, NoObj, diskVars, visitVars, queueVars, processVars, TypeOK,
     Control, Has, Sends, ServerID
<1>10. CASE FailUpload
  BY <1>10, RaportAssumption, ObjOfRaport DEF FailUpload, EndUpload, NoObj,
     diskVars, visitVars, queueVars, serverVars, processVars, TypeOK, Control,
     Has, Sends, ServerID
<1>11. CASE MarkAsSent
  BY <1>11, RaportAssumption, ObjOfRaport DEF MarkAsSent, Own, diskVars,
     serverVars, processVars, TypeOK, Control, Has, Sends, ServerID
<1>12. CASE SetSentInRealm
  BY <1>12, RaportAssumption, ObjOfRaport DEF SetSentInRealm, NoObj, visitVars,
     queueVars, serverVars, processVars, TypeOK, Control, Has, Sends, ServerID
<1>13. CASE Reload
  BY <1>13, RaportAssumption, ObjOfRaport, QueueReloaded DEF Reload, diskVars,
     visitVars, taskVars, serverVars, TypeOK, Control, Has, Sends, ServerID
<1>14. CASE Restart
  <2>1. \A o \in Obj : queue'[o] \in {NotQueued, rowId[o[1]]}
    BY <1>14, QueueRestarted
  <2>2. NotQueued # i /\ sending'[1] # r
    BY <1>14, RaportAssumption DEF Restart, EndUpload, NoObj, ServerID
  <2>3. QED
    BY <1>14, <2>1, <2>2 DEF Restart, Has, diskVars, serverVars
<1>15. CASE RealmThrows
  BY <1>15, RaportAssumption, ObjOfRaport DEF RealmThrows, EndUpload, NoObj,
     diskVars, visitVars, serverVars, TypeOK, Control, Has, Sends, ServerID
<1>16. QED
  BY <1>1, <1>2, <1>3, <1>4, <1>5, <1>6, <1>7, <1>8, <1>9, <1>10, <1>11, <1>12,
     <1>13, <1>14, <1>15 DEF Next, UiStep, UploadStep, Exchange, StartNewRaport,
     SaverStep, WakeSaver, DeleteOldFile, RenameFile, MarkAsReady,
     SetReadyInRealm, StartUpload, FinishExperiment, diskVars, visitVars,
     queueVars, taskVars, serverVars, processVars

\* What is stored stays, and no step takes back an id.
LEMMA ReceivedStays ==
    ASSUME TypeOK, Next, NEW r \in Raport, Received(r)
    PROVE  Received(r)'
<1>1. stored' = stored \/ SaveReport
  BY DEF Next, SaverStep, UiStep, UploadStep, Exchange, StartNewRaport, SetRaportFile, WakeSaver,
         DeleteOldFile, RenameFile, MarkAsReady, AddNewReadyRaport, SetReadyInRealm, StartUpload,
         NextRaport, AllSent, ReserveID, SetServerId, SaveAnswered, SaveUnanswered, FailUpload, RealmThrows,
         MarkAsSent, SetSentInRealm, Reload, Restart, FinishExperiment, serverVars
<1>2. QED
  BY <1>1, RaportAssumption DEF SaveReport, Received, TypeOK

LEMMA CounterGrows ==
    ASSUME TypeOK, Next
    PROVE  lastReportID' = lastReportID \/ (ReserveID /\ lastReportID' = lastReportID + 1)
  BY DEF Next, SaverStep, UiStep, UploadStep, Exchange, StartNewRaport, SetRaportFile, WakeSaver,
         DeleteOldFile, RenameFile, MarkAsReady, AddNewReadyRaport, SetReadyInRealm, StartUpload,
         NextRaport, AllSent, ReserveID, SetServerId, SaveAnswered, SaveUnanswered, FailUpload, RealmThrows,
         MarkAsSent, SetSentInRealm, Reload, Restart, FinishExperiment, serverVars

LEMMA HistoryGrows ==
    ASSUME TypeOK, Next
    PROVE  twice \subseteq twice' /\ cut \subseteq cut'
  BY DEF Next, SaverStep, UiStep, UploadStep, Exchange, StartNewRaport, SetRaportFile, WakeSaver,
         DeleteOldFile, RenameFile, MarkAsReady, AddNewReadyRaport, SetReadyInRealm, StartUpload,
         NextRaport, AllSent, ReserveID, SetServerId, SaveAnswered, SaveUnanswered, FailUpload, RealmThrows,
         MarkAsSent, SetSentInRealm, Reload, Restart, FinishExperiment, processVars

\* A raport becomes sent after the server's answer.
LEMMA SentStoredPreserved ==
    ASSUME TypeOK, Control, Distinct, SentStored, Next
    PROVE  SentStored'
<1>1. ASSUME NEW v \in Raport, StartNewRaport(v) PROVE SentStored'
  BY <1>1, RaportAssumption, ObjOfRaport, ReceivedStays DEF StartNewRaport,
     diskVars, queueVars, serverVars, processVars, TypeOK, Control, SentStored,
     SentMeansReceived, Sends
<1>2. ASSUME NEW v \in Raport, SaverStep(v) PROVE SentStored'
  BY <1>2, RaportAssumption, ObjOfRaport, ReceivedStays DEF SaverStep,
     WakeSaver, DeleteOldFile, RenameFile, SavedAs, diskVars, queueVars,
     taskVars, serverVars, processVars, TypeOK, Control, SentStored,
     SentMeansReceived, Sends
<1>3. CASE SetRaportFile
  BY <1>3, RaportAssumption, ObjOfRaport, ReceivedStays DEF SetRaportFile,
     visitVars, queueVars, serverVars, processVars, TypeOK, Control,
     SentStored, SentMeansReceived, Sends
<1>4. CASE MarkAsReady
  BY <1>4, RaportAssumption, ObjOfRaport, ReceivedStays DEF MarkAsReady,
     diskVars, queueVars, taskVars, serverVars, processVars, TypeOK, Control,
     SentStored, SentMeansReceived, Sends
<1>5. CASE AddNewReadyRaport
  BY <1>5, RaportAssumption, ObjOfRaport, ReceivedStays DEF AddNewReadyRaport,
     Own, diskVars, taskVars, serverVars, processVars, TypeOK, Control,
     SentStored, SentMeansReceived, Sends
<1>6. CASE SetReadyInRealm
  BY <1>6, RaportAssumption, ObjOfRaport, ReceivedStays DEF SetReadyInRealm,
     queueVars, taskVars, serverVars, processVars, TypeOK, Control, SentStored,
     SentMeansReceived, Sends
<1>7. CASE StartUpload
  BY <1>7, RaportAssumption, ObjOfRaport, ReceivedStays DEF StartUpload,
     diskVars, visitVars, queueVars, serverVars, processVars, TypeOK, Control,
     SentStored, SentMeansReceived, Sends
<1>8. ASSUME NEW o \in Obj, NextRaport(o) PROVE SentStored'
  BY <1>8, RaportAssumption, ObjOfRaport, ReceivedStays DEF NextRaport,
     diskVars, visitVars, queueVars, serverVars, processVars, TypeOK, Control,
     SentStored, SentMeansReceived, Sends
<1>9. CASE AllSent
  BY <1>9, RaportAssumption, ObjOfRaport, ReceivedStays DEF AllSent, EndUpload,
     NoObj, diskVars, visitVars, queueVars, serverVars, processVars, TypeOK,
     Control, SentStored, SentMeansReceived, Sends
<1>10. CASE ReserveID
  BY <1>10, RaportAssumption, ObjOfRaport, ReceivedStays DEF ReserveID,
     diskVars, visitVars, queueVars, processVars, TypeOK, Control, SentStored,
     SentMeansReceived, Sends
<1>11. CASE SetServerId
  BY <1>11, RaportAssumption, ObjOfRaport, ReceivedStays DEF SetServerId,
     visitVars, serverVars, processVars, TypeOK, Control, SentStored,
     SentMeansReceived, Sends
<1>12. CASE SaveAnswered
  <2>1. sendId \in ServerID /\ sending[1] \in Raport /\ Has(sending[1], sendId)
    BY <1>12, RaportAssumption, ObjOfRaport
       DEF SaveAnswered, SaveReport, TypeOK, Control, Sends, Has
  <2>2. stored[sendId] \in Raport => stored[sendId] = sending[1]
    BY <2>1 DEF Distinct, Has
  <2>3. stored'[sendId] = sending[1]
    BY <1>12, <2>1, <2>2, RaportAssumption DEF SaveAnswered, SaveReport, TypeOK
  <2>4. Received(sending[1])' /\ sending[1]' = sending[1]
    BY <1>12, <2>1, <2>3 DEF SaveAnswered, Received
  <2>5. QED
    BY <1>12, <2>1, <2>4, ReceivedStays
       DEF SaveAnswered, SentStored, SentMeansReceived, diskVars, visitVars
<1>13. CASE SaveUnanswered
  BY <1>13, RaportAssumption, ObjOfRaport, ReceivedStays DEF SaveUnanswered,
     SaveReport, EndUpload, NoObj, diskVars, visitVars, queueVars, processVars,
     TypeOK, Control, SentStored, SentMeansReceived, Sends
<1>14. CASE FailUpload
  BY <1>14, RaportAssumption, ObjOfRaport, ReceivedStays DEF FailUpload,
     EndUpload, NoObj, diskVars, visitVars, queueVars, serverVars, processVars,
     TypeOK, Control, SentStored, SentMeansReceived, Sends
<1>15. CASE MarkAsSent
  BY <1>15, RaportAssumption, ObjOfRaport, ReceivedStays DEF MarkAsSent, Own,
     diskVars, serverVars, processVars, TypeOK, Control, SentStored,
     SentMeansReceived, Sends
<1>16. CASE SetSentInRealm
  BY <1>16, RaportAssumption, ObjOfRaport, ReceivedStays DEF SetSentInRealm,
     NoObj, visitVars, queueVars, serverVars, processVars, TypeOK, Control,
     SentStored, SentMeansReceived, Sends
<1>17. CASE Reload
  BY <1>17, RaportAssumption, ObjOfRaport, ReceivedStays, QueueReloaded DEF
     Reload, diskVars, visitVars, taskVars, serverVars, TypeOK, Control,
     SentStored, SentMeansReceived, Sends
<1>18. CASE Restart
  BY <1>18, RaportAssumption, ObjOfRaport, ReceivedStays, QueueRestarted DEF
     Restart, EndUpload, NoObj, diskVars, serverVars, TypeOK, Control,
     SentStored, SentMeansReceived, Sends
<1>19. CASE FinishExperiment
  BY <1>19, RaportAssumption, ObjOfRaport, ReceivedStays DEF FinishExperiment,
     diskVars, visitVars, queueVars, taskVars, processVars, TypeOK, Control,
     SentStored, SentMeansReceived, Sends
<1>20. CASE RealmThrows
  BY <1>20, RaportAssumption, ObjOfRaport, ReceivedStays DEF RealmThrows, EndUpload, NoObj,
     diskVars, visitVars, serverVars, TypeOK, Control,
     SentStored, SentMeansReceived, Sends
<1>21. QED
  BY <1>1, <1>2, <1>3, <1>4, <1>5, <1>6, <1>7, <1>8, <1>9, <1>10, <1>11, <1>12,
     <1>13, <1>14, <1>15, <1>16, <1>17, <1>18, <1>19, <1>20 DEF Next, UiStep,
     UploadStep, Exchange

\* A raport is queued once under one id, unless it is loaded twice.
LEMMA SinglePreserved ==
    ASSUME TypeOK, Control, Fresh, Issued, Next,
           NEW r \in Raport, r \notin twice', Single(r), r \notin twice
    PROVE  Single(r)'
<1>1. ASSUME NEW v \in Raport, StartNewRaport(v) PROVE Single(r)'
  BY <1>1, RaportAssumption, ObjOfRaport DEF StartNewRaport, diskVars,
     queueVars, serverVars, processVars, TypeOK, Control, Fresh, NotYetQueued,
     Single, Sends, Has
<1>2. ASSUME NEW v \in Raport, SaverStep(v) PROVE Single(r)'
  BY <1>2, RaportAssumption, ObjOfRaport DEF SaverStep, WakeSaver,
     DeleteOldFile, RenameFile, SavedAs, diskVars, queueVars, taskVars,
     serverVars, processVars, TypeOK, Control, Fresh, NotYetQueued, Single,
     Sends, Has
<1>3. CASE SetRaportFile
  BY <1>3, RaportAssumption, ObjOfRaport DEF SetRaportFile, visitVars,
     queueVars, serverVars, processVars, TypeOK, Control, Fresh, NotYetQueued,
     Single, Sends, Has
<1>4. CASE MarkAsReady
  BY <1>4, RaportAssumption, ObjOfRaport DEF MarkAsReady, diskVars, queueVars,
     taskVars, serverVars, processVars, TypeOK, Control, Fresh, NotYetQueued,
     Single, Sends, Has
<1>5. CASE AddNewReadyRaport
  BY <1>5, RaportAssumption, ObjOfRaport DEF AddNewReadyRaport, Own, diskVars,
     taskVars, serverVars, processVars, TypeOK, Control, Fresh, NotYetQueued,
     Single, Sends, Has
<1>6. CASE SetReadyInRealm
  BY <1>6, RaportAssumption, ObjOfRaport DEF SetReadyInRealm, queueVars,
     taskVars, serverVars, processVars, TypeOK, Control, Fresh, NotYetQueued,
     Single, Sends, Has
<1>7. CASE StartUpload
  BY <1>7, RaportAssumption, ObjOfRaport DEF StartUpload, diskVars, visitVars,
     queueVars, serverVars, processVars, TypeOK, Control, Fresh, NotYetQueued,
     Single, Sends, Has
<1>8. ASSUME NEW o \in Obj, NextRaport(o) PROVE Single(r)'
  BY <1>8, RaportAssumption, ObjOfRaport DEF NextRaport, diskVars, visitVars,
     queueVars, serverVars, processVars, TypeOK, Control, Fresh, NotYetQueued,
     Single, Sends, Has
<1>9. CASE AllSent
  BY <1>9, RaportAssumption, ObjOfRaport DEF AllSent, EndUpload, NoObj,
     diskVars, visitVars, queueVars, serverVars, processVars, TypeOK, Control,
     Fresh, NotYetQueued, Single, Sends, Has
<1>10. CASE ReserveID
  <2>1. \A i \in ServerID : stored[i] = r => i <= lastReportID
    BY DEF Issued, Has
  <2>2. \A i \in ServerID : Has(r, i)' =>
          rowId[r] = i \/ (sending[1] = r /\ i = lastReportID + 1)
    BY <1>10, HasStep DEF ReserveID, Single, TypeOK, Control
  <2>3. lastReportID \in Nat
    BY RaportAssumption DEF TypeOK
  <2>4. QED
    BY <1>10, <2>1, <2>2, <2>3 DEF ReserveID, Single, diskVars, queueVars, processVars, ServerID
<1>11. CASE SetServerId
  <2>1. \A i \in ServerID : Has(r, i)' => Has(r, i)
    BY <1>11, HasStep DEF SetServerId, ReserveID
  <2>2. CASE sending[1] # r
    BY <1>11, <2>1, <2>2, RaportAssumption
       DEF SetServerId, visitVars, serverVars, processVars, TypeOK, Single
  <2>3. CASE sending[1] = r
    <3>1. queue[sending] = NoId /\ sending \in Obj /\ rowId[r] = NoId
      BY <1>11, <2>3, RaportAssumption DEF SetServerId, Control, Sends, Single
    <3>2. rowId'[r] = sendId /\ queue'[sending] = sendId
      BY <1>11, <2>3, <3>1 DEF SetServerId, TypeOK
    <3>3. \A o \in Obj : o # sending => queue'[o] = queue[o]
      BY <1>11 DEF SetServerId, TypeOK
    <3>4. \A i \in ServerID : Has(r, i)' => rowId'[r] = i
      BY <1>11, <2>1, <3>1, <3>2, RaportAssumption DEF SetServerId, Control, Single, ServerID
    <3>5. QED
      BY <2>3, <3>1, <3>2, <3>3, <3>4, RaportAssumption DEF Single
  <2>4. QED
    BY <2>2, <2>3
<1>12. CASE SaveAnswered
  BY <1>12, RaportAssumption, ObjOfRaport DEF SaveAnswered, SaveReport,
     diskVars, visitVars, queueVars, processVars, TypeOK, Control, Fresh,
     NotYetQueued, Single, Sends, Has
<1>13. CASE SaveUnanswered
  BY <1>13, RaportAssumption, ObjOfRaport DEF SaveUnanswered, SaveReport,
     EndUpload, NoObj, diskVars, visitVars, queueVars, processVars, TypeOK,
     Control, Fresh, NotYetQueued, Single, Sends, Has
<1>14. CASE FailUpload
  BY <1>14, RaportAssumption, ObjOfRaport DEF FailUpload, EndUpload, NoObj,
     diskVars, visitVars, queueVars, serverVars, processVars, TypeOK, Control,
     Fresh, NotYetQueued, Single, Sends, Has
<1>15. CASE MarkAsSent
  <2>1. \A i \in ServerID : Has(r, i)' => rowId'[r] = i
    BY <1>15, HasStep DEF MarkAsSent, ReserveID, Single, Control, diskVars
  <2>2. \A o \in Obj : queue'[o] = queue[o] \/ queue'[o] = NotQueued
    BY <1>15 DEF MarkAsSent, TypeOK
  <2>3. QED
    BY <1>15, <2>1, <2>2 DEF MarkAsSent, Single, diskVars, processVars
<1>16. CASE SetSentInRealm
  BY <1>16, RaportAssumption, ObjOfRaport DEF SetSentInRealm, NoObj, visitVars,
     queueVars, serverVars, processVars, TypeOK, Control, Fresh, NotYetQueued,
     Single, Sends, Has
<1>17. CASE Reload
  BY <1>17, RaportAssumption, ObjOfRaport, QueueReloaded DEF Reload, diskVars,
     visitVars, taskVars, serverVars, TypeOK, Control, Fresh, NotYetQueued,
     Single, Sends, Has
<1>18. CASE Restart
  <2>1. \A i \in ServerID : Has(r, i)' => rowId'[r] = i
    BY <1>18, QueueRestarted, RaportAssumption, ObjOfRaport
       DEF Restart, Single, diskVars, serverVars, Has, EndUpload, ServerID
  <2>2. QED
    BY <1>18, <2>1, QueueRestarted DEF Restart, Single, diskVars
<1>19. CASE FinishExperiment
  BY <1>19, RaportAssumption, ObjOfRaport DEF FinishExperiment, diskVars,
     visitVars, queueVars, taskVars, processVars, TypeOK, Control, Fresh,
     NotYetQueued, Single, Sends, Has
<1>20. CASE RealmThrows
  <2>1. \A i \in ServerID : Has(r, i)' => Has(r, i)
    BY <1>20, HasStep DEF RealmThrows, ReserveID
  <2>2. \A o \in Obj : queue'[o] # NotQueued => queue[o] # NotQueued
    BY <1>20, RaportAssumption DEF RealmThrows, TypeOK, Control, Sends
  <2>3. schedule' = "ended" /\ rowId' = rowId /\ stored' = stored
    BY <1>20 DEF RealmThrows, diskVars, serverVars
  <2>4. QED
    BY <2>1, <2>2, <2>3 DEF Single
<1>21. QED
  BY <1>1, <1>2, <1>3, <1>4, <1>5, <1>6, <1>7, <1>8, <1>9, <1>10, <1>11, <1>12,
     <1>13, <1>14, <1>15, <1>16, <1>17, <1>18, <1>19, <1>20 DEF Next, UiStep,
     UploadStep, Exchange

\* The visits of this process.
LEMMA LivesPreserved ==
    ASSUME TypeOK, Control, Fresh, Lives, Next
    PROVE  Lives'
<1>1. CASE UNCHANGED <<visit, ending, live, saver, queue, partial, loads>>
  BY <1>1 DEF TypeOK, Control, Fresh, NotYetQueued, Lives, LiveOf, Numbered,
     Sends, Own
<1>2. ASSUME NEW v \in Raport, StartNewRaport(v) PROVE Lives'
  BY <1>2, RaportAssumption, ObjOfRaport DEF StartNewRaport, diskVars,
     queueVars, serverVars, processVars, TypeOK, Control, Fresh, NotYetQueued,
     Lives, LiveOf, Numbered, Sends, Own
<1>3. ASSUME NEW v \in Raport, SaverStep(v) PROVE Lives'
  BY <1>3, RaportAssumption, ObjOfRaport DEF SaverStep, WakeSaver,
     DeleteOldFile, RenameFile, SavedAs, diskVars, queueVars, taskVars,
     serverVars, processVars, TypeOK, Control, Fresh, NotYetQueued, Lives,
     LiveOf, Numbered, Sends, Own
<1>4. CASE MarkAsReady
  BY <1>4, RaportAssumption, ObjOfRaport DEF MarkAsReady, diskVars, queueVars,
     taskVars, serverVars, processVars, TypeOK, Control, Fresh, NotYetQueued,
     Lives, LiveOf, Numbered, Sends, Own
<1>5. CASE AddNewReadyRaport
  BY <1>5, RaportAssumption, ObjOfRaport DEF AddNewReadyRaport, Own, diskVars,
     taskVars, serverVars, processVars, TypeOK, Control, Fresh, NotYetQueued,
     Lives, LiveOf, Numbered, Sends, Own
<1>6. CASE SetReadyInRealm
  BY <1>6, RaportAssumption, ObjOfRaport DEF SetReadyInRealm, queueVars,
     taskVars, serverVars, processVars, TypeOK, Control, Fresh, NotYetQueued,
     Lives, LiveOf, Numbered, Sends, Own
<1>7. CASE SetServerId
  <2>1. \A o \in Obj : queue'[o] # NotQueued <=> queue[o] # NotQueued
    BY <1>7, RaportAssumption DEF SetServerId, TypeOK, Control, Sends, ServerID
  <2>2. QED
    BY <1>7, <2>1, ObjOfRaport DEF SetServerId, Lives, LiveOf, Numbered, visitVars
<1>8. CASE MarkAsSent
  BY <1>8, RaportAssumption, ObjOfRaport DEF MarkAsSent, Own, diskVars,
     serverVars, processVars, TypeOK, Control, Fresh, NotYetQueued, Lives,
     LiveOf, Numbered, Sends, Own
<1>9. CASE Reload
  <2>1. \A o \in Obj : queue[o] # NotQueued => queue'[o] # NotQueued
    BY <1>9, QueueReloaded, ObjOfRaport, RaportAssumption DEF TypeOK, ServerID
  <2>2. loads \in Nat /\ loads' = loads + 1
    BY <1>9, RaportAssumption DEF Reload, TypeOK
  <2>3. \A o \in Loaded(loads') : o[2] = loads'
    BY <1>9, QueueReloaded
  <2>4. Numbered'
    BY <1>9, <2>2, <2>3, QueueReloaded DEF Lives, Numbered, Obj
  <2>5. QED
    BY <1>9, <2>1, <2>4, ObjOfRaport DEF Reload, Lives, LiveOf, visitVars
<1>10. CASE Restart
  <2>1. Numbered'
    BY <1>10, QueueRestarted DEF Restart, Numbered
  <2>2. QED
    BY <1>10, <2>1, RaportAssumption DEF Restart, Lives, LiveOf
<1>11. CASE RealmThrows
  <2>1. \A o \in Obj : queue'[o] # NotQueued <=> queue[o] # NotQueued
    BY <1>11, RaportAssumption DEF RealmThrows, TypeOK, Control, Sends, ServerID
  <2>2. QED
    BY <1>11, <2>1, ObjOfRaport DEF RealmThrows, Lives, LiveOf, Numbered, visitVars
<1>12. QED
  BY <1>1, <1>2, <1>3, <1>4, <1>5, <1>6, <1>7, <1>8, <1>9, <1>10, <1>11 DEF Next,
     UiStep, UploadStep, Exchange, SetRaportFile, StartUpload, NextRaport,
     AllSent, ReserveID, SaveAnswered, SaveUnanswered, FailUpload,
     SetSentInRealm, FinishExperiment, diskVars, visitVars, queueVars,
     taskVars, serverVars, processVars

\* No saver stops short.
LEMMA LastSavedPreserved ==
    ASSUME TypeOK, Control, SentStored, Lives, LastSaved, Next
    PROVE  LastSaved'
<1>1. CASE UNCHANGED <<row, file, live, saver, cut>>
  BY <1>1, ReceivedStays DEF TypeOK, Control, Lives, LiveOf, SentStored,
     SentMeansReceived, LastSaved, Sends
<1>2. ASSUME NEW v \in Raport, StartNewRaport(v) PROVE LastSaved'
  BY <1>2, RaportAssumption, ObjOfRaport, ReceivedStays DEF StartNewRaport,
     diskVars, queueVars, serverVars, processVars, TypeOK, Control, Lives,
     LiveOf, SentStored, SentMeansReceived, LastSaved, Sends
<1>3. ASSUME NEW v \in Raport, SaverStep(v) PROVE LastSaved'
  BY <1>3, RaportAssumption, ObjOfRaport, ReceivedStays DEF SaverStep,
     WakeSaver, DeleteOldFile, RenameFile, SavedAs, diskVars, queueVars,
     taskVars, serverVars, processVars, TypeOK, Control, Lives, LiveOf,
     SentStored, SentMeansReceived, LastSaved, Sends
<1>4. CASE SetRaportFile
  BY <1>4, RaportAssumption, ObjOfRaport, ReceivedStays DEF SetRaportFile,
     visitVars, queueVars, serverVars, processVars, TypeOK, Control, Lives,
     LiveOf, SentStored, SentMeansReceived, LastSaved, Sends
<1>5. CASE MarkAsReady
  BY <1>5, RaportAssumption, ObjOfRaport, ReceivedStays DEF MarkAsReady,
     diskVars, queueVars, taskVars, serverVars, processVars, TypeOK, Control,
     Lives, LiveOf, SentStored, SentMeansReceived, LastSaved, Sends
<1>6. CASE SetReadyInRealm
  BY <1>6, RaportAssumption, ObjOfRaport, ReceivedStays DEF SetReadyInRealm,
     queueVars, taskVars, serverVars, processVars, TypeOK, Control, Lives,
     LiveOf, SentStored, SentMeansReceived, LastSaved, Sends
<1>7. CASE MarkAsSent
  BY <1>7, RaportAssumption, ObjOfRaport, ReceivedStays DEF MarkAsSent, Own,
     diskVars, serverVars, processVars, TypeOK, Control, Lives, LiveOf,
     SentStored, SentMeansReceived, LastSaved, Sends
<1>8. CASE SetSentInRealm
  BY <1>8, RaportAssumption, ObjOfRaport, ReceivedStays DEF SetSentInRealm,
     NoObj, visitVars, queueVars, serverVars, processVars, TypeOK, Control,
     Lives, LiveOf, SentStored, SentMeansReceived, LastSaved, Sends
<1>9. CASE Restart
  BY <1>9, RaportAssumption, ObjOfRaport, ReceivedStays, QueueRestarted DEF
     Restart, EndUpload, NoObj, diskVars, serverVars, TypeOK, Control, Lives,
     LiveOf, SentStored, SentMeansReceived, LastSaved, Sends
<1>10. QED
  BY <1>1, <1>2, <1>3, <1>4, <1>5, <1>6, <1>7, <1>8, <1>9 DEF Next, UiStep,
     UploadStep, Exchange, AddNewReadyRaport, StartUpload, NextRaport, AllSent,
     ReserveID, SetServerId, SaveAnswered, SaveUnanswered, FailUpload, RealmThrows, Reload,
     FinishExperiment, diskVars, visitVars, queueVars, taskVars, serverVars,
     processVars

\* What an earlier process left ready is queued, or was sent.
LEMMA LoadedWholePreserved ==
    ASSUME TypeOK, Control, SentStored, Lives, LastSaved, LoadedWhole, Next
    PROVE  LoadedWhole'
<1>1. CASE UNCHANGED <<row, live, queue, partial, cut>>
  BY <1>1, ReceivedStays DEF TypeOK, Control, Lives, LiveOf, Numbered,
     SentStored, LoadedWhole, Sends
<1>2. ASSUME NEW v \in Raport, StartNewRaport(v) PROVE LoadedWhole'
  BY <1>2, RaportAssumption, ObjOfRaport, ReceivedStays DEF StartNewRaport,
     diskVars, queueVars, serverVars, processVars, TypeOK, Control, Lives,
     LiveOf, Numbered, SentStored, LoadedWhole, Sends
<1>3. CASE SetRaportFile
  BY <1>3, RaportAssumption, ObjOfRaport, ReceivedStays DEF SetRaportFile,
     visitVars, queueVars, serverVars, processVars, TypeOK, Control, Lives,
     LiveOf, Numbered, SentStored, LoadedWhole, Sends
<1>4. CASE MarkAsReady
  BY <1>4, RaportAssumption, ObjOfRaport, ReceivedStays DEF MarkAsReady,
     diskVars, queueVars, taskVars, serverVars, processVars, TypeOK, Control,
     Lives, LiveOf, Numbered, SentStored, LoadedWhole, Sends
<1>5. CASE AddNewReadyRaport
  BY <1>5, RaportAssumption, ObjOfRaport, ReceivedStays DEF AddNewReadyRaport,
     Own, diskVars, taskVars, serverVars, processVars, TypeOK, Control, Lives,
     LiveOf, Numbered, SentStored, LoadedWhole, Sends
<1>6. CASE SetReadyInRealm
  BY <1>6, RaportAssumption, ObjOfRaport, ReceivedStays DEF SetReadyInRealm,
     queueVars, taskVars, serverVars, processVars, TypeOK, Control, Lives,
     LiveOf, Numbered, SentStored, LoadedWhole, Sends
<1>7. CASE SetServerId
  <2>1. \A o \in Obj : queue'[o] # NotQueued <=> queue[o] # NotQueued
    BY <1>7, RaportAssumption DEF SetServerId, TypeOK, Control, Sends, ServerID
  <2>2. QED
    BY <1>7, <2>1, ReceivedStays DEF SetServerId, LoadedWhole, visitVars, processVars
<1>8. CASE MarkAsSent
  BY <1>8, RaportAssumption, ObjOfRaport, ReceivedStays DEF MarkAsSent, Own,
     diskVars, serverVars, processVars, TypeOK, Control, Lives, LiveOf,
     Numbered, SentStored, LoadedWhole, Sends
<1>9. CASE SetSentInRealm
  BY <1>9, RaportAssumption, ObjOfRaport, ReceivedStays DEF SetSentInRealm,
     NoObj, visitVars, queueVars, serverVars, processVars, TypeOK, Control,
     Lives, LiveOf, Numbered, SentStored, LoadedWhole, Sends
<1>10. CASE Reload
  <2>1. \A o \in Obj : queue[o] # NotQueued => queue'[o] # NotQueued
    BY <1>10, QueueReloaded, ObjOfRaport, RaportAssumption DEF TypeOK, ServerID
  <2>2. loads \in Nat /\ loads' = loads + 1
    BY <1>10, RaportAssumption DEF Reload, TypeOK
  <2>3. \A o \in Obj : queue[o] # NotQueued /\ o \notin partial => o \notin partial'
    BY <1>10, <2>2, QueueReloaded DEF Lives, Numbered, Obj
  <2>4. QED
    BY <1>10, <2>1, <2>3, ReceivedStays DEF Reload, LoadedWhole, diskVars, visitVars
<1>11. CASE Restart
  <2> SUFFICES ASSUME NEW r \in Raport, row[r] = "ready_to_send", r \notin cut', ~Received(r)
               PROVE  \E o \in Obj : o[1] = r /\ queue'[o] # NotQueued /\ o \notin partial'
    BY <1>11, ReceivedStays DEF Restart, LoadedWhole, diskVars
  <2>1. file[r] = "complete"
    BY <1>11 DEF Restart, LastSaved
  <2>2. <<r, 1>> \in Loaded(1) /\ <<r, 1>> \in Obj
    BY <2>1, RaportAssumption DEF Loaded, Obj
  <2>3. queue'[<<r, 1>>] = rowId[r] /\ <<r, 1>> \notin partial'
    BY <1>11, <2>1, <2>2, QueueRestarted
  <2>4. QED
    BY <2>2, <2>3, RaportAssumption DEF TypeOK, ServerID
<1>12. CASE RealmThrows
  <2>1. \A o \in Obj : queue'[o] # NotQueued <=> queue[o] # NotQueued
    BY <1>12, RaportAssumption DEF RealmThrows, TypeOK, Control, Sends, ServerID
  <2>2. QED
    BY <1>12, <2>1, ReceivedStays DEF RealmThrows, LoadedWhole, diskVars, visitVars
<1>13. QED
  BY <1>1, <1>2, <1>3, <1>4, <1>5, <1>6, <1>7, <1>8, <1>9, <1>10, <1>11, <1>12 DEF
     Next, UiStep, UploadStep, Exchange, SaverStep, WakeSaver, DeleteOldFile,
     RenameFile, StartUpload, NextRaport, AllSent, ReserveID, SaveAnswered,
     SaveUnanswered, FailUpload, FinishExperiment, diskVars, visitVars,
     queueVars, taskVars, serverVars, processVars

\* What is loaded without its end date.
LEMMA StuckPreserved ==
    ASSUME TypeOK, Control, Fresh, SentStored, Lives, LastSaved, StuckExplained, Next
    PROVE  StuckExplained'
<1>1. CASE UNCHANGED <<partial>>
  BY <1>1, ReceivedStays, HistoryGrows, ObjOfRaport DEF TypeOK, Control, Fresh,
     NotYetQueued, Lives, LiveOf, SentStored, SentMeansReceived, LastSaved,
     StuckExplained, Sends
<1>2. CASE Reload
  <2> SUFFICES ASSUME NEW o \in partial', o \notin partial
               PROVE  o[1] \in cut' \/ o[1] \in twice' \/ Received(o[1])'
    BY <1>2, ReceivedStays, HistoryGrows, ObjOfRaport DEF StuckExplained, TypeOK
  <2>1. o \in Loaded(loads') /\ o = <<o[1], loads'>> /\ file[o[1]] = "partial" /\ o[1] \in Raport
    BY <1>2, QueueReloaded, ObjOfRaport
  <2>2. row[o[1]] = "ready_to_send" /\ ~(visit = o[1])
    BY <1>2, <2>1, QueueReloaded, RaportAssumption DEF Reload
  <2>3. CASE live[o[1]] = "ready"
    <3>1. queue[Own(o[1])] # NotQueued
      BY <2>1, <2>2, <2>3 DEF Lives, LiveOf
    <3>2. o[1] \in twice'
      BY <1>2, <2>1, <3>1, ObjOfRaport DEF Reload
    <3>3. QED
      BY <3>2
  <2>4. CASE live[o[1]] = "sent"
    BY <2>1, <2>4, ReceivedStays DEF SentStored, SentMeansReceived
  <2>5. CASE live[o[1]] = "none"
    <3>1. o[1] \in cut \/ Received(o[1])
      BY <2>1, <2>2, <2>5 DEF LastSaved, Lives, LiveOf
    <3>2. QED
      BY <2>1, <3>1, ReceivedStays, HistoryGrows
  <2>6. live[o[1]] # "in_progress"
    BY <2>1, <2>2 DEF Lives, LiveOf
  <2>7. QED
    BY <2>1, <2>3, <2>4, <2>5, <2>6 DEF TypeOK
<1>3. CASE Restart
  <2> SUFFICES ASSUME NEW o \in partial'
               PROVE  o[1] \in cut' \/ Received(o[1])'
    BY DEF StuckExplained
  <2>1. file[o[1]] = "partial" /\ row[o[1]] = "ready_to_send" /\ o[1] \in Raport
    BY <1>3, QueueRestarted, ObjOfRaport
  <2>2. CASE saver[o[1]] = "off"
    BY <2>1, <2>2, ReceivedStays, HistoryGrows DEF LastSaved
  <2>3. CASE saver[o[1]] # "off"
    BY <1>3, <2>1, <2>3 DEF Restart
  <2>4. QED
    BY <2>2, <2>3
<1>4. QED
  BY <1>1, <1>2, <1>3 DEF Next, UiStep, UploadStep, Exchange, StartNewRaport,
     SaverStep, WakeSaver, DeleteOldFile, RenameFile, SetRaportFile,
     MarkAsReady, AddNewReadyRaport, SetReadyInRealm, StartUpload, NextRaport,
     AllSent, ReserveID, SetServerId, SaveAnswered, SaveUnanswered, FailUpload, RealmThrows,
     MarkAsSent, SetSentInRealm, FinishExperiment, diskVars, visitVars,
     queueVars, taskVars, serverVars, processVars

\* An id just taken from the counter is above all that are in use.
LEMMA IdsPreserved ==
    ASSUME TypeOK, Control, Issued, Distinct, Next
    PROVE  Issued' /\ Distinct'
<1>1. lastReportID \in Nat /\ lastReportID' \in Nat /\ lastReportID <= lastReportID'
  BY CounterGrows, RaportAssumption DEF TypeOK
<1>2. ASSUME NEW r \in Raport, NEW i \in ServerID, Has(r, i)'
      PROVE  \/ Has(r, i) /\ i <= lastReportID
             \/ i = lastReportID' /\ i = lastReportID + 1 /\ r = sending[1]
  BY <1>2, HasStep, CounterGrows, RaportAssumption DEF Issued, ReserveID
<1>3. Issued'
  BY <1>1, <1>2 DEF Issued, ServerID
<1>4. ASSUME NEW r \in Raport, NEW s \in Raport, NEW i \in ServerID, Has(r, i)', Has(s, i)'
      PROVE  r = s
  BY <1>1, <1>2, <1>4 DEF Distinct
<1>5. QED
  BY <1>3, <1>4 DEF Distinct

-----------------------------------------------------------------------------
(* The theorems *)

\* The invariant holds of every state that is reached.
THEOREM RaportInvariant == Spec => []RaportInv
<1>1. Init => RaportInv
  <2> SUFFICES ASSUME Init PROVE RaportInv
    OBVIOUS
  <2>1. TypeOK
    BY RaportAssumption DEF Init, TypeOK, NoObj, ServerID
  <2>2. \A r \in Raport, i \in ServerID : ~Has(r, i)
    BY RaportAssumption DEF Init, Has, NoObj, ServerID
  <2>3. Control /\ Fresh
    BY RaportAssumption, ObjOfRaport DEF Init, Control, Sends, Fresh, NotYetQueued, NoObj
  <2>4. SentStored /\ SingleUnlessTwice
    BY <2>2, RaportAssumption DEF Init, SentStored, SentMeansReceived, SingleUnlessTwice, Single
  <2>5. QED
    BY <2>1, <2>2, <2>3, <2>4 DEF RaportInv, Issued, Distinct
<1>2. RaportInv /\ [Next]_vars => RaportInv'
  <2>1. CASE Next
    <3> SUFFICES ASSUME RaportInv PROVE RaportInv'
      BY <2>1
    <3>1. TypeOK' /\ Control' /\ Fresh'
      BY <2>1, TypePreserved, ControlPreserved, FreshPreserved DEF RaportInv
    <3>2. Issued' /\ Distinct'
      BY <2>1, IdsPreserved DEF RaportInv
    <3>3. SentStored'
      BY <2>1, SentStoredPreserved DEF RaportInv
    <3>4. SingleUnlessTwice'
      BY <2>1, HistoryGrows, SinglePreserved DEF RaportInv, SingleUnlessTwice
    <3>5. QED
      BY <3>1, <3>2, <3>3, <3>4 DEF RaportInv
  <2>2. CASE UNCHANGED vars
    BY <2>2 DEF RaportInv, TypeOK, Control, Fresh, NotYetQueued, Issued, Distinct, Has, SentStored,
                SentMeansReceived, Received, SingleUnlessTwice, Single, vars, diskVars, visitVars,
                queueVars, taskVars, serverVars, processVars
  <2>3. QED
    BY <2>1, <2>2
<1>3. QED
  BY <1>1, <1>2, PTL DEF Spec

\* Type correctness of the delivery.
THEOREM DeliveryTyped == Spec => []TypeOK
BY RaportInvariant, PTL DEF RaportInv

\* Whatever answers are lost and whenever the tablet is killed, it never counts
\* a raport as sent that the server does not have: markRaportAsSent follows an
\* answer, and save drops a raport under a stored id only if it is the same one.
THEOREM SentIsReceived == Spec => []SentMeansReceived
BY RaportInvariant, PTL DEF RaportInv, SentStored

\* getIdForNewReport gives no id to two raports, and no raport is sent under an
\* id that another one is stored under.
THEOREM IdsAreNotShared == Spec => []IdsNotShared
<1>1. RaportInv => IdsNotShared
  <2> SUFFICES ASSUME RaportInv, NEW r \in Raport, NEW s \in Raport, r # s
               PROVE  /\ IdsOf(r) \intersect IdsOf(s) \subseteq {NoId, NotQueued}
                      /\ IdsOf(r) \intersect Copies(s) = {}
    BY DEF IdsNotShared
  <2>1. \A t \in Raport : IdsOf(t) \subseteq ServerID \union {NoId, NotQueued}
    BY DEF RaportInv, TypeOK, IdsOf
  <2>2. \A t \in Raport, i \in ServerID : i \in IdsOf(t) \/ i \in Copies(t) => Has(t, i)
    BY DEF IdsOf, Copies, Has
  <2>3. \A i \in ServerID : ~(Has(r, i) /\ Has(s, i))
    BY DEF RaportInv, Distinct
  <2>4. Copies(s) \subseteq ServerID
    BY DEF Copies
  <2>5. QED
    BY <2>1, <2>2, <2>3, <2>4
<1>2. QED
  BY <1>1, RaportInvariant, PTL

\* A visit is on the server once, unless mapDownloaded loads it when the queue
\* holds it already: no retry, lost answer or kill stores it again.
THEOREM StoredOnce == Spec => []OnceUnlessLoadedTwice
<1>1. RaportInv => OnceUnlessLoadedTwice
  <2> SUFFICES ASSUME RaportInv, NEW r \in Raport, r \notin twice
               PROVE  Cardinality(Copies(r)) =< 1
    BY DEF OnceUnlessLoadedTwice
  <2>1. Copies(r) \subseteq {rowId[r]}
    BY DEF RaportInv, SingleUnlessTwice, Single, Copies, Has
  <2>2. IsFiniteSet({rowId[r]}) /\ Cardinality({rowId[r]}) = 1
    BY FS_Singleton
  <2>3. Cardinality(Copies(r)) <= Cardinality({rowId[r]})
    BY <2>1, <2>2, FS_Subset
  <2>4. QED
    BY <2>2, <2>3
<1>2. QED
  BY <1>1, RaportInvariant, PTL

\* The invariant of what is saved and kept holds of every state.
THEOREM KeptInvariant == Spec => []KeptInv
<1>1. Init => KeptInv
  BY ObjOfRaport, RaportAssumption
  DEF Init, KeptInv, Lives, LiveOf, Numbered, Own, LastSaved, LoadedWhole, StuckExplained
<1>2. RaportInv /\ KeptInv /\ [Next]_vars => KeptInv'
  <2>1. CASE Next
    BY <2>1, LivesPreserved, LastSavedPreserved, LoadedWholePreserved, StuckPreserved
    DEF RaportInv, KeptInv
  <2>2. CASE UNCHANGED vars
    BY <2>2 DEF KeptInv, Lives, LiveOf, Numbered, LastSaved, LoadedWhole, StuckExplained, Received,
                vars, diskVars, visitVars, queueVars, taskVars, serverVars, processVars
  <2>3. QED
    BY <2>1, <2>2
<1>3. QED
  BY <1>1, <1>2, RaportInvariant, PTL DEF Spec

\* A finished visit is on the server or queued whole, in whichever process,
\* unless a kill stopped its saver before the last save.
THEOREM ReadyIsKept == Spec => []ReadyNeverLost
<1>1. RaportInv /\ KeptInv => ReadyNeverLost
  <2> SUFFICES ASSUME RaportInv, KeptInv, NEW r \in Raport, row[r] = "ready_to_send", r \notin cut
               PROVE  \/ Received(r)
                      \/ \E o \in Obj : o[1] = r /\ queue[o] # NotQueued /\ o \notin partial
    BY DEF ReadyNeverLost
  <2>1. ~(visit = r /\ ending # "queued")
    BY DEF RaportInv, Fresh, NotYetQueued
  <2>2. CASE live[r] = "ready"
    <3>1. queue[Own(r)] # NotQueued /\ Own(r) \notin partial
      BY <2>1, <2>2 DEF KeptInv, Lives, LiveOf, Numbered, Own
    <3>2. QED
      BY <3>1, ObjOfRaport
  <2>3. CASE live[r] = "none"
    BY <2>3 DEF KeptInv, LoadedWhole
  <2>4. CASE live[r] = "sent"
    BY <2>4 DEF RaportInv, SentStored, SentMeansReceived
  <2>5. live[r] # "in_progress"
    BY <2>1 DEF KeptInv, Lives, LiveOf
  <2>6. QED
    BY <2>2, <2>3, <2>4, <2>5 DEF RaportInv, TypeOK
<1>2. QED
  BY <1>1, RaportInvariant, KeptInvariant, PTL

\* There are three ways to a queued raport without an end date: a kill before
\* its last save, a second loading before it, or that the server has it.
THEOREM StuckIsExplained == Spec => []StuckExplained
BY KeptInvariant, PTL DEF KeptInv

=============================================================================
