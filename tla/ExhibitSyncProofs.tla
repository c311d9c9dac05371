-------------------------- MODULE ExhibitSyncProofs --------------------------
(***************************************************************************)
(* The server's catalogue by itself, and the tablet's copy of it, for every *)
(* set of exhibits, floors, extents and colours and every bound: types,    *)
(* what each command does to the versions, that no frame outlives the map  *)
(* it was checked against, and the soundness of the copy.                  *)
(***************************************************************************)
EXTENDS ExhibitSync, TLAPS

-----------------------------------------------------------------------------
(* The catalogue: types *)

\* Every catalogue command keeps the catalogue's types.
LEMMA ServerTypePreserved ==
    ASSUME ServerTypeOK, ServerNext
    PROVE  ServerTypeOK'
<1> USE CatalogueAssumption DEF ServerTypeOK, Status, MaybeFrame, Frame
<1>1. ASSUME NEW e \in Exhibit, NEW c \in Colour, NEW f \in MaybeFrame, Create(e, c, f)
      PROVE  ServerTypeOK'
  BY <1>1 DEF Create, NextVersion, mapVars
<1>2. ASSUME NEW e \in Exhibit, NEW c \in Colour, NEW f \in MaybeFrame, Update(e, c, f)
      PROVE  ServerTypeOK'
  BY <1>2 DEF Update, SetFrame, NextVersion, mapVars
<1>3. ASSUME NEW e \in Exhibit, NEW x \in Extent, Move(e, x)
      PROVE  ServerTypeOK'
  <2>1. [frame[e] EXCEPT !.extent = x] \in Frame
    BY <1>3 DEF Move
  <2>2. QED
    BY <1>3, <2>1 DEF Move, SetFrame, NextVersion, mapVars
<1>4. ASSUME NEW e \in Exhibit, Remove(e)
      PROVE  ServerTypeOK'
  BY <1>4 DEF Remove, NextVersion, mapVars
<1>5. ASSUME NEW e \in Exhibit, Retain(e)
      PROVE  ServerTypeOK'
  BY <1>5 DEF Retain, mapVars
<1>6. CASE Refresh
  BY <1>6 DEF Refresh, mapVars
<1>7. ASSUME NEW fl \in Floor, RemoveMap(fl) \/ BeginSetMap(fl)
      PROVE  ServerTypeOK'
  BY <1>7 DEF RemoveMap, BeginSetMap, RemoveOldData, ResetFrames, NextVersion
<1>8. ASSUME NEW n \in Extent, FinishSetMap(n)
      PROVE  ServerTypeOK'
  BY <1>8 DEF FinishSetMap, rowVars
<1>9. CASE FailSetMap
  BY <1>9 DEF FailSetMap, rowVars
<1>10. QED
  BY <1>1, <1>2, <1>3, <1>4, <1>5, <1>6, <1>7, <1>8, <1>9 DEF ServerNext

-----------------------------------------------------------------------------
(* Versions *)

\* What every command promises a copy of the catalogue: a change of a live
\* exhibit gives it a version beyond the counter, and so does a removal for
\* the last deletion.
VersionedChange ==
    /\ lastVersion =< lastVersion'
    /\ lastDeleted' = lastDeleted \/ lastDeleted' > lastVersion
    /\ \A e \in Exhibit :
          /\ version[e] =< version'[e]
          /\ lastDeleted' = lastDeleted /\ status[e] = "live" => status'[e] = "live"
          /\ status'[e] = "live" /\ version'[e] =< lastVersion =>
                status[e] = "live" /\ version'[e] = version[e] /\ frame'[e] = frame[e]

\* Every command is a versioned change and keeps versions behind the counter.
LEMMA ServerStepVersioned ==
    ASSUME ServerTypeOK, VersionsBounded, ServerNext
    PROVE  VersionedChange /\ VersionsBounded'
<1> USE DEF ServerTypeOK, VersionsBounded, VersionedChange
<1>1. ASSUME NEW e \in Exhibit, NEW c \in Colour, NEW f \in MaybeFrame, Create(e, c, f)
      PROVE  VersionedChange /\ VersionsBounded'
  BY <1>1 DEF Create, NextVersion
<1>2. ASSUME NEW e \in Exhibit, NEW c \in Colour, NEW f \in MaybeFrame, Update(e, c, f)
      PROVE  VersionedChange /\ VersionsBounded'
  BY <1>2 DEF Update, SetFrame, NextVersion
<1>3. ASSUME NEW e \in Exhibit, NEW x \in Extent, Move(e, x)
      PROVE  VersionedChange /\ VersionsBounded'
  BY <1>3 DEF Move, SetFrame, NextVersion
<1>4. ASSUME NEW e \in Exhibit, Remove(e)
      PROVE  VersionedChange /\ VersionsBounded'
  BY <1>4 DEF Remove, NextVersion
<1>5. ASSUME NEW e \in Exhibit, Retain(e)
      PROVE  VersionedChange /\ VersionsBounded'
  BY <1>5 DEF Retain
<1>6. CASE Refresh
  BY <1>6 DEF Refresh
<1>7. ASSUME NEW fl \in Floor, RemoveMap(fl) \/ BeginSetMap(fl)
      PROVE  VersionedChange /\ VersionsBounded'
  BY <1>7 DEF RemoveMap, BeginSetMap, RemoveOldData, ResetFrames, NextVersion
<1>8. ASSUME NEW n \in Extent, FinishSetMap(n)
      PROVE  VersionedChange /\ VersionsBounded'
  BY <1>8 DEF FinishSetMap, rowVars
<1>9. CASE FailSetMap
  BY <1>9 DEF FailSetMap, rowVars
<1>10. QED
  BY <1>1, <1>2, <1>3, <1>4, <1>5, <1>6, <1>7, <1>8, <1>9 DEF ServerNext

-----------------------------------------------------------------------------
(* Frames and maps *)

\* The floor whose map is being replaced has none: FramesFit needs it, for the
\* new map may be smaller than any frame.
MapGone == mapChange # NoFloor => mapSize[mapChange] = 0

FrameInv == ServerTypeOK /\ FramesFit /\ MapGone

\* No frame fits where no map is.
LEMMA NoFrameWithoutMap == FrameInv => NoFrameDuringMapChange
<1> SUFFICES ASSUME FrameInv, mapChange # NoFloor, NEW e \in Exhibit, frame[e] # NoFrame,
                    frame[e].floor = mapChange
             PROVE  FALSE
  BY DEF NoFrameDuringMapChange
<1>1. frame[e] \in Frame
  BY DEF FrameInv, ServerTypeOK, MaybeFrame
<1>2. frame[e].extent \in Nat \ {0}
  BY <1>1, CatalogueAssumption DEF Frame
<1>3. frame[e].extent =< 0
  BY DEF FrameInv, FramesFit, FrameFits, MapGone
<1>4. QED
  BY <1>2, <1>3

\* A frame that checkFrame accepts is the only one a command writes, and a
\* command that changes a map takes the frames on its floor.
LEMMA FramesKept ==
    ASSUME FrameInv, ServerNext
    PROVE  FramesFit' /\ MapGone'
<1> USE CatalogueAssumption DEF FrameInv, ServerTypeOK, MaybeFrame, Frame, FramesFit, FrameFits, MapGone
<1>1. ASSUME NEW e \in Exhibit, NEW c \in Colour, NEW f \in MaybeFrame, Create(e, c, f)
      PROVE  FramesFit' /\ MapGone'
  BY <1>1 DEF Create, mapVars
<1>2. ASSUME NEW e \in Exhibit, NEW c \in Colour, NEW f \in MaybeFrame, Update(e, c, f)
      PROVE  FramesFit' /\ MapGone'
  BY <1>2 DEF Update, SetFrame, mapVars
<1>3. ASSUME NEW e \in Exhibit, NEW x \in Extent, Move(e, x)
      PROVE  FramesFit' /\ MapGone'
  BY <1>3 DEF Move, SetFrame, mapVars
<1>4. ASSUME NEW e \in Exhibit, Remove(e) \/ Retain(e)
      PROVE  FramesFit' /\ MapGone'
  BY <1>4 DEF Remove, Retain, mapVars
<1>5. CASE Refresh
  BY <1>5 DEF Refresh, mapVars
<1>6. ASSUME NEW fl \in Floor, RemoveMap(fl) \/ BeginSetMap(fl)
      PROVE  FramesFit' /\ MapGone'
  <2>1. ASSUME NEW e \in Exhibit, frame'[e] # NoFrame
        PROVE  frame'[e] = frame[e] /\ frame[e] \in Frame /\ frame[e].floor # fl
    BY <1>6, <2>1 DEF RemoveMap, BeginSetMap, RemoveOldData, ResetFrames
  <2>2. mapSize' = [mapSize EXCEPT ![fl] = 0]
    BY <1>6 DEF RemoveMap, BeginSetMap, RemoveOldData
  <2>3. FramesFit'
    BY <2>1, <2>2
  <2>4. MapGone'
    BY <1>6, <2>2 DEF RemoveMap, BeginSetMap, RemoveOldData
  <2>5. QED
    BY <2>3, <2>4
<1>7. ASSUME NEW n \in Extent, FinishSetMap(n)
      PROVE  FramesFit' /\ MapGone'
  <2>1. frame' = frame /\ mapSize' = [mapSize EXCEPT ![mapChange] = n] /\ mapChange' = NoFloor
    BY <1>7 DEF FinishSetMap, rowVars
  <2>2. \A e \in Exhibit : frame[e] # NoFrame => frame[e] \in Frame /\ frame[e].floor # mapChange
    BY <1>7, NoFrameWithoutMap DEF NoFrameDuringMapChange, FinishSetMap
  <2>3. QED
    BY <2>1, <2>2
<1>8. CASE FailSetMap
  BY <1>8 DEF FailSetMap, rowVars
<1>9. QED
  BY <1>1, <1>2, <1>3, <1>4, <1>5, <1>6, <1>7, <1>8 DEF ServerNext

\* The catalogue starts well typed and without frames.
LEMMA FramesStart == ServerInit => FrameInv
<1>1. (CHOOSE c \in Colour : TRUE) \in Colour
  BY CatalogueAssumption
<1>2. QED
  BY CatalogueAssumption, <1>1
  DEF ServerInit, FrameInv, ServerTypeOK, Status, MaybeFrame, FramesFit, FrameFits, MapGone

\* Types, frames and maps of the catalogue, under its commands alone.
THEOREM CatalogueInvariant == ServerSpec => []FrameInv
<1>1. FrameInv /\ [ServerNext]_serverVars => FrameInv'
  <2> SUFFICES ASSUME FrameInv, [ServerNext]_serverVars PROVE FrameInv'
    OBVIOUS
  <2>1. CASE ServerNext
    BY <2>1, ServerTypePreserved, FramesKept DEF FrameInv
  <2>2. CASE UNCHANGED serverVars
    BY <2>2 DEF FrameInv, ServerTypeOK, FramesFit, FrameFits, MapGone, serverVars, rowVars, mapVars
  <2>3. QED
    BY <2>1, <2>2
<1>2. QED
  BY <1>1, FramesStart, PTL DEF ServerSpec

\* Replacing or removing a map, of whatever size, never leaves a frame behind
\* that checkFrame would refuse, of a removed exhibit either.
THEOREM FramesAlwaysFit == ServerSpec => []FramesFit
<1>1. FrameInv => FramesFit
  BY DEF FrameInv
<1>2. QED
  BY <1>1, CatalogueInvariant, PTL

\* Between the two transactions of MapCommands::set, which hold no lock
\* together, nothing is framed on the floor whose map is gone.
THEOREM NoFrameMeanwhile == ServerSpec => []NoFrameDuringMapChange
BY NoFrameWithoutMap, CatalogueInvariant, PTL

-----------------------------------------------------------------------------
(* The tablet: types *)

\* An answer of the server is a reply record.
LEMMA NewExhibitsType ==
    ASSUME ServerTypeOK, NEW v
    PROVE  NewExhibits(v) \in Reply
<1>1. ASSUME NEW e \in Exhibit PROVE FromServer(e) \in Item
  BY DEF ServerTypeOK, FromServer, Item
<1>2. QED
  BY <1>1 DEF ServerTypeOK, NewExhibits, Answer, Reply, UpToDeletion

\* Restricting a copy to the floors of a map keeps its type.
LEMMA OnFloorsType ==
    ASSUME NEW items \in [Exhibit -> Item \union {Absent}], NEW n
    PROVE  OnFloors(items, n) \in [Exhibit -> Item \union {Absent}]
BY DEF OnFloors

\* Every step of the tablet keeps the tablet's types.
LEMMA ClientTypePreserved ==
    ASSUME TypeOK, ClientNext, UNCHANGED serverVars
    PROVE  TypeOK'
<1> USE CatalogueAssumption DEF EndTask
<1>0. ServerTypeOK'
  BY DEF TypeOK, ServerTypeOK, serverVars, rowVars, mapVars
<1>1. CASE Fetch
  BY <1>0, <1>1, NewExhibitsType DEF Fetch, TypeOK, realmVars, memoryVars
<1>2. CASE LoseAnswer \/ RealmThrows
  BY <1>0, <1>2 DEF LoseAnswer, RealmThrows, TypeOK, realmVars, memoryVars
<1>3. CASE ClearExhibits
  BY <1>0, <1>3 DEF ClearExhibits, TypeOK, Nothing
<1>4. CASE StoreExhibits
  <2>1. reply \in Reply
    BY <1>4 DEF StoreExhibits, TypeOK
  <2>2. /\ dbItems' \in [Exhibit -> Item \union {Absent}]
        /\ dbVersion' \in Nat \union {NoVersion}
    BY <1>4, <2>1 DEF StoreExhibits, TypeOK, Reply, Sent
  <2>3. QED
    BY <1>0, <1>4, <2>1, <2>2 DEF StoreExhibits, TypeOK, memoryVars
<1>5. ASSUME phase = "stored", NEW done, ShowItems(done)
      PROVE  shown' \in [Exhibit -> Item \union {Absent}]
  <2>1. reply \in Reply
    BY <1>5 DEF TypeOK
  <2>2. OnFloors(reply.items, memFloors) \in [Exhibit -> Item \union {Absent}]
    BY <2>1, OnFloorsType DEF Reply
  <2>3. QED
    BY <1>5, <2>2 DEF ShowItems, TypeOK
<1>6. CASE ShowExhibits
  <2>1. reply \in Reply /\ shown' \in [Exhibit -> Item \union {Absent}]
    BY <1>5, <1>6 DEF ShowExhibits, TypeOK
  <2>2. QED
    BY <1>0, <1>6, <2>1 DEF ShowExhibits, TypeOK, Reply, realmVars
<1>7. CASE MissFloor
  <2>1. shown' \in [Exhibit -> Item \union {Absent}]
    BY <1>5, <1>7 DEF MissFloor
  <2>2. QED
    BY <1>0, <1>7, <2>1 DEF MissFloor, TypeOK, realmVars
<1>8. CASE StartMapDownload
  BY <1>0, <1>8 DEF StartMapDownload, TypeOK, memoryVars
<1>9. ASSUME NEW fl \in Floor, SaveFloor(fl)
      PROVE  TypeOK'
  BY <1>0, <1>9 DEF SaveFloor, TypeOK, memoryVars
<1>10. CASE FinishMapDownload
  BY <1>0, <1>10, OnFloorsType DEF FinishMapDownload, LoadFromRealm, StartSync, TypeOK, realmVars
<1>11. CASE FailMapDownload
  BY <1>0, <1>11 DEF FailMapDownload, TypeOK, realmVars, memoryVars
<1>12. CASE ResetClick
  BY <1>0, <1>12 DEF ResetClick, TypeOK, memoryVars, taskVars
<1>13. CASE Restart
  <2>1. OnFloors(dbItems, dbFloors) \in [Exhibit -> Item \union {Absent}]
    BY OnFloorsType DEF TypeOK
  <2>2. CASE dbFloors > 0
    BY <1>0, <1>13, <2>1, <2>2 DEF Restart, LoadFromRealm, TypeOK, realmVars
  <2>3. CASE ~(dbFloors > 0)
    <3>1. shown' \in [Exhibit -> Item \union {Absent}]
      BY <1>13, <2>3 DEF Restart, Nothing
    <3>2. schedule' \in {"none", "runs", "ended"}
      BY <1>13, <2>3 DEF Restart
    <3>3. memVersion' \in Nat \union {NoVersion}
      BY <1>13, <2>3 DEF Restart
    <3>4. memFloors' \in Nat
      BY <1>13, <2>3 DEF Restart
    <3>5. QED
      BY <1>0, <1>13, <3>1, <3>2, <3>3, <3>4 DEF Restart, TypeOK, realmVars
  <2>4. QED
    BY <2>2, <2>3
<1>14. CASE LoadThrows
  <2>1. PICK n \in Partial : LoadFromRealm(n)
    BY <1>14 DEF LoadThrows
  <2>2. /\ shown' \in [Exhibit -> Item \union {Absent}]
        /\ memVersion' \in Nat \union {NoVersion} /\ memFloors' \in Nat
    BY <2>1, OnFloorsType, SyncAssumption DEF LoadFromRealm, TypeOK
  <2>3. QED
    BY <1>0, <1>14, <2>2 DEF LoadThrows, TypeOK, realmVars
<1>15. QED
  BY <1>1, <1>2, <1>3, <1>4, <1>6, <1>7, <1>8, <1>9, <1>10, <1>11, <1>12, <1>13, <1>14
  DEF ClientNext, ExecutorStep, ReachRealm, MapStep, Disturbance

\* Type correctness of the catalogue together with the tablet's copy.
THEOREM ExhibitSyncTyped == Spec => []TypeOK
<1>1. Init => TypeOK
  <2>1. (CHOOSE c \in Colour : TRUE) \in Colour
    BY CatalogueAssumption
  <2>2. Init => ServerTypeOK
    BY CatalogueAssumption, <2>1 DEF Init, ServerInit, ServerTypeOK, Status, MaybeFrame
  <2>3. Nothing \in [Exhibit -> Item \union {Absent}]
    BY DEF Nothing
  <2>4. ClientInit => /\ dbItems \in [Exhibit -> Item \union {Absent}]
                      /\ shown \in [Exhibit -> Item \union {Absent}]
    BY <2>3 DEF ClientInit
  <2>5. ClientInit => schedule = "none" /\ hollow \in BOOLEAN
    BY DEF ClientInit
  <2>6. ClientInit => /\ dbFloors \in Nat /\ memFloors \in Nat
                      /\ dbVersion = NoVersion /\ memVersion = NoVersion
                      /\ phase = "idle" /\ reply = NoReply /\ toSave = {}
    BY DEF ClientInit
  <2>7. QED
    BY <2>2, <2>4, <2>5, <2>6 DEF Init, TypeOK
<1>2. TypeOK /\ [Next]_vars => TypeOK'
  <2> SUFFICES ASSUME TypeOK, [Next]_vars PROVE TypeOK'
    OBVIOUS
  <2>1. CASE ServerNext /\ UNCHANGED clientVars
    BY <2>1, ServerTypePreserved
    DEF TypeOK, clientVars, realmVars, memoryVars, taskVars
  <2>2. CASE ClientNext /\ UNCHANGED serverVars
    BY <2>2, ClientTypePreserved
  <2>3. CASE UNCHANGED vars
    BY <2>3 DEF TypeOK, ServerTypeOK, vars, serverVars, rowVars, mapVars,
                clientVars, realmVars, memoryVars, taskVars
  <2>4. QED
    BY <2>1, <2>2, <2>3 DEF Next
<1>3. QED
  BY <1>1, <1>2, PTL DEF Spec

-----------------------------------------------------------------------------
(* The copy under the server's steps *)

\* A copy right about a version the server has announced stays right about it.
LEMMA FaithfulKept ==
    ASSUME TypeOK, TypeOK', VersionedChange, UNCHANGED clientVars
    PROVE  /\ dbVersion =< lastVersion /\ Faithful(dbItems, dbVersion)
                => Faithful(dbItems, dbVersion)'
           /\ memVersion =< lastVersion /\ Faithful(dbItems, memVersion)
                => Faithful(dbItems, memVersion)'
           /\ phase = "stored" /\ reply.version =< lastVersion /\ Faithful(dbItems, reply.version)
                => Faithful(dbItems, reply.version)'
<1>1. /\ dbItems' = dbItems /\ dbVersion' = dbVersion /\ memVersion' = memVersion
      /\ reply' = reply
  BY DEF clientVars, realmVars, memoryVars, taskVars
<1> DEFINE Kept(v) == (v # NoVersion /\ v >= lastDeleted') =>
               \A e \in Exhibit :
                  /\ dbItems[e] # Absent => status'[e] = "live"
                  /\ status'[e] = "live" /\ version'[e] =< v =>
                        dbItems[e] # Absent /\ dbItems[e].frame = frame'[e]
<1>2. ASSUME NEW v \in Nat \union {NoVersion}, v =< lastVersion, Faithful(dbItems, v)
      PROVE  Kept(v)
  BY <1>2 DEF Faithful, UpToDeletion, VersionedChange, TypeOK, ServerTypeOK, NoVersion
<1>3. ASSUME phase = "stored"
      PROVE  reply.version \in Nat
  BY <1>3 DEF TypeOK, Reply
<1>4. dbVersion \in Nat \union {NoVersion} /\ memVersion \in Nat \union {NoVersion}
  BY DEF TypeOK
<1>5. Kept(dbVersion) => Faithful(dbItems, dbVersion)'
  BY <1>1 DEF Faithful, UpToDeletion
<1>6. Kept(memVersion) => Faithful(dbItems, memVersion)'
  BY <1>1 DEF Faithful, UpToDeletion
<1>7. Kept(reply.version) => Faithful(dbItems, reply.version)'
  BY <1>1 DEF Faithful, UpToDeletion
<1> HIDE DEF Kept
<1>8. QED
  BY <1>2, <1>3, <1>4, <1>5, <1>6, <1>7

\* Every command keeps the invariant of the copy.
LEMMA ServerKeepsSyncInv ==
    ASSUME TypeOK, TypeOK', SyncInv, VersionedChange, VersionsBounded', UNCHANGED clientVars
    PROVE  SyncInv'
<1>1. /\ dbItems' = dbItems /\ dbVersion' = dbVersion /\ memVersion' = memVersion
      /\ memFloors' = memFloors /\ shown' = shown /\ phase' = phase
      /\ reply' = reply /\ hollow' = hollow
  BY DEF clientVars, realmVars, memoryVars, taskVars
<1>2. /\ lastVersion \in Nat /\ lastVersion' \in Nat /\ lastDeleted \in Nat /\ lastDeleted' \in Nat
      /\ version \in [Exhibit -> Nat] /\ version' \in [Exhibit -> Nat]
      /\ dbVersion \in Int /\ memVersion \in Int
  BY DEF TypeOK, ServerTypeOK, NoVersion
<1>3. phase \in {"answered", "cleared", "stored"} => reply.version \in Nat
  BY DEF TypeOK, Reply
<1>4. lastDeleted =< lastDeleted'
  BY <1>2 DEF SyncInv, VersionedChange, VersionsBounded
<1>5. (dbVersion =< lastVersion /\ memVersion =< lastVersion)'
  BY <1>1, <1>2 DEF SyncInv, VersionedChange
<1>6. /\ ~UpToDeletion(memVersion) => ~UpToDeletion(memVersion)'
      /\ ~UpToDeletion(dbVersion) => ~UpToDeletion(dbVersion)'
  BY <1>1, <1>2, <1>4 DEF UpToDeletion
<1>7. ReplySound'
  <2> SUFFICES ASSUME phase \in {"answered", "cleared", "stored"}
               PROVE  ReplySound'
    BY <1>1 DEF ReplySound
  <2>1. /\ memVersion =< reply.version /\ reply.version =< lastVersion
        /\ reply.full => ~UpToDeletion(memVersion)
        /\ ~reply.full => UpToDeletion(memVersion) \/ lastDeleted > reply.version
    BY DEF SyncInv, ReplySound
  <2>2. /\ (memVersion =< reply.version /\ reply.version =< lastVersion)'
        /\ reply'.full => ~UpToDeletion(memVersion)'
    BY <1>1, <1>2, <1>3, <1>6, <2>1 DEF VersionedChange
  <2>3. ~reply.full => UpToDeletion(memVersion)' \/ lastDeleted' > reply.version
    BY <1>1, <1>2, <1>3, <2>1 DEF VersionedChange, UpToDeletion
  <2>4. ASSUME lastDeleted' =< reply.version, NEW e \in Exhibit
        PROVE  /\ e \in Sent => status'[e] = "live" /\ (reply.full \/ version'[e] > memVersion)
               /\ status'[e] = "live" /\ version'[e] =< reply.version =>
                     IF e \in Sent THEN reply.items[e].frame = frame'[e]
                     ELSE ~reply.full /\ version'[e] =< memVersion
    <3>1. lastDeleted' = lastDeleted /\ lastDeleted =< reply.version
      BY <1>2, <1>3, <2>1, <2>4 DEF VersionedChange
    <3>2. /\ e \in Sent => status[e] = "live" /\ (reply.full \/ version[e] > memVersion)
          /\ status[e] = "live" /\ version[e] =< reply.version =>
                IF e \in Sent THEN reply.items[e].frame = frame[e]
                ELSE ~reply.full /\ version[e] =< memVersion
      BY <3>1 DEF SyncInv, ReplySound
    <3>3. QED
      BY <1>2, <1>3, <2>1, <3>1, <3>2 DEF VersionedChange
  <2>5. Sent' = Sent
    BY <1>1 DEF Sent
  <2>6. QED
    BY <1>1, <2>2, <2>3, <2>4, <2>5 DEF ReplySound
<1>8. RefreshSound'
  BY <1>1, <1>6 DEF SyncInv, RefreshSound, Nothing
<1>9. RealmSoundThroughout'
  <2>1. phase = "stored" => reply.version =< lastVersion
    BY DEF SyncInv, ReplySound
  <2>2. QED
    BY <1>1, <2>1, FaithfulKept DEF SyncInv, RealmSoundThroughout
<1>10. MemorySound'
  <2> SUFFICES ASSUME ~hollow, UpToDeletion(memVersion)', NEW e \in Exhibit
               PROVE  /\ shown[e] # Absent => status'[e] = "live"
                      /\ status'[e] = "live" /\ version'[e] =< memVersion =>
                            IF frame'[e] # NoFrame /\ frame'[e].floor < memFloors
                            THEN shown[e] # Absent /\ shown[e].frame = frame'[e]
                            ELSE shown[e] = Absent
    BY <1>1 DEF MemorySound
  <2>1. UpToDeletion(memVersion) /\ memVersion =< lastVersion /\ lastDeleted' = lastDeleted
    BY <1>1, <1>2, <1>6 DEF SyncInv, UpToDeletion, VersionedChange
  <2>2. /\ shown[e] # Absent => status[e] = "live"
        /\ status[e] = "live" /\ version[e] =< memVersion =>
              IF frame[e] # NoFrame /\ frame[e].floor < memFloors
              THEN shown[e] # Absent /\ shown[e].frame = frame[e]
              ELSE shown[e] = Absent
    BY <2>1 DEF SyncInv, MemorySound
  <2>3. QED
    BY <1>2, <2>1, <2>2 DEF VersionedChange
<1>11. QED
  BY <1>5, <1>7, <1>8, <1>9, <1>10 DEF SyncInv

-----------------------------------------------------------------------------
(* The copy under the tablet's own steps *)

\* The server answers with a sound reply, which no copy has taken over yet.
LEMMA FetchKeepsSyncInv ==
    ASSUME TypeOK, TypeOK', SyncInv, Fetch, UNCHANGED serverVars
    PROVE  SyncInv'
<1> USE DEF serverVars, rowVars, mapVars, realmVars, memoryVars
<1>1. /\ reply' = NewExhibits(memVersion) /\ phase' = "answered"
      /\ UNCHANGED <<dbItems, dbVersion, memVersion, memFloors, shown, hollow>>
  BY DEF Fetch
<1>2. /\ reply'.full <=> ~UpToDeletion(memVersion)
      /\ reply'.version = lastVersion
      /\ \A e \in Exhibit : reply'.items[e] =
            IF e \in Live /\ (reply'.full \/ version[e] > memVersion)
            THEN FromServer(e) ELSE Absent
  BY <1>1 DEF NewExhibits, Answer
<1>3. ASSUME NEW e \in Exhibit
      PROVE  FromServer(e) # Absent /\ FromServer(e).frame = frame[e]
  BY SyncAssumption DEF FromServer, Item, TypeOK, ServerTypeOK
<1>4. \A e \in Exhibit :
         /\ e \in Sent' <=> status[e] = "live" /\ (reply'.full \/ version[e] > memVersion)
         /\ e \in Sent' => reply'.items[e].frame = frame[e]
  BY <1>2, <1>3 DEF Sent, Live
<1>5. /\ lastVersion \in Nat /\ lastDeleted \in Nat /\ version \in [Exhibit -> Nat]
      /\ memVersion \in Int
  BY DEF TypeOK, ServerTypeOK, NoVersion
<1>6. ReplySound'
  <2>1. UpToDeletion(memVersion)' <=> UpToDeletion(memVersion)
    BY <1>1 DEF UpToDeletion
  <2>2. /\ (memVersion =< reply.version /\ reply.version =< lastVersion)'
        /\ lastDeleted =< reply'.version
        /\ \A e \in Exhibit : version[e] =< reply'.version
    BY <1>1, <1>2, <1>5 DEF SyncInv, VersionsBounded
  <2>3. QED
    BY <1>1, <1>2, <1>4, <1>5, <2>1, <2>2 DEF ReplySound
<1>7. RefreshSound'
  BY <1>1 DEF RefreshSound
<1>8. RealmSoundThroughout'
  BY <1>1 DEF SyncInv, RealmSoundThroughout, Faithful, UpToDeletion
<1>9. MemorySound'
  BY <1>1 DEF SyncInv, MemorySound, UpToDeletion
<1>10. QED
  BY <1>1, <1>6, <1>7, <1>8, <1>9 DEF SyncInv, VersionsBounded

\* A task that ends, or a reset, leaves the two copies as they are.
LEMMA EndingKeepsSyncInv ==
    ASSUME TypeOK, SyncInv, UNCHANGED serverVars,
           UNCHANGED <<dbItems, shown, memVersion, memFloors, hollow>>,
           dbVersion' \in {dbVersion, NoVersion},
           \/ phase' \in {"idle", "mapping"}
           \/ UNCHANGED <<phase, reply>>
    PROVE  SyncInv'
<1> USE DEF serverVars, rowVars, mapVars
<1>1. dbVersion' = NoVersion => dbVersion' =< lastVersion /\ ~UpToDeletion(dbVersion)'
  BY DEF UpToDeletion, NoVersion, TypeOK, ServerTypeOK
<1>2. (dbVersion =< lastVersion /\ memVersion =< lastVersion)' /\ VersionsBounded'
  BY <1>1 DEF SyncInv, VersionsBounded
<1>3. ReplySound'
  BY DEF SyncInv, ReplySound, Sent, UpToDeletion
<1>4. RefreshSound'
  BY <1>1 DEF SyncInv, RefreshSound, Nothing, UpToDeletion
<1>5. RealmSoundThroughout'
  BY <1>1 DEF SyncInv, RealmSoundThroughout, Faithful, UpToDeletion
<1>6. MemorySound'
  BY DEF SyncInv, MemorySound, UpToDeletion
<1>7. QED
  BY <1>2, <1>3, <1>4, <1>5, <1>6 DEF SyncInv

\* Loading memory from Realm makes memory as right as Realm is.
LEMMA LoadKeepsSyncInv ==
    ASSUME TypeOK, TypeOK', SyncInv, UNCHANGED serverVars,
           UNCHANGED <<dbItems, dbVersion, hollow>>, phase' = "idle",
           \/ memVersion' = NoVersion
           \/ memVersion' = dbVersion /\ shown' = OnFloors(dbItems, memFloors')
    PROVE  SyncInv'
<1> USE DEF serverVars, rowVars, mapVars
<1>1. memVersion' =< lastVersion /\ VersionsBounded'
  BY DEF SyncInv, VersionsBounded, NoVersion, TypeOK, ServerTypeOK
<1>2. ReplySound' /\ RefreshSound'
  BY DEF ReplySound, RefreshSound
<1>3. RealmSoundThroughout'
  BY DEF SyncInv, RealmSoundThroughout, Faithful, UpToDeletion
<1>4. MemorySound'
  <2> SUFFICES ASSUME ~hollow, UpToDeletion(memVersion)', NEW e \in Exhibit
               PROVE  /\ shown'[e] # Absent => status[e] = "live"
                      /\ status[e] = "live" /\ version[e] =< memVersion' =>
                            IF frame[e] # NoFrame /\ frame[e].floor < memFloors'
                            THEN shown'[e] # Absent /\ shown'[e].frame = frame[e]
                            ELSE shown'[e] = Absent
    BY DEF MemorySound
  <2>1. memVersion' = dbVersion /\ UpToDeletion(dbVersion)
    BY DEF UpToDeletion
  <2>2. shown'[e] = IF dbItems[e] # Absent /\ dbItems[e].frame # NoFrame
                       /\ dbItems[e].frame.floor < memFloors'
                    THEN dbItems[e] ELSE Absent
    BY <2>1 DEF OnFloors, UpToDeletion
  <2>3. /\ dbItems[e] # Absent => status[e] = "live"
        /\ status[e] = "live" /\ version[e] =< dbVersion =>
              dbItems[e] # Absent /\ dbItems[e].frame = frame[e]
    BY <2>1 DEF SyncInv, RealmSoundThroughout, Faithful
  <2>4. QED
    BY <2>1, <2>2, <2>3
<1>5. QED
  BY <1>1, <1>2, <1>3, <1>4 DEF SyncInv

\* Emptying both copies is sound: a full answer means neither memory nor,
\* unless that is recorded in `hollow`, Realm was up to the last removal.
LEMMA ClearKeepsSyncInv ==
    ASSUME TypeOK, SyncInv, ClearExhibits, UNCHANGED serverVars
    PROVE  SyncInv'
<1> USE DEF serverVars, rowVars, mapVars
<1>1. /\ phase = "answered" /\ phase' = "cleared" /\ reply' = reply /\ reply.full
      /\ dbItems' = Nothing /\ shown' = Nothing
      /\ dbVersion' = dbVersion /\ memVersion' = memVersion /\ memFloors' = memFloors
      /\ ~hollow' => ~hollow /\ ~UpToDeletion(dbVersion)
  BY DEF ClearExhibits
<1>2. ~UpToDeletion(memVersion)
  BY <1>1 DEF SyncInv, ReplySound
<1>3. ReplySound'
  BY <1>1 DEF SyncInv, ReplySound, Sent, UpToDeletion
<1>4. RefreshSound'
  BY <1>1 DEF RefreshSound, UpToDeletion, Nothing
<1>5. RealmSoundThroughout'
  BY <1>1, <1>2 DEF RealmSoundThroughout, Faithful, UpToDeletion
<1>6. MemorySound'
  BY <1>1, <1>2 DEF MemorySound, UpToDeletion
<1>7. QED
  BY <1>1, <1>3, <1>4, <1>5, <1>6 DEF SyncInv, VersionsBounded

\* Storing a sound answer makes Realm right about the answer's version.
LEMMA StoreKeepsSyncInv ==
    ASSUME TypeOK, SyncInv, StoreExhibits, UNCHANGED serverVars
    PROVE  SyncInv'
<1> USE DEF serverVars, rowVars, mapVars
<1>1. /\ phase \in {"answered", "cleared"} /\ phase' = "stored" /\ reply' = reply
      /\ phase = "answered" => ~reply.full
      /\ dbItems' = [e \in Exhibit |-> IF e \in Sent THEN reply.items[e] ELSE dbItems[e]]
      /\ dbVersion' = reply.version
      /\ UNCHANGED <<shown, memVersion, memFloors>>
      /\ hollow' <=> hollow /\ ~reply.full
  BY DEF StoreExhibits, memoryVars
<1>2. /\ reply.version \in Nat /\ lastDeleted \in Nat /\ memVersion \in Int
      /\ lastVersion \in Nat /\ version \in [Exhibit -> Nat]
  BY <1>1 DEF TypeOK, ServerTypeOK, Reply, NoVersion
<1>3. /\ memVersion =< reply.version /\ reply.version =< lastVersion
      /\ reply.full => ~UpToDeletion(memVersion)
      /\ ~reply.full => UpToDeletion(memVersion) \/ lastDeleted > reply.version
      /\ lastDeleted =< reply.version =>
            \A e \in Exhibit :
                /\ e \in Sent => status[e] = "live" /\ (reply.full \/ version[e] > memVersion)
                /\ status[e] = "live" /\ version[e] =< reply.version =>
                      IF e \in Sent THEN reply.items[e].frame = frame[e]
                      ELSE ~reply.full /\ version[e] =< memVersion
  BY <1>1 DEF SyncInv, ReplySound
<1>4. reply.full => phase = "cleared" /\ dbItems = Nothing /\ shown = Nothing
  BY <1>1 DEF SyncInv, RefreshSound
<1>5. ASSUME ~hollow', lastDeleted =< reply.version, NEW e \in Exhibit
      PROVE  /\ dbItems'[e] # Absent => status[e] = "live"
             /\ status[e] = "live" /\ version[e] =< reply.version =>
                   dbItems'[e] # Absent /\ dbItems'[e].frame = frame[e]
  <2>1. e \in Sent => dbItems'[e] = reply.items[e] /\ reply.items[e] # Absent
    BY <1>1 DEF Sent
  <2>2. e \notin Sent => dbItems'[e] = dbItems[e]
    BY <1>1
  <2>3. CASE reply.full
    BY <1>3, <1>4, <1>5, <2>1, <2>2, <2>3 DEF Nothing
  <2>4. CASE ~reply.full
    <3>1. ~hollow /\ UpToDeletion(memVersion)
      BY <1>1, <1>2, <1>3, <1>5, <2>4
    <3>2. Faithful(dbItems, memVersion)
      BY <3>1 DEF SyncInv, RealmSoundThroughout
    <3>3. /\ dbItems[e] # Absent => status[e] = "live"
          /\ status[e] = "live" /\ version[e] =< memVersion =>
                dbItems[e] # Absent /\ dbItems[e].frame = frame[e]
      BY <3>1, <3>2 DEF Faithful
    <3>4. QED
      BY <1>3, <1>5, <2>1, <2>2, <2>4, <3>3
  <2>5. QED
    BY <2>3, <2>4
<1>6. ReplySound'
  BY <1>1 DEF SyncInv, ReplySound, Sent, UpToDeletion
<1>7. RefreshSound'
  BY <1>1, <1>4 DEF RefreshSound, Nothing
<1>8. RealmSoundThroughout'
  <2> SUFFICES ASSUME ~hollow'
               PROVE  Faithful(dbItems, reply.version)' /\ Faithful(dbItems, memVersion)'
    BY <1>1 DEF RealmSoundThroughout
  <2>1. Faithful(dbItems, reply.version)'
    BY <1>1, <1>5 DEF Faithful, UpToDeletion
  <2>2. Faithful(dbItems, memVersion)'
    <3> SUFFICES ASSUME memVersion # NoVersion, memVersion >= lastDeleted, NEW e \in Exhibit
                 PROVE  /\ dbItems'[e] # Absent => status[e] = "live"
                        /\ status[e] = "live" /\ version[e] =< memVersion =>
                              dbItems'[e] # Absent /\ dbItems'[e].frame = frame[e]
      BY <1>1 DEF Faithful, UpToDeletion
    <3>1. lastDeleted =< reply.version
      BY <1>2, <1>3
    <3>2. version[e] =< memVersion => version[e] =< reply.version
      BY <1>2, <1>3
    <3>3. QED
      BY <1>5, <3>1, <3>2
  <2>3. QED
    BY <2>1, <2>2
<1>9. MemorySound'
  <2>1. CASE hollow /\ reply.full
    BY <1>1, <1>3, <2>1 DEF MemorySound, UpToDeletion
  <2>2. CASE ~(hollow /\ reply.full)
    BY <1>1, <2>2 DEF SyncInv, MemorySound, UpToDeletion
  <2>3. QED
    BY <2>1, <2>2
<1>10. QED
  BY <1>1, <1>3, <1>6, <1>7, <1>8, <1>9 DEF SyncInv, VersionsBounded

\* What a stored answer says about an exhibit, used by the two steps that
\* bring it into memory.
LEMMA StoredAnswer ==
    ASSUME TypeOK, SyncInv, phase = "stored", lastDeleted =< reply.version, NEW e \in Exhibit
    PROVE  /\ e \in Sent => status[e] = "live" /\ (reply.full \/ version[e] > memVersion)
           /\ status[e] = "live" /\ version[e] =< reply.version =>
                 IF e \in Sent THEN reply.items[e].frame = frame[e]
                 ELSE ~reply.full /\ version[e] =< memVersion
BY DEF SyncInv, ReplySound

\* Showing the whole answer makes memory right about its version.
LEMMA ShowKeepsSyncInv ==
    ASSUME TypeOK, SyncInv, ShowExhibits, UNCHANGED serverVars
    PROVE  SyncInv'
<1> USE DEF serverVars, rowVars, mapVars, realmVars
<1>1. /\ phase = "stored" /\ phase' = "idle" /\ memVersion' = reply.version
      /\ \A e \in Sent : ~OffFloor(e)
      /\ shown' = [e \in Exhibit |-> IF e \notin Sent THEN shown[e]
                                     ELSE OnFloors(reply.items, memFloors)[e]]
      /\ UNCHANGED <<dbItems, dbVersion, memFloors, hollow>>
  BY DEF ShowExhibits, ShowItems, EndTask
<1>2. /\ reply.version \in Nat /\ lastDeleted \in Nat /\ memVersion \in Int
  BY <1>1 DEF TypeOK, ServerTypeOK, Reply, NoVersion
<1>3. /\ reply.version =< lastVersion
      /\ ~reply.full => UpToDeletion(memVersion) \/ lastDeleted > reply.version
      /\ reply.full => shown = Nothing
      /\ ~hollow => Faithful(dbItems, dbVersion) /\ Faithful(dbItems, reply.version)
  BY <1>1 DEF SyncInv, ReplySound, RefreshSound, RealmSoundThroughout
<1>4. ReplySound' /\ RefreshSound'
  BY <1>1 DEF ReplySound, RefreshSound
<1>5. RealmSoundThroughout'
  BY <1>1, <1>3 DEF RealmSoundThroughout, Faithful, UpToDeletion
<1>6. MemorySound'
  <2> SUFFICES ASSUME ~hollow, lastDeleted =< reply.version, NEW e \in Exhibit
               PROVE  /\ shown'[e] # Absent => status[e] = "live"
                      /\ status[e] = "live" /\ version[e] =< reply.version =>
                            IF frame[e] # NoFrame /\ frame[e].floor < memFloors
                            THEN shown'[e] # Absent /\ shown'[e].frame = frame[e]
                            ELSE shown'[e] = Absent
    BY <1>1, <1>2 DEF MemorySound, UpToDeletion
  <2>1. CASE e \in Sent
    <3>1. shown'[e] = IF /\ reply.items[e] # Absent /\ reply.items[e].frame # NoFrame
                         /\ reply.items[e].frame.floor < memFloors
                      THEN reply.items[e] ELSE Absent
      BY <1>1, <2>1 DEF OnFloors
    <3>2. reply.items[e] # Absent
      BY <2>1 DEF Sent
    <3>3. QED
      BY <1>1, <2>1, <3>1, <3>2, StoredAnswer
  <2>2. CASE e \notin Sent
    <3>1. shown'[e] = shown[e]
      BY <1>1, <2>2
    <3>2. CASE reply.full
      BY <1>1, <1>3, <2>2, <3>1, <3>2, StoredAnswer DEF Nothing
    <3>3. CASE ~reply.full
      <4>1. UpToDeletion(memVersion)
        BY <1>2, <1>3, <3>3
      <4>2. /\ shown[e] # Absent => status[e] = "live"
            /\ status[e] = "live" /\ version[e] =< memVersion =>
                  IF frame[e] # NoFrame /\ frame[e].floor < memFloors
                  THEN shown[e] # Absent /\ shown[e].frame = frame[e]
                  ELSE shown[e] = Absent
        BY <4>1 DEF SyncInv, MemorySound
      <4>3. QED
        BY <1>1, <2>2, <3>1, <4>2, StoredAnswer
    <3>4. QED
      BY <3>2, <3>3
  <2>3. QED
    BY <2>1, <2>2
<1>7. QED
  BY <1>1, <1>3, <1>4, <1>5, <1>6 DEF SyncInv, VersionsBounded

\* Showing a part of the answer changes nothing memory's version speaks of.
LEMMA MissKeepsSyncInv ==
    ASSUME TypeOK, SyncInv, MissFloor, UNCHANGED serverVars
    PROVE  SyncInv'
<1> USE DEF serverVars, rowVars, mapVars, realmVars
<1>1. PICK touched \in SUBSET Sent :
         /\ phase = "stored" /\ phase' = "idle"
         /\ shown' = [e \in Exhibit |-> IF e \notin touched THEN shown[e]
                                        ELSE OnFloors(reply.items, memFloors)[e]]
         /\ UNCHANGED <<dbItems, dbVersion, memVersion, memFloors, hollow>>
  <2>1. PICK bad \in Sent, done \in SUBSET Sent : ShowItems(done \union {bad})
    BY DEF MissFloor
  <2>2. done \union {bad} \in SUBSET Sent
    BY <2>1
  <2>3. QED
    BY <2>1, <2>2 DEF MissFloor, ShowItems, EndTask
<1>2. /\ reply.version \in Nat /\ lastDeleted \in Nat /\ memVersion \in Int
      /\ version \in [Exhibit -> Nat]
  BY <1>1 DEF TypeOK, ServerTypeOK, Reply, NoVersion
<1>3. /\ memVersion =< reply.version
      /\ reply.full => ~UpToDeletion(memVersion)
  BY <1>1 DEF SyncInv, ReplySound
<1>4. ReplySound' /\ RefreshSound'
  BY <1>1 DEF ReplySound, RefreshSound
<1>5. RealmSoundThroughout'
  BY <1>1 DEF SyncInv, RealmSoundThroughout, Faithful, UpToDeletion
<1>6. MemorySound'
  <2> SUFFICES ASSUME ~hollow, UpToDeletion(memVersion), NEW e \in Exhibit
               PROVE  /\ shown'[e] # Absent => status[e] = "live"
                      /\ status[e] = "live" /\ version[e] =< memVersion =>
                            IF frame[e] # NoFrame /\ frame[e].floor < memFloors
                            THEN shown'[e] # Absent /\ shown'[e].frame = frame[e]
                            ELSE shown'[e] = Absent
    BY <1>1 DEF MemorySound, UpToDeletion
  <2>1. ~reply.full /\ lastDeleted =< reply.version
    BY <1>2, <1>3 DEF UpToDeletion
  <2>2. CASE e \in touched
    <3>1. status[e] = "live" /\ version[e] > memVersion
      BY <1>1, <2>1, <2>2, StoredAnswer
    <3>2. QED
      BY <1>2, <3>1
  <2>3. CASE e \notin touched
    BY <1>1, <2>3 DEF SyncInv, MemorySound
  <2>4. QED
    BY <2>2, <2>3
<1>7. QED
  BY <1>1, <1>4, <1>5, <1>6 DEF SyncInv, VersionsBounded

-----------------------------------------------------------------------------
(* The theorems *)

\* Every step of the tablet keeps the invariant of the copy.
LEMMA ClientKeepsSyncInv ==
    ASSUME TypeOK, TypeOK', SyncInv, ClientNext, UNCHANGED serverVars
    PROVE  SyncInv'
<1> USE DEF realmVars, memoryVars, taskVars, EndTask
<1>1. CASE Fetch
  BY <1>1, FetchKeepsSyncInv
<1>2. CASE ClearExhibits
  BY <1>2, ClearKeepsSyncInv
<1>3. CASE StoreExhibits
  BY <1>3, StoreKeepsSyncInv
<1>4. CASE ShowExhibits
  BY <1>4, ShowKeepsSyncInv
<1>5. CASE MissFloor
  BY <1>5, MissKeepsSyncInv
<1>6. CASE LoseAnswer \/ RealmThrows
  BY <1>6, EndingKeepsSyncInv DEF LoseAnswer, RealmThrows
<1>7. CASE FailMapDownload
  BY <1>7, EndingKeepsSyncInv DEF FailMapDownload
<1>8. CASE StartMapDownload
  BY <1>8, EndingKeepsSyncInv DEF StartMapDownload
<1>9. ASSUME NEW fl \in Floor, SaveFloor(fl)
      PROVE  SyncInv'
  BY <1>9, EndingKeepsSyncInv DEF SaveFloor
<1>10. CASE ResetClick
  BY <1>10, EndingKeepsSyncInv DEF ResetClick
<1>11. CASE FinishMapDownload
  BY <1>11, LoadKeepsSyncInv DEF FinishMapDownload, LoadFromRealm
<1>12. CASE Restart
  BY <1>12, LoadKeepsSyncInv DEF Restart, LoadFromRealm
<1>13. CASE LoadThrows
  BY <1>13, LoadKeepsSyncInv DEF LoadThrows, LoadFromRealm
<1>14. QED
  BY <1>1, <1>2, <1>3, <1>4, <1>5, <1>6, <1>7, <1>8, <1>9, <1>10, <1>11, <1>12, <1>13
  DEF ClientNext, ExecutorStep, ReachRealm, MapStep, Disturbance

\* The invariant of the copy holds throughout.
THEOREM CopySound == Spec => []SyncInv
<1>1. Init => SyncInv
  <2> SUFFICES ASSUME Init PROVE SyncInv
    OBVIOUS
  <2>1. /\ dbItems = Nothing /\ shown = Nothing /\ phase = "idle"
        /\ dbVersion = -1 /\ memVersion = -1
        /\ lastVersion = 0 /\ lastDeleted = 0 /\ version = [e \in Exhibit |-> 0]
    BY DEF Init, ServerInit, ClientInit, NoVersion
  <2>2. VersionsBounded /\ ReplySound /\ RefreshSound
    BY <2>1 DEF VersionsBounded, ReplySound, RefreshSound
  <2>3. ~UpToDeletion(dbVersion) /\ ~UpToDeletion(memVersion)
    BY <2>1 DEF UpToDeletion, NoVersion
  <2>4. RealmSoundThroughout /\ MemorySound
    BY <2>1, <2>3 DEF RealmSoundThroughout, MemorySound, Faithful
  <2>5. QED
    BY <2>1, <2>2, <2>4 DEF SyncInv
<1>2. TypeOK /\ TypeOK' /\ SyncInv /\ [Next]_vars => SyncInv'
  <2> SUFFICES ASSUME TypeOK, TypeOK', SyncInv, [Next]_vars PROVE SyncInv'
    OBVIOUS
  <2>1. CASE ServerNext /\ UNCHANGED clientVars
    <3>1. VersionedChange /\ VersionsBounded'
      BY <2>1, ServerStepVersioned DEF TypeOK, SyncInv
    <3>2. QED
      BY <2>1, <3>1, ServerKeepsSyncInv
  <2>2. CASE ClientNext /\ UNCHANGED serverVars
    BY <2>2, ClientKeepsSyncInv
  <2>3. CASE UNCHANGED vars
    BY <2>3, EndingKeepsSyncInv DEF vars, clientVars, realmVars, memoryVars, taskVars
  <2>4. QED
    BY <2>1, <2>2, <2>3 DEF Next
<1>3. QED
  BY <1>1, <1>2, ExhibitSyncTyped, PTL DEF Spec

\* What Realm claims to know it has right, unless it was emptied under a
\* current version.
THEOREM RealmCopySound == Spec => []RealmSoundUnlessHollow
<1>1. SyncInv => RealmSoundUnlessHollow
  BY DEF SyncInv, RealmSoundThroughout, RealmSoundUnlessHollow, RealmSound
<1>2. QED
  BY <1>1, CopySound, PTL

\* What the map screen shows is right about everything memory claims to know.
THEOREM MemoryCopySound == Spec => []MemorySound
<1>1. SyncInv => MemorySound
  BY DEF SyncInv
<1>2. QED
  BY <1>1, CopySound, PTL

\* An answer is never older than what Realm has: it is computed for the version
\* in memory, which may be behind Realm's, but carries the server's.
ReplyNotOlder == phase \in {"answered", "cleared"} => dbVersion =< reply.version

LEMMA ReplyStaysNewer ==
    ASSUME TypeOK, SyncInv, ReplyNotOlder, ClientNext
    PROVE  ReplyNotOlder'
<1> USE DEF ReplyNotOlder, realmVars, memoryVars, taskVars, EndTask
<1>1. CASE Fetch
  BY <1>1 DEF Fetch, NewExhibits, Answer, SyncInv
<1>2. CASE ClearExhibits
  BY <1>2 DEF ClearExhibits
<1>3. CASE StoreExhibits \/ ShowExhibits \/ MissFloor
  BY <1>3 DEF StoreExhibits, ShowExhibits, MissFloor
<1>4. CASE \/ LoseAnswer \/ RealmThrows \/ StartMapDownload
           \/ FinishMapDownload \/ LoadThrows \/ FailMapDownload
  BY <1>4 DEF LoseAnswer, RealmThrows, StartMapDownload, FinishMapDownload, LoadThrows, FailMapDownload
<1>5. ASSUME NEW fl \in Floor, SaveFloor(fl)
      PROVE  ReplyNotOlder'
  BY <1>5 DEF SaveFloor
<1>6. CASE ResetClick
  <2>1. phase \in {"answered", "cleared"} => reply.version \in Nat
    BY DEF TypeOK, Reply
  <2>2. QED
    BY <1>6, <2>1 DEF ResetClick, NoVersion
<1>7. CASE Restart
  BY <1>7 DEF Restart
<1>8. QED
  BY <1>1, <1>2, <1>3, <1>4, <1>5, <1>6, <1>7
  DEF ClientNext, ExecutorStep, ReachRealm, MapStep, Disturbance

\* Realm's version is replaced by a newer or equal one or forgotten, never set
\* back, although updateExhibits may throw after it was stored and the next
\* request then asks for an older one.
THEOREM RealmNeverBack == Spec => RealmVersionMonotonic
<1>1. Init => ReplyNotOlder
  BY DEF Init, ClientInit, ReplyNotOlder
<1>2. TypeOK /\ SyncInv /\ ReplyNotOlder /\ [Next]_vars => ReplyNotOlder'
  <2>1. ASSUME UNCHANGED clientVars, ReplyNotOlder PROVE ReplyNotOlder'
    BY <2>1 DEF ReplyNotOlder, clientVars, realmVars, taskVars
  <2>2. QED
    BY <2>1, ReplyStaysNewer DEF Next, vars
<1>3. TypeOK /\ ReplyNotOlder /\ [Next]_vars
        => [dbVersion' # NoVersion => dbVersion' >= dbVersion]_vars
  <2> SUFFICES ASSUME TypeOK, ReplyNotOlder, Next, dbVersion' # NoVersion
               PROVE  dbVersion' >= dbVersion
    OBVIOUS
  <2>1. CASE StoreExhibits
    BY <2>1 DEF StoreExhibits, ReplyNotOlder, TypeOK, Reply, NoVersion
  <2>2. CASE dbVersion' = dbVersion
    BY <2>2 DEF TypeOK, NoVersion
  <2>3. StoreExhibits \/ ResetClick \/ dbVersion' = dbVersion
    BY DEF Next, clientVars, realmVars, ClientNext, ExecutorStep, ReachRealm, MapStep, Disturbance,
           Fetch, LoseAnswer, RealmThrows, ClearExhibits, ShowExhibits, MissFloor, SaveFloor,
           FinishMapDownload, LoadThrows, FailMapDownload, StartMapDownload, Restart
  <2>4. QED
    BY <2>1, <2>2, <2>3 DEF ResetClick
<1>4. QED
  BY <1>1, <1>2, <1>3, ExhibitSyncTyped, CopySound, PTL DEF Spec, RealmVersionMonotonic
=============================================================================
