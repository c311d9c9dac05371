-------------------------- MODULE TabletMapsProofs --------------------------
(***************************************************************************)
(* Proofs about MapFiles and TabletMaps, for any floors, pictures, tiles   *)
(* and workers.  On the server: what getMapImages hands out is whole on    *)
(* the disk, and the flag is held by exactly one command.  On the tablet,  *)
(* through failed downloads and kills: what Realm and memory name has its  *)
(* tiles on the disk, and they are the right ones unless the server        *)
(* changed the map meanwhile.                                              *)
(***************************************************************************)
EXTENDS TabletMaps, TLAPS

----------------------------------------------------------------------------
\* The server: MapFiles.

\* A whole map's tile directory is a tile directory.
LEMMA CutTyped == \A p \in MaybeMap : Cut(p) \in TileDir
  BY MapAssumption DEF Cut, MaybeMap, TileDir

\* A tile directory stays one when a tile is deleted, or cut from a picture
\* that has it.
LEMMA TileDirExcept ==
  ASSUME NEW d \in TileDir, NEW t \in Tile, NEW p \in MaybeMap,
         p # NoMap => t \in TilesOf[p]
  PROVE  [d EXCEPT ![t] = p] \in TileDir
BY DEF TileDir

\* The server starts well typed.
LEMMA MapInitTyped == MapInit => MapTypeOK
<1>1. SUFFICES ASSUME MapInit PROVE MapTypeOK
  OBVIOUS
<1>2. \A f \in Floor : Cut(row[f]) \in TileDir
  BY <1>1, CutTyped DEF MapInit
<1>3. (CHOOSE j \in Job : TRUE) \in Job
  <2>1. PICK f \in Floor : TRUE
    BY MapAssumption
  <2>2. [floor |-> f, picture |-> NoMap] \in Job
    BY DEF Job, MaybeMap
  <2> QED
    BY <2>2
<1> QED
  BY <1>1, <1>2, <1>3 DEF MapInit, MapTypeOK, Step

\* Every step keeps the types.
LEMMA NextKeepsMapType == MapTypeOK /\ [MapNext]_mapVars => MapTypeOK'
<1> SUFFICES ASSUME MapTypeOK, [MapNext]_mapVars PROVE MapTypeOK'
  OBVIOUS
<1> USE DEF MapTypeOK, mapTables, Goto
<1>1. CASE ServerCrash
  BY <1>1 DEF ServerCrash, Step
<1>2. ASSUME NEW w \in Worker, WorkerStep(w) PROVE MapTypeOK'
  <2>1. ASSUME NEW f \in Floor, NEW p \in MaybeMap, Take(w, f, p) PROVE MapTypeOK'
    <3>1. [floor |-> f, picture |-> p] \in Job
      BY DEF Job
    <3> QED
      BY <2>1, <3>1 DEF Take, Step
  <2>2. CASE RemoveRow(w)
    BY <2>2 DEF RemoveRow, MaybeMap, Step
  <2>3. CASE RemoveImage(w)
    BY <2>3 DEF RemoveImage, MaybeMap, Step
  <2>4. ASSUME NEW t \in Tile, RemoveTile(w, t) PROVE MapTypeOK'
    <3>1. job[w] \in Job /\ job[w].floor \in Floor
      BY DEF Job
    <3>2. [tiles[job[w].floor] EXCEPT ![t] = NoMap] \in TileDir
      BY <3>1, TileDirExcept DEF MaybeMap
    <3> QED
      BY <2>4, <3>1, <3>2 DEF RemoveTile
  <2>5. ASSUME NEW t \in Tile, CutTile(w, t) PROVE MapTypeOK'
    <3>1. job[w] \in Job /\ job[w].floor \in Floor /\ job[w].picture \in MaybeMap
      BY DEF Job
    <3>2. [tiles[job[w].floor] EXCEPT ![t] = job[w].picture] \in TileDir
      BY <2>5, <3>1, TileDirExcept DEF CutTile
    <3> QED
      BY <2>5, <3>1, <3>2 DEF CutTile
  <2>6. CASE TilesRemoved(w)
    BY <2>6 DEF TilesRemoved, Step
  <2>7. CASE Render(w)
    <3>1. job[w] \in Job
      OBVIOUS
    <3> QED
      BY <2>7, <3>1 DEF Render, Step, Job
  <2>8. CASE TilesCut(w)
    BY <2>8 DEF TilesCut, Step
  <2>9. CASE SaveRow(w)
    <3>1. job[w] \in Job
      OBVIOUS
    <3> QED
      BY <2>9, <3>1 DEF SaveRow, Step, Job
  <2>10. CASE Throw(w)
    BY <2>10 DEF Throw
  <2>11. CASE Clear(w)
    BY <2>11 DEF Clear, Step
  <2> QED
    BY <1>2, <2>1, <2>2, <2>3, <2>4, <2>5, <2>6, <2>7, <2>8, <2>9, <2>10, <2>11 DEF WorkerStep
<1>3. CASE UNCHANGED mapVars
  BY <1>3 DEF mapVars
<1> QED
  BY <1>1, <1>2, <1>3 DEF MapNext

\* Every reachable state of rows, files and workers is well typed, through
\* every throw and crash.
THEOREM MapsTyped == MapSpec => []MapTypeOK
  BY MapInitTyped, NextKeepsMapType, PTL DEF MapSpec

-----------------------------------------------------------------------------
(* A worker's step touches one floor, and there is one worker. *)

\* While w is at work nobody else is, so all that is asked of the workers
\* after its step is asked of w.
LEMMA OthersIdle ==
  ASSUME MapTypeOK, FlagHeld, NEW w \in Worker, pc[w] # "idle"
  PROVE  inProgress /\ \A v \in Worker : v # w => pc[v] = "idle"
BY DEF FlagHeld, MapTypeOK

\* What an idle worker is owed is nothing.
LEMMA IdleOwedNothing ==
  ASSUME NEW v \in Worker, pc[v] = "idle"
  PROVE  RowGone(v) /\ Rendered(v)
BY DEF RowGone, Rendered

\* A step that changes w's place and nothing else about who works.
LEMMA FlagHeldOnGoto ==
  ASSUME MapTypeOK, FlagHeld, NEW w \in Worker, NEW step \in Step \ {"idle"},
         pc[w] # "idle", Goto(w, step), UNCHANGED <<inProgress, job>>
  PROVE  FlagHeld' /\ \A v \in Worker : v # w => pc'[v] = "idle"
BY OthersIdle DEF FlagHeld, MapTypeOK, Goto

\* The worker that holds the flag answers for everybody.
LEMMA OwedToAll ==
  ASSUME NEW w \in Worker, \A v \in Worker : v # w => pc[v] = "idle",
         RowGone(w), Rendered(w)
  PROVE  \A v \in Worker : RowGone(v) /\ Rendered(v)
BY IdleOwedNothing

\* The inductive step for a command's own step.
LEMMA StepKeepsMapInv ==
  ASSUME MapTypeOK, MapTypeOK', MapInv, NEW w \in Worker, WorkerStep(w)
  PROVE  MapInv'
<1> DEFINE fl == job[w].floor
           pic == job[w].picture
           Alone == \A v \in Worker : v # w => pc'[v] = "idle"
<1>1. job[w] \in Job /\ fl \in Floor /\ pic \in MaybeMap
  BY DEF MapTypeOK, Job
<1>2. RowHasFiles /\ FlagHeld /\ RowGone(w) /\ Rendered(w)
  BY DEF MapInv
<1>3. SUFFICES RowHasFiles' /\ FlagHeld' /\ Alone /\ RowGone(w)' /\ Rendered(w)'
  BY OwedToAll DEF MapInv, RowGone, Rendered
<1>4. ASSUME NEW f \in Floor, NEW p \in MaybeMap, Take(w, f, p)
      PROVE  RowHasFiles' /\ FlagHeld' /\ Alone /\ RowGone(w)' /\ Rendered(w)'
  <2>1. FlagHeld' /\ Alone
    BY <1>2, <1>4 DEF Take, Goto, FlagHeld, MapTypeOK
  <2>2. RowHasFiles' /\ RowGone(w)' /\ Rendered(w)'
    BY <1>2, <1>4 DEF Take, Goto, mapTables, RowHasFiles, RowGone, Rendered, MapTypeOK
  <2> QED
    BY <2>1, <2>2
<1>5. ASSUME NEW step \in Step \ {"idle"}, pc[w] # "idle", Goto(w, step), UNCHANGED <<inProgress, job>>
      PROVE  FlagHeld' /\ Alone
  BY <1>2, <1>5, FlagHeldOnGoto
<1>6. CASE RemoveRow(w)
  <2>1. FlagHeld' /\ Alone
    BY <1>6, <1>5 DEF RemoveRow, Step
  <2>2. RowHasFiles'
    BY <1>1, <1>2, <1>6 DEF RemoveRow, RowHasFiles, MapTypeOK, Cut
  <2>3. RowGone(w)' /\ Rendered(w)'
    BY <1>1, <1>6 DEF RemoveRow, RowGone, Rendered, Goto, MapTypeOK
  <2> QED
    BY <2>1, <2>2, <2>3
<1>7. CASE RemoveImage(w)
  <2>1. FlagHeld' /\ Alone
    BY <1>7, <1>5 DEF RemoveImage, Step
  <2>2. row[fl] = NoMap
    BY <1>2, <1>7 DEF RemoveImage, RowGone
  <2>3. RowHasFiles'
    BY <1>1, <1>2, <1>7, <2>2 DEF RemoveImage, RowHasFiles, MapTypeOK, Cut
  <2>4. RowGone(w)' /\ Rendered(w)'
    BY <1>1, <1>7, <2>2 DEF RemoveImage, RowGone, Rendered, Goto, MapTypeOK
  <2> QED
    BY <2>1, <2>3, <2>4
<1>8. ASSUME NEW t \in Tile, RemoveTile(w, t) \/ CutTile(w, t)
      PROVE  RowHasFiles' /\ FlagHeld' /\ Alone /\ RowGone(w)' /\ Rendered(w)'
  <2>1. FlagHeld' /\ Alone
    BY <1>2, <1>8, OthersIdle DEF RemoveTile, CutTile, FlagHeld
  <2>2. row[fl] = NoMap
    BY <1>2, <1>8 DEF RemoveTile, CutTile, RowGone
  <2>3. RowHasFiles'
    BY <1>1, <1>2, <1>8, <2>2 DEF RemoveTile, CutTile, RowHasFiles, MapTypeOK, Cut
  <2>4. RowGone(w)'
    BY <1>8, <2>2 DEF RemoveTile, CutTile, RowGone
  <2>5. CASE RemoveTile(w, t)
    BY <2>1, <2>3, <2>4, <2>5 DEF RemoveTile, Rendered
  <2>6. CASE CutTile(w, t)
    <3>1. pic # NoMap /\ fullImage[fl] = pic /\ \A u \in Tile : tiles[fl][u] \in {NoMap, Cut(pic)[u]}
      BY <1>2, <2>6 DEF CutTile, Rendered
    <3>2. Cut(pic)[t] = pic
      BY <2>6, <3>1 DEF CutTile, Cut
    <3>3. \A u \in Tile : tiles'[fl][u] \in {NoMap, Cut(pic)[u]}
      BY <1>1, <2>6, <3>1, <3>2 DEF CutTile, MapTypeOK, TileDir
    <3>4. Rendered(w)'
      BY <2>6, <3>1, <3>3 DEF CutTile, Rendered, Cut
    <3> QED
      BY <2>1, <2>3, <2>4, <3>4
  <2> QED
    BY <1>8, <2>5, <2>6
<1>9. CASE TilesRemoved(w)
  <2>1. FlagHeld' /\ Alone
    BY <1>9, <1>5 DEF TilesRemoved, Step
  <2>2. RowHasFiles' /\ RowGone(w)' /\ Rendered(w)'
    BY <1>1, <1>2, <1>9 DEF TilesRemoved, mapTables, Goto, RowHasFiles, RowGone, Rendered, MapTypeOK
  <2> QED
    BY <2>1, <2>2
<1>10. CASE Render(w)
  <2>1. FlagHeld' /\ Alone
    BY <1>10, <1>5 DEF Render, Step
  <2>2. row[fl] = NoMap /\ pic # NoMap /\ tiles[fl] = Clean
    BY <1>2, <1>10 DEF Render, RowGone, Rendered
  <2>3. RowHasFiles'
    BY <1>1, <1>2, <1>10, <2>2 DEF Render, RowHasFiles, MapTypeOK, Cut
  <2>4. RowGone(w)' /\ Rendered(w)'
    BY <1>1, <1>10, <2>2 DEF Render, RowGone, Rendered, Goto, MapTypeOK, Clean
  <2> QED
    BY <2>1, <2>3, <2>4
<1>11. CASE TilesCut(w)
  <2>1. FlagHeld' /\ Alone
    BY <1>11, <1>5 DEF TilesCut, Step
  <2>2. RowHasFiles' /\ RowGone(w)' /\ Rendered(w)'
    BY <1>1, <1>2, <1>11 DEF TilesCut, mapTables, Goto, RowHasFiles, RowGone, Rendered, MapTypeOK
  <2> QED
    BY <2>1, <2>2
<1>12. CASE SaveRow(w)
  <2>1. FlagHeld' /\ Alone
    BY <1>12, <1>5 DEF SaveRow, Step
  <2>2. fullImage[fl] = pic /\ tiles[fl] = Cut(pic)
    BY <1>2, <1>12 DEF SaveRow, Rendered
  <2>3. RowHasFiles'
    BY <1>1, <1>2, <1>12, <2>2 DEF SaveRow, RowHasFiles, MapTypeOK, Cut
  <2>4. RowGone(w)' /\ Rendered(w)'
    BY <1>1, <1>12 DEF SaveRow, RowGone, Rendered, Goto, MapTypeOK
  <2> QED
    BY <2>1, <2>3, <2>4
<1>13. CASE Throw(w)
  <2>1. PICK step \in Step : <<pc[w], step>> \in AfterThrow /\ Goto(w, step)
    BY <1>13 DEF Throw
  <2>2. pc[w] # "idle" /\ step \in {"clear", "dropTiles", "dropImage"}
        /\ pc[w] # "clear" /\ (pc[w] = "removeRow" => step = "clear")
    BY <2>1 DEF AfterThrow
  <2>3. UNCHANGED <<row, fullImage, tiles, inProgress, job>>
    BY <1>13 DEF Throw, mapTables
  <2>4. FlagHeld' /\ Alone
    BY <1>5, <2>1, <2>2, <2>3
  <2>5. RowHasFiles'
    BY <1>2, <2>3 DEF RowHasFiles, Cut
  <2>6. pc'[w] = step
    BY <2>1 DEF Goto, MapTypeOK
  <2>7. RowGone(w)'
    BY <1>2, <2>2, <2>3, <2>6 DEF RowGone
  <2>8. Rendered(w)'
    BY <2>2, <2>6 DEF Rendered
  <2> QED
    BY <2>4, <2>5, <2>7, <2>8
<1>14. CASE Clear(w)
  <2>1. FlagHeld' /\ Alone
    BY <1>2, <1>14, OthersIdle DEF Clear, Goto, FlagHeld, MapTypeOK
  <2>2. RowHasFiles'
    BY <1>2, <1>14 DEF Clear, mapTables, RowHasFiles, Cut
  <2>3. RowGone(w)' /\ Rendered(w)'
    BY <1>14 DEF Clear, Goto, RowGone, Rendered, MapTypeOK
  <2> QED
    BY <2>1, <2>2, <2>3
<1> HIDE DEF fl, pic, Alone
<1> QED
  BY <1>4, <1>6, <1>7, <1>8, <1>9, <1>10, <1>11, <1>12, <1>13, <1>14 DEF WorkerStep

\* The server starts on whole maps, with no worker at work.
LEMMA MapInitInv == MapInit => MapInv
<1> SUFFICES ASSUME MapInit PROVE MapInv
  OBVIOUS
<1>1. RowHasFiles
  BY DEF MapInit, RowHasFiles
<1>2. FlagHeld
  BY DEF MapInit, FlagHeld
<1>3. \A w \in Worker : RowGone(w) /\ Rendered(w)
  BY IdleOwedNothing DEF MapInit
<1> QED
  BY <1>1, <1>2, <1>3, MapInitTyped DEF MapInv

\* Every step keeps the invariant.
LEMMA NextKeepsMapInv == MapTypeOK /\ MapTypeOK' /\ MapInv /\ [MapNext]_mapVars => MapInv'
<1> SUFFICES ASSUME MapTypeOK, MapTypeOK', MapInv, [MapNext]_mapVars PROVE MapInv'
  OBVIOUS
<1>1. CASE ServerCrash
  <2>1. RowHasFiles'
    BY <1>1 DEF ServerCrash, mapTables, MapInv, RowHasFiles, Cut
  <2>2. FlagHeld'
    BY <1>1 DEF ServerCrash, FlagHeld
  <2>3. \A w \in Worker : (RowGone(w) /\ Rendered(w))'
    BY <1>1 DEF ServerCrash, RowGone, Rendered
  <2> QED
    BY <2>1, <2>2, <2>3 DEF MapInv
<1>2. ASSUME NEW w \in Worker, WorkerStep(w) PROVE MapInv'
  BY <1>2, StepKeepsMapInv
<1>3. CASE UNCHANGED mapVars
  BY <1>3 DEF mapVars, mapTables, MapInv, RowHasFiles, FlagHeld, RowGone, Rendered, Cut
<1> QED
  BY <1>1, <1>2, <1>3 DEF MapNext

\* The inductive invariant of a map change: who holds the flag, and what is
\* on the disk at each step of its command.
THEOREM MapInvariant == MapSpec => []MapInv
  BY MapInitInv, NextKeepsMapInv, MapsTyped, PTL DEF MapSpec

\* A map that is handed out is whole on the disk, whatever failed before.
THEOREM MapsWhole == MapSpec => []RowHasFiles
<1>1. MapInv => RowHasFiles
  BY DEF MapInv
<1> QED
  BY <1>1, MapInvariant, PTL

\* One command at a time changes maps, and none keeps the flag.
THEOREM OneMapChange == MapSpec => []FlagHeld
<1>1. MapInv => FlagHeld
  BY DEF MapInv
<1> QED
  BY <1>1, MapInvariant, PTL

----------------------------------------------------------------------------
\* The tablet: TabletMaps.

\* One step of the server keeps the server's invariant.
LEMMA ServerKeepsMapInv == MapInv /\ [MapNext]_mapVars => MapInv'
<1> SUFFICES ASSUME MapInv, [MapNext]_mapVars PROVE MapInv'
  OBVIOUS
<1>1. MapTypeOK /\ MapTypeOK'
  BY NextKeepsMapType DEF MapInv
<1> QED
  BY <1>1, NextKeepsMapInv

\* Start: nothing on the tablet.
LEMMA TabletInitInv == Init => TabletInv
<1> SUFFICES ASSUME Init PROVE TabletInv
  OBVIOUS
<1>1. MapInv /\ MapTypeOK
  BY MapInitInv DEF Init, MapInv
<1>2. NoMaps \in FloorMaps /\ NoFiles \in TileFiles
  BY DEF NoMaps, NoFiles, FloorMaps, TileFiles, TileDir, Clean, MaybeMap
<1>3. TypeOK
  <2>1. changes \in 0 .. MaxChanges
    BY ChangesAssumption DEF Init
  <2>2. phase \in Phase /\ got \subseteq Floor \X Tile /\ changed \subseteq Floor
    BY DEF Init, Phase
  <2>3. loaded \in BOOLEAN /\ cut \in BOOLEAN
    BY DEF Init
  <2>4. answer \in FloorMaps /\ realm \in FloorMaps /\ memory \in FloorMaps
        /\ tmpDir \in TileFiles /\ mapsDir \in TileFiles
    BY <1>2 DEF Init
  <2> QED
    BY <1>1, <2>1, <2>2, <2>3, <2>4 DEF TypeOK
<1>4. HasFiles(NoMaps) /\ RealmHasFiles /\ MemoryKept
  BY DEF Init, HasFiles, NoMaps, RealmHasFiles, MemoryKept
<1>5. TilesRightUnlessChanged /\ AllFloorsUnlessCut /\ Fetching /\ Storing
  BY DEF Init, TilesRightUnlessChanged, NoMaps, AllFloorsUnlessCut, Fetching, Storing
<1> QED
  BY <1>1, <1>3, <1>4, <1>5 DEF TabletInv

\* The tablet's steps keep the types.
LEMMA TabletKeepsType ==
  ASSUME TypeOK, TabletStep
  PROVE  TypeOK'
<1>1. NoMaps \in FloorMaps /\ NoFiles \in TileFiles
  BY DEF NoMaps, NoFiles, FloorMaps, TileFiles, TileDir, Clean, MaybeMap
<1>2. MapTypeOK' /\ row \in FloorMaps /\ changes' \in 0 .. MaxChanges
  <2>1. UNCHANGED <<mapVars, changes>>
    BY DEF TabletStep, Open, MapClick, Ask, FetchTile, DeleteMapsDir, RenameTmpDir,
           StoreFloor, LoadMaps, FailDownload, Dismiss, Kill, historyVars
  <2> QED
    BY <2>1 DEF TypeOK, MapTypeOK, mapVars, mapTables, FloorMaps
<1> USE <1>1, <1>2 DEF TypeOK, Phase, mapVars, historyVars
<1>3. CASE Open
  BY <1>3 DEF Open
<1>4. CASE MapClick
  BY <1>4 DEF MapClick
<1>5. CASE Ask
  BY <1>5 DEF Ask
<1>6. ASSUME NEW f \in Floor, NEW t \in Tile, FetchTile(f, t) PROVE TypeOK'
  <2>1. tiles[f] \in TileDir
    BY DEF MapTypeOK
  <2>2. tiles[f][t] \in MaybeMap /\ (tiles[f][t] # NoMap => t \in TilesOf[tiles[f][t]])
    BY <2>1 DEF TileDir
  <2>3. tmpDir[f] \in TileDir
    BY DEF TileFiles
  <2>4. [tmpDir[f] EXCEPT ![t] = tiles[f][t]] \in TileDir
    BY <2>2, <2>3, TileDirExcept
  <2>5. tmpDir' \in TileFiles
    BY <1>6, <2>4 DEF FetchTile, TileFiles
  <2> QED
    BY <1>6, <2>5 DEF FetchTile
<1>7. CASE DeleteMapsDir
  BY <1>7 DEF DeleteMapsDir
<1>8. CASE RenameTmpDir
  BY <1>8 DEF RenameTmpDir
<1>9. ASSUME NEW f \in Floor, StoreFloor(f) PROVE TypeOK'
  <2>1. realm' \in FloorMaps
    BY <1>9 DEF StoreFloor, FloorMaps
  <2> QED
    BY <1>9, <2>1 DEF StoreFloor
<1>10. CASE LoadMaps
  BY <1>10 DEF LoadMaps
<1>11. CASE FailDownload
  BY <1>11 DEF FailDownload
<1>12. CASE Dismiss
  BY <1>12 DEF Dismiss
<1>13. CASE Kill
  BY <1>13 DEF Kill
<1> QED
  BY <1>3, <1>4, <1>5, <1>6, <1>7, <1>8, <1>9, <1>10, <1>11, <1>12, <1>13 DEF TabletStep

\* What a fetched tile is, said of the answer.
LEMMA WantedTiles ==
  \A f \in Floor, t \in Tile :
      <<f, t>> \in Wanted <=> answer[f] # NoMap /\ t \in TilesOf[answer[f]]
BY DEF Wanted

\* The tablet's steps keep what a download has done so far.
LEMMA TabletKeepsInv ==
  ASSUME TabletInv, TabletStep
  PROVE  TabletInv'
<1>1. TypeOK /\ TypeOK' /\ MapInv /\ RealmHasFiles /\ TilesRightUnlessChanged
      /\ AllFloorsUnlessCut /\ MemoryKept /\ Fetching /\ Storing
  BY TabletKeepsType DEF TabletInv
<1>2. UNCHANGED mapVars
  BY DEF TabletStep, Open, MapClick, Ask, FetchTile, DeleteMapsDir, RenameTmpDir,
         StoreFloor, LoadMaps, FailDownload, Dismiss, Kill
<1>3. MapInv'
  BY <1>1, <1>2, ServerKeepsMapInv
<1>4. SUFFICES RealmHasFiles' /\ TilesRightUnlessChanged' /\ AllFloorsUnlessCut'
               /\ MemoryKept' /\ Fetching' /\ Storing'
  BY <1>1, <1>3 DEF TabletInv
<1>5. ASSUME UNCHANGED <<realm, mapsDir, changed>>
      PROVE  RealmHasFiles' /\ TilesRightUnlessChanged'
  BY <1>1, <1>5 DEF RealmHasFiles, HasFiles, TilesRightUnlessChanged, TileRight
<1>6. ASSUME UNCHANGED <<memory, mapsDir>>, HasFiles(memory)
      PROVE  MemoryKept'
  BY <1>6 DEF MemoryKept, HasFiles
<1>7. ASSUME realm' = NoMaps
      PROVE  RealmHasFiles' /\ TilesRightUnlessChanged'
  BY <1>7 DEF RealmHasFiles, HasFiles, TilesRightUnlessChanged, NoMaps
<1>8. CASE Open
  <2>1. UNCHANGED <<realm, mapsDir, changed, answer, cut>>
    BY <1>8 DEF Open, historyVars
  <2>2. MemoryKept'
    BY <1>1, <1>8 DEF Open, MemoryKept, RealmHasFiles, HasFiles
  <2>3. AllFloorsUnlessCut' /\ Fetching' /\ Storing'
    BY <1>1, <1>8, <2>1 DEF Open, AllFloorsUnlessCut, Fetching, Storing, NoMaps
  <2> QED
    BY <1>5, <2>1, <2>2, <2>3
<1>9. CASE MapClick \/ FailDownload \/ Dismiss
  <2>1. UNCHANGED <<realm, mapsDir, changed, answer, cut, memory>>
    BY <1>9 DEF MapClick, FailDownload, Dismiss, historyVars
  <2>2. phase \in {"free", "ask", "fetch", "failed"}
        /\ phase' \in {"ask", "failed", "free", "off"}
    BY <1>9 DEF MapClick, FailDownload, Dismiss
  <2>3. AllFloorsUnlessCut' /\ Fetching' /\ Storing'
    BY <1>1, <2>1, <2>2 DEF AllFloorsUnlessCut, Fetching, Storing, NoMaps
  <2>4. MemoryKept'
    BY <1>1, <1>6, <2>1, <2>2 DEF MemoryKept
  <2> QED
    BY <1>5, <2>1, <2>3, <2>4
<1>10. CASE Ask
  <2>1. realm' = NoMaps /\ phase = "ask" /\ phase' = "fetch" /\ got' = {} /\ answer' = row
        /\ UNCHANGED <<memory, mapsDir, row>>
    BY <1>10 DEF Ask, mapVars, mapTables
  <2>2. AllFloorsUnlessCut'
    BY <2>1 DEF AllFloorsUnlessCut, NoMaps
  <2>3. Fetching' /\ Storing'
    BY <2>1 DEF Fetching, Storing, NoMaps
  <2>4. MemoryKept'
    BY <1>1, <1>6, <2>1 DEF MemoryKept
  <2> QED
    BY <1>7, <2>1, <2>2, <2>3, <2>4
<1>11. ASSUME NEW f \in Floor, NEW t \in Tile, FetchTile(f, t)
       PROVE  RealmHasFiles' /\ TilesRightUnlessChanged' /\ AllFloorsUnlessCut'
              /\ MemoryKept' /\ Fetching' /\ Storing'
  <2>1. phase = "fetch" /\ phase' = "fetch" /\ got' = got \union {<<f, t>>} /\ tiles[f][t] # NoMap
        /\ <<f, t>> \in Wanted /\ UNCHANGED <<realm, mapsDir, changed, answer, cut, memory, row>>
    BY <1>11 DEF FetchTile, historyVars, mapVars, mapTables
  <2>2. f \notin changed => tiles[f][t] = answer[f]
    <3>1. SUFFICES ASSUME f \notin changed PROVE tiles[f][t] = answer[f]
      OBVIOUS
    <3>2. row[f] = answer[f] /\ answer[f] # NoMap /\ t \in TilesOf[answer[f]]
      BY <1>1, <2>1, <3>1, WantedTiles DEF Fetching
    <3>3. tiles[f] = Cut(answer[f])
      BY <1>1, <3>2 DEF MapInv, RowHasFiles
    <3> QED
      BY <3>2, <3>3 DEF Cut
  <2>3. tmpDir \in TileFiles /\ got \subseteq Floor \X Tile
    BY <1>1 DEF TypeOK
  <2>4. \A g \in Floor, u \in Tile :
          tmpDir'[g][u] = IF g = f /\ u = t THEN tiles[f][t] ELSE tmpDir[g][u]
    BY <1>11, <2>3 DEF FetchTile, TileFiles, TileDir
  <2>5. \A ft \in got' : Fetched(tmpDir, ft)'
    <3>1. TAKE ft \in got'
    <3>2. ft \in Floor \X Tile
      BY <2>1, <2>3
    <3>3. CASE ft = <<f, t>>
      BY <2>1, <2>2, <2>4, <3>3 DEF Fetched
    <3>4. CASE ft # <<f, t>>
      <4>1. ft \in got /\ Fetched(tmpDir, ft)
        BY <1>1, <2>1, <3>4 DEF Fetching
      <4>2. tmpDir'[ft[1]][ft[2]] = tmpDir[ft[1]][ft[2]]
        BY <2>4, <3>2, <3>4
      <4> QED
        BY <2>1, <4>1, <4>2 DEF Fetched
    <3> QED
      BY <3>3, <3>4
  <2>6. Fetching' /\ Storing' /\ AllFloorsUnlessCut'
    BY <1>1, <2>1, <2>5 DEF Fetching, Storing, AllFloorsUnlessCut, NoMaps
  <2>7. MemoryKept'
    BY <1>1, <1>6, <2>1 DEF MemoryKept
  <2> QED
    BY <1>5, <2>1, <2>6, <2>7
<1>12. CASE DeleteMapsDir
  <2>1. phase = "fetch" /\ phase' = "rename" /\ got = Wanted
        /\ UNCHANGED <<realm, tmpDir, changed, answer, cut, got>>
    BY <1>12 DEF DeleteMapsDir, historyVars
  <2>2. realm' = NoMaps
    BY <1>1, <2>1 DEF Fetching
  <2>3. Wanted' = Wanted
    BY <2>1 DEF Wanted
  <2>4. Fetching' /\ Storing' /\ AllFloorsUnlessCut' /\ MemoryKept'
    BY <1>1, <2>1, <2>2, <2>3 DEF Fetching, Fetched, Storing, AllFloorsUnlessCut, NoMaps, MemoryKept
  <2> QED
    BY <1>7, <2>2, <2>4
<1>13. CASE RenameTmpDir
  <2>1. phase = "rename" /\ phase' = "store" /\ mapsDir' = tmpDir
        /\ UNCHANGED <<realm, changed, answer, cut>>
    BY <1>13 DEF RenameTmpDir, historyVars
  <2>2. realm' = NoMaps
    BY <1>1, <2>1 DEF Fetching
  <2>3. Wanted' = Wanted
    BY <2>1 DEF Wanted
  <2>4. \A ft \in Wanted' : Fetched(mapsDir, ft)'
    BY <1>1, <2>1, <2>3 DEF Fetching, Fetched
  <2>5. Storing'
    BY <2>2, <2>4 DEF Storing, NoMaps
  <2>6. Fetching' /\ AllFloorsUnlessCut' /\ MemoryKept'
    BY <2>1 DEF Fetching, AllFloorsUnlessCut, MemoryKept
  <2> QED
    BY <1>7, <2>2, <2>5, <2>6
<1>14. ASSUME NEW f \in Floor, StoreFloor(f)
       PROVE  RealmHasFiles' /\ TilesRightUnlessChanged' /\ AllFloorsUnlessCut'
              /\ MemoryKept' /\ Fetching' /\ Storing'
  <2>1. phase = "store" /\ phase' = "store" /\ realm' = [realm EXCEPT ![f] = answer[f]]
        /\ UNCHANGED <<mapsDir, changed, answer, cut>>
    BY <1>14 DEF StoreFloor, historyVars
  <2>2. Wanted' = Wanted
    BY <2>1 DEF Wanted
  <2>3. \A ft \in Wanted' : Fetched(mapsDir, ft)'
    BY <1>1, <2>1, <2>2 DEF Storing, Fetched
  <2>4. \A g \in Floor : realm'[g] \in {NoMap, answer'[g]}
    BY <1>1, <2>1 DEF Storing, TypeOK, FloorMaps
  <2>5. RealmHasFiles' /\ TilesRightUnlessChanged'
    <3>1. \A g \in Floor : realm'[g] # NoMap =>
            /\ realm'[g] = answer[g]
            /\ \A t \in TilesOf[realm'[g]] : <<g, t>> \in Wanted'
      BY <1>1, <2>1, <2>2, <2>4, WantedTiles, MapAssumption DEF TypeOK, FloorMaps, MaybeMap
    <3>2. \A g \in Floor : realm'[g] # NoMap => \A t \in TilesOf[realm'[g]] :
            mapsDir'[g][t] # NoMap /\ (g \notin changed' => mapsDir'[g][t] = realm'[g])
      BY <2>1, <2>3, <3>1 DEF Fetched
    <3> QED
      BY <3>2 DEF RealmHasFiles, HasFiles, TilesRightUnlessChanged, TileRight
  <2>6. Storing' /\ Fetching' /\ AllFloorsUnlessCut' /\ MemoryKept'
    BY <2>1, <2>3, <2>4 DEF Storing, Fetching, AllFloorsUnlessCut, MemoryKept
  <2> QED
    BY <2>5, <2>6
<1>15. CASE LoadMaps
  <2>1. phase = "store" /\ phase' \in {"free", "failed"} /\ memory' = realm
        /\ UNCHANGED <<realm, mapsDir, changed, answer, cut>>
        /\ \A f \in Floor : answer[f] # NoMap => realm[f] # NoMap
    BY <1>15 DEF LoadMaps, historyVars
  <2>2. realm = answer
    <3>1. \A f \in Floor : realm[f] = answer[f]
      BY <1>1, <2>1 DEF Storing
    <3> QED
      BY <1>1, <3>1 DEF TypeOK, FloorMaps
  <2>3. MemoryKept'
    BY <1>1, <2>1 DEF MemoryKept, RealmHasFiles, HasFiles
  <2>4. Fetching' /\ Storing' /\ AllFloorsUnlessCut'
    BY <2>1, <2>2 DEF Fetching, Storing, AllFloorsUnlessCut
  <2> QED
    BY <1>5, <2>1, <2>3, <2>4
<1>16. CASE Kill
  <2>1. phase' = "off" /\ memory' = NoMaps /\ UNCHANGED <<realm, mapsDir, changed, answer>>
        /\ (cut' <=> (cut \/ (phase = "store" /\ realm \notin {NoMaps, answer})))
    BY <1>16 DEF Kill
  <2>2. AllFloorsUnlessCut'
    BY <1>1, <2>1 DEF AllFloorsUnlessCut, NoMaps
  <2>3. Fetching' /\ Storing' /\ MemoryKept'
    BY <2>1 DEF Fetching, Storing, MemoryKept, HasFiles, NoMaps
  <2> QED
    BY <1>5, <2>1, <2>2, <2>3
<1> QED
  BY <1>8, <1>9, <1>10, <1>11, <1>12, <1>13, <1>14, <1>15, <1>16 DEF TabletStep

\* A change on the server marks the floors it takes while they are fetched.
LEMMA ServerKeepsInv ==
  ASSUME TabletInv, ServerStep
  PROVE  TabletInv'
<1>1. TypeOK /\ MapInv /\ RealmHasFiles /\ TilesRightUnlessChanged
      /\ AllFloorsUnlessCut /\ MemoryKept /\ Fetching /\ Storing
  BY DEF TabletInv
<1>2. MapInv'
  BY <1>1, ServerKeepsMapInv DEF ServerStep
<1>3. UNCHANGED <<phase, answer, got, tmpDir, mapsDir, realm, memory, loaded, cut>>
  BY DEF ServerStep, tabletVars
<1>4. changed' = changed \union {f \in Floor : phase = "fetch" /\ row'[f] # row[f]}
  BY DEF ServerStep
<1>5. TypeOK'
  <2>1. changes' \in 0 .. MaxChanges
    BY <1>1, ChangesAssumption DEF ServerStep, TypeOK
  <2>2. changed' \subseteq Floor
    BY <1>1, <1>4 DEF TypeOK
  <2> QED
    BY <1>1, <1>2, <1>3, <2>1, <2>2 DEF TypeOK, MapInv
<1>6. RealmHasFiles' /\ MemoryKept' /\ AllFloorsUnlessCut'
  BY <1>1, <1>3 DEF RealmHasFiles, MemoryKept, HasFiles, AllFloorsUnlessCut, NoMaps
<1>7. TilesRightUnlessChanged'
  BY <1>1, <1>3, <1>4 DEF TilesRightUnlessChanged, TileRight
<1>8. Wanted' = Wanted
  BY <1>3 DEF Wanted
<1>9. Storing'
  BY <1>1, <1>3, <1>4, <1>8 DEF Storing, Fetched
<1>10. Fetching'
  <2>1. phase = "fetch" => \A f \in Floor \ changed' : row'[f] = answer[f]
    BY <1>1, <1>4 DEF Fetching
  <2> QED
    BY <1>1, <1>3, <1>4, <1>8, <2>1 DEF Fetching, Fetched, NoMaps
<1> QED
  BY <1>2, <1>5, <1>6, <1>7, <1>9, <1>10 DEF TabletInv

\* The inductive invariant of a tablet's map copy: at every step of a
\* download, what is in the two directories, in Realm and in memory.
THEOREM TabletInvariant == Spec => []TabletInv
<1>1. TabletInv /\ [Next]_vars => TabletInv'
  <2> SUFFICES ASSUME TabletInv, [Next]_vars PROVE TabletInv'
    OBVIOUS
  <2>1. CASE UNCHANGED vars
    <3>1. UNCHANGED <<mapVars, phase, answer, got, tmpDir, mapsDir, realm, memory, loaded,
                      changes, changed, cut>>
      BY <2>1 DEF vars, tabletVars, historyVars
    <3>2. MapInv' /\ UNCHANGED row
      BY <3>1, ServerKeepsMapInv DEF TabletInv, mapVars, mapTables
    <3>3. TypeOK'
      BY <3>1, <3>2 DEF TabletInv, TypeOK, MapInv
    <3>4. RealmHasFiles' /\ MemoryKept' /\ AllFloorsUnlessCut' /\ TilesRightUnlessChanged'
      BY <3>1 DEF TabletInv, RealmHasFiles, MemoryKept, HasFiles, AllFloorsUnlessCut, NoMaps,
                  TilesRightUnlessChanged, TileRight
    <3>5. Fetching' /\ Storing'
      BY <3>1, <3>2 DEF TabletInv, Fetching, Storing, Fetched, Wanted, NoMaps
    <3> QED
      BY <3>2, <3>3, <3>4, <3>5 DEF TabletInv
  <2> QED
    BY <2>1, TabletKeepsInv, ServerKeepsInv DEF Next
<1> QED
  BY <1>1, TabletInitInv, PTL DEF Spec

\* Realm never names a map whose tiles are missing.
THEOREM RealmServed == Spec => []RealmHasFiles
<1>1. TabletInv => RealmHasFiles
  BY DEF TabletInv
<1> QED
  BY <1>1, TabletInvariant, PTL

\* The map the screen shows keeps its tiles through failed downloads.
THEOREM ScreenServed == Spec => []ScreenHasFiles
<1>1. TabletInv => ScreenHasFiles
  BY DEF TabletInv, MemoryKept, ScreenHasFiles
<1> QED
  BY <1>1, TabletInvariant, PTL

\* Only a change of the map during its download mixes two maps.
THEOREM TilesRightOrChanged == Spec => []TilesRightUnlessChanged
<1>1. TabletInv => TilesRightUnlessChanged
  BY DEF TabletInv
<1> QED
  BY <1>1, TabletInvariant, PTL

\* Only a kill between the transactions of two floors leaves Realm with a part
\* of the floors of an answer.
THEOREM FloorsTogether == Spec => []AllFloorsUnlessCut
<1>1. TabletInv => AllFloorsUnlessCut
  BY DEF TabletInv
<1> QED
  BY <1>1, TabletInvariant, PTL
=============================================================================
