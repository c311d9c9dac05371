----------------------------- MODULE TabletMaps -----------------------------
(***************************************************************************)
(* A tablet's copy of the maps: StartScreen.java, MapDownloadTask.java,    *)
(* MapData.java, DatabaseHelper.java, next to a server that changes them   *)
(* (MapFiles).  Tiles are fetched one by one over HTTP under names that    *)
(* stay the same when a map is replaced; the copy is Realm rows, tile      *)
(* files and memory.  The process can be killed at any step.               *)
(*                                                                         *)
(* The progress dialog keeps the user away until the task's callback, so   *)
(* one phase variable covers the screen and the executor thread.           *)
(***************************************************************************)
EXTENDS MapFiles

CONSTANT MaxChanges  \* bound on map changes begun on the server

ASSUME ChangesAssumption == MaxChanges \in Nat

VARIABLES
    phase,    \* of start screen and download
    answer,   \* of getMapImages; kept for the properties
    got,      \* tiles fetched in this download
    tmpDir,   \* directory mapsTMP
    mapsDir,  \* directory maps
    realm,    \* MapTileInfoRealm and ZoomLevelResolutionRealm, by floor
    memory,   \* MapData.floorInfos
    loaded,   \* StartScreen.dataLoaded
    changes,  \* map changes begun so far
    changed,  \* history: floors changed while their tiles were fetched
    cut       \* history: a kill came between two setMap transactions

tabletVars == <<phase, answer, got, tmpDir, mapsDir, realm, memory, loaded>>
historyVars == <<changes, changed, cut>>
vars == <<mapVars, tabletVars, historyVars>>

Phase == {"off", "free", "ask", "fetch", "rename", "store", "failed"}
FloorMaps == [Floor -> MaybeMap]
TileFiles == [Floor -> TileDir]
NoMaps == [f \in Floor |-> NoMap]
NoFiles == [f \in Floor |-> Clean]

Init ==
    /\ MapInit
    /\ phase = "off"
    /\ answer = NoMaps
    /\ got = {}
    /\ tmpDir = NoFiles
    /\ mapsDir = NoFiles
    /\ realm = NoMaps
    /\ memory = NoMaps
    /\ loaded = FALSE
    /\ changes = 0
    /\ changed = {}
    /\ cut = FALSE

\* onCreate, unless the data are loaded already: with rows in Realm they are
\* loaded and the screen is free, without getFloorCount returns null and the
\* map is downloaded first.
Open ==
    /\ phase = "off"
    /\ IF loaded
       THEN phase' = "free" /\ UNCHANGED <<memory, loaded>>
       ELSE /\ memory' = realm
            /\ loaded' = (realm # NoMaps)
            /\ phase' = IF realm = NoMaps THEN "ask" ELSE "free"
    /\ UNCHANGED <<mapVars, answer, got, tmpDir, mapsDir, realm, historyVars>>

MapClick ==
    /\ phase = "free"
    /\ phase' = "ask"
    /\ UNCHANGED <<mapVars, answer, got, tmpDir, mapsDir, realm, memory, loaded, historyVars>>

\* Mutant of Ask: the old tiles are deleted at once.
AskDeleting ==
    /\ phase = "ask"
    /\ phase' = "fetch"
    /\ answer' = row
    /\ got' = {}
    /\ realm' = NoMaps
    /\ mapsDir' = NoFiles
    /\ changed' = {}
    /\ cut' = FALSE
    /\ UNCHANGED <<mapVars, tmpDir, memory, loaded, changes>>

\* Mutant of Ask: without clearMaps.
AskUncleared ==
    /\ phase = "ask"
    /\ phase' = "fetch"
    /\ answer' = row
    /\ got' = {}
    /\ changed' = {}
    /\ cut' = FALSE
    /\ UNCHANGED <<mapVars, tmpDir, mapsDir, realm, memory, loaded, changes>>

\* getMapImages, answered in one server transaction, then clearMaps; a change
\* between the two shows itself in the fetching just as well.
Ask ==
    /\ phase = "ask"
    /\ phase' = "fetch"
    /\ answer' = row
    /\ got' = {}
    /\ realm' = NoMaps
    /\ changed' = {}
    /\ cut' = FALSE
    /\ UNCHANGED <<mapVars, tmpDir, mapsDir, memory, loaded, changes>>

\* The tiles the answer lists.
Wanted == {ft \in Floor \X Tile : answer[ft[1]] # NoMap /\ ft[2] \in TilesOf[answer[ft[1]]]}

\* Mutant of FetchTile: a tile an earlier attempt left in mapsTMP is kept.
FetchMissingTile(f, t) ==
    /\ phase = "fetch"
    /\ <<f, t>> \in Wanted \ got
    /\ tiles[f][t] # NoMap
    /\ tmpDir' = IF tmpDir[f][t] = NoMap
                 THEN [tmpDir EXCEPT ![f][t] = tiles[f][t]]
                 ELSE tmpDir
    /\ got' = got \union {<<f, t>>}
    /\ UNCHANGED <<mapVars, phase, answer, mapsDir, realm, memory, loaded, historyVars>>

\* A wanted tile is fetched: whatever the server has under that name now.
FetchTile(f, t) ==
    /\ phase = "fetch"
    /\ <<f, t>> \in Wanted \ got
    /\ tiles[f][t] # NoMap
    /\ tmpDir' = [tmpDir EXCEPT ![f][t] = tiles[f][t]]
    /\ got' = got \union {<<f, t>>}
    /\ UNCHANGED <<mapVars, phase, answer, mapsDir, realm, memory, loaded, historyVars>>

\* renameFile deletes the directory maps ...
DeleteMapsDir ==
    /\ phase = "fetch"
    /\ got = Wanted
    /\ phase' = "rename"
    /\ mapsDir' = NoFiles
    /\ UNCHANGED <<mapVars, answer, got, tmpDir, realm, memory, loaded, historyVars>>

\* Mutant of RenameTmpDir: the new name is not the one getTile reads from.
RenameTmpDirAway ==
    /\ phase = "rename"
    /\ phase' = "store"
    /\ tmpDir' = NoFiles
    /\ UNCHANGED <<mapVars, answer, got, mapsDir, realm, memory, loaded, historyVars>>

\* ... and gives its name to mapsTMP, with what earlier attempts left there.
RenameTmpDir ==
    /\ phase = "rename"
    /\ phase' = "store"
    /\ mapsDir' = tmpDir
    /\ tmpDir' = NoFiles
    /\ UNCHANGED <<mapVars, answer, got, realm, memory, loaded, historyVars>>

\* dbHelper.setMap, a transaction per floor.
StoreFloor(f) ==
    /\ phase = "store"
    /\ answer[f] # NoMap
    /\ realm[f] = NoMap
    /\ realm' = [realm EXCEPT ![f] = answer[f]]
    /\ UNCHANGED <<mapVars, phase, answer, got, tmpDir, mapsDir, memory, loaded, historyVars>>

\* loadDbData, by setMaps and again by mapDownloaded; with no floor at all it
\* throws, after floorInfos was cleared.
LoadMaps ==
    /\ phase = "store"
    /\ \A f \in Floor : answer[f] # NoMap => realm[f] # NoMap
    /\ memory' = realm
    /\ loaded' = (loaded \/ realm # NoMaps)
    /\ phase' = IF realm = NoMaps THEN "failed" ELSE "free"
    /\ UNCHANGED <<mapVars, answer, got, tmpDir, mapsDir, realm, historyVars>>

\* No wifi, no answer, a tile that could not be had three times.
FailDownload ==
    /\ phase \in {"ask", "fetch"}
    /\ phase' = "failed"
    /\ UNCHANGED <<mapVars, answer, got, tmpDir, mapsDir, realm, memory, loaded, historyVars>>

\* The dialog synchronizationFailed shows: "try again" or "cancel", which
\* closes the screen if nothing was ever loaded.
Dismiss ==
    /\ phase = "failed"
    /\ phase' \in {"ask", IF loaded THEN "free" ELSE "off"}
    /\ UNCHANGED <<mapVars, answer, got, tmpDir, mapsDir, realm, memory, loaded, historyVars>>

\* The process ends; Realm and files stay.
Kill ==
    /\ phase' = "off"
    /\ got' = {}
    /\ memory' = NoMaps
    /\ loaded' = FALSE
    /\ cut' = (cut \/ (phase = "store" /\ realm \notin {NoMaps, answer}))
    /\ UNCHANGED <<mapVars, answer, tmpDir, mapsDir, realm, changes, changed>>

TabletStep ==
    \/ Open
    \/ MapClick
    \/ Ask
    \/ \E f \in Floor, t \in Tile : FetchTile(f, t)
    \/ DeleteMapsDir
    \/ RenameTmpDir
    \/ \E f \in Floor : StoreFloor(f)
    \/ LoadMaps
    \/ FailDownload
    \/ Dismiss
    \/ Kill

\* A map change begins, goes on, or a crash ends it.
ServerStep ==
    /\ MapNext
    /\ changes' = changes + (IF inProgress' /\ ~inProgress THEN 1 ELSE 0)
    /\ changes' =< MaxChanges
    /\ changed' = changed \union {f \in Floor : phase = "fetch" /\ row'[f] # row[f]}
    /\ UNCHANGED <<tabletVars, cut>>

Next == TabletStep \/ ServerStep

Spec == Init /\ [][Next]_vars

-----------------------------------------------------------------------------
(* Properties *)

TypeOK ==
    /\ MapTypeOK
    /\ phase \in Phase
    /\ answer \in FloorMaps
    /\ got \subseteq Floor \X Tile
    /\ tmpDir \in TileFiles
    /\ mapsDir \in TileFiles
    /\ realm \in FloorMaps
    /\ memory \in FloorMaps
    /\ loaded \in BOOLEAN
    /\ changes \in 0 .. MaxChanges
    /\ changed \subseteq Floor
    /\ cut \in BOOLEAN

\* The tiles of the copy m are on the tablet's disk.
HasFiles(m) == \A f \in Floor : m[f] # NoMap => \A t \in TilesOf[m[f]] : mapsDir[f][t] # NoMap

\* Realm never names a map whose tiles are not there, wherever a download
\* failed or a kill fell: a restart trusts Realm alone.
RealmHasFiles == HasFiles(realm)

\* Whenever the user can open the map screen, the tiles of the map in memory
\* are there: a download that fails half way leaves the old map as it was.
ScreenHasFiles == phase = "free" => HasFiles(memory)

\* A tile is of the picture Realm describes.
TileRight(f, t) == mapsDir[f][t] = realm[f]

\* Tiles agree with the resolutions stored with them, unless the server
\* changed that floor's map while its tiles were fetched.
TilesRightUnlessChanged ==
    \A f \in Floor \ changed :
        realm[f] # NoMap => \A t \in TilesOf[realm[f]] : TileRight(f, t)

\* Outside of a download's last steps, Realm has all floors of an answer or
\* none, unless a kill fell between two floors: a restart then shows the floors
\* that made it and never asks for the others.
AllFloorsUnlessCut == phase # "store" => realm \in {NoMaps, answer} \/ cut

-----------------------------------------------------------------------------
(* The inductive invariant: what a download has done so far. *)

\* The tile is in a directory, and the right one unless its floor changed.
Fetched(dir, ft) ==
    /\ dir[ft[1]][ft[2]] # NoMap
    /\ ft[1] \notin changed => dir[ft[1]][ft[2]] = answer[ft[1]]

\* Until all tiles are there Realm stays empty, and a floor that has not
\* changed still has the map of the answer.
Fetching ==
    /\ phase \in {"fetch", "rename"} => realm = NoMaps
    /\ phase = "fetch" =>
        /\ \A ft \in got : Fetched(tmpDir, ft)
        /\ \A f \in Floor \ changed : row[f] = answer[f]
    /\ phase = "rename" => \A ft \in Wanted : Fetched(tmpDir, ft)

\* While floors are stored every tile they will need is in place.
Storing == phase = "store" =>
    /\ \A ft \in Wanted : Fetched(mapsDir, ft)
    /\ \A f \in Floor : realm[f] \in {NoMap, answer[f]}

\* The map in memory keeps its files until the new ones replace them.
MemoryKept == phase \notin {"rename", "store"} => HasFiles(memory)

TabletInv ==
    /\ TypeOK
    /\ MapInv
    /\ RealmHasFiles
    /\ TilesRightUnlessChanged
    /\ AllFloorsUnlessCut
    /\ MemoryKept
    /\ Fetching
    /\ Storing
=============================================================================
