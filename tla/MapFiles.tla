------------------------------ MODULE MapFiles ------------------------------
(***************************************************************************)
(* The server's maps: MapCommands::set and ::remove with the files they    *)
(* write.  A floor's map is a row of map_images, a full size image in the  *)
(* public directory and a directory of tiles; only the row is under the    *)
(* database's transactions.  Each worker runs one command, step by step;   *)
(* any step can throw, and the process can die at any step.                *)
(*                                                                         *)
(* A picture stands for the uploaded file and everything rendered from it; *)
(* TilesOf gives the tiles its size leads to, over all zoom levels.  The   *)
(* frames a change resets are in module Exhibits.                          *)
(***************************************************************************)
EXTENDS Naturals

CONSTANTS
    Floor,    \* floor numbers
    Picture,  \* pictures users upload
    NoMap,    \* no row, no file
    Tile,     \* names of tile files: zoom level, column, row
    TilesOf,  \* the tiles of a picture
    Worker    \* threads of the ThreadManager

ASSUME MapAssumption ==
    /\ Floor \subseteq Nat /\ Floor # {}
    /\ NoMap \notin Picture
    /\ TilesOf \in [Picture -> SUBSET Tile]

VARIABLES
    row,         \* table map_images: whose map a floor has
    fullImage,   \* publicDir: whose map_f<floor>.jpg is there
    tiles,       \* mapTilesDir: whose tile is there, by floor and tile
    inProgress,  \* MapCommands::inProgress
    pc,          \* next step of a worker's command
    job          \* its floor, and the picture to set or NoMap to remove

mapTables == <<row, fullImage, tiles>>
mapVars == <<mapTables, inProgress, pc, job>>

MaybeMap == Picture \union {NoMap}

\* A tile file is named after a place in the picture it was cut from.
TileDir == {d \in [Tile -> MaybeMap] : \A t \in Tile : d[t] # NoMap => t \in TilesOf[d[t]]}

Job == [floor : Floor, picture : MaybeMap]
Step == {"idle", "removeRow", "removeImage", "removeTiles", "render", "cut",
         "saveRow", "dropImage", "dropTiles", "clear"}

\* The tile directory of a whole map of p.
Cut(p) == [t \in Tile |-> IF p # NoMap /\ t \in TilesOf[p] THEN p ELSE NoMap]

Clean == [t \in Tile |-> NoMap]

\* The server starts on what earlier changes left.
MapInit ==
    /\ row \in [Floor -> MaybeMap]
    /\ fullImage = row
    /\ tiles = [f \in Floor |-> Cut(row[f])]
    /\ inProgress = FALSE
    /\ pc = [w \in Worker |-> "idle"]
    /\ job = [w \in Worker |-> CHOOSE j \in Job : TRUE]

Goto(w, step) == pc' = [pc EXCEPT ![w] = step]

\* A set or remove command that finds the flag clear; one that finds it set
\* is answered with InvalidInput and changes nothing.
Take(w, f, p) ==
    /\ pc[w] = "idle"
    /\ ~inProgress
    /\ inProgress' = TRUE
    /\ job' = [job EXCEPT ![w] = [floor |-> f, picture |-> p]]
    /\ Goto(w, "removeRow")
    /\ UNCHANGED mapTables

\* removeOldData's transaction; the image is deleted only if there was a row.
RemoveRow(w) ==
    /\ pc[w] = "removeRow"
    /\ row' = [row EXCEPT ![job[w].floor] = NoMap]
    /\ Goto(w, IF row[job[w].floor] = NoMap THEN "removeTiles" ELSE "removeImage")
    /\ UNCHANGED <<fullImage, tiles, inProgress, job>>

\* The full size image is deleted: by removeOldData, or by its FileHandler
\* after a failure.
RemoveImage(w) ==
    /\ pc[w] \in {"removeImage", "dropImage"}
    /\ fullImage' = [fullImage EXCEPT ![job[w].floor] = NoMap]
    /\ Goto(w, IF pc[w] = "removeImage" THEN "removeTiles" ELSE "dropTiles")
    /\ UNCHANGED <<row, tiles, inProgress, job>>

\* remove_all of the tile directory, file by file, by either of the two.
RemoveTile(w, t) ==
    /\ pc[w] \in {"removeTiles", "dropTiles"}
    /\ tiles[job[w].floor][t] # NoMap
    /\ tiles' = [tiles EXCEPT ![job[w].floor][t] = NoMap]
    /\ UNCHANGED <<row, fullImage, inProgress, pc, job>>

TilesRemoved(w) ==
    /\ pc[w] \in {"removeTiles", "dropTiles"}
    /\ tiles[job[w].floor] = Clean
    /\ Goto(w, IF pc[w] = "removeTiles" /\ job[w].picture # NoMap THEN "render" ELSE "clear")
    /\ UNCHANGED <<mapTables, inProgress, job>>

\* createFloorDirectory, createImageProc and createFullSizeImage.
Render(w) ==
    /\ pc[w] = "render"
    /\ fullImage' = [fullImage EXCEPT ![job[w].floor] = job[w].picture]
    /\ Goto(w, "cut")
    /\ UNCHANGED <<row, tiles, inProgress, job>>

\* createZoomLevels writes the next tile.
CutTile(w, t) ==
    /\ pc[w] = "cut"
    /\ t \in TilesOf[job[w].picture]
    /\ tiles[job[w].floor][t] = NoMap
    /\ tiles' = [tiles EXCEPT ![job[w].floor][t] = job[w].picture]
    /\ UNCHANGED <<row, fullImage, inProgress, pc, job>>

\* Mutant of TilesCut: the row is saved while tiles are missing.
TilesBegun(w) ==
    /\ pc[w] = "cut"
    /\ Goto(w, "saveRow")
    /\ UNCHANGED <<mapTables, inProgress, job>>

TilesCut(w) ==
    /\ pc[w] = "cut"
    /\ tiles[job[w].floor] = Cut(job[w].picture)
    /\ Goto(w, "saveRow")
    /\ UNCHANGED <<mapTables, inProgress, job>>

\* MapImages::set in a transaction of its own; both handlers are released.
SaveRow(w) ==
    /\ pc[w] = "saveRow"
    /\ row' = [row EXCEPT ![job[w].floor] = job[w].picture]
    /\ Goto(w, "clear")
    /\ UNCHANGED <<fullImage, tiles, inProgress, job>>

\* Where a throw leads: the handlers that exist delete what they name, the
\* later one first, before the catch block clears the flag.  A throw from
\* "render" can come before or after the image has its handler.
AfterThrow ==
    ({"removeRow", "removeImage", "removeTiles"} \X {"clear"})
    \union ({"render"} \X {"dropTiles", "dropImage"})
    \union ({"cut", "saveRow"} \X {"dropImage"})

\* Mutant of Throw: the exception leaves set without passing the catch block.
ThrowUncaught(w) ==
    /\ \E step \in Step : <<pc[w], step>> \in AfterThrow
    /\ Goto(w, "idle")
    /\ UNCHANGED <<mapTables, inProgress, job>>

\* No database, no file, no disk space, no image in the uploaded file, ...
Throw(w) ==
    /\ \E step \in Step : <<pc[w], step>> \in AfterThrow /\ Goto(w, step)
    /\ UNCHANGED <<mapTables, inProgress, job>>

Clear(w) ==
    /\ pc[w] = "clear"
    /\ inProgress' = FALSE
    /\ Goto(w, "idle")
    /\ UNCHANGED <<mapTables, job>>

\* The process ends, or std::terminate after a commit that failed in
\* WorkGuard's destructor; it starts again with rows and files as they are.
ServerCrash ==
    /\ inProgress' = FALSE
    /\ pc' = [w \in Worker |-> "idle"]
    /\ UNCHANGED <<mapTables, job>>

WorkerStep(w) ==
    \/ \E f \in Floor, p \in MaybeMap : Take(w, f, p)
    \/ RemoveRow(w)
    \/ RemoveImage(w)
    \/ \E t \in Tile : RemoveTile(w, t) \/ CutTile(w, t)
    \/ TilesRemoved(w)
    \/ Render(w)
    \/ TilesCut(w)
    \/ SaveRow(w)
    \/ Throw(w)
    \/ Clear(w)

MapNext == ServerCrash \/ \E w \in Worker : WorkerStep(w)

MapSpec == MapInit /\ [][MapNext]_mapVars

-----------------------------------------------------------------------------
(* Properties *)

MapTypeOK ==
    /\ row \in [Floor -> MaybeMap]
    /\ fullImage \in [Floor -> MaybeMap]
    /\ tiles \in [Floor -> TileDir]
    /\ inProgress \in BOOLEAN
    /\ pc \in [Worker -> Step]
    /\ job \in [Worker -> Job]

\* What getMapImages hands out is on the disk: a floor that has a row has its
\* full size image and all its tiles, of the same picture and nothing else,
\* through every failure of a change and every crash.
RowHasFiles ==
    \A f \in Floor : row[f] # NoMap =>
        /\ fullImage[f] = row[f]
        /\ tiles[f] = Cut(row[f])

\* The flag is held by exactly one command while it is set: two changes never
\* meet on the files, and a failed change never locks maps for good.
FlagHeld ==
    /\ inProgress <=> \E w \in Worker : pc[w] # "idle"
    /\ \A w, v \in Worker : pc[w] # "idle" /\ pc[v] # "idle" => w = v

-----------------------------------------------------------------------------
(* The inductive invariant: where a worker is tells what is on the disk. *)

\* The row of the floor a worker is at is gone from the removal on.
RowGone(w) == pc[w] \notin {"idle", "removeRow", "clear"} => row[job[w].floor] = NoMap

\* What a set has rendered before it saves the row.
Rendered(w) ==
    LET f == job[w].floor
        p == job[w].picture
    IN  /\ pc[w] \in {"render", "cut", "saveRow"} => p # NoMap
        /\ pc[w] = "render" => tiles[f] = Clean
        /\ pc[w] \in {"cut", "saveRow"} => fullImage[f] = p
        /\ pc[w] = "cut" => \A t \in Tile : tiles[f][t] \in {NoMap, Cut(p)[t]}
        /\ pc[w] = "saveRow" => tiles[f] = Cut(p)

MapInv ==
    /\ MapTypeOK
    /\ RowHasFiles
    /\ FlagHeld
    /\ \A w \in Worker : RowGone(w) /\ Rendered(w)
=============================================================================
