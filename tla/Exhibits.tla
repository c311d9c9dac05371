------------------------------ MODULE Exhibits ------------------------------
(***************************************************************************)
(* The server's exhibit catalogue: the `exhibits` and `map_images` tables  *)
(* and the two exhibit counters, as repository/Exhibits.cpp changes them   *)
(* under ExhibitCommands, MapCommands, ReportCommands and                  *)
(* ExperimentCommands.  Database::execute holds one mutex for a command's  *)
(* whole transaction, so a command's transaction is one action; a command  *)
(* that the code rejects rolls back and is no step at all.                 *)
(*                                                                         *)
(* A frame is abstracted to its floor and to its extent, the larger of     *)
(* x + width and y + height: that is all checkFrame compares with the map. *)
(* The serial id is chosen together with the name it will carry: NameOf    *)
(* gives the name every id is (or would be) created with.                  *)
(***************************************************************************)
EXTENDS Naturals

CONSTANTS
    Exhibit,     \* ids the serial column can hand out
    NameOf,      \* name the exhibit with that id is created with
    Floor,       \* floor numbers
    Extent,      \* possible right/bottom edges of a frame
    Colour,      \* 24-bit rgb values, those checkRgbHex accepts
    NoFrame,     \* the five NULL frame columns
    NoFloor,     \* no map is being replaced
    MaxVersion,  \* bound on last_exhibit_version
    MaxRefs      \* bound on each exhibit's ref_count

ASSUME CatalogueAssumption ==
    /\ Floor \subseteq Nat
    /\ Extent \subseteq Nat \ {0}
    /\ Colour # {}
    /\ NoFloor \notin Floor
    /\ NoFrame \notin [floor : Floor, extent : Extent]
    /\ MaxVersion \in Nat
    /\ MaxRefs \in [Exhibit -> Nat]

VARIABLES
    status,       \* of an exhibit row: not yet inserted, live, is_deleted, row gone
    version,      \* column version
    frame,        \* columns map_frame_*, map_floor
    rgb,          \* column rgb_hex
    refCount,     \* column ref_count
    lastVersion,  \* counter last_exhibit_version
    lastDeleted,  \* counter last_deleted_exhibit_version
    mapSize,      \* map_images: size of a floor's map, 0 when it has no row
    mapChange     \* the floor MapCommands::set works on (flag inProgress)

rowVars == <<status, version, frame, rgb, refCount>>
mapVars == <<mapSize, mapChange>>
serverVars == <<rowVars, lastVersion, lastDeleted, mapVars>>

Frame == [floor : Floor, extent : Extent]
MaybeFrame == Frame \union {NoFrame}
Status == {"unused", "live", "removed", "purged"}

Live == {e \in Exhibit : status[e] = "live"}

\* checkFrame: the floor has a map and the frame lies within it.
FrameFits(f) == f # NoFrame => f.extent =< mapSize[f.floor]

\* checkName: no live exhibit has this name.
NameFree(e) == \A x \in Live : NameOf[x] # NameOf[e]

ServerInit ==
    /\ status = [e \in Exhibit |-> "unused"]
    /\ version = [e \in Exhibit |-> 0]
    /\ frame = [e \in Exhibit |-> NoFrame]
    /\ rgb = [e \in Exhibit |-> CHOOSE c \in Colour : TRUE]
    /\ refCount = [e \in Exhibit |-> 0]
    /\ lastVersion = 0
    /\ lastDeleted = 0
    /\ mapSize = [fl \in Floor |-> 0]
    /\ mapChange = NoFloor

\* Counters::increment(LastExhibitVersion), capped for model checking.
NextVersion ==
    /\ lastVersion < MaxVersion
    /\ lastVersion' = lastVersion + 1

-----------------------------------------------------------------------------
(* ExhibitCommands *)

\* create: insert with a frame proposed by createFrame, or with none.
Create(e, c, f) ==
    /\ status[e] = "unused"
    /\ NameFree(e)
    /\ FrameFits(f)
    /\ NextVersion
    /\ status' = [status EXCEPT ![e] = "live"]
    /\ version' = [version EXCEPT ![e] = lastVersion']
    /\ frame' = [frame EXCEPT ![e] = f]
    /\ rgb' = [rgb EXCEPT ![e] = c]
    /\ UNCHANGED <<refCount, lastDeleted, mapVars>>

\* Exhibits::setFrame on a live row.
SetFrame(e, f) ==
    /\ FrameFits(f)
    /\ NextVersion
    /\ version' = [version EXCEPT ![e] = lastVersion']
    /\ frame' = [frame EXCEPT ![e] = f]

\* The requested floor is the one the exhibit is already on.
SameFloor(e, f) == f # NoFrame /\ frame[e] # NoFrame /\ f.floor = frame[e].floor

\* update: the colour is always written, the frame only if the floor changes.
\* f is the frame createFrame makes for the requested floor.
Update(e, c, f) ==
    /\ status[e] = "live"
    /\ rgb' = [rgb EXCEPT ![e] = c]
    /\ IF SameFloor(e, f)
       THEN UNCHANGED <<version, frame, lastVersion>>
       ELSE SetFrame(e, f)
    /\ UNCHANGED <<status, refCount, lastDeleted, mapVars>>

\* setFrame: a new rectangle on the floor the exhibit is on.
Move(e, x) ==
    /\ status[e] = "live"
    /\ frame[e] # NoFrame
    /\ SetFrame(e, [frame[e] EXCEPT !.extent = x])
    /\ UNCHANGED <<status, rgb, refCount, lastDeleted, mapVars>>

\* remove: the row stays, marked; its own version is left alone.
Remove(e) ==
    /\ status[e] = "live"
    /\ NextVersion
    /\ status' = [status EXCEPT ![e] = "removed"]
    /\ lastDeleted' = lastVersion'
    /\ UNCHANGED <<version, frame, rgb, refCount, mapVars>>

-----------------------------------------------------------------------------
(* Reports and experiments *)

\* Reports::retainExhibits: one more stored event names the exhibit.  Works
\* on removed rows too.
Retain(e) ==
    /\ status[e] \in {"live", "removed"}
    /\ refCount[e] < MaxRefs[e]
    /\ refCount' = [refCount EXCEPT ![e] = @ + 1]
    /\ UNCHANGED <<status, version, frame, rgb, lastVersion, lastDeleted, mapVars>>

\* Exhibits::refresh, run when the active experiment is finished.
Refresh ==
    /\ status' = [e \in Exhibit |->
                    IF status[e] = "removed" /\ refCount[e] = 0
                    THEN "purged" ELSE status[e]]
    /\ UNCHANGED <<version, frame, rgb, refCount, lastVersion, lastDeleted, mapVars>>

-----------------------------------------------------------------------------
(* MapCommands *)

\* Mutant of ResetFrames: removed rows keep their frames.
ResetLiveFrames(fl) ==
    LET onFloor == {e \in Live : frame[e] # NoFrame /\ frame[e].floor = fl}
    IN  /\ NextVersion
        /\ version' = [e \in Exhibit |-> IF e \in onFloor THEN lastVersion' ELSE version[e]]
        /\ frame' = [e \in Exhibit |-> IF e \in onFloor THEN NoFrame ELSE frame[e]]

\* Exhibits::resetFrames: every row on the floor, removed ones included.
ResetFrames(fl) ==
    LET onFloor == {e \in Exhibit : frame[e] # NoFrame /\ frame[e].floor = fl}
    IN  /\ NextVersion
        /\ version' = [e \in Exhibit |-> IF e \in onFloor THEN lastVersion' ELSE version[e]]
        /\ frame' = [e \in Exhibit |-> IF e \in onFloor THEN NoFrame ELSE frame[e]]

\* removeOldData's transaction.
RemoveOldData(fl) ==
    /\ mapChange = NoFloor
    /\ ResetFrames(fl)
    /\ mapSize' = [mapSize EXCEPT ![fl] = 0]
    /\ UNCHANGED <<status, rgb, refCount, lastDeleted>>

\* remove: the flag is held only around removeOldData.
RemoveMap(fl) == RemoveOldData(fl) /\ UNCHANGED mapChange

\* set, first transaction: from here until the second one the flag is held.
BeginSetMap(fl) == RemoveOldData(fl) /\ mapChange' = fl

\* set, last transaction: the new map's row.
FinishSetMap(n) ==
    /\ mapChange # NoFloor
    /\ mapSize' = [mapSize EXCEPT ![mapChange] = n]
    /\ mapChange' = NoFloor
    /\ UNCHANGED <<rowVars, lastVersion, lastDeleted>>

\* set fails between its transactions: no image file, no disk space, ...
FailSetMap ==
    /\ mapChange # NoFloor
    /\ mapChange' = NoFloor
    /\ UNCHANGED <<rowVars, lastVersion, lastDeleted, mapSize>>

ServerNext ==
    \/ \E e \in Exhibit, c \in Colour, f \in MaybeFrame : Create(e, c, f) \/ Update(e, c, f)
    \/ \E e \in Exhibit, x \in Extent : Move(e, x)
    \/ \E e \in Exhibit : Remove(e) \/ Retain(e)
    \/ Refresh
    \/ \E fl \in Floor : RemoveMap(fl) \/ BeginSetMap(fl)
    \/ \E n \in Extent : FinishSetMap(n)
    \/ FailSetMap

ServerSpec == ServerInit /\ [][ServerNext]_serverVars

-----------------------------------------------------------------------------
(* Properties of the catalogue *)

ServerTypeOK ==
    /\ status \in [Exhibit -> Status]
    /\ version \in [Exhibit -> Nat]
    /\ frame \in [Exhibit -> MaybeFrame]
    /\ rgb \in [Exhibit -> Colour]
    /\ refCount \in [Exhibit -> Nat]
    /\ lastVersion \in Nat
    /\ lastDeleted \in Nat
    /\ mapSize \in [Floor -> Extent \union {0}]
    /\ mapChange \in Floor \union {NoFloor}

\* Every stored frame, of removed exhibits too, lies within the current map
\* of its floor: replacing or removing a map never leaves a frame behind that
\* checkFrame would now refuse.
FramesFit == \A e \in Exhibit : FrameFits(frame[e])

\* No change escapes the version counters: a row's version and the last
\* deletion never run ahead of the counter a client is told about.
VersionsBounded ==
    /\ lastDeleted =< lastVersion
    /\ \A e \in Exhibit : version[e] =< lastVersion

\* While a floor's map is being replaced no exhibit is framed on that floor.
NoFrameDuringMapChange ==
    mapChange # NoFloor =>
        \A e \in Exhibit : frame[e] # NoFrame => frame[e].floor # mapChange

\* Exhibits.h:21 says "`insert`, `set*` cause version update": a step that
\* changes what a live exhibit looks like gives it a newer version.
SetCausesVersionUpdate ==
    [][\A e \in Exhibit :
          status[e] = "live" /\ <<frame[e], rgb[e]>>' # <<frame[e], rgb[e]>>
              => version'[e] > version[e]]_serverVars
=============================================================================
