---------------------------- MODULE MCTabletMaps ----------------------------
(* Small instances of TabletMaps for TLC. *)
EXTENDS TabletMaps, TLC

CONSTANTS p1, p2, t1, t2, w1, w2

\* The second picture is smaller and leads to fewer tiles.
Tilings == p1 :> {t1, t2} @@ p2 :> {t1}

Workers == Permutations(Worker)
=============================================================================
