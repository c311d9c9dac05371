------------------------------- MODULE MCVisit -------------------------------
(* A small instance of Visit for TLC. *)
EXTENDS Visit

CONSTANTS e1, e2, a

MCExhibitActions == [e \in Experiment |-> IF e = e1 THEN {a} ELSE {}]
MCBreakActions == [e \in Experiment |-> IF e = e1 THEN {} ELSE {a}]
==============================================================================
