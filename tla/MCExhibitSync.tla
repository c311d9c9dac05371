---------------------------- MODULE MCExhibitSync ----------------------------
(* Small instances of ExhibitSync for TLC. *)
EXTENDS ExhibitSync, TLC

CONSTANTS e1, e2, e3, n1, n2

\* e1 and e2 carry the same name, so one of them must go before the other.
SharedNames == e1 :> n1 @@ e2 :> n1 @@ e3 :> n2
TwoNames == e1 :> n1 @@ e2 :> n2

\* An event may name e1; the two are alike otherwise.
FirstRetained == e1 :> 1 @@ e2 :> 0
=============================================================================
