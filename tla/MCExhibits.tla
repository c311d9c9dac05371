----------------------------- MODULE MCExhibits -----------------------------
(* Small instances of the catalogue alone for TLC. *)
EXTENDS Exhibits, TLC

CONSTANTS e1, e2, e3, n1, n2

\* e1 and e2 carry the same name, so one of them must go before the other.
SharedNames == e1 :> n1 @@ e2 :> n1 @@ e3 :> n2

OnceRetained == [e \in Exhibit |-> 1]
=============================================================================
