------------------------- MODULE MCExhibitCommands -------------------------
\* Two exhibits that are given the same name, one after the other.
EXTENDS ExhibitCommands, TLC

OneName == [e \in Exhibit |-> 1]

WorkersAlike == Permutations(Worker)
=============================================================================
