------------------------------ MODULE ItemUse ------------------------------
(***************************************************************************)
(* What the repositories of actions and questions promise the experiments, *)
(* without reference counts: an item that some experiment's lists name     *)
(* stays (Actions.h and the three *Questions.h: "`remove` throws InUse if  *)
(* some experiment uses given ..."), and lists only ever name items that   *)
(* are there.                                                              *)
(***************************************************************************)
CONSTANTS Experiment, Item, Slot, NoItem

VARIABLES
    items,    \* the stored actions and questions
    content   \* what the lists of each experiment name

Empty == [s \in Slot |-> NoItem]
Named(c) == {c[s] : s \in Slot} \ {NoItem}

Init ==
    /\ items = {}
    /\ content = [x \in Experiment |-> Empty]

Create(i) ==
    /\ i \notin items
    /\ items' = items \union {i}
    /\ UNCHANGED content

Remove(i) ==
    /\ i \in items
    /\ \A x \in Experiment : i \notin Named(content[x])
    /\ items' = items \ {i}
    /\ UNCHANGED content

Use(x, c) ==
    /\ Named(c) \subseteq items
    /\ content' = [content EXCEPT ![x] = c]
    /\ UNCHANGED items

Next ==
    \/ \E i \in Item : Create(i) \/ Remove(i)
    \/ \E x \in Experiment, c \in [Slot -> Item \union {NoItem}] : Use(x, c)

Spec == Init /\ [][Next]_<<items, content>>
=============================================================================
