---------------------------- MODULE ServerProofs ----------------------------
(***************************************************************************)
(* The server as the web site meets it.  Its experiments: the reference    *)
(* counts are exact, nothing in use is removed and a stored report can     *)
(* always be printed, for every finite set of experiments, list positions  *)
(* and events, every set of items and exhibits and every bound.  The web   *)
(* site's communicator: a call that is alone on its way gets its own       *)
(* answer, for any number of calls and any commands, whatever those before *)
(* it have left behind.                                                    *)
(***************************************************************************)
EXTENDS Experiments, WebProxy, FiniteSetTheorems, TLAPS

-----------------------------------------------------------------------------
(* Counting positions *)

\* Pairing the elements of a finite set with one value does not change their
\* number.
LEMMA PairedCount ==
    ASSUME NEW x, NEW S, IsFiniteSet(S)
    PROVE  /\ IsFiniteSet({x} \X S)
           /\ Cardinality({x} \X S) = Cardinality(S)
<1>1. IsFiniteSet({x}) /\ Cardinality({x}) = 1
  BY FS_Singleton
<1>2. /\ IsFiniteSet({x} \X S)
      /\ Cardinality({x} \X S) = 1 * Cardinality(S)
  BY <1>1, FS_Product
<1>3. Cardinality(S) \in Nat
  BY FS_CardinalityType
<1>4. QED
  BY <1>2, <1>3

\* The positions of one list, or of one report, that name something.
LEMMA PositionsFinite ==
    ASSUME NEW c, NEW i
    PROVE  /\ IsFiniteSet(Uses(c, i)) /\ Cardinality(Uses(c, i)) \in Nat
           /\ IsFiniteSet(Names(c, i)) /\ Cardinality(Names(c, i)) \in Nat
<1>1. Uses(c, i) \in SUBSET Slot /\ Names(c, i) \in SUBSET Event
  BY DEF Uses, Names
<1>2. IsFiniteSet(Uses(c, i)) /\ IsFiniteSet(Names(c, i))
  BY <1>1, FS_Subset, StoreAssumption
<1>3. QED
  BY <1>2, FS_CardinalityType

\* An experiment without a row names nothing.
LEMMA EmptyUsesNothing ==
    ASSUME NEW i \in Item
    PROVE  Uses(Empty, i) = {} /\ Cardinality(Uses(Empty, i)) = 0
<1>1. Uses(Empty, i) = {}
  BY StoreAssumption DEF Uses, Empty
<1>2. QED
  BY <1>1, FS_EmptySet

\* All positions that name an item, or an exhibit, are finitely many.
LEMMA UsedAtFinite ==
    ASSUME NEW i
    PROVE  IsFiniteSet(UsedAt(i)) /\ Cardinality(UsedAt(i)) \in Nat
<1>1. IsFiniteSet(Experiment \X Slot)
  BY FS_Product, StoreAssumption
<1>2. UsedAt(i) \in SUBSET (Experiment \X Slot)
  BY DEF UsedAt
<1>3. IsFiniteSet(UsedAt(i))
  BY <1>1, <1>2, FS_Subset
<1>4. QED
  BY <1>3, FS_CardinalityType

LEMMA NamedAtFinite ==
    ASSUME NEW e
    PROVE  IsFiniteSet(NamedAt(e)) /\ Cardinality(NamedAt(e)) \in Nat
<1>1. IsFiniteSet(ReportID)
  BY FS_Interval, StoreAssumption DEF ReportID
<1>2. IsFiniteSet(ReportID \X Event)
  BY <1>1, FS_Product, StoreAssumption
<1>3. NamedAt(e) \in SUBSET (ReportID \X Event)
  BY DEF NamedAt
<1>4. IsFiniteSet(NamedAt(e))
  BY <1>2, <1>3, FS_Subset
<1>5. QED
  BY <1>4, FS_CardinalityType

\* Exchanging a part of a finite set for elements it does not have.
LEMMA ExchangeCount ==
    ASSUME NEW S, IsFiniteSet(S), NEW O \in SUBSET S,
           NEW N, IsFiniteSet(N), (S \ O) \intersect N = {}
    PROVE  /\ Cardinality((S \ O) \union N) = Cardinality(S) - Cardinality(O) + Cardinality(N)
           /\ Cardinality(O) =< Cardinality(S)
<1>1. IsFiniteSet(O) /\ Cardinality(O) =< Cardinality(S)
  BY FS_Subset
<1>2. S \intersect O = O /\ Cardinality(S \intersect O) = Cardinality(O)
  <2>1. S \intersect O = O
    OBVIOUS
  <2>2. QED
    BY <2>1
<1>3. IsFiniteSet(S \ O) /\ Cardinality(S \ O) = Cardinality(S) - Cardinality(S \intersect O)
  BY FS_Difference
<1>4. Cardinality((S \ O) \union N) =
        Cardinality(S \ O) + Cardinality(N) - Cardinality((S \ O) \intersect N)
  BY <1>3, FS_Union
<1>5. Cardinality((S \ O) \intersect N) = 0
  BY FS_EmptySet
<1>6. /\ Cardinality(S) \in Nat /\ Cardinality(O) \in Nat /\ Cardinality(N) \in Nat
  BY <1>1, FS_CardinalityType
<1>7. QED
  BY <1>1, <1>2, <1>3, <1>4, <1>5, <1>6

\* Giving one experiment new lists takes its old positions off an item's
\* number of uses and puts its new ones on.
LEMMA ContentSwapCount ==
    ASSUME content \in [Experiment -> Content],
           NEW x \in Experiment, NEW c \in Content, NEW i \in Item,
           content' = [content EXCEPT ![x] = c]
    PROVE  /\ Cardinality(UsedAt(i)') =
                 Cardinality(UsedAt(i)) - Cardinality(Uses(content[x], i))
                     + Cardinality(Uses(c, i))
           /\ Cardinality(Uses(content[x], i)) =< Cardinality(UsedAt(i))
<1> DEFINE Old == {x} \X Uses(content[x], i)
           New == {x} \X Uses(c, i)
<1>1. /\ IsFiniteSet(Old) /\ Cardinality(Old) = Cardinality(Uses(content[x], i))
      /\ IsFiniteSet(New) /\ Cardinality(New) = Cardinality(Uses(c, i))
  BY PairedCount, PositionsFinite
<1>2. Old \in SUBSET UsedAt(i)
  BY DEF Uses, UsedAt
<1>3. UsedAt(i)' = (UsedAt(i) \ Old) \union New
  BY DEF Uses, UsedAt
<1>4. (UsedAt(i) \ Old) \intersect New = {}
  BY DEF Uses, UsedAt
<1>5. IsFiniteSet(UsedAt(i))
  BY UsedAtFinite
<1> HIDE DEF Old, New
<1>6. QED
  BY <1>1, <1>2, <1>3, <1>4, <1>5, ExchangeCount

\* Storing a report adds its events to the positions that name an exhibit.
LEMMA ReportAddedCount ==
    ASSUME reports \in [ReportID -> Report \union {NoReport}],
           NEW r \in ReportID, NEW p \in Report, NEW e \in Exhibit,
           reports[r] = NoReport,
           reports' = [reports EXCEPT ![r] = p]
    PROVE  Cardinality(NamedAt(e)') = Cardinality(NamedAt(e)) + Cardinality(Names(p.history, e))
<1> DEFINE New == {r} \X Names(p.history, e)
<1>1. IsFiniteSet(New) /\ Cardinality(New) = Cardinality(Names(p.history, e))
  BY PairedCount, PositionsFinite
<1>2. p # NoReport
  BY ReportAssumption
<1>3. NamedAt(e)' = NamedAt(e) \union New
  BY <1>2 DEF NamedAt, Names
<1>4. NamedAt(e) \intersect New = {}
  BY DEF NamedAt, Names
<1>5. IsFiniteSet(NamedAt(e)) /\ Cardinality(NamedAt(e)) \in Nat
  BY NamedAtFinite
<1>6. Cardinality(NamedAt(e)') = Cardinality(NamedAt(e)) + Cardinality(New) - Cardinality({})
  BY <1>1, <1>3, <1>4, <1>5, FS_Union
<1>7. Cardinality(New) \in Nat /\ Cardinality({}) = 0
  BY <1>1, FS_CardinalityType, FS_EmptySet
<1>8. QED
  BY <1>1, <1>5, <1>6, <1>7
-----------------------------------------------------------------------------
(* What the parts of the invariant depend on *)

\* The counts of items are exact while no list and no count changes.
LEMMA RefCountsFrame ==
    ASSUME RefCountsExact, UNCHANGED <<itemRefs, content>>
    PROVE  RefCountsExact'
<1>1. ASSUME NEW i \in Item PROVE UsedAt(i)' = UsedAt(i)
  BY DEF UsedAt
<1>2. QED
  BY <1>1 DEF RefCountsExact

\* The counts of exhibits cover their events while no report is stored.
LEMMA EventsFrame ==
    ASSUME TypeOK, EventsCounted, exhibitRefs' = exhibitRefs,
           \A r \in ReportID : reports'[r] \in {reports[r], NoReport}
    PROVE  EventsCounted'
<1> SUFFICES ASSUME NEW e \in Exhibit
             PROVE  exhibitRefs'[e] >= Cardinality(NamedAt(e)')
  BY DEF EventsCounted
<1>1. NamedAt(e)' \in SUBSET NamedAt(e)
  BY DEF NamedAt
<1>2. IsFiniteSet(NamedAt(e)) /\ Cardinality(NamedAt(e)) \in Nat
  BY NamedAtFinite
<1>3. IsFiniteSet(NamedAt(e)') /\ Cardinality(NamedAt(e)') =< Cardinality(NamedAt(e))
  BY <1>1, <1>2, FS_Subset
<1>4. Cardinality(NamedAt(e)') \in Nat
  BY <1>3, FS_CardinalityType
<1>5. exhibitRefs[e] \in Nat /\ exhibitRefs[e] >= Cardinality(NamedAt(e))
  BY DEF TypeOK, EventsCounted
<1>6. QED
  BY <1>2, <1>3, <1>4, <1>5

\* What tablets hold, and what was answered, does not depend on the lists of
\* an experiment that is neither active nor finished.
LEMMA EditFrame ==
    ASSUME TypeOK, StoreInv, NEW x \in Experiment, state[x] \in {"unused", "ready"},
           NEW s \in {"unused", "ready"}, NEW c \in Content,
           state' = [state EXCEPT ![x] = s], content' = [content EXCEPT ![x] = c],
           UNCHANGED <<exhibitVars, reportVars, served>>
    PROVE  EventsCounted' /\ AtMostOneActive' /\ ServedFaithfully' /\ ReportsPrintable'
<1>1. EventsCounted'
  BY EventsFrame DEF StoreInv, exhibitVars, reportVars
<1>2. AtMostOneActive'
  BY DEF StoreInv, TypeOK, AtMostOneActive
<1>3. ServedFaithfully'
  BY DEF StoreInv, TypeOK, ServedFaithfully
<1>4. ReportsPrintable'
  <2> SUFFICES ASSUME NEW r \in ReportID, reports[r] # NoReport
               PROVE  /\ state'[reports[r].experiment] \in {"active", "finished"}
                      /\ reports[r].asked = content'[reports[r].experiment]
                      /\ \A v \in Event : reports[r].history[v] # NoExhibit =>
                            exhibitState[reports[r].history[v]] \in {"live", "removed"}
    BY DEF ReportsPrintable, exhibitVars, reportVars
  <2>1. reports[r].experiment \in Experiment /\ reports[r].experiment # x
    BY DEF TypeOK, StoreInv, ReportsPrintable, Report
  <2>2. QED
    BY <2>1 DEF StoreInv, TypeOK, ReportsPrintable
<1>5. QED
  BY <1>1, <1>2, <1>3, <1>4

-----------------------------------------------------------------------------
(* The actions *)

\* A new experiment, whether inserted or cloned, retains what its lists name.
LEMMA InsertExecKeepsInv ==
    ASSUME TypeOK, StoreInv, NEW x \in Experiment, NEW n \in Name, NEW c \in Content,
           InsertExec(x, n, c)
    PROVE  TypeOK' /\ StoreInv'
<1>1. content[x] = Empty
  BY DEF InsertExec, StoreInv, Exists
<1>2. ASSUME NEW i \in Item
      PROVE  /\ Cardinality(Uses(c, i)) \in Nat
             /\ Cardinality(UsedAt(i)') = Cardinality(UsedAt(i)) + Cardinality(Uses(c, i))
             /\ itemRefs'[i] = itemRefs[i] + Cardinality(Uses(c, i))
  <2>1. Cardinality(UsedAt(i)') =
           Cardinality(UsedAt(i)) - Cardinality(Uses(Empty, i)) + Cardinality(Uses(c, i))
    BY <1>1, ContentSwapCount DEF InsertExec, TypeOK
  <2>2. Cardinality(Uses(Empty, i)) = 0
    BY EmptyUsesNothing
  <2>3. Cardinality(UsedAt(i)) \in Nat /\ Cardinality(Uses(c, i)) \in Nat
    BY UsedAtFinite, PositionsFinite
  <2>4. itemRefs'[i] = itemRefs[i] + Cardinality(Uses(c, i))
    BY DEF InsertExec, Retained
  <2>5. QED
    BY <2>1, <2>2, <2>3, <2>4
<1>3. itemRefs' \in [Item -> Nat]
  <2>1. itemRefs' = [i \in Item |-> itemRefs[i] + Cardinality(Uses(c, i))]
    BY DEF InsertExec, Retained
  <2>2. ASSUME NEW i \in Item PROVE itemRefs[i] + Cardinality(Uses(c, i)) \in Nat
    BY <1>2 DEF TypeOK
  <2>3. QED
    BY <2>1, <2>2
<1>4. TypeOK'
  BY <1>3 DEF InsertExec, TypeOK, exhibitVars, reportVars
<1>5. RefCountsExact'
  BY <1>2 DEF StoreInv, RefCountsExact
<1>6. ExperimentsLoadable' /\ \A y \in Experiment : ~Exists(y)' => content'[y] = Empty
  BY DEF InsertExec, StoreInv, TypeOK, ExperimentsLoadable, Exists, Stored
<1>7. EventsCounted' /\ AtMostOneActive' /\ ServedFaithfully' /\ ReportsPrintable'
  BY EditFrame DEF InsertExec
<1>8. QED
  BY <1>4, <1>5, <1>6, <1>7 DEF StoreInv

\* An update releases what the lists named and retains what they name.
LEMMA UpdateKeepsInv ==
    ASSUME TypeOK, StoreInv, NEW x \in Experiment, NEW n \in Name, NEW c \in Content,
           Update(x, n, c)
    PROVE  TypeOK' /\ StoreInv'
<1>1. ASSUME NEW i \in Item
      PROVE  itemRefs'[i] \in Nat /\ itemRefs'[i] = Cardinality(UsedAt(i)')
  <2>1. /\ Cardinality(UsedAt(i)') =
             Cardinality(UsedAt(i)) - Cardinality(Uses(content[x], i)) + Cardinality(Uses(c, i))
        /\ Cardinality(Uses(content[x], i)) =< Cardinality(UsedAt(i))
    BY ContentSwapCount DEF Update, UpdateFrom, TypeOK
  <2>2. /\ Cardinality(UsedAt(i)) \in Nat /\ Cardinality(Uses(c, i)) \in Nat
        /\ Cardinality(Uses(content[x], i)) \in Nat
    BY UsedAtFinite, PositionsFinite
  <2>3. itemRefs'[i] = itemRefs[i] - Cardinality(Uses(content[x], i)) + Cardinality(Uses(c, i))
    BY DEF Update, UpdateFrom, Retained, Released
  <2>4. itemRefs[i] = Cardinality(UsedAt(i))
    BY DEF StoreInv, RefCountsExact
  <2>5. QED
    BY <2>1, <2>2, <2>3, <2>4
<1>2. itemRefs' \in [Item -> Nat]
  <2>1. itemRefs' = [i \in Item |-> itemRefs'[i]]
    BY DEF Update, UpdateFrom, Retained
  <2>2. QED
    BY <1>1, <2>1
<1>3. TypeOK'
  BY <1>2 DEF Update, UpdateFrom, TypeOK, exhibitVars, reportVars
<1>4. RefCountsExact'
  BY <1>1 DEF RefCountsExact
<1>5. ExperimentsLoadable' /\ \A y \in Experiment : ~Exists(y)' => content'[y] = Empty
  BY DEF Update, UpdateFrom, StoreInv, TypeOK, ExperimentsLoadable, Exists, Stored
<1>6. state' = [state EXCEPT ![x] = "ready"]
  BY DEF Update, UpdateFrom, TypeOK
<1>7. EventsCounted' /\ AtMostOneActive' /\ ServedFaithfully' /\ ReportsPrintable'
  BY <1>6, EditFrame DEF Update, UpdateFrom
<1>8. QED
  BY <1>3, <1>4, <1>5, <1>7 DEF StoreInv

\* A removal releases what the lists named and takes the reports along.
LEMMA RemoveKeepsInv ==
    ASSUME TypeOK, StoreInv, NEW x \in Experiment, Remove(x)
    PROVE  TypeOK' /\ StoreInv'
<1>1. Empty \in Content /\ content' = [content EXCEPT ![x] = Empty]
  BY DEF Empty, Content, Remove, RemoveFrom
<1>2. ASSUME NEW i \in Item
      PROVE  itemRefs'[i] \in Nat /\ itemRefs'[i] = Cardinality(UsedAt(i)')
  <2>1. /\ Cardinality(UsedAt(i)') =
             Cardinality(UsedAt(i)) - Cardinality(Uses(content[x], i)) + Cardinality(Uses(Empty, i))
        /\ Cardinality(Uses(content[x], i)) =< Cardinality(UsedAt(i))
    BY <1>1, ContentSwapCount DEF TypeOK
  <2>2. /\ Cardinality(UsedAt(i)) \in Nat /\ Cardinality(Uses(Empty, i)) = 0
        /\ Cardinality(Uses(content[x], i)) \in Nat
    BY UsedAtFinite, PositionsFinite, EmptyUsesNothing
  <2>3. itemRefs'[i] = itemRefs[i] - Cardinality(Uses(content[x], i))
    BY DEF Remove, RemoveFrom, Released
  <2>4. itemRefs[i] = Cardinality(UsedAt(i))
    BY DEF StoreInv, RefCountsExact
  <2>5. QED
    BY <2>1, <2>2, <2>3, <2>4
<1>3. itemRefs' \in [Item -> Nat]
  <2>1. itemRefs' = [i \in Item |-> itemRefs'[i]]
    BY DEF Remove, RemoveFrom, Released
  <2>2. QED
    BY <1>2, <2>1
<1>4. /\ reports' \in [ReportID -> Report \union {NoReport}]
      /\ \A r \in ReportID :
            /\ reports'[r] \in {reports[r], NoReport}
            /\ reports'[r] # NoReport => reports'[r] = reports[r] /\ reports[r].experiment # x
  BY DEF Remove, RemoveFrom, TypeOK
<1>5. TypeOK'
  BY <1>1, <1>3, <1>4 DEF Remove, RemoveFrom, TypeOK, exhibitVars
<1>6. RefCountsExact'
  BY <1>2 DEF RefCountsExact
<1>7. ExperimentsLoadable' /\ \A y \in Experiment : ~Exists(y)' => content'[y] = Empty
  BY <1>1 DEF Remove, RemoveFrom, StoreInv, TypeOK, ExperimentsLoadable, Exists, Stored
<1>8. EventsCounted'
  BY <1>4, EventsFrame DEF Remove, RemoveFrom, StoreInv, exhibitVars
<1>9. AtMostOneActive'
  BY DEF Remove, RemoveFrom, StoreInv, TypeOK, AtMostOneActive
<1>10. ServedFaithfully'
  BY <1>1 DEF Remove, RemoveFrom, StoreInv, TypeOK, ServedFaithfully
<1>11. ReportsPrintable'
  <2> SUFFICES ASSUME NEW r \in ReportID, reports'[r] # NoReport
               PROVE  /\ state'[reports'[r].experiment] \in {"active", "finished"}
                      /\ reports'[r].asked = content'[reports'[r].experiment]
                      /\ \A v \in Event : reports'[r].history[v] # NoExhibit =>
                            exhibitState'[reports'[r].history[v]] \in {"live", "removed"}
    BY DEF ReportsPrintable
  <2>1. /\ reports'[r] = reports[r] /\ reports[r] # NoReport
        /\ reports[r].experiment \in Experiment /\ reports[r].experiment # x
    BY <1>4 DEF TypeOK, Report
  <2>2. /\ state'[reports[r].experiment] = state[reports[r].experiment]
        /\ content'[reports[r].experiment] = content[reports[r].experiment]
        /\ exhibitState' = exhibitState
    BY <1>1, <2>1 DEF Remove, RemoveFrom, TypeOK, exhibitVars
  <2>3. QED
    BY <2>1, <2>2 DEF StoreInv, ReportsPrintable
<1>12. QED
  BY <1>5, <1>6, <1>7, <1>8, <1>9, <1>10, <1>11 DEF StoreInv

\* Finishing deletes only exhibits no event names: their count is 0.
LEMMA FinishKeepsInv ==
    ASSUME TypeOK, StoreInv, Finish
    PROVE  TypeOK' /\ StoreInv'
<1>1. TypeOK'
  BY DEF Finish, FinishPurging, TypeOK, itemVars, reportVars
<1>2. RefCountsExact'
  BY RefCountsFrame DEF Finish, FinishPurging, StoreInv, itemVars
<1>3. EventsCounted'
  BY EventsFrame DEF Finish, FinishPurging, StoreInv, TypeOK, reportVars
<1>4. ExperimentsLoadable' /\ \A y \in Experiment : ~Exists(y)' => content'[y] = Empty
  BY DEF Finish, FinishPurging, StoreInv, TypeOK, ExperimentsLoadable, Exists, Stored, itemVars
<1>5. AtMostOneActive' /\ ServedFaithfully'
  BY DEF Finish, FinishPurging, StoreInv, TypeOK, AtMostOneActive, ServedFaithfully
<1>6. ReportsPrintable'
  <2> SUFFICES ASSUME NEW r \in ReportID, reports[r] # NoReport
               PROVE  /\ state'[reports[r].experiment] \in {"active", "finished"}
                      /\ reports[r].asked = content[reports[r].experiment]
                      /\ \A v \in Event : reports[r].history[v] # NoExhibit =>
                            exhibitState'[reports[r].history[v]] \in {"live", "removed"}
    BY DEF Finish, FinishPurging, ReportsPrintable, reportVars
  <2>1. /\ state[reports[r].experiment] \in {"active", "finished"}
        /\ reports[r].asked = content[reports[r].experiment]
        /\ reports[r].experiment \in Experiment
        /\ reports[r].history \in History
    BY DEF StoreInv, ReportsPrintable, TypeOK, Report
  <2>2. state'[reports[r].experiment] \in {"active", "finished"}
    BY <2>1 DEF Finish, FinishPurging
  <2>3. ASSUME NEW v \in Event, reports[r].history[v] # NoExhibit
        PROVE  exhibitState'[reports[r].history[v]] \in {"live", "removed"}
    <3> DEFINE e == reports[r].history[v]
    <3>1. e \in Exhibit /\ exhibitState[e] \in {"live", "removed"}
      BY <2>1, <2>3 DEF StoreInv, ReportsPrintable, History
    <3>2. <<r, v>> \in NamedAt(e)
      BY DEF NamedAt
    <3>3. Cardinality(NamedAt(e)) # 0
      BY <3>2, NamedAtFinite, FS_EmptySet
    <3>4. exhibitRefs[e] # 0
      BY <3>1, <3>3, NamedAtFinite DEF StoreInv, EventsCounted, TypeOK
    <3>5. QED
      BY <3>1, <3>4 DEF Finish, FinishPurging
  <2>4. QED
    BY <2>1, <2>2, <2>3
<1>7. QED
  BY <1>1, <1>2, <1>3, <1>4, <1>5, <1>6 DEF StoreInv

\* A report is stored for lists that are those of the active experiment, and
\* its events are counted.
LEMMA SaveKeepsInv ==
    ASSUME TypeOK, StoreInv,
           NEW r \in ReportID, NEW x \in Experiment, NEW c \in Content, NEW h \in History,
           Save(r, x, c, h)
    PROVE  TypeOK' /\ StoreInv'
<1> DEFINE p == [experiment |-> x, asked |-> c, history |-> h]
<1>1. p \in Report /\ reports' = [reports EXCEPT ![r] = p] /\ reports[r] = NoReport
  BY DEF Save, SaveCounting, Report
<1>2. ASSUME NEW e \in Exhibit
      PROVE  /\ exhibitRefs'[e] = exhibitRefs[e] + Cardinality(Names(h, e))
             /\ Cardinality(Names(h, e)) \in Nat
  BY PositionsFinite DEF Save, SaveCounting
<1>3. exhibitRefs' \in [Exhibit -> Nat]
  <2>1. exhibitRefs' = [e \in Exhibit |-> exhibitRefs'[e]]
    BY DEF Save, SaveCounting
  <2>2. ASSUME NEW e \in Exhibit PROVE exhibitRefs'[e] \in Nat
    BY <1>2 DEF TypeOK
  <2>3. QED
    BY <2>1, <2>2
<1>4. TypeOK'
  BY <1>1, <1>3 DEF Save, SaveCounting, TypeOK, itemVars, experimentVars
<1>5. RefCountsExact'
  BY RefCountsFrame DEF Save, SaveCounting, StoreInv, itemVars, experimentVars
<1>6. EventsCounted'
  <2> SUFFICES ASSUME NEW e \in Exhibit
               PROVE  exhibitRefs'[e] >= Cardinality(NamedAt(e)')
    BY DEF EventsCounted
  <2>1. p.history = h
    OBVIOUS
  <2> HIDE DEF p
  <2>2. Cardinality(NamedAt(e)') = Cardinality(NamedAt(e)) + Cardinality(Names(h, e))
    BY <1>1, <2>1, ReportAddedCount DEF TypeOK
  <2>3. exhibitRefs[e] \in Nat /\ exhibitRefs[e] >= Cardinality(NamedAt(e))
    BY DEF TypeOK, StoreInv, EventsCounted
  <2>4. Cardinality(NamedAt(e)) \in Nat
    BY NamedAtFinite
  <2>5. QED
    BY <1>2, <2>2, <2>3, <2>4
<1>7. ExperimentsLoadable' /\ \A y \in Experiment : ~Exists(y)' => content'[y] = Empty
  BY DEF Save, SaveCounting, StoreInv, ExperimentsLoadable, Exists, Stored, itemVars, experimentVars
<1>8. AtMostOneActive' /\ ServedFaithfully'
  BY DEF Save, SaveCounting, StoreInv, AtMostOneActive, ServedFaithfully, experimentVars
<1>9. content[x] = c
  BY DEF Save, SaveCounting, StoreInv, ServedFaithfully
<1>10. ReportsPrintable'
  <2> SUFFICES ASSUME NEW q \in ReportID, reports'[q] # NoReport
               PROVE  /\ state[reports'[q].experiment] \in {"active", "finished"}
                      /\ reports'[q].asked = content[reports'[q].experiment]
                      /\ \A v \in Event : reports'[q].history[v] # NoExhibit =>
                            exhibitState[reports'[q].history[v]] \in {"live", "removed"}
    BY DEF Save, SaveCounting, ReportsPrintable, experimentVars
  <2>1. CASE q = r
    <3>1. reports'[q] = p
      BY <1>1, <2>1 DEF TypeOK
    <3>2. QED
      BY <1>9, <3>1 DEF Save, SaveCounting
  <2>2. CASE q # r
    <3>1. reports'[q] = reports[q]
      BY <1>1, <2>2 DEF TypeOK
    <3>2. QED
      BY <3>1 DEF StoreInv, ReportsPrintable
  <2>3. QED
    BY <2>1, <2>2
<1>11. QED
  BY <1>4, <1>5, <1>6, <1>7, <1>8, <1>10 DEF StoreInv

\* An item is removed only when no list names it: its count is 0.
LEMMA RemoveItemKeepsInv ==
    ASSUME TypeOK, StoreInv, NEW i \in Item, RemoveItem(i)
    PROVE  TypeOK' /\ StoreInv'
<1>1. UsedAt(i) = {}
  BY UsedAtFinite, FS_EmptySet DEF RemoveItem, StoreInv, RefCountsExact
<1>2. TypeOK'
  BY DEF RemoveItem, TypeOK, experimentVars, exhibitVars, reportVars
<1>3. ExperimentsLoadable'
  <2> SUFFICES ASSUME NEW x \in Experiment, Exists(x), NEW s \in Slot, content[x][s] # NoItem
               PROVE  itemState'[content[x][s]] = "stored"
    BY DEF RemoveItem, ExperimentsLoadable, Stored, Exists, experimentVars
  <2>1. content[x][s] \in Item /\ content[x][s] # i
    <3>1. <<x, s>> \notin UsedAt(i) /\ content[x] \in Content
      BY <1>1 DEF TypeOK
    <3>2. content[x][s] # i
      BY <3>1 DEF UsedAt
    <3>3. QED
      BY <3>1, <3>2 DEF Content
  <2>2. itemState[content[x][s]] = "stored"
    BY DEF StoreInv, ExperimentsLoadable, Stored
  <2>3. QED
    BY <2>1, <2>2 DEF RemoveItem, TypeOK
<1>4. RefCountsExact'
  BY RefCountsFrame DEF RemoveItem, StoreInv, experimentVars
<1>5. EventsCounted'
  BY EventsFrame DEF RemoveItem, StoreInv, exhibitVars, reportVars
<1>6. QED
  BY <1>2, <1>3, <1>4, <1>5
  DEF RemoveItem, StoreInv, Exists, AtMostOneActive, ServedFaithfully, ReportsPrintable,
      experimentVars, exhibitVars, reportVars

\* The steps that touch no count and no list.
LEMMA LightStepKeepsInv ==
    ASSUME TypeOK, StoreInv,
           \/ \E i \in Item : CreateItem(i)
           \/ \E x \in Experiment : StartExperiment(x) \/ GetCurrent(x)
           \/ \E e \in Exhibit : CreateExhibit(e) \/ RemoveExhibit(e)
           \/ ReserveID
           \/ UNCHANGED vars
    PROVE  TypeOK' /\ StoreInv'
<1>1. /\ UNCHANGED <<itemRefs, content, exhibitRefs, reports>>
      /\ \A i \in Item : itemState[i] = "stored" => itemState'[i] = "stored"
  BY DEF CreateItem, StartExperiment, GetCurrent, CreateExhibit, RemoveExhibit, ReserveID, TypeOK,
         itemVars, experimentVars, exhibitVars, reportVars, vars
<1>2. RefCountsExact'
  BY <1>1, RefCountsFrame DEF StoreInv
<1>3. EventsCounted'
  BY <1>1, EventsFrame DEF StoreInv
<1>4. ASSUME NEW i \in Item, CreateItem(i)
      PROVE  TypeOK' /\ StoreInv'
  <2>1. TypeOK'
    BY <1>4 DEF CreateItem, TypeOK, experimentVars, exhibitVars, reportVars
  <2>2. ExperimentsLoadable'
    BY <1>1, <1>4 DEF CreateItem, StoreInv, TypeOK, Content, ExperimentsLoadable, Stored, Exists,
                      experimentVars
  <2>3. QED
    BY <1>2, <1>3, <1>4, <2>1, <2>2
    DEF CreateItem, StoreInv, Exists, AtMostOneActive, ServedFaithfully, ReportsPrintable,
        experimentVars, exhibitVars, reportVars
<1>5. ASSUME NEW x \in Experiment, StartExperiment(x)
      PROVE  TypeOK' /\ StoreInv'
  <2>1. TypeOK'
    BY <1>5 DEF StartExperiment, TypeOK, itemVars, exhibitVars, reportVars
  <2>2. AtMostOneActive' /\ ServedFaithfully'
    BY <1>5 DEF StartExperiment, StoreInv, TypeOK, AtMostOneActive, ServedFaithfully
  <2>3. ExperimentsLoadable' /\ \A y \in Experiment : ~Exists(y)' => content'[y] = Empty
    BY <1>5 DEF StartExperiment, StoreInv, TypeOK, ExperimentsLoadable, Stored, Exists, itemVars
  <2>4. \A y \in Experiment : state[y] \in {"active", "finished"} => state'[y] = state[y]
    BY <1>5 DEF StartExperiment, TypeOK
  <2>5. ReportsPrintable'
    <3>1. \A r \in ReportID : reports[r] # NoReport => reports[r].experiment \in Experiment
      BY DEF TypeOK, Report
    <3>2. UNCHANGED <<content, exhibitState, reports>>
      BY <1>5 DEF StartExperiment, exhibitVars, reportVars
    <3>3. QED
      BY <2>4, <3>1, <3>2 DEF StoreInv, ReportsPrintable
  <2>6. QED
    BY <1>2, <1>3, <2>1, <2>2, <2>3, <2>5 DEF StoreInv
<1>6. ASSUME NEW x \in Experiment, GetCurrent(x)
      PROVE  TypeOK' /\ StoreInv'
  <2>1. TypeOK' /\ ServedFaithfully'
    BY <1>6 DEF GetCurrent, StoreInv, TypeOK, ServedFaithfully, itemVars, experimentVars,
                exhibitVars, reportVars
  <2>2. QED
    BY <1>2, <1>3, <1>6, <2>1
    DEF GetCurrent, StoreInv, Exists, Stored, ExperimentsLoadable, AtMostOneActive,
        ReportsPrintable, itemVars, experimentVars, exhibitVars, reportVars
<1>7. ASSUME NEW e \in Exhibit, CreateExhibit(e) \/ RemoveExhibit(e)
      PROVE  TypeOK' /\ StoreInv'
  <2>1. /\ UNCHANGED <<itemVars, experimentVars, exhibitRefs, reportVars, served>>
        /\ exhibitState' \in [Exhibit -> {"unused", "live", "removed", "purged"}]
        /\ \A f \in Exhibit : exhibitState[f] \in {"live", "removed"} =>
              exhibitState'[f] \in {"live", "removed"}
    BY <1>7 DEF CreateExhibit, RemoveExhibit, TypeOK
  <2>2. TypeOK'
    BY <2>1 DEF TypeOK, itemVars, experimentVars, reportVars
  <2>3. ReportsPrintable'
    BY <2>1 DEF StoreInv, TypeOK, Report, History, ReportsPrintable, experimentVars, reportVars
  <2>4. QED
    BY <1>2, <1>3, <2>1, <2>2, <2>3
    DEF StoreInv, Exists, Stored, ExperimentsLoadable, AtMostOneActive, ServedFaithfully,
        itemVars, experimentVars
<1>8. CASE ReserveID \/ UNCHANGED vars
  <2>1. /\ UNCHANGED <<itemVars, experimentVars, exhibitVars, reports, served>>
        /\ lastReportID' \in 0 .. MaxReports
    BY <1>8, StoreAssumption DEF ReserveID, TypeOK, vars, reportVars
  <2>2. TypeOK'
    BY <2>1 DEF TypeOK, itemVars, experimentVars, exhibitVars
  <2>3. QED
    BY <1>2, <1>3, <2>1, <2>2
    DEF StoreInv, Exists, Stored, ExperimentsLoadable, AtMostOneActive, ServedFaithfully,
        ReportsPrintable, itemVars, experimentVars, exhibitVars
<1>9. QED
  BY <1>4, <1>5, <1>6, <1>7, <1>8

-----------------------------------------------------------------------------
(* The theorems *)

\* Every step keeps types and invariant.
LEMMA StepKeepsInv ==
    ASSUME TypeOK, StoreInv, [Next]_vars
    PROVE  TypeOK' /\ StoreInv'
<1>1. ASSUME NEW i \in Item, RemoveItem(i)
      PROVE  TypeOK' /\ StoreInv'
  BY <1>1, RemoveItemKeepsInv
<1>2. ASSUME NEW x \in Experiment, NEW n \in Name, NEW c \in Content,
             Insert(x, n, c) \/ Update(x, n, c)
      PROVE  TypeOK' /\ StoreInv'
  BY <1>2, InsertExecKeepsInv, UpdateKeepsInv DEF Insert
<1>3. ASSUME NEW x \in Experiment, NEW y \in Experiment, NEW n \in Name, Clone(x, y, n)
      PROVE  TypeOK' /\ StoreInv'
  BY <1>3, InsertExecKeepsInv DEF Clone, TypeOK
<1>4. ASSUME NEW x \in Experiment, Remove(x)
      PROVE  TypeOK' /\ StoreInv'
  BY <1>4, RemoveKeepsInv
<1>5. CASE Finish
  BY <1>5, FinishKeepsInv
<1>6. ASSUME NEW r \in ReportID, NEW x \in Experiment, NEW c \in Content, NEW h \in History,
             Save(r, x, c, h)
      PROVE  TypeOK' /\ StoreInv'
  BY <1>6, SaveKeepsInv
<1>7. QED
  BY <1>1, <1>2, <1>3, <1>4, <1>5, <1>6, LightStepKeepsInv DEF Next

\* An empty database satisfies the invariant.
LEMMA InitInv == Init => TypeOK /\ StoreInv
<1> SUFFICES ASSUME Init PROVE TypeOK /\ StoreInv
  OBVIOUS
<1>1. Empty \in Content
  BY DEF Empty, Content
<1>2. (CHOOSE n \in Name : TRUE) \in Name
  BY StoreAssumption
<1>3. lastReportID \in 0 .. MaxReports
  BY StoreAssumption DEF Init
<1>4. TypeOK
  BY <1>1, <1>2, <1>3 DEF Init, TypeOK
<1>5. RefCountsExact
  <2>1. ASSUME NEW i \in Item PROVE UsedAt(i) = {}
    BY StoreAssumption DEF Init, UsedAt, Empty
  <2>2. QED
    BY <2>1, FS_EmptySet DEF Init, RefCountsExact
<1>6. EventsCounted
  <2>1. ASSUME NEW e \in Exhibit PROVE NamedAt(e) = {}
    BY DEF Init, NamedAt
  <2>2. ASSUME NEW e \in Exhibit PROVE exhibitRefs[e] = 0 /\ Cardinality(NamedAt(e)) = 0
    BY <2>1, FS_EmptySet DEF Init
  <2>3. QED
    BY <2>2 DEF EventsCounted
<1>7. ExperimentsLoadable /\ \A x \in Experiment : ~Exists(x) => content[x] = Empty
  BY DEF Init, ExperimentsLoadable, Exists
<1>8. AtMostOneActive /\ ServedFaithfully /\ ReportsPrintable
  BY DEF Init, AtMostOneActive, ServedFaithfully, ReportsPrintable
<1>9. QED
  BY <1>4, <1>5, <1>6, <1>7, <1>8 DEF StoreInv

\* Counts, states and rows always have their types; a count is never negative.
THEOREM StoreTyped == Spec => []TypeOK
<1>1. QED
  BY InitInv, StepKeepsInv, PTL DEF Spec

\* The invariant of the store holds throughout.
THEOREM StoreSound == Spec => []StoreInv
<1>1. QED
  BY InitInv, StepKeepsInv, PTL DEF Spec

\* The count of an item is exactly the number of positions that name it.
THEOREM CountsExact == Spec => []RefCountsExact
<1>1. StoreInv => RefCountsExact
  BY DEF StoreInv
<1>2. QED
  BY <1>1, StoreSound, PTL

\* Every stored report can be printed at any time.
THEOREM ReportsAlwaysPrintable == Spec => []ReportsPrintable
<1>1. StoreInv => ReportsPrintable
  BY DEF StoreInv
<1>2. QED
  BY <1>1, StoreSound, PTL

\* No sequence of starts and finishes makes two experiments active.
THEOREM OneActive == Spec => []AtMostOneActive
<1>1. StoreInv => AtMostOneActive
  BY DEF StoreInv
<1>2. QED
  BY <1>1, StoreSound, PTL

\* A name belongs to one experiment, however it was inserted, cloned, renamed
\* or removed: the check covers finished experiments too.
THEOREM NamesUnique == Spec => []UniqueNames
<1>1. Init => UniqueNames
  BY DEF Init, UniqueNames, Exists
<1>2. TypeOK /\ UniqueNames /\ [Next]_vars => UniqueNames'
  <2> SUFFICES ASSUME TypeOK, UniqueNames, [Next]_vars PROVE UniqueNames'
    OBVIOUS
  <2>1. ASSUME NEW x \in Experiment, NEW n \in Name, NEW c \in Content,
               NameFree(n), InsertExec(x, n, c)
        PROVE  UniqueNames'
    BY <2>1 DEF InsertExec, TypeOK, UniqueNames, NameFree, Exists
  <2>2. ASSUME NEW x \in Experiment, NEW n \in Name, NEW c \in Content, Update(x, n, c)
        PROVE  UniqueNames'
    BY <2>2 DEF Update, UpdateFrom, TypeOK, UniqueNames, NameFree, Exists
  <2>3. ASSUME UNCHANGED name, \A x \in Experiment : Exists(x)' => Exists(x)
        PROVE  UniqueNames'
    BY <2>3 DEF UniqueNames
  <2>4. ASSUME NEW x \in Experiment, StartExperiment(x) \/ Remove(x) \/ GetCurrent(x)
        PROVE  UniqueNames'
    BY <2>3, <2>4 DEF StartExperiment, Remove, RemoveFrom, GetCurrent, TypeOK, Exists, experimentVars
  <2>5. CASE Finish
    BY <2>3, <2>5 DEF Finish, FinishPurging, TypeOK, Exists
  <2>6. ASSUME UNCHANGED experimentVars
        PROVE  UniqueNames'
    BY <2>3, <2>6 DEF experimentVars, Exists
  <2>7. ASSUME NEW i \in Item, CreateItem(i) \/ RemoveItem(i)
        PROVE  UniqueNames'
    BY <2>6, <2>7 DEF CreateItem, RemoveItem
  <2>8. ASSUME NEW e \in Exhibit, CreateExhibit(e) \/ RemoveExhibit(e)
        PROVE  UniqueNames'
    BY <2>6, <2>8 DEF CreateExhibit, RemoveExhibit
  <2>9. ASSUME NEW r \in ReportID, NEW x \in Experiment, NEW c \in Content, NEW h \in History,
               Save(r, x, c, h)
        PROVE  UniqueNames'
    BY <2>6, <2>9 DEF Save, SaveCounting
  <2>10. CASE ReserveID \/ UNCHANGED vars
    BY <2>6, <2>10 DEF ReserveID, vars
  <2>11. ASSUME NEW x \in Experiment, NEW y \in Experiment, NEW n \in Name, Clone(x, y, n)
         PROVE  UniqueNames'
    BY <2>1, <2>11 DEF Clone, TypeOK
  <2>12. QED
    BY <2>1, <2>2, <2>4, <2>5, <2>7, <2>8, <2>9, <2>10, <2>11 DEF Next, Insert
<1>3. QED
  BY <1>1, <1>2, StoreTyped, PTL DEF Spec

\* A report is lost only with its experiment, and that only once finished.
THEOREM ReportsNeverLost == Spec => ReportsKept
<1>1. TypeOK /\ StoreInv /\ [Next]_vars =>
        [\A r \in ReportID :
            reports[r] # NoReport /\ reports'[r] # reports[r] =>
                /\ reports'[r] = NoReport
                /\ state[reports[r].experiment] = "finished"
                /\ state'[reports[r].experiment] = "removed"]_vars
  <2> SUFFICES ASSUME TypeOK, StoreInv, Next,
                      NEW r \in ReportID, reports[r] # NoReport, reports'[r] # reports[r]
               PROVE  /\ reports'[r] = NoReport
                      /\ state[reports[r].experiment] = "finished"
                      /\ state'[reports[r].experiment] = "removed"
    OBVIOUS
  <2>1. ASSUME NEW q \in ReportID, NEW x \in Experiment, NEW c \in Content, NEW h \in History,
               Save(q, x, c, h)
        PROVE  FALSE
    BY <2>1 DEF Save, SaveCounting, TypeOK
  <2>2. PICK x \in Experiment : Remove(x)
    BY <2>1 DEF Next, CreateItem, RemoveItem, Insert, Update, UpdateFrom, InsertExec, Clone,
                StartExperiment, GetCurrent, Finish, FinishPurging, CreateExhibit, RemoveExhibit, ReserveID,
                reportVars
  <2>3. reports'[r] = NoReport /\ reports[r].experiment = x
    BY <2>2 DEF Remove, RemoveFrom
  <2>4. state[x] \in {"active", "finished"} /\ state[x] \in {"ready", "finished"}
    BY <2>2, <2>3 DEF StoreInv, ReportsPrintable, Remove, RemoveFrom
  <2>5. QED
    BY <2>2, <2>3, <2>4 DEF Remove, RemoveFrom, TypeOK
<1>2. QED
  BY <1>1, StoreTyped, StoreSound, PTL DEF Spec, ReportsKept

-----------------------------------------------------------------------------
(* The promise without counts *)

\* The lists of an experiment name stored items exactly when what they name is
\* among the stored items.
LEMMA StoredIsNamed ==
    ASSUME NEW c \in Content
    PROVE  Stored(c) <=> Use!Named(c) \subseteq {i \in Item : itemState[i] = "stored"}
BY DEF Stored, Use!Named, Content

\* Every step of the counted store is a step of ItemUse, or none.
LEMMA StepRefines ==
    ASSUME TypeOK, StoreInv, [Next]_vars
    PROVE  [Use!Next]_<<{i \in Item : itemState[i] = "stored"}, content>>
<1> DEFINE items == {i \in Item : itemState[i] = "stored"}
<1>1. ASSUME NEW i \in Item, CreateItem(i)
      PROVE  Use!Create(i)
  BY <1>1 DEF CreateItem, TypeOK, experimentVars, Use!Create
<1>2. ASSUME NEW i \in Item, RemoveItem(i)
      PROVE  Use!Remove(i)
  <2>1. UsedAt(i) = {}
    BY <1>2, UsedAtFinite, FS_EmptySet DEF RemoveItem, StoreInv, RefCountsExact
  <2>2. ASSUME NEW x \in Experiment, i \in Use!Named(content[x])
        PROVE  FALSE
    <3>1. PICK s \in Slot : content[x][s] = i
      BY <2>2 DEF Use!Named
    <3>2. <<x, s>> \in UsedAt(i)
      BY <3>1 DEF UsedAt
    <3>3. QED
      BY <2>1, <3>2
  <2>3. i \in items /\ items' = items \ {i} /\ UNCHANGED content
    BY <1>2 DEF RemoveItem, TypeOK, experimentVars
  <2>4. QED
    BY <2>2, <2>3 DEF Use!Remove
<1>3. ASSUME NEW x \in Experiment, NEW n \in Name, NEW c \in Content,
             InsertExec(x, n, c) \/ Update(x, n, c)
      PROVE  Use!Use(x, c)
  <2>1. Stored(c) /\ UNCHANGED items /\ content' = [content EXCEPT ![x] = c]
    BY <1>3 DEF InsertExec, Update, UpdateFrom
  <2>2. QED
    BY <2>1, StoredIsNamed DEF Use!Use
<1>4. ASSUME NEW x \in Experiment, Remove(x)
      PROVE  Use!Use(x, Empty)
  <2>1. Use!Named(Empty) = {}
    BY DEF Use!Named, Empty
  <2>2. QED
    BY <1>4, <2>1 DEF Remove, RemoveFrom, Use!Use
<1>5. Empty \in Content /\ \A x \in Experiment : content[x] \in Content
  BY DEF TypeOK, Empty, Content
<1>6. ASSUME UNCHANGED <<itemState, content>>
      PROVE  UNCHANGED <<items, content>>
  BY <1>6
<1>7. ASSUME NEW x \in Experiment, StartExperiment(x) \/ GetCurrent(x)
      PROVE  UNCHANGED <<items, content>>
  BY <1>6, <1>7 DEF StartExperiment, GetCurrent, itemVars, experimentVars
<1>8. ASSUME NEW e \in Exhibit, CreateExhibit(e) \/ RemoveExhibit(e)
      PROVE  UNCHANGED <<items, content>>
  BY <1>6, <1>8 DEF CreateExhibit, RemoveExhibit, itemVars, experimentVars
<1>9. ASSUME NEW r \in ReportID, NEW x \in Experiment, NEW c \in Content, NEW h \in History,
             Save(r, x, c, h)
      PROVE  UNCHANGED <<items, content>>
  BY <1>6, <1>9 DEF Save, SaveCounting, itemVars, experimentVars
<1>10. CASE Finish \/ ReserveID \/ UNCHANGED vars
  BY <1>6, <1>10 DEF Finish, FinishPurging, ReserveID, vars, itemVars, experimentVars
<1>11. ASSUME NEW x \in Experiment, NEW c \in Content, Use!Use(x, c)
       PROVE  Use!Next
  BY <1>11 DEF Use!Next, Content
<1>12. QED
  BY <1>1, <1>2, <1>3, <1>4, <1>5, <1>7, <1>8, <1>9, <1>10, <1>11
  DEF Next, Insert, Clone, Use!Next

\* Reference counting implements its promise: an item some list names stays,
\* and lists name only items that are there.
THEOREM CountingKeepsItems == Spec => ItemsKeptWhileUsed
<1>1. Init => Use!Init
  BY DEF Init, Use!Init, Empty, Use!Empty
<1>2. QED
  BY <1>1, StepRefines, StoreTyped, StoreSound, PTL
  DEF Spec, ItemsKeptWhileUsed, Use!Spec

\* No sequence of saves and removals leaves an exhibit counted less often than
\* stored events name it, so that none of those loses its row.
THEOREM EventsAlwaysCounted == Spec => []EventsCounted
<1>1. StoreInv => EventsCounted
  BY DEF StoreInv
<1>2. QED
  BY <1>1, StoreSound, PTL

-----------------------------------------------------------------------------
(* Module WebProxy: the web site's communicator                            *)

Line == {"call", "transport", "protocol", "open", "client", "return", "send", "receive",
         "close", "ended"}

Sent == [call : Call, request : Command]
Replied == [call : Call, session : Session]

Field == Call \union {NoTransport}

ProxyTypeOK ==
    /\ db \in Db
    /\ asked \in [Call -> Command \union {NoCommand}]
    /\ told \in [Call -> Session \union {NoSession}]
    /\ transport \in Field /\ protocol \in Field /\ client \in Field
    /\ line \in [Call -> Line]
    /\ request \in [Call -> Command \union {NoCommand}]
    /\ mine \in [Call -> Field]
    /\ got \in [Call -> Replied \union {NoSession}]
    /\ opened \in [Call -> Field]
    /\ inbox \in [Call -> Seq(Sent)]
    /\ outbox \in [Call -> Seq(Replied)]
    /\ asking \in [Call -> Field]
    /\ done \in [Call -> Nat]
    /\ alone \subseteq Call

\* The lines of a call up to and including each.
UpToOpen == {"call", "transport", "protocol", "open"}
UpToSend == UpToOpen \union {"client", "return", "send"}

\* A call finds in the fields what some call has put there, never None.
FieldsSet ==
    \A c \in Call :
        /\ line[c] \notin {"call", "transport"} => transport \in Call
        /\ line[c] \notin {"call", "transport", "protocol"} => protocol \in Call
        /\ line[c] \in {"return", "send", "receive", "close"} => client \in Call
        /\ line[c] \in {"send", "receive", "close"} => mine[c] \in Call
        /\ line[c] \in UpToSend \ {"call"} => request[c] \in Command

\* A connection works on a request just while it knows whose it is.
WorkedOn ==
    \A k \in Call :
        /\ asked[k] = NoCommand <=> asking[k] = NoTransport
        /\ told[k] # NoSession => asking[k] # NoTransport

\* Nothing has come over connection k, nor is on its way.
Quiet(k) ==
    /\ inbox[k] = <<>> /\ outbox[k] = <<>>
    /\ asking[k] = NoTransport

\* A connection is silent before it is opened.
SilentUntilOpen ==
    \A k \in Call : line[k] \in UpToOpen =>
        /\ Quiet(k)
        /\ \A t \in Call : opened[t] # k

\* No request of call c is on its way to connection k, or worked on there.
NoneAt(c, k) ==
    /\ \A i \in DOMAIN inbox[k] : inbox[k][i].call # c
    /\ asking[k] # c

\* A call is performed only after it has sent.
NothingBeforeSend ==
    \A c \in Call : line[c] \in UpToSend => done[c] = 0 /\ \A k \in Call : NoneAt(c, k)

\* What call c is told is done was done once.
Honest(c, session) == Returned(session) => done[c] = 1

\* The one message of call c, alone on its connection, on its way out and back.
Requested(c) ==
    /\ \E r \in Command : inbox[c] = <<[call |-> c, request |-> r]>>
    /\ outbox[c] = <<>> /\ asking[c] = NoTransport /\ done[c] = 0

Serving(c) ==
    /\ inbox[c] = <<>> /\ outbox[c] = <<>> /\ asking[c] = c
    /\ IF told[c] = NoSession THEN done[c] = 0 ELSE Honest(c, told[c])

Replying(c) ==
    /\ inbox[c] = <<>> /\ asking[c] = NoTransport
    /\ \E s \in Session : outbox[c] = <<[call |-> c, session |-> s]>> /\ Honest(c, s)

\* A call alone on its way finds in the communicator what it has put there,
AloneFields(c) ==
    /\ \A x \in Call \ {c} : line[x] \in {"call", "ended"}
    /\ line[c] # "transport" => transport = c
    /\ line[c] \notin {"transport", "protocol"} => protocol = c
    /\ line[c] \notin UpToOpen => opened[c] = c
    /\ line[c] \notin UpToOpen \union {"client"} => client = c
    /\ line[c] \notin UpToOpen \union {"client", "return"} => mine[c] = c

\* and has a connection to itself, with one message from Send to Receive.
AloneMessage(c) ==
    /\ line[c] \in {"client", "return", "send"} => Quiet(c)
    /\ line[c] = "receive" =>
        /\ \A k \in Call \ {c} : NoneAt(c, k)
        /\ Requested(c) \/ Serving(c) \/ Replying(c)

AloneUnderWay ==
    \A c \in alone : line[c] \notin {"call", "ended"} => AloneFields(c) /\ AloneMessage(c)

\* One that has its answer has no other, and is not performed again.
AloneAnswered ==
    \A c \in alone : line[c] \in {"close", "ended"} =>
        /\ got[c] \in Replied /\ got[c].call = c /\ Honest(c, got[c].session)
        /\ \A k \in Call : NoneAt(c, k)

ProxyInv ==
    /\ ProxyTypeOK /\ FieldsSet /\ WorkedOn
    /\ SilentUntilOpen /\ NothingBeforeSend
    /\ AloneUnderWay /\ AloneAnswered

-----------------------------------------------------------------------------
(* Every step keeps its parts *)

\* A command that has been asked comes to an end the server can tell.
LEMMA ResultTyped ==
    ASSUME NEW d \in Db, NEW c \in Command
    PROVE  Result(d, Start(c)) \in [db : Db, session : Session]
  BY CommandAssumption

\* The connection a call sends over is one, or none.
LEMMA ConnectionTyped ==
    ASSUME ProxyTypeOK, FieldsSet, NEW c \in Call, line[c] \in {"send", "receive", "close"}
    PROVE  mine[c] \in Call /\ Connection(c) \in Field
  BY DEF ProxyTypeOK, FieldsSet, Connection

\* Opening and closing leave the types.
LEMMA ConnectTyped ==
    ASSUME ProxyTypeOK, NEW t \in Call, NEW k \in Field, Connect(t, k)
    PROVE  opened' \in [Call -> Field] /\ outbox' \in [Call -> Seq(Replied)]
  <1>1. opened' \in [Call -> Field]
    BY DEF Connect, ProxyTypeOK
  <1>2. \A x \in Call : [outbox EXCEPT ![x] = <<>>] \in [Call -> Seq(Replied)]
    BY DEF ProxyTypeOK
  <1>3. opened[t] # NoTransport => opened[t] \in Call
    BY DEF ProxyTypeOK, Field
  <1>. QED  BY <1>1, <1>2, <1>3 DEF Connect, ProxyTypeOK

LEMMA TypeOfCalls ==
    ASSUME ProxyTypeOK, FieldsSet, NEW c \in Call,
           (\E cmd \in Command : Begin(c, cmd)) \/ CallStep(c)
    PROVE  ProxyTypeOK'
  <1>. USE DEF Goto, End, serverVars, atomicVars, fields
  <1>1. ASSUME NEW cmd \in Command, Begin(c, cmd) PROVE ProxyTypeOK'
    <2>1. alone' \subseteq Call
      BY <1>1 DEF Begin, ProxyTypeOK
    <2>. QED  BY <1>1, <2>1 DEF Begin, ProxyTypeOK, Line
  <1>2. CASE MakeTransport(c)
    BY <1>2 DEF MakeTransport, ProxyTypeOK, Line, Field
  <1>3. CASE MakeProtocol(c)
    BY <1>3 DEF MakeProtocol, ProxyTypeOK, Line
  <1>4. CASE MakeClient(c)
    BY <1>4 DEF MakeClient, ProxyTypeOK, Line
  <1>5. CASE ReturnClient(c)
    BY <1>5 DEF ReturnClient, ProxyTypeOK, Line
  <1>6. CASE Open(c)
    <2>1. transport \in Call /\ c \in Field
      BY <1>6 DEF Open, FieldsSet, Field
    <2>2. opened' \in [Call -> Field] /\ outbox' \in [Call -> Seq(Replied)]
      BY <1>6, <2>1, ConnectTyped DEF Open
    <2>. QED  BY <1>6, <2>2 DEF Open, ProxyTypeOK, Line
  <1>7. CASE Send(c)
    <2>1. Connection(c) \in Call /\ request[c] \in Command
      BY <1>7, ConnectionTyped DEF Send, Field, FieldsSet, UpToSend, UpToOpen
    <2>2. Append(inbox[Connection(c)], [call |-> c, request |-> request[c]]) \in Seq(Sent)
      <3>1. inbox[Connection(c)] \in Seq(Sent)
        BY <2>1 DEF ProxyTypeOK
      <3>2. [call |-> c, request |-> request[c]] \in Sent
        BY <2>1 DEF Sent
      <3>. QED  BY <3>1, <3>2
    <2>3. inbox' \in [Call -> Seq(Sent)]
      BY <1>7, <2>1, <2>2 DEF Send, ProxyTypeOK
    <2>. QED  BY <1>7, <2>3 DEF Send, ProxyTypeOK, Line
  <1>8. CASE Receive(c)
    <2>1. Connection(c) \in Call
      BY <1>8, ConnectionTyped DEF Receive, Field
    <2>2. /\ Head(outbox[Connection(c)]) \in Replied
          /\ Tail(outbox[Connection(c)]) \in Seq(Replied)
      BY <1>8, <2>1 DEF Receive, ProxyTypeOK
    <2>3. got' \in [Call -> Replied \union {NoSession}]
      BY <1>8, <2>2 DEF Receive, ProxyTypeOK
    <2>4. outbox' \in [Call -> Seq(Replied)]
      BY <1>8, <2>1, <2>2 DEF Receive, ProxyTypeOK
    <2>5. line' \in [Call -> Line] /\ mine' \in [Call -> Field]
      BY <1>8 DEF Receive, ProxyTypeOK, Line, Field
    <2>6. request' \in [Call -> Command \union {NoCommand}]
      BY <1>8 DEF Receive, ProxyTypeOK
    <2>. QED  BY <1>8, <2>3, <2>4, <2>5, <2>6 DEF Receive, ProxyTypeOK
  <1>9. CASE Raise(c)
    BY <1>9 DEF Raise, ProxyTypeOK, Line, Field
  <1>10. CASE Close(c) \/ OpenFails(c)
    <2>1. transport \in Call /\ NoTransport \in Field
      BY <1>10 DEF Close, OpenFails, FieldsSet, Field
    <2>2. opened' \in [Call -> Field] /\ outbox' \in [Call -> Seq(Replied)]
      BY <1>10, <2>1, ConnectTyped DEF Close, OpenFails
    <2>3. alone' \subseteq Call
      BY <1>10 DEF Close, OpenFails, ProxyTypeOK
    <2>. QED  BY <1>10, <2>2, <2>3 DEF Close, OpenFails, ProxyTypeOK, Line, Field
  <1>. QED  BY <1>1, <1>2, <1>3, <1>4, <1>5, <1>6, <1>7, <1>8, <1>9, <1>10 DEF CallStep

LEMMA TypeOfServer ==
    ASSUME ProxyTypeOK, WorkedOn, NEW k \in Call, ServerStep(k)
    PROVE  ProxyTypeOK'
  <1>. USE DEF fields
  <1>1. CASE Take(k)
    <2>1. Head(inbox[k]) \in Sent /\ Tail(inbox[k]) \in Seq(Sent)
      BY <1>1 DEF Take, ProxyTypeOK
    <2>2. Head(inbox[k]).call \in Field /\ Head(inbox[k]).request \in Command
      BY <2>1 DEF Sent, Field
    <2>3. inbox' \in [Call -> Seq(Sent)]
      BY <1>1, <2>1 DEF Take, ProxyTypeOK
    <2>. QED  BY <1>1, <2>2, <2>3 DEF Take, Ask, ProxyTypeOK
  <1>2. CASE Serve(k)
    <2>1. asking[k] \in Call
      BY <1>2 DEF Serve, Perform, Fail, Waiting, WorkedOn, ProxyTypeOK, Field
    <2>2. done' \in [Call -> Nat]
      <3>1. [done EXCEPT ![asking[k]] = @ + 1] \in [Call -> Nat]
        BY <2>1 DEF ProxyTypeOK
      <3>. QED  BY <1>2, <3>1 DEF Serve, ProxyTypeOK
    <2>3. CASE Perform(k)
      <3>1. asked[k] \in Command
        BY <2>3 DEF Perform, Waiting, ProxyTypeOK
      <3>2. Result(db, Start(asked[k])) \in [db : Db, session : Session]
        BY <3>1, ResultTyped DEF ProxyTypeOK
      <3>3. db' \in Db /\ told' \in [Call -> Session \union {NoSession}]
        BY <2>3, <3>2 DEF Perform, ProxyTypeOK
      <3>. QED  BY <1>2, <2>2, <2>3, <3>3 DEF Serve, Perform, ProxyTypeOK
    <2>4. CASE Fail(k)
      <3>1. told' \in [Call -> Session \union {NoSession}]
        BY <2>4, CommandAssumption DEF Fail, ProxyTypeOK
      <3>. QED  BY <1>2, <2>2, <2>4, <3>1 DEF Serve, Fail, ProxyTypeOK
    <2>. QED  BY <1>2, <2>3, <2>4 DEF Serve
  <1>3. CASE Reply(k)
    <2>1. asking[k] \in Call /\ told[k] \in Session
      BY <1>3 DEF Reply, Answer, WorkedOn, ProxyTypeOK, Field
    <2>2. Append(outbox[k], [call |-> asking[k], session |-> told[k]]) \in Seq(Replied)
      <3>1. [call |-> asking[k], session |-> told[k]] \in Replied
        BY <2>1 DEF Replied
      <3>. QED  BY <3>1 DEF ProxyTypeOK
    <2>3. outbox' \in [Call -> Seq(Replied)]
      BY <1>3, <2>2 DEF Reply, ProxyTypeOK
    <2>. QED  BY <1>3, <2>3 DEF Reply, Answer, ProxyTypeOK, Field
  <1>. QED  BY <1>1, <1>2, <1>3 DEF ServerStep

LEMMA TypeOfEnd == ASSUME ProxyTypeOK, ServerEnds PROVE ProxyTypeOK'
  <1>1. inbox' \in [Call -> Seq(Sent)] /\ outbox' \in [Call -> Seq(Replied)]
    BY DEF ServerEnds
  <1>2. asked' \in [Call -> Command \union {NoCommand}] /\ told' \in [Call -> Session \union {NoSession}]
    BY DEF ServerEnds, Restart, Call
  <1>3. opened' \in [Call -> Field] /\ asking' \in [Call -> Field]
    BY DEF ServerEnds, Field
  <1>. QED  BY <1>1, <1>2, <1>3 DEF ProxyTypeOK, ServerEnds, Restart, fields

\* A step of a call moves it on, and nobody else.
LEMMA LineOfCall ==
    ASSUME ProxyTypeOK, NEW c \in Call, CallStep(c)
    PROVE  /\ \A x \in Call \ {c} : line'[x] = line[x]
           /\ line[c] \notin {"call", "ended"}
           /\ line'[c] \in UpToOpen => line[c] \in UpToOpen
           /\ line'[c] \in UpToSend => line[c] \in UpToSend
  <1>. USE DEF Goto, End, ProxyTypeOK, UpToOpen, UpToSend
  <1>1. CASE MakeTransport(c) \/ MakeProtocol(c) \/ MakeClient(c) \/ ReturnClient(c)
    BY <1>1 DEF MakeTransport, MakeProtocol, MakeClient, ReturnClient
  <1>2. CASE Open(c) \/ OpenFails(c) \/ Close(c) \/ Send(c) \/ Raise(c)
    BY <1>2 DEF Open, OpenFails, Close, Send, Raise
  <1>3. CASE Receive(c)
    <2>1. line' = [line EXCEPT ![c] = "ended"] \/ line' = [line EXCEPT ![c] = "close"]
      BY <1>3 DEF Receive
    <2>. QED  BY <1>3, <2>1 DEF Receive
  <1>. QED  BY <1>1, <1>2, <1>3 DEF CallStep

LEMMA LineOfBegin ==
    ASSUME ProxyTypeOK, NEW c \in Call, NEW cmd \in Command, Begin(c, cmd)
    PROVE  /\ \A x \in Call \ {c} : line'[x] = line[x]
           /\ line[c] = "call" /\ line'[c] = "transport"
  BY DEF Begin, Goto, ProxyTypeOK

\* Server and network are not the calls' doing.
LEMMA ServerLeaves ==
    ASSUME NEW k \in Call, ServerStep(k) \/ ServerEnds
    PROVE  UNCHANGED <<fields, line, request, mine, got>>
  BY DEF ServerStep, Take, Serve, Reply, ServerEnds, fields

\* A call that ends takes its own locals with it.
LEMMA LocalsAtEnd ==
    ASSUME ProxyTypeOK, NEW c \in Call, Receive(c) \/ Raise(c) \/ Close(c)
    PROVE  /\ \A x \in Call \ {c} : /\ line'[x] = line[x] /\ mine'[x] = mine[x]
                                   /\ request'[x] = request[x]
           /\ line'[c] = "ended" \/ (line'[c] = "close" /\ mine'[c] = mine[c])
  <1>1. End(c) \/ (Goto(c, "close") /\ UNCHANGED <<mine, request>>)
    BY DEF Receive, Raise, Close
  <1>. QED  BY <1>1 DEF ProxyTypeOK, End, Goto

LEMMA FieldsPreserved ==
    ASSUME ProxyTypeOK, FieldsSet, NEW c \in Call,
           (\E cmd \in Command : Begin(c, cmd)) \/ CallStep(c)
    PROVE  FieldsSet'
  <1>. USE DEF Goto, End, fields, UpToOpen, UpToSend, FieldsSet
  <1>1. ASSUME NEW cmd \in Command, Begin(c, cmd) PROVE FieldsSet'
    BY <1>1 DEF Begin, ProxyTypeOK
  <1>2. CASE MakeTransport(c)
    BY <1>2 DEF MakeTransport, ProxyTypeOK
  <1>3. CASE MakeProtocol(c)
    BY <1>3 DEF MakeProtocol, ProxyTypeOK
  <1>4. CASE MakeClient(c)
    BY <1>4 DEF MakeClient, ProxyTypeOK
  <1>5. CASE ReturnClient(c)
    BY <1>5 DEF ReturnClient, ProxyTypeOK
  <1>6. CASE Open(c)
    BY <1>6 DEF Open, ProxyTypeOK
  <1>7. CASE Send(c)
    BY <1>7 DEF Send, ProxyTypeOK
  <1>8. CASE Receive(c) \/ Raise(c) \/ Close(c)
    <2>1. /\ \A x \in Call \ {c} : /\ line'[x] = line[x] /\ mine'[x] = mine[x]
                                   /\ request'[x] = request[x]
          /\ line'[c] = "ended" \/ (line'[c] = "close" /\ mine'[c] = mine[c])
      BY <1>8, LocalsAtEnd
    <2>2. line[c] \notin UpToOpen \union {"client"}
      BY <1>8 DEF Receive, Raise, Close
    <2>3. UNCHANGED fields
      BY <1>8 DEF Receive, Raise, Close
    <2>4. line[c] \in {"send", "receive", "close"} 
      BY <1>8 DEF Receive, Raise, Close
    <2>. QED  BY <2>1, <2>2, <2>3, <2>4
  <1>9. CASE OpenFails(c)
    <2>1. /\ \A x \in Call \ {c} : /\ line'[x] = line[x] /\ mine'[x] = mine[x]
                                   /\ request'[x] = request[x]
          /\ line[c] = "open" /\ line'[c] = "ended"
      BY <1>9 DEF OpenFails, ProxyTypeOK
    <2>2. UNCHANGED <<transport, protocol, client>>
      BY <1>9 DEF OpenFails
    <2>. QED  BY <2>1, <2>2
  <1>. QED  BY <1>1, <1>2, <1>3, <1>4, <1>5, <1>6, <1>7, <1>8, <1>9 DEF CallStep

LEMMA WorkedOnPreserved ==
    ASSUME ProxyTypeOK, WorkedOn, NEW k \in Call, ServerStep(k) \/ ServerEnds
    PROVE  WorkedOn'
  <1>1. CASE Take(k)
    <2>1. Head(inbox[k]) \in Sent
      BY <1>1 DEF Take, ProxyTypeOK
    <2>2. Head(inbox[k]).call # NoTransport /\ Head(inbox[k]).request # NoCommand
      BY <2>1, ProxyAssumption, CommandAssumption DEF Sent, Call
    <2>. QED  BY <1>1, <2>2 DEF Take, Ask, WorkedOn, ProxyTypeOK
  <1>2. CASE Serve(k)
    BY <1>2 DEF Serve, Perform, Fail, Waiting, WorkedOn, ProxyTypeOK
  <1>3. CASE Reply(k)
    BY <1>3 DEF Reply, Answer, WorkedOn, ProxyTypeOK
  <1>4. CASE ServerEnds
    BY <1>4 DEF ServerEnds, Restart, WorkedOn, Call
  <1>. QED  BY <1>1, <1>2, <1>3, <1>4 DEF ServerStep

-----------------------------------------------------------------------------
(* Connections *)

\* A call that has not opened its connection is not sent over, by anybody.
LEMMA SilentPreservedByCalls ==
    ASSUME ProxyTypeOK, FieldsSet, SilentUntilOpen, NEW c \in Call,
           (\E cmd \in Command : Begin(c, cmd)) \/ CallStep(c)
    PROVE  SilentUntilOpen'
  <1>. SUFFICES ASSUME NEW k \in Call, line'[k] \in UpToOpen
                PROVE  Quiet(k)' /\ \A t \in Call : opened'[t] # k
    BY DEF SilentUntilOpen
  <1>1. line[k] \in UpToOpen
    BY LineOfCall, LineOfBegin DEF UpToOpen
  <1>2. Quiet(k) /\ \A t \in Call : opened[t] # k
    BY <1>1 DEF SilentUntilOpen
  <1>. USE DEF Quiet, serverVars, atomicVars, Goto
  <1>3. ASSUME NEW cmd \in Command, Begin(c, cmd)
        PROVE  Quiet(k)' /\ \A t \in Call : opened'[t] # k
    BY <1>2, <1>3 DEF Begin
  <1>4. CASE MakeTransport(c) \/ MakeProtocol(c) \/ MakeClient(c) \/ ReturnClient(c) \/ Raise(c)
    BY <1>2, <1>4 DEF MakeTransport, MakeProtocol, MakeClient, ReturnClient, Raise
  <1>5. CASE Open(c)
    <2>1. k # c
      BY <1>5 DEF Open, ProxyTypeOK, UpToOpen
    <2>. QED  BY <1>2, <1>5, <2>1 DEF Open, Connect, ProxyTypeOK
  <1>6. CASE Close(c) \/ OpenFails(c)
    BY <1>2, <1>6, ProxyAssumption DEF Close, OpenFails, Connect, ProxyTypeOK, Call
  <1>7. CASE Send(c)
    <2>1. Connection(c) # k
      BY <1>2, <1>7, ConnectionTyped DEF Send, Connection
    <2>. QED  BY <1>2, <1>7, <2>1 DEF Send, ProxyTypeOK
  <1>8. CASE Receive(c)
    <2>1. Connection(c) # k
      BY <1>2, <1>8, ConnectionTyped DEF Receive, Connection
    <2>. QED  BY <1>2, <1>8, <2>1 DEF Receive, ProxyTypeOK
  <1>. QED  BY <1>3, <1>4, <1>5, <1>6, <1>7, <1>8 DEF CallStep

LEMMA SilentPreservedByServer ==
    ASSUME ProxyTypeOK, WorkedOn, SilentUntilOpen, NEW j \in Call, ServerStep(j) \/ ServerEnds
    PROVE  SilentUntilOpen'
  <1>. SUFFICES ASSUME NEW k \in Call, line'[k] \in UpToOpen
                PROVE  Quiet(k)' /\ \A t \in Call : opened'[t] # k
    BY DEF SilentUntilOpen
  <1>1. Quiet(k) /\ \A t \in Call : opened[t] # k
    BY ServerLeaves DEF SilentUntilOpen
  <1>2. CASE Take(j)
    BY <1>1, <1>2 DEF Take, Quiet, ProxyTypeOK
  <1>3. CASE Serve(j)
    BY <1>1, <1>3 DEF Serve, Quiet
  <1>4. CASE Reply(j)
    <2>1. j # k
      BY <1>1, <1>4 DEF Reply, Answer, WorkedOn, Quiet
    <2>. QED  BY <1>1, <1>4, <2>1 DEF Reply, Quiet, ProxyTypeOK
  <1>5. CASE ServerEnds
    BY <1>5, ProxyAssumption DEF ServerEnds, Quiet, Call
  <1>. QED  BY <1>2, <1>3, <1>4, <1>5 DEF ServerStep

-----------------------------------------------------------------------------
(* Requests *)

\* What is on its way to connection k after a step is what was, but for a
\* request that is sent.
LEMMA NoneAtPreservedByCalls ==
    ASSUME ProxyTypeOK, FieldsSet, NEW c \in Call, NEW k \in Call,
           NEW d \in Call, CallStep(d), NoneAt(c, k), line[d] = "send" => d # c
    PROVE  NoneAt(c, k)'
  <1>1. CASE Send(d)
    <2>1. asking' = asking
      BY <1>1 DEF Send
    <2>2. CASE Connection(d) = k
      <3>1. inbox'[k] = Append(inbox[k], [call |-> d, request |-> request[d]])
        BY <1>1, <2>2 DEF Send, ProxyTypeOK
      <3>2. inbox[k] \in Seq(Sent) /\ request[d] \in Command
        BY <1>1 DEF Send, ProxyTypeOK, FieldsSet, UpToSend, UpToOpen
      <3>3. \A i \in DOMAIN inbox'[k] :
              inbox'[k][i] = IF i \in DOMAIN inbox[k] THEN inbox[k][i]
                             ELSE [call |-> d, request |-> request[d]]
        BY <3>1, <3>2
      <3>4. d # c
        BY <1>1 DEF Send
      <3>. QED  BY <2>1, <3>3, <3>4 DEF NoneAt
    <2>3. CASE Connection(d) # k
      BY <1>1, <2>1, <2>3 DEF Send, ProxyTypeOK, NoneAt
    <2>. QED  BY <2>2, <2>3
  <1>2. CASE ~Send(d)
    <2>1. inbox' = inbox /\ asking' = asking
      BY <1>2 DEF CallStep, MakeTransport, MakeProtocol, Open, OpenFails, MakeClient, ReturnClient, Receive,
                  Raise, Close, serverVars
    <2>. QED  BY <2>1 DEF NoneAt
  <1>. QED  BY <1>1, <1>2

LEMMA NoneAtPreservedByServer ==
    ASSUME ProxyTypeOK, NEW c \in Call, NEW k \in Call, NoneAt(c, k),
           NEW j \in Call, ServerStep(j) \/ ServerEnds
    PROVE  NoneAt(c, k)'
  <1>1. CASE Take(j)
    <2>1. CASE j = k
      <3>1. inbox[k] \in Seq(Sent) /\ inbox[k] # <<>>
        BY <1>1, <2>1 DEF Take, ProxyTypeOK
      <3>2. /\ inbox'[k] = Tail(inbox[k])
            /\ asking'[k] = inbox[k][1].call
        BY <1>1, <2>1, <3>1 DEF Take, ProxyTypeOK
      <3>3. \A i \in DOMAIN inbox'[k] :
              inbox'[k][i] = inbox[k][i + 1] /\ i + 1 \in DOMAIN inbox[k]
        BY <3>1, <3>2
      <3>4. 1 \in DOMAIN inbox[k]
        BY <3>1
      <3>. QED  BY <3>2, <3>3, <3>4 DEF NoneAt
    <2>. QED  BY <1>1, <2>1 DEF Take, NoneAt, ProxyTypeOK
  <1>2. CASE Serve(j)
    BY <1>2 DEF Serve, NoneAt
  <1>3. CASE Reply(j)
    BY <1>3, ProxyAssumption DEF Reply, NoneAt, ProxyTypeOK, Call
  <1>4. CASE ServerEnds
    BY <1>4, ProxyAssumption DEF ServerEnds, NoneAt, Call
  <1>. QED  BY <1>1, <1>2, <1>3, <1>4 DEF ServerStep

\* A call that is worked on nowhere is not performed.
LEMMA DoneStays ==
    ASSUME ProxyTypeOK, WorkedOn, NEW c \in Call, NEW j \in Call,
           ServerStep(j) \/ ServerEnds, asking[j] # c
    PROVE  done'[c] = done[c]
  <1>1. CASE Serve(j)
    BY <1>1 DEF Serve, ProxyTypeOK
  <1>2. CASE Take(j) \/ Reply(j) \/ ServerEnds
    BY <1>2 DEF Take, Reply, ServerEnds
  <1>. QED  BY <1>1, <1>2 DEF ServerStep

\* Calls themselves perform nothing.
LEMMA CallsLeave ==
    ASSUME NEW c \in Call, (\E cmd \in Command : Begin(c, cmd)) \/ CallStep(c)
    PROVE  UNCHANGED <<done, asking, asked, told, db>>
  BY DEF Begin, CallStep, MakeTransport, MakeProtocol, Open, OpenFails, MakeClient, ReturnClient, Send,
         Receive, Raise, Close, serverVars, atomicVars

LEMMA BeginLeaves ==
    ASSUME NEW c \in Call, NEW cmd \in Command, Begin(c, cmd)
    PROVE  /\ UNCHANGED <<done, asking, asked, told, inbox, outbox>>
           /\ UNCHANGED <<got, mine, opened, transport, protocol, client>>
           /\ alone' \subseteq alone
  BY DEF Begin, serverVars, atomicVars, fields

LEMMA NothingPreserved ==
    ASSUME ProxyTypeOK, FieldsSet, WorkedOn, NothingBeforeSend, NEW j \in Call,
           \/ (\E cmd \in Command : Begin(j, cmd)) \/ CallStep(j)
           \/ ServerStep(j) \/ ServerEnds
    PROVE  NothingBeforeSend'
  <1>. SUFFICES ASSUME NEW c \in Call, line'[c] \in UpToSend
                PROVE  done'[c] = 0 /\ \A k \in Call : NoneAt(c, k)'
    BY DEF NothingBeforeSend
  <1>1. line[c] \in UpToSend
    BY LineOfCall, LineOfBegin, ServerLeaves DEF UpToSend, UpToOpen
  <1>2. done[c] = 0 /\ \A k \in Call : NoneAt(c, k)
    BY <1>1 DEF NothingBeforeSend
  <1>3. ASSUME NEW cmd \in Command, Begin(j, cmd)
        PROVE  done'[c] = 0 /\ \A k \in Call : NoneAt(c, k)'
    BY <1>2, <1>3, BeginLeaves DEF NoneAt
  <1>4. CASE CallStep(j)
    <2>1. line[j] = "send" => j # c
      <3>. SUFFICES ASSUME line[j] = "send" PROVE line'[j] \notin UpToSend
        OBVIOUS
      <3>1. Send(j) \/ Raise(j)
        BY <1>4 DEF CallStep, MakeTransport, MakeProtocol, Open, OpenFails, MakeClient, ReturnClient, Receive,
                    Close
      <3>. QED  BY <3>1 DEF Send, Raise, End, Goto, ProxyTypeOK, UpToSend, UpToOpen
    <2>. QED  BY <1>2, <1>4, <2>1, CallsLeave, NoneAtPreservedByCalls
  <1>5. CASE ServerStep(j) \/ ServerEnds
    <2>1. asking[j] # c
      BY <1>2 DEF NoneAt
    <2>. QED  BY <1>2, <1>5, <2>1, DoneStays, NoneAtPreservedByServer
  <1>. QED  BY <1>3, <1>4, <1>5

-----------------------------------------------------------------------------
(* Calls alone on their way *)

LEMMA AloneAtBegin ==
    ASSUME ProxyTypeOK, AloneUnderWay, NEW d \in Call, NEW cmd \in Command, Begin(d, cmd)
    PROVE  AloneUnderWay'
  <1>. SUFFICES ASSUME NEW c \in alone', line'[c] \notin {"call", "ended"}
                PROVE  AloneFields(c)' /\ AloneMessage(c)'
    BY DEF AloneUnderWay
  <1>1. c \in Call
    BY BeginLeaves DEF ProxyTypeOK
  <1>2. UnderWay = {}
    <2>. SUFFICES ASSUME UnderWay # {} PROVE FALSE
      OBVIOUS
    <2>1. c \notin UnderWay /\ c # d
      BY DEF Begin
    <2>. QED  BY <1>1, <2>1, LineOfBegin DEF UnderWay
  <1>3. \A x \in Call : line[x] \in {"call", "ended"}
    BY <1>2 DEF UnderWay
  <1>4. c = d /\ line'[c] = "transport"
    BY <1>1, <1>3, LineOfBegin
  <1>5. \A x \in Call \ {c} : line'[x] \in {"call", "ended"}
    BY <1>3, <1>4, LineOfBegin
  <1>. QED  BY <1>4, <1>5 DEF AloneFields, AloneMessage, UpToOpen

LEMMA AloneFieldsKept ==
    ASSUME ProxyTypeOK, NEW c \in Call, AloneFields(c), CallStep(c),
           line'[c] \notin {"call", "ended"}
    PROVE  AloneFields(c)'
  <1>. USE DEF AloneFields, UpToOpen, Goto, fields, ProxyTypeOK
  <1>1. CASE MakeTransport(c) \/ MakeProtocol(c)
    BY <1>1 DEF MakeTransport, MakeProtocol
  <1>2. CASE MakeClient(c) \/ ReturnClient(c)
    BY <1>2 DEF MakeClient, ReturnClient
  <1>3. CASE Open(c)
    BY <1>3 DEF Open, Connect
  <1>4. CASE Send(c)
    BY <1>4 DEF Send
  <1>5. CASE Receive(c)
    <2>1. Goto(c, "close") /\ UNCHANGED <<mine, request>>
      BY <1>5 DEF Receive, End
    <2>. QED  BY <1>5, <2>1 DEF Receive
  <1>6. CASE Raise(c) \/ Close(c) \/ OpenFails(c)
    BY <1>6 DEF Raise, Close, OpenFails, End
  <1>. QED  BY <1>1, <1>2, <1>3, <1>4, <1>5, <1>6 DEF CallStep

LEMMA AloneMessageKept ==
    ASSUME ProxyTypeOK, FieldsSet, SilentUntilOpen, NothingBeforeSend,
           NEW c \in Call, AloneFields(c), AloneMessage(c), CallStep(c)
    PROVE  AloneMessage(c)'
  <1>1. CASE MakeTransport(c) \/ MakeProtocol(c)
    BY <1>1 DEF MakeTransport, MakeProtocol, Goto, ProxyTypeOK, AloneMessage
  <1>2. CASE MakeClient(c) \/ ReturnClient(c)
    <2>1. line[c] \in {"client", "return"} /\ line'[c] \in {"return", "send"}
      BY <1>2 DEF MakeClient, ReturnClient, Goto, ProxyTypeOK
    <2>2. Quiet(c) /\ UNCHANGED <<inbox, outbox, asking>>
      BY <1>2, <2>1 DEF MakeClient, ReturnClient, AloneMessage, serverVars
    <2>. QED  BY <2>1, <2>2 DEF AloneMessage, Quiet
  <1>3. CASE Open(c)
    <2>1. line[c] = "open" /\ line'[c] = "client"
      BY <1>3 DEF Open, Goto, ProxyTypeOK
    <2>2. Quiet(c)
      BY <2>1 DEF SilentUntilOpen, UpToOpen
    <2>3. Quiet(c)'
      BY <1>3, <2>2 DEF Open, Connect, Quiet, ProxyTypeOK
    <2>. QED  BY <2>1, <2>3 DEF AloneMessage
  <1>4. CASE Send(c)
    <2>1. /\ line[c] = "send" /\ line'[c] = "receive" /\ Connection(c) = c
          /\ request[c] \in Command
      BY <1>4 DEF Send, Goto, ProxyTypeOK, AloneFields, Connection, UpToOpen, FieldsSet, UpToSend
    <2>2. /\ inbox[c] = <<>> /\ outbox[c] = <<>> /\ asking[c] = NoTransport
          /\ done[c] = 0 /\ \A k \in Call : NoneAt(c, k)
      BY <2>1 DEF AloneMessage, Quiet, NothingBeforeSend, UpToSend
    <2>3. inbox'[c] = <<[call |-> c, request |-> request[c]]>>
      BY <1>4, <2>1, <2>2 DEF Send, ProxyTypeOK
    <2>4. Requested(c)'
      BY <1>4, <2>1, <2>2, <2>3 DEF Send, Requested
    <2>5. \A k \in Call \ {c} : NoneAt(c, k)'
      BY <1>4, <2>1, <2>2 DEF Send, NoneAt, ProxyTypeOK
    <2>. QED  BY <2>1, <2>4, <2>5 DEF AloneMessage
  <1>5. CASE Receive(c) \/ Raise(c) \/ Close(c)
    <2>1. line'[c] \in {"close", "ended"}
      BY <1>5, LocalsAtEnd
    <2>. QED  BY <2>1 DEF AloneMessage
  <1>6. CASE OpenFails(c)
    BY <1>6 DEF OpenFails, End, Goto, ProxyTypeOK, AloneMessage
  <1>. QED  BY <1>1, <1>2, <1>3, <1>4, <1>5, <1>6 DEF CallStep

\* The server takes the message of a call that is alone from one stage to the
\* next; another connection's do not touch it.
LEMMA AloneMessageServed ==
    ASSUME ProxyTypeOK, WorkedOn, NEW c \in Call, AloneFields(c), AloneMessage(c),
           line[c] = "receive", NEW j \in Call, ServerStep(j)
    PROVE  (Requested(c) \/ Serving(c) \/ Replying(c))'
  <1>1. CASE j # c
    <2>1. asking[j] # c
      BY <1>1 DEF AloneMessage, NoneAt
    <2>2. done'[c] = done[c]
      BY <2>1, DoneStays
    <2>3. inbox'[c] = inbox[c] /\ outbox'[c] = outbox[c] /\ asking'[c] = asking[c]
      BY <1>1 DEF ServerStep, Take, Serve, Reply, ProxyTypeOK
    <2>4. told'[c] = told[c]
      BY <1>1 DEF ServerStep, Take, Ask, Serve, Perform, Fail, Reply, Answer, ProxyTypeOK
    <2>5. CASE Requested(c)
      BY <2>2, <2>3, <2>5 DEF Requested
    <2>6. CASE Serving(c)
      BY <2>2, <2>3, <2>4, <2>6 DEF Serving, Honest
    <2>7. CASE Replying(c)
      BY <2>2, <2>3, <2>7 DEF Replying, Honest
    <2>. QED  BY <2>5, <2>6, <2>7 DEF AloneMessage
  <1>2. CASE j = c /\ Take(c)
    <2>1. Requested(c)
      BY <1>2 DEF Take, AloneMessage, Serving, Replying
    <2>2. PICK r \in Command : inbox[c] = <<[call |-> c, request |-> r]>>
      BY <2>1 DEF Requested
    <2>3. inbox'[c] = <<>> /\ asking'[c] = c
      BY <1>2, <2>2 DEF Take, ProxyTypeOK
    <2>4. told'[c] = NoSession
      BY <1>2, <2>1 DEF Take, Ask, WorkedOn, Requested
    <2>5. outbox'[c] = <<>> /\ done'[c] = 0
      BY <1>2, <2>1 DEF Take, Requested
    <2>. QED  BY <2>3, <2>4, <2>5 DEF Serving
  <1>3. CASE j = c /\ Serve(c)
    <2>1. Waiting(c)
      BY <1>3 DEF Serve, Perform, Fail
    <2>2. asking[c] # NoTransport /\ told[c] = NoSession
      BY <2>1 DEF Waiting, WorkedOn
    <2>3. Serving(c) /\ done[c] = 0
      BY <2>2 DEF AloneMessage, Requested, Serving, Replying
    <2>4. told'[c] # NoSession /\ Honest(c, told[c])'
      <3>1. CASE Perform(c) /\ done' = [done EXCEPT ![asking[c]] = @ + 1]
        <4>1. done'[c] = 1
          BY <2>3, <3>1 DEF Serving, ProxyTypeOK
        <4>2. Result(db, Start(asked[c])) \in [db : Db, session : Session]
          BY <2>1, ResultTyped DEF Waiting, ProxyTypeOK
        <4>3. told'[c] \in Session
          BY <3>1, <4>2 DEF Perform, ProxyTypeOK
        <4>. QED  BY <4>1, <4>3, CommandAssumption DEF Honest
      <3>2. CASE Fail(c)
        BY <3>2, CommandAssumption DEF Fail, Honest, ProxyTypeOK
      <3>. QED  BY <1>3, <3>1, <3>2 DEF Serve
    <2>5. Serving(c)'
      BY <1>3, <2>3, <2>4 DEF Serve, Serving
    <2>. QED  BY <2>5
  <1>4. CASE j = c /\ Reply(c)
    <2>1. told[c] \in Session /\ asking[c] # NoTransport
      BY <1>4 DEF Reply, Answer, WorkedOn, ProxyTypeOK
    <2>2. Serving(c) /\ Honest(c, told[c])
      BY <2>1, CommandAssumption DEF AloneMessage, Requested, Serving, Replying
    <2>3. opened[c] = c
      BY DEF AloneFields, UpToOpen
    <2>4. outbox'[c] = <<[call |-> c, session |-> told[c]]>>
      BY <1>4, <2>2, <2>3 DEF Reply, Serving, ProxyTypeOK
    <2>5. inbox'[c] = <<>> /\ asking'[c] = NoTransport /\ done' = done
      BY <1>4, <2>2 DEF Reply, Serving, ProxyTypeOK
    <2>6. Replying(c)'
      BY <2>1, <2>2, <2>4, <2>5 DEF Replying, Honest
    <2>. QED  BY <2>6
  <1>. QED  BY <1>1, <1>2, <1>3, <1>4 DEF ServerStep

\* While a call is alone on its way no other moves.
LEMMA AloneMoves ==
    ASSUME ProxyTypeOK, AloneUnderWay, NEW d \in Call, CallStep(d),
           NEW c \in alone, line'[c] \notin {"call", "ended"}
    PROVE  d = c
  <1>. SUFFICES ASSUME d # c PROVE FALSE
    OBVIOUS
  <1>1. c \in Call
    BY DEF ProxyTypeOK
  <1>2. line[c] \notin {"call", "ended"} /\ line[d] \notin {"call", "ended"}
    BY <1>1, LineOfCall
  <1>. QED  BY <1>2 DEF AloneUnderWay, AloneFields

LEMMA AloneAfterCall ==
    ASSUME ProxyTypeOK, FieldsSet, SilentUntilOpen, NothingBeforeSend, AloneUnderWay,
           NEW d \in Call, CallStep(d)
    PROVE  AloneUnderWay'
  <1>1. alone' \subseteq alone
    BY DEF CallStep, MakeTransport, MakeProtocol, Open, OpenFails, MakeClient, ReturnClient, Send, Receive,
           Raise, Close
  <1>. SUFFICES ASSUME NEW c \in alone, line'[c] \notin {"call", "ended"}
                PROVE  AloneFields(c)' /\ AloneMessage(c)'
    BY <1>1 DEF AloneUnderWay
  <1>2. d = c /\ c \in Call
    BY AloneMoves DEF ProxyTypeOK
  <1>3. AloneFields(c) /\ AloneMessage(c)
    BY <1>2, LineOfCall DEF AloneUnderWay
  <1>. QED  BY <1>2, <1>3, AloneFieldsKept, AloneMessageKept

LEMMA AloneAfterServer ==
    ASSUME ProxyTypeOK, WorkedOn, AloneUnderWay, NEW j \in Call, ServerStep(j) \/ ServerEnds
    PROVE  AloneUnderWay'
  <1>. SUFFICES ASSUME NEW c \in alone', line'[c] \notin {"call", "ended"}
                PROVE  AloneFields(c)' /\ AloneMessage(c)'
    BY DEF AloneUnderWay
  <1>1. ~ServerEnds
    BY DEF ServerEnds, UnderWay, ProxyTypeOK
  <1>2. alone' = alone /\ opened' = opened /\ c \in Call
    BY <1>1 DEF ServerStep, Take, Serve, Reply, ProxyTypeOK
  <1>3. AloneFields(c) /\ AloneMessage(c)
    BY <1>2, ServerLeaves DEF AloneUnderWay
  <1>4. AloneFields(c)'
    BY <1>2, <1>3, ServerLeaves DEF AloneFields, fields
  <1>5. line'[c] \in {"client", "return", "send"} => Quiet(c)'
    <2>. SUFFICES ASSUME line[c] \in {"client", "return", "send"} PROVE Quiet(c)'
      BY ServerLeaves
    <2>1. Quiet(c)
      BY <1>3 DEF AloneMessage
    <2>2. ~Take(c) /\ ~Reply(c)
      BY <1>2, <2>1 DEF Quiet, Take, Reply, Answer, WorkedOn
    <2>. QED  BY <1>1, <1>2, <2>1, <2>2 DEF Quiet, ServerStep, Take, Serve, Reply, ProxyTypeOK
  <1>6. line'[c] = "receive" =>
          /\ \A k \in Call \ {c} : NoneAt(c, k)'
          /\ (Requested(c) \/ Serving(c) \/ Replying(c))'
    BY <1>1, <1>2, <1>3, ServerLeaves, NoneAtPreservedByServer, AloneMessageServed
    DEF AloneMessage
  <1>. QED  BY <1>4, <1>5, <1>6 DEF AloneMessage

\* The answer a call receives is the one to its own request.
LEMMA AnswerReceived ==
    ASSUME ProxyTypeOK, NEW c \in Call, AloneFields(c), AloneMessage(c), Receive(c)
    PROVE  /\ got'[c] \in Replied /\ got'[c].call = c /\ Honest(c, got'[c].session)
           /\ \A k \in Call : NoneAt(c, k)
  <1>1. line[c] = "receive" /\ Connection(c) = c /\ outbox[c] # <<>>
    BY DEF Receive, AloneFields, UpToOpen, Connection
  <1>2. Replying(c) /\ \A k \in Call \ {c} : NoneAt(c, k)
    BY <1>1 DEF AloneMessage, Requested, Serving
  <1>3. PICK s \in Session : outbox[c] = <<[call |-> c, session |-> s]>> /\ Honest(c, s)
    BY <1>2 DEF Replying
  <1>4. got'[c] = [call |-> c, session |-> s]
    BY <1>1, <1>3 DEF Receive, ProxyTypeOK
  <1>5. NoneAt(c, c)
    BY <1>2, ProxyAssumption DEF Replying, NoneAt, Call
  <1>. QED  BY <1>2, <1>3, <1>4, <1>5 DEF Replied

LEMMA AnsweredPreserved ==
    ASSUME ProxyTypeOK, FieldsSet, WorkedOn, AloneUnderWay, AloneAnswered, NEW j \in Call,
           \/ (\E cmd \in Command : Begin(j, cmd)) \/ CallStep(j)
           \/ ServerStep(j) \/ ServerEnds
    PROVE  AloneAnswered'
  <1>. SUFFICES ASSUME NEW c \in alone', line'[c] \in {"close", "ended"}
                PROVE  /\ got'[c] \in Replied /\ got'[c].call = c
                       /\ Honest(c, got[c].session)' /\ \A k \in Call : NoneAt(c, k)'
    BY DEF AloneAnswered
  <1>1. alone' \subseteq alone
    BY DEF Begin, CallStep, MakeTransport, MakeProtocol, Open, OpenFails, MakeClient, ReturnClient, Send,
           Receive, Raise, Close, ServerStep, Take, Serve, Reply, ServerEnds
  <1>2. c \in Call /\ c \in alone
    BY <1>1 DEF ProxyTypeOK
  <1>3. ASSUME NEW cmd \in Command, Begin(j, cmd)
        PROVE  /\ got'[c] \in Replied /\ got'[c].call = c
               /\ Honest(c, got[c].session)' /\ \A k \in Call : NoneAt(c, k)'
    <2>1. line[c] \in {"close", "ended"}
      BY <1>2, <1>3, LineOfBegin
    <2>. QED  BY <1>2, <1>3, <2>1, BeginLeaves DEF AloneAnswered, Honest, NoneAt
  <1>4. CASE CallStep(j)
    <2>1. CASE Receive(c) /\ j = c
      <3>1. AloneFields(c) /\ AloneMessage(c)
        BY <1>2, <2>1 DEF AloneUnderWay, Receive
      <3>2. /\ got'[c] \in Replied /\ got'[c].call = c /\ Honest(c, got'[c].session)
            /\ \A k \in Call : NoneAt(c, k)
        BY <1>2, <2>1, <3>1, AnswerReceived
      <3>3. UNCHANGED <<done, inbox, asking>>
        BY <2>1 DEF Receive
      <3>. QED  BY <3>2, <3>3 DEF Honest, NoneAt
    <2>2. ~(Receive(c) /\ j = c) => line[c] \in {"close", "ended"} /\ got'[c] = got[c]
      <3>. SUFFICES ASSUME ~(Receive(c) /\ j = c)
                    PROVE  line[c] \in {"close", "ended"} /\ got'[c] = got[c]
        OBVIOUS
      <3>1. CASE j # c
        <4>1. line[c] \in {"close", "ended"}
          BY <1>2, <1>4, <3>1, LineOfCall
        <4>2. got'[c] = got[c]
          BY <1>2, <1>4, <3>1
          DEF CallStep, MakeTransport, MakeProtocol, Open, OpenFails, MakeClient, ReturnClient, Send,
              Receive, Raise, Close, ProxyTypeOK
        <4>. QED  BY <4>1, <4>2
      <3>2. CASE j = c
        <4>0. ~OpenFails(c)
          BY DEF OpenFails
        <4>1. Raise(c) \/ Close(c)
          BY <1>2, <1>4, <3>2, <4>0
          DEF CallStep, MakeTransport, MakeProtocol, Open, MakeClient, ReturnClient, Send,
              Goto, ProxyTypeOK
        <4>2. ~Raise(c)
          <5>. SUFFICES ASSUME Raise(c) PROVE FALSE
            OBVIOUS
          <5>1. AloneFields(c) /\ line[c] \in {"send", "receive"}
            BY <1>2 DEF AloneUnderWay, Raise
          <5>2. Connection(c) = c
            BY <5>1 DEF AloneFields, UpToOpen, Connection
          <5>. QED  BY <1>2, <5>2, ProxyAssumption DEF Raise, Call
        <4>. QED  BY <4>1, <4>2 DEF Close
      <3>. QED  BY <3>1, <3>2
    <2>3. CASE ~(Receive(c) /\ j = c)
      <3>1. /\ got[c] \in Replied /\ got[c].call = c /\ Honest(c, got[c].session)
            /\ \A k \in Call : NoneAt(c, k)
        BY <1>2, <2>2, <2>3 DEF AloneAnswered
      <3>2. line[j] = "send" => j # c
        BY <2>2, <2>3
      <3>3. \A k \in Call : NoneAt(c, k)'
        BY <1>2, <1>4, <3>1, <3>2, NoneAtPreservedByCalls
      <3>. QED  BY <1>4, <2>2, <2>3, <3>1, <3>3, CallsLeave DEF Honest
    <2>. QED  BY <2>1, <2>3
  <1>5. CASE ServerStep(j) \/ ServerEnds
    <2>1. line[c] \in {"close", "ended"} /\ got' = got
      BY <1>5, ServerLeaves
    <2>2. /\ got[c] \in Replied /\ got[c].call = c /\ Honest(c, got[c].session)
          /\ \A k \in Call : NoneAt(c, k)
      BY <1>2, <2>1 DEF AloneAnswered
    <2>3. done'[c] = done[c]
      BY <1>2, <1>5, <2>2, DoneStays DEF NoneAt
    <2>4. \A k \in Call : NoneAt(c, k)'
      BY <1>2, <1>5, <2>2, NoneAtPreservedByServer
    <2>. QED  BY <2>1, <2>2, <2>3, <2>4 DEF Honest
  <1>. QED  BY <1>3, <1>4, <1>5

-----------------------------------------------------------------------------
(* The theorems *)

LEMMA ProxyInvInit == ProxyInit => ProxyInv
  <1>. SUFFICES ASSUME ProxyInit PROVE ProxyInv
    OBVIOUS
  <1>1. inbox \in [Call -> Seq(Sent)] /\ outbox \in [Call -> Seq(Replied)]
    BY DEF ProxyInit
  <1>2. ProxyTypeOK
    BY <1>1, CommandAssumption DEF ProxyInit, AtomicInit, ProxyTypeOK, Field, Line, Call
  <1>3. FieldsSet /\ WorkedOn
    BY DEF ProxyInit, AtomicInit, FieldsSet, WorkedOn, UpToSend, UpToOpen, Call
  <1>4. SilentUntilOpen /\ NothingBeforeSend
    BY ProxyAssumption DEF ProxyInit, SilentUntilOpen, NothingBeforeSend, Quiet, NoneAt, Call
  <1>5. AloneUnderWay /\ AloneAnswered
    BY DEF ProxyInit, AloneUnderWay, AloneAnswered
  <1>. QED  BY <1>2, <1>3, <1>4, <1>5 DEF ProxyInv

LEMMA ProxyInvStep == ProxyInv /\ [ProxyNext]_proxyVars => ProxyInv'
  <1>. SUFFICES ASSUME ProxyInv, [ProxyNext]_proxyVars PROVE ProxyInv'
    OBVIOUS
  <1>. USE DEF ProxyInv
  <1>1. ASSUME NEW c \in Call, (\E cmd \in Command : Begin(c, cmd)) \/ CallStep(c)
        PROVE  ProxyInv'
    <2>1. ProxyTypeOK' /\ FieldsSet'
      BY <1>1, TypeOfCalls, FieldsPreserved
    <2>2. WorkedOn'
      BY <1>1, CallsLeave DEF WorkedOn
    <2>3. SilentUntilOpen' /\ NothingBeforeSend'
      BY <1>1, SilentPreservedByCalls, NothingPreserved
    <2>4. AloneUnderWay' /\ AloneAnswered'
      BY <1>1, AloneAtBegin, AloneAfterCall, AnsweredPreserved
    <2>. QED  BY <2>1, <2>2, <2>3, <2>4
  <1>2. ASSUME NEW c \in Call, ServerStep(c) \/ ServerEnds PROVE ProxyInv'
    <2>1. ProxyTypeOK'
      BY <1>2, TypeOfServer, TypeOfEnd
    <2>2. FieldsSet'
      BY <1>2, ServerLeaves DEF FieldsSet, fields
    <2>3. WorkedOn'
      BY <1>2, WorkedOnPreserved
    <2>4. SilentUntilOpen' /\ NothingBeforeSend'
      BY <1>2, SilentPreservedByServer, NothingPreserved
    <2>5. AloneUnderWay' /\ AloneAnswered'
      BY <1>2, AloneAfterServer, AnsweredPreserved
    <2>. QED  BY <2>1, <2>2, <2>3, <2>4, <2>5
  <1>3. CASE UNCHANGED proxyVars
    <2>1. UNCHANGED <<db, asked, told, inbox, outbox, asking, done>>
      BY <1>3 DEF proxyVars, serverVars, atomicVars
    <2>2. UNCHANGED <<transport, protocol, client, line, request, mine, got, opened, alone>>
      BY <1>3 DEF proxyVars, fields
    <2>3. ProxyTypeOK' /\ FieldsSet' /\ WorkedOn'
      BY <2>1, <2>2 DEF ProxyTypeOK, FieldsSet, WorkedOn
    <2>4. SilentUntilOpen' /\ NothingBeforeSend' /\ AloneAnswered'
      BY <2>1, <2>2 DEF SilentUntilOpen, NothingBeforeSend, AloneAnswered, Quiet, NoneAt, Honest
    <2>5. AloneUnderWay'
      <3>1. \A c \in Call : AloneFields(c)' <=> AloneFields(c)
        BY <2>2 DEF AloneFields
      <3>2. \A c \in Call : /\ Requested(c)' <=> Requested(c)
                            /\ Serving(c)' <=> Serving(c)
                            /\ Replying(c)' <=> Replying(c)
        BY <2>1 DEF Requested, Serving, Replying, Honest
      <3>3. \A c, k \in Call : (Quiet(c)' <=> Quiet(c)) /\ (NoneAt(c, k)' <=> NoneAt(c, k))
        BY <2>1 DEF Quiet, NoneAt
      <3>4. \A c \in Call : AloneMessage(c)' <=> AloneMessage(c)
        BY <2>2, <3>2, <3>3 DEF AloneMessage
      <3>. QED  BY <2>2, <3>1, <3>4 DEF AloneUnderWay, ProxyTypeOK
    <2>. QED  BY <2>3, <2>4, <2>5
  <1>4. CASE ServerEnds
    <2>1. CASE Call = {}
      <3>1. ProxyTypeOK'
        BY <1>4, TypeOfEnd
      <3>. QED  BY <1>4, <2>1, <3>1
                DEF FieldsSet, WorkedOn, SilentUntilOpen, NothingBeforeSend, AloneUnderWay,
                    AloneAnswered, ProxyTypeOK
    <2>. QED  BY <1>2, <1>4, <2>1
  <1>. QED  BY <1>1, <1>2, <1>3, <1>4 DEF ProxyNext

\* The communicator's fields, the calls' locals, and the messages between calls
\* and server hold together at every step, for any number of calls.
THEOREM ProxyInvariance == ProxySpec => []ProxyInv
  BY ProxyInvInit, ProxyInvStep, PTL DEF ProxySpec

\* A call that is not refused a connection and meets no other and no end of the
\* server gets the answer to its own request, and what it is told is done was
\* done once, whatever the calls before it have left in the communicator.
THEOREM OwnAnswer == ProxySpec => []OwnAnswerIfAlone
  <1>1. ProxyInv => OwnAnswerIfAlone
    BY ProxyAssumption
    DEF ProxyInv, ProxyTypeOK, AloneAnswered, OwnAnswerIfAlone, Honest, Replied, Call
  <1>. QED  BY <1>1, ProxyInvariance, PTL
=============================================================================
