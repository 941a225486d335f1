--------------------------- MODULE CoveringProofs ---------------------------
(***************************************************************************)
(* Theorems about sessions with coverings, for every globe, every input    *)
(* and every number of calls.                                              *)
(***************************************************************************)
EXTENDS Covering, CellTreeProofs

(* A covering in the stored form of a set.                                 *)
Canonical(c) == \E S : \E r \in Resolutions : Kept(S, r) /\ c = ToCovering(S, r)

(* ... of a set that cells no finer than its resolution fill.              *)
Fine(c) == Canonical(c) /\ Full(SlotsOf(c), CoveringResolution(c))

-----------------------------------------------------------------------------
(* What the operations make.                                               *)

LEMMA CanonicalFacts ==
  \A c : Canonical(c) =>
    /\ c \in Seq(Values) /\ CoveringResolution(c) \in Resolutions
    /\ Kept(SlotsOf(c), CoveringResolution(c))
    /\ c = ToCovering(SlotsOf(c), CoveringResolution(c))
  BY StoredForm DEF Canonical

LEMMA StoredIsCanonical ==
  \A S : \A r \in Resolutions :
    /\ Kept(S, r) => Canonical(ToCovering(S, r))
    /\ Kept(S, r) /\ Full(S, r) => Fine(ToCovering(S, r))
  BY StoredForm DEF Canonical, Fine

LEMMA CompactMakes ==
  \A values \in Seq(Values) :
    /\ Canonical(CompactValues(values))
    /\ (\A i \in DOMAIN values : values[i] \in Cells => values[i].res <= CoveringResolution(values))
         => Fine(CompactValues(values))
  BY SlotsKept, ResolutionType, StoredIsCanonical DEF CompactValues

LEMMA CompactOfCells ==
  \A values \in Seq(Values) : ~IsMarked(values) => Fine(CompactValues(values))
  BY CompactMakes, ResolutionType

LEMMA CompactOfMarked ==
  \A values \in Seq(Values) : \A r \in 0..MaxRes :
    /\ Canonical(CompactValues(WithMarker(values, r)))
    /\ (\A i \in DOMAIN values : values[i] \in Cells => values[i].res <= r)
         => Fine(CompactValues(WithMarker(values, r)))
<1> TAKE values \in Seq(Values)
<1> TAKE r \in 0..MaxRes
<1> DEFINE v == WithMarker(values, r)
<1>1. Marker(r) \in Markers /\ Marker(r) \notin Cells /\ Marker(r).res = r
  BY MarkerNoCell DEF Markers, Marker, Cell
<1>2. /\ v \in Seq(Values) /\ v # <<>> /\ Last(v) = Marker(r)
      /\ \A i \in DOMAIN v : v[i] = Marker(r) \/ (i \in DOMAIN values /\ v[i] = values[i])
  BY <1>1 DEF Values, WithMarker, Last
<1>3. CoveringResolution(v) = r
  BY <1>1, <1>2 DEF CoveringResolution, IsMarked, IsMarker
<1> HIDE DEF v
<1>4. Canonical(CompactValues(v))
  BY <1>2, CompactMakes
<1>5. ASSUME \A i \in DOMAIN values : values[i] \in Cells => values[i].res <= r
      PROVE  Fine(CompactValues(v))
  <2>1. \A i \in DOMAIN v : v[i] \in Cells => v[i].res <= CoveringResolution(v)
    BY <1>1, <1>2, <1>3, <1>5
  <2> QED
    BY <1>2, <2>1, CompactMakes
<1> QED
  BY <1>4, <1>5 DEF v

(* Of cells the compacted covering is fine, of any values it is canonical. *)
LEMMA CellsToCoveringMakes ==
  \A values \in Seq(Values) : \A r \in OptionalResolutions :
    CellsToCovering(values, r) # Bad =>
      /\ Canonical(CellsToCovering(values, r))
      /\ r # NULL \/ FineMarker(values) => Fine(CellsToCovering(values, r))
<1> TAKE values \in Seq(Values)
<1> TAKE r \in OptionalResolutions
<1> HAVE CellsToCovering(values, r) # Bad
<1>1. CASE r = NULL
  <2>1. CellsToCovering(values, r) = CompactValues(values)
    BY <1>1 DEF CellsToCovering
  <2>2. ASSUME FineMarker(values) PROVE Fine(CompactValues(values))
    <3>1. CASE IsMarked(values)
      <4>1. CoveringResolution(values) = Last(values).res
        BY <3>1 DEF CoveringResolution
      <4>2. \A i \in DOMAIN values : values[i] \in Cells => values[i].res <= CoveringResolution(values)
        BY <2>2, <3>1, <4>1 DEF FineMarker, IsCell
      <4> QED
        BY <4>2, CompactMakes
    <3>2. CASE ~IsMarked(values)
      BY <3>2, CompactOfCells
    <3> QED
      BY <3>1, <3>2
  <2> QED
    BY <1>1, <2>1, <2>2, CompactMakes
<1>2. CASE r # NULL
  <2>1. CheckNotFiner(values, r) /\ CellsToCovering(values, r) = CompactValues(WithMarker(values, r))
    BY <1>2 DEF CellsToCovering
  <2>2. r \in 0..MaxRes
    BY <1>2 DEF OptionalResolutions
  <2>3. \A i \in DOMAIN values : values[i] \in Cells => values[i].res <= r
    BY <2>1, MarkerNoCell DEF CheckNotFiner, IsMarker
  <2> QED
    BY <2>1, <2>2, <2>3, CompactOfMarked
<1> QED
  BY <1>1, <1>2

(* Fine cells have no trailing marker.                                     *)
LEMMA CellsUnmarked == \A values \in Seq(Cells) : values \in Seq(Values) /\ FineMarker(values)
<1> TAKE values \in Seq(Cells)
<1>1. values \in Seq(Values)
  BY DEF Values
<1>2. ~IsMarked(values)
  <2>1. values # <<>> => Last(values) \in Cells
    BY DEF Last
  <2> QED
    BY <2>1, MarkerNoCell DEF IsMarked, IsMarker
<1> QED
  BY <1>1, <1>2 DEF FineMarker

LEMMA NoCells == Coarsest({}) = {} /\ InCurveOrder({}) = <<>> /\ SlotsOf(<<>>) = {}
<1>1. Coarsest({}) = {}
  BY CellType DEF Coarsest
<1>2. InCurveOrder({}) = <<>>
  <2>1. Cardinality({}) = 0
    BY FS_EmptySet
  <2>2. InCurveOrder({}) = [i \in 1..0 |-> CHOOSE c \in {} : Cardinality({d \in {} : d.slot <= c.slot}) = i]
    BY <2>1 DEF InCurveOrder
  <2> QED
    BY <2>2
<1>3. SlotsOf(<<>>) = {}
  <2>1. ToSet(<<>>) = {}
    BY DEF ToSet
  <2> QED
    BY <2>1 DEF SlotsOf
<1> QED
  BY <1>1, <1>2, <1>3

LEMMA FullEmpty == \A r \in Resolutions : Full({}, r)
  BY DEF Full

LEMMA AdoptMakes ==
  \A c : \A r \in Resolutions : Canonical(c) =>
    /\ Canonical(Adopt(c, r)) /\ SlotsOf(Adopt(c, r)) = SlotsOf(c)
    /\ Fine(c) => Fine(Adopt(c, r))
<1> TAKE c
<1> TAKE r \in Resolutions
<1> HAVE Canonical(c)
<1>1. CASE c = <<>> /\ r >= 0
  <2>1. Adopt(c, r) = ToCovering({}, r)
    BY <1>1, NoCells DEF Adopt, ToCovering
  <2>2. Full({}, r) /\ Kept({}, r)
    BY FullEmpty, KeptOfFull
  <2>3. SlotsOf(ToCovering({}, r)) = {} /\ SlotsOf(c) = {}
    BY <1>1, <2>2, NoCells, StoredForm
  <2>4. Canonical(ToCovering({}, r)) /\ Fine(ToCovering({}, r))
    BY <2>2, StoredIsCanonical
  <2> QED
    BY <2>1, <2>3, <2>4
<1>2. CASE ~(c = <<>> /\ r >= 0)
  BY <1>2 DEF Adopt
<1> QED
  BY <1>1, <1>2

LEMMA OperationFull ==
  \A op \in {"union", "intersect", "difference"} : \A S, T : \A r \in Resolutions :
    /\ Full(S, r) /\ Full(T, r) => Full(SlotOperation(op, S, T), r)
    /\ Kept(S, r) /\ Kept(T, r) => Kept(SlotOperation(op, S, T), r)
<1> TAKE op \in {"union", "intersect", "difference"}
<1> TAKE S, T
<1>1. \A r \in Resolutions : Full(S, r) /\ Full(T, r) => Full(SlotOperation(op, S, T), r)
  BY FullUnion, FullMeet, FullMinus DEF SlotOperation
<1>2. MaxRes \in Resolutions /\ -1 \in Resolutions
  BY TreeAssumption DEF Resolutions
<1> QED
  BY <1>1, <1>2 DEF Kept

LEMMA CombinedMakes ==
  \A op \in {"union", "intersect", "difference"} : \A a, b :
    Canonical(a) /\ Canonical(b) /\ CoveringResolution(a) = CoveringResolution(b) =>
      /\ Canonical(Combined(op, a, b))
      /\ SlotsOf(Combined(op, a, b)) = SlotOperation(op, SlotsOf(a), SlotsOf(b))
      /\ Fine(a) /\ Fine(b) => Fine(Combined(op, a, b))
<1> TAKE op \in {"union", "intersect", "difference"}
<1> TAKE a, b
<1> HAVE Canonical(a) /\ Canonical(b) /\ CoveringResolution(a) = CoveringResolution(b)
<1> DEFINE r == CoveringResolution(a)
           S == SlotOperation(op, SlotsOf(a), SlotsOf(b))
<1>1. r \in Resolutions /\ Kept(SlotsOf(a), r) /\ Kept(SlotsOf(b), r)
  BY CanonicalFacts
<1>2. Combined(op, a, b) = ToCovering(S, r)
  BY DEF Combined
<1>3. Kept(S, r)
  BY <1>1, OperationFull
<1>4. Fine(a) /\ Fine(b) => Full(S, r)
  BY <1>1, OperationFull DEF Fine
<1> HIDE DEF r, S
<1>5. Canonical(ToCovering(S, r)) /\ SlotsOf(ToCovering(S, r)) = S
  BY <1>1, <1>3, StoredForm, StoredIsCanonical
<1>6. Full(S, r) => Fine(ToCovering(S, r))
  BY <1>1, <1>3, StoredIsCanonical
<1> QED
  BY <1>2, <1>4, <1>5, <1>6 DEF S, r

LEMMA SetOpMakes ==
  \A op \in {"union", "intersect", "difference"} : \A a, b :
    /\ a = NA \/ Canonical(a)
    /\ b = NA \/ Canonical(b)
    /\ SetOp(op, a, b) # Bad
    => \/ SetOp(op, a, b) = NA
       \/ /\ Canonical(SetOp(op, a, b))
          /\ Fine(a) /\ Fine(b) => Fine(SetOp(op, a, b))
<1> TAKE op \in {"union", "intersect", "difference"}
<1> TAKE a, b
<1> HAVE /\ a = NA \/ Canonical(a)
         /\ b = NA \/ Canonical(b)
         /\ SetOp(op, a, b) # Bad
<1>1. CASE a = NA \/ b = NA
  BY <1>1 DEF SetOp
<1>2. CASE a # NA /\ b # NA
  <2> DEFINE p == Adopt(a, CoveringResolution(b))
             q == Adopt(b, CoveringResolution(a))
  <2>1. CoveringResolution(a) \in Resolutions /\ CoveringResolution(b) \in Resolutions
    BY <1>2, CanonicalFacts
  <2>2. Canonical(p) /\ Canonical(q) /\ (Fine(a) => Fine(p)) /\ (Fine(b) => Fine(q))
    BY <1>2, <2>1, AdoptMakes
  <2>3. SetOp(op, a, b) = Combined(op, p, q)
    BY <1>2 DEF SetOp
  <2> HIDE DEF p, q
  <2>4. CoveringResolution(p) = CoveringResolution(q)
    BY <2>3 DEF Combined
  <2> QED
    BY <2>2, <2>3, <2>4, CombinedMakes
<1> QED
  BY <1>1, <1>2

(* The cells of a fine covering are no finer than its resolution.          *)
LEMMA CellsOfFine ==
  \A c : Canonical(c) =>
    /\ CellsIn(c) \in Seq(Cells)
    /\ Fine(c) => CellsIn(c) \in Seq({d \in Cells : d.res <= CoveringResolution(c)})
<1> TAKE c
<1> HAVE Canonical(c)
<1> DEFINE S == SlotsOf(c)
           r == CoveringResolution(c)
           C == Coarsest(S)
           held == InCurveOrder(C)
<1>1. c \in Seq(Values) /\ r \in Resolutions /\ Kept(S, r) /\ c = ToCovering(S, r)
  BY CanonicalFacts
<1>2. CellsIn(c) = held /\ CellsIn(c) \in Seq(Cells)
  BY <1>1, StoredValuesOf, Zenon
<1>3. ASSUME Fine(c) PROVE CellsIn(c) \in Seq({d \in Cells : d.res <= r})
  <2>1. Apart(C) /\ \A d \in C : d.res <= r
    BY <1>1, <1>3, CoarsestFills DEF Fine
  <2>2. Cardinality(C) \in Nat /\ held \in [1..Cardinality(C) -> C]
    BY <2>1, CurveOrder
  <2>3. C \subseteq {d \in Cells : d.res <= r}
    BY <2>1 DEF Apart
  <2> HIDE DEF C, r
  <2>4. held \in [1..Cardinality(C) -> {d \in Cells : d.res <= r}]
    BY <2>2, <2>3
  <2> HIDE DEF held
  <2> QED
    BY <1>2, <2>2, <2>4, FunctionIsSeq
<1> QED
  BY <1>2, <1>3

Levels(coverings) ==
  {CoveringResolution(coverings[i]) : i \in {j \in DOMAIN coverings : coverings[j] # <<>>}}

AllCells(coverings) == FlattenSeq([i \in DOMAIN coverings |-> CellsIn(coverings[i])])

LEMMA UnionOfMakes ==
  \A T : (\A c \in T : Canonical(c)) => \A coverings \in Seq(T) : UnionOf(coverings) # Bad =>
    /\ Canonical(UnionOf(coverings))
    /\ (\A c \in T : Fine(c)) => Fine(UnionOf(coverings))
<1> TAKE T
<1> HAVE \A c \in T : Canonical(c)
<1> TAKE coverings \in Seq(T)
<1> HAVE UnionOf(coverings) # Bad
<1> DEFINE n == Len(coverings)
           parts == [i \in 1..n |-> CellsIn(coverings[i])]
           all == AllCells(coverings)
           levels == Levels(coverings)
           m == Max(levels)
<1>0. n \in Nat /\ DOMAIN coverings = 1..n /\ \A i \in 1..n : coverings[i] \in T /\ Canonical(coverings[i])
  BY SeqIsFunction
<1>1. all = FlattenSeq(parts)
  BY <1>0 DEF AllCells
<1>2. \A Q : (\A i \in 1..n : CellsIn(coverings[i]) \in Seq(Q)) => all \in Seq(Q)
  <2> TAKE Q
  <2> HAVE \A i \in 1..n : CellsIn(coverings[i]) \in Seq(Q)
  <2>1. parts \in [1..n -> Seq(Q)]
    OBVIOUS
  <2>2. parts \in Seq(Seq(Q))
    BY <1>0, <2>1, FunctionIsSeq
  <2> QED
    BY <1>1, <2>2, FlattenType
<1>3. all \in Seq(Cells) /\ all \in Seq(Values) /\ ~IsMarked(all)
  <2>1. all \in Seq(Cells)
    BY <1>0, <1>2, CellsOfFine
  <2>2. all # <<>> => Last(all) \in Cells
    BY <2>1 DEF Last
  <2> QED
    BY <2>1, <2>2, MarkerNoCell, CellsUnmarked DEF IsMarked, IsMarker
<1>4. \A i \in levels : i \in Resolutions /\ i \in Int /\ i <= MaxRes /\ -1 <= i
  <2>1. \A i \in levels : i \in Resolutions
    BY <1>0, CanonicalFacts DEF Levels
  <2> QED
    BY <2>1, TreeAssumption DEF Resolutions
<1>5. CASE levels \subseteq {-1}
  <2>1. UnionOf(coverings) = CompactValues(all)
    BY <1>5 DEF UnionOf, Levels, AllCells
  <2> QED
    BY <1>3, <2>1, CompactOfCells DEF Fine
<1>6. CASE ~(levels \subseteq {-1})
  <2>1. UnionOf(coverings) = CompactValues(WithMarker(all, m))
    BY <1>6 DEF UnionOf, Levels, AllCells
  <2>2. m \in levels /\ \A i \in levels : i <= m
    <3>1. levels \subseteq Int /\ levels # {} /\ MaxRes \in Int /\ \A i \in levels : i <= MaxRes
      BY <1>4, <1>6, TreeAssumption
    <3> HIDE DEF levels
    <3> QED
      BY <3>1, MaxType
  <2>3. m \in 0..MaxRes
    <3>1. PICK i \in levels : i # -1
      BY <1>6
    <3>2. i <= m /\ m \in Int /\ m <= MaxRes /\ i >= 0 /\ i \in Int
      BY <1>4, <2>2, <3>1
    <3> QED
      BY <3>2, TreeAssumption
  <2>4. ASSUME \A c \in T : Fine(c) PROVE \A i \in DOMAIN all : all[i].res <= m
    <3> DEFINE Q == {d \in Cells : d.res <= m}
    <3>1. ASSUME NEW i \in 1..n PROVE CellsIn(coverings[i]) \in Seq(Q)
      <4>1. CASE coverings[i] = <<>>
        <5>1. CellsIn(<<>>) = <<>>
          <6>1. DOMAIN <<>> = {}
            OBVIOUS
          <6>2. [k \in DOMAIN <<>> |-> IF <<>>[k] \in Markers THEN <<>> ELSE <<(<<>>)[k]>>] = <<>>
            BY <6>1
          <6> QED
            BY <6>2, FlattenNone DEF CellsIn, Without
        <5> HIDE DEF Q
        <5>2. <<>> \in Seq(Q)
          OBVIOUS
        <5> QED
          BY <4>1, <5>1, <5>2
      <4>2. CASE coverings[i] # <<>>
        <5> DEFINE c == coverings[i]
                   k == CoveringResolution(c)
        <5>1. k \in levels
          BY <1>0, <4>2 DEF Levels
        <5>2. k <= m /\ k \in Int /\ m \in Int
          BY <1>4, <2>2, <5>1
        <5>3. CellsIn(c) \in Seq({d \in Cells : d.res <= k})
          BY <1>0, <2>4, CellsOfFine
        <5> HIDE DEF k, c
        <5>4. {d \in Cells : d.res <= k} \subseteq Q
          <6>1. \A d \in Cells : d.res \in Int
            BY ValueType DEF Values
          <6> QED
            BY <5>2, <6>1
        <5> HIDE DEF Q
        <5>5. \A A, B : A \subseteq B => Seq(A) \subseteq Seq(B)
          OBVIOUS
        <5>6. CellsIn(c) \in Seq(Q)
          BY <5>3, <5>4, <5>5
        <5> QED
          BY <5>6 DEF c
      <4> QED
        BY <4>1, <4>2
    <3> HIDE DEF all
    <3>2. all \in Seq(Q)
      BY <1>2, <3>1
    <3>3. \A i \in DOMAIN all : all[i] \in Q
      BY <3>2
    <3> QED
      BY <3>3
  <2> HIDE DEF all, m
  <2>5. Canonical(CompactValues(WithMarker(all, m)))
    BY <1>3, <2>3, CompactOfMarked
  <2>6. (\A c \in T : Fine(c)) => Fine(CompactValues(WithMarker(all, m)))
    BY <1>3, <2>3, <2>4, CompactOfMarked
  <2> QED
    BY <2>1, <2>5, <2>6
<1> QED
  BY <1>5, <1>6

(* The cell vectors that come from a covering hold cells.                  *)
LEMMA UncompactedMakes ==
  \A c : \A r \in OptionalResolutions : Canonical(c) =>
    /\ Uncompacted(c, r) = Bad \/ Uncompacted(c, r) \in Seq(Cells)
    /\ StoredCells(c) \in Seq(Cells)
<1> TAKE c
<1> TAKE r \in OptionalResolutions
<1> HAVE Canonical(c)
<1>1. c \in Seq(Values) /\ CellsIn(c) \in Seq(Cells) /\ CellsIn(c) \in Seq(Values)
  BY CanonicalFacts, CellsOfFine, CellsUnmarked
<1>2. CASE r = NULL
  BY <1>1, <1>2, UncompactType DEF Uncompacted, StoredCells
<1>3. CASE r # NULL
  <2>1. r \in 0..MaxRes
    BY <1>3 DEF OptionalResolutions
  <2>2. Marker(r) \in Values
    BY <2>1 DEF Values, Markers
  <2>3. WithMarker(CellsIn(c), r) \in Seq(Values)
    BY <1>1, <2>2 DEF WithMarker
  <2> QED
    BY <1>1, <1>3, <2>3, UncompactType DEF Uncompacted, StoredCells
<1> QED
  BY <1>2, <1>3

-----------------------------------------------------------------------------
(* The inductive invariant.                                                *)

CellsType == cells \in Seq(IF answer.call = "raw" THEN Values \cup {Bad} ELSE Cells \cup {NA})

IInv ==
  /\ x = NA \/ Canonical(x)
  /\ y = NA \/ Canonical(y)
  /\ CellsType
  /\ cells # <<>> => y = NA

(* ... when every trailing marker the user gives is as fine as its cells.  *)
FineInv ==
  /\ IInv
  /\ x = NA \/ Fine(x)
  /\ y = NA \/ Fine(y)
  /\ answer.call = "raw" => FineMarker(cells)

LEMMA IInvInit == Init => FineInv
<1> SUFFICES ASSUME Init PROVE FineInv
  OBVIOUS
<1>1. x = NA /\ y = NA /\ cells = <<>> /\ answer.call = "start"
  BY DEF Init, Answer
<1>2. <<>> \in Seq(Cells \cup {NA})
  OBVIOUS
<1> QED
  BY <1>1, <1>2 DEF FineInv, IInv, CellsType

LEMMA EmptyVector ==
  \A Q : <<>> \in Seq(Q) /\ ~IsMarked(<<>>) /\ FineMarker(<<>>)
  BY DEF IsMarked, FineMarker

Markedness == \A raw \in RawInputs : FineMarker(raw)

LEMMA InputStep ==
  IInv /\ Input => IInv' /\ (Markedness /\ FineInv => FineInv')
<1> SUFFICES ASSUME IInv, Input PROVE IInv' /\ (Markedness /\ FineInv => FineInv')
  OBVIOUS
<1>1. y = NA /\ cells = <<>>
  BY DEF Input
<1>2. CASE \E values \in CellInputs : GivesCells("cells", NULL, values)
  <2>1. PICK values \in CellInputs : GivesCells("cells", NULL, values)
    BY <1>2
  <2>2. values \in Seq(Cells \cup {NA})
    BY InputsAssumption
  <2>3. x' = x /\ y' = y /\ answer'.call = "cells" /\ (cells' = values \/ cells' = cells)
    BY <2>1 DEF GivesCells, Fails, Answer
  <2>4. cells' \in Seq(Cells \cup {NA})
    BY <1>1, <2>2, <2>3, EmptyVector
  <2> QED
    BY <1>1, <2>3, <2>4 DEF IInv, FineInv, CellsType
<1>3. CASE \E values \in RawInputs : GivesCells("raw", NULL, values)
  <2>1. PICK values \in RawInputs : GivesCells("raw", NULL, values)
    BY <1>3
  <2>2. values \in Seq(Values \cup {Bad})
    BY InputsAssumption DEF Values
  <2>3. x' = x /\ y' = y /\ answer'.call = "raw" /\ (cells' = values \/ cells' = cells)
    BY <2>1 DEF GivesCells, Fails, Answer
  <2>4. cells' \in Seq(Values \cup {Bad}) /\ (Markedness => FineMarker(cells'))
    BY <1>1, <2>2, <2>3, EmptyVector DEF Markedness
  <2>5. FineMarker(cells') <=> FineMarker(cells)'
    BY DEF FineMarker, IsMarked, IsMarker, IsCell, Last
  <2> QED
    BY <1>1, <2>3, <2>4, <2>5 DEF IInv, FineInv, CellsType
<1> QED
  BY <1>2, <1>3 DEF Input

(* The user's cells are gone, and the covering they made is y, or the call *)
(* failed.                                                                 *)
LEMMA MakesY ==
  ASSUME IInv, NEW name, NEW r, NEW c, GivesY(name, r, c), name # "raw",
         c = Bad \/ Canonical(c)
  PROVE  IInv' /\ (FineInv /\ (c = Bad \/ Fine(c)) => FineInv')
<1>1. /\ x' = x /\ (y' = y \/ (c # Bad /\ y' = c))
      /\ cells' = <<>> /\ answer'.call = name
  BY DEF GivesY, Fails, Answer
<1>2. <<>> \in Seq(Cells \cup {NA})
  BY EmptyVector
<1>3. cells' \in Seq(Cells \cup {NA})
  BY <1>1, <1>2
<1> QED
  BY <1>1, <1>3 DEF IInv, FineInv, CellsType

LEMMA MakesX ==
  ASSUME IInv, NEW name, NEW c, GivesX(name, c), name # "raw", cells = <<>>,
         c = Bad \/ c = NA \/ Canonical(c)
  PROVE  IInv' /\ (FineInv /\ (c = Bad \/ c = NA \/ Fine(c)) => FineInv')
<1>1. /\ y' = y /\ (x' = x \/ (c # Bad /\ x' = c))
      /\ cells' = <<>> /\ answer'.call = name
  BY DEF GivesX, Fails, Answer
<1>2. <<>> \in Seq(Cells \cup {NA})
  BY EmptyVector
<1>3. cells' \in Seq(Cells \cup {NA})
  BY <1>1, <1>2
<1> QED
  BY <1>1, <1>3 DEF IInv, FineInv, CellsType

LEMMA MakesCells ==
  ASSUME IInv, NEW name, NEW r, NEW values, GivesCells(name, r, values), name # "raw",
         y = NA, cells = <<>>, values = Bad \/ values \in Seq(Cells)
  PROVE  IInv' /\ (FineInv => FineInv')
<1>1. /\ x' = x /\ y' = y /\ answer'.call = name
      /\ cells' = <<>> \/ cells' \in Seq(Cells)
  BY DEF GivesCells, Fails, Answer
<1>2. cells' \in Seq(Cells \cup {NA})
  <2>1. Seq(Cells) \subseteq Seq(Cells \cup {NA})
    OBVIOUS
  <2> QED
    BY <1>1, <2>1, EmptyVector
<1> QED
  BY <1>1, <1>2 DEF IInv, FineInv, CellsType

LEMMA DropStep == IInv /\ Drop => IInv' /\ (FineInv => FineInv')
<1> SUFFICES ASSUME IInv, Drop PROVE IInv' /\ (FineInv => FineInv')
  OBVIOUS
<1>1. cells = <<>> /\ x' = x /\ y' = NA /\ cells' = cells /\ answer'.call = "drop"
  BY DEF IInv, Drop, Answer
<1>2. cells' \in Seq(Cells \cup {NA})
  BY <1>1, EmptyVector
<1> QED
  BY <1>1, <1>2 DEF IInv, FineInv, CellsType

LEMMA CompactStep ==
  ASSUME IInv, NEW r \in OptionalResolutions, Compact(r) PROVE IInv' /\ (FineInv => FineInv')
<1> DEFINE values == CollectIds(cells)
           c == CellsToCovering(values, r)
<1>1. answer.call # "raw" /\ GivesY("compact", r, c)
  BY DEF Compact
<1>2. cells \in Seq(Cells \cup {NA})
  BY <1>1 DEF IInv, CellsType
<1>3. values \in Seq(Cells)
  <2>1. values \in Seq((Cells \cup {NA}) \ {NA})
    BY <1>2, WithoutType DEF CollectIds
  <2>2. Seq((Cells \cup {NA}) \ {NA}) \subseteq Seq(Cells)
    OBVIOUS
  <2> QED
    BY <2>1, <2>2
<1> HIDE DEF values
<1>4. c = Bad \/ Fine(c)
  BY <1>3, CellsUnmarked, CellsToCoveringMakes
<1> HIDE DEF c
<1>5. c = Bad \/ Canonical(c)
  BY <1>4 DEF Fine
<1> QED
  BY <1>1, <1>4, <1>5, MakesY

LEMMA NormaliseStep ==
  ASSUME IInv, NEW r \in OptionalResolutions, Normalise(r) PROVE IInv' /\ (FineInv => FineInv')
<1> DEFINE c == Normalised(cells, r)
           q == IF IsMarked(cells) THEN NULL ELSE r
<1>1. answer.call = "raw" /\ GivesY("normalise", r, c)
  BY DEF Normalise
<1>2. cells \in Seq(Values \cup {Bad})
  BY <1>1 DEF IInv, CellsType
<1>3. q \in OptionalResolutions
  BY DEF OptionalResolutions
<1>4. ASSUME c # Bad PROVE cells \in Seq(Values) /\ c = CellsToCovering(cells, q)
  <2>1. \A i \in DOMAIN cells : IsMarker(cells[i]) \/ IsCell(cells[i])
    BY <1>4 DEF Normalised
  <2>2. cells \in Seq(Values)
    BY <1>2, <2>1 DEF Values, IsMarker, IsCell
  <2> QED
    BY <1>4, <2>1, <2>2 DEF Normalised
<1> HIDE DEF q
<1>5. c # Bad => Canonical(c) /\ (FineMarker(cells) => Fine(c))
  BY <1>3, <1>4, CellsToCoveringMakes
<1>6. FineInv => FineMarker(cells)
  BY <1>1 DEF FineInv
<1> HIDE DEF c
<1> QED
  BY <1>1, <1>5, <1>6, MakesY

LEMMA SetOperationStep ==
  ASSUME IInv, NEW op \in {"union", "intersect", "difference"}, SetOperation(op)
  PROVE  IInv' /\ (FineInv => FineInv')
<1> DEFINE c == SetOp(op, x, y)
<1>1. cells = <<>> /\ GivesX(op, c) /\ op # "raw"
  BY DEF SetOperation
<1>2. (x = NA \/ Canonical(x)) /\ (y = NA \/ Canonical(y))
  BY DEF IInv
<1>3. c = Bad \/ c = NA \/ (Canonical(c) /\ (Fine(x) /\ Fine(y) => Fine(c)))
  BY <1>2, SetOpMakes
<1>4. FineInv => c = NA \/ (Fine(x) /\ Fine(y))
  BY DEF FineInv, SetOp
<1> HIDE DEF c
<1> QED
  BY <1>1, <1>3, <1>4, MakesX

LEMMA UnionAllStep == IInv /\ UnionAll => IInv' /\ (FineInv => FineInv')
<1> SUFFICES ASSUME IInv, UnionAll PROVE IInv' /\ (FineInv => FineInv')
  OBVIOUS
<1> DEFINE held == {x, y} \ {NA}
           coverings == Without(<<x, y>>, {NA})
           c == UnionOf(coverings)
<1>1. cells = <<>> /\ GivesX("union_all", c)
  BY DEF UnionAll
<1>2. \A v \in held : Canonical(v)
  BY DEF IInv
<1>3. FineInv => \A v \in held : Fine(v)
  BY DEF FineInv
<1>4. coverings \in Seq(held)
  <2>1. <<x, y>> \in Seq({x, y})
    OBVIOUS
  <2> QED
    BY <2>1, WithoutType
<1> HIDE DEF held, coverings
<1>5. c = Bad \/ (Canonical(c) /\ (FineInv => Fine(c)))
  BY <1>2, <1>3, <1>4, UnionOfMakes
<1> HIDE DEF c
<1> QED
  BY <1>1, <1>5, MakesX

LEMMA AskOverlapsStep == IInv /\ AskOverlaps => IInv' /\ (FineInv => FineInv')
<1> SUFFICES ASSUME IInv, AskOverlaps PROVE IInv' /\ (FineInv => FineInv')
  OBVIOUS
<1>1. /\ y # NA /\ x' = x /\ y' = y /\ cells' = cells
      /\ answer'.call \in {"overlaps", "apart"}
  BY DEF AskOverlaps, Fails, Answer
<1>2. cells = <<>>
  BY <1>1 DEF IInv
<1>3. cells' \in Seq(Cells \cup {NA})
  BY <1>1, <1>2, EmptyVector
<1> QED
  BY <1>1, <1>3 DEF IInv, FineInv, CellsType

LEMMA UncompactStep ==
  ASSUME IInv, NEW r \in OptionalResolutions, Uncompact(r) PROVE IInv' /\ (FineInv => FineInv')
<1> DEFINE values == IF x = NA THEN <<>> ELSE IF Expected(x, r) > MaxCells THEN Bad ELSE Uncompacted(x, r)
<1>1. y = NA /\ cells = <<>> /\ GivesCells("uncompact", r, values)
  BY DEF Uncompact
<1>2. values = Bad \/ values \in Seq(Cells)
  BY EmptyVector, UncompactedMakes DEF IInv
<1> HIDE DEF values
<1> QED
  BY <1>1, <1>2, MakesCells

LEMMA StoredStep == IInv /\ Stored => IInv' /\ (FineInv => FineInv')
<1> SUFFICES ASSUME IInv, Stored PROVE IInv' /\ (FineInv => FineInv')
  OBVIOUS
<1> DEFINE values == IF x = NA THEN <<>> ELSE StoredCells(x)
<1>1. y = NA /\ cells = <<>> /\ GivesCells("stored", NULL, values)
  BY DEF Stored
<1>2. values \in Seq(Cells)
  BY EmptyVector, UncompactedMakes DEF IInv, OptionalResolutions
<1> HIDE DEF values
<1> QED
  BY <1>1, <1>2, MakesCells

LEMMA IInvNext == IInv /\ [Next]_vars => IInv' /\ (Markedness /\ FineInv => FineInv')
<1> SUFFICES ASSUME IInv, [Next]_vars PROVE IInv' /\ (Markedness /\ FineInv => FineInv')
  OBVIOUS
<1>1. CASE Input
  BY <1>1, InputStep
<1>2. CASE Drop
  BY <1>2, DropStep
<1>3. CASE \E r \in OptionalResolutions : Compact(r) \/ Normalise(r) \/ Uncompact(r)
  BY <1>3, CompactStep, NormaliseStep, UncompactStep
<1>4. CASE \E op \in {"union", "intersect", "difference"} : SetOperation(op)
  BY <1>4, SetOperationStep
<1>5. CASE UnionAll
  BY <1>5, UnionAllStep
<1>6. CASE Stored
  BY <1>6, StoredStep
<1>7. CASE AskOverlaps
  BY <1>7, AskOverlapsStep
<1>8. CASE UNCHANGED vars
  BY <1>8 DEF vars, IInv, FineInv, CellsType, FineMarker
<1> QED
  BY <1>1, <1>2, <1>3, <1>4, <1>5, <1>6, <1>7, <1>8 DEF Next

-----------------------------------------------------------------------------
(* The theorems.                                                           *)

THEOREM Invariant == Spec => []IInv
<1>1. Init => IInv
  BY IInvInit DEF FineInv
<1>2. IInv /\ [Next]_vars => IInv'
  BY IInvNext
<1> QED
  BY <1>1, <1>2, PTL DEF Spec

THEOREM FineInvariant == ASSUME Markedness PROVE Spec => []FineInv
<1>1. Init => FineInv
  BY IInvInit
<1>2. FineInv /\ [Next]_vars => FineInv'
  BY IInvNext DEF FineInv
<1> QED
  BY <1>1, <1>2, PTL DEF Spec

(* Coverings are made of cells and markers and the cell vectors of cells,  *)
(* whatever the user gives and calls (covering.rs, cell_raw.rs).           *)
THEOREM Typing == Spec => []TypeOK
<1>1. IInv => TypeOK
  <2> SUFFICES ASSUME IInv PROVE TypeOK
    OBVIOUS
  <2>1. \A c \in {x, y} \ {NA} : \A i \in DOMAIN c : c[i] \in Cells \cup Markers
    <3>1. \A c \in {x, y} \ {NA} : c \in Seq(Values)
      BY CanonicalFacts DEF IInv
    <3> QED
      BY <3>1 DEF Values
  <2>2. \A i \in DOMAIN cells :
          cells[i] \in IF answer.call = "raw" THEN Cells \cup Markers \cup {Bad} ELSE Cells \cup {NA}
    BY DEF IInv, CellsType, Values
  <2> QED
    BY <2>1, <2>2 DEF TypeOK
<1> QED
  BY <1>1, Invariant, PTL

(* Two coverings of the same cells at the same resolution are the same     *)
(* values: every operation leaves the one stored form of its set           *)
(* (R/covering.R:24-26).                                                   *)
THEOREM OneForm == Spec => []CanonicalForm
<1>1. IInv => CanonicalForm
  BY CanonicalFacts DEF IInv, CanonicalForm, Coverings
<1> QED
  BY <1>1, Invariant, PTL

LEMMA FineIsValid == \A c : Fine(c) => IsValidCovering(c)
<1> TAKE c
<1> HAVE Fine(c)
<1> DEFINE S == SlotsOf(c)
           r == CoveringResolution(c)
           C == Coarsest(S)
           n == Cardinality(C)
           held == InCurveOrder(C)
<1>1. r \in Resolutions /\ Kept(S, r) /\ Full(S, r) /\ c = ToCovering(S, r)
  BY CanonicalFacts DEF Fine
<1>2. (IF IsMarked(c) THEN Front(c) ELSE c) = held /\ Len(held) = n
  BY <1>1, StoredValuesOf, Zenon
<1>3. Apart(C) /\ \A d \in C : d.res <= r
  BY <1>1, CoarsestFills
<1>4. /\ n \in Nat /\ held \in [1..n -> C]
      /\ \A i, j \in 1..n : i < j => held[i].slot + SlotCount[held[i].res] <= held[j].slot
  BY <1>3, CurveOrder
<1>5. C \subseteq Cells
  BY <1>3 DEF Apart
<1> HIDE DEF C, n, held, r
<1>6. \A i \in DOMAIN held : IsCell(held[i]) /\ held[i].res <= r
  BY <1>3, <1>4, <1>5 DEF IsCell
<1>7. ASSUME NEW i \in 1..Len(held) - 1
      PROVE  held[i].slot + SlotCount[held[i].res] <= held[i + 1].slot
  <2>1. i \in 1..n /\ i + 1 \in 1..n /\ i < i + 1
    BY <1>2, <1>4
  <2> QED
    BY <1>4, <2>1
<1> QED
  BY <1>2, <1>6, <1>7 DEF IsValidCovering, r

(* Every covering is sorted, disjoint and no finer than its resolution, as *)
(* R/validity.R:15-19 says, provided a trailing marker in the raw values   *)
(* users give is as fine as the cells before it.                           *)
THEOREM Valid == ASSUME Markedness PROVE Spec => []AlwaysValid
<1>1. FineInv => AlwaysValid
  BY FineIsValid DEF FineInv, AlwaysValid, Coverings
<1> QED
  BY <1>1, FineInvariant, PTL

LEMMA FineContains ==
  \A v : Fine(v) => \A c \in Cells :
    CellContained(v, c) = IF SlotsOf(v) = {} THEN FALSE
                          ELSE IF c.res # CoveringResolution(v) THEN Bad
                          ELSE Under(c) \subseteq SlotsOf(v)
<1> TAKE v
<1> HAVE Fine(v)
<1> TAKE c \in Cells
<1> DEFINE S == SlotsOf(v)
           r == CoveringResolution(v)
<1>1. v \in Seq(Values) /\ r \in Resolutions /\ Kept(S, r) /\ Full(S, r) /\ v = ToCovering(S, r)
  BY CanonicalFacts DEF Fine
<1>2. (\A i \in DOMAIN v : IsMarker(v[i])) <=> S = {}
  <2>1. (\A i \in DOMAIN v : IsMarker(v[i])) <=> ToSet(v) \ Markers = {}
    BY DEF ToSet, IsMarker
  <2>2. \A d \in ToSet(v) \ Markers : d.slot \in Under(d)
    <3>1. \A d \in ToSet(v) \ Markers : d \in Cells
      BY <1>1 DEF ToSet, Values
    <3> QED
      BY <3>1, CellType
  <2> QED
    BY <2>1, <2>2 DEF SlotsOf
<1>3. Holds(v, c) <=> c.slot \in S
  BY <1>1, HoldsIsMember
<1>4. c.slot \in Under(c)
  BY CellType
<1>5. ASSUME c.res = r, c.slot \in S PROVE Under(c) \subseteq S
  <2>1. PICK d \in Cells : d.res <= r /\ c.slot \in Under(d) /\ Under(d) \subseteq S
    BY <1>1, <1>5 DEF Full, FilledAt
  <2>2. Under(c) \subseteq Under(d)
    BY <1>4, <1>5, <2>1, CellsNest DEF Meet
  <2> QED
    BY <2>1, <2>2
<1>6. c.res = r => (Holds(v, c) <=> Under(c) \subseteq S)
  BY <1>3, <1>4, <1>5
<1>7. Holds(v, c) \in BOOLEAN
  BY DEF Holds
<1> HIDE DEF S, r
<1> QED
  BY <1>2, <1>6, <1>7 DEF CellContained, S, r

(* A cell is in a covering exactly if its place is in the covering's set,  *)
(* at the covering's resolution, under the same condition.                 *)
THEOREM Membership == ASSUME Markedness PROVE Spec => []ContainsIsMembership
<1>1. FineInv => ContainsIsMembership
  <2> SUFFICES ASSUME FineInv, NEW v \in {x, y} \ {NA}, NEW c \in Cells
               PROVE  CellContained(v, c) = IF SlotsOf(v) = {} THEN FALSE
                        ELSE IF c.res # CoveringResolution(v) THEN Bad
                        ELSE Under(c) \subseteq SlotsOf(v)
    BY DEF ContainsIsMembership, Coverings
  <2>1. Fine(v)
    BY DEF FineInv
  <2> QED
    BY <2>1, FineContains, Zenon
<1> QED
  BY <1>1, FineInvariant, PTL

-----------------------------------------------------------------------------
(* The count.                                                              *)

TallyStep(num, tally, s) == IF s = {} THEN 0 ELSE tally[s \ {Max(s)}] + num[Max(s)]

Tallied(num, k) == \E f : f = [s \in SUBSET (1..k) |-> TallyStep(num, f, s)]

LEMMA MaxOfRange ==
  \A k \in Nat : \A s \in SUBSET (1..k) : s # {} => Max(s) \in s
<1> TAKE k \in Nat
<1> TAKE s \in SUBSET (1..k)
<1> HAVE s # {}
<1>1. s \subseteq Int /\ k \in Int /\ \A i \in s : i <= k
  OBVIOUS
<1> QED
  BY <1>1, MaxType

LEMMA TallyExists == \A num : \A n \in Nat : Tallied(num, n)
<1> TAKE num
<1> TAKE n \in Nat
<1>1. Tallied(num, 0)
  <2> DEFINE f == [s \in SUBSET (1..0) |-> 0]
  <2>1. \A s \in SUBSET (1..0) : s = {}
    OBVIOUS
  <2>2. \A s \in SUBSET (1..0) : f[s] = TallyStep(num, f, s)
    BY <2>1 DEF TallyStep
  <2>3. f = [s \in SUBSET (1..0) |-> TallyStep(num, f, s)]
    <3>1. f = [s \in SUBSET (1..0) |-> f[s]]
      OBVIOUS
    <3> QED
      BY <2>2, <3>1
  <2> HIDE DEF f
  <2> QED
    BY <2>3 DEF Tallied
<1>2. ASSUME NEW k \in 0..n - 1, Tallied(num, k) PROVE Tallied(num, k + 1)
  <2>1. PICK f : f = [s \in SUBSET (1..k) |-> TallyStep(num, f, s)]
    BY <1>2 DEF Tallied
  <2> DEFINE g == [s \in SUBSET (1..k + 1) |-> IF k + 1 \in s THEN TallyStep(num, f, s) ELSE f[s]]
  <2>2. ASSUME NEW s \in SUBSET (1..k + 1) PROVE g[s] = TallyStep(num, g, s)
    <3>1. CASE k + 1 \in s
      <4>1. Max(s) = k + 1
        <5>1. s \subseteq Int /\ \A i \in s : i <= k + 1
          OBVIOUS
        <5> QED
          BY <3>1, <5>1, MaxIs
      <4>2. s \ {k + 1} \in SUBSET (1..k) /\ s \ {k + 1} \in SUBSET (1..k + 1) /\ k + 1 \notin s \ {k + 1}
        OBVIOUS
      <4>3. g[s] = TallyStep(num, f, s) /\ g[s \ {k + 1}] = f[s \ {k + 1}]
        BY <3>1, <4>2
      <4> HIDE DEF g
      <4> QED
        BY <3>1, <4>1, <4>3 DEF TallyStep
    <3>2. CASE k + 1 \notin s
      <4>1. s \in SUBSET (1..k) /\ g[s] = f[s]
        BY <3>2
      <4>2. f[s] = TallyStep(num, f, s)
        BY <2>1, <4>1
      <4>3. s \ {Max(s)} \in SUBSET (1..k + 1) /\ k + 1 \notin s \ {Max(s)}
        BY <3>2
      <4>4. g[s \ {Max(s)}] = f[s \ {Max(s)}]
        BY <4>3
      <4> HIDE DEF g
      <4> QED
        BY <4>1, <4>2, <4>4 DEF TallyStep
    <3> QED
      BY <3>1, <3>2
  <2>3. g = [s \in SUBSET (1..k + 1) |-> TallyStep(num, g, s)]
    <3>1. g = [s \in SUBSET (1..k + 1) |-> g[s]]
      OBVIOUS
    <3> QED
      BY <2>2, <3>1
  <2> HIDE DEF g
  <2> QED
    BY <2>3 DEF Tallied
<1> DEFINE S == {k \in Int : Tallied(num, k)}
<1>3. 0 \in S /\ \A i \in 0..n - 1 : i \in S => i + 1 \in S
  BY <1>1, <1>2
<1> HIDE DEF S
<1>4. \A i \in 0..n : i \in S
  BY <1>3, Upwards
<1> QED
  BY <1>4 DEF S

(* A fold of the numbers over the sets of positions, and that it adds the  *)
(* numbers up from the first to the last.                                  *)
Tallies(n, num, tally) == tally = [s \in SUBSET (1..n) |-> TallyStep(num, tally, s)]
AddsUp(n, num, tally) ==
  /\ tally[{}] = 0
  /\ \A k \in 0..n - 1 : tally[1..k + 1] = tally[1..k] + num[k + 1]

LEMMA TallyUp ==
  \A n \in Nat : \A num, tally : Tallies(n, num, tally) => AddsUp(n, num, tally)
<1> TAKE n \in Nat
<1> TAKE num, tally
<1> HAVE Tallies(n, num, tally)
<1>1. \A s \in SUBSET (1..n) : tally[s] = TallyStep(num, tally, s)
  BY DEF Tallies
<1>2. tally[{}] = 0
  BY <1>1 DEF TallyStep
<1>3. ASSUME NEW k \in 0..n - 1 PROVE tally[1..k + 1] = tally[1..k] + num[k + 1]
  <2>1. 1..k + 1 \in SUBSET (1..n) /\ 1..k + 1 # {} /\ (1..k + 1) \ {k + 1} = 1..k
    <3>1. k + 1 \in 1..k + 1
      OBVIOUS
    <3> QED
      BY <3>1
  <2>2. Max(1..k + 1) = k + 1
    <3>1. k + 1 \in 1..k + 1 /\ 1..k + 1 \subseteq Int /\ \A i \in 1..k + 1 : i <= k + 1
      OBVIOUS
    <3> QED
      BY <3>1, MaxIs
  <2> QED
    BY <1>1, <2>1, <2>2, Zenon DEF TallyStep
<1> QED
  BY <1>2, <1>3 DEF AddsUp

Kids(values) ==
  [i \in 1..Len(CellsIn(values)) |-> NumChildren(CellsIn(values)[i].res, CoveringResolution(values))]

LEMMA CountTallies ==
  \A values \in Seq(Values) : \E tally :
    /\ CountOf(values) = tally[1..Len(CellsIn(values))]
    /\ AddsUp(Len(CellsIn(values)), Kids(values), tally)
<1> TAKE values \in Seq(Values)
<1> DEFINE held == CellsIn(values)
           r == CoveringResolution(values)
           n == Len(held)
           num == [i \in 1..n |-> NumChildren(held[i].res, r)]
           tally == CHOOSE f : f = [s \in SUBSET (1..n) |->
                      IF s = {} THEN 0 ELSE f[s \ {Max(s)}] + NumChildren(held[Max(s)].res, r)]
<1>1. n \in Nat /\ DOMAIN held = 1..n
  BY CellsInType, SeqIsFunction
<1>3. CountOf(values) = tally[1..n]
  BY <1>1 DEF CountOf, FoldLeft, MapThenFoldSet
<1>4. \A s \in SUBSET (1..n) : s # {} => num[Max(s)] = NumChildren(held[Max(s)].res, r)
  BY <1>1, MaxOfRange
<1>5. \A f : f = [s \in SUBSET (1..n) |-> TallyStep(num, f, s)] <=>
             f = [s \in SUBSET (1..n) |->
                    IF s = {} THEN 0 ELSE f[s \ {Max(s)}] + NumChildren(held[Max(s)].res, r)]
  <2> TAKE f
  <2>1. \A s \in SUBSET (1..n) :
          TallyStep(num, f, s) = IF s = {} THEN 0 ELSE f[s \ {Max(s)}] + NumChildren(held[Max(s)].res, r)
    BY <1>4 DEF TallyStep
  <2> HIDE DEF num
  <2> QED
    BY <2>1
<1>6. tally = [s \in SUBSET (1..n) |-> TallyStep(num, tally, s)]
  <2>1. \E f : f = [s \in SUBSET (1..n) |-> TallyStep(num, f, s)]
    BY <1>1, TallyExists DEF Tallied
  <2> HIDE DEF num
  <2> QED
    BY <1>5, <2>1
<1>7. num = Kids(values)
  BY DEF Kids
<1> HIDE DEF tally, num, n
<1>8. AddsUp(n, num, tally)
  <2>1. n \in Nat
    BY <1>1
  <2>2. Tallies(n, num, tally)
    BY <1>6, Zenon DEF Tallies
  <2> QED
    BY <2>1, <2>2, TallyUp, Zenon
<1> QED
  BY <1>3, <1>7, <1>8, Zenon DEF n

LEMMA CountIsLengthOf ==
  \A values \in Seq(Values) : CountOf(values) = Len(UncompactValues(values))
<1> TAKE values \in Seq(Values)
<1> DEFINE held == CellsIn(values)
           n == Len(held)
           num == Kids(values)
           ss == Expansions(values)
<1>1. n \in Nat /\ DOMAIN held = 1..n
  BY CellsInType, SeqIsFunction
<1>2. /\ UncompactValues(values) = FlattenSeq(ss)
      /\ ss \in [1..n -> Seq(Cells)] /\ \A i \in 1..n : Len(ss[i]) = num[i]
  BY ExpansionsType DEF Kids
<1>3. PICK tally : CountOf(values) = tally[1..n] /\ AddsUp(n, num, tally)
  BY CountTallies
<1>7. tally[{}] = 0 /\ \A k \in 0..n - 1 : tally[1..k + 1] = tally[1..k] + num[k + 1]
  BY <1>3, Zenon DEF AddsUp
<1> HIDE DEF num, ss, n
<1>8. CASE n = 0
  <2>1. ss = <<>> /\ 1..n = {}
    BY <1>2, <1>8, FunctionIsSeq, SeqIsFunction
  <2>2. Len(<<>>) = 0
    OBVIOUS
  <2> QED
    BY <1>2, <1>3, <1>7, <2>1, <2>2, FlattenNone
<1>9. CASE n # 0
  <2>1. n \in Nat \ {0} /\ n \in Int /\ 1 \in Int /\ n \in 1..n
    BY <1>1, <1>9
  <2>2. PICK f \in [1..n -> Seq(Cells)] : Joins(ss, n, f) /\ FlattenSeq(ss) = f[n]
    <3>1. n \in Nat \ {0} /\ ss \in [1..n -> Seq(Cells)]
      BY <1>2, <2>1
    <3> QED
      BY <3>1, FlattenJoins, Zenon
  <2>3. \A i \in 1..n : Len(f[i]) \in Nat /\ num[i] \in Nat /\ ss[i] \in Seq(Cells) /\ f[i] \in Seq(Cells)
    <3>1. \A i \in 1..n : ss[i] \in Seq(Cells) /\ f[i] \in Seq(Cells)
      BY <1>2
    <3> QED
      BY <1>2, <3>1, SeqIsFunction
  <2> DEFINE S == {k \in Int : tally[1..k] = Len(f[k])}
  <2>4. 1 \in S
    <3>1. 0 \in 0..n - 1 /\ 0 + 1 = 1 /\ 1..0 = {} /\ 1 \in 1..n
      BY <2>1
    <3>2. tally[1..1] = tally[{}] + num[1]
      BY <1>7, <3>1
    <3>3. Len(f[1]) = num[1] /\ num[1] \in Nat
      BY <1>2, <2>2, <2>3, <3>1 DEF Joins
    <3> QED
      BY <1>7, <3>2, <3>3
  <2>5. ASSUME NEW i \in 1..n - 1, i \in S PROVE i + 1 \in S
    <3>1. i \in 0..n - 1 /\ i \in 1..n /\ i + 1 \in 1..n
      BY <2>1
    <3>2. f[i + 1] = f[i] \o ss[i + 1]
      BY <2>2 DEF Joins
    <3>3. \A p, q \in Seq(Cells) : Len(p \o q) = Len(p) + Len(q)
      OBVIOUS
    <3>4. Len(f[i + 1]) = Len(f[i]) + num[i + 1]
      BY <1>2, <2>3, <3>1, <3>2, <3>3
    <3>5. tally[1..i + 1] = tally[1..i] + num[i + 1]
      BY <1>7, <3>1
    <3> QED
      BY <2>5, <3>4, <3>5
  <2> HIDE DEF S
  <2>6. \A i \in 1..n : i \in S
    BY <2>1, <2>4, <2>5, Upwards
  <2>7. tally[1..n] = Len(f[n])
    BY <2>1, <2>6 DEF S
  <2> QED
    BY <1>2, <1>3, <2>2, <2>7
<1> QED
  BY <1>8, <1>9

(* a5_count() is the length of the uncompacted covering, for every         *)
(* covering a session makes.                                               *)
THEOREM CountExact == Spec => []CountIsLength
<1>1. IInv => CountIsLength
  BY CanonicalFacts, CountIsLengthOf DEF IInv, CountIsLength, Coverings, Uncompacted
<1> QED
  BY <1>1, Invariant, PTL

-----------------------------------------------------------------------------
(* Expanding a covering: how many cells it has at a resolution, and which. *)

(* Powers.                                                                 *)
PowerStep(d, f) == IF d = 0 THEN 1 ELSE Fan * f[d - 1]

Powered(n) == \E f : f = [d \in 0..n |-> PowerStep(d, f)]

LEMMA PowerDef ==
  /\ Power[0] = 1
  /\ \A d \in 0..MaxRes : Power[d + 1] = Fan * Power[d]
  /\ \A d \in 0..MaxRes + 1 : Power[d] \in Nat
<1>0. MaxRes \in Nat \ {0, 1} /\ Fan \in Nat
  BY TreeAssumption
<1>1. Powered(0)
  <2>1. [d \in {0} |-> 1] = [d \in 0..0 |-> PowerStep(d, [d1 \in {0} |-> 1])]
    BY DEF PowerStep
  <2> QED
    BY <2>1 DEF Powered
<1>2. ASSUME NEW n \in 0..MaxRes, Powered(n) PROVE Powered(n + 1)
  <2>1. PICK f : f = [d \in 0..n |-> PowerStep(d, f)]
    BY <1>2 DEF Powered
  <2> DEFINE g == [d \in 0..n + 1 |-> IF d = n + 1 THEN PowerStep(d, f) ELSE f[d]]
  <2>2. \A d \in 0..n + 1 : g[d] = PowerStep(d, g)
    BY <1>0, <2>1 DEF PowerStep
  <2>3. g = [d \in 0..n + 1 |-> PowerStep(d, g)]
    <3>1. g = [d \in 0..n + 1 |-> g[d]]
      OBVIOUS
    <3> QED
      BY <2>2, <3>1
  <2> HIDE DEF g
  <2> QED
    BY <2>3 DEF Powered
<1> DEFINE S == {n \in Int : Powered(n)}
<1>3. MaxRes + 1 \in S
  <2>1. 0 \in S /\ \A i \in 0..MaxRes + 1 - 1 : i \in S => i + 1 \in S
    BY <1>0, <1>1, <1>2
  <2> HIDE DEF S
  <2>2. \A i \in 0..MaxRes + 1 : i \in S
    BY <1>0, <2>1, Upwards
  <2> QED
    BY <1>0, <2>2
<1>4. \E f : f = [d \in 0..MaxRes + 1 |-> IF d = 0 THEN 1 ELSE Fan * f[d - 1]]
  BY <1>3 DEF PowerStep, Powered
<1>5. Power = [d \in 0..MaxRes + 1 |-> IF d = 0 THEN 1 ELSE Fan * Power[d - 1]]
  BY <1>4 DEF Power
<1>6. Power[0] = 1 /\ \A d \in 0..MaxRes : Power[d + 1] = Fan * Power[d]
  BY <1>0, <1>5
<1> DEFINE T == {d \in Int : Power[d] \in Nat}
<1>7. \A d \in 0..MaxRes + 1 : d \in T
  <2>1. 0 \in T /\ \A i \in 0..MaxRes + 1 - 1 : i \in T => i + 1 \in T
    BY <1>0, <1>6
  <2> HIDE DEF T
  <2> QED
    BY <1>0, <2>1, Upwards
<1> QED
  BY <1>6, <1>7

(* How many cells of a resolution a coarser cell holds, below the origins. *)
LEMMA SlotCountPower ==
  \A r \in 1..MaxRes : \A n \in 0..r - 1 : SlotCount[r - n] = Power[n] * SlotCount[r]
<1> TAKE r \in 1..MaxRes
<1>0. MaxRes \in Nat \ {0, 1} /\ Fan \in Nat /\ SlotCount[r] \in Nat
  BY TreeAssumption, SlotCountsDivide DEF Resolutions
<1> DEFINE S == {n \in Int : SlotCount[r - n] = Power[n] * SlotCount[r]}
<1>1. 0 \in S
  BY <1>0, PowerDef
<1>2. ASSUME NEW n \in 0..r - 1 - 1, n \in S PROVE n + 1 \in S
  <2>1. r - (n + 1) \in -1..MaxRes - 1 /\ r - (n + 1) + 1 = r - n /\ r - (n + 1) >= 1
        /\ n \in 0..MaxRes /\ n \in 0..MaxRes + 1
    BY <1>0
  <2>2. SlotCount[r - (n + 1)] = Fan * SlotCount[r - n]
    <3>1. Arity(r - (n + 1)) = Fan
      BY <2>1 DEF Arity
    <3>2. SlotCount[r - (n + 1)] = Arity(r - (n + 1)) * SlotCount[r - (n + 1) + 1]
      BY <2>1, SlotCountDef
    <3> QED
      BY <2>1, <3>1, <3>2
  <2>3. Power[n + 1] = Fan * Power[n] /\ Power[n] \in Nat
    BY <2>1, PowerDef
  <2>4. Fan * (Power[n] * SlotCount[r]) = (Fan * Power[n]) * SlotCount[r]
    BY <1>0, <2>3
  <2>5. SlotCount[r - (n + 1)] = Power[n + 1] * SlotCount[r]
    BY <1>2, <2>2, <2>3, <2>4
  <2> QED
    BY <2>5
<1> HIDE DEF S
<1>3. r - 1 \in Int /\ 0 \in Int
  OBVIOUS
<1>4. \A n \in 0..r - 1 : n \in S
  BY <1>1, <1>2, <1>3, Upwards
<1> QED
  BY <1>4 DEF S

LEMMA Cancel == \A n, m \in Nat, a \in Nat \ {0} : n * a = m * a => n = m
  OBVIOUS

LEMMA NumChildrenPower ==
  \A own, r \in Resolutions : own <= r =>
    /\ own >= 1 => NumChildren(own, r) = Power[r - own]
    /\ own = 0 /\ r > 0 => NumChildren(own, r) = Segments * Power[r - 1]
<1> TAKE own, r \in Resolutions
<1> HAVE own <= r
<1>0. /\ own \in Int /\ r \in Int /\ r <= MaxRes /\ MaxRes \in Nat /\ Segments \in Nat
      /\ SlotCount[r] \in Nat \ {0}
  BY TreeAssumption, SlotCountsDivide DEF Resolutions
<1>1. NumChildren(own, r) \in Nat /\ SlotCount[own] = NumChildren(own, r) * SlotCount[r]
  BY NumChildrenType, Zenon
<1>2. ASSUME own >= 1 PROVE NumChildren(own, r) = Power[r - own]
  <2>1. r \in 1..MaxRes /\ r - own \in 0..r - 1 /\ r - (r - own) = own /\ r - own \in 0..MaxRes + 1
    BY <1>0, <1>2
  <2>2. SlotCount[own] = Power[r - own] * SlotCount[r] /\ Power[r - own] \in Nat
    <3>1. SlotCount[r - (r - own)] = Power[r - own] * SlotCount[r]
      BY <2>1, SlotCountPower
    <3> QED
      BY <2>1, <3>1, PowerDef
  <2>3. NumChildren(own, r) * SlotCount[r] = Power[r - own] * SlotCount[r]
    BY <1>1, <2>2
  <2> QED
    BY <1>0, <1>1, <2>2, <2>3, Cancel, Zenon
<1>3. ASSUME own = 0, r > 0 PROVE NumChildren(own, r) = Segments * Power[r - 1]
  <2>1. r \in 1..MaxRes /\ r - 1 \in 0..r - 1 /\ r - (r - 1) = 1 /\ r - 1 \in 0..MaxRes + 1
        /\ 0 \in -1..MaxRes - 1
    BY <1>0, <1>3
  <2>2. SlotCount[1] = Power[r - 1] * SlotCount[r] /\ Power[r - 1] \in Nat
    <3>1. SlotCount[r - (r - 1)] = Power[r - 1] * SlotCount[r]
      BY <2>1, SlotCountPower
    <3> QED
      BY <2>1, <3>1, PowerDef
  <2>3. SlotCount[0] = Segments * SlotCount[1]
    <3>1. SlotCount[0] = Arity(0) * SlotCount[0 + 1]
      BY <2>1, SlotCountDef
    <3> QED
      BY <3>1 DEF Arity
  <2>4. Segments * (Power[r - 1] * SlotCount[r]) = (Segments * Power[r - 1]) * SlotCount[r]
        /\ Segments * Power[r - 1] \in Nat
    BY <1>0, <2>2
  <2>5. NumChildren(own, r) * SlotCount[r] = (Segments * Power[r - 1]) * SlotCount[r]
    BY <1>1, <1>3, <2>2, <2>3, <2>4
  <2> QED
    BY <1>0, <1>1, <2>4, <2>5, Cancel, Zenon
<1> QED
  BY <1>2, <1>3

LEMMA NumChildrenSteps ==
  \A p, q, r \in Resolutions : p <= q /\ q <= r =>
    NumChildren(p, r) = NumChildren(p, q) * NumChildren(q, r)
<1> TAKE p, q, r \in Resolutions
<1> HAVE p <= q /\ q <= r
<1>1. p <= r /\ SlotCount[r] \in Nat \ {0}
  BY TreeAssumption, SlotCountsDivide DEF Resolutions
<1>2. /\ NumChildren(p, r) \in Nat /\ SlotCount[p] = NumChildren(p, r) * SlotCount[r]
      /\ NumChildren(p, q) \in Nat /\ SlotCount[p] = NumChildren(p, q) * SlotCount[q]
      /\ NumChildren(q, r) \in Nat /\ SlotCount[q] = NumChildren(q, r) * SlotCount[r]
  BY <1>1, NumChildrenType, Zenon
<1>3. NumChildren(p, q) * (NumChildren(q, r) * SlotCount[r]) =
      (NumChildren(p, q) * NumChildren(q, r)) * SlotCount[r]
      /\ NumChildren(p, q) * NumChildren(q, r) \in Nat
  BY <1>1, <1>2
<1>4. NumChildren(p, r) * SlotCount[r] = (NumChildren(p, q) * NumChildren(q, r)) * SlotCount[r]
  BY <1>2, <1>3
<1> QED
  BY <1>1, <1>2, <1>3, <1>4, Cancel, Zenon

(* At a finer resolution a covering of cells has as many times more.       *)
LEMMA CountScales ==
  \A v, w \in Seq(Values) :
    LET own == CoveringResolution(v)
        r   == CoveringResolution(w)
    IN  /\ CellsIn(v) = CellsIn(w) /\ own <= r
        /\ \A i \in DOMAIN CellsIn(v) : CellsIn(v)[i].res <= own
        => CountOf(v) \in Nat /\ CountOf(w) = CountOf(v) * NumChildren(own, r)
<1> TAKE v, w \in Seq(Values)
<1> DEFINE own == CoveringResolution(v)
           r   == CoveringResolution(w)
           held == CellsIn(v)
           n == Len(held)
           m == NumChildren(own, r)
           a == Kids(v)
           b == Kids(w)
<1> SUFFICES ASSUME held = CellsIn(w), own <= r, \A i \in DOMAIN held : held[i].res <= own
             PROVE  CountOf(v) \in Nat /\ CountOf(w) = CountOf(v) * m
  OBVIOUS
<1>1. own \in Resolutions /\ r \in Resolutions
  BY ResolutionType
<1>2. n \in Nat /\ DOMAIN held = 1..n /\ \A i \in 1..n : held[i] \in Cells
  BY CellsInType, SeqIsFunction
<1>3. \A i \in 1..n : held[i].res \in Resolutions /\ held[i].res <= own
  BY <1>2, CellType
<1>4. m \in Nat /\ \A i \in 1..n : a[i] \in Nat /\ b[i] = a[i] * m
  <2>1. \A i \in 1..n : a[i] = NumChildren(held[i].res, own) /\ b[i] = NumChildren(held[i].res, r)
    BY DEF Kids
  <2>2. m \in Nat
    BY <1>1, NumChildrenType
  <2>3. ASSUME NEW i \in 1..n PROVE a[i] \in Nat /\ b[i] = a[i] * m
    <3>1. held[i].res \in Resolutions /\ held[i].res <= own
      BY <1>3
    <3> HIDE DEF own, r, held, a, b
    <3>2. NumChildren(held[i].res, own) \in Nat
      BY <1>1, <3>1, NumChildrenType
    <3>3. NumChildren(held[i].res, r) = NumChildren(held[i].res, own) * NumChildren(own, r)
      BY <1>1, <3>1, NumChildrenSteps
    <3> QED
      BY <2>1, <3>2, <3>3
  <2> QED
    BY <2>2, <2>3
<1>5. PICK t : CountOf(v) = t[1..n] /\ AddsUp(n, a, t)
  BY CountTallies
<1>6. PICK u : CountOf(w) = u[1..n] /\ AddsUp(n, b, u)
  BY CountTallies
<1> HIDE DEF own, r, held, n, m, a, b
<1>7. /\ t[{}] = 0 /\ \A k \in 0..n - 1 : t[1..k + 1] = t[1..k] + a[k + 1]
      /\ u[{}] = 0 /\ \A k \in 0..n - 1 : u[1..k + 1] = u[1..k] + b[k + 1]
  BY <1>5, <1>6, Zenon DEF AddsUp
<1> DEFINE S == {k \in Int : t[1..k] \in Nat /\ u[1..k] = t[1..k] * m}
<1>8. 0 \in S
  <2>1. 1..0 = {}
    OBVIOUS
  <2> QED
    BY <1>4, <1>7, <2>1
<1>9. ASSUME NEW k \in 0..n - 1, k \in S PROVE k + 1 \in S
  <2>1. k + 1 \in 1..n /\ k + 1 \in Int
    BY <1>2
  <2>2. t[1..k + 1] = t[1..k] + a[k + 1] /\ u[1..k + 1] = u[1..k] + b[k + 1]
    BY <1>7
  <2>3. a[k + 1] \in Nat /\ b[k + 1] = a[k + 1] * m /\ t[1..k] \in Nat /\ u[1..k] = t[1..k] * m
    BY <1>4, <1>9, <2>1
  <2>4. (t[1..k] + a[k + 1]) * m = t[1..k] * m + a[k + 1] * m
    BY <1>4, <2>3
  <2>5. t[1..k + 1] \in Nat /\ u[1..k + 1] = t[1..k + 1] * m
    BY <2>2, <2>3, <2>4
  <2> QED
    BY <2>1, <2>5
<1> HIDE DEF S
<1>10. n \in S
  <2>1. n \in Int /\ 0 \in Int /\ n \in 0..n
    BY <1>2
  <2> QED
    BY <1>8, <1>9, <2>1, Upwards
<1> QED
  BY <1>5, <1>6, <1>10 DEF S

Wanted(c, r) == IF r = NULL THEN CoveringResolution(c) ELSE r

(* To expand is to expand the stored form of the set at the resolution.    *)
LEMMA UncompactedStored ==
  \A c : \A r \in OptionalResolutions :
    Fine(c) /\ CoveringResolution(c) <= Wanted(c, r) =>
      /\ Wanted(c, r) \in Resolutions /\ Full(SlotsOf(c), Wanted(c, r))
      /\ Uncompacted(c, r) = UncompactValues(ToCovering(SlotsOf(c), Wanted(c, r)))
<1> TAKE c
<1> TAKE r \in OptionalResolutions
<1> DEFINE S == SlotsOf(c)
           own == CoveringResolution(c)
           to == Wanted(c, r)
<1> HAVE Fine(c) /\ own <= to
<1>1. /\ c \in Seq(Values) /\ own \in Resolutions /\ Kept(S, own) /\ Full(S, own)
      /\ c = ToCovering(S, own)
  BY CanonicalFacts DEF Fine
<1>2. to \in Resolutions /\ (r # NULL => to = r /\ r \in 0..MaxRes)
  BY <1>1, TreeAssumption DEF Wanted, OptionalResolutions, Resolutions
<1>3. Full(S, to)
  BY <1>1, <1>2, FullCoarser
<1>4. CASE r = NULL
  <2>1. to = own /\ Uncompacted(c, r) = UncompactValues(c)
    BY <1>4 DEF Wanted, Uncompacted
  <2> QED
    BY <1>1, <1>2, <1>3, <2>1
<1>5. CASE r # NULL
  <2>1. to = r /\ ~(r < own) /\ r >= 0
    <3>1. own \in Int /\ r \in Int
      BY <1>1, <1>2, <1>5, TreeAssumption DEF Resolutions
    <3> QED
      BY <1>2, <1>5, <3>1
  <2>2. Uncompacted(c, r) = UncompactValues(WithMarker(CellsIn(c), r))
    BY <1>5, <2>1 DEF Uncompacted
  <2>3. CellsIn(c) = InCurveOrder(Coarsest(S))
    <3>1. CellsIn(ToCovering(S, own)) = InCurveOrder(Coarsest(S))
      BY <1>1, StoredValuesOf
    <3> QED
      BY <1>1, <3>1
  <2>4. WithMarker(CellsIn(c), r) = ToCovering(S, r)
    BY <2>1, <2>3 DEF ToCovering
  <2> QED
    BY <1>2, <1>3, <2>1, <2>2, <2>4
<1> QED
  BY <1>4, <1>5

(* At a coarser cell's resolution and below, counts scale.                 *)
LEMMA CountOfWanted ==
  \A c : \A to \in Resolutions :
    Fine(c) /\ CoveringResolution(c) <= to =>
      /\ ToCovering(SlotsOf(c), to) \in Seq(Values)
      /\ CountOf(c) \in Nat
      /\ CountOf(ToCovering(SlotsOf(c), to)) =
           CountOf(c) * NumChildren(CoveringResolution(c), to)
<1> TAKE c
<1> TAKE to \in Resolutions
<1> DEFINE S == SlotsOf(c)
           own == CoveringResolution(c)
           v == ToCovering(S, to)
<1> HAVE Fine(c) /\ own <= to
<1>1. /\ c \in Seq(Values) /\ own \in Resolutions /\ Kept(S, own) /\ Full(S, own)
      /\ c = ToCovering(S, own)
  BY CanonicalFacts DEF Fine
<1>2. Full(S, to)
  BY <1>1, FullCoarser
<1>3. Kept(S, to)
  BY <1>2, KeptOfFull
<1>4. v \in Seq(Values) /\ CoveringResolution(v) = to /\ CellsIn(v) = InCurveOrder(Coarsest(S))
  BY <1>2, <1>3, StoredForm, StoredValuesOf
<1>5. CellsIn(c) = InCurveOrder(Coarsest(S)) /\ CellsIn(c) \in Seq(Cells)
  <2>1. CellsIn(ToCovering(S, own)) = InCurveOrder(Coarsest(S))
    BY <1>1, StoredValuesOf
  <2> QED
    BY <1>1, <2>1, CellsInType
<1>6. \A i \in DOMAIN CellsIn(c) : CellsIn(c)[i].res <= own
  <2>1. \A i \in DOMAIN CellsIn(c) : CellsIn(c)[i] \in Coarsest(S)
    <3>1. Apart(Coarsest(S))
      BY <1>1, CoarsestFills
    <3>2. InCurveOrder(Coarsest(S)) \in [1..Cardinality(Coarsest(S)) -> Coarsest(S)]
      BY <3>1, CurveOrder
    <3> QED
      BY <1>5, <3>2
  <2> QED
    BY <1>1, <2>1, CoarsestFills
<1> HIDE DEF v
<1> QED
  BY <1>1, <1>4, <1>5, <1>6, CountScales DEF v

LEMMA CountOfFine == \A c : Fine(c) => CountOf(c) \in Nat
<1> TAKE c
<1> HAVE Fine(c)
<1>1. CoveringResolution(c) \in Resolutions /\ CoveringResolution(c) <= CoveringResolution(c)
  BY CanonicalFacts, TreeAssumption DEF Fine, Resolutions
<1> QED
  BY <1>1, CountOfWanted

LEMMA UncompactedIs ==
  \A c : \A r \in OptionalResolutions :
    Fine(c) /\ CoveringResolution(c) <= Wanted(c, r) /\ WithIds(SlotsOf(c), Wanted(c, r)) =>
      /\ Uncompacted(c, r) \in Seq(Cells) /\ Ascends(Uncompacted(c, r))
      /\ ToSet(Uncompacted(c, r)) = CellsWithin(SlotsOf(c), Wanted(c, r))
      /\ CountOf(c) \in Nat
      /\ Cardinality(CellsWithin(SlotsOf(c), Wanted(c, r))) =
           CountOf(c) * NumChildren(CoveringResolution(c), Wanted(c, r))
<1> TAKE c
<1> TAKE r \in OptionalResolutions
<1> DEFINE S == SlotsOf(c)
           own == CoveringResolution(c)
           to == Wanted(c, r)
           v == ToCovering(S, to)
           expanded == UncompactValues(v)
<1> HAVE Fine(c) /\ own <= to /\ WithIds(S, to)
<1>1. /\ c \in Seq(Values) /\ own \in Resolutions /\ Kept(S, own) /\ Full(S, own)
      /\ c = ToCovering(S, own)
  BY CanonicalFacts DEF Fine
<1>2. to \in Resolutions /\ Full(S, to) /\ Uncompacted(c, r) = expanded
  BY UncompactedStored
<1>3. Kept(S, to)
  BY <1>2, KeptOfFull
<1>4. v \in Seq(Values) /\ CoveringResolution(v) = to /\ CellsIn(v) = InCurveOrder(Coarsest(S))
  BY <1>2, <1>3, StoredForm, StoredValuesOf
<1>6. expanded \in Seq(Cells) /\ Ascends(expanded) /\ ToSet(expanded) = CellsWithin(S, to)
  <2> HIDE DEF v, S, own, to
  <2> QED
    BY <1>1, <1>2, <1>4, UncompactIs
<1>7. CountOf(v) = Len(expanded) /\ Cardinality(CellsWithin(S, to)) = Len(expanded)
  <2>1. CountOf(v) = Len(expanded)
    BY <1>4, CountIsLengthOf
  <2> QED
    BY <1>6, <2>1, AscendingCount
<1>8. CountOf(c) \in Nat /\ CountOf(v) = CountOf(c) * NumChildren(own, to)
  BY <1>2, CountOfWanted
<1> HIDE DEF v, expanded
<1> QED
  BY <1>2, <1>6, <1>7, <1>8

(* The estimate of a5_uncompact() is the count, scaled by the descendants  *)
(* of a cell at the covering's resolution, but for those of the world.     *)
LEMMA EstimateIs ==
  \A c : \A r \in OptionalResolutions :
    LET own == CoveringResolution(c)
        to  == Wanted(c, r)
    IN  Fine(c) /\ own <= to /\ (own >= 0 \/ own = to) =>
          Expected(c, r) = CountOf(c) * NumChildren(own, to)
<1> TAKE c
<1> TAKE r \in OptionalResolutions
<1> DEFINE own == CoveringResolution(c)
           to == Wanted(c, r)
           d == IF r = NULL \/ r < own THEN 0 ELSE r - own
<1> SUFFICES ASSUME Fine(c), own <= to, own >= 0 \/ own = to
             PROVE  Expected(c, r) = CountOf(c) * NumChildren(own, to)
  OBVIOUS
<1>1. own \in Resolutions /\ to \in Resolutions
  BY CanonicalFacts, UncompactedStored DEF Fine
<1>2. MaxRes \in Nat /\ own \in Int /\ own >= -1 /\ to \in Int /\ to <= MaxRes
  BY <1>1, TreeAssumption DEF Resolutions
<1>3. CountOf(c) \in Nat
  BY CountOfFine
<1>4. d = to - own
  BY <1>2 DEF Wanted
<1>5. Expected(c, r) = IF own = 0 /\ d > 0 THEN CountOf(c) * Segments * Power[d - 1]
                       ELSE CountOf(c) * Power[d]
  BY DEF Expected
<1>6. Segments \in Nat /\ \A e \in 0..MaxRes + 1 : Power[e] \in Nat
  BY TreeAssumption, PowerDef
<1> HIDE DEF d, to, own
<1>7. CASE own >= 1
  <2>1. NumChildren(own, to) = Power[to - own]
    BY <1>1, <1>7, NumChildrenPower
  <2> QED
    BY <1>2, <1>4, <1>5, <1>7, <2>1
<1>8. CASE own = 0 /\ to > 0
  <2>1. NumChildren(own, to) = Segments * Power[to - 1]
    BY <1>1, <1>8, NumChildrenPower
  <2>2. Power[to - 1] \in Nat
    BY <1>2, <1>6, <1>8
  <2>3. \A a, b, e \in Nat : (a * b) * e = a * (b * e)
    OBVIOUS
  <2> QED
    BY <1>2, <1>3, <1>4, <1>5, <1>6, <1>8, <2>1, <2>2, <2>3
<1>9. CASE own = to
  <2>1. NumChildren(own, to) = 1 /\ d = 0
    BY <1>1, <1>2, <1>4, <1>9, OneDescendant
  <2> QED
    BY <1>3, <1>5, <1>9, <2>1, PowerDef
<1> QED
  BY <1>2, <1>7, <1>8, <1>9

(* It is the number of cells, where they have ids and the covering is not  *)
(* the world.                                                              *)
LEMMA ExpectedIs ==
  \A c : \A r \in OptionalResolutions :
    Fine(c) /\ CoveringResolution(c) <= Wanted(c, r) /\ Expandable(c, r) =>
      /\ WithIds(SlotsOf(c), Wanted(c, r))
      /\ Expected(c, r) = Cardinality(CellsWithin(SlotsOf(c), Wanted(c, r)))
<1> TAKE c
<1> TAKE r \in OptionalResolutions
<1> DEFINE S == SlotsOf(c)
           own == CoveringResolution(c)
           to == Wanted(c, r)
           d == IF r = NULL \/ r < own THEN 0 ELSE r - own
<1> HAVE Fine(c) /\ own <= to /\ Expandable(c, r)
<1>1. own \in Resolutions /\ to \in Resolutions
  BY CanonicalFacts, UncompactedStored DEF Fine
<1>2. MaxRes \in Nat /\ own \in Int /\ own >= -1 /\ to \in Int /\ to <= MaxRes
  BY <1>1, TreeAssumption DEF Resolutions
<1>3. WithIds(S, to)
  BY DEF Expandable, HaveIds, WithIds, Wanted
<1>4. CountOf(c) \in Nat /\ Cardinality(CellsWithin(S, to)) = CountOf(c) * NumChildren(own, to)
  BY <1>3, UncompactedIs
<1>5. CASE own >= 0 \/ own = to
  BY <1>3, <1>4, <1>5, EstimateIs
<1>6. CASE own = -1 /\ own # to
  <2>1. S = {}
    BY <1>6 DEF Expandable, Wanted
  <2>2. CellsWithin({}, to) = {}
    BY CellType DEF CellsWithin
  <2>3. Cardinality(CellsWithin(S, to)) = 0
    BY <2>1, <2>2, FS_EmptySet
  <2> HIDE DEF S, own, to
  <2>4. NumChildren(own, to) \in Nat /\ NumChildren(own, to) # 0
    BY <1>1, NumChildrenType
  <2>5. CountOf(c) = 0
    <3>1. \A a, b \in Nat : b # 0 /\ a * b = 0 => a = 0
      OBVIOUS
    <3> QED
      BY <1>4, <2>3, <2>4, <3>1
  <2>6. d = to - own
    BY <1>2 DEF Wanted, to, own
  <2>7. Power[d] \in Nat
    BY <1>2, <1>6, <2>6, PowerDef
  <2>8. Expected(c, r) = CountOf(c) * Power[d]
    BY <1>6 DEF Expected, own
  <2> QED
    BY <1>3, <2>3, <2>5, <2>7, <2>8 DEF S, to
<1> QED
  BY <1>2, <1>5, <1>6

(* For any covering with a resolution, the estimate of a5_uncompact() is   *)
(* the number of cells it builds, also where places have no ids            *)
(* (R/compact.R:71-78, covering.rs:219-244).                               *)
THEOREM EstimateIsExact == ASSUME Markedness PROVE Spec => []EstimateExact
<1>1. ASSUME NEW c, Fine(c), NEW r \in 0..MaxRes,
             0 <= CoveringResolution(c), CoveringResolution(c) <= r
      PROVE  Expected(c, r) = Len(Uncompacted(c, r))
  <2> DEFINE own == CoveringResolution(c)
             v == ToCovering(SlotsOf(c), r)
  <2>1. r \in OptionalResolutions /\ r # NULL /\ Wanted(c, r) = r
    <3>1. r \in Resolutions
      BY TreeAssumption DEF Resolutions
    <3> QED
      BY <3>1, ErrorAssumption DEF OptionalResolutions, Wanted
  <2>2. Expected(c, r) = CountOf(c) * NumChildren(own, r)
    BY <1>1, <2>1, EstimateIs
  <2>3. /\ r \in Resolutions /\ Full(SlotsOf(c), r)
        /\ Uncompacted(c, r) = UncompactValues(v)
    BY <1>1, <2>1, UncompactedStored
  <2>4. v \in Seq(Values) /\ CountOf(v) = CountOf(c) * NumChildren(own, r)
    BY <1>1, <2>3, CountOfWanted
  <2> HIDE DEF v
  <2>5. CountOf(v) = Len(UncompactValues(v))
    BY <2>4, CountIsLengthOf
  <2> QED
    BY <2>2, <2>3, <2>4, <2>5
<1>2. FineInv => EstimateExact
  BY <1>1 DEF FineInv, EstimateExact, Coverings
<1> QED
  BY <1>2, FineInvariant, PTL

LEMMA MarkedFacts ==
  \A values \in Seq(Values) : \A r \in 0..MaxRes :
    /\ WithMarker(values, r) \in Seq(Values)
    /\ CoveringResolution(WithMarker(values, r)) = r
    /\ SlotsOf(WithMarker(values, r)) = SlotsOf(values)
<1> TAKE values \in Seq(Values)
<1> TAKE r \in 0..MaxRes
<1> DEFINE v == WithMarker(values, r)
<1>1. Marker(r) \in Markers /\ Marker(r).res = r
  BY DEF Markers, Marker, Cell
<1>2. /\ v \in Seq(Values) /\ v # <<>> /\ Last(v) = Marker(r)
      /\ \A i \in DOMAIN v : v[i] = Marker(r) \/ (i \in DOMAIN values /\ v[i] = values[i])
      /\ \A i \in DOMAIN values : i \in DOMAIN v /\ v[i] = values[i]
  BY <1>1 DEF Values, WithMarker, Last
<1>3. CoveringResolution(v) = r
  BY <1>1, <1>2 DEF CoveringResolution, IsMarked, IsMarker
<1> HIDE DEF v
<1>4. ToSet(v) \ Markers = ToSet(values) \ Markers
  BY <1>1, <1>2 DEF ToSet
<1>5. SlotsOf(v) = SlotsOf(values)
  BY <1>4 DEF SlotsOf
<1> QED
  BY <1>2, <1>3, <1>5 DEF v

LEMMA CompactIs ==
  \A values \in Seq(Values) :
    /\ Canonical(CompactValues(values))
    /\ CoveringResolution(CompactValues(values)) = CoveringResolution(values)
    /\ SlotsOf(CompactValues(values)) = SlotsOf(values)
  BY SlotsKept, ResolutionType, StoredForm, CompactMakes DEF CompactValues

(* A cell vector becomes the covering of its cells at the resolution asked *)
(* for, or the call fails.                                                 *)
LEMMA CellsToCoveringIs ==
  \A values \in Seq(Values) : \A r \in OptionalResolutions :
    IF r # NULL /\ \E c \in ToSet(values) \ Markers : ~(c.res <= r)
    THEN CellsToCovering(values, r) = Bad
    ELSE /\ Canonical(CellsToCovering(values, r))
         /\ CoveringResolution(CellsToCovering(values, r)) =
              IF r = NULL THEN CoveringResolution(values) ELSE r
         /\ SlotsOf(CellsToCovering(values, r)) = SlotsOf(values)
<1> TAKE values \in Seq(Values)
<1> TAKE r \in OptionalResolutions
<1>1. CASE r = NULL
  BY <1>1, CompactIs DEF CellsToCovering
<1>2. CASE r # NULL
  <2>1. r \in 0..MaxRes
    BY <1>2 DEF OptionalResolutions
  <2>2. CheckNotFiner(values, r) <=> \A c \in ToSet(values) \ Markers : c.res <= r
    BY DEF CheckNotFiner, IsMarker, ToSet
  <2>3. /\ CheckNotFiner(values, r) => CellsToCovering(values, r) = CompactValues(WithMarker(values, r))
        /\ ~CheckNotFiner(values, r) => CellsToCovering(values, r) = Bad
    BY <1>2 DEF CellsToCovering
  <2>4. /\ Canonical(CompactValues(WithMarker(values, r)))
        /\ CoveringResolution(CompactValues(WithMarker(values, r))) = r
        /\ SlotsOf(CompactValues(WithMarker(values, r))) = SlotsOf(values)
    BY <2>1, MarkedFacts, CompactIs
  <2> QED
    BY <1>2, <2>2, <2>3, <2>4
<1> QED
  BY <1>1, <1>2

LEMMA GivesBackFine ==
  \A c : Fine(c) /\ HaveIds(c, CoveringResolution(c)) => GivesBack(c)
<1> TAKE c
<1> HAVE Fine(c) /\ HaveIds(c, CoveringResolution(c))
<1> DEFINE S == SlotsOf(c)
           own == CoveringResolution(c)
           expanded == Uncompacted(c, NULL)
           q == IF own = -1 THEN NULL ELSE own
<1>1. /\ c \in Seq(Values) /\ own \in Resolutions /\ own \in Int /\ Full(S, own)
      /\ c = ToCovering(S, own)
  BY CanonicalFacts, TreeAssumption DEF Fine, Resolutions
<1>2. Wanted(c, NULL) = own /\ own <= own /\ WithIds(S, own) /\ NULL \in OptionalResolutions
  BY <1>1 DEF Wanted, WithIds, HaveIds, OptionalResolutions
<1>3. /\ expanded \in Seq(Cells) /\ Ascends(expanded)
      /\ ToSet(expanded) = CellsWithin(S, own)
  BY <1>2, UncompactedIs
<1>4. q \in OptionalResolutions /\ (q = NULL <=> own = -1)
  BY <1>1, TreeAssumption, ErrorAssumption DEF OptionalResolutions, Resolutions
<1> HIDE DEF expanded
<1>5. expanded \in Seq(Values) /\ ~IsMarked(expanded)
  <2>1. expanded # <<>> => Last(expanded) \in Cells
    BY <1>3 DEF Last
  <2> QED
    BY <1>3, <2>1, MarkerNoCell, CellsUnmarked DEF IsMarked, IsMarker
<1>6. SlotsOf(expanded) = S
  <2>1. ToSet(expanded) \ Markers = CellsWithin(S, own)
    BY <1>3, MarkerNoCell DEF CellsWithin
  <2>2. UNION {Under(d) : d \in CellsWithin(S, own)} = S
    BY <1>1, <1>2, WithinFills
  <2> QED
    BY <2>1, <2>2 DEF SlotsOf
<1>7. \A d \in ToSet(expanded) : d.res = own
  BY <1>3 DEF CellsWithin
<1> HIDE DEF S, own
<1>8. IF q = NULL THEN CoveringResolution(expanded) = own ELSE q = own
  <2>1. ASSUME own = -1 PROVE CoveringResolution(expanded) = -1
    <3>1. {expanded[i].res : i \in DOMAIN expanded} \subseteq {-1}
      BY <1>7, <2>1 DEF ToSet
    <3> DEFINE R == {-1} \cup {expanded[i].res : i \in DOMAIN expanded}
    <3>2. R = {-1}
      BY <3>1
    <3>3. Max(R) = -1
      BY <3>2, MaxIs
    <3> QED
      BY <1>5, <3>3 DEF CoveringResolution
  <2> QED
    BY <1>4, <2>1
<1>9. ~(q # NULL /\ \E d \in ToSet(expanded) \ Markers : ~(d.res <= q))
  BY <1>1, <1>7, <1>8
<1>10. CellsToCovering(expanded, q) = c
  <2> DEFINE b == CellsToCovering(expanded, q)
  <2>1. Canonical(b) /\ CoveringResolution(b) = own /\ SlotsOf(b) = S
    BY <1>4, <1>5, <1>6, <1>8, <1>9, CellsToCoveringIs
  <2>2. b = ToCovering(SlotsOf(b), CoveringResolution(b))
    BY <2>1, CanonicalFacts
  <2> QED
    BY <1>1, <2>1, <2>2 
<1> QED
  BY <1>3, <1>10 DEF GivesBack, Ascends, expanded, own

(* Where every place has a cell of the covering's resolution, compacting   *)
(* what uncompacting gives is the covering again (R/compact.R:7-8).        *)
THEOREM RoundTripExact == ASSUME Markedness PROVE Spec => []RoundTripWithIds
<1>1. FineInv => RoundTripWithIds
  BY GivesBackFine DEF FineInv, RoundTripWithIds, Coverings
<1>2. Spec => []FineInv
  BY FineInvariant
<1> QED
  BY <1>1, <1>2, PTL

-----------------------------------------------------------------------------
(* Every step of the session is a step on sets of cells.                   *)

LEMMA Mapped ==
  \A c : Canonical(c) =>
    /\ c # NA /\ c # Bad /\ Region(c) # NA
    /\ Region(c) = [res |-> CoveringResolution(c), set |-> SlotsOf(c)]
    /\ Region(c).res = CoveringResolution(c) /\ Region(c).set = SlotsOf(c)
<1> TAKE c
<1> HAVE Canonical(c)
<1>1. c \in Seq(Values) /\ CoveringResolution(c) \in Resolutions /\ SlotsOf(c) \subseteq Slots
  BY CanonicalFacts DEF Kept, Full
<1>2. c # NA /\ c # Bad
  <2>1. c \in Seq(Cells \cup Markers)
    BY <1>1 DEF Values
  <2>2. Seq(Cells \cup Markers) \subseteq Seq(Cells \cup Markers \cup {NA, Bad})
    OBVIOUS
  <2> QED
    BY <2>1, <2>2, ErrorAssumption
<1>3. Region(c) = [res |-> CoveringResolution(c), set |-> SlotsOf(c)]
  BY <1>2 DEF Region
<1>4. Region(c) \in [res : Resolutions, set : SUBSET Slots]
  BY <1>1, <1>3
<1> QED
  BY <1>2, <1>3, <1>4, ErrorAssumption

LEMMA InitActs == Init => Sets!Init
  BY DEF Init, Sets!Init, Region, Answer

LEMMA InputActs == Input => Sets!Input
<1> SUFFICES ASSUME Input PROVE Sets!Input
  OBVIOUS
<1>1. CASE \E values \in CellInputs : GivesCells("cells", NULL, values)
  <2>1. PICK values \in CellInputs : GivesCells("cells", NULL, values)
    BY <1>1
  <2>2. values # Bad
    <3>1. values \in Seq(Cells \cup {NA})
      BY InputsAssumption
    <3>2. Seq(Cells \cup {NA}) \subseteq Seq(Cells \cup Markers \cup {NA, Bad})
      OBVIOUS
    <3> QED
      BY <3>1, <3>2, ErrorAssumption
  <2> QED
    BY <2>1, <2>2 DEF GivesCells, Answer, Sets!Input, Sets!Calls, Sets!Gives, Region
<1>2. CASE \E values \in RawInputs : GivesCells("raw", NULL, values)
  <2>1. PICK values \in RawInputs : GivesCells("raw", NULL, values)
    BY <1>2
  <2>2. values # Bad
    <3>1. values \in Seq(Cells \cup Markers \cup {Bad})
      BY InputsAssumption
    <3>2. Seq(Cells \cup Markers \cup {Bad}) \subseteq Seq(Cells \cup Markers \cup {NA, Bad})
      OBVIOUS
    <3> QED
      BY <3>1, <3>2, ErrorAssumption
  <2> QED
    BY <2>1, <2>2 DEF GivesCells, Answer, Sets!Input, Sets!Calls, Sets!Gives, Region
<1> QED
  BY <1>1, <1>2 DEF Input

LEMMA DropActs == Drop => Sets!Drop
  BY DEF Drop, Answer, Sets!Drop, Sets!Calls, Sets!Gives, Region

LEMMA LargestIs ==
  \A S : \A m \in S : S \subseteq Int /\ (\A i \in S : i <= m) => Sets!Largest(S) = m
<1> TAKE S
<1> TAKE m \in S
<1> HAVE S \subseteq Int /\ (\A i \in S : i <= m)
<1>1. Sets!Largest(S) \in S /\ \A i \in S : i <= Sets!Largest(S)
  BY DEF Sets!Largest
<1> DEFINE L == Sets!Largest(S)
<1> HIDE DEF L
<1>2. L \in Int /\ m \in Int /\ L <= m /\ m <= L
  BY <1>1 DEF L
<1>3. L = m
  BY <1>2
<1> QED
  BY <1>3 DEF L

(* The finest resolution of cells is the covering's, on both sides.        *)
LEMMA FinestIs ==
  \A S : \A b \in Int : S \subseteq Int /\ S # {} /\ (\A i \in S : i <= b) => Sets!Largest(S) = Max(S)
  BY MaxType, LargestIs

LEMMA CompactedActs ==
  ASSUME NEW name, NEW r, NEW q \in OptionalResolutions, NEW values \in Seq(Values),
         GivesY(name, r, CellsToCovering(values, q)),
         Sets!CellsOf(cells) = ToSet(values) \ Markers,
         q = NULL => \A c \in ToSet(values) \ Markers : c.res <= CoveringResolution(values)
  PROVE  /\ Sets!Calls(name, r) /\ cells' = <<>>
         /\ Sets!Made(IF q = NULL THEN CoveringResolution(values) ELSE q)
<1> DEFINE c == CellsToCovering(values, q)
           R == IF q = NULL THEN CoveringResolution(values) ELSE q
<1>1. Sets!Calls(name, r) /\ cells' = <<>>
  BY DEF GivesY, Fails, Answer, Sets!Calls
<1>2. SlotsOf(values) = Sets!SetOf(cells)
  BY DEF SlotsOf, Sets!SetOf
<1>3. R \in Int /\ \A d \in ToSet(values) \ Markers : d.res \in Int
  <2>1. R \in Resolutions
    BY ResolutionType DEF OptionalResolutions, Resolutions
  <2>2. \A d \in ToSet(values) : d \in Values
    BY DEF ToSet
  <2> QED
    BY <2>1, <2>2, ValueType, TreeAssumption DEF Resolutions
<1>4. CASE \E d \in ToSet(values) \ Markers : ~(d.res <= R)
  <2>1. c = Bad
    BY <1>4, CellsToCoveringIs
  <2>2. ~answer'.ok /\ x' = x /\ y' = y
    BY <2>1 DEF GivesY, Fails, Answer
  <2>3. Sets!Raises
    BY <2>2 DEF Sets!Raises, Region
  <2>4. \E d \in Sets!CellsOf(cells) : d.res > R
    BY <1>3, <1>4
  <2> QED
    BY <1>1, <2>3, <2>4 DEF Sets!Made
<1>5. CASE ~ \E d \in ToSet(values) \ Markers : ~(d.res <= R)
  <2>1. Canonical(c) /\ CoveringResolution(c) = R /\ SlotsOf(c) = SlotsOf(values)
    BY <1>5, CellsToCoveringIs
  <2>2. c # Bad /\ Region(c) = [res |-> R, set |-> SlotsOf(values)]
    BY <2>1, Mapped
  <2> HIDE DEF c
  <2>3. answer'.ok /\ x' = x /\ y' = c
    BY <2>2 DEF GivesY, Answer, c
  <2>4. Region(y)' = Region(c) /\ Region(x)' = Region(x)
    BY <2>3 DEF Region
  <2>5. ~ \E d \in Sets!CellsOf(cells) : d.res > R
    BY <1>3, <1>5
  <2> HIDE DEF R
  <2>6. Sets!Made(R)
    BY <1>2, <2>2, <2>3, <2>4, <2>5 DEF Sets!Made, Sets!Gives, Sets!Region
  <2> QED
    BY <1>1, <2>6 DEF R
<1> QED
  BY <1>4, <1>5

LEMMA CompactActs ==
  ASSUME FineInv, NEW r \in OptionalResolutions, Compact(r) PROVE Sets!Compact(r)
<1> DEFINE values == CollectIds(cells)
<1>1. answer.call # "raw" /\ GivesY("compact", r, CellsToCovering(values, r))
  BY DEF Compact
<1>2. cells \in Seq(Cells \cup {NA})
  BY <1>1 DEF FineInv, IInv, CellsType
<1>3. values \in Seq(Cells) /\ ToSet(values) = ToSet(cells) \ {NA}
  <2>1. values \in Seq((Cells \cup {NA}) \ {NA})
    BY <1>2, WithoutType DEF CollectIds
  <2>2. Seq((Cells \cup {NA}) \ {NA}) \subseteq Seq(Cells)
    OBVIOUS
  <2>3. ToSet(values) = ToSet(cells) \ {NA}
    BY <1>2, WithoutSet DEF CollectIds
  <2> QED
    BY <2>1, <2>2, <2>3
<1> HIDE DEF values
<1>4. values \in Seq(Values) /\ ~IsMarked(values)
  <2>1. values # <<>> => Last(values) \in Cells
    BY <1>3 DEF Last
  <2> QED
    BY <1>3, <2>1, MarkerNoCell, CellsUnmarked DEF IsMarked, IsMarker
<1>5. Sets!CellsOf(cells) = ToSet(values) \ Markers /\ ToSet(values) \ Markers = ToSet(values)
  <2>1. ToSet(values) \subseteq Cells
    BY <1>3 DEF ToSet
  <2>2. ToSet(cells) \subseteq Cells \cup {NA} /\ NA \notin Cells
    BY <1>2, ErrorAssumption DEF ToSet
  <2>3. Sets!CellsOf(cells) = ToSet(cells) \cap Cells
    BY DEF Sets!CellsOf, ToSet
  <2>4. ToSet(values) \cap Markers = {}
    BY <2>1, MarkerNoCell
  <2> QED
    BY <1>3, <2>1, <2>2, <2>3, <2>4
<1>6. \A c \in ToSet(values) : c.res <= CoveringResolution(values)
  BY <1>4, ResolutionType DEF ToSet
<1>7. Sets!FinestOf(cells) = CoveringResolution(values)
  <2> DEFINE R == {-1} \cup {c.res : c \in ToSet(values)}
  <2>1. {-1} \cup {cells[i].res : i \in {j \in DOMAIN cells : cells[j] # NA}} = R
    <3>1. {cells[j] : j \in {i \in DOMAIN cells : cells[i] # NA}} = ToSet(cells) \ {NA}
      BY DEF ToSet
    <3>2. {cells[i].res : i \in {j \in DOMAIN cells : cells[j] # NA}} = {c.res : c \in ToSet(cells) \ {NA}}
      BY <3>1
    <3> QED
      BY <1>3, <3>2
  <2>2. {-1} \cup {values[i].res : i \in DOMAIN values} = R
    BY DEF ToSet
  <2>3. R \subseteq Int /\ R # {} /\ MaxRes \in Int /\ \A i \in R : i <= MaxRes
    BY <1>4, ValueType, TreeAssumption DEF ToSet
  <2>4. Sets!FinestOf(cells) = Sets!Largest(R)
    BY <2>1 DEF Sets!FinestOf
  <2>5. CoveringResolution(values) = Max(R)
    BY <1>4, <2>2 DEF CoveringResolution
  <2> HIDE DEF R
  <2> QED
    BY <2>3, <2>4, <2>5, FinestIs
<1>8. /\ Sets!Calls("compact", r) /\ cells' = <<>>
      /\ Sets!Made(IF r = NULL THEN CoveringResolution(values) ELSE r)
  BY <1>1, <1>4, <1>5, <1>6, CompactedActs
<1> QED
  BY <1>7, <1>8 DEF Sets!Compact

LEMMA NormaliseActs ==
  ASSUME FineInv, NEW r \in OptionalResolutions, Normalise(r) PROVE Sets!Normalise(r)
<1> DEFINE q == IF IsMarked(cells) THEN NULL ELSE r
<1>1. answer.call = "raw" /\ GivesY("normalise", r, Normalised(cells, r)) /\ FineMarker(cells)
  BY DEF Normalise, FineInv
<1>2. cells \in Seq(Values \cup {Bad}) /\ Bad \notin Values /\ NA \notin Values
  BY <1>1, ErrorAssumption DEF FineInv, IInv, CellsType, Values
<1>3. (\E i \in DOMAIN cells : cells[i] = Bad)
        <=> \E i \in DOMAIN cells : ~IsMarker(cells[i]) /\ ~IsCell(cells[i])
  BY <1>2 DEF Values, IsMarker, IsCell
<1>4. Sets!Calls("normalise", r) /\ cells' = <<>>
  BY <1>1 DEF GivesY, Fails, Answer, Sets!Calls
<1>5. CASE \E i \in DOMAIN cells : cells[i] = Bad
  <2>1. Normalised(cells, r) = Bad
    BY <1>3, <1>5 DEF Normalised
  <2>2. ~answer'.ok /\ x' = x /\ y' = y
    BY <1>1, <2>1 DEF GivesY, Fails, Answer
  <2>3. Sets!Raises
    BY <2>2 DEF Sets!Raises, Region
  <2> QED
    BY <1>4, <1>5, <2>3 DEF Sets!Normalise
<1>6. CASE ~ \E i \in DOMAIN cells : cells[i] = Bad
  <2>1. cells \in Seq(Values) /\ Normalised(cells, r) = CellsToCovering(cells, q)
    BY <1>2, <1>3, <1>6 DEF Normalised
  <2>2. q \in OptionalResolutions
    BY DEF OptionalResolutions
  <2>3. Sets!CellsOf(cells) = ToSet(cells) \ Markers
    <3>1. ToSet(cells) \subseteq Cells \cup Markers
      BY <2>1 DEF ToSet, Values
    <3>2. Sets!CellsOf(cells) = ToSet(cells) \cap Cells
      BY DEF Sets!CellsOf, ToSet
    <3> QED
      BY <3>1, <3>2, MarkerNoCell
  <2>4. \A c \in ToSet(cells) \ Markers : c.res <= CoveringResolution(cells)
    <3>1. CASE IsMarked(cells)
      <4>1. CoveringResolution(cells) = Last(cells).res
        BY <3>1 DEF CoveringResolution
      <4>2. \A i \in DOMAIN cells : cells[i] \in Cells => cells[i].res <= Last(cells).res
        BY <1>1, <3>1 DEF FineMarker, IsCell
      <4> QED
        BY <2>1, <4>1, <4>2 DEF ToSet, Values
    <3>2. CASE ~IsMarked(cells)
      BY <2>1, <3>2, ResolutionType DEF ToSet
    <3> QED
      BY <3>1, <3>2
  <2> HIDE DEF q
  <2>5. Sets!Made(IF q = NULL THEN CoveringResolution(cells) ELSE q)
    BY <1>1, <2>1, <2>2, <2>3, <2>4, CompactedActs
  <2>6. IsMarked(cells) <=> cells # <<>> /\ cells[Len(cells)] \in Markers
    BY DEF IsMarked, IsMarker, Last
  <2>7. CASE IsMarked(cells)
    <3>1. CoveringResolution(cells) = cells[Len(cells)].res
      BY <2>7 DEF CoveringResolution, Last
    <3>2. Sets!Made(cells[Len(cells)].res)
      BY <2>5, <2>7, <3>1 DEF q
    <3> QED
      BY <1>4, <1>6, <2>6, <2>7, <3>2 DEF Sets!Normalise
  <2>8. CASE ~IsMarked(cells)
    <3> DEFINE R == {-1} \cup {cells[i].res : i \in DOMAIN cells}
    <3>1. {-1} \cup {cells[i].res : i \in {j \in DOMAIN cells : cells[j] # NA}} = R
      BY <1>2, <2>1
    <3>2. R \subseteq Int /\ R # {} /\ MaxRes \in Int /\ \A i \in R : i <= MaxRes
      BY <2>1, ValueType, TreeAssumption
    <3>3. Sets!FinestOf(cells) = Sets!Largest(R)
      BY <3>1 DEF Sets!FinestOf
    <3>4. CoveringResolution(cells) = Max(R)
      BY <2>8 DEF CoveringResolution
    <3> HIDE DEF R
    <3>5. Sets!FinestOf(cells) = CoveringResolution(cells)
      BY <3>2, <3>3, <3>4, FinestIs
    <3>6. Sets!Made(IF r = NULL THEN Sets!FinestOf(cells) ELSE r)
      BY <2>5, <2>8, <3>5 DEF q
    <3> QED
      BY <1>4, <1>6, <2>6, <2>8, <3>6 DEF Sets!Normalise
  <2> QED
    BY <2>7, <2>8
<1> QED
  BY <1>5, <1>6

(* No cells and no recorded resolution: the empty sequence.                *)
LEMMA UnrecordedIs ==
  \A c : Canonical(c) => (Sets!Unrecorded(Region(c)) <=> c = <<>>)
<1> TAKE c
<1> HAVE Canonical(c)
<1>1. Region(c) = [res |-> CoveringResolution(c), set |-> SlotsOf(c)]
  BY Mapped
<1>2. Sets!Unrecorded(Region(c)) <=> CoveringResolution(c) = -1 /\ SlotsOf(c) = {}
  BY <1>1 DEF Sets!Unrecorded, Sets!Region
<1>5. ToCovering({}, -1) = <<>>
  <2>1. \A S : ToCovering(S, -1) = InCurveOrder(Coarsest(S))
    BY DEF ToCovering
  <2>2. Coarsest({}) = {} /\ InCurveOrder({}) = <<>>
    BY NoCells
  <2>3. InCurveOrder(Coarsest({})) = <<>>
    BY <2>2
  <2> QED
    BY <2>1, <2>3
<1>3. ASSUME CoveringResolution(c) = -1, SlotsOf(c) = {} PROVE c = <<>>
  <2>1. c = ToCovering({}, -1)
    BY <1>3, CanonicalFacts
  <2> QED
    BY <1>5, <2>1
<1>4. ASSUME c = <<>> PROVE CoveringResolution(c) = -1 /\ SlotsOf(c) = {}
  <2>2. Kept({}, -1) /\ -1 \in Resolutions
    BY FullEmpty, TreeAssumption DEF Kept, Resolutions
  <2> QED
    BY <1>4, <1>5, <2>2, StoredForm
<1> QED
  BY <1>2, <1>3, <1>4

LEMMA AdoptResolution ==
  \A c : \A r \in Resolutions : Canonical(c) =>
    CoveringResolution(Adopt(c, r)) = IF c = <<>> THEN r ELSE CoveringResolution(c)
<1> TAKE c
<1> TAKE r \in Resolutions
<1> HAVE Canonical(c)
<1>1. CASE c = <<>> /\ r >= 0
  <2>1. Adopt(c, r) = WithMarker(<<>>, r) /\ r \in 0..MaxRes
    BY <1>1, TreeAssumption DEF Adopt, Resolutions
  <2>2. <<>> \in Seq(Values)
    OBVIOUS
  <2> QED
    BY <1>1, <2>1, <2>2, MarkedFacts
<1>2. CASE c = <<>> /\ ~(r >= 0)
  <2>1. Adopt(c, r) = c /\ r = -1
    BY <1>2, TreeAssumption DEF Adopt, Resolutions
  <2>2. Sets!Unrecorded(Region(c)) /\ Region(c).res = CoveringResolution(c)
    BY <1>2, UnrecordedIs, Mapped
  <2> QED
    BY <1>2, <2>1, <2>2 DEF Sets!Unrecorded, Sets!Region
<1>3. CASE c # <<>>
  BY <1>3 DEF Adopt
<1> QED
  BY <1>1, <1>2, <1>3

(* What combining two coverings gives, as regions.                         *)
LEMMA SetOpIs ==
  \A op \in {"union", "intersect", "difference"} : \A a, b : Canonical(a) /\ Canonical(b) =>
    LET c == SetOp(op, a, b)
    IN  IF CoveringResolution(a) # CoveringResolution(b) /\ a # <<>> /\ b # <<>> THEN c = Bad
        ELSE /\ Canonical(c)
             /\ CoveringResolution(c) = CoveringResolution(IF a = <<>> THEN b ELSE a)
             /\ SlotsOf(c) = SlotOperation(op, SlotsOf(a), SlotsOf(b))
<1> TAKE op \in {"union", "intersect", "difference"}
<1> TAKE a, b
<1> HAVE Canonical(a) /\ Canonical(b)
<1> DEFINE p == Adopt(a, CoveringResolution(b))
           q == Adopt(b, CoveringResolution(a))
           c == SetOp(op, a, b)
<1>1. CoveringResolution(a) \in Resolutions /\ CoveringResolution(b) \in Resolutions
  BY CanonicalFacts
<1>2. /\ Canonical(p) /\ SlotsOf(p) = SlotsOf(a)
      /\ Canonical(q) /\ SlotsOf(q) = SlotsOf(b)
  BY <1>1, AdoptMakes
<1>3. CoveringResolution(p) = IF a = <<>> THEN CoveringResolution(b) ELSE CoveringResolution(a)
  BY <1>1, AdoptResolution
<1>4. CoveringResolution(q) = IF b = <<>> THEN CoveringResolution(a) ELSE CoveringResolution(b)
  BY <1>1, AdoptResolution
<1>5. c = Combined(op, p, q)
  BY Mapped DEF SetOp
<1> HIDE DEF p, q, c
<1>6. CASE CoveringResolution(p) # CoveringResolution(q)
  BY <1>3, <1>4, <1>5, <1>6 DEF Combined, c
<1>7. CASE CoveringResolution(p) = CoveringResolution(q)
  <2>1. Canonical(c) /\ SlotsOf(c) = SlotOperation(op, SlotsOf(a), SlotsOf(b))
    BY <1>2, <1>5, <1>7, CombinedMakes
  <2>2. CoveringResolution(c) = CoveringResolution(p)
    <3> DEFINE r == CoveringResolution(p)
               S == SlotOperation(op, SlotsOf(p), SlotsOf(q))
    <3>1. r \in Resolutions /\ Kept(S, r)
      BY <1>2, <1>7, CanonicalFacts, OperationFull
    <3>2. c = ToCovering(S, r)
      BY <1>5, <1>7 DEF Combined
    <3> HIDE DEF r, S
    <3>3. CoveringResolution(c) = r
      BY <3>1, <3>2, StoredForm
    <3> QED
      BY <3>3 DEF r
  <2>3. ~(CoveringResolution(a) # CoveringResolution(b) /\ a # <<>> /\ b # <<>>)
    BY <1>3, <1>4, <1>7
  <2> QED
    BY <1>3, <2>1, <2>2, <2>3 DEF c
<1> QED
  BY <1>6, <1>7

LEMMA SetOperationActs ==
  ASSUME IInv, NEW op \in {"union", "intersect", "difference"}, SetOperation(op)
  PROVE  Sets!SetOperation(op)
<1> DEFINE c == SetOp(op, x, y)
<1>1. GivesX(op, c)
  BY DEF SetOperation
<1>2. (x = NA \/ Canonical(x)) /\ (y = NA \/ Canonical(y))
  BY DEF IInv
<1>3. Sets!Calls(op, NULL) /\ cells' = cells
  BY <1>1 DEF GivesX, Fails, Answer, Sets!Calls
<1>4. (Region(x) = NA <=> x = NA) /\ (Region(y) = NA <=> y = NA)
  BY <1>2, Mapped DEF Region
<1>5. CASE x = NA \/ y = NA
  <2>1. c = NA /\ NA # Bad
    BY <1>5, ErrorAssumption DEF SetOp
  <2>2. answer'.ok /\ x' = NA /\ y' = y
    BY <1>1, <2>1 DEF GivesX, Answer
  <2>3. Region(x)' = NA /\ Region(y)' = Region(y)
    BY <2>2 DEF Region
  <2> QED
    BY <1>3, <1>4, <1>5, <2>2, <2>3 DEF Sets!SetOperation, Sets!Gives
<1>6. CASE x # NA /\ y # NA
  <2>1. Canonical(x) /\ Canonical(y)
    BY <1>2, <1>6
  <2>2. /\ Region(x).res = CoveringResolution(x) /\ Region(x).set = SlotsOf(x)
        /\ Region(y).res = CoveringResolution(y) /\ Region(y).set = SlotsOf(y)
        /\ Sets!Unrecorded(Region(x)) <=> x = <<>>
        /\ Sets!Unrecorded(Region(y)) <=> y = <<>>
    BY <2>1, Mapped, UnrecordedIs
  <2>3. CASE CoveringResolution(x) # CoveringResolution(y) /\ x # <<>> /\ y # <<>>
    <3>1. c = Bad
      BY <2>1, <2>3, SetOpIs
    <3>2. ~answer'.ok /\ x' = x /\ y' = y
      BY <1>1, <3>1 DEF GivesX, Fails, Answer
    <3>3. Sets!Raises
      BY <3>2 DEF Sets!Raises, Region
    <3> QED
      BY <1>3, <1>4, <1>6, <2>2, <2>3, <3>3 DEF Sets!SetOperation
  <2>4. CASE ~(CoveringResolution(x) # CoveringResolution(y) /\ x # <<>> /\ y # <<>>)
    <3>1. /\ Canonical(c)
          /\ CoveringResolution(c) = CoveringResolution(IF x = <<>> THEN y ELSE x)
          /\ SlotsOf(c) = SlotOperation(op, SlotsOf(x), SlotsOf(y))
      BY <2>1, <2>4, SetOpIs
    <3>2. c # Bad /\ Region(c) = [res |-> CoveringResolution(c), set |-> SlotsOf(c)]
      BY <3>1, Mapped
    <3> HIDE DEF c
    <3>3. answer'.ok /\ x' = c /\ y' = y
      BY <1>1, <3>2 DEF GivesX, Answer
    <3>4. Region(x)' = Region(c) /\ Region(y)' = Region(y)
      BY <3>3 DEF Region
    <3>5. \A S, T : Sets!Operation(op, S, T) = SlotOperation(op, S, T)
      BY DEF Sets!Operation, SlotOperation
    <3>6. Region(x)' = Sets!Region(IF Sets!Unrecorded(Region(x)) THEN Region(y).res ELSE Region(x).res,
                                   Sets!Operation(op, Region(x).set, Region(y).set))
      BY <2>2, <3>1, <3>2, <3>4, <3>5 DEF Sets!Region
    <3> QED
      BY <1>3, <1>4, <1>6, <2>2, <2>4, <3>3, <3>4, <3>6 DEF Sets!SetOperation, Sets!Gives
  <2> QED
    BY <2>3, <2>4
<1> QED
  BY <1>5, <1>6

(* Two coverings are compared as regions are.                              *)
LEMMA OverlapsIs ==
  \A a, b : Canonical(a) /\ Canonical(b) =>
    Overlaps(a, b) =
      IF CoveringResolution(a) # CoveringResolution(b) /\ a # <<>> /\ b # <<>> THEN Bad
      ELSE SlotsOf(a) \cap SlotsOf(b) # {}
<1> TAKE a, b
<1> HAVE Canonical(a) /\ Canonical(b)
<1> DEFINE p == Adopt(a, CoveringResolution(b))
           q == Adopt(b, CoveringResolution(a))
<1>1. CoveringResolution(a) \in Resolutions /\ CoveringResolution(b) \in Resolutions
  BY CanonicalFacts
<1>2. SlotsOf(p) = SlotsOf(a) /\ SlotsOf(q) = SlotsOf(b)
  BY <1>1, AdoptMakes
<1>3. /\ CoveringResolution(p) = IF a = <<>> THEN CoveringResolution(b) ELSE CoveringResolution(a)
      /\ CoveringResolution(q) = IF b = <<>> THEN CoveringResolution(a) ELSE CoveringResolution(b)
  BY <1>1, AdoptResolution
<1>4. Overlaps(a, b) = IF CoveringResolution(p) # CoveringResolution(q) THEN Bad
                       ELSE SlotsOf(p) \cap SlotsOf(q) # {}
  BY DEF Overlaps
<1> HIDE DEF p, q
<1> QED
  BY <1>2, <1>3, <1>4

LEMMA AskOverlapsActs == IInv /\ AskOverlaps => Sets!AskOverlaps
<1> SUFFICES ASSUME IInv, AskOverlaps PROVE Sets!AskOverlaps
  OBVIOUS
<1> DEFINE differ == CoveringResolution(x) # CoveringResolution(y) /\ x # <<>> /\ y # <<>>
           met == SlotsOf(x) \cap SlotsOf(y) # {}
<1>1. Canonical(x) /\ Canonical(y) /\ x # NA /\ y # NA
  BY DEF IInv, AskOverlaps
<1>2. /\ Region(x) # NA /\ Region(y) # NA
      /\ Region(x).res = CoveringResolution(x) /\ Region(x).set = SlotsOf(x)
      /\ Region(y).res = CoveringResolution(y) /\ Region(y).set = SlotsOf(y)
      /\ Sets!Unrecorded(Region(x)) <=> x = <<>>
      /\ Sets!Unrecorded(Region(y)) <=> y = <<>>
  BY <1>1, Mapped, UnrecordedIs
<1>3. Overlaps(x, y) = IF differ THEN Bad ELSE met
  BY <1>1, OverlapsIs
<1>4. x' = x /\ y' = y /\ cells' = cells
  BY DEF AskOverlaps, Fails
<1>5. Region(x)' = Region(x) /\ Region(y)' = Region(y)
  BY <1>4 DEF Region
<1>6. CASE differ
  <2>1. answer' = Answer("overlaps", NULL, FALSE)
    BY <1>3, <1>6 DEF AskOverlaps, Fails
  <2>2. Sets!Calls("overlaps", NULL) /\ Sets!Raises
    BY <1>5, <2>1 DEF Answer, Sets!Calls, Sets!Raises
  <2> QED
    BY <1>2, <1>4, <1>5, <1>6, <2>2 DEF Sets!AskOverlaps
<1>7. CASE ~differ
  <2>1. Overlaps(x, y) # Bad /\ (Overlaps(x, y) <=> met)
    <3>1. met \in BOOLEAN
      OBVIOUS
    <3> HIDE DEF met, differ
    <3>2. Overlaps(x, y) = met
      BY <1>3, <1>7
    <3> QED
      BY <3>1, <3>2, ErrorAssumption
  <2>2. answer' = Answer(IF Overlaps(x, y) THEN "overlaps" ELSE "apart", NULL, TRUE)
    BY <2>1 DEF AskOverlaps
  <2>3. answer' = Answer(IF SlotsOf(x) \cap SlotsOf(y) = {} THEN "apart" ELSE "overlaps", NULL, TRUE)
    BY <2>1, <2>2
  <2>4. /\ Sets!Calls(IF Region(x).set \cap Region(y).set = {} THEN "apart" ELSE "overlaps", NULL)
        /\ Sets!Gives
    BY <1>2, <2>3 DEF Answer, Sets!Calls, Sets!Gives
  <2> QED
    BY <1>2, <1>4, <1>5, <1>7, <2>4 DEF Sets!AskOverlaps
<1> QED
  BY <1>6, <1>7

LEMMA MaxOfOne == \A m \in Int : Max({m}) = m
<1> TAKE m \in Int
<1> DEFINE S == {m}
<1>1. m \in S /\ S \subseteq Int /\ \A i \in S : i <= m
  OBVIOUS
<1> HIDE DEF S
<1>2. Max(S) = m
  BY <1>1, MaxIs
<1> QED
  BY <1>2 DEF S

LEMMA FewLevels ==
  \A L : L \subseteq Resolutions =>
    (Cardinality(L) > 1 <=> \E a, b \in L : a # b)
<1> TAKE L
<1> HAVE L \subseteq Resolutions
<1>1. IsFiniteSet(L) /\ Cardinality(L) \in Nat
  <2>1. IsFiniteSet(-1..MaxRes)
    BY TreeAssumption, FS_Interval
  <2> QED
    BY <2>1, FS_Subset, FS_CardinalityType DEF Resolutions
<1>2. ASSUME NEW a \in L, NEW b \in L, a # b PROVE Cardinality(L) > 1
  <2>1. IsFiniteSet({a}) /\ Cardinality({a}) = 1
    BY FS_Singleton
  <2>2. {a} \subseteq L /\ {a} # L
    BY <1>2
  <2>3. Cardinality({a}) <= Cardinality(L) /\ (Cardinality({a}) = Cardinality(L) => {a} = L)
    BY <1>1, <2>2, FS_Subset
  <2> QED
    BY <1>1, <2>1, <2>2, <2>3
<1>3. ASSUME ~ \E a, b \in L : a # b PROVE ~(Cardinality(L) > 1)
  <2>1. CASE L = {}
    BY <2>1, FS_EmptySet
  <2>2. CASE L # {}
    <3>1. PICK a \in L : L = {a}
      BY <1>3, <2>2
    <3> QED
      BY <3>1, FS_Singleton
  <2> QED
    BY <2>1, <2>2
<1> QED
  BY <1>2, <1>3

LEMMA AllCellsAre ==
  \A T : (\A c \in T : Canonical(c)) => \A coverings \in Seq(T) :
    /\ AllCells(coverings) \in Seq(Cells)
    /\ ToSet(AllCells(coverings)) = UNION {ToSet(c) \ Markers : c \in ToSet(coverings)}
<1> TAKE T
<1> HAVE \A c \in T : Canonical(c)
<1> TAKE coverings \in Seq(T)
<1> DEFINE n == Len(coverings)
           parts == [i \in 1..n |-> CellsIn(coverings[i])]
<1>1. n \in Nat /\ DOMAIN coverings = 1..n /\ \A i \in 1..n : Canonical(coverings[i])
  BY SeqIsFunction
<1>2. \A i \in 1..n : CellsIn(coverings[i]) \in Seq(Cells)
                     /\ ToSet(CellsIn(coverings[i])) = ToSet(coverings[i]) \ Markers
  <2> TAKE i \in 1..n
  <2>1. coverings[i] \in Seq(Values)
    BY <1>1, CanonicalFacts
  <2> QED
    BY <2>1, CellsInType, WithoutSet DEF CellsIn
<1>3. parts \in [1..n -> Seq(Cells)]
  BY <1>2
<1>4. parts \in Seq(Seq(Cells)) /\ DOMAIN parts = 1..n
  BY <1>1, <1>3, FunctionIsSeq
<1>5. AllCells(coverings) = FlattenSeq(parts)
  BY <1>1 DEF AllCells
<1>6. ToSet(FlattenSeq(parts)) = UNION {ToSet(parts[i]) : i \in 1..n}
  BY <1>4, FlattenedSet
<1>7. \A i \in 1..n : ToSet(parts[i]) = ToSet(coverings[i]) \ Markers
  BY <1>2
<1>8. AllCells(coverings) \in Seq(Cells)
  BY <1>4, <1>5, FlattenType
<1> HIDE DEF parts, n
<1>9. UNION {ToSet(parts[i]) : i \in 1..n} = UNION {ToSet(c) \ Markers : c \in ToSet(coverings)}
  <2>1. {ToSet(parts[i]) : i \in 1..n} = {ToSet(coverings[i]) \ Markers : i \in 1..n}
    BY <1>7
  <2>2. ToSet(coverings) = {coverings[i] : i \in 1..n}
    BY <1>1 DEF ToSet
  <2>3. {ToSet(coverings[i]) \ Markers : i \in 1..n} = {ToSet(c) \ Markers : c \in ToSet(coverings)}
    BY <2>2
  <2> QED
    BY <2>1, <2>3
<1> QED
  BY <1>5, <1>6, <1>8, <1>9

(* What the union of coverings gives, as a region.                         *)
LEMMA UnionOfIs ==
  \A T : (\A c \in T : Canonical(c)) => \A coverings \in Seq(T) :
    LET u == UnionOf(coverings)
    IN  IF \E a, b \in Levels(coverings) : a # b THEN u = Bad
        ELSE /\ Canonical(u)
             /\ SlotsOf(u) = UNION {SlotsOf(c) : c \in ToSet(coverings)}
             /\ CoveringResolution(u) = Max({-1} \cup Levels(coverings))
<1> TAKE T
<1> HAVE \A c \in T : Canonical(c)
<1> TAKE coverings \in Seq(T)
<1> DEFINE L == Levels(coverings)
           all == AllCells(coverings)
           u == UnionOf(coverings)
<1>1. \A i \in DOMAIN coverings : Canonical(coverings[i])
  BY SeqIsFunction
<1>2. L \subseteq Resolutions /\ (\A a \in L : a \in Int /\ -1 <= a /\ a <= MaxRes)
  <2>1. L \subseteq Resolutions
    BY <1>1, CanonicalFacts DEF Levels
  <2> QED
    BY <2>1, TreeAssumption DEF Resolutions
<1>3. Cardinality(L) > 1 <=> \E a, b \in L : a # b
  BY <1>2, FewLevels
<1>4. u = IF Cardinality(L) > 1 THEN Bad
          ELSE IF L \subseteq {-1} THEN CompactValues(all)
          ELSE CompactValues(WithMarker(all, Max(L)))
  BY DEF UnionOf, Levels, AllCells
<1>5. /\ all \in Seq(Cells) /\ all \in Seq(Values)
      /\ ToSet(all) = UNION {ToSet(c) \ Markers : c \in ToSet(coverings)}
  BY AllCellsAre, CellsUnmarked
<1>6. SlotsOf(all) = UNION {SlotsOf(c) : c \in ToSet(coverings)}
  <2>1. ToSet(all) \ Markers = ToSet(all)
    BY <1>5
  <2> QED
    BY <1>5, <2>1 DEF SlotsOf
<1> SUFFICES ASSUME ~ \E a, b \in L : a # b
             PROVE  /\ Canonical(u) /\ SlotsOf(u) = SlotsOf(all)
                    /\ CoveringResolution(u) = Max({-1} \cup L)
  BY <1>3, <1>4, <1>6
<1>7. CASE L \subseteq {-1}
  <2>1. u = CompactValues(all)
    BY <1>3, <1>4, <1>7
  <2>2. CoveringResolution(all) = -1
    <3>1. \A d \in ToSet(all) : d.res = -1
      <4> TAKE d \in ToSet(all)
      <4>1. PICK c \in ToSet(coverings) : d \in ToSet(c)
        BY <1>5
      <4>2. PICK i \in DOMAIN coverings : c = coverings[i]
        BY <4>1 DEF ToSet
      <4>3. c \in Seq(Values) /\ c # <<>>
        BY <1>1, <4>1, <4>2, CanonicalFacts DEF ToSet
      <4>4. CoveringResolution(c) = -1
        BY <1>7, <4>2, <4>3 DEF Levels
      <4>5. d \in Values /\ d.res <= -1
        BY <4>1, <4>3, <4>4, ResolutionType DEF ToSet
      <4> QED
        BY <4>5, ValueType
    <3> DEFINE R == {-1} \cup {all[i].res : i \in DOMAIN all}
    <3>2. R = {-1}
      BY <3>1 DEF ToSet
    <3>3. Max(R) = -1
      BY <3>2, MaxOfOne
    <3>4. ~IsMarked(all)
      <4>1. all # <<>> => Last(all) \in Cells
        BY <1>5 DEF Last
      <4> QED
        BY <4>1, MarkerNoCell DEF IsMarked, IsMarker
    <3> QED
      BY <3>3, <3>4 DEF CoveringResolution
  <2>3. Max({-1} \cup L) = -1
    <3>1. {-1} \cup L = {-1}
      BY <1>7
    <3>2. Max({-1}) = -1
      BY MaxOfOne
    <3> QED
      BY <3>1, <3>2
  <2> HIDE DEF all, u, L
  <2> QED
    BY <1>5, <2>1, <2>2, <2>3, CompactIs
<1>8. CASE ~(L \subseteq {-1})
  <2>1. u = CompactValues(WithMarker(all, Max(L)))
    BY <1>3, <1>4, <1>8
  <2>2. PICK m \in L : L = {m} /\ m # -1
    BY <1>8
  <2>3. m \in Int /\ m \in 0..MaxRes
    BY <1>2, <2>2, TreeAssumption
  <2> HIDE DEF L
  <2>4. Max(L) = m
    BY <2>2, <2>3, MaxOfOne
  <2>5. Max({-1} \cup L) = m
    <3> DEFINE M == {-1} \cup L
    <3>1. m \in M /\ M \subseteq Int /\ \A i \in M : i <= m
      BY <2>2, <2>3
    <3> HIDE DEF M
    <3>2. Max(M) = m
      BY <3>1, MaxIs
    <3> QED
      BY <3>2 DEF M
  <2> HIDE DEF all, u
  <2>6. /\ WithMarker(all, m) \in Seq(Values) /\ CoveringResolution(WithMarker(all, m)) = m
        /\ SlotsOf(WithMarker(all, m)) = SlotsOf(all)
    BY <1>5, <2>3, MarkedFacts
  <2> QED
    BY <2>1, <2>4, <2>5, <2>6, CompactIs
<1> QED
  BY <1>7, <1>8

LEMMA UnionAllActs == IInv /\ UnionAll => Sets!UnionAll
<1> SUFFICES ASSUME IInv, UnionAll PROVE Sets!UnionAll
  OBVIOUS
<1> DEFINE held == {x, y} \ {NA}
           coverings == Without(<<x, y>>, {NA})
           c == UnionOf(coverings)
           L == Levels(coverings)
           present == {Region(x), Region(y)} \ {NA}
           recorded == {a \in present : ~Sets!Unrecorded(a)}
<1>1. GivesX("union_all", c)
  BY DEF UnionAll
<1>2. \A v \in held : Canonical(v)
  BY DEF IInv
<1>3. coverings \in Seq(held) /\ ToSet(coverings) = held
  <2>1. <<x, y>> \in Seq({x, y}) /\ ToSet(<<x, y>>) = {x, y}
    BY DEF ToSet
  <2> QED
    BY <2>1, WithoutType, WithoutSet
<1>4. Sets!Calls("union_all", NULL) /\ cells' = cells
  BY <1>1 DEF GivesX, Fails, Answer, Sets!Calls
<1>5. present = {Region(v) : v \in held}
  <2>1. \A v \in held : Region(v) # NA
    BY <1>2, Mapped
  <2>2. (x = NA => Region(x) = NA) /\ (y = NA => Region(y) = NA)
    BY DEF Region
  <2> QED
    BY <2>1, <2>2
<1> HIDE DEF coverings
<1>6. L = {CoveringResolution(v) : v \in held \ {<<>>}}
  BY <1>3 DEF Levels, ToSet
<1>7. \A v \in held : /\ Region(v).res = CoveringResolution(v) /\ Region(v).set = SlotsOf(v)
                      /\ Sets!Unrecorded(Region(v)) <=> v = <<>>
  BY <1>2, Mapped, UnrecordedIs
<1> HIDE DEF held, c, L, present
<1>8. {a.res : a \in recorded} = L /\ {a.set : a \in present} = {SlotsOf(v) : v \in held}
  <2>1. ASSUME NEW a \in recorded PROVE a.res \in L
    <3>1. PICK v \in held : a = Region(v)
      BY <1>5, <2>1
    <3>2. v # <<>> /\ a.res = CoveringResolution(v)
      BY <1>7, <2>1, <3>1
    <3> QED
      BY <1>6, <3>1, <3>2
  <2>2. ASSUME NEW v \in held, v # <<>> PROVE \E a \in recorded : a.res = CoveringResolution(v)
    <3>1. Region(v) \in present /\ ~Sets!Unrecorded(Region(v)) /\ Region(v).res = CoveringResolution(v)
      BY <1>5, <1>7, <2>2
    <3> QED
      BY <3>1
  <2>3. {a.res : a \in recorded} = L
    <3> HIDE DEF recorded
    <3> QED
      BY <1>6, <2>1, <2>2
  <2>4. {a.set : a \in present} = {SlotsOf(v) : v \in held}
    BY <1>5, <1>7
  <2> QED
    BY <2>3, <2>4
<1> HIDE DEF recorded
<1>9. (\E a, b \in recorded : a.res # b.res) <=> \E a, b \in L : a # b
  BY <1>8
<1>10. IF \E a, b \in L : a # b THEN c = Bad
       ELSE /\ Canonical(c)
            /\ SlotsOf(c) = UNION {SlotsOf(v) : v \in held}
            /\ CoveringResolution(c) = Max({-1} \cup L)
  <2>1. \A v \in held : Canonical(v)
    BY <1>2
  <2>2. IF \E a, b \in Levels(coverings) : a # b THEN UnionOf(coverings) = Bad
        ELSE /\ Canonical(UnionOf(coverings))
             /\ SlotsOf(UnionOf(coverings)) = UNION {SlotsOf(v) : v \in ToSet(coverings)}
             /\ CoveringResolution(UnionOf(coverings)) = Max({-1} \cup Levels(coverings))
    BY <1>3, <2>1, UnionOfIs
  <2> QED
    BY <1>3, <2>2 DEF c, L
<1>11. Max({-1} \cup L) = Sets!Largest({-1} \cup L)
  <2>1. \A v \in held : CoveringResolution(v) \in Resolutions
    BY <1>2, CanonicalFacts
  <2>2. \A i \in L : i \in Int /\ i <= MaxRes
    BY <1>6, <2>1, TreeAssumption DEF Resolutions
  <2> DEFINE M == {-1} \cup L
  <2>3. M \subseteq Int /\ M # {} /\ MaxRes \in Int /\ \A i \in M : i <= MaxRes
    BY <2>2, TreeAssumption
  <2> HIDE DEF M
  <2>4. Sets!Largest(M) = Max(M)
    BY <2>3, FinestIs
  <2> QED
    BY <2>4 DEF M
<1>12. CASE \E a, b \in recorded : a.res # b.res
  <2>1. c = Bad
    BY <1>9, <1>10, <1>12
  <2>2. ~answer'.ok /\ x' = x /\ y' = y
    BY <1>1, <2>1 DEF GivesX, Fails, Answer
  <2>3. Sets!Raises
    BY <2>2 DEF Sets!Raises, Region
  <2> QED
    BY <1>4, <1>12, <2>3 DEF Sets!UnionAll, present, recorded
<1>13. CASE ~ \E a, b \in recorded : a.res # b.res
  <2>1. Canonical(c)
    BY <1>9, <1>10, <1>13
  <2>2. c # Bad /\ Region(c) = [res |-> CoveringResolution(c), set |-> SlotsOf(c)]
    BY <2>1, Mapped
  <2>3. answer'.ok /\ x' = c /\ y' = y
    BY <1>1, <2>2 DEF GivesX, Answer
  <2>4. Region(x)' = Region(c) /\ Region(y)' = Region(y)
    BY <2>3 DEF Region
  <2>5. Region(x)' = Sets!Region(Sets!Largest({-1} \cup {a.res : a \in recorded}),
                                 UNION {a.set : a \in present})
    BY <1>8, <1>9, <1>10, <1>11, <1>13, <2>2, <2>4 DEF Sets!Region
  <2> QED
    BY <1>4, <1>13, <2>3, <2>4, <2>5 DEF Sets!UnionAll, Sets!Gives, present, recorded
<1> QED
  BY <1>12, <1>13

(* Both modules take Cardinality from FiniteSets.                           *)
LEMMA SameCardinality == \A T : Sets!Cardinality(T) = Cardinality(T)
  BY DEF Sets!Cardinality, Cardinality, Sets!IsFiniteSet, IsFiniteSet

LEMMA UncompactActs ==
  ASSUME FineInv, NEW r \in OptionalResolutions, Uncompact(r), x # NA => Expandable(x, r)
  PROVE  Sets!Uncompact(r)
<1> DEFINE values == IF x = NA THEN <<>> ELSE IF Expected(x, r) > MaxCells THEN Bad ELSE Uncompacted(x, r)
           to == Wanted(x, r)
           S == SlotsOf(x)
           own == CoveringResolution(x)
           level == IF r = NULL THEN Region(x).res ELSE r
           within == {c \in Cells : c.res = level /\ Under(c) \subseteq Region(x).set}
<1>0. Sets!Uncompact(r) <=>
        /\ Sets!Calls("uncompact", r)
        /\ IF Region(x) # NA /\ (level < Region(x).res \/ Cardinality(within) > MaxCells)
           THEN Sets!Raises /\ UNCHANGED cells
           ELSE /\ Sets!Gives /\ UNCHANGED <<Region(x), Region(y)>>
                /\ Sets!CellsOf(cells') = IF Region(x) = NA THEN {} ELSE within
                /\ Sets!InOrder(cells')
  BY SameCardinality, Zenon DEF Sets!Uncompact
<1>1. GivesCells("uncompact", r, values)
  BY DEF Uncompact
<1>2. Sets!Calls("uncompact", r) /\ Region(x)' = Region(x) /\ Region(y)' = Region(y)
  <2>1. x' = x /\ y' = y
    BY <1>1 DEF GivesCells, Fails
  <2> QED
    BY <1>1, <2>1 DEF GivesCells, Fails, Answer, Sets!Calls, Region
<1>3. x = NA \/ Fine(x)
  BY DEF FineInv
<1>4. CASE x = NA
  <2>1. values = <<>> /\ Region(x) = NA
    BY <1>4 DEF Region
  <2>2. <<>> # Bad
    <3>1. <<>> \in Seq(Cells \cup Markers \cup {NA, Bad})
      OBVIOUS
    <3> QED
      BY <3>1, ErrorAssumption
  <2>3. cells' = <<>> /\ answer'.ok
    BY <1>1, <2>1, <2>2 DEF GivesCells, Answer
  <2>4. Sets!CellsOf(cells') = {} /\ Sets!InOrder(cells')
    <3>1. DOMAIN <<>> = {}
      OBVIOUS
    <3> QED
      BY <2>3, <3>1 DEF Sets!CellsOf, Sets!InOrder
  <2> QED
    BY <1>2, <2>1, <2>3, <2>4 DEF Sets!Uncompact, Sets!Gives
<1>5. CASE x # NA
  <2>1. Fine(x) /\ Canonical(x) /\ Expandable(x, r)
    BY <1>3, <1>5 DEF Fine
  <2>2. Region(x) # NA /\ Region(x).res = own /\ Region(x).set = S
    BY <2>1, Mapped
  <2>3. to = level /\ within = CellsWithin(S, to)
    BY <2>2 DEF Wanted, CellsWithin
  <2>4. own \in Int /\ to \in Int /\ MaxCells \in Int
    <3>1. own \in Resolutions
      BY <2>1, CanonicalFacts
    <3> QED
      BY <3>1, TreeAssumption, InputsAssumption DEF Wanted, OptionalResolutions, Resolutions
  <2>5. CASE to < own
    <3>1. values = Bad
      <4>1. r # NULL /\ to = r
        BY <2>4, <2>5 DEF Wanted
      <4> QED
        BY <1>5, <2>5, <4>1 DEF Uncompacted
    <3>2. ~answer'.ok /\ cells' = cells
      BY <1>1, <3>1 DEF GivesCells, Fails, Answer
    <3> QED
      BY <1>2, <2>2, <2>3, <2>5, <3>2 DEF Sets!Uncompact, Sets!Raises
  <2>6. CASE ~(to < own)
    <3>1. own <= to
      BY <2>4, <2>6
    <3>2. WithIds(S, to) /\ Expected(x, r) = Cardinality(CellsWithin(S, to))
      BY <2>1, <3>1, ExpectedIs
    <3>3. /\ Uncompacted(x, r) \in Seq(Cells) /\ Ascends(Uncompacted(x, r))
          /\ ToSet(Uncompacted(x, r)) = CellsWithin(S, to)
      BY <2>1, <3>1, <3>2, UncompactedIs
    <3>4. to \in Resolutions
      BY <2>1, <3>1, UncompactedStored
    <3> HIDE DEF within, to, S, own, level
    <3>5. CASE Cardinality(within) > MaxCells
      <4>1. values = Bad
        BY <1>5, <2>3, <3>2, <3>5
      <4>2. ~answer'.ok /\ cells' = cells
        BY <1>1, <4>1 DEF GivesCells, Fails, Answer
      <4> QED
        BY <1>0, <1>2, <2>2, <3>5, <4>2 DEF Sets!Raises
    <3>6. CASE ~(Cardinality(within) > MaxCells)
      <4>1. values = Uncompacted(x, r)
        BY <1>5, <2>3, <3>2, <3>6
      <4>2. Uncompacted(x, r) # Bad
        <5>1. Seq(Cells) \subseteq Seq(Cells \cup Markers \cup {NA, Bad})
          OBVIOUS
        <5> QED
          BY <3>3, <5>1, ErrorAssumption
      <4>3. cells' = Uncompacted(x, r) /\ answer'.ok
        BY <1>1, <4>1, <4>2 DEF GivesCells, Answer
      <4>4. Sets!CellsOf(Uncompacted(x, r)) = within
        BY <2>3, <3>3 DEF Sets!CellsOf, ToSet, CellsWithin
      <4>5. Sets!InOrder(Uncompacted(x, r))
        <5>1. \A i, j \in DOMAIN Uncompacted(x, r) : i < j =>
                \A s \in Under(Uncompacted(x, r)[i]), t \in Under(Uncompacted(x, r)[j]) : s < t
          BY <3>3, <3>4, AscendingApart
        <5> QED
          BY <5>1 DEF Sets!InOrder
      <4>6. Sets!CellsOf(cells') = within /\ Sets!InOrder(cells')
        BY <4>3, <4>4, <4>5
      <4>7. ~(Region(x) # NA /\ (to < Region(x).res \/ Cardinality(within) > MaxCells))
        BY <2>2, <2>6, <3>6
      <4>8. Sets!Gives
        BY <4>3 DEF Sets!Gives
      <4> QED
        BY <1>0, <1>2, <2>2, <2>3, <4>6, <4>7, <4>8
    <3> QED
      BY <3>5, <3>6
  <2> QED
    BY <2>5, <2>6
<1> QED
  BY <1>4, <1>5

LEMMA StoredActs == FineInv /\ Stored => Sets!Stored
<1> SUFFICES ASSUME FineInv, Stored PROVE Sets!Stored
  OBVIOUS
<1> DEFINE values == IF x = NA THEN <<>> ELSE StoredCells(x)
<1>1. GivesCells("stored", NULL, values)
  BY DEF Stored
<1>2. x = NA \/ Fine(x)
  BY DEF FineInv
<1>3. values \in Seq(Cells) /\ values # Bad
  <2>1. values \in Seq(Cells)
    BY <1>2, EmptyVector, CellsOfFine DEF StoredCells, Fine
  <2>2. Seq(Cells) \subseteq Seq(Cells \cup Markers \cup {NA, Bad})
    OBVIOUS
  <2> QED
    BY <2>1, <2>2, ErrorAssumption
<1>4. /\ cells' = values /\ answer'.ok /\ Sets!Calls("stored", NULL)
      /\ Region(x)' = Region(x) /\ Region(y)' = Region(y)
  <2>1. x' = x /\ y' = y
    BY <1>1 DEF GivesCells, Fails
  <2> QED
    BY <1>1, <1>3, <2>1 DEF GivesCells, Answer, Sets!Calls, Region
<1>5. CASE x = NA
  <2>1. values = <<>> /\ Region(x) = NA
    BY <1>5 DEF Region
  <2>2. Sets!SetOf(<<>>) = {} /\ Sets!InOrder(<<>>)
    <3>1. DOMAIN <<>> = {}
      OBVIOUS
    <3> QED
      BY <3>1 DEF Sets!SetOf, Sets!CellsOf, Sets!InOrder
  <2>3. Sets!SetOf(cells') = {} /\ Sets!InOrder(cells')
    BY <1>4, <2>1, <2>2
  <2> QED
    BY <1>4, <2>1, <2>3 DEF Sets!Stored, Sets!Gives
<1>6. CASE x # NA
  <2> DEFINE S == SlotsOf(x)
             C == Coarsest(S)
             held == InCurveOrder(C)
             n == Cardinality(C)
  <2>1. Fine(x) /\ Canonical(x) /\ values = CellsIn(x)
    BY <1>2, <1>6 DEF Fine, StoredCells
  <2>2. Region(x) # NA /\ Region(x).set = S
    BY <2>1, Mapped
  <2>3. x \in Seq(Values) /\ ToSet(CellsIn(x)) = ToSet(x) \ Markers
    BY <2>1, CanonicalFacts, WithoutSet DEF CellsIn
  <2>4. Sets!SetOf(values) = S
    <3>1. Sets!CellsOf(values) = ToSet(x) \ Markers
      <4>1. ToSet(values) \subseteq Cells
        BY <1>3 DEF ToSet
      <4> QED
        BY <2>1, <2>3, <4>1 DEF Sets!CellsOf, ToSet
    <3> QED
      BY <3>1 DEF Sets!SetOf, SlotsOf
  <2>5. values = held /\ Apart(C)
    <3>1. CoveringResolution(x) \in Resolutions /\ Kept(S, CoveringResolution(x))
          /\ x = ToCovering(S, CoveringResolution(x)) /\ Full(S, CoveringResolution(x))
      BY <2>1, CanonicalFacts DEF Fine
    <3>2. CellsIn(ToCovering(S, CoveringResolution(x))) = held
      BY <3>1, StoredValuesOf
    <3> QED
      BY <2>1, <3>1, <3>2, CoarsestFills
  <2>6. /\ n \in Nat /\ held \in [1..n -> C]
        /\ \A i, j \in 1..n : i < j => held[i].slot + SlotCount[held[i].res] <= held[j].slot
    BY <2>5, CurveOrder
  <2>7. \A i \in 1..n : held[i].slot \in Nat /\ SlotCount[held[i].res] \in Nat
    <3> TAKE i \in 1..n
    <3>1. held[i] \in Cells
      BY <2>5, <2>6 DEF Apart
    <3> HIDE DEF held
    <3>2. held[i].res \in Resolutions /\ held[i].slot \in Nat
      BY <3>1, CellType, CellNumbers
    <3> QED
      BY <3>2, SlotCountsDivide
  <2> HIDE DEF held, n, C, S
  <2>8. Sets!InOrder(held)
    <3> SUFFICES ASSUME NEW i \in 1..n, NEW j \in 1..n, i < j,
                        NEW s \in Under(held[i]), NEW t \in Under(held[j])
                 PROVE  s < t
      BY <2>6 DEF Sets!InOrder
    <3>1. held[i].slot + SlotCount[held[i].res] <= held[j].slot
      BY <2>6
    <3>2. /\ s \in held[i].slot..held[i].slot + SlotCount[held[i].res] - 1
          /\ t \in held[j].slot..held[j].slot + SlotCount[held[j].res] - 1
      BY DEF Under
    <3>3. \A u, w, m, m1, p, q \in Nat :
            p \in u..u + m - 1 /\ q \in w..w + m1 - 1 /\ u + m <= w => p < q
      OBVIOUS
    <3>4. /\ held[i].slot \in Nat /\ SlotCount[held[i].res] \in Nat
          /\ held[j].slot \in Nat /\ SlotCount[held[j].res] \in Nat
      BY <2>7
    <3>5. s \in Nat /\ t \in Nat
      BY <3>2, <3>4
    <3> QED
      BY <3>1, <3>2, <3>3, <3>4, <3>5
  <2>9. Sets!SetOf(cells') = S /\ Sets!InOrder(cells')
    BY <1>4, <2>4, <2>5, <2>8
  <2> QED
    BY <1>4, <2>2, <2>9 DEF Sets!Stored, Sets!Gives
<1> QED
  BY <1>5, <1>6

(* Every step of a session, an expansion only of the kind that gives ids,  *)
(* is a step on sets.                                                      *)
LEMMA NextActs ==
  ASSUME FineInv, [Next]_vars, answer'.call = "uncompact" /\ x # NA => Expandable(x, answer'.at)
  PROVE  [Sets!Next]_(Sets!setVars)
<1>1. CASE Input
  BY <1>1, InputActs DEF Sets!Next
<1>2. CASE Drop
  BY <1>2, DropActs DEF Sets!Next
<1>3. ASSUME NEW r \in OptionalResolutions, Compact(r) \/ Normalise(r) \/ Uncompact(r)
      PROVE  Sets!Next
  <2>1. Uncompact(r) => answer'.call = "uncompact" /\ answer'.at = r
    BY DEF Uncompact, GivesCells, Fails, Answer
  <2>2. Sets!Compact(r) \/ Sets!Normalise(r) \/ Sets!Uncompact(r)
    BY <1>3, <2>1, CompactActs, NormaliseActs, UncompactActs
  <2> QED
    BY <1>3, <2>2 DEF Sets!Next, OptionalResolutions
<1>4. ASSUME NEW op \in {"union", "intersect", "difference"}, SetOperation(op)
      PROVE  Sets!Next
  <2>1. Sets!SetOperation(op)
    BY <1>4, SetOperationActs DEF FineInv
  <2> QED
    BY <2>1 DEF Sets!Next
<1>5. CASE UnionAll
  BY <1>5, UnionAllActs DEF Sets!Next, FineInv
<1>6. CASE Stored
  BY <1>6, StoredActs DEF Sets!Next
<1>7. CASE AskOverlaps
  BY <1>7, AskOverlapsActs DEF Sets!Next, FineInv
<1>8. CASE UNCHANGED vars
  BY <1>8 DEF vars, Sets!setVars, Region
<1> QED
  BY <1>1, <1>2, <1>3, <1>4, <1>5, <1>6, <1>7, <1>8 DEF Next

(* The session with coverings implements the one on sets of cells, step by *)
(* step and errors included, except that an expansion promises nothing     *)
(* where cells have no ids or a5_uncompact() misjudges their number        *)
(* (covering.rs, R/compact.R:71-78).                                       *)
THEOREM ActsLikeSets == ASSUME Markedness PROVE Spec => StepsOnSets
<1>1. Init => Sets!Init
  BY InitActs
<1>2. FineInv /\ [Next]_vars =>
        ((answer'.call = "uncompact" /\ x # NA => Expandable(x, answer'.at))
           => [Sets!Next]_(Sets!setVars))
  BY NextActs
<1>3. Spec => []FineInv
  BY FineInvariant
<1>4. Spec => Sets!Init
  BY <1>1, PTL DEF Spec
<1> QED
  BY <1>2, <1>3, <1>4, PTL DEF Spec, StepsOnSets
=============================================================================
