------------------------------ MODULE CellTree ------------------------------
(***************************************************************************)
(* The values of a covering, and what the a5 crate does with them, as the  *)
(* package uses it (covering.rs, cell_raw.rs).                             *)
(*                                                                         *)
(* The curve passes through every cell of the finest resolution once: a    *)
(* line of slots.  A cell is its resolution and the first slot of its      *)
(* block.  The world (resolution -1) holds Origins cells of resolution 0,  *)
(* each of them Segments quintants (resolution 1), and below that a cell   *)
(* holds Fan cells: 12, 5 and 4 in a5, with MaxRes 30.  A compaction       *)
(* marker is a value after the last slot that records a resolution.        *)
(***************************************************************************)
EXTENDS Integers, FiniteSetsExt, SequencesExt

CONSTANTS
  Origins,      \* cells of resolution 0
  Segments,     \* quintants of an origin
  Fan,          \* children of a cell of resolution 1 and up
  MaxRes,       \* the finest resolution
  TopQuintants  \* quintants with ids at MaxRes: 42 of the 60

ASSUME TreeAssumption ==
  /\ Origins \in Nat \ {0, 1} /\ Segments \in Nat \ {0, 1}
  /\ Fan \in Nat \ {0, 1}
  /\ MaxRes \in Nat \ {0, 1}
  /\ TopQuintants \in 0..Origins * Segments

Resolutions == -1..MaxRes

(* How many cells of resolution r + 1 a cell of resolution r holds.        *)
Arity(r) == IF r >= 1 THEN Fan ELSE IF r = 0 THEN Segments ELSE Origins

(* SLOT_COUNTS: how many slots a cell of each resolution occupies.         *)
SlotCount[r \in Resolutions] ==
  IF r = MaxRes THEN 1 ELSE Arity(r) * SlotCount[r + 1]

World == SlotCount[-1]

Slots == 0..World - 1

Cell(r, s) == [res |-> r, slot |-> s]

WorldCell == Cell(-1, 0)

(* The blocks of the curve, and those that have an id.                     *)
Blocks(r) == {Cell(r, k * SlotCount[r]) : k \in 0..(World \div SlotCount[r]) - 1}

HasId(c) == c.res = MaxRes => c.slot < TopQuintants * SlotCount[1]

Cells == {c \in UNION {Blocks(r) : r \in Resolutions} : HasId(c)}

Under(c) == c.slot..c.slot + SlotCount[c.res] - 1

(* compaction_marker(): quintant 60 of 0..59.                              *)
Marker(r) == Cell(r, World)

Markers == {Marker(r) : r \in 0..MaxRes}

IsMarker(v) == v \in Markers

IsCell(v) == v \in Cells

-----------------------------------------------------------------------------
(* Sequences of values.                                                    *)

Without(values, S) ==
  FlattenSeq([i \in DOMAIN values |-> IF values[i] \in S THEN <<>> ELSE <<values[i]>>])

CellsIn(values) == Without(values, Markers)

IsMarked(values) == values # <<>> /\ IsMarker(Last(values))

(* covering_resolution(): the trailing marker's, or the finest value's.    *)
CoveringResolution(values) ==
  IF IsMarked(values) THEN Last(values).res
  ELSE Max({-1} \cup {values[i].res : i \in DOMAIN values})

SlotsOf(values) == UNION {Under(v) : v \in ToSet(values) \ Markers}

(* with_marker(), and slot_runs_to_covering(): no marker records -1.       *)
WithMarker(values, r) == Append(values, Marker(r))

(* Cells that do not overlap, in curve order.                              *)
InCurveOrder(cells) ==
  [i \in 1..Cardinality(cells) |->
     CHOOSE c \in cells : Cardinality({d \in cells : d.slot <= c.slot}) = i]

(* The fewest cells that fill a set of slots: none inside another.         *)
Coarsest(slots) ==
  LET inside == {c \in Cells : Under(c) \subseteq slots}
  IN  {c \in inside : \A d \in inside : d.res < c.res => c.slot \notin Under(d)}

ToCovering(slots, r) ==
  LET cells == InCurveOrder(Coarsest(slots))
  IN  IF r >= 0 THEN WithMarker(cells, r) ELSE cells

(* compact().                                                              *)
CompactValues(values) == ToCovering(SlotsOf(values), CoveringResolution(values))

(* get_num_children().                                                     *)
NumChildren(from, to) == IF to < from THEN 0 ELSE SlotCount[from] \div SlotCount[to]

(* count().                                                                *)
CountOf(values) ==
  LET r == CoveringResolution(values)
  IN  FoldLeft(LAMBDA n, c : n + NumChildren(c.res, r), 0, CellsIn(values))

(* cell_to_children(): serialize() gives a block of MaxRes that has no id  *)
(* the id of the block of MaxRes - 1 around it.                            *)
Child(r, s) ==
  IF HasId(Cell(r, s)) THEN Cell(r, s)
  ELSE Cell(r - 1, s - (s % SlotCount[r - 1]))

Children(c, r) ==
  [k \in 1..NumChildren(c.res, r) |-> Child(r, c.slot + (k - 1) * SlotCount[r])]

(* uncompact(): a cell alone at the resolution is kept as it is.           *)
UncompactValues(values) ==
  LET r == CoveringResolution(values)
  IN  FlattenSeq([i \in DOMAIN CellsIn(values) |->
        LET c == CellsIn(values)[i]
        IN  IF NumChildren(c.res, r) = 1 THEN <<c>> ELSE Children(c, r)])

(* contains(): the last cell that starts at or before the cell's slot.     *)
Holds(values, c) ==
  LET before == {i \in DOMAIN CellsIn(values) : CellsIn(values)[i].slot <= c.slot}
  IN  before # {} /\ c.slot \in Under(CellsIn(values)[Max(before)])
=============================================================================
