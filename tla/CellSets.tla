------------------------------ MODULE CellSets ------------------------------
(***************************************************************************)
(* What a session with coverings promises: a covering is a resolution and  *)
(* a set of slots, and every operation is the one on sets.  Covering shows *)
(* that the compacted, marked values of a5R implement it.                  *)
(***************************************************************************)
EXTENDS Integers, Sequences, FiniteSets

CONSTANTS
  Cells,       \* the cells, [res, slot]
  Markers,     \* the compaction markers
  Under(_),    \* the slots of a cell
  MaxRes, NA, NULL, Bad, MaxCells, CellInputs, RawInputs

VARIABLES x, y, cells, answer

setVars == <<x, y, cells, answer>>

Region(r, slots) == [res |-> r, set |-> slots]

CellsOf(values) == {values[i] : i \in DOMAIN values} \cap Cells

SetOf(values) == UNION {Under(c) : c \in CellsOf(values)}

Largest(S) == CHOOSE r \in S : \A q \in S : q <= r

FinestOf(values) ==
  Largest({-1} \cup {values[i].res : i \in {j \in DOMAIN values : values[j] # NA}})

(* No cells, and no resolution recorded.                                   *)
Unrecorded(a) == a = Region(-1, {})

InOrder(values) ==
  \A i, j \in DOMAIN values : i < j =>
    \A s \in Under(values[i]), t \in Under(values[j]) : s < t

(* The last call, and that it gave an answer or raised an error.           *)
Calls(name, r) == answer'.call = name /\ answer'.at = r

Gives == answer'.ok

Raises == ~answer'.ok /\ UNCHANGED <<x, y>>

-----------------------------------------------------------------------------

Input ==
  /\ \/ Calls("cells", NULL) /\ cells' \in CellInputs
     \/ Calls("raw", NULL) /\ cells' \in RawInputs
  /\ Gives /\ UNCHANGED <<x, y>>

Drop == Calls("drop", NULL) /\ y' = NA /\ Gives /\ UNCHANGED <<x, cells>>

(* The cells given, at the resolution given or the finest one's.           *)
Made(r) ==
  IF \E c \in CellsOf(cells) : c.res > r THEN Raises
  ELSE Gives /\ y' = Region(r, SetOf(cells)) /\ UNCHANGED x

Compact(r) ==
  /\ Calls("compact", r)
  /\ cells' = <<>>
  /\ Made(IF r = NULL THEN FinestOf(cells) ELSE r)

(* Values from elsewhere: a trailing marker wins over the resolution asked.*)
Normalise(r) ==
  /\ Calls("normalise", r)
  /\ cells' = <<>>
  /\ IF \E i \in DOMAIN cells : cells[i] = Bad THEN Raises
     ELSE IF cells # <<>> /\ cells[Len(cells)] \in Markers THEN Made(cells[Len(cells)].res)
     ELSE Made(IF r = NULL THEN FinestOf(cells) ELSE r)

Operation(op, a, b) ==
  CASE op = "union"      -> a \cup b
    [] op = "intersect"  -> a \cap b
    [] op = "difference" -> a \ b

SetOperation(op) ==
  /\ Calls(op, NULL)
  /\ IF x = NA \/ y = NA THEN Gives /\ x' = NA /\ UNCHANGED <<y, cells>>
     ELSE IF x.res # y.res /\ ~Unrecorded(x) /\ ~Unrecorded(y)
     THEN Raises /\ UNCHANGED cells
     ELSE /\ Gives /\ UNCHANGED <<y, cells>>
          /\ x' = Region(IF Unrecorded(x) THEN y.res ELSE x.res, Operation(op, x.set, y.set))

(* The union of the coverings there are, if they agree on a resolution.    *)
UnionAll ==
  /\ Calls("union_all", NULL)
  /\ LET present  == {x, y} \ {NA}
         recorded == {a \in present : ~Unrecorded(a)}
     IN  IF \E a, b \in recorded : a.res # b.res THEN Raises /\ UNCHANGED cells
         ELSE /\ Gives /\ UNCHANGED <<y, cells>>
              /\ x' = Region(Largest({-1} \cup {a.res : a \in recorded}),
                             UNION {a.set : a \in present})

(* Whether the sets meet.  No cells and no recorded resolution meet none;  *)
(* other coverings can be compared at one resolution only.                 *)
AskOverlaps ==
  /\ x # NA /\ y # NA
  /\ UNCHANGED <<x, y, cells>>
  /\ IF x.res # y.res /\ ~Unrecorded(x) /\ ~Unrecorded(y)
     THEN Calls("overlaps", NULL) /\ Raises
     ELSE Calls(IF x.set \cap y.set = {} THEN "apart" ELSE "overlaps", NULL) /\ Gives

(* The cells of x at a resolution, each once, in curve order.              *)
Uncompact(r) ==
  /\ Calls("uncompact", r)
  /\ LET to     == IF r = NULL THEN x.res ELSE r
         within == {c \in Cells : c.res = to /\ Under(c) \subseteq x.set}
     IN  IF x # NA /\ (to < x.res \/ Cardinality(within) > MaxCells)
         THEN Raises /\ UNCHANGED cells
         ELSE /\ Gives /\ UNCHANGED <<x, y>>
              /\ CellsOf(cells') = IF x = NA THEN {} ELSE within
              /\ InOrder(cells')

(* Cells that make up x, none overlapping, in curve order.                 *)
Stored ==
  /\ Calls("stored", NULL)
  /\ Gives /\ UNCHANGED <<x, y>>
  /\ SetOf(cells') = IF x = NA THEN {} ELSE x.set
  /\ InOrder(cells')

Init ==
  /\ x = NA /\ y = NA /\ cells = <<>>
  /\ answer = [call |-> "start", at |-> NULL, ok |-> TRUE]

Next ==
  \/ Input \/ Drop
  \/ \E r \in {NULL} \cup 0..MaxRes : Compact(r) \/ Normalise(r) \/ Uncompact(r)
  \/ \E op \in {"union", "intersect", "difference"} : SetOperation(op)
  \/ UnionAll \/ AskOverlaps \/ Stored

Spec == Init /\ [][Next]_setVars
=============================================================================
