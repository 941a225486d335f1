----------------------------- MODULE Supercells -----------------------------
(***************************************************************************)
(* The supercells of a covering (hierarchy.rs): the coarse cells that hold *)
(* the centre of any of its cells.  Coarse cells do not nest with the      *)
(* curve, so a covering of many cells is not expanded but searched for:    *)
(* from a seed in each stored cell, over the neighbours of what was kept.  *)
(*                                                                         *)
(* Where centres lie and which cells touch is the a5 crate's, given here   *)
(* as constants.                                                           *)
(***************************************************************************)
EXTENDS CellTree

CONSTANTS
  Super(_, _),    \* cell_to_supercell(): the cell of a resolution a centre is in
  Subcells(_, _), \* cell_to_subcells(): the cells whose centres are in a cell
  Neighbours(_),  \* grid_disk_vertex(p, 1): a cell and those that touch it
  BudgetUnit,     \* fine cells looked up at no gap: 32
  MinBudget,      \* and at least: 256
  Coverings,      \* the coverings asked about
  NULL

(* Where the subcells of p come from, and their resolution: at MaxRes, for *)
(* a cell that reaches an origin with quintants without ids, the one above.*)
Reach(p) == {s \div (Segments * SlotCount[1]) : s \in UNION {Under(q) : q \in Neighbours(p)}}

SubResolution(p, r) ==
  IF r = MaxRes /\ \E o \in Reach(p) : (o + 1) * Segments > TopQuintants THEN r - 1 ELSE r

(* The blocks of the curve are cells with or without ids here.  A cell's   *)
(* supercell is around its centre, so the block it is under is that        *)
(* supercell or touches it; at its own resolution it is the cell itself.   *)
ASSUME SuperAssumption ==
  \A r \in 0..MaxRes : \A c \in Blocks(r) : \A above \in 0..r :
    /\ Super(c, above) \in Blocks(above)
    /\ above = r => Super(c, above) = c
    /\ \E q \in Neighbours(Super(c, above)) : c.slot \in Under(q)

ASSUME NeighboursAssumption ==
  \A r \in 0..MaxRes : \A p \in Blocks(r) :
    /\ p \in Neighbours(p) /\ Neighbours(p) \subseteq Blocks(r)
    /\ \A q \in Neighbours(p) : p \in Neighbours(q)

(* Adjacent cells of a quintant have the same supercell or touching ones.  *)
(* Of a quintant and the next of its origin, and of an origin and the next,*)
(* that is asked of some two cells only.                                   *)
Follows(d, c, r) == d.slot = c.slot + SlotCount[r]

ASSUME CurveAssumption ==
  \A r \in 1..MaxRes : \A above \in 0..r - 1 :
    /\ \A c, d \in Blocks(r) :
         /\ HasId(c) /\ HasId(d)
         /\ Follows(d, c, r) /\ c.slot \div SlotCount[1] = d.slot \div SlotCount[1]
         => Super(d, above) \in Neighbours(Super(c, above))
    /\ \A q \in {0, 1} : \A u, v \in Blocks(q) :
         Follows(v, u, q) /\ u.slot \div SlotCount[q - 1] = v.slot \div SlotCount[q - 1]
         => \E c, d \in Blocks(r) :
              c.slot \in Under(u) /\ d.slot \in Under(v) /\ Super(d, above) \in Neighbours(Super(c, above))

(* The subcells of a cell are those that have it as their supercell.       *)
ASSUME SubcellsAssumption ==
  \A r \in 1..MaxRes : \A above \in 0..r - 1 : \A p \in Blocks(above) :
    /\ Subcells(p, r) \subseteq Cells
    /\ UNION {Under(c) : c \in Subcells(p, r)} =
         UNION {Under(d) : d \in {e \in Blocks(SubResolution(p, r)) : Super(e, above) = p}}

(* Coverings as the package makes them: cells that do not overlap, none    *)
(* finer than the resolution.                                              *)
ASSUME CoveringsAssumption ==
  \A v \in Coverings :
    /\ v \in Seq(Cells \cup Markers)
    /\ \A c \in ToSet(v) \ Markers : c.res <= CoveringResolution(v)
    /\ \A c, d \in ToSet(v) \ Markers : Under(c) \cap Under(d) # {} => c = d

ASSUME BudgetAssumption == BudgetUnit \in Nat /\ MinBudget \in Nat

VARIABLES
  values,    \* the covering
  to,        \* the resolution asked for
  frontier,  \* candidates to test
  seen,      \* candidates met so far
  found,     \* those that hold a centre
  answer     \* the cells that make up the result; NULL before

vars == <<values, to, frontier, seen, found, answer>>

-----------------------------------------------------------------------------
(* Descendants: the cells at a resolution below a cell.                    *)

Count(c, r) == SlotCount[c.res] \div SlotCount[r]

(* Fault: blocks of the finest resolution that have no id are given one.   *)
NthUnchecked(c, r, k) == Cell(r, c.slot + k * SlotCount[r])

Nth(c, r, k) ==
  LET slot == c.slot + k * SlotCount[r]
  IN  IF r = MaxRes /\ slot \div SlotCount[1] >= TopQuintants
      THEN Cell(MaxRes - 1, slot - (slot % Fan))
      ELSE Cell(r, slot)

(* a5_cell_child(): counted from 1; NULL for an error.                     *)
ChildAt(c, r, i) ==
  IF r < c.res THEN NULL ELSE IF i \in 1..Count(c, r) THEN Nth(c, r, i - 1) ELSE NULL

(* Fault: the last is taken to be as many steps from the first as there are*)
(* descendants.                                                            *)
LastOver(c, r) == Nth(c, r, Count(c, r))

LastOf(c, r) == Nth(c, r, Count(c, r) - 1)

(* a5_cell_children_range(): of the ids, which ascend with the slots.      *)
InRange(c, r) ==
  {d \in Blocks(r) : d.slot >= Nth(c, r, 0).slot /\ d.slot <= LastOf(c, r).slot}

-----------------------------------------------------------------------------

Stored == ToSet(values) \ Markers

Resolution == CoveringResolution(values)

Budget == Max({BudgetUnit * 2^(Resolution - to), MinBudget})

TotalCount == FoldLeft(LAMBDA n, c : n + Count(c, Resolution), 0, CellsIn(values))

Looked(c) == {Super(Nth(c, Resolution, k), to) : k \in 0..Count(c, Resolution) - 1}

(* The stored cells as ranges of slots, in order, with their ends.         *)
Runs == InCurveOrder(Stored)

End(c) == c.slot + SlotCount[c.res]

(* Fault: a run that ends where the cell starts is taken to overlap it.    *)
OverlapsTouching(c) ==
  LET after == {i \in DOMAIN Runs : End(Runs[i]) >= c.slot}
  IN  after # {} /\ Runs[Min(after)].slot < End(c)

(* overlaps(): the first run that ends past the start of the cell.         *)
Overlaps(c) ==
  LET after == {i \in DOMAIN Runs : End(Runs[i]) > c.slot}
  IN  after # {} /\ Runs[Min(after)].slot < End(c)

(* holds()                                                                 *)
HoldsCentre(p) == \E c \in Subcells(p, Resolution) : Overlaps(c)

(* Fault: the neighbours of a kept cell are not tried.                     *)
AroundNone(kept) == {}

(* The neighbours of the cells kept.                                       *)
Around(kept) == UNION {Neighbours(p) : p \in kept}

(* Fault: candidates met before are tried again.                           *)
UntriedAgain(kept) == Around(kept)

(* Those of them not met before.                                           *)
Untried(kept) == Around(kept) \ seen

Init ==
  /\ values \in Coverings /\ to \in 0..MaxRes
  /\ frontier = {} /\ seen = {} /\ found = {} /\ answer = NULL

Answers(a) == answer' = a /\ UNCHANGED <<values, to, frontier, seen, found>>

(* The calls that do not search: no cell, too fine a resolution, the       *)
(* covering's own, or few cells.                                           *)
Trivial ==
  /\ answer = NULL
  /\ \/ Stored = {} /\ Answers({})
     \/ Stored # {} /\ to > Resolution /\ Answers("error")
     \/ Stored # {} /\ to = Resolution /\ Answers(Stored)

Searches == answer = NULL /\ Stored # {} /\ to < Resolution

Direct ==
  /\ Searches /\ TotalCount <= Budget
  /\ Answers(UNION {Looked(c) : c \in Stored})

(* A seed for each stored cell.                                            *)
Seed ==
  /\ Searches /\ TotalCount > Budget /\ seen = {}
  /\ frontier' = {Super(Nth(c, Resolution, 0), to) : c \in Stored}
  /\ seen' = frontier'
  /\ UNCHANGED <<values, to, found, answer>>

(* A round: every candidate is tested, in parallel or not.                 *)
Round ==
  /\ answer = NULL /\ frontier # {}
  /\ LET kept == {p \in frontier : HoldsCentre(p)}
     IN  /\ found' = found \cup kept
         /\ frontier' = Untried(kept)
         /\ seen' = seen \cup Around(kept)
  /\ UNCHANGED <<values, to, answer>>

Finish ==
  /\ answer = NULL /\ seen # {} /\ frontier = {}
  /\ Answers(found)

Next == Trivial \/ Direct \/ Seed \/ Round \/ Finish

Spec == Init /\ [][Next]_vars /\ WF_vars(Next)

-----------------------------------------------------------------------------
(* Every candidate is a cell of the resolution asked for.                  *)
TypeOK ==
  /\ found \subseteq seen /\ frontier \subseteq seen \ found
  /\ \A p \in seen : p.res = to

(* The supercell of every cell of the covering.                            *)
Wanted == {Super(c, to) : c \in ToSet(UncompactValues(values))}

(* The search gives the supercells of the covering's cells, no more and no *)
(* fewer, as taking each cell's would (R/hierarchy.R: "matches a5_cell_to_ *)
(* supercell(a5_uncompact(x), resolution) without duplicates"): with the   *)
(* budget or beyond it, from one seed in each stored cell.  It is stated   *)
(* for candidates whose subcells a5 gives at the covering's resolution.    *)
SupercellsExact ==
  answer # NULL /\ to < Resolution
  /\ (\A p \in seen : SubResolution(p, Resolution) = Resolution)
    => answer = Wanted

(* While it runs, the search forgets nothing: a candidate met is still to  *)
(* be tested, or was kept, and then its neighbours were met, or holds no   *)
(* centre.                                                                 *)
SearchClosed ==
  \A p \in seen :
    \/ p \in frontier
    \/ p \in found /\ HoldsCentre(p) /\ Neighbours(p) \subseteq seen
    \/ p \notin found /\ ~HoldsCentre(p)

(* The descendants that are counted out are those a5 would list, the cells *)
(* one resolution coarser included where the finest have no ids, and other *)
(* positions are errors.  Above the finest resolution, where R allows it,  *)
(* the ids from the smallest to the largest are the descendants' alone.    *)
DescendantsExact ==
  \A c \in Stored : \A r \in 0..MaxRes :
    /\ ChildAt(c, r, 0) = NULL /\ ChildAt(c, r, NumChildren(c.res, r) + 1) = NULL
    /\ r >= c.res =>
         /\ [k \in 1..NumChildren(c.res, r) |-> ChildAt(c, r, k)] = Children(c, r)
         /\ r < MaxRes => InRange(c, r) = ToSet(Children(c, r))

(* Every call returns: the search runs out of candidates.                  *)
Returns == <>(answer # NULL)
=============================================================================
