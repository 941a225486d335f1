------------------------------ MODULE Covering ------------------------------
(***************************************************************************)
(* A session with a5_covering vectors (covering.rs, covering.R,            *)
(* covering-ops.R, compact.R, validity.R): cell vectors and raw values     *)
(* become coverings, coverings are combined, expanded and stored again.    *)
(*                                                                         *)
(* The session holds two coverings x and y, each missing (NA) or a         *)
(* sequence of values: cells, then a compaction marker.  A cell vector is  *)
(* on its way between two calls.  A NULL resolution is one not given.      *)
(***************************************************************************)
EXTENDS CellTree

CONSTANTS
  NA,            \* a missing covering, a missing cell
  NULL,          \* a resolution not given
  Bad,           \* a value that is neither a cell nor a marker
  MaxCells,      \* .Machine$integer.max
  CellInputs,    \* the cell vectors users give
  RawInputs      \* the raw values they give

ASSUME InputsAssumption ==
  /\ MaxCells \in Nat
  /\ CellInputs \subseteq Seq(Cells \cup {NA})
  /\ RawInputs \subseteq Seq(Cells \cup Markers \cup {Bad})

(* A missing covering, and a failed call, are no coverings.                *)
ASSUME ErrorAssumption ==
  /\ NULL \notin Resolutions /\ NA # Bad /\ {NA, Bad} \cap (Cells \cup Markers) = {}
  /\ Bad \notin BOOLEAN
  /\ Bad \notin Seq(Cells \cup Markers \cup {NA, Bad})
  /\ NA \notin Seq(Cells \cup Markers) /\ NA \notin [res : Resolutions, set : SUBSET Slots]

(* A trailing marker at least as fine as the cells before it.              *)
FineMarker(raw) ==
  IsMarked(raw) => \A i \in DOMAIN raw : IsCell(raw[i]) => raw[i].res <= Last(raw).res

VARIABLES
  x, y,     \* the coverings
  cells,    \* the cell vector on its way
  answer    \* the last call, the resolution it asked for, and if it gave

vars == <<x, y, cells, answer>>

OptionalResolutions == {NULL} \cup 0..MaxRes

-----------------------------------------------------------------------------
(* The code's helpers: a failed call gives Bad.                            *)

(* collect_ids(): NA cells are skipped.                                    *)
CollectIds(values) == Without(values, {NA})

(* Fault: only the first value is checked.                                 *)
CheckFirst(values, r) ==
  values # <<>> /\ ~IsMarker(values[1]) => values[1].res <= r

CheckNotFiner(values, r) ==
  \A i \in DOMAIN values : ~IsMarker(values[i]) => values[i].res <= r

(* Fault: the resolution asked for is only a bound.                        *)
CellsToFinest(values, r) ==
  IF r # NULL /\ ~CheckNotFiner(values, r) THEN Bad ELSE CompactValues(values)

(* cells_to_covering().                                                    *)
CellsToCovering(values, r) ==
  IF r = NULL THEN CompactValues(values)
  ELSE IF CheckNotFiner(values, r) THEN CompactValues(WithMarker(values, r))
  ELSE Bad

(* Fault: the resolution asked for wins over the marker.                   *)
NormalisedAsAsked(raw, r) ==
  IF \E i \in DOMAIN raw : ~IsMarker(raw[i]) /\ ~IsCell(raw[i]) THEN Bad
  ELSE CellsToCovering(raw, r)

(* a5_covering_normalise_rs().                                             *)
Normalised(raw, r) ==
  IF \E i \in DOMAIN raw : ~IsMarker(raw[i]) /\ ~IsCell(raw[i]) THEN Bad
  ELSE CellsToCovering(raw, IF IsMarked(raw) THEN NULL ELSE r)

(* Fault: resolution 0 is not adopted.                                     *)
AdoptAboveZero(values, r) ==
  IF values = <<>> /\ r > 0 THEN WithMarker(<<>>, r) ELSE values

(* adopt_resolution().                                                     *)
Adopt(values, r) ==
  IF values = <<>> /\ r >= 0 THEN WithMarker(<<>>, r) ELSE values

SlotOperation(op, a, b) ==
  CASE op = "union"      -> a \cup b
    [] op = "intersect"  -> a \cap b
    [] op = "difference" -> a \ b

(* combine(): both coverings at one resolution.                            *)
Combined(op, a, b) ==
  IF CoveringResolution(a) # CoveringResolution(b) THEN Bad
  ELSE ToCovering(SlotOperation(op, SlotsOf(a), SlotsOf(b)), CoveringResolution(a))

(* a5_covering_set_op_rs() on one pair of coverings.                       *)
SetOp(op, a, b) ==
  IF a = NA \/ b = NA THEN NA
  ELSE Combined(op, Adopt(a, CoveringResolution(b)), Adopt(b, CoveringResolution(a)))

(* Fault: the cells are put together and not compacted.                    *)
UnionOfStored(coverings) ==
  LET all == FlattenSeq([i \in DOMAIN coverings |-> CellsIn(coverings[i])])
      resolutions == {CoveringResolution(coverings[i]) : i \in DOMAIN coverings}
  IN  IF Cardinality(resolutions) > 1 THEN Bad
      ELSE IF resolutions \subseteq {-1} THEN all
      ELSE WithMarker(all, Max(resolutions))

(* a5_covering_union_all_rs(), missing coverings left out.                 *)
UnionOf(coverings) ==
  LET resolutions == {CoveringResolution(coverings[i]) :
                        i \in {j \in DOMAIN coverings : coverings[j] # <<>>}}
      all == FlattenSeq([i \in DOMAIN coverings |-> CellsIn(coverings[i])])
  IN  IF Cardinality(resolutions) > 1 THEN Bad
      ELSE IF resolutions \subseteq {-1} THEN CompactValues(all)
      ELSE CompactValues(WithMarker(all, Max(resolutions)))

(* Fault: the marker is dropped before the cells are expanded.             *)
UncompactedUnmarked(values, r) ==
  IF r = NULL THEN UncompactValues(CellsIn(values))
  ELSE IF r < CoveringResolution(values) THEN Bad
  ELSE UncompactValues(WithMarker(CellsIn(values), r))

(* a5_uncompact_rs() on one covering.                                      *)
Uncompacted(values, r) ==
  IF r = NULL THEN UncompactValues(values)
  ELSE IF r < CoveringResolution(values) THEN Bad
  ELSE UncompactValues(WithMarker(CellsIn(values), r))

(* Fan to a power.                                                         *)
Power[d \in 0..MaxRes + 1] == IF d = 0 THEN 1 ELSE Fan * Power[d - 1]

(* Fault: 4 cells per step from resolution 0 as well.                      *)
ExpectedByFan(values, r) ==
  LET own == CoveringResolution(values)
  IN  CountOf(values) * Power[IF r = NULL \/ r < own THEN 0 ELSE r - own]

(* The cells a5_uncompact() expects to build: 5 children from resolution 0 *)
(* to 1, then 4 per step.                                                  *)
Expected(values, r) ==
  LET own == CoveringResolution(values)
      d   == IF r = NULL \/ r < own THEN 0 ELSE r - own
  IN  IF own = 0 /\ d > 0 THEN CountOf(values) * Segments * Power[d - 1]
      ELSE CountOf(values) * Power[d]

(* is_valid_covering().                                                    *)
IsValidCovering(values) ==
  LET held == IF IsMarked(values) THEN Front(values) ELSE values
  IN  /\ \A i \in DOMAIN held :
           IsCell(held[i]) /\ held[i].res <= CoveringResolution(values)
      /\ \A i \in 1..Len(held) - 1 :
           held[i].slot + SlotCount[held[i].res] <= held[i + 1].slot

(* Fault: a covering of no cells is searched like any other.               *)
CellSearched(values, c) ==
  IF c.res # CoveringResolution(values) THEN Bad ELSE Holds(values, c)

(* a5_covering_contains_rs() on one covering and one cell.                 *)
CellContained(values, c) ==
  IF \A i \in DOMAIN values : IsMarker(values[i]) THEN FALSE
  ELSE IF c.res # CoveringResolution(values) THEN Bad
  ELSE Holds(values, c)

(* a5_covering_overlaps_rs() on one pair of coverings.                     *)
Overlaps(a, b) ==
  LET p == Adopt(a, CoveringResolution(b))
      q == Adopt(b, CoveringResolution(a))
  IN  IF CoveringResolution(p) # CoveringResolution(q) THEN Bad
      ELSE SlotsOf(p) \cap SlotsOf(q) # {}

(* Fault: the marker is taken for a cell.                                  *)
StoredValues(values) == values

(* a5_covering_stored_rs() on one covering.                                *)
StoredCells(values) == CellsIn(values)

-----------------------------------------------------------------------------

Answer(name, r, ok) == [call |-> name, at |-> r, ok |-> ok]

Init ==
  /\ x = NA /\ y = NA /\ cells = <<>>
  /\ answer = Answer("start", NULL, TRUE)

Fails(name, r) == answer' = Answer(name, r, FALSE) /\ UNCHANGED <<x, y>>

(* A call that gives a covering or a cell vector, or raises an error.      *)
GivesY(name, r, covering) ==
  /\ cells' = <<>>
  /\ IF covering = Bad THEN Fails(name, r)
     ELSE y' = covering /\ answer' = Answer(name, r, TRUE) /\ UNCHANGED x

GivesX(name, covering) ==
  /\ IF covering = Bad THEN Fails(name, NULL)
     ELSE x' = covering /\ answer' = Answer(name, NULL, TRUE) /\ UNCHANGED y
  /\ UNCHANGED cells

GivesCells(name, r, values) ==
  IF values = Bad THEN Fails(name, r) /\ UNCHANGED cells
  ELSE cells' = values /\ answer' = Answer(name, r, TRUE) /\ UNCHANGED <<x, y>>

(* The user gives a cell vector, or raw values of 64 bits.                 *)
Input ==
  /\ y = NA /\ cells = <<>>
  /\ \/ \E values \in CellInputs : GivesCells("cells", NULL, values)
     \/ \E values \in RawInputs : GivesCells("raw", NULL, values)

Drop ==
  /\ y # NA
  /\ y' = NA /\ answer' = Answer("drop", NULL, TRUE) /\ UNCHANGED <<x, cells>>

(* a5_compact(), as_a5_covering() of a cell vector.                        *)
Compact(r) ==
  /\ y = NA
  /\ answer.ok /\ answer.call \in {"cells", "uncompact", "stored"}
  /\ GivesY("compact", r, CellsToCovering(CollectIds(cells), r))

(* as_a5_covering() of raw values.                                         *)
Normalise(r) ==
  /\ y = NA
  /\ answer.call = "raw"
  /\ GivesY("normalise", r, Normalised(cells, r))

(* a5_union(x, y), a5_intersect(x, y), a5_difference(x, y).                *)
SetOperation(op) ==
  /\ cells = <<>>
  /\ GivesX(op, SetOp(op, x, y))

(* a5_union(c(x, y)).                                                      *)
UnionAll ==
  /\ cells = <<>>
  /\ GivesX("union_all", UnionOf(Without(<<x, y>>, {NA})))

(* a5_overlaps(x, y); it says nothing (NA) if either is missing.           *)
AskOverlaps ==
  /\ x # NA /\ y # NA
  /\ IF Overlaps(x, y) = Bad THEN Fails("overlaps", NULL)
     ELSE /\ answer' = Answer(IF Overlaps(x, y) THEN "overlaps" ELSE "apart", NULL, TRUE)
          /\ UNCHANGED <<x, y>>
  /\ UNCHANGED cells

(* a5_uncompact(): a missing covering gives no cells, and it refuses to    *)
(* build more than MaxCells.                                               *)
Uncompact(r) ==
  /\ y = NA /\ cells = <<>>
  /\ GivesCells("uncompact", r,
       IF x = NA THEN <<>>
       ELSE IF Expected(x, r) > MaxCells THEN Bad
       ELSE Uncompacted(x, r))

(* a5_covering_stored().                                                   *)
Stored ==
  /\ y = NA /\ cells = <<>>
  /\ GivesCells("stored", NULL, IF x = NA THEN <<>> ELSE StoredCells(x))

Next ==
  \/ Input \/ Drop
  \/ \E r \in OptionalResolutions : Compact(r) \/ Normalise(r) \/ Uncompact(r)
  \/ \E op \in {"union", "intersect", "difference"} : SetOperation(op)
  \/ UnionAll \/ AskOverlaps \/ Stored

Spec == Init /\ [][Next]_vars

-----------------------------------------------------------------------------

(* The type invariant: a covering is made of cells and markers, and a cell *)
(* vector, unless it comes from elsewhere, of cells.                       *)
TypeOK ==
  /\ \A c \in {x, y} \ {NA} : \A i \in DOMAIN c : c[i] \in Cells \cup Markers
  /\ \A i \in DOMAIN cells :
       cells[i] \in IF answer.call = "raw" THEN Cells \cup Markers \cup {Bad}
                   ELSE Cells \cup {NA}

Coverings == {x, y} \ {NA}

(* Two coverings of the same cells are identical: every operation leaves   *)
(* the one stored form of its set (R/covering.R:24-26).                    *)
CanonicalForm ==
  \A c \in Coverings : c = ToCovering(SlotsOf(c), CoveringResolution(c))

(* a5R always builds coverings this way: sorted, disjoint, no cell finer   *)
(* than the covering's resolution (R/validity.R:15-19).                    *)
AlwaysValid == \A c \in Coverings : IsValidCovering(c)

(* A cell is in a covering exactly if its place is in the covering's set,  *)
(* at the covering's resolution; an empty covering contains no cell.       *)
ContainsIsMembership ==
  \A v \in Coverings, c \in Cells :
    CellContained(v, c) = IF SlotsOf(v) = {} THEN FALSE
                     ELSE IF c.res # CoveringResolution(v) THEN Bad
                     ELSE Under(c) \subseteq SlotsOf(v)

(* a5_count() is the length of the uncompacted covering.                   *)
CountIsLength == \A c \in Coverings : CountOf(c) = Len(Uncompacted(c, NULL))

(* Uncompacting a compacted set gives the cells back in curve order        *)
(* without duplicates, and compacting these gives the same covering        *)
(* (R/compact.R:7-8).                                                      *)
GivesBack(c) ==
  LET expanded == Uncompacted(c, NULL)
  IN  /\ \A i, j \in DOMAIN expanded : i < j => expanded[i].slot < expanded[j].slot
      /\ CellsToCovering(expanded, IF CoveringResolution(c) = -1 THEN NULL
                                   ELSE CoveringResolution(c)) = c

RoundTrip == \A c \in Coverings : GivesBack(c)

(* Every place of the covering has a cell of the resolution.               *)
HaveIds(c, r) == r = MaxRes => SlotsOf(c) \subseteq 0..TopQuintants * SlotCount[1] - 1

(* It does where all cells of the covering's resolution have ids: below    *)
(* the finest one, and there outside of the quintants without.             *)
RoundTripWithIds ==
  \A c \in Coverings : HaveIds(c, CoveringResolution(c)) => GivesBack(c)

(* The estimate of a5_uncompact() (R/compact.R:71-78) is the number of     *)
(* cells a5_uncompact_rs() builds (covering.rs:219-244), also where places *)
(* have no ids: for a covering with a resolution from 0 on, a5_uncompact() *)
(* refuses exactly what passes its limit.                                  *)
EstimateExact ==
  \A c \in Coverings : \A r \in 0..MaxRes :
    0 <= CoveringResolution(c) /\ CoveringResolution(c) <= r =>
      Expected(c, r) = Len(Uncompacted(c, r))

(* a5_uncompact() refuses to build more than .Machine$integer.max cells    *)
(* (R/compact.R:32).                                                       *)
UncompactFits == answer.call = "uncompact" => Len(cells) <= MaxCells

(* The session on coverings is a session on sets of cells.                 *)
Region(c) == IF c = NA THEN NA ELSE [res |-> CoveringResolution(c), set |-> SlotsOf(c)]

Sets == INSTANCE CellSets WITH x <- Region(x), y <- Region(y)

(* What expanding promises holds if the cells asked for have ids and if    *)
(* a5_uncompact() knows how many there are: it does not for the world      *)
(* (R/compact.R:74-75).                                                    *)
Expandable(c, r) ==
  /\ HaveIds(c, IF r = NULL THEN CoveringResolution(c) ELSE r)
  /\ CoveringResolution(c) = -1 /\ SlotsOf(c) # {} => r = NULL

(* Every call acts on sets of cells, errors included, except an expansion  *)
(* that is not of this kind.                                               *)
StepsOnSets ==
  /\ Sets!Init
  /\ [][(answer'.call = "uncompact" /\ x # NA => Expandable(x, answer'.at))
           => [Sets!Next]_(Sets!setVars)]_vars
=============================================================================
