------------------------------ MODULE Regions -------------------------------
(***************************************************************************)
(* From polygons and lines to cells (regions.rs, ring_check.rs,            *)
(* regions.R): one call, from the flat rings that R prepares to the        *)
(* coverings or paths of the features.  Rings are checked in parallel, and *)
(* parts or lines filled in parallel; the results are merged in order.     *)
(*                                                                         *)
(* A ring is its points, its part and the cells it holds; a part fills     *)
(* with the cells of its outer ring but not those of its holes, or not at  *)
(* all.  A part with cells in places without ids at the finest resolution  *)
(* is filled at the next coarser one (coarse), and the crate's union()     *)
(* takes one resolution only.  A line is the cells it passes, in order.    *)
(***************************************************************************)
EXTENDS RingSweep

CONSTANTS
  Cells,
  Calls,  \* [kind, rings or lines, features, number, missing, fails, coarse], see MCRegions
  NA,     \* the result of a missing feature
  Bad,    \* a fill that fails
  NULL

(* As coords_from_wk_polygons() and coords_from_wk_linestrings() give them.*)
CallsAssumption ==
  \A c \in Calls :
    /\ c.kind \in {"polygons", "lines"} /\ c.number \in Nat /\ c.missing \subseteq 1..c.number
    /\ c.features \in Seq(1..c.number) /\ c.fails \subseteq DOMAIN c.features
    /\ c.coarse \subseteq DOMAIN c.features
    /\ c.kind = "lines" =>
         /\ c.lines \in Seq(Seq(Cells)) /\ Len(c.lines) = Len(c.features)
         /\ c.rings = <<>> /\ c.coarse = {}
    /\ c.kind = "polygons" =>
         \A i \in DOMAIN c.rings :
           /\ c.rings[i].part \in DOMAIN c.features
           /\ c.rings[i].outer <=> \A j \in 1..i - 1 : c.rings[j].part # c.rings[i].part

ASSUME CallsAssumption

RingsAssumption ==
  \A c \in Calls : /\ DOMAIN c.rings \subseteq Nat \ {0}
                  /\ \A i \in DOMAIN c.rings :
                       c.rings[i].points \in Seq(Points) /\ c.rings[i].cells \subseteq Cells

ASSUME RingsAssumption

(* What a call answers with.                                               *)
Results == Seq(Cells) \cup SUBSET Cells

Answers == [error : {"none", "crosses", "fails", "clashes"}, at : Nat, values : Seq(Results \cup {NA})]

(* What stands for no result, or a failed one, is no result.               *)
ASSUME ResultsAssumption ==
  /\ NULL # Bad /\ NULL \notin Answers
  /\ \A m \in {NULL, Bad} : m \notin Seq(Cells) /\ \A held \in SUBSET Cells : m # held

VARIABLES
  input,    \* what R hands over
  pts,      \* the points of each ring
  sweeps,   \* the sweep of each ring
  filled,   \* the result of each part, or line
  phase,    \* check, fill, done
  answer

vars == <<input, pts, sweeps, filled, phase, answer>>

Feature(p) == input.features[p]

(* Fault: holes are those of the whole feature.                            *)
GroupOfFeature(p) ==
  [outer |-> {i \in DOMAIN input.rings : input.rings[i].part = p /\ input.rings[i].outer},
   holes |-> {i \in DOMAIN input.rings :
                Feature(input.rings[i].part) = Feature(p) /\ ~input.rings[i].outer}]

(* group_parts(): the rings of a part.                                     *)
GroupPart(p) ==
  [outer |-> {i \in DOMAIN input.rings : input.rings[i].part = p /\ input.rings[i].outer},
   holes |-> {i \in DOMAIN input.rings : input.rings[i].part = p /\ ~input.rings[i].outer}]

CellsOf(rings) == UNION {input.rings[i].cells : i \in rings}

(* What a5 gives for a part or a line.                                     *)
Filled(p) ==
  IF p \in input.fails THEN Bad
  ELSE IF input.kind = "lines" THEN input.lines[p]
  ELSE CellsOf(GroupPart(p).outer) \ CellsOf(GroupPart(p).holes)

(* Fault: a feature's later part replaces the earlier.                     *)
WithPartLast(features, p) == [features EXCEPT ![Feature(p)] = filled[p]]

(* The part joins the union of its feature.                                *)
WithPart(features, p) == [features EXCEPT ![Feature(p)] = @ \cup filled[p]]

(* Fault: a cell is looked for in the paths of all features.               *)
WithLineOnce(paths, p) ==
  [paths EXCEPT ![Feature(p)] =
     @ \o SelectSeq(filled[p], LAMBDA c : \A f \in DOMAIN paths : c \notin ToSet(paths[f]))]

(* The line's cells that the feature's path does not have yet.             *)
WithLine(paths, p) ==
  [paths EXCEPT ![Feature(p)] =
     FoldLeft(LAMBDA path, c : IF c \in ToSet(path) THEN path ELSE Append(path, c),
              @, filled[p])]

Parts == DOMAIN input.features

InOrder == [p \in Parts |-> p]

(* Fault: only neighbours in the input are compared.                       *)
ClashesNext(p) ==
  p > 1 /\ Feature(p - 1) = Feature(p) /\ (p - 1 \in input.coarse) # (p \in input.coarse)

(* The feature's parts so far are of the other resolution: union() fails.  *)
Clashes(p) ==
  \E q \in 1..p - 1 : Feature(q) = Feature(p) /\ (q \in input.coarse) # (p \in input.coarse)

Stops(p) == filled[p] = Bad \/ Clashes(p)

FirstStop == CHOOSE p \in Parts : Stops(p) /\ \A q \in 1..p - 1 : ~Stops(q)

Coverings == FoldLeft(WithPart, [f \in 1..input.number |-> {}], InOrder)

Paths == FoldLeft(WithLine, [f \in 1..input.number |-> <<>>], InOrder)

Raised(error, place) == [error |-> error, at |-> place, values |-> <<>>]

Given(values) == [error |-> "none", at |-> 0, values |-> values]

-----------------------------------------------------------------------------

Init ==
  /\ input \in Calls
  /\ pts = [i \in DOMAIN input.rings |-> Deduped(input.rings[i].points)]
  /\ sweeps = [i \in DOMAIN input.rings |-> Started(pts[i])]
  /\ filled = [p \in DOMAIN input.features |-> NULL]
  /\ phase = "check" /\ answer = NULL

IsDone(i) == sweeps[i].todo = {}

(* A step of the sweep of ring i, on whatever thread has it.               *)
Sweep(i) ==
  /\ phase = "check" /\ i \in DOMAIN sweeps
  /\ \E e \in sweeps[i].todo :
       /\ IsNextEdge(pts[i], sweeps[i], e)
       /\ sweeps' = [sweeps EXCEPT ![i] = Swept(pts[i], @, e)]
  /\ UNCHANGED <<input, pts, filled, phase, answer>>

(* Fault: any ring that crosses itself is reported.                        *)
IsAny(i) == sweeps[i].crosses

(* find_first(): those before it are done and do not cross.                *)
IsFirst(i) ==
  sweeps[i].crosses /\ \A j \in 1..i - 1 : IsDone(j) /\ ~sweeps[j].crosses

(* check_simple_rings(): R raises an error that names the feature.         *)
Refuse(i) ==
  /\ phase = "check" /\ i \in DOMAIN sweeps
  /\ IsFirst(i)
  /\ phase' = "done" /\ answer' = Raised("crosses", Feature(input.rings[i].part))
  /\ UNCHANGED <<input, pts, sweeps, filled>>

(* No ring crosses itself, or there are only lines.                        *)
Accept ==
  /\ phase = "check"
  /\ \A i \in DOMAIN sweeps : IsDone(i) /\ ~sweeps[i].crosses
  /\ phase' = "fill"
  /\ UNCHANGED <<input, pts, sweeps, filled, answer>>

(* One part or line, on whatever thread has it.                            *)
Fill(p) ==
  /\ phase = "fill" /\ p \in Parts /\ filled[p] = NULL
  /\ filled' = [filled EXCEPT ![p] = Filled(p)]
  /\ UNCHANGED <<input, pts, sweeps, phase, answer>>

(* The results in order; the first failure, of a fill or of a union, is    *)
(* raised.                                                                 *)
Merge ==
  /\ phase = "fill" /\ \A p \in Parts : filled[p] # NULL
  /\ phase' = "done"
  /\ answer' =
       IF \E p \in Parts : Stops(p)
       THEN Raised(IF filled[FirstStop] = Bad THEN "fails" ELSE "clashes", FirstStop)
       ELSE IF input.kind = "lines" THEN Given(Paths)
       ELSE Given([f \in 1..input.number |-> IF f \in input.missing THEN NA ELSE Coverings[f]])
  /\ UNCHANGED <<input, pts, sweeps, filled>>

Next ==
  \/ \E i \in DOMAIN sweeps : Sweep(i) \/ Refuse(i)
  \/ Accept
  \/ \E p \in Parts : Fill(p)
  \/ Merge

Spec == Init /\ [][Next]_vars
-----------------------------------------------------------------------------
(* Sweeps and results are those of the rings and parts handed over.        *)
TypeOK ==
  /\ phase \in {"check", "fill", "done"} /\ answer # NULL <=> phase = "done"
  /\ \A i \in DOMAIN sweeps :
       /\ sweeps[i].todo \cup sweeps[i].active \subseteq Edges(pts[i])
       /\ sweeps[i].todo \cap sweeps[i].active = {}
  /\ \A p \in Parts : filled[p] \in {NULL, Filled(p)}

(* The sweep along one axis finds a crossing if and only if comparing all  *)
(* pairs of edges would, in whatever order it takes edges that start at    *)
(* the same place: what it drops from its list cannot be met again.        *)
SweepExact ==
  \A i \in DOMAIN sweeps :
    /\ sweeps[i].crosses => CrossesItself(pts[i])
    /\ IsDone(i) => (sweeps[i].crosses <=> CrossesItself(pts[i]))

(* The error names the feature of the first ring that crosses itself,      *)
(* whatever thread finds which crossing first, and a5, which floods the    *)
(* world with such rings, is never given one.                              *)
FirstCrossing ==
  LET crossing == {i \in DOMAIN sweeps : CrossesItself(pts[i])}
      first(i) == i \in crossing /\ \A j \in crossing : i <= j
  IN  /\ phase = "fill" => crossing = {}
      /\ phase = "done" =>
           \/ crossing = {} /\ answer.error # "crosses"
           \/ \E i \in crossing :
                first(i) /\ answer = Raised("crosses", Feature(input.rings[i].part))

(* A feature's covering has the cells that some part of it has: in its     *)
(* outer ring and in none of its own holes.  A part inside a hole of       *)
(* another part counts.  Features without parts are empty, missing ones    *)
(* NA.  The first part that fails is raised, or the first that brings a    *)
(* feature parts of two resolutions, whichever comes first.                *)
Mixed(n) ==
  \E p, q \in 1..n : Feature(p) = Feature(q) /\ p \in input.coarse /\ q \notin input.coarse

FeaturesExact ==
  phase = "done" /\ input.kind = "polygons" /\ answer.error # "crosses" =>
    \/ /\ answer.error = "fails" /\ answer.at \in input.fails /\ ~Mixed(answer.at - 1)
       /\ \A p \in input.fails : answer.at <= p
    \/ /\ answer.error = "clashes" /\ Mixed(answer.at) /\ ~Mixed(answer.at - 1)
       /\ \A p \in input.fails : answer.at < p
    \/ /\ input.fails = {} /\ ~Mixed(Len(input.features)) /\ DOMAIN answer.values = 1..input.number
       /\ \A f \in 1..input.number :
            answer.values[f] = IF f \in input.missing THEN NA ELSE
              {c \in CellsOf(DOMAIN input.rings) :
                 \E i \in DOMAIN input.rings :
                   LET ring == input.rings[i]
                   IN  /\ Feature(ring.part) = f /\ ring.outer /\ c \in ring.cells
                       /\ \A j \in DOMAIN input.rings \ {i} :
                            input.rings[j].part = ring.part => c \notin input.rings[j].cells}

(* A feature's path has the cells of its lines, each once, in the order in *)
(* which they first appear; features share cells freely.                   *)
PathsExact ==
  phase = "done" /\ input.kind = "lines" /\ input.fails = {} =>
    \A f \in 1..input.number :
      LET lines == FlattenSeq([p \in Parts |-> IF Feature(p) = f THEN input.lines[p] ELSE <<>>])
          first(c) == CHOOSE k \in DOMAIN lines : lines[k] = c /\ \A j \in 1..k - 1 : lines[j] # c
      IN  /\ ToSet(answer.values[f]) = ToSet(lines)
          /\ \A j, k \in DOMAIN answer.values[f] :
               j < k => first(answer.values[f][j]) < first(answer.values[f][k])
=============================================================================
