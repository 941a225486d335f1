----------------------------- MODULE RingSweep ------------------------------
(***************************************************************************)
(* The check for rings that cross themselves (ring_check.rs): the edges    *)
(* are swept along the first axis by their boxes, and an edge is compared  *)
(* only with those swept before it that are still active.  The arithmetic  *)
(* on the sphere is given by constants.                                    *)
(***************************************************************************)
EXTENDS Integers, Sequences, FiniteSets, SequencesExt

CONSTANTS
  Points,
  Axes,                    \* 1..3
  Same(_, _),              \* same(): two points are taken for one
  ArcsCross(_, _, _, _),   \* arcs_cross(): at a point interior to both
  Low(_, _), High(_, _)    \* arc_box(): a box that holds the arc

(* Arcs that cross have boxes that overlap, and no vertex in common.       *)
BoxAssumption ==
  /\ Axes \in Nat \ {0}
  /\ \A a, b \in Points : \A k \in 1..Axes :
       Low(a, b)[k] \in Int /\ High(a, b)[k] \in Int /\ Low(a, b)[k] <= High(a, b)[k]
  /\ \A a, b, c, d \in Points :
       ArcsCross(a, b, c, d) =>
         \A k \in 1..Axes : Low(a, b)[k] <= High(c, d)[k] /\ Low(c, d)[k] <= High(a, b)[k]
  /\ \A a, b, c, d \in Points : ArcsCross(a, b, c, d) = ArcsCross(c, d, a, b)
  /\ \A a, b, c \in Points : ~ArcsCross(a, b, a, c)

ASSUME BoxAssumption

(* The points of a ring, those the same as the one before left out, and    *)
(* the last if it closes the ring.                                         *)
Deduped(points) ==
  LET pts == FoldLeft(LAMBDA s, p : IF s # <<>> /\ Same(Last(s), p) THEN s ELSE Append(s, p),
                      <<>>, points)
  IN  IF Len(pts) > 1 /\ Same(Head(pts), Last(pts)) THEN Front(pts) ELSE pts

(* Edge i goes from point i to the next.                                   *)
Edges(pts) == IF Len(pts) < 4 THEN {} ELSE DOMAIN pts

NextEdge(pts, i) == (i % Len(pts)) + 1

Lo(pts, i) == Low(pts[i], pts[NextEdge(pts, i)])

Hi(pts, i) == High(pts[i], pts[NextEdge(pts, i)])

Cross(pts, i, j) ==
  ArcsCross(pts[i], pts[NextEdge(pts, i)], pts[j], pts[NextEdge(pts, j)])

Adjacent(pts, i, j) == NextEdge(pts, i) = j \/ NextEdge(pts, j) = i

BoxesMeet(pts, i, j) ==
  \A k \in 2..Axes : Lo(pts, i)[k] <= Hi(pts, j)[k] /\ Lo(pts, j)[k] <= Hi(pts, i)[k]

(* Fault: edges are dropped that end before the new one does.              *)
RetainedWide(pts, active, e) == {o \in active : Hi(pts, o)[1] >= Hi(pts, e)[1]}

(* The active edges that do not end before edge e starts.                  *)
Retained(pts, active, e) == {o \in active : Hi(pts, o)[1] >= Lo(pts, e)[1]}

(* Fault: rings with too few points to cross themselves are swept too.     *)
StartedShort(pts) == [todo |-> DOMAIN pts, active |-> {}, crosses |-> FALSE]

(* A sweep under way: the edges to come, those active, and what was found. *)
Started(pts) == [todo |-> Edges(pts), active |-> {}, crosses |-> FALSE]

(* Edges come in the order of their lower bounds; equal ones in any.       *)
IsNextEdge(pts, sweep, e) ==
  e \in sweep.todo /\ \A f \in sweep.todo : Lo(pts, e)[1] <= Lo(pts, f)[1]

Swept(pts, sweep, e) ==
  LET active == Retained(pts, sweep.active, e)
      hit == \E o \in active :
               ~Adjacent(pts, e, o) /\ BoxesMeet(pts, e, o) /\ Cross(pts, e, o)
  IN  IF hit THEN [sweep EXCEPT !.todo = {}, !.crosses = TRUE]
      ELSE [todo |-> sweep.todo \ {e}, active |-> active \cup {e}, crosses |-> FALSE]

(* What the sweep stands for: some two edges that are no neighbours cross. *)
CrossesItself(pts) ==
  \E e, f \in Edges(pts) : ~Adjacent(pts, e, f) /\ Cross(pts, e, f)
=============================================================================
