------------------------------ MODULE LonArcs -------------------------------
(***************************************************************************)
(* The longitudes of a5_bbox() (bbox.rs): every outer ring of a feature    *)
(* becomes a longitude arc, the arcs are merged from west to east, and the *)
(* box is what the largest gap between them leaves.                        *)
(*                                                                         *)
(* Longitudes are integers, a whole turn is Turn of them.  Vertices are    *)
(* meant to be even: the odd longitudes stand for what lies in between.    *)
(* An arc runs from start to end, which is beyond the antimeridian if it   *)
(* is Turn \div 2 or more.                                                 *)
(***************************************************************************)
EXTENDS Integers, Sequences, FiniteSets, FiniteSetsExt, SequencesExt

CONSTANTS
  Turn,      \* longitudes of a whole turn: 360
  Rings,     \* the outer rings: sequences of vertex longitudes
  MaxArcs,   \* bound on the arcs of a feature
  NA,        \* no box
  World      \* the box of all longitudes, -180 to 180

ASSUME TurnAssumption == Turn \in Nat \ {0} /\ Turn % 2 = 0

ASSUME RingsAssumption ==
  \A ring \in Rings : ring \in Seq(Int) /\ ring # <<>>

(* What stands for no box, and for the box of all longitudes, is no arc.   *)
ASSUME BoxAssumption ==
  /\ NA \notin [start : Int, end : Int]
  /\ World \notin [start : Int, end : Int]

VARIABLES
  phase,     \* "rings", "merge", "gaps" or "done"
  arcs,      \* the arcs not merged yet
  polar,     \* a ring winds around a pole
  merged,    \* the merged arcs, from west to east
  best,      \* the merged arc before the largest gap seen
  at,        \* the merged arc whose gap is next
  box,       \* the longitudes of the box
  given,     \* history: the arcs of all rings
  swept      \* history: the longitudes under the rings' edges, in 0..Turn-1

vars == <<phase, arcs, polar, merged, best, at, box, given, swept>>

Half == Turn \div 2

Arc(from, to) == [start |-> from, end |-> to]

-----------------------------------------------------------------------------
(* ring_bounds()                                                           *)

(* Fault: not brought back into half a turn.                               *)
Unwrapping(d) == d

(* A difference of longitudes, the shorter way round.                      *)
Wrap(d) == IF d % Turn > Half THEN (d % Turn) - Turn ELSE d % Turn

Vertex(ring, i) == ring[((i - 1) % Len(ring)) + 1]

(* The longitudes reached when walking the ring from its first vertex back *)
(* to it, without jumps at the antimeridian.                               *)
Unwrapped(ring) ==
  LET lon[i \in 1..Len(ring) + 1] ==
        IF i = 1 THEN ring[1]
        ELSE lon[i - 1] + Wrap(Vertex(ring, i) - Vertex(ring, i - 1))
  IN  lon

Winding(ring) == Unwrapped(ring)[Len(ring) + 1] - ring[1]

EncirclesPole(ring) == Winding(ring) > Half \/ -Winding(ring) > Half

(* Fault: the arc starts where the walk does.                              *)
RingArcUnshifted(ring) ==
  LET reached == {Unwrapped(ring)[i] : i \in 1..Len(ring)}
  IN  Arc(Min(reached), Max(reached))

RingArc(ring) ==
  LET reached == {Unwrapped(ring)[i] : i \in 1..Len(ring)}
      shift   == Turn * ((Min(reached) + Half) \div Turn)
  IN  Arc(Min(reached) - shift, Max(reached) - shift)

-----------------------------------------------------------------------------
(* union_arcs()                                                            *)

(* Fault: an arc inside the last one cuts it short.                        *)
ExtendedTo(m, a) == Arc(m.start, a.end)

Extended(m, a) == IF a.end > m.end THEN Arc(m.start, a.end) ELSE m

NextStart(i) ==
  IF i < Len(merged) THEN merged[i + 1].start ELSE merged[1].start + Turn

Gap(i) == NextStart(i) - merged[i].end

(* Fault: the gap across the antimeridian is not compared.                 *)
BoxAfterFirst(i) == Arc(merged[1].start, merged[Len(merged)].end)

(* Fault: the arcs before the gap are left out.                            *)
BoxToLast(i) ==
  Arc(IF i < Len(merged) THEN merged[i + 1].start ELSE merged[1].start, merged[Len(merged)].end)

(* The box runs from the arc after the gap round to the arc before it.     *)
BoxAround(i) ==
  LET start == IF i < Len(merged) THEN merged[i + 1].start ELSE merged[1].start
      short == start - merged[i].end
  IN  Arc(start, IF short > 0 THEN merged[i].end + Turn * ((short + Turn - 1) \div Turn)
                 ELSE merged[i].end)

-----------------------------------------------------------------------------

(* The longitudes, in 0..Turn-1, of an arc and under a ring's edges.       *)
Lons(a) == {p % Turn : p \in a.start..a.end}

Edge(from, to) ==
  LET east == (to - from) % Turn
  IN  IF east <= Half THEN Arc(from, from + east) ELSE Arc(to, to + Turn - east)

Swept(ring) == UNION {Lons(Edge(Vertex(ring, i), Vertex(ring, i + 1))) : i \in 1..Len(ring)}

Init ==
  /\ phase = "rings"
  /\ arcs = {} /\ polar = FALSE /\ merged = <<>> /\ best = 0 /\ at = 1 /\ box = NA
  /\ given = {} /\ swept = {}

(* The next ring of the feature.                                           *)
AddRing(ring) ==
  /\ phase = "rings" /\ Cardinality(given) < MaxArcs
  /\ swept' = swept \cup Swept(ring)
  /\ IF EncirclesPole(ring)
     THEN polar' = TRUE /\ UNCHANGED <<arcs, given>>
     ELSE /\ arcs' = arcs \cup {RingArc(ring)}
          /\ given' = given \cup {RingArc(ring)}
          /\ UNCHANGED polar
  /\ UNCHANGED <<phase, merged, best, at, box>>

(* No ring: no box.  A ring around a pole, or an arc of a whole turn: all  *)
(* longitudes.                                                             *)
BeginUnion ==
  /\ phase = "rings"
  /\ IF arcs = {} /\ ~polar THEN phase' = "done" /\ box' = NA
     ELSE IF polar \/ \E a \in arcs : a.end - a.start >= Turn
     THEN phase' = "done" /\ box' = World
     ELSE phase' = "merge" /\ UNCHANGED box
  /\ UNCHANGED <<arcs, polar, merged, best, at, given, swept>>

(* The arc that starts first extends the last merged one or follows it.    *)
MergeNext ==
  /\ phase = "merge" /\ arcs # {}
  /\ \E a \in arcs :
       /\ \A b \in arcs : a.start <= b.start
       /\ arcs' = arcs \ {a}
       /\ merged' = IF merged # <<>> /\ a.start <= Last(merged).end
                    THEN [merged EXCEPT ![Len(merged)] = Extended(@, a)]
                    ELSE Append(merged, a)
  /\ UNCHANGED <<phase, polar, best, at, box, given, swept>>

Merged ==
  /\ phase = "merge" /\ arcs = {}
  /\ phase' = "gaps"
  /\ UNCHANGED <<arcs, polar, merged, best, at, box, given, swept>>

(* The first of the largest gaps.                                          *)
ScanGap ==
  /\ phase = "gaps" /\ at <= Len(merged)
  /\ best' = IF best = 0 THEN at ELSE IF Gap(at) > Gap(best) THEN at ELSE best
  /\ at' = at + 1
  /\ UNCHANGED <<phase, arcs, polar, merged, box, given, swept>>

Close ==
  /\ phase = "gaps" /\ at > Len(merged)
  /\ phase' = "done"
  /\ box' = IF Gap(best) <= 0 THEN World ELSE BoxAround(best)
  /\ UNCHANGED <<arcs, polar, merged, best, at, given, swept>>

Next ==
  \/ \E ring \in Rings : AddRing(ring)
  \/ BeginUnion \/ MergeNext \/ Merged \/ ScanGap \/ Close

Spec == Init /\ [][Next]_vars

-----------------------------------------------------------------------------

IsArc(a) == a = Arc(a.start, a.end) /\ a.start <= a.end

(* The type invariant: arcs start in [-180, 180) (bbox.rs:107).            *)
TypeOK ==
  /\ phase \in {"rings", "merge", "gaps", "done"}
  /\ \A a \in given : IsArc(a) /\ a.start \in -Half..Half - 1
  /\ arcs \subseteq given
  /\ polar \in BOOLEAN
  /\ \A i \in DOMAIN merged : IsArc(merged[i])
  /\ best \in 0..Len(merged) /\ at \in 1..Len(merged) + 1
  /\ box \in {NA, World} \/ IsArc(box)

(* An arc holds the longitudes under its ring's edges and no others, rings *)
(* that go far round and come back included (bbox.rs ring_bounds).         *)
ArcsAreSwept ==
  swept = IF polar THEN 0..Turn - 1 ELSE UNION {Lons(a) : a \in given}

(* Merged arcs lie apart from west to east and hold what the arcs taken so *)
(* far hold, before longitudes are brought into one turn.                  *)
MergedIsUnion ==
  /\ \A i, j \in DOMAIN merged : i < j => merged[i].end < merged[j].start
  /\ UNION {a.start..a.end : a \in {merged[i] : i \in DOMAIN merged}}
       = IF phase = "rings" \/ merged = <<>> THEN {}
         ELSE UNION {a.start..a.end : a \in given \ arcs}

(* No arc goes round past the start of another.                            *)
NoLapping == \A a, b \in given : a.end <= b.start + Turn

BoxLons == IF box = World THEN 0..Turn - 1 ELSE IF box = NA THEN {} ELSE Lons(box)

(* a5_bbox() returns the box that contains the feature's edges             *)
(* (R/regions.R:599-602).                                                  *)
BoxCovers == phase = "done" => swept \subseteq BoxLons

(* It does when no part goes round past the start of another.              *)
BoxCoversApart == NoLapping => BoxCovers

(* The smallest longitude arc covering every arc, or all longitudes if     *)
(* they leave no gap (bbox.rs:106-107), among the arcs that run from a     *)
(* vertex to a vertex.                                                     *)
Even == {p \in -Turn..Turn : p % 2 = 0}

BoxIsSmallest ==
  phase = "done" /\ box # NA /\ NoLapping =>
    \A s \in Even, w \in Even \cap 0..Turn - 1 :
      swept \subseteq Lons(Arc(s, s + w)) => box # World /\ box.end - box.start <= w
=============================================================================
