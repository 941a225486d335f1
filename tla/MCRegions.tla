----------------------------- MODULE MCRegions ------------------------------
(***************************************************************************)
(* Regions on a plane: points of a grid, exact boxes, and segments that    *)
(* cross at a point interior to both.                                      *)
(***************************************************************************)
EXTENDS Regions

MCPoints == (0..2) \X (0..2)

MCCells == 1..5

MCSame(a, b) == a = b

Lesser(i, j) == IF i < j THEN i ELSE j

Greater(i, j) == IF i < j THEN j ELSE i

MCLow(a, b) == [k \in 1..2 |-> Lesser(a[k], b[k])]

MCHigh(a, b) == [k \in 1..2 |-> Greater(a[k], b[k])]

(* The side of the line through a and b that c lies on.                    *)
Side(a, b, c) ==
  LET d == (b[1] - a[1]) * (c[2] - a[2]) - (b[2] - a[2]) * (c[1] - a[1])
  IN  IF d > 0 THEN 1 ELSE IF d < 0 THEN -1 ELSE 0

MCArcsCross(a, b, c, d) ==
  /\ Side(a, b, c) * Side(a, b, d) = -1
  /\ Side(c, d, a) * Side(c, d, b) = -1

Polygons(rings, features, number, missing, fails, coarse) ==
  [kind |-> "polygons", rings |-> rings, lines |-> <<>>, features |-> features,
   number |-> number, missing |-> missing, fails |-> fails, coarse |-> coarse]

Lines(lines, features, number, fails) ==
  [kind |-> "lines", rings |-> <<>>, lines |-> lines, features |-> features,
   number |-> number, missing |-> {}, fails |-> fails, coarse |-> {}]

Ring(points, part, outer, cells) ==
  [points |-> points, part |-> part, outer |-> outer, cells |-> cells]

(* One ring of up to five points, for the sweep; by reflection, the second *)
(* is on one side of the diagonal.                                         *)
RingCalls ==
  {Polygons(<<Ring(<< <<0, 0>>, a, b, c, d >>, 1, TRUE, {1})>>, <<1>>, 1, {}, {}, {}) :
     a \in {p \in MCPoints : p[1] >= p[2]}, b, c, d \in MCPoints}

Square == << <<0, 0>>, <<2, 0>>, <<2, 2>>, <<0, 2>>, <<0, 0>> >>

Bow == << <<0, 0>>, <<2, 2>>, <<2, 0>>, <<0, 2>>, <<0, 0>> >>

(* The same cells, whatever the points: an outer ring with a hole, an      *)
(* island in the hole, a feature of its own that overlaps, a missing one.  *)
PartCalls ==
  {Polygons(<<Ring(points[1], 1, TRUE, {1, 2, 3, 4}), Ring(points[2], 1, FALSE, {2, 3}),
              Ring(points[3], 2, TRUE, {3}), Ring(Square, 3, TRUE, {1, 5})>>,
            <<1, feature, 3>>, 4, {4}, fails, {}) :
     points \in {<<Square, Square, Square>>, <<Bow, Square, Square>>, <<Square, Bow, Bow>>},
     feature \in {1, 2}, fails \in {{}, {2}, {2, 3}}}

Triangle == << <<0, 0>>, <<1, 0>>, <<0, 1>> >>

(* Three parts of one or two features, any of which come coarser.          *)
CoarseCalls ==
  {Polygons([p \in 1..3 |-> Ring(Triangle, p, TRUE, {p, p + 1})],
            <<1, feature, 1>>, 2, {}, fails, coarse) :
     feature \in {1, 2}, fails \in {{}, {2}}, coarse \in (SUBSET (1..3)) \ {{}}}

LineCalls ==
  {Lines(<< <<1, 2, 1>>, second, <<2, 4>> >>, <<1, feature, 1>>, 2, fails) :
     second \in {<<2, 3>>, <<>>}, feature \in {1, 2}, fails \in {{}, {1, 3}}}

MCCalls == RingCalls \cup PartCalls \cup CoarseCalls \cup LineCalls
=============================================================================
