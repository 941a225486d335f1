----------------------------- MODULE MCLonArcs ------------------------------
(* LonArcs on a turn of twelve longitudes, -6 to 5, with vertices at the   *)
(* even ones.                                                              *)
EXTENDS LonArcs

(* There and back over an arc, in steps of 2.                              *)
OverArc(start, width) ==
  [i \in 1..width + 1 |->
     ((start + Half + (IF 2 * (i - 1) <= width THEN 2 * (i - 1) ELSE 2 * (width - i + 1))) % Turn)
       - Half]

EvenLons == {-6, -4, -2, 0, 2, 4}

(* Arcs of every start and width, a whole turn included, edges of up to    *)
(* half a turn, and rings around a pole either way.                        *)
MCRings ==
  {OverArc(s, w) : s \in EvenLons, w \in {0, 2, 4, 6, 8, 10, 12, 14}}
  \cup {<<a, b>> : a \in EvenLons, b \in EvenLons}
  \cup {<<-6, -2, 2>>, <<2, -2, -6>>, <<0, 4, -4>>}
=============================================================================
