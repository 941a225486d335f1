----------------------------- MODULE MCCovering -----------------------------
(* Covering on a globe of two origins with three quintants each, two      *)
(* cells per level and resolutions up to 2, where only two quintants of    *)
(* the first origin have cells: twelve slots.                              *)
EXTENDS Covering

(* One cell or two, out of order, nested or equal, or missing.             *)
MCCellInputs ==
  {<<>>, <<NA>>, <<NA, Cell(2, 3)>>} \cup {<<c>> : c \in Cells}
  \cup {p \in Cells \X Cells : p[1].slot > p[2].slot /\ p[1].res # p[2].res}
  \cup {<<Cell(1, 2), Cell(2, 2)>>, <<Cell(2, 2), Cell(2, 2)>>}

AnyRawInputs ==
  {<<>>, <<Bad>>} \cup {<<v>> : v \in {WorldCell, Cell(2, 3)} \cup Markers}
  \cup ({WorldCell, Cell(0, SlotCount[0]), Cell(1, 2), Cell(2, 3)} \X Markers)
  \cup (Markers \X {Cell(0, 0), Cell(2, 1), Marker(1)})
  \cup {<<Cell(2, 1), Cell(2, 0)>>, <<Cell(2, 0), Cell(1, 0)>>, <<Bad, Marker(1)>>}

MCRawInputs == {raw \in AnyRawInputs : FineMarker(raw)}
=============================================================================
