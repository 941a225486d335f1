---------------------------- MODULE MCSupercells ----------------------------
(***************************************************************************)
(* Supercells on a torus of six quintants in a row, each a square of 4    *)
(* by 4 finest cells that the curve fills as Hilbert's does.  The cells of *)
(* a coarser resolution are its blocks moved by an offset of their own, so *)
(* that centres leave them.  The last quintant has no finest ids.          *)
(***************************************************************************)
EXTENDS Supercells

Curve == << <<0, 0>>, <<1, 0>>, <<1, 1>>, <<0, 1>>, <<0, 2>>, <<0, 3>>, <<1, 3>>, <<1, 2>>,
            <<2, 2>>, <<2, 3>>, <<3, 3>>, <<3, 2>>, <<3, 1>>, <<2, 1>>, <<2, 0>>, <<3, 0>> >>

Place == [s \in Slots |-> <<4 * (s \div 16) + Curve[(s % 16) + 1][1], Curve[(s % 16) + 1][2]>>]

SlotAt == [xy \in (0..23) \X (0..3) |-> CHOOSE s \in Slots : Place[s] = xy]

Wide(r) == <<8, 4, 2, 1>>[r + 1]

High(r) == <<4, 4, 2, 1>>[r + 1]

(* In halves of a finest cell.                                             *)
Offset(r) == << <<5, 3>>, <<3, 5>>, <<2, -2>>, <<0, 0>> >>[r + 1]

Left(c) == (Place[c.slot][1] \div Wide(c.res)) * Wide(c.res)

Low(c) == (Place[c.slot][2] \div High(c.res)) * High(c.res)

CentreCell(c, r) ==
  LET x == (2 * Left(c) + Wide(c.res) - Offset(r)[1]) % 48
      y == (2 * Low(c) + High(c.res) - Offset(r)[2]) % 8
      s == SlotAt[<<x \div 2, y \div 2>>]
  IN  Cell(r, s - (s % SlotCount[r]))

Apart(a, b, step, size) == LET d == (a - b) % size IN d \in {0, step, size - step}

Touching == [p \in UNION {Blocks(q) : q \in 0..MaxRes} |->
  {q \in Blocks(p.res) : /\ Apart(Left(p), Left(q), Wide(p.res), 24)
                         /\ Apart(Low(p), Low(q), High(p.res), 4)}]

Centres == [c \in UNION {Blocks(q) : q \in 0..MaxRes} |-> [r \in 0..c.res |->
              IF r = c.res THEN c ELSE CentreCell(c, r)]]

MCSuper(c, r) == Centres[c][r]

MCNeighbours(p) == Touching[p]

(* A table of triples.                                                     *)
SubcellTable ==
  UNION {{<<p, r, Coarsest(UNION {Under(c) :
                     c \in {d \in Blocks(SubResolution(p, r)) : Centres[d][p.res] = p}})>> :
            p \in UNION {Blocks(q) : q \in 0..r - 1}} : r \in 1..MaxRes}

MCSubcells(p, r) == (CHOOSE t \in SubcellTable : t[1] = p /\ t[2] = r)[3]

(* Of the finest cells, one in seven.                                     *)
Some == {c \in Cells : c.res >= 0 /\ (c.res = 3 => c.slot % 7 = 0)}

Pairs == {p \in Some \X Some : End(p[1]) <= p[2].slot} \cup {<<c>> : c \in Some}

(* No cell; one or two, at any resolution from their own; many.            *)
MCCoverings ==
  {<<>>, <<Marker(2)>>}
  \cup {WithMarker(<<WorldCell>>, r) : r \in 0..MaxRes}
  \cup UNION {{WithMarker(p, r) : r \in Max({c.res : c \in ToSet(p)})..MaxRes} : p \in Pairs}
  \cup {ToCovering(UNION {Under(Cell(2, 4 * k)) : k \in K}, 3) :
          K \in {1..7, {1, 3, 5, 9, 11}, {0, 2, 7, 8, 10}}}
=============================================================================
