--------------------------- MODULE CellTreeProofs ---------------------------
(***************************************************************************)
(* Lemmas about sequences of values, the tree of cells and the coverings   *)
(* that are made of it, for every number of origins, quintants, children   *)
(* and resolutions.                                                        *)
(***************************************************************************)
EXTENDS CellTree, FiniteSetTheorems, TLAPS

-----------------------------------------------------------------------------
(* Arithmetic and induction.                                               *)

LEMMA TimesMonotone ==
  \A a \in Nat : \A i, j \in Int : i <= j => i * a <= j * a
  OBVIOUS

LEMMA TimesCancel ==
  \A a \in Nat \ {0} : \A i, j \in Int : i * a < j * a => i < j
  OBVIOUS

LEMMA Division ==
  \A s \in Nat, a \in Nat \ {0} :
    /\ s \div a \in Nat
    /\ (s \div a) * a <= s /\ s < (s \div a) * a + a
  OBVIOUS

LEMMA DivisionOfMultiple ==
  \A m \in Int, a \in Nat \ {0} : (m * a) \div a = m
  OBVIOUS

LEMMA TimesAssociative == \A a, b, c \in Int : (a * b) * c = a * (b * c)
  OBVIOUS

(* A set of numbers that holds the first of a range and the successor of   *)
(* each it holds has the whole range.                                      *)
LEMMA Upwards ==
  \A S : \A a, b \in Int :
    a \in S /\ (\A i \in a..b - 1 : i \in S => i + 1 \in S) => \A i \in a..b : i \in S
<1> TAKE S
<1> TAKE a, b \in Int
<1> HAVE a \in S /\ \A i \in a..b - 1 : i \in S => i + 1 \in S
<1> DEFINE R == OpToRel(<, Nat)
           missing == {k \in Nat : a + k <= b /\ a + k \notin S}
<1>1. IsWellFoundedOn(R, Nat)
  BY NatLessThanWellFounded
<1>2. \A i, j \in Nat : <<i, j>> \in R <=> i < j
  BY DEF OpToRel
<1> HIDE DEF R
<1>3. missing = {}
  <2> SUFFICES ASSUME missing # {} PROVE FALSE
    OBVIOUS
  <2>1. PICK k \in missing : \A j \in missing : ~(<<j, k>> \in R)
    BY <1>1, WFMin
  <2>2. k \in Nat /\ a + k <= b /\ a + k \notin S
    BY <2>1
  <2>3. k # 0
    BY <2>2
  <2>4. k - 1 \in Nat /\ k - 1 < k /\ a + (k - 1) <= b /\ a + (k - 1) \in a..b - 1
    BY <2>2, <2>3
  <2>5. a + (k - 1) \in S
    BY <1>2, <2>1, <2>2, <2>4
  <2>6. a + (k - 1) + 1 = a + k
    BY <2>2
  <2> QED
    BY <2>2, <2>4, <2>5, <2>6
<1>4. \A i \in a..b : i - a \in Nat /\ a + (i - a) = i /\ i <= b
  OBVIOUS
<1>5. \A i \in a..b : i - a \notin missing
  BY <1>3
<1> QED
  BY <1>4, <1>5

-----------------------------------------------------------------------------
(* The tree.                                                               *)

SlotStep(r, counts) == IF r = MaxRes THEN 1 ELSE Arity(r) * counts[r + 1]

Counted(n) == \E f : f = [r \in MaxRes - n..MaxRes |-> SlotStep(r, f)]

LEMMA SlotCountDef ==
  /\ SlotCount[MaxRes] = 1
  /\ \A r \in -1..MaxRes - 1 : SlotCount[r] = Arity(r) * SlotCount[r + 1]
<1>0. MaxRes \in Nat \ {0, 1}
  BY TreeAssumption
<1>1. Counted(0)
  <2>1. MaxRes - 0..MaxRes = {MaxRes}
    BY <1>0
  <2>2. [r \in {MaxRes} |-> 1] = [r \in MaxRes - 0..MaxRes |-> SlotStep(r, [r1 \in {MaxRes} |-> 1])]
    BY <2>1 DEF SlotStep
  <2> QED
    BY <2>2 DEF Counted
<1>2. ASSUME NEW n \in 0..MaxRes, Counted(n) PROVE Counted(n + 1)
  <2>1. PICK f : f = [r \in MaxRes - n..MaxRes |-> SlotStep(r, f)]
    BY <1>2 DEF Counted
  <2> DEFINE g == [r \in MaxRes - (n + 1)..MaxRes |->
                     IF r = MaxRes - (n + 1) THEN SlotStep(r, f) ELSE f[r]]
  <2>2. \A r \in MaxRes - (n + 1)..MaxRes : g[r] = SlotStep(r, g)
    BY <1>0, <2>1 DEF SlotStep
  <2>3. g = [r \in MaxRes - (n + 1)..MaxRes |-> SlotStep(r, g)]
    <3>1. g = [r \in MaxRes - (n + 1)..MaxRes |-> g[r]]
      OBVIOUS
    <3> QED
      BY <2>2, <3>1
  <2> HIDE DEF g
  <2> QED
    BY <2>3 DEF Counted
<1>3. Counted(MaxRes + 1)
  <2> DEFINE S == {n \in Int : Counted(n)}
  <2>1. 0 \in S /\ \A i \in 0..MaxRes + 1 - 1 : i \in S => i + 1 \in S
    BY <1>0, <1>1, <1>2
  <2> HIDE DEF S
  <2>2. \A i \in 0..MaxRes + 1 : i \in S
    BY <1>0, <2>1, Upwards
  <2> QED
    BY <1>0, <2>2 DEF S
<1>4. \E f : f = [r \in Resolutions |-> IF r = MaxRes THEN 1 ELSE Arity(r) * f[r + 1]]
  BY <1>0, <1>3 DEF Resolutions, SlotStep, Counted
<1>5. SlotCount = [r \in Resolutions |-> IF r = MaxRes THEN 1 ELSE Arity(r) * SlotCount[r + 1]]
  BY <1>4 DEF SlotCount
<1> QED
  BY <1>0, <1>5 DEF Resolutions

(* A block of a resolution is made of whole blocks of each finer one.      *)
Whole(q, r) == \E m \in Nat \ {0} : SlotCount[q] = m * SlotCount[r]

LEMMA SlotCountsDivide ==
  \A r \in Resolutions :
    /\ SlotCount[r] \in Nat \ {0}
    /\ \A q \in -1..r : Whole(q, r)
<1>0. MaxRes \in Nat \ {0, 1} /\ Resolutions = -1..MaxRes
  BY TreeAssumption DEF Resolutions
<1>1. \A q \in -1..MaxRes : Arity(q) \in Nat \ {0}
  BY TreeAssumption DEF Arity
<1> DEFINE P(n) == SlotCount[MaxRes - n] \in Nat \ {0}
<1>2. P(0)
  BY <1>0, SlotCountDef
<1>3. ASSUME NEW n \in 0..MaxRes, P(n) PROVE P(n + 1)
  <2>1. SlotCount[MaxRes - (n + 1)] = Arity(MaxRes - (n + 1)) * SlotCount[MaxRes - n]
    BY <1>0, SlotCountDef
  <2>2. Arity(MaxRes - (n + 1)) \in Nat \ {0} /\ SlotCount[MaxRes - n] \in Nat \ {0}
    BY <1>0, <1>1, <1>3
  <2> QED
    BY <2>1, <2>2
<1>4. \A n \in 0..MaxRes + 1 : P(n)
  <2> HIDE DEF P
  <2> DEFINE S == {n \in Int : P(n)}
  <2>1. 0 \in S /\ \A i \in 0..MaxRes + 1 - 1 : i \in S => i + 1 \in S
    BY <1>0, <1>2, <1>3
  <2> HIDE DEF S
  <2>2. \A i \in 0..MaxRes + 1 : i \in S
    BY <1>0, <2>1, Upwards
  <2> QED
    BY <2>2 DEF S
<1>5. \A q \in -1..MaxRes : SlotCount[q] \in Nat \ {0}
  <2> TAKE q \in -1..MaxRes
  <2>1. MaxRes - q \in 0..MaxRes + 1 /\ MaxRes - (MaxRes - q) = q
    BY <1>0
  <2> QED
    BY <1>4, <2>1
<1>6. ASSUME NEW r \in -1..MaxRes, NEW q \in -1..r PROVE Whole(q, r)
  <2> DEFINE W(n) == Whole(r - n, r)
  <2>1. W(0)
    <3>1. SlotCount[r - 0] = 1 * SlotCount[r]
      BY <1>5
    <3> QED
      BY <3>1 DEF Whole
  <2>2. ASSUME NEW n \in 0..r, W(n) PROVE W(n + 1)
    <3>1. PICK m \in Nat \ {0} : SlotCount[r - n] = m * SlotCount[r]
      BY <2>2 DEF Whole
    <3>2. /\ r - (n + 1) \in -1..MaxRes - 1 /\ r - (n + 1) + 1 = r - n
          /\ r - (n + 1) \in -1..MaxRes
      BY <1>0
    <3>3. SlotCount[r - (n + 1)] = Arity(r - (n + 1)) * (m * SlotCount[r])
      BY <3>1, <3>2, SlotCountDef
    <3>4. Arity(r - (n + 1)) \in Nat \ {0} /\ SlotCount[r] \in Nat \ {0}
      BY <1>1, <1>5, <3>2
    <3>5. Arity(r - (n + 1)) * m \in Nat \ {0}
      BY <3>4
    <3>6. SlotCount[r - (n + 1)] = (Arity(r - (n + 1)) * m) * SlotCount[r]
      BY <3>3, <3>4
    <3> QED
      BY <3>5, <3>6 DEF Whole
  <2>3. W(r - q)
    <3> HIDE DEF W
    <3> DEFINE S == {n \in Int : W(n)}
    <3>1. 0 \in S /\ \A i \in 0..r + 1 - 1 : i \in S => i + 1 \in S
      BY <1>0, <2>1, <2>2
    <3> HIDE DEF S
    <3>2. r + 1 \in Int
      OBVIOUS
    <3>3. \A i \in 0..r + 1 : i \in S
      BY <3>1, <3>2, Upwards
    <3> QED
      BY <1>0, <3>3 DEF S
  <2>4. r - (r - q) = q
    BY <1>0
  <2> QED
    BY <2>3, <2>4
<1> QED
  BY <1>0, <1>5, <1>6

LEMMA BlockType ==
  \A r \in Resolutions : \A c \in Blocks(r) :
    /\ c.res = r /\ c.slot \in Slots /\ c = Cell(r, c.slot)
    /\ \E k \in Nat : c.slot = k * SlotCount[r]
    /\ Under(c) = c.slot..c.slot + SlotCount[r] - 1
    /\ Under(c) \subseteq Slots /\ c.slot \in Under(c)
<1> TAKE r \in Resolutions
<1> DEFINE b == SlotCount[r]
<1>1. b \in Nat \ {0} /\ -1 \in Resolutions /\ World \in Nat \ {0}
  BY TreeAssumption, SlotCountsDivide DEF Resolutions, World
<1>2. PICK m \in Nat \ {0} : World = m * b
  BY SlotCountsDivide, TreeAssumption DEF Whole, Resolutions, World
<1>3. World \div b = m
  BY <1>1, <1>2, DivisionOfMultiple
<1> TAKE c \in Blocks(r)
<1>4. PICK k \in 0..m - 1 : c = Cell(r, k * b)
  BY <1>3 DEF Blocks
<1>5. c.res = r /\ c.slot = k * b /\ c = Cell(r, c.slot)
  BY <1>4 DEF Cell
<1>6. k * b \in Nat /\ (k + 1) * b = k * b + b /\ (k + 1) * b <= m * b
  BY <1>1, TimesMonotone
<1>7. Under(c) = c.slot..c.slot + b - 1
  BY <1>5 DEF Under
<1> HIDE DEF b
<1>8. c.slot \in Slots /\ Under(c) \subseteq Slots /\ c.slot \in Under(c)
  BY <1>1, <1>2, <1>5, <1>6, <1>7 DEF Slots
<1> QED
  BY <1>5, <1>7, <1>8 DEF b

LEMMA CellType ==
  \A c \in Cells :
    /\ c.res \in Resolutions /\ c \in Blocks(c.res) /\ HasId(c)
    /\ c.slot \in Slots /\ Under(c) \subseteq Slots /\ c.slot \in Under(c)
  BY BlockType DEF Cells

LEMMA MarkerNoCell == \A m \in Markers : m \notin Cells
<1>1. \A c \in Cells : c.slot \in Slots
  BY CellType
<1>2. World \in Nat
  BY TreeAssumption, SlotCountsDivide DEF Resolutions, World
<1> QED
  BY <1>1, <1>2 DEF Markers, Marker, Cell, Slots

BlockAt(r, s) == Cell(r, (s \div SlotCount[r]) * SlotCount[r])

(* Every slot is in a block of each resolution.                            *)
LEMMA BlockAround ==
  \A r \in Resolutions : \A s \in Slots : BlockAt(r, s) \in Blocks(r) /\ s \in Under(BlockAt(r, s))
<1> TAKE r \in Resolutions
<1> TAKE s \in Slots
<1> DEFINE b == SlotCount[r]
           k == s \div b
<1>1. b \in Nat \ {0} /\ World \in Nat \ {0}
  BY TreeAssumption, SlotCountsDivide DEF Resolutions, World
<1>2. PICK m \in Nat \ {0} : World = m * b
  BY SlotCountsDivide, TreeAssumption DEF Whole, Resolutions, World
<1>3. World \div b = m
  BY <1>1, <1>2, DivisionOfMultiple
<1>4. s \in Nat /\ s < m * b
  BY <1>1, <1>2 DEF Slots
<1>5. k \in Nat /\ k * b <= s /\ s < k * b + b
  BY <1>1, <1>4, Division
<1>6. k * b < m * b /\ k * b \in Nat
  BY <1>1, <1>4, <1>5
<1> HIDE DEF k
<1>7. k < m
  BY <1>1, <1>5, <1>6, TimesCancel
<1>8. BlockAt(r, s) = Cell(r, k * b)
  BY DEF BlockAt, k
<1>9. BlockAt(r, s) \in Blocks(r)
  BY <1>3, <1>5, <1>7, <1>8 DEF Blocks
<1>10. Under(BlockAt(r, s)) = k * b..k * b + b - 1
  BY <1>8 DEF Under, Cell
<1> QED
  BY <1>1, <1>4, <1>5, <1>6, <1>9, <1>10

Meet(c, d) == Under(c) \cap Under(d) # {}

(* Blocks that meet are nested, and one of the same resolution is equal.   *)
LEMMA BlocksNest ==
  \A r \in Resolutions : \A q \in -1..r : \A c \in Blocks(q), d \in Blocks(r) :
    Meet(c, d) => Under(d) \subseteq Under(c)
<1> TAKE r \in Resolutions
<1> TAKE q \in -1..r
<1> TAKE c \in Blocks(q), d \in Blocks(r)
<1> HAVE Meet(c, d)
<1> DEFINE b == SlotCount[r]
<1>1. q \in Resolutions
  BY TreeAssumption DEF Resolutions
<1>2. b \in Nat \ {0}
  BY SlotCountsDivide
<1>3. PICK m \in Nat \ {0} : SlotCount[q] = m * b
  BY SlotCountsDivide DEF Whole
<1> HIDE DEF b
<1>4. PICK k \in Nat : c.slot = k * (m * b)
  BY <1>1, <1>3, BlockType
<1>5. PICK j \in Nat : d.slot = j * b
  BY BlockType DEF b
<1>6. Under(c) = c.slot..c.slot + m * b - 1
  BY <1>1, <1>3, BlockType
<1>7. Under(d) = d.slot..d.slot + b - 1
  BY BlockType DEF b
<1> DEFINE i == k * m
<1>8. i \in Nat /\ k * (m * b) = i * b /\ i * b \in Nat /\ i * b + m * b = (i + m) * b
  BY <1>2
<1>9. (i + m) * b \in Nat /\ j * b \in Nat /\ (j + 1) * b = j * b + b
  BY <1>2, <1>8
<1> HIDE DEF i
<1>10. PICK s \in Int : /\ i * b <= s /\ s < (i + m) * b
                         /\ j * b <= s /\ s < (j + 1) * b
  <2>1. PICK s \in Under(c) : s \in Under(d)
    BY DEF Meet
  <2>2. Under(c) = i * b..(i + m) * b - 1
    BY <1>2, <1>4, <1>6, <1>8, <1>9
  <2>3. Under(d) = j * b..(j + 1) * b - 1
    BY <1>2, <1>5, <1>7, <1>9
  <2>4. s \in i * b..(i + m) * b - 1 /\ s \in j * b..(j + 1) * b - 1
    BY <2>1, <2>2, <2>3
  <2>5. \A e, f, n \in Nat : n \in e..f - 1 => n \in Int /\ e <= n /\ n < f
    OBVIOUS
  <2>6. s \in Nat /\ j * b + b \in Nat
    BY <1>2, <1>8, <1>9, <2>4
  <2>7. s \in Int /\ i * b <= s /\ s < (i + m) * b
    BY <1>8, <1>9, <2>4, <2>5, <2>6
  <2>8. j * b <= s /\ s < (j + 1) * b
    BY <1>9, <2>4, <2>5, <2>6
  <2> QED
    BY <2>7, <2>8
<1>11. i * b < (j + 1) * b /\ j * b < (i + m) * b
  BY <1>2, <1>8, <1>9, <1>10
<1>12. i < j + 1 /\ j < i + m
  BY <1>2, <1>8, <1>11, TimesCancel
<1>13. i * b <= j * b /\ (j + 1) * b <= (i + m) * b
  BY <1>2, <1>8, <1>12, TimesMonotone
<1> QED
  BY <1>2, <1>4, <1>5, <1>6, <1>7, <1>8, <1>9, <1>13

LEMMA CellsNest ==
  \A c, d \in Cells : Meet(c, d) /\ c.res <= d.res => Under(d) \subseteq Under(c)
<1> TAKE c, d \in Cells
<1>1. c.res \in Resolutions /\ d.res \in Resolutions /\ c \in Blocks(c.res) /\ d \in Blocks(d.res)
  BY CellType
<1>2. c.res <= d.res => c.res \in -1..d.res
  BY <1>1, TreeAssumption DEF Resolutions
<1> QED
  BY <1>1, <1>2, BlocksNest

LEMMA CellsEqual ==
  \A c, d \in Cells : Meet(c, d) /\ c.res = d.res => c = d
<1> TAKE c, d \in Cells
<1> HAVE Meet(c, d) /\ c.res = d.res
<1>1. c.slot \in Under(c) /\ d.slot \in Under(d) /\ c.slot \in Nat /\ d.slot \in Nat
  BY CellType, SlotCountsDivide, TreeAssumption DEF Slots, World, Resolutions
<1>2. c.res \in Resolutions /\ c.res <= d.res /\ d.res <= c.res /\ Meet(d, c)
  BY CellType, TreeAssumption DEF Resolutions, Meet
<1>3. Under(d) \subseteq Under(c) /\ Under(c) \subseteq Under(d)
  BY <1>2, CellsNest
<1>4. c.slot \in Under(d) /\ d.slot \in Under(c)
  BY <1>1, <1>3
<1>5. SlotCount[c.res] \in Nat
  BY <1>2, SlotCountsDivide
<1>6. c.slot = d.slot
  BY <1>1, <1>4, <1>5 DEF Under
<1>7. c = Cell(c.res, c.slot) /\ d = Cell(d.res, d.slot)
  BY CellType, BlockType
<1> QED
  BY <1>6, <1>7

(* The smallest cell of a resolution or coarser around a slot: one of the  *)
(* blocks without ids is in none finer than the block above it.            *)
LEMMA Atoms ==
  \A r \in Resolutions : \A s \in Slots :
    \E a \in Cells : /\ a.res <= r /\ s \in Under(a)
                     /\ \A d \in Cells : d.res <= r /\ Meet(d, a) => Under(a) \subseteq Under(d)
<1> TAKE r \in Resolutions
<1> TAKE s \in Slots
<1>0. /\ MaxRes \in Nat \ {0, 1} /\ Resolutions = -1..MaxRes
      /\ TopQuintants \in Nat /\ World \in Nat \ {0} /\ SlotCount[1] \in Nat \ {0}
  <2>1. MaxRes \in Nat \ {0, 1} /\ Resolutions = -1..MaxRes /\ TopQuintants \in 0..Origins * Segments
    BY TreeAssumption DEF Resolutions
  <2>2. World \in Nat \ {0} /\ SlotCount[1] \in Nat \ {0}
    BY <2>1, SlotCountsDivide DEF World
  <2> QED
    BY <2>1, <2>2
<1>1. CASE HasId(BlockAt(r, s))
  <2>1. BlockAt(r, s) \in Cells
    BY <1>1, BlockAround DEF Cells
  <2>2. BlockAt(r, s).res = r
    BY DEF BlockAt, Cell
  <2>3. r <= r
    BY <1>0
  <2> QED
    BY <2>1, <2>2, <2>3, BlockAround, CellsNest
<1>2. CASE ~HasId(BlockAt(r, s))
  <2> DEFINE a == BlockAt(r - 1, s)
             ids == TopQuintants * SlotCount[1]
  <2>1. r = MaxRes /\ ids \in Nat /\ ~(BlockAt(r, s).slot < ids) /\ BlockAt(r, s).res = r
    BY <1>0, <1>2 DEF HasId, BlockAt, Cell
  <2>2. s \in Nat
    BY <1>0 DEF Slots
  <2>3. SlotCount[r] = 1
    BY <2>1, SlotCountDef
  <2>4. BlockAt(r, s).slot = s
    BY <2>2, <2>3 DEF BlockAt, Cell
  <2>5. ~(s < ids)
    BY <2>1, <2>4
  <2>6. r - 1 \in Resolutions /\ r - 1 # MaxRes /\ 1 \in -1..r - 1 /\ 1 \in Resolutions
    BY <1>0, <2>1
  <2>7. a.res = r - 1 /\ a \in Blocks(r - 1) /\ s \in Under(a)
    BY <2>6, BlockAround DEF BlockAt, Cell
  <2> HIDE DEF a
  <2>8. a \in Cells
    BY <2>6, <2>7 DEF Cells, HasId
  <2>9. ASSUME NEW d \in Cells, d.res <= r, Meet(d, a) PROVE Under(a) \subseteq Under(d)
    <3>1. d.res \in -1..MaxRes
      BY <1>0, CellType
    <3>2. CASE d.res <= r - 1
      BY <2>7, <2>8, <2>9, <3>2, CellsNest
    <3>3. CASE d.res = r
      <4>1. d.slot < ids /\ d.slot \in Slots /\ d.slot \in Nat
        BY <1>0, <2>1, <3>3, CellType DEF HasId, Slots
      <4>2. Under(d) = {d.slot}
        BY <2>3, <3>3, <4>1 DEF Under
      <4>3. d.slot \in Under(a)
        BY <2>9, <4>2 DEF Meet
      <4> DEFINE c == BlockAt(1, d.slot)
      <4>4. c \in Blocks(1) /\ d.slot \in Under(c)
        BY <2>6, <4>1, BlockAround
      <4> HIDE DEF c
      <4>5. Under(a) \subseteq Under(c)
        BY <2>6, <2>7, <4>3, <4>4, BlocksNest DEF Meet
      <4>6. s \in Under(c)
        BY <2>7, <4>5
      <4>7. PICK k \in Nat : c.slot = k * SlotCount[1]
        BY <2>6, <4>4, BlockType
      <4>8. Under(c) = c.slot..c.slot + SlotCount[1] - 1
        BY <2>6, <4>4, BlockType
      <4>9. k * SlotCount[1] \in Nat /\ k * SlotCount[1] + SlotCount[1] = (k + 1) * SlotCount[1]
        BY <1>0
      <4>10. k * SlotCount[1] < TopQuintants * SlotCount[1]
        <5>1. c.slot \in Nat /\ c.slot <= d.slot
          BY <4>1, <4>4, <4>7, <4>8, <4>9
        <5> QED
          BY <2>1, <4>1, <4>7, <4>9, <5>1
      <4>11. k < TopQuintants
        BY <1>0, <4>10, TimesCancel
      <4>12. (k + 1) * SlotCount[1] <= TopQuintants * SlotCount[1]
        BY <1>0, <4>11, TimesMonotone
      <4>13. s < ids
        <5>1. s <= c.slot + SlotCount[1] - 1
          BY <4>6, <4>8
        <5>2. s <= k * SlotCount[1] + SlotCount[1] - 1 /\ (k + 1) * SlotCount[1] <= ids
          BY <4>7, <4>12, <5>1
        <5> DEFINE u == k * SlotCount[1]
                   v == (k + 1) * SlotCount[1]
        <5>3. u \in Nat /\ u + SlotCount[1] = v /\ SlotCount[1] \in Nat
          BY <1>0, <4>9
        <5>4. s <= u + SlotCount[1] - 1 /\ v <= ids /\ ids \in Nat
          BY <2>1, <5>2
        <5> HIDE DEF u, v, ids
        <5> QED
          BY <2>2, <5>3, <5>4
      <4> QED
        BY <2>5, <4>13
    <3> QED
      BY <1>0, <2>1, <2>9, <3>1, <3>2, <3>3
  <2> QED
    BY <1>0, <2>1, <2>7, <2>8, <2>9
<1> QED
  BY <1>1, <1>2

-----------------------------------------------------------------------------
(* Sets of slots that cells of a resolution or coarser fill.               *)

FilledAt(S, s, r) == \E c \in Cells : c.res <= r /\ s \in Under(c) /\ Under(c) \subseteq S

Full(S, r) == S \subseteq Slots /\ \A s \in S : FilledAt(S, s, r)

LEMMA FullUnion ==
  \A S, T : \A r \in Resolutions : Full(S, r) /\ Full(T, r) => Full(S \cup T, r)
<1> TAKE S, T
<1> TAKE r \in Resolutions
<1> HAVE Full(S, r) /\ Full(T, r)
<1>1. \A s \in S : FilledAt(S \cup T, s, r)
  BY DEF Full, FilledAt
<1>2. \A s \in T : FilledAt(S \cup T, s, r)
  BY DEF Full, FilledAt
<1> QED
  BY <1>1, <1>2 DEF Full

LEMMA FullMeet ==
  \A S, T : \A r \in Resolutions : Full(S, r) /\ Full(T, r) => Full(S \cap T, r)
<1> TAKE S, T
<1> TAKE r \in Resolutions
<1> HAVE Full(S, r) /\ Full(T, r)
<1>1. ASSUME NEW s \in S \cap T PROVE FilledAt(S \cap T, s, r)
  <2>1. s \in Slots
    BY DEF Full
  <2>2. PICK a \in Cells : /\ a.res <= r /\ s \in Under(a)
                           /\ \A d \in Cells : d.res <= r /\ Meet(d, a) => Under(a) \subseteq Under(d)
    BY <2>1, Atoms
  <2>3. PICK c \in Cells : c.res <= r /\ s \in Under(c) /\ Under(c) \subseteq S
    BY DEF Full, FilledAt
  <2>4. PICK d \in Cells : d.res <= r /\ s \in Under(d) /\ Under(d) \subseteq T
    BY DEF Full, FilledAt
  <2>5. Meet(c, a) /\ Meet(d, a)
    BY <2>2, <2>3, <2>4 DEF Meet
  <2>6. Under(a) \subseteq Under(c) /\ Under(a) \subseteq Under(d)
    BY <2>2, <2>3, <2>4, <2>5
  <2> QED
    BY <2>2, <2>3, <2>4, <2>6 DEF FilledAt
<1> QED
  BY <1>1 DEF Full

LEMMA FullMinus ==
  \A S, T : \A r \in Resolutions : Full(S, r) /\ Full(T, r) => Full(S \ T, r)
<1> TAKE S, T
<1> TAKE r \in Resolutions
<1> HAVE Full(S, r) /\ Full(T, r)
<1>1. ASSUME NEW s \in S \ T PROVE FilledAt(S \ T, s, r)
  <2>1. s \in Slots
    BY DEF Full
  <2>2. PICK a \in Cells : /\ a.res <= r /\ s \in Under(a)
                           /\ \A d \in Cells : d.res <= r /\ Meet(d, a) => Under(a) \subseteq Under(d)
    BY <2>1, Atoms
  <2>3. PICK c \in Cells : c.res <= r /\ s \in Under(c) /\ Under(c) \subseteq S
    BY DEF Full, FilledAt
  <2>4. Meet(c, a)
    BY <2>2, <2>3 DEF Meet
  <2>5. Under(a) \subseteq S
    BY <2>2, <2>3, <2>4
  <2>6. ASSUME NEW t \in Under(a) \cap T PROVE FALSE
    <3>1. PICK d \in Cells : d.res <= r /\ t \in Under(d) /\ Under(d) \subseteq T
      BY <2>6 DEF Full, FilledAt
    <3>2. Meet(d, a)
      BY <2>6, <3>1 DEF Meet
    <3>3. s \in Under(d)
      BY <2>2, <3>1, <3>2
    <3> QED
      BY <1>1, <3>1, <3>3
  <2>7. Under(a) \subseteq S \ T
    BY <2>5, <2>6
  <2> QED
    BY <2>2, <2>7 DEF FilledAt
<1> QED
  BY <1>1 DEF Full

(* Cells that are no finer fill the set of their slots.                    *)
LEMMA FullOfCells ==
  \A C : \A r \in Resolutions :
    C \subseteq Cells /\ (\A c \in C : c.res <= r) => Full(UNION {Under(c) : c \in C}, r)
<1> TAKE C
<1> TAKE r \in Resolutions
<1> HAVE C \subseteq Cells /\ (\A c \in C : c.res <= r)
<1> DEFINE S == UNION {Under(c) : c \in C}
<1>1. S \subseteq Slots
  BY CellType
<1>2. \A s \in S : \E c \in C : s \in Under(c) /\ Under(c) \subseteq S
  OBVIOUS
<1> HIDE DEF S
<1>3. \A s \in S : FilledAt(S, s, r)
  BY <1>2 DEF FilledAt
<1>4. Full(S, r)
  BY <1>1, <1>3 DEF Full
<1> QED
  BY <1>4 DEF S

LEMMA FullCoarser ==
  \A S : \A q, r \in Resolutions : q <= r /\ Full(S, q) => Full(S, r)
<1> TAKE S
<1> TAKE q, r \in Resolutions
<1>1. \A c \in Cells : c.res \in Int
  BY CellType, TreeAssumption DEF Resolutions
<1>2. q \in Int /\ r \in Int
  BY TreeAssumption DEF Resolutions
<1> QED
  BY <1>1, <1>2 DEF Full, FilledAt

(* At the world's resolution a set is empty or everything.                 *)
LEMMA FullWorld == \A S : Full(S, -1) => S \in {{}, Slots}
<1> TAKE S
<1> HAVE Full(S, -1)
<1> SUFFICES ASSUME NEW s \in S PROVE S = Slots
  OBVIOUS
<1>1. PICK c \in Cells : c.res <= -1 /\ s \in Under(c) /\ Under(c) \subseteq S
  BY DEF Full, FilledAt
<1>2. c.res = -1 /\ c.slot \in Slots /\ Under(c) \subseteq Slots /\ World \in Nat \ {0}
  BY <1>1, CellType, SlotCountsDivide, TreeAssumption DEF Resolutions, World
<1>3. Under(c) = c.slot..c.slot + World - 1
  BY <1>2 DEF Under, World
<1>4. c.slot + World - 1 \in Under(c)
  BY <1>2, <1>3 DEF Slots
<1>5. c.slot = 0
  BY <1>2, <1>4 DEF Slots
<1>6. Under(c) = Slots
  <2>1. 0 + World - 1 = World - 1
    BY <1>2
  <2> QED
    BY <1>3, <1>5, <2>1 DEF Slots
<1>7. S \subseteq Slots
  BY DEF Full
<1> QED
  BY <1>1, <1>6, <1>7

-----------------------------------------------------------------------------
(* The stored form of a set of slots.                                      *)

LEMMA Least ==
  \A S : \A a \in Int : S \subseteq Int /\ S # {} /\ (\A i \in S : a <= i)
    => \E m \in S : \A i \in S : m <= i
<1> TAKE S
<1> TAKE a \in Int
<1> HAVE S \subseteq Int /\ S # {} /\ (\A i \in S : a <= i)
<1> DEFINE R == OpToRel(<, Nat)
           shifted == {i - a : i \in S}
<1>1. IsWellFoundedOn(R, Nat)
  BY NatLessThanWellFounded
<1>2. \A i, j \in Nat : <<i, j>> \in R <=> i < j
  BY DEF OpToRel
<1>3. shifted \subseteq Nat /\ shifted # {}
  <2>1. \A i \in S : i - a \in Nat
    OBVIOUS
  <2>2. \E i \in S : i - a \in shifted
    OBVIOUS
  <2> QED
    BY <2>1, <2>2
<1> HIDE DEF R, shifted
<1>4. PICK k \in shifted : \A j \in shifted : ~(<<j, k>> \in R)
  BY <1>1, <1>3, WFMin
<1>5. PICK m \in S : k = m - a
  BY DEF shifted
<1>6. ASSUME NEW i \in S PROVE m <= i
  <2>1. i - a \in shifted /\ i - a \in Nat /\ k \in Nat
    BY <1>3 DEF shifted
  <2>2. ~(i - a < k)
    BY <1>2, <1>4, <2>1
  <2> QED
    BY <1>5, <2>2
<1> QED
  BY <1>6

Apart(C) == C \subseteq Cells /\ \A c, d \in C : Meet(c, d) => c = d

LEMMA CoarsestFills ==
  \A S : \A r \in Resolutions : Full(S, r) =>
    /\ Apart(Coarsest(S))
    /\ \A c \in Coarsest(S) : c.res <= r /\ Under(c) \subseteq S
    /\ \A s \in S : \E c \in Coarsest(S) : s \in Under(c)
<1> TAKE S
<1> TAKE r \in Resolutions
<1> HAVE Full(S, r)
<1> DEFINE inside == {c \in Cells : Under(c) \subseteq S}
<1>0. \A c \in Cells : c.res \in Int /\ -1 <= c.res
  BY CellType, TreeAssumption DEF Resolutions
<1>1. \A c \in Coarsest(S) : c \in inside /\ \A d \in inside : d.res < c.res => c.slot \notin Under(d)
  BY DEF Coarsest
<1>2. \A c \in inside : (\A d \in inside : d.res < c.res => c.slot \notin Under(d)) => c \in Coarsest(S)
  BY DEF Coarsest
<1>3. ASSUME NEW c \in Coarsest(S), NEW d \in Coarsest(S), Meet(c, d), c.res <= d.res
      PROVE  c = d
  <2>1. c \in inside /\ d \in inside
    BY <1>1
  <2>2. Under(d) \subseteq Under(c) /\ d.slot \in Under(d)
    BY <1>3, <2>1, CellsNest, CellType
  <2>3. ~(c.res < d.res)
    BY <1>1, <2>1, <2>2
  <2>4. c.res = d.res
    BY <1>0, <1>3, <2>1, <2>3
  <2> QED
    BY <1>3, <2>1, <2>4, CellsEqual
<1>4. Apart(Coarsest(S))
  <2>1. \A c, d \in Coarsest(S) : (c.res <= d.res \/ d.res <= c.res) /\ (Meet(c, d) <=> Meet(d, c))
    BY <1>0, <1>1 DEF Meet
  <2> QED
    BY <1>1, <1>3, <2>1 DEF Apart
<1>5. ASSUME NEW c \in Coarsest(S) PROVE c.res <= r /\ Under(c) \subseteq S
  <2>1. c \in inside /\ c.slot \in Under(c)
    BY <1>1, CellType
  <2>2. PICK d \in Cells : d.res <= r /\ c.slot \in Under(d) /\ Under(d) \subseteq S
    BY <2>1 DEF Full, FilledAt
  <2>3. ~(d.res < c.res)
    BY <1>1, <2>2
  <2>4. r \in Int
    BY TreeAssumption DEF Resolutions
  <2> QED
    BY <1>0, <2>1, <2>2, <2>3, <2>4
<1>6. ASSUME NEW s \in S PROVE \E c \in Coarsest(S) : s \in Under(c)
  <2> DEFINE around == {c \in inside : s \in Under(c)}
             levels == {c.res : c \in around}
  <2>1. around # {}
    BY DEF Full, FilledAt
  <2>2. levels \subseteq Int /\ levels # {} /\ \A i \in levels : -1 <= i
    BY <1>0, <2>1
  <2> HIDE DEF levels
  <2>3. PICK m \in levels : \A i \in levels : m <= i
    <3>1. -1 \in Int
      OBVIOUS
    <3> QED
      BY <2>2, <3>1, Least
  <2>4. PICK c \in around : m = c.res
    BY DEF levels
  <2>5. ASSUME NEW d \in inside, d.res < c.res, c.slot \in Under(d) PROVE FALSE
    <3>1. Meet(d, c) /\ d.res <= c.res
      BY <1>0, <2>5, CellType DEF Meet
    <3>2. Under(c) \subseteq Under(d)
      BY <3>1, CellsNest
    <3>3. d \in around
      BY <3>2
    <3>4. d.res \in levels
      BY <3>3 DEF levels
    <3> QED
      BY <1>0, <2>3, <2>4, <2>5, <3>4
  <2> QED
    BY <1>2, <2>4, <2>5
<1> QED
  BY <1>4, <1>5, <1>6

(* Cells apart are finitely many, and their order on the curve is total.   *)
LEMMA ApartOrder ==
  \A C : Apart(C) =>
    /\ IsFiniteSet(C)
    /\ \A c, d \in C : c # d /\ c.slot <= d.slot => c.slot + SlotCount[c.res] <= d.slot
    /\ \A c, d \in C : c.slot = d.slot => c = d
<1> TAKE C
<1> HAVE Apart(C)
<1>0. World \in Nat
  BY SlotCountsDivide, TreeAssumption DEF World, Resolutions
<1>1. \A c \in C : /\ c.slot \in Slots /\ c.slot \in Under(c) /\ c.slot \in Nat
                   /\ SlotCount[c.res] \in Nat \ {0}
                   /\ Under(c) = c.slot..c.slot + SlotCount[c.res] - 1
  BY <1>0, CellType, SlotCountsDivide DEF Apart, Slots, Under
<1>2. \A c, d \in C : c.slot = d.slot => c = d
  BY <1>1 DEF Apart, Meet
<1>3. ASSUME NEW c \in C, NEW d \in C, c # d, c.slot <= d.slot
      PROVE  c.slot + SlotCount[c.res] <= d.slot
  <2>1. d.slot \notin Under(c)
    BY <1>1, <1>3 DEF Apart, Meet
  <2> QED
    BY <1>1, <1>3, <2>1
<1>4. IsFiniteSet(C)
  <2> DEFINE f == [c \in C |-> c.slot]
  <2>1. f \in [C -> Slots]
    BY <1>1
  <2>2. \A c, d \in C : f[c] = f[d] => c = d
    BY <1>2
  <2>3. f \in Injection(C, Slots)
    BY <2>1, <2>2 DEF Injection, IsInjective
  <2>4. IsFiniteSet(Slots)
    BY <1>0, FS_Interval DEF Slots
  <2> QED
    BY <2>3, <2>4, FS_Injection
<1> QED
  BY <1>2, <1>3, <1>4

UpTo(C, c) == {d \in C : d.slot <= c.slot}

LEMMA CurveOrder ==
  \A C : Apart(C) =>
    /\ Cardinality(C) \in Nat
    /\ InCurveOrder(C) \in [1..Cardinality(C) -> C]
    /\ {InCurveOrder(C)[i] : i \in 1..Cardinality(C)} = C
    /\ \A i, j \in 1..Cardinality(C) : i < j =>
         InCurveOrder(C)[i].slot + SlotCount[InCurveOrder(C)[i].res] <= InCurveOrder(C)[j].slot
<1> TAKE C
<1> HAVE Apart(C)
<1> DEFINE n == Cardinality(C)
           rank == [c \in C |-> Cardinality(UpTo(C, c))]
           order == InCurveOrder(C)
<1>0. World \in Nat
  BY SlotCountsDivide, TreeAssumption DEF World, Resolutions
<1>1. \A c \in C : c.slot \in Nat /\ SlotCount[c.res] \in Nat \ {0}
  BY <1>0, CellType, SlotCountsDivide DEF Apart, Slots
<1>2. IsFiniteSet(C) /\ n \in Nat
  BY ApartOrder, FS_CardinalityType
<1>3. ASSUME NEW c \in C
      PROVE  IsFiniteSet(UpTo(C, c)) /\ Cardinality(UpTo(C, c)) \in 1..n
  <2>1. UpTo(C, c) \in SUBSET C /\ c \in UpTo(C, c)
    BY <1>1 DEF UpTo
  <2>2. IsFiniteSet(UpTo(C, c)) /\ Cardinality(UpTo(C, c)) <= n
    BY <1>2, <2>1, FS_Subset
  <2>3. Cardinality(UpTo(C, c)) \in Nat
    BY <2>2, FS_CardinalityType
  <2>4. Cardinality(UpTo(C, c)) # 0
    BY <2>1, <2>2, FS_EmptySet
  <2> QED
    BY <1>2, <2>2, <2>3, <2>4
<1>4. ASSUME NEW c \in C, NEW d \in C, c.slot < d.slot PROVE rank[c] < rank[d]
  <2>1. UpTo(C, c) \subseteq UpTo(C, d) /\ d \in UpTo(C, d) /\ d \notin UpTo(C, c)
    BY <1>1, <1>4 DEF UpTo
  <2>2. /\ Cardinality(UpTo(C, c)) <= Cardinality(UpTo(C, d))
        /\ Cardinality(UpTo(C, d)) = Cardinality(UpTo(C, c)) => UpTo(C, d) = UpTo(C, c)
    BY <1>3, <2>1, FS_Subset
  <2>3. Cardinality(UpTo(C, c)) \in 1..n /\ Cardinality(UpTo(C, d)) \in 1..n
    BY <1>3
  <2> QED
    BY <1>2, <2>1, <2>2, <2>3
<1>5. \A c, d \in C : c # d => c.slot < d.slot \/ d.slot < c.slot
  BY <1>1, ApartOrder
<1>6. rank \in [C -> 1..n]
  BY <1>3
<1>7. \A c \in C : rank[c] \in Int
  BY <1>2, <1>6
<1>8. \A c, d \in C : rank[c] = rank[d] => c = d
  BY <1>4, <1>5, <1>7
<1>9. rank \in Surjection(C, 1..n)
  <2>1. rank \in Injection(C, 1..n)
    BY <1>6, <1>8 DEF Injection, IsInjective
  <2>2. IsFiniteSet(1..n) /\ Cardinality(1..n) = n
    BY <1>2, FS_Interval
  <2> QED
    BY <2>1, <2>2, FS_Injection
<1>10. \A i \in 1..n : \E c \in C : Cardinality(UpTo(C, c)) = i
  BY <1>9 DEF Surjection
<1>11. /\ order = [i \in 1..n |-> CHOOSE c \in C : Cardinality(UpTo(C, c)) = i]
  BY DEF InCurveOrder, UpTo
<1>12. \A i \in 1..n : order[i] \in C /\ rank[order[i]] = i
  BY <1>10, <1>11
<1>13. order \in [1..n -> C]
  BY <1>11, <1>12
<1>14. \A c \in C : order[rank[c]] = c /\ rank[c] \in 1..n
  BY <1>6, <1>8, <1>12
<1>15. {order[i] : i \in 1..n} = C
  <2>1. \A c \in C : \E i \in 1..n : order[i] = c
    BY <1>14
  <2> HIDE DEF order, rank, n
  <2> QED
    BY <1>12, <2>1
<1>16. ASSUME NEW i \in 1..n, NEW j \in 1..n, i < j
       PROVE  order[i].slot + SlotCount[order[i].res] <= order[j].slot
  <2>1. order[i] \in C /\ order[j] \in C /\ rank[order[i]] = i /\ rank[order[j]] = j /\ i # j
    BY <1>2, <1>12, <1>16
  <2>2. ~(order[j].slot < order[i].slot)
    BY <1>2, <1>4, <1>16, <2>1
  <2>3. order[i].slot <= order[j].slot /\ order[i] # order[j]
    BY <1>1, <1>5, <2>1, <2>2
  <2> QED
    BY <2>1, <2>3, ApartOrder
<1> QED
  BY <1>2, <1>13, <1>15, <1>16

LEMMA MaxIs ==
  \A S : \A m \in S : S \subseteq Int /\ (\A i \in S : i <= m) => Max(S) = m
<1> TAKE S
<1> TAKE m \in S
<1> HAVE S \subseteq Int /\ (\A i \in S : i <= m)
<1>1. \A k \in S : (\A i \in S : k >= i) => k = m
  OBVIOUS
<1>2. \E k \in S : \A i \in S : k >= i
  OBVIOUS
<1> QED
  BY <1>1, <1>2 DEF Max

LEMMA MaxType ==
  \A S : \A b \in Int : S \subseteq Int /\ S # {} /\ (\A i \in S : i <= b)
    => Max(S) \in S /\ \A i \in S : i <= Max(S)
<1> TAKE S
<1> TAKE b \in Int
<1> HAVE S \subseteq Int /\ S # {} /\ (\A i \in S : i <= b)
<1> DEFINE negated == {-i : i \in S}
<1>1. negated \subseteq Int /\ negated # {} /\ \A j \in negated : -b <= j
  <2>1. \A i \in S : -i \in Int /\ -b <= -i
    OBVIOUS
  <2>2. \E i \in S : -i \in negated
    OBVIOUS
  <2> QED
    BY <2>1, <2>2
<1> HIDE DEF negated
<1>2. PICK k \in negated : \A j \in negated : k <= j
  <2>1. -b \in Int
    OBVIOUS
  <2> QED
    BY <1>1, <2>1, Least
<1>3. PICK m \in S : k = -m
  BY DEF negated
<1>4. \A i \in S : i <= m
  BY <1>2, <1>3 DEF negated
<1>5. Max(S) = m
  BY <1>4, MaxIs
<1> QED
  BY <1>4, <1>5

Values == Cells \cup Markers

LEMMA ValueType ==
  \A v \in Values : /\ v.res \in Resolutions /\ v.res \in Int /\ -1 <= v.res /\ v.res <= MaxRes
                    /\ v \in Markers => v.res >= 0 /\ v = Marker(v.res)
<1>1. Resolutions = -1..MaxRes /\ MaxRes \in Nat
  BY TreeAssumption DEF Resolutions
<1>2. \A v \in Markers : v.res \in 0..MaxRes /\ v = Marker(v.res)
  BY DEF Markers, Marker, Cell
<1> QED
  BY <1>1, <1>2, CellType DEF Values

(* A covering's resolution, and the cells that make its set of slots.      *)
LEMMA ResolutionType ==
  \A values \in Seq(Values) :
    /\ CoveringResolution(values) \in Resolutions
    /\ ~IsMarked(values) => \A i \in DOMAIN values : values[i].res <= CoveringResolution(values)
    /\ CoveringResolution(values) = -1 => ~IsMarked(values)
<1> TAKE values \in Seq(Values)
<1> DEFINE levels == {-1} \cup {values[i].res : i \in DOMAIN values}
<1>0. Resolutions = -1..MaxRes /\ MaxRes \in Nat
  BY TreeAssumption DEF Resolutions
<1>1. \A i \in DOMAIN values : values[i] \in Values
  OBVIOUS
<1>2. CASE IsMarked(values)
  <2>1. Last(values) \in Markers
    BY <1>2 DEF IsMarked, IsMarker
  <2>2. CoveringResolution(values) = Last(values).res
    BY <1>2 DEF CoveringResolution
  <2>3. Last(values).res \in Resolutions /\ Last(values).res >= 0
    BY <2>1, ValueType DEF Values
  <2> QED
    BY <1>0, <1>2, <2>2, <2>3
<1>3. CASE ~IsMarked(values)
  <2>1. CoveringResolution(values) = Max(levels)
    BY <1>3 DEF CoveringResolution
  <2>2. levels \subseteq Int /\ levels # {} /\ \A i \in levels : i <= MaxRes
    BY <1>0, <1>1, ValueType
  <2>3. \A i \in levels : i \in Resolutions
    BY <1>0, <1>1, ValueType
  <2>4. \A i \in DOMAIN values : values[i].res \in levels
    OBVIOUS
  <2> HIDE DEF levels
  <2>5. Max(levels) \in levels /\ \A i \in levels : i <= Max(levels)
    <3>1. MaxRes \in Int
      BY <1>0
    <3> QED
      BY <2>2, <3>1, MaxType
  <2> QED
    BY <1>3, <2>1, <2>3, <2>4, <2>5
<1> QED
  BY <1>2, <1>3

(* What a stored set is: cells fill it, and only the whole world is kept   *)
(* without a marker.                                                       *)
Kept(S, r) == Full(S, MaxRes) /\ (r = -1 => Full(S, -1))

LEMMA KeptOfFull == \A S : \A r \in Resolutions : Full(S, r) => Kept(S, r)
<1> TAKE S
<1> TAKE r \in Resolutions
<1>1. MaxRes \in Resolutions /\ r <= MaxRes
  BY TreeAssumption DEF Resolutions
<1> QED
  BY <1>1, FullCoarser DEF Kept

LEMMA SlotsKept ==
  \A values \in Seq(Values) :
    /\ Kept(SlotsOf(values), CoveringResolution(values))
    /\ (\A i \in DOMAIN values : values[i] \in Cells => values[i].res <= CoveringResolution(values))
         => Full(SlotsOf(values), CoveringResolution(values))
<1> TAKE values \in Seq(Values)
<1> DEFINE C == ToSet(values) \ Markers
           r == CoveringResolution(values)
<1>0. MaxRes \in Resolutions /\ r \in Resolutions
  BY TreeAssumption, ResolutionType DEF Resolutions
<1>1. C \subseteq Cells /\ \A c \in C : \E i \in DOMAIN values : c = values[i]
  BY DEF ToSet, Values
<1>2. \A c \in C : c.res <= MaxRes
  BY <1>1, ValueType DEF Values
<1>3. SlotsOf(values) = UNION {Under(c) : c \in C}
  BY DEF SlotsOf
<1> HIDE DEF C, r
<1>4. Full(SlotsOf(values), MaxRes)
  BY <1>0, <1>1, <1>2, <1>3, FullOfCells
<1>5. ASSUME \A i \in DOMAIN values : values[i] \in Cells => values[i].res <= r PROVE Full(SlotsOf(values), r)
  <2>1. \A c \in C : c.res <= r
    BY <1>1, <1>5
  <2> QED
    BY <1>0, <1>1, <1>3, <2>1, FullOfCells
<1>6. ASSUME r = -1 PROVE \A i \in DOMAIN values : values[i].res <= r
  BY <1>6, ResolutionType DEF r
<1> QED
  BY <1>4, <1>5, <1>6 DEF Kept, r

(* The stored form gives its set and its resolution back.                  *)
LEMMA StoredForm ==
  \A S : \A r \in Resolutions : Kept(S, r) =>
    /\ ToCovering(S, r) \in Seq(Values)
    /\ ToSet(ToCovering(S, r)) \ Markers = Coarsest(S)
    /\ SlotsOf(ToCovering(S, r)) = S
    /\ CoveringResolution(ToCovering(S, r)) = r
<1> TAKE S
<1> TAKE r \in Resolutions
<1> HAVE Kept(S, r)
<1> DEFINE C == Coarsest(S)
           n == Cardinality(C)
           held == InCurveOrder(C)
           v == ToCovering(S, r)
<1>0. MaxRes \in Resolutions /\ r \in -1..MaxRes /\ MaxRes \in Nat
  BY TreeAssumption DEF Resolutions
<1>1. Full(S, MaxRes) /\ Apart(C)
  BY <1>0, CoarsestFills DEF Kept
<1>2. n \in Nat /\ held \in [1..n -> C] /\ {held[i] : i \in 1..n} = C
  BY <1>1, CurveOrder
<1>3. C \subseteq Cells /\ C \cap Markers = {}
  BY <1>1, MarkerNoCell DEF Apart
<1>4. UNION {Under(c) : c \in C} = S
  BY <1>0, <1>1, CoarsestFills
<1>5. v = IF r >= 0 THEN Append(held, Marker(r)) ELSE held
  BY DEF ToCovering, WithMarker
<1>6. held \in Seq(Values) /\ Len(held) = n /\ DOMAIN held = 1..n
  <2>1. held \in [1..n -> Values]
    BY <1>2, <1>3 DEF Values
  <2> QED
    BY <1>2, <2>1
<1> HIDE DEF C, n, held, v
<1>7. CASE r >= 0
  <2>1. Marker(r) \in Markers /\ Marker(r).res = r
    BY <1>0, <1>7 DEF Markers, Marker, Cell
  <2>2. v \in Seq(Values) /\ Len(v) = n + 1 /\ v[n + 1] = Marker(r) /\ \A i \in 1..n : v[i] = held[i]
    BY <1>2, <1>5, <1>6, <1>7, <2>1 DEF Values
  <2>3. ToSet(v) = C \cup {Marker(r)}
    <3>1. DOMAIN v = 1..n + 1
      BY <1>2, <2>2
    <3>2. ToSet(v) = {v[i] : i \in 1..n + 1}
      BY <3>1 DEF ToSet
    <3>3. 1..n + 1 = 1..n \cup {n + 1}
      BY <1>2
    <3> QED
      BY <1>2, <2>2, <3>2, <3>3
  <2>4. ToSet(v) \ Markers = C
    BY <1>3, <2>1, <2>3
  <2>5. IsMarked(v) /\ Last(v) = Marker(r)
    BY <1>2, <2>1, <2>2 DEF IsMarked, IsMarker, Last
  <2> QED
    BY <1>4, <2>1, <2>2, <2>4, <2>5 DEF SlotsOf, CoveringResolution, C, v
<1>8. CASE r = -1
  <2>1. v = held
    BY <1>5, <1>8
  <2>2. ToSet(v) = C
    BY <1>2, <1>6, <2>1 DEF ToSet
  <2>3. ~IsMarked(v)
    BY <1>2, <1>3, <1>6, <2>1 DEF IsMarked, IsMarker, Last
  <2>4. \A c \in C : c.res <= -1
    <3>1. Full(S, -1) /\ -1 \in Resolutions
      BY <1>0, <1>8 DEF Kept
    <3> QED
      BY <3>1, CoarsestFills DEF C
  <2>5. \A c \in C : c.res = -1
    BY <1>3, <2>4, ValueType DEF Values
  <2>6. CoveringResolution(v) = Max({-1} \cup {v[i].res : i \in DOMAIN v})
    BY <2>3 DEF CoveringResolution
  <2>7. \A i \in DOMAIN v : v[i].res = -1
    BY <1>2, <1>6, <2>1, <2>5
  <2>8. {-1} \cup {v[i].res : i \in DOMAIN v} = {-1}
    BY <2>7
  <2>9. Max({-1}) = -1
    BY MaxIs
  <2> QED
    BY <1>3, <1>4, <1>6, <1>8, <2>1, <2>2, <2>6, <2>8, <2>9 DEF SlotsOf, C, v
<1> QED
  BY <1>0, <1>7, <1>8

-----------------------------------------------------------------------------

-----------------------------------------------------------------------------
(* Sequences put together.                                                 *)

LEMMA SeqIsFunction ==
  \A Q : \A ss \in Seq(Q) :
    /\ Len(ss) \in Nat /\ DOMAIN ss = 1..Len(ss) /\ ss \in [1..Len(ss) -> Q]
    /\ Len(ss) = 0 <=> ss = <<>>
  OBVIOUS

LEMMA FunctionIsSeq ==
  \A Q : \A n \in Nat : \A f \in [1..n -> Q] : f \in Seq(Q) /\ Len(f) = n
<1> TAKE Q
<1> TAKE n \in Nat
<1> TAKE f \in [1..n -> Q]
<1>1. f \in Seq(Q)
  OBVIOUS
<1> QED
  BY <1>1

JoinStep(ss, f, i) == IF i = 1 THEN ss[i] ELSE f[i - 1] \o ss[i]

JoinedTo(ss, n) == \E f : f = [i \in 1..n |-> JoinStep(ss, f, i)]

Joins(ss, n, f) == f[1] = ss[1] /\ \A i \in 1..n - 1 : f[i + 1] = f[i] \o ss[i + 1]

LEMMA JoinsExist ==
  \A ss : \A n \in Nat \ {0} : JoinedTo(ss, n)
<1> TAKE ss
<1> TAKE n \in Nat \ {0}
<1>1. JoinedTo(ss, 1)
  <2>1. [i \in 1..1 |-> ss[1]] = [i \in 1..1 |-> JoinStep(ss, [j \in 1..1 |-> ss[1]], i)]
    BY DEF JoinStep
  <2> QED
    BY <2>1 DEF JoinedTo
<1>2. ASSUME NEW m \in 1..n - 1, JoinedTo(ss, m) PROVE JoinedTo(ss, m + 1)
  <2>1. PICK f : f = [i \in 1..m |-> JoinStep(ss, f, i)]
    BY <1>2 DEF JoinedTo
  <2> DEFINE g == [i \in 1..m + 1 |-> IF i = m + 1 THEN JoinStep(ss, f, i) ELSE f[i]]
  <2>2. ASSUME NEW i \in 1..m + 1 PROVE g[i] = JoinStep(ss, g, i)
    <3>1. CASE i = m + 1
      <4>1. g[i] = JoinStep(ss, f, i) /\ i - 1 \in 1..m /\ i - 1 # m + 1
        BY <3>1
      <4>2. g[i - 1] = f[i - 1]
        BY <3>1, <4>1
      <4> QED
        BY <4>1, <4>2 DEF JoinStep
    <3>2. CASE i # m + 1
      <4>1. i \in 1..m /\ g[i] = f[i]
        BY <3>2
      <4>2. f[i] = JoinStep(ss, f, i)
        BY <2>1, <4>1
      <4>3. i # 1 => i - 1 \in 1..m + 1 /\ i - 1 # m + 1 /\ g[i - 1] = f[i - 1]
        BY <4>1
      <4> HIDE DEF g
      <4> QED
        BY <4>1, <4>2, <4>3 DEF JoinStep
    <3> QED
      BY <3>1, <3>2
  <2>3. g = [i \in 1..m + 1 |-> JoinStep(ss, g, i)]
    <3>1. g = [i \in 1..m + 1 |-> g[i]]
      OBVIOUS
    <3> QED
      BY <2>2, <3>1
  <2> HIDE DEF g
  <2> QED
    BY <2>3 DEF JoinedTo
<1> DEFINE S == {m \in Int : JoinedTo(ss, m)}
<1>3. 1 \in S /\ \A i \in 1..n - 1 : i \in S => i + 1 \in S
  BY <1>1, <1>2
<1> HIDE DEF S
<1>4. \A i \in 1..n : i \in S
  BY <1>3, Upwards
<1> QED
  BY <1>4 DEF S

LEMMA FlattenJoins ==
  \A T : \A n \in Nat \ {0} : \A ss \in [1..n -> Seq(T)] :
    \E f \in [1..n -> Seq(T)] : Joins(ss, n, f) /\ FlattenSeq(ss) = f[n]
<1> TAKE T
<1> TAKE n \in Nat \ {0}
<1> TAKE ss \in [1..n -> Seq(T)]
<1>1. Len(ss) = n
  BY FunctionIsSeq
<1> DEFINE flatten == CHOOSE f : f = [i \in 1..n |-> IF i = 1 THEN ss[i] ELSE f[i - 1] \o ss[i]]
<1>2. flatten = [i \in 1..n |-> IF i = 1 THEN ss[i] ELSE flatten[i - 1] \o ss[i]]
  BY JoinsExist DEF JoinedTo, JoinStep
<1>3. FlattenSeq(ss) = flatten[n]
  BY <1>1 DEF FlattenSeq
<1> HIDE DEF flatten
<1>4. \A i \in 1..n : flatten[i] = JoinStep(ss, flatten, i)
  BY <1>2 DEF JoinStep
<1>5. Joins(ss, n, flatten)
  <2>1. flatten[1] = ss[1]
    BY <1>4 DEF JoinStep
  <2>2. ASSUME NEW i \in 1..n - 1 PROVE flatten[i + 1] = flatten[i] \o ss[i + 1]
    <3>1. i + 1 \in 1..n /\ i + 1 # 1 /\ i + 1 - 1 = i
      OBVIOUS
    <3> DEFINE j == i + 1
    <3>2. flatten[j] = flatten[j - 1] \o ss[j]
      <4>1. j \in 1..n /\ j # 1
        BY <3>1
      <4> HIDE DEF j
      <4> QED
        BY <1>4, <4>1 DEF JoinStep
    <3>3. (i + 1) - 1 = i
      OBVIOUS
    <3> QED
      BY <3>2, <3>3, Zenon
  <2> QED
    BY <2>1, <2>2 DEF Joins
<1>6. \A i \in 1..n : flatten[i] \in Seq(T)
  <2> DEFINE S == {m \in Int : flatten[m] \in Seq(T)}
  <2>1. flatten[1] \in Seq(T)
    BY <1>5 DEF Joins
  <2>2. ASSUME NEW i \in 1..n - 1, flatten[i] \in Seq(T) PROVE flatten[i + 1] \in Seq(T)
    <3>1. i + 1 \in 1..n
      OBVIOUS
    <3>2. flatten[i + 1] = flatten[i] \o ss[i + 1] /\ ss[i + 1] \in Seq(T)
      BY <1>5, <3>1 DEF Joins
    <3>3. \A p, q \in Seq(T) : p \o q \in Seq(T)
      OBVIOUS
    <3> QED
      BY <2>2, <3>2, <3>3
  <2>3. 1 \in S /\ \A i \in 1..n - 1 : i \in S => i + 1 \in S
    BY <2>1, <2>2
  <2> HIDE DEF S
  <2>4. n \in Int /\ 1 \in Int
    OBVIOUS
  <2>5. \A i \in 1..n : i \in S
    BY <2>3, <2>4, Upwards
  <2> QED
    BY <2>5 DEF S
<1>7. flatten \in [1..n -> Seq(T)]
  BY <1>2, <1>6
<1> QED
  BY <1>3, <1>5, <1>7

LEMMA FlattenNone == FlattenSeq(<<>>) = <<>>
  BY DEF FlattenSeq

LEMMA FlattenType == \A T : \A ss \in Seq(Seq(T)) : FlattenSeq(ss) \in Seq(T)
<1> TAKE T
<1> TAKE ss \in Seq(Seq(T))
<1> DEFINE n == Len(ss)
<1>1. n \in Nat /\ ss \in [1..n -> Seq(T)] /\ (n = 0 => ss = <<>>)
  BY SeqIsFunction
<1>2. <<>> \in Seq(T)
  OBVIOUS
<1> HIDE DEF n
<1>3. CASE n = 0
  BY <1>1, <1>2, <1>3, FlattenNone
<1>4. CASE n # 0
  <2>1. n \in Nat \ {0} /\ n \in 1..n
    BY <1>1, <1>4
  <2>2. PICK f \in [1..n -> Seq(T)] : FlattenSeq(ss) = f[n]
    BY <1>1, <2>1, FlattenJoins, Zenon
  <2> QED
    BY <2>1, <2>2
<1> QED
  BY <1>3, <1>4

(* Single values, then nothing, put together.                              *)
LEMMA FlattenSingles ==
  \A T : \A n, k \in Nat : \A w \in [1..k -> T] : \A ss \in [1..n -> Seq(T)] :
    /\ k <= n
    /\ \A i \in 1..k : ss[i] = <<w[i]>>
    /\ \A i \in k + 1..n : ss[i] = <<>>
    => FlattenSeq(ss) = w
<1> TAKE T
<1> TAKE n, k \in Nat
<1> TAKE w \in [1..k -> T]
<1> TAKE ss \in [1..n -> Seq(T)]
<1>joined. ASSUME n \in Nat \ {0}
      PROVE  \E f \in [1..n -> Seq(T)] : Joins(ss, n, f) /\ FlattenSeq(ss) = f[n]
  BY <1>joined, FlattenJoins, Zenon
<1> HAVE /\ k <= n
         /\ \A i \in 1..k : ss[i] = <<w[i]>>
         /\ \A i \in k + 1..n : ss[i] = <<>>
<1> DEFINE upto(i) == IF i <= k THEN i ELSE k
<1>0. w \in Seq(T) /\ Len(w) = k
  BY FunctionIsSeq
<1>1. CASE n = 0
  <2>1. w = <<>>
    BY <1>0, <1>1, SeqIsFunction
  <2>2. ss = <<>>
    BY <1>1, FunctionIsSeq, SeqIsFunction
  <2> QED
    BY <2>1, <2>2, FlattenNone
<1>2. CASE n # 0
  <2>1. n \in Nat \ {0} /\ n \in 1..n
    BY <1>2
  <2>2. PICK f \in [1..n -> Seq(T)] : Joins(ss, n, f) /\ FlattenSeq(ss) = f[n]
    BY <2>1, <1>joined, Zenon
  <2> DEFINE P(i) == f[i] = SubSeq(w, 1, upto(i))
  <2>3. P(1)
    <3>1. f[1] = ss[1]
      BY <2>2 DEF Joins
    <3>2. CASE k = 0
      <4>1. ss[1] = <<>> /\ upto(1) = 0
        BY <2>1, <3>2
      <4>2. SubSeq(w, 1, 0) = <<>>
        BY <1>0
      <4> QED
        BY <3>1, <4>1, <4>2
    <3>3. CASE k # 0
      <4>1. ss[1] = <<w[1]>> /\ upto(1) = 1
        BY <2>1, <3>3
      <4>2. 1 <= Len(w)
        BY <1>0, <3>3
      <4>3. SubSeq(w, 1, 1) = <<w[1]>>
        <5>1. SubSeq(w, 1, 1) \in Seq(T) /\ Len(SubSeq(w, 1, 1)) = 1 /\ SubSeq(w, 1, 1)[1] = w[1]
          BY <1>0, <4>2
        <5>2. \A q \in Seq(T) : Len(q) = 1 => q = <<q[1]>>
          OBVIOUS
        <5> QED
          BY <5>1, <5>2
      <4> QED
        BY <3>1, <4>1, <4>3
    <3> QED
      BY <3>2, <3>3
  <2>4. ASSUME NEW i \in 1..n - 1, P(i) PROVE P(i + 1)
    <3>1. f[i + 1] = SubSeq(w, 1, upto(i)) \o ss[i + 1]
      BY <2>2, <2>4 DEF Joins
    <3>2. CASE i + 1 <= k
      <4>1. ss[i + 1] = <<w[i + 1]>> /\ upto(i) = i /\ upto(i + 1) = i + 1
        BY <3>2
      <4>2. SubSeq(w, 1, i) \o <<w[i + 1]>> = SubSeq(w, 1, i + 1)
        BY <1>0, <3>2
      <4> QED
        BY <3>1, <4>1, <4>2
    <3>3. CASE i + 1 > k
      <4>1. ss[i + 1] = <<>> /\ upto(i) = k /\ upto(i + 1) = k
        BY <3>3
      <4>2. SubSeq(w, 1, k) \o <<>> = SubSeq(w, 1, k)
        BY <1>0
      <4> QED
        BY <3>1, <4>1, <4>2
    <3>4. i + 1 <= k \/ i + 1 > k
      OBVIOUS
    <3> HIDE DEF P
    <3> QED
      BY <3>2, <3>3, <3>4
  <2>5. P(n)
    <3> HIDE DEF P
    <3> DEFINE S == {m \in Int : P(m)}
    <3>1. 1 \in S /\ \A i \in 1..n - 1 : i \in S => i + 1 \in S
      BY <2>3, <2>4
    <3> HIDE DEF S
    <3>2. n \in Int /\ 1 \in Int
      OBVIOUS
    <3>3. \A i \in 1..n : i \in S
      BY <3>1, <3>2, Upwards
    <3> QED
      BY <2>1, <3>3 DEF S
  <2>6. upto(n) = k
    BY <2>1
  <2>7. SubSeq(w, 1, k) = w
    BY <1>0
  <2> QED
    BY <2>2, <2>5, <2>6, <2>7
<1> QED
  BY <1>1, <1>2

(* What is left out of a sequence.                                         *)
Pieces(values, S) == [i \in DOMAIN values |-> IF values[i] \in S THEN <<>> ELSE <<values[i]>>]

LEMMA PiecesType ==
  \A T, S : \A values \in Seq(T) :
    Pieces(values, S) \in [1..Len(values) -> Seq(T \ S)] /\ Without(values, S) = FlattenSeq(Pieces(values, S))
<1> TAKE T, S
<1> TAKE values \in Seq(T)
<1>1. DOMAIN values = 1..Len(values) /\ \A i \in 1..Len(values) : values[i] \in T
  BY SeqIsFunction
<1>2. <<>> \in Seq(T \ S) /\ \A e \in T \ S : <<e>> \in Seq(T \ S)
  OBVIOUS
<1>3. \A i \in 1..Len(values) : (IF values[i] \in S THEN <<>> ELSE <<values[i]>>) \in Seq(T \ S)
  BY <1>1, <1>2
<1> QED
  BY <1>1, <1>3 DEF Pieces, Without

LEMMA WithoutType ==
  \A T, S : \A values \in Seq(T) : Without(values, S) \in Seq(T \ S)
<1> TAKE T, S
<1> TAKE values \in Seq(T)
<1>1. Pieces(values, S) \in Seq(Seq(T \ S))
  BY PiecesType, FunctionIsSeq, SeqIsFunction
<1>2. FlattenSeq(Pieces(values, S)) \in Seq(T \ S)
  BY <1>1, FlattenType
<1>3. Without(values, S) = FlattenSeq(Pieces(values, S))
  BY PiecesType
<1> QED
  BY <1>2, <1>3

LEMMA WithoutSuffix ==
  \A T, S : \A k \in Nat : \A w \in [1..k -> T \ S] : \A values \in Seq(T) :
    /\ k <= Len(values)
    /\ \A i \in 1..k : values[i] = w[i]
    /\ \A i \in k + 1..Len(values) : values[i] \in S
    => Without(values, S) = w
<1> TAKE T, S
<1> TAKE k \in Nat
<1> TAKE w \in [1..k -> T \ S]
<1> TAKE values \in Seq(T)
<1> HAVE /\ k <= Len(values)
         /\ \A i \in 1..k : values[i] = w[i]
         /\ \A i \in k + 1..Len(values) : values[i] \in S
<1>1. DOMAIN values = 1..Len(values) /\ Len(values) \in Nat
  BY SeqIsFunction
<1>2. \A i \in 1..k : i \in 1..Len(values) /\ w[i] \notin S
  BY <1>1
<1>3. \A i \in 1..k : Pieces(values, S)[i] = <<w[i]>>
  BY <1>1, <1>2 DEF Pieces
<1>4. \A i \in k + 1..Len(values) : Pieces(values, S)[i] = <<>>
  BY <1>1 DEF Pieces
<1> DEFINE n == Len(values)
           ss == Pieces(values, S)
<1>5. n \in Nat /\ ss \in [1..n -> Seq(T \ S)] /\ Without(values, S) = FlattenSeq(ss)
  BY <1>1, PiecesType
<1>6. /\ k <= n
      /\ \A i \in 1..k : ss[i] = <<w[i]>>
      /\ \A i \in k + 1..n : ss[i] = <<>>
  BY <1>3, <1>4
<1> HIDE DEF n, ss
<1> QED
  BY <1>5, <1>6, FlattenSingles

-----------------------------------------------------------------------------
(* What is read from a sequence of values, and from a stored form.         *)

LEMMA CellsInType == \A values \in Seq(Values) : CellsIn(values) \in Seq(Cells)
<1>1. Values \ Markers = Cells
  BY MarkerNoCell DEF Values
<1> QED
  BY <1>1, WithoutType DEF CellsIn

LEMMA NumChildrenType ==
  \A q, r \in Resolutions :
    /\ NumChildren(q, r) \in Nat
    /\ r < q => NumChildren(q, r) = 0
    /\ q <= r => NumChildren(q, r) # 0 /\ SlotCount[q] = NumChildren(q, r) * SlotCount[r]
<1> TAKE q, r \in Resolutions
<1>0. q \in Int /\ r \in Int /\ q >= -1
  BY TreeAssumption DEF Resolutions
<1>1. CASE r < q
  BY <1>0, <1>1 DEF NumChildren
<1>2. CASE q <= r
  <2>1. PICK m \in Nat \ {0} : SlotCount[q] = m * SlotCount[r]
    BY <1>0, <1>2, SlotCountsDivide DEF Whole
  <2>2. SlotCount[r] \in Nat \ {0}
    BY SlotCountsDivide
  <2>3. SlotCount[q] \div SlotCount[r] = m
    BY <2>1, <2>2, DivisionOfMultiple
  <2>4. NumChildren(q, r) = m
    BY <1>0, <1>2, <2>3 DEF NumChildren
  <2> QED
    BY <1>0, <1>2, <2>1, <2>4
<1> QED
  BY <1>0, <1>1, <1>2

LEMMA ChildType ==
  \A c \in Cells : \A r \in Resolutions : \A k \in 1..NumChildren(c.res, r) :
    /\ c.slot + (k - 1) * SlotCount[r] \in Under(c)
    /\ Child(r, c.slot + (k - 1) * SlotCount[r]) \in Cells
<1> TAKE c \in Cells
<1> TAKE r \in Resolutions
<1> TAKE k \in 1..NumChildren(c.res, r)
<1> DEFINE b == SlotCount[r]
           m == NumChildren(c.res, r)
           t == c.slot + (k - 1) * b
<1>0. /\ MaxRes \in Nat \ {0, 1} /\ Resolutions = -1..MaxRes
      /\ c.res \in Resolutions /\ b \in Nat \ {0} /\ m \in Nat /\ World \in Nat
      /\ c.slot \in Slots /\ c.slot \in Nat
  <2>1. MaxRes \in Nat \ {0, 1} /\ Resolutions = -1..MaxRes
    BY TreeAssumption DEF Resolutions
  <2>2. World \in Nat /\ b \in Nat \ {0}
    BY <2>1, SlotCountsDivide DEF World
  <2>3. c.res \in Resolutions /\ c.slot \in Slots
    BY CellType
  <2>4. m \in Nat
    BY <2>3, NumChildrenType
  <2> QED
    BY <2>1, <2>2, <2>3, <2>4 DEF Slots
<1>1. k \in 1..m /\ c.res <= r /\ SlotCount[c.res] = m * b
  <2>1. k \in 1..m
    OBVIOUS
  <2>2. m # 0 /\ c.res \in Int /\ r \in Int
    BY <1>0, <2>1
  <2>3. c.res <= r
    <3>1. c.res \in Resolutions /\ ~(r < c.res)
      BY <1>0, <2>2, NumChildrenType, Zenon
    <3> QED
      BY <2>2, <3>1
  <2> QED
    BY <1>0, <2>1, <2>3, NumChildrenType
<1> HIDE DEF m, b
<1>2. (k - 1) * b \in Nat /\ (k - 1) * b + b = k * b /\ k * b <= m * b
  BY <1>0, <1>1, TimesMonotone
<1>3. t \in Under(c) /\ t + b - 1 \in Under(c)
  <2>1. \A s, u, w, e \in Nat : u + b = w /\ w <= e => s + u \in s..s + e - 1 /\ s + u + b - 1 \in s..s + e - 1
    BY <1>0
  <2>2. m * b \in Nat /\ k * b \in Nat
    BY <1>0, <1>1
  <2> QED
    BY <1>0, <1>1, <1>2, <2>1, <2>2 DEF Under
<1>4. t \in Slots /\ t \in Nat
  BY <1>0, <1>2, <1>3, CellType
<1>5. Cell(r, t) \in Blocks(r)
  <2>1. PICK j \in Nat : c.slot = j * (m * b)
    <3>1. c \in Blocks(c.res)
      BY CellType
    <3>2. PICK j \in Nat : c.slot = j * SlotCount[c.res]
      BY <1>0, <3>1, BlockType
    <3> QED
      BY <1>1, <3>2
  <2>2. t = (j * m + (k - 1)) * b
    BY <1>0, <1>1, <1>2, <2>1
  <2>3. t \div b = j * m + (k - 1)
    BY <1>0, <1>1, <2>1, <2>2, DivisionOfMultiple
  <2>4. BlockAt(r, t) = Cell(r, t)
    BY <2>2, <2>3 DEF BlockAt, b
  <2> QED
    BY <1>4, <2>4, BlockAround
<1>6. CASE HasId(Cell(r, t))
  <2>1. Child(r, t) = Cell(r, t)
    BY <1>6 DEF Child
  <2> QED
    BY <1>3, <1>5, <1>6, <2>1 DEF Cells, b
<1>7. CASE ~HasId(Cell(r, t))
  <2>1. r = MaxRes /\ r - 1 \in Resolutions /\ r - 1 # MaxRes
    BY <1>0, <1>7 DEF HasId, Cell
  <2>2. SlotCount[r - 1] \in Nat \ {0}
    BY <2>1, SlotCountsDivide
  <2>3. t - (t % SlotCount[r - 1]) = (t \div SlotCount[r - 1]) * SlotCount[r - 1]
    BY <1>4, <2>2
  <2>4. Child(r, t) = BlockAt(r - 1, t)
    BY <1>7, <2>3 DEF Child, BlockAt
  <2>5. BlockAt(r - 1, t) \in Blocks(r - 1) /\ BlockAt(r - 1, t).res = r - 1
    BY <1>4, <2>1, BlockAround DEF BlockAt, Cell
  <2> QED
    BY <1>3, <2>1, <2>4, <2>5 DEF Cells, HasId, b
<1> QED
  BY <1>6, <1>7

LEMMA ChildrenType ==
  \A c \in Cells : \A r \in Resolutions :
    Children(c, r) \in Seq(Cells) /\ Len(Children(c, r)) = NumChildren(c.res, r)
<1> TAKE c \in Cells
<1> TAKE r \in Resolutions
<1>1. NumChildren(c.res, r) \in Nat
  BY CellType, NumChildrenType
<1>2. Children(c, r) \in [1..NumChildren(c.res, r) -> Cells]
  BY <1>1, ChildType DEF Children
<1> QED
  BY <1>1, <1>2, FunctionIsSeq

Expansion(c, r) == IF NumChildren(c.res, r) = 1 THEN <<c>> ELSE Children(c, r)

Expansions(values) ==
  [i \in DOMAIN CellsIn(values) |-> Expansion(CellsIn(values)[i], CoveringResolution(values))]

LEMMA ExpansionsType ==
  \A values \in Seq(Values) :
    /\ UncompactValues(values) = FlattenSeq(Expansions(values))
    /\ Expansions(values) \in [1..Len(CellsIn(values)) -> Seq(Cells)]
    /\ \A i \in 1..Len(CellsIn(values)) :
         /\ CellsIn(values)[i] \in Cells
         /\ Len(Expansions(values)[i]) = NumChildren(CellsIn(values)[i].res, CoveringResolution(values))
<1> TAKE values \in Seq(Values)
<1> DEFINE held == CellsIn(values)
           r == CoveringResolution(values)
<1>1. r \in Resolutions /\ held \in Seq(Cells)
  BY ResolutionType, CellsInType
<1>2. DOMAIN held = 1..Len(held) /\ \A i \in 1..Len(held) : held[i] \in Cells
  BY <1>1, SeqIsFunction
<1>3. \A c \in Cells : <<c>> \in Seq(Cells) /\ Len(<<c>>) = 1
  OBVIOUS
<1>4. \A c \in Cells : Expansion(c, r) \in Seq(Cells) /\ Len(Expansion(c, r)) = NumChildren(c.res, r)
  BY <1>1, <1>3, ChildrenType DEF Expansion
<1>5. UncompactValues(values) = FlattenSeq(Expansions(values))
  BY DEF UncompactValues, Expansions, Expansion
<1> QED
  BY <1>2, <1>4, <1>5 DEF Expansions

LEMMA UncompactType == \A values \in Seq(Values) : UncompactValues(values) \in Seq(Cells)
<1> TAKE values \in Seq(Values)
<1>1. Len(CellsIn(values)) \in Nat
  BY CellsInType, SeqIsFunction
<1>2. Expansions(values) \in Seq(Seq(Cells))
  BY <1>1, ExpansionsType, FunctionIsSeq
<1> QED
  BY <1>2, ExpansionsType, FlattenType

(* The stored form, value by value.                                        *)
LEMMA StoredValuesOf ==
  \A S : \A r \in Resolutions : Kept(S, r) =>
    LET held == InCurveOrder(Coarsest(S))
        v    == ToCovering(S, r)
    IN  /\ v \in Seq(Values) /\ held \in Seq(Cells) /\ Len(held) = Cardinality(Coarsest(S))
        /\ CellsIn(v) = held
        /\ (IF IsMarked(v) THEN Front(v) ELSE v) = held
<1> TAKE S
<1> TAKE r \in Resolutions
<1> HAVE Kept(S, r)
<1> DEFINE C == Coarsest(S)
           n == Cardinality(C)
           held == InCurveOrder(C)
           v == ToCovering(S, r)
<1>0. MaxRes \in Resolutions /\ r \in -1..MaxRes /\ MaxRes \in Nat
  BY TreeAssumption DEF Resolutions
<1>1. Full(S, MaxRes) /\ Apart(C)
  BY <1>0, CoarsestFills DEF Kept
<1>2. n \in Nat /\ held \in [1..n -> C]
  BY <1>1, CurveOrder
<1>3. C \subseteq Cells /\ Cells \cap Markers = {}
  BY <1>1, MarkerNoCell DEF Apart
<1>4. v = IF r >= 0 THEN Append(held, Marker(r)) ELSE held
  BY DEF ToCovering, WithMarker
<1>5. v \in Seq(Values)
  BY StoredForm
<1> HIDE DEF C, n, held, v
<1>6. held \in [1..n -> Cells] /\ held \in [1..n -> Values \ Markers]
  BY <1>2, <1>3 DEF Values
<1>7. held \in Seq(Cells) /\ Len(held) = n /\ DOMAIN held = 1..n
  BY <1>2, <1>6, FunctionIsSeq
<1>8. CASE r >= 0
  <2>1. Marker(r) \in Markers
    BY <1>0, <1>8 DEF Markers
  <2>2. /\ Len(v) = n + 1 /\ v[n + 1] = Marker(r)
        /\ \A i \in 1..n : v[i] = held[i]
        /\ SubSeq(v, 1, n) = held
    BY <1>2, <1>4, <1>7, <1>8
  <2>3. \A i \in n + 1..n + 1 : v[i] \in Markers
    BY <1>2, <2>1, <2>2
  <2>4. n <= Len(v) /\ \A i \in n + 1..Len(v) : v[i] \in Markers
    BY <1>2, <2>2, <2>3
  <2>5. CellsIn(v) = held
    <3>1. n <= Len(v) /\ (\A i \in 1..n : v[i] = held[i]) /\ (\A i \in n + 1..Len(v) : v[i] \in Markers)
      BY <2>2, <2>4
    <3> QED
      BY <1>2, <1>5, <1>6, <3>1, WithoutSuffix DEF CellsIn
  <2>6. IsMarked(v) /\ Front(v) = held
    <3>1. v # <<>> /\ Last(v) = Marker(r) /\ Len(v) - 1 = n
      BY <1>2, <2>2 DEF Last
    <3> QED
      BY <2>1, <2>2, <3>1 DEF IsMarked, IsMarker, Front
  <2> QED
    BY <1>5, <1>7, <2>5, <2>6 DEF v, held, n, C
<1>9. CASE r = -1
  <2>1. v = held
    BY <1>4, <1>9
  <2>2. ~IsMarked(v)
    BY <1>2, <1>3, <1>6, <1>7, <2>1 DEF IsMarked, IsMarker, Last
  <2>3. n <= Len(v) /\ (\A i \in 1..n : v[i] = held[i]) /\ (\A i \in n + 1..Len(v) : v[i] \in Markers)
    BY <1>2, <1>7, <2>1
  <2>4. CellsIn(v) = held
    BY <1>2, <1>5, <1>6, <2>3, WithoutSuffix DEF CellsIn
  <2> QED
    BY <1>5, <1>7, <2>1, <2>2, <2>4 DEF v, held, n, C
<1> QED
  BY <1>0, <1>8, <1>9

(* The last cell at or before a slot has it, or none has.                  *)
LEMMA HoldsIsMember ==
  \A S : \A r \in Resolutions : Kept(S, r) =>
    \A c \in Cells : Holds(ToCovering(S, r), c) <=> c.slot \in S
<1> TAKE S
<1> TAKE r \in Resolutions
<1> HAVE Kept(S, r)
<1> TAKE c \in Cells
<1> DEFINE C == Coarsest(S)
           n == Cardinality(C)
           held == InCurveOrder(C)
           before == {i \in 1..n : held[i].slot <= c.slot}
<1>0. MaxRes \in Resolutions /\ World \in Nat
  BY SlotCountsDivide, TreeAssumption DEF Resolutions, World
<1>1. Full(S, MaxRes) /\ Apart(C) /\ (\A d \in C : Under(d) \subseteq S) /\ \A s \in S : \E d \in C : s \in Under(d)
  BY <1>0, CoarsestFills DEF Kept
<1>2. /\ n \in Nat /\ held \in [1..n -> C] /\ {held[i] : i \in 1..n} = C
      /\ \A i, j \in 1..n : i < j => held[i].slot + SlotCount[held[i].res] <= held[j].slot
  BY <1>1, CurveOrder
<1>3. Holds(ToCovering(S, r), c) <=> before # {} /\ c.slot \in Under(held[Max(before)])
  BY <1>2, StoredValuesOf DEF Holds
<1> HIDE DEF held, n, C
<1>4. \A i \in 1..n : /\ held[i] \in C /\ held[i].slot \in Nat /\ SlotCount[held[i].res] \in Nat
                      /\ Under(held[i]) = held[i].slot..held[i].slot + SlotCount[held[i].res] - 1
  BY <1>0, <1>1, <1>2, CellType, SlotCountsDivide DEF Apart, Slots, Under
<1>5. c.slot \in Nat
  BY <1>0, CellType DEF Slots
<1>6. ASSUME before # {}
      PROVE  Max(before) \in before /\ \A i \in before : i <= Max(before)
  <2>1. before \subseteq Int /\ n \in Int /\ \A i \in before : i <= n
    BY <1>2
  <2> HIDE DEF before
  <2> QED
    BY <1>6, <2>1, MaxType
<1>7. ASSUME before # {}, c.slot \in Under(held[Max(before)]) PROVE c.slot \in S
  <2>1. held[Max(before)] \in C
    BY <1>4, <1>6, <1>7
  <2> QED
    BY <1>1, <1>7, <2>1
<1>8. ASSUME c.slot \in S PROVE before # {} /\ c.slot \in Under(held[Max(before)])
  <2>1. PICK d \in C : c.slot \in Under(d)
    BY <1>1, <1>8
  <2>2. PICK i \in 1..n : d = held[i]
    BY <1>2
  <2>3. i \in before
    BY <1>4, <1>5, <2>1, <2>2
  <2>4. PICK m \in before : m = Max(before) /\ i <= m
    BY <1>6, <2>3
  <2>5. m \in 1..n /\ held[m].slot <= c.slot
    BY <2>4
  <2>6. ~(i < m)
    <3>1. c.slot < held[i].slot + SlotCount[held[i].res]
      BY <1>4, <1>5, <2>1, <2>2
    <3>2. i < m => held[i].slot + SlotCount[held[i].res] <= held[m].slot
      BY <1>2, <2>5
    <3>3. held[i].slot \in Nat /\ SlotCount[held[i].res] \in Nat /\ held[m].slot \in Nat
      BY <1>4, <2>5
    <3> QED
      BY <1>5, <2>5, <3>1, <3>2, <3>3
  <2>7. i = m
    BY <1>2, <2>4, <2>5, <2>6
  <2> QED
    BY <2>1, <2>2, <2>3, <2>4, <2>7
<1> QED
  BY <1>3, <1>7, <1>8
-----------------------------------------------------------------------------
(* Sets of values, and runs of cells.                                      *)

(* What is put together has the values of its pieces.                      *)
LEMMA ConcatSet ==
  \A T : \A p, q \in Seq(T) : ToSet(p \o q) = ToSet(p) \cup ToSet(q)
<1> TAKE T
<1> TAKE p, q \in Seq(T)
<1>1. /\ Len(p) \in Nat /\ DOMAIN p = 1..Len(p) /\ Len(q) \in Nat /\ DOMAIN q = 1..Len(q)
      /\ DOMAIN (p \o q) = 1..Len(p) + Len(q)
      /\ \A i \in 1..Len(p) : (p \o q)[i] = p[i]
      /\ \A i \in 1..Len(q) : (p \o q)[Len(p) + i] = q[i]
  OBVIOUS
<1>2. ASSUME NEW i \in DOMAIN (p \o q) PROVE (p \o q)[i] \in ToSet(p) \cup ToSet(q)
  <2>1. CASE i <= Len(p)
    BY <1>1, <2>1 DEF ToSet
  <2>2. CASE i > Len(p)
    <3>1. i - Len(p) \in 1..Len(q) /\ Len(p) + (i - Len(p)) = i
      BY <1>1, <2>2
    <3> QED
      BY <1>1, <3>1 DEF ToSet
  <2> QED
    BY <1>1, <2>1, <2>2
<1>3. ASSUME NEW i \in DOMAIN p PROVE p[i] \in ToSet(p \o q)
  BY <1>1 DEF ToSet
<1>4. ASSUME NEW i \in DOMAIN q PROVE q[i] \in ToSet(p \o q)
  <2>1. Len(p) + i \in DOMAIN (p \o q)
    BY <1>1
  <2> QED
    BY <1>1, <2>1 DEF ToSet
<1> QED
  BY <1>2, <1>3, <1>4 DEF ToSet

LEMMA FlattenedSet ==
  \A T : \A ss \in Seq(Seq(T)) : ToSet(FlattenSeq(ss)) = UNION {ToSet(ss[i]) : i \in DOMAIN ss}
<1> TAKE T
<1> TAKE ss \in Seq(Seq(T))
<1> DEFINE n == Len(ss)
<1>1. n \in Nat /\ ss \in [1..n -> Seq(T)] /\ DOMAIN ss = 1..n /\ (n = 0 => ss = <<>>)
  BY SeqIsFunction
<1> HIDE DEF n
<1>2. CASE n = 0
  <2>1. ToSet(<<>>) = {} /\ 1..n = {}
    BY <1>2 DEF ToSet
  <2> QED
    BY <1>1, <1>2, <2>1, FlattenNone
<1>3. CASE n # 0
  <2>1. n \in Nat \ {0} /\ n \in Int /\ 1 \in Int /\ n \in 1..n
    BY <1>1, <1>3
  <2>2. PICK f \in [1..n -> Seq(T)] : Joins(ss, n, f) /\ FlattenSeq(ss) = f[n]
    BY <1>1, <2>1, FlattenJoins, Zenon
  <2> DEFINE S == {k \in Int : ToSet(f[k]) = UNION {ToSet(ss[i]) : i \in 1..k}}
  <2>3. 1 \in S
    <3>1. 1..1 = {1} /\ f[1] = ss[1]
      BY <2>2 DEF Joins
    <3> QED
      BY <3>1
  <2>4. ASSUME NEW k \in 1..n - 1, k \in S PROVE k + 1 \in S
    <3>1. k \in 1..n /\ k + 1 \in 1..n /\ 1..k + 1 = 1..k \cup {k + 1}
      BY <2>1
    <3>2. f[k + 1] = f[k] \o ss[k + 1]
      BY <2>2 DEF Joins
    <3>3. f[k] \in Seq(T) /\ ss[k + 1] \in Seq(T)
      BY <1>1, <3>1
    <3>4. ToSet(f[k + 1]) = ToSet(f[k]) \cup ToSet(ss[k + 1])
      BY <3>2, <3>3, ConcatSet
    <3>5. UNION {ToSet(ss[i]) : i \in 1..k + 1} =
           (UNION {ToSet(ss[i]) : i \in 1..k}) \cup ToSet(ss[k + 1])
      BY <3>1, Zenon
    <3>6. k + 1 \in Int
      OBVIOUS
    <3> QED
      BY <2>4, <3>4, <3>5, <3>6, Zenon
  <2> HIDE DEF S
  <2>5. n \in S
    BY <2>1, <2>3, <2>4, Upwards
  <2> QED
    BY <1>1, <2>2, <2>5 DEF S
<1> QED
  BY <1>2, <1>3

LEMMA WithoutSet ==
  \A T, S : \A values \in Seq(T) : ToSet(Without(values, S)) = ToSet(values) \ S
<1> TAKE T, S
<1> TAKE values \in Seq(T)
<1> DEFINE ss == Pieces(values, S)
<1>1. ss \in [1..Len(values) -> Seq(T \ S)] /\ Without(values, S) = FlattenSeq(ss)
  BY PiecesType
<1>2. Len(values) \in Nat /\ DOMAIN values = 1..Len(values)
  BY SeqIsFunction
<1>3. ss \in Seq(Seq(T \ S)) /\ DOMAIN ss = 1..Len(values)
  BY <1>1, <1>2, FunctionIsSeq
<1>4. ToSet(Without(values, S)) = UNION {ToSet(ss[i]) : i \in 1..Len(values)}
  BY <1>1, <1>3, FlattenedSet
<1>5. ASSUME NEW i \in 1..Len(values)
      PROVE  ToSet(ss[i]) = IF values[i] \in S THEN {} ELSE {values[i]}
  <2>1. ToSet(<<>>) = {} /\ \A v : ToSet(<<v>>) = {v}
    BY DEF ToSet
  <2>2. ss[i] = IF values[i] \in S THEN <<>> ELSE <<values[i]>>
    BY <1>2 DEF Pieces
  <2> QED
    BY <2>1, <2>2
<1>6. ToSet(values) = {values[i] : i \in 1..Len(values)}
  BY <1>2 DEF ToSet
<1> HIDE DEF ss
<1>7. UNION {ToSet(ss[i]) : i \in 1..Len(values)} = {values[i] : i \in 1..Len(values)} \ S
  <2>1. ASSUME NEW i \in 1..Len(values) PROVE ToSet(ss[i]) \subseteq {values[j] : j \in 1..Len(values)} \ S
    BY <1>5
  <2>2. ASSUME NEW i \in 1..Len(values), values[i] \notin S PROVE values[i] \in ToSet(ss[i])
    BY <1>5, <2>2
  <2> QED
    BY <2>1, <2>2, Zenon
<1> QED
  BY <1>4, <1>6, <1>7

(* Downwards, and from any one of a range to all of it.                    *)
LEMMA Spreads ==
  \A S : \A a, b, m \in Int :
    /\ m \in a..b /\ m \in S
    /\ \A i \in a..b - 1 : i \in S <=> i + 1 \in S
    => \A i \in a..b : i \in S
<1> TAKE S
<1> TAKE a, b, m \in Int
<1> HAVE m \in a..b /\ m \in S /\ \A i \in a..b - 1 : i \in S <=> i + 1 \in S
<1>1. \A i \in m..b : i \in S
  <2>1. \A i \in m..b - 1 : i \in S => i + 1 \in S
    OBVIOUS
  <2>2. m \in S /\ m \in Int /\ b \in Int
    OBVIOUS
  <2> QED
    BY <2>1, <2>2, Upwards
<1> DEFINE D == {k \in Int : -k \in S}
<1>2. \A k \in -m..-a : k \in D
  <2>1. ASSUME NEW k \in -m..-a - 1, k \in D PROVE k + 1 \in D
    <3>1. -(k + 1) \in a..b - 1 /\ -(k + 1) + 1 = -k
      OBVIOUS
    <3> QED
      BY <2>1, <3>1
  <2>2. -m \in D /\ -m \in Int /\ -a \in Int
    OBVIOUS
  <2> HIDE DEF D
  <2> QED
    BY <2>1, <2>2, Upwards
<1>3. ASSUME NEW i \in a..m PROVE i \in S
  <2>1. -i \in -m..-a /\ -(-i) = i
    OBVIOUS
  <2> QED
    BY <1>2, <2>1
<1> QED
  BY <1>1, <1>3

(* Which cells a run of cells in curve order meets.                        *)
LEMMA FirstEndingAfter ==
  \A C : \A c \in UNION {Blocks(r) : r \in Resolutions} : Apart(C) =>
    LET runs  == InCurveOrder(C)
        after == {i \in DOMAIN runs : runs[i].slot + SlotCount[runs[i].res] > c.slot}
    IN  (after # {} /\ runs[Min(after)].slot < c.slot + SlotCount[c.res]) <=> \E d \in C : Meet(c, d)
<1> TAKE C
<1> TAKE c \in UNION {Blocks(r) : r \in Resolutions}
<1> HAVE Apart(C)
<1> DEFINE n == Cardinality(C)
           runs == InCurveOrder(C)
           End(d) == d.slot + SlotCount[d.res]
           after == {i \in 1..n : End(runs[i]) > c.slot}
<1>0. World \in Nat
  BY SlotCountsDivide, TreeAssumption DEF Resolutions, World
<1>1. /\ n \in Nat /\ DOMAIN runs = 1..n /\ runs \in [1..n -> C] /\ {runs[i] : i \in 1..n} = C
      /\ \A i, j \in 1..n : i < j => End(runs[i]) <= runs[j].slot
  BY CurveOrder
<1>2. /\ c.slot \in Nat /\ SlotCount[c.res] \in Nat \ {0}
      /\ Under(c) = c.slot..c.slot + SlotCount[c.res] - 1
  BY <1>0, BlockType, SlotCountsDivide DEF Slots
<1>3. \A d \in C : /\ d.slot \in Nat /\ SlotCount[d.res] \in Nat \ {0}
                   /\ Under(d) = d.slot..d.slot + SlotCount[d.res] - 1
  BY <1>0, CellType, SlotCountsDivide DEF Apart, Slots, Under
<1>4. \A d \in C : Meet(c, d) <=> d.slot < End(c) /\ c.slot < End(d)
  <2> TAKE d \in C
  <2>1. \A a, b \in Nat, u, v \in Nat \ {0} :
          (a..a + u - 1) \cap (b..b + v - 1) # {} <=> b < a + u /\ a < b + v
    <3> TAKE a, b \in Nat, u, v \in Nat \ {0}
    <3>1. ASSUME b < a + u, a < b + v PROVE (a..a + u - 1) \cap (b..b + v - 1) # {}
      <4>1. CASE a <= b
        <5>1. b \in a..a + u - 1 /\ b \in b..b + v - 1
          BY <3>1, <4>1
        <5> QED
          BY <5>1
      <4>2. CASE b < a
        <5>1. a \in a..a + u - 1 /\ a \in b..b + v - 1
          BY <3>1, <4>2
        <5> QED
          BY <5>1
      <4> QED
        BY <4>1, <4>2
    <3>2. ASSUME NEW s \in (a..a + u - 1) \cap (b..b + v - 1) PROVE b < a + u /\ a < b + v
      OBVIOUS
    <3> QED
      BY <3>1, <3>2
  <2> QED
    BY <1>2, <1>3, <2>1 DEF Meet
<1> HIDE DEF runs, n
<1>5. ASSUME NEW i \in after, runs[i].slot < End(c) PROVE \E d \in C : Meet(c, d)
  BY <1>1, <1>4, <1>5
<1>6. ASSUME NEW d \in C, Meet(c, d) PROVE after # {} /\ runs[Min(after)].slot < End(c)
  <2>1. PICK i \in 1..n : runs[i] = d
    BY <1>1
  <2>2. i \in after
    BY <1>4, <1>6, <2>1
  <2>3. PICK m \in after : m = Min(after) /\ m <= i
    <3>1. \E m \in after : \A j \in after : m <= j
      <4>1. after \subseteq Int /\ after # {} /\ 1 \in Int /\ \A j \in after : 1 <= j
        BY <1>1, <2>2
      <4> HIDE DEF after
      <4> QED
        BY <4>1, Least
    <3> HIDE DEF after
    <3> QED
      BY <2>2, <3>1 DEF Min
  <2>4. m \in 1..n /\ runs[m] \in C
    BY <1>1, <2>3
  <2>5. runs[m].slot <= d.slot
    <3>1. m < i => End(runs[m]) <= runs[i].slot
      BY <1>1, <2>4
    <3>2. m = i \/ m < i
      <4> HIDE DEF after
      <4>1. m \in 1..n /\ m <= i
        BY <2>3, <2>4
      <4> QED
        BY <4>1
    <3> QED
      BY <1>3, <2>1, <2>4, <3>1, <3>2
  <2>6. d.slot < End(c)
    BY <1>4, <1>6
  <2>7. runs[m].slot < End(c)
    <3>1. runs[m].slot \in Nat /\ d.slot \in Nat /\ End(c) \in Nat
      BY <1>2, <1>3, <2>4
    <3> HIDE DEF End
    <3> QED
      BY <2>5, <2>6, <3>1
  <2> HIDE DEF after
  <2> QED
    BY <2>2, <2>3, <2>7
<1>7. after # {} => Min(after) \in after
  <2>1. after \subseteq Int /\ 1 \in Int /\ \A j \in after : 1 <= j
    BY <1>1
  <2> HIDE DEF after
  <2> QED
    BY <2>1, Least DEF Min
<1>8. (after # {} /\ runs[Min(after)].slot < End(c)) <=> \E d \in C : Meet(c, d)
  <2> HIDE DEF after
  <2> QED
    BY <1>5, <1>6, <1>7
<1> QED
  BY <1>1, <1>8 DEF runs

-----------------------------------------------------------------------------
(* Sequences of cells in curve order.                                      *)

(* Cells whose slots ascend.                                               *)
Ascends(ss) == \A i, j \in DOMAIN ss : i < j => ss[i].slot < ss[j].slot

Before(p, q) == \A c \in ToSet(p), d \in ToSet(q) : c.slot < d.slot

LEMMA ConcatAscends ==
  \A p, q \in Seq(Cells) : Ascends(p) /\ Ascends(q) /\ Before(p, q) => Ascends(p \o q)
<1> TAKE p, q \in Seq(Cells)
<1> HAVE Ascends(p) /\ Ascends(q) /\ Before(p, q)
<1>1. /\ Len(p) \in Nat /\ DOMAIN p = 1..Len(p) /\ Len(q) \in Nat /\ DOMAIN q = 1..Len(q)
      /\ DOMAIN (p \o q) = 1..Len(p) + Len(q)
      /\ \A i \in 1..Len(p) : (p \o q)[i] = p[i]
      /\ \A i \in Len(p) + 1..Len(p) + Len(q) : (p \o q)[i] = q[i - Len(p)]
  OBVIOUS
<1> SUFFICES ASSUME NEW i \in 1..Len(p) + Len(q), NEW j \in 1..Len(p) + Len(q), i < j
             PROVE  (p \o q)[i].slot < (p \o q)[j].slot
  BY <1>1 DEF Ascends
<1>2. CASE j <= Len(p)
  <2>1. i \in DOMAIN p /\ j \in DOMAIN p /\ i \in 1..Len(p) /\ j \in 1..Len(p)
    BY <1>1, <1>2
  <2> QED
    BY <1>1, <2>1 DEF Ascends
<1>3. CASE i > Len(p)
  <2>1. /\ i - Len(p) \in DOMAIN q /\ j - Len(p) \in DOMAIN q /\ i - Len(p) < j - Len(p)
        /\ i \in Len(p) + 1..Len(p) + Len(q) /\ j \in Len(p) + 1..Len(p) + Len(q)
    BY <1>1, <1>3
  <2> QED
    BY <1>1, <2>1 DEF Ascends
<1>4. CASE i <= Len(p) /\ j > Len(p)
  <2>1. /\ i \in DOMAIN p /\ j - Len(p) \in DOMAIN q
        /\ i \in 1..Len(p) /\ j \in Len(p) + 1..Len(p) + Len(q)
    BY <1>1, <1>4
  <2>2. p[i] \in ToSet(p) /\ q[j - Len(p)] \in ToSet(q)
    BY <2>1 DEF ToSet
  <2> QED
    BY <1>1, <2>1, <2>2 DEF Before
<1> QED
  BY <1>1, <1>2, <1>3, <1>4

LEMMA FlattenAscends ==
  \A n \in Nat : \A ss \in [1..n -> Seq(Cells)] :
    /\ \A i \in 1..n : Ascends(ss[i])
    /\ \A i, j \in 1..n : i < j => Before(ss[i], ss[j])
    => Ascends(FlattenSeq(ss))
<1> TAKE n \in Nat
<1> TAKE ss \in [1..n -> Seq(Cells)]
<1> HAVE /\ \A i \in 1..n : Ascends(ss[i])
         /\ \A i, j \in 1..n : i < j => Before(ss[i], ss[j])
<1>1. CASE n = 0
  <2>1. ss = <<>>
    BY <1>1, FunctionIsSeq, SeqIsFunction
  <2> QED
    BY <2>1, FlattenNone DEF Ascends
<1>2. CASE n # 0
  <2>1. n \in Nat \ {0} /\ n \in Int /\ 1 \in Int /\ n \in 1..n
    BY <1>2
  <2>2. PICK f \in [1..n -> Seq(Cells)] : Joins(ss, n, f) /\ FlattenSeq(ss) = f[n]
    BY <2>1, FlattenJoins, Zenon
  <2> DEFINE S == {k \in Int : /\ Ascends(f[k])
                               /\ \A c \in ToSet(f[k]) : \E i \in 1..k : c \in ToSet(ss[i])}
  <2>3. 1 \in S
    <3>1. f[1] = ss[1] /\ 1 \in 1..n /\ 1 \in 1..1
      BY <2>1, <2>2 DEF Joins
    <3> QED
      BY <3>1
  <2>4. ASSUME NEW k \in 1..n - 1, k \in S PROVE k + 1 \in S
    <3>1. k \in 1..n /\ k + 1 \in 1..n /\ 1..k + 1 = 1..k \cup {k + 1} /\ k + 1 \in Int
      BY <2>1
    <3>2. f[k + 1] = f[k] \o ss[k + 1]
      BY <2>2 DEF Joins
    <3>3. f[k] \in Seq(Cells) /\ ss[k + 1] \in Seq(Cells)
      BY <3>1
    <3>4. ToSet(f[k + 1]) = ToSet(f[k]) \cup ToSet(ss[k + 1])
      BY <3>2, <3>3, ConcatSet
    <3>5. Before(f[k], ss[k + 1])
      <4> SUFFICES ASSUME NEW c \in ToSet(f[k]), NEW d \in ToSet(ss[k + 1]) PROVE c.slot < d.slot
        BY DEF Before
      <4>1. PICK i \in 1..k : c \in ToSet(ss[i])
        BY <2>4
      <4>2. i \in 1..n /\ i < k + 1
        BY <3>1, <2>1
      <4>3. Before(ss[i], ss[k + 1])
        BY <3>1, <4>2
      <4> QED
        BY <4>1, <4>3 DEF Before
    <3>6. Ascends(f[k + 1])
      BY <2>4, <3>1, <3>2, <3>3, <3>5, ConcatAscends
    <3>7. \A c \in ToSet(f[k + 1]) : \E i \in 1..k + 1 : c \in ToSet(ss[i])
      BY <2>4, <3>1, <3>4, Zenon
    <3> QED
      BY <3>1, <3>6, <3>7
  <2> HIDE DEF S
  <2>5. n \in S
    BY <2>1, <2>3, <2>4, Upwards
  <2> QED
    BY <2>2, <2>5 DEF S
<1> QED
  BY <1>1, <1>2

(* They are all different.                                                 *)
LEMMA AscendingCount ==
  \A ss \in Seq(Cells) : Ascends(ss) =>
    IsFiniteSet(ToSet(ss)) /\ Cardinality(ToSet(ss)) = Len(ss)
<1> TAKE ss \in Seq(Cells)
<1> HAVE Ascends(ss)
<1> DEFINE n == Len(ss)
<1>1. n \in Nat /\ DOMAIN ss = 1..n /\ \A i \in 1..n : ss[i] \in Cells /\ ss[i].slot \in Int
  <2>1. n \in Nat /\ DOMAIN ss = 1..n /\ \A i \in 1..n : ss[i] \in Cells
    BY SeqIsFunction
  <2>2. \A c \in Cells : c.slot \in Int
    <3>1. World \in Nat
      BY SlotCountsDivide, TreeAssumption DEF World, Resolutions
    <3> QED
      BY <3>1, CellType DEF Slots
  <2> QED
    BY <2>1, <2>2
<1>2. \A i, j \in 1..n : ss[i] = ss[j] => i = j
  <2> SUFFICES ASSUME NEW i \in 1..n, NEW j \in 1..n, ss[i] = ss[j], i # j PROVE FALSE
    OBVIOUS
  <2>1. i < j \/ j < i
    BY <1>1
  <2> QED
    BY <1>1, <2>1 DEF Ascends
<1>3. ToSet(ss) = {ss[i] : i \in 1..n}
  BY <1>1 DEF ToSet
<1>4. IsFiniteSet(1..n) /\ Cardinality(1..n) = n
  <2>1. n \in Int /\ 1 \in Int /\ (IF 1 > n THEN 0 ELSE n - 1 + 1) = n
    BY <1>1
  <2> HIDE DEF n
  <2> QED
    BY <2>1, FS_Interval
<1>5. ss \in Bijection(1..n, ToSet(ss))
  <2>1. ss \in [1..n -> ToSet(ss)]
    BY <1>1, <1>3, SeqIsFunction
  <2> QED
    BY <1>2, <1>3, <2>1 DEF Bijection, Injection, Surjection, IsInjective
<1> HIDE DEF n
<1>6. ExistsBijection(1..n, ToSet(ss))
  BY <1>5 DEF ExistsBijection
<1> QED
  BY <1>4, <1>6, FS_Bijection DEF n

-----------------------------------------------------------------------------
(* Expanding.                                                              *)

LEMMA CellNumbers ==
  \A c \in Cells : c.res \in Int /\ c.slot \in Nat /\ c = Cell(c.res, c.slot)
<1>1. World \in Nat
  BY SlotCountsDivide, TreeAssumption DEF World, Resolutions
<1> QED
  BY <1>1, CellType, BlockType DEF Slots, Resolutions

(* Only cells of the resolution have one descendant at it.                 *)
LEMMA OneDescendant ==
  \A q, r \in Resolutions : NumChildren(q, r) = 1 <=> q = r
<1> TAKE q, r \in Resolutions
<1>0. /\ q \in Int /\ r \in Int /\ q >= -1 /\ r <= MaxRes /\ MaxRes \in Nat /\ Resolutions = -1..MaxRes
      /\ SlotCount[r] \in Nat \ {0}
  BY TreeAssumption, SlotCountsDivide DEF Resolutions
<1>1. CASE q = r
  <2>1. NumChildren(q, r) \in Nat /\ SlotCount[r] = NumChildren(q, r) * SlotCount[r]
    BY <1>0, <1>1, NumChildrenType
  <2>2. \A n \in Nat, a \in Nat \ {0} : a = n * a => n = 1
    OBVIOUS
  <2> QED
    BY <1>0, <1>1, <2>1, <2>2
<1>2. CASE r < q
  BY <1>0, <1>2, NumChildrenType
<1>3. CASE q < r
  <2>1. q + 1 \in Resolutions /\ q + 1 <= r /\ q \in -1..MaxRes - 1
    BY <1>0, <1>3
  <2>2. NumChildren(q + 1, r) \in Nat \ {0} /\ SlotCount[q + 1] = NumChildren(q + 1, r) * SlotCount[r]
    BY <2>1, NumChildrenType
  <2>3. SlotCount[q] = Arity(q) * SlotCount[q + 1]
    BY <2>1, SlotCountDef
  <2>4. Arity(q) \in Nat \ {0, 1}
    BY TreeAssumption DEF Arity
  <2>5. NumChildren(q, r) \in Nat /\ SlotCount[q] = NumChildren(q, r) * SlotCount[r]
    <3>1. q <= r
      BY <1>0, <1>3
    <3> QED
      BY <3>1, NumChildrenType, Zenon
  <2>6. \A a, m, b, n \in Nat : b # 0 /\ n * b = a * (m * b) => n = a * m
    OBVIOUS
  <2>7. NumChildren(q, r) = Arity(q) * NumChildren(q + 1, r)
    <3>1. NumChildren(q, r) * SlotCount[r] = Arity(q) * (NumChildren(q + 1, r) * SlotCount[r])
      BY <2>2, <2>3, <2>5
    <3>2. NumChildren(q, r) \in Nat /\ Arity(q) \in Nat /\ NumChildren(q + 1, r) \in Nat
          /\ SlotCount[r] \in Nat /\ SlotCount[r] # 0
      BY <1>0, <2>2, <2>4, <2>5
    <3> DEFINE n == NumChildren(q, r)
               a == Arity(q)
               m == NumChildren(q + 1, r)
               b == SlotCount[r]
    <3>3. n * b = a * (m * b) /\ n \in Nat /\ a \in Nat /\ m \in Nat /\ b \in Nat /\ b # 0
      BY <3>1, <3>2
    <3> HIDE DEF n, a, m, b
    <3>4. n = a * m
      BY <2>6, <3>3
    <3> QED
      BY <3>4 DEF n, a, m
  <2>8. \A a \in Nat \ {0, 1}, m \in Nat \ {0} : a * m # 1
    OBVIOUS
  <2> QED
    BY <1>3, <1>0, <2>2, <2>4, <2>7, <2>8
<1> QED
  BY <1>0, <1>1, <1>2, <1>3

(* The cells of a resolution inside a set of slots, and that it has no     *)
(* place without an id at the resolution.                                  *)
CellsWithin(S, r) == {d \in Cells : d.res = r /\ Under(d) \subseteq S}

WithIds(S, r) == r = MaxRes => S \subseteq 0..TopQuintants * SlotCount[1] - 1

LEMMA ChildrenAre ==
  \A c \in Cells : \A r \in Resolutions : WithIds(Under(c), r) =>
    \A k \in 1..NumChildren(c.res, r) :
      /\ Children(c, r)[k] = Cell(r, c.slot + (k - 1) * SlotCount[r])
      /\ Children(c, r)[k] \in Cells
<1> TAKE c \in Cells
<1> TAKE r \in Resolutions
<1> HAVE WithIds(Under(c), r)
<1> TAKE k \in 1..NumChildren(c.res, r)
<1> DEFINE t == c.slot + (k - 1) * SlotCount[r]
<1>1. t \in Under(c) /\ Child(r, t) \in Cells
  BY ChildType
<1>2. Children(c, r)[k] = Child(r, t)
  BY DEF Children
<1>3. HasId(Cell(r, t))
  <2>1. ASSUME r = MaxRes PROVE t < TopQuintants * SlotCount[1]
    <3>1. TopQuintants * SlotCount[1] \in Int /\ t \in 0..TopQuintants * SlotCount[1] - 1
      <4>1. TopQuintants \in Int /\ SlotCount[1] \in Int
        BY SlotCountsDivide, TreeAssumption DEF Resolutions
      <4> QED
        BY <1>1, <2>1, <4>1 DEF WithIds
    <3> QED
      BY <3>1
  <2> QED
    BY <2>1 DEF HasId, Cell
<1> QED
  BY <1>1, <1>2, <1>3 DEF Child

LEMMA ExpansionOf ==
  \A c \in Cells : \A r \in Resolutions : c.res <= r /\ WithIds(Under(c), r) =>
    /\ Ascends(Expansion(c, r))
    /\ ToSet(Expansion(c, r)) = CellsWithin(Under(c), r)
<1> TAKE c \in Cells
<1> TAKE r \in Resolutions
<1> HAVE c.res <= r /\ WithIds(Under(c), r)
<1> DEFINE b == SlotCount[r]
           m == NumChildren(c.res, r)
<1>0. /\ c.res \in Resolutions /\ c.res \in Int /\ c.slot \in Nat /\ c.slot \in Under(c)
      /\ b \in Nat \ {0} /\ m \in Nat /\ m # 0 /\ SlotCount[c.res] = m * b /\ r \in Int
  <2>1. c.res \in Resolutions /\ c.res \in Int /\ c.slot \in Nat /\ c.slot \in Under(c)
    BY CellType, CellNumbers
  <2>2. m \in Nat /\ m # 0 /\ SlotCount[c.res] = m * b
    BY <2>1, NumChildrenType, Zenon
  <2> QED
    BY <2>1, <2>2, SlotCountsDivide, TreeAssumption DEF Resolutions
<1>1. CASE m = 1
  <2>1. c.res = r
    BY <1>0, <1>1, OneDescendant
  <2>2. CellsWithin(Under(c), r) = {c}
    <3>1. ASSUME NEW d \in Cells, d.res = r, Under(d) \subseteq Under(c) PROVE d = c
      <4>1. Meet(c, d)
        BY <3>1, CellType DEF Meet
      <4> QED
        BY <2>1, <3>1, <4>1, CellsEqual
    <3> QED
      BY <2>1, <3>1 DEF CellsWithin
  <2>3. Expansion(c, r) = <<c>>
    BY <1>1 DEF Expansion
  <2>4. Ascends(<<c>>) /\ ToSet(<<c>>) = {c}
    BY DEF Ascends, ToSet
  <2> QED
    BY <2>2, <2>3, <2>4
<1>2. CASE m # 1
  <2>1. Expansion(c, r) = Children(c, r) /\ DOMAIN Children(c, r) = 1..m
    BY <1>2 DEF Expansion, Children
  <2>2. \A k \in 1..m : /\ Children(c, r)[k] = Cell(r, c.slot + (k - 1) * b)
                       /\ Children(c, r)[k] \in Cells
    BY ChildrenAre
  <2> HIDE DEF m, b
  <2>3. Ascends(Children(c, r))
    <3>1. \A i, j \in 1..m : i < j => (i - 1) * b < (j - 1) * b
      BY <1>0
    <3>2. \A i \in 1..m : Children(c, r)[i].slot = c.slot + (i - 1) * b /\ (i - 1) * b \in Int
      <4>1. \A i \in 1..m : (i - 1) * b \in Int
        BY <1>0
      <4>2. \A s : Cell(r, s).slot = s
        BY DEF Cell
      <4> QED
        BY <2>2, <4>1, <4>2
    <3>3. \A i, j \in 1..m : i < j => Children(c, r)[i].slot < Children(c, r)[j].slot
      BY <1>0, <3>1, <3>2
    <3> QED
      BY <2>1, <3>3 DEF Ascends
  <2>4. ASSUME NEW k \in 1..m PROVE Children(c, r)[k] \in CellsWithin(Under(c), r)
    <3>1. c.slot + (k - 1) * b \in Under(c)
      BY ChildType DEF m, b
    <3>2. Children(c, r)[k] \in Cells /\ Children(c, r)[k].res = r
          /\ Children(c, r)[k].slot \in Under(c)
      <4>1. \A s : Cell(r, s).slot = s /\ Cell(r, s).res = r
        BY DEF Cell
      <4> QED
        BY <2>2, <3>1, <4>1
    <3>3. Meet(c, Children(c, r)[k])
      BY <3>2, CellType DEF Meet
    <3>4. Under(Children(c, r)[k]) \subseteq Under(c)
      BY <3>2, <3>3, CellsNest
    <3> QED
      BY <3>2, <3>4 DEF CellsWithin
  <2>5. ASSUME NEW d \in CellsWithin(Under(c), r) PROVE \E k \in 1..m : d = Children(c, r)[k]
    <3>1. d \in Cells /\ d.res = r /\ d.slot \in Under(c) /\ d.slot \in Nat /\ d = Cell(r, d.slot)
      BY CellType, CellNumbers DEF CellsWithin
    <3>2. PICK i \in Nat : d.slot = i * b
      BY <3>1, CellType, BlockType DEF b
    <3>3. PICK j \in Nat : c.slot = j * (m * b)
      <4>1. c \in Blocks(c.res) /\ SlotCount[c.res] = m * b
        BY <1>0, CellType
      <4>2. \E j \in Nat : c.slot = j * SlotCount[c.res]
        BY <1>0, <4>1, BlockType
      <4> QED
        BY <4>1, <4>2
    <3>4. c.slot <= d.slot /\ d.slot < c.slot + m * b
      <4>1. m * b \in Int
        BY <1>0
      <4> QED
        BY <1>0, <3>1, <4>1 DEF Under
    <3>5. j * m <= i /\ i < j * m + m
      <4>1. j * (m * b) = (j * m) * b /\ j * m \in Int /\ (j * m) * b + m * b = (j * m + m) * b
        BY <1>0
      <4>2. (j * m) * b <= i * b /\ i * b < (j * m + m) * b
        BY <3>2, <3>3, <3>4, <4>1
      <4>3. (j * m) * b < (i + 1) * b
        BY <1>0, <4>1, <4>2
      <4>4. j * m < i + 1 /\ i < j * m + m
        <5>1. j * m + m \in Int /\ i + 1 \in Int /\ i \in Int /\ j * m \in Int
          BY <1>0, <4>1
        <5> QED
          BY <1>0, <4>2, <4>3, <5>1, TimesCancel
      <4> QED
        BY <4>1, <4>4
    <3> DEFINE k == i - j * m + 1
    <3>6. k \in 1..m /\ k - 1 = i - j * m
      BY <1>0, <3>5
    <3>7. c.slot + (k - 1) * b = d.slot
      <4>1. (i - j * m) * b = i * b - j * (m * b)
        BY <1>0
      <4>2. (k - 1) * b = i * b - j * (m * b)
        BY <3>6, <4>1
      <4>3. i * b \in Int /\ j * (m * b) \in Int
        BY <1>0
      <4> QED
        BY <3>2, <3>3, <4>2, <4>3
    <3> HIDE DEF k
    <3> QED
      BY <2>2, <3>1, <3>6, <3>7
  <2> QED
    BY <2>1, <2>3, <2>4, <2>5 DEF ToSet
<1> QED
  BY <1>1, <1>2

LEMMA WithinInside ==
  \A S : \A r \in Resolutions : \A d \in CellsWithin(S, r) :
    /\ d \in Cells /\ d.res = r /\ d.slot \in Nat /\ d.slot \in S
    /\ Under(d) = d.slot..d.slot + SlotCount[r] - 1 /\ SlotCount[r] \in Nat
  BY CellType, CellNumbers, SlotCountsDivide DEF CellsWithin, Under

(* Expanded, a covering is the cells of the resolution inside its set, in  *)
(* curve order.                                                            *)
LEMMA UncompactIs ==
  \A S : \A own, r \in Resolutions : \A values \in Seq(Values) :
    /\ Full(S, own) /\ own <= r /\ WithIds(S, r)
    /\ CellsIn(values) = InCurveOrder(Coarsest(S)) /\ CoveringResolution(values) = r
    => /\ UncompactValues(values) \in Seq(Cells)
       /\ Ascends(UncompactValues(values))
       /\ ToSet(UncompactValues(values)) = CellsWithin(S, r)
<1> TAKE S
<1> TAKE own, r \in Resolutions
<1> TAKE values \in Seq(Values)
<1> HAVE /\ Full(S, own) /\ own <= r /\ WithIds(S, r)
         /\ CellsIn(values) = InCurveOrder(Coarsest(S)) /\ CoveringResolution(values) = r
<1> DEFINE C == Coarsest(S)
           n == Cardinality(C)
           held == InCurveOrder(C)
           ss == Expansions(values)
<1>1. /\ Apart(C)
      /\ \A c \in C : c \in Cells /\ c.res \in Int /\ c.res <= own /\ Under(c) \subseteq S
      /\ \A s \in S : \E c \in C : s \in Under(c)
  BY CoarsestFills, CellNumbers DEF Apart
<1>2. own \in Int /\ r \in Int
  BY TreeAssumption DEF Resolutions
<1>3. /\ n \in Nat /\ held \in [1..n -> C] /\ {held[i] : i \in 1..n} = C
      /\ \A i, j \in 1..n : i < j => held[i].slot + SlotCount[held[i].res] <= held[j].slot
  BY <1>1, CurveOrder
<1> HIDE DEF C, n
<1>4. DOMAIN held = 1..n /\ Len(held) = n
  BY <1>3, FunctionIsSeq
<1>5. /\ UncompactValues(values) = FlattenSeq(ss) /\ ss \in [1..n -> Seq(Cells)]
      /\ \A i \in 1..n : ss[i] = Expansion(held[i], r)
  BY <1>4, ExpansionsType DEF Expansions, C
<1> HIDE DEF ss, held
<1>6. \A i \in 1..n : held[i] \in C /\ Ascends(ss[i]) /\ ToSet(ss[i]) = CellsWithin(Under(held[i]), r)
  <2> TAKE i \in 1..n
  <2>1. held[i] \in C
    BY <1>3
  <2>2. held[i] \in Cells /\ held[i].res <= r /\ Under(held[i]) \subseteq S
    BY <1>1, <1>2, <2>1
  <2>3. WithIds(Under(held[i]), r)
    BY <2>2 DEF WithIds
  <2> QED
    BY <1>5, <2>1, <2>2, <2>3, ExpansionOf
<1>7. \A i, j \in 1..n : i < j => Before(ss[i], ss[j])
  <2> SUFFICES ASSUME NEW i \in 1..n, NEW j \in 1..n, i < j,
                      NEW c \in ToSet(ss[i]), NEW d \in ToSet(ss[j])
               PROVE  c.slot < d.slot
    BY DEF Before
  <2>1. /\ c.slot \in Nat /\ c.slot \in Under(held[i])
        /\ d.slot \in Nat /\ d.slot \in Under(held[j])
    BY <1>6, WithinInside
  <2>2. /\ held[i].slot \in Nat /\ held[j].slot \in Nat
        /\ SlotCount[held[i].res] \in Nat /\ SlotCount[held[j].res] \in Nat
    BY <1>1, <1>6, CellType, CellNumbers, SlotCountsDivide
  <2>3. held[i].slot + SlotCount[held[i].res] <= held[j].slot
    BY <1>3
  <2>4. \A u, w, m, n1, p, q \in Nat :
          p \in u..u + m - 1 /\ q \in w..w + n1 - 1 /\ u + m <= w => p < q
    OBVIOUS
  <2>5. /\ c.slot \in held[i].slot..held[i].slot + SlotCount[held[i].res] - 1
        /\ d.slot \in held[j].slot..held[j].slot + SlotCount[held[j].res] - 1
    BY <2>1 DEF Under
  <2> QED
    BY <2>1, <2>2, <2>3, <2>4, <2>5
<1>8. Ascends(FlattenSeq(ss))
  BY <1>3, <1>5, <1>6, <1>7, FlattenAscends
<1>9. ToSet(FlattenSeq(ss)) = CellsWithin(S, r)
  <2>1. ss \in Seq(Seq(Cells)) /\ DOMAIN ss = 1..n
    BY <1>3, <1>5, FunctionIsSeq
  <2>2. ToSet(FlattenSeq(ss)) = UNION {ToSet(ss[i]) : i \in 1..n}
    BY <2>1, FlattenedSet
  <2>3. ASSUME NEW i \in 1..n, NEW d \in ToSet(ss[i]) PROVE d \in CellsWithin(S, r)
    BY <1>1, <1>6 DEF CellsWithin
  <2>4. ASSUME NEW d \in CellsWithin(S, r) PROVE \E i \in 1..n : d \in ToSet(ss[i])
    <3>1. d \in Cells /\ d.res = r /\ d.slot \in S /\ d.slot \in Under(d)
      BY WithinInside, CellType
    <3>2. PICK c \in C : d.slot \in Under(c)
      BY <1>1, <3>1
    <3>3. c \in Cells /\ c.res <= d.res /\ Meet(c, d)
      BY <1>1, <1>2, <3>1, <3>2 DEF Meet
    <3>4. Under(d) \subseteq Under(c)
      BY <3>1, <3>3, CellsNest
    <3>5. PICK i \in 1..n : c = held[i]
      BY <1>3
    <3> QED
      BY <1>6, <3>1, <3>4, <3>5 DEF CellsWithin
  <2> QED
    BY <2>2, <2>3, <2>4
<1> QED
  BY <1>5, <1>8, <1>9, UncompactType

(* Cells of one resolution whose slots ascend lie apart.                   *)
LEMMA AscendingApart ==
  \A S : \A r \in Resolutions : \A ss : Ascends(ss) /\ ToSet(ss) \subseteq CellsWithin(S, r) =>
    \A i, j \in DOMAIN ss : i < j => \A s \in Under(ss[i]), t \in Under(ss[j]) : s < t
<1> SUFFICES ASSUME NEW S, NEW r \in Resolutions, NEW ss, Ascends(ss),
                    ToSet(ss) \subseteq CellsWithin(S, r),
                    NEW i \in DOMAIN ss, NEW j \in DOMAIN ss, i < j,
                    NEW s \in Under(ss[i]), NEW t \in Under(ss[j]), ~(s < t)
             PROVE  FALSE
  OBVIOUS
<1>1. ss[i] \in CellsWithin(S, r) /\ ss[j] \in CellsWithin(S, r) /\ ss[i].slot < ss[j].slot
  BY DEF Ascends, ToSet
<1>2. /\ ss[i] \in Cells /\ ss[j] \in Cells /\ ss[i].res = r /\ ss[j].res = r
      /\ ss[i].slot \in Nat /\ ss[j].slot \in Nat /\ SlotCount[r] \in Nat
      /\ Under(ss[i]) = ss[i].slot..ss[i].slot + SlotCount[r] - 1
      /\ Under(ss[j]) = ss[j].slot..ss[j].slot + SlotCount[r] - 1
  BY <1>1, WithinInside
<1>3. t \in Under(ss[i])
  BY <1>1, <1>2
<1>4. ss[i] = ss[j]
  BY <1>2, <1>3, CellsEqual DEF Meet
<1> QED
  BY <1>1, <1>2, <1>4

(* The cells of a resolution inside a set that coarser cells fill fill it. *)
LEMMA WithinFills ==
  \A S : \A own, r \in Resolutions : Full(S, own) /\ own <= r /\ WithIds(S, r) =>
    UNION {Under(d) : d \in CellsWithin(S, r)} = S
<1> TAKE S
<1> TAKE own, r \in Resolutions
<1> HAVE Full(S, own) /\ own <= r /\ WithIds(S, r)
<1> SUFFICES ASSUME NEW s \in S PROVE \E d \in CellsWithin(S, r) : s \in Under(d)
  BY DEF CellsWithin
<1>1. own \in Int /\ r \in Int /\ r <= MaxRes
  BY TreeAssumption DEF Resolutions
<1>2. PICK a \in Cells : a.res <= own /\ s \in Under(a) /\ Under(a) \subseteq S
  BY DEF Full, FilledAt
<1>3. s \in Slots
  BY DEF Full
<1> DEFINE d == BlockAt(r, s)
<1>4. d \in Blocks(r) /\ s \in Under(d)
  BY <1>3, BlockAround
<1>5. HasId(d)
  <2> SUFFICES ASSUME d.res = MaxRes PROVE d.slot < TopQuintants * SlotCount[1]
    BY DEF HasId
  <2>1. r = MaxRes /\ SlotCount[r] = 1
    BY <1>4, BlockType, SlotCountDef
  <2>2. d.slot \in Slots /\ Under(d) = d.slot..d.slot + 1 - 1
    BY <1>4, <2>1, BlockType
  <2>3. d.slot \in Int /\ TopQuintants * SlotCount[1] \in Int
    <3>1. TopQuintants \in Int /\ SlotCount[1] \in Int
      BY SlotCountsDivide, TreeAssumption DEF Resolutions
    <3> QED
      BY <2>2, <3>1 DEF Slots
  <2>4. d.slot = s
    BY <1>4, <2>2, <2>3
  <2>5. s \in 0..TopQuintants * SlotCount[1] - 1
    BY <2>1 DEF WithIds
  <2> QED
    BY <2>3, <2>4, <2>5
<1>6. d \in Cells /\ d.res = r
  BY <1>4, <1>5, BlockType DEF Cells
<1> HIDE DEF d
<1>7. Under(d) \subseteq Under(a)
  <2>1. a.res \in Int
    BY CellNumbers
  <2>2. Meet(a, d) /\ a.res <= d.res
    BY <1>1, <1>2, <1>4, <1>6, <2>1 DEF Meet
  <2> QED
    BY <1>6, <2>2, CellsNest
<1> QED
  BY <1>2, <1>4, <1>6, <1>7 DEF CellsWithin
=============================================================================
