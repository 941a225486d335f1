-------------------------- MODULE SupercellsProofs --------------------------
(***************************************************************************)
(* The search for supercells forgets nothing, on any curve and whatever    *)
(* cells touch: when it ends, the cells it kept are those of all it met    *)
(* that hold a centre, and every neighbour of a kept cell was met.         *)
(***************************************************************************)
EXTENDS Supercells, CellTreeProofs

-----------------------------------------------------------------------------
(* Blocks within blocks, and the descendants of a cell.                    *)

LEMMA TreeBounds ==
  /\ MaxRes \in Nat \ {0, 1} /\ Resolutions = -1..MaxRes
  /\ World \in Nat \ {0} /\ Slots = 0..World - 1
  /\ SlotCount[1] \in Nat \ {0} /\ TopQuintants \in Nat /\ Segments \in Nat \ {0}
  BY TreeAssumption, SlotCountsDivide DEF Resolutions, World, Slots

LEMMA Remainder == \A s \in Nat, a \in Nat \ {0} : s - (s % a) = (s \div a) * a
  OBVIOUS

LEMMA Quotient ==
  \A s, k \in Nat, a \in Nat \ {0} : k * a <= s /\ s < (k + 1) * a => s \div a = k
<1> TAKE s, k \in Nat, a \in Nat \ {0}
<1> HAVE k * a <= s /\ s < (k + 1) * a
<1> DEFINE j == s \div a
<1>1. j \in Nat /\ j * a <= s /\ s < j * a + a
  BY Division
<1> HIDE DEF j
<1>2. j * a \in Nat /\ (j + 1) * a = j * a + a /\ k * a \in Nat /\ (k + 1) * a \in Nat
  BY <1>1
<1>3. j * a < (k + 1) * a /\ k * a < (j + 1) * a
  BY <1>1, <1>2
<1>4. j < k + 1 /\ k < j + 1
  BY <1>1, <1>3, TimesCancel
<1> QED
  BY <1>1, <1>4 DEF j

LEMMA QuotientLess ==
  \A s, m \in Nat, a \in Nat \ {0} : s < m * a <=> s \div a < m
<1> TAKE s, m \in Nat, a \in Nat \ {0}
<1> DEFINE j == s \div a
<1>1. j \in Nat /\ j * a <= s /\ s < j * a + a
  BY Division
<1> HIDE DEF j
<1>2. j * a \in Nat /\ (j + 1) * a = j * a + a /\ m * a \in Nat
  BY <1>1
<1>3. s < m * a => j < m
  <2>1. s < m * a => j * a < m * a
    BY <1>1, <1>2
  <2> QED
    BY <1>1, <2>1, TimesCancel
<1>4. j < m => s < m * a
  <2>1. j + 1 <= m => (j + 1) * a <= m * a
    BY <1>1, TimesMonotone
  <2> QED
    BY <1>1, <1>2, <2>1
<1> QED
  BY <1>3, <1>4 DEF j

(* The blocks of a resolution under a block are a range of them.           *)
Parts(u, r, first, count) ==
  /\ first \in Nat /\ count \in Nat \ {0}
  /\ u.slot = first * SlotCount[r] /\ SlotCount[u.res] = count * SlotCount[r]
  /\ \A i \in first..first + count - 1 :
       LET e == Cell(r, i * SlotCount[r])
       IN  e \in Blocks(r) /\ e.slot \in Under(u) /\ Under(e) \subseteq Under(u)
  /\ \A e \in Blocks(r) : e.slot \in Under(u) =>
       \E i \in first..first + count - 1 : e = Cell(r, i * SlotCount[r])

LEMMA PartsExist ==
  \A r \in Resolutions : \A q \in -1..r : \A u \in Blocks(q) :
    \E first, count \in Nat : Parts(u, r, first, count)
<1> TAKE r \in Resolutions
<1> TAKE q \in -1..r
<1> TAKE u \in Blocks(q)
<1> DEFINE b == SlotCount[r]
<1>1. q \in Resolutions /\ World \in Nat
  BY TreeBounds
<1>2. b \in Nat \ {0}
  BY SlotCountsDivide
<1>3. PICK m \in Nat \ {0} : SlotCount[q] = m * b
  BY SlotCountsDivide DEF Whole
<1>4. PICK k \in Nat : u.slot = k * (m * b)
  BY <1>1, <1>3, BlockType
<1>5. u.res = q /\ Under(u) = u.slot..u.slot + m * b - 1 /\ Under(u) \subseteq Slots
  BY <1>1, <1>3, BlockType
<1> DEFINE f == k * m
<1>6. f \in Nat /\ u.slot = f * b /\ f * b \in Nat /\ f * b + m * b = (f + m) * b
  BY <1>2, <1>4
<1> HIDE DEF f, b
<1>7. ASSUME NEW i \in f..f + m - 1
      PROVE  LET e == Cell(r, i * b) IN e \in Blocks(r) /\ e.slot \in Under(u) /\ Under(e) \subseteq Under(u)
  <2>1. i \in Nat /\ f <= i /\ i + 1 <= f + m
    BY <1>6
  <2>2. f * b <= i * b /\ (i + 1) * b <= (f + m) * b
    BY <1>2, <1>6, <2>1, TimesMonotone
  <2>3. (i + 1) * b = i * b + b /\ i * b \in Nat /\ (f + m) * b \in Nat
    BY <1>2, <1>6, <2>1
  <2>4. i * b \in Under(u)
    BY <1>2, <1>5, <1>6, <2>2, <2>3
  <2>5. i * b \in Slots
    BY <1>5, <2>4
  <2>6. (i * b) \div b = i
    BY <1>2, <2>1, DivisionOfMultiple
  <2>7. Cell(r, i * b) \in Blocks(r)
    BY <2>5, <2>6, BlockAround DEF BlockAt, b
  <2>8. Cell(r, i * b).slot = i * b
    BY DEF Cell
  <2>9. i * b \in Under(Cell(r, i * b))
    BY <2>7, <2>8, BlockType
  <2>10. Meet(u, Cell(r, i * b))
    BY <2>4, <2>9 DEF Meet
  <2>11. Under(Cell(r, i * b)) \subseteq Under(u)
    BY <2>7, <2>10, BlocksNest
  <2> QED
    BY <2>4, <2>7, <2>8, <2>11
<1>8. ASSUME NEW e \in Blocks(r), e.slot \in Under(u)
      PROVE  \E i \in f..f + m - 1 : e = Cell(r, i * b)
  <2>1. PICK i \in Nat : e.slot = i * b
    BY BlockType DEF b
  <2>2. e = Cell(r, i * b)
    BY <2>1, BlockType
  <2>3. f * b <= i * b /\ i * b < (f + m) * b
    BY <1>2, <1>5, <1>6, <1>8, <2>1
  <2>4. f * b < (i + 1) * b /\ i * b < (f + m) * b
    BY <1>2, <1>6, <2>3
  <2>5. f < i + 1 /\ i < f + m
    BY <1>2, <1>6, <2>4, TimesCancel
  <2>6. i \in f..f + m - 1
    BY <1>6, <2>5
  <2> QED
    BY <2>2, <2>6
<1>9. Parts(u, r, f, m)
  BY <1>3, <1>5, <1>6, <1>7, <1>8 DEF Parts, b
<1> QED
  BY <1>6, <1>9

LEMMA PartsCounted ==
  \A r \in Resolutions : \A c \in Cells : \A first, count \in Nat :
    c.res <= r /\ Parts(c, r, first, count) => count = NumChildren(c.res, r)
<1> TAKE r \in Resolutions
<1> TAKE c \in Cells
<1> TAKE first, count \in Nat
<1> HAVE c.res <= r /\ Parts(c, r, first, count)
<1> DEFINE b == SlotCount[r]
           n == NumChildren(c.res, r)
<1>1. b \in Nat \ {0} /\ c.res \in Resolutions
  BY SlotCountsDivide, CellType
<1>2. n \in Nat /\ SlotCount[c.res] = n * b
  BY <1>1, NumChildrenType
<1>3. SlotCount[c.res] = count * b
  BY DEF Parts
<1> HIDE DEF b, n
<1>4. (count * b) \div b = count /\ (n * b) \div b = n
  BY <1>1, <1>2, DivisionOfMultiple
<1> QED
  BY <1>2, <1>3, <1>4 DEF n

(* A block is in one block of each coarser resolution.                     *)
LEMMA SameBlock ==
  \A q \in Resolutions : \A p \in -1..q : \A u \in Blocks(q) : \A s, t \in Under(u) :
    s \div SlotCount[p] = t \div SlotCount[p]
<1> TAKE q \in Resolutions
<1> TAKE p \in -1..q
<1> TAKE u \in Blocks(q)
<1> TAKE s, t \in Under(u)
<1> DEFINE a == SlotCount[p]
           v == BlockAt(p, s)
           k == s \div a
<1>1. p \in Resolutions /\ s \in Slots /\ t \in Slots
  BY TreeBounds, BlockType
<1>2. s \in Nat /\ t \in Nat /\ a \in Nat \ {0}
  BY <1>1, SlotCountsDivide, TreeBounds
<1>3. v \in Blocks(p) /\ s \in Under(v)
  BY <1>1, BlockAround
<1>4. t \in Under(v)
  BY <1>3, BlocksNest DEF Meet
<1>5. k \in Nat /\ Under(v) = k * a..k * a + a - 1
  BY <1>2, Division DEF Under, BlockAt, Cell
<1> HIDE DEF k, a
<1>6. k * a <= t /\ t < (k + 1) * a
  BY <1>2, <1>4, <1>5
<1>7. t \div a = k
  BY <1>2, <1>5, <1>6, Quotient
<1> QED
  BY <1>7 DEF k, a

(* A slot of the finest cells without ids is that of such a quintant.      *)
LEMMA IdOfQuintant ==
  \A s \in Slots : HasId(Cell(MaxRes, s)) <=> s \div SlotCount[1] < TopQuintants
<1> TAKE s \in Slots
<1>1. s \in Nat /\ SlotCount[1] \in Nat \ {0} /\ TopQuintants \in Nat
  BY TreeBounds
<1> QED
  BY <1>1, QuotientLess DEF HasId, Cell

LEMMA FanCount == SlotCount[MaxRes - 1] = Fan
<1>1. MaxRes - 1 \in -1..MaxRes - 1 /\ MaxRes - 1 >= 1 /\ (MaxRes - 1) + 1 = MaxRes /\ Fan \in Nat
  BY TreeBounds, TreeAssumption
<1>2. SlotCount[MaxRes - 1] = Arity(MaxRes - 1) * SlotCount[(MaxRes - 1) + 1]
  BY <1>1, SlotCountDef
<1> QED
  BY <1>1, <1>2, SlotCountDef DEF Arity

(* What is counted out is what the crate lists, and it is the block there  *)
(* if that has an id.                                                      *)
LEMMA NthIsChild ==
  \A c \in Cells : \A r \in Resolutions : \A k \in 0..NumChildren(c.res, r) - 1 :
    LET t == c.slot + k * SlotCount[r]
    IN  /\ Nth(c, r, k) = Child(r, t)
        /\ t \in Under(c) /\ t \in Slots
        /\ Child(r, t) \in Cells
        /\ ~HasId(Cell(r, t)) => r = MaxRes /\ Child(r, t) = BlockAt(r - 1, t)
<1> TAKE c \in Cells
<1> TAKE r \in Resolutions
<1> TAKE k \in 0..NumChildren(c.res, r) - 1
<1> DEFINE t == c.slot + k * SlotCount[r]
<1>1. NumChildren(c.res, r) \in Nat /\ k \in Nat /\ k + 1 \in 1..NumChildren(c.res, r) /\ (k + 1) - 1 = k
  BY CellType, NumChildrenType
<1>2. t \in Under(c) /\ Child(r, t) \in Cells
  <2>1. /\ c.slot + ((k + 1) - 1) * SlotCount[r] \in Under(c)
        /\ Child(r, c.slot + ((k + 1) - 1) * SlotCount[r]) \in Cells
    BY <1>1, ChildType
  <2> QED
    BY <1>1, <2>1
<1>3. t \in Slots /\ t \in Nat
  BY <1>2, CellType, TreeBounds
<1>4. ASSUME r # MaxRes
      PROVE  HasId(Cell(r, t)) /\ Nth(c, r, k) = Child(r, t)
  <2>1. HasId(Cell(r, t))
    BY <1>4 DEF HasId, Cell
  <2> QED
    BY <1>4, <2>1 DEF Child, Nth
<1>5. ASSUME r = MaxRes, HasId(Cell(r, t)) PROVE Nth(c, r, k) = Child(r, t)
  <2>1. t \div SlotCount[1] < TopQuintants
    BY <1>3, <1>5, IdOfQuintant
  <2>2. ~(t \div SlotCount[1] >= TopQuintants)
    <3>1. t \div SlotCount[1] \in Nat /\ TopQuintants \in Nat
      BY <1>3, TreeBounds, Division
    <3> QED
      BY <2>1, <3>1
  <2> QED
    BY <1>5, <2>2 DEF Child, Nth
<1>6. ASSUME r = MaxRes, ~HasId(Cell(r, t))
      PROVE  Nth(c, r, k) = Child(r, t) /\ Child(r, t) = BlockAt(r - 1, t)
  <2>1. t \div SlotCount[1] >= TopQuintants
    <3>1. ~(t \div SlotCount[1] < TopQuintants)
      BY <1>3, <1>6, IdOfQuintant
    <3>2. t \div SlotCount[1] \in Nat /\ TopQuintants \in Nat
      BY <1>3, TreeBounds, Division
    <3> QED
      BY <3>1, <3>2
  <2>2. SlotCount[r - 1] = Fan /\ Fan \in Nat \ {0}
    BY <1>6, FanCount, TreeAssumption
  <2>3. t - (t % Fan) = (t \div Fan) * Fan
    BY <1>3, <2>2, Remainder
  <2>4. Nth(c, r, k) = Cell(r - 1, t - (t % Fan))
    BY <1>6, <2>1 DEF Nth
  <2>5. Child(r, t) = Cell(r - 1, t - (t % Fan))
    BY <1>6, <2>2 DEF Child
  <2> QED
    BY <2>2, <2>3, <2>4, <2>5 DEF BlockAt
<1> QED
  BY <1>2, <1>3, <1>4, <1>5, <1>6

LEMMA CountIsNumChildren ==
  \A q, r \in Resolutions : \A c : c.res = q /\ q <= r => Count(c, r) = NumChildren(q, r)
<1> TAKE q, r \in Resolutions
<1> TAKE c
<1> HAVE c.res = q /\ q <= r
<1>1. ~(r < q)
  BY TreeBounds
<1> QED
  BY <1>1 DEF Count, NumChildren

-----------------------------------------------------------------------------
(* The stored cells and their descendants.                                 *)

LEMMA StoredType ==
  values \in Coverings =>
    /\ values \in Seq(Values) /\ Resolution \in Resolutions
    /\ Apart(Stored) /\ Stored = ToSet(CellsIn(values))
    /\ \A c \in Stored : c \in Cells /\ c.res \in -1..Resolution
<1> HAVE values \in Coverings
<1>1. values \in Seq(Values)
  BY CoveringsAssumption DEF Values
<1>2. ToSet(values) \subseteq Values
  BY <1>1, SeqIsFunction DEF ToSet
<1>3. Stored \subseteq Cells
  BY <1>2 DEF Stored, Values
<1>4. Resolution \in Resolutions
  BY <1>1, ResolutionType DEF Resolution
<1>5. Stored = ToSet(CellsIn(values))
  BY <1>1, WithoutSet DEF Stored, CellsIn
<1>6. Apart(Stored)
  BY <1>3, CoveringsAssumption DEF Apart, Stored, Meet
<1>7. ASSUME NEW c \in Stored PROVE c.res \in -1..Resolution
  <2>1. c.res <= Resolution
    BY CoveringsAssumption DEF Stored, Resolution
  <2> QED
    BY <1>3, <1>4, <2>1, CellType, TreeBounds
<1> QED
  BY <1>1, <1>3, <1>4, <1>5, <1>6, <1>7

LEMMA ChildrenCounted ==
  \A c \in Cells : \A r \in Resolutions : r >= c.res =>
    /\ Count(c, r) = NumChildren(c.res, r) /\ NumChildren(c.res, r) \in Nat \ {0}
    /\ Children(c, r) = [k \in 1..NumChildren(c.res, r) |-> Nth(c, r, k - 1)]
<1> TAKE c \in Cells
<1> TAKE r \in Resolutions
<1> HAVE r >= c.res
<1>1. c.res \in Resolutions /\ c.res <= r
  BY CellType, TreeBounds
<1>2. Count(c, r) = NumChildren(c.res, r) /\ NumChildren(c.res, r) \in Nat \ {0}
  BY <1>1, CountIsNumChildren, NumChildrenType
<1>3. ASSUME NEW k \in 1..NumChildren(c.res, r)
      PROVE  Child(r, c.slot + (k - 1) * SlotCount[r]) = Nth(c, r, k - 1)
  <2>1. k - 1 \in 0..NumChildren(c.res, r) - 1
    BY <1>2
  <2> QED
    BY <2>1, NthIsChild
<1> QED
  BY <1>2, <1>3 DEF Children

(* Above the finest resolution the descendants are the blocks of a range.  *)
LEMMA RangeIsChildren ==
  \A c \in Cells : \A r \in Resolutions : r >= c.res /\ r < MaxRes =>
    InRange(c, r) = ToSet(Children(c, r))
<1> TAKE c \in Cells
<1> TAKE r \in Resolutions
<1> HAVE r >= c.res /\ r < MaxRes
<1> DEFINE b == SlotCount[r]
           n == NumChildren(c.res, r)
<1>1. c.res \in -1..r /\ c \in Blocks(c.res) /\ b \in Nat \ {0} /\ r # MaxRes
  BY CellType, TreeBounds, SlotCountsDivide
<1>2. PICK first, count \in Nat : Parts(c, r, first, count)
  BY <1>1, PartsExist
<1>3. /\ n \in Nat \ {0} /\ Count(c, r) = n
      /\ Children(c, r) = [k \in 1..n |-> Nth(c, r, k - 1)]
  BY ChildrenCounted
<1>4. count = n
  <2>1. c.res <= r
    BY <1>1, TreeBounds
  <2> QED
    BY <1>2, <2>1, PartsCounted
<1>5. c.slot = first * b /\ first \in Nat
  BY <1>2 DEF Parts
<1>6. ASSUME NEW k \in 0..n - 1
      PROVE  Nth(c, r, k) = Cell(r, (first + k) * b)
  <2>1. Nth(c, r, k) = Cell(r, c.slot + k * b)
    BY <1>1 DEF Nth
  <2>2. first * b + k * b = (first + k) * b
    BY <1>1, <1>5
  <2> QED
    BY <1>5, <2>1, <2>2
<1>7. ToSet(Children(c, r)) = {Cell(r, i * b) : i \in first..first + n - 1}
  <2>1. ToSet(Children(c, r)) = {Nth(c, r, k - 1) : k \in 1..n}
    BY <1>3 DEF ToSet
  <2>2. ASSUME NEW k \in 1..n
        PROVE  /\ first + (k - 1) \in first..first + n - 1
               /\ Nth(c, r, k - 1) = Cell(r, (first + (k - 1)) * b)
    <3>1. k - 1 \in 0..n - 1
      BY <1>3
    <3> QED
      BY <1>3, <1>5, <1>6, <3>1
  <2>3. ASSUME NEW i \in first..first + n - 1
        PROVE  (i - first) + 1 \in 1..n /\ Nth(c, r, ((i - first) + 1) - 1) = Cell(r, i * b)
    <3>1. i - first \in 0..n - 1 /\ ((i - first) + 1) - 1 = i - first /\ first + (i - first) = i
      BY <1>3, <1>5
    <3>2. Nth(c, r, i - first) = Cell(r, (first + (i - first)) * b)
      BY <1>6, <3>1
    <3> QED
      BY <1>3, <3>1, <3>2
  <2> HIDE DEF b, n
  <2> QED
    BY <2>1, <2>2, <2>3
<1>8. /\ Nth(c, r, 0).slot = first * b
      /\ LastOf(c, r).slot = (first + n - 1) * b
  <2>1. 0 \in 0..n - 1 /\ n - 1 \in 0..n - 1 /\ first + 0 = first /\ first + (n - 1) = first + n - 1
    BY <1>3, <1>5
  <2>2. Nth(c, r, 0) = Cell(r, (first + 0) * b) /\ Nth(c, r, n - 1) = Cell(r, (first + (n - 1)) * b)
    BY <1>6, <2>1
  <2>3. \A s : Cell(r, s).slot = s
    BY DEF Cell
  <2> QED
    BY <1>3, <2>1, <2>2, <2>3 DEF LastOf
<1>9. ASSUME NEW d \in Blocks(r)
      PROVE  /\ d.slot >= first * b
             /\ d.slot <= (first + n - 1) * b
             <=> \E i \in first..first + n - 1 : d = Cell(r, i * b)
  <2>1. PICK i \in Nat : d.slot = i * b
    BY BlockType
  <2>2. d = Cell(r, i * b)
    BY <2>1, BlockType
  <2>3. \A j : Cell(r, j * b).slot = j * b
    BY DEF Cell
  <2> HIDE DEF n, b
  <2>4. \A j \in first..first + n - 1 :
          /\ j \in Nat /\ first * b <= j * b /\ j * b <= (first + n - 1) * b
    <3> TAKE j \in first..first + n - 1
    <3>1. first <= j /\ j <= first + n - 1 /\ first + n - 1 \in Int /\ j \in Nat
      BY <1>3, <1>5
    <3> QED
      BY <1>1, <1>5, <3>1, TimesMonotone
  <2>5. first * b <= i * b /\ i * b <= (first + n - 1) * b => i \in first..first + n - 1
    <3> HAVE first * b <= i * b /\ i * b <= (first + n - 1) * b
    <3>1. first * b < (i + 1) * b /\ i * b < (first + n) * b
      <4>1. (i + 1) * b = i * b + b /\ (first + n) * b = (first + n - 1) * b + b
        BY <1>1, <1>3, <1>5, <2>1
      <4>2. i * b \in Nat /\ first * b \in Nat /\ (first + n - 1) * b \in Int
        BY <1>1, <1>3, <1>5, <2>1
      <4> QED
        BY <1>1, <4>1, <4>2
    <3>2. first < i + 1 /\ i < first + n
      BY <1>1, <1>3, <1>5, <2>1, <3>1, TimesCancel
    <3> QED
      BY <1>3, <1>5, <2>1, <3>2
  <2>6. \A j \in first..first + n - 1 : d = Cell(r, j * b) => i * b = j * b
    BY <2>1, <2>3
  <2>7. i * b \in Int /\ first * b \in Int /\ (first + n - 1) * b \in Int
    BY <1>1, <1>3, <1>5, <2>1
  <2> QED
    BY <2>1, <2>2, <2>4, <2>5, <2>6, <2>7
<1>10. ASSUME NEW i \in first..first + n - 1 PROVE Cell(r, i * b) \in Blocks(r)
  BY <1>2, <1>4 DEF Parts
<1> HIDE DEF n, b
<1> QED
  BY <1>7, <1>8, <1>9, <1>10 DEF InRange

LEMMA DescendantsOf == values \in Coverings => DescendantsExact
<1> HAVE values \in Coverings
<1> SUFFICES ASSUME NEW c \in Stored, NEW r \in 0..MaxRes
             PROVE  /\ ChildAt(c, r, 0) = NULL /\ ChildAt(c, r, NumChildren(c.res, r) + 1) = NULL
                    /\ r >= c.res =>
                         /\ [k \in 1..NumChildren(c.res, r) |-> ChildAt(c, r, k)] = Children(c, r)
                         /\ r < MaxRes => InRange(c, r) = ToSet(Children(c, r))
  BY DEF DescendantsExact
<1>1. c \in Cells /\ c.res \in Resolutions /\ r \in Resolutions /\ (r < c.res \/ r >= c.res)
  BY StoredType, CellType, TreeBounds
<1>2. ~(r < c.res) <=> r >= c.res
  BY <1>1, TreeBounds
<1>3. ASSUME r < c.res PROVE \A i : ChildAt(c, r, i) = NULL
  BY <1>3 DEF ChildAt
<1>4. ASSUME r >= c.res
      PROVE  /\ ChildAt(c, r, 0) = NULL /\ ChildAt(c, r, NumChildren(c.res, r) + 1) = NULL
             /\ [k \in 1..NumChildren(c.res, r) |-> ChildAt(c, r, k)] = Children(c, r)
  <2>1. /\ Count(c, r) = NumChildren(c.res, r) /\ NumChildren(c.res, r) \in Nat \ {0}
        /\ Children(c, r) = [k \in 1..NumChildren(c.res, r) |-> Nth(c, r, k - 1)]
    BY <1>1, <1>4, ChildrenCounted
  <2>2. \A i : ChildAt(c, r, i) = IF i \in 1..NumChildren(c.res, r) THEN Nth(c, r, i - 1) ELSE NULL
    BY <1>2, <1>4, <2>1 DEF ChildAt
  <2>3. 0 \notin 1..NumChildren(c.res, r) /\ NumChildren(c.res, r) + 1 \notin 1..NumChildren(c.res, r)
    BY <2>1
  <2> QED
    BY <2>1, <2>2, <2>3
<1> QED
  BY <1>1, <1>3, <1>4, <1>2, RangeIsChildren

(* What is looked up in a stored cell is what it uncompacts to.            *)
LEMMA ExpansionSet ==
  \A c \in Cells : \A r \in Resolutions : c.res <= r =>
    ToSet(Expansion(c, r)) = {Nth(c, r, k) : k \in 0..Count(c, r) - 1}
<1> TAKE c \in Cells
<1> TAKE r \in Resolutions
<1> HAVE c.res <= r
<1> DEFINE n == NumChildren(c.res, r)
<1>1. c.res \in -1..r /\ r >= c.res
  BY CellType, TreeBounds
<1>2. /\ n \in Nat \ {0} /\ Count(c, r) = n
      /\ Children(c, r) = [k \in 1..n |-> Nth(c, r, k - 1)]
  BY <1>1, ChildrenCounted
<1> HIDE DEF n
<1>3. CASE n = 1
  <2>1. c.res = r
    BY <1>3, CellType, OneDescendant DEF n
  <2>2. 0 \in 0..n - 1 /\ 0..n - 1 = {0}
    BY <1>3
  <2>3. Nth(c, r, 0) = Child(r, c.slot + 0 * SlotCount[r])
    BY <1>1, <2>2, NthIsChild DEF n
  <2>4. c.slot + 0 * SlotCount[r] = c.slot
    BY CellType, SlotCountsDivide, TreeBounds
  <2>5. c = Cell(r, c.slot) /\ HasId(c)
    BY <2>1, CellType, BlockType
  <2>6. Child(r, c.slot) = c
    BY <2>5 DEF Child
  <2>7. ToSet(<<c>>) = {c}
    BY DEF ToSet
  <2> QED
    BY <1>2, <1>3, <2>2, <2>3, <2>4, <2>6, <2>7 DEF Expansion, n
<1>4. CASE n # 1
  <2>1. Expansion(c, r) = [k \in 1..n |-> Nth(c, r, k - 1)]
    BY <1>2, <1>4 DEF Expansion, n
  <2>2. ToSet(Expansion(c, r)) = {Nth(c, r, k - 1) : k \in 1..n}
    BY <2>1 DEF ToSet
  <2>3. \A k \in 1..n : k - 1 \in 0..n - 1
    BY <1>2
  <2>4. \A k \in 0..n - 1 : k + 1 \in 1..n /\ (k + 1) - 1 = k
    BY <1>2
  <2> QED
    BY <1>2, <2>2, <2>3, <2>4
<1> QED
  BY <1>3, <1>4

LEMMA WantedIsLooked == values \in Coverings => Wanted = UNION {Looked(c) : c \in Stored}
<1> HAVE values \in Coverings
<1> DEFINE ss == Expansions(values)
           held == CellsIn(values)
<1>1. values \in Seq(Values) /\ Stored = ToSet(held) /\ Resolution \in Resolutions
  BY StoredType
<1>2. UncompactValues(values) = FlattenSeq(ss) /\ ss \in [1..Len(held) -> Seq(Cells)]
  BY <1>1, ExpansionsType
<1>3. Len(held) \in Nat /\ DOMAIN held = 1..Len(held)
  BY <1>1, CellsInType, SeqIsFunction
<1>4. ss \in Seq(Seq(Cells)) /\ DOMAIN ss = 1..Len(held)
  BY <1>2, <1>3, FunctionIsSeq
<1>5. ToSet(UncompactValues(values)) = UNION {ToSet(ss[i]) : i \in 1..Len(held)}
  BY <1>2, <1>4, FlattenedSet
<1>6. ASSUME NEW i \in 1..Len(held)
      PROVE  held[i] \in Stored /\ ss[i] = Expansion(held[i], Resolution)
  BY <1>1, <1>3 DEF ToSet, Expansions, Resolution
<1>7. ASSUME NEW c \in Stored PROVE \E i \in 1..Len(held) : held[i] = c
  BY <1>1, <1>3 DEF ToSet
<1> HIDE DEF ss, held
<1>8. ToSet(UncompactValues(values)) = UNION {ToSet(Expansion(c, Resolution)) : c \in Stored}
  BY <1>5, <1>6, <1>7
<1>9. ASSUME NEW c \in Stored
      PROVE  ToSet(Expansion(c, Resolution)) = {Nth(c, Resolution, k) : k \in 0..Count(c, Resolution) - 1}
  <2>1. c \in Cells /\ c.res <= Resolution
    BY StoredType, TreeBounds
  <2> QED
    BY <1>1, <2>1, ExpansionSet
<1>10. ASSUME NEW d PROVE d \in ToSet(UncompactValues(values)) <=>
               \E c \in Stored : \E k \in 0..Count(c, Resolution) - 1 : d = Nth(c, Resolution, k)
  BY <1>8, <1>9
<1> QED
  BY <1>10 DEF Wanted, Looked

-----------------------------------------------------------------------------
(* What was kept was met; a cell in the frontier was met and is not kept.  *)
FrontierInv == found \subseteq seen /\ frontier \subseteq seen \ found

(* The tests of a round do not depend on what the search has done.         *)
LEMMA HoldsUnchanged ==
  ASSUME UNCHANGED <<values, to>>
  PROVE  \A p : HoldsCentre(p)' = HoldsCentre(p)
  BY DEF HoldsCentre, Overlaps, Runs, End, Resolution, Stored

LEMMA SearchInit == Init => FrontierInv /\ SearchClosed
  BY DEF Init, FrontierInv, SearchClosed

LEMMA SearchStep ==
  FrontierInv /\ SearchClosed /\ [Next]_vars => FrontierInv' /\ SearchClosed'
  <1> SUFFICES ASSUME FrontierInv, SearchClosed, [Next]_vars
               PROVE  FrontierInv' /\ SearchClosed'
    OBVIOUS
  <1>1. UNCHANGED <<values, to>>
    BY DEF Next, Trivial, Direct, Seed, Round, Finish, Answers, vars
  <1>2. \A p : HoldsCentre(p)' = HoldsCentre(p)
    BY <1>1, HoldsUnchanged
  <1>3. ASSUME UNCHANGED <<frontier, seen, found>> PROVE FrontierInv' /\ SearchClosed'
    BY <1>2, <1>3 DEF FrontierInv, SearchClosed
  <1>4. CASE Seed
    <2>1. found = {} /\ found' = found /\ frontier' = seen'
      BY <1>4 DEF Seed, FrontierInv
    <2> QED
      BY <2>1 DEF FrontierInv, SearchClosed
  <1>5. CASE Round
    <2> DEFINE kept == {p \in frontier : HoldsCentre(p)}
    <2>1. /\ found' = found \cup kept
          /\ frontier' = Untried(kept)
          /\ seen' = seen \cup Around(kept)
      BY <1>5 DEF Round
    <2>2. FrontierInv'
      BY <2>1 DEF FrontierInv, Untried
    <2>3. ASSUME NEW p \in seen'
          PROVE  \/ p \in frontier'
                 \/ p \in found' /\ HoldsCentre(p) /\ Neighbours(p) \subseteq seen'
                 \/ p \notin found' /\ ~HoldsCentre(p)
      <3>1. CASE p \notin seen
        BY <3>1, <2>1, <2>3 DEF Untried
      <3>2. CASE p \in kept
        BY <3>2, <2>1 DEF Around
      <3>3. CASE p \in frontier \ kept
        BY <3>3, <2>1 DEF FrontierInv
      <3>4. CASE p \in seen \ frontier
        BY <3>4, <2>1 DEF SearchClosed
      <3> QED
        BY <3>1, <3>2, <3>3, <3>4
    <2> QED
      BY <1>2, <2>2, <2>3 DEF SearchClosed
  <1>6. CASE Trivial \/ Direct \/ Finish
    BY <1>3, <1>6 DEF Trivial, Direct, Finish, Answers
  <1>7. CASE UNCHANGED vars
    BY <1>3, <1>7 DEF vars
  <1> QED
    BY <1>4, <1>5, <1>6, <1>7 DEF Next

(* Every candidate met by covering_supercells() (hierarchy.rs:366-387) is  *)
(* still to be tested, or was kept with all its neighbours met, or holds no *)
(* centre.                                                                 *)
THEOREM SearchForgetsNothing == Spec => []SearchClosed
  BY SearchInit, SearchStep, PTL DEF Spec
-----------------------------------------------------------------------------
(* What is met are cells of the resolution asked for, a search starts from *)
(* a cell of every stored one, and an answer is the looked up cells or what*)
(* a search found in the end.                                              *)

Seeds == {Super(Nth(c, Resolution, 0), to) : c \in Stored}

CallInv == values \in Coverings /\ to \in 0..MaxRes

MetInv ==
  /\ seen \subseteq Blocks(to)
  /\ seen # {} => to < Resolution /\ Seeds \subseteq seen

AnswerInv ==
  answer # NULL /\ to < Resolution =>
    \/ answer = Wanted
    \/ seen # {} /\ frontier = {} /\ answer = found

(* A cell that is counted out has a supercell.                             *)
LEMMA SuperOfNth ==
  \A c \in Stored : \A k \in 0..NumChildren(c.res, Resolution) - 1 :
    CallInv /\ to < Resolution => Super(Nth(c, Resolution, k), to) \in Blocks(to)
<1> TAKE c \in Stored
<1> TAKE k \in 0..NumChildren(c.res, Resolution) - 1
<1> HAVE CallInv /\ to < Resolution
<1> DEFINE r == Resolution
           t == c.slot + k * SlotCount[r]
           x == Nth(c, r, k)
<1>1. c \in Cells /\ r \in Resolutions /\ to \in 0..MaxRes
  BY StoredType DEF CallInv
<1>2. r \in 1..MaxRes /\ r - 1 \in 0..MaxRes /\ r \in 0..MaxRes /\ to \in 0..r /\ to \in 0..r - 1
  BY <1>1, TreeBounds
<1>3. x = Child(r, t) /\ t \in Slots /\ Child(r, t) \in Cells /\ (~HasId(Cell(r, t)) => Child(r, t) = BlockAt(r - 1, t))
  BY <1>1, NthIsChild
<1>4. x.res \in {r, r - 1}
  <2>1. CASE HasId(Cell(r, t))
    BY <1>3, <2>1 DEF Child, Cell
  <2>2. CASE ~HasId(Cell(r, t))
    BY <1>3, <2>2 DEF BlockAt, Cell
  <2> QED
    BY <2>1, <2>2
<1>5. x \in Blocks(x.res)
  BY <1>3, CellType
<1> HIDE DEF x, r, t
<1>6. x.res \in 0..MaxRes /\ to \in 0..x.res
  BY <1>2, <1>4
<1>7. Super(x, to) \in Blocks(to)
  BY <1>5, <1>6, SuperAssumption
<1> QED
  BY <1>7 DEF x, r

LEMMA SeedsAreBlocks == CallInv /\ to < Resolution => Seeds \subseteq Blocks(to)
<1> HAVE CallInv /\ to < Resolution
<1> SUFFICES ASSUME NEW c \in Stored PROVE Super(Nth(c, Resolution, 0), to) \in Blocks(to)
  BY DEF Seeds
<1>1. c \in Cells /\ c.res \in -1..Resolution /\ Resolution \in Resolutions
  BY StoredType DEF CallInv
<1>2. NumChildren(c.res, Resolution) \in Nat /\ NumChildren(c.res, Resolution) # 0
  <2>1. c.res \in Resolutions /\ c.res <= Resolution
    BY <1>1, TreeBounds
  <2> QED
    BY <1>1, <2>1, NumChildrenType
<1>3. 0 \in 0..NumChildren(c.res, Resolution) - 1
  BY <1>2
<1> QED
  BY <1>3, SuperOfNth

IInv == CallInv /\ FrontierInv /\ SearchClosed /\ MetInv /\ AnswerInv

LEMMA InitIInv == Init => IInv
<1> HAVE Init
<1>1. CallInv /\ MetInv /\ AnswerInv
  BY DEF Init, CallInv, MetInv, AnswerInv
<1> QED
  BY <1>1, SearchInit DEF IInv

LEMMA StepIInv == IInv /\ [Next]_vars => IInv'
<1> SUFFICES ASSUME IInv, [Next]_vars PROVE IInv'
  OBVIOUS
<1> USE DEF IInv
<1>1. values' = values /\ to' = to
  BY DEF Next, Trivial, Direct, Seed, Round, Finish, Answers, vars
<1>2. FrontierInv' /\ SearchClosed'
  BY SearchStep
<1>3. CallInv'
  BY <1>1 DEF CallInv
<1>4. Stored' = Stored /\ Resolution' = Resolution
  BY <1>1 DEF Stored, Resolution
<1>5. Wanted' = Wanted /\ Seeds' = Seeds
  BY <1>1, <1>4 DEF Wanted, Seeds
<1>6. ASSUME UNCHANGED <<frontier, seen, found>> PROVE MetInv'
  BY <1>1, <1>4, <1>5, <1>6 DEF MetInv
<1>7. ASSUME answer' = answer, answer = NULL PROVE AnswerInv'
  BY <1>7 DEF AnswerInv
<1>8. CASE Trivial
  <2>1. UNCHANGED <<frontier, seen, found>>
    BY <1>8 DEF Trivial, Answers
  <2>2. CASE Stored = {} /\ answer' = {}
    <3>1. Wanted = {}
      BY <2>2, WantedIsLooked DEF CallInv
    <3> QED
      BY <1>5, <1>6, <2>1, <2>2, <3>1, <1>2, <1>3 DEF AnswerInv
  <2>3. CASE ~(to < Resolution)
    BY <1>1, <1>2, <1>3, <1>4, <1>6, <2>1, <2>3 DEF AnswerInv
  <2>4. (Stored = {} /\ answer' = {}) \/ ~(to < Resolution)
    <3>1. to \in Int /\ Resolution \in Int
      BY StoredType, TreeBounds DEF CallInv
    <3> QED
      BY <1>8, <3>1 DEF Trivial, Answers
  <2> QED
    BY <2>2, <2>3, <2>4
<1>9. CASE Direct
  <2>1. UNCHANGED <<frontier, seen, found>> /\ answer' = UNION {Looked(c) : c \in Stored}
    BY <1>9 DEF Direct, Answers
  <2>2. answer' = Wanted
    BY <2>1, WantedIsLooked DEF CallInv
  <2> QED
    BY <1>2, <1>3, <1>5, <1>6, <2>1, <2>2 DEF AnswerInv
<1>10. CASE Seed
  <2>1. seen' = Seeds /\ to < Resolution /\ answer' = answer /\ answer = NULL
    BY <1>10 DEF Seed, Seeds, Searches
  <2>2. MetInv'
    BY <1>1, <1>4, <1>5, <2>1, SeedsAreBlocks DEF MetInv
  <2> QED
    BY <1>2, <1>3, <1>7, <2>1, <2>2
<1>11. CASE Round
  <2> DEFINE kept == {p \in frontier : HoldsCentre(p)}
  <2>1. seen' = seen \cup Around(kept) /\ frontier # {} /\ answer' = answer /\ answer = NULL
    BY <1>11 DEF Round
  <2>2. kept \subseteq Blocks(to) /\ seen # {}
    BY <2>1 DEF FrontierInv, MetInv
  <2>3. Around(kept) \subseteq Blocks(to)
    BY <2>2, NeighboursAssumption DEF Around, CallInv
  <2> HIDE DEF kept
  <2>4. MetInv'
    BY <1>1, <1>4, <1>5, <2>1, <2>2, <2>3 DEF MetInv
  <2> QED
    BY <1>2, <1>3, <1>7, <2>1, <2>4
<1>12. CASE Finish
  <2>1. UNCHANGED <<frontier, seen, found>> /\ answer' = found /\ seen # {} /\ frontier = {}
    BY <1>12 DEF Finish, Answers
  <2>2. AnswerInv'
    BY <2>1 DEF AnswerInv
  <2> QED
    BY <1>2, <1>3, <1>6, <2>1, <2>2
<1>13. CASE UNCHANGED vars
  <2>1. UNCHANGED <<frontier, seen, found>> /\ answer' = answer
    BY <1>13 DEF vars
  <2>2. AnswerInv'
    BY <1>1, <1>4, <1>5, <2>1 DEF AnswerInv
  <2> QED
    BY <1>2, <1>3, <1>6, <2>1, <2>2
<1> QED
  BY <1>8, <1>9, <1>10, <1>11, <1>12, <1>13 DEF Next

THEOREM Invariant == Spec => []IInv
  BY InitIInv, StepIInv, PTL DEF Spec

(* Every candidate of a search (hierarchy.rs:358-386) is a cell of the     *)
(* resolution asked for, and none that was kept is tried again.            *)
THEOREM Typing == Spec => []TypeOK
<1>1. IInv => TypeOK
  BY BlockType, TreeBounds DEF IInv, CallInv, FrontierInv, MetInv, TypeOK
<1> QED
  BY <1>1, Invariant, PTL

(* The children that hierarchy.rs counts out, the child at a position, and *)
(* the range of a cell's children are what the crate would list.           *)
THEOREM Descends == Spec => []DescendantsExact
<1>1. IInv => DescendantsExact
  BY DescendantsOf DEF IInv, CallInv
<1> QED
  BY <1>1, Invariant, PTL
-----------------------------------------------------------------------------
(* A search that has ended has met every supercell.                        *)

(* Such a search, of candidates whose subcells a5 gives at the covering's  *)
(* resolution.                                                             *)
Ended ==
  /\ CallInv /\ FrontierInv /\ SearchClosed /\ MetInv
  /\ seen # {} /\ frontier = {}
  /\ \A p \in seen : SubResolution(p, Resolution) = Resolution

Fine == Blocks(Resolution)

Within(s) == \E c \in Stored : s \in Under(c)

LEMMA EndedType ==
  Ended => /\ Resolution \in 1..MaxRes /\ to \in 0..Resolution - 1 /\ Resolution \in Resolutions
           /\ to \in 0..MaxRes /\ to < Resolution /\ to \in 0..Resolution /\ Resolution \in 0..MaxRes
           /\ Seeds \subseteq seen /\ seen \subseteq Blocks(to) /\ Apart(Stored)
  BY StoredType, TreeBounds DEF Ended, CallInv, MetInv

(* A candidate holds a centre if and only if some block within the covering *)
(* has it as its supercell.                                                *)
LEMMA HoldsCentreIff ==
  Ended => \A p \in seen :
    HoldsCentre(p) <=> \E e \in Fine : Super(e, to) = p /\ Within(e.slot)
<1> HAVE Ended
<1> TAKE p \in seen
<1> DEFINE r == Resolution
<1>1. r \in 1..MaxRes /\ to \in 0..r - 1 /\ r \in Resolutions /\ p \in Blocks(to) /\ SubResolution(p, r) = r
  BY EndedType DEF Ended
<1>2. /\ Subcells(p, r) \subseteq Cells
      /\ UNION {Under(c) : c \in Subcells(p, r)} =
           UNION {Under(d) : d \in {e \in Fine : Super(e, to) = p}}
  BY <1>1, SubcellsAssumption DEF Fine
<1>3. Apart(Stored)
  BY EndedType
<1>4. ASSUME NEW x \in Subcells(p, r) PROVE Overlaps(x) <=> \E d \in Stored : Meet(x, d)
  <2>1. x \in UNION {Blocks(q) : q \in Resolutions}
    BY <1>2, CellType
  <2> QED
    BY <1>3, <2>1, FirstEndingAfter DEF Overlaps, Runs, End
<1>5. HoldsCentre(p) <=> \E x \in Subcells(p, r) : \E d \in Stored : Meet(x, d)
  BY <1>4 DEF HoldsCentre
<1>6. (\E x \in Subcells(p, r) : \E d \in Stored : Meet(x, d))
        <=> \E d \in Stored : \E s \in Under(d) : s \in UNION {Under(x) : x \in Subcells(p, r)}
  BY DEF Meet
<1>7. (\E d \in Stored : \E s \in Under(d) : s \in UNION {Under(e) : e \in {f \in Fine : Super(f, to) = p}})
        <=> \E e \in Fine : Super(e, to) = p /\ \E d \in Stored : Meet(d, e)
  BY DEF Meet
<1>8. ASSUME NEW e \in Fine, NEW d \in Stored PROVE Meet(d, e) <=> e.slot \in Under(d)
  <2>1. d \in Cells /\ d.res \in -1..r
    BY StoredType DEF Ended, CallInv
  <2>2. d \in Blocks(d.res)
    BY <2>1, CellType
  <2>3. e.slot \in Under(e)
    BY <1>1, BlockType DEF Fine
  <2>4. Meet(d, e) => Under(e) \subseteq Under(d)
    BY <1>1, <2>1, <2>2, BlocksNest DEF Fine
  <2> QED
    BY <2>3, <2>4 DEF Meet
<1> QED
  BY <1>2, <1>5, <1>6, <1>7, <1>8 DEF Within

(* A block whose supercell has been met, having one within the covering,   *)
(* was kept, and what touches it was met.                                  *)
LEMMA MetIsKept ==
  Ended => \A e \in Fine : Super(e, to) \in seen /\ Within(e.slot) =>
    Super(e, to) \in found /\ Neighbours(Super(e, to)) \subseteq seen
  BY HoldsCentreIff DEF Ended, SearchClosed

(* No candidate reaches quintants without ids.                             *)
LEMMA ReachHasIds ==
  Ended /\ Resolution = MaxRes =>
    \A p \in seen : \A q \in Neighbours(p) : \A s \in Under(q) \cap Slots : HasId(Cell(MaxRes, s))
<1> HAVE Ended /\ Resolution = MaxRes
<1> TAKE p \in seen
<1> TAKE q \in Neighbours(p)
<1> TAKE s \in Under(q) \cap Slots
<1> DEFINE a == SlotCount[1]
           b == Segments * a
           o == s \div b
<1>1. s \in Nat /\ a \in Nat \ {0} /\ Segments \in Nat \ {0} /\ TopQuintants \in Nat /\ MaxRes \in Nat \ {0}
  BY TreeBounds
<1>2. b \in Nat \ {0}
  BY <1>1
<1>3. o \in Nat /\ o * b <= s /\ s < o * b + b
  BY <1>1, <1>2, Division
<1>4. o \in Reach(p)
  BY DEF Reach
<1>5. ~((o + 1) * Segments > TopQuintants)
  <2>1. SubResolution(p, MaxRes) = MaxRes
    BY DEF Ended
  <2> QED
    BY <1>1, <1>4, <2>1 DEF SubResolution
<1> HIDE DEF o
<1>6. o * b + b = ((o + 1) * Segments) * a
  <2>1. o * b + b = (o + 1) * b
    BY <1>2, <1>3
  <2>2. o + 1 \in Int /\ Segments \in Int /\ a \in Int
    BY <1>1, <1>3
  <2> QED
    BY <2>1, <2>2, TimesAssociative
<1>7. (o + 1) * Segments \in Nat /\ (o + 1) * Segments <= TopQuintants
  BY <1>1, <1>3, <1>5
<1>8. ((o + 1) * Segments) * a <= TopQuintants * a
  BY <1>1, <1>7, TimesMonotone
<1>9. s < TopQuintants * a
  <2>1. ((o + 1) * Segments) * a \in Nat /\ TopQuintants * a \in Nat
    BY <1>1, <1>7
  <2> HIDE DEF b, a
  <2> QED
    BY <1>1, <1>3, <1>6, <1>8, <2>1
<1> QED
  BY <1>9 DEF HasId, Cell

LEMMA MetHasId ==
  Ended => \A e \in Fine : Super(e, to) \in seen => HasId(e)
<1> HAVE Ended
<1> TAKE e \in Fine
<1> HAVE Super(e, to) \in seen
<1>1. e.res = Resolution /\ e.slot \in Slots /\ e = Cell(Resolution, e.slot)
  BY EndedType, BlockType DEF Fine
<1>2. PICK q \in Neighbours(Super(e, to)) : e.slot \in Under(q)
  BY EndedType, SuperAssumption DEF Fine
<1>3. CASE Resolution = MaxRes
  BY <1>1, <1>2, <1>3, ReachHasIds
<1>4. CASE Resolution # MaxRes
  BY <1>1, <1>4 DEF HasId
<1> QED
  BY <1>3, <1>4

-----------------------------------------------------------------------------
(* From one block under a cell within the covering to all of them.         *)

Touched(u) == \E e \in Fine : e.slot \in Under(u) /\ Super(e, to) \in seen

Reached(u) == \A e \in Fine : e.slot \in Under(u) => Super(e, to) \in seen

Inside(u) == \E c \in Stored : Under(u) \subseteq Under(c)

(* Along the curve of a quintant, in both directions.                      *)
LEMMA WalkQuintant ==
  Ended => \A q \in 1..Resolution : \A u \in Blocks(q) :
    Inside(u) /\ Touched(u) => Reached(u)
<1> HAVE Ended
<1> TAKE q \in 1..Resolution
<1> TAKE u \in Blocks(q)
<1> HAVE Inside(u) /\ Touched(u)
<1> DEFINE r == Resolution
           b == SlotCount[r]
<1>1. /\ r \in 1..MaxRes /\ r \in Resolutions /\ q \in -1..r /\ q \in Resolutions /\ 1 \in -1..q
      /\ to \in 0..r - 1 /\ to \in 0..MaxRes
  BY EndedType, TreeBounds
<1>2. PICK first, count \in Nat : Parts(u, r, first, count)
  BY <1>1, PartsExist
<1> DEFINE At(i) == Cell(r, i * b)
           last == first + count - 1
           S == {i \in Int : Super(At(i), to) \in seen}
<1>3. /\ first \in Int /\ last \in Int
      /\ \A i \in first..last : At(i) \in Fine /\ At(i).slot \in Under(u) /\ At(i).slot = i * b /\ At(i).res = r
  BY <1>2 DEF Parts, Fine, Cell
<1>4. \A e \in Fine : e.slot \in Under(u) => \E i \in first..last : e = At(i)
  BY <1>2 DEF Parts, Fine
<1>5. \A i \in first..last : Within(At(i).slot)
  BY <1>3 DEF Inside, Within
<1>6. ASSUME NEW i \in first..last - 1
      PROVE  i \in S <=> i + 1 \in S
  <2>1. i \in first..last /\ i + 1 \in first..last /\ i \in Int /\ i + 1 \in Int
    BY <1>3
  <2>2. At(i + 1).slot = At(i).slot + b
    <3>1. b \in Nat
      BY <1>1, SlotCountsDivide
    <3>2. (i + 1) * b = i * b + b
      BY <2>1, <3>1
    <3> QED
      BY <1>3, <2>1, <3>2
  <2>3. At(i).slot \div SlotCount[1] = At(i + 1).slot \div SlotCount[1]
    <3>1. At(i).slot \in Under(u) /\ At(i + 1).slot \in Under(u)
      BY <1>3, <2>1
    <3> HIDE DEF At
    <3> QED
      BY <1>1, <3>1, SameBlock
  <2>4. HasId(At(i)) <=> HasId(At(i + 1))
    <3>1. At(i).slot \in Slots /\ At(i + 1).slot \in Slots
      BY <1>1, <1>3, <2>1, BlockType
    <3>2. CASE r = MaxRes
      <4>1. At(i) = Cell(MaxRes, At(i).slot) /\ At(i + 1) = Cell(MaxRes, At(i + 1).slot)
        BY <3>2 DEF Cell
      <4> HIDE DEF At
      <4> QED
        BY <2>3, <3>1, <4>1, IdOfQuintant
    <3>3. CASE r # MaxRes
      BY <1>3, <2>1, <3>3 DEF HasId
    <3> QED
      BY <3>2, <3>3
  <2>5. At(i) \in Fine /\ At(i + 1) \in Fine /\ Within(At(i).slot) /\ Within(At(i + 1).slot)
    BY <1>3, <1>5, <2>1
  <2> HIDE DEF At
  <2>6. ASSUME HasId(At(i)), HasId(At(i + 1))
        PROVE  Super(At(i + 1), to) \in Neighbours(Super(At(i), to))
    BY <1>1, <2>2, <2>3, <2>5, <2>6, CurveAssumption DEF Follows, Fine
  <2>7. Super(At(i), to) \in Blocks(to)
    BY <1>1, <2>5, EndedType, SuperAssumption DEF Fine
  <2>8. ASSUME Super(At(i), to) \in seen PROVE Super(At(i + 1), to) \in seen
    <3>1. HasId(At(i)) /\ HasId(At(i + 1))
      BY <2>4, <2>5, <2>8, MetHasId
    <3> QED
      BY <2>5, <2>6, <2>8, <3>1, MetIsKept
  <2>9. ASSUME Super(At(i + 1), to) \in seen PROVE Super(At(i), to) \in seen
    <3>1. HasId(At(i)) /\ HasId(At(i + 1))
      BY <2>4, <2>5, <2>9, MetHasId
    <3>2. Super(At(i), to) \in Neighbours(Super(At(i + 1), to))
      BY <1>1, <2>6, <2>7, <3>1, NeighboursAssumption
    <3> QED
      BY <2>5, <2>9, <3>2, MetIsKept
  <2> QED
    BY <2>1, <2>8, <2>9
<1>7. PICK m \in first..last : m \in S
  BY <1>4 DEF Touched
<1>8. \A i \in first..last : i \in S
  <2> HIDE DEF S, last
  <2>1. m \in Int
    BY <1>3
  <2> QED
    BY <1>3, <1>6, <1>7, <2>1, Spreads
<1> QED
  BY <1>4, <1>8 DEF Reached

(* From a block of a resolution to the next under the same block: from     *)
(* quintant to quintant of an origin, and from origin to origin.           *)
LEMMA WalkAcross ==
  Ended => \A q \in {0, 1} : \A u \in Blocks(q - 1) :
    /\ Inside(u) /\ Touched(u)
    /\ \A v \in Blocks(q) : Inside(v) /\ Touched(v) => Reached(v)
    => Reached(u)
<1> HAVE Ended
<1> TAKE q \in {0, 1}
<1> TAKE u \in Blocks(q - 1)
<1> HAVE /\ Inside(u) /\ Touched(u)
         /\ \A v \in Blocks(q) : Inside(v) /\ Touched(v) => Reached(v)
<1> DEFINE r == Resolution
           b == SlotCount[q]
<1>1. /\ r \in 1..MaxRes /\ r \in Resolutions /\ q \in -1..r /\ q \in Resolutions /\ q - 1 \in -1..q
      /\ q - 1 \in Resolutions /\ to \in 0..r - 1 /\ to \in 0..MaxRes
  BY EndedType, TreeBounds
<1>2. PICK first, count \in Nat : Parts(u, q, first, count)
  BY <1>1, PartsExist
<1> DEFINE At(i) == Cell(q, i * b)
           last == first + count - 1
           S == {i \in Int : Reached(At(i))}
<1>3. /\ first \in Int /\ last \in Int
      /\ \A i \in first..last : /\ At(i) \in Blocks(q) /\ At(i).slot \in Under(u) /\ At(i).slot = i * b
                                /\ Under(At(i)) \subseteq Under(u)
  BY <1>2 DEF Parts, Cell
<1>4. \A v \in Blocks(q) : v.slot \in Under(u) => \E i \in first..last : v = At(i)
  BY <1>2 DEF Parts
<1>5. \A i \in first..last : Inside(At(i)) /\ \A s \in Under(At(i)) : Within(s)
  BY <1>3 DEF Inside, Within
<1>6. ASSUME NEW i \in first..last - 1
      PROVE  i \in S <=> i + 1 \in S
  <2>1. i \in first..last /\ i + 1 \in first..last /\ i \in Int /\ i + 1 \in Int
    BY <1>3
  <2>2. At(i + 1).slot = At(i).slot + b
    <3>1. b \in Nat
      BY <1>1, SlotCountsDivide
    <3>2. (i + 1) * b = i * b + b
      BY <2>1, <3>1
    <3> QED
      BY <1>3, <2>1, <3>2
  <2>3. At(i).slot \div SlotCount[q - 1] = At(i + 1).slot \div SlotCount[q - 1]
    <3>1. At(i).slot \in Under(u) /\ At(i + 1).slot \in Under(u)
      BY <1>3, <2>1
    <3> HIDE DEF At
    <3> QED
      BY <1>1, <3>1, SameBlock
  <2>4. /\ At(i) \in Blocks(q) /\ At(i + 1) \in Blocks(q)
        /\ Inside(At(i)) /\ \A s \in Under(At(i)) : Within(s)
        /\ Inside(At(i + 1)) /\ \A s \in Under(At(i + 1)) : Within(s)
    BY <1>3, <1>5, <2>1
  <2> HIDE DEF At
  <2>5. PICK c, d \in Fine : /\ c.slot \in Under(At(i)) /\ d.slot \in Under(At(i + 1))
                             /\ Super(d, to) \in Neighbours(Super(c, to))
    BY <1>1, <2>2, <2>3, <2>4, CurveAssumption DEF Follows, Fine
  <2>6. Super(c, to) \in Neighbours(Super(d, to))
    <3>1. Super(c, to) \in Blocks(to)
      BY <1>1, EndedType, SuperAssumption DEF Fine
    <3> QED
      BY <1>1, <2>5, <3>1, NeighboursAssumption
  <2>7. ASSUME Reached(At(i)) PROVE Reached(At(i + 1))
    <3>1. Super(d, to) \in seen
      BY <2>4, <2>5, <2>7, MetIsKept DEF Reached
    <3> QED
      BY <2>4, <2>5, <3>1 DEF Touched
  <2>8. ASSUME Reached(At(i + 1)) PROVE Reached(At(i))
    <3>1. Super(c, to) \in seen
      BY <2>4, <2>5, <2>6, <2>8, MetIsKept DEF Reached
    <3> QED
      BY <2>4, <2>5, <3>1 DEF Touched
  <2> QED
    BY <2>1, <2>7, <2>8
(* Every block under u is under one of those at q.                         *)
<1>7. ASSUME NEW e \in Fine, e.slot \in Under(u)
      PROVE  \E i \in first..last : e.slot \in Under(At(i))
  <2> DEFINE v == BlockAt(q, e.slot)
  <2>1. e.slot \in Slots
    BY <1>1, BlockType DEF Fine
  <2>2. v \in Blocks(q) /\ e.slot \in Under(v)
    BY <1>1, <2>1, BlockAround
  <2>3. Under(v) \subseteq Under(u)
    BY <1>1, <1>7, <2>2, BlocksNest DEF Meet
  <2>4. v.slot \in Under(v)
    BY <1>1, <2>2, BlockType
  <2> HIDE DEF v
  <2> QED
    BY <1>4, <2>2, <2>3, <2>4
<1>8. PICK m \in first..last : m \in S
  <2>1. PICK e \in Fine : e.slot \in Under(u) /\ Super(e, to) \in seen
    BY DEF Touched
  <2>2. PICK i \in first..last : e.slot \in Under(At(i))
    BY <1>7, <2>1
  <2>3. Touched(At(i))
    BY <2>1, <2>2 DEF Touched
  <2> HIDE DEF At
  <2>4. Reached(At(i)) /\ i \in Int
    BY <1>3, <1>5, <2>3
  <2> QED
    BY <2>4
<1>9. \A i \in first..last : i \in S
  <2> HIDE DEF S, last
  <2>1. m \in Int
    BY <1>3
  <2> QED
    BY <1>3, <1>6, <1>8, <2>1, Spreads
<1> QED
  BY <1>7, <1>9 DEF Reached

LEMMA WalkCell ==
  Ended => \A c \in Stored : Touched(c) => Reached(c)
<1> HAVE Ended
<1> TAKE c \in Stored
<1> HAVE Touched(c)
<1>1. c.res \in -1..Resolution /\ c \in Blocks(c.res) /\ Inside(c) /\ Resolution \in 1..MaxRes
  BY StoredType, CellType, EndedType DEF Ended, CallInv, Inside
<1>2. CASE c.res >= 1
  <2>1. c.res \in 1..Resolution
    BY <1>1, <1>2
  <2> QED
    BY <1>1, <2>1, WalkQuintant
<1>3. \A v \in Blocks(1) : Inside(v) /\ Touched(v) => Reached(v)
  <2>1. 1 \in 1..Resolution
    BY <1>1
  <2> QED
    BY <2>1, WalkQuintant
<1>4. \A v \in Blocks(0) : Inside(v) /\ Touched(v) => Reached(v)
  <2>1. 1 - 1 = 0 /\ 1 \in {0, 1}
    OBVIOUS
  <2> QED
    BY <1>3, <2>1, WalkAcross
<1>5. CASE c.res = 0
  BY <1>1, <1>4, <1>5
<1>6. CASE c.res = -1
  <2>1. 0 - 1 = -1 /\ 0 \in {0, 1}
    OBVIOUS
  <2>2. c \in Blocks(0 - 1)
    BY <1>1, <1>6, <2>1
  <2> QED
    BY <1>1, <1>4, <2>1, <2>2, WalkAcross
<1>7. c.res >= 1 \/ c.res = 0 \/ c.res = -1
  BY <1>1
<1> QED
  BY <1>2, <1>5, <1>6, <1>7

(* A descendant that is counted out is the block there, if it has an id.   *)
LEMMA NthIsBlock ==
  Ended => \A c \in Stored : \A k \in 0..Count(c, Resolution) - 1 :
    LET e == Cell(Resolution, c.slot + k * SlotCount[Resolution])
    IN  /\ e \in Fine /\ e.slot \in Under(c) /\ Within(e.slot)
        /\ HasId(e) => Nth(c, Resolution, k) = e
        /\ ~HasId(e) => Resolution = MaxRes /\ Nth(c, Resolution, k) = BlockAt(Resolution - 1, e.slot)
<1> HAVE Ended
<1> TAKE c \in Stored
<1> TAKE k \in 0..Count(c, Resolution) - 1
<1> DEFINE r == Resolution
           b == SlotCount[r]
           t == c.slot + k * b
           e == Cell(r, t)
<1>1. c \in Cells /\ c.res \in -1..r /\ r \in Resolutions /\ c \in Blocks(c.res)
  BY StoredType, CellType DEF Ended, CallInv
<1>2. c.res \in Resolutions /\ c.res <= r
  BY <1>1, TreeBounds
<1>3. k \in 0..NumChildren(c.res, r) - 1
  BY <1>1, <1>2, CountIsNumChildren
<1>4. /\ Nth(c, r, k) = Child(r, t) /\ t \in Under(c) /\ t \in Slots
      /\ ~HasId(e) => r = MaxRes /\ Child(r, t) = BlockAt(r - 1, t)
  BY <1>1, <1>3, NthIsChild
<1>5. HasId(e) => Child(r, t) = e
  BY DEF Child
<1>6. e.slot = t
  BY DEF Cell
<1>7. e \in Fine
  <2>1. PICK first, count \in Nat : Parts(c, r, first, count)
    BY <1>1, PartsExist
  <2>2. b \in Nat \ {0}
    BY <1>1, SlotCountsDivide
  <2>3. c.slot = first * b
    BY <2>1 DEF Parts
  <2>5. count = NumChildren(c.res, r)
    BY <1>1, <1>2, <2>1, PartsCounted
  <2>6. first + k \in first..first + count - 1 /\ t = (first + k) * b
    BY <1>3, <2>2, <2>3, <2>5
  <2> QED
    BY <2>1, <2>6 DEF Parts, Fine
<1>8. Within(t)
  BY <1>4 DEF Within
<1> HIDE DEF t, b
<1> QED
  BY <1>4, <1>5, <1>6, <1>7, <1>8 DEF t, b

(* The seed of a stored cell is the supercell of its first block.          *)
LEMMA SeedTouches ==
  Ended => \A c \in Stored : Touched(c)
<1> HAVE Ended
<1> TAKE c \in Stored
<1> DEFINE r == Resolution
           e == Cell(r, c.slot + 0 * SlotCount[r])
           x == Nth(c, r, 0)
<1>1. c \in Cells /\ c.res \in Resolutions /\ r \in Resolutions /\ c.res <= r
  BY StoredType, CellType, TreeBounds DEF Ended, CallInv
<1>2. 0 \in 0..Count(c, r) - 1
  <2>1. Count(c, r) = NumChildren(c.res, r) /\ NumChildren(c.res, r) \in Nat \ {0}
    BY <1>1, CountIsNumChildren, NumChildrenType
  <2> QED
    BY <2>1
<1>3. /\ e \in Fine /\ e.slot \in Under(c)
      /\ HasId(e) => x = e
      /\ ~HasId(e) => r = MaxRes /\ x = BlockAt(r - 1, e.slot)
  BY <1>2, NthIsBlock
<1>4. Super(x, to) \in seen
  BY EndedType DEF Seeds
<1>5. CASE HasId(e)
  BY <1>3, <1>4, <1>5 DEF Touched
<1>6. CASE ~HasId(e)
  <2>1. r = MaxRes /\ x = BlockAt(r - 1, e.slot) /\ e.slot \in Slots /\ r - 1 \in 1..MaxRes /\ e.res = MaxRes
    BY <1>3, <1>6, EndedType, BlockType, TreeBounds DEF Fine
  <2>2. x \in Blocks(r - 1) /\ e.slot \in Under(x) /\ r - 1 \in Resolutions
    BY <2>1, BlockAround, TreeBounds
  <2>3. x.slot \in Under(x) /\ x.slot \in Slots
    BY <2>2, BlockType
  <2>4. r - 1 \in 0..MaxRes /\ to \in 0..r - 1
    BY <2>1, EndedType
  <2>5. PICK q \in Neighbours(Super(x, to)) : x.slot \in Under(q)
    BY <2>2, <2>4, SuperAssumption
  <2>6. HasId(Cell(MaxRes, x.slot))
    BY <1>4, <2>1, <2>3, <2>5, ReachHasIds
  <2>7. x.slot \div SlotCount[1] = e.slot \div SlotCount[1]
    <3>1. 1 \in -1..r - 1
      BY <2>1
    <3> HIDE DEF x, e
    <3> QED
      BY <2>2, <2>3, <3>1, SameBlock
  <2>8. HasId(Cell(MaxRes, e.slot))
    BY <2>1, <2>3, <2>6, <2>7, IdOfQuintant
  <2>9. e = Cell(MaxRes, e.slot)
    BY <2>1 DEF Cell
  <2> QED
    BY <1>6, <2>8, <2>9
<1> QED
  BY <1>5, <1>6

LEMMA FoundIsWanted == Ended => found = Wanted
<1> HAVE Ended
<1> DEFINE r == Resolution
<1>0. Wanted = UNION {Looked(c) : c \in Stored}
  BY WantedIsLooked DEF Ended, CallInv
<1>1. ASSUME NEW p \in found PROVE p \in Wanted
  <2>1. p \in seen /\ HoldsCentre(p)
    BY DEF Ended, FrontierInv, SearchClosed
  <2>2. PICK e \in Fine : Super(e, to) = p /\ Within(e.slot)
    BY <2>1, HoldsCentreIff
  <2>3. HasId(e)
    BY <2>1, <2>2, MetHasId
  <2>4. PICK c \in Stored : e.slot \in Under(c)
    BY <2>2 DEF Within
  <2>5. /\ c \in Cells /\ c.res \in -1..r /\ c.res \in Resolutions /\ c.res <= r /\ r \in Resolutions
        /\ c \in Blocks(c.res)
    BY StoredType, CellType, TreeBounds DEF Ended, CallInv
  <2>6. PICK first, count \in Nat : Parts(c, r, first, count)
    BY <2>5, PartsExist
  <2>7. PICK i \in first..first + count - 1 : e = Cell(r, i * SlotCount[r])
    BY <2>4, <2>6 DEF Parts, Fine
  <2> DEFINE k == i - first
             b == SlotCount[r]
  <2>8. b \in Nat \ {0}
    BY <2>5, SlotCountsDivide
  <2>9. c.slot = first * b
    BY <2>6 DEF Parts
  <2>11. count = NumChildren(c.res, r)
    BY <2>5, <2>6, PartsCounted
  <2>12. k \in 0..Count(c, r) - 1
    <3>1. Count(c, r) = NumChildren(c.res, r)
      BY <2>5, CountIsNumChildren
    <3> QED
      BY <2>11, <3>1
  <2>13. e = Cell(r, c.slot + k * b)
    <3>1. c.slot + k * b = i * b
      BY <2>8, <2>9
    <3> QED
      BY <2>7, <3>1
  <2>14. Nth(c, r, k) = e
    BY <2>3, <2>12, <2>13, NthIsBlock
  <2>15. p \in Looked(c)
    BY <2>2, <2>12, <2>14 DEF Looked
  <2> QED
    BY <1>0, <2>15
<1>2. ASSUME NEW c \in Stored, NEW k \in 0..Count(c, r) - 1 PROVE Super(Nth(c, r, k), to) \in found
  <2> DEFINE e == Cell(r, c.slot + k * SlotCount[r])
  <2>1. e \in Fine /\ e.slot \in Under(c) /\ Within(e.slot) /\ (HasId(e) => Nth(c, r, k) = e)
    BY NthIsBlock
  <2> HIDE DEF e
  <2>2. Super(e, to) \in seen
    BY <2>1, SeedTouches, WalkCell DEF Reached
  <2>3. Nth(c, r, k) = e
    BY <2>1, <2>2, MetHasId
  <2> QED
    BY <2>1, <2>2, <2>3, MetIsKept
<1>3. \A c \in Stored : Looked(c) \subseteq found
  BY <1>2 DEF Looked
<1> QED
  BY <1>0, <1>1, <1>3

(* The supercells of a covering are those of its cells (covering_          *)
(* supercells(), hierarchy.rs:295-389), looked up or searched for, on any  *)
(* curve that goes from cell to touching cell in a quintant and whose      *)
(* quintants and origins touch the next.                                   *)
THEOREM Exact == Spec => []SupercellsExact
<1>1. ASSUME IInv PROVE SupercellsExact
  <2> SUFFICES ASSUME answer # NULL, to < Resolution,
                      \A p \in seen : SubResolution(p, Resolution) = Resolution
               PROVE  answer = Wanted
    BY DEF SupercellsExact
  <2>1. CASE seen # {} /\ frontier = {} /\ answer = found
    <3>1. Ended
      BY <1>1, <2>1 DEF IInv, Ended
    <3> QED
      BY <2>1, <3>1, FoundIsWanted
  <2> QED
    BY <1>1, <2>1 DEF IInv, AnswerInv
<1> QED
  BY <1>1, Invariant, PTL
=============================================================================
