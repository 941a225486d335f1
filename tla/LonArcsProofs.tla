---------------------------- MODULE LonArcsProofs ----------------------------
(***************************************************************************)
(* Proofs about LonArcs, for a turn of any even length and rings of any    *)
(* vertices: an arc holds the longitudes under its ring's edges, merging   *)
(* loses none and adds none, and the box is the smallest that holds them.  *)
(***************************************************************************)
EXTENDS LonArcs, NaturalsInduction, WellFoundedInduction, TLAPS

-----------------------------------------------------------------------------
(* Arithmetic and induction.                                               *)

LEMMA TurnType == Turn \in Nat \ {0} /\ Half \in Nat \ {0} /\ Turn = 2 * Half
BY TurnAssumption DEF Half

(* A set of numbers that holds the first of a range and the successor of   *)
(* each it holds has the whole range.                                      *)
LEMMA Upwards ==
  \A S : \A a, b \in Int :
    a \in S /\ (\A i \in a..b - 1 : i \in S => i + 1 \in S) => \A i \in a..b : i \in S
<1> TAKE S
<1> TAKE a, b \in Int
<1> HAVE a \in S /\ \A i \in a..b - 1 : i \in S => i + 1 \in S
<1> DEFINE R == OpToRel(<, Nat)
           missing == {k \in Nat : a + k <= b /\ a + k \notin S}
<1>1. IsWellFoundedOn(R, Nat)
  BY NatLessThanWellFounded
<1>2. \A i, j \in Nat : <<i, j>> \in R <=> i < j
  BY DEF OpToRel
<1> HIDE DEF R
<1>3. missing = {}
  <2> SUFFICES ASSUME missing # {} PROVE FALSE
    OBVIOUS
  <2>1. PICK k \in missing : \A j \in missing : ~(<<j, k>> \in R)
    BY <1>1, WFMin
  <2>2. k \in Nat /\ a + k <= b /\ a + k \notin S
    BY <2>1
  <2>3. k # 0
    BY <2>2
  <2>4. k - 1 \in Nat /\ k - 1 < k /\ a + (k - 1) <= b /\ a + (k - 1) \in a..b - 1
    BY <2>2, <2>3
  <2>5. a + (k - 1) \in S
    BY <1>2, <2>1, <2>2, <2>4
  <2>6. a + (k - 1) + 1 = a + k
    BY <2>2
  <2> QED
    BY <2>2, <2>4, <2>5, <2>6
<1>4. \A i \in a..b : i - a \in Nat /\ a + (i - a) = i /\ i <= b
  OBVIOUS
<1>5. \A i \in a..b : i - a \notin missing
  BY <1>3
<1> QED
  BY <1>4, <1>5

(* Two integers that are the same longitude.                               *)
SameLon(p, q) == \E k \in Int : p = q + k * Turn

LEMMA Division ==
  \A p \in Int :
    p \div Turn \in Int /\ p % Turn \in 0..Turn - 1 /\ p = (p \div Turn) * Turn + (p % Turn)
<1>1. ASSUME NEW p \in Int, NEW t \in Nat \ {0}
      PROVE  p \div t \in Int /\ p % t \in 0..t - 1 /\ p = (p \div t) * t + (p % t)
  <2>1. p \div t \in Int
    OBVIOUS
  <2>2. p % t \in 0..t - 1
    OBVIOUS
  <2>3. p = t * (p \div t) + (p % t)
    OBVIOUS
  <2> QED
    BY <2>1, <2>2, <2>3
<1> QED
  BY <1>1, TurnType

LEMMA NoMultiple ==
  \A k \in Int : -Turn < k * Turn /\ k * Turn < Turn => k = 0
<1> TAKE k \in Int
<1>1. k >= 1 => k * Turn >= Turn
  BY TurnType
<1>2. k <= -1 => k * Turn <= -Turn
  BY TurnType
<1> QED
  BY <1>1, <1>2, TurnType

LEMMA SumsOfTurns ==
  \A j, k \in Int :
    /\ j * Turn \in Int
    /\ (j + k) * Turn = j * Turn + k * Turn /\ (j - k) * Turn = j * Turn - k * Turn
    /\ (-k) * Turn = -(k * Turn)
    /\ 1 * Turn = Turn /\ 0 * Turn = 0
BY TurnType

(* Remainders are equal exactly if the longitudes are the same.            *)
LEMMA Remainders ==
  \A p, q \in Int : (p % Turn) = (q % Turn) <=> SameLon(p, q)
<1> TAKE p, q \in Int
<1> DEFINE i == p \div Turn
           j == q \div Turn
<1>1. i \in Int /\ j \in Int /\ p % Turn \in 0..Turn - 1 /\ q % Turn \in 0..Turn - 1
      /\ p = i * Turn + (p % Turn) /\ q = j * Turn + (q % Turn)
  BY Division
<1> HIDE DEF i, j
<1>2. ASSUME (p % Turn) = (q % Turn) PROVE SameLon(p, q)
  <2>0. i - j \in Int /\ i * Turn \in Int /\ j * Turn \in Int
        /\ (i - j) * Turn = i * Turn - j * Turn
    BY <1>1, SumsOfTurns
  <2> DEFINE y == i * Turn
             z == j * Turn
  <2>2. p = q + (y - z)
    <3>1. y \in Int /\ z \in Int /\ p = y + (p % Turn) /\ q = z + (q % Turn)
      BY <1>1, <2>0
    <3> HIDE DEF y, z
    <3> QED
      BY <1>1, <1>2, <3>1
  <2>1. i - j \in Int /\ p = q + (i - j) * Turn
    BY <2>0, <2>2
  <2> QED
    BY <2>1 DEF SameLon
<1>3. ASSUME SameLon(p, q) PROVE (p % Turn) = (q % Turn)
  <2>1. PICK k \in Int : p = q + k * Turn
    BY <1>3 DEF SameLon
  <2> DEFINE m == (i - j) - k
  <2>2. m \in Int /\ m * Turn = (q % Turn) - (p % Turn)
    <3>1. i - j \in Int /\ m \in Int /\ m * Turn = (i - j) * Turn - k * Turn
      BY <1>1, SumsOfTurns
    <3>2. (i - j) * Turn = i * Turn - j * Turn /\ i * Turn \in Int /\ j * Turn \in Int /\ k * Turn \in Int
      BY <1>1, SumsOfTurns
    <3> HIDE DEF m
    <3> DEFINE y == i * Turn
               z == j * Turn
               x == k * Turn
               u == p % Turn
               v == q % Turn
    <3>3. /\ y \in Int /\ z \in Int /\ x \in Int /\ m * Turn = (y - z) - x
          /\ u \in Int /\ v \in Int
          /\ p = y + u /\ q = z + v /\ p = q + x
      BY <1>1, <2>1, <3>1, <3>2
    <3> HIDE DEF x, y, z, u, v
    <3>5. (y - z) - x = v - u
      BY <3>3
    <3>4. (y - z) - x = (q % Turn) - (p % Turn)
      BY <3>5 DEF u, v
    <3> QED
      BY <3>1, <3>3, <3>4
  <2> HIDE DEF m
  <2>3. m = 0
    BY <1>1, <2>2, NoMultiple, TurnType
  <2>4. (q % Turn) - (p % Turn) = 0
    BY <2>2, <2>3, SumsOfTurns
  <2> QED
    BY <1>1, <2>4
<1> QED
  BY <1>2, <1>3

LEMMA SameLonBothWays ==
  \A p, q \in Int : SameLon(p, q) => SameLon(q, p)
<1> TAKE p, q \in Int
<1> HAVE SameLon(p, q)
<1>1. PICK k \in Int : p = q + k * Turn
  BY DEF SameLon
<1>2. -k \in Int /\ q = p + (-k) * Turn
  <2> DEFINE x == k * Turn
  <2>1. x \in Int /\ p = q + x /\ -k \in Int /\ (-k) * Turn = -x
    BY <1>1, SumsOfTurns
  <2> HIDE DEF x
  <2>2. q = p + (-x)
    BY <2>1
  <2> QED
    BY <2>1, <2>2
<1> QED
  BY <1>2 DEF SameLon

LEMMA SameLonShift ==
  \A p, q \in Int : SameLon(p, q) => \E k \in Int : k * Turn \in Int /\ q = p + k * Turn
<1> TAKE p, q \in Int
<1> HAVE SameLon(p, q)
<1>1. SameLon(q, p)
  BY SameLonBothWays
<1>2. PICK k \in Int : q = p + k * Turn
  BY <1>1 DEF SameLon
<1>3. k * Turn \in Int
  BY SumsOfTurns
<1> QED
  BY <1>2, <1>3

-----------------------------------------------------------------------------
(* The longitudes of arcs.                                                 *)

ArcSet == [start : Int, end : Int]

LEMMA ArcFields ==
  /\ \A s, e \in Int : Arc(s, e) \in ArcSet /\ Arc(s, e).start = s /\ Arc(s, e).end = e
  /\ \A a \in ArcSet : a.start \in Int /\ a.end \in Int /\ a = Arc(a.start, a.end)
BY DEF Arc, ArcSet

LEMMA LonsMember ==
  \A s, e \in Int : \A l : l \in Lons(Arc(s, e)) <=> \E p \in s..e : l = (p % Turn)
BY ArcFields DEF Lons

LEMMA LonsRange == \A s, e \in Int : Lons(Arc(s, e)) \subseteq 0..Turn - 1
<1> TAKE s, e \in Int
<1>1. \A p \in s..e : p \in Int /\ p % Turn \in 0..Turn - 1
  BY Division
<1> QED
  BY <1>1, LonsMember

LEMMA LonsWithin ==
  \A s, e, s1, e1 \in Int : s1 <= s /\ e <= e1 => Lons(Arc(s, e)) \subseteq Lons(Arc(s1, e1))
<1> TAKE s, e, s1, e1 \in Int
<1> HAVE s1 <= s /\ e <= e1
<1>1. \A p \in s..e : p \in s1..e1
  OBVIOUS
<1> QED
  BY <1>1, LonsMember

LEMMA LonsShifted ==
  \A s, e, k \in Int : Lons(Arc(s, e)) = Lons(Arc(s + k * Turn, e + k * Turn))
<1> TAKE s, e, k \in Int
<1>0. k * Turn \in Int
  BY SumsOfTurns
<1>1. \A p \in Int : SameLon(p + k * Turn, p) /\ p + k * Turn \in Int
  BY <1>0 DEF SameLon
<1>2. \A p \in Int : (p % Turn) = (p + k * Turn) % Turn
  BY <1>1, Remainders
<1>3. ASSUME NEW l \in Lons(Arc(s, e)) PROVE l \in Lons(Arc(s + k * Turn, e + k * Turn))
  <2>1. PICK p \in s..e : l = (p % Turn)
    BY LonsMember
  <2>2. p + k * Turn \in s + k * Turn..e + k * Turn /\ l = (p + k * Turn) % Turn
    BY <1>0, <1>2, <2>1
  <2> QED
    BY <1>0, <2>2, LonsMember
<1>4. ASSUME NEW l \in Lons(Arc(s + k * Turn, e + k * Turn)) PROVE l \in Lons(Arc(s, e))
  <2>1. PICK p \in s + k * Turn..e + k * Turn : l = (p % Turn)
    BY <1>0, LonsMember
  <2> DEFINE q == p - k * Turn
  <2>2. q \in s..e /\ q \in Int /\ q + k * Turn = p
    BY <1>0, <2>1
  <2> HIDE DEF q
  <2>3. l = (q % Turn)
    BY <1>2, <2>1, <2>2
  <2> QED
    BY <2>2, <2>3, LonsMember
<1> QED
  BY <1>3, <1>4

(* An arc as long as a turn, or one less, has all longitudes.              *)
LEMMA LonsWhole ==
  \A s, e \in Int : e - s >= Turn - 1 => Lons(Arc(s, e)) = 0..Turn - 1
<1> TAKE s, e \in Int
<1> HAVE e - s >= Turn - 1
<1>1. ASSUME NEW l \in 0..Turn - 1 PROVE l \in Lons(Arc(s, e))
  <2> DEFINE i == (s - l) \div Turn
             r == (s - l) % Turn
  <2>1. i \in Int /\ r \in 0..Turn - 1 /\ s - l = i * Turn + r /\ i * Turn \in Int
    <3>1. s - l \in Int
      OBVIOUS
    <3>2. i \in Int /\ r \in 0..Turn - 1 /\ s - l = i * Turn + r
      BY <3>1, Division
    <3> QED
      BY <3>2, SumsOfTurns
  <2> HIDE DEF i, r
  <2> DEFINE m == IF r = 0 THEN i ELSE i + 1
  <2>2. m \in Int /\ m * Turn = (IF r = 0 THEN i * Turn ELSE i * Turn + Turn)
    BY <2>1, SumsOfTurns
  <2> HIDE DEF m
  <2>3. l + m * Turn \in s..e /\ m * Turn \in Int
    BY <2>1, <2>2, TurnType
  <2>4. (l + m * Turn) % Turn = l % Turn /\ l % Turn = l
    <3>1. SameLon(l + m * Turn, l) /\ l + m * Turn \in Int /\ l \in Int
      BY <2>2, <2>3 DEF SameLon
    <3>2. l % Turn = l
      BY TurnType
    <3> QED
      BY <3>1, <3>2, Remainders
  <2> QED
    BY <2>3, <2>4, LonsMember
<1> QED
  BY <1>1, LonsRange

-----------------------------------------------------------------------------
(* The walk round a ring.                                                  *)

LEMMA VertexType ==
  \A ring \in Rings :
    /\ Len(ring) \in Nat \ {0}
    /\ \A i \in 1..Len(ring) + 1 : Vertex(ring, i) \in Int
    /\ Vertex(ring, 1) = ring[1] /\ Vertex(ring, Len(ring) + 1) = ring[1]
<1> TAKE ring \in Rings
<1>1. ring \in Seq(Int) /\ ring # <<>>
  BY RingsAssumption
<1> DEFINE n == Len(ring)
<1>2. n \in Nat \ {0} /\ \A i \in 1..n : ring[i] \in Int
  BY <1>1
<1> HIDE DEF n
<1>3. \A i \in 1..n + 1 : ((i - 1) % n) + 1 \in 1..n
  <2> TAKE i \in 1..n + 1
  <2>1. i - 1 \in Nat
    BY <1>2
  <2>2. (i - 1) % n \in 0..n - 1
    BY <1>2, <2>1
  <2> QED
    BY <1>2, <2>2
<1>4. (1 - 1) % n = 0 /\ ((n + 1) - 1) % n = 0
  BY <1>2
<1> QED
  BY <1>2, <1>3, <1>4 DEF Vertex, n

LEMMA WrapSame ==
  \A d \in Int :
    /\ Wrap(d) \in -Half..Half
    /\ SameLon(Wrap(d), d)
    /\ Wrap(d) = IF d % Turn <= Half THEN d % Turn ELSE (d % Turn) - Turn
<1> TAKE d \in Int
<1> DEFINE r == d % Turn
           i == d \div Turn
<1>1. r \in 0..Turn - 1 /\ i \in Int /\ i * Turn \in Int /\ d = i * Turn + r
  BY Division, SumsOfTurns
<1>2. Wrap(d) = IF r <= Half THEN r ELSE r - Turn
  BY <1>1, TurnType DEF Wrap
<1> HIDE DEF r, i
<1>3. Wrap(d) \in -Half..Half
  BY <1>1, <1>2, TurnType
<1>4. SameLon(r, d)
  <2>1. SameLon(d, r)
    BY <1>1, TurnType DEF SameLon
  <2> QED
    BY <1>1, <2>1, SameLonBothWays
<1>5. SameLon(r - Turn, d)
  <2>1. d = (r - Turn) + (i + 1) * Turn /\ i + 1 \in Int
    <3>1. (i + 1) * Turn = i * Turn + Turn
      BY <1>1, SumsOfTurns
    <3> QED
      BY <1>1, <3>1, TurnType
  <2>2. SameLon(d, r - Turn)
    BY <2>1 DEF SameLon
  <2> QED
    BY <1>1, <2>2, SameLonBothWays, TurnType
<1> QED
  BY <1>2, <1>3, <1>4, <1>5 DEF r

LEMMA SameLonSum ==
  \A p, q, d, e \in Int : SameLon(p, q) /\ SameLon(d, e) => SameLon(p + d, q + e)
<1> TAKE p, q, d, e \in Int
<1> HAVE SameLon(p, q) /\ SameLon(d, e)
<1>1. PICK k \in Int : p = q + k * Turn
  BY DEF SameLon
<1>2. PICK j \in Int : d = e + j * Turn
  BY DEF SameLon
<1> DEFINE x == k * Turn
           y == j * Turn
<1>3. x \in Int /\ y \in Int /\ (k + j) * Turn = x + y /\ k + j \in Int
  <2>1. k * Turn \in Int /\ j * Turn \in Int
    BY SumsOfTurns
  <2>2. (k + j) * Turn = k * Turn + j * Turn
    BY SumsOfTurns
  <2> QED
    BY <2>1, <2>2
<1> HIDE DEF x, y
<1>4. p = q + x /\ d = e + y
  BY <1>1, <1>2 DEF x, y
<1>5. p + d = (q + e) + (x + y)
  BY <1>3, <1>4
<1> QED
  BY <1>3, <1>5 DEF SameLon

WalkStep(ring, i, walk) ==
  IF i = 1 THEN ring[1] ELSE walk[i - 1] + Wrap(Vertex(ring, i) - Vertex(ring, i - 1))

Walked(ring, n) == \E f : f = [i \in 1..n |-> WalkStep(ring, i, f)]

(* The walk: its steps, and the longitudes it passes.                      *)
LEMMA UnwrappedDef ==
  ASSUME NEW ring \in Rings
  PROVE  /\ Unwrapped(ring)[1] = ring[1]
         /\ \A i \in 1..Len(ring) :
              Unwrapped(ring)[i + 1] =
                Unwrapped(ring)[i] + Wrap(Vertex(ring, i + 1) - Vertex(ring, i))
<1> DEFINE n == Len(ring)
<1>0. n \in Nat \ {0}
  BY VertexType
<1>1. Walked(ring, 1)
  <2> DEFINE f == [i \in {1} |-> ring[1]]
  <2>1. f = [i \in 1..1 |-> WalkStep(ring, i, f)]
    BY DEF WalkStep
  <2> HIDE DEF f
  <2> QED
    BY <2>1 DEF Walked
<1>2. ASSUME NEW k \in 1..n, Walked(ring, k) PROVE Walked(ring, k + 1)
  <2>1. PICK f : f = [i \in 1..k |-> WalkStep(ring, i, f)]
    BY <1>2 DEF Walked
  <2> DEFINE g == [i \in 1..k + 1 |-> IF i = k + 1 THEN WalkStep(ring, i, f) ELSE f[i]]
  <2>2. \A i \in 1..k + 1 : g[i] = WalkStep(ring, i, g)
    <3> TAKE i \in 1..k + 1
    <3>1. i # 1 => i - 1 \in 1..k + 1 /\ i - 1 # k + 1 /\ g[i - 1] = f[i - 1]
      BY <1>0
    <3>2. WalkStep(ring, i, g) = WalkStep(ring, i, f)
      BY <3>1 DEF WalkStep
    <3>3. i # k + 1 => i \in 1..k
      BY <1>0
    <3>4. i # k + 1 => f[i] = WalkStep(ring, i, f)
      BY <2>1, <3>3
    <3> QED
      BY <3>2, <3>4
  <2>3. g = [i \in 1..k + 1 |-> WalkStep(ring, i, g)]
    <3>1. g = [i \in 1..k + 1 |-> g[i]]
      OBVIOUS
    <3> HIDE DEF g
    <3> QED
      BY <2>2, <3>1
  <2> HIDE DEF g
  <2> QED
    BY <2>3 DEF Walked
<1>3. Walked(ring, n + 1)
  <2> DEFINE S == {k \in Int : Walked(ring, k)}
  <2> HIDE DEF n
  <2>1. 1 \in S /\ \A i \in 1..n + 1 - 1 : i \in S => i + 1 \in S
    BY <1>0, <1>1, <1>2
  <2> HIDE DEF S
  <2>2. \A i \in 1..n + 1 : i \in S
    BY <1>0, <2>1, Upwards
  <2> QED
    BY <1>0, <2>2 DEF S
<1> DEFINE U == Unwrapped(ring)
<1>4. U = [i \in 1..n + 1 |-> WalkStep(ring, i, U)]
  <2>1. U = CHOOSE f : f = [i \in 1..n + 1 |-> WalkStep(ring, i, f)]
    BY DEF Unwrapped, WalkStep
  <2> HIDE DEF U
  <2> QED
    BY <1>3, <2>1 DEF Walked
<1> HIDE DEF U
<1>5. 1 \in 1..n + 1 /\ \A i \in 1..n : i + 1 \in 1..n + 1 /\ i + 1 # 1 /\ (i + 1) - 1 = i
  BY <1>0
<1>6. U[1] = ring[1]
  BY <1>4, <1>5 DEF WalkStep
<1>7. ASSUME NEW i \in 1..n
      PROVE  U[i + 1] = U[i] + Wrap(Vertex(ring, i + 1) - Vertex(ring, i))
  <2>1. U[i + 1] = WalkStep(ring, i + 1, U)
    BY <1>4, <1>5
  <2> QED
    BY <1>5, <2>1 DEF WalkStep
<1> QED
  BY <1>6, <1>7 DEF U

(* Every vertex is reached at its own longitude, some turns away.          *)
LEMMA WalkKeepsLon ==
  ASSUME NEW ring \in Rings
  PROVE  \A i \in 1..Len(ring) + 1 :
           Unwrapped(ring)[i] \in Int /\ SameLon(Unwrapped(ring)[i], Vertex(ring, i))
<1> DEFINE n == Len(ring)
           U == Unwrapped(ring)
           S == {i \in Int : U[i] \in Int /\ SameLon(U[i], Vertex(ring, i))}
<1>0. n \in Nat \ {0} /\ \A i \in 1..n + 1 : Vertex(ring, i) \in Int
  BY VertexType
<1>1. /\ U[1] = Vertex(ring, 1)
      /\ \A i \in 1..n : U[i + 1] = U[i] + Wrap(Vertex(ring, i + 1) - Vertex(ring, i))
  BY UnwrappedDef, VertexType
<1> HIDE DEF n, U
<1>2. 1 \in S
  <2>1. Vertex(ring, 1) \in Int
    BY <1>0
  <2>2. SameLon(Vertex(ring, 1), Vertex(ring, 1))
    <3>1. 0 * Turn = 0 /\ Vertex(ring, 1) = Vertex(ring, 1) + 0
      BY <2>1, SumsOfTurns
    <3> QED
      BY <2>1, <3>1 DEF SameLon
  <2> QED
    BY <1>1, <2>1, <2>2
<1>3. ASSUME NEW i \in 1..n + 1 - 1, i \in S PROVE i + 1 \in S
  <2>0. i \in 1..n /\ i \in 1..n + 1 /\ i + 1 \in 1..n + 1
    BY <1>0
  <2> DEFINE v == Vertex(ring, i)
             w == Vertex(ring, i + 1)
  <2>1. v \in Int /\ w \in Int /\ w - v \in Int
    BY <1>0, <2>0
  <2>2. U[i + 1] = U[i] + Wrap(w - v)
    BY <1>1, <2>0
  <2>5. U[i] \in Int /\ SameLon(U[i], v)
    BY <1>3
  <2> HIDE DEF v, w
  <2>3. Wrap(w - v) \in Int /\ SameLon(Wrap(w - v), w - v)
    BY <2>1, WrapSame, TurnType
  <2>4. SameLon(U[i] + Wrap(w - v), v + (w - v)) /\ v + (w - v) = w
    BY <2>1, <2>3, <2>5, SameLonSum
  <2> QED
    BY <2>0, <2>2, <2>3, <2>4, <2>5 DEF w
<1> HIDE DEF S
<1>4. \A i \in 1..n + 1 : i \in S
  <2> DEFINE m == n + 1
  <2>1. m \in Int /\ \A i \in 1..m - 1 : i \in S => i + 1 \in S
    BY <1>0, <1>3
  <2> HIDE DEF m
  <2>2. \A i \in 1..m : i \in S
    BY <1>2, <2>1, Upwards
  <2> QED
    BY <2>2 DEF m
<1> QED
  BY <1>4 DEF S, U, n

Low(p, q) == IF p <= q THEN p ELSE q
High(p, q) == IF p <= q THEN q ELSE p

(* An edge has the longitudes that the walk passes along it.               *)
LEMMA EdgeIsWalked ==
  \A v, w, p, q \in Int :
    SameLon(p, v) /\ q = p + Wrap(w - v) =>
      Lons(Edge(v, w)) = Lons(Arc(Low(p, q), High(p, q)))
<1> TAKE v, w, p, q \in Int
<1> HAVE SameLon(p, v) /\ q = p + Wrap(w - v)
<1> DEFINE r == (w - v) % Turn
           d == Wrap(w - v)
<1>1. w - v \in Int /\ d \in -Half..Half /\ r \in 0..Turn - 1
      /\ d = IF r <= Half THEN r ELSE r - Turn
  BY WrapSame, Division
<1>2. q = p + d
  OBVIOUS
<1>3. Edge(v, w) = IF r <= Half THEN Arc(v, v + r) ELSE Arc(w, w + Turn - r)
  BY DEF Edge
<1>4. SameLon(q, w)
  <2>1. SameLon(d, w - v)
    BY WrapSame
  <2> HIDE DEF d
  <2>3. d \in Int /\ v + (w - v) = w
    BY <1>1, TurnType
  <2>2. SameLon(p + d, v + (w - v))
    BY <1>1, <2>1, <2>3, SameLonSum
  <2> QED
    BY <1>2, <2>2, <2>3
<1> HIDE DEF r, d
<1>5. CASE r <= Half
  <2>1. d = r /\ Low(p, q) = p /\ High(p, q) = p + r /\ r \in Int
    BY <1>1, <1>2, <1>5 DEF Low, High
  <2>2. PICK k \in Int : k * Turn \in Int /\ v = p + k * Turn
    BY SameLonShift
  <2>3. Lons(Arc(p, p + r)) = Lons(Arc(p + k * Turn, (p + r) + k * Turn))
    BY <2>1, LonsShifted
  <2>4. p + k * Turn = v /\ (p + r) + k * Turn = v + r
    <3> DEFINE x == k * Turn
    <3>1. x \in Int /\ v = p + x
      BY <2>2
    <3> HIDE DEF x
    <3>2. p + x = v /\ (p + r) + x = v + r
      BY <1>1, <3>1
    <3> QED
      BY <3>2 DEF x
  <2> QED
    BY <1>3, <1>5, <2>1, <2>3, <2>4
<1>6. CASE ~(r <= Half)
  <2>1. d = r - Turn /\ Low(p, q) = q /\ High(p, q) = q + (Turn - r) /\ Turn - r \in Int
    BY <1>1, <1>2, <1>6, TurnType DEF Low, High
  <2>2. PICK k \in Int : k * Turn \in Int /\ w = q + k * Turn
    BY <1>4, SameLonShift
  <2>3. Lons(Arc(q, q + (Turn - r))) = Lons(Arc(q + k * Turn, (q + (Turn - r)) + k * Turn))
    BY <2>1, LonsShifted
  <2>4. q + k * Turn = w /\ (q + (Turn - r)) + k * Turn = w + Turn - r
    <3> DEFINE x == k * Turn
    <3>1. x \in Int /\ w = q + x
      BY <2>2
    <3> HIDE DEF x
    <3>2. q + x = w /\ (q + (Turn - r)) + x = w + Turn - r
      BY <1>1, <3>1, TurnType
    <3> QED
      BY <3>2 DEF x
  <2> QED
    BY <1>3, <1>6, <2>1, <2>3, <2>4
<1> QED
  BY <1>5, <1>6

(* The stretch of the walk along the i-th edge.                            *)
Stretch(ring, i) ==
  Low(Unwrapped(ring)[i], Unwrapped(ring)[i + 1])..High(Unwrapped(ring)[i], Unwrapped(ring)[i + 1])

Passed(ring) == UNION {Stretch(ring, i) : i \in 1..Len(ring)}

LEMMA SweptIsPassed ==
  ASSUME NEW ring \in Rings
  PROVE  Swept(ring) = {p % Turn : p \in Passed(ring)}
<1> DEFINE n == Len(ring)
           U == Unwrapped(ring)
<1>0. n \in Nat \ {0} /\ \A i \in 1..n : i \in 1..n + 1 /\ i + 1 \in 1..n + 1
  BY VertexType
<1>1. \A i \in 1..n + 1 : Vertex(ring, i) \in Int /\ U[i] \in Int /\ SameLon(U[i], Vertex(ring, i))
  BY VertexType, WalkKeepsLon
<1>2. \A i \in 1..n : U[i + 1] = U[i] + Wrap(Vertex(ring, i + 1) - Vertex(ring, i))
  BY UnwrappedDef
<1> HIDE DEF n, U
<1>3. ASSUME NEW i \in 1..n
      PROVE  Lons(Edge(Vertex(ring, i), Vertex(ring, i + 1))) = {p % Turn : p \in Stretch(ring, i)}
  <2>1. Lons(Edge(Vertex(ring, i), Vertex(ring, i + 1))) = Lons(Arc(Low(U[i], U[i + 1]), High(U[i], U[i + 1])))
    BY <1>0, <1>1, <1>2, EdgeIsWalked
  <2>2. Low(U[i], U[i + 1]) \in Int /\ High(U[i], U[i + 1]) \in Int
    BY <1>0, <1>1 DEF Low, High
  <2>3. Stretch(ring, i) = Low(U[i], U[i + 1])..High(U[i], U[i + 1])
    BY DEF Stretch, U
  <2> QED
    BY <2>1, <2>2, <2>3, ArcFields DEF Lons
<1>4. Swept(ring) = UNION {Lons(Edge(Vertex(ring, i), Vertex(ring, i + 1))) : i \in 1..n}
  BY DEF Swept, n
<1>5. Swept(ring) = UNION {{p % Turn : p \in Stretch(ring, i)} : i \in 1..n}
  BY <1>3, <1>4
<1>6. Passed(ring) = UNION {Stretch(ring, i) : i \in 1..n}
  BY DEF Passed, n
<1> QED
  BY <1>5, <1>6

(* Nothing between two places of the walk is jumped over.                  *)
LEMMA WalkJumpsNothing ==
  ASSUME NEW ring \in Rings
  PROVE  \A i \in 1..Len(ring) + 1 :
           Low(Unwrapped(ring)[1], Unwrapped(ring)[i])..High(Unwrapped(ring)[1], Unwrapped(ring)[i])
             \subseteq Passed(ring)
<1> DEFINE n == Len(ring)
           U == Unwrapped(ring)
           S == {i \in Int : Low(U[1], U[i])..High(U[1], U[i]) \subseteq Passed(ring)}
<1>0. n \in Nat \ {0} /\ \A i \in 1..n : i \in 1..n + 1 /\ i + 1 \in 1..n + 1
  BY VertexType
<1>1. \A i \in 1..n + 1 : U[i] \in Int
  BY WalkKeepsLon
<1>2. \A i \in 1..n : Low(U[i], U[i + 1])..High(U[i], U[i + 1]) \subseteq Passed(ring)
  BY DEF Passed, Stretch
<1> HIDE DEF n, U
<1>3. 1 \in S
  <2>1. U[1] \in Int /\ U[2] \in Int /\ 1 \in 1..n
    BY <1>0, <1>1
  <2>2. \A p \in Low(U[1], U[1])..High(U[1], U[1]) : p \in Low(U[1], U[2])..High(U[1], U[2])
    BY <2>1 DEF Low, High
  <2>3. 1 + 1 = 2
    OBVIOUS
  <2>4. Low(U[1], U[2])..High(U[1], U[2]) \subseteq Passed(ring)
    BY <1>2, <2>1, <2>3
  <2> QED
    BY <2>2, <2>4
<1>4. ASSUME NEW i \in 1..n, i \in S PROVE i + 1 \in S
  <2>1. U[1] \in Int /\ U[i] \in Int /\ U[i + 1] \in Int
    BY <1>0, <1>1
  <2>2. \A p \in Low(U[1], U[i + 1])..High(U[1], U[i + 1]) :
          \/ p \in Low(U[1], U[i])..High(U[1], U[i])
          \/ p \in Low(U[i], U[i + 1])..High(U[i], U[i + 1])
    BY <2>1 DEF Low, High
  <2>3. Low(U[1], U[i])..High(U[1], U[i]) \subseteq Passed(ring)
    BY <1>4
  <2>4. Low(U[1], U[i + 1])..High(U[1], U[i + 1]) \subseteq Passed(ring)
    BY <1>2, <2>2, <2>3
  <2> QED
    BY <2>4
<1> HIDE DEF S
<1>5. \A i \in 1..n + 1 : i \in S
  <2> DEFINE m == n + 1
  <2>1. m \in Int /\ \A i \in 1..m - 1 : i \in S => i + 1 \in S
    BY <1>0, <1>4
  <2> HIDE DEF m
  <2>2. \A i \in 1..m : i \in S
    BY <1>3, <2>1, Upwards
  <2> QED
    BY <2>2 DEF m
<1> QED
  BY <1>5 DEF S, U, n

(* Among finitely many integers there is a least and a greatest.           *)
LEMMA Extremes ==
  ASSUME NEW n \in Nat \ {0}, NEW f, \A i \in 1..n : f[i] \in Int
  PROVE  \E j, k \in 1..n : \A i \in 1..n : f[j] <= f[i] /\ f[i] <= f[k]
<1> DEFINE P(m) == \E j, k \in 1..m : \A i \in 1..m : f[j] <= f[i] /\ f[i] <= f[k]
           S == {m \in Int : P(m)}
<1>1. 1 \in S
  <2>1. 1..1 = {1} /\ f[1] <= f[1]
    OBVIOUS
  <2>2. P(1)
    BY <2>1
  <2> QED
    BY <2>2
<1>2. ASSUME NEW m \in 1..n - 1, m \in S PROVE m + 1 \in S
  <2>1. PICK j, k \in 1..m : \A i \in 1..m : f[j] <= f[i] /\ f[i] <= f[k]
    BY <1>2
  <2>2. m + 1 \in 1..n /\ j \in 1..n /\ k \in 1..n
        /\ 1..m + 1 = (1..m) \cup {m + 1} /\ \A i \in 1..m : i \in 1..n
    OBVIOUS
  <2>3. f[m + 1] \in Int /\ f[j] \in Int /\ f[k] \in Int /\ \A i \in 1..m : f[i] \in Int
    BY <2>2
  <2> DEFINE j1 == IF f[m + 1] < f[j] THEN m + 1 ELSE j
             k1 == IF f[m + 1] > f[k] THEN m + 1 ELSE k
  <2>4. j1 \in 1..m + 1 /\ k1 \in 1..m + 1
    BY <2>2
  <2>5. \A i \in 1..m + 1 : f[j1] <= f[i] /\ f[i] <= f[k1]
    BY <2>1, <2>2, <2>3
  <2> HIDE DEF j1, k1
  <2> QED
    BY <2>4, <2>5
<1> HIDE DEF S
<1>3. \A m \in 1..n : m \in S
  BY <1>1, <1>2, Upwards
<1>4. n \in S
  BY <1>3
<1>5. P(n)
  <2> HIDE DEF P
  <2> QED
    BY <1>4 DEF S
<1> QED
  BY <1>5

Reached(ring) == {Unwrapped(ring)[i] : i \in 1..Len(ring)}

LEMMA ReachedExtremes ==
  ASSUME NEW ring \in Rings
  PROVE  /\ Min(Reached(ring)) \in Reached(ring) /\ Max(Reached(ring)) \in Reached(ring)
         /\ \A p \in Reached(ring) :
              p \in Int /\ Min(Reached(ring)) <= p /\ p <= Max(Reached(ring))
<1> DEFINE n == Len(ring)
           U == Unwrapped(ring)
<1>1. n \in Nat \ {0} /\ \A i \in 1..n : U[i] \in Int
  BY VertexType, WalkKeepsLon
<1>2. Reached(ring) = {U[i] : i \in 1..n}
  BY DEF Reached
<1> HIDE DEF n, U
<1>3. PICK j, k \in 1..n : \A i \in 1..n : U[j] <= U[i] /\ U[i] <= U[k]
  BY <1>1, Extremes
<1> DEFINE S == Reached(ring)
<1>4. U[j] \in S /\ U[k] \in S /\ \A p \in S : p \in Int /\ U[j] <= p /\ p <= U[k]
  BY <1>1, <1>2, <1>3
<1>5. Min(S) \in S /\ \A p \in S : Min(S) <= p
  BY <1>4 DEF Min
<1>6. Max(S) \in S /\ \A p \in S : p <= Max(S)
  <2>1. \E x \in S : \A y \in S : x >= y
    BY <1>4
  <2>2. Max(S) \in S /\ \A y \in S : Max(S) >= y
    BY <2>1 DEF Max
  <2> QED
    BY <1>4, <2>2
<1> QED
  BY <1>4, <1>5, <1>6

LEMMA WindingSame ==
  ASSUME NEW ring \in Rings
  PROVE  /\ Winding(ring) = Unwrapped(ring)[Len(ring) + 1] - Unwrapped(ring)[1]
         /\ \E k \in Int : Winding(ring) = k * Turn
<1> DEFINE n == Len(ring)
           U == Unwrapped(ring)
<1>1. n \in Nat \ {0} /\ n + 1 \in 1..n + 1 /\ 1 \in 1..n + 1
      /\ ring[1] \in Int /\ Vertex(ring, n + 1) = ring[1]
  BY VertexType
<1>2. U[1] = ring[1] /\ U[n + 1] \in Int /\ SameLon(U[n + 1], ring[1])
  BY <1>1, UnwrappedDef, WalkKeepsLon
<1>3. PICK k \in Int : U[n + 1] = ring[1] + k * Turn
  BY <1>2 DEF SameLon
<1>4. Winding(ring) = U[n + 1] - ring[1]
  BY DEF Winding
<1> HIDE DEF n, U
<1>5. U[n + 1] - ring[1] = k * Turn
  <2> DEFINE x == k * Turn
  <2>1. x \in Int /\ U[n + 1] = ring[1] + x
    BY <1>3, SumsOfTurns
  <2> HIDE DEF x
  <2>2. U[n + 1] - ring[1] = x
    BY <1>1, <2>1
  <2> QED
    BY <2>2 DEF x
<1> QED
  BY <1>2, <1>4, <1>5 DEF n, U

(* A ring that winds round a pole passes under all longitudes.             *)
LEMMA PolarRing ==
  ASSUME NEW ring \in Rings, EncirclesPole(ring)
  PROVE  Swept(ring) = 0..Turn - 1
<1> DEFINE n == Len(ring)
           U == Unwrapped(ring)
<1>1. n \in Nat \ {0} /\ n + 1 \in 1..n + 1 /\ 1 \in 1..n + 1 /\ U[1] \in Int /\ U[n + 1] \in Int
  BY VertexType, WalkKeepsLon
<1>2. PICK k \in Int : Winding(ring) = k * Turn
  BY WindingSame
<1>3. Winding(ring) = U[n + 1] - U[1]
  BY WindingSame
<1>4. Low(U[1], U[n + 1])..High(U[1], U[n + 1]) \subseteq Passed(ring)
  BY <1>1, WalkJumpsNothing
<1>5. \A i \in 1..n + 1 : U[i] \in Int
  BY WalkKeepsLon
<1>6. Swept(ring) = {p % Turn : p \in Passed(ring)}
  BY SweptIsPassed
<1>7. Passed(ring) \subseteq Int
  BY DEF Passed, Stretch
<1> HIDE DEF n, U
<1>8. k >= 1 \/ k <= -1
  <2> SUFFICES ASSUME k = 0 PROVE FALSE
    OBVIOUS
  <2> QED
    BY <1>2, SumsOfTurns, TurnType DEF EncirclesPole
<1>9. k * Turn \in Int /\ (k * Turn >= Turn \/ k * Turn <= -Turn)
  BY <1>8, TurnType
<1>10. High(U[1], U[n + 1]) - Low(U[1], U[n + 1]) >= Turn
  <2> DEFINE x == k * Turn
  <2>1. x \in Int /\ (x >= Turn \/ x <= -Turn) /\ x = U[n + 1] - U[1]
    BY <1>2, <1>3, <1>9
  <2> HIDE DEF x
  <2> QED
    BY <1>1, <2>1, TurnType DEF Low, High
<1>11. Low(U[1], U[n + 1]) \in Int /\ High(U[1], U[n + 1]) \in Int
  BY <1>1 DEF Low, High
<1>12. Lons(Arc(Low(U[1], U[n + 1]), High(U[1], U[n + 1]))) = 0..Turn - 1
  BY <1>10, <1>11, LonsWhole, TurnType
<1>13. 0..Turn - 1 \subseteq Swept(ring)
  <2> DEFINE a == Low(U[1], U[n + 1])
             b == High(U[1], U[n + 1])
  <2>1. a \in Int /\ b \in Int /\ a..b \subseteq Passed(ring) /\ Lons(Arc(a, b)) = 0..Turn - 1
    BY <1>4, <1>11, <1>12
  <2> HIDE DEF a, b
  <2>2. ASSUME NEW l \in 0..Turn - 1 PROVE \E p \in a..b : l = p % Turn
    <3>1. l \in Lons(Arc(a, b))
      BY <2>1
    <3> QED
      BY <2>1, <3>1, ArcFields DEF Lons
  <2> QED
    BY <1>6, <2>1, <2>2
<1>14. Swept(ring) \subseteq 0..Turn - 1
  BY <1>6, <1>7, Division
<1> QED
  BY <1>13, <1>14

(* Any other ring has the longitudes of its arc, which starts in the half  *)
(* turns round 0.                                                          *)
LEMMA OtherRing ==
  ASSUME NEW ring \in Rings, ~EncirclesPole(ring)
  PROVE  /\ RingArc(ring) \in ArcSet /\ RingArc(ring).start <= RingArc(ring).end
         /\ RingArc(ring).start \in -Half..Half - 1
         /\ Lons(RingArc(ring)) = Swept(ring)
<1> DEFINE n == Len(ring)
           U == Unwrapped(ring)
           lo == Min(Reached(ring))
           hi == Max(Reached(ring))
           k == (lo + Half) \div Turn
           shift == Turn * k
<1>1. n \in Nat \ {0} /\ n + 1 \in 1..n + 1 /\ 1 \in 1..n /\ \A i \in 1..n + 1 : U[i] \in Int
  BY VertexType, WalkKeepsLon
<1>2. U[n + 1] = U[1]
  <2>1. PICK j \in Int : Winding(ring) = j * Turn
    BY WindingSame
  <2>2. Winding(ring) = U[n + 1] - U[1]
    BY WindingSame
  <2> DEFINE x == j * Turn
  <2>3. x \in Int /\ x = U[n + 1] - U[1] /\ -Half <= x /\ x <= Half
    BY <1>1, <2>1, <2>2, TurnType DEF EncirclesPole
  <2>4. x = j * Turn
    OBVIOUS
  <2> HIDE DEF x
  <2>5. j = 0
    BY <2>3, <2>4, NoMultiple, TurnType
  <2>6. x = 0
    BY <2>4, <2>5, SumsOfTurns
  <2> QED
    BY <1>1, <2>3, <2>6
<1>3. lo \in Int /\ hi \in Int /\ lo <= hi /\ \A i \in 1..n : lo <= U[i] /\ U[i] <= hi
  BY <1>1, ReachedExtremes DEF Reached
<1>4. PICK j \in 1..n : lo = U[j]
  BY ReachedExtremes DEF Reached
<1>5. PICK m \in 1..n : hi = U[m]
  BY ReachedExtremes DEF Reached
<1>6. RingArc(ring) = Arc(lo - shift, hi - shift)
  BY DEF RingArc, Reached
<1>7. Passed(ring) = UNION {Low(U[i], U[i + 1])..High(U[i], U[i + 1]) : i \in 1..n}
  BY DEF Passed, Stretch
<1>8. \A i \in 1..n + 1 : Low(U[1], U[i])..High(U[1], U[i]) \subseteq Passed(ring)
  BY WalkJumpsNothing
<1>9. k \in Int /\ (lo + Half) % Turn \in 0..Turn - 1 /\ lo + Half = k * Turn + ((lo + Half) % Turn)
  <2>1. lo + Half \in Int
    BY <1>3, TurnType
  <2> QED
    BY <2>1, Division
<1> HIDE DEF n, U, lo, hi, k
<1>10. lo..hi \subseteq Passed(ring)
  <2>1. \A p \in lo..hi : p \in Low(U[1], U[j])..High(U[1], U[j])
                       \/ p \in Low(U[1], U[m])..High(U[1], U[m])
    BY <1>1, <1>3, <1>4, <1>5 DEF Low, High
  <2>2. j \in 1..n + 1 /\ m \in 1..n + 1
    BY <1>1
  <2> QED
    BY <1>8, <2>1, <2>2
<1>11. Passed(ring) \subseteq lo..hi
  <2>1. \A i \in 1..n + 1 : lo <= U[i] /\ U[i] <= hi
    BY <1>1, <1>2, <1>3
  <2>2. \A i \in 1..n : i \in 1..n + 1 /\ i + 1 \in 1..n + 1
    BY <1>1
  <2>3. \A i \in 1..n : \A p \in Low(U[i], U[i + 1])..High(U[i], U[i + 1]) : p \in lo..hi
    BY <1>1, <1>3, <2>1, <2>2 DEF Low, High
  <2> QED
    BY <1>7, <2>3
<1>12. Swept(ring) = Lons(Arc(lo, hi))
  BY <1>3, <1>10, <1>11, SweptIsPassed, ArcFields DEF Lons
<1> DEFINE x == k * Turn
<1>13. x \in Int /\ shift = x /\ -k \in Int /\ (-k) * Turn = -x
  BY <1>9, SumsOfTurns, TurnType
<1>14. Lons(Arc(lo, hi)) = Lons(Arc(lo + (-k) * Turn, hi + (-k) * Turn))
  BY <1>3, <1>13, LonsShifted
<1>15. (lo + Half) - x \in 0..Turn - 1
  <2> DEFINE r == (lo + Half) % Turn
  <2>1. r \in 0..Turn - 1 /\ lo + Half = x + r
    BY <1>9
  <2> HIDE DEF r, x
  <2> QED
    BY <1>3, <1>13, <2>1, TurnType
<1> HIDE DEF x, shift
<1>16. lo + (-k) * Turn = lo - shift /\ hi + (-k) * Turn = hi - shift
  BY <1>3, <1>13
<1>17. lo - shift \in -Half..Half - 1 /\ lo - shift <= hi - shift /\ lo - shift \in Int /\ hi - shift \in Int
  BY <1>3, <1>13, <1>15, TurnType
<1> QED
  BY <1>6, <1>12, <1>14, <1>16, <1>17, ArcFields

-----------------------------------------------------------------------------
(* Merging.                                                                *)

IsBetween(a, p) == a.start <= p /\ p <= a.end

(* Merged arcs lie apart from west to east, each starts and ends where one *)
(* of the arcs taken does, they hold what those hold, and no arc left      *)
(* starts before them.                                                     *)
LieApart(M) ==
  /\ \A i \in 1..Len(M) : M[i].start <= M[i].end
  /\ \A i, j \in 1..Len(M) : i < j => M[i].end < M[j].start

MadeOf(M, taken) ==
  \A i \in 1..Len(M) :
    /\ \E a \in taken : a.start = M[i].start
    /\ \E a \in taken : a.end = M[i].end

HoldsSame(M, taken) ==
  \A p \in Int : (\E i \in 1..Len(M) : IsBetween(M[i], p)) <=> (\E a \in taken : IsBetween(a, p))

StartBefore(M, rest) == \A i \in 1..Len(M), a \in rest : M[i].start <= a.start

IsMerge(M, taken, rest) ==
  LieApart(M) /\ MadeOf(M, taken) /\ HoldsSame(M, taken) /\ StartBefore(M, rest)

Proper(arcs1) == arcs1 \subseteq {a \in ArcSet : a.start <= a.end}

LEMMA MergeExtends ==
  ASSUME NEW M \in Seq(ArcSet), NEW taken, NEW rest, Proper(taken), Proper(rest),
         IsMerge(M, taken, rest), NEW a \in rest, \A b \in rest : a.start <= b.start,
         M # <<>>, a.start <= Last(M).end,
         NEW N, N = [M EXCEPT ![Len(M)] = Extended(@, a)]
  PROVE  N \in Seq(ArcSet) /\ IsMerge(N, taken \cup {a}, rest \ {a})
<1> DEFINE n == Len(M)
           m == M[n]
<1>1. n \in Nat \ {0} /\ n \in 1..n /\ \A i \in 1..n : M[i] \in ArcSet
  OBVIOUS
<1>2. Last(M) = m
  BY DEF Last
<1>3. a \in ArcSet /\ a.start \in Int /\ a.end \in Int /\ a.start <= a.end
  BY DEF Proper, ArcSet
<1>4. m \in ArcSet /\ m.start \in Int /\ m.end \in Int
  BY <1>1 DEF ArcSet
<1>5. m.start <= m.end /\ m.start <= a.start /\ a.start <= m.end
  BY <1>1, <1>2 DEF IsMerge, LieApart, StartBefore
<1> DEFINE e == Extended(m, a)
<1>6. e \in ArcSet /\ e.start = m.start /\ e.end \in {m.end, a.end} /\ m.end <= e.end /\ a.end <= e.end
  BY <1>3, <1>4, ArcFields DEF Extended
<1>7. \A p \in Int : IsBetween(e, p) <=> IsBetween(m, p) \/ IsBetween(a, p)
  BY <1>3, <1>4, <1>5, <1>6 DEF IsBetween
<1>8. N = [M EXCEPT ![n] = e]
  OBVIOUS
<1> HIDE DEF e
<1>9. N \in Seq(ArcSet) /\ Len(N) = n /\ N[n] = e /\ \A i \in 1..n : i # n => N[i] = M[i]
  BY <1>1, <1>6, <1>8
<1> HIDE DEF n, m
<1>10. m = M[n] /\ n = Len(M)
  BY DEF m, n
<1>11. LieApart(N)
  <2>1. \A i \in 1..n : N[i].start = M[i].start /\ N[i].start \in Int /\ M[i].end \in Int
    BY <1>1, <1>4, <1>6, <1>9, <1>10 DEF ArcSet
  <2>2. \A i \in 1..n : i # n => N[i].end = M[i].end
    BY <1>9
  <2>3. \A i \in 1..n : N[i].start <= N[i].end
    <3>1. \A i \in 1..n : M[i].start <= M[i].end
      BY <1>10 DEF IsMerge, LieApart
    <3>2. e.start <= e.end
      BY <1>4, <1>5, <1>6, ArcFields
    <3>3. ASSUME NEW i \in 1..n, i # n PROVE N[i].start <= N[i].end
      BY <1>9, <3>1, <3>3
    <3> QED
      BY <1>9, <3>2, <3>3
  <2>4. \A i, j \in 1..n : i < j => i # n
    BY <1>1
  <2>5. \A i, j \in 1..n : i < j => N[i].end < N[j].start
    BY <1>10, <2>1, <2>2, <2>4 DEF IsMerge, LieApart
  <2> QED
    BY <1>9, <2>3, <2>5 DEF LieApart
<1>12. MadeOf(N, taken \cup {a})
  <2>1. \A i \in 1..n : (\E b \in taken : b.start = M[i].start) /\ (\E b \in taken : b.end = M[i].end)
    BY <1>10 DEF IsMerge, MadeOf
  <2>2. \A i \in 1..n : N[i].start = M[i].start /\ N[i].end \in {M[i].end, a.end}
    BY <1>6, <1>9, <1>10
  <2>3. \A i \in 1..n : \E b \in taken \cup {a} : b.start = N[i].start
    BY <2>1, <2>2
  <2>4. \A i \in 1..n : \E b \in taken \cup {a} : b.end = N[i].end
    BY <2>1, <2>2
  <2> QED
    BY <1>9, <2>3, <2>4 DEF MadeOf
<1>13. HoldsSame(N, taken \cup {a})
  <2> SUFFICES ASSUME NEW p \in Int
               PROVE  (\E i \in 1..n : IsBetween(N[i], p)) <=> (\E b \in taken \cup {a} : IsBetween(b, p))
    BY <1>9 DEF HoldsSame
  <2>1. (\E i \in 1..n : IsBetween(M[i], p)) <=> (\E b \in taken : IsBetween(b, p))
    BY <1>10 DEF IsMerge, HoldsSame
  <2>2. (\E i \in 1..n : IsBetween(N[i], p)) <=> (\E i \in 1..n : IsBetween(M[i], p)) \/ IsBetween(a, p)
    BY <1>1, <1>7, <1>9, <1>10
  <2> QED
    BY <2>1, <2>2
<1>14. StartBefore(N, rest \ {a})
  BY <1>6, <1>9, <1>10 DEF IsMerge, StartBefore
<1> QED
  BY <1>9, <1>11, <1>12, <1>13, <1>14 DEF IsMerge

LEMMA MergeAppends ==
  ASSUME NEW M \in Seq(ArcSet), NEW taken, NEW rest, Proper(taken), Proper(rest),
         IsMerge(M, taken, rest), NEW a \in rest, \A b \in rest : a.start <= b.start,
         M # <<>> => Last(M).end < a.start,
         NEW N, N = Append(M, a)
  PROVE  N \in Seq(ArcSet) /\ IsMerge(N, taken \cup {a}, rest \ {a})
<1> DEFINE n == Len(M)
<1>1. n \in Nat /\ \A i \in 1..n : M[i] \in ArcSet /\ M[i].start \in Int /\ M[i].end \in Int
  <2>1. n \in Nat /\ \A i \in 1..n : M[i] \in ArcSet
    OBVIOUS
  <2> HIDE DEF n
  <2> QED
    BY <2>1, ArcFields
<1>2. M # <<>> => n \in 1..n /\ Last(M) = M[n]
  BY DEF Last
<1>3. a \in ArcSet /\ a.start \in Int /\ a.end \in Int /\ a.start <= a.end
  BY DEF Proper, ArcSet
<1>4. /\ N \in Seq(ArcSet) /\ Len(N) = n + 1 /\ N[n + 1] = a
      /\ \A i \in 1..n : N[i] = M[i]
  BY <1>3
<1>5. \A i \in 1..n : M[i].end < a.start
  <2> TAKE i \in 1..n
  <2>1. M # <<>>
    OBVIOUS
  <2>2. i < n => M[i].end < M[n].start
    BY <1>2, <2>1 DEF IsMerge, LieApart
  <2>3. M[n].start <= M[n].end
    BY <1>2, <2>1 DEF IsMerge, LieApart
  <2>4. M[n].end < a.start
    BY <1>2, <2>1
  <2> QED
    BY <1>1, <1>2, <1>3, <2>1, <2>2, <2>3, <2>4
<1>10. n = Len(M)
  OBVIOUS
<1> HIDE DEF n
<1>6. \A i \in 1..n + 1 : i \in 1..n \/ i = n + 1
  BY <1>1
<1>7. 1..n \subseteq 1..n + 1 /\ n + 1 \in 1..n + 1
  BY <1>1
<1>11. LieApart(N)
  <2>1. \A i \in 1..n + 1 : N[i].start <= N[i].end
    BY <1>3, <1>4, <1>6, <1>10 DEF IsMerge, LieApart
  <2>2. \A i, j \in 1..n + 1 : i < j => i \in 1..n
    BY <1>1
  <2>3. \A i, j \in 1..n + 1 : i < j => N[i].end < N[j].start
    BY <1>4, <1>5, <1>6, <1>10, <2>2 DEF IsMerge, LieApart
  <2> QED
    BY <1>4, <2>1, <2>3 DEF LieApart
<1>12. MadeOf(N, taken \cup {a})
  <2>1. \A i \in 1..n : (\E b \in taken : b.start = M[i].start) /\ (\E b \in taken : b.end = M[i].end)
    BY <1>10 DEF IsMerge, MadeOf
  <2>3. \A i \in 1..n + 1 : \E b \in taken \cup {a} : b.start = N[i].start
    BY <1>4, <1>6, <2>1
  <2>4. \A i \in 1..n + 1 : \E b \in taken \cup {a} : b.end = N[i].end
    BY <1>4, <1>6, <2>1
  <2> QED
    BY <1>4, <2>3, <2>4 DEF MadeOf
<1>13. HoldsSame(N, taken \cup {a})
  <2> SUFFICES ASSUME NEW p \in Int
               PROVE  (\E i \in 1..n + 1 : IsBetween(N[i], p)) <=> (\E b \in taken \cup {a} : IsBetween(b, p))
    BY <1>4 DEF HoldsSame
  <2>1. (\E i \in 1..n : IsBetween(M[i], p)) <=> (\E b \in taken : IsBetween(b, p))
    BY <1>10 DEF IsMerge, HoldsSame
  <2>2. (\E i \in 1..n + 1 : IsBetween(N[i], p)) <=> (\E i \in 1..n : IsBetween(M[i], p)) \/ IsBetween(a, p)
    BY <1>4, <1>6, <1>7
  <2> QED
    BY <2>1, <2>2
<1>14. StartBefore(N, rest \ {a})
  BY <1>4, <1>6, <1>10 DEF IsMerge, StartBefore
<1> QED
  BY <1>4, <1>11, <1>12, <1>13, <1>14 DEF IsMerge

-----------------------------------------------------------------------------
(* The inductive invariant.                                                *)

ArcsInv ==
  /\ \A a \in given : a \in ArcSet /\ a.start <= a.end /\ a.start \in -Half..Half - 1
  /\ arcs \subseteq given
  /\ polar \in BOOLEAN

MergeInv == merged \in Seq(ArcSet) /\ IsMerge(merged, given \ arcs, arcs)

(* The best of the first n gaps.                                           *)
Scanned(n) ==
  IF n = 0 THEN best = 0 ELSE best \in 1..n /\ \A j \in 1..n : Gap(j) <= Gap(best)

Untouched == best = 0 /\ at = 1

NoBox == box = NA /\ given = {} /\ ~polar /\ merged = <<>> /\ Untouched

WholeTurn ==
  /\ box = World /\ merged = <<>> /\ Untouched
  /\ polar \/ \E a \in given : a.end - a.start >= Turn

Boxed ==
  /\ ~polar /\ arcs = {} /\ merged # <<>> /\ at = Len(merged) + 1 /\ Scanned(Len(merged))
  /\ box = IF Gap(best) <= 0 THEN World ELSE BoxAround(best)

PhaseInv ==
  /\ phase \in {"rings", "merge", "gaps", "done"}
  /\ phase = "rings" => arcs = given /\ merged = <<>> /\ Untouched /\ box = NA
  /\ phase = "merge" => ~polar /\ (arcs # {} \/ merged # <<>>) /\ Untouched /\ box = NA
  /\ phase = "gaps" =>
       /\ ~polar /\ arcs = {} /\ merged # <<>> /\ box = NA
       /\ at \in 1..Len(merged) + 1 /\ Scanned(at - 1)
  /\ phase = "done" => NoBox \/ WholeTurn \/ Boxed

IInv == ArcsInv /\ ArcsAreSwept /\ MergeInv /\ PhaseInv

LEMMA ProperParts == ArcsInv => Proper(given \ arcs) /\ Proper(arcs)
BY DEF ArcsInv, Proper

LEMMA ArcLons ==
  ArcsInv => \A a \in given : Lons(a) \subseteq 0..Turn - 1
<1> SUFFICES ASSUME ArcsInv, NEW a \in given PROVE Lons(a) \subseteq 0..Turn - 1
  OBVIOUS
<1>1. a = Arc(a.start, a.end) /\ a.start \in Int /\ a.end \in Int
  BY ArcFields DEF ArcsInv
<1> QED
  BY <1>1, LonsRange

(* Nothing merged yet.                                                     *)
LEMMA NothingMerged == \A rest : IsMerge(<<>>, {}, rest)
<1>1. Len(<<>>) = 0 /\ 1..0 = {}
  OBVIOUS
<1> QED
  BY <1>1 DEF IsMerge, LieApart, MadeOf, HoldsSame, StartBefore

LEMMA InitIInv == Init => IInv
<1> SUFFICES ASSUME Init PROVE IInv
  OBVIOUS
<1> USE DEF Init
<1>1. ArcsInv
  BY DEF ArcsInv
<1>2. ArcsAreSwept
  BY DEF ArcsAreSwept
<1>3. MergeInv
  <2>1. given \ arcs = {} /\ merged \in Seq(ArcSet)
    OBVIOUS
  <2> QED
    BY <2>1, NothingMerged DEF MergeInv
<1>4. PhaseInv
  BY DEF PhaseInv, Untouched
<1> QED
  BY <1>1, <1>2, <1>3, <1>4 DEF IInv

(* One lemma per action.                                                   *)
LEMMA AddRingIInv ==
  ASSUME IInv, NEW ring \in Rings, AddRing(ring)
  PROVE  IInv'
<1>1. phase = "rings" /\ arcs = given /\ merged = <<>> /\ Untouched /\ box = NA
  BY DEF IInv, PhaseInv, AddRing
<1>2. UNCHANGED <<phase, merged, best, at, box>> /\ swept' = swept \cup Swept(ring)
  BY DEF AddRing
<1>3. CASE EncirclesPole(ring)
  <2>1. polar' = TRUE /\ arcs' = arcs /\ given' = given
    BY <1>3 DEF AddRing
  <2>2. ArcsInv'
    BY <2>1 DEF IInv, ArcsInv
  <2>3. ArcsAreSwept'
    <3>1. Swept(ring) = 0..Turn - 1
      BY <1>3, PolarRing
    <3>2. swept \subseteq 0..Turn - 1
      BY ArcLons DEF IInv, ArcsAreSwept
    <3>3. swept' = 0..Turn - 1
      BY <1>2, <3>1, <3>2
    <3> QED
      BY <2>1, <3>3 DEF ArcsAreSwept
  <2> QED
    BY <1>1, <1>2, <2>1, <2>2, <2>3 DEF IInv, MergeInv, PhaseInv, Untouched
<1>4. CASE ~EncirclesPole(ring)
  <2> DEFINE r == RingArc(ring)
  <2>1. polar' = polar /\ arcs' = arcs \cup {r} /\ given' = given \cup {r}
    BY <1>4 DEF AddRing
  <2>2. r \in ArcSet /\ r.start <= r.end /\ r.start \in -Half..Half - 1 /\ Lons(r) = Swept(ring)
    BY <1>4, OtherRing
  <2> HIDE DEF r
  <2>3. ArcsInv'
    BY <2>1, <2>2 DEF IInv, ArcsInv
  <2>4. ArcsAreSwept'
    <3>1. CASE polar
      <4>1. swept = 0..Turn - 1
        BY <3>1 DEF IInv, ArcsAreSwept
      <4>2. Lons(r) \subseteq 0..Turn - 1
        <5>1. r = Arc(r.start, r.end) /\ r.start \in Int /\ r.end \in Int
          BY <2>2, ArcFields
        <5> QED
          BY <5>1, LonsRange
      <4> QED
        BY <1>2, <2>1, <2>2, <3>1, <4>1, <4>2 DEF ArcsAreSwept
    <3>2. CASE ~polar
      <4>1. swept = UNION {Lons(a) : a \in given}
        BY <3>2 DEF IInv, ArcsAreSwept
      <4>2. swept' = UNION {Lons(a) : a \in given \cup {r}}
        BY <1>2, <2>2, <4>1
      <4> QED
        BY <2>1, <3>2, <4>2 DEF ArcsAreSwept
    <3> QED
      BY <3>1, <3>2
  <2>5. MergeInv'
    <3>1. given' \ arcs' = {} /\ merged' = <<>> /\ merged' \in Seq(ArcSet)
      BY <1>1, <1>2, <2>1
    <3> QED
      BY <3>1, NothingMerged DEF MergeInv
  <2>6. PhaseInv'
    BY <1>1, <1>2, <2>1 DEF PhaseInv, Untouched
  <2> QED
    BY <2>3, <2>4, <2>5, <2>6 DEF IInv
<1> QED
  BY <1>3, <1>4

LEMMA BeginUnionIInv == IInv /\ BeginUnion => IInv'
<1> SUFFICES ASSUME IInv, BeginUnion PROVE IInv'
  OBVIOUS
<1>1. phase = "rings" /\ arcs = given /\ merged = <<>> /\ Untouched /\ box = NA
  BY DEF IInv, PhaseInv, BeginUnion
<1>2. UNCHANGED <<arcs, polar, merged, best, at, given, swept>>
  BY DEF BeginUnion
<1>3. ArcsInv' /\ ArcsAreSwept' /\ MergeInv'
  BY <1>2 DEF IInv, ArcsInv, ArcsAreSwept, MergeInv
<1>4. PhaseInv'
  <2>1. CASE arcs = {} /\ ~polar
    <3>1. phase' = "done" /\ box' = NA
      BY <2>1 DEF BeginUnion
    <3>2. NoBox'
      BY <1>1, <1>2, <2>1, <3>1 DEF NoBox, Untouched
    <3> QED
      BY <3>1, <3>2 DEF PhaseInv
  <2>2. CASE ~(arcs = {} /\ ~polar) /\ (polar \/ \E a \in arcs : a.end - a.start >= Turn)
    <3>1. phase' = "done" /\ box' = World
      BY <2>2 DEF BeginUnion
    <3>2. WholeTurn'
      BY <1>1, <1>2, <2>2, <3>1 DEF WholeTurn, Untouched
    <3> QED
      BY <3>1, <3>2 DEF PhaseInv
  <2>3. CASE ~(arcs = {} /\ ~polar) /\ ~(polar \/ \E a \in arcs : a.end - a.start >= Turn)
    <3>1. phase' = "merge" /\ box' = box
      BY <2>3 DEF BeginUnion
    <3> QED
      BY <1>1, <1>2, <2>3, <3>1 DEF PhaseInv, Untouched
  <2> QED
    BY <2>1, <2>2, <2>3
<1> QED
  BY <1>3, <1>4 DEF IInv

LEMMA MergeNextIInv == IInv /\ MergeNext => IInv'
<1> SUFFICES ASSUME IInv, MergeNext PROVE IInv'
  OBVIOUS
<1>1. phase = "merge" /\ ~polar /\ Untouched /\ box = NA
  BY DEF IInv, PhaseInv, MergeNext
<1>2. UNCHANGED <<phase, polar, best, at, box, given, swept>>
  BY DEF MergeNext
<1>3. PICK a \in arcs :
        /\ \A b \in arcs : a.start <= b.start
        /\ arcs' = arcs \ {a}
        /\ merged' = IF merged # <<>> /\ a.start <= Last(merged).end
                     THEN [merged EXCEPT ![Len(merged)] = Extended(@, a)]
                     ELSE Append(merged, a)
  BY DEF MergeNext
<1>4. /\ merged \in Seq(ArcSet) /\ IsMerge(merged, given \ arcs, arcs)
      /\ Proper(given \ arcs) /\ Proper(arcs) /\ arcs \subseteq given
  BY ProperParts DEF IInv, MergeInv, ArcsInv
<1>5. given' \ arcs' = (given \ arcs) \cup {a}
  BY <1>2, <1>3, <1>4
<1>6. MergeInv'
  <2>1. CASE merged # <<>> /\ a.start <= Last(merged).end
    <3>1. merged' = [merged EXCEPT ![Len(merged)] = Extended(@, a)]
      BY <1>3, <2>1
    <3>2. merged' \in Seq(ArcSet) /\ IsMerge(merged', (given \ arcs) \cup {a}, arcs \ {a})
      BY <1>3, <1>4, <2>1, <3>1, MergeExtends
    <3> QED
      BY <1>3, <1>5, <3>2 DEF MergeInv
  <2>2. CASE ~(merged # <<>> /\ a.start <= Last(merged).end)
    <3>1. merged' = Append(merged, a)
      BY <1>3, <2>2
    <3>2. merged # <<>> => Last(merged).end < a.start
      <4> SUFFICES ASSUME merged # <<>> PROVE Last(merged).end < a.start
        OBVIOUS
      <4>1. Last(merged) \in ArcSet
        BY <1>4 DEF Last
      <4>2. Last(merged).end \in Int /\ a.start \in Int
        BY <1>4, <4>1, ArcFields DEF Proper
      <4> QED
        BY <2>2, <4>2
    <3>3. merged' \in Seq(ArcSet) /\ IsMerge(merged', (given \ arcs) \cup {a}, arcs \ {a})
      BY <1>3, <1>4, <3>1, <3>2, MergeAppends
    <3> QED
      BY <1>3, <1>5, <3>3 DEF MergeInv
  <2> QED
    BY <2>1, <2>2
<1>7. merged' # <<>>
  <2>1. a \in ArcSet
    BY <1>4 DEF Proper
  <2>2. Append(merged, a) # <<>>
    BY <1>4, <2>1
  <2>3. merged # <<>> => [merged EXCEPT ![Len(merged)] = Extended(@, a)] # <<>>
    <3> SUFFICES ASSUME merged # <<>> PROVE [merged EXCEPT ![Len(merged)] = Extended(@, a)] # <<>>
      OBVIOUS
    <3>1. 1 \in DOMAIN merged /\ DOMAIN [merged EXCEPT ![Len(merged)] = Extended(@, a)] = DOMAIN merged
      BY <1>4
    <3>2. DOMAIN <<>> = {}
      OBVIOUS
    <3> QED
      BY <3>1, <3>2
  <2> QED
    BY <1>3, <2>2, <2>3
<1>8. ArcsInv' /\ ArcsAreSwept'
  BY <1>2, <1>3 DEF IInv, ArcsInv, ArcsAreSwept
<1>9. PhaseInv'
  BY <1>1, <1>2, <1>7 DEF PhaseInv, Untouched
<1> QED
  BY <1>6, <1>8, <1>9 DEF IInv

LEMMA MergedIInv == IInv /\ Merged => IInv'
<1> SUFFICES ASSUME IInv, Merged PROVE IInv'
  OBVIOUS
<1>1. phase = "merge" /\ ~polar /\ arcs = {} /\ merged # <<>> /\ Untouched /\ box = NA
  BY DEF IInv, PhaseInv, Merged
<1>2. phase' = "gaps" /\ UNCHANGED <<arcs, polar, merged, best, at, box, given, swept>>
  BY DEF Merged
<1>3. ArcsInv' /\ ArcsAreSwept' /\ MergeInv'
  BY <1>2 DEF IInv, ArcsInv, ArcsAreSwept, MergeInv
<1>4. merged \in Seq(ArcSet)
  BY DEF IInv, MergeInv
<1>5. at = 1 /\ 1 \in 1..Len(merged) + 1 /\ at - 1 = 0 /\ best = 0
  BY <1>1, <1>4 DEF Untouched
<1>6. PhaseInv'
  BY <1>1, <1>2, <1>5 DEF PhaseInv, Scanned
<1> QED
  BY <1>3, <1>6 DEF IInv

LEMMA GapType ==
  IInv => \A i \in 1..Len(merged) : NextStart(i) \in Int /\ Gap(i) \in Int
<1> SUFFICES ASSUME IInv, NEW i \in 1..Len(merged) PROVE NextStart(i) \in Int /\ Gap(i) \in Int
  OBVIOUS
<1> DEFINE n == Len(merged)
<1>1. merged \in Seq(ArcSet)
  BY DEF IInv, MergeInv
<1>2. n \in Nat /\ \A j \in 1..n : merged[j] \in ArcSet
  BY <1>1
<1>3. \A j \in 1..n : merged[j].start \in Int /\ merged[j].end \in Int
  BY <1>2, ArcFields
<1> HIDE DEF n
<1>4. i \in 1..n /\ n = Len(merged)
  BY DEF n
<1>5. 1 \in 1..n /\ (i < n => i + 1 \in 1..n)
  BY <1>2, <1>4
<1>6. NextStart(i) \in Int
  BY <1>3, <1>4, <1>5, TurnType DEF NextStart
<1> QED
  BY <1>3, <1>4, <1>6 DEF Gap

LEMMA ScanGapIInv == IInv /\ ScanGap => IInv'
<1> SUFFICES ASSUME IInv, ScanGap PROVE IInv'
  OBVIOUS
<1>1. /\ phase = "gaps" /\ ~polar /\ arcs = {} /\ merged # <<>> /\ box = NA
      /\ at \in 1..Len(merged) + 1 /\ Scanned(at - 1) /\ at <= Len(merged)
  BY DEF IInv, PhaseInv, ScanGap
<1>2. /\ best' = IF best = 0 THEN at ELSE IF Gap(at) > Gap(best) THEN at ELSE best
      /\ at' = at + 1 /\ UNCHANGED <<phase, arcs, polar, merged, box, given, swept>>
  BY DEF ScanGap
<1>3. ArcsInv' /\ ArcsAreSwept' /\ MergeInv'
  BY <1>2 DEF IInv, ArcsInv, ArcsAreSwept, MergeInv
<1>4. Len(merged) \in Nat /\ at \in 1..Len(merged) /\ at \in Nat \ {0}
  <2>1. Len(merged) \in Nat
    BY DEF IInv, MergeInv
  <2> QED
    BY <1>1, <2>1
<1>5. best' \in 1..at /\ \A j \in 1..at : Gap(j) <= Gap(best')
  <2>1. 1..at - 1 \subseteq 1..Len(merged) /\ \A j \in 1..at : j \in 1..at - 1 \/ j = at
    BY <1>4
  <2>2. \A j \in 1..at : Gap(j) \in Int
    BY <1>4, GapType
  <2>3. CASE best = 0
    <3>1. at - 1 = 0
      BY <1>1, <1>4, <2>3 DEF Scanned
    <3>2. at = 1 /\ best' = 1 /\ 1..at = {1}
      BY <1>2, <1>4, <2>3, <3>1
    <3> QED
      BY <2>2, <3>2
  <2>4. CASE best # 0
    <3>1. best \in 1..at - 1 /\ \A j \in 1..at - 1 : Gap(j) <= Gap(best)
      BY <1>1, <2>4 DEF Scanned
    <3>2. best' = IF Gap(at) > Gap(best) THEN at ELSE best
      BY <1>2, <2>4
    <3>3. best \in 1..at /\ at \in 1..at
      BY <1>4, <3>1
    <3>4. CASE Gap(at) > Gap(best)
      BY <2>1, <2>2, <3>1, <3>2, <3>3, <3>4
    <3>5. CASE ~(Gap(at) > Gap(best))
      BY <2>1, <2>2, <3>1, <3>2, <3>3, <3>5
    <3> QED
      BY <3>4, <3>5
  <2> QED
    BY <2>3, <2>4
<1>6. \A j : Gap(j)' = Gap(j)
  BY <1>2 DEF Gap, NextStart
<1>7. at' \in 1..Len(merged)' + 1 /\ at' - 1 = at /\ at # 0
  BY <1>2, <1>4
<1>8. Scanned(at - 1)'
  <2>1. Gap(best)' = (IF best' < Len(merged) THEN merged[best' + 1].start ELSE merged[1].start + Turn)
                       - merged[best'].end
    BY <1>2 DEF Gap, NextStart
  <2>2. Gap(best') = (IF best' < Len(merged) THEN merged[best' + 1].start ELSE merged[1].start + Turn)
                       - merged[best'].end
    BY DEF Gap, NextStart
  <2>3. \A j \in 1..at : Gap(j)' <= Gap(best)'
    BY <1>5, <1>6, <2>1, <2>2
  <2> QED
    BY <1>5, <1>7, <2>3 DEF Scanned
<1>9. PhaseInv'
  BY <1>1, <1>2, <1>7, <1>8 DEF PhaseInv
<1> QED
  BY <1>3, <1>9 DEF IInv

LEMMA CloseIInv == IInv /\ Close => IInv'
<1> SUFFICES ASSUME IInv, Close PROVE IInv'
  OBVIOUS
<1>1. /\ phase = "gaps" /\ ~polar /\ arcs = {} /\ merged # <<>>
      /\ at \in 1..Len(merged) + 1 /\ Scanned(at - 1) /\ at > Len(merged)
  BY DEF IInv, PhaseInv, Close
<1>2. /\ phase' = "done" /\ UNCHANGED <<arcs, polar, merged, best, at, given, swept>>
      /\ box' = IF Gap(best) <= 0 THEN World ELSE BoxAround(best)
  BY DEF Close
<1>3. ArcsInv' /\ ArcsAreSwept' /\ MergeInv'
  BY <1>2 DEF IInv, ArcsInv, ArcsAreSwept, MergeInv
<1>4. Len(merged) \in Nat
  BY DEF IInv, MergeInv
<1>5. at = Len(merged) + 1 /\ at - 1 = Len(merged)
  BY <1>1, <1>4
<1>6. (\A j : Gap(j)' = Gap(j)) /\ Gap(best)' = Gap(best) /\ BoxAround(best)' = BoxAround(best)
  BY <1>2 DEF Gap, NextStart, BoxAround
<1>7. Boxed'
  <2>1. Scanned(Len(merged))
    BY <1>1, <1>5
  <2>2. Scanned(Len(merged))'
    BY <1>2, <1>6, <2>1 DEF Scanned
  <2> QED
    BY <1>1, <1>2, <1>5, <1>6, <2>2 DEF Boxed
<1>8. PhaseInv'
  BY <1>2, <1>7 DEF PhaseInv
<1> QED
  BY <1>3, <1>8 DEF IInv

LEMMA NextIInv == IInv /\ [Next]_vars => IInv'
<1> SUFFICES ASSUME IInv, [Next]_vars PROVE IInv'
  OBVIOUS
<1>1. CASE \E ring \in Rings : AddRing(ring)
  BY <1>1, AddRingIInv
<1>2. CASE BeginUnion
  BY <1>2, BeginUnionIInv
<1>3. CASE MergeNext
  BY <1>3, MergeNextIInv
<1>4. CASE Merged
  BY <1>4, MergedIInv
<1>5. CASE ScanGap
  BY <1>5, ScanGapIInv
<1>6. CASE Close
  BY <1>6, CloseIInv
<1>7. CASE UNCHANGED vars
  BY <1>7 DEF vars, IInv, ArcsInv, ArcsAreSwept, MergeInv, PhaseInv, NoBox, WholeTurn, Boxed,
              Scanned, Untouched, Gap, NextStart, BoxAround
<1> QED
  BY <1>1, <1>2, <1>3, <1>4, <1>5, <1>6, <1>7 DEF Next

THEOREM Invariant == Spec => []IInv
<1>1. Init => IInv
  BY InitIInv
<1>2. IInv /\ [Next]_vars => IInv'
  BY NextIInv
<1> QED
  BY <1>1, <1>2, PTL DEF Spec

-----------------------------------------------------------------------------
(* What the invariant says of the merged arcs and of the box.              *)

LEMMA MergedFacts ==
  ASSUME IInv
  PROVE  /\ Len(merged) \in Nat
         /\ \A i \in 1..Len(merged) :
              /\ merged[i] \in ArcSet /\ merged[i].start \in Int /\ merged[i].end \in Int
              /\ merged[i].start <= merged[i].end
              /\ merged[i].start \in -Half..Half - 1
         /\ \A i, j \in 1..Len(merged) :
              i <= j => merged[i].start <= merged[j].start /\ merged[i].end <= merged[j].end
<1> DEFINE n == Len(merged)
<1>1. merged \in Seq(ArcSet) /\ LieApart(merged) /\ MadeOf(merged, given \ arcs)
  BY DEF IInv, MergeInv, IsMerge
<1>2. n \in Nat /\ \A i \in 1..n : merged[i] \in ArcSet
  BY <1>1
<1>3. \A i \in 1..n : merged[i].start \in Int /\ merged[i].end \in Int /\ merged[i].start <= merged[i].end
  BY <1>1, <1>2, ArcFields DEF LieApart
<1>4. \A i \in 1..n : merged[i].start \in -Half..Half - 1
  BY <1>1 DEF MadeOf, IInv, ArcsInv
<1>5. \A i, j \in 1..n : i < j => merged[i].end < merged[j].start
  BY <1>1 DEF LieApart
<1> HIDE DEF n
<1>6. \A i, j \in 1..n : i <= j => merged[i].start <= merged[j].start /\ merged[i].end <= merged[j].end
  <2> TAKE i, j \in 1..n
  <2> HAVE i <= j
  <2>1. i < j \/ i = j
    BY <1>2
  <2> QED
    BY <1>3, <1>5, <2>1
<1> QED
  BY <1>2, <1>3, <1>4, <1>6 DEF n

BoxStart == IF best < Len(merged) THEN merged[best + 1].start ELSE merged[1].start
BoxEnd == IF best < Len(merged) THEN merged[best].end + Turn ELSE merged[best].end

(* The box leaves out the gap, and the end is brought round at most once.  *)
LEMMA BoxForm ==
  ASSUME IInv, Boxed
  PROVE  /\ best \in 1..Len(merged)
         /\ BoxStart \in Int /\ BoxEnd \in Int /\ BoxStart <= BoxEnd
         /\ BoxEnd - BoxStart = Turn - Gap(best)
         /\ BoxAround(best) = Arc(BoxStart, BoxEnd)
<1> DEFINE n == Len(merged)
           short == BoxStart - merged[best].end
           k == (short + Turn - 1) \div Turn
<1>1. n \in Nat /\ n # 0 /\ best \in 1..n
  <2>1. merged # <<>> /\ Scanned(n) /\ merged \in Seq(ArcSet)
    BY DEF Boxed, IInv, MergeInv
  <2> HIDE DEF n
  <2>2. n \in Nat /\ n # 0
    BY <2>1 DEF n
  <2> QED
    BY <2>1, <2>2 DEF Scanned
<1>2. \A i \in 1..n :
        /\ merged[i].start \in Int /\ merged[i].end \in Int
        /\ merged[i].start <= merged[i].end
        /\ merged[i].start \in -Half..Half - 1
  BY MergedFacts
<1>3. \A i, j \in 1..n : i < j => merged[i].end < merged[j].start
  BY DEF IInv, MergeInv, IsMerge, LieApart
<1>4. 1 \in 1..n /\ (best < n => best + 1 \in 1..n /\ best < best + 1)
  BY <1>1
<1>5. Gap(best) = (IF best < n THEN merged[best + 1].start ELSE merged[1].start + Turn) - merged[best].end
  BY DEF Gap, NextStart
<1>6. BoxAround(best) = Arc(BoxStart, IF short > 0 THEN merged[best].end + Turn * k ELSE merged[best].end)
  BY DEF BoxAround, BoxStart
<1>7. \/ /\ k \in Int
         /\ short + Turn - 1 \in Int =>
              /\ short + Turn - 1 = k * Turn + ((short + Turn - 1) % Turn)
              /\ (short + Turn - 1) % Turn \in 0..Turn - 1
      \/ short + Turn - 1 \notin Int
  BY Division
<1>8. BoxStart = IF best < n THEN merged[best + 1].start ELSE merged[1].start
  BY DEF BoxStart
<1>9. BoxEnd = IF best < n THEN merged[best].end + Turn ELSE merged[best].end
  BY DEF BoxEnd
<1> HIDE DEF n, k
<1>10. CASE best < n
  <2>1. short \in 1..Turn - 1
    BY <1>1, <1>2, <1>3, <1>4, <1>8, <1>10, TurnType
  <2>2. short + Turn - 1 \in Int
    BY <2>1, TurnType
  <2> DEFINE x == k * Turn
             r == (short + Turn - 1) % Turn
  <2>3. k \in Int /\ x \in Int /\ r \in 0..Turn - 1 /\ short + Turn - 1 = x + r
    BY <1>7, <2>2, SumsOfTurns
  <2>4. k - 1 \in Int /\ (k - 1) * Turn = x - Turn
    BY <2>3, SumsOfTurns
  <2>5. Turn * k = x
    BY <2>3, TurnType
  <2> HIDE DEF x, r, short
  <2>6. -Turn < x - Turn /\ x - Turn < Turn
    BY <2>1, <2>3, TurnType
  <2>7. k - 1 = 0
    BY <2>4, <2>6, NoMultiple
  <2>8. x = Turn
    <3>1. k = 1
      BY <2>3, <2>7
    <3> QED
      BY <3>1, SumsOfTurns DEF x
  <2>9. BoxAround(best) = Arc(BoxStart, merged[best].end + Turn)
    BY <1>6, <2>1, <2>5, <2>8
  <2>10. BoxStart \in Int /\ BoxEnd \in Int /\ BoxStart <= BoxEnd
    BY <1>1, <1>2, <1>4, <1>8, <1>9, <1>10, TurnType
  <2>11. BoxEnd - BoxStart = Turn - Gap(best)
    BY <1>1, <1>2, <1>4, <1>5, <1>8, <1>9, <1>10, TurnType
  <2> QED
    BY <1>1, <1>9, <1>10, <2>9, <2>10, <2>11 DEF n
<1>11. CASE ~(best < n)
  <2>1. best = n
    BY <1>1, <1>11
  <2>2. merged[1].start <= merged[best].end
    <3>1. 1 = n \/ 1 < n
      BY <1>1
    <3> QED
      BY <1>1, <1>2, <1>3, <1>4, <2>1, <3>1
  <2>3. BoxStart = merged[1].start /\ BoxEnd = merged[best].end
    BY <1>8, <1>9, <1>11
  <2>4. ~(short > 0)
    BY <1>1, <1>2, <1>4, <2>2, <2>3
  <2> HIDE DEF short
  <2>5. BoxAround(best) = Arc(BoxStart, merged[best].end)
    BY <1>6, <2>4
  <2>6. BoxStart \in Int /\ BoxEnd \in Int /\ BoxStart <= BoxEnd
    BY <1>1, <1>2, <1>4, <2>2, <2>3
  <2>7. BoxEnd - BoxStart = Turn - Gap(best)
    BY <1>1, <1>2, <1>4, <1>5, <1>11, <2>3, TurnType
  <2> QED
    BY <1>1, <2>3, <2>5, <2>6, <2>7 DEF n
<1> QED
  BY <1>10, <1>11

-----------------------------------------------------------------------------
(* The properties.                                                         *)

(* The type invariant; an arc starts in [-180, 180) (bbox.rs:107).         *)
THEOREM Typing == Spec => []TypeOK
<1>1. IInv => TypeOK
  <2> SUFFICES ASSUME IInv PROVE TypeOK
    OBVIOUS
  <2>1. \A a \in ArcSet : a = Arc(a.start, a.end)
    BY ArcFields
  <2>2. \A a \in given : IsArc(a) /\ a.start \in -Half..Half - 1
    BY <2>1 DEF IInv, ArcsInv, IsArc
  <2>3. merged \in Seq(ArcSet)
    BY DEF IInv, MergeInv
  <2>4. DOMAIN merged = 1..Len(merged) /\ Len(merged) \in Nat
    BY <2>3
  <2>5. \A i \in DOMAIN merged : IsArc(merged[i])
    <3> TAKE i \in DOMAIN merged
    <3>1. merged[i] \in ArcSet /\ merged[i].start <= merged[i].end
      BY <2>4, MergedFacts
    <3> QED
      BY <2>1, <3>1 DEF IsArc
  <2>6. best \in 0..Len(merged) /\ at \in 1..Len(merged) + 1
    <3>1. CASE Untouched
      BY <2>4, <3>1 DEF Untouched
    <3>2. CASE phase = "gaps"
      <4>1. at \in 1..Len(merged) + 1 /\ Scanned(at - 1)
        BY <3>2 DEF IInv, PhaseInv
      <4> QED
        BY <2>4, <4>1 DEF Scanned
    <3>3. CASE Boxed
      <4>1. at = Len(merged) + 1 /\ best \in 1..Len(merged)
        BY <3>3, BoxForm DEF Boxed
      <4> QED
        BY <2>4, <4>1
    <3> QED
      BY <3>1, <3>2, <3>3 DEF IInv, PhaseInv, NoBox, WholeTurn
  <2>7. box \in {NA, World} \/ IsArc(box)
    <3>1. CASE Boxed
      <4>1. box = World \/ box = BoxAround(best)
        BY <3>1 DEF Boxed
      <4>2. BoxAround(best) = Arc(BoxStart, BoxEnd) /\ BoxStart \in Int /\ BoxEnd \in Int /\ BoxStart <= BoxEnd
        BY <3>1, BoxForm
      <4>3. IsArc(BoxAround(best))
        BY <4>2, ArcFields DEF IsArc
      <4> QED
        BY <4>1, <4>3
    <3>2. CASE ~Boxed
      BY <3>2 DEF IInv, PhaseInv, NoBox, WholeTurn
    <3> QED
      BY <3>1, <3>2
  <2> QED
    BY <2>2, <2>5, <2>6, <2>7 DEF TypeOK, IInv, ArcsInv, PhaseInv
<1> QED
  BY <1>1, Invariant, PTL

(* An arc holds the longitudes under its ring's edges and no others,       *)
(* however the ring goes (bbox.rs ring_bounds).                            *)
THEOREM ArcsExact == Spec => []ArcsAreSwept
<1>1. IInv => ArcsAreSwept
  BY DEF IInv
<1> QED
  BY <1>1, Invariant, PTL

(* Merging keeps what the arcs hold, apart and from west to east           *)
(* (bbox.rs union_arcs).                                                   *)
THEOREM MergingExact == Spec => []MergedIsUnion
<1>1. IInv => MergedIsUnion
  <2> SUFFICES ASSUME IInv PROVE MergedIsUnion
    OBVIOUS
  <2>1. merged \in Seq(ArcSet) /\ LieApart(merged) /\ HoldsSame(merged, given \ arcs)
    BY DEF IInv, MergeInv, IsMerge
  <2>2. DOMAIN merged = 1..Len(merged)
    BY <2>1
  <2>3. \A i, j \in DOMAIN merged : i < j => merged[i].end < merged[j].start
    BY <2>1, <2>2 DEF LieApart
  <2> DEFINE held == UNION {a.start..a.end : a \in {merged[i] : i \in DOMAIN merged}}
             holding == UNION {a.start..a.end : a \in given \ arcs}
  <2>4. \A p \in Int : p \in held <=> \E i \in 1..Len(merged) : IsBetween(merged[i], p)
    <3>1. \A i \in 1..Len(merged) : merged[i].start \in Int /\ merged[i].end \in Int
      BY MergedFacts
    <3> QED
      BY <2>2, <3>1 DEF IsBetween
  <2>5. \A p \in Int : p \in holding <=> \E a \in given \ arcs : IsBetween(a, p)
    <3>1. \A a \in given : a.start \in Int /\ a.end \in Int
      BY ArcFields DEF IInv, ArcsInv
    <3> QED
      BY <3>1 DEF IsBetween
  <2>6. held \subseteq Int /\ holding \subseteq Int
    OBVIOUS
  <2>7. held = holding
    <3> HIDE DEF held, holding
    <3>1. \A p \in Int : p \in held <=> p \in holding
      BY <2>1, <2>4, <2>5 DEF HoldsSame
    <3> QED
      BY <2>6, <3>1
  <2>8. merged = <<>> => held = {}
    BY <2>2
  <2>9. phase = "rings" => merged = <<>>
    BY DEF IInv, PhaseInv
  <2>10. held = IF phase = "rings" \/ merged = <<>> THEN {} ELSE holding
    <3> HIDE DEF held, holding
    <3> QED
      BY <2>7, <2>8, <2>9
  <2> QED
    BY <2>3, <2>10 DEF MergedIsUnion
<1> QED
  BY <1>1, Invariant, PTL

LEMMA GivenLons ==
  ASSUME IInv, NEW a \in given
  PROVE  Lons(a) = {p % Turn : p \in {p \in Int : IsBetween(a, p)}}
<1>1. a = Arc(a.start, a.end) /\ a.start \in Int /\ a.end \in Int
  BY ArcFields DEF IInv, ArcsInv
<1> QED
  BY <1>1 DEF Lons, IsBetween

(* Once the arcs are merged, a longitude is under the rings exactly if     *)
(* some merged arc passes it.                                              *)
LEMMA SweptIsMerged ==
  ASSUME IInv, Boxed
  PROVE  /\ \A l \in swept : \E i \in 1..Len(merged) : \E p \in Int :
              IsBetween(merged[i], p) /\ l = p % Turn
         /\ \A i \in 1..Len(merged), p \in Int : IsBetween(merged[i], p) => p % Turn \in swept
<1>1. given \ arcs = given /\ ~polar
  BY DEF Boxed
<1>2. \A p \in Int : (\E i \in 1..Len(merged) : IsBetween(merged[i], p)) <=> (\E a \in given : IsBetween(a, p))
  BY <1>1 DEF IInv, MergeInv, IsMerge, HoldsSame
<1>3. swept = UNION {Lons(a) : a \in given}
  BY <1>1 DEF IInv, ArcsAreSwept
<1>4. ASSUME NEW l \in swept
      PROVE  \E i \in 1..Len(merged) : \E p \in Int : IsBetween(merged[i], p) /\ l = p % Turn
  <2>1. PICK a \in given : l \in Lons(a)
    BY <1>3
  <2>2. PICK p \in Int : IsBetween(a, p) /\ l = p % Turn
    BY <2>1, GivenLons
  <2> QED
    BY <1>2, <2>2
<1>5. ASSUME NEW i \in 1..Len(merged), NEW p \in Int, IsBetween(merged[i], p) PROVE p % Turn \in swept
  <2>1. PICK a \in given : IsBetween(a, p)
    BY <1>2, <1>5
  <2>2. p % Turn \in Lons(a)
    BY <2>1, GivenLons
  <2> QED
    BY <1>3, <2>2
<1> QED
  BY <1>4, <1>5

LEMMA OneTurnOn == \A p \in Int : p + Turn \in Int /\ (p + Turn) % Turn = p % Turn
<1> TAKE p \in Int
<1>1. p + Turn \in Int /\ p + Turn = p + 1 * Turn
  BY TurnType, SumsOfTurns
<1>2. SameLon(p + Turn, p)
  BY <1>1 DEF SameLon
<1> QED
  BY <1>1, <1>2, Remainders

(* No merged arc reaches past the start of another, one turn on.           *)
LEMMA MergedNoLapping ==
  ASSUME IInv, NoLapping
  PROVE  \A i, j \in 1..Len(merged) : merged[i].end <= merged[j].start + Turn
BY DEF IInv, MergeInv, IsMerge, MadeOf, NoLapping

(* The box contains what the rings' edges pass, if no part goes round past *)
(* the start of another (R/regions.R:599-602).                             *)
THEOREM BoxCovering == Spec => []BoxCoversApart
<1>1. IInv => BoxCoversApart
  <2> SUFFICES ASSUME IInv, NoLapping, phase = "done", NEW l \in swept PROVE l \in BoxLons
    BY DEF BoxCoversApart, BoxCovers
  <2>1. CASE NoBox
    BY <2>1 DEF NoBox, IInv, ArcsAreSwept
  <2>2. CASE box = World
    <3>1. swept \subseteq 0..Turn - 1
      BY ArcLons DEF IInv, ArcsAreSwept
    <3> QED
      BY <2>2, <3>1 DEF BoxLons
  <2>3. CASE Boxed /\ box # World
    <3> DEFINE n == Len(merged)
    <3>1. /\ box = Arc(BoxStart, BoxEnd) /\ BoxStart \in Int /\ BoxEnd \in Int
          /\ best \in 1..n
      BY <2>3, BoxForm DEF Boxed
    <3>2. box # NA
      BY <3>1, BoxAssumption, ArcFields DEF ArcSet
    <3>3. PICK i \in 1..n : \E p \in Int : IsBetween(merged[i], p) /\ l = p % Turn
      BY <2>3, SweptIsMerged
    <3>4. PICK p \in Int : merged[i].start <= p /\ p <= merged[i].end /\ l = p % Turn
      BY <3>3 DEF IsBetween
    <3>5. n \in Nat /\ \A j \in 1..n : /\ merged[j].start \in Int /\ merged[j].end \in Int
                                      /\ merged[j].start <= merged[j].end
                                      /\ merged[j].start \in -Half..Half - 1
      BY MergedFacts
    <3>6. \A j, k \in 1..n :
            /\ j <= k => merged[j].start <= merged[k].start /\ merged[j].end <= merged[k].end
            /\ merged[j].end <= merged[k].start + Turn
      BY MergedFacts, MergedNoLapping
    <3>7. BoxStart = (IF best < n THEN merged[best + 1].start ELSE merged[1].start)
          /\ BoxEnd = (IF best < n THEN merged[best].end + Turn ELSE merged[best].end)
      BY DEF BoxStart, BoxEnd
    <3>8. BoxLons = Lons(Arc(BoxStart, BoxEnd))
      BY <2>3, <3>1, <3>2 DEF BoxLons
    <3> HIDE DEF n
    <3>9. 1 \in 1..n /\ (best < n => best + 1 \in 1..n)
      BY <3>1, <3>5
    <3>10. p \in BoxStart..BoxEnd \/ p + Turn \in BoxStart..BoxEnd
      <4>1. CASE best < n /\ i > best
        <5>1. BoxStart <= merged[i].start
          BY <3>1, <3>5, <3>6, <3>7, <3>9, <4>1
        <5>2. merged[i].end <= merged[best].start + Turn /\ merged[best].start <= merged[best].end
          BY <3>1, <3>5, <3>6
        <5>3. p \in BoxStart..BoxEnd
          BY <3>1, <3>4, <3>5, <3>7, <4>1, <5>1, <5>2, TurnType
        <5> QED
          BY <5>3
      <4>2. CASE best < n /\ i <= best
        <5>1. BoxStart \in -Half..Half - 1 /\ merged[i].start \in -Half..Half - 1
          BY <3>5, <3>7, <3>9, <4>2
        <5>2. merged[i].end <= merged[best].end
          BY <3>1, <3>6, <4>2
        <5>3. p + Turn \in BoxStart..BoxEnd
          BY <3>1, <3>4, <3>5, <3>7, <4>2, <5>1, <5>2, TurnType
        <5> QED
          BY <5>3
      <4>3. CASE ~(best < n)
        <5>1. best = n /\ 1 <= i /\ i <= best
          BY <3>1, <3>5, <4>3
        <5>2. merged[1].start <= merged[i].start /\ merged[i].end <= merged[best].end
          BY <3>1, <3>6, <3>9, <5>1
        <5>3. p \in BoxStart..BoxEnd
          BY <3>1, <3>4, <3>5, <3>7, <3>9, <4>3, <5>2
        <5> QED
          BY <5>3
      <4> QED
        BY <3>1, <3>5, <4>1, <4>2, <4>3
    <3>11. l = (p + Turn) % Turn /\ l = p % Turn
      BY <3>4, OneTurnOn
    <3>12. \E q \in BoxStart..BoxEnd : l = q % Turn
      BY <3>10, <3>11
    <3> QED
      BY <3>1, <3>8, <3>12, ArcFields DEF Lons
  <2> QED
    BY <2>1, <2>2, <2>3 DEF IInv, PhaseInv, WholeTurn
<1> QED
  BY <1>1, Invariant, PTL

(* An arc leaves out every longitude after its end and before its start,   *)
(* one turn on.                                                            *)
LEMMA OutsideArc ==
  \A s, w, x \in Int : s + w < x /\ x < s + Turn => x % Turn \notin Lons(Arc(s, s + w))
<1> SUFFICES ASSUME NEW s \in Int, NEW w \in Int, NEW x \in Int, s + w < x, x < s + Turn,
                    x % Turn \in Lons(Arc(s, s + w))
             PROVE  FALSE
  OBVIOUS
<1>1. s + w \in Int
  OBVIOUS
<1>2. PICK p \in s..s + w : x % Turn = p % Turn
  BY <1>1, ArcFields DEF Lons
<1>3. SameLon(x, p)
  BY <1>2, Remainders
<1>4. PICK k \in Int : x = p + k * Turn
  BY <1>3 DEF SameLon
<1> DEFINE y == k * Turn
<1>5. y \in Int /\ x = p + y
  BY <1>4, SumsOfTurns
<1>6. y = k * Turn
  OBVIOUS
<1> HIDE DEF y
<1>7. 0 < y /\ y < Turn
  BY <1>2, <1>5, TurnType
<1>8. k = 0
  BY <1>5, <1>6, <1>7, NoMultiple, TurnType
<1>9. y = 0
  BY <1>6, <1>8, SumsOfTurns
<1> QED
  BY <1>7, <1>9

(* If an arc of width w holds all that was swept, some gap is as wide as   *)
(* what the arc leaves out: the first longitude after the arc lies behind  *)
(* the first merged arc, and so, were all gaps narrower, behind each.      *)
LEMMA WideGap ==
  ASSUME IInv, Boxed, NEW s \in Int, NEW w \in 0..Turn - 2, swept \subseteq Lons(Arc(s, s + w))
  PROVE  \E i \in 1..Len(merged) : Gap(i) >= Turn - w
<1> SUFFICES ASSUME \A i \in 1..Len(merged) : ~(Gap(i) >= Turn - w) PROVE FALSE
  OBVIOUS
<1> DEFINE n == Len(merged)
           q == merged[1].start + ((s + w + 1 - merged[1].start) % Turn)
           Free(x) == x % Turn \notin swept
<1>1. /\ n \in Nat
      /\ \A i \in 1..n : /\ merged[i].start \in Int /\ merged[i].end \in Int
                         /\ merged[i].start <= merged[i].end
  BY MergedFacts
<1>2. n # 0 /\ 1 \in 1..n /\ n \in 1..n
  <2>1. best \in 1..n
    BY BoxForm
  <2> QED
    BY <1>1, <2>1
<1>3. \A i \in 1..n : Gap(i) \in Int /\ Gap(i) <= Turn - w - 1
  <2>1. \A i \in 1..n : Gap(i) \in Int
    BY GapType
  <2> QED
    BY <2>1, TurnType
<1>4. \A i \in 1..n :
        Gap(i) = (IF i < n THEN merged[i + 1].start ELSE merged[1].start + Turn) - merged[i].end
  BY DEF Gap, NextStart
<1>5. \A i \in 1..n, x \in Int : merged[i].start <= x /\ x <= merged[i].end => x % Turn \in swept
  BY SweptIsMerged DEF IsBetween
<1> HIDE DEF n
<1>6. q \in Int /\ merged[1].start <= q /\ q < merged[1].start + Turn /\ SameLon(q, s + w + 1)
  <2> DEFINE t == merged[1].start
             d == s + w + 1 - t
  <2>1. t \in Int /\ d \in Int /\ q = t + (d % Turn)
    BY <1>1, <1>2
  <2>2. d % Turn \in 0..Turn - 1 /\ d \div Turn \in Int /\ d = (d \div Turn) * Turn + (d % Turn)
    BY <2>1, Division
  <2> DEFINE r == d % Turn
             y == (d \div Turn) * Turn
  <2>3. r \in 0..Turn - 1 /\ y \in Int /\ s + w + 1 - t = y + r /\ q = t + r
    BY <2>1, <2>2, SumsOfTurns
  <2>4. y = (d \div Turn) * Turn /\ t = merged[1].start
    OBVIOUS
  <2> HIDE DEF q, r, y, t
  <2>5. s + w + 1 = q + y
    BY <2>1, <2>3
  <2>6. SameLon(s + w + 1, q)
    BY <2>2, <2>4, <2>5 DEF SameLon
  <2>7. q \in Int /\ t <= q /\ q < t + Turn
    BY <2>1, <2>3, TurnType
  <2> QED
    BY <2>4, <2>6, <2>7, SameLonBothWays
<1> HIDE DEF q
<1>7. \A x \in Int : q <= x /\ x <= q + (Turn - w - 2) => x % Turn \notin swept
  <2> SUFFICES ASSUME NEW x \in Int, q <= x, x <= q + (Turn - w - 2) PROVE x % Turn \notin swept
    OBVIOUS
  <2> DEFINE z == (s + w + 1) + (x - q)
  <2>1. z \in Int /\ s + w < z /\ z < s + Turn /\ x - q \in Int /\ q + (x - q) = x
    BY <1>6, TurnType
  <2>2. SameLon(x - q, x - q)
    <3>1. x - q = (x - q) + 0 * Turn
      BY <2>1, SumsOfTurns
    <3> QED
      BY <3>1 DEF SameLon
  <2>3. SameLon(x, z)
    <3>1. s + w + 1 \in Int
      BY TurnType
    <3>2. SameLon(q + (x - q), (s + w + 1) + (x - q))
      BY <1>6, <2>1, <2>2, <3>1, SameLonSum
    <3> QED
      BY <2>1, <3>2
  <2> HIDE DEF z
  <2>4. x % Turn = z % Turn
    BY <2>1, <2>3, Remainders
  <2>5. z % Turn \notin Lons(Arc(s, s + w))
    <3>1. s \in Int /\ w \in Int /\ z \in Int
      BY <2>1, TurnType
    <3> QED
      BY <2>1, <3>1, OutsideArc, Zenon
  <2> QED
    BY <2>4, <2>5
<1> DEFINE S == {i \in Int : merged[i].end < q}
<1>8. \A i \in 1..n : merged[i].start <= q => merged[i].end < q
  <2> TAKE i \in 1..n
  <2> HAVE merged[i].start <= q
  <2>1. q % Turn \notin swept
    BY <1>6, <1>7, TurnType
  <2> QED
    BY <1>1, <1>5, <1>6, <2>1
<1>9. 1 \in S
  BY <1>2, <1>6, <1>8
<1>10. ASSUME NEW i \in 1..n - 1, i \in S PROVE i + 1 \in S
  <2>1. i \in 1..n /\ i + 1 \in 1..n /\ i < n /\ merged[i].end < q
    BY <1>1, <1>10
  <2>2. merged[i + 1].start - merged[i].end <= Turn - w - 1
    BY <1>3, <1>4, <2>1
  <2>3. merged[i + 1].start <= q + (Turn - w - 2)
    BY <1>1, <1>6, <2>1, <2>2, TurnType
  <2>4. merged[i + 1].start % Turn \in swept
    <3>1. merged[i + 1].start \in Int /\ merged[i + 1].start <= merged[i + 1].end
      BY <1>1, <2>1
    <3> QED
      BY <1>5, <2>1, <3>1
  <2>5. merged[i + 1].start < q
    BY <1>1, <1>6, <1>7, <2>1, <2>3, <2>4
  <2> QED
    BY <1>1, <1>6, <1>8, <2>1, <2>5
<1> HIDE DEF S
<1>11. \A i \in 1..n : i \in S
  <2>1. 1 \in Int /\ n \in Int /\ \A i \in 1..n - 1 : i \in S => i + 1 \in S
    BY <1>1, <1>10
  <2> QED
    BY <1>9, <2>1, Upwards, Zenon
<1>12. merged[n].end < q
  BY <1>2, <1>11 DEF S
<1>13. (merged[1].start + Turn) - merged[n].end <= Turn - w - 1
  <2>3. ~(n < n)
    BY <1>1
  <2>4. Gap(n) = (IF n < n THEN merged[n + 1].start ELSE merged[1].start + Turn) - merged[n].end
    BY <1>2, <1>4, Zenon
  <2>1. Gap(n) = (merged[1].start + Turn) - merged[n].end
    BY <2>3, <2>4
  <2>2. Gap(n) <= Turn - w - 1
    BY <1>2, <1>3
  <2> QED
    BY <2>1, <2>2
<1> DEFINE x == merged[1].start + Turn
<1>14. x \in Int /\ q <= x /\ x <= q + (Turn - w - 2)
  BY <1>1, <1>2, <1>6, <1>12, <1>13, TurnType
<1>15. x % Turn = merged[1].start % Turn
  BY <1>1, <1>2, OneTurnOn
<1>16. merged[1].start % Turn \in swept
  BY <1>1, <1>2, <1>5
<1> HIDE DEF x
<1> QED
  BY <1>7, <1>14, <1>15, <1>16

(* The box is the smallest longitude arc covering every arc, or all        *)
(* longitudes if they leave no gap (bbox.rs:106-107).                      *)
THEOREM BoxSmallest == Spec => []BoxIsSmallest
<1>1. IInv => BoxIsSmallest
  <2> SUFFICES ASSUME IInv, phase = "done", box # NA, NoLapping,
                      NEW s \in Even, NEW w \in Even \cap 0..Turn - 1,
                      swept \subseteq Lons(Arc(s, s + w))
               PROVE  box # World /\ box.end - box.start <= w
    BY DEF BoxIsSmallest
  <2>1. s \in Int /\ w \in 0..Turn - 1 /\ w % 2 = 0
    BY DEF Even
  <2>2. w \in 0..Turn - 2
    BY <2>1, TurnType
  <2>3. ~WholeTurn
    <3> SUFFICES ASSUME WholeTurn PROVE FALSE
      OBVIOUS
    <3>1. swept = 0..Turn - 1
      <4>1. CASE polar
        BY <4>1 DEF IInv, ArcsAreSwept
      <4>2. CASE ~polar
        <5>1. PICK a \in given : a.end - a.start >= Turn
          BY <4>2 DEF WholeTurn
        <5>2. a = Arc(a.start, a.end) /\ a.start \in Int /\ a.end \in Int
          BY ArcFields DEF IInv, ArcsInv
        <5>3. Lons(a) = 0..Turn - 1
          BY <5>1, <5>2, LonsWhole, TurnType
        <5>4. swept = UNION {Lons(b) : b \in given}
          BY <4>2 DEF IInv, ArcsAreSwept
        <5>5. \A b \in given : Lons(b) \subseteq 0..Turn - 1
          BY ArcLons DEF IInv
        <5> QED
          BY <5>3, <5>4, <5>5
      <4> QED
        BY <4>1, <4>2
    <3> DEFINE x == s + w + 1
    <3>2. x \in Int /\ s + w < x /\ x < s + Turn
      BY <2>1, <2>2, TurnType
    <3> HIDE DEF x
    <3>3. x % Turn \notin Lons(Arc(s, s + w))
      <4>1. s \in Int /\ w \in Int /\ x \in Int
        BY <2>1, <3>2
      <4> QED
        BY <3>2, <4>1, OutsideArc, Zenon
    <3>4. x % Turn \in 0..Turn - 1
      BY <3>2, Division
    <3> QED
      BY <3>1, <3>3, <3>4
  <2>4. Boxed
    BY <2>3 DEF IInv, PhaseInv, NoBox
  <2>5. PICK i \in 1..Len(merged) : Gap(i) >= Turn - w
    BY <2>1, <2>2, <2>4, WideGap
  <2>6. best \in 1..Len(merged) /\ Scanned(Len(merged))
    BY <2>4, BoxForm DEF Boxed
  <2>7. Gap(i) <= Gap(best)
    BY <2>6 DEF Scanned
  <2>8. Gap(best) \in Int /\ Gap(i) \in Int
    BY <2>6, GapType
  <2>9. Gap(best) >= Turn - w /\ Gap(best) > 0
    BY <2>2, <2>5, <2>7, <2>8, TurnType
  <2>10. box = BoxAround(best)
    BY <2>4, <2>8, <2>9 DEF Boxed
  <2>11. /\ box = Arc(BoxStart, BoxEnd) /\ BoxStart \in Int /\ BoxEnd \in Int
         /\ BoxEnd - BoxStart = Turn - Gap(best)
    BY <2>4, <2>10, BoxForm
  <2>12. box # World
    BY <2>11, BoxAssumption, ArcFields DEF ArcSet
  <2>13. box.end = BoxEnd /\ box.start = BoxStart
    BY <2>11, ArcFields
  <2> QED
    BY <2>2, <2>8, <2>9, <2>11, <2>12, <2>13, TurnType
<1> QED
  BY <1>1, Invariant, PTL
=============================================================================
