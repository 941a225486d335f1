--------------------------- MODULE RegionsProofs ----------------------------
(***************************************************************************)
(* The sweep of a ring finds a crossing if and only if comparing all pairs *)
(* of its edges would, the call names the first ring that crosses, and the *)
(* coverings and paths are those of the features, for all points, boxes,   *)
(* cells and calls and in every schedule.                                  *)
(***************************************************************************)
EXTENDS Regions, NaturalsInduction, WellFoundedInduction, TLAPS

-----------------------------------------------------------------------------
(* Numbers, sequences and folds.                                           *)

(* A set of numbers that holds the first of a range and the successor of   *)
(* each it holds has the whole range.                                      *)
LEMMA Upwards ==
  \A S : \A a, b \in Int :
    a \in S /\ (\A i \in a..b - 1 : i \in S => i + 1 \in S) => \A i \in a..b : i \in S
<1> TAKE S
<1> TAKE a, b \in Int
<1> HAVE a \in S /\ \A i \in a..b - 1 : i \in S => i + 1 \in S
<1> DEFINE R == OpToRel(<, Nat)
           missing == {k \in Nat : a + k <= b /\ a + k \notin S}
<1>1. IsWellFoundedOn(R, Nat)
  BY NatLessThanWellFounded
<1>2. \A i, j \in Nat : <<i, j>> \in R <=> i < j
  BY DEF OpToRel
<1> HIDE DEF R
<1>3. missing = {}
  <2> SUFFICES ASSUME missing # {} PROVE FALSE
    OBVIOUS
  <2>1. PICK k \in missing : \A j \in missing : ~(<<j, k>> \in R)
    BY <1>1, WFMin
  <2>2. k \in Nat /\ a + k <= b /\ a + k \notin S
    BY <2>1
  <2>3. k # 0
    BY <2>2
  <2>4. k - 1 \in Nat /\ k - 1 < k /\ a + (k - 1) <= b /\ a + (k - 1) \in a..b - 1
    BY <2>2, <2>3
  <2>5. a + (k - 1) \in S
    BY <1>2, <2>1, <2>2, <2>4
  <2>6. a + (k - 1) + 1 = a + k
    BY <2>2
  <2> QED
    BY <2>2, <2>4, <2>5, <2>6
<1>4. \A i \in a..b : i - a \in Nat /\ a + (i - a) = i /\ i <= b
  OBVIOUS
<1>5. \A i \in a..b : i - a \notin missing
  BY <1>3
<1> QED
  BY <1>4, <1>5

(* A set of numbers that is not empty has a least.                         *)
LEMMA Least ==
  \A S : S \subseteq Nat /\ S # {} => \E k \in S : \A j \in S : k <= j
<1> TAKE S
<1> HAVE S \subseteq Nat /\ S # {}
<1> DEFINE R == OpToRel(<, Nat)
<1>1. IsWellFoundedOn(R, Nat)
  BY NatLessThanWellFounded
<1>2. \A i, j \in Nat : <<i, j>> \in R <=> i < j
  BY DEF OpToRel
<1> HIDE DEF R
<1>3. PICK k \in S : \A j \in S : ~(<<j, k>> \in R)
  BY <1>1, WFMin
<1>4. \A j \in S : ~(j < k)
  BY <1>2, <1>3
<1>5. \A j \in S : k <= j
  BY <1>4
<1> QED
  BY <1>5

LEMMA MaxIs ==
  \A S : \A m \in S : S \subseteq Int /\ (\A i \in S : i <= m) => Max(S) = m
<1> TAKE S
<1> TAKE m \in S
<1> HAVE S \subseteq Int /\ (\A i \in S : i <= m)
<1>1. \A k \in S : (\A i \in S : k >= i) => k = m
  OBVIOUS
<1>2. \E k \in S : \A i \in S : k >= i
  OBVIOUS
<1> QED
  BY <1>1, <1>2 DEF Max

LEMMA SeqIsFunction ==
  \A Q : \A ss \in Seq(Q) :
    /\ Len(ss) \in Nat /\ DOMAIN ss = 1..Len(ss) /\ ss \in [1..Len(ss) -> Q]
    /\ Len(ss) = 0 <=> ss = <<>>
  OBVIOUS

LEMMA FunctionIsSeq ==
  \A Q : \A n \in Nat : \A f \in [1..n -> Q] : f \in Seq(Q) /\ Len(f) = n
<1> TAKE Q
<1> TAKE n \in Nat
<1> TAKE f \in [1..n -> Q]
<1>1. f \in Seq(Q)
  OBVIOUS
<1> QED
  BY <1>1

JoinStep(ss, f, i) == IF i = 1 THEN ss[i] ELSE f[i - 1] \o ss[i]

JoinedTo(ss, n) == \E f : f = [i \in 1..n |-> JoinStep(ss, f, i)]

Joins(ss, n, f) == f[1] = ss[1] /\ \A i \in 1..n - 1 : f[i + 1] = f[i] \o ss[i + 1]

LEMMA JoinsExist ==
  \A ss : \A n \in Nat \ {0} : JoinedTo(ss, n)
<1> TAKE ss
<1> TAKE n \in Nat \ {0}
<1>1. JoinedTo(ss, 1)
  <2>1. [i \in 1..1 |-> ss[1]] = [i \in 1..1 |-> JoinStep(ss, [j \in 1..1 |-> ss[1]], i)]
    BY DEF JoinStep
  <2> QED
    BY <2>1 DEF JoinedTo
<1>2. ASSUME NEW m \in 1..n - 1, JoinedTo(ss, m) PROVE JoinedTo(ss, m + 1)
  <2>1. PICK f : f = [i \in 1..m |-> JoinStep(ss, f, i)]
    BY <1>2 DEF JoinedTo
  <2> DEFINE g == [i \in 1..m + 1 |-> IF i = m + 1 THEN JoinStep(ss, f, i) ELSE f[i]]
  <2>2. ASSUME NEW i \in 1..m + 1 PROVE g[i] = JoinStep(ss, g, i)
    <3>1. CASE i = m + 1
      <4>1. g[i] = JoinStep(ss, f, i) /\ i - 1 \in 1..m /\ i - 1 # m + 1
        BY <3>1
      <4>2. g[i - 1] = f[i - 1]
        BY <3>1, <4>1
      <4> QED
        BY <4>1, <4>2 DEF JoinStep
    <3>2. CASE i # m + 1
      <4>1. i \in 1..m /\ g[i] = f[i]
        BY <3>2
      <4>2. f[i] = JoinStep(ss, f, i)
        BY <2>1, <4>1
      <4>3. i # 1 => i - 1 \in 1..m + 1 /\ i - 1 # m + 1 /\ g[i - 1] = f[i - 1]
        BY <4>1
      <4> HIDE DEF g
      <4> QED
        BY <4>1, <4>2, <4>3 DEF JoinStep
    <3> QED
      BY <3>1, <3>2
  <2>3. g = [i \in 1..m + 1 |-> JoinStep(ss, g, i)]
    <3>1. g = [i \in 1..m + 1 |-> g[i]]
      OBVIOUS
    <3> QED
      BY <2>2, <3>1
  <2> HIDE DEF g
  <2> QED
    BY <2>3 DEF JoinedTo
<1> DEFINE S == {m \in Int : JoinedTo(ss, m)}
<1>3. 1 \in S /\ \A i \in 1..n - 1 : i \in S => i + 1 \in S
  BY <1>1, <1>2
<1> HIDE DEF S
<1>4. \A i \in 1..n : i \in S
  BY <1>3, Upwards
<1> QED
  BY <1>4 DEF S

LEMMA FlattenJoins ==
  \A T : \A n \in Nat \ {0} : \A ss \in [1..n -> Seq(T)] :
    \E f \in [1..n -> Seq(T)] : Joins(ss, n, f) /\ FlattenSeq(ss) = f[n]
<1> TAKE T
<1> TAKE n \in Nat \ {0}
<1> TAKE ss \in [1..n -> Seq(T)]
<1>1. Len(ss) = n
  BY FunctionIsSeq
<1> DEFINE flatten == CHOOSE f : f = [i \in 1..n |-> IF i = 1 THEN ss[i] ELSE f[i - 1] \o ss[i]]
<1>2. flatten = [i \in 1..n |-> IF i = 1 THEN ss[i] ELSE flatten[i - 1] \o ss[i]]
  BY JoinsExist DEF JoinedTo, JoinStep
<1>3. FlattenSeq(ss) = flatten[n]
  BY <1>1 DEF FlattenSeq
<1> HIDE DEF flatten
<1>4. \A i \in 1..n : flatten[i] = JoinStep(ss, flatten, i)
  BY <1>2 DEF JoinStep
<1>5. Joins(ss, n, flatten)
  <2>1. flatten[1] = ss[1]
    BY <1>4 DEF JoinStep
  <2>2. ASSUME NEW i \in 1..n - 1 PROVE flatten[i + 1] = flatten[i] \o ss[i + 1]
    <3>1. i + 1 \in 1..n /\ i + 1 # 1 /\ i + 1 - 1 = i
      OBVIOUS
    <3> DEFINE j == i + 1
    <3>2. flatten[j] = flatten[j - 1] \o ss[j]
      <4>1. j \in 1..n /\ j # 1
        BY <3>1
      <4> HIDE DEF j
      <4> QED
        BY <1>4, <4>1 DEF JoinStep
    <3>3. (i + 1) - 1 = i
      OBVIOUS
    <3> QED
      BY <3>2, <3>3, Zenon
  <2> QED
    BY <2>1, <2>2 DEF Joins
<1>6. \A i \in 1..n : flatten[i] \in Seq(T)
  <2> DEFINE S == {m \in Int : flatten[m] \in Seq(T)}
  <2>1. flatten[1] \in Seq(T)
    BY <1>5 DEF Joins
  <2>2. ASSUME NEW i \in 1..n - 1, flatten[i] \in Seq(T) PROVE flatten[i + 1] \in Seq(T)
    <3>1. i + 1 \in 1..n
      OBVIOUS
    <3>2. flatten[i + 1] = flatten[i] \o ss[i + 1] /\ ss[i + 1] \in Seq(T)
      BY <1>5, <3>1 DEF Joins
    <3>3. \A p, q \in Seq(T) : p \o q \in Seq(T)
      OBVIOUS
    <3> QED
      BY <2>2, <3>2, <3>3
  <2>3. 1 \in S /\ \A i \in 1..n - 1 : i \in S => i + 1 \in S
    BY <2>1, <2>2
  <2> HIDE DEF S
  <2>4. n \in Int /\ 1 \in Int
    OBVIOUS
  <2>5. \A i \in 1..n : i \in S
    BY <2>3, <2>4, Upwards
  <2> QED
    BY <2>5 DEF S
<1>7. flatten \in [1..n -> Seq(T)]
  BY <1>2, <1>6
<1> QED
  BY <1>3, <1>5, <1>7

(* A fold of a sequence is a function of sets of positions, that takes the *)
(* greatest position last.  Each step goes from what there is and the      *)
(* position to what there is next.                                         *)
FoldStep(step, base, f, s) ==
  IF s = {} THEN base ELSE step[f[s \ {Max(s)}], Max(s)]

FoldTo(A, step, base, k) ==
  \E f \in [SUBSET (1..k) -> A] : \A s \in SUBSET (1..k) : f[s] = FoldStep(step, base, f, s)

LEMMA MaxOfRange ==
  \A k \in Nat : \A s \in SUBSET (1..k) : s # {} => Max(s) \in s
<1> TAKE k \in Nat
<1> TAKE s \in SUBSET (1..k)
<1> HAVE s # {}
<1> DEFINE left == {k - i : i \in s}
<1>1. left \subseteq Nat /\ left # {}
  <2>1. \A i \in s : k - i \in Nat
    OBVIOUS
  <2>2. \E i \in s : k - i \in left
    OBVIOUS
  <2> QED
    BY <2>1, <2>2
<1>2. PICK d \in left : \A j \in left : d <= j
  BY <1>1, Least
<1>3. PICK m \in s : d = k - m
  OBVIOUS
<1>4. \A i \in s : i <= m
  <2> TAKE i \in s
  <2>1. k - i \in left
    OBVIOUS
  <2>2. k - m <= k - i
    BY <1>2, <1>3, <2>1
  <2> QED
    BY <2>2
<1>5. Max(s) = m
  <2>1. s \subseteq Int
    OBVIOUS
  <2> QED
    BY <1>4, <2>1, MaxIs
<1> QED
  BY <1>5

LEMMA FoldExists ==
  \A A : \A n \in Nat : \A step \in [A \X (1..n) -> A] : \A base \in A : FoldTo(A, step, base, n)
<1> TAKE A
<1> TAKE n \in Nat
<1> TAKE step \in [A \X (1..n) -> A]
<1> TAKE base \in A
<1>1. FoldTo(A, step, base, 0)
  <2> DEFINE f == [s \in SUBSET (1..0) |-> base]
  <2>1. \A s \in SUBSET (1..0) : s = {}
    OBVIOUS
  <2>2. \A s \in SUBSET (1..0) : f[s] = FoldStep(step, base, f, s)
    BY <2>1 DEF FoldStep
  <2>3. f \in [SUBSET (1..0) -> A]
    OBVIOUS
  <2> HIDE DEF f
  <2> QED
    BY <2>2, <2>3 DEF FoldTo
<1>2. ASSUME NEW k \in 0..n - 1, FoldTo(A, step, base, k) PROVE FoldTo(A, step, base, k + 1)
  <2>1. PICK f \in [SUBSET (1..k) -> A] :
          \A s \in SUBSET (1..k) : f[s] = FoldStep(step, base, f, s)
    BY <1>2 DEF FoldTo
  <2> DEFINE g == [s \in SUBSET (1..k + 1) |->
                     IF k + 1 \in s THEN FoldStep(step, base, f, s) ELSE f[s]]
  <2>2. ASSUME NEW s \in SUBSET (1..k + 1)
        PROVE  g[s] = FoldStep(step, base, g, s) /\ g[s] \in A
    <3>1. CASE k + 1 \in s
      <4>1. Max(s) = k + 1
        <5>1. s \subseteq Int /\ \A i \in s : i <= k + 1
          OBVIOUS
        <5> QED
          BY <3>1, <5>1, MaxIs
      <4>2. s \ {k + 1} \in SUBSET (1..k) /\ s \ {k + 1} \in SUBSET (1..k + 1) /\ k + 1 \notin s \ {k + 1}
        OBVIOUS
      <4>3. g[s] = FoldStep(step, base, f, s) /\ g[s \ {k + 1}] = f[s \ {k + 1}]
        BY <3>1, <4>2
      <4>4. FoldStep(step, base, f, s) \in A
        <5>1. f[s \ {k + 1}] \in A /\ k + 1 \in 1..n
          BY <4>2
        <5>2. \A a \in A : step[a, k + 1] \in A
          BY <5>1
        <5> QED
          BY <3>1, <4>1, <5>1, <5>2 DEF FoldStep
      <4> HIDE DEF g
      <4> QED
        BY <3>1, <4>1, <4>3, <4>4 DEF FoldStep
    <3>2. CASE k + 1 \notin s
      <4>1. s \in SUBSET (1..k) /\ g[s] = f[s]
        BY <3>2
      <4>2. f[s] = FoldStep(step, base, f, s)
        BY <2>1, <4>1
      <4>3. s \ {Max(s)} \in SUBSET (1..k + 1) /\ k + 1 \notin s \ {Max(s)}
        BY <3>2
      <4>4. g[s \ {Max(s)}] = f[s \ {Max(s)}]
        BY <4>3
      <4> HIDE DEF g
      <4> QED
        BY <4>1, <4>2, <4>4 DEF FoldStep
    <3> QED
      BY <3>1, <3>2
  <2>3. g \in [SUBSET (1..k + 1) -> A]
    <3>1. g = [s \in SUBSET (1..k + 1) |-> g[s]]
      OBVIOUS
    <3> QED
      BY <2>2, <3>1
  <2> HIDE DEF g
  <2> QED
    BY <2>2, <2>3 DEF FoldTo
<1> DEFINE S == {k \in Int : FoldTo(A, step, base, k)}
<1>3. 0 \in S /\ \A i \in 0..n - 1 : i \in S => i + 1 \in S
  BY <1>1, <1>2
<1> HIDE DEF S
<1>4. \A i \in 0..n : i \in S
  BY <1>3, Upwards
<1> QED
  BY <1>4 DEF S

LEMMA RangeTop ==
  \A n \in Nat : \A k \in 0..n - 1 :
    /\ 1..k + 1 \in SUBSET (1..n) /\ 1..k + 1 # {} /\ (1..k + 1) \ {k + 1} = 1..k
    /\ Max(1..k + 1) = k + 1
<1> TAKE n \in Nat
<1> TAKE k \in 0..n - 1
<1>1. k + 1 \in 1..k + 1 /\ 1..k + 1 \subseteq Int /\ \A i \in 1..k + 1 : i <= k + 1
  OBVIOUS
<1>2. Max(1..k + 1) = k + 1
  BY <1>1, MaxIs
<1>3. 1..k + 1 \subseteq 1..n /\ (1..k + 1) \ {k + 1} = 1..k
  OBVIOUS
<1> QED
  BY <1>1, <1>2, <1>3

-----------------------------------------------------------------------------
(* One sweep.                                                              *)

(* The edges that were swept start before those to come, those of them no  *)
(* longer active also end before, and none of them cross.                  *)
SweepInv(P, s) ==
  /\ s \in [todo : SUBSET Edges(P), active : SUBSET Edges(P), crosses : BOOLEAN]
  /\ s.todo \cap s.active = {}
  /\ s.crosses => s.todo = {} /\ CrossesItself(P)
  /\ ~s.crosses =>
       /\ \A e \in Edges(P) \ s.todo : \A f \in s.todo : Lo(P, e)[1] <= Lo(P, f)[1]
       /\ \A o \in Edges(P) \ (s.todo \cup s.active) : \A f \in s.todo :
            Hi(P, o)[1] < Lo(P, f)[1]
       /\ \A e, f \in Edges(P) \ s.todo : ~Adjacent(P, e, f) => ~Cross(P, e, f)

(* Edges join points of the ring (ring_check.rs:103-105).                  *)
LEMMA EdgePoints ==
  ASSUME NEW P \in Seq(Points), NEW i \in Edges(P)
  PROVE  P[i] \in Points /\ P[NextEdge(P, i)] \in Points
  <1>1. Len(P) \in Nat /\ Len(P) >= 4 /\ i \in 1..Len(P)
    BY DEF Edges
  <1>2. i % Len(P) \in 0..Len(P) - 1
    BY <1>1
  <1>3. NextEdge(P, i) \in 1..Len(P)
    BY <1>1, <1>2 DEF NextEdge
  <1> QED
    BY <1>1, <1>3

(* The bounds of an edge on the first axis are numbers.                    *)
LEMMA EdgeBounds ==
  ASSUME NEW P \in Seq(Points), NEW i \in Edges(P)
  PROVE  Lo(P, i)[1] \in Int /\ Hi(P, i)[1] \in Int
  <1>1. P[i] \in Points /\ P[NextEdge(P, i)] \in Points
    BY EdgePoints
  <1>2. 1 \in 1..Axes
    BY BoxAssumption DEF BoxAssumption
  <1> QED
    BY <1>1, <1>2, BoxAssumption DEF BoxAssumption, Lo, Hi

(* Edges that cross pass both box tests (ring_check.rs:115 and 122-125),   *)
(* in either order.                                                        *)
LEMMA CrossingMeets ==
  ASSUME NEW P \in Seq(Points), NEW e \in Edges(P), NEW f \in Edges(P), Cross(P, e, f)
  PROVE  /\ Lo(P, e)[1] <= Hi(P, f)[1]
         /\ BoxesMeet(P, e, f)
         /\ Cross(P, f, e)
         /\ e # f
  <1> DEFINE a == P[e]  b == P[NextEdge(P, e)]  c == P[f]  d == P[NextEdge(P, f)]
  <1>1. a \in Points /\ b \in Points /\ c \in Points /\ d \in Points
    BY EdgePoints
  <1>2. ArcsCross(a, b, c, d)
    BY DEF Cross
  <1>3. ArcsCross(c, d, a, b)
    BY <1>1, <1>2, BoxAssumption DEF BoxAssumption
  <1>4. \A k \in 1..Axes : Low(a, b)[k] <= High(c, d)[k] /\ Low(c, d)[k] <= High(a, b)[k]
    BY <1>1, <1>2, BoxAssumption DEF BoxAssumption
  <1>5. 1 \in 1..Axes /\ 2..Axes \subseteq 1..Axes
    BY BoxAssumption DEF BoxAssumption
  <1>6. e # f
    BY <1>1, <1>2, BoxAssumption DEF BoxAssumption
  <1>7. BoxesMeet(P, e, f)
    BY <1>4, <1>5 DEF BoxesMeet, Lo, Hi
  <1> QED
    BY <1>3, <1>4, <1>5, <1>6, <1>7 DEF Cross, Lo, Hi

(* Points left of a ring are points of it (ring_check.rs:91-99).           *)
LEMMA DedupedType == \A points \in Seq(Points) : Deduped(points) \in Seq(Points)
<1> TAKE points \in Seq(Points)
<1> DEFINE n == Len(points)
           Next1(s, p) == IF s # <<>> /\ Same(Last(s), p) THEN s ELSE Append(s, p)
           step == [x \in Seq(Points) \X (1..n) |-> Next1(x[1], points[x[2]])]
           iter == CHOOSE f : f = [s \in SUBSET (1..n) |->
                     IF s = {} THEN <<>> ELSE Next1(f[s \ {Max(s)}], points[Max(s)])]
           pts1 == FoldLeft(LAMBDA s, p : IF s # <<>> /\ Same(Last(s), p) THEN s ELSE Append(s, p),
                            <<>>, points)
<1>1. n \in Nat /\ DOMAIN points = 1..n
  BY SeqIsFunction
<1>2. pts1 = iter[1..n]
  BY <1>1 DEF FoldLeft, MapThenFoldSet
<1>3. /\ step \in [Seq(Points) \X (1..n) -> Seq(Points)]
      /\ \A s \in Seq(Points) : \A i \in 1..n : Next1(s, points[i]) \in Seq(Points)
  <2>1. \A s \in Seq(Points) : \A i \in 1..n : Next1(s, points[i]) \in Seq(Points)
    BY <1>1
  <2> HIDE DEF Next1
  <2> QED
    BY <2>1
<1>4. iter = [s \in SUBSET (1..n) |->
                IF s = {} THEN <<>> ELSE Next1(iter[s \ {Max(s)}], points[Max(s)])]
  <2>1. PICK f \in [SUBSET (1..n) -> Seq(Points)] :
          \A s \in SUBSET (1..n) : f[s] = FoldStep(step, <<>>, f, s)
    <3> HIDE DEF step
    <3>1. <<>> \in Seq(Points)
      OBVIOUS
    <3>2. FoldTo(Seq(Points), step, <<>>, n)
      BY <1>1, <1>3, <3>1, FoldExists, Zenon
    <3> QED
      BY <3>2, Zenon DEF FoldTo
  <2> HIDE DEF Next1
  <2>2. ASSUME NEW s \in SUBSET (1..n)
        PROVE  f[s] = IF s = {} THEN <<>> ELSE Next1(f[s \ {Max(s)}], points[Max(s)])
    <3>1. CASE s = {}
      BY <2>1, <3>1 DEF FoldStep
    <3>2. CASE s # {}
      <4>1. Max(s) \in 1..n /\ s \ {Max(s)} \in SUBSET (1..n)
        BY <1>1, <3>2, MaxOfRange
      <4>2. f[s \ {Max(s)}] \in Seq(Points)
        BY <4>1
      <4>3. step[f[s \ {Max(s)}], Max(s)] = Next1(f[s \ {Max(s)}], points[Max(s)])
        BY <4>1, <4>2
      <4>4. f[s] = step[f[s \ {Max(s)}], Max(s)]
        BY <2>1, <3>2 DEF FoldStep
      <4> QED
        BY <3>2, <4>3, <4>4
    <3> QED
      BY <3>1, <3>2
  <2>3. f = [s \in SUBSET (1..n) |->
               IF s = {} THEN <<>> ELSE Next1(f[s \ {Max(s)}], points[Max(s)])]
    <3>1. f = [s \in SUBSET (1..n) |-> f[s]]
      OBVIOUS
    <3> QED
      BY <2>2, <3>1
  <2> QED
    BY <2>3
<1> HIDE DEF iter, step, pts1
<1>5. iter[{}] = <<>> /\ \A k \in 0..n - 1 : iter[1..k + 1] = Next1(iter[1..k], points[k + 1])
  <2> HIDE DEF Next1
  <2>1. {} \in SUBSET (1..n)
    OBVIOUS
  <2>2. iter[{}] = <<>>
    BY <1>4, <2>1
  <2>3. ASSUME NEW k \in 0..n - 1 PROVE iter[1..k + 1] = Next1(iter[1..k], points[k + 1])
    <3>1. /\ 1..k + 1 \in SUBSET (1..n) /\ 1..k + 1 # {} /\ (1..k + 1) \ {k + 1} = 1..k
          /\ Max(1..k + 1) = k + 1
      BY <1>1, RangeTop
    <3>2. iter[1..k + 1] = IF 1..k + 1 = {} THEN <<>>
                           ELSE Next1(iter[(1..k + 1) \ {Max(1..k + 1)}], points[Max(1..k + 1)])
      BY <1>4, <3>1
    <3> QED
      BY <3>1, <3>2, Zenon
  <2> QED
    BY <2>2, <2>3
<1> DEFINE S == {k \in Int : iter[1..k] \in Seq(Points)}
<1>6. 0 \in S
  <2>1. 1..0 = {} /\ <<>> \in Seq(Points)
    OBVIOUS
  <2>2. iter[1..0] \in Seq(Points)
    BY <1>5, <2>1, Zenon
  <2>3. 0 \in Int
    OBVIOUS
  <2> QED
    BY <2>2, <2>3, Zenon
<1>7. ASSUME NEW k \in 0..n - 1, k \in S PROVE k + 1 \in S
  <2>1. k + 1 \in 1..n /\ k + 1 \in Int
    BY <1>1
  <2>2. iter[1..k] \in Seq(Points)
    BY <1>7
  <2> HIDE DEF Next1
  <2> QED
    BY <1>3, <1>5, <2>1, <2>2
<1> HIDE DEF S, Next1
<1>8. n \in S
  <2>1. n \in Int /\ 0 \in Int /\ n \in 0..n
    BY <1>1
  <2> QED
    BY <1>6, <1>7, <2>1, Upwards
<1>9. pts1 \in Seq(Points)
  BY <1>2, <1>8 DEF S
<1>10. Deduped(points) = IF Len(pts1) > 1 /\ Same(Head(pts1), Last(pts1)) THEN Front(pts1) ELSE pts1
  BY DEF Deduped, pts1
<1> QED
  BY <1>9, <1>10 DEF Front

LEMMA StartedInv ==
  ASSUME NEW P \in Seq(Points)
  PROVE  SweepInv(P, Started(P))
  BY DEF SweepInv, Started

(* A step of the loop over edges (ring_check.rs:113-131).                  *)
LEMMA SweptInv ==
  ASSUME NEW P \in Seq(Points), NEW s, SweepInv(P, s), NEW e, IsNextEdge(P, s, e)
  PROVE  SweepInv(P, Swept(P, s, e))
  <1> DEFINE active == Retained(P, s.active, e)
             hit == \E o \in active :
                      ~Adjacent(P, e, o) /\ BoxesMeet(P, e, o) /\ Cross(P, e, o)
  <1>0. /\ s \in [todo : SUBSET Edges(P), active : SUBSET Edges(P), crosses : BOOLEAN]
        /\ e \in s.todo /\ e \in Edges(P)
        /\ ~s.crosses
    BY DEF SweepInv, IsNextEdge
  <1>1. active \subseteq s.active /\ active \subseteq Edges(P)
    BY <1>0 DEF Retained
  <1>2. CASE hit
    <2>1. CrossesItself(P)
      BY <1>0, <1>1, <1>2 DEF CrossesItself
    <2>2. Swept(P, s, e) = [s EXCEPT !.todo = {}, !.crosses = TRUE]
      BY <1>2 DEF Swept
    <2> QED
      BY <1>0, <2>1, <2>2 DEF SweepInv
  <1>3. CASE ~hit
    <2> DEFINE t == [todo |-> s.todo \ {e}, active |-> active \cup {e}, crosses |-> FALSE]
    <2>1. Swept(P, s, e) = t
      BY <1>3 DEF Swept
    <2>2. \A d \in Edges(P) \ t.todo : \A f \in t.todo : Lo(P, d)[1] <= Lo(P, f)[1]
      BY <1>0 DEF SweepInv, IsNextEdge
    <2>3. \A o \in Edges(P) \ (s.todo \cup active) : Hi(P, o)[1] < Lo(P, e)[1]
      <3> SUFFICES ASSUME NEW o \in Edges(P) \ (s.todo \cup active)
                   PROVE  Hi(P, o)[1] < Lo(P, e)[1]
        OBVIOUS
      <3>1. CASE o \in s.active
        <4>1. ~(Hi(P, o)[1] >= Lo(P, e)[1])
          BY <3>1 DEF Retained
        <4> QED
          BY <4>1, <1>0, EdgeBounds
      <3>2. CASE o \notin s.active
        BY <3>2, <1>0 DEF SweepInv
      <3> QED
        BY <3>1, <3>2
    <2>4. \A o \in Edges(P) \ (t.todo \cup t.active) : \A f \in t.todo :
            Hi(P, o)[1] < Lo(P, f)[1]
      <3> SUFFICES ASSUME NEW o \in Edges(P) \ (t.todo \cup t.active), NEW f \in t.todo
                   PROVE  Hi(P, o)[1] < Lo(P, f)[1]
        OBVIOUS
      <3>1. o \in Edges(P) \ (s.todo \cup active) /\ f \in s.todo /\ f \in Edges(P)
        BY <1>0
      <3>2. Hi(P, o)[1] < Lo(P, e)[1]
        BY <2>3, <3>1
      <3>3. Lo(P, e)[1] <= Lo(P, f)[1]
        BY <3>1 DEF IsNextEdge
      <3>4. Hi(P, o)[1] \in Int /\ Lo(P, e)[1] \in Int /\ Lo(P, f)[1] \in Int
        BY <1>0, <3>1, EdgeBounds
      <3> QED
        BY <3>2, <3>3, <3>4
    <2>5. \A o \in Edges(P) \ t.todo : ~Adjacent(P, e, o) => ~Cross(P, e, o)
      <3> SUFFICES ASSUME NEW o \in Edges(P) \ t.todo, ~Adjacent(P, e, o), Cross(P, e, o)
                   PROVE  FALSE
        OBVIOUS
      <3>1. Lo(P, e)[1] <= Hi(P, o)[1] /\ BoxesMeet(P, e, o) /\ e # o
        BY <1>0, CrossingMeets
      <3>2. o \notin active
        BY <1>3, <3>1
      <3>3. o \in Edges(P) \ (s.todo \cup active)
        BY <3>1, <3>2
      <3>4. Hi(P, o)[1] < Lo(P, e)[1]
        BY <2>3, <3>3
      <3>5. Hi(P, o)[1] \in Int /\ Lo(P, e)[1] \in Int
        BY <1>0, EdgeBounds
      <3> QED
        BY <3>1, <3>4, <3>5
    <2>6. \A d, f \in Edges(P) \ t.todo : ~Adjacent(P, d, f) => ~Cross(P, d, f)
      <3> SUFFICES ASSUME NEW d \in Edges(P) \ t.todo, NEW f \in Edges(P) \ t.todo,
                          ~Adjacent(P, d, f), Cross(P, d, f)
                   PROVE  FALSE
        OBVIOUS
      <3>1. CASE d = e
        BY <3>1, <2>5
      <3>2. CASE f = e
        <4>1. Cross(P, e, d)
          BY <3>2, CrossingMeets
        <4>2. ~Adjacent(P, e, d)
          BY <3>2 DEF Adjacent
        <4> QED
          BY <4>1, <4>2, <2>5
      <3>3. CASE d # e /\ f # e
        BY <3>3, <1>0 DEF SweepInv
      <3> QED
        BY <3>1, <3>2, <3>3
    <2>7. t \in [todo : SUBSET Edges(P), active : SUBSET Edges(P), crosses : BOOLEAN]
      BY <1>0, <1>1
    <2>8. t.crosses = FALSE
      OBVIOUS
    <2>9. t.todo \cap t.active = {}
      BY <1>0, <1>1 DEF SweepInv
    <2> HIDE DEF t
    <2> QED
      BY <2>1, <2>2, <2>4, <2>6, <2>7, <2>8, <2>9 DEF SweepInv
  <1> QED
    BY <1>2, <1>3

LEMMA SweepInvExact ==
  ASSUME NEW P, NEW s, SweepInv(P, s)
  PROVE  /\ s.crosses => CrossesItself(P)
         /\ s.todo = {} => (s.crosses <=> CrossesItself(P))
  BY DEF SweepInv, CrossesItself

-----------------------------------------------------------------------------
(* The results put together.                                               *)

(* Each feature's covering is the union of its parts                       *)
(* (a5_polygon_to_cells_rs(), regions.rs:126-140).                         *)
LEMMA CoveringsUnite ==
  ASSUME NEW n \in Nat, Parts = 1..n, input.number \in Nat,
         \A p \in Parts : filled[p] \in SUBSET Cells /\ Feature(p) \in 1..input.number
  PROVE  /\ Coverings \in [1..input.number -> SUBSET Cells]
         /\ \A f \in 1..input.number :
              Coverings[f] = UNION {filled[p] : p \in {q \in Parts : Feature(q) = f}}
<1> DEFINE F == 1..input.number
           A == [F -> SUBSET Cells]
           base == [f \in F |-> {}]
           step == [x \in A \X (1..n) |-> WithPart(x[1], x[2])]
           iter == CHOOSE f : f = [s \in SUBSET (1..n) |->
                     IF s = {} THEN base ELSE WithPart(f[s \ {Max(s)}], InOrder[Max(s)])]
<1>1. DOMAIN InOrder = 1..n /\ \A k \in 1..n : InOrder[k] = k
  BY DEF InOrder
<1>2. Coverings = iter[1..n]
  BY <1>1 DEF Coverings, FoldLeft, MapThenFoldSet
<1>3. step \in [A \X (1..n) -> A] /\ base \in A
  <2>1. \A a \in A : \A p \in 1..n : WithPart(a, p) \in A
    BY DEF WithPart
  <2> QED
    BY <2>1
<1>4. iter = [s \in SUBSET (1..n) |->
                IF s = {} THEN base ELSE WithPart(iter[s \ {Max(s)}], InOrder[Max(s)])]
  <2> HIDE DEF A, base
  <2>1. PICK f \in [SUBSET (1..n) -> A] :
          \A s \in SUBSET (1..n) : f[s] = FoldStep(step, base, f, s)
    <3> HIDE DEF step
    <3>1. FoldTo(A, step, base, n)
      BY <1>3, FoldExists, Zenon
    <3> QED
      BY <3>1, Zenon DEF FoldTo
  <2>2. ASSUME NEW s \in SUBSET (1..n)
        PROVE  f[s] = IF s = {} THEN base ELSE WithPart(f[s \ {Max(s)}], InOrder[Max(s)])
    <3>1. CASE s = {}
      BY <2>1, <3>1 DEF FoldStep
    <3>2. CASE s # {}
      <4>1. Max(s) \in 1..n /\ s \ {Max(s)} \in SUBSET (1..n)
        BY <3>2, MaxOfRange
      <4>2. f[s \ {Max(s)}] \in A
        BY <4>1
      <4>3. step[f[s \ {Max(s)}], Max(s)] = WithPart(f[s \ {Max(s)}], Max(s))
        BY <4>1, <4>2
      <4>4. f[s] = step[f[s \ {Max(s)}], Max(s)]
        BY <2>1, <3>2 DEF FoldStep
      <4>5. InOrder[Max(s)] = Max(s)
        BY <1>1, <4>1
      <4> QED
        BY <3>2, <4>3, <4>4, <4>5, Zenon
    <3> QED
      BY <3>1, <3>2
  <2>3. f = [s \in SUBSET (1..n) |->
               IF s = {} THEN base ELSE WithPart(f[s \ {Max(s)}], InOrder[Max(s)])]
    <3>1. f = [s \in SUBSET (1..n) |-> f[s]]
      OBVIOUS
    <3> QED
      BY <2>2, <3>1
  <2> QED
    BY <2>3
<1> HIDE DEF iter, step
<1>5. iter[1..0] = base /\ \A k \in 0..n - 1 : iter[1..k + 1] = WithPart(iter[1..k], k + 1)
  <2> HIDE DEF base
  <2>1. {} \in SUBSET (1..n) /\ 1..0 = {}
    OBVIOUS
  <2>2. iter[{}] = base
    BY <1>4, <2>1
  <2>3. ASSUME NEW k \in 0..n - 1 PROVE iter[1..k + 1] = WithPart(iter[1..k], k + 1)
    <3>1. /\ 1..k + 1 \in SUBSET (1..n) /\ 1..k + 1 # {} /\ (1..k + 1) \ {k + 1} = 1..k
          /\ Max(1..k + 1) = k + 1
      BY RangeTop
    <3>2. iter[1..k + 1] = IF 1..k + 1 = {} THEN base
                           ELSE WithPart(iter[(1..k + 1) \ {Max(1..k + 1)}], InOrder[Max(1..k + 1)])
      BY <1>4, <3>1
    <3>3. InOrder[k + 1] = k + 1
      <4>1. k + 1 \in 1..n
        OBVIOUS
      <4> QED
        BY <1>1, <4>1
    <3> QED
      BY <3>1, <3>2, <3>3, Zenon
  <2> QED
    BY <2>1, <2>2, <2>3
<1> DEFINE acc == [k \in 0..n |-> iter[1..k]]
           Of(k, f) == UNION {filled[p] : p \in {q \in 1..k : Feature(q) = f}}
           S == {k \in Int : acc[k] \in A /\ \A f \in F : acc[k][f] = Of(k, f)}
<1>6. acc[0] = base /\ \A k \in 0..n - 1 : acc[k + 1] = WithPart(acc[k], k + 1)
  <2> HIDE DEF base
  <2>1. 0 \in 0..n /\ \A k \in 0..n - 1 : k \in 0..n /\ k + 1 \in 0..n
    OBVIOUS
  <2> QED
    BY <1>5, <2>1, Zenon
<1> HIDE DEF acc
<1>7. 0 \in S
  <2>1. \A f \in F : Of(0, f) = {}
    OBVIOUS
  <2>2. acc[0] \in A /\ \A f \in F : acc[0][f] = {}
    BY <1>6
  <2> QED
    BY <2>1, <2>2
<1>8. ASSUME NEW k \in 0..n - 1, k \in S PROVE k + 1 \in S
  <2>1. k + 1 \in 1..n /\ k + 1 \in Int
    OBVIOUS
  <2>2. acc[k] \in A /\ \A f \in F : acc[k][f] = Of(k, f)
    BY <1>8
  <2>3. acc[k + 1] = [acc[k] EXCEPT ![Feature(k + 1)] = @ \cup filled[k + 1]]
    BY <1>6 DEF WithPart
  <2>4. acc[k + 1] \in A
    BY <2>1, <2>2, <2>3
  <2>5. ASSUME NEW f \in F PROVE acc[k + 1][f] = Of(k + 1, f)
    <3>1. CASE f = Feature(k + 1)
      <4>1. acc[k + 1][f] = acc[k][f] \cup filled[k + 1]
        BY <2>2, <2>3, <3>1
      <4>2. {q \in 1..k + 1 : Feature(q) = f} = {q \in 1..k : Feature(q) = f} \cup {k + 1}
        BY <3>1
      <4>3. Of(k + 1, f) = Of(k, f) \cup filled[k + 1]
        <5> DEFINE Q == {q \in 1..k : Feature(q) = f}
        <5> HIDE DEF Q
        <5>1. UNION {filled[p] : p \in Q \cup {k + 1}} = (UNION {filled[p] : p \in Q}) \cup filled[k + 1]
          <6>1. {filled[p] : p \in Q \cup {k + 1}} = {filled[p] : p \in Q} \cup {filled[k + 1]}
            BY Zenon
          <6> QED
            BY <6>1, Zenon
        <5> QED
          BY <4>2, <5>1 DEF Q
      <4> QED
        BY <2>2, <4>1, <4>3
    <3>2. CASE f # Feature(k + 1)
      <4>1. acc[k + 1][f] = acc[k][f]
        BY <2>2, <2>3, <3>2
      <4>2. {q \in 1..k + 1 : Feature(q) = f} = {q \in 1..k : Feature(q) = f}
        BY <3>2
      <4> QED
        BY <2>2, <4>1, <4>2
    <3> QED
      BY <3>1, <3>2
  <2> HIDE DEF A, Of
  <2> QED
    BY <2>1, <2>4, <2>5
<1> HIDE DEF S
<1>9. n \in S
  <2>1. n \in Int /\ 0 \in Int /\ n \in 0..n
    OBVIOUS
  <2> QED
    BY <1>7, <1>8, <2>1, Upwards
<1>10. acc[n] \in A /\ \A f \in F : acc[n][f] = Of(n, f)
  BY <1>9 DEF S
<1>11. acc[n] = Coverings
  BY <1>2 DEF acc
<1> QED
  BY <1>10, <1>11

(* The first place of a cell in a sequence, and a path that has the cells  *)
(* of the first m places, in the order in which they first appear.         *)
FirstAt(s, c, a) == s[a] = c /\ \A i \in 1..a - 1 : s[i] # c

Firsts(path, s, m) ==
  /\ ToSet(path) = {s[i] : i \in 1..m}
  /\ \A j, k \in DOMAIN path : j < k =>
       \A a, b \in 1..m : FirstAt(s, path[j], a) /\ FirstAt(s, path[k], b) => a < b

WithCell(path, c) == IF c \in ToSet(path) THEN path ELSE Append(path, c)

(* One cell more (regions.rs:191-194).                                     *)
LEMMA FirstsStep ==
  \A path \in Seq(Cells) : \A s : \A m \in Nat : \A c \in Cells :
    Firsts(path, s, m) /\ s[m + 1] = c =>
      WithCell(path, c) \in Seq(Cells) /\ Firsts(WithCell(path, c), s, m + 1)
<1> TAKE path \in Seq(Cells)
<1> TAKE s
<1> TAKE m \in Nat
<1> TAKE c \in Cells
<1> HAVE Firsts(path, s, m) /\ s[m + 1] = c
<1>1. ToSet(path) = {s[i] : i \in 1..m}
  BY DEF Firsts
<1>2. {s[i] : i \in 1..m + 1} = ToSet(path) \cup {c}
  <2>1. 1..m + 1 = (1..m) \cup {m + 1}
    OBVIOUS
  <2>2. {s[i] : i \in (1..m) \cup {m + 1}} = {s[i] : i \in 1..m} \cup {s[m + 1]}
    BY Zenon
  <2> QED
    BY <1>1, <2>1, <2>2
(* What the path has already has its first place before m + 1.             *)
<1>3. ASSUME NEW x \in ToSet(path), NEW a \in 1..m + 1, FirstAt(s, x, a) PROVE a \in 1..m
  <2>1. PICK i \in 1..m : s[i] = x
    BY <1>1, <1>3
  <2>2. a # m + 1
    <3> SUFFICES ASSUME a = m + 1 PROVE FALSE
      OBVIOUS
    <3>1. i \in 1..a - 1
      OBVIOUS
    <3> QED
      BY <1>3, <2>1, <3>1 DEF FirstAt
  <2> QED
    BY <2>2
<1>4. \A j \in DOMAIN path : path[j] \in ToSet(path)
  BY DEF ToSet
<1>5. ASSUME NEW j \in DOMAIN path, NEW k \in DOMAIN path, j < k,
             NEW a \in 1..m + 1, NEW b \in 1..m + 1,
             FirstAt(s, path[j], a), FirstAt(s, path[k], b)
      PROVE  a < b
  <2>1. a \in 1..m /\ b \in 1..m
    BY <1>3, <1>4, <1>5
  <2> QED
    BY <1>5, <2>1 DEF Firsts
<1>6. CASE c \in ToSet(path)
  <2>1. WithCell(path, c) = path
    BY <1>6 DEF WithCell
  <2>2. {s[i] : i \in 1..m + 1} = ToSet(path)
    BY <1>2, <1>6
  <2> QED
    BY <1>5, <2>1, <2>2 DEF Firsts
<1>7. CASE c \notin ToSet(path)
  <2> DEFINE next == Append(path, c)
             n == Len(path)
  <2>1. WithCell(path, c) = next
    BY <1>7 DEF WithCell
  <2>2. /\ n \in Nat /\ DOMAIN path = 1..n /\ next \in Seq(Cells) /\ DOMAIN next = 1..n + 1
        /\ next[n + 1] = c /\ \A i \in 1..n : next[i] = path[i]
    OBVIOUS
  <2>3. ToSet(next) = ToSet(path) \cup {c}
    <3> HIDE DEF next, n
    <3>1. 1..n + 1 = (1..n) \cup {n + 1}
      BY <2>2
    <3>2. ToSet(next) = {next[i] : i \in 1..n} \cup {c}
      <4>1. {next[i] : i \in (1..n) \cup {n + 1}} = {next[i] : i \in 1..n} \cup {next[n + 1]}
        BY Zenon
      <4> QED
        BY <2>2, <3>1, <4>1, Zenon DEF ToSet
    <3>3. {next[i] : i \in 1..n} = {path[i] : i \in 1..n}
      BY <2>2
    <3> QED
      BY <2>2, <3>2, <3>3, Zenon DEF ToSet
  <2>4. ASSUME NEW j \in 1..n + 1, NEW k \in 1..n + 1, j < k,
               NEW a \in 1..m + 1, NEW b \in 1..m + 1,
               FirstAt(s, next[j], a), FirstAt(s, next[k], b)
        PROVE  a < b
    <3> HIDE DEF next, n
    <3>1. j \in 1..n
      BY <2>2, <2>4
    <3>2. CASE k \in 1..n
      BY <1>5, <2>2, <2>4, <3>1, <3>2
    <3>3. CASE k = n + 1
      <4>1. a \in 1..m
        BY <1>3, <1>4, <2>2, <2>4, <3>1
      <4>2. s[b] = c
        BY <2>2, <2>4, <3>3 DEF FirstAt
      <4>3. b \notin 1..m
        BY <1>1, <1>7, <4>2
      <4> QED
        BY <4>1, <4>3
    <3> QED
      BY <2>2, <3>2, <3>3
  <2> HIDE DEF next, n
  <2> QED
    BY <1>2, <2>1, <2>2, <2>3, <2>4 DEF Firsts
<1> QED
  BY <1>6, <1>7

LinePath(path, line) ==
  FoldLeft(LAMBDA q, c : IF c \in ToSet(q) THEN q ELSE Append(q, c), path, line)

(* The cells of a line, one after another.                                 *)
LEMMA LineFirsts ==
  \A path, line \in Seq(Cells) :
    /\ LinePath(path, line) \in Seq(Cells)
    /\ \A s : \A m \in Nat :
         Firsts(path, s, m) /\ (\A i \in 1..Len(line) : s[m + i] = line[i]) =>
           Firsts(LinePath(path, line), s, m + Len(line))
<1> TAKE path, line \in Seq(Cells)
<1> DEFINE n == Len(line)
           A == Seq(Cells)
           step == [x \in A \X (1..n) |-> WithCell(x[1], line[x[2]])]
           iter == CHOOSE f : f = [t \in SUBSET (1..n) |->
                     IF t = {} THEN path ELSE WithCell(f[t \ {Max(t)}], line[Max(t)])]
<1>1. n \in Nat /\ DOMAIN line = 1..n /\ \A k \in 1..n : line[k] \in Cells
  BY SeqIsFunction
<1>2. LinePath(path, line) = iter[1..n]
  BY <1>1 DEF LinePath, WithCell, FoldLeft, MapThenFoldSet
<1>3. step \in [A \X (1..n) -> A] /\ path \in A
  <2>1. \A q \in A : \A c \in Cells : WithCell(q, c) \in A
    BY DEF WithCell
  <2> HIDE DEF A
  <2>2. \A q \in A : \A i \in 1..n : WithCell(q, line[i]) \in A
    BY <1>1, <2>1
  <2> QED
    BY <2>2 DEF A
<1>4. iter = [t \in SUBSET (1..n) |->
                IF t = {} THEN path ELSE WithCell(iter[t \ {Max(t)}], line[Max(t)])]
  <2> HIDE DEF A
  <2>1. PICK f \in [SUBSET (1..n) -> A] :
          \A t \in SUBSET (1..n) : f[t] = FoldStep(step, path, f, t)
    <3> HIDE DEF step
    <3>1. FoldTo(A, step, path, n)
      BY <1>1, <1>3, FoldExists, Zenon
    <3> QED
      BY <3>1, Zenon DEF FoldTo
  <2>2. ASSUME NEW t \in SUBSET (1..n)
        PROVE  f[t] = IF t = {} THEN path ELSE WithCell(f[t \ {Max(t)}], line[Max(t)])
    <3>1. CASE t = {}
      BY <2>1, <3>1 DEF FoldStep
    <3>2. CASE t # {}
      <4>1. Max(t) \in 1..n /\ t \ {Max(t)} \in SUBSET (1..n)
        BY <1>1, <3>2, MaxOfRange
      <4>2. f[t \ {Max(t)}] \in A
        BY <4>1
      <4>3. step[f[t \ {Max(t)}], Max(t)] = WithCell(f[t \ {Max(t)}], line[Max(t)])
        BY <4>1, <4>2
      <4>4. f[t] = step[f[t \ {Max(t)}], Max(t)]
        BY <2>1, <3>2 DEF FoldStep
      <4> QED
        BY <3>2, <4>3, <4>4, Zenon
    <3> QED
      BY <3>1, <3>2
  <2>3. f = [t \in SUBSET (1..n) |->
               IF t = {} THEN path ELSE WithCell(f[t \ {Max(t)}], line[Max(t)])]
    <3>1. f = [t \in SUBSET (1..n) |-> f[t]]
      OBVIOUS
    <3> QED
      BY <2>2, <3>1
  <2> QED
    BY <2>3
<1> HIDE DEF iter, step
<1>5. iter[1..0] = path /\ \A k \in 0..n - 1 : iter[1..k + 1] = WithCell(iter[1..k], line[k + 1])
  <2>1. {} \in SUBSET (1..n) /\ 1..0 = {}
    OBVIOUS
  <2>2. iter[{}] = path
    BY <1>4, <2>1
  <2>3. ASSUME NEW k \in 0..n - 1 PROVE iter[1..k + 1] = WithCell(iter[1..k], line[k + 1])
    <3>1. /\ 1..k + 1 \in SUBSET (1..n) /\ 1..k + 1 # {} /\ (1..k + 1) \ {k + 1} = 1..k
          /\ Max(1..k + 1) = k + 1
      BY <1>1, RangeTop
    <3>2. iter[1..k + 1] = IF 1..k + 1 = {} THEN path
                           ELSE WithCell(iter[(1..k + 1) \ {Max(1..k + 1)}], line[Max(1..k + 1)])
      BY <1>4, <3>1
    <3> QED
      BY <3>1, <3>2, Zenon
  <2> QED
    BY <2>1, <2>2, <2>3
<1> DEFINE acc == [k \in 0..n |-> iter[1..k]]
<1>6. acc[0] = path /\ \A k \in 0..n - 1 : acc[k + 1] = WithCell(acc[k], line[k + 1])
  <2>1. 0 \in 0..n /\ \A k \in 0..n - 1 : k \in 0..n /\ k + 1 \in 0..n
    BY <1>1
  <2> QED
    BY <1>5, <2>1, Zenon
<1> HIDE DEF acc
<1>7. acc[n] = LinePath(path, line) /\ n \in 0..n
  BY <1>1, <1>2 DEF acc
<1>8. ASSUME NEW k \in 0..n - 1, acc[k] \in A PROVE acc[k + 1] \in A
  <2>1. k + 1 \in 1..n
    BY <1>1
  <2>2. \A q \in A : \A i \in 1..n : WithCell(q, line[i]) \in A
    BY <1>1 DEF WithCell
  <2>3. WithCell(acc[k], line[k + 1]) \in A
    BY <1>8, <2>1, <2>2
  <2> QED
    BY <1>6, <2>3
<1>9. \A k \in 0..n : acc[k] \in A
  <2> DEFINE S == {k \in Int : acc[k] \in A}
  <2> HIDE DEF A
  <2>1. 0 \in S
    BY <1>3, <1>6
  <2>2. ASSUME NEW k \in 0..n - 1, k \in S PROVE k + 1 \in S
    BY <1>8, <2>2
  <2> HIDE DEF S
  <2>3. n \in Int /\ 0 \in Int
    BY <1>1
  <2>4. \A k \in 0..n : k \in S
    BY <2>1, <2>2, <2>3, Upwards
  <2> QED
    BY <2>4 DEF S
<1>10. ASSUME NEW s, NEW m \in Nat, Firsts(path, s, m), \A i \in 1..n : s[m + i] = line[i]
       PROVE  Firsts(acc[n], s, m + n)
  <2> DEFINE S == {k \in Int : Firsts(acc[k], s, m + k)}
  <2>1. 0 \in S
    <3>1. m + 0 = m /\ 0 \in Int
      OBVIOUS
    <3> QED
      BY <1>6, <1>10, <3>1
  <2>2. ASSUME NEW k \in 0..n - 1, k \in S PROVE k + 1 \in S
    <3>1. /\ k \in 0..n /\ k + 1 \in 1..n /\ k + 1 \in Int
          /\ m + k \in Nat /\ m + (k + 1) = (m + k) + 1
      BY <1>1
    <3>2. acc[k] \in Seq(Cells) /\ Firsts(acc[k], s, m + k)
      BY <1>9, <2>2, <3>1
    <3>3. line[k + 1] \in Cells /\ s[(m + k) + 1] = line[k + 1]
      BY <1>1, <1>10, <3>1
    <3>4. Firsts(WithCell(acc[k], line[k + 1]), s, (m + k) + 1)
      BY <3>1, <3>2, <3>3, FirstsStep, Zenon
    <3>5. Firsts(acc[k + 1], s, m + (k + 1))
      BY <1>6, <3>1, <3>4
    <3> QED
      BY <3>1, <3>5
  <2> HIDE DEF S
  <2>3. n \in S
    <3>1. n \in Int /\ 0 \in Int /\ n \in 0..n
      BY <1>1
    <3> QED
      BY <2>1, <2>2, <3>1, Upwards
  <2> QED
    BY <2>3 DEF S
<1> QED
  BY <1>7, <1>9, <1>10

(* The first m places say what they are a part of.                         *)
LEMMA FirstsPrefix ==
  \A path, s, t : \A m \in Nat :
    Firsts(path, s, m) /\ (\A i \in 1..m : t[i] = s[i]) => Firsts(path, t, m)
<1> TAKE path, s, t
<1> TAKE m \in Nat
<1> HAVE Firsts(path, s, m) /\ \A i \in 1..m : t[i] = s[i]
<1>1. {s[i] : i \in 1..m} = {t[i] : i \in 1..m}
  OBVIOUS
<1>2. \A c : \A a \in 1..m : FirstAt(t, c, a) => FirstAt(s, c, a)
  <2> TAKE c
  <2> TAKE a \in 1..m
  <2>1. 1..a - 1 \subseteq 1..m
    OBVIOUS
  <2> QED
    BY <2>1 DEF FirstAt
<1> QED
  BY <1>1, <1>2 DEF Firsts

LEMMA Concatenation ==
  \A p, q \in Seq(Cells) :
    /\ Len(p) \in Nat /\ Len(p \o q) = Len(p) + Len(q)
    /\ \A i \in 1..Len(p) : (p \o q)[i] = p[i]
    /\ \A i \in 1..Len(q) : (p \o q)[Len(p) + i] = q[i]
<1> TAKE p, q \in Seq(Cells)
<1> DEFINE m == Len(p)
           n == Len(q)
<1>1. m \in Nat /\ n \in Nat /\ Len(p \o q) = m + n
  OBVIOUS
<1>2. \A i \in 1..m + n : (p \o q)[i] = IF i <= m THEN p[i] ELSE q[i - m]
  OBVIOUS
<1>3. ASSUME NEW i \in 1..n PROVE (p \o q)[m + i] = q[i]
  <2> HIDE DEF m, n
  <2>1. m + i \in 1..m + n /\ ~(m + i <= m) /\ (m + i) - m = i
    BY <1>1
  <2> QED
    BY <1>2, <2>1, Zenon
<1> QED
  BY <1>1, <1>2, <1>3

(* The sequences put together so far, from none.                           *)
Joined(ss, n, f) == f[0] = <<>> /\ \A k \in 0..n - 1 : f[k + 1] = f[k] \o ss[k + 1]

LEMMA FlattenJoined ==
  \A T : \A n \in Nat : \A ss \in [1..n -> Seq(T)] :
    \E f \in [0..n -> Seq(T)] : Joined(ss, n, f) /\ FlattenSeq(ss) = f[n]
<1> TAKE T
<1> TAKE n \in Nat
<1> TAKE ss \in [1..n -> Seq(T)]
<1>1. CASE n = 0
  <2> DEFINE f == [k \in 0..n |-> <<>>]
  <2>1. ss = <<>> /\ Len(ss) = 0
    <3>1. ss \in Seq(Seq(T)) /\ Len(ss) = 0
      BY <1>1, FunctionIsSeq
    <3> QED
      BY <3>1, SeqIsFunction
  <2>2. FlattenSeq(ss) = <<>>
    BY <2>1 DEF FlattenSeq
  <2>3. f \in [0..n -> Seq(T)] /\ f[0] = <<>> /\ f[n] = <<>> /\ 0..n - 1 = {}
    BY <1>1
  <2> HIDE DEF f
  <2> QED
    BY <2>2, <2>3 DEF Joined
<1>2. CASE n # 0
  <2>1. n \in Nat \ {0}
    BY <1>2
  <2>2. PICK g \in [1..n -> Seq(T)] : Joins(ss, n, g) /\ FlattenSeq(ss) = g[n]
    BY <2>1, FlattenJoins, Zenon
  <2> DEFINE f == [k \in 0..n |-> IF k = 0 THEN <<>> ELSE g[k]]
  <2>3. f[0] = <<>> /\ \A k \in 1..n : f[k] = g[k]
    BY <2>1
  <2>4. f \in [0..n -> Seq(T)]
    <3>1. \A k \in 0..n : k = 0 \/ k \in 1..n
      OBVIOUS
    <3>2. <<>> \in Seq(T) /\ \A k \in 1..n : g[k] \in Seq(T)
      OBVIOUS
    <3> QED
      BY <3>1, <3>2
  <2>5. \A k \in 0..n - 1 : f[k + 1] = f[k] \o ss[k + 1]
    <3> HIDE DEF f
    <3> TAKE k \in 0..n - 1
    <3>1. CASE k = 0
      <4>1. 1 \in 1..n /\ k + 1 = 1
        BY <2>1, <3>1
      <4>2. ss[1] \in Seq(T) /\ \A q \in Seq(T) : <<>> \o q = q
        BY <4>1
      <4> QED
        BY <2>2, <2>3, <3>1, <4>1, <4>2 DEF Joins
    <3>2. CASE k # 0
      <4>1. k \in 1..n - 1 /\ k \in 1..n /\ k + 1 \in 1..n
        BY <3>2
      <4> QED
        BY <2>2, <2>3, <4>1 DEF Joins
    <3> QED
      BY <3>1, <3>2
  <2>6. f[n] = g[n]
    BY <2>1
  <2> HIDE DEF f
  <2> QED
    BY <2>2, <2>3, <2>4, <2>5, <2>6 DEF Joined
<1> QED
  BY <1>1, <1>2

LinesOf(f) == [p \in Parts |-> IF Feature(p) = f THEN filled[p] ELSE <<>>]

(* Each feature's path has the cells of its lines as they first appear     *)
(* (a5_line_string_to_cells_rs(), regions.rs:183-197).                     *)
LEMMA PathsFirst ==
  ASSUME NEW n \in Nat, Parts = 1..n, input.number \in Nat,
         \A p \in Parts : filled[p] \in Seq(Cells) /\ Feature(p) \in 1..input.number
  PROVE  /\ Paths \in [1..input.number -> Seq(Cells)]
         /\ \A f \in 1..input.number :
              /\ FlattenSeq(LinesOf(f)) \in Seq(Cells)
              /\ Firsts(Paths[f], FlattenSeq(LinesOf(f)), Len(FlattenSeq(LinesOf(f))))
<1> DEFINE F == 1..input.number
           A == [F -> Seq(Cells)]
           base == [f \in F |-> <<>>]
           step == [x \in A \X (1..n) |-> WithLine(x[1], x[2])]
           iter == CHOOSE f : f = [s \in SUBSET (1..n) |->
                     IF s = {} THEN base ELSE WithLine(f[s \ {Max(s)}], InOrder[Max(s)])]
<1>1. DOMAIN InOrder = 1..n /\ \A k \in 1..n : InOrder[k] = k
  BY DEF InOrder
<1>2. Paths = iter[1..n]
  BY <1>1 DEF Paths, FoldLeft, MapThenFoldSet
<1>a. \A paths : \A p : WithLine(paths, p) =
                          [paths EXCEPT ![Feature(p)] = LinePath(paths[Feature(p)], filled[p])]
  BY DEF WithLine, LinePath
<1>b. \A path, line \in Seq(Cells) : LinePath(path, line) \in Seq(Cells)
  BY LineFirsts
<1>3. step \in [A \X (1..n) -> A] /\ base \in A
  <2>1. ASSUME NEW a \in A, NEW p \in 1..n PROVE WithLine(a, p) \in A
    <3>1. Feature(p) \in F /\ LinePath(a[Feature(p)], filled[p]) \in Seq(Cells)
      BY <1>b
    <3> QED
      BY <1>a, <3>1
  <2>2. base \in A
    OBVIOUS
  <2> HIDE DEF A, base
  <2> QED
    BY <2>1, <2>2
<1>4. iter = [s \in SUBSET (1..n) |->
                IF s = {} THEN base ELSE WithLine(iter[s \ {Max(s)}], InOrder[Max(s)])]
  <2> HIDE DEF A, base
  <2>1. PICK f \in [SUBSET (1..n) -> A] :
          \A s \in SUBSET (1..n) : f[s] = FoldStep(step, base, f, s)
    <3> HIDE DEF step
    <3>1. FoldTo(A, step, base, n)
      BY <1>3, FoldExists, Zenon
    <3> QED
      BY <3>1, Zenon DEF FoldTo
  <2>2. ASSUME NEW s \in SUBSET (1..n)
        PROVE  f[s] = IF s = {} THEN base ELSE WithLine(f[s \ {Max(s)}], InOrder[Max(s)])
    <3>1. CASE s = {}
      BY <2>1, <3>1 DEF FoldStep
    <3>2. CASE s # {}
      <4>1. Max(s) \in 1..n /\ s \ {Max(s)} \in SUBSET (1..n)
        BY <3>2, MaxOfRange
      <4>2. f[s \ {Max(s)}] \in A
        BY <4>1
      <4>3. step[f[s \ {Max(s)}], Max(s)] = WithLine(f[s \ {Max(s)}], Max(s))
        BY <4>1, <4>2
      <4>4. f[s] = step[f[s \ {Max(s)}], Max(s)]
        BY <2>1, <3>2 DEF FoldStep
      <4>5. InOrder[Max(s)] = Max(s)
        BY <1>1, <4>1
      <4> QED
        BY <3>2, <4>3, <4>4, <4>5, Zenon
    <3> QED
      BY <3>1, <3>2
  <2>3. f = [s \in SUBSET (1..n) |->
               IF s = {} THEN base ELSE WithLine(f[s \ {Max(s)}], InOrder[Max(s)])]
    <3>1. f = [s \in SUBSET (1..n) |-> f[s]]
      OBVIOUS
    <3> QED
      BY <2>2, <3>1
  <2> QED
    BY <2>3
<1> HIDE DEF iter, step
<1>5. iter[1..0] = base /\ \A k \in 0..n - 1 : iter[1..k + 1] = WithLine(iter[1..k], k + 1)
  <2> HIDE DEF base
  <2>1. {} \in SUBSET (1..n) /\ 1..0 = {}
    OBVIOUS
  <2>2. iter[{}] = base
    BY <1>4, <2>1
  <2>3. ASSUME NEW k \in 0..n - 1 PROVE iter[1..k + 1] = WithLine(iter[1..k], k + 1)
    <3>1. /\ 1..k + 1 \in SUBSET (1..n) /\ 1..k + 1 # {} /\ (1..k + 1) \ {k + 1} = 1..k
          /\ Max(1..k + 1) = k + 1
      BY RangeTop
    <3>2. iter[1..k + 1] = IF 1..k + 1 = {} THEN base
                           ELSE WithLine(iter[(1..k + 1) \ {Max(1..k + 1)}], InOrder[Max(1..k + 1)])
      BY <1>4, <3>1
    <3>3. InOrder[k + 1] = k + 1
      <4>1. k + 1 \in 1..n
        OBVIOUS
      <4> QED
        BY <1>1, <4>1
    <3> QED
      BY <3>1, <3>2, <3>3, Zenon
  <2> QED
    BY <2>1, <2>2, <2>3
<1> DEFINE acc == [k \in 0..n |-> iter[1..k]]
<1>6. acc[0] = base /\ \A k \in 0..n - 1 : acc[k + 1] = WithLine(acc[k], k + 1)
  <2> HIDE DEF base
  <2>1. 0 \in 0..n /\ \A k \in 0..n - 1 : k \in 0..n /\ k + 1 \in 0..n
    OBVIOUS
  <2> QED
    BY <1>5, <2>1, Zenon
<1>7. acc[n] = Paths
  BY <1>2
<1> HIDE DEF acc
<1>8. ASSUME NEW k \in 0..n - 1, acc[k] \in A
      PROVE  /\ acc[k + 1] \in A
             /\ \A f \in F : acc[k + 1][f] = IF Feature(k + 1) = f THEN LinePath(acc[k][f], filled[k + 1])
                                             ELSE acc[k][f]
  <2>1. k + 1 \in 1..n
    OBVIOUS
  <2>2. filled[k + 1] \in Seq(Cells) /\ Feature(k + 1) \in F
    BY <2>1
  <2>3. acc[k + 1] = [acc[k] EXCEPT ![Feature(k + 1)] = LinePath(acc[k][Feature(k + 1)], filled[k + 1])]
    BY <1>6, <1>a
  <2>4. LinePath(acc[k][Feature(k + 1)], filled[k + 1]) \in Seq(Cells)
    BY <1>8, <1>b, <2>2
  <2> QED
    BY <1>8, <2>2, <2>3, <2>4
<1>9. \A k \in 0..n : acc[k] \in A
  <2> DEFINE S == {k \in Int : acc[k] \in A}
  <2>1. 0 \in S
    <3>1. acc[0] \in A
      BY <1>3, <1>6
    <3> QED
      BY <3>1
  <2>2. ASSUME NEW k \in 0..n - 1, k \in S PROVE k + 1 \in S
    BY <1>8, <2>2
  <2> HIDE DEF S
  <2>3. n \in Int /\ 0 \in Int
    OBVIOUS
  <2>4. \A k \in 0..n : k \in S
    BY <2>1, <2>2, <2>3, Upwards
  <2> QED
    BY <2>4 DEF S
<1>10. ASSUME NEW f \in F
       PROVE  /\ FlattenSeq(LinesOf(f)) \in Seq(Cells)
              /\ Firsts(acc[n][f], FlattenSeq(LinesOf(f)), Len(FlattenSeq(LinesOf(f))))
  <2> DEFINE ss == LinesOf(f)
  <2>1. ss \in [1..n -> Seq(Cells)]
    BY DEF LinesOf
  <2>2. PICK J \in [0..n -> Seq(Cells)] : Joined(ss, n, J) /\ FlattenSeq(ss) = J[n]
    <3> HIDE DEF ss
    <3> QED
      BY <2>1, FlattenJoined, Zenon
  <2>3. \A k \in 1..n : ss[k] = IF Feature(k) = f THEN filled[k] ELSE <<>>
    BY DEF LinesOf
  <2> HIDE DEF ss
  <2> DEFINE S == {k \in Int : Firsts(acc[k][f], J[k], Len(J[k]))}
  <2>4. 0 \in S
    <3>1. acc[0][f] = <<>> /\ J[0] = <<>>
      BY <1>6, <2>2 DEF Joined
    <3>2. Firsts(<<>>, <<>>, Len(<<>>))
      BY DEF Firsts, ToSet
    <3>3. Firsts(acc[0][f], J[0], Len(J[0]))
      BY <3>1, <3>2, Zenon
    <3> QED
      BY <3>3
  <2>5. ASSUME NEW k \in 0..n - 1, k \in S PROVE k + 1 \in S
    <3>1. k \in 0..n /\ k + 1 \in 0..n /\ k + 1 \in 1..n /\ k + 1 \in Int
      OBVIOUS
    <3>2. J[k] \in Seq(Cells) /\ J[k + 1] = J[k] \o ss[k + 1] /\ acc[k] \in A /\ acc[k][f] \in Seq(Cells)
      BY <1>9, <2>2, <3>1 DEF Joined
    <3>3. Firsts(acc[k][f], J[k], Len(J[k]))
      BY <2>5
    <3>4. Firsts(acc[k + 1][f], J[k + 1], Len(J[k + 1]))
      <4>1. CASE Feature(k + 1) = f
        <5> DEFINE line == filled[k + 1]
                   m == Len(J[k])
        <5>1. line \in Seq(Cells) /\ ss[k + 1] = line
          BY <2>3, <3>1, <4>1
        <5>2. /\ m \in Nat /\ Len(J[k] \o line) = m + Len(line)
              /\ \A i \in 1..m : (J[k] \o line)[i] = J[k][i]
              /\ \A i \in 1..Len(line) : (J[k] \o line)[m + i] = line[i]
          BY <3>2, <5>1, Concatenation, Zenon
        <5> DEFINE s == J[k] \o line
        <5>3. J[k + 1] = s
          BY <3>2, <5>1
        <5> HIDE DEF s, line, m
        <5>4. Firsts(acc[k][f], s, m)
          <6>1. Firsts(acc[k][f], J[k], m) /\ \A i \in 1..m : s[i] = J[k][i]
            BY <3>3, <5>2 DEF m, s
          <6> QED
            BY <5>2, <6>1, FirstsPrefix, Zenon
        <5>5. Firsts(LinePath(acc[k][f], line), s, m + Len(line))
          <6>1. \A i \in 1..Len(line) : s[m + i] = line[i]
            BY <5>2 DEF s
          <6> QED
            BY <3>2, <5>1, <5>2, <5>4, <6>1, LineFirsts, Zenon
        <5>6. acc[k + 1][f] = LinePath(acc[k][f], line)
          BY <1>8, <3>2, <4>1 DEF line
        <5>7. Len(s) = m + Len(line)
          BY <5>2 DEF s
        <5> QED
          BY <5>3, <5>5, <5>6, <5>7, Zenon
      <4>2. CASE Feature(k + 1) # f
        <5>1. ss[k + 1] = <<>>
          BY <2>3, <3>1, <4>2
        <5>2. \A q \in Seq(Cells) : q \o <<>> = q
          OBVIOUS
        <5>3. J[k + 1] = J[k]
          BY <3>2, <5>1, <5>2
        <5>4. acc[k + 1][f] = acc[k][f]
          BY <1>8, <3>2, <4>2
        <5> QED
          BY <3>3, <5>3, <5>4, Zenon
      <4> QED
        BY <4>1, <4>2
    <3> QED
      BY <3>1, <3>4
  <2> HIDE DEF S
  <2>6. n \in S
    <3>1. n \in Int /\ 0 \in Int /\ n \in 0..n
      OBVIOUS
    <3> QED
      BY <2>4, <2>5, <3>1, Upwards
  <2>7. Firsts(acc[n][f], J[n], Len(J[n])) /\ J[n] \in Seq(Cells)
    <3>1. n \in 0..n
      OBVIOUS
    <3> QED
      BY <2>2, <2>6, <3>1 DEF S
  <2> QED
    BY <2>2, <2>7 DEF ss
<1> QED
  <2>1. n \in 0..n
    OBVIOUS
  <2> QED
    BY <1>7, <1>9, <1>10, <2>1

-----------------------------------------------------------------------------
(* The answer.                                                             *)

LEMMA InputType ==
  ASSUME input \in Calls
  PROVE  /\ input.kind \in {"polygons", "lines"} /\ input.number \in Nat
         /\ Len(input.features) \in Nat /\ Parts = 1..Len(input.features) /\ Parts \subseteq Nat
         /\ input.fails \subseteq Parts /\ (input.kind = "lines" => input.coarse = {})
         /\ \A p \in Parts : Feature(p) \in 1..input.number /\ Feature(p) \in Nat
         /\ DOMAIN input.rings \subseteq Nat \ {0}
         /\ \A i \in DOMAIN input.rings :
              /\ input.kind = "polygons" /\ input.rings[i].part \in Parts
              /\ input.rings[i].cells \subseteq Cells
              /\ input.rings[i].outer <=>
                   \A j \in 1..i - 1 : input.rings[j].part # input.rings[i].part
<1>1. /\ input.kind \in {"polygons", "lines"} /\ input.number \in Nat
      /\ input.features \in Seq(1..input.number) /\ input.fails \subseteq Parts
      /\ input.kind = "lines" => input.rings = <<>> /\ input.coarse = {}
  BY CallsAssumption DEF CallsAssumption, Parts
<1>2. DOMAIN <<>> = {}
  OBVIOUS
<1>3. /\ Len(input.features) \in Nat /\ Parts = 1..Len(input.features)
      /\ \A p \in Parts : input.features[p] \in 1..input.number
  BY <1>1, SeqIsFunction DEF Parts
<1>4. ASSUME NEW i \in DOMAIN input.rings
      PROVE  /\ input.kind = "polygons" /\ input.rings[i].part \in Parts
             /\ input.rings[i].outer <=>
                  \A j \in 1..i - 1 : input.rings[j].part # input.rings[i].part
  <2>1. input.kind = "polygons"
    BY <1>1, <1>2, <1>4
  <2> QED
    BY <2>1, CallsAssumption DEF CallsAssumption, Parts
<1>5. /\ DOMAIN input.rings \subseteq Nat \ {0}
      /\ \A i \in DOMAIN input.rings : input.rings[i].cells \subseteq Cells
  BY RingsAssumption DEF RingsAssumption
<1>6. 1..input.number \subseteq Nat /\ 1..Len(input.features) \subseteq Nat
  BY <1>1, <1>3
<1> QED
  BY <1>1, <1>3, <1>4, <1>5, <1>6 DEF Feature

(* What a part or a line is filled with.                                   *)
LEMMA FilledType ==
  ASSUME input \in Calls, NEW p \in Parts
  PROVE  /\ Filled(p) = Bad <=> p \in input.fails
         /\ p \notin input.fails =>
              Filled(p) \in IF input.kind = "lines" THEN Seq(Cells) ELSE SUBSET Cells
<1>1. CASE p \in input.fails
  BY <1>1 DEF Filled
<1>2. CASE p \notin input.fails /\ input.kind = "lines"
  <2>1. input.lines \in Seq(Seq(Cells)) /\ Len(input.lines) = Len(input.features)
    BY <1>2, CallsAssumption DEF CallsAssumption
  <2>2. p \in 1..Len(input.lines)
    BY <2>1, InputType
  <2>3. input.lines[p] \in Seq(Cells)
    BY <2>1, <2>2
  <2> QED
    BY <1>2, <2>3, ResultsAssumption DEF Filled
<1>3. CASE p \notin input.fails /\ input.kind # "lines"
  <2>1. CellsOf(GroupPart(p).outer) \subseteq Cells
    BY InputType DEF CellsOf, GroupPart
  <2>2. Filled(p) \in SUBSET Cells
    BY <1>3, <2>1 DEF Filled
  <2> QED
    BY <1>3, <2>2, ResultsAssumption
<1> QED
  BY <1>1, <1>2, <1>3

(* The rings of a part say what it holds: its first is its outer one.      *)
LEMMA PartHolds ==
  ASSUME input \in Calls, NEW p \in Parts, NEW c
  PROVE  c \in CellsOf(GroupPart(p).outer) \ CellsOf(GroupPart(p).holes) <=>
           \E i \in DOMAIN input.rings :
             /\ input.rings[i].part = p /\ input.rings[i].outer /\ c \in input.rings[i].cells
             /\ \A j \in DOMAIN input.rings \ {i} :
                  input.rings[j].part = p => c \notin input.rings[j].cells
<1>1. ASSUME NEW i \in DOMAIN input.rings, NEW j \in DOMAIN input.rings,
             input.rings[i].part = p, input.rings[j].part = p,
             input.rings[i].outer, input.rings[j].outer
      PROVE  i = j
  <2>1. i \in Nat \ {0} /\ j \in Nat \ {0}
    BY InputType
  <2>2. i \notin 1..j - 1 /\ j \notin 1..i - 1
    BY <1>1, InputType
  <2> QED
    BY <2>1, <2>2
<1>2. c \in CellsOf(GroupPart(p).outer) <=>
        \E i \in DOMAIN input.rings :
          input.rings[i].part = p /\ input.rings[i].outer /\ c \in input.rings[i].cells
  BY DEF CellsOf, GroupPart
<1>3. c \in CellsOf(GroupPart(p).holes) <=>
        \E i \in DOMAIN input.rings :
          input.rings[i].part = p /\ ~input.rings[i].outer /\ c \in input.rings[i].cells
  BY DEF CellsOf, GroupPart
<1> QED
  BY <1>1, <1>2, <1>3

AllFilled == \A p \in Parts : filled[p] = Filled(p)

(* What merging answers with.                                              *)
Merged ==
  IF \E p \in Parts : Stops(p)
  THEN Raised(IF filled[FirstStop] = Bad THEN "fails" ELSE "clashes", FirstStop)
  ELSE IF input.kind = "lines" THEN Given(Paths)
  ELSE Given([f \in 1..input.number |-> IF f \in input.missing THEN NA ELSE Coverings[f]])

(* Parts of two resolutions meet at some part of the feature.              *)
LEMMA MixedClashes ==
  ASSUME input \in Calls, NEW n \in 0..Len(input.features)
  PROVE  Mixed(n) <=> \E p \in 1..n : Clashes(p)
<1>1. Len(input.features) \in Nat /\ n \in Nat
  BY InputType
<1>2. ASSUME NEW p \in 1..n, Clashes(p) PROVE Mixed(n)
  <2>1. PICK q \in 1..p - 1 :
          Feature(q) = Feature(p) /\ (q \in input.coarse) # (p \in input.coarse)
    BY <1>2 DEF Clashes
  <2>2. q \in 1..n
    BY <1>1, <2>1
  <2>3. CASE q \in input.coarse
    BY <1>2, <2>1, <2>2, <2>3 DEF Mixed
  <2>4. CASE q \notin input.coarse
    BY <1>2, <2>1, <2>2, <2>4 DEF Mixed
  <2> QED
    BY <2>3, <2>4
<1>3. ASSUME Mixed(n) PROVE \E p \in 1..n : Clashes(p)
  <2>1. PICK p \in 1..n, q \in 1..n :
          Feature(p) = Feature(q) /\ p \in input.coarse /\ q \notin input.coarse
    BY <1>3 DEF Mixed
  <2>2. (p \in input.coarse) # (q \in input.coarse) /\ (q \in input.coarse) # (p \in input.coarse)
    BY <2>1
  <2>3. p \in 1..q - 1 \/ q \in 1..p - 1
    BY <1>1, <2>1
  <2>4. CASE p \in 1..q - 1
    BY <2>1, <2>2, <2>4 DEF Clashes
  <2>5. CASE q \in 1..p - 1
    BY <2>1, <2>2, <2>5 DEF Clashes
  <2> QED
    BY <2>3, <2>4, <2>5
<1> QED
  BY <1>2, <1>3

(* The failure raised is the first.                                        *)
LEMMA StopIsFirst ==
  ASSUME input \in Calls, AllFilled, \E p \in Parts : Stops(p)
  PROVE  /\ FirstStop \in Parts
         /\ FirstStop \in input.fails \/ Clashes(FirstStop)
         /\ filled[FirstStop] = Bad <=> FirstStop \in input.fails
         /\ \A p \in input.fails : FirstStop <= p
         /\ ~Mixed(FirstStop - 1)
<1> DEFINE stops == {p \in Parts : Stops(p)}
<1>1. \A p \in Parts : filled[p] = Bad <=> p \in input.fails
  BY FilledType DEF AllFilled
<1>2. /\ Len(input.features) \in Nat /\ Parts = 1..Len(input.features)
      /\ input.fails \subseteq Parts
  BY InputType
<1>3. stops \subseteq Nat /\ stops # {}
  BY <1>2
<1>4. PICK k \in stops : \A j \in stops : k <= j
  BY <1>3, Least
<1>5. k \in Parts /\ Stops(k) /\ \A q \in 1..k - 1 : ~Stops(q)
  <2>1. \A q \in 1..k - 1 : q \in Parts /\ ~(k <= q)
    BY <1>2, <1>4
  <2> QED
    BY <1>4, <2>1
<1>6. /\ FirstStop \in Parts /\ Stops(FirstStop)
      /\ \A q \in 1..FirstStop - 1 : ~Stops(q)
  BY <1>5 DEF FirstStop
<1>7. \A p \in input.fails : FirstStop <= p
  <2> TAKE p \in input.fails
  <2>1. p \notin 1..FirstStop - 1
    BY <1>1, <1>2, <1>6 DEF Stops
  <2> QED
    BY <1>2, <1>6, <2>1
<1>8. ~Mixed(FirstStop - 1)
  <2>1. FirstStop - 1 \in 0..Len(input.features)
    BY <1>2, <1>6
  <2>2. \A q \in 1..FirstStop - 1 : ~Clashes(q)
    BY <1>6 DEF Stops
  <2> QED
    BY <2>1, <2>2, MixedClashes
<1> QED
  BY <1>1, <1>6, <1>7, <1>8 DEF Stops

(* With no failure there is a path, or a covering, for each feature.       *)
LEMMA NoneFails ==
  ASSUME input \in Calls, AllFilled, ~\E p \in Parts : Stops(p)
  PROVE  /\ input.fails = {} /\ ~Mixed(Len(input.features))
         /\ input.kind = "lines" =>
              /\ Paths \in [1..input.number -> Seq(Cells)]
              /\ \A f \in 1..input.number :
                   /\ FlattenSeq(LinesOf(f)) \in Seq(Cells)
                   /\ Firsts(Paths[f], FlattenSeq(LinesOf(f)), Len(FlattenSeq(LinesOf(f))))
         /\ input.kind = "polygons" =>
              /\ Coverings \in [1..input.number -> SUBSET Cells]
              /\ \A f \in 1..input.number :
                   Coverings[f] = UNION {filled[p] : p \in {q \in Parts : Feature(q) = f}}
<1>1. \A p \in Parts : filled[p] = Bad <=> p \in input.fails
  BY FilledType DEF AllFilled
<1>2. input.fails = {}
  BY <1>1, InputType DEF Stops
<1>3. \A p \in Parts : filled[p] \in IF input.kind = "lines" THEN Seq(Cells) ELSE SUBSET Cells
  BY <1>2, FilledType DEF AllFilled
<1>4. /\ Len(input.features) \in Nat /\ Parts = 1..Len(input.features) /\ input.number \in Nat
      /\ \A p \in Parts : Feature(p) \in 1..input.number
  BY InputType
<1>7. ~Mixed(Len(input.features))
  BY <1>4, MixedClashes DEF Stops
<1>5. CASE input.kind = "lines"
  BY <1>2, <1>3, <1>4, <1>5, <1>7, PathsFirst
<1>6. CASE input.kind # "lines"
  BY <1>2, <1>3, <1>4, <1>6, <1>7, CoveringsUnite
<1> QED
  BY <1>5, <1>6

LEMMA MergedType ==
  ASSUME input \in Calls, AllFilled
  PROVE  Merged \in Answers /\ Merged.error # "crosses"
<1>1. <<>> \in Seq(Results \cup {NA})
  OBVIOUS
<1>2. CASE \E p \in Parts : Stops(p)
  <2>1. FirstStop \in Nat
    BY <1>2, StopIsFirst, InputType
  <2> QED
    BY <1>1, <1>2, <2>1 DEF Merged, Raised, Answers
<1>3. CASE ~\E p \in Parts : Stops(p)
  <2>1. \A v \in [1..input.number -> Results \cup {NA}] :
          Given(v) \in Answers /\ Given(v).error # "crosses"
    <3> TAKE v \in [1..input.number -> Results \cup {NA}]
    <3>1. v \in Seq(Results \cup {NA})
      <4>1. input.number \in Nat
        BY InputType
      <4> QED
        BY <4>1, FunctionIsSeq
    <3> QED
      BY <3>1 DEF Given, Answers
  <2>2. CASE input.kind = "lines"
    <3>1. Paths \in [1..input.number -> Results \cup {NA}]
      BY <1>3, <2>2, NoneFails DEF Results
    <3> QED
      BY <1>3, <2>1, <2>2, <3>1 DEF Merged
  <2>3. CASE input.kind # "lines"
    <3> DEFINE v == [f \in 1..input.number |-> IF f \in input.missing THEN NA ELSE Coverings[f]]
    <3>1. \A f \in 1..input.number : Coverings[f] \in SUBSET Cells
      BY <1>3, <2>3, NoneFails, InputType
    <3>2. v \in [1..input.number -> Results \cup {NA}]
      BY <3>1 DEF Results
    <3>3. Merged = Given(v)
      BY <1>3, <2>3 DEF Merged
    <3> HIDE DEF v
    <3> QED
      BY <2>1, <3>2, <3>3
  <2> QED
    BY <2>2, <2>3
<1> QED
  BY <1>2, <1>3

AnswerInv ==
  /\ filled = [p \in Parts |-> filled[p]]
  /\ \A p \in Parts : filled[p] \in {NULL, Filled(p)}
  /\ phase \in {"check", "fill", "done"}
  /\ phase # "done" => answer = NULL
  /\ phase = "done" => /\ answer \in Answers
                       /\ \/ answer.error = "crosses"
                          \/ AllFilled /\ answer = Merged

-----------------------------------------------------------------------------
(* The call.                                                               *)

SweepsInv ==
  /\ input \in Calls
  /\ pts = [i \in DOMAIN input.rings |-> Deduped(input.rings[i].points)]
  /\ sweeps = [i \in DOMAIN input.rings |-> sweeps[i]]
  /\ \A i \in DOMAIN input.rings : pts[i] \in Seq(Points) /\ SweepInv(pts[i], sweeps[i])

NoneCrosses == \A i \in DOMAIN sweeps : IsDone(i) /\ ~sweeps[i].crosses

(* What each phase has established.                                        *)
PhaseInv ==
  /\ phase \in {"check", "fill", "done"}
  /\ phase = "fill" => NoneCrosses
  /\ phase = "done" =>
       \/ NoneCrosses /\ answer.error # "crosses"
       \/ \E i \in DOMAIN sweeps :
            IsFirst(i) /\ answer = Raised("crosses", Feature(input.rings[i].part))

LEMMA SweepsInit == Init => SweepsInv
  <1> SUFFICES ASSUME Init PROVE SweepsInv
    OBVIOUS
  <1>1. \A i \in DOMAIN input.rings : pts[i] \in Seq(Points)
    BY RingsAssumption, DedupedType DEF Init, RingsAssumption
  <1>2. \A i \in DOMAIN input.rings : SweepInv(pts[i], sweeps[i])
    BY <1>1, StartedInv DEF Init
  <1> QED
    BY <1>1, <1>2 DEF Init, SweepsInv

LEMMA SweepsStep == SweepsInv /\ [Next]_vars => SweepsInv'
  <1> SUFFICES ASSUME SweepsInv, [Next]_vars PROVE SweepsInv'
    OBVIOUS
  <1>1. ASSUME NEW i \in DOMAIN sweeps, Sweep(i) PROVE SweepsInv'
    <2>1. PICK e \in sweeps[i].todo :
            /\ IsNextEdge(pts[i], sweeps[i], e)
            /\ sweeps' = [sweeps EXCEPT ![i] = Swept(pts[i], sweeps[i], e)]
      BY <1>1 DEF Sweep
    <2>2. UNCHANGED <<input, pts>>
      BY <1>1 DEF Sweep
    <2>3. i \in DOMAIN input.rings
      BY DEF SweepsInv
    <2>4. SweepInv(pts[i], Swept(pts[i], sweeps[i], e))
      BY <2>1, <2>3, SweptInv DEF SweepsInv
    <2>5. \A j \in DOMAIN input.rings : SweepInv(pts[j], sweeps'[j])
      BY <2>1, <2>3, <2>4 DEF SweepsInv
    <2>6. sweeps' = [j \in DOMAIN input.rings |-> sweeps'[j]]
      BY <2>1, <2>3 DEF SweepsInv
    <2> QED
      BY <2>2, <2>5, <2>6 DEF SweepsInv
  <1>2. ASSUME UNCHANGED <<input, pts, sweeps>> PROVE SweepsInv'
    BY <1>2 DEF SweepsInv
  <1>3. CASE \E i \in DOMAIN sweeps : Refuse(i)
    BY <1>2, <1>3 DEF Refuse
  <1>4. CASE Accept
    BY <1>2, <1>4 DEF Accept
  <1>5. CASE \E p \in Parts : Fill(p)
    BY <1>2, <1>5 DEF Fill
  <1>6. CASE Merge
    BY <1>2, <1>6 DEF Merge
  <1>7. CASE UNCHANGED vars
    BY <1>2, <1>7 DEF vars
  <1> QED
    BY <1>1, <1>3, <1>4, <1>5, <1>6, <1>7 DEF Next

LEMMA PhaseStep == PhaseInv /\ [Next]_vars => PhaseInv'
  <1> SUFFICES ASSUME PhaseInv, [Next]_vars PROVE PhaseInv'
    OBVIOUS
  <1>1. ASSUME NEW i \in DOMAIN sweeps, Sweep(i) PROVE PhaseInv'
    BY <1>1 DEF Sweep, PhaseInv
  <1>2. ASSUME NEW i \in DOMAIN sweeps, Refuse(i) PROVE PhaseInv'
    <2>1. /\ phase' = "done" /\ IsFirst(i)
          /\ answer' = Raised("crosses", Feature(input.rings[i].part))
          /\ UNCHANGED <<input, sweeps>>
      BY <1>2 DEF Refuse
    <2>2. IsFirst(i)' /\ i \in DOMAIN sweeps'
      BY <2>1 DEF IsFirst, IsDone
    <2>3. answer' = Raised("crosses", Feature(input.rings[i].part))'
      BY <2>1 DEF Raised, Feature
    <2> QED
      BY <2>1, <2>2, <2>3 DEF PhaseInv
  <1>3. CASE Accept
    BY <1>3 DEF Accept, PhaseInv, NoneCrosses, IsDone
  <1>4. ASSUME NEW p \in Parts, Fill(p) PROVE PhaseInv'
    BY <1>4 DEF Fill, PhaseInv, NoneCrosses, IsDone
  <1>5. CASE Merge
    <2>1. NoneCrosses /\ phase' = "done" /\ UNCHANGED sweeps
      BY <1>5 DEF Merge, PhaseInv
    <2>2. answer'.error # "crosses"
      BY <1>5 DEF Merge, Raised, Given
    <2> QED
      BY <2>1, <2>2 DEF PhaseInv, NoneCrosses, IsDone
  <1>6. CASE UNCHANGED vars
    BY <1>6 DEF vars, PhaseInv, NoneCrosses, IsFirst, IsDone, Raised, Feature
  <1> QED
    BY <1>1, <1>2, <1>3, <1>4, <1>5, <1>6 DEF Next

LEMMA AnswerInit == Init => AnswerInv
  BY DEF Init, AnswerInv, Parts

LEMMA AnswerStep == SweepsInv /\ AnswerInv /\ [Next]_vars => AnswerInv'
  <1> SUFFICES ASSUME SweepsInv, AnswerInv, [Next]_vars PROVE AnswerInv'
    OBVIOUS
  <1>0. input \in Calls /\ NULL \notin Answers
    BY ResultsAssumption DEF SweepsInv
  <1>1. ASSUME UNCHANGED input PROVE Parts' = Parts /\ \A p : Filled(p)' = Filled(p)
    BY <1>1 DEF Parts, Filled, GroupPart, CellsOf
  <1>9. ASSUME UNCHANGED <<input, filled>> PROVE Merged' = Merged
    <2>1. Coverings' = Coverings
      BY <1>9, SMT DEF Coverings, WithPart, Feature, InOrder, Parts, FoldLeft, MapThenFoldSet
    <2>2. Paths' = Paths
      BY <1>9, SMT DEF Paths, WithLine, Feature, InOrder, Parts, FoldLeft, MapThenFoldSet
    <2>3. \A p : Stops(p)' <=> Stops(p)
      BY <1>9 DEF Stops, Clashes, Feature
    <2>4. FirstStop' = FirstStop
      BY <1>1, <1>9, <2>3, SMT DEF FirstStop, Parts
    <2> QED
      BY <1>1, <1>9, <2>1, <2>2, <2>3, <2>4 DEF Merged, Raised, Given
  <1>2. ASSUME UNCHANGED <<input, filled, answer>>, phase # "done",
               phase' \in {"check", "fill"}
        PROVE  AnswerInv'
    BY <1>1, <1>2 DEF AnswerInv
  <1>3. CASE \E i \in DOMAIN sweeps : Sweep(i)
    BY <1>2, <1>3 DEF Sweep
  <1>4. ASSUME NEW i \in DOMAIN sweeps, Refuse(i) PROVE AnswerInv'
    <2>1. /\ UNCHANGED <<input, filled>> /\ phase' = "done"
          /\ answer' = Raised("crosses", Feature(input.rings[i].part))
      BY <1>4 DEF Refuse
    <2>2. Feature(input.rings[i].part) \in Nat
      <3>1. i \in DOMAIN input.rings
        BY DEF SweepsInv
      <3> QED
        BY <1>0, <3>1, InputType
    <2>3. answer' \in Answers /\ answer'.error = "crosses"
      <3>1. <<>> \in Seq(Results \cup {NA})
        OBVIOUS
      <3> QED
        BY <2>1, <2>2, <3>1 DEF Raised, Answers
    <2>4. Parts' = Parts /\ \A p \in Parts : filled'[p] \in {NULL, Filled(p)'}
      BY <1>1, <2>1 DEF AnswerInv
    <2>5. filled' = [p \in Parts' |-> filled'[p]]
      BY <2>1, <2>4 DEF AnswerInv
    <2> QED
      BY <2>1, <2>3, <2>4, <2>5 DEF AnswerInv
  <1>5. CASE Accept
    BY <1>2, <1>5 DEF Accept
  <1>6. ASSUME NEW p \in Parts, Fill(p) PROVE AnswerInv'
    <2>1. /\ UNCHANGED <<input, phase, answer>> /\ phase = "fill"
          /\ filled' = [filled EXCEPT ![p] = Filled(p)]
      BY <1>6 DEF Fill
    <2>2. /\ filled' = [q \in Parts |-> filled'[q]]
          /\ \A q \in Parts : filled'[q] \in {NULL, Filled(q)}
      BY <2>1 DEF AnswerInv
    <2> QED
      BY <1>1, <2>1, <2>2 DEF AnswerInv
  <1>7. CASE Merge
    <2>1. /\ UNCHANGED <<input, filled>> /\ phase' = "done" /\ answer' = Merged
          /\ \A p \in Parts : filled[p] # NULL
      BY <1>7 DEF Merge, Merged
    <2>2. AllFilled
      BY <2>1 DEF AnswerInv, AllFilled
    <2>3. Merged \in Answers
      BY <1>0, <2>2, MergedType
    <2>4. AllFilled' /\ Merged' = Merged
      BY <1>1, <1>9, <2>1, <2>2 DEF AllFilled
    <2> QED
      BY <1>1, <2>1, <2>3, <2>4 DEF AnswerInv
  <1>8. CASE UNCHANGED vars
    <2>1. AllFilled' = AllFilled /\ Merged' = Merged
      BY <1>1, <1>9, <1>8 DEF vars, AllFilled
    <2> QED
      BY <1>1, <1>8, <2>1 DEF vars, AnswerInv
  <1> QED
    BY <1>3, <1>4, <1>5, <1>6, <1>7, <1>8 DEF Next

IInv == SweepsInv /\ PhaseInv /\ AnswerInv

LEMMA Invariance == Spec => []IInv
  <1>1. Init => IInv
    <2>1. Init => PhaseInv
      BY DEF Init, PhaseInv
    <2> QED
      BY <2>1, SweepsInit, AnswerInit DEF IInv
  <1>2. IInv /\ [Next]_vars => IInv'
    BY SweepsStep, PhaseStep, AnswerStep DEF IInv
  <1> QED
    BY <1>1, <1>2, PTL DEF Spec

(* Whatever order a sweep takes equal edges in, it drops no edge that an   *)
(* edge to come could cross: it finds a crossing exactly when there is one *)
(* (ring_crosses_itself(), ring_check.rs:88-133).                          *)
THEOREM SweepIsExact == Spec => []SweepExact
  <1>1. SweepsInv => SweepExact
    BY SweepInvExact DEF SweepsInv, SweepExact, IsDone
  <1>2. IInv => SweepsInv
    BY DEF IInv
  <1> QED
    BY <1>1, <1>2, Invariance, PTL

(* The feature named is that of the first ring that crosses itself, and    *)
(* none reaches the fill (a5_ring_crossing_rs(), ring_check.rs:142-157, and *)
(* check_simple_rings(), regions.R:290-300).                               *)
THEOREM FirstRingIsNamed == Spec => []FirstCrossing
  <1>1. SweepsInv /\ PhaseInv => FirstCrossing
    <2> SUFFICES ASSUME SweepsInv, PhaseInv PROVE FirstCrossing
      OBVIOUS
    <2>1. \A i \in DOMAIN sweeps :
            /\ sweeps[i].crosses => CrossesItself(pts[i])
            /\ IsDone(i) /\ ~sweeps[i].crosses => ~CrossesItself(pts[i])
      BY SweepInvExact DEF SweepsInv, IsDone
    <2>2. DOMAIN sweeps \subseteq Nat \ {0}
      BY RingsAssumption DEF SweepsInv, RingsAssumption
    <2>3. ASSUME NEW i \in DOMAIN sweeps, IsFirst(i)
          PROVE  /\ CrossesItself(pts[i])
                 /\ \A j \in DOMAIN sweeps : CrossesItself(pts[j]) => i <= j
      <3>1. CrossesItself(pts[i])
        BY <2>1, <2>3 DEF IsFirst
      <3>2. ASSUME NEW j \in DOMAIN sweeps, CrossesItself(pts[j]) PROVE i <= j
        <4>1. ~(IsDone(j) /\ ~sweeps[j].crosses)
          BY <2>1, <3>2
        <4>2. j \notin 1..i - 1
          BY <4>1, <2>3 DEF IsFirst
        <4> QED
          BY <4>2, <2>2
      <3> QED
        BY <3>1, <3>2
    <2> QED
      BY <2>1, <2>3 DEF FirstCrossing, PhaseInv, NoneCrosses
  <1>2. IInv => SweepsInv /\ PhaseInv
    BY DEF IInv
  <1> QED
    BY <1>1, <1>2, Invariance, PTL
(* Sweeps hold edges of their rings, and results are those of their parts  *)
(* or lines, whichever thread finishes first (regions.rs:119-124, 175-180).*)
THEOREM Typing == Spec => []TypeOK
  <1>1. IInv => TypeOK
    <2> SUFFICES ASSUME IInv PROVE TypeOK
      OBVIOUS
    <2>1. answer # NULL <=> phase = "done"
      BY ResultsAssumption DEF IInv, AnswerInv
    <2>2. \A i \in DOMAIN sweeps : SweepInv(pts[i], sweeps[i])
      BY DEF IInv, SweepsInv
    <2>3. \A i \in DOMAIN sweeps :
            /\ sweeps[i].todo \cup sweeps[i].active \subseteq Edges(pts[i])
            /\ sweeps[i].todo \cap sweeps[i].active = {}
      BY <2>2 DEF SweepInv
    <2> QED
      BY <2>1, <2>3 DEF IInv, AnswerInv, TypeOK
  <1> QED
    BY <1>1, Invariance, PTL

(* In whatever order the parts are filled, a feature's covering has the    *)
(* cells that some part of it has, and the first failure, of a part or of  *)
(* a union of two resolutions, is the one raised                           *)
(* (a5_polygon_to_cells_rs(), regions.rs:88-147).                          *)
THEOREM CoveringsExact == Spec => []FeaturesExact
  <1>1. IInv => FeaturesExact
    <2> SUFFICES ASSUME IInv, phase = "done", input.kind = "polygons", answer.error # "crosses"
                 PROVE  \/ /\ answer.error = "fails" /\ answer.at \in input.fails
                           /\ ~Mixed(answer.at - 1)
                           /\ \A p \in input.fails : answer.at <= p
                        \/ /\ answer.error = "clashes" /\ Mixed(answer.at)
                           /\ ~Mixed(answer.at - 1)
                           /\ \A p \in input.fails : answer.at < p
                        \/ /\ input.fails = {} /\ ~Mixed(Len(input.features))
                           /\ DOMAIN answer.values = 1..input.number
                           /\ \A f \in 1..input.number :
                                answer.values[f] = IF f \in input.missing THEN NA ELSE
                                  {c \in CellsOf(DOMAIN input.rings) :
                                     \E i \in DOMAIN input.rings :
                                       /\ Feature(input.rings[i].part) = f
                                       /\ input.rings[i].outer /\ c \in input.rings[i].cells
                                       /\ \A j \in DOMAIN input.rings \ {i} :
                                            input.rings[j].part = input.rings[i].part =>
                                              c \notin input.rings[j].cells}
      BY ZenonT(60) DEF FeaturesExact
    <2>1. input \in Calls /\ AllFilled /\ answer = Merged
      BY DEF IInv, SweepsInv, AnswerInv
    <2>2. CASE \E p \in Parts : Stops(p)
      <3>1. /\ answer.error = IF filled[FirstStop] = Bad THEN "fails" ELSE "clashes"
            /\ answer.at = FirstStop
        BY <2>1, <2>2 DEF Merged, Raised
      <3>2. /\ FirstStop \in Parts
            /\ FirstStop \in input.fails \/ Clashes(FirstStop)
            /\ filled[FirstStop] = Bad <=> FirstStop \in input.fails
            /\ \A p \in input.fails : FirstStop <= p
            /\ ~Mixed(FirstStop - 1)
        BY <2>1, <2>2, StopIsFirst
      <3>3. CASE FirstStop \in input.fails
        BY <3>1, <3>2, <3>3
      <3>4. CASE FirstStop \notin input.fails
        <4>1. /\ FirstStop \in 0..Len(input.features) /\ FirstStop \in 1..FirstStop
              /\ \A p \in input.fails : p \in Nat /\ FirstStop \in Nat
          BY <2>1, <3>2, InputType
        <4>2. Mixed(FirstStop)
          BY <2>1, <3>2, <3>4, <4>1, MixedClashes
        <4>3. \A p \in input.fails : FirstStop < p
          BY <3>2, <3>4, <4>1
        <4> QED
          BY <3>1, <3>2, <3>4, <4>2, <4>3
      <3> QED
        BY <3>3, <3>4
    <2>3. CASE ~\E p \in Parts : Stops(p)
      <3>1. answer.values = [f \in 1..input.number |-> IF f \in input.missing THEN NA ELSE Coverings[f]]
        BY <2>1, <2>3 DEF Merged, Given
      <3>2. input.fails = {} /\ ~Mixed(Len(input.features))
        BY <2>1, <2>3, NoneFails
      <3>3. ASSUME NEW f \in 1..input.number
            PROVE  Coverings[f] = {c \in CellsOf(DOMAIN input.rings) :
                                     \E i \in DOMAIN input.rings :
                                       /\ Feature(input.rings[i].part) = f
                                       /\ input.rings[i].outer /\ c \in input.rings[i].cells
                                       /\ \A j \in DOMAIN input.rings \ {i} :
                                            input.rings[j].part = input.rings[i].part =>
                                              c \notin input.rings[j].cells}
        <4>1. Coverings[f] = UNION {filled[p] : p \in {q \in Parts : Feature(q) = f}}
          BY <2>1, <2>3, NoneFails
        <4>2. \A p \in Parts :
                filled[p] = CellsOf(GroupPart(p).outer) \ CellsOf(GroupPart(p).holes)
          BY <2>1, <3>2 DEF AllFilled, Filled
        <4>3. ASSUME NEW c
              PROVE  c \in Coverings[f] <=>
                       \E i \in DOMAIN input.rings :
                         /\ Feature(input.rings[i].part) = f
                         /\ input.rings[i].outer /\ c \in input.rings[i].cells
                         /\ \A j \in DOMAIN input.rings \ {i} :
                              input.rings[j].part = input.rings[i].part =>
                                c \notin input.rings[j].cells
          <5>1. c \in Coverings[f] <=> \E p \in Parts : Feature(p) = f /\ c \in filled[p]
            BY <4>1
          <5>2. \A p \in Parts : c \in filled[p] <=>
                  \E i \in DOMAIN input.rings :
                    /\ input.rings[i].part = p /\ input.rings[i].outer /\ c \in input.rings[i].cells
                    /\ \A j \in DOMAIN input.rings \ {i} :
                         input.rings[j].part = p => c \notin input.rings[j].cells
            BY <2>1, <4>2, PartHolds
          <5>3. \A i \in DOMAIN input.rings : input.rings[i].part \in Parts
            BY <2>1, InputType
          <5> QED
            BY <5>1, <5>2, <5>3
        <4>4. \A c : c \in CellsOf(DOMAIN input.rings) <=>
                \E i \in DOMAIN input.rings : c \in input.rings[i].cells
          BY DEF CellsOf
        <4> QED
          BY <4>3, <4>4
      <3> QED
        BY <3>1, <3>2, <3>3
    <2> QED
      BY <2>2, <2>3
  <1> QED
    BY <1>1, Invariance, PTL

(* In whatever order the lines are traced, a feature's path has the cells  *)
(* of its lines, each once, as they first appear                           *)
(* (a5_line_string_to_cells_rs(), regions.rs:163-197).                     *)
THEOREM PathsInOrder == Spec => []PathsExact
  <1>1. IInv => PathsExact
    <2> SUFFICES ASSUME IInv, phase = "done", input.kind = "lines", input.fails = {},
                        NEW f \in 1..input.number
                 PROVE  LET lines == FlattenSeq([p \in Parts |-> IF Feature(p) = f THEN input.lines[p]
                                                                 ELSE <<>>])
                            first(c) == CHOOSE k \in DOMAIN lines :
                                          lines[k] = c /\ \A j \in 1..k - 1 : lines[j] # c
                        IN  /\ ToSet(answer.values[f]) = ToSet(lines)
                            /\ \A j, k \in DOMAIN answer.values[f] :
                                 j < k => first(answer.values[f][j]) < first(answer.values[f][k])
      BY Zenon DEF PathsExact
    <2> DEFINE lines == FlattenSeq([p \in Parts |-> IF Feature(p) = f THEN input.lines[p] ELSE <<>>])
               first(c) == CHOOSE k \in DOMAIN lines :
                             lines[k] = c /\ \A j \in 1..k - 1 : lines[j] # c
               path == Paths[f]
    <2>1. input \in Calls /\ AllFilled /\ answer = Merged
      <3>1. input \in Calls
        BY DEF IInv, SweepsInv
      <3>2. DOMAIN sweeps = {}
        BY <3>1, InputType DEF IInv, SweepsInv
      <3>3. answer.error # "crosses"
        BY <3>2 DEF IInv, PhaseInv
      <3> QED
        BY <3>1, <3>3 DEF IInv, AnswerInv
    <2>2. ~\E p \in Parts : Stops(p)
      <3>1. \A p \in Parts : filled[p] # Bad
        BY <2>1, FilledType DEF AllFilled
      <3>2. input.coarse = {}
        BY <2>1, InputType
      <3> QED
        BY <3>1, <3>2 DEF Stops, Clashes
    <2>3. answer.values[f] = path
      BY <2>1, <2>2 DEF Merged, Given
    <2>4. LinesOf(f) = [p \in Parts |-> IF Feature(p) = f THEN input.lines[p] ELSE <<>>]
      BY <2>1 DEF AllFilled, Filled, LinesOf
    <2>5. lines \in Seq(Cells) /\ path \in Seq(Cells) /\ Firsts(path, lines, Len(lines))
      BY <2>1, <2>2, <2>4, NoneFails
    <2> HIDE DEF lines, path
    <2>6. Len(lines) \in Nat /\ DOMAIN lines = 1..Len(lines)
      BY <2>5, SeqIsFunction
    <2>7. ToSet(path) = ToSet(lines)
      BY <2>5, <2>6 DEF Firsts, ToSet
    <2>8. ASSUME NEW c \in ToSet(lines) PROVE first(c) \in 1..Len(lines) /\ FirstAt(lines, c, first(c))
      <3> DEFINE places == {k \in DOMAIN lines : lines[k] = c}
      <3>1. places \subseteq Nat /\ places # {}
        BY <2>6, <2>8 DEF ToSet
      <3>2. PICK k \in places : \A j \in places : k <= j
        BY <3>1, Least
      <3>3. \A j \in 1..k - 1 : j \in DOMAIN lines /\ ~(k <= j)
        BY <2>6, <3>2
      <3>4. k \in DOMAIN lines /\ lines[k] = c /\ \A j \in 1..k - 1 : lines[j] # c
        BY <3>2, <3>3
      <3>5. /\ first(c) \in DOMAIN lines /\ lines[first(c)] = c
            /\ \A j \in 1..first(c) - 1 : lines[j] # c
        BY <3>4
      <3> HIDE DEF first
      <3> QED
        BY <2>6, <3>5 DEF FirstAt
    <2> HIDE DEF first
    <2>9. ASSUME NEW j \in DOMAIN path, NEW k \in DOMAIN path, j < k
          PROVE  first(path[j]) < first(path[k])
      <3>1. path[j] \in ToSet(lines) /\ path[k] \in ToSet(lines)
        BY <2>7 DEF ToSet
      <3> QED
        BY <2>5, <2>8, <2>9, <3>1 DEF Firsts
    <2>10. \A j, k \in DOMAIN path : j < k => first(path[j]) < first(path[k])
      BY <2>9
    <2>11. /\ ToSet(answer.values[f]) = ToSet(lines)
           /\ \A j, k \in DOMAIN answer.values[f] :
                j < k => first(answer.values[f][j]) < first(answer.values[f][k])
      BY <2>3, <2>7, <2>10
    <2> QED
      BY <2>11, Zenon DEF lines, first
  <1> QED
    BY <1>1, Invariance, PTL
=============================================================================
