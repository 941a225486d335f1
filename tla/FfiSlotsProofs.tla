--------------------------- MODULE FfiSlotsProofs ---------------------------
(***************************************************************************)
(* For any number of holders and payloads, and whatever the vectors and    *)
(* the columns are: memory shared with Arrow is released once and has one  *)
(* owner while it is in use; what is read of it is what the column means;  *)
(* and the views of a stored cell agree, for any sizes of its parts.       *)
(***************************************************************************)
EXTENDS FfiSlots, FiniteSetTheorems, NaturalsInduction, WellFoundedInduction, TLAPS

-----------------------------------------------------------------------------
(* Stored cells (CellVector).                                              *)

(* The constants of the layout are numbers.                                *)
LEMMA LayoutFacts ==
  /\ Keep \in Nat \ {0} /\ TopBytes \in Nat \ {0} /\ LowIds \in Nat \ {0} /\ Half \in Nat \ {0}
  /\ Mask \in Int /\ TopBytes * LowIds \in Nat \ {0}
  BY LayoutAssumption DEF Mask

(* Quotient and remainder, and that there is only one of each.             *)
LEMMA Divided ==
  \A n \in Nat, a \in Nat \ {0} :
    /\ n \div a \in Nat /\ n % a \in 0..a - 1
    /\ n = (n \div a) * a + (n % a)
  OBVIOUS

(* Multiplication keeps the order, both ways.                              *)
LEMMA TimesCancel ==
  \A a \in Nat \ {0} : \A i, j \in Int : i * a < j * a => i < j
  OBVIOUS

LEMMA TimesMonotone ==
  \A a \in Nat : \A i, j \in Int : i <= j => i * a <= j * a
  OBVIOUS

(* What is divided with a remainder was made of both.                      *)
LEMMA OneQuotient ==
  \A a \in Nat \ {0} : \A q \in Nat, r \in 0..a - 1 :
    (q * a + r) \div a = q /\ (q * a + r) % a = r
<1> TAKE a \in Nat \ {0}
<1> TAKE q \in Nat, r \in 0..a - 1
<1> DEFINE n == q * a + r
           s == n \div a
           t == n % a
<1>1. n \in Nat
  OBVIOUS
<1>2. s \in Nat /\ t \in 0..a - 1 /\ n = s * a + t
  BY <1>1, Divided
<1>3. n = q * a + r /\ q * a \in Nat
  OBVIOUS
<1> HIDE DEF n, s, t
<1>4. s * a \in Nat /\ (q + 1) * a = q * a + a /\ (s + 1) * a = s * a + a
  BY <1>2
<1>5. q * a < (s + 1) * a /\ s * a < (q + 1) * a
  BY <1>2, <1>3, <1>4
<1>6. q < s + 1 /\ s < q + 1
  BY <1>2, <1>5, TimesCancel
<1>7. q = s
  BY <1>2, <1>6
<1>8. t = r
  BY <1>2, <1>3, <1>7
<1> QED
  BY <1>7, <1>8 DEF n, s, t

(* The mask flips a top byte and flips it back.                            *)
LEMMA MaskedTwice ==
  \A b \in 0..TopBytes - 1 :
    Masked(b) \in 0..TopBytes - 1 /\ Masked(Masked(b)) = b
<1> TAKE b \in 0..TopBytes - 1
<1>1. PICK m \in Nat : TopBytes = m * Keep
  <2>1. TopBytes = (TopBytes \div Keep) * Keep + (TopBytes % Keep) /\ TopBytes \div Keep \in Nat
    BY LayoutFacts, Divided
  <2> DEFINE m == TopBytes \div Keep
  <2>2. m \in Nat /\ TopBytes = m * Keep + 0
    BY <2>1, LayoutAssumption
  <2> HIDE DEF m
  <2> QED
    BY <2>2, LayoutFacts
<1> DEFINE q == b \div Keep
           r == b % Keep
           q1 == m - 1 - q
<1>2. b \in Nat /\ q \in Nat /\ r \in 0..Keep - 1 /\ b = q * Keep + r
  <2>1. b \in Nat /\ Keep \in Nat \ {0}
    BY LayoutFacts
  <2> QED
    BY <2>1, Divided, Zenon
<1> HIDE DEF q, r
<1>3. q * Keep \in Nat /\ q * Keep < m * Keep
  BY <1>1, <1>2, LayoutFacts
<1>4. q < m
  BY <1>1, <1>2, <1>3, LayoutFacts, TimesCancel
<1>5. q1 \in Nat /\ q1 * Keep = m * Keep - Keep - q * Keep /\ q1 * Keep \in Nat
  BY <1>1, <1>2, <1>4, LayoutFacts
<1>6. Masked(b) = q1 * Keep + r
  BY <1>1, <1>2, <1>3, <1>5, LayoutFacts DEF Masked, Mask, r
<1> HIDE DEF q1
<1>7. Masked(b) % Keep = r /\ Masked(b) \in Nat
  <2>1. q1 \in Nat /\ r \in 0..Keep - 1 /\ Keep \in Nat \ {0}
    BY <1>2, <1>5, LayoutFacts
  <2>2. (q1 * Keep + r) % Keep = r
    BY <2>1, OneQuotient, Zenon
  <2> QED
    BY <1>2, <1>5, <1>6, <2>1, <2>2
<1>8. Masked(b) < TopBytes
  BY <1>1, <1>2, <1>3, <1>5, <1>6, LayoutFacts
<1>9. Masked(Masked(b)) = r + (TopBytes - Keep) - (q1 * Keep + r - r)
  <2> DEFINE c == Masked(b)
  <2>1. c = q1 * Keep + r /\ c % Keep = r
    BY <1>6, <1>7
  <2> HIDE DEF c
  <2>2. Masked(c) = r + (TopBytes - Keep) - (q1 * Keep + r - r)
    BY <1>2, <1>5, <2>1, LayoutFacts DEF Masked, Mask
  <2> QED
    BY <2>2 DEF c
<1> QED
  BY <1>1, <1>2, <1>3, <1>5, <1>7, <1>8, <1>9, LayoutFacts

(* A stored element and the id it stands for.                              *)
IdOf(e) == e[1] + LowIds * Masked(e[2])

(* Every element stands for an id, and is stored for that id alone.        *)
LEMMA IdFacts ==
  \A e \in Elements :
    /\ IdOf(e) \in Ids
    /\ IdOf(e) \div LowIds = Masked(e[2]) /\ IdOf(e) % LowIds = e[1]
    /\ Encode(IdOf(e)) = e
<1> TAKE e \in Elements
<1> DEFINE m == Masked(e[2])
<1>1. /\ e = <<e[1], e[2]>> /\ e[1] \in 0..LowIds - 1 /\ e[2] \in 0..TopBytes - 1
  BY DEF Elements
<1>2. m \in 0..TopBytes - 1 /\ Masked(m) = e[2]
  BY <1>1, MaskedTwice
<1>3. IdOf(e) = m * LowIds + e[1]
  BY <1>1, <1>2, LayoutFacts DEF IdOf
<1> HIDE DEF m
<1>4. m * LowIds \in Nat /\ m * LowIds <= (TopBytes - 1) * LowIds
        /\ (TopBytes - 1) * LowIds = TopBytes * LowIds - LowIds
  BY <1>2, LayoutFacts
<1>5. IdOf(e) \in Ids
  BY <1>1, <1>3, <1>4, LayoutFacts DEF Ids
<1>6. (m * LowIds + e[1]) \div LowIds = m /\ (m * LowIds + e[1]) % LowIds = e[1]
  <2>1. m \in Nat /\ LowIds \in Nat \ {0} /\ e[1] \in 0..LowIds - 1
    BY <1>1, <1>2, LayoutFacts
  <2> QED
    BY <2>1, OneQuotient, Zenon
<1>7. IdOf(e) \div LowIds = m /\ IdOf(e) % LowIds = e[1]
  BY <1>3, <1>6
<1>8. Encode(IdOf(e)) = <<e[1], Masked(m)>>
  BY <1>7 DEF Encode
<1> QED
  BY <1>1, <1>2, <1>5, <1>7, <1>8 DEF m

(* The gap is stored for the sentinel.                                     *)
LEMMA SentinelFacts ==
  NaSentinel \in Ids /\ Gap \in Elements /\ IdOf(Gap) = NaSentinel
<1>1. Gap \in Elements /\ Gap[1] = 0 /\ Gap[2] = 0
  BY LayoutFacts DEF Gap, Elements
<1>2. 0 % Keep = 0
  <2>1. (0 * Keep + 0) % Keep = 0
    <3>1. Keep \in Nat \ {0} /\ 0 \in Nat /\ 0 \in 0..Keep - 1
      BY LayoutFacts
    <3> QED
      BY <3>1, OneQuotient, Zenon
  <2> QED
    BY <2>1, LayoutFacts
<1>3. Masked(0) = Mask
  BY <1>2, LayoutFacts DEF Masked
<1>4. IdOf(Gap) = NaSentinel
  BY <1>1, <1>3, LayoutFacts DEF IdOf, NaSentinel
<1> QED
  BY <1>1, <1>4, IdFacts

(* Only the gap is NA: two elements of one id are one.                     *)
LEMMA GetFacts ==
  \A e \in Elements :
    /\ e = Gap => Get(e) = NA
    /\ e # Gap => Get(e) = IdOf(e) /\ IdOf(e) # NaSentinel /\ IdOf(e) # NA
<1> TAKE e \in Elements
<1>1. Get(e) = IF IdOf(e) = NaSentinel THEN NA ELSE IdOf(e)
  BY DEF Get, IdOf
<1>2. IdOf(e) = NaSentinel => e = Gap
  BY IdFacts, SentinelFacts
<1>3. NA \notin Ids
  BY MissingAssumption, LayoutFacts DEF Ids
<1>4. IdOf(e) \in Ids
  BY IdFacts
<1> HIDE DEF IdOf
<1> QED
  BY <1>1, <1>2, <1>3, <1>4, SentinelFacts

(* And every id has an element.                                            *)
LEMMA EncodeFacts ==
  \A id \in Ids :
    Encode(id) \in Elements /\ Get(Encode(id)) = IF id = NaSentinel THEN NA ELSE id
<1> TAKE id \in Ids
<1> DEFINE q == id \div LowIds
           r == id % LowIds
<1>1. q \in Nat /\ r \in 0..LowIds - 1 /\ id = q * LowIds + r /\ id \in Nat /\ id < TopBytes * LowIds
  <2>1. id \in Nat /\ LowIds \in Nat \ {0} /\ id < TopBytes * LowIds
    BY LayoutFacts DEF Ids
  <2> QED
    BY <2>1, Divided, Zenon
<1>2. Encode(id) = <<r, Masked(q)>>
  BY DEF Encode
<1> HIDE DEF q, r
<1>3. q < TopBytes
  <2>1. q * LowIds < TopBytes * LowIds
    <3>1. q * LowIds \in Nat
      BY <1>1, LayoutFacts
    <3> QED
      BY <1>1, <3>1, LayoutFacts
  <2> QED
    BY <1>1, <2>1, LayoutFacts, TimesCancel
<1>4. Masked(q) \in 0..TopBytes - 1 /\ Masked(Masked(q)) = q
  BY <1>1, <1>3, LayoutFacts, MaskedTwice
<1>5. Encode(id) \in Elements
  BY <1>1, <1>2, <1>4 DEF Elements
<1>6. r + LowIds * q = id
  BY <1>1, LayoutFacts
<1>7. IdOf(Encode(id)) = id
  BY <1>2, <1>4, <1>6 DEF IdOf
<1>8. Get(Encode(id)) = IF IdOf(Encode(id)) = NaSentinel THEN NA ELSE IdOf(Encode(id))
  BY DEF Get, IdOf
<1> QED
  BY <1>5, <1>7, <1>8

(* A set of numbers that holds the first of a range and the successor of   *)
(* each it holds has the whole range.                                      *)
LEMMA Upwards ==
  \A S : \A a, b \in Int :
    a \in S /\ (\A i \in a..b - 1 : i \in S => i + 1 \in S) => \A i \in a..b : i \in S
<1> TAKE S
<1> TAKE a, b \in Int
<1> HAVE a \in S /\ \A i \in a..b - 1 : i \in S => i + 1 \in S
<1> DEFINE R == OpToRel(<, Nat)
           missing == {k \in Nat : a + k <= b /\ a + k \notin S}
<1>1. IsWellFoundedOn(R, Nat)
  BY NatLessThanWellFounded
<1>2. \A i, j \in Nat : <<i, j>> \in R <=> i < j
  BY DEF OpToRel
<1> HIDE DEF R
<1>3. missing = {}
  <2> SUFFICES ASSUME missing # {} PROVE FALSE
    OBVIOUS
  <2>1. PICK k \in missing : \A j \in missing : ~(<<j, k>> \in R)
    BY <1>1, WFMin
  <2>2. k \in Nat /\ a + k <= b /\ a + k \notin S
    BY <2>1
  <2>3. k # 0
    BY <2>2
  <2>4. k - 1 \in Nat /\ k - 1 < k /\ a + (k - 1) <= b /\ a + (k - 1) \in a..b - 1
    BY <2>2, <2>3
  <2>5. a + (k - 1) \in S
    BY <1>2, <2>1, <2>2, <2>4
  <2>6. a + (k - 1) + 1 = a + k
    BY <2>2
  <2> QED
    BY <2>2, <2>4, <2>5, <2>6
<1>4. \A i \in a..b : i - a \in Nat /\ a + (i - a) = i /\ i <= b
  OBVIOUS
<1>5. \A i \in a..b : i - a \notin missing
  BY <1>3
<1> QED
  BY <1>4, <1>5

(* Numbers in order of their halves.                                       *)
LEMMA HalvesOrder ==
  \A a \in Nat \ {0} : \A i, j \in Nat :
    /\ i < j <=> i \div a < j \div a \/ (i \div a = j \div a /\ i % a < j % a)
    /\ i = j <=> i \div a = j \div a /\ i % a = j % a
<1> TAKE a \in Nat \ {0}
<1> TAKE i, j \in Nat
<1> DEFINE q == i \div a
           r == i % a
           s == j \div a
           t == j % a
<1>1. q \in Nat /\ r \in 0..a - 1 /\ i = q * a + r /\ s \in Nat /\ t \in 0..a - 1 /\ j = s * a + t
  BY Divided, Zenon
<1> HIDE DEF q, r, s, t
<1>2. q * a \in Nat /\ s * a \in Nat /\ (q + 1) * a = q * a + a /\ (s + 1) * a = s * a + a
  BY <1>1
<1>3. q < s => i < j
  <2> HAVE q < s
  <2>1. (q + 1) * a <= s * a
    <3>1. q + 1 <= s /\ a \in Nat /\ q + 1 \in Int /\ s \in Int
      BY <1>1
    <3> QED
      BY <3>1, TimesMonotone
  <2> QED
    BY <1>1, <1>2, <2>1
<1>4. s < q => j < i
  <2> HAVE s < q
  <2>1. (s + 1) * a <= q * a
    <3>1. s + 1 <= q /\ a \in Nat /\ s + 1 \in Int /\ q \in Int
      BY <1>1
    <3> QED
      BY <3>1, TimesMonotone
  <2> QED
    BY <1>1, <1>2, <2>1
<1>5. q = s => (i < j <=> r < t) /\ (i = j <=> r = t)
  BY <1>1, <1>2
<1>6. q < s \/ s < q \/ q = s
  BY <1>1
<1>7. q \in Int /\ s \in Int /\ i \in Int /\ j \in Int
  BY <1>1
<1>8. (i < j <=> q < s \/ (q = s /\ r < t)) /\ (i = j <=> q = s /\ r = t)
  BY <1>3, <1>4, <1>5, <1>6, <1>7
<1> QED
  BY <1>8 DEF q, r, s, t

(* Powers.                                                                 *)
PowerStep(d, f) == IF d = 0 THEN 1 ELSE Base * f[d - 1]

Powered(n) == \E f : f = [d \in 0..n |-> PowerStep(d, f)]

LEMMA PowerDef ==
  /\ Power[0] = 1
  /\ \A d \in 0..MaxDigits - 1 : Power[d + 1] = Base * Power[d]
  /\ \A d \in 0..MaxDigits : Power[d] \in Nat \ {0}
<1>0. MaxDigits \in Nat /\ Base \in Nat \ {0}
  BY LayoutAssumption
<1>1. Powered(0)
  <2>1. [d \in {0} |-> 1] = [d \in 0..0 |-> PowerStep(d, [d1 \in {0} |-> 1])]
    BY DEF PowerStep
  <2> QED
    BY <2>1 DEF Powered
<1>2. ASSUME NEW n \in 0..MaxDigits - 1, Powered(n) PROVE Powered(n + 1)
  <2>1. PICK f : f = [d \in 0..n |-> PowerStep(d, f)]
    BY <1>2 DEF Powered
  <2> DEFINE g == [d \in 0..n + 1 |-> IF d = n + 1 THEN PowerStep(d, f) ELSE f[d]]
  <2>2. \A d \in 0..n + 1 : g[d] = PowerStep(d, g)
    BY <1>0, <2>1 DEF PowerStep
  <2>3. g = [d \in 0..n + 1 |-> PowerStep(d, g)]
    <3>1. g = [d \in 0..n + 1 |-> g[d]]
      OBVIOUS
    <3> QED
      BY <2>2, <3>1
  <2> HIDE DEF g
  <2> QED
    BY <2>3 DEF Powered
<1> DEFINE S == {n \in Int : Powered(n)}
<1>3. MaxDigits \in S
  <2>1. 0 \in S /\ \A i \in 0..MaxDigits - 1 : i \in S => i + 1 \in S
    BY <1>0, <1>1, <1>2
  <2> HIDE DEF S
  <2>2. \A i \in 0..MaxDigits : i \in S
    BY <1>0, <2>1, Upwards
  <2> QED
    BY <1>0, <2>2
<1>4. \E f : f = [d \in 0..MaxDigits |-> IF d = 0 THEN 1 ELSE Base * f[d - 1]]
  BY <1>3 DEF PowerStep, Powered
<1>5. Power = [d \in 0..MaxDigits |-> IF d = 0 THEN 1 ELSE Base * Power[d - 1]]
  BY <1>4 DEF Power
<1>6. Power[0] = 1 /\ \A d \in 0..MaxDigits - 1 : Power[d + 1] = Base * Power[d]
  BY <1>0, <1>5
<1> DEFINE T == {d \in Int : Power[d] \in Nat \ {0}}
<1>7. \A d \in 0..MaxDigits : d \in T
  <2>1. 0 \in T /\ \A i \in 0..MaxDigits - 1 : i \in T => i + 1 \in T
    BY <1>0, <1>6
  <2> HIDE DEF T
  <2> QED
    BY <1>0, <2>1, Upwards
<1> QED
  BY <1>6, <1>7

(* Reading digits one after the other.                                     *)
DigitStep(digits, d, f) == IF d = 0 THEN 0 ELSE f[d - 1] * Base + digits[d]

ReadTo(digits, n) == \E f : f = [d \in 0..n |-> DigitStep(digits, d, f)]

(* What digits are read as, digit by digit.                                *)
LEMMA ReadExists == \A digits : \A n \in Nat : ReadTo(digits, n)
<1> TAKE digits
<1> TAKE n \in Nat
<1>1. ReadTo(digits, 0)
  <2>1. [d \in {0} |-> 0] = [d \in 0..0 |-> DigitStep(digits, d, [d1 \in {0} |-> 0])]
    BY DEF DigitStep
  <2> QED
    BY <2>1 DEF ReadTo
<1>2. ASSUME NEW m \in 0..n - 1, ReadTo(digits, m) PROVE ReadTo(digits, m + 1)
  <2>1. PICK f : f = [d \in 0..m |-> DigitStep(digits, d, f)]
    BY <1>2 DEF ReadTo
  <2> DEFINE g == [d \in 0..m + 1 |-> IF d = m + 1 THEN DigitStep(digits, d, f) ELSE f[d]]
  <2>2. \A d \in 0..m + 1 : g[d] = DigitStep(digits, d, g)
    BY <2>1 DEF DigitStep
  <2>3. g = [d \in 0..m + 1 |-> DigitStep(digits, d, g)]
    <3>1. g = [d \in 0..m + 1 |-> g[d]]
      OBVIOUS
    <3> QED
      BY <2>2, <3>1
  <2> HIDE DEF g
  <2> QED
    BY <2>3 DEF ReadTo
<1> DEFINE S == {m \in Int : ReadTo(digits, m)}
<1>3. 0 \in S /\ \A i \in 0..n - 1 : i \in S => i + 1 \in S
  BY <1>1, <1>2
<1> HIDE DEF S
<1>4. \A i \in 0..n : i \in S
  BY <1>3, Upwards
<1> QED
  BY <1>4 DEF S

(* parse_hex_id() reads the digits of a string that is long enough.        *)
LEMMA ParseHexReads ==
  \A digits \in Seq(0..Base - 1) : digits # <<>> /\ Len(digits) <= MaxDigits =>
    \E f : /\ f[0] = 0
           /\ \A d \in 0..Len(digits) - 1 : f[d + 1] = f[d] * Base + digits[d + 1]
           /\ ParseHex(digits) = f[Len(digits)]
<1> TAKE digits \in Seq(0..Base - 1)
<1> HAVE digits # <<>> /\ Len(digits) <= MaxDigits
<1> DEFINE n == Len(digits)
           read == CHOOSE f : f = [d \in 0..n |-> IF d = 0 THEN 0 ELSE f[d - 1] * Base + digits[d]]
<1>1. n \in Nat /\ DOMAIN digits = 1..n
  OBVIOUS
<1>2. read = [d \in 0..n |-> IF d = 0 THEN 0 ELSE read[d - 1] * Base + digits[d]]
  BY <1>1, ReadExists DEF ReadTo, DigitStep
<1>3. ~(n > MaxDigits) /\ ~\E d \in DOMAIN digits : digits[d] \notin 0..Base - 1
  BY <1>1, LayoutAssumption
<1>4. ParseHex(digits) = read[n]
  BY <1>3 DEF ParseHex
<1> HIDE DEF read
<1>5. read[0] = 0
  BY <1>1, <1>2
<1>6. \A d \in 0..n - 1 : read[d + 1] = read[d] * Base + digits[d + 1]
  <2> TAKE d \in 0..n - 1
  <2>1. d + 1 \in 0..n /\ d + 1 # 0 /\ (d + 1) - 1 = d
    BY <1>1
  <2> QED
    BY <1>2, <2>1
<1> QED
  BY <1>4, <1>5, <1>6

(* Two divisions are one.                                                  *)
LEMMA DivideTwice ==
  \A n \in Nat : \A a, b \in Nat \ {0} : (n \div a) \div b = n \div (b * a)
<1> TAKE n \in Nat
<1> TAKE a, b \in Nat \ {0}
<1> DEFINE q == n \div a
           r == n % a
           s == q \div b
           t == q % b
<1>1. q \in Nat /\ r \in 0..a - 1 /\ n = q * a + r
  BY Divided, Zenon
<1>2. s \in Nat /\ t \in 0..b - 1 /\ q = s * b + t
  BY <1>1, Divided, Zenon
<1> HIDE DEF q, r, s, t
<1>3. n = s * (b * a) + (t * a + r)
  BY <1>1, <1>2
<1>4. t * a + r \in 0..b * a - 1
  <2>1. t * a <= (b - 1) * a
    <3>1. t <= b - 1 /\ t \in Int /\ b - 1 \in Int /\ a \in Nat
      BY <1>2
    <3> QED
      BY <3>1, TimesMonotone
  <2>2. (b - 1) * a = b * a - a /\ t * a \in Nat /\ b * a \in Nat
    BY <1>2
  <2> QED
    BY <1>1, <2>1, <2>2
<1>5. b * a \in Nat \ {0}
  OBVIOUS
<1>6. (s * (b * a) + (t * a + r)) \div (b * a) = s
  BY <1>2, <1>4, <1>5, OneQuotient, Zenon
<1> QED
  BY <1>3, <1>6 DEF q, s

(* The digits of an id, read, give the id.                                 *)
DigitsOf(id) == [d \in 1..MaxDigits |-> (id \div Power[MaxDigits - d]) % Base]

(* Digits are digits.                                                      *)
LEMMA DigitsType ==
  \A id \in Ids : \A d \in 1..MaxDigits : (id \div Power[MaxDigits - d]) % Base \in 0..Base - 1
<1> TAKE id \in Ids
<1> TAKE d \in 1..MaxDigits
<1>1. MaxDigits \in Nat /\ Base \in Nat \ {0} /\ id \in Nat
  BY LayoutAssumption, LayoutFacts DEF Ids
<1>2. MaxDigits - d \in 0..MaxDigits
  BY <1>1
<1>3. Power[MaxDigits - d] \in Nat \ {0}
  BY <1>2, PowerDef
<1>4. id \div Power[MaxDigits - d] \in Nat
  BY <1>1, <1>3, Divided, Zenon
<1> QED
  BY <1>1, <1>4, Divided, Zenon

LEMMA DigitsRead ==
  \A id \in Ids : MaxDigits # 0 => ParseHex(DigitsOf(id)) = id
<1> TAKE id \in Ids
<1> HAVE MaxDigits # 0
<1> DEFINE digits == DigitsOf(id)
<1>0. MaxDigits \in Nat \ {0} /\ Base \in Nat \ {0} /\ id \in Nat /\ id < Power[MaxDigits]
  BY LayoutAssumption, LayoutFacts DEF Ids
<1>1. \A k \in 0..MaxDigits : id \div Power[k] \in Nat
  BY <1>0, PowerDef, Divided
<1>2. \A d \in 1..MaxDigits :
        /\ digits[d] \in 0..Base - 1
        /\ digits[d] = (id \div Power[MaxDigits - d]) % Base
  BY DigitsType DEF DigitsOf
<1>3. digits \in [1..MaxDigits -> 0..Base - 1]
  BY <1>2 DEF DigitsOf
<1>4. digits \in Seq(0..Base - 1) /\ Len(digits) = MaxDigits /\ digits # <<>>
  <2> HIDE DEF digits
  <2>1. digits \in Seq(0..Base - 1)
    BY <1>0, <1>3
  <2>2. DOMAIN digits = 1..MaxDigits /\ DOMAIN digits = 1..Len(digits) /\ Len(digits) \in Nat
    BY <1>3, <2>1
  <2>3. Len(digits) = MaxDigits
    BY <1>0, <2>2
  <2> QED
    BY <1>0, <2>1, <2>3
<1> HIDE DEF digits
<1>5. PICK f : /\ f[0] = 0
               /\ \A d \in 0..MaxDigits - 1 : f[d + 1] = f[d] * Base + digits[d + 1]
               /\ ParseHex(digits) = f[MaxDigits]
  <2>1. Len(digits) <= MaxDigits
    BY <1>0, <1>4
  <2> QED
    BY <1>4, <2>1, ParseHexReads
<1> DEFINE S == {d \in Int : f[d] = id \div Power[MaxDigits - d]}
<1>6. 0 \in S
  <2>1. id \div Power[MaxDigits] = 0
    <3>1. Power[MaxDigits] \in Nat \ {0} /\ 0 \in Nat /\ id \in 0..Power[MaxDigits] - 1
      BY <1>0, PowerDef
    <3>2. (0 * Power[MaxDigits] + id) \div Power[MaxDigits] = 0
      BY <3>1, OneQuotient, Zenon
    <3> QED
      BY <1>0, <3>1, <3>2
  <2>2. MaxDigits - 0 = MaxDigits
    BY <1>0
  <2> QED
    BY <1>5, <2>1, <2>2
<1>7. ASSUME NEW d \in 0..MaxDigits - 1, d \in S PROVE d + 1 \in S
  <2> DEFINE k == MaxDigits - (d + 1)
             p == Power[k]
             q == id \div p
  <2>1. k \in 0..MaxDigits - 1 /\ k + 1 = MaxDigits - d /\ d + 1 \in 1..MaxDigits
    BY <1>0
  <2>2. p \in Nat \ {0} /\ Power[k + 1] = Base * p
    <3> HIDE DEF k
    <3> QED
      BY <1>0, <2>1, PowerDef
  <2>3. q \in Nat
    <3>1. k \in 0..MaxDigits
      BY <1>0, <2>1
    <3> QED
      BY <1>1, <3>1
  <2>4. f[d] = id \div (Base * p)
    BY <1>7, <2>1, <2>2
  <2>5. digits[d + 1] = q % Base
    BY <1>2, <2>1
  <2>6. f[d + 1] = f[d] * Base + digits[d + 1]
    BY <1>5
  <2> HIDE DEF k, p
  <2>7. id \div (Base * p) = q \div Base
    BY <1>0, <2>2, DivideTwice, Zenon
  <2> HIDE DEF q
  <2>8. q = (q \div Base) * Base + (q % Base)
    BY <1>0, <2>3, Divided, Zenon
  <2>9. f[d + 1] = q
    BY <2>4, <2>5, <2>6, <2>7, <2>8
  <2> QED
    BY <1>0, <2>9 DEF k, p, q
<1>8. MaxDigits \in S
  <2> HIDE DEF S
  <2>1. \A d \in 0..MaxDigits : d \in S
    BY <1>0, <1>6, <1>7, Upwards
  <2> QED
    BY <1>0, <2>1
<1>9. MaxDigits - MaxDigits = 0 /\ id \div 1 = id
  <2>1. (id * 1 + 0) \div 1 = id
    <3>1. id \in Nat /\ 1 \in Nat \ {0} /\ 0 \in 0..1 - 1
      BY <1>0
    <3> QED
      BY <3>1, OneQuotient, Zenon
  <2> QED
    BY <1>0, <2>1
<1> QED
  BY <1>5, <1>8, <1>9, PowerDef DEF digits

(* The functions agree about an element.                                   *)
LEMMA ElementViews ==
  \A e \in Elements :
    /\ IsNa(e) <=> e = Gap
    /\ ToHex(e) = NA <=> e = Gap
    /\ Put(Get(e)) = e
    /\ FromHex(ToHex(e)) = e
    /\ FromU64(ToU64(e).id, ToU64(e).na) = e
<1> TAKE e \in Elements
<1>1. CASE e = Gap
  <2>1. Get(e) = NA /\ e[2] = 0
    BY <1>1, GetFacts DEF Gap
  <2>2. Encode(NaSentinel) = Gap
    BY SentinelFacts, IdFacts
  <2>3. IsNa(e) /\ ToHex(e) = NA /\ Put(Get(e)) = Gap /\ FromHex(ToHex(e)) = Gap
    BY <2>1 DEF IsNa, ToHex, Put, FromHex
  <2>4. ToU64(e).na = TRUE
    BY <2>1 DEF ToU64
  <2>5. FromU64(ToU64(e).id, ToU64(e).na) = Encode(NaSentinel)
    BY <2>4 DEF FromU64
  <2> QED
    BY <1>1, <2>2, <2>3, <2>5
<1>2. CASE e # Gap
  <2> DEFINE id == IdOf(e)
  <2>1. id \in Ids /\ Encode(id) = e
    BY IdFacts
  <2>2. Get(e) = id /\ id # NaSentinel /\ id # NA
    BY <1>2, GetFacts
  <2> HIDE DEF id
  <2>3. ~IsNa(e) /\ Put(Get(e)) = e
    BY <2>1, <2>2 DEF IsNa, Put
  <2>4. ToHex(e) = DigitsOf(id)
    BY <2>2 DEF ToHex, DigitsOf
  <2>5. MaxDigits # 0
    <3>1. SUFFICES ASSUME MaxDigits = 0 PROVE FALSE
      OBVIOUS
    <3>2. TopBytes * LowIds = 1
      BY <3>1, LayoutAssumption, PowerDef
    <3>3. id = 0 /\ NaSentinel = 0
      BY <2>1, <3>2, SentinelFacts DEF Ids
    <3> QED
      BY <2>2, <3>3
  <2>6. DigitsOf(id) # NA
    <3> DEFINE digits == DigitsOf(id)
    <3>1. \A d \in 1..MaxDigits : digits[d] \in Nat
      BY <2>1, DigitsType DEF DigitsOf
    <3>2. digits \in [1..MaxDigits -> Nat]
      BY <3>1 DEF DigitsOf
    <3> HIDE DEF digits
    <3>3. digits \in Seq(Nat)
      BY <3>2, LayoutAssumption
    <3> QED
      BY <3>3, MissingAssumption DEF digits
  <2>7. ParseHex(DigitsOf(id)) = id /\ id # Bad
    BY <2>1, <2>5, DigitsRead, MissingAssumption, LayoutFacts DEF Ids
  <2>8. FromHex(ToHex(e)) = e
    BY <2>1, <2>2, <2>4, <2>6, <2>7 DEF FromHex
  <2>9. ToU64(e).id = id /\ ToU64(e).na = FALSE
    BY <2>2 DEF ToU64
  <2>10. FromU64(ToU64(e).id, ToU64(e).na) = e
    BY <2>1, <2>9 DEF FromU64
  <2> QED
    BY <1>2, <2>3, <2>4, <2>6, <2>8, <2>10
<1> QED
  BY <1>1, <1>2

(* And about two.                                                          *)
LEMMA PairViews ==
  \A a, b \in Elements \ {Gap} :
    LET before == \/ Proxy(a)[1] < Proxy(b)[1]
                  \/ Proxy(a)[1] = Proxy(b)[1] /\ Proxy(a)[2] < Proxy(b)[2]
    IN  /\ Equal(a, b) = (a = b) /\ Equal(a, b) = (Proxy(a) = Proxy(b))
        /\ Get(a) < Get(b) <=> before
<1> TAKE a, b \in Elements \ {Gap}
<1> DEFINE i == IdOf(a)
           j == IdOf(b)
<1>1. Get(a) = i /\ i # NA /\ Get(b) = j /\ j # NA
  BY GetFacts
<1>2. i \in Nat /\ j \in Nat /\ Encode(i) = a /\ Encode(j) = b
  BY IdFacts, LayoutFacts DEF Ids
<1> HIDE DEF i, j
<1>3. Proxy(a) = <<i \div Half, i % Half>> /\ Proxy(b) = <<j \div Half, j % Half>>
  BY <1>1 DEF Proxy
<1>4. /\ i < j <=> i \div Half < j \div Half \/ (i \div Half = j \div Half /\ i % Half < j % Half)
      /\ i = j <=> i \div Half = j \div Half /\ i % Half = j % Half
  BY <1>2, LayoutFacts, HalvesOrder
<1>5. Equal(a, b) = (i = j)
  BY <1>1 DEF Equal
<1>6. i = j <=> a = b
  BY <1>1, <1>2
<1>7. Proxy(a) = Proxy(b) <=> i = j
  BY <1>3, <1>4
<1>8. /\ Proxy(a)[1] = i \div Half /\ Proxy(a)[2] = i % Half
      /\ Proxy(b)[1] = j \div Half /\ Proxy(b)[2] = j % Half
  BY <1>3
<1>9. Equal(a, b) = (a = b) /\ Equal(a, b) = (Proxy(a) = Proxy(b))
  BY <1>5, <1>6, <1>7
<1> QED
  BY <1>1, <1>4, <1>8, <1>9

-----------------------------------------------------------------------------
(* Sequences that are put together.                                        *)

(* Sequences are functions from their indices.                             *)
LEMMA SeqIsFunction ==
  \A Q : \A ss \in Seq(Q) :
    /\ Len(ss) \in Nat /\ DOMAIN ss = 1..Len(ss) /\ ss \in [1..Len(ss) -> Q]
    /\ Len(ss) = 0 <=> ss = <<>>
  OBVIOUS

LEMMA FunctionIsSeq ==
  \A Q : \A n \in Nat : \A f \in [1..n -> Q] : f \in Seq(Q) /\ Len(f) = n
<1> TAKE Q
<1> TAKE n \in Nat
<1> TAKE f \in [1..n -> Q]
<1>1. f \in Seq(Q)
  OBVIOUS
<1> QED
  BY <1>1

JoinStep(ss, f, i) == IF i = 1 THEN ss[i] ELSE f[i - 1] \o ss[i]

JoinedTo(ss, n) == \E f : f = [i \in 1..n |-> JoinStep(ss, f, i)]

Joins(ss, n, f) == f[1] = ss[1] /\ \A i \in 1..n - 1 : f[i + 1] = f[i] \o ss[i + 1]

(* What some sequences are together, one after the other.                  *)
LEMMA JoinsExist ==
  \A ss : \A n \in Nat \ {0} : JoinedTo(ss, n)
<1> TAKE ss
<1> TAKE n \in Nat \ {0}
<1>1. JoinedTo(ss, 1)
  <2>1. [i \in 1..1 |-> ss[1]] = [i \in 1..1 |-> JoinStep(ss, [j \in 1..1 |-> ss[1]], i)]
    BY DEF JoinStep
  <2> QED
    BY <2>1 DEF JoinedTo
<1>2. ASSUME NEW m \in 1..n - 1, JoinedTo(ss, m) PROVE JoinedTo(ss, m + 1)
  <2>1. PICK f : f = [i \in 1..m |-> JoinStep(ss, f, i)]
    BY <1>2 DEF JoinedTo
  <2> DEFINE g == [i \in 1..m + 1 |-> IF i = m + 1 THEN JoinStep(ss, f, i) ELSE f[i]]
  <2>2. ASSUME NEW i \in 1..m + 1 PROVE g[i] = JoinStep(ss, g, i)
    <3>1. CASE i = m + 1
      <4>1. g[i] = JoinStep(ss, f, i) /\ i - 1 \in 1..m /\ i - 1 # m + 1
        BY <3>1
      <4>2. g[i - 1] = f[i - 1]
        BY <3>1, <4>1
      <4> QED
        BY <4>1, <4>2 DEF JoinStep
    <3>2. CASE i # m + 1
      <4>1. i \in 1..m /\ g[i] = f[i]
        BY <3>2
      <4>2. f[i] = JoinStep(ss, f, i)
        BY <2>1, <4>1
      <4>3. i # 1 => i - 1 \in 1..m + 1 /\ i - 1 # m + 1 /\ g[i - 1] = f[i - 1]
        BY <4>1
      <4> HIDE DEF g
      <4> QED
        BY <4>1, <4>2, <4>3 DEF JoinStep
    <3> QED
      BY <3>1, <3>2
  <2>3. g = [i \in 1..m + 1 |-> JoinStep(ss, g, i)]
    <3>1. g = [i \in 1..m + 1 |-> g[i]]
      OBVIOUS
    <3> QED
      BY <2>2, <3>1
  <2> HIDE DEF g
  <2> QED
    BY <2>3 DEF JoinedTo
<1> DEFINE S == {m \in Int : JoinedTo(ss, m)}
<1>3. 1 \in S /\ \A i \in 1..n - 1 : i \in S => i + 1 \in S
  BY <1>1, <1>2
<1> HIDE DEF S
<1>4. \A i \in 1..n : i \in S
  BY <1>3, Upwards
<1> QED
  BY <1>4 DEF S

(* FlattenSeq joins the sequences in that way.                             *)
LEMMA FlattenJoins ==
  \A T : \A n \in Nat \ {0} : \A ss \in [1..n -> Seq(T)] :
    \E f \in [1..n -> Seq(T)] : Joins(ss, n, f) /\ FlattenSeq(ss) = f[n]
<1> TAKE T
<1> TAKE n \in Nat \ {0}
<1> TAKE ss \in [1..n -> Seq(T)]
<1>1. Len(ss) = n
  BY FunctionIsSeq
<1> DEFINE flatten == CHOOSE f : f = [i \in 1..n |-> IF i = 1 THEN ss[i] ELSE f[i - 1] \o ss[i]]
<1>2. flatten = [i \in 1..n |-> IF i = 1 THEN ss[i] ELSE flatten[i - 1] \o ss[i]]
  BY JoinsExist DEF JoinedTo, JoinStep
<1>3. FlattenSeq(ss) = flatten[n]
  BY <1>1 DEF FlattenSeq
<1> HIDE DEF flatten
<1>4. \A i \in 1..n : flatten[i] = JoinStep(ss, flatten, i)
  BY <1>2 DEF JoinStep
<1>5. Joins(ss, n, flatten)
  <2>1. flatten[1] = ss[1]
    BY <1>4 DEF JoinStep
  <2>2. ASSUME NEW i \in 1..n - 1 PROVE flatten[i + 1] = flatten[i] \o ss[i + 1]
    <3>1. i + 1 \in 1..n /\ i + 1 # 1 /\ i + 1 - 1 = i
      OBVIOUS
    <3> DEFINE j == i + 1
    <3>2. flatten[j] = flatten[j - 1] \o ss[j]
      <4>1. j \in 1..n /\ j # 1
        BY <3>1
      <4> HIDE DEF j
      <4> QED
        BY <1>4, <4>1 DEF JoinStep
    <3>3. (i + 1) - 1 = i
      OBVIOUS
    <3> QED
      BY <3>2, <3>3, Zenon
  <2> QED
    BY <2>1, <2>2 DEF Joins
<1>6. \A i \in 1..n : flatten[i] \in Seq(T)
  <2> DEFINE S == {m \in Int : flatten[m] \in Seq(T)}
  <2>1. flatten[1] \in Seq(T)
    BY <1>5 DEF Joins
  <2>2. ASSUME NEW i \in 1..n - 1, flatten[i] \in Seq(T) PROVE flatten[i + 1] \in Seq(T)
    <3>1. i + 1 \in 1..n
      OBVIOUS
    <3>2. flatten[i + 1] = flatten[i] \o ss[i + 1] /\ ss[i + 1] \in Seq(T)
      BY <1>5, <3>1 DEF Joins
    <3>3. \A p, q \in Seq(T) : p \o q \in Seq(T)
      OBVIOUS
    <3> QED
      BY <2>2, <3>2, <3>3
  <2>3. 1 \in S /\ \A i \in 1..n - 1 : i \in S => i + 1 \in S
    BY <2>1, <2>2
  <2> HIDE DEF S
  <2>4. n \in Int /\ 1 \in Int
    OBVIOUS
  <2>5. \A i \in 1..n : i \in S
    BY <2>3, <2>4, Upwards
  <2> QED
    BY <2>5 DEF S
<1>7. flatten \in [1..n -> Seq(T)]
  BY <1>2, <1>6
<1> QED
  BY <1>3, <1>5, <1>7

(* Where the elements of two sequences are in both together.               *)
LEMMA Concatenation ==
  \A T : \A p, q \in Seq(T) :
    /\ Len(p) \in Nat /\ Len(p \o q) = Len(p) + Len(q)
    /\ \A i \in 1..Len(p) : (p \o q)[i] = p[i]
    /\ \A i \in 1..Len(q) : (p \o q)[Len(p) + i] = q[i]
<1> TAKE T
<1> TAKE p, q \in Seq(T)
<1> DEFINE m == Len(p)
           n == Len(q)
<1>1. m \in Nat /\ n \in Nat /\ Len(p \o q) = m + n
  OBVIOUS
<1>2. \A i \in 1..m + n : (p \o q)[i] = IF i <= m THEN p[i] ELSE q[i - m]
  OBVIOUS
<1>3. ASSUME NEW i \in 1..n PROVE (p \o q)[m + i] = q[i]
  <2> HIDE DEF m, n
  <2>1. m + i \in 1..m + n /\ ~(m + i <= m) /\ (m + i) - m = i
    BY <1>1
  <2> QED
    BY <1>2, <2>1, Zenon
<1> QED
  BY <1>1, <1>2, <1>3

(* The sequences put together so far, from none.                           *)
Joined(ss, n, f) == f[0] = <<>> /\ \A k \in 0..n - 1 : f[k + 1] = f[k] \o ss[k + 1]

(* FlattenSeq is all of them, put together.                                *)
LEMMA FlattenJoined ==
  \A T : \A n \in Nat : \A ss \in [1..n -> Seq(T)] :
    \E f \in [0..n -> Seq(T)] : Joined(ss, n, f) /\ FlattenSeq(ss) = f[n]
<1> TAKE T
<1> TAKE n \in Nat
<1> TAKE ss \in [1..n -> Seq(T)]
<1>1. CASE n = 0
  <2> DEFINE f == [k \in 0..n |-> <<>>]
  <2>1. ss = <<>> /\ Len(ss) = 0
    <3>1. ss \in Seq(Seq(T)) /\ Len(ss) = 0
      BY <1>1, FunctionIsSeq
    <3> QED
      BY <3>1, SeqIsFunction
  <2>2. FlattenSeq(ss) = <<>>
    BY <2>1 DEF FlattenSeq
  <2>3. f \in [0..n -> Seq(T)] /\ f[0] = <<>> /\ f[n] = <<>> /\ 0..n - 1 = {}
    BY <1>1
  <2> HIDE DEF f
  <2> QED
    BY <2>2, <2>3 DEF Joined
<1>2. CASE n # 0
  <2>1. n \in Nat \ {0}
    BY <1>2
  <2>2. PICK g \in [1..n -> Seq(T)] : Joins(ss, n, g) /\ FlattenSeq(ss) = g[n]
    BY <2>1, FlattenJoins, Zenon
  <2> DEFINE f == [k \in 0..n |-> IF k = 0 THEN <<>> ELSE g[k]]
  <2>3. f[0] = <<>> /\ \A k \in 1..n : f[k] = g[k]
    BY <2>1
  <2>4. f \in [0..n -> Seq(T)]
    <3>1. \A k \in 0..n : k = 0 \/ k \in 1..n
      OBVIOUS
    <3>2. <<>> \in Seq(T) /\ \A k \in 1..n : g[k] \in Seq(T)
      OBVIOUS
    <3> QED
      BY <3>1, <3>2
  <2>5. \A k \in 0..n - 1 : f[k + 1] = f[k] \o ss[k + 1]
    <3> HIDE DEF f
    <3> TAKE k \in 0..n - 1
    <3>1. CASE k = 0
      <4>1. 1 \in 1..n /\ k + 1 = 1
        BY <2>1, <3>1
      <4>2. ss[1] \in Seq(T) /\ \A q \in Seq(T) : <<>> \o q = q
        BY <4>1
      <4> QED
        BY <2>2, <2>3, <3>1, <4>1, <4>2 DEF Joins
    <3>2. CASE k # 0
      <4>1. k \in 1..n - 1 /\ k \in 1..n /\ k + 1 \in 1..n
        BY <3>2
      <4> QED
        BY <2>2, <2>3, <4>1 DEF Joins
    <3> QED
      BY <3>1, <3>2
  <2>6. f[n] = g[n]
    BY <2>1
  <2> HIDE DEF f
  <2> QED
    BY <2>2, <2>3, <2>4, <2>5, <2>6 DEF Joined
<1> QED
  BY <1>1, <1>2

(* There is one way to put them together.                                  *)
LEMMA JoinedOnce ==
  \A ss : \A n \in Nat : \A f, g :
    Joined(ss, n, f) /\ Joined(ss, n, g) => f[n] = g[n]
<1> TAKE ss
<1> TAKE n \in Nat
<1> TAKE f, g
<1> HAVE Joined(ss, n, f) /\ Joined(ss, n, g)
<1> DEFINE S == {k \in Int : f[k] = g[k]}
<1>1. 0 \in S /\ \A k \in 0..n - 1 : k \in S => k + 1 \in S
  <2>1. \A k \in 0..n - 1 : f[k] = g[k] => f[k + 1] = g[k + 1]
    <3>1. \A k \in 0..n - 1 : f[k + 1] = f[k] \o ss[k + 1] /\ g[k + 1] = g[k] \o ss[k + 1]
      BY DEF Joined
    <3> QED
      BY <3>1, Zenon
  <2>2. f[0] = g[0]
    BY DEF Joined
  <2> QED
    BY <2>1, <2>2
<1> HIDE DEF S
<1>2. \A k \in 0..n : k \in S
  BY <1>1, Upwards
<1> QED
  BY <1>2 DEF S

(* What the first k of some sequences are together, for every k.           *)
JoinedUpTo(ss, n, f) ==
  /\ Joined(ss, n, f) /\ FlattenSeq(ss) = f[n]
  /\ \A k \in 0..n : FlattenSeq([i \in 1..k |-> ss[i]]) = f[k]

(* FlattenSeq of the first few is what was put together so far.            *)
LEMMA FlattenPrefixes ==
  \A T : \A n \in Nat : \A ss \in [1..n -> Seq(T)] :
    \E f \in [0..n -> Seq(T)] : JoinedUpTo(ss, n, f)
<1> TAKE T
<1> TAKE n \in Nat
<1> TAKE ss \in [1..n -> Seq(T)]
<1>1. PICK f \in [0..n -> Seq(T)] : Joined(ss, n, f) /\ FlattenSeq(ss) = f[n]
  BY FlattenJoined, Zenon
<1>2. ASSUME NEW k \in 0..n PROVE FlattenSeq([i \in 1..k |-> ss[i]]) = f[k]
  <2> DEFINE first == [i \in 1..k |-> ss[i]]
  <2>1. k \in Nat /\ first \in [1..k -> Seq(T)]
    OBVIOUS
  <2>2. \A i \in 1..k : first[i] = ss[i]
    OBVIOUS
  <2> HIDE DEF first
  <2>3. PICK g \in [0..k -> Seq(T)] : Joined(first, k, g) /\ FlattenSeq(first) = g[k]
    BY <2>1, FlattenJoined, Zenon
  <2>4. Joined(first, k, f)
    <3>1. \A i \in 0..k - 1 : i \in 0..n - 1 /\ i + 1 \in 1..k
      BY <2>1
    <3> QED
      BY <1>1, <2>2, <3>1 DEF Joined
  <2>5. f[k] = g[k]
    BY <2>1, <2>3, <2>4, JoinedOnce
  <2> QED
    BY <2>3, <2>5 DEF first
<1> QED
  BY <1>1, <1>2 DEF JoinedUpTo

-----------------------------------------------------------------------------
(* The inductive invariant of what owns which memory.                      *)

(* What structs and the column point to.                                   *)
Held == UNION {Structs(h) : h \in Holders}

(* What structs s, of one holder, point to.                                *)
Pointers(s) == {s[f] : f \in DOMAIN s}

Chunks == {column.chunks[i] : i \in DOMAIN column.chunks}

Roots == (Held \cup Chunks) \ {NULL}

(* Memory m that these roots own: a payload is a root or the child of one  *)
(* payload, never both, and a child has no child.                          *)
Tidy(roots, m) ==
  /\ roots \subseteq DOMAIN m /\ DOMAIN m \subseteq Payloads
  /\ \A q \in DOMAIN m : m[q].child # NULL =>
       m[q].child \in DOMAIN m \ roots /\ m[m[q].child].child = NULL
  /\ \A q, r \in DOMAIN m : m[q].child = m[r].child => m[q].child = NULL \/ q = r
  /\ \A p \in DOMAIN m : p \in roots \/ \E q \in DOMAIN m : m[q].child = p

(* No two places hold the same root.                                       *)
SlotsApart ==
  \A g, h \in Holders : \A e \in DOMAIN slots[g], f \in DOMAIN slots[h] :
    slots[g][e] = slots[h][f] => slots[g][e] = NULL \/ (g = h /\ e = f)

ChunksApart ==
  /\ \A i, j \in DOMAIN column.chunks : column.chunks[i] = column.chunks[j] => i = j
  /\ Held \cap Chunks = {} /\ NULL \notin Chunks

CallType ==
  \/ call = Idle
  \/ call = [op |-> "import", holder |-> call.holder] /\ call.holder \in Holders
  \/ call.op = "export" /\ call \in [op : {"export"}, holder : Holders, next : Nat \ {0}]
  \/ /\ call.op = "read"
     /\ call \in [op : {"read"}, holder : Holders, next : Nat \ {0}, items : {call.items}]

(* The holder of the call under way, and every other one.                  *)
HolderFits(h) ==
  /\ status[h] \in {"none", "held", "garbage", "pinned"}
  /\ status[h] = "held" <=> call # Idle /\ call.holder = h
  /\ status[h] = "none" => slots[h] = <<>>
  /\ call.op = "import" /\ call.holder = h =>
       column = NoColumn /\ DOMAIN slots[h] = Fields(1) /\ NULL \notin Structs(h)
  /\ call.op \in {"export", "read"} /\ call.holder = h =>
       DOMAIN slots[h] = Fields(Len(column.chunks))
  /\ call.op = "export" /\ call.holder = h =>
       \A f \in DOMAIN slots[h] : f[1] >= call.next => slots[h][f] = NULL

VectorType ==
  vec.kind \in {"none", "cells", "coverings"} /\ vec = [kind |-> vec.kind, items |-> vec.items]

IInv ==
  /\ DOMAIN slots = Holders /\ DOMAIN status = Holders
  /\ VectorType /\ CallType
  /\ column.kind \in {"none", "cells", "coverings"} /\ column.chunks \in Seq(Payloads)
  /\ misused = FALSE
  /\ \A h \in Holders : HolderFits(h)
  /\ SlotsApart /\ ChunksApart /\ Tidy(Roots, mem)

-----------------------------------------------------------------------------
(* Memory.                                                                 *)

LEMMA NullApart == NULL \notin Payloads
  BY SlotsAssumption

(* What only roots are released leaves the other roots with their own.     *)
LEMMA ReleaseTidy ==
  ASSUME NEW roots, Tidy(roots, mem), NEW ps, ps \ {NULL} \subseteq roots, Release(ps),
         misused = FALSE
  PROVE  IsLive(ps) /\ misused' = FALSE /\ Tidy(roots \ ps, mem')
  <1> USE NullApart
  <1> DEFINE Kept == DOMAIN mem \ Group(ps)
  <1>1. NULL \notin DOMAIN mem
    BY DEF Tidy
  <1>2. \A p \in Group(ps) : p \in DOMAIN mem /\ (p \in ps \/ \E q \in ps \cap DOMAIN mem : p = mem[q].child)
    BY DEF Group, Tidy
  <1>3. IsLive(ps) /\ misused' = FALSE
    BY <1>2 DEF IsLive, Release
  <1>4. DOMAIN mem' = Kept /\ \A p \in Kept : mem'[p] = mem[p]
    BY DEF Release
  <1>5. roots \ ps \subseteq Kept
    BY <1>1, <1>2 DEF Tidy
  <1>6. ASSUME NEW q \in Kept, mem[q].child # NULL
        PROVE  mem[q].child \in Kept \ roots
    <2>1. mem[q].child \in DOMAIN mem \ roots
      BY <1>6 DEF Tidy
    <2>2. q \notin ps
      BY <1>1 DEF Group
    <2>3. mem[q].child \notin ps
      BY <2>1, <1>6
    <2>4. \A r \in ps \cap DOMAIN mem : mem[q].child # mem[r].child
      BY <2>2, <1>6 DEF Tidy
    <2> QED
      BY <2>1, <2>3, <2>4, <1>2
  <1>7. ASSUME NEW p \in Kept, p \notin roots \ ps
        PROVE  \E q \in Kept : mem[q].child = p
    <2>1. p \notin ps
      BY <1>1 DEF Group
    <2>2. PICK q \in DOMAIN mem : mem[q].child = p
      BY <1>7, <2>1 DEF Tidy
    <2>3. p # NULL
      BY <1>1
    <2>4. q \notin ps
      BY <2>2, <2>3 DEF Group
    <2>5. \A r \in ps \cap DOMAIN mem : mem[r].child # NULL => mem[mem[r].child].child = NULL
      BY DEF Tidy
    <2>6. q \notin Group(ps)
      BY <1>1, <1>2, <2>2, <2>3, <2>4, <2>5
    <2> QED
      BY <2>2, <2>6
  <1> HIDE DEF Kept
  <1>8. Kept \subseteq DOMAIN mem
    BY DEF Kept
  <1>9. \A q \in Kept : mem[q].child # NULL => mem[mem[q].child].child = NULL
    BY <1>8 DEF Tidy
  <1>10. \A q, r \in Kept : mem[q].child = mem[r].child => mem[q].child = NULL \/ q = r
    BY <1>8 DEF Tidy
  <1>11. DOMAIN mem \subseteq Payloads
    BY DEF Tidy
  <1> QED
    BY <1>3, <1>4, <1>5, <1>6, <1>7, <1>8, <1>9, <1>10, <1>11 DEF Tidy

(* Blocks as the code exports them: an array or a schema with at most one  *)
(* child.                                                                  *)
AreBlocks(blocks) == \A i \in DOMAIN blocks : Len(blocks[i]) \in {1, 2}

Heads(blocks, at) == {at[<<i, 1>>] : i \in DOMAIN blocks}

LEMMA FreshApart ==
  ASSUME NEW blocks, HasRoom(blocks)
  PROVE  Fresh(blocks) \in Addresses(blocks) /\ Apart(Fresh(blocks))
  BY DEF HasRoom, Fresh

AreStored(roots, blocks, at) ==
  /\ Tidy(roots \cup Heads(blocks, at), mem')
  /\ \A i \in DOMAIN blocks : at[<<i, 1>>] \in Payloads \ DOMAIN mem
  /\ \A i, j \in DOMAIN blocks : at[<<i, 1>>] = at[<<j, 1>>] => i = j

(* Blocks are stored at addresses that were free, one for each part.       *)
LEMMA StoreTidy ==
  ASSUME NEW roots, Tidy(roots, mem), NEW blocks, AreBlocks(blocks),
         NEW at \in Addresses(blocks), Apart(at), mem' = Stored(blocks, at)
  PROVE  AreStored(roots, blocks, at)
  <1> USE NullApart
  <1>1. /\ DOMAIN at = Spots(blocks)
        /\ \A s \in Spots(blocks) : at[s] \in Payloads \ DOMAIN mem
        /\ \A s, t \in Spots(blocks) : at[s] = at[t] => s = t
    BY DEF Addresses, Apart
  <1>2. \A i \in DOMAIN blocks : <<i, 1>> \in Spots(blocks)
    BY DEF Spots, AreBlocks
  <1>3. \A i \in DOMAIN blocks : 1 < Len(blocks[i]) => <<i, 2>> \in Spots(blocks)
    BY DEF Spots, AreBlocks
  <1>4. \A s \in Spots(blocks) :
          /\ s[1] \in DOMAIN blocks /\ (s = <<s[1], 1>> \/ s = <<s[1], 2>>)
          /\ s[2] <= Len(blocks[s[1]]) /\ s[2] \in 1..2
    BY DEF Spots
  <1> DEFINE New == {at[s] : s \in Spots(blocks)}
             ChildOf(s) == IF s[2] < Len(blocks[s[1]]) THEN at[<<s[1], 2>>] ELSE NULL
  <1>5. DOMAIN mem' = DOMAIN mem \cup New
    BY DEF Stored
  <1>6. \A p \in DOMAIN mem : mem'[p] = mem[p]
    BY DEF Stored
  <1>7. ASSUME NEW s \in Spots(blocks)
        PROVE  mem'[at[s]].child = ChildOf(s)
    <2>1. at[s] \notin DOMAIN mem
      BY <1>1
    <2>2. (CHOOSE t \in Spots(blocks) : at[t] = at[s]) = s
      BY <1>1
    <2>3. mem'[at[s]] =
            [data |-> blocks[s[1]][s[2]],
             child |-> IF s[2] < Len(blocks[s[1]]) THEN at[<<s[1], 2>>] ELSE NULL]
      BY <1>5, <2>1, <2>2 DEF Stored
    <2> QED
      BY <2>3
  <1>8. ASSUME NEW i \in DOMAIN blocks
        PROVE  /\ ChildOf(<<i, 1>>) = IF 1 < Len(blocks[i]) THEN at[<<i, 2>>] ELSE NULL
               /\ ChildOf(<<i, 2>>) = NULL
    <2>1. Len(blocks[i]) \in {1, 2}
      BY DEF AreBlocks
    <2>2. <<i, 1>>[1] = i /\ <<i, 2>>[1] = i /\ <<i, 1>>[2] = 1 /\ <<i, 2>>[2] = 2
      OBVIOUS
    <2>3. \A n \in {1, 2} : ~(2 < n)
      OBVIOUS
    <2>4. ~(2 < Len(blocks[i]))
      BY <2>1, <2>3, Zenon
    <2> QED
      BY <2>2, <2>4
  <1>9. \A s \in Spots(blocks) :
          ChildOf(s) # NULL => /\ s = <<s[1], 1>> /\ <<s[1], 2>> \in Spots(blocks)
                               /\ ChildOf(s) = at[<<s[1], 2>>]
    BY <1>3, <1>4, <1>8
  <1>10. \A s \in Spots(blocks) :
           s = <<s[1], 2>> => ChildOf(<<s[1], 1>>) = at[s]
    BY <1>4, <1>8 DEF AreBlocks
  <1> HIDE DEF ChildOf
  <1>11. \A p \in New : p \in Payloads \ DOMAIN mem /\ \E s \in Spots(blocks) : p = at[s]
    BY <1>1
  <1>12. \A s \in Spots(blocks) : at[s] \in New
    OBVIOUS
  <1> HIDE DEF New
  <1>13. Heads(blocks, at) \subseteq New
    BY <1>2, <1>12 DEF Heads
  <1>14. \A i, j \in DOMAIN blocks : at[<<i, 1>>] = at[<<j, 1>>] => i = j
    BY <1>1, <1>2
  <1>15. \A s \in Spots(blocks) : s = <<s[1], 2>> => at[s] \notin Heads(blocks, at)
    <2>1. \A s \in Spots(blocks) : \A i : s = <<s[1], 2>> => s # <<i, 1>>
      OBVIOUS
    <2> QED
      BY <2>1, <1>1, <1>2 DEF Heads
  <1> DEFINE R == roots \cup Heads(blocks, at)
  <1>16. R \subseteq DOMAIN mem' /\ DOMAIN mem' \subseteq Payloads
    BY <1>5, <1>11, <1>13 DEF Tidy
  <1>17. ASSUME NEW q \in DOMAIN mem', mem'[q].child # NULL
         PROVE  mem'[q].child \in DOMAIN mem' \ R /\ mem'[mem'[q].child].child = NULL
    <2>1. CASE q \in DOMAIN mem
      <3>1. mem[q].child \in DOMAIN mem \ roots /\ mem[mem[q].child].child = NULL
        BY <1>6, <1>17, <2>1 DEF Tidy
      <3>2. mem[q].child \notin Heads(blocks, at)
        BY <3>1, <1>11, <1>13
      <3> QED
        BY <3>1, <3>2, <1>5, <1>6, <2>1
    <2>2. CASE q \notin DOMAIN mem
      <3>1. PICK s \in Spots(blocks) : q = at[s]
        BY <1>5, <1>11, <2>2
      <3>2. <<s[1], 2>> \in Spots(blocks) /\ mem'[q].child = at[<<s[1], 2>>]
        BY <3>1, <1>7, <1>9, <1>17
      <3>3. at[<<s[1], 2>>] \notin Heads(blocks, at)
        BY <3>2, <1>15
      <3>4. at[<<s[1], 2>>] \notin roots
        BY <3>2, <1>1 DEF Tidy
      <3>5. mem'[at[<<s[1], 2>>]].child = NULL
        BY <3>2, <1>7, <1>8, <1>4
      <3> QED
        BY <3>2, <3>3, <3>4, <3>5, <1>5, <1>12
    <2> QED
      BY <2>1, <2>2
  <1>18. ASSUME NEW q \in DOMAIN mem', NEW r \in DOMAIN mem', mem'[q].child = mem'[r].child,
                mem'[q].child # NULL
         PROVE  q = r
    <2>1. \A p \in DOMAIN mem : mem[p].child # NULL => mem[p].child \in DOMAIN mem
      BY DEF Tidy
    <2>2. \A p \in New : mem'[p].child # NULL => mem'[p].child \notin DOMAIN mem
      <3>1. ASSUME NEW s \in Spots(blocks), ChildOf(s) # NULL
            PROVE  ChildOf(s) \notin DOMAIN mem
        <4>1. <<s[1], 2>> \in Spots(blocks) /\ ChildOf(s) = at[<<s[1], 2>>]
          BY <3>1, <1>9
        <4> QED
          BY <4>1, <1>1
      <3> QED
        BY <3>1, <1>7, <1>11
    <2>3. CASE q \in DOMAIN mem /\ r \in DOMAIN mem
      BY <1>6, <1>18, <2>3 DEF Tidy
    <2>4. CASE q \in New /\ r \in New
      <3>1. PICK s \in Spots(blocks), t \in Spots(blocks) : q = at[s] /\ r = at[t]
        BY <2>4, <1>11
      <3>2. /\ s = <<s[1], 1>> /\ t = <<t[1], 1>>
            /\ <<s[1], 2>> \in Spots(blocks) /\ <<t[1], 2>> \in Spots(blocks)
            /\ at[<<s[1], 2>>] = at[<<t[1], 2>>]
        BY <3>1, <1>7, <1>9, <1>18
      <3>3. <<s[1], 2>> = <<t[1], 2>>
        BY <3>2, <1>1
      <3> QED
        BY <3>1, <3>2, <3>3
    <2> QED
      BY <2>1, <2>2, <2>3, <2>4, <1>5, <1>6, <1>18
  <1>19. ASSUME NEW p \in DOMAIN mem', p \notin R
         PROVE  \E q \in DOMAIN mem' : mem'[q].child = p
    <2>1. CASE p \in DOMAIN mem
      BY <2>1, <1>5, <1>6, <1>19 DEF Tidy
    <2>2. CASE p \notin DOMAIN mem
      <3>1. PICK s \in Spots(blocks) : p = at[s]
        BY <1>5, <1>11, <2>2
      <3>2. s = <<s[1], 2>> /\ s[1] \in DOMAIN blocks
        BY <3>1, <1>4, <1>19 DEF Heads
      <3>3. mem'[at[<<s[1], 1>>]].child = p
        BY <3>1, <3>2, <1>2, <1>7, <1>10
      <3> QED
        BY <3>2, <3>3, <1>2, <1>5, <1>12
    <2> QED
      BY <2>1, <2>2
  <1>20. Tidy(R, mem')
    BY <1>16, <1>17, <1>18, <1>19 DEF Tidy
  <1> QED
    BY <1>1, <1>2, <1>14, <1>20 DEF AreStored

-----------------------------------------------------------------------------
(* Structs.                                                                *)

LEMMA InHeld ==
  \A p : p \in Held <=> \E h \in Holders : \E f \in DOMAIN slots[h] : slots[h][f] = p
  BY DEF Held, Structs

LEMMA RootsArePayloads ==
  ASSUME IInv
  PROVE  Roots \subseteq DOMAIN mem /\ DOMAIN mem \subseteq Payloads
  BY DEF IInv, Tidy

GivenUp(h, s) ==
  /\ DOMAIN slots' = Holders /\ slots'[h] = s
  /\ \A g \in Holders : g # h => slots'[g] = slots[g]
  /\ SlotsApart'
  /\ \A p : p # NULL =>
       (p \in Held' <=> p \in Held /\ ~(p \in Structs(h) /\ p \notin Pointers(s)))

(* A holder that only gives up structs leaves the others with theirs.      *)
LEMMA GiveUp ==
  ASSUME IInv, NEW h \in Holders, NEW s, slots' = [slots EXCEPT ![h] = s],
         \A f \in DOMAIN s : s[f] # NULL => f \in DOMAIN slots[h] /\ s[f] = slots[h][f]
  PROVE  GivenUp(h, s)
  <1>1. DOMAIN slots = Holders /\ SlotsApart
    BY DEF IInv
  <1>2. /\ DOMAIN slots' = Holders /\ slots'[h] = s
        /\ \A g \in Holders : g # h => slots'[g] = slots[g]
    BY <1>1
  <1>3. ASSUME NEW g \in Holders, NEW f \in DOMAIN slots'[g], slots'[g][f] # NULL
        PROVE  f \in DOMAIN slots[g] /\ slots'[g][f] = slots[g][f]
    BY <1>2, <1>3
  <1>4. SlotsApart'
    BY <1>1, <1>3 DEF SlotsApart
  <1> DEFINE Gone == Structs(h) \ Pointers(s)
  <1> HIDE DEF Gone
  <1>5. ASSUME NEW p, p # NULL
        PROVE  p \in Held' <=> p \in Held /\ p \notin Gone
    <2>1. p \in Held' <=> \E g \in Holders : \E f \in DOMAIN slots'[g] : slots'[g][f] = p
      BY DEF Held, Structs
    <2>2. ASSUME p \in Held'
          PROVE  p \in Held /\ p \notin Gone
      <3>0. PICK g \in Holders : \E f \in DOMAIN slots'[g] : slots'[g][f] = p
        BY <2>1, <2>2
      <3>1. PICK f \in DOMAIN slots'[g] : slots'[g][f] = p
        BY <3>0
      <3>2. f \in DOMAIN slots[g] /\ slots[g][f] = p
        BY <3>1, <1>3, <1>5
      <3>3. CASE g = h
        BY <3>1, <3>2, <3>3, <1>2, InHeld DEF Gone, Pointers
      <3>4. CASE g # h
        <4>1. p \notin Structs(h)
          BY <3>2, <3>4, <1>1, <1>5 DEF SlotsApart, Structs
        <4> QED
          BY <4>1, <3>2, InHeld DEF Gone
      <3> QED
        BY <3>3, <3>4
    <2>3. ASSUME p \in Held, p \notin Gone
          PROVE  p \in Held'
      <3>0. PICK g \in Holders : \E f \in DOMAIN slots[g] : slots[g][f] = p
        BY <2>3, InHeld
      <3>1. PICK f \in DOMAIN slots[g] : slots[g][f] = p
        BY <3>0
      <3>2. CASE g = h
        <4>1. p \in Pointers(s)
          BY <3>1, <3>2, <2>3 DEF Gone, Structs
        <4> QED
          BY <4>1, <1>2, <2>1 DEF Pointers
      <3>3. CASE g # h
        BY <3>1, <3>3, <1>2, <2>1
      <3> QED
        BY <3>2, <3>3
    <2> QED
      BY <2>2, <2>3
  <1> QED
    BY <1>2, <1>4, <1>5 DEF Gone, GivenUp

Filled(h, s, new) ==
  /\ DOMAIN slots' = Holders /\ slots'[h] = s
  /\ \A g \in Holders : g # h => slots'[g] = slots[g]
  /\ SlotsApart'
  /\ \A p : p # NULL => (p \in Held' <=> p \in Held \/ p \in new)

(* A holder that gets new structs, next to those it has.                   *)
LEMMA Fill ==
  ASSUME IInv, NEW h \in Holders, NEW s, slots' = [slots EXCEPT ![h] = s],
         NEW new, new \subseteq Payloads \ DOMAIN mem,
         \A f \in DOMAIN s : \/ s[f] \in new
                             \/ f \in DOMAIN slots[h] /\ s[f] = slots[h][f],
         \A e, f \in DOMAIN s : s[e] = s[f] /\ s[e] \in new => e = f,
         \A f \in DOMAIN slots[h] : slots[h][f] # NULL => f \in DOMAIN s /\ s[f] = slots[h][f],
         \A p \in new : \E f \in DOMAIN s : s[f] = p
  PROVE  Filled(h, s, new)
  <1>1. DOMAIN slots = Holders /\ SlotsApart
    BY DEF IInv
  <1>2. /\ DOMAIN slots' = Holders /\ slots'[h] = s
        /\ \A g \in Holders : g # h => slots'[g] = slots[g]
    BY <1>1
  <1>3. \A g \in Holders : \A f \in DOMAIN slots[g] : slots[g][f] \notin new
    <2>1. Held \ {NULL} \subseteq DOMAIN mem
      BY RootsArePayloads DEF Roots
    <2> QED
      BY <2>1, InHeld, NullApart
  <1>4. ASSUME NEW g \in Holders, NEW f \in DOMAIN slots'[g]
        PROVE  \/ f \in DOMAIN slots[g] /\ slots'[g][f] = slots[g][f]
               \/ g = h /\ slots'[g][f] \in new
    BY <1>2
  <1>5. SlotsApart'
    <2> SUFFICES ASSUME NEW f \in Holders, NEW g \in Holders,
                        NEW d \in DOMAIN slots'[f], NEW e \in DOMAIN slots'[g],
                        slots'[f][d] = slots'[g][e], slots'[f][d] # NULL
                 PROVE  f = g /\ d = e
      BY DEF SlotsApart
    <2>1. CASE slots'[f][d] \in new
      <3>1. f = h /\ g = h
        BY <1>3, <1>4, <2>1
      <3> QED
        BY <3>1, <2>1, <1>2
    <2>2. CASE slots'[f][d] \notin new
      BY <1>1, <1>4, <2>2 DEF SlotsApart
    <2> QED
      BY <2>1, <2>2
  <1>6. ASSUME NEW p, p # NULL
        PROVE  p \in Held' <=> p \in Held \/ p \in new
    <2>1. p \in Held' <=> \E g \in Holders : \E f \in DOMAIN slots'[g] : slots'[g][f] = p
      BY DEF Held, Structs
    <2>2. p \in Held' => p \in Held \/ p \in new
      BY <2>1, <1>4, InHeld
    <2>3. p \in new => p \in Held'
      BY <2>1, <1>2
    <2>4. ASSUME p \in Held
          PROVE  p \in Held'
      <3>0. PICK g \in Holders : \E f \in DOMAIN slots[g] : slots[g][f] = p
        BY <2>4, InHeld
      <3>1. PICK f \in DOMAIN slots[g] : slots[g][f] = p
        BY <3>0
      <3> QED
        BY <3>1, <2>1, <1>2, <1>6
    <2> QED
      BY <2>2, <2>3, <2>4
  <1> QED
    BY <1>2, <1>5, <1>6 DEF Filled

(* A holder that no call has is not affected by the next one.              *)
LEMMA OthersFit ==
  ASSUME IInv, NEW h \in Holders, NEW g \in Holders, g # h,
         slots'[g] = slots[g], status'[g] = status[g],
         call = Idle \/ call.holder = h, call' = Idle \/ call'.holder = h
  PROVE  HolderFits(g)'
  <1>1. HolderFits(g)
    BY DEF IInv
  <1>2. status[g] # "held"
    BY <1>1 DEF HolderFits, Idle
  <1>3. Idle.op = "idle"
    BY DEF Idle
  <1> QED
    BY <1>1, <1>2, <1>3 DEF HolderFits

-----------------------------------------------------------------------------
(* The steps that leave memory as it is.                                   *)

LEMMA SameMemory ==
  ASSUME IInv, UNCHANGED <<mem, slots, column, misused>>, DOMAIN status' = Holders,
         VectorType', CallType', \A h \in Holders : HolderFits(h)'
  PROVE  IInv'
  <1>1. Held' = Held /\ Chunks' = Chunks
    BY DEF Held, Structs, Chunks
  <1>2. Roots' = Roots
    BY <1>1 DEF Roots
  <1>3. SlotsApart'
    BY DEF IInv, SlotsApart
  <1>4. ChunksApart'
    BY <1>1 DEF IInv, ChunksApart
  <1> QED
    BY <1>2, <1>3, <1>4 DEF IInv

LEMMA UserSteps ==
  ASSUME IInv, NewVector \/ Grow \/ DropVector
  PROVE  IInv'
  <1>1. UNCHANGED <<mem, slots, status, column, call, misused>>
    BY DEF NewVector, Grow, DropVector
  <1>2. VectorType'
    <2>1. CASE NewVector
      BY <2>1, SlotsAssumption DEF NewVector, VectorType
    <2>2. CASE Grow
      BY <2>2 DEF Grow, VectorType, IInv
    <2>3. CASE DropVector
      BY <2>3 DEF DropVector, VectorType, NoVector
    <2> QED
      BY <2>1, <2>2, <2>3
  <1>3. \A h \in Holders : HolderFits(h)'
    BY <1>1 DEF IInv, HolderFits, Structs
  <1>4. CallType' /\ DOMAIN status' = Holders
    BY <1>1 DEF IInv, CallType
  <1> QED
    BY <1>1, <1>2, <1>3, <1>4, SameMemory

(* What the call under way says of its holder.                             *)
LEMMA Calling ==
  ASSUME IInv, call # Idle
  PROVE  /\ call.holder \in Holders /\ status[call.holder] = "held"
         /\ call.op = "import" => /\ call = [op |-> "import", holder |-> call.holder]
                                  /\ DOMAIN slots[call.holder] = Fields(1)
                                  /\ NULL \notin Structs(call.holder)
                                  /\ column = NoColumn
         /\ call.op \in {"export", "read"} =>
              /\ DOMAIN slots[call.holder] = Fields(Len(column.chunks))
              /\ call.next \in Nat \ {0}
         /\ call.op = "export" =>
              call = [op |-> "export", holder |-> call.holder, next |-> call.next]
         /\ call.op = "read" =>
              call = [op |-> "read", holder |-> call.holder, next |-> call.next,
                      items |-> call.items]
  <1>1. CallType /\ \A h \in Holders : HolderFits(h)
    BY DEF IInv
  <1>2. /\ call.holder \in Holders
        /\ call.op = "import" => call = [op |-> "import", holder |-> call.holder]
        /\ call.op \in {"export", "read"} => call.next \in Nat \ {0}
        /\ call.op = "export" =>
              call = [op |-> "export", holder |-> call.holder, next |-> call.next]
        /\ call.op = "read" =>
              call = [op |-> "read", holder |-> call.holder, next |-> call.next,
                      items |-> call.items]
    BY <1>1 DEF CallType
  <1>3. HolderFits(call.holder)
    BY <1>1, <1>2
  <1> QED
    BY <1>2, <1>3 DEF HolderFits

(* A call that ends lets go of its holder.                                 *)
LEMMA EndFits ==
  ASSUME IInv, NEW h \in Holders, call # Idle, call.holder = h,
         NEW s \in {"garbage", "pinned"}, EndsWith(h, s)
  PROVE  DOMAIN status' = Holders /\ CallType' /\ HolderFits(h)'
  <1>1. call' = Idle /\ status' = [status EXCEPT ![h] = s] /\ DOMAIN status = Holders
    BY DEF EndsWith, IInv
  <1>2. status'[h] = s /\ DOMAIN status' = Holders
    BY <1>1
  <1> QED
    BY <1>1, <1>2 DEF HolderFits, CallType, Idle

LEMMA ExportFailsStep ==
  ASSUME IInv, NEW h \in Holders, ExportFails(h)
  PROVE  IInv'
  <1>1. call # Idle /\ call.holder = h /\ EndsWith(h, "garbage")
    BY DEF ExportFails, Idle
  <1>2. DOMAIN status' = Holders /\ CallType' /\ HolderFits(h)'
    BY <1>1, EndFits
  <1>3. \A g \in Holders : g # h => HolderFits(g)'
    BY <1>1, OthersFit DEF ExportFails, EndsWith, IInv
  <1> QED
    BY <1>2, <1>3, SameMemory DEF ExportFails, IInv, VectorType

LEMMA BeginReadStep ==
  ASSUME IInv, NEW h \in Holders, BeginRead(h)
  PROVE  IInv'
  <1>1. call # Idle /\ call.holder = h /\ call.op = "export"
    BY DEF BeginRead, Idle
  <1>2. call' = [op |-> "read", holder |-> h, next |-> 1, items |-> <<>>]
    BY DEF BeginRead
  <1>3. CallType'
    BY <1>2 DEF CallType
  <1>4. HolderFits(h)'
    BY <1>1, <1>2, Calling DEF BeginRead, HolderFits, Idle
  <1>5. \A g \in Holders : g # h => HolderFits(g)'
    BY <1>1, <1>2, OthersFit DEF BeginRead
  <1> QED
    BY <1>3, <1>4, <1>5, SameMemory DEF BeginRead, IInv, VectorType

(* A struct that is still filled has its memory.                           *)
LEMMA HeldIsLive ==
  ASSUME IInv, NEW ps, ps \ {NULL} \subseteq Roots
  PROVE  IsLive(ps)
  <1>1. Tidy(Roots, mem)
    BY DEF IInv
  <1> QED
    BY <1>1 DEF IsLive, Group, Tidy

LEMMA ReadStep ==
  ASSUME IInv, NEW h \in Holders, Read(h)
  PROVE  IInv'
  <1>1. call # Idle /\ call.holder = h /\ call.op = "read"
    BY DEF Read, Idle
  <1> DEFINE array == slots[h][<<call.next, "array">>]
             schema == slots[h][<<call.next, "schema">>]
  <1>2. <<call.next, "array">> \in DOMAIN slots[h] /\ <<call.next, "schema">> \in DOMAIN slots[h]
    BY <1>1, Calling DEF Read, Fields
  <1>3. IsLive({array, schema})
    <2>1. {array, schema} \subseteq Held
      BY <1>2, InHeld
    <2> QED
      BY <2>1, HeldIsLive DEF Roots
  <1>4. misused = FALSE
    BY DEF IInv
  <1>5. misused' = misused
    BY <1>3, <1>4 DEF Read
  <1>6. UNCHANGED <<mem, slots, vec, column>>
    BY DEF Read
  <1>7. CASE EndsWith(h, "pinned")
    <2>1. DOMAIN status' = Holders /\ CallType' /\ HolderFits(h)'
      BY <1>1, <1>7, EndFits
    <2>2. \A g \in Holders : g # h => HolderFits(g)'
      BY <1>1, <1>6, <1>7, OthersFit DEF EndsWith, IInv
    <2> QED
      BY <1>5, <1>6, <2>1, <2>2, SameMemory DEF IInv, VectorType
  <1>8. CASE ~EndsWith(h, "pinned")
    <2>1. PICK items : call' = [call EXCEPT !.next = @ + 1, !.items = items] /\ status' = status
      BY <1>8 DEF Read
    <2>2. call' = [op |-> "read", holder |-> h, next |-> call.next + 1, items |-> items]
      BY <1>1, <2>1, Calling
    <2>3. CallType'
      BY <1>1, <2>2, Calling DEF CallType
    <2>4. HolderFits(h)'
      BY <1>1, <1>6, <2>1, <2>2, Calling DEF HolderFits, Idle
    <2>5. \A g \in Holders : g # h => HolderFits(g)'
      BY <1>1, <1>6, <2>1, <2>2, OthersFit
    <2> QED
      BY <1>5, <1>6, <2>1, <2>3, <2>4, <2>5, SameMemory DEF IInv, VectorType
  <1> QED
    BY <1>7, <1>8

-----------------------------------------------------------------------------
(* The steps that release memory.                                          *)

(* A call that is over, with nothing but its holder changed.               *)
LEMMA OverFits ==
  ASSUME IInv, NEW h \in Holders, call # Idle, call.holder = h,
         NEW s \in {"garbage", "pinned"}, EndsWith(h, s),
         \A g \in Holders : g # h => slots'[g] = slots[g]
  PROVE  DOMAIN status' = Holders /\ CallType' /\ \A g \in Holders : HolderFits(g)'
  <1>1. DOMAIN status' = Holders /\ CallType' /\ HolderFits(h)'
    BY EndFits
  <1>2. \A g \in Holders : g # h => HolderFits(g)'
    BY OthersFit DEF EndsWith, IInv
  <1> QED
    BY <1>1, <1>2

LEMMA DropColumnStep ==
  ASSUME IInv, DropColumn
  PROVE  IInv'
  <1>1. Tidy(Roots, mem) /\ misused = FALSE /\ ChunksApart
    BY DEF IInv
  <1>2. UNCHANGED <<slots, status, vec, call>> /\ column' = NoColumn /\ call = Idle
    BY DEF DropColumn
  <1>3. Release(Chunks)
    BY DEF DropColumn, Chunks, ToSet
  <1>4. Chunks \ {NULL} \subseteq Roots
    BY DEF Roots
  <1>5. misused' = FALSE /\ Tidy(Roots \ Chunks, mem')
    BY <1>1, <1>3, <1>4, ReleaseTidy
  <1>6. column'.chunks = <<>>
    BY <1>2 DEF NoColumn
  <1>7. Held' = Held /\ Chunks' = {}
    BY <1>2, <1>6 DEF Held, Structs, Chunks
  <1>8. Roots' = Roots \ Chunks
    BY <1>1, <1>7 DEF Roots, ChunksApart
  <1>9. SlotsApart' /\ VectorType' /\ CallType'
    BY <1>2 DEF IInv, SlotsApart, VectorType, CallType
  <1>10. ChunksApart'
    BY <1>6, <1>7 DEF ChunksApart
  <1>11. \A h \in Holders : HolderFits(h)'
    BY <1>2 DEF IInv, HolderFits, Idle
  <1> QED
    BY <1>2, <1>5, <1>6, <1>8, <1>9, <1>10, <1>11 DEF IInv, NoColumn

LEMMA FieldsOfOne == Fields(1) = {<<1, "array">>, <<1, "schema">>}
  BY DEF Fields

LEMMA ImportStep ==
  ASSUME IInv, NEW h \in Holders, Import(h)
  PROVE  IInv'
  <1>1. Tidy(Roots, mem) /\ misused = FALSE /\ SlotsApart /\ VectorType
    BY DEF IInv
  <1>2. call # Idle /\ call.holder = h /\ call.op = "import"
    BY DEF Import, Idle
  <1> DEFINE array == slots[h][<<1, "array">>]
             schema == slots[h][<<1, "schema">>]
  <1>3. DOMAIN slots[h] = {<<1, "array">>, <<1, "schema">>} /\ NULL \notin Structs(h) /\ column = NoColumn
    BY <1>2, Calling, FieldsOfOne
  <1>4. Structs(h) = {array, schema} /\ array # schema /\ array # NULL /\ schema # NULL
    BY <1>1, <1>3 DEF SlotsApart, Structs
  <1>5. Structs(h) \subseteq Held
    BY DEF Held
  <1>6. {schema} \ {NULL} \subseteq Roots /\ array \in Roots
    BY <1>4, <1>5 DEF Roots
  <1>7. misused' = FALSE /\ Tidy(Roots \ {schema}, mem')
    BY <1>1, <1>6, ReleaseTidy DEF Import
  <1> DEFINE s == EmptySlots(1)
  <1>8. slots' = [slots EXCEPT ![h] = s] /\ \A f \in DOMAIN s : s[f] = NULL
    BY DEF Import, EmptySlots
  <1>9. s[<<1, "array">>] = NULL /\ <<1, "array">> \in DOMAIN s
    BY FieldsOfOne DEF EmptySlots
  <1> HIDE DEF s
  <1>10. Pointers(s) = {NULL}
    BY <1>8, <1>9 DEF Pointers
  <1>11. /\ DOMAIN slots' = Holders
         /\ \A g \in Holders : g # h => slots'[g] = slots[g]
         /\ SlotsApart'
         /\ \A p : p # NULL => (p \in Held' <=> p \in Held /\ p \notin Structs(h))
    <2>1. \A f \in DOMAIN s : s[f] # NULL => f \in DOMAIN slots[h] /\ s[f] = slots[h][f]
      BY <1>8
    <2>2. GivenUp(h, s)
      BY <1>8, <2>1, GiveUp
    <2> QED
      BY <1>10, <2>2 DEF GivenUp
  <1> HIDE DEF array, schema
  <1>12. column'.chunks = <<array>>
    BY DEF Import, array
  <1>13. Chunks' = {array}
    BY <1>12 DEF Chunks
  <1>14. Chunks = {}
    BY <1>3 DEF Chunks, NoColumn
  <1>15. Roots' = Roots \ {schema}
    BY <1>4, <1>5, <1>11, <1>13, <1>14 DEF Roots
  <1>16. ChunksApart'
    <2>1. \A i, j \in DOMAIN column'.chunks : i = j
      BY <1>12
    <2>2. array \notin Held'
      BY <1>4, <1>11
    <2> QED
      BY <2>1, <2>2, <1>4, <1>13 DEF ChunksApart
  <1>17. column'.chunks \in Seq(Payloads) /\ column'.kind = vec.kind
    BY <1>6, <1>12, RootsArePayloads DEF Import
  <1>18. DOMAIN status' = Holders /\ CallType' /\ \A g \in Holders : HolderFits(g)'
    BY <1>2, <1>11, OverFits DEF Import
  <1>19. VectorType'
    BY <1>1 DEF Import, VectorType
  <1> QED
    BY <1>1, <1>7, <1>11, <1>15, <1>16, <1>17, <1>18, <1>19 DEF IInv, VectorType

(* Structs that a holder gives up are released, and the column stays.      *)
LEMMA ReleaseStructs ==
  ASSUME IInv, NEW h \in Holders, NEW s, slots' = [slots EXCEPT ![h] = s],
         \A f \in DOMAIN s : s[f] # NULL => f \in DOMAIN slots[h] /\ s[f] = slots[h][f],
         NEW ps, ps \subseteq Structs(h),
         ps \ {NULL} = (Structs(h) \ Pointers(s)) \ {NULL},
         Release(ps), column' = column,
         DOMAIN status' = Holders, VectorType', CallType', \A g \in Holders : HolderFits(g)'
  PROVE  IInv'
  <1>1. Tidy(Roots, mem) /\ misused = FALSE /\ ChunksApart /\ column.chunks \in Seq(Payloads)
    BY DEF IInv
  <1>2. Structs(h) \subseteq Held
    BY DEF Held
  <1>3. ps \ {NULL} \subseteq Roots
    BY <1>2 DEF Roots
  <1>4. misused' = FALSE /\ Tidy(Roots \ ps, mem')
    BY <1>1, <1>3, ReleaseTidy
  <1>0. GivenUp(h, s)
    BY GiveUp
  <1>5. /\ DOMAIN slots' = Holders
        /\ SlotsApart'
        /\ \A p : p # NULL =>
             (p \in Held' <=> p \in Held /\ ~(p \in Structs(h) /\ p \notin Pointers(s)))
    BY <1>0 DEF GivenUp
  <1>6. Chunks' = Chunks
    BY DEF Chunks
  <1>7. \A p : p # NULL => (p \in Held' <=> p \in Held /\ p \notin ps)
    BY <1>5
  <1>8. Roots' = Roots \ ps
    BY <1>1, <1>2, <1>6, <1>7 DEF Roots, ChunksApart
  <1>9. ChunksApart'
    BY <1>1, <1>6, <1>7 DEF ChunksApart
  <1> QED
    BY <1>1, <1>4, <1>5, <1>8, <1>9 DEF IInv

LEMMA ImportFailsStep ==
  ASSUME IInv, NEW h \in Holders, ImportFails(h)
  PROVE  IInv'
  <1>1. call # Idle /\ call.holder = h /\ call.op = "import"
    BY DEF ImportFails, Idle
  <1>2. PICK taken \in SUBSET Fields(1) :
          /\ Release({slots[h][f] : f \in taken})
          /\ slots' = [slots EXCEPT ![h] =
                         [f \in Fields(1) |-> IF f \in taken THEN NULL ELSE slots[h][f]]]
    BY DEF ImportFails
  <1>3. DOMAIN slots[h] = Fields(1) /\ SlotsApart
    BY <1>1, Calling DEF IInv
  <1> DEFINE s == [f \in Fields(1) |-> IF f \in taken THEN NULL ELSE slots[h][f]]
             ps == {slots[h][f] : f \in taken}
  <1>4. ps \subseteq Structs(h)
    BY <1>3 DEF Structs
  <1>5. \A f \in DOMAIN s : s[f] # NULL => f \in DOMAIN slots[h] /\ s[f] = slots[h][f]
    BY <1>3
  <1>6. ps \ {NULL} = (Structs(h) \ Pointers(s)) \ {NULL}
    <2>1. ASSUME NEW f \in taken, slots[h][f] # NULL, NEW e \in DOMAIN s
          PROVE  slots[h][f] # s[e]
      BY <1>3, <2>1 DEF SlotsApart
    <2>2. ASSUME NEW f \in Fields(1), slots[h][f] \notin Pointers(s)
          PROVE  f \in taken
      BY <2>2 DEF Pointers
    <2> QED
      BY <1>3, <1>4, <2>1, <2>2 DEF Structs, Pointers
  <1>7. slots' = [slots EXCEPT ![h] = s] /\ Release(ps)
    BY <1>2
  <1> HIDE DEF s, ps
  <1>8. EndsWith(h, "garbage") /\ column' = column /\ VectorType'
    BY DEF ImportFails, IInv, VectorType
  <1>9. \A g \in Holders : g # h => slots'[g] = slots[g]
    BY <1>5, <1>7, GiveUp DEF GivenUp
  <1>10. DOMAIN status' = Holders /\ CallType' /\ \A g \in Holders : HolderFits(g)'
    BY <1>1, <1>8, <1>9, OverFits
  <1> QED
    BY <1>4, <1>5, <1>6, <1>7, <1>8, <1>10, ReleaseStructs

LEMMA EndReadStep ==
  ASSUME IInv, NEW h \in Holders, EndRead(h)
  PROVE  IInv'
  <1>1. call # Idle /\ call.holder = h /\ call.op = "read"
    BY DEF EndRead, Idle
  <1>2. slots' = [slots EXCEPT ![h] = <<>>] /\ Release(Structs(h)) /\ column' = column
    BY DEF EndRead, LeftSlots
  <1>3. DOMAIN <<>> = {} /\ Pointers(<<>>) = {}
    BY DEF Pointers
  <1>4. \A g \in Holders : g # h => slots'[g] = slots[g]
    BY <1>2, <1>3, GiveUp DEF GivenUp
  <1>5. DOMAIN status' = Holders /\ CallType' /\ \A g \in Holders : HolderFits(g)'
    BY <1>1, <1>4, OverFits DEF EndRead
  <1>6. VectorType'
    <2>1. vec' = [kind |-> column.kind, items |-> call.items]
      BY DEF EndRead
    <2> QED
      BY <2>1 DEF IInv, VectorType
  <1> QED
    BY <1>2, <1>3, <1>5, <1>6, ReleaseStructs

LEMMA CollectStep ==
  ASSUME IInv, NEW h \in Holders, Collect(h)
  PROVE  IInv'
  <1>1. slots' = [slots EXCEPT ![h] = <<>>] /\ Release(Structs(h)) /\ column' = column
    BY DEF Collect, Drop
  <1>2. DOMAIN <<>> = {} /\ Pointers(<<>>) = {}
    BY DEF Pointers
  <1>3. \A g \in Holders : g # h => slots'[g] = slots[g]
    BY <1>1, <1>2, GiveUp DEF GivenUp
  <1>4. /\ status' = [status EXCEPT ![h] = "none"] /\ call' = call
        /\ DOMAIN status = Holders /\ DOMAIN slots = Holders
    BY DEF Collect, IInv
  <1>5. status[h] = "garbage" /\ HolderFits(h)
    BY DEF Collect, IInv
  <1>6. CallType' /\ VectorType' /\ DOMAIN status' = Holders
    BY <1>4 DEF IInv, CallType, VectorType, Collect
  <1>7. HolderFits(h)'
    <2>1. call = Idle \/ call.holder # h
      BY <1>5 DEF HolderFits
    <2>2. status'[h] = "none" /\ slots'[h] = <<>>
      BY <1>1, <1>4
    <2> QED
      BY <1>4, <2>1, <2>2 DEF HolderFits, Idle
  <1>8. ASSUME NEW g \in Holders, g # h
        PROVE  HolderFits(g)'
    <2>1. HolderFits(g)
      BY DEF IInv
    <2> QED
      BY <1>1, <1>3, <1>4, <1>8, <2>1 DEF HolderFits, Structs
  <1> QED
    BY <1>1, <1>2, <1>6, <1>7, <1>8, ReleaseStructs

-----------------------------------------------------------------------------
(* The steps that store memory.                                            *)

LEMMA PartsLength ==
  ASSUME NEW chunk
  PROVE  Len(Parts(chunk)) \in {1, 2}
  BY DEF Parts

LEMMA ExportsAreBlocks ==
  ASSUME NEW chunk, NEW format
  PROVE  /\ AreBlocks(Exports(chunk, format))
         /\ DOMAIN Exports(chunk, format) = {1, 2}
  <1> DEFINE blocks == Exports(chunk, format)
  <1>1. DOMAIN blocks = {1, 2} /\ blocks[1] = Parts(chunk) /\ blocks[2] = Format(format)
    BY DEF Exports
  <1>2. Len(Format(format)) \in {1, 2}
    BY DEF Format
  <1> HIDE DEF blocks
  <1>3. AreBlocks(blocks)
    BY <1>1, <1>2, PartsLength DEF AreBlocks
  <1> QED
    BY <1>1, <1>3 DEF blocks

LEMMA NewColumnStep ==
  ASSUME IInv, NewColumn
  PROVE  IInv'
  <1>1. Tidy(Roots, mem) /\ misused = FALSE
    BY DEF IInv
  <1>2. /\ call = Idle /\ column = NoColumn
        /\ UNCHANGED <<slots, status, vec, call, misused>>
    BY DEF NewColumn
  <1>3. PICK c \in Columns :
          LET blocks == [i \in DOMAIN c.chunks |-> Parts(c.chunks[i])]
          IN  /\ HasRoom(blocks)
              /\ \E at \in {Fresh(blocks)} :
                   /\ mem' = Stored(blocks, at)
                   /\ column' = [kind |-> c.kind, means |-> c.means,
                                 chunks |-> [i \in DOMAIN c.chunks |-> at[<<i, 1>>]]]
    BY DEF NewColumn
  <1> DEFINE blocks == [i \in DOMAIN c.chunks |-> Parts(c.chunks[i])]
             at == Fresh(blocks)
  <1>4. /\ HasRoom(blocks) /\ mem' = Stored(blocks, at)
        /\ column' = [kind |-> c.kind, means |-> c.means,
                      chunks |-> [i \in DOMAIN c.chunks |-> at[<<i, 1>>]]]
    BY <1>3
  <1>5. AreBlocks(blocks) /\ DOMAIN blocks = DOMAIN c.chunks
    BY PartsLength DEF AreBlocks
  <1>6. at \in Addresses(blocks) /\ Apart(at)
    BY <1>4, FreshApart
  <1>7. /\ c.kind \in {"cells", "coverings"}
        /\ c.chunks \in Seq({c.chunks[i] : i \in DOMAIN c.chunks})
    BY SlotsAssumption
  <1>8. DOMAIN c.chunks = 1..Len(c.chunks) /\ Len(c.chunks) \in Nat
    BY <1>7
  <1> HIDE DEF blocks, at
  <1>9. /\ Tidy(Roots \cup Heads(blocks, at), mem')
        /\ \A i \in DOMAIN blocks : at[<<i, 1>>] \in Payloads \ DOMAIN mem
        /\ \A i, j \in DOMAIN blocks : at[<<i, 1>>] = at[<<j, 1>>] => i = j
    BY <1>1, <1>4, <1>5, <1>6, StoreTidy DEF AreStored
  <1> DEFINE heads == [i \in DOMAIN c.chunks |-> at[<<i, 1>>]]
  <1>10. column'.chunks = heads /\ column'.kind = c.kind
    BY <1>4
  <1>11. heads \in Seq(Payloads)
    <2>1. heads \in [1..Len(c.chunks) -> Payloads]
      BY <1>5, <1>8, <1>9
    <2> QED
      BY <2>1, <1>8
  <1>12. Chunks' = Heads(blocks, at)
    <2>1. Chunks' = {heads[i] : i \in DOMAIN heads}
      BY <1>10 DEF Chunks
    <2>2. DOMAIN heads = DOMAIN blocks
      BY <1>5
    <2>3. {heads[i] : i \in DOMAIN heads} = {at[<<i, 1>>] : i \in DOMAIN heads}
      OBVIOUS
    <2> QED
      BY <2>1, <2>2, <2>3 DEF Heads
  <1>13. Held' = Held /\ Chunks = {}
    BY <1>2 DEF Held, Structs, Chunks, NoColumn
  <1>14. Heads(blocks, at) \subseteq Payloads \ DOMAIN mem
    BY <1>9 DEF Heads
  <1>15. Roots' = Roots \cup Heads(blocks, at)
    BY <1>12, <1>13, <1>14, NullApart DEF Roots
  <1>16. ChunksApart'
    <2>1. \A i, j \in DOMAIN column'.chunks : column'.chunks[i] = column'.chunks[j] => i = j
      BY <1>5, <1>9, <1>10
    <2>2. Held' \cap Chunks' = {} /\ NULL \notin Chunks'
      BY <1>12, <1>13, <1>14, RootsArePayloads, NullApart DEF Roots
    <2> QED
      BY <2>1, <2>2 DEF ChunksApart
  <1>17. SlotsApart' /\ VectorType' /\ CallType'
    BY <1>2 DEF IInv, SlotsApart, VectorType, CallType
  <1>18. \A h \in Holders : HolderFits(h)'
    BY <1>2 DEF IInv, HolderFits, Idle
  <1> QED
    BY <1>1, <1>2, <1>7, <1>9, <1>10, <1>11, <1>15, <1>16, <1>17, <1>18 DEF IInv

(* s is what structs of h hold when slot n, so far empty, gets an array    *)
(* and a schema.                                                           *)
Takes(h, s, n, at) ==
  /\ <<n, "array">> \in DOMAIN s /\ <<n, "schema">> \in DOMAIN s
  /\ s[<<n, "array">>] = at[<<1, 1>>] /\ s[<<n, "schema">>] = at[<<2, 1>>]
  /\ \A f \in DOMAIN s :
       f = <<n, "array">> \/ f = <<n, "schema">> \/ (f \in DOMAIN slots[h] /\ s[f] = slots[h][f])
  /\ \A f \in DOMAIN slots[h] : slots[h][f] # NULL =>
       f \in DOMAIN s /\ f # <<n, "array">> /\ f # <<n, "schema">>

LEMMA StoreStructs ==
  ASSUME IInv, NEW h \in Holders, NEW s, slots' = [slots EXCEPT ![h] = s],
         NEW chunk, NEW format, NEW at \in Addresses(Exports(chunk, format)), Apart(at),
         mem' = Stored(Exports(chunk, format), at),
         NEW n, Takes(h, s, n, at),
         UNCHANGED <<column, misused>>,
         DOMAIN status' = Holders, VectorType', CallType', \A g \in Holders : HolderFits(g)'
  PROVE  IInv'
  <1>1. /\ Tidy(Roots, mem) /\ misused = FALSE /\ ChunksApart
        /\ column.kind \in {"none", "cells", "coverings"} /\ column.chunks \in Seq(Payloads)
    BY DEF IInv
  <1> DEFINE blocks == Exports(chunk, format)
             new == {at[<<1, 1>>], at[<<2, 1>>]}
  <1>2. AreBlocks(blocks) /\ DOMAIN blocks = {1, 2}
    BY ExportsAreBlocks
  <1> HIDE DEF blocks
  <1>3. /\ Tidy(Roots \cup Heads(blocks, at), mem')
        /\ \A i \in DOMAIN blocks : at[<<i, 1>>] \in Payloads \ DOMAIN mem
        /\ \A i, j \in DOMAIN blocks : at[<<i, 1>>] = at[<<j, 1>>] => i = j
    <2>1. AreStored(Roots, blocks, at)
      BY <1>1, <1>2, StoreTidy DEF blocks
    <2> QED
      BY <2>1 DEF AreStored
  <1>4. Heads(blocks, at) = new
    BY <1>2 DEF Heads
  <1>5. at[<<1, 1>>] # at[<<2, 1>>] /\ new \subseteq Payloads \ DOMAIN mem
    BY <1>2, <1>3
  <1>6. \A f \in DOMAIN slots[h] : slots[h][f] \notin new
    <2>1. Held \ {NULL} \subseteq DOMAIN mem
      BY RootsArePayloads DEF Roots
    <2> QED
      BY <2>1, <1>5, InHeld, NullApart
  <1>7. \A f \in DOMAIN s : s[f] \in new \/ (f \in DOMAIN slots[h] /\ s[f] = slots[h][f])
    BY DEF Takes
  <1>8. \A e, f \in DOMAIN s : s[e] = s[f] /\ s[e] \in new => e = f
    BY <1>5, <1>6 DEF Takes
  <1>9. \A f \in DOMAIN slots[h] : slots[h][f] # NULL => f \in DOMAIN s /\ s[f] = slots[h][f]
    BY DEF Takes
  <1>10. \A p \in new : \E f \in DOMAIN s : s[f] = p
    BY DEF Takes
  <1> HIDE DEF new
  <1>11. Filled(h, s, new)
    BY <1>5, <1>7, <1>8, <1>9, <1>10, Fill
  <1>12. Chunks' = Chunks
    BY DEF Chunks
  <1>13. Chunks \subseteq DOMAIN mem
    BY <1>1, RootsArePayloads DEF Roots, ChunksApart
  <1>14. Roots' = Roots \cup new
    BY <1>5, <1>11, <1>12, NullApart DEF Filled, Roots
  <1>15. ChunksApart'
    <2>1. Held' \cap Chunks = {}
      BY <1>1, <1>5, <1>11, <1>13 DEF Filled, ChunksApart
    <2> QED
      BY <1>1, <1>12, <2>1 DEF ChunksApart
  <1> QED
    BY <1>1, <1>3, <1>4, <1>11, <1>14, <1>15 DEF IInv, Filled

LEMMA ToArrowStep ==
  ASSUME IInv, NEW h \in Holders, ToArrow(h)
  PROVE  IInv'
  <1> DEFINE chunk == ToChunk(vec)
             blocks == Exports(chunk, vec.kind)
             at == Fresh(blocks)
             s == [f \in Fields(1) |-> Holds(f, at)]
  <1>1. /\ call = Idle /\ column = NoColumn /\ status[h] = "none"
        /\ call' = [op |-> "import", holder |-> h]
        /\ UNCHANGED <<vec, column, misused>>
    BY DEF ToArrow
  <1>2. HasRoom(blocks) /\ mem' = Stored(blocks, at) /\ slots' = [slots EXCEPT ![h] = s]
    BY DEF ToArrow
  <1>3. at \in Addresses(blocks) /\ Apart(at)
    BY <1>2, FreshApart
  <1> HIDE DEF at, chunk
  <1>4. DOMAIN s = {<<1, "array">>, <<1, "schema">>}
    BY FieldsOfOne
  <1>5. s[<<1, "array">>] = at[<<1, 1>>] /\ s[<<1, "schema">>] = at[<<2, 1>>]
    BY <1>4 DEF Holds
  <1>6. status' = [status EXCEPT ![h] = "held"] /\ DOMAIN status = Holders /\ DOMAIN slots = Holders
    BY DEF ToArrow, IInv
  <1>7. DOMAIN s = Fields(1)
    OBVIOUS
  <1>8. slots[h] = <<>>
    BY <1>1 DEF IInv, HolderFits
  <1>9. at[<<1, 1>>] \in Payloads /\ at[<<2, 1>>] \in Payloads
    <2>1. Tidy(Roots, mem)
      BY DEF IInv
    <2>2. AreBlocks(blocks) /\ DOMAIN blocks = {1, 2}
      BY ExportsAreBlocks
    <2> HIDE DEF blocks
    <2>3. AreStored(Roots, blocks, at)
      BY <1>2, <1>3, <2>1, <2>2, StoreTidy
    <2> QED
      BY <2>2, <2>3 DEF AreStored
  <1> HIDE DEF s, blocks
  <1>10. slots'[h] = s /\ status'[h] = "held" /\ DOMAIN status' = Holders
    BY <1>2, <1>6
  <1>11. NULL \notin Structs(h)'
    BY <1>4, <1>5, <1>9, <1>10, NullApart DEF Structs
  <1>12. HolderFits(h)'
    BY <1>1, <1>7, <1>10, <1>11 DEF HolderFits, Idle
  <1>13. ASSUME NEW g \in Holders, g # h
         PROVE  HolderFits(g)'
    <2>1. slots'[g] = slots[g] /\ status'[g] = status[g]
      BY <1>2, <1>6, <1>13
    <2> QED
      BY <1>1, <1>13, <2>1, OthersFit
  <1>14. VectorType' /\ CallType'
    BY <1>1 DEF IInv, VectorType, CallType
  <1>15. \A f \in DOMAIN s : f = <<1, "array">> \/ f = <<1, "schema">>
    BY <1>4
  <1>16. \A f \in DOMAIN slots[h] : FALSE
    BY <1>8
  <1>17. Takes(h, s, 1, at)
    BY <1>4, <1>5, <1>15, <1>16 DEF Takes
  <1> QED
    BY <1>1, <1>2, <1>3, <1>10, <1>12, <1>13, <1>14, <1>17, StoreStructs DEF blocks

LEMMA ExportStep ==
  ASSUME IInv, NEW h \in Holders, Export(h)
  PROVE  IInv'
  <1> DEFINE chunk == ChunkAt(column.chunks[call.next])
             blocks == Exports(chunk, column.kind)
             at == Fresh(blocks)
             n == call.next
             s == [f \in DOMAIN slots[h] |-> IF f[1] = n THEN Holds(f, at) ELSE slots[h][f]]
  <1>1. /\ call # Idle /\ call.holder = h /\ call.op = "export" /\ n <= Len(column.chunks)
        /\ call' = [call EXCEPT !.next = @ + 1]
        /\ UNCHANGED <<status, vec, column, misused>>
    BY DEF Export, Idle
  <1>2. HasRoom(blocks) /\ mem' = Stored(blocks, at) /\ slots' = [slots EXCEPT ![h] = s]
    BY DEF Export
  <1>3. at \in Addresses(blocks) /\ Apart(at)
    BY <1>2, FreshApart
  <1>4. /\ DOMAIN slots[h] = Fields(Len(column.chunks)) /\ n \in Nat \ {0}
        /\ call = [op |-> "export", holder |-> h, next |-> n]
    BY <1>1, Calling
  <1>5. /\ HolderFits(h) /\ DOMAIN slots = Holders /\ DOMAIN status = Holders
        /\ column.chunks \in Seq(Payloads)
    BY DEF IInv
  <1>6. \A f \in DOMAIN slots[h] : f[1] >= n => slots[h][f] = NULL
    BY <1>1, <1>5 DEF HolderFits
  <1>7. Len(column.chunks) \in Nat
    BY <1>5
  <1>8. <<n, "array">> \in DOMAIN slots[h] /\ <<n, "schema">> \in DOMAIN slots[h]
    BY <1>1, <1>4, <1>7 DEF Fields
  <1>9. \A f \in DOMAIN slots[h] :
          f[1] \in Nat /\ (f[1] = n => f = <<n, "array">> \/ f = <<n, "schema">>)
    BY <1>4, <1>7 DEF Fields
  <1> HIDE DEF at, chunk
  <1>10. DOMAIN s = DOMAIN slots[h] /\ \A f \in DOMAIN s : f[1] # n => s[f] = slots[h][f]
    OBVIOUS
  <1>11. s[<<n, "array">>] = at[<<1, 1>>] /\ s[<<n, "schema">>] = at[<<2, 1>>]
    BY <1>8 DEF Holds
  <1> HIDE DEF s, blocks, n
  <1>12. slots'[h] = s
    BY <1>2, <1>5
  <1>13. call' = [op |-> "export", holder |-> h, next |-> n + 1]
    BY <1>1, <1>4 DEF n
  <1>14. HolderFits(h)'
    <2>1. \A f \in DOMAIN s : f[1] >= n + 1 => s[f] = NULL
      BY <1>4, <1>6, <1>9, <1>10
    <2> QED
      BY <1>1, <1>4, <1>5, <1>10, <1>12, <1>13, <2>1 DEF HolderFits, Idle
  <1>15. ASSUME NEW g \in Holders, g # h
         PROVE  HolderFits(g)'
    <2>1. slots'[g] = slots[g] /\ status'[g] = status[g]
      BY <1>1, <1>2, <1>5, <1>15
    <2> QED
      BY <1>1, <1>13, <1>15, <2>1, OthersFit
  <1>16. VectorType' /\ CallType' /\ DOMAIN status' = Holders
    BY <1>1, <1>4, <1>5, <1>13 DEF IInv, VectorType, CallType
  <1>17. \A f \in DOMAIN s : \/ f = <<n, "array">> \/ f = <<n, "schema">>
                             \/ f \in DOMAIN slots[h] /\ s[f] = slots[h][f]
    BY <1>9, <1>10
  <1>18. \A f \in DOMAIN slots[h] : slots[h][f] # NULL =>
           f \in DOMAIN s /\ f # <<n, "array">> /\ f # <<n, "schema">>
    BY <1>4, <1>6, <1>10
  <1>19. Takes(h, s, n, at)
    BY <1>8, <1>10, <1>11, <1>17, <1>18 DEF Takes
  <1> QED
    BY <1>1, <1>2, <1>3, <1>14, <1>15, <1>16, <1>19, StoreStructs DEF blocks

LEMMA NewSlotsStep ==
  ASSUME IInv, NEW h \in Holders, NewSlots(h)
  PROVE  IInv'
  <1> DEFINE s == EmptySlots(Len(column.chunks))
  <1>1. /\ call = Idle /\ status[h] = "none"
        /\ call' = [op |-> "export", holder |-> h, next |-> 1]
        /\ UNCHANGED <<mem, vec, column, misused>>
        /\ slots' = [slots EXCEPT ![h] = s]
        /\ status' = [status EXCEPT ![h] = "held"]
    BY DEF NewSlots
  <1>2. /\ HolderFits(h) /\ DOMAIN slots = Holders /\ DOMAIN status = Holders
        /\ Tidy(Roots, mem) /\ ChunksApart /\ misused = FALSE
        /\ column.kind \in {"none", "cells", "coverings"} /\ column.chunks \in Seq(Payloads)
    BY DEF IInv
  <1>3. DOMAIN s = Fields(Len(column.chunks)) /\ \A f \in DOMAIN s : s[f] = NULL
    BY DEF EmptySlots
  <1> HIDE DEF s
  <1>4. \A p \in Structs(h) : FALSE
    BY <1>1, <1>2 DEF HolderFits, Structs
  <1>5. GivenUp(h, s)
    BY <1>1, <1>3, GiveUp
  <1>6. \A p : p # NULL => (p \in Held' <=> p \in Held)
    BY <1>4, <1>5 DEF GivenUp
  <1>7. Chunks' = Chunks
    BY <1>1 DEF Chunks
  <1>8. Roots' = Roots
    BY <1>6, <1>7 DEF Roots
  <1>9. ChunksApart'
    BY <1>1, <1>2, <1>6, <1>7 DEF ChunksApart
  <1>10. HolderFits(h)'
    BY <1>1, <1>2, <1>3, <1>5 DEF HolderFits, GivenUp, Idle
  <1>11. ASSUME NEW g \in Holders, g # h
         PROVE  HolderFits(g)'
    <2>1. slots'[g] = slots[g] /\ status'[g] = status[g]
      BY <1>1, <1>2, <1>11
    <2> QED
      BY <1>1, <1>11, <2>1, OthersFit
  <1>12. VectorType' /\ CallType' /\ DOMAIN status' = Holders
    BY <1>1, <1>2 DEF IInv, VectorType, CallType
  <1> QED
    BY <1>1, <1>2, <1>5, <1>8, <1>9, <1>10, <1>11, <1>12 DEF IInv, GivenUp

-----------------------------------------------------------------------------
(* Init and every step.                                                    *)

LEMMA InitIInv == Init => IInv
  <1> SUFFICES ASSUME Init PROVE IInv
    OBVIOUS
  <1>1. /\ mem = <<>> /\ slots = [h \in Holders |-> <<>>] /\ status = [h \in Holders |-> "none"]
        /\ vec = NoVector /\ column = NoColumn /\ call = Idle /\ misused = FALSE
    BY DEF Init
  <1>2. DOMAIN <<>> = {}
    OBVIOUS
  <1>3. Held = {} /\ Chunks = {}
    BY <1>1, <1>2 DEF Held, Structs, Chunks, NoColumn
  <1>4. Roots = {}
    BY <1>3 DEF Roots
  <1>5. Tidy(Roots, mem)
    BY <1>1, <1>2, <1>4 DEF Tidy
  <1>6. SlotsApart
    BY <1>1, <1>2 DEF SlotsApart
  <1>7. ChunksApart
    BY <1>1, <1>3 DEF ChunksApart, NoColumn
  <1>8. \A h \in Holders : HolderFits(h)
    BY <1>1 DEF HolderFits, Idle
  <1>9. VectorType /\ CallType
    BY <1>1 DEF VectorType, CallType, NoVector
  <1>10. column.kind = "none" /\ column.chunks \in Seq(Payloads)
    BY <1>1 DEF NoColumn
  <1> QED
    BY <1>1, <1>5, <1>6, <1>7, <1>8, <1>9, <1>10 DEF IInv

LEMMA StutterStep == IInv /\ UNCHANGED vars => IInv'
  <1> SUFFICES ASSUME IInv, UNCHANGED vars PROVE IInv'
    OBVIOUS
  <1>1. UNCHANGED <<mem, slots, status, vec, column, call, misused>>
    BY DEF vars
  <1>2. DOMAIN status' = Holders /\ VectorType' /\ CallType' /\ \A h \in Holders : HolderFits(h)'
    BY <1>1 DEF IInv, VectorType, CallType, HolderFits, Structs
  <1> QED
    BY <1>1, <1>2, SameMemory

LEMMA NextIInv == IInv /\ [Next]_vars => IInv'
  <1> SUFFICES ASSUME IInv, Next PROVE IInv'
    BY StutterStep
  <1>1. CASE NewVector \/ Grow \/ DropVector
    BY <1>1, UserSteps
  <1>2. CASE NewColumn
    BY <1>2, NewColumnStep
  <1>3. CASE DropColumn
    BY <1>3, DropColumnStep
  <1>4. ASSUME NEW h \in Holders, ToArrow(h) \/ NewSlots(h) \/ Continue(h) \/ Collect(h)
        PROVE  IInv'
    <2>1. CASE ToArrow(h)
      BY <2>1, ToArrowStep
    <2>2. CASE NewSlots(h)
      BY <2>2, NewSlotsStep
    <2>3. CASE Collect(h)
      BY <2>3, CollectStep
    <2>4. CASE Continue(h)
      <3>1. CASE Import(h)
        BY <3>1, ImportStep
      <3>2. CASE ImportFails(h)
        BY <3>2, ImportFailsStep
      <3>3. CASE Export(h)
        BY <3>3, ExportStep
      <3>4. CASE ExportFails(h)
        BY <3>4, ExportFailsStep
      <3>5. CASE BeginRead(h)
        BY <3>5, BeginReadStep
      <3>6. CASE Read(h)
        BY <3>6, ReadStep
      <3>7. CASE EndRead(h)
        BY <3>7, EndReadStep
      <3> QED
        BY <2>4, <3>1, <3>2, <3>3, <3>4, <3>5, <3>6, <3>7 DEF Continue
    <2> QED
      BY <1>4, <2>1, <2>2, <2>3, <2>4
  <1> QED
    BY <1>1, <1>2, <1>3, <1>4 DEF Next

LEMMA Invariance == Spec => []IInv
  BY InitIInv, NextIInv, PTL DEF Spec

-----------------------------------------------------------------------------
(* What the invariant says.                                                *)

LEMMA IInvTypeOK == IInv => TypeOK
  <1> SUFFICES ASSUME IInv PROVE TypeOK
    OBVIOUS
  <1>1. Tidy(Roots, mem) /\ ChunksApart /\ misused = FALSE
    BY DEF IInv
  <1>2. Roots \subseteq Payloads /\ DOMAIN mem \subseteq Payloads
    BY RootsArePayloads
  <1>3. \A p \in DOMAIN mem : mem[p].child \in Payloads \cup {NULL}
    BY <1>1 DEF Tidy
  <1>4. ASSUME NEW h \in Holders
        PROVE  Structs(h) \subseteq Payloads \cup {NULL}
    <2>1. Structs(h) \subseteq Held
      BY DEF Held
    <2> QED
      BY <1>2, <2>1 DEF Roots
  <1>5. \A h \in Holders : HolderFits(h)
    BY DEF IInv
  <1>6. \A i \in DOMAIN column.chunks : column.chunks[i] \in Payloads
    BY DEF IInv
  <1>7. vec.kind \in {"none", "cells", "coverings"}
    BY DEF IInv, VectorType
  <1>8. call.op \in {"idle", "import", "export", "read"}
    BY DEF IInv, CallType, Idle
  <1>9. \A h \in Holders :
          /\ status[h] \in {"none", "held", "garbage", "pinned"}
          /\ status[h] = "none" => slots[h] = <<>>
          /\ status[h] = "held" <=> call # Idle /\ call.holder = h
    BY <1>5 DEF HolderFits
  <1> QED
    BY <1>1, <1>2, <1>3, <1>4, <1>6, <1>7, <1>8, <1>9 DEF TypeOK

(* An owner of p is the only one.                                          *)
LEMMA OwnerUnique ==
  ASSUME IInv, NEW p \in Payloads, NEW a \in Owners(p), NEW b \in Owners(p)
  PROVE  a = b
  <1> DEFINE inSlots == {o \in UNION {{h} \X (DOMAIN slots[h]) : h \in Holders} :
                           slots[o[1]][o[2]] = p}
             inColumn == {<<"chunk", i>> : i \in {k \in DOMAIN column.chunks : column.chunks[k] = p}}
             asChild == {<<"child of", q>> : q \in {r \in DOMAIN mem : mem[r].child = p}}
  <1>1. Owners(p) = inSlots \cup inColumn \cup asChild
    BY DEF Owners
  <1>2. p # NULL
    BY NullApart
  <1>3. Tidy(Roots, mem) /\ SlotsApart /\ ChunksApart
    BY DEF IInv
  <1>4. ASSUME NEW o \in inSlots
        PROVE  /\ o[1] \in Holders /\ o[2] \in DOMAIN slots[o[1]] /\ slots[o[1]][o[2]] = p
               /\ o = <<o[1], o[2]>>
    OBVIOUS
  <1>5. ASSUME NEW o \in inColumn
        PROVE  \E i \in DOMAIN column.chunks : o = <<"chunk", i>> /\ column.chunks[i] = p
    OBVIOUS
  <1>6. ASSUME NEW o \in asChild
        PROVE  \E q \in DOMAIN mem : o = <<"child of", q>> /\ mem[q].child = p
    OBVIOUS
  <1> HIDE DEF inSlots, inColumn, asChild
  <1>7. inSlots # {} => p \in Held
    BY <1>4, InHeld
  <1>8. inColumn # {} => p \in Chunks
    BY <1>5 DEF Chunks
  <1>9. asChild # {} => p \notin Roots
    <2>1. ASSUME NEW o \in asChild
          PROVE  p \notin Roots
      <3>1. PICK q \in DOMAIN mem : mem[q].child = p
        BY <1>6
      <3> QED
        BY <1>2, <1>3, <3>1 DEF Tidy
    <2> QED
      BY <2>1
  <1>10. \A c, d \in inSlots : c = d
    BY <1>2, <1>3, <1>4 DEF SlotsApart
  <1>11. \A c, d \in inColumn : c = d
    BY <1>3, <1>5 DEF ChunksApart
  <1>12. \A c, d \in asChild : c = d
    <2> SUFFICES ASSUME NEW c \in asChild, NEW d \in asChild PROVE c = d
      OBVIOUS
    <2>1. PICK q \in DOMAIN mem : c = <<"child of", q>> /\ mem[q].child = p
      BY <1>6
    <2>2. PICK r \in DOMAIN mem : d = <<"child of", r>> /\ mem[r].child = p
      BY <1>6
    <2>3. q = r
      BY <1>2, <1>3, <2>1, <2>2 DEF Tidy
    <2> QED
      BY <2>1, <2>2, <2>3
  <1> QED
    BY <1>1, <1>2, <1>3, <1>7, <1>8, <1>9, <1>10, <1>11, <1>12 DEF Roots, ChunksApart

LEMMA OwnerExists ==
  ASSUME IInv, NEW p \in Payloads
  PROVE  Owners(p) # {} <=> p \in DOMAIN mem
  <1>1. Tidy(Roots, mem)
    BY DEF IInv
  <1>2. p # NULL
    BY NullApart
  <1>3. ASSUME p \in DOMAIN mem
        PROVE  Owners(p) # {}
    <2>1. CASE p \in Held
      <3>1. PICK h \in Holders : \E f \in DOMAIN slots[h] : slots[h][f] = p
        BY <2>1, InHeld
      <3>2. PICK f \in DOMAIN slots[h] : slots[h][f] = p
        BY <3>1
      <3>3. <<h, f>> \in UNION {{g} \X (DOMAIN slots[g]) : g \in Holders}
        OBVIOUS
      <3>4. slots[<<h, f>>[1]][<<h, f>>[2]] = p
        BY <3>2
      <3>5. <<h, f>> \in Owners(p)
        BY <3>3, <3>4 DEF Owners
      <3> QED
        BY <3>5
    <2>2. CASE p \in Chunks
      BY <2>2 DEF Owners, Chunks
    <2>3. CASE p \notin Roots
      <3>1. PICK q \in DOMAIN mem : mem[q].child = p
        BY <1>1, <1>3, <2>3 DEF Tidy
      <3>2. <<"child of", q>> \in Owners(p)
        BY <3>1 DEF Owners
      <3> QED
        BY <3>2
    <2> QED
      BY <1>2, <2>1, <2>2, <2>3 DEF Roots
  <1>4. ASSUME Owners(p) # {}
        PROVE  p \in DOMAIN mem
    <2>1. p \in Held \/ p \in Chunks \/ \E q \in DOMAIN mem : mem[q].child = p
      <3>1. PICK o : o \in Owners(p)
        BY <1>4
      <3>2. CASE o \in UNION {{h} \X (DOMAIN slots[h]) : h \in Holders} /\ slots[o[1]][o[2]] = p
        BY <3>2, InHeld
      <3>3. CASE o \in {<<"chunk", i>> : i \in {k \in DOMAIN column.chunks : column.chunks[k] = p}}
        BY <3>3 DEF Chunks
      <3>4. CASE o \in {<<"child of", q>> : q \in {r \in DOMAIN mem : mem[r].child = p}}
        BY <3>4
      <3> QED
        BY <3>1, <3>2, <3>3, <3>4 DEF Owners
    <2> QED
      BY <1>1, <1>2, <2>1 DEF Roots, Tidy
  <1> QED
    BY <1>3, <1>4

LEMMA IInvOwnedOnce == IInv => OwnedOnce
  <1> SUFFICES ASSUME IInv, NEW p \in Payloads
               PROVE  Cardinality(Owners(p)) = IF p \in DOMAIN mem THEN 1 ELSE 0
    BY DEF OwnedOnce
  <1>1. CASE p \in DOMAIN mem
    <2>1. PICK o : o \in Owners(p)
      BY <1>1, OwnerExists
    <2>2. Owners(p) = {o}
      BY <2>1, OwnerUnique
    <2>3. Cardinality(Owners(p)) = 1
      BY <2>2, FS_Singleton
    <2> QED
      BY <1>1, <2>3
  <1>2. CASE p \notin DOMAIN mem
    <2>1. Owners(p) = {}
      BY <1>2, OwnerExists
    <2>2. Cardinality(Owners(p)) = 0
      BY <2>1, FS_EmptySet
    <2> QED
      BY <1>2, <2>2
  <1> QED
    BY <1>1, <1>2

-----------------------------------------------------------------------------
(* Arrow's arrays, and what is read of them.                               *)

(* What is missing is no id and no covering.                               *)
LEMMA ItemFacts ==
  /\ Ids \subseteq Nat /\ NA # Bad /\ NA \notin Ids /\ Bad \notin Ids
  /\ \A s \in Seq(Ids) : s # NA /\ s # Bad
<1>1. Ids \subseteq Nat
  BY LayoutFacts DEF Ids
<1>2. \A s \in Seq(Ids) : s \in Seq(Nat)
  <2> TAKE s \in Seq(Ids)
  <2>1. Len(s) \in Nat /\ s \in [1..Len(s) -> Nat]
    BY <1>1, SeqIsFunction
  <2> QED
    BY <2>1, FunctionIsSeq
<1> QED
  BY <1>1, <1>2, MissingAssumption

(* is_valid() is what the format says.                                     *)
LEMMA ValidOrNull ==
  \A a, i : IsValid(a, i) <=> ~IsNull(a, i)
  BY DEF IsValid, IsNull

(* A slice is a sequence of its own.                                       *)
LEMMA Slice ==
  \A T : \A s \in Seq(T) : \A m, n \in Nat : m <= n /\ n <= Len(s) =>
    /\ SubSeq(s, m + 1, n) = [k \in 1..n - m |-> s[m + k]]
    /\ SubSeq(s, m + 1, n) \in Seq(T)
<1> TAKE T
<1> TAKE s \in Seq(T)
<1> TAKE m, n \in Nat
<1> HAVE m <= n /\ n <= Len(s)
<1> DEFINE t == [k \in 1..n - m |-> s[m + k]]
<1>1. \A k \in 1..n - m : m + k \in 1..Len(s)
  OBVIOUS
<1>2. \A k \in 1..n - m : s[m + k] \in T
  BY <1>1
<1>3. t \in [1..n - m -> T] /\ n - m \in Nat
  BY <1>2
<1>4. t \in Seq(T)
  BY <1>3, FunctionIsSeq
<1>5. SubSeq(s, m + 1, n) = t
  OBVIOUS
<1> QED
  BY <1>4, <1>5

(* The cells of an array are read as what they mean.                       *)
LEMMA CellsRead ==
  ASSUME NEW a, IsArray(a, Ids, 0)
  PROVE  /\ CellsOf(a) \in CellItems
         /\ [i \in DOMAIN CellsOf(a) |-> Get(CellsOf(a)[i])] = [j \in 1..a.length |-> CellMeant(a, j)]
         /\ \A j \in 1..a.length : CellMeant(a, j) # Bad
<1> DEFINE n == a.length
           ids == Values(a)
<1>1. n \in Nat /\ a.offset \in Nat /\ a.values \in Seq(Ids) /\ a.offset + n <= Len(a.values)
  BY DEF IsArray, Arrays
<1>2. ids = [k \in 1..n |-> a.values[a.offset + k]] /\ ids \in Seq(Ids)
  <2> DEFINE first == a.offset
             last == a.offset + a.length
             v == a.values
  <2>1. /\ first \in Nat /\ last \in Nat /\ first <= last /\ last - first = n
        /\ v \in Seq(Ids) /\ last <= Len(v)
    BY <1>1
  <2>2. ids = SubSeq(v, first + 1, last)
    BY DEF Values
  <2> HIDE DEF first, last, v, ids, n
  <2>3. ids = [k \in 1..last - first |-> v[first + k]] /\ ids \in Seq(Ids)
    BY <2>1, <2>2, Slice
  <2> QED
    BY <2>1, <2>3 DEF first, v
<1> HIDE DEF ids
<1>3. DOMAIN ids = 1..n /\ \A i \in 1..n : ids[i] = a.values[a.offset + i] /\ ids[i] \in Ids
  <2>1. DOMAIN ids = 1..n /\ \A i \in 1..n : ids[i] = a.values[a.offset + i]
    BY <1>2, Zenon
  <2>2. \A i \in DOMAIN ids : ids[i] \in Ids
    BY <1>2, SeqIsFunction
  <2> QED
    BY <2>1, <2>2
<1> DEFINE items == [i \in 1..n |-> IF IsValid(a, i) THEN Encode(ids[i]) ELSE Gap]
<1>4. CellsOf(a) = items
  BY <1>3 DEF CellsOf, ids
<1>5. ASSUME NEW i \in 1..n
      PROVE  items[i] \in Elements /\ Get(items[i]) = CellMeant(a, i) /\ CellMeant(a, i) # Bad
  <2>1. CellMeant(a, i) = IF IsNull(a, i) \/ ids[i] = NaSentinel THEN NA ELSE ids[i]
    BY <1>3 DEF CellMeant
  <2>2. items[i] = IF IsNull(a, i) THEN Gap ELSE Encode(ids[i])
    BY ValidOrNull
  <2> HIDE DEF items
  <2>3. Gap \in Elements /\ Get(Gap) = NA
    BY SentinelFacts, GetFacts
  <2>4. Encode(ids[i]) \in Elements
        /\ Get(Encode(ids[i])) = IF ids[i] = NaSentinel THEN NA ELSE ids[i]
    BY <1>3, EncodeFacts
  <2>5. ids[i] # Bad /\ NA # Bad
    BY <1>3, ItemFacts
  <2> QED
    BY <2>1, <2>2, <2>3, <2>4, <2>5
<1>6. items \in CellItems
  <2>1. items \in [1..n -> Elements]
    BY <1>5
  <2> QED
    BY <1>1, <2>1, FunctionIsSeq DEF CellItems
<1>7. [i \in DOMAIN items |-> Get(items[i])] = [j \in 1..n |-> CellMeant(a, j)]
  <2>1. DOMAIN items = 1..n
    OBVIOUS
  <2> HIDE DEF items
  <2> QED
    BY <1>5, <2>1
<1> QED
  BY <1>4, <1>5, <1>6, <1>7

(* The offsets of a list.                                                  *)
LEMMA Offsets ==
  ASSUME NEW a, NEW child, IsList(a, child)
  PROVE  /\ a.length \in Nat /\ a.offset \in Nat
         /\ child.length \in Nat /\ child.offset \in Nat
         /\ child.values \in Seq(Ids) /\ child.offset + child.length <= Len(child.values)
         /\ \A j \in 1..a.length :
              /\ a.values[a.offset + j] \in Nat /\ a.values[a.offset + j + 1] \in Nat
              /\ a.values[a.offset + j] <= a.values[a.offset + j + 1]
              /\ a.values[a.offset + j + 1] <= child.length
<1> DEFINE v == a.values
           o == a.offset
           n == a.length
           c == child.length
<1>1. /\ n \in Nat /\ o \in Nat /\ v \in Seq(Nat) /\ o + n + 1 <= Len(v)
      /\ c \in Nat /\ child.offset \in Nat /\ child.values \in Seq(Ids)
      /\ child.offset + c <= Len(child.values)
  BY DEF IsList, IsArray, Arrays
<1>2. /\ \A j \in 1..n : v[o + j] <= v[o + j + 1]
      /\ \A j \in 1..n + 1 : v[o + j] <= c
  BY DEF IsList
<1> HIDE DEF v, o, n, c
<1>3. \A j \in 1..n + 1 : v[o + j] \in Nat
  BY <1>1
<1>4. \A j \in 1..n : j \in 1..n + 1 /\ j + 1 \in 1..n + 1 /\ o + (j + 1) = o + j + 1
  BY <1>1
<1>5. ASSUME NEW j \in 1..n
      PROVE  v[o + j] \in Nat /\ v[o + j + 1] \in Nat /\ v[o + j] <= v[o + j + 1] /\ v[o + j + 1] <= c
  <2>1. v[o + (j + 1)] \in Nat /\ v[o + (j + 1)] <= c
    BY <1>2, <1>3, <1>4
  <2> QED
    BY <1>2, <1>3, <1>4, <2>1
<1> QED
  BY <1>1, <1>5 DEF v, o, n, c

(* So are its coverings, unless one has a null cell.                       *)
LEMMA CoveringsRead ==
  ASSUME NEW a, NEW child, IsList(a, child), CoveringsOf(a, child) # Bad
  PROVE  /\ CoveringsOf(a, child) \in CoveringItems
         /\ CoveringsOf(a, child) = [j \in 1..a.length |-> CoveringMeant(a, child, j)]
         /\ \A j \in 1..a.length : CoveringMeant(a, child, j) # Bad
<1> DEFINE n == a.length
           part(j) == SubSeq(child.values, child.offset + a.values[a.offset + j] + 1,
                             child.offset + a.values[a.offset + j + 1])
           items == [j \in 1..n |-> IF ~IsValid(a, j) THEN NA ELSE part(j)]
<1>1. n \in Nat
  BY Offsets
<1>2. /\ CoveringsOf(a, child) = items
      /\ \A j \in 1..n : IsValid(a, j) => \A k \in Places(a, j) : IsValid(child, k)
  BY DEF CoveringsOf
<1>3. ASSUME NEW j \in 1..n
      PROVE  /\ items[j] = CoveringMeant(a, child, j) /\ items[j] \in Seq(Ids) \cup {NA}
  <2> DEFINE first == a.values[a.offset + j]
             last == a.values[a.offset + j + 1]
             o == child.offset
             v == child.values
             meant == [k \in 1..last - first |-> v[o + first + k]]
  <2>1. /\ first \in Nat /\ last \in Nat /\ first <= last /\ last <= child.length
        /\ child.length \in Nat /\ o \in Nat /\ v \in Seq(Ids) /\ o + child.length <= Len(v)
    BY Offsets
  <2>2. CASE IsValid(a, j)
    <3>1. \A k \in first + 1..last : IsValid(child, k)
      BY <1>2, <2>2 DEF Places
    <3>2. ~\E k \in 1..last - first : IsNull(child, first + k)
      <4> HIDE DEF first, last
      <4>1. \A k \in 1..last - first : first + k \in first + 1..last
        BY <2>1
      <4> QED
        BY <3>1, <4>1, ValidOrNull
    <3>3. part(j) = SubSeq(v, o + first + 1, o + last)
      OBVIOUS
    <3>4. part(j) = meant /\ part(j) \in Seq(Ids)
      <4> HIDE DEF first, last, o, v, part
      <4>1. /\ o + first \in Nat /\ o + last \in Nat
            /\ o + first <= o + last /\ o + last <= Len(v)
            /\ (o + last) - (o + first) = last - first
        BY <2>1
      <4>2. /\ part(j) = [k \in 1..(o + last) - (o + first) |-> v[o + first + k]]
            /\ part(j) \in Seq(Ids)
        BY <2>1, <3>3, <4>1, Slice
      <4> QED
        BY <4>1, <4>2
    <3>5. items[j] = part(j)
      BY <2>2
    <3>6. CoveringMeant(a, child, j) = meant
      BY <2>2, <3>2, ValidOrNull DEF CoveringMeant
    <3> QED
      BY <3>4, <3>5, <3>6
  <2>3. CASE ~IsValid(a, j)
    BY <2>3, ValidOrNull DEF CoveringMeant
  <2> QED
    BY <2>2, <2>3
<1>4. DOMAIN items = 1..n /\ items = [j \in 1..n |-> items[j]]
  OBVIOUS
<1> HIDE DEF items
<1>5. items \in CoveringItems
  <2>1. items \in [1..n -> Seq(Ids) \cup {NA}]
    BY <1>3, <1>4
  <2> QED
    BY <1>1, <2>1, FunctionIsSeq DEF CoveringItems
<1>6. items = [j \in 1..n |-> CoveringMeant(a, child, j)]
  BY <1>3, <1>4
<1>7. \A j \in 1..n : CoveringMeant(a, child, j) # Bad
  BY <1>3, ItemFacts
<1> QED
  BY <1>2, <1>5, <1>6, <1>7

(* What Rust exports has the elements it was given.                        *)
LEMMA ExportedArray ==
  ASSUME NEW n \in Nat, NEW valid \in [1..n -> BOOLEAN], NEW values
  PROVE  LET a == Exported(values, valid)
         IN  /\ a = [length |-> n, nulls |-> a.nulls, offset |-> 0, values |-> values,
                     validity |-> a.validity]
             /\ a.nulls \in Nat /\ a.validity \in {NULL} \cup Bitmaps
             /\ a.validity # NULL => Len(a.validity) = n
             /\ \A i \in 1..n : IsNull(a, i) <=> ~valid[i]
<1> DEFINE missing == {i \in DOMAIN valid : ~valid[i]}
           nulls == Cardinality(missing)
           a == Exported(values, valid)
<1>1. valid \in Bitmaps /\ Len(valid) = n /\ DOMAIN valid = 1..n
  BY FunctionIsSeq DEF Bitmaps
<1>2. missing \subseteq 1..n /\ IsFiniteSet(missing)
  <2>1. missing \subseteq 1..n
    OBVIOUS
  <2>2. IsFiniteSet(1..n)
    BY FS_Interval
  <2> QED
    BY <2>1, <2>2, FS_Subset
<1>3. nulls \in Nat /\ (nulls = 0 <=> missing = {})
  BY <1>2, FS_CardinalityType, FS_EmptySet
<1>4. a = [length |-> n, nulls |-> nulls, offset |-> 0, values |-> values,
           validity |-> IF nulls = 0 THEN NULL ELSE valid]
  BY <1>1 DEF Exported
<1>5. \A i \in 1..n : i \in missing <=> ~valid[i]
  OBVIOUS
<1> HIDE DEF missing, nulls, a
<1>6. a.nulls = nulls /\ a.offset = 0 /\ a.validity = IF nulls = 0 THEN NULL ELSE valid
  BY <1>4
<1>7. valid # NULL
  BY <1>1, ItemsAssumption
<1>8. ASSUME NEW i \in 1..n
      PROVE  IsNull(a, i) <=> ~valid[i]
  <2>1. a.offset + i = i
    BY <1>6
  <2>2. CASE nulls = 0
    BY <1>3, <1>5, <1>6, <2>2 DEF IsNull
  <2>3. CASE nulls # 0
    BY <1>6, <1>7, <2>1, <2>3 DEF IsNull
  <2> QED
    BY <2>2, <2>3
<1>9. a = [length |-> n, nulls |-> a.nulls, offset |-> 0, values |-> values,
           validity |-> a.validity]
  BY <1>4
<1>10. a.nulls \in Nat /\ a.validity \in {NULL} \cup Bitmaps
       /\ (a.validity # NULL => Len(a.validity) = n)
  BY <1>1, <1>3, <1>6
<1> QED
  BY <1>8, <1>9, <1>10 DEF a

(* Where each of some sequences is in all of them together.                *)
IsPart(ss, n, f, j) ==
  /\ Len(f[j + 1]) = Len(f[j]) + Len(ss[j + 1])
  /\ Len(f[j]) \in Nat /\ Len(ss[j + 1]) \in Nat /\ Len(f[j + 1]) <= Len(f[n])
  /\ \A k \in 1..Len(ss[j + 1]) : f[n][Len(f[j]) + k] = ss[j + 1][k]

(* Each keeps its length and its elements.                                 *)
LEMMA JoinedParts ==
  \A T : \A n \in Nat : \A ss \in [1..n -> Seq(T)] : \A f \in [0..n -> Seq(T)] :
    Joined(ss, n, f) => \A j \in 0..n - 1 : IsPart(ss, n, f, j)
<1> TAKE T
<1> TAKE n \in Nat
<1> TAKE ss \in [1..n -> Seq(T)]
<1> TAKE f \in [0..n -> Seq(T)]
<1> HAVE Joined(ss, n, f)
<1>1. ASSUME NEW i \in 0..n - 1
      PROVE  /\ f[i] \in Seq(T) /\ ss[i + 1] \in Seq(T) /\ f[i + 1] = f[i] \o ss[i + 1]
             /\ Len(f[i]) \in Nat /\ Len(ss[i + 1]) \in Nat
             /\ Len(f[i + 1]) = Len(f[i]) + Len(ss[i + 1])
             /\ \A k \in 1..Len(f[i]) : f[i + 1][k] = f[i][k]
             /\ \A k \in 1..Len(ss[i + 1]) : f[i + 1][Len(f[i]) + k] = ss[i + 1][k]
  <2>1. i \in 0..n /\ i + 1 \in 1..n
    OBVIOUS
  <2>2. f[i] \in Seq(T) /\ ss[i + 1] \in Seq(T)
    BY <2>1
  <2>3. f[i + 1] = f[i] \o ss[i + 1]
    BY DEF Joined
  <2> DEFINE p == f[i]
             q == ss[i + 1]
  <2>4. p \in Seq(T) /\ q \in Seq(T) /\ f[i + 1] = p \o q
    BY <2>2, <2>3
  <2> HIDE DEF p, q
  <2>5. Len(q) \in Nat
    BY <2>4, SeqIsFunction
  <2>6. /\ Len(p) \in Nat /\ Len(p \o q) = Len(p) + Len(q)
        /\ \A k \in 1..Len(p) : (p \o q)[k] = p[k]
        /\ \A k \in 1..Len(q) : (p \o q)[Len(p) + k] = q[k]
    BY <2>4, Concatenation
  <2> QED
    BY <2>4, <2>5, <2>6 DEF p, q
<1> TAKE j \in 0..n - 1
<1> DEFINE Kept(m) == /\ Len(f[m]) \in Nat /\ Len(f[j + 1]) <= Len(f[m])
                      /\ \A k \in 1..Len(f[j + 1]) : f[m][k] = f[j + 1][k]
           S == {m \in Int : Kept(m)}
<1>2. Kept(j + 1)
  BY <1>1
<1>3. ASSUME NEW m \in j + 1..n - 1, Kept(m)
      PROVE  Kept(m + 1)
  <2>1. m \in 0..n - 1
    OBVIOUS
  <2>2. /\ Len(f[m]) \in Nat /\ Len(ss[m + 1]) \in Nat
        /\ Len(f[m + 1]) = Len(f[m]) + Len(ss[m + 1])
        /\ \A k \in 1..Len(f[m]) : f[m + 1][k] = f[m][k]
    BY <1>1, <2>1
  <2>3. Len(f[j + 1]) \in Nat
    BY <1>1
  <2>4. \A k \in 1..Len(f[j + 1]) : k \in 1..Len(f[m])
    BY <1>3, <2>2, <2>3
  <2>5. \A k \in 1..Len(f[j + 1]) : f[m + 1][k] = f[j + 1][k]
    BY <1>3, <2>2, <2>4, Zenon
  <2>6. Len(f[m + 1]) \in Nat /\ Len(f[j + 1]) <= Len(f[m + 1])
    <3> DEFINE x == Len(f[m])
               y == Len(f[m + 1])
               z == Len(f[j + 1])
               w == Len(ss[m + 1])
    <3>1. x \in Nat /\ w \in Nat /\ y = x + w /\ z \in Nat /\ z <= x
      BY <1>3, <2>2, <2>3
    <3> HIDE DEF x, y, z, w
    <3>2. y \in Nat /\ z <= y
      BY <3>1
    <3> QED
      BY <3>2 DEF y, z
  <2> QED
    BY <2>5, <2>6
<1> HIDE DEF Kept
<1>4. j + 1 \in S /\ \A i \in j + 1..n - 1 : i \in S => i + 1 \in S
  BY <1>2, <1>3
<1>5. Kept(n)
  <2> HIDE DEF S
  <2>1. j + 1 \in Int /\ n \in Int /\ n \in j + 1..n
    OBVIOUS
  <2>2. n \in S
    BY <1>4, <2>1, Upwards, Zenon
  <2> QED
    BY <2>2 DEF S
<1>6. ASSUME NEW k \in 1..Len(ss[j + 1])
      PROVE  f[n][Len(f[j]) + k] = ss[j + 1][k]
  <2>1. Len(f[j]) + k \in 1..Len(f[j + 1])
    <3> DEFINE x == Len(f[j])
               y == Len(f[j + 1])
               w == Len(ss[j + 1])
    <3>1. x \in Nat /\ w \in Nat /\ y = x + w /\ k \in 1..w
      BY <1>1
    <3> HIDE DEF x, y, w
    <3>2. x + k \in 1..y
      BY <3>1
    <3> QED
      BY <3>2 DEF x, y
  <2>2. f[j + 1][Len(f[j]) + k] = ss[j + 1][k]
    BY <1>1
  <2> QED
    BY <1>5, <2>1, <2>2 DEF Kept
<1> QED
  BY <1>1, <1>5, <1>6 DEF Kept, IsPart

-----------------------------------------------------------------------------
(* What is put into Arrow's arrays.                                        *)

(* Cells go to an array that means what they are.                          *)
LEMMA CellsSent ==
  ASSUME NEW v, v.kind = "cells", v.items \in CellItems
  PROVE  /\ IsChunk("cells", ToChunk(v)) /\ IsReadable("cells", ToChunk(v))
         /\ ChunkMeans("cells", ToChunk(v)) = Means(v) /\ Means(v) \in Seq(Ids \cup {NA})
<1> DEFINE n == Len(v.items)
           values == [i \in DOMAIN v.items |-> IF Get(v.items[i]) = NA THEN 0 ELSE Get(v.items[i])]
           valid == [i \in DOMAIN v.items |-> Get(v.items[i]) # NA]
           a == Exported(values, valid)
<1>1. n \in Nat /\ DOMAIN v.items = 1..n /\ \A i \in 1..n : v.items[i] \in Elements
  BY SeqIsFunction DEF CellItems
<1>2. ToChunk(v) = [array |-> a, child |-> NULL]
  BY DEF ToChunk
<1>3. \A i \in 1..n : Get(v.items[i]) # NA => Get(v.items[i]) \in Ids \ {NaSentinel, Bad}
  BY <1>1, GetFacts, IdFacts, ItemFacts
<1>4. 0 \in Ids
  BY LayoutFacts DEF Ids
<1>5. values \in [1..n -> Ids] /\ valid \in [1..n -> BOOLEAN]
  <2>1. \A i \in 1..n : values[i] \in Ids
    BY <1>1, <1>3, <1>4
  <2> QED
    BY <1>1, <2>1
<1>6. \A i \in 1..n : (valid[i] <=> Get(v.items[i]) # NA) /\ (valid[i] => values[i] = Get(v.items[i]))
  BY <1>1
<1> HIDE DEF values, valid
<1>7. /\ a = [length |-> n, nulls |-> a.nulls, offset |-> 0, values |-> values,
              validity |-> a.validity]
      /\ a.nulls \in Nat /\ a.validity \in {NULL} \cup Bitmaps
      /\ a.validity # NULL => Len(a.validity) = n
      /\ \A i \in 1..n : IsNull(a, i) <=> ~valid[i]
  BY <1>1, <1>5, ExportedArray
<1> HIDE DEF a
<1>8. values \in Seq(Ids) /\ Len(values) = n
  BY <1>1, <1>5, FunctionIsSeq
<1>9. a.length = n /\ a.offset = 0 /\ a.values = values
  BY <1>7
<1>10. IsArray(a, Ids, 0)
  BY <1>1, <1>7, <1>8, <1>9 DEF IsArray, Arrays
<1>11. \A i \in 1..n : CellMeant(a, i) = Get(v.items[i]) /\ CellMeant(a, i) # Bad
  <2> TAKE i \in 1..n
  <2>1. a.values[a.offset + i] = values[i]
    BY <1>1, <1>9
  <2>2. NA # Bad
    BY ItemFacts
  <2> QED
    BY <1>3, <1>6, <1>7, <2>1, <2>2 DEF CellMeant
<1>12. ChunkMeans("cells", ToChunk(v)) = [j \in 1..n |-> CellMeant(a, j)]
  BY <1>2, <1>9 DEF ChunkMeans
<1>13. Means(v) = [i \in 1..n |-> Get(v.items[i])]
  BY <1>1 DEF Means
<1>14. ChunkMeans("cells", ToChunk(v)) = Means(v)
  BY <1>11, <1>12, <1>13
<1>15. Means(v) \in Seq(Ids \cup {NA})
  <2>1. \A i \in 1..n : Get(v.items[i]) \in Ids \cup {NA}
    BY <1>3
  <2>2. Means(v) \in [1..n -> Ids \cup {NA}]
    BY <1>13, <2>1
  <2> QED
    BY <1>1, <2>2, FunctionIsSeq
<1>16. IsReadable("cells", ToChunk(v))
  BY <1>2, <1>9, <1>11, <1>12 DEF IsReadable
<1>17. IsChunk("cells", ToChunk(v))
  BY <1>2, <1>10 DEF IsChunk
<1> QED
  BY <1>14, <1>15, <1>16, <1>17

(* And coverings to a list.                                                *)
LEMMA CoveringsSent ==
  ASSUME NEW v, v.kind = "coverings", v.items \in CoveringItems
  PROVE  /\ IsChunk("coverings", ToChunk(v)) /\ IsReadable("coverings", ToChunk(v))
         /\ ChunkMeans("coverings", ToChunk(v)) = Means(v) /\ Means(v) \in CoveringItems
<1> DEFINE n == Len(v.items)
           lists == [i \in DOMAIN v.items |-> IF v.items[i] = NA THEN <<>> ELSE v.items[i]]
           all == FlattenSeq(lists)
           offsets == [i \in 1..Len(lists) + 1 |-> Len(FlattenSeq(SubSeq(lists, 1, i - 1)))]
           valid == [i \in DOMAIN lists |-> v.items[i] # NA]
           present == [k \in DOMAIN all |-> TRUE]
           a == Exported(offsets, valid)
           child == Exported(all, present)
<1>1. n \in Nat /\ DOMAIN v.items = 1..n /\ \A i \in 1..n : v.items[i] \in Seq(Ids) \cup {NA}
  BY SeqIsFunction DEF CoveringItems
<1>2. ToChunk(v) = [array |-> a, child |-> child]
  BY DEF ToChunk
<1> HIDE DEF n
<1>3. lists \in [1..n -> Seq(Ids)]
  <2>1. \A i \in 1..n : lists[i] \in Seq(Ids)
    BY <1>1
  <2> QED
    BY <1>1, <2>1
<1>4. \A i \in 1..n : v.items[i] # NA => lists[i] = v.items[i]
  BY <1>1
<1>5. DOMAIN lists = 1..n
  BY <1>1
<1> HIDE DEF lists
<1>6. Len(lists) = n /\ lists \in Seq(Seq(Ids))
  BY <1>1, <1>3, FunctionIsSeq
<1>7. PICK f \in [0..n -> Seq(Ids)] : JoinedUpTo(lists, n, f)
  BY <1>1, <1>3, FlattenPrefixes
<1>8. offsets = [i \in 1..n + 1 |-> Len(f[i - 1])]
  <2>1. ASSUME NEW k \in 0..n
        PROVE  SubSeq(lists, 1, k) = [i \in 1..k |-> lists[i]]
    <3>1. 0 \in Nat /\ k \in Nat /\ 0 <= k /\ k <= Len(lists)
      BY <1>1, <1>6
    <3>2. SubSeq(lists, 0 + 1, k) = [i \in 1..k - 0 |-> lists[0 + i]]
      BY <1>6, <3>1, Slice
    <3> QED
      BY <3>1, <3>2
  <2>2. \A i \in 1..n + 1 : i - 1 \in 0..n
    BY <1>1
  <2>3. \A i \in 1..n + 1 : Len(FlattenSeq(SubSeq(lists, 1, i - 1))) = Len(f[i - 1])
    BY <1>7, <2>1, <2>2 DEF JoinedUpTo
  <2> QED
    BY <1>6, <2>3
<1>9. \A k \in 0..n : f[k] \in Seq(Ids) /\ Len(f[k]) \in Nat
  BY SeqIsFunction
<1>10. all = f[n] /\ all \in Seq(Ids) /\ Len(all) \in Nat /\ DOMAIN all = 1..Len(all)
  <2>1. n \in 0..n
    BY <1>1
  <2> QED
    BY <1>7, <1>9, <2>1, SeqIsFunction DEF JoinedUpTo
<1>11. valid \in [1..n -> BOOLEAN] /\ \A i \in 1..n : valid[i] <=> v.items[i] # NA
  BY <1>5
<1>12. present \in [1..Len(all) -> BOOLEAN] /\ \A k \in 1..Len(all) : present[k]
  BY <1>10
<1> HIDE DEF offsets, all, valid, present
<1>13. /\ a = [length |-> n, nulls |-> a.nulls, offset |-> 0, values |-> offsets,
               validity |-> a.validity]
       /\ a.nulls \in Nat /\ a.validity \in {NULL} \cup Bitmaps
       /\ a.validity # NULL => Len(a.validity) = n
       /\ \A i \in 1..n : IsNull(a, i) <=> ~valid[i]
  BY <1>1, <1>11, ExportedArray
<1>14. /\ child = [length |-> Len(all), nulls |-> child.nulls, offset |-> 0, values |-> all,
                   validity |-> child.validity]
       /\ child.nulls \in Nat /\ child.validity \in {NULL} \cup Bitmaps
       /\ child.validity # NULL => Len(child.validity) = Len(all)
       /\ \A i \in 1..Len(all) : IsNull(child, i) <=> ~present[i]
  BY <1>10, <1>12, ExportedArray
<1> HIDE DEF a, child
<1>15. a.length = n /\ a.offset = 0 /\ a.values = offsets
  BY <1>13
<1>16. child.length = Len(all) /\ child.offset = 0 /\ child.values = all
  BY <1>14
<1>17. offsets \in Seq(Nat) /\ Len(offsets) = n + 1
  <2>1. \A i \in 1..n + 1 : i - 1 \in 0..n
    BY <1>1
  <2>2. \A i \in 1..n + 1 : Len(f[i - 1]) \in Nat
    BY <1>9, <2>1
  <2>3. offsets \in [1..n + 1 -> Nat] /\ n + 1 \in Nat
    BY <1>1, <1>8, <2>2
  <2> QED
    BY <2>3, FunctionIsSeq
<1>18. IsArray(a, Nat, 1) /\ IsArray(child, Ids, 0)
  BY <1>1, <1>10, <1>13, <1>14, <1>15, <1>16, <1>17 DEF IsArray, Arrays
<1>19. ASSUME NEW j \in 1..n
       PROVE  /\ offsets[j] \in Nat /\ offsets[j + 1] = offsets[j] + Len(lists[j])
              /\ Len(lists[j]) \in Nat /\ offsets[j + 1] <= Len(all)
              /\ \A k \in 1..Len(lists[j]) : all[offsets[j] + k] = lists[j][k]
  <2> DEFINE i == j - 1
  <2>1. i \in 0..n - 1 /\ i + 1 = j /\ j \in 1..n + 1 /\ j - 1 = i
    BY <1>1
  <2>2. offsets[j] = Len(f[i])
    BY <1>8, <2>1
  <2> HIDE DEF i
  <2>3. IsPart(lists, n, f, i)
    BY <1>1, <1>3, <1>7, <2>1, JoinedParts DEF JoinedUpTo
  <2>4. offsets[j + 1] = Len(f[j])
    <3>1. j + 1 \in 1..n + 1 /\ (j + 1) - 1 = j
      BY <1>1
    <3> QED
      BY <1>8, <3>1
  <2> QED
    BY <1>10, <2>1, <2>2, <2>3, <2>4 DEF IsPart
<1>20. IsList(a, child)
  <2>1. \A j \in 1..n : offsets[j] <= offsets[j + 1]
    BY <1>19
  <2>2. \A j \in 1..n + 1 : offsets[j] <= Len(all)
    <3>1. offsets[1] = 0
      <4>1. 1 \in 1..n + 1 /\ 1 - 1 = 0
        BY <1>1
      <4>2. f[0] = <<>>
        BY <1>7 DEF Joined, JoinedUpTo
      <4> QED
        BY <1>8, <4>1, <4>2
    <3>2. \A j \in 2..n + 1 : j - 1 \in 1..n /\ (j - 1) + 1 = j
      BY <1>1
    <3>3. \A j \in 2..n + 1 : offsets[j] <= Len(all)
      BY <1>19, <3>2
    <3>4. \A j \in 1..n + 1 : j = 1 \/ j \in 2..n + 1
      BY <1>1
    <3> QED
      BY <1>10, <3>1, <3>3, <3>4
  <2>3. \A j \in 1..n : a.values[a.offset + j] = offsets[j] /\ a.values[a.offset + j + 1] = offsets[j + 1]
    BY <1>1, <1>15
  <2>4. \A j \in 1..n + 1 : a.values[a.offset + j] = offsets[j]
    BY <1>1, <1>15
  <2> QED
    BY <1>15, <1>16, <1>18, <2>1, <2>2, <2>3, <2>4 DEF IsList
<1>21. ASSUME NEW j \in 1..n
       PROVE  CoveringMeant(a, child, j) = v.items[j] /\ v.items[j] # Bad
  <2>1. v.items[j] # Bad
    BY <1>1, ItemFacts
  <2>2. a.values[a.offset + j] = offsets[j] /\ a.values[a.offset + j + 1] = offsets[j + 1]
    BY <1>1, <1>15
  <2> DEFINE first == offsets[j]
             count == offsets[j + 1] - first
             list == lists[j]
  <2>3. first \in Nat /\ count = Len(list) /\ count \in Nat /\ first + count <= Len(all)
        /\ \A k \in 1..count : all[first + k] = list[k]
    BY <1>19
  <2> HIDE DEF first, count, list
  <2>4. \A k \in 1..count : first + k \in 1..Len(all) /\ 0 + first + k = first + k
    BY <1>10, <2>3
  <2>5. ~\E k \in 1..count : IsNull(child, first + k)
    BY <1>12, <1>14, <2>4
  <2>6. CASE v.items[j] = NA
    BY <1>11, <1>13, <2>1, <2>6 DEF CoveringMeant
  <2>7. CASE v.items[j] # NA
    <3>1. CoveringMeant(a, child, j) = [k \in 1..count |-> child.values[child.offset + first + k]]
      BY <1>11, <1>13, <2>2, <2>5, <2>7 DEF CoveringMeant, first, count
    <3>2. \A k \in 1..count : child.values[child.offset + first + k] = list[k]
      BY <1>16, <2>3, <2>4
    <3>3. list = v.items[j] /\ list \in Seq(Ids)
      BY <1>1, <1>4, <2>7 DEF list
    <3>4. list = [k \in 1..count |-> list[k]]
      BY <2>3, <3>3, SeqIsFunction
    <3> QED
      BY <2>1, <3>1, <3>2, <3>3, <3>4
  <2> QED
    BY <2>6, <2>7
<1>22. ChunkMeans("coverings", ToChunk(v)) = [j \in 1..n |-> CoveringMeant(a, child, j)]
  BY <1>2, <1>15 DEF ChunkMeans
<1>23. Means(v) = [i \in 1..n |-> v.items[i]] /\ Means(v) = v.items
  BY <1>1, SeqIsFunction DEF Means, CoveringItems
<1>24. ChunkMeans("coverings", ToChunk(v)) = Means(v)
  BY <1>21, <1>22, <1>23
<1>25. IsReadable("coverings", ToChunk(v))
  <2>1. \A j \in 1..n : CoveringMeant(a, child, j) # Bad
    BY <1>21
  <2>2. ToChunk(v).array.length = n
    BY <1>2, <1>15
  <2> QED
    BY <1>22, <2>1, <2>2 DEF IsReadable
<1>26. child # NULL
  BY <1>18, ItemsAssumption DEF IsArray
<1>27. IsChunk("coverings", ToChunk(v))
  BY <1>2, <1>20, <1>26 DEF IsChunk
<1> QED
  BY <1>23, <1>24, <1>25, <1>27

(* One sequence is itself.                                                 *)
LEMMA FlattenOne ==
  \A T : \A s \in Seq(T) : FlattenSeq([i \in 1..1 |-> s]) = s
<1> TAKE T
<1> TAKE s \in Seq(T)
<1> DEFINE ss == [i \in 1..1 |-> s]
<1>1. ss \in [1..1 -> Seq(T)] /\ ss[1] = s /\ 1 \in Nat
  OBVIOUS
<1> HIDE DEF ss
<1>2. PICK f \in [0..1 -> Seq(T)] : Joined(ss, 1, f) /\ FlattenSeq(ss) = f[1]
  BY <1>1, FlattenJoined
<1>3. f[0 + 1] = f[0] \o ss[0 + 1] /\ f[0] = <<>> /\ 0 + 1 = 1
  <2>1. 0 \in 0..1 - 1 /\ 0 + 1 = 1
    OBVIOUS
  <2> QED
    BY <1>2, <2>1, Zenon DEF Joined
<1>4. f[1] = <<>> \o s
  BY <1>1, <1>3
<1>5. <<>> \o s = s
  OBVIOUS
<1> QED
  BY <1>2, <1>4, <1>5 DEF ss

-----------------------------------------------------------------------------
(* What memory holds.                                                      *)

(* What is in a chunk, in memory m.                                        *)
ChunkIn(m, p) ==
  [array |-> m[p].data,
   child |-> IF m[p].child = NULL THEN NULL ELSE m[m[p].child].data]

LEMMA ChunkAtIn == \A p : ChunkAt(p) = ChunkIn(mem, p)
  BY DEF ChunkAt, ChunkIn

(* A step frees payloads and fills others, but changes none.               *)
LEMMA NoneChanges ==
  ASSUME Next
  PROVE  \A q \in DOMAIN mem \cap DOMAIN mem' : mem'[q] = mem[q]
<1>1. ASSUME NEW ps, Release(ps)
      PROVE  \A q \in DOMAIN mem \cap DOMAIN mem' : mem'[q] = mem[q]
  BY <1>1 DEF Release
<1>2. ASSUME NEW blocks, NEW at, mem' = Stored(blocks, at)
      PROVE  \A q \in DOMAIN mem \cap DOMAIN mem' : mem'[q] = mem[q]
  BY <1>2 DEF Stored
<1>3. \/ mem' = mem
      \/ \E ps : Release(ps)
      \/ \E blocks, at : mem' = Stored(blocks, at)
  <2>1. NewVector \/ Grow \/ DropVector => mem' = mem
    BY DEF NewVector, Grow, DropVector
  <2>2. NewColumn => \E blocks, at : mem' = Stored(blocks, at)
    BY DEF NewColumn
  <2>3. DropColumn => \E ps : Release(ps)
    BY DEF DropColumn
  <2>4. ASSUME NEW h \in Holders
        PROVE  /\ ToArrow(h) \/ Export(h) => \E blocks, at : mem' = Stored(blocks, at)
               /\ NewSlots(h) \/ ExportFails(h) \/ BeginRead(h) \/ Read(h) => mem' = mem
               /\ Import(h) \/ ImportFails(h) \/ EndRead(h) \/ Collect(h) => \E ps : Release(ps)
    <3>1. ToArrow(h) => \E blocks, at : mem' = Stored(blocks, at)
      BY DEF ToArrow
    <3>2. Export(h) => \E blocks, at : mem' = Stored(blocks, at)
      BY DEF Export
    <3>3. NewSlots(h) \/ ExportFails(h) \/ BeginRead(h) \/ Read(h) => mem' = mem
      BY DEF NewSlots, ExportFails, BeginRead, Read
    <3>4. Import(h) => \E ps : Release(ps)
      BY DEF Import
    <3>5. ImportFails(h) => \E ps : Release(ps)
      BY DEF ImportFails
    <3>6. EndRead(h) => \E ps : Release(ps)
      BY DEF EndRead
    <3>7. Collect(h) => \E ps : Release(ps)
      BY DEF Collect, Drop
    <3> QED
      BY <3>1, <3>2, <3>3, <3>4, <3>5, <3>6, <3>7
  <2>5. \A h \in Holders : Continue(h) => \/ Import(h) \/ ImportFails(h) \/ Export(h)
                                          \/ ExportFails(h) \/ BeginRead(h) \/ Read(h) \/ EndRead(h)
    BY DEF Continue
  <2> QED
    BY <2>1, <2>2, <2>3, <2>4, <2>5, Zenon DEF Next
<1> QED
  BY <1>1, <1>2, <1>3

(* So what someone still holds is what it was.                             *)
LEMMA RootsKept ==
  ASSUME IInv, IInv', \A q \in DOMAIN mem \cap DOMAIN mem' : mem'[q] = mem[q]
  PROVE  \A p \in Roots \cap Roots' : ChunkIn(mem', p) = ChunkIn(mem, p)
<1> TAKE p \in Roots \cap Roots'
<1>1. Tidy(Roots, mem) /\ Tidy(Roots', mem')
  BY DEF IInv
<1>2. p \in DOMAIN mem /\ p \in DOMAIN mem' /\ mem'[p] = mem[p]
  BY <1>1 DEF Tidy
<1>3. mem[p].child # NULL => mem[p].child \in DOMAIN mem /\ mem[p].child \in DOMAIN mem'
  BY <1>1, <1>2 DEF Tidy
<1> QED
  BY <1>2, <1>3 DEF ChunkIn

IsPair(chunk) == chunk = [array |-> chunk.array, child |-> chunk.child]

(* What is stored is there.                                                *)
LEMMA StoredChunk ==
  ASSUME NEW blocks, AreBlocks(blocks), NEW at \in Addresses(blocks), Apart(at),
         mem' = Stored(blocks, at),
         NEW i \in DOMAIN blocks, NEW chunk, IsPair(chunk), blocks[i] = Parts(chunk)
  PROVE  ChunkIn(mem', at[<<i, 1>>]) = chunk
<1>1. /\ DOMAIN at = Spots(blocks)
      /\ \A s \in Spots(blocks) : at[s] \in Payloads \ DOMAIN mem
      /\ \A s, t \in Spots(blocks) : at[s] = at[t] => s = t
  BY DEF Addresses, Apart
<1>2. \A s \in Spots(blocks) :
        mem'[at[s]] = [data |-> blocks[s[1]][s[2]],
                       child |-> IF s[2] < Len(blocks[s[1]]) THEN at[<<s[1], 2>>] ELSE NULL]
  <2> TAKE s \in Spots(blocks)
  <2>1. at[s] \notin DOMAIN mem /\ (CHOOSE t \in Spots(blocks) : at[t] = at[s]) = s
    BY <1>1
  <2>2. at[s] \in DOMAIN mem \cup {at[t] : t \in Spots(blocks)}
    OBVIOUS
  <2> QED
    BY <2>1, <2>2 DEF Stored
<1>3. <<i, 1>> \in Spots(blocks) /\ (1 < Len(blocks[i]) => <<i, 2>> \in Spots(blocks))
  BY DEF Spots, AreBlocks
<1>4. mem'[at[<<i, 1>>]] = [data |-> blocks[i][1],
                            child |-> IF 1 < Len(blocks[i]) THEN at[<<i, 2>>] ELSE NULL]
  <2>1. <<i, 1>>[1] = i /\ <<i, 1>>[2] = 1
    OBVIOUS
  <2> QED
    BY <1>2, <1>3, <2>1
<1>5. CASE chunk.child = NULL
  <2>1. blocks[i] = <<chunk.array>>
    BY <1>5 DEF Parts
  <2>2. Len(blocks[i]) = 1 /\ blocks[i][1] = chunk.array
    BY <2>1
  <2>3. mem'[at[<<i, 1>>]] = [data |-> chunk.array, child |-> NULL]
    BY <1>4, <2>2
  <2> QED
    BY <1>5, <2>3 DEF ChunkIn, IsPair
<1>6. CASE chunk.child # NULL
  <2>1. blocks[i] = <<chunk.array, chunk.child>>
    BY <1>6 DEF Parts
  <2>2. Len(blocks[i]) = 2 /\ blocks[i][1] = chunk.array /\ blocks[i][2] = chunk.child
    BY <2>1
  <2>3. mem'[at[<<i, 1>>]] = [data |-> chunk.array, child |-> at[<<i, 2>>]]
    BY <1>4, <2>2
  <2>4. <<i, 2>> \in Spots(blocks)
    BY <1>3, <2>2
  <2>5. mem'[at[<<i, 2>>]].data = chunk.child
    <3>1. <<i, 2>>[1] = i /\ <<i, 2>>[2] = 2
      OBVIOUS
    <3> DEFINE s == <<i, 2>>
    <3> HIDE DEF s
    <3>0. s \in Spots(blocks)
      BY <2>4 DEF s
    <3> DEFINE c == IF s[2] < Len(blocks[s[1]]) THEN at[<<s[1], 2>>] ELSE NULL
    <3>2. mem'[at[s]] = [data |-> blocks[s[1]][s[2]], child |-> c]
      BY <1>2, <3>0, Zenon
    <3> HIDE DEF c
    <3> QED
      BY <2>2, <3>1, <3>2 DEF s
  <2>6. at[<<i, 2>>] # NULL
    BY <1>1, <2>4, NullApart
  <2> QED
    BY <2>3, <2>5, <2>6 DEF ChunkIn, IsPair
<1> QED
  BY <1>5, <1>6

-----------------------------------------------------------------------------
(* Vectors and columns.                                                    *)

Items(kind) == IF kind = "cells" THEN CellItems ELSE CoveringItems

IsVector(v) == v.kind \in {"cells", "coverings"} /\ v.items \in Items(v.kind)

(* A vector that goes into Arrow is a column of its elements.              *)
LEMMA VectorSent ==
  ASSUME NEW v, IsVector(v)
  PROVE  IsChunk(v.kind, ToChunk(v)) /\ ColumnMeans(v.kind, <<ToChunk(v)>>) = Means(v)
<1>1. /\ IsChunk(v.kind, ToChunk(v)) /\ IsReadable(v.kind, ToChunk(v))
      /\ ChunkMeans(v.kind, ToChunk(v)) = Means(v)
      /\ \E T : Means(v) \in Seq(T)
  <2>1. CASE v.kind = "cells"
    BY <2>1, CellsSent DEF IsVector, Items
  <2>2. CASE v.kind = "coverings"
    BY <2>2, CoveringsSent DEF IsVector, Items, CoveringItems
  <2> QED
    BY <2>1, <2>2 DEF IsVector
<1> DEFINE chunk == ToChunk(v)
<1>2. DOMAIN <<chunk>> = 1..1 /\ <<chunk>>[1] = chunk
  OBVIOUS
<1> HIDE DEF chunk
<1>3. ColumnMeans(v.kind, <<chunk>>) = FlattenSeq([i \in 1..1 |-> ChunkMeans(v.kind, chunk)])
  <2>1. \A i \in DOMAIN <<chunk>> : <<chunk>>[i] = chunk
    OBVIOUS
  <2>2. \A i \in DOMAIN <<chunk>> : IsReadable(v.kind, <<chunk>>[i])
    BY <1>1, <2>1 DEF chunk
  <2>3. [i \in DOMAIN <<chunk>> |-> ChunkMeans(v.kind, <<chunk>>[i])]
          = [i \in 1..1 |-> ChunkMeans(v.kind, chunk)]
    BY <1>2, <2>1
  <2> QED
    BY <2>2, <2>3 DEF ColumnMeans
<1>4. ColumnMeans(v.kind, <<chunk>>) = ChunkMeans(v.kind, chunk)
  BY <1>1, <1>3, FlattenOne DEF chunk
<1> QED
  BY <1>1, <1>4 DEF chunk

(* What is read of a chunk, as elements and what they mean.                *)
ReadOf(kind, chunk) ==
  IF kind = "cells" THEN CellsOf(chunk.array) ELSE CoveringsOf(chunk.array, chunk.child)

MeansOf(kind, items) ==
  IF kind = "cells" THEN [i \in DOMAIN items |-> Get(items[i])] ELSE items

(* What is read of a chunk means what is in it, whichever kind it is.      *)
LEMMA ChunkRead ==
  ASSUME NEW kind, NEW chunk, IsChunk(kind, chunk), ReadOf(kind, chunk) # Bad
  PROVE  /\ ReadOf(kind, chunk) \in Items(kind) /\ IsReadable(kind, chunk)
         /\ MeansOf(kind, ReadOf(kind, chunk)) = ChunkMeans(kind, chunk)
<1> DEFINE a == chunk.array
<1>1. CASE kind = "cells"
  <2>1. IsArray(a, Ids, 0)
    BY <1>1 DEF IsChunk
  <2>2. /\ CellsOf(a) \in CellItems
        /\ [i \in DOMAIN CellsOf(a) |-> Get(CellsOf(a)[i])] = [j \in 1..a.length |-> CellMeant(a, j)]
        /\ \A j \in 1..a.length : CellMeant(a, j) # Bad
    BY <2>1, CellsRead
  <2> QED
    BY <1>1, <2>2 DEF ReadOf, Items, MeansOf, IsReadable, ChunkMeans
<1>2. CASE kind # "cells"
  <2>1. IsList(a, chunk.child)
    BY <1>2 DEF IsChunk
  <2>2. /\ CoveringsOf(a, chunk.child) \in CoveringItems
        /\ CoveringsOf(a, chunk.child) = [j \in 1..a.length |-> CoveringMeant(a, chunk.child, j)]
        /\ \A j \in 1..a.length : CoveringMeant(a, chunk.child, j) # Bad
    BY <1>2, <2>1, CoveringsRead DEF ReadOf
  <2> QED
    BY <1>2, <2>2 DEF ReadOf, Items, MeansOf, IsReadable, ChunkMeans
<1> QED
  BY <1>1, <1>2

-----------------------------------------------------------------------------
(* The inductive invariant of what a vector, a column and a call mean.     *)

(* What is in the chunks of the column.                                    *)
ColumnChunks == [i \in DOMAIN column.chunks |-> ChunkIn(mem, column.chunks[i])]

VectorFits == vec = NoVector \/ IsVector(vec)

(* The column means what its chunks, as they are in memory, mean.          *)
ColumnFits ==
  \/ column = NoColumn
  \/ /\ column.kind \in {"cells", "coverings"}
     /\ \A i \in DOMAIN column.chunks : IsChunk(column.kind, ColumnChunks[i])
     /\ column.means = ColumnMeans(column.kind, ColumnChunks)

(* Arrow is about to get the vector.                                       *)
SentFits ==
  call.op = "import" =>
    IsVector(vec) /\ ChunkIn(mem, slots[call.holder][<<1, "array">>]) = ToChunk(vec)

(* Slot i of the call has what chunk i of the column has.                  *)
Shared(i) ==
  /\ slots[call.holder][<<i, "array">>] # NULL
  /\ ChunkIn(mem, slots[call.holder][<<i, "array">>]) = ColumnChunks[i]

SharedFits ==
  call.op \in {"export", "read"} =>
    /\ vec = NoVector /\ column # NoColumn
    /\ \A i \in DOMAIN column.chunks : (call.op = "export" => i < call.next) => Shared(i)

(* These items are those of the chunks before n.                           *)
SoFar(n, items) ==
  /\ n <= Len(column.chunks) + 1 /\ items \in Items(column.kind)
  /\ \A i \in 1..n - 1 : IsReadable(column.kind, ColumnChunks[i])
  /\ MeansOf(column.kind, items) =
       FlattenSeq([i \in 1..n - 1 |-> ChunkMeans(column.kind, ColumnChunks[i])])

ReadFits == call.op = "read" => SoFar(call.next, call.items)

DataInv == VectorFits /\ ColumnFits /\ SentFits /\ SharedFits /\ ReadFits

(* What these say of the next state, in its memory.                        *)
LEMMA SharedAfter ==
  \A i : Shared(i)' <=>
           /\ slots'[call'.holder][<<i, "array">>] # NULL
           /\ ChunkIn(mem', slots'[call'.holder][<<i, "array">>]) = ColumnChunks'[i]
BY DEF Shared, ChunkIn

LEMMA SentAfter ==
  SentFits' <=>
    (call'.op = "import" =>
       /\ IsVector(vec')
       /\ ChunkIn(mem', slots'[call'.holder][<<1, "array">>]) = ToChunk(vec'))
<1>1. IsVector(vec)' <=> IsVector(vec')
  BY DEF IsVector
<1> QED
  BY <1>1 DEF SentFits, ChunkIn

(* A column that stays keeps its chunks.                                   *)
LEMMA ChunksKept ==
  ASSUME IInv, IInv', Next, column' = column
  PROVE  ColumnChunks' = ColumnChunks
<1>1. \A i \in DOMAIN column.chunks : column.chunks[i] \in Roots \cap Roots'
  <2>1. Chunks' = Chunks
    BY DEF Chunks
  <2>2. NULL \notin Chunks
    BY DEF IInv, ChunksApart
  <2> QED
    BY <2>1, <2>2 DEF Roots, Chunks
<1>2. \A p \in Roots \cap Roots' : ChunkIn(mem', p) = ChunkIn(mem, p)
  BY NoneChanges, RootsKept
<1>3. \A i \in DOMAIN column.chunks : ChunkIn(mem', column.chunks[i]) = ChunkIn(mem, column.chunks[i])
  BY <1>1, <1>2
<1>4. ColumnChunks' = [i \in DOMAIN column.chunks |-> ChunkIn(mem', column.chunks[i])]
  BY DEF ColumnChunks, ChunkIn
<1> QED
  BY <1>3, <1>4 DEF ColumnChunks

(* So it means what it meant.                                              *)
LEMMA ColumnKept ==
  ASSUME IInv, IInv', Next, ColumnFits, column' = column
  PROVE  ColumnFits'
<1>1. ColumnChunks' = ColumnChunks
  BY ChunksKept
<1> QED
  BY <1>1 DEF ColumnFits

(* And so does a struct that stays filled.                                 *)
LEMMA SlotKept ==
  ASSUME IInv, IInv', Next, NEW g \in Holders, NEW f \in DOMAIN slots[g],
         f \in DOMAIN slots'[g], slots'[g][f] = slots[g][f], slots[g][f] # NULL
  PROVE  ChunkIn(mem', slots[g][f]) = ChunkIn(mem, slots[g][f])
<1>1. slots[g][f] \in Held
  BY InHeld
<1>2. slots[g][f] \in Held'
  BY DEF Held, Structs
<1>3. slots[g][f] \in Roots \cap Roots'
  BY <1>1, <1>2 DEF Roots
<1>4. \A p \in Roots \cap Roots' : ChunkIn(mem', p) = ChunkIn(mem, p)
  BY NoneChanges, RootsKept
<1> QED
  BY <1>3, <1>4

(* With no call under way there is little to say.                          *)
LEMMA IdleFits ==
  ASSUME call' = Idle, VectorFits', ColumnFits'
  PROVE  DataInv'
<1>1. call'.op = "idle"
  BY DEF Idle
<1> QED
  BY <1>1 DEF DataInv, SentFits, SharedFits, ReadFits

(* A call that ends and leaves the column says nothing more.               *)
LEMMA AtRest ==
  ASSUME IInv, IInv', Next, DataInv, call' = Idle, column' = column, VectorFits'
  PROVE  DataInv'
BY ColumnKept, IdleFits DEF DataInv

(* Vectors of users are vectors, also when they grow.                      *)
LEMMA UserData ==
  ASSUME IInv, IInv', Next, DataInv, NewVector \/ Grow \/ DropVector
  PROVE  DataInv'
<1>1. call' = Idle /\ column' = column
  BY DEF NewVector, Grow, DropVector
<1>2. VectorFits'
  <2>1. CASE NewVector
    <3>1. vec' \in Vectors
      BY <2>1 DEF NewVector
    <3>2. vec'.kind \in {"cells", "coverings"}
      BY <3>1, SlotsAssumption
    <3>3. vec'.items \in IF vec'.kind = "cells" THEN CellItems ELSE CoveringItems
      BY <3>1, ItemsAssumption
    <3> QED
      BY <3>2, <3>3 DEF VectorFits, IsVector, Items
  <2>2. CASE Grow
    <3>1. vec.kind = "cells" /\ vec' = [vec EXCEPT !.items = Append(@, Gap)]
      BY <2>2 DEF Grow
    <3>2. vec.items \in Seq(Elements)
      BY <3>1 DEF DataInv, VectorFits, NoVector, IsVector, Items, CellItems
    <3>3. Append(vec.items, Gap) \in Seq(Elements)
      BY <3>2, SentinelFacts
    <3>4. vec = [kind |-> "cells", items |-> vec.items]
      BY <3>1 DEF IInv, VectorType
    <3>5. vec'.kind = "cells" /\ vec'.items = Append(vec.items, Gap)
      BY <3>1, <3>4
    <3> QED
      BY <3>3, <3>5 DEF VectorFits, IsVector, Items, CellItems
  <2>3. CASE DropVector
    BY <2>3 DEF DropVector, VectorFits
  <2> QED
    BY <2>1, <2>2, <2>3
<1> QED
  BY <1>1, <1>2, AtRest

(* A failure changes no vector and no column.                              *)
LEMMA FailureData ==
  ASSUME IInv, IInv', Next, DataInv, NEW h \in Holders, ImportFails(h) \/ ExportFails(h)
  PROVE  DataInv'
<1>1. call' = Idle /\ column' = column /\ vec' = vec
  BY DEF ImportFails, ExportFails, EndsWith
<1>2. VectorFits'
  BY <1>1 DEF DataInv, VectorFits
<1> QED
  BY <1>1, <1>2, AtRest

(* Without a column nothing is said of it.                                 *)
LEMMA DropColumnData ==
  ASSUME IInv, IInv', Next, DataInv, DropColumn
  PROVE  DataInv'
<1>1. call' = Idle /\ column' = NoColumn /\ vec' = vec
  BY DEF DropColumn
<1>2. VectorFits' /\ ColumnFits'
  BY <1>1 DEF DataInv, VectorFits, ColumnFits
<1> QED
  BY <1>1, <1>2, IdleFits

(* A column of Arrow means what it says.                                   *)
LEMMA NewColumnData ==
  ASSUME IInv, IInv', Next, DataInv, NewColumn
  PROVE  DataInv'
<1>1. PICK c \in Columns :
        LET blocks == [i \in DOMAIN c.chunks |-> Parts(c.chunks[i])]
        IN  /\ HasRoom(blocks)
            /\ \E at \in {Fresh(blocks)} :
                 /\ mem' = Stored(blocks, at)
                 /\ column' = [kind |-> c.kind, means |-> c.means,
                               chunks |-> [i \in DOMAIN c.chunks |-> at[<<i, 1>>]]]
  BY DEF NewColumn
<1> DEFINE blocks == [i \in DOMAIN c.chunks |-> Parts(c.chunks[i])]
           at == Fresh(blocks)
<1>2. /\ HasRoom(blocks) /\ mem' = Stored(blocks, at)
      /\ column' = [kind |-> c.kind, means |-> c.means,
                    chunks |-> [i \in DOMAIN c.chunks |-> at[<<i, 1>>]]]
  BY <1>1
<1>3. AreBlocks(blocks) /\ DOMAIN blocks = DOMAIN c.chunks
  BY PartsLength DEF AreBlocks
<1>4. \A i \in DOMAIN c.chunks : blocks[i] = Parts(c.chunks[i])
  OBVIOUS
<1>5. at \in Addresses(blocks) /\ Apart(at)
  BY <1>2, FreshApart
<1> HIDE DEF blocks, at
<1>6. /\ \A i \in DOMAIN c.chunks : IsChunk(c.kind, c.chunks[i]) /\ IsPair(c.chunks[i])
      /\ c.means = ColumnMeans(c.kind, c.chunks)
  BY ColumnsAssumption DEF IsChunk, IsPair
<1>7. \A i \in DOMAIN c.chunks : ChunkIn(mem', at[<<i, 1>>]) = c.chunks[i]
  <2> TAKE i \in DOMAIN c.chunks
  <2> DEFINE chunk == c.chunks[i]
  <2>1. i \in DOMAIN blocks /\ IsPair(chunk) /\ blocks[i] = Parts(chunk)
    BY <1>3, <1>4, <1>6
  <2> HIDE DEF chunk
  <2>2. ChunkIn(mem', at[<<i, 1>>]) = chunk
    BY <1>2, <1>3, <1>5, <2>1, StoredChunk
  <2> QED
    BY <2>2 DEF chunk
<1>8. ColumnChunks' = [i \in DOMAIN column'.chunks |-> ChunkIn(mem', column'.chunks[i])]
  BY DEF ColumnChunks, ChunkIn
<1>9. ColumnChunks' = c.chunks
  <2>1. /\ DOMAIN column'.chunks = DOMAIN c.chunks
        /\ \A i \in DOMAIN c.chunks : column'.chunks[i] = at[<<i, 1>>]
    BY <1>2
  <2>2. ColumnChunks' = [i \in DOMAIN c.chunks |-> c.chunks[i]]
    BY <1>7, <1>8, <2>1
  <2>3. c.chunks \in Seq({c.chunks[i] : i \in DOMAIN c.chunks})
    BY SlotsAssumption
  <2>4. c.chunks = [i \in DOMAIN c.chunks |-> c.chunks[i]]
    BY <2>3
  <2> QED
    BY <2>2, <2>4
<1>10. column'.kind = c.kind /\ column'.means = c.means /\ DOMAIN column'.chunks = DOMAIN c.chunks
  BY <1>2
<1>11. c.kind \in {"cells", "coverings"}
  BY SlotsAssumption
<1>12. ColumnFits'
  BY <1>6, <1>9, <1>10, <1>11 DEF ColumnFits
<1>13. call' = Idle /\ vec' = vec
  BY DEF NewColumn
<1>14. VectorFits'
  BY <1>13 DEF DataInv, VectorFits
<1> QED
  BY <1>12, <1>13, <1>14, IdleFits

(* What goes to Arrow is the vector.                                       *)
LEMMA ToArrowData ==
  ASSUME IInv, IInv', Next, DataInv, NEW h \in Holders, ToArrow(h)
  PROVE  DataInv'
<1> DEFINE chunk == ToChunk(vec)
           blocks == Exports(chunk, vec.kind)
           at == Fresh(blocks)
<1>1. /\ call' = [op |-> "import", holder |-> h] /\ vec # NoVector
      /\ UNCHANGED <<vec, column>> /\ HasRoom(blocks) /\ mem' = Stored(blocks, at)
      /\ slots' = [slots EXCEPT ![h] = [f \in Fields(1) |-> Holds(f, at)]]
  BY DEF ToArrow
<1>2. IsVector(vec) /\ ColumnFits
  BY <1>1 DEF DataInv, VectorFits
<1>3. IsPair(chunk)
  BY <1>2, VectorSent DEF IsChunk, IsPair
<1>4. AreBlocks(blocks) /\ DOMAIN blocks = {1, 2}
  BY ExportsAreBlocks
<1>5. blocks[1] = Parts(chunk)
  BY DEF Exports
<1>6. at \in Addresses(blocks) /\ Apart(at)
  BY <1>1, FreshApart
<1> HIDE DEF chunk, blocks, at
<1>7. ChunkIn(mem', at[<<1, 1>>]) = chunk
  <2>1. 1 \in DOMAIN blocks
    BY <1>4
  <2> QED
    BY <1>1, <1>3, <1>4, <1>5, <1>6, <2>1, StoredChunk
<1>8. slots'[h][<<1, "array">>] = at[<<1, 1>>]
  BY <1>1, FieldsOfOne DEF IInv, Holds
<1>9. SentFits'
  BY <1>1, <1>2, <1>7, <1>8 DEF SentFits, ChunkIn, chunk
<1>10. VectorFits' /\ ColumnFits'
  BY <1>1, <1>2, ColumnKept DEF VectorFits
<1>11. SharedFits' /\ ReadFits'
  BY <1>1 DEF SharedFits, ReadFits
<1> QED
  BY <1>9, <1>10, <1>11 DEF DataInv

(* And it becomes a column that means what the vector did.                 *)
LEMMA ImportData ==
  ASSUME IInv, IInv', Next, DataInv, NEW h \in Holders, Import(h)
  PROVE  DataInv'
<1> DEFINE p == slots[h][<<1, "array">>]
<1>1. call.op = "import" /\ call.holder = h /\ call # Idle
  BY DEF Import, Idle
<1>2. /\ column' = [kind |-> vec.kind, means |-> Means(vec), chunks |-> <<p>>]
      /\ call' = Idle /\ vec' = vec
  BY DEF Import, EndsWith
<1>3. IsVector(vec) /\ ChunkIn(mem, p) = ToChunk(vec)
  BY <1>1 DEF DataInv, SentFits
<1>4. p \in Roots
  <2>1. <<1, "array">> \in DOMAIN slots[h] /\ NULL \notin Structs(h)
    BY <1>1, Calling, FieldsOfOne
  <2>2. p \in Structs(h) /\ p # NULL
    BY <2>1 DEF Structs
  <2> QED
    BY <2>2 DEF Held, Roots
<1> HIDE DEF p
<1>5. p \in Roots'
  <2>1. column'.chunks = <<p>> /\ 1 \in DOMAIN <<p>> /\ <<p>>[1] = p
    BY <1>2
  <2>2. p \in Chunks'
    BY <2>1 DEF Chunks
  <2>3. p # NULL
    BY <1>4 DEF Roots
  <2> QED
    BY <2>2, <2>3 DEF Roots
<1>6. ChunkIn(mem', p) = ToChunk(vec)
  BY <1>3, <1>4, <1>5, NoneChanges, RootsKept
<1>7. ColumnChunks' = <<ToChunk(vec)>>
  <2>1. ColumnChunks' = [i \in DOMAIN column'.chunks |-> ChunkIn(mem', column'.chunks[i])]
    BY DEF ColumnChunks, ChunkIn
  <2>2. column'.chunks = <<p>>
    BY <1>2
  <2>3. DOMAIN <<p>> = {1} /\ <<p>>[1] = p
    OBVIOUS
  <2> DEFINE chunk == ToChunk(vec)
  <2>4. ColumnChunks' = [i \in {1} |-> chunk]
    BY <1>6, <2>1, <2>2, <2>3
  <2> HIDE DEF chunk
  <2>5. [i \in {1} |-> chunk] = <<chunk>>
    OBVIOUS
  <2> QED
    BY <2>4, <2>5 DEF chunk
<1>8. ColumnFits'
  <2>1. IsChunk(vec.kind, ToChunk(vec)) /\ ColumnMeans(vec.kind, <<ToChunk(vec)>>) = Means(vec)
    BY <1>3, VectorSent
  <2>2. vec.kind \in {"cells", "coverings"}
    BY <1>3 DEF IsVector
  <2>3. column'.kind = vec.kind /\ column'.means = Means(vec) /\ DOMAIN column'.chunks = {1}
    BY <1>2
  <2>4. <<ToChunk(vec)>>[1] = ToChunk(vec)
    OBVIOUS
  <2> QED
    BY <1>7, <2>1, <2>2, <2>3, <2>4 DEF ColumnFits
<1>9. VectorFits'
  BY <1>2, <1>3 DEF VectorFits
<1> QED
  BY <1>2, <1>8, <1>9, IdleFits

(* No slot of a new holder has a chunk to be right about.                  *)
LEMMA NewSlotsData ==
  ASSUME IInv, IInv', Next, DataInv, NEW h \in Holders, NewSlots(h)
  PROVE  DataInv'
<1>1. /\ vec = NoVector /\ column # NoColumn /\ UNCHANGED <<vec, column>>
      /\ call' = [op |-> "export", holder |-> h, next |-> 1]
  BY DEF NewSlots
<1>2. VectorFits' /\ ColumnFits'
  BY <1>1, ColumnKept DEF DataInv, VectorFits
<1>3. \A i \in DOMAIN column.chunks : ~(i < 1)
  BY DEF IInv
<1>4. SharedFits'
  BY <1>1, <1>3 DEF SharedFits
<1>5. SentFits' /\ ReadFits'
  BY <1>1 DEF SentFits, ReadFits
<1> QED
  BY <1>2, <1>4, <1>5 DEF DataInv

(* Slot by slot the chunks are shared.                                     *)
LEMMA ExportData ==
  ASSUME IInv, IInv', Next, DataInv, NEW h \in Holders, Export(h)
  PROVE  DataInv'
<1> DEFINE n == call.next
           chunk == ChunkAt(column.chunks[call.next])
           blocks == Exports(chunk, column.kind)
           at == Fresh(blocks)
           s == [f \in DOMAIN slots[h] |-> IF f[1] = n THEN Holds(f, at) ELSE slots[h][f]]
<1>1. /\ call # Idle /\ call.holder = h /\ call.op = "export" /\ n <= Len(column.chunks)
      /\ call' = [call EXCEPT !.next = @ + 1] /\ UNCHANGED <<vec, column>>
      /\ HasRoom(blocks) /\ mem' = Stored(blocks, at) /\ slots' = [slots EXCEPT ![h] = s]
  BY DEF Export, Idle
<1>2. /\ DOMAIN slots[h] = Fields(Len(column.chunks)) /\ n \in Nat \ {0}
      /\ call' = [op |-> "export", holder |-> h, next |-> n + 1]
  BY <1>1, Calling
<1>3. /\ DOMAIN slots = Holders /\ Len(column.chunks) \in Nat
      /\ DOMAIN column.chunks = 1..Len(column.chunks)
  BY DEF IInv
<1>4. IsPair(chunk) /\ chunk = ColumnChunks[n]
  <2>1. n \in DOMAIN column.chunks
    BY <1>1, <1>2, <1>3
  <2>2. chunk = ChunkIn(mem, column.chunks[n])
    BY ChunkAtIn
  <2>3. \A m, p : IsPair(ChunkIn(m, p))
    BY DEF IsPair, ChunkIn
  <2> HIDE DEF n, chunk
  <2> QED
    BY <2>1, <2>2, <2>3 DEF ColumnChunks
<1>5. AreBlocks(blocks) /\ DOMAIN blocks = {1, 2}
  BY ExportsAreBlocks
<1>6. blocks[1] = Parts(chunk)
  BY DEF Exports
<1>7. at \in Addresses(blocks) /\ Apart(at)
  BY <1>1, FreshApart
<1> HIDE DEF chunk, blocks, at
<1>8. ChunkIn(mem', at[<<1, 1>>]) = chunk
  <2>1. 1 \in DOMAIN blocks
    BY <1>5
  <2> QED
    BY <1>1, <1>4, <1>5, <1>6, <1>7, <2>1, StoredChunk
<1>9. at[<<1, 1>>] # NULL
  <2>1. <<1, 1>> \in Spots(blocks)
    BY <1>5 DEF Spots, AreBlocks
  <2> QED
    BY <1>7, <2>1, NullApart DEF Addresses
<1>10. ColumnChunks' = ColumnChunks
  BY <1>1, ChunksKept
<1>11. \A i \in DOMAIN column.chunks : i < n => Shared(i)
  BY <1>1 DEF DataInv, SharedFits
<1>12. \A i \in DOMAIN column.chunks : <<i, "array">> \in DOMAIN slots[h]
  BY <1>2, <1>3 DEF Fields
<1>13. /\ DOMAIN s = DOMAIN slots[h]
       /\ \A i \in DOMAIN column.chunks :
            s[<<i, "array">>] = IF i = n THEN at[<<1, 1>>] ELSE slots[h][<<i, "array">>]
  <2>1. DOMAIN s = DOMAIN slots[h]
    OBVIOUS
  <2>2. ASSUME NEW i \in DOMAIN column.chunks
        PROVE  s[<<i, "array">>] = IF i = n THEN at[<<1, 1>>] ELSE slots[h][<<i, "array">>]
    <3> DEFINE f == <<i, "array">>
    <3>1. f[1] = i /\ f[2] = "array" /\ f \in DOMAIN slots[h]
      BY <1>12
    <3> HIDE DEF f
    <3>2. s[f] = IF i = n THEN at[<<1, 1>>] ELSE slots[h][f]
      BY <3>1 DEF Holds
    <3> QED
      BY <3>2 DEF f
  <2> QED
    BY <2>1, <2>2
<1> HIDE DEF s, n
<1>14. slots'[h] = s
  BY <1>1, <1>3
<1>15. ASSUME NEW i \in DOMAIN column.chunks, i < n + 1
       PROVE  /\ slots'[h][<<i, "array">>] # NULL
              /\ ChunkIn(mem', slots'[h][<<i, "array">>]) = ColumnChunks'[i]
  <2>1. CASE i = n
    BY <1>4, <1>8, <1>9, <1>10, <1>13, <1>14, <2>1
  <2>2. CASE i # n
    <3>1. i < n
      BY <1>2, <1>3, <1>15, <2>2
    <3>2. /\ slots[h][<<i, "array">>] # NULL
          /\ ChunkIn(mem, slots[h][<<i, "array">>]) = ColumnChunks[i]
      BY <1>1, <1>11, <3>1 DEF Shared
    <3> DEFINE f == <<i, "array">>
    <3>3. f \in DOMAIN slots[h] /\ f \in DOMAIN slots'[h] /\ slots'[h][f] = slots[h][f]
      BY <1>12, <1>13, <1>14, <2>2
    <3> HIDE DEF f
    <3>4. ChunkIn(mem', slots[h][f]) = ChunkIn(mem, slots[h][f])
      BY <3>2, <3>3, SlotKept DEF f
    <3> QED
      BY <1>10, <3>2, <3>3, <3>4 DEF f
  <2> QED
    BY <2>1, <2>2
<1>16. SharedFits'
  <2>1. vec = NoVector /\ column # NoColumn
    BY <1>1 DEF DataInv, SharedFits
  <2>2. call'.op = "export" /\ call'.holder = h /\ call'.next = n + 1
    BY <1>2
  <2>3. \A i \in DOMAIN column'.chunks : i < n + 1 => Shared(i)'
    BY <1>1, <1>15, <2>2, SharedAfter
  <2> QED
    BY <1>1, <2>1, <2>2, <2>3 DEF SharedFits
<1>17. VectorFits' /\ ColumnFits'
  BY <1>1, ColumnKept DEF DataInv, VectorFits
<1>18. SentFits' /\ ReadFits'
  BY <1>2 DEF SentFits, ReadFits
<1> QED
  BY <1>16, <1>17, <1>18 DEF DataInv

(* The collector takes what no call has.                                   *)
LEMMA CollectData ==
  ASSUME IInv, IInv', Next, DataInv, NEW h \in Holders, Collect(h)
  PROVE  DataInv'
<1>1. /\ UNCHANGED <<vec, column, call>> /\ status[h] = "garbage"
      /\ slots' = [slots EXCEPT ![h] = <<>>]
  BY DEF Collect, Drop
<1>2. ColumnChunks' = ColumnChunks
  BY <1>1, ChunksKept
<1>3. VectorFits' /\ ColumnFits' /\ ReadFits'
  BY <1>1, <1>2, ColumnKept DEF DataInv, VectorFits, ReadFits, SoFar
<1> DEFINE g == call.holder
<1>4. ASSUME call # Idle, NEW f \in DOMAIN slots[g], slots[g][f] # NULL
      PROVE  slots'[g] = slots[g] /\ ChunkIn(mem', slots[g][f]) = ChunkIn(mem, slots[g][f])
  <2>1. g \in Holders /\ g # h
    BY <1>1, <1>4, Calling
  <2>2. slots'[g] = slots[g]
    BY <1>1, <2>1 DEF IInv
  <2> HIDE DEF g
  <2> QED
    BY <1>4, <2>1, <2>2, SlotKept
<1>5. SentFits'
  <2> SUFFICES ASSUME call.op = "import"
               PROVE  IsVector(vec) /\ ChunkIn(mem', slots'[g][<<1, "array">>]) = ToChunk(vec)
    BY <1>1, SentAfter
  <2>1. IsVector(vec) /\ ChunkIn(mem, slots[g][<<1, "array">>]) = ToChunk(vec)
    BY DEF DataInv, SentFits
  <2>2. call # Idle
    BY DEF Idle
  <2>3. <<1, "array">> \in DOMAIN slots[g] /\ slots[g][<<1, "array">>] # NULL
    BY <2>2, Calling, FieldsOfOne DEF Structs
  <2> HIDE DEF g
  <2> QED
    BY <1>4, <2>1, <2>2, <2>3
<1>6. SharedFits'
  <2> SUFFICES ASSUME call.op \in {"export", "read"}
               PROVE  /\ vec = NoVector /\ column # NoColumn
                      /\ \A i \in DOMAIN column.chunks : (call.op = "export" => i < call.next) =>
                           /\ slots'[g][<<i, "array">>] # NULL
                           /\ ChunkIn(mem', slots'[g][<<i, "array">>]) = ColumnChunks[i]
    <3>1. \A i : Shared(i)' <=> /\ slots'[g][<<i, "array">>] # NULL
                              /\ ChunkIn(mem', slots'[g][<<i, "array">>]) = ColumnChunks[i]
      BY <1>1, <1>2, SharedAfter
    <3> HIDE DEF g
    <3> QED
      BY <1>1, <3>1 DEF SharedFits
  <2>1. /\ vec = NoVector /\ column # NoColumn
        /\ \A i \in DOMAIN column.chunks : (call.op = "export" => i < call.next) =>
             /\ slots[g][<<i, "array">>] # NULL
             /\ ChunkIn(mem, slots[g][<<i, "array">>]) = ColumnChunks[i]
    BY DEF DataInv, SharedFits, Shared
  <2>2. call # Idle
    BY DEF Idle
  <2>3. \A i \in DOMAIN column.chunks : <<i, "array">> \in DOMAIN slots[g]
    <3>1. DOMAIN slots[g] = Fields(Len(column.chunks))
      BY <2>2, Calling
    <3> QED
      BY <3>1 DEF IInv, Fields
  <2> HIDE DEF g
  <2> QED
    BY <1>4, <2>1, <2>2, <2>3
<1> QED
  BY <1>3, <1>5, <1>6 DEF DataInv

-----------------------------------------------------------------------------
(* Reading.                                                                *)

(* The elements of two chunks mean what each of them means.                *)
LEMMA ItemsJoin ==
  \A kind : \A p, q \in Items(kind) :
    p \o q \in Items(kind) /\ MeansOf(kind, p \o q) = MeansOf(kind, p) \o MeansOf(kind, q)
<1> TAKE kind
<1> TAKE p, q \in Items(kind)
<1>1. PICK T : Items(kind) = Seq(T)
  BY DEF Items, CellItems, CoveringItems
<1>2. p \in Seq(T) /\ q \in Seq(T) /\ p \o q \in Seq(T)
  BY <1>1
<1>3. CASE kind = "cells"
  <2> DEFINE gets(s) == [i \in DOMAIN s |-> Get(s[i])]
             m == Len(p)
             n == Len(q)
             G == {Get(e) : e \in T}
  <2>1. \A s \in Seq(T) : gets(s) \in Seq(G) /\ Len(gets(s)) = Len(s) /\ DOMAIN gets(s) = 1..Len(s)
    <3> TAKE s \in Seq(T)
    <3>1. Len(s) \in Nat /\ DOMAIN s = 1..Len(s) /\ \A i \in 1..Len(s) : s[i] \in T
      BY SeqIsFunction
    <3>2. gets(s) \in [1..Len(s) -> G]
      BY <3>1
    <3> HIDE DEF gets, G
    <3> QED
      BY <3>1, <3>2, FunctionIsSeq
  <2>2. /\ m \in Nat /\ n \in Nat /\ Len(p \o q) = m + n /\ DOMAIN p = 1..m /\ DOMAIN q = 1..n
        /\ DOMAIN (p \o q) = 1..m + n
        /\ \A i \in 1..m : (p \o q)[i] = p[i]
        /\ \A i \in 1..n : (p \o q)[m + i] = q[i]
    BY <1>2, Concatenation, SeqIsFunction
  <2> DEFINE gp == gets(p)
             gq == gets(q)
             all == gets(p \o q)
  <2>3. /\ gp \in Seq(G) /\ gq \in Seq(G) /\ Len(gp) = m /\ Len(gq) = n
        /\ all \in Seq(G) /\ Len(all) = m + n
    BY <1>2, <2>1, <2>2
  <2>4. /\ \A i \in 1..m : gp[i] = Get(p[i])
        /\ \A i \in 1..n : gq[i] = Get(q[i])
        /\ \A i \in 1..m + n : all[i] = Get((p \o q)[i])
    BY <2>2
  <2> HIDE DEF gp, gq, all, m, n, G, gets
  <2>5. \A i \in 1..m + n : all[i] = (gp \o gq)[i]
    <3>1. /\ \A i \in 1..m : (gp \o gq)[i] = gp[i]
          /\ \A i \in 1..n : (gp \o gq)[m + i] = gq[i]
      BY <2>3, Concatenation
    <3>2. ASSUME NEW i \in 1..m + n, i \notin 1..m
          PROVE  \E k \in 1..n : i = m + k
      <4>1. i - m \in 1..n /\ i = m + (i - m)
        BY <2>2, <3>2
      <4> QED
        BY <4>1
    <3>3. ASSUME NEW k \in 1..n PROVE all[m + k] = gq[k]
      <4>1. m + k \in 1..m + n
        BY <2>2
      <4> QED
        BY <2>2, <2>4, <4>1
    <3>4. ASSUME NEW k \in 1..m PROVE all[k] = gp[k]
      <4>1. k \in 1..m + n
        BY <2>2
      <4> QED
        BY <2>2, <2>4, <4>1
    <3>5. \A i \in 1..m : all[i] = (gp \o gq)[i]
      BY <3>1, <3>4
    <3>6. \A k \in 1..n : all[m + k] = (gp \o gq)[m + k]
      BY <3>1, <3>3
    <3> QED
      BY <3>2, <3>5, <3>6
  <2>6. gp \o gq \in Seq(G) /\ Len(gp \o gq) = m + n
    <3>1. gp \o gq \in Seq(G)
      BY <2>3
    <3>2. Len(gp \o gq) = Len(gp) + Len(gq)
      BY <2>3, Concatenation, Zenon
    <3> QED
      BY <2>3, <3>1, <3>2
  <2>7. all = gp \o gq
    <3>1. DOMAIN all = 1..m + n /\ DOMAIN (gp \o gq) = 1..m + n
      BY <2>3, <2>6, SeqIsFunction
    <3> DEFINE b == gp \o gq
    <3>2. b \in Seq(G) /\ DOMAIN b = 1..m + n /\ \A i \in 1..m + n : all[i] = b[i]
      BY <2>5, <2>6, <3>1
    <3> HIDE DEF b
    <3>3. all = [i \in 1..m + n |-> all[i]] /\ b = [i \in 1..m + n |-> b[i]]
      BY <2>3, <3>1, <3>2, SeqIsFunction
    <3>4. all = b
      BY <3>2, <3>3
    <3> QED
      BY <3>4 DEF b
  <2>8. /\ MeansOf(kind, p) = gp /\ MeansOf(kind, q) = gq
        /\ MeansOf(kind, p \o q) = all
    BY <1>3 DEF MeansOf, gp, gq, all, gets
  <2> QED
    BY <1>1, <1>2, <2>7, <2>8
<1>4. CASE kind # "cells"
  BY <1>1, <1>2, <1>4 DEF MeansOf
<1> QED
  BY <1>3, <1>4

(* None mean nothing.                                                      *)
LEMMA NoItems ==
  \A kind : <<>> \in Items(kind) /\ MeansOf(kind, <<>>) = <<>>
<1> TAKE kind
<1>1. <<>> \in Items(kind)
  BY DEF Items, CellItems, CoveringItems
<1>2. DOMAIN <<>> = {} /\ <<>> = [i \in {} |-> Get(<<>>[i])]
  OBVIOUS
<1>3. MeansOf(kind, <<>>) = <<>>
  BY <1>2 DEF MeansOf
<1> QED
  BY <1>1, <1>3

(* One chunk more.                                                         *)
LEMMA FlattenNext ==
  ASSUME NEW T, NEW n \in Nat \ {0}, NEW m, \A i \in 1..n : m[i] \in Seq(T)
  PROVE  FlattenSeq([i \in 1..n |-> m[i]]) = FlattenSeq([i \in 1..n - 1 |-> m[i]]) \o m[n]
<1> DEFINE ss == [i \in 1..n |-> m[i]]
           k == n - 1
<1>1. ss \in [1..n -> Seq(T)] /\ k \in 0..n /\ k \in 0..n - 1 /\ k + 1 = n /\ n \in Nat
  OBVIOUS
<1>2. ss[n] = m[n]
  OBVIOUS
<1>3. [i \in 1..k |-> ss[i]] = [i \in 1..k |-> m[i]]
  <2>1. \A i \in 1..k : ss[i] = m[i]
    OBVIOUS
  <2> HIDE DEF ss
  <2> QED
    BY <2>1
<1> HIDE DEF ss
<1>4. PICK f \in [0..n -> Seq(T)] : JoinedUpTo(ss, n, f)
  BY <1>1, FlattenPrefixes
<1>5. FlattenSeq(ss) = f[n] /\ f[n] = f[k] \o ss[n]
  <2> HIDE DEF k
  <2>1. f[k + 1] = f[k] \o ss[k + 1]
    BY <1>1, <1>4 DEF JoinedUpTo, Joined
  <2> QED
    BY <1>1, <1>4, <2>1 DEF JoinedUpTo
<1>6. FlattenSeq([i \in 1..k |-> ss[i]]) = f[k]
  <2> HIDE DEF k
  <2> QED
    BY <1>1, <1>4 DEF JoinedUpTo
<1> QED
  BY <1>2, <1>3, <1>5, <1>6 DEF ss

(* Rust gets a slot of every chunk, and has read none.                     *)
LEMMA BeginReadData ==
  ASSUME IInv, IInv', Next, DataInv, NEW h \in Holders, BeginRead(h)
  PROVE  DataInv'
<1>1. /\ call # Idle /\ call.holder = h /\ call.op = "export" /\ call.next > Len(column.chunks)
      /\ call' = [op |-> "read", holder |-> h, next |-> 1, items |-> <<>>]
      /\ UNCHANGED <<mem, slots, vec, column>>
  BY DEF BeginRead, Idle
<1>2. ColumnChunks' = ColumnChunks /\ call.next \in Nat \ {0}
  BY <1>1, ChunksKept, Calling
<1>3. VectorFits' /\ ColumnFits'
  BY <1>1, ColumnKept DEF DataInv, VectorFits
<1>4. Len(column.chunks) \in Nat /\ DOMAIN column.chunks = 1..Len(column.chunks)
  BY DEF IInv
<1>5. /\ call'.op = "read" /\ call'.holder = h /\ call'.next = 1 /\ call'.items = <<>>
  BY <1>1
<1>6. /\ vec = NoVector /\ column # NoColumn
      /\ \A i \in DOMAIN column.chunks : i < call.next => Shared(i)
  BY <1>1 DEF DataInv, SharedFits
<1>7. \A i \in DOMAIN column.chunks : i < call.next
  BY <1>1, <1>2, <1>4
<1>8. SharedFits'
  <2>1. \A i \in DOMAIN column.chunks : Shared(i)'
    BY <1>1, <1>2, <1>5, <1>6, <1>7 DEF Shared, ChunkIn
  <2> QED
    BY <1>1, <1>6, <2>1 DEF SharedFits
<1>9. SoFar(1, <<>>)
  <2> DEFINE kind == column.kind
  <2>1. <<>> \in Items(kind) /\ MeansOf(kind, <<>>) = <<>>
    BY NoItems
  <2>2. [i \in 1..1 - 1 |-> ChunkMeans(kind, ColumnChunks[i])] = <<>>
    OBVIOUS
  <2>3. FlattenSeq(<<>>) = <<>>
    BY DEF FlattenSeq
  <2> HIDE DEF kind
  <2>4. FlattenSeq([i \in 1..1 - 1 |-> ChunkMeans(kind, ColumnChunks[i])]) = <<>>
    BY <2>2, <2>3
  <2> QED
    BY <1>4, <2>1, <2>4 DEF SoFar, kind
<1>10. ReadFits'
  BY <1>1, <1>2, <1>5, <1>9 DEF ReadFits, SoFar
<1>11. SentFits'
  BY <1>5 DEF SentFits
<1> QED
  BY <1>3, <1>8, <1>10, <1>11 DEF DataInv

(* Another chunk is read.                                                  *)
LEMMA OneMore ==
  ASSUME IInv, ColumnFits, column # NoColumn, NEW n \in 1..Len(column.chunks), NEW items,
         SoFar(n, items), ReadOf(column.kind, ColumnChunks[n]) # Bad
  PROVE  SoFar(n + 1, items \o ReadOf(column.kind, ColumnChunks[n]))
<1> DEFINE kind == column.kind
           all == column.chunks
           new == ReadOf(kind, ColumnChunks[n])
           m == [i \in DOMAIN all |-> ChunkMeans(kind, ColumnChunks[i])]
           T == {m[i][j] : i \in DOMAIN all, j \in Nat}
<1>1. Len(all) \in Nat /\ DOMAIN all = 1..Len(all) /\ n \in Nat \ {0} /\ n \in DOMAIN all
  BY DEF IInv
<1>2. \A i \in DOMAIN all : IsChunk(kind, ColumnChunks[i])
  BY DEF ColumnFits
<1>3. /\ new \in Items(kind) /\ IsReadable(kind, ColumnChunks[n])
      /\ MeansOf(kind, new) = ChunkMeans(kind, ColumnChunks[n])
  BY <1>1, <1>2, ChunkRead, Zenon
<1>4. /\ n <= Len(all) + 1 /\ items \in Items(kind)
      /\ \A i \in 1..n - 1 : IsReadable(kind, ColumnChunks[i])
      /\ MeansOf(kind, items) = FlattenSeq([i \in 1..n - 1 |-> ChunkMeans(kind, ColumnChunks[i])])
  BY DEF SoFar
<1>5. ASSUME NEW i \in DOMAIN all PROVE m[i] \in Seq(T)
  <2> DEFINE len == ColumnChunks[i].array.length
  <2>1. len \in Nat
    BY <1>2 DEF IsChunk, IsList, IsArray, Arrays
  <2>2. DOMAIN m[i] = 1..len /\ m[i] = [j \in 1..len |-> m[i][j]]
    BY DEF ChunkMeans
  <2>3. \A j \in 1..len : m[i][j] \in T
    BY <2>1
  <2> HIDE DEF m, T, len
  <2>4. m[i] \in [1..len -> T]
    BY <2>2, <2>3
  <2> QED
    BY <2>1, <2>4, FunctionIsSeq
<1>6. \A i \in DOMAIN all : m[i] = ChunkMeans(kind, ColumnChunks[i])
  OBVIOUS
<1> HIDE DEF kind, all, new, m, T
<1>7. FlattenSeq([i \in 1..n |-> m[i]]) = FlattenSeq([i \in 1..n - 1 |-> m[i]]) \o m[n]
  <2>1. \A i \in 1..n : m[i] \in Seq(T)
    BY <1>1, <1>5
  <2> QED
    BY <1>1, <2>1, FlattenNext
<1>8. /\ [i \in 1..n |-> m[i]] = [i \in 1..n |-> ChunkMeans(kind, ColumnChunks[i])]
      /\ [i \in 1..n - 1 |-> m[i]] = [i \in 1..n - 1 |-> ChunkMeans(kind, ColumnChunks[i])]
  BY <1>1, <1>6
<1>9. /\ items \o new \in Items(kind)
      /\ MeansOf(kind, items \o new) = MeansOf(kind, items) \o MeansOf(kind, new)
  BY <1>3, <1>4, ItemsJoin
<1>10. MeansOf(kind, items \o new)
         = FlattenSeq([i \in 1..n |-> ChunkMeans(kind, ColumnChunks[i])])
  BY <1>1, <1>3, <1>4, <1>6, <1>7, <1>8, <1>9
<1>11. \A i \in 1..n : IsReadable(kind, ColumnChunks[i])
  <2>1. \A i \in 1..n : i \in 1..n - 1 \/ i = n
    BY <1>1
  <2> QED
    BY <1>3, <1>4, <2>1
<1> DEFINE k == n + 1
<1>12. k - 1 = n /\ k <= Len(all) + 1
  BY <1>1
<1> HIDE DEF k
<1>13. SoFar(k, items \o new)
  BY <1>9, <1>10, <1>11, <1>12 DEF SoFar, kind, all
<1> QED
  BY <1>13 DEF new, kind, k

(* Reading a slot is reading its chunk.                                    *)
LEMMA ReadData ==
  ASSUME IInv, IInv', Next, DataInv, NEW h \in Holders, Read(h)
  PROVE  DataInv'
<1> DEFINE n == call.next
           array == slots[h][<<n, "array">>]
<1>1. /\ call # Idle /\ call.holder = h /\ call.op = "read"
      /\ UNCHANGED <<mem, slots, vec, column>>
  BY DEF Read, Idle
<1>2. ColumnChunks' = ColumnChunks
  BY <1>1, ChunksKept
<1>3. VectorFits' /\ ColumnFits'
  BY <1>1, ColumnKept DEF DataInv, VectorFits
<1>4. CASE EndsWith(h, "pinned")
  BY <1>1, <1>3, <1>4, AtRest DEF EndsWith
<1>5. CASE ~EndsWith(h, "pinned")
  <2>1. /\ ItemsOf(ChunkAt(array)) # Bad
        /\ call' = [call EXCEPT !.next = @ + 1, !.items = @ \o ItemsOf(ChunkAt(array))]
        /\ <<n, "array">> \in DOMAIN slots[h]
    BY <1>5 DEF Read
  <2>2. /\ n \in Nat \ {0} /\ DOMAIN slots[h] = Fields(Len(column.chunks))
        /\ call = [op |-> "read", holder |-> h, next |-> n, items |-> call.items]
    BY <1>1, Calling
  <2>3. n \in 1..Len(column.chunks) /\ n \in DOMAIN column.chunks
    BY <2>1, <2>2 DEF Fields, IInv
  <2>4. /\ vec = NoVector /\ column # NoColumn
        /\ \A i \in DOMAIN column.chunks : Shared(i)
    BY <1>1 DEF DataInv, SharedFits
  <2>5. ChunkAt(array) = ColumnChunks[n]
    BY <1>1, <2>3, <2>4, ChunkAtIn DEF Shared
  <2> DEFINE new == ReadOf(column.kind, ColumnChunks[n])
  <2>6. ItemsOf(ChunkAt(array)) = new
    BY <2>5 DEF ItemsOf, ReadOf
  <2>7. SoFar(n + 1, call.items \o new)
    <3>1. SoFar(n, call.items) /\ ColumnFits
      BY <1>1 DEF DataInv, ReadFits
    <3>2. new # Bad
      BY <2>1, <2>6
    <3> HIDE DEF n
    <3> QED
      BY <2>3, <2>4, <3>1, <3>2, OneMore
  <2> HIDE DEF new, array
  <2>8. call' = [op |-> "read", holder |-> h, next |-> n + 1, items |-> call.items \o new]
    <3> DEFINE items == call.items
    <3>1. call' = [call EXCEPT !.next = n + 1, !.items = items \o new]
      BY <2>1, <2>6
    <3>2. call = [op |-> "read", holder |-> h, next |-> n, items |-> items]
      BY <2>2
    <3> HIDE DEF n, items
    <3>3. call' = [op |-> "read", holder |-> h, next |-> n + 1, items |-> items \o new]
      BY <3>1, <3>2
    <3> QED
      BY <3>3 DEF items
  <2> HIDE DEF n
  <2>9. /\ call'.op = "read" /\ call'.holder = h
        /\ call'.next = n + 1 /\ call'.items = call.items \o new
    BY <2>8
  <2>10. ReadFits'
    BY <1>1, <1>2, <2>7, <2>9 DEF ReadFits, SoFar
  <2>11. SharedFits'
    <3>1. \A i \in DOMAIN column.chunks : Shared(i)'
      BY <1>1, <1>2, <2>4, <2>9 DEF Shared, ChunkIn
    <3> QED
      BY <1>1, <2>4, <3>1 DEF SharedFits
  <2>12. SentFits'
    BY <2>9 DEF SentFits
  <2> QED
    BY <1>3, <2>10, <2>11, <2>12 DEF DataInv
<1> QED
  BY <1>4, <1>5

(* At the end all is read.                                                 *)
LEMMA AllRead ==
  ASSUME IInv, DataInv, NEW h \in Holders, EndRead(h)
  PROVE  /\ column # NoColumn /\ ColumnFits
         /\ SoFar(Len(column.chunks) + 1, call.items)
         /\ vec' = [kind |-> column.kind, items |-> call.items]
<1>1. /\ call # Idle /\ call.holder = h /\ call.op = "read"
      /\ <<call.next, "array">> \notin DOMAIN slots[h]
      /\ vec' = [kind |-> column.kind, items |-> call.items]
  BY DEF EndRead, Idle
<1>2. call.next \in Nat \ {0} /\ DOMAIN slots[h] = Fields(Len(column.chunks))
  BY <1>1, Calling
<1>3. Len(column.chunks) \in Nat
  BY DEF IInv
<1>4. SoFar(call.next, call.items) /\ column # NoColumn /\ ColumnFits
  BY <1>1 DEF DataInv, ReadFits, SharedFits
<1>5. call.next <= Len(column.chunks) + 1
  BY <1>4 DEF SoFar
<1>6. call.next \notin 1..Len(column.chunks)
  BY <1>1, <1>2 DEF Fields
<1>7. call.next = Len(column.chunks) + 1
  BY <1>2, <1>3, <1>5, <1>6
<1> QED
  BY <1>1, <1>4, <1>7

(* So what R gets is a vector.                                             *)
LEMMA EndReadData ==
  ASSUME IInv, IInv', Next, DataInv, NEW h \in Holders, EndRead(h)
  PROVE  DataInv'
<1>1. /\ column # NoColumn /\ ColumnFits
      /\ SoFar(Len(column.chunks) + 1, call.items)
      /\ vec' = [kind |-> column.kind, items |-> call.items]
  BY AllRead
<1>2. call' = Idle /\ column' = column
  BY DEF EndRead, EndsWith
<1>3. vec'.kind = column.kind /\ vec'.items = call.items
  BY <1>1
<1>4. column.kind \in {"cells", "coverings"} /\ call.items \in Items(column.kind)
  BY <1>1 DEF ColumnFits, SoFar
<1>5. VectorFits'
  BY <1>3, <1>4 DEF VectorFits, IsVector
<1> QED
  BY <1>2, <1>5, AtRest

(* The steps together.                                                     *)
LEMMA NextDataInv == IInv /\ DataInv /\ [Next]_vars => DataInv'
<1>1. ASSUME IInv, DataInv, UNCHANGED vars PROVE DataInv'
  <2>1. UNCHANGED <<mem, slots, vec, column, call>>
    BY <1>1 DEF vars
  <2>2. ColumnChunks' = ColumnChunks
    BY <2>1 DEF ColumnChunks, ChunkIn
  <2>3. \A i : Shared(i)' = Shared(i)
    BY <2>1, <2>2 DEF Shared, ChunkIn
  <2>4. VectorFits' /\ ColumnFits'
    BY <1>1, <2>1, <2>2 DEF DataInv, VectorFits, ColumnFits
  <2>5. SentFits'
    BY <1>1, <2>1 DEF DataInv, SentFits, ChunkIn
  <2>6. SharedFits'
    BY <1>1, <2>1, <2>3 DEF DataInv, SharedFits
  <2>7. ReadFits'
    BY <1>1, <2>1, <2>2 DEF DataInv, ReadFits, SoFar
  <2> QED
    BY <2>4, <2>5, <2>6, <2>7 DEF DataInv
<1>2. ASSUME IInv, DataInv, Next PROVE DataInv'
  <2>0. IInv'
    BY <1>2, NextIInv
  <2>1. CASE NewVector \/ Grow \/ DropVector
    BY <1>2, <2>0, <2>1, UserData
  <2>2. CASE NewColumn
    BY <1>2, <2>0, <2>2, NewColumnData
  <2>3. CASE DropColumn
    BY <1>2, <2>0, <2>3, DropColumnData
  <2>4. ASSUME NEW h \in Holders, ToArrow(h) \/ NewSlots(h) \/ Continue(h) \/ Collect(h)
        PROVE  DataInv'
    <3>1. CASE ToArrow(h)
      BY <1>2, <2>0, <3>1, ToArrowData
    <3>2. CASE NewSlots(h)
      BY <1>2, <2>0, <3>2, NewSlotsData
    <3>3. CASE Collect(h)
      BY <1>2, <2>0, <3>3, CollectData
    <3>4. CASE Continue(h)
      <4>1. CASE Import(h)
        BY <1>2, <2>0, <4>1, ImportData
      <4>2. CASE ImportFails(h) \/ ExportFails(h)
        BY <1>2, <2>0, <4>2, FailureData
      <4>3. CASE Export(h)
        BY <1>2, <2>0, <4>3, ExportData
      <4>4. CASE BeginRead(h)
        BY <1>2, <2>0, <4>4, BeginReadData
      <4>5. CASE Read(h)
        BY <1>2, <2>0, <4>5, ReadData
      <4>6. CASE EndRead(h)
        BY <1>2, <2>0, <4>6, EndReadData
      <4> QED
        BY <3>4, <4>1, <4>2, <4>3, <4>4, <4>5, <4>6 DEF Continue
    <3> QED
      BY <2>4, <3>1, <3>2, <3>3, <3>4
  <2> QED
    BY <1>2, <2>1, <2>2, <2>3, <2>4 DEF Next
<1> QED
  BY <1>1, <1>2

(* At first there is nothing.                                              *)
LEMMA InitDataInv == Init => DataInv
<1> SUFFICES ASSUME Init PROVE DataInv
  OBVIOUS
<1>1. vec = NoVector /\ column = NoColumn /\ call.op = "idle"
  BY DEF Init, Idle
<1> QED
  BY <1>1 DEF DataInv, VectorFits, ColumnFits, SentFits, SharedFits, ReadFits

(* Hence it always holds.                                                  *)
LEMMA DataInvariance == Spec => [](IInv /\ DataInv)
  BY InitIInv, NextIInv, InitDataInv, NextDataInv, PTL DEF Spec

(* Elements of a vector are any eight bytes, so the lemmas on them apply.  *)
LEMMA DataViews == DataInv => ViewsAgree
<1> SUFFICES ASSUME DataInv, vec.kind = "cells" PROVE ViewsAgree
  BY DEF ViewsAgree
<1>1. vec.items \in Seq(Elements)
  BY DEF DataInv, VectorFits, NoVector, IsVector, Items, CellItems
<1>2. ToSet(vec.items) \subseteq Elements
  BY <1>1 DEF ToSet
<1>3. \A e \in ToSet(vec.items) :
        /\ IsNa(e) <=> e = Gap
        /\ ToHex(e) = NA <=> e = Gap
        /\ Put(Get(e)) = e
        /\ FromHex(ToHex(e)) = e
        /\ FromU64(ToU64(e).id, ToU64(e).na) = e
  BY <1>2, ElementViews
<1>4. \A a, b \in ToSet(vec.items) \ {Gap} :
        LET before == \/ Proxy(a)[1] < Proxy(b)[1]
                      \/ Proxy(a)[1] = Proxy(b)[1] /\ Proxy(a)[2] < Proxy(b)[2]
        IN  /\ Equal(a, b) = (a = b) /\ Equal(a, b) = (Proxy(a) = Proxy(b))
            /\ Get(a) < Get(b) <=> before
  BY <1>2, PairViews
<1> QED
  BY <1>3, <1>4 DEF ViewsAgree

(* A vector that a read makes is all that the column means.                *)
LEMMA ReadStepExact ==
  ASSUME IInv, DataInv, [Next]_vars, call.op = "read", vec' # NoVector
  PROVE  column.means # Bad /\ Means(vec') = column.means
<1>1. vec = NoVector /\ call # Idle
  BY DEF DataInv, SharedFits, Idle
<1>2. PICK h \in Holders : EndRead(h)
  <2>1. vec' # vec
    BY <1>1
  <2>2. ~UNCHANGED vars /\ Next
    BY <2>1 DEF vars
  <2>3. ~(NewVector \/ Grow \/ DropVector \/ NewColumn \/ DropColumn)
    BY <1>1 DEF NewVector, Grow, DropVector, NewColumn, DropColumn
  <2>4. \A h \in Holders :
          ~(ToArrow(h) \/ NewSlots(h) \/ Collect(h) \/ Import(h) \/ ImportFails(h) \/ Export(h)
            \/ ExportFails(h) \/ BeginRead(h) \/ Read(h))
    BY <2>1 DEF ToArrow, NewSlots, Collect, Import, ImportFails, Export, ExportFails, BeginRead, Read
  <2> QED
    BY <2>2, <2>3, <2>4, Zenon DEF Next, Continue
<1>3. /\ column # NoColumn /\ ColumnFits
      /\ SoFar(Len(column.chunks) + 1, call.items)
      /\ vec' = [kind |-> column.kind, items |-> call.items]
  BY <1>2, AllRead
<1> DEFINE kind == column.kind
           n == Len(column.chunks)
<1>4. n \in Nat /\ DOMAIN column.chunks = 1..n /\ n + 1 - 1 = n
  BY DEF IInv
<1>5. DOMAIN ColumnChunks = 1..n
  BY <1>4 DEF ColumnChunks
<1>6. /\ call.items \in Items(kind)
      /\ \A i \in 1..n : IsReadable(kind, ColumnChunks[i])
      /\ MeansOf(kind, call.items) = FlattenSeq([i \in 1..n |-> ChunkMeans(kind, ColumnChunks[i])])
  BY <1>3, <1>4 DEF SoFar
<1>7. column.means = MeansOf(kind, call.items)
  <2>1. column.means = ColumnMeans(kind, ColumnChunks)
    BY <1>3 DEF ColumnFits
  <2> QED
    BY <1>5, <1>6, <2>1 DEF ColumnMeans
<1>8. Means(vec') = MeansOf(kind, call.items)
  <2>1. vec'.kind = kind /\ vec'.items = call.items
    BY <1>3
  <2> QED
    BY <2>1 DEF Means, MeansOf
<1>9. MeansOf(kind, call.items) # Bad
  <2>1. CASE kind = "cells"
    <3> DEFINE items == call.items
               got == [i \in DOMAIN items |-> Get(items[i])]
               k == Len(items)
    <3>1. k \in Nat /\ DOMAIN items = 1..k /\ \A i \in 1..k : items[i] \in Elements
      BY <1>6, <2>1, SeqIsFunction DEF Items, CellItems
    <3>2. \A i \in 1..k : Get(items[i]) \in Ids \cup {NA}
      <4>1. \A e \in Elements : Get(e) \in Ids \cup {NA}
        BY GetFacts, IdFacts
      <4> QED
        BY <3>1, <4>1
    <3>3. got \in [1..k -> Ids \cup {NA}]
      BY <3>1, <3>2
    <3> HIDE DEF got, k
    <3>4. got \in Seq(Ids \cup {NA})
      BY <3>1, <3>3, FunctionIsSeq
    <3>5. got # Bad
      BY <3>4, ItemsAssumption
    <3> QED
      BY <2>1, <3>5 DEF MeansOf, got
  <2>2. CASE kind # "cells"
    BY <1>6, <2>2, ItemsAssumption DEF MeansOf, Items
  <2> QED
    BY <2>1, <2>2
<1> QED
  BY <1>7, <1>8, <1>9

-----------------------------------------------------------------------------
(* The results.                                                            *)

(* Memory, the holders and the call under way always fit together, for any *)
(* numbers of holders and payloads and any vectors and columns             *)
(* (a5_cell_to_arrow_rs() to FfiSlots::drop()).                            *)
THEOREM Typing == Spec => []TypeOK
  BY Invariance, IInvTypeOK, PTL

(* Whatever order reads, failures and collections come in, no payload is   *)
(* released twice or read after its release (FfiSlots, release_array()).   *)
THEOREM Released == Spec => []ReleasedOnce
  <1>1. IInv => ReleasedOnce
    BY DEF IInv, ReleasedOnce
  <1> QED
    BY <1>1, Invariance, PTL

(* Memory in use has one place to release it, and memory not in use has    *)
(* none: no leak, and nothing shared, at any moment.                       *)
THEOREM Owned == Spec => []OwnedOnce
  BY Invariance, IInvOwnedOnce, PTL

(* Whatever vectors users make and grow and whatever is read from Arrow,   *)
(* every element of a vector of cells is the same id, or NA, to every      *)
(* function that looks at it (CellSlices::get() to a5R_cells_to_u64()).    *)
THEOREM Views == Spec => []ViewsAgree
  BY DataInvariance, DataViews, PTL

(* A read of a column gives what the column means, over all chunks, or     *)
(* gives nothing; no collection or failure of another holder disturbs it   *)
(* (a5_cell_from_arrow_rs(), a5_covering_from_arrow_rs()).                 *)
THEOREM ReadsExact == Spec => ReadExact
  <1>1. IInv /\ DataInv /\ [Next]_vars =>
          [call.op = "read" /\ vec' # NoVector =>
             column.means # Bad /\ Means(vec') = column.means]_vars
    BY ReadStepExact
  <1> QED
    BY <1>1, DataInvariance, PTL DEF Spec, ReadExact
=============================================================================
