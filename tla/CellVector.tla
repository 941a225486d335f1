----------------------------- MODULE CellVector -----------------------------
(***************************************************************************)
(* How an a5_cell vector stores its ids (cell_raw.rs, api.c).              *)
(*                                                                         *)
(* An id has a top byte and the bits below it.  A stored element has the   *)
(* same two parts, the top byte with its high bits flipped (b8 XOR 0xFC),  *)
(* so that the zeros with which vctrs fills gaps stand for NA.  In the     *)
(* package a top byte has 256 values of which the mask keeps the low 4     *)
(* apart, and there are 2^56 values below it.                              *)
(***************************************************************************)
EXTENDS Integers, Sequences

CONSTANTS
  TopBytes,   \* values of the top byte: 256
  Keep,       \* values of its bits that the mask leaves alone: 4
  LowIds,     \* values of the bits below the top byte
  Half,       \* values of the lower half of an id: 2^32
  Base,       \* values of a digit: 16
  MaxDigits,  \* digits of the longest id: 16
  NA,         \* a missing cell
  Bad         \* a string that is no id

(* Base to a power: what a digit stands for.                               *)
Power[d \in 0..MaxDigits] == IF d = 0 THEN 1 ELSE Base * Power[d - 1]

ASSUME LayoutAssumption ==
  /\ Keep \in Nat \ {0} /\ TopBytes \in Nat \ {0} /\ TopBytes % Keep = 0
  /\ LowIds \in Nat \ {0} /\ Half \in Nat \ {0}
  /\ Base \in Nat \ {0, 1} /\ MaxDigits \in Nat
  /\ Power[MaxDigits] = TopBytes * LowIds

(* NA and Bad are no numbers and no strings.                               *)
ASSUME MissingAssumption == NA # Bad /\ {NA, Bad} \cap (Nat \cup Seq(Nat)) = {}

Ids == 0..TopBytes * LowIds - 1

(* NA_SENTINEL and B8_MASK: the mask as the top byte, zeros below.         *)
Mask == TopBytes - Keep

NaSentinel == Mask * LowIds

Masked(b) == (b % Keep) + Mask - (b - (b % Keep))

Encode(id) == <<id % LowIds, Masked(id \div LowIds)>>

Gap == <<0, 0>>

(* What eight bytes can be.                                                *)
Elements == (0..LowIds - 1) \X (0..TopBytes - 1)

(* Fault: the top byte alone is taken for the sentinel.                    *)
GetByTopByte(e) ==
  IF Masked(e[2]) = Mask THEN NA ELSE e[1] + LowIds * Masked(e[2])

(* CellSlices::get().                                                      *)
Get(e) ==
  LET id == e[1] + LowIds * Masked(e[2])
  IN  IF id = NaSentinel THEN NA ELSE id

(* cells_from_fn(): one element of the output.                             *)
Put(id) == IF id = NA THEN Gap ELSE Encode(id)

(* Fault: the last byte alone is tested.                                   *)
IsNaByLast(e) == e[2] = 0

(* cells_is_na_rs().                                                       *)
IsNa(e) == e[2] = 0 /\ Get(e) = NA

(* cells_equal_rs().                                                       *)
Equal(a, b) == IF Get(a) = NA \/ Get(b) = NA THEN NA ELSE Get(a) = Get(b)

(* cells_proxy_rs().                                                       *)
Proxy(e) == IF Get(e) = NA THEN NA ELSE <<Get(e) \div Half, Get(e) % Half>>

(* raw8_to_hex_rs(): every digit, the leading zeros too.                   *)
ToHex(e) ==
  IF Get(e) = NA THEN NA
  ELSE [d \in 1..MaxDigits |-> (Get(e) \div Power[MaxDigits - d]) % Base]

(* parse_hex_id(): shorter ids are padded on the left.                     *)
ParseHex(digits) ==
  IF digits = <<>> \/ Len(digits) > MaxDigits THEN Bad
  ELSE IF \E d \in DOMAIN digits : digits[d] \notin 0..Base - 1 THEN Bad
  ELSE LET read[d \in 0..Len(digits)] == IF d = 0 THEN 0 ELSE read[d - 1] * Base + digits[d]
       IN  read[Len(digits)]

(* hex_to_raw8_rs() on one string.                                         *)
FromHex(digits) ==
  IF digits = NA THEN Gap
  ELSE IF ParseHex(digits) = Bad THEN Bad
  ELSE IF ParseHex(digits) = NaSentinel THEN Gap
  ELSE Encode(ParseHex(digits))

(* a5R_cells_from_u64() and a5R_cells_to_u64().                            *)
FromU64(id, isNa) == Encode(IF isNa THEN NaSentinel ELSE id)

ToU64(e) == [id |-> IF Get(e) = NA THEN 0 ELSE Get(e), na |-> Get(e) = NA]
=============================================================================
