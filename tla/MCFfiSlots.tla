----------------------------- MODULE MCFfiSlots -----------------------------
(***************************************************************************)
(* FfiSlots with ids of three bits: a top byte of four values, of which    *)
(* the mask leaves the low two apart, and one bit below it; 4 stands for   *)
(* NA.                                                                     *)
(***************************************************************************)
EXTENDS FfiSlots

Array(length, nulls, offset, values, validity) ==
  [length |-> length, nulls |-> nulls, offset |-> offset, values |-> values,
   validity |-> validity]

Flat(array) == [array |-> array, child |-> NULL]

List(array, child) == [array |-> array, child |-> child]

(* Every stored element there is; a single id; coverings, one of them      *)
(* missing and one empty; one with more cells than Arrow counts.           *)
MCVectors ==
  {[kind |-> "cells", items |-> [i \in 1..8 |-> <<(i - 1) % 2, (i - 1) \div 2>>]],
   [kind |-> "cells", items |-> <<Encode(5)>>],
   [kind |-> "coverings", items |-> << <<3, 6>>, NA, <<>>, <<7>> >>],
   [kind |-> "coverings", items |-> << <<1, 2, 3>>, <<5>> >>]}

(* A slice with a bitmap; no nulls in spite of a bitmap, then a null;      *)
(* no chunk; lists sliced in both arrays; a null cell.                     *)
MCColumns ==
  {[kind |-> "cells", means |-> <<7, NA, 1>>,
    chunks |-> <<Flat(Array(3, -1, 1, <<2, 7, 6, 1>>, <<FALSE, TRUE, FALSE, TRUE>>))>>],
   [kind |-> "cells", means |-> <<3, 5, NA, NA>>,
    chunks |-> <<Flat(Array(2, 0, 0, <<3, 5>>, <<FALSE, FALSE>>)),
                 Flat(Array(2, 1, 0, <<4, 3>>, <<TRUE, FALSE>>))>>],
   [kind |-> "cells", means |-> <<>>, chunks |-> <<>>],
   [kind |-> "coverings", means |-> << <<5, 6>>, NA, <<>> >>,
    chunks |-> <<List(Array(3, 1, 1, <<0, 1, 3, 4, 4>>, <<TRUE, TRUE, FALSE, TRUE>>),
                      Array(4, 1, 1, <<3, 4, 5, 6, 7>>, <<TRUE, TRUE, TRUE, TRUE, FALSE>>))>>],
   [kind |-> "coverings", means |-> Bad,
    chunks |-> <<List(Array(1, 0, 0, <<0, 2>>, NULL),
                      Array(2, 1, 1, <<1, 2, 3>>, <<TRUE, TRUE, FALSE>>))>>]}
=============================================================================
