--------------------------- MODULE SequentialMap ---------------------------
(***************************************************************************)
(* What a vectorised a5R call promises, on any number of threads: one      *)
(* answer, which is the function of each element in the element's place,   *)
(* or one failing element given as the reason there is none.               *)
(***************************************************************************)
EXTENDS Integers

CONSTANTS NA, Waiting   \* a missing element; a call with no answer yet

VARIABLES
  kind,      \* the mapper called, see ParallelMap
  len,       \* the number of elements
  outcome,   \* what the element function does on each element
  result     \* the call's answer, or Waiting

abstractVars == <<kind, len, outcome, result>>

Elements == 0..len - 1

Failing == {i \in Elements : outcome[i] = "fail"}

Panicking == {i \in Elements : outcome[i] = "panic"}

(* The cell made from element i stands for the value.                      *)
Value(i) == IF outcome[i] = "ok" THEN i ELSE NA

(* An error a map can end with.  Mappers that collect one result per       *)
(* element report the failing element of lowest index; those that share a  *)
(* FirstError report whichever failing element came first in time.         *)
Reportable ==
  IF kind = "ordered" THEN {i \in Failing : \A j \in Failing : i <= j}
                      ELSE Failing

Answers ==
  IF Panicking # {} THEN {[status |-> "panic"]}
  ELSE IF Failing # {} THEN {[status |-> "error", at |-> i] : i \in Reportable}
  ELSE {[status |-> "ok", cells |-> [i \in Elements |-> Value(i)]]}

Answer ==
  /\ result = Waiting
  /\ result' \in Answers
  /\ UNCHANGED <<kind, len, outcome>>

Spec == result = Waiting /\ [][Answer]_abstractVars
=============================================================================
