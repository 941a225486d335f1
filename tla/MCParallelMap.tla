--------------------------- MODULE MCParallelMap ---------------------------
(* ParallelMap on short inputs: sizes below and above PAR_MIN, chunks of   *)
(* one and more elements, a short last chunk, and for the element mappers  *)
(* more chunks than workers.                                               *)
EXTENDS ParallelMap
=============================================================================
