---------------------------- MODULE ParallelMap ----------------------------
(***************************************************************************)
(* One vectorised call of a5R (cell_raw.rs, indexing.rs): the choice       *)
(* between one thread and the pool, the chunks, the workers that fill the  *)
(* output, the mutex that keeps the first error, and the answer to R.      *)
(*                                                                         *)
(* Four kinds of mapper exist:                                             *)
(*   "planes"    cells_from_fn(): chunks that carry where they start;      *)
(*   "chunked"   a5_cell_to_lonlat_rs(), a5_cell_distance_rs(): chunks     *)
(*               that know their number, and multiply it by the size;      *)
(*   "elements"  map_cells() with a FirstError (boundaries);               *)
(*   "ordered"   map_cells() collecting a Result per element               *)
(*               (one_to_many(), coverings_to_list()).                     *)
(*                                                                         *)
(* rayon decides which worker takes which chunk and when: any order.  For  *)
(* the element mappers it also decides the chunks, down to one element,    *)
(* which gives every interleaving that coarser chunks give.                *)
(***************************************************************************)
EXTENDS Integers

CONSTANTS
  MaxLen,           \* bound on the input's length
  MaxThreads,       \* bound on the thread count
  ParMin,           \* PAR_MIN
  ChunksPerThread,  \* the 4 of par_chunk()
  MinChunk,         \* the 1024 of par_chunk()
  NA,               \* the missing cell
  Unset,            \* what an R vector holds before it is written
  Failed,           \* an Err collected as an element's result
  Waiting           \* the call has given no answer yet

ASSUME BoundsAssumption ==
  /\ MaxLen \in Nat
  /\ MaxThreads \in Nat \ {0}
  /\ ParMin \in Nat
  /\ ChunksPerThread \in Nat \ {0}
  /\ MinChunk \in Nat \ {0}

ASSUME ValuesAssumption ==
  /\ {NA, Unset, Failed} \cap (0..MaxLen) = {}
  /\ Failed # NA
  /\ \A i \in 0..MaxLen : Waiting # [status |-> "error", at |-> i]
  /\ Waiting # [status |-> "panic"]

VARIABLES
  kind,       \* the mapper
  threads,    \* get_num_threads(), constant during a call
  len,        \* the number of elements
  outcome,    \* what the element function does on each element
  pc,         \* the R thread: "start", "split", "map", "done"
  offset,     \* where the chunk iterators stand
  tag,        \* what comes with the next chunk: its start or its number
  chunks,     \* the chunks nobody has taken
  work,       \* the chunk each worker has, and where it stands in it
  out,        \* the output
  first,      \* the FirstError: {} or the element whose error it holds
  panicked,   \* some closure panicked
  result      \* the answer

call == <<kind, threads, len, outcome>>

vars == <<call, pc, offset, tag, chunks, work, out, first, panicked, result>>

Abstract == INSTANCE SequentialMap

-----------------------------------------------------------------------------

Workers == 1..MaxThreads

Kinds == {"planes", "chunked", "elements", "ordered"}

Outcomes == {"ok", "na", "fail", "panic"}

Elements == 0..len - 1

(* Output elements lo up to hi - 1, at the next one.  The tag is what the  *)
(* code hands over with the slices: the chunk's start, which               *)
(* chunk_planes() adds up beside them, or its number from enumerate().     *)
Chunk(t, lo, hi) == [tag |-> t, lo |-> lo, at |-> lo, hi |-> hi]

Idle == Chunk(0, 0, 0)

IsIdle(w) == work[w].at = work[w].hi

-----------------------------------------------------------------------------
(* The code's helpers.                                                     *)

(* par_chunk(): div_ceil(len, 4 * threads), at least 1024.                 *)
ParChunk ==
  LET share == (len + ChunksPerThread * threads - 1) \div (ChunksPerThread * threads)
  IN  IF share > MinChunk THEN share ELSE MinChunk

OneThread == threads <= 1 \/ (kind \in {"planes", "chunked"} /\ len < ParMin)

(* Fault: the last chunk is taken for a full one.                          *)
ChunkEndFull(lo) == lo + ParChunk

ChunkEnd(lo) == IF lo + ParChunk <= len THEN lo + ParChunk ELSE len

(* Fault: the next chunk starts one element early.                         *)
NextOffsetEarly(lo) == ChunkEnd(lo) - 1

NextOffset(lo) == ChunkEnd(lo)

(* Fault: chunks are numbered where their starts are to be added up.       *)
NextTagCounted(t, length) == t + 1

(* start += len, or the next number.                                       *)
NextTag(t, length) == IF kind = "planes" THEN t + length ELSE t + 1

(* The input element behind place `at` of a chunk: k places after its      *)
(* start (start + k), or reckoned from its number (c * chunk + k); in the  *)
(* mappers over elements the element itself.                               *)
Source(c) ==
  CASE kind = "planes"  -> c.tag + (c.at - c.lo)
    [] kind = "chunked" -> c.tag * ParChunk + (c.at - c.lo)
    [] OTHER            -> c.at

(* What is written for element i.                                          *)
Written(i) == IF outcome[i] = "fail" /\ kind = "ordered" THEN Failed
              ELSE Abstract!Value(i)

(* Faults: a failing element records nothing, or always records.           *)
RecordNothing(i) == first

RecordLast(i) == IF outcome[i] = "fail" /\ kind # "ordered" THEN {i} ELSE first

(* FirstError::ok(): under the mutex, keep the first.                      *)
Record(i) ==
  IF outcome[i] = "fail" /\ kind # "ordered" /\ first = {} THEN {i} ELSE first

(* FirstError::take(), or the scan of one_to_many() in input order.        *)
Errors ==
  IF kind = "ordered"
  THEN {i \in Elements : out[i] = Failed
                         /\ \A j \in Elements : out[j] = Failed => i <= j}
  ELSE first

NoErrors == first = {} /\ \A i \in Elements : out[i] # Failed

-----------------------------------------------------------------------------

Init ==
  /\ kind \in Kinds
  /\ threads \in Workers
  /\ len \in 0..MaxLen
  /\ outcome \in [Elements -> Outcomes]
  /\ pc = "start"
  /\ offset = 0
  /\ tag = 0
  /\ chunks = {}
  /\ work = [w \in Workers |-> Idle]
  /\ out = [i \in Elements |-> Unset]
  /\ first = {}
  /\ panicked = FALSE
  /\ result = Waiting

(* The R thread runs the loop itself; worker 1 stands for it.              *)
RunInline ==
  /\ pc = "start"
  /\ OneThread
  /\ pc' = "map"
  /\ work' = [work EXCEPT ![1] = Chunk(0, 0, len)]
  /\ UNCHANGED <<call, offset, tag, chunks, out, first, panicked, result>>

(* par_iter() over the elements.                                           *)
RunElements ==
  /\ pc = "start"
  /\ ~OneThread
  /\ kind \in {"elements", "ordered"}
  /\ pc' = "map"
  /\ chunks' = {Chunk(0, i, i + 1) : i \in Elements}
  /\ UNCHANGED <<call, offset, tag, work, out, first, panicked, result>>

RunChunks ==
  /\ pc = "start"
  /\ ~OneThread
  /\ kind \in {"planes", "chunked"}
  /\ pc' = "split"
  /\ UNCHANGED <<call, offset, tag, chunks, work, out, first, panicked, result>>

(* chunk_planes(), par_chunks_mut(): the next chunk.                       *)
Split ==
  /\ pc = "split"
  /\ offset < len
  /\ chunks' = chunks \cup {Chunk(tag, offset, ChunkEnd(offset))}
  /\ offset' = NextOffset(offset)
  /\ tag' = NextTag(tag, ChunkEnd(offset) - offset)
  /\ UNCHANGED <<call, pc, work, out, first, panicked, result>>

(* Fault: the last chunk is taken for one more to come.                    *)
SplitEndsPast == pc = "split" /\ offset > len /\ pc' = "map"
                 /\ UNCHANGED <<call, offset, tag, chunks, work, out, first, panicked, result>>

SplitEnds ==
  /\ pc = "split"
  /\ offset >= len
  /\ pc' = "map"
  /\ UNCHANGED <<call, offset, tag, chunks, work, out, first, panicked, result>>

Take(w) ==
  /\ pc = "map"
  /\ w <= threads
  /\ IsIdle(w)
  /\ \E c \in chunks :
       /\ work' = [work EXCEPT ![w] = c]
       /\ chunks' = chunks \ {c}
  /\ UNCHANGED <<call, pc, offset, tag, out, first, panicked, result>>

(* One element: compute it, record its error, write it.                    *)
Write(w) ==
  /\ pc = "map"
  /\ ~IsIdle(w)
  /\ outcome[Source(work[w])] # "panic"
  /\ out' = [out EXCEPT ![work[w].at] = Written(Source(work[w]))]
  /\ first' = Record(Source(work[w]))
  /\ work' = [work EXCEPT ![w].at = @ + 1]
  /\ UNCHANGED <<call, pc, offset, tag, chunks, panicked, result>>

(* The closure panics: the worker leaves its chunk.                        *)
Panic(w) ==
  /\ pc = "map"
  /\ ~IsIdle(w)
  /\ outcome[Source(work[w])] = "panic"
  /\ panicked' = TRUE
  /\ work' = [work EXCEPT ![w] = Idle]
  /\ UNCHANGED <<call, pc, offset, tag, chunks, out, first, result>>

(* After a panic rayon may leave chunks undone.                            *)
Abandon ==
  /\ pc = "map"
  /\ panicked
  /\ \E c \in chunks : chunks' = chunks \ {c}
  /\ UNCHANGED <<call, pc, offset, tag, work, out, first, panicked, result>>

(* The map is done when no chunk and no work is left.                      *)
Finish ==
  /\ pc = "map"
  /\ chunks = {}
  /\ \A w \in Workers : IsIdle(w)
  /\ pc' = "done"
  /\ \/ panicked /\ result' = [status |-> "panic"]
     \/ ~panicked /\ \E i \in Errors : result' = [status |-> "error", at |-> i]
     \/ ~panicked /\ NoErrors /\ result' = [status |-> "ok", cells |-> out]
  /\ UNCHANGED <<call, offset, tag, chunks, work, out, first, panicked>>

Next ==
  \/ RunInline \/ RunElements \/ RunChunks
  \/ Split \/ SplitEnds
  \/ \E w \in Workers : Take(w) \/ Write(w) \/ Panic(w)
  \/ Abandon
  \/ Finish

Spec == Init /\ [][Next]_vars

(* Workers run, and every element function ends.                           *)
FairSpec == Spec /\ WF_vars(Next)

-----------------------------------------------------------------------------

(* The type invariant: every chunk lies inside the output.                 *)
ChunkType(c) ==
  /\ c \in [tag : Nat, lo : 0..len, at : 0..len, hi : 0..len]
  /\ c.lo <= c.at /\ c.at <= c.hi

TypeOK ==
  /\ kind \in Kinds
  /\ threads \in Workers
  /\ len \in 0..MaxLen
  /\ outcome \in [Elements -> Outcomes]
  /\ pc \in {"start", "split", "map", "done"}
  /\ offset \in 0..len
  /\ tag \in Nat
  /\ \A c \in chunks : ChunkType(c)
  /\ DOMAIN work = Workers /\ \A w \in Workers : ChunkType(work[w])
  /\ out \in [Elements -> Elements \cup {NA, Unset, Failed}]
  /\ first \subseteq Elements
  /\ panicked \in BOOLEAN

(* Two workers never hold the same output element, so that the mutable     *)
(* slices handed out are disjoint.                                         *)
Overlap(c, d) == c.at < d.hi /\ d.at < c.hi /\ c.at < c.hi /\ d.at < d.hi

NoSharedElement ==
  /\ \A v, w \in Workers : v # w => ~Overlap(work[v], work[w])
  /\ \A w \in Workers, c \in chunks : ~Overlap(work[w], c)
  /\ \A c, d \in chunks : c # d => ~Overlap(c, d)

(* On one thread, and in the mappers that collect results, the error       *)
(* reported is that of the first failing element in input order.           *)
FirstInOrder ==
  \A i \in Elements :
    result = [status |-> "error", at |-> i] /\ (OneThread \/ kind = "ordered")
    => \A j \in Elements : outcome[j] = "fail" => i <= j

(* Whatever the schedule, the number of threads and the chunk size, the    *)
(* call is the sequential one (tests/testthat/test-threads.R:82-101).      *)
IsSequential == Abstract!Spec

(* Every call gives its answer.                                            *)
Completes == <>(pc = "done")
=============================================================================
