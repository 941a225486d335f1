------------------------- MODULE ParallelMapProofs -------------------------
(***************************************************************************)
(* ParallelMap implements SequentialMap for every length, thread count and *)
(* chunk size, and no two workers ever hold the same output element.       *)
(***************************************************************************)
EXTENDS ParallelMap, TLAPS

-----------------------------------------------------------------------------
(* The inductive invariant.                                                *)

(* A chunk starts where its tag says.                                      *)
Tagged(c) == c.at < c.hi =>
  /\ kind = "planes" => c.lo = c.tag
  /\ kind = "chunked" => c.lo = c.tag * ParChunk

(* An element whose value is in place, and whose error, if it has one, is  *)
(* not lost.                                                               *)
Settled(i) ==
  /\ outcome[i] # "panic"
  /\ out[i] = Written(i)
  /\ outcome[i] = "fail" /\ kind # "ordered" => first # {}

(* An element that somebody still has to do.                               *)
Pending(i) ==
  \/ \E c \in chunks : c.at <= i /\ i < c.hi
  \/ \E w \in Workers : work[w].at <= i /\ i < work[w].hi

Starting == pc = "start" =>
  chunks = {} /\ offset = 0 /\ tag = 0 /\ \A w \in Workers : work[w] = Idle

Splitting == pc = "split" =>
  /\ kind \in {"planes", "chunked"}
  /\ kind = "planes" => offset = tag
  /\ kind = "chunked" /\ offset < len => offset = tag * ParChunk
  /\ \A w \in Workers : work[w] = Idle
  /\ \A c \in chunks : c.hi <= offset
  /\ \A i \in 0..offset - 1 : \E c \in chunks : c.at <= i /\ i < c.hi

Mapping == pc \in {"map", "done"} /\ ~panicked =>
  \A i \in Elements : Settled(i) \/ Pending(i)

ErrorsAreReal ==
  /\ \A i \in first : outcome[i] = "fail" /\ kind # "ordered"
  /\ panicked => \E i \in Elements : outcome[i] = "panic"

IInv ==
  /\ TypeOK
  /\ \A c \in chunks : Tagged(c)
  /\ \A w \in Workers : Tagged(work[w])
  /\ Starting /\ Splitting /\ Mapping /\ ErrorsAreReal
  /\ NoSharedElement
  /\ pc # "done" => result = Waiting

-----------------------------------------------------------------------------

LEMMA ParChunkPositive == ASSUME TypeOK PROVE ParChunk \in Nat \ {0}
  <1> DEFINE d == ChunksPerThread * threads
  <1>1. threads \in Nat \ {0} /\ len \in Nat
    BY BoundsAssumption DEF TypeOK, Workers
  <1>2. d \in Nat \ {0}
    BY <1>1, BoundsAssumption
  <1>3. len + d - 1 \in Nat
    BY <1>1, <1>2
  <1> HIDE DEF d
  <1>4. (len + d - 1) \div d \in Int
    BY <1>2, <1>3
  <1> QED
    BY <1>4, BoundsAssumption DEF ParChunk, d

(* A chunk names the input elements of its own place in the output.        *)
LEMMA SourceIsPlace ==
  ASSUME TypeOK, NEW c, ChunkType(c), Tagged(c), c.at < c.hi
  PROVE  Source(c) = c.at /\ c.at \in Elements
  <1>1. ParChunk \in Nat
    BY ParChunkPositive
  <1>2. c.tag \in Nat /\ c.lo \in Nat /\ c.at \in Nat /\ c.hi \in 0..len /\ len \in Nat
    BY BoundsAssumption DEF ChunkType, TypeOK
  <1>3. /\ kind = "planes" => c.lo = c.tag
        /\ kind = "chunked" => c.lo = c.tag * ParChunk
    BY DEF Tagged
  <1> QED
    BY <1>1, <1>2, <1>3 DEF Source, Elements

(* A call's own definitions do not move during the call.                   *)
LEMMA CallSteady ==
  ASSUME UNCHANGED call
  PROVE  /\ Elements' = Elements /\ ParChunk' = ParChunk
         /\ \A c : ChunkType(c)' <=> ChunkType(c)
         /\ \A c : Tagged(c)' <=> Tagged(c)
  BY DEF call, Elements, ParChunk, ChunkType, Tagged

LEMMA TypeStep ==
  ASSUME TypeOK, UNCHANGED call,
         pc' \in {"start", "split", "map", "done"},
         offset' \in 0..len, tag' \in Nat,
         \A c \in chunks' : ChunkType(c),
         DOMAIN work' = Workers, \A w \in Workers : ChunkType(work'[w]),
         out' \in [Elements -> Elements \cup {NA, Unset, Failed}],
         first' \subseteq Elements, panicked' \in BOOLEAN
  PROVE  TypeOK'
  <1>1. /\ kind' = kind /\ threads' = threads /\ len' = len /\ outcome' = outcome
        /\ Elements' = Elements /\ Workers' = Workers
    BY CallSteady DEF call, Workers
  <1>2. (\A c \in chunks : ChunkType(c))' /\ (\A w \in Workers : ChunkType(work[w]))'
    BY <1>1 DEF ChunkType
  <1>3. outcome' \in [Elements' -> Outcomes]
    BY <1>1, Zenon DEF TypeOK
  <1>4. out' \in [Elements' -> Elements' \cup {NA, Unset, Failed}]
    BY <1>1, Zenon
  <1>5. panicked' \in BOOLEAN
    OBVIOUS
  <1>6. /\ kind' \in Kinds /\ threads' \in Workers' /\ len' \in 0..MaxLen
        /\ offset' \in 0..len' /\ first' \subseteq Elements' /\ DOMAIN work' = Workers'
    BY <1>1 DEF TypeOK
  <1> QED
    BY <1>2, <1>3, <1>4, <1>5, <1>6 DEF TypeOK

LEMMA InitIInv == Init => IInv
  <1> SUFFICES ASSUME Init PROVE IInv
    OBVIOUS
  <1> USE BoundsAssumption DEF Init, Workers, Elements
  <1>1. TypeOK
    <2>1. \A w \in Workers : ChunkType(work[w])
      <3>1. ChunkType(Idle)
        BY DEF ChunkType, Idle, Chunk
      <3> QED
        BY <3>1
    <2>2. out \in [Elements -> Elements \cup {NA, Unset, Failed}]
      BY Zenon
    <2>3. panicked \in BOOLEAN /\ outcome \in [Elements -> Outcomes]
      BY Zenon
    <2>4. /\ kind \in Kinds /\ threads \in Workers /\ len \in 0..MaxLen
          /\ pc \in {"start", "split", "map", "done"}
          /\ offset \in 0..len /\ tag \in Nat
          /\ chunks = {} /\ first = {} /\ DOMAIN work = Workers
      OBVIOUS
    <2> HIDE DEF Init, Workers, Elements
    <2> QED
      BY <2>1, <2>2, <2>3, <2>4 DEF TypeOK
  <1>2. \A w \in Workers : Tagged(work[w])
    BY DEF Tagged, Idle, Chunk
  <1>3. NoSharedElement
    BY DEF NoSharedElement, Overlap, Idle, Chunk
  <1> QED
    BY <1>1, <1>2, <1>3 DEF IInv, Starting, Splitting, Mapping, ErrorsAreReal
-----------------------------------------------------------------------------
(* The actions.                                                            *)

LEMMA RunInlineIInv == ASSUME IInv, RunInline PROVE IInv'
  <1> DEFINE whole == Chunk(0, 0, len)
  <1>1. /\ TypeOK /\ pc = "start" /\ chunks = {} /\ 1 \in Workers
        /\ \A w \in Workers : work[w] = Idle
        /\ len \in Nat
    BY BoundsAssumption DEF IInv, RunInline, Starting, TypeOK, Workers
  <1>2. /\ work' = [work EXCEPT ![1] = whole] /\ pc' = "map"
        /\ UNCHANGED <<kind, threads, len, outcome, offset, tag, chunks, out,
                       first, panicked, result>>
    BY DEF RunInline, call
  <1>3. /\ ChunkType(whole) /\ Tagged(whole)
        /\ whole.at = 0 /\ whole.hi = len
    BY <1>1, ParChunkPositive DEF ChunkType, Tagged, Chunk
  <1>4. /\ work'[1] = whole
        /\ \A w \in Workers \ {1} : work'[w] = Idle
    BY <1>1, <1>2 DEF TypeOK
  <1>5. Idle.at = 0 /\ Idle.hi = 0
    BY DEF Idle, Chunk
  <1> HIDE DEF whole
  <1>6. TypeOK'
    <2>1. \A w \in Workers : ChunkType(work'[w])
      BY <1>1, <1>3, <1>4 DEF TypeOK
    <2> QED
      BY <1>1, <1>2, <2>1 DEF TypeOK, Elements, ChunkType
  <1>7. (\A w \in Workers : Tagged(work[w]))'
    <2>1. \A w \in Workers : Tagged(work'[w])
      BY <1>3, <1>4, <1>5 DEF Tagged
    <2> QED
      BY <2>1, <1>2 DEF Tagged, ParChunk
  <1>8. Mapping'
    BY <1>1, <1>2, <1>3, <1>4 DEF Mapping, Pending, Elements
  <1>9. NoSharedElement'
    BY <1>1, <1>2, <1>4, <1>5 DEF NoSharedElement, Overlap
  <1> QED
    BY <1>1, <1>2, <1>6, <1>7, <1>8, <1>9
    DEF IInv, Starting, Splitting, ErrorsAreReal, Tagged, ParChunk, Elements

LEMMA RunElementsIInv == ASSUME IInv, RunElements PROVE IInv'
  <1>1. /\ TypeOK /\ pc = "start"
        /\ \A w \in Workers : work[w] = Idle
        /\ len \in Nat
    BY BoundsAssumption DEF IInv, RunElements, Starting, TypeOK
  <1>2. /\ chunks' = {Chunk(0, i, i + 1) : i \in Elements} /\ pc' = "map"
        /\ kind \notin {"planes", "chunked"}
        /\ UNCHANGED <<kind, threads, len, outcome, offset, tag, work, out,
                       first, panicked, result>>
    BY DEF RunElements, call
  <1>3. \A i \in Elements :
          /\ Chunk(0, i, i + 1).at = i /\ Chunk(0, i, i + 1).hi = i + 1
          /\ ChunkType(Chunk(0, i, i + 1))
    BY <1>1 DEF ChunkType, Chunk, Elements
  <1>4. Idle.at = 0 /\ Idle.hi = 0
    BY DEF Idle, Chunk
  <1>5. TypeOK'
    <2>1. \A c \in chunks' : ChunkType(c)
      BY <1>2, <1>3
    <2> QED
      BY <1>1, <1>2, <2>1, TypeStep DEF TypeOK, call
  <1>6. (\A c \in chunks : Tagged(c))' /\ (\A w \in Workers : Tagged(work[w]))'
    BY <1>2 DEF Tagged
  <1>7. Mapping'
    <2>1. ASSUME NEW i \in Elements
          PROVE  \E c \in chunks' : c.at <= i /\ i < c.hi
      <3>1. Chunk(0, i, i + 1) \in chunks'
        BY <1>2
      <3>2. i \in Int
        BY DEF Elements
      <3> QED
        BY <1>3, <3>1, <3>2
    <2> QED
      BY <1>2, <2>1 DEF Mapping, Pending, Elements
  <1>8. NoSharedElement'
    <2>1. \A v, w \in Workers : v # w => ~Overlap(work'[v], work'[w])
      BY <1>1, <1>2, <1>4 DEF Overlap
    <2>2. \A w \in Workers, c \in chunks' : ~Overlap(work'[w], c)
      BY <1>1, <1>2, <1>4 DEF Overlap
    <2>3. \A c, d \in chunks' : c # d => ~Overlap(c, d)
      <3>1. \A c \in chunks' : \E i \in Elements : c = Chunk(0, i, i + 1)
        BY <1>2
      <3>2. \A i, j \in Elements :
              Overlap(Chunk(0, i, i + 1), Chunk(0, j, j + 1)) => i = j
        BY <1>1, <1>3 DEF Overlap, Elements
      <3> QED
        BY <3>1, <3>2
    <2> QED
      BY <2>1, <2>2, <2>3, <1>2 DEF NoSharedElement
  <1> QED
    BY <1>1, <1>2, <1>5, <1>6, <1>7, <1>8
    DEF IInv, Starting, Splitting, ErrorsAreReal, Elements

LEMMA RunChunksIInv == ASSUME IInv, RunChunks PROVE IInv'
  <1>1. /\ TypeOK /\ pc = "start" /\ offset = 0 /\ tag = 0 /\ chunks = {}
        /\ \A w \in Workers : work[w] = Idle
    BY DEF IInv, RunChunks, Starting
  <1>2. pc' = "split" /\ kind \in {"planes", "chunked"}
    BY DEF RunChunks
  <1>3. UNCHANGED <<kind, threads, len, outcome, offset, tag, chunks, work, out,
                    first, panicked, result>>
    BY DEF RunChunks, call
  <1>4. TypeOK'
    BY <1>1, <1>2, <1>3, TypeStep DEF TypeOK, call
  <1>5. Splitting'
    BY <1>1, <1>2, <1>3, ParChunkPositive DEF Splitting, ParChunk
  <1>6. NoSharedElement'
    BY <1>3 DEF IInv, NoSharedElement, Overlap
  <1>7. (\A c \in chunks : Tagged(c))' /\ (\A w \in Workers : Tagged(work[w]))'
    BY <1>3 DEF IInv, Tagged, ParChunk
  <1>8. ErrorsAreReal'
    BY <1>3 DEF IInv, ErrorsAreReal, Elements
  <1>9. result' = Waiting
    BY <1>3 DEF IInv, RunChunks
  <1> QED
    BY <1>2, <1>3, <1>4, <1>5, <1>6, <1>7, <1>8, <1>9 DEF IInv, Starting, Mapping

LEMMA SplitIInv == ASSUME IInv, Split PROVE IInv'
  <1> DEFINE new == Chunk(tag, offset, ChunkEnd(offset))
  <1>1. /\ TypeOK /\ pc = "split" /\ pc' = "split" /\ offset < len
        /\ kind \in {"planes", "chunked"}
        /\ kind = "planes" => offset = tag
        /\ kind = "chunked" => offset = tag * ParChunk
        /\ \A w \in Workers : work[w] = Idle
        /\ \A c \in chunks : c.hi <= offset
        /\ \A i \in 0..offset - 1 : \E c \in chunks : c.at <= i /\ i < c.hi
    BY DEF IInv, Split, Splitting
  <1>2. /\ chunks' = chunks \cup {new}
        /\ offset' = ChunkEnd(offset) /\ tag' = NextTag(tag, ChunkEnd(offset) - offset)
        /\ UNCHANGED <<kind, threads, len, outcome, work, out, first, panicked, result>>
    BY DEF Split, NextOffset, call
  <1>3. offset \in Nat /\ len \in Nat /\ tag \in Nat /\ ParChunk \in Nat \ {0}
    BY <1>1, BoundsAssumption, ParChunkPositive DEF TypeOK
  <1>4. /\ ChunkEnd(offset) \in offset + 1..len
        /\ ChunkEnd(offset) < len => ChunkEnd(offset) = offset + ParChunk
    <2>1. ChunkEnd(offset) = IF offset + ParChunk <= len THEN offset + ParChunk ELSE len
      BY DEF ChunkEnd
    <2> QED
      BY <2>1, <1>1, <1>3
  <1>4a. /\ tag' \in Nat
         /\ kind = "planes" => tag' = ChunkEnd(offset)
         /\ kind = "chunked" => tag' = tag + 1
    BY <1>1, <1>2, <1>3, <1>4 DEF NextTag
  <1>5. /\ new.lo = offset /\ new.at = offset /\ new.hi = ChunkEnd(offset)
        /\ new.tag = tag
        /\ ChunkType(new) /\ Tagged(new)
    BY <1>1, <1>3, <1>4 DEF ChunkType, Tagged, Chunk
  <1>6. Idle.at = 0 /\ Idle.hi = 0
    BY DEF Idle, Chunk
  <1> HIDE DEF new
  <1>7. TypeOK'
    BY <1>1, <1>2, <1>3, <1>4, <1>5, <1>4a DEF TypeOK, Elements, ChunkType
  <1>8. (\A c \in chunks : Tagged(c))' /\ (\A w \in Workers : Tagged(work[w]))'
    <2>1. \A c \in chunks' : Tagged(c)
      BY <1>2, <1>5 DEF IInv
    <2> QED
      BY <2>1, <1>2 DEF IInv, Tagged, ParChunk
  <1>9. Splitting'
    <2>1. /\ kind = "planes" => offset' = tag'
          /\ kind = "chunked" /\ offset' < len => offset' = tag' * ParChunk
      BY <1>1, <1>2, <1>3, <1>4, <1>4a
    <2>2. \A c \in chunks' : c.hi <= offset'
      <3>1. \A c \in chunks : c.hi \in Nat
        BY <1>1, <1>3 DEF TypeOK, ChunkType
      <3> QED
        BY <1>1, <1>2, <1>3, <1>4, <1>5, <3>1
    <2>3. \A i \in 0..offset' - 1 : \E c \in chunks' : c.at <= i /\ i < c.hi
      <3>1. ASSUME NEW i \in 0..offset' - 1
            PROVE  i \in 0..offset - 1 \/ (new.at <= i /\ i < new.hi)
        BY <1>2, <1>3, <1>4, <1>5
      <3> QED
        BY <1>1, <1>2, <3>1
    <2> QED
      BY <1>1, <1>2, <2>1, <2>2, <2>3 DEF Splitting, ParChunk
  <1>10. NoSharedElement'
    <2>1. \A c \in chunks : ~Overlap(c, new) /\ ~Overlap(new, c)
      <3>1. \A c \in chunks : c.hi \in Nat /\ c.at \in Nat
        BY <1>1, <1>3 DEF TypeOK, ChunkType
      <3> QED
        BY <1>1, <1>3, <1>5, <3>1 DEF Overlap
    <2>2. \A w \in Workers : ~Overlap(work[w], new)
      BY <1>1, <1>6 DEF Overlap
    <2> QED
      BY <1>2, <2>1, <2>2 DEF IInv, NoSharedElement
  <1> QED
    BY <1>1, <1>2, <1>7, <1>8, <1>9, <1>10
    DEF IInv, Starting, Mapping, ErrorsAreReal, Elements

LEMMA SplitEndsIInv == ASSUME IInv, SplitEnds PROVE IInv'
  <1>1. /\ TypeOK /\ pc = "split" /\ pc' = "map" /\ offset = len
        /\ \A i \in 0..offset - 1 : \E c \in chunks : c.at <= i /\ i < c.hi
    BY BoundsAssumption DEF IInv, SplitEnds, Splitting, TypeOK
  <1>2. UNCHANGED <<kind, threads, len, outcome, offset, tag, chunks, work, out,
                    first, panicked, result>>
    BY DEF SplitEnds, call
  <1>3. TypeOK'
    BY <1>1, <1>2 DEF TypeOK, Elements, ChunkType
  <1>4. Mapping'
    BY <1>1, <1>2 DEF Mapping, Pending, Elements
  <1> QED
    BY <1>1, <1>2, <1>3, <1>4
    DEF IInv, Starting, Splitting, ErrorsAreReal, NoSharedElement, Overlap,
        Tagged, ParChunk, Elements

LEMMA TakeIInv == ASSUME IInv, NEW w \in Workers, Take(w) PROVE IInv'
  <1>1. /\ TypeOK /\ pc = "map" /\ IsIdle(w) /\ UNCHANGED call
        /\ UNCHANGED <<kind, threads, len, outcome, pc, offset, tag, out, first,
                       panicked, result>>
    BY DEF IInv, Take, call
  <1>2. PICK c \in chunks : work' = [work EXCEPT ![w] = c] /\ chunks' = chunks \ {c}
    BY DEF Take
  <1>3. work'[w] = c /\ \A v \in Workers \ {w} : work'[v] = work[v]
    BY <1>1, <1>2 DEF TypeOK
  <1>4. TypeOK'
    <2>1. \A v \in Workers : ChunkType(work'[v])
      BY <1>1, <1>2, <1>3 DEF TypeOK
    <2> QED
      BY <1>1, <1>2, <2>1, TypeStep DEF TypeOK
  <1>5. (\A d \in chunks : Tagged(d))' /\ (\A v \in Workers : Tagged(work[v]))'
    <2>1. \A d \in chunks' : Tagged(d)
      BY <1>2 DEF IInv
    <2>2. \A v \in Workers : Tagged(work'[v])
      BY <1>2, <1>3 DEF IInv
    <2> QED
      BY <1>1, <2>1, <2>2 DEF Tagged, ParChunk
  <1>6. Mapping'
    <2>1. ASSUME NEW i \in Elements, Pending(i) PROVE Pending(i)'
      <3>1. ASSUME NEW d \in chunks, d.at <= i /\ i < d.hi PROVE Pending(i)'
        BY <1>2, <1>3, <3>1 DEF Pending
      <3>2. ASSUME NEW v \in Workers, work[v].at <= i /\ i < work[v].hi
            PROVE  Pending(i)'
        <4>1. v # w
          BY <1>1, <3>2 DEF IsIdle, TypeOK, ChunkType, Elements
        <4> QED
          BY <1>3, <3>2, <4>1 DEF Pending
      <3> QED
        BY <2>1, <3>1, <3>2 DEF Pending
    <2>2. \A i : Settled(i)' <=> Settled(i)
      BY <1>1 DEF Settled, Written, Abstract!Value
    <2> QED
      BY <1>1, <2>1, <2>2 DEF IInv, Mapping, Elements
  <1>7. NoSharedElement'
    <2>1. \A u, v \in Workers : u # v => ~Overlap(work'[u], work'[v])
      BY <1>2, <1>3 DEF IInv, NoSharedElement, Overlap
    <2>2. \A v \in Workers, d \in chunks' : ~Overlap(work'[v], d)
      BY <1>2, <1>3 DEF IInv, NoSharedElement
    <2>3. \A d, e \in chunks' : d # e => ~Overlap(d, e)
      BY <1>2 DEF IInv, NoSharedElement
    <2> QED
      BY <2>1, <2>2, <2>3 DEF NoSharedElement, Overlap
  <1>8. ErrorsAreReal' /\ result' = Waiting
    BY <1>1 DEF IInv, ErrorsAreReal, Elements
  <1> QED
    BY <1>1, <1>4, <1>5, <1>6, <1>7, <1>8 DEF IInv, Starting, Splitting

LEMMA WriteIInv == ASSUME IInv, NEW w \in Workers, Write(w) PROVE IInv'
  <1> DEFINE at == work[w].at
  <1>1. /\ TypeOK /\ pc = "map" /\ UNCHANGED call
        /\ UNCHANGED <<kind, threads, len, outcome, pc, offset, tag, chunks,
                       panicked, result>>
    BY DEF IInv, Write, call
  <1>2. at < work[w].hi /\ ChunkType(work[w]) /\ Tagged(work[w])
    BY BoundsAssumption DEF IInv, TypeOK, Write, IsIdle, ChunkType
  <1>3. Source(work[w]) = at /\ at \in Elements
    BY <1>1, <1>2, SourceIsPlace
  <1>4. /\ outcome[at] # "panic"
        /\ out' = [out EXCEPT ![at] = Written(at)]
        /\ first' = Record(at)
        /\ work' = [work EXCEPT ![w].at = at + 1]
    BY <1>3 DEF Write
  <1>5. /\ work'[w] = [work[w] EXCEPT !.at = at + 1]
        /\ \A v \in Workers \ {w} : work'[v] = work[v]
        /\ DOMAIN work' = Workers
    BY <1>1, <1>4 DEF TypeOK
  <1>6. /\ work'[w].at = at + 1 /\ work'[w].hi = work[w].hi
        /\ work'[w].lo = work[w].lo /\ work'[w].tag = work[w].tag
        /\ ChunkType(work'[w])
    BY <1>1, <1>2, <1>5, BoundsAssumption DEF ChunkType, TypeOK
  <1>7. /\ out'[at] = Written(at)
        /\ \A i \in Elements \ {at} : out'[i] = out[i]
    BY <1>1, <1>3, <1>4 DEF TypeOK
  <1>8. first' = first \/ (first' = {at} /\ outcome[at] = "fail" /\ kind # "ordered")
    BY <1>4 DEF Record
  <1>9. outcome[at] = "fail" /\ kind # "ordered" => first' # {}
    BY <1>4 DEF Record
  <1>10. first # {} => first' # {}
    BY <1>8
  <1> HIDE DEF at
  <1>11. TypeOK'
    <2>1. \A v \in Workers : ChunkType(work'[v])
      BY <1>1, <1>5, <1>6 DEF TypeOK
    <2>2. Written(at) \in Elements \cup {NA, Unset, Failed}
      BY <1>3 DEF Written, Abstract!Value
    <2>3. out' \in [Elements -> Elements \cup {NA, Unset, Failed}]
      <3>1. out \in [Elements -> Elements \cup {NA, Unset, Failed}]
        BY <1>1 DEF TypeOK
      <3> QED
        BY <1>3, <1>4, <2>2, <3>1
    <2>4. first' \subseteq Elements
      BY <1>1, <1>3, <1>8 DEF TypeOK
    <2> QED
      <3>1. panicked' \in BOOLEAN
        BY <1>1 DEF TypeOK
      <3>2. offset' \in 0..len /\ tag' \in Nat /\ \A d \in chunks' : ChunkType(d)
        BY <1>1 DEF TypeOK
      <3> QED
        BY <1>1, <1>5, <2>1, <2>3, <2>4, <3>1, <3>2, TypeStep
  <1>12. (\A d \in chunks : Tagged(d))' /\ (\A v \in Workers : Tagged(work[v]))'
    <2>1. Tagged(work'[w])
      <3>1. at \in Int /\ work[w].hi \in Int /\ at = work[w].at
        BY <1>1, <1>2, BoundsAssumption DEF at, ChunkType, TypeOK
      <3> QED
        BY <1>2, <1>6, <3>1 DEF Tagged
    <2>2. \A v \in Workers : Tagged(work'[v])
      BY <1>5, <2>1 DEF IInv
    <2> QED
      BY <1>1, <2>2 DEF IInv, Tagged, ParChunk
  <1>13. Mapping'
    <2>1. ASSUME NEW i \in Elements, i = at PROVE Settled(i)'
      BY <2>1, <1>1, <1>4, <1>7, <1>9 DEF Settled, Written, Abstract!Value
    <2>2. ASSUME NEW i \in Elements, i # at, Settled(i) PROVE Settled(i)'
      BY <1>1, <1>7, <1>10, <2>2 DEF Settled, Written, Abstract!Value
    <2>3. ASSUME NEW i \in Elements, i # at, Pending(i) PROVE Pending(i)'
      <3>1. ASSUME NEW d \in chunks, d.at <= i /\ i < d.hi PROVE Pending(i)'
        BY <1>1, <3>1 DEF Pending
      <3>2. ASSUME NEW v \in Workers, work[v].at <= i /\ i < work[v].hi
            PROVE  Pending(i)'
        <4>1. CASE v = w
          <5>1. at <= i /\ i < work[w].hi /\ at \in Int /\ i \in Int
            BY <1>3, <3>2, <4>1 DEF at, Elements
          <5>2. at + 1 <= i
            BY <5>1, <2>3
          <5> QED
            BY <1>6, <5>1, <5>2 DEF Pending
        <4>2. CASE v # w
          BY <1>5, <3>2, <4>2 DEF Pending
        <4> QED
          BY <4>1, <4>2
      <3> QED
        BY <2>3, <3>1, <3>2 DEF Pending
    <2> QED
      BY <1>1, <2>1, <2>2, <2>3 DEF IInv, Mapping, Elements
  <1>14. NoSharedElement'
    <2>1. \A c : ChunkType(c) /\ Overlap(work'[w], c) => Overlap(work[w], c)
      BY <1>2, <1>3, <1>6 DEF Overlap, ChunkType, at, Elements
    <2>2. \A c, d : Overlap(c, d) <=> Overlap(d, c)
      BY DEF Overlap
    <2>3. \A v \in Workers \ {w} : ~Overlap(work'[w], work'[v]) /\ ~Overlap(work'[v], work'[w])
      BY <1>1, <1>5, <2>1, <2>2 DEF IInv, NoSharedElement, TypeOK
    <2>4. \A d \in chunks : ~Overlap(work'[w], d)
      BY <1>1, <2>1 DEF IInv, NoSharedElement, TypeOK
    <2>5. \A u, v \in Workers : u # v => ~Overlap(work'[u], work'[v])
      BY <1>5, <2>3 DEF IInv, NoSharedElement
    <2>6. \A v \in Workers, d \in chunks : ~Overlap(work'[v], d)
      BY <1>5, <2>4 DEF IInv, NoSharedElement
    <2> QED
      BY <1>1, <2>5, <2>6 DEF IInv, NoSharedElement, Overlap
  <1>15. ErrorsAreReal' /\ result' = Waiting
    BY <1>1, <1>8 DEF IInv, ErrorsAreReal, Elements
  <1> QED
    BY <1>1, <1>11, <1>12, <1>13, <1>14, <1>15 DEF IInv, Starting, Splitting

LEMMA PanicIInv == ASSUME IInv, NEW w \in Workers, Panic(w) PROVE IInv'
  <1>1. /\ TypeOK /\ pc = "map" /\ UNCHANGED call /\ panicked' = TRUE
        /\ UNCHANGED <<kind, threads, len, outcome, pc, offset, tag, chunks, out,
                       first, result>>
        /\ work' = [work EXCEPT ![w] = Idle]
    BY DEF IInv, Panic, call
  <1>2. work[w].at < work[w].hi /\ ChunkType(work[w]) /\ Tagged(work[w])
    BY BoundsAssumption DEF IInv, TypeOK, Panic, IsIdle, ChunkType
  <1>3. \E i \in Elements : outcome[i] = "panic"
    BY <1>1, <1>2, SourceIsPlace DEF Panic
  <1>4. work'[w] = Idle /\ \A v \in Workers \ {w} : work'[v] = work[v]
    BY <1>1 DEF TypeOK
  <1>5. Idle.at = 0 /\ Idle.hi = 0 /\ ChunkType(Idle)
    BY <1>1, BoundsAssumption DEF Idle, Chunk, ChunkType, TypeOK
  <1>6. TypeOK'
    <2>1. \A v \in Workers : ChunkType(work'[v])
      BY <1>1, <1>4, <1>5 DEF TypeOK
    <2> QED
      BY <1>1, <2>1, TypeStep DEF TypeOK
  <1>7. (\A d \in chunks : Tagged(d))' /\ (\A v \in Workers : Tagged(work[v]))'
    <2>1. \A v \in Workers : Tagged(work'[v])
      BY <1>4, <1>5 DEF IInv, Tagged
    <2> QED
      BY <1>1, <2>1 DEF IInv, Tagged, ParChunk
  <1>8. NoSharedElement'
    <2>1. \A c : ~Overlap(Idle, c) /\ ~Overlap(c, Idle)
      BY <1>5 DEF Overlap
    <2> QED
      BY <1>1, <1>4, <2>1 DEF IInv, NoSharedElement, Overlap
  <1>9. ErrorsAreReal' /\ result' = Waiting
    BY <1>1, <1>3 DEF IInv, ErrorsAreReal, Elements
  <1> QED
    BY <1>1, <1>6, <1>7, <1>8, <1>9 DEF IInv, Starting, Splitting, Mapping

LEMMA AbandonIInv == ASSUME IInv, Abandon PROVE IInv'
  <1>1. /\ TypeOK /\ pc = "map" /\ UNCHANGED call /\ panicked
        /\ UNCHANGED <<kind, threads, len, outcome, pc, offset, tag, work, out,
                       first, panicked, result>>
        /\ chunks' \subseteq chunks
    BY DEF IInv, Abandon, call
  <1>2. TypeOK'
    BY <1>1, TypeStep DEF TypeOK
  <1>3. NoSharedElement'
    BY <1>1 DEF IInv, NoSharedElement, Overlap
  <1>4. (\A d \in chunks : Tagged(d))' /\ (\A v \in Workers : Tagged(work[v]))'
    BY <1>1 DEF IInv, Tagged, ParChunk
  <1>5. ErrorsAreReal' /\ result' = Waiting
    BY <1>1 DEF IInv, ErrorsAreReal, Elements
  <1> QED
    BY <1>1, <1>2, <1>3, <1>4, <1>5 DEF IInv, Starting, Splitting, Mapping

LEMMA FinishIInv == ASSUME IInv, Finish PROVE IInv'
  <1>1. /\ TypeOK /\ pc = "map" /\ pc' = "done" /\ UNCHANGED call
        /\ UNCHANGED <<kind, threads, len, outcome, offset, tag, chunks, work, out,
                       first, panicked>>
    BY DEF IInv, Finish, call
  <1>2. TypeOK'
    BY <1>1, TypeStep DEF TypeOK
  <1>3. NoSharedElement'
    BY <1>1 DEF IInv, NoSharedElement, Overlap
  <1>4. (\A d \in chunks : Tagged(d))' /\ (\A v \in Workers : Tagged(work[v]))'
    BY <1>1 DEF IInv, Tagged, ParChunk
  <1>5. Mapping'
    BY <1>1 DEF IInv, Mapping, Elements, Pending, Settled, Written, Abstract!Value
  <1>6. ErrorsAreReal'
    BY <1>1 DEF IInv, ErrorsAreReal, Elements
  <1> QED
    BY <1>1, <1>2, <1>3, <1>4, <1>5, <1>6 DEF IInv, Starting, Splitting

LEMMA StutterIInv == ASSUME IInv, UNCHANGED vars PROVE IInv'
  <1>1. /\ UNCHANGED call
        /\ UNCHANGED <<kind, threads, len, outcome, pc, offset, tag, chunks, work,
                       out, first, panicked, result>>
    BY DEF vars, call
  <1>2. TypeOK'
    BY <1>1, TypeStep DEF IInv, TypeOK
  <1>3. NoSharedElement'
    BY <1>1 DEF IInv, NoSharedElement, Overlap
  <1>4. (\A d \in chunks : Tagged(d))' /\ (\A v \in Workers : Tagged(work[v]))'
    BY <1>1 DEF IInv, Tagged, ParChunk
  <1>5. Mapping'
    BY <1>1 DEF IInv, Mapping, Elements, Pending, Settled, Written, Abstract!Value
  <1>6. ErrorsAreReal' /\ Starting' /\ Splitting'
    BY <1>1 DEF IInv, ErrorsAreReal, Starting, Splitting, Elements, ParChunk
  <1> QED
    BY <1>1, <1>2, <1>3, <1>4, <1>5, <1>6 DEF IInv

LEMMA NextIInv == IInv /\ [Next]_vars => IInv'
  <1> SUFFICES ASSUME IInv, [Next]_vars PROVE IInv'
    OBVIOUS
  <1>1. CASE RunInline
    BY <1>1, RunInlineIInv
  <1>2. CASE RunElements
    BY <1>2, RunElementsIInv
  <1>3. CASE RunChunks
    BY <1>3, RunChunksIInv
  <1>4. CASE Split
    BY <1>4, SplitIInv
  <1>5. CASE SplitEnds
    BY <1>5, SplitEndsIInv
  <1>6. ASSUME NEW w \in Workers, Take(w) PROVE IInv'
    BY <1>6, TakeIInv
  <1>7. ASSUME NEW w \in Workers, Write(w) PROVE IInv'
    BY <1>7, WriteIInv
  <1>8. ASSUME NEW w \in Workers, Panic(w) PROVE IInv'
    BY <1>8, PanicIInv
  <1>9. CASE Abandon
    BY <1>9, AbandonIInv
  <1>10. CASE Finish
    BY <1>10, FinishIInv
  <1>11. CASE UNCHANGED vars
    BY <1>11, StutterIInv
  <1> QED
    BY <1>1, <1>2, <1>3, <1>4, <1>5, <1>6, <1>7, <1>8, <1>9, <1>10, <1>11 DEF Next

LEMMA Inductive == Spec => []IInv
  BY InitIInv, NextIInv, PTL DEF Spec

-----------------------------------------------------------------------------
(* The answer.                                                             *)

(* When the map ends without a panic, every element has been done.         *)
LEMMA AllSettled ==
  ASSUME IInv, Finish, ~panicked
  PROVE  \A i \in Elements : Settled(i)
  <1>1. TypeOK /\ pc = "map" /\ chunks = {} /\ \A w \in Workers : IsIdle(w)
    BY DEF IInv, Finish
  <1>2. \A w \in Workers : work[w].at \in Int /\ work[w].hi \in Int
    BY <1>1, BoundsAssumption DEF TypeOK, ChunkType
  <1>3. \A i \in Elements : ~Pending(i)
    BY <1>1, <1>2 DEF Pending, IsIdle, Elements
  <1> QED
    BY <1>1, <1>3 DEF IInv, Mapping

(* The first failing element of a collecting mapper is the one the         *)
(* sequential loop stops at.                                               *)
LEMMA ErrorsAreReportable ==
  ASSUME IInv, \A i \in Elements : Settled(i), NEW i \in Errors
  PROVE  i \in Abstract!Reportable /\ i \in Elements
  <1> USE DEF Abstract!Reportable, Abstract!Failing, Abstract!Elements, Errors
  <1>1. CASE kind = "ordered"
    <2>1. \A j \in Elements : out[j] = Failed <=> outcome[j] = "fail"
      <3>1. ASSUME NEW j \in Elements
            PROVE  j # Failed /\ NA # Failed
        <4>1. j \in 0..MaxLen
          BY BoundsAssumption DEF Elements, IInv, TypeOK
        <4>2. Failed \notin 0..MaxLen
          BY ValuesAssumption, Zenon
        <4> QED
          BY <4>1, <4>2, ValuesAssumption, Zenon
      <3> QED
        BY <1>1, <3>1 DEF Settled, Written, Abstract!Value
    <2> QED
      BY <1>1, <2>1 DEF Elements
  <1>2. CASE kind # "ordered"
    BY <1>2 DEF IInv, TypeOK, ErrorsAreReal, Elements
  <1> QED
    BY <1>1, <1>2

LEMMA FinishAnswers == ASSUME IInv, Finish PROVE Abstract!Answer
  <1> USE DEF Abstract!Answer
  <1>1. result = Waiting /\ UNCHANGED <<kind, len, outcome>>
    BY DEF IInv, Finish, call
  <1>2. CASE panicked
    <2>1. Abstract!Panicking # {}
      BY <1>2 DEF IInv, ErrorsAreReal, Elements, Abstract!Panicking, Abstract!Elements
    <2>2. result' = [status |-> "panic"]
      BY <1>2 DEF Finish
    <2> QED
      BY <1>1, <2>1, <2>2 DEF Abstract!Answers
  <1>3. CASE ~panicked
    <2>1. \A i \in Elements : Settled(i)
      BY <1>3, AllSettled
    <2>2. Abstract!Panicking = {}
      BY <2>1 DEF Settled, Elements, Abstract!Panicking, Abstract!Elements
    <2>3. ASSUME NEW i \in Errors, result' = [status |-> "error", at |-> i]
          PROVE  result' \in Abstract!Answers
      <3>1. i \in Abstract!Reportable
        BY <2>1, ErrorsAreReportable
      <3>2. Abstract!Failing # {}
        BY <3>1 DEF Abstract!Reportable
      <3> QED
        BY <2>2, <2>3, <3>1, <3>2 DEF Abstract!Answers
    <2>4. ASSUME NoErrors, result' = [status |-> "ok", cells |-> out]
          PROVE  result' \in Abstract!Answers
      <3>1. \A i \in Elements : outcome[i] # "fail" /\ out[i] = Abstract!Value(i)
        BY <2>1, <2>4 DEF Settled, NoErrors, Written
      <3>2. Abstract!Failing = {}
        BY <3>1 DEF Abstract!Failing, Abstract!Elements, Elements
      <3>3. out \in [Elements -> Elements \cup {NA, Unset, Failed}]
        BY DEF IInv, TypeOK
      <3>4. out = [i \in Abstract!Elements |-> Abstract!Value(i)]
        BY <3>1, <3>3 DEF Abstract!Elements, Elements
      <3> QED
        BY <2>2, <2>4, <3>2, <3>4 DEF Abstract!Answers
    <2> QED
      BY <1>1, <1>3, <2>3, <2>4 DEF Finish
  <1> QED
    BY <1>2, <1>3

LEMMA StepAnswers == IInv /\ [Next]_vars => [Abstract!Answer]_Abstract!abstractVars
  <1> SUFFICES ASSUME IInv, [Next]_vars PROVE [Abstract!Answer]_Abstract!abstractVars
    OBVIOUS
  <1>1. CASE Finish
    BY <1>1, FinishAnswers
  <1>2. CASE ~Finish
    BY <1>2 DEF Next, RunInline, RunElements, RunChunks, Split, SplitEnds, Take, Write,
                Panic, Abandon, vars, call, Abstract!abstractVars
  <1> QED
    BY <1>1, <1>2

-----------------------------------------------------------------------------
(* The error reported when one worker goes through the input in order.     *)

(* The errors the one worker kept and the elements it has passed: the      *)
(* first that fails is kept, and with it none that fails later.            *)
InSequence ==
  OneThread /\ kind # "ordered" /\ ~panicked =>
    /\ pc # "split" /\ (pc = "start" => first = {})
    /\ pc \in {"map", "done"} =>
         /\ chunks = {} /\ \A w \in Workers \ {1} : IsIdle(w)
         /\ work[1].hi = len
         /\ \A j \in 0..work[1].at - 1 : outcome[j] = "fail" => \E i \in first : i <= j
         /\ \A i, k \in first : i = k /\ i < work[1].at

OrderInv == InSequence /\ FirstInOrder

LEMMA OneIsWorker == 1 \in Workers
  BY BoundsAssumption DEF Workers

LEMMA InitOrder == Init => OrderInv
  <1> SUFFICES ASSUME Init PROVE OrderInv
    OBVIOUS
  <1>1. InSequence
    BY DEF Init, InSequence
  <1>2. \A i \in Elements : result # [status |-> "error", at |-> i]
    BY ValuesAssumption, BoundsAssumption DEF Init, Elements
  <1> QED
    BY <1>1, <1>2 DEF OrderInv, FirstInOrder

(* Only the worker's own steps concern what it has passed.                 *)
LEMMA StepInSequence == IInv /\ InSequence /\ [Next]_vars => InSequence'
  <1> SUFFICES ASSUME IInv, InSequence, [Next]_vars,
                      OneThread', kind' # "ordered", ~panicked'
               PROVE  /\ pc' # "split" /\ (pc' = "start" => first' = {})
                      /\ pc' \in {"map", "done"} =>
                           /\ chunks' = {} /\ \A w \in Workers \ {1} : IsIdle(w)'
                           /\ work'[1].hi = len'
                           /\ \A j \in 0..work'[1].at - 1 :
                                outcome'[j] = "fail" => \E i \in first' : i <= j
                           /\ \A i, k \in first' : i = k /\ i < work'[1].at
    BY DEF InSequence, Workers
  <1> USE OneIsWorker
  <1>0. UNCHANGED call /\ OneThread /\ kind # "ordered"
    BY DEF Next, RunInline, RunElements, RunChunks, Split, SplitEnds, Take, Write, Panic,
           Abandon, Finish, vars, call, OneThread
  <1>1. TypeOK /\ len \in Nat
    BY BoundsAssumption DEF IInv, TypeOK
  <1>2. CASE RunInline
    <2>1. /\ chunks' = {} /\ first' = {} /\ pc' = "map"
          /\ work' = [work EXCEPT ![1] = Chunk(0, 0, len)]
          /\ \A w \in Workers : work[w] = Idle
      BY <1>2, <1>0 DEF RunInline, IInv, Starting, InSequence
    <2>2. DOMAIN work = Workers
      BY <1>1 DEF TypeOK
    <2> QED
      BY <1>0, <1>1, <2>1, <2>2 DEF call, IsIdle, Idle, Chunk
  <1>3. CASE RunElements \/ RunChunks
    BY <1>0, <1>3 DEF RunElements, RunChunks
  <1>4. CASE Split \/ SplitEnds
    BY <1>0, <1>4 DEF Split, SplitEnds, InSequence
  <1>5. ASSUME NEW w \in Workers, Take(w) PROVE FALSE
    BY <1>0, <1>5 DEF Take, InSequence
  <1>6. ASSUME NEW w \in Workers, Write(w)
        PROVE  /\ chunks' = {} /\ \A v \in Workers \ {1} : IsIdle(v)'
               /\ work'[1].hi = len' /\ pc' = "map"
               /\ \A j \in 0..work'[1].at - 1 :
                    outcome'[j] = "fail" => \E i \in first' : i <= j
               /\ \A i, k \in first' : i = k /\ i < work'[1].at
    <2> DEFINE i == Source(work[w])
    <2>1. /\ pc = "map" /\ pc' = pc /\ ~IsIdle(w) /\ chunks' = chunks
          /\ first' = Record(i) /\ ~panicked /\ work' = [work EXCEPT ![w].at = @ + 1]
      BY <1>6 DEF Write
    <2>2. w = 1
      BY <1>0, <2>1 DEF InSequence
    <2>3. ChunkType(work[1]) /\ DOMAIN work = Workers /\ Tagged(work[1])
      BY <1>1 DEF IInv, TypeOK
    <2>4. work[1].at \in Nat /\ work[1].hi \in Nat /\ work[1].at < work[1].hi
      BY <1>1, <2>1, <2>2, <2>3 DEF ChunkType, IsIdle
    <2>5. i = work[1].at
      BY <1>1, <2>2, <2>3, <2>4, SourceIsPlace
    <2>6. /\ work'[1].at = work[1].at + 1 /\ work'[1].hi = work[1].hi
          /\ \A v \in Workers \ {1} : work'[v] = work[v]
      BY <2>1, <2>2, <2>3 DEF ChunkType
    <2>7. /\ chunks = {} /\ \A v \in Workers \ {1} : IsIdle(v)
          /\ work[1].hi = len /\ \A k, l \in first : k = l /\ k < work[1].at
          /\ \A j \in 0..work[1].at - 1 : outcome[j] = "fail" => \E k \in first : k <= j
      BY <1>0, <2>1 DEF InSequence
    <2>8. first' = IF outcome[i] = "fail" /\ first = {} THEN {i} ELSE first
      BY <1>0, <2>1 DEF Record
    <2>9. first \subseteq Nat
      BY <1>1 DEF TypeOK, Elements
    <2> HIDE DEF i
    <2>10. \A k, l \in first' : k = l /\ k < work'[1].at
      <3>1. i \in Nat /\ work'[1].at = i + 1
        BY <2>4, <2>5, <2>6
      <3>2. \A k, l \in first : k = l /\ k < i
        BY <2>5, <2>7
      <3>3. first' = first \/ first' = {i}
        BY <2>8
      <3>4. \A m \in first : m \in Nat /\ m < i + 1
        BY <2>9, <3>1, <3>2
      <3>5. \A k, l \in first : k = l /\ k < i + 1
        BY <3>2, <3>4
      <3>6. \A k, l \in {i} : k = l /\ k < i + 1
        BY <3>1
      <3>7. \A k, l \in first' : k = l /\ k < i + 1
        BY <3>3, <3>5, <3>6
      <3> QED
        BY <3>1, <3>7
    <2>11. ASSUME NEW j \in 0..work'[1].at - 1, outcome[j] = "fail"
           PROVE  \E k \in first' : k <= j
      <3>0. j \in Nat /\ i \in Nat /\ j < i + 1
        BY <2>4, <2>5, <2>6
      <3>1. CASE j = i
        BY <3>0, <3>1, <2>5, <2>7, <2>8, <2>9, <2>11
      <3>2. CASE j # i
        <4>1. PICK k \in first : k <= j
          <5>1. j \in 0..work[1].at - 1
            BY <3>0, <3>2, <2>5
          <5> QED
            BY <5>1, <2>7, <2>11
        <4> QED
          BY <4>1, <2>8
      <3> QED
        BY <3>1, <3>2
    <2> QED
      BY <1>0, <2>1, <2>6, <2>7, <2>10, <2>11 DEF call, IsIdle
  <1>7. ASSUME NEW w \in Workers, Panic(w) PROVE FALSE
    BY <1>7 DEF Panic
  <1>8. CASE Abandon
    BY <1>0, <1>8 DEF Abandon
  <1>9. CASE Finish
    BY <1>0, <1>9 DEF Finish, InSequence, call, IsIdle
  <1>10. CASE UNCHANGED vars
    BY <1>0, <1>10 DEF vars, InSequence, call, IsIdle
  <1> QED
    BY <1>2, <1>3, <1>4, <1>5, <1>6, <1>7, <1>8, <1>9, <1>10 DEF Next

LEMMA StepFirstInOrder ==
  IInv /\ InSequence /\ FirstInOrder /\ [Next]_vars => FirstInOrder'
  <1> SUFFICES ASSUME IInv, InSequence, FirstInOrder, [Next]_vars,
                      NEW i \in Elements', result' = [status |-> "error", at |-> i],
                      OneThread' \/ kind' = "ordered",
                      NEW j \in Elements', outcome'[j] = "fail"
               PROVE  i <= j
    BY DEF FirstInOrder
  <1>1. UNCHANGED call /\ i \in Elements /\ j \in Elements /\ outcome[j] = "fail"
        /\ (OneThread \/ kind = "ordered")
    BY DEF Next, RunInline, RunElements, RunChunks, Split, SplitEnds, Take, Write, Panic,
           Abandon, Finish, vars, call, OneThread, Elements
  <1>2. CASE ~Finish
    <2>1. result' = result
      BY <1>2 DEF Next, RunInline, RunElements, RunChunks, Split, SplitEnds, Take, Write,
                  Panic, Abandon, vars
    <2> QED
      BY <1>1, <2>1 DEF FirstInOrder
  <1>3. CASE Finish
    <2>1. ~panicked /\ i \in Errors
      BY <1>3 DEF Finish
    <2>2. \A k \in Elements : Settled(k)
      BY <1>3, <2>1, AllSettled
    <2>3. CASE kind = "ordered"
      <3>1. out[j] = Failed
        BY <1>1, <2>2, <2>3 DEF Settled, Written
      <3> QED
        BY <1>1, <2>1, <2>3, <3>1 DEF Errors
    <2>4. CASE kind # "ordered"
      <3>1. i \in first
        BY <2>1, <2>4 DEF Errors
      <3>2. TypeOK /\ len \in Nat /\ 1 \in Workers /\ first \subseteq Nat
        BY BoundsAssumption, OneIsWorker DEF IInv, TypeOK, Elements
      <3>3. /\ work[1].hi = len /\ work[1].at = work[1].hi
            /\ \A k \in 0..work[1].at - 1 : outcome[k] = "fail" => \E l \in first : l <= k
            /\ \A k, l \in first : k = l
        BY <1>1, <1>3, <2>1, <2>4, <3>2 DEF Finish, InSequence, IsIdle
      <3>4. j \in 0..work[1].at - 1
        BY <1>1, <3>3 DEF Elements
      <3> QED
        BY <1>1, <3>1, <3>3, <3>4
    <2> QED
      BY <2>3, <2>4
  <1> QED
    BY <1>2, <1>3

-----------------------------------------------------------------------------

(* Every chunk a call makes, and every place a worker stands at, lies      *)
(* inside the output (chunk_planes(), par_chunks_mut()).                   *)
THEOREM Typing == Spec => []TypeOK
  <1>1. IInv => TypeOK
    BY DEF IInv
  <1> QED
    BY <1>1, Inductive, PTL

(* Two workers never hold the same output element: the planes and slices   *)
(* that for_cells() hands out are disjoint, for every length, thread count *)
(* and chunk size.                                                         *)
THEOREM NoSharing == Spec => []NoSharedElement
  <1>1. IInv => NoSharedElement
    BY DEF IInv
  <1> QED
    BY <1>1, Inductive, PTL

(* On one thread, and in the mappers that collect a result per element,    *)
(* the error reported is that of the first failing element in input order, *)
(* whatever the length (map_cells(), FirstError::take(), one_to_many()).   *)
THEOREM FirstError == Spec => []FirstInOrder
  <1>1. IInv /\ OrderInv /\ [Next]_vars => OrderInv'
    BY StepInSequence, StepFirstInOrder DEF OrderInv
  <1>2. OrderInv => FirstInOrder
    BY DEF OrderInv
  <1> QED
    BY <1>1, <1>2, InitOrder, Inductive, PTL DEF Spec

(* A call on any number of threads, in any schedule, gives an answer that  *)
(* the one-thread loop of the same mapper could give.                      *)
THEOREM Refinement == Spec => IsSequential
  <1>1. Init => result = Waiting
    BY DEF Init
  <1> QED
    BY <1>1, Inductive, StepAnswers, PTL DEF Spec, IsSequential, Abstract!Spec
=============================================================================
