------------------------------ MODULE FfiSlots ------------------------------
(***************************************************************************)
(* Cells and coverings cross into Arrow and back (arrow_ffi.rs, arrow.R)   *)
(* through C structs that Rust and Arrow fill and release.                 *)
(*                                                                         *)
(* A payload is the private memory behind one struct: array or schema, its *)
(* own release callback with it.  A struct that holds a payload is one     *)
(* whose release is set; NULL stands for one that is empty or taken over.  *)
(* A holder is the external pointer around an FfiSlots, collected by R     *)
(* once nothing refers to it.                                              *)
(*                                                                         *)
(* R runs one call at a time.  The R frame of a call refers to its holder; *)
(* an error raised in Rust jumps over the destructors that would let go of *)
(* the holder, which stays protected from then on.                         *)
(***************************************************************************)
EXTENDS CellVector, SequencesExt

CONSTANTS
  NULL,
  Holders,     \* external pointers, at most this many at a time
  Payloads,    \* addresses of payloads
  MaxTotal,    \* i32::MAX
  Vectors,     \* R vectors users have: a kind and elements
  Columns      \* columns Arrow has: a kind, chunks and what they mean

ASSUME SlotsAssumption ==
  /\ NULL \notin Payloads /\ MaxTotal \in Nat
  /\ \A c \in Columns : c.kind \in {"cells", "coverings"}
                      /\ c.chunks \in Seq({c.chunks[i] : i \in DOMAIN c.chunks})
  /\ \A v \in Vectors : v = [kind |-> v.kind, items |-> v.items]
                      /\ v.kind \in {"cells", "coverings"}

CellItems == Seq(Elements)

CoveringItems == Seq(Seq(Ids) \cup {NA})

Bitmaps == Seq(BOOLEAN)

Arrays(numbers) ==
  [length : Nat, nulls : Int, offset : Nat, values : Seq(numbers), validity : {NULL} \cup Bitmaps]

(* Any bytes are a cell, and any ids a covering.  Bad is no vector's       *)
(* elements, NULL no bitmap and no array.                                  *)
ASSUME ItemsAssumption ==
  /\ \A v \in Vectors : v.items \in IF v.kind = "cells" THEN CellItems ELSE CoveringItems
  /\ Bad \notin Seq(Ids \cup {NA}) \cup CoveringItems
  /\ NULL \notin Bitmaps \cup Arrays(Ids)

-----------------------------------------------------------------------------
(* Arrow's format: what is in an array, whoever made it.                   *)

(* Its buffers are long enough; a list of n elements has n + 1 offsets.    *)
IsArray(a, numbers, extra) ==
  /\ a \in Arrays(numbers) /\ a.offset + a.length + extra <= Len(a.values)
  /\ a.validity # NULL => a.offset + a.length <= Len(a.validity)

IsList(a, child) ==
  /\ IsArray(a, Nat, 1) /\ IsArray(child, Ids, 0)
  /\ \A j \in 1..a.length : a.values[a.offset + j] <= a.values[a.offset + j + 1]
  /\ \A j \in 1..a.length + 1 : a.values[a.offset + j] <= child.length

IsChunk(kind, chunk) ==
  /\ chunk = [array |-> chunk.array, child |-> chunk.child]
  /\ IF kind = "cells" THEN chunk.child = NULL /\ IsArray(chunk.array, Ids, 0)
     ELSE chunk.child # NULL /\ IsList(chunk.array, chunk.child)

(* A bitmap counts unless the array says that it has no nulls.             *)
IsNull(a, i) == a.validity # NULL /\ a.nulls # 0 /\ ~a.validity[a.offset + i]

(* The id that stands for NA is NA in Arrow as well.                       *)
CellMeant(a, i) ==
  LET id == a.values[a.offset + i]
  IN  IF IsNull(a, i) \/ id = NaSentinel THEN NA ELSE id

(* A covering with a missing cell is none.                                 *)
CoveringMeant(a, child, j) ==
  LET first == a.values[a.offset + j]
      count == a.values[a.offset + j + 1] - first
  IN  IF IsNull(a, j) THEN NA
      ELSE IF \E k \in 1..count : IsNull(child, first + k) THEN Bad
      ELSE [k \in 1..count |-> child.values[child.offset + first + k]]

ChunkMeans(kind, chunk) ==
  [j \in 1..chunk.array.length |->
     IF kind = "cells" THEN CellMeant(chunk.array, j)
     ELSE CoveringMeant(chunk.array, chunk.child, j)]

IsReadable(kind, chunk) == \A j \in 1..chunk.array.length : ChunkMeans(kind, chunk)[j] # Bad

ColumnMeans(kind, chunks) ==
  IF \A i \in DOMAIN chunks : IsReadable(kind, chunks[i])
  THEN FlattenSeq([i \in DOMAIN chunks |-> ChunkMeans(kind, chunks[i])])
  ELSE Bad

ASSUME ColumnsAssumption ==
  \A c \in Columns :
    /\ \A i \in DOMAIN c.chunks : IsChunk(c.kind, c.chunks[i])
    /\ c.means = ColumnMeans(c.kind, c.chunks)

-----------------------------------------------------------------------------

VARIABLES
  mem,      \* what each payload in use holds
  slots,    \* the structs of each holder: what <<i, "array">>, <<i, "schema">> hold
  status,   \* none, held by a call, garbage, or pinned by an error
  vec,      \* the R vector at hand
  column,   \* the Arrow column at hand
  call,     \* the conversion under way
  misused   \* a payload was released twice or read after its release

vars == <<mem, slots, status, vec, column, call, misused>>

Idle == [op |-> "idle"]

NoVector == [kind |-> "none", items |-> <<>>]

NoColumn == [kind |-> "none", means |-> <<>>, chunks |-> <<>>]

(* The structs of n slots.                                                 *)
Fields(n) == (1..n) \X {"array", "schema"}

EmptySlots(n) == [f \in Fields(n) |-> NULL]

-----------------------------------------------------------------------------
(* Arrays.  Offsets of a list array are its values; a validity bitmap is a *)
(* sequence of Booleans.                                                   *)

(* Fault: an element is looked up without the array's offset.              *)
IsValidUnshifted(a, i) == a.validity = NULL \/ a.nulls = 0 \/ a.validity[i]

(* is_valid().                                                             *)
IsValid(a, i) == a.validity = NULL \/ a.nulls = 0 \/ a.validity[a.offset + i]

(* u64_values().                                                           *)
Values(a) == SubSeq(a.values, a.offset + 1, a.offset + a.length)

(* export_array(), with validity_bitmap().                                 *)
Exported(values, valid) ==
  LET nulls == Cardinality({i \in DOMAIN valid : ~valid[i]})
  IN  [length |-> Len(valid), nulls |-> nulls, offset |-> 0, values |-> values,
       validity |-> IF nulls = 0 THEN NULL ELSE valid]

(* a5_cell_to_arrow_rs() and a5_covering_to_arrow_rs(): the array, and the *)
(* child of a list.                                                        *)
ToChunk(v) ==
  IF v.kind = "cells" THEN
    [array |-> Exported([i \in DOMAIN v.items |->
                           IF Get(v.items[i]) = NA THEN 0 ELSE Get(v.items[i])],
                        [i \in DOMAIN v.items |-> Get(v.items[i]) # NA]),
     child |-> NULL]
  ELSE
    LET lists == [i \in DOMAIN v.items |-> IF v.items[i] = NA THEN <<>> ELSE v.items[i]]
        all == FlattenSeq(lists)
        offsets == [i \in 1..Len(lists) + 1 |-> Len(FlattenSeq(SubSeq(lists, 1, i - 1)))]
    IN  [array |-> Exported(offsets, [i \in DOMAIN lists |-> v.items[i] # NA]),
         child |-> Exported(all, [k \in DOMAIN all |-> TRUE])]

Total(v) ==
  IF v.kind = "cells" THEN 0
  ELSE Len(FlattenSeq(SelectSeq(v.items, LAMBDA c : c # NA)))

(* The elements of a chunk of cells, as stored in R.                       *)
CellsOf(a) ==
  [i \in DOMAIN Values(a) |-> IF IsValid(a, i) THEN Encode(Values(a)[i]) ELSE Gap]

(* The places in the child of element j of a list.                         *)
Places(a, j) == a.values[a.offset + j] + 1..a.values[a.offset + j + 1]

(* The elements of a chunk of coverings; Bad if one holds a null cell.     *)
CoveringsOf(a, child) ==
  IF \E j \in 1..a.length : IsValid(a, j) /\ \E k \in Places(a, j) : ~IsValid(child, k)
  THEN Bad
  ELSE [j \in 1..a.length |->
          IF ~IsValid(a, j) THEN NA
          ELSE SubSeq(child.values, child.offset + a.values[a.offset + j] + 1,
                                    child.offset + a.values[a.offset + j + 1])]

(* What the elements of an R vector are: ids, or sequences of ids.         *)
Means(v) ==
  IF v.kind = "cells" THEN [i \in DOMAIN v.items |-> Get(v.items[i])] ELSE v.items

-----------------------------------------------------------------------------
(* Memory: what is put into it and what a release frees.                   *)

Format(kind) == IF kind = "cells" THEN <<"L">> ELSE <<"+l", "L">>

(* Where the parts of blocks go: each is one payload, or one and its child.*)
Spots(blocks) == {s \in (DOMAIN blocks) \X (1..2) : s[2] <= Len(blocks[s[1]])}

(* Addresses for them that are free; it does not matter which.             *)
Apart(at) == \A s, t \in DOMAIN at : at[s] = at[t] => s = t

Addresses(blocks) == [Spots(blocks) -> Payloads \ DOMAIN mem]

HasRoom(blocks) == \E at \in Addresses(blocks) : Apart(at)

Fresh(blocks) == CHOOSE at \in Addresses(blocks) : Apart(at)

Stored(blocks, at) ==
  [p \in DOMAIN mem \cup {at[s] : s \in Spots(blocks)} |->
     IF p \in DOMAIN mem THEN mem[p]
     ELSE LET s == CHOOSE t \in Spots(blocks) : at[t] = p
          IN  [data |-> blocks[s[1]][s[2]],
               child |-> IF s[2] < Len(blocks[s[1]]) THEN at[<<s[1], 2>>] ELSE NULL]]

Parts(chunk) == IF chunk.child = NULL THEN <<chunk.array>> ELSE <<chunk.array, chunk.child>>

(* An array struct and a schema struct, and what a slot then holds.        *)
Exports(chunk, kind) == <<Parts(chunk), Format(kind)>>

Holds(field, at) == at[<<IF field[2] = "array" THEN 1 ELSE 2, 1>>]

(* Fault: a list's child is left alone.                                    *)
GroupAlone(ps) == ps \ {NULL}

(* release_array(), release_schema(): with the payload goes its child.     *)
Group(ps) == (ps \ {NULL}) \cup ({mem[p].child : p \in ps \cap DOMAIN mem} \ {NULL})

IsLive(ps) == Group(ps) \subseteq DOMAIN mem

Release(ps) ==
  /\ mem' = [p \in DOMAIN mem \ Group(ps) |-> mem[p]]
  /\ misused' = (misused \/ ~IsLive(ps))

Structs(h) == {slots[h][f] : f \in DOMAIN slots[h]}

ChunkAt(p) ==
  [array |-> mem[p].data,
   child |-> IF mem[p].child = NULL THEN NULL ELSE mem[mem[p].child].data]

(* The frame of the call ends: R no longer refers to its holder.           *)
EndsWith(h, s) == status' = [status EXCEPT ![h] = s] /\ call' = Idle

-----------------------------------------------------------------------------

Init ==
  /\ mem = <<>>
  /\ slots = [h \in Holders |-> <<>>]
  /\ status = [h \in Holders |-> "none"]
  /\ vec = NoVector /\ column = NoColumn /\ call = Idle /\ misused = FALSE

(* The user makes a vector, or Arrow a column, or lets go of it.  To bound *)
(* what is at hand, each starts from nothing else.                         *)
NewVector ==
  /\ call = Idle /\ vec = NoVector /\ column = NoColumn
  /\ vec' \in Vectors
  /\ UNCHANGED <<mem, slots, status, column, call, misused>>

(* length<-, or an assignment past the end: vctrs fills the gap.           *)
Grow ==
  /\ call = Idle /\ vec.kind = "cells" /\ Len(vec.items) = 1
  /\ vec' = [vec EXCEPT !.items = Append(@, Gap)]
  /\ UNCHANGED <<mem, slots, status, column, call, misused>>

DropVector ==
  /\ call = Idle /\ vec # NoVector
  /\ vec' = NoVector
  /\ UNCHANGED <<mem, slots, status, column, call, misused>>

NewColumn ==
  /\ call = Idle /\ column = NoColumn /\ vec = NoVector
  /\ \E c \in Columns :
       LET blocks == [i \in DOMAIN c.chunks |-> Parts(c.chunks[i])]
       IN  /\ HasRoom(blocks)
           /\ \E at \in {Fresh(blocks)} :
                /\ mem' = Stored(blocks, at)
                /\ column' = [kind |-> c.kind, means |-> c.means,
                              chunks |-> [i \in DOMAIN c.chunks |-> at[<<i, 1>>]]]
  /\ UNCHANGED <<slots, status, vec, call, misused>>

DropColumn ==
  /\ call = Idle /\ column # NoColumn
  /\ column' = NoColumn
  /\ Release(ToSet(column.chunks))
  /\ UNCHANGED <<slots, status, vec, call>>

(* a5_cell_to_arrow(), a5_covering_to_arrow(): the call into Rust.  More   *)
(* cells than the offsets of a list can count (MaxTotal) are an error      *)
(* before any struct is made: a call that changes nothing, and no step.    *)
ToArrow(h) ==
  /\ call = Idle /\ vec # NoVector /\ column = NoColumn /\ status[h] = "none"
  /\ Total(vec) <= MaxTotal
  /\ LET blocks == Exports(ToChunk(vec), vec.kind)
     IN  /\ HasRoom(blocks)
         /\ \E at \in {Fresh(blocks)} :
              /\ mem' = Stored(blocks, at)
              /\ slots' = [slots EXCEPT ![h] = [f \in Fields(1) |-> Holds(f, at)]]
  /\ status' = [status EXCEPT ![h] = "held"]
  /\ call' = [op |-> "import", holder |-> h]
  /\ UNCHANGED <<vec, column, misused>>

(* import_from_c(): Arrow moves the array out and releases the schema.     *)
Import(h) ==
  /\ call = [op |-> "import", holder |-> h]
  /\ column' = [kind |-> vec.kind, means |-> Means(vec), chunks |-> <<slots[h][<<1, "array">>]>>]
  /\ Release({slots[h][<<1, "schema">>]})
  /\ slots' = [slots EXCEPT ![h] = EmptySlots(1)]
  /\ EndsWith(h, "garbage")
  /\ UNCHANGED vec

(* It fails, and has released what it got to.                              *)
ImportFails(h) ==
  /\ call = [op |-> "import", holder |-> h]
  /\ \E taken \in SUBSET Fields(1) :
       /\ Release({slots[h][f] : f \in taken})
       /\ slots' = [slots EXCEPT ![h] =
                      [f \in Fields(1) |-> IF f \in taken THEN NULL ELSE slots[h][f]]]
  /\ EndsWith(h, "garbage")
  /\ UNCHANGED <<vec, column>>

(* arrow_slots(): empty slots, one per chunk, then every chunk exported.   *)
NewSlots(h) ==
  /\ call = Idle /\ vec = NoVector /\ column # NoColumn /\ status[h] = "none"
  /\ slots' = [slots EXCEPT ![h] = EmptySlots(Len(column.chunks))]
  /\ status' = [status EXCEPT ![h] = "held"]
  /\ call' = [op |-> "export", holder |-> h, next |-> 1]
  /\ UNCHANGED <<mem, vec, column, misused>>

Export(h) ==
  /\ call.op = "export" /\ call.holder = h /\ call.next <= Len(column.chunks)
  /\ LET blocks == Exports(ChunkAt(column.chunks[call.next]), column.kind)
     IN  /\ HasRoom(blocks)
         /\ \E at \in {Fresh(blocks)} :
              /\ mem' = Stored(blocks, at)
              /\ slots' = [slots EXCEPT ![h] =
                             [f \in DOMAIN slots[h] |->
                                IF f[1] = call.next THEN Holds(f, at) ELSE slots[h][f]]]
  /\ call' = [call EXCEPT !.next = @ + 1]
  /\ UNCHANGED <<status, vec, column, misused>>

ExportFails(h) ==
  /\ call.op = "export" /\ call.holder = h /\ call.next <= Len(column.chunks)
  /\ EndsWith(h, "garbage")
  /\ UNCHANGED <<mem, slots, vec, column, misused>>

(* The call into Rust, with all slots in R's hands.                        *)
BeginRead(h) ==
  /\ call.op = "export" /\ call.holder = h /\ call.next > Len(column.chunks)
  /\ call' = [op |-> "read", holder |-> h, next |-> 1, items |-> <<>>]
  /\ UNCHANGED <<mem, slots, status, vec, column, misused>>

(* filled_slot(), and the format of the child.                             *)
IsFilled(array, schema) ==
  /\ array # NULL /\ schema # NULL
  /\ mem[schema].data = Head(Format(column.kind))
  /\ column.kind = "coverings" =>
       /\ mem[schema].child # NULL
       /\ mem[mem[schema].child].data = "L"

ItemsOf(chunk) ==
  IF column.kind = "cells" THEN CellsOf(chunk.array) ELSE CoveringsOf(chunk.array, chunk.child)

(* The elements of one slot.  Building coverings allocates, so R may       *)
(* collect garbage between two of them.                                    *)
Read(h) ==
  /\ call.op = "read" /\ call.holder = h /\ <<call.next, "array">> \in DOMAIN slots[h]
  /\ LET array == slots[h][<<call.next, "array">>]
         schema == slots[h][<<call.next, "schema">>]
     IN  /\ misused' = (misused \/ ~IsLive({array, schema}))
         /\ IF ~misused' /\ IsFilled(array, schema) /\ ItemsOf(ChunkAt(array)) # Bad
            THEN /\ call' = [call EXCEPT !.next = @ + 1,
                                         !.items = @ \o ItemsOf(ChunkAt(array))]
                 /\ UNCHANGED status
            ELSE EndsWith(h, "pinned")
  /\ UNCHANGED <<mem, slots, vec, column>>

(* Fault: what was read is left to the collector, and so is R's memory.    *)
KeptSlots(h) == slots[h]

(* mem::replace(): nothing is left for the collector.                      *)
LeftSlots(h) == <<>>

(* The slots are released at once, before R sees the result.               *)
EndRead(h) ==
  /\ call.op = "read" /\ call.holder = h /\ <<call.next, "array">> \notin DOMAIN slots[h]
  /\ Release(Structs(h))
  /\ slots' = [slots EXCEPT ![h] = LeftSlots(h)]
  /\ vec' = [kind |-> column.kind, items |-> call.items]
  /\ EndsWith(h, "garbage")
  /\ UNCHANGED column

(* Fault: the finalizer leaves the structs to Arrow.                       *)
DropNothing(h) == UNCHANGED <<mem, slots, misused>>

(* FfiSlots::drop(): what is still unreleased is released.                 *)
Drop(h) ==
  /\ Release(Structs(h))
  /\ slots' = [slots EXCEPT ![h] = <<>>]

(* R collects the external pointer.                                        *)
Collect(h) ==
  /\ status[h] = "garbage"
  /\ Drop(h)
  /\ status' = [status EXCEPT ![h] = "none"]
  /\ UNCHANGED <<vec, column, call>>

(* The steps of the call under way.                                        *)
Continue(h) ==
  \/ Import(h) \/ ImportFails(h)
  \/ Export(h) \/ ExportFails(h)
  \/ BeginRead(h) \/ Read(h) \/ EndRead(h)

Next ==
  \/ NewVector \/ Grow \/ DropVector \/ NewColumn \/ DropColumn
  \/ \E h \in Holders : ToArrow(h) \/ NewSlots(h) \/ Continue(h) \/ Collect(h)

(* A call goes on to its end, and R collects garbage again and again.      *)
Fairness == \A h \in Holders : WF_vars(Continue(h)) /\ WF_vars(Collect(h))

Spec == Init /\ [][Next]_vars /\ Fairness

-----------------------------------------------------------------------------
(* A state is well formed: memory, holders, and the call under way fit     *)
(* together (the structs that arrow_ffi.rs fills and the R frames above).  *)
TypeOK ==
  /\ DOMAIN mem \subseteq Payloads
  /\ \A p \in DOMAIN mem : mem[p].child \in Payloads \cup {NULL}
  /\ \A h \in Holders :
       /\ status[h] \in {"none", "held", "garbage", "pinned"}
       /\ Structs(h) \subseteq Payloads \cup {NULL}
       /\ status[h] = "none" => slots[h] = <<>>
       /\ status[h] = "held" <=> call # Idle /\ call.holder = h
  /\ vec.kind \in {"none", "cells", "coverings"}
  /\ \A i \in DOMAIN column.chunks : column.chunks[i] \in Payloads
  /\ call.op \in {"idle", "import", "export", "read"}
  /\ misused \in BOOLEAN

(* No memory is released twice and none is read after its release, by      *)
(* the explicit release at the end of a read, by Arrow's own releases or   *)
(* by the finalizer of the holder, in whatever order they come.            *)
ReleasedOnce == ~misused

(* Where the structs are that would release p.                             *)
Owners(p) ==
  {o \in UNION {{h} \X (DOMAIN slots[h]) : h \in Holders} : slots[o[1]][o[2]] = p}
  \cup {<<"chunk", i>> : i \in {k \in DOMAIN column.chunks : column.chunks[k] = p}}
  \cup {<<"child of", q>> : q \in {r \in DOMAIN mem : mem[r].child = p}}

(* Every piece of memory in use has exactly one struct, holder or column   *)
(* to release it, and nothing else refers to it: a failed conversion leaks *)
(* nothing that its holder does not still own, and shares nothing with     *)
(* what the collector still has to release.  A holder that an error left   *)
(* pinned owns its memory for good: that leak Reclaimed is about.          *)
OwnedOnce ==
  \A p \in Payloads : Cardinality(Owners(p)) = IF p \in DOMAIN mem THEN 1 ELSE 0

(* A column read into R means what the column meant: element by element    *)
(* over all chunks, whatever their offsets, validity bitmaps and null      *)
(* counts, with missing elements as NA; so does a vector that went into    *)
(* Arrow and came back.  A covering with a null cell gives no vector.      *)
ReadExact ==
  [][call.op = "read" /\ vec' # NoVector =>
       /\ column.means # Bad
       /\ Means(vec') = column.means]_vars

(* The vector's functions agree about each stored element and each pair    *)
(* of them: only what fills a gap is NA, every other element is an id that *)
(* text and the C API carry unchanged, elements are equal when their       *)
(* proxies are, and the proxies order them by their ids.                   *)
ViewsAgree ==
  vec.kind = "cells" =>
    /\ \A e \in ToSet(vec.items) :
         /\ IsNa(e) <=> e = Gap
         /\ ToHex(e) = NA <=> e = Gap
         /\ Put(Get(e)) = e
         /\ FromHex(ToHex(e)) = e
         /\ FromU64(ToU64(e).id, ToU64(e).na) = e
    /\ \A a, b \in ToSet(vec.items) \ {Gap} :
         LET before == \/ Proxy(a)[1] < Proxy(b)[1]
                       \/ Proxy(a)[1] = Proxy(b)[1] /\ Proxy(a)[2] < Proxy(b)[2]
         IN  /\ Equal(a, b) = (a = b) /\ Equal(a, b) = (Proxy(a) = Proxy(b))
             /\ Get(a) < Get(b) <=> before

(* Structs handed to a call are released in the end, unless an error in    *)
(* Rust left their holder protected.                                       *)
Reclaimed ==
  \A h \in Holders : status[h] = "held" ~> (status[h] = "pinned" \/ slots[h] = <<>>)
=============================================================================
