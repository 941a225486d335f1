# a5R in TLA+

a5R is an R package that binds the `a5` Rust crate, a pentagonal discrete
global grid: the sphere is cut into 12 pentagons, each into 5 quintants, and
each quintant into 4, 16, 64, ... cells down to resolution 30. This directory
holds TLA+ modules that model the package, the TLC configurations that check
them on small instances, and theorems that TLAPS proves for every instance.

Paths below are relative to the repository: the Rust half is
`src/rust/src/*.rs`, the R half `R/*.R`, the C API `src/api.c`. The `a5` crate
itself is a dependency (`src/rust/vendor.tar.xz`); where its behaviour matters
it is modelled from how this package uses it and marked external.

## The system: components, state, operations

| Component | State it keeps | Operations | What is hard, and what must hold |
|---|---|---|---|
| Thread count and pool (`threading.rs`, `threads.R`, `zzz.R`) | `NUM_THREADS`, `POOL`, `POOL_PID`; the saved counts of open `with()` blocks | `.onLoad`, `a5_threads(n)`, `with(a5_threads(n), expr)`, every parallel call, and from outside `fork()`, panics, failed pool builds | fork copies the pool and not its workers; errors leave blocks in any order. No call waits on missing workers, no other process's workers are signalled, the reported count is the real one, blocks restore the count |
| Parallel maps (`cell_raw.rs`, `indexing.rs`, `hierarchy.rs`, `distance.rs`) | output planes written by chunk, `FirstError` | `cells_from_fn`, `map_cells`, `one_to_many`, `a5_cell_to_lonlat_rs` | chunks finish in any order, several elements fail. The result is the sequential one whatever the schedule and the chunk size, and an error is reported exactly when an element fails |
| Cell vectors (`cell_raw.rs`, `cell.R`, `cell-base.R`, `src/api.c`) | eight byte planes, `b8` stored XOR 0xFC | encode, get, `is.na`, `==`, proxies, hex, `[<-`, `length<-`, C import and export | the NA pattern must be what vctrs fills gaps with, and must not swallow a real cell |
| Cell index and hierarchy (`hierarchy.rs`, `hierarchy.R`) | none: a cell is an id whose bits give resolution and curve position | parent, children, child, children range, supercells, descendants | resolutions 0, 1, 29 and 30 are encoded differently, and quintants 42 to 59 have no resolution-30 ids |
| Coverings (`covering.rs`, `covering.R`, `covering-ops.R`, `compact.R`, `validity.R`) | raw vectors of sorted, compacted cells with a trailing resolution marker | build, normalise, compact, uncompact, union, intersection, difference, overlaps, contains, area | long sequences of set operations; cells coarser than the resolution; empty, world and marker-only coverings. Every operation leaves a canonical covering of the set it promises |
| Supercell search (`hierarchy.rs` `covering_supercells`) | frontier, seen set, budget | `a5_covering_to_supercells` | few cells are looked up one by one, many are searched for over neighbours: both must give the same supercells, and the search must end |
| Regions (`regions.rs`, `regions.R`) | parts, rings, per-feature unions | polygon, line, rct to cells | parts of one feature are computed apart and merged back: holes stay with their part, results and errors come in the order of the input |
| Ring check (`ring_check.rs`) | active edge list of a sweep | `ring_crosses_itself`, `find_first` | the sweep must find the crossing all-pairs tests would find, and the first ring that crosses itself is the one reported |
| Bounding boxes (`bbox.rs`) | longitude arcs on a circle | `ring_bounds`, `union_arcs` | wrap-around: the box must hold every arc and be the smallest that does |
| Arrow exchange (`arrow_ffi.rs`, `arrow.R`) | heap slots holding FFI structs with release callbacks | export, import, read, finalizer | release exactly once on every path, error paths and garbage collection included; slices, offsets and null bitmaps read as they are meant |
| Index migration (`cell_info.rs`) | none | `a5_migrate` | ids of the earlier index must be migrated exactly once |
| Geometry and printing (`boundary.rs`, `distance.rs`, `wk.R`, `format` methods) | none | boundaries, distances, areas | floating-point, not modelled |

The R thread is the only one that changes package state. Concurrency enters
through rayon workers inside one call (parallel maps), through `fork()`
(thread pool), and through R's garbage collector (Arrow slots). Components meet
through plain calls: every vectorised function goes through `maybe_par()`, so
the parallel maps run on the thread pool's route decision; coverings are built
from cell vectors and hierarchy operations; Arrow import normalises into
coverings.

## The modules

| Module | Models | Kind |
|---|---|---|
| `ThreadPool` | `threading.rs`, `threads.R`, `zzz.R` | state machine |
| `ThreadPoolProofs` | | TLAPS proofs about it |
| `ParallelMap` | the mappers of `cell_raw.rs` and `indexing.rs` | state machine |
| `SequentialMap` | what a mapper promises | abstract specification of `ParallelMap` |
| `ParallelMapProofs` | | TLAPS proofs, the refinement among them |
| `CellTree` | the values of a covering and the `a5` crate's operations on them | constant module, mostly external |
| `CellTreeProofs` | | lemmas about blocks, compaction and sequences of cells |
| `Covering` | `covering.rs`, `covering.R`, `covering-ops.R`, `compact.R` | state machine |
| `CellSets` | what a session with coverings promises | abstract specification of `Covering` |
| `CoveringProofs` | | TLAPS proofs, over `CellTreeProofs` |
| `LonArcs` | `bbox.rs`, longitudes | state machine |
| `LonArcsProofs` | | TLAPS proofs about it |
| `CellVector` | how elements are stored and read (`cell_raw.rs`, `api.c`) | constant module |
| `FfiSlots` | `arrow_ffi.rs`, `arrow.R`, over `CellVector` | state machine |
| `FfiSlotsProofs` | | TLAPS proofs about it |
| `Supercells` | `hierarchy.rs`: descendants and `covering_supercells`, over `CellTree` | state machine |
| `SupercellsProofs` | | TLAPS proofs, over `CellTreeProofs` |
| `RingSweep` | the sweep of `ring_check.rs` | constant module |
| `Regions` | `regions.rs`, `regions.R`, and the sweeps of all rings, over `RingSweep` | state machine |
| `RegionsProofs` | | TLAPS proofs about both |
| `MC...` | | the finite instances TLC checks |

### ThreadPool

The three statics are `num`, `pool` and `poolPid`, one value per process; what
a process is doing is `pc`, and `threads` is what exists and no variable of the
code says: how many workers run in the process. `frames` is the stack of
counts saved by open `with()` blocks. Actions are R-level calls
(`SetThreads`, `EnterWith`, `ExitWith` and their failing variants), the route
of a parallel call (`Call`, then `Return` or `Panic`), the unwinding of an
error, and `Fork` and `Exit`. `set_num_threads()` is one step, because a
process runs one R thread and forks only at the R level.

A pool that cannot be built fails the call: at load (`OnLoadFails`) the error
leaves the package unloaded, and R may try again; in `with()` the restore leaves
the count of the block in force (`ExitWithFails`).

`base`, `unrestored` and `signalled` are history variables for the properties:
the count that an outermost block found or that was set since outside every
block, the processes whose last outermost block could not restore it, and whose
workers were told to end. `base` is set where a block is entered or a count set,
never where one is left, so that what a block leaves behind is compared with
what was there before.

### ParallelMap and SequentialMap

`kind` selects the mapper: `cells_from_fn()` over elements or planes,
`map_cells()`/`one_to_many()` over elements in order, and the two chunked
mappers. A call chooses its route, splits the output into chunks one at a time,
and workers take chunks and write elements in any order. A chunk is its slices
(`lo`, `at`, `hi`) and its tag, what the code hands over beside them: the start
that `chunk_planes()` adds up by hand, or the number from `enumerate()`. Where
the slices lie is the standard library's doing (`NextOffset`); which input
element is written through them depends on the tag, so a wrong tag shows as a
wrong answer in `IsSequential`. An element succeeds,
is missing, fails or panics (`outcome`, chosen at the start). `SequentialMap`
has one step: the answer the sequential loop could give, where any one of the
failing elements may be the one reported by the mappers that keep only one
error. The refinement mapping is the identity on `outcome`, the kind of call and
`result`.

### Covering, CellTree and CellSets

The session holds two coverings `x` and `y` and one cell vector on its way
between two calls, `cells`. `answer` is the last call, the resolution it was
given, and whether it raised an error. Each exported operation is an action;
the helper operators carry the names of the Rust functions. The crate's
compaction, set operations and expansions are in `CellTree`, by what they
compute: slots of the curve in, the coarsest cells that fill them out.
`a5_overlaps()` is an action too, as it leaves an answer (`AskOverlaps`).
`a5_contains()`, `a5_count()` and the size estimate of `a5_uncompact()` are operators that invariants evaluate in every reachable state
against every cell and resolution.

`CellSets` is a session on plain sets: a covering is a resolution and a set of
slots. `StepsOnSets` says that each call of `Covering` is a step of `CellSets`,
with `x <- Region(x)` and `y <- Region(y)`: errors are raised in the same
places, `a5_overlaps()` answers whether the sets meet, and nothing about order, compaction or markers shows. Left open are
expansions to places without ids and expansions of the world (`Expandable`),
which do otherwise (findings 2 and 3).

A value in a cell vector is a cell or NA. `a5_cell()` accepts other ids too,
which `a5_is_valid_cell()` is there to find; they are left out. Raw values may
be anything.

### LonArcs

`AddRing` is one outer ring of a feature: `ring_bounds()` unwraps the
longitudes of its vertices and yields an arc, or finds that it winds round a
pole. `BeginUnion`, `MergeNext`, `Merged`, `ScanGap` and `Close` are the loops
of `union_arcs()`. The arcs are a set: equal arcs merge into one, and the order
of arcs with equal starts is free, as sorting leaves it to the input. Longitudes
are integers, vertices at even ones, so that an odd longitude stands for the
open stretch between two possible vertices. `given` and `swept` are history.

### CellVector and FfiSlots

A stored element is two parts, the low bits of its id and the top byte XORed
with the mask; the operators are the package's readers and writers of it, in
Rust and in C. `FfiSlots` has the R session's vector (`vec`) and Arrow's column
(`column`) on the two sides of the exchange, and between them `slots`: for each
external pointer (`Holders`) the array and schema structs behind it. A struct
whose `release` is set is the address of a payload, the private memory that the
release frees (`mem`); a list's payload has a child. `status` says who refers to
a holder: a call, nobody (`garbage`), or an error that jumped over the code that
would let go (`pinned`: `throw_r_error()` leaves by `longjmp`, so the
`ExternalPtr` in its frame is never dropped and stays protected; what it holds
is a leak, and the model keeps it as one).

`ToArrow` is the call into Rust, `Import` and `ImportFails` what Arrow does
then: it moves the array struct out and releases the schema, or fails having
taken any of the two. `NewSlots`, `Export` per chunk, `BeginRead`, `Read` per
slot and `EndRead` are the way back. R runs one call at a time, but its
collector may run at any allocation: `Collect` is enabled between any two of
these steps. `Release` records in `misused` whether memory was released that
was already free. What arrays mean is written down apart from how they are
read: `CellsOf` and `CoveringsOf` read them as the code does, with its slices
and shortcuts, and `ColumnMeans` goes by Arrow's columnar format, element by
element. Every column Arrow makes comes with what it means (`means`), which
`ReadExact` compares with what R gets; `ColumnsAssumption` says that arrays are
well formed (buffers as long as offset and length say, the offsets of a list in
order) and that `means` is what the format says. An instance gives `means` in
full, so that TLC checks the format's definition as well.

### Supercells

One call of `a5_covering_to_supercells()` on one covering: the shortcuts
(`Trivial`), the few-cells path (`Direct`), and the search (`Seed`, `Round`
until the frontier is empty, `Finish`). A round is one step, since the parallel
map over the frontier has no effect but its result. Where the centres of fine
cells lie (`Super`), which cells have their centre in a coarse one (`Subcells`)
and which cells touch (`Neighbours`) are constants. What is assumed of them is
named: `SuperAssumption` (a cell's centre lies in or next to the coarse cell it
is under), `NeighboursAssumption` (touching is mutual), `CurveAssumption` (along
the curve supercells are the same or touch, the argument in the comment at
`hierarchy.rs:285-295`; from one quintant or origin to the next this is asked of
one pair of cells only) and `SubcellsAssumption`. `Subcells` follows the crate
at the finest resolution: a coarse cell that reaches an origin some of whose
quintants have no ids gets subcells one resolution coarser (`SubResolution`).
`Nth`, `Count` and `LastOf` are `Descendants`, with `ChildAt` and `InRange` for
the two exported functions on it; they are checked for every stored cell.

### RingSweep and Regions

`RingSweep` has the sweep as an operator on its state: edges to come, active
edges, whether a crossing was found. `sort_unstable_by` leaves equal starts in
any order, so any least edge may be next. The arc arithmetic is given by
constants, of which `BoxAssumption` says that arcs that cross have overlapping
boxes. `Regions` is one call from flat input to result: `Sweep` on any ring by
any thread, `Refuse` when `find_first()` has its answer and R raises the error,
`Accept`, `Fill` of any part by any thread, `Merge` in order. Lines are not
checked and take the same way. A ring is its points and the set of cells it
holds (of a constant set, as are the cells of a line); how the crate fills it is geometry, that holes belong to parts and parts
to features is this package's. At resolution 30 the crate fills a part that
reaches quintants without ids at resolution 29 (`coarse`), and its `union()`
takes one resolution only: `Clashes` is the part at which a feature's union
fails. On one thread the code stops at the first ring
that crosses; that is one of the schedules.

## The runs

| Run | Question | Result |
|---|---|---|
| `threads` | Is the thread state right in every tree of forks and every nesting of blocks and errors? | holds |
| `threads_pid_reuse` | And if a PID comes back while a descendant still holds the pool? | a call is stranded |
| `parallel_map` | Is every answer a sequential one, in every schedule? Does it come? | holds |
| `covering` | Is a session on coverings a session on sets of cells, and every covering canonical? | holds, but for the expansions of findings 2 and 3 |
| `covering_marker` | Also for values whose marker is coarser than a cell? | an invalid covering |
| `uncompact_guard` | Does the size limit of `a5_uncompact()` hold for the world? | exceeded |
| `uncompact_duplicates` | Does uncompacting give each cell once at the finest resolution? | repeated cells |
| `lon_arcs` | Is the box the smallest that holds the rings, if no part laps another? | holds |
| `lon_arcs_lapping` | And if one does? | the box misses some of a part |
| `ffi_slots` | Is every piece of memory released once, whatever fails and whenever R collects? Do vectors mean what columns mean? | holds |
| `supercells` | Does the search give what looking up each cell would, and end? Are descendants counted out right? | holds, where subcells come at the covering's resolution |
| `regions` | Does the sweep find every crossing? Is the first ring named? Are parts and lines merged right in every schedule? | holds |

Bounds, and why they are enough:

- `threads`: three processes (a session, a child, a grandchild), three PIDs, at
  most two threads, blocks nested two deep in the session. A stranded call needs
  a builder and a process that inherited its pool; PID reuse needs a third.
  Two threads is the least pool there is. The initial PID of the session is
  fixed, since PIDs are only compared.
- `parallel_map`: up to four elements and three threads, `PAR_MIN` 2 and chunks
  from one element up, which gives inputs below and above `PAR_MIN`, short last
  chunks, and more chunks than workers.
- `covering`: two origins of three quintants, two children per cell and
  resolutions up to 2: twelve slots. Two quintants have ids at the finest
  resolution and four have not, so that coverings lie within, across and beyond
  the places without; an origin has three children where the size estimate
  counts three and a cell two, so that 5 and 4 are told apart, and the limit of
  5 cells lies between right and wrong estimates. Sessions are as long as they
  like. Inputs are one or two cells (out of order, nested, equal, missing) and
  raw values of one or two (markers anywhere). A cell vector or `y` must be used
  up before the next is given; `Drop` discards `y`. That is a bound on how many
  values are alive, not on what they can be. Left out are raw values whose
  trailing marker is coarser than a cell before it; `covering_marker` puts them
  back. `uncompact_guard` has three origins of two quintants, all with ids: the
  world has three children, and the estimate counts two.
- `lon_arcs`: a turn of twelve longitudes, arcs of every even start and width
  from nothing to more than a turn, edges of up to half a turn, rings round a
  pole both ways, up to three distinct arcs per feature: enough for one arc
  between two others, and for a largest gap in every place.

- `ffi_slots`: ids of three bits, a top byte of four values of which the mask
  leaves two apart, so that two ids share the top byte of NA and all eight are
  stored in one vector. Two holders, so that one is collected while another is
  in use, and six payloads: a column of two chunks, or a list with its child,
  beside a full set of structs. Columns: a slice with a bitmap and an unknown
  null count, a bitmap overridden by a null count of 0, two chunks, no chunk, a
  list sliced in both arrays, a null cell in a covering. A vector and a column
  are at hand together only during an exchange. `MaxTotal` is 3, below one of the
  vectors.
- `supercells`: a torus of six quintants, each a 4 by 4 square that the curve
  fills as Hilbert's does, coarser cells moved against finer ones so that
  centres leave their parents; three resolutions above the finest, so gaps of
  one to three; one quintant without finest ids. Coverings of one cell of any
  resolution, of all pairs (of the finest cells one in seven), and three of
  many cells; a budget of 2^gap and at least 3, so that both ways are taken. Cells of
  resolution 0 and the world are among the coverings, so the search also crosses
  from quintant to quintant and from origin to origin.
- `regions`: rings of up to five points on a grid of three by three, which give
  crossings, touching and repeated points, collinear edges and equal starts, and
  a few calls with three parts and four features for grouping, with crossing
  rings and failing parts in several places, and with any of three parts of one
  or two features coarser. Two axes; a third adds one more
  conjunct to the test of boxes and nothing to the sweep.

Deadlock checking is off where the modelled system comes to rest: every process
has exited, a call has answered, a feature is done, a search or a conversion of regions has answered, or (coverings) the bounds on
what is alive leave no call.

## Fairness

`ThreadPool`: weak fairness of `Return or Panic` and of `Caught` per process. A
call whose workers exist ends, as element functions are finite and rayon
schedules every job; R carries a raised error to its handler. Nothing is assumed
of the user: calls, forks and exits need never happen. `Return` is enabled on
the pool only if workers serve the process, so a stranded call is a
counterexample to `CallsEnd` and not excluded by fairness.

`ParallelMap`: weak fairness of `Next`: some worker that can take a step
eventually does. No worker is guaranteed a turn.

`FfiSlots`: weak fairness of the steps of a call, as code runs on to its end,
and of `Collect` for each holder, as R collects garbage again and again. Nothing
is assumed of the user or of Arrow's choice between success and failure. No step
frees a holder that an error left protected, which `Reclaimed` excludes by name.

`Supercells`: weak fairness of `Next`: the call runs. `Returns` then says that
the search runs out of candidates, which is what the set of candidates met is for.

`Covering`, `LonArcs` and `Regions` have no liveness properties: every operation is a
terminating call of the R thread.

## What is proved

For every number of processes, threads, PIDs and nested blocks
(`ThreadPoolProofs`, assuming `PidReuse = FALSE`): `Typing`, `NoStrandedCall`,
`NoForeignSignal`, `HonestCount`, `BalancedBlocks`. The inductive invariant adds
to the type invariant that live processes have distinct PIDs, that a process
which is not running holds nothing, and for every live process `Served` (if
`POOL_PID` is its PID then the pool it holds is its own and all its workers
run; otherwise no worker runs), `Called` (a call waits in `install()` only in
the pool's own process) and `Saved` (the outermost saved count is the one in
force outside, and outside every block that count is back: `Restored`).
`BalancedBlocks` exempts one case, openly: the outermost block's own restore
needs a pool and cannot build it. Everything else is covered, failed restores of
inner blocks and errors in any place included, since an outer restore makes good
what an inner one could not. None of the properties is inductive alone: that no call is
stranded needs `Served`, and `Served` survives `fork()` because the child's PID
is distinct from that of the pool's builder, which is what `PidReuse = FALSE`
says. The violation run shows that the assumption is needed.

For every length, thread count, chunk size and schedule
(`ParallelMapProofs`): `Typing`, `NoSharing`, `FirstError` and `Refinement`
(`Spec => IsSequential`). The inductive invariant says where every element is:
before the split nothing is written; while splitting, the chunks made cover
exactly the elements before `offset`; while mapping, an element is either
`Settled` (its value in place, its error not lost) or `Pending` (in a chunk not
taken, or with a worker), unless a panic was recorded; a chunk's number agrees
with its place (`Numbered`), which is what makes the input index of the chunked
mappers right; recorded errors and panics are real. `Finish` requires that
nothing is pending, so everything is settled and the answer is a sequential one;
for the mappers that promise it, an error is then the first one in input order.

For any points, arcs, calls and schedule (`RegionsProofs`): `SweepIsExact`,
`FirstRingIsNamed`, `Typing`, `CoveringsExact` and `PathsInOrder`. From
`BoxAssumption` (arcs that cross have boxes that overlap, and no vertex in
common), `RingsAssumption` and `CallsAssumption` (rings are sequences of points,
lines calls have no rings, every part has a feature), and `ResultsAssumption`
(no failure is mistaken for cells).
The inductive invariant of a sweep, `SweepInv`, says that edges swept start
before those to come, that those of them no longer active also end before any to
come starts, and that no two edges swept cross. The second part is what makes
dropping edges sound, and it needs the first: an edge dropped ends before the
present one starts, and so before all later ones, only because edges come in
the order of their starts. What the sweep is given, a ring without repeated
points, is shown to be points of the ring. `PhaseInv` says what each phase of
the call has established; with it the answer of `find_first()` is the first
crossing ring. `AnswerInv` adds that a result, once there, is its own part's, and
that an answer is what the merge of them gives. The merge is a fold over the
parts: it is unfolded into the chain of its intermediate values, along which the
union of a feature's parts and the first occurrences on a path are carried.

For any curve, centres and neighbourhood (`SupercellsProofs`):
`SearchForgetsNothing`, `Typing`, `Descends` and `Exact`. The invariant of the
search adds that what was kept was met and that the frontier is met and not
kept. When the frontier is empty it says that the result is closed: every
neighbour of a supercell found was met, and is a supercell found or holds no
centre. `Exact` is `SupercellsExact`: both ways give the supercells of the
covering's cells. A stored cell's seed and its neighbours reach the supercell of
one descendant; from there the proof walks the curve both ways, inside a
quintant by `CurveAssumption` on adjacent cells, over to the next quintant or
origin by the one pair of cells it gives there, and each step stays in the
closed result. The assumption is weaker than the comment at
`hierarchy.rs:290-293`, which has all adjacent cells touch. The theorem has the
property's premise: it leaves out coverings near candidates whose subcells come
coarser than the covering's resolution, the hazard at `hierarchy.rs:350`.

For every globe (any number of origins, segments and children, at least two
of each, and at least two resolutions), every input and every session
(`CoveringProofs`): `Typing`, `OneForm` and `CountExact`. The
inductive invariant `IInv` says that every covering is the stored form
(`ToCovering`) of some set of slots that cells with ids fill. `CellTreeProofs`
shows what makes this work: blocks of two resolutions nest or are apart, so the
coarsest cells inside a set are apart and fill it; put in curve order they give
back the set and the resolution they were made from; so the stored form is a
function of the set, and unions, intersections and differences of such sets are
such sets again. Under the assumption `Markedness` also `Valid` and `Membership`,
with `FineInv`: cells no finer than the covering's resolution fill its set.
`Markedness` says that no raw value given ends in a marker coarser than one of
its cells. It is needed: without it `covering_marker` violates `AlwaysValid`.
From the same invariant come `RoundTripExact` and `ActsLikeSets`. To expand a
covering is to list the cells of the resolution that lie inside its set, each
once and in curve order, if every place there has one (`UncompactedIs`): the
expansions of the stored cells ascend, and those of two cells do not mix. Such
cells fill the set again, so that compacting them gives the stored form back,
which is `RoundTripWithIds`. Their number is what the counts add up to, scaled
from the covering's resolution to the one asked for, and that is the estimate of
`a5_uncompact()` from resolution 0 on (`ExpectedIs`). Where places have no ids
the crate repeats coarser cells, as many times as there are places; so what is
built is as long as the estimate there too, which is `EstimateIsExact` (under `Markedness`). Away from
the world, then, the size limit refuses what passes it and nothing else.
`ActsLikeSets` then takes
the actions one by one: what each makes, as a resolution and a set, is what
`CellSets` says, and it raises an error exactly when `CellSets` does. That a
trailing marker is as fine as the cells (`Markedness`) is needed here too, as
`CellSets` refuses cells finer than the resolution.
All three assumptions of the modules are on inputs and values (`TreeAssumption`,
`InputsAssumption`, `ErrorAssumption`).

For any even turn, any rings of vertices and any number of them
(`LonArcsProofs`): `Typing`, `ArcsExact`, `MergingExact`, `BoxCovering` and
`BoxSmallest`. For `ArcsAreSwept`: unwrapping keeps every longitude and jumps
over none, and the wrapped differences of a closed ring add up to a whole number
of turns, to none exactly if it does not wind round a pole. For `MergedIsUnion`
the invariant of the merge loop is that the arcs merged are apart, in order, and
hold exactly the longitudes of the arcs taken. `BoxIsSmallest` is an argument on
gaps: arcs apart on a line leave one gap after each and one across the seam, the
box leaves out the largest, and a smaller box would have to leave out a longer
stretch, which lies in no gap. Both box theorems carry the premise of the
properties (`NoLapping`), which `lon_arcs_lapping` shows to be needed.
`BoxAssumption` says only
that what stands for no box and for all longitudes is no arc.

For any ids, vectors, columns and holders (`FfiSlotsProofs`): `Typing`,
`Released`, `Owned`, `Views` and `ReadsExact`. The invariant `IInv` is about who
owns what: each struct in use
is at one place (in a slot, in the column, or as the child of a list that is),
slots of holders not in use are empty, memory that is free is referred to by
nobody, and the structs of two holders, and of two chunks, are apart. Then a
release finds its memory in use and leaves nobody else with it; conversely all
memory in use is somebody's. That much needs `SlotsAssumption` only.

`ReadsExact` needs a second invariant, `DataInv`, on top of the first: the column
means what its chunks, as they are in memory, mean by Arrow's format; while a call
exports, every slot it has filled holds the same as the chunk; while it reads, the
elements so far mean what the chunks before `next` mean. That a step keeps it
rests on ownership: steps free memory and fill memory but change none
(`NoneChanges`), and what someone holds before and after a step is not freed, so
what a column or a slot refers to is what it was (`RootsKept`). In between are
the lemmas on arrays: what the code reads of a chunk, with a slice of the values
and the offsets of a list, is what the format says of each element (`CellsRead`,
`CoveringsRead`), what it writes means the vector (`CellsSent`, `CoveringsSent`),
and chunks add up. `Views` follows from the part of `DataInv` that says elements
of a vector are any eight bytes, and from the arithmetic of stored cells: the mask
undoes itself, only the gap decodes to the sentinel, digits read back give the id,
and two halves are ordered as the whole. These use `LayoutAssumption` (a top
byte is a multiple of what the mask keeps; `MaxDigits` digits write all ids and no
more), `MissingAssumption`, `ItemsAssumption` and `ColumnsAssumption`.

Recursive functions and folds are reasoned about throughout, along sequences and
numbers (a least counterexample by the library's `WFMin`). Every invariant and every
action property of the passing runs is a theorem. Only model-checked are the
liveness properties (`CallsEnd`, `Completes`, `Returns`, `Reclaimed`), as
fairness and `ENABLED` are out of the prover's reach, and what the violation
runs show, which is of instances.

## Findings

1. `lon_arcs_lapping` (`bbox.rs:126`): `union_arcs()` merges arcs on a line and
   then compares gaps round the circle, so an arc that passes 180 degrees is not
   merged with one that lies past -180. Parts at [120, 240] and at -180 give the
   box [120, 180]; the box ought to hold the feature (`R/regions.R:599`). With
   no such pair of parts the box is right and smallest (`lon_arcs`).
2. `uncompact_guard` (`R/compact.R:75`): the estimate counts 4 cells per step
   from resolution -1, which has 12 children, each with 5. The world covering
   at resolution 14 passes the limit of `.Machine$integer.max` unnoticed. From
   resolution 0 on the estimate is the size (`EstimateExact`).
3. `uncompact_duplicates` (`covering.rs:239`): a covering at resolution 30 with
   a cell in one of the 18 quintants that have no ids there expands to
   resolution-29 cells, each repeated (`R/hierarchy.R:153` says that the crate
   falls back; `R/compact.R:7-8` says there are no duplicates).
4. `covering_marker` (`covering.rs:204`): raw values that end in a marker are
   not checked against it, so `as_a5_covering()` may return a covering that
   `a5_is_valid()` rejects (`R/validity.R:15-19`).
5. `threads_pid_reuse` (`threading.rs:13`): needs the operating system to reuse
   the builder's PID for a descendant that still holds the pool.

Four more that no run shows by itself:

- `with()` leaves the count of its block if the old count's pool cannot be built
  on the way out (`R/threads.R:56` calls `a5_threads(data)`, which fails at
  `threading.rs:33-36`), while `R/threads.R:9-11` promises that it "restores the
  previous count, even if `expr` fails". `BlocksRestore` states this as its one
  exception, and holds otherwise.
- A feature at resolution 30 with one part among quintants that have ids there
  and one that reaches others is an error ("union failed", `regions.rs:135-138`),
  as the crate fills the second at resolution 29, while `R/regions.R:10-12`
  combines a feature's parts without a condition. In `Regions` this is the
  answer `clashes`, and `FeaturesExact` says exactly when it is given.
- A covering that holds a null cell makes `a5_covering_from_arrow_rs()` raise an
  R error (`arrow_ffi.rs:434-436`), which skips the destructors of its frame: the
  holder stays protected and its structs are never released. In `FfiSlots` this
  is the status `pinned`.
- `a5_covering_to_supercells()` may differ from looking up each cell
  (`R/hierarchy.R:262-268`) for coverings at resolution 30 near quintants
  without ids, where the crate gives subcells at resolution 29
  (`hierarchy.rs:350`). `SupercellsExact` is stated for the others.

## What is not modelled

- Floating-point geometry: boundaries, distances, areas, latitudes of boxes,
  what a polygon, line or cap holds. Where a decision rests on it, it is a
  constant with assumptions (`RingSweep`, `Supercells`).
- Pure lookups in the `a5` crate applied element by element (`cell_info.rs`,
  `traversal.rs`, parents and children in `hierarchy.rs`): they have no state,
  no order and no decision of this package; their parallel mapping is
  `ParallelMap`'s subject. That ids of the earlier index are migrated exactly
  once (`a5_migrate()`) is left to the caller by the code.
- Formatting and printing, and the vctrs plumbing of R vectors. Coverings are
  vectors in the package; each element is computed by itself.
- `rct_to_cells()` (`R/regions.R:154-197`) and the rest of what prepares boxes:
  it refuses wide boxes, adds vertices to those that reach from pole to pole,
  answers for the whole globe itself and hands the others on as polygons, whose
  coverings it puts back in the order of the input: arithmetic on coordinates and
  one permutation.
- Lines that fail: the first failing line is raised as a failing part is, but
  `PathsExact` speaks of calls in which none fails.
- Errors that change nothing and are raised before anything is made are calls
  without a step: too many cells for the offsets of an Arrow list
  (`arrow_ffi.rs:381-383`, `MaxTotal`), and argument checks in R.
- What rayon does in a panic: that the pool serves on is taken from the crate.
- Tables in `arrow.R`, which are converted column by column, with their
  index-version metadata.

## Plan

Done: every component that keeps state or takes decisions has its module, every
module that is a state machine its theorems, and every safety property of the
passing runs is one of them. Left:

1. `hierarchy.rs:350`: what the search does where subcells come coarser than the
   covering's resolution, which `SupercellsExact` excludes by its premise.
2. Shorter proofs: facts on folds and sequences that `RegionsProofs`,
   `CellTreeProofs` and `FfiSlotsProofs` each state for themselves.
