---------------------------- MODULE ThreadPool -----------------------------
(***************************************************************************)
(* The thread count and the worker pool of a5R (threading.rs, threads.R),  *)
(* in an R session and in the processes forked from it.                    *)
(*                                                                         *)
(* Three statics hold the state: NUM_THREADS, POOL and POOL_PID.  fork()   *)
(* copies them into the child but copies only the R thread, so a child     *)
(* holds a pool whose workers do not exist there.  POOL_PID, the PID of    *)
(* the process that built the pool, is how the code tells the two apart.   *)
(*                                                                         *)
(* A process runs one R thread.  It forks, sets the count and enters and   *)
(* leaves with() blocks only at the R level, never inside a native call,   *)
(* so set_num_threads() is one step.                                       *)
(***************************************************************************)
EXTENDS Integers, Sequences

CONSTANTS
  Procs,        \* process incarnations: each is forked at most once
  Root,         \* the R session the user started
  Pids,         \* the process ids of the operating system
  MaxThreads,   \* bound on the thread counts asked for
  MaxDepth,     \* bound on nested with() blocks, per process
  NoPool,       \* POOL = None
  PidReuse      \* may fork() hand out the PID a pool's dead builder had?

ASSUME RootAssumption == Root \in Procs

ASSUME PidsAssumption == Pids \subseteq Nat \ {0}

ASSUME BoundsAssumption ==
  MaxThreads \in Nat \ {0, 1} /\ MaxDepth \in [Procs -> Nat]

ASSUME NoPoolAssumption == NoPool \notin [owner : Procs, size : Nat]

ASSUME PidReuseAssumption == PidReuse \in BOOLEAN

VARIABLES
  pc,         \* what the R thread of each process is doing
  pid,        \* its process id
  num,        \* NUM_THREADS
  pool,       \* POOL: the process that built it and its size, or NoPool
  poolPid,    \* POOL_PID, 0 until the first set_num_threads()
  threads,    \* the worker threads that exist in the process
  frames,     \* the counts saved by the open with() blocks, outermost first
  base,       \* history: the count the outermost with() block found, or the
              \* one set since outside every block
  unrestored, \* history: the processes whose last outermost block could not
              \* build the pool it had to restore
  signalled   \* history: <<p, q>> when p told the workers of a pool of q to end

vars == <<pc, pid, num, pool, poolPid, threads, frames, base, unrestored,
          signalled>>

-----------------------------------------------------------------------------

(* "loading": before .onLoad; "unloaded": .onLoad failed.  "pool": the R   *)
(* thread waits in install().  "inline": it runs the closure itself.       *)
(* "unwind": an R error, or a panic turned into one, is leaving the open   *)
(* with() blocks.                                                          *)
Labels == {"unborn", "loading", "unloaded", "idle", "pool", "inline", "unwind",
           "dead"}

Counts == 1..MaxThreads

Alive(p) == pc[p] \notin {"unborn", "dead"}

-----------------------------------------------------------------------------
(* The code's helpers.                                                     *)

(* Fault: a5R before POOL_PID: every process believes the pool is its own. *)
InPoolProcessUnchecked(p) == TRUE

InPoolProcess(p) == poolPid[p] = pid[p]

(* Fault: the count is reported as stored, also in a forked child.         *)
NumThreadsStored(p) == num[p]

NumThreads(p) == IF num[p] > 1 /\ ~InPoolProcess(p) THEN 1 ELSE num[p]

(* Fault: `n > 1` weakened to `n >= 1`.                                    *)
NewPoolAlways(p, n) == [owner |-> p, size |-> n]

NewPool(p, n) == IF n > 1 THEN [owner |-> p, size |-> n] ELSE NoPool

(* Fault: the old pool is dropped whoever built it.                        *)
DropsAny(p) == pool[p] # NoPool

(* set_num_threads() drops the old pool, or forgets an inherited one.      *)
Drops(p) == pool[p] # NoPool /\ InPoolProcess(p)

(* The workers that end when the old pool is dropped: those of this        *)
(* process, whatever the pool says.                                        *)
Ended(p) == IF Drops(p) /\ pool[p].owner = p THEN pool[p].size ELSE 0

SetNumThreads(p, n) ==
  /\ pool' = [pool EXCEPT ![p] = NewPool(p, n)]
  /\ threads' = [threads EXCEPT ![p] = @ - Ended(p) + (IF n > 1 THEN n ELSE 0)]
  /\ signalled' = IF Drops(p) THEN signalled \cup {<<p, pool[p].owner>>}
                              ELSE signalled
  /\ poolPid' = [poolPid EXCEPT ![p] = pid[p]]
  /\ num' = [num EXCEPT ![p] = n]

(* Building the pool fails, which the operating system can make happen     *)
(* whenever threads are asked for: set_num_threads() returns before it     *)
(* changes anything.                                                       *)
BuildFails(n) == n > 1

StaticsUnchanged == UNCHANGED <<pool, threads, signalled, poolPid, num>>

Goto(p, label) == pc' = [pc EXCEPT ![p] = label]

-----------------------------------------------------------------------------
(* The session.                                                            *)

Init ==
  /\ pc = [p \in Procs |-> IF p = Root THEN "loading" ELSE "unborn"]
  /\ \E i \in Pids : pid = [p \in Procs |-> IF p = Root THEN i ELSE 0]
  /\ num = [p \in Procs |-> 1]
  /\ pool = [p \in Procs |-> NoPool]
  /\ poolPid = [p \in Procs |-> 0]
  /\ threads = [p \in Procs |-> 0]
  /\ frames = [p \in Procs |-> <<>>]
  /\ base = [p \in Procs |-> 1]
  /\ unrestored = {}
  /\ signalled = {}

(* .onLoad: the option or the environment variable, ignored when it is     *)
(* missing, NA or below 1 (here 0).                                        *)
OnLoad(p, n) ==
  /\ pc[p] \in {"loading", "unloaded"}
  /\ Goto(p, "idle")
  /\ IF n >= 1
     THEN SetNumThreads(p, n) /\ base' = [base EXCEPT ![p] = n]
     ELSE StaticsUnchanged /\ UNCHANGED base
  /\ UNCHANGED <<pid, frames, unrestored>>

(* The pool cannot be built: the error in .onLoad leaves the package       *)
(* unloaded.  The user may load it again.                                  *)
OnLoadFails(p, n) ==
  /\ pc[p] \in {"loading", "unloaded"}
  /\ BuildFails(n)
  /\ Goto(p, "unloaded")
  /\ StaticsUnchanged
  /\ UNCHANGED <<pid, frames, base, unrestored>>

(* a5_threads(n).  Below 1 it raises an error and sets nothing.            *)
SetThreads(p, n) ==
  /\ pc[p] = "idle"
  /\ n >= 1
  /\ SetNumThreads(p, n)
  /\ IF frames[p] = <<>>
     THEN base' = [base EXCEPT ![p] = n] /\ unrestored' = unrestored \ {p}
     ELSE UNCHANGED <<base, unrestored>>
  /\ UNCHANGED <<pc, pid, frames>>

SetThreadsFails(p, n) ==
  /\ pc[p] = "idle"
  /\ n < 1 \/ BuildFails(n)
  /\ Goto(p, "unwind")
  /\ StaticsUnchanged
  /\ UNCHANGED <<pid, frames, base, unrestored>>

(* Fault: the old count is read after the new one is set.                  *)
SavedCountLate(p, n) == n

(* What a5_threads(n) returns, and with() keeps in `data`.                 *)
SavedCount(p, n) == NumThreads(p)

(* with(a5_threads(n), expr): dispatch on `data` sets the count, then      *)
(* on.exit() is registered and `expr` starts.  A failing a5_threads(n) is  *)
(* SetThreadsFails: no block was entered.                                  *)
EnterWith(p, n) ==
  /\ pc[p] = "idle"
  /\ n >= 1
  /\ Len(frames[p]) < MaxDepth[p]
  /\ SetNumThreads(p, n)
  /\ frames' = [frames EXCEPT ![p] = Append(@, SavedCount(p, n))]
  /\ IF frames[p] = <<>>
     THEN /\ base' = [base EXCEPT ![p] = NumThreads(p)]
          /\ unrestored' = unrestored \ {p}
     ELSE UNCHANGED <<base, unrestored>>
  /\ UNCHANGED <<pc, pid>>

(* `expr` ended, or an error leaves the block: on.exit sets the saved      *)
(* count.  An error goes on to the next block; after the last one it       *)
(* reaches top level.                                                      *)
Innermost(p) == frames[p][Len(frames[p])]

ExitWith(p) ==
  /\ pc[p] \in {"idle", "unwind"}
  /\ frames[p] # <<>>
  /\ SetNumThreads(p, Innermost(p))
  /\ frames' = [frames EXCEPT ![p] = SubSeq(@, 1, Len(@) - 1)]
  /\ UNCHANGED <<pc, pid, base, unrestored>>

(* The pool for the saved count cannot be built: the on.exit call fails,   *)
(* the count of the block stays and an error propagates.  The next block   *)
(* out has its own count to restore; outside the outermost there is none.  *)
ExitWithFails(p) ==
  /\ pc[p] \in {"idle", "unwind"}
  /\ frames[p] # <<>>
  /\ BuildFails(Innermost(p))
  /\ Goto(p, "unwind")
  /\ frames' = [frames EXCEPT ![p] = SubSeq(@, 1, Len(@) - 1)]
  /\ unrestored' = IF Len(frames[p]) = 1 THEN unrestored \cup {p} ELSE unrestored
  /\ StaticsUnchanged
  /\ UNCHANGED <<pid, base>>

(* The error reaches top level, or a handler (tryCatch) inside a block.    *)
Caught(p) ==
  /\ pc[p] = "unwind"
  /\ Goto(p, "idle")
  /\ StaticsUnchanged
  /\ UNCHANGED <<pid, frames, base, unrestored>>

-----------------------------------------------------------------------------
(* A vectorised call: maybe_par(), behind the callers' own test of the     *)
(* count.                                                                  *)

GoesToPool(p) == NumThreads(p) > 1 /\ InPoolProcess(p) /\ pool[p] # NoPool

Call(p) ==
  /\ pc[p] = "idle"
  /\ Goto(p, IF GoesToPool(p) THEN "pool" ELSE "inline")
  /\ StaticsUnchanged
  /\ UNCHANGED <<pid, frames, base, unrestored>>

(* Some worker of the pool must exist here to run the closure.             *)
PoolRuns(p) == threads[p] > 0 /\ pool[p].owner = p

Return(p) ==
  /\ \/ pc[p] = "inline"
     \/ pc[p] = "pool" /\ PoolRuns(p)
  /\ Goto(p, "idle")
  /\ StaticsUnchanged
  /\ UNCHANGED <<pid, frames, base, unrestored>>

(* The closure panics: the pool hands the panic back and extendr makes it  *)
(* an R error.  The pool and its workers go on.                            *)
Panic(p) ==
  /\ \/ pc[p] = "inline"
     \/ pc[p] = "pool" /\ PoolRuns(p)
  /\ Goto(p, "unwind")
  /\ StaticsUnchanged
  /\ UNCHANGED <<pid, frames, base, unrestored>>

-----------------------------------------------------------------------------
(* The operating system: fork(), as parallel::mclapply() calls it inside   *)
(* or outside a with() block, and the end of a process.  The child leaves  *)
(* with mcexit(): it runs no on.exit code of its parent, so it starts      *)
(* with no block of its own.                                               *)

FreePids(p) ==
  Pids \ ({pid[q] : q \in {r \in Procs : Alive(r)}}
          \cup (IF PidReuse THEN {} ELSE {poolPid[p]}))

Fork(p, q) ==
  /\ pc[p] = "idle"
  /\ pc[q] = "unborn"
  /\ pc' = [pc EXCEPT ![q] = "idle"]
  /\ \E i \in FreePids(p) : pid' = [pid EXCEPT ![q] = i]
  /\ num' = [num EXCEPT ![q] = num[p]]
  /\ pool' = [pool EXCEPT ![q] = pool[p]]
  /\ poolPid' = [poolPid EXCEPT ![q] = poolPid[p]]
  /\ UNCHANGED <<threads, frames, base, unrestored, signalled>>

(* Any process may end, at any moment.                                     *)
Exit(p) ==
  /\ Alive(p)
  /\ Goto(p, "dead")
  /\ pid' = [pid EXCEPT ![p] = 0]
  /\ num' = [num EXCEPT ![p] = 1]
  /\ pool' = [pool EXCEPT ![p] = NoPool]
  /\ poolPid' = [poolPid EXCEPT ![p] = 0]
  /\ threads' = [threads EXCEPT ![p] = 0]
  /\ frames' = [frames EXCEPT ![p] = <<>>]
  /\ base' = [base EXCEPT ![p] = 1]
  /\ unrestored' = unrestored \ {p}
  /\ UNCHANGED signalled

-----------------------------------------------------------------------------

RStep(p) ==
  \/ \E n \in 0..MaxThreads : OnLoad(p, n)
  \/ \E n \in 0..MaxThreads : OnLoadFails(p, n)
  \/ \E n \in Counts : SetThreads(p, n)
  \/ \E n \in 0..MaxThreads : SetThreadsFails(p, n)
  \/ \E n \in Counts : EnterWith(p, n)
  \/ ExitWith(p)
  \/ ExitWithFails(p)
  \/ Caught(p)
  \/ Call(p)
  \/ Return(p)
  \/ Panic(p)

Next ==
  \/ \E p \in Procs : RStep(p)
  \/ \E p, q \in Procs : Fork(p, q)
  \/ \E p \in Procs : Exit(p)

Spec == Init /\ [][Next]_vars

(* A call that can finish does (workers run, and closures are finite); R   *)
(* carries a raised error to its handler.                                  *)
Fairness ==
  \A p \in Procs : WF_vars(Return(p) \/ Panic(p)) /\ WF_vars(Caught(p))

FairSpec == Spec /\ Fairness

-----------------------------------------------------------------------------

(* The type invariant.  A pool has at least two workers: at one thread     *)
(* threading.rs keeps none.                                                *)
TypeOK ==
  /\ pc \in [Procs -> Labels]
  /\ pid \in [Procs -> {0} \cup Pids]
  /\ num \in [Procs -> Counts]
  /\ pool \in [Procs -> [owner : Procs, size : 2..MaxThreads] \cup {NoPool}]
  /\ poolPid \in [Procs -> {0} \cup Pids]
  /\ threads \in [Procs -> Nat]
  /\ frames \in [Procs -> Seq(Counts)]
  /\ base \in [Procs -> Counts]
  /\ unrestored \subseteq Procs
  /\ signalled \subseteq Procs \X Procs

(* A call waits in install() only where the workers of that pool run: no   *)
(* process, forked at any moment from any other, waits forever             *)
(* (threading.rs:7-9).                                                     *)
NeverStranded ==
  \A p \in Procs : pc[p] = "pool" =>
    pool[p] # NoPool /\ pool[p].owner = p /\ threads[p] > 0

(* set_num_threads() never signals the workers of a pool that another      *)
(* process built (threading.rs:43-47).                                     *)
SignalsOwnWorkersOnly == \A pq \in signalled : pq[1] = pq[2]

(* The count a5_threads() reports is the number of workers that serve the  *)
(* process, none at one thread: nothing leaks through set, with, error,    *)
(* failed build and fork, and nothing is promised that is not there.       *)
CountIsHonest ==
  \A p \in Procs : Alive(p) =>
    threads[p] = (IF NumThreads(p) > 1 THEN NumThreads(p) ELSE 0)

(* Outside every with() block the count is the one the last outermost      *)
(* block found, or the one set since, whatever blocks were nested in it,   *)
(* entered, left by an error or left with a count they could not restore   *)
(* (threads.R:9-11, tests/testthat/test-threads.R:60-72).  There is one    *)
(* exception, which threads.R does not make: no pool could be built for    *)
(* the outermost block's own restore.  One thread needs no pool, so a      *)
(* session that was on one thread always comes back to it.                 *)
BlocksRestore ==
  \A p \in Procs : Alive(p) /\ frames[p] = <<>> =>
    NumThreads(p) = base[p] \/ (p \in unrestored /\ base[p] > 1)

(* A call, on the pool or not, returning or panicking, gives the R prompt  *)
(* back, unless the process ends.                                          *)
CallsEnd ==
  \A p \in Procs : pc[p] \in {"pool", "inline", "unwind"} ~> pc[p] \in {"idle", "dead"}
=============================================================================
