------------------------- MODULE ThreadPoolProofs --------------------------
(***************************************************************************)
(* ThreadPool's safety for every number of processes, threads and nested   *)
(* blocks, when fork() hands out no PID that the parent's pool still       *)
(* carries (PidReuse = FALSE).                                             *)
(***************************************************************************)
EXTENDS ThreadPool, SequenceTheorems, TLAPS

-----------------------------------------------------------------------------
(* The inductive invariant, one conjunct per idea, each about one process. *)

(* A process that is not running holds nothing.                            *)
Quiet(p) ==
  /\ pc[p] = "unborn" => threads[p] = 0 /\ frames[p] = <<>> /\ base[p] = 1
  /\ pc[p] \in {"loading", "unloaded"} => frames[p] = <<>>

(* POOL_PID tells the truth: in the process that built the pool, the pool  *)
(* and its workers are there; in any other no worker runs.                 *)
Served(p) ==
  IF InPoolProcess(p) /\ num[p] > 1
  THEN pool[p] = [owner |-> p, size |-> num[p]] /\ threads[p] = num[p]
  ELSE threads[p] = 0 /\ (InPoolProcess(p) => pool[p] = NoPool)

(* A call is in install() only on a pool of this process.                  *)
Called(p) == pc[p] = "pool" => InPoolProcess(p) /\ num[p] > 1

(* Outside every block the count is the one to restore, unless restoring   *)
(* it needed a pool and failed; inside, the outermost block has it saved.  *)
Restored(p) == NumThreads(p) = base[p] \/ (p \in unrestored /\ base[p] > 1)

Saved(p) == IF frames[p] = <<>> THEN Restored(p) ELSE frames[p][1] = base[p]

Distinct ==
  \A p, q \in Procs : Alive(p) /\ Alive(q) /\ p # q => pid[p] # pid[q]

IInv ==
  /\ TypeOK
  /\ Distinct
  /\ SignalsOwnWorkersOnly
  /\ \A p \in Procs : Quiet(p)
  /\ \A p \in Procs : Alive(p) => Served(p) /\ Called(p) /\ Saved(p)

-----------------------------------------------------------------------------

(* IInv holds in a freshly started session.                                *)
LEMMA InitIInv == Init => IInv
  <1> SUFFICES ASSUME Init PROVE IInv
    OBVIOUS
  <1> USE RootAssumption, BoundsAssumption, PidsAssumption DEF Init
  <1>1. TypeOK
    BY DEF TypeOK, Labels, Counts
  <1>2. Distinct /\ SignalsOwnWorkersOnly
    BY DEF Distinct, SignalsOwnWorkersOnly, Alive
  <1>3. \A p \in Procs : Quiet(p)
    BY DEF Quiet
  <1>4. \A p \in Procs : Alive(p) => Served(p) /\ Called(p) /\ Saved(p)
    BY DEF Alive, Served, Called, Saved, Restored, InPoolProcess, NumThreads
  <1> QED
    BY <1>1, <1>2, <1>3, <1>4 DEF IInv

(* set_num_threads(n), for any n the code passes: the pool it leaves is    *)
(* this process's own and serves it, and only own workers were signalled.  *)
LEMMA SetNumThreadsServes ==
  ASSUME IInv, NEW p \in Procs, Alive(p), NEW n \in Counts, SetNumThreads(p, n),
         UNCHANGED pid
  PROVE  /\ num' = [num EXCEPT ![p] = n]
         /\ num' \in [Procs -> Counts]
         /\ pool' \in [Procs -> [owner : Procs, size : 2..MaxThreads] \cup {NoPool}]
         /\ poolPid' \in [Procs -> {0} \cup Pids]
         /\ threads' \in [Procs -> Nat]
         /\ signalled' \subseteq Procs \X Procs
         /\ SignalsOwnWorkersOnly'
         /\ Served(p)' /\ InPoolProcess(p)' /\ NumThreads(p)' = n
         /\ \A q \in Procs \ {p} :
              /\ Served(q)' = Served(q)
              /\ NumThreads(q)' = NumThreads(q)
              /\ InPoolProcess(q)' = InPoolProcess(q)
  <1> USE BoundsAssumption, NoPoolAssumption
  <1>1. TypeOK /\ Served(p) /\ SignalsOwnWorkersOnly
    BY DEF IInv
  <1>2. NewPool(p, n) \in [owner : Procs, size : 2..MaxThreads] \cup {NoPool}
    BY DEF NewPool, Counts
  <1>3. Drops(p) => pool[p].owner = p /\ pool[p].size = num[p]
    BY <1>1 DEF Drops, Served
  <1>4. threads[p] - Ended(p) = 0
    <2>1. CASE InPoolProcess(p) /\ num[p] > 1
      <3>1. pool[p] = [owner |-> p, size |-> num[p]] /\ threads[p] = num[p]
        BY <1>1, <2>1 DEF Served
      <3>2. pool[p] # NoPool
        <4>1. num[p] \in Nat
          BY <1>1 DEF TypeOK, Counts
        <4>2. pool[p] \in [owner : Procs, size : Nat]
          BY <3>1, <4>1
        <4> QED
          BY <4>2
      <3>3. Ended(p) = num[p]
        BY <2>1, <3>1, <3>2 DEF Ended, Drops
      <3> QED
        BY <3>1, <3>3, <1>1 DEF TypeOK, Counts
    <2>2. CASE ~(InPoolProcess(p) /\ num[p] > 1)
      <3>1. threads[p] = 0 /\ ~Drops(p)
        BY <1>1, <2>2 DEF Served, Drops
      <3> QED
        BY <3>1 DEF Ended
    <2> QED
      BY <2>1, <2>2
  <1>5. /\ num' = [num EXCEPT ![p] = n]
        /\ num' \in [Procs -> Counts]
    BY <1>1 DEF SetNumThreads, TypeOK
  <1>6. pool' \in [Procs -> [owner : Procs, size : 2..MaxThreads] \cup {NoPool}]
    BY <1>1, <1>2 DEF SetNumThreads, TypeOK
  <1>7. poolPid' \in [Procs -> {0} \cup Pids]
    BY <1>1 DEF SetNumThreads, TypeOK
  <1>8. threads' \in [Procs -> Nat] /\ threads'[p] = (IF n > 1 THEN n ELSE 0)
    BY <1>1, <1>4 DEF SetNumThreads, TypeOK, Counts
  <1>9. signalled' \subseteq Procs \X Procs /\ SignalsOwnWorkersOnly'
    <2>1. signalled' \subseteq signalled \cup {<<p, p>>}
      BY <1>3 DEF SetNumThreads
    <2> QED
      BY <1>1, <2>1 DEF TypeOK, SignalsOwnWorkersOnly
  <1>10. InPoolProcess(p)' /\ NumThreads(p)' = n
    BY <1>1, <1>5 DEF SetNumThreads, InPoolProcess, NumThreads, TypeOK
  <1>11. Served(p)'
    <2>1. pool'[p] = NewPool(p, n) /\ num'[p] = n
      BY <1>1, <1>5 DEF SetNumThreads, TypeOK
    <2> QED
      BY <2>1, <1>8, <1>10 DEF Served, NewPool
  <1>12. \A q \in Procs \ {p} :
           /\ Served(q)' = Served(q)
           /\ NumThreads(q)' = NumThreads(q)
           /\ InPoolProcess(q)' = InPoolProcess(q)
    BY <1>1 DEF SetNumThreads, TypeOK, Served, NumThreads, InPoolProcess
  <1> QED
    BY <1>5, <1>6, <1>7, <1>8, <1>9, <1>10, <1>11, <1>12
(* An action of process p that calls set_num_threads() keeps IInv if what  *)
(* it leaves in p's R state (label, blocks, base) is in order.             *)
LEMMA SetNumThreadsIInv ==
  ASSUME IInv, NEW p \in Procs, Alive(p), NEW n \in Counts, SetNumThreads(p, n),
         UNCHANGED pid,
         pc' \in [Procs -> Labels], frames' \in [Procs -> Seq(Counts)],
         base' \in [Procs -> Counts], unrestored' \subseteq Procs,
         \A q \in Procs \ {p} :
           /\ pc'[q] = pc[q] /\ frames'[q] = frames[q] /\ base'[q] = base[q]
           /\ q \in unrestored' <=> q \in unrestored,
         pc'[p] \in {"idle", "unwind"},
         IF frames'[p] = <<>> THEN n = base'[p] ELSE frames'[p][1] = base'[p]
  PROVE  IInv'
  <1>1. /\ num' \in [Procs -> Counts]
        /\ pool' \in [Procs -> [owner : Procs, size : 2..MaxThreads] \cup {NoPool}]
        /\ poolPid' \in [Procs -> {0} \cup Pids]
        /\ threads' \in [Procs -> Nat]
        /\ signalled' \subseteq Procs \X Procs
        /\ SignalsOwnWorkersOnly'
        /\ Served(p)' /\ NumThreads(p)' = n
    BY SetNumThreadsServes
  <1>2. \A q \in Procs \ {p} :
          /\ Served(q)' = Served(q)
          /\ NumThreads(q)' = NumThreads(q)
          /\ InPoolProcess(q)' = InPoolProcess(q)
          /\ num'[q] = num[q] /\ threads'[q] = threads[q]
    <2>1. threads' = [threads EXCEPT ![p] = @ - Ended(p) + (IF n > 1 THEN n ELSE 0)]
      BY DEF SetNumThreads
    <2>2. num' = [num EXCEPT ![p] = n]
      BY DEF SetNumThreads
    <2> QED
      BY <2>1, <2>2, SetNumThreadsServes DEF IInv, TypeOK
  <1>3. TypeOK'
    BY <1>1 DEF IInv, TypeOK
  <1>4. Distinct'
    <2>1. \A q \in Procs : Alive(q)' => Alive(q)
      BY DEF Alive
    <2> QED
      BY <2>1 DEF IInv, Distinct
  <1>5. \A q \in Procs : Quiet(q)'
    <2>1. ASSUME NEW q \in Procs \ {p} PROVE Quiet(q)'
      <3>1. Quiet(q)
        BY DEF IInv
      <3>2. pc'[q] = pc[q] /\ frames'[q] = frames[q] /\ base'[q] = base[q] /\ threads'[q] = threads[q]
        BY <1>2
      <3> QED
        BY <3>1, <3>2 DEF Quiet
    <2>2. Quiet(p)'
      BY DEF Quiet
    <2> QED
      BY <2>1, <2>2
  <1>6. \A q \in Procs : Alive(q)' => Served(q)' /\ Called(q)' /\ Saved(q)'
    <2>1. Called(p)' /\ Saved(p)'
      BY <1>1 DEF Called, Saved, Restored
    <2>2. ASSUME NEW q \in Procs \ {p}, Alive(q)'
          PROVE  Served(q)' /\ Called(q)' /\ Saved(q)'
      <3>1. Alive(q)
        BY <2>2 DEF Alive
      <3>2. Served(q) /\ Called(q) /\ Saved(q)
        BY <3>1 DEF IInv
      <3> QED
        BY <3>2, <1>2 DEF Called, Saved, Restored
    <2> QED
      BY <1>1, <2>1, <2>2
  <1> QED
    BY <1>1, <1>3, <1>4, <1>5, <1>6 DEF IInv

(* An action of p that leaves the statics alone keeps IInv under the same  *)
(* condition; a call waits only on a pool of this process.                 *)
LEMMA LabelIInv ==
  ASSUME IInv, NEW p \in Procs, Alive(p), StaticsUnchanged, UNCHANGED pid,
         NEW label \in {"unloaded", "idle", "pool", "inline", "unwind"},
         Goto(p, label),
         label = "pool" => GoesToPool(p),
         label = "unloaded" => frames'[p] = <<>>,
         frames' \in [Procs -> Seq(Counts)],
         UNCHANGED base, unrestored' \subseteq Procs,
         \A q \in Procs \ {p} :
           frames'[q] = frames[q] /\ (q \in unrestored' <=> q \in unrestored),
         IF frames'[p] = <<>>
         THEN NumThreads(p) = base[p] \/ (p \in unrestored' /\ base[p] > 1)
         ELSE frames'[p][1] = base[p]
  PROVE  IInv'
  <1> USE DEF StaticsUnchanged, Goto
  <1>1. TypeOK'
    BY DEF IInv, TypeOK, Labels
  <1>2. Distinct' /\ SignalsOwnWorkersOnly'
    BY DEF IInv, TypeOK, Distinct, SignalsOwnWorkersOnly, Alive
  <1>3. \A q \in Procs : Quiet(q)'
    BY DEF IInv, TypeOK, Quiet
  <1>4. ASSUME NEW q \in Procs, Alive(q)'
        PROVE  Served(q)' /\ Called(q)' /\ Saved(q)'
    <2>1. Alive(q)
      BY <1>4 DEF IInv, TypeOK, Alive
    <2>2. Served(q) /\ Called(q) /\ Saved(q)
      BY <2>1 DEF IInv
    <2>3. Served(q)'
      BY <2>2 DEF Served, InPoolProcess
    <2>4. Called(q)'
      BY <2>2 DEF IInv, TypeOK, Called, InPoolProcess, GoesToPool, NumThreads
    <2>5. Saved(q)'
      BY <2>2 DEF Saved, Restored, NumThreads, InPoolProcess
    <2> QED
      BY <2>3, <2>4, <2>5
  <1> QED
    BY <1>1, <1>2, <1>3, <1>4 DEF IInv
-----------------------------------------------------------------------------
(* Facts about the stack of saved counts.                                  *)

(* Opening a block saves the reported count on top; the outermost saved    *)
(* count is unchanged, or is the one in force.                             *)
LEMMA PushFrame ==
  ASSUME NEW f \in Seq(Counts), NEW c \in Counts
  PROVE  /\ Append(f, c) \in Seq(Counts)
         /\ Append(f, c) # <<>>
         /\ Append(f, c)[1] = IF f = <<>> THEN c ELSE f[1]
  <1>1. /\ Append(f, c) \in Seq(Counts)
        /\ Append(f, c) # <<>>
        /\ \A i \in 1..Len(f) : Append(f, c)[i] = f[i]
        /\ Append(f, c)[Len(f) + 1] = c
    BY AppendProperties
  <1>2. CASE f = <<>>
    BY <1>1, <1>2, EmptySeq
  <1>3. CASE f # <<>>
    <2>1. 1 \in 1..Len(f)
      BY <1>3, EmptySeq
    <2> QED
      BY <1>1, <1>3, <2>1
  <1> QED
    BY <1>2, <1>3

(* Leaving a block keeps the outermost saved count while any block is open *)
(* and, for the last one, restores exactly that count.                     *)
LEMMA PopFrame ==
  ASSUME NEW f \in Seq(Counts), f # <<>>
  PROVE  LET g == SubSeq(f, 1, Len(f) - 1) IN
         /\ g \in Seq(Counts)
         /\ f[Len(f)] \in Counts
         /\ IF Len(f) = 1 THEN g = <<>> /\ f[Len(f)] = f[1]
                          ELSE g # <<>> /\ g[1] = f[1]
  <1> DEFINE g == SubSeq(f, 1, Len(f) - 1)
  <1>1. Len(f) \in Nat \ {0} /\ \A i \in 1..Len(f) : f[i] \in Counts
    BY EmptySeq, ElementOfSeq
  <1>2. /\ g \in Seq(Counts)
        /\ Len(g) = Len(f) - 1
        /\ \A i \in 1..Len(f) - 1 : g[i] = f[i]
    <2>1. Len(f) - 1 \in Int /\ \A i \in 1..Len(f) - 1 : f[i] \in Counts
      BY <1>1
    <2> DEFINE k == Len(f) - 1
    <2>2. k \in Int /\ \A i \in 1..k : f[i] \in Counts
      BY <2>1
    <2> HIDE DEF k
    <2>3. /\ SubSeq(f, 1, k) \in Seq(Counts)
          /\ Len(SubSeq(f, 1, k)) = IF 1 <= k THEN k - 1 + 1 ELSE 0
          /\ \A i \in 1..k - 1 + 1 : SubSeq(f, 1, k)[i] = f[1 + i - 1]
      BY <2>2, SubSeqProperties
    <2>4. k \in Nat
      BY <1>1 DEF k
    <2>5. g = SubSeq(f, 1, k)
      BY DEF k
    <2> HIDE DEF g
    <2>6. /\ g \in Seq(Counts)
          /\ Len(g) = k
          /\ \A i \in 1..k : g[i] = f[i]
      BY <2>3, <2>4, <2>5
    <2> QED
      BY <2>6 DEF k
  <1> HIDE DEF g
  <1>3. CASE Len(f) = 1
    <2>1. g = <<>>
      BY <1>2, <1>3, EmptySeq
    <2> QED
      BY <1>1, <1>2, <1>3, <2>1 DEF g
  <1>4. CASE Len(f) # 1
    <2>1. g # <<>> /\ g[1] = f[1]
      BY <1>1, <1>2, <1>4, EmptySeq
    <2> QED
      BY <1>1, <1>2, <1>4, <2>1 DEF g
  <1> QED
    BY <1>3, <1>4

(* The reported count is one of the counts.                                *)
LEMMA NumThreadsType == ASSUME TypeOK, NEW p \in Procs PROVE NumThreads(p) \in Counts
  BY BoundsAssumption DEF TypeOK, NumThreads, Counts

-----------------------------------------------------------------------------
(* The actions.                                                            *)

LEMMA RStepIInv == ASSUME IInv, NEW p \in Procs, RStep(p) PROVE IInv'
  <1> USE BoundsAssumption
  <1>1. TypeOK /\ Quiet(p)
    BY DEF IInv
  <1>2. ASSUME NEW n \in 0..MaxThreads, OnLoad(p, n) PROVE IInv'
    <2>1. Alive(p) /\ frames[p] = <<>>
      BY <1>1, <1>2 DEF OnLoad, Alive, Quiet
    <2>2. CASE n >= 1
      <3>1. /\ n \in Counts /\ SetNumThreads(p, n)
            /\ UNCHANGED <<pid, frames, unrestored>>
        BY <1>2, <2>2 DEF OnLoad, Counts
      <3>2. base' = [base EXCEPT ![p] = n] /\ pc' = [pc EXCEPT ![p] = "idle"]
        BY <1>2, <2>2 DEF OnLoad, Goto
      <3>3. pc' \in [Procs -> Labels] /\ base' \in [Procs -> Counts]
        BY <1>1, <3>1, <3>2 DEF TypeOK, Labels
      <3> QED
        BY <2>1, <3>1, <3>2, <3>3, <1>1, SetNumThreadsIInv DEF TypeOK
    <2>3. CASE ~(n >= 1)
      <3>1. Restored(p)
        BY <2>1 DEF IInv, Saved
      <3> QED
        BY <2>1, <2>3, <3>1, <1>1, <1>2, LabelIInv DEF OnLoad, TypeOK, Restored
    <2> QED
      BY <2>2, <2>3
  <1>10. ASSUME NEW n \in 0..MaxThreads, OnLoadFails(p, n) PROVE IInv'
    <2>1. Alive(p) /\ frames[p] = <<>>
      BY <1>1, <1>10 DEF OnLoadFails, Alive, Quiet
    <2>2. Restored(p)
      BY <2>1 DEF IInv, Saved
    <2> QED
      BY <2>1, <2>2, <1>1, <1>10, LabelIInv DEF OnLoadFails, TypeOK, Restored
  <1>3. ASSUME NEW n \in Counts, SetThreads(p, n) PROVE IInv'
    <2>1. Alive(p) /\ Saved(p)
      BY <1>3 DEF SetThreads, Alive, IInv
    <2>2. CASE frames[p] = <<>>
      <3>1. /\ base' = [base EXCEPT ![p] = n]
            /\ unrestored' = unrestored \ {p}
            /\ SetNumThreads(p, n) /\ UNCHANGED <<pc, pid, frames>>
        BY <1>3, <2>2 DEF SetThreads
      <3> QED
        BY <2>1, <2>2, <3>1, <1>1, <1>3, SetNumThreadsIInv DEF SetThreads, TypeOK
    <2>3. CASE frames[p] # <<>>
      <3>1. /\ UNCHANGED <<base, unrestored>>
            /\ SetNumThreads(p, n) /\ UNCHANGED <<pc, pid, frames>>
        BY <1>3, <2>3 DEF SetThreads
      <3> QED
        BY <2>1, <2>3, <3>1, <1>1, <1>3, SetNumThreadsIInv DEF SetThreads, TypeOK, Saved
    <2> QED
      BY <2>2, <2>3
  <1>4. ASSUME NEW n \in 0..MaxThreads, SetThreadsFails(p, n) PROVE IInv'
    <2>1. Alive(p) /\ Saved(p)
      BY <1>4 DEF SetThreadsFails, Alive, IInv
    <2> QED
      BY <2>1, <1>1, <1>4, LabelIInv
         DEF SetThreadsFails, TypeOK, Saved, Restored
  <1>5. ASSUME NEW n \in Counts, EnterWith(p, n) PROVE IInv'
    <2>1. Alive(p) /\ Saved(p)
      BY <1>5 DEF EnterWith, Alive, IInv
    <2>2. frames[p] \in Seq(Counts) /\ SavedCount(p, n) \in Counts
      BY <1>1, NumThreadsType DEF SavedCount, TypeOK
    <2> DEFINE f == Append(frames[p], SavedCount(p, n))
    <2>3. /\ f \in Seq(Counts)
          /\ f # <<>>
          /\ f[1] = IF frames[p] = <<>> THEN NumThreads(p) ELSE base[p]
      BY <2>1, <2>2, PushFrame DEF Saved, SavedCount
    <2>4. frames' = [frames EXCEPT ![p] = f]
      BY <1>5 DEF EnterWith
    <2>5. /\ frames' \in [Procs -> Seq(Counts)]
          /\ frames'[p] = f
          /\ \A q \in Procs \ {p} : frames'[q] = frames[q]
      BY <1>1, <2>3, <2>4 DEF TypeOK
    <2> HIDE DEF f
    <2>6. /\ base' \in [Procs -> Counts] /\ unrestored' \subseteq Procs
          /\ base'[p] = f[1]
          /\ \A q \in Procs \ {p} :
               base'[q] = base[q] /\ (q \in unrestored' <=> q \in unrestored)
      <3>1. CASE frames[p] = <<>>
        <4>1. /\ base' = [base EXCEPT ![p] = NumThreads(p)]
              /\ unrestored' = unrestored \ {p}
          BY <1>5, <3>1 DEF EnterWith
        <4> QED
          BY <3>1, <4>1, <2>3, <1>1, NumThreadsType DEF TypeOK
      <3>2. CASE frames[p] # <<>>
        BY <3>2, <1>5, <2>3, <1>1 DEF EnterWith, TypeOK
      <3> QED
        BY <3>1, <3>2
    <2> QED
      BY <2>1, <2>3, <2>5, <2>6, <1>1, <1>5, SetNumThreadsIInv DEF EnterWith, TypeOK
  <1>6. ASSUME frames[p] # <<>>,
               frames' = [frames EXCEPT ![p] = SubSeq(@, 1, Len(@) - 1)]
        PROVE  /\ Innermost(p) \in Counts
               /\ frames' \in [Procs -> Seq(Counts)]
               /\ \A q \in Procs \ {p} : frames'[q] = frames[q]
               /\ IF Len(frames[p]) = 1
                  THEN frames'[p] = <<>> /\ Innermost(p) = frames[p][1]
                  ELSE frames'[p] # <<>> /\ frames'[p][1] = frames[p][1]
    <2>1. frames[p] \in Seq(Counts)
      BY <1>1 DEF TypeOK
    <2> DEFINE g == SubSeq(frames[p], 1, Len(frames[p]) - 1)
    <2>2. /\ g \in Seq(Counts)
          /\ frames[p][Len(frames[p])] \in Counts
          /\ IF Len(frames[p]) = 1
             THEN g = <<>> /\ frames[p][Len(frames[p])] = frames[p][1]
             ELSE g # <<>> /\ g[1] = frames[p][1]
      BY <2>1, <1>6, PopFrame
    <2>3. frames' = [frames EXCEPT ![p] = g]
      BY <1>6
    <2> HIDE DEF g
    <2> QED
      BY <2>2, <2>3, <1>1 DEF Innermost, TypeOK
  <1>7. CASE ExitWith(p)
    <2>1. Alive(p) /\ Saved(p) /\ frames[p] # <<>>
      BY <1>7 DEF ExitWith, Alive, IInv
    <2>2. frames[p][1] = base[p]
      BY <2>1 DEF Saved
    <2> QED
      BY <2>1, <2>2, <1>1, <1>6, <1>7, SetNumThreadsIInv DEF ExitWith, TypeOK
  <1>8. CASE ExitWithFails(p)
    <2>1. Alive(p) /\ Saved(p) /\ frames[p] # <<>>
      BY <1>8 DEF ExitWithFails, Alive, IInv
    <2>2. frames[p][1] = base[p]
      BY <2>1 DEF Saved
    <2>3. frames' = [frames EXCEPT ![p] = SubSeq(@, 1, Len(@) - 1)]
      BY <1>8 DEF ExitWithFails
    <2>4. Len(frames[p]) = 1 => p \in unrestored' /\ base[p] > 1
      BY <2>1, <2>2, <2>3, <1>6, <1>8 DEF ExitWithFails, BuildFails
    <2>5. /\ unrestored' \subseteq Procs
          /\ \A q \in Procs \ {p} : q \in unrestored' <=> q \in unrestored
      BY <1>1, <1>8 DEF ExitWithFails, TypeOK
    <2> QED
      BY <2>1, <2>2, <2>3, <2>4, <2>5, <1>1, <1>6, <1>8, LabelIInv
         DEF ExitWithFails, TypeOK
  <1>9. CASE Caught(p) \/ Call(p) \/ Return(p) \/ Panic(p)
    <2>1. Alive(p) /\ Saved(p)
      BY <1>9 DEF Caught, Call, Return, Panic, Alive, IInv
    <2> QED
      BY <2>1, <1>1, <1>9, LabelIInv
         DEF Caught, Call, Return, Panic, TypeOK, Saved, Restored
  <1> QED
    BY <1>2, <1>3, <1>4, <1>5, <1>7, <1>8, <1>9, <1>10 DEF RStep

(* fork(): the child's PID differs from the one in its copy of POOL_PID,   *)
(* whether the parent built that pool (the parent is alive) or inherited   *)
(* it (FreePids).                                                          *)
LEMMA ForkIInv ==
  ASSUME PidReuse = FALSE, IInv, NEW p \in Procs, NEW q \in Procs, Fork(p, q)
  PROVE  IInv'
  <1>1. TypeOK /\ Alive(p) /\ p # q /\ Quiet(q)
    BY DEF Fork, Alive, IInv
  <1>2. PICK i \in FreePids(p) : pid' = [pid EXCEPT ![q] = i]
    BY DEF Fork
  <1>3. i \in Pids /\ i # poolPid[p] /\ \A r \in Procs : Alive(r) => pid[r] # i
    BY <1>2 DEF FreePids
  <1>4. TypeOK'
    BY <1>1, <1>2, <1>3 DEF Fork, TypeOK, Labels
  <1>5. Distinct'
    <2>1. \A r \in Procs : Alive(r)' => Alive(r) \/ r = q
      BY <1>1 DEF Fork, Alive, TypeOK
    <2> QED
      BY <1>1, <1>2, <1>3, <2>1 DEF IInv, Distinct, TypeOK
  <1>6. SignalsOwnWorkersOnly'
    BY DEF Fork, IInv, SignalsOwnWorkersOnly
  <1>7. \A r \in Procs : Quiet(r)'
    BY <1>1 DEF Fork, IInv, Quiet, TypeOK
  <1>8. Served(q)' /\ Called(q)' /\ Saved(q)'
    <2>1. ~InPoolProcess(q)'
      BY <1>1, <1>2, <1>3 DEF Fork, InPoolProcess, TypeOK
    <2>2. threads[q] = 0 /\ frames[q] = <<>> /\ base[q] = 1
      BY <1>1 DEF Fork, Quiet
    <2>3. NumThreads(q)' = 1
      BY <2>1, <1>4 DEF NumThreads, TypeOK, Counts
    <2> QED
      BY <2>1, <2>2, <2>3, <1>1 DEF Fork, Served, Called, Saved, Restored, TypeOK
  <1>9. ASSUME NEW r \in Procs \ {q}, Alive(r)'
        PROVE  Served(r)' /\ Called(r)' /\ Saved(r)'
    <2>1. Alive(r) /\ Served(r) /\ Called(r) /\ Saved(r)
      BY <1>1, <1>9 DEF Fork, Alive, TypeOK, IInv
    <2>2. InPoolProcess(r)' = InPoolProcess(r) /\ NumThreads(r)' = NumThreads(r)
      BY <1>1, <1>2 DEF Fork, InPoolProcess, NumThreads, TypeOK
    <2> QED
      BY <1>1, <2>1, <2>2 DEF Fork, Served, Called, Saved, Restored, TypeOK
  <1> QED
    BY <1>4, <1>5, <1>6, <1>7, <1>8, <1>9 DEF IInv

LEMMA ExitIInv == ASSUME IInv, NEW p \in Procs, Exit(p) PROVE IInv'
  <1> USE BoundsAssumption
  <1>1. TypeOK
    BY DEF IInv
  <1>2. TypeOK'
    <2>1. frames' \in [Procs -> Seq(Counts)]
      <3>1. <<>> \in Seq(Counts)
        BY EmptySeq
      <3> QED
        BY <1>1, <3>1 DEF Exit, TypeOK
    <2>2. num' \in [Procs -> Counts] /\ base' \in [Procs -> Counts]
      BY <1>1 DEF Exit, TypeOK, Counts
    <2>3. pc' \in [Procs -> Labels]
      BY <1>1 DEF Exit, Goto, TypeOK, Labels
    <2>4. /\ pid' \in [Procs -> {0} \cup Pids]
          /\ poolPid' \in [Procs -> {0} \cup Pids]
          /\ threads' \in [Procs -> Nat]
          /\ pool' \in [Procs -> [owner : Procs, size : 2..MaxThreads] \cup {NoPool}]
          /\ signalled' \subseteq Procs \X Procs
          /\ unrestored' \subseteq Procs
      BY <1>1 DEF Exit, TypeOK
    <2> QED
      BY <2>1, <2>2, <2>3, <2>4 DEF TypeOK
  <1>3. ~Alive(p)'
    BY <1>1 DEF Exit, Goto, TypeOK, Alive
  <1>4. ASSUME NEW r \in Procs \ {p}, Alive(r)'
        PROVE  /\ Alive(r) /\ pid'[r] = pid[r]
               /\ Served(r)' /\ Called(r)' /\ Saved(r)'
    <2>1. Alive(r)
      BY <1>1, <1>4 DEF Exit, Goto, Alive, TypeOK
    <2>2. Served(r) /\ Called(r) /\ Saved(r)
      BY <2>1 DEF IInv
    <2>3. InPoolProcess(r)' = InPoolProcess(r) /\ NumThreads(r)' = NumThreads(r)
      BY <1>1 DEF Exit, InPoolProcess, NumThreads, TypeOK
    <2> QED
      BY <1>1, <2>1, <2>2, <2>3 DEF Exit, Goto, Served, Called, Saved, Restored, TypeOK
  <1>5. Distinct'
    BY <1>3, <1>4 DEF IInv, Distinct
  <1>6. SignalsOwnWorkersOnly' /\ \A r \in Procs : Quiet(r)'
    BY <1>1 DEF Exit, Goto, IInv, SignalsOwnWorkersOnly, Quiet, TypeOK
  <1> QED
    BY <1>2, <1>3, <1>4, <1>5, <1>6 DEF IInv

LEMMA NextIInv == ASSUME PidReuse = FALSE, IInv, [Next]_vars PROVE IInv'
  <1>1. CASE UNCHANGED vars
    BY <1>1 DEF vars, IInv, TypeOK, Distinct, SignalsOwnWorkersOnly, Quiet, Served,
                Called, Saved, Restored, Alive, InPoolProcess, NumThreads
  <1> QED
    BY <1>1, RStepIInv, ForkIInv, ExitIInv DEF Next

-----------------------------------------------------------------------------

(* What the invariant says of a running program.                           *)
LEMMA IInvMeans ==
  ASSUME IInv
  PROVE  NeverStranded /\ SignalsOwnWorkersOnly /\ CountIsHonest /\ BlocksRestore
  <1> USE BoundsAssumption, NoPoolAssumption
  <1>1. TypeOK
    BY DEF IInv
  <1>2. ASSUME NEW p \in Procs, pc[p] = "pool"
        PROVE  pool[p] # NoPool /\ pool[p].owner = p /\ threads[p] > 0
    <2>1. Served(p) /\ Called(p)
      BY <1>2 DEF IInv, Alive
    <2>2. /\ pool[p] = [owner |-> p, size |-> num[p]]
          /\ threads[p] = num[p] /\ num[p] > 1 /\ num[p] \in Nat
      BY <2>1, <1>1, <1>2 DEF Served, Called, TypeOK, Counts
    <2>3. pool[p] \in [owner : Procs, size : Nat]
      BY <2>2
    <2> QED
      BY <2>2, <2>3
  <1>3. CountIsHonest
    BY <1>1 DEF IInv, CountIsHonest, Served, NumThreads, TypeOK, Counts
  <1>4. BlocksRestore
    BY DEF IInv, BlocksRestore, Saved, Restored
  <1> QED
    BY <1>2, <1>3, <1>4 DEF IInv, NeverStranded

(* The inductive invariant holds throughout every run.                     *)
THEOREM Invariance == ASSUME PidReuse = FALSE PROVE Spec => []IInv
  <1>1. Init => IInv
    BY InitIInv
  <1>2. IInv /\ [Next]_vars => IInv'
    BY NextIInv
  <1> QED
    BY <1>1, <1>2, PTL DEF Spec

(* Type correctness.                                                       *)
THEOREM Typing == ASSUME PidReuse = FALSE PROVE Spec => []TypeOK
  <1>1. IInv => TypeOK
    BY DEF IInv
  <1> QED
    BY <1>1, Invariance, PTL

(* No call, in any process of any tree of forks, waits for workers that do *)
(* not exist there (threading.rs:7-9).                                     *)
THEOREM NoStrandedCall == ASSUME PidReuse = FALSE PROVE Spec => []NeverStranded
  <1>1. IInv => NeverStranded
    BY IInvMeans
  <1> QED
    BY <1>1, Invariance, PTL

(* Replacing the pool never signals another process's workers              *)
(* (threading.rs:43-47).                                                   *)
THEOREM NoForeignSignal ==
  ASSUME PidReuse = FALSE PROVE Spec => []SignalsOwnWorkersOnly
  <1>1. IInv => SignalsOwnWorkersOnly
    BY IInvMeans
  <1> QED
    BY <1>1, Invariance, PTL

(* The reported count is the number of workers serving the process: no     *)
(* leak and no promise of workers that are not there.                      *)
THEOREM HonestCount == ASSUME PidReuse = FALSE PROVE Spec => []CountIsHonest
  <1>1. IInv => CountIsHonest
    BY IInvMeans
  <1> QED
    BY <1>1, Invariance, PTL

(* with() blocks of any depth, left in any way, give back the count they   *)
(* found (threads.R:55-58): restores that fail inside are made good by the *)
(* outermost, and only a failed restore of that one, to a count that needs *)
(* a pool, leaves another count in force.                                  *)
THEOREM BalancedBlocks == ASSUME PidReuse = FALSE PROVE Spec => []BlocksRestore
  <1>1. IInv => BlocksRestore
    BY IInvMeans
  <1> QED
    BY <1>1, Invariance, PTL
=============================================================================
