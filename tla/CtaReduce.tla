------------------------------ MODULE CtaReduce ------------------------------
(***************************************************************************)
(* The block reduction of q38_qk_l2norm_128 and q38_gated_rmsnorm_silu_128 *)
(* (PTX in src/driver.cpp): every thread of a block squares one element,   *)
(* the squares are summed in shared memory by halving, the last warp sums  *)
(* by shuffles, thread 0 publishes the scale and every thread applies it.  *)
(*                                                                         *)
(* A partial sum is abstracted to what it has summed: how often the square *)
(* of each thread is in it.  Threads run in any order between barriers;    *)
(* the lanes of a warp meet only at a shuffle.  The kernels run 128        *)
(* threads in warps of 32: four warps, whatever the width of a warp.       *)
(***************************************************************************)
EXTENDS Naturals

CONSTANT Width   \* lanes of a warp

ASSUME WidthAssumption == Width \in Nat \ {0, 1}

(* A power of two: its only odd divisor is 1.                              *)
ASSUME PowerAssumption ==
  \A k, d \in 1 .. Width : Width = k * d /\ d # 1 => d % 2 = 0

Block   == 4 * Width
Threads == 0 .. Block - 1
Lanes   == 0 .. Width - 1

Sums       == [Threads -> Nat]
Unit(t)    == [x \in Threads |-> IF x = t THEN 1 ELSE 0]
Nothing    == [x \in Threads |-> 0]
Once       == [x \in Threads |-> 1]
Plus(a, b) == [x \in Threads |-> a[x] + b[x]]

VARIABLES
  pc,       \* where each thread is
  off,      \* distance of its current halving or shuffle step
  smem,     \* the shared words
  reg,      \* each thread's partial sum (%f6 / %f9)
  scale,    \* what each thread scaled its element with
  readers,  \* of each word, the threads that read it since the barrier
  writers   \* of each word, the threads that wrote it since the barrier

vars == <<pc, off, smem, reg, scale, readers, writers>>

(* Mutant: the halving starts one step too late.                           *)
Init_HalfStride ==
  /\ pc = [t \in Threads |-> "square"]
  /\ off = [t \in Threads |-> Width]
  /\ smem = [x \in Threads |-> Nothing]
  /\ reg = [t \in Threads |-> Nothing]
  /\ scale = [t \in Threads |-> Nothing]
  /\ readers = [x \in Threads |-> {}] /\ writers = [x \in Threads |-> {}]

Init ==
  /\ pc = [t \in Threads |-> "square"]
  /\ off = [t \in Threads |-> 2 * Width]
  /\ smem = [x \in Threads |-> Nothing]
  /\ reg = [t \in Threads |-> Nothing]
  /\ scale = [t \in Threads |-> Nothing]
  /\ readers = [x \in Threads |-> {}] /\ writers = [x \in Threads |-> {}]

Goto(t, l) == pc' = [pc EXCEPT ![t] = l]

Loads(t, words) ==
  readers' = [x \in Threads |-> IF x \in words THEN readers[x] \cup {t}
                                ELSE readers[x]]

Stores(t, x, v) ==
  /\ smem' = [smem EXCEPT ![x] = v]
  /\ writers' = [writers EXCEPT ![x] = @ \cup {t}]

(* st.shared of the square.                                                *)
Square(t) ==
  /\ pc[t] = "square"
  /\ Stores(t, t, Unit(t))
  /\ Goto(t, "bar")
  /\ UNCHANGED <<off, reg, scale, readers>>

(* bar.sync 0 releases the threads when all have arrived, wherever their   *)
(* bar.sync is.  What follows depends on the thread: a halving step or the *)
(* next barrier, the warp sum or the last barrier, or the scaling.         *)
After(t) == IF off[t] >= Width THEN IF t < off[t] THEN "add" ELSE "bar"
            ELSE IF off[t] > 0 THEN IF t < Width THEN "warp" ELSE "bar"
            ELSE "scale"

(* Mutant: a thread that sits a step out keeps its distance.               *)
Skips_KeepsDistance(t) == off[t]

Skips(t) == IF After(t) # "bar" THEN off[t]
            ELSE IF off[t] >= Width THEN off[t] \div 2 ELSE 0

(* Mutant: a barrier of the first warp only.                               *)
Barrier_OneWarp ==
  /\ \A t \in Lanes : pc[t] = "bar"
  /\ pc' = [t \in Threads |-> IF pc[t] = "bar" THEN After(t) ELSE pc[t]]
  /\ off' = [t \in Threads |-> IF pc[t] = "bar" THEN Skips(t) ELSE off[t]]
  /\ readers' = [x \in Threads |-> {}] /\ writers' = [x \in Threads |-> {}]
  /\ UNCHANGED <<smem, reg, scale>>

Barrier ==
  /\ \A t \in Threads : pc[t] = "bar"
  /\ pc' = [t \in Threads |-> After(t)]
  /\ off' = [t \in Threads |-> Skips(t)]
  /\ readers' = [x \in Threads |-> {}] /\ writers' = [x \in Threads |-> {}]
  /\ UNCHANGED <<smem, reg, scale>>

(* One halving step: two loads, and the store of their sum.                *)
Add(t) ==
  /\ pc[t] = "add"
  /\ reg' = [reg EXCEPT ![t] = Plus(smem[t], smem[t + off[t]])]
  /\ Loads(t, {t, t + off[t]})
  /\ Goto(t, "put")
  /\ UNCHANGED <<off, smem, scale, writers>>

Put(t) ==
  /\ pc[t] = "put"
  /\ Stores(t, t, reg[t])
  /\ off' = [off EXCEPT ![t] = @ \div 2]
  /\ Goto(t, "bar")
  /\ UNCHANGED <<reg, scale, readers>>

(* The first warp: each lane loads its word, then shfl.sync.down over all  *)
(* the lanes with halving distance; a lane past the end gets its own value.*)
Load(t) ==
  /\ pc[t] = "warp"
  /\ reg' = [reg EXCEPT ![t] = smem[t]]
  /\ Loads(t, {t})
  /\ Goto(t, "shfl")
  /\ UNCHANGED <<off, smem, scale, writers>>

Shuffle ==
  /\ \A t \in Lanes : pc[t] = "shfl" /\ off[t] = off[0] /\ off[t] > 0
  /\ reg' = [t \in Threads |->
               IF t \notin Lanes THEN reg[t]
               ELSE Plus(reg[t], IF t + off[t] \in Lanes THEN reg[t + off[t]]
                                 ELSE reg[t])]
  /\ off' = [t \in Threads |-> IF t \in Lanes THEN off[t] \div 2 ELSE off[t]]
  /\ UNCHANGED <<pc, smem, scale, readers, writers>>

(* Thread 0 publishes; the other lanes go to the last barrier.             *)
Publish ==
  /\ pc[0] = "shfl" /\ off[0] = 0
  /\ Stores(0, 0, reg[0])
  /\ Goto(0, "bar")
  /\ UNCHANGED <<off, reg, scale, readers>>

Leave(t) ==
  /\ t # 0 /\ pc[t] = "shfl" /\ off[t] = 0
  /\ Goto(t, "bar")
  /\ UNCHANGED <<off, smem, reg, scale, readers, writers>>

Scale(t) ==
  /\ pc[t] = "scale"
  /\ scale' = [scale EXCEPT ![t] = smem[0]]
  /\ Loads(t, {0})
  /\ Goto(t, "done")
  /\ UNCHANGED <<off, smem, reg, writers>>

Thread(t) == Square(t) \/ Add(t) \/ Put(t) \/ Load(t) \/ Leave(t) \/ Scale(t)

Done == (\A t \in Threads : pc[t] = "done") /\ UNCHANGED vars

Next == (\E t \in Threads : Thread(t)) \/ Barrier \/ Shuffle \/ Publish \/ Done

Spec == Init /\ [][Next]_vars
-----------------------------------------------------------------------------
Labels == {"square", "bar", "add", "put", "warp", "shfl", "scale", "done"}

(* Between two barriers no word that a thread writes is touched by another *)
(* thread: what a load returns does not depend on the order of the warps.  *)
NoRace == \A x \in Threads : \A w \in writers[x] :
            readers[x] \cup writers[x] \subseteq {w}

(* Whatever the order of the threads, each element is scaled with the sum  *)
(* of all the squares, each counted once.                                  *)
ScaledByTheWholeSum == \A t \in Threads : pc[t] = "done" => scale[t] = Once

(* The threads that a barrier releases all waited at the same bar.sync.    *)
BarriersAreAligned ==
  [][Barrier => \A t, u \in Threads : off[t] = off[u]]_vars
=============================================================================
