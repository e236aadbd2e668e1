-------------------------- MODULE Kernels_proofs --------------------------
(***************************************************************************)
(* CtaReduce for every width of a warp: the loads and stores to shared     *)
(* memory never race, the threads always meet at the same barrier, and     *)
(* every element is scaled with the sum of all the squares.  The matrix-   *)
(* vector kernels of WarpGemv, for every shape of a matrix: no load is at  *)
(* an address its width does not divide, and every row stored is the whole *)
(* dot product of its row.                                                 *)
(***************************************************************************)
EXTENDS MCKernels, Sequences, TLAPS

(* Where the threads are between two barriers: all squaring; all in the    *)
(* halving step of distance d, a thread past d skipping it; in the warp    *)
(* sum; or scaling.  A thread has its off as the barrier it is heading to  *)
(* or waiting at wants it.                                                 *)
Squaring ==
  /\ \A t \in Threads : pc[t] \in {"square", "bar"} /\ off[t] = 2 * Width
  /\ \A x \in Threads : writers[x] \subseteq {x} /\ readers[x] = {}

Halving(d) ==
  /\ \A t \in Threads :
       \/ pc[t] \in {"add", "put"} /\ t < d /\ off[t] = d
       \/ pc[t] = "bar" /\ off[t] = d \div 2
  /\ \A x \in Threads :
       /\ writers[x] \subseteq {x} \cap (0 .. d - 1)
       /\ readers[x] \subseteq {x} \cup {t \in Threads : x = t + d}

Shuffling ==
  /\ \A t \in Threads :
       \/ pc[t] \in {"warp", "shfl"} /\ t \in Lanes
       \/ pc[t] = "bar" /\ off[t] = 0
  /\ \A x \in Threads : writers[x] \subseteq {x} /\ readers[x] \subseteq {x}

Scaling ==
  /\ \A t \in Threads : pc[t] \in {"scale", "done"}
  /\ \A x \in Threads : writers[x] = {}

Interval == Squaring \/ Halving(2 * Width) \/ Halving(Width) \/ Shuffling
            \/ Scaling

AccessOK ==
  /\ readers \in [Threads -> SUBSET Threads]
  /\ writers \in [Threads -> SUBSET Threads]
  /\ pc \in [Threads -> Labels] /\ off \in [Threads -> Nat]

IInv == AccessOK /\ Interval
-----------------------------------------------------------------------------
(* What the proofs use of the geometry of the block.                       *)
LEMMA Geometry ==
  /\ Width \in Nat /\ Width > 1 /\ 2 * Width \in Nat
  /\ 2 * Width < Block /\ Threads \subseteq Nat /\ 0 \in Threads
  /\ (2 * Width) \div 2 = Width
  /\ Width \div 2 \in Nat /\ Width \div 2 < Width /\ Width \div 2 > 0
  /\ Lanes \subseteq Threads /\ \A t \in Threads : t \in Lanes <=> t < Width
  BY WidthAssumption DEF Block, Threads, Lanes

(* The accesses, labels and distances keep their types.                    *)
LEMMA AccessStep == AccessOK /\ [Next]_vars => AccessOK'
<1> SUFFICES ASSUME AccessOK, [Next]_vars PROVE AccessOK'
  OBVIOUS
<1> USE DEF AccessOK, Labels, Goto, Loads, Stores
<1>1. ASSUME NEW t \in Threads, Square(t) PROVE AccessOK'
  BY <1>1 DEF Square
<1>2. ASSUME NEW t \in Threads, Add(t) PROVE AccessOK'
  BY <1>2 DEF Add
<1>3. ASSUME NEW t \in Threads, Put(t) PROVE AccessOK'
  <2>1. off[t] \div 2 \in Nat
    OBVIOUS
  <2>2. off' \in [Threads -> Nat]
    BY <1>3, <2>1 DEF Put
  <2>. QED
    BY <1>3, <2>2 DEF Put
<1>4. ASSUME NEW t \in Threads, Load(t) PROVE AccessOK'
  BY <1>4 DEF Load
<1>5. ASSUME NEW t \in Threads, Leave(t) PROVE AccessOK'
  BY <1>5 DEF Leave
<1>6. ASSUME NEW t \in Threads, Scale(t) PROVE AccessOK'
  BY <1>6 DEF Scale
<1>7. CASE Barrier
  <2>1. \A t \in Threads : Skips(t) \in Nat
    <3> SUFFICES ASSUME NEW t \in Threads PROVE Skips(t) \in Nat
      OBVIOUS
    <3>1. off[t] \in Nat /\ off[t] \div 2 \in Nat
      OBVIOUS
    <3>. QED
      BY <3>1 DEF Skips
  <2>2. \A t \in Threads : After(t) \in Labels
    BY DEF After
  <2>3. off' \in [Threads -> Nat] /\ pc' \in [Threads -> Labels]
    BY <1>7, <2>1, <2>2 DEF Barrier
  <2>. QED
    BY <1>7, <2>3 DEF Barrier
<1>8. CASE Shuffle
  <2>1. \A t \in Threads : off[t] \in Nat /\ off[t] \div 2 \in Nat
    OBVIOUS
  <2>2. off' \in [Threads -> Nat]
    BY <1>8, <2>1 DEF Shuffle
  <2>. QED
    BY <1>8, <2>2 DEF Shuffle
<1>9. CASE Publish
  BY <1>9, Geometry DEF Publish
<1>10. CASE UNCHANGED vars
  BY <1>10 DEF vars
<1>. QED
  BY <1>1, <1>2, <1>3, <1>4, <1>5, <1>6, <1>7, <1>8, <1>9, <1>10
     DEF Next, Thread, Done

(* From one interval to the next.                                          *)
LEMMA FromSquaring ==
  AccessOK /\ Squaring /\ [Next]_vars =>
    IF Barrier THEN Halving(2 * Width)' ELSE Squaring'
<1> SUFFICES ASSUME AccessOK, Squaring, [Next]_vars
             PROVE  IF Barrier THEN Halving(2 * Width)' ELSE Squaring'
  OBVIOUS
<1> USE DEF AccessOK, Squaring
<1>1. ASSUME NEW t \in Threads, Square(t) PROVE Squaring'
  BY <1>1 DEF Square, Goto, Stores
<1>2. ASSUME Barrier PROVE Halving(2 * Width)'
  <2>1. \A t \in Threads :
          /\ pc'[t] = (IF t < 2 * Width THEN "add" ELSE "bar")
          /\ off'[t] = (IF t < 2 * Width THEN 2 * Width ELSE Width)
    BY <1>2, Geometry DEF Barrier, After, Skips
  <2>2. \A x \in Threads : writers'[x] = {} /\ readers'[x] = {}
    BY <1>2 DEF Barrier
  <2>. QED
    BY <2>1, <2>2, Geometry DEF Halving
<1>3. ASSUME UNCHANGED vars PROVE Squaring'
  BY <1>3 DEF vars
<1>4. ~Shuffle /\ ~Publish
  BY Geometry DEF Shuffle, Publish, Lanes
<1>5. \A t \in Threads : Thread(t) => Square(t)
  BY DEF Thread, Add, Put, Load, Leave, Scale
<1>. QED
  BY <1>1, <1>2, <1>3, <1>4, <1>5 DEF Next, Done

(* Between two barriers of one halving level nothing but the lower half is *)
(* written, and only from the upper half.                                  *)
LEMMA WithinHalving ==
  ASSUME NEW d \in {Width, 2 * Width}, AccessOK, Halving(d), [Next]_vars,
         ~Barrier
  PROVE  Halving(d)'
<1> USE DEF AccessOK, Halving
<1>0. d \in Nat /\ d \div 2 \in Nat
  BY Geometry
<1>1. ASSUME NEW t \in Threads, Add(t) PROVE Halving(d)'
  <2>1. pc[t] = "add" /\ t < d /\ off[t] = d
    BY <1>1 DEF Add
  <2>2. /\ pc' = [pc EXCEPT ![t] = "put"] /\ UNCHANGED <<off, writers>>
        /\ \A x \in Threads : readers'[x] \subseteq
             readers[x] \cup {u \in Threads : u = t /\ (x = u \/ x = u + d)}
    BY <1>1, <2>1 DEF Add, Goto, Loads
  <2>3. \A u \in Threads : \/ pc'[u] \in {"add", "put"} /\ u < d /\ off'[u] = d
                           \/ pc'[u] = "bar" /\ off'[u] = d \div 2
    BY <2>1, <2>2
  <2>. QED
    BY <2>2, <2>3
<1>2. ASSUME NEW t \in Threads, Put(t) PROVE Halving(d)'
  <2>1. pc[t] = "put" /\ t < d /\ off[t] = d
    BY <1>2 DEF Put
  <2>2. /\ pc' = [pc EXCEPT ![t] = "bar"]
        /\ off' = [off EXCEPT ![t] = d \div 2] /\ UNCHANGED readers
        /\ writers' = [writers EXCEPT ![t] = @ \cup {t}]
    BY <1>2, <2>1 DEF Put, Goto, Stores
  <2>3. t \in 0 .. d - 1
    BY <1>0, <2>1, Geometry
  <2>4. \A x \in Threads : writers'[x] \subseteq {x} \cap (0 .. d - 1)
    BY <2>2, <2>3
  <2>. QED
    BY <2>2, <2>4
<1>3. CASE UNCHANGED vars
  BY <1>3 DEF vars
<1>4. ~Shuffle /\ ~Publish
  BY Geometry DEF Shuffle, Publish, Lanes
<1>5. \A t \in Threads : Thread(t) => Add(t) \/ Put(t)
  BY DEF Thread, Square, Load, Leave, Scale
<1>. QED
  BY <1>1, <1>2, <1>3, <1>4, <1>5 DEF Next, Done

(* The barrier that ends a halving level starts the next one, the last of  *)
(* them starts the warp shuffle.                                           *)
LEMMA FromHalving ==
  AccessOK /\ [Next]_vars =>
    /\ Halving(2 * Width) =>
         IF Barrier THEN Halving(Width)' ELSE Halving(2 * Width)'
    /\ Halving(Width) => IF Barrier THEN Shuffling' ELSE Halving(Width)'
<1> SUFFICES ASSUME AccessOK, [Next]_vars
             PROVE  /\ Halving(2 * Width) =>
                         IF Barrier THEN Halving(Width)' ELSE Halving(2 * Width)'
                    /\ Halving(Width) =>
                         IF Barrier THEN Shuffling' ELSE Halving(Width)'
  OBVIOUS
<1>1. CASE ~Barrier
  BY <1>1, WithinHalving
<1>2. CASE Barrier
  <2>1. \A x \in Threads : writers'[x] = {} /\ readers'[x] = {}
    BY <1>2 DEF Barrier
  <2>2. ASSUME Halving(2 * Width) PROVE Halving(Width)'
    <3>1. \A t \in Threads : off[t] = Width
      BY <1>2, <2>2, Geometry DEF Halving, Barrier
    <3>2. \A t \in Threads :
            /\ pc'[t] = (IF t < Width THEN "add" ELSE "bar")
            /\ off'[t] = (IF t < Width THEN Width ELSE Width \div 2)
      BY <1>2, <3>1, Geometry DEF Barrier, After, Skips
    <3>. QED
      BY <2>1, <3>2 DEF Halving
  <2>3. ASSUME Halving(Width) PROVE Shuffling'
    <3>1. \A t \in Threads : off[t] = Width \div 2
      BY <1>2, <2>3, Geometry DEF Halving, Barrier
    <3>2. \A t \in Threads :
            \/ pc'[t] = "warp" /\ t < Width
            \/ pc'[t] = "bar" /\ off'[t] = 0
      BY <1>2, <3>1, Geometry DEF Barrier, After, Skips
    <3>. QED
      BY <2>1, <3>2, Geometry DEF Shuffling
  <2>. QED
    BY <1>2, <2>2, <2>3
<1>. QED
  BY <1>1, <1>2

(* The shuffle of warp 0 ends at the barrier after which every thread scales. *)
LEMMA FromShuffling ==
  AccessOK /\ Shuffling /\ [Next]_vars =>
    IF Barrier THEN Scaling' ELSE Shuffling'
<1> SUFFICES ASSUME AccessOK, Shuffling, [Next]_vars
             PROVE  IF Barrier THEN Scaling' ELSE Shuffling'
  OBVIOUS
<1> USE DEF AccessOK, Shuffling
<1>1. ASSUME NEW t \in Threads, Load(t) PROVE Shuffling'
  BY <1>1 DEF Load, Goto, Loads
<1>2. ASSUME NEW t \in Threads, Leave(t) PROVE Shuffling'
  BY <1>2 DEF Leave, Goto
<1>3. ASSUME Publish PROVE Shuffling'
  BY <1>3, Geometry DEF Publish, Goto, Stores
<1>4. ASSUME Shuffle PROVE Shuffling'
  <2>1. UNCHANGED <<pc, readers, writers>>
    BY <1>4 DEF Shuffle
  <2>2. \A t \in Threads : pc[t] = "bar" => off'[t] = 0
    BY <1>4, Geometry DEF Shuffle
  <2>. QED
    BY <2>1, <2>2
<1>5. ASSUME Barrier PROVE Scaling'
  <2>1. \A t \in Threads : pc'[t] = "scale"
    BY <1>5, Geometry DEF Barrier, After
  <2>2. \A x \in Threads : writers'[x] = {}
    BY <1>5 DEF Barrier
  <2>. QED
    BY <2>1, <2>2 DEF Scaling
<1>6. ASSUME UNCHANGED vars PROVE Shuffling'
  BY <1>6 DEF vars
<1>7. \A t \in Threads : Thread(t) => Load(t) \/ Leave(t)
  BY DEF Thread, Square, Add, Put, Scale
<1>. QED
  BY <1>1, <1>2, <1>3, <1>4, <1>5, <1>6, <1>7 DEF Next, Done

(* Scaling reads the published factor and writes no shared word.           *)
LEMMA FromScaling == AccessOK /\ Scaling /\ [Next]_vars => Scaling'
<1> SUFFICES ASSUME AccessOK, Scaling, [Next]_vars PROVE Scaling'
  OBVIOUS
<1> USE DEF AccessOK, Scaling
<1>1. ASSUME NEW t \in Threads, Scale(t) PROVE Scaling'
  BY <1>1 DEF Scale, Goto
<1>2. CASE UNCHANGED vars
  BY <1>2 DEF vars
<1>3. ~Shuffle /\ ~Publish /\ ~Barrier
  BY Geometry DEF Shuffle, Publish, Barrier, Lanes
<1>4. \A t \in Threads : Thread(t) => Scale(t)
  BY DEF Thread, Square, Add, Put, Load, Leave
<1>. QED
  BY <1>1, <1>2, <1>3, <1>4 DEF Next, Done
-----------------------------------------------------------------------------
(* The accesses of every reachable state are those of one interval.        *)
THEOREM Inductive == Spec => []IInv
<1>1. Init => IInv
  BY Geometry DEF Init, IInv, AccessOK, Interval, Squaring, Labels
<1>2. IInv /\ [Next]_vars => IInv'
  BY AccessStep, FromSquaring, FromHalving, FromShuffling, FromScaling
     DEF IInv, Interval
<1>. QED
  BY <1>1, <1>2, PTL DEF Spec

(* For every width of a warp, no two threads touch a word of shared memory *)
(* between two barriers when one of them writes it.                        *)
THEOREM NoRaceHolds == Spec => []NoRace
<1>1. ASSUME IInv, NEW x \in Threads, NEW w \in writers[x]
      PROVE  readers[x] \cup writers[x] \subseteq {w}
  <2>1. CASE Squaring
    BY <1>1, <2>1 DEF Squaring
  <2>2. ASSUME NEW d \in {Width, 2 * Width}, Halving(d)
        PROVE  readers[x] \cup writers[x] \subseteq {w}
    <3>1. w = x /\ x \in 0 .. d - 1 /\ writers[x] \subseteq {x}
      BY <1>1, <2>2 DEF Halving
    <3>2. \A t \in Threads : x # t + d
      BY <3>1, Geometry
    <3>. QED
      BY <2>2, <3>1, <3>2 DEF Halving
  <2>3. CASE Shuffling
    BY <1>1, <2>3 DEF Shuffling
  <2>4. CASE Scaling
    BY <1>1, <2>4 DEF Scaling
  <2>. QED
    BY <1>1, <2>1, <2>2, <2>3, <2>4 DEF IInv, Interval
<1>2. IInv => NoRace
  BY <1>1 DEF NoRace
<1>. QED
  BY Inductive, <1>2, PTL

(* For every width of a warp, a barrier releases threads that all waited   *)
(* for the same reduction step.                                            *)
THEOREM BarriersAreAlignedHolds == Spec => BarriersAreAligned
<1>1. IInv /\ Barrier => \A t, u \in Threads : off[t] = off[u]
  BY Geometry DEF IInv, Interval, Barrier, Squaring, Halving, Shuffling, Scaling
<1>2. IInv /\ [Next]_vars =>
        [Barrier => \A t, u \in Threads : off[t] = off[u]]_vars
  BY <1>1
<1>. QED
  BY Inductive, <1>2, PTL DEF Spec, BarriersAreAligned
-----------------------------------------------------------------------------
(* The sums.  At every distance d each square is in exactly one of the     *)
(* first d partial sums: own says in which.                                *)
Share(own, t) == [x \in Threads |-> IF own[x] = t THEN 1 ELSE 0]
Sharing(d)    == [Threads -> 0 .. d - 1]

SquaresIn == \A t \in Threads : pc[t] = "bar" => smem[t] = Unit(t)

(* In the halving step of distance d: word t takes over word t + d.        *)
HalvingSums(d) ==
  \E own \in Sharing(2 * d) : \A t \in Threads : t < d =>
    LET both == Plus(Share(own, t), Share(own, t + d)) IN
    /\ smem[t + d] = Share(own, t + d)
    /\ pc[t] \in {"add", "put"} => smem[t] = Share(own, t)
    /\ pc[t] = "put" => reg[t] = both
    /\ pc[t] = "bar" => smem[t] = both

(* In the warp sum: the first d lanes have everything, and d divides the   *)
(* width.  A lane that has left has d = 1, and so has the word published.  *)
ShuffleSums(d) ==
  /\ d \in 1 .. Width
  /\ \E k \in 1 .. Width : Width = k * d
  /\ \A t \in Lanes : off[t] = d \div 2
  /\ \A t \in Lanes : pc[t] = "warp" => d = Width
  /\ \A t \in Lanes : pc[t] = "bar" => d = 1
  /\ \E own \in Sharing(d) : \A t \in 0 .. d - 1 :
       /\ pc[t] = "warp" => smem[t] = Share(own, t)
       /\ pc[t] = "shfl" => reg[t] = Share(own, t)
       /\ pc[t] = "bar"  => smem[t] = Share(own, t)

Published == smem[0] = Once /\ \A t \in Threads : pc[t] = "done" => scale[t] = Once

Tables == /\ smem \in [Threads -> Sums] /\ reg \in [Threads -> Sums]
          /\ scale \in [Threads -> Sums]

SumsOK ==
  \/ Squaring /\ SquaresIn
  \/ \E d \in {Width, 2 * Width} : Halving(d) /\ HalvingSums(d)
  \/ Shuffling /\ \E d \in 1 .. Width : ShuffleSums(d)
  \/ Scaling /\ Published

SInv == AccessOK /\ Tables /\ SumsOK

LEMMA SumTypes ==
  /\ \A t \in Threads : Unit(t) \in Sums
  /\ \A a, b \in Sums : Plus(a, b) \in Sums
  BY DEF Unit, Plus, Sums

(* Adding word t + d to word t leaves every square in one of the first d.  *)
LEMMA Merge ==
  ASSUME NEW d \in Nat, d > 0, NEW own \in Sharing(2 * d)
  PROVE  \E half \in Sharing(d) : \A t \in 0 .. d - 1 :
           Share(half, t) = Plus(Share(own, t), Share(own, t + d))
<1> DEFINE half == [x \in Threads |-> IF own[x] < d THEN own[x] ELSE own[x] - d]
<1>1. \A x \in Threads : own[x] \in 0 .. 2 * d - 1
  BY DEF Sharing
<1>2. half \in Sharing(d)
  BY <1>1 DEF Sharing
<1>3. ASSUME NEW t \in 0 .. d - 1
      PROVE  Share(half, t) = Plus(Share(own, t), Share(own, t + d))
  <2>1. ASSUME NEW x \in Threads
        PROVE  Share(half, t)[x] = Share(own, t)[x] + Share(own, t + d)[x]
    <3>1. own[x] \in 0 .. 2 * d - 1 /\ half[x] = IF own[x] < d THEN own[x]
                                                ELSE own[x] - d
      BY <1>1
    <3> HIDE DEF half
    <3>. QED
      BY <3>1 DEF Share
  <2>. QED
    BY <2>1 DEF Share, Plus
<1>. QED
  BY <1>2, <1>3

LEMMA TablesStep == SInv /\ [Next]_vars => Tables'
<1> SUFFICES ASSUME SInv, [Next]_vars PROVE Tables'
  OBVIOUS
<1> USE DEF SInv, Tables, AccessOK
<1>1. ASSUME NEW t \in Threads, Square(t) PROVE Tables'
  BY <1>1, SumTypes DEF Square, Stores
<1>2. ASSUME NEW t \in Threads, Add(t) PROVE Tables'
  <2>1. t + off[t] \in Threads
    <3>1. pc[t] = "add"
      BY <1>2 DEF Add
    <3>2. \E d \in {Width, 2 * Width} : Halving(d)
      BY <3>1 DEF SumsOK, Squaring, Shuffling, Scaling
    <3>3. off[t] \in {Width, 2 * Width} /\ t < off[t]
      BY <3>1, <3>2 DEF Halving
    <3>. QED
      BY <3>3, Geometry DEF Threads, Block
  <2>. QED
    BY <1>2, <2>1, SumTypes DEF Add
<1>3. ASSUME NEW t \in Threads, Put(t) PROVE Tables'
  BY <1>3 DEF Put, Stores
<1>4. ASSUME NEW t \in Threads, Load(t) PROVE Tables'
  BY <1>4 DEF Load
<1>5. ASSUME NEW t \in Threads, Leave(t) PROVE Tables'
  BY <1>5 DEF Leave
<1>6. ASSUME NEW t \in Threads, Scale(t) PROVE Tables'
  BY <1>6, Geometry DEF Scale
<1>7. ASSUME Barrier PROVE Tables'
  BY <1>7 DEF Barrier
<1>8. ASSUME Shuffle PROVE Tables'
  <2>1. \A t \in Lanes : t + off[t] \in Lanes => reg[t + off[t]] \in Sums
    BY Geometry
  <2>2. reg' \in [Threads -> Sums]
    BY <1>8, <2>1, Geometry, SumTypes DEF Shuffle
  <2>. QED
    BY <1>8, <2>2 DEF Shuffle
<1>9. ASSUME Publish PROVE Tables'
  BY <1>9, Geometry DEF Publish, Stores
<1>10. ASSUME UNCHANGED vars PROVE Tables'
  BY <1>10 DEF vars
<1>. QED
  BY <1>1, <1>2, <1>3, <1>4, <1>5, <1>6, <1>7, <1>8, <1>9, <1>10
     DEF Next, Thread, Done

(* The squares are in, each in its own word.                               *)
LEMMA SumsFromSquaring ==
  ASSUME AccessOK, Tables, Squaring, SquaresIn, [Next]_vars
  PROVE  SumsOK'
<1> USE DEF AccessOK, Tables
<1>1. CASE Barrier
  <2>1. Halving(2 * Width)'
    BY <1>1, FromSquaring
  <2>2. \A t \in Threads : smem'[t] = Unit(t)
    BY <1>1 DEF Barrier, SquaresIn
  <2> DEFINE own == [x \in Threads |-> x]
  <2>3. own \in Sharing(2 * (2 * Width))
    BY Geometry DEF Sharing, Threads, Block
  <2>4. \A t \in Threads : Share(own, t) = Unit(t)
    BY DEF Share, Unit
  <2>5. \A t \in Threads : pc'[t] \in {"add", "bar"}
          /\ (t < 2 * Width => pc'[t] = "add" /\ t + 2 * Width \in Threads)
    BY <1>1, Geometry DEF Barrier, After, Squaring, Threads, Block
  <2> HIDE DEF own
  <2>6. HalvingSums(2 * Width)'
    BY <2>2, <2>3, <2>4, <2>5 DEF HalvingSums
  <2>. QED
    BY <2>1, <2>6 DEF SumsOK
<1>2. CASE ~Barrier
  <2>1. Squaring'
    BY <1>2, FromSquaring
  <2>2. ASSUME NEW t \in Threads, Square(t) PROVE SquaresIn'
    BY <2>2 DEF Square, Stores, Goto, SquaresIn
  <2>3. ASSUME UNCHANGED vars PROVE SquaresIn'
    BY <2>3 DEF vars, SquaresIn
  <2>4. ~Shuffle /\ ~Publish
    BY Geometry DEF Shuffle, Publish, Lanes, Squaring
  <2>5. \A t \in Threads : Thread(t) => Square(t)
    BY DEF Thread, Add, Put, Load, Leave, Scale, Squaring
  <2>. QED
    BY <1>2, <2>1, <2>2, <2>3, <2>4, <2>5 DEF Next, Done, SumsOK
<1>. QED
  BY <1>1, <1>2

(* Within a halving step own stays.                                        *)
LEMMA SumsWithinHalving ==
  ASSUME NEW d \in {Width, 2 * Width}, AccessOK, Tables, Halving(d),
         HalvingSums(d), [Next]_vars, ~Barrier
  PROVE  HalvingSums(d)'
<1> USE DEF AccessOK, Tables
<1>0. d \in Nat /\ d > 0 /\ \A t \in Threads : t < d => t + d \in Threads
                                               /\ t + d # t /\ ~ (t + d < d)
  BY Geometry DEF Threads, Block
<1>1. PICK own \in Sharing(2 * d) : \A t \in Threads : t < d =>
    LET both == Plus(Share(own, t), Share(own, t + d)) IN
    /\ smem[t + d] = Share(own, t + d)
    /\ pc[t] \in {"add", "put"} => smem[t] = Share(own, t)
    /\ pc[t] = "put" => reg[t] = both
    /\ pc[t] = "bar" => smem[t] = both
  BY DEF HalvingSums
<1> SUFFICES ASSUME NEW t \in Threads, t < d
             PROVE
    LET both == Plus(Share(own, t), Share(own, t + d)) IN
    /\ smem'[t + d] = Share(own, t + d)
    /\ pc'[t] \in {"add", "put"} => smem'[t] = Share(own, t)
    /\ pc'[t] = "put" => reg'[t] = both
    /\ pc'[t] = "bar" => smem'[t] = both
  BY DEF HalvingSums
<1> HIDE DEF Share, Plus
<1>2. ASSUME NEW u \in Threads, Add(u)
      PROVE  /\ smem' = smem /\ (u # t => pc'[t] = pc[t] /\ reg'[t] = reg[t])
             /\ u = t => /\ pc[t] = "add" /\ pc'[t] = "put"
                         /\ reg'[t] = Plus(smem[t], smem[t + d])
  BY <1>2 DEF Add, Goto, Halving
<1>3. ASSUME NEW u \in Threads, Put(u)
      PROVE  /\ u < d /\ reg' = reg /\ smem'[t + d] = smem[t + d]
             /\ u # t => pc'[t] = pc[t] /\ smem'[t] = smem[t]
             /\ u = t => pc[t] = "put" /\ pc'[t] = "bar" /\ smem'[t] = reg[t]
  <2>1. u < d
    BY <1>3 DEF Put, Halving
  <2>. QED
    BY <1>0, <1>3, <2>1 DEF Put, Goto, Stores
<1>4. CASE \E u \in Threads : Add(u)
  BY <1>1, <1>2, <1>4
<1>5. CASE \E u \in Threads : Put(u)
  BY <1>1, <1>3, <1>5
<1>6. CASE UNCHANGED vars
  BY <1>1, <1>6 DEF vars
<1>7. ~Shuffle /\ ~Publish
  BY Geometry DEF Shuffle, Publish, Lanes, Halving
<1>8. \A u \in Threads : Thread(u) => Add(u) \/ Put(u)
  BY DEF Thread, Square, Load, Leave, Scale, Halving
<1>. QED
  BY <1>4, <1>5, <1>6, <1>7, <1>8 DEF Next, Done

(* When all have stored, the first d words share the squares.              *)
LEMMA Halved ==
  ASSUME NEW d \in {Width, 2 * Width}, AccessOK, HalvingSums(d), Barrier
  PROVE  \E own \in Sharing(d) : \A t \in 0 .. d - 1 : smem'[t] = Share(own, t)
<1>0. d \in Nat /\ d > 0 /\ 0 .. d - 1 \subseteq Threads
  BY Geometry DEF Threads, Block
<1>1. PICK own \in Sharing(2 * d) : \A t \in Threads :
        t < d => (pc[t] = "bar" =>
                    smem[t] = Plus(Share(own, t), Share(own, t + d)))
  BY DEF HalvingSums
<1>2. PICK half \in Sharing(d) : \A t \in 0 .. d - 1 :
           Share(half, t) = Plus(Share(own, t), Share(own, t + d))
  BY <1>0, Merge
<1>3. smem' = smem /\ \A t \in Threads : pc[t] = "bar"
  BY DEF Barrier
<1> HIDE DEF Share, Plus
<1>. QED
  BY <1>0, <1>1, <1>2, <1>3

LEMMA SumsFromHalving ==
  ASSUME NEW d \in {Width, 2 * Width}, AccessOK, Tables, Halving(d),
         HalvingSums(d), [Next]_vars
  PROVE  SumsOK'
<1> USE DEF AccessOK, Tables
<1>1. CASE ~Barrier
  BY <1>1, WithinHalving, SumsWithinHalving DEF SumsOK
<1>2. CASE Barrier
  <2>1. PICK own \in Sharing(d) : \A t \in 0 .. d - 1 : smem'[t] = Share(own, t)
    BY <1>2, Halved
  <2> HIDE DEF Share, Plus
  <2>2. CASE d = 2 * Width
    <3>1. Halving(Width)'
      BY <1>2, <2>2, FromHalving
    <3>2. \A t \in Threads : off[t] = Width
      BY <1>2, <2>2, Geometry DEF Halving, Barrier
    <3>3. \A t \in Threads : pc'[t] = IF t < Width THEN "add" ELSE "bar"
      BY <1>2, <3>2, Geometry DEF Barrier, After
    <3>4. \A t \in Threads : t < Width =>
            t \in 0 .. d - 1 /\ t + Width \in 0 .. d - 1
      BY <2>2, Geometry
    <3>5. HalvingSums(Width)'
      BY <2>1, <2>2, <3>3, <3>4 DEF HalvingSums
    <3>. QED
      BY <3>1, <3>5 DEF SumsOK
  <2>3. CASE d = Width
    <3>1. Shuffling'
      BY <1>2, <2>3, FromHalving
    <3>2. \A t \in Threads : off[t] = Width \div 2
      BY <1>2, <2>3, Geometry DEF Halving, Barrier
    <3>3. \A t \in Lanes : pc'[t] = "warp" /\ off'[t] = Width \div 2
      BY <1>2, <3>2, Geometry DEF Barrier, After, Skips
    <3>4. Width \in 1 .. Width /\ 1 \in 1 .. Width /\ Width = 1 * Width
          /\ Lanes = 0 .. Width - 1
      BY Geometry DEF Lanes
    <3>5. ShuffleSums(Width)'
      BY <2>1, <2>3, <3>3, <3>4 DEF ShuffleSums
    <3>. QED
      BY <3>1, <3>4, <3>5 DEF SumsOK
  <2>. QED
    BY <2>2, <2>3, Geometry
<1>. QED
  BY <1>1, <1>2

(* The distance of a shuffle halves d exactly.                             *)
LEMMA Halves ==
  ASSUME NEW d \in 1 .. Width, d # 1, NEW k \in 1 .. Width, Width = k * d
  PROVE  /\ d \div 2 \in 1 .. Width /\ d = 2 * (d \div 2)
         /\ \E j \in 1 .. Width : Width = j * (d \div 2)
<1>1. d % 2 = 0 /\ d \in Nat /\ k \in Nat
  BY PowerAssumption, WidthAssumption
<1>2. PICK h \in Nat : d = 2 * h /\ h = d \div 2 /\ h > 0
  BY <1>1
<1>3. Width = (2 * k) * h
  <2>1. k * (2 * h) = (2 * k) * h
    BY <1>1, <1>2
  <2>. QED
    BY <1>2, <2>1
<1>4. 2 * k \in 1 .. Width
  <2>1. 2 * k <= (2 * k) * h
    <3>1. \A a, b \in Nat : b > 0 => a <= a * b
      OBVIOUS
    <3>. QED
      BY <1>1, <1>2, <3>1
  <2>. QED
    BY <1>1, <1>3, <2>1, WidthAssumption
<1>. QED
  BY <1>2, <1>3, <1>4, WidthAssumption

LEMMA SumsWithinShuffling ==
  ASSUME NEW d \in 1 .. Width, AccessOK, Tables, Shuffling, ShuffleSums(d),
         [Next]_vars, ~Barrier
  PROVE  \E e \in 1 .. Width : ShuffleSums(e)'
<1> USE DEF AccessOK, Tables
<1>0. /\ d \in Nat /\ d > 0 /\ 0 .. d - 1 \subseteq Lanes
      /\ Lanes \subseteq Threads /\ 0 \in Lanes
      /\ (d \div 2 = 0 <=> d = 1) /\ Width # 1
  BY Geometry DEF Lanes
<1>1. PICK own \in Sharing(d) : \A t \in 0 .. d - 1 :
       /\ pc[t] = "warp" => smem[t] = Share(own, t)
       /\ pc[t] = "shfl" => reg[t] = Share(own, t)
       /\ pc[t] = "bar"  => smem[t] = Share(own, t)
  BY DEF ShuffleSums
<1>2. /\ \E k \in 1 .. Width : Width = k * d
      /\ \A t \in Lanes : off[t] = d \div 2
      /\ \A t \in Lanes : pc[t] = "warp" => d = Width
      /\ \A t \in Lanes : pc[t] = "bar" => d = 1
  BY DEF ShuffleSums
<1> HIDE DEF Share, Plus
<1>3. ASSUME NEW u \in Threads, Load(u) PROVE ShuffleSums(d)'
  <2>1. /\ off' = off /\ smem' = smem
        /\ pc[u] = "warp" /\ pc' = [pc EXCEPT ![u] = "shfl"]
        /\ reg' = [reg EXCEPT ![u] = smem[u]]
    BY <1>3 DEF Load, Goto
  <2>2. \A t \in Threads : \/ t # u /\ pc'[t] = pc[t] /\ reg'[t] = reg[t]
                           \/ t = u /\ pc'[t] = "shfl" /\ reg'[t] = smem[t]
    BY <2>1
  <2>3. \A t \in 0 .. d - 1 :
       /\ pc'[t] = "warp" => smem'[t] = Share(own, t)
       /\ pc'[t] = "shfl" => reg'[t] = Share(own, t)
       /\ pc'[t] = "bar"  => smem'[t] = Share(own, t)
    BY <1>0, <1>1, <2>1, <2>2
  <2>. QED
    BY <1>0, <1>2, <2>1, <2>2, <2>3 DEF ShuffleSums
<1>4. ASSUME NEW u \in Threads, Leave(u) PROVE ShuffleSums(d)'
  <2>1. /\ off' = off /\ smem' = smem /\ reg' = reg /\ u # 0 /\ off[u] = 0
        /\ pc[u] = "shfl" /\ pc' = [pc EXCEPT ![u] = "bar"]
    BY <1>4 DEF Leave, Goto
  <2>2. u \in Lanes
    BY <2>1 DEF Shuffling
  <2>3. d = 1
    BY <1>0, <1>2, <2>1, <2>2
  <2>4. \A t \in Threads : t # u => pc'[t] = pc[t]
    BY <2>1
  <2>5. \A t \in 0 .. d - 1 : t # u
    BY <2>1, <2>3
  <2>6. \A t \in 0 .. d - 1 :
       /\ pc'[t] = "warp" => smem'[t] = Share(own, t)
       /\ pc'[t] = "shfl" => reg'[t] = Share(own, t)
       /\ pc'[t] = "bar"  => smem'[t] = Share(own, t)
    BY <1>0, <1>1, <2>1, <2>4, <2>5
  <2>7. \A t \in Lanes : pc'[t] = "warp" => d = Width
    BY <1>0, <1>2, <2>1, <2>4
  <2>. QED
    BY <1>2, <2>1, <2>3, <2>6, <2>7 DEF ShuffleSums
<1>5. ASSUME Publish PROVE ShuffleSums(d)'
  <2>1. /\ pc[0] = "shfl" /\ off[0] = 0 /\ off' = off
        /\ pc' = [pc EXCEPT ![0] = "bar"] /\ smem' = [smem EXCEPT ![0] = reg[0]]
    BY <1>5 DEF Publish, Goto, Stores
  <2>2. d = 1
    BY <1>0, <1>2, <2>1
  <2>3. pc'[0] = "bar" /\ smem'[0] = reg[0] /\ reg[0] = Share(own, 0)
    BY <1>0, <1>1, <2>1, <2>2
  <2>4. \A t \in 0 .. d - 1 : t = 0
    BY <2>2
  <2>5. \A t \in Lanes : pc'[t] = "warp" => d = Width
    BY <1>0, <1>2, <2>1
  <2>6. \A t \in 0 .. d - 1 :
       /\ pc'[t] = "warp" => smem'[t] = Share(own, t)
       /\ pc'[t] = "shfl" => reg'[t] = Share(own, t)
       /\ pc'[t] = "bar"  => smem'[t] = Share(own, t)
    BY <2>3, <2>4
  <2>. QED
    BY <1>2, <2>1, <2>2, <2>5, <2>6 DEF ShuffleSums
<1>6. ASSUME Shuffle PROVE \E e \in 1 .. Width : ShuffleSums(e)'
  <2> DEFINE h == d \div 2
  <2>1. /\ \A t \in Lanes : pc[t] = "shfl" /\ off[t] > 0
        /\ pc' = pc /\ smem' = smem
        /\ \A t \in Lanes : off'[t] = off[t] \div 2
        /\ \A t \in Lanes : t + off[t] \in Lanes =>
             reg'[t] = Plus(reg[t], reg[t + off[t]])
    BY <1>0, <1>6 DEF Shuffle
  <2>2. d # 1
    BY <1>0, <1>2, <2>1
  <2>3. /\ h \in 1 .. Width /\ d = 2 * h
        /\ \E j \in 1 .. Width : Width = j * h
    BY <1>2, <2>2, Halves
  <2> HIDE DEF h
  <2>4. PICK half \in Sharing(h) : \A t \in 0 .. h - 1 :
           Share(half, t) = Plus(Share(own, t), Share(own, t + h))
    BY <2>3, Merge
  <2>5. \A t \in Lanes : off[t] = h /\ off'[t] = h \div 2
    BY <1>2, <2>1 DEF h
  <2>6. ASSUME NEW t \in 0 .. h - 1
        PROVE  pc'[t] = "shfl" /\ reg'[t] = Share(half, t)
    <3>1. t \in 0 .. d - 1 /\ t + h \in 0 .. d - 1
      BY <2>3
    <3>2. reg[t] = Share(own, t) /\ reg[t + h] = Share(own, t + h)
      BY <1>0, <1>1, <2>1, <3>1
    <3>. QED
      BY <1>0, <2>1, <2>4, <2>5, <3>1, <3>2
  <2>7. ShuffleSums(h)'
    BY <2>1, <2>3, <2>5, <2>6 DEF ShuffleSums
  <2>. QED
    BY <2>3, <2>7
<1>7. ASSUME UNCHANGED vars PROVE ShuffleSums(d)'
  BY <1>7 DEF vars, ShuffleSums
<1>8. \A t \in Threads : Thread(t) => Load(t) \/ Leave(t)
  BY DEF Thread, Square, Add, Put, Scale, Shuffling
<1>. QED
  BY <1>3, <1>4, <1>5, <1>6, <1>7, <1>8 DEF Next, Done

(* The word published has every square.                                    *)
LEMMA SumsFromShuffling ==
  ASSUME NEW d \in 1 .. Width, AccessOK, Tables, Shuffling, ShuffleSums(d),
         [Next]_vars
  PROVE  SumsOK'
<1>1. CASE ~Barrier
  BY <1>1, FromShuffling, SumsWithinShuffling DEF SumsOK
<1>2. CASE Barrier
  <2>1. Scaling' /\ smem' = smem /\ \A t \in Threads : pc[t] = "bar"
    BY <1>2, FromShuffling DEF Barrier
  <2>2. d = 1
    BY <2>1, Geometry DEF ShuffleSums, Lanes
  <2>3. PICK own \in Sharing(1) : smem[0] = Share(own, 0)
    BY <2>1, <2>2, Geometry DEF ShuffleSums
  <2>4. Share(own, 0) = Once
    BY <2>3 DEF Sharing, Share, Once
  <2>5. \A t \in Threads : pc'[t] = "scale"
    BY <1>2, Geometry DEF Barrier, After, Shuffling
  <2>. QED
    BY <2>1, <2>3, <2>4, <2>5 DEF SumsOK, Published
<1>. QED
  BY <1>1, <1>2

LEMMA SumsFromScaling ==
  ASSUME AccessOK, Tables, Scaling, Published, [Next]_vars
  PROVE  SumsOK'
<1> USE DEF AccessOK, Tables, Scaling, Published
<1>1. ASSUME NEW t \in Threads, Scale(t) PROVE Published'
  BY <1>1 DEF Scale, Goto
<1>2. ASSUME UNCHANGED vars PROVE Published'
  BY <1>2 DEF vars
<1>3. ~Shuffle /\ ~Publish /\ ~Barrier
  BY Geometry DEF Shuffle, Publish, Barrier, Lanes
<1>4. \A t \in Threads : Thread(t) => Scale(t)
  BY DEF Thread, Square, Add, Put, Load, Leave
<1>5. Published'
  BY <1>1, <1>2, <1>3, <1>4 DEF Next, Done
<1> HIDE DEF AccessOK, Tables, Scaling, Published
<1>. QED
  BY <1>5, FromScaling DEF SumsOK

(* For every width of a warp that is a power of two, and whatever the      *)
(* order of the threads, each element is scaled with the sum of all the    *)
(* squares, each counted once.                                             *)
THEOREM ScaledByTheWholeSumHolds == Spec => []ScaledByTheWholeSum
<1>1. Init => SInv
  <2> SUFFICES ASSUME Init PROVE SInv
    OBVIOUS
  <2>1. AccessOK /\ Squaring
    BY Geometry DEF Init, AccessOK, Squaring, Labels
  <2>2. Nothing \in Sums
    BY DEF Nothing, Sums
  <2>. QED
    BY <2>1, <2>2 DEF Init, SInv, Tables, SumsOK, SquaresIn
<1>2. SInv /\ [Next]_vars => SInv'
  BY AccessStep, TablesStep, SumsFromSquaring, SumsFromHalving,
     SumsFromShuffling, SumsFromScaling DEF SInv, SumsOK
<1>3. SInv => ScaledByTheWholeSum
  BY DEF SInv, SumsOK, ScaledByTheWholeSum, Squaring, Halving, Shuffling,
     Published
<1>. QED
  BY <1>1, <1>2, <1>3, PTL DEF Spec

-----------------------------------------------------------------------------
(* The loads of the matrix-vector kernels, of a block B blocks into its    *)
(* plane.                                                                  *)
At(B, ld) == (B * ld[1] + ld[2]) % ld[3] = 0

AllAt(B, loads) == \A ld \in loads : At(B, ld)

LEMMA OneByte ==
  ASSUME NEW B \in Nat, NEW s \in Nat, NEW o \in Nat
  PROVE  At(B, <<s, o, 1>>)
<1>1. B * s \in Nat
  OBVIOUS
<1>2. \A n \in Nat : n % 1 = 0
  OBVIOUS
<1>3. B * s + o \in Nat
  BY <1>1
<1> QED BY <1>2, <1>3 DEF At

LEMMA TwoBytes ==
  ASSUME NEW B \in Nat, NEW s \in Nat, NEW o \in Nat, s % 2 = 0, o % 2 = 0
  PROVE  At(B, <<s, o, 2>>)
<1> DEFINE k == s \div 2
<1>1. k \in Nat /\ s = 2 * k
  OBVIOUS
<1> HIDE DEF k
<1>2. B * k \in Nat /\ B * s = 2 * (B * k)
  BY <1>1
<1> DEFINE n == B * k
<1>3. n \in Nat /\ B * s = 2 * n
  BY <1>2
<1> HIDE DEF n
<1>4. (2 * n + o) % 2 = 0
  BY <1>3
<1> QED BY <1>3, <1>4 DEF At

LEMMA FourBytes ==
  ASSUME NEW B \in Nat, NEW s \in Nat, NEW o \in Nat, s % 4 = 0, o % 4 = 0
  PROVE  At(B, <<s, o, 4>>)
<1> DEFINE k == s \div 4
<1>1. k \in Nat /\ s = 4 * k
  OBVIOUS
<1> HIDE DEF k
<1>2. B * k \in Nat /\ B * s = 4 * (B * k)
  BY <1>1
<1> DEFINE n == B * k
<1>3. n \in Nat /\ B * s = 4 * n
  BY <1>2
<1> HIDE DEF n
<1>4. (4 * n + o) % 4 = 0
  BY <1>3
<1> QED BY <1>3, <1>4 DEF At

LEMMA SixteenBytes ==
  ASSUME NEW B \in Nat, NEW s \in Nat, NEW o \in Nat, s % 16 = 0, o % 16 = 0
  PROVE  At(B, <<s, o, 16>>)
<1> DEFINE k == s \div 16
<1>1. k \in Nat /\ s = 16 * k
  OBVIOUS
<1> HIDE DEF k
<1>2. B * k \in Nat /\ B * s = 16 * (B * k)
  BY <1>1
<1> DEFINE n == B * k
<1>3. n \in Nat /\ B * s = 16 * n
  BY <1>2
<1> HIDE DEF n
<1>4. (16 * n + o) % 16 = 0
  BY <1>3
<1> QED BY <1>3, <1>4 DEF At

LEMMA Q4KLoads ==
  ASSUME NEW B \in Nat, NEW lane \in 0 .. 31, NEW g \in 0 .. 7
  PROVE  AllAt(B, Gemv!Q4KGemv(lane, g).loads)
<1> DEFINE qs == 16 + 32 * (g \div 2) + lane
<1>1. /\ qs \in Nat
  OBVIOUS
<1>2. Gemv!Q4KGemv(lane, g).loads =
        {<<144, 0, 2>>, <<144, 2, 2>>, <<144, qs, 1>>}
  BY DEF Gemv!Q4KGemv, Gemv!Part
<1> HIDE DEF qs
<1>3. /\ At(B, <<144, 0, 2>>)
      /\ At(B, <<144, 2, 2>>)
      /\ At(B, <<144, qs, 1>>)
  BY <1>1, OneByte, TwoBytes
<1> QED BY <1>2, <1>3 DEF AllAt

LEMMA Q5KLoads ==
  ASSUME NEW B \in Nat, NEW lane \in 0 .. 31, NEW g \in 0 .. 7
  PROVE  AllAt(B, Gemv!Q5KGemv(lane, g).loads)
<1> DEFINE ql == 48 + 32 * (g \div 2) + lane
<1>1. /\ ql \in Nat
  OBVIOUS
<1>2. Gemv!Q5KGemv(lane, g).loads =
        {<<176, 0, 2>>, <<176, 2, 2>>, <<176, ql, 1>>}
  BY DEF Gemv!Q5KGemv, Gemv!Part
<1> HIDE DEF ql
<1>3. /\ At(B, <<176, 0, 2>>)
      /\ At(B, <<176, 2, 2>>)
      /\ At(B, <<176, ql, 1>>)
  BY <1>1, OneByte, TwoBytes
<1> QED BY <1>2, <1>3 DEF AllAt

LEMMA Q6KScalarLoads ==
  ASSUME NEW B \in Nat, NEW lane \in 0 .. 31, NEW j \in 0 .. 7
  PROVE  AllAt(B, Gemv!Q6KGemvScalar(lane, j).loads)
<1>2. Gemv!Q6KGemvScalar(lane, j).loads =
        {<<210, 208, 2>>}
  BY DEF Gemv!Q6KGemvScalar, Gemv!Part
<1>3. /\ At(B, <<210, 208, 2>>)
  BY TwoBytes
<1> QED BY <1>2, <1>3 DEF AllAt

LEMMA IQ4XSLoads ==
  ASSUME NEW B \in Nat, NEW lane \in 0 .. 31, NEW g \in 0 .. 7
  PROVE  AllAt(B, Gemv!IQ4XSGemv(lane, g).loads)
<1> DEFINE qs == 8 + 16 * g + (lane % 16)
<1>1. /\ qs \in Nat
  OBVIOUS
<1>2. Gemv!IQ4XSGemv(lane, g).loads =
        {<<136, 0, 2>>, <<136, 2, 2>>, <<136, qs, 1>>}
  BY DEF Gemv!IQ4XSGemv, Gemv!Part
<1> HIDE DEF qs
<1>3. /\ At(B, <<136, 0, 2>>)
      /\ At(B, <<136, 2, 2>>)
      /\ At(B, <<136, qs, 1>>)
  BY <1>1, OneByte, TwoBytes
<1> QED BY <1>2, <1>3 DEF AllAt

LEMMA IQ4XSSm86Loads ==
  ASSUME NEW B \in Nat, NEW lane \in 0 .. 31, NEW g \in 0 .. 7
  PROVE  AllAt(B, Gemv!IQ4XSSm86Gemv(lane, g).loads)
<1> DEFINE qs == 16 * g + (lane % 16)
<1>1. /\ qs \in Nat
  OBVIOUS
<1>2. Gemv!IQ4XSSm86Gemv(lane, g).loads =
        {<<2, 0, 2>>, <<8, g, 1>>, <<128, qs, 1>>}
  BY DEF Gemv!IQ4XSSm86Gemv, Gemv!Part
<1> HIDE DEF qs
<1>3. /\ At(B, <<2, 0, 2>>)
      /\ At(B, <<8, g, 1>>)
      /\ At(B, <<128, qs, 1>>)
  BY <1>1, OneByte, TwoBytes
<1> QED BY <1>2, <1>3 DEF AllAt

LEMMA Q5KSm86Loads ==
  ASSUME NEW B \in Nat, NEW lane \in 0 .. 31, NEW g \in 0 .. 7
  PROVE  AllAt(B, Gemv!Q5KSm86Gemv(lane, g).loads)
<1> DEFINE qs == 32 * (g \div 2) + lane
           meta == 4 + 2 * g
<1>1. /\ qs \in Nat
      /\ meta \in Nat /\ meta % 2 = 0
  OBVIOUS
<1>2. Gemv!Q5KSm86Gemv(lane, g).loads =
        {<<20, 0, 2>>, <<20, 2, 2>>, <<20, meta, 2>>,
         <<128, qs, 1>>}
  BY DEF Gemv!Q5KSm86Gemv, Gemv!Part
<1> HIDE DEF qs, meta
<1>3. /\ At(B, <<20, 0, 2>>)
      /\ At(B, <<20, 2, 2>>)
      /\ At(B, <<20, meta, 2>>)
      /\ At(B, <<128, qs, 1>>)
  BY <1>1, OneByte, TwoBytes
<1> QED BY <1>2, <1>3 DEF AllAt

LEMMA IQ4XSQ81Loads ==
  ASSUME NEW B \in Nat, NEW lane \in 0 .. 31, NEW p \in 0 .. 1
  PROVE  AllAt(B, Gemv!IQ4XSQ81Gemv(lane, p).loads)
<1> DEFINE qs == 8 + 16 * (lane \div 8 + 4 * p) + 2 * (lane % 8)
           low == 4 + 2 * (lane % 8)
           high == 4 + 2 * (lane % 8) + 16
<1>1. /\ qs \in Nat /\ qs % 2 = 0
      /\ low \in Nat /\ low % 2 = 0
      /\ high \in Nat /\ high % 2 = 0
  OBVIOUS
<1>2. Gemv!IQ4XSQ81Gemv(lane, p).loads =
        {<<136, qs, 2>>, <<36, 0, 2>>, <<36, low, 2>>,
         <<36, high, 2>>}
  BY DEF Gemv!IQ4XSQ81Gemv, Gemv!Part
<1> HIDE DEF qs, low, high
<1>3. /\ At(B, <<136, qs, 2>>)
      /\ At(B, <<36, 0, 2>>)
      /\ At(B, <<36, low, 2>>)
      /\ At(B, <<36, high, 2>>)
  BY <1>1, TwoBytes
<1> QED BY <1>2, <1>3 DEF AllAt

LEMMA Q5KDp4aLoads ==
  ASSUME NEW B \in Nat, NEW lane \in 0 .. 31, NEW p \in 0 .. 1
  PROVE  AllAt(B, Gemv!Q5KDp4aGemv(lane, p).loads)
<1> DEFINE g == lane \div 8 + 4 * p
           ql == 48 + 32 * (g \div 2) + 4 * (lane % 8)
           qh == 16 + 4 * (lane % 8)
           a == 4 + 32 * g + 4 * (lane % 8)
           low == 260 + 4 * g
           high == 260 + 4 * g + 2
<1>1. /\ g \in Nat
      /\ ql \in Nat /\ ql % 4 = 0
      /\ qh \in Nat /\ qh % 4 = 0
      /\ a \in Nat /\ a % 4 = 0
      /\ low \in Nat /\ low % 2 = 0
      /\ high \in Nat /\ high % 2 = 0
  OBVIOUS
<1>2. Gemv!Q5KDp4aGemv(lane, p).loads =
        {<<176, ql, 4>>, <<176, qh, 4>>, <<292, 0, 4>>,
         <<292, a, 4>>, <<292, low, 2>>, <<292, high, 2>>}
  BY DEF Gemv!Q5KDp4aGemv, Gemv!Part
<1> HIDE DEF g, ql, qh, a, low, high
<1>3. /\ At(B, <<176, ql, 4>>)
      /\ At(B, <<176, qh, 4>>)
      /\ At(B, <<292, 0, 4>>)
      /\ At(B, <<292, a, 4>>)
      /\ At(B, <<292, low, 2>>)
      /\ At(B, <<292, high, 2>>)
  BY <1>1, TwoBytes, FourBytes
<1> QED BY <1>2, <1>3 DEF AllAt

LEMMA IQ4XSPrmtLoads ==
  ASSUME NEW B \in Nat, NEW lane \in 0 .. 31, NEW p \in 0 .. 0
  PROVE  AllAt(B, Gemv!IQ4XSPrmtGemv(lane, p).loads)
<1> DEFINE g == lane \div 4
           u == lane % 4
           qs == 8 + 16 * g + 4 * u
           low == 4 * (32 * g + 4 * u + 0)
           high == 4 * (32 * g + 4 * u + (16 + (4 - 4)))
<1>1. /\ g \in Nat
      /\ u \in Nat
      /\ qs \in Nat /\ qs % 4 = 0
      /\ low \in Nat /\ low % 16 = 0
      /\ high \in Nat /\ high % 16 = 0
  OBVIOUS
<1>2. Gemv!IQ4XSPrmtGemv(lane, p).loads =
        {<<136, qs, 4>>, <<1024, low, 16>>, <<1024, high, 16>>}
  BY DEF Gemv!IQ4XSPrmtGemv, Gemv!Part
<1> HIDE DEF g, u, qs, low, high
<1>3. /\ At(B, <<136, qs, 4>>)
      /\ At(B, <<1024, low, 16>>)
      /\ At(B, <<1024, high, 16>>)
  BY <1>1, FourBytes, SixteenBytes
<1> QED BY <1>2, <1>3 DEF AllAt

LEMMA Q5KVecLoads ==
  ASSUME NEW B \in Nat, NEW lane \in 0 .. 31, NEW p \in 0 .. 0
  PROVE  AllAt(B, Gemv!Q5KVecGemv(lane, p).loads)
<1> DEFINE g == lane \div 4
           u == lane % 4
           h == 8 * u
           h4 == 8 * u + 4
           qs == 32 * (g \div 2) + 8 * u
           qs4 == 32 * (g \div 2) + 8 * u + 4
           meta == 4 + 2 * g
           low == 4 * (32 * g + 8 * u + 0)
           high == 4 * (32 * g + 8 * u + 4)
<1>1. /\ g \in Nat
      /\ u \in Nat
      /\ h \in Nat /\ h % 4 = 0
      /\ h4 \in Nat /\ h4 % 4 = 0
      /\ qs \in Nat /\ qs % 4 = 0
      /\ qs4 \in Nat /\ qs4 % 4 = 0
      /\ meta \in Nat /\ meta % 2 = 0
      /\ low \in Nat /\ low % 16 = 0
      /\ high \in Nat /\ high % 16 = 0
  OBVIOUS
<1>2. Gemv!Q5KVecGemv(lane, p).loads =
        {<<32, h, 4>>, <<32, h4, 4>>, <<128, qs, 4>>,
         <<128, qs4, 4>>, <<20, meta, 2>>, <<1024, low, 16>>,
         <<1024, high, 16>>}
  BY DEF Gemv!Q5KVecGemv, Gemv!Part
<1> HIDE DEF g, u, h, h4, qs, qs4, meta, low, high
<1>3. /\ At(B, <<32, h, 4>>)
      /\ At(B, <<32, h4, 4>>)
      /\ At(B, <<128, qs, 4>>)
      /\ At(B, <<128, qs4, 4>>)
      /\ At(B, <<20, meta, 2>>)
      /\ At(B, <<1024, low, 16>>)
      /\ At(B, <<1024, high, 16>>)
  BY <1>1, TwoBytes, FourBytes, SixteenBytes
<1> QED BY <1>2, <1>3 DEF AllAt

LEMMA Q6KVecLoads ==
  ASSUME NEW B \in Nat, NEW lane \in 0 .. 31, NEW p \in 0 .. 0
  PROVE  AllAt(B, Gemv!Q6KVecGemv(lane, p).loads)
<1> DEFINE g      == lane \div 2
           u      == lane % 2
           half   == g \div 8
           inHalf == g % 8
           split  == 16 * (inHalf % 2) + 8 * u
           ql     == 64 * half + 32 * ((inHalf \div 2) % 2) + split
           qh     == 128 + 32 * half + split
           low    == 4 * (16 * g + 8 * u)
<1>1. g \in Nat /\ u \in Nat /\ half \in Nat /\ inHalf \in Nat
  OBVIOUS
<1>2. Gemv!Q6KVecGemv(lane, p).loads =
        {<<210, ql + 2 * i, 2>> : i \in 0 .. 3} \cup {<<210, qh + 2 * i, 2>> : i \in 0 .. 3}
          \cup {<<210, 208, 2>>, <<1024, low, 16>>}
  BY DEF Gemv!Q6KVecGemv, Gemv!Part
<1> HIDE DEF g, u, half, inHalf
<1>3. split \in Nat /\ split % 2 = 0
  BY <1>1
<1>4. low \in Nat /\ low % 16 = 0
  BY <1>1
<1> HIDE DEF split, low
<1>5. /\ \A i \in 0 .. 3 : ql + 2 * i \in Nat /\ (ql + 2 * i) % 2 = 0
      /\ \A i \in 0 .. 3 : qh + 2 * i \in Nat /\ (qh + 2 * i) % 2 = 0
  BY <1>1, <1>3
<1> HIDE DEF ql, qh
<1>6. /\ \A i \in 0 .. 3 : At(B, <<210, ql + 2 * i, 2>>)
      /\ \A i \in 0 .. 3 : At(B, <<210, qh + 2 * i, 2>>)
      /\ At(B, <<210, 208, 2>>)
  BY <1>5, TwoBytes
<1>7. At(B, <<1024, low, 16>>)
  BY <1>4, SixteenBytes
<1> QED BY <1>2, <1>6, <1>7 DEF AllAt

LEMMA PassCounts ==
  ASSUME NEW k \in Gemv!AllKernels
  PROVE  /\ Gemv!Passes(k) \in {1, 2, 8}
         /\ k \in {"IQ4XSQ81", "Q5KDp4a"} => Gemv!Passes(k) = 2
         /\ k \in {"IQ4XSPrmt", "Q5KVec", "Q6KVec"} => Gemv!Passes(k) = 1
         /\ Gemv!WarpsPerCta(k) \in {1, 4}
BY DEF Gemv!AllKernels, Gemv!Passes, Gemv!GroupWidth, Gemv!WarpsPerCta

LEMMA LoadsOfKernels ==
  ASSUME NEW k \in Gemv!AllKernels, NEW B \in Nat, NEW lane \in 0 .. 31,
         NEW p \in 0 .. Gemv!Passes(k) - 1
  PROVE  AllAt(B, Gemv!LanePart(k, lane, p).loads)
<1>1. p \in 0 .. 7
  BY PassCounts
<1>2. /\ k \in {"IQ4XSQ81", "Q5KDp4a"} => p \in 0 .. 1
      /\ k \in {"IQ4XSPrmt", "Q5KVec", "Q6KVec"} => p \in 0 .. 0
  BY PassCounts
<1>3. CASE k = "Q4K" BY <1>1, <1>3, Q4KLoads DEF Gemv!LanePart
<1>4. CASE k = "Q5K" BY <1>1, <1>4, Q5KLoads DEF Gemv!LanePart
<1>5. CASE k = "Q6KScalar" BY <1>1, <1>5, Q6KScalarLoads DEF Gemv!LanePart
<1>6. CASE k = "IQ4XS4Warp" BY <1>1, <1>6, IQ4XSLoads DEF Gemv!LanePart
<1>7. CASE k = "IQ4XSSm86" BY <1>1, <1>7, IQ4XSSm86Loads DEF Gemv!LanePart
<1>8. CASE k = "Q5KSm86" BY <1>1, <1>8, Q5KSm86Loads DEF Gemv!LanePart
<1>9. CASE k = "IQ4XSQ81" BY <1>2, <1>9, IQ4XSQ81Loads DEF Gemv!LanePart
<1>10. CASE k = "Q5KDp4a" BY <1>2, <1>10, Q5KDp4aLoads DEF Gemv!LanePart
<1>11. CASE k = "IQ4XSPrmt" BY <1>2, <1>11, IQ4XSPrmtLoads DEF Gemv!LanePart
<1>12. CASE k = "Q5KVec" BY <1>2, <1>12, Q5KVecLoads DEF Gemv!LanePart
<1>13. CASE k = "Q6KVec" BY <1>2, <1>13, Q6KVecLoads DEF Gemv!LanePart
<1> QED
  BY <1>3, <1>4, <1>5, <1>6, <1>7, <1>8, <1>9, <1>10, <1>11, <1>12, <1>13
  DEF Gemv!AllKernels

(* What a warp does keeps: a kernel of the table, a block of its own row,  *)
(* and a pass the kernel has.                                              *)
Launched ==
  launch = "gemv" =>
    /\ kern \in Gemv!AllKernels
    /\ warp \in Nat /\ blk \in Nat /\ blocks \in Nat
    /\ pass \in 0 .. Gemv!Passes(kern) - 1

GInv ==
  /\ launch \in {"reduce", "gemv", "layer"}
  /\ launch # "gemv" => at = "start"
  /\ Launched

LEMMA GemvStep ==
  ASSUME GInv, launch = "gemv", Gemv!Next, UNCHANGED launch
  PROVE  GInv'
<1>1. /\ kern \in Gemv!AllKernels /\ warp \in Nat /\ blk \in Nat /\ blocks \in Nat
      /\ pass \in 0 .. Gemv!Passes(kern) - 1 /\ Gemv!Passes(kern) \in {1, 2, 8}
  BY PassCounts DEF GInv, Launched
<1>2. kern' = kern /\ blocks' = blocks
  BY DEF Gemv!Next, Gemv!Return, Gemv!Begin, Gemv!Load, Gemv!GroupShuffle,
         Gemv!Apply, Gemv!WarpShuffle, Gemv!Gather, Gemv!Store, Gemv!Done, Gemv!vars
<1>3. Gemv!Passes(kern)' = Gemv!Passes(kern)
  BY <1>2 DEF Gemv!Passes, Gemv!GroupWidth
<1>4. warp' \in Nat /\ blk' \in Nat /\ pass' \in 0 .. Gemv!Passes(kern) - 1
  <2>1. CASE Gemv!Return \/ Gemv!Store
    BY <1>1, <2>1 DEF Gemv!Return, Gemv!Store, Gemv!NextWarp
  <2>2. CASE Gemv!Begin \/ Gemv!Load \/ Gemv!GroupShuffle \/ Gemv!WarpShuffle
             \/ Gemv!Gather \/ Gemv!Done
    BY <1>1, <2>2 DEF Gemv!Begin, Gemv!Load, Gemv!GroupShuffle,
       Gemv!WarpShuffle, Gemv!Gather, Gemv!Done, Gemv!vars
  <2>3. CASE Gemv!Apply
    BY <1>1, <2>3 DEF Gemv!Apply
  <2> QED BY <2>1, <2>2, <2>3 DEF Gemv!Next
<1> QED BY <1>1, <1>2, <1>3, <1>4 DEF GInv, Launched

LEMMA LaunchStep ==
  ASSUME GInv, [Reduce \/ Multiply \/ Step]_<<launch, vars, gemvVars, layerVars>>
  PROVE  GInv'
<1>1. CASE Multiply
  BY <1>1, GemvStep DEF Multiply
<1>2. CASE UNCHANGED <<launch, gemvVars>>
  BY <1>2 DEF GInv, Launched, gemvVars, Gemv!Passes, Gemv!GroupWidth
<1> QED BY <1>1, <1>2 DEF Reduce, Step

(* No load of a matrix-vector kernel, in any block of any row, is at an    *)
(* address that its width does not divide.                                 *)
THEOREM LoadsAreAlignedHolds == LaunchSpec => []LoadsAreAligned
<1>1. LaunchInit => GInv
  BY ShapesAssumption DEF LaunchInit, Unlaunched, GInv, Launched, Gemv!Init,
     Gemv!AllKernels, Gemv!Passes, Gemv!GroupWidth
<1>2. GInv => LoadsAreAligned
  <2> SUFFICES ASSUME GInv, at = "load"
               PROVE  \A lane \in 0 .. 31 :
                        AllAt(Gemv!Block, Gemv!LanePart(kern, lane, pass).loads)
    BY DEF LoadsAreAligned, Gemv!LoadsAreAligned, Gemv!Lanes, AllAt, At
  <2>1. /\ kern \in Gemv!AllKernels /\ warp \in Nat /\ blk \in Nat /\ blocks \in Nat
        /\ pass \in 0 .. Gemv!Passes(kern) - 1
    BY DEF GInv, Launched
  <2>2. Gemv!Row \in Nat
    BY <2>1, PassCounts DEF Gemv!Row
  <2>3. Gemv!Row * blocks \in Nat
    BY <2>1, <2>2
  <2>4. Gemv!Block \in Nat
    BY <2>1, <2>3 DEF Gemv!Block
  <2> QED BY <2>1, <2>4, LoadsOfKernels
<1> QED BY <1>1, <1>2, LaunchStep, PTL DEF LaunchSpec
-----------------------------------------------------------------------------
(***************************************************************************)
(* A finished launch has stored every row's dot product.  First, what one  *)
(* lane reads in one pass, for each kernel: its own elements of the block, *)
(* each once, with the scale and the minimum of their group (Fits).  Then  *)
(* the bags of terms: a lane's sum is that of a set of columns, and each   *)
(* shuffle joins two disjoint sets, until lane 0 has all of the row.       *)
(***************************************************************************)

(* The elements of a block, by group of 32 and place in the group; the     *)
(* lane that takes one, and the pass in which it does.                     *)
Elements == 0 .. 255
El(h, j) == 32 * h + j

Owner(k, e) ==
  LET h == e \div 32  j == e % 32
  IN  CASE k = "IQ4XSQ81"              -> 8 * (h % 4) + ((j % 16) \div 2)
        [] k = "Q5KDp4a"               -> 8 * (h % 4) + (j \div 4)
        [] k = "IQ4XSPrmt"             -> 4 * h + ((j % 16) \div 4)
        [] k \in {"Q5KVec", "Q6KVec"}  -> 4 * h + (j \div 8)
        [] OTHER                       -> j

Turn(k, e) ==
  LET h == e \div 32
  IN  CASE k \in {"IQ4XSQ81", "Q5KDp4a"}            -> h \div 4
        [] k \in {"IQ4XSPrmt", "Q5KVec", "Q6KVec"} -> 0
        [] OTHER                                   -> h

(* What a lane takes in a pass, and its group of lanes together.           *)
Mine(k, lane, p) == {e \in Elements : Turn(k, e) = p /\ Owner(k, e) = lane}
Ours(k, lane, p) ==
  {e \in Elements : Turn(k, e) = p
                    /\ Owner(k, e) \div Gemv!GroupWidth(k) = lane \div Gemv!GroupWidth(k)}

(* The weights of a block, as the CPU reference decodes them.              *)
Weights(k) ==
  CASE k = "Q4K"                                    -> [e \in Elements |-> Gemv!Q4K(e)]
    [] k \in {"Q5K", "Q5KSm86", "Q5KDp4a", "Q5KVec"} -> [e \in Elements |-> Gemv!Q5K(e)]
    [] k \in {"Q6KScalar", "Q6KVec"}                -> [e \in Elements |-> Gemv!Q6K(e)]
    [] OTHER                                        -> [e \in Elements |-> Gemv!IQ4XS(e)]

HasMinimum(k) == k \in {"Q4K", "Q5K", "Q5KSm86", "Q5KDp4a", "Q5KVec"}

(* What a lane makes of the block is right: each of its elements once,     *)
(* with the scale and the minimum of its whole group.                      *)
Fits(r, W, mine, ours, sum, bsum) ==
  /\ r.dot = {<<W[e].q, e>> : e \in mine}
  /\ r.sum = sum /\ r.bsum = bsum
  /\ \A e \in ours : r.s = W[e].s /\ r.m = W[e].m

(* The scale and minimum of a group of 32, in every form they are kept in. *)
LEMMA ScalesAgree ==
  ASSUME NEW g \in 0 .. 7
  PROVE  /\ Gemv!From(4, Gemv!ScaleK4(g)) = Gemv!GroupScale(g)
         /\ Gemv!From(4, Gemv!MinK4(g)) = Gemv!GroupMin(g)
         /\ Gemv!Q5KMeta(4 + 2 * g) = Gemv!GroupScale(g)
         /\ Gemv!Q5KMeta(5 + 2 * g) = Gemv!GroupMin(g)
         /\ Gemv!GroupMin(g) # <<>>
<1>1. /\ (4 + 2 * g) % 2 = 0 /\ (5 + 2 * g) % 2 = 1
      /\ ((4 + 2 * g) - 4) \div 2 = g /\ ((5 + 2 * g) - 4) \div 2 = g
      /\ ~(4 + 2 * g < 4) /\ ~(5 + 2 * g < 4)
  OBVIOUS
<1>2. /\ Gemv!From(4, Gemv!ScaleK4(g)) = Gemv!GroupScale(g)
      /\ Gemv!From(4, Gemv!MinK4(g)) = Gemv!GroupMin(g)
  <2> USE DEF Gemv!From, Gemv!ScaleK4, Gemv!MinK4, Gemv!GroupScale, Gemv!GroupMin, Gemv!Bits
  <2>1. CASE g \in 0 .. 3
    BY <2>1
  <2>2. CASE g \in 4 .. 7
    BY <2>2
  <2> QED BY <2>1, <2>2
<1>3. /\ Gemv!Q5KMeta(4 + 2 * g) = Gemv!From(4, Gemv!ScaleK4(g))
      /\ Gemv!Q5KMeta(5 + 2 * g) = Gemv!From(4, Gemv!MinK4(g))
  <2>1. /\ Gemv!Q5KMeta(4 + 2 * g)
             = Gemv!From(4, IF g < 4 THEN <<Gemv!Bits(g, 0, 6)>>
                            ELSE <<Gemv!Bits(g + 4, 0, 4), Gemv!Bits(g - 4, 6, 2)>>)
        /\ Gemv!Q5KMeta(5 + 2 * g)
             = Gemv!From(4, IF g < 4 THEN <<Gemv!Bits(g + 4, 0, 6)>>
                            ELSE <<Gemv!Bits(g + 4, 4, 4), Gemv!Bits(g, 6, 2)>>)
    BY <1>1 DEF Gemv!Q5KMeta
  <2> QED BY <2>1 DEF Gemv!ScaleK4, Gemv!MinK4
<1>4. Gemv!GroupMin(g) # <<>>
  BY DEF Gemv!GroupMin
<1> QED BY <1>2, <1>3, <1>4

LEMMA Places ==
  ASSUME NEW g \in 0 .. 7, NEW l \in 0 .. 31
  PROVE  /\ El(g, l) \in Elements
         /\ El(g, l) \div 32 = g /\ El(g, l) % 32 = l
         /\ El(g, l) \div 64 = g \div 2 /\ (El(g, l) % 64) \div 32 = g % 2
         /\ 2 * (g \div 2) + (g % 2) = g
         /\ El(g, l) \div 128 = g \div 4 /\ (El(g, l) % 128) \div 32 = g % 4
BY DEF Elements, El

LEMMA Divided ==
  ASSUME NEW e \in Elements
  PROVE  \E g \in 0 .. 7, l \in 0 .. 31 : e = El(g, l)
<1>1. e \div 32 \in 0 .. 7 /\ e % 32 \in 0 .. 31 /\ e = 32 * (e \div 32) + (e % 32)
  BY DEF Elements
<1> QED BY <1>1 DEF El

(* The codes of element j of group g, in each format, and the scale of     *)
(* Q6_K; the nibble that IQ4_XS keeps for code i of eight.                 *)
Q4KCode(g, j) == <<Gemv!Bits(16 + 32 * (g \div 2) + j, 4 * (g % 2), 4)>>
Q5KCode(g, j) == <<Gemv!Bits(48 + 32 * (g \div 2) + j, 4 * (g % 2), 4), Gemv!Bits(16 + j, g, 1)>>
Q6KCode(g, j) == <<Gemv!Bits(64 * (g \div 4) + j + 32 * ((g % 4) % 2), 4 * ((g % 4) \div 2), 4),
                   Gemv!Bits(128 + 32 * (g \div 4) + j, 2 * (g % 4), 2)>>
Q6KScale(g, j) == <<Gemv!Bits(192 + 8 * (g \div 4) + j \div 16 + 2 * (g % 4), 0, 8)>>
IQ4Code(g, j) == <<Gemv!Bits(8 + 16 * g + (j % 16), 4 * (j \div 16), 4)>>
Nibble(i) == IF i < 4 THEN 2 * i ELSE 2 * (i - 4) + 1
USE DEF Q4KCode, Q5KCode, Q6KCode, Q6KScale, IQ4Code, Nibble

LEMMA WeightsAre ==
  ASSUME NEW g \in 0 .. 7, NEW l \in 0 .. 31
  PROVE  /\ Gemv!Q4K(El(g, l))
              = [q |-> Q4KCode(g, l),
                 s |-> Gemv!GroupScale(g), m |-> Gemv!GroupMin(g)]
         /\ Gemv!Q5K(El(g, l))
              = [q |-> Q5KCode(g, l),
                 s |-> Gemv!GroupScale(g), m |-> Gemv!GroupMin(g)]
         /\ Gemv!Q6K(El(g, l))
              = [q |-> Q6KCode(g, l),
                 s |-> Q6KScale(g, l), m |-> <<>>]
         /\ Gemv!IQ4XS(El(g, l))
              = [q |-> IQ4Code(g, l),
                 s |-> Gemv!IQ4Scale(g), m |-> <<>>]
<1> DEFINE x == El(g, l)
<1>1. /\ x \div 64 = g \div 2 /\ (x % 64) \div 32 = g % 2 /\ x % 32 = l /\ x \div 32 = g
      /\ 2 * (g \div 2) + (g % 2) = g
      /\ x \div 128 = g \div 4 /\ (x % 128) \div 32 = g % 4
  BY Places
<1> HIDE DEF x
<1>2. Gemv!Q4K(x) = [q |-> Q4KCode(g, l),
                     s |-> Gemv!GroupScale(g), m |-> Gemv!GroupMin(g)]
  BY <1>1, ScalesAgree DEF Gemv!Q4K, Gemv!Weight
<1>3. Gemv!Q5K(x) = [q |-> Q5KCode(g, l),
                     s |-> Gemv!GroupScale(g), m |-> Gemv!GroupMin(g)]
  BY <1>1, ScalesAgree DEF Gemv!Q5K, Gemv!Weight
<1> DEFINE half == g \div 4
           quarter == g % 4
<1>0. x \div 128 = half /\ (x % 128) \div 32 = quarter /\ x % 32 = l
  BY <1>1
<1> HIDE DEF half, quarter
<1>4. Gemv!Q6K(x) = [q |-> <<Gemv!Bits(64 * half + l + 32 * (quarter % 2),
                             4 * (quarter \div 2), 4),
                             Gemv!Bits(128 + 32 * half + l, 2 * quarter, 2)>>,
                     s |-> <<Gemv!Bits(192 + 8 * half + l \div 16 + 2 * quarter, 0, 8)>>,
                     m |-> <<>>]
  BY <1>0 DEF Gemv!Q6K, Gemv!Weight
<1>5. Gemv!IQ4XS(x) = [q |-> IQ4Code(g, l),
                       s |-> Gemv!IQ4Scale(g), m |-> <<>>]
  BY <1>1 DEF Gemv!IQ4XS, Gemv!Weight
<1> QED BY <1>2, <1>3, <1>4, <1>5 DEF x, half, quarter

LEMMA MinimumIs ==
  ASSUME NEW k \in Gemv!AllKernels, NEW e \in Elements
  PROVE  Weights(k)[e].m # <<>> <=> HasMinimum(k)
<1>1. PICK g \in 0 .. 7, l \in 0 .. 31 : e = El(g, l)
  BY Divided
<1>2. /\ Gemv!Q4K(e).m # <<>> /\ Gemv!Q5K(e).m # <<>>
      /\ Gemv!Q6K(e).m = <<>> /\ Gemv!IQ4XS(e).m = <<>>
  <2>1. Gemv!GroupMin(g) # <<>>
    BY ScalesAgree
  <2>2. /\ Gemv!Q4K(El(g, l)).m = Gemv!GroupMin(g)
        /\ Gemv!Q5K(El(g, l)).m = Gemv!GroupMin(g)
        /\ Gemv!Q6K(El(g, l)).m = <<>>
        /\ Gemv!IQ4XS(El(g, l)).m = <<>>
    <3> DEFINE x == El(g, l)
    <3>1. /\ Gemv!Q4K(x) = [q |-> Q4KCode(g, l),
                            s |-> Gemv!GroupScale(g), m |-> Gemv!GroupMin(g)]
          /\ Gemv!Q5K(x)
              = [q |-> Q5KCode(g, l),
                 s |-> Gemv!GroupScale(g), m |-> Gemv!GroupMin(g)]
          /\ Gemv!IQ4XS(x)
              = [q |-> IQ4Code(g, l),
                 s |-> Gemv!IQ4Scale(g), m |-> <<>>]
      BY WeightsAre
    <3>2. Gemv!Q6K(x).m = <<>>
      BY DEF Gemv!Q6K, Gemv!Weight
    <3> QED BY <3>1, <3>2
  <2> QED BY <1>1, <2>1, <2>2
<1> QED BY <1>2 DEF Weights, HasMinimum, Gemv!AllKernels

(* What is asked of the elements of a set, in these terms.                 *)
LEMMA Cut ==
  ASSUME NEW g \in 0 .. 7, NEW J, J \subseteq 0 .. 31, NEW M, M \subseteq Elements,
         \A h \in 0 .. 7, j \in 0 .. 31 : El(h, j) \in M <=> h = g /\ j \in J
  PROVE  M = {El(g, j) : j \in J}
<1>1. \A e \in M : \E j \in J : e = El(g, j)
  <2> SUFFICES ASSUME NEW e \in M PROVE \E j \in J : e = El(g, j)
    OBVIOUS
  <2>1. PICK h \in 0 .. 7, j \in 0 .. 31 : e = El(h, j)
    BY Divided
  <2> QED BY <2>1
<1>2. \A j \in J : El(g, j) \in M
  OBVIOUS
<1> QED BY <1>1, <1>2

LEMMA Assigned ==
  ASSUME NEW k \in Gemv!AllKernels, NEW h \in 0 .. 7, NEW j \in 0 .. 31
  PROVE  /\ k = "IQ4XSQ81" => Turn(k, El(h, j)) = h \div 4
               /\ Owner(k, El(h, j)) = 8 * (h % 4) + ((j % 16) \div 2)
         /\ k = "Q5KDp4a" => Turn(k, El(h, j)) = h \div 4
               /\ Owner(k, El(h, j)) = 8 * (h % 4) + (j \div 4)
         /\ k = "IQ4XSPrmt" => Turn(k, El(h, j)) = 0
               /\ Owner(k, El(h, j)) = 4 * h + ((j % 16) \div 4)
         /\ k \in {"Q5KVec", "Q6KVec"} => Turn(k, El(h, j)) = 0
               /\ Owner(k, El(h, j)) = 4 * h + (j \div 8)
         /\ Gemv!GroupWidth(k) = 1 => Turn(k, El(h, j)) = h /\ Owner(k, El(h, j)) = j
<1> DEFINE e == El(h, j)
<1>1. e \div 32 = h /\ e % 32 = j
  BY Places
<1> HIDE DEF e
<1>2. /\ k = "IQ4XSQ81" => Turn(k, e) = h \div 4 /\ Owner(k, e) = 8 * (h % 4) + ((j % 16) \div 2)
      /\ k = "Q5KDp4a" => Turn(k, e) = h \div 4 /\ Owner(k, e) = 8 * (h % 4) + (j \div 4)
      /\ k = "IQ4XSPrmt" => Turn(k, e) = 0 /\ Owner(k, e) = 4 * h + ((j % 16) \div 4)
      /\ k \in {"Q5KVec", "Q6KVec"} => Turn(k, e) = 0 /\ Owner(k, e) = 4 * h + (j \div 8)
  BY <1>1 DEF Turn, Owner
<1>3. Gemv!GroupWidth(k) = 1 => Turn(k, e) = h /\ Owner(k, e) = j
  BY <1>1 DEF Turn, Owner, Gemv!GroupWidth
<1> QED BY <1>2, <1>3 DEF e

LEMMA Members ==
  ASSUME NEW k, NEW lane, NEW p
  PROVE  /\ Mine(k, lane, p) \subseteq Elements /\ Ours(k, lane, p) \subseteq Elements
         /\ \A h \in 0 .. 7, j \in 0 .. 31 :
              /\ El(h, j) \in Mine(k, lane, p)
                   <=> Turn(k, El(h, j)) = p /\ Owner(k, El(h, j)) = lane
              /\ El(h, j) \in Ours(k, lane, p)
                   <=> Turn(k, El(h, j)) = p /\ Owner(k, El(h, j)) \div Gemv!GroupWidth(k)
                                                 = lane \div Gemv!GroupWidth(k)
<1>1. \A h \in 0 .. 7, j \in 0 .. 31 : El(h, j) \in Elements
  BY Places
<1> QED BY <1>1 DEF Mine, Ours

(* A strided kernel takes one element in a pass.                           *)
LEMMA Strided ==
  ASSUME NEW k \in {"Q4K", "Q5K", "Q6KScalar", "IQ4XS4Warp", "IQ4XSSm86", "Q5KSm86"},
         NEW lane \in 0 .. 31, NEW g \in 0 .. 7
  PROVE  Mine(k, lane, g) = {El(g, lane)} /\ Ours(k, lane, g) = {El(g, lane)}
<1>1. Gemv!GroupWidth(k) = 1 /\ k \in Gemv!AllKernels
  BY DEF Gemv!GroupWidth, Gemv!AllKernels
<1>2. \A h \in 0 .. 7, j \in 0 .. 31 : Turn(k, El(h, j)) = h /\ Owner(k, El(h, j)) = j
  BY <1>1, Assigned
<1>3. \A j \in 0 .. 31 : j \div 1 = j
  OBVIOUS
<1>4. \A h \in 0 .. 7, j \in 0 .. 31 :
        /\ El(h, j) \in Mine(k, lane, g) <=> h = g /\ j \in {lane}
        /\ El(h, j) \in Ours(k, lane, g) <=> h = g /\ j \in {lane}
  <2>1. \A h \in 0 .. 7, j \in 0 .. 31 :
          /\ El(h, j) \in Mine(k, lane, g)
               <=> Turn(k, El(h, j)) = g /\ Owner(k, El(h, j)) = lane
          /\ El(h, j) \in Ours(k, lane, g)
               <=> Turn(k, El(h, j)) = g /\ Owner(k, El(h, j)) \div 1 = lane \div 1
    BY <1>1, Members
  <2> QED BY <1>2, <1>3, <2>1
<1>5. Mine(k, lane, g) \subseteq Elements /\ Ours(k, lane, g) \subseteq Elements
          /\ {lane} \subseteq 0 .. 31
  BY Members
<1>6. Mine(k, lane, g) = {El(g, j) : j \in {lane}}
  BY <1>4, <1>5, Cut
<1>7. Ours(k, lane, g) = {El(g, j) : j \in {lane}}
  BY <1>4, <1>5, Cut
<1> QED BY <1>6, <1>7

LEMMA Q5KSm86Code ==
  ASSUME NEW n \in Nat, NEW c \in Nat, NEW g \in 0 .. 7
  PROVE  Gemv!Within(Gemv!Q5KQs(n), 4 * (g % 2), 4) \o Gemv!Within(Gemv!Q5KQh(c), g, 1)
           = <<Gemv!Bits(48 + n, 4 * (g % 2), 4), Gemv!Bits(16 + c, g, 1)>>
<1>1. Gemv!Within(Gemv!Q5KQs(n), 4 * (g % 2), 4) = <<Gemv!Bits(48 + n, 4 * (g % 2), 4)>>
  BY DEF Gemv!Within, Gemv!Q5KQs, Gemv!Copied, Gemv!Bits
<1>2. Gemv!Within(Gemv!Q5KQh(c), g, 1) = <<Gemv!Bits(16 + c, g, 1)>>
  BY DEF Gemv!Within, Gemv!Q5KQh, Gemv!Copied, Gemv!Bits
<1> DEFINE a == Gemv!Bits(48 + n, 4 * (g % 2), 4)
           b == Gemv!Bits(16 + c, g, 1)
<1> HIDE DEF a, b
<1>3. <<a>> \o <<b>> = <<a, b>>
  <2>1. <<a>> \in Seq({a, b}) /\ <<b>> \in Seq({a, b}) /\ Len(<<a>>) = 1 /\ Len(<<b>>) = 1
    OBVIOUS
  <2>2. /\ <<a>> \o <<b>> \in Seq({a, b}) /\ Len(<<a>> \o <<b>>) = 2
        /\ (<<a>> \o <<b>>)[1] = a /\ (<<a>> \o <<b>>)[2] = b
    BY <2>1
  <2> DEFINE s == <<a>> \o <<b>>
  <2> HIDE DEF s
  <2>3. s \in [1 .. 2 -> {a, b}] /\ s[1] = a /\ s[2] = b
    <3>1. s \in Seq({a, b}) /\ Len(s) = 2 /\ s[1] = a /\ s[2] = b
      BY <2>2 DEF s
    <3>2. \A S, t : t \in Seq(S) => t \in [1 .. Len(t) -> S]
      OBVIOUS
    <3>3. s \in [1 .. Len(s) -> {a, b}]
      BY <3>1, <3>2
    <3> QED BY <3>1, <3>3
  <2>4. s = [i \in 1 .. 2 |-> IF i = 1 THEN a ELSE b]
    BY <2>3
  <2>5. <<a, b>> = [i \in 1 .. 2 |-> IF i = 1 THEN a ELSE b]
    OBVIOUS
  <2> QED BY <2>4, <2>5 DEF s
<1> QED BY <1>1, <1>2, <1>3 DEF a, b

LEMMA NibbleScales ==
  ASSUME NEW g \in 0 .. 7
  PROVE  Gemv!NibbleScale(g) = Gemv!IQ4Scale(g)
BY DEF Gemv!NibbleScale, Gemv!IQ4Scale, Gemv!Bits

LEMMA IQ4XSSm86Code ==
  ASSUME NEW lane \in 0 .. 31, NEW g \in 0 .. 7
  PROVE  /\ Gemv!IQ4Sm86(2 + g) = Gemv!IQ4Scale(g)
         /\ Gemv!Within(Gemv!IQ4Sm86(10 + (16 * g + (lane % 16))), IF lane < 16 THEN 0 ELSE 4, 4)
              = IQ4Code(g, lane)
<1> DEFINE code == 16 * g + (lane % 16)
<1>1. /\ 4 * (lane \div 16) = (IF lane < 16 THEN 0 ELSE 4)
      /\ code \in 0 .. 127 /\ 8 + 16 * g + (lane % 16) = 8 + code
  OBVIOUS
<1> HIDE DEF code
<1>2. /\ ~(2 + g < 2) /\ 2 + g \in 2 .. 9 /\ (2 + g) - 2 = g
      /\ ~(10 + code < 2) /\ 10 + code \notin 2 .. 9 /\ 10 + code \in 10 .. 137
      /\ (10 + code) - 10 + 8 = 8 + code
  BY <1>1
<1>3. /\ Gemv!IQ4Sm86(2 + g) = Gemv!IQ4Scale(g)
      /\ Gemv!IQ4Sm86(10 + code) = Gemv!Copied(8 + code)
  BY <1>2 DEF Gemv!IQ4Sm86
<1>4. Gemv!Within(Gemv!Copied(8 + code), 4 * (lane \div 16), 4)
          = <<Gemv!Bits(8 + code, 4 * (lane \div 16), 4)>>
  BY DEF Gemv!Within, Gemv!Copied, Gemv!Bits
<1>5. Gemv!Within(Gemv!IQ4Sm86(10 + code), IF lane < 16 THEN 0 ELSE 4, 4)
        = IQ4Code(g, lane)
  BY <1>1, <1>3, <1>4
<1> QED BY <1>3, <1>5 DEF code

LEMMA Q4KFits ==
  ASSUME NEW lane \in 0 .. 31, NEW g \in 0 .. 7
  PROVE  Fits(Gemv!Q4KGemv(lane, g), Weights("Q4K"), Mine("Q4K", lane, g), Ours("Q4K", lane, g),
              Mine("Q4K", lane, g), {})
<1> DEFINE x == El(g, lane)
           r == Gemv!Q4KGemv(lane, g)
<1>1. /\ x \in Elements /\ Mine("Q4K", lane, g) = {x} /\ Ours("Q4K", lane, g) = {x}
  BY Places, Strided
<1>2. Weights("Q4K")[x] = Gemv!Q4K(x)
  BY <1>1 DEF Weights
<1>3. Gemv!Q4K(x) = [q |-> Q4KCode(g, lane),
                      s |-> Gemv!GroupScale(g), m |-> Gemv!GroupMin(g)]
  BY WeightsAre
<1>5. /\ r.dot = {<<Gemv!Q4K(x).q, x>>} /\ r.sum = {x} /\ r.bsum = {}
      /\ r.s = Gemv!Q4K(x).s /\ r.m = Gemv!Q4K(x).m
  BY <1>3 DEF Gemv!Q4KGemv, Gemv!Part, El
<1> HIDE DEF x, r
<1>6. Fits(r, Weights("Q4K"), {x}, {x}, {x}, {})
  BY <1>1, <1>2, <1>5 DEF Fits
<1> QED BY <1>1, <1>6 DEF r

LEMMA Q5KFits ==
  ASSUME NEW lane \in 0 .. 31, NEW g \in 0 .. 7
  PROVE  Fits(Gemv!Q5KGemv(lane, g), Weights("Q5K"), Mine("Q5K", lane, g), Ours("Q5K", lane, g),
              Mine("Q5K", lane, g), {})
<1> DEFINE x == El(g, lane)
           r == Gemv!Q5KGemv(lane, g)
<1>1. /\ x \in Elements /\ Mine("Q5K", lane, g) = {x} /\ Ours("Q5K", lane, g) = {x}
  BY Places, Strided
<1>2. Weights("Q5K")[x] = Gemv!Q5K(x)
  BY <1>1 DEF Weights
<1>3. Gemv!Q5K(x) = [q |-> Q5KCode(g, lane),
                      s |-> Gemv!GroupScale(g), m |-> Gemv!GroupMin(g)]
  BY WeightsAre
<1>5. /\ r.dot = {<<Gemv!Q5K(x).q, x>>} /\ r.sum = {x} /\ r.bsum = {}
      /\ r.s = Gemv!Q5K(x).s /\ r.m = Gemv!Q5K(x).m
  BY <1>3 DEF Gemv!Q5KGemv, Gemv!Part, El
<1> HIDE DEF x, r
<1>6. Fits(r, Weights("Q5K"), {x}, {x}, {x}, {})
  BY <1>1, <1>2, <1>5 DEF Fits
<1> QED BY <1>1, <1>6 DEF r

LEMMA Q6KScalarFits ==
  ASSUME NEW lane \in 0 .. 31, NEW g \in 0 .. 7
  PROVE  Fits(Gemv!Q6KGemvScalar(lane, g), Weights("Q6KScalar"), Mine("Q6KScalar", lane, g),
             Ours("Q6KScalar", lane, g),
              {}, {})
<1> DEFINE x == El(g, lane)
           r == Gemv!Q6KGemvScalar(lane, g)
<1>1. /\ x \in Elements /\ Mine("Q6KScalar", lane, g) = {x} /\ Ours("Q6KScalar", lane, g) = {x}
  BY Places, Strided
<1>2. Weights("Q6KScalar")[x] = Gemv!Q6K(x)
  BY <1>1 DEF Weights
<1>3. Gemv!Q6K(x) = [q |-> Q6KCode(g, lane),
                      s |-> Q6KScale(g, lane),
                      m |-> <<>>]
  BY WeightsAre
<1>4. /\ lane + 32 * g = x /\ x \div 128 = g \div 4 /\ (x % 128) \div 32 = g % 4 /\ x % 32 = lane
      /\ 4 * ((g % 4) \div 2) = (IF g % 4 >= 2 THEN 4 ELSE 0)
  <2>1. x \div 128 = g \div 4 /\ (x % 128) \div 32 = g % 4 /\ x % 32 = lane
    BY Places
  <2>2. lane + 32 * g = x
    BY DEF El
  <2>3. 4 * ((g % 4) \div 2) = (IF g % 4 >= 2 THEN 4 ELSE 0)
    OBVIOUS
  <2> QED BY <2>1, <2>2, <2>3
<1>5. /\ r.dot = {<<Gemv!Q6K(x).q, x>>} /\ r.sum = {} /\ r.bsum = {}
      /\ r.s = Gemv!Q6K(x).s /\ r.m = Gemv!Q6K(x).m
  BY <1>3, <1>4 DEF Gemv!Q6KGemvScalar, Gemv!Part, El
<1> HIDE DEF x, r
<1>6. Fits(r, Weights("Q6KScalar"), {x}, {x}, {}, {})
  BY <1>1, <1>2, <1>5 DEF Fits
<1> QED BY <1>1, <1>6 DEF r

LEMMA IQ4XS4WarpFits ==
  ASSUME NEW lane \in 0 .. 31, NEW g \in 0 .. 7
  PROVE  Fits(Gemv!IQ4XSGemv(lane, g), Weights("IQ4XS4Warp"), Mine("IQ4XS4Warp", lane, g),
             Ours("IQ4XS4Warp", lane, g),
              {}, {})
<1> DEFINE x == El(g, lane)
           r == Gemv!IQ4XSGemv(lane, g)
<1>1. /\ x \in Elements /\ Mine("IQ4XS4Warp", lane, g) = {x} /\ Ours("IQ4XS4Warp", lane, g) = {x}
  BY Places, Strided
<1>2. Weights("IQ4XS4Warp")[x] = Gemv!IQ4XS(x)
  BY <1>1 DEF Weights
<1>3. Gemv!IQ4XS(x) = [q |-> IQ4Code(g, lane),
                        s |-> Gemv!IQ4Scale(g), m |-> <<>>]
  BY WeightsAre
<1>4. /\ 4 * (lane \div 16) = (IF lane < 16 THEN 0 ELSE 4)
      /\ Gemv!NibbleScale(g) = Gemv!IQ4Scale(g)
  BY NibbleScales
<1>5. /\ r.dot = {<<Gemv!IQ4XS(x).q, x>>} /\ r.sum = {} /\ r.bsum = {}
      /\ r.s = Gemv!IQ4XS(x).s /\ r.m = Gemv!IQ4XS(x).m
  BY <1>3, <1>4 DEF Gemv!IQ4XSGemv, Gemv!Part, El
<1> HIDE DEF x, r
<1>6. Fits(r, Weights("IQ4XS4Warp"), {x}, {x}, {}, {})
  BY <1>1, <1>2, <1>5 DEF Fits
<1> QED BY <1>1, <1>6 DEF r

LEMMA IQ4XSSm86Fits ==
  ASSUME NEW lane \in 0 .. 31, NEW g \in 0 .. 7
  PROVE  Fits(Gemv!IQ4XSSm86Gemv(lane, g), Weights("IQ4XSSm86"), Mine("IQ4XSSm86", lane, g),
             Ours("IQ4XSSm86", lane, g),
              {}, {})
<1> DEFINE x == El(g, lane)
           r == Gemv!IQ4XSSm86Gemv(lane, g)
<1>1. /\ x \in Elements /\ Mine("IQ4XSSm86", lane, g) = {x} /\ Ours("IQ4XSSm86", lane, g) = {x}
  BY Places, Strided
<1>2. Weights("IQ4XSSm86")[x] = Gemv!IQ4XS(x)
  BY <1>1 DEF Weights
<1>3. Gemv!IQ4XS(x) = [q |-> IQ4Code(g, lane),
                        s |-> Gemv!IQ4Scale(g), m |-> <<>>]
  BY WeightsAre
<1>4. /\ Gemv!IQ4Sm86(2 + g) = Gemv!IQ4Scale(g)
      /\ Gemv!Within(Gemv!IQ4Sm86(10 + (16 * g + (lane % 16))), IF lane < 16 THEN 0 ELSE 4, 4)
           = IQ4Code(g, lane)
  BY IQ4XSSm86Code
<1>5. /\ r.dot = {<<Gemv!IQ4XS(x).q, x>>} /\ r.sum = {} /\ r.bsum = {}
      /\ r.s = Gemv!IQ4XS(x).s /\ r.m = Gemv!IQ4XS(x).m
  BY <1>3, <1>4 DEF Gemv!IQ4XSSm86Gemv, Gemv!Part, El
<1> HIDE DEF x, r
<1>6. Fits(r, Weights("IQ4XSSm86"), {x}, {x}, {}, {})
  BY <1>1, <1>2, <1>5 DEF Fits
<1> QED BY <1>1, <1>6 DEF r

LEMMA Q5KSm86Fits ==
  ASSUME NEW lane \in 0 .. 31, NEW g \in 0 .. 7
  PROVE  Fits(Gemv!Q5KSm86Gemv(lane, g), Weights("Q5KSm86"), Mine("Q5KSm86", lane, g),
             Ours("Q5KSm86", lane, g),
              Mine("Q5KSm86", lane, g), {})
<1> DEFINE x == El(g, lane)
           r == Gemv!Q5KSm86Gemv(lane, g)
<1>1. /\ x \in Elements /\ Mine("Q5KSm86", lane, g) = {x} /\ Ours("Q5KSm86", lane, g) = {x}
  BY Places, Strided
<1>2. Weights("Q5KSm86")[x] = Gemv!Q5K(x)
  BY <1>1 DEF Weights
<1>3. Gemv!Q5K(x) = [q |-> Q5KCode(g, lane),
                      s |-> Gemv!GroupScale(g), m |-> Gemv!GroupMin(g)]
  BY WeightsAre
<1>4. /\ Gemv!Within(Gemv!Q5KQs(32 * (g \div 2) + lane), 4 * (g % 2), 4)
            \o Gemv!Within(Gemv!Q5KQh(lane), g, 1)
           = Q5KCode(g, lane)
      /\ Gemv!Q5KMeta(4 + 2 * g) = Gemv!GroupScale(g)
      /\ Gemv!Q5KMeta(5 + 2 * g) = Gemv!GroupMin(g)
  <2> DEFINE n == 32 * (g \div 2) + lane
  <2>1. n \in Nat /\ lane \in Nat /\ 48 + 32 * (g \div 2) + lane = 48 + n
    OBVIOUS
  <2> HIDE DEF n
  <2>2. Gemv!Within(Gemv!Q5KQs(n), 4 * (g % 2), 4) \o Gemv!Within(Gemv!Q5KQh(lane), g, 1)
          = <<Gemv!Bits(48 + n, 4 * (g % 2), 4), Gemv!Bits(16 + lane, g, 1)>>
    BY <2>1, Q5KSm86Code
  <2> QED BY <2>1, <2>2, ScalesAgree DEF n
<1>5. /\ r.dot = {<<Gemv!Q5K(x).q, x>>} /\ r.sum = {x} /\ r.bsum = {}
      /\ r.s = Gemv!Q5K(x).s /\ r.m = Gemv!Q5K(x).m
  <2> DEFINE code == Gemv!Within(Gemv!Q5KQs(32 * (g \div 2) + lane), 4 * (g % 2), 4)
                       \o Gemv!Within(Gemv!Q5KQh(lane), g, 1)
  <2>1. /\ r.dot = {<<code, x>>} /\ r.sum = {x} /\ r.bsum = {}
        /\ r.s = Gemv!Q5KMeta(4 + 2 * g) /\ r.m = Gemv!Q5KMeta(5 + 2 * g)
    BY DEF Gemv!Q5KSm86Gemv, Gemv!Part, El
  <2>2. code = Gemv!Q5K(x).q
    <3>1. Gemv!Q5K(x).q = Q5KCode(g, lane)
      BY <1>3
    <3> HIDE DEF x
    <3> QED BY <1>4, <3>1
  <2> HIDE DEF code
  <2> QED BY <1>3, <1>4, <2>1, <2>2
<1> HIDE DEF x, r
<1>6. Fits(r, Weights("Q5KSm86"), {x}, {x}, {x}, {})
  BY <1>1, <1>2, <1>5 DEF Fits
<1> QED BY <1>1, <1>6 DEF r

LEMMA IQ4XSQ81Places ==
  ASSUME NEW lane \in 0 .. 31, NEW p \in 0 .. 1
  PROVE  LET g == lane \div 8 + 4 * p
         IN  /\ g \in 0 .. 7
             /\ Mine("IQ4XSQ81", lane, p)
                   = {El(g, j) : j \in {j \in 0 .. 31 : (j % 16) \div 2 = lane % 8}}
             /\ Ours("IQ4XSQ81", lane, p) = {El(g, j) : j \in 0 .. 31}
<1> DEFINE k == "IQ4XSQ81"
           g == lane \div 8 + 4 * p
           js == {j \in 0 .. 31 : (j % 16) \div 2 = lane % 8}
           all == 0 .. 31
<1>0. g \in 0 .. 7 /\ lane % 8 \in 0 .. 7 /\ lane = 8 * (g % 4) + (lane % 8) /\ p = g \div 4
  OBVIOUS
<1>1. Gemv!GroupWidth(k) = 8 /\ k \in Gemv!AllKernels
  BY DEF Gemv!GroupWidth, Gemv!AllKernels
<1> HIDE DEF g
<1>2. \A h \in 0 .. 7, j \in 0 .. 31 :
        h \div 4 = p /\ 8 * (h % 4) + ((j % 16) \div 2) = lane <=> h = g /\ j \in js
  BY <1>0
<1>3. \A h \in 0 .. 7, j \in 0 .. 31 :
        h \div 4 = p /\ (8 * (h % 4) + ((j % 16) \div 2)) \div 8 = lane \div 8 <=> h = g
            /\ j \in all
  BY <1>0
<1>4. js \subseteq 0 .. 31 /\ all \subseteq 0 .. 31
  BY <1>0
<1> HIDE DEF js, k, all
<1>5. \A h \in 0 .. 7, j \in 0 .. 31 : Turn(k, El(h, j)) = h \div 4
          /\ Owner(k, El(h, j)) = 8 * (h % 4) + ((j % 16) \div 2)
  BY <1>1, Assigned DEF k
<1>6. \A h \in 0 .. 7, j \in 0 .. 31 :
        /\ El(h, j) \in Mine(k, lane, p) <=> h = g /\ j \in js
        /\ El(h, j) \in Ours(k, lane, p) <=> h = g /\ j \in all
  <2>1. \A h \in 0 .. 7, j \in 0 .. 31 :
          /\ El(h, j) \in Mine(k, lane, p)
               <=> Turn(k, El(h, j)) = p /\ Owner(k, El(h, j)) = lane
          /\ El(h, j) \in Ours(k, lane, p)
               <=> Turn(k, El(h, j)) = p /\ Owner(k, El(h, j)) \div 8 = lane \div 8
    BY <1>1, Members
  <2> QED BY <1>2, <1>3, <1>5, <2>1
<1>7. Mine(k, lane, p) \subseteq Elements /\ Ours(k, lane, p) \subseteq Elements
  BY Members
<1>8. Mine(k, lane, p) = {El(g, j) : j \in js}
  BY <1>0, <1>4, <1>6, <1>7, Cut
<1>9. Ours(k, lane, p) = {El(g, j) : j \in all}
  BY <1>0, <1>4, <1>6, <1>7, Cut
<1> QED BY <1>0, <1>8, <1>9 DEF g, js, k, all

LEMMA Q5KDp4aPlaces ==
  ASSUME NEW lane \in 0 .. 31, NEW p \in 0 .. 1
  PROVE  LET g == lane \div 8 + 4 * p
         IN  /\ g \in 0 .. 7
             /\ Mine("Q5KDp4a", lane, p)
                   = {El(g, j) : j \in {j \in 0 .. 31 : j \div 4 = lane % 8}}
             /\ Ours("Q5KDp4a", lane, p) = {El(g, j) : j \in 0 .. 31}
<1> DEFINE k == "Q5KDp4a"
           g == lane \div 8 + 4 * p
           js == {j \in 0 .. 31 : j \div 4 = lane % 8}
           all == 0 .. 31
<1>0. g \in 0 .. 7 /\ lane % 8 \in 0 .. 7 /\ lane = 8 * (g % 4) + (lane % 8) /\ p = g \div 4
  OBVIOUS
<1>1. Gemv!GroupWidth(k) = 8 /\ k \in Gemv!AllKernels
  BY DEF Gemv!GroupWidth, Gemv!AllKernels
<1> HIDE DEF g
<1>2. \A h \in 0 .. 7, j \in 0 .. 31 :
        h \div 4 = p /\ 8 * (h % 4) + (j \div 4) = lane <=> h = g /\ j \in js
  BY <1>0
<1>3. \A h \in 0 .. 7, j \in 0 .. 31 :
        h \div 4 = p /\ (8 * (h % 4) + (j \div 4)) \div 8 = lane \div 8 <=> h = g /\ j \in all
  BY <1>0
<1>4. js \subseteq 0 .. 31 /\ all \subseteq 0 .. 31
  BY <1>0
<1> HIDE DEF js, k, all
<1>5. \A h \in 0 .. 7, j \in 0 .. 31 : Turn(k, El(h, j)) = h \div 4
          /\ Owner(k, El(h, j)) = 8 * (h % 4) + (j \div 4)
  BY <1>1, Assigned DEF k
<1>6. \A h \in 0 .. 7, j \in 0 .. 31 :
        /\ El(h, j) \in Mine(k, lane, p) <=> h = g /\ j \in js
        /\ El(h, j) \in Ours(k, lane, p) <=> h = g /\ j \in all
  <2>1. \A h \in 0 .. 7, j \in 0 .. 31 :
          /\ El(h, j) \in Mine(k, lane, p)
               <=> Turn(k, El(h, j)) = p /\ Owner(k, El(h, j)) = lane
          /\ El(h, j) \in Ours(k, lane, p)
               <=> Turn(k, El(h, j)) = p /\ Owner(k, El(h, j)) \div 8 = lane \div 8
    BY <1>1, Members
  <2> QED BY <1>2, <1>3, <1>5, <2>1
<1>7. Mine(k, lane, p) \subseteq Elements /\ Ours(k, lane, p) \subseteq Elements
  BY Members
<1>8. Mine(k, lane, p) = {El(g, j) : j \in js}
  BY <1>0, <1>4, <1>6, <1>7, Cut
<1>9. Ours(k, lane, p) = {El(g, j) : j \in all}
  BY <1>0, <1>4, <1>6, <1>7, Cut
<1> QED BY <1>0, <1>8, <1>9 DEF g, js, k, all

LEMMA IQ4XSPrmtPlaces ==
  ASSUME NEW lane \in 0 .. 31, NEW p \in 0 .. 0
  PROVE  LET g == lane \div 4
         IN  /\ g \in 0 .. 7
             /\ Mine("IQ4XSPrmt", lane, p)
                   = {El(g, j) : j \in {j \in 0 .. 31 : (j % 16) \div 4 = lane % 4}}
             /\ Ours("IQ4XSPrmt", lane, p) = {El(g, j) : j \in 0 .. 31}
<1> DEFINE k == "IQ4XSPrmt"
           g == lane \div 4
           js == {j \in 0 .. 31 : (j % 16) \div 4 = lane % 4}
           all == 0 .. 31
<1>0. g \in 0 .. 7 /\ lane % 4 \in 0 .. 3 /\ lane = 4 * g + (lane % 4) /\ p = 0
  OBVIOUS
<1>1. Gemv!GroupWidth(k) = 4 /\ k \in Gemv!AllKernels
  BY DEF Gemv!GroupWidth, Gemv!AllKernels
<1> HIDE DEF g
<1>2. \A h \in 0 .. 7, j \in 0 .. 31 :
        0 = p /\ 4 * h + ((j % 16) \div 4) = lane <=> h = g /\ j \in js
  BY <1>0
<1>3. \A h \in 0 .. 7, j \in 0 .. 31 :
        0 = p /\ (4 * h + ((j % 16) \div 4)) \div 4 = lane \div 4 <=> h = g /\ j \in all
  BY <1>0
<1>4. js \subseteq 0 .. 31 /\ all \subseteq 0 .. 31
  BY <1>0
<1> HIDE DEF js, k, all
<1>5. \A h \in 0 .. 7, j \in 0 .. 31 : Turn(k, El(h, j)) = 0
          /\ Owner(k, El(h, j)) = 4 * h + ((j % 16) \div 4)
  BY <1>1, Assigned DEF k
<1>6. \A h \in 0 .. 7, j \in 0 .. 31 :
        /\ El(h, j) \in Mine(k, lane, p) <=> h = g /\ j \in js
        /\ El(h, j) \in Ours(k, lane, p) <=> h = g /\ j \in all
  <2>1. \A h \in 0 .. 7, j \in 0 .. 31 :
          /\ El(h, j) \in Mine(k, lane, p)
               <=> Turn(k, El(h, j)) = p /\ Owner(k, El(h, j)) = lane
          /\ El(h, j) \in Ours(k, lane, p)
               <=> Turn(k, El(h, j)) = p /\ Owner(k, El(h, j)) \div 4 = lane \div 4
    BY <1>1, Members
  <2> QED BY <1>2, <1>3, <1>5, <2>1
<1>7. Mine(k, lane, p) \subseteq Elements /\ Ours(k, lane, p) \subseteq Elements
  BY Members
<1>8. Mine(k, lane, p) = {El(g, j) : j \in js}
  BY <1>0, <1>4, <1>6, <1>7, Cut
<1>9. Ours(k, lane, p) = {El(g, j) : j \in all}
  BY <1>0, <1>4, <1>6, <1>7, Cut
<1> QED BY <1>0, <1>8, <1>9 DEF g, js, k, all

LEMMA Q5KVecPlaces ==
  ASSUME NEW lane \in 0 .. 31, NEW p \in 0 .. 0
  PROVE  LET g == lane \div 4
         IN  /\ g \in 0 .. 7
             /\ Mine("Q5KVec", lane, p) = {El(g, j) : j \in {j \in 0 .. 31 : j \div 8 = lane % 4}}
             /\ Ours("Q5KVec", lane, p) = {El(g, j) : j \in 0 .. 31}
<1> DEFINE k == "Q5KVec"
           g == lane \div 4
           js == {j \in 0 .. 31 : j \div 8 = lane % 4}
           all == 0 .. 31
<1>0. g \in 0 .. 7 /\ lane % 4 \in 0 .. 3 /\ lane = 4 * g + (lane % 4) /\ p = 0
  OBVIOUS
<1>1. Gemv!GroupWidth(k) = 4 /\ k \in Gemv!AllKernels
  BY DEF Gemv!GroupWidth, Gemv!AllKernels
<1> HIDE DEF g
<1>2. \A h \in 0 .. 7, j \in 0 .. 31 :
        0 = p /\ 4 * h + (j \div 8) = lane <=> h = g /\ j \in js
  BY <1>0
<1>3. \A h \in 0 .. 7, j \in 0 .. 31 :
        0 = p /\ (4 * h + (j \div 8)) \div 4 = lane \div 4 <=> h = g /\ j \in all
  BY <1>0
<1>4. js \subseteq 0 .. 31 /\ all \subseteq 0 .. 31
  BY <1>0
<1> HIDE DEF js, k, all
<1>5. \A h \in 0 .. 7, j \in 0 .. 31 : Turn(k, El(h, j)) = 0
          /\ Owner(k, El(h, j)) = 4 * h + (j \div 8)
  BY <1>1, Assigned DEF k
<1>6. \A h \in 0 .. 7, j \in 0 .. 31 :
        /\ El(h, j) \in Mine(k, lane, p) <=> h = g /\ j \in js
        /\ El(h, j) \in Ours(k, lane, p) <=> h = g /\ j \in all
  <2>1. \A h \in 0 .. 7, j \in 0 .. 31 :
          /\ El(h, j) \in Mine(k, lane, p)
               <=> Turn(k, El(h, j)) = p /\ Owner(k, El(h, j)) = lane
          /\ El(h, j) \in Ours(k, lane, p)
               <=> Turn(k, El(h, j)) = p /\ Owner(k, El(h, j)) \div 4 = lane \div 4
    BY <1>1, Members
  <2> QED BY <1>2, <1>3, <1>5, <2>1
<1>7. Mine(k, lane, p) \subseteq Elements /\ Ours(k, lane, p) \subseteq Elements
  BY Members
<1>8. Mine(k, lane, p) = {El(g, j) : j \in js}
  BY <1>0, <1>4, <1>6, <1>7, Cut
<1>9. Ours(k, lane, p) = {El(g, j) : j \in all}
  BY <1>0, <1>4, <1>6, <1>7, Cut
<1> QED BY <1>0, <1>8, <1>9 DEF g, js, k, all

LEMMA Q6KVecPlaces ==
  ASSUME NEW lane \in 0 .. 31, NEW p \in 0 .. 0
  PROVE  LET g == lane \div 4
         IN  /\ g \in 0 .. 7
             /\ Mine("Q6KVec", lane, p) = {El(g, j) : j \in {j \in 0 .. 31 : j \div 8 = lane % 4}}
             /\ Ours("Q6KVec", lane, p)
                  = {El(g, j) : j \in {j \in 0 .. 31 : j \div 16 = (lane % 4) \div 2}}
<1> DEFINE k == "Q6KVec"
           g == lane \div 4
           js == {j \in 0 .. 31 : j \div 8 = lane % 4}
           all == {j \in 0 .. 31 : j \div 16 = (lane % 4) \div 2}
<1>0. g \in 0 .. 7 /\ lane % 4 \in 0 .. 3 /\ lane = 4 * g + (lane % 4) /\ p = 0
  OBVIOUS
<1>1. Gemv!GroupWidth(k) = 2 /\ k \in Gemv!AllKernels
  BY DEF Gemv!GroupWidth, Gemv!AllKernels
<1> HIDE DEF g
<1>2. \A h \in 0 .. 7, j \in 0 .. 31 :
        0 = p /\ 4 * h + (j \div 8) = lane <=> h = g /\ j \in js
  BY <1>0
<1>3. \A h \in 0 .. 7, j \in 0 .. 31 :
        0 = p /\ (4 * h + (j \div 8)) \div 2 = lane \div 2 <=> h = g /\ j \in all
  BY <1>0
<1>4. js \subseteq 0 .. 31 /\ all \subseteq 0 .. 31
  BY <1>0
<1> HIDE DEF js, k, all
<1>5. \A h \in 0 .. 7, j \in 0 .. 31 : Turn(k, El(h, j)) = 0
          /\ Owner(k, El(h, j)) = 4 * h + (j \div 8)
  BY <1>1, Assigned DEF k
<1>6. \A h \in 0 .. 7, j \in 0 .. 31 :
        /\ El(h, j) \in Mine(k, lane, p) <=> h = g /\ j \in js
        /\ El(h, j) \in Ours(k, lane, p) <=> h = g /\ j \in all
  <2>1. \A h \in 0 .. 7, j \in 0 .. 31 :
          /\ El(h, j) \in Mine(k, lane, p)
               <=> Turn(k, El(h, j)) = p /\ Owner(k, El(h, j)) = lane
          /\ El(h, j) \in Ours(k, lane, p)
               <=> Turn(k, El(h, j)) = p /\ Owner(k, El(h, j)) \div 2 = lane \div 2
    BY <1>1, Members
  <2> QED BY <1>2, <1>3, <1>5, <2>1
<1>7. Mine(k, lane, p) \subseteq Elements /\ Ours(k, lane, p) \subseteq Elements
  BY Members
<1>8. Mine(k, lane, p) = {El(g, j) : j \in js}
  BY <1>0, <1>4, <1>6, <1>7, Cut
<1>9. Ours(k, lane, p) = {El(g, j) : j \in all}
  BY <1>0, <1>4, <1>6, <1>7, Cut
<1> QED BY <1>0, <1>8, <1>9 DEF g, js, k, all

LEMMA DotIs ==
  ASSUME NEW I, NEW code, NEW place, NEW W, NEW g, NEW js,
         \A i \in I : place[i] \in js /\ W[El(g, place[i])].q = code[i],
         \A j \in js : \E i \in I : place[i] = j
  PROVE  {<<code[i], El(g, place[i])>> : i \in I} = {<<W[e].q, e>> : e \in {El(g, j) : j \in js}}
<1>1. \A i \in I : \E e \in {El(g, j) : j \in js} : <<code[i], El(g, place[i])>> = <<W[e].q, e>>
  OBVIOUS
<1>2. \A e \in {El(g, j) : j \in js} : \E i \in I : <<code[i], El(g, place[i])>> = <<W[e].q, e>>
  OBVIOUS
<1> QED BY <1>1, <1>2

LEMMA IQ4XSQ81Fits ==
  ASSUME NEW lane \in 0 .. 31, NEW p \in 0 .. 1
  PROVE  Fits(Gemv!IQ4XSQ81Gemv(lane, p), Weights("IQ4XSQ81"), Mine("IQ4XSQ81", lane, p),
              Ours("IQ4XSQ81", lane, p), {}, {})
<1> DEFINE g == lane \div 8 + 4 * p
           l == lane % 8
           js == {j \in 0 .. 31 : (j % 16) \div 2 = lane % 8}
           W == Weights("IQ4XSQ81")
           r == Gemv!IQ4XSQ81Gemv(lane, p)
           place == [i \in 0 .. 3 |-> IF i < 2 THEN 2 * l + i ELSE 2 * l + 16 + (i - 2)]
           code == [i \in 0 .. 3 |->
                     <<Gemv!Bits(8 + 16 * g + 2 * l + (i % 2), 4 * (i \div 2), 4)>>]
<1>1. /\ r.dot = {<<code[i], El(g, place[i])>> : i \in 0 .. 3}
      /\ r.sum = {} /\ r.bsum = {} /\ r.s = Gemv!NibbleScale(g) /\ r.m = <<>>
  BY DEF Gemv!IQ4XSQ81Gemv, Gemv!Part, El
<1>2. /\ g \in 0 .. 7 /\ Mine("IQ4XSQ81", lane, p) = {El(g, j) : j \in js}
      /\ Ours("IQ4XSQ81", lane, p) = {El(g, j) : j \in 0 .. 31}
  BY IQ4XSQ81Places
<1>3. l \in 0 .. 7 /\ js = {j \in 0 .. 31 : (j % 16) \div 2 = l}
  OBVIOUS
<1> HIDE DEF g, l, r, js
<1>4. \A j \in 0 .. 31 :
        /\ W[El(g, j)].q = IQ4Code(g, j)
        /\ W[El(g, j)].s = Gemv!IQ4Scale(g) /\ W[El(g, j)].m = <<>>
  <2> SUFFICES ASSUME NEW j \in 0 .. 31
               PROVE  /\ W[El(g, j)].q = IQ4Code(g, j)
                      /\ W[El(g, j)].s = Gemv!IQ4Scale(g) /\ W[El(g, j)].m = <<>>
    OBVIOUS
  <2>1. W[El(g, j)] = Gemv!IQ4XS(El(g, j))
    BY <1>2, Places DEF Weights
  <2>2. Gemv!IQ4XS(El(g, j))
          = [q |-> IQ4Code(g, j), s |-> Gemv!IQ4Scale(g), m |-> <<>>]
    BY <1>2, WeightsAre
  <2> QED BY <2>1, <2>2
<1> HIDE DEF W
<1>5. \A i \in 0 .. 3 :
        /\ place[i] \in 0 .. 31 /\ (place[i] % 16) \div 2 = l
        /\ place[i] % 16 = 2 * l + (i % 2) /\ place[i] \div 16 = i \div 2
  BY <1>3
<1>6. \A j \in js : \E i \in 0 .. 3 : place[i] = j
  <2> SUFFICES ASSUME NEW j \in js PROVE \E i \in 0 .. 3 : place[i] = j
    OBVIOUS
  <2>1. j \in 0 .. 31 /\ (j % 16) \div 2 = l
    BY <1>3
  <2>2. j \in {2 * l, 2 * l + 1, 2 * l + 16, 2 * l + 17}
    BY <1>3, <2>1
  <2>3. place[0] = 2 * l /\ place[1] = 2 * l + 1 /\ place[2] = 2 * l + 16 /\ place[3] = 2 * l + 17
    BY <1>3
  <2> QED BY <2>2, <2>3
<1>7. \A i \in 0 .. 3 : place[i] \in js /\ W[El(g, place[i])].q = code[i]
  <2> SUFFICES ASSUME NEW i \in 0 .. 3 PROVE place[i] \in js /\ W[El(g, place[i])].q = code[i]
    OBVIOUS
  <2>1. W[El(g, place[i])].q = IQ4Code(g, place[i])
    <3>1. place[i] \in 0 .. 31
      BY <1>5
    <3> HIDE DEF place
    <3> QED BY <1>4, <3>1
  <2>2. code[i] = <<Gemv!Bits(8 + 16 * g + 2 * l + (i % 2), 4 * (i \div 2), 4)>>
    OBVIOUS
  <2>3. place[i] \in js
    BY <1>3, <1>5
  <2>4. 8 + 16 * g + (place[i] % 16) = 8 + 16 * g + 2 * l + (i % 2)
    BY <1>2, <1>3, <1>5
  <2>5. place[i] \div 16 = i \div 2
    BY <1>5
  <2> HIDE DEF place, code
  <2> QED BY <2>1, <2>2, <2>3, <2>4, <2>5
<1> HIDE DEF place, code
<1>8. r.dot = {<<W[e].q, e>> : e \in Mine("IQ4XSQ81", lane, p)}
  <2> DEFINE I == 0 .. 3
  <2>1. /\ \A i \in I : place[i] \in js /\ W[El(g, place[i])].q = code[i]
        /\ \A j \in js : \E i \in I : place[i] = j
        /\ r.dot = {<<code[i], El(g, place[i])>> : i \in I}
    BY <1>1, <1>6, <1>7
  <2> HIDE DEF I
  <2>2. {<<code[i], El(g, place[i])>> : i \in I} = {<<W[e].q, e>> : e \in {El(g, j) : j \in js}}
    BY <2>1, DotIs
  <2> QED BY <1>2, <2>1, <2>2
<1>9. \A e \in Ours("IQ4XSQ81", lane, p) : r.s = W[e].s /\ r.m = W[e].m
  <2> SUFFICES ASSUME NEW j \in 0 .. 31 PROVE r.s = W[El(g, j)].s /\ r.m = W[El(g, j)].m
    BY <1>2
  <2>1. r.s = Gemv!IQ4Scale(g)
    BY <1>1, <1>2, NibbleScales
  <2> QED BY <1>1, <1>4, <2>1
<1> QED BY <1>1, <1>8, <1>9 DEF Fits, r, W
LEMMA Q5KDp4aFits ==
  ASSUME NEW lane \in 0 .. 31, NEW p \in 0 .. 1
  PROVE  Fits(Gemv!Q5KDp4aGemv(lane, p), Weights("Q5KDp4a"), Mine("Q5KDp4a", lane, p),
              Ours("Q5KDp4a", lane, p), {}, Ours("Q5KDp4a", lane, p))
<1> DEFINE g == lane \div 8 + 4 * p
           l == lane % 8
           js == {j \in 0 .. 31 : j \div 4 = lane % 8}
           W == Weights("Q5KDp4a")
           r == Gemv!Q5KDp4aGemv(lane, p)
           place == [i \in 0 .. 3 |-> 4 * l + i]
           code == [i \in 0 .. 3 |->
                     <<Gemv!Bits(48 + 32 * (g \div 2) + 4 * l + i, 4 * (g % 2), 4),
                       Gemv!Bits(16 + 4 * l + i, g, 1)>>]
<1>1. /\ r.dot = {<<code[i], El(g, place[i])>> : i \in 0 .. 3}
      /\ r.sum = {} /\ r.bsum = Gemv!BSum(2 * g) \cup Gemv!BSum(2 * g + 1)
      /\ r.s = Gemv!GroupScale(g) /\ r.m = Gemv!GroupMin(g)
  BY DEF Gemv!Q5KDp4aGemv, Gemv!Part, El
<1>2. /\ g \in 0 .. 7 /\ Mine("Q5KDp4a", lane, p) = {El(g, j) : j \in js}
      /\ Ours("Q5KDp4a", lane, p) = {El(g, j) : j \in 0 .. 31}
  BY Q5KDp4aPlaces
<1>3. l \in 0 .. 7 /\ js = {j \in 0 .. 31 : j \div 4 = l}
  OBVIOUS
<1> HIDE DEF g, l, r, js
<1>4. \A j \in 0 .. 31 : W[El(g, j)].q = Q5KCode(g, j) /\ W[El(g, j)].s = Gemv!GroupScale(g)
          /\ W[El(g, j)].m = Gemv!GroupMin(g)
  <2> SUFFICES ASSUME NEW j \in 0 .. 31
               PROVE  /\ W[El(g, j)].q = Q5KCode(g, j)
                      /\ W[El(g, j)].s = Gemv!GroupScale(g) /\ W[El(g, j)].m = Gemv!GroupMin(g)
    OBVIOUS
  <2>1. W[El(g, j)] = Gemv!Q5K(El(g, j))
    BY <1>2, Places DEF Weights
  <2>2. Gemv!Q5K(El(g, j)) = [q |-> Q5KCode(g, j), s |-> Gemv!GroupScale(g),
            m |-> Gemv!GroupMin(g)]
    BY <1>2, WeightsAre
  <2> QED BY <2>1, <2>2
<1> HIDE DEF W
<1>5. \A i \in 0 .. 3 : place[i] \in 0 .. 31 /\ place[i] \div 4 = l /\ place[i] = 4 * l + i
  BY <1>3
<1>6. \A j \in js : \E i \in 0 .. 3 : place[i] = j
  <2> SUFFICES ASSUME NEW j \in js PROVE \E i \in 0 .. 3 : place[i] = j
    OBVIOUS
  <2>1. j \in 0 .. 31 /\ j \div 4 = l
    BY <1>3
  <2>2. j % 4 \in 0 .. 3 /\ place[j % 4] = j
    BY <1>3, <2>1
  <2> QED BY <2>2
<1>7. \A i \in 0 .. 3 : place[i] \in js /\ W[El(g, place[i])].q = code[i]
  <2> SUFFICES ASSUME NEW i \in 0 .. 3 PROVE place[i] \in js /\ W[El(g, place[i])].q = code[i]
    OBVIOUS
  <2>1. W[El(g, place[i])].q = Q5KCode(g, place[i])
    <3>1. place[i] \in 0 .. 31
      BY <1>5
    <3> HIDE DEF place
    <3> QED BY <1>4, <3>1
  <2>2. code[i] = <<Gemv!Bits(48 + 32 * (g \div 2) + 4 * l + i, 4 * (g % 2), 4),
            Gemv!Bits(16 + 4 * l + i, g, 1)>>
    OBVIOUS
  <2>3. place[i] \in js
    BY <1>3, <1>5
  <2>4. 48 + 32 * (g \div 2) + place[i] = 48 + 32 * (g \div 2) + 4 * l + i
            /\ 16 + place[i] = 16 + 4 * l + i
    BY <1>2, <1>3, <1>5
  <2> HIDE DEF place, code
  <2> QED BY <2>1, <2>2, <2>3, <2>4
<1> HIDE DEF place, code
<1>8. r.dot = {<<W[e].q, e>> : e \in Mine("Q5KDp4a", lane, p)}
  <2> DEFINE I == 0 .. 3
  <2>1. /\ \A i \in I : place[i] \in js /\ W[El(g, place[i])].q = code[i]
        /\ \A j \in js : \E i \in I : place[i] = j
        /\ r.dot = {<<code[i], El(g, place[i])>> : i \in I}
    BY <1>1, <1>6, <1>7
  <2> HIDE DEF I
  <2>2. {<<code[i], El(g, place[i])>> : i \in I} = {<<W[e].q, e>> : e \in {El(g, j) : j \in js}}
    BY <2>1, DotIs
  <2> QED BY <1>2, <2>1, <2>2
<1>9. \A e \in Ours("Q5KDp4a", lane, p) : r.s = W[e].s /\ r.m = W[e].m
  <2> SUFFICES ASSUME NEW j \in 0 .. 31 PROVE r.s = W[El(g, j)].s /\ r.m = W[El(g, j)].m
    BY <1>2
  <2>1. r.s = Gemv!GroupScale(g) /\ r.m = Gemv!GroupMin(g)
    BY <1>1, <1>2
  <2> QED BY <1>1, <1>4, <2>1
<1>10. Gemv!BSum(2 * g) \cup Gemv!BSum(2 * g + 1) = {El(g, j) : j \in 0 .. 31}
  BY <1>2 DEF Gemv!BSum, El
<1> QED BY <1>1, <1>8, <1>9, <1>2, <1>10 DEF Fits, r, W

LEMMA IQ4XSPrmtFits ==
  ASSUME NEW lane \in 0 .. 31, NEW p \in 0 .. 0
  PROVE  Fits(Gemv!IQ4XSPrmtGemv(lane, p), Weights("IQ4XSPrmt"), Mine("IQ4XSPrmt", lane, p),
              Ours("IQ4XSPrmt", lane, p), {}, {})
<1> DEFINE g == lane \div 4
           l == lane % 4
           js == {j \in 0 .. 31 : (j % 16) \div 4 = lane % 4}
           W == Weights("IQ4XSPrmt")
           r == Gemv!IQ4XSPrmtGemv(lane, p)
           place == [i \in 0 .. 7 |-> 4 * l + (IF i < 4 THEN i ELSE 16 + (i - 4))]
           code == [i \in 0 .. 7 |->
                     <<Gemv!Bits(8 + 16 * g + 4 * l + Nibble(i) \div 2, 4 * (Nibble(i) % 2), 4)>>]
<1>1. /\ r.dot = {<<code[i], El(g, place[i])>> : i \in 0 .. 7}
      /\ r.sum = {} /\ r.bsum = {} /\ r.s = Gemv!NibbleScale(g) /\ r.m = <<>>
  BY DEF Gemv!IQ4XSPrmtGemv, Gemv!Part, El
<1>2. /\ g \in 0 .. 7 /\ Mine("IQ4XSPrmt", lane, p) = {El(g, j) : j \in js}
      /\ Ours("IQ4XSPrmt", lane, p) = {El(g, j) : j \in 0 .. 31}
  BY IQ4XSPrmtPlaces
<1>3. l \in 0 .. 3 /\ js = {j \in 0 .. 31 : (j % 16) \div 4 = l}
  OBVIOUS
<1> HIDE DEF g, l, r, js
<1>4. \A j \in 0 .. 31 : W[El(g, j)].q = IQ4Code(g, j) /\ W[El(g, j)].s = Gemv!IQ4Scale(g)
          /\ W[El(g, j)].m = <<>>
  <2> SUFFICES ASSUME NEW j \in 0 .. 31
               PROVE  /\ W[El(g, j)].q = IQ4Code(g, j)
                      /\ W[El(g, j)].s = Gemv!IQ4Scale(g) /\ W[El(g, j)].m = <<>>
    OBVIOUS
  <2>1. W[El(g, j)] = Gemv!IQ4XS(El(g, j))
    BY <1>2, Places DEF Weights
  <2>2. Gemv!IQ4XS(El(g, j)) = [q |-> IQ4Code(g, j), s |-> Gemv!IQ4Scale(g), m |-> <<>>]
    BY <1>2, WeightsAre
  <2> QED BY <2>1, <2>2
<1> HIDE DEF W
<1>5. \A i \in 0 .. 7 : place[i] \in 0 .. 31 /\ (place[i] % 16) \div 4 = l
  BY <1>3
<1>6. \A j \in js : \E i \in 0 .. 7 : place[i] = j
  <2> SUFFICES ASSUME NEW j \in js PROVE \E i \in 0 .. 7 : place[i] = j
    OBVIOUS
  <2>1. j \in 0 .. 31 /\ (j % 16) \div 4 = l
    BY <1>3
  <2>2. ((j % 4) + 4 * (j \div 16)) \in 0 .. 7 /\ place[((j % 4) + 4 * (j \div 16))] = j
    BY <1>3, <2>1
  <2> QED BY <2>2
<1>7. \A i \in 0 .. 7 : place[i] \in js /\ W[El(g, place[i])].q = code[i]
  <2> SUFFICES ASSUME NEW i \in 0 .. 7 PROVE place[i] \in js /\ W[El(g, place[i])].q = code[i]
    OBVIOUS
  <2>1. W[El(g, place[i])].q = IQ4Code(g, place[i])
    <3>1. place[i] \in 0 .. 31
      BY <1>5
    <3> HIDE DEF place
    <3> QED BY <1>4, <3>1
  <2>2. code[i] = <<Gemv!Bits(8 + 16 * g + 4 * l + Nibble(i) \div 2, 4 * (Nibble(i) % 2), 4)>>
    OBVIOUS
  <2>3. place[i] \in js
    BY <1>3, <1>5
  <2>4. /\ 8 + 16 * g + (place[i] % 16) = 8 + 16 * g + 4 * l + Nibble(i) \div 2
        /\ place[i] \div 16 = Nibble(i) % 2
    BY <1>2, <1>3, <1>5
  <2> HIDE DEF place, code
  <2> QED BY <2>1, <2>2, <2>3, <2>4
<1> HIDE DEF place, code
<1>8. r.dot = {<<W[e].q, e>> : e \in Mine("IQ4XSPrmt", lane, p)}
  <2> DEFINE I == 0 .. 7
  <2>1. /\ \A i \in I : place[i] \in js /\ W[El(g, place[i])].q = code[i]
        /\ \A j \in js : \E i \in I : place[i] = j
        /\ r.dot = {<<code[i], El(g, place[i])>> : i \in I}
    BY <1>1, <1>6, <1>7
  <2> HIDE DEF I
  <2>2. {<<code[i], El(g, place[i])>> : i \in I} = {<<W[e].q, e>> : e \in {El(g, j) : j \in js}}
    BY <2>1, DotIs
  <2> QED BY <1>2, <2>1, <2>2
<1>9. \A e \in Ours("IQ4XSPrmt", lane, p) : r.s = W[e].s /\ r.m = W[e].m
  <2> SUFFICES ASSUME NEW j \in 0 .. 31 PROVE r.s = W[El(g, j)].s /\ r.m = W[El(g, j)].m
    BY <1>2
  <2>1. r.s = Gemv!IQ4Scale(g) /\ r.m = <<>>
    BY <1>1, <1>2, NibbleScales
  <2> QED BY <1>1, <1>4, <2>1
<1> QED BY <1>1, <1>8, <1>9 DEF Fits, r, W

LEMMA Q5KVecFits ==
  ASSUME NEW lane \in 0 .. 31, NEW p \in 0 .. 0
  PROVE  Fits(Gemv!Q5KVecGemv(lane, p), Weights("Q5KVec"), Mine("Q5KVec", lane, p),
              Ours("Q5KVec", lane, p), Mine("Q5KVec", lane, p), {})
<1> DEFINE g == lane \div 4
           l == lane % 4
           js == {j \in 0 .. 31 : j \div 8 = lane % 4}
           W == Weights("Q5KVec")
           r == Gemv!Q5KVecGemv(lane, p)
           place == [i \in 0 .. 7 |-> 8 * l + i]
           code == [i \in 0 .. 7 |->
                     Gemv!Within(Gemv!Q5KQs(32 * (g \div 2) + 8 * l + i), 4 * (g % 2), 4)
                       \o Gemv!Within(Gemv!Q5KQh(8 * l + i), g, 1)]
<1>1. /\ r.dot = {<<code[i], El(g, place[i])>> : i \in 0 .. 7}
      /\ r.sum = {El(g, place[i]) : i \in 0 .. 7} /\ r.bsum = {}
      /\ r.s = Gemv!Q5KMeta(4 + 2 * g) /\ r.m = Gemv!Q5KMeta(5 + 2 * g)
  <2> DEFINE Code(i) == Gemv!Within(Gemv!Q5KQs(32 * (g \div 2) + 8 * l + i), 4 * (g % 2), 4)
                          \o Gemv!Within(Gemv!Q5KQh(8 * l + i), g, 1)
             I == 0 .. 7
  <2>1. /\ r.dot = {<<Code(i), 32 * g + 8 * l + i>> : i \in I}
        /\ r.sum = {32 * g + 8 * l + i : i \in I}
    <3> HIDE DEF I
    <3> QED BY DEF Gemv!Q5KVecGemv, Gemv!Part, I
  <2>2. r.bsum = {} /\ r.s = Gemv!Q5KMeta(4 + 2 * g) /\ r.m = Gemv!Q5KMeta(5 + 2 * g)
    BY DEF Gemv!Q5KVecGemv, Gemv!Part
  <2>3. \A i \in I : code[i] = Code(i) /\ El(g, place[i]) = 32 * g + 8 * l + i
    <3> SUFFICES ASSUME NEW i \in 0 .. 7
                 PROVE  code[i] = Code(i) /\ El(g, place[i]) = 32 * g + 8 * l + i
      OBVIOUS
    <3>1. code[i] = Code(i)
      OBVIOUS
    <3>2. El(g, place[i]) = 32 * g + 8 * l + i
      BY DEF El
    <3> QED BY <3>1, <3>2
  <2> HIDE DEF g, l, r, code, place, Code, I
  <2>4. /\ r.dot = {<<code[i], El(g, place[i])>> : i \in I}
        /\ r.sum = {El(g, place[i]) : i \in I}
    BY <2>1, <2>3
  <2> QED BY <2>2, <2>4 DEF I
<1>2. /\ g \in 0 .. 7 /\ Mine("Q5KVec", lane, p) = {El(g, j) : j \in js}
      /\ Ours("Q5KVec", lane, p) = {El(g, j) : j \in 0 .. 31}
  BY Q5KVecPlaces
<1>3. l \in 0 .. 3 /\ js = {j \in 0 .. 31 : j \div 8 = l}
  OBVIOUS
<1> HIDE DEF g, l, r, js
<1>4. \A j \in 0 .. 31 : W[El(g, j)].q = Q5KCode(g, j) /\ W[El(g, j)].s = Gemv!GroupScale(g)
          /\ W[El(g, j)].m = Gemv!GroupMin(g)
  <2> SUFFICES ASSUME NEW j \in 0 .. 31
               PROVE  /\ W[El(g, j)].q = Q5KCode(g, j)
                      /\ W[El(g, j)].s = Gemv!GroupScale(g) /\ W[El(g, j)].m = Gemv!GroupMin(g)
    OBVIOUS
  <2>1. W[El(g, j)] = Gemv!Q5K(El(g, j))
    BY <1>2, Places DEF Weights
  <2>2. Gemv!Q5K(El(g, j)) = [q |-> Q5KCode(g, j), s |-> Gemv!GroupScale(g),
            m |-> Gemv!GroupMin(g)]
    BY <1>2, WeightsAre
  <2> QED BY <2>1, <2>2
<1> HIDE DEF W
<1>5. \A i \in 0 .. 7 : place[i] \in 0 .. 31 /\ place[i] \div 8 = l /\ place[i] = 8 * l + i
  BY <1>3
<1>6. \A j \in js : \E i \in 0 .. 7 : place[i] = j
  <2> SUFFICES ASSUME NEW j \in js PROVE \E i \in 0 .. 7 : place[i] = j
    OBVIOUS
  <2>1. j \in 0 .. 31 /\ j \div 8 = l
    BY <1>3
  <2>2. (j % 8) \in 0 .. 7 /\ place[j % 8] = j
    BY <1>3, <2>1
  <2> QED BY <2>2
<1>7. \A i \in 0 .. 7 : place[i] \in js /\ W[El(g, place[i])].q = code[i]
  <2> SUFFICES ASSUME NEW i \in 0 .. 7 PROVE place[i] \in js /\ W[El(g, place[i])].q = code[i]
    OBVIOUS
  <2>1. W[El(g, place[i])].q = Q5KCode(g, place[i])
    <3>1. place[i] \in 0 .. 31
      BY <1>5
    <3> HIDE DEF place
    <3> QED BY <1>4, <3>1
  <2>2. code[i] = Gemv!Within(Gemv!Q5KQs(32 * (g \div 2) + 8 * l + i), 4 * (g % 2), 4)
            \o Gemv!Within(Gemv!Q5KQh(8 * l + i), g, 1)
    OBVIOUS
  <2>3. place[i] \in js
    BY <1>3, <1>5
  <2>4. Gemv!Within(Gemv!Q5KQs(32 * (g \div 2) + 8 * l + i), 4 * (g % 2), 4)
            \o Gemv!Within(Gemv!Q5KQh(8 * l + i), g, 1)
          = Q5KCode(g, place[i])
    <3> DEFINE n == 32 * (g \div 2) + 8 * l + i
               c == 8 * l + i
    <3>1. n \in Nat /\ c \in Nat /\ 48 + 32 * (g \div 2) + place[i] = 48 + n
              /\ 16 + place[i] = 16 + c
      BY <1>2, <1>3, <1>5
    <3> HIDE DEF n, c
    <3>2. Gemv!Within(Gemv!Q5KQs(n), 4 * (g % 2), 4) \o Gemv!Within(Gemv!Q5KQh(c), g, 1)
            = <<Gemv!Bits(48 + n, 4 * (g % 2), 4), Gemv!Bits(16 + c, g, 1)>>
      BY <1>2, <3>1, Q5KSm86Code
    <3> QED BY <3>1, <3>2 DEF n, c
  <2> HIDE DEF place, code
  <2> QED BY <2>1, <2>2, <2>3, <2>4
<1> HIDE DEF place, code
<1>8. r.dot = {<<W[e].q, e>> : e \in Mine("Q5KVec", lane, p)} /\ r.sum = Mine("Q5KVec", lane, p)
  <2> DEFINE I == 0 .. 7
  <2>1. /\ \A i \in I : place[i] \in js /\ W[El(g, place[i])].q = code[i]
        /\ \A j \in js : \E i \in I : place[i] = j
        /\ r.dot = {<<code[i], El(g, place[i])>> : i \in I}
        /\ r.sum = {El(g, place[i]) : i \in I}
    BY <1>1, <1>6, <1>7
  <2> HIDE DEF I
  <2>2. {<<code[i], El(g, place[i])>> : i \in I} = {<<W[e].q, e>> : e \in {El(g, j) : j \in js}}
    BY <2>1, DotIs
  <2>3. {El(g, place[i]) : i \in I} = {El(g, j) : j \in js}
    BY <2>1
  <2> QED BY <1>2, <2>1, <2>2, <2>3
<1>9. \A e \in Ours("Q5KVec", lane, p) : r.s = W[e].s /\ r.m = W[e].m
  <2> SUFFICES ASSUME NEW j \in 0 .. 31 PROVE r.s = W[El(g, j)].s /\ r.m = W[El(g, j)].m
    BY <1>2
  <2>1. r.s = Gemv!GroupScale(g) /\ r.m = Gemv!GroupMin(g)
    BY <1>1, <1>2, ScalesAgree
  <2> QED BY <1>1, <1>4, <2>1
<1> QED BY <1>1, <1>8, <1>9 DEF Fits, r, W

LEMMA Q6KVecFits ==
  ASSUME NEW lane \in 0 .. 31, NEW p \in 0 .. 0
  PROVE  Fits(Gemv!Q6KVecGemv(lane, p), Weights("Q6KVec"), Mine("Q6KVec", lane, p),
              Ours("Q6KVec", lane, p), {}, {})
<1> DEFINE g == lane \div 4
           l == lane % 4
           js == {j \in 0 .. 31 : j \div 8 = lane % 4}
           W == Weights("Q6KVec")
           r == Gemv!Q6KVecGemv(lane, p)
           place == [i \in 0 .. 7 |-> 8 * l + i]
           code == [i \in 0 .. 7 |->
                     <<Gemv!Bits(64 * (g \div 4) + 32 * ((g % 4) % 2) + 8 * l + i,
                                 IF g % 4 >= 2 THEN 4 ELSE 0, 4),
                       Gemv!Bits(128 + 32 * (g \div 4) + 8 * l + i, 2 * (g % 4), 2)>>]
<1>1. /\ r.dot = {<<code[i], El(g, place[i])>> : i \in 0 .. 7}
      /\ r.sum = {} /\ r.bsum = {}
      /\ r.s = <<Gemv!Bits(192 + 8 * (g \div 4) + l \div 2 + 2 * (g % 4), 0, 8)>> /\ r.m = <<>>
  BY DEF Gemv!Q6KVecGemv, Gemv!Part, El
<1>2. /\ g \in 0 .. 7 /\ Mine("Q6KVec", lane, p) = {El(g, j) : j \in js}
      /\ Ours("Q6KVec", lane, p)
           = {El(g, j) : j \in {j \in 0 .. 31 : j \div 16 = (lane % 4) \div 2}}
  BY Q6KVecPlaces
<1>3. l \in 0 .. 3 /\ js = {j \in 0 .. 31 : j \div 8 = l}
  OBVIOUS
<1> HIDE DEF g, l, r, js
<1>4. \A j \in 0 .. 31 : W[El(g, j)].q = Q6KCode(g, j) /\ W[El(g, j)].s = Q6KScale(g, j)
          /\ W[El(g, j)].m = <<>>
  <2> SUFFICES ASSUME NEW j \in 0 .. 31
               PROVE  /\ W[El(g, j)].q = Q6KCode(g, j)
                      /\ W[El(g, j)].s = Q6KScale(g, j) /\ W[El(g, j)].m = <<>>
    OBVIOUS
  <2>1. W[El(g, j)] = Gemv!Q6K(El(g, j))
    BY <1>2, Places DEF Weights
  <2>2. Gemv!Q6K(El(g, j)) = [q |-> Q6KCode(g, j), s |-> Q6KScale(g, j), m |-> <<>>]
    BY <1>2, WeightsAre
  <2> QED BY <2>1, <2>2
<1> HIDE DEF W
<1>5. \A i \in 0 .. 7 : place[i] \in 0 .. 31 /\ place[i] \div 8 = l /\ place[i] = 8 * l + i
  BY <1>3
<1>6. \A j \in js : \E i \in 0 .. 7 : place[i] = j
  <2> SUFFICES ASSUME NEW j \in js PROVE \E i \in 0 .. 7 : place[i] = j
    OBVIOUS
  <2>1. j \in 0 .. 31 /\ j \div 8 = l
    BY <1>3
  <2>2. (j % 8) \in 0 .. 7 /\ place[j % 8] = j
    BY <1>3, <2>1
  <2> QED BY <2>2
<1>7. \A i \in 0 .. 7 : place[i] \in js /\ W[El(g, place[i])].q = code[i]
  <2> SUFFICES ASSUME NEW i \in 0 .. 7 PROVE place[i] \in js /\ W[El(g, place[i])].q = code[i]
    OBVIOUS
  <2>1. W[El(g, place[i])].q = Q6KCode(g, place[i])
    <3>1. place[i] \in 0 .. 31
      BY <1>5
    <3> HIDE DEF place
    <3> QED BY <1>4, <3>1
  <2>2. code[i] = <<Gemv!Bits(64 * (g \div 4) + 32 * ((g % 4) % 2) + 8 * l + i,
                              IF g % 4 >= 2 THEN 4 ELSE 0, 4),
                    Gemv!Bits(128 + 32 * (g \div 4) + 8 * l + i, 2 * (g % 4), 2)>>
    OBVIOUS
  <2>3. place[i] \in js
    BY <1>3, <1>5
  <2>4. /\ 64 * (g \div 4) + place[i] + 32 * ((g % 4) % 2)
              = 64 * (g \div 4) + 32 * ((g % 4) % 2) + 8 * l + i
        /\ 128 + 32 * (g \div 4) + place[i] = 128 + 32 * (g \div 4) + 8 * l + i
    <3> DEFINE half == g \div 4
               odd == (g % 4) % 2
    <3>1. half \in 0 .. 1 /\ odd \in 0 .. 1 /\ place[i] = 8 * l + i
      BY <1>2, <1>5
    <3> HIDE DEF half, odd, place
    <3>2. /\ 64 * half + place[i] + 32 * odd = 64 * half + 32 * odd + 8 * l + i
          /\ 128 + 32 * half + place[i] = 128 + 32 * half + 8 * l + i
      BY <1>3, <3>1
    <3> QED BY <3>2 DEF half, odd
  <2>5. 4 * ((g % 4) \div 2) = (IF g % 4 >= 2 THEN 4 ELSE 0)
    BY <1>2
  <2> HIDE DEF place, code
  <2> QED BY <2>1, <2>2, <2>3, <2>4, <2>5
<1> HIDE DEF place, code
<1>8. r.dot = {<<W[e].q, e>> : e \in Mine("Q6KVec", lane, p)}
  <2> DEFINE I == 0 .. 7
  <2>1. /\ \A i \in I : place[i] \in js /\ W[El(g, place[i])].q = code[i]
        /\ \A j \in js : \E i \in I : place[i] = j
        /\ r.dot = {<<code[i], El(g, place[i])>> : i \in I}
    BY <1>1, <1>6, <1>7
  <2> HIDE DEF I
  <2>2. {<<code[i], El(g, place[i])>> : i \in I} = {<<W[e].q, e>> : e \in {El(g, j) : j \in js}}
    BY <2>1, DotIs
  <2> QED BY <1>2, <2>1, <2>2
<1>9. \A e \in Ours("Q6KVec", lane, p) : r.s = W[e].s /\ r.m = W[e].m
  <2> SUFFICES ASSUME NEW j \in {j \in 0 .. 31 : j \div 16 = (lane % 4) \div 2}
               PROVE  r.s = W[El(g, j)].s /\ r.m = W[El(g, j)].m
    BY <1>2
  <2>1. r.s = Q6KScale(g, j) /\ r.m = <<>>
    <3>1. l \div 2 = j \div 16
      BY DEF l
    <3> QED BY <1>1, <3>1
  <2> QED BY <1>1, <1>4, <2>1
<1> QED BY <1>1, <1>8, <1>9 DEF Fits, r, W

HIDE DEF Q4KCode, Q5KCode, Q6KCode, Q6KScale, IQ4Code, Nibble

(* What a lane makes of a block in a pass is right, in every kernel.       *)
LaneSums(k, S) == IF k \in {"Q4K", "Q5K", "Q5KSm86", "Q5KVec"} THEN S ELSE {}
BlockSums(k, S) == IF k = "Q5KDp4a" THEN S ELSE {}

LEMMA KernelsFit ==
  ASSUME NEW k \in Gemv!AllKernels, NEW lane \in 0 .. 31, NEW p \in 0 .. Gemv!Passes(k) - 1
  PROVE  Fits(Gemv!LanePart(k, lane, p), Weights(k), Mine(k, lane, p), Ours(k, lane, p),
              LaneSums(k, Mine(k, lane, p)), BlockSums(k, Ours(k, lane, p)))
<1>1. k \in {"Q4K", "Q5K", "Q6KScalar", "IQ4XS4Warp", "IQ4XSSm86", "Q5KSm86"} => p \in 0 .. 7
  BY DEF Gemv!Passes, Gemv!GroupWidth
<1>2. k \in {"IQ4XSQ81", "Q5KDp4a"} => p \in 0 .. 1
  BY DEF Gemv!Passes, Gemv!GroupWidth
<1>3. k \in {"IQ4XSPrmt", "Q5KVec", "Q6KVec"} => p \in 0 .. 0
  BY DEF Gemv!Passes, Gemv!GroupWidth
<1> USE DEF LaneSums, BlockSums
<1>4. CASE k = "Q4K" BY <1>1, <1>4, Q4KFits DEF Gemv!LanePart
<1>5. CASE k = "Q5K" BY <1>1, <1>5, Q5KFits DEF Gemv!LanePart
<1>6. CASE k = "Q6KScalar" BY <1>1, <1>6, Q6KScalarFits DEF Gemv!LanePart
<1>7. CASE k = "IQ4XS4Warp" BY <1>1, <1>7, IQ4XS4WarpFits DEF Gemv!LanePart
<1>8. CASE k = "IQ4XSSm86" BY <1>1, <1>8, IQ4XSSm86Fits DEF Gemv!LanePart
<1>9. CASE k = "Q5KSm86" BY <1>1, <1>9, Q5KSm86Fits DEF Gemv!LanePart
<1>10. CASE k = "IQ4XSQ81" BY <1>2, <1>10, IQ4XSQ81Fits DEF Gemv!LanePart
<1>11. CASE k = "Q5KDp4a" BY <1>2, <1>11, Q5KDp4aFits DEF Gemv!LanePart
<1>12. CASE k = "IQ4XSPrmt" BY <1>3, <1>12, IQ4XSPrmtFits DEF Gemv!LanePart
<1>13. CASE k = "Q5KVec" BY <1>3, <1>13, Q5KVecFits DEF Gemv!LanePart
<1>14. CASE k = "Q6KVec" BY <1>3, <1>14, Q6KVecFits DEF Gemv!LanePart
<1> QED
  BY <1>4, <1>5, <1>6, <1>7, <1>8, <1>9, <1>10, <1>11, <1>12, <1>13, <1>14
  DEF Gemv!AllKernels

LEMMA Widths ==
  ASSUME NEW k \in Gemv!AllKernels
  PROVE  /\ Gemv!GroupWidth(k) \in {1, 2, 4, 8}
         /\ Gemv!GroupWidth(k) = 1 => /\ Gemv!GroupSteps(k) = <<>> /\ ~Gemv!Gathers(k)
                                      /\ Gemv!WarpSteps(k) = <<16, 8, 4, 2, 1>>
         /\ Gemv!GroupWidth(k) = 2 => /\ Gemv!GroupSteps(k) = <<1>> /\ ~Gemv!Gathers(k)
                                      /\ Gemv!WarpSteps(k) = <<16, 8, 4, 2>>
         /\ Gemv!GroupWidth(k) = 4 => /\ Gemv!GroupSteps(k) = <<2, 1>> /\ ~Gemv!Gathers(k)
                                      /\ Gemv!WarpSteps(k) = <<16, 8, 4>>
         /\ Gemv!GroupWidth(k) = 8 => /\ Gemv!GroupSteps(k) = <<4, 2, 1>> /\ Gemv!Gathers(k)
         /\ Gemv!Passes(k) \in {1, 2, 8}
         /\ Gemv!WarpsPerCta(k) \in {1, 4}
<1>1. Gemv!GroupWidth(k) \in {1, 2, 4, 8}
  BY DEF Gemv!GroupWidth
<1> DEFINE w == Gemv!GroupWidth(k)
<1>2. Gemv!WarpsPerCta(k) \in {1, 4}
  BY DEF Gemv!WarpsPerCta
<1> HIDE DEF w
<1> USE DEF Gemv!GroupSteps, Gemv!Gathers, Gemv!WarpSteps, Gemv!Passes
<1>3. CASE w = 1 BY <1>2, <1>3 DEF w
<1>4. CASE w = 2 BY <1>2, <1>4 DEF w
<1>5. CASE w = 4 BY <1>2, <1>5 DEF w
<1>6. CASE w = 8 BY <1>2, <1>6 DEF w
<1> QED BY <1>1, <1>3, <1>4, <1>5, <1>6 DEF w

LEMMA Assignment ==
  ASSUME NEW k \in Gemv!AllKernels, NEW e \in Elements
  PROVE  Owner(k, e) \in 0 .. 31 /\ Turn(k, e) \in 0 .. Gemv!Passes(k) - 1
<1>1. PICK h \in 0 .. 7, j \in 0 .. 31 : e = El(h, j)
  BY Divided
<1>2. /\ 8 * (h % 4) + ((j % 16) \div 2) \in 0 .. 31 /\ 8 * (h % 4) + (j \div 4) \in 0 .. 31
      /\ 4 * h + ((j % 16) \div 4) \in 0 .. 31 /\ 4 * h + (j \div 8) \in 0 .. 31
      /\ h \div 4 \in 0 .. 1
  OBVIOUS
<1>3. CASE k = "IQ4XSQ81"
  BY <1>1, <1>2, <1>3, Assigned DEF Gemv!Passes, Gemv!GroupWidth
<1>4. CASE k = "Q5KDp4a"
  BY <1>1, <1>2, <1>4, Assigned DEF Gemv!Passes, Gemv!GroupWidth
<1>5. CASE k = "IQ4XSPrmt"
  BY <1>1, <1>2, <1>5, Assigned DEF Gemv!Passes, Gemv!GroupWidth
<1>6. CASE k \in {"Q5KVec", "Q6KVec"}
  BY <1>1, <1>2, <1>6, Assigned DEF Gemv!Passes, Gemv!GroupWidth
<1>7. CASE k \notin {"IQ4XSQ81", "Q5KDp4a", "IQ4XSPrmt", "Q5KVec", "Q6KVec"}
  <2>1. Gemv!GroupWidth(k) = 1 /\ Gemv!Passes(k) = 8
    BY <1>7 DEF Gemv!Passes, Gemv!GroupWidth
  <2> QED BY <1>1, <2>1, Assigned
<1> QED BY <1>3, <1>4, <1>5, <1>6, <1>7

(* Bags of terms, each once.                                               *)
LEMMA BagsAdd ==
  ASSUME NEW A, NEW B, A \cap B = {}
  PROVE  Gemv!\oplus(Gemv!SetToBag(A), Gemv!SetToBag(B)) = Gemv!SetToBag(A \cup B)
BY DEF Gemv!\oplus, Gemv!SetToBag

(* Columns of a row, counted from its start, and the terms they give: the  *)
(* finished ones, with base the number of the row's first block, and those *)
(* of a pass, before scale and minimum.                                    *)
Terms(k, base, X) ==
  {<<"dot", base + x \div 256, Weights(k)[x % 256].q, Weights(k)[x % 256].s, x>> : x \in X}
  \cup {<<"min", base + x \div 256, Weights(k)[x % 256].m, x>> : x \in {z \in X : HasMinimum(k)}}
Products(k, X, Y) ==
  {<<"dot", Weights(k)[x % 256].q, x>> : x \in X} \cup {<<"sum", x>> : x \in Y}

LEMMA TermsAdd ==
  ASSUME NEW k, NEW base, NEW X, NEW Y, X \cap Y = {}
  PROVE  Gemv!\oplus(Gemv!SetToBag(Terms(k, base, X)), Gemv!SetToBag(Terms(k, base, Y)))
           = Gemv!SetToBag(Terms(k, base, X \cup Y))
<1> DEFINE dot(x) == <<"dot", base + x \div 256, Weights(k)[x % 256].q, Weights(k)[x % 256].s, x>>
           min(x) == <<"min", base + x \div 256, Weights(k)[x % 256].m, x>>
           low(S) == {z \in S : HasMinimum(k)}
<1>1. \A x, z : /\ dot(x) = dot(z) => x = z
                /\ min(x) = min(z) => x = z
                /\ dot(x) # min(z)
  OBVIOUS
<1>2. \A S : Terms(k, base, S) = {dot(x) : x \in S} \cup {min(x) : x \in low(S)}
  BY DEF Terms
<1>3. low(X) \subseteq X /\ low(Y) \subseteq Y /\ low(X \cup Y) = low(X) \cup low(Y)
  OBVIOUS
<1> HIDE DEF dot, min, low
<1>6. \A S, t : t \in Terms(k, base, S) <=> (\E x \in S : t = dot(x))
          \/ (\E x \in low(S) : t = min(x))
  BY <1>2
<1>4. Terms(k, base, X) \cap Terms(k, base, Y) = {}
  BY <1>1, <1>2, <1>3
<1>5. Terms(k, base, X) \cup Terms(k, base, Y) = Terms(k, base, X \cup Y)
  BY <1>6, <1>3
<1> QED BY <1>4, <1>5, BagsAdd

LEMMA ProductsAdd ==
  ASSUME NEW k, NEW X, NEW Y, NEW V, NEW Z, X \cap Y = {}, V \cap Z = {}
  PROVE  Gemv!\oplus(Gemv!SetToBag(Products(k, X, V)), Gemv!SetToBag(Products(k, Y, Z)))
           = Gemv!SetToBag(Products(k, X \cup Y, V \cup Z))
<1> DEFINE dot(x) == <<"dot", Weights(k)[x % 256].q, x>>
           sum(x) == <<"sum", x>>
<1>1. \A x, z : /\ dot(x) = dot(z) => x = z
                /\ sum(x) = sum(z) => x = z
                /\ dot(x) # sum(z)
  OBVIOUS
<1>2. \A S, T : Products(k, S, T) = {dot(x) : x \in S} \cup {sum(x) : x \in T}
  BY DEF Products
<1> HIDE DEF dot, sum
<1>4. Products(k, X, V) \cap Products(k, Y, Z) = {}
  BY <1>1, <1>2
<1>5. Products(k, X, V) \cup Products(k, Y, Z) = Products(k, X \cup Y, V \cup Z)
  BY <1>2
<1> QED BY <1>4, <1>5, BagsAdd

(* The columns a lane has in its sums: of a pass, after the shuffles down  *)
(* to distance d; of the row, up to a pass of a block; and in the final    *)
(* reduction.                                                              *)
Lead(k, e) == Gemv!GroupWidth(k) * (Owner(k, e) \div Gemv!GroupWidth(k))
InPass(k, lane, b, p, d) ==
  {x \in Nat : /\ x \div 256 = b /\ Turn(k, x % 256) = p
               /\ Owner(k, x % 256) \div Gemv!GroupWidth(k) = lane \div Gemv!GroupWidth(k)
               /\ Owner(k, x % 256) % d = lane % d}
InRow(k, lane, b, p) ==
  {x \in Nat : /\ Lead(k, x % 256) = lane
               /\ x \div 256 < b \/ (x \div 256 = b /\ Turn(k, x % 256) < p)}
InWarp(k, lane, n, d) == {x \in Nat : x \div 256 < n /\ Lead(k, x % 256) % d = lane}

LEMMA ColumnIn ==
  ASSUME NEW x \in Nat
  PROVE  x % 256 \in Elements /\ x \div 256 \in Nat /\ x = 256 * (x \div 256) + (x % 256)
BY DEF Elements

LEMMA ColumnOf ==
  ASSUME NEW b \in Nat, NEW e \in Elements
  PROVE  256 * b + e \in Nat /\ (256 * b + e) % 256 = e /\ (256 * b + e) \div 256 = b
BY DEF Elements

LEMMA Leads ==
  ASSUME NEW k \in Gemv!AllKernels, NEW e \in Elements
  PROVE  /\ Lead(k, e) \in 0 .. 31
         /\ Lead(k, e) % Gemv!GroupWidth(k) = 0
         /\ \A lane \in 0 .. 31 :
              Lead(k, e) = lane
                <=> /\ lane % Gemv!GroupWidth(k) = 0
                    /\ Owner(k, e) \div Gemv!GroupWidth(k) = lane \div Gemv!GroupWidth(k)
<1> DEFINE w == Gemv!GroupWidth(k)
           o == Owner(k, e)
<1>1. w \in {1, 2, 4, 8} /\ o \in 0 .. 31
  BY Widths, Assignment
<1> HIDE DEF w, o
<1>2. /\ w * (o \div w) \in 0 .. 31
      /\ (w * (o \div w)) % w = 0
      /\ \A lane \in 0 .. 31 : w * (o \div w) = lane <=> lane % w = 0 /\ o \div w = lane \div w
  <2>1. CASE w = 1 BY <1>1, <2>1
  <2>2. CASE w = 2 BY <1>1, <2>2
  <2>3. CASE w = 4 BY <1>1, <2>3
  <2>4. CASE w = 8 BY <1>1, <2>4
  <2> QED BY <1>1, <2>1, <2>2, <2>3, <2>4
<1> QED BY <1>2 DEF Lead, w, o

(* A shuffle of a group joins the columns of two lanes.                    *)
LEMMA Joined ==
  ASSUME NEW k \in Gemv!AllKernels, NEW lane \in 0 .. 31, NEW b, NEW p, NEW m \in {1, 2, 4},
         2 * m <= Gemv!GroupWidth(k)
  PROVE  /\ Gemv!Partner(lane, m) \in 0 .. 31
         /\ InPass(k, lane, b, p, 2 * m) \cap InPass(k, Gemv!Partner(lane, m), b, p, 2 * m) = {}
         /\ InPass(k, lane, b, p, 2 * m) \cup InPass(k, Gemv!Partner(lane, m), b, p, 2 * m)
              = InPass(k, lane, b, p, m)
<1> DEFINE w == Gemv!GroupWidth(k)
           other == Gemv!Partner(lane, m)
<1>1. w \in {1, 2, 4, 8} /\ 2 * m <= w
  BY Widths
<1> HIDE DEF w
<1>2. /\ other \in 0 .. 31 /\ other \div w = lane \div w
      /\ \A o \in 0 .. 31 :
           /\ ~(o % (2 * m) = lane % (2 * m) /\ o % (2 * m) = other % (2 * m))
           /\ o % (2 * m) = lane % (2 * m) \/ o % (2 * m) = other % (2 * m) <=> o % m = lane % m
  <2> USE DEF Gemv!Partner
  <2>1. CASE m = 1 /\ w = 2 BY <2>1
  <2>2. CASE m = 1 /\ w = 4 BY <2>2
  <2>3. CASE m = 1 /\ w = 8 BY <2>3
  <2>4. CASE m = 2 /\ w = 4 BY <2>4
  <2>5. CASE m = 2 /\ w = 8 BY <2>5
  <2>6. CASE m = 4 /\ w = 8 BY <2>6
  <2> QED BY <1>1, <2>1, <2>2, <2>3, <2>4, <2>5, <2>6
<1> HIDE DEF other
<1> DEFINE d == 2 * m
<1> HIDE DEF d
<1>3. /\ \A x \in Nat : Owner(k, x % 256) \in 0 .. 31
      /\ \A o \in 0 .. 31 : /\ ~(o % d = lane % d /\ o % d = other % d)
                            /\ o % d = lane % d \/ o % d = other % d <=> o % m = lane % m
  BY <1>2, Assignment, ColumnIn DEF d
<1> DEFINE group == {x \in Nat : /\ x \div 256 = b /\ Turn(k, x % 256) = p
                                 /\ Owner(k, x % 256) \div w = lane \div w}
<1>5. \A D : /\ InPass(k, lane, b, p, D) = {x \in group : Owner(k, x % 256) % D = lane % D}
             /\ InPass(k, other, b, p, D) = {x \in group : Owner(k, x % 256) % D = other % D}
  BY <1>2 DEF InPass, w
<1>6. \A x \in group : Owner(k, x % 256) \in 0 .. 31
  BY <1>3
<1> HIDE DEF group
<1>4. /\ InPass(k, lane, b, p, d) \cap InPass(k, other, b, p, d) = {}
      /\ InPass(k, lane, b, p, d) \cup InPass(k, other, b, p, d) = InPass(k, lane, b, p, m)
  BY <1>3, <1>5, <1>6
<1> QED BY <1>2, <1>4 DEF other, d

(* The columns of a whole group are those of its elements.                 *)
LEMMA InPassIs ==
  ASSUME NEW k \in Gemv!AllKernels, NEW lane \in 0 .. 31, NEW b \in Nat, NEW p
  PROVE  /\ InPass(k, lane, b, p, 1) = {256 * b + e : e \in Ours(k, lane, p)}
         /\ InPass(k, lane, b, p, Gemv!GroupWidth(k)) = {256 * b + e : e \in Mine(k, lane, p)}
<1> DEFINE w == Gemv!GroupWidth(k)
<1>1. \A o \in 0 .. 31 : o % 1 = lane % 1
          /\ (o \div w = lane \div w /\ o % w = lane % w <=> o = lane)
  <2> w \in {1, 2, 4, 8}
    BY Widths
  <2> HIDE DEF w
  <2>1. CASE w = 1 BY <2>1
  <2>2. CASE w = 2 BY <2>2
  <2>3. CASE w = 4 BY <2>3
  <2>4. CASE w = 8 BY <2>4
  <2> QED BY <2>1, <2>2, <2>3, <2>4
<1>2. \A e \in Elements : Owner(k, e) \in 0 .. 31
  BY Assignment
<1>3. \A e \in Elements : /\ 256 * b + e \in InPass(k, lane, b, p, 1) <=> e \in Ours(k, lane, p)
                          /\ 256 * b + e \in InPass(k, lane, b, p, w) <=> e \in Mine(k, lane, p)
  <2> SUFFICES ASSUME NEW e \in Elements
               PROVE  /\ 256 * b + e \in InPass(k, lane, b, p, 1) <=> e \in Ours(k, lane, p)
                      /\ 256 * b + e \in InPass(k, lane, b, p, w) <=> e \in Mine(k, lane, p)
    OBVIOUS
  <2> DEFINE x == 256 * b + e
             o == Owner(k, e)
  <2>1. x \in Nat /\ x % 256 = e /\ x \div 256 = b
    BY ColumnOf
  <2>2. /\ o \in 0 .. 31 /\ o % 1 = lane % 1
        /\ o \div w = lane \div w /\ o % w = lane % w <=> o = lane
    BY <1>1, <1>2
  <2> HIDE DEF x, o
  <2>3. x \in InPass(k, lane, b, p, 1) <=> e \in Ours(k, lane, p)
    BY <2>1, <2>2 DEF InPass, Ours, o
  <2>4. x \in InPass(k, lane, b, p, w) <=> e \in Mine(k, lane, p)
    BY <2>1, <2>2 DEF InPass, Mine, o
  <2> QED BY <2>3, <2>4 DEF x
<1>4. \A d : \A x \in InPass(k, lane, b, p, d) : \E e \in Elements : x = 256 * b + e
  BY ColumnIn DEF InPass
<1>5. Ours(k, lane, p) \subseteq Elements /\ Mine(k, lane, p) \subseteq Elements
  BY DEF Ours, Mine
<1> QED BY <1>3, <1>4, <1>5

(* What a leader has of the row grows by its group.                        *)
LEMMA Grown ==
  ASSUME NEW k \in Gemv!AllKernels, NEW lane \in 0 .. 31, NEW b \in Nat, NEW p \in Nat
  PROVE  /\ lane % Gemv!GroupWidth(k) = 0
              => /\ InRow(k, lane, b, p) \cap InPass(k, lane, b, p, 1) = {}
                 /\ InRow(k, lane, b, p) \cup InPass(k, lane, b, p, 1) = InRow(k, lane, b, p + 1)
         /\ lane % Gemv!GroupWidth(k) # 0 => InRow(k, lane, b, p) = {}
         /\ InRow(k, lane, b, Gemv!Passes(k)) = InRow(k, lane, b + 1, 0)
         /\ InRow(k, lane, 0, 0) = {}
         /\ InRow(k, lane, b, 0) = InWarp(k, lane, b, 32)
<1> DEFINE w == Gemv!GroupWidth(k)
<1>1. \A x \in Nat : /\ x \div 256 \in Nat /\ Turn(k, x % 256) \in 0 .. Gemv!Passes(k) - 1
                     /\ Owner(k, x % 256) \in 0 .. 31 /\ Lead(k, x % 256) \in 0 .. 31
                     /\ Lead(k, x % 256) = lane <=> lane % w = 0
                           /\ Owner(k, x % 256) \div w = lane \div w
  BY ColumnIn, Assignment, Leads
<1>2. Gemv!Passes(k) \in {1, 2, 8}
  BY Widths
<1>3. \A o \in 0 .. 31 : o % 1 = 0 /\ o % 32 = o
  OBVIOUS
<1>4. lane % w # 0 => InRow(k, lane, b, p) = {}
  BY <1>1 DEF InRow
<1>5. lane % w = 0 => InRow(k, lane, b, p) \cap InPass(k, lane, b, p, 1) = {}
  BY <1>1 DEF InRow, InPass
<1>6. lane % w = 0 => InRow(k, lane, b, p) \cup InPass(k, lane, b, p, 1)
          = InRow(k, lane, b, p + 1)
  <2> SUFFICES ASSUME lane % w = 0, NEW x \in Nat
               PROVE  x \in InRow(k, lane, b, p) \/ x \in InPass(k, lane, b, p, 1)
                        <=> x \in InRow(k, lane, b, p + 1)
    BY DEF InRow, InPass
  <2>1. /\ Turn(k, x % 256) \in Nat
        /\ Lead(k, x % 256) = lane <=> Owner(k, x % 256) \div w = lane \div w
        /\ Owner(k, x % 256) % 1 = lane % 1
    BY <1>1, <1>2, <1>3
  <2>2. Turn(k, x % 256) < p \/ Turn(k, x % 256) = p <=> Turn(k, x % 256) < p + 1
    BY <2>1
  <2> QED BY <2>1, <2>2 DEF InRow, InPass
<1>7. InRow(k, lane, b, Gemv!Passes(k)) = InRow(k, lane, b + 1, 0)
  <2>1. \A x \in Nat : /\ Turn(k, x % 256) < Gemv!Passes(k) /\ ~(Turn(k, x % 256) < 0)
                       /\ x \div 256 < b + 1 <=> x \div 256 < b \/ x \div 256 = b
    BY <1>1, <1>2
  <2> QED BY <2>1 DEF InRow
<1>8. InRow(k, lane, 0, 0) = {}
  BY <1>1, <1>2 DEF InRow
<1>9. InRow(k, lane, b, 0) = InWarp(k, lane, b, 32)
  BY <1>1, <1>2, <1>3 DEF InRow, InWarp
<1> QED BY <1>4, <1>5, <1>6, <1>7, <1>8, <1>9

(* A shuffle over the warp joins the columns of two lanes.                 *)
LEMMA WarpJoined ==
  ASSUME NEW k \in Gemv!AllKernels, NEW n, NEW m \in {1, 2, 4, 8, 16}, NEW lane \in 0 .. m - 1
  PROVE  /\ InWarp(k, lane, n, 2 * m) \cap InWarp(k, lane + m, n, 2 * m) = {}
         /\ InWarp(k, lane, n, 2 * m) \cup InWarp(k, lane + m, n, 2 * m) = InWarp(k, lane, n, m)
<1>1. \A o \in 0 .. 31 : /\ ~(o % (2 * m) = lane /\ o % (2 * m) = lane + m)
                         /\ o % (2 * m) = lane \/ o % (2 * m) = lane + m <=> o % m = lane
  <2>1. CASE m = 1 BY <2>1
  <2>2. CASE m = 2 BY <2>2
  <2>3. CASE m = 4 BY <2>3
  <2>4. CASE m = 8 BY <2>4
  <2>5. CASE m = 16 BY <2>5
  <2> QED BY <2>1, <2>2, <2>3, <2>4, <2>5
<1> DEFINE d == 2 * m
           other == lane + m
<1>2. \A x \in Nat : Lead(k, x % 256) \in 0 .. 31
  BY ColumnIn, Leads
<1> HIDE DEF d, other
<1>3. \A o \in 0 .. 31 : /\ ~(o % d = lane /\ o % d = other)
                         /\ o % d = lane \/ o % d = other <=> o % m = lane
  BY <1>1 DEF d, other
<1>4. /\ InWarp(k, lane, n, d) \cap InWarp(k, other, n, d) = {}
      /\ InWarp(k, lane, n, d) \cup InWarp(k, other, n, d) = InWarp(k, lane, n, m)
  BY <1>2, <1>3 DEF InWarp
<1> QED BY <1>4 DEF d, other

(* Lane 0 has the whole row in the end.                                    *)
Whole(n) == {x \in Nat : x \div 256 < n}
LEMMA WarpWhole ==
  ASSUME NEW k \in Gemv!AllKernels, NEW n
  PROVE  /\ InWarp(k, 0, n, Gemv!GroupWidth(k)) = Whole(n)
         /\ Gemv!Gathers(k)
              => /\ InWarp(k, 0, n, 32) \cap InWarp(k, 8, n, 32) = {}
                 /\ (InWarp(k, 0, n, 32) \cup InWarp(k, 8, n, 32)) \cap InWarp(k, 16, n, 32) = {}
                 /\ (InWarp(k, 0, n, 32) \cup InWarp(k, 8, n, 32) \cup InWarp(k, 16, n, 32))
                      \cap InWarp(k, 24, n, 32) = {}
                 /\ InWarp(k, 0, n, 32) \cup InWarp(k, 8, n, 32) \cup InWarp(k, 16, n, 32)
                      \cup InWarp(k, 24, n, 32) = Whole(n)
<1>1. \A x \in Nat : Lead(k, x % 256) \in 0 .. 31 /\ Lead(k, x % 256) % Gemv!GroupWidth(k) = 0
  BY ColumnIn, Leads
<1>2. InWarp(k, 0, n, Gemv!GroupWidth(k)) = Whole(n)
  BY <1>1 DEF InWarp, Whole
<1>3. \A o \in 0 .. 31 : o % 8 = 0 => o % 32 = 0 \/ o % 32 = 8 \/ o % 32 = 16 \/ o % 32 = 24
  OBVIOUS
<1>4. Gemv!Gathers(k) => \A x \in Nat : Lead(k, x % 256) % 32 \in {0, 8, 16, 24}
  BY <1>1, <1>3 DEF Gemv!Gathers
<1> QED BY <1>2, <1>4 DEF InWarp, Whole

(* What a lane loads, and what a leader makes of its group's sums.         *)
LEMMA LoadedIs ==
  ASSUME kern \in Gemv!AllKernels, NEW lane \in 0 .. 31, blk \in Nat,
         pass \in 0 .. Gemv!Passes(kern) - 1
  PROVE  Gemv!Loaded(lane)
           = Gemv!SetToBag(Products(kern, InPass(kern, lane, blk, pass, Gemv!GroupWidth(kern)),
                                    LaneSums(kern,
                                      InPass(kern, lane, blk, pass, Gemv!GroupWidth(kern)))))
<1> DEFINE r == Gemv!LanePart(kern, lane, pass)
           mine == Mine(kern, lane, pass)
           X == InPass(kern, lane, blk, pass, Gemv!GroupWidth(kern))
           W == Weights(kern)
           A == {<<"dot", t[1], 256 * blk + t[2]>> : t \in r.dot}
           B == {<<"sum", c>> : c \in Gemv!Columns(r.sum)}
<1>1. /\ r.dot = {<<W[e].q, e>> : e \in mine} /\ r.sum = LaneSums(kern, mine)
  BY KernelsFit DEF Fits
<1>2. X = {256 * blk + e : e \in mine}
  BY InPassIs
<1>3. \A e \in mine : 256 * blk + e \in Nat /\ (256 * blk + e) % 256 = e
  BY ColumnOf DEF Mine
<1> HIDE DEF r, mine, X, W
<1>4. A = {<<"dot", W[x % 256].q, x>> : x \in X}
  <2>1. A = {<<"dot", W[e].q, 256 * blk + e>> : e \in mine}
    <3> DEFINE f(t) == <<"dot", t[1], 256 * blk + t[2]>>
               code(e) == W[e].q
    <3>1. A = {f(t) : t \in r.dot} /\ r.dot = {<<code(e), e>> : e \in mine}
      BY <1>1
    <3>2. \A e \in mine : f(<<code(e), e>>) = <<"dot", code(e), 256 * blk + e>>
      OBVIOUS
    <3> HIDE DEF f, A
    <3>3. A = {f(<<code(e), e>>) : e \in mine}
      BY <3>1
    <3> QED BY <3>2, <3>3
  <2>2. \A e \in mine : <<"dot", W[e].q, 256 * blk + e>>
                          = <<"dot", W[(256 * blk + e) % 256].q, 256 * blk + e>>
    BY <1>3
  <2>3. {<<"dot", W[x % 256].q, x>> : x \in X}
          = {<<"dot", W[(256 * blk + e) % 256].q, 256 * blk + e>> : e \in mine}
    BY <1>2
  <2> QED BY <2>1, <2>2, <2>3
<1>5. Gemv!Columns(r.sum) = LaneSums(kern, X)
  BY <1>1, <1>2 DEF Gemv!Columns, LaneSums
<1>6. A \cap B = {}
  BY <1>4
<1>7. A \cup B = Products(kern, X, LaneSums(kern, X))
  BY <1>4, <1>5 DEF Products, W
<1>8. Gemv!Loaded(lane) = Gemv!\oplus(Gemv!SetToBag(A), Gemv!SetToBag(B))
  BY DEF Gemv!Loaded, r
<1> QED BY <1>6, <1>7, <1>8, BagsAdd DEF X

LEMMA Renamed ==
  ASSUME NEW S, NEW term
  PROVE  LET bag == Gemv!SetToBag(S)
         IN  [u \in {term[t] : t \in DOMAIN bag} |-> bag[CHOOSE t \in DOMAIN bag : term[t] = u]]
               = Gemv!SetToBag({term[t] : t \in S})
<1> DEFINE bag == Gemv!SetToBag(S)
           U == {term[t] : t \in S}
<1>1. DOMAIN bag = S /\ \A t \in S : bag[t] = 1
  BY DEF Gemv!SetToBag
<1>2. Gemv!SetToBag(U) = [u \in U |-> 1]
  BY DEF Gemv!SetToBag
<1> HIDE DEF bag
<1>3. \A u \in U : (CHOOSE t \in S : term[t] = u) \in S
  OBVIOUS
<1> DEFINE pick(u) == CHOOSE t \in S : term[t] = u
<1>4. \A u \in U : bag[pick(u)] = 1
  BY <1>1, <1>3
<1>5. [u \in U |-> bag[pick(u)]] = [u \in U |-> 1]
  BY <1>4
<1> QED BY <1>1, <1>2, <1>5 DEF bag

LEMMA AppliedIs ==
  ASSUME kern \in Gemv!AllKernels, NEW lane \in 0 .. 31, blk \in Nat,
         pass \in 0 .. Gemv!Passes(kern) - 1,
         NEW X, X = InPass(kern, lane, blk, pass, 1),
         part[lane] = Gemv!SetToBag(Products(kern, X, LaneSums(kern, X)))
  PROVE  Gemv!Applied(lane) = Gemv!SetToBag(Terms(kern, Gemv!Row * blocks, X))
<1> DEFINE r == Gemv!LanePart(kern, lane, pass)
           ours == Ours(kern, lane, pass)
           W == Weights(kern)
           low == {x \in X : HasMinimum(kern)}
           bag == Gemv!\oplus(part[lane],
               Gemv!SetToBag({<<"sum", c>> : c \in Gemv!Columns(r.bsum)}))
           Term(t) == IF t[1] = "dot" THEN <<"dot", Gemv!Block, t[2], r.s, t[3]>>
                                      ELSE <<"min", Gemv!Block, r.m, t[2]>>
           term == [t \in DOMAIN bag |-> Term(t)]
           S == Products(kern, X, low)
<1>1. /\ r.bsum = BlockSums(kern, ours)
      /\ \A e \in ours : r.s = W[e].s /\ r.m = W[e].m
  BY KernelsFit DEF Fits
<1>2. X = {256 * blk + e : e \in ours}
  BY InPassIs
<1>3. /\ \A e \in ours : /\ 256 * blk + e \in Nat /\ (256 * blk + e) % 256 = e
                         /\ (256 * blk + e) \div 256 = blk
  BY ColumnOf DEF Ours
<1>4. Gemv!Applied(lane)
        = [u \in {term[t] : t \in DOMAIN bag} |-> bag[CHOOSE t \in DOMAIN bag : term[t] = u]]
  BY DEF Gemv!Applied
<1>5. \A x \in X : x \div 256 = blk /\ r.s = W[x % 256].s /\ r.m = W[x % 256].m
  <2> HIDE DEF r, ours, W
  <2> QED BY <1>1, <1>2, <1>3
<1>6. bag = Gemv!SetToBag(S)
  <2> DEFINE Z == Gemv!Columns(r.bsum)
             V == LaneSums(kern, X)
  <2>1. Z = BlockSums(kern, X)
    <3> HIDE DEF r, ours
    <3> QED BY <1>1, <1>2 DEF Gemv!Columns, BlockSums
  <2>2. V \cap Z = {} /\ V \cup Z = low
    <3> HIDE DEF Z
    <3> QED BY <2>1 DEF LaneSums, BlockSums, HasMinimum
  <2> HIDE DEF Z, V
  <2>3. {<<"sum", c>> : c \in Z} = Products(kern, {}, Z)
    BY DEF Products
  <2>4. X \cup {} = X /\ X \cap {} = {}
    OBVIOUS
  <2>5. Gemv!\oplus(Gemv!SetToBag(Products(kern, X, V)), Gemv!SetToBag(Products(kern, {}, Z)))
          = Gemv!SetToBag(Products(kern, X \cup {}, V \cup Z))
    BY <2>2, <2>4, ProductsAdd
  <2> QED BY <2>2, <2>3, <2>4, <2>5 DEF Z, V
<1>7. Gemv!Block = Gemv!Row * blocks + blk
  BY DEF Gemv!Block
<1> DEFINE base == Gemv!Row * blocks
<1> HIDE DEF r, ours, W, bag, S, base
<1>8. DOMAIN bag = S
  BY <1>6 DEF Gemv!SetToBag
<1>9. {term[t] : t \in S} = Terms(kern, base, X)
  <2> DEFINE p(x) == <<"dot", W[x % 256].q, x>>
             q(x) == <<"sum", x>>
             dot(x) == <<"dot", base + x \div 256, W[x % 256].q, W[x % 256].s, x>>
             min(x) == <<"min", base + x \div 256, W[x % 256].m, x>>
  <2>1. S = {p(x) : x \in X} \cup {q(x) : x \in low}
    BY DEF S, Products, W
  <2>2. Terms(kern, base, X) = {dot(x) : x \in X} \cup {min(x) : x \in low}
    BY DEF Terms, W
  <2>3. \A x \in X : Term(p(x)) = dot(x)
    BY <1>5, <1>7 DEF base
  <2>4. \A x \in low : Term(q(x)) = min(x)
    BY <1>5, <1>7 DEF base
  <2>5. {term[t] : t \in S} = {Term(t) : t \in S}
    BY <1>8
  <2> HIDE DEF Term, term, low, p, q, dot, min
  <2>6. {Term(t) : t \in S} = {Term(p(x)) : x \in X} \cup {Term(q(x)) : x \in low}
    BY <2>1
  <2>7. {Term(p(x)) : x \in X} = {dot(x) : x \in X}
    BY <2>3
  <2>8. {Term(q(x)) : x \in low} = {min(x) : x \in low}
    BY <2>4
  <2> QED BY <2>2, <2>5, <2>6, <2>7, <2>8
<1> HIDE DEF term
<1>10. [u \in {term[t] : t \in DOMAIN bag} |-> bag[CHOOSE t \in DOMAIN bag : term[t] = u]]
         = Gemv!SetToBag({term[t] : t \in S})
  BY <1>6, Renamed
<1> QED BY <1>4, <1>9, <1>10 DEF base

(* The dot product of a row, by its columns.                               *)
LEMMA ProductIs ==
  ASSUME kern \in Gemv!AllKernels, NEW row, NEW n \in Nat
  PROVE  Gemv!DotProduct(row, n) = Gemv!SetToBag(Terms(kern, row * blocks, Whole(n)))
<1> DEFINE w == [e \in 0 .. Gemv!BlockSize - 1 |-> Gemv!Decoded(e)]
           W == Weights(kern)
           base == row * blocks
           dot(x) == <<"dot", base + x \div 256, W[x % 256].q, W[x % 256].s, x>>
           min(x) == <<"min", base + x \div 256, W[x % 256].m, x>>
           low == {x \in Whole(n) : HasMinimum(kern)}
<1>1. 0 .. Gemv!BlockSize - 1 = Elements
  BY DEF Gemv!BlockSize, Elements
<1>2. w = W
  BY <1>1 DEF Weights, Gemv!Decoded, Gemv!AllKernels
<1>3. \A b : Gemv!BlockTerms(row, b)
               = {<<"dot", base + b, W[e].q, W[e].s, 256 * b + e>> : e \in Elements}
                 \cup {<<"min", base + b, W[e].m, 256 * b + e>> :
                         e \in {i \in Elements : W[i].m # <<>>}}
  <2> SUFFICES ASSUME NEW b
               PROVE  Gemv!BlockTerms(row, b)
                        = {<<"dot", base + b, W[e].q, W[e].s, 256 * b + e>> : e \in Elements}
                          \cup {<<"min", base + b, W[e].m, 256 * b + e>> :
                                  e \in {i \in Elements : W[i].m # <<>>}}
    OBVIOUS
  <2> DEFINE F(v, E) == {<<"dot", base + b, v[e].q, v[e].s, 256 * b + e>> : e \in E}
                        \cup {<<"min", base + b, v[e].m, 256 * b + e>> :
                                e \in {i \in E : v[i].m # <<>>}}
             D == 0 .. Gemv!BlockSize - 1
  <2>1. Gemv!BlockTerms(row, b) = F(w, D)
    BY DEF Gemv!BlockTerms
  <2>2. w = W /\ D = Elements
    BY <1>1, <1>2
  <2> HIDE DEF w, W, F, D
  <2>3. Gemv!BlockTerms(row, b) = F(W, Elements)
    BY <2>1, <2>2
  <2> QED BY <2>3 DEF F
<1>4. {i \in Elements : W[i].m # <<>>} = {i \in Elements : HasMinimum(kern)}
  BY MinimumIs
<1>5. \A b \in Nat, e \in Elements :
        /\ <<"dot", base + b, W[e].q, W[e].s, 256 * b + e>> = dot(256 * b + e)
        /\ <<"min", base + b, W[e].m, 256 * b + e>> = min(256 * b + e)
        /\ 256 * b + e \in Nat /\ (256 * b + e) \div 256 = b
  <2> SUFFICES ASSUME NEW b \in Nat, NEW e \in Elements
               PROVE  /\ <<"dot", base + b, W[e].q, W[e].s, 256 * b + e>> = dot(256 * b + e)
                      /\ <<"min", base + b, W[e].m, 256 * b + e>> = min(256 * b + e)
                      /\ 256 * b + e \in Nat /\ (256 * b + e) \div 256 = b
    OBVIOUS
  <2> DEFINE x == 256 * b + e
  <2>1. x \in Nat /\ x % 256 = e /\ x \div 256 = b
    BY ColumnOf
  <2> HIDE DEF x, W, base
  <2> QED BY <2>1 DEF x
<1>6. \A x \in Whole(n) : x % 256 \in Elements /\ x \div 256 \in 0 .. n - 1
                          /\ x = 256 * (x \div 256) + (x % 256)
  BY ColumnIn DEF Whole
<1>7. \A b \in 0 .. n - 1, e \in Elements : 256 * b + e \in Whole(n)
  <2> SUFFICES ASSUME NEW b \in 0 .. n - 1, NEW e \in Elements PROVE 256 * b + e \in Whole(n)
    OBVIOUS
  <2>1. b \in Nat /\ b < n
    OBVIOUS
  <2>2. 256 * b + e \in Nat /\ (256 * b + e) \div 256 = b
    BY <2>1, ColumnOf
  <2> QED BY <2>1, <2>2 DEF Whole
<1> HIDE DEF W, base, dot, min
<1> DEFINE T(b) == Gemv!BlockTerms(row, b)
           I == 0 .. n - 1
<1>8. \A b \in I : T(b) = {dot(256 * b + e) : e \in Elements}
                          \cup {min(256 * b + e) : e \in {i \in Elements : HasMinimum(kern)}}
  <2> SUFFICES ASSUME NEW b \in 0 .. n - 1
               PROVE  T(b) = {dot(256 * b + e) : e \in Elements}
                             \cup {min(256 * b + e) : e \in {i \in Elements : HasMinimum(kern)}}
    OBVIOUS
  <2> DEFINE E == {i \in Elements : HasMinimum(kern)}
             p(e) == <<"dot", base + b, W[e].q, W[e].s, 256 * b + e>>
             q(e) == <<"min", base + b, W[e].m, 256 * b + e>>
  <2>1. T(b) = {p(e) : e \in Elements} \cup {q(e) : e \in E}
    BY <1>3, <1>4
  <2>2. b \in Nat /\ E \subseteq Elements
    OBVIOUS
  <2>3. \A e \in Elements : p(e) = dot(256 * b + e) /\ q(e) = min(256 * b + e)
    BY <1>5, <2>2
  <2> HIDE DEF p, q, E, T
  <2>4. {p(e) : e \in Elements} = {dot(256 * b + e) : e \in Elements}
    BY <2>3
  <2>5. {q(e) : e \in E} = {min(256 * b + e) : e \in E}
    BY <2>2, <2>3
  <2> QED BY <2>1, <2>4, <2>5 DEF E
<1> HIDE DEF T
<1>9. UNION {T(b) : b \in I} = {dot(x) : x \in Whole(n)} \cup {min(x) : x \in low}
  <2>1. \A b \in I : T(b) \subseteq {dot(x) : x \in Whole(n)} \cup {min(x) : x \in low}
    BY <1>7, <1>8
  <2>2. \A x \in Whole(n) : /\ dot(x) \in T(x \div 256) /\ x \div 256 \in I
                            /\ HasMinimum(kern) => min(x) \in T(x \div 256)
    <3> SUFFICES ASSUME NEW x \in Whole(n)
                 PROVE  /\ dot(x) \in T(x \div 256) /\ x \div 256 \in I
                        /\ HasMinimum(kern) => min(x) \in T(x \div 256)
      OBVIOUS
    <3> DEFINE b == x \div 256
               e == x % 256
    <3>1. b \in I /\ e \in Elements /\ x = 256 * b + e
      BY <1>6
    <3> HIDE DEF b, e
    <3>2. dot(x) \in T(b) /\ (HasMinimum(kern) => min(x) \in T(b))
      BY <1>8, <3>1
    <3> QED BY <3>1, <3>2 DEF b
  <2> QED BY <2>1, <2>2
<1>10. Terms(kern, base, Whole(n)) = {dot(x) : x \in Whole(n)} \cup {min(x) : x \in low}
  BY DEF Terms, W, dot, min
<1>11. Gemv!DotProduct(row, n) = Gemv!SetToBag(UNION {T(b) : b \in I})
  BY DEF Gemv!DotProduct, T
<1> QED BY <1>9, <1>10, <1>11 DEF base

(* The steps of the two reductions: each distance is half of the one       *)
(* before, from the group's width to one and from the warp's to the group's. *)
LEMMA GroupDistances ==
  ASSUME NEW k \in Gemv!AllKernels
  PROVE  /\ Gemv!GroupSteps(k) = <<>> => Gemv!GroupWidth(k) = 1
         /\ Gemv!GroupSteps(k) # <<>> => 1 \in 1 .. Len(Gemv!GroupSteps(k))
         /\ \A i \in 1 .. Len(Gemv!GroupSteps(k)) :
              /\ Gemv!GroupSteps(k)[i] \in {1, 2, 4}
              /\ 2 * Gemv!GroupSteps(k)[i] <= Gemv!GroupWidth(k)
              /\ i = 1 => 2 * Gemv!GroupSteps(k)[i] = Gemv!GroupWidth(k)
              /\ i = Len(Gemv!GroupSteps(k)) => Gemv!GroupSteps(k)[i] = 1
              /\ i # Len(Gemv!GroupSteps(k))
                   => i + 1 \in 1 .. Len(Gemv!GroupSteps(k))
                      /\ 2 * Gemv!GroupSteps(k)[i + 1] = Gemv!GroupSteps(k)[i]
<1> DEFINE w == Gemv!GroupWidth(k)
           s == Gemv!GroupSteps(k)
<1>1. /\ w \in {1, 2, 4, 8} /\ (w = 1 => s = <<>>) /\ (w = 2 => s = <<1>>)
      /\ (w = 4 => s = <<2, 1>>) /\ (w = 8 => s = <<4, 2, 1>>)
  BY Widths
<1> HIDE DEF w, s
<1> DEFINE Goal == /\ s = <<>> => w = 1
                   /\ s # <<>> => 1 \in 1 .. Len(s)
                   /\ \A i \in 1 .. Len(s) :
                        /\ s[i] \in {1, 2, 4} /\ 2 * s[i] <= w
                        /\ i = 1 => 2 * s[i] = w
                        /\ i = Len(s) => s[i] = 1
                        /\ i # Len(s) => i + 1 \in 1 .. Len(s) /\ 2 * s[i + 1] = s[i]
<1> SUFFICES Goal
  BY DEF w, s
<1>2. CASE w = 1
  <2>1. s = <<>> /\ Len(s) = 0
    BY <1>1, <1>2
  <2> QED BY <1>2, <2>1
<1>3. CASE w = 2
  <2>1. Len(s) = 1 /\ s[1] = 1
    BY <1>1, <1>3
  <2>2. \A i \in 1 .. 1 : i = 1
    OBVIOUS
  <2>3. s # <<>>
    BY <2>1
  <2> QED BY <1>3, <2>1, <2>2, <2>3
<1>4. CASE w = 4
  <2>1. Len(s) = 2 /\ s[1] = 2 /\ s[2] = 1
    BY <1>1, <1>4
  <2>2. \A i \in 1 .. 2 : i = 1 \/ i = 2
    OBVIOUS
  <2>3. s # <<>>
    BY <2>1
  <2> QED BY <1>4, <2>1, <2>2, <2>3
<1>5. CASE w = 8
  <2>1. Len(s) = 3 /\ s[1] = 4 /\ s[2] = 2 /\ s[3] = 1
    BY <1>1, <1>5
  <2>2. \A i \in 1 .. 3 : i = 1 \/ i = 2 \/ i = 3
    OBVIOUS
  <2>3. s # <<>>
    BY <2>1
  <2> QED BY <1>5, <2>1, <2>2, <2>3
<1> QED BY <1>1, <1>2, <1>3, <1>4, <1>5

LEMMA WarpDistances ==
  ASSUME NEW k \in Gemv!AllKernels, ~Gemv!Gathers(k)
  PROVE  /\ 1 \in 1 .. Len(Gemv!WarpSteps(k))
         /\ \A i \in 1 .. Len(Gemv!WarpSteps(k)) :
              /\ Gemv!WarpSteps(k)[i] \in {1, 2, 4, 8, 16}
              /\ i = 1 => Gemv!WarpSteps(k)[i] = 16
              /\ i = Len(Gemv!WarpSteps(k)) => Gemv!WarpSteps(k)[i] = Gemv!GroupWidth(k)
              /\ i # Len(Gemv!WarpSteps(k))
                   => i + 1 \in 1 .. Len(Gemv!WarpSteps(k))
                      /\ 2 * Gemv!WarpSteps(k)[i + 1] = Gemv!WarpSteps(k)[i]
<1> DEFINE w == Gemv!GroupWidth(k)
           s == Gemv!WarpSteps(k)
<1>1. /\ w \in {1, 2, 4} /\ (w = 1 => s = <<16, 8, 4, 2, 1>>) /\ (w = 2 => s = <<16, 8, 4, 2>>)
      /\ (w = 4 => s = <<16, 8, 4>>)
  BY Widths
<1> HIDE DEF w, s
<1> DEFINE Goal == /\ 1 \in 1 .. Len(s)
                   /\ \A i \in 1 .. Len(s) :
                        /\ s[i] \in {1, 2, 4, 8, 16}
                        /\ i = 1 => s[i] = 16
                        /\ i = Len(s) => s[i] = w
                        /\ i # Len(s) => i + 1 \in 1 .. Len(s) /\ 2 * s[i + 1] = s[i]
<1> SUFFICES Goal
  BY DEF w, s
<1>2. CASE w = 1
  <2>1. Len(s) = 5 /\ s[1] = 16 /\ s[2] = 8 /\ s[3] = 4 /\ s[4] = 2 /\ s[5] = 1
    BY <1>1, <1>2
  <2>2. \A i \in 1 .. 5 : i = 1 \/ i = 2 \/ i = 3 \/ i = 4 \/ i = 5
    OBVIOUS
  <2>3. s # <<>>
    BY <2>1
  <2> QED BY <1>2, <2>1, <2>2, <2>3
<1>3. CASE w = 2
  <2>1. Len(s) = 4 /\ s[1] = 16 /\ s[2] = 8 /\ s[3] = 4 /\ s[4] = 2
    BY <1>1, <1>3
  <2>2. \A i \in 1 .. 4 : i = 1 \/ i = 2 \/ i = 3 \/ i = 4
    OBVIOUS
  <2>3. s # <<>>
    BY <2>1
  <2> QED BY <1>3, <2>1, <2>2, <2>3
<1>4. CASE w = 4
  <2>1. Len(s) = 3 /\ s[1] = 16 /\ s[2] = 8 /\ s[3] = 4
    BY <1>1, <1>4
  <2>2. \A i \in 1 .. 3 : i = 1 \/ i = 2 \/ i = 3
    OBVIOUS
  <2>3. s # <<>>
    BY <2>1
  <2> QED BY <1>4, <2>1, <2>2, <2>3
<1> QED BY <1>1, <1>2, <1>3, <1>4

(* The launch: a warp for every row, and perhaps some more.                *)
LEMMA RowIs ==
  ASSUME kern \in Gemv!AllKernels, warp \in Nat, rows \in Nat
  PROVE  Gemv!Row = warp /\ Gemv!Warps \in Nat /\ Gemv!Warps >= rows
<1> DEFINE c == Gemv!WarpsPerCta(kern)
<1>1. c \in {1, 4}
  BY Widths
<1> HIDE DEF c
<1>2. /\ (warp \div c) * c + (warp % c) = warp
      /\ ((rows + c - 1) \div c) * c \in Nat /\ ((rows + c - 1) \div c) * c >= rows
  <2>1. CASE c = 1 BY <2>1
  <2>2. CASE c = 4 BY <2>2
  <2> QED BY <1>1, <2>1, <2>2
<1> QED BY <1>2 DEF Gemv!Row, Gemv!Warps, Gemv!Grid, c

(* The sums of the lanes at every point of the loop over a row's blocks,   *)
(* and the rows stored.                                                    *)
RowTerms(X) == Gemv!SetToBag(Terms(kern, warp * blocks, X))
PassProducts(X) == Gemv!SetToBag(Products(kern, X, LaneSums(kern, X)))

AccOK == DOMAIN acc = 0 .. 31 /\ \A l \in 0 .. 31 : acc[l] = RowTerms(InRow(kern, l, blk, pass))
PartOK(d) == \A l \in 0 .. 31 : part[l] = PassProducts(InPass(kern, l, blk, pass, d))
ReduceOK(d) ==
  /\ DOMAIN acc = 0 .. 31
  /\ \A l \in 0 .. 31 : l < d => acc[l] = RowTerms(InWarp(kern, l, blocks, d))

ShapeOK ==
  /\ kern \in Gemv!AllKernels /\ rows \in Nat /\ blocks \in Nat
  /\ warp \in Nat /\ blk \in Nat /\ pass \in 0 .. Gemv!Passes(kern) - 1
RowsStored(n) ==
  y = [row \in {r \in 0 .. rows - 1 : r < n} |->
         Gemv!SetToBag(Terms(kern, row * blocks, Whole(blocks)))]
WarpOK ==
  /\ at \in {"start", "load", "group", "apply", "warp", "store", "done"}
  /\ at = "start" => blk = 0 /\ pass = 0 /\ acc = Gemv!Empty
  /\ at \notin {"start", "done"} => warp < rows
  /\ at = "done" => warp >= rows
  /\ at \in {"load", "group", "apply"} => AccOK
  /\ at = "group" => /\ step \in 1 .. Len(Gemv!GroupSteps(kern))
                     /\ PartOK(2 * Gemv!GroupSteps(kern)[step])
  /\ at = "apply" => step = 1 /\ PartOK(1)
  /\ at = "warp" => IF Gemv!Gathers(kern) THEN ReduceOK(32)
                    ELSE /\ step \in 1 .. Len(Gemv!WarpSteps(kern))
                         /\ ReduceOK(2 * Gemv!WarpSteps(kern)[step])
  /\ at = "store" => acc[0] = RowTerms(Whole(blocks))
RInv == IF launch = "gemv" THEN ShapeOK /\ RowsStored(warp) /\ WarpOK ELSE at = "start"

LEMMA RowTermsAdd ==
  ASSUME NEW X, NEW Y, X \cap Y = {}
  PROVE  Gemv!\oplus(RowTerms(X), RowTerms(Y)) = RowTerms(X \cup Y)
BY TermsAdd DEF RowTerms

LEMMA PassProductsAdd ==
  ASSUME NEW X, NEW Y, X \cap Y = {}
  PROVE  Gemv!\oplus(PassProducts(X), PassProducts(Y)) = PassProducts(X \cup Y)
<1>1. /\ LaneSums(kern, X) \cap LaneSums(kern, Y) = {}
      /\ LaneSums(kern, X) \cup LaneSums(kern, Y) = LaneSums(kern, X \cup Y)
  BY DEF LaneSums
<1> QED BY <1>1, ProductsAdd DEF PassProducts

LEMMA StartStep ==
  ASSUME ShapeOK, at = "start", RowsStored(warp), WarpOK, Gemv!Begin
  PROVE  ShapeOK' /\ RowsStored(warp)' /\ WarpOK'
<1>1. /\ at' = "load" /\ warp < rows
      /\ UNCHANGED <<kern, rows, blocks, warp, blk, pass, step, part, acc, y>>
  BY RowIs DEF Gemv!Begin, ShapeOK
<1>2. ShapeOK' /\ RowsStored(warp)'
  BY <1>1 DEF ShapeOK, RowsStored
<1>3. AccOK
  <2>1. blk = 0 /\ pass = 0 /\ acc = [l \in 0 .. 31 |-> Gemv!SetToBag({})]
    BY DEF WarpOK, Gemv!Empty, Gemv!Lanes, Gemv!EmptyBag
  <2>2. \A l \in 0 .. 31 : InRow(kern, l, 0, 0) = {}
    BY Grown DEF ShapeOK
  <2>3. RowTerms({}) = Gemv!SetToBag({})
    BY DEF RowTerms, Terms
  <2> QED BY <2>1, <2>2, <2>3 DEF AccOK
<1>4. AccOK'
  BY <1>1, <1>3 DEF AccOK, RowTerms
<1> QED BY <1>1, <1>2, <1>4 DEF WarpOK

LEMMA LoadStep ==
  ASSUME ShapeOK, RowsStored(warp), WarpOK, Gemv!Load
  PROVE  ShapeOK' /\ RowsStored(warp)' /\ WarpOK'
<1> DEFINE w == Gemv!GroupWidth(kern)
<1>1. /\ at = "load" /\ warp < rows /\ AccOK
      /\ part' = [lane \in 0 .. 31 |-> Gemv!Loaded(lane)] /\ step' = 1
      /\ at' = IF Gemv!GroupSteps(kern) = <<>> THEN "apply" ELSE "group"
      /\ UNCHANGED <<kern, rows, blocks, warp, blk, pass, acc, y>>
  BY DEF Gemv!Load, Gemv!Lanes, WarpOK
<1>2. ShapeOK' /\ RowsStored(warp)'
  BY <1>1 DEF ShapeOK, RowsStored
<1>3. AccOK'
  BY <1>1 DEF AccOK, RowTerms
<1>4. \A l \in 0 .. 31 : part'[l] = PassProducts(InPass(kern, l, blk, pass, w))
  BY <1>1, LoadedIs DEF ShapeOK, PassProducts
<1>5. PartOK(w)'
  BY <1>1, <1>4 DEF PartOK, PassProducts
<1>6. /\ Gemv!GroupSteps(kern) = <<>> => w = 1
      /\ Gemv!GroupSteps(kern) # <<>> => 1 \in 1 .. Len(Gemv!GroupSteps(kern))
                                         /\ 2 * Gemv!GroupSteps(kern)[1] = w
  BY GroupDistances DEF ShapeOK
<1>7. kern' = kern
  BY <1>1
<1> QED BY <1>1, <1>2, <1>3, <1>5, <1>6, <1>7 DEF WarpOK

LEMMA GroupStep ==
  ASSUME ShapeOK, RowsStored(warp), WarpOK, Gemv!GroupShuffle
  PROVE  ShapeOK' /\ RowsStored(warp)' /\ WarpOK'
<1> DEFINE s == Gemv!GroupSteps(kern)
           m == s[step]
           other(l) == Gemv!Partner(l, m)
<1>1. /\ at = "group" /\ warp < rows /\ AccOK /\ step \in 1 .. Len(s) /\ PartOK(2 * m)
      /\ part' = [lane \in 0 .. 31 |-> Gemv!\oplus(part[lane], part[other(lane)])]
      /\ step = Len(s) => at' = "apply" /\ step' = 1
      /\ step # Len(s) => at' = at /\ step' = step + 1
      /\ UNCHANGED <<kern, rows, blocks, warp, blk, pass, acc, y>>
  BY DEF Gemv!GroupShuffle, Gemv!Lanes, WarpOK
<1>2. ShapeOK' /\ RowsStored(warp)'
  BY <1>1 DEF ShapeOK, RowsStored
<1>3. AccOK'
  BY <1>1 DEF AccOK, RowTerms
<1>4. /\ m \in {1, 2, 4} /\ 2 * m <= Gemv!GroupWidth(kern)
      /\ step = Len(s) => m = 1
      /\ step # Len(s) => step + 1 \in 1 .. Len(s) /\ 2 * s[step + 1] = m
  BY <1>1, GroupDistances DEF ShapeOK
<1> HIDE DEF s, m, other
<1>5. \A l \in 0 .. 31 : part'[l] = PassProducts(InPass(kern, l, blk, pass, m))
  <2> SUFFICES ASSUME NEW l \in 0 .. 31
               PROVE  part'[l] = PassProducts(InPass(kern, l, blk, pass, m))
    OBVIOUS
  <2> DEFINE X == InPass(kern, l, blk, pass, 2 * m)
             Y == InPass(kern, other(l), blk, pass, 2 * m)
  <2>1. other(l) \in 0 .. 31 /\ X \cap Y = {} /\ X \cup Y = InPass(kern, l, blk, pass, m)
    <3>1. kern \in Gemv!AllKernels /\ other(l) = Gemv!Partner(l, m)
      BY DEF ShapeOK, other
    <3> HIDE DEF X, Y
    <3>2. ASSUME NEW n \in {1, 2, 4}, n = m
          PROVE  /\ Gemv!Partner(l, n) \in 0 .. 31
                 /\ InPass(kern, l, blk, pass, 2 * n)
                      \cap InPass(kern, Gemv!Partner(l, n), blk, pass, 2 * n) = {}
                 /\ InPass(kern, l, blk, pass, 2 * n)
                      \cup InPass(kern, Gemv!Partner(l, n), blk, pass, 2 * n)
                      = InPass(kern, l, blk, pass, n)
      <4>1. 2 * n <= Gemv!GroupWidth(kern)
        BY <1>4, <3>2
      <4> QED BY <3>1, <4>1, Joined
    <3> QED BY <1>4, <3>1, <3>2 DEF X, Y
  <2>2. part[l] = PassProducts(X) /\ part[other(l)] = PassProducts(Y)
    BY <1>1, <2>1 DEF PartOK
  <2>3. part'[l] = Gemv!\oplus(part[l], part[other(l)])
    BY <1>1
  <2> HIDE DEF X, Y
  <2> QED BY <2>1, <2>2, <2>3, PassProductsAdd
<1>6. \A d : d = m => PartOK(d)'
  BY <1>1, <1>5 DEF PartOK, PassProducts
<1>7. step = Len(s) => PartOK(1)'
  BY <1>4, <1>6
<1>8. step # Len(s) => /\ at' = "group" /\ step' \in 1 .. Len(Gemv!GroupSteps(kern'))
                       /\ PartOK(2 * Gemv!GroupSteps(kern)[step])'
  <2> SUFFICES ASSUME step # Len(s)
               PROVE  /\ at' = "group" /\ step' \in 1 .. Len(Gemv!GroupSteps(kern'))
                      /\ PartOK(2 * Gemv!GroupSteps(kern)[step])'
    OBVIOUS
  <2>1. Gemv!GroupSteps(kern') = s /\ step' = step + 1
    BY <1>1 DEF s
  <2>2. 2 * Gemv!GroupSteps(kern')[step'] = m
    BY <1>4, <2>1
  <2>3. PartOK(2 * Gemv!GroupSteps(kern)[step])'
    BY <1>6, <2>2
  <2> QED BY <1>1, <1>4, <2>1, <2>3
<1> QED BY <1>1, <1>2, <1>3, <1>7, <1>8 DEF WarpOK

LEMMA ApplyStep ==
  ASSUME ShapeOK, RowsStored(warp), WarpOK, Gemv!Apply
  PROVE  ShapeOK' /\ RowsStored(warp)' /\ WarpOK'
<1>1. /\ at = "apply" /\ warp < rows /\ AccOK /\ PartOK(1) /\ step = 1
      /\ acc' = [lane \in 0 .. 31 |-> IF Gemv!Leader(lane)
                                      THEN Gemv!\oplus(acc[lane], Gemv!Applied(lane))
                                      ELSE acc[lane]]
      /\ UNCHANGED <<kern, rows, blocks, warp, step, y>>
  BY DEF Gemv!Apply, Gemv!Lanes, WarpOK
<1>2. \/ pass + 1 < Gemv!Passes(kern) /\ pass' = pass + 1 /\ blk' = blk /\ at' = "load"
      \/ pass + 1 = Gemv!Passes(kern) /\ blk + 1 < blocks /\ pass' = 0 /\ blk' = blk + 1
          /\ at' = "load"
      \/ pass + 1 = Gemv!Passes(kern) /\ blk + 1 = blocks /\ pass' = 0 /\ blk' = blk + 1
          /\ at' = "warp"
  BY DEF Gemv!Apply
<1>3. /\ kern \in Gemv!AllKernels /\ blk \in Nat /\ pass \in Nat /\ warp \in Nat
      /\ pass \in 0 .. Gemv!Passes(kern) - 1 /\ rows \in Nat /\ blocks \in Nat
      /\ Gemv!Passes(kern) \in {1, 2, 8}
  BY Widths DEF ShapeOK
<1>4. ShapeOK'
  BY <1>1, <1>2, <1>3 DEF ShapeOK
<1>5. RowsStored(warp)'
  BY <1>1 DEF RowsStored
<1>6. \A l \in 0 .. 31 : acc'[l] = RowTerms(InRow(kern, l, blk, pass + 1))
  <2> SUFFICES ASSUME NEW l \in 0 .. 31 PROVE acc'[l] = RowTerms(InRow(kern, l, blk, pass + 1))
    OBVIOUS
  <2> DEFINE X == InRow(kern, l, blk, pass)
             Y == InPass(kern, l, blk, pass, 1)
  <2>1. acc[l] = RowTerms(X)
    BY <1>1 DEF AccOK
  <2>2. CASE Gemv!Leader(l)
    <3>1. X \cap Y = {} /\ X \cup Y = InRow(kern, l, blk, pass + 1)
      BY <1>3, <2>2, Grown DEF Gemv!Leader
    <3>2. part[l] = Gemv!SetToBag(Products(kern, Y, LaneSums(kern, Y)))
      BY <1>1 DEF PartOK, PassProducts
    <3>3. Gemv!Applied(l) = Gemv!SetToBag(Terms(kern, Gemv!Row * blocks, Y))
      BY <1>3, <3>2, AppliedIs
    <3>4. Gemv!Applied(l) = RowTerms(Y)
      BY <1>3, <3>3, RowIs DEF RowTerms
    <3>5. acc'[l] = Gemv!\oplus(acc[l], Gemv!Applied(l))
      BY <1>1, <2>2
    <3> HIDE DEF X, Y
    <3> QED BY <2>1, <3>1, <3>4, <3>5, RowTermsAdd
  <2>3. CASE ~Gemv!Leader(l)
    <3>1. X = {} /\ InRow(kern, l, blk, pass + 1) = {}
      <4>1. pass + 1 \in Nat /\ l % Gemv!GroupWidth(kern) # 0
        BY <1>3, <2>3 DEF Gemv!Leader
      <4>2. X = {}
        BY <1>3, <4>1, Grown
      <4>3. InRow(kern, l, blk, pass + 1) = {}
        <5> DEFINE p == pass + 1
        <5> HIDE DEF p
        <5>1. p \in Nat
          BY <4>1 DEF p
        <5>2. InRow(kern, l, blk, p) = {}
          BY <1>3, <4>1, <5>1, Grown
        <5> QED BY <5>2 DEF p
      <4> QED BY <4>2, <4>3
    <3> QED BY <1>1, <2>1, <2>3, <3>1
  <2> QED BY <2>2, <2>3
<1>7. DOMAIN acc' = 0 .. 31
  BY <1>1
<1>8. \A l \in 0 .. 31 : /\ InRow(kern, l, blk, Gemv!Passes(kern)) = InRow(kern, l, blk + 1, 0)
                         /\ InRow(kern, l, blk + 1, 0) = InWarp(kern, l, blk + 1, 32)
  <2> DEFINE b == blk + 1
  <2>1. b \in Nat /\ 0 \in Nat
    BY <1>3
  <2> HIDE DEF b
  <2>2. \A l \in 0 .. 31 : InRow(kern, l, b, 0) = InWarp(kern, l, b, 32)
    BY <1>3, <2>1, Grown
  <2>3. \A l \in 0 .. 31 : InRow(kern, l, blk, Gemv!Passes(kern)) = InRow(kern, l, blk + 1, 0)
    BY <1>3, Grown
  <2> QED BY <2>2, <2>3 DEF b
<1>9. \A X : RowTerms(X)' = RowTerms(X)
  BY <1>1 DEF RowTerms
<1>10. CASE at' = "load"
  <2>1. \A l \in 0 .. 31 : InRow(kern', l, blk', pass') = InRow(kern, l, blk, pass + 1)
    BY <1>1, <1>2, <1>8, <1>10
  <2>2. AccOK'
    BY <1>1, <1>6, <1>7, <2>1 DEF AccOK, RowTerms
  <2> QED BY <1>1, <1>4, <1>5, <1>10, <2>2 DEF WarpOK
<1>11. CASE at' = "warp"
  <2>1. \A l \in 0 .. 31 : InWarp(kern', l, blocks', 32) = InRow(kern, l, blk, pass + 1)
    BY <1>1, <1>2, <1>8, <1>11
  <2>2. \A d : d = 32 => ReduceOK(d)'
    BY <1>1, <1>6, <1>7, <2>1 DEF ReduceOK, RowTerms
  <2>3. ~Gemv!Gathers(kern') => /\ step' \in 1 .. Len(Gemv!WarpSteps(kern'))
                               /\ 2 * Gemv!WarpSteps(kern')[step'] = 32
    <3> SUFFICES ASSUME ~Gemv!Gathers(kern)
                 PROVE  /\ 1 \in 1 .. Len(Gemv!WarpSteps(kern))
                        /\ 2 * Gemv!WarpSteps(kern)[1] = 32
      BY <1>1
    <3>1. /\ 1 \in 1 .. Len(Gemv!WarpSteps(kern)) /\ Gemv!WarpSteps(kern)[1] = 16
      BY <1>3, WarpDistances
    <3> QED BY <3>1
  <2>4. ~Gemv!Gathers(kern') => ReduceOK(2 * Gemv!WarpSteps(kern)[step])'
    BY <2>2, <2>3
  <2> QED BY <1>1, <1>4, <1>5, <1>11, <2>2, <2>3, <2>4 DEF WarpOK
<1> QED BY <1>2, <1>10, <1>11

LEMMA WarpShuffleStep ==
  ASSUME ShapeOK, RowsStored(warp), WarpOK, Gemv!WarpShuffle
  PROVE  ShapeOK' /\ RowsStored(warp)' /\ WarpOK'
<1> DEFINE s == Gemv!WarpSteps(kern)
           m == s[step]
<1>1. /\ at = "warp" /\ warp < rows /\ ~Gemv!Gathers(kern) /\ step \in 1 .. Len(s)
            /\ ReduceOK(2 * m)
      /\ acc' = [lane \in 0 .. 31 |->
                   IF Gemv!Below(lane, m) = lane
                       THEN [t \in DOMAIN acc[lane] |-> 2 * acc[lane][t]]
                   ELSE Gemv!\oplus(acc[lane], acc[Gemv!Below(lane, m)])]
      /\ step = Len(s) => at' = "store" /\ step' = 1
      /\ step # Len(s) => at' = at /\ step' = step + 1
      /\ UNCHANGED <<kern, rows, blocks, warp, blk, pass, part, y>>
  BY DEF Gemv!WarpShuffle, Gemv!Lanes, WarpOK
<1>2. ShapeOK' /\ RowsStored(warp)'
  BY <1>1 DEF ShapeOK, RowsStored
<1>3. /\ m \in {1, 2, 4, 8, 16}
      /\ step = Len(s) => m = Gemv!GroupWidth(kern)
      /\ step # Len(s) => step + 1 \in 1 .. Len(s) /\ 2 * s[step + 1] = m
  BY <1>1, WarpDistances DEF ShapeOK
<1> HIDE DEF s, m
<1>4. \A l \in 0 .. 31 : l < m => acc'[l] = RowTerms(InWarp(kern, l, blocks, m))
  <2> SUFFICES ASSUME NEW l \in 0 .. 31, l < m
               PROVE  acc'[l] = RowTerms(InWarp(kern, l, blocks, m))
    OBVIOUS
  <2> DEFINE X == InWarp(kern, l, blocks, 2 * m)
             Y == InWarp(kern, l + m, blocks, 2 * m)
  <2>1. ASSUME NEW n \in {1, 2, 4, 8, 16}, n = m
        PROVE  /\ l + n \in 0 .. 31 /\ l + n # l /\ l < 2 * n /\ l + n < 2 * n /\ l \in 0 .. n - 1
               /\ Gemv!Below(l, n) = l + n
    BY <2>1 DEF Gemv!Below, Gemv!Lanes
  <2>2. ASSUME NEW n \in {1, 2, 4, 8, 16}, n = m
        PROVE  /\ InWarp(kern, l, blocks, 2 * n) \cap InWarp(kern, l + n, blocks, 2 * n) = {}
               /\ InWarp(kern, l, blocks, 2 * n) \cup InWarp(kern, l + n, blocks, 2 * n)
                    = InWarp(kern, l, blocks, n)
    BY <2>1, <2>2, WarpJoined DEF ShapeOK
  <2>3. /\ l + m \in 0 .. 31 /\ l + m # l /\ l < 2 * m /\ l + m < 2 * m
        /\ Gemv!Below(l, m) = l + m
    BY <1>3, <2>1
  <2>4. X \cap Y = {} /\ X \cup Y = InWarp(kern, l, blocks, m)
    BY <1>3, <2>2
  <2>5. acc[l] = RowTerms(X) /\ acc[l + m] = RowTerms(Y)
    BY <1>1, <2>3 DEF ReduceOK
  <2>6. acc'[l] = Gemv!\oplus(acc[l], acc[l + m])
    BY <1>1, <2>3
  <2> HIDE DEF X, Y
  <2> QED BY <2>4, <2>5, <2>6, RowTermsAdd
<1>5. DOMAIN acc' = 0 .. 31
  BY <1>1
<1>6. \A d : d = m => ReduceOK(d)'
  BY <1>1, <1>4, <1>5 DEF ReduceOK, RowTerms
<1>7. step = Len(s) => acc'[0] = RowTerms(Whole(blocks))'
  <2> SUFFICES ASSUME step = Len(s) PROVE acc'[0] = RowTerms(Whole(blocks))'
    OBVIOUS
  <2>1. m = Gemv!GroupWidth(kern) /\ 0 < m /\ 0 \in 0 .. 31
    BY <1>3
  <2>2. acc'[0] = RowTerms(InWarp(kern, 0, blocks, m))
    BY <1>4, <2>1
  <2>3. acc'[0] = RowTerms(Whole(blocks))
    BY <2>1, <2>2, WarpWhole DEF ShapeOK
  <2> QED BY <1>1, <2>3 DEF RowTerms
<1>8. step # Len(s) => /\ at' = "warp" /\ step' \in 1 .. Len(Gemv!WarpSteps(kern'))
                       /\ ReduceOK(2 * Gemv!WarpSteps(kern)[step])'
  <2> SUFFICES ASSUME step # Len(s)
               PROVE  /\ at' = "warp" /\ step' \in 1 .. Len(Gemv!WarpSteps(kern'))
                      /\ ReduceOK(2 * Gemv!WarpSteps(kern)[step])'
    OBVIOUS
  <2>1. Gemv!WarpSteps(kern') = s /\ step' = step + 1
    BY <1>1 DEF s
  <2>2. 2 * Gemv!WarpSteps(kern')[step'] = m
    BY <1>3, <2>1
  <2>3. ReduceOK(2 * Gemv!WarpSteps(kern)[step])'
    BY <1>6, <2>2
  <2> QED BY <1>1, <1>3, <2>1, <2>3
<1>9. kern' = kern
  BY <1>1
<1> QED BY <1>1, <1>2, <1>7, <1>8, <1>9 DEF WarpOK

LEMMA GatherStep ==
  ASSUME ShapeOK, RowsStored(warp), WarpOK, Gemv!Gather
  PROVE  ShapeOK' /\ RowsStored(warp)' /\ WarpOK'
<1>1. /\ at = "warp" /\ warp < rows /\ Gemv!Gathers(kern) /\ ReduceOK(32) /\ at' = "store"
      /\ acc' = [acc EXCEPT ![0] =
                   Gemv!\oplus(Gemv!\oplus(Gemv!\oplus(acc[0], acc[8]), acc[16]), acc[24])]
      /\ UNCHANGED <<kern, rows, blocks, warp, blk, pass, step, part, y>>
  BY DEF Gemv!Gather, WarpOK
<1>2. ShapeOK' /\ RowsStored(warp)'
  BY <1>1 DEF ShapeOK, RowsStored
<1> DEFINE L(l) == InWarp(kern, l, blocks, 32)
<1>3. /\ DOMAIN acc = 0 .. 31 /\ acc[0] = RowTerms(L(0)) /\ acc[8] = RowTerms(L(8))
      /\ acc[16] = RowTerms(L(16)) /\ acc[24] = RowTerms(L(24))
  BY <1>1 DEF ReduceOK
<1>4. /\ L(0) \cap L(8) = {} /\ (L(0) \cup L(8)) \cap L(16) = {}
      /\ (L(0) \cup L(8) \cup L(16)) \cap L(24) = {}
      /\ L(0) \cup L(8) \cup L(16) \cup L(24) = Whole(blocks)
  BY <1>1, WarpWhole DEF ShapeOK
<1> HIDE DEF L
<1>5. Gemv!\oplus(acc[0], acc[8]) = RowTerms(L(0) \cup L(8))
  BY <1>3, <1>4, RowTermsAdd
<1>6. Gemv!\oplus(RowTerms(L(0) \cup L(8)), acc[16]) = RowTerms(L(0) \cup L(8) \cup L(16))
  BY <1>3, <1>4, RowTermsAdd
<1>7. Gemv!\oplus(RowTerms(L(0) \cup L(8) \cup L(16)), acc[24]) = RowTerms(Whole(blocks))
  BY <1>3, <1>4, RowTermsAdd
<1>8. acc'[0] = RowTerms(Whole(blocks))
  BY <1>1, <1>3, <1>5, <1>6, <1>7
<1>9. acc'[0] = RowTerms(Whole(blocks))'
  BY <1>1, <1>8 DEF RowTerms
<1> QED BY <1>1, <1>2, <1>9 DEF WarpOK

LEMMA NextWarpStep ==
  ASSUME ShapeOK, Gemv!NextWarp, UNCHANGED <<kern, rows, blocks>>
  PROVE  ShapeOK' /\ WarpOK'
<1>1. /\ kern' = kern /\ rows' = rows /\ blocks' = blocks /\ warp' = warp + 1
      /\ blk' = 0 /\ pass' = 0 /\ acc' = Gemv!Empty
      /\ at' = IF warp + 1 < Gemv!Warps THEN "start" ELSE "done"
  BY DEF Gemv!NextWarp
<1>2. /\ kern \in Gemv!AllKernels /\ warp \in Nat /\ rows \in Nat /\ blocks \in Nat
      /\ Gemv!Passes(kern) \in {1, 2, 8} /\ Gemv!Warps \in Nat /\ Gemv!Warps >= rows
  BY RowIs, Widths DEF ShapeOK
<1>3. ShapeOK'
  <2>1. /\ kern' \in Gemv!AllKernels /\ warp' \in Nat /\ rows' \in Nat /\ blocks' \in Nat
              /\ blk' \in Nat
    BY <1>1, <1>2
  <2>2. pass' \in 0 .. Gemv!Passes(kern') - 1
    BY <1>1, <1>2
  <2> QED BY <2>1, <2>2 DEF ShapeOK
<1>4. at' = "done" => warp' >= rows'
  BY <1>1, <1>2
<1>5. Gemv!Empty' = Gemv!Empty
  BY DEF Gemv!Empty, Gemv!Lanes, Gemv!EmptyBag
<1> QED BY <1>1, <1>3, <1>4, <1>5 DEF WarpOK

LEMMA ReturnStep ==
  ASSUME ShapeOK, RowsStored(warp), WarpOK, Gemv!Return
  PROVE  ShapeOK' /\ RowsStored(warp)' /\ WarpOK'
<1>1. /\ warp >= rows /\ warp' = warp + 1 /\ Gemv!NextWarp
      /\ UNCHANGED <<kern, rows, blocks, y>> /\ rows \in Nat /\ warp \in Nat
  BY RowIs DEF Gemv!Return, Gemv!NextWarp, ShapeOK
<1>2. {r \in 0 .. rows - 1 : r < warp} = {r \in 0 .. rows - 1 : r < warp + 1}
  BY <1>1
<1>3. RowsStored(warp)'
  BY <1>1, <1>2 DEF RowsStored
<1> QED BY <1>1, <1>3, NextWarpStep

LEMMA StoreStep ==
  ASSUME ShapeOK, RowsStored(warp), WarpOK, Gemv!Store
  PROVE  ShapeOK' /\ RowsStored(warp)' /\ WarpOK'
<1>1. /\ warp < rows /\ warp' = warp + 1 /\ Gemv!NextWarp /\ acc[0] = RowTerms(Whole(blocks))
      /\ y' = [row \in DOMAIN y \cup {warp} |-> IF row = warp THEN acc[0] ELSE y[row]]
      /\ UNCHANGED <<kern, rows, blocks>> /\ rows \in Nat /\ warp \in Nat
  BY RowIs DEF Gemv!Store, Gemv!NextWarp, ShapeOK, WarpOK
<1> DEFINE P(row) == Gemv!SetToBag(Terms(kern, row * blocks, Whole(blocks)))
           D == {r \in 0 .. rows - 1 : r < warp}
           E == {r \in 0 .. rows - 1 : r < warp + 1}
<1>2. y = [row \in D |-> P(row)] /\ acc[0] = P(warp)
  BY <1>1 DEF RowsStored, RowTerms
<1>3. D \cup {warp} = E /\ warp \notin D
  BY <1>1
<1> HIDE DEF P, D, E
<1>4. y' = [row \in E |-> P(row)]
  BY <1>1, <1>2, <1>3
<1>5. RowsStored(warp)'
  BY <1>1, <1>4 DEF RowsStored, P, E
<1> QED BY <1>1, <1>5, NextWarpStep

LEMMA RowsStep ==
  ASSUME RInv, [Reduce \/ Multiply \/ Step]_<<launch, vars, gemvVars, layerVars>>
  PROVE  RInv'
<1>1. CASE UNCHANGED <<launch, gemvVars>>
  <2>1. UNCHANGED <<launch, kern, rows, blocks, warp, at, blk, pass, step, part, acc, y>>
    BY <1>1 DEF gemvVars
  <2>2. Gemv!Empty' = Gemv!Empty
    BY DEF Gemv!Empty, Gemv!Lanes, Gemv!EmptyBag
  <2>3. ShapeOK' <=> ShapeOK
    BY <2>1 DEF ShapeOK
  <2>4. RowsStored(warp)' <=> RowsStored(warp)
    BY <2>1 DEF RowsStored
  <2>5. (AccOK' <=> AccOK) /\ \A d : (PartOK(d)' <=> PartOK(d)) /\ (ReduceOK(d)' <=> ReduceOK(d))
    BY <2>1 DEF AccOK, PartOK, ReduceOK, RowTerms, PassProducts
  <2>6. (acc[0] = RowTerms(Whole(blocks)))' <=> (acc[0] = RowTerms(Whole(blocks)))
    BY <2>1 DEF RowTerms
  <2>7. WarpOK' <=> WarpOK
    BY <2>1, <2>2, <2>5, <2>6 DEF WarpOK
  <2> QED BY <2>1, <2>3, <2>4, <2>7 DEF RInv
<1>2. CASE Multiply
  <2>1. launch = "gemv" /\ launch' = "gemv" /\ Gemv!Next /\ ShapeOK /\ RowsStored(warp) /\ WarpOK
    BY <1>2 DEF Multiply, RInv
  <2>2. CASE Gemv!Return BY <2>1, <2>2, ReturnStep DEF RInv
  <2>3. CASE Gemv!Begin BY <2>1, <2>3, StartStep DEF RInv, Gemv!Begin
  <2>4. CASE Gemv!Load BY <2>1, <2>4, LoadStep DEF RInv
  <2>5. CASE Gemv!GroupShuffle BY <2>1, <2>5, GroupStep DEF RInv
  <2>6. CASE Gemv!Apply BY <2>1, <2>6, ApplyStep DEF RInv
  <2>7. CASE Gemv!WarpShuffle BY <2>1, <2>7, WarpShuffleStep DEF RInv
  <2>8. CASE Gemv!Gather BY <2>1, <2>8, GatherStep DEF RInv
  <2>9. CASE Gemv!Store BY <2>1, <2>9, StoreStep DEF RInv
  <2>10. CASE Gemv!Done
    BY <1>1, <2>1, <2>10 DEF Gemv!Done, Gemv!vars, gemvVars
  <2> QED
    BY <2>1, <2>2, <2>3, <2>4, <2>5, <2>6, <2>7, <2>8, <2>9, <2>10 DEF Gemv!Next
<1> QED BY <1>1, <1>2 DEF Reduce, Step

(* Whatever the kernel, the rows and the blocks of a row: a finished       *)
(* launch has stored the whole dot product of every row and no other row.  *)
THEOREM RowsAreDotProductsHolds == LaunchSpec => []RowsAreDotProducts
<1>1. LaunchInit => RInv
  <2> SUFFICES ASSUME LaunchInit PROVE RInv
    OBVIOUS
  <2>1. CASE launch = "gemv" /\ Gemv!Init
    <3>1. /\ kern \in Gemv!AllKernels /\ rows \in Nat /\ blocks \in Nat /\ warp = 0
                /\ at = "start"
          /\ blk = 0 /\ pass = 0 /\ acc = Gemv!Empty /\ y = <<>>
      BY <2>1, ShapesAssumption DEF Gemv!Init
    <3>2. ShapeOK
      BY <3>1, Widths DEF ShapeOK
    <3>3. {r \in 0 .. rows - 1 : r < warp} = {}
      BY <3>1
    <3>4. RowsStored(warp)
      BY <3>1, <3>3 DEF RowsStored
    <3>5. WarpOK
      BY <3>1 DEF WarpOK
    <3> QED BY <2>1, <3>2, <3>4, <3>5 DEF RInv
  <2>2. CASE launch # "gemv"
    BY <2>2 DEF LaunchInit, Unlaunched, RInv
  <2> QED BY <2>1, <2>2 DEF LaunchInit
<1>2. RInv /\ [Reduce \/ Multiply \/ Step]_<<launch, vars, gemvVars, layerVars>> => RInv'
  BY RowsStep
<1>3. RInv => RowsAreDotProducts
  <2> SUFFICES ASSUME RInv, at = "done"
               PROVE  y = [row \in 0 .. rows - 1 |-> Gemv!DotProduct(row, blocks)]
    BY DEF RowsAreDotProducts, Gemv!RowsAreDotProducts
  <2>1. ShapeOK /\ RowsStored(warp) /\ WarpOK
    BY DEF RInv
  <2>2. warp >= rows /\ warp \in Nat /\ rows \in Nat /\ blocks \in Nat /\ kern \in Gemv!AllKernels
    BY <2>1 DEF WarpOK, ShapeOK
  <2>3. {r \in 0 .. rows - 1 : r < warp} = 0 .. rows - 1
    BY <2>2
  <2>4. \A row : Gemv!DotProduct(row, blocks)
            = Gemv!SetToBag(Terms(kern, row * blocks, Whole(blocks)))
    BY <2>2, ProductIs
  <2> QED BY <2>1, <2>3, <2>4 DEF RowsStored
<1> QED BY <1>1, <1>2, <1>3, PTL DEF LaunchSpec
=============================================================================
