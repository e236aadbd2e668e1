--------------------------- MODULE Records_proofs ---------------------------
(***************************************************************************)
(* Proofs about what is done with the tensor records of a pack: the plan   *)
(* (Placement), for every list of sizes, every page size and every word    *)
(* length, and the programs that take tensors to the GPU (LayerDispatch,   *)
(* TensorTools), for every set of widths, layers and tensors that differ   *)
(* in pairs: what the guards of a program let through is read inside the   *)
(* tensor it comes from.                                                   *)
(*                                                                         *)
(* The pack never changes under a program, so the inductive part is what   *)
(* the converter guarantees of a record (PackOK); what a program reports   *)
(* follows from it in the step that makes the report.                      *)
(***************************************************************************)
EXTENDS MCRecords, TLAPS

(* align_up returns the first multiple of the alignment that is not below  *)
(* the value.                                                              *)
LEMMA RoundingFacts ==
  ASSUME NEW x \in Nat, NEW a \in Nat \ {0}
  PROVE  /\ AlignUp(x, a) \in Nat
         /\ x <= AlignUp(x, a)
         /\ AlignUp(x, a) < x + a
         /\ AlignUp(x, a) = ((x + a - 1) \div a) * a
         /\ (x + a - 1) \div a \in Nat
         /\ AlignUp(x, a) \div a = (x + a - 1) \div a
BY DEF AlignUp

(* At tensor alignment the result is a multiple of 256.                    *)
LEMMA TensorAlignUp ==
  ASSUME NEW x \in Nat
  PROVE  /\ AlignUp(x, TensorAlignment) \in Nat
         /\ x <= AlignUp(x, TensorAlignment)
         /\ AlignUp(x, TensorAlignment) < x + TensorAlignment
         /\ AlignUp(x, TensorAlignment) % TensorAlignment = 0
BY DEF AlignUp, TensorAlignment

-----------------------------------------------------------------------------
(* What the loop keeps: the tensors placed so far end at or before the     *)
(* cursor, and the cursor exceeds their payload by at most one alignment   *)
(* gap each.                                                               *)
BelowCursor ==
  ~wrapped =>
    /\ \A k \in DOMAIN placed : placed[k] + sizes[k] <= cursor
    /\ payload <= cursor
    /\ cursor <= payload + Len(placed) * TensorAlignment

PageOK == pc \in {"place", "done"} => page # 0

Finished ==
  pc = "done" /\ ~wrapped =>
    /\ Len(placed) = Len(sizes)
    /\ cursor <= reserved /\ reserved < cursor + page
    /\ reserved \in Nat /\ pages \in Nat /\ padding \in Nat
    /\ reserved = pages * page
    /\ padding + payload = reserved

PlanInv == TypeOK /\ PageOK /\ Disjoint /\ BelowCursor /\ Finished

(* The word, the sizes and the pages are naturals.                         *)
LEMMA Naturals ==
  /\ Word \in Nat /\ Word > 256
  /\ \A n \in Sizes : n \in Nat /\ n < Word
  /\ \A n \in PageSizes : n \in Nat /\ n < Word
BY WordAssumption, SizesAssumption, PagesAssumption

(* The types of what a step leaves behind, Place apart.                    *)
LEMMA TypeStep ==
  ASSUME TypeOK, PageOK, PlanNext
  PROVE  TypeOK'
<1>1. CASE CheckPage BY <1>1 DEF TypeOK, CheckPage
<1>2. CASE Place
  <2> DEFINE start == AlignUp(cursor, TensorAlignment)
             n     == Len(placed) + 1
  <2>1. /\ n \in DOMAIN sizes /\ sizes[n] \in Sizes
        /\ sizes[n] \in Nat /\ cursor \in Nat
    BY <1>2, Naturals, WordAssumption DEF TypeOK, Place
  <2>2. start \in Nat /\ start < Word
    <3>1. cursor + TensorAlignment - 1 <= Word - 1
      BY <1>2, <2>1, Naturals DEF Place, Overflows, TensorAlignment
    <3>2. start \in Nat /\ start < cursor + TensorAlignment
      BY <2>1, TensorAlignUp
    <3> HIDE DEF start
    <3> QED BY <3>1, <3>2, <2>1, Naturals DEF TensorAlignment
  <2>3. placed' = Append(placed, start) /\ placed' \in Seq(0 .. Word - 1)
    BY <1>2, <2>2, Naturals DEF TypeOK, Place
  <2>4. /\ payload' \in 0 .. Word - 1 /\ cursor' \in 0 .. Word - 1
    <3>1. \A m \in Nat : m % Word \in 0 .. Word - 1
      BY Naturals
    <3>2. payload + sizes[n] \in Nat /\ start + sizes[n] \in Nat
      BY <2>1, <2>2, Naturals DEF TypeOK
    <3>3. /\ payload' = (payload + sizes[n]) % Word
          /\ cursor' = (start + sizes[n]) % Word
      BY <1>2 DEF Place
    <3> QED BY <3>1, <3>2, <3>3
  <2>5. Len(placed') <= Len(sizes')
    BY <1>2, <2>3 DEF TypeOK, Place
  <2>6. wrapped' \in BOOLEAN
    BY <1>2 DEF TypeOK, Place
  <2> QED BY <1>2, <2>3, <2>4, <2>5, <2>6 DEF TypeOK, Place
<1>3. CASE Finish BY <1>3 DEF TypeOK, Finish
<1>4. CASE Throw BY <1>4 DEF TypeOK, Throw
<1> QED BY <1>1, <1>2, <1>3, <1>4 DEF PlanNext

(* A tensor placed at the aligned cursor starts behind the ones before it, *)
(* and, unless the addition wraps, ends at the new cursor.                 *)
LEMMA PlaceStep ==
  ASSUME PlanInv, Place
  PROVE  Disjoint' /\ BelowCursor'
<1> DEFINE start == AlignUp(cursor, TensorAlignment)
           n     == Len(placed) + 1
<1>1. /\ n \in DOMAIN sizes /\ sizes[n] \in Nat
      /\ cursor \in Nat /\ payload \in Nat /\ Len(placed) \in Nat
      /\ sizes' = sizes
  BY Naturals DEF PlanInv, TypeOK, Place
<1>2. /\ start \in Nat /\ cursor <= start
      /\ start < cursor + TensorAlignment
      /\ start % TensorAlignment = 0
  BY <1>1, TensorAlignUp
<1>3. /\ placed' = Append(placed, start)
      /\ payload' = (payload + sizes[n]) % Word
      /\ cursor' = (start + sizes[n]) % Word
      /\ wrapped' = (wrapped \/ start + sizes[n] >= Word)
  BY DEF Place
<1> HIDE DEF start
<1>4. /\ Len(placed') = n
      /\ DOMAIN placed = 1 .. Len(placed) /\ DOMAIN placed' = 1 .. n
      /\ placed'[n] = start
      /\ \A k \in DOMAIN placed : k \in 1 .. n /\ placed'[k] = placed[k]
      /\ \A k \in DOMAIN placed' : k # n => k \in DOMAIN placed
  BY <1>1, <1>2, <1>3 DEF PlanInv, TypeOK
<1>5. ASSUME ~wrapped'
      PROVE  /\ ~wrapped
             /\ cursor' = start + sizes[n]
             /\ payload' = payload + sizes[n]
  <2>1. ~wrapped /\ start + sizes[n] < Word
    <3>1. ~wrapped /\ ~(start + sizes[n] >= Word)
      BY <1>3, <1>5, Zenon
    <3> QED BY <3>1, <1>1, <1>2, Naturals
  <2>2. payload + sizes[n] < Word
    BY <2>1, <1>1, <1>2, Naturals DEF PlanInv, BelowCursor
  <2>3. \A m \in Nat : m < Word => m % Word = m
    BY Naturals
  <2> QED BY <2>1, <2>2, <2>3, <1>1, <1>2, <1>3
<1>6. ASSUME ~wrapped'
      PROVE  \A k \in DOMAIN placed' : placed'[k] % TensorAlignment = 0
  BY <1>2, <1>4, <1>5, <1>6 DEF PlanInv, Disjoint
<1>7. ASSUME ~wrapped', NEW j \in DOMAIN placed', NEW k \in DOMAIN placed',
             j < k
      PROVE  placed'[j] + sizes'[j] <= placed'[k]
  <2>1. j \in DOMAIN placed
    BY <1>1, <1>4, <1>7
  <2>2. CASE k = n
    <3>1. placed[j] + sizes[j] <= cursor
      BY <2>1, <1>5, <1>7 DEF PlanInv, BelowCursor
    <3>2. placed[j] \in Nat /\ sizes[j] \in Nat
      BY <2>1, <1>1, <1>4, Naturals DEF PlanInv, TypeOK
    <3> QED BY <3>1, <3>2, <2>1, <2>2, <1>1, <1>2, <1>4
  <2>3. CASE k # n
    BY <2>1, <2>3, <1>1, <1>4, <1>5, <1>7 DEF PlanInv, Disjoint
  <2> QED BY <2>2, <2>3
<1>8. Disjoint'
  BY <1>6, <1>7 DEF Disjoint
<1>9. ASSUME ~wrapped', NEW k \in DOMAIN placed'
      PROVE  placed'[k] + sizes'[k] <= cursor'
  <2>1. CASE k = n BY <2>1, <1>1, <1>2, <1>4, <1>5, <1>9
  <2>2. CASE k # n
    <3>1. k \in DOMAIN placed /\ placed[k] + sizes[k] <= cursor
      BY <2>2, <1>4, <1>5, <1>9 DEF PlanInv, BelowCursor
    <3>2. placed[k] \in Nat /\ sizes[k] \in Nat
      BY <3>1, <1>1, <1>4, Naturals DEF PlanInv, TypeOK
    <3> QED BY <3>1, <3>2, <1>1, <1>2, <1>4, <1>5, <1>9
  <2> QED BY <2>1, <2>2
<1>10. ASSUME ~wrapped'
       PROVE  /\ payload' <= cursor'
              /\ cursor' <= payload' + Len(placed') * TensorAlignment
  <2>1. payload <= cursor /\ cursor <= payload + Len(placed) * 256
    BY <1>5, <1>10 DEF PlanInv, BelowCursor, TensorAlignment
  <2>2. start <= payload + Len(placed) * 256 + 256 /\ payload <= start
    BY <2>1, <1>1, <1>2 DEF TensorAlignment
  <2>3. Len(placed') * 256 = Len(placed) * 256 + 256
    BY <1>1, <1>4
  <2> QED BY <2>2, <2>3, <1>1, <1>2, <1>5, <1>10 DEF TensorAlignment
<1> QED BY <1>8, <1>9, <1>10 DEF BelowCursor

(* Rounding the cursor up to a page covers everything placed; without a    *)
(* wrap the payload fits, so the padding is the exact difference.          *)
LEMMA FinishStep ==
  ASSUME PlanInv, Finish
  PROVE  Finished'
<1>1. cursor \in Nat /\ payload \in Nat /\ page \in Nat \ {0}
  BY Naturals DEF PlanInv, TypeOK, PageOK, Finish
<1>2. /\ AlignUp(cursor, page) \in Nat
      /\ cursor <= AlignUp(cursor, page)
      /\ AlignUp(cursor, page) < cursor + page
      /\ AlignUp(cursor, page) = ((cursor + page - 1) \div page) * page
      /\ (cursor + page - 1) \div page \in Nat
      /\ AlignUp(cursor, page) \div page = (cursor + page - 1) \div page
  BY <1>1, RoundingFacts
<1>3. /\ reserved' = AlignUp(cursor, page)
      /\ padding' = IF reserved' >= payload THEN reserved' - payload ELSE 0
      /\ pages' = reserved' \div page
      /\ Len(placed) = Len(sizes)
      /\ UNCHANGED <<sizes, page, cursor, placed, payload, wrapped>>
  BY DEF Finish
<1>4. ASSUME ~wrapped
      PROVE  payload <= reserved'
  BY <1>1, <1>2, <1>3, <1>4 DEF PlanInv, BelowCursor
<1>5. reserved' = pages' * page'
  BY <1>2, <1>3
<1>6. ASSUME ~wrapped
      PROVE  padding' + payload' = reserved' /\ padding' \in Nat
  BY <1>1, <1>2, <1>3, <1>4, <1>6
<1> QED BY <1>1, <1>2, <1>3, <1>5, <1>6 DEF Finished

-----------------------------------------------------------------------------
(* The invariant of build() is inductive.                                  *)
THEOREM Inductive == PlanSpec => []PlanInv
<1>1. PlanInit => PlanInv
  <2> SUFFICES ASSUME PlanInit PROVE PlanInv
    OBVIOUS
  <2>1. TypeOK
    <3>1. /\ sizes \in Seq(Sizes) /\ Len(placed) <= Len(sizes)
          /\ placed \in Seq(0 .. Word - 1)
      <4>1. PICK m \in 0 .. MaxTensors : sizes \in [1 .. m -> Sizes]
        BY DEF PlanInit
      <4>2. m \in Nat /\ sizes \in Seq(Sizes) /\ Len(sizes) \in Nat
        BY <4>1, TensorsAssumption
      <4> QED BY <4>2 DEF PlanInit
    <3>2. cursor \in 0 .. Word - 1 /\ payload \in 0 .. Word - 1
      BY Naturals DEF PlanInit
    <3> QED BY <3>1, <3>2 DEF PlanInit, TypeOK
  <2> QED BY <2>1 DEF PlanInit, PlanInv, PageOK, Disjoint, BelowCursor, Finished,
                      TensorAlignment
<1>2. PlanInv /\ [PlanNext]_planVars => PlanInv'
  <2> SUFFICES ASSUME PlanInv, [PlanNext]_planVars PROVE PlanInv'
    OBVIOUS
  <2>1. CASE CheckPage
    <3>1. TypeOK' BY <2>1, TypeStep DEF PlanInv, PlanNext
    <3> QED BY <2>1, <3>1 DEF CheckPage, PowerOfTwo, PlanInv, PageOK, Disjoint,
                              BelowCursor, Finished
  <2>2. CASE Place
    <3>1. TypeOK' BY <2>2, TypeStep DEF PlanInv, PlanNext
    <3>2. Disjoint' /\ BelowCursor' BY <2>2, PlaceStep
    <3> QED BY <2>2, <3>1, <3>2 DEF Place, PlanInv, PageOK, Finished
  <2>3. CASE Finish
    <3>1. TypeOK' BY <2>3, TypeStep DEF PlanInv, PlanNext
    <3>2. Finished' BY <2>3, FinishStep
    <3> QED BY <2>3, <3>1, <3>2 DEF Finish, PlanInv, PageOK, Disjoint,
                                    BelowCursor
  <2>4. CASE Throw
    <3>1. TypeOK' BY <2>4, TypeStep DEF PlanInv, PlanNext
    <3> QED BY <2>4, <3>1 DEF Throw, PlanInv, PageOK, Disjoint, BelowCursor,
                              Finished
  <2>5. CASE UNCHANGED planVars
    BY <2>5 DEF planVars, PlanInv, TypeOK, PageOK, Disjoint, BelowCursor, Finished
  <2> QED BY <2>1, <2>2, <2>3, <2>4, <2>5 DEF PlanNext
<1> QED BY <1>1, <1>2, PTL DEF PlanSpec

(* No two tensors of a plan share a byte, whatever the pack and the page,  *)
(* unless the cursor wrapped.                                              *)
THEOREM DisjointHolds == PlanSpec => []Disjoint
<1>1. PlanInv => Disjoint BY DEF PlanInv
<1> QED BY <1>1, Inductive, PTL

(* A finished plan's range holds every tensor and its figures add up.      *)
THEOREM FitsHolds == PlanSpec => []Fits
<1>1. PlanInv => Fits
  <2> SUFFICES ASSUME PlanInv, pc = "done", ~wrapped
               PROVE  /\ Len(placed) = Len(sizes)
                      /\ \A k \in DOMAIN placed :
                           placed[k] + sizes[k] <= reserved
                      /\ reserved = pages * page
                      /\ padding + payload = reserved
    BY DEF Fits
  <2>1. Len(placed) = Len(sizes) /\ cursor <= reserved
        /\ reserved \in Nat /\ reserved = pages * page
        /\ padding + payload = reserved
    BY DEF PlanInv, Finished
  <2>2. ASSUME NEW k \in DOMAIN placed
        PROVE  placed[k] + sizes[k] <= reserved
    <3>1. placed[k] + sizes[k] <= cursor BY DEF PlanInv, BelowCursor
    <3>2. placed[k] \in Nat /\ sizes[k] \in Nat /\ cursor \in Nat
      BY Naturals DEF PlanInv, TypeOK
    <3> QED BY <3>1, <3>2, <2>1
  <2> QED BY <2>1, <2>2
<1> QED BY <1>1, Inductive, PTL

(* A finished plan wastes less than one page and one alignment gap per     *)
(* tensor.                                                                 *)
THEOREM TightHolds == PlanSpec => []Tight
<1>1. PlanInv => Tight
  <2> SUFFICES ASSUME PlanInv, pc = "done", ~wrapped
               PROVE  /\ reserved - cursor < page
                      /\ padding < page + Len(sizes) * TensorAlignment
    BY DEF Tight
  <2>1. /\ Len(placed) = Len(sizes)
        /\ reserved \in Nat /\ reserved < cursor + page
        /\ padding + payload = reserved
        /\ cursor <= payload + Len(placed) * 256
    BY DEF PlanInv, Finished, BelowCursor, TensorAlignment
  <2>2. /\ cursor \in Nat /\ page \in Nat /\ payload \in Nat
        /\ Len(sizes) * 256 \in Nat
    BY Naturals DEF PlanInv, TypeOK
  <2>3. padding \in Nat
    BY DEF PlanInv, Finished
  <2> QED BY <2>1, <2>2, <2>3 DEF TensorAlignment
<1> QED BY <1>1, Inductive, PTL

-----------------------------------------------------------------------------
(* align_up does not go down, and stays a number.                          *)
LEMMA AlignUpFacts ==
  \A x \in Nat :
    /\ align_up(x, PlaneAlignment) \in Nat /\ x <= align_up(x, PlaneAlignment)
    /\ align_up(x, GgufAlignment) \in Nat /\ x <= align_up(x, GgufAlignment)
BY DEF align_up, PlaneAlignment, GgufAlignment

(* The dimensions a converted tensor may have, when the model's has r.     *)
DimsOK(dims, r) ==
  /\ dims \in Seq(Nat) /\ Len(dims) \in 1 .. 3 /\ Len(dims) <= r + 1
  /\ Len(dims) = r + 1 => dims[r + 1] \in {1, 2}

Types == {"F32", "Q4_K", "Q5_K", "Q6_K", "IQ4_XS"}

LEMMA Tables ==
  /\ \A type \in Types : Elements[type] \in {1, 256} /\ Bytes[type] \in Nat
  /\ \A type \in Types \ {"F32"} : Elements[type] = 256
  /\ Elements["F32"] = 1 /\ Bytes["F32"] = 4
BY DEF Types, Elements, Bytes

LEMMA TimesNat == \A a, b \in Nat : a * b \in Nat
OBVIOUS

LEMMA TimesOne == \A a, b \in Nat : b >= 1 => a <= a * b
OBVIOUS

LEMMA TimesMonotone == \A a, b, c \in Nat : a <= b => a * c <= b * c
OBVIOUS

LEMMA ProductNat ==
  ASSUME NEW dims \in Seq(Nat)
  PROVE  Product(dims) \in Nat
<1>1. \A k \in 1 .. 4 : Dimension(dims, k) \in Nat
  BY DEF Dimension
<1>2. Dimension(dims, 1) * Dimension(dims, 2) \in Nat
  BY <1>1, TimesNat
<1>3. Dimension(dims, 1) * Dimension(dims, 2) * Dimension(dims, 3) \in Nat
  BY <1>1, <1>2, TimesNat
<1> QED BY <1>1, <1>3, TimesNat DEF Product

(* The product of the dimensions, from the first one or the first two.     *)
LEMMA VectorProduct ==
  ASSUME NEW dims, DimsOK(dims, 1)
  PROVE  dims[1] \in Nat /\ dims[1] <= Product(dims)
<1>1. /\ dims[1] \in Nat /\ Dimension(dims, 1) = dims[1]
      /\ Dimension(dims, 2) \in Nat /\ Dimension(dims, 2) >= 1
      /\ Dimension(dims, 3) = 1 /\ Dimension(dims, 4) = 1
  BY DEF DimsOK, Dimension
<1>2. dims[1] <= dims[1] * Dimension(dims, 2)
  BY <1>1, TimesOne
<1>3. dims[1] * Dimension(dims, 2) \in Nat
  BY <1>1, TimesNat
<1> QED BY <1>1, <1>2, <1>3 DEF Product

LEMMA MatrixProduct ==
  ASSUME NEW dims, DimsOK(dims, 2), Len(dims) >= 2
  PROVE  /\ dims[1] \in Nat /\ dims[2] \in Nat
         /\ dims[1] * dims[2] <= Product(dims)
         /\ Len(dims) = 2 => Product(dims) = dims[1] * dims[2]
<1>1. /\ dims[1] \in Nat /\ Dimension(dims, 1) = dims[1]
      /\ dims[2] \in Nat /\ Dimension(dims, 2) = dims[2]
      /\ Dimension(dims, 3) \in Nat /\ Dimension(dims, 3) >= 1
      /\ Len(dims) = 2 => Dimension(dims, 3) = 1
      /\ Dimension(dims, 4) = 1
  BY DEF DimsOK, Dimension
<1>2. dims[1] * dims[2] \in Nat
  BY <1>1, TimesNat
<1> DEFINE p == dims[1] * dims[2]
<1>3. p <= p * Dimension(dims, 3) /\ p * Dimension(dims, 3) \in Nat
  BY <1>1, <1>2, TimesOne, TimesNat
<1>4. Product(dims) = (p * Dimension(dims, 3)) * 1
  BY <1>1 DEF Product
<1> HIDE DEF p
<1>5. Product(dims) = p * Dimension(dims, 3)
  BY <1>3, <1>4
<1>6. p * 1 = p
  BY <1>2 DEF p
<1> QED BY <1>1, <1>2, <1>3, <1>5, <1>6 DEF p

(* Rows of whole blocks are whole blocks of the tensor.                    *)
LEMMA RowsOfBlocks ==
  ASSUME NEW a \in Nat, NEW b \in Nat, NEW p \in Nat, a * b <= p
  PROVE  /\ b * (a \div 256) \in Nat
         /\ b * (a \div 256) <= p \div 256
         /\ a % 256 = 0 /\ p = a * b => b * (a \div 256) = p \div 256
<1> DEFINE q == a \div 256
<1>1. q \in Nat /\ a = 256 * q + (a % 256) /\ a % 256 \in Nat
  OBVIOUS
<1> DEFINE m == b * q
<1>2. m \in Nat
  BY <1>1, TimesNat
<1>3. a * b = 256 * m + (a % 256) * b
  <2>1. a * b = (256 * q + (a % 256)) * b
    BY <1>1
  <2>2. \A r \in Nat : (256 * q + r) * b = 256 * (b * q) + r * b
    <3> HIDE DEF q
    <3> QED BY <1>1
  <2> QED BY <1>1, <2>1, <2>2
<1>4. (a % 256) * b \in Nat
  BY <1>1, TimesNat
<1> HIDE DEF q, m
<1>5. 256 * m <= p
  <2> DEFINE z == (a % 256) * b
             y == a * b
  <2>1. y = 256 * m + z /\ z \in Nat /\ y <= p /\ y \in Nat
    BY <1>3, <1>4, TimesNat
  <2> HIDE DEF z, y
  <2> QED BY <2>1, <1>2
<1>6. m <= p \div 256
  BY <1>2, <1>5
<1>7. ASSUME a % 256 = 0, p = a * b
      PROVE  m = p \div 256
  <2>1. (a % 256) * b = 0
    BY <1>7
  <2>2. p = 256 * m
    BY <2>1, <1>2, <1>3, <1>7
  <2> QED BY <2>2, <1>2
<1> QED BY <1>2, <1>6, <1>7 DEF m, q

-----------------------------------------------------------------------------
(* What the converter writes of a tensor: the planes start behind one      *)
(* another and end where the tensor does; a tensor in blocks is as long as *)
(* its blocks.                                                             *)
AllBlocks(type, dims) == Product(dims) \div Elements[type]

Laid(t, type, dims, v) ==
  /\ t # Missing
  /\ t.type = type /\ t.ndim = Len(dims)
  /\ t.layout = IF type = "Q5_K" /\ v >= 2 THEN "SM86_Q5K_SOA" ELSE "GGUF_NATIVE"
  /\ \A k \in 1 .. 4 : t.dims[k] = IF k <= Len(dims) THEN dims[k] ELSE 0
  /\ t.stored_bytes \in Nat
  /\ t.layout = "SM86_Q5K_SOA" =>
       /\ QhOffset(t) \in Nat /\ QsOffset(t) \in Nat
       /\ QhOffset(t) >= AllBlocks(type, dims) * 20
       /\ QsOffset(t) >= QhOffset(t) + AllBlocks(type, dims) * 32
       /\ t.stored_bytes = QsOffset(t) + AllBlocks(type, dims) * 128
  /\ t.layout = "GGUF_NATIVE" =>
       t.stored_bytes >= AllBlocks(type, dims) * Bytes[type]

LEMMA RecordIsLaid ==
  ASSUME NEW l \in Nat, NEW type \in Types, NEW dims \in Seq(Nat),
         Len(dims) \in 1 .. 3, NEW v \in Nat
  PROVE  Laid(Record(l, type, dims, v), type, dims, v)
<1> DEFINE blocks == Product(dims) \div Elements[type]
           qh == align_up(Start(l) + blocks * 20, PlaneAlignment)
           qs == align_up(qh + blocks * 32, PlaneAlignment)
           t  == Record(l, type, dims, v)
           soa == type = "Q5_K" /\ v >= 2
<1>1. blocks \in Nat
  BY ProductNat, Tables
<1>2. Start(l) \in Nat
  BY DEF Start, Alignment
<1>3. qh \in Nat /\ Start(l) + blocks * 20 <= qh
  <2> HIDE DEF blocks
  <2>1. Start(l) + blocks * 20 \in Nat
    BY <1>1, <1>2
  <2> QED BY <2>1, AlignUpFacts
<1>4. qs \in Nat /\ qh + blocks * 32 <= qs
  <2> HIDE DEF blocks, qh
  <2>1. qh + blocks * 32 \in Nat
    BY <1>1, <1>3
  <2> QED BY <2>1, AlignUpFacts
<1>5. /\ align_up(blocks * Bytes[type], GgufAlignment) \in Nat
      /\ blocks * Bytes[type] <= align_up(blocks * Bytes[type], GgufAlignment)
  <2>1. blocks * Bytes[type] \in Nat
    BY <1>1, Tables, TimesNat
  <2> HIDE DEF blocks
  <2> QED BY <2>1, AlignUpFacts
<1>6. t = [type |-> type, layout |-> IF soa THEN "SM86_Q5K_SOA" ELSE "GGUF_NATIVE",
           ndim |-> Len(dims),
           dims |-> [k \in 1..4 |-> IF k <= Len(dims) THEN dims[k] ELSE 0],
           data_offset  |-> Start(l),
           stored_bytes |-> IF soa THEN qs + blocks * 128 - Start(l)
                            ELSE align_up(blocks * Bytes[type], GgufAlignment),
           aux0_offset  |-> IF soa THEN qh ELSE 0,
           aux1_offset  |-> IF soa THEN qs ELSE 0]
  BY DEF Record
<1>7. t # Missing
  <2>1. type # "missing"
    BY DEF Types
  <2> HIDE DEF blocks, qh, qs, soa
  <2>2. t.type = type
    BY <1>6
  <2> HIDE DEF t
  <2> QED BY <2>1, <2>2 DEF Missing
<1>8. /\ t.type = type /\ t.ndim = Len(dims)
      /\ t.layout = IF soa THEN "SM86_Q5K_SOA" ELSE "GGUF_NATIVE"
      /\ \A k \in 1 .. 4 :
           t.dims[k] = IF k <= Len(dims) THEN dims[k] ELSE 0
      /\ t.data_offset = Start(l)
      /\ soa => /\ t.aux0_offset = qh /\ t.aux1_offset = qs
                /\ t.stored_bytes = qs + blocks * 128 - Start(l)
      /\ ~soa => t.stored_bytes = align_up(blocks * Bytes[type], GgufAlignment)
  <2> HIDE DEF blocks, qh, qs, soa, t
  <2> QED BY <1>6
<1>9. t.layout = "SM86_Q5K_SOA" <=> soa
  BY <1>8
<1>10. t.layout = "GGUF_NATIVE" <=> ~soa
  BY <1>8
<1> HIDE DEF blocks, qh, qs, t, soa
<1>11. ASSUME soa
       PROVE  /\ QhOffset(t) \in Nat /\ QsOffset(t) \in Nat
              /\ QhOffset(t) >= blocks * 20
              /\ QsOffset(t) >= QhOffset(t) + blocks * 32
              /\ t.stored_bytes = QsOffset(t) + blocks * 128
              /\ t.stored_bytes \in Nat
  <2>1. /\ t.data_offset = Start(l) /\ t.aux0_offset = qh /\ t.aux1_offset = qs
        /\ t.stored_bytes = qs + blocks * 128 - Start(l)
    BY <1>8, <1>11
  <2>2. QhOffset(t) = qh - Start(l) /\ QsOffset(t) = qs - Start(l)
    BY <2>1 DEF QhOffset, QsOffset
  <2> QED BY <2>1, <2>2, <1>1, <1>2, <1>3, <1>4
<1>12. ASSUME ~soa
       PROVE  t.stored_bytes >= blocks * Bytes[type] /\ t.stored_bytes \in Nat
  BY <1>5, <1>8, <1>12
<1>13. AllBlocks(type, dims) = blocks
  BY DEF AllBlocks, blocks
<1>14. Laid(t, type, dims, v)
  <2>1. /\ t.type = type /\ t.ndim = Len(dims)
        /\ t.layout = IF soa THEN "SM86_Q5K_SOA" ELSE "GGUF_NATIVE"
        /\ \A k \in 1 .. 4 : t.dims[k] = IF k <= Len(dims) THEN dims[k] ELSE 0
    BY <1>8
  <2>2. t.stored_bytes \in Nat
    BY <1>11, <1>12
  <2>3. soa <=> type = "Q5_K" /\ v >= 2
    BY DEF soa
  <2> QED BY <2>1, <2>2, <2>3, <1>7, <1>9, <1>10, <1>11, <1>12, <1>13 DEF Laid
<1> QED BY <1>14 DEF t

-----------------------------------------------------------------------------
(* The packs: each tensor of a layer is missing or was written from        *)
(* dimensions of the model or near them.                                   *)
Vectors == {"attn_norm", "ssm_dt", "ssm_a", "ssm_norm", "post_attention_norm"}

Rank(n) == IF n \in Vectors THEN 1 ELSE 2

SourceOK(source) ==
  \A n \in AllNames :
    \/ source[n] = Missing
    \/ /\ source[n].type \in Types
       /\ DimsOK(source[n].dims, Rank(n))

Written(n, l, t) ==
  \/ t = Missing
  \/ \E type \in Types, dims \in Seq(Nat), v \in Nat :
       DimsOK(dims, Rank(n)) /\ t = Record(l, type, dims, v)

PackOK ==
  \A l \in Layers : \A n \in AllNames : Written(n, l, pack[l][n])

LEMMA NamesAre ==
  /\ Names = {"attn_norm", "attn_qkv", "attn_gate", "ssm_beta", "ssm_alpha",
              "ssm_conv1d", "ssm_dt", "ssm_a", "ssm_norm", "ssm_out",
              "post_attention_norm", "ffn_gate", "ffn_up", "ffn_down"}
  /\ DOMAIN Type = Names
  /\ \A w : DOMAIN Shape(w) = Names
BY DEF Names, Shape, Type

LEMMA ModelShapes ==
  ASSUME NEW w \in Nat, NEW n \in Names
  PROVE  /\ Shape(w)[n] \in Seq(Nat) /\ Len(Shape(w)[n]) = Rank(n)
         /\ DimsOK(Shape(w)[n], Rank(n))
         /\ Type[n] \in Types
<1>1. /\ Shape(w)[n] \in Seq(Nat)
      /\ Len(Shape(w)[n]) = IF n \in Vectors THEN 1 ELSE 2
  <2>1. CASE n \in Vectors
    <3>1. Shape(w)[n] \in {<<w>>, <<48>>, <<128>>}
      BY <2>1 DEF Shape, Vectors
    <3>2. \A a \in Nat : <<a>> \in Seq(Nat) /\ Len(<<a>>) = 1
      OBVIOUS
    <3>3. Shape(w)[n] \in Seq(Nat) /\ Len(Shape(w)[n]) = 1
      BY <3>1, <3>2
    <3> QED BY <2>1, <3>3
  <2>2. CASE n \notin Vectors
    <3>1. Shape(w)[n] \in {<<w, 10240>>, <<w, 6144>>, <<w, 48>>, <<4, 10240>>,
                           <<6144, w>>, <<w, 17408>>, <<17408, w>>}
      BY <2>2, NamesAre DEF Shape, Vectors
    <3>2. \A a, b \in Nat : <<a, b>> \in Seq(Nat) /\ Len(<<a, b>>) = 2
      OBVIOUS
    <3>3. \E a, b \in Nat : Shape(w)[n] = <<a, b>>
      BY <3>1
    <3>4. Shape(w)[n] \in Seq(Nat) /\ Len(Shape(w)[n]) = 2
      BY <3>2, <3>3
    <3> QED BY <2>2, <3>4
  <2> QED BY <2>1, <2>2
<1>2. Type[n] \in Types
  BY NamesAre DEF Type, Types
<1>3. DimsOK(Shape(w)[n], Rank(n))
  BY <1>1 DEF DimsOK, Rank
<1> QED BY <1>1, <1>2, <1>3 DEF Rank

LEMMA NearShapes ==
  ASSUME NEW dims \in Seq(Nat), NEW r \in {1, 2}, Len(dims) = r,
         NEW d \in OtherShapes(dims)
  PROVE  DimsOK(d, r)
<1>1. Len(dims) \in {1, 2} /\ dims[Len(dims)] \in Nat /\ dims[1] \in Nat
  OBVIOUS
<1>2. CASE d = [dims EXCEPT ![Len(dims)] = @ \div 2]
  <2>1. d \in Seq(Nat) /\ Len(d) = Len(dims)
    BY <1>1, <1>2
  <2> QED BY <2>1 DEF DimsOK
<1>3. CASE d = [dims EXCEPT ![Len(dims)] = @ * 2]
  <2>1. d \in Seq(Nat) /\ Len(d) = Len(dims)
    BY <1>1, <1>3
  <2> QED BY <2>1 DEF DimsOK
<1>4. CASE d = Append(dims, 1) \/ d = Append(dims, 2)
  <2>1. PICK x \in {1, 2} : d = Append(dims, x)
    BY <1>4
  <2>2. d \in Seq(Nat) /\ Len(d) = Len(dims) + 1 /\ d[Len(dims) + 1] = x
    BY <2>1
  <2> QED BY <1>1, <2>1, <2>2 DEF DimsOK
<1>5. CASE r = 2 /\ d = <<dims[2], dims[1]>>
  BY <1>1, <1>5 DEF DimsOK
<1>6. CASE r = 2 /\ d = <<dims[1] * dims[2]>>
  <2>1. dims[1] * dims[2] \in Nat
    BY <1>1, <1>6, TimesNat
  <2> QED BY <2>1, <1>6 DEF DimsOK
<1> QED BY <1>2, <1>3, <1>4, <1>5, <1>6 DEF OtherShapes

LEMMA ModelIsOK ==
  ASSUME NEW w \in Nat
  PROVE  SourceOK(Model(w)) /\ SourceOK(FullAttention(w))
<1>1. ASSUME NEW n \in AllNames
      PROVE  \/ Model(w)[n] = Missing
             \/ /\ Model(w)[n].type \in Types
                /\ DimsOK(Model(w)[n].dims, Rank(n))
  <2>1. CASE n = "attn_q" BY <2>1 DEF Model
  <2>2. CASE n # "attn_q"
    <3>1. n \in Names BY <1>1, <2>2 DEF AllNames
    <3>2. Model(w)[n] = [type |-> Type[n], dims |-> Shape(w)[n]]
      BY <1>1, <2>2 DEF Model
    <3> QED BY <3>1, <3>2, ModelShapes
  <2> QED BY <2>1, <2>2
<1>2. ASSUME NEW n \in AllNames
      PROVE  \/ FullAttention(w)[n] = Missing
             \/ /\ FullAttention(w)[n].type \in Types
                /\ DimsOK(FullAttention(w)[n].dims, Rank(n))
  <2>1. CASE n = "attn_q"
    <3>1. FullAttention(w)[n] = [type |-> "Q5_K", dims |-> <<w, 12288>>]
      BY <1>2, <2>1 DEF FullAttention
    <3> QED BY <2>1, <3>1 DEF DimsOK, Rank, Vectors, Types
  <2>2. CASE n # "attn_q"
    BY <1>1, <1>2, <2>2 DEF FullAttention
  <2> QED BY <2>1, <2>2
<1> QED BY <1>1, <1>2 DEF SourceOK

LEMMA AlternativesAreOK ==
  ASSUME NEW w \in Nat, NEW n \in Names, NEW a \in Alternatives(n, w)
  PROVE  a = Missing \/ (a.type \in Types /\ DimsOK(a.dims, Rank(n)))
<1>1. /\ Shape(w)[n] \in Seq(Nat) /\ Len(Shape(w)[n]) = Rank(n)
      /\ DimsOK(Shape(w)[n], Rank(n))
      /\ Type[n] \in Types /\ Rank(n) \in {1, 2}
  BY ModelShapes DEF Rank
<1>2. ASSUME NEW t \in OtherTypes(n), a = [type |-> t, dims |-> Shape(w)[n]]
      PROVE  a.type \in Types /\ DimsOK(a.dims, Rank(n))
  BY <1>1, <1>2 DEF OtherTypes, Types
<1>3. ASSUME NEW d \in OtherShapes(Shape(w)[n]), a = [type |-> Type[n], dims |-> d]
      PROVE  a.type \in Types /\ DimsOK(a.dims, Rank(n))
  BY <1>1, <1>3, NearShapes
<1>4. \/ a = Missing
      \/ \E t \in OtherTypes(n) : a = [type |-> t, dims |-> Shape(w)[n]]
      \/ \E d \in OtherShapes(Shape(w)[n]) : a = [type |-> Type[n], dims |-> d]
  BY DEF Alternatives
<1> QED BY <1>2, <1>3, <1>4

LEMMA SourcesAreOK ==
  ASSUME Paired \subseteq Names, NEW w \in Nat, NEW s \in Sources(w)
  PROVE  SourceOK(s)
<1> DEFINE OK(n, x) == x = Missing \/ (x.type \in Types /\ DimsOK(x.dims, Rank(n)))
<1>1. DOMAIN Model(w) = AllNames
  BY DEF Model
<1>2. \A n \in AllNames : OK(n, Model(w)[n])
  BY ModelIsOK DEF SourceOK
<1>3. \A n \in Names : \A a \in Alternatives(n, w) : OK(n, a)
  BY AlternativesAreOK
<1> HIDE DEF OK
<1>4. ASSUME NEW n \in Names, NEW a \in Alternatives(n, w),
             s = [Model(w) EXCEPT ![n] = a]
      PROVE  \A m \in AllNames : OK(m, s[m])
  BY <1>1, <1>2, <1>3, <1>4
<1>5. ASSUME NEW n \in Names \X Names, n[1] # n[2],
             NEW a \in Alternatives(n[1], w), NEW b \in Alternatives(n[2], w),
             s = [Model(w) EXCEPT ![n[1]] = a, ![n[2]] = b]
      PROVE  \A m \in AllNames : OK(m, s[m])
  <2>1. OK(n[1], a) /\ OK(n[2], b) /\ n[1] \in Names /\ n[2] \in Names
    BY <1>3
  <2>2. ASSUME NEW m \in AllNames
        PROVE  s[m] = IF m = n[2] THEN b ELSE IF m = n[1] THEN a ELSE Model(w)[m]
    BY <1>1, <1>5
  <2> QED BY <2>1, <2>2, <1>2
<1>6. CASE s \in {Model(w), FullAttention(w)}
  BY <1>6, ModelIsOK
<1>7. ASSUME \A m \in AllNames : OK(m, s[m])
      PROVE  SourceOK(s)
  BY <1>7 DEF SourceOK, OK
<1>8. \/ s \in {Model(w), FullAttention(w)}
      \/ \E n \in Names : \E a \in Alternatives(n, w) :
           s = [Model(w) EXCEPT ![n] = a]
      \/ \E n \in Paired \X Paired :
           /\ n[1] # n[2]
           /\ \E a \in Alternatives(n[1], w), b \in Alternatives(n[2], w) :
                s = [Model(w) EXCEPT ![n[1]] = a, ![n[2]] = b]
  <2>1. CASE s \in Singles(w)
    <3>1. PICK n \in Names :
            s \in {[Model(w) EXCEPT ![n] = a] : a \in Alternatives(n, w)}
      BY <2>1 DEF Singles
    <3> QED BY <3>1
  <2>2. CASE s \in Doubles(w)
    <3>1. PICK n \in {m \in Paired \X Paired : m[1] # m[2]} :
            s \in {[Model(w) EXCEPT ![n[1]] = a, ![n[2]] = b] :
                     a \in Alternatives(n[1], w), b \in Alternatives(n[2], w)}
      BY <2>2 DEF Doubles
    <3>2. PICK a \in Alternatives(n[1], w), b \in Alternatives(n[2], w) :
            s = [Model(w) EXCEPT ![n[1]] = a, ![n[2]] = b]
      BY <3>1
    <3>3. n \in Paired \X Paired /\ n[1] # n[2]
      BY <3>1
    <3> QED BY <3>2, <3>3
  <2> QED BY <2>1, <2>2 DEF Sources
<1> QED BY <1>4, <1>5, <1>6, <1>7, <1>8

(* What can be told from a tensor of a pack, whichever it is.              *)
LEMMA WrittenIsLaid ==
  ASSUME NEW n, NEW l \in Nat, NEW t, Written(n, l, t), t # Missing
  PROVE  \E type \in Types, dims \in Seq(Nat), v \in Nat :
           /\ DimsOK(dims, Rank(n)) /\ Len(dims) \in 1 .. 3
           /\ Laid(t, type, dims, v)
<1>1. PICK type \in Types, dims \in Seq(Nat), v \in Nat :
        DimsOK(dims, Rank(n)) /\ t = Record(l, type, dims, v)
  BY DEF Written
<1>2. Len(dims) \in 1 .. 3
  BY <1>1 DEF DimsOK
<1>3. Laid(t, type, dims, v)
  BY <1>1, <1>2, RecordIsLaid
<1> QED BY <1>1, <1>2, <1>3

LEMMA WrittenFacts ==
  ASSUME NEW n, NEW l \in Nat, NEW t, Written(n, l, t), t # Missing
  PROVE  /\ t.type \in Types /\ t.ndim \in 1 .. 3
         /\ \A k \in 1 .. 4 : t.dims[k] \in Nat /\ (k > t.ndim => t.dims[k] = 0)
         /\ t.layout \in {"SM86_Q5K_SOA", "GGUF_NATIVE"}
         /\ t.layout = "SM86_Q5K_SOA" => t.type = "Q5_K"
         /\ t.stored_bytes \in Nat
<1>1. PICK type \in Types, dims \in Seq(Nat), v \in Nat :
        Len(dims) \in 1 .. 3 /\ Laid(t, type, dims, v)
  BY WrittenIsLaid
<1>2. ASSUME NEW k \in 1 .. 4
      PROVE  t.dims[k] \in Nat /\ (k > t.ndim => t.dims[k] = 0)
  <2>1. t.dims[k] = IF k <= Len(dims) THEN dims[k] ELSE 0
    BY <1>1 DEF Laid
  <2>2. k <= Len(dims) => dims[k] \in Nat
    BY <1>1
  <2>3. t.ndim = Len(dims)
    BY <1>1 DEF Laid
  <2> QED BY <2>1, <2>2, <2>3, <1>1
<1> QED BY <1>1, <1>2 DEF Laid

(* The blocks of a matrix's rows lie inside the tensor, in each layout;    *)
(* rows of whole blocks, and no third dimension, are all of it.            *)
LEMMA MatrixFacts ==
  ASSUME NEW n, NEW l \in Nat, NEW t, Written(n, l, t), t # Missing,
         t.ndim >= 2, t.type # "F32"
  PROVE  /\ MatrixBlocks(t) \in Nat
         /\ t.layout = "SM86_Q5K_SOA" =>
              /\ QhOffset(t) \in Nat /\ QsOffset(t) \in Nat
              /\ PlanesFit(t)
              /\ QsOffset(t) + MatrixBlocks(t) * 128 <= t.stored_bytes
              /\ t.ndim = 2 /\ t.dims[1] % 256 = 0 =>
                   QsOffset(t) + MatrixBlocks(t) * 128 = t.stored_bytes
         /\ t.layout = "GGUF_NATIVE" =>
              MatrixBlocks(t) * Bytes[t.type] <= t.stored_bytes
<1>1. PICK type \in Types, dims \in Seq(Nat), v \in Nat :
        /\ DimsOK(dims, Rank(n)) /\ Len(dims) \in 1 .. 3
        /\ Laid(t, type, dims, v)
  BY WrittenIsLaid
<1> DEFINE blocks == AllBlocks(type, dims)
           m      == MatrixBlocks(t)
<1>2. t.type = type /\ t.ndim = Len(dims) /\ t.stored_bytes \in Nat
  BY <1>1 DEF Laid
<1>3. DimsOK(dims, 2) /\ Len(dims) >= 2
  BY <1>1, <1>2 DEF DimsOK, Rank
<1>4. Elements[type] = 256 /\ Bytes[type] \in Nat
  BY <1>2, Tables
<1>5. t.dims[1] = dims[1] /\ t.dims[2] = dims[2]
  BY <1>1, <1>3 DEF Laid
<1>6. /\ dims[1] \in Nat /\ dims[2] \in Nat /\ Product(dims) \in Nat
      /\ dims[1] * dims[2] <= Product(dims)
      /\ Len(dims) = 2 => Product(dims) = dims[1] * dims[2]
  BY <1>3, MatrixProduct, ProductNat
<1>7. m = dims[2] * (dims[1] \div 256)
  BY <1>5 DEF MatrixBlocks
<1>8. /\ dims[2] * (dims[1] \div 256) \in Nat
      /\ dims[2] * (dims[1] \div 256) <= Product(dims) \div 256
      /\ dims[1] % 256 = 0 /\ Product(dims) = dims[1] * dims[2] =>
           dims[2] * (dims[1] \div 256) = Product(dims) \div 256
  <2> DEFINE a == dims[1]
             b == dims[2]
             p == Product(dims)
  <2>1. a \in Nat /\ b \in Nat /\ p \in Nat /\ a * b <= p
    BY <1>6
  <2> HIDE DEF a, b, p
  <2>2. /\ b * (a \div 256) \in Nat
        /\ b * (a \div 256) <= p \div 256
        /\ a % 256 = 0 /\ p = a * b => b * (a \div 256) = p \div 256
    BY <2>1, RowsOfBlocks
  <2> QED BY <2>2 DEF a, b, p
<1>9. blocks = Product(dims) \div 256 /\ blocks \in Nat
  BY <1>4, <1>6 DEF AllBlocks
<1> HIDE DEF blocks, m
<1>10. m \in Nat /\ m <= blocks
  BY <1>7, <1>8, <1>9
<1>11. t.ndim = 2 /\ t.dims[1] % 256 = 0 => m = blocks
  BY <1>2, <1>5, <1>6, <1>7, <1>8, <1>9
<1>12. ASSUME t.layout = "GGUF_NATIVE"
       PROVE  m * Bytes[t.type] <= t.stored_bytes
  <2>1. t.stored_bytes >= blocks * Bytes[type]
    BY <1>1, <1>12 DEF Laid, blocks
  <2>2. m * Bytes[type] <= blocks * Bytes[type]
    BY <1>4, <1>9, <1>10, TimesMonotone
  <2>3. m * Bytes[type] \in Nat /\ blocks * Bytes[type] \in Nat
    BY <1>4, <1>9, <1>10, TimesNat
  <2> QED BY <1>2, <2>1, <2>2, <2>3
<1>13. ASSUME t.layout = "SM86_Q5K_SOA"
       PROVE  /\ QhOffset(t) \in Nat /\ QsOffset(t) \in Nat
              /\ QhOffset(t) >= m * 20
              /\ QsOffset(t) >= QhOffset(t) + m * 32
              /\ QsOffset(t) + m * 128 <= t.stored_bytes
              /\ m = blocks => QsOffset(t) + m * 128 = t.stored_bytes
  <2>1. /\ QhOffset(t) \in Nat /\ QsOffset(t) \in Nat
        /\ QhOffset(t) >= blocks * 20
        /\ QsOffset(t) >= QhOffset(t) + blocks * 32
        /\ t.stored_bytes = QsOffset(t) + blocks * 128
    BY <1>1, <1>13 DEF Laid, blocks
  <2>2. m \in Nat /\ blocks \in Nat /\ m <= blocks
    BY <1>9, <1>10
  <2>3. blocks * 20 >= m * 20 /\ blocks * 32 >= m * 32 /\ blocks * 128 >= m * 128
    BY <2>2
  <2>4. QsOffset(t) >= QhOffset(t) + m * 32
    BY <2>1, <2>2, <2>3
  <2>5. QhOffset(t) >= m * 20
    BY <2>1, <2>2, <2>3
  <2>6. QsOffset(t) + m * 128 <= t.stored_bytes
    BY <2>1, <2>2, <2>3
  <2>7. m = blocks => QsOffset(t) + m * 128 = t.stored_bytes
    BY <2>1
  <2> QED BY <2>1, <2>4, <2>5, <2>6, <2>7
<1> QED BY <1>10, <1>11, <1>12, <1>13 DEF m, PlanesFit

(* A tensor of floats holds the product of the dimensions it has.          *)
LEMMA FloatFacts ==
  ASSUME NEW n, NEW l \in Nat, NEW t, Written(n, l, t), t # Missing,
         t.type = "F32"
  PROVE  /\ t.layout = "GGUF_NATIVE"
         /\ n \in Vectors => t.dims[1] * 4 <= t.stored_bytes
         /\ t.ndim >= 2 => (t.dims[1] * t.dims[2]) * 4 <= t.stored_bytes
<1>1. PICK type \in Types, dims \in Seq(Nat), v \in Nat :
        /\ DimsOK(dims, Rank(n)) /\ Len(dims) \in 1 .. 3
        /\ Laid(t, type, dims, v)
  BY WrittenIsLaid
<1>2. t.type = type /\ t.ndim = Len(dims) /\ t.stored_bytes \in Nat
  BY <1>1 DEF Laid
<1>3. t.layout = "GGUF_NATIVE"
  BY <1>1, <1>2 DEF Laid
<1>4. Product(dims) \in Nat /\ t.stored_bytes >= Product(dims) * 4
  <2>1. Product(dims) \in Nat /\ Elements["F32"] = 1 /\ Bytes["F32"] = 4
    BY Tables, ProductNat
  <2>2. AllBlocks(type, dims) = Product(dims)
    BY <1>2, <2>1 DEF AllBlocks
  <2>3. t.stored_bytes >= AllBlocks(type, dims) * Bytes[type]
    BY <1>1, <1>3 DEF Laid
  <2> QED BY <1>2, <2>1, <2>2, <2>3
<1>5. t.dims[1] = dims[1]
  BY <1>1 DEF Laid
<1>6. ASSUME n \in Vectors
      PROVE  t.dims[1] * 4 <= t.stored_bytes
  <2>1. DimsOK(dims, 1)
    BY <1>1, <1>6 DEF Rank
  <2>2. dims[1] \in Nat /\ dims[1] <= Product(dims)
    BY <2>1, VectorProduct
  <2> QED BY <2>2, <1>2, <1>4, <1>5
<1>7. ASSUME t.ndim >= 2
      PROVE  (t.dims[1] * t.dims[2]) * 4 <= t.stored_bytes
  <2>1. DimsOK(dims, 2) /\ Len(dims) >= 2
    BY <1>1, <1>2, <1>7 DEF DimsOK, Rank
  <2>2. /\ dims[1] \in Nat /\ dims[2] \in Nat
        /\ dims[1] * dims[2] <= Product(dims)
    BY <2>1, MatrixProduct
  <2>3. t.dims[2] = dims[2] /\ dims[1] * dims[2] \in Nat
    BY <1>1, <2>1, <2>2, TimesNat DEF Laid
  <2> DEFINE p == dims[1] * dims[2]
  <2>4. t.dims[1] * t.dims[2] = p /\ p \in Nat /\ p <= Product(dims)
    BY <1>5, <2>2, <2>3
  <2> HIDE DEF p
  <2>5. p * 4 <= t.stored_bytes
    BY <2>4, <1>2, <1>4
  <2> QED BY <2>4, <2>5
<1> QED BY <1>3, <1>6, <1>7

-----------------------------------------------------------------------------
(* The tables of the runtime.                                              *)
LEMMA NeedsFacts ==
  /\ Programs = {"projection_pack", "recurrent_front", "recurrent_attention",
                 "layer0_full", "recurrent_layer"}
  /\ \A f \in Programs : Needs[f] \subseteq Names /\ Ranked[f] \subseteq Needs[f]
  /\ DOMAIN Kernels \cup Plain = Names
  /\ Plain \cap DOMAIN Kernels = {}
  /\ Names \subseteq AllNames /\ Vectors \subseteq Names
  /\ Needs["projection_pack"] = Projections
  /\ Ranked["projection_pack"] = Projections
  /\ Needs["layer0_full"] = Names /\ Needs["recurrent_layer"] = Names
  /\ Projections = {"attn_norm", "attn_qkv", "attn_gate", "ssm_beta", "ssm_alpha"}
<1>1. Programs = {"projection_pack", "recurrent_front", "recurrent_attention",
                  "layer0_full", "recurrent_layer"}
  BY DEF Programs, Needs
<1>2. \A f \in Programs : Needs[f] \subseteq Names /\ Ranked[f] \subseteq Needs[f]
  BY <1>1, NamesAre DEF Needs, Ranked, Projections, Front, Attention
<1>3. DOMAIN Kernels \cup Plain = Names /\ Plain \cap DOMAIN Kernels = {}
  BY NamesAre DEF Kernels, Plain
<1>4. Names \subseteq AllNames /\ Vectors \subseteq Names
  BY NamesAre DEF AllNames, Vectors
<1>5. /\ Needs["projection_pack"] = Projections
      /\ Ranked["projection_pack"] = Projections
      /\ Needs["layer0_full"] = Names /\ Needs["recurrent_layer"] = Names
  BY DEF Needs, Ranked
<1> QED BY <1>1, <1>2, <1>3, <1>4, <1>5 DEF Projections

(* A kernel is chosen for one type and one layout.                         *)
LEMMA KernelFacts ==
  ASSUME NEW n \in DOMAIN Kernels, NEW t,
         select_projection_kernel(t) = Kernels[n]
  PROVE  /\ t.type = Type[n]
         /\ t.layout = IF InPlanes(n) THEN "SM86_Q5K_SOA" ELSE "GGUF_NATIVE"
<1>1. Kernels[n] \in {"F32_DIRECT", "Q4K_NATIVE", "Q5K_SM86_VEC", "IQ4XS_PRMT"}
  BY DEF Kernels
<1>2. Type[n] = CASE Kernels[n] = "F32_DIRECT"   -> "F32"
                  [] Kernels[n] = "Q4K_NATIVE"   -> "Q4_K"
                  [] Kernels[n] = "Q5K_SM86_VEC" -> "Q5_K"
                  [] Kernels[n] = "IQ4XS_PRMT"   -> "IQ4_XS"
  BY DEF Kernels, Type
<1> QED BY <1>1, <1>2 DEF select_projection_kernel, InPlanes

LEMMA TypeFacts ==
  /\ \A n \in Names : Type[n] = "F32" <=> n \in Vectors \cup {"ssm_conv1d"}
  /\ \A n \in Names : InPlanes(n) => Type[n] = "Q5_K"
  /\ \A n \in Plain : Type[n] = "F32" /\ ~InPlanes(n)
BY NamesAre DEF Type, Vectors, InPlanes, Kernels, Plain

(* The shapes of the one model most of the functions are for.              *)
LEMMA ModelDims ==
  ASSUME NEW n \in Names
  PROVE  /\ n \in Vectors => \E a \in Nat : Shape(5120)[n] = <<a>>
         /\ n \notin Vectors =>
              \E a, b \in Nat : /\ Shape(5120)[n] = <<a, b>> /\ b # 0
                                /\ n # "ssm_conv1d" => a % 256 = 0
<1>1. CASE n \in Vectors
  <2>1. Shape(5120)[n] \in {<<5120>>, <<48>>, <<128>>}
    BY <1>1 DEF Shape, Vectors
  <2> QED BY <1>1, <2>1
<1>2. CASE n \notin Vectors
  <2>1. CASE n = "ssm_conv1d"
    <3>1. Shape(5120)[n] = <<4, 10240>>
      BY <2>1 DEF Shape
    <3> QED BY <1>2, <2>1, <3>1
  <2>2. CASE n # "ssm_conv1d"
    <3>1. Shape(5120)[n] \in {<<5120, 10240>>, <<5120, 6144>>, <<5120, 48>>,
                              <<6144, 5120>>, <<5120, 17408>>, <<17408, 5120>>}
      BY <1>2, <2>2, NamesAre DEF Shape, Vectors
    <3>2. 5120 % 256 = 0 /\ 6144 % 256 = 0 /\ 17408 % 256 = 0
      OBVIOUS
    <3> QED BY <1>2, <3>1, <3>2
  <2> QED BY <2>1, <2>2
<1> QED BY <1>1, <1>2

(* The sizes the driver works with are those of the record.                *)
Accepted(f, layer) ==
  /\ \A n \in Needs[f] : Has(layer, n)
  /\ KernelsAreRight(f, layer)
  /\ RankIsRight(f, layer) /\ ShapesAreRight(f, layer)
  /\ DimensionsAreUsable(f, layer)

LEMMA AcceptedDims ==
  ASSUME NEW l \in Nat, NEW layer, NEW f \in Programs,
         \A n \in AllNames : Written(n, l, layer[n]), Accepted(f, layer),
         NEW n \in Needs[f]
  PROVE  /\ n \in Vectors => Dims(f, layer, n) = <<layer[n].dims[1]>>
         /\ n \notin Vectors =>
              /\ layer[n].ndim >= 2
              /\ Dims(f, layer, n) = <<layer[n].dims[1], layer[n].dims[2]>>
              /\ n # "ssm_conv1d" => layer[n].dims[1] % 256 = 0
<1>1. n \in Names /\ n \in AllNames /\ layer[n] # Missing
  BY NeedsFacts DEF Accepted, Has
<1>2. /\ \A k \in 1 .. 4 : /\ layer[n].dims[k] \in Nat
                           /\ k > layer[n].ndim => layer[n].dims[k] = 0
      /\ layer[n].ndim \in 1 .. 3
  BY <1>1, WrittenFacts
<1>3. CASE f # "projection_pack"
  <2>1. Dims(f, layer, n) = Shape(5120)[n]
    BY <1>3 DEF Dims
  <2>2. \A k \in DOMAIN Shape(5120)[n] : layer[n].dims[k] = Shape(5120)[n][k]
    BY <1>3 DEF Accepted, ShapesAreRight
  <2>3. CASE n \in Vectors
    <3>1. PICK a \in Nat : Shape(5120)[n] = <<a>>
      BY <1>1, <2>3, ModelDims
    <3>2. layer[n].dims[1] = a
      BY <2>2, <3>1
    <3> QED BY <2>1, <2>3, <3>1, <3>2
  <2>4. CASE n \notin Vectors
    <3>1. PICK a \in Nat, b \in Nat :
            /\ Shape(5120)[n] = <<a, b>> /\ b # 0
            /\ n # "ssm_conv1d" => a % 256 = 0
      BY <1>1, <2>4, ModelDims
    <3>2. layer[n].dims[1] = a /\ layer[n].dims[2] = b
      BY <2>2, <3>1
    <3>3. layer[n].ndim >= 2
      BY <1>2, <3>1, <3>2
    <3> QED BY <2>1, <2>4, <3>1, <3>2, <3>3
  <2> QED BY <2>3, <2>4
<1>4. CASE f = "projection_pack"
  <2>1. n \in Projections /\ n # "ssm_conv1d"
    BY <1>4, NeedsFacts
  <2>2. /\ layer[n].dims[1] = layer.attn_norm.dims[1]
        /\ layer.ssm_beta.dims[2] = layer.ssm_alpha.dims[2]
        /\ layer.attn_norm.dims[1] % 256 = 0
    BY <1>4, <2>1 DEF Accepted, ShapesAreRight, DimensionsAreUsable
  <2>3. CASE n \in Vectors
    <3>1. n = "attn_norm"
      BY <2>1, <2>3, NeedsFacts DEF Vectors
    <3> QED BY <1>4, <2>3, <3>1 DEF Dims
  <2>4. CASE n \notin Vectors
    <3>1. n # "attn_norm"
      BY <2>4 DEF Vectors
    <3>2. layer[n].ndim >= 2
      BY <1>4, <2>1, <3>1, NeedsFacts DEF Accepted, RankIsRight
    <3>3. Dims(f, layer, n) = <<layer[n].dims[1], layer[n].dims[2]>>
      BY <1>4, <2>2, <3>1 DEF Dims
    <3> QED BY <2>2, <2>4, <3>2, <3>3
  <2> QED BY <2>3, <2>4
<1> QED BY <1>3, <1>4

LEMMA OneProduct ==
  /\ \A a \in Nat : Product(<<a>>) = a
  /\ \A a, b \in Nat : Product(<<a, b>>) = a * b
<1>1. ASSUME NEW a \in Nat
      PROVE  Product(<<a>>) = a
  <2>1. /\ Dimension(<<a>>, 1) = a /\ Dimension(<<a>>, 2) = 1
        /\ Dimension(<<a>>, 3) = 1 /\ Dimension(<<a>>, 4) = 1
    BY DEF Dimension
  <2> QED BY <2>1 DEF Product
<1>2. ASSUME NEW a \in Nat, NEW b \in Nat
      PROVE  Product(<<a, b>>) = a * b
  <2>1. /\ Dimension(<<a, b>>, 1) = a /\ Dimension(<<a, b>>, 2) = b
        /\ Dimension(<<a, b>>, 3) = 1 /\ Dimension(<<a, b>>, 4) = 1
    BY DEF Dimension
  <2>2. a * b \in Nat
    BY TimesNat
  <2>3. \A x \in Nat : x * 1 * 1 = x
    OBVIOUS
  <2> QED BY <2>1, <2>2, <2>3 DEF Product
<1> QED BY <1>1, <1>2

(* What is copied of an accepted tensor lies inside it, and the guards on  *)
(* the offsets let its planes through.                                     *)
LEMMA AcceptedCopies ==
  ASSUME NEW l \in Nat, NEW layer, NEW f \in Programs,
         \A n \in AllNames : Written(n, l, layer[n]), Accepted(f, layer),
         NEW n \in Needs[f]
  PROVE  /\ Copied(f, layer, n) <= layer[n].stored_bytes
         /\ InPlanes(n) =>
              /\ QhOffset(layer[n]) >= Blocks(f, layer, n) * 20
              /\ QsOffset(layer[n]) >= QhOffset(layer[n]) + Blocks(f, layer, n) * 32
              /\ layer[n].ndim = 2 =>
                   Copied(f, layer, n) = layer[n].stored_bytes
         /\ layer[n].layout = "SM86_Q5K_SOA" => InPlanes(n)
<1> DEFINE t == layer[n]
<1>1. /\ n \in Names /\ n \in AllNames /\ t # Missing /\ Written(n, l, t)
      /\ n \in DOMAIN Kernels \/ n \in Plain
  BY NeedsFacts DEF Accepted, Has
<1>2. /\ \A k \in 1 .. 4 : t.dims[k] \in Nat
      /\ t.stored_bytes \in Nat
  BY <1>1, WrittenFacts
<1>3. /\ n \in Vectors => Dims(f, layer, n) = <<t.dims[1]>>
      /\ n \notin Vectors =>
           /\ t.ndim >= 2
           /\ Dims(f, layer, n) = <<t.dims[1], t.dims[2]>>
           /\ n # "ssm_conv1d" => t.dims[1] % 256 = 0
  BY AcceptedDims
<1>4. /\ t.type = Type[n]
      /\ t.layout = IF InPlanes(n) THEN "SM86_Q5K_SOA" ELSE "GGUF_NATIVE"
  <2>1. CASE n \in Plain
    <3>1. t.type = "F32" /\ t.layout = "GGUF_NATIVE"
      BY <2>1 DEF Accepted, KernelsAreRight
    <3> QED BY <2>1, <3>1, TypeFacts
  <2>2. CASE n \notin Plain
    <3>1. n \in DOMAIN Kernels /\ select_projection_kernel(t) = Kernels[n]
      BY <1>1, <2>2 DEF Accepted, KernelsAreRight
    <3> QED BY <3>1, KernelFacts
  <2> QED BY <2>1, <2>2
<1> HIDE DEF t
<1>5. CASE t.type = "F32"
  <2>1. n \in Vectors \cup {"ssm_conv1d"} /\ ~InPlanes(n)
    BY <1>1, <1>4, <1>5, TypeFacts
  <2>2. Copied(f, layer, n) = Product(Dims(f, layer, n)) * 4
    BY <1>4, <1>5, <2>1 DEF Copied
  <2>3. CASE n \in Vectors
    <3>1. Product(Dims(f, layer, n)) = t.dims[1]
      BY <1>2, <1>3, <2>3, OneProduct
    <3>2. t.dims[1] * 4 <= t.stored_bytes
      BY <1>1, <1>5, <2>3, FloatFacts
    <3> QED BY <1>4, <2>1, <2>2, <3>1, <3>2 DEF t
  <2>4. CASE n \notin Vectors
    <3>1. Product(Dims(f, layer, n)) = t.dims[1] * t.dims[2]
      BY <1>2, <1>3, <2>4, OneProduct
    <3>2. (t.dims[1] * t.dims[2]) * 4 <= t.stored_bytes
      BY <1>1, <1>3, <1>5, <2>4, FloatFacts
    <3> QED BY <1>4, <2>1, <2>2, <3>1, <3>2 DEF t
  <2> QED BY <2>3, <2>4
<1>6. CASE t.type # "F32"
  <2>1. n \notin Vectors /\ n # "ssm_conv1d"
    BY <1>1, <1>4, <1>6, TypeFacts
  <2>2. Blocks(f, layer, n) = MatrixBlocks(t)
    BY <1>3, <2>1 DEF Blocks, MatrixBlocks
  <2>3. /\ MatrixBlocks(t) \in Nat
        /\ t.layout = "SM86_Q5K_SOA" =>
              /\ QhOffset(t) \in Nat /\ QsOffset(t) \in Nat
              /\ PlanesFit(t)
              /\ QsOffset(t) + MatrixBlocks(t) * 128 <= t.stored_bytes
              /\ t.ndim = 2 /\ t.dims[1] % 256 = 0 =>
                   QsOffset(t) + MatrixBlocks(t) * 128 = t.stored_bytes
        /\ t.layout = "GGUF_NATIVE" =>
              MatrixBlocks(t) * Bytes[t.type] <= t.stored_bytes
    BY <1>1, <1>3, <1>6, <2>1, MatrixFacts
  <2>4. CASE InPlanes(n)
    <3>1. Copied(f, layer, n) = QsOffset(t) + MatrixBlocks(t) * 128
      BY <2>2, <2>4 DEF Copied, t
    <3> QED BY <1>3, <1>4, <2>1, <2>2, <2>3, <2>4, <3>1 DEF t, PlanesFit
  <2>5. CASE ~InPlanes(n)
    <3>1. Copied(f, layer, n) = MatrixBlocks(t) * Bytes[t.type]
      BY <1>4, <1>6, <2>2, <2>5 DEF Copied, t
    <3> QED BY <1>4, <2>3, <2>5, <3>1 DEF t
  <2> QED BY <2>4, <2>5
<1> QED BY <1>5, <1>6

-----------------------------------------------------------------------------
(* A call of the runtime.                                                  *)
LEMMA OutcomeFacts ==
  ASSUME NEW l \in Nat, NEW layer, NEW f \in Programs, NEW driver,
         \A n \in AllNames : Written(n, l, layer[n])
  PROVE  /\ Outcome(f, layer, driver) # "invalid offsets"
         /\ Outcome(f, layer, driver) = "runs" => Accepted(f, layer)
         /\ Accepted(f, layer) => OffsetsAreRight(f, layer)
<1>1. ASSUME Accepted(f, layer)
      PROVE  OffsetsAreRight(f, layer)
  BY <1>1, AcceptedCopies DEF OffsetsAreRight
<1>2. Outcome(f, layer, driver) = "runs" => Accepted(f, layer)
  BY DEF Outcome, Accepted
<1>3. Outcome(f, layer, driver) = "invalid offsets" =>
        Accepted(f, layer) /\ ~OffsetsAreRight(f, layer)
  BY DEF Outcome, Accepted
<1> QED BY <1>1, <1>2, <1>3

LEMMA CallReads ==
  ASSUME PackOK, NEW l \in Layers, NEW f \in Programs,
         NEW driver, Call(f, l, driver)
  PROVE  ReadsAreExact'
<1>1. /\ l \in Nat /\ \A n \in AllNames : Written(n, l, pack[l][n])
      /\ pack' = pack
  BY ConstantsAssumption DEF PackOK, Call
<1>2. /\ last'.program = f /\ last'.layer = l
      /\ last'.outcome = Outcome(f, pack[l], driver)
      /\ last'.copies = IF Outcome(f, pack[l], driver) = "runs"
                        THEN [n \in Needs[f] |-> Copied(f, pack[l], n)]
                        ELSE << >>
  BY DEF Call
<1>3. last'.outcome # "invalid offsets"
  BY <1>1, <1>2, OutcomeFacts
<1>4. ASSUME NEW n \in DOMAIN last'.copies
      PROVE  LET t == pack[l][n] IN
               /\ last'.copies[n] <= t.stored_bytes
               /\ InPlanes(n) /\ t.ndim = 2 => last'.copies[n] = t.stored_bytes
               /\ t.layout = "SM86_Q5K_SOA" /\ t.ndim = 2 =>
                    last'.copies[n] = t.stored_bytes
  <2>1. Outcome(f, pack[l], driver) = "runs" /\ n \in Needs[f]
    <3>1. DOMAIN << >> = {}
      OBVIOUS
    <3> QED BY <1>2, <1>4, <3>1
  <2>2. last'.copies[n] = Copied(f, pack[l], n)
    BY <1>2, <2>1
  <2>3. Accepted(f, pack[l])
    BY <1>1, <2>1, OutcomeFacts
  <2> QED BY <1>1, <2>1, <2>2, <2>3, AcceptedCopies
<1>5. f # "none" /\ f \notin Smokes
  BY NeedsFacts DEF Smokes
<1> QED BY <1>1, <1>2, <1>3, <1>4 DEF ReadsAreExact, CopiesAreExact, LayoutIsRead

(* READY is what the call for a recurrent layer accepts but for its shapes:*)
(* the two tables name the same tensors, kernels and types, and an         *)
(* accepted shape implies that the offsets fit.                            *)
LEMMA CallReady ==
  ASSUME PackOK, NEW l \in Layers, NEW f \in Programs,
         NEW driver, Call(f, l, driver)
  PROVE  ReadyMeansDispatched'
<1> DEFINE layer == pack[l]
<1>1. /\ l \in Nat /\ \A n \in AllNames : Written(n, l, layer[n])
      /\ pack' = pack
  BY ConstantsAssumption DEF PackOK, Call
<1>2. /\ last'.program = f /\ last'.layer = l /\ last'.driver = driver
      /\ last'.outcome = Outcome(f, layer, driver)
  BY DEF Call
<1>3. ASSUME f = "recurrent_layer", driver = "sm_86"
      PROVE  Outcome(f, layer, driver) \in {"runs", "shape mismatch"}
               <=> Verdict(layer) = "READY"
  <2>1. /\ Needs[f] = Names /\ Names = DOMAIN Kernels \cup Plain
        /\ Plain \cap DOMAIN Kernels = {}
    BY <1>3, NeedsFacts
  <2>2. recurrent_ready(layer) <=>
          (\A n \in Needs[f] : Has(layer, n)) /\ KernelsAreRight(f, layer)
    <3>1. Needs[f] \ Plain = DOMAIN Kernels /\ Needs[f] \cap Plain = Plain
      BY <2>1
    <3> QED BY <2>1, <3>1 DEF recurrent_ready, KernelsAreRight
  <2>3. DimensionsAreUsable(f, layer)
    BY <1>3 DEF DimensionsAreUsable
  <2>4. /\ \A n \in Needs[f] : Has(layer, n)
        /\ KernelsAreRight(f, layer)
        /\ RankIsRight(f, layer) /\ ShapesAreRight(f, layer)
        => OffsetsAreRight(f, layer)
    BY <1>1, <2>3, OutcomeFacts DEF Accepted
  <2>5. Kind(layer) # "READY"
    BY DEF Kind
  <2> HIDE DEF layer
  <2> QED BY <1>3, <2>2, <2>3, <2>4, <2>5 DEF Outcome, Verdict
<1> QED BY <1>1, <1>2, <1>3 DEF ReadyMeansDispatched

(* What the whole of layer 0 needs, every part of it needs.                *)
LEMMA Nested ==
  ASSUME NEW l \in Nat, NEW layer, NEW f \in Programs, NEW driver,
         \A n \in AllNames : Written(n, l, layer[n]),
         Outcome("layer0_full", layer, driver) = "runs",
         Ranked[f] = {} \/ layer.attn_norm.ndim = 1
  PROVE  Outcome(f, layer, driver) = "runs"
<1> DEFINE full == "layer0_full"
<1>1. /\ driver = "sm_86" /\ Accepted(full, layer)
  <2>1. full \in Programs
    BY NeedsFacts
  <2> QED BY <2>1, OutcomeFacts DEF Outcome
<1>2. Needs[f] \subseteq Needs[full] /\ Needs[full] = Names
  BY NeedsFacts
<1>3. \A n \in Needs[f] : Has(layer, n)
  BY <1>1, <1>2 DEF Accepted
<1>4. KernelsAreRight(f, layer)
  BY <1>1, <1>2 DEF Accepted, KernelsAreRight
<1>5. \A n \in Names : \A k \in DOMAIN Shape(5120)[n] :
        layer[n].dims[k] = Shape(5120)[n][k]
  BY <1>1, <1>2 DEF Accepted, ShapesAreRight
<1>6. ASSUME NEW n \in Names \ Vectors
      PROVE  layer[n].ndim >= 2 /\ layer[n].dims[2] # 0
  <2>1. PICK a \in Nat, b \in Nat : Shape(5120)[n] = <<a, b>> /\ b # 0
    BY ModelDims
  <2>2. layer[n].dims[2] = b
    BY <1>5, <2>1
  <2>3. n \in AllNames /\ layer[n] # Missing
    BY <1>1, <1>2, NeedsFacts DEF Accepted, Has
  <2>4. layer[n].ndim \in 1 .. 3 /\ (2 > layer[n].ndim => layer[n].dims[2] = 0)
    BY <2>3, WrittenFacts
  <2> QED BY <2>1, <2>2, <2>4
<1>7. RankIsRight(f, layer)
  <2>1. ASSUME NEW n \in Ranked[f], n # "attn_norm"
        PROVE  n \in Names \ Vectors
    BY <2>1, NeedsFacts, NamesAre DEF Ranked, Projections, Vectors
  <2>2. \A n \in Ranked[f] : n = "attn_norm" => layer[n].ndim = 1
    OBVIOUS
  <2> QED BY <1>6, <2>1, <2>2 DEF RankIsRight
<1>8. /\ layer.attn_norm.dims[1] = 5120 /\ layer.attn_qkv.dims[1] = 5120
      /\ layer.attn_gate.dims[1] = 5120 /\ layer.ssm_beta.dims[1] = 5120
      /\ layer.ssm_alpha.dims[1] = 5120
      /\ layer.ssm_beta.dims[2] = 48 /\ layer.ssm_alpha.dims[2] = 48
  BY <1>5, NamesAre DEF Shape
<1>9. ShapesAreRight(f, layer) /\ DimensionsAreUsable(f, layer)
  <2>1. CASE f = "projection_pack"
    <3>1. ShapesAreRight(f, layer)
      BY <1>8, <2>1 DEF ShapesAreRight, Projections
    <3>2. 5120 % 256 = 0
      OBVIOUS
    <3>3. \A n \in Projections \ {"attn_norm"} : layer[n].dims[2] # 0
      BY <1>6, NeedsFacts, NamesAre DEF Vectors
    <3> QED BY <1>8, <3>1, <3>2, <3>3 DEF DimensionsAreUsable
  <2>2. CASE f # "projection_pack"
    BY <1>2, <1>5, <2>2 DEF ShapesAreRight, DimensionsAreUsable
  <2> QED BY <2>1, <2>2
<1>10. OffsetsAreRight(f, layer)
  BY <1>3, <1>4, <1>7, <1>9, OutcomeFacts DEF Accepted
<1>11. f = "recurrent_layer" => Kind(layer) = "RECURRENT"
  <2>1. Has(layer, "ssm_conv1d")
    BY <1>1, <1>2, NamesAre DEF Accepted
  <2> QED BY <2>1 DEF Kind
<1> QED BY <1>1, <1>3, <1>4, <1>7, <1>9, <1>10, <1>11 DEF Outcome

LEMMA CallNests ==
  ASSUME PackOK, NEW l \in Layers, NEW f \in Programs,
         NEW driver, Call(f, l, driver)
  PROVE  StagesNest'
<1>1. /\ \A n \in AllNames : Written(n, l, pack[l][n])
      /\ pack' = pack /\ l \in Nat
  BY ConstantsAssumption DEF PackOK, Call
<1>2. /\ last'.program = f /\ last'.driver = driver
      /\ last'.outcome = Outcome(f, pack[l], driver)
      /\ f # "recurrent_layer" => l = 0
  BY DEF Call
<1>3. ASSUME f = "layer0_full", Outcome(f, pack[l], driver) = "runs",
             NEW g \in Programs, ~(Ranked[g] # {} /\ pack[0].attn_norm.ndim # 1)
      PROVE  Outcome(g, pack[0], driver) = "runs"
  <2>1. l = 0
    BY <1>2, <1>3
  <2> QED BY <1>1, <1>3, <2>1, Nested
<1> QED BY <1>1, <1>2, <1>3 DEF StagesNest

-----------------------------------------------------------------------------
(* A program on one tensor.                                                *)
LEMMA ToolFacts ==
  ASSUME NEW tool \in DOMAIN Takes, NEW n, NEW l \in Nat, NEW t,
         t = Missing \/ Written(n, l, t), NEW driver
  PROVE  /\ ToolOutcome(tool, t, driver) # "invalid offsets"
         /\ ToolOutcome(tool, t, driver) = "runs" =>
              /\ BytesRead(tool, t) <= t.stored_bytes
              /\ t.layout = "SM86_Q5K_SOA" /\ tool # "q5k_smoke" =>
                   /\ tool = "q5k_sm86_gemv"
                   /\ t.ndim = 2 => BytesRead(tool, t) = t.stored_bytes
<1>1. CASE Objection(tool, t) # "none"
  BY <1>1 DEF Objection, ToolOutcome
<1>2. CASE Objection(tool, t) = "none"
  <2>1. t # Missing /\ Written(n, l, t) /\ RightKind(tool, t)
    BY <1>2 DEF Objection
  <2>2. /\ t.type = Takes[tool] /\ t.type # "F32"
        /\ t.layout = "GGUF_NATIVE" \/ tool \in AnyLayout
    BY <2>1 DEF RightKind, Takes
  <2>3. /\ \A k \in 1 .. 4 : t.dims[k] \in Nat
        /\ t.layout \in {"SM86_Q5K_SOA", "GGUF_NATIVE"}
        /\ t.layout = "SM86_Q5K_SOA" => t.type = "Q5_K"
        /\ t.stored_bytes \in Nat /\ t.type \in Types
    BY <2>1, WrittenFacts
  <2>4. t.layout = "SM86_Q5K_SOA" => tool \in {"q5k_smoke", "q5k_sm86_gemv"}
    BY <2>2, <2>3 DEF AnyLayout, Takes
  <2>5. CASE tool \in Smokes
    <3>1. ~(t.stored_bytes < Bytes[t.type]) /\ Bytes[t.type] \in Nat
      BY <1>2, <2>1, <2>3, <2>5, Tables DEF Objection
    <3>2. BytesRead(tool, t) = Bytes[t.type]
      BY <2>2, <2>5 DEF BytesRead
    <3>3. ~Persisted(tool, t)
      BY <2>5 DEF Persisted, Smokes
    <3>4. t.layout = "SM86_Q5K_SOA" => tool = "q5k_smoke"
      BY <2>4, <2>5 DEF Smokes
    <3> QED BY <1>2, <2>3, <3>1, <3>2, <3>3, <3>4 DEF ToolOutcome
  <2>6. CASE tool \notin Smokes
    <3>1. IsMatrix(t)
      BY <1>2, <2>1, <2>6 DEF Objection
    <3>2. /\ MatrixBlocks(t) \in Nat
          /\ t.layout = "SM86_Q5K_SOA" =>
                /\ PlanesFit(t)
                /\ QsOffset(t) + MatrixBlocks(t) * 128 <= t.stored_bytes
                /\ t.ndim = 2 /\ t.dims[1] % 256 = 0 =>
                     QsOffset(t) + MatrixBlocks(t) * 128 = t.stored_bytes
          /\ t.layout = "GGUF_NATIVE" =>
                MatrixBlocks(t) * Bytes[t.type] <= t.stored_bytes
      BY <2>1, <2>2, <3>1, MatrixFacts DEF IsMatrix
    <3>3. CASE Persisted(tool, t)
      <4>1. tool = "q5k_sm86_gemv" /\ t.layout = "SM86_Q5K_SOA"
        BY <3>3 DEF Persisted
      <4>2. BytesRead(tool, t) = QsOffset(t) + MatrixBlocks(t) * 128
        BY <2>6, <3>3 DEF BytesRead
      <4>3. ToolOutcome(tool, t, driver) = "runs" => t.dims[1] % 256 = 0
        BY <1>2, <2>6 DEF ToolOutcome, InBlocks
      <4> QED BY <1>2, <3>2, <4>1, <4>2, <4>3 DEF ToolOutcome
    <3>4. CASE ~Persisted(tool, t)
      <4>1. t.layout = "GGUF_NATIVE"
        BY <2>3, <2>4, <2>6, <3>4 DEF Persisted, Smokes
      <4>2. BytesRead(tool, t) = MatrixBlocks(t) * Bytes[t.type]
        BY <2>2, <2>6, <3>4 DEF BytesRead
      <4> QED BY <1>2, <3>2, <3>4, <4>1, <4>2 DEF ToolOutcome
    <3> QED BY <3>3, <3>4
  <2> QED BY <2>5, <2>6
<1> QED BY <1>1, <1>2

LEMMA OnTensorReads ==
  ASSUME PackOK, NEW tool \in DOMAIN Takes,
         NEW l \in Layers, NEW name \in AllNames, NEW driver,
         OnTensor(tool, l, name, driver)
  PROVE  ReadsAreExact'
<1> DEFINE t == pack[l][name]
<1>1. l \in Nat /\ (t = Missing \/ Written(name, l, t)) /\ pack' = pack
  BY ConstantsAssumption DEF PackOK, OnTensor, Report
<1>2. /\ last'.program = tool /\ last'.layer = l
      /\ last'.outcome = ToolOutcome(tool, t, driver)
      /\ last'.copies = IF ToolOutcome(tool, t, driver) = "runs"
                        THEN [n \in {name} |-> BytesRead(tool, t)] ELSE << >>
  BY DEF OnTensor, Report
<1>3. tool \notin Programs
  BY NeedsFacts DEF Takes
<1>4. DOMAIN << >> = {}
  OBVIOUS
<1>5. ASSUME NEW n \in DOMAIN last'.copies
      PROVE  /\ n = name /\ ToolOutcome(tool, t, driver) = "runs"
             /\ last'.copies[n] = BytesRead(tool, t)
  BY <1>2, <1>4, <1>5
<1>6. /\ ToolOutcome(tool, t, driver) # "invalid offsets"
      /\ ToolOutcome(tool, t, driver) = "runs" =>
           /\ BytesRead(tool, t) <= t.stored_bytes
           /\ t.layout = "SM86_Q5K_SOA" /\ tool # "q5k_smoke" =>
                /\ tool = "q5k_sm86_gemv"
                /\ t.ndim = 2 => BytesRead(tool, t) = t.stored_bytes
  BY <1>1, ToolFacts
<1> QED BY <1>1, <1>2, <1>3, <1>5, <1>6 DEF ReadsAreExact, CopiesAreExact, LayoutIsRead

(* The gate of layer 0.                                                    *)
LEMMA GateReads ==
  ASSUME PackOK, NEW driver, Gate(driver)
  PROVE  ReadsAreExact'
<1> DEFINE norm == pack[0].attn_norm
           gate == pack[0].attn_gate
           outcome == GateOutcome(norm, gate, driver)
<1>1. /\ norm = Missing \/ Written("attn_norm", 0, norm)
      /\ gate = Missing \/ Written("attn_gate", 0, gate)
  BY ConstantsAssumption, NamesAre, NeedsFacts DEF PackOK
<1>2. /\ last'.program = "layer0_gate" /\ last'.layer = 0
      /\ last'.outcome = outcome /\ pack' = pack
      /\ last'.copies = IF outcome = "runs"
                        THEN [attn_norm |-> gate.dims[1] * 4,
                              attn_gate |-> QsOffset(gate) + MatrixBlocks(gate) * 128]
                        ELSE << >>
  BY DEF Gate, Report
<1>3. ASSUME outcome \in {"invalid offsets", "runs"}
      PROVE  /\ gate # Missing /\ norm # Missing
             /\ norm.layout = "GGUF_NATIVE"
             /\ gate.type = "Q5_K" /\ gate.layout = "SM86_Q5K_SOA"
             /\ gate.ndim >= 2 /\ gate.dims[1] % 256 = 0
             /\ ~(norm.stored_bytes < gate.dims[1] * 4)
             /\ outcome = "invalid offsets" => ~PlanesFit(gate)
  <2> HIDE DEF norm, gate
  <2> QED BY <1>3 DEF GateOutcome, IsMatrix, InBlocks
<1>4. ASSUME outcome \in {"invalid offsets", "runs"}
      PROVE  /\ PlanesFit(gate)
             /\ QsOffset(gate) + MatrixBlocks(gate) * 128 <= gate.stored_bytes
             /\ gate.ndim = 2 =>
                  QsOffset(gate) + MatrixBlocks(gate) * 128 = gate.stored_bytes
  BY <1>1, <1>3, <1>4, MatrixFacts
<1>5. ASSUME outcome = "runs"
      PROVE  gate.dims[1] * 4 <= norm.stored_bytes
  <2>1. norm.stored_bytes \in Nat /\ gate.dims[1] \in Nat
    BY <1>1, <1>3, <1>5, WrittenFacts
  <2> QED BY <1>3, <1>5, <2>1
<1>6. "layer0_gate" \notin Programs
  BY NeedsFacts
<1> HIDE DEF outcome, norm, gate
<1>7. DOMAIN << >> = {}
  OBVIOUS
<1>8. ASSUME NEW n \in DOMAIN last'.copies
      PROVE  /\ outcome = "runs"
             /\ \/ /\ n = "attn_norm" /\ last'.copies[n] = gate.dims[1] * 4
                \/ /\ n = "attn_gate"
                   /\ last'.copies[n] = QsOffset(gate) + MatrixBlocks(gate) * 128
  BY <1>2, <1>7, <1>8
<1>9. ASSUME NEW n \in DOMAIN last'.copies
      PROVE  LET t == pack[0][n] IN
               /\ last'.copies[n] <= t.stored_bytes
               /\ t.layout = "SM86_Q5K_SOA" /\ t.ndim = 2 =>
                    last'.copies[n] = t.stored_bytes
  <2>1. CASE n = "attn_norm"
    BY <1>3, <1>5, <1>8, <1>9, <2>1 DEF norm
  <2>2. CASE n = "attn_gate"
    BY <1>4, <1>8, <1>9, <2>2 DEF gate
  <2> QED BY <1>8, <1>9, <2>1, <2>2
<1>10. outcome # "invalid offsets"
  BY <1>3, <1>4
<1> QED BY <1>2, <1>6, <1>9, <1>10 DEF ReadsAreExact, CopiesAreExact, LayoutIsRead

(* The preparation of the recurrent layer.                                 *)
LEMMA PrepReads ==
  ASSUME PackOK, NEW driver, Prep(driver)
  PROVE  ReadsAreExact'
<1> DEFINE conv == pack[0].ssm_conv1d
           dt   == pack[0].ssm_dt
           a    == pack[0].ssm_a
           outcome == PrepOutcome(conv, dt, a, driver)
<1>1. /\ conv = Missing \/ Written("ssm_conv1d", 0, conv)
      /\ dt = Missing \/ Written("ssm_dt", 0, dt)
      /\ a = Missing \/ Written("ssm_a", 0, a)
  BY ConstantsAssumption, NamesAre, NeedsFacts DEF PackOK
<1>2. /\ last'.program = "recurrent_prep" /\ last'.layer = 0
      /\ last'.outcome = outcome /\ pack' = pack
      /\ last'.copies = IF outcome = "runs"
                        THEN [ssm_conv1d |-> 10240 * 4 * 4, ssm_dt |-> 48 * 4,
                              ssm_a |-> 48 * 4]
                        ELSE << >>
  BY DEF Prep, Report
<1>3. outcome # "invalid offsets"
  BY DEF PrepOutcome
<1>4. ASSUME outcome = "runs"
      PROVE  /\ Missing \notin {conv, dt, a}
             /\ conv.type = "F32" /\ dt.type = "F32" /\ a.type = "F32"
             /\ conv.ndim >= 2 /\ conv.dims[1] = 4 /\ conv.dims[2] = 10240
             /\ dt.dims[1] = 48 /\ a.dims[1] = 48
  <2> HIDE DEF conv, dt, a
  <2>1. {conv.type, dt.type, a.type} = {"F32"}
    BY <1>4 DEF PrepOutcome
  <2>2. conv.type = "F32" /\ dt.type = "F32" /\ a.type = "F32"
    BY <2>1
  <2> QED BY <1>4, <2>2 DEF PrepOutcome
<1>5. ASSUME outcome = "runs"
      PROVE  /\ conv.layout = "GGUF_NATIVE" /\ 10240 * 4 * 4 <= conv.stored_bytes
             /\ dt.layout = "GGUF_NATIVE" /\ 48 * 4 <= dt.stored_bytes
             /\ a.layout = "GGUF_NATIVE" /\ 48 * 4 <= a.stored_bytes
  <2>1. conv.layout = "GGUF_NATIVE" /\ (conv.dims[1] * conv.dims[2]) * 4 <= conv.stored_bytes
    <3>1. /\ Written("ssm_conv1d", 0, conv) /\ conv # Missing
          /\ conv.type = "F32" /\ conv.ndim >= 2
      BY <1>1, <1>4, <1>5
    <3> HIDE DEF conv
    <3> QED BY <3>1, FloatFacts
  <2>2. dt.layout = "GGUF_NATIVE" /\ dt.dims[1] * 4 <= dt.stored_bytes
    BY <1>1, <1>4, <1>5, FloatFacts DEF Vectors
  <2>3. a.layout = "GGUF_NATIVE" /\ a.dims[1] * 4 <= a.stored_bytes
    BY <1>1, <1>4, <1>5, FloatFacts DEF Vectors
  <2> QED BY <1>4, <1>5, <2>1, <2>2, <2>3
<1>6. "recurrent_prep" \notin Programs
  BY NeedsFacts
<1> HIDE DEF outcome, conv, dt, a
<1>7. DOMAIN << >> = {}
  OBVIOUS
<1>8. ASSUME NEW n \in DOMAIN last'.copies
      PROVE  /\ pack[0][n].layout = "GGUF_NATIVE"
             /\ last'.copies[n] <= pack[0][n].stored_bytes
  <2>1. /\ outcome = "runs"
        /\ \/ n = "ssm_conv1d" /\ last'.copies[n] = 10240 * 4 * 4
           \/ n = "ssm_dt" /\ last'.copies[n] = 48 * 4
           \/ n = "ssm_a" /\ last'.copies[n] = 48 * 4
    BY <1>2, <1>7, <1>8
  <2> QED BY <1>5, <2>1 DEF conv, dt, a
<1> QED BY <1>2, <1>3, <1>6, <1>8 DEF ReadsAreExact, CopiesAreExact, LayoutIsRead

-----------------------------------------------------------------------------
Safe == ReadsAreExact /\ ReadyMeansDispatched /\ StagesNest

IInv == PackOK /\ Safe

LEMMA InitIInv ==
  ASSUME Init
  PROVE  IInv
<1>1. PICK w \in Widths, v \in Versions :
        \E s \in Sources(w) : pack = [l \in Layers |-> Converted(l, s, v)]
  BY DEF Init
<1> PICK s \in Sources(w) : pack = [l \in Layers |-> Converted(l, s, v)]
  BY <1>1
<1>2. SourceOK(s) /\ v \in Nat
  BY ConstantsAssumption, SourcesAreOK
<1>3. ASSUME NEW l \in Layers, NEW n \in AllNames
      PROVE  Written(n, l, pack[l][n])
  <2>1. pack[l][n] = IF s[n] = Missing THEN Missing
                     ELSE Record(l, s[n].type, s[n].dims, v)
    BY DEF Converted
  <2>2. CASE s[n] = Missing BY <2>1, <2>2 DEF Written
  <2>3. CASE s[n] # Missing
    <3>1. s[n].type \in Types /\ DimsOK(s[n].dims, Rank(n))
      BY <1>2, <2>3 DEF SourceOK
    <3>2. s[n].dims \in Seq(Nat)
      BY <3>1 DEF DimsOK
    <3> QED BY <1>2, <2>1, <2>3, <3>1, <3>2 DEF Written
  <2> QED BY <2>2, <2>3
<1>4. /\ last.program = "none" /\ last.outcome = "none" /\ last.copies = << >>
  BY DEF Init, NoCall
<1>5. Safe
  <2>1. DOMAIN << >> = {} /\ "none" \notin Programs
    BY NeedsFacts
  <2> QED BY <1>4, <2>1
        DEF Safe, ReadsAreExact, CopiesAreExact, LayoutIsRead,
            ReadyMeansDispatched, StagesNest
<1> QED BY <1>3, <1>5 DEF IInv, PackOK

LEMMA NoDomain == DOMAIN << >> = {}
OBVIOUS

(* A report that copies nothing, and is not of a call of the runtime.      *)
LEMMA NothingCopied ==
  ASSUME last'.copies = << >>, last'.program \notin Programs,
         last'.outcome # "invalid offsets"
  PROVE  Safe'
<1>1. DOMAIN << >> = {}
  BY NoDomain
<1>2. last'.program # "recurrent_layer" /\ last'.program # "layer0_full"
  BY NeedsFacts
<1> QED BY <1>1, <1>2
      DEF Safe, ReadsAreExact, CopiesAreExact, LayoutIsRead,
          ReadyMeansDispatched, StagesNest

LEMMA ToolSafe ==
  ASSUME ReadsAreExact', last'.program \notin Programs
  PROVE  Safe'
BY NeedsFacts DEF Safe, ReadyMeansDispatched, StagesNest

LEMMA StepSafe ==
  ASSUME IInv, ToolNext
  PROVE  IInv'
<1>1. ASSUME NEW l \in Layers, Topology(l)
      PROVE  Safe'
  <2>1. /\ last'.program = "layer_topology" /\ last'.copies = << >>
        /\ last'.outcome = Verdict(pack[l])
    BY <1>1 DEF Topology, NoCall
  <2>2. Verdict(pack[l]) # "invalid offsets"
    BY DEF Verdict, Kind
  <2>3. "layer_topology" \notin Programs
    BY NeedsFacts
  <2> QED BY <2>1, <2>2, <2>3, NothingCopied
<1>2. ASSUME NEW l \in Layers, NEW f \in Programs, NEW driver, Call(f, l, driver)
      PROVE  Safe'
  BY <1>2, CallReads, CallReady, CallNests DEF IInv, Safe
<1>3. ASSUME NEW driver, Gate(driver)
      PROVE  Safe'
  <2>1. last'.program = "layer0_gate"
    BY <1>3 DEF Gate, Report
  <2> QED BY <1>3, <2>1, GateReads, ToolSafe, NeedsFacts DEF IInv
<1>4. ASSUME NEW driver, Prep(driver)
      PROVE  Safe'
  <2>1. last'.program = "recurrent_prep"
    BY <1>4 DEF Prep, Report
  <2> QED BY <1>4, <2>1, PrepReads, ToolSafe, NeedsFacts DEF IInv
<1>5. ASSUME NEW tool \in DOMAIN Takes, NEW l \in Layers, NothingFound(tool, l)
      PROVE  Safe'
  <2>1. /\ last'.program = tool /\ last'.copies = << >>
        /\ last'.outcome = "missing tensor"
    BY <1>5 DEF NothingFound, Report
  <2>2. tool \notin Programs
    BY NeedsFacts DEF Takes
  <2> QED BY <2>1, <2>2, NothingCopied
<1>6. ASSUME NEW tool \in DOMAIN Takes, NEW l \in Layers, NEW name \in AllNames,
             NEW driver, OnTensor(tool, l, name, driver)
      PROVE  Safe'
  <2>1. last'.program = tool
    BY <1>6 DEF OnTensor, Report
  <2>2. tool \notin Programs
    BY NeedsFacts DEF Takes
  <2> QED BY <1>6, <2>1, <2>2, OnTensorReads, ToolSafe DEF IInv
<1>7. ASSUME Exit
      PROVE  Safe'
  <2>1. /\ last'.program = "none" /\ last'.copies = << >>
        /\ last'.outcome = "none"
    BY <1>7 DEF Exit, NoCall
  <2>2. "none" \notin Programs
    BY NeedsFacts
  <2> QED BY <2>1, <2>2, NothingCopied
<1>8. Safe'
  <2>1. CASE Next BY <1>1, <1>2, <2>1 DEF Next
  <2>2. CASE ToolCall BY <1>3, <1>4, <1>5, <1>6, <2>2 DEF ToolCall
  <2> QED BY <1>7, <2>1, <2>2 DEF ToolNext
<1>9. pack' = pack
  <2>1. Next => pack' = pack
    BY DEF Next, Topology, Call
  <2>2. ToolCall => pack' = pack
    <3>1. \A d : (Gate(d) => pack' = pack) /\ (Prep(d) => pack' = pack)
      BY DEF Gate, Prep, Report
    <3>2. \A tool, l : NothingFound(tool, l) => pack' = pack
      BY DEF NothingFound, Report
    <3>3. \A tool, l, n, d : OnTensor(tool, l, n, d) => pack' = pack
      BY DEF OnTensor, Report
    <3> QED BY <3>1, <3>2, <3>3 DEF ToolCall
  <2> QED BY <2>1, <2>2 DEF ToolNext, Exit
<1> QED BY <1>8, <1>9 DEF IInv, PackOK

LEMMA StutterSafe ==
  ASSUME IInv, UNCHANGED vars
  PROVE  IInv'
<1>1. pack' = pack /\ last' = last
  BY DEF vars
<1>2. PackOK'
  BY <1>1 DEF IInv, PackOK
<1>3. Safe'
  BY <1>1 DEF IInv, Safe, ReadsAreExact, CopiesAreExact, LayoutIsRead,
      ReadyMeansDispatched, StagesNest
<1> QED BY <1>2, <1>3 DEF IInv

LEMMA AlwaysIInv == ToolSpec => []IInv
<1>1. Init => IInv
  BY InitIInv
<1>2. IInv /\ [ToolNext]_vars => IInv'
  BY StepSafe, StutterSafe
<1> QED BY <1>1, <1>2, PTL DEF ToolSpec

(* No program, whatever the tensors of the pack, reads past the end of one *)
(* of them, takes planes for blocks, or finds the planes the converter     *)
(* wrote where it did not expect them.                                     *)
THEOREM ReadsStayInside == ToolSpec => []ReadsAreExact
<1>1. IInv => ReadsAreExact
  BY DEF IInv, Safe
<1> QED BY <1>1, AlwaysIInv, PTL

(* The topology program and the runtime agree on which layers are ready.   *)
THEOREM TopologyAgrees == ToolSpec => []ReadyMeansDispatched
<1>1. IInv => ReadyMeansDispatched
  BY DEF IInv, Safe
<1> QED BY <1>1, AlwaysIInv, PTL

(* Where the whole of layer 0 runs, each of its stages runs.               *)
THEOREM StagesAlwaysNest == ToolSpec => []StagesNest
<1>1. IInv => StagesNest
  BY DEF IInv, Safe
<1> QED BY <1>1, AlwaysIInv, PTL
=============================================================================
