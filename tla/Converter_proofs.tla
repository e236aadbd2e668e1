-------------------------- MODULE Converter_proofs --------------------------
(***************************************************************************)
(* What a conversion leaves at its destination (tools/gguf_to_q38pack.py,  *)
(* convert), for any models, number of converters, files and power losses. *)
(*                                                                         *)
(* 1. The layout: where each tensor's planes and metadata go, that they    *)
(*    rise through the file, stay aligned and inside it.                   *)
(* 2. The writes: every cell of the finished file is the one that belongs  *)
(*    there, whichever write put it there, so the file decodes to its      *)
(*    model and both readers take it the same way.                         *)
(* 3. The protocol: what fsync and rename buy.  A mapped pack keeps its    *)
(*    bytes, the destination was synced and is whole, and the conversions  *)
(*    implement PackPublish.                                               *)
(***************************************************************************)
EXTENDS Converter, WellFoundedInduction, TLAPS

-----------------------------------------------------------------------------
(* 1. The layout.                                                         *)
LEMMA Units ==
  /\ Alignment \in Nat /\ Alignment > 0
  /\ PlaneAlignment \in Nat /\ PlaneAlignment > 0
  /\ MetaAlignment \in Nat /\ MetaAlignment > 0
  /\ ChunkBlocks \in Nat /\ ChunkBlocks > 0
  BY UnitsAssumption

LEMMA ModelTyped ==
  ASSUME NEW s \in GgufModels
  PROVE  /\ s.meta \in Nat /\ s.meta > 0 /\ s.bytes \in Nat
         /\ Len(s.tensors) \in Nat /\ Tensors(s) = 1 .. Len(s.tensors)
         /\ \A k \in Tensors(s) :
              s.tensors[k].blocks \in Nat /\ s.tensors[k].offset \in Nat
<1>1. /\ s.meta \in Nat \ {0} /\ s.bytes \in Nat
      /\ s.tensors \in Seq(GgufTensors)
  BY DEF GgufModels
<1>2. \A t \in GgufTensors : t.blocks \in Nat /\ t.offset \in Nat
  BY DEF GgufTensors
<1> QED
  BY <1>1, <1>2 DEF Tensors

(* A set of naturals has a least element, and holds every natural when it  *)
(* holds 0 and the successor of what it holds.                             *)
LEMMA Least ==
  ASSUME NEW T, T \subseteq Nat, T # {}
  PROVE  \E x \in T : \A y \in T : x <= y
<1>1. PICK x \in T : \A y \in T : ~ (<<y, x>> \in OpToRel(<, Nat))
  BY NatLessThanWellFounded, WFMin
<1>2. ASSUME NEW y \in T PROVE x <= y
  <2>1. \A a, b \in Nat : a < b => <<a, b>> \in OpToRel(<, Nat)
    BY DEF OpToRel
  <2>2. ~ (y < x) /\ x \in Nat /\ y \in Nat
    BY <1>1, <2>1
  <2> QED
    BY <2>2
<1> QED
  BY <1>2

LEMMA Ind ==
  ASSUME NEW T, 0 \in T, \A n \in Nat : n \in T => n + 1 \in T
  PROVE  Nat \subseteq T
<1>1. SUFFICES ASSUME Nat \ T # {} PROVE FALSE
  OBVIOUS
<1>2. PICK x \in Nat \ T : \A y \in Nat \ T : x <= y
  BY <1>1, Least
<1>3. x # 0 /\ x - 1 \in Nat
  BY <1>2
<1>4. x - 1 \in T
  BY <1>2, <1>3
<1> QED
  BY <1>3, <1>4

LEMMA AlignUpRises ==
  ASSUME NEW x \in Nat, NEW a \in Nat, a > 0
  PROVE  AlignUp(x, a) \in Nat /\ AlignUp(x, a) >= x /\ AlignUp(x, a) % a = 0
<1>1. (x + a - 1) \div a \in Nat
  BY SMT
<1>2. ((x + a - 1) \div a) * a >= x
  BY SMT
<1>3. (((x + a - 1) \div a) * a) % a = 0
  BY SMT
<1> QED
  BY <1>1, <1>2, <1>3 DEF AlignUp

LEMMA FrontRises ==
  ASSUME NEW s \in GgufModels
  PROVE  /\ ManifestOffset(s) \in Nat /\ RawMetaOffset(s) \in Nat
         /\ DataOffset(s) \in Nat
         /\ ManifestOffset(s) >= Len(s.tensors) + 1
         /\ RawMetaOffset(s) >= ManifestOffset(s) + 1
         /\ DataOffset(s) >= RawMetaOffset(s) + s.meta
<1> USE ModelTyped, Units
<1>1. DirectoryOffset + Len(s.tensors) * EntryCells = Len(s.tensors) + 1
  BY DEF DirectoryOffset, HeaderCells, EntryCells
<1>2. ManifestOffset(s) \in Nat /\ ManifestOffset(s) >= Len(s.tensors) + 1
  <2>1. Len(s.tensors) + 1 \in Nat
    OBVIOUS
  <2> QED
    BY <1>1, <2>1, AlignUpRises DEF ManifestOffset
<1>3. RawMetaOffset(s) \in Nat /\ RawMetaOffset(s) >= ManifestOffset(s) + 1
  <2>1. ManifestOffset(s) + 1 \in Nat
    BY <1>2
  <2> QED
    BY <2>1, AlignUpRises DEF RawMetaOffset
<1>4. DataOffset(s) \in Nat /\ DataOffset(s) >= RawMetaOffset(s) + s.meta
  <2>1. RawMetaOffset(s) + s.meta \in Nat
    BY <1>3
  <2> QED
    BY <2>1, AlignUpRises DEF DataOffset
<1> QED
  BY <1>2, <1>3, <1>4

(* The next tensor of a file that has one is well defined, so a span is a  *)
(* number.                                                                 *)
LEMMA SpansAreNat ==
  ASSUME NEW s \in GgufModels, NEW v, Convertible(s, v), NEW k \in Tensors(s)
  PROVE  StoredBytes(s, k) \in Nat
<1> USE ModelTyped
<1> DEFINE later == {j \in Tensors(s) : Precedes(s, k, j)}
           first(j) == j \in later /\ \A l \in later \ {j} : Precedes(s, j, l)
<1>1. CASE later = {}
  <2>1. StoredBytes(s, k) = s.bytes - s.tensors[k].offset
    BY <1>1 DEF StoredBytes
  <2> QED
    BY <2>1 DEF Convertible
<1>2. CASE later # {}
  <2>1. \E j : first(j)
    <3> DEFINE offs == {s.tensors[j].offset : j \in later}
    <3>1. offs \subseteq Nat /\ offs # {}
      BY <1>2
    <3>2. PICK o \in offs : \A q \in offs : o <= q
      BY <3>1, Least
    <3> DEFINE same == {j \in later : s.tensors[j].offset = o}
    <3>3. same \subseteq Nat /\ same # {}
      BY <3>2
    <3>4. PICK j \in same : \A l \in same : j <= l
      BY <3>3, Least
    <3>5. ASSUME NEW l \in later \ {j} PROVE Precedes(s, j, l)
      <4>1. s.tensors[j].offset = o /\ o <= s.tensors[l].offset
        BY <3>2, <3>5
      <4>2. CASE s.tensors[l].offset = o
        BY <4>1, <4>2, <3>4, <3>5 DEF Precedes
      <4>3. CASE s.tensors[l].offset # o
        BY <4>1, <4>3, <3>1, <3>5 DEF Precedes
      <4> QED
        BY <4>2, <4>3
    <3> QED
      BY <3>4, <3>5
  <2> DEFINE n == CHOOSE j \in later :
                    \A l \in later \ {j} : Precedes(s, j, l)
  <2>2. n \in later
    BY <2>1
  <2>3. StoredBytes(s, k) = s.tensors[n].offset - s.tensors[k].offset
    BY <1>2 DEF StoredBytes
  <2> HIDE DEF n
  <2>4. s.tensors[n].offset >= s.tensors[k].offset
    BY <2>2 DEF Precedes
  <2> QED
    BY <2>2, <2>3, <2>4
<1> QED
  BY <1>1, <1>2

-----------------------------------------------------------------------------
(* Where a tensor starts.                                                  *)
At(s, v, k) == AlignUp(Cursors(s, v)[k - 1], Alignment)

Ends(s, v, k, start) ==
  IF Repacked(s, v, k) THEN PlanesEnd(start, s.tensors[k].blocks)
  ELSE start + StoredBytes(s, k)

LEMMA CursorSteps ==
  ASSUME NEW s \in GgufModels, NEW v
  PROVE  /\ Cursors(s, v)[0] = DataOffset(s)
         /\ \A k \in Tensors(s) :
              Cursors(s, v)[k] = Ends(s, v, k, At(s, v, k))
<1> USE ModelTyped
<1> DEFINE L == Len(s.tensors)
           step(k, c) == Ends(s, v, k, AlignUp(c, Alignment))
           upTo(n, g) == g = [k \in 0 .. n |-> IF k = 0 THEN DataOffset(s)
                                               ELSE step(k, g[k - 1])]
           T == {n \in Nat : \E g : upTo(n, g)}
<1> HIDE DEF step
<1>1. 0 \in T
  <2>1. upTo(0, [k \in 0 .. 0 |-> DataOffset(s)])
    OBVIOUS
  <2> QED
    BY <2>1
<1>2. ASSUME NEW n \in Nat, n \in T PROVE n + 1 \in T
  <2>1. PICK g : upTo(n, g)
    BY <1>2
  <2> DEFINE h == [k \in 0 .. n + 1 |-> IF k <= n THEN g[k]
                                        ELSE step(n + 1, g[n])]
  <2>2. ASSUME NEW k \in 0 .. n + 1
        PROVE  h[k] = IF k = 0 THEN DataOffset(s) ELSE step(k, h[k - 1])
    <3>1. CASE k = 0
      BY <2>1, <3>1
    <3>2. CASE k # 0 /\ k <= n
      <4>1. k - 1 \in 0 .. n + 1 /\ k - 1 <= n /\ k \in 0 .. n
        BY <3>2
      <4>2. h[k] = g[k] /\ h[k - 1] = g[k - 1]
        BY <3>2, <4>1
      <4> QED
        BY <2>1, <3>2, <4>1, <4>2
    <3>3. CASE k = n + 1
      <4>1. n \in 0 .. n + 1 /\ n + 1 \in 0 .. n + 1 /\ ~(n + 1 <= n)
            /\ k - 1 = n /\ k # 0
        BY <3>3
      <4> QED
        BY <3>3, <4>1
    <3> QED
      BY <3>1, <3>2, <3>3
  <2>3. upTo(n + 1, h)
    <3> DEFINE r == [k \in 0 .. n + 1 |-> IF k = 0 THEN DataOffset(s)
                                          ELSE step(k, h[k - 1])]
    <3>1. h = r
      <4> HIDE DEF h
      <4>1. h = [k \in 0 .. n + 1 |-> h[k]]
        BY DEF h
      <4> QED
        BY <2>2, <4>1
    <3> QED
      BY <3>1
  <2> HIDE DEF h
  <2> QED
    BY <2>3
<1>3. L \in T
  <2> HIDE DEF T
  <2> QED
    BY <1>1, <1>2, Ind
<1>4. PICK g : upTo(L, g)
  BY <1>3
<1>5. Cursors(s, v) = CHOOSE end : upTo(L, end)
  BY DEF Cursors, step, Ends
<1>6. upTo(L, Cursors(s, v))
  <2> HIDE DEF upTo
  <2> QED
    BY <1>4, <1>5
<1>7. Cursors(s, v)[0] = DataOffset(s)
  <2>1. 0 \in 0 .. L
    OBVIOUS
  <2> QED
    BY <1>6, <2>1
<1>8. ASSUME NEW k \in Tensors(s)
      PROVE  Cursors(s, v)[k] = Ends(s, v, k, At(s, v, k))
  <2>1. k \in 0 .. L /\ k # 0
    OBVIOUS
  <2>2. Cursors(s, v)[k] = step(k, Cursors(s, v)[k - 1])
    BY <1>6, <2>1
  <2> QED
    BY <2>2 DEF step, At
<1> QED
  BY <1>7, <1>8

(* The planes of a repacked tensor follow each other.                      *)
LEMMA PlanesRise ==
  ASSUME NEW start \in Nat, NEW n \in Nat
  PROVE  /\ QhOffset(start, n) \in Nat /\ QsOffset(start, n) \in Nat
         /\ start + n <= QhOffset(start, n)
         /\ QhOffset(start, n) + n <= QsOffset(start, n)
         /\ PlanesEnd(start, n) = QsOffset(start, n) + 2 * n
         /\ QhOffset(start, n) % PlaneAlignment = 0
         /\ QsOffset(start, n) % PlaneAlignment = 0
<1> USE Units
<1>1. start + n * MetaCells = start + n /\ start + n \in Nat
  BY DEF MetaCells
<1>2. /\ QhOffset(start, n) \in Nat /\ start + n <= QhOffset(start, n)
      /\ QhOffset(start, n) % PlaneAlignment = 0
  BY <1>1, AlignUpRises DEF QhOffset
<1>3. /\ QhOffset(start, n) + n * QhCells = QhOffset(start, n) + n
      /\ QhOffset(start, n) + n \in Nat
  BY <1>2 DEF QhCells
<1>4. /\ QsOffset(start, n) \in Nat
      /\ QhOffset(start, n) + n <= QsOffset(start, n)
      /\ QsOffset(start, n) % PlaneAlignment = 0
  BY <1>3, AlignUpRises DEF QsOffset
<1>5. PlanesEnd(start, n) = QsOffset(start, n) + 2 * n
  BY <1>4 DEF PlanesEnd, QsCells
<1> QED
  BY <1>2, <1>4, <1>5

(* Tensors follow each other, at aligned offsets.                          *)
LEMMA CursorsRise ==
  ASSUME NEW s \in GgufModels, NEW v, Convertible(s, v)
  PROVE  /\ \A k \in 0 .. Len(s.tensors) : Cursors(s, v)[k] \in Nat
         /\ \A k \in Tensors(s) :
              /\ At(s, v, k) \in Nat /\ At(s, v, k) % Alignment = 0
              /\ Cursors(s, v)[k - 1] <= At(s, v, k)
              /\ At(s, v, k) <= Cursors(s, v)[k]
<1> USE ModelTyped
<1> DEFINE C == Cursors(s, v)
           L == Len(s.tensors)
           T == {n \in Nat : n <= L => C[n] \in Nat}
<1>1. C[0] = DataOffset(s)
      /\ \A k \in Tensors(s) : C[k] = Ends(s, v, k, At(s, v, k))
  BY CursorSteps
<1> HIDE DEF C
<1>2. ASSUME NEW k \in Tensors(s), C[k - 1] \in Nat
      PROVE  /\ At(s, v, k) \in Nat /\ At(s, v, k) % Alignment = 0
             /\ C[k - 1] <= At(s, v, k)
             /\ At(s, v, k) <= C[k] /\ C[k] \in Nat
  <2>1. /\ At(s, v, k) \in Nat /\ At(s, v, k) % Alignment = 0
        /\ C[k - 1] <= At(s, v, k)
    BY <1>2, Units, AlignUpRises DEF At, C
  <2>2. CASE Repacked(s, v, k)
    <3>1. C[k] = PlanesEnd(At(s, v, k), s.tensors[k].blocks)
      BY <1>1, <2>2 DEF Ends
    <3> DEFINE a == At(s, v, k)
               n == s.tensors[k].blocks
    <3>2. a \in Nat /\ n \in Nat
      BY <2>1
    <3>3. /\ QhOffset(a, n) \in Nat /\ QsOffset(a, n) \in Nat
          /\ a + n <= QhOffset(a, n) /\ QhOffset(a, n) + n <= QsOffset(a, n)
          /\ PlanesEnd(a, n) = QsOffset(a, n) + 2 * n
      BY <3>2, PlanesRise
    <3> HIDE DEF a, n
    <3>4. PlanesEnd(a, n) \in Nat /\ a <= PlanesEnd(a, n)
      BY <3>2, <3>3
    <3> QED
      BY <2>1, <3>1, <3>4 DEF a, n
  <2>3. CASE ~Repacked(s, v, k)
    <3>1. C[k] = At(s, v, k) + StoredBytes(s, k)
      BY <1>1, <2>3 DEF Ends
    <3> QED
      BY <2>1, <3>1, SpansAreNat
  <2> QED
    BY <2>1, <2>2, <2>3
<1>3. 0 \in T
  BY <1>1, FrontRises
<1>4. ASSUME NEW n \in Nat, n \in T PROVE n + 1 \in T
  <2>1. CASE n + 1 <= L
    <3>1. n + 1 \in Tensors(s) /\ (n + 1) - 1 = n /\ C[n] \in Nat
      BY <1>4, <2>1
    <3> QED
      BY <1>2, <3>1
  <2> QED
    BY <2>1
<1>5. \A k \in 0 .. L : C[k] \in Nat
  <2>1. Nat \subseteq T
    <3> HIDE DEF T
    <3> QED
      BY <1>3, <1>4, Ind
  <2> QED
    BY <2>1
<1>6. \A k \in Tensors(s) : C[k - 1] \in Nat
  BY <1>5
<1> QED
  BY <1>2, <1>5, <1>6 DEF C

LEMMA CursorsMonotone ==
  ASSUME NEW s \in GgufModels, NEW v, Convertible(s, v),
         NEW j \in 0 .. Len(s.tensors), NEW k \in j .. Len(s.tensors)
  PROVE  Cursors(s, v)[j] <= Cursors(s, v)[k]
<1> USE ModelTyped
<1> DEFINE C == Cursors(s, v)
           L == Len(s.tensors)
           T == {n \in Nat : j + n <= L => C[j] <= C[j + n]}
<1>1. /\ \A i \in 0 .. L : C[i] \in Nat
      /\ \A i \in Tensors(s) : C[i - 1] <= C[i]
  <2>1. \A i \in Tensors(s) : i \in 0 .. L /\ i - 1 \in 0 .. L
    OBVIOUS
  <2> QED
    BY <2>1, CursorsRise
<1> HIDE DEF C
<1>2. 0 \in T
  BY <1>1
<1>3. ASSUME NEW n \in Nat, n \in T PROVE n + 1 \in T
  <2>1. CASE j + (n + 1) <= L
    <3>1. /\ j + (n + 1) \in Tensors(s) /\ j + (n + 1) - 1 = j + n
          /\ j + n \in 0 .. L /\ j + (n + 1) \in 0 .. L /\ C[j] <= C[j + n]
      BY <1>3, <2>1
    <3> QED
      BY <1>1, <3>1
  <2> QED
    BY <2>1
<1>4. k - j \in T
  <2>1. k - j \in Nat
    OBVIOUS
  <2> HIDE DEF T
  <2> QED
    BY <1>2, <1>3, <2>1, Ind
<1> QED
  BY <1>4 DEF C

-----------------------------------------------------------------------------
(* The first n sequences of ss one after the other.                        *)
Joins(ss, n, q) ==
  /\ \A i \in 1 .. n : \A j \in 1 .. Len(ss[i]) :
       \E m \in 1 .. Len(q) : q[m] = ss[i][j]
  /\ \A m \in 1 .. Len(q) :
       \E i \in 1 .. n : \E j \in 1 .. Len(ss[i]) : q[m] = ss[i][j]
  /\ Len(q) > 0 =>
       \E i \in 1 .. n :
         /\ Len(ss[i]) > 0 /\ q[Len(q)] = ss[i][Len(ss[i])]
         /\ \A l \in i + 1 .. n : Len(ss[l]) = 0

LEMMA JoinsOneMore ==
  ASSUME NEW U, NEW ss \in Seq(Seq(U)), NEW n \in Nat, n + 1 <= Len(ss),
         NEW q \in Seq(U), Joins(ss, n, q)
  PROVE  q \o ss[n + 1] \in Seq(U) /\ Joins(ss, n + 1, q \o ss[n + 1])
<1> DEFINE t == ss[n + 1]
           r == q \o t
<1>1. t \in Seq(U) /\ \A i \in 1 .. n : ss[i] \in Seq(U)
  OBVIOUS
<1> HIDE DEF t
<1>2. /\ r \in Seq(U) /\ Len(r) = Len(q) + Len(t)
      /\ Len(q) \in Nat /\ Len(t) \in Nat /\ \A i \in 1 .. n : Len(ss[i]) \in Nat
      /\ \A m \in 1 .. Len(q) : r[m] = q[m]
      /\ \A m \in 1 .. Len(t) : r[Len(q) + m] = t[m]
  BY <1>1
<1> HIDE DEF r
<1>3. ASSUME NEW i \in 1 .. n + 1, NEW j \in 1 .. Len(ss[i])
      PROVE  \E m \in 1 .. Len(r) : r[m] = ss[i][j]
  <2>1. CASE i = n + 1
    <3>1. j \in 1 .. Len(t) /\ Len(q) + j \in 1 .. Len(r)
      BY <1>2, <2>1 DEF t
    <3> QED
      BY <1>2, <2>1, <3>1 DEF t
  <2>2. CASE i # n + 1
    <3>1. i \in 1 .. n
      BY <2>2
    <3>2. PICK m \in 1 .. Len(q) : q[m] = ss[i][j]
      BY <3>1 DEF Joins
    <3> QED
      BY <1>2, <3>2
  <2> QED
    BY <2>1, <2>2
<1>4. ASSUME NEW m \in 1 .. Len(r)
      PROVE  \E i \in 1 .. n + 1 : \E j \in 1 .. Len(ss[i]) : r[m] = ss[i][j]
  <2>1. CASE m <= Len(q)
    <3>1. m \in 1 .. Len(q)
      BY <1>2, <2>1
    <3>2. PICK i \in 1 .. n : \E j \in 1 .. Len(ss[i]) : q[m] = ss[i][j]
      BY <3>1 DEF Joins
    <3> QED
      BY <1>2, <3>1, <3>2
  <2>2. CASE m > Len(q)
    <3>1. m - Len(q) \in 1 .. Len(t) /\ m = Len(q) + (m - Len(q))
      BY <1>2, <2>2
    <3>2. r[Len(q) + (m - Len(q))] = t[m - Len(q)]
      <4>1. \A l \in 1 .. Len(t) : r[Len(q) + l] = t[l]
        BY <1>2
      <4> QED
        BY <3>1, <4>1, Zenon
    <3>3. n + 1 \in 1 .. n + 1
      OBVIOUS
    <3> QED
      BY <3>1, <3>2, <3>3 DEF t
  <2> QED
    BY <1>2, <2>1, <2>2
<1>5. ASSUME Len(r) > 0
      PROVE  \E i \in 1 .. n + 1 :
               /\ Len(ss[i]) > 0 /\ r[Len(r)] = ss[i][Len(ss[i])]
               /\ \A l \in i + 1 .. n + 1 : Len(ss[l]) = 0
  <2>1. CASE Len(t) > 0
    <3>1. Len(t) \in 1 .. Len(t)
      BY <1>2, <2>1
    <3>2. r[Len(q) + Len(t)] = t[Len(t)]
      <4>1. \A m \in 1 .. Len(t) : r[Len(q) + m] = t[m]
        BY <1>2
      <4> QED
        BY <3>1, <4>1, Zenon
    <3>3. n + 1 \in 1 .. n + 1 /\ \A l \in (n + 1) + 1 .. n + 1 : FALSE
      OBVIOUS
    <3> QED
      BY <1>2, <2>1, <3>2, <3>3 DEF t
  <2>2. CASE Len(t) = 0
    <3>1. Len(q) > 0 /\ Len(r) = Len(q) /\ r[Len(r)] = q[Len(q)]
      BY <1>2, <1>5, <2>2
    <3>2. PICK i \in 1 .. n : /\ Len(ss[i]) > 0 /\ q[Len(q)] = ss[i][Len(ss[i])]
                              /\ \A l \in i + 1 .. n : Len(ss[l]) = 0
      BY <3>1 DEF Joins
    <3>3. \A l \in i + 1 .. n + 1 : Len(ss[l]) = 0
      BY <2>2, <3>2 DEF t
    <3>4. i \in 1 .. n + 1
      OBVIOUS
    <3>5. r[Len(r)] = ss[i][Len(ss[i])]
      BY <3>1, <3>2
    <3> QED
      BY <3>2, <3>3, <3>4, <3>5
  <2> QED
    BY <1>2, <2>1, <2>2
<1>6. Joins(ss, n + 1, r)
  BY <1>3, <1>4, <1>5 DEF Joins
<1> QED
  BY <1>2, <1>6 DEF r, t

LEMMA Flattened ==
  ASSUME NEW U, NEW ss \in Seq(Seq(U))
  PROVE  FlattenSeq(ss) \in Seq(U) /\ Joins(ss, Len(ss), FlattenSeq(ss))
<1> DEFINE L == Len(ss)
           upTo(n, g) == g = [i \in 1 .. n |-> IF i = 1 THEN ss[i]
                                               ELSE g[i - 1] \o ss[i]]
           ok(n, q) == q \in Seq(U) /\ Joins(ss, n, q)
           T == {n \in Nat : 1 <= n /\ n <= L => \E g : upTo(n, g)}
           R(f) == {n \in Nat : 1 <= n /\ n <= L => ok(n, f[n])}
<1>1. L \in Nat /\ DOMAIN ss = 1 .. L /\ \A i \in 1 .. L : ss[i] \in Seq(U)
  OBVIOUS
<1>2. CASE L = 0
  <2>1. FlattenSeq(ss) = ss /\ ss = << >>
    BY <1>2 DEF FlattenSeq
  <2>2. << >> \in Seq(U) /\ Len(<< >>) = 0
    OBVIOUS
  <2> QED
    BY <2>1, <2>2, <1>2 DEF Joins
<1>3. CASE L # 0
  <2>1. ok(1, ss[1])
    <3>1. ss[1] \in Seq(U) /\ Len(ss[1]) \in Nat
      BY <1>1, <1>3
    <3>2. \A i \in 1 .. 1 : i = 1
      OBVIOUS
    <3>3. 1 \in 1 .. 1 /\ \A l \in 1 + 1 .. 1 : FALSE
      OBVIOUS
    <3>4. \A i \in 1 .. 1 : \A j \in 1 .. Len(ss[i]) :
            \E m \in 1 .. Len(ss[1]) : ss[1][m] = ss[i][j]
      BY <3>2
    <3>5. \A m \in 1 .. Len(ss[1]) :
            \E i \in 1 .. 1 : \E j \in 1 .. Len(ss[i]) : ss[1][m] = ss[i][j]
      BY <3>3
    <3> QED
      BY <3>1, <3>3, <3>4, <3>5 DEF Joins
  <2>2. ASSUME NEW n \in Nat, n \in T PROVE n + 1 \in T
    <3>1. SUFFICES ASSUME n + 1 <= L PROVE \E h : upTo(n + 1, h)
      <4> HIDE DEF upTo
      <4> QED
        OBVIOUS
    <3>2. CASE n = 0
      <4> DEFINE h == [i \in 1 .. 1 |-> ss[i]]
      <4>1. upTo(1, h)
        <5>1. \A i \in 1 .. 1 : i = 1
          OBVIOUS
        <5> QED
          BY <5>1
      <4>2. n + 1 = 1
        BY <3>2
      <4> HIDE DEF h, upTo
      <4> QED
        BY <4>1, <4>2
    <3>3. CASE n # 0
      <4>1. PICK g : upTo(n, g)
        <5>1. 1 <= n /\ n <= L
          BY <3>1, <3>3, <1>1
        <5> HIDE DEF upTo
        <5> QED
          BY <2>2, <5>1
      <4> DEFINE h == [i \in 1 .. n + 1 |-> IF i <= n THEN g[i]
                                            ELSE g[n] \o ss[n + 1]]
      <4>2. ASSUME NEW i \in 1 .. n + 1
            PROVE  h[i] = IF i = 1 THEN ss[i] ELSE h[i - 1] \o ss[i]
        <5>1. CASE i = 1
          <6>1. i \in 1 .. n /\ i <= n
            BY <3>3, <5>1
          <6> QED
            BY <4>1, <5>1, <6>1
        <5>2. CASE i # 1 /\ i <= n
          <6>1. i - 1 \in 1 .. n + 1 /\ i - 1 <= n /\ i \in 1 .. n
            BY <5>2
          <6>2. h[i] = g[i] /\ h[i - 1] = g[i - 1]
            BY <5>2, <6>1
          <6> QED
            BY <4>1, <5>2, <6>1, <6>2
        <5>3. CASE i = n + 1
          <6>1. /\ n \in 1 .. n + 1 /\ n + 1 \in 1 .. n + 1 /\ ~(n + 1 <= n)
                /\ i - 1 = n /\ i # 1
            BY <3>3, <5>3
          <6>2. h[n] = g[n]
            BY <6>1
          <6>3. h[n + 1] = g[n] \o ss[n + 1]
            BY <6>1
          <6> HIDE DEF h
          <6> QED
            BY <5>3, <6>1, <6>2, <6>3
        <5> QED
          BY <5>1, <5>2, <5>3
      <4>3. h = [i \in 1 .. n + 1 |-> h[i]]
        OBVIOUS
      <4> HIDE DEF h
      <4>4. upTo(n + 1, h)
        BY <4>2, <4>3
      <4> HIDE DEF upTo
      <4> QED
        BY <4>4
    <3> QED
      BY <3>2, <3>3
  <2>3. \E f : upTo(L, f)
    <3>1. 0 \in T
      OBVIOUS
    <3>2. L \in T
      <4> HIDE DEF T
      <4> QED
        BY <1>1, <2>2, <3>1, Ind
    <3> HIDE DEF upTo
    <3> QED
      BY <1>1, <1>3, <3>2
  <2> DEFINE f == CHOOSE f : upTo(L, f)
  <2>4. upTo(L, f)
    <3> HIDE DEF upTo
    <3> QED
      BY <2>3
  <2>5. FlattenSeq(ss) = f[L]
    BY <1>3 DEF FlattenSeq
  <2> HIDE DEF f
  <2>6. 0 \in R(f)
    OBVIOUS
  <2>7. ASSUME NEW n \in Nat, n \in R(f) PROVE n + 1 \in R(f)
    <3>1. SUFFICES ASSUME n + 1 <= L PROVE ok(n + 1, f[n + 1])
      <4> HIDE DEF ok
      <4> QED
        OBVIOUS
    <3>2. CASE n = 0
      <4>1. 1 \in 1 .. L
        BY <1>1, <1>3
      <4>2. f[1] = ss[1] /\ n + 1 = 1
        BY <2>4, <3>2, <4>1
      <4> HIDE DEF ok
      <4> QED
        BY <2>1, <4>2
    <3>3. CASE n # 0
      <4>1. n + 1 \in 1 .. L /\ n + 1 # 1 /\ (n + 1) - 1 = n
        BY <1>1, <3>1, <3>3
      <4>2. f[n + 1] = f[n] \o ss[n + 1]
        BY <2>4, <4>1
      <4>3. ok(n, f[n])
        BY <2>7, <3>1, <3>3, <1>1
      <4> QED
        BY <1>1, <3>1, <4>2, <4>3, JoinsOneMore
    <3> QED
      BY <3>2, <3>3
  <2>8. L \in R(f)
    <3> HIDE DEF R
    <3> QED
      BY <1>1, <2>6, <2>7, Ind
  <2> QED
    BY <1>1, <1>3, <2>5, <2>8
<1> QED
  BY <1>2, <1>3

-----------------------------------------------------------------------------
(* The cell that belongs at position p of the file, counted from 0, when   *)
(* it is one of tensor k.                                                  *)
Placed(s, v, k, p, cell) ==
  LET a  == At(s, v, k)
      n  == s.tensors[k].blocks
      o  == s.tensors[k].offset
      qh == QhOffset(a, n)
      qs == QsOffset(a, n)
  IN  IF Repacked(s, v, k)
      THEN \/ /\ a <= p /\ p < a + n
              /\ cell = SourceCell(s, o + (p - a) * BlockCells)
           \/ /\ qh <= p /\ p < qh + n
              /\ cell = SourceCell(s, o + (p - qh) * BlockCells + 1)
           \/ /\ qs <= p /\ p < qs + 2 * n
              /\ cell = SourceCell(s, o + ((p - qs) \div 2) * BlockCells
                                        + 2 + ((p - qs) % 2))
      ELSE /\ a <= p /\ p < a + StoredBytes(s, k)
           /\ cell = SourceCell(s, o + (p - a))

LEMMA Geometry ==
  ASSUME NEW s \in GgufModels, NEW v, Convertible(s, v), NEW k \in Tensors(s)
  PROVE  LET a  == At(s, v, k)
             n  == s.tensors[k].blocks
             qh == QhOffset(a, n)
             qs == QsOffset(a, n)
         IN  /\ a \in Nat /\ Cursors(s, v)[k] \in Nat
             /\ Cursors(s, v)[k - 1] \in Nat /\ Cursors(s, v)[k - 1] <= a
             /\ n \in Nat /\ qh \in Nat /\ qs \in Nat
             /\ a + n <= qh /\ qh + n <= qs
             /\ Repacked(s, v, k) => Cursors(s, v)[k] = qs + 2 * n
             /\ ~Repacked(s, v, k) =>
                  /\ Cursors(s, v)[k] = a + StoredBytes(s, k)
                  /\ StoredBytes(s, k) \in Nat
<1> USE ModelTyped
<1> DEFINE a == At(s, v, k)
           n == s.tensors[k].blocks
<1>1. /\ k \in 0 .. Len(s.tensors) /\ k - 1 \in 0 .. Len(s.tensors)
  OBVIOUS
<1>2. /\ a \in Nat /\ n \in Nat /\ Cursors(s, v)[k] \in Nat
      /\ Cursors(s, v)[k - 1] \in Nat /\ Cursors(s, v)[k - 1] <= a
  BY <1>1, CursorsRise
<1>3. Cursors(s, v)[k] = Ends(s, v, k, a)
  BY CursorSteps
<1> HIDE DEF a, n
<1>4. /\ QhOffset(a, n) \in Nat /\ QsOffset(a, n) \in Nat
      /\ a + n <= QhOffset(a, n) /\ QhOffset(a, n) + n <= QsOffset(a, n)
      /\ PlanesEnd(a, n) = QsOffset(a, n) + 2 * n
  BY <1>2, PlanesRise
<1>5. Repacked(s, v, k) => Cursors(s, v)[k] = QsOffset(a, n) + 2 * n
  BY <1>3, <1>4 DEF Ends, n
<1>6. ~Repacked(s, v, k) => /\ Cursors(s, v)[k] = a + StoredBytes(s, k)
                            /\ StoredBytes(s, k) \in Nat
  BY <1>3, SpansAreNat DEF Ends
<1> QED
  BY <1>2, <1>4, <1>5, <1>6 DEF a, n

(* A position belongs to one tensor and holds one cell.                    *)
LEMMA PlacedIsInside ==
  ASSUME NEW s \in GgufModels, NEW v, Convertible(s, v), NEW k \in Tensors(s),
         NEW p \in Nat, NEW cell, Placed(s, v, k, p, cell)
  PROVE  Cursors(s, v)[k - 1] <= p /\ p < Cursors(s, v)[k]
<1> DEFINE a  == At(s, v, k)
           n  == s.tensors[k].blocks
           qh == QhOffset(a, n)
           qs == QsOffset(a, n)
           c  == Cursors(s, v)[k]
           b  == Cursors(s, v)[k - 1]
           sb == StoredBytes(s, k)
<1>1. /\ a \in Nat /\ c \in Nat /\ b \in Nat /\ b <= a
      /\ n \in Nat /\ qh \in Nat /\ qs \in Nat /\ a + n <= qh /\ qh + n <= qs
      /\ Repacked(s, v, k) => c = qs + 2 * n
      /\ ~Repacked(s, v, k) => c = a + sb /\ sb \in Nat
  BY Geometry
<1>2. /\ Repacked(s, v, k) => \/ a <= p /\ p < a + n
                              \/ qh <= p /\ p < qh + n
                              \/ qs <= p /\ p < qs + 2 * n
      /\ ~Repacked(s, v, k) => a <= p /\ p < a + sb
  BY DEF Placed
<1> HIDE DEF a, n, qh, qs, c, b, sb
<1>3. b <= p /\ p < c
  BY <1>1, <1>2
<1> QED
  BY <1>3 DEF b, c

LEMMA PlacedOnce ==
  ASSUME NEW s \in GgufModels, NEW v, Convertible(s, v), NEW p \in Nat,
         NEW j \in Tensors(s), NEW x, Placed(s, v, j, p, x),
         NEW k \in Tensors(s), NEW y, Placed(s, v, k, p, y)
  PROVE  x = y
<1>1. /\ Cursors(s, v)[j - 1] <= p /\ p < Cursors(s, v)[j]
      /\ Cursors(s, v)[k - 1] <= p /\ p < Cursors(s, v)[k]
  BY PlacedIsInside
<1>2. \A i \in 0 .. Len(s.tensors) : Cursors(s, v)[i] \in Nat
  BY CursorsRise
<1>3. /\ j \in 0 .. Len(s.tensors) /\ j - 1 \in 0 .. Len(s.tensors)
      /\ k \in 0 .. Len(s.tensors) /\ k - 1 \in 0 .. Len(s.tensors)
      /\ Len(s.tensors) \in Nat
  BY ModelTyped
<1>4. ~(j < k)
  <2>1. SUFFICES ASSUME j < k PROVE FALSE
    OBVIOUS
  <2>2. k - 1 \in j .. Len(s.tensors)
    BY <1>3, <2>1
  <2>3. Cursors(s, v)[j] <= Cursors(s, v)[k - 1]
    BY <1>3, <2>2, CursorsMonotone
  <2>4. /\ Cursors(s, v)[j] \in Nat /\ Cursors(s, v)[k - 1] \in Nat
    BY <1>2, <1>3
  <2> QED
    BY <1>1, <2>3, <2>4
<1>5. ~(k < j)
  <2>1. SUFFICES ASSUME k < j PROVE FALSE
    OBVIOUS
  <2>2. j - 1 \in k .. Len(s.tensors)
    BY <1>3, <2>1
  <2>3. Cursors(s, v)[k] <= Cursors(s, v)[j - 1]
    BY <1>3, <2>2, CursorsMonotone
  <2>4. /\ Cursors(s, v)[k] \in Nat /\ Cursors(s, v)[j - 1] \in Nat
    BY <1>2, <1>3
  <2> QED
    BY <1>1, <2>3, <2>4
<1>6. j = k
  BY <1>3, <1>4, <1>5
<1> DEFINE a  == At(s, v, k)
           n  == s.tensors[k].blocks
           o  == s.tensors[k].offset
           qh == QhOffset(a, n)
           qs == QsOffset(a, n)
<1>7. CASE Repacked(s, v, k)
  <2> DEFINE c1 == SourceCell(s, o + (p - a) * BlockCells)
             c2 == SourceCell(s, o + (p - qh) * BlockCells + 1)
             c3 == SourceCell(s, o + ((p - qs) \div 2) * BlockCells
                                   + 2 + ((p - qs) % 2))
             is(c) == \/ a <= p /\ p < a + n /\ c = c1
                      \/ qh <= p /\ p < qh + n /\ c = c2
                      \/ qs <= p /\ p < qs + 2 * n /\ c = c3
  <2>1. is(x) /\ is(y)
    BY <1>6, <1>7 DEF Placed
  <2>2. /\ a \in Nat /\ n \in Nat /\ qh \in Nat /\ qs \in Nat
        /\ a + n <= qh /\ qh + n <= qs
    BY Geometry
  <2> HIDE DEF a, n, o, qh, qs, c1, c2, c3
  <2> QED
    BY <2>1, <2>2
<1>8. CASE ~Repacked(s, v, k)
  BY <1>6, <1>8 DEF Placed
<1> QED
  BY <1>7, <1>8

-----------------------------------------------------------------------------
(* A write, the positions it covers, and that it puts there what belongs.  *)
IsWrite(w) ==
  w.at \in Nat /\ Len(w.cells) \in Nat /\ DOMAIN w.cells = 1 .. Len(w.cells)

Covers(w, p) == w.at <= p /\ p < w.at + Len(w.cells)

PlacesTensor(s, v, k, w) ==
  /\ IsWrite(w)
  /\ \A i \in 1 .. Len(w.cells) : Placed(s, v, k, w.at + i - 1, w.cells[i])

LEMMA FunIsSeq ==
  ASSUME NEW n \in Nat, NEW q, DOMAIN q = 1 .. n, q = [i \in 1 .. n |-> q[i]]
  PROVE  Len(q) = n /\ q \in Seq({q[i] : i \in 1 .. n})
<1> DEFINE S == {q[i] : i \in 1 .. n}
<1>1. q \in [1 .. n -> S]
  OBVIOUS
<1> HIDE DEF S
<1>2. q \in Seq(S)
  BY <1>1
<1> QED
  BY <1>2 DEF S

LEMMA ChunkPlaces ==
  ASSUME NEW s \in GgufModels, NEW v, Convertible(s, v), NEW k \in Tensors(s),
         Repacked(s, v, k), NEW from \in Nat, from < s.tensors[k].blocks
  PROVE  LET c == ChunkWrites(s, Entry(s, v, k), k, from)
             a == At(s, v, k)
             n == s.tensors[k].blocks
         IN  /\ Len(c) = 3 /\ c = <<c[1], c[2], c[3]>>
             /\ \A i \in 1 .. 3 : PlacesTensor(s, v, k, c[i])
             /\ \A b \in Nat : from <= b /\ b < n /\ b < from + ChunkBlocks =>
                  /\ Covers(c[1], a + b)
                  /\ Covers(c[2], QhOffset(a, n) + b)
                  /\ Covers(c[3], QsOffset(a, n) + 2 * b)
                  /\ Covers(c[3], QsOffset(a, n) + 2 * b + 1)
             /\ n <= from + ChunkBlocks =>
                  c[3].at + Len(c[3].cells) = Cursors(s, v)[k]
<1> DEFINE e  == Entry(s, v, k)
           c  == ChunkWrites(s, e, k, from)
           a  == At(s, v, k)
           n  == s.tensors[k].blocks
           o  == s.tensors[k].offset
           qh == QhOffset(a, n)
           qs == QsOffset(a, n)
           to == IF from + ChunkBlocks < n THEN from + ChunkBlocks ELSE n
           m1 == Plane(s, k, from, to, 0, MetaCells)
           m2 == Plane(s, k, from, to, MetaCells, QhCells)
           m3 == Plane(s, k, from, to, MetaCells + QhCells, QsCells)
           w1 == [at |-> a + from, cells |-> m1]
           w2 == [at |-> qh + from, cells |-> m2]
           w3 == [at |-> qs + from * 2, cells |-> m3]
<1>1. e.data_offset = a /\ e.aux0_offset = qh /\ e.aux1_offset = qs
  BY DEF Entry, At
<1>2. /\ a \in Nat /\ n \in Nat /\ o \in Nat /\ qh \in Nat /\ qs \in Nat
      /\ a + n <= qh /\ qh + n <= qs /\ Cursors(s, v)[k] = qs + 2 * n
  BY Geometry, ModelTyped
<1>3. c = <<w1, w2, w3>>
  <2>1. from * MetaCells = from /\ from * QhCells = from /\ from * QsCells = from * 2
    BY DEF MetaCells, QhCells, QsCells
  <2> HIDE DEF e, a, qh, qs
  <2> QED
    BY <1>1, <2>1 DEF ChunkWrites
<1>4. to \in Nat /\ from < to /\ to <= n
  BY <1>2, Units
<1>14. /\ \A b \in Nat : b < n /\ b < from + ChunkBlocks => b < to
       /\ n <= from + ChunkBlocks => to = n
  BY <1>2, Units
<1> HIDE DEF e, c, a, n, qh, qs, to
<1>5. /\ m1 = [i \in 1 .. to - from |->
                 SourceCell(s, o + (from + (i - 1)) * BlockCells)]
      /\ m2 = [i \in 1 .. to - from |->
                 SourceCell(s, o + (from + (i - 1)) * BlockCells + 1)]
      /\ m3 = [i \in 1 .. (to - from) * 2 |->
                 SourceCell(s, o + (from + ((i - 1) \div 2)) * BlockCells
                                 + 2 + ((i - 1) % 2))]
  <2>1. /\ (to - from) * MetaCells = to - from /\ (to - from) * QhCells = to - from
        /\ (to - from) * QsCells = (to - from) * 2
    BY <1>4 DEF MetaCells, QhCells, QsCells
  <2>2. ASSUME NEW i \in 1 .. to - from
        PROVE  /\ o + (from + ((i - 1) \div MetaCells)) * BlockCells + 0
                    + ((i - 1) % MetaCells) = o + (from + (i - 1)) * BlockCells
               /\ o + (from + ((i - 1) \div QhCells)) * BlockCells + MetaCells
                    + ((i - 1) % QhCells) = o + (from + (i - 1)) * BlockCells + 1
    BY <1>2, <1>4 DEF MetaCells, QhCells, QsCells, BlockCells
  <2>3. ASSUME NEW i \in 1 .. (to - from) * 2
        PROVE  o + (from + ((i - 1) \div QsCells)) * BlockCells
                 + (MetaCells + QhCells) + ((i - 1) % QsCells)
               = o + (from + ((i - 1) \div 2)) * BlockCells + 2 + ((i - 1) % 2)
    BY <1>2, <1>4 DEF MetaCells, QhCells, QsCells, BlockCells
  <2> QED
    BY <2>1, <2>2, <2>3 DEF Plane
<1> HIDE DEF m1, m2, m3, o
<1>6. /\ DOMAIN m1 = 1 .. to - from /\ Len(m1) = to - from
      /\ DOMAIN m2 = 1 .. to - from /\ Len(m2) = to - from
      /\ DOMAIN m3 = 1 .. (to - from) * 2 /\ Len(m3) = (to - from) * 2
      /\ to - from \in Nat /\ (to - from) * 2 \in Nat
  <2>1. to - from \in Nat /\ (to - from) * 2 \in Nat
    BY <1>4
  <2> QED
    BY <1>5, <2>1, FunIsSeq
<1>7. PlacesTensor(s, v, k, w1)
  <2>1. w1.at = a + from /\ w1.cells = m1 /\ IsWrite(w1)
    BY <1>2, <1>6 DEF IsWrite
  <2>2. ASSUME NEW i \in 1 .. to - from
        PROVE  Placed(s, v, k, a + from + i - 1, m1[i])
    <3>1. /\ a <= a + from + i - 1 /\ a + from + i - 1 < a + n
          /\ (a + from + i - 1) - a = from + (i - 1)
      BY <1>2, <1>4
    <3>2. m1[i] = SourceCell(s, o + ((a + from + i - 1) - a) * BlockCells)
      BY <1>5, <3>1
    <3> QED
      BY <3>1, <3>2 DEF Placed, a, n, o
  <2> QED
    BY <1>6, <2>1, <2>2 DEF PlacesTensor
<1>8. PlacesTensor(s, v, k, w2)
  <2>1. w2.at = qh + from /\ w2.cells = m2 /\ IsWrite(w2)
    BY <1>2, <1>6 DEF IsWrite
  <2>2. ASSUME NEW i \in 1 .. to - from
        PROVE  Placed(s, v, k, qh + from + i - 1, m2[i])
    <3>1. /\ qh <= qh + from + i - 1 /\ qh + from + i - 1 < qh + n
          /\ (qh + from + i - 1) - qh = from + (i - 1)
      BY <1>2, <1>4
    <3>2. m2[i] = SourceCell(s, o + ((qh + from + i - 1) - qh) * BlockCells + 1)
      BY <1>5, <3>1
    <3> QED
      BY <3>1, <3>2 DEF Placed, a, n, o, qh
  <2> QED
    BY <1>6, <2>1, <2>2 DEF PlacesTensor
<1>9. PlacesTensor(s, v, k, w3)
  <2>1. w3.at = qs + from * 2 /\ w3.cells = m3 /\ IsWrite(w3)
    BY <1>2, <1>6 DEF IsWrite
  <2>2. ASSUME NEW i \in 1 .. (to - from) * 2
        PROVE  Placed(s, v, k, qs + from * 2 + i - 1, m3[i])
    <3> DEFINE p == qs + from * 2 + i - 1
    <3>1. /\ qs <= p /\ p < qs + 2 * n
          /\ (p - qs) \div 2 = from + ((i - 1) \div 2)
          /\ (p - qs) % 2 = (i - 1) % 2
      BY <1>2, <1>4
    <3>2. m3[i] = SourceCell(s, o + ((p - qs) \div 2) * BlockCells + 2 + ((p - qs) % 2))
      <4>1. m3[i] = SourceCell(s, o + (from + ((i - 1) \div 2)) * BlockCells
                                    + 2 + ((i - 1) % 2))
        BY <1>5
      <4> HIDE DEF p
      <4> QED
        BY <3>1, <4>1
    <3> HIDE DEF p
    <3>3. Placed(s, v, k, p, m3[i])
      BY <3>1, <3>2 DEF Placed, a, n, o, qs
    <3> QED
      BY <3>3 DEF p
  <2> QED
    BY <1>6, <2>1, <2>2 DEF PlacesTensor
<1>10. ASSUME NEW b \in Nat, from <= b, b < n, b < from + ChunkBlocks
       PROVE  /\ Covers(w1, a + b) /\ Covers(w2, qh + b)
              /\ Covers(w3, qs + 2 * b) /\ Covers(w3, qs + 2 * b + 1)
  <2>1. b < to
    BY <1>10, <1>14
  <2>2. /\ w1.at = a + from /\ w1.cells = m1 /\ w2.at = qh + from
        /\ w2.cells = m2 /\ w3.at = qs + from * 2 /\ w3.cells = m3
    OBVIOUS
  <2> HIDE DEF w1, w2, w3
  <2>3. /\ w1.at = a + from /\ w1.at + Len(w1.cells) = a + to
        /\ w2.at = qh + from /\ w2.at + Len(w2.cells) = qh + to
        /\ w3.at = qs + from * 2 /\ w3.at + Len(w3.cells) = qs + to * 2
    BY <1>2, <1>4, <1>6, <2>2
  <2>4. /\ a + from <= a + b /\ a + b < a + to
        /\ qh + from <= qh + b /\ qh + b < qh + to
    BY <1>2, <1>4, <1>10, <2>1
  <2>5. /\ qs + from * 2 <= qs + 2 * b /\ qs + 2 * b < qs + to * 2
        /\ qs + from * 2 <= qs + 2 * b + 1 /\ qs + 2 * b + 1 < qs + to * 2
    BY <1>2, <1>4, <1>10, <2>1
  <2> QED
    BY <2>3, <2>4, <2>5 DEF Covers
<1>11. n <= from + ChunkBlocks => w3.at + Len(w3.cells) = Cursors(s, v)[k]
  <2>1. w3.at = qs + from * 2 /\ Len(w3.cells) = (to - from) * 2
    BY <1>6
  <2> HIDE DEF w3
  <2> QED
    BY <1>2, <1>4, <1>14, <2>1
<1> HIDE DEF w1, w2, w3
<1>12. Len(c) = 3 /\ c[1] = w1 /\ c[2] = w2 /\ c[3] = w3
  BY <1>3
<1>13. \A i \in 1 .. 3 : PlacesTensor(s, v, k, c[i])
  <2>1. \A i \in 1 .. 3 : i = 1 \/ i = 2 \/ i = 3
    OBVIOUS
  <2> QED
    BY <1>7, <1>8, <1>9, <1>12, <2>1
<1> QED
  BY <1>3, <1>10, <1>11, <1>12, <1>13 DEF c, e, a, n, qh, qs

(* The chunks of a tensor of n blocks.                                     *)
LEMMA Chunks ==
  ASSUME NEW n \in Nat
  PROVE  LET m == (n + ChunkBlocks - 1) \div ChunkBlocks
         IN  /\ m \in Nat
             /\ \A c \in 1 .. m : /\ (c - 1) * ChunkBlocks \in Nat
                                  /\ (c - 1) * ChunkBlocks < n
             /\ n <= (m - 1) * ChunkBlocks + ChunkBlocks
             /\ \A b \in Nat : b < n =>
                  \E c \in 1 .. m :
                    /\ (c - 1) * ChunkBlocks <= b
                    /\ b < (c - 1) * ChunkBlocks + ChunkBlocks
<1> DEFINE u == ChunkBlocks
           m == (n + u - 1) \div u
<1> USE Units
<1>1. m \in Nat /\ m * u <= n + u - 1 /\ n + u - 1 < m * u + u
  BY SMT
<1>2. (m - 1) * u = m * u - u
  BY <1>1, SMT
<1>3. ASSUME NEW c \in 1 .. m PROVE (c - 1) * u \in Nat /\ (c - 1) * u < n
  <2>1. c - 1 \in Nat /\ m - 1 \in Nat /\ c - 1 <= m - 1
    BY <1>1
  <2>2. (c - 1) * u \in Nat /\ (c - 1) * u <= (m - 1) * u
    <3> HIDE DEF m
    <3>1. \A x, y \in Nat : x <= y => x * u \in Nat /\ y * u \in Nat /\ x * u <= y * u
      BY SMT
    <3> QED
      BY <2>1, <3>1
  <2>3. m * u \in Nat
    BY <1>1
  <2> HIDE DEF m
  <2> QED
    BY <1>1, <1>2, <2>2, <2>3
<1>4. n <= (m - 1) * u + u
  <2>1. m * u \in Nat
    BY <1>1
  <2> HIDE DEF m
  <2> QED
    BY <1>1, <1>2, <2>1
<1>5. ASSUME NEW b \in Nat, b < n
      PROVE  \E c \in 1 .. m : (c - 1) * u <= b /\ b < (c - 1) * u + u
  <2> DEFINE c == b \div u + 1
  <2>1. b \div u \in Nat /\ (b \div u) * u <= b /\ b < (b \div u) * u + u
    BY SMT
  <2>2. b \div u + 1 <= m
    BY <1>5, SMT
  <2>3. c \in 1 .. m /\ c - 1 = b \div u
    BY <2>1, <2>2, <1>1
  <2> HIDE DEF c
  <2> QED
    BY <2>1, <2>3
<1> QED
  BY <1>1, <1>3, <1>4, <1>5

(* The writes of a tensor put there what belongs there, all of it, and the *)
(* last one ends where the tensor ends.                                    *)
WritesTensor(s, v, k, q) ==
  /\ \A i \in 1 .. Len(q) : PlacesTensor(s, v, k, q[i])
  /\ \A p \in Nat : \A cell :
       Placed(s, v, k, p, cell) => \E i \in 1 .. Len(q) : Covers(q[i], p)
  /\ Len(q) > 0 =>
       q[Len(q)].at + Len(q[Len(q)].cells) = Cursors(s, v)[k]

LEMMA TensorPlaces ==
  ASSUME NEW s \in GgufModels, NEW v, Convertible(s, v), NEW k \in Tensors(s)
  PROVE  /\ \E U : TensorWrites(s, v, k) \in Seq(U)
         /\ WritesTensor(s, v, k, TensorWrites(s, v, k))
<1> USE ModelTyped
<1> DEFINE e  == Entry(s, v, k)
           q  == TensorWrites(s, v, k)
           a  == At(s, v, k)
           n  == s.tensors[k].blocks
           o  == s.tensors[k].offset
           sb == StoredBytes(s, k)
           qh == QhOffset(a, n)
           qs == QsOffset(a, n)
<1>1. CASE Repacked(s, v, k)
  <2> DEFINE m == (n + ChunkBlocks - 1) \div ChunkBlocks
             at(c) == (c - 1) * ChunkBlocks
             cw(c) == ChunkWrites(s, e, k, at(c))
             ss == [c \in 1 .. m |-> cw(c)]
             U == {cw(c)[i] : c \in 1 .. m, i \in 1 .. 3}
  <2>1. q = FlattenSeq(ss)
    BY <1>1 DEF TensorWrites
  <2>2. /\ m \in Nat
        /\ \A c \in 1 .. m : at(c) \in Nat /\ at(c) < n
        /\ n <= at(m) + ChunkBlocks
        /\ \A b \in Nat : b < n =>
             \E c \in 1 .. m : at(c) <= b /\ b < at(c) + ChunkBlocks
    BY Chunks
  <2> HIDE DEF m, at
  <2>3. ASSUME NEW c \in 1 .. m
        PROVE  /\ Len(cw(c)) = 3 /\ cw(c) = <<cw(c)[1], cw(c)[2], cw(c)[3]>>
               /\ \A i \in 1 .. 3 : PlacesTensor(s, v, k, cw(c)[i])
               /\ \A b \in Nat : at(c) <= b /\ b < n /\ b < at(c) + ChunkBlocks =>
                    /\ Covers(cw(c)[1], a + b)
                    /\ Covers(cw(c)[2], qh + b)
                    /\ Covers(cw(c)[3], qs + 2 * b)
                    /\ Covers(cw(c)[3], qs + 2 * b + 1)
               /\ n <= at(c) + ChunkBlocks =>
                    cw(c)[3].at + Len(cw(c)[3].cells) = Cursors(s, v)[k]
    <3>1. at(c) \in Nat /\ at(c) < s.tensors[k].blocks
      BY <2>2
    <3> HIDE DEF n
    <3> QED
      BY <1>1, <3>1, ChunkPlaces DEF n
  <2> HIDE DEF cw, e, q, a, n, qh, qs
  <2>4. ss \in Seq(Seq(U)) /\ Len(ss) = m /\ \A c \in 1 .. m : ss[c] = cw(c)
    <3>1. ASSUME NEW c \in 1 .. m PROVE cw(c) \in Seq(U)
      <4>1. cw(c)[1] \in U /\ cw(c)[2] \in U /\ cw(c)[3] \in U
        OBVIOUS
      <4> HIDE DEF U
      <4>2. <<cw(c)[1], cw(c)[2], cw(c)[3]>> \in Seq(U)
        BY <4>1
      <4> QED
        BY <2>3, <4>2
    <3> HIDE DEF U
    <3> QED
      BY <2>2, <3>1
  <2> HIDE DEF U
  <2>5. q \in Seq(U) /\ Joins(ss, m, q)
    BY <2>1, <2>4, Flattened
  <2> HIDE DEF ss
  <2>6. ASSUME NEW i \in 1 .. Len(q) PROVE PlacesTensor(s, v, k, q[i])
    <3>1. PICK c \in 1 .. m : \E j \in 1 .. Len(ss[c]) : q[i] = ss[c][j]
      BY <2>5 DEF Joins
    <3> QED
      BY <2>3, <2>4, <3>1
  <2>7. ASSUME NEW c \in 1 .. m, NEW j \in 1 .. 3
        PROVE  \E i \in 1 .. Len(q) : q[i] = cw(c)[j]
    <3>1. j \in 1 .. Len(ss[c]) /\ ss[c][j] = cw(c)[j]
      BY <2>3, <2>4
    <3> QED
      BY <2>5, <3>1 DEF Joins
  <2>8. ASSUME NEW p \in Nat, NEW cell, Placed(s, v, k, p, cell)
        PROVE  \E i \in 1 .. Len(q) : Covers(q[i], p)
    <3>1. a \in Nat /\ n \in Nat /\ qh \in Nat /\ qs \in Nat
      BY Geometry DEF a, n, qh, qs
    <3>2. \/ a <= p /\ p < a + n
          \/ qh <= p /\ p < qh + n
          \/ qs <= p /\ p < qs + 2 * n
      BY <1>1, <2>8 DEF Placed, a, n, qh, qs
    <3>3. \E b \in Nat : b < n /\ p \in {a + b, qh + b, qs + 2 * b, qs + 2 * b + 1}
      <4>1. CASE a <= p /\ p < a + n
        <5>1. p - a \in Nat /\ p - a < n /\ p = a + (p - a)
          BY <3>1, <4>1
        <5> QED
          BY <5>1
      <4>2. CASE qh <= p /\ p < qh + n
        <5>1. p - qh \in Nat /\ p - qh < n /\ p = qh + (p - qh)
          BY <3>1, <4>2
        <5> QED
          BY <5>1
      <4>3. CASE qs <= p /\ p < qs + 2 * n
        <5> DEFINE b == (p - qs) \div 2
        <5>1. b \in Nat /\ b < n /\ (p = qs + 2 * b \/ p = qs + 2 * b + 1)
          BY <3>1, <4>3
        <5> HIDE DEF b
        <5> QED
          BY <5>1
      <4> QED
        BY <3>2, <4>1, <4>2, <4>3
    <3>4. PICK b \in Nat : /\ b < n
                           /\ p \in {a + b, qh + b, qs + 2 * b, qs + 2 * b + 1}
      BY <3>3
    <3>5. PICK c \in 1 .. m : at(c) <= b /\ b < at(c) + ChunkBlocks
      BY <2>2, <3>4
    <3>6. \E j \in 1 .. 3 : Covers(cw(c)[j], p)
      <4>1. /\ Covers(cw(c)[1], a + b) /\ Covers(cw(c)[2], qh + b)
            /\ Covers(cw(c)[3], qs + 2 * b) /\ Covers(cw(c)[3], qs + 2 * b + 1)
        BY <2>3, <3>4, <3>5
      <4>2. 1 \in 1 .. 3 /\ 2 \in 1 .. 3 /\ 3 \in 1 .. 3
        OBVIOUS
      <4>3. p = a + b \/ p = qh + b \/ p = qs + 2 * b \/ p = qs + 2 * b + 1
        BY <3>4
      <4> QED
        BY <4>1, <4>2, <4>3, Zenon
    <3> QED
      BY <2>7, <3>6
  <2>9. ASSUME Len(q) > 0
        PROVE  q[Len(q)].at + Len(q[Len(q)].cells) = Cursors(s, v)[k]
    <3>1. PICK c \in 1 .. m :
            /\ Len(ss[c]) > 0 /\ q[Len(q)] = ss[c][Len(ss[c])]
            /\ \A l \in c + 1 .. m : Len(ss[l]) = 0
      BY <2>5, <2>9 DEF Joins
    <3>2. c = m
      <4>1. SUFFICES ASSUME c # m PROVE FALSE
        OBVIOUS
      <4>2. m \in c + 1 .. m /\ m \in 1 .. m
        BY <2>2, <4>1
      <4>3. ss[m] = cw(m) /\ Len(cw(m)) = 3 /\ 3 # 0
        BY <2>3, <2>4, <4>2
      <4> QED
        BY <3>1, <4>2, <4>3, Zenon
    <3>3. q[Len(q)] = cw(m)[3] /\ m \in 1 .. m
      BY <2>3, <2>4, <3>1, <3>2
    <3> QED
      BY <2>2, <2>3, <3>3
  <2>10. WritesTensor(s, v, k, q)
    BY <2>6, <2>8, <2>9 DEF WritesTensor
  <2> QED
    BY <2>5, <2>10 DEF q
<1>2. CASE ~Repacked(s, v, k)
  <2> DEFINE cells == [i \in 1 .. sb |-> SourceCell(s, o + i - 1)]
             w == [at |-> a, cells |-> cells]
  <2>1. q = <<w>>
    BY <1>2 DEF TensorWrites, Entry, At
  <2>2. /\ a \in Nat /\ sb \in Nat /\ o \in Nat
        /\ Cursors(s, v)[k] = a + sb
    BY <1>2, Geometry
  <2> HIDE DEF e, q, a, sb, o
  <2>3. DOMAIN cells = 1 .. sb /\ Len(cells) = sb
        /\ \A i \in 1 .. sb : cells[i] = SourceCell(s, o + i - 1)
    BY <2>2, FunIsSeq
  <2> HIDE DEF cells
  <2>4. IsWrite(w) /\ w.at = a /\ w.cells = cells
    BY <2>2, <2>3 DEF IsWrite
  <2> HIDE DEF w
  <2>5. q \in Seq({w}) /\ Len(q) = 1 /\ q[1] = w
    BY <2>1
  <2>6. PlacesTensor(s, v, k, w)
    <3>1. ASSUME NEW i \in 1 .. sb PROVE Placed(s, v, k, a + i - 1, cells[i])
      <4>1. a <= a + i - 1 /\ a + i - 1 < a + sb /\ o + ((a + i - 1) - a) = o + i - 1
        BY <2>2
      <4>2. cells[i] = SourceCell(s, o + ((a + i - 1) - a))
        BY <2>3, <4>1
      <4> QED
        BY <1>2, <4>1, <4>2 DEF Placed, a, sb, o
    <3> QED
      BY <2>3, <2>4, <3>1 DEF PlacesTensor
  <2>7. ASSUME NEW p \in Nat, NEW cell, Placed(s, v, k, p, cell)
        PROVE  Covers(w, p)
    <3>1. a <= p /\ p < a + sb
      BY <1>2, <2>7 DEF Placed, a, sb
    <3> QED
      BY <2>3, <2>4, <3>1 DEF Covers
  <2>8. WritesTensor(s, v, k, q)
    <3>1. \A i \in 1 .. 1 : i = 1
      OBVIOUS
    <3>2. 1 \in 1 .. 1
      OBVIOUS
    <3>3. w.at + Len(w.cells) = Cursors(s, v)[k]
      BY <2>2, <2>3, <2>4
    <3> QED
      BY <2>5, <2>6, <2>7, <3>1, <3>2, <3>3 DEF WritesTensor
  <2> QED
    BY <2>5, <2>8 DEF q
<1> QED
  BY <1>1, <1>2

-----------------------------------------------------------------------------
(* The writes of a conversion by name, and where the padding begins.       *)
BlankWrite == [at |-> 0, cells |-> <<Zero>>]

DirectoryWrite(s, v) ==
  [at    |-> DirectoryOffset,
   cells |-> [k \in Tensors(s) |-> <<"entry", Entry(s, v, k)>>]]

ManifestWrite(s) ==
  [at |-> ManifestOffset(s), cells |-> << <<"manifest", 0>> >>]

MetaWrite(s) ==
  [at |-> RawMetaOffset(s), cells |-> [n \in 1 .. s.meta |-> <<"meta", n>>]]

ModelWrites(s, v) ==
  FlattenSeq([k \in Tensors(s) |-> TensorWrites(s, v, k)])

Unpadded(s, v) ==
  <<BlankWrite, DirectoryWrite(s, v), ManifestWrite(s), MetaWrite(s)>>
    \o ModelWrites(s, v)

Here(s, v) ==
  LET all == Unpadded(s, v)
  IN  all[Len(all)].at + Len(all[Len(all)].cells)

PaddingWrite(s, v) ==
  [at    |-> Here(s, v),
   cells |-> [n \in 1 .. DataEnd(s, v) - Here(s, v) |-> Zero]]

HeaderWrite(s, v) == [at |-> 0, cells |-> << <<"header", Header(s, v)>> >>]

Named(s, v) == {DirectoryWrite(s, v), ManifestWrite(s), MetaWrite(s),
                PaddingWrite(s, v), HeaderWrite(s, v)}

LEMMA Concatenated ==
  ASSUME NEW U, NEW p \in Seq(U), NEW q \in Seq(U)
  PROVE  /\ p \o q \in Seq(U) /\ Len(p) \in Nat /\ Len(q) \in Nat
         /\ Len(p \o q) = Len(p) + Len(q)
         /\ \A i \in 1 .. Len(p) : (p \o q)[i] = p[i]
         /\ \A j \in 1 .. Len(q) : (p \o q)[Len(p) + j] = q[j]
  OBVIOUS

LEMMA ModelWritesJoin ==
  ASSUME NEW s \in GgufModels, NEW v, Convertible(s, v)
  PROVE  /\ \E U : ModelWrites(s, v) \in Seq(U)
         /\ Len(ModelWrites(s, v)) \in Nat
         /\ Joins([k \in Tensors(s) |-> TensorWrites(s, v, k)],
                  Len(s.tensors), ModelWrites(s, v))
<1> DEFINE tw(k) == TensorWrites(s, v, k)
           ss == [k \in Tensors(s) |-> tw(k)]
           L == Len(s.tensors)
           U == UNION {{tw(k)[i] : i \in 1 .. Len(tw(k))} : k \in Tensors(s)}
<1>1. L \in Nat /\ Tensors(s) = 1 .. L
  BY ModelTyped
<1>2. ASSUME NEW k \in Tensors(s) PROVE tw(k) \in Seq(U)
  <2> DEFINE S == {tw(k)[i] : i \in 1 .. Len(tw(k))}
  <2>1. \E V : tw(k) \in Seq(V)
    BY TensorPlaces
  <2>2. tw(k) \in Seq(S)
    <3> HIDE DEF tw
    <3> QED
      BY <2>1
  <2>3. S \subseteq U
    OBVIOUS
  <2> HIDE DEF S, U, tw
  <2> QED
    BY <2>2, <2>3
<1> HIDE DEF U, tw
<1>3. ss \in Seq(Seq(U)) /\ Len(ss) = L
  BY <1>1, <1>2
<1>4. FlattenSeq(ss) \in Seq(U) /\ Joins(ss, L, FlattenSeq(ss))
  BY <1>3, Flattened
<1> HIDE DEF ss
<1>5. ModelWrites(s, v) = FlattenSeq(ss)
  BY DEF ModelWrites, ss, tw
<1>6. ModelWrites(s, v) \in Seq(U) /\ Len(ModelWrites(s, v)) \in Nat
  BY <1>4, <1>5
<1> QED
  BY <1>4, <1>5, <1>6 DEF ss, tw

(* What the sequence of writes consists of.                                *)
LEMMA WritesConsist ==
  ASSUME NEW s \in GgufModels, NEW v, Convertible(s, v)
  PROVE  LET W == Writes(s, v)
             M == ModelWrites(s, v)
         IN  /\ Len(W) \in Nat /\ DOMAIN W = 1 .. Len(W) /\ Len(W) >= 2
             /\ W[1] = BlankWrite
             /\ \A i \in 2 .. Len(W) :
                  \/ W[i] \in Named(s, v)
                  \/ \E j \in 1 .. Len(M) : W[i] = M[j]
             /\ \A w \in Named(s, v) : \E i \in 2 .. Len(W) : W[i] = w
             /\ \A j \in 1 .. Len(M) : \E i \in 2 .. Len(W) : W[i] = M[j]
             /\ Len(M) = 0 => Here(s, v) = RawMetaOffset(s) + s.meta
             /\ Len(M) > 0 =>
                  Here(s, v) = M[Len(M)].at + Len(M[Len(M)].cells)
<1> DEFINE W == Writes(s, v)
           M == ModelWrites(s, v)
           d == DirectoryWrite(s, v)
           f == ManifestWrite(s)
           m == MetaWrite(s)
           z == PaddingWrite(s, v)
           h == HeaderWrite(s, v)
           b == BlankWrite
           front == <<b, d, f, m>>
           all == front \o M
           tail == <<z, h>>
<1>1. W = all \o tail /\ all = Unpadded(s, v)
  BY DEF Writes, Unpadded, ModelWrites, BlankWrite, DirectoryWrite,
     ManifestWrite, MetaWrite, PaddingWrite, HeaderWrite, Here
<1>2. PICK U : M \in Seq(U)
  BY ModelWritesJoin
<1>3. Len(m.cells) = s.meta /\ m.at = RawMetaOffset(s)
  <2> DEFINE q == [n \in 1 .. s.meta |-> <<"meta", n>>]
  <2>1. s.meta \in Nat
    BY ModelTyped
  <2>2. Len(q) = s.meta
    BY <2>1, FunIsSeq
  <2> QED
    BY <2>2 DEF MetaWrite
<1> HIDE DEF W, M, d, f, m, z, h, b
<1> DEFINE V == U \cup {b, d, f, m, z, h}
<1>4. /\ front \in Seq(V) /\ M \in Seq(V) /\ tail \in Seq(V)
      /\ Len(front) = 4 /\ Len(tail) = 2
  BY <1>2
<1>5. /\ front[1] = b /\ front[2] = d /\ front[3] = f /\ front[4] = m
      /\ tail[1] = z /\ tail[2] = h
  OBVIOUS
<1> HIDE DEF V, front, tail
<1>6. /\ all \in Seq(V) /\ Len(M) \in Nat /\ Len(all) = 4 + Len(M)
      /\ \A i \in 1 .. 4 : all[i] = front[i]
      /\ \A j \in 1 .. Len(M) : all[4 + j] = M[j]
  <2>1. /\ all \in Seq(V) /\ Len(M) \in Nat /\ Len(all) = Len(front) + Len(M)
        /\ \A i \in 1 .. Len(front) : all[i] = front[i]
        /\ \A j \in 1 .. Len(M) : all[Len(front) + j] = M[j]
    <3>1. front \in Seq(V) /\ M \in Seq(V)
      BY <1>4
    <3> QED
      BY <3>1, Concatenated
  <2> HIDE DEF all
  <2> QED
    BY <1>4, <2>1
<1> HIDE DEF all
<1>7. /\ W \in Seq(V) /\ Len(W) = Len(all) + 2
      /\ \A i \in 1 .. Len(all) : W[i] = all[i]
      /\ \A j \in 1 .. 2 : W[Len(all) + j] = tail[j]
  <2>1. /\ W \in Seq(V) /\ Len(W) = Len(all) + Len(tail)
        /\ \A i \in 1 .. Len(all) : W[i] = all[i]
        /\ \A j \in 1 .. Len(tail) : W[Len(all) + j] = tail[j]
    <3>1. all \in Seq(V) /\ tail \in Seq(V) /\ W = all \o tail
      BY <1>1, <1>4, <1>6
    <3> QED
      BY <3>1, Concatenated
  <2> QED
    BY <1>4, <2>1
<1>8. /\ Len(W) = 6 + Len(M) /\ DOMAIN W = 1 .. Len(W)
      /\ W[1] = b /\ W[2] = d /\ W[3] = f /\ W[4] = m
  BY <1>5, <1>6, <1>7
<1>9. ASSUME NEW j \in 1 .. Len(M) PROVE W[4 + j] = M[j] /\ 4 + j \in 2 .. Len(W)
  <2>1. 4 + j \in 1 .. Len(all) /\ 4 + j \in 2 .. Len(W)
    BY <1>6, <1>8
  <2>2. W[4 + j] = all[4 + j]
    BY <1>7, <2>1
  <2> QED
    BY <1>6, <2>1, <2>2
<1>10. W[5 + Len(M)] = z /\ W[6 + Len(M)] = h
  <2>1. W[Len(all) + 1] = tail[1] /\ W[Len(all) + 2] = tail[2]
    <3>1. 1 \in 1 .. 2 /\ 2 \in 1 .. 2
      OBVIOUS
    <3> QED
      BY <1>7, <3>1
  <2>2. Len(all) + 1 = 5 + Len(M) /\ Len(all) + 2 = 6 + Len(M)
    BY <1>6
  <2> QED
    BY <1>5, <2>1, <2>2
<1>11. ASSUME NEW i \in 2 .. Len(W)
       PROVE  W[i] \in {d, f, m, z, h} \/ \E j \in 1 .. Len(M) : W[i] = M[j]
  <2>1. \/ i = 2 \/ i = 3 \/ i = 4 \/ i = 5 + Len(M) \/ i = 6 + Len(M)
        \/ i - 4 \in 1 .. Len(M) /\ i = 4 + (i - 4)
    BY <1>6, <1>8
  <2>2. CASE i - 4 \in 1 .. Len(M) /\ i = 4 + (i - 4)
    <3>1. W[4 + (i - 4)] = M[i - 4]
      BY <1>9, <2>2, Zenon
    <3> QED
      BY <2>2, <3>1
  <2> QED
    BY <1>8, <1>10, <2>1, <2>2
<1>12. ASSUME NEW w \in {d, f, m, z, h} PROVE \E i \in 2 .. Len(W) : W[i] = w
  <2>1. /\ 2 \in 2 .. Len(W) /\ 3 \in 2 .. Len(W) /\ 4 \in 2 .. Len(W)
        /\ 5 + Len(M) \in 2 .. Len(W) /\ 6 + Len(M) \in 2 .. Len(W)
    BY <1>6, <1>8
  <2>2. w = d \/ w = f \/ w = m \/ w = z \/ w = h
    OBVIOUS
  <2> QED
    BY <1>8, <1>10, <2>1, <2>2, Zenon
<1>13. Named(s, v) = {d, f, m, z, h}
  BY DEF Named, d, f, m, z, h
<1>14. Here(s, v) = all[Len(all)].at + Len(all[Len(all)].cells)
  BY <1>1 DEF Here
<1>15. ASSUME Len(M) = 0 PROVE Here(s, v) = RawMetaOffset(s) + s.meta
  <2>1. Len(all) = 4 /\ all[4] = m
    BY <1>5, <1>6, <1>15
  <2> QED
    BY <1>3, <1>14, <2>1 DEF m
<1>16. ASSUME Len(M) > 0
       PROVE  Here(s, v) = M[Len(M)].at + Len(M[Len(M)].cells)
  <2>1. Len(M) \in 1 .. Len(M)
    BY <1>6, <1>16
  <2>2. all[4 + Len(M)] = M[Len(M)]
    <3>1. \A j \in 1 .. Len(M) : all[4 + j] = M[j]
      BY <1>6
    <3> QED
      BY <2>1, <3>1, Zenon
  <2>3. all[Len(all)] = M[Len(M)]
    BY <1>6, <2>2
  <2> QED
    BY <1>14, <2>3
<1>17. \A j \in 1 .. Len(M) : \E i \in 2 .. Len(W) : W[i] = M[j]
  BY <1>9
<1>18. Len(W) \in Nat /\ Len(W) >= 2
  BY <1>6, <1>8
<1> QED
  BY <1>8, <1>11, <1>12, <1>13, <1>15, <1>16, <1>17, <1>18 DEF W, M, b

(* The padding begins behind everything that belongs to a tensor, and not  *)
(* behind the end of the data.                                             *)
LEMMA PaddingIsLast ==
  ASSUME NEW s \in GgufModels, NEW v, Convertible(s, v)
  PROVE  /\ Here(s, v) \in Nat /\ DataEnd(s, v) \in Nat
         /\ RawMetaOffset(s) + s.meta <= Here(s, v)
         /\ DataOffset(s) <= DataEnd(s, v)
         /\ Here(s, v) <= DataEnd(s, v)
         /\ \A k \in Tensors(s) : \A p \in Nat : \A cell :
              Placed(s, v, k, p, cell) => DataOffset(s) <= p /\ p < Here(s, v)
<1> DEFINE C == Cursors(s, v)
           L == Len(s.tensors)
           M == ModelWrites(s, v)
           h == Here(s, v)
           tw(k) == TensorWrites(s, v, k)
           ss == [k \in Tensors(s) |-> tw(k)]
<1>1. /\ L \in Nat /\ Tensors(s) = 1 .. L /\ s.meta \in Nat
      /\ RawMetaOffset(s) \in Nat /\ DataOffset(s) \in Nat
      /\ RawMetaOffset(s) + s.meta <= DataOffset(s)
  BY ModelTyped, FrontRises
<1>2. /\ \A k \in 0 .. L : C[k] \in Nat
      /\ C[0] = DataOffset(s) /\ DataEnd(s, v) = C[L]
  BY CursorsRise, CursorSteps DEF DataEnd
<1>3. \A k \in 0 .. L : DataOffset(s) <= C[k] /\ C[k] <= C[L]
  <2>1. ASSUME NEW k \in 0 .. L PROVE C[0] <= C[k] /\ C[k] <= C[L]
    <3>1. 0 \in 0 .. L /\ k \in 0 .. L /\ L \in k .. L
      BY <1>1
    <3> HIDE DEF C
    <3> QED
      BY <3>1, CursorsMonotone DEF C
  <2> QED
    BY <1>2, <2>1
<1>4. /\ Joins(ss, L, M) /\ Len(M) \in Nat
      /\ \A k \in Tensors(s) : WritesTensor(s, v, k, ss[k])
      /\ Len(M) = 0 => h = RawMetaOffset(s) + s.meta
      /\ Len(M) > 0 => h = M[Len(M)].at + Len(M[Len(M)].cells)
  <2>1. Joins(ss, L, M) /\ Len(M) \in Nat
    BY ModelWritesJoin
  <2>2. \A k \in Tensors(s) : WritesTensor(s, v, k, ss[k])
    BY TensorPlaces
  <2> QED
    BY <2>1, <2>2, WritesConsist
<1> HIDE DEF C, M, h, ss
<1>5. ASSUME NEW k \in Tensors(s), NEW p \in Nat, NEW cell,
             Placed(s, v, k, p, cell)
      PROVE  /\ DataOffset(s) <= p /\ p < C[k]
             /\ \E i \in 1 .. Len(ss[k]) : TRUE
  <2>1. C[k - 1] <= p /\ p < C[k] /\ k - 1 \in 0 .. L
    BY <1>1, <1>5, PlacedIsInside DEF C
  <2>2. \E i \in 1 .. Len(ss[k]) : Covers(ss[k][i], p)
    BY <1>4, <1>5 DEF WritesTensor
  <2> QED
    BY <1>1, <1>2, <1>3, <2>1, <2>2
<1>6. CASE Len(M) = 0
  <2>1. \A k \in Tensors(s) : \A p \in Nat : \A cell : ~Placed(s, v, k, p, cell)
    <3>1. SUFFICES ASSUME NEW k \in Tensors(s), NEW p \in Nat, NEW cell,
                          Placed(s, v, k, p, cell)
                   PROVE  FALSE
      OBVIOUS
    <3>2. PICK i \in 1 .. Len(ss[k]) : TRUE
      BY <1>5, <3>1
    <3>3. \E m \in 1 .. Len(M) : M[m] = ss[k][i]
      BY <1>1, <1>4, <3>2 DEF Joins
    <3> QED
      BY <1>6, <3>3
  <2> QED
    BY <1>1, <1>2, <1>3, <1>4, <1>6, <2>1 DEF h
<1>7. CASE Len(M) > 0
  <2>1. PICK k \in 1 .. L :
          /\ Len(ss[k]) > 0 /\ M[Len(M)] = ss[k][Len(ss[k])]
          /\ \A l \in k + 1 .. L : Len(ss[l]) = 0
    BY <1>4, <1>7 DEF Joins
  <2>2. h = C[k] /\ k \in 0 .. L
    BY <1>1, <1>4, <1>7, <2>1 DEF WritesTensor, C
  <2>3. ASSUME NEW j \in Tensors(s), NEW p \in Nat, NEW cell,
               Placed(s, v, j, p, cell)
        PROVE  DataOffset(s) <= p /\ p < h
    <3>1. /\ DataOffset(s) <= p /\ p < C[j]
          /\ \E i \in 1 .. Len(ss[j]) : TRUE
      BY <1>5, <2>3
    <3>2. Len(ss[j]) # 0
      BY <3>1
    <3>3. ~(j \in k + 1 .. L)
      BY <2>1, <3>2, Zenon
    <3>4. j \in 0 .. L /\ k \in j .. L
      BY <1>1, <3>3
    <3>5. C[j] <= C[k] /\ C[j] \in Nat /\ C[k] \in Nat
      BY <1>2, <2>2, <3>4, CursorsMonotone DEF C
    <3> QED
      BY <2>2, <3>1, <3>5
  <2> QED
    BY <1>1, <1>2, <1>3, <2>2, <2>3 DEF h
<1> QED
  BY <1>4, <1>6, <1>7

-----------------------------------------------------------------------------
(* The cell that belongs at position p of the finished file.               *)
Belongs(s, v, p, cell) ==
  \/ p = 0 /\ cell = <<"header", Header(s, v)>>
  \/ p \in Tensors(s) /\ cell = <<"entry", Entry(s, v, p)>>
  \/ p = ManifestOffset(s) /\ cell = <<"manifest", 0>>
  \/ /\ RawMetaOffset(s) <= p /\ p < RawMetaOffset(s) + s.meta
     /\ cell = <<"meta", p - RawMetaOffset(s) + 1>>
  \/ \E k \in Tensors(s) : Placed(s, v, k, p, cell)
  \/ Here(s, v) <= p /\ cell = Zero

LEMMA BelongsOnce ==
  ASSUME NEW s \in GgufModels, NEW v, Convertible(s, v), NEW p \in Nat,
         NEW x, Belongs(s, v, p, x), NEW y, Belongs(s, v, p, y)
  PROVE  x = y
<1> DEFINE L == Len(s.tensors)
           mo == ManifestOffset(s)
           ro == RawMetaOffset(s)
           h == Here(s, v)
           d == DataOffset(s)
           inside(c) == \E k \in Tensors(s) : Placed(s, v, k, p, c)
           head == <<"header", Header(s, v)>>
           entry == <<"entry", Entry(s, v, p)>>
           man == <<"manifest", 0>>
           met == <<"meta", p - ro + 1>>
           m == s.meta
<1>1. /\ L \in Nat /\ mo \in Nat /\ ro \in Nat /\ d \in Nat /\ h \in Nat
      /\ m \in Nat /\ m > 0
      /\ mo >= L + 1 /\ ro >= mo + 1 /\ d >= ro + m /\ h >= ro + m
      /\ Tensors(s) = 1 .. L
  BY ModelTyped, FrontRises, PaddingIsLast
<1>2. \A c : inside(c) => d <= p /\ p < h
  BY PaddingIsLast
<1>3. \A a, b : inside(a) /\ inside(b) => a = b
  BY PlacedOnce
<1> DEFINE is(c) == \/ p = 0 /\ c = head
                    \/ 1 <= p /\ p <= L /\ c = entry
                    \/ p = mo /\ c = man
                    \/ ro <= p /\ p < ro + m /\ c = met
                    \/ inside(c)
                    \/ h <= p /\ c = Zero
<1>4. is(x) /\ is(y)
  <2>1. p \in Tensors(s) => 1 <= p /\ p <= L
    BY <1>1
  <2> HIDE DEF inside, head, entry, man, met
  <2> QED
    BY <2>1 DEF Belongs, inside, head, entry, man, met
<1> HIDE DEF L, mo, ro, h, d, inside, head, entry, man, met, m
<1> QED
  BY <1>1, <1>2, <1>3, <1>4

PlacesFile(s, v, w) ==
  /\ IsWrite(w)
  /\ \A i \in 1 .. Len(w.cells) : Belongs(s, v, w.at + i - 1, w.cells[i])

(* Every write but the blank header puts there what belongs there.         *)
LEMMA WritesPlace ==
  ASSUME NEW s \in GgufModels, NEW v, Convertible(s, v)
  PROVE  /\ IsWrite(Writes(s, v)[1])
         /\ \A i \in 2 .. Len(Writes(s, v)) : PlacesFile(s, v, Writes(s, v)[i])
<1> DEFINE W == Writes(s, v)
           M == ModelWrites(s, v)
           L == Len(s.tensors)
           d == DirectoryWrite(s, v)
           f == ManifestWrite(s)
           m == MetaWrite(s)
           z == PaddingWrite(s, v)
           h == HeaderWrite(s, v)
<1>1. /\ L \in Nat /\ Tensors(s) = 1 .. L /\ s.meta \in Nat
      /\ ManifestOffset(s) \in Nat /\ RawMetaOffset(s) \in Nat
      /\ Here(s, v) \in Nat /\ DataEnd(s, v) \in Nat
      /\ Here(s, v) <= DataEnd(s, v)
  BY ModelTyped, FrontRises, PaddingIsLast
<1>2. PlacesFile(s, v, d)
  <2> DEFINE q == [k \in 1 .. L |-> <<"entry", Entry(s, v, k)>>]
  <2>1. Len(q) = L /\ DOMAIN q = 1 .. L
    BY <1>1, FunIsSeq
  <2>2. d.cells = q /\ d.at = 1
    BY <1>1 DEF DirectoryWrite, DirectoryOffset, HeaderCells
  <2>3. ASSUME NEW i \in 1 .. L PROVE Belongs(s, v, 1 + i - 1, q[i])
    <3>1. 1 + i - 1 = i
      OBVIOUS
    <3>2. Belongs(s, v, i, q[i])
      BY <1>1 DEF Belongs
    <3> QED
      BY <3>1, <3>2
  <2> HIDE DEF q, d
  <2> QED
    BY <1>1, <2>1, <2>2, <2>3 DEF PlacesFile, IsWrite
<1>3. PlacesFile(s, v, f)
  <2>1. /\ f.at = ManifestOffset(s) /\ Len(f.cells) = 1 /\ DOMAIN f.cells = 1 .. 1
        /\ f.cells[1] = <<"manifest", 0>>
    BY DEF ManifestWrite
  <2>2. Belongs(s, v, ManifestOffset(s), <<"manifest", 0>>)
    BY DEF Belongs
  <2>3. \A i \in 1 .. 1 : i = 1 /\ ManifestOffset(s) + i - 1 = ManifestOffset(s)
    BY <1>1
  <2> HIDE DEF f
  <2> QED
    BY <1>1, <2>1, <2>2, <2>3 DEF PlacesFile, IsWrite
<1>4. PlacesFile(s, v, m)
  <2> DEFINE q == [n \in 1 .. s.meta |-> <<"meta", n>>]
             ro == RawMetaOffset(s)
  <2>1. Len(q) = s.meta /\ DOMAIN q = 1 .. s.meta
    BY <1>1, FunIsSeq
  <2>2. m.cells = q /\ m.at = ro
    BY DEF MetaWrite
  <2>3. ASSUME NEW i \in 1 .. s.meta PROVE Belongs(s, v, ro + i - 1, q[i])
    <3>1. /\ ro <= ro + i - 1 /\ ro + i - 1 < ro + s.meta
          /\ (ro + i - 1) - ro + 1 = i
      BY <1>1
    <3>2. q[i] = <<"meta", (ro + i - 1) - ro + 1>>
      BY <3>1
    <3> QED
      BY <3>1, <3>2 DEF Belongs
  <2> HIDE DEF q, m
  <2> QED
    BY <1>1, <2>1, <2>2, <2>3 DEF PlacesFile, IsWrite
<1>5. PlacesFile(s, v, z)
  <2> DEFINE n == DataEnd(s, v) - Here(s, v)
             q == [i \in 1 .. n |-> Zero]
  <2>1. n \in Nat
    BY <1>1
  <2>2. z.cells = q /\ z.at = Here(s, v)
    BY DEF PaddingWrite
  <2> HIDE DEF n
  <2>3. Len(q) = n /\ DOMAIN q = 1 .. n /\ \A i \in 1 .. n : q[i] = Zero
    BY <2>1, FunIsSeq
  <2>4. ASSUME NEW i \in 1 .. n PROVE Belongs(s, v, Here(s, v) + i - 1, q[i])
    <3>1. Here(s, v) <= Here(s, v) + i - 1
      BY <1>1
    <3> QED
      BY <2>3, <3>1 DEF Belongs
  <2> HIDE DEF q, z
  <2> QED
    BY <1>1, <2>1, <2>2, <2>3, <2>4 DEF PlacesFile, IsWrite
<1>6. PlacesFile(s, v, h)
  <2>1. /\ h.at = 0 /\ Len(h.cells) = 1 /\ DOMAIN h.cells = 1 .. 1
        /\ h.cells[1] = <<"header", Header(s, v)>>
    BY DEF HeaderWrite
  <2>2. Belongs(s, v, 0, <<"header", Header(s, v)>>)
    BY DEF Belongs
  <2>3. \A i \in 1 .. 1 : i = 1 /\ 0 + i - 1 = 0
    OBVIOUS
  <2> HIDE DEF h
  <2> QED
    BY <2>1, <2>2, <2>3 DEF PlacesFile, IsWrite
<1>7. ASSUME NEW k \in Tensors(s), NEW w, PlacesTensor(s, v, k, w)
      PROVE  PlacesFile(s, v, w)
  BY <1>7 DEF PlacesTensor, PlacesFile, Belongs
<1>8. ASSUME NEW j \in 1 .. Len(M) PROVE PlacesFile(s, v, M[j])
  <2> DEFINE ss == [k \in Tensors(s) |-> TensorWrites(s, v, k)]
  <2>1. Joins(ss, L, M) /\ \A k \in Tensors(s) : ss[k] = TensorWrites(s, v, k)
    BY ModelWritesJoin
  <2> HIDE DEF ss, M
  <2>2. PICK k \in Tensors(s) :
          \E i \in 1 .. Len(TensorWrites(s, v, k)) :
            M[j] = TensorWrites(s, v, k)[i]
    <3>1. PICK k \in 1 .. L : \E i \in 1 .. Len(ss[k]) : M[j] = ss[k][i]
      BY <2>1 DEF Joins
    <3>2. k \in Tensors(s) /\ ss[k] = TensorWrites(s, v, k)
      BY <1>1, <2>1
    <3> QED
      BY <3>1, <3>2
  <2>3. PlacesTensor(s, v, k, M[j])
    BY <2>2, TensorPlaces DEF WritesTensor
  <2> QED
    BY <1>7, <2>3
<1>9. ASSUME NEW w \in Named(s, v) PROVE PlacesFile(s, v, w)
  BY <1>2, <1>3, <1>4, <1>5, <1>6 DEF Named
<1>10. IsWrite(W[1])
  <2>1. W[1] = BlankWrite
    BY WritesConsist
  <2>2. BlankWrite.at = 0 /\ Len(BlankWrite.cells) = 1
        /\ DOMAIN BlankWrite.cells = 1 .. 1
    BY DEF BlankWrite
  <2> QED
    BY <2>1, <2>2 DEF IsWrite
<1>11. \A i \in 2 .. Len(W) : \/ W[i] \in Named(s, v)
                              \/ \E j \in 1 .. Len(M) : W[i] = M[j]
  BY WritesConsist
<1> HIDE DEF W, M
<1> QED
  BY <1>8, <1>9, <1>10, <1>11 DEF W

(* Together they write everything that belongs to the file.                *)
LEMMA EverythingIsWritten ==
  ASSUME NEW s \in GgufModels, NEW v, Convertible(s, v), NEW p \in Nat,
         p < DataEnd(s, v), NEW cell, Belongs(s, v, p, cell)
  PROVE  \E i \in 2 .. Len(Writes(s, v)) : Covers(Writes(s, v)[i], p)
<1> DEFINE W == Writes(s, v)
           M == ModelWrites(s, v)
           L == Len(s.tensors)
<1>1. /\ L \in Nat /\ Tensors(s) = 1 .. L /\ s.meta \in Nat
      /\ ManifestOffset(s) \in Nat /\ RawMetaOffset(s) \in Nat
      /\ Here(s, v) \in Nat /\ DataEnd(s, v) \in Nat
  BY ModelTyped, FrontRises, PaddingIsLast
<1>2. /\ \A w \in Named(s, v) : \E i \in 2 .. Len(W) : W[i] = w
      /\ \A j \in 1 .. Len(M) : \E i \in 2 .. Len(W) : W[i] = M[j]
  BY WritesConsist
<1>3. ASSUME NEW w \in Named(s, v), Covers(w, p)
      PROVE  \E i \in 2 .. Len(W) : Covers(W[i], p)
  BY <1>2, <1>3
<1>4. CASE p = 0
  <2>1. HeaderWrite(s, v).at = 0 /\ Len(HeaderWrite(s, v).cells) = 1
    BY DEF HeaderWrite
  <2>2. HeaderWrite(s, v) \in Named(s, v)
    BY DEF Named
  <2>3. Covers(HeaderWrite(s, v), p)
    BY <1>4, <2>1 DEF Covers
  <2> QED
    BY <1>3, <2>2, <2>3
<1>5. CASE p \in Tensors(s)
  <2> DEFINE q == [k \in 1 .. L |-> <<"entry", Entry(s, v, k)>>]
  <2>1. Len(q) = L
    BY <1>1, FunIsSeq
  <2>2. DirectoryWrite(s, v).cells = q /\ DirectoryWrite(s, v).at = 1
    BY <1>1 DEF DirectoryWrite, DirectoryOffset, HeaderCells
  <2>3. DirectoryWrite(s, v) \in Named(s, v)
    BY DEF Named
  <2>4. Covers(DirectoryWrite(s, v), p)
    BY <1>1, <1>5, <2>1, <2>2 DEF Covers
  <2> QED
    BY <1>3, <2>3, <2>4
<1>6. CASE p = ManifestOffset(s)
  <2>1. /\ ManifestWrite(s).at = ManifestOffset(s)
        /\ Len(ManifestWrite(s).cells) = 1
    BY DEF ManifestWrite
  <2>2. ManifestWrite(s) \in Named(s, v)
    BY DEF Named
  <2>3. Covers(ManifestWrite(s), p)
    BY <1>1, <1>6, <2>1 DEF Covers
  <2> QED
    BY <1>3, <2>2, <2>3
<1>7. CASE RawMetaOffset(s) <= p /\ p < RawMetaOffset(s) + s.meta
  <2> DEFINE q == [n \in 1 .. s.meta |-> <<"meta", n>>]
  <2>1. Len(q) = s.meta
    BY <1>1, FunIsSeq
  <2>2. MetaWrite(s).cells = q /\ MetaWrite(s).at = RawMetaOffset(s)
    BY DEF MetaWrite
  <2>3. MetaWrite(s) \in Named(s, v)
    BY DEF Named
  <2>4. Covers(MetaWrite(s), p)
    BY <1>1, <1>7, <2>1, <2>2 DEF Covers
  <2> QED
    BY <1>3, <2>3, <2>4
<1>8. ASSUME NEW k \in Tensors(s), Placed(s, v, k, p, cell)
      PROVE  \E i \in 2 .. Len(W) : Covers(W[i], p)
  <2>1. Joins([j \in Tensors(s) |-> TensorWrites(s, v, j)], L, M)
    BY ModelWritesJoin
  <2>2. PICK i \in 1 .. Len(TensorWrites(s, v, k)) :
          Covers(TensorWrites(s, v, k)[i], p)
    BY <1>8, TensorPlaces DEF WritesTensor
  <2>3. \E j \in 1 .. Len(M) : M[j] = TensorWrites(s, v, k)[i]
    BY <1>1, <2>1, <2>2 DEF Joins
  <2> QED
    BY <1>2, <2>2, <2>3
<1>9. CASE Here(s, v) <= p
  <2> DEFINE n == DataEnd(s, v) - Here(s, v)
             q == [i \in 1 .. n |-> Zero]
  <2>1. n \in Nat /\ p < Here(s, v) + n
    BY <1>1, <1>9
  <2>2. /\ PaddingWrite(s, v).cells = q /\ PaddingWrite(s, v).at = Here(s, v)
        /\ PaddingWrite(s, v) \in Named(s, v)
    BY DEF PaddingWrite, Named
  <2> HIDE DEF n
  <2>3. Len(q) = n
    BY <2>1, FunIsSeq
  <2>4. Covers(PaddingWrite(s, v), p)
    BY <1>1, <1>9, <2>1, <2>2, <2>3 DEF Covers
  <2> QED
    BY <1>3, <2>2, <2>4
<1> HIDE DEF W
<1> QED
  BY <1>4, <1>5, <1>6, <1>7, <1>8, <1>9 DEF Belongs, W

-----------------------------------------------------------------------------
(* f holds the first i writes of W, the blank header left out: it gives    *)
(* way to the header.                                                      *)
Filled(f, W, i) ==
  /\ Len(f) \in Nat /\ DOMAIN f = 1 .. Len(f)
  /\ \A j \in 2 .. i : \A n \in 1 .. Len(W[j].cells) :
       W[j].at + n <= Len(f) /\ f[W[j].at + n] = W[j].cells[n]

LEMMA WriteWrites ==
  ASSUME NEW f, Len(f) \in Nat, DOMAIN f = 1 .. Len(f), NEW w, IsWrite(w)
  PROVE  LET g == Write(f, w.at, w.cells)
         IN  /\ Len(g) \in Nat /\ DOMAIN g = 1 .. Len(g) /\ Len(f) <= Len(g)
             /\ \A n \in 1 .. Len(w.cells) :
                  w.at + n <= Len(g) /\ g[w.at + n] = w.cells[n]
             /\ \A p \in 1 .. Len(f) : ~Covers(w, p - 1) => g[p] = f[p]
<1> DEFINE at == w.at
           c == w.cells
           g == Write(f, at, c)
           m == Max2(Len(f), at + Len(c))
           put(n) == IF n > at /\ n <= at + Len(c) THEN c[n - at]
                     ELSE IF n <= Len(f) THEN f[n] ELSE Zero
           q == [n \in 1 .. m |-> put(n)]
<1>1. at \in Nat /\ Len(c) \in Nat /\ DOMAIN c = 1 .. Len(c)
  BY DEF IsWrite
<1>2. CASE c = << >>
  <2>1. g = f /\ Len(c) = 0
    BY <1>2 DEF Write
  <2> HIDE DEF g
  <2> QED
    BY <2>1 DEF g
<1>3. CASE c # << >>
  <2>1. g = q
    BY <1>3 DEF Write
  <2>2. m \in Nat /\ Len(f) <= m /\ at + Len(c) <= m
    BY <1>1 DEF Max2
  <2> HIDE DEF m, put
  <2>3. Len(g) = m /\ DOMAIN g = 1 .. m /\ \A n \in 1 .. m : g[n] = put(n)
    <3>1. Len(q) = m /\ DOMAIN q = 1 .. m /\ \A n \in 1 .. m : q[n] = put(n)
      BY <2>2, FunIsSeq
    <3> QED
      BY <2>1, <3>1
  <2> HIDE DEF g, q, at, c
  <2>4. ASSUME NEW n \in 1 .. Len(c) PROVE at + n <= m /\ g[at + n] = c[n]
    <3>1. /\ at + n \in 1 .. m /\ at + n > at /\ at + n <= at + Len(c)
          /\ (at + n) - at = n
      BY <1>1, <2>2
    <3> QED
      BY <2>3, <3>1 DEF put
  <2>5. ASSUME NEW p \in 1 .. Len(f), ~Covers(w, p - 1) PROVE g[p] = f[p]
    <3>1. p \in 1 .. m /\ ~(p > at /\ p <= at + Len(c)) /\ p <= Len(f)
      BY <1>1, <2>2, <2>5 DEF Covers, at, c
    <3> QED
      BY <2>3, <3>1 DEF put
  <2> QED
    BY <2>2, <2>3, <2>4, <2>5 DEF g, at, c
<1> QED
  BY <1>2, <1>3

(* The next write keeps what the earlier ones left.                        *)
LEMMA NextFills ==
  ASSUME NEW s \in GgufModels, NEW v, Convertible(s, v), NEW f,
         NEW i \in 1 .. Len(Writes(s, v)), Filled(f, Writes(s, v), i - 1)
  PROVE  LET w == Writes(s, v)[i]
         IN  Filled(Write(f, w.at, w.cells), Writes(s, v), i)
<1> DEFINE W == Writes(s, v)
           w == W[i]
           g == Write(f, w.at, w.cells)
<1>1. /\ Len(W) \in Nat
      /\ \A j \in 2 .. Len(W) : PlacesFile(s, v, W[j])
      /\ IsWrite(W[1])
  BY WritesConsist, WritesPlace
<1> HIDE DEF W
<1>2. IsWrite(w)
  <2>1. i = 1 \/ i \in 2 .. Len(W)
    BY <1>1 DEF W
  <2> QED
    BY <1>1, <2>1 DEF PlacesFile
<1>3. /\ Len(f) \in Nat /\ DOMAIN f = 1 .. Len(f)
      /\ \A j \in 2 .. i - 1 : \A n \in 1 .. Len(W[j].cells) :
           W[j].at + n <= Len(f) /\ f[W[j].at + n] = W[j].cells[n]
  BY DEF Filled, W
<1>4. /\ Len(g) \in Nat /\ DOMAIN g = 1 .. Len(g) /\ Len(f) <= Len(g)
      /\ \A n \in 1 .. Len(w.cells) :
           w.at + n <= Len(g) /\ g[w.at + n] = w.cells[n]
      /\ \A p \in 1 .. Len(f) : ~Covers(w, p - 1) => g[p] = f[p]
  BY <1>2, <1>3, WriteWrites
<1> HIDE DEF g, w
<1>5. ASSUME NEW j \in 2 .. i, NEW n \in 1 .. Len(W[j].cells)
      PROVE  W[j].at + n <= Len(g) /\ g[W[j].at + n] = W[j].cells[n]
  <2>1. CASE j = i
    BY <1>4, <1>5, <2>1 DEF w
  <2>2. CASE j # i
    <3> DEFINE p == W[j].at + n
    <3>1. j \in 2 .. i - 1 /\ j \in 2 .. Len(W) /\ i \in 2 .. Len(W)
      BY <1>1, <2>2 DEF W
    <3>2. PlacesFile(s, v, W[j]) /\ PlacesFile(s, v, w)
      BY <1>1, <3>1 DEF w
    <3>3. p <= Len(f) /\ f[p] = W[j].cells[n]
      BY <1>3, <3>1
    <3>4. p \in 1 .. Len(f) /\ p <= Len(g) /\ p - 1 \in Nat
          /\ W[j].at + n - 1 = p - 1
      <4>1. W[j].at \in Nat /\ n \in Nat /\ n > 0
        BY <3>2 DEF PlacesFile, IsWrite
      <4>2. W[j].at + n - 1 = p - 1 /\ p \in Nat /\ p > 0 /\ p - 1 \in Nat
        BY <4>1
      <4> HIDE DEF p
      <4> QED
        BY <1>3, <1>4, <3>3, <4>2
    <3>5. Belongs(s, v, p - 1, W[j].cells[n])
      <4> HIDE DEF p
      <4> QED
        BY <3>2, <3>4 DEF PlacesFile
    <3>6. CASE Covers(w, p - 1)
      <4> DEFINE l == p - w.at
      <4>1. l \in 1 .. Len(w.cells) /\ w.at + l = p /\ w.at + l - 1 = p - 1
        <5>1. w.at \in Nat /\ Len(w.cells) \in Nat
          BY <1>2 DEF IsWrite, w
        <5>2. p \in Int
          BY <1>3, <3>4
        <5>3. w.at <= p - 1 /\ p - 1 < w.at + Len(w.cells)
          BY <3>6 DEF Covers
        <5> HIDE DEF p
        <5> QED
          BY <5>1, <5>2, <5>3
      <4> HIDE DEF l, p
      <4>2. Belongs(s, v, p - 1, w.cells[l])
        BY <3>2, <4>1 DEF PlacesFile
      <4>3. w.cells[l] = W[j].cells[n]
        BY <3>4, <3>5, <4>2, BelongsOnce
      <4>4. g[p] = w.cells[l]
        BY <1>4, <4>1
      <4> QED
        BY <3>4, <4>3, <4>4 DEF p
    <3>7. CASE ~Covers(w, p - 1)
      BY <1>4, <3>3, <3>4, <3>7
    <3> QED
      BY <3>6, <3>7
  <2> QED
    BY <2>1, <2>2
<1>6. Filled(g, W, i)
  BY <1>4, <1>5 DEF Filled
<1> QED
  BY <1>6 DEF g, w, W

-----------------------------------------------------------------------------
(* A file with all its writes.                                             *)
Complete(f, s, v) == Filled(f, Writes(s, v), Len(Writes(s, v)))

LEMMA ReadsBack ==
  ASSUME NEW s \in GgufModels, NEW v, Convertible(s, v), NEW f,
         Complete(f, s, v), NEW p \in Nat, p < DataEnd(s, v),
         NEW cell, Belongs(s, v, p, cell)
  PROVE  p < Len(f) /\ f[p + 1] = cell
<1> DEFINE W == Writes(s, v)
<1>1. PICK i \in 2 .. Len(W) : Covers(W[i], p)
  BY EverythingIsWritten
<1>2. PlacesFile(s, v, W[i])
  BY WritesPlace
<1> HIDE DEF W
<1> DEFINE n == p + 1 - W[i].at
<1>3. /\ n \in 1 .. Len(W[i].cells) /\ W[i].at + n = p + 1
      /\ W[i].at + n - 1 = p /\ W[i].at \in Nat
  BY <1>1, <1>2 DEF PlacesFile, IsWrite, Covers
<1> HIDE DEF n
<1>4. Belongs(s, v, p, W[i].cells[n])
  BY <1>2, <1>3 DEF PlacesFile
<1>5. W[i].cells[n] = cell
  BY <1>4, BelongsOnce
<1>6. p + 1 <= Len(f) /\ f[p + 1] = W[i].cells[n] /\ Len(f) \in Nat
  BY <1>1, <1>3 DEF Complete, Filled, W
<1> QED
  BY <1>5, <1>6

LEMMA TensorReadsBack ==
  ASSUME NEW s \in GgufModels, NEW v, Convertible(s, v), NEW f,
         Complete(f, s, v), NEW k \in Tensors(s), NEW p \in Nat,
         NEW cell, Placed(s, v, k, p, cell)
  PROVE  p < Len(f) /\ f[p + 1] = cell
<1>1. p < DataEnd(s, v)
  <2>1. p < Here(s, v) /\ Here(s, v) <= DataEnd(s, v)
        /\ Here(s, v) \in Nat /\ DataEnd(s, v) \in Nat
    BY PaddingIsLast
  <2> QED
    BY <2>1
<1> QED
  BY <1>1, ReadsBack DEF Belongs

LEMMA FrontReadsBack ==
  ASSUME NEW s \in GgufModels, NEW v, Convertible(s, v), NEW f,
         Complete(f, s, v)
  PROVE  /\ HasHeader(f) /\ HeaderOf(f) = Header(s, v)
         /\ Len(f) \in Nat
         /\ \A k \in Tensors(s) : EntryCell(f, k) = <<"entry", Entry(s, v, k)>>
         /\ RawMetaOffset(s) + s.meta <= Len(f)
<1>1. /\ Len(s.tensors) \in Nat /\ Tensors(s) = 1 .. Len(s.tensors)
      /\ s.meta \in Nat /\ s.meta > 0
      /\ ManifestOffset(s) \in Nat /\ RawMetaOffset(s) \in Nat
      /\ DataOffset(s) \in Nat /\ DataEnd(s, v) \in Nat
      /\ ManifestOffset(s) >= Len(s.tensors) + 1
      /\ RawMetaOffset(s) >= ManifestOffset(s) + 1
      /\ DataOffset(s) >= RawMetaOffset(s) + s.meta
      /\ DataOffset(s) <= DataEnd(s, v)
  BY ModelTyped, FrontRises, PaddingIsLast
<1>2. Len(f) \in Nat /\ DOMAIN f = 1 .. Len(f)
  BY DEF Complete, Filled
<1>3. 0 < Len(f) /\ f[0 + 1] = <<"header", Header(s, v)>>
  <2>1. Belongs(s, v, 0, <<"header", Header(s, v)>>)
    BY DEF Belongs
  <2>2. 0 < DataEnd(s, v) /\ 0 \in Nat
    BY <1>1
  <2> QED
    BY <2>1, <2>2, ReadsBack
<1>4. HasHeader(f) /\ HeaderOf(f) = Header(s, v)
  <2>1. f[1] = <<"header", Header(s, v)>> /\ f # << >>
    BY <1>2, <1>3
  <2> QED
    BY <2>1 DEF HasHeader, HeaderOf
<1>5. ASSUME NEW k \in Tensors(s)
      PROVE  EntryCell(f, k) = <<"entry", Entry(s, v, k)>>
  <2>1. Belongs(s, v, k, <<"entry", Entry(s, v, k)>>)
    BY DEF Belongs
  <2>2. k \in Nat /\ k < DataEnd(s, v) /\ 1 + k = k + 1
    BY <1>1
  <2>3. f[k + 1] = <<"entry", Entry(s, v, k)>>
    BY <2>1, <2>2, ReadsBack
  <2>4. Header(s, v).directory_offset = 1
    BY DEF Header, DirectoryOffset, HeaderCells
  <2> QED
    BY <1>4, <2>2, <2>3, <2>4 DEF EntryCell
<1>6. RawMetaOffset(s) + s.meta <= Len(f)
  <2> DEFINE p == RawMetaOffset(s) + s.meta - 1
  <2>1. Belongs(s, v, p, <<"meta", p - RawMetaOffset(s) + 1>>)
    BY <1>1 DEF Belongs
  <2>2. p \in Nat /\ p < DataEnd(s, v)
    BY <1>1
  <2>3. p < Len(f)
    BY <2>1, <2>2, ReadsBack
  <2> QED
    BY <1>1, <1>2, <2>3
<1> QED
  BY <1>2, <1>4, <1>5, <1>6

LEMMA EntryTyped ==
  ASSUME NEW s \in GgufModels, NEW v, Convertible(s, v), NEW k \in Tensors(s)
  PROVE  LET e == Entry(s, v, k)
             n == s.tensors[k].blocks
         IN  /\ e.data_offset = At(s, v, k) /\ e.data_offset \in Nat
             /\ e.data_offset % Alignment = 0
             /\ e.stored_bytes = Cursors(s, v)[k] - At(s, v, k)
             /\ e.stored_bytes \in Nat
             /\ DataOffset(s) <= e.data_offset
             /\ e.data_offset + e.stored_bytes <= DataEnd(s, v)
             /\ Repacked(s, v, k) =>
                  /\ e.layout = "sm86"
                  /\ e.aux0_offset = QhOffset(e.data_offset, n)
                  /\ e.aux1_offset = QsOffset(e.data_offset, n)
                  /\ e.aux0_offset % PlaneAlignment = 0
                  /\ e.aux1_offset % PlaneAlignment = 0
             /\ ~Repacked(s, v, k) => e.layout = "native"
<1> DEFINE e == Entry(s, v, k)
           n == s.tensors[k].blocks
           a == At(s, v, k)
           C == Cursors(s, v)
           L == Len(s.tensors)
<1>1. /\ e.data_offset = a /\ e.stored_bytes = C[k] - a
      /\ Repacked(s, v, k) => /\ e.layout = "sm86"
                              /\ e.aux0_offset = QhOffset(a, n)
                              /\ e.aux1_offset = QsOffset(a, n)
      /\ ~Repacked(s, v, k) => e.layout = "native"
  BY DEF Entry, At
<1>2. /\ k \in 0 .. L /\ k - 1 \in 0 .. L /\ L \in 0 .. L /\ 0 \in 0 .. L
      /\ L \in Nat /\ L \in k .. L /\ k - 1 \in 0 .. L /\ n \in Nat
  BY ModelTyped
<1>3. /\ a \in Nat /\ a % Alignment = 0 /\ C[k - 1] <= a /\ a <= C[k]
      /\ C[k] \in Nat /\ C[k - 1] \in Nat /\ C[L] \in Nat /\ C[0] \in Nat
  BY <1>2, CursorsRise
<1>4. C[0] <= C[k - 1] /\ C[k] <= C[L]
  BY <1>2, CursorsMonotone
<1>5. C[0] = DataOffset(s) /\ C[L] = DataEnd(s, v)
  BY CursorSteps DEF DataEnd
<1>6. QhOffset(a, n) % PlaneAlignment = 0 /\ QsOffset(a, n) % PlaneAlignment = 0
  BY <1>2, <1>3, PlanesRise
<1> HIDE DEF e, n, a, C, L
<1>7. /\ C[k] - a \in Nat /\ DataOffset(s) <= a
      /\ a + (C[k] - a) <= DataEnd(s, v)
  BY <1>3, <1>4, <1>5
<1> QED
  BY <1>1, <1>3, <1>6, <1>7 DEF e, n, a, C, L

(* The two readers want the same of a finished file, whichever tensors are *)
(* empty.                                                                  *)
LEMMA ReadersAgree ==
  ASSUME NEW s \in GgufModels, NEW v, Convertible(s, v), NEW f,
         Complete(f, s, v)
  PROVE  PackFileAccepts(f) <=> PackReaderAccepts(f)
<1> DEFINE e(k) == Entry(s, v, k)
           N == 1 .. HeaderOf(f).tensor_count
<1>1. /\ HeaderOf(f) = Header(s, v) /\ Len(f) \in Nat
      /\ \A k \in Tensors(s) : EntryCell(f, k) = <<"entry", e(k)>>
  BY FrontReadsBack
<1>2. N = Tensors(s) /\ HeaderOf(f).data_offset = DataOffset(s)
  BY <1>1, ModelTyped DEF Header
<1>3. \A k \in Tensors(s) :
        /\ EntryCell(f, k)[1] = "entry" /\ EntryCell(f, k)[2] = e(k)
  BY <1>1
<1>4. ASSUME NEW k \in Tensors(s)
      PROVE  /\ e(k).data_offset \in Nat /\ e(k).stored_bytes \in Nat
             /\ DataOffset(s) <= e(k).data_offset
             /\ e(k).layout \in {"native", "sm86"}
             /\ DataOffset(s) \in Nat
  BY EntryTyped, FrontRises
<1>5. ASSUME NEW k \in Tensors(s)
      PROVE  InRange(e(k).data_offset, e(k).stored_bytes, Len(f))
               <=> e(k).data_offset + e(k).stored_bytes <= Len(f)
  BY <1>1, <1>4 DEF InRange
<1> DEFINE file(k) == /\ InRange(e(k).data_offset, e(k).stored_bytes, Len(f))
                      /\ e(k).data_offset >= DataOffset(s)
                      /\ e(k).layout = "sm86" => PlanesInside(e(k))
                      /\ e(k).layout \in {"native", "sm86"}
           reader(k) == /\ e(k).data_offset + e(k).stored_bytes <= Len(f)
                        /\ e(k).layout = "sm86" => PlanesInside(e(k))
           front == /\ HasHeader(f) /\ HeaderOf(f).version \in Versions
                    /\ RegionsInRange(f)
<1>6. \A k \in Tensors(s) : file(k) <=> reader(k)
  <2> HIDE DEF e
  <2> QED
    BY <1>4, <1>5
<1>7. PackFileAccepts(f) <=> front /\ \A k \in Tensors(s) : file(k)
  <2> HIDE DEF e
  <2> QED
    BY <1>2, <1>3 DEF PackFileAccepts
<1>8. PackReaderAccepts(f) <=> front /\ \A k \in Tensors(s) : reader(k)
  <2> HIDE DEF e
  <2> QED
    BY <1>2, <1>3 DEF PackReaderAccepts
<1> HIDE DEF file, reader, front
<1> QED
  BY <1>6, <1>7, <1>8

(* A finished file of a model without empty tensors is as long as its      *)
(* header says.                                                            *)
LEMMA EndIsWritten ==
  ASSUME NEW s \in GgufModels, NEW v, Convertible(s, v), NEW f,
         Complete(f, s, v), NoEmptyTensor(s)
  PROVE  DataEnd(s, v) <= Len(f)
<1> DEFINE L == Len(s.tensors)
           d == DataEnd(s, v)
<1>1. /\ L \in Nat /\ Tensors(s) = 1 .. L
      /\ s.meta \in Nat /\ s.meta > 0 /\ RawMetaOffset(s) \in Nat
      /\ RawMetaOffset(s) + s.meta <= Len(f) /\ Len(f) \in Nat
      /\ d \in Nat /\ Here(s, v) \in Nat
  BY ModelTyped, FrontRises, PaddingIsLast, FrontReadsBack
<1>2. CASE L = 0
  <2>1. CASE RawMetaOffset(s) + s.meta < d
    <3>1. Len(ModelWrites(s, v)) = 0
      <4>1. /\ Joins([k \in Tensors(s) |-> TensorWrites(s, v, k)], 0,
                     ModelWrites(s, v))
            /\ Len(ModelWrites(s, v)) \in Nat
        BY <1>2, ModelWritesJoin
      <4>2. \A i \in 1 .. 0 : FALSE
        OBVIOUS
      <4>3. ~(Len(ModelWrites(s, v)) > 0)
        BY <4>1, <4>2 DEF Joins
      <4> QED
        BY <4>1, <4>3
    <3>2. Here(s, v) = RawMetaOffset(s) + s.meta
      BY <3>1, WritesConsist
    <3>3. d - 1 \in Nat /\ d - 1 < d /\ Here(s, v) <= d - 1
      BY <1>1, <2>1, <3>2
    <3>4. Belongs(s, v, d - 1, Zero)
      BY <3>3 DEF Belongs
    <3>5. d - 1 < Len(f)
      BY <3>3, <3>4, ReadsBack
    <3> QED
      BY <1>1, <3>5
  <2> QED
    BY <1>1, <2>1
<1>3. CASE L # 0
  <2>1. L \in Tensors(s) /\ d = Cursors(s, v)[L]
    BY <1>1, <1>3 DEF DataEnd
  <2> DEFINE a  == At(s, v, L)
             n  == s.tensors[L].blocks
             o  == s.tensors[L].offset
             qh == QhOffset(a, n)
             qs == QsOffset(a, n)
             p  == d - 1
  <2>2. /\ a \in Nat /\ n \in Nat /\ qh \in Nat /\ qs \in Nat
        /\ a + n <= qh /\ qh + n <= qs
        /\ Repacked(s, v, L) => d = qs + 2 * n
        /\ ~Repacked(s, v, L) => /\ d = a + StoredBytes(s, L)
                                 /\ StoredBytes(s, L) \in Nat
    BY <2>1, Geometry
  <2>3. StoredBytes(s, L) > 0 /\ (Repacked(s, v, L) => n > 0)
    BY <2>1 DEF NoEmptyTensor, Repacked
  <2>4. \E cell : Placed(s, v, L, p, cell)
    <3>1. CASE Repacked(s, v, L)
      <4> DEFINE cell == SourceCell(s, o + ((p - qs) \div 2) * BlockCells
                                         + 2 + ((p - qs) % 2))
      <4>1. qs <= p /\ p < qs + 2 * n
        BY <2>2, <2>3, <3>1
      <4>2. Placed(s, v, L, p, cell)
        BY <3>1, <4>1 DEF Placed
      <4> QED
        BY <4>2
    <3>2. CASE ~Repacked(s, v, L)
      <4> DEFINE cell == SourceCell(s, o + (p - a))
      <4>1. a <= p /\ p < a + StoredBytes(s, L)
        BY <2>2, <2>3, <3>2
      <4>2. Placed(s, v, L, p, cell)
        BY <3>2, <4>1 DEF Placed
      <4> QED
        BY <4>2
    <3> QED
      BY <3>1, <3>2
  <2>5. p \in Nat
    BY <2>2, <2>3
  <2>6. p < Len(f)
    BY <2>1, <2>4, <2>5, TensorReadsBack
  <2> QED
    BY <1>1, <2>6
<1> QED
  BY <1>2, <1>3

LEMMA HoldsItsTensors ==
  ASSUME NEW s \in GgufModels, NEW v, Convertible(s, v), NEW f,
         Complete(f, s, v), NEW k \in Tensors(s)
  PROVE  HoldsTensor(f, s, k)
<1> DEFINE e  == Entry(s, v, k)
           a  == At(s, v, k)
           n  == s.tensors[k].blocks
           o  == s.tensors[k].offset
           qh == QhOffset(a, n)
           qs == QsOffset(a, n)
           sb == StoredBytes(s, k)
<1>1. EntryCell(f, k)[2] = e
  <2>1. EntryCell(f, k) = <<"entry", e>>
    BY FrontReadsBack
  <2> HIDE DEF e
  <2> QED
    BY <2>1
<1>2. /\ e.data_offset = a /\ e.data_offset % Alignment = 0
      /\ e.stored_bytes = Cursors(s, v)[k] - a
      /\ Repacked(s, v, k) =>
           /\ e.layout = "sm86" /\ e.aux0_offset = qh /\ e.aux1_offset = qs
           /\ qh % PlaneAlignment = 0 /\ qs % PlaneAlignment = 0
      /\ ~Repacked(s, v, k) => e.layout = "native"
  BY EntryTyped
<1>3. /\ a \in Nat /\ n \in Nat /\ o \in Nat /\ qh \in Nat /\ qs \in Nat
      /\ a + n <= qh /\ qh + n <= qs
      /\ ~Repacked(s, v, k) => Cursors(s, v)[k] = a + sb /\ sb \in Nat
  BY Geometry, ModelTyped
<1>4. CASE Repacked(s, v, k)
  <2>1. ASSUME NEW b \in 0 .. n - 1
        PROVE  /\ f[a + b * MetaCells + 1] = SourceCell(s, o + b * BlockCells)
               /\ f[qh + b * QhCells + 1]
                    = SourceCell(s, o + b * BlockCells + 1)
               /\ f[qs + b * QsCells + 1]
                    = SourceCell(s, o + b * BlockCells + 2)
               /\ f[qs + b * QsCells + 2]
                    = SourceCell(s, o + b * BlockCells + 3)
    <3>1. /\ b * MetaCells = b /\ b * QhCells = b /\ b * QsCells = 2 * b
          /\ b \in Nat /\ b < n /\ b * BlockCells \in Nat
      BY <1>3 DEF MetaCells, QhCells, QsCells, BlockCells
    <3>2. /\ a + b \in Nat /\ qh + b \in Nat
          /\ qs + 2 * b \in Nat /\ qs + 2 * b + 1 \in Nat
      BY <1>3, <3>1
    <3>3. Placed(s, v, k, a + b, SourceCell(s, o + b * BlockCells))
      <4>1. a <= a + b /\ a + b < a + n /\ (a + b) - a = b
        BY <1>3, <3>1
      <4> QED
        BY <1>4, <4>1 DEF Placed
    <3>4. Placed(s, v, k, qh + b, SourceCell(s, o + b * BlockCells + 1))
      <4>1. qh <= qh + b /\ qh + b < qh + n /\ (qh + b) - qh = b
        BY <1>3, <3>1
      <4> QED
        BY <1>4, <4>1 DEF Placed
    <3>5. ASSUME NEW r \in {0, 1}
          PROVE  Placed(s, v, k, qs + 2 * b + r,
                        SourceCell(s, o + b * BlockCells + 2 + r))
      <4> DEFINE p == qs + 2 * b + r
      <4>1. /\ qs <= p /\ p < qs + 2 * n
            /\ (p - qs) \div 2 = b /\ (p - qs) % 2 = r
        BY <1>3, <3>1
      <4> HIDE DEF p
      <4>2. SourceCell(s, o + b * BlockCells + 2 + r)
              = SourceCell(s, o + ((p - qs) \div 2) * BlockCells
                                + 2 + ((p - qs) % 2))
        BY <4>1
      <4>3. Placed(s, v, k, p, SourceCell(s, o + b * BlockCells + 2 + r))
        BY <1>4, <4>1, <4>2 DEF Placed
      <4> QED
        BY <4>3 DEF p
    <3>6. /\ Placed(s, v, k, qs + 2 * b, SourceCell(s, o + b * BlockCells + 2))
          /\ Placed(s, v, k, qs + 2 * b + 1,
                    SourceCell(s, o + b * BlockCells + 3))
      <4>1. /\ qs + 2 * b + 0 = qs + 2 * b
            /\ o + b * BlockCells + 2 + 0 = o + b * BlockCells + 2
            /\ o + b * BlockCells + 2 + 1 = o + b * BlockCells + 3
        BY <1>3, <3>1
      <4>2. /\ Placed(s, v, k, qs + 2 * b + 0,
                      SourceCell(s, o + b * BlockCells + 2 + 0))
            /\ Placed(s, v, k, qs + 2 * b + 1,
                      SourceCell(s, o + b * BlockCells + 2 + 1))
        BY <3>5
      <4> QED
        BY <4>1, <4>2
    <3> HIDE DEF a, n, o, qh, qs
    <3>7. /\ f[(a + b) + 1] = SourceCell(s, o + b * BlockCells)
          /\ f[(qh + b) + 1] = SourceCell(s, o + b * BlockCells + 1)
          /\ f[(qs + 2 * b) + 1] = SourceCell(s, o + b * BlockCells + 2)
          /\ f[(qs + 2 * b + 1) + 1] = SourceCell(s, o + b * BlockCells + 3)
      BY <3>2, <3>3, <3>4, <3>6, TensorReadsBack
    <3>8. (qs + 2 * b + 1) + 1 = qs + 2 * b + 2
      BY <1>3, <3>1
    <3> QED
      BY <3>1, <3>7, <3>8
  <2>2. e.layout # "native"
    BY <1>2, <1>4
  <2> HIDE DEF e, a, qh, qs
  <2> QED
    BY <1>1, <1>2, <1>4, <2>1, <2>2 DEF HoldsTensor
<1>5. CASE ~Repacked(s, v, k)
  <2>1. e.stored_bytes = sb
    BY <1>2, <1>3, <1>5
  <2>2. ASSUME NEW i \in 0 .. sb - 1
        PROVE  f[a + i + 1] = SourceCell(s, o + i)
    <3>1. /\ a + i \in Nat /\ a <= a + i /\ a + i < a + sb
          /\ (a + i) - a = i
      BY <1>3, <1>5
    <3>2. Placed(s, v, k, a + i, SourceCell(s, o + i))
      BY <1>5, <3>1 DEF Placed
    <3> QED
      BY <3>1, <3>2, TensorReadsBack
  <2> HIDE DEF e, a, sb
  <2> QED
    BY <1>1, <1>2, <1>5, <2>1, <2>2 DEF HoldsTensor, sb
<1> QED
  BY <1>4, <1>5

LEMMA DecodesItsModel ==
  ASSUME NEW s \in GgufModels, NEW v \in Versions, Convertible(s, v), NEW f,
         Complete(f, s, v), NoEmptyTensor(s)
  PROVE  Decodes(f, s)
<1> DEFINE e(k) == Entry(s, v, k)
           h == HeaderOf(f)
<1>1. /\ HasHeader(f) /\ h = Header(s, v) /\ Len(f) \in Nat
      /\ \A k \in Tensors(s) : EntryCell(f, k) = <<"entry", e(k)>>
      /\ RawMetaOffset(s) + s.meta <= Len(f) /\ DataEnd(s, v) <= Len(f)
  BY FrontReadsBack, EndIsWritten
<1>2. /\ Len(s.tensors) \in Nat /\ Tensors(s) = 1 .. Len(s.tensors)
      /\ s.meta \in Nat
      /\ ManifestOffset(s) \in Nat /\ RawMetaOffset(s) \in Nat
      /\ DataOffset(s) \in Nat /\ DataEnd(s, v) \in Nat
      /\ ManifestOffset(s) >= Len(s.tensors) + 1
      /\ RawMetaOffset(s) >= ManifestOffset(s) + 1
      /\ DataOffset(s) <= DataEnd(s, v)
  BY ModelTyped, FrontRises, PaddingIsLast
<1>3. /\ h.version = v /\ h.tensor_count = Len(s.tensors)
      /\ h.directory_offset = 1 /\ h.manifest_offset = ManifestOffset(s)
      /\ h.raw_meta_offset = RawMetaOffset(s) /\ h.raw_meta_bytes = s.meta
      /\ h.data_offset = DataOffset(s)
      /\ h.data_bytes = DataEnd(s, v) - DataOffset(s)
  BY <1>1 DEF Header, DirectoryOffset, HeaderCells
<1> HIDE DEF h
<1>4. RegionsInRange(f)
  <2>1. /\ InRange(1, Len(s.tensors), Len(f))
        /\ InRange(ManifestOffset(s), 1, Len(f))
        /\ InRange(RawMetaOffset(s), s.meta, Len(f))
        /\ InRange(DataOffset(s), DataEnd(s, v) - DataOffset(s), Len(f))
    BY <1>1, <1>2 DEF InRange
  <2>2. h.tensor_count * EntryCells = Len(s.tensors)
    BY <1>2, <1>3 DEF EntryCells
  <2> QED
    BY <1>3, <2>1, <2>2 DEF RegionsInRange, h
<1>5. ASSUME NEW k \in Tensors(s)
      PROVE  /\ InRange(e(k).data_offset, e(k).stored_bytes, Len(f))
             /\ e(k).data_offset >= DataOffset(s)
             /\ e(k).layout = "sm86" => PlanesInside(e(k))
             /\ e(k).layout \in {"native", "sm86"}
  <2> DEFINE a == At(s, v, k)
             n == s.tensors[k].blocks
  <2>1. /\ e(k).data_offset = a /\ e(k).data_offset \in Nat
        /\ e(k).stored_bytes = Cursors(s, v)[k] - a /\ e(k).stored_bytes \in Nat
        /\ DataOffset(s) <= e(k).data_offset
        /\ e(k).data_offset + e(k).stored_bytes <= DataEnd(s, v)
        /\ Repacked(s, v, k) => /\ e(k).layout = "sm86"
                                /\ e(k).aux0_offset = QhOffset(a, n)
                                /\ e(k).aux1_offset = QsOffset(a, n)
        /\ ~Repacked(s, v, k) => e(k).layout = "native"
    BY EntryTyped
  <2>2. /\ a \in Nat /\ n \in Nat /\ QhOffset(a, n) \in Nat
        /\ QsOffset(a, n) \in Nat /\ Cursors(s, v)[k] \in Nat
        /\ a + n <= QhOffset(a, n) /\ QhOffset(a, n) + n <= QsOffset(a, n)
        /\ Repacked(s, v, k) => Cursors(s, v)[k] = QsOffset(a, n) + 2 * n
    BY Geometry
  <2>3. Repacked(s, v, k) => n > 0
    BY DEF NoEmptyTensor, Repacked
  <2> HIDE DEF e, a, n
  <2>4. CASE Repacked(s, v, k)
    <3>1. InRange(e(k).data_offset, e(k).stored_bytes, Len(f))
      BY <1>1, <1>2, <2>1 DEF InRange
    <3> DEFINE c  == Cursors(s, v)[k]
               qh == QhOffset(a, n)
               qs == QsOffset(a, n)
    <3>2. a <= qh /\ qh <= qs /\ qs < a + (c - a)
      <4>1. c = qs + 2 * n /\ n > 0
        BY <2>2, <2>3, <2>4
      <4>2. a \in Nat /\ n \in Nat /\ qh \in Nat /\ qs \in Nat /\ a + n <= qh
            /\ qh + n <= qs
        BY <2>2
      <4> HIDE DEF c, qh, qs
      <4> QED
        BY <4>1, <4>2
    <3>3. PlanesInside(e(k))
      BY <2>1, <2>4, <3>2 DEF PlanesInside
    <3> QED
      BY <2>1, <2>4, <3>1, <3>3
  <2>5. CASE ~Repacked(s, v, k)
    BY <1>1, <1>2, <2>1, <2>5 DEF InRange
  <2> QED
    BY <2>4, <2>5
<1>6. \A k \in Tensors(s) :
        EntryCell(f, k)[1] = "entry" /\ EntryCell(f, k)[2] = e(k)
  <2> HIDE DEF e
  <2> QED
    BY <1>1
<1>7. PackFileAccepts(f)
  <2> HIDE DEF e
  <2> QED
    BY <1>1, <1>2, <1>3, <1>4, <1>5, <1>6 DEF PackFileAccepts, h
<1> QED
  BY <1>3, <1>7, HoldsItsTensors DEF Decodes, h

-----------------------------------------------------------------------------
(* 3. The protocol.                                                        *)
Places == Inodes \cup {NoFile}

ConvType == [pc : {"idle", "open", "write", "replace"},
             source : Sources \cup {NoFile}, version : Versions \cup {0},
             next : Nat, fd : Places]

IsDir(d) ==
  /\ DOMAIN d = Names
  /\ d["tmp"] \in Places /\ d["dest"] \in Places
  /\ d["tmp"] # NoFile => d["tmp"] # d["dest"]

(* The state, whoever overlaps.                                            *)
TypeInv ==
  /\ conv \in [Converters -> ConvType]
  /\ content = [x \in Inodes |-> content[x]]
  /\ dir \in durable
  /\ \A d \in durable : IsDir(d)

(* One conversion at a time, which writes to the temporary file; only a    *)
(* synced file is renamed.                                                 *)
OneWriter ==
  /\ \A c, e \in Converters :
       conv[c].pc # "idle" /\ conv[e].pc # "idle" => c = e
  /\ \A c \in Converters :
       conv[c].pc = "write" => conv[c].fd = dir["tmp"] /\ dir["tmp"] # NoFile
  /\ \A c \in Converters :
       conv[c].pc = "replace" /\ dir["tmp"] # NoFile => dir["tmp"] \in synced

(* The temporary file is no destination that could come back.              *)
TmpIsNew ==
  dir["tmp"] # NoFile => \A d \in durable : d["dest"] # dir["tmp"]

DestinationIsSynced ==
  ~overlapped =>
    \A d \in durable : d["dest"] # NoFile => d["dest"] \in synced

ViewIsApart ==
  view # NoView =>
    /\ view.inode \in Inodes /\ view.inode # dir["tmp"]
    /\ content[view.inode] = view.cells

IInv ==
  /\ TypeInv
  /\ ~overlapped => OneWriter /\ TmpIsNew /\ ViewIsApart
  /\ DestinationIsSynced

-----------------------------------------------------------------------------
Settled == OneWriter /\ TmpIsNew /\ ViewIsApart

LEMMA DirOf ==
  ASSUME TypeInv
  PROVE  IsDir(dir) /\ DOMAIN dir = {"tmp", "dest"}
  BY DEF TypeInv, IsDir, Names

LEMMA InUseContains ==
  /\ \A d \in durable : d["tmp"] \in InUse /\ d["dest"] \in InUse
  /\ view.inode \in InUse
  BY DEF InUse, Names

LEMMA ConvTyped ==
  ASSUME TypeInv, NEW c \in Converters
  PROVE  /\ conv[c] \in ConvType /\ conv[c].next \in Nat /\ conv[c].fd \in Places
         /\ conv[c].pc \in {"idle", "open", "write", "replace"}
<1>1. conv[c] \in ConvType
  BY DEF TypeInv
<1> QED
  BY <1>1 DEF ConvType

LEMMA StartKeeps ==
  ASSUME IInv, NEW c \in Converters, Start(c) PROVE IInv'
<1> USE DEF IInv
<1>1. PICK s \in Sources, v \in Versions :
        conv' = [conv EXCEPT ![c] = [pc |-> "open", source |-> s,
                                     version |-> v, next |-> 1, fd |-> NoFile]]
  BY DEF Start
<1>2. /\ UNCHANGED <<dir, durable, content, synced, built, view>>
      /\ overlapped' = (overlapped \/ \E d \in Converters : conv[d].pc # "idle")
  BY DEF Start
<1>3. TypeInv'
  <2>1. [pc |-> "open", source |-> s, version |-> v, next |-> 1,
         fd |-> NoFile] \in ConvType
    BY DEF ConvType, Places
  <2>2. conv' \in [Converters -> ConvType]
    BY <1>1, <2>1 DEF TypeInv
  <2> QED
    BY <1>2, <2>2 DEF TypeInv, IsDir
<1>4. ASSUME ~overlapped' PROVE Settled'
  <2>1. ~overlapped /\ \A d \in Converters : conv[d].pc = "idle"
    BY <1>2, <1>4
  <2>2. /\ conv'[c].pc = "open"
        /\ \A d \in Converters \ {c} : conv'[d].pc = "idle"
    BY <1>1, <2>1 DEF TypeInv
  <2>3. OneWriter'
    BY <2>2 DEF OneWriter
  <2> QED
    BY <1>2, <2>1, <2>3 DEF Settled, TmpIsNew, ViewIsApart
<1>5. DestinationIsSynced'
  BY <1>2 DEF DestinationIsSynced
<1> QED
  BY <1>3, <1>4, <1>5 DEF Settled

LEMMA OpenTmpKeeps ==
  ASSUME IInv, NEW c \in Converters, OpenTmp(c) PROVE IInv'
<1> USE DEF IInv
<1>1. PICK x \in Inodes :
        /\ \/ dir["tmp"] # NoFile /\ x = dir["tmp"]
           \/ dir["tmp"] = NoFile /\ x \notin InUse
        /\ content' = [content EXCEPT ![x] = << >>]
        /\ synced' = synced \ {x}
        /\ dir' = [dir EXCEPT !["tmp"] = x] /\ durable' = durable \cup {dir'}
        /\ conv' = [conv EXCEPT ![c].pc = "write", ![c].fd = x]
  BY DEF OpenTmp, Relink
<1>2. conv[c].pc = "open" /\ UNCHANGED <<view, overlapped>>
  BY DEF OpenTmp
<1>3. /\ dir'["tmp"] = x /\ dir'["dest"] = dir["dest"] /\ DOMAIN dir' = Names
      /\ dir \in durable /\ x # NoFile
  BY <1>1, DirOf, NoFileAssumption DEF TypeInv, Names
<1>4. dir["dest"] # x
  BY <1>1, <1>3, InUseContains, DirOf DEF IsDir
<1>5. TypeInv'
  <2>1. IsDir(dir')
    BY <1>3, <1>4, DirOf DEF IsDir, Places
  <2>2. conv' \in [Converters -> ConvType]
    <3>1. [conv[c] EXCEPT !.pc = "write", !.fd = x] \in ConvType
      BY ConvTyped DEF ConvType, Places
    <3> QED
      BY <1>1, <3>1 DEF TypeInv
  <2>3. content' = [y \in Inodes |-> content'[y]]
    BY <1>1 DEF TypeInv
  <2>4. dir' \in durable' /\ \A d \in durable' : IsDir(d)
    BY <1>1, <2>1 DEF TypeInv
  <2> QED
    BY <2>2, <2>3, <2>4 DEF TypeInv, IsDir
<1>6. ASSUME ~overlapped, NEW d \in durable PROVE d["dest"] # x
  BY <1>1, <1>6, InUseContains DEF TmpIsNew
<1>7. ASSUME ~overlapped' PROVE Settled'
  <2>1. /\ conv'[c].pc = "write" /\ conv'[c].fd = x
        /\ \A e \in Converters \ {c} : conv'[e] = conv[e]
    BY <1>1, ConvTyped DEF TypeInv, ConvType
  <2>2. \A e \in Converters \ {c} : conv'[e].pc = "idle"
    BY <1>2, <1>7, <2>1 DEF OneWriter
  <2>3. OneWriter'
    BY <1>3, <2>1, <2>2 DEF OneWriter
  <2>4. TmpIsNew'
    BY <1>1, <1>2, <1>3, <1>4, <1>6, <1>7 DEF TmpIsNew
  <2>5. ViewIsApart'
    <3> SUFFICES ASSUME view # NoView
                 PROVE  /\ view.inode # x
                        /\ content'[view.inode] = view.cells
                        /\ view.inode \in Inodes
      BY <1>2, <1>3 DEF ViewIsApart
    <3>1. /\ view.inode \in Inodes /\ view.inode # dir["tmp"]
          /\ content[view.inode] = view.cells
      BY <1>2, <1>7 DEF ViewIsApart
    <3>2. view.inode # x
      BY <1>1, <3>1, InUseContains
    <3> QED
      BY <1>1, <3>1, <3>2 DEF TypeInv
  <2> QED
    BY <2>3, <2>4, <2>5 DEF Settled
<1>8. DestinationIsSynced'
  BY <1>1, <1>2, <1>3, <1>6 DEF DestinationIsSynced
<1> QED
  BY <1>5, <1>7, <1>8 DEF Settled

LEMMA WriteNextKeeps ==
  ASSUME IInv, NEW c \in Converters, WriteNext(c) PROVE IInv'
<1> USE DEF IInv
<1> DEFINE x == conv[c].fd
<1>1. PICK cells : content' = [content EXCEPT ![x] = cells]
  BY DEF WriteNext
<1>2. /\ conv[c].pc = "write" /\ synced' = synced \ {x}
      /\ conv' = [conv EXCEPT ![c].next = @ + 1]
      /\ UNCHANGED <<dir, durable, view, overlapped>>
  BY DEF WriteNext
<1>3. /\ conv'[c].pc = conv[c].pc /\ conv'[c].fd = conv[c].fd
      /\ \A e \in Converters \ {c} : conv'[e] = conv[e]
      /\ conv' \in [Converters -> ConvType]
  <2>1. conv[c].next + 1 \in Nat
    BY ConvTyped
  <2>2. [conv[c] EXCEPT !.next = conv[c].next + 1] \in ConvType
    BY <2>1, ConvTyped DEF ConvType
  <2>3. conv' = [conv EXCEPT ![c] = [conv[c] EXCEPT !.next = conv[c].next + 1]]
    BY <1>2
  <2>4. /\ [conv[c] EXCEPT !.next = conv[c].next + 1].pc = conv[c].pc
        /\ [conv[c] EXCEPT !.next = conv[c].next + 1].fd = conv[c].fd
    BY ConvTyped DEF ConvType
  <2> QED
    BY <2>2, <2>3, <2>4 DEF TypeInv
<1>4. TypeInv'
  <2>1. content' = [y \in Inodes |-> content'[y]]
    BY <1>1 DEF TypeInv
  <2> QED
    BY <1>2, <1>3, <2>1 DEF TypeInv, IsDir
<1>5. ASSUME ~overlapped
      PROVE  x = dir["tmp"] /\ dir["tmp"] # NoFile
  BY <1>2, <1>5 DEF OneWriter
<1>6. ASSUME ~overlapped' PROVE Settled'
  <2>1. ~overlapped /\ x = dir["tmp"] /\ dir["tmp"] # NoFile
    BY <1>2, <1>5, <1>6
  <2>2. \A e \in Converters : conv'[e].pc = conv[e].pc /\ conv'[e].fd = conv[e].fd
    BY <1>3
  <2>3. \A e \in Converters : conv[e].pc # "replace"
    BY <1>2, <2>1 DEF OneWriter
  <2>4. OneWriter'
    BY <1>2, <2>1, <2>2, <2>3 DEF OneWriter
  <2>5. TmpIsNew' /\ ViewIsApart'
    BY <1>1, <1>2, <2>1 DEF TypeInv, TmpIsNew, ViewIsApart
  <2> QED
    BY <2>4, <2>5 DEF Settled
<1>7. DestinationIsSynced'
  BY <1>2, <1>5 DEF DestinationIsSynced, TmpIsNew
<1> QED
  BY <1>4, <1>6, <1>7 DEF Settled

LEMMA SyncKeeps ==
  ASSUME IInv, NEW c \in Converters, Sync(c) PROVE IInv'
<1> USE DEF IInv
<1>1. /\ conv[c].pc = "write" /\ synced' = synced \cup {conv[c].fd}
      /\ conv' = [conv EXCEPT ![c].pc = "replace", ![c].fd = NoFile]
      /\ UNCHANGED <<dir, durable, content, view, overlapped>>
  BY DEF Sync
<1>2. /\ conv'[c].pc = "replace"
      /\ \A e \in Converters \ {c} : conv'[e] = conv[e]
      /\ conv' \in [Converters -> ConvType]
  <2>1. [conv[c] EXCEPT !.pc = "replace", !.fd = NoFile] \in ConvType
    BY ConvTyped DEF ConvType, Places
  <2> QED
    BY <1>1, <2>1, ConvTyped DEF TypeInv, ConvType
<1>3. TypeInv'
  BY <1>1, <1>2 DEF TypeInv, IsDir
<1>4. ASSUME ~overlapped' PROVE Settled'
  <2>1. ~overlapped /\ conv[c].fd = dir["tmp"]
    BY <1>1, <1>4 DEF OneWriter
  <2>2. \A e \in Converters \ {c} : conv'[e].pc = "idle"
    BY <1>1, <1>2, <2>1 DEF OneWriter
  <2>3. OneWriter'
    BY <1>1, <1>2, <2>1, <2>2 DEF OneWriter
  <2> QED
    BY <1>1, <2>1, <2>3 DEF Settled, TmpIsNew, ViewIsApart
<1>5. DestinationIsSynced'
  BY <1>1 DEF DestinationIsSynced
<1> QED
  BY <1>3, <1>4, <1>5 DEF Settled

LEMMA ReplaceKeeps ==
  ASSUME IInv, NEW c \in Converters, Replace(c) PROVE IInv'
<1> USE DEF IInv
<1>1. /\ conv[c].pc = "replace" /\ dir["tmp"] # NoFile
      /\ dir' = [tmp |-> NoFile, dest |-> dir["tmp"]]
      /\ durable' = durable \cup {dir'}
      /\ conv' = [conv EXCEPT ![c] = Idle]
      /\ UNCHANGED <<content, synced, view, overlapped>>
  BY DEF Replace, Relink
<1>2. /\ dir'["tmp"] = NoFile /\ dir'["dest"] = dir["tmp"]
      /\ DOMAIN dir' = Names
  BY <1>1 DEF Names
<1>3. /\ conv'[c].pc = "idle"
      /\ \A e \in Converters \ {c} : conv'[e] = conv[e]
      /\ conv' \in [Converters -> ConvType]
  <2>1. Idle \in ConvType /\ Idle.pc = "idle"
    BY DEF Idle, ConvType, Places
  <2> QED
    BY <1>1, <2>1 DEF TypeInv
<1>4. TypeInv'
  <2>1. IsDir(dir')
    BY <1>2, DirOf DEF IsDir, Places
  <2> QED
    BY <1>1, <1>3, <2>1 DEF TypeInv, IsDir
<1>5. ASSUME ~overlapped' PROVE Settled'
  <2>1. ~overlapped
    BY <1>1, <1>5
  <2>2. \A e \in Converters : conv'[e].pc = "idle"
    BY <1>1, <1>3, <2>1 DEF OneWriter
  <2>3. OneWriter'
    BY <2>2 DEF OneWriter
  <2>4. TmpIsNew'
    BY <1>2 DEF TmpIsNew
  <2>5. ViewIsApart'
    BY <1>1, <1>2, <2>1, NoFileAssumption DEF ViewIsApart
  <2> QED
    BY <2>3, <2>4, <2>5 DEF Settled
<1>6. DestinationIsSynced'
  BY <1>1, <1>2 DEF DestinationIsSynced, OneWriter
<1> QED
  BY <1>4, <1>5, <1>6 DEF Settled

LEMMA StopKeeps ==
  ASSUME IInv, NEW c \in Converters, Stop(c) PROVE IInv'
<1> USE DEF IInv
<1>1. /\ conv' = [conv EXCEPT ![c] = Idle]
      /\ UNCHANGED <<dir, durable, content, synced, view, overlapped>>
  BY DEF Stop
<1>2. Idle \in ConvType /\ Idle.pc = "idle"
  BY DEF Idle, ConvType, Places
<1>3. /\ conv'[c].pc = "idle"
      /\ \A e \in Converters \ {c} : conv'[e] = conv[e]
      /\ conv' \in [Converters -> ConvType]
  BY <1>1, <1>2 DEF TypeInv
<1>4. TypeInv'
  BY <1>1, <1>3 DEF TypeInv, IsDir
<1>5. ASSUME ~overlapped' PROVE Settled'
  <2>1. ~overlapped
    BY <1>1, <1>5
  <2>2. OneWriter'
    BY <1>1, <1>3, <2>1 DEF OneWriter
  <2> QED
    BY <1>1, <2>1, <2>2 DEF Settled, TmpIsNew, ViewIsApart
<1>6. DestinationIsSynced'
  BY <1>1 DEF DestinationIsSynced
<1> QED
  BY <1>4, <1>5, <1>6 DEF Settled

LEMMA PowerLossKeeps == ASSUME IInv, PowerLoss PROVE IInv'
<1> USE DEF IInv
<1>1. /\ conv' = [c \in Converters |-> Idle]
      /\ dir' \in durable /\ durable' = {dir'}
      /\ \E lost \in SUBSET (Inodes \ synced) :
           content' = [x \in Inodes |-> IF x \in lost THEN << >> ELSE content[x]]
      /\ view' = NoView /\ UNCHANGED <<synced, overlapped>>
  BY DEF PowerLoss
<1>2. Idle \in ConvType /\ Idle.pc = "idle"
  BY DEF Idle, ConvType, Places
<1>3. TypeInv'
  <2>1. conv' \in [Converters -> ConvType]
    BY <1>1, <1>2
  <2>2. content' = [x \in Inodes |-> content'[x]]
    BY <1>1
  <2>3. dir' \in durable' /\ \A d \in durable' : IsDir(d)
    BY <1>1 DEF TypeInv
  <2> QED
    BY <2>1, <2>2, <2>3 DEF TypeInv, IsDir
<1>4. Settled'
  <2>1. OneWriter'
    BY <1>1, <1>2 DEF OneWriter
  <2>2. IsDir(dir')
    BY <1>1 DEF TypeInv
  <2>3. TmpIsNew'
    BY <1>1, <2>2 DEF TmpIsNew, IsDir
  <2> QED
    BY <1>1, <2>1, <2>3 DEF Settled, ViewIsApart, NoView
<1>5. DestinationIsSynced'
  BY <1>1 DEF DestinationIsSynced
<1> QED
  BY <1>3, <1>4, <1>5 DEF Settled

LEMMA MappingKeeps == ASSUME IInv, MapPack \/ Unmap PROVE IInv'
<1> USE DEF IInv
<1>1. UNCHANGED <<conv, dir, durable, content, synced, overlapped>>
  BY DEF MapPack, Unmap
<1>2. TypeInv' /\ DestinationIsSynced'
  BY <1>1 DEF TypeInv, IsDir, DestinationIsSynced
<1>3. ASSUME ~overlapped' PROVE Settled'
  <2>1. OneWriter' /\ TmpIsNew'
    BY <1>1, <1>3 DEF OneWriter, TmpIsNew
  <2>2. CASE MapPack
    <3>1. /\ view'.inode = dir["dest"] /\ view'.cells = content[dir["dest"]]
          /\ dir["dest"] # NoFile
      BY <2>2 DEF MapPack
    <3>2. dir["dest"] \in Inodes /\ dir["dest"] # dir["tmp"]
      BY <3>1, DirOf DEF IsDir, Places
    <3>3. ViewIsApart'
      BY <1>1, <3>1, <3>2 DEF ViewIsApart
    <3> QED
      BY <2>1, <3>3 DEF Settled
  <2>3. CASE Unmap
    <3>1. view' = NoView
      BY <2>3 DEF Unmap
    <3>2. ViewIsApart'
      BY <3>1 DEF ViewIsApart, NoView
    <3> QED
      BY <2>1, <3>2 DEF Settled
  <2> QED
    BY <2>2, <2>3
<1> QED
  BY <1>2, <1>3 DEF Settled

-----------------------------------------------------------------------------
LEMMA InductiveInit == Init => IInv
<1> SUFFICES ASSUME Init PROVE IInv
  OBVIOUS
<1> USE DEF Init
<1>1. Idle \in ConvType /\ Idle.pc = "idle"
  BY DEF Idle, ConvType, Places
<1>2. DOMAIN dir = Names /\ dir["tmp"] = NoFile /\ dir["dest"] = NoFile
  BY DEF Names
<1>3. TypeInv
  <2>1. conv \in [Converters -> ConvType]
    BY <1>1
  <2>2. content = [x \in Inodes |-> content[x]]
    OBVIOUS
  <2>3. dir \in durable /\ \A d \in durable : IsDir(d)
    BY <1>2 DEF IsDir, Places
  <2> QED
    BY <2>1, <2>2, <2>3 DEF TypeInv
<1>4. OneWriter /\ TmpIsNew /\ ViewIsApart
  BY <1>1, <1>2 DEF OneWriter, TmpIsNew, ViewIsApart
<1>5. DestinationIsSynced
  BY <1>2 DEF DestinationIsSynced
<1> QED
  BY <1>3, <1>4, <1>5 DEF IInv

LEMMA InductiveStep == IInv /\ [Next]_vars => IInv'
<1> SUFFICES ASSUME IInv, [Next]_vars PROVE IInv'
  OBVIOUS
<1>1. ASSUME NEW c \in Converters,
             \/ Start(c) \/ OpenTmp(c) \/ WriteNext(c) \/ Sync(c)
             \/ Replace(c) \/ Stop(c)
      PROVE  IInv'
  BY <1>1, StartKeeps, OpenTmpKeeps, WriteNextKeeps, SyncKeeps, ReplaceKeeps,
     StopKeeps
<1>2. CASE PowerLoss \/ MapPack \/ Unmap
  BY <1>2, PowerLossKeeps, MappingKeeps
<1>3. CASE UNCHANGED vars
  BY <1>3 DEF vars, IInv, TypeInv, IsDir, OneWriter, TmpIsNew, ViewIsApart,
     DestinationIsSynced
<1> QED
  BY <1>1, <1>2, <1>3 DEF Next

LEMMA InductiveHolds == Spec => []IInv
  BY InductiveInit, InductiveStep, PTL DEF Spec

(* A program that mapped the destination goes on seeing the bytes it       *)
(* mapped, while conversions truncate, write and rename, and after crashes *)
(* of any of them (convert, PackFile::open).                               *)
THEOREM ViewIsStableHolds == Spec => []ViewIsStable
<1>1. IInv => ViewIsStable
  BY DEF IInv, ViewIsApart, ViewIsStable
<1> QED
  BY <1>1, InductiveHolds, PTL

(* Every directory a power loss may bring back names a destination whose   *)
(* content was fsynced: the first part of DestinationIsComplete.           *)
THEOREM DestinationIsSyncedHolds == Spec => []DestinationIsSynced
<1>1. IInv => DestinationIsSynced
  BY DEF IInv
<1> QED
  BY <1>1, InductiveHolds, PTL

-----------------------------------------------------------------------------
(* What is in the files, as long as no two conversions overlap: a running  *)
(* conversion has written the first writes of its plan to the temporary    *)
(* file, and whatever a directory names as the destination is the finished *)
(* file of the model it was built from.                                    *)
Planned ==
  \A c \in Converters :
    conv[c].pc # "idle" =>
      /\ conv[c].source \in Sources /\ conv[c].version \in Versions
      /\ Convertible(conv[c].source, conv[c].version)
      /\ conv[c].pc = "open" => conv[c].next = 1

Writing(c) ==
  /\ built[conv[c].fd] = conv[c].source
  /\ conv[c].next \in 1 .. Len(Plan(c)) + 1
  /\ Filled(content[conv[c].fd], Plan(c), conv[c].next - 1)

Written(c) ==
  /\ built[dir["tmp"]] = conv[c].source
  /\ Complete(content[dir["tmp"]], conv[c].source, conv[c].version)

IsPack(x) ==
  \E s \in Sources, v \in Versions :
    Convertible(s, v) /\ built[x] = s /\ Complete(content[x], s, v)

DestinationsArePacks ==
  \A d \in durable : d["dest"] # NoFile => IsPack(d["dest"])

Contents ==
  /\ Planned
  /\ \A c \in Converters :
       /\ conv[c].pc = "write" => Writing(c)
       /\ conv[c].pc = "replace" /\ dir["tmp"] # NoFile => Written(c)
  /\ DestinationsArePacks

FilesInv ==
  /\ built = [x \in Inodes |-> built[x]]
  /\ overlapped \in BOOLEAN
  /\ ~overlapped => Contents

LEMMA StartFills ==
  ASSUME IInv, FilesInv, NEW c \in Converters, Start(c) PROVE FilesInv'
<1> USE DEF IInv, FilesInv
<1>1. PICK s \in Sources, v \in Versions :
        /\ Convertible(s, v)
        /\ conv' = [conv EXCEPT ![c] = [pc |-> "open", source |-> s,
                                     version |-> v, next |-> 1, fd |-> NoFile]]
  BY DEF Start
<1>2. /\ UNCHANGED <<dir, durable, content, built>>
      /\ overlapped' = (overlapped \/ \E d \in Converters : conv[d].pc # "idle")
  BY DEF Start
<1>3. ASSUME ~overlapped' PROVE Contents'
  <2>1. ~overlapped /\ \A d \in Converters : conv[d].pc = "idle"
    BY <1>2, <1>3
  <2>2. /\ conv'[c].pc = "open" /\ conv'[c].source = s /\ conv'[c].version = v
        /\ conv'[c].next = 1
        /\ \A d \in Converters \ {c} : conv'[d].pc = "idle"
    BY <1>1, <2>1 DEF TypeInv
  <2>3. Planned'
    BY <1>1, <2>2 DEF Planned
  <2>4. DestinationsArePacks'
    BY <1>2, <2>1 DEF Contents, DestinationsArePacks, IsPack
  <2> QED
    BY <2>2, <2>3, <2>4 DEF Contents
<1> QED
  BY <1>2, <1>3

(* A step that changes the file x and the state of c alone.                *)
LEMMA OthersKeepPacks ==
  ASSUME NEW x, DestinationsArePacks, NEW D, \A d \in D : d["dest"] # x,
         \A d \in D : d \in durable \/ \E e \in durable : d["dest"] = e["dest"],
         durable' = D, \A y : y # x => content'[y] = content[y],
         \A y : y # x => built'[y] = built[y]
  PROVE  DestinationsArePacks'
<1> SUFFICES ASSUME NEW d \in D, d["dest"] # NoFile PROVE IsPack(d["dest"])'
  BY DEF DestinationsArePacks
<1>1. IsPack(d["dest"])
  BY DEF DestinationsArePacks
<1>2. content'[d["dest"]] = content[d["dest"]] /\ built'[d["dest"]] = built[d["dest"]]
  OBVIOUS
<1> QED
  BY <1>1, <1>2 DEF IsPack

LEMMA OpenTmpFills ==
  ASSUME IInv, FilesInv, NEW c \in Converters, OpenTmp(c) PROVE FilesInv'
<1> USE DEF IInv, FilesInv
<1>1. PICK x \in Inodes :
        /\ \/ dir["tmp"] # NoFile /\ x = dir["tmp"]
           \/ dir["tmp"] = NoFile /\ x \notin InUse
        /\ content' = [content EXCEPT ![x] = << >>]
        /\ built' = [built EXCEPT ![x] = conv[c].source]
        /\ dir' = [dir EXCEPT !["tmp"] = x] /\ durable' = durable \cup {dir'}
        /\ conv' = [conv EXCEPT ![c].pc = "write", ![c].fd = x]
  BY DEF OpenTmp, Relink
<1>2. conv[c].pc = "open" /\ UNCHANGED overlapped
  BY DEF OpenTmp
<1>3. built' = [y \in Inodes |-> built'[y]]
  BY <1>1
<1>4. ASSUME ~overlapped' PROVE Contents'
  <2>1. ~overlapped /\ Contents /\ OneWriter /\ TmpIsNew
    BY <1>2, <1>4
  <2>2. /\ conv'[c].pc = "write" /\ conv'[c].fd = x
        /\ conv'[c].source = conv[c].source /\ conv'[c].version = conv[c].version
        /\ conv'[c].next = conv[c].next
        /\ \A e \in Converters \ {c} : conv'[e] = conv[e]
    BY <1>1, ConvTyped DEF TypeInv, ConvType
  <2>3. \A e \in Converters \ {c} : conv'[e].pc = "idle"
    BY <1>2, <2>1, <2>2 DEF OneWriter
  <2>4. /\ conv[c].source \in Sources /\ conv[c].version \in Versions
        /\ Convertible(conv[c].source, conv[c].version) /\ conv[c].next = 1
    BY <1>2, <2>1 DEF Contents, Planned
  <2>5. Planned'
    BY <2>2, <2>3, <2>4 DEF Planned
  <2>6. content'[x] = << >> /\ built'[x] = conv[c].source
    BY <1>1 DEF TypeInv
  <2>7. Writing(c)'
    <3> DEFINE W == Writes(conv[c].source, conv[c].version)
    <3>1. Plan(c)' = W
      BY <2>2 DEF Plan
    <3>2. Len(W) \in Nat
      BY <2>4, WritesConsist, SourcesAssumption
    <3> HIDE DEF W
    <3>3. Filled(<< >>, W, 0)
      BY DEF Filled
    <3>4. 1 \in 1 .. Len(W) + 1 /\ 1 - 1 = 0
      BY <3>2
    <3> QED
      BY <2>2, <2>4, <2>6, <3>1, <3>3, <3>4 DEF Writing
  <2>8. \A d \in durable : d["dest"] # x
    BY <1>1, <2>1, InUseContains DEF TmpIsNew
  <2>9. dir'["dest"] = dir["dest"] /\ dir \in durable
    BY <1>1, DirOf DEF TypeInv
  <2>10. /\ \A y : y # x => content'[y] = content[y]
         /\ \A y : y # x => built'[y] = built[y]
    BY <1>1
  <2>11. DestinationsArePacks'
    <3>1. \A d \in durable' : d["dest"] # x
      BY <1>1, <2>8, <2>9
    <3>2. \A d \in durable' : \/ d \in durable
                              \/ \E e \in durable : d["dest"] = e["dest"]
      BY <1>1, <2>9
    <3> QED
      BY <2>1, <2>10, <3>1, <3>2, OthersKeepPacks DEF Contents
  <2> QED
    BY <2>2, <2>3, <2>5, <2>7, <2>11 DEF Contents
<1> QED
  BY <1>2, <1>3, <1>4

LEMMA WriteNextFills ==
  ASSUME IInv, FilesInv, NEW c \in Converters, WriteNext(c) PROVE FilesInv'
<1> USE DEF IInv, FilesInv
<1> DEFINE x == conv[c].fd
           w == Plan(c)[conv[c].next]
<1>1. /\ conv[c].pc = "write" /\ conv[c].next \in DOMAIN Plan(c)
      /\ content' = [content EXCEPT ![x] = Write(content[x], w.at, w.cells)]
      /\ conv' = [conv EXCEPT ![c].next = @ + 1]
      /\ UNCHANGED <<dir, durable, built, overlapped>>
  BY DEF WriteNext
<1>2. ASSUME ~overlapped' PROVE Contents'
  <2>1. ~overlapped /\ Contents /\ OneWriter /\ TmpIsNew
    BY <1>1, <1>2
  <2>2. x = dir["tmp"] /\ dir["tmp"] # NoFile /\ x \in Inodes
    BY <1>1, <2>1, DirOf DEF OneWriter, IsDir, Places
  <2>3. /\ conv'[c].pc = "write" /\ conv'[c].fd = x
        /\ conv'[c].source = conv[c].source /\ conv'[c].version = conv[c].version
        /\ conv'[c].next = conv[c].next + 1
        /\ \A e \in Converters \ {c} : conv'[e] = conv[e]
    BY <1>1, ConvTyped DEF TypeInv, ConvType
  <2>4. \A e \in Converters \ {c} : conv'[e].pc = "idle"
    BY <1>1, <2>1, <2>3 DEF OneWriter
  <2>5. /\ conv[c].source \in GgufModels /\ conv[c].source \in Sources
        /\ conv[c].version \in Versions
        /\ Convertible(conv[c].source, conv[c].version)
    BY <1>1, <2>1, SourcesAssumption DEF Contents, Planned
  <2>6. Planned'
    BY <2>3, <2>4, <2>5 DEF Planned
  <2>7. content'[x] = Write(content[x], w.at, w.cells)
    BY <1>1, <2>2 DEF TypeInv
  <2>8. Writing(c)'
    <3> DEFINE W == Writes(conv[c].source, conv[c].version)
               i == conv[c].next
    <3>1. Plan(c)' = W /\ Plan(c) = W
      BY <2>3 DEF Plan
    <3>2. Len(W) \in Nat /\ DOMAIN W = 1 .. Len(W)
      BY <2>5, WritesConsist
    <3>3. /\ built[x] = conv[c].source /\ Filled(content[x], W, i - 1)
      BY <1>1, <2>1, <3>1 DEF Contents, Writing
    <3>4. i \in 1 .. Len(W) /\ w = W[i]
      BY <1>1, <3>1, <3>2
    <3>5. Filled(content'[x], W, i)
      <4>1. Filled(Write(content[x], W[i].at, W[i].cells), W, i)
        BY <2>5, <3>3, <3>4, NextFills
      <4> QED
        BY <2>7, <3>4, <4>1
    <3> HIDE DEF W, x
    <3>6. i + 1 \in 1 .. Len(W) + 1 /\ (i + 1) - 1 = i
      BY <3>2, <3>4
    <3>7. /\ built'[conv'[c].fd] = conv'[c].source
          /\ Filled(content'[conv'[c].fd], W, conv'[c].next - 1)
          /\ conv'[c].next \in 1 .. Len(W) + 1
      <4> HIDE DEF i
      <4>1. conv'[c].next = i + 1
        BY <2>3 DEF i
      <4> QED
        BY <1>1, <2>3, <3>3, <3>5, <3>6, <4>1
    <3> QED
      BY <3>1, <3>7 DEF Writing
  <2>9. \A y : y # x => content'[y] = content[y]
    BY <1>1
  <2>10. DestinationsArePacks'
    <3>1. \A d \in durable : d["dest"] # x
      BY <2>1, <2>2 DEF TmpIsNew
    <3>2. durable' = durable /\ built' = built
      BY <1>1
    <3> HIDE DEF x
    <3> QED
      BY <2>1, <2>9, <3>1, <3>2, OthersKeepPacks DEF Contents
  <2> QED
    BY <2>3, <2>4, <2>6, <2>8, <2>10 DEF Contents
<1> QED
  BY <1>1, <1>2

LEMMA SyncFills ==
  ASSUME IInv, FilesInv, NEW c \in Converters, Sync(c) PROVE FilesInv'
<1> USE DEF IInv, FilesInv
<1>1. /\ conv[c].pc = "write" /\ conv[c].next > Len(Plan(c))
      /\ conv' = [conv EXCEPT ![c].pc = "replace", ![c].fd = NoFile]
      /\ UNCHANGED <<dir, durable, content, built, overlapped>>
  BY DEF Sync
<1>2. ASSUME ~overlapped' PROVE Contents'
  <2>1. ~overlapped /\ Contents /\ OneWriter
    BY <1>1, <1>2
  <2>2. /\ conv'[c].pc = "replace"
        /\ conv'[c].source = conv[c].source /\ conv'[c].version = conv[c].version
        /\ \A e \in Converters \ {c} : conv'[e] = conv[e]
    BY <1>1, ConvTyped DEF TypeInv, ConvType
  <2>3. \A e \in Converters \ {c} : conv'[e].pc = "idle"
    BY <1>1, <2>1, <2>2 DEF OneWriter
  <2>4. /\ conv[c].source \in GgufModels /\ conv[c].source \in Sources
        /\ conv[c].version \in Versions
        /\ Convertible(conv[c].source, conv[c].version)
    BY <1>1, <2>1, SourcesAssumption DEF Contents, Planned
  <2>5. Planned'
    BY <2>2, <2>3, <2>4 DEF Planned
  <2>6. Written(c)'
    <3> DEFINE W == Writes(conv[c].source, conv[c].version)
    <3>1. Plan(c) = W /\ Len(W) \in Nat
      BY <2>4, WritesConsist DEF Plan
    <3>2. /\ built[conv[c].fd] = conv[c].source
          /\ conv[c].next \in 1 .. Len(W) + 1
          /\ Filled(content[conv[c].fd], W, conv[c].next - 1)
      BY <1>1, <2>1, <3>1 DEF Contents, Writing
    <3>3. conv[c].fd = dir["tmp"]
      BY <1>1, <2>1 DEF OneWriter
    <3>4. conv[c].next - 1 = Len(W)
      BY <1>1, <3>1, <3>2
    <3> QED
      BY <1>1, <2>2, <3>2, <3>3, <3>4 DEF Written, Complete
  <2>7. DestinationsArePacks'
    BY <1>1, <2>1 DEF Contents, DestinationsArePacks, IsPack
  <2> QED
    BY <2>2, <2>3, <2>5, <2>6, <2>7 DEF Contents
<1> QED
  BY <1>1, <1>2

LEMMA ReplaceFills ==
  ASSUME IInv, FilesInv, NEW c \in Converters, Replace(c) PROVE FilesInv'
<1> USE DEF IInv, FilesInv
<1>1. /\ conv[c].pc = "replace" /\ dir["tmp"] # NoFile
      /\ dir' = [tmp |-> NoFile, dest |-> dir["tmp"]]
      /\ durable' = durable \cup {dir'}
      /\ conv' = [conv EXCEPT ![c] = Idle]
      /\ UNCHANGED <<content, built, overlapped>>
  BY DEF Replace, Relink
<1>2. ASSUME ~overlapped' PROVE Contents'
  <2>1. ~overlapped /\ Contents /\ OneWriter
    BY <1>1, <1>2
  <2>2. /\ conv'[c].pc = "idle"
        /\ \A e \in Converters \ {c} : conv'[e] = conv[e]
    BY <1>1 DEF TypeInv, Idle
  <2>3. \A e \in Converters : conv'[e].pc = "idle"
    BY <1>1, <2>1, <2>2 DEF OneWriter
  <2>4. IsPack(dir["tmp"])
    BY <1>1, <2>1 DEF Contents, Planned, Written, IsPack
  <2>5. dir'["dest"] = dir["tmp"]
    BY <1>1
  <2>6. DestinationsArePacks'
    <3>1. \A x : IsPack(x) => IsPack(x)'
      BY <1>1 DEF IsPack
    <3>2. \A d \in durable' : d["dest"] # NoFile => IsPack(d["dest"])
      BY <1>1, <2>1, <2>4, <2>5 DEF Contents, DestinationsArePacks
    <3> QED
      BY <3>1, <3>2 DEF DestinationsArePacks
  <2> QED
    BY <2>3, <2>6 DEF Contents, Planned
<1> QED
  BY <1>1, <1>2

LEMMA StopFills ==
  ASSUME IInv, FilesInv, NEW c \in Converters, Stop(c) PROVE FilesInv'
<1> USE DEF IInv, FilesInv
<1>1. /\ conv' = [conv EXCEPT ![c] = Idle]
      /\ UNCHANGED <<dir, durable, content, built, overlapped>>
  BY DEF Stop
<1>2. ASSUME ~overlapped' PROVE Contents'
  <2>1. ~overlapped /\ Contents
    BY <1>1, <1>2
  <2>2. /\ conv'[c].pc = "idle"
        /\ \A e \in Converters \ {c} : conv'[e] = conv[e]
    BY <1>1 DEF TypeInv, Idle
  <2>3. Planned'
    BY <2>1, <2>2 DEF Contents, Planned
  <2>4. ASSUME NEW e \in Converters, conv'[e].pc # "idle"
        PROVE  /\ conv'[e].pc = "write" => Writing(e)'
               /\ conv'[e].pc = "replace" /\ dir'["tmp"] # NoFile => Written(e)'
    <3>1. conv'[e] = conv[e]
      BY <2>2, <2>4
    <3>2. /\ conv[e].pc = "write" => Writing(e)
          /\ conv[e].pc = "replace" /\ dir["tmp"] # NoFile => Written(e)
      BY <2>1 DEF Contents
    <3> QED
      BY <1>1, <3>1, <3>2 DEF Writing, Written, Plan
  <2>5. DestinationsArePacks'
    BY <1>1, <2>1 DEF Contents, DestinationsArePacks, IsPack
  <2> QED
    BY <2>3, <2>4, <2>5 DEF Contents
<1> QED
  BY <1>1, <1>2

LEMMA PowerLossFills ==
  ASSUME IInv, FilesInv, PowerLoss PROVE FilesInv'
<1> USE DEF IInv, FilesInv
<1>1. /\ conv' = [c \in Converters |-> Idle]
      /\ dir' \in durable /\ durable' = {dir'}
      /\ UNCHANGED <<built, overlapped>>
  BY DEF PowerLoss
<1>2. PICK lost \in SUBSET (Inodes \ synced) :
        content' = [x \in Inodes |-> IF x \in lost THEN << >> ELSE content[x]]
  BY DEF PowerLoss
<1>3. ASSUME ~overlapped' PROVE Contents'
  <2>1. ~overlapped /\ Contents /\ DestinationIsSynced
    BY <1>1, <1>3
  <2>2. \A c \in Converters : conv'[c].pc = "idle"
    BY <1>1 DEF Idle
  <2>3. ASSUME NEW d \in durable, d["dest"] # NoFile
        PROVE  IsPack(d["dest"])'
    <3> DEFINE x == d["dest"]
    <3>1. x \in synced /\ IsPack(x)
      BY <2>1, <2>3 DEF DestinationIsSynced, Contents, DestinationsArePacks
    <3>2. x \in Inodes
      BY <2>3 DEF TypeInv, IsDir, Places
    <3>3. content'[x] = content[x]
      BY <1>2, <3>1, <3>2
    <3> QED
      BY <1>1, <3>1, <3>3 DEF IsPack
  <2>4. DestinationsArePacks'
    BY <1>1, <2>3 DEF DestinationsArePacks
  <2> QED
    BY <2>2, <2>4 DEF Contents, Planned
<1> QED
  BY <1>1, <1>3

LEMMA FilesInit == Init => FilesInv
<1> SUFFICES ASSUME Init PROVE FilesInv
  OBVIOUS
<1>1. \A c \in Converters : conv[c].pc = "idle"
  BY DEF Init, Idle
<1>2. \A d \in durable : d["dest"] = NoFile
  BY DEF Init, Names
<1>3. built = [x \in Inodes |-> built[x]] /\ overlapped = FALSE
  BY DEF Init
<1> QED
  BY <1>1, <1>2, <1>3 DEF FilesInv, Contents, Planned, DestinationsArePacks

LEMMA FilesStep == IInv /\ FilesInv /\ [Next]_vars => FilesInv'
<1> SUFFICES ASSUME IInv, FilesInv, [Next]_vars PROVE FilesInv'
  OBVIOUS
<1>1. ASSUME NEW c \in Converters,
             \/ Start(c) \/ OpenTmp(c) \/ WriteNext(c) \/ Sync(c)
             \/ Replace(c) \/ Stop(c)
      PROVE  FilesInv'
  BY <1>1, StartFills, OpenTmpFills, WriteNextFills, SyncFills, ReplaceFills,
     StopFills
<1>2. CASE PowerLoss
  BY <1>2, PowerLossFills
<1>3. CASE MapPack \/ Unmap \/ UNCHANGED vars
  <2>1. UNCHANGED <<conv, dir, durable, content, built, overlapped>>
    BY <1>3 DEF MapPack, Unmap, vars
  <2>2. /\ Planned' = Planned /\ DestinationsArePacks' = DestinationsArePacks
        /\ \A c \in Converters : /\ Writing(c)' = Writing(c)
                                 /\ Written(c)' = Written(c)
    BY <2>1 DEF Planned, DestinationsArePacks, IsPack, Writing, Written, Plan
  <2> QED
    BY <2>1, <2>2 DEF FilesInv, Contents
<1> QED
  BY <1>1, <1>2, <1>3 DEF Next

LEMMA FilesHold == Spec => []FilesInv
  BY FilesInit, FilesStep, InductiveHolds, PTL DEF Spec

-----------------------------------------------------------------------------
LEMMA PacksAreWhole ==
  ASSUME NEW x, IsPack(x)
  PROVE  /\ Whole(x)
         /\ PackFileAccepts(content[x]) <=> PackReaderAccepts(content[x])
         /\ built[x] \in Sources /\ \E v \in Versions : Convertible(built[x], v)
<1>1. PICK s \in Sources, v \in Versions :
        Convertible(s, v) /\ built[x] = s /\ Complete(content[x], s, v)
  BY DEF IsPack
<1>2. s \in GgufModels
  BY SourcesAssumption
<1>3. NoEmptyTensor(s) => Decodes(content[x], s)
  BY <1>1, <1>2, DecodesItsModel
<1>4. PackFileAccepts(content[x]) <=> PackReaderAccepts(content[x])
  BY <1>1, <1>2, ReadersAgree
<1> QED
  BY <1>1, <1>3, <1>4 DEF Whole

(* The destination, now or after a power loss, is synced, decodes to its   *)
(* model, and both readers accept or refuse it: for any models, any number *)
(* of conversions that do not overlap, kills and power losses (convert,    *)
(* PackFile::parse, PackReader.open).                                      *)
THEOREM DestinationIsCompleteHolds == Spec => []DestinationIsComplete
<1>1. IInv /\ FilesInv => DestinationIsComplete
  <2> SUFFICES ASSUME IInv, FilesInv, ~overlapped, NEW d \in durable,
                      d["dest"] # NoFile
               PROVE  LET x == d["dest"]
                      IN  /\ x \in synced /\ Whole(x)
                          /\ PackFileAccepts(content[x])
                               <=> PackReaderAccepts(content[x])
    BY DEF DestinationIsComplete
  <2>1. d["dest"] \in synced
    BY DEF IInv, DestinationIsSynced
  <2>2. IsPack(d["dest"])
    BY DEF FilesInv, Contents, DestinationsArePacks
  <2> QED
    BY <2>1, <2>2, PacksAreWhole
<1> QED
  BY <1>1, InductiveHolds, FilesHold, PTL

-----------------------------------------------------------------------------
(* Seen from the destination, only a rename and a power loss do anything.  *)
Dest(d) == IF d["dest"] = NoFile THEN NoFile ELSE built[d["dest"]]

Shown ==
  ~overlapped =>
    /\ PackOf(dir) = Dest(dir)
    /\ {PackOf(d) : d \in durable} = {Dest(d) : d \in durable}

LEMMA ShownHolds == Spec => []Shown
<1>1. IInv /\ FilesInv => Shown
  <2> SUFFICES ASSUME IInv, FilesInv, ~overlapped PROVE Shown
    BY DEF Shown
  <2>1. ASSUME NEW d \in durable PROVE PackOf(d) = Dest(d)
    <3>1. d["dest"] # NoFile => Whole(d["dest"])
      BY PacksAreWhole DEF FilesInv, Contents, DestinationsArePacks
    <3> QED
      BY <3>1 DEF PackOf, Dest
  <2>2. dir \in durable
    BY DEF IInv, TypeInv
  <2> QED
    BY <2>1, <2>2 DEF Shown
<1> QED
  BY <1>1, InductiveHolds, FilesHold, PTL

LEMMA StepPublishes ==
  ASSUME IInv, FilesInv, Shown, Shown', [Next]_vars
  PROVE  [Publisher!Next]_<<PackOf(dir), {PackOf(d) : d \in durable}, overlapped>>
<1> DEFINE packs == {PackOf(d) : d \in durable}
           dests == {Dest(d) : d \in durable}
           Nothing == UNCHANGED <<PackOf(dir), packs, overlapped>>
<1>1. CASE overlapped'
  BY <1>1 DEF Publisher!Next, Publisher!Overlap
<1>2. CASE ~overlapped'
  <2>1. ~overlapped
    BY <1>2 DEF Next, Start, OpenTmp, WriteNext, Sync, Replace, Stop,
       PowerLoss, MapPack, Unmap, vars
  <2>10. overlapped \in BOOLEAN /\ overlapped' \in BOOLEAN
    BY FilesStep DEF FilesInv
  <2>2. /\ PackOf(dir) = Dest(dir) /\ packs = dests
        /\ PackOf(dir)' = Dest(dir)' /\ packs' = dests'
    BY <1>2, <2>1 DEF Shown
  <2>3. /\ TypeInv /\ Contents /\ OneWriter /\ TmpIsNew /\ dir \in durable
    BY <2>1 DEF IInv, FilesInv, TypeInv
  <2> DEFINE Same == Dest(dir)' = Dest(dir) /\ dests' = dests
  <2>0. Same => Nothing
    <3>1. overlapped' = overlapped
      BY <1>2, <2>1, <2>10
    <3> QED
      BY <2>2, <3>1
  <2>4. ASSUME UNCHANGED <<dir, durable, built>> PROVE Same
    BY <2>4 DEF Dest
  <2>5. ASSUME NEW c \in Converters, OpenTmp(c) PROVE Same
    <3>1. PICK x \in Inodes :
            /\ \/ dir["tmp"] # NoFile /\ x = dir["tmp"]
               \/ dir["tmp"] = NoFile /\ x \notin InUse
            /\ built' = [built EXCEPT ![x] = conv[c].source]
            /\ dir' = [dir EXCEPT !["tmp"] = x] /\ durable' = durable \cup {dir'}
      BY <2>5 DEF OpenTmp, Relink
    <3>2. \A d \in durable : d["dest"] # x
      BY <2>3, <3>1, InUseContains DEF TmpIsNew
    <3>3. \A d \in durable : Dest(d)' = Dest(d)
      BY <3>1, <3>2 DEF Dest
    <3>4. dir'["dest"] = dir["dest"]
      BY <2>3, <3>1, DirOf
    <3>5. Dest(dir)' = Dest(dir)
      <4>1. Dest(dir)' = IF dir'["dest"] = NoFile THEN NoFile
                         ELSE built'[dir'["dest"]]
        BY DEF Dest
      <4>2. dir["dest"] # x
        BY <2>3, <3>2
      <4>3. built'[dir["dest"]] = built[dir["dest"]]
        BY <3>1, <4>2
      <4> QED
        BY <3>4, <4>1, <4>3 DEF Dest
    <3>6. dests' = dests
      <4>1. \A d \in durable' : \E e \in durable : Dest(d)' = Dest(e)
        <5>1. ASSUME NEW d \in durable', d \notin durable
              PROVE  \E e \in durable : Dest(d)' = Dest(e)
          <6>1. d = dir'
            BY <3>1, <5>1
          <6>2. Dest(d)' = IF d["dest"] = NoFile THEN NoFile
                           ELSE built'[d["dest"]]
            BY DEF Dest
          <6>3. Dest(dir)' = IF dir'["dest"] = NoFile THEN NoFile
                             ELSE built'[dir'["dest"]]
            BY DEF Dest
          <6> QED
            BY <2>3, <3>5, <6>1, <6>2, <6>3
        <5> QED
          BY <3>3, <5>1
      <4>2. durable \subseteq durable'
        BY <3>1
      <4>3. dests' = {Dest(d)' : d \in durable'}
        OBVIOUS
      <4> QED
        BY <3>3, <4>1, <4>2, <4>3
    <3> QED
      BY <3>5, <3>6
  <2>6. ASSUME NEW c \in Converters, Replace(c) PROVE Publisher!Publish
    <3>1. /\ conv[c].pc = "replace" /\ dir["tmp"] # NoFile
          /\ dir' = [tmp |-> NoFile, dest |-> dir["tmp"]]
          /\ durable' = durable \cup {dir'} /\ built' = built
      BY <2>6 DEF Replace, Relink
    <3>2. dir'["dest"] = dir["tmp"]
      BY <3>1
    <3>3. Dest(dir)' = built[dir["tmp"]]
      BY <3>1, <3>2 DEF Dest
    <3>4. /\ built[dir["tmp"]] \in Sources
          /\ \E v \in Versions : Convertible(built[dir["tmp"]], v)
      BY <2>3, <3>1 DEF Contents, Planned, Written
    <3>5. dests' = dests \cup {Dest(dir)'}
      <4>1. \A d : Dest(d)' = Dest(d)
        BY <3>1 DEF Dest
      <4>2. dests' = {Dest(d)' : d \in durable'}
        OBVIOUS
      <4>3. Dest(dir)' = Dest(dir')
        BY <3>1 DEF Dest
      <4> QED
        BY <3>1, <4>1, <4>2, <4>3
    <3> QED
      BY <1>2, <2>2, <3>3, <3>4, <3>5 DEF Publisher!Publish
  <2>7. ASSUME PowerLoss PROVE Publisher!PowerLoss
    <3>1. dir' \in durable /\ durable' = {dir'} /\ built' = built
      BY <2>7 DEF PowerLoss
    <3>2. \A d : Dest(d)' = Dest(d)
      BY <3>1 DEF Dest
    <3>3. Dest(dir)' = Dest(dir')
      BY <3>1 DEF Dest
    <3>4. Dest(dir)' \in dests
      BY <3>1, <3>3
    <3>5. dests' = {Dest(dir)'}
      <4>1. dests' = {Dest(d)' : d \in durable'}
        OBVIOUS
      <4> QED
        BY <3>1, <3>2, <3>3, <4>1
    <3> QED
      BY <1>2, <2>2, <3>4, <3>5 DEF Publisher!PowerLoss
  <2>8. ASSUME NEW c \in Converters,
               Start(c) \/ WriteNext(c) \/ Sync(c) \/ Stop(c)
        PROVE  Same
    BY <2>4, <2>8 DEF Start, WriteNext, Sync, Stop
  <2>9. ASSUME MapPack \/ Unmap \/ UNCHANGED vars PROVE Same
    BY <2>4, <2>9 DEF MapPack, Unmap, vars
  <2> HIDE DEF Same
  <2>11. ASSUME NEW c \in Converters,
                \/ Start(c) \/ OpenTmp(c) \/ WriteNext(c) \/ Sync(c)
                \/ Replace(c) \/ Stop(c)
         PROVE  Nothing \/ Publisher!Publish
    BY <2>0, <2>5, <2>6, <2>8, <2>11
  <2> HIDE DEF Nothing
  <2>12. Nothing \/ Publisher!Publish \/ Publisher!PowerLoss
    BY <2>0, <2>7, <2>9, <2>11 DEF Next
  <2> QED
    BY <2>12 DEF Nothing, Publisher!Next
<1> QED
  BY <1>1, <1>2

(* Conversions that do not overlap implement PackPublish: a power loss     *)
(* finds at the destination nothing or a complete pack that was published  *)
(* (convert: temporary file, fsync, os.replace).                           *)
THEOREM PublishesHolds == Spec => Publishes
<1>1. Init => Publisher!Init
  <2> SUFFICES ASSUME Init PROVE Publisher!Init
    OBVIOUS
  <2>1. dir["dest"] = NoFile /\ durable = {dir} /\ overlapped = FALSE
    BY DEF Init, Names
  <2>2. PackOf(dir) = NoFile
    BY <2>1 DEF PackOf
  <2> QED
    BY <2>1, <2>2 DEF Publisher!Init
<1> QED
  BY <1>1, StepPublishes, InductiveHolds, FilesHold, ShownHolds, PTL
     DEF Spec, Publishes, Publisher!Spec
=============================================================================
