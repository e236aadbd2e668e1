------------------------------ MODULE BlockFormats ------------------------------
(***************************************************************************)
(* The 256-weight block formats as quant.cpp reads them on the CPU, and    *)
(* the SM86 forms they are repacked into.  A number in a block is named by *)
(* the bits it is made of: a sequence of fields <<byte, low bit, width>>,  *)
(* least significant field first, with bytes counted from the start of the *)
(* native GGML block.  A weight is                                         *)
(*     q   the bits of its code                                            *)
(*     s   the bits of the scale of its group                              *)
(*     m   the bits of the minimum of its group, <<>> where there is none  *)
(***************************************************************************)
EXTENDS Integers, Sequences

BlockSize == 256

Bits(byte, lo, n) == <<byte, lo, n>>

\* The same fields counted from `base' on: what a pointer into the block adds.
From(base, fields) == [i \in DOMAIN fields |-> Bits(base + fields[i][1], fields[i][2], fields[i][3])]

Weight(q, s, m) == [q |-> q, s |-> s, m |-> m]

(***************************************************************************)
(* The native formats                                                      *)
(***************************************************************************)

\* The scale and the minimum of group j in the twelve bytes of Q4_K and Q5_K.
ScaleK4(j) == IF j < 4 THEN <<Bits(j, 0, 6)>>
                       ELSE <<Bits(j + 4, 0, 4), Bits(j - 4, 6, 2)>>
MinK4(j) == IF j < 4 THEN <<Bits(j + 4, 0, 6)>>
                     ELSE <<Bits(j + 4, 4, 4), Bits(j, 6, 2)>>

\* Weights come in runs of 64 that share 32 bytes: low nibbles, then high ones.
Q4K(e) ==
    LET run == e \div 64  high == (e % 64) \div 32  l == e % 32  is == 2 * run + high
    IN  Weight(<<Bits(16 + 32 * run + l, 4 * high, 4)>>, From(4, ScaleK4(is)), From(4, MinK4(is)))

Q5K(e) ==
    LET run == e \div 64  high == (e % 64) \div 32  l == e % 32  is == 2 * run + high
    IN  Weight(<<Bits(48 + 32 * run + l, 4 * high, 4), Bits(16 + l, 2 * run + high, 1)>>,
               From(4, ScaleK4(is)), From(4, MinK4(is)))

Q6K(e) ==
    LET half == e \div 128  quarter == (e % 128) \div 32  l == e % 32
    IN  Weight(<<Bits(64 * half + l + 32 * (quarter % 2), 4 * (quarter \div 2), 4),
                 Bits(128 + 32 * half + l, 2 * quarter, 2)>>,
               <<Bits(192 + 8 * half + l \div 16 + 2 * quarter, 0, 8)>>, <<>>)

IQ4Scale(g) == <<Bits(4 + g \div 2, 4 * (g % 2), 4), Bits(2 + g \div 4, 2 * (g % 4), 2)>>

IQ4XS(e) ==
    LET g == e \div 32  j == e % 32
    IN  Weight(<<Bits(8 + 16 * g + (j % 16), 4 * (j \div 16), 4)>>, IQ4Scale(g), <<>>)

\* The number an IQ4_XS code stands for.
KValues == <<-127, -104, -83, -65, -49, -35, -22, -10, 1, 13, 25, 38, 53, 69, 89, 113>>

(***************************************************************************)
(* The SM86 forms: what a byte of the repacked block holds, in fields of   *)
(* the native block.  Codes are copied byte by byte, and each scale and    *)
(* minimum gets a byte of its own.                                         *)
(***************************************************************************)

Copied(byte) == <<Bits(byte, 0, 8)>>

\* Some bits of a byte that was copied.
Within(content, lo, n) == <<Bits(content[1][1], lo, n)>>

\* The 180-byte Q5_K block of quant.cpp.
Q5KSm86(b) ==
    LET g == (b - 4) \div 2
    IN  CASE b < 4             -> Copied(b)
          [] b \in 4 .. 19     -> From(4, IF b % 2 = 0 THEN ScaleK4(g) ELSE MinK4(g))
          [] b \in 20 .. 51    -> Copied(b - 20 + 16)
          [] b \in 52 .. 179   -> Copied(b - 52 + 48)

\* The three Q5_K planes the converter writes, one block's share of each.
Q5KMeta(b) ==
    LET g == (b - 4) \div 2
    IN  IF b < 4 THEN Copied(b)
        ELSE From(4, IF g < 4
                     THEN <<Bits(IF b % 2 = 0 THEN g ELSE g + 4, 0, 6)>>
                     ELSE IF b % 2 = 0 THEN <<Bits(g + 4, 0, 4), Bits(g - 4, 6, 2)>>
                                       ELSE <<Bits(g + 4, 4, 4), Bits(g, 6, 2)>>)
Q5KQh(b) == Copied(16 + b)
Q5KQs(b) == Copied(48 + b)

\* The 138-byte IQ4_XS block: the scale of a group as one signed byte.
IQ4Sm86(b) == CASE b < 2            -> Copied(b)
                [] b \in 2 .. 9     -> IQ4Scale(b - 2)
                [] b \in 10 .. 137  -> Copied(b - 10 + 8)
=============================================================================
