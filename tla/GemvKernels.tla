------------------------------ MODULE GemvKernels ------------------------------
(***************************************************************************)
(* What one lane of a warp reads in one pass of the loop over a block, for *)
(* each matrix-vector kernel of driver.cpp.  A lane contributes            *)
(*     dot    pairs <<bits of a code, column>> it multiplies and adds      *)
(*     sum    columns whose activations it adds for the minimum            *)
(*     s, m   the scale and the minimum that the lane applies              *)
(*     bsum   columns whose sum a leader takes from the Q8_K block         *)
(*     loads  <<plane stride, offset, width>> of its global loads          *)
(* with bytes and columns counted from the start of the block.  The strided*)
(* kernels apply scale and minimum to each product, the others once per    *)
(* group of lanes, after reducing the group.                               *)
(***************************************************************************)
EXTENDS BlockFormats

Lanes == 0 .. 31

Part(dot, sum, s, m, bsum, loads) ==
    [dot |-> dot, sum |-> sum, s |-> s, m |-> m, bsum |-> bsum, loads |-> loads]

(***************************************************************************)
(* Strided kernels: lane L owns element L + 32 g of every group g.         *)
(***************************************************************************)

\* Scale and minimum of group g at the twelve bytes from 4 on.
GroupScale(g) == IF g < 4 THEN <<Bits(4 + g, 0, 6)>>
                          ELSE <<Bits(4 + (g + 4), 0, 4), Bits(4 + (g - 4), 6, 2)>>
GroupMin(g) == IF g < 4 THEN <<Bits(4 + (g + 4), 0, 6)>>
                        ELSE <<Bits(4 + (g + 4), 4, 4), Bits(4 + g, 6, 2)>>

Q4KGemv(lane, g) ==
    LET qs == 16 + 32 * (g \div 2) + lane
        x == 32 * g + lane
    IN  Part({<< <<Bits(qs, 4 * (g % 2), 4)>>, x>>}, {x}, GroupScale(g), GroupMin(g), {},
             {<<144, 0, 2>>, <<144, 2, 2>>, <<144, qs, 1>>})

Q5KGemv(lane, g) ==
    LET ql == 48 + 32 * (g \div 2) + lane
        x == 32 * g + lane
    IN  Part({<< <<Bits(ql, 4 * (g % 2), 4), Bits(16 + lane, g, 1)>>, x>>}, {x},
             GroupScale(g), GroupMin(g), {}, {<<176, 0, 2>>, <<176, 2, 2>>, <<176, ql, 1>>})

Q6KGemvScalar(lane, j) ==
    LET e == lane + 32 * j
        half == e \div 128  quarter == (e % 128) \div 32  l == e % 32  is == l \div 16
    IN  Part({<< <<Bits(64 * half + 32 * (quarter % 2) + l, IF quarter >= 2 THEN 4 ELSE 0, 4),
                   Bits(128 + 32 * half + l, 2 * quarter, 2)>>, e>>}, {},
             <<Bits(192 + 8 * half + 2 * quarter + is, 0, 8)>>, <<>>, {}, {<<210, 208, 2>>})

\* The six-bit scale of a group: a nibble of scales_l, two bits of scales_h.
NibbleScale(g) == <<Bits(4 + g \div 2, 4 * (g % 2), 4), Bits(2 + (2 * g) \div 8, (2 * g) % 8, 2)>>

IQ4XSGemv(lane, g) ==
    LET qs == 8 + 16 * g + (lane % 16)
    IN  Part({<< <<Bits(qs, IF lane < 16 THEN 0 ELSE 4, 4)>>, 32 * g + lane>>}, {},
             NibbleScale(g), <<>>, {}, {<<136, 0, 2>>, <<136, 2, 2>>, <<136, qs, 1>>})

\* The planes of the SM86 form: scales of 8 bytes and codes of 128 per block.
IQ4XSSm86Gemv(lane, g) ==
    LET qs == 16 * g + (lane % 16)
    IN  Part({<<Within(IQ4Sm86(10 + qs), IF lane < 16 THEN 0 ELSE 4, 4), 32 * g + lane>>}, {},
             IQ4Sm86(2 + g), <<>>, {}, {<<2, 0, 2>>, <<8, g, 1>>, <<128, qs, 1>>})

Q5KSm86Gemv(lane, g) ==
    LET qs == 32 * (g \div 2) + lane
        x == 32 * g + lane
    IN  Part({<<Within(Q5KQs(qs), 4 * (g % 2), 4) \o Within(Q5KQh(lane), g, 1), x>>}, {x},
             Q5KMeta(4 + 2 * g), Q5KMeta(5 + 2 * g), {},
             {<<20, 0, 2>>, <<20, 2, 2>>, <<20, 4 + 2 * g, 2>>, <<128, qs, 1>>})

(***************************************************************************)
(* Four subgroups of eight lanes, two passes, integer dot products with a  *)
(* quantised activation: dp4a multiplies bytes k of its two operands.      *)
(***************************************************************************)

\* The two loaded bytes give low, low, high, high nibbles; the activations
\* packed against them are two from each half of the group.
IQ4XSQ81Gemv(lane, pass) ==
    LET l == lane % 8
        g == lane \div 8 + 4 * pass
        Code(k) == <<Bits(8 + 16 * g + 2 * l + (k % 2), 4 * (k \div 2), 4)>>
        Column(k) == 32 * g + (IF k < 2 THEN 2 * l + k ELSE 2 * l + 16 + (k - 2))
    IN  Part({<<Code(k), Column(k)>> : k \in 0 .. 3}, {}, NibbleScale(g), <<>>, {},
             {<<136, 8 + 16 * g + 2 * l, 2>>, <<36, 0, 2>>, <<36, 4 + 2 * l, 2>>, <<36, 4 + 2 * l + 16, 2>>})

\* bsums[j] of a Q8_K block is the sum of its activations 16 j .. 16 j + 15.
BSum(j) == 16 * j .. 16 * j + 15

Q5KDp4aGemv(lane, pass) ==
    LET l == lane % 8
        g == lane \div 8 + 4 * pass
        ql == 48 + 32 * (g \div 2) + 4 * l
        Code(k) == <<Bits(ql + k, 4 * (g % 2), 4), Bits(16 + 4 * l + k, g, 1)>>
    IN  Part({<<Code(k), 32 * g + 4 * l + k>> : k \in 0 .. 3}, {}, GroupScale(g), GroupMin(g),
             BSum(2 * g) \cup BSum(2 * g + 1),
             {<<176, ql, 4>>, <<176, 16 + 4 * l, 4>>, <<292, 0, 4>>, <<292, 4 + 32 * g + 4 * l, 4>>,
              <<292, 260 + 4 * g, 2>>, <<292, 260 + 4 * g + 2, 2>>})

(***************************************************************************)
(* Subgroups of four (Q6_K: two) lanes, one for each group of the block;   *)
(* a lane takes eight codes.                                               *)
(***************************************************************************)

\* Four bytes are eight nibbles; prmt with 0x6420 gathers the even ones, the
\* low nibbles, and with 0x7531 the odd ones, which belong 16 columns further.
IQ4XSPrmtGemv(lane, pass) ==
    LET g == lane \div 4
        u == lane % 4
        Nibble(k) == IF k < 4 THEN 2 * k ELSE 2 * (k - 4) + 1
        Code(k) == <<Bits(8 + 16 * g + 4 * u + Nibble(k) \div 2, 4 * (Nibble(k) % 2), 4)>>
        Column(k) == 32 * g + 4 * u + (IF k < 4 THEN k ELSE 16 + (k - 4))
    IN  Part({<<Code(k), Column(k)>> : k \in 0 .. 7}, {}, NibbleScale(g), <<>>, {},
             {<<136, 8 + 16 * g + 4 * u, 4>>, <<1024, 4 * Column(0), 16>>, <<1024, 4 * Column(4), 16>>})

Q5KVecGemv(lane, pass) ==
    LET g == lane \div 4
        u == lane % 4
        qs == 32 * (g \div 2) + 8 * u
        Code(k) == Within(Q5KQs(qs + k), 4 * (g % 2), 4) \o Within(Q5KQh(8 * u + k), g, 1)
        Column(k) == 32 * g + 8 * u + k
    IN  Part({<<Code(k), Column(k)>> : k \in 0 .. 7}, {Column(k) : k \in 0 .. 7},
             Q5KMeta(4 + 2 * g), Q5KMeta(5 + 2 * g), {},
             {<<32, 8 * u, 4>>, <<32, 8 * u + 4, 4>>, <<128, qs, 4>>, <<128, qs + 4, 4>>,
              <<20, 4 + 2 * g, 2>>, <<1024, 4 * Column(0), 16>>, <<1024, 4 * Column(4), 16>>})

\* Mutant: codes are loaded four bytes at a time.
Q6KVecGemv_WideLoads(lane, pass) ==
    LET g == lane \div 2
        u == lane % 2
        half == g \div 8
        inHalf == g % 8
        pair == inHalf \div 2
        split == 16 * (inHalf % 2) + 8 * u
        ql == 64 * half + 32 * (pair % 2) + split
        qh == 128 + 32 * half + split
        Code(k) == <<Bits(ql + k, IF inHalf >= 4 THEN 4 ELSE 0, 4), Bits(qh + k, 2 * pair, 2)>>
    IN  Part({<<Code(k), 16 * g + 8 * u + k>> : k \in 0 .. 7}, {}, <<Bits(192 + g, 0, 8)>>, <<>>, {},
             {<<210, ql + 4 * i, 4>> : i \in 0 .. 1} \cup {<<210, qh + 4 * i, 4>> : i \in 0 .. 1}
                 \cup {<<210, 208, 2>>, <<1024, 4 * (16 * g + 8 * u), 16>>})

\* Sixteen groups of sixteen; a block is 210 bytes, so codes are loaded two
\* bytes at a time.
Q6KVecGemv(lane, pass) ==
    LET g == lane \div 2
        u == lane % 2
        half == g \div 8
        inHalf == g % 8
        pair == inHalf \div 2
        split == 16 * (inHalf % 2) + 8 * u
        ql == 64 * half + 32 * (pair % 2) + split
        qh == 128 + 32 * half + split
        Code(k) == <<Bits(ql + k, IF inHalf >= 4 THEN 4 ELSE 0, 4), Bits(qh + k, 2 * pair, 2)>>
    IN  Part({<<Code(k), 16 * g + 8 * u + k>> : k \in 0 .. 7}, {}, <<Bits(192 + g, 0, 8)>>, <<>>, {},
             {<<210, ql + 2 * i, 2>> : i \in 0 .. 3} \cup {<<210, qh + 2 * i, 2>> : i \in 0 .. 3}
                 \cup {<<210, 208, 2>>, <<1024, 4 * (16 * g + 8 * u), 16>>})
=============================================================================
