------------------------------ MODULE BlockDecode ------------------------------
(***************************************************************************)
(* Every program in the repository that turns a block back into numbers,   *)
(* one element of one code at a time: the four dequantisation kernels of   *)
(* driver.cpp, the CPU decoders of the SM86 forms fed by the C++ repacks   *)
(* and by the planes of the converter, and the register arithmetic by      *)
(* which the GEMV kernels decode several codes at once.  Each is a         *)
(* different piece of bit surgery on the same block, checked in the code   *)
(* against a reference on one or two real blocks.                          *)
(*                                                                         *)
(* An element is one thread of a launch of 256 threads, or one turn of a   *)
(* loop; the output is the bits its number is made of, and the integer     *)
(* that these bits stand for once they spell a given code.                 *)
(***************************************************************************)
EXTENDS BlockFormats

CONSTANT Decoders   \* the programs of this run

Kernels == {"Q4KDequant", "Q5KDequant", "Q6KDequant", "IQ4XSDequant"}
Formats == [Q4KDequant   |-> "Q4_K",   Q5KDequant  |-> "Q5_K",   Q6KDequant |-> "Q6_K",
            IQ4XSDequant |-> "IQ4_XS", Q5KSm86Cpu  |-> "Q5_K",   Q5KPlanes  |-> "Q5_K",
            IQ4XSSm86Cpu |-> "IQ4_XS", IQ4XSTable  |-> "IQ4_XS", IQ4XSPrmt  |-> "IQ4_XS",
            Q6KPacked    |-> "Q6_K"]

ASSUME DecodersAssumption == Decoders \subseteq DOMAIN Formats

VARIABLES
    decoder,    \* the program that runs
    at,         \* the element it decodes: a thread index or a loop index
    code,       \* the code that the block holds there
    out         \* NoOutput, or the weight and the integer it decoded

vars == <<decoder, at, code, out>>

NoOutput == [run |-> FALSE]
Output(w, n) == [run |-> TRUE, weight |-> w, number |-> n]

Codes(format) == 0 .. CASE format = "Q6_K" -> 63 [] format = "Q5_K" -> 31 [] OTHER -> 15

(***************************************************************************)
(* The reference: dequantize_*_block_cpu on the native block.              *)
(***************************************************************************)

Reference(format, e) == CASE format = "Q4_K" -> Q4K(e)    [] format = "Q5_K"   -> Q5K(e)
                          [] format = "Q6_K" -> Q6K(e)    [] format = "IQ4_XS" -> IQ4XS(e)

Number(format, c) == CASE format = "Q6_K"   -> c - 32
                       [] format = "IQ4_XS" -> KValues[c + 1]
                       [] OTHER             -> c

(***************************************************************************)
(* The dequantisation kernels: one thread per element.                     *)
(***************************************************************************)

\* The scale and minimum of group g as the kernels assemble them.
KernelScale(g) == IF g < 4 THEN <<Bits(4 + g, 0, 6)>>
                           ELSE <<Bits(4 + g + 4, 0, 4), Bits(4 + g - 4, 6, 2)>>
KernelMin(g) == IF g < 4 THEN <<Bits(4 + g + 4, 0, 6)>>
                         ELSE <<Bits(4 + g + 4, 4, 4), Bits(4 + g, 6, 2)>>

Q4KDequant(tid) ==
    LET group == tid \div 32  lane == tid % 32
    IN  Weight(<<Bits(16 + 32 * (group \div 2) + lane, 4 * (group % 2), 4)>>,
               KernelScale(group), KernelMin(group))

\* Mutant: the fifth bit is taken per pair of groups, as the nibbles are.
Q5KDequant_PairBit(tid) ==
    LET group == tid \div 32  lane == tid % 32
    IN  Weight(<<Bits(48 + 32 * (group \div 2) + lane, 4 * (group % 2), 4), Bits(16 + lane, group \div 2, 1)>>,
               KernelScale(group), KernelMin(group))

Q5KDequant(tid) ==
    LET group == tid \div 32  lane == tid % 32
    IN  Weight(<<Bits(48 + 32 * (group \div 2) + lane, 4 * (group % 2), 4), Bits(16 + lane, group, 1)>>,
               KernelScale(group), KernelMin(group))

Q6KDequant(tid) ==
    LET half == tid \div 128  quarter == (tid % 128) \div 32  l == tid % 32  is == l \div 16
        shift == IF quarter >= 2 THEN 4 ELSE 0
    IN  Weight(<<Bits(64 * half + 32 * (quarter % 2) + l, shift, 4),
                 Bits(128 + 32 * half + l, 2 * quarter, 2)>>,
               <<Bits(192 + 8 * half + 2 * quarter + is, 0, 8)>>, <<>>)

\* scales_h is one little-endian word: its bit 2 * group is in byte 2 or 3.
IQ4XSDequant(tid) ==
    LET group == tid \div 32  lane == tid % 32
        shift == IF lane < 16 THEN 0 ELSE 4
    IN  Weight(<<Bits(8 + 16 * group + (lane % 16), shift, 4)>>,
               <<Bits(4 + group \div 2, 4 * (group % 2), 4),
                 Bits(2 + (2 * group) \div 8, (2 * group) % 8, 2)>>, <<>>)

\* The chain of setp and mov that maps a code to its number.
DequantTable == <<-127, -104, -83, -65, -49, -35, -22, -10, 1, 13, 25, 38, 53, 69, 89, 113>>

(***************************************************************************)
(* The CPU decoders of the SM86 forms, in the native fields that the       *)
(* repacked bytes hold.                                                    *)
(***************************************************************************)

Q5KSm86Cpu(e) ==
    LET group == e \div 32  lane == e % 32
    IN  Weight(Within(Q5KSm86(52 + 32 * (group \div 2) + lane), 4 * (group % 2), 4)
                   \o Within(Q5KSm86(20 + lane), group, 1),
               Q5KSm86(4 + 2 * group), Q5KSm86(4 + 2 * group + 1))

\* The same decoder on a block gathered from the converter's three planes.
Q5KPlanes(e) ==
    LET group == e \div 32  lane == e % 32
    IN  Weight(Within(Q5KQs(32 * (group \div 2) + lane), 4 * (group % 2), 4)
                   \o Within(Q5KQh(lane), group, 1),
               Q5KMeta(4 + 2 * group), Q5KMeta(4 + 2 * group + 1))

IQ4XSSm86Cpu(e) ==
    LET group == e \div 32  j == e % 32
    IN  Weight(Within(IQ4Sm86(10 + 16 * group + (j % 16)), 4 * (j \div 16), 4),
               IQ4Sm86(2 + group), <<>>)

(***************************************************************************)
(* The register arithmetic of the GEMV kernels.                            *)
(***************************************************************************)

\* cvt of a byte that was shifted to the top and back with sign.
Signed8(byte) == IF byte >= 128 THEN byte - 256 ELSE byte

\* The IQ4_XS codebook in four registers, lowest byte first.
Codebook == << <<129, 152, 173, 191>>, <<207, 221, 234, 246>>,
               <<1, 13, 25, 38>>, <<53, 69, 89, 113>> >>

\* The scalar kernels pick the register by the two high bits of the code.
TableNumber(c) == Signed8(Codebook[c \div 4 + 1][(c % 4) + 1])

\* prmt.b32 d, a, b, sel: each selector nibble picks one of the eight bytes.
Prmt(a, b, sel) == [k \in 1 .. 4 |-> (a \o b)[sel[k] + 1]]

\* Mutant: the half is picked by the bit where it stands, which is the bit of
\* the selector that replicates a sign; without it, no half is picked.
PrmtNumber_BitNotMoved(c, k) ==
    LET low3 == [i \in 1 .. 4 |-> c % 8]
        bytes == Prmt(Prmt(Codebook[1], Codebook[2], low3), Prmt(Codebook[3], Codebook[4], low3), <<0, 1, 2, 3>>)
    IN  Signed8(bytes[k])

\* Four codes at once: look up the low three bits in both halves of the
\* codebook, then pick the half by bit 3; the selector of the pick is the
\* position in the register plus that bit moved to bit 2.
PrmtNumber(c, k) ==
    LET low3 == [i \in 1 .. 4 |-> c % 8]
        pick == [i \in 1 .. 4 |-> (i - 1) + 4 * (c \div 8)]
        bytes == Prmt(Prmt(Codebook[1], Codebook[2], low3), Prmt(Codebook[3], Codebook[4], low3), pick)
    IN  Signed8(bytes[k])

\* Four six-bit codes in a register become q - 32 in a byte each: bit 5, when
\* clear, is copied to bits 5, 6 and 7.  Bytes 0 to 2 of the register are then
\* shifted up and back with sign, byte 3 is only shifted down.
PackedByte(c) == (c % 32) + (IF c < 32 THEN 32 + 64 + 128 ELSE 0)
Q6KPackedNumber(c, byte) == IF byte = 3 THEN PackedByte(c) ELSE Signed8(PackedByte(c))

(***************************************************************************)
(* The state machine                                                       *)
(***************************************************************************)

Init ==
    /\ decoder \in Decoders
    /\ at = 0
    /\ code \in Codes(Formats[decoder])
    /\ out = NoOutput

\* One thread of a dequantisation kernel: the thread index is the element.
DequantThread ==
    /\ decoder \in Kernels /\ at < BlockSize
    /\ out' = CASE decoder = "Q4KDequant"   -> Output(Q4KDequant(at), code)
                [] decoder = "Q5KDequant"   -> Output(Q5KDequant(at), code)
                [] decoder = "Q6KDequant"   -> Output(Q6KDequant(at), code - 32)
                [] decoder = "IQ4XSDequant" -> Output(IQ4XSDequant(at), DequantTable[code + 1])
    /\ at' = at + 1
    /\ UNCHANGED <<decoder, code>>

\* One turn of the loop of a CPU decoder.
CpuDecode ==
    /\ decoder \in {"Q5KSm86Cpu", "Q5KPlanes", "IQ4XSSm86Cpu"} /\ at < BlockSize
    /\ out' = CASE decoder = "Q5KSm86Cpu"   -> Output(Q5KSm86Cpu(at), code)
                [] decoder = "Q5KPlanes"    -> Output(Q5KPlanes(at), code)
                [] decoder = "IQ4XSSm86Cpu" -> Output(IQ4XSSm86Cpu(at), KValues[code + 1])
    /\ at' = at + 1
    /\ UNCHANGED <<decoder, code>>

\* One code through the registers of a GEMV kernel, which WarpGemv shows to be
\* the code of the right element; lanes take four codes to a register.
RegisterDecode ==
    /\ decoder \in {"IQ4XSTable", "IQ4XSPrmt", "Q6KPacked"} /\ at < BlockSize
    /\ LET w == Reference(Formats[decoder], at)
       IN  out' = CASE decoder = "IQ4XSTable" -> Output(w, TableNumber(code))
                    [] decoder = "IQ4XSPrmt"  -> Output(w, PrmtNumber(code, (at % 4) + 1))
                    [] decoder = "Q6KPacked"  -> Output(w, Q6KPackedNumber(code, at % 4))
    /\ at' = at + 1
    /\ UNCHANGED <<decoder, code>>

Done == at = BlockSize /\ UNCHANGED vars

Next == DequantThread \/ CpuDecode \/ RegisterDecode \/ Done

Spec == Init /\ [][Next]_vars

(***************************************************************************)
(* Properties                                                              *)
(***************************************************************************)

BitsOf(fields) == UNION {{<<fields[i][1], b>> : b \in fields[i][2] .. fields[i][2] + fields[i][3] - 1}
                         : i \in DOMAIN fields}
AllBits(size) == (0 .. size - 1) \X (0 .. 7)
Kept(Block(_), size) == UNION {BitsOf(Block(b)) : b \in 0 .. size - 1}

\* Every bit of the native block is in the repacked one.
NothingLost ==
    /\ decoder = "Q5KSm86Cpu"   => Kept(Q5KSm86, 180) = AllBits(176)
    /\ decoder = "Q5KPlanes"    => Kept(Q5KMeta, 20) \cup Kept(Q5KQh, 32) \cup Kept(Q5KQs, 128) = AllBits(176)
    /\ decoder = "IQ4XSSm86Cpu" => Kept(IQ4Sm86, 138) = AllBits(136)

\* Whatever program decodes an element takes the code, the scale and the
\* minimum from the very bits the CPU reference takes them from, and a repack,
\* which the converter writes instead of the original, loses no bit.  The smoke
\* tests compare numbers of one block, where a wrong scale of the same size or
\* a wrong nibble in one group of eight goes unnoticed.
SameBits ==
    /\ out.run => out.weight = Reference(Formats[decoder], at - 1)
    /\ at = 0 => NothingLost

\* The bits spell the same number for every program, negative codes included.
SameNumber == out.run => out.number = Number(Formats[decoder], code)
=============================================================================
