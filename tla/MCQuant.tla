------------------------------- MODULE MCQuant -------------------------------
(***************************************************************************)
(* One call of a function that reads or writes the bits of a block: a      *)
(* program that decodes one (BlockDecode), a conversion between a single   *)
(* and a half (HalfFloat), or a quantiser (Q8Quantise) at the exponents    *)
(* around every border of a single, of a half and of their inverses.       *)
(***************************************************************************)
EXTENDS BlockDecode, Integers

VARIABLES
  call,                                                \* which of the three
  hpc, from, single, half,                             \* of HalfFloat
  format, x, e, pc, j, amax, max_value, d, qs, sums    \* of Q8Quantise

halfVars == <<hpc, from, single, half>>
q8Vars   == <<format, x, e, pc, j, amax, max_value, d, qs, sums>>

MCNumerators == {-19, -10, -9, -2, -1, 0, 1, 2, 9, 10, 19}

MCExponents ==
  -149..-142 \cup -130..-118 \cup {-100, -60, -40} \cup -30..-5
    \cup {0, 5} \cup 10..25 \cup {60, 122}

ASSUME NumeratorsAssumption ==
  /\ MCNumerators \subseteq -24..24
  /\ \A k \in MCNumerators : -k \in MCNumerators

Halves == INSTANCE HalfFloat WITH pc <- hpc
Q8     == INSTANCE Q8Quantise
            WITH Numerators <- MCNumerators, Exponents <- MCExponents,
                 Values <- 2, GroupSize <- 1

NoDecode  == /\ decoder = CHOOSE k \in Decoders : TRUE
             /\ at = BlockSize /\ code = 0 /\ out = NoOutput
NoConvert == /\ hpc = "none" /\ from = Halves!NoHalf
             /\ single = Halves!NoSingle /\ half = Halves!NoHalf
NoQuant   == /\ format = "none" /\ x = << >> /\ e = 0 /\ pc = "none" /\ j = 1
             /\ amax = 0 /\ max_value = 0 /\ d = Q8!Zero
             /\ qs = << >> /\ sums = << >>

CallInit ==
  \/ call = "decode" /\ Init /\ NoConvert /\ NoQuant
  \/ call = "convert" /\ NoDecode /\ Halves!Init /\ NoQuant
  \/ call = "quantise" /\ NoDecode /\ NoConvert /\ Q8!Init

Decode   == call = "decode" /\ Next /\ UNCHANGED <<call, halfVars, q8Vars>>
Convert  == call = "convert" /\ Halves!Next /\ UNCHANGED <<call, vars, q8Vars>>
Quantise == call = "quantise" /\ Q8!Next /\ UNCHANGED <<call, vars, halfVars>>

CallSpec ==
  CallInit /\ [][Decode \/ Convert \/ Quantise]_<<call, vars, halfVars, q8Vars>>
-----------------------------------------------------------------------------
(* A half that is widened and narrowed is the same half, and a single      *)
(* becomes the nearest half, the even one of two: fp16_to_fp32 and         *)
(* fp32_to_fp16.                                                           *)
HalvesRound == Halves!RoundTrips /\ Halves!NearestEven

(* The codes of Q8_1 and Q8_K are the nearest, and in range.               *)
NearestCode == Q8!NearestCode

(* A Q8_1 block decodes to within half a step, and what the half costs.    *)
DecodesClose == Q8!DecodesClose
=============================================================================
