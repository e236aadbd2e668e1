----------------------------- MODULE Q8Quantise ------------------------------
(***************************************************************************)
(* quantize_q8_1_cpu and quantize_q8_k_cpu of quant.cpp, and the decoders  *)
(* that go with them, at every magnitude a finite activation can have.     *)
(*                                                                         *)
(* The values of a block are k * 2^e for small integers k: codes depend on *)
(* their ratios, the scale on e.  d is M * 2^e / 127 for the largest       *)
(* magnitude M; Q8_1 keeps it as a half, Q8_K as a single.  A quotient is  *)
(* exact here and rounded in the code, which shows only at a tie: a code   *)
(* that is exactly between two integers may become either.                 *)
(***************************************************************************)
EXTENDS Integers, Sequences, FiniteSetsExt, SequencesExt

CONSTANTS
  Numerators,  \* the integers k, from -24..24 and closed under negation
  Exponents,   \* the exponents e
  Values,      \* values in a block (32 and 256 in the code)
  GroupSize    \* values in a group of bsums (16 in the code)

VARIABLES
  format,  \* "Q8_1" or "Q8_K"
  x, e,    \* the block: x[j] * 2^e
  pc,      \* "scan", "scale", "code", "sums", "done"
  j,       \* the loop counter
  amax, max_value,  \* in units of 2^e
  d,       \* the scale the block keeps
  qs,      \* the codes
  sums     \* the sum of all codes (Q8_1) or of each group (Q8_K)

vars == <<format, x, e, pc, j, amax, max_value, d, qs, sums>>

Abs(k) == IF k < 0 THEN -k ELSE k

(* To the nearest integer, the even one of two.                            *)
Nearest(a, b) ==
  LET n == a \div b  r == a % b IN
  IF 2 * r > b \/ (2 * r = b /\ n % 2 = 1) THEN n + 1 ELSE n

(* The exponent of M / 127, and of d.                                      *)
Log(M) == CHOOSE l \in -7..-2 : 127 * 2^(l + 7) <= M * 2^7
                                  /\ M * 2^7 < 127 * 2^(l + 8)

ScaleExponent == e + Log(amax)

(* 1 / d is beyond the singles below 2^-128, and d itself is zero when it  *)
(* is not half of the least single.                                        *)
ScaleIsZero ==
  \/ amax = 0
  \/ e < -143 /\ amax * 2^(e + 149) <= 63
InverseIsInfinite == ~ScaleIsZero /\ ScaleExponent < -128

-----------------------------------------------------------------------------
(* fp32_to_fp16(d): a multiple h of 2^u, or infinite.                      *)
HalfUnit == Max({ScaleExponent - 10, -24})

HalfDigits ==
  LET up == e - HalfUnit IN
  IF up >= 0 THEN Nearest(amax * 2^up, 127)
  ELSE IF up > -17 THEN Nearest(amax, 127 * 2^(-up)) ELSE 0

Infinite == [h |-> -1, u |-> 0]
Zero     == [h |-> 0, u |-> 0]

(* Mutant: a half has no subnormals.                                       *)
HalfScale_Flushed ==
  IF ScaleIsZero \/ ScaleExponent < -14 THEN Zero
  ELSE IF ScaleExponent > 15 \/ (HalfUnit = 5 /\ HalfDigits = 2048) THEN Infinite
  ELSE [h |-> HalfDigits, u |-> HalfUnit]

HalfScale ==
  IF ScaleIsZero THEN Zero
  ELSE IF ScaleExponent > 15 \/ (HalfUnit = 5 /\ HalfDigits = 2048) THEN Infinite
  ELSE [h |-> HalfDigits, u |-> HalfUnit]

(* fp32 keeps d as it is but for a last bit that plays no part here.       *)
Exact == [h |-> 0, u |-> 0]

-----------------------------------------------------------------------------
(* The codes a quotient 127 k / M may become.                              *)
Codes(k, M) ==
  LET n == (254 * Abs(k) + M) \div (2 * M)  \* a half goes away from zero
      all == IF (254 * Abs(k) + M) % (2 * M) = 0 THEN {n - 1, n} ELSE {n}
  IN  IF k < 0 THEN {-q : q \in all} ELSE all

Int8(v) == ((v + 128) % 256) - 128

Clamp(v) == Max({-127, Min({127, v})})

(* A conversion of an infinity or a NaN to int may give anything: some     *)
(* integers beyond and within the range stand for all.                     *)
Undefined == {-2147483647, -128, -1, 0, 1, 128, 2147483519}

(* round(x * id), clamped; id is 0 with d.                                 *)
Q81Codes(k) ==
  IF ScaleIsZero THEN {0}
  ELSE IF InverseIsInfinite THEN {Clamp(v) : v \in Undefined}
  ELSE {Clamp(q) : q \in Codes(k, amax)}

(* Mutant: the sign of iscale is forgotten.                                *)
Q8KCodes_Positive(k) ==
  IF amax = 0 \/ ScaleIsZero \/ InverseIsInfinite THEN {0}
  ELSE {Int8(Min({127, q})) : q \in Codes(IF max_value < 0 THEN -k ELSE k, amax)}

(* nearest_int(iscale * x), at most 127, as int8: iscale is -127/max_value.*)
(* An infinite iscale gives -0x400000 or 0, and both end as the byte 0.    *)
Q8KCodes(k) ==
  IF amax = 0 THEN {0}
  ELSE IF ScaleIsZero \/ InverseIsInfinite THEN {Int8(Min({127, -4194304}))}
  ELSE {Int8(Min({127, q})) : q \in Codes(IF max_value > 0 THEN -k ELSE k, amax)}

Init ==
  /\ format \in {"Q8_1", "Q8_K"}
  /\ x \in [1..Values -> Numerators] /\ e \in Exponents
  /\ pc = "scan" /\ j = 1 /\ amax = 0 /\ max_value = 0
  /\ d = Exact /\ qs = << >> /\ sums = << >>

(* The first of the largest magnitudes is the maximum.                     *)
Scan ==
  /\ pc = "scan"
  /\ amax' = Max({amax, Abs(x[j])})
  /\ max_value' = IF Abs(x[j]) > amax THEN x[j] ELSE max_value
  /\ pc' = IF j = Values THEN "scale" ELSE "scan"
  /\ j'  = IF j = Values THEN 1 ELSE j + 1
  /\ UNCHANGED <<format, x, e, d, qs, sums>>

Scale ==
  /\ pc = "scale"
  /\ d' = IF format = "Q8_1" THEN HalfScale ELSE Exact
  /\ pc' = "code"
  /\ UNCHANGED <<format, x, e, j, amax, max_value, qs, sums>>

Code ==
  /\ pc = "code"
  /\ \E q \in IF format = "Q8_1" THEN Q81Codes(x[j]) ELSE Q8KCodes(x[j]) :
        qs' = Append(qs, q)
  /\ pc' = IF j = Values THEN "sums" ELSE "code"
  /\ j'  = IF j = Values THEN 1 ELSE j + 1
  /\ UNCHANGED <<format, x, e, amax, max_value, d, sums>>

Groups == IF format = "Q8_1" THEN 1 ELSE Values \div GroupSize
Group(g) ==
  IF format = "Q8_1" THEN qs
  ELSE SubSeq(qs, (g - 1) * GroupSize + 1, g * GroupSize)

Total(s) == FoldSeq(LAMBDA q, t : q + t, 0, s)

Sums ==
  /\ pc = "sums"
  /\ sums' = [g \in 1..Groups |-> Total(Group(g))]
  /\ pc' = "done"
  /\ UNCHANGED <<format, x, e, j, amax, max_value, d, qs>>

Done == pc = "done" /\ UNCHANGED vars

Next == Scan \/ Scale \/ Code \/ Sums \/ Done

Spec == Init /\ [][Next]_vars

-----------------------------------------------------------------------------
Sign == IF format = "Q8_K" /\ max_value > 0 THEN -1 ELSE 1

(* Every code is the nearest to 127 times its value over the largest      *)
(* magnitude, of the sign that max_value gives the scale: at every         *)
(* magnitude at which 1 / d is finite, the values next to a tie included.  *)
(* Where it is not, codes still are from -127 to 127, never the -128 an    *)
(* int8 could hold, their sums fit the 16 bits the blocks have, and Q8_K   *)
(* decodes to zeros: nothing of it depends on a conversion that is         *)
(* undefined.                                                              *)
NearestCode ==
  pc = "done" =>
    /\ ~ScaleIsZero /\ ~InverseIsInfinite =>
         \A k \in 1..Values : Abs(254 * x[k] - 2 * Sign * qs[k] * amax) <= amax
    /\ \A k \in 1..Values : qs[k] \in -127..127
    /\ \A g \in 1..Groups : sums[g] \in -32768..32767
    /\ format = "Q8_K" /\ (ScaleIsZero \/ InverseIsInfinite) =>
         /\ \A k \in 1..Values : qs[k] = 0
         /\ \A g \in 1..Groups : sums[g] = 0

(* In units of 2^e / (127 * 2^17): a value of a Q8_1 block, and what the   *)
(* decoder makes of its code.                                              *)
Fine == 2^17
Given(k) == x[k] * 127 * Fine
Taken(k) == qs[k] * d.h * 127 * 2^(d.u - e + 17)

(* What Q8_1 decodes to is within half a step of the activation, and of    *)
(* 127 times the error of a scale kept as a half (a 2048th of it, or half  *)
(* the least half): at every magnitude whose scale is not infinite, also   *)
(* where the codes are undefined, because the scale has become zero there. *)
DecodesClose ==
  (pc = "done" /\ format = "Q8_1" /\ d # Infinite /\ amax # 0) =>
    LET step  == amax * Fine
        error == IF d.u > -24 THEN (127 * step) \div 2048
                 ELSE IF e <= -8 THEN 16129 * 2^(-8 - e) ELSE 8065
    IN  \A k \in 1..Values :
          IF d.h = 0 THEN ScaleIsZero \/ ScaleExponent < -25
          ELSE Abs(Given(k) - Taken(k)) <= step \div 2 + error + 1
=============================================================================
