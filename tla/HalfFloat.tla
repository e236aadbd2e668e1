------------------------------- MODULE HalfFloat -------------------------------
(***************************************************************************)
(* fp16_to_fp32 and fp32_to_fp16 of quant.cpp, which read the scales of    *)
(* every block and write the scales of Q8_1.  A single is a record of      *)
(* sign, exponent and mantissa, a half a record of sign and the fifteen    *)
(* bits below it: carries run from the mantissa into the exponent there,   *)
(* which is where rounding goes wrong.                                     *)
(***************************************************************************)
EXTENDS Integers

Halves == 0 .. 32767        \* every half, without its sign
Exponents == 0 .. 255       \* every exponent of a single
Ties == 1 .. 21             \* bound: the bits at which mantissas are near a tie

VARIABLES
    pc,         \* "widen", "narrow", "done"
    from,       \* the half this behaviour started from, or NoHalf
    single, half

vars == <<pc, from, single, half>>

Half(s, bits) == [s |-> s, bits |-> bits]
Single(s, e, m) == [s |-> s, e |-> e, m |-> m]
NoHalf == Half(0, -1)
NoSingle == Single(0, -1, 0)

Infinity == 31 * 1024

\* Mantissas at, just below and just above half a unit of some position, with
\* an even and an odd bit above it; for a whole mantissa that rounds up, too.
Mantissas ==
    UNION {{p - 1, p, p + 1, 3 * p - 1, 3 * p, 3 * p + 1} : p \in {2 ^ b : b \in Ties}}
        \cup {0, 1, 2 ^ 22, 2 ^ 23 - 1} \cup {2 ^ 23 - 2 ^ b : b \in Ties} \cup {2 ^ 23 - 2 ^ b - 1 : b \in Ties}

(***************************************************************************)
(* The two conversions                                                     *)
(***************************************************************************)

\* A subnormal is shifted up until its leading bit is the implicit one.
Widen(h) ==
    LET e == h.bits \div 1024  m == h.bits % 1024
        shift == CHOOSE k \in 0 .. 10 : m * 2 ^ k \in 1024 .. 2047
    IN  CASE e = 0 /\ m = 0 -> Single(h.s, 0, 0)
          [] e = 0 /\ m # 0 -> Single(h.s, (-14 - shift) + 127, (m * 2 ^ shift - 1024) * 8192)
          [] e = 31         -> Single(h.s, 255, m * 8192)
          [] OTHER          -> Single(h.s, e + 112, m * 8192)

\* Mutant: ties always go up.
RoundsUp_Ties(m, unit) == m % unit >= unit \div 2

\* m in units of 1, to a multiple of unit: up past the middle, and in the
\* middle when the result would be odd.
RoundsUp(m, unit) == \/ m % unit > unit \div 2
                     \/ m % unit = unit \div 2 /\ (m \div unit) % 2 = 1

Rounded(m, unit) == m \div unit + (IF RoundsUp(m, unit) THEN 1 ELSE 0)

\* A carry out of the mantissa goes into the exponent: 0x400 becomes the next
\* exponent with mantissa 0, at the top the infinity, below the least normal.
Narrow(f) ==
    LET e == f.e - 112
    IN  CASE f.e = 255                    -> Half(f.s, Infinity + (IF f.m # 0 THEN 512 ELSE 0))
          [] f.e # 255 /\ e >= 31         -> Half(f.s, Infinity)
          [] e > 0 /\ e < 31              -> Half(f.s, e * 1024 + Rounded(f.m, 8192))
          [] e <= 0 /\ e >= -10           -> Half(f.s, Rounded(f.m + 2 ^ 23, 2 ^ (14 - e)))
          [] e < -10                      -> Half(f.s, 0)

(***************************************************************************)
(* A half is widened and narrowed again, or a single is narrowed.          *)
(***************************************************************************)

Init ==
    \/ /\ \E s \in 0 .. 1, bits \in Halves : from = Half(s, bits)
       /\ pc = "widen" /\ single = NoSingle /\ half = NoHalf
    \/ /\ \E s \in 0 .. 1, e \in Exponents, m \in Mantissas : single = Single(s, e, m)
       /\ pc = "narrow" /\ from = NoHalf /\ half = NoHalf

ToSingle ==
    /\ pc = "widen"
    /\ single' = Widen(from)
    /\ pc' = "narrow"
    /\ UNCHANGED <<from, half>>

ToHalf ==
    /\ pc = "narrow"
    /\ half' = Narrow(single)
    /\ pc' = "done"
    /\ UNCHANGED <<from, single>>

Done == pc = "done" /\ UNCHANGED vars

Next == ToSingle \/ ToHalf \/ Done

Spec == Init /\ [][Next]_vars

(***************************************************************************)
(* Properties                                                              *)
(***************************************************************************)

IsNaN(h) == h.bits > Infinity

\* Widening loses nothing: every half comes back as itself, subnormals, zeros
\* of both signs and infinities included, and a NaN as a NaN.
RoundTrips ==
    pc = "done" /\ from # NoHalf =>
        IF IsNaN(from) THEN IsNaN(half) ELSE half = from

\* Narrowing is to the nearest half, and to the even one of two, infinity being
\* the number after the largest half: the error, in units of the single's last
\* bit, is at most half a unit of the half.  Below the least subnormal the
\* result is zero, above the range it is infinity.
NearestEven ==
    pc = "done" /\ from = NoHalf =>
        /\ half.s = single.s
        /\ single.e >= 143 /\ single.e < 255 => half.bits = Infinity
        /\ single.e < 102 => half.bits = 0
        /\ single.e \in 113 .. 142 =>
             LET carry == half.bits \div 1024 - (single.e - 112)
                 off == (1024 + (half.bits % 1024)) * 8192 * 2 ^ carry - (2 ^ 23 + single.m)
             IN  /\ carry \in 0 .. 1
                 /\ off \in -4096 .. 4096
                 /\ off \in {-4096, 4096} => half.bits % 2 = 0
        /\ single.e \in 102 .. 112 =>
             LET ulp == 2 ^ (126 - single.e)
                 off == half.bits * ulp - (2 ^ 23 + single.m)
             IN  /\ off \in -(ulp \div 2) .. ulp \div 2
                 /\ off \in {-(ulp \div 2), ulp \div 2} => half.bits % 2 = 0
=============================================================================
