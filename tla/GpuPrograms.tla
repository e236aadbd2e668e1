---------------------------- MODULE GpuPrograms ----------------------------
(***************************************************************************)
(* The programs of the twenty-one run_* functions of src/driver.cpp in the *)
(* vocabulary of GpuRun: which calls each makes, in which order, between   *)
(* the guards and `return true'.  A loop of n identical launches that only *)
(* times them is BenchIters long.                                          *)
(***************************************************************************)
EXTENDS Naturals, Sequences

CONSTANTS NoModule, BenchIters

Do(o)      == <<[op |-> o, mod |-> NoModule]>>
Launch(m)  == <<[op |-> "launch", mod |-> m]>>
Times(n, s) == [k \in 1 .. n * Len(s) |-> s[((k - 1) % Len(s)) + 1]]

Resolve    == Do("resolve")
Uploads(n) == Resolve \o Times(n, Do("copy"))
Clear      == Do("memset")
Reads(n)   == Times(n, Do("read"))
Bench(s)   == Times(BenchIters, s) \o Do("sync")

(* Two shapes are shared by the single-kernel smoke tests.  In the first   *)
(* the result is compared after the module has been unloaded, in the       *)
(* second inside the inner handler, before a benchmark loop.               *)
ComparedLast(m, uploads) ==
  [setup |-> uploads, loads |-> <<m>>,
   body  |-> Do("function") \o Launch(m) \o Do("sync") \o Do("read"),
   tail  |-> Do("errors") \o Do("verify")]

Benchmarked(m, uploads, beforeBench) ==
  [setup |-> uploads, loads |-> <<m>>,
   body  |-> Do("function") \o Launch(m) \o Do("sync") \o Do("read")
             \o Do("errors") \o Do("verify")
             \o beforeBench \o Bench(Launch(m)) \o Do("times"),
   tail  |-> << >>]

Sm86Smoke ==
  [ComparedLast("smoke", Uploads(1)) EXCEPT !.tail = Do("verify")]

RmsNormSmoke ==
  [setup |-> Uploads(2) \o Clear, loads |-> <<"norm">>,
   body  |-> Times(2, Do("function")) \o Times(2, Launch("norm"))
             \o Do("sync") \o Do("read"),
   tail  |-> Do("errors") \o Do("verify")]

Q4kDequantSmoke   == ComparedLast("q4k_dequant", Uploads(1))
Q6kDequantSmoke   == ComparedLast("q6k_dequant", Uploads(1))
Iq4xsDequantSmoke == ComparedLast("iq4xs_dequant", Uploads(1))
Q5kDequantSmoke   == ComparedLast("q5k_dequant", Uploads(1))

Q4kGemvSmoke      == Benchmarked("q4k", Uploads(2), << >>)
Q6kGemvSmoke      == Benchmarked("q6k", Uploads(2), << >>)
Iq4xsGemvSmoke    == Benchmarked("iq4xs", Uploads(2), << >>)
Iq4xsSm86GemvSmoke == Benchmarked("iq4xs_sm86", Uploads(2), << >>)
Iq4xsQ81GemvSmoke == Benchmarked("iq4xs_q81", Uploads(2), << >>)
Q5kGemvSmoke      == Benchmarked("q5k", Uploads(2) \o Clear, << >>)
Q5kQ8kGemvSmoke   == Benchmarked("q5k_q8k", Uploads(2) \o Clear, Clear)
Q5kSm86GemvSmoke  == Benchmarked("q5k_vec", Uploads(2), << >>)

GdnArSmoke ==
  [setup |-> Uploads(6), loads |-> <<"gdn">>,
   body  |-> Do("function") \o Launch("gdn") \o Do("sync") \o Reads(2)
             \o Do("verify") \o Bench(Launch("gdn"))
             \o Do("errors") \o Do("times"),
   tail  |-> << >>]

RecurrentPrepSmoke ==
  LET prep == Times(3, Launch("prep")) IN
  [setup |-> Uploads(7), loads |-> <<"prep">>,
   body  |-> Times(3, Do("function")) \o prep \o Do("sync") \o Reads(6)
             \o Do("verify")
             \o Times(3, Bench(Launch("prep"))) \o Bench(prep)
             \o Do("errors") \o Do("times"),
   tail  |-> << >>]
-----------------------------------------------------------------------------
(* The layer functions.  Norm, Prep, Tail3 and Ffn are the launch lambdas  *)
(* of src/driver.cpp; each starts its RMSNorm with a memset of sumsq.      *)
Norm       == Clear \o Times(2, Launch("norm"))
Small      == Launch("q4k")
Wide       == Launch("q5k_vec")
Projection == Norm \o Times(2, Wide) \o Times(2, Small)
Prep       == Times(3, Launch("prep"))
Gdn        == Launch("gdn")
Front      == Projection \o Prep \o Gdn
Tail3      == Launch("tail") \o Wide \o Launch("tail")
Attention  == Front \o Tail3
Ffn        == Norm \o Launch("iq4_prmt") \o Wide \o Launch("tail") \o Wide
              \o Launch("tail")

FrontBenches == Bench(Projection) \o Bench(Prep) \o Bench(Gdn) \o Bench(Front)
TailBenches  == Bench(Launch("tail")) \o Bench(Wide) \o Bench(Tail3)
                \o Bench(Attention)
FfnBenches   == Bench(Norm) \o Bench(Launch("iq4_prmt")) \o Bench(Wide)
                \o Bench(Launch("tail")) \o Bench(Wide) \o Bench(Ffn)

Layer0GateSmoke ==
  [setup |-> Uploads(3), loads |-> <<"norm", "q5k_vec">>,
   body  |-> Times(3, Do("function")) \o Norm \o Wide \o Do("sync")
             \o Do("read") \o Do("errors") \o Do("verify")
             \o Bench(Norm) \o Bench(Wide) \o Bench(Norm \o Wide)
             \o Do("times"),
   tail  |-> << >>]

Layer0ProjectionPack ==
  [setup |-> Uploads(6), loads |-> <<"norm", "q5k_vec", "q4k">>,
   body  |-> Times(4, Do("function")) \o Projection \o Do("sync") \o Reads(4)
             \o Times(4, Do("verify"))
             \o Bench(Norm) \o Times(2, Bench(Wide)) \o Times(2, Bench(Small))
             \o Bench(Projection) \o Do("errors") \o Do("times"),
   tail  |-> << >>]

Layer0RecurrentFront ==
  [setup |-> Uploads(11),
   loads |-> <<"norm", "q5k_vec", "q4k", "prep", "gdn">>,
   body  |-> Times(8, Do("function")) \o Front \o Do("sync") \o Reads(11)
             \o Do("verify") \o FrontBenches \o Do("errors") \o Do("times"),
   tail  |-> << >>]

Layer0RecurrentAttention ==
  [setup |-> Uploads(13),
   loads |-> <<"norm", "q5k_vec", "q4k", "prep", "gdn", "tail">>,
   body  |-> Times(10, Do("function")) \o Attention \o Do("sync") \o Reads(15)
             \o Times(2, Do("verify")) \o FrontBenches \o TailBenches
             \o Do("errors") \o Do("times"),
   tail  |-> << >>]

Layer0Full ==
  [setup |-> Uploads(17),
   loads |-> <<"norm", "q5k_vec", "q4k", "prep", "gdn", "tail", "iq4_prmt">>,
   body  |-> Times(12, Do("function")) \o Attention \o Ffn \o Do("sync")
             \o Reads(21) \o Times(3, Do("verify"))
             \o FrontBenches \o TailBenches \o FfnBenches
             \o Bench(Attention \o Ffn) \o Do("errors") \o Do("times"),
   tail  |-> << >>]

ProgramOf ==
  [sm86_smoke |-> Sm86Smoke, rmsnorm_smoke |-> RmsNormSmoke,
   q4k_dequant_smoke |-> Q4kDequantSmoke,
   q6k_dequant_smoke |-> Q6kDequantSmoke,
   iq4xs_dequant_smoke |-> Iq4xsDequantSmoke,
   q5k_dequant_smoke |-> Q5kDequantSmoke,
   q4k_gemv_smoke |-> Q4kGemvSmoke, q6k_gemv_smoke |-> Q6kGemvSmoke,
   iq4xs_gemv_smoke |-> Iq4xsGemvSmoke,
   iq4xs_sm86_gemv_smoke |-> Iq4xsSm86GemvSmoke,
   iq4xs_q8_1_gemv_smoke |-> Iq4xsQ81GemvSmoke,
   q5k_gemv_smoke |-> Q5kGemvSmoke, q5k_q8k_gemv_smoke |-> Q5kQ8kGemvSmoke,
   q5k_sm86_gemv_smoke |-> Q5kSm86GemvSmoke,
   recurrent_prep_smoke |-> RecurrentPrepSmoke, gdn_ar_smoke |-> GdnArSmoke,
   layer0_gate_smoke |-> Layer0GateSmoke,
   layer0_projection_pack |-> Layer0ProjectionPack,
   layer0_recurrent_front |-> Layer0RecurrentFront,
   layer0_recurrent_attention |-> Layer0RecurrentAttention,
   layer0_full |-> Layer0Full]

=============================================================================
