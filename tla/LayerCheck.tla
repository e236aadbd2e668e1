----------------------------- MODULE LayerCheck -----------------------------
(***************************************************************************)
(* What the layer-0 self-checks of src/driver.cpp can and cannot see.      *)
(*                                                                         *)
(* run_layer0_projection_pack, run_layer0_recurrent_front,                 *)
(* run_layer0_recurrent_attention and run_layer0_full queue a chain of     *)
(* kernels over shared device buffers, read some of the buffers back,      *)
(* recompute some of them on the CPU, partly from other buffers they read  *)
(* back, compare, and then rerun pieces of the chain to time them.         *)
(*                                                                         *)
(* Numbers are abstracted to where they come from: what a buffer holds is  *)
(* the set of buffers it was computed from ({} for garbage) and, for each  *)
(* range of rows, the faults its values depend on.  A fault leaves values  *)
(* that are "off" (beyond every tolerance) or "nan" in a range of the rows *)
(* of one output; errors do not cancel.                                    *)
(***************************************************************************)
EXTENDS Naturals, Sequences

CONSTANTS
  Targets,    \* the checks to run
  Kinds,      \* kinds of fault: a subset of {"off", "nan"}
  MaxFaults   \* bound on the number of faults of one run

ASSUME TargetsAssumption ==
  Targets \subseteq {"projection", "front", "attention", "full"}

(* Row ranges: validate_q5 and validate_q4 compare four rows, the tail and *)
(* FFN checks eight, the other comparisons all of them.                    *)
Rows   == {"first4", "next4", "rest"}
First4 == {"first4"}
First8 == {"first4", "next4"}

Inputs == {"hidden", "conv_state_in", "gdn_state_in"}

(* The kernels: the activation buffers each output is computed from, by    *)
(* the parameter arrays and the kernels' dataflow.                         *)
Computes ==
  [normed     |-> {"hidden"},
   qkv        |-> {"normed"},
   z          |-> {"normed"},
   beta_raw   |-> {"normed"},
   alpha_raw  |-> {"normed"},
   conv       |-> {"qkv", "conv_state_in"},
   conv_state |-> {"qkv", "conv_state_in"},
   q          |-> {"conv"},
   k          |-> {"conv"},
   beta       |-> {"beta_raw"},
   gate       |-> {"alpha_raw"},
   gdn_out    |-> {"q", "k", "conv", "gate", "beta", "gdn_state_in"},
   gdn_state  |-> {"k", "conv", "gate", "beta", "gdn_state_in"},
   gated_norm |-> {"gdn_out", "z"},
   ssm_out    |-> {"gated_norm"},
   residual   |-> {"ssm_out", "hidden"},
   ffn_normed |-> {"residual"},
   ffn_gate   |-> {"ffn_normed"},
   ffn_up     |-> {"ffn_normed"},
   ffn_mul    |-> {"ffn_gate", "ffn_up"},
   ffn_down   |-> {"ffn_mul"},
   layer_out  |-> {"ffn_down", "residual"}]

Outputs == DOMAIN Computes

(* Outputs whose row n depends on row n of the inputs only.                *)
Elementwise == {"residual", "ffn_mul", "layer_out"}

(* Kernels that write more than one buffer; every other kernel is named    *)
(* for the one it writes.                                                  *)
MultiOutput == {"conv_prep", "qk_l2norm", "beta_gate", "gdn"}

Writes(l) == CASE l = "conv_prep"  -> {"conv", "conv_state"}
               [] l = "qk_l2norm"  -> {"q", "k"}
               [] l = "beta_gate"  -> {"beta", "gate"}
               [] l = "gdn"        -> {"gdn_out", "gdn_state"}
               [] OTHER            -> {l}

Kernels == (Outputs \ UNION {Writes(l) : l \in MultiOutput}) \cup MultiOutput

(* The RMSNorm pair: one kernel accumulates sumsq, the other divides by it.*)
Sums       == [sum |-> "hidden", ffn_sum |-> "residual"]
Normalised == {"normed", "ffn_normed"}
-----------------------------------------------------------------------------
(* The launch lambdas, and the loops that rerun them after the comparison. *)
LaunchNorm       == <<"clear", "sum", "normed">>
LaunchProjection == LaunchNorm \o <<"qkv", "z", "beta_raw", "alpha_raw">>
LaunchPrep       == <<"conv_prep", "qk_l2norm", "beta_gate">>
LaunchFront      == LaunchProjection \o LaunchPrep \o <<"gdn">>
LaunchTail       == <<"gated_norm", "ssm_out", "residual">>
LaunchAttention  == LaunchFront \o LaunchTail
LaunchPostNorm   == <<"clear", "ffn_sum", "ffn_normed">>
LaunchFfn        == LaunchPostNorm \o <<"ffn_gate", "ffn_up", "ffn_mul",
                                        "ffn_down", "layer_out">>

ProjectionBench == LaunchProjection \o LaunchProjection
FrontBench      == LaunchProjection \o LaunchPrep \o <<"gdn">> \o LaunchFront
TailBench       == <<"gated_norm", "ssm_out">> \o LaunchTail \o LaunchAttention
(* Mutant: the timing loop of the FFN leaves the memset out.               *)
FfnBench_NoClear == <<"ffn_sum", "ffn_normed", "ffn_gate", "ffn_up",
                      "ffn_mul", "ffn_down">> \o LaunchFfn

FfnBench        == LaunchPostNorm \o <<"ffn_gate", "ffn_up", "ffn_mul",
                                       "ffn_down">> \o LaunchFfn

Chain(t) == CASE t = "projection" -> LaunchProjection
              [] t = "front"      -> LaunchFront
              [] t = "attention"  -> LaunchAttention
              [] t = "full"       -> LaunchAttention \o LaunchFfn

Bench(t) == CASE t = "projection" -> ProjectionBench
              [] t = "front"      -> FrontBench
              [] t = "attention"  -> FrontBench \o TailBench
              [] t = "full"       -> FrontBench \o TailBench \o FfnBench
                                     \o LaunchAttention \o LaunchFfn
-----------------------------------------------------------------------------
(* The CPU references: what each is computed from.  Inputs in Oracle(t)    *)
(* are taken from the buffers read back, the others from the references.   *)
RefReads ==
  [normed     |-> {"hidden"},
   qkv        |-> {"normed"},
   z          |-> {"normed"},
   beta_raw   |-> {"normed"},
   alpha_raw  |-> {"normed"},
   conv       |-> {"qkv", "conv_state_in"},
   conv_state |-> {"qkv", "conv_state_in"},
   q          |-> {"conv"},
   k          |-> {"conv"},
   beta       |-> {"beta_raw"},
   gate       |-> {"alpha_raw"},
   gdn_out    |-> {"q", "k", "conv", "gate", "beta", "gdn_state_in"},
   gdn_state  |-> {"k", "conv", "gate", "beta", "gdn_state_in"},
   gated_norm |-> {"gdn_out", "z"},
   ssm_out    |-> {"gated_norm"},
   residual   |-> {"ssm_out", "hidden"},
   ffn_normed |-> {"residual"},
   ffn_mul    |-> {"ffn_gate", "ffn_up"},
   ffn_down   |-> {"ffn_mul"},
   layer_out  |-> {"ffn_down", "residual"}]

Oracle(t) == IF t = "projection" THEN {}
             ELSE {"qkv", "z", "beta_raw", "alpha_raw", "residual",
                   "ffn_gate", "ffn_up"}

(* What the check recomputes: the projection check the first four matrices *)
(* from its input, the others what lies behind these.                      *)
Recomputed(t) ==
  LET first == {"normed", "qkv", "z", "beta_raw", "alpha_raw"}
  IN  IF t = "projection" THEN first ELSE DOMAIN RefReads \ first

(* The rows of each buffer that are compared, comparison by comparison.    *)
Everywhere(S) == [b \in S |-> Rows]

ProjectionRows == [b \in {"qkv", "z", "beta_raw", "alpha_raw"} |-> First4]
FrontRows      == Everywhere({"conv", "conv_state", "q", "k", "beta", "gate",
                              "gdn_out", "gdn_state"})
AttentionRows  == [gated_norm |-> Rows, ssm_out |-> First8,
                   residual |-> First8]
FfnRows        == [ffn_normed |-> Rows, ffn_mul |-> Rows,
                   ffn_down |-> First8, layer_out |-> First8]

Comparisons(t) == CASE t = "projection" -> <<ProjectionRows>>
                    [] t = "front"      -> <<FrontRows>>
                    [] t = "attention"  -> <<FrontRows, AttentionRows>>
                    [] t = "full"       -> <<FrontRows, AttentionRows, FfnRows>>
-----------------------------------------------------------------------------
Fault  == [at : Outputs, rows : Rows, kind : Kinds]
          \cup [at : DOMAIN Sums, rows : {"rest"}, kind : Kinds]

VARIABLES
  target,   \* the check that runs
  faults,   \* what its kernels get wrong
  pc,       \* next launch of the chain, comparison, launch of the benches
  stage,    \* "chain", "compare", then the verdict: "pass" or "mismatch"
  buf,      \* what each buffer holds
  sumsq     \* what has been accumulated since the last clear

vars == <<target, faults, pc, stage, buf, sumsq>>

NoFault == [r \in Rows |-> {}]

Init ==
  /\ target \in Targets
  /\ \E f \in [1 .. MaxFaults -> Fault] :
       faults \in {{}, {f[n] : n \in DOMAIN f}}
  /\ pc = 1 /\ stage = "chain"
  /\ buf = [b \in Inputs \cup Outputs |->
              [from |-> IF b \in Inputs THEN {"host"} ELSE {}, bad |-> NoFault]]
  /\ sumsq = <<[of |-> {}, bad |-> {}]>>

All(bad) == UNION {bad[r] : r \in Rows}

Code == IF stage = "pass" THEN Bench(target) ELSE Chain(target)

Launching(l) == stage \in {"chain", "pass"} /\ pc <= Len(Code) /\ Code[pc] = l

(* memset_d32(sumsq_ptr, 0, 1).                                            *)
Clear ==
  /\ Launching("clear")
  /\ sumsq' = << >>
  /\ pc' = pc + 1
  /\ UNCHANGED <<target, faults, stage, buf>>

(* The sum kernel adds to sumsq.                                           *)
Accumulate(l) ==
  /\ Launching(l)
  /\ LET x == buf[Sums[l]]
     IN  sumsq' = Append(sumsq, [of  |-> x.from,
                                 bad |-> All(x.bad) \cup {f \in faults : f.at = l}])
  /\ pc' = pc + 1
  /\ UNCHANGED <<target, faults, stage, buf>>

(* What a launch leaves in the output b.  The normalising kernels need     *)
(* sumsq to hold the sum over their own input and nothing else.            *)
Usable(b) ==
  /\ \A x \in Computes[b] : buf[x].from # {}
  /\ b \in Normalised =>
       \A x \in Computes[b] : Len(sumsq) = 1 /\ sumsq[1].of = buf[x].from

Reached(b, r) ==
  (UNION {IF b \in Elementwise THEN buf[x].bad[r] ELSE All(buf[x].bad)
            : x \in Computes[b]})
  \cup (IF b \in Normalised THEN UNION {sumsq[k].bad : k \in DOMAIN sumsq}
        ELSE {})

Result(b) ==
  [from |-> IF Usable(b) THEN Computes[b] ELSE {},
   bad  |-> [r \in Rows |->
               Reached(b, r) \cup {f \in faults : f.at = b /\ f.rows = r}]]

Kernel(l) ==
  /\ Launching(l)
  /\ buf' = [b \in DOMAIN buf |-> IF b \in Writes(l) THEN Result(b) ELSE buf[b]]
  /\ pc' = pc + 1
  /\ UNCHANGED <<target, faults, stage, sumsq>>

(* The sync and the copies back; nothing has run in between.               *)
ReadBack ==
  /\ stage = "chain" /\ pc > Len(Code)
  /\ stage' = "compare" /\ pc' = 1
  /\ UNCHANGED <<target, faults, buf, sumsq>>

(* The faults each CPU reference inherits from the buffers it is fed with. *)
RefBad[b \in Recomputed(target)] ==
  LET Of(x, r) == IF x \in Inputs THEN {}
                  ELSE IF x \in Oracle(target) THEN buf[x].bad[r]
                  ELSE RefBad[x][r]
  IN  [r \in Rows |->
         UNION {IF b \in Elementwise THEN Of(x, r)
                ELSE UNION {Of(x, s) : s \in Rows} : x \in RefReads[b]}]

HasNaN(bad) == \E f \in bad : f.kind = "nan"

(* |gpu - ref| > tolerance on some compared row.  The maxima are folded    *)
(* with std::max and the rows tested with >: both ignore a NaN.            *)
Differs(b, rows) ==
  \/ buf[b].from # RefReads[b]
  \/ \E r \in rows : /\ buf[b].bad[r] # RefBad[b][r]
                     /\ ~HasNaN(buf[b].bad[r] \cup RefBad[b][r])

(* Mutant: each comparison overwrites the verdict of the one before.       *)
Compare_LastCounts ==
  /\ stage = "compare"
  /\ LET rows == Comparisons(target)[pc]
         bad  == \E b \in DOMAIN rows : Differs(b, rows[b])
     IN  IF pc < Len(Comparisons(target)) THEN stage' = stage /\ pc' = pc + 1
         ELSE /\ stage' = IF bad THEN "mismatch" ELSE "pass"
              /\ pc' = 1
  /\ UNCHANGED <<target, faults, buf, sumsq>>

Compare ==
  /\ stage = "compare"
  /\ LET rows == Comparisons(target)[pc]
     IN  IF \E b \in DOMAIN rows : Differs(b, rows[b])
         THEN stage' = "mismatch" /\ pc' = pc
         ELSE IF pc = Len(Comparisons(target)) THEN stage' = "pass" /\ pc' = 1
         ELSE stage' = stage /\ pc' = pc + 1
  /\ UNCHANGED <<target, faults, buf, sumsq>>

Next == \/ Clear
        \/ \E l \in DOMAIN Sums : Accumulate(l)
        \/ \E l \in Kernels : Kernel(l)
        \/ ReadBack \/ Compare

Spec == Init /\ [][Next]_vars
-----------------------------------------------------------------------------
(* A fault is in sight when it is in a compared row, or in an RMSNorm that *)
(* the references recompute.                                               *)
InSight(f) ==
  \/ \E n \in DOMAIN Comparisons(target) :
       LET rows == Comparisons(target)[n]
       IN  f.at \in DOMAIN rows /\ f.rows \in rows[f.at]
  \/ target = "projection" /\ f.at \in {"sum", "normed"}
  \/ target = "full" /\ f.at = "ffn_sum"

(* What the verdict means.  Whatever the other faults do, a wrong value in *)
(* sight is reported; and because the references are fed with values read  *)
(* back, nothing else is: a wrong projection, a wrong row past the eighth  *)
(* of ssm_out, or what follows from them, is never reported.               *)
VerdictIsExact ==
  /\ stage = "pass"     => ~ \E f \in faults : InSight(f)
  /\ stage = "mismatch" =>   \E f \in faults : InSight(f)

(* Timing the chain does not change what it computes: every rerun of every *)
(* piece of it leaves every buffer as the comparison found it.             *)
RerunsChangeNothing == [][stage = "pass" => buf' = buf]_vars

(* README.md:1060-1065, "Integrated correctness validates: post-attention  *)
(* RMSNorm: all 5120 values, SiLU(gate) * up: all 17408 values": after a   *)
(* pass these buffers hold what the references hold.                       *)
Validated ==
  stage = "pass" /\ target = "full" =>
    \A b \in {"ffn_normed", "ffn_mul"} : buf[b].bad = RefBad[b]
=============================================================================
