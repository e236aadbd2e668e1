-------------------------- MODULE LayerCheck_proofs --------------------------
(***************************************************************************)
(* Proofs about the layer-0 self-checks, for any number of faults: what    *)
(* their verdict means, and that timing the chain changes no buffer.       *)
(*                                                                         *)
(* The four chains are the beginnings of one list of launches, Steps, that *)
(* writes each buffer once and after the buffers it is computed from.  A   *)
(* buffer that has been written is therefore "settled": it is what its     *)
(* kernel makes of the buffers as they are now.  The timing loops can only *)
(* repeat that, and a CPU reference is the same equation without the fault *)
(* of the kernel.                                                          *)
(***************************************************************************)
EXTENDS LayerCheck, TLAPS

Steps ==
  <<"clear", "sum", "normed", "qkv", "z", "beta_raw", "alpha_raw",
    "conv_prep", "qk_l2norm", "beta_gate", "gdn",
    "gated_norm", "ssm_out", "residual",
    "clear", "ffn_sum", "ffn_normed", "ffn_gate", "ffn_up", "ffn_mul",
    "ffn_down", "layer_out">>

(* How many of them a check queues.                                        *)
Length(t) == CASE t = "projection" -> 7 [] t = "front" -> 11
               [] t = "attention" -> 14 [] t = "full" -> 22

(* The step that writes a buffer or a sum.                                 *)
Step == [sum |-> 2, normed |-> 3, qkv |-> 4, z |-> 5, beta_raw |-> 6,
         alpha_raw |-> 7, conv |-> 8, conv_state |-> 8, q |-> 9, k |-> 9,
         beta |-> 10, gate |-> 10, gdn_out |-> 11, gdn_state |-> 11,
         gated_norm |-> 12, ssm_out |-> 13, residual |-> 14, ffn_sum |-> 16,
         ffn_normed |-> 17, ffn_gate |-> 18, ffn_up |-> 19, ffn_mul |-> 20,
         ffn_down |-> 21, layer_out |-> 22]

LEMMA Names ==
  /\ Outputs = {"normed", "qkv", "z", "beta_raw", "alpha_raw", "conv",
                "conv_state", "q", "k", "beta", "gate", "gdn_out", "gdn_state",
                "gated_norm", "ssm_out", "residual", "ffn_normed", "ffn_gate",
                "ffn_up", "ffn_mul", "ffn_down", "layer_out"}
  /\ Kernels = {"normed", "qkv", "z", "beta_raw", "alpha_raw", "conv_prep",
                "qk_l2norm", "beta_gate", "gdn", "gated_norm", "ssm_out",
                "residual", "ffn_normed", "ffn_gate", "ffn_up", "ffn_mul",
                "ffn_down", "layer_out"}
  /\ DOMAIN Sums = {"sum", "ffn_sum"}
<1>1. Outputs = {"normed", "qkv", "z", "beta_raw", "alpha_raw", "conv",
                "conv_state", "q", "k", "beta", "gate", "gdn_out", "gdn_state",
                "gated_norm", "ssm_out", "residual", "ffn_normed", "ffn_gate",
                "ffn_up", "ffn_mul", "ffn_down", "layer_out"}
  BY DEF Outputs, Computes
<1>2. UNION {Writes(l) : l \in MultiOutput}
        = {"conv", "conv_state", "q", "k", "beta", "gate", "gdn_out", "gdn_state"}
  <2>1. /\ Writes("conv_prep") = {"conv", "conv_state"}
        /\ Writes("qk_l2norm") = {"q", "k"}
        /\ Writes("beta_gate") = {"beta", "gate"}
        /\ Writes("gdn") = {"gdn_out", "gdn_state"}
    BY DEF Writes
  <2> QED BY <2>1 DEF MultiOutput
<1>3. Kernels = {"normed", "qkv", "z", "beta_raw", "alpha_raw", "conv_prep",
                "qk_l2norm", "beta_gate", "gdn", "gated_norm", "ssm_out",
                "residual", "ffn_normed", "ffn_gate", "ffn_up", "ffn_mul",
                "ffn_down", "layer_out"}
  BY <1>1, <1>2 DEF Kernels, MultiOutput
<1> QED BY <1>1, <1>3 DEF Sums

(* The dataflow, kernel by kernel.                                         *)
LEMMA Dataflow ==
  /\ Computes["normed"] = {"hidden"}
  /\ Computes["qkv"] = {"normed"} /\ Computes["z"] = {"normed"}
  /\ Computes["beta_raw"] = {"normed"} /\ Computes["alpha_raw"] = {"normed"}
  /\ Computes["conv"] = {"qkv", "conv_state_in"}
  /\ Computes["conv_state"] = {"qkv", "conv_state_in"}
  /\ Computes["q"] = {"conv"} /\ Computes["k"] = {"conv"}
  /\ Computes["beta"] = {"beta_raw"} /\ Computes["gate"] = {"alpha_raw"}
  /\ Computes["gdn_out"] = {"q", "k", "conv", "gate", "beta", "gdn_state_in"}
  /\ Computes["gdn_state"] = {"k", "conv", "gate", "beta", "gdn_state_in"}
  /\ Computes["gated_norm"] = {"gdn_out", "z"}
  /\ Computes["ssm_out"] = {"gated_norm"}
  /\ Computes["residual"] = {"ssm_out", "hidden"}
  /\ Computes["ffn_normed"] = {"residual"}
  /\ Computes["ffn_gate"] = {"ffn_normed"} /\ Computes["ffn_up"] = {"ffn_normed"}
  /\ Computes["ffn_mul"] = {"ffn_gate", "ffn_up"}
  /\ Computes["ffn_down"] = {"ffn_mul"}
  /\ Computes["layer_out"] = {"ffn_down", "residual"}
BY DEF Computes

(* A buffer is computed from inputs and from buffers of earlier steps.     *)
LEMMA Order ==
  \A b \in Outputs :
    /\ Step[b] \in 1 .. 22 /\ Computes[b] # {}
    /\ \A x \in Computes[b] : x \in Inputs \/ (x \in Outputs /\ Step[x] < Step[b])
BY Names, Dataflow DEF Step, Inputs

(* Each step writes the buffers that have its number.                      *)
LEMMA Written ==
  \A n \in 1 .. 22 :
    /\ Steps[n] \in Kernels =>
         Writes(Steps[n]) = {b \in Outputs : Step[b] = n}
    /\ Steps[n] \notin Kernels => \A b \in Outputs : Step[b] # n
BY Names DEF Steps, Step, Writes

(* The chains are beginnings of that list.                                 *)
AllTargets == {"projection", "front", "attention", "full"}

Begins(s, k) == /\ Len(s) = k /\ k \in 1 .. 22
                /\ \A n \in 1 .. k : s[n] = Steps[n]

LEMMA Chains == \A t \in AllTargets : Begins(Chain(t), Length(t))
<1>1. Begins(LaunchProjection, 7)
  BY DEF LaunchProjection, LaunchNorm, Steps, Begins
<1>2. Begins(LaunchFront, 11)
  BY DEF LaunchFront, LaunchProjection, LaunchNorm, LaunchPrep, Steps, Begins
<1>3. Begins(LaunchAttention, 14)
  BY DEF LaunchAttention, LaunchFront, LaunchProjection, LaunchNorm, LaunchPrep,
         LaunchTail, Steps, Begins
<1>4. Begins(LaunchAttention \o LaunchFfn, 22)
  BY DEF LaunchAttention, LaunchFront, LaunchProjection, LaunchNorm, LaunchPrep,
         LaunchTail, LaunchFfn, LaunchPostNorm, Steps, Begins
<1> QED BY <1>1, <1>2, <1>3, <1>4 DEF Chain, Length, AllTargets

(* What every list of launches obeys: a sum is accumulated right after a   *)
(* clear, and divided by right after it was accumulated.                   *)
Legal(s, S) ==
  /\ s \in Seq(S)
  /\ \A n \in 1 .. Len(s) :
       /\ s[n] \in DOMAIN Sums => n > 1 /\ s[n - 1] = "clear"
       /\ s[n] = "normed" => n > 1 /\ s[n - 1] = "sum"
       /\ s[n] = "ffn_normed" => n > 1 /\ s[n - 1] = "ffn_sum"

LEMMA Concatenated ==
  ASSUME NEW S, NEW s, NEW t, Legal(s, S), Legal(t, S)
  PROVE  Legal(s \o t, S)
<1>1. s \in Seq(S) /\ t \in Seq(S)
  BY DEF Legal
<1>2. /\ s \o t \in Seq(S) /\ Len(s \o t) = Len(s) + Len(t)
      /\ \A n \in 1 .. Len(s) : (s \o t)[n] = s[n]
      /\ \A n \in Len(s) + 1 .. Len(s) + Len(t) : (s \o t)[n] = t[n - Len(s)]
  BY <1>1
<1>3. ASSUME NEW n \in 1 .. Len(s) + Len(t)
      PROVE  /\ (s \o t)[n] \in DOMAIN Sums => n > 1 /\ (s \o t)[n - 1] = "clear"
             /\ (s \o t)[n] = "normed" => n > 1 /\ (s \o t)[n - 1] = "sum"
             /\ (s \o t)[n] = "ffn_normed" => n > 1 /\ (s \o t)[n - 1] = "ffn_sum"
  <2>1. CASE n <= Len(s)
    <3>1. (s \o t)[n] = s[n] /\ (n > 1 => (s \o t)[n - 1] = s[n - 1])
      BY <1>1, <1>2, <2>1
    <3> QED BY <1>1, <2>1, <3>1 DEF Legal
  <2>2. CASE n > Len(s)
    <3> DEFINE m == n - Len(s)
    <3>1. m \in 1 .. Len(t) /\ (s \o t)[n] = t[m]
      BY <1>1, <1>2, <2>2
    <3>2. m > 1 => n > 1 /\ (s \o t)[n - 1] = t[m - 1]
      <4> SUFFICES ASSUME m > 1
                   PROVE  n > 1 /\ (s \o t)[n - 1] = t[m - 1]
        OBVIOUS
      <4>1. n - 1 \in Len(s) + 1 .. Len(s) + Len(t) /\ (n - 1) - Len(s) = m - 1
        BY <1>1
      <4> QED BY <1>1, <1>2, <4>1
    <3> HIDE DEF m
    <3>3. /\ t[m] \in DOMAIN Sums => m > 1 /\ t[m - 1] = "clear"
          /\ t[m] = "normed" => m > 1 /\ t[m - 1] = "sum"
          /\ t[m] = "ffn_normed" => m > 1 /\ t[m - 1] = "ffn_sum"
      BY <3>1 DEF Legal
    <3> QED BY <3>1, <3>2, <3>3
  <2> QED BY <1>1, <2>1, <2>2
<1> QED BY <1>2, <1>3 DEF Legal

(* The launches of a check, and that its chain and its timing loops are    *)
(* made of these.                                                          *)
LaunchesOf(t) == {Steps[n] : n \in 1 .. Length(t)}

LEMMA Lawful ==
  ASSUME NEW t \in AllTargets
  PROVE  Legal(Chain(t), LaunchesOf(t)) /\ Legal(Bench(t), LaunchesOf(t))
<1> DEFINE S == LaunchesOf(t)
<1>1. /\ {"clear", "sum", "normed", "qkv", "z", "beta_raw", "alpha_raw"} \subseteq S
      /\ t # "projection" =>
           {"conv_prep", "qk_l2norm", "beta_gate", "gdn"} \subseteq S
      /\ t \in {"attention", "full"} =>
           {"gated_norm", "ssm_out", "residual"} \subseteq S
      /\ t = "full" =>
           {"ffn_sum", "ffn_normed", "ffn_gate", "ffn_up", "ffn_mul", "ffn_down",
            "layer_out"} \subseteq S
  <2>1. \A n \in 1 .. Length(t) : Steps[n] \in S
    BY DEF LaunchesOf
  <2>2. CASE t = "projection"
    <3>1. Length(t) = 7
      BY <2>2 DEF Length
    <3> QED BY <2>1, <2>2, <3>1 DEF Steps
  <2>3. CASE t = "front"
    <3>1. Length(t) = 11
      BY <2>3 DEF Length
    <3> QED BY <2>1, <2>3, <3>1 DEF Steps
  <2>4. CASE t = "attention"
    <3>1. Length(t) = 14
      BY <2>4 DEF Length
    <3> QED BY <2>1, <2>4, <3>1 DEF Steps
  <2>5. CASE t = "full"
    <3>1. Length(t) = 22
      BY <2>5 DEF Length
    <3> QED BY <2>1, <2>5, <3>1 DEF Steps
  <2> QED BY <2>2, <2>3, <2>4, <2>5 DEF AllTargets
<1> HIDE DEF S
<1>2. Legal(LaunchProjection, S)
  <2>1. /\ Legal(LaunchNorm, S)
        /\ Legal(<<"qkv", "z", "beta_raw", "alpha_raw">>, S)
    BY <1>1, Names DEF Legal, LaunchNorm
  <2> QED BY <2>1, Concatenated DEF LaunchProjection
<1>3. t # "projection" => Legal(LaunchPrep, S) /\ Legal(<<"gdn">>, S)
  BY <1>1, Names DEF Legal, LaunchPrep
<1>4. t # "projection" => Legal(LaunchFront, S)
  <2> SUFFICES ASSUME t # "projection" PROVE Legal(LaunchFront, S)
    OBVIOUS
  <2>1. Legal(LaunchProjection \o LaunchPrep, S)
    BY <1>2, <1>3, Concatenated
  <2> QED BY <1>3, <2>1, Concatenated DEF LaunchFront
<1>5. t \in {"attention", "full"} =>
        /\ Legal(LaunchTail, S) /\ Legal(LaunchAttention, S)
        /\ Legal(<<"gated_norm", "ssm_out">>, S)
  <2>1. t \in {"attention", "full"} =>
          Legal(LaunchTail, S) /\ Legal(<<"gated_norm", "ssm_out">>, S)
    BY <1>1, Names DEF Legal, LaunchTail
  <2> QED BY <1>4, <2>1, Concatenated DEF LaunchAttention
<1>6. t = "full" =>
        /\ Legal(LaunchPostNorm, S) /\ Legal(LaunchFfn, S)
        /\ Legal(<<"ffn_gate", "ffn_up", "ffn_mul", "ffn_down">>, S)
  <2> SUFFICES ASSUME t = "full"
               PROVE  /\ Legal(LaunchPostNorm, S) /\ Legal(LaunchFfn, S)
                      /\ Legal(<<"ffn_gate", "ffn_up", "ffn_mul", "ffn_down">>, S)
    OBVIOUS
  <2>1. /\ Legal(LaunchPostNorm, S)
        /\ Legal(<<"ffn_gate", "ffn_up", "ffn_mul", "ffn_down">>, S)
        /\ Legal(<<"ffn_gate", "ffn_up", "ffn_mul", "ffn_down", "layer_out">>, S)
    BY <1>1, Names DEF Legal, LaunchPostNorm
  <2> QED BY <2>1, Concatenated DEF LaunchFfn
<1>7. Legal(Chain(t), S)
  BY <1>2, <1>4, <1>5, <1>6, Concatenated DEF AllTargets, Chain
<1>8. t = "projection" => Legal(ProjectionBench, S)
  BY <1>2, Concatenated DEF ProjectionBench
<1>9. t # "projection" => Legal(FrontBench, S)
  <2> SUFFICES ASSUME t # "projection" PROVE Legal(FrontBench, S)
    OBVIOUS
  <2>1. Legal(LaunchProjection \o LaunchPrep, S)
    BY <1>2, <1>3, Concatenated
  <2>2. Legal((LaunchProjection \o LaunchPrep) \o <<"gdn">>, S)
    BY <2>1, <1>3, Concatenated
  <2> QED BY <2>2, <1>4, Concatenated DEF FrontBench
<1>10. t \in {"attention", "full"} => Legal(TailBench, S)
  <2> SUFFICES ASSUME t \in {"attention", "full"} PROVE Legal(TailBench, S)
    OBVIOUS
  <2>1. Legal(<<"gated_norm", "ssm_out">> \o LaunchTail, S)
    BY <1>5, Concatenated
  <2> QED BY <2>1, <1>5, Concatenated DEF TailBench
<1>11. t = "full" => Legal(FfnBench, S)
  <2> SUFFICES ASSUME t = "full" PROVE Legal(FfnBench, S)
    OBVIOUS
  <2>1. Legal(LaunchPostNorm \o <<"ffn_gate", "ffn_up", "ffn_mul", "ffn_down">>, S)
    BY <1>6, Concatenated
  <2> QED BY <2>1, <1>6, Concatenated DEF FfnBench
<1>12. t = "full" =>
         Legal(FrontBench \o TailBench \o FfnBench \o LaunchAttention \o LaunchFfn, S)
  <2> SUFFICES ASSUME t = "full"
               PROVE  Legal(FrontBench \o TailBench \o FfnBench
                            \o LaunchAttention \o LaunchFfn, S)
    OBVIOUS
  <2>1. Legal(FrontBench \o TailBench, S)
    BY <1>9, <1>10, Concatenated
  <2>2. Legal((FrontBench \o TailBench) \o FfnBench, S)
    BY <2>1, <1>11, Concatenated
  <2>3. Legal(((FrontBench \o TailBench) \o FfnBench) \o LaunchAttention, S)
    BY <2>2, <1>5, Concatenated
  <2> QED BY <2>3, <1>6, Concatenated
<1>13. Legal(Bench(t), S)
  BY <1>8, <1>9, <1>10, <1>12, Concatenated DEF AllTargets, Bench
<1> QED BY <1>7, <1>13 DEF S

-----------------------------------------------------------------------------
(* What a kernel makes of the buffers as they are, with the sum over its   *)
(* own input.                                                              *)
SumOf(b) == IF b = "normed" THEN "sum" ELSE IF b = "ffn_normed" THEN "ffn_sum" ELSE "none"

Direct(b, r) ==
  UNION {IF b \in Elementwise THEN buf[x].bad[r] ELSE All(buf[x].bad)
           : x \in Computes[b]}

Own(b, r) == {f \in faults : f.at = b /\ f.rows = r}

Good(b) ==
  [from |-> Computes[b],
   bad  |-> [r \in Rows |-> Direct(b, r) \cup {f \in faults : f.at = SumOf(b)}
                              \cup Own(b, r)]]

Total(l) == [of  |-> buf[Sums[l]].from,
             bad |-> All(buf[Sums[l]].bad) \cup {f \in faults : f.at = l}]

(* The buffers that have been written.                                     *)
Limit == IF stage = "chain" THEN pc - 1 ELSE Length(target)

Typed ==
  /\ target \in AllTargets
  /\ faults \subseteq Fault
  /\ stage \in {"chain", "compare", "pass", "mismatch"}
  /\ pc \in Nat \ {0}
  /\ stage = "chain" => pc <= Length(target) + 1
  /\ buf \in [Inputs \cup Outputs ->
                [from : SUBSET (Inputs \cup Outputs \cup {"host"}),
                 bad : [Rows -> SUBSET faults]]]
  /\ \A x \in Inputs : buf[x] = [from |-> {"host"}, bad |-> NoFault]

Settled == \A b \in Outputs : Step[b] <= Limit => buf[b] = Good(b)

(* A buffer depends only on faults of its own step and earlier ones.       *)
Ranked ==
  \A b \in Outputs : Step[b] <= Limit =>
    \A r \in Rows : \A f \in buf[b].bad[r] : Step[f.at] <= Step[b]

SumReady ==
  stage \in {"chain", "pass"} /\ pc <= Len(Code) =>
    /\ Code[pc] \in DOMAIN Sums => sumsq = << >>
    /\ Code[pc] = "normed" => sumsq = <<Total("sum")>>
    /\ Code[pc] = "ffn_normed" => sumsq = <<Total("ffn_sum")>>

SInv == Typed /\ Settled /\ Ranked /\ SumReady

-----------------------------------------------------------------------------
(* The list of launches that is running, and the step each of them is.     *)
LEMMA CodeIs ==
  ASSUME Typed
  PROVE  /\ Legal(Code, LaunchesOf(target))
         /\ stage # "pass" => Begins(Code, Length(target))
BY Lawful, Chains DEF Typed, Code

LEMMA Launch ==
  ASSUME Typed, NEW l, Launching(l)
  PROVE  /\ pc \in 1 .. Len(Code) /\ Code[pc] = l
         /\ stage = "chain" => pc \in 1 .. Length(target) /\ l = Steps[pc]
         /\ \E n \in 1 .. Length(target) : l = Steps[n]
         /\ Length(target) \in 1 .. 22 /\ Len(Code) \in Nat
<1>1. /\ pc \in Nat \ {0} /\ pc <= Len(Code) /\ Code[pc] = l
      /\ stage \in {"chain", "pass"} /\ target \in AllTargets
  BY DEF Launching, Typed
<1>2. Code \in Seq(LaunchesOf(target))
  BY CodeIs DEF Legal
<1>3. Len(Code) \in Nat /\ pc \in 1 .. Len(Code) /\ Code[pc] \in LaunchesOf(target)
  BY <1>1, <1>2
<1>4. Length(target) \in 1 .. 22
  BY <1>1, Chains DEF Begins
<1>5. stage = "chain" => Len(Code) = Length(target) /\ Code[pc] = Steps[pc]
  BY <1>3, CodeIs DEF Begins
<1> QED BY <1>1, <1>3, <1>4, <1>5 DEF LaunchesOf

(* A kernel whose inputs are there, and whose sum is the right one, leaves *)
(* what it should.                                                         *)
LEMMA ResultIsGood ==
  ASSUME Typed, NEW b \in Outputs,
         \A x \in Computes[b] : buf[x].from # {},
         b \in Normalised => sumsq = <<Total(SumOf(b))>>
  PROVE  Result(b) = Good(b)
<1>1. Usable(b)
  <2>1. CASE b \notin Normalised
    BY <2>1 DEF Usable
  <2>2. CASE b = "normed"
    <3>1. sumsq = <<Total("sum")>> /\ Computes[b] = {"hidden"} /\ Sums["sum"] = "hidden"
      BY <2>2, Dataflow DEF Normalised, SumOf, Sums
    <3> QED BY <3>1, <2>2 DEF Usable, Total
  <2>3. CASE b = "ffn_normed"
    <3>1. sumsq = <<Total("ffn_sum")>> /\ Computes[b] = {"residual"} /\ Sums["ffn_sum"] = "residual"
      BY <2>3, Dataflow DEF Normalised, SumOf, Sums
    <3> QED BY <3>1, <2>3 DEF Usable, Total
  <2> QED BY <2>1, <2>2, <2>3 DEF Normalised
<1>2. ASSUME NEW r \in Rows
      PROVE  Reached(b, r) = Direct(b, r) \cup {f \in faults : f.at = SumOf(b)}
  <2>1. CASE b \notin Normalised
    <3>1. \A f \in faults : f.at \in Outputs \cup DOMAIN Sums
      BY DEF Typed, Fault
    <3>2. {f \in faults : f.at = SumOf(b)} = {}
      BY <2>1, <3>1, Names DEF Normalised, SumOf
    <3> QED BY <2>1, <3>2 DEF Reached, Direct
  <2>2. CASE b \in Normalised
    <3> DEFINE src == Sums[SumOf(b)]
    <3>1. Computes[b] = {src} /\ b \notin Elementwise
      BY <2>2, Dataflow DEF Normalised, SumOf, Sums, Elementwise
    <3>2. Direct(b, r) = All(buf[src].bad)
      BY <3>1 DEF Direct
    <3>3. sumsq = <<Total(SumOf(b))>>
      BY <2>2
    <3>4. UNION {sumsq[k].bad : k \in DOMAIN sumsq} = Total(SumOf(b)).bad
      <4> DEFINE T == Total(SumOf(b))
      <4>1. sumsq = <<T>>
        BY <3>3
      <4> HIDE DEF T
      <4>2. DOMAIN sumsq = {1} /\ sumsq[1] = T
        BY <4>1
      <4>3. UNION {sumsq[k].bad : k \in DOMAIN sumsq} = T.bad
        BY <4>2
      <4> QED BY <4>3 DEF T
    <3>5. Total(SumOf(b)).bad = All(buf[src].bad) \cup {f \in faults : f.at = SumOf(b)}
      BY DEF Total
    <3>6. Reached(b, r) = Direct(b, r) \cup Total(SumOf(b)).bad
      BY <2>2, <3>4 DEF Reached, Direct
    <3> QED BY <3>2, <3>5, <3>6
  <2> QED BY <2>1, <2>2
<1> QED BY <1>1, <1>2 DEF Result, Good, Own

(* What a buffer should be does not change while the buffers it is         *)
(* computed from do not.                                                   *)
LEMMA GoodStays ==
  ASSUME NEW b \in Outputs, faults' = faults,
         \A x \in Computes[b] : buf'[x] = buf[x]
  PROVE  Good(b)' = Good(b)
<1>1. \A r \in Rows : Direct(b, r)' = Direct(b, r)
  BY DEF Direct, All
<1>2. \A r \in Rows : Own(b, r)' = Own(b, r)
  BY DEF Own
<1> QED BY <1>1, <1>2 DEF Good

LEMMA KernelWrites ==
  ASSUME SInv, NEW l \in Kernels, Launching(l), NEW b \in Writes(l)
  PROVE  /\ b \in Outputs /\ Result(b) = Good(b)
         /\ \A x \in Computes[b] : x \notin Writes(l)
         /\ \A x \in Computes[b] : x \in Inputs \/ (x \in Outputs /\ Step[x] <= Limit)
         /\ stage = "chain" => Step[b] = pc
         /\ stage = "pass" => Step[b] <= Limit
<1>1. Typed /\ Settled /\ SumReady
  BY DEF SInv
<1>2. PICK n \in 1 .. Length(target) :
        l = Steps[n] /\ (stage = "chain" => n = pc)
  BY <1>1, Launch
<1>3. n \in 1 .. 22 /\ Length(target) \in 1 .. 22 /\ pc \in Nat
  BY <1>1, <1>2, Launch DEF Typed
<1>4. Writes(l) = {c \in Outputs : Step[c] = n}
  <2>1. Steps[n] \in Kernels => Writes(Steps[n]) = {c \in Outputs : Step[c] = n}
    BY <1>3, Written
  <2> QED BY <1>2, <2>1
<1>5. b \in Outputs /\ Step[b] = n
  BY <1>4
<1>6. stage \in {"chain", "pass"} /\ n <= Limit + 1 /\ (stage = "pass" => n <= Limit)
      /\ Limit \in Nat
  <2>1. stage \in {"chain", "pass"} /\ pc \in Nat \ {0}
    BY <1>1 DEF Launching, Typed
  <2> DEFINE k == Length(target)
  <2>2. k \in Nat /\ n \in 1 .. k /\ (stage = "chain" => n = pc)
    BY <1>2, <1>3
  <2>3. Limit = IF stage = "chain" THEN pc - 1 ELSE k
    BY DEF Limit
  <2> HIDE DEF k
  <2> QED BY <2>1, <2>2, <2>3
<1>7. \A x \in Computes[b] : x \in Inputs \/ (x \in Outputs /\ Step[x] < n /\ Step[x] \in 1 .. 22)
  BY <1>5, Order
<1>8. \A x \in Computes[b] : x \in Inputs \/ (x \in Outputs /\ Step[x] <= Limit)
  BY <1>3, <1>6, <1>7
<1>9. \A x \in Inputs : x \notin Outputs
  BY Names DEF Inputs
<1>10. \A x \in Computes[b] : x \notin Writes(l)
  BY <1>3, <1>4, <1>7, <1>9
<1>11. \A x \in Computes[b] : buf[x].from # {}
  <2> SUFFICES ASSUME NEW x \in Computes[b] PROVE buf[x].from # {}
    OBVIOUS
  <2>1. CASE x \in Inputs
    <3>1. buf[x] = [from |-> {"host"}, bad |-> NoFault]
      BY <1>1, <2>1 DEF Typed
    <3> QED BY <3>1
  <2>2. CASE x \in Outputs /\ Step[x] <= Limit
    <3>1. buf[x] = Good(x) /\ Computes[x] # {}
      BY <1>1, <2>2, Order DEF Settled
    <3> QED BY <3>1 DEF Good
  <2> QED BY <1>8, <2>1, <2>2
<1>12. b \in Normalised => sumsq = <<Total(SumOf(b))>>
  <2>1. Code[pc] = l /\ pc <= Len(Code)
    BY DEF Launching
  <2>2. b = "normed" => l = "normed"
    BY <1>2, <1>3, <1>5 DEF Steps, Step
  <2>3. b = "ffn_normed" => l = "ffn_normed"
    BY <1>2, <1>3, <1>5 DEF Steps, Step
  <2> QED BY <1>1, <1>6, <2>1, <2>2, <2>3 DEF SumReady, Normalised, SumOf
<1>13. Result(b) = Good(b)
  BY <1>1, <1>5, <1>11, <1>12, ResultIsGood
<1> QED BY <1>2, <1>5, <1>6, <1>8, <1>10, <1>13

-----------------------------------------------------------------------------
(* The steps                                                               *)
LEMMA InitInv == Init => SInv
<1> SUFFICES ASSUME Init PROVE SInv
  OBVIOUS
<1>1. PICK f \in [1 .. MaxFaults -> Fault] : faults \in {{}, {f[n] : n \in DOMAIN f}}
  BY DEF Init
<1>2. faults \subseteq Fault
  BY <1>1
<1>3. Typed
  <2>1. target \in AllTargets
    BY TargetsAssumption DEF Init, AllTargets
  <2>2. NoFault \in [Rows -> SUBSET faults]
    BY DEF NoFault
  <2>3. buf \in [Inputs \cup Outputs ->
                 [from : SUBSET (Inputs \cup Outputs \cup {"host"}),
                  bad : [Rows -> SUBSET faults]]]
    BY <2>2 DEF Init
  <2>4. Length(target) \in 1 .. 22
    BY <2>1, Chains DEF Begins
  <2> QED BY <1>2, <2>1, <2>3, <2>4 DEF Init, Typed
<1>4. Settled
  <2>1. Limit = 0
    BY DEF Init, Limit
  <2> QED BY <2>1, Order DEF Settled
<1>5. Ranked
  <2>1. Limit = 0
    BY DEF Init, Limit
  <2> QED BY <2>1, Order DEF Ranked
<1>6. SumReady
  <2>1. pc = 1 /\ Legal(Code, LaunchesOf(target))
    BY <1>3, CodeIs DEF Init
  <2> QED BY <2>1 DEF SumReady, Legal
<1> QED BY <1>3, <1>4, <1>5, <1>6 DEF SInv

LEMMA CodeStays ==
  ASSUME target' = target, stage' = stage
  PROVE  Code' = Code
BY DEF Code

LEMMA GoodType ==
  ASSUME Typed, NEW b \in Outputs
  PROVE  Good(b) \in [from : SUBSET (Inputs \cup Outputs \cup {"host"}),
                     bad : [Rows -> SUBSET faults]]
<1>1. Computes[b] \subseteq Inputs \cup Outputs
  BY Order
<1>2. ASSUME NEW r \in Rows PROVE Direct(b, r) \subseteq faults
  <2>1. \A x \in Computes[b] : \A s \in Rows : buf[x].bad[s] \subseteq faults
    BY <1>1 DEF Typed
  <2> QED BY <2>1, <1>2 DEF Direct, All
<1>3. \A r \in Rows : Own(b, r) \subseteq faults
  BY DEF Own
<1> QED BY <1>1, <1>2, <1>3 DEF Good

LEMMA GoodRank ==
  ASSUME Typed, Ranked, NEW b \in Outputs,
         \A x \in Computes[b] : x \in Inputs \/ (x \in Outputs /\ Step[x] <= Limit)
  PROVE  \A r \in Rows : \A f \in Good(b).bad[r] : Step[f.at] <= Step[b]
<1> SUFFICES ASSUME NEW r \in Rows, NEW f \in Good(b).bad[r]
             PROVE  Step[f.at] <= Step[b]
  OBVIOUS
<1>1. Step[b] \in 1 .. 22
  BY Order
<1>2. f \in Direct(b, r) \/ (f \in faults /\ f.at = SumOf(b)) \/ f \in Own(b, r)
  BY DEF Good
<1>3. CASE f \in Direct(b, r)
  <2>1. PICK x \in Computes[b] : \E s \in Rows : f \in buf[x].bad[s]
    BY <1>3 DEF Direct, All
  <2>2. x \notin Inputs
    BY <2>1 DEF Typed, NoFault
  <2>3. x \in Outputs /\ Step[x] <= Limit /\ Step[x] < Step[b] /\ Step[x] \in 1 .. 22
    BY <2>2, Order
  <2>4. f \in faults /\ Step[f.at] <= Step[x]
    BY <2>1, <2>3 DEF Typed, Ranked
  <2>5. Step[f.at] \in 1 .. 22
    BY <2>4, Order, Names DEF Typed, Fault, Step
  <2> QED BY <1>1, <2>3, <2>4, <2>5
<1>4. CASE f \in faults /\ f.at = SumOf(b)
  <2>1. SumOf(b) # "none"
    BY <1>4, Names DEF Typed, Fault
  <2> QED BY <1>4, <2>1 DEF SumOf, Step
<1>5. CASE f \in Own(b, r)
  BY <1>1, <1>5 DEF Own
<1> QED BY <1>2, <1>3, <1>4, <1>5

(* What one launch of a chain or of a timing loop does to the buffers.     *)
LEMMA LaunchBuf ==
  ASSUME SInv, NEW l, Launching(l), pc' = pc + 1,
         UNCHANGED <<target, faults, stage>>,
         \/ l \notin Kernels /\ buf' = buf
         \/ l \in Kernels /\ Kernel(l)
  PROVE  /\ Typed' /\ Settled' /\ Ranked'
         /\ stage = "pass" => buf' = buf
<1>1. Typed /\ Settled /\ Ranked /\ stage \in {"chain", "pass"}
  BY DEF SInv, Launching
<1>2. /\ pc \in Nat \ {0} /\ Length(target) \in 1 .. 22
      /\ stage = "chain" => pc \in 1 .. Length(target) /\ l = Steps[pc]
  BY <1>1, Launch DEF Typed
<1>3. /\ stage = "chain" => Limit = pc - 1 /\ Limit' = pc
      /\ stage = "pass" => Limit = Length(target) /\ Limit' = Length(target)
  BY <1>2 DEF Limit
<1>4. DOMAIN buf = Inputs \cup Outputs /\ buf = [b \in DOMAIN buf |-> buf[b]]
  BY <1>1 DEF Typed
<1>5. CASE l \notin Kernels
  <2>1. buf' = buf
    BY <1>5
  <2>2. Typed'
    BY <1>1, <1>2, <2>1 DEF Typed
  <2>3. stage = "chain" => \A b \in Outputs : Step[b] # pc
    BY <1>2, <1>5, Written
  <2>4. \A b \in Outputs : Step[b] <= Limit' => Step[b] <= Limit
    BY <1>1, <1>2, <1>3, <2>3, Order
  <2>5. \A b \in Outputs : Good(b)' = Good(b)
    BY <2>1, GoodStays
  <2>6. Settled'
    BY <1>1, <2>1, <2>4, <2>5 DEF Settled
  <2>7. Ranked'
    BY <1>1, <2>1, <2>4 DEF Ranked
  <2> QED BY <2>1, <2>2, <2>6, <2>7
<1>6. CASE l \in Kernels
  <2>1. \A b \in Writes(l) : Result(b) = Good(b) /\ b \in Outputs
    BY <1>6, KernelWrites
  <2>2. buf' = [b \in DOMAIN buf |-> IF b \in Writes(l) THEN Result(b) ELSE buf[b]]
    BY <1>5, <1>6 DEF Kernel
  <2>3. /\ \A b \in Writes(l) : buf'[b] = Good(b)
        /\ \A b \in Inputs \cup Outputs : b \notin Writes(l) => buf'[b] = buf[b]
    BY <1>4, <2>1, <2>2
  <2>4. stage = "pass" => buf' = buf
    <3> SUFFICES ASSUME stage = "pass" PROVE buf' = buf
      OBVIOUS
    <3>1. \A b \in Writes(l) : Step[b] <= Limit
      BY <1>6, KernelWrites
    <3>2. \A b \in Writes(l) : Result(b) = buf[b]
      BY <1>1, <2>1, <3>1 DEF Settled
    <3>3. [b \in DOMAIN buf |-> IF b \in Writes(l) THEN Result(b) ELSE buf[b]]
            = [b \in DOMAIN buf |-> buf[b]]
      BY <3>2
    <3> QED BY <1>4, <2>2, <3>3
  <2>5. Typed'
    <3> DEFINE T == [from : SUBSET (Inputs \cup Outputs \cup {"host"}),
                     bad : [Rows -> SUBSET faults]]
    <3>1. \A b \in Outputs : Good(b) \in T
      BY <1>1, GoodType
    <3>2. \A b \in Inputs \cup Outputs : buf[b] \in T
      BY <1>1 DEF Typed
    <3> HIDE DEF T
    <3>3. buf' \in [Inputs \cup Outputs -> T]
      BY <1>4, <2>1, <2>2, <3>1, <3>2
    <3>4. \A x \in Inputs : x \notin Writes(l)
      BY <2>1, Names DEF Inputs
    <3>5. \A x \in Inputs : buf'[x] = buf[x]
      BY <2>3, <3>4
    <3>6. buf' \in [Inputs \cup Outputs ->
                    [from : SUBSET (Inputs \cup Outputs \cup {"host"}),
                     bad : [Rows -> SUBSET faults]]]
      BY <3>3 DEF T
    <3> QED BY <1>1, <1>2, <3>5, <3>6 DEF Typed
  <2>6. ASSUME NEW b \in Outputs, b \notin Writes(l), Step[b] <= Limit'
        PROVE  Step[b] <= Limit
    <3>1. stage = "chain" => Step[b] # pc
      <4> SUFFICES ASSUME stage = "chain" PROVE Step[b] # pc
        OBVIOUS
      <4>1. pc \in 1 .. 22 /\ l = Steps[pc]
        BY <1>2
      <4>2. Steps[pc] \in Kernels => Writes(Steps[pc]) = {c \in Outputs : Step[c] = pc}
        BY <4>1, Written
      <4> QED BY <1>6, <2>6, <4>1, <4>2
    <3> QED BY <1>1, <1>2, <1>3, <2>6, <3>1, Order
  <2>7. Settled'
    <3>1. ASSUME NEW b \in Outputs, Step[b] <= Limit'
          PROVE  buf'[b] = Good(b)'
      <4>1. ASSUME b \in Writes(l) PROVE buf'[b] = Good(b)'
        <5>1. \A x \in Computes[b] : x \notin Writes(l) /\ x \in Inputs \cup Outputs
          BY <1>6, <4>1, KernelWrites
        <5>2. \A x \in Computes[b] : buf'[x] = buf[x]
          BY <2>3, <5>1
        <5>3. Good(b)' = Good(b)
          BY <5>2, GoodStays
        <5> QED BY <2>3, <4>1, <5>3
      <4>2. ASSUME b \notin Writes(l) PROVE buf'[b] = Good(b)'
        <5>2. Step[b] <= Limit
          BY <2>6, <3>1, <4>2
        <5>3. buf'[b] = Good(b)
          BY <1>1, <2>3, <4>2, <5>2 DEF Settled
        <5>4. \A x \in Computes[b] : buf'[x] = buf[x]
          <6>1. CASE stage = "pass"
            BY <2>4, <6>1
          <6>2. CASE stage = "chain"
            <7>1. \A c \in Writes(l) : Step[c] = pc
              BY <1>6, <6>2, KernelWrites
            <7>2. \A x \in Computes[b] :
                    x \in Inputs \cup Outputs /\ (x \in Writes(l) => Step[x] < Step[b] /\ Step[x] \in 1 .. 22)
              BY <2>1, Order, Names DEF Inputs
            <7>3. \A x \in Computes[b] : x \notin Writes(l)
              BY <1>2, <1>3, <5>2, <6>2, <7>1, <7>2, Order
            <7> QED BY <2>3, <7>2, <7>3
          <6> QED BY <1>1, <6>1, <6>2
        <5>5. Good(b)' = Good(b)
          BY <5>4, GoodStays
        <5> QED BY <5>3, <5>5
      <4> QED BY <4>1, <4>2
    <3> QED BY <3>1 DEF Settled
  <2>8. Ranked'
    <3>1. ASSUME NEW b \in Outputs, Step[b] <= Limit', NEW r \in Rows, NEW f \in buf'[b].bad[r]
          PROVE  Step[f.at] <= Step[b]
      <4>1. CASE b \in Writes(l)
        <5>1. \A x \in Computes[b] : x \in Inputs \/ (x \in Outputs /\ Step[x] <= Limit)
          BY <1>6, <4>1, KernelWrites
        <5>2. f \in Good(b).bad[r]
          BY <2>3, <3>1, <4>1
        <5> QED BY <1>1, <5>1, <5>2, GoodRank
      <4>2. CASE b \notin Writes(l)
        <5>1. Step[b] <= Limit
          BY <2>6, <3>1, <4>2
        <5>2. f \in buf[b].bad[r]
          BY <2>3, <3>1, <4>2
        <5> QED BY <1>1, <5>1, <5>2 DEF Ranked
      <4> QED BY <4>1, <4>2
    <3> QED BY <3>1 DEF Ranked
  <2> QED BY <2>4, <2>5, <2>7, <2>8
<1> QED BY <1>5, <1>6

LEMMA LaunchSums ==
  ASSUME SInv, NEW l, Launching(l), pc' = pc + 1,
         UNCHANGED <<target, faults, stage>>,
         l = "clear" => sumsq' = << >>,
         l \in DOMAIN Sums => buf' = buf /\ sumsq' = Append(sumsq, Total(l))
  PROVE  SumReady'
<1>1. Typed /\ SumReady
  BY DEF SInv
<1>2. Code' = Code /\ Legal(Code, LaunchesOf(target))
  BY <1>1, CodeStays, CodeIs
<1>3. pc \in 1 .. Len(Code) /\ Code[pc] = l /\ Len(Code) \in Nat
      /\ stage \in {"chain", "pass"}
  BY <1>1, Launch DEF Launching
<1>4. l \in DOMAIN Sums => sumsq' = <<Total(l)>> /\ Total(l)' = Total(l)
  BY <1>1, <1>3 DEF SumReady, Total, All
<1> SUFFICES ASSUME pc + 1 <= Len(Code)
             PROVE  /\ Code[pc + 1] \in DOMAIN Sums => sumsq' = << >>
                    /\ Code[pc + 1] = "normed" => sumsq' = <<Total("sum")>>'
                    /\ Code[pc + 1] = "ffn_normed" => sumsq' = <<Total("ffn_sum")>>'
  BY <1>2 DEF SumReady
<1>5. /\ Code[pc + 1] \in DOMAIN Sums => Code[pc] = "clear"
      /\ Code[pc + 1] = "normed" => Code[pc] = "sum"
      /\ Code[pc + 1] = "ffn_normed" => Code[pc] = "ffn_sum"
  <2>1. pc + 1 \in 1 .. Len(Code) /\ (pc + 1) - 1 = pc
    BY <1>3
  <2> QED BY <1>2, <2>1 DEF Legal
<1> QED BY <1>3, <1>4, <1>5, Names

LEMMA StepInv ==
  ASSUME SInv, [Next]_vars
  PROVE  SInv' /\ (stage = "pass" => buf' = buf)
<1>1. Typed /\ Settled /\ Ranked /\ SumReady
  BY DEF SInv
<1>2. Length(target) \in 1 .. 22 /\ pc \in Nat \ {0}
  BY <1>1, Chains DEF Typed, Begins
<1>3. CASE Clear
  <2>1. "clear" \notin Kernels /\ "clear" \notin DOMAIN Sums
    BY Names
  <2>2. Launching("clear") /\ pc' = pc + 1 /\ sumsq' = << >> /\ buf' = buf
        /\ UNCHANGED <<target, faults, stage>>
    BY <1>3 DEF Clear
  <2> QED BY <2>1, <2>2, LaunchBuf, LaunchSums DEF SInv
<1>4. ASSUME NEW l \in DOMAIN Sums, Accumulate(l)
      PROVE  SInv' /\ (stage = "pass" => buf' = buf)
  <2>1. l \notin Kernels /\ l # "clear"
    BY Names
  <2>2. Launching(l) /\ pc' = pc + 1 /\ buf' = buf /\ UNCHANGED <<target, faults, stage>>
        /\ sumsq' = Append(sumsq, Total(l))
    BY <1>4 DEF Accumulate, Total
  <2> QED BY <2>1, <2>2, LaunchBuf, LaunchSums DEF SInv
<1>5. ASSUME NEW l \in Kernels, Kernel(l)
      PROVE  SInv' /\ (stage = "pass" => buf' = buf)
  <2>1. l \notin DOMAIN Sums /\ l # "clear"
    BY Names
  <2>2. Launching(l) /\ pc' = pc + 1 /\ UNCHANGED <<target, faults, stage>>
    BY <1>5 DEF Kernel
  <2> QED BY <1>5, <2>1, <2>2, LaunchBuf, LaunchSums DEF SInv
<1>6. ASSUME UNCHANGED <<target, faults, buf, sumsq>>, Typed', Limit' = Limit,
             stage' = "pass" => pc' = 1, stage' # "chain"
      PROVE  SInv'
  <2>1. \A b \in Outputs : Good(b)' = Good(b)
    BY <1>6, GoodStays
  <2>2. Settled'
    BY <1>1, <1>6, <2>1 DEF Settled
  <2>4. Ranked'
    BY <1>1, <1>6 DEF Ranked
  <2>3. SumReady'
    <3> SUFFICES ASSUME stage' = "pass", pc' = 1, (pc <= Len(Code))' PROVE SumReady'
      BY <1>6 DEF SumReady
    <3>1. Legal(Code, LaunchesOf(target))'
      BY <1>6, Lawful DEF Typed, Code
    <3>2. (1 \in 1 .. Len(Code))'
      <4>1. (Code \in Seq(LaunchesOf(target)))'
        BY <3>1 DEF Legal
      <4>2. Len(Code)' \in Nat
        BY <4>1
      <4> QED BY <4>2
    <3> QED BY <3>1, <3>2 DEF SumReady, Legal
  <2> QED BY <1>6, <2>2, <2>3, <2>4 DEF SInv
<1>7. CASE ReadBack
  <2>1. stage = "chain" /\ pc > Len(Code) /\ stage' = "compare" /\ pc' = 1
        /\ UNCHANGED <<target, faults, buf, sumsq>>
    BY <1>7 DEF ReadBack
  <2>2. Len(Code) = Length(target)
    BY <1>1, <2>1, CodeIs DEF Begins
  <2>3. pc = Length(target) + 1
    BY <1>1, <1>2, <2>1, <2>2 DEF Typed
  <2>4. Limit' = Limit
    <3>1. Length(target)' = Length(target)
      BY <2>1
    <3> DEFINE k == Length(target)
    <3>2. k \in Nat /\ pc = k + 1
      BY <1>2, <2>3
    <3>3. Limit = pc - 1 /\ Limit' = k
      BY <2>1, <3>1 DEF Limit
    <3> HIDE DEF k
    <3> QED BY <3>2, <3>3
  <2>5. Typed'
    BY <1>1, <2>1 DEF Typed
  <2> QED BY <1>6, <2>1, <2>4, <2>5
<1>8. CASE Compare
  <2>1. stage = "compare" /\ stage' \in {"mismatch", "pass", "compare"}
        /\ pc' \in {pc, 1, pc + 1} /\ (stage' = "pass" => pc' = 1)
        /\ UNCHANGED <<target, faults, buf, sumsq>>
    BY <1>8 DEF Compare
  <2>2. Typed'
    BY <1>1, <1>2, <2>1 DEF Typed
  <2>3. Limit' = Limit
    BY <2>1 DEF Limit
  <2> QED BY <1>6, <2>1, <2>2, <2>3
<1>9. CASE UNCHANGED vars
  <2>1. \A b \in Outputs : Good(b)' = Good(b)
    BY <1>9, GoodStays DEF vars
  <2>2. Code' = Code /\ Limit' = Limit /\ Total("sum")' = Total("sum")
        /\ Total("ffn_sum")' = Total("ffn_sum")
    BY <1>9 DEF vars, Code, Limit, Total, All
  <2> QED BY <1>1, <1>9, <2>1, <2>2 DEF vars, SInv, Typed, Settled, Ranked, SumReady
<1> QED
  BY <1>3, <1>4, <1>5, <1>7, <1>8, <1>9 DEF Next, ReadBack, Compare, vars

(* At every point of a chain each buffer is untouched or what its kernel   *)
(* makes of buffers that will not change any more, sumsq holds the sum the *)
(* next normalisation wants, and nothing depends on what is written later. *)
THEOREM BuffersSettle == Spec => []SInv
BY InitInv, StepInv, PTL DEF Spec

(* Timing the chain changes no buffer: after a pass every launch leaves    *)
(* every buffer as the comparison found it, for any faults.                *)
THEOREM RerunsChangeNothingHolds == Spec => RerunsChangeNothing
<1>1. SInv /\ [Next]_vars => [stage = "pass" => buf' = buf]_vars
  BY StepInv
<1> QED BY <1>1, BuffersSettle, PTL DEF Spec, RerunsChangeNothing

-----------------------------------------------------------------------------
(* The references.  RefBad is defined by recursion along the dataflow; that *)
(* there is such a function is shown by writing it down.                   *)
RefOf(g, x, r) == IF x \in Inputs THEN {}
                  ELSE IF x \in Oracle(target) THEN buf[x].bad[r] ELSE g[x][r]

RefStep(g) ==
  [b \in Recomputed(target) |->
     [r \in Rows |->
        UNION {IF b \in Elementwise THEN RefOf(g, x, r)
               ELSE UNION {RefOf(g, x, s) : s \in Rows} : x \in RefReads[b]}]]

Back(x) == All(buf[x].bad)

RefFaults(b, r) ==
  CASE target = "projection" -> {}
    [] target # "projection" /\ b \in {"conv", "conv_state", "q", "k"} -> Back("qkv")
    [] target # "projection" /\ b = "beta" -> Back("beta_raw")
    [] target # "projection" /\ b = "gate" -> Back("alpha_raw")
    [] target # "projection" /\ b \in {"gdn_out", "gdn_state"} ->
         Back("qkv") \cup Back("beta_raw") \cup Back("alpha_raw")
    [] target # "projection" /\ b \in {"gated_norm", "ssm_out", "residual"} ->
         Back("qkv") \cup Back("beta_raw") \cup Back("alpha_raw") \cup Back("z")
    [] target # "projection" /\ b = "ffn_normed" -> Back("residual")
    [] target # "projection" /\ b = "ffn_mul" ->
         buf["ffn_gate"].bad[r] \cup buf["ffn_up"].bad[r]
    [] target # "projection" /\ b = "ffn_down" -> Back("ffn_gate") \cup Back("ffn_up")
    [] target # "projection" /\ b = "layer_out" ->
         Back("ffn_gate") \cup Back("ffn_up") \cup buf["residual"].bad[r]

RefTable == [b \in Recomputed(target) |-> [r \in Rows |-> RefFaults(b, r)]]

LEMMA References ==
  /\ \A b \in DOMAIN RefReads : RefReads[b] = Computes[b]
  /\ DOMAIN RefReads = Outputs \ {"ffn_gate", "ffn_up"}
  /\ Recomputed("projection") = {"normed", "qkv", "z", "beta_raw", "alpha_raw"}
  /\ \A t \in AllTargets \ {"projection"} :
       /\ Recomputed(t) = {"conv", "conv_state", "q", "k", "beta", "gate", "gdn_out",
                           "gdn_state", "gated_norm", "ssm_out", "residual",
                           "ffn_normed", "ffn_mul", "ffn_down", "layer_out"}
       /\ Oracle(t) = {"qkv", "z", "beta_raw", "alpha_raw", "residual", "ffn_gate",
                       "ffn_up"}
  /\ Oracle("projection") = {}
<1>1. DOMAIN RefReads = {"normed", "qkv", "z", "beta_raw", "alpha_raw", "conv",
                         "conv_state", "q", "k", "beta", "gate", "gdn_out",
                         "gdn_state", "gated_norm", "ssm_out", "residual",
                         "ffn_normed", "ffn_mul", "ffn_down", "layer_out"}
  BY DEF RefReads
<1>2. DOMAIN RefReads = Outputs \ {"ffn_gate", "ffn_up"}
  BY <1>1, Names
<1>3. \A b \in DOMAIN RefReads : RefReads[b] = Computes[b]
  <2>1. /\ RefReads["normed"] = Computes["normed"]
        /\ RefReads["qkv"] = Computes["qkv"]
        /\ RefReads["z"] = Computes["z"]
        /\ RefReads["beta_raw"] = Computes["beta_raw"]
        /\ RefReads["alpha_raw"] = Computes["alpha_raw"]
        /\ RefReads["conv"] = Computes["conv"]
        /\ RefReads["conv_state"] = Computes["conv_state"]
        /\ RefReads["q"] = Computes["q"]
        /\ RefReads["k"] = Computes["k"]
        /\ RefReads["beta"] = Computes["beta"]
        /\ RefReads["gate"] = Computes["gate"]
        /\ RefReads["gdn_out"] = Computes["gdn_out"]
        /\ RefReads["gdn_state"] = Computes["gdn_state"]
        /\ RefReads["gated_norm"] = Computes["gated_norm"]
        /\ RefReads["ssm_out"] = Computes["ssm_out"]
        /\ RefReads["residual"] = Computes["residual"]
        /\ RefReads["ffn_normed"] = Computes["ffn_normed"]
        /\ RefReads["ffn_mul"] = Computes["ffn_mul"]
        /\ RefReads["ffn_down"] = Computes["ffn_down"]
        /\ RefReads["layer_out"] = Computes["layer_out"]
    BY Dataflow DEF RefReads
  <2> QED BY <1>1, <2>1
<1>4. \A t \in AllTargets \ {"projection"} :
        /\ Recomputed(t) = {"conv", "conv_state", "q", "k", "beta", "gate", "gdn_out",
                            "gdn_state", "gated_norm", "ssm_out", "residual",
                            "ffn_normed", "ffn_mul", "ffn_down", "layer_out"}
        /\ Oracle(t) = {"qkv", "z", "beta_raw", "alpha_raw", "residual", "ffn_gate",
                        "ffn_up"}
  BY <1>1 DEF Recomputed, Oracle
<1> QED BY <1>2, <1>3, <1>4 DEF Recomputed, Oracle

LEMMA TableFits ==
  ASSUME Typed
  PROVE  RefTable = RefStep(RefTable)
<1>1. ASSUME NEW b \in Recomputed(target), NEW r \in Rows
      PROVE  RefTable[b][r] = RefStep(RefTable)[b][r]
  <2> DEFINE In(x, s) == RefOf(RefTable, x, s)
             InAll(x) == UNION {In(x, s) : s \in Rows}
  <2>1. RefStep(RefTable)[b][r]
          = UNION {IF b \in Elementwise THEN In(x, r) ELSE InAll(x) : x \in RefReads[b]}
    BY <1>1 DEF RefStep
  <2>2. RefTable[b][r] = RefFaults(b, r)
    BY <1>1 DEF RefTable
  <2>3. RefReads[b] = Computes[b] /\ target \in AllTargets
    <3>1. target \in AllTargets
      BY DEF Typed
    <3>2. Recomputed(target) \subseteq DOMAIN RefReads
      BY <3>1, References, Names DEF AllTargets
    <3> QED BY <1>1, <3>1, <3>2, References
  <2>4. CASE target = "projection"
    <3>1. \A x \in RefReads[b] : x \in Inputs \cup Recomputed(target)
      BY <1>1, <2>3, <2>4, References, Dataflow DEF Inputs
    <3>2. ASSUME NEW x \in RefReads[b], NEW s \in Rows PROVE In(x, s) = {}
      BY <2>4, <3>1, <3>2, References DEF RefOf, RefTable, RefFaults
    <3>3. RefFaults(b, r) = {}
      BY <2>4 DEF RefFaults
    <3> HIDE DEF In
    <3> QED BY <1>1, <2>1, <2>2, <3>2, <3>3
  <2>5. CASE target # "projection"
    <3>1. ASSUME NEW x \in Inputs, NEW s \in Rows PROVE In(x, s) = {}
      BY <3>1 DEF RefOf
    <3>2. ASSUME NEW x \in {"qkv", "z", "beta_raw", "alpha_raw", "residual", "ffn_gate",
                           "ffn_up"},
                 NEW s \in Rows
          PROVE  In(x, s) = buf[x].bad[s]
      BY <2>3, <2>5, <3>2, References DEF RefOf, Inputs
    <3>3. ASSUME NEW x \in Recomputed(target), x # "residual", NEW s \in Rows
          PROVE  In(x, s) = RefFaults(x, s)
      BY <2>3, <2>5, <3>3, References DEF RefOf, RefTable, Inputs
    <3>4. /\ \A x \in Inputs : InAll(x) = {}
          /\ \A x \in {"qkv", "z", "beta_raw", "alpha_raw", "residual", "ffn_gate",
                         "ffn_up"} : InAll(x) = Back(x)
      BY <3>1, <3>2 DEF Back, All
    <3>5. ASSUME NEW x \in Recomputed(target), x \notin {"residual", "ffn_mul"},
                 NEW S, \A s \in Rows : RefFaults(x, s) = S
          PROVE  InAll(x) = S
      BY <3>3, <3>5 DEF Rows
    <3>6. InAll("ffn_mul") = Back("ffn_gate") \cup Back("ffn_up")
      <4>1. \A s \in Rows : In("ffn_mul", s) = buf["ffn_gate"].bad[s] \cup buf["ffn_up"].bad[s]
        BY <2>3, <2>5, <3>3, References DEF RefFaults
      <4> HIDE DEF In
      <4> QED BY <4>1 DEF Back, All
    <3>7. /\ InAll("conv") = Back("qkv")
          /\ InAll("q") = Back("qkv") /\ InAll("k") = Back("qkv")
          /\ InAll("beta") = Back("beta_raw") /\ InAll("gate") = Back("alpha_raw")
          /\ InAll("gdn_out") = Back("qkv") \cup Back("beta_raw") \cup Back("alpha_raw")
          /\ InAll("gated_norm")
               = Back("qkv") \cup Back("beta_raw") \cup Back("alpha_raw") \cup Back("z")
      <4> HIDE DEF In, InAll
      <4>1. \A s \in Rows :
              /\ RefFaults("conv", s) = Back("qkv")
              /\ RefFaults("q", s) = Back("qkv") /\ RefFaults("k", s) = Back("qkv")
        BY <2>5 DEF RefFaults
      <4>2. \A s \in Rows :
              RefFaults("beta", s) = Back("beta_raw") /\ RefFaults("gate", s) = Back("alpha_raw")
        BY <2>5 DEF RefFaults
      <4>3. \A s \in Rows :
              RefFaults("gdn_out", s) = Back("qkv") \cup Back("beta_raw") \cup Back("alpha_raw")
        BY <2>5 DEF RefFaults
      <4>4. \A s \in Rows :
              RefFaults("gated_norm", s)
                = Back("qkv") \cup Back("beta_raw") \cup Back("alpha_raw") \cup Back("z")
        BY <2>5 DEF RefFaults
      <4>5. {"conv", "q", "k", "beta", "gate", "gdn_out", "gated_norm"} \subseteq Recomputed(target)
        BY <2>3, <2>5, References
      <4>6. InAll("conv") = Back("qkv") /\ InAll("q") = Back("qkv") /\ InAll("k") = Back("qkv")
        BY <3>5, <4>1, <4>5
      <4>7. InAll("beta") = Back("beta_raw") /\ InAll("gate") = Back("alpha_raw")
        BY <3>5, <4>2, <4>5
      <4>8. InAll("gdn_out") = Back("qkv") \cup Back("beta_raw") \cup Back("alpha_raw")
        BY <3>5, <4>3, <4>5
      <4>9. InAll("gated_norm")
               = Back("qkv") \cup Back("beta_raw") \cup Back("alpha_raw") \cup Back("z")
        BY <3>5, <4>4, <4>5
      <4> QED BY <4>6, <4>7, <4>8, <4>9
    <3>8. /\ In("ssm_out", r) = Back("qkv") \cup Back("beta_raw") \cup Back("alpha_raw") \cup Back("z")
          /\ In("ffn_down", r) = Back("ffn_gate") \cup Back("ffn_up")
          /\ \A x \in {"ffn_gate", "ffn_up", "residual"} : In(x, r) = buf[x].bad[r]
          /\ In("hidden", r) = {}
      BY <2>3, <2>5, <3>1, <3>2, <3>3, References DEF RefFaults, Inputs
    <3> HIDE DEF In, InAll
    <3> DEFINE U == UNION {IF b \in Elementwise THEN In(x, r) ELSE InAll(x) : x \in Computes[b]}
    <3>9. ASSUME NEW x, NEW y, Computes[b] = {x, y}, b \notin Elementwise
          PROVE  U = InAll(x) \cup InAll(y)
      BY <3>9
    <3>10. ASSUME NEW x, NEW y, Computes[b] = {x, y}, b \in Elementwise
           PROVE  U = In(x, r) \cup In(y, r)
      BY <3>10
    <3>11. ASSUME NEW x, Computes[b] = {x}, b \notin Elementwise
           PROVE  U = InAll(x)
      BY <3>11
    <3>12. ASSUME b \in {"gdn_out", "gdn_state"}
           PROVE  U = Back("qkv") \cup Back("beta_raw") \cup Back("alpha_raw")
      <4>1. b \notin Elementwise
        BY <3>12 DEF Elementwise
      <4>2. /\ \A x \in Computes[b] : InAll(x) \subseteq Back("qkv") \cup Back("beta_raw") \cup Back("alpha_raw")
            /\ {"conv", "gate", "beta"} \subseteq Computes[b]
        BY <3>4, <3>7, <3>12, Dataflow DEF Inputs
      <4> QED BY <3>7, <4>1, <4>2
    <3> HIDE DEF U
    <3>13. U = RefFaults(b, r)
      <4>1. CASE b \in {"conv", "conv_state"}
        <5>1. Computes[b] = {"qkv", "conv_state_in"} /\ b \notin Elementwise
          BY <4>1, Dataflow DEF Elementwise
        <5> QED BY <2>5, <3>4, <3>9, <4>1, <5>1 DEF RefFaults, Inputs
      <4>2. CASE b \in {"q", "k"}
        <5>1. U = InAll("conv") /\ b \notin Elementwise
          BY <3>11, <4>2, Dataflow DEF Elementwise
        <5> QED BY <2>5, <3>7, <4>2, <5>1 DEF RefFaults
      <4>3. CASE b = "beta"
        <5>1. U = InAll("beta_raw") /\ b \notin Elementwise
          BY <3>11, <4>3, Dataflow DEF Elementwise
        <5> QED BY <2>5, <3>4, <4>3, <5>1 DEF RefFaults
      <4>4. CASE b = "gate"
        <5>1. U = InAll("alpha_raw") /\ b \notin Elementwise
          BY <3>11, <4>4, Dataflow DEF Elementwise
        <5> QED BY <2>5, <3>4, <4>4, <5>1 DEF RefFaults
      <4>5. CASE b \in {"gdn_out", "gdn_state"}
        BY <2>5, <3>12, <4>5 DEF RefFaults
      <4>6. CASE b = "gated_norm"
        <5>1. Computes[b] = {"gdn_out", "z"} /\ b \notin Elementwise
          BY <4>6, Dataflow DEF Elementwise
        <5> QED BY <2>5, <3>4, <3>7, <3>9, <4>6, <5>1 DEF RefFaults
      <4>7. CASE b = "ssm_out"
        <5>1. Computes[b] = {"gated_norm", "gated_norm"} /\ b \notin Elementwise
          BY <4>7, Dataflow DEF Elementwise
        <5> QED BY <2>5, <3>7, <3>9, <4>7, <5>1 DEF RefFaults
      <4>8. CASE b = "residual"
        <5>1. Computes[b] = {"ssm_out", "hidden"} /\ b \in Elementwise
          BY <4>8, Dataflow DEF Elementwise
        <5> QED BY <2>5, <3>8, <3>10, <4>8, <5>1 DEF RefFaults
      <4>9. CASE b = "ffn_normed"
        <5>1. Computes[b] = {"residual", "residual"} /\ b \notin Elementwise
          BY <4>9, Dataflow DEF Elementwise
        <5> QED BY <2>5, <3>4, <3>9, <4>9, <5>1 DEF RefFaults
      <4>10. CASE b = "ffn_mul"
        <5>1. Computes[b] = {"ffn_gate", "ffn_up"} /\ b \in Elementwise
          BY <4>10, Dataflow DEF Elementwise
        <5> QED BY <2>5, <3>8, <3>10, <4>10, <5>1 DEF RefFaults
      <4>11. CASE b = "ffn_down"
        <5>1. Computes[b] = {"ffn_mul", "ffn_mul"} /\ b \notin Elementwise
          BY <4>11, Dataflow DEF Elementwise
        <5> QED BY <2>5, <3>6, <3>9, <4>11, <5>1 DEF RefFaults
      <4>12. CASE b = "layer_out"
        <5>1. Computes[b] = {"ffn_down", "residual"} /\ b \in Elementwise
          BY <4>12, Dataflow DEF Elementwise
        <5> QED BY <2>5, <3>8, <3>10, <4>12, <5>1 DEF RefFaults
      <4> QED
        BY <1>1, <2>3, <2>5, <4>1, <4>2, <4>3, <4>4, <4>5, <4>6, <4>7, <4>8, <4>9,
           <4>10, <4>11, <4>12, References
    <3> QED BY <2>1, <2>2, <2>3, <3>13 DEF U
  <2> QED BY <2>4, <2>5
<1> QED BY <1>1 DEF RefTable, RefStep

LEMMA RefBadIs ==
  ASSUME Typed
  PROVE  RefBad = RefStep(RefBad)
<1>1. \E g : g = RefStep(g)
  BY TableFits
<1>2. RefBad = CHOOSE g : g = RefStep(g)
  BY DEF RefBad, RefStep, RefOf
<1> QED BY <1>1, <1>2

-----------------------------------------------------------------------------
(* The comparisons that were passed agreed.                                *)
Agreed ==
  stage \in {"compare", "pass"} =>
    /\ stage = "compare" => pc \in 1 .. Len(Comparisons(target))
    /\ \A n \in 1 .. Len(Comparisons(target)) : stage = "pass" \/ n < pc =>
         \A b \in DOMAIN Comparisons(target)[n] :
           ~Differs(b, Comparisons(target)[n][b])

(* Row r of b is compared.                                                 *)
Compared(b, r) ==
  \/ /\ target = "projection" /\ b \in {"qkv", "z", "beta_raw", "alpha_raw"}
     /\ r \in First4
  \/ /\ target # "projection"
     /\ b \in {"conv", "conv_state", "q", "k", "beta", "gate", "gdn_out", "gdn_state"}
  \/ /\ target \in {"attention", "full"}
     /\ b = "gated_norm" \/ (b \in {"ssm_out", "residual"} /\ r \in First8)
  \/ /\ target = "full"
     /\ \/ b \in {"ffn_normed", "ffn_mul"}
        \/ b \in {"ffn_down", "layer_out"} /\ r \in First8

(* What is compared has been recomputed, and launched.                     *)
Checked(b, rows) ==
  b \in Recomputed(target) /\ Step[b] <= Length(target) /\ rows \subseteq Rows

LEMMA ComparedIs ==
  ASSUME Typed
  PROVE  LET C == Comparisons(target)
         IN  /\ Len(C) \in Nat \ {0} /\ DOMAIN C = 1 .. Len(C)
             /\ \A n \in 1 .. Len(C) : \A b \in DOMAIN C[n] : Checked(b, C[n][b])
             /\ \A b \in Outputs : \A r \in Rows :
                  Compared(b, r)
                    <=> \E n \in 1 .. Len(C) : b \in DOMAIN C[n] /\ r \in C[n][b]
<1>1. /\ DOMAIN FrontRows = {"conv", "conv_state", "q", "k", "beta", "gate",
                             "gdn_out", "gdn_state"}
      /\ \A b \in DOMAIN FrontRows : FrontRows[b] = Rows
  BY DEF FrontRows, Everywhere
<1>2. /\ DOMAIN AttentionRows = {"gated_norm", "ssm_out", "residual"}
      /\ AttentionRows["gated_norm"] = Rows
      /\ AttentionRows["ssm_out"] = First8 /\ AttentionRows["residual"] = First8
  BY DEF AttentionRows
<1>3. /\ DOMAIN FfnRows = {"ffn_normed", "ffn_mul", "ffn_down", "layer_out"}
      /\ FfnRows["ffn_normed"] = Rows /\ FfnRows["ffn_mul"] = Rows
      /\ FfnRows["ffn_down"] = First8 /\ FfnRows["layer_out"] = First8
  BY DEF FfnRows
<1>4. /\ DOMAIN ProjectionRows = {"qkv", "z", "beta_raw", "alpha_raw"}
      /\ \A b \in DOMAIN ProjectionRows : ProjectionRows[b] = First4
  BY DEF ProjectionRows
<1>5. target \in AllTargets
  BY DEF Typed
<1>6. ASSUME NEW b, NEW r \in Rows
       PROVE  /\ b \in DOMAIN ProjectionRows /\ r \in ProjectionRows[b]
                   <=> b \in {"qkv", "z", "beta_raw", "alpha_raw"} /\ r \in First4
              /\ b \in DOMAIN FrontRows /\ r \in FrontRows[b]
                   <=> b \in {"conv", "conv_state", "q", "k", "beta", "gate", "gdn_out",
                             "gdn_state"}
              /\ b \in DOMAIN AttentionRows /\ r \in AttentionRows[b]
                   <=> b = "gated_norm" \/ (b \in {"ssm_out", "residual"} /\ r \in First8)
              /\ b \in DOMAIN FfnRows /\ r \in FfnRows[b]
                   <=> \/ b \in {"ffn_normed", "ffn_mul"}
                       \/ b \in {"ffn_down", "layer_out"} /\ r \in First8
  BY <1>1, <1>2, <1>3, <1>4
<1> DEFINE C == Comparisons(target)
<1>7. CASE target = "projection"
  <2>1. C = <<ProjectionRows>>
    BY <1>7 DEF Comparisons
  <2> HIDE DEF C
  <2>2. Len(C) = 1 /\ DOMAIN C = 1 .. 1 /\ C[1] = ProjectionRows
    BY <2>1
  <2>3. \A b \in DOMAIN ProjectionRows : Checked(b, ProjectionRows[b])
    BY <1>4, <1>7, References DEF Checked, Length, Step, First4, Rows
  <2>4. ASSUME NEW b \in Outputs, NEW r \in Rows
        PROVE  Compared(b, r) <=> b \in DOMAIN ProjectionRows /\ r \in ProjectionRows[b]
    BY <1>7, <1>6 DEF Compared
  <2>5. ASSUME NEW b, NEW r
        PROVE  (\E n \in 1 .. Len(C) : b \in DOMAIN C[n] /\ r \in C[n][b])
                 <=> (b \in DOMAIN C[1] /\ r \in C[1][b])
    BY <2>2
  <2> QED BY <2>2, <2>3, <2>4, <2>5 DEF C
<1>8. CASE target = "front"
  <2>1. C = <<FrontRows>>
    BY <1>8 DEF Comparisons
  <2> HIDE DEF C
  <2>2. Len(C) = 1 /\ DOMAIN C = 1 .. 1 /\ C[1] = FrontRows
    BY <2>1
  <2>3. \A b \in DOMAIN FrontRows : Checked(b, FrontRows[b])
    BY <1>1, <1>5, <1>8, References DEF Checked, Length, Step
  <2>4. ASSUME NEW b \in Outputs, NEW r \in Rows
        PROVE  Compared(b, r) <=> b \in DOMAIN FrontRows /\ r \in FrontRows[b]
    BY <1>8, <1>6 DEF Compared
  <2>5. ASSUME NEW b, NEW r
        PROVE  (\E n \in 1 .. Len(C) : b \in DOMAIN C[n] /\ r \in C[n][b])
                 <=> (b \in DOMAIN C[1] /\ r \in C[1][b])
    BY <2>2
  <2> QED BY <2>2, <2>3, <2>4, <2>5 DEF C
<1>9. CASE target = "attention"
  <2>1. C = <<FrontRows, AttentionRows>>
    BY <1>9 DEF Comparisons
  <2> HIDE DEF C
  <2>2. Len(C) = 2 /\ DOMAIN C = 1 .. 2 /\ C[1] = FrontRows /\ C[2] = AttentionRows
    BY <2>1
  <2>3. /\ \A b \in DOMAIN FrontRows : Checked(b, FrontRows[b])
        /\ \A b \in DOMAIN AttentionRows : Checked(b, AttentionRows[b])
    BY <1>1, <1>2, <1>5, <1>9, References DEF Checked, Length, Step, First8, Rows
  <2>4. ASSUME NEW b \in Outputs, NEW r \in Rows
        PROVE  Compared(b, r) <=> \/ b \in DOMAIN FrontRows /\ r \in FrontRows[b]
                                  \/ b \in DOMAIN AttentionRows /\ r \in AttentionRows[b]
    BY <1>9, <1>6 DEF Compared
  <2>5. ASSUME NEW b, NEW r
        PROVE  (\E n \in 1 .. Len(C) : b \in DOMAIN C[n] /\ r \in C[n][b])
                 <=> \/ b \in DOMAIN C[1] /\ r \in C[1][b]
                     \/ b \in DOMAIN C[2] /\ r \in C[2][b]
    BY <2>2
  <2> QED BY <2>2, <2>3, <2>4, <2>5 DEF C
<1>10. CASE target = "full"
  <2>1. C = <<FrontRows, AttentionRows, FfnRows>>
    BY <1>10 DEF Comparisons
  <2> HIDE DEF C
  <2>2. /\ Len(C) = 3 /\ DOMAIN C = 1 .. 3
        /\ C[1] = FrontRows /\ C[2] = AttentionRows /\ C[3] = FfnRows
    BY <2>1
  <2>3. /\ \A b \in DOMAIN FrontRows : Checked(b, FrontRows[b])
        /\ \A b \in DOMAIN AttentionRows : Checked(b, AttentionRows[b])
        /\ \A b \in DOMAIN FfnRows : Checked(b, FfnRows[b])
    BY <1>1, <1>2, <1>3, <1>5, <1>10, References DEF Checked, Length, Step, First8, Rows
  <2>4. ASSUME NEW b \in Outputs, NEW r \in Rows
        PROVE  Compared(b, r) <=> \/ b \in DOMAIN FrontRows /\ r \in FrontRows[b]
                                  \/ b \in DOMAIN AttentionRows /\ r \in AttentionRows[b]
                                  \/ b \in DOMAIN FfnRows /\ r \in FfnRows[b]
    BY <1>10, <1>6 DEF Compared
  <2>5. ASSUME NEW b, NEW r
        PROVE  (\E n \in 1 .. Len(C) : b \in DOMAIN C[n] /\ r \in C[n][b])
                 <=> \/ b \in DOMAIN C[1] /\ r \in C[1][b]
                     \/ b \in DOMAIN C[2] /\ r \in C[2][b]
                     \/ b \in DOMAIN C[3] /\ r \in C[3][b]
    BY <2>2
  <2> QED BY <2>2, <2>3, <2>4, <2>5 DEF C
<1> QED BY <1>5, <1>7, <1>8, <1>9, <1>10 DEF AllTargets

(* An in-sight fault, in these terms.                                      *)
LEMMA Sight ==
  ASSUME Typed, NEW f \in faults
  PROVE  InSight(f) <=> \/ f.at \in Outputs /\ f.rows \in Rows /\ Compared(f.at, f.rows)
                        \/ target = "projection" /\ f.at \in {"sum", "normed"}
                        \/ target = "full" /\ f.at = "ffn_sum"
<1>1. /\ Len(Comparisons(target)) \in Nat
      /\ DOMAIN Comparisons(target) = 1 .. Len(Comparisons(target))
      /\ \A n \in DOMAIN Comparisons(target) :
           \A b \in DOMAIN Comparisons(target)[n] : b \in Recomputed(target)
      /\ \A b \in Outputs : \A r \in Rows :
           Compared(b, r) <=> \E n \in DOMAIN Comparisons(target) :
                                /\ b \in DOMAIN Comparisons(target)[n]
                                /\ r \in Comparisons(target)[n][b]
  BY ComparedIs DEF Checked
<1>2. Recomputed(target) \subseteq Outputs
  BY References, Names DEF Typed, AllTargets
<1>3. f.rows \in Rows
  BY DEF Typed, Fault, Rows
<1> QED BY <1>1, <1>2, <1>3 DEF InSight

-----------------------------------------------------------------------------
(* Where every input of a reference is a buffer read back, or a reference  *)
(* that agrees with the buffer it stands for, the reference agrees with    *)
(* the buffer it recomputes, but for what that kernel gets wrong.          *)
Same(x, r) == x \in Inputs \cup Oracle(target)
              \/ (x \in Recomputed(target) /\ buf[x].bad[r] = RefBad[x][r])

LEMMA AgreeStep ==
  ASSUME Typed, Settled,
         NEW b \in Recomputed(target), Step[b] <= Limit, NEW r \in Rows,
         \A x \in Computes[b] :
           IF b \in Elementwise THEN Same(x, r) ELSE \A s \in Rows : Same(x, s),
         \A f \in faults : f.at # SumOf(b) /\ ~(f.at = b /\ f.rows = r)
  PROVE  buf[b].bad[r] = RefBad[b][r]
<1>1. b \in Outputs /\ RefReads[b] = Computes[b]
  BY References, Names DEF Typed, AllTargets
<1>2. buf[b].bad[r] = Direct(b, r)
  <2>1. buf[b] = Good(b)
    BY <1>1 DEF Settled
  <2>2. Own(b, r) = {} /\ {f \in faults : f.at = SumOf(b)} = {}
    BY DEF Own
  <2> QED BY <2>1, <2>2 DEF Good
<1>3. RefBad[b][r]
        = UNION {IF b \in Elementwise THEN RefOf(RefBad, x, r)
                 ELSE UNION {RefOf(RefBad, x, s) : s \in Rows} : x \in RefReads[b]}
  <2>1. RefBad[b][r] = RefStep(RefBad)[b][r]
    BY RefBadIs
  <2> QED BY <2>1 DEF RefStep
<1>4. ASSUME NEW x \in Computes[b], NEW s \in Rows, Same(x, s)
      PROVE  RefOf(RefBad, x, s) = buf[x].bad[s]
  <2>1. CASE x \in Inputs
    BY <1>4, <2>1 DEF RefOf, Typed, NoFault
  <2>2. CASE x \notin Inputs /\ x \in Oracle(target)
    BY <2>2 DEF RefOf
  <2>3. CASE x \notin Inputs /\ x \notin Oracle(target)
    BY <1>4, <2>3 DEF RefOf, Same
  <2> QED BY <2>1, <2>2, <2>3
<1>5. CASE b \in Elementwise
  <2>1. \A x \in Computes[b] : RefOf(RefBad, x, r) = buf[x].bad[r]
    BY <1>4, <1>5
  <2> QED BY <1>1, <1>2, <1>3, <1>5, <2>1 DEF Direct
<1>6. CASE b \notin Elementwise
  <2>1. \A x \in Computes[b] : \A s \in Rows : RefOf(RefBad, x, s) = buf[x].bad[s]
    BY <1>4, <1>6
  <2>2. \A x \in Computes[b] : UNION {RefOf(RefBad, x, s) : s \in Rows} = All(buf[x].bad)
    BY <2>1 DEF All
  <2> QED BY <1>1, <1>2, <1>3, <1>6, <2>2 DEF Direct
<1> QED BY <1>5, <1>6

(* When no fault is in sight, every compared row is what the reference is. *)
LEMMA NothingInSightAgrees ==
  ASSUME Typed, Settled, Limit = Length(target), \A f \in faults : ~InSight(f)
  PROVE  \A b \in Recomputed(target) : \A r \in Rows :
           Compared(b, r) => buf[b].bad[r] = RefBad[b][r]
<1> DEFINE Fine(b, r) == buf[b].bad[r] = RefBad[b][r]
<1> DEFINE Clean(b, r) == \A f \in faults : f.at # SumOf(b) /\ ~(f.at = b /\ f.rows = r)
<1>1. target \in AllTargets /\ \A f \in faults : f.at \in Outputs \cup {"sum", "ffn_sum"}
  BY Names DEF Typed, Fault
<1>2. Recomputed(target) \subseteq Outputs
  BY <1>1, References, Names DEF AllTargets
<1>3. ASSUME NEW b \in Recomputed(target), NEW r \in Rows, Compared(b, r)
      PROVE  Clean(b, r)
  <2> SUFFICES ASSUME NEW f \in faults PROVE f.at # SumOf(b) /\ ~(f.at = b /\ f.rows = r)
    OBVIOUS
  <2>1. ~(f.at = b /\ f.rows = r)
    BY <1>2, <1>3, Sight
  <2>2. b = "ffn_normed" => target = "full"
    BY <1>3 DEF Compared
  <2>3. b # "normed"
    BY <1>3 DEF Compared
  <2>4. f.at # SumOf(b)
    BY <1>1, <2>2, <2>3, Sight, Names DEF SumOf
  <2> QED BY <2>1, <2>4
<1> HIDE DEF Fine, Clean
<1>4. ASSUME NEW b \in Recomputed(target), Step[b] <= Limit, NEW r \in Rows, Clean(b, r),
             \A x \in Computes[b] :
               IF b \in Elementwise THEN Same(x, r) ELSE \A s \in Rows : Same(x, s)
      PROVE  Fine(b, r)
  BY <1>4, AgreeStep DEF Fine, Clean
<1>5. \A x \in Inputs \cup Oracle(target) : \A s \in Rows : Same(x, s)
  BY DEF Same
<1>6. \A x \in Recomputed(target) : \A s \in Rows : Fine(x, s) => Same(x, s)
  BY DEF Same, Fine
<1>7. CASE target = "projection"
  <2>1. Limit = 7 /\ Recomputed(target) = {"normed", "qkv", "z", "beta_raw", "alpha_raw"}
    BY <1>7, References DEF Length
  <2>2. \A b \in Recomputed(target) : b \notin Elementwise /\ Step[b] <= Limit
    BY <2>1 DEF Step, Elementwise
  <2>3. \A s \in Rows : Fine("normed", s)
    <3> SUFFICES ASSUME NEW s \in Rows PROVE Fine("normed", s)
      OBVIOUS
    <3>1. Clean("normed", s)
      BY <1>7, Sight DEF Clean, SumOf
    <3>2. \A x \in Computes["normed"] : \A v \in Rows : Same(x, v)
      BY <1>5, Dataflow DEF Inputs
    <3> QED BY <1>4, <2>1, <2>2, <3>1, <3>2
  <2>4. ASSUME NEW b \in Recomputed(target), NEW r \in Rows, Compared(b, r)
        PROVE  Fine(b, r)
    <3>1. b \in {"qkv", "z", "beta_raw", "alpha_raw"}
      BY <1>7, <2>4 DEF Compared
    <3>2. Computes[b] = {"normed"}
      BY <3>1, Dataflow
    <3>3. \A x \in Computes[b] : \A v \in Rows : Same(x, v)
      BY <1>6, <2>1, <2>3, <3>2
    <3> QED BY <1>3, <1>4, <2>2, <2>4, <3>3
  <2> QED BY <2>4 DEF Fine
<1>8. CASE target # "projection"
  <2>1. /\ Recomputed(target)
             = {"conv", "conv_state", "q", "k", "beta", "gate", "gdn_out", "gdn_state",
                "gated_norm", "ssm_out", "residual", "ffn_normed", "ffn_mul", "ffn_down",
                "layer_out"}
        /\ Oracle(target)
             = {"qkv", "z", "beta_raw", "alpha_raw", "residual", "ffn_gate", "ffn_up"}
    BY <1>1, <1>8, References
  <2> DEFINE Ready(x) == \/ x \in Inputs \cup Oracle(target)
                         \/ x \in Recomputed(target) /\ \A s \in Rows : Fine(x, s)
  <2>2. ASSUME NEW b \in Recomputed(target), b \notin Elementwise, Step[b] <= Limit,
               \A x \in Computes[b] : Ready(x),
               NEW r \in Rows, Compared(b, r)
        PROVE  Fine(b, r)
    <3>1. \A x \in Computes[b] : \A s \in Rows : Same(x, s)
      BY <1>5, <1>6, <2>2
    <3> QED BY <1>3, <1>4, <2>2, <3>1
  <2>3. /\ \A b \in {"conv", "conv_state", "q", "k", "beta", "gate", "gdn_out",
                     "gdn_state"} :
             /\ b \in Recomputed(target) /\ b \notin Elementwise /\ Step[b] <= Limit
             /\ \A r \in Rows : Compared(b, r)
    <3>1. Limit >= 11 /\ Limit \in Nat
      BY <1>1, <1>8 DEF Length, AllTargets
    <3> QED BY <1>8, <2>1, <3>1 DEF Compared, Step, Elementwise
  <2>4. \A b \in {"conv", "conv_state", "beta", "gate"} : \A r \in Rows : Fine(b, r)
    <3>1. \A x \in {"qkv", "conv_state_in", "beta_raw", "alpha_raw"} : Ready(x)
      BY <2>1 DEF Inputs
    <3> HIDE DEF Ready
    <3>2. \A b \in {"conv", "conv_state", "beta", "gate"} : \A x \in Computes[b] : Ready(x)
      BY <3>1, Dataflow
    <3> QED BY <2>2, <2>3, <3>2
  <2>5. \A b \in {"q", "k"} : \A r \in Rows : Fine(b, r)
    BY <2>1, <2>2, <2>3, <2>4, Dataflow
  <2>6. \A b \in {"gdn_out", "gdn_state"} : \A r \in Rows : Fine(b, r)
    <3>1. \A x \in {"q", "k", "conv", "gate", "beta", "gdn_state_in"} : Ready(x)
      BY <2>1, <2>4, <2>5 DEF Inputs
    <3> HIDE DEF Ready
    <3>2. \A b \in {"gdn_out", "gdn_state"} : \A x \in Computes[b] : Ready(x)
      BY <3>1, Dataflow
    <3> QED BY <2>2, <2>3, <3>2
  <2>7. target \in {"attention", "full"} =>
          /\ \A r \in Rows : Fine("gated_norm", r)
          /\ \A r \in First8 : Fine("ssm_out", r) /\ Fine("residual", r)
    <3> SUFFICES ASSUME target \in {"attention", "full"}
                 PROVE  /\ \A r \in Rows : Fine("gated_norm", r)
                        /\ \A r \in First8 : Fine("ssm_out", r) /\ Fine("residual", r)
      OBVIOUS
    <3>1. Limit >= 14 /\ Limit \in Nat /\ First8 \subseteq Rows
      BY DEF Length, First8, Rows
    <3>2. \A r \in Rows : Fine("gated_norm", r)
      <4>1. /\ "gated_norm" \notin Elementwise /\ Step["gated_norm"] <= Limit
            /\ \A r \in Rows : Compared("gated_norm", r)
        BY <3>1 DEF Compared, Step, Elementwise
      <4>2. "gated_norm" \in Recomputed(target) /\ \A x \in Computes["gated_norm"] : Ready(x)
        BY <2>1, <2>6, Dataflow
      <4> HIDE DEF Ready
      <4> QED BY <2>2, <4>1, <4>2
    <3>3. \A r \in First8 : Fine("ssm_out", r)
      <4>1. /\ "ssm_out" \notin Elementwise /\ Step["ssm_out"] <= Limit
            /\ \A r \in First8 : Compared("ssm_out", r)
        BY <3>1 DEF Compared, Step, Elementwise
      <4> QED BY <2>1, <2>2, <3>1, <3>2, <4>1, Dataflow
    <3>4. ASSUME NEW r \in First8 PROVE Fine("residual", r)
      <4>1. Compared("residual", r) /\ Step["residual"] <= Limit /\ "residual" \in Elementwise
        BY <3>1 DEF Compared, Step, Elementwise
      <4>2. Same("ssm_out", r) /\ Same("hidden", r)
        BY <1>5, <1>6, <2>1, <3>1, <3>3 DEF Inputs
      <4> QED BY <1>3, <1>4, <2>1, <3>1, <4>1, <4>2, Dataflow
    <3> QED BY <3>2, <3>3, <3>4
  <2>8. target = "full" =>
          /\ \A r \in Rows : Fine("ffn_normed", r) /\ Fine("ffn_mul", r)
          /\ \A r \in First8 : Fine("ffn_down", r) /\ Fine("layer_out", r)
    <3> SUFFICES ASSUME target = "full"
                 PROVE  /\ \A r \in Rows : Fine("ffn_normed", r) /\ Fine("ffn_mul", r)
                        /\ \A r \in First8 : Fine("ffn_down", r) /\ Fine("layer_out", r)
      OBVIOUS
    <3>1. Limit = 22 /\ First8 \subseteq Rows
      BY DEF Length, First8, Rows
    <3>2. \A r \in Rows : Fine("ffn_normed", r)
      <4>1. /\ "ffn_normed" \notin Elementwise /\ Step["ffn_normed"] <= Limit
            /\ \A r \in Rows : Compared("ffn_normed", r)
        BY <3>1 DEF Compared, Step, Elementwise
      <4>2. "ffn_normed" \in Recomputed(target) /\ \A x \in Computes["ffn_normed"] : Ready(x)
        BY <2>1, Dataflow
      <4> HIDE DEF Ready
      <4> QED BY <2>2, <4>1, <4>2
    <3>3. ASSUME NEW r \in Rows PROVE Fine("ffn_mul", r)
      <4>1. Compared("ffn_mul", r) /\ Step["ffn_mul"] <= Limit /\ "ffn_mul" \in Elementwise
        BY <3>1 DEF Compared, Step, Elementwise
      <4>2. Same("ffn_gate", r) /\ Same("ffn_up", r)
        BY <1>5, <2>1
      <4> QED BY <1>3, <1>4, <2>1, <4>1, <4>2, Dataflow
    <3>4. \A r \in First8 : Fine("ffn_down", r)
      <4>1. /\ "ffn_down" \notin Elementwise /\ Step["ffn_down"] <= Limit
            /\ \A r \in First8 : Compared("ffn_down", r)
        BY <3>1 DEF Compared, Step, Elementwise
      <4> QED BY <2>1, <2>2, <3>1, <3>3, <4>1, Dataflow
    <3>5. ASSUME NEW r \in First8 PROVE Fine("layer_out", r)
      <4>1. Compared("layer_out", r) /\ Step["layer_out"] <= Limit /\ "layer_out" \in Elementwise
        BY <3>1 DEF Compared, Step, Elementwise
      <4>2. Same("ffn_down", r) /\ Same("residual", r)
        BY <1>5, <1>6, <2>1, <3>1, <3>4
      <4> QED BY <1>3, <1>4, <2>1, <3>1, <4>1, <4>2, Dataflow
    <3> QED BY <3>2, <3>3, <3>4, <3>5
  <2>9. ASSUME NEW b \in Recomputed(target), NEW r \in Rows, Compared(b, r)
        PROVE  Fine(b, r)
    <3>1. CASE b \in {"conv", "conv_state", "q", "k", "beta", "gate", "gdn_out", "gdn_state"}
      BY <2>4, <2>5, <2>6, <3>1
    <3>2. CASE b \in {"gated_norm", "ssm_out", "residual"}
      BY <2>7, <2>9, <3>2 DEF Compared
    <3>3. CASE b \in {"ffn_normed", "ffn_mul", "ffn_down", "layer_out"}
      BY <2>8, <2>9, <3>3 DEF Compared
    <3> QED BY <2>1, <3>1, <3>2, <3>3
  <2> QED BY <2>9 DEF Fine
<1> QED BY <1>7, <1>8

-----------------------------------------------------------------------------
(* The faults that reach the references come from the buffers they are fed *)
(* with, so from earlier steps than those they check.                      *)
Low(b, n) == \A r \in Rows : \A f \in RefBad[b][r] : f \in faults /\ Step[f.at] <= n

LEMMA LowStep ==
  ASSUME Typed, Ranked, NEW n \in Nat, NEW b \in Recomputed(target),
         \A x \in Computes[b] : \/ x \in Inputs
                                \/ x \in Oracle(target) /\ Step[x] <= n /\ Step[x] <= Limit
                                \/ x \in Recomputed(target) \ Oracle(target) /\ Low(x, n)
  PROVE  Low(b, n)
<1> SUFFICES ASSUME NEW r \in Rows, NEW f \in RefBad[b][r]
             PROVE  f \in faults /\ Step[f.at] <= n
  BY DEF Low
<1>1. RefReads[b] = Computes[b] /\ b \in Outputs
  BY References, Names DEF Typed, AllTargets
<1>2. PICK x \in Computes[b] : \E s \in Rows : f \in RefOf(RefBad, x, s)
  <2>1. RefBad[b][r]
          = UNION {IF b \in Elementwise THEN RefOf(RefBad, x, r)
                   ELSE UNION {RefOf(RefBad, x, s) : s \in Rows} : x \in RefReads[b]}
    <3>1. RefBad[b][r] = RefStep(RefBad)[b][r]
      BY RefBadIs
    <3> QED BY <3>1 DEF RefStep
  <2>2. PICK x \in RefReads[b] :
          f \in IF b \in Elementwise THEN RefOf(RefBad, x, r)
               ELSE UNION {RefOf(RefBad, x, s) : s \in Rows}
    BY <2>1
  <2>3. \E s \in Rows : f \in RefOf(RefBad, x, s)
    BY <2>2
  <2> QED BY <1>1, <2>3
<1>3. x \notin Inputs
  BY <1>2 DEF RefOf
<1>4. CASE x \in Oracle(target) /\ Step[x] <= n /\ Step[x] <= Limit
  <2>1. x \in Outputs
    BY <1>1, <1>3, Order
  <2>2. \E s \in Rows : f \in buf[x].bad[s]
    BY <1>2, <1>3, <1>4 DEF RefOf
  <2>3. f \in faults /\ Step[f.at] <= Step[x]
    BY <1>4, <2>1, <2>2 DEF Typed, Ranked
  <2>4. Step[f.at] \in 1 .. 22 /\ Step[x] \in 1 .. 22
    BY <2>1, <2>3, Order, Names DEF Typed, Fault, Step
  <2> QED BY <1>4, <2>3, <2>4
<1>5. CASE x \in Recomputed(target) \ Oracle(target) /\ Low(x, n)
  <2>1. \E s \in Rows : f \in RefBad[x][s]
    BY <1>2, <1>3, <1>5 DEF RefOf
  <2> QED BY <1>5, <2>1 DEF Low
<1> QED BY <1>3, <1>4, <1>5

LEMMA RefRank ==
  ASSUME Typed, Ranked, Limit = Length(target)
  PROVE  /\ target = "projection" => \A b \in Recomputed(target) : Low(b, 0)
         /\ target # "projection" =>
              \A b \in {"conv", "conv_state", "q", "k", "beta", "gate", "gdn_out",
                        "gdn_state", "gated_norm", "ssm_out", "residual"} : Low(b, 7)
         /\ target = "full" =>
              Low("ffn_normed", 14) /\ Low("ffn_mul", 19) /\ Low("ffn_down", 19)
              /\ Low("layer_out", 19)
<1> DEFINE Fed(x, n) == \/ x \in Inputs
                        \/ x \in Oracle(target) /\ Step[x] <= n /\ Step[x] <= Limit
                        \/ x \in Recomputed(target) \ Oracle(target) /\ Low(x, n)
<1>1. ASSUME NEW n \in Nat, NEW b \in Recomputed(target), \A x \in Computes[b] : Fed(x, n)
      PROVE  Low(b, n)
  BY <1>1, LowStep
<1>2. target \in AllTargets
  BY DEF Typed
<1>3. CASE target = "projection"
  <2>1. /\ Recomputed(target) = {"normed", "qkv", "z", "beta_raw", "alpha_raw"}
        /\ Oracle(target) = {}
    BY <1>3, References
  <2>2. Low("normed", 0)
    <3>1. \A x \in Computes["normed"] : Fed(x, 0)
      BY Dataflow DEF Inputs
    <3> HIDE DEF Fed
    <3> QED BY <1>1, <2>1, <3>1
  <2>3. Fed("normed", 0)
    BY <2>1, <2>2
  <2> HIDE DEF Fed
  <2>4. \A b \in {"qkv", "z", "beta_raw", "alpha_raw"} : \A x \in Computes[b] : Fed(x, 0)
    BY <2>3, Dataflow
  <2> QED BY <1>1, <1>3, <2>1, <2>2, <2>4
<1>4. CASE target # "projection"
  <2>1. /\ Recomputed(target)
             = {"conv", "conv_state", "q", "k", "beta", "gate", "gdn_out", "gdn_state",
                "gated_norm", "ssm_out", "residual", "ffn_normed", "ffn_mul", "ffn_down",
                "layer_out"}
        /\ Oracle(target)
             = {"qkv", "z", "beta_raw", "alpha_raw", "residual", "ffn_gate", "ffn_up"}
    BY <1>2, <1>4, References
  <2>2. Limit \in Nat /\ Limit >= 11 /\ (target = "full" => Limit = 22)
    BY <1>2, <1>4 DEF Length, AllTargets
  <2>3. /\ \A x \in Inputs : Fed(x, 7)
        /\ \A x \in {"qkv", "z", "beta_raw", "alpha_raw"} : Fed(x, 7)
        /\ \A x \in {"conv", "conv_state", "q", "k", "beta", "gate", "gdn_out",
                     "gdn_state", "gated_norm", "ssm_out"} : Low(x, 7) => Fed(x, 7)
    BY <2>1, <2>2 DEF Step
  <2>4. target = "full" =>
          /\ Fed("residual", 14) /\ Fed("residual", 19)
          /\ Fed("ffn_gate", 19) /\ Fed("ffn_up", 19)
          /\ \A x \in {"ffn_mul", "ffn_down"} : Low(x, 19) => Fed(x, 19)
    BY <2>1, <2>2 DEF Step
  <2> HIDE DEF Fed
  <2>5. \A b \in {"conv", "conv_state", "beta", "gate"} : Low(b, 7)
    <3>1. \A b \in {"conv", "conv_state", "beta", "gate"} : \A x \in Computes[b] : Fed(x, 7)
      BY <2>3, Dataflow DEF Inputs
    <3> QED BY <1>1, <2>1, <3>1
  <2>6. \A b \in {"q", "k"} : Low(b, 7)
    <3>1. \A b \in {"q", "k"} : \A x \in Computes[b] : Fed(x, 7)
      BY <2>3, <2>5, Dataflow
    <3> QED BY <1>1, <2>1, <3>1
  <2>7. \A b \in {"gdn_out", "gdn_state"} : Low(b, 7)
    <3>1. \A x \in {"q", "k", "conv", "gate", "beta", "gdn_state_in"} : Fed(x, 7)
      BY <2>3, <2>5, <2>6 DEF Inputs
    <3>2. \A b \in {"gdn_out", "gdn_state"} : \A x \in Computes[b] : Fed(x, 7)
      BY <3>1, Dataflow
    <3> QED BY <1>1, <2>1, <3>2
  <2>8. Low("gated_norm", 7) /\ Low("ssm_out", 7) /\ Low("residual", 7)
    <3>1. Low("gated_norm", 7)
      <4>1. \A x \in Computes["gated_norm"] : Fed(x, 7)
        BY <2>3, <2>7, Dataflow
      <4> QED BY <1>1, <2>1, <4>1
    <3>2. Low("ssm_out", 7)
      <4>1. \A x \in Computes["ssm_out"] : Fed(x, 7)
        BY <2>3, <3>1, Dataflow
      <4> QED BY <1>1, <2>1, <4>1
    <3>3. \A x \in Computes["residual"] : Fed(x, 7)
      BY <2>3, <3>2, Dataflow DEF Inputs
    <3> QED BY <1>1, <2>1, <3>1, <3>2, <3>3
  <2>9. target = "full" =>
          Low("ffn_normed", 14) /\ Low("ffn_mul", 19) /\ Low("ffn_down", 19)
          /\ Low("layer_out", 19)
    <3> SUFFICES ASSUME target = "full"
                 PROVE  Low("ffn_normed", 14) /\ Low("ffn_mul", 19) /\ Low("ffn_down", 19)
                        /\ Low("layer_out", 19)
      OBVIOUS
    <3>1. Low("ffn_normed", 14)
      <4>1. \A x \in Computes["ffn_normed"] : Fed(x, 14)
        BY <2>4, Dataflow
      <4> QED BY <1>1, <2>1, <4>1
    <3>2. Low("ffn_mul", 19)
      <4>1. \A x \in Computes["ffn_mul"] : Fed(x, 19)
        BY <2>4, Dataflow
      <4> QED BY <1>1, <2>1, <4>1
    <3>3. Low("ffn_down", 19)
      <4>1. \A x \in Computes["ffn_down"] : Fed(x, 19)
        BY <2>4, <3>2, Dataflow
      <4> QED BY <1>1, <2>1, <4>1
    <3>4. \A x \in Computes["layer_out"] : Fed(x, 19)
      BY <2>4, <3>3, Dataflow
    <3> QED BY <1>1, <2>1, <3>1, <3>2, <3>3, <3>4
  <2> QED BY <1>4, <2>5, <2>6, <2>7, <2>8, <2>9
<1> QED BY <1>3, <1>4

(* When every compared row agrees, no fault is in sight.                   *)
LEMMA AgreementShowsNothing ==
  ASSUME Typed, Settled, Ranked, Limit = Length(target),
         \A b \in Recomputed(target) : \A r \in Rows :
           Compared(b, r) => buf[b].bad[r] = RefBad[b][r]
  PROVE  \A f \in faults : ~InSight(f)
<1> SUFFICES ASSUME NEW f \in faults, InSight(f) PROVE FALSE
  OBVIOUS
<1>1. target \in AllTargets /\ Limit \in Nat /\ Limit >= 7
      /\ (target = "full" => Limit = 22) /\ (target # "projection" => Limit >= 11)
  BY DEF Typed, Length, AllTargets
<1>2. ASSUME NEW b \in Recomputed(target), NEW r \in Rows, Compared(b, r),
             f.at = b /\ f.rows = r, Step[b] <= Limit
      PROVE  f \in RefBad[b][r]
  <2>1. b \in Outputs /\ buf[b] = Good(b)
    BY <1>1, <1>2, References, Names DEF AllTargets, Settled
  <2>2. f \in buf[b].bad[r]
    BY <1>2, <2>1 DEF Good, Own
  <2> QED BY <1>2, <2>2
<1>3. CASE target = "projection"
  <2>1. \A b \in {"normed", "qkv", "z", "beta_raw", "alpha_raw"} :
          b \in Recomputed(target) /\ b \in Outputs /\ Step[b] <= Limit /\ Low(b, 0)
    BY <1>1, <1>3, References, RefRank, Names DEF Step
  <2>2. Step[f.at] \in 1 .. 22
    BY Order, Names DEF Typed, Fault, Step
  <2>3. CASE f.at \in {"qkv", "z", "beta_raw", "alpha_raw"}
    <3>1. f.rows \in Rows /\ Compared(f.at, f.rows)
      BY <1>3, <2>3, Sight
    <3>2. f \in RefBad[f.at][f.rows]
      BY <1>2, <2>1, <2>3, <3>1
    <3> QED BY <2>1, <2>2, <2>3, <3>1, <3>2 DEF Low
  <2>4. CASE f.at \in {"sum", "normed"}
    <3>1. buf["normed"] = Good("normed") /\ buf["qkv"] = Good("qkv")
      BY <2>1 DEF Settled
    <3>2. \E s \in Rows : f \in buf["normed"].bad[s]
      BY <2>4, <3>1 DEF Good, SumOf, Own, Typed, Fault, Rows
    <3>3. f \in buf["qkv"].bad["first4"]
      <4>1. Computes["qkv"] = {"normed"} /\ "qkv" \notin Elementwise /\ "first4" \in Rows
        BY Dataflow DEF Elementwise, Rows
      <4>2. f \in Direct("qkv", "first4")
        BY <3>2, <4>1 DEF Direct, All
      <4> QED BY <3>1, <4>1, <4>2 DEF Good
    <3>4. Compared("qkv", "first4") /\ "first4" \in Rows
      BY <1>3 DEF Compared, First4, Rows
    <3>5. f \in RefBad["qkv"]["first4"]
      BY <2>1, <3>3, <3>4
    <3> QED BY <2>1, <2>2, <3>4, <3>5 DEF Low
  <2> QED BY <1>3, <2>3, <2>4, Sight DEF Compared
<1>4. CASE target # "projection"
  <2>1. Recomputed(target)
             = {"conv", "conv_state", "q", "k", "beta", "gate", "gdn_out", "gdn_state",
                "gated_norm", "ssm_out", "residual", "ffn_normed", "ffn_mul", "ffn_down",
                "layer_out"}
    BY <1>1, <1>4, References
  <2>2. CASE f.at \in {"conv", "conv_state", "q", "k", "beta", "gate", "gdn_out",
                      "gdn_state", "gated_norm", "ssm_out", "residual"}
    <3>1. f.rows \in Rows /\ Compared(f.at, f.rows)
      BY <1>4, <2>2, Sight
    <3>2. Low(f.at, 7) /\ Step[f.at] \in 8 .. 14
      BY <1>4, <2>2, RefRank DEF Step
    <3>3. Step[f.at] <= Limit
      <4>1. CASE target = "front"
        <5>1. f.at \notin {"gated_norm", "ssm_out", "residual"}
          BY <3>1, <4>1 DEF Compared
        <5>2. Step[f.at] \in 8 .. 11
          BY <2>2, <5>1 DEF Step
        <5> QED BY <1>1, <1>4, <5>2
      <4>2. CASE target \in {"attention", "full"}
        <5>1. Limit \in {14, 22}
          BY <4>2 DEF Length
        <5> QED BY <3>2, <5>1
      <4> QED BY <1>1, <1>4, <4>1, <4>2 DEF AllTargets
    <3>4. f \in RefBad[f.at][f.rows]
      BY <1>2, <2>1, <2>2, <3>1, <3>3
    <3> QED BY <3>1, <3>2, <3>4 DEF Low
  <2>3. CASE f.at \in {"ffn_normed", "ffn_mul", "ffn_down", "layer_out"}
    <3>1. f.rows \in Rows /\ Compared(f.at, f.rows) /\ target = "full"
      BY <1>4, <2>3, Sight DEF Compared
    <3>2. /\ f.at = "ffn_normed" => Low(f.at, 14) /\ Step[f.at] = 17
          /\ f.at # "ffn_normed" => Low(f.at, 19) /\ Step[f.at] \in 20 .. 22
      BY <2>3, <3>1, RefRank DEF Step
    <3>3. f \in RefBad[f.at][f.rows]
      BY <1>1, <1>2, <2>1, <2>3, <3>1, <3>2
    <3> QED BY <3>1, <3>2, <3>3 DEF Low
  <2>4. CASE f.at = "ffn_sum"
    <3>1. target = "full"
      BY <1>4, <2>4, Sight, Names
    <3>2. buf["ffn_normed"] = Good("ffn_normed") /\ "ffn_normed" \in Recomputed(target)
      BY <1>1, <2>1, <3>1, Names DEF Settled, Step
    <3>3. f \in buf["ffn_normed"].bad["rest"] /\ "rest" \in Rows
      BY <2>4, <3>2 DEF Good, SumOf, Rows
    <3>4. Compared("ffn_normed", "rest")
      BY <3>1 DEF Compared
    <3>5. f \in RefBad["ffn_normed"]["rest"]
      BY <3>2, <3>3, <3>4
    <3>6. Step[f.at] = 16 /\ Low("ffn_normed", 14)
      BY <2>4, <3>1, RefRank DEF Step
    <3> QED BY <3>3, <3>5, <3>6 DEF Low
  <2> QED BY <1>4, <2>1, <2>2, <2>3, <2>4, Sight, Names DEF Compared
<1> QED BY <1>3, <1>4

-----------------------------------------------------------------------------
(* The comparisons.                                                        *)
LEMMA DiffersIs ==
  ASSUME Typed, Settled, Ranked, Limit = Length(target), "nan" \notin Kinds,
         NEW b, NEW rows, Checked(b, rows)
  PROVE  Differs(b, rows) <=> \E r \in rows : buf[b].bad[r] # RefBad[b][r]
<1>1. b \in Outputs /\ RefReads[b] = Computes[b] /\ Step[b] <= Limit
      /\ b \in Recomputed(target) /\ rows \subseteq Rows
  BY References, Names DEF Typed, AllTargets, Checked
<1>2. buf[b].from = RefReads[b]
  <2>1. buf[b] = Good(b)
    BY <1>1 DEF Settled
  <2>2. Good(b).from = Computes[b]
    BY DEF Good
  <2> QED BY <1>1, <2>1, <2>2
<1>3. ASSUME NEW r \in rows
      PROVE  ~HasNaN(buf[b].bad[r] \cup RefBad[b][r])
  <2>1. \A f \in buf[b].bad[r] : f \in faults
    BY <1>1 DEF Typed
  <2>2. \A f \in RefBad[b][r] : f \in faults
    <3>1. \E n \in Nat : Low(b, n)
      <4>1. CASE target = "projection"
        BY <1>1, <4>1, RefRank
      <4>2. CASE target # "projection" /\ Step[b] \in 1 .. 14
        <5>1. b \in {"conv", "conv_state", "q", "k", "beta", "gate", "gdn_out",
                    "gdn_state", "gated_norm", "ssm_out", "residual"}
          BY <1>1, <4>2, References DEF Typed, AllTargets, Step
        <5> QED BY <4>2, <5>1, RefRank
      <4>3. CASE target # "projection" /\ Step[b] \notin 1 .. 14
        <5>1. b \in {"ffn_normed", "ffn_mul", "ffn_down", "layer_out"}
          BY <1>1, <4>3, References DEF Typed, AllTargets, Step
        <5>2. target = "full"
          BY <1>1, <4>3, <5>1 DEF Typed, AllTargets, Length, Step
        <5> QED BY <5>1, <5>2, RefRank
      <4> QED BY <4>1, <4>2, <4>3
    <3> QED BY <1>1, <3>1 DEF Low
  <2>3. \A f \in faults : f.kind # "nan"
    BY DEF Typed, Fault
  <2> QED BY <2>1, <2>2, <2>3 DEF HasNaN
<1> QED BY <1>2, <1>3 DEF Differs

(* The verdict, one comparison after the other.                            *)
VInv == SInv /\ Agreed /\ VerdictIsExact

LEMMA VerdictStep ==
  ASSUME "nan" \notin Kinds, VInv, [Next]_vars
  PROVE  VInv'
<1>1. SInv /\ SInv' /\ Agreed /\ VerdictIsExact /\ (stage = "pass" => buf' = buf)
  BY StepInv DEF VInv
<1>2. Typed /\ Settled /\ Ranked /\ pc \in Nat \ {0}
  BY <1>1 DEF SInv, Typed
<1> DEFINE C == Comparisons(target)
<1>3. /\ Len(C) \in Nat \ {0} /\ DOMAIN C = 1 .. Len(C)
      /\ \A n \in 1 .. Len(C) : \A b \in DOMAIN C[n] : Checked(b, C[n][b])
      /\ \A b \in Outputs : \A r \in Rows :
           Compared(b, r) <=> \E n \in 1 .. Len(C) : b \in DOMAIN C[n] /\ r \in C[n][b]
  BY <1>2, ComparedIs
<1>4. Recomputed(target) \subseteq Outputs
  BY <1>2, References, Names DEF Typed, AllTargets
<1>5. CASE stage = "compare" /\ Compare
  <2>1. Limit = Length(target) /\ pc \in 1 .. Len(C) /\ UNCHANGED <<target, faults, buf>>
    BY <1>1, <1>5 DEF Limit, Agreed, Compare
  <2>2. \A f \in faults : InSight(f)' = InSight(f)
    BY <2>1 DEF InSight
  <2>3. CASE \E b \in DOMAIN C[pc] : Differs(b, C[pc][b])
    <3>1. stage' = "mismatch"
      BY <1>5, <2>3 DEF Compare
    <3>2. PICK b \in DOMAIN C[pc] : Differs(b, C[pc][b])
      BY <2>3
    <3>3. Checked(b, C[pc][b])
      BY <1>3, <2>1
    <3>4. PICK r \in C[pc][b] : buf[b].bad[r] # RefBad[b][r]
      BY <1>2, <2>1, <3>2, <3>3, DiffersIs
    <3>5. b \in Recomputed(target) /\ r \in Rows /\ Compared(b, r)
      BY <1>3, <1>4, <2>1, <3>3 DEF Checked
    <3>6. \E f \in faults : InSight(f)
      BY <1>2, <2>1, <3>4, <3>5, NothingInSightAgrees
    <3> QED BY <1>1, <2>1, <2>2, <3>1, <3>6 DEF VInv, Agreed, VerdictIsExact
  <2>4. CASE (\A b \in DOMAIN C[pc] : ~Differs(b, C[pc][b])) /\ pc = Len(C)
    <3>1. stage' = "pass" /\ pc' = 1
      BY <1>5, <2>4 DEF Compare
    <3>2. \A n \in 1 .. Len(C) : \A b \in DOMAIN C[n] : ~Differs(b, C[n][b])
      <4>1. \A n \in 1 .. Len(C) : n = pc \/ n < pc
        BY <1>3, <2>4
      <4> QED BY <1>1, <1>5, <2>4, <4>1 DEF Agreed
    <3>3. ASSUME NEW b \in Recomputed(target), NEW r \in Rows, Compared(b, r)
          PROVE  buf[b].bad[r] = RefBad[b][r]
      <4>1. PICK n \in 1 .. Len(C) : b \in DOMAIN C[n] /\ r \in C[n][b]
        BY <1>3, <1>4, <3>3
      <4>2. Checked(b, C[n][b]) /\ ~Differs(b, C[n][b])
        BY <1>3, <3>2, <4>1
      <4> QED BY <1>2, <2>1, <4>1, <4>2, DiffersIs
    <3>4. \A f \in faults : ~InSight(f)
      BY <1>2, <2>1, <3>3, AgreementShowsNothing
    <3>5. VerdictIsExact'
      BY <2>1, <2>2, <3>1, <3>4 DEF VerdictIsExact
    <3>6. Agreed'
      <4>1. C' = C /\ \A n \in 1 .. Len(C) : \A b \in DOMAIN C[n] :
                       Differs(b, C[n][b])' = Differs(b, C[n][b])
        BY <2>1 DEF Differs, RefBad
      <4> QED BY <3>1, <3>2, <4>1 DEF Agreed
    <3> QED BY <1>1, <3>5, <3>6 DEF VInv
  <2>5. CASE (\A b \in DOMAIN C[pc] : ~Differs(b, C[pc][b])) /\ pc # Len(C)
    <3>1. stage' = "compare" /\ pc' = pc + 1
      BY <1>5, <2>5 DEF Compare
    <3>2. \A n \in 1 .. Len(C) : n < pc + 1 => \A b \in DOMAIN C[n] : ~Differs(b, C[n][b])
      <4>1. \A n \in 1 .. Len(C) : n < pc + 1 => n = pc \/ n < pc
        BY <1>3, <2>1
      <4> QED BY <1>1, <1>5, <2>5, <4>1 DEF Agreed
    <3>3. C' = C /\ \A n \in 1 .. Len(C) : \A b \in DOMAIN C[n] :
                     Differs(b, C[n][b])' = Differs(b, C[n][b])
      BY <2>1 DEF Differs, RefBad
    <3>4. pc + 1 \in 1 .. Len(C)
      <4> DEFINE k == Len(C)
      <4>1. k \in Nat /\ pc \in 1 .. k /\ pc # k
        BY <1>3, <2>1, <2>5
      <4> HIDE DEF k
      <4>2. pc + 1 \in 1 .. k
        BY <4>1
      <4> QED BY <4>2 DEF k
    <3>5. Agreed'
      BY <3>1, <3>2, <3>3, <3>4 DEF Agreed
    <3> QED BY <1>1, <3>1, <3>5 DEF VInv, VerdictIsExact
  <2> QED BY <2>3, <2>4, <2>5
<1>6. CASE ReadBack
  <2>1. stage' = "compare" /\ pc' = 1 /\ target' = target
    BY <1>6 DEF ReadBack
  <2>2. Agreed'
    <3>1. C' = C
      BY <2>1
    <3> QED BY <1>3, <2>1, <3>1 DEF Agreed
  <2> QED BY <1>1, <2>1, <2>2 DEF VInv, VerdictIsExact
<1>7. CASE stage' = stage /\ target' = target /\ faults' = faults
           /\ (stage = "compare" => pc' = pc) /\ (stage # "chain" => buf' = buf)
  <2>1. VerdictIsExact'
    <3>1. \A f \in faults : InSight(f)' = InSight(f)
      BY <1>7 DEF InSight
    <3> QED BY <1>1, <1>7, <3>1 DEF VerdictIsExact
  <2>2. Agreed'
    <3> SUFFICES ASSUME stage \in {"compare", "pass"} PROVE Agreed'
      BY <1>7 DEF Agreed
    <3>1. target' = target /\ buf' = buf
      BY <1>7
    <3>2. C' = C /\ \A n \in 1 .. Len(C) : \A b \in DOMAIN C[n] :
                     Differs(b, C[n][b])' = Differs(b, C[n][b])
      BY <3>1 DEF Differs, RefBad
    <3> QED BY <1>1, <1>7, <3>2 DEF Agreed
  <2> QED BY <1>1, <2>1, <2>2 DEF VInv
<1>8. Next \/ UNCHANGED vars =>
        \/ stage = "compare" /\ Compare
        \/ ReadBack
        \/ /\ stage' = stage /\ target' = target /\ faults' = faults
           /\ (stage = "compare" => pc' = pc) /\ (stage # "chain" => buf' = buf)
  BY <1>1 DEF Next, Clear, Accumulate, Kernel, Launching, Compare, vars
<1> QED BY <1>5, <1>6, <1>7, <1>8

(* Whatever else is wrong, a wrong value in a compared row is reported,    *)
(* and nothing else is: for any number of faults, as long as none of them  *)
(* leaves NaNs, which both the maxima and the tests ignore.                *)
THEOREM VerdictIsExactHolds ==
  ASSUME "nan" \notin Kinds
  PROVE  Spec => []VerdictIsExact
<1>1. Init => VInv
  BY InitInv DEF Init, VInv, Agreed, VerdictIsExact
<1>2. VInv /\ [Next]_vars => VInv'
  BY VerdictStep
<1>3. VInv => VerdictIsExact
  BY DEF VInv
<1> QED BY <1>1, <1>2, <1>3, PTL DEF Spec

=============================================================================
