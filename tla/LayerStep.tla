------------------------------ MODULE LayerStep ------------------------------
(***************************************************************************)
(* One token through layer 0: the launches of run_qwen35_layer0_full       *)
(* (src/driver.cpp), kernel by kernel and block by block, against the CPU  *)
(* references of the same function.                                        *)
(*                                                                         *)
(* Numbers are residues modulo a prime: sums, products and the division by *)
(* a count are those of a field, so the order of additions does not matter *)
(* and every other difference of two computations shows.  exp, the sigmoid *)
(* and the inverse square root are fixed functions without structure.  A   *)
(* weight matrix is applied in one step: WarpGemv has its kernels, and     *)
(* CtaReduce the sum inside a block of the norms.  The kernels run 32      *)
(* lanes, 128 elements to a head, 16 and 48 heads; the shape is kept and   *)
(* the sizes are parameters.  No kernel reads what it writes except for    *)
(* the sum of squares, so a block is one step, in any order of the blocks. *)
(***************************************************************************)
EXTENDS Integers, FiniteSetsExt, SequencesExt

CONSTANTS
  Lanes,        \* of a warp: a power of two
  QkHeads, ValueHeads,
  Hidden,       \* kCols
  FfnDim,
  CtaThreads,   \* of the elementwise kernels: 256
  Seeds, Prime  \* the numbers of a run, and their modulus

HeadDim  == 4 * Lanes
KeyDim   == QkHeads * HeadDim
ValueDim == ValueHeads * HeadDim
Channels == 2 * KeyDim + ValueDim

VARIABLES
  seed,   \* the weights and the activations of this run
  queue,  \* the launches of the stream that have not ended
  todo,   \* the blocks of the first of them that have not run
  mem     \* buffer -> element -> number

vars == <<seed, queue, todo, mem>>
-----------------------------------------------------------------------------
M(x) == x % Prime

Exp(x)       == M(M(x * x) * x + 5 * x + 2)
Sigmoid(x)   == M(M(x * x) * (x + 11) + 7)
Rsqrt(x)     == M(M(x * x) * (x + 3) + x)
Softplus(x)  == M(M(x * x) * (x + 29) + 13 * x)
SiLU(x)      == M(x * Sigmoid(x))
Divide(x, n) == CHOOSE q \in 0 .. Prime - 1 : M(q * n) = x
Eps          == 1
Scale        == 19     \* 1 / sqrt(HeadDim)

Sum(n, V(_)) == M(MapThenSumSet(LAMBDA i : M(V(i)), 0 .. n - 1))

(* The inputs: no two buffers, and no two places of one, are related.      *)
Draw(b, i) == M(M(i * i) * (7 + b) + i * (31 + seed) + 57 * seed + 101 * b)

Times(b, x, rows) ==
  [r \in 0 .. rows - 1 |->
     Sum(Cardinality(DOMAIN x), LAMBDA c : Draw(b, r * 13 + c * 37 + r * c) * x[c])]

hidden(i)        == Draw(1, i)
norm_w           == [i \in 0 .. Hidden - 1 |-> Draw(2, i)]
post_norm_w      == [i \in 0 .. Hidden - 1 |-> Draw(3, i)]
conv_w(i)        == Draw(4, i)
dt_bias(h)       == Draw(5, h)
ssm_a(h)         == Draw(6, h)
ssm_norm_w       == [e \in 0 .. HeadDim - 1 |-> Draw(7, e)]
conv_state_in(i) == Draw(8, i)
gdn_state_in(i)  == Draw(9, i)

qkv_w == 10  z_w == 11  beta_w == 12  alpha_w == 13  ssm_out_w == 14
ffn_gate_w == 15  ffn_up_w == 16  ffn_down_w == 17

Sizes ==
  [hidden |-> Hidden, sumsq |-> 1, normed |-> Hidden, qkv |-> Channels,
   z |-> ValueDim, beta_raw |-> ValueHeads, alpha_raw |-> ValueHeads,
   conv |-> Channels, conv_state |-> 3 * Channels, q |-> KeyDim, k |-> KeyDim,
   beta |-> ValueHeads, gate |-> ValueHeads, gdn_out |-> ValueDim,
   gdn_state |-> ValueHeads * HeadDim * HeadDim, gated_norm |-> ValueDim,
   ssm_out |-> Hidden, residual |-> Hidden, ffn_normed |-> Hidden,
   ffn_gate |-> FfnDim, ffn_up |-> FfnDim, ffn_mul |-> FfnDim,
   ffn_down |-> Hidden, layer_out |-> Hidden]
-----------------------------------------------------------------------------
(* A block stores a run of elements; one past the end makes the buffer     *)
(* longer than it is.                                                      *)
Stored(buf, from, n, V(_)) ==
  [i \in 0 .. Max({Cardinality(DOMAIN buf), from + n}) - 1 |->
     IF i \in from .. from + n - 1 THEN V(i) ELSE buf[i]]

(* The elementwise kernels: thread t of block c has element 256c + t; those*)
(* past the end return.                                                    *)
First(c)     == c * CtaThreads
Count(c, n)  == IF n - First(c) < CtaThreads THEN n - First(c) ELSE CtaThreads
Grid(n)      == (n + CtaThreads - 1) \div CtaThreads

Elementwise(c, y, n, V(_)) == [mem EXCEPT ![y] = Stored(@, First(c), Count(c, n), V)]

sumsq(c, x) ==
  LET square(t) == mem[x][First(c) + t] * mem[x][First(c) + t] IN
  [mem EXCEPT !.sumsq[0] = M(@ + Sum(Count(c, Hidden), square))]

rmsnorm_apply(c, x, w, y) ==
  LET inv == Rsqrt(M(Divide(mem.sumsq[0], Hidden) + Eps)) IN
  Elementwise(c, y, Hidden, LAMBDA i : M(M(mem[x][i] * inv) * w[i]))

add_residual(c, x, residual, y) ==
  Elementwise(c, y, Hidden, LAMBDA i : M(mem[x][i] + mem[residual][i]))

ffn_silu_mul(c) ==
  Elementwise(c, "ffn_mul", FfnDim,
              LAMBDA i : M(SiLU(mem.ffn_gate[i]) * mem.ffn_up[i]))

(* Three steps of state, one row of channels each, then the new input; the *)
(* weights of a channel are together.                                      *)
conv4_silu_roll(c) ==
  LET n    == Count(c, Channels)
      x(s, i) == IF s = 3 THEN mem.qkv[i] ELSE conv_state_in(s * Channels + i)
      raw(i)  == Sum(4, LAMBDA s : x(s, i) * conv_w(4 * i + s))
      roll(buf, s) == Stored(buf, s * Channels + First(c), n,
                             LAMBDA i : x(s + 1, i - s * Channels))
  IN  [mem EXCEPT !.conv = Stored(@, First(c), n, LAMBDA i : SiLU(raw(i))),
                  !.conv_state = roll(roll(roll(@, 0), 1), 2)]

(* A block to each head of q, then one to each head of k, which come one   *)
(* after the other in the convolved channels and go to two buffers.        *)
qk_l2norm_128(c) ==
  LET isQ  == c < QkHeads
      head == IF isQ THEN c ELSE c - QkHeads
      from == head * HeadDim
      src(i) == mem.conv[IF isQ THEN i ELSE i + KeyDim]
      inv  == Rsqrt(M(Sum(HeadDim, LAMBDA e : src(from + e) * src(from + e)) + Eps))
  IN  [mem EXCEPT ![IF isQ THEN "q" ELSE "k"] =
         Stored(@, from, HeadDim, LAMBDA i : M(src(i) * inv))]

beta_gate_48 ==
  [mem EXCEPT
     !.beta = Stored(@, 0, ValueHeads, LAMBDA h : Sigmoid(mem.beta_raw[h])),
     !.gate = Stored(@, 0, ValueHeads,
                     LAMBDA h : M(Softplus(M(mem.alpha_raw[h] + dt_bias(h))) * ssm_a(h)))]
-----------------------------------------------------------------------------
(* gdn_ar_128: a block to four columns of the state of a head, a warp to   *)
(* one.  A lane has the rows lane + {0, 32, 64, 96} and adds its part of a *)
(* dot product to that of the other lanes by a butterfly.                  *)
LaneIds == 0 .. Lanes - 1

Partner(lane, mask) == IF (lane \div mask) % 2 = 0 THEN lane + mask ELSE lane - mask

Masks == SelectSeq(<<16, 8, 4, 2, 1>>, LAMBDA mask : mask < Lanes)

Butterfly(part) ==
  FoldLeft(LAMBDA p, mask : [l \in LaneIds |-> M(p[l] + p[Partner(l, mask)])], part, Masks)

(* Mutant: the heads of a group are next to each other.                    *)
QkHead_Grouped(head) == (head * QkHeads) \div ValueHeads

QkHead(head) == head % QkHeads

Warp(head, col) ==
  LET row(lane, r) == lane + r * Lanes
      s(lane, r) == gdn_state_in((head * HeadDim + col) * HeadDim + row(lane, r))
      q(lane, r) == mem.q[QkHead(head) * HeadDim + row(lane, r)]
      k(lane, r) == mem.k[QkHead(head) * HeadDim + row(lane, r)]
      v     == mem.conv[2 * KeyDim + head * HeadDim + col]
      decay == Exp(mem.gate[head])
      kv    == Butterfly([l \in LaneIds |-> Sum(4, LAMBDA r : s(l, r) * k(l, r))])
      delta == [l \in LaneIds |-> M((v - M(decay * kv[l])) * mem.beta[head])]
      new   == [l \in LaneIds |-> [r \in 0 .. 3 |-> M(decay * s(l, r) + k(l, r) * delta[l])]]
      attn  == Butterfly([l \in LaneIds |-> Sum(4, LAMBDA r : new[l][r] * q(l, r))])
  IN  [state |-> [i \in 0 .. HeadDim - 1 |-> new[i % Lanes][i \div Lanes]],
       out   |-> M(attn[0] * Scale)]

Tiles == (HeadDim + 3) \div 4

gdn_ar_128(head, tile) ==
  LET cols == {col \in 4 * tile .. 4 * tile + 3 : col < HeadDim}
      warp == [col \in cols |-> Warp(head, col)]
      from == head * HeadDim + 4 * tile
  IN  [mem EXCEPT
         !.gdn_state = Stored(@, from * HeadDim, 4 * HeadDim,
           LAMBDA i : warp[(i \div HeadDim) - head * HeadDim].state[i % HeadDim]),
         !.gdn_out = Stored(@, from, 4, LAMBDA i : warp[i - head * HeadDim].out)]

gated_rmsnorm_silu_128(head) ==
  LET from == head * HeadDim
      x(i) == mem.gdn_out[i]
      inv  == Rsqrt(M(Divide(Sum(HeadDim, LAMBDA e : x(from + e) * x(from + e)), HeadDim)
                      + Eps))
  IN  [mem EXCEPT !.gated_norm = Stored(@, from, HeadDim,
         LAMBDA i : M(M(M(x(i) * inv) * ssm_norm_w[i - from]) * SiLU(mem.z[i])))]

-----------------------------------------------------------------------------
(* The stream: the chain of run_qwen35_layer0_full, a launch after the     *)
(* other, each on the buffers its parameter array names.                   *)
LaunchChain ==
  <<"clear", "sum", "normed", "qkv", "z", "beta_raw", "alpha_raw",
    "conv", "qk", "gate", "gdn", "gated_norm", "ssm_out", "residual",
    "clear", "ffn_sum", "ffn_normed", "ffn_gate", "ffn_up", "ffn_mul",
    "ffn_down", "layer_out">>

Blocks(l) ==
  CASE l \in {"sum", "normed", "residual", "ffn_sum", "ffn_normed", "layer_out"}
                          -> 0 .. Grid(Hidden) - 1
    [] l = "conv"         -> 0 .. Grid(Channels) - 1
    [] l = "ffn_mul"      -> 0 .. Grid(FfnDim) - 1
    [] l = "qk"           -> 0 .. 2 * QkHeads - 1
    [] l = "gdn"          -> (0 .. ValueHeads - 1) \X (0 .. Tiles - 1)
    [] l = "gated_norm"   -> 0 .. ValueHeads - 1
    [] OTHER              -> {0}

Projected(y, w, x) == [mem EXCEPT ![y] = Times(w, mem[x], Sizes[y])]

Launched(l, c) ==
  CASE l = "clear"        -> [mem EXCEPT !.sumsq[0] = 0]
    [] l = "sum"          -> sumsq(c, "hidden")
    [] l = "normed"       -> rmsnorm_apply(c, "hidden", norm_w, "normed")
    [] l = "qkv"          -> Projected("qkv", qkv_w, "normed")
    [] l = "z"            -> Projected("z", z_w, "normed")
    [] l = "beta_raw"     -> Projected("beta_raw", beta_w, "normed")
    [] l = "alpha_raw"    -> Projected("alpha_raw", alpha_w, "normed")
    [] l = "conv"         -> conv4_silu_roll(c)
    [] l = "qk"           -> qk_l2norm_128(c)
    [] l = "gate"         -> beta_gate_48
    [] l = "gdn"          -> gdn_ar_128(c[1], c[2])
    [] l = "gated_norm"   -> gated_rmsnorm_silu_128(c)
    [] l = "ssm_out"      -> Projected("ssm_out", ssm_out_w, "gated_norm")
    [] l = "residual"     -> add_residual(c, "ssm_out", "hidden", "residual")
    [] l = "ffn_sum"      -> sumsq(c, "residual")
    [] l = "ffn_normed"   -> rmsnorm_apply(c, "residual", post_norm_w, "ffn_normed")
    [] l = "ffn_gate"     -> Projected("ffn_gate", ffn_gate_w, "ffn_normed")
    [] l = "ffn_up"       -> Projected("ffn_up", ffn_up_w, "ffn_normed")
    [] l = "ffn_mul"      -> ffn_silu_mul(c)
    [] l = "ffn_down"     -> Projected("ffn_down", ffn_down_w, "ffn_mul")
    [] l = "layer_out"    -> add_residual(c, "ffn_down", "residual", "layer_out")

Input == [i \in 0 .. Hidden - 1 |-> hidden(i)]

(* The workspace is not cleared.                                           *)
Garbage(b) == [i \in 0 .. Sizes[b] - 1 |-> M(29 * i + 5)]

Init ==
  /\ seed \in Seeds
  /\ queue = LaunchChain /\ todo = Blocks("clear")
  /\ mem = [b \in DOMAIN Sizes |-> IF b = "hidden" THEN Input ELSE Garbage(b)]

Block ==
  /\ \E c \in todo :
       /\ mem' = Launched(Head(queue), c)
       /\ IF todo # {c} THEN todo' = todo \ {c} /\ UNCHANGED queue
          ELSE /\ queue' = Tail(queue)
               /\ todo' = IF queue' = << >> THEN {} ELSE Blocks(Head(queue'))
  /\ UNCHANGED seed

Done == queue = << >> /\ UNCHANGED vars

Next == Block \/ Done

Spec == Init /\ [][Next]_vars
-----------------------------------------------------------------------------
(* The CPU references, each on the buffers that its stage reads.           *)
RmsNorm(x, w, n) ==
  LET inv == Rsqrt(M(Divide(Sum(n, LAMBDA i : x[i] * x[i]), n) + Eps))
  IN  [i \in 0 .. n - 1 |-> M(M(x[i] * inv) * w[i])]

ConvRef(qkv) ==
  [ch \in 0 .. Channels - 1 |->
     SiLU(M(conv_state_in(ch) * conv_w(4 * ch)
            + conv_state_in(Channels + ch) * conv_w(4 * ch + 1)
            + conv_state_in(2 * Channels + ch) * conv_w(4 * ch + 2)
            + qkv[ch] * conv_w(4 * ch + 3)))]

ConvStateRef(qkv) ==
  [i \in 0 .. 3 * Channels - 1 |->
     IF i < 2 * Channels THEN conv_state_in(i + Channels) ELSE qkv[i - 2 * Channels]]

UnitRef(conv, base) ==
  [i \in 0 .. KeyDim - 1 |->
     LET h == base + (i \div HeadDim) * HeadDim
     IN  M(conv[base + i] * Rsqrt(M(Sum(HeadDim, LAMBDA e : conv[h + e] * conv[h + e]) + Eps)))]

GdnRef(q, k, conv, gate, beta) ==
  LET kv(h, col) ==
        Sum(HeadDim, LAMBDA i : gdn_state_in((h * HeadDim + col) * HeadDim + i)
                                * k[(h % QkHeads) * HeadDim + i])
      delta == [h \in 0 .. ValueHeads - 1 |-> [col \in 0 .. HeadDim - 1 |->
        M(M(conv[2 * KeyDim + h * HeadDim + col] - M(Exp(gate[h]) * kv(h, col))) * beta[h])]]
      updated == [n \in 0 .. Sizes.gdn_state - 1 |->
        LET h == n \div (HeadDim * HeadDim)
        IN  M(Exp(gate[h]) * gdn_state_in(n)
              + k[(h % QkHeads) * HeadDim + (n % HeadDim)]
                * delta[h][(n \div HeadDim) % HeadDim])]
  IN  [state |-> updated,
       out   |-> [n \in 0 .. ValueDim - 1 |->
         M(Scale * Sum(HeadDim, LAMBDA i : updated[n * HeadDim + i]
                         * q[((n \div HeadDim) % QkHeads) * HeadDim + i]))]]

GatedNormRef(gdn_out, z) ==
  [n \in 0 .. ValueDim - 1 |->
     LET h == [i \in 0 .. HeadDim - 1 |-> gdn_out[(n \div HeadDim) * HeadDim + i]]
     IN  M(RmsNorm(h, ssm_norm_w, HeadDim)[n % HeadDim] * SiLU(z[n]))]

Added(x, y) == [i \in DOMAIN x |-> M(x[i] + y[i])]

Reference ==
  LET gdn == GdnRef(mem.q, mem.k, mem.conv, mem.gate, mem.beta) IN
  [hidden     |-> Input,
   normed     |-> RmsNorm(Input, norm_w, Hidden),
   qkv        |-> Times(qkv_w, mem.normed, Channels),
   z          |-> Times(z_w, mem.normed, ValueDim),
   beta_raw   |-> Times(beta_w, mem.normed, ValueHeads),
   alpha_raw  |-> Times(alpha_w, mem.normed, ValueHeads),
   conv       |-> ConvRef(mem.qkv),
   conv_state |-> ConvStateRef(mem.qkv),
   q          |-> UnitRef(mem.conv, 0),
   k          |-> UnitRef(mem.conv, KeyDim),
   beta       |-> [h \in 0 .. ValueHeads - 1 |-> Sigmoid(mem.beta_raw[h])],
   gate       |-> [h \in 0 .. ValueHeads - 1 |->
                     M(Softplus(M(mem.alpha_raw[h] + dt_bias(h))) * ssm_a(h))],
   gdn_out    |-> gdn.out,
   gdn_state  |-> gdn.state,
   gated_norm |-> GatedNormRef(mem.gdn_out, mem.z),
   ssm_out    |-> Times(ssm_out_w, mem.gated_norm, Hidden),
   residual   |-> Added(mem.ssm_out, Input),
   ffn_normed |-> RmsNorm(mem.residual, post_norm_w, Hidden),
   ffn_gate   |-> Times(ffn_gate_w, mem.ffn_normed, FfnDim),
   ffn_up     |-> Times(ffn_up_w, mem.ffn_normed, FfnDim),
   ffn_mul    |-> [i \in 0 .. FfnDim - 1 |-> M(SiLU(mem.ffn_gate[i]) * mem.ffn_up[i])],
   ffn_down   |-> Times(ffn_down_w, mem.ffn_mul, Hidden),
   layer_out  |-> Added(mem.ffn_down, mem.residual)]

(* Whatever the order of the blocks of each launch, the chain leaves every *)
(* buffer as its reference computes it from the buffers before it, hence   *)
(* the output of the layer and both new states from the inputs: each       *)
(* element, and none outside.  run_qwen35_layer0_full compares some stages *)
(* in eight rows, for one input; that a value head uses the q and k of the *)
(* right head, that the state keeps its layout, that no stage overwrites   *)
(* what a later one reads and that the second norm divides by its own sum  *)
(* show here.                                                              *)
LayerIsTheReference ==
  queue = << >> => \A b \in DOMAIN Reference : mem[b] = Reference[b]
==============================================================================
