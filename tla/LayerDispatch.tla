--------------------------- MODULE LayerDispatch ----------------------------
(***************************************************************************)
(* From the tensor records of a pack to what is copied to the GPU          *)
(* (src/runtime.cpp: the run_* functions; the guards and the uploads of    *)
(* the driver functions they call; src/layer_topology.cpp).                *)
(*                                                                         *)
(* Five functions and the topology program each have their own copy of     *)
(* which tensors a layer needs, in which type and layout, and of what      *)
(* shape.  Nothing compares the bytes they copy with the bytes a record    *)
(* says are stored: the shapes have to imply it.  The packs are those the  *)
(* converter makes, version 1 or 2, of models of three widths in which     *)
(* some tensor is missing, of another type or of another shape.  Sizes and *)
(* offsets are the real ones.                                              *)
(***************************************************************************)
EXTENDS Integers, Sequences

CONSTANTS
  Layers,      \* the layers of the pack, 0 among them
  Widths,      \* the hidden sizes of the models
  Versions,    \* of the pack
  Paired       \* the tensors that may differ from the model's in pairs

VARIABLES
  pack,   \* layer -> tensor name -> record
  last    \* the last call: program, layer, driver, outcome and copies

vars == <<pack, last>>

Shape(width) ==
  [attn_norm |-> <<width>>, attn_qkv |-> <<width, 10240>>,
   attn_gate |-> <<width, 6144>>, ssm_beta |-> <<width, 48>>,
   ssm_alpha |-> <<width, 48>>, ssm_conv1d |-> <<4, 10240>>,
   ssm_dt |-> <<48>>, ssm_a |-> <<48>>, ssm_norm |-> <<128>>,
   ssm_out |-> <<6144, width>>, post_attention_norm |-> <<width>>,
   ffn_gate |-> <<width, 17408>>, ffn_up |-> <<width, 17408>>,
   ffn_down |-> <<17408, width>>]

Names    == DOMAIN Shape(0)
AllNames == Names \cup {"attn_q"}  \* for attn_q, attn_k, attn_v, attn_output

ASSUME ConstantsAssumption ==
  /\ Layers \subseteq Nat /\ 0 \in Layers
  /\ Widths \subseteq Nat
  /\ Versions \subseteq Nat
  /\ Paired \subseteq Names

(* The types of the retained model, and the elements and bytes of a block. *)
Type ==
  [attn_norm |-> "F32", attn_qkv |-> "Q5_K", attn_gate |-> "Q5_K",
   ssm_beta |-> "Q4_K", ssm_alpha |-> "Q4_K", ssm_conv1d |-> "F32",
   ssm_dt |-> "F32", ssm_a |-> "F32", ssm_norm |-> "F32",
   ssm_out |-> "Q5_K", post_attention_norm |-> "F32",
   ffn_gate |-> "IQ4_XS", ffn_up |-> "Q5_K", ffn_down |-> "Q5_K"]

Elements == [F32 |-> 1, Q4_K |-> 256, Q5_K |-> 256, Q6_K |-> 256, IQ4_XS |-> 256]
Bytes    == [F32 |-> 4, Q4_K |-> 144, Q5_K |-> 176, Q6_K |-> 210, IQ4_XS |-> 136]

align_up(x, a) == ((x + a - 1) \div a) * a

-----------------------------------------------------------------------------
(* The record the converter writes for a tensor: dimensions padded with    *)
(* zeros; a Q5_K tensor of a version 2 pack in three planes.  The place of *)
(* a tensor, here one per layer, is a multiple of the pack's alignment.    *)
PlaneAlignment == 128
GgufAlignment  == 32
Alignment      == 256
Start(l)       == (l + 1) * Alignment

(* A tensor has at most four dimensions.                                   *)
Dimension(dims, k) == IF k <= Len(dims) THEN dims[k] ELSE 1

Product(dims) ==
  Dimension(dims, 1) * Dimension(dims, 2) * Dimension(dims, 3) * Dimension(dims, 4)

Record(l, type, dims, version) ==
  LET blocks == Product(dims) \div Elements[type]
      qh     == align_up(Start(l) + blocks * 20, PlaneAlignment)
      qs     == align_up(qh + blocks * 32, PlaneAlignment)
      soa    == type = "Q5_K" /\ version >= 2
  IN  [type |-> type, layout |-> IF soa THEN "SM86_Q5K_SOA" ELSE "GGUF_NATIVE",
       ndim |-> Len(dims),
       dims |-> [k \in 1..4 |-> IF k <= Len(dims) THEN dims[k] ELSE 0],
       data_offset  |-> Start(l),
       stored_bytes |-> IF soa THEN qs + blocks * 128 - Start(l)
                        ELSE align_up(blocks * Bytes[type], GgufAlignment),
       aux0_offset  |-> IF soa THEN qh ELSE 0,
       aux1_offset  |-> IF soa THEN qs ELSE 0]

(* What a layer of the source may have instead of the model's tensors: a   *)
(* tensor less, of another type or of another shape.                       *)
Missing == [type |-> "missing", dims |-> << >>]

OtherShapes(dims) ==
  LET n == Len(dims) IN
  {[dims EXCEPT ![n] = @ \div 2], [dims EXCEPT ![n] = @ * 2],
   Append(dims, 1), Append(dims, 2)}
  \cup (IF n = 1 THEN {} ELSE {<<dims[2], dims[1]>>, <<dims[1] * dims[2]>>})

OtherTypes(name) ==
  IF Type[name] = "F32" THEN {} ELSE {"Q4_K", "Q5_K", "Q6_K", "IQ4_XS"}

Model(width) ==
  [n \in AllNames |->
     IF n = "attn_q" THEN Missing
     ELSE [type |-> Type[n], dims |-> Shape(width)[n]]]

Alternatives(name, width) ==
  LET dims == Shape(width)[name] IN
  {[type |-> t, dims |-> dims] : t \in OtherTypes(name) \ {Type[name]}}
  \cup {[type |-> Type[name], dims |-> d] : d \in OtherShapes(dims)}
  \cup {Missing}

FullAttention(width) ==
  [n \in AllNames |->
     IF n = "attn_q" THEN [type |-> "Q5_K", dims |-> <<width, 12288>>]
     ELSE IF n \in {"attn_norm", "post_attention_norm", "ffn_gate", "ffn_up", "ffn_down"}
     THEN Model(width)[n] ELSE Missing]

Singles(width) ==
  UNION {{[Model(width) EXCEPT ![n] = a] : a \in Alternatives(n, width)}
         : n \in Names}

Doubles(width) ==
  UNION {{[Model(width) EXCEPT ![n[1]] = a, ![n[2]] = b] :
            a \in Alternatives(n[1], width), b \in Alternatives(n[2], width)}
         : n \in {m \in Paired \X Paired : m[1] # m[2]}}

Sources(width) ==
  {Model(width), FullAttention(width)} \cup Singles(width) \cup Doubles(width)

Converted(l, source, version) ==
  [n \in AllNames |-> IF source[n] = Missing THEN Missing
                      ELSE Record(l, source[n].type, source[n].dims, version)]

(* q5_block_count() refuses a tensor that is not in whole blocks.          *)
Convertible(source) ==
  \A n \in AllNames : source[n] # Missing =>
    Product(source[n].dims) % Elements[source[n].type] = 0

Has(layer, name) == layer[name] # Missing

-----------------------------------------------------------------------------
(* runtime.cpp.                                                            *)
Kind(layer) ==
  CASE Has(layer, "ssm_conv1d") -> "RECURRENT"
    [] ~Has(layer, "ssm_conv1d") /\ Has(layer, "attn_q") -> "FULL_ATTENTION"
    [] OTHER                    -> "MISSING"

select_projection_kernel(t) ==
  CASE t.type = "F32" /\ t.layout = "GGUF_NATIVE"    -> "F32_DIRECT"
    [] t.type = "Q4_K" /\ t.layout = "GGUF_NATIVE"   -> "Q4K_NATIVE"
    [] t.type = "Q5_K" /\ t.layout = "SM86_Q5K_SOA"  -> "Q5K_SM86_VEC"
    [] t.type = "Q6_K" /\ t.layout = "GGUF_NATIVE"   -> "Q6K_NATIVE_VEC"
    [] t.type = "IQ4_XS" /\ t.layout = "GGUF_NATIVE" -> "IQ4XS_PRMT"
    [] OTHER                                         -> "UNSUPPORTED"

(* The kernels the functions of the runtime ask for.                       *)
Kernels ==
  [attn_norm |-> "F32_DIRECT", attn_qkv |-> "Q5K_SM86_VEC",
   attn_gate |-> "Q5K_SM86_VEC", ssm_beta |-> "Q4K_NATIVE",
   ssm_alpha |-> "Q4K_NATIVE", ssm_out |-> "Q5K_SM86_VEC",
   post_attention_norm |-> "F32_DIRECT", ffn_gate |-> "IQ4XS_PRMT",
   ffn_up |-> "Q5K_SM86_VEC", ffn_down |-> "Q5K_SM86_VEC"]

Plain == {"ssm_conv1d", "ssm_dt", "ssm_a", "ssm_norm"}

Projections == {"attn_norm", "attn_qkv", "attn_gate", "ssm_beta", "ssm_alpha"}
Front       == Projections \cup {"ssm_conv1d", "ssm_dt", "ssm_a"}
Attention   == Front \cup {"ssm_norm", "ssm_out"}

Needs ==
  [projection_pack |-> Projections, recurrent_front |-> Front,
   recurrent_attention |-> Attention, layer0_full |-> Names,
   recurrent_layer |-> Names]

Programs == DOMAIN Needs

(* The functions that look at the number of dimensions, and where.         *)
Ranked ==
  [projection_pack |-> Projections,
   recurrent_front |-> Projections \cup {"ssm_conv1d"},
   recurrent_attention |-> Projections \cup {"ssm_conv1d", "ssm_out"},
   layer0_full |-> {}, recurrent_layer |-> {}]

(* Mutant: the norm's check is copied from the matrices.                   *)
RankIsRight_AllMatrices(f, layer) == \A n \in Ranked[f] : layer[n].ndim >= 2

RankIsRight(f, layer) ==
  \A n \in Ranked[f] : IF n = "attn_norm" THEN layer[n].ndim = 1
                       ELSE layer[n].ndim >= 2

KernelsAreRight(f, layer) ==
  /\ \A n \in Needs[f] \ Plain :
        select_projection_kernel(layer[n]) = Kernels[n]
  /\ \A n \in Needs[f] \cap Plain :
        layer[n].type = "F32" /\ layer[n].layout = "GGUF_NATIVE"

(* The first of the functions takes its sizes from the pack, the others    *)
(* are for one model.                                                      *)
ShapesAreRight(f, layer) ==
  IF f = "projection_pack"
  THEN /\ layer.attn_norm.dims[1] # 0
       /\ \A n \in Projections : layer[n].dims[1] = layer.attn_norm.dims[1]
       /\ layer.ssm_beta.dims[2] = layer.ssm_alpha.dims[2]
  ELSE \A n \in Needs[f] : LET want == Shape(5120)[n] IN
         \A k \in DOMAIN want : layer[n].dims[k] = want[k]

-----------------------------------------------------------------------------
(* The driver: the sizes it works with, its guards, and how many bytes it  *)
(* copies from the start of each tensor.                                   *)
Dims(f, layer, n) ==
  IF f # "projection_pack" THEN Shape(5120)[n]
  ELSE IF n = "attn_norm" THEN <<layer.attn_norm.dims[1]>>
  ELSE IF n = "ssm_alpha" THEN <<layer.attn_norm.dims[1], layer.ssm_beta.dims[2]>>
  ELSE <<layer.attn_norm.dims[1], layer[n].dims[2]>>

Blocks(f, layer, n) ==
  LET d == Dims(f, layer, n) IN d[2] * (d[1] \div 256)

QhOffset(t) == t.aux0_offset - t.data_offset

QsOffset(t) == t.aux1_offset - t.data_offset

InPlanes(n) == n \in DOMAIN Kernels /\ Kernels[n] = "Q5K_SM86_VEC"

OffsetsAreRight(f, layer) ==
  \A n \in {m \in Needs[f] : InPlanes(m)} :
    /\ QhOffset(layer[n]) >= Blocks(f, layer, n) * 20
    /\ QsOffset(layer[n]) >= QhOffset(layer[n]) + Blocks(f, layer, n) * 32

DimensionsAreUsable(f, layer) ==
  f = "projection_pack" =>
    /\ layer.attn_norm.dims[1] % 256 = 0
    /\ \A n \in Projections \ {"attn_norm"} : layer[n].dims[2] # 0

Copied(f, layer, n) ==
  IF InPlanes(n) THEN QsOffset(layer[n]) + Blocks(f, layer, n) * 128
  ELSE IF Type[n] = "F32" THEN Product(Dims(f, layer, n)) * 4
  ELSE Blocks(f, layer, n) * Bytes[Type[n]]

(* The checks of a call, in order, as far as the first that fails.         *)
Outcome(f, layer, driver) ==
  IF driver = "closed" THEN "no driver"
  ELSE IF f = "recurrent_layer" /\ Kind(layer) # "RECURRENT" THEN "not recurrent"
  ELSE IF \E n \in Needs[f] : ~Has(layer, n) THEN "missing tensor"
  ELSE IF ~KernelsAreRight(f, layer) THEN "dispatch mismatch"
  ELSE IF ~(RankIsRight(f, layer) /\ ShapesAreRight(f, layer)) THEN "shape mismatch"
  ELSE IF driver # "sm_86" THEN "wrong device"
  ELSE IF ~DimensionsAreUsable(f, layer) THEN "invalid dimensions"
  ELSE IF ~OffsetsAreRight(f, layer) THEN "invalid offsets"
  ELSE "runs"

(* layer_topology.cpp: the kind of a layer and whether it is ready.        *)

(* Mutant: the last projection of the table is left out.                   *)
recurrent_ready_NoDown(layer) ==
  /\ \A n \in DOMAIN Kernels \ {"ffn_down"} :
        /\ Has(layer, n)
        /\ select_projection_kernel(layer[n]) = Kernels[n]
  /\ \A n \in Plain : /\ Has(layer, n)
                      /\ layer[n].type = "F32"
                      /\ layer[n].layout = "GGUF_NATIVE"

recurrent_ready(layer) ==
  /\ \A n \in DOMAIN Kernels :
        /\ Has(layer, n)
        /\ select_projection_kernel(layer[n]) = Kernels[n]
  /\ \A n \in Plain : /\ Has(layer, n)
                      /\ layer[n].type = "F32"
                      /\ layer[n].layout = "GGUF_NATIVE"

Verdict(layer) ==
  IF Kind(layer) # "RECURRENT" THEN Kind(layer)
  ELSE IF recurrent_ready(layer) THEN "READY" ELSE "BLOCKED"

-----------------------------------------------------------------------------
NoCall == [program |-> "none", layer |-> 0, driver |-> "closed",
           outcome |-> "none", copies |-> << >>]

Init ==
  /\ \E w \in Widths, v \in Versions : \E s \in Sources(w) :
        Convertible(s) /\ pack = [l \in Layers |-> Converted(l, s, v)]
  /\ last = NoCall

(* One call of the runtime; the four that are about layer 0 have no layer  *)
(* to choose.                                                              *)
Call(f, l, driver) ==
  LET outcome == Outcome(f, pack[l], driver) IN
  /\ f # "recurrent_layer" => l = 0
  /\ last' = [program |-> f, layer |-> l, driver |-> driver,
               outcome |-> outcome,
               copies |-> IF outcome = "runs"
                          THEN [n \in Needs[f] |-> Copied(f, pack[l], n)]
                          ELSE << >>]
  /\ UNCHANGED pack

Topology(l) ==
  /\ last' = [NoCall EXCEPT !.program = "layer_topology", !.layer = l,
                            !.outcome = Verdict(pack[l])]
  /\ UNCHANGED pack

Next ==
  \E l \in Layers :
    \/ Topology(l)
    \/ \E f \in Programs, driver \in {"closed", "sm_80", "sm_86"} :
         Call(f, l, driver)

Spec == Init /\ [][Next]_vars

-----------------------------------------------------------------------------
(* What is copied to the GPU lies inside the tensor it is copied from,     *)
(* though nothing but type, layout and shape was looked at: no call reads  *)
(* into the next tensor or past the end of the file.  And the plane a      *)
(* kernel finds at an offset is the one the converter wrote: all of it is  *)
(* copied, of a matrix nothing is left over, and the guards on the offsets *)
(* never refuse what the converter wrote.                                  *)
CopiesAreExact == last.program \in Programs =>
  /\ last.outcome # "invalid offsets"
  /\ \A n \in DOMAIN last.copies :
       LET t == pack[last.layer][n] IN
         /\ last.copies[n] <= t.stored_bytes
         /\ InPlanes(n) /\ t.ndim = 2 => last.copies[n] = t.stored_bytes

(* The topology program calls a layer READY exactly when the runtime, on   *)
(* the right device, has nothing to object to but its shapes.              *)
ReadyMeansDispatched ==
  last.program = "recurrent_layer" /\ last.driver = "sm_86" =>
    (last.outcome \in {"runs", "shape mismatch"}
       <=> Verdict(pack[last.layer]) = "READY")

(* The stages of layer 0 nest: where the whole layer runs, each part of it *)
(* runs, and as recurrent layer 0 it runs too.  A norm of one row in two   *)
(* dimensions is what only the longer chains accept.                       *)
StagesNest ==
  (last.program = "layer0_full" /\ last.outcome = "runs") =>
    \A f \in Programs :
      \/ Outcome(f, pack[0], last.driver) = "runs"
      \/ Ranked[f] # {} /\ pack[0].attn_norm.ndim # 1
=============================================================================
