------------------------------ MODULE MCKernels ------------------------------
(***************************************************************************)
(* The kernels: a block of q38_qk_l2norm_128 or q38_gated_rmsnorm_silu_128 *)
(* thread by thread (CtaReduce), the warps of a matrix-vector kernel lane  *)
(* by lane (WarpGemv), or the launches of layer 0 block by block           *)
(* (LayerStep).  Launches of a stream run one after the other, so no two   *)
(* of these are mixed.                                                     *)
(***************************************************************************)
EXTENDS CtaReduce

CONSTANTS
  Kernels, RowCounts, BlockCounts, MaxBlocks,
  LayerLanes, QkHeads, ValueHeads, Hidden, FfnDim, CtaThreads, Seeds, Prime

VARIABLES
  launch,  \* "reduce", "gemv" or "layer"
  kern, rows, blocks, warp, at, blk, pass, step, part, acc, y,  \* of WarpGemv
  seed, queue, todo, mem                                        \* of LayerStep

Gemv == INSTANCE WarpGemv WITH pc <- at
Layer == INSTANCE LayerStep WITH Lanes <- LayerLanes

ASSUME ShapesAssumption ==
  /\ Kernels \subseteq Gemv!AllKernels
  /\ RowCounts \subseteq Nat /\ BlockCounts \subseteq Nat

gemvVars == <<kern, rows, blocks, warp, at, blk, pass, step, part, acc, y>>
layerVars == <<seed, queue, todo, mem>>

Unlaunched ==
  /\ kern = CHOOSE k \in Kernels : TRUE
  /\ rows = 1 /\ blocks = 1 /\ warp = 0 /\ at = "start" /\ blk = 0 /\ pass = 0
  /\ step = 1 /\ part = Gemv!Empty /\ acc = Gemv!Empty /\ y = << >>

NoLayer == seed = 1 /\ queue = << >> /\ todo = {} /\ mem = << >>

LaunchInit ==
  /\ Init
  /\ \/ launch = "reduce" /\ Unlaunched /\ NoLayer
     \/ launch = "gemv" /\ Gemv!Init /\ NoLayer
     \/ launch = "layer" /\ Unlaunched /\ Layer!Init

Reduce   == launch = "reduce" /\ Next /\ UNCHANGED <<launch, gemvVars, layerVars>>
Multiply == launch = "gemv" /\ Gemv!Next /\ UNCHANGED <<launch, vars, layerVars>>
Step     == launch = "layer" /\ Layer!Next /\ UNCHANGED <<launch, vars, gemvVars>>

LaunchSpec ==
  LaunchInit /\ [][Reduce \/ Multiply \/ Step]_<<launch, vars, gemvVars, layerVars>>
-----------------------------------------------------------------------------
(* The properties of the matrix-vector kernels: every row of the output is *)
(* the whole dot product of its own row, whatever the shape of the grid.   *)
RowsAreDotProducts == Gemv!RowsAreDotProducts

(* Every load of two, four or sixteen bytes is at a multiple of its width, *)
(* in every block of every row.                                            *)
LoadsAreAligned == Gemv!LoadsAreAligned

(* The chain of layer 0 leaves every buffer as its CPU reference computes  *)
(* it, whatever the order of the blocks: heads, layouts, the shared sum.   *)
LayerIsTheReference == launch = "layer" => Layer!LayerIsTheReference
==============================================================================
