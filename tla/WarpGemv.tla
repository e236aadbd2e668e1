------------------------------- MODULE WarpGemv -------------------------------
(***************************************************************************)
(* The matrix-vector kernels of driver.cpp, one warp per output row: every *)
(* lane accumulates its share of each 256-weight block, groups of lanes    *)
(* are reduced by butterfly shuffles where the scale is applied per group, *)
(* and the lanes' sums are reduced into lane 0, which stores the row.      *)
(*                                                                         *)
(* A sum is the bag of its terms.  A term is <<"dot", block, code bits,    *)
(* scale bits, column>> or <<"min", block, minimum bits, column>>; the     *)
(* numbers they stand for are the subject of BlockDecode.  Warps share     *)
(* nothing but y, and each row of y belongs to one warp, so the warps of   *)
(* a launch run here one after the other.                                  *)
(***************************************************************************)
EXTENDS GemvKernels, Bags

CONSTANTS
    Kernels,    \* the kernels of this run
    RowCounts,  \* rows of the matrix
    BlockCounts, \* blocks in a row: p_cols / 256
    MaxBlocks   \* bound: blocks of the matrix

VARIABLES
    kern, rows, blocks, \* the launch
    warp,       \* the warp that runs, counted over the grid
    pc,         \* "start", "load", "group", "apply", "warp", "store", "done"
    blk, pass,  \* block in the row, pass over the block
    step,       \* shuffle of the reduction that runs
    part,       \* lane -> terms of this pass, without scale
    acc,        \* lane -> terms of the row so far
    y           \* row -> the stored sum, for the rows stored

vars == <<kern, rows, blocks, warp, pc, blk, pass, step, part, acc, y>>

(***************************************************************************)
(* The kernels                                                             *)
(***************************************************************************)

AllKernels == {"Q4K", "Q5K", "Q6KScalar", "IQ4XS4Warp", "IQ4XSSm86", "Q5KSm86",
               "IQ4XSQ81", "Q5KDp4a", "IQ4XSPrmt", "Q5KVec", "Q6KVec"}

LanePart(k, lane, p) ==
    CASE k = "Q4K"        -> Q4KGemv(lane, p)       [] k = "Q5K"       -> Q5KGemv(lane, p)
      [] k = "Q6KScalar"  -> Q6KGemvScalar(lane, p) [] k = "IQ4XS4Warp" -> IQ4XSGemv(lane, p)
      [] k = "IQ4XSSm86"  -> IQ4XSSm86Gemv(lane, p) [] k = "Q5KSm86"   -> Q5KSm86Gemv(lane, p)
      [] k = "IQ4XSQ81"   -> IQ4XSQ81Gemv(lane, p)  [] k = "Q5KDp4a"   -> Q5KDp4aGemv(lane, p)
      [] k = "IQ4XSPrmt"  -> IQ4XSPrmtGemv(lane, p) [] k = "Q5KVec"    -> Q5KVecGemv(lane, p)
      [] k = "Q6KVec"     -> Q6KVecGemv(lane, p)

\* Lanes that share a scale; one where the scale is applied to each product.
GroupWidth(k) == CASE k \in {"IQ4XSQ81", "Q5KDp4a"} -> 8
                   [] k \in {"IQ4XSPrmt", "Q5KVec"} -> 4
                   [] k = "Q6KVec"                  -> 2
                   [] OTHER                         -> 1

\* Times a lane comes round per block.
Passes(k) == CASE GroupWidth(k) = 1 -> 8 [] GroupWidth(k) = 8 -> 2 [] OTHER -> 1

WarpsPerCta(k) == IF k \in {"IQ4XS4Warp", "IQ4XSPrmt", "Q5KVec", "Q6KVec"} THEN 4 ELSE 1

\* Lane masks of the butterfly inside a group, in order.
GroupSteps(k) == CASE GroupWidth(k) = 8 -> <<4, 2, 1>> [] GroupWidth(k) = 4 -> <<2, 1>>
                   [] GroupWidth(k) = 2 -> <<1>>       [] OTHER -> <<>>

\* Mutant: the last shuffle is left out, as where groups are wider.
WarpSteps_OneShort(k) == CASE GroupWidth(k) = 8 -> <<>>        [] GroupWidth(k) = 4 -> <<16, 8>>
                           [] GroupWidth(k) = 2 -> <<16, 8, 4>> [] OTHER -> <<16, 8, 4, 2>>

\* Distances of the shuffles down over the warp, in order; the kernels with
\* subgroups of eight read the other three leaders directly instead.
Gathers(k) == GroupWidth(k) = 8
WarpSteps(k) == CASE GroupWidth(k) = 8 -> <<>>        [] GroupWidth(k) = 4 -> <<16, 8, 4>>
                  [] GroupWidth(k) = 2 -> <<16, 8, 4, 2>> [] OTHER -> <<16, 8, 4, 2, 1>>

\* Launch configuration: one CTA per row, or per four rows.
Grid == (rows + WarpsPerCta(kern) - 1) \div WarpsPerCta(kern)
Warps == Grid * WarpsPerCta(kern)
Row == (warp \div WarpsPerCta(kern)) * WarpsPerCta(kern) + (warp % WarpsPerCta(kern))
Block == Row * blocks + blk

Leader(lane) == lane % GroupWidth(kern) = 0

(***************************************************************************)
(* Shuffles                                                                *)
(***************************************************************************)

\* shfl.sync.bfly: the lane whose number differs in that bit.
Partner(lane, mask) == IF (lane \div mask) % 2 = 0 THEN lane + mask ELSE lane - mask
\* shfl.sync.down: past the end of the warp a lane gets its own value.
Below(lane, d) == IF lane + d \in Lanes THEN lane + d ELSE lane

(***************************************************************************)
(* Terms                                                                   *)
(***************************************************************************)

Columns(cols) == {256 * blk + c : c \in cols}
Loaded(lane) ==
    LET r == LanePart(kern, lane, pass)
    IN  SetToBag({<<"dot", t[1], 256 * blk + t[2]>> : t \in r.dot})
            (+) SetToBag({<<"sum", c>> : c \in Columns(r.sum)})

\* What the lane adds to the row: its group's products times the scale, and
\* its group's activations times the minimum.
Applied(lane) ==
    LET r == LanePart(kern, lane, pass)
        bag == part[lane] (+) SetToBag({<<"sum", c>> : c \in Columns(r.bsum)})
        Term(t) == IF t[1] = "dot" THEN <<"dot", Block, t[2], r.s, t[3]>>
                                   ELSE <<"min", Block, r.m, t[2]>>
        term == [t \in DOMAIN bag |-> Term(t)]
    IN  [u \in {term[t] : t \in DOMAIN bag} |-> bag[CHOOSE t \in DOMAIN bag : term[t] = u]]

Empty == [lane \in Lanes |-> EmptyBag]

(***************************************************************************)
(* The steps of a warp                                                     *)
(***************************************************************************)

Init ==
    /\ kern \in Kernels /\ rows \in RowCounts /\ blocks \in BlockCounts /\ rows * blocks <= MaxBlocks
    /\ warp = 0 /\ pc = "start" /\ blk = 0 /\ pass = 0 /\ step = 1
    /\ part = Empty /\ acc = Empty /\ y = <<>>

NextWarp ==
    /\ warp' = warp + 1
    /\ pc' = IF warp + 1 < Warps THEN "start" ELSE "done"
    /\ blk' = 0 /\ pass' = 0 /\ step' = 1 /\ part' = Empty /\ acc' = Empty

\* A warp past the last row returns at once.
Return ==
    /\ pc = "start" /\ Row >= rows
    /\ NextWarp
    /\ UNCHANGED <<kern, rows, blocks, y>>

Begin ==
    /\ pc = "start" /\ Row < rows
    /\ pc' = "load"
    /\ UNCHANGED <<kern, rows, blocks, warp, blk, pass, step, part, acc, y>>

Load ==
    /\ pc = "load"
    /\ part' = [lane \in Lanes |-> Loaded(lane)]
    /\ step' = 1
    /\ pc' = IF GroupSteps(kern) = <<>> THEN "apply" ELSE "group"
    /\ UNCHANGED <<kern, rows, blocks, warp, blk, pass, acc, y>>

\* One butterfly step of the reduction inside the groups.
GroupShuffle ==
    /\ pc = "group"
    /\ part' = [lane \in Lanes |-> part[lane] (+) part[Partner(lane, GroupSteps(kern)[step])]]
    /\ IF step = Len(GroupSteps(kern)) THEN pc' = "apply" /\ step' = 1
                                       ELSE pc' = pc /\ step' = step + 1
    /\ UNCHANGED <<kern, rows, blocks, warp, blk, pass, acc, y>>

\* Leaders apply scale and minimum; then the next pass, the next block, or the
\* reduction over the warp.
Apply ==
    /\ pc = "apply"
    /\ acc' = [lane \in Lanes |-> IF Leader(lane) THEN acc[lane] (+) Applied(lane) ELSE acc[lane]]
    /\ part' = Empty
    /\ \/ pass + 1 < Passes(kern) /\ pass' = pass + 1 /\ blk' = blk /\ pc' = "load"
       \/ pass + 1 = Passes(kern) /\ blk + 1 < blocks /\ pass' = 0 /\ blk' = blk + 1 /\ pc' = "load"
       \/ pass + 1 = Passes(kern) /\ blk + 1 = blocks /\ pass' = 0 /\ blk' = blk + 1 /\ pc' = "warp"
    /\ UNCHANGED <<kern, rows, blocks, warp, step, y>>

\* One shuffle down of the reduction over the warp.
WarpShuffle ==
    /\ pc = "warp" /\ ~Gathers(kern)
    /\ acc' = [lane \in Lanes |->
                 IF Below(lane, WarpSteps(kern)[step]) = lane
                 THEN [t \in DOMAIN acc[lane] |-> 2 * acc[lane][t]]
                 ELSE acc[lane] (+) acc[Below(lane, WarpSteps(kern)[step])]]
    /\ IF step = Len(WarpSteps(kern)) THEN pc' = "store" /\ step' = 1
                                      ELSE pc' = pc /\ step' = step + 1
    /\ UNCHANGED <<kern, rows, blocks, warp, blk, pass, part, y>>

\* Lane 0 reads the sums of the three other leaders; the other lanes return.
Gather ==
    /\ pc = "warp" /\ Gathers(kern)
    /\ acc' = [acc EXCEPT ![0] = @ (+) acc[8] (+) acc[16] (+) acc[24]]
    /\ pc' = "store"
    /\ UNCHANGED <<kern, rows, blocks, warp, blk, pass, step, part, y>>

Store ==
    /\ pc = "store"
    /\ y' = [row \in DOMAIN y \cup {Row} |-> IF row = Row THEN acc[0] ELSE y[row]]
    /\ NextWarp
    /\ UNCHANGED <<kern, rows, blocks>>

Done == pc = "done" /\ UNCHANGED vars

Next == Return \/ Begin \/ Load \/ GroupShuffle \/ Apply \/ WarpShuffle \/ Gather \/ Store \/ Done

Spec == Init /\ [][Next]_vars

(***************************************************************************)
(* Properties                                                              *)
(***************************************************************************)

\* The terms of the first n blocks of a row, as the CPU reference of the self
\* tests forms them: each decoded weight times the activation of its column.
Decoded(e) == CASE kern = "Q4K"                                    -> Q4K(e)
                [] kern \in {"Q5K", "Q5KSm86", "Q5KDp4a", "Q5KVec"} -> Q5K(e)
                [] kern \in {"Q6KScalar", "Q6KVec"}                -> Q6K(e)
                [] OTHER                                           -> IQ4XS(e)
BlockTerms(row, b) ==
    LET w == [e \in 0 .. BlockSize - 1 |-> Decoded(e)]
    IN  {<<"dot", row * blocks + b, w[e].q, w[e].s, 256 * b + e>> : e \in 0 .. BlockSize - 1}
        \cup {<<"min", row * blocks + b, w[e].m, 256 * b + e>> : e \in {i \in 0 .. BlockSize - 1 : w[i].m # <<>>}}
DotProduct(row, n) == SetToBag(UNION {BlockTerms(row, b) : b \in 0 .. n - 1})

\* A finished launch has stored, for every row and no other, the whole dot
\* product: each weight of the row exactly once, decoded from its own bits,
\* with the scale and the minimum of its own group, times the activation of
\* its own column.  Self tests compare the first eight rows of one matrix.
RowsAreDotProducts ==
    pc = "done" => y = [row \in 0 .. rows - 1 |-> DotProduct(row, blocks)]

\* A load of two, four or sixteen bytes is at a multiple of its width in every
\* block of every row, also where the blocks are 210, 36 or 20 bytes apart: a
\* GPU faults on any other address.
LoadsAreAligned ==
    pc = "load" =>
        \A lane \in Lanes : \A ld \in LanePart(kern, lane, pass).loads :
            (Block * ld[1] + ld[2]) % ld[3] = 0
=============================================================================
