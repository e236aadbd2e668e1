---------------------------- MODULE TensorTools -----------------------------
(***************************************************************************)
(* The programs that run one kernel on a tensor of a pack                  *)
(* (src/q4k_smoke.cpp ... src/q5k_sm86_gemv.cpp, src/layer0_gate.cpp,      *)
(* src/recurrent_prep.cpp and the driver functions they call), on the      *)
(* packs of LayerDispatch.                                                 *)
(*                                                                         *)
(* Each program finds its tensors, looks at some of type, layout, shape    *)
(* and stored bytes, opens the driver, and hands over a bare pointer: what *)
(* is read from there on is computed from the shape alone.  `last` keeps   *)
(* the bytes read from the start of each tensor.                           *)
(***************************************************************************)
EXTENDS LayerDispatch

(* The programs about one tensor, and the type they ask for.               *)
Takes ==
  [q4k_smoke |-> "Q4_K", q5k_smoke |-> "Q5_K", iq4xs_smoke |-> "IQ4_XS",
   q4k_gemv |-> "Q4_K", q5k_gemv |-> "Q5_K", q5k_q8k_gemv |-> "Q5_K",
   q6k_gemv |-> "Q6_K", iq4xs_gemv |-> "IQ4_XS", iq4xs_q81_gemv |-> "IQ4_XS",
   iq4xs_sm86_gemv |-> "IQ4_XS", q5k_sm86_gemv |-> "Q5_K"]

Smokes     == {"q4k_smoke", "q5k_smoke", "iq4xs_smoke"}  \* decode one block
Searching  == {"q4k_smoke", "q5k_smoke"}  \* take the first tensor that fits
Repacking  == {"iq4xs_sm86_gemv", "q5k_sm86_gemv"}
AnyLayout  == {"q4k_smoke", "q5k_smoke", "q5k_sm86_gemv"}

(* Both dimensions of a matrix are there and not zero.                     *)
IsMatrix(t) == t.ndim >= 2 /\ t.dims[1] # 0 /\ t.dims[2] # 0

InBlocks(t) == t.dims[1] % 256 = 0

MatrixBlocks(t) == t.dims[2] * (t.dims[1] \div 256)

(* The plane offsets of a persisted Q5_K tensor, as the driver checks them.*)
PlanesFit(t) ==
  /\ QhOffset(t) >= MatrixBlocks(t) * 20
  /\ QsOffset(t) >= QhOffset(t) + MatrixBlocks(t) * 32

Persisted(tool, t) == tool = "q5k_sm86_gemv" /\ t.layout = "SM86_Q5K_SOA"

(* Mutant: the type is enough, as it was for packs of version 1.           *)
RightKind_AnyLayout(tool, t) == t.type = Takes[tool]

RightKind(tool, t) ==
  /\ t.type = Takes[tool]
  /\ t.layout = "GGUF_NATIVE" \/ tool \in AnyLayout

(* What a program finds wrong with a tensor before it opens the driver.    *)
Objection(tool, t) ==
  IF t = Missing THEN "missing tensor"
  ELSE IF ~RightKind(tool, t) THEN "wrong kind"
  ELSE IF tool \in Smokes
       THEN IF t.stored_bytes < Bytes[t.type] THEN "too small" ELSE "none"
  ELSE IF ~IsMatrix(t) THEN "no matrix"
  ELSE IF tool \in Repacking /\ ~InBlocks(t) THEN "invalid dimensions"
  ELSE IF /\ tool \in Repacking /\ ~Persisted(tool, t)
          /\ t.stored_bytes < MatrixBlocks(t) * Bytes[t.type] THEN "too small"
  ELSE "none"

(* Then the driver is opened, and has its own guards.  The planes of a     *)
(* tensor repacked in memory are where the driver wants them.              *)
ToolOutcome(tool, t, driver) ==
  IF Objection(tool, t) # "none" THEN Objection(tool, t)
  ELSE IF driver = "closed" THEN "no driver"
  ELSE IF driver # "sm_86" THEN "wrong device"
  ELSE IF tool \notin Smokes /\ ~InBlocks(t) THEN "invalid dimensions"
  ELSE IF Persisted(tool, t) /\ ~PlanesFit(t) THEN "invalid offsets"
  ELSE "runs"

BytesRead(tool, t) ==
  IF tool \in Smokes THEN Bytes[Takes[tool]]
  ELSE IF Persisted(tool, t) THEN QsOffset(t) + MatrixBlocks(t) * 128
  ELSE MatrixBlocks(t) * Bytes[Takes[tool]]

Report(program, l, driver, outcome, copies) ==
  /\ last' = [program |-> program, layer |-> l, driver |-> driver,
              outcome |-> outcome,
              copies |-> IF outcome = "runs" THEN copies ELSE << >>]
  /\ UNCHANGED pack

(* A program on one tensor.  The two that search take the first tensor of  *)
(* the file that fits; the file has its tensors in any order.              *)
OnTensor(tool, l, name, driver) ==
  LET t == pack[l][name] IN
  /\ tool \in Searching => Objection(tool, t) = "none"
  /\ Report(tool, l, driver, ToolOutcome(tool, t, driver),
            [n \in {name} |-> BytesRead(tool, t)])

NothingFound(tool, l) ==
  /\ tool \in Searching
  /\ \A k \in Layers : \A name \in AllNames : Objection(tool, pack[k][name]) # "none"
  /\ Report(tool, l, "closed", "missing tensor", << >>)

-----------------------------------------------------------------------------
(* layer0_gate.cpp: the norm of layer 0 and the gate's projection.         *)
GateOutcome(norm, gate, driver) ==
  IF norm = Missing \/ gate = Missing THEN "missing tensor"
  ELSE IF ~(norm.type = "F32" /\ norm.layout = "GGUF_NATIVE") THEN "wrong kind"
  ELSE IF norm.ndim # 1 \/ norm.dims[1] = 0 THEN "shape mismatch"
  ELSE IF ~(gate.type = "Q5_K" /\ gate.layout = "SM86_Q5K_SOA") THEN "wrong kind"
  ELSE IF ~IsMatrix(gate) \/ norm.dims[1] # gate.dims[1] THEN "shape mismatch"
  ELSE IF norm.stored_bytes < gate.dims[1] * 4 THEN "too small"
  ELSE IF driver = "closed" THEN "no driver"
  ELSE IF driver # "sm_86" THEN "wrong device"
  ELSE IF ~InBlocks(gate) THEN "invalid dimensions"
  ELSE IF ~PlanesFit(gate) THEN "invalid offsets"
  ELSE "runs"

Gate(driver) ==
  LET norm == pack[0].attn_norm
      gate == pack[0].attn_gate
  IN  Report("layer0_gate", 0, driver, GateOutcome(norm, gate, driver),
             [attn_norm |-> gate.dims[1] * 4,
              attn_gate |-> QsOffset(gate) + MatrixBlocks(gate) * 128])

(* recurrent_prep.cpp: no layout is looked at, and a bias may have any     *)
(* number of dimensions.                                                   *)
PrepOutcome(conv, dt, a, driver) ==
  IF Missing \in {conv, dt, a} THEN "missing tensor"
  ELSE IF {conv.type, dt.type, a.type} # {"F32"} THEN "wrong kind"
  ELSE IF ~(/\ conv.ndim >= 2 /\ conv.dims[1] = 4 /\ conv.dims[2] = 10240
            /\ dt.dims[1] = 48 /\ a.dims[1] = 48) THEN "shape mismatch"
  ELSE IF driver = "closed" THEN "no driver"
  ELSE IF driver # "sm_86" THEN "wrong device"
  ELSE "runs"

Prep(driver) ==
  Report("recurrent_prep", 0, driver,
         PrepOutcome(pack[0].ssm_conv1d, pack[0].ssm_dt, pack[0].ssm_a, driver),
         [ssm_conv1d |-> 10240 * 4 * 4, ssm_dt |-> 48 * 4, ssm_a |-> 48 * 4])

ToolCall ==
  \E driver \in {"closed", "sm_80", "sm_86"} :
    \/ Gate(driver)
    \/ Prep(driver)
    \/ \E tool \in DOMAIN Takes, l \in Layers :
         \/ NothingFound(tool, l)
         \/ \E name \in AllNames : OnTensor(tool, l, name, driver)

(* A program makes one call and ends.                                      *)
Exit == last # NoCall /\ last' = NoCall /\ UNCHANGED pack

ToolNext == (last = NoCall /\ (Next \/ ToolCall)) \/ Exit

ToolSpec == Init /\ [][ToolNext]_vars

-----------------------------------------------------------------------------
(* A layout is read as what it is: planes by the programs for planes, and  *)
(* whole tensors of them; blocks by all others.  q5k_smoke is left out.    *)
LayoutIsRead ==
  \A n \in DOMAIN last.copies :
    LET t == pack[last.layer][n] IN
      t.layout = "SM86_Q5K_SOA" =>
        /\ last.program \in Programs \cup {"layer0_gate", "q5k_sm86_gemv"}
        /\ t.ndim = 2 => last.copies[n] = t.stored_bytes

(* No program, whatever the pack, the tensor and the device, reads past    *)
(* the end of a tensor, finds a persisted plane where it did not expect    *)
(* it, or takes planes for blocks: the pointer handed to the driver has no *)
(* length, and each program has its own copy of the guards in front of it. *)
ReadsAreExact ==
  /\ CopiesAreExact
  /\ last.outcome # "invalid offsets"
  /\ \A n \in DOMAIN last.copies :
       last.copies[n] <= pack[last.layer][n].stored_bytes
  /\ last.program # "q5k_smoke" => LayoutIsRead

(* README.md, on q38-q5k-smoke: it "takes the first block of a real tensor *)
(* from the Q38PACK".  In the default format the tensor has no blocks.     *)
SmokeTakesABlock ==
  last.program \in Smokes =>
    \A n \in DOMAIN last.copies :
      pack[last.layer][n].layout = "GGUF_NATIVE"
=============================================================================
