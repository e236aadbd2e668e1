----------------------------- MODULE MCRecords ------------------------------
(***************************************************************************)
(* What is done with the tensor records of a pack: they are placed in GPU  *)
(* memory (Placement, q38-plan), or a program of the command line or a     *)
(* function of the runtime takes some of them to the GPU (TensorTools).    *)
(* The plan is only printed: nothing places a tensor where a call takes it *)
(* from, so the two share no state.                                        *)
(***************************************************************************)
EXTENDS Placement, TensorTools

VARIABLE planning   \* q38-plan, or one of the other programs

RecordsInit ==
  \/ planning = TRUE /\ PlanInit /\ pack = << >> /\ last = NoCall
  \/ /\ planning = FALSE /\ Init
     /\ sizes = << >> /\ page = 0 /\ pc = "idle" /\ cursor = 0
     /\ placed = << >> /\ payload = 0 /\ reserved = 0 /\ padding = 0
     /\ pages = 0 /\ wrapped = FALSE

Plans == planning /\ PlanNext /\ UNCHANGED <<planning, vars>>
Calls == ~planning /\ ToolNext /\ UNCHANGED <<planning, planVars>>

RecordsSpec ==
  RecordsInit /\ [][Plans \/ Calls]_<<planning, planVars, vars>>
=============================================================================
