---------------------------- MODULE PackPublish -----------------------------
(***************************************************************************)
(* What conversions promise to whoever opens the destination: at every     *)
(* instant, also right after a power loss, the path names nothing or one   *)
(* complete pack that some conversion published.  They promise it as long  *)
(* as no two of them to the same destination overlap.                      *)
(***************************************************************************)
CONSTANTS
  Models,   \* the models that can be converted
  NoPack

VARIABLES
  pack,       \* the model whose pack the destination holds
  survivors,  \* what it may hold after a power loss
  overlapped  \* two conversions were active at once

Init == pack = NoPack /\ survivors = {NoPack} /\ overlapped = FALSE

Publish ==
  /\ ~overlapped'
  /\ pack' \in Models
  /\ survivors' = survivors \cup {pack'}

PowerLoss ==
  /\ ~overlapped'
  /\ pack' \in survivors
  /\ survivors' = {pack'}

(* No promise for the rest of the behaviour.                               *)
Overlap == overlapped'

Next == Publish \/ PowerLoss \/ Overlap

Spec == Init /\ [][Next]_<<pack, survivors, overlapped>>
=============================================================================
