----------------------------- MODULE MCPackFile -----------------------------
(* Files for PackFile, one for each way parse() can end.                   *)
EXTENDS PackFile, TLC

Native(offset, bytes) ==
  [layout |-> "native", offset |-> offset, bytes |-> bytes,
   aux0 |-> 0, aux1 |-> 0]
Sm86(offset, bytes, aux0, aux1) ==
  [layout |-> "sm86", offset |-> offset, bytes |-> bytes,
   aux0 |-> aux0, aux1 |-> aux1]

Good ==
  [size |-> 7, magic |-> TRUE, sane |-> TRUE, regions |-> TRUE,
   manifest |-> [offset |-> 2, bytes |-> 1], data |-> 3,
   tensors |-> <<Native(3, 1), Sm86(4, 3, 5, 6)>>]

Smaller == [Good EXCEPT !.size = 5, !.tensors = <<Native(3, 2)>>]

MCFiles ==
  { Good, Smaller,
    [Smaller EXCEPT !.size = 1],
    [Smaller EXCEPT !.magic = FALSE],
    [Good EXCEPT !.manifest.offset = 9],
    [Good EXCEPT !.tensors = <<Native(3, 1), Native(6, 5)>>],
    [Good EXCEPT !.tensors = <<Sm86(4, 3, 5, 7), Native(3, 1)>>],
    [Good EXCEPT !.data = 0, !.tensors = <<Sm86(0, 3, 0, 1)>>] }

Symmetry == Permutations(Handles) \cup Permutations(Addresses)
=============================================================================
