----------------------------- MODULE MCRuntime ------------------------------
(* Runtime with two models, a file that is refused at its second tensor,   *)
(* one that is no pack, and a path without a file.                         *)
EXTENDS Runtime

Native(offset, bytes) ==
  [layout |-> "native", offset |-> offset, bytes |-> bytes,
   aux0 |-> 0, aux1 |-> 0]

Model(size, tensors) ==
  [size |-> size, magic |-> TRUE, sane |-> TRUE, regions |-> TRUE,
   manifest |-> [offset |-> 2, bytes |-> 1], data |-> 3, tensors |-> tensors]

MCPaths == {"one", "two", "cut", "other", "none"}

MCDisk ==
  [p \in MCPaths |->
     CASE p = "one"   -> Model(5, <<Native(3, 2)>>)
       [] p = "two"   -> Model(6, <<Native(3, 1), Native(4, 2)>>)
       [] p = "cut"   -> Model(5, <<Native(3, 1), Native(4, 2)>>)
       [] p = "other" -> [Model(5, << >>) EXCEPT !.magic = FALSE]
       [] p = "none"  -> None]

MCFiles == {MCDisk[p] : p \in MCPaths} \ {None}
=============================================================================
