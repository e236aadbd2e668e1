---------------------------- MODULE PackHandles -----------------------------
(***************************************************************************)
(* What PackFile promises to its users, as a type that owns a mapping: a   *)
(* handle is empty or holds one mapping, no two hold the same, a move      *)
(* hands the mapping itself over, and what no handle holds is gone.        *)
(***************************************************************************)
CONSTANTS
  Handles,
  Mappings,
  Nothing   \* an empty handle

VARIABLE owns  \* handle -> what it holds

Held == {owns[h] : h \in Handles} \ {Nothing}

Init == owns = [h \in Handles |-> Nothing]

(* Open over whatever the handle held: the new mapping may have the        *)
(* address of the old one.                                                 *)
Acquire(h, m) ==
  /\ m \notin {owns[g] : g \in Handles \ {h}}
  /\ owns' = [owns EXCEPT ![h] = m]

Release(h) == owns' = [owns EXCEPT ![h] = Nothing]

(* Give what g holds to h, which gives up its own.                         *)
Transfer(h, g) ==
  /\ h # g
  /\ owns' = [owns EXCEPT ![h] = owns[g], ![g] = Nothing]

Next ==
  \E h \in Handles :
    \/ \E m \in Mappings : Acquire(h, m)
    \/ Release(h)
    \/ \E g \in Handles : Transfer(h, g)

Spec == Init /\ [][Next]_owns
=============================================================================
