----------------------------- MODULE HttpReplies ----------------------------
(***************************************************************************)
(* What one connection of the server promises its client: at most one      *)
(* status, then the pieces of one body in order, never more of them than   *)
(* were declared, then the end of the connection.  A body is the server's  *)
(* own piece of JSON, or the upstream's pieces 1, 2, ... under the         *)
(* upstream's status; the two are never mixed.                             *)
(***************************************************************************)
EXTENDS Integers, Sequences

CONSTANTS
  Requests,
  Relayed,   \* the statuses that come from the upstream
  OwnStatus, \* the statuses the server gives itself
  MaxPieces

VARIABLE reply

OwnPiece   == 0
NoStatus   == "none"
Undeclared == -1
NoReply == [status |-> NoStatus, declared |-> Undeclared, got |-> << >>,
            closed |-> FALSE]

Bodies(status) ==
  IF status \in Relayed THEN {[k \in 1..n |-> k] : n \in 0..MaxPieces}
  ELSE {<< >>, <<OwnPiece>>}

Init == reply = [r \in Requests |-> NoReply]

Begin(r) ==
  /\ reply[r].status = NoStatus /\ ~reply[r].closed
  /\ \E s \in Relayed \cup OwnStatus, n \in {Undeclared} \cup 0..MaxPieces :
        reply' = [reply EXCEPT ![r].status = s, ![r].declared = n]

Continue(r) ==
  /\ reply[r].status # NoStatus /\ ~reply[r].closed
  /\ \E body \in Bodies(reply[r].status) :
        /\ Len(body) > Len(reply[r].got)
        /\ reply[r].declared # Undeclared => Len(body) <= reply[r].declared
        /\ reply' = [reply EXCEPT ![r].got = body]

Close(r) == ~reply[r].closed /\ reply' = [reply EXCEPT ![r].closed = TRUE]

(* The process ends with every connection it has.                          *)
CloseAll == reply' = [r \in Requests |-> [reply[r] EXCEPT !.closed = TRUE]]

Next == CloseAll \/ \E r \in Requests : Begin(r) \/ Continue(r) \/ Close(r)

Spec == Init /\ [][Next]_reply
=============================================================================
