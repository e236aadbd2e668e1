-------------------------- MODULE MCReferenceProxy --------------------------
(* One connection that asks for anything but the health, and one that asks *)
(* for the health.                                                         *)
EXTENDS ReferenceProxy, TLC

CONSTANTS chat, probe

MCRequests == {chat, probe}
MCKinds ==
  (chat :> (Chats \cup Gets \cup {"post elsewhere"}) \ {"health"})
  @@ (probe :> {"health"})
=============================================================================
