----------------------------- MODULE MCProcess ------------------------------
(* A small instance of Process: a rollout in which p2's image has two      *)
(* more migrations than p1's.                                              *)
EXTENDS Process, TLC

CONSTANTS p1, p2

MCKnown   == p1 :> 1 @@ p2 :> 3
MCBusMode == p1 :> "direct" @@ p2 :> "lazy"

=============================================================================
