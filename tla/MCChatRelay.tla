---------------------------- MODULE MCChatRelay ----------------------------
(***************************************************************************)
(* Instances of ChatRelay for TLC: turns of one conversation.              *)
(***************************************************************************)
EXTENDS ChatRelay, TLC

CONSTANTS t1, t2, t3, k1, c1

OneSession == [t \in Turns |-> k1]
OneCanonical == [r \in RawKeys |-> c1]
=============================================================================
