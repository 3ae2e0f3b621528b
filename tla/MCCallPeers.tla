---------------------------- MODULE MCCallPeers ----------------------------
(* The instance of CallPeers that TLC checks. *)
EXTENDS CallPeers

TwoPeers == {1, 2}
=============================================================================
