----------------------------- MODULE MCSfuCall -----------------------------
(* The instances of SfuCall that TLC checks. *)
EXTENDS SfuCall

\* a HELLO of a call with a waiting room, or without
WaitingRoomsMC == BOOLEAN
=============================================================================
