------------------------------ MODULE MCPresence ------------------------------
(* An instance of Presence for TLC: one contact, and a timeout that presenced rounds. *)
EXTENDS Presence

OneUser    == {"bob"}
HalfMinute == {690}
=============================================================================
