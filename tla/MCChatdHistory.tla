--------------------------- MODULE MCChatdHistory ---------------------------
(* Instances of ChatdHistory for TLC: which messages arrive before their key, and how many *)
(* messages the application asks for at a time.                                            *)
EXTENDS ChatdHistory

AllKeysKnown == {}
OneOldLate   == {2}
SomeLate     == {2, 3, 4}
OneOrTwo     == {1, 2}
=============================================================================
