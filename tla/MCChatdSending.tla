--------------------------- MODULE MCChatdSending ---------------------------
(* The instances of ChatdSending that TLC checks. *)
EXTENDS ChatdSending

\* one chat, where the order of messages is the question
OneChat == {1}

\* two chats on one shard, where a confirmation has to find its own
TwoChats == {1, 2}

\* every chat private, every chat public, or the second of two
NoChat     == {}
SecondChat == {2}
=============================================================================
