----------------------------- MODULE MCChatRooms -----------------------------
(* Instances of ChatRooms: our user and one other, two privileges *)
EXTENDS ChatRooms

TwoPrivs == {0, 3}

=============================================================================
