------------------------- MODULE MCChatdConnection -------------------------
(* The instances of ChatdConnection that TLC checks. *)
EXTENDS ChatdConnection

\* two controllers in a row at the same address, or not
AddressesMC == {"a1", "a2"}

\* an address to cache and one to disagree with it
IPsMC == {"ip1", "ip2"}
=============================================================================
