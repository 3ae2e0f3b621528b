-------------------------- MODULE MCUserAttrCache --------------------------
(* The instances of UserAttrCache that TLC checks. *)
EXTENDS UserAttrCache

\* both parts of the full name, and an attribute with subscribers of its own
OrderedNamesMC == <<"firstname", "lastname", "email">>
PartsNamesMC   == {"firstname", "lastname"}
=============================================================================
