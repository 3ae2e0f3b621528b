------------------------------- MODULE Outbox -------------------------------
(***************************************************************************)
(* What sending promises the application, with no queue, no connection and *)
(* no restart in sight: every message it submits to a chat is accepted by  *)
(* the server at most once, in the order submitted, or is handed back      *)
(* (onManualSendRequired), never both.  A message the server has refused   *)
(* once may be overtaken, and may still be accepted later.                 *)
(***************************************************************************)
EXTENDS Naturals, Sequences, FiniteSets

CONSTANTS Chats, Messages

VARIABLES
    submitted,  \* messages of each chat in the order the application submitted them
    accepted,   \* messages of each chat in the order the server wrote them
    returned,   \* messages handed back to the application
    refused     \* messages the server has refused at least once

vars == <<submitted, accepted, returned, refused>>

Elements(seq) == {seq[k] : k \in DOMAIN seq}
Settled(c)    == Elements(accepted[c]) \cup returned[c]
Open(c)       == Elements(submitted[c]) \ Settled(c)

\* m precedes n in the order of submission
Before(c, m, n) == \E i, j \in DOMAIN submitted[c] :
                      i < j /\ submitted[c][i] = m /\ submitted[c][j] = n

Init == /\ submitted = [c \in Chats |-> <<>>]
        /\ accepted  = [c \in Chats |-> <<>>]
        /\ returned  = [c \in Chats |-> {}]
        /\ refused   = [c \in Chats |-> {}]

Submit(c, m) ==
    /\ \A d \in Chats : m \notin Elements(submitted[d])
    /\ submitted' = [submitted EXCEPT ![c] = Append(@, m)]
    /\ UNCHANGED <<accepted, returned, refused>>

Accept(c, m) ==
    /\ m \in Open(c)
    /\ \A n \in Open(c) : Before(c, n, m) => n \in refused[c]
    /\ accepted' = [accepted EXCEPT ![c] = Append(@, m)]
    /\ UNCHANGED <<submitted, returned, refused>>

Refuse(c, m) ==
    /\ m \in Open(c)
    /\ refused' = [refused EXCEPT ![c] = @ \cup {m}]
    /\ UNCHANGED <<submitted, accepted, returned>>

Return(c, m) ==
    /\ m \in Open(c)
    /\ returned' = [returned EXCEPT ![c] = @ \cup {m}]
    /\ UNCHANGED <<submitted, accepted, refused>>

Next == \E c \in Chats, m \in Messages :
            Submit(c, m) \/ Accept(c, m) \/ Refuse(c, m) \/ Return(c, m)

Spec == Init /\ [][Next]_vars

\* What the rules come to: no message is accepted twice, none is both accepted and handed back,
\* and none the application did not submit is either.
SettledOnce ==
    \A c \in Chats :
        /\ \A j, k \in DOMAIN accepted[c] : accepted[c][j] = accepted[c][k] => j = k
        /\ Elements(accepted[c]) \cap returned[c] = {}
        /\ Settled(c) \subseteq Elements(submitted[c])
=============================================================================
