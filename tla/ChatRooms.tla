----------------------------- MODULE ChatRooms -----------------------------
(***************************************************************************)
(* The client (karere::Client, src/src/chatClient.cpp) and one group chat  *)
(* room of its list: how it is initialised from a new session or from the  *)
(* database, and how the room follows the chat, of which it hears twice:   *)
(* from the API, through the action packets of the SDK, and from chatd,    *)
(* through the JOINs of its connection (src/src/chatd.cpp).                *)
(*                                                                         *)
(* The two sources are ordered each in itself and not with the other, and  *)
(* the answers to the user's own requests are a third.  The SDK calls on   *)
(* its thread; what it says is marshalled, and the sequence number it has  *)
(* committed comes the same way, to be committed with the rows of the      *)
(* room: after a crash it decides whether the room is synchronised again.  *)
(*                                                                         *)
(* A version of the chat says who is in it, with which privilege; a        *)
(* sequence number is a position in the log of versions.                   *)
(***************************************************************************)
EXTENDS Integers, Sequences, SequencesExt, FiniteSets

CONSTANTS
    Me,            \* our own user
    Peers,         \* the other users
    Privs,         \* the privileges of a participant
    Moderator,     \* the greatest one
    MaxVersions,   \* bound: versions of the chat
    MaxRequests,   \* bound: requests of our user
    MaxDrops,      \* bound: losses of the connection to chatd
    MaxCrashes,    \* bound: ends of the process
    MaxReloads     \* bound: full reloads of the account

NotPresent == -1
Invalid    == -2
Users      == Peers \cup {Me}
Levels     == Privs \cup {NotPresent}

ASSUME RoomsAssumption ==
    /\ Me \notin Peers
    /\ IsFiniteSet(Peers)
    /\ Privs \subseteq Nat /\ Moderator \in Privs /\ \A p \in Privs : p <= Moderator
    /\ {MaxVersions, MaxRequests, MaxDrops, MaxCrashes, MaxReloads} \subseteq Nat

VARIABLES
    log,       \* the versions of the chat, on the API and on chatd
    sdk,       \* the SDK: state, the version it knows, the one it has on disk, our request
    posted,    \* the calls marshalled to the main thread
    k,         \* the client: initialisation, room, chat of chatd, database as it sees it
    disk,      \* the database as it is committed
    chatd,     \* chatd: whether we are subscribed, what it says, the removals that were lost
    budget     \* what is left of the bounds

vars == <<log, sdk, posted, k, disk, chatd, budget>>

Nobody == [u \in Users |-> NotPresent]
In(priv)  == {u \in Users : priv[u] # NotPresent}

\* what the API tells of a version: one who is not in the chat is not told who is
View(v) == IF log[v].priv[Me] = NotPresent THEN Nobody ELSE log[v].priv

NoRows == [scsn |-> 0, row |-> FALSE, priv |-> Nobody]

-----------------------------------------------------------------------------
(* The chat of chatd *)

\* with the only chat online, every chat is: each statement is a transaction from now on
SetOnlineState(c, s) ==
    [c EXCEPT !.online = s, !.commitEach = IF s = "online" /\ c.online # s THEN TRUE ELSE @]

Disable(c, state) ==
    IF state /\ ~c.disabled THEN [SetOnlineState(c, "offline") EXCEPT !.disabled = TRUE]
    ELSE [c EXCEPT !.disabled = state]

Login(c) == [SetOnlineState(c, "joining") EXCEPT !.asked = TRUE]

\* Chat::connect(): the first one starts the connection, which uses transactions again
Connect(c) ==
    CASE c.link = "new"  -> [c EXCEPT !.link = "down", !.commitEach = FALSE]
      [] c.link = "up"   -> Login(c)
      [] c.link = "down" -> c

\* mutant: only the chats that were online join again
RejoinExistingOnline(c) == IF c.known /\ ~c.disabled /\ c.online = "online" THEN Login(c) ELSE c

\* rejoinExistingChats()
RejoinExistingChats(c) == IF c.known /\ ~c.disabled THEN Login(c) ELSE c

-----------------------------------------------------------------------------
(* The room: the privilege of a peer is an entry of mPeers, ours is mOwnPriv; the rows are  *)
(* one of chats and those of chat_peers                                                     *)

SetBoth(c, u, p) == [c EXCEPT !.priv[u] = p, !.db.priv[u] = p]

\* syncOwnPriv(), addMember(), removeMember()
SyncOwnPriv(c, p)  == IF c.priv[Me] = p THEN c ELSE SetBoth(c, Me, p)
AddMember(c, u, p) == IF c.priv[u] = p THEN c ELSE SetBoth(c, u, p)
\* mutant: the row of a member who is removed stays
RemoveMemberRam(c, u) == [c EXCEPT !.priv[u] = NotPresent]

RemoveMember(c, u) == IF c.priv[u] = NotPresent THEN c ELSE SetBoth(c, u, NotPresent)

SetRemoved(c)      == SetBoth(c, Me, NotPresent)

RoomOnUserJoin(c, u, p) == IF u = Me THEN SyncOwnPriv(c, p) ELSE AddMember(c, u, p)

\* onUserLeave() for each of them: setRemoved() or removeMember()
RoomOnUsersLeave(c, users) ==
    LET gone == {u \in users : u = Me \/ c.priv[u] # NotPresent}
        left(rows) == [u \in Users |-> IF u \in gone THEN NotPresent ELSE rows[u]]
    IN [c EXCEPT !.priv = left(@), !.db.priv = left(@)]

\* the constructor for a chat of the API; our user is a user of the chat even when excluded
NewRoom(c, view) ==
    [c EXCEPT !.known = TRUE, !.priv = view, !.db.row = TRUE, !.db.priv = view,
              !.online = "offline", !.disabled = FALSE, !.mOwnPrivilege = Invalid,
              !.mUsers = In(view) \cup {Me}]

\* the constructor for a row of the database
LoadedRoom(c) ==
    IF ~c.db.row THEN c
    ELSE [c EXCEPT !.known = TRUE, !.priv = c.db.priv, !.mUsers = In(c.db.priv) \cup {Me}]

\* GroupChatRoom::connect()
RoomConnect(c) == IF c.online # "offline" THEN c ELSE Connect(c)

\* mutant: members who are no longer there are kept
SyncMembersAdding(c, view) ==
    LET differ == {u \in Peers : c.priv[u] # view[u] /\ view[u] # NotPresent}
        synced(rows) == [u \in Users |-> IF u \in differ THEN view[u] ELSE rows[u]]
    IN [c EXCEPT !.priv = synced(@), !.db.priv = synced(@)]

\* syncMembers(): the members that differ are removed, changed or added
SyncMembers(c, view) ==
    LET differ == {u \in Peers : c.priv[u] # view[u]}
        synced(rows) == [u \in Users |-> IF u \in differ THEN view[u] ELSE rows[u]]
    IN [c EXCEPT !.priv = synced(@), !.db.priv = synced(@)]

\* we are back: a chat disabled meanwhile is enabled, and one that is not joining joins
Rejoined(c) ==
    LET d == Disable(c, FALSE)
    IN IF d.connected /\ d.online = "offline" THEN Connect(d) ELSE d

SyncWithApi(c, view) ==
    LET old == c.priv[Me]
        d   == SyncOwnPriv(c, view[Me])
    IN IF old = view[Me] THEN SyncMembers(d, view)
       ELSE IF old = NotPresent THEN SyncMembers(Rejoined(d), view)
       ELSE IF view[Me] = NotPresent THEN SetRemoved(d)
       ELSE SyncMembers(d, view)

\* deleteRoomFromDb(), after the room has left the list and the chat its connection
DeleteRoom(c) ==
    [c EXCEPT !.known = FALSE, !.priv = Nobody, !.db.row = FALSE, !.db.priv = Nobody,
              !.online = "offline", !.disabled = FALSE, !.mOwnPrivilege = Invalid,
              !.mUsers = {}]

\* ChatRoomList::onChatsUpdate() with the list of one chat, or of none
OnChatsUpdate(c, v, checkDeleted) ==
    IF ~log[v].exists THEN IF checkDeleted /\ c.known THEN DeleteRoom(c) ELSE c
    ELSE IF c.known THEN SyncWithApi(c, View(v))
    ELSE LET d == NewRoom(c, View(v)) IN IF d.connected THEN RoomConnect(d) ELSE d

-----------------------------------------------------------------------------
(* What chatd tells of a chat *)

\* Chat::onUserJoin(): thrown away unless joining or online
ChatOnUserJoin(c, u, p) ==
    IF c.online = "offline" THEN c
    ELSE RoomOnUserJoin([c EXCEPT !.mUsers = @ \cup {u},
                                  !.mOwnPrivilege = IF u = Me THEN p ELSE @], u, p)

\* Chat::onUserLeave(): our own removal is that of every user of the chat
ChatOnUserLeave(c, u) ==
    IF u = Me
    THEN RoomOnUsersLeave([Disable(c, FALSE) EXCEPT !.mOwnPrivilege = NotPresent, !.mUsers = {}],
                          c.mUsers)
    ELSE RoomOnUsersLeave([c EXCEPT !.mUsers = @ \ {u}], {u})

\* execCommand(): a command for a chat that is not known is an exception
Exec(c, cmd) ==
    CASE ~c.known -> c
      [] c.known /\ cmd.op = "JOIN" ->
             IF cmd.priv = NotPresent THEN ChatOnUserLeave(c, cmd.user)
                                      ELSE ChatOnUserJoin(c, cmd.user, cmd.priv)
      [] c.known /\ cmd.op = "HISTDONE" ->
             IF c.online = "joining" THEN SetOnlineState(c, "online") ELSE c
      [] c.known /\ cmd.op = "REJECT" -> Disable(c, TRUE)

-----------------------------------------------------------------------------
(* What is marshalled to the main thread *)

\* Client::connect(), with connectToChatd()
ClientConnect(c) ==
    IF c.connected THEN c
    ELSE LET d == [c EXCEPT !.connected = TRUE]
         IN IF d.known /\ ~d.disabled THEN RoomConnect(d) ELSE d

InitWithNewSession(c, v) ==
    [OnChatsUpdate([c EXCEPT !.db = NoRows], v, FALSE) EXCEPT !.db.scsn = v]

\* mutant: the rows are taken for synchronised with every sequence number
CheckSyncTrusting(c, v, forceReload) ==
    IF ~forceReload THEN c ELSE [OnChatsUpdate(c, v, forceReload) EXCEPT !.db.scsn = v]

CheckSyncWithSdkDb(c, v, forceReload) ==
    IF ~forceReload /\ c.db.scsn = v THEN c
    ELSE [OnChatsUpdate(c, v, forceReload) EXCEPT !.db.scsn = v]

\* the lambda of TYPE_FETCH_NODES: the state is the one the SDK's thread has read
Fetched(c, e) ==
    CASE e.state = "HasOfflineSession" ->
             ClientConnect([CheckSyncWithSdkDb(c, e.scsn, FALSE)
                                EXCEPT !.mInitState = "HasOnlineSession"])
      [] e.state \in {"WaitingNewSession", "ErrNoCache"} ->
             ClientConnect([InitWithNewSession(c, e.scsn)
                                EXCEPT !.mInitState = "HasOnlineSession"])
      [] e.state = "HasOnlineSession" -> CheckSyncWithSdkDb(c, e.scsn, TRUE)

\* the continuation of setPrivilege() writes the row only
SetPrivilege(c, u, p) ==
    IF c.db.priv[u] = NotPresent /\ u # Me THEN c ELSE [c EXCEPT !.db.priv[u] = p]

\* the continuations of leave(), excludeMember(), invite() and setPrivilege()
Answered(c, e) ==
    CASE ~c.known -> c
      [] c.known /\ e.op = "leave"        -> SetRemoved(c)
      [] c.known /\ e.op = "exclude"      -> RemoveMember(c, e.user)
      [] c.known /\ e.op = "invite"       -> AddMember(c, e.user, e.priv)
      [] c.known /\ e.op = "setPrivilege" -> SetPrivilege(c, e.user, e.priv)

\* a call of the main thread
Called(c, e) ==
    CASE e.type = "chats"    -> OnChatsUpdate(c, e.scsn, FALSE)
      [] e.type = "commit"   -> [c EXCEPT !.db.scsn = e.scsn]
      [] e.type = "fetched"  -> Fetched(c, e)
      [] e.type = "answered" -> Answered(c, e)

Commits(e) == e.type \in {"commit", "fetched"}

-----------------------------------------------------------------------------
(* The server: the API and chatd have the same versions *)

Last_ == log[Len(log)]

Joins(priv, users) ==
    LET order == SetToSeq(users)
    IN [i \in DOMAIN order |-> [op |-> "JOIN", user |-> order[i], priv |-> priv[order[i]]]]

\* the JOINs of a change: nothing reaches one who is out, everything one who comes back
Told(old, new) ==
    LET differ == {u \in Users : old[u] # new[u]}
    IN IF ~chatd.joined THEN <<>>
       ELSE IF new[Me] = NotPresent
       THEN IF old[Me] = NotPresent THEN <<>>
            ELSE Joins(new, differ \ {Me}) \o Joins(new, {Me})
       ELSE IF old[Me] = NotPresent THEN Joins(new, In(new)) ELSE Joins(new, differ)

\* the last moderator who goes leaves moderators behind
Changed(priv, u, p) ==
    LET new == [priv EXCEPT ![u] = p]
    IN IF priv[u] = Moderator /\ p = NotPresent /\ \A w \in Users : new[w] # Moderator
       THEN [w \in Users |-> IF new[w] = NotPresent THEN NotPresent ELSE Moderator]
       ELSE new

NewVersion(priv) ==
    /\ Len(log) < MaxVersions
    /\ log' = Append(log, [exists |-> TRUE, priv |-> priv])
    /\ chatd' = [chatd EXCEPT !.down = @ \o Told(Last_.priv, priv)]

\* the chat is created by another user, who invites us
Created ==
    /\ ~Last_.exists /\ Len(log) = 1
    /\ \E u \in Peers, p \in Privs :
           NewVersion([w \in Users |-> IF w = Me THEN p
                                       ELSE IF w = u THEN Moderator ELSE NotPresent])
    /\ UNCHANGED <<sdk, posted, k, disk, budget>>

\* a member is invited, changed or removed by another one
ChangedByOther ==
    /\ Last_.exists
    /\ \E u \in Users, p \in Levels :
           /\ p # Last_.priv[u]
           /\ \E w \in Peers \ {u} : Last_.priv[w] = Moderator
           /\ NewVersion(Changed(Last_.priv, u, p))
    /\ UNCHANGED <<sdk, posted, k, disk, budget>>

\* the chat disappears from the API, which tells of it only in a list of all the chats
Deleted ==
    /\ Last_.exists
    /\ Len(log) < MaxVersions
    /\ log' = Append(log, [exists |-> FALSE, priv |-> Nobody])
    /\ chatd' = [chatd EXCEPT !.joined = FALSE]
    /\ UNCHANGED <<sdk, posted, k, disk, budget>>

\* the connection ends: what is under way is lost; that chatd removed someone is noted here
\* for RoomAgrees, since it will not say so again; our own removal is that of every user
Cut ==
    LET lost == {cmd.user : cmd \in {d \in ToSet(chatd.down) : d.op = "JOIN"
                                                              /\ d.priv = NotPresent}}
    IN [joined |-> FALSE, down |-> <<>>,
        unheard |-> chatd.unheard \cup lost \cup (IF Me \in lost THEN k.mUsers ELSE {})]

ChatdAnswersJoin ==
    /\ k.asked
    /\ k' = [k EXCEPT !.asked = FALSE]
    /\ chatd' =
           IF Last_.exists /\ Last_.priv[Me] # NotPresent
           THEN [chatd EXCEPT !.joined = TRUE,
                              !.down = @ \o Joins(Last_.priv, In(Last_.priv))
                                         \o <<[op |-> "HISTDONE"]>>]
           ELSE [chatd EXCEPT !.down = Append(@, [op |-> "REJECT"])]
    /\ UNCHANGED <<log, sdk, posted, disk, budget>>

-----------------------------------------------------------------------------
(* The SDK *)

Post(e) == posted' = Append(posted, e)

\* TYPE_FETCH_NODES: from its cache, or everything; action packets are paused
SdkFetches ==
    /\ sdk.state = "off"
    /\ LET v == IF k.mInitState = "HasOfflineSession" THEN sdk.disk ELSE Len(log)
       IN /\ sdk' = [sdk EXCEPT !.state = "paused", !.at = v, !.disk = v]
          /\ Post([type |-> "fetched", scsn |-> v, state |-> k.mInitState])
    /\ UNCHANGED <<log, k, disk, chatd, budget>>

\* a full reload, asked for by the API or by the user
SdkReloads ==
    /\ sdk.state = "running" /\ budget.reloads > 0
    /\ sdk' = [sdk EXCEPT !.state = "paused", !.at = Len(log), !.disk = Len(log)]
    /\ Post([type |-> "fetched", scsn |-> Len(log), state |-> k.mInitState])
    /\ budget' = [budget EXCEPT !.reloads = @ - 1]
    /\ UNCHANGED <<log, k, disk, chatd>>

\* action packets: what is notified is the last version of a batch
SdkUpdates ==
    /\ sdk.state = "running" /\ sdk.at < Len(log)
    /\ \E v \in sdk.at + 1 .. Len(log) :
           /\ sdk' = [sdk EXCEPT !.at = v]
           /\ IF log[v].exists THEN Post([type |-> "chats", scsn |-> v])
                               ELSE UNCHANGED posted
    /\ UNCHANGED <<log, k, disk, chatd, budget>>

\* EVENT_COMMIT_DB
SdkCommits ==
    /\ sdk.state = "running" /\ sdk.disk < sdk.at
    /\ sdk' = [sdk EXCEPT !.disk = sdk.at]
    /\ Post([type |-> "commit", scsn |-> sdk.at])
    /\ UNCHANGED <<log, k, disk, chatd, budget>>

NoRequest == [type |-> "none"]

\* the answer to our request comes before the packets that tell of what came after it
SdkAnswers ==
    /\ sdk.request # NoRequest
    /\ sdk.at <= sdk.request.scsn
    /\ Post(sdk.request)
    /\ sdk' = [sdk EXCEPT !.request = NoRequest]
    /\ UNCHANGED <<log, k, disk, chatd, budget>>

-----------------------------------------------------------------------------
(* The client *)

\* rows are committed with the handler when each statement is a transaction
CommitsEach == disk' = IF k'.commitEach THEN k'.db ELSE disk

MainThread ==
    /\ posted # <<>>
    /\ LET e == Head(posted)
       IN /\ k' = Called(k, e)
          /\ disk' = IF Commits(e) THEN k'.db ELSE IF k'.commitEach THEN k'.db ELSE disk
          /\ sdk' = IF e.type = "fetched" THEN [sdk EXCEPT !.state = "running"] ELSE sdk
    /\ posted' = Tail(posted)
    /\ UNCHANGED <<log, chatd, budget>>

\* heartbeat(): timedCommit()
CommitTimer ==
    /\ k.connected /\ ~k.commitEach /\ disk # k.db
    /\ disk' = k.db
    /\ UNCHANGED <<log, sdk, posted, k, chatd, budget>>

Receive ==
    /\ chatd.down # <<>>
    /\ k' = Exec(k, Head(chatd.down))
    /\ CommitsEach
    /\ chatd' = [chatd EXCEPT !.down = Tail(@)]
    /\ UNCHANGED <<log, sdk, posted, budget>>

LinkUp ==
    /\ k.link = "down"
    /\ k' = RejoinExistingChats([k EXCEPT !.link = "up"])
    /\ UNCHANGED <<log, sdk, posted, disk, chatd, budget>>

\* the connection is lost: onDisconnect(), and reconnect() uses transactions again
LinkDown ==
    /\ k.link = "up" /\ budget.drops > 0
    /\ k' = [k EXCEPT !.link = "down", !.asked = FALSE, !.online = "offline",
                      !.commitEach = FALSE]
    /\ chatd' = Cut
    /\ budget' = [budget EXCEPT !.drops = @ - 1]
    /\ UNCHANGED <<log, sdk, posted, disk>>

\* performRequest_removeFromChatroom, inviteToChatroom, updatePeerPermissions; the API does
\* what it allows, a refusal changes nothing
Request ==
    /\ budget.requests > 0 /\ sdk.request = NoRequest /\ sdk.state = "running"
    /\ k.known /\ Last_.exists
    /\ \E op \in {"leave", "exclude", "invite", "setPrivilege"}, u \in Users, p \in Levels :
           /\ Last_.priv[u] # p
           /\ CASE op = "leave"        -> u = Me /\ p = NotPresent
                [] op = "exclude"      -> u # Me /\ p = NotPresent
                [] op = "invite"       -> u # Me /\ Last_.priv[u] = NotPresent
                [] op = "setPrivilege" -> Last_.priv[u] # NotPresent /\ p # NotPresent
           /\ op # "leave" => k.priv[Me] = Moderator /\ Last_.priv[Me] = Moderator
           /\ NewVersion(Changed(Last_.priv, u, p))
           /\ sdk' = [sdk EXCEPT !.request = [type |-> "answered", op |-> op, user |-> u,
                                              priv |-> p, scsn |-> Len(log')]]
    /\ budget' = [budget EXCEPT !.requests = @ - 1]
    /\ UNCHANGED <<posted, k, disk>>

Started(db, mInitState) ==
    LoadedRoom([mInitState |-> mInitState, connected |-> FALSE, link |-> "new",
                asked |-> FALSE, known |-> FALSE, priv |-> Nobody, online |-> "offline",
                disabled |-> FALSE, mOwnPrivilege |-> Invalid, mUsers |-> {},
                commitEach |-> FALSE, db |-> db])

\* the process dies, or ends, and starts again from what is on disk: init() with the session
Restart ==
    /\ budget.crashes > 0
    /\ k' = Started(disk, IF disk.scsn = 0 THEN "ErrNoCache" ELSE "HasOfflineSession")
    /\ sdk' = [state |-> "off", at |-> sdk.disk, disk |-> sdk.disk, request |-> NoRequest]
    /\ posted' = <<>>
    /\ chatd' = Cut
    /\ budget' = [budget EXCEPT !.crashes = @ - 1]
    /\ UNCHANGED <<log, disk>>

Init ==
    /\ log \in {<<[exists |-> FALSE, priv |-> Nobody]>>,
                <<[exists |-> TRUE, priv |-> [u \in Users |-> Moderator]]>>}
    /\ sdk = [state |-> "off", at |-> 0, disk |-> 0, request |-> NoRequest]
    /\ posted = <<>>
    /\ k = Started(NoRows, "WaitingNewSession")
    /\ disk = NoRows
    /\ chatd = [joined |-> FALSE, down |-> <<>>, unheard |-> {}]
    /\ budget = [requests |-> MaxRequests, drops |-> MaxDrops, crashes |-> MaxCrashes,
                 reloads |-> MaxReloads]

Next ==
    \/ Created \/ ChangedByOther \/ Deleted \/ ChatdAnswersJoin
    \/ SdkFetches \/ SdkReloads \/ SdkUpdates \/ SdkCommits \/ SdkAnswers
    \/ MainThread \/ CommitTimer \/ Receive \/ LinkUp \/ LinkDown
    \/ Request \/ Restart

Spec == Init /\ [][Next]_vars

\* everything but the users and the faults goes on
FairSpec ==
    /\ Spec
    /\ WF_vars(ChatdAnswersJoin) /\ WF_vars(SdkFetches) /\ WF_vars(SdkUpdates)
    /\ WF_vars(SdkAnswers) /\ WF_vars(MainThread) /\ WF_vars(Receive) /\ WF_vars(LinkUp)

-----------------------------------------------------------------------------
(* Properties *)

InitStates == {"WaitingNewSession", "ErrNoCache", "HasOfflineSession", "HasOnlineSession"}
Version    == [exists : BOOLEAN, priv : [Users -> Levels]]
Rows       == [scsn : Nat, row : BOOLEAN, priv : [Users -> Levels]]
Room       == [mInitState : InitStates, connected : BOOLEAN, link : {"new", "down", "up"},
               asked : BOOLEAN, known : BOOLEAN, priv : [Users -> Levels],
               online : {"offline", "joining", "online"}, disabled : BOOLEAN,
               mOwnPrivilege : Levels \cup {Invalid}, mUsers : SUBSET Users,
               commitEach : BOOLEAN, db : Rows]
Command    == [op : {"JOIN"}, user : Users, priv : Levels] \cup [op : {"HISTDONE", "REJECT"}]
Requests   == {r \in [type : {"answered"}, op : {"leave", "exclude", "invite", "setPrivilege"},
                       user : Users, priv : Levels, scsn : Nat] :
                  r.op = "setPrivilege" => r.priv # NotPresent}
Known      == 1..Len(log)
Calls      == [type : {"chats", "commit"}, scsn : Known] \cup Requests
                  \cup [type : {"fetched"}, scsn : Known, state : InitStates]

\* The types of the state: what is marshalled speaks of versions that there are.
TypeOK ==
    /\ log \in Seq(Version) /\ log # <<>>
    /\ sdk \in [state : {"off", "paused", "running"}, at : {0} \cup Known, disk : {0} \cup Known,
                request : Requests \cup {NoRequest}]
    /\ posted \in Seq(Calls)
    /\ k \in Room /\ disk \in Rows
    /\ chatd \in [joined : BOOLEAN, down : Seq(Command), unheard : SUBSET Users]
    /\ budget \in [requests : Nat, drops : Nat, crashes : Nat, reloads : Nat]

\* With a session, the list of the chats and the database have the same rooms with the same
\* members: addMember(), removeMember(), syncMembers(), onChatsUpdate() and deleteRoomFromDb()
\* change both.  Only a privilege may differ, since setPrivilege() writes the row alone.
RowsMatchRoom ==
    k.mInitState = "HasOnlineSession" =>
        /\ k.known = k.db.row
        /\ In(k.priv) \ {Me} = In(k.db.priv) \ {Me}

\* everything said has been heard, and nothing is under way
Quiet ==
    /\ sdk.state = "running" /\ sdk.at = Len(log) /\ sdk.request = NoRequest
    /\ posted = <<>> /\ chatd.down = <<>> /\ ~k.asked

\* When a chat is online and everything said of it has been heard, from the API, from chatd and
\* in answers to our requests, in whatever order: the room has our privilege and, while we are
\* in the chat, those of its users, for all of whom messages are encrypted (mUsers); after a
\* crash, a lost connection and a reload too.  Nobody else is in the room, unless a connection
\* ended between a JOIN of theirs that chatd was late with and the one that removes them, or
\* the one that removes us, which would have removed them all (Chat::onUserLeave()): chatd does
\* not repeat it, and syncWithApi() has run before.  (GroupChatRoom::syncWithApi() and
\* Chat::onUserJoin() set the same members.)
RoomAgrees ==
    Quiet /\ k.known /\ Last_.exists /\ k.online = "online" =>
        /\ k.priv[Me] = Last_.priv[Me]
        /\ Last_.priv[Me] # NotPresent =>
               /\ \A u \in In(Last_.priv) : k.priv[u] = Last_.priv[u]
               /\ In(k.priv) \subseteq In(Last_.priv) \cup chatd.unheard
               /\ k.mOwnPrivilege = Last_.priv[Me]
               /\ In(Last_.priv) \subseteq k.mUsers

\* A chat that goes on to exist and that we are in is joined in the end, however often the
\* connection was lost and whichever way we came back (rejoinExistingChats(), connect() of a
\* room that is new or loaded, and of one whose own privilege is back), unless chatd refused.
JoinedInTheEnd ==
    []<>(k.online = "online" \/ k.disabled \/ ~Last_.exists \/ Last_.priv[Me] = NotPresent)

=============================================================================
