-------------------------- MODULE ChatRooms_proof --------------------------
(***************************************************************************)
(* Proofs about ChatRooms, for every set of peers and every bound: types,  *)
(* that with a session the rows of the database and the room in RAM have   *)
(* the same members, and that the room agrees with the chat when all that  *)
(* was said of it has been heard.                                          *)
(***************************************************************************)
EXTENDS ChatRooms, FiniteSetTheorems, SequenceTheorems, TLAPS

\* A room that is not in the list has no members, and no row; rows and room agree.
RoomInv(c) ==
    /\ c.known = c.db.row
    /\ In(c.priv) \ {Me} = In(c.db.priv) \ {Me}
    /\ ~c.known => c.priv = Nobody /\ c.db.priv = Nobody

\* Rows that were never synchronised are empty.
RowsInv(rows) ==
    /\ ~rows.row => rows.priv = Nobody
    /\ rows.scsn = 0 => ~rows.row

HasSession(c) == c.mInitState \in {"HasOfflineSession", "HasOnlineSession"}

\* The client has a session exactly when its rows have a sequence number.
SessionInv(c) == HasSession(c) <=> c.db.scsn # 0

\* Until a session is online, all that is marshalled is the answer to the fetch of the nodes.
FetchInv ==
    /\ \A i \in DOMAIN posted : posted[i].type = "fetched" => posted[i].state = k.mInitState
    /\ k.mInitState # "HasOnlineSession" =>
           /\ sdk.state # "running" /\ sdk.request = NoRequest
           /\ sdk.state = "off" => posted = <<>>
           /\ Len(posted) <= 1
           /\ \A i \in DOMAIN posted : posted[i].type = "fetched"

\* As long as the SDK has nothing on disk, nobody has heard anything from it.
DiskInv ==
    sdk.disk = 0 => /\ sdk.state = "off" /\ sdk.request = NoRequest /\ posted = <<>>
                    /\ k.db.scsn = 0 /\ disk.scsn = 0

RoomsInv == RoomInv(k) /\ RowsInv(k.db) /\ SessionInv(k) /\ RowsInv(disk)

IInv == TypeOK /\ RoomsInv /\ FetchInv /\ DiskInv

-----------------------------------------------------------------------------
(* The methods of the client, one by one: the room stays typed and like its rows *)

Good(c) == c \in Room /\ RoomInv(c)

Keeps(c, d) ==
    Good(d) /\ d.mInitState = c.mInitState /\ d.db.scsn = c.db.scsn /\ d.known = c.known

LEMMA NobodyTyped == NotPresent \in Levels /\ Me \in Users /\ Nobody \in [Users -> Levels]
BY DEF Nobody, Levels, Users

\* What changes only the chat of chatd keeps the room.
LEMMA ChatOnly ==
    ASSUME NEW c, Good(c), NEW d \in Room,
           d.priv = c.priv, d.db = c.db, d.known = c.known, d.mInitState = c.mInitState
    PROVE  Keeps(c, d)
BY DEF Good, Keeps, RoomInv

LEMMA SetOnlineStateKeeps ==
    ASSUME NEW c, Good(c), NEW s \in {"offline", "joining", "online"}
    PROVE  Keeps(c, SetOnlineState(c, s))
<1>1. SetOnlineState(c, s) \in Room
  BY DEF SetOnlineState, Good, Room
<1>2. QED
  BY ZenonT(30), <1>1, ChatOnly DEF SetOnlineState, Good, Room

LEMMA DisableKeeps ==
    ASSUME NEW c, Good(c), NEW state \in BOOLEAN
    PROVE  Keeps(c, Disable(c, state))
<1> DEFINE o == SetOnlineState(c, "offline")
<1>1. Keeps(c, o)
  BY SetOnlineStateKeeps
<1>2. [o EXCEPT !.disabled = TRUE] \in Room /\ [c EXCEPT !.disabled = state] \in Room
  BY <1>1 DEF Good, Keeps, Room
<1>3. Keeps(o, [o EXCEPT !.disabled = TRUE])
  <2>. HIDE DEF o
  <2>. QED
  BY <1>1, <1>2, ChatOnly DEF Keeps, Good, Room
<1>4. Keeps(c, [c EXCEPT !.disabled = state])
  BY <1>2, ChatOnly DEF Good, Room
<1>5. QED
  BY <1>1, <1>3, <1>4 DEF Disable, Keeps

LEMMA LoginKeeps ==
    ASSUME NEW c, Good(c)
    PROVE  Keeps(c, Login(c))
<1> DEFINE o == SetOnlineState(c, "joining")
<1>1. Keeps(c, o)
  BY SetOnlineStateKeeps
<1>2. Keeps(o, [o EXCEPT !.asked = TRUE])
  <2>. HIDE DEF o
  <2>1. [o EXCEPT !.asked = TRUE] \in Room
    BY <1>1 DEF Keeps, Good, Room
  <2>. QED
  BY <1>1, <2>1, ChatOnly DEF Keeps, Good, Room
<1>3. QED
  BY <1>1, <1>2 DEF Login, Keeps

LEMMA ConnectKeeps ==
    ASSUME NEW c, Good(c)
    PROVE  Keeps(c, Connect(c))
<1>1. CASE c.link = "new"
  <2>1. Connect(c) = [c EXCEPT !.link = "down", !.commitEach = FALSE]
    BY <1>1 DEF Connect
  <2>2. Connect(c) \in Room
    BY <2>1 DEF Good, Room
  <2>3. QED
    BY <2>1, <2>2, ChatOnly DEF Good, Room
<1>2. CASE c.link = "up"
  BY <1>2, LoginKeeps DEF Connect
<1>3. CASE c.link = "down"
  BY <1>3 DEF Connect, Keeps, Good
<1>4. QED
  BY <1>1, <1>2, <1>3 DEF Good, Room

LEMMA RoomConnectKeeps ==
    ASSUME NEW c, Good(c)
    PROVE  Keeps(c, RoomConnect(c))
BY ConnectKeeps DEF RoomConnect, Keeps

LEMMA RejoinedKeeps ==
    ASSUME NEW c, Good(c)
    PROVE  Keeps(c, Rejoined(c))
<1>1. Keeps(c, Disable(c, FALSE))
  BY DisableKeeps
<1>2. Keeps(Disable(c, FALSE), Connect(Disable(c, FALSE)))
  BY <1>1, ConnectKeeps DEF Keeps
<1>3. QED
  BY <1>1, <1>2 DEF Rejoined, Keeps

WithPrivs(c, new, row) == [c EXCEPT !.priv = new, !.db = [c.db EXCEPT !.priv = row]]

\* Setting the privileges of room and rows changes nothing else.
LEMMA WithPrivsFields ==
    ASSUME NEW c \in Room, NEW new \in [Users -> Levels], NEW row \in [Users -> Levels]
    PROVE  /\ WithPrivs(c, new, row) \in Room
           /\ WithPrivs(c, new, row).priv = new /\ WithPrivs(c, new, row).db.priv = row
           /\ WithPrivs(c, new, row).db.row = c.db.row
           /\ WithPrivs(c, new, row).db.scsn = c.db.scsn
           /\ WithPrivs(c, new, row).known = c.known
           /\ WithPrivs(c, new, row).mInitState = c.mInitState
<1> DEFINE r == [c.db EXCEPT !.priv = row]
<1>1. r \in Rows /\ r.priv = row /\ r.row = c.db.row /\ r.scsn = c.db.scsn
  BY DEF Room, Rows
<1>2. WithPrivs(c, new, row) = [c EXCEPT !.priv = new, !.db = r]
  BY DEF WithPrivs
<1>. HIDE DEF r
<1>3. [c EXCEPT !.priv = new, !.db = r] \in Room
  BY <1>1 DEF Room
<1>4. /\ [c EXCEPT !.priv = new, !.db = r].priv = new
      /\ [c EXCEPT !.priv = new, !.db = r].db = r
      /\ [c EXCEPT !.priv = new, !.db = r].known = c.known
      /\ [c EXCEPT !.priv = new, !.db = r].mInitState = c.mInitState
  BY DEF Room
<1>5. QED
  BY <1>1, <1>2, <1>3, <1>4

\* One privilege is set in room and rows.
LEMMA SetBothKeeps ==
    ASSUME NEW c, Good(c), c.known = TRUE, NEW u \in Users, NEW p \in Levels
    PROVE  Keeps(c, SetBoth(c, u, p))
<1> DEFINE new == [c.priv EXCEPT ![u] = p]
           row == [c.db.priv EXCEPT ![u] = p]
<1>1. c \in Room /\ c.priv \in [Users -> Levels] /\ c.db.priv \in [Users -> Levels]
  BY DEF Good, Room, Rows
<1>2. new \in [Users -> Levels] /\ row \in [Users -> Levels]
  BY <1>1
<1>3. In(new) \ {Me} = In(row) \ {Me}
  BY <1>1 DEF In, Good, RoomInv
<1>4. SetBoth(c, u, p) = WithPrivs(c, new, row)
  BY DEF SetBoth, WithPrivs
<1>. HIDE DEF new, row
<1> DEFINE e == WithPrivs(c, new, row)
<1>5. /\ e \in Room /\ e.priv = new /\ e.db.priv = row
      /\ e.db.row = c.db.row /\ e.db.scsn = c.db.scsn
      /\ e.known = c.known /\ e.mInitState = c.mInitState
  BY <1>1, <1>2, WithPrivsFields
<1>. HIDE DEF e
<1>6. c.known = c.db.row
  BY DEF Good, RoomInv
<1>7. Good(e)
  BY <1>3, <1>5, <1>6 DEF Good, RoomInv
<1>8. Keeps(c, e)
  BY <1>5, <1>7 DEF Keeps
<1>9. QED
  BY <1>4, <1>8 DEF e

LEMMA SyncOwnPrivKeeps ==
    ASSUME NEW c, Good(c), c.known = TRUE, NEW p \in Levels
    PROVE  Keeps(c, SyncOwnPriv(c, p))
BY SetBothKeeps, NobodyTyped DEF SyncOwnPriv, Keeps

LEMMA SetRemovedKeeps ==
    ASSUME NEW c, Good(c), c.known = TRUE
    PROVE  Keeps(c, SetRemoved(c))
BY SetBothKeeps, NobodyTyped DEF SetRemoved, Keeps

LEMMA AddMemberKeeps ==
    ASSUME NEW c, Good(c), c.known = TRUE, NEW u \in Users, NEW p \in Levels
    PROVE  Keeps(c, AddMember(c, u, p))
BY SetBothKeeps DEF AddMember, Keeps

LEMMA RemoveMemberKeeps ==
    ASSUME NEW c, Good(c), c.known = TRUE, NEW u \in Users
    PROVE  Keeps(c, RemoveMember(c, u))
BY SetBothKeeps, NobodyTyped DEF RemoveMember, Keeps

\* Room and rows are overwritten at the same places with the same privileges.
LEMMA OverwriteKeeps ==
    ASSUME NEW c, Good(c), c.known = TRUE, NEW d,
           NEW S \in SUBSET Users, NEW view \in [Users -> Levels],
           d = WithPrivs(c, [u \in Users |-> IF u \in S THEN view[u] ELSE c.priv[u]],
                            [u \in Users |-> IF u \in S THEN view[u] ELSE c.db.priv[u]])
    PROVE  Keeps(c, d)
<1> DEFINE new == [u \in Users |-> IF u \in S THEN view[u] ELSE c.priv[u]]
           row == [u \in Users |-> IF u \in S THEN view[u] ELSE c.db.priv[u]]
<1>1. c \in Room /\ c.priv \in [Users -> Levels] /\ c.db.priv \in [Users -> Levels]
  BY DEF Good, Room, Rows
<1>2. new \in [Users -> Levels] /\ row \in [Users -> Levels]
  BY <1>1
<1>3. In(new) \ {Me} = In(row) \ {Me}
  BY <1>1 DEF In, Good, RoomInv
<1>4. d = WithPrivs(c, new, row)
  OBVIOUS
<1>. HIDE DEF new, row
<1> DEFINE e == WithPrivs(c, new, row)
<1>5. /\ e \in Room /\ e.priv = new /\ e.db.priv = row
      /\ e.db.row = c.db.row /\ e.db.scsn = c.db.scsn
      /\ e.known = c.known /\ e.mInitState = c.mInitState
  BY SMTT(30), <1>1, <1>2, WithPrivsFields
<1>. HIDE DEF e
<1>6. c.known = c.db.row
  BY DEF Good, RoomInv
<1>7. Good(e)
  BY <1>3, <1>5, <1>6 DEF Good, RoomInv
<1>8. Keeps(c, e)
  BY <1>5, <1>7 DEF Keeps
<1>9. QED
  BY <1>4, <1>8 DEF e

LEMMA RoomOnUsersLeaveKeeps ==
    ASSUME NEW c, Good(c), c.known = TRUE, NEW users \in SUBSET Users
    PROVE  Keeps(c, RoomOnUsersLeave(c, users))
<1> DEFINE S == {u \in users : u = Me \/ c.priv[u] # NotPresent}
<1>1. S \in SUBSET Users /\ Nobody \in [Users -> Levels]
  BY NobodyTyped
<1>2. \A u \in S : Nobody[u] = NotPresent
  BY DEF Nobody
<1>3. RoomOnUsersLeave(c, users) =
          WithPrivs(c, [u \in Users |-> IF u \in S THEN Nobody[u] ELSE c.priv[u]],
                       [u \in Users |-> IF u \in S THEN Nobody[u] ELSE c.db.priv[u]])
  BY <1>2 DEF RoomOnUsersLeave, WithPrivs
<1>. HIDE DEF S
<1>4. QED
  BY <1>1, <1>3, OverwriteKeeps

LEMMA SyncMembersKeeps ==
    ASSUME NEW c, Good(c), c.known = TRUE, NEW view \in [Users -> Levels]
    PROVE  Keeps(c, SyncMembers(c, view))
<1> DEFINE S == {u \in Peers : c.priv[u] # view[u]}
<1>1. S \in SUBSET Users
  BY DEF Users
<1>2. SyncMembers(c, view) =
          WithPrivs(c, [u \in Users |-> IF u \in S THEN view[u] ELSE c.priv[u]],
                       [u \in Users |-> IF u \in S THEN view[u] ELSE c.db.priv[u]])
  BY DEF SyncMembers, WithPrivs
<1>. HIDE DEF S
<1>3. QED
  BY <1>1, <1>2, OverwriteKeeps

LEMMA SyncWithApiKeeps ==
    ASSUME NEW c, Good(c), c.known = TRUE, NEW view \in [Users -> Levels]
    PROVE  Keeps(c, SyncWithApi(c, view))
<1> DEFINE d == SyncOwnPriv(c, view[Me])
<1>1. view[Me] \in Levels
  BY NobodyTyped
<1>2. Keeps(c, d)
  BY <1>1, SyncOwnPrivKeeps
<1>3. SyncWithApi(c, view) \in {SyncMembers(d, view), SyncMembers(Rejoined(d), view), SetRemoved(d)}
  BY DEF SyncWithApi
<1>. HIDE DEF d
<1>4. Keeps(d, SyncMembers(d, view)) /\ Keeps(d, SetRemoved(d)) /\ Keeps(d, Rejoined(d))
  BY <1>2, SyncMembersKeeps, SetRemovedKeeps, RejoinedKeeps DEF Keeps
<1>5. Keeps(Rejoined(d), SyncMembers(Rejoined(d), view))
  BY <1>2, <1>4, SyncMembersKeeps DEF Keeps
<1>6. QED
  BY <1>2, <1>3, <1>4, <1>5 DEF Keeps

\* What the API says of a version is typed.
LEMMA ViewTyped ==
    ASSUME TypeOK, NEW v \in Known
    PROVE  View(v) \in [Users -> Levels] /\ log[v].exists \in BOOLEAN
<1>1. log[v] \in Version
  BY DEF TypeOK, Known
<1>2. QED
  BY <1>1, NobodyTyped DEF View, Version

\* A room is created: whatever the client had of it, room and row are the view.
LEMMA NewRoomGood ==
    ASSUME NEW c \in Room, NEW view \in [Users -> Levels]
    PROVE  /\ Good(NewRoom(c, view)) /\ NewRoom(c, view).known
           /\ NewRoom(c, view).mInitState = c.mInitState
           /\ NewRoom(c, view).db.scsn = c.db.scsn
<1> DEFINE r == [c.db EXCEPT !.row = TRUE, !.priv = view]
           m == In(view) \cup {Me}
<1>1. r \in Rows /\ r.priv = view /\ r.row = TRUE /\ r.scsn = c.db.scsn
  BY DEF Room, Rows
<1>2. m \in SUBSET Users
  BY NobodyTyped DEF In
<1>3. NewRoom(c, view) = [c EXCEPT !.known = TRUE, !.priv = view, !.db = r, !.online = "offline",
                                   !.disabled = FALSE, !.mOwnPrivilege = Invalid, !.mUsers = m]
  BY ZenonT(30) DEF NewRoom, Room, Rows
<1>. HIDE DEF r, m
<1>4. NewRoom(c, view) \in Room
  BY ZenonT(30), <1>1, <1>2, <1>3 DEF Room
<1>5. /\ NewRoom(c, view).known = TRUE /\ NewRoom(c, view).priv = view
      /\ NewRoom(c, view).db = r /\ NewRoom(c, view).mInitState = c.mInitState
  BY <1>3 DEF Room
<1>6. QED
  BY <1>1, <1>4, <1>5 DEF Good, RoomInv

LEMMA DeleteRoomGood ==
    ASSUME NEW c \in Room
    PROVE  /\ Good(DeleteRoom(c)) /\ DeleteRoom(c).mInitState = c.mInitState
           /\ DeleteRoom(c).db.scsn = c.db.scsn
<1> DEFINE r == [c.db EXCEPT !.row = FALSE, !.priv = Nobody]
<1>1. r \in Rows /\ r.priv = Nobody /\ r.row = FALSE /\ r.scsn = c.db.scsn
  BY NobodyTyped DEF Room, Rows
<1>2. DeleteRoom(c) = [c EXCEPT !.known = FALSE, !.priv = Nobody, !.db = r, !.online = "offline",
                                !.disabled = FALSE, !.mOwnPrivilege = Invalid, !.mUsers = {}]
  BY ZenonT(30) DEF DeleteRoom, Room, Rows
<1>. HIDE DEF r
<1>3. DeleteRoom(c) \in Room
  BY ZenonT(30), <1>1, <1>2, NobodyTyped DEF Room
<1>4. /\ DeleteRoom(c).known = FALSE /\ DeleteRoom(c).priv = Nobody
      /\ DeleteRoom(c).db = r /\ DeleteRoom(c).mInitState = c.mInitState
  BY <1>2 DEF Room
<1>5. QED
  BY <1>1, <1>3, <1>4 DEF Good, RoomInv

\* What may also create or delete the room.
Moves(c, d) == Good(d) /\ d.mInitState = c.mInitState /\ d.db.scsn = c.db.scsn

LEMMA OnChatsUpdateMoves ==
    ASSUME TypeOK, NEW c, Good(c), NEW v \in Known, NEW checkDeleted \in BOOLEAN
    PROVE  Moves(c, OnChatsUpdate(c, v, checkDeleted))
<1> DEFINE new == NewRoom(c, View(v))
<1>1. View(v) \in [Users -> Levels]
  BY ViewTyped
<1>2. c.known \in BOOLEAN
  BY DEF Good, Room
<1>3. Moves(c, c)
  BY DEF Moves
<1>4. Moves(c, DeleteRoom(c))
  BY DeleteRoomGood DEF Moves, Good
<1>5. c.known = TRUE => Moves(c, SyncWithApi(c, View(v)))
  BY <1>1, SyncWithApiKeeps DEF Moves, Keeps
<1>6. Moves(c, new)
  BY <1>1, NewRoomGood DEF Moves, Good
<1>7. Moves(c, RoomConnect(new))
  BY <1>6, RoomConnectKeeps DEF Moves, Keeps
<1>8. QED
  BY <1>2, <1>3, <1>4, <1>5, <1>6, <1>7 DEF OnChatsUpdate

LEMMA ChatOnUserJoinKeeps ==
    ASSUME NEW c, Good(c), c.known = TRUE, NEW u \in Users, NEW p \in Levels
    PROVE  Keeps(c, ChatOnUserJoin(c, u, p))
<1> DEFINE d == [c EXCEPT !.mUsers = @ \cup {u}, !.mOwnPrivilege = IF u = Me THEN p ELSE @]
<1>1. d \in Room
  BY DEF Good, Room
<1>2. Keeps(c, d)
  BY ZenonT(30), <1>1, ChatOnly DEF Good, Room
<1>3. ChatOnUserJoin(c, u, p) = IF c.online = "offline" THEN c ELSE RoomOnUserJoin(d, u, p)
  BY DEF ChatOnUserJoin
<1>. HIDE DEF d
<1>4. Keeps(d, RoomOnUserJoin(d, u, p))
  BY <1>2, SyncOwnPrivKeeps, AddMemberKeeps DEF RoomOnUserJoin, Keeps
<1>5. QED
  BY <1>2, <1>3, <1>4 DEF Keeps

LEMMA ChatOnUserLeaveKeeps ==
    ASSUME NEW c, Good(c), c.known = TRUE, NEW u \in Users
    PROVE  Keeps(c, ChatOnUserLeave(c, u))
<1>1. CASE u = Me
  <2> DEFINE o == Disable(c, FALSE)
             d == [o EXCEPT !.mOwnPrivilege = NotPresent, !.mUsers = {}]
  <2>1. Keeps(c, o)
    BY DisableKeeps
  <2>2. Keeps(o, d)
    <3>. HIDE DEF o
    <3>1. d \in Room
      BY <2>1, NobodyTyped DEF Keeps, Good, Room
    <3>2. d.priv = o.priv /\ d.db = o.db /\ d.known = o.known /\ d.mInitState = o.mInitState
      BY <2>1 DEF Keeps, Good, Room
    <3>. HIDE DEF d
    <3>. QED
      BY <2>1, <3>1, <3>2, ChatOnly DEF Keeps
  <2>3. ChatOnUserLeave(c, u) = RoomOnUsersLeave(d, c.mUsers)
    BY <1>1 DEF ChatOnUserLeave
  <2>4. c.mUsers \in SUBSET Users
    BY DEF Good, Room
  <2>. HIDE DEF o, d
  <2>5. Keeps(d, RoomOnUsersLeave(d, c.mUsers))
    BY <2>1, <2>2, <2>4, RoomOnUsersLeaveKeeps DEF Keeps
  <2>. QED
    BY <2>1, <2>2, <2>3, <2>5 DEF Keeps
<1>2. CASE u # Me
  <2> DEFINE d == [c EXCEPT !.mUsers = @ \ {u}]
  <2>1. d \in Room
    BY DEF Good, Room
  <2>2. Keeps(c, d)
    BY <2>1, ChatOnly DEF Good, Room
  <2>3. ChatOnUserLeave(c, u) = RoomOnUsersLeave(d, {u})
    BY <1>2 DEF ChatOnUserLeave
  <2>. HIDE DEF d
  <2>4. Keeps(d, RoomOnUsersLeave(d, {u}))
    BY <2>2, RoomOnUsersLeaveKeeps DEF Keeps
  <2>. QED
    BY <2>2, <2>3, <2>4 DEF Keeps
<1>3. QED
  BY <1>1, <1>2

\* A command of chatd changes members in room and rows.
LEMMA ExecKeeps ==
    ASSUME NEW c, Good(c), NEW cmd \in Command
    PROVE  Keeps(c, Exec(c, cmd))
<1>1. CASE c.known = FALSE
  BY <1>1 DEF Exec, Keeps
<1>2. CASE c.known = TRUE /\ cmd.op = "JOIN"
  <2>1. cmd.user \in Users /\ cmd.priv \in Levels
    BY <1>2 DEF Command
  <2>2. Exec(c, cmd) = IF cmd.priv = NotPresent THEN ChatOnUserLeave(c, cmd.user)
                                               ELSE ChatOnUserJoin(c, cmd.user, cmd.priv)
    BY <1>2 DEF Exec
  <2>. QED
    BY <1>2, <2>1, <2>2, ChatOnUserJoinKeeps, ChatOnUserLeaveKeeps
<1>3. CASE c.known = TRUE /\ cmd.op = "HISTDONE"
  <2>1. Exec(c, cmd) = IF c.online = "joining" THEN SetOnlineState(c, "online") ELSE c
    BY <1>3 DEF Exec
  <2>. QED
    BY <2>1, SetOnlineStateKeeps DEF Keeps
<1>4. CASE c.known = TRUE /\ cmd.op = "REJECT"
  <2>1. Exec(c, cmd) = Disable(c, TRUE)
    BY <1>4 DEF Exec
  <2>. QED
    BY <2>1, DisableKeeps
<1>5. QED
  BY <1>1, <1>2, <1>3, <1>4 DEF Good, Room, Command

LEMMA ClientConnectKeeps ==
    ASSUME NEW c, Good(c)
    PROVE  Keeps(c, ClientConnect(c))
<1> DEFINE d == [c EXCEPT !.connected = TRUE]
<1>1. d \in Room
  BY DEF Good, Room
<1>2. Keeps(c, d)
  BY <1>1, ChatOnly DEF Good, Room
<1>3. ClientConnect(c) \in {c, d, RoomConnect(d)}
  BY DEF ClientConnect
<1>. HIDE DEF d
<1>4. Keeps(d, RoomConnect(d))
  BY <1>2, RoomConnectKeeps DEF Keeps
<1>5. QED
  BY <1>2, <1>3, <1>4 DEF Keeps

\* The sequence number is set.
LEMMA ScsnSet ==
    ASSUME NEW c, Good(c), NEW v \in Nat
    PROVE  /\ Good([c EXCEPT !.db.scsn = v])
           /\ [c EXCEPT !.db.scsn = v].mInitState = c.mInitState
           /\ [c EXCEPT !.db.scsn = v].db.scsn = v
<1> DEFINE r == [c.db EXCEPT !.scsn = v]
           d == [c EXCEPT !.db = r]
<1>1. r \in Rows /\ r.scsn = v /\ r.row = c.db.row /\ r.priv = c.db.priv
  BY DEF Good, Room, Rows
<1>2. [c EXCEPT !.db.scsn = v] = d
  OBVIOUS
<1>. HIDE DEF r
<1>3. /\ d \in Room /\ d.db = r /\ d.priv = c.priv /\ d.known = c.known
      /\ d.mInitState = c.mInitState
  BY <1>1 DEF Good, Room
<1>. HIDE DEF d
<1>4. Good(d)
  BY <1>1, <1>3 DEF Good, RoomInv
<1>5. QED
  BY <1>1, <1>2, <1>3, <1>4

\* After a fetch of a new session the room is the one of the API, and its rows have the number.
LEMMA InitWithNewSessionMoves ==
    ASSUME TypeOK, NEW c, Good(c), c.known = FALSE, NEW v \in Known
    PROVE  LET d == InitWithNewSession(c, v) IN Good(d) /\ d.db.scsn = v
<1> DEFINE e == [c EXCEPT !.db = NoRows]
           d == OnChatsUpdate(e, v, FALSE)
<1>1. NoRows \in Rows /\ NoRows.row = FALSE /\ NoRows.priv = Nobody
  BY NobodyTyped DEF NoRows, Rows
<1>2. e \in Room /\ e.db = NoRows /\ e.known = FALSE /\ e.priv = c.priv
  BY <1>1 DEF Good, Room
<1>3. c.priv = Nobody
  BY DEF Good, RoomInv
<1>. HIDE DEF e
<1>4. Good(e)
  BY <1>1, <1>2, <1>3 DEF Good, RoomInv
<1>5. Good(d)
  BY <1>4, OnChatsUpdateMoves DEF Moves
<1>6. v \in Nat
  BY DEF Known, TypeOK
<1>. HIDE DEF d
<1>7. Good([d EXCEPT !.db.scsn = v]) /\ [d EXCEPT !.db.scsn = v].db.scsn = v
  BY <1>5, <1>6, ScsnSet
<1>8. InitWithNewSession(c, v) = [d EXCEPT !.db.scsn = v]
  BY DEF InitWithNewSession, d, e
<1>9. QED
  BY <1>7, <1>8

LEMMA CheckSyncMoves ==
    ASSUME TypeOK, NEW c, Good(c), NEW v \in Known, NEW forceReload \in BOOLEAN
    PROVE  LET d == CheckSyncWithSdkDb(c, v, forceReload) IN
           Good(d) /\ d.db.scsn = v /\ d.mInitState = c.mInitState
<1> DEFINE d == OnChatsUpdate(c, v, forceReload)
<1>1. Moves(c, d)
  BY OnChatsUpdateMoves
<1>2. v \in Nat
  BY DEF Known, TypeOK
<1>3. CheckSyncWithSdkDb(c, v, forceReload) =
          IF ~forceReload /\ c.db.scsn = v THEN c ELSE [d EXCEPT !.db.scsn = v]
  BY DEF CheckSyncWithSdkDb
<1>. HIDE DEF d
<1>4. /\ Good([d EXCEPT !.db.scsn = v]) /\ [d EXCEPT !.db.scsn = v].db.scsn = v
      /\ [d EXCEPT !.db.scsn = v].mInitState = c.mInitState
  BY <1>1, <1>2, ScsnSet DEF Moves
<1>5. QED
  BY <1>3, <1>4

\* The initialisation state is set.
LEMMA OnlineSet ==
    ASSUME NEW c, Good(c)
    PROVE  LET d == [c EXCEPT !.mInitState = "HasOnlineSession"] IN
           Good(d) /\ d.mInitState = "HasOnlineSession" /\ d.db = c.db
<1> DEFINE d == [c EXCEPT !.mInitState = "HasOnlineSession"]
<1>1. d \in Room
  BY DEF Good, Room, InitStates
<1>2. /\ d.db = c.db /\ d.priv = c.priv /\ d.known = c.known
      /\ d.mInitState = "HasOnlineSession"
  BY DEF Good, Room
<1>. HIDE DEF d
<1>3. Good(d)
  BY <1>1, <1>2 DEF Good, RoomInv
<1>4. QED
  BY <1>2, <1>3 DEF d

\* After a fetch there is a session, and the rows have the sequence number of the fetch.
LEMMA FetchedGood ==
    ASSUME TypeOK, NEW c, Good(c), SessionInv(c), RowsInv(c.db),
           NEW e, e.state = c.mInitState, e.scsn \in Known
    PROVE  /\ Good(Fetched(c, e)) /\ Fetched(c, e).mInitState = "HasOnlineSession"
           /\ Fetched(c, e).db.scsn = e.scsn
<1> DEFINE Goal(d) == Good(d) /\ d.mInitState = "HasOnlineSession" /\ d.db.scsn = e.scsn
<1>0. ASSUME NEW d, Good(d), d.db.scsn = e.scsn
      PROVE  Goal(ClientConnect([d EXCEPT !.mInitState = "HasOnlineSession"]))
  <2> DEFINE o == [d EXCEPT !.mInitState = "HasOnlineSession"]
  <2>1. Good(o) /\ o.mInitState = "HasOnlineSession" /\ o.db = d.db
    BY <1>0, OnlineSet
  <2>. HIDE DEF o
  <2>2. Keeps(o, ClientConnect(o))
    BY <2>1, ClientConnectKeeps
  <2>3. Goal(ClientConnect(o))
    BY <1>0, <2>1, <2>2 DEF Keeps
  <2>. QED
    BY <2>3 DEF o
<1>1. CASE c.mInitState = "HasOfflineSession"
  <2> DEFINE d == CheckSyncWithSdkDb(c, e.scsn, FALSE)
  <2>1. Good(d) /\ d.db.scsn = e.scsn
    BY CheckSyncMoves
  <2>2. Fetched(c, e) = ClientConnect([d EXCEPT !.mInitState = "HasOnlineSession"])
    BY <1>1 DEF Fetched
  <2>. QED
    BY <1>0, <2>1, <2>2
<1>2. CASE c.mInitState \in {"WaitingNewSession", "ErrNoCache"}
  <2> DEFINE d == InitWithNewSession(c, e.scsn)
  <2>1. c.known = FALSE
    <3>1. c.db.scsn = 0
      BY <1>2 DEF SessionInv, HasSession
    <3>2. c.known \in BOOLEAN /\ c.db.row \in BOOLEAN
      BY DEF Good, Room, Rows
    <3>. QED
      BY <3>1, <3>2 DEF RowsInv, Good, RoomInv
  <2>2. Good(d) /\ d.db.scsn = e.scsn
    BY <2>1, InitWithNewSessionMoves
  <2>3. Fetched(c, e) = ClientConnect([d EXCEPT !.mInitState = "HasOnlineSession"])
    BY <1>2 DEF Fetched
  <2>. QED
    BY <1>0, <2>2, <2>3
<1>3. CASE c.mInitState = "HasOnlineSession"
  <2>1. Fetched(c, e) = CheckSyncWithSdkDb(c, e.scsn, TRUE)
    BY <1>3 DEF Fetched
  <2>. QED
    BY ZenonT(30), <1>3, <2>1, CheckSyncMoves
<1>4. QED
  BY <1>1, <1>2, <1>3 DEF Good, Room, InitStates

\* The answer to a request of ours.
LEMMA AnsweredKeeps ==
    ASSUME NEW c, Good(c), NEW e \in Requests
    PROVE  Keeps(c, Answered(c, e))
<1>0. e.user \in Users /\ e.priv \in Levels /\ e.op \in {"leave", "exclude", "invite", "setPrivilege"}
  BY DEF Requests
<1>1. CASE c.known = FALSE
  BY <1>1 DEF Answered, Keeps
<1>2. CASE c.known = TRUE /\ e.op = "leave"
  <2>1. Answered(c, e) = SetRemoved(c)
    BY <1>2 DEF Answered
  <2>. QED
    BY <1>2, <2>1, SetRemovedKeeps
<1>3. CASE c.known = TRUE /\ e.op = "exclude"
  <2>1. Answered(c, e) = RemoveMember(c, e.user)
    BY <1>3 DEF Answered
  <2>. QED
    BY <1>0, <1>3, <2>1, RemoveMemberKeeps
<1>4. CASE c.known = TRUE /\ e.op = "invite"
  <2>1. Answered(c, e) = AddMember(c, e.user, e.priv)
    BY <1>4 DEF Answered
  <2>. QED
    BY <1>0, <1>4, <2>1, AddMemberKeeps
<1>5. CASE c.known = TRUE /\ e.op = "setPrivilege"
  <2> DEFINE row == [c.db.priv EXCEPT ![e.user] = e.priv]
  <2>1. Answered(c, e) = IF c.db.priv[e.user] = NotPresent /\ e.user # Me THEN c
                         ELSE [c EXCEPT !.db.priv[e.user] = e.priv]
    BY <1>5 DEF Answered, SetPrivilege
  <2>2. c \in Room /\ c.priv \in [Users -> Levels] /\ c.db.priv \in [Users -> Levels]
    BY DEF Good, Room, Rows
  <2>3. row \in [Users -> Levels]
    BY <1>0, <2>2
  <2>4. e.priv # NotPresent
    BY <1>5 DEF Requests
  <2>5. ASSUME ~(c.db.priv[e.user] = NotPresent /\ e.user # Me)
        PROVE  In(c.priv) \ {Me} = In(row) \ {Me}
    BY <1>0, <2>2, <2>4, <2>5 DEF In, Good, RoomInv
  <2>6. [c EXCEPT !.db.priv[e.user] = e.priv] = WithPrivs(c, c.priv, row)
    BY <2>2 DEF WithPrivs, Room
  <2> DEFINE d == WithPrivs(c, c.priv, row)
  <2>. HIDE DEF row
  <2>7. /\ d \in Room /\ d.priv = c.priv /\ d.db.priv = row
        /\ d.db.row = c.db.row /\ d.db.scsn = c.db.scsn
        /\ d.known = c.known /\ d.mInitState = c.mInitState
    BY <2>2, <2>3, WithPrivsFields
  <2>. HIDE DEF d
  <2>8. ASSUME ~(c.db.priv[e.user] = NotPresent /\ e.user # Me)
        PROVE  Keeps(c, d)
    BY <1>5, <2>5, <2>7, <2>8 DEF Keeps, Good, RoomInv
  <2>. QED
    BY <2>1, <2>6, <2>8 DEF Keeps, d
<1>6. QED
  BY <1>0, <1>1, <1>2, <1>3, <1>4, <1>5 DEF Good, Room

-----------------------------------------------------------------------------
(* What the server says is typed *)

LEMMA UsersFinite == IsFiniteSet(Users)
BY RoomsAssumption, FS_AddElement DEF Users

LEMMA ModeratorTyped == Moderator \in Levels
BY RoomsAssumption DEF Levels

LEMMA JoinsTyped ==
    ASSUME NEW priv \in [Users -> Levels], NEW users \in SUBSET Users
    PROVE  Joins(priv, users) \in Seq(Command)
<1> DEFINE order == SetToSeq(users)
           n == Cardinality(users)
<1>1. IsFiniteSet(users)
  BY UsersFinite, FS_Subset
<1>2. n \in Nat /\ ExistsBijection(1..n, users)
  BY <1>1, FS_CardinalityType
<1>3. \E f \in [1..n -> users] : IsInjective(f)
  BY <1>2 DEF ExistsBijection, Bijection, Injection
<1>4. order \in [1..n -> users]
  BY <1>3 DEF SetToSeq
<1>5. Joins(priv, users) = [i \in 1..n |-> [op |-> "JOIN", user |-> order[i], priv |-> priv[order[i]]]]
  BY <1>4 DEF Joins
<1>. HIDE DEF order, n
<1>6. \A i \in 1..n : [op |-> "JOIN", user |-> order[i], priv |-> priv[order[i]]] \in Command
  BY <1>4 DEF Command
<1>7. QED
  BY <1>2, <1>5, <1>6

LEMMA ToldTyped ==
    ASSUME NEW old \in [Users -> Levels], NEW new \in [Users -> Levels]
    PROVE  Told(old, new) \in Seq(Command)
<1> DEFINE differ == {u \in Users : old[u] # new[u]}
<1>1. /\ differ \in SUBSET Users /\ In(new) \in SUBSET Users
      /\ differ \ {Me} \in SUBSET Users /\ {Me} \in SUBSET Users
  BY NobodyTyped DEF In
<1>2. Told(old, new) \in {<<>>, Joins(new, differ \ {Me}) \o Joins(new, {Me}),
                          Joins(new, In(new)), Joins(new, differ)}
  BY DEF Told
<1>. HIDE DEF differ
<1>3. /\ Joins(new, differ \ {Me}) \in Seq(Command) /\ Joins(new, {Me}) \in Seq(Command)
      /\ Joins(new, In(new)) \in Seq(Command) /\ Joins(new, differ) \in Seq(Command)
  BY <1>1, JoinsTyped
<1>4. <<>> \in Seq(Command)
      /\ Joins(new, differ \ {Me}) \o Joins(new, {Me}) \in Seq(Command)
  BY <1>3, ConcatProperties, EmptySeq
<1>5. QED
  BY <1>2, <1>3, <1>4

LEMMA ChangedTyped ==
    ASSUME NEW priv \in [Users -> Levels], NEW u \in Users, NEW p \in Levels
    PROVE  Changed(priv, u, p) \in [Users -> Levels]
BY NobodyTyped, ModeratorTyped DEF Changed

LEMMA LastTyped ==
    ASSUME TypeOK
    PROVE  /\ Len(log) \in Known /\ Known \subseteq Nat
           /\ Last_.priv \in [Users -> Levels] /\ Last_.exists \in BOOLEAN
<1>1. Len(log) \in Nat /\ Len(log) # 0
  BY DEF TypeOK
<1>2. Len(log) \in Known /\ Known \subseteq Nat
  BY <1>1 DEF Known
<1>3. Last_ \in Version
  BY <1>2, ElementOfSeq DEF TypeOK, Known, Last_
<1>4. QED
  BY <1>2, <1>3 DEF Version

\* What the log says of a version stays, and what is marshalled stays typed, when it grows.
Grows == log' \in Seq(Version) /\ log' # <<>> /\ Known \subseteq Known' /\ Calls \subseteq Calls'

LEMMA AppendGrows ==
    ASSUME TypeOK, NEW version \in Version, log' = Append(log, version)
    PROVE  Grows /\ Len(log') = Len(log) + 1
<1>1. log' \in Seq(Version) /\ log' # <<>> /\ Len(log') = Len(log) + 1 /\ Len(log) \in Nat
  BY SMTT(30) DEF TypeOK
<1>2. Known \subseteq Known'
  BY <1>1 DEF Known
<1>3. Calls \subseteq Calls'
  BY <1>2 DEF Calls
<1>4. QED
  BY <1>1, <1>2, <1>3 DEF Grows

LEMMA NewVersionTyped ==
    ASSUME TypeOK, NEW priv \in [Users -> Levels], NewVersion(priv)
    PROVE  /\ Grows /\ Len(log') = Len(log) + 1
           /\ chatd' \in [joined : BOOLEAN, down : Seq(Command), unheard : SUBSET Users]
<1>1. [exists |-> TRUE, priv |-> priv] \in Version
  BY DEF Version
<1>2. log' = Append(log, [exists |-> TRUE, priv |-> priv])
  BY DEF NewVersion
<1>3. Grows /\ Len(log') = Len(log) + 1
  BY <1>1, <1>2, AppendGrows
<1>4. Told(Last_.priv, priv) \in Seq(Command)
  BY LastTyped, ToldTyped
<1>5. chatd.down \o Told(Last_.priv, priv) \in Seq(Command)
  BY <1>4, ConcatProperties DEF TypeOK
<1>6. QED
  BY <1>3, <1>5 DEF NewVersion, TypeOK

LEMMA CutTyped ==
    ASSUME TypeOK
    PROVE  Cut \in [joined : BOOLEAN, down : Seq(Command), unheard : SUBSET Users]
<1> DEFINE lost == {cmd.user : cmd \in {d \in ToSet(chatd.down) : d.op = "JOIN"
                                                              /\ d.priv = NotPresent}}
<1>1. chatd.down \in Seq(Command) /\ chatd.unheard \in SUBSET Users /\ k.mUsers \in SUBSET Users
  BY DEF TypeOK, Room
<1>2. ToSet(chatd.down) \subseteq Command
  BY <1>1 DEF ToSet
<1>3. lost \in SUBSET Users
  BY <1>2 DEF Command
<1>4. Cut = [joined |-> FALSE, down |-> <<>>,
             unheard |-> chatd.unheard \cup lost \cup (IF Me \in lost THEN k.mUsers ELSE {})]
  BY DEF Cut
<1>. HIDE DEF lost
<1>5. QED
  BY <1>1, <1>3, <1>4

-----------------------------------------------------------------------------
(* The actions, one by one *)

Budgets == [requests : Nat, drops : Nat, crashes : Nat, reloads : Nat]

LEMMA BudgetTyped ==
    ASSUME TypeOK
    PROVE  /\ budget \in Budgets
           /\ budget.requests > 0 => [budget EXCEPT !.requests = @ - 1] \in Budgets
           /\ budget.drops > 0    => [budget EXCEPT !.drops = @ - 1] \in Budgets
           /\ budget.crashes > 0  => [budget EXCEPT !.crashes = @ - 1] \in Budgets
           /\ budget.reloads > 0  => [budget EXCEPT !.reloads = @ - 1] \in Budgets
<1>1. budget \in Budgets
  BY DEF TypeOK, Budgets
<1>2. \A n \in Nat : n > 0 => n - 1 \in Nat
  OBVIOUS
<1>3. QED
  BY <1>1, <1>2 DEF Budgets

\* With nothing but the log, what chatd says and the budget changed, the invariant stays.
LEMMA ServerStep ==
    ASSUME IInv, Grows, UNCHANGED <<sdk, posted, k, disk>>,
           chatd' \in [joined : BOOLEAN, down : Seq(Command), unheard : SUBSET Users],
           budget' \in Budgets
    PROVE  IInv'
<1>1. /\ sdk \in [state : {"off", "paused", "running"}, at : {0} \cup Known',
                  disk : {0} \cup Known', request : Requests \cup {NoRequest}]
      /\ posted \in Seq(Calls')
  BY SeqMonotonic DEF IInv, TypeOK, Grows
<1>2. TypeOK'
  BY <1>1 DEF IInv, TypeOK, Grows, Budgets
<1>3. QED
  BY <1>2 DEF IInv, RoomsInv, RoomInv, RowsInv, SessionInv, HasSession, FetchInv, DiskInv

LEMMA CreatedKeeps == ASSUME IInv, Created PROVE IInv'
<1>1. PICK u \in Peers, p \in Privs :
          NewVersion([w \in Users |-> IF w = Me THEN p ELSE IF w = u THEN Moderator ELSE NotPresent])
  BY DEF Created
<1>2. [w \in Users |-> IF w = Me THEN p ELSE IF w = u THEN Moderator ELSE NotPresent]
          \in [Users -> Levels]
  BY NobodyTyped, ModeratorTyped DEF Levels
<1>3. Grows /\ chatd' \in [joined : BOOLEAN, down : Seq(Command), unheard : SUBSET Users]
  BY <1>1, <1>2, NewVersionTyped DEF IInv
<1>4. QED
  BY <1>3, ServerStep DEF Created, IInv, TypeOK, Budgets

LEMMA ChangedByOtherKeeps == ASSUME IInv, ChangedByOther PROVE IInv'
<1>1. PICK u \in Users, p \in Levels : NewVersion(Changed(Last_.priv, u, p))
  BY DEF ChangedByOther
<1>2. Changed(Last_.priv, u, p) \in [Users -> Levels]
  BY LastTyped, ChangedTyped DEF IInv
<1>3. Grows /\ chatd' \in [joined : BOOLEAN, down : Seq(Command), unheard : SUBSET Users]
  BY <1>1, <1>2, NewVersionTyped DEF IInv
<1>4. QED
  BY <1>3, ServerStep DEF ChangedByOther, IInv, TypeOK, Budgets

LEMMA DeletedKeeps == ASSUME IInv, Deleted PROVE IInv'
<1>1. [exists |-> FALSE, priv |-> Nobody] \in Version
  BY NobodyTyped DEF Version
<1>2. Grows
  BY <1>1, AppendGrows DEF Deleted, IInv
<1>3. QED
  BY <1>2, ServerStep DEF Deleted, IInv, TypeOK, Budgets

\* What the handlers of the main thread and of chatd keep: rows and session follow the room.
LEMMA KeepsRows ==
    ASSUME NEW c, Good(c), RowsInv(c.db), SessionInv(c), NEW d, Keeps(c, d)
    PROVE  RoomInv(d) /\ RowsInv(d.db) /\ SessionInv(d)
BY DEF Good, Keeps, RoomInv, RowsInv, SessionInv, HasSession

\* Only the room changes, and the disk has the rows it had or those of the room.
LEMMA RoomStep ==
    ASSUME IInv, Keeps(k, k'), UNCHANGED <<log, sdk, posted>>, disk' \in {disk, k'.db},
           chatd' \in [joined : BOOLEAN, down : Seq(Command), unheard : SUBSET Users],
           budget' \in Budgets
    PROVE  IInv'
<1>1. Good(k) /\ RowsInv(k.db) /\ SessionInv(k) /\ RowsInv(disk)
  BY DEF IInv, RoomsInv, TypeOK, Good
<1>2. RoomInv(k') /\ RowsInv(k'.db) /\ SessionInv(k')
  BY <1>1, KeepsRows
<1>3. k' \in Room /\ k'.mInitState = k.mInitState /\ k'.db.scsn = k.db.scsn /\ k'.db \in Rows
  BY DEF Keeps, Good, Room
<1>4. TypeOK'
  BY <1>3 DEF IInv, TypeOK, Known, Calls, Budgets
<1>5. RoomsInv'
  BY <1>1, <1>2 DEF RoomsInv
<1>6. FetchInv' /\ DiskInv'
  BY <1>3 DEF IInv, FetchInv, DiskInv
<1>7. QED
  BY <1>4, <1>5, <1>6 DEF IInv

LEMMA ChatdAnswersJoinKeeps == ASSUME IInv, ChatdAnswersJoin PROVE IInv'
<1>1. Good(k)
  BY DEF IInv, RoomsInv, TypeOK, Good
<1>2. k' \in Room /\ k'.priv = k.priv /\ k'.db = k.db /\ k'.known = k.known
          /\ k'.mInitState = k.mInitState
  BY <1>1 DEF ChatdAnswersJoin, Good, Room
<1>3. Keeps(k, k')
  BY <1>1, <1>2, ChatOnly
<1>4. chatd' \in [joined : BOOLEAN, down : Seq(Command), unheard : SUBSET Users]
  <2> DEFINE joins == Joins(Last_.priv, In(Last_.priv))
  <2>1. Last_.priv \in [Users -> Levels] /\ In(Last_.priv) \in SUBSET Users
    BY LastTyped DEF IInv, In
  <2>2. joins \in Seq(Command)
    BY <2>1, JoinsTyped
  <2>. HIDE DEF joins
  <2>3. <<[op |-> "HISTDONE"]>> \in Seq(Command) /\ [op |-> "REJECT"] \in Command
    BY DEF Command
  <2>4. chatd.down \in Seq(Command)
    BY DEF IInv, TypeOK
  <2>5. chatd.down \o joins \in Seq(Command)
    BY <2>2, <2>4, ConcatProperties
  <2> DEFINE more == chatd.down \o joins \o <<[op |-> "HISTDONE"]>>
  <2>6. more \in Seq(Command)
    BY <2>3, <2>5, ConcatProperties
  <2>7. Append(chatd.down, [op |-> "REJECT"]) \in Seq(Command)
    BY <2>3, <2>4
  <2>8. chatd' \in {[chatd EXCEPT !.joined = TRUE, !.down = more],
                    [chatd EXCEPT !.down = Append(chatd.down, [op |-> "REJECT"])]}
    BY DEF ChatdAnswersJoin, joins, IInv, TypeOK
  <2>. HIDE DEF more
  <2>9. QED
    BY <2>6, <2>7, <2>8 DEF IInv, TypeOK
<1>5. QED
  BY <1>3, <1>4, RoomStep DEF ChatdAnswersJoin, IInv, TypeOK, Budgets

LEMMA ReceiveKeeps == ASSUME IInv, Receive PROVE IInv'
<1>1. Good(k) /\ chatd.down \in Seq(Command) /\ chatd.down # <<>>
  BY DEF IInv, RoomsInv, TypeOK, Good, Receive
<1>2. Head(chatd.down) \in Command /\ Tail(chatd.down) \in Seq(Command)
  BY <1>1, HeadTailProperties
<1>3. Keeps(k, k')
  BY <1>1, <1>2, ExecKeeps DEF Receive
<1>4. chatd' \in [joined : BOOLEAN, down : Seq(Command), unheard : SUBSET Users]
  BY <1>2 DEF Receive, IInv, TypeOK
<1>5. QED
  BY <1>3, <1>4, RoomStep DEF Receive, CommitsEach, IInv, TypeOK, Budgets

LEMMA CommitTimerKeeps == ASSUME IInv, CommitTimer PROVE IInv'
<1>1. Keeps(k, k')
  BY DEF IInv, RoomsInv, TypeOK, Good, Keeps, CommitTimer
<1>2. QED
  BY <1>1, RoomStep DEF CommitTimer, IInv, TypeOK, Budgets

LEMMA LinkUpKeeps == ASSUME IInv, LinkUp PROVE IInv'
<1> DEFINE d == [k EXCEPT !.link = "up"]
<1>1. Good(k)
  BY DEF IInv, RoomsInv, TypeOK, Good
<1>2. d \in Room
  BY <1>1 DEF Good, Room
<1>3. Keeps(k, d)
  BY <1>1, <1>2, ChatOnly DEF Good, Room
<1>4. k' = IF d.known /\ ~d.disabled THEN Login(d) ELSE d
  BY DEF LinkUp, RejoinExistingChats
<1>. HIDE DEF d
<1>5. Keeps(d, Login(d))
  BY <1>3, LoginKeeps DEF Keeps
<1>6. Keeps(k, k')
  BY <1>3, <1>4, <1>5 DEF Keeps
<1>7. QED
  BY <1>6, RoomStep DEF LinkUp, IInv, TypeOK, Budgets

LEMMA LinkDownKeeps == ASSUME IInv, LinkDown PROVE IInv'
<1>1. Good(k)
  BY DEF IInv, RoomsInv, TypeOK, Good
<1>2. k' \in Room /\ k'.priv = k.priv /\ k'.db = k.db /\ k'.known = k.known
          /\ k'.mInitState = k.mInitState
  BY <1>1 DEF LinkDown, Good, Room
<1>3. Keeps(k, k')
  BY <1>1, <1>2, ChatOnly
<1>4. chatd' \in [joined : BOOLEAN, down : Seq(Command), unheard : SUBSET Users]
  BY CutTyped DEF LinkDown, IInv
<1>5. budget' \in Budgets
  BY BudgetTyped DEF LinkDown, IInv
<1>6. QED
  BY <1>3, <1>4, <1>5, RoomStep DEF LinkDown

LEMMA RequestKeeps == ASSUME IInv, Request PROVE IInv'
<1>1. PICK op \in {"leave", "exclude", "invite", "setPrivilege"}, u \in Users, p \in Levels :
          /\ op = "setPrivilege" => p # NotPresent
          /\ NewVersion(Changed(Last_.priv, u, p))
          /\ sdk' = [sdk EXCEPT !.request = [type |-> "answered", op |-> op, user |-> u,
                                             priv |-> p, scsn |-> Len(log')]]
  BY ZenonT(30) DEF Request
<1>2. Changed(Last_.priv, u, p) \in [Users -> Levels]
  BY LastTyped, ChangedTyped DEF IInv
<1>3. /\ Grows /\ Len(log') = Len(log) + 1
      /\ chatd' \in [joined : BOOLEAN, down : Seq(Command), unheard : SUBSET Users]
  BY <1>1, <1>2, NewVersionTyped DEF IInv
<1> DEFINE r == [type |-> "answered", op |-> op, user |-> u, priv |-> p, scsn |-> Len(log')]
<1>4. r \in Requests
  <2>1. Len(log') \in Nat
    BY <1>3 DEF IInv, TypeOK
  <2>2. QED
    BY <1>1, <2>1 DEF Requests
<1>. HIDE DEF r
<1>5. sdk.state = "running" /\ sdk' = [sdk EXCEPT !.request = r]
  BY <1>1 DEF Request, r
<1>6. sdk' \in [state : {"off", "paused", "running"}, at : {0} \cup Known',
                disk : {0} \cup Known', request : Requests \cup {NoRequest}]
          /\ sdk'.state = sdk.state /\ sdk'.disk = sdk.disk
  BY <1>3, <1>4, <1>5 DEF IInv, TypeOK, Grows
<1>7. posted \in Seq(Calls')
  BY <1>3, SeqMonotonic DEF IInv, TypeOK, Grows
<1>8. budget' \in Budgets
  BY BudgetTyped DEF Request, IInv
<1>9. TypeOK'
  BY <1>3, <1>6, <1>7, <1>8 DEF IInv, TypeOK, Grows, Request, Budgets
<1>10. RoomsInv'
  BY DEF IInv, RoomsInv, RoomInv, RowsInv, SessionInv, HasSession, Request
<1>11. FetchInv' /\ DiskInv'
  BY <1>5, <1>6 DEF IInv, FetchInv, DiskInv, Request
<1>12. QED
  BY <1>9, <1>10, <1>11 DEF IInv

\* A call is marshalled behind those that are.
LEMMA PostTyped ==
    ASSUME TypeOK, NEW e \in Calls, Post(e), log' = log
    PROVE  /\ posted' \in Seq(Calls') /\ posted' # <<>> /\ Len(posted') = Len(posted) + 1
           /\ DOMAIN posted' = 1 .. Len(posted) + 1 /\ DOMAIN posted = 1 .. Len(posted)
           /\ Len(posted) \in Nat
           /\ posted'[Len(posted) + 1] = e
           /\ \A i \in DOMAIN posted : posted'[i] = posted[i]
<1>1. posted \in Seq(Calls) /\ posted' = Append(posted, e) /\ Calls' = Calls
  BY DEF TypeOK, Post, Calls, Known
<1>2. QED
  BY <1>1

\* The nodes are fetched.
LEMMA FetchStep ==
    ASSUME IInv, NEW v \in Known, sdk.state = "off" \/ sdk.state = "running",
           sdk' = [sdk EXCEPT !.state = "paused", !.at = v, !.disk = v],
           Post([type |-> "fetched", scsn |-> v, state |-> k.mInitState]),
           UNCHANGED <<log, k, disk, chatd>>, budget' \in Budgets
    PROVE  IInv'
<1> DEFINE e == [type |-> "fetched", scsn |-> v, state |-> k.mInitState]
<1>1. e \in Calls /\ e.type = "fetched" /\ e.state = k.mInitState
  BY DEF Calls, IInv, TypeOK, Room
<1>. HIDE DEF e
<1>2. /\ posted' \in Seq(Calls') /\ posted' # <<>> /\ Len(posted') = Len(posted) + 1
      /\ DOMAIN posted' = 1 .. Len(posted) + 1 /\ DOMAIN posted = 1 .. Len(posted)
      /\ Len(posted) \in Nat
      /\ posted'[Len(posted) + 1] = e
      /\ \A i \in DOMAIN posted : posted'[i] = posted[i]
  BY <1>1, PostTyped DEF IInv, e
<1>3. /\ sdk' \in [state : {"off", "paused", "running"}, at : {0} \cup Known,
                   disk : {0} \cup Known, request : Requests \cup {NoRequest}]
      /\ sdk'.state = "paused" /\ sdk'.disk = v /\ sdk'.request = sdk.request
  BY DEF IInv, TypeOK
<1>4. TypeOK'
  BY <1>2, <1>3 DEF IInv, TypeOK, Known, Budgets
<1>5. RoomsInv'
  BY DEF IInv, RoomsInv, RoomInv, RowsInv, SessionInv, HasSession
<1>6. FetchInv'
  <2>1. \A i \in DOMAIN posted' : posted'[i].type = "fetched" => posted'[i].state = k.mInitState
    BY <1>1, <1>2 DEF IInv, FetchInv
  <2>2. ASSUME k.mInitState # "HasOnlineSession"
        PROVE  /\ sdk.request = NoRequest /\ posted = <<>>
               /\ Len(posted') <= 1 /\ \A i \in DOMAIN posted' : posted'[i].type = "fetched"
    <3>1. sdk.state = "off" /\ posted = <<>> /\ sdk.request = NoRequest
      BY <2>2 DEF IInv, FetchInv
    <3>2. Len(posted) = 0
      BY <3>1
    <3>3. QED
      BY <1>1, <1>2, <3>1, <3>2
  <2>3. QED
    BY <1>3, <2>1, <2>2 DEF FetchInv
<1>7. DiskInv'
  <2>1. v # 0
    BY DEF Known, IInv, TypeOK
  <2>2. QED
    BY <1>3, <2>1 DEF DiskInv
<1>8. QED
  BY <1>4, <1>5, <1>6, <1>7 DEF IInv

LEMMA SdkFetchesKeeps == ASSUME IInv, SdkFetches PROVE IInv'
<1> DEFINE v == IF k.mInitState = "HasOfflineSession" THEN sdk.disk ELSE Len(log)
<1>1. v \in Known
  <2>1. Len(log) \in Known
    BY LastTyped DEF IInv
  <2>2. k.mInitState = "HasOfflineSession" => sdk.disk # 0
    BY DEF IInv, DiskInv, RoomsInv, SessionInv, HasSession
  <2>3. sdk.disk \in {0} \cup Known
    BY DEF IInv, TypeOK
  <2>4. QED
    BY <2>1, <2>2, <2>3
<1>2. budget' \in Budgets
  BY BudgetTyped DEF SdkFetches, IInv
<1>3. /\ sdk' = [sdk EXCEPT !.state = "paused", !.at = v, !.disk = v]
      /\ Post([type |-> "fetched", scsn |-> v, state |-> k.mInitState])
      /\ sdk.state = "off" /\ UNCHANGED <<log, k, disk, chatd>>
  BY DEF SdkFetches
<1>. HIDE DEF v
<1>4. QED
  BY <1>1, <1>2, <1>3, FetchStep, ZenonT(30)

LEMMA SdkReloadsKeeps == ASSUME IInv, SdkReloads PROVE IInv'
<1>1. Len(log) \in Known
  BY LastTyped DEF IInv
<1>2. budget' \in Budgets
  BY BudgetTyped DEF SdkReloads, IInv
<1>3. QED
  BY <1>1, <1>2, FetchStep, ZenonT(30) DEF SdkReloads

\* Anything else is marshalled once the session is online.
LEMMA PostStep ==
    ASSUME IInv, k.mInitState = "HasOnlineSession", sdk.disk # 0,
           NEW e \in Calls, e.type # "fetched", Post(e),
           sdk' \in [state : {"off", "paused", "running"}, at : {0} \cup Known,
                     disk : {0} \cup Known, request : Requests \cup {NoRequest}],
           sdk'.disk # 0, UNCHANGED <<log, k, disk, chatd, budget>>
    PROVE  IInv'
<1>1. /\ posted' \in Seq(Calls') /\ posted' # <<>> /\ Len(posted') = Len(posted) + 1
      /\ DOMAIN posted' = 1 .. Len(posted) + 1 /\ DOMAIN posted = 1 .. Len(posted)
      /\ Len(posted) \in Nat
      /\ posted'[Len(posted) + 1] = e
      /\ \A i \in DOMAIN posted : posted'[i] = posted[i]
  BY PostTyped DEF IInv
<1>2. TypeOK'
  BY <1>1 DEF IInv, TypeOK, Known, Budgets
<1>3. RoomsInv'
  BY DEF IInv, RoomsInv, RoomInv, RowsInv, SessionInv, HasSession
<1>4. FetchInv'
  BY <1>1 DEF IInv, FetchInv
<1>5. QED
  BY <1>2, <1>3, <1>4 DEF IInv, DiskInv

\* While the SDK runs the session is online.
LEMMA RunningOnline ==
    ASSUME IInv, sdk.state = "running" \/ sdk.request # NoRequest
    PROVE  k.mInitState = "HasOnlineSession" /\ sdk.disk # 0
BY DEF IInv, FetchInv, DiskInv

LEMMA SdkUpdatesKeeps == ASSUME IInv, SdkUpdates PROVE IInv'
<1>1. PICK v \in sdk.at + 1 .. Len(log) :
          /\ sdk' = [sdk EXCEPT !.at = v]
          /\ IF log[v].exists THEN Post([type |-> "chats", scsn |-> v]) ELSE UNCHANGED posted
  BY DEF SdkUpdates
<1>2. v \in Known
  <2>1. sdk.at \in Nat /\ Len(log) \in Nat
    BY LastTyped DEF IInv, TypeOK, Known
  <2>2. QED
    BY <2>1 DEF Known
<1>3. k.mInitState = "HasOnlineSession" /\ sdk.disk # 0
  BY RunningOnline DEF SdkUpdates
<1>4. /\ sdk' \in [state : {"off", "paused", "running"}, at : {0} \cup Known,
                   disk : {0} \cup Known, request : Requests \cup {NoRequest}]
      /\ sdk'.disk = sdk.disk
  BY <1>1, <1>2 DEF IInv, TypeOK
<1>5. UNCHANGED <<log, k, disk, chatd, budget>>
  BY DEF SdkUpdates
<1>6. CASE Post([type |-> "chats", scsn |-> v])
  <2>1. [type |-> "chats", scsn |-> v] \in Calls
    BY <1>2 DEF Calls
  <2>2. QED
    BY <1>3, <1>4, <1>5, <1>6, <2>1, PostStep
<1>7. CASE UNCHANGED posted
  <2>1. TypeOK'
    BY <1>4, <1>5, <1>7 DEF IInv, TypeOK, Known, Calls, Budgets
  <2>2. RoomsInv' /\ FetchInv' /\ DiskInv'
    BY <1>3, <1>4, <1>5, <1>7
       DEF IInv, RoomsInv, RoomInv, RowsInv, SessionInv, HasSession, FetchInv, DiskInv
  <2>3. QED
    BY <2>1, <2>2 DEF IInv
<1>8. QED
  BY <1>1, <1>6, <1>7

LEMMA SdkCommitsKeeps == ASSUME IInv, SdkCommits PROVE IInv'
<1>1. sdk.at \in Known /\ sdk.at # 0
  <2>1. /\ sdk.at \in {0} \cup 1..Len(log) /\ sdk.disk \in {0} \cup 1..Len(log)
        /\ Len(log) \in Nat
    BY LastTyped DEF IInv, TypeOK, Known
  <2>2. sdk.disk < sdk.at
    BY DEF SdkCommits
  <2>3. sdk.at # 0
    BY <2>1, <2>2
  <2>4. QED
    BY <2>1, <2>3 DEF Known
<1>2. k.mInitState = "HasOnlineSession" /\ sdk.disk # 0
  BY RunningOnline DEF SdkCommits
<1>3. /\ sdk' \in [state : {"off", "paused", "running"}, at : {0} \cup Known,
                   disk : {0} \cup Known, request : Requests \cup {NoRequest}]
      /\ sdk'.disk # 0
  BY <1>1 DEF SdkCommits, IInv, TypeOK
<1>4. [type |-> "commit", scsn |-> sdk.at] \in Calls
  BY <1>1 DEF Calls
<1>5. QED
  BY <1>2, <1>3, <1>4, PostStep DEF SdkCommits

LEMMA SdkAnswersKeeps == ASSUME IInv, SdkAnswers PROVE IInv'
<1>1. sdk.request \in Requests
  BY DEF SdkAnswers, IInv, TypeOK
<1>2. sdk.request \in Calls /\ sdk.request.type = "answered"
  BY <1>1 DEF Calls, Requests
<1>3. k.mInitState = "HasOnlineSession" /\ sdk.disk # 0
  BY RunningOnline DEF SdkAnswers
<1>4. /\ sdk' \in [state : {"off", "paused", "running"}, at : {0} \cup Known,
                   disk : {0} \cup Known, request : Requests \cup {NoRequest}]
      /\ sdk'.disk = sdk.disk
  BY DEF SdkAnswers, IInv, TypeOK
<1>5. QED
  BY <1>2, <1>3, <1>4, PostStep DEF SdkAnswers

\* A call of the main thread leaves an online session with a sequence number.
LEMMA CalledGood ==
    ASSUME IInv, NEW e \in Calls,
           e.type = "fetched" => e.state = k.mInitState,
           e.type # "fetched" => k.mInitState = "HasOnlineSession"
    PROVE  /\ Good(Called(k, e)) /\ Called(k, e).mInitState = "HasOnlineSession"
           /\ Called(k, e).db.scsn # 0
<1>0. /\ TypeOK /\ Good(k) /\ SessionInv(k) /\ RowsInv(k.db)
      /\ \A v \in Known : v \in Nat /\ v # 0
  BY LastTyped DEF IInv, RoomsInv, Good, TypeOK, Known
<1>1. ASSUME k.mInitState = "HasOnlineSession" PROVE k.db.scsn # 0
  BY <1>0, <1>1 DEF SessionInv, HasSession
<1>2. CASE e.type = "chats"
  <2>1. e.scsn \in Known
    BY <1>2 DEF Calls, Requests
  <2>2. Called(k, e) = OnChatsUpdate(k, e.scsn, FALSE)
    BY <1>2 DEF Called
  <2>3. Moves(k, OnChatsUpdate(k, e.scsn, FALSE))
    BY <1>0, <2>1, OnChatsUpdateMoves
  <2>4. QED
    BY <1>1, <1>2, <2>2, <2>3 DEF Moves
<1>3. CASE e.type = "commit"
  <2>1. e.scsn \in Known
    BY <1>3 DEF Calls, Requests
  <2>2. Called(k, e) = [k EXCEPT !.db.scsn = e.scsn]
    BY <1>3 DEF Called
  <2>3. /\ Good([k EXCEPT !.db.scsn = e.scsn])
        /\ [k EXCEPT !.db.scsn = e.scsn].mInitState = k.mInitState
        /\ [k EXCEPT !.db.scsn = e.scsn].db.scsn = e.scsn
    BY <1>0, <2>1, ScsnSet
  <2>4. QED
    BY <1>0, <1>3, <2>1, <2>2, <2>3
<1>4. CASE e.type = "fetched"
  <2>1. e.scsn \in Known /\ e.state = k.mInitState
    BY <1>4 DEF Calls, Requests
  <2>2. Called(k, e) = Fetched(k, e)
    BY <1>4 DEF Called
  <2>3. /\ Good(Fetched(k, e)) /\ Fetched(k, e).mInitState = "HasOnlineSession"
        /\ Fetched(k, e).db.scsn = e.scsn
    BY <1>0, <2>1, FetchedGood
  <2>4. QED
    BY <1>0, <2>1, <2>2, <2>3
<1>5. CASE e.type = "answered"
  <2>1. e \in Requests
    BY <1>5 DEF Calls
  <2>2. Called(k, e) = Answered(k, e)
    BY <1>5 DEF Called
  <2>3. Keeps(k, Answered(k, e))
    BY <1>0, <2>1, AnsweredKeeps
  <2>4. QED
    BY <1>1, <1>5, <2>2, <2>3 DEF Keeps
<1>6. QED
  BY <1>2, <1>3, <1>4, <1>5 DEF Calls, Requests

LEMMA MainThreadKeeps == ASSUME IInv, MainThread PROVE IInv'
<1> DEFINE e == Head(posted)
<1>1. posted \in Seq(Calls) /\ posted # <<>>
  BY DEF IInv, TypeOK, MainThread
<1>2. /\ e \in Calls /\ e = posted[1] /\ 1 \in DOMAIN posted
      /\ Tail(posted) \in Seq(Calls) /\ Len(Tail(posted)) = Len(posted) - 1
      /\ DOMAIN posted = 1 .. Len(posted) /\ Len(posted) \in Nat
      /\ \A i \in DOMAIN Tail(posted) : i + 1 \in DOMAIN posted /\ Tail(posted)[i] = posted[i + 1]
  BY <1>1
<1>3. /\ e.type = "fetched" => e.state = k.mInitState
      /\ e.type # "fetched" => k.mInitState = "HasOnlineSession"
  BY <1>2 DEF IInv, FetchInv
<1>4. /\ k' = Called(k, e) /\ disk' \in {disk, k'.db}
      /\ sdk' = IF e.type = "fetched" THEN [sdk EXCEPT !.state = "running"] ELSE sdk
      /\ posted' = Tail(posted) /\ UNCHANGED <<log, chatd, budget>>
  BY DEF MainThread
<1>. HIDE DEF e
<1>5. Good(k') /\ k'.mInitState = "HasOnlineSession" /\ k'.db.scsn # 0
  BY <1>2, <1>3, <1>4, CalledGood
<1>6. RoomInv(k') /\ RowsInv(k'.db) /\ SessionInv(k') /\ k' \in Room /\ k'.db \in Rows
  BY <1>5 DEF Good, RoomInv, RowsInv, SessionInv, HasSession, Room
<1>7. RoomsInv'
  BY <1>4, <1>6 DEF IInv, RoomsInv
<1>8. /\ sdk' \in [state : {"off", "paused", "running"}, at : {0} \cup Known,
                   disk : {0} \cup Known, request : Requests \cup {NoRequest}]
      /\ sdk'.disk = sdk.disk
  BY <1>4 DEF IInv, TypeOK
<1>9. posted' \in Seq(Calls)
  BY <1>2, <1>4
<1>10. TypeOK'
  BY <1>4, <1>6, <1>8, <1>9 DEF IInv, TypeOK, Known, Calls
<1>11. FetchInv'
  <2>1. ASSUME k.mInitState # "HasOnlineSession" PROVE DOMAIN Tail(posted) = {}
    <3>1. Len(posted) <= 1
      BY <2>1 DEF IInv, FetchInv
    <3>2. QED
      BY <1>2, <3>1
  <2>2. \A i \in DOMAIN posted' : posted'[i].type = "fetched" => posted'[i].state = k'.mInitState
    BY <1>2, <1>4, <1>5, <2>1 DEF IInv, FetchInv
  <2>3. QED
    BY <1>5, <2>2 DEF FetchInv
<1>12. DiskInv'
  BY <1>1, <1>8 DEF IInv, DiskInv
<1>13. QED
  BY <1>7, <1>10, <1>11, <1>12 DEF IInv

\* A client that starts has the room that its rows have.
LEMMA StartedGood ==
    ASSUME NEW rows \in Rows, RowsInv(rows), NEW mInitState \in InitStates
    PROVE  /\ Good(Started(rows, mInitState))
           /\ Started(rows, mInitState).mInitState = mInitState
           /\ Started(rows, mInitState).db = rows
<1> DEFINE c == [mInitState |-> mInitState, connected |-> FALSE, link |-> "new",
                 asked |-> FALSE, known |-> FALSE, priv |-> Nobody, online |-> "offline",
                 disabled |-> FALSE, mOwnPrivilege |-> Invalid, mUsers |-> {},
                 commitEach |-> FALSE, db |-> rows]
<1>1. c \in Room
  BY NobodyTyped DEF Room
<1>2. c.db = rows /\ c.mInitState = mInitState /\ c.known = FALSE /\ c.priv = Nobody
  OBVIOUS
<1>3. Started(rows, mInitState) = LoadedRoom(c)
  BY DEF Started
<1>4. rows.row \in BOOLEAN /\ rows.priv \in [Users -> Levels]
  BY DEF Rows
<1>. HIDE DEF c
<1>5. CASE rows.row = FALSE
  <2>1. LoadedRoom(c) = c
    BY <1>2, <1>5 DEF LoadedRoom
  <2>2. rows.priv = Nobody
    BY <1>5 DEF RowsInv
  <2>3. QED
    BY <1>1, <1>2, <1>3, <1>5, <2>1, <2>2 DEF Good, RoomInv
<1>6. CASE rows.row = TRUE
  <2> DEFINE m == In(rows.priv) \cup {Me}
             d == [c EXCEPT !.known = TRUE, !.priv = rows.priv, !.mUsers = m]
  <2>1. m \in SUBSET Users
    BY NobodyTyped DEF In
  <2>2. LoadedRoom(c) = d
    BY <1>2, <1>6 DEF LoadedRoom
  <2>. HIDE DEF m
  <2>3. /\ d \in Room /\ d.known = TRUE /\ d.priv = rows.priv /\ d.db = rows
        /\ d.mInitState = mInitState
    BY <1>1, <1>2, <1>4, <2>1 DEF Room
  <2>. HIDE DEF d
  <2>4. QED
    BY <1>3, <1>6, <2>2, <2>3 DEF Good, RoomInv
<1>7. QED
  BY <1>4, <1>5, <1>6

LEMMA RestartKeeps == ASSUME IInv, Restart PROVE IInv'
<1> DEFINE m == IF disk.scsn = 0 THEN "ErrNoCache" ELSE "HasOfflineSession"
<1>1. /\ k' = Started(disk, m) /\ disk' = disk /\ log' = log /\ posted' = <<>> /\ chatd' = Cut
      /\ sdk' = [state |-> "off", at |-> sdk.disk, disk |-> sdk.disk, request |-> NoRequest]
  BY DEF Restart
<1>2. disk \in Rows /\ RowsInv(disk) /\ m \in InitStates
  BY DEF IInv, TypeOK, RoomsInv, InitStates
<1>3. m \in {"HasOfflineSession", "HasOnlineSession"} <=> disk.scsn # 0
  OBVIOUS
<1>. HIDE DEF m
<1>4. Good(k') /\ k'.mInitState = m /\ k'.db = disk
  BY <1>1, <1>2, StartedGood
<1>5. RoomsInv'
  BY <1>1, <1>2, <1>3, <1>4 DEF RoomsInv, Good, SessionInv, HasSession
<1>6. budget' \in Budgets
  BY BudgetTyped DEF Restart, IInv
<1>7. chatd' \in [joined : BOOLEAN, down : Seq(Command), unheard : SUBSET Users]
  BY <1>1, CutTyped DEF IInv
<1>8. TypeOK'
  BY <1>1, <1>4, <1>6, <1>7 DEF IInv, TypeOK, Known, Calls, Budgets, Good
<1>9. DOMAIN posted' = {} /\ Len(posted') = 0
  BY <1>1
<1>10. FetchInv' /\ DiskInv'
  BY <1>1, <1>4, <1>9 DEF IInv, FetchInv, DiskInv
<1>11. QED
  BY <1>5, <1>8, <1>10 DEF IInv

-----------------------------------------------------------------------------
(* The invariant, and what follows from it *)

LEMMA InitIInv == Init => IInv
<1> SUFFICES ASSUME Init PROVE IInv
  OBVIOUS
<1>1. NoRows \in Rows /\ RowsInv(NoRows) /\ NoRows.scsn = 0
  BY NobodyTyped DEF NoRows, Rows, RowsInv
<1>2. /\ k = Started(NoRows, "WaitingNewSession") /\ disk = NoRows /\ posted = <<>>
      /\ sdk = [state |-> "off", at |-> 0, disk |-> 0, request |-> NoRequest]
  BY DEF Init
<1>3. Good(k) /\ k.mInitState = "WaitingNewSession" /\ k.db = NoRows
  BY <1>1, <1>2, StartedGood DEF InitStates
<1>4. log \in Seq(Version) /\ log # <<>>
  <2> DEFINE none == [exists |-> FALSE, priv |-> Nobody]
             some == [exists |-> TRUE, priv |-> [u \in Users |-> Moderator]]
  <2>1. none \in Version
    BY NobodyTyped DEF Version
  <2>2. some \in Version
    BY ModeratorTyped DEF Version
  <2>3. log = <<none>> \/ log = <<some>>
    BY DEF Init
  <2>. HIDE DEF none, some
  <2>4. \A v \in Version : <<v>> \in Seq(Version) /\ <<v>> # <<>>
    OBVIOUS
  <2>5. <<none>> \in Seq(Version) /\ <<none>> # <<>> /\ <<some>> \in Seq(Version) /\ <<some>> # <<>>
    BY <2>1, <2>2, <2>4, Zenon
  <2>6. QED
    BY <2>3, <2>5, Zenon
<1>5. budget \in [requests : Nat, drops : Nat, crashes : Nat, reloads : Nat]
  BY RoomsAssumption DEF Init
<1>6. chatd \in [joined : BOOLEAN, down : Seq(Command), unheard : SUBSET Users]
  BY DEF Init
<1>7. TypeOK
  BY <1>1, <1>2, <1>3, <1>4, <1>5, <1>6 DEF TypeOK, Good
<1>8. RoomsInv
  BY <1>1, <1>2, <1>3 DEF RoomsInv, Good, SessionInv, HasSession
<1>9. DOMAIN posted = {} /\ Len(posted) = 0
  BY <1>2
<1>10. FetchInv /\ DiskInv
  BY <1>1, <1>2, <1>3, <1>9 DEF FetchInv, DiskInv
<1>11. QED
  BY <1>7, <1>8, <1>10 DEF IInv

LEMMA NextIInv == IInv /\ [Next]_vars => IInv'
<1> SUFFICES ASSUME IInv, [Next]_vars PROVE IInv'
  OBVIOUS
<1>1. CASE Created
  BY <1>1, CreatedKeeps
<1>2. CASE ChangedByOther
  BY <1>2, ChangedByOtherKeeps
<1>3. CASE Deleted
  BY <1>3, DeletedKeeps
<1>4. CASE ChatdAnswersJoin
  BY <1>4, ChatdAnswersJoinKeeps
<1>5. CASE SdkFetches
  BY <1>5, SdkFetchesKeeps
<1>6. CASE SdkReloads
  BY <1>6, SdkReloadsKeeps
<1>7. CASE SdkUpdates
  BY <1>7, SdkUpdatesKeeps
<1>8. CASE SdkCommits
  BY <1>8, SdkCommitsKeeps
<1>9. CASE SdkAnswers
  BY <1>9, SdkAnswersKeeps
<1>10. CASE MainThread
  BY <1>10, MainThreadKeeps
<1>11. CASE CommitTimer
  BY <1>11, CommitTimerKeeps
<1>12. CASE Receive
  BY <1>12, ReceiveKeeps
<1>13. CASE LinkUp
  BY <1>13, LinkUpKeeps
<1>14. CASE LinkDown
  BY <1>14, LinkDownKeeps
<1>15. CASE Request
  BY <1>15, RequestKeeps
<1>16. CASE Restart
  BY <1>16, RestartKeeps
<1>17. CASE UNCHANGED vars
  <2>1. Known' = Known /\ Calls' = Calls
    BY <1>17 DEF vars, Known, Calls
  <2>2. QED
    BY <1>17, <2>1 DEF vars, IInv, TypeOK, RoomsInv, RoomInv, RowsInv, SessionInv, HasSession,
                       FetchInv, DiskInv
<1>18. QED
  BY <1>1, <1>2, <1>3, <1>4, <1>5, <1>6, <1>7, <1>8, <1>9, <1>10, <1>11, <1>12, <1>13,
     <1>14, <1>15, <1>16, <1>17 DEF Next

LEMMA SpecIInv == Spec => []IInv
BY InitIInv, NextIInv, PTL DEF Spec

\* The types of the client, of what is marshalled to it and of the log of the chat, for every
\* set of peers, of privileges and every bound: what is marshalled names a version that there is,
\* and a client that starts from rows with a sequence number has an SDK with a cache.
THEOREM RoomsTyped == Spec => []TypeOK
<1>1. IInv => TypeOK
  BY DEF IInv
<1>2. QED
  BY <1>1, SpecIInv, PTL

\* With a session, the rooms of the list and the rows of the database have the same members,
\* whatever the order of packets, JOINs, answers, commits and crashes (the methods of
\* GroupChatRoom and ChatRoomList change both).
THEOREM RowsAlwaysMatch == Spec => []RowsMatchRoom
<1>1. IInv => RowsMatchRoom
  BY DEF IInv, RoomsInv, RoomInv, RowsMatchRoom
<1>2. QED
  BY <1>1, SpecIInv, PTL

-----------------------------------------------------------------------------
(* The room agrees with the chat: the inductive invariant (AgreeInv), part by part *)

\* The chat is gone from the API, and nothing more is said of it.
Gone == ~Last_.exists /\ Len(log) > 1

WeAreIn == Last_.exists /\ Last_.priv[Me] # NotPresent

\* The room is known only of a chat that there is; a row stands for a room.
LogInv ==
    /\ \A v \in Known : v > 1 => log[v].exists
    /\ k.known => Last_.exists
    /\ disk.row => k.known

\* Numbers only grow: on disk, in the rows, on the SDK's disk, in what is marshalled, in the SDK.
OrderInv ==
    /\ disk.scsn <= k.db.scsn /\ k.db.scsn <= sdk.disk /\ sdk.disk <= sdk.at
    /\ sdk.state = "off" => posted = <<>> /\ sdk.request = NoRequest /\ sdk.at = sdk.disk
    /\ \A i \in DOMAIN posted :
           /\ k.db.scsn <= posted[i].scsn
           /\ posted[i].type # "answered" => posted[i].scsn <= sdk.at
           /\ Commits(posted[i]) => posted[i].scsn <= sdk.disk
    /\ \A i, j \in DOMAIN posted :
           i < j /\ posted[i].type # "answered" => posted[i].scsn <= posted[j].scsn

\* An answer says what the version it made says.
TrueAnswer(r) ==
    /\ r.scsn \in Known /\ log[r.scsn].priv[r.user] = r.priv
    /\ r.op = "leave"   => r.user = Me /\ r.priv = NotPresent
    /\ r.op = "exclude" => r.user # Me /\ r.priv = NotPresent
    /\ r.op = "invite"  => r.user # Me /\ r.priv # NotPresent

\* a full reload that found no chat
Deletes(e) == e.type = "fetched" /\ e.state = "HasOnlineSession" /\ ~log[e.scsn].exists

\* What is marshalled tells of versions as they are; a reload found no chat only before any.
TrueInv ==
    /\ sdk.request # NoRequest => TrueAnswer(sdk.request)
    /\ \A i \in DOMAIN posted : posted[i].type = "answered" => TrueAnswer(posted[i])
    /\ \A i \in DOMAIN posted : posted[i].type = "chats" => log[posted[i].scsn].exists
    /\ \A i \in DOMAIN posted : Deletes(posted[i]) =>
           ~k.known /\ \A j \in DOMAIN posted : j < i => ~log[posted[j].scsn].exists

Tells(e)   == e.type \in {"chats", "fetched"} /\ e.scsn = Len(log)
Numbers(e) == e.type = "commit" /\ e.scsn = Len(log)

\* The last version is under way to the main thread behind the n-th call, before its number.
DueFrom(n) ==
    \E i \in DOMAIN posted :
        /\ n < i /\ Tells(posted[i])
        /\ \A j \in DOMAIN posted : j < i => ~Numbers(posted[j])

\* The room will be synchronised with the last version before the rows have its number.
Due ==
    \/ sdk.at # Len(log)
    \/ k.db.scsn # Len(log) /\ (sdk.state = "off" \/ DueFrom(0))

Stale(e) == e.type # "commit" /\ e.scsn # Len(log)

\* Behind what is out of date there is what is not.
StaleInv ==
    sdk.at = Len(log) =>
        \A i \in DOMAIN posted : Stale(posted[i]) => k.db.scsn # Len(log) /\ DueFrom(i)

AllJoins(cmds) == \A i \in DOMAIN cmds : cmds[i].op = "JOIN"

\* first the users of the chat, then HISTDONE, then what changes
Listing(cmds) ==
    \E h \in DOMAIN cmds :
        /\ cmds[h].op = "HISTDONE"
        /\ \A i \in DOMAIN cmds : i # h => cmds[i].op = "JOIN"
        /\ \A i \in DOMAIN cmds : i < h => cmds[i].priv # NotPresent

\* How far a chat is with its JOIN, and what is on the way to it then.
Phase(c, joined, down) ==
    /\ ~c.known \/ c.disabled \/ c.link # "up" => c.online = "offline"
    /\ ~c.connected => c.link = "new"
    /\ c.online = "offline" => ~c.asked /\ ~joined /\ down = <<>>
    /\ c.online = "joining" =>
           \/ c.asked /\ ~joined /\ down = <<>>
           \/ ~c.asked /\ joined /\ Listing(down)
           \/ ~c.asked /\ ~joined /\ down = <<[op |-> "REJECT"]>>
    /\ c.online = "online" => ~c.asked /\ joined /\ AllJoins(down) /\ c.commitEach

PhaseInv == Phase(k, chatd.joined, chatd.down)

Removes(cmd, u) == cmd.op = "JOIN" /\ cmd.user = u /\ cmd.priv = NotPresent

\* a command that decides on u: a JOIN of theirs, or our own removal
Decides(cmd, u) == (cmd.op = "JOIN" /\ cmd.user = u) \/ Removes(cmd, Me)

\* with priv, the privilege of u is p, as far as we are told of it
Right(priv, u, p) == p = IF priv[Me] = NotPresent THEN NotPresent ELSE priv[u]

Undecided(cmds, u) == \A i \in DOMAIN cmds : ~Decides(cmds[i], u)

\* What is said last of u is right.
LastWord(cmds, priv, u) ==
    \/ Undecided(cmds, u)
    \/ \E i \in DOMAIN cmds :
           /\ Decides(cmds[i], u)
           /\ \A j \in DOMAIN cmds :
                  i <= j /\ Decides(cmds[j], u) => Right(priv, u, cmds[j].priv)

LastWordInv == \A u \in Users : LastWord(chatd.down, Last_.priv, u)

\* Our own removal finds us among the users of the chat.
FindsUs(cmds, mUsers) ==
    \A i \in DOMAIN cmds :
        Removes(cmds[i], Me) =>
            \/ Me \in mUsers /\ \A n \in DOMAIN cmds : n < i => ~Removes(cmds[n], Me)
            \/ \E j \in DOMAIN cmds :
                   /\ j < i /\ cmds[j].op = "JOIN" /\ cmds[j].user = Me
                   /\ cmds[j].priv # NotPresent
                   /\ \A n \in DOMAIN cmds : j < n /\ n < i => ~Removes(cmds[n], Me)

\* Of whom nothing more is said, the chat knows what is right, and so does the room unless the
\* API will tell it.
Heard(u) ==
    IF Last_.priv[Me] = NotPresent
    THEN u = Me => k.priv[Me] = NotPresent \/ Due
    ELSE Last_.priv[u] # NotPresent =>
             /\ k.priv[u] = Last_.priv[u] \/ Due
             /\ u \in k.mUsers
             /\ u = Me => k.mOwnPrivilege = Last_.priv[Me]

HeardInv == chatd.joined => \A u \in Users : Undecided(chatd.down, u) => Heard(u)

\* They are on their way out, or chatd's word of it was lost.
Leaving(u) ==
    \/ u \in chatd.unheard
    \/ \E i \in DOMAIN chatd.down :
           Removes(chatd.down[i], u) \/ (Removes(chatd.down[i], Me) /\ u \in k.mUsers)

\* Whoever is in these rows and not in the chat is leaving.
OnlyLeaving(priv) == WeAreIn => \A u \in In(priv) \ In(Last_.priv) : Leaving(u)

ExtraInv == /\ ~Due => OnlyLeaving(k.priv)
            /\ disk.scsn = Len(log) => OnlyLeaving(disk.priv)

CoreInv ==
    /\ LogInv /\ TrueInv /\ StaleInv /\ PhaseInv /\ LastWordInv
    /\ FindsUs(chatd.down, k.mUsers) /\ HeardInv /\ ExtraInv

AgreeInv == OrderInv /\ (Gone \/ CoreInv)

-----------------------------------------------------------------------------
(* The methods of the client again: what they leave of the chat of chatd, and of the room *)

\* What changes only how far the chat is with its JOIN.
SameRoom(c, d) ==
    /\ d \in Room
    /\ d.known = c.known /\ d.priv = c.priv /\ d.db = c.db /\ d.mInitState = c.mInitState
    /\ d.mUsers = c.mUsers /\ d.mOwnPrivilege = c.mOwnPrivilege /\ d.connected = c.connected

\* What changes only the privileges in room and rows.
SameChat(c, d) ==
    /\ d \in Room
    /\ d.known = c.known /\ d.connected = c.connected /\ d.link = c.link /\ d.asked = c.asked
    /\ d.online = c.online /\ d.disabled = c.disabled /\ d.commitEach = c.commitEach
    /\ d.mUsers = c.mUsers /\ d.mOwnPrivilege = c.mOwnPrivilege
    /\ d.mInitState = c.mInitState /\ d.db.scsn = c.db.scsn /\ d.db.row = c.db.row

LEMMA SameChatPhase ==
    ASSUME NEW c, NEW d, SameChat(c, d), NEW joined, NEW down, Phase(c, joined, down)
    PROVE  Phase(d, joined, down)
BY ZenonT(30) DEF SameChat, Phase

LEMMA SameRoomTwice ==
    ASSUME NEW c, NEW d, SameRoom(c, d), NEW e, SameRoom(d, e)
    PROVE  SameRoom(c, e)
BY DEF SameRoom

OnlineIs(c, d, s) ==
    /\ SameRoom(c, d) /\ d.online = s /\ d.asked = c.asked /\ d.link = c.link
    /\ d.disabled = c.disabled
    /\ d.commitEach = IF s = "online" /\ c.online # s THEN TRUE ELSE c.commitEach

LEMMA SetOnlineStateSame ==
    ASSUME NEW c \in Room, NEW s \in {"offline", "joining", "online"}
    PROVE  OnlineIs(c, SetOnlineState(c, s), s)
<1>1. SetOnlineState(c, s) =
          [c EXCEPT !.online = s,
                    !.commitEach = IF s = "online" /\ c.online # s THEN TRUE ELSE c.commitEach]
  BY DEF SetOnlineState, Room
<1> DEFINE b == IF s = "online" /\ c.online # s THEN TRUE ELSE c.commitEach
<1>2. b \in BOOLEAN
  BY DEF Room
<1>3. SetOnlineState(c, s) = [c EXCEPT !.online = s, !.commitEach = b]
  BY <1>1
<1>. HIDE DEF b
<1>4. /\ SameRoom(c, [c EXCEPT !.online = s, !.commitEach = b])
      /\ [c EXCEPT !.online = s, !.commitEach = b].online = s
      /\ [c EXCEPT !.online = s, !.commitEach = b].asked = c.asked
      /\ [c EXCEPT !.online = s, !.commitEach = b].link = c.link
      /\ [c EXCEPT !.online = s, !.commitEach = b].disabled = c.disabled
      /\ [c EXCEPT !.online = s, !.commitEach = b].commitEach = b
  BY <1>2 DEF Room, SameRoom
<1>5. QED
  BY <1>3, <1>4 DEF b, OnlineIs

LEMMA DisableSame ==
    ASSUME NEW c \in Room, NEW state \in BOOLEAN
    PROVE  LET d == Disable(c, state) IN
           /\ SameRoom(c, d) /\ d.asked = c.asked /\ d.link = c.link /\ d.disabled = state
           /\ d.commitEach = c.commitEach
           /\ d.online = IF state /\ ~c.disabled THEN "offline" ELSE c.online
<1> DEFINE o == SetOnlineState(c, "offline")
<1>0. OnlineIs(c, o, "offline")
  BY SetOnlineStateSame
<1>1. /\ SameRoom(c, o) /\ o.online = "offline" /\ o.asked = c.asked /\ o.link = c.link
      /\ o.commitEach = c.commitEach
  <2>. HIDE DEF o
  <2>. QED
    BY <1>0 DEF OnlineIs
<1>2. Disable(c, state) = IF state /\ ~c.disabled THEN [o EXCEPT !.disabled = TRUE]
                                                  ELSE [c EXCEPT !.disabled = state]
  BY DEF Disable
<1>. HIDE DEF o
<1> DEFINE F(a, d, s) == /\ SameRoom(a, d) /\ d.asked = a.asked /\ d.link = a.link
                         /\ d.disabled = s /\ d.commitEach = a.commitEach /\ d.online = a.online
<1>3. ASSUME NEW a \in Room, NEW s \in BOOLEAN
      PROVE  F(a, [a EXCEPT !.disabled = s], s)
  BY DEF Room, SameRoom
<1>4. F(c, [c EXCEPT !.disabled = state], state)
  BY <1>3
<1>5. F(o, [o EXCEPT !.disabled = TRUE], TRUE)
  BY <1>1, <1>3 DEF SameRoom
<1>6. CASE state /\ ~c.disabled
  BY <1>1, <1>2, <1>5, <1>6, SameRoomTwice
<1>7. CASE ~(state /\ ~c.disabled)
  BY <1>2, <1>4, <1>7
<1>8. QED
  BY <1>6, <1>7

LEMMA LoginSame ==
    ASSUME NEW c \in Room
    PROVE  LET d == Login(c) IN
           /\ SameRoom(c, d) /\ d.online = "joining" /\ d.asked = TRUE /\ d.link = c.link
           /\ d.disabled = c.disabled /\ d.commitEach = c.commitEach
<1> DEFINE o == SetOnlineState(c, "joining")
<1>0. OnlineIs(c, o, "joining")
  BY SetOnlineStateSame
<1>1. /\ SameRoom(c, o) /\ o.online = "joining" /\ o.link = c.link
      /\ o.disabled = c.disabled /\ o.commitEach = c.commitEach
  <2>. HIDE DEF o
  <2>. QED
    BY <1>0 DEF OnlineIs
<1>2. Login(c) = [o EXCEPT !.asked = TRUE]
  BY DEF Login
<1>. HIDE DEF o
<1>3. o \in Room
  BY <1>1 DEF SameRoom
<1>4. LET d == [o EXCEPT !.asked = TRUE] IN
      /\ SameRoom(o, d) /\ d.online = o.online /\ d.asked = TRUE /\ d.link = o.link
      /\ d.disabled = o.disabled /\ d.commitEach = o.commitEach
  BY <1>3 DEF Room, SameRoom
<1>5. QED
  BY <1>1, <1>2, <1>4, SameRoomTwice

\* A chat that is offline, and to be joined, joins when the connection is up.
LEMMA LoginPhase ==
    ASSUME NEW c \in Room, NEW joined, NEW down, Phase(c, joined, down),
           c.known, ~c.disabled, c.online = "offline", c.link = "up"
    PROVE  SameRoom(c, Login(c)) /\ Phase(Login(c), joined, down)
<1> DEFINE d == Login(c)
<1>1. /\ SameRoom(c, d) /\ d.online = "joining" /\ d.asked = TRUE /\ d.link = c.link
      /\ d.disabled = c.disabled /\ d.commitEach = c.commitEach
  BY LoginSame
<1>. HIDE DEF d
<1>2. Phase(d, joined, down)
  BY <1>1 DEF Phase, SameRoom
<1>3. QED
  BY <1>1, <1>2 DEF d

LEMMA ConnectPhase ==
    ASSUME NEW c \in Room, NEW joined, NEW down, Phase(c, joined, down),
           c.known, ~c.disabled, c.online = "offline", c.connected
    PROVE  SameRoom(c, Connect(c)) /\ Phase(Connect(c), joined, down)
<1>1. CASE c.link = "new"
  <2> DEFINE d == [c EXCEPT !.link = "down", !.commitEach = FALSE]
  <2>1. Connect(c) = d
    BY <1>1 DEF Connect
  <2>2. /\ SameRoom(c, d) /\ d.link = "down" /\ d.online = c.online /\ d.asked = c.asked
        /\ d.disabled = c.disabled
    BY DEF Room, SameRoom
  <2>. HIDE DEF d
  <2>3. Phase(d, joined, down)
    BY <2>2 DEF Phase, SameRoom
  <2>4. QED
    BY <2>1, <2>2, <2>3
<1>2. CASE c.link = "up"
  BY <1>2, LoginPhase DEF Connect
<1>3. CASE c.link = "down"
  BY <1>3 DEF Connect, SameRoom
<1>4. QED
  BY <1>1, <1>2, <1>3 DEF Room

LEMMA RejoinedPhase ==
    ASSUME NEW c \in Room, NEW joined, NEW down, Phase(c, joined, down), c.known
    PROVE  SameRoom(c, Rejoined(c)) /\ Phase(Rejoined(c), joined, down)
<1> DEFINE d == Disable(c, FALSE)
<1>1. /\ SameRoom(c, d) /\ d.asked = c.asked /\ d.link = c.link /\ d.disabled = FALSE
      /\ d.commitEach = c.commitEach /\ d.online = c.online
  BY DisableSame
<1>2. Rejoined(c) = IF d.connected /\ d.online = "offline" THEN Connect(d) ELSE d
  BY DEF Rejoined
<1>. HIDE DEF d
<1>3. Phase(d, joined, down) /\ d \in Room /\ d.known
  BY <1>1 DEF Phase, SameRoom
<1>4. CASE d.connected /\ d.online = "offline"
  <2>1. SameRoom(d, Connect(d)) /\ Phase(Connect(d), joined, down)
    BY <1>1, <1>3, <1>4, ConnectPhase
  <2>2. QED
    BY <1>1, <1>2, <1>4, <2>1, SameRoomTwice
<1>5. CASE ~(d.connected /\ d.online = "offline")
  BY <1>1, <1>2, <1>3, <1>5
<1>6. QED
  BY <1>4, <1>5

-----------------------------------------------------------------------------
(* The room *)

\* Privileges of room and rows are overwritten, and only they.
LEMMA WithPrivsSame ==
    ASSUME NEW c \in Room, NEW new \in [Users -> Levels], NEW row \in [Users -> Levels]
    PROVE  SameChat(c, WithPrivs(c, new, row)) /\ WithPrivs(c, new, row).priv = new
<1> DEFINE r == [c.db EXCEPT !.priv = row]
<1>1. r \in Rows /\ r.row = c.db.row /\ r.scsn = c.db.scsn
  BY DEF Room, Rows
<1>2. WithPrivs(c, new, row) = [c EXCEPT !.priv = new, !.db = r]
  BY DEF WithPrivs
<1>. HIDE DEF r
<1> DEFINE d == [c EXCEPT !.priv = new, !.db = r]
<1>3. d \in Room /\ d.priv = new /\ d.db = r
  BY <1>1 DEF Room
<1>4. /\ d.known = c.known /\ d.connected = c.connected /\ d.link = c.link /\ d.asked = c.asked
      /\ d.online = c.online /\ d.disabled = c.disabled /\ d.commitEach = c.commitEach
      /\ d.mUsers = c.mUsers /\ d.mOwnPrivilege = c.mOwnPrivilege
      /\ d.mInitState = c.mInitState
  BY DEF Room
<1>. HIDE DEF d
<1>5. QED
  BY <1>1, <1>2, <1>3, <1>4 DEF SameChat, d

\* u gets p, and nobody else anything.
Sets(c, d, u, p) == SameChat(c, d) /\ d.priv = [c.priv EXCEPT ![u] = p]

LEMMA SetBothSets ==
    ASSUME NEW c \in Room, NEW u \in Users, NEW p \in Levels
    PROVE  Sets(c, SetBoth(c, u, p), u, p)
<1> DEFINE new == [c.priv EXCEPT ![u] = p]
           row == [c.db.priv EXCEPT ![u] = p]
<1>1. new \in [Users -> Levels] /\ row \in [Users -> Levels]
  BY DEF Room, Rows
<1>2. SetBoth(c, u, p) = WithPrivs(c, new, row)
  BY DEF SetBoth, WithPrivs
<1>. HIDE DEF new, row
<1>3. SameChat(c, WithPrivs(c, new, row)) /\ WithPrivs(c, new, row).priv = new
  BY <1>1, WithPrivsSame
<1>4. QED
  BY <1>2, <1>3 DEF Sets, new

LEMMA NothingSet ==
    ASSUME NEW c \in Room, NEW u \in Users, NEW p, c.priv[u] = p
    PROVE  Sets(c, c, u, p)
<1>1. c.priv = [c.priv EXCEPT ![u] = p]
  BY DEF Room
<1>2. QED
  BY <1>1 DEF Sets, SameChat

LEMMA RoomMethodsSet ==
    ASSUME NEW c \in Room, NEW u \in Users, NEW p \in Levels
    PROVE  /\ Sets(c, SyncOwnPriv(c, p), Me, p)
           /\ Sets(c, AddMember(c, u, p), u, p)
           /\ Sets(c, RemoveMember(c, u), u, NotPresent)
           /\ Sets(c, SetRemoved(c), Me, NotPresent)
           /\ Sets(c, RoomOnUserJoin(c, u, p), u, p)
<1>1. Me \in Users /\ NotPresent \in Levels
  BY NobodyTyped
<1>2. Sets(c, SyncOwnPriv(c, p), Me, p)
  BY <1>1, SetBothSets, NothingSet DEF SyncOwnPriv
<1>3. Sets(c, AddMember(c, u, p), u, p)
  BY <1>1, SetBothSets, NothingSet DEF AddMember
<1>4. Sets(c, RemoveMember(c, u), u, NotPresent)
  BY <1>1, SetBothSets, NothingSet DEF RemoveMember
<1>5. Sets(c, SetRemoved(c), Me, NotPresent)
  BY <1>1, SetBothSets DEF SetRemoved
<1>6. QED
  BY <1>2, <1>3, <1>4, <1>5 DEF RoomOnUserJoin

LEMMA SyncMembersSays ==
    ASSUME NEW c \in Room, NEW view \in [Users -> Levels]
    PROVE  /\ SameChat(c, SyncMembers(c, view))
           /\ SyncMembers(c, view).priv = [view EXCEPT ![Me] = c.priv[Me]]
<1> DEFINE differ == {u \in Peers : c.priv[u] # view[u]}
           new == [u \in Users |-> IF u \in differ THEN view[u] ELSE c.priv[u]]
           row == [u \in Users |-> IF u \in differ THEN view[u] ELSE c.db.priv[u]]
<1>1. new \in [Users -> Levels] /\ row \in [Users -> Levels]
  BY DEF Room, Rows
<1>2. SyncMembers(c, view) = WithPrivs(c, new, row)
  BY DEF SyncMembers, WithPrivs
<1>3. new = [view EXCEPT ![Me] = c.priv[Me]]
  <2>1. \A u \in Users : new[u] = [view EXCEPT ![Me] = c.priv[Me]][u]
    BY RoomsAssumption DEF Users, Room
  <2>2. [view EXCEPT ![Me] = c.priv[Me]] \in [Users -> Levels]
    BY NobodyTyped DEF Room
  <2>. HIDE DEF new
  <2>3. QED
    BY <1>1, <2>1, <2>2
<1>. HIDE DEF new, row
<1>4. SameChat(c, WithPrivs(c, new, row)) /\ WithPrivs(c, new, row).priv = new
  BY <1>1, WithPrivsSame
<1>5. QED
  BY <1>2, <1>3, <1>4

LEMMA RoomOnUsersLeaveSays ==
    ASSUME NEW c \in Room, NEW users \in SUBSET Users
    PROVE  /\ SameChat(c, RoomOnUsersLeave(c, users))
           /\ \A u \in Users : RoomOnUsersLeave(c, users).priv[u] =
                                   IF u \in users THEN NotPresent ELSE c.priv[u]
<1> DEFINE gone == {u \in users : u = Me \/ c.priv[u] # NotPresent}
           new == [u \in Users |-> IF u \in gone THEN NotPresent ELSE c.priv[u]]
           row == [u \in Users |-> IF u \in gone THEN NotPresent ELSE c.db.priv[u]]
<1>1. new \in [Users -> Levels] /\ row \in [Users -> Levels]
  BY NobodyTyped DEF Room, Rows
<1>2. RoomOnUsersLeave(c, users) = WithPrivs(c, new, row)
  BY DEF RoomOnUsersLeave, WithPrivs
<1>3. \A u \in Users : new[u] = IF u \in users THEN NotPresent ELSE c.priv[u]
  OBVIOUS
<1>. HIDE DEF new, row
<1>4. SameChat(c, WithPrivs(c, new, row)) /\ WithPrivs(c, new, row).priv = new
  BY <1>1, WithPrivsSame
<1>5. QED
  BY <1>2, <1>3, <1>4

\* What happens to a room of the list: the chat's users, and how far it is, do not depend on it.
Follows(c, d, joined, down) ==
    /\ d \in Room /\ Phase(d, joined, down)
    /\ d.known = c.known /\ d.mUsers = c.mUsers /\ d.mOwnPrivilege = c.mOwnPrivilege
    /\ d.mInitState = c.mInitState /\ d.db.scsn = c.db.scsn /\ d.connected = c.connected

LEMMA SameChatFollows ==
    ASSUME NEW c, NEW d, NEW e, NEW joined, NEW down, Follows(c, d, joined, down), SameChat(d, e)
    PROVE  Follows(c, e, joined, down)
<1>1. Phase(e, joined, down)
  BY SameChatPhase DEF Follows
<1>2. QED
  BY <1>1 DEF Follows, SameChat

LEMMA SameRoomFollows ==
    ASSUME NEW c, NEW d, NEW e, NEW joined, NEW down, Follows(c, d, joined, down),
           SameRoom(d, e), Phase(e, joined, down)
    PROVE  Follows(c, e, joined, down)
BY DEF Follows, SameRoom

\* The room has the privileges of a view: all of them, or that we are not in the chat.
HasView(priv, view) ==
    IF view[Me] = NotPresent THEN priv[Me] = NotPresent ELSE priv = view

LEMMA SyncWithApiSays ==
    ASSUME NEW c \in Room, NEW view \in [Users -> Levels], NEW joined, NEW down,
           Phase(c, joined, down), c.known
    PROVE  /\ Follows(c, SyncWithApi(c, view), joined, down)
           /\ HasView(SyncWithApi(c, view).priv, view)
<1> DEFINE d == SyncOwnPriv(c, view[Me])
           r == Rejoined(d)
           old == c.priv[Me]
<1>1. Me \in Users /\ view[Me] \in Levels /\ c.priv \in [Users -> Levels]
  BY NobodyTyped DEF Room
<1>2. Follows(c, c, joined, down)
  BY DEF Follows
<1>3. SameChat(c, d) /\ d.priv[Me] = view[Me]
  <2>1. Sets(c, d, Me, view[Me])
    BY <1>1, RoomMethodsSet
  <2>. HIDE DEF d
  <2>2. QED
    BY <1>1, <2>1 DEF Sets
<1>4. SyncWithApi(c, view) =
          IF old = view[Me] THEN SyncMembers(d, view)
          ELSE IF old = NotPresent THEN SyncMembers(r, view)
          ELSE IF view[Me] = NotPresent THEN SetRemoved(d)
          ELSE SyncMembers(d, view)
  BY DEF SyncWithApi
<1>. HIDE DEF d
<1>5. Follows(c, d, joined, down)
  BY <1>2, <1>3, SameChatFollows
<1>6. SameRoom(d, r) /\ Follows(c, r, joined, down)
  <2>1. d \in Room /\ d.known /\ Phase(d, joined, down)
    BY <1>5 DEF Follows
  <2>2. SameRoom(d, r) /\ Phase(r, joined, down)
    BY <2>1, RejoinedPhase
  <2>. HIDE DEF r
  <2>3. QED
    BY <1>5, <2>2, SameRoomFollows
<1>7. r.priv[Me] = view[Me] /\ r \in Room /\ d \in Room
  BY <1>3, <1>6 DEF SameRoom, SameChat
<1>. HIDE DEF r, old
<1>8. ASSUME NEW a \in Room, Follows(c, a, joined, down), a.priv[Me] = view[Me]
      PROVE  /\ Follows(c, SyncMembers(a, view), joined, down)
             /\ HasView(SyncMembers(a, view).priv, view)
  <2> DEFINE b == SyncMembers(a, view)
  <2>1. SameChat(a, b) /\ b.priv = [view EXCEPT ![Me] = a.priv[Me]]
    BY <1>8, SyncMembersSays
  <2>. HIDE DEF b
  <2>2. Follows(c, b, joined, down)
    BY <1>8, <2>1, SameChatFollows
  <2>3. b.priv = view
    BY <1>1, <1>8, <2>1
  <2>4. QED
    BY <2>2, <2>3 DEF HasView, b
<1>9. view[Me] = NotPresent => /\ Follows(c, SetRemoved(d), joined, down)
                               /\ HasView(SetRemoved(d).priv, view)
  <2>1. Sets(d, SetRemoved(d), Me, NotPresent)
    BY <1>1, <1>7, RoomMethodsSet
  <2>2. d.priv \in [Users -> Levels]
    BY <1>7 DEF Room
  <2>3. SameChat(d, SetRemoved(d)) /\ SetRemoved(d).priv[Me] = NotPresent
    BY <1>1, <2>1, <2>2 DEF Sets
  <2>4. QED
    BY <1>5, <2>3, SameChatFollows DEF HasView
<1>10. QED
  BY <1>3, <1>4, <1>5, <1>6, <1>7, <1>8, <1>9

LEMMA RoomConnectPhase ==
    ASSUME NEW c \in Room, NEW joined, NEW down, Phase(c, joined, down),
           c.known, ~c.disabled, c.connected
    PROVE  SameRoom(c, RoomConnect(c)) /\ Phase(RoomConnect(c), joined, down)
<1>1. CASE c.online = "offline"
  BY <1>1, ConnectPhase DEF RoomConnect
<1>2. CASE c.online # "offline"
  BY <1>2 DEF RoomConnect, SameRoom
<1>3. QED
  BY <1>1, <1>2

LEMMA NewRoomSays ==
    ASSUME NEW c \in Room, NEW view \in [Users -> Levels], NEW joined, NEW down,
           Phase(c, joined, down), ~c.known
    PROVE  LET d == NewRoom(c, view) IN
           /\ d \in Room /\ Phase(d, joined, down) /\ d.known /\ ~d.disabled /\ d.priv = view
           /\ d.mInitState = c.mInitState /\ d.db.scsn = c.db.scsn /\ d.connected = c.connected
<1> DEFINE r == [c.db EXCEPT !.row = TRUE, !.priv = view]
           m == In(view) \cup {Me}
           d == NewRoom(c, view)
<1>1. r \in Rows /\ r.scsn = c.db.scsn
  BY DEF Room, Rows
<1>2. d = [c EXCEPT !.known = TRUE, !.priv = view, !.db = r, !.online = "offline",
                    !.disabled = FALSE, !.mOwnPrivilege = Invalid, !.mUsers = m]
  BY ZenonT(30) DEF NewRoom, Room, Rows
<1>3. d \in Room
  BY NewRoomGood DEF Good
<1>. HIDE DEF r, m, d
<1>4. /\ d.known = TRUE /\ d.priv = view /\ d.db = r /\ d.online = "offline" /\ d.disabled = FALSE
      /\ d.mInitState = c.mInitState /\ d.connected = c.connected
      /\ d.link = c.link /\ d.asked = c.asked
  BY <1>2 DEF Room
<1>5. Phase(d, joined, down)
  BY <1>4 DEF Phase
<1>6. QED
  BY <1>1, <1>3, <1>4, <1>5 DEF d

\* A list of chats: a room that is known goes on with its chat, a new one is created for a
\* chat that there is.
Updated(c, d, v, joined, down) ==
    /\ d \in Room /\ Phase(d, joined, down)
    /\ d.mInitState = c.mInitState /\ d.db.scsn = c.db.scsn
    /\ c.known => d.known /\ d.mUsers = c.mUsers /\ d.mOwnPrivilege = c.mOwnPrivilege
    /\ log[v].exists => d.known /\ HasView(d.priv, View(v))
    /\ ~log[v].exists => d = c

LEMMA OnChatsUpdateSays ==
    ASSUME TypeOK, NEW c \in Room, NEW v \in Known, NEW checkDeleted \in BOOLEAN,
           NEW joined, NEW down, Phase(c, joined, down),
           ~log[v].exists /\ checkDeleted => ~c.known
    PROVE  Updated(c, OnChatsUpdate(c, v, checkDeleted), v, joined, down)
<1>1. View(v) \in [Users -> Levels]
  BY ViewTyped
<1>2. CASE ~log[v].exists
  <2>1. OnChatsUpdate(c, v, checkDeleted) = c
    BY <1>2 DEF OnChatsUpdate
  <2>2. QED
    BY <1>2, <2>1 DEF Updated
<1>3. CASE log[v].exists /\ c.known
  <2> DEFINE d == SyncWithApi(c, View(v))
  <2>1. OnChatsUpdate(c, v, checkDeleted) = d
    BY <1>3 DEF OnChatsUpdate
  <2>2. Follows(c, d, joined, down) /\ HasView(d.priv, View(v))
    BY <1>1, <1>3, SyncWithApiSays
  <2>. HIDE DEF d
  <2>3. QED
    BY <1>3, <2>1, <2>2 DEF Updated, Follows
<1>4. CASE log[v].exists /\ ~c.known
  <2> DEFINE d == NewRoom(c, View(v))
  <2>1. OnChatsUpdate(c, v, checkDeleted) = IF d.connected THEN RoomConnect(d) ELSE d
    BY <1>4 DEF OnChatsUpdate
  <2>2. /\ d \in Room /\ Phase(d, joined, down) /\ d.known /\ ~d.disabled /\ d.priv = View(v)
        /\ d.mInitState = c.mInitState /\ d.db.scsn = c.db.scsn
    BY <1>1, <1>4, NewRoomSays
  <2>. HIDE DEF d
  <2>3. HasView(d.priv, View(v))
    BY <2>2 DEF HasView
  <2>4. CASE d.connected
    <3>1. SameRoom(d, RoomConnect(d)) /\ Phase(RoomConnect(d), joined, down)
      BY <2>2, <2>4, RoomConnectPhase
    <3>2. QED
      BY <1>4, <2>1, <2>2, <2>3, <2>4, <3>1 DEF SameRoom, Updated
  <2>5. CASE ~d.connected
    BY <1>4, <2>1, <2>2, <2>3, <2>5 DEF Updated
  <2>6. QED
    BY <2>4, <2>5
<1>5. QED
  BY <1>2, <1>3, <1>4

\* What a call of the main thread leaves of a room that it does not synchronise.
Alike(c, d, joined, down) ==
    /\ d \in Room /\ Phase(d, joined, down)
    /\ d.known = c.known /\ d.mUsers = c.mUsers /\ d.mOwnPrivilege = c.mOwnPrivilege
    /\ d.priv = c.priv /\ d.db.scsn = c.db.scsn

LEMMA ClientConnectSays ==
    ASSUME NEW c \in Room, NEW joined, NEW down, Phase(c, joined, down)
    PROVE  Alike(c, ClientConnect(c), joined, down)
<1> DEFINE d == [c EXCEPT !.connected = TRUE]
<1>1. /\ d \in Room /\ d.connected /\ d.known = c.known /\ d.mUsers = c.mUsers
      /\ d.mOwnPrivilege = c.mOwnPrivilege /\ d.priv = c.priv /\ d.db = c.db
      /\ d.disabled = c.disabled /\ d.link = c.link /\ d.online = c.online
      /\ d.asked = c.asked /\ d.commitEach = c.commitEach
  BY DEF Room
<1>2. ClientConnect(c) = IF c.connected THEN c
                         ELSE IF d.known /\ ~d.disabled THEN RoomConnect(d) ELSE d
  BY DEF ClientConnect
<1>. HIDE DEF d
<1>3. Phase(d, joined, down)
  BY <1>1 DEF Phase
<1>4. d.known /\ ~d.disabled => SameRoom(d, RoomConnect(d)) /\ Phase(RoomConnect(d), joined, down)
  BY <1>1, <1>3, RoomConnectPhase
<1>5. CASE c.connected
  BY <1>2, <1>5 DEF Alike
<1>6. CASE ~c.connected /\ d.known /\ ~d.disabled
  BY <1>1, <1>2, <1>4, <1>6 DEF Alike, SameRoom
<1>7. CASE ~c.connected /\ ~(d.known /\ ~d.disabled)
  BY <1>1, <1>2, <1>3, <1>7 DEF Alike
<1>8. QED
  BY <1>5, <1>6, <1>7

LEMMA ScsnPhase ==
    ASSUME NEW c \in Room, NEW v \in Nat, NEW joined, NEW down, Phase(c, joined, down)
    PROVE  LET d == [c EXCEPT !.db.scsn = v] IN
           /\ d \in Room /\ Phase(d, joined, down) /\ d.known = c.known /\ d.mUsers = c.mUsers
           /\ d.mOwnPrivilege = c.mOwnPrivilege /\ d.priv = c.priv /\ d.db.scsn = v
           /\ d.mInitState = c.mInitState
<1> DEFINE r == [c.db EXCEPT !.scsn = v]
           d == [c EXCEPT !.db = r]
<1>1. r \in Rows /\ r.scsn = v
  BY DEF Room, Rows
<1>2. [c EXCEPT !.db.scsn = v] = d
  OBVIOUS
<1>. HIDE DEF r
<1>3. /\ d \in Room /\ d.db = r /\ d.priv = c.priv /\ d.known = c.known
      /\ d.mInitState = c.mInitState /\ d.mUsers = c.mUsers /\ d.mOwnPrivilege = c.mOwnPrivilege
      /\ d.connected = c.connected /\ d.disabled = c.disabled /\ d.link = c.link
      /\ d.online = c.online /\ d.asked = c.asked /\ d.commitEach = c.commitEach
  BY <1>1 DEF Room
<1>. HIDE DEF d
<1>4. Phase(d, joined, down)
  BY <1>3 DEF Phase
<1>5. QED
  BY <1>1, <1>2, <1>3, <1>4

LEMMA AlikeTwice ==
    ASSUME NEW c, NEW d, NEW e, NEW joined, NEW down,
           Alike(c, d, joined, down), Alike(d, e, joined, down)
    PROVE  Alike(c, e, joined, down)
BY DEF Alike

\* The list of the chats has come with its sequence number.
Brought(c, d, v, joined, down) ==
    /\ d \in Room /\ Phase(d, joined, down) /\ d.db.scsn = v
    /\ c.known => d.known /\ d.mUsers = c.mUsers /\ d.mOwnPrivilege = c.mOwnPrivilege
    /\ log[v].exists => d.known /\ HasView(d.priv, View(v))
    /\ ~log[v].exists => d.known = c.known

LEMMA BroughtAlike ==
    ASSUME NEW c, NEW d, NEW e, NEW v, NEW joined, NEW down,
           Brought(c, d, v, joined, down), Alike(d, e, joined, down)
    PROVE  Brought(c, e, v, joined, down)
BY DEF Brought, Alike

LEMMA OnlineSetAlike ==
    ASSUME NEW c \in Room, NEW joined, NEW down, Phase(c, joined, down)
    PROVE  Alike(c, [c EXCEPT !.mInitState = "HasOnlineSession"], joined, down)
<1> DEFINE d == [c EXCEPT !.mInitState = "HasOnlineSession"]
<1>1. d \in Room
  BY DEF Room, InitStates
<1>2. /\ d.known = c.known /\ d.mUsers = c.mUsers /\ d.mOwnPrivilege = c.mOwnPrivilege
      /\ d.priv = c.priv /\ d.db = c.db
      /\ d.connected = c.connected /\ d.disabled = c.disabled /\ d.link = c.link
      /\ d.online = c.online /\ d.asked = c.asked /\ d.commitEach = c.commitEach
  BY DEF Room
<1>. HIDE DEF d
<1>3. Phase(d, joined, down)
  BY <1>2 DEF Phase
<1>4. QED
  BY <1>1, <1>2, <1>3 DEF Alike, d

\* The first list of a session that is online.
LEMMA ConnectedAlike ==
    ASSUME NEW c \in Room, NEW joined, NEW down, Phase(c, joined, down)
    PROVE  Alike(c, ClientConnect([c EXCEPT !.mInitState = "HasOnlineSession"]), joined, down)
<1> DEFINE d == [c EXCEPT !.mInitState = "HasOnlineSession"]
<1>1. Alike(c, d, joined, down)
  BY OnlineSetAlike
<1>. HIDE DEF d
<1>2. Alike(d, ClientConnect(d), joined, down)
  BY <1>1, ClientConnectSays DEF Alike
<1>3. Alike(c, ClientConnect(d), joined, down)
  BY <1>1, <1>2, AlikeTwice
<1>4. QED
  BY <1>3 DEF d

\* The list of version v, and then its number.
LEMMA UpdatedBrought ==
    ASSUME TypeOK, NEW c \in Room, NEW v \in Known, NEW checkDeleted \in BOOLEAN,
           NEW joined, NEW down, Phase(c, joined, down),
           ~log[v].exists /\ checkDeleted => ~c.known
    PROVE  Brought(c, [OnChatsUpdate(c, v, checkDeleted) EXCEPT !.db.scsn = v], v, joined, down)
<1> DEFINE d == OnChatsUpdate(c, v, checkDeleted)
           e == [d EXCEPT !.db.scsn = v]
<1>1. Updated(c, d, v, joined, down)
  BY OnChatsUpdateSays
<1>2. v \in Nat
  BY DEF Known, TypeOK
<1>. HIDE DEF d
<1>3. /\ e \in Room /\ Phase(e, joined, down) /\ e.known = d.known /\ e.mUsers = d.mUsers
      /\ e.mOwnPrivilege = d.mOwnPrivilege /\ e.priv = d.priv /\ e.db.scsn = v
  BY <1>1, <1>2, ScsnPhase DEF Updated
<1>. HIDE DEF e
<1>4. Brought(c, e, v, joined, down)
  BY <1>1, <1>3 DEF Updated, Brought
<1>5. QED
  BY <1>4 DEF d, e

LEMMA FetchedSays ==
    ASSUME TypeOK, NEW c, Good(c), SessionInv(c), RowsInv(c.db),
           NEW e, e.state = c.mInitState, e.scsn \in Known,
           NEW joined, NEW down, Phase(c, joined, down),
           e.state = "HasOnlineSession" /\ ~log[e.scsn].exists => ~c.known
    PROVE  IF e.state = "HasOfflineSession" /\ c.db.scsn = e.scsn
           THEN Alike(c, Fetched(c, e), joined, down)
           ELSE Brought(c, Fetched(c, e), e.scsn, joined, down)
<1> DEFINE o(d) == ClientConnect([d EXCEPT !.mInitState = "HasOnlineSession"])
<1>0. c \in Room
  BY DEF Good
<1>1. ASSUME NEW d, Brought(c, d, e.scsn, joined, down)
      PROVE  Brought(c, o(d), e.scsn, joined, down)
  <2>1. Alike(d, o(d), joined, down)
    BY <1>1, ConnectedAlike DEF Brought
  <2>. HIDE DEF o
  <2>2. QED
    BY <1>1, <2>1, BroughtAlike
<1>2. CASE e.state = "HasOfflineSession" /\ c.db.scsn = e.scsn
  <2>1. Fetched(c, e) = o(c)
    BY <1>2 DEF Fetched, CheckSyncWithSdkDb
  <2>2. Alike(c, o(c), joined, down)
    BY <1>0, ConnectedAlike
  <2>3. QED
    BY <1>2, <2>1, <2>2
<1>3. CASE e.state = "HasOfflineSession" /\ c.db.scsn # e.scsn
  <2> DEFINE d == [OnChatsUpdate(c, e.scsn, FALSE) EXCEPT !.db.scsn = e.scsn]
  <2>1. Brought(c, d, e.scsn, joined, down)
    BY <1>0, UpdatedBrought
  <2>2. Fetched(c, e) = o(d)
    BY <1>3 DEF Fetched, CheckSyncWithSdkDb
  <2>. HIDE DEF d, o
  <2>3. QED
    BY <1>1, <1>3, <2>1, <2>2
<1>4. CASE e.state \in {"WaitingNewSession", "ErrNoCache"}
  <2> DEFINE b == [c EXCEPT !.db = NoRows]
             d == [OnChatsUpdate(b, e.scsn, FALSE) EXCEPT !.db.scsn = e.scsn]
  <2>1. c.known = FALSE
    <3>1. c.db.scsn = 0
      BY <1>4 DEF SessionInv, HasSession
    <3>2. c.known \in BOOLEAN /\ c.db.row \in BOOLEAN
      BY DEF Good, Room, Rows
    <3>. QED
      BY <3>1, <3>2 DEF RowsInv, Good, RoomInv
  <2>2. NoRows \in Rows
    BY NobodyTyped DEF NoRows, Rows
  <2>3. /\ b \in Room /\ b.known = c.known /\ b.connected = c.connected
        /\ b.disabled = c.disabled /\ b.link = c.link
        /\ b.online = c.online /\ b.asked = c.asked /\ b.commitEach = c.commitEach
    BY <1>0, <2>2 DEF Room
  <2>4. Fetched(c, e) = o(d)
    BY <1>4 DEF Fetched, InitWithNewSession
  <2>. HIDE DEF b, o
  <2>5. Phase(b, joined, down)
    BY <2>3 DEF Phase
  <2>6. Brought(b, d, e.scsn, joined, down)
    BY <2>3, <2>5, UpdatedBrought
  <2>. HIDE DEF d
  <2>7. Brought(c, d, e.scsn, joined, down)
    BY <2>1, <2>3, <2>6 DEF Brought
  <2>8. e.state # "HasOfflineSession"
    BY <1>4
  <2>9. QED
    BY <1>1, <2>4, <2>7, <2>8
<1>5. CASE e.state = "HasOnlineSession"
  <2> DEFINE d == [OnChatsUpdate(c, e.scsn, TRUE) EXCEPT !.db.scsn = e.scsn]
  <2>1. Brought(c, d, e.scsn, joined, down)
    BY <1>0, <1>5, UpdatedBrought
  <2>2. Fetched(c, e) = d
    BY <1>5 DEF Fetched, CheckSyncWithSdkDb
  <2>3. e.state # "HasOfflineSession"
    BY <1>5
  <2>. HIDE DEF d
  <2>4. QED
    BY <2>1, <2>2, <2>3
<1>6. QED
  <2>1. e.state \in InitStates
    BY <1>0 DEF Room
  <2>2. QED
    BY <1>2, <1>3, <1>4, <1>5, <2>1 DEF InitStates

\* The answer to a request sets one privilege, or none, to what the request has made it.
LEMMA AnsweredSays ==
    ASSUME NEW c \in Room, NEW e \in Requests, TrueAnswer(e), NEW joined, NEW down,
           Phase(c, joined, down)
    PROVE  /\ Follows(c, Answered(c, e), joined, down)
           /\ Answered(c, e).priv \in {c.priv, [c.priv EXCEPT ![e.user] = e.priv]}
<1> DEFINE d == Answered(c, e)
<1>0. e.user \in Users /\ e.priv \in Levels /\ e.op \in {"leave", "exclude", "invite", "setPrivilege"}
  BY DEF Requests
<1>1. Follows(c, c, joined, down)
  BY DEF Follows
<1>2. ASSUME Sets(c, d, e.user, e.priv)
      PROVE  Follows(c, d, joined, down) /\ d.priv = [c.priv EXCEPT ![e.user] = e.priv]
  <2>. HIDE DEF d
  <2>. QED
    BY <1>1, <1>2, SameChatFollows DEF Sets
<1>3. CASE ~c.known
  BY <1>1, <1>3 DEF Answered
<1>4. CASE c.known /\ e.op = "leave"
  <2>1. d = SetRemoved(c) /\ e.user = Me /\ e.priv = NotPresent
    BY <1>4 DEF Answered, TrueAnswer
  <2>2. QED
    BY <1>0, <1>2, <2>1, RoomMethodsSet
<1>5. CASE c.known /\ e.op = "exclude"
  <2>1. d = RemoveMember(c, e.user) /\ e.priv = NotPresent
    BY <1>5 DEF Answered, TrueAnswer
  <2>2. QED
    BY <1>0, <1>2, <2>1, RoomMethodsSet
<1>6. CASE c.known /\ e.op = "invite"
  <2>1. d = AddMember(c, e.user, e.priv)
    BY <1>6 DEF Answered
  <2>2. QED
    BY <1>0, <1>2, <2>1, RoomMethodsSet
<1>7. CASE c.known /\ e.op = "setPrivilege"
  <2> DEFINE row == [c.db.priv EXCEPT ![e.user] = e.priv]
  <2>1. d = IF c.db.priv[e.user] = NotPresent /\ e.user # Me THEN c
            ELSE [c EXCEPT !.db.priv[e.user] = e.priv]
    BY <1>7 DEF Answered, SetPrivilege
  <2>2. c.priv \in [Users -> Levels] /\ row \in [Users -> Levels]
    BY <1>0 DEF Room, Rows
  <2>3. [c EXCEPT !.db.priv[e.user] = e.priv] = WithPrivs(c, c.priv, row)
    BY DEF WithPrivs, Room
  <2>. HIDE DEF row
  <2>4. SameChat(c, WithPrivs(c, c.priv, row)) /\ WithPrivs(c, c.priv, row).priv = c.priv
    BY <2>2, WithPrivsSame
  <2>. HIDE DEF d
  <2>5. QED
    BY <1>1, <2>1, <2>3, <2>4, SameChatFollows DEF d
<1>8. QED
  BY <1>0, <1>3, <1>4, <1>5, <1>6, <1>7

-----------------------------------------------------------------------------
(* Sequence numbers only grow *)

LEMMA ScsnTyped ==
    ASSUME TypeOK
    PROVE  /\ disk.scsn \in Nat /\ k.db.scsn \in Nat /\ sdk.disk \in Nat /\ sdk.at \in Nat
           /\ Len(log) \in Nat /\ Len(log) > 0 /\ sdk.at <= Len(log)
           /\ \A i \in DOMAIN posted : posted[i] \in Calls /\ posted[i].scsn \in Nat
<1>1. Len(log) \in Nat /\ Len(log) > 0
  BY DEF TypeOK
<1>2. Known \subseteq Nat /\ \A v \in Known : v <= Len(log)
  BY <1>1 DEF Known
<1>3. sdk.disk \in {0} \cup Known /\ sdk.at \in {0} \cup Known
  BY DEF TypeOK
<1>4. sdk.disk \in Nat /\ sdk.at \in Nat /\ sdk.at <= Len(log)
  <2>1. \A v \in {0} \cup Known : v \in Nat /\ v <= Len(log)
    BY <1>1, <1>2
  <2>2. QED
    BY <1>3, <2>1
<1>5. \A e \in Calls : e.scsn \in Nat
  BY <1>2 DEF Calls, Requests
<1>6. \A i \in DOMAIN posted : posted[i] \in Calls /\ posted[i].scsn \in Nat
  BY <1>5 DEF TypeOK
<1>7. disk.scsn \in Nat /\ k.db.scsn \in Nat
  BY DEF TypeOK, Room, Rows
<1>8. QED
  BY <1>1, <1>4, <1>6, <1>7

\* Nothing is marshalled, and the numbers stay, but that the disk may get that of the rows.
LEMMA OrderStep ==
    ASSUME TypeOK, OrderInv, posted' = posted, sdk'.at = sdk.at, sdk'.disk = sdk.disk,
           sdk'.state = sdk.state, sdk'.request = sdk.request \/ sdk.state # "off",
           k'.db.scsn = k.db.scsn, disk'.scsn \in {disk.scsn, k.db.scsn}
    PROVE  OrderInv'
<1>1. disk'.scsn <= k.db.scsn
  BY ScsnTyped DEF OrderInv
<1>2. QED
  BY <1>1 DEF OrderInv, Commits

\* A call is marshalled that the SDK makes with what it has.
LEMMA OrderPost ==
    ASSUME TypeOK, OrderInv, log' = log, NEW e \in Calls, Post(e),
           k'.db.scsn = k.db.scsn, disk'.scsn = disk.scsn, sdk'.state # "off",
           sdk.at <= e.scsn, e.type # "answered" => e.scsn = sdk'.at,
           sdk.at <= sdk'.at, sdk.disk <= sdk'.disk, sdk'.disk <= sdk'.at,
           Commits(e) => sdk'.disk = e.scsn, sdk'.at \in Nat, sdk'.disk \in Nat
    PROVE  OrderInv'
<1> DEFINE n == Len(posted) + 1
<1>1. /\ Len(posted) \in Nat /\ DOMAIN posted' = 1 .. n /\ DOMAIN posted = 1 .. Len(posted)
      /\ posted'[n] = e /\ \A i \in DOMAIN posted : posted'[i] = posted[i]
  BY PostTyped
<1>2. \A i \in DOMAIN posted' : i \in DOMAIN posted \/ i = n
  BY <1>1
<1>3. \A i, j \in DOMAIN posted' : i < j => i \in DOMAIN posted
  BY <1>1
<1>. HIDE DEF n
<1>4. e.scsn \in Nat
  <2>1. Known \subseteq Nat
    BY LastTyped
  <2>2. QED
    BY <2>1 DEF Calls, Requests
<1>5. k.db.scsn <= e.scsn
  BY <1>4, ScsnTyped DEF OrderInv
<1>6. \A i \in DOMAIN posted' :
          /\ k.db.scsn <= posted'[i].scsn
          /\ posted'[i].type # "answered" => posted'[i].scsn <= sdk'.at
          /\ Commits(posted'[i]) => posted'[i].scsn <= sdk'.disk
  <2> SUFFICES ASSUME NEW i \in DOMAIN posted'
               PROVE  /\ k.db.scsn <= posted'[i].scsn
                      /\ posted'[i].type # "answered" => posted'[i].scsn <= sdk'.at
                      /\ Commits(posted'[i]) => posted'[i].scsn <= sdk'.disk
    OBVIOUS
  <2>1. CASE i \in DOMAIN posted
    <3>1. /\ posted'[i] = posted[i] /\ k.db.scsn <= posted[i].scsn
          /\ posted[i].type # "answered" => posted[i].scsn <= sdk.at
          /\ Commits(posted[i]) => posted[i].scsn <= sdk.disk
          /\ posted[i].scsn \in Nat
      BY <1>1, <2>1, ScsnTyped DEF OrderInv
    <3>2. QED
      BY <3>1, ScsnTyped
  <2>2. CASE i = n
    BY <1>1, <1>4, <1>5, <2>2
  <2>3. QED
    BY <1>2, <2>1, <2>2
<1>7. \A i, j \in DOMAIN posted' :
          i < j /\ posted'[i].type # "answered" => posted'[i].scsn <= posted'[j].scsn
  <2> SUFFICES ASSUME NEW i \in DOMAIN posted', NEW j \in DOMAIN posted', i < j,
                      posted'[i].type # "answered"
               PROVE  posted'[i].scsn <= posted'[j].scsn
    OBVIOUS
  <2>1. i \in DOMAIN posted /\ posted'[i] = posted[i]
    BY <1>1, <1>3
  <2>2. CASE j \in DOMAIN posted
    BY <1>1, <2>1, <2>2 DEF OrderInv
  <2>3. CASE j = n
    <3>1. posted[i].scsn <= sdk.at /\ posted[i].scsn \in Nat
      BY <2>1, ScsnTyped DEF OrderInv
    <3>2. QED
      BY <1>1, <1>4, <2>1, <2>3, <3>1, ScsnTyped
  <2>4. QED
    BY <1>2, <2>2, <2>3
<1>8. k.db.scsn <= sdk'.disk
  BY ScsnTyped DEF OrderInv
<1>9. QED
  BY <1>6, <1>7, <1>8 DEF OrderInv

LEMMA FetchOrder ==
    ASSUME IInv, OrderInv, NEW v \in Known, sdk.at <= v,
           sdk' = [sdk EXCEPT !.state = "paused", !.at = v, !.disk = v],
           Post([type |-> "fetched", scsn |-> v, state |-> k.mInitState]),
           UNCHANGED <<log, k, disk>>
    PROVE  OrderInv'
<1> DEFINE e == [type |-> "fetched", scsn |-> v, state |-> k.mInitState]
<1>1. e \in Calls /\ e.type = "fetched" /\ e.scsn = v
  BY DEF Calls, IInv, TypeOK, Room
<1>2. Post(e)
  OBVIOUS
<1>. HIDE DEF e
<1>3. sdk'.at = v /\ sdk'.disk = v /\ sdk'.state = "paused" /\ v \in Nat
  BY LastTyped DEF IInv, TypeOK
<1>4. sdk.disk <= v
  BY <1>3, ScsnTyped DEF IInv, OrderInv
<1>5. QED
  BY <1>1, <1>2, <1>3, <1>4, OrderPost DEF IInv

LEMMA SdkFetchesOrder == ASSUME IInv, OrderInv, SdkFetches PROVE OrderInv'
<1> DEFINE v == IF k.mInitState = "HasOfflineSession" THEN sdk.disk ELSE Len(log)
<1>1. v \in Known
  <2>1. Len(log) \in Known
    BY LastTyped DEF IInv
  <2>2. k.mInitState = "HasOfflineSession" => sdk.disk # 0
    BY DEF IInv, DiskInv, RoomsInv, SessionInv, HasSession
  <2>3. sdk.disk \in {0} \cup Known
    BY DEF IInv, TypeOK
  <2>4. QED
    BY <2>1, <2>2, <2>3
<1>2. /\ sdk' = [sdk EXCEPT !.state = "paused", !.at = v, !.disk = v]
      /\ Post([type |-> "fetched", scsn |-> v, state |-> k.mInitState])
      /\ UNCHANGED <<log, k, disk>>
  BY DEF SdkFetches
<1>3. sdk.at <= v
  BY ScsnTyped DEF IInv, OrderInv, SdkFetches
<1>. HIDE DEF v
<1>4. QED
  BY <1>1, <1>2, <1>3, FetchOrder, ZenonT(30)

LEMMA SdkReloadsOrder == ASSUME IInv, OrderInv, SdkReloads PROVE OrderInv'
<1>1. Len(log) \in Known /\ sdk.at <= Len(log)
  BY LastTyped, ScsnTyped DEF IInv
<1>2. QED
  BY <1>1, FetchOrder, ZenonT(30) DEF SdkReloads

LEMMA SdkUpdatesOrder == ASSUME IInv, OrderInv, SdkUpdates PROVE OrderInv'
<1>1. PICK v \in sdk.at + 1 .. Len(log) :
          /\ sdk' = [sdk EXCEPT !.at = v]
          /\ IF log[v].exists THEN Post([type |-> "chats", scsn |-> v]) ELSE UNCHANGED posted
  BY DEF SdkUpdates
<1>2. v \in Known /\ sdk.at < v /\ v \in Nat
  BY ScsnTyped DEF IInv, Known
<1>3. sdk'.at = v /\ sdk'.disk = sdk.disk /\ sdk'.state = sdk.state /\ sdk'.state # "off"
  BY <1>1 DEF IInv, TypeOK, SdkUpdates
<1>4. UNCHANGED <<log, k, disk>>
  BY DEF SdkUpdates
<1>5. /\ sdk.at \in Nat /\ sdk.disk \in Nat /\ sdk.disk <= sdk.at
      /\ \A i \in DOMAIN posted : posted[i].scsn \in Nat
  BY ScsnTyped DEF IInv, OrderInv
<1>6. CASE Post([type |-> "chats", scsn |-> v])
  <2> DEFINE e == [type |-> "chats", scsn |-> v]
  <2>1. e \in Calls /\ e.type = "chats" /\ e.scsn = v /\ Post(e)
    BY <1>2, <1>6 DEF Calls
  <2>. HIDE DEF e
  <2>2. ~Commits(e)
    BY <2>1 DEF Commits
  <2>3. QED
    BY <1>2, <1>3, <1>4, <1>5, <2>1, <2>2, OrderPost DEF IInv
<1>7. CASE UNCHANGED posted
  BY <1>2, <1>3, <1>4, <1>5, <1>7 DEF OrderInv, Commits
<1>8. QED
  BY <1>1, <1>6, <1>7

LEMMA SdkCommitsOrder == ASSUME IInv, OrderInv, SdkCommits PROVE OrderInv'
<1>1. /\ sdk.at \in Nat /\ sdk.disk \in Nat /\ sdk.disk < sdk.at /\ sdk.at \in {0} \cup Known
  BY ScsnTyped DEF IInv, TypeOK, SdkCommits
<1>2. sdk.at \in Known
  BY <1>1
<1> DEFINE e == [type |-> "commit", scsn |-> sdk.at]
<1>3. e \in Calls /\ e.type = "commit" /\ e.scsn = sdk.at /\ Post(e)
  BY <1>2 DEF Calls, SdkCommits
<1>. HIDE DEF e
<1>4. /\ sdk'.at = sdk.at /\ sdk'.disk = sdk.at /\ sdk'.state # "off"
      /\ UNCHANGED <<log, k, disk>>
  BY DEF SdkCommits, IInv, TypeOK
<1>5. QED
  BY <1>1, <1>3, <1>4, OrderPost DEF IInv

LEMMA SdkAnswersOrder == ASSUME IInv, OrderInv, SdkAnswers PROVE OrderInv'
<1> DEFINE e == sdk.request
<1>1. e \in Requests /\ e \in Calls /\ e.type = "answered"
  BY DEF SdkAnswers, IInv, TypeOK, Calls, Requests
<1>2. Post(e) /\ sdk.at <= e.scsn /\ ~Commits(e)
  BY <1>1 DEF SdkAnswers, Commits
<1>. HIDE DEF e
<1>3. /\ sdk'.at = sdk.at /\ sdk'.disk = sdk.disk /\ sdk'.state = sdk.state
      /\ sdk.state # "off" /\ UNCHANGED <<log, k, disk>>
  BY DEF SdkAnswers, IInv, TypeOK, OrderInv
<1>4. sdk.at \in Nat /\ sdk.disk \in Nat /\ sdk.disk <= sdk.at
  BY ScsnTyped DEF IInv, OrderInv
<1>5. QED
  BY <1>1, <1>2, <1>3, <1>4, OrderPost DEF IInv

\* A call is taken from those that are marshalled.
LEMMA Popped ==
    ASSUME TypeOK, posted # <<>>, posted' = Tail(posted)
    PROVE  /\ Head(posted) = posted[1] /\ 1 \in DOMAIN posted /\ posted[1] \in Calls
           /\ \A i \in DOMAIN posted' : /\ i \in Nat /\ i >= 1 /\ i + 1 \in DOMAIN posted
                                        /\ posted'[i] = posted[i + 1]
           /\ \A i \in DOMAIN posted : /\ i \in Nat /\ i >= 1
                                       /\ i > 1 => i - 1 \in DOMAIN posted'
<1>1. posted \in Seq(Calls)
  BY DEF TypeOK
<1>2. QED
  BY <1>1

\* What is called with a number leaves the number in the rows, anything else leaves the one
\* they have.
LEMMA CalledScsn ==
    ASSUME IInv, NEW e \in Calls,
           e.type = "fetched" => e.state = k.mInitState
    PROVE  Called(k, e).db.scsn = IF Commits(e) THEN e.scsn ELSE k.db.scsn
<1>0. /\ TypeOK /\ Good(k) /\ SessionInv(k) /\ RowsInv(k.db) /\ Known \subseteq Nat
  BY LastTyped DEF IInv, RoomsInv, Good, TypeOK
<1>1. CASE e.type = "chats"
  <2>1. e.scsn \in Known /\ ~Commits(e)
    BY <1>1 DEF Calls, Requests, Commits
  <2>2. Called(k, e) = OnChatsUpdate(k, e.scsn, FALSE)
    BY <1>1 DEF Called
  <2>3. Moves(k, OnChatsUpdate(k, e.scsn, FALSE))
    BY <1>0, <2>1, OnChatsUpdateMoves
  <2>4. QED
    BY <2>1, <2>2, <2>3 DEF Moves
<1>2. CASE e.type = "commit"
  <2>1. e.scsn \in Known /\ Commits(e)
    BY <1>2 DEF Calls, Requests, Commits
  <2>2. Called(k, e) = [k EXCEPT !.db.scsn = e.scsn]
    BY <1>2 DEF Called
  <2>3. [k EXCEPT !.db.scsn = e.scsn].db.scsn = e.scsn
    BY <1>0, <2>1, ScsnSet
  <2>4. QED
    BY <2>1, <2>2, <2>3
<1>3. CASE e.type = "fetched"
  <2>1. e.scsn \in Known /\ e.state = k.mInitState /\ Commits(e)
    BY <1>3 DEF Calls, Requests, Commits
  <2>2. Called(k, e) = Fetched(k, e)
    BY <1>3 DEF Called
  <2>3. Fetched(k, e).db.scsn = e.scsn
    BY <1>0, <2>1, FetchedGood
  <2>4. QED
    BY <2>1, <2>2, <2>3
<1>4. CASE e.type = "answered"
  <2>1. e \in Requests /\ ~Commits(e)
    BY <1>4 DEF Calls, Commits
  <2>2. Called(k, e) = Answered(k, e)
    BY <1>4 DEF Called
  <2>3. Keeps(k, Answered(k, e))
    BY <1>0, <2>1, AnsweredKeeps
  <2>4. QED
    BY <2>1, <2>2, <2>3 DEF Keeps
<1>5. QED
  BY <1>1, <1>2, <1>3, <1>4 DEF Calls, Requests

\* What the main thread does with the first call, as far as it is known of every call.
Pops(e) ==
    /\ posted # <<>> /\ e = posted[1] /\ e \in Calls
    /\ e.type = "fetched" => e.state = k.mInitState
    /\ k' = Called(k, e) /\ k'.db.scsn = IF Commits(e) THEN e.scsn ELSE k.db.scsn
    /\ disk' = (IF Commits(e) \/ k'.commitEach THEN k'.db ELSE disk)
    /\ sdk'.at = sdk.at /\ sdk'.disk = sdk.disk /\ sdk'.request = sdk.request
    /\ sdk.state # "off" /\ sdk'.state # "off"
    /\ posted' = Tail(posted) /\ UNCHANGED <<log, chatd, budget>>

LEMMA MainThreadPops ==
    ASSUME IInv, OrderInv, MainThread
    PROVE  Pops(Head(posted))
<1> DEFINE e == Head(posted)
<1>1. posted \in Seq(Calls) /\ posted # <<>>
  BY DEF IInv, TypeOK, MainThread
<1>2. e = posted[1] /\ e \in Calls /\ 1 \in DOMAIN posted
  BY <1>1
<1>3. e.type = "fetched" => e.state = k.mInitState
  BY <1>2 DEF IInv, FetchInv
<1>4. /\ k' = Called(k, e)
      /\ disk' = IF Commits(e) THEN k'.db ELSE IF k'.commitEach THEN k'.db ELSE disk
      /\ sdk' = IF e.type = "fetched" THEN [sdk EXCEPT !.state = "running"] ELSE sdk
      /\ posted' = Tail(posted) /\ UNCHANGED <<log, chatd, budget>>
  BY DEF MainThread
<1>5. sdk.state # "off"
  BY <1>1 DEF OrderInv
<1>. HIDE DEF e
<1>6. /\ sdk'.at = sdk.at /\ sdk'.disk = sdk.disk /\ sdk'.request = sdk.request
      /\ sdk'.state # "off"
  BY <1>4, <1>5 DEF IInv, TypeOK
<1>7. Called(k, e).db.scsn = IF Commits(e) THEN e.scsn ELSE k.db.scsn
  BY <1>2, <1>3, CalledScsn
<1>8. disk' = (IF Commits(e) \/ k'.commitEach THEN k'.db ELSE disk)
  BY <1>4
<1>9. Pops(e)
  BY <1>1, <1>2, <1>3, <1>4, <1>5, <1>6, <1>7, <1>8, Zenon DEF Pops
<1>10. QED
  BY <1>9 DEF e

LEMMA MainThreadOrder == ASSUME IInv, OrderInv, MainThread PROVE OrderInv'
<1> DEFINE e == Head(posted)
<1>1. Pops(e)
  BY MainThreadPops
<1>. HIDE DEF e
<1>2. /\ 1 \in DOMAIN posted
      /\ \A i \in DOMAIN posted' : i \in Nat /\ i >= 1 /\ i + 1 \in DOMAIN posted
                                     /\ posted'[i] = posted[i + 1]
  BY <1>1, Popped DEF Pops, IInv
<1>3. /\ disk.scsn \in Nat /\ k.db.scsn \in Nat /\ sdk.disk \in Nat /\ sdk.at \in Nat
      /\ \A i \in DOMAIN posted : posted[i].scsn \in Nat
  BY ScsnTyped DEF IInv
<1>4. e = posted[1] /\ k.db.scsn <= e.scsn /\ e.scsn \in Nat
  BY <1>1, <1>2, <1>3 DEF Pops, OrderInv
<1>5. k'.db.scsn \in Nat /\ k.db.scsn <= k'.db.scsn
  BY <1>1, <1>3, <1>4 DEF Pops
<1>6. Commits(e) => e.scsn <= sdk.disk /\ e.type # "answered"
  BY <1>2, <1>4 DEF OrderInv, Commits
<1>7. k'.db.scsn <= sdk.disk
  BY <1>1, <1>3, <1>6 DEF Pops, OrderInv
<1>8. disk'.scsn <= k'.db.scsn
  <2>1. disk' = k'.db \/ disk' = disk
    BY <1>1 DEF Pops
  <2>2. disk.scsn <= k.db.scsn
    BY DEF OrderInv
  <2>3. QED
    BY <1>3, <1>5, <2>1, <2>2
<1>9. \A i \in DOMAIN posted : 1 < i => k'.db.scsn <= posted[i].scsn
  <2> SUFFICES ASSUME NEW i \in DOMAIN posted, 1 < i PROVE k'.db.scsn <= posted[i].scsn
    OBVIOUS
  <2>1. k.db.scsn <= posted[i].scsn
    BY DEF OrderInv
  <2>2. Commits(e) => e.scsn <= posted[i].scsn
    BY <1>2, <1>4, <1>6 DEF OrderInv
  <2>3. QED
    BY <1>1, <2>1, <2>2 DEF Pops
<1>10. \A i \in DOMAIN posted' :
          /\ k'.db.scsn <= posted'[i].scsn
          /\ posted'[i].type # "answered" => posted'[i].scsn <= sdk.at
          /\ Commits(posted'[i]) => posted'[i].scsn <= sdk.disk
  <2> SUFFICES ASSUME NEW i \in DOMAIN posted'
               PROVE  /\ k'.db.scsn <= posted'[i].scsn
                      /\ posted'[i].type # "answered" => posted'[i].scsn <= sdk.at
                      /\ Commits(posted'[i]) => posted'[i].scsn <= sdk.disk
    OBVIOUS
  <2>1. i + 1 \in DOMAIN posted /\ posted'[i] = posted[i + 1] /\ 1 < i + 1
    BY <1>2
  <2>2. QED
    BY <1>9, <2>1 DEF OrderInv
<1>11. \A i, j \in DOMAIN posted' :
          i < j /\ posted'[i].type # "answered" => posted'[i].scsn <= posted'[j].scsn
  <2> SUFFICES ASSUME NEW i \in DOMAIN posted', NEW j \in DOMAIN posted', i < j,
                      posted'[i].type # "answered"
               PROVE  posted'[i].scsn <= posted'[j].scsn
    OBVIOUS
  <2>1. /\ i + 1 \in DOMAIN posted /\ posted'[i] = posted[i + 1]
        /\ j + 1 \in DOMAIN posted /\ posted'[j] = posted[j + 1] /\ i + 1 < j + 1
    BY <1>2
  <2>2. QED
    BY <2>1 DEF OrderInv
<1>12. QED
  BY <1>1, <1>7, <1>8, <1>10, <1>11 DEF Pops, OrderInv

LEMMA LinkUpSame ==
    ASSUME IInv, LinkUp
    PROVE  /\ SameRoom(k, k')
           /\ \A joined, down : Phase(k, joined, down) => Phase(k', joined, down)
<1> DEFINE d == [k EXCEPT !.link = "up"]
<1>1. /\ SameRoom(k, d) /\ d.link = "up" /\ d.online = k.online /\ d.asked = k.asked
      /\ d.disabled = k.disabled /\ d.commitEach = k.commitEach
  BY DEF IInv, TypeOK, Room, SameRoom
<1>2. k' = IF d.known /\ ~d.disabled THEN Login(d) ELSE d
  BY DEF LinkUp, RejoinExistingChats
<1>. HIDE DEF d
<1>3. SameRoom(d, Login(d))
  BY <1>1, LoginSame DEF SameRoom
<1>4. SameRoom(k, k')
  BY <1>1, <1>2, <1>3, SameRoomTwice
<1>5. ASSUME NEW joined, NEW down, Phase(k, joined, down)
      PROVE  Phase(k', joined, down)
  <2>1. k.link = "down"
    BY DEF LinkUp
  <2>2. d.online = "offline"
    BY <1>1, <1>5, <2>1 DEF Phase
  <2>3. k.connected
    <3>1. k.connected \in BOOLEAN
      BY DEF IInv, TypeOK, Room
    <3>2. QED
      BY <1>5, <2>1, <3>1 DEF Phase
  <2>4. Phase(d, joined, down)
    BY <1>1, <1>5, <2>2, <2>3 DEF Phase, SameRoom
  <2>5. d \in Room
    BY <1>1 DEF SameRoom
  <2>6. QED
    BY <1>1, <1>2, <2>2, <2>4, <2>5, LoginPhase
<1>6. QED
  BY <1>4, <1>5

LEMMA LinkDownSame ==
    ASSUME IInv, LinkDown
    PROVE  /\ SameRoom(k, k') /\ k'.link = "down" /\ k'.asked = FALSE /\ k'.online = "offline"
           /\ k'.disabled = k.disabled
BY DEF IInv, TypeOK, Room, SameRoom, LinkDown

LEMMA ChatdAnswersJoinSame ==
    ASSUME IInv, ChatdAnswersJoin
    PROVE  /\ SameRoom(k, k') /\ k'.asked = FALSE /\ k'.online = k.online /\ k'.link = k.link
           /\ k'.disabled = k.disabled /\ k'.commitEach = k.commitEach
BY DEF IInv, TypeOK, Room, SameRoom, ChatdAnswersJoin

\* What chatd says next, and what is behind it.
LEMMA ReceiveSays ==
    ASSUME IInv, Receive
    PROVE  /\ chatd.down \in Seq(Command) /\ chatd.down # <<>> /\ Head(chatd.down) \in Command
           /\ k' = Exec(k, Head(chatd.down)) /\ Keeps(k, k') /\ disk' \in {disk, k'.db}
<1>1. Good(k) /\ chatd.down \in Seq(Command) /\ chatd.down # <<>>
  BY DEF IInv, RoomsInv, TypeOK, Good, Receive
<1>2. Head(chatd.down) \in Command
  BY <1>1, HeadTailProperties
<1>3. QED
  BY <1>1, <1>2, ExecKeeps DEF Receive, CommitsEach

LEMMA RestartSays ==
    ASSUME IInv, Restart
    PROVE  /\ k' = Started(disk, IF disk.scsn = 0 THEN "ErrNoCache" ELSE "HasOfflineSession")
           /\ k'.db = disk /\ disk' = disk /\ log' = log /\ posted' = <<>> /\ chatd' = Cut
           /\ sdk'.state = "off" /\ sdk'.at = sdk.disk /\ sdk'.disk = sdk.disk
           /\ sdk'.request = NoRequest
<1>1. disk \in Rows /\ RowsInv(disk)
  BY DEF IInv, TypeOK, RoomsInv
<1>2. "ErrNoCache" \in InitStates /\ "HasOfflineSession" \in InitStates
  BY DEF InitStates
<1>3. k' = Started(disk, IF disk.scsn = 0 THEN "ErrNoCache" ELSE "HasOfflineSession")
  BY DEF Restart
<1>4. k'.db = disk
  BY <1>1, <1>2, <1>3, StartedGood
<1>5. QED
  BY <1>3, <1>4 DEF Restart

LEMMA InitOrder == Init => OrderInv
<1> SUFFICES ASSUME Init PROVE OrderInv
  OBVIOUS
<1>1. k.db.scsn = 0 /\ disk.scsn = 0
  <2>1. NoRows \in Rows /\ RowsInv(NoRows) /\ "WaitingNewSession" \in InitStates
    BY NobodyTyped DEF NoRows, Rows, RowsInv, InitStates
  <2>2. Started(NoRows, "WaitingNewSession").db = NoRows
    BY <2>1, StartedGood
  <2>3. k.db = NoRows /\ disk = NoRows
    BY <2>2 DEF Init
  <2>4. QED
    BY <2>3 DEF NoRows
<1>2. DOMAIN posted = {} /\ posted = <<>>
  BY DEF Init
<1>3. sdk.at = 0 /\ sdk.disk = 0 /\ sdk.request = NoRequest
  BY DEF Init
<1>4. QED
  BY <1>1, <1>2, <1>3 DEF OrderInv

LEMMA NextOrder == IInv /\ OrderInv /\ [Next]_vars => OrderInv'
<1> SUFFICES ASSUME IInv, OrderInv, [Next]_vars PROVE OrderInv'
  OBVIOUS
<1>0. TypeOK
  BY DEF IInv
<1>1. CASE Created \/ ChangedByOther \/ Deleted
  <2>1. UNCHANGED <<sdk, posted, k, disk>>
    BY <1>1 DEF Created, ChangedByOther, Deleted
  <2>2. QED
    BY <1>0, <2>1, OrderStep
<1>2. CASE ChatdAnswersJoin
  <2>1. k'.db = k.db /\ UNCHANGED <<sdk, posted, disk>>
    BY <1>2, ChatdAnswersJoinSame DEF SameRoom, ChatdAnswersJoin
  <2>2. QED
    BY <1>0, <2>1, OrderStep
<1>3. CASE SdkFetches
  BY <1>3, SdkFetchesOrder
<1>4. CASE SdkReloads
  BY <1>4, SdkReloadsOrder
<1>5. CASE SdkUpdates
  BY <1>5, SdkUpdatesOrder
<1>6. CASE SdkCommits
  BY <1>6, SdkCommitsOrder
<1>7. CASE SdkAnswers
  BY <1>7, SdkAnswersOrder
<1>8. CASE MainThread
  BY <1>8, MainThreadOrder
<1>9. CASE CommitTimer
  BY <1>0, <1>9, OrderStep DEF CommitTimer
<1>10. CASE Receive
  <2>1. k'.db.scsn = k.db.scsn /\ disk' \in {disk, k'.db} /\ UNCHANGED <<sdk, posted>>
    BY <1>10, ReceiveSays DEF Keeps, Receive
  <2>2. QED
    BY <1>0, <2>1, OrderStep
<1>11. CASE LinkUp
  <2>1. k'.db = k.db /\ UNCHANGED <<sdk, posted, disk>>
    BY <1>11, LinkUpSame DEF SameRoom, LinkUp
  <2>2. QED
    BY <1>0, <2>1, OrderStep
<1>12. CASE LinkDown
  <2>1. k'.db = k.db /\ UNCHANGED <<sdk, posted, disk>>
    BY <1>12, LinkDownSame DEF SameRoom, LinkDown
  <2>2. QED
    BY <1>0, <2>1, OrderStep
<1>13. CASE Request
  <2>1. UNCHANGED <<k, disk, posted>> /\ sdk.state = "running"
    BY <1>13 DEF Request
  <2>2. PICK r : sdk' = [sdk EXCEPT !.request = r]
    BY <1>13, Zenon DEF Request
  <2>3. sdk'.at = sdk.at /\ sdk'.disk = sdk.disk /\ sdk'.state = sdk.state
    BY <1>0, <2>2 DEF TypeOK
  <2>4. QED
    BY <1>0, <2>1, <2>3, OrderStep
<1>14. CASE Restart
  <2>1. /\ k'.db = disk /\ disk' = disk /\ posted' = <<>> /\ sdk'.at = sdk.disk
        /\ sdk'.disk = sdk.disk /\ sdk'.request = NoRequest
    BY <1>14, RestartSays
  <2>2. DOMAIN posted' = {}
    BY <2>1
  <2>3. disk.scsn <= sdk.disk /\ disk.scsn <= disk.scsn /\ sdk.disk <= sdk.disk
    BY <1>0, ScsnTyped DEF OrderInv
  <2>4. QED
    BY <2>1, <2>2, <2>3 DEF OrderInv
<1>15. CASE UNCHANGED vars
  BY <1>15 DEF vars, OrderInv, Commits
<1>16. QED
  BY <1>1, <1>2, <1>3, <1>4, <1>5, <1>6, <1>7, <1>8, <1>9, <1>10, <1>11, <1>12, <1>13,
     <1>14, <1>15 DEF Next

-----------------------------------------------------------------------------
(* What chatd says of a change *)

\* JOINs of these users with their privileges, and of nobody else.
SaysOf(cmds, priv, users) ==
    /\ cmds \in Seq(Command)
    /\ \A i \in DOMAIN cmds : /\ cmds[i].op = "JOIN" /\ cmds[i].user \in users
                              /\ cmds[i].priv = priv[cmds[i].user]
    /\ \A u \in users : \E i \in DOMAIN cmds : cmds[i].user = u
    /\ \A i, j \in DOMAIN cmds : cmds[i].user = cmds[j].user => i = j

LEMMA JoinsSay ==
    ASSUME NEW priv \in [Users -> Levels], NEW users \in SUBSET Users
    PROVE  SaysOf(Joins(priv, users), priv, users)
<1> DEFINE order == SetToSeq(users)
           n == Cardinality(users)
           s == Joins(priv, users)
<1>1. IsFiniteSet(users)
  BY UsersFinite, FS_Subset
<1>2. n \in Nat /\ ExistsBijection(1..n, users)
  BY <1>1, FS_CardinalityType
<1>3. PICK f \in Bijection(1..n, users) : TRUE
  BY <1>2 DEF ExistsBijection
<1>4. f \in [1..n -> users] /\ IsInjective(f)
  BY <1>3 DEF Bijection, Injection
<1>5. order \in [1..n -> users] /\ IsInjective(order)
  BY <1>4 DEF SetToSeq
<1>6. \A u \in users : \E i \in 1..n : order[i] = u
  <2>1. order \in Injection(1..n, users)
    BY <1>5 DEF Injection
  <2>2. IsFiniteSet(1..n) /\ Cardinality(1..n) = n
    BY <1>2, FS_Interval
  <2>3. order \in Surjection(1..n, users)
    BY <1>1, <1>2, <2>1, <2>2, FS_Injection
  <2>4. QED
    BY <2>3 DEF Surjection
<1>7. s = [i \in 1..n |-> [op |-> "JOIN", user |-> order[i], priv |-> priv[order[i]]]]
  BY <1>5 DEF Joins
<1>8. s \in Seq(Command)
  BY JoinsTyped
<1>. HIDE DEF order, n
<1>9. DOMAIN s = 1..n /\ \A i \in 1..n : /\ s[i].op = "JOIN" /\ s[i].user = order[i]
                                         /\ s[i].priv = priv[order[i]]
  BY <1>7
<1>. HIDE DEF s
<1>10. \A i \in DOMAIN s : s[i].op = "JOIN" /\ s[i].user \in users /\ s[i].priv = priv[s[i].user]
  BY <1>5, <1>9
<1>11. \A u \in users : \E i \in DOMAIN s : s[i].user = u
  BY <1>6, <1>9
<1>12. \A i, j \in DOMAIN s : s[i].user = s[j].user => i = j
  BY <1>5, <1>9 DEF IsInjective
<1>13. QED
  BY <1>8, <1>10, <1>11, <1>12 DEF SaysOf, s

\* After old, this is what is said of new: of whom it speaks, the last word is right, and what
\* was right of the others still is.
Speaks(cmds, old, new) ==
    /\ cmds \in Seq(Command) /\ AllJoins(cmds)
    /\ \A u \in Users :
           \/ ~Undecided(cmds, u) /\ LastWord(cmds, new, u)
           \/ Undecided(cmds, u) /\ \A p : Right(old, u, p) <=> Right(new, u, p)
    /\ \A i \in DOMAIN cmds : Removes(cmds[i], Me) => old[Me] # NotPresent
    /\ \A i, j \in DOMAIN cmds : Removes(cmds[i], Me) /\ Removes(cmds[j], Me) => i = j

LEMMA ConcatParts ==
    ASSUME NEW a \in Seq(Command), NEW b \in Seq(Command)
    PROVE  /\ a \o b \in Seq(Command) /\ Len(a) \in Nat
           /\ DOMAIN a = 1..Len(a) /\ DOMAIN b = 1..Len(b) /\ Len(b) \in Nat
           /\ \A i \in DOMAIN a : i \in DOMAIN (a \o b) /\ (a \o b)[i] = a[i]
           /\ \A i \in DOMAIN b : Len(a) + i \in DOMAIN (a \o b) /\ (a \o b)[Len(a) + i] = b[i]
           /\ \A i \in DOMAIN (a \o b) :
                  \/ i \in DOMAIN a
                  \/ i - Len(a) \in DOMAIN b /\ (a \o b)[i] = b[i - Len(a)]
           /\ \A i \in DOMAIN (a \o b) : i \in Nat
<1>1. /\ a \o b \in Seq(Command) /\ Len(a) \in Nat /\ Len(b) \in Nat
      /\ DOMAIN a = 1..Len(a) /\ DOMAIN b = 1..Len(b)
      /\ DOMAIN (a \o b) = 1 .. Len(a) + Len(b)
      /\ \A i \in 1 .. Len(a) + Len(b) : (a \o b)[i] = IF i <= Len(a) THEN a[i] ELSE b[i - Len(a)]
  BY ConcatProperties, LenProperties
<1>. QED
  BY <1>1

\* Somebody of these has the last word on themselves.
LEMMA SaidOf ==
    ASSUME NEW cmds, NEW priv, NEW users, SaysOf(cmds, priv, users), priv[Me] # NotPresent,
           NEW u
    PROVE  /\ ~\E i \in DOMAIN cmds : Removes(cmds[i], Me)
           /\ u \in users => ~Undecided(cmds, u) /\ LastWord(cmds, priv, u)
           /\ u \notin users => Undecided(cmds, u)
<1>1. ~\E i \in DOMAIN cmds : Removes(cmds[i], Me)
  BY DEF SaysOf, Removes
<1>2. \A i \in DOMAIN cmds : Decides(cmds[i], u) <=> cmds[i].user = u
  BY <1>1 DEF SaysOf, Decides
<1>3. ASSUME u \in users PROVE ~Undecided(cmds, u) /\ LastWord(cmds, priv, u)
  <2>1. PICK i \in DOMAIN cmds : cmds[i].user = u
    BY <1>3 DEF SaysOf
  <2>2. \A j \in DOMAIN cmds : Decides(cmds[j], u) => Right(priv, u, cmds[j].priv)
    BY <1>2 DEF SaysOf, Right
  <2>3. QED
    BY <1>2, <2>1, <2>2 DEF Undecided, LastWord
<1>4. u \notin users => Undecided(cmds, u)
  BY <1>2 DEF SaysOf, Undecided
<1>5. QED
  BY <1>1, <1>3, <1>4

LEMMA ToldSpeaks ==
    ASSUME chatd.joined, NEW old \in [Users -> Levels], NEW new \in [Users -> Levels]
    PROVE  Speaks(Told(old, new), old, new)
<1> DEFINE differ == {u \in Users : old[u] # new[u]}
           told == Told(old, new)
<1>1. /\ differ \in SUBSET Users /\ In(new) \in SUBSET Users
      /\ differ \ {Me} \in SUBSET Users /\ {Me} \in SUBSET Users
  BY NobodyTyped DEF In
<1>2. told = IF new[Me] = NotPresent
             THEN IF old[Me] = NotPresent THEN <<>>
                  ELSE Joins(new, differ \ {Me}) \o Joins(new, {Me})
             ELSE IF old[Me] = NotPresent THEN Joins(new, In(new)) ELSE Joins(new, differ)
  BY DEF Told
<1>3. told \in Seq(Command)
  BY ToldTyped
<1> SUFFICES Speaks(told, old, new)
  OBVIOUS
<1>. HIDE DEF told
<1>4. CASE new[Me] # NotPresent /\ old[Me] # NotPresent
  <2>1. SaysOf(told, new, differ)
    BY <1>1, <1>2, <1>4, JoinsSay
  <2>2. ASSUME NEW u \in Users
        PROVE  \/ ~Undecided(told, u) /\ LastWord(told, new, u)
               \/ Undecided(told, u) /\ \A p : Right(old, u, p) <=> Right(new, u, p)
    <3>1. CASE u \in differ
      BY <1>4, <2>1, <3>1, SaidOf
    <3>2. CASE u \notin differ
      <4>1. Undecided(told, u)
        BY <1>4, <2>1, <3>2, SaidOf
      <4>2. \A p : Right(old, u, p) <=> Right(new, u, p)
        BY <1>4, <3>2 DEF Right
      <4>3. QED
        BY <4>1, <4>2
    <3>3. QED
      BY <3>1, <3>2
  <2>3. ~\E i \in DOMAIN told : Removes(told[i], Me)
    BY <1>4, <2>1, SaidOf
  <2>4. AllJoins(told)
    BY <2>1 DEF AllJoins, SaysOf
  <2>. HIDE DEF differ
  <2>5. QED
    BY <1>3, <2>2, <2>3, <2>4 DEF Speaks
<1>5. CASE new[Me] # NotPresent /\ old[Me] = NotPresent
  <2>1. SaysOf(told, new, In(new))
    BY <1>1, <1>2, <1>5, JoinsSay
  <2>2. ASSUME NEW u \in Users
        PROVE  \/ ~Undecided(told, u) /\ LastWord(told, new, u)
               \/ Undecided(told, u) /\ \A p : Right(old, u, p) <=> Right(new, u, p)
    <3>1. CASE u \in In(new)
      BY <1>5, <2>1, <3>1, SaidOf
    <3>2. CASE u \notin In(new)
      <4>1. Undecided(told, u)
        BY <1>5, <2>1, <3>2, SaidOf
      <4>2. \A p : Right(old, u, p) <=> Right(new, u, p)
        BY <1>5, <3>2 DEF Right, In
      <4>3. QED
        BY <4>1, <4>2
    <3>3. QED
      BY <3>1, <3>2
  <2>3. ~\E i \in DOMAIN told : Removes(told[i], Me)
    BY <1>5, <2>1, SaidOf
  <2>4. AllJoins(told)
    BY <2>1 DEF AllJoins, SaysOf
  <2>5. QED
    BY <1>3, <2>2, <2>3, <2>4 DEF Speaks
<1>6. CASE new[Me] = NotPresent /\ old[Me] # NotPresent
  <2> DEFINE a == Joins(new, differ \ {Me})
             b == Joins(new, {Me})
  <2>1. SaysOf(a, new, differ \ {Me}) /\ SaysOf(b, new, {Me}) /\ told = a \o b
    BY <1>1, <1>2, <1>6, JoinsSay
  <2>. HIDE DEF a, b, differ
  <2>2. a \in Seq(Command) /\ b \in Seq(Command)
    BY <2>1 DEF SaysOf
  <2>3. \A i \in DOMAIN b : Removes(b[i], Me)
    BY <1>6, <2>1 DEF SaysOf, Removes
  <2>4. PICK m \in DOMAIN b : b[m].user = Me
    BY <2>1 DEF SaysOf
  <2>5. /\ Len(a) \in Nat /\ DOMAIN a = 1..Len(a) /\ DOMAIN b = 1..Len(b)
        /\ \A i \in DOMAIN a : told[i] = a[i]
        /\ Len(a) + m \in DOMAIN told /\ told[Len(a) + m] = b[m]
        /\ \A i \in DOMAIN told :
               i \in DOMAIN a \/ (i - Len(a) \in DOMAIN b /\ told[i] = b[i - Len(a)])
    BY <2>1, <2>2, <2>4, ConcatParts
  <2>6. AllJoins(told)
    <3>1. \A i \in DOMAIN a : a[i].op = "JOIN"
      BY <2>1 DEF SaysOf
    <3>2. QED
      BY <2>3, <2>5, <3>1 DEF AllJoins, Removes
  <2>7. ASSUME NEW u \in Users
        PROVE  ~Undecided(told, u) /\ LastWord(told, new, u)
    <3>1. Decides(told[Len(a) + m], u)
      BY <2>3, <2>5, Zenon DEF Decides
    <3>2. \A j \in DOMAIN told : Len(a) + m <= j => Right(new, u, told[j].priv)
      <4> SUFFICES ASSUME NEW j \in DOMAIN told, Len(a) + m <= j
                   PROVE  Right(new, u, told[j].priv)
        OBVIOUS
      <4>1. m \in Nat /\ m >= 1
        BY <2>2, <2>5
      <4>2. j \notin DOMAIN a
        BY <2>5, <4>1
      <4>3. Removes(told[j], Me)
        BY <2>3, <2>5, <4>2
      <4>4. QED
        BY <1>6, <4>3 DEF Removes, Right
    <3>3. QED
      BY <2>5, <3>1, <3>2 DEF Undecided, LastWord
  <2>8. \A i, j \in DOMAIN told : Removes(told[i], Me) /\ Removes(told[j], Me) => i = j
    <3>1. \A i \in DOMAIN told : Removes(told[i], Me) => i = Len(a) + m
      <4> SUFFICES ASSUME NEW i \in DOMAIN told, Removes(told[i], Me) PROVE i = Len(a) + m
        OBVIOUS
      <4>1. i \notin DOMAIN a
        BY <2>1, <2>5 DEF SaysOf, Removes
      <4>2. i - Len(a) \in DOMAIN b /\ b[i - Len(a)].user = Me
        BY <2>5, <4>1 DEF Removes
      <4>3. i - Len(a) = m
        BY <2>1, <2>4, <4>2 DEF SaysOf
      <4>4. i \in Nat /\ m \in Nat
        BY <2>1, <2>2, <2>5, ConcatParts
      <4>5. QED
        BY <2>5, <4>3, <4>4
    <3>2. QED
      BY <3>1
  <2>9. QED
    BY <1>3, <1>6, <2>6, <2>7, <2>8 DEF Speaks
<1>7. CASE new[Me] = NotPresent /\ old[Me] = NotPresent
  <2>1. DOMAIN told = {}
    BY <1>2, <1>7
  <2>2. \A u, p : Right(old, u, p) <=> Right(new, u, p)
    BY <1>7 DEF Right
  <2>3. QED
    BY <1>3, <2>1, <2>2 DEF Speaks, AllJoins, Undecided
<1>8. QED
  BY <1>4, <1>5, <1>6, <1>7

-----------------------------------------------------------------------------
(* The log grows *)

LEMMA AppendLog ==
    ASSUME TypeOK, NEW version \in Version, log' = Append(log, version)
    PROVE  /\ Len(log') = Len(log) + 1 /\ Len(log) \in Nat /\ Known = 1..Len(log)
           /\ Known' = 1 .. Len(log) + 1 /\ Last_' = version
           /\ \A v \in Known : log'[v] = log[v]
<1>1. /\ log' \in Seq(Version) /\ Len(log') = Len(log) + 1 /\ Len(log) \in Nat
      /\ \A v \in 1..Len(log) : log'[v] = log[v]
      /\ log'[Len(log) + 1] = version
  BY DEF TypeOK
<1>2. QED
  BY <1>1 DEF Known, Last_

\* With a new version something is due.
LEMMA NewDue ==
    ASSUME TypeOK, Len(log') = Len(log) + 1, sdk'.at = sdk.at
    PROVE  Due' /\ sdk'.at # Len(log')
<1>1. sdk.at <= Len(log) /\ sdk.at \in Nat /\ Len(log) \in Nat
  BY ScsnTyped
<1>2. QED
  BY <1>1 DEF Due

\* What is said of the change goes behind what is under way.
LEMMA SpeaksBehind ==
    ASSUME NEW a \in Seq(Command), NEW b, NEW old, NEW new, Speaks(b, old, new)
    PROVE  /\ a \o b \in Seq(Command)
           /\ AllJoins(a) => AllJoins(a \o b)
           /\ Listing(a) => Listing(a \o b)
           /\ \A u \in Users : Undecided(a \o b, u) => Undecided(a, u) /\ Undecided(b, u)
           /\ \A u \in Users : LastWord(a, old, u) => LastWord(a \o b, new, u)
<1> DEFINE s == a \o b
<1>0. b \in Seq(Command) /\ AllJoins(b)
  BY DEF Speaks
<1>1. /\ s \in Seq(Command) /\ Len(a) \in Nat
      /\ DOMAIN a = 1..Len(a) /\ DOMAIN b = 1..Len(b) /\ Len(b) \in Nat
      /\ \A i \in DOMAIN a : i \in DOMAIN s /\ s[i] = a[i]
      /\ \A i \in DOMAIN b : Len(a) + i \in DOMAIN s /\ s[Len(a) + i] = b[i]
      /\ \A i \in DOMAIN s : \/ i \in DOMAIN a
                             \/ i - Len(a) \in DOMAIN b /\ s[i] = b[i - Len(a)]
      /\ \A i \in DOMAIN s : i \in Nat
  BY <1>0, ConcatParts
<1>. HIDE DEF s
<1>2. AllJoins(a) => AllJoins(s)
  BY <1>0, <1>1 DEF AllJoins
<1>3. ASSUME Listing(a) PROVE Listing(s)
  <2>1. PICK h \in DOMAIN a : /\ a[h].op = "HISTDONE"
                              /\ \A i \in DOMAIN a : i # h => a[i].op = "JOIN"
                              /\ \A i \in DOMAIN a : i < h => a[i].priv # NotPresent
    BY <1>3 DEF Listing
  <2>2. h \in DOMAIN s /\ s[h].op = "HISTDONE"
    BY <1>1, <2>1
  <2>3. \A i \in DOMAIN s : i # h => s[i].op = "JOIN"
    BY <1>0, <1>1, <2>1 DEF AllJoins
  <2>4. \A i \in DOMAIN s : i < h => i \in DOMAIN a
    BY <1>1
  <2>5. \A i \in DOMAIN s : i < h => s[i].priv # NotPresent
    BY <1>1, <2>1, <2>4
  <2>6. QED
    BY <2>2, <2>3, <2>5 DEF Listing
<1>4. ASSUME NEW u \in Users, Undecided(s, u) PROVE Undecided(a, u) /\ Undecided(b, u)
  BY <1>1, <1>4, Zenon DEF Undecided
<1>5. ASSUME NEW u \in Users, LastWord(a, old, u) PROVE LastWord(s, new, u)
  <2>1. CASE ~Undecided(b, u) /\ LastWord(b, new, u)
    <3>1. PICK i \in DOMAIN b :
              /\ Decides(b[i], u)
              /\ \A j \in DOMAIN b : i <= j /\ Decides(b[j], u) => Right(new, u, b[j].priv)
      BY <2>1 DEF LastWord
    <3>2. Len(a) + i \in DOMAIN s /\ s[Len(a) + i] = b[i]
      BY <1>1
    <3>3. ASSUME NEW j \in DOMAIN s, Len(a) + i <= j, Decides(s[j], u)
          PROVE  Right(new, u, s[j].priv)
      <4>1. j - Len(a) \in DOMAIN b /\ s[j] = b[j - Len(a)] /\ i <= j - Len(a)
        BY <1>1, <3>3
      <4>2. QED
        BY <3>1, <3>3, <4>1
    <3>4. QED
      BY <3>1, <3>2, <3>3 DEF LastWord
  <2>2. CASE Undecided(b, u) /\ (\A p : Right(old, u, p) <=> Right(new, u, p))
    <3>1. \A i \in DOMAIN s : Decides(s[i], u) => i \in DOMAIN a /\ s[i] = a[i]
      BY <1>1, <2>2 DEF Undecided
    <3>2. CASE Undecided(a, u)
      BY <1>1, <3>1, <3>2 DEF Undecided, LastWord
    <3>3. CASE ~Undecided(a, u)
      <4>1. PICK i \in DOMAIN a :
                /\ Decides(a[i], u)
                /\ \A j \in DOMAIN a : i <= j /\ Decides(a[j], u) => Right(old, u, a[j].priv)
        BY <1>5, <3>3 DEF LastWord
      <4>2. i \in DOMAIN s /\ Decides(s[i], u)
        BY <1>1, <4>1
      <4>3. \A j \in DOMAIN s : i <= j /\ Decides(s[j], u) => Right(new, u, s[j].priv)
        BY <2>2, <3>1, <4>1
      <4>4. QED
        BY <4>2, <4>3 DEF LastWord
    <3>4. QED
      BY <3>2, <3>3
  <2>3. QED
    BY <2>1, <2>2 DEF Speaks
<1>6. QED
  BY <1>1, <1>2, <1>3, <1>4, <1>5 DEF s

\* Our removal in what chatd says of a change finds us, too.
LEMMA SpeaksFindsUs ==
    ASSUME NEW a \in Seq(Command), NEW b, NEW old, NEW new, Speaks(b, old, new), NEW mUsers,
           FindsUs(a, mUsers), LastWord(a, old, Me),
           Undecided(a, Me) /\ old[Me] # NotPresent => Me \in mUsers
    PROVE  FindsUs(a \o b, mUsers)
<1> DEFINE s == a \o b
           found(i) == \/ Me \in mUsers /\ \A n \in DOMAIN s : n < i => ~Removes(s[n], Me)
                       \/ \E j \in DOMAIN s :
                              /\ j < i /\ s[j].op = "JOIN" /\ s[j].user = Me
                              /\ s[j].priv # NotPresent
                              /\ \A n \in DOMAIN s : j < n /\ n < i => ~Removes(s[n], Me)
<1>0. b \in Seq(Command)
  BY DEF Speaks
<1>1. /\ Len(a) \in Nat /\ DOMAIN a = 1..Len(a) /\ DOMAIN b = 1..Len(b) /\ Len(b) \in Nat
      /\ \A i \in DOMAIN a : i \in DOMAIN s /\ s[i] = a[i]
      /\ \A i \in DOMAIN s : \/ i \in DOMAIN a
                             \/ i - Len(a) \in DOMAIN b /\ s[i] = b[i - Len(a)]
      /\ \A i \in DOMAIN s : i \in Nat
  BY <1>0, ConcatParts
<1>2. SUFFICES ASSUME NEW i \in DOMAIN s, Removes(s[i], Me) PROVE found(i)
  BY DEF FindsUs
<1>. HIDE DEF s
<1>3. CASE i \in DOMAIN a
  <2>1. \A n \in DOMAIN s : n < i => n \in DOMAIN a /\ s[n] = a[n]
    BY <1>1, <1>3
  <2>2. CASE Me \in mUsers /\ \A n \in DOMAIN a : n < i => ~Removes(a[n], Me)
    BY <2>1, <2>2
  <2>3. CASE \E j \in DOMAIN a : /\ j < i /\ a[j].op = "JOIN" /\ a[j].user = Me
                                 /\ a[j].priv # NotPresent
                                 /\ \A n \in DOMAIN a : j < n /\ n < i => ~Removes(a[n], Me)
    <3>1. PICK j \in DOMAIN a : /\ j < i /\ a[j].op = "JOIN" /\ a[j].user = Me
                                /\ a[j].priv # NotPresent
                                /\ \A n \in DOMAIN a : j < n /\ n < i => ~Removes(a[n], Me)
      BY <2>3
    <3>2. j \in DOMAIN s /\ s[j] = a[j]
      BY <1>1
    <3>3. \A n \in DOMAIN s : j < n /\ n < i => ~Removes(s[n], Me)
      BY <2>1, <3>1
    <3>4. QED
      BY <3>1, <3>2, <3>3
  <2>4. QED
    BY <1>1, <1>2, <1>3, <2>2, <2>3 DEF FindsUs
<1>4. CASE i \notin DOMAIN a
  <2>1. old[Me] # NotPresent /\ i - Len(a) \in DOMAIN b /\ Removes(b[i - Len(a)], Me)
    BY <1>1, <1>2, <1>4 DEF Speaks
  <2>2. ASSUME NEW n \in DOMAIN s, n < i, Removes(s[n], Me)
        PROVE  n \in DOMAIN a /\ Removes(a[n], Me)
    <3>1. ASSUME n \notin DOMAIN a PROVE FALSE
      <4>1. n - Len(a) \in DOMAIN b /\ Removes(b[n - Len(a)], Me)
        BY <1>1, <2>2, <3>1
      <4>2. n - Len(a) = i - Len(a)
        BY <2>1, <4>1 DEF Speaks
      <4>3. QED
        BY <1>1, <2>2, <4>2
    <3>2. QED
      BY <1>1, <2>2, <3>1
  <2>3. CASE Undecided(a, Me)
    BY <2>1, <2>2, <2>3 DEF Undecided, Decides
  <2>4. CASE ~Undecided(a, Me)
    <3>1. PICK j \in DOMAIN a : /\ Decides(a[j], Me)
                                /\ \A n \in DOMAIN a : j <= n /\ Decides(a[n], Me) =>
                                                           Right(old, Me, a[n].priv)
      BY <2>4 DEF LastWord
    <3>2. j <= j /\ j < i /\ j \in DOMAIN s /\ s[j] = a[j]
      BY <1>1, <1>4
    <3>3. a[j].op = "JOIN" /\ a[j].user = Me /\ a[j].priv # NotPresent
      BY <2>1, <3>1, <3>2 DEF Decides, Removes, Right
    <3>4. ASSUME NEW n \in DOMAIN s, j < n, n < i, Removes(s[n], Me) PROVE FALSE
      <4>1. n \in DOMAIN a /\ Removes(a[n], Me) /\ j <= n
        BY <1>1, <2>2, <3>4
      <4>2. Right(old, Me, a[n].priv)
        BY <3>1, <4>1 DEF Decides
      <4>3. QED
        BY <2>1, <4>1, <4>2 DEF Right, Removes
    <3>5. QED
      BY <3>2, <3>3, <3>4
  <2>5. QED
    BY <2>3, <2>4
<1>5. QED
  BY <1>3, <1>4

\* A chat that has not joined has nothing to say of anybody.
LEMMA SilentDown ==
    ASSUME NEW c \in Room, NEW down, Phase(c, FALSE, down)
    PROVE  /\ \A u : Undecided(down, u)
           /\ \A i \in DOMAIN down : ~(down[i].op = "JOIN")
<1>1. down = <<>> \/ down = <<[op |-> "REJECT"]>>
  BY DEF Phase, Room
<1>2. \A i \in DOMAIN down : down[i].op = "REJECT"
  BY <1>1
<1>3. QED
  BY <1>2 DEF Undecided, Decides, Removes

\* The chat has one more version, of which chatd says what has changed to whom it concerns.
LEMMA NewVersionCore ==
    ASSUME IInv, OrderInv, CoreInv, NEW priv \in [Users -> Levels], NewVersion(priv),
           UNCHANGED <<posted, k, disk>>, sdk'.at = sdk.at,
           sdk'.request = sdk.request \/ TrueAnswer(sdk.request)'
    PROVE  CoreInv'
<1> DEFINE old == Last_.priv
           told == Told(old, priv)
           version == [exists |-> TRUE, priv |-> priv]
<1>0. TypeOK /\ k \in Room /\ old \in [Users -> Levels] /\ chatd.joined \in BOOLEAN
      /\ chatd.down \in Seq(Command) /\ Me \in Users
  BY LastTyped, NobodyTyped DEF IInv, TypeOK
<1>1. version \in Version /\ version.exists /\ version.priv = priv
  BY DEF Version
<1>2. log' = Append(log, version)
  BY DEF NewVersion
<1>. HIDE DEF version
<1>3. /\ Len(log') = Len(log) + 1 /\ Len(log) \in Nat /\ Known = 1..Len(log)
      /\ Known' = 1 .. Len(log) + 1 /\ Last_' = version
      /\ \A v \in Known : log'[v] = log[v]
  BY <1>0, <1>1, <1>2, AppendLog
<1>4. Last_.exists' = TRUE /\ Last_.priv' = priv
  BY <1>1, <1>3
<1>5. Due' /\ sdk'.at # Len(log')
  BY <1>0, <1>3, NewDue
<1>6. /\ chatd'.joined = chatd.joined /\ chatd'.down = chatd.down \o told
  BY <1>0 DEF NewVersion, IInv, TypeOK
<1>7. \/ chatd.joined /\ Speaks(told, old, priv)
      \/ ~chatd.joined /\ chatd'.down = chatd.down
  <2>1. CASE chatd.joined
    BY <1>0, <2>1, ToldSpeaks
  <2>2. CASE ~chatd.joined
    <3>1. told = <<>>
      BY <2>2 DEF Told
    <3>2. QED
      BY <1>0, <1>6, <2>2, <3>1
  <2>3. QED
    BY <2>1, <2>2
<1>. HIDE DEF told, old
<1>8. /\ LogInv /\ TrueInv /\ PhaseInv /\ LastWordInv /\ FindsUs(chatd.down, k.mUsers) /\ HeardInv
  BY DEF CoreInv
<1>9. LogInv'
  <2>1. \A v \in Known' : v > 1 => log'[v].exists
    <3> SUFFICES ASSUME NEW v \in Known', v > 1 PROVE log'[v].exists
      OBVIOUS
    <3>1. CASE v \in Known
      BY <1>3, <1>8, <3>1 DEF LogInv
    <3>2. CASE v \notin Known
      <4>1. v = Len(log')
        BY <1>3, <3>2
      <4>2. QED
        BY <1>4, <4>1 DEF Last_
    <3>3. QED
      BY <3>1, <3>2
  <2>2. QED
    BY <1>4, <1>8, <2>1 DEF LogInv
<1>10. TrueInv'
  <2>1. \A i \in DOMAIN posted :
            /\ posted[i].type = "answered" => TrueAnswer(posted[i])
            /\ posted[i].scsn \in Known
    <3>1. \A i \in DOMAIN posted : posted[i].type = "answered" => TrueAnswer(posted[i])
      BY <1>8 DEF TrueInv
    <3>2. \A i \in DOMAIN posted : posted[i].type # "answered" => posted[i].scsn \in Known
      BY <1>0, ScsnTyped DEF Calls, Requests
    <3>3. QED
      BY <3>1, <3>2 DEF TrueAnswer
  <2>2. Known \subseteq Known'
    BY <1>3
  <2>4. sdk'.request # NoRequest => TrueAnswer(sdk.request)'
    <3>1. CASE sdk'.request = sdk.request
      BY <1>8, <1>3, <2>2, <3>1 DEF TrueInv, TrueAnswer
    <3>2. QED
      BY <3>1
  <2>5. \A i \in DOMAIN posted : log'[posted[i].scsn] = log[posted[i].scsn]
    BY <1>3, <2>1
  <2>6. \A i \in DOMAIN posted : Deletes(posted[i])' <=> Deletes(posted[i])
    BY <2>5 DEF Deletes
  <2>7. \A i \in DOMAIN posted : posted[i].type = "answered" => TrueAnswer(posted[i])'
    BY <2>1, <2>2, <1>3 DEF TrueAnswer
  <2>8. \A i \in DOMAIN posted : posted[i].type = "chats" => log'[posted[i].scsn].exists
    BY <1>8, <2>5 DEF TrueInv
  <2>9. \A i \in DOMAIN posted : Deletes(posted[i]) =>
            ~k.known /\ \A j \in DOMAIN posted : j < i => ~log'[posted[j].scsn].exists
    BY <1>8, <2>5 DEF TrueInv
  <2>10. QED
    BY <2>4, <2>6, <2>7, <2>8, <2>9 DEF TrueInv, Deletes
<1>11. StaleInv'
  BY <1>5 DEF StaleInv
<1>12. PhaseInv'
  <2>1. CASE chatd.joined /\ Speaks(told, old, priv)
    <3>1. /\ AllJoins(chatd.down) => AllJoins(chatd'.down)
          /\ Listing(chatd.down) => Listing(chatd'.down)
      BY <1>0, <1>6, <2>1, SpeaksBehind
    <3>2. Phase(k, TRUE, chatd.down)
      BY <1>0, <1>8, <2>1 DEF PhaseInv
    <3>3. Phase(k, TRUE, chatd'.down)
      BY <3>1, <3>2 DEF Phase
    <3>4. QED
      BY <1>0, <1>6, <2>1, <3>3 DEF PhaseInv
  <2>2. CASE ~chatd.joined /\ chatd'.down = chatd.down
    BY <1>6, <1>8, <2>2 DEF PhaseInv
  <2>3. QED
    BY <1>7, <2>1, <2>2
<1>13. LastWordInv'
  <2>1. CASE chatd.joined /\ Speaks(told, old, priv)
    <3>1. \A u \in Users : LastWord(chatd.down, old, u) => LastWord(chatd'.down, priv, u)
      BY <1>0, <1>6, <2>1, SpeaksBehind
    <3>2. QED
      BY <1>4, <1>8, <3>1 DEF LastWordInv, old
  <2>2. CASE ~chatd.joined /\ chatd'.down = chatd.down
    <3>1. Phase(k, FALSE, chatd.down)
      BY <1>0, <1>8, <2>2 DEF PhaseInv
    <3>2. QED
      BY <1>0, <2>2, <3>1, SilentDown DEF LastWordInv, LastWord
  <2>3. QED
    BY <1>7, <2>1, <2>2
<1>14. FindsUs(chatd'.down, k.mUsers)
  <2>1. CASE chatd.joined /\ Speaks(told, old, priv)
    <3>1. LastWord(chatd.down, old, Me)
      BY <1>0, <1>8 DEF LastWordInv, old
    <3>2. Undecided(chatd.down, Me) /\ old[Me] # NotPresent => Me \in k.mUsers
      BY <1>0, <1>8, <2>1 DEF HeardInv, Heard, old
    <3>3. QED
      BY <1>0, <1>6, <1>8, <2>1, <3>1, <3>2, SpeaksFindsUs
  <2>2. CASE ~chatd.joined /\ chatd'.down = chatd.down
    BY <1>8, <2>2
  <2>3. QED
    BY <1>7, <2>1, <2>2
<1>15. HeardInv'
  <2> SUFFICES ASSUME chatd'.joined, NEW u \in Users, Undecided(chatd'.down, u) PROVE Heard(u)'
    BY DEF HeardInv
  <2>1. chatd.joined /\ Speaks(told, old, priv)
    BY <1>6, <1>7
  <2>2. Undecided(chatd.down, u) /\ Undecided(told, u)
    BY <1>0, <1>6, <2>1, SpeaksBehind
  <2>3. \A p : Right(old, u, p) <=> Right(priv, u, p)
    BY <2>1, <2>2 DEF Speaks
  <2>4. Heard(u)
    BY <1>8, <2>1, <2>2 DEF HeardInv
  <2>5. CASE priv[Me] = NotPresent
    BY <1>4, <1>5, <2>5 DEF Heard
  <2>6. CASE priv[Me] # NotPresent
    <3>1. ASSUME priv[u] # NotPresent
          PROVE  old[Me] # NotPresent /\ old[u] = priv[u]
      <4>1. Right(old, u, priv[u])
        BY <2>3, <2>6 DEF Right
      <4>2. QED
        BY <3>1, <4>1 DEF Right
    <3>2. priv[u] # NotPresent => u \in k.mUsers /\ (u = Me => k.mOwnPrivilege = priv[Me])
      BY <2>4, <3>1 DEF Heard, old
    <3>3. QED
      BY <1>4, <1>5, <2>6, <3>2 DEF Heard
  <2>7. QED
    BY <2>5, <2>6
<1>16. ExtraInv'
  <2>1. disk.scsn # Len(log')
    BY <1>0, <1>3, ScsnTyped DEF OrderInv
  <2>2. QED
    BY <1>5, <2>1 DEF ExtraInv
<1>17. QED
  BY <1>9, <1>10, <1>11, <1>12, <1>13, <1>14, <1>15, <1>16 DEF CoreInv

LEMMA CreatedCore == ASSUME IInv, OrderInv, CoreInv, Created PROVE CoreInv'
<1>1. PICK u \in Peers, p \in Privs :
          NewVersion([w \in Users |-> IF w = Me THEN p ELSE IF w = u THEN Moderator ELSE NotPresent])
  BY DEF Created
<1>2. [w \in Users |-> IF w = Me THEN p ELSE IF w = u THEN Moderator ELSE NotPresent]
          \in [Users -> Levels]
  BY NobodyTyped, ModeratorTyped DEF Levels
<1>3. QED
  BY <1>1, <1>2, NewVersionCore DEF Created

LEMMA ChangedByOtherCore == ASSUME IInv, OrderInv, CoreInv, ChangedByOther PROVE CoreInv'
<1>1. PICK u \in Users, p \in Levels : NewVersion(Changed(Last_.priv, u, p))
  BY DEF ChangedByOther
<1>2. Changed(Last_.priv, u, p) \in [Users -> Levels]
  BY LastTyped, ChangedTyped DEF IInv
<1>3. QED
  BY <1>1, <1>2, NewVersionCore DEF ChangedByOther

LEMMA ChangedSays ==
    ASSUME NEW priv \in [Users -> Levels], NEW u \in Users, NEW p \in Levels
    PROVE  Changed(priv, u, p)[u] = p
BY DEF Changed

LEMMA RequestCore == ASSUME IInv, OrderInv, CoreInv, Request PROVE CoreInv'
<1>1. PICK op \in {"leave", "exclude", "invite", "setPrivilege"}, u \in Users, p \in Levels :
          /\ CASE op = "leave"        -> u = Me /\ p = NotPresent
               [] op = "exclude"      -> u # Me /\ p = NotPresent
               [] op = "invite"       -> u # Me /\ Last_.priv[u] = NotPresent
               [] op = "setPrivilege" -> Last_.priv[u] # NotPresent /\ p # NotPresent
          /\ Last_.priv[u] # p
          /\ NewVersion(Changed(Last_.priv, u, p))
          /\ sdk' = [sdk EXCEPT !.request = [type |-> "answered", op |-> op, user |-> u,
                                             priv |-> p, scsn |-> Len(log')]]
  BY ZenonT(30) DEF Request
<1> DEFINE new == Changed(Last_.priv, u, p)
           r == [type |-> "answered", op |-> op, user |-> u, priv |-> p, scsn |-> Len(log')]
<1>2. Last_.priv \in [Users -> Levels] /\ TypeOK
  BY LastTyped DEF IInv
<1>3. new \in [Users -> Levels] /\ new[u] = p
  BY <1>2, ChangedTyped, ChangedSays
<1>4. NewVersion(new) /\ sdk' = [sdk EXCEPT !.request = r]
  BY <1>1
<1>5. /\ r.scsn = Len(log') /\ r.user = u /\ r.priv = p
      /\ r.op = "leave"   => r.user = Me /\ r.priv = NotPresent
      /\ r.op = "exclude" => r.user # Me /\ r.priv = NotPresent
      /\ r.op = "invite"  => r.user # Me /\ r.priv # NotPresent
  BY <1>1
<1>. HIDE DEF new, r
<1> DEFINE version == [exists |-> TRUE, priv |-> new]
<1>6. version \in Version /\ version.priv = new /\ log' = Append(log, version)
  BY <1>3, <1>4 DEF Version, NewVersion
<1>. HIDE DEF version
<1>7. /\ Len(log') = Len(log) + 1 /\ Len(log) \in Nat /\ Known' = 1 .. Len(log) + 1
      /\ Last_' = version
  BY <1>2, <1>6, AppendLog
<1>8. log'[Len(log')].priv[u] = p /\ Len(log') \in Known'
  BY <1>3, <1>6, <1>7 DEF Last_
<1>9. sdk'.request = r /\ sdk'.at = sdk.at
  BY <1>2, <1>4 DEF TypeOK
<1>10. TrueAnswer(sdk.request)'
  BY <1>5, <1>8, <1>9 DEF TrueAnswer
<1>11. QED
  BY <1>3, <1>4, <1>9, <1>10, NewVersionCore DEF Request

LEMMA DeletedGone == ASSUME IInv, Deleted PROVE Gone'
<1> DEFINE version == [exists |-> FALSE, priv |-> Nobody]
<1>1. version \in Version /\ ~version.exists /\ log' = Append(log, version) /\ TypeOK
  BY NobodyTyped DEF Version, Deleted, IInv
<1>. HIDE DEF version
<1>2. Len(log') = Len(log) + 1 /\ Len(log) \in Nat /\ Last_' = version
  BY <1>1, AppendLog
<1>3. Len(log) # 0
  BY <1>1 DEF TypeOK
<1>4. Last_.exists' = FALSE /\ Len(log') > 1
  BY <1>1, <1>2, <1>3
<1>5. QED
  BY <1>4 DEF Gone

\* Once it is gone, the chat does not come back.
LEMMA GoneStays == ASSUME IInv, Gone, [Next]_vars PROVE Gone'
<1>1. ~Created /\ ~ChangedByOther /\ ~Deleted /\ ~Request
  BY LastTyped DEF IInv, Gone, Created, ChangedByOther, Deleted, Request
<1>2. log' = log
  BY <1>1 DEF Next, vars, ChatdAnswersJoin, SdkFetches, SdkReloads, SdkUpdates, SdkCommits,
              SdkAnswers, MainThread, CommitTimer, Receive, LinkUp, LinkDown, Restart
<1>3. QED
  BY <1>2 DEF Gone, Last_

-----------------------------------------------------------------------------
(* chatd answers *)

LEMMA ChatdAnswersJoinCore == ASSUME IInv, OrderInv, CoreInv, ChatdAnswersJoin PROVE CoreInv'
<1> DEFINE joins == Joins(Last_.priv, In(Last_.priv))
           all == joins \o <<[op |-> "HISTDONE"]>>
<1>0. TypeOK /\ k \in Room /\ Last_.priv \in [Users -> Levels] /\ Me \in Users
      /\ In(Last_.priv) \in SUBSET Users
  BY LastTyped, NobodyTyped DEF IInv, TypeOK, In
<1>1. /\ SameRoom(k, k') /\ k'.asked = FALSE /\ k'.online = k.online /\ k'.link = k.link
      /\ k'.disabled = k.disabled /\ k'.commitEach = k.commitEach
  BY ChatdAnswersJoinSame
<1>2. UNCHANGED <<log, sdk, posted, disk, budget>> /\ k.asked
  BY DEF ChatdAnswersJoin
<1>3. Phase(k, chatd.joined, chatd.down)
  BY DEF CoreInv, PhaseInv
<1>4. k.online = "joining" /\ ~chatd.joined /\ chatd.down = <<>>
  BY <1>0, <1>2, <1>3 DEF Phase, Room
<1>5. chatd'.unheard = chatd.unheard
  BY DEF ChatdAnswersJoin, IInv, TypeOK
<1>6. /\ LogInv' /\ TrueInv' /\ StaleInv' /\ (Due' <=> Due)
  <2>1. k'.known = k.known /\ k'.db = k.db
    BY <1>1 DEF SameRoom
  <2>2. Due' <=> Due
    BY <1>2, <2>1 DEF Due, DueFrom, Tells, Numbers
  <2>3. LogInv' /\ TrueInv' /\ StaleInv'
    BY <1>2, <2>1 DEF CoreInv, LogInv, TrueInv, StaleInv, TrueAnswer, Deletes, DueFrom, Tells,
                      Numbers, Stale, Known, Last_
  <2>4. QED
    BY <2>2, <2>3
<1>7. ExtraInv'
  <2>1. \A u : Leaving(u) => Leaving(u)'
    <3>1. DOMAIN chatd.down = {}
      BY <1>4
    <3>2. QED
      BY <1>5, <3>1 DEF Leaving
  <2>2. k'.priv = k.priv /\ WeAreIn' = WeAreIn /\ Last_' = Last_
    BY <1>1, <1>2 DEF SameRoom, WeAreIn, Last_
  <2>3. QED
    BY <1>2, <1>6, <2>1, <2>2 DEF CoreInv, ExtraInv, OnlyLeaving
<1>8. CASE Last_.exists /\ Last_.priv[Me] # NotPresent
  <2>1. chatd' = [chatd EXCEPT !.joined = TRUE, !.down = chatd.down \o joins
                                                          \o <<[op |-> "HISTDONE"]>>]
    BY <1>8 DEF ChatdAnswersJoin, IInv, TypeOK
  <2>2. SaysOf(joins, Last_.priv, In(Last_.priv))
    BY <1>0, JoinsSay
  <2>. HIDE DEF joins
  <2>3. joins \in Seq(Command) /\ <<[op |-> "HISTDONE"]>> \in Seq(Command)
    BY <2>2 DEF SaysOf, Command
  <2>4. chatd.down \o joins = joins
    BY <1>4, <2>3
  <2>5. chatd'.joined = TRUE /\ chatd'.down = all
    BY <1>0, <2>1, <2>4 DEF TypeOK
  <2>6. /\ Len(joins) \in Nat /\ DOMAIN joins = 1..Len(joins)
        /\ DOMAIN all = 1 .. Len(joins) + 1
        /\ \A i \in DOMAIN joins : i \in DOMAIN all /\ all[i] = joins[i]
        /\ all[Len(joins) + 1] = [op |-> "HISTDONE"]
    BY <2>3
  <2>. HIDE DEF all
  <2>7. all[Len(joins) + 1].op = "HISTDONE" /\ Len(joins) + 1 \in DOMAIN all
    BY <2>6
  <2>8. \A i \in DOMAIN all : i # Len(joins) + 1 =>
            /\ i \in DOMAIN joins /\ all[i].op = "JOIN" /\ all[i].user \in In(Last_.priv)
            /\ all[i].priv = Last_.priv[all[i].user] /\ all[i].priv # NotPresent
    BY <2>2, <2>6 DEF SaysOf, In
  <2>9. Listing(all)
    <3>1. \A i \in DOMAIN all : i < Len(joins) + 1 => i # Len(joins) + 1
      BY <2>6
    <3>2. QED
      BY <2>7, <2>8, <3>1 DEF Listing
  <2>10. \A i \in DOMAIN all : ~Removes(all[i], Me)
    BY <2>7, <2>8 DEF Removes
  <2>11. ASSUME NEW u \in Users
         PROVE  /\ LastWord(all, Last_.priv, u)
                /\ Undecided(all, u) => Last_.priv[u] = NotPresent
    <3>1. \A i \in DOMAIN all : Decides(all[i], u) => Right(Last_.priv, u, all[i].priv)
      BY <1>8, <2>7, <2>8, <2>10 DEF Decides, Right
    <3>2. u \in In(Last_.priv) => \E i \in DOMAIN all : Decides(all[i], u)
      BY <2>2, <2>6 DEF SaysOf, Decides
    <3>3. QED
      BY <1>0, <3>1, <3>2 DEF LastWord, Undecided, In
  <2>12. PhaseInv'
    BY <1>1, <1>3, <1>4, <2>5, <2>9 DEF PhaseInv, Phase, SameRoom
  <2>13. LastWordInv'
    BY <1>2, <2>5, <2>11 DEF LastWordInv, Last_
  <2>14. FindsUs(chatd'.down, k'.mUsers)
    BY <2>5, <2>10 DEF FindsUs
  <2>15. HeardInv'
    <3>1. Last_' = Last_
      BY <1>2 DEF Last_
    <3>2. QED
      BY <1>8, <2>5, <2>11, <3>1 DEF HeardInv, Heard
  <2>16. QED
    BY <1>6, <1>7, <2>12, <2>13, <2>14, <2>15 DEF CoreInv
<1>9. CASE ~(Last_.exists /\ Last_.priv[Me] # NotPresent)
  <2>1. chatd' = [chatd EXCEPT !.down = Append(@, [op |-> "REJECT"])]
    BY <1>9 DEF ChatdAnswersJoin
  <2>2. Append(<<>>, [op |-> "REJECT"]) = <<[op |-> "REJECT"]>>
    OBVIOUS
  <2>3. chatd'.joined = chatd.joined /\ chatd'.down = <<[op |-> "REJECT"]>>
    BY <1>0, <1>4, <2>1, <2>2 DEF TypeOK
  <2>4. PhaseInv'
    BY <1>1, <1>3, <1>4, <2>3 DEF PhaseInv, Phase, SameRoom
  <2>5. \A i \in DOMAIN chatd'.down : chatd'.down[i].op = "REJECT"
    BY <2>3
  <2>6. LastWordInv' /\ FindsUs(chatd'.down, k'.mUsers)
    BY <2>5 DEF LastWordInv, LastWord, Undecided, Decides, Removes, FindsUs
  <2>7. HeardInv'
    BY <1>4, <2>3 DEF HeardInv
  <2>8. QED
    BY <1>6, <1>7, <2>4, <2>6, <2>7 DEF CoreInv
<1>10. QED
  BY <1>8, <1>9

-----------------------------------------------------------------------------
(* The SDK calls *)

\* A call that is posted lies behind those that were, and what is under way stays so.
LEMMA PostDue ==
    ASSUME TypeOK, NEW e \in Calls, Post(e), UNCHANGED <<log, k, disk, chatd>>
    PROVE  /\ \A i \in DOMAIN posted : i \in DOMAIN posted' /\ posted'[i] = posted[i]
           /\ \A i \in DOMAIN posted' : \/ i \in DOMAIN posted
                                        \/ i = Len(posted) + 1 /\ posted'[i] = e
           /\ \A i \in DOMAIN posted' : \A j \in DOMAIN posted' : j < i => j \in DOMAIN posted
           /\ \A i : DueFrom(i) => DueFrom(i)'
           /\ \A i \in DOMAIN posted \cup {0} :
                  Tells(e) /\ (\A j \in DOMAIN posted : ~Numbers(posted[j])) => DueFrom(i)'
<1> DEFINE n == Len(posted) + 1
<1>1. /\ Len(posted) \in Nat /\ DOMAIN posted' = 1 .. n /\ DOMAIN posted = 1 .. Len(posted)
      /\ posted'[n] = e /\ \A i \in DOMAIN posted : posted'[i] = posted[i]
  BY PostTyped
<1>2. /\ \A i \in DOMAIN posted : i \in DOMAIN posted' /\ posted'[i] = posted[i]
      /\ \A i \in DOMAIN posted' : i \in DOMAIN posted \/ (i = n /\ posted'[i] = e)
      /\ \A i \in DOMAIN posted' : \A j \in DOMAIN posted' : j < i => j \in DOMAIN posted
      /\ \A i \in DOMAIN posted \cup {0} : i < n
      /\ n \in DOMAIN posted'
  BY <1>1
<1>. HIDE DEF n
<1>4. ASSUME NEW i, DueFrom(i) PROVE DueFrom(i)'
  <2>1. PICK w \in DOMAIN posted : /\ i < w /\ Tells(posted[w])
                                   /\ \A j \in DOMAIN posted : j < w => ~Numbers(posted[j])
    BY <1>4 DEF DueFrom
  <2>2. w \in DOMAIN posted' /\ Tells(posted'[w])
    BY <1>2, <2>1
  <2>3. \A j \in DOMAIN posted' : j < w => ~Numbers(posted'[j])
    BY <1>2, <2>1, <2>2
  <2>4. QED
    BY <2>1, <2>2, <2>3 DEF DueFrom, Tells, Numbers
<1>5. ASSUME NEW i \in DOMAIN posted \cup {0}, Tells(e),
             \A j \in DOMAIN posted : ~Numbers(posted[j])
      PROVE  DueFrom(i)'
  <2>1. n \in DOMAIN posted' /\ i < n /\ Tells(posted'[n])
    BY <1>1, <1>2, <1>5
  <2>2. \A j \in DOMAIN posted' : j < n => ~Numbers(posted'[j])
    BY <1>2, <1>5, <2>1
  <2>3. QED
    BY <2>1, <2>2 DEF DueFrom, Tells, Numbers
<1>6. QED
  BY <1>2, <1>4, <1>5 DEF n

\* Rows and room stay as they are while the SDK works: what was due is, and what was true.
LEMMA QuietCore ==
    ASSUME CoreInv, UNCHANGED <<log, k, disk, chatd>>, TrueInv', StaleInv', Due => Due'
    PROVE  CoreInv'
<1>1. LogInv' /\ PhaseInv' /\ LastWordInv' /\ FindsUs(chatd.down, k.mUsers)'
  BY DEF CoreInv, LogInv, PhaseInv, LastWordInv, Last_, Known
<1>2. Last_' = Last_ /\ Len(log') = Len(log)
  BY DEF Last_
<1>3. HeardInv'
  BY <1>2 DEF CoreInv, HeardInv, Heard
<1>4. ExtraInv'
  <2>1. \A u : Leaving(u) = Leaving(u)'
    BY DEF Leaving
  <2>2. QED
    BY <1>2, <2>1 DEF CoreInv, ExtraInv, OnlyLeaving, WeAreIn
<1>5. QED
  BY <1>1, <1>3, <1>4 DEF CoreInv

\* Only the number of a version that is on the SDK's disk is marshalled.
LEMMA NotYetNumbered ==
    ASSUME IInv, OrderInv, sdk.at # Len(log)
    PROVE  /\ k.db.scsn # Len(log) /\ \A j \in DOMAIN posted : ~Numbers(posted[j])
<1>1. /\ disk.scsn \in Nat /\ k.db.scsn \in Nat /\ sdk.disk \in Nat /\ sdk.at \in Nat
      /\ Len(log) \in Nat /\ sdk.at <= Len(log) /\ k.db.scsn <= sdk.disk /\ sdk.disk <= sdk.at
  BY ScsnTyped DEF IInv, OrderInv
<1>2. ASSUME NEW j \in DOMAIN posted, Numbers(posted[j]) PROVE FALSE
  <2>1. posted[j].scsn = Len(log) /\ posted[j].scsn <= sdk.disk
    BY <1>2 DEF OrderInv, Numbers, Commits
  <2>2. QED
    BY <1>1, <2>1
<1>3. QED
  BY <1>1, <1>2

\* What is marshalled tells of versions that there are.
LEMMA PostedKnown ==
    ASSUME TypeOK, TrueInv
    PROVE  \A i \in DOMAIN posted : posted[i].scsn \in Known
<1>1. \A i \in DOMAIN posted : posted[i].type = "answered" => posted[i].scsn \in Known
  BY DEF TrueInv, TrueAnswer
<1>2. \A i \in DOMAIN posted : posted[i].type # "answered" => posted[i].scsn \in Known
  BY ScsnTyped DEF Calls, Requests
<1>3. QED
  BY <1>1, <1>2

\* The SDK makes a call.
LEMMA PostCore ==
    ASSUME IInv, OrderInv, CoreInv, UNCHANGED <<log, k, disk, chatd>>, NEW e \in Calls, Post(e),
           sdk'.request = sdk.request \/ sdk'.request = NoRequest,
           e.type = "answered" => TrueAnswer(e),
           e.type = "chats" => log[e.scsn].exists,
           Deletes(e) => ~k.known /\ \A j \in DOMAIN posted : ~log[posted[j].scsn].exists,
           \/ sdk'.at = sdk.at /\ sdk.state # "off" /\ sdk'.state # "off"
              /\ (sdk.at = Len(log) => ~Stale(e))
           \/ sdk'.at = Len(log) /\ Tells(e) /\ (sdk.at # Len(log) \/ sdk.state = "off")
           \/ sdk'.at # Len(log)
    PROVE  CoreInv'
<1>0. TypeOK
  BY DEF IInv
<1>1. /\ \A i \in DOMAIN posted : i \in DOMAIN posted' /\ posted'[i] = posted[i]
      /\ \A i \in DOMAIN posted' : \/ i \in DOMAIN posted
                                   \/ i = Len(posted) + 1 /\ posted'[i] = e
      /\ \A i \in DOMAIN posted' : \A j \in DOMAIN posted' : j < i => j \in DOMAIN posted
      /\ \A i : DueFrom(i) => DueFrom(i)'
      /\ \A i \in DOMAIN posted \cup {0} :
             Tells(e) /\ (\A j \in DOMAIN posted : ~Numbers(posted[j])) => DueFrom(i)'
  BY <1>0, PostDue
<1>2. Len(log') = Len(log) /\ k' = k
  OBVIOUS
<1>3. TrueInv'
  <2>1. \A x : (TrueAnswer(x)' <=> TrueAnswer(x)) /\ (Deletes(x)' <=> Deletes(x))
    BY DEF TrueAnswer, Deletes, Known
  <2>2. sdk'.request # NoRequest => TrueAnswer(sdk'.request)
    BY DEF CoreInv, TrueInv
  <2>3. \A i \in DOMAIN posted' : posted'[i].type = "answered" => TrueAnswer(posted'[i])
    BY <1>1 DEF CoreInv, TrueInv
  <2>4. \A i \in DOMAIN posted' : posted'[i].type = "chats" => log[posted'[i].scsn].exists
    BY <1>1 DEF CoreInv, TrueInv
  <2>5. \A i \in DOMAIN posted' : Deletes(posted'[i]) =>
            ~k.known /\ \A j \in DOMAIN posted' : j < i => ~log[posted'[j].scsn].exists
    BY <1>1 DEF CoreInv, TrueInv
  <2>6. QED
    BY <2>1, <2>2, <2>3, <2>4, <2>5 DEF TrueInv
<1>4. (Due => Due') /\ StaleInv'
  <2>2. CASE sdk'.at = sdk.at /\ sdk.state # "off" /\ sdk'.state # "off"
             /\ (sdk.at = Len(log) => ~Stale(e))
    <3>1. Due => Due'
      BY <1>1, <2>2 DEF Due
    <3>2. StaleInv'
      <4> SUFFICES ASSUME sdk'.at = Len(log'), NEW i \in DOMAIN posted', Stale(posted'[i])
                   PROVE  k'.db.scsn # Len(log') /\ DueFrom(i)'
        BY DEF StaleInv, Stale
      <4>1. i \in DOMAIN posted /\ Stale(posted[i]) /\ sdk.at = Len(log)
        BY <1>1, <2>2
      <4>2. QED
        BY <1>1, <4>1 DEF CoreInv, StaleInv
    <3>3. QED
      BY <3>1, <3>2
  <2>3. CASE sdk'.at = Len(log) /\ Tells(e) /\ (sdk.at # Len(log) \/ sdk.state = "off")
    <3>1. \A j \in DOMAIN posted : ~Numbers(posted[j]) /\ k.db.scsn # Len(log)
      <4>1. CASE sdk.at # Len(log)
        BY <4>1, NotYetNumbered
      <4>2. CASE sdk.state = "off"
        <5>1. DOMAIN posted = {}
          BY <4>2 DEF OrderInv
        <5>2. QED
          BY <5>1
      <4>3. QED
        BY <2>3, <4>1, <4>2
    <3>2. \A i \in DOMAIN posted \cup {0} : DueFrom(i)'
      BY <1>1, <2>3, <3>1
    <3>3. Due => Due'
      <4>1. Due => k.db.scsn # Len(log)
        BY NotYetNumbered DEF Due
      <4>2. QED
        BY <3>2, <4>1 DEF Due
    <3>4. StaleInv'
      <4>1. ~Stale(e)
        BY <2>3 DEF Stale, Tells
      <4>2. \A i \in DOMAIN posted' : Stale(posted'[i]) => k'.db.scsn # Len(log') /\ DueFrom(i)'
        BY <1>1, <3>1, <3>2, <4>1
      <4>3. QED
        BY <4>2 DEF StaleInv, Stale
    <3>5. QED
      BY <3>3, <3>4
  <2>4. CASE sdk'.at # Len(log)
    BY <2>4 DEF Due, StaleInv
  <2>5. QED
    BY <2>2, <2>3, <2>4
<1>5. QED
  BY <1>3, <1>4, QuietCore

\* A list without the chat comes before there was one.
LEMMA BeforeThereWas ==
    ASSUME IInv, CoreInv, ~Last_.exists
    PROVE  /\ Known = {1} /\ Len(log) = 1 /\ ~k.known
           /\ \A v \in Known : ~log[v].exists
           /\ \A j \in DOMAIN posted : ~log[posted[j].scsn].exists
<1>1. Len(log) \in Nat /\ Len(log) > 0 /\ Len(log) \in Known
  BY ScsnTyped, LastTyped DEF IInv
<1>2. Len(log) = 1
  <2>1. Len(log) > 1 => log[Len(log)].exists
    BY <1>1 DEF CoreInv, LogInv
  <2>2. ~(Len(log) > 1)
    BY <2>1, Zenon DEF Last_
  <2>3. \A n \in Nat : n > 0 /\ ~(n > 1) => n = 1
    OBVIOUS
  <2>4. QED
    BY <1>1, <2>2, <2>3, Zenon
<1>3. Known = {1}
  BY <1>2 DEF Known
<1>4. \A v \in Known : ~log[v].exists
  BY <1>2, <1>3 DEF Last_
<1>5. QED
  BY <1>2, <1>3, <1>4, PostedKnown DEF CoreInv, LogInv, IInv

LEMMA FetchCore ==
    ASSUME IInv, OrderInv, CoreInv, UNCHANGED <<log, k, disk, chatd>>, NEW v \in Known,
           sdk.state = "off" \/ v = Len(log),
           k.mInitState = "HasOfflineSession" \/ v = Len(log),
           sdk' = [sdk EXCEPT !.state = "paused", !.at = v, !.disk = v],
           Post([type |-> "fetched", scsn |-> v, state |-> k.mInitState])
    PROVE  CoreInv'
<1> DEFINE e == [type |-> "fetched", scsn |-> v, state |-> k.mInitState]
<1>1. e \in Calls /\ e.type = "fetched" /\ e.scsn = v /\ e.state = k.mInitState
  BY DEF Calls, IInv, TypeOK, Room
<1>2. Post(e)
  OBVIOUS
<1>. HIDE DEF e
<1>3. sdk'.at = v /\ sdk'.request = sdk.request /\ sdk'.state = "paused"
  BY DEF IInv, TypeOK
<1>4. Deletes(e) => ~k.known /\ \A j \in DOMAIN posted : ~log[posted[j].scsn].exists
  <2>1. Deletes(e) => ~Last_.exists
    BY <1>1 DEF Deletes, Last_
  <2>2. QED
    BY <2>1, BeforeThereWas
<1>5. v = Len(log) => Tells(e) /\ ~Stale(e)
  BY <1>1 DEF Tells, Stale
<1>6. \/ sdk'.at = sdk.at /\ sdk.state # "off" /\ sdk'.state # "off"
         /\ (sdk.at = Len(log) => ~Stale(e))
      \/ sdk'.at = Len(log) /\ Tells(e) /\ (sdk.at # Len(log) \/ sdk.state = "off")
      \/ sdk'.at # Len(log)
  BY <1>3, <1>5
<1>7. QED
  BY <1>1, <1>2, <1>3, <1>4, <1>6, PostCore

LEMMA SdkFetchesCore == ASSUME IInv, OrderInv, CoreInv, SdkFetches PROVE CoreInv'
<1> DEFINE v == IF k.mInitState = "HasOfflineSession" THEN sdk.disk ELSE Len(log)
<1>1. v \in Known
  <2>1. Len(log) \in Known
    BY LastTyped DEF IInv
  <2>2. k.mInitState = "HasOfflineSession" => sdk.disk # 0
    BY DEF IInv, DiskInv, RoomsInv, SessionInv, HasSession
  <2>3. sdk.disk \in {0} \cup Known
    BY DEF IInv, TypeOK
  <2>4. QED
    BY <2>1, <2>2, <2>3
<1>2. /\ sdk' = [sdk EXCEPT !.state = "paused", !.at = v, !.disk = v]
      /\ Post([type |-> "fetched", scsn |-> v, state |-> k.mInitState])
      /\ UNCHANGED <<log, k, disk, chatd>> /\ sdk.state = "off"
  BY DEF SdkFetches
<1>3. k.mInitState = "HasOfflineSession" \/ v = Len(log)
  OBVIOUS
<1>. HIDE DEF v
<1>4. QED
  BY <1>1, <1>2, <1>3, FetchCore, ZenonT(30)

LEMMA SdkReloadsCore == ASSUME IInv, OrderInv, CoreInv, SdkReloads PROVE CoreInv'
<1>1. Len(log) \in Known
  BY LastTyped DEF IInv
<1>2. QED
  BY <1>1, FetchCore, ZenonT(30) DEF SdkReloads

LEMMA SdkUpdatesCore == ASSUME IInv, OrderInv, CoreInv, SdkUpdates PROVE CoreInv'
<1>1. PICK v \in sdk.at + 1 .. Len(log) :
          /\ sdk' = [sdk EXCEPT !.at = v]
          /\ IF log[v].exists THEN Post([type |-> "chats", scsn |-> v]) ELSE UNCHANGED posted
  BY DEF SdkUpdates
<1>2. v \in Known /\ sdk.at < v /\ v \in Nat /\ sdk.at < Len(log) /\ sdk.at \in Nat
  BY ScsnTyped DEF IInv, Known
<1>3. /\ sdk'.at = v /\ sdk'.state = sdk.state /\ sdk.state # "off"
      /\ sdk'.request = sdk.request
  BY <1>1 DEF IInv, TypeOK, SdkUpdates
<1>4. UNCHANGED <<log, k, disk, chatd>>
  BY DEF SdkUpdates
<1>5. CASE log[v].exists
  <2> DEFINE e == [type |-> "chats", scsn |-> v]
  <2>1. e \in Calls /\ e.type = "chats" /\ e.scsn = v /\ Post(e)
    BY <1>1, <1>2, <1>5 DEF Calls
  <2>. HIDE DEF e
  <2>2. ~Deletes(e)
    BY <2>1 DEF Deletes
  <2>3. \/ sdk'.at = Len(log) /\ Tells(e) /\ sdk.at # Len(log)
        \/ sdk'.at # Len(log)
    BY <1>2, <1>3, <2>1 DEF Tells
  <2>4. QED
    BY <1>3, <1>4, <1>5, <2>1, <2>2, <2>3, PostCore
<1>6. CASE ~log[v].exists
  <2>1. UNCHANGED posted
    BY <1>1, <1>6
  <2>2. sdk'.at # Len(log)
    <3> SUFFICES ASSUME v = Len(log) PROVE FALSE
      BY <1>3
    <3>1. Len(log) = 1
      BY <1>6, BeforeThereWas DEF Last_
    <3>2. sdk.disk = 0
      BY <1>2, <3>1, ScsnTyped DEF IInv, OrderInv
    <3>3. QED
      BY <1>3, <3>2 DEF IInv, DiskInv
  <2>3. Due' /\ StaleInv'
    BY <1>4, <2>2 DEF Due, StaleInv
  <2>4. TrueInv'
    BY <1>3, <1>4, <2>1 DEF CoreInv, TrueInv, TrueAnswer, Deletes, Known
  <2>5. QED
    BY <1>4, <2>3, <2>4, QuietCore
<1>7. QED
  BY <1>5, <1>6

LEMMA SdkCommitsCore == ASSUME IInv, OrderInv, CoreInv, SdkCommits PROVE CoreInv'
<1>1. /\ sdk.at \in Nat /\ sdk.disk \in Nat /\ sdk.disk < sdk.at /\ sdk.at \in {0} \cup Known
  BY ScsnTyped DEF IInv, TypeOK, SdkCommits
<1>2. sdk.at \in Known
  BY <1>1
<1> DEFINE e == [type |-> "commit", scsn |-> sdk.at]
<1>3. e \in Calls /\ e.type = "commit" /\ e.scsn = sdk.at /\ Post(e)
  BY <1>2 DEF Calls, SdkCommits
<1>. HIDE DEF e
<1>4. /\ sdk'.at = sdk.at /\ sdk'.state = sdk.state /\ sdk.state # "off"
      /\ sdk'.request = sdk.request /\ UNCHANGED <<log, k, disk, chatd>>
  BY DEF SdkCommits, IInv, TypeOK
<1>5. ~Deletes(e) /\ ~Stale(e)
  BY <1>3 DEF Deletes, Stale
<1>6. QED
  BY <1>3, <1>4, <1>5, PostCore

LEMMA SdkAnswersCore == ASSUME IInv, OrderInv, CoreInv, SdkAnswers PROVE CoreInv'
<1> DEFINE e == sdk.request
<1>1. e \in Requests /\ e \in Calls /\ e.type = "answered"
  BY DEF SdkAnswers, IInv, TypeOK, Calls, Requests
<1>2. Post(e) /\ sdk.at <= e.scsn /\ e # NoRequest
  BY DEF SdkAnswers
<1>3. TrueAnswer(e)
  BY <1>2 DEF CoreInv, TrueInv
<1>. HIDE DEF e
<1>4. /\ sdk'.at = sdk.at /\ sdk'.state = sdk.state /\ sdk.state # "off"
      /\ sdk'.request = NoRequest /\ UNCHANGED <<log, k, disk, chatd>>
  BY DEF SdkAnswers, IInv, TypeOK, OrderInv
<1>5. e.scsn \in Known /\ e.scsn \in Nat /\ e.scsn <= Len(log)
  <2>1. e.scsn \in 1..Len(log)
    BY <1>3 DEF TrueAnswer, Known
  <2>2. QED
    BY <2>1, ScsnTyped DEF Known, IInv
<1>6. ~Deletes(e) /\ (sdk.at = Len(log) => ~Stale(e))
  BY <1>1, <1>2, <1>5, ScsnTyped DEF Deletes, Stale, IInv
<1>7. QED
  BY <1>1, <1>2, <1>3, <1>4, <1>6, PostCore

-----------------------------------------------------------------------------
(* The main thread *)

\* What a call leaves of the chat, and what of the room, by its kind.
CallSays(e, d, joined, down) ==
    /\ d \in Room /\ Phase(d, joined, down)
    /\ k.known => d.known /\ d.mUsers = k.mUsers /\ d.mOwnPrivilege = k.mOwnPrivilege
    /\ e.type = "commit" => d.known = k.known /\ d.priv = k.priv
    /\ e.type = "chats"  => d.known /\ HasView(d.priv, View(e.scsn))
    /\ e.type = "fetched" =>
           /\ ~log[e.scsn].exists => d.known = k.known
           /\ \/ k.db.scsn = e.scsn /\ d.known = k.known /\ d.priv = k.priv
              \/ log[e.scsn].exists => d.known /\ HasView(d.priv, View(e.scsn))
    /\ e.type = "answered" =>
           d.known = k.known /\ d.priv \in {k.priv, [k.priv EXCEPT ![e.user] = e.priv]}

LEMMA CalledSays ==
    ASSUME IInv, NEW e \in Calls, e.type = "fetched" => e.state = k.mInitState,
           e.type = "answered" => TrueAnswer(e), e.type = "chats" => log[e.scsn].exists,
           Deletes(e) => ~k.known,
           NEW joined, NEW down, Phase(k, joined, down)
    PROVE  CallSays(e, Called(k, e), joined, down)
<1> DEFINE d == Called(k, e)
<1> SUFFICES CallSays(e, d, joined, down)
  OBVIOUS
<1>0. /\ TypeOK /\ Good(k) /\ SessionInv(k) /\ RowsInv(k.db) /\ Known \subseteq Nat /\ k \in Room
  BY LastTyped DEF IInv, RoomsInv, Good, TypeOK
<1>1. CASE e.type = "chats"
  <2>1. e.scsn \in Known
    BY <1>1 DEF Calls, Requests
  <2>2. d = OnChatsUpdate(k, e.scsn, FALSE)
    BY <1>1 DEF Called
  <2>3. Updated(k, OnChatsUpdate(k, e.scsn, FALSE), e.scsn, joined, down)
    BY <1>0, <2>1, OnChatsUpdateSays
  <2>. HIDE DEF d
  <2>4. QED
    BY <1>1, <2>2, <2>3 DEF Updated, CallSays
<1>2. CASE e.type = "commit"
  <2>1. e.scsn \in Nat
    BY <1>0, <1>2 DEF Calls, Requests
  <2>2. d = [k EXCEPT !.db.scsn = e.scsn]
    BY <1>2 DEF Called
  <2>. HIDE DEF d
  <2>3. /\ d \in Room /\ Phase(d, joined, down) /\ d.known = k.known /\ d.mUsers = k.mUsers
        /\ d.mOwnPrivilege = k.mOwnPrivilege /\ d.priv = k.priv
    BY <1>0, <2>1, <2>2, ScsnPhase
  <2>4. QED
    BY <1>2, <2>3 DEF CallSays
<1>3. CASE e.type = "fetched"
  <2>1. e.scsn \in Known /\ e.state = k.mInitState
    BY <1>3 DEF Calls, Requests
  <2>2. d = Fetched(k, e)
    BY <1>3 DEF Called
  <2>3. e.state = "HasOnlineSession" /\ ~log[e.scsn].exists => ~k.known
    BY <1>3 DEF Deletes
  <2>4. \/ k.db.scsn = e.scsn /\ Alike(k, Fetched(k, e), joined, down)
        \/ Brought(k, Fetched(k, e), e.scsn, joined, down)
    BY <1>0, <2>1, <2>3, FetchedSays
  <2>. HIDE DEF d
  <2>5. CASE k.db.scsn = e.scsn /\ Alike(k, d, joined, down)
    BY <1>3, <2>5 DEF Alike, CallSays
  <2>6. CASE Brought(k, d, e.scsn, joined, down)
    BY <1>3, <2>6 DEF Brought, CallSays
  <2>7. QED
    BY <2>2, <2>4, <2>5, <2>6
<1>4. CASE e.type = "answered"
  <2>1. e \in Requests /\ TrueAnswer(e)
    BY <1>4 DEF Calls
  <2>2. d = Answered(k, e)
    BY <1>4 DEF Called
  <2>3. /\ Follows(k, Answered(k, e), joined, down)
        /\ Answered(k, e).priv \in {k.priv, [k.priv EXCEPT ![e.user] = e.priv]}
    BY <1>0, <2>1, AnsweredSays
  <2>. HIDE DEF d
  <2>4. QED
    BY <1>4, <2>2, <2>3 DEF Follows, CallSays
<1>5. QED
  BY <1>1, <1>2, <1>3, <1>4 DEF Calls, Requests

\* What is under way behind the first call comes nearer.
LEMMA PopDue ==
    ASSUME TypeOK, NEW e, Pops(e)
    PROVE  /\ \A i \in Nat : DueFrom(i + 1) => DueFrom(i)'
           /\ ~Tells(e) /\ DueFrom(0) => DueFrom(0)'
           /\ DueFrom(0) => Tells(e) \/ ~Numbers(e)
           /\ \A i \in Nat : DueFrom(i + 1) => ~Numbers(e)
<1>0. /\ 1 \in DOMAIN posted /\ e = posted[1]
      /\ \A i \in DOMAIN posted' : /\ i \in Nat /\ i >= 1 /\ i + 1 \in DOMAIN posted
                                   /\ posted'[i] = posted[i + 1]
      /\ \A i \in DOMAIN posted : /\ i \in Nat /\ i >= 1
                                  /\ i > 1 => i - 1 \in DOMAIN posted'
  BY Popped DEF Pops
<1>1. ASSUME NEW i \in Nat, NEW w \in DOMAIN posted, i + 1 < w, Tells(posted[w]),
             \A j \in DOMAIN posted : j < w => ~Numbers(posted[j])
      PROVE  DueFrom(i)'
  <2>1. /\ w - 1 \in DOMAIN posted' /\ i < w - 1 /\ w \in Nat
        /\ posted'[w - 1] = posted[(w - 1) + 1] /\ (w - 1) + 1 = w
    BY <1>0, <1>1
  <2>2. Tells(posted'[w - 1])
    BY <1>1, <2>1
  <2>3. \A j \in DOMAIN posted' : j < w - 1 => ~Numbers(posted'[j])
    BY <1>0, <1>1, <2>1
  <2>4. QED
    BY <2>1, <2>2, <2>3 DEF DueFrom, Tells, Numbers, Pops
<1>2. \A i \in Nat : DueFrom(i + 1) => DueFrom(i)'
  BY <1>1 DEF DueFrom
<1>3. ASSUME ~Tells(e), DueFrom(0) PROVE DueFrom(0)'
  <2>1. PICK w \in DOMAIN posted : /\ 0 < w /\ Tells(posted[w])
                                   /\ \A j \in DOMAIN posted : j < w => ~Numbers(posted[j])
    BY <1>3 DEF DueFrom
  <2>2. w # 1
    BY <1>0, <1>3, <2>1
  <2>3. 0 + 1 < w
    BY <1>0, <2>2
  <2>4. QED
    BY <1>1, <2>1, <2>3
<1>4. ASSUME DueFrom(0), ~Tells(e) PROVE ~Numbers(e)
  <2>1. PICK w \in DOMAIN posted : /\ 0 < w /\ Tells(posted[w])
                                   /\ \A j \in DOMAIN posted : j < w => ~Numbers(posted[j])
    BY <1>4 DEF DueFrom
  <2>2. w # 1
    BY <1>0, <1>4, <2>1
  <2>3. 1 < w
    BY <1>0, <2>2
  <2>4. QED
    BY <1>0, <2>1, <2>3
<1>5. ASSUME NEW i \in Nat, DueFrom(i + 1) PROVE ~Numbers(e)
  <2>1. PICK w \in DOMAIN posted : /\ i + 1 < w /\ Tells(posted[w])
                                   /\ \A j \in DOMAIN posted : j < w => ~Numbers(posted[j])
    BY <1>5 DEF DueFrom
  <2>2. 1 < w
    BY <1>0, <2>1
  <2>3. QED
    BY <1>0, <2>1, <2>2
<1>6. QED
  BY <1>2, <1>3, <1>4, <1>5

LEMMA MainThreadStale ==
    ASSUME IInv, OrderInv, CoreInv, NEW e, Pops(e)
    PROVE  StaleInv'
<1>0. /\ 1 \in DOMAIN posted /\ e = posted[1]
      /\ \A i \in DOMAIN posted' : /\ i \in Nat /\ i >= 1 /\ i + 1 \in DOMAIN posted
                                   /\ posted'[i] = posted[i + 1]
  BY Popped DEF Pops, IInv
<1>1. log' = log /\ sdk'.at = sdk.at /\ k'.db.scsn = IF Commits(e) THEN e.scsn ELSE k.db.scsn
  BY DEF Pops
<1>2. SUFFICES ASSUME sdk.at = Len(log), NEW i \in DOMAIN posted', Stale(posted[i + 1])
               PROVE  k'.db.scsn # Len(log) /\ DueFrom(i)'
  BY <1>0, <1>1 DEF StaleInv, Stale
<1>3. i \in Nat /\ i >= 1 /\ i + 1 \in DOMAIN posted
  BY <1>0
<1>4. k.db.scsn # Len(log) /\ DueFrom(i + 1)
  BY <1>2, <1>3 DEF CoreInv, StaleInv
<1>5. DueFrom(i)' /\ ~Numbers(e)
  BY <1>3, <1>4, PopDue DEF IInv
<1>6. ASSUME e.type = "fetched", e.scsn = Len(log) PROVE FALSE
  <2>1. e.scsn <= posted[i + 1].scsn
    BY <1>0, <1>3, <1>6 DEF OrderInv
  <2>2. posted[i + 1].scsn \in 1..Len(log)
    BY <1>3, PostedKnown DEF CoreInv, IInv, Known
  <2>3. posted[i + 1].scsn = Len(log)
    BY <1>6, <2>1, <2>2, ScsnTyped DEF IInv
  <2>4. QED
    BY <1>2, <2>3 DEF Stale
<1>7. k'.db.scsn # Len(log)
  BY <1>1, <1>4, <1>5, <1>6 DEF Commits, Numbers
<1>8. QED
  BY <1>5, <1>7

OneRight(old, new, right) == new = old \/ \E u \in Users : new = [old EXCEPT ![u] = right[u]]

\* When nothing is due any more, the room has been synchronised with the last version, or it
\* was not due before and one privilege at most has been set, to what is right.
LEMMA MainThreadRight ==
    ASSUME IInv, OrderInv, CoreInv, NEW e, Pops(e), NEW joined, NEW down,
           CallSays(e, k', joined, down), Last_.exists, ~Due'
    PROVE  \/ HasView(k'.priv, View(Len(log)))
           \/ ~Due /\ OneRight(k.priv, k'.priv, Last_.priv)
<1>0. /\ 1 \in DOMAIN posted /\ e = posted[1] /\ e \in Calls
  BY Popped DEF Pops, IInv
<1>1. /\ log' = log /\ sdk'.at = sdk.at /\ k'.db.scsn = IF Commits(e) THEN e.scsn ELSE k.db.scsn
      /\ sdk.state # "off" /\ sdk'.state # "off"
  BY DEF Pops
<1>2. sdk.at = Len(log) /\ (k'.db.scsn # Len(log) => ~DueFrom(0)')
  BY <1>1 DEF Due
<1>3. Due => k.db.scsn # Len(log) /\ DueFrom(0)
  BY <1>1, <1>2 DEF Due
<1>4. ~Stale(e)
  <2> SUFFICES ASSUME Stale(e) PROVE FALSE
    OBVIOUS
  <2>1. k.db.scsn # Len(log) /\ DueFrom(1)
    BY <1>0, <1>2 DEF CoreInv, StaleInv
  <2>2. DueFrom(0)'
    <3>1. DueFrom(0 + 1)
      BY <2>1
    <3>2. QED
      BY <3>1, PopDue DEF IInv
  <2>3. k'.db.scsn # Len(log)
    BY <1>1, <2>1 DEF Stale
  <2>4. QED
    BY <1>2, <2>2, <2>3
<1>5. CASE e.type = "commit"
  <2>1. ~Tells(e) /\ Commits(e)
    BY <1>5 DEF Tells, Commits
  <2>2. ~Due
    <3> SUFFICES ASSUME Due PROVE FALSE
      OBVIOUS
    <3>1. DueFrom(0)' /\ ~Numbers(e)
      BY <1>3, <2>1, PopDue DEF IInv
    <3>2. k'.db.scsn # Len(log)
      BY <1>1, <1>5, <2>1, <3>1 DEF Numbers
    <3>3. QED
      BY <1>2, <3>1, <3>2
  <2>3. QED
    BY <1>5, <2>2 DEF CallSays, OneRight
<1>6. CASE e.type = "chats"
  <2>1. e.scsn = Len(log)
    BY <1>4, <1>6 DEF Stale
  <2>2. QED
    BY <1>6, <2>1 DEF CallSays
<1>7. CASE e.type = "fetched"
  <2>1. e.scsn = Len(log)
    BY <1>4, <1>7 DEF Stale
  <2>2. log[e.scsn].exists
    BY <2>1 DEF Last_
  <2>3. CASE k.db.scsn = e.scsn /\ k'.priv = k.priv
    BY <1>3, <2>1, <2>3 DEF OneRight
  <2>4. CASE HasView(k'.priv, View(e.scsn))
    BY <2>1, <2>4
  <2>5. QED
    BY <1>7, <2>2, <2>3, <2>4 DEF CallSays
<1>8. CASE e.type = "answered"
  <2>1. e.scsn = Len(log)
    BY <1>4, <1>8 DEF Stale
  <2>2. e \in Requests /\ TrueAnswer(e)
    BY <1>0, <1>8 DEF Calls, CoreInv, TrueInv
  <2>3. e.user \in Users /\ e.priv = Last_.priv[e.user]
    BY <2>1, <2>2 DEF Requests, TrueAnswer, Last_
  <2>4. OneRight(k.priv, k'.priv, Last_.priv)
    BY <1>8, <2>3 DEF CallSays, OneRight
  <2>5. ~Due
    <3> SUFFICES ASSUME Due PROVE FALSE
      OBVIOUS
    <3>1. ~Tells(e) /\ ~Commits(e)
      BY <1>8 DEF Tells, Commits
    <3>2. DueFrom(0)' /\ k'.db.scsn # Len(log)
      BY <1>1, <1>3, <3>1, PopDue DEF IInv
    <3>3. QED
      BY <1>2, <3>2
  <2>6. QED
    BY <2>4, <2>5
<1>9. QED
  BY <1>0, <1>5, <1>6, <1>7, <1>8 DEF Calls, Requests

\* Whoever leaves is leaving as long as chatd says no more, and the chat keeps its users.
LEMMA LeavingStays ==
    ASSUME chatd' = chatd, k.known => k'.mUsers = k.mUsers, ~k.known => chatd.down = <<>>,
           NEW u, Leaving(u)
    PROVE  Leaving(u)'
<1>1. CASE k.known
  BY <1>1 DEF Leaving, Removes
<1>2. CASE ~k.known
  <2>1. DOMAIN chatd.down = {}
    BY <1>2
  <2>2. u \in chatd.unheard
    BY <2>1 DEF Leaving
  <2>3. QED
    BY <2>2 DEF Leaving
<1>3. QED
  BY <1>1, <1>2

\* The rows have the members that the room has.
LEMMA RowsLeave ==
    ASSUME NEW a, NEW b, In(a) \ {Me} = In(b) \ {Me}, OnlyLeaving(a)', Me \in Users
    PROVE  OnlyLeaving(b)'
<1>1. WeAreIn' => Me \in In(Last_.priv')
  BY DEF WeAreIn, In
<1>2. WeAreIn' => In(b) \ In(Last_.priv') \subseteq In(a) \ In(Last_.priv')
  BY <1>1
<1>3. In(Last_.priv)' = In(Last_.priv')
  BY DEF In
<1>4. QED
  BY <1>2, <1>3 DEF OnlyLeaving, In

\* What Phase says of a chat that is not known, or that has joined.
LEMMA PhaseSays ==
    ASSUME IInv, CoreInv
    PROVE  /\ ~k.known => chatd.down = <<>>
           /\ chatd.joined => k.known /\ k.online # "offline"
BY DEF IInv, TypeOK, CoreInv, PhaseInv, Phase, Room

\* With the last number in the rows nothing is due.
LEMMA RowsNotDue ==
    ASSUME IInv, OrderInv, k.db.scsn = Len(log)
    PROVE  ~Due
<1>1. /\ k.db.scsn \in Nat /\ sdk.disk \in Nat /\ sdk.at \in Nat
      /\ Len(log) \in Nat /\ sdk.at <= Len(log) /\ k.db.scsn <= sdk.disk /\ sdk.disk <= sdk.at
  BY ScsnTyped DEF IInv, OrderInv
<1>2. sdk.at = Len(log)
  BY <1>1
<1>3. QED
  BY <1>2 DEF Due

\* so after a step: what is in the state before is in the one after
LEMMA ScsnDue ==
    ASSUME IInv', OrderInv', log' = log, sdk'.at \in Nat, sdk'.disk \in Nat, sdk'.at <= Len(log),
           Len(log) \in Nat, k'.db.scsn = Len(log)
    PROVE  ~Due'
<1>1. k'.db.scsn <= sdk'.disk /\ sdk'.disk <= sdk'.at
  BY DEF OrderInv
<1>2. sdk'.at = Len(log')
  BY <1>1
<1>3. QED
  BY <1>2 DEF Due

LEMMA MainThreadCore == ASSUME IInv, OrderInv, CoreInv, MainThread PROVE CoreInv'
<1> DEFINE e == Head(posted)
<1>1. Pops(e)
  BY MainThreadPops
<1>. HIDE DEF e
<1>0. /\ TypeOK /\ k \in Room /\ Me \in Users /\ Last_.priv \in [Users -> Levels]
      /\ Len(log) \in Nat
  BY NobodyTyped, LastTyped, ScsnTyped DEF IInv, TypeOK
<1>2. IInv' /\ OrderInv'
  <2>1. [Next]_vars
    BY DEF Next
  <2>2. QED
    BY <2>1, NextIInv, NextOrder
<1>3. /\ 1 \in DOMAIN posted /\ e = posted[1] /\ e \in Calls
      /\ \A i \in DOMAIN posted' : /\ i \in Nat /\ i >= 1 /\ i + 1 \in DOMAIN posted
                                   /\ posted'[i] = posted[i + 1]
  BY <1>0, <1>1, Popped DEF Pops
<1>4. /\ log' = log /\ chatd' = chatd /\ sdk'.at = sdk.at /\ sdk'.request = sdk.request
      /\ sdk'.state # "off"
      /\ k' = Called(k, e) /\ k'.db.scsn = IF Commits(e) THEN e.scsn ELSE k.db.scsn
      /\ disk' = (IF Commits(e) \/ k'.commitEach THEN k'.db ELSE disk)
  BY <1>1 DEF Pops
<1>5. /\ e.type = "fetched" => e.state = k.mInitState
      /\ e.type = "answered" => TrueAnswer(e)
      /\ e.type = "chats" => log[e.scsn].exists
      /\ Deletes(e) => ~k.known
      /\ e.scsn \in Known
  BY <1>0, <1>1, <1>3, PostedKnown DEF Pops, CoreInv, TrueInv
<1>6. CallSays(e, k', chatd.joined, chatd.down)
  <2>1. Phase(k, chatd.joined, chatd.down)
    BY DEF CoreInv, PhaseInv
  <2>2. CallSays(e, Called(k, e), chatd.joined, chatd.down)
    BY <1>3, <1>5, <2>1, CalledSays
  <2>3. QED
    BY <1>4, <2>2
<1>7. Last_' = Last_ /\ Known' = Known /\ Len(log') = Len(log)
  BY <1>4 DEF Last_, Known
<1>8. /\ ~k.known => chatd.down = <<>>
      /\ chatd.joined => k.known /\ k.online # "offline"
  BY PhaseSays
<1>9. k.known => k'.known /\ k'.mUsers = k.mUsers /\ k'.mOwnPrivilege = k.mOwnPrivilege
  BY <1>6 DEF CallSays
<1>10. k.known \in BOOLEAN /\ k'.known \in BOOLEAN
  BY <1>0, <1>6 DEF CallSays, Room
<1>11. LogInv'
  <2>1. k'.known => Last_.exists
    <3>1. CASE Last_.exists
      BY <3>1
    <3>2. CASE ~Last_.exists
      <4>1. ~k.known /\ ~log[e.scsn].exists
        BY <1>5, <3>2, BeforeThereWas
      <4>2. ~k'.known
        BY <1>3, <1>5, <1>6, <4>1 DEF CallSays, Calls, Requests
      <4>3. QED
        BY <4>2
    <3>3. QED
      BY <3>1, <3>2
  <2>2. disk'.row => k'.known
    <3>1. k'.known = k'.db.row
      BY <1>2 DEF IInv, RoomsInv, RoomInv
    <3>2. disk.row => k'.known
      BY <1>9 DEF CoreInv, LogInv
    <3>3. QED
      BY <1>4, <3>1, <3>2
  <2>3. \A v \in Known : v > 1 => log[v].exists
    BY DEF CoreInv, LogInv
  <2>4. QED
    BY <1>4, <1>7, <2>1, <2>2, <2>3 DEF LogInv
<1>12. TrueInv'
  <2>1. \A x : (TrueAnswer(x)' <=> TrueAnswer(x)) /\ (Deletes(x)' <=> Deletes(x))
    BY <1>4 DEF TrueAnswer, Deletes, Known
  <2>2. sdk'.request # NoRequest => TrueAnswer(sdk'.request)
    BY <1>4 DEF CoreInv, TrueInv
  <2>3. \A i \in DOMAIN posted' : posted'[i].type = "answered" => TrueAnswer(posted'[i])
    BY <1>3 DEF CoreInv, TrueInv
  <2>4. \A i \in DOMAIN posted' : posted'[i].type = "chats" => log[posted'[i].scsn].exists
    BY <1>3 DEF CoreInv, TrueInv
  <2>5. ASSUME NEW i \in DOMAIN posted', Deletes(posted'[i])
        PROVE  ~k'.known /\ \A j \in DOMAIN posted' : j < i => ~log[posted'[j].scsn].exists
    <3>1. i \in Nat /\ i >= 1 /\ i + 1 \in DOMAIN posted /\ Deletes(posted[i + 1])
      BY <1>3, <2>5
    <3>2. ~k.known /\ \A j \in DOMAIN posted : j < i + 1 => ~log[posted[j].scsn].exists
      BY <3>1 DEF CoreInv, TrueInv
    <3>3. 1 < i + 1
      BY <3>1
    <3>4. ~log[e.scsn].exists
      BY <1>3, <3>2, <3>3
    <3>5. ~k'.known
      BY <1>3, <1>5, <1>6, <3>2, <3>4 DEF CallSays, Calls, Requests
    <3>6. \A j \in DOMAIN posted' : j < i => ~log[posted'[j].scsn].exists
      <4> SUFFICES ASSUME NEW j \in DOMAIN posted', j < i
                   PROVE  ~log[posted'[j].scsn].exists
        OBVIOUS
      <4>1. j \in Nat /\ j + 1 \in DOMAIN posted /\ posted'[j] = posted[j + 1]
        BY <1>3
      <4>2. j + 1 < i + 1
        BY <3>1, <4>1
      <4>3. QED
        BY <3>2, <4>1, <4>2
    <3>7. QED
      BY <3>5, <3>6
  <2>6. QED
    BY <1>4, <2>1, <2>2, <2>3, <2>4, <2>5 DEF TrueInv
<1>13. StaleInv'
  BY <1>1, MainThreadStale
<1>14. PhaseInv'
  BY <1>4, <1>6 DEF CallSays, PhaseInv
<1>15. LastWordInv'
  BY <1>4, <1>7 DEF CoreInv, LastWordInv
<1>16. FindsUs(chatd'.down, k'.mUsers)
  <2>1. CASE k.known
    BY <1>4, <1>9, <2>1 DEF CoreInv
  <2>2. CASE ~k.known
    <3>1. DOMAIN chatd'.down = {}
      BY <1>4, <1>8, <2>2
    <3>2. QED
      BY <3>1 DEF FindsUs
  <2>3. QED
    BY <2>1, <2>2
<1>17. Last_.exists /\ ~Due' =>
           \/ HasView(k'.priv, View(Len(log)))
           \/ ~Due /\ OneRight(k.priv, k'.priv, Last_.priv)
  BY <1>1, <1>6, MainThreadRight
<1>18. View(Len(log)) = IF Last_.priv[Me] = NotPresent THEN Nobody ELSE Last_.priv
  BY DEF View, Last_
<1>19. k.priv \in [Users -> Levels]
  BY <1>0 DEF Room
<1>20. ASSUME Last_.exists, HasView(k'.priv, View(Len(log)))
       PROVE  /\ Last_.priv[Me] = NotPresent => k'.priv[Me] = NotPresent
              /\ Last_.priv[Me] # NotPresent => k'.priv = Last_.priv
  BY <1>0, <1>18, <1>20 DEF HasView, Nobody
<1>21. HeardInv'
  <2> SUFFICES ASSUME chatd.joined, NEW u \in Users, Undecided(chatd.down, u)
               PROVE  Heard(u)'
    BY <1>4 DEF HeardInv
  <2>1. k.known /\ Last_.exists
    BY <1>8 DEF CoreInv, LogInv
  <2>2. Heard(u)
    BY DEF CoreInv, HeardInv
  <2>3. CASE Due'
    BY <1>7, <1>9, <2>1, <2>2, <2>3 DEF Heard
  <2>4. CASE ~Due' /\ HasView(k'.priv, View(Len(log)))
    BY <1>7, <1>9, <1>20, <2>1, <2>2, <2>4 DEF Heard
  <2>5. CASE ~Due /\ OneRight(k.priv, k'.priv, Last_.priv)
    <3>1. k'.priv[u] \in {k.priv[u], Last_.priv[u]}
      BY <1>19, <2>5 DEF OneRight
    <3>2. QED
      BY <1>0, <1>7, <1>9, <2>1, <2>2, <2>5, <3>1 DEF Heard
  <2>6. QED
    BY <1>17, <2>1, <2>3, <2>4, <2>5
<1>22. ~Due' => OnlyLeaving(k.priv)'
  <2> SUFFICES ASSUME ~Due', WeAreIn, NEW u \in Users, k'.priv[u] # NotPresent,
                      Last_.priv[u] = NotPresent
               PROVE  Leaving(u)'
    BY <1>7 DEF OnlyLeaving, WeAreIn, In
  <2>1. Last_.exists /\ Last_.priv[Me] # NotPresent
    BY DEF WeAreIn
  <2>2. ~HasView(k'.priv, View(Len(log)))
    BY <1>20, <2>1
  <2>3. ~Due /\ OneRight(k.priv, k'.priv, Last_.priv)
    BY <1>17, <2>1, <2>2
  <2>4. k.priv[u] # NotPresent
    BY <1>19, <2>3 DEF OneRight
  <2>5. Leaving(u)
    BY <2>3, <2>4 DEF CoreInv, ExtraInv, OnlyLeaving, In
  <2>6. QED
    BY <1>4, <1>8, <1>9, <2>5, LeavingStays
<1>23. disk'.scsn = Len(log') => OnlyLeaving(disk.priv)'
  <2> SUFFICES ASSUME disk'.scsn = Len(log) PROVE OnlyLeaving(disk.priv)'
    BY <1>7
  <2>1. CASE disk' = k'.db
    <3>1. ~Due'
      <4>1. /\ sdk.at \in Nat /\ sdk.disk \in Nat /\ sdk.at <= Len(log) /\ sdk'.disk = sdk.disk
        BY <1>0, <1>1, ScsnTyped DEF Pops
      <4>2. QED
        BY <1>0, <1>2, <1>4, <2>1, <4>1, ScsnDue
    <3>2. In(k'.priv) \ {Me} = In(disk'.priv) \ {Me}
      BY <1>2, <2>1 DEF IInv, RoomsInv, RoomInv, In
    <3>3. QED
      BY <1>0, <1>7, <1>22, <2>1, <3>1, <3>2, RowsLeave DEF OnlyLeaving, WeAreIn, In
  <2>2. CASE disk' = disk
    <3>1. OnlyLeaving(disk.priv)
      BY <2>2 DEF CoreInv, ExtraInv
    <3>2. \A u : Leaving(u) => Leaving(u)'
      BY <1>4, <1>8, <1>9, LeavingStays
    <3>3. QED
      BY <1>7, <2>2, <3>1, <3>2 DEF OnlyLeaving, WeAreIn, In
  <2>3. QED
    BY <1>4, <2>1, <2>2
<1>24. ExtraInv'
  BY <1>22, <1>23 DEF ExtraInv
<1>25. QED
  BY <1>11, <1>12, <1>13, <1>14, <1>15, <1>16, <1>21, <1>24 DEF CoreInv

-----------------------------------------------------------------------------
(* The database, the connection, the process *)

LEMMA CommitTimerCore == ASSUME IInv, OrderInv, CoreInv, CommitTimer PROVE CoreInv'
<1>0. Me \in Users
  BY NobodyTyped
<1>1. disk' = k.db /\ UNCHANGED <<log, sdk, posted, k, chatd>>
  BY DEF CommitTimer
<1>2. k.db.row = k.known /\ In(k.priv) \ {Me} = In(k.db.priv) \ {Me}
  BY DEF IInv, RoomsInv, RoomInv
<1>3. Last_' = Last_ /\ Known' = Known /\ (Due' <=> Due)
  BY <1>1 DEF Last_, Known, Due, DueFrom, Tells, Numbers
<1>4. LogInv'
  BY <1>1, <1>2, <1>3 DEF CoreInv, LogInv
<1>5. TrueInv' /\ StaleInv' /\ PhaseInv'
  BY <1>1 DEF CoreInv, TrueInv, StaleInv, PhaseInv, TrueAnswer, Deletes, DueFrom, Tells,
              Numbers, Stale, Known
<1>6. LastWordInv' /\ FindsUs(chatd.down, k.mUsers)'
  BY <1>1, <1>3 DEF CoreInv, LastWordInv
<1>7. HeardInv'
  BY <1>1, <1>3 DEF CoreInv, HeardInv, Heard
<1>8. ~Due' => OnlyLeaving(k.priv)'
  BY <1>1, <1>3 DEF CoreInv, ExtraInv, OnlyLeaving, Leaving, WeAreIn, In
<1>9. disk'.scsn = Len(log') => OnlyLeaving(disk.priv)'
  <2> SUFFICES ASSUME k.db.scsn = Len(log) PROVE OnlyLeaving(disk.priv)'
    BY <1>1
  <2>1. OnlyLeaving(k.priv)'
    BY <1>3, <1>8, RowsNotDue
  <2>2. QED
    BY <1>0, <1>1, <1>2, <2>1, RowsLeave DEF OnlyLeaving, WeAreIn, In
<1>10. ExtraInv'
  BY <1>8, <1>9 DEF ExtraInv
<1>11. QED
  BY <1>4, <1>5, <1>6, <1>7, <1>10 DEF CoreInv

LEMMA LinkUpCore == ASSUME IInv, OrderInv, CoreInv, LinkUp PROVE CoreInv'
<1>1. SameRoom(k, k') /\ \A joined, down : Phase(k, joined, down) => Phase(k', joined, down)
  BY LinkUpSame
<1>2. UNCHANGED <<log, sdk, posted, disk, chatd>>
  BY DEF LinkUp
<1>3. /\ k'.known = k.known /\ k'.db = k.db /\ k'.priv = k.priv /\ k'.mUsers = k.mUsers
      /\ k'.mOwnPrivilege = k.mOwnPrivilege
  BY <1>1 DEF SameRoom
<1>4. Last_' = Last_ /\ Known' = Known /\ (Due' <=> Due)
  BY <1>2, <1>3 DEF Last_, Known, Due, DueFrom, Tells, Numbers
<1>5. LogInv'
  BY <1>2, <1>3, <1>4 DEF CoreInv, LogInv
<1>6. TrueInv' /\ StaleInv'
  BY <1>2, <1>3 DEF CoreInv, TrueInv, StaleInv, TrueAnswer, Deletes, DueFrom, Tells,
              Numbers, Stale, Known
<1>7. PhaseInv' /\ LastWordInv' /\ FindsUs(chatd.down, k.mUsers)'
  BY <1>1, <1>2, <1>3, <1>4 DEF CoreInv, PhaseInv, LastWordInv
<1>8. HeardInv'
  BY <1>2, <1>3, <1>4 DEF CoreInv, HeardInv, Heard
<1>9. ExtraInv'
  BY <1>2, <1>3, <1>4 DEF CoreInv, ExtraInv, OnlyLeaving, Leaving, WeAreIn, In
<1>10. QED
  BY <1>5, <1>6, <1>7, <1>8, <1>9 DEF CoreInv

\* Whoever was leaving is noted when the connection ends.
LEMMA CutLeaving ==
    ASSUME IInv, chatd' = Cut, NEW u, Leaving(u)
    PROVE  Leaving(u)'
<1> DEFINE lost == {cmd.user : cmd \in {d \in ToSet(chatd.down) : d.op = "JOIN"
                                                                 /\ d.priv = NotPresent}}
<1>1. chatd'.unheard = chatd.unheard \cup lost \cup (IF Me \in lost THEN k.mUsers ELSE {})
  BY DEF Cut
<1>2. ASSUME NEW i \in DOMAIN chatd.down, NEW w, Removes(chatd.down[i], w)
      PROVE  w \in lost
  BY <1>2 DEF Removes, ToSet
<1>. HIDE DEF lost
<1>3. u \in chatd'.unheard
  <2>1. CASE u \in chatd.unheard
    BY <1>1, <2>1
  <2>2. CASE \E i \in DOMAIN chatd.down : Removes(chatd.down[i], u)
    BY <1>1, <1>2, <2>2
  <2>3. CASE \E i \in DOMAIN chatd.down : Removes(chatd.down[i], Me) /\ u \in k.mUsers
    BY <1>1, <1>2, <2>3
  <2>4. QED
    BY <2>1, <2>2, <2>3 DEF Leaving
<1>4. QED
  BY <1>3 DEF Leaving

\* Without a connection chatd says nothing.
LEMMA CutSilent ==
    ASSUME chatd' = Cut
    PROVE  /\ chatd'.joined = FALSE /\ chatd'.down = <<>>
           /\ LastWordInv' /\ HeardInv' /\ FindsUs(chatd.down, k.mUsers)'
<1>1. chatd'.joined = FALSE /\ chatd'.down = <<>>
  BY DEF Cut
<1>2. DOMAIN chatd'.down = {}
  BY <1>1
<1>3. LastWordInv' /\ FindsUs(chatd.down, k.mUsers)'
  BY <1>2 DEF LastWordInv, LastWord, Undecided, FindsUs
<1>4. HeardInv'
  BY <1>1 DEF HeardInv
<1>5. QED
  BY <1>1, <1>3, <1>4

LEMMA LinkDownCore == ASSUME IInv, OrderInv, CoreInv, LinkDown PROVE CoreInv'
<1>1. /\ SameRoom(k, k') /\ k'.link = "down" /\ k'.asked = FALSE /\ k'.online = "offline"
      /\ k'.disabled = k.disabled
  BY LinkDownSame
<1>2. UNCHANGED <<log, sdk, posted, disk>> /\ chatd' = Cut /\ k.link = "up"
  BY DEF LinkDown
<1>3. /\ k'.known = k.known /\ k'.db = k.db /\ k'.priv = k.priv /\ k'.connected = k.connected
  BY <1>1 DEF SameRoom
<1>4. Last_' = Last_ /\ Known' = Known /\ (Due' <=> Due)
  BY <1>2, <1>3 DEF Last_, Known, Due, DueFrom, Tells, Numbers
<1>5. LogInv'
  BY <1>2, <1>3, <1>4 DEF CoreInv, LogInv
<1>6. TrueInv' /\ StaleInv'
  BY <1>2, <1>3 DEF CoreInv, TrueInv, StaleInv, TrueAnswer, Deletes, DueFrom, Tells,
              Numbers, Stale, Known
<1>7. /\ chatd'.joined = FALSE /\ chatd'.down = <<>>
      /\ LastWordInv' /\ HeardInv' /\ FindsUs(chatd.down, k.mUsers)'
  BY <1>2, CutSilent
<1>8. PhaseInv'
  <2>1. k.connected = TRUE
    BY <1>2 DEF CoreInv, PhaseInv, Phase, IInv, TypeOK, Room
  <2>2. QED
    BY <1>1, <1>3, <1>7, <2>1 DEF PhaseInv, Phase
<1>9. ExtraInv'
  <2>1. \A u : Leaving(u) => Leaving(u)'
    BY <1>2, CutLeaving
  <2>2. QED
    BY <1>2, <1>3, <1>4, <2>1 DEF CoreInv, ExtraInv, OnlyLeaving, WeAreIn, In
<1>10. QED
  BY <1>5, <1>6, <1>7, <1>8, <1>9 DEF CoreInv

\* The client as it starts from these rows.
Begins(d, db) ==
    /\ d.known = db.row /\ d.priv = db.priv /\ d.db = db /\ d.online = "offline"
    /\ d.asked = FALSE /\ d.link = "new"

LEMMA StartedBegins ==
    ASSUME NEW db \in Rows, RowsInv(db), NEW s \in InitStates
    PROVE  Begins(Started(db, s), db)
<1> DEFINE c == [mInitState |-> s, connected |-> FALSE, link |-> "new",
                 asked |-> FALSE, known |-> FALSE, priv |-> Nobody, online |-> "offline",
                 disabled |-> FALSE, mOwnPrivilege |-> Invalid, mUsers |-> {},
                 commitEach |-> FALSE, db |-> db]
           m == In(db.priv) \cup {Me}
           d == [c EXCEPT !.known = TRUE, !.priv = db.priv, !.mUsers = m]
<1>1. Started(db, s) = IF ~db.row THEN c ELSE d
  BY DEF Started, LoadedRoom
<1>2. db.row \in BOOLEAN
  BY DEF Rows
<1>3. /\ c.known = FALSE /\ c.priv = Nobody /\ c.db = db /\ c.online = "offline"
      /\ c.asked = FALSE /\ c.link = "new"
  OBVIOUS
<1>4. /\ d.known = TRUE /\ d.priv = db.priv /\ d.db = db /\ d.online = "offline"
      /\ d.asked = FALSE /\ d.link = "new"
  OBVIOUS
<1>. HIDE DEF c, d, m
<1>5. QED
  BY <1>1, <1>2, <1>3, <1>4 DEF Begins, RowsInv

LEMMA RestartCore == ASSUME IInv, OrderInv, CoreInv, Restart PROVE CoreInv'
<1>1. /\ k' = Started(disk, IF disk.scsn = 0 THEN "ErrNoCache" ELSE "HasOfflineSession")
      /\ disk' = disk /\ log' = log /\ posted' = <<>> /\ chatd' = Cut
      /\ sdk'.state = "off" /\ sdk'.at = sdk.disk /\ sdk'.request = NoRequest
  BY RestartSays
<1>2. Begins(k', disk)
  <2>1. disk \in Rows /\ RowsInv(disk)
    BY DEF IInv, TypeOK, RoomsInv
  <2>2. "ErrNoCache" \in InitStates /\ "HasOfflineSession" \in InitStates
    BY DEF InitStates
  <2>3. QED
    BY <1>1, <2>1, <2>2, StartedBegins
<1>3. Last_' = Last_ /\ Known' = Known /\ Len(log') = Len(log) /\ DOMAIN posted' = {}
  BY <1>1 DEF Last_, Known
<1>4. LogInv'
  BY <1>1, <1>2, <1>3 DEF CoreInv, LogInv, Begins
<1>5. TrueInv' /\ StaleInv'
  BY <1>1, <1>3 DEF TrueInv, StaleInv
<1>6. /\ chatd'.joined = FALSE /\ chatd'.down = <<>>
      /\ LastWordInv' /\ HeardInv' /\ FindsUs(chatd.down, k.mUsers)'
  BY <1>1, CutSilent
<1>7. PhaseInv'
  BY <1>2, <1>6 DEF PhaseInv, Phase, Begins
<1>8. ExtraInv'
  <2>1. disk.scsn = Len(log) => OnlyLeaving(disk.priv)
    BY DEF CoreInv, ExtraInv
  <2>2. \A u : Leaving(u) => Leaving(u)'
    BY <1>1, CutLeaving
  <2>3. disk.scsn = Len(log) => \A u \in In(disk.priv) \ In(Last_.priv) : WeAreIn => Leaving(u)'
    BY <2>1, <2>2 DEF OnlyLeaving
  <2>4. ~Due' => disk.scsn = Len(log)
    BY <1>1, <1>2, <1>3 DEF Due, Begins
  <2>5. QED
    BY <1>1, <1>2, <1>3, <2>3, <2>4 DEF ExtraInv, OnlyLeaving, WeAreIn, In, Begins
<1>9. QED
  BY <1>4, <1>5, <1>6, <1>7, <1>8 DEF CoreInv

LEMMA InitCore == Init => CoreInv
<1> SUFFICES ASSUME Init PROVE CoreInv
  OBVIOUS
<1>1. /\ Len(log) = 1 /\ posted = <<>> /\ disk = NoRows
      /\ k = Started(NoRows, "WaitingNewSession")
      /\ chatd.joined = FALSE /\ chatd.down = <<>>
      /\ sdk.at = 0 /\ sdk.request = NoRequest
  BY DEF Init
<1>2. Begins(k, NoRows)
  <2>1. NoRows \in Rows /\ RowsInv(NoRows) /\ "WaitingNewSession" \in InitStates
    BY NobodyTyped DEF NoRows, Rows, RowsInv, InitStates
  <2>2. QED
    BY <1>1, <2>1, StartedBegins
<1>3. k.known = FALSE /\ disk.row = FALSE /\ disk.scsn = 0
  BY <1>1, <1>2 DEF Begins, NoRows
<1>4. Known = {1} /\ DOMAIN posted = {} /\ DOMAIN chatd.down = {} /\ Len(log) # 0
  BY <1>1 DEF Known
<1>5. LogInv /\ TrueInv /\ StaleInv
  BY <1>1, <1>3, <1>4 DEF LogInv, TrueInv, StaleInv
<1>6. PhaseInv
  BY <1>1, <1>2 DEF PhaseInv, Phase, Begins
<1>7. LastWordInv /\ FindsUs(chatd.down, k.mUsers) /\ HeardInv
  BY <1>1, <1>4 DEF LastWordInv, LastWord, Undecided, FindsUs, HeardInv
<1>8. ExtraInv
  BY <1>1, <1>3, <1>4 DEF ExtraInv, Due
<1>9. QED
  BY <1>5, <1>6, <1>7, <1>8 DEF CoreInv

-----------------------------------------------------------------------------
(* What chatd says reaches the chat *)

\* how far the chat is with its JOIN is not touched
Stands(c, d) ==
    /\ d \in Room
    /\ d.known = c.known /\ d.connected = c.connected /\ d.link = c.link /\ d.asked = c.asked
    /\ d.online = c.online /\ d.commitEach = c.commitEach

JoinDone(c, d, u, p) ==
    /\ Stands(c, d) /\ d.disabled = c.disabled
    /\ d.mUsers = c.mUsers \cup {u}
    /\ d.mOwnPrivilege = IF u = Me THEN p ELSE c.mOwnPrivilege
    /\ d.priv = [c.priv EXCEPT ![u] = p]

LeaveDone(c, d, u) ==
    /\ Stands(c, d) /\ d.disabled = c.disabled
    /\ d.mUsers = c.mUsers \ {u} /\ d.mOwnPrivilege = c.mOwnPrivilege
    /\ \A w \in Users : d.priv[w] = IF w = u THEN NotPresent ELSE c.priv[w]

RemovalDone(c, d) ==
    /\ Stands(c, d) /\ d.disabled = FALSE
    /\ d.mUsers = {} /\ d.mOwnPrivilege = NotPresent
    /\ \A w \in Users : d.priv[w] = IF w \in c.mUsers THEN NotPresent ELSE c.priv[w]

LEMMA JoinSays ==
    ASSUME NEW c \in Room, NEW u \in Users, NEW p \in Levels, c.online # "offline"
    PROVE  JoinDone(c, ChatOnUserJoin(c, u, p), u, p)
<1> DEFINE o == IF u = Me THEN p ELSE c.mOwnPrivilege
           m == c.mUsers \cup {u}
           b == [c EXCEPT !.mUsers = m, !.mOwnPrivilege = o]
           d == RoomOnUserJoin(b, u, p)
<1>1. ChatOnUserJoin(c, u, p) = d
  BY DEF ChatOnUserJoin
<1>2. o \in Levels \cup {Invalid} /\ m \in SUBSET Users
  BY DEF Room
<1>3. o = IF u = Me THEN p ELSE c.mOwnPrivilege
  OBVIOUS
<1>. HIDE DEF o, m
<1>4. /\ b \in Room /\ b.priv = c.priv /\ b.mUsers = m /\ b.mOwnPrivilege = o
      /\ b.known = c.known /\ b.connected = c.connected /\ b.link = c.link /\ b.asked = c.asked
      /\ b.online = c.online /\ b.disabled = c.disabled /\ b.commitEach = c.commitEach
  BY <1>2 DEF Room
<1>. HIDE DEF b
<1>5. Sets(b, d, u, p)
  BY <1>4, RoomMethodsSet
<1>. HIDE DEF d
<1>6. QED
  BY <1>1, <1>3, <1>4, <1>5 DEF m, Sets, SameChat, JoinDone, Stands

LEMMA LeaveSays ==
    ASSUME NEW c \in Room, NEW u \in Users, u # Me
    PROVE  LeaveDone(c, ChatOnUserLeave(c, u), u)
<1> DEFINE m == c.mUsers \ {u}
           b == [c EXCEPT !.mUsers = m]
           d == RoomOnUsersLeave(b, {u})
<1>1. ChatOnUserLeave(c, u) = d
  BY DEF ChatOnUserLeave
<1>2. m \in SUBSET Users /\ {u} \in SUBSET Users
  BY DEF Room
<1>. HIDE DEF m
<1>4. /\ b \in Room /\ b.priv = c.priv /\ b.mUsers = m /\ b.mOwnPrivilege = c.mOwnPrivilege
      /\ b.known = c.known /\ b.connected = c.connected /\ b.link = c.link /\ b.asked = c.asked
      /\ b.online = c.online /\ b.disabled = c.disabled /\ b.commitEach = c.commitEach
  BY <1>2 DEF Room
<1>. HIDE DEF b
<1>5. /\ SameChat(b, d)
      /\ \A w \in Users : d.priv[w] = IF w \in {u} THEN NotPresent ELSE b.priv[w]
  BY <1>2, <1>4, RoomOnUsersLeaveSays
<1>. HIDE DEF d
<1>6. QED
  BY <1>1, <1>4, <1>5 DEF m, SameChat, LeaveDone, Stands

LEMMA RemovalSays ==
    ASSUME NEW c \in Room
    PROVE  RemovalDone(c, ChatOnUserLeave(c, Me))
<1> DEFINE a == Disable(c, FALSE)
           b == [a EXCEPT !.mOwnPrivilege = NotPresent, !.mUsers = {}]
           d == RoomOnUsersLeave(b, c.mUsers)
<1>1. ChatOnUserLeave(c, Me) = d
  BY DEF ChatOnUserLeave
<1>2. c.mUsers \in SUBSET Users /\ NotPresent \in Levels
  BY NobodyTyped DEF Room
<1>3. /\ SameRoom(c, a) /\ a.asked = c.asked /\ a.link = c.link /\ a.disabled = FALSE
      /\ a.commitEach = c.commitEach /\ a.online = c.online
  BY DisableSame
<1>. HIDE DEF a
<1>4. /\ b \in Room /\ b.priv = a.priv /\ b.mUsers = {} /\ b.mOwnPrivilege = NotPresent
      /\ b.known = a.known /\ b.connected = a.connected /\ b.link = a.link /\ b.asked = a.asked
      /\ b.online = a.online /\ b.disabled = a.disabled /\ b.commitEach = a.commitEach
  BY <1>2, <1>3 DEF Room, SameRoom
<1>. HIDE DEF b
<1>5. /\ SameChat(b, d)
      /\ \A w \in Users : d.priv[w] = IF w \in c.mUsers THEN NotPresent ELSE b.priv[w]
  BY <1>2, <1>4, RoomOnUsersLeaveSays
<1>. HIDE DEF d
<1>6. QED
  BY <1>1, <1>3, <1>4, <1>5 DEF SameRoom, SameChat, RemovalDone, Stands

\* A command is taken from what chatd says.
LEMMA TailParts ==
    ASSUME NEW s \in Seq(Command), s # <<>>
    PROVE  /\ Head(s) = s[1] /\ 1 \in DOMAIN s /\ s[1] \in Command
           /\ \A i \in DOMAIN Tail(s) : /\ i \in Nat /\ i >= 1 /\ i + 1 \in DOMAIN s
                                        /\ Tail(s)[i] = s[i + 1]
           /\ \A i \in DOMAIN s : /\ i \in Nat /\ i >= 1
                                  /\ i = 1 \/ (i - 1 \in DOMAIN Tail(s) /\ i > 1
                                               /\ Tail(s)[i - 1] = s[i])
OBVIOUS

LEMMA TailSays ==
    ASSUME NEW s \in Seq(Command), s # <<>>
    PROVE  /\ AllJoins(s) => AllJoins(Tail(s))
           /\ Listing(s) /\ Head(s).op = "JOIN" => Listing(Tail(s)) /\ Head(s).priv # NotPresent
           /\ Listing(s) /\ Head(s).op # "JOIN" => AllJoins(Tail(s)) /\ Head(s).op = "HISTDONE"
           /\ \A u, priv : LastWord(s, priv, u) => LastWord(Tail(s), priv, u)
           /\ \A u : Undecided(Tail(s), u) => Undecided(s, u) \/ Decides(Head(s), u)
           /\ \A u, priv : Undecided(Tail(s), u) /\ Decides(Head(s), u) /\ LastWord(s, priv, u)
                               => Right(priv, u, Head(s).priv)
<1> DEFINE t == Tail(s)
<1>0. /\ Head(s) = s[1] /\ 1 \in DOMAIN s /\ s[1] \in Command
      /\ \A i \in DOMAIN t : i \in Nat /\ i >= 1 /\ i + 1 \in DOMAIN s /\ t[i] = s[i + 1]
      /\ \A i \in DOMAIN s : /\ i \in Nat /\ i >= 1
                             /\ i = 1 \/ (i - 1 \in DOMAIN t /\ i > 1 /\ t[i - 1] = s[i])
  BY TailParts
<1>. HIDE DEF t
<1>1. AllJoins(s) => AllJoins(t)
  BY <1>0 DEF AllJoins
<1>2. ASSUME Listing(s)
      PROVE  /\ Head(s).op = "JOIN" => Listing(t) /\ Head(s).priv # NotPresent
             /\ Head(s).op # "JOIN" => AllJoins(t) /\ Head(s).op = "HISTDONE"
  <2>1. PICK h \in DOMAIN s : /\ s[h].op = "HISTDONE"
                              /\ \A i \in DOMAIN s : i # h => s[i].op = "JOIN"
                              /\ \A i \in DOMAIN s : i < h => s[i].priv # NotPresent
    BY <1>2 DEF Listing
  <2>2. CASE h = 1
    <3>1. \A i \in DOMAIN t : t[i].op = "JOIN"
      <4> SUFFICES ASSUME NEW i \in DOMAIN t PROVE t[i].op = "JOIN"
        OBVIOUS
      <4>1. i + 1 \in DOMAIN s /\ t[i] = s[i + 1] /\ i + 1 # 1
        BY <1>0
      <4>2. QED
        BY <2>1, <2>2, <4>1
    <3>2. QED
      BY <1>0, <2>1, <2>2, <3>1 DEF AllJoins
  <2>3. CASE h # 1
    <3>1. h - 1 \in DOMAIN t /\ t[h - 1] = s[h] /\ h \in Nat /\ h > 1
      BY <1>0, <2>3
    <3>2. s[1].op = "JOIN" /\ s[1].priv # NotPresent
      BY <1>0, <2>1, <2>3, <3>1
    <3>3. \A i \in DOMAIN t : /\ i # h - 1 => t[i].op = "JOIN"
                              /\ i < h - 1 => t[i].priv # NotPresent
      <4> SUFFICES ASSUME NEW i \in DOMAIN t
                   PROVE  /\ i # h - 1 => t[i].op = "JOIN"
                          /\ i < h - 1 => t[i].priv # NotPresent
        OBVIOUS
      <4>1. i \in Nat /\ i + 1 \in DOMAIN s /\ t[i] = s[i + 1]
        BY <1>0
      <4>2. (i # h - 1 => i + 1 # h) /\ (i < h - 1 => i + 1 < h)
        BY <3>1, <4>1
      <4>3. QED
        BY <2>1, <4>1, <4>2
    <3>4. Listing(t)
      BY <2>1, <3>1, <3>3 DEF Listing
    <3>5. QED
      BY <1>0, <3>2, <3>4
  <2>4. QED
    BY <2>2, <2>3
<1>3. ASSUME NEW u, NEW priv, LastWord(s, priv, u) PROVE LastWord(t, priv, u)
  <2>1. CASE Undecided(s, u)
    BY <1>0, <2>1 DEF Undecided, LastWord
  <2>2. CASE ~Undecided(s, u)
    <3>1. PICK i \in DOMAIN s : /\ Decides(s[i], u)
                                /\ \A j \in DOMAIN s : i <= j /\ Decides(s[j], u) =>
                                                           Right(priv, u, s[j].priv)
      BY <1>3, <2>2 DEF LastWord
    <3>2. \A j \in DOMAIN t : i <= j + 1 /\ Decides(t[j], u) => Right(priv, u, t[j].priv)
      BY <1>0, <3>1
    <3>3. CASE i = 1
      <4>1. \A j \in DOMAIN t : Decides(t[j], u) => Right(priv, u, t[j].priv)
        BY <1>0, <3>2, <3>3
      <4>2. QED
        BY <4>1 DEF LastWord, Undecided
    <3>4. CASE i # 1
      <4>1. i - 1 \in DOMAIN t /\ Decides(t[i - 1], u) /\ i \in Nat
        BY <1>0, <3>1, <3>4
      <4>2. \A j \in DOMAIN t : i - 1 <= j => i <= j + 1
        BY <1>0, <4>1
      <4>3. \A j \in DOMAIN t : i - 1 <= j /\ Decides(t[j], u) => Right(priv, u, t[j].priv)
        BY <3>2, <4>2
      <4>4. QED
        BY <4>1, <4>3 DEF LastWord
    <3>5. QED
      BY <3>3, <3>4
  <2>3. QED
    BY <2>1, <2>2
<1>4. ASSUME NEW u, Undecided(t, u) PROVE Undecided(s, u) \/ Decides(Head(s), u)
  <2>1. \A i \in DOMAIN s : i # 1 => ~Decides(s[i], u)
    BY <1>0, <1>4 DEF Undecided
  <2>2. QED
    BY <1>0, <2>1 DEF Undecided
<1>5. ASSUME NEW u, NEW priv, Undecided(t, u), Decides(Head(s), u), LastWord(s, priv, u)
      PROVE  Right(priv, u, Head(s).priv)
  <2>1. \A i \in DOMAIN s : i # 1 => ~Decides(s[i], u)
    BY <1>0, <1>5 DEF Undecided
  <2>2. ~Undecided(s, u)
    BY <1>0, <1>5 DEF Undecided
  <2>3. PICK i \in DOMAIN s : /\ Decides(s[i], u)
                              /\ \A j \in DOMAIN s : i <= j /\ Decides(s[j], u) =>
                                                         Right(priv, u, s[j].priv)
    BY <1>5, <2>2 DEF LastWord
  <2>4. i = 1 /\ i <= 1
    BY <1>0, <2>1, <2>3
  <2>5. QED
    BY <1>0, <1>5, <2>3, <2>4
<1>6. QED
  BY <1>1, <1>2, <1>3, <1>4, <1>5 DEF t

LEMMA FindsUsTail ==
    ASSUME NEW s \in Seq(Command), s # <<>>, NEW m, NEW m2, FindsUs(s, m),
           Removes(Head(s), Me) \/ (Me \in m => Me \in m2),
           Head(s).op = "JOIN" /\ Head(s).user = Me /\ Head(s).priv # NotPresent => Me \in m2
    PROVE  FindsUs(Tail(s), m2)
<1> DEFINE t == Tail(s)
           found(i) == \/ Me \in m2 /\ \A n \in DOMAIN t : n < i => ~Removes(t[n], Me)
                       \/ \E j \in DOMAIN t :
                              /\ j < i /\ t[j].op = "JOIN" /\ t[j].user = Me
                              /\ t[j].priv # NotPresent
                              /\ \A n \in DOMAIN t : j < n /\ n < i => ~Removes(t[n], Me)
<1>0. /\ Head(s) = s[1] /\ 1 \in DOMAIN s /\ s[1] \in Command
      /\ \A i \in DOMAIN t : i \in Nat /\ i >= 1 /\ i + 1 \in DOMAIN s /\ t[i] = s[i + 1]
      /\ \A i \in DOMAIN s : /\ i \in Nat /\ i >= 1
                             /\ i = 1 \/ (i - 1 \in DOMAIN t /\ i > 1 /\ t[i - 1] = s[i])
  BY TailParts
<1>1. SUFFICES ASSUME NEW i \in DOMAIN t, Removes(t[i], Me) PROVE found(i)
  BY DEF FindsUs
<1>. HIDE DEF t
<1>2. i \in Nat /\ i >= 1 /\ i + 1 \in DOMAIN s /\ Removes(s[i + 1], Me)
  BY <1>0, <1>1
<1>3. CASE Me \in m /\ \A n \in DOMAIN s : n < i + 1 => ~Removes(s[n], Me)
  <2>1. ~Removes(Head(s), Me)
    BY <1>0, <1>2, <1>3
  <2>2. \A n \in DOMAIN t : n < i => ~Removes(t[n], Me)
    BY <1>0, <1>2, <1>3
  <2>3. QED
    BY <1>3, <2>1, <2>2
<1>4. ASSUME NEW j \in DOMAIN s, j < i + 1, s[j].op = "JOIN", s[j].user = Me,
             s[j].priv # NotPresent,
             \A n \in DOMAIN s : j < n /\ n < i + 1 => ~Removes(s[n], Me)
      PROVE  found(i)
  <2>1. \A n \in DOMAIN t : j < n + 1 /\ n < i => ~Removes(t[n], Me)
    BY <1>0, <1>2, <1>4
  <2>2. CASE j = 1
    <3>1. Me \in m2
      BY <1>0, <1>4, <2>2
    <3>2. \A n \in DOMAIN t : n < i => ~Removes(t[n], Me)
      BY <1>0, <2>1, <2>2
    <3>3. QED
      BY <3>1, <3>2
  <2>3. CASE j # 1
    <3>1. j - 1 \in DOMAIN t /\ t[j - 1] = s[j] /\ j \in Nat
      BY <1>0, <2>3
    <3>2. j - 1 < i
      BY <1>2, <1>4, <3>1
    <3>3. \A n \in DOMAIN t : j - 1 < n => j < n + 1
      BY <1>0, <3>1
    <3>4. \A n \in DOMAIN t : j - 1 < n /\ n < i => ~Removes(t[n], Me)
      BY <2>1, <3>3
    <3>5. QED
      BY <1>4, <3>1, <3>2, <3>4
  <2>4. QED
    BY <2>2, <2>3
<1>5. QED
  BY <1>2, <1>3, <1>4 DEF FindsUs

\* The chat gets a command of chatd: what is so of all of them.
Receives(cmd) ==
    /\ chatd.down \in Seq(Command) /\ chatd.down # <<>>
    /\ cmd = Head(chatd.down) /\ cmd \in Command /\ k.known
    /\ k' = Exec(k, cmd) /\ k'.known = k.known /\ k'.db.scsn = k.db.scsn
    /\ disk' = (IF k'.commitEach THEN k'.db ELSE disk)
    /\ chatd'.joined = chatd.joined /\ chatd'.unheard = chatd.unheard
    /\ chatd'.down = Tail(chatd.down)
    /\ UNCHANGED <<log, sdk, posted>>

LEMMA ReceiveReceives ==
    ASSUME IInv, CoreInv, Receive
    PROVE  Receives(Head(chatd.down))
<1>1. /\ chatd.down \in Seq(Command) /\ chatd.down # <<>> /\ Head(chatd.down) \in Command
      /\ k' = Exec(k, Head(chatd.down)) /\ Keeps(k, k')
  BY ReceiveSays
<1>2. k.known
  BY <1>1, PhaseSays
<1>3. /\ chatd'.joined = chatd.joined /\ chatd'.unheard = chatd.unheard
      /\ chatd'.down = Tail(chatd.down)
  BY DEF Receive, IInv, TypeOK
<1>4. QED
  BY <1>1, <1>2, <1>3 DEF Receives, Receive, CommitsEach, Keeps

\* What is left to show of each of them.
LEMMA ReceivedCore ==
    ASSUME IInv, IInv', OrderInv, CoreInv, NEW cmd, Receives(cmd),
           PhaseInv', FindsUs(chatd.down, k.mUsers)', HeardInv',
           ASSUME NEW u \in Users, WeAreIn, ~Due, Last_.priv[u] = NotPresent,
                  k'.priv[u] # NotPresent
           PROVE  Leaving(u)',
           ASSUME NEW u \in Users, WeAreIn, ~k'.commitEach, Leaving(u), Last_.priv[u] = NotPresent
           PROVE  Leaving(u)'
    PROVE  CoreInv'
<1>1. /\ UNCHANGED <<log, sdk, posted>> /\ k'.known = k.known /\ k'.db.scsn = k.db.scsn
      /\ disk' = (IF k'.commitEach THEN k'.db ELSE disk)
      /\ chatd.down \in Seq(Command) /\ chatd.down # <<>> /\ chatd'.down = Tail(chatd.down)
  BY DEF Receives
<1>2. Last_' = Last_ /\ Known' = Known /\ Len(log') = Len(log) /\ (Due' <=> Due)
  BY <1>1 DEF Last_, Known, Due, DueFrom, Tells, Numbers
<1>3. LogInv'
  <2>1. k'.db.row = k'.known
    BY DEF IInv, RoomsInv, RoomInv
  <2>2. disk'.row => k'.known
    BY <1>1, <2>1 DEF CoreInv, LogInv
  <2>3. QED
    BY <1>1, <1>2, <2>2 DEF CoreInv, LogInv
<1>4. TrueInv' /\ StaleInv'
  BY <1>1 DEF CoreInv, TrueInv, StaleInv, TrueAnswer, Deletes, DueFrom, Tells, Numbers,
              Stale, Known
<1>5. LastWordInv'
  <2>1. \A u \in Users : LastWord(Tail(chatd.down), Last_.priv, u)
    BY <1>1, TailSays DEF CoreInv, LastWordInv
  <2>2. QED
    BY <1>1, <1>2, <2>1 DEF LastWordInv
<1>6. ~Due' => OnlyLeaving(k.priv)'
  BY <1>1, <1>2 DEF OnlyLeaving, WeAreIn, In
<1>7. disk'.scsn = Len(log') => OnlyLeaving(disk.priv)'
  <2>1. CASE disk' = k'.db
    <3>1. k'.db.scsn = Len(log) => ~Due'
      BY <1>1, <1>2, RowsNotDue
    <3>2. In(k'.priv) \ {Me} = In(disk'.priv) \ {Me}
      BY <2>1 DEF IInv, RoomsInv, RoomInv, In
    <3>3. Me \in Users
      BY NobodyTyped
    <3>4. QED
      BY <1>1, <1>2, <1>6, <2>1, <3>1, <3>2, <3>3, RowsLeave DEF OnlyLeaving, WeAreIn, In
  <2>2. CASE disk' = disk /\ ~k'.commitEach
    BY <1>1, <1>2, <2>2 DEF CoreInv, ExtraInv, OnlyLeaving, WeAreIn, In
  <2>3. QED
    BY <1>1, <2>1, <2>2
<1>8. ExtraInv'
  BY <1>6, <1>7 DEF ExtraInv
<1>9. QED
  BY <1>3, <1>4, <1>5, <1>8 DEF CoreInv

\* A JOIN of somebody who is in the chat.
LEMMA JoinCore ==
    ASSUME IInv, IInv', OrderInv, CoreInv, NEW cmd, Receives(cmd),
           cmd.op = "JOIN", cmd.priv # NotPresent
    PROVE  CoreInv'
<1> DEFINE s == chatd.down
           t == Tail(s)
           x == cmd.user
           p == cmd.priv
<1>0. /\ k \in Room /\ Last_.priv \in [Users -> Levels] /\ Me \in Users
      /\ k.priv \in [Users -> Levels]
  BY LastTyped, NobodyTyped DEF IInv, TypeOK, Room
<1>1. /\ s \in Seq(Command) /\ s # <<>> /\ cmd = Head(s) /\ x \in Users /\ p \in Levels
      /\ chatd'.joined = chatd.joined /\ chatd'.unheard = chatd.unheard /\ chatd'.down = t
      /\ UNCHANGED <<log, sdk, posted>> /\ k'.db.scsn = k.db.scsn
  BY DEF Receives, Command
<1>. HIDE DEF s, t
<1>2. Phase(k, chatd.joined, s)
  BY DEF CoreInv, PhaseInv, s
<1>3. \/ k.online = "joining" /\ chatd.joined /\ Listing(s)
      \/ k.online = "online" /\ chatd.joined /\ AllJoins(s)
  <2>1. s # <<[op |-> "REJECT"]>>
    <3>1. Head(<<[op |-> "REJECT"]>>).op = "REJECT"
      OBVIOUS
    <3>2. QED
      BY <1>1, <3>1
  <2>2. QED
    BY <1>0, <1>1, <1>2, <2>1 DEF Phase, Room
<1>4. k' = ChatOnUserJoin(k, x, p)
  BY DEF Receives, Exec
<1>5. JoinDone(k, k', x, p)
  BY <1>0, <1>1, <1>3, <1>4, JoinSays
<1>. HIDE DEF p
<1>6. PhaseInv'
  <2>1. /\ AllJoins(s) => AllJoins(t)
        /\ Listing(s) => Listing(t)
    BY <1>1, TailSays DEF t
  <2>2. Phase(k', chatd.joined, t)
    BY <1>2, <1>3, <1>5, <2>1 DEF Phase, JoinDone, Stands
  <2>3. QED
    BY <1>1, <2>2 DEF PhaseInv
<1>7. FindsUs(chatd.down, k.mUsers)'
  <2>1. FindsUs(s, k.mUsers)
    BY DEF CoreInv, s
  <2>2. FindsUs(t, k'.mUsers)
    BY <1>1, <1>5, <2>1, FindsUsTail DEF t, JoinDone
  <2>3. QED
    BY <1>1, <2>2
<1>8. Last_' = Last_ /\ (Due' <=> Due)
  BY <1>1 DEF Last_, Due, DueFrom, Tells, Numbers
<1>9. \A u \in Users : k'.priv[u] = IF u = x THEN p ELSE k.priv[u]
  BY <1>0, <1>1, <1>5 DEF JoinDone
<1>10. \A u \in Users : Decides(cmd, u) <=> u = x
  BY DEF Decides, Removes
<1>11. /\ \A u \in Users : Undecided(t, u) => Undecided(s, u) \/ Decides(cmd, u)
       /\ \A u \in Users : Undecided(t, u) /\ Decides(cmd, u) => Right(Last_.priv, u, p)
  BY <1>1, TailSays DEF t, p, CoreInv, LastWordInv, s
<1>12. HeardInv'
  <2> SUFFICES ASSUME chatd.joined, NEW u \in Users, Undecided(t, u) PROVE Heard(u)'
    BY <1>1 DEF HeardInv
  <2>1. CASE u = x
    <3>1. Right(Last_.priv, x, p)
      BY <1>10, <1>11, <2>1
    <3>2. Last_.priv[Me] # NotPresent /\ p = Last_.priv[x]
      BY <3>1 DEF Right, p
    <3>3. k'.priv[x] = p /\ x \in k'.mUsers /\ (x = Me => k'.mOwnPrivilege = p)
      BY <1>5, <1>9, <2>1 DEF JoinDone
    <3>4. QED
      BY <1>8, <2>1, <3>2, <3>3 DEF Heard
  <2>2. CASE u # x
    <3>1. Heard(u)
      BY <1>10, <1>11, <2>2 DEF CoreInv, HeardInv, s
    <3>2. /\ k'.priv[u] = k.priv[u] /\ (u \in k.mUsers => u \in k'.mUsers)
          /\ (u = Me => k'.mOwnPrivilege = k.mOwnPrivilege)
      BY <1>5, <1>9, <2>2 DEF JoinDone
    <3>3. QED
      BY <1>8, <3>1, <3>2 DEF Heard
  <2>3. QED
    BY <2>1, <2>2
<1>13. /\ 1 \in DOMAIN s /\ cmd = s[1]
       /\ \A i \in DOMAIN s : i = 1 \/ (i - 1 \in DOMAIN t /\ t[i - 1] = s[i])
  BY <1>1, TailParts DEF t
<1>14. ~Removes(cmd, Me) /\ \A u : ~Removes(cmd, u)
  BY DEF Removes
<1>15. ASSUME NEW u \in Users, Leaving(u) PROVE Leaving(u)'
  <2>1. CASE u \in chatd.unheard
    BY <1>1, <2>1 DEF Leaving
  <2>2. CASE \E i \in DOMAIN s : Removes(s[i], u) \/ (Removes(s[i], Me) /\ u \in k.mUsers)
    <3>1. PICK i \in DOMAIN s : Removes(s[i], u) \/ (Removes(s[i], Me) /\ u \in k.mUsers)
      BY <2>2
    <3>2. i - 1 \in DOMAIN t /\ t[i - 1] = s[i]
      BY <1>13, <1>14, <3>1
    <3>3. Removes(t[i - 1], u) \/ (Removes(t[i - 1], Me) /\ u \in k'.mUsers)
      BY <1>5, <3>1, <3>2 DEF JoinDone
    <3>4. QED
      BY <1>1, <3>2, <3>3 DEF Leaving, Removes
  <2>3. QED
    BY <1>15, <2>1, <2>2 DEF Leaving, s
<1>16. ASSUME NEW u \in Users, WeAreIn, ~Due, Last_.priv[u] = NotPresent,
              k'.priv[u] # NotPresent
       PROVE  Leaving(u)'
  <2>1. CASE u # x
    <3>1. k.priv[u] # NotPresent
      BY <1>9, <1>16, <2>1
    <3>2. Leaving(u)
      BY <1>16, <3>1 DEF CoreInv, ExtraInv, OnlyLeaving, In
    <3>3. QED
      BY <1>15, <3>2
  <2>2. CASE u = x
    <3>1. Last_.priv[Me] # NotPresent
      BY <1>16 DEF WeAreIn
    <3>2. LastWord(s, Last_.priv, u)
      BY DEF CoreInv, LastWordInv, s
    <3>3. Decides(s[1], u)
      BY <1>10, <1>13, <2>2
    <3>4. PICK i \in DOMAIN s : /\ Decides(s[i], u)
                                /\ \A j \in DOMAIN s : i <= j /\ Decides(s[j], u) =>
                                                           Right(Last_.priv, u, s[j].priv)
      BY <1>13, <3>2, <3>3 DEF LastWord, Undecided
    <3>5. i <= i
      BY <1>1
    <3>6. Right(Last_.priv, u, s[i].priv)
      BY <3>4, <3>5
    <3>7. s[i].priv = NotPresent
      BY <1>16, <3>1, <3>6 DEF Right
    <3>8. i - 1 \in DOMAIN t /\ t[i - 1] = s[i]
      BY <1>13, <3>7 DEF p
    <3>9. Removes(t[i - 1], u) \/ Removes(t[i - 1], Me)
      BY <3>4, <3>7, <3>8 DEF Decides, Removes
    <3>10. u \in k'.mUsers
      BY <1>5, <2>2 DEF JoinDone
    <3>11. QED
      BY <1>1, <3>8, <3>9, <3>10 DEF Leaving, Removes
  <2>3. QED
    BY <2>1, <2>2
<1>17. QED
  BY <1>6, <1>7, <1>12, <1>15, <1>16, ReceivedCore, ZenonT(30)

\* A removal: chatd has listed the users before, so that the chat is online.
LEMMA RemovalOnline ==
    ASSUME IInv, CoreInv, NEW cmd, Receives(cmd), cmd.op = "JOIN", cmd.priv = NotPresent
    PROVE  /\ chatd.joined /\ AllJoins(chatd.down) /\ AllJoins(Tail(chatd.down))
           /\ k.online = "online" /\ ~k.asked /\ k.commitEach /\ ~k.disabled /\ k.link = "up"
           /\ k.connected
<1>1. /\ chatd.down \in Seq(Command) /\ chatd.down # <<>> /\ cmd = Head(chatd.down)
      /\ k.known /\ k \in Room
  BY DEF Receives, IInv, TypeOK
<1>2. Phase(k, chatd.joined, chatd.down)
  BY DEF CoreInv, PhaseInv
<1>3. chatd.down # <<[op |-> "REJECT"]>>
  <2>1. Head(<<[op |-> "REJECT"]>>).op = "REJECT"
    OBVIOUS
  <2>2. QED
    BY <1>1, <2>1
<1>4. ~Listing(chatd.down)
  BY <1>1, TailSays
<1>5. k.online = "online"
  BY <1>1, <1>2, <1>3, <1>4 DEF Phase, Room
<1>6. k.connected /\ k.link = "up" /\ ~k.disabled
  BY <1>1, <1>2, <1>5 DEF Phase, Room
<1>7. AllJoins(Tail(chatd.down))
  BY <1>1, <1>2, <1>5, TailSays DEF Phase
<1>8. QED
  BY <1>2, <1>5, <1>6, <1>7 DEF Phase

\* A JOIN that says that another user is out.
LEMMA LeaveCore ==
    ASSUME IInv, IInv', OrderInv, CoreInv, NEW cmd, Receives(cmd),
           cmd.op = "JOIN", cmd.priv = NotPresent, cmd.user # Me
    PROVE  CoreInv'
<1> DEFINE s == chatd.down
           t == Tail(s)
           x == cmd.user
<1>0. /\ k \in Room /\ Me \in Users /\ k.priv \in [Users -> Levels]
  BY NobodyTyped DEF IInv, TypeOK, Room
<1>1. /\ s \in Seq(Command) /\ s # <<>> /\ cmd = Head(s) /\ x \in Users
      /\ chatd'.joined = chatd.joined /\ chatd'.unheard = chatd.unheard /\ chatd'.down = t
      /\ UNCHANGED <<log, sdk, posted>> /\ k'.db.scsn = k.db.scsn
  BY DEF Receives, Command
<1>2. /\ chatd.joined /\ AllJoins(t) /\ k.online = "online" /\ ~k.asked /\ k.commitEach
      /\ ~k.disabled /\ k.link = "up" /\ k.connected
  BY RemovalOnline
<1>3. k' = ChatOnUserLeave(k, x)
  BY DEF Receives, Exec
<1>4. LeaveDone(k, k', x)
  BY <1>0, <1>1, <1>3, LeaveSays
<1>. HIDE DEF s, t, x
<1>5. PhaseInv'
  <2>1. k.known
    BY DEF Receives
  <2>2. Phase(k', chatd.joined, t)
    BY <1>2, <1>4, <2>1 DEF Phase, LeaveDone, Stands
  <2>3. QED
    BY <1>1, <2>2 DEF PhaseInv
<1>6. FindsUs(chatd.down, k.mUsers)'
  <2>1. FindsUs(s, k.mUsers)
    BY DEF CoreInv, s
  <2>2. Me \in k.mUsers => Me \in k'.mUsers
    BY <1>4 DEF LeaveDone, x
  <2>3. FindsUs(t, k'.mUsers)
    BY <1>1, <2>1, <2>2, FindsUsTail DEF t, x
  <2>4. QED
    BY <1>1, <2>3
<1>7. Last_' = Last_ /\ (Due' <=> Due)
  BY <1>1 DEF Last_, Due, DueFrom, Tells, Numbers
<1>8. \A u \in Users : Decides(cmd, u) <=> u = x
  BY DEF Decides, Removes, x
<1>9. /\ \A u \in Users : Undecided(t, u) => Undecided(s, u) \/ Decides(cmd, u)
      /\ \A u \in Users : Undecided(t, u) /\ Decides(cmd, u) => Right(Last_.priv, u, NotPresent)
  BY <1>1, TailSays DEF t, CoreInv, LastWordInv, s
<1>10. HeardInv'
  <2> SUFFICES ASSUME NEW u \in Users, Undecided(t, u) PROVE Heard(u)'
    BY <1>1 DEF HeardInv
  <2>1. CASE u = x
    <3>1. Right(Last_.priv, x, NotPresent)
      BY <1>8, <1>9, <2>1
    <3>2. Last_.priv[Me] # NotPresent => Last_.priv[x] = NotPresent
      BY <3>1 DEF Right
    <3>3. QED
      BY <1>7, <2>1, <3>2 DEF Heard, x
  <2>2. CASE u # x
    <3>1. Heard(u)
      BY <1>2, <1>8, <1>9, <2>2 DEF CoreInv, HeardInv, s
    <3>2. /\ k'.priv[u] = k.priv[u] /\ (u \in k.mUsers => u \in k'.mUsers)
          /\ k'.mOwnPrivilege = k.mOwnPrivilege
      BY <1>4, <2>2 DEF LeaveDone
    <3>3. QED
      BY <1>7, <3>1, <3>2 DEF Heard
  <2>3. QED
    BY <2>1, <2>2
<1>11. /\ 1 \in DOMAIN s /\ cmd = s[1]
       /\ \A i \in DOMAIN s : i = 1 \/ (i - 1 \in DOMAIN t /\ t[i - 1] = s[i])
  BY <1>1, TailParts DEF t
<1>12. ~Removes(cmd, Me) /\ \A u : u # x => ~Removes(cmd, u)
  BY DEF Removes, x
<1>13. ASSUME NEW u \in Users, Leaving(u), u # x PROVE Leaving(u)'
  <2>1. CASE u \in chatd.unheard
    BY <1>1, <2>1 DEF Leaving
  <2>2. CASE \E i \in DOMAIN s : Removes(s[i], u) \/ (Removes(s[i], Me) /\ u \in k.mUsers)
    <3>1. PICK i \in DOMAIN s : Removes(s[i], u) \/ (Removes(s[i], Me) /\ u \in k.mUsers)
      BY <2>2
    <3>2. i - 1 \in DOMAIN t /\ t[i - 1] = s[i]
      BY <1>11, <1>12, <1>13, <3>1
    <3>3. Removes(t[i - 1], u) \/ (Removes(t[i - 1], Me) /\ u \in k'.mUsers)
      BY <1>4, <1>13, <3>1, <3>2 DEF LeaveDone
    <3>4. QED
      BY <1>1, <3>2, <3>3 DEF Leaving, Removes
  <2>3. QED
    BY <1>13, <2>1, <2>2 DEF Leaving, s
<1>14. ASSUME NEW u \in Users, WeAreIn, ~Due, Last_.priv[u] = NotPresent,
              k'.priv[u] # NotPresent
       PROVE  Leaving(u)'
  <2>1. u # x /\ k.priv[u] # NotPresent
    BY <1>4, <1>14 DEF LeaveDone
  <2>2. Leaving(u)
    BY <1>14, <2>1 DEF CoreInv, ExtraInv, OnlyLeaving, In
  <2>3. QED
    BY <1>13, <2>1, <2>2
<1>15. k'.commitEach
  BY <1>2, <1>4 DEF LeaveDone, Stands
<1>16. QED
  BY <1>5, <1>6, <1>10, <1>14, <1>15, ReceivedCore, ZenonT(30)

\* The JOIN that says that we are out.
LEMMA RemovalCore ==
    ASSUME IInv, IInv', OrderInv, CoreInv, NEW cmd, Receives(cmd), Removes(cmd, Me)
    PROVE  CoreInv'
<1> DEFINE s == chatd.down
           t == Tail(s)
<1>0. /\ k \in Room /\ Me \in Users /\ k.priv \in [Users -> Levels]
      /\ cmd.op = "JOIN" /\ cmd.user = Me /\ cmd.priv = NotPresent
  BY NobodyTyped DEF IInv, TypeOK, Room, Removes
<1>1. /\ s \in Seq(Command) /\ s # <<>> /\ cmd = Head(s)
      /\ chatd'.joined = chatd.joined /\ chatd'.unheard = chatd.unheard /\ chatd'.down = t
      /\ UNCHANGED <<log, sdk, posted>> /\ k'.db.scsn = k.db.scsn /\ k.known
  BY DEF Receives
<1>2. /\ chatd.joined /\ AllJoins(t) /\ k.online = "online" /\ ~k.asked /\ k.commitEach
      /\ ~k.disabled /\ k.link = "up" /\ k.connected
  BY <1>0, RemovalOnline
<1>3. k' = ChatOnUserLeave(k, Me)
  BY <1>0 DEF Receives, Exec
<1>4. RemovalDone(k, k')
  BY <1>0, <1>3, RemovalSays
<1>. HIDE DEF s, t
<1>5. PhaseInv'
  <2>1. Phase(k', chatd.joined, t)
    BY <1>1, <1>2, <1>4 DEF Phase, RemovalDone, Stands
  <2>2. QED
    BY <1>1, <2>1 DEF PhaseInv
<1>6. FindsUs(chatd.down, k.mUsers)'
  <2>1. FindsUs(s, k.mUsers)
    BY DEF CoreInv, s
  <2>2. FindsUs(t, k'.mUsers)
    BY <1>0, <1>1, <2>1, FindsUsTail DEF t
  <2>3. QED
    BY <1>1, <2>2
<1>7. Last_' = Last_ /\ (Due' <=> Due)
  BY <1>1 DEF Last_, Due, DueFrom, Tells, Numbers
<1>8. /\ 1 \in DOMAIN s /\ cmd = s[1]
      /\ \A i \in DOMAIN s : i \in Nat /\ i >= 1
      /\ \A i \in DOMAIN s : i = 1 \/ (i - 1 \in DOMAIN t /\ t[i - 1] = s[i])
  BY <1>1, TailParts DEF t
<1>9. Me \in k.mUsers
  <2>1. ~\E j \in DOMAIN s : j < 1
    BY <1>8
  <2>2. QED
    BY <1>8, <2>1 DEF CoreInv, FindsUs, s
<1>10. k'.priv[Me] = NotPresent
  BY <1>0, <1>4, <1>9 DEF RemovalDone
<1>11. \A u \in Users : Undecided(t, u) => Right(Last_.priv, u, NotPresent)
  <2>1. \A u \in Users : Decides(cmd, u)
    BY DEF Decides
  <2>2. QED
    BY <1>0, <1>1, <2>1, TailSays DEF t, CoreInv, LastWordInv, s
<1>12. HeardInv'
  <2> SUFFICES ASSUME NEW u \in Users, Undecided(t, u) PROVE Heard(u)'
    BY <1>1 DEF HeardInv
  <2>1. Last_.priv[Me] # NotPresent => Last_.priv[u] = NotPresent
    BY <1>11 DEF Right
  <2>2. QED
    BY <1>7, <1>10, <2>1 DEF Heard
<1>13. ASSUME NEW u \in Users, WeAreIn, ~Due, Last_.priv[u] = NotPresent,
              k'.priv[u] # NotPresent
       PROVE  Leaving(u)'
  <2>1. u \notin k.mUsers /\ k.priv[u] # NotPresent
    BY <1>4, <1>13 DEF RemovalDone
  <2>2. Leaving(u)
    BY <1>13, <2>1 DEF CoreInv, ExtraInv, OnlyLeaving, In
  <2>3. CASE u \in chatd.unheard
    BY <1>1, <2>3 DEF Leaving
  <2>4. CASE \E i \in DOMAIN s : Removes(s[i], u)
    <3>1. PICK i \in DOMAIN s : Removes(s[i], u)
      BY <2>4
    <3>2. i # 1
      BY <1>0, <1>8, <1>9, <2>1, <3>1 DEF Removes
    <3>3. i - 1 \in DOMAIN t /\ Removes(t[i - 1], u)
      BY <1>8, <3>1, <3>2
    <3>4. QED
      BY <1>1, <3>3 DEF Leaving, Removes
  <2>5. QED
    BY <2>1, <2>2, <2>3, <2>4 DEF Leaving, s
<1>14. k'.commitEach
  BY <1>2, <1>4 DEF RemovalDone, Stands
<1>15. QED
  BY <1>5, <1>6, <1>12, <1>13, <1>14, ReceivedCore, ZenonT(30)

\* What is not a JOIN changes how far the chat is, and neither its users nor the room.
LEMMA OtherCore ==
    ASSUME IInv, IInv', OrderInv, CoreInv, NEW cmd, Receives(cmd), cmd.op # "JOIN",
           SameRoom(k, k'), Phase(k', chatd.joined, Tail(chatd.down))
    PROVE  CoreInv'
<1> DEFINE s == chatd.down
           t == Tail(s)
<1>1. /\ s \in Seq(Command) /\ s # <<>> /\ cmd = Head(s)
      /\ chatd'.joined = chatd.joined /\ chatd'.unheard = chatd.unheard /\ chatd'.down = t
      /\ UNCHANGED <<log, sdk, posted>> /\ k'.db.scsn = k.db.scsn
  BY DEF Receives
<1>2. PhaseInv'
  BY <1>1 DEF PhaseInv
<1>. HIDE DEF s, t
<1>3. \A u : ~Removes(cmd, u) /\ ~Decides(cmd, u)
  BY DEF Removes, Decides
<1>4. /\ k'.priv = k.priv /\ k'.mUsers = k.mUsers /\ k'.mOwnPrivilege = k.mOwnPrivilege
  BY DEF SameRoom
<1>5. FindsUs(chatd.down, k.mUsers)'
  <2>1. FindsUs(s, k.mUsers)
    BY DEF CoreInv, s
  <2>2. FindsUs(t, k'.mUsers)
    BY <1>1, <1>4, <2>1, FindsUsTail DEF t
  <2>3. QED
    BY <1>1, <2>2
<1>6. Last_' = Last_ /\ (Due' <=> Due)
  BY <1>1 DEF Last_, Due, DueFrom, Tells, Numbers
<1>7. HeardInv'
  <2> SUFFICES ASSUME chatd.joined, NEW u \in Users, Undecided(t, u) PROVE Heard(u)'
    BY <1>1 DEF HeardInv
  <2>1. Undecided(s, u)
    BY <1>1, <1>3, TailSays DEF t
  <2>2. Heard(u)
    BY <2>1 DEF CoreInv, HeardInv, s
  <2>3. QED
    BY <1>4, <1>6, <2>2 DEF Heard
<1>8. /\ 1 \in DOMAIN s /\ cmd = s[1]
      /\ \A i \in DOMAIN s : i = 1 \/ (i - 1 \in DOMAIN t /\ t[i - 1] = s[i])
  BY <1>1, TailParts DEF t
<1>9. ASSUME NEW u \in Users, Leaving(u) PROVE Leaving(u)'
  <2>1. CASE u \in chatd.unheard
    BY <1>1, <2>1 DEF Leaving
  <2>2. CASE \E i \in DOMAIN s : Removes(s[i], u) \/ (Removes(s[i], Me) /\ u \in k.mUsers)
    <3>1. PICK i \in DOMAIN s : Removes(s[i], u) \/ (Removes(s[i], Me) /\ u \in k.mUsers)
      BY <2>2
    <3>2. i - 1 \in DOMAIN t /\ t[i - 1] = s[i]
      BY <1>3, <1>8, <3>1
    <3>3. Removes(t[i - 1], u) \/ (Removes(t[i - 1], Me) /\ u \in k'.mUsers)
      BY <1>4, <3>1, <3>2
    <3>4. QED
      BY <1>1, <3>2, <3>3 DEF Leaving, Removes
  <2>3. QED
    BY <1>9, <2>1, <2>2 DEF Leaving, s
<1>10. ASSUME NEW u \in Users, WeAreIn, ~Due, Last_.priv[u] = NotPresent,
              k'.priv[u] # NotPresent
       PROVE  Leaving(u)'
  BY <1>4, <1>9, <1>10 DEF CoreInv, ExtraInv, OnlyLeaving, In
<1>11. QED
  BY <1>2, <1>5, <1>7, <1>9, <1>10, ReceivedCore, ZenonT(30)

LEMMA ReceiveCore == ASSUME IInv, OrderInv, CoreInv, Receive PROVE CoreInv'
<1> DEFINE cmd == Head(chatd.down)
           s == chatd.down
<1>1. Receives(cmd)
  BY ReceiveReceives
<1>2. IInv'
  <2>1. [Next]_vars
    BY DEF Next
  <2>2. QED
    BY <2>1, NextIInv
<1>3. /\ s \in Seq(Command) /\ s # <<>> /\ cmd = Head(s) /\ cmd \in Command /\ k.known
      /\ k' = Exec(k, cmd) /\ k \in Room
  BY <1>1 DEF Receives, IInv, TypeOK
<1>4. Phase(k, chatd.joined, s)
  BY DEF CoreInv, PhaseInv
<1>. HIDE DEF cmd, s
<1>5. CASE cmd.op = "JOIN" /\ cmd.priv # NotPresent
  BY <1>1, <1>2, <1>5, JoinCore
<1>6. CASE cmd.op = "JOIN" /\ cmd.priv = NotPresent /\ cmd.user # Me
  BY <1>1, <1>2, <1>6, LeaveCore
<1>7. CASE Removes(cmd, Me)
  BY <1>1, <1>2, <1>7, RemovalCore
<1>8. CASE cmd.op = "HISTDONE"
  <2>1. k.online = "joining" /\ Listing(s) /\ ~k.asked /\ chatd.joined
    <3>1. ~AllJoins(s)
      <4>1. 1 \in DOMAIN s /\ s[1] = cmd
        BY <1>3, TailParts
      <4>2. QED
        BY <1>8, <4>1 DEF AllJoins
    <3>2. s # <<[op |-> "REJECT"]>>
      <4>1. Head(<<[op |-> "REJECT"]>>).op = "REJECT"
        OBVIOUS
      <4>2. QED
        BY <1>3, <1>8, <4>1
    <3>3. QED
      BY <1>3, <1>4, <3>1, <3>2 DEF Phase, Room
  <2>2. AllJoins(Tail(s))
    BY <1>3, <1>8, <2>1, TailSays
  <2>3. k' = SetOnlineState(k, "online")
    BY <1>3, <1>8, <2>1 DEF Exec
  <2>4. OnlineIs(k, k', "online")
    BY <1>3, <2>3, SetOnlineStateSame
  <2>5. Phase(k', chatd.joined, Tail(s))
    <3>1. k.link = "up" /\ k.connected /\ ~k.disabled
      BY <1>3, <1>4, <2>1 DEF Phase, Room
    <3>2. QED
      BY <1>3, <2>1, <2>2, <2>4, <3>1 DEF Phase, OnlineIs, SameRoom
  <2>6. QED
    BY <1>1, <1>2, <1>8, <2>4, <2>5, OtherCore DEF OnlineIs, s
<1>9. CASE cmd.op = "REJECT"
  <2> DEFINE d == Disable(k, TRUE)
  <2>1. k' = d
    BY <1>3, <1>9 DEF Exec
  <2>2. 1 \in DOMAIN s /\ s[1] = cmd
    BY <1>3, TailParts
  <2>3. ~AllJoins(s) /\ ~Listing(s)
    BY <1>9, <2>2 DEF AllJoins, Listing
  <2>4. k.online = "joining" /\ ~k.asked /\ ~chatd.joined /\ s = <<[op |-> "REJECT"]>>
    BY <1>3, <1>4, <2>3 DEF Phase, Room
  <2>5. Tail(s) = <<>>
    BY <2>4
  <2>6. ~k.disabled /\ k.connected
    BY <1>3, <1>4, <2>4 DEF Phase, Room
  <2>7. /\ SameRoom(k, d) /\ d.asked = k.asked /\ d.link = k.link /\ d.disabled = TRUE
        /\ d.online = "offline"
    BY <1>3, <2>6, DisableSame
  <2>. HIDE DEF d
  <2>8. Phase(k', chatd.joined, Tail(s))
    BY <2>1, <2>4, <2>5, <2>6, <2>7 DEF Phase, SameRoom
  <2>9. QED
    BY <1>1, <1>2, <1>9, <2>1, <2>7, <2>8, OtherCore DEF s
<1>10. QED
  BY <1>3, <1>5, <1>6, <1>7, <1>8, <1>9 DEF Command, Removes

-----------------------------------------------------------------------------
(* The room agrees with the chat *)

LEMMA UnchangedCore == ASSUME CoreInv, UNCHANGED vars PROVE CoreInv'
<1>1. UNCHANGED <<log, sdk, posted, k, disk, chatd>>
  BY DEF vars
<1>2. TrueInv' /\ StaleInv' /\ (Due => Due')
  BY <1>1 DEF CoreInv, TrueInv, StaleInv, TrueAnswer, Deletes, Due, DueFrom, Tells, Numbers,
              Stale, Known
<1>3. QED
  BY <1>1, <1>2, QuietCore

LEMMA NextAgree == IInv /\ AgreeInv /\ [Next]_vars => AgreeInv'
<1> SUFFICES ASSUME IInv, AgreeInv, [Next]_vars PROVE AgreeInv'
  OBVIOUS
<1>1. OrderInv /\ OrderInv'
  BY NextOrder DEF AgreeInv
<1>2. CASE Gone
  BY <1>1, <1>2, GoneStays DEF AgreeInv
<1>3. CASE Deleted
  BY <1>1, <1>3, DeletedGone DEF AgreeInv
<1>4. ASSUME CoreInv, ~Deleted PROVE CoreInv'
  BY <1>1, <1>4, UnchangedCore, CreatedCore, ChangedByOtherCore, ChatdAnswersJoinCore,
     SdkFetchesCore, SdkReloadsCore, SdkUpdatesCore, SdkCommitsCore, SdkAnswersCore,
     MainThreadCore, CommitTimerCore, ReceiveCore, LinkUpCore, LinkDownCore, RequestCore,
     RestartCore DEF Next
<1>5. QED
  BY <1>1, <1>2, <1>3, <1>4 DEF AgreeInv

\* When nothing is under way, what has been heard is all.
LEMMA AgreeEnough == IInv /\ AgreeInv => RoomAgrees
<1> SUFFICES ASSUME IInv, AgreeInv, Quiet, k.known, Last_.exists, k.online = "online"
             PROVE  /\ k.priv[Me] = Last_.priv[Me]
                    /\ Last_.priv[Me] # NotPresent =>
                           /\ \A u \in In(Last_.priv) : k.priv[u] = Last_.priv[u]
                           /\ In(k.priv) \subseteq In(Last_.priv) \cup chatd.unheard
                           /\ k.mOwnPrivilege = Last_.priv[Me]
                           /\ In(Last_.priv) \subseteq k.mUsers
  BY DEF RoomAgrees
<1>0. Me \in Users
  BY NobodyTyped
<1>1. CoreInv
  BY DEF AgreeInv, Gone
<1>2. DOMAIN posted = {} /\ DOMAIN chatd.down = {}
  BY DEF Quiet
<1>3. ~Due
  BY <1>2 DEF Quiet, Due, DueFrom
<1>4. chatd.joined
  BY <1>1 DEF CoreInv, PhaseInv, Phase
<1>5. \A u \in Users : Heard(u)
  BY <1>1, <1>2, <1>4 DEF CoreInv, HeardInv, Undecided
<1>6. CASE Last_.priv[Me] = NotPresent
  BY <1>0, <1>3, <1>5, <1>6 DEF Heard
<1>7. CASE Last_.priv[Me] # NotPresent
  <2>1. \A u \in In(Last_.priv) : k.priv[u] = Last_.priv[u] /\ u \in k.mUsers
    BY <1>3, <1>5, <1>7 DEF Heard, In
  <2>2. k.mOwnPrivilege = Last_.priv[Me] /\ k.priv[Me] = Last_.priv[Me]
    BY <1>0, <1>3, <1>5, <1>7 DEF Heard
  <2>3. In(k.priv) \subseteq In(Last_.priv) \cup chatd.unheard
    BY <1>1, <1>2, <1>3, <1>7 DEF CoreInv, ExtraInv, OnlyLeaving, WeAreIn, Leaving
  <2>4. QED
    BY <2>1, <2>2, <2>3
<1>8. QED
  BY <1>6, <1>7

\* The room and the chat agree once all has been heard (GroupChatRoom::syncWithApi(),
\* Chat::onUserJoin(), Chat::onUserLeave(), Client::commit()).
THEOREM RoomAgreesHolds == Spec => []RoomAgrees
<1>1. Init => IInv /\ AgreeInv
  BY InitIInv, InitOrder, InitCore DEF AgreeInv
<1>2. IInv /\ AgreeInv /\ [Next]_vars => (IInv /\ AgreeInv)'
  BY NextIInv, NextAgree
<1>3. IInv /\ AgreeInv => RoomAgrees
  BY AgreeEnough
<1>4. QED
  BY <1>1, <1>2, <1>3, PTL DEF Spec

=============================================================================
