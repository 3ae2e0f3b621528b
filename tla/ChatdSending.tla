---------------------------- MODULE ChatdSending ----------------------------
(***************************************************************************)
(* The output queue of chatd (class chatd::Chat, src/src/chatd.cpp): how a *)
(* message or an edit goes from the application to the server's log and    *)
(* from there to the local history.                                        *)
(*                                                                         *)
(* One user, one shard connection, the chats of the set Chats.  The        *)
(* application thread marshals its calls to the main thread (calls); the   *)
(* main thread runs every other handler.  Each chat keeps the list         *)
(* mSending with the iterator mNextUnsent, here the position it points to: *)
(* Len(mSending[c]) + 1 is end(), 0 an iterator whose element was erased.  *)
(* The strongvelope state of a private chat (current key, unconfirmed      *)
(* keys) is here too because the queue and the keys change together.       *)
(*                                                                         *)
(* A message is a number: n is the n-th message the application created.   *)
(* Its id is the msgxid while x is TRUE and the msgid afterwards.  Content *)
(* is the number of the edit that wrote it, 0 for the original.  A key id  *)
(* is 0 when invalid, negative while local (keyxid), positive once the     *)
(* server has confirmed it.  The possible sets of members of a chat are    *)
(* numbered too, and 0 is the one it starts with.                          *)
(***************************************************************************)
EXTENDS Integers, Sequences, FiniteSets, SequencesExt

CONSTANTS
    Chats,           \* chats of the account, numbered in the order of mChatForChatId
    Public,          \* the chats in open mode: one unified key, no NEWKEY
    MaxMsgs,         \* bound: messages the application creates
    MaxEdits,        \* bound: edits the application requests
    MaxForeign,      \* bound: edits another client of the same user makes
    MaxUserChanges,  \* bound: membership changes of a private chat
    MaxPrivChanges,      \* bound: changes of the write access to a chat
    MaxDrops,        \* bound: disconnections
    MaxCrashes,      \* bound: deaths of the process, of any cause
    MaxTime,         \* bound: seconds that pass
    SlowKeys         \* whether a public key or the unified key may have to be fetched

ASSUME ChatsAssumption == Chats \subseteq Nat /\ IsFiniteSet(Chats) /\ Public \subseteq Chats
ASSUME BoundsAssumption ==
    /\ {MaxMsgs, MaxEdits, MaxForeign, MaxUserChanges} \subseteq Nat
    /\ {MaxPrivChanges, MaxDrops, MaxCrashes, MaxTime} \subseteq Nat
    /\ SlowKeys \in BOOLEAN

VARIABLES
    created,             \* the messages the application created: their chat and their second
    edits,               \* the edits requested so far, by any client: each one's number is its content
    calls,               \* lambdas marshalled to the main thread
    mSending,            \* the output queue of each chat
    mNextUnsent,         \* position of the first item not passed to encryption yet
    mEncryptionHalted,   \* an encryption is waiting for a key
    pending,             \* the closure of that encryption
    mCurrentKey,         \* strongvelope: id and recipients of the key in use
    mUnconfirmedKeys,    \* strongvelope: new keys in the order they were created
    keyCount,            \* strongvelope: local key ids taken from mCurrentLocalKeyId, by every chat
    pubkeys,             \* memberships all whose public keys are in the cache
    mUsers,              \* membership the client knows
    mOnlineState,        \* Offline, Joining or Online
    history,             \* messages of ours in the local history, RAM and table
    dbSending,           \* table sending
    dbManual,            \* table manual_sending, and the messages handed back to the app
    disk,                \* what the last commit made durable
    conn,                \* state of the shard connection
    c2s, s2c,            \* commands in flight, each way
    srv,                 \* the chatd server, per chat
    srvMsg,              \* the server's copy of each message: content and delta
    now,                 \* seconds since the start
    budget,              \* what is left of the bounds of the environment
    failed               \* assertions of the source that a step has falsified

client == <<mSending, mNextUnsent, mEncryptionHalted, pending, mCurrentKey,
            mUnconfirmedKeys, keyCount>>
app    == <<created, edits, calls>>
store  == <<history, dbSending, dbManual>>
net    == <<conn, c2s, s2c>>
server == <<srv, srvMsg>>
vars   == <<app, client, pubkeys, mUsers, mOnlineState, store, disk, net, server,
            now, budget, failed>>

-----------------------------------------------------------------------------
(* Data *)

Memberships == 0..MaxUserChanges

NoCmd  == [op |-> "NONE", n |-> 0, x |-> FALSE, data |-> 0, upd |-> 0, key |-> 0, rcp |-> 0]
NoPend == [on |-> FALSE, row |-> 0, cmd |-> NoCmd]
NoKey  == [id |-> 0, rcp |-> 0]

IsNew(i)  == i.op = "NEWMSG"
IsEdit(i) == i.op \in {"MSGUPD", "MSGUPDX"}

\* Message::id() == id: same number and same kind of id
HasId(i, n, x) == i.n = n /\ i.x = x

Row(i)  == [i EXCEPT !.key = 0]
Item(r) == [r EXCEPT !.cmd = IF r.cmd = NoCmd THEN NoCmd
                             ELSE [op |-> r.op, n |-> r.n, x |-> r.x, data |-> r.cmd.data,
                                   upd |-> r.upd, key |-> r.key, rcp |-> r.rcp]]

Map(seq, Op(_)) == [i \in DOMAIN seq |-> Op(seq[i])]

\* what a sequence has at some positions
Kept(seq, positions) ==
    LET f[n \in 0..Len(seq)] ==
            IF n = 0 THEN <<>>
            ELSE IF n \in positions THEN Append(f[n - 1], seq[n]) ELSE f[n - 1]
    IN f[Len(seq)]

Numbers(seq)    == {seq[i].n : i \in DOMAIN seq}
Database        == [c \in Chats |-> [sending |-> dbSending[c], manual |-> dbManual[c],
                                     history |-> history[c]]]

\* what sendBuf() puts on the socket: nothing when there is no connection
Socket(out) == IF conn = "up" THEN c2s \o out ELSE c2s

-----------------------------------------------------------------------------
(* The queue of a chat with its table and its iterator, as one value *)

Queue(c) == [q |-> mSending[c], rows |-> dbSending[c], manual |-> dbManual[c],
             next |-> mNextUnsent[c]]

\* mutant: the iterator is not moved when elements before it are erased
ShiftedNot(next, E) == next

\* the iterator after the elements at positions E are erased: it dangles if it pointed to one
Shifted(next, E) == IF next \in E THEN 0 ELSE next - Cardinality({e \in E : e < next})

\* mutant: the rows are left in the table
EraseAtMemory(Q, E) ==
    [Q EXCEPT !.q = Kept(@, DOMAIN @ \ E), !.next = Shifted(@, E)]

\* the elements at positions E are erased, and their rows deleted
EraseAt(Q, E) ==
    [Q EXCEPT !.q    = Kept(@, DOMAIN @ \ E),
              !.rows = Kept(@, {j \in DOMAIN @ : \A e \in E : Q.q[e].row # @[j].row}),
              !.next = Shifted(@, E)]

\* mutant: the row is deleted and not saved in the manual queue
MoveItemDropped(Q) == EraseAt(Q, {1})

\* moveItemToManualSending(begin)
MoveItemToManualSending(Q) == [EraseAt(Q, {1}) EXCEPT !.manual = Append(Q.manual, Head(Q.q))]

\* the tests of msgRemoveFromSending that leave the queue alone
Refuses(q, n, x) ==
    \/ q = <<>>
    \/ Head(q).op = "MSGUPDX"
    \/ IsNew(Head(q)) /\ ~HasId(Head(q), n, x)

\* mNextUnsent++ when it points to the element about to be removed
PassFront(Q) == [Q EXCEPT !.next = IF @ = 1 THEN 2 ELSE @]

\* msgRemoveFromSending(id, null): the front goes to manual sending unless it is refused
RejectFront(Q, n, x) ==
    IF Refuses(Q.q, n, x) THEN Q ELSE MoveItemToManualSending(PassFront(Q))

-----------------------------------------------------------------------------
(* ICrypto::msgEncrypt, over the positions a flush walks through *)

\* no key id yet: the current key, or a new one when the recipients differ
NeedsKey(c, i) == i.cmd = NoCmd /\ c \notin Public /\ i.key = 0

\* mCurrentKeyParticipants when the walk from position "from" reaches position k
Participants(c, q, from, k) ==
    LET before == {j \in from..(k - 1) : NeedsKey(c, q[j])}
    IN  IF before # {} THEN q[Max(before)].rcp
        ELSE IF mCurrentKey[c].id = 0 THEN -1 ELSE mCurrentKey[c].rcp

\* the positions for which createNewKey is called
NewKeys(c, q, from) ==
    {k \in from..Len(q) : NeedsKey(c, q[k]) /\ Participants(c, q, from, k) # q[k].rcp}

KeyFor(c, q, from, k) ==
    LET made == {j \in NewKeys(c, q, from) : j <= k}
    IN  IF ~NeedsKey(c, q[k]) THEN q[k].key
        ELSE IF made = {} THEN mCurrentKey[c].id ELSE -(keyCount + Cardinality(made))

\* an edit whose local key is not among the unconfirmed ones: the promise fails at once
Orphan(c, i) ==
    /\ i.cmd = NoCmd /\ i.key < 0
    /\ \A k \in DOMAIN mUnconfirmedKeys[c] :
          mUnconfirmedKeys[c][k] # [id |-> i.key, rcp |-> i.rcp]

\* the promise is pending: some public key, or the unified key, is not in the cache
Waits(c, q, from, k) ==
    \/ k \in NewKeys(c, q, from) /\ q[k].rcp \notin pubkeys[c]
    \/ c \in Public /\ q[k].cmd = NoCmd /\ 0 \notin pubkeys[c]

\* the item at position k once encrypted
Encrypted(c, q, from, k) ==
    IF q[k].cmd # NoCmd THEN q[k]
    ELSE LET key == KeyFor(c, q, from, k)
         IN  [q[k] EXCEPT !.key = key,
                          !.keyCmd = IF k \in NewKeys(c, q, from) THEN key ELSE 0,
                          !.cmd = [op |-> q[k].op, n |-> q[k].n, x |-> q[k].x,
                                   data |-> q[k].data, upd |-> q[k].upd,
                                   key |-> key, rcp |-> q[k].rcp]]

\* addBlobsToSendingItem: the row of an item gets its blobs and its key id
Blobs(r, i) == [r EXCEPT !.cmd = i.cmd, !.keyCmd = i.keyCmd, !.key = i.key]
AddBlobs(rows, row, i) == Map(rows, LAMBDA r : IF r.row = row THEN Blobs(r, i) ELSE r)

\* mutant: the message goes before its key
CommandsSwapped(c, i) ==
    <<[op |-> i.cmd.op, chat |-> c, cmd |-> i.cmd]>>
    \o (IF i.keyCmd # 0 THEN <<[op |-> "NEWKEY", chat |-> c, key |-> i.keyCmd, rcp |-> i.cmd.rcp]>>
                        ELSE <<>>)

\* sendKeyAndMessage
Commands(c, i) ==
    (IF i.keyCmd # 0 THEN <<[op |-> "NEWKEY", chat |-> c, key |-> i.keyCmd, rcp |-> i.cmd.rcp]>>
                     ELSE <<>>)
    \o <<[op |-> i.cmd.op, chat |-> c, cmd |-> i.cmd]>>

SetQueue(c, Q) ==
    /\ mSending'    = [mSending    EXCEPT ![c] = Q.q]
    /\ dbSending'   = [dbSending   EXCEPT ![c] = Q.rows]
    /\ dbManual'    = [dbManual    EXCEPT ![c] = Q.manual]
    /\ mNextUnsent' = [mNextUnsent EXCEPT ![c] = Q.next]

\* mutants: the walk never starts over, or starts over at the second item
WalkOn(Q, fromStart)    == Q.next
WalkFrom2(Q, fromStart) == IF fromStart THEN Min({2, Len(Q.q) + 1}) ELSE Q.next

\* where a flush starts
Walk(Q, fromStart) == IF fromStart THEN 1 ELSE Q.next

\* flushOutputQueue from position "from": every item up to the first that cannot be encrypted
\* at once is encrypted, if it was not, and sent; the iterator ends one past the item that
\* stopped the walk.  "halted" is mEncryptionHalted when the walk starts, "sent" what the
\* caller has already put on the socket, "fails" the assertions it has falsified.
FlushOutputQueue(c, Q, from, halted, sent, fails) ==
    LET q      == Q.q
        stops  == {k \in from..Len(q) : q[k].cmd = NoCmd
                                        /\ (halted \/ Waits(c, q, from, k) \/ Orphan(c, q[k]))}
        stop   == IF stops = {} THEN Len(q) + 1 ELSE Min(stops)
        halts  == stop <= Len(q) /\ (halted \/ Waits(c, q, from, stop))
        fresh  == {k \in from..(stop - 1) : q[k].cmd = NoCmd}
        after  == [k \in DOMAIN q |-> IF k \in fresh THEN Encrypted(c, q, from, k) ELSE q[k]]
        walked == [Q EXCEPT !.q    = after,
                            !.rows = [j \in DOMAIN @ |->
                                        IF \E k \in fresh : q[k].row = @[j].row
                                        THEN Blobs(@[j], after[CHOOSE k \in fresh :
                                                                 q[k].row = @[j].row])
                                        ELSE @[j]],
                            !.next = Min({stop, Len(q)}) + 1]
        made   == {k \in NewKeys(c, q, from) : k < stop \/ (k = stop /\ ~halted)}
        keyed  == Kept(q, made)
        wrong  == \E k \in from..Min({stop, Len(q)}) : NeedsKey(c, q[k]) /\ ~IsNew(q[k])
    IN  /\ SetQueue(c, IF stop <= Len(q) /\ ~halts
                       THEN RejectFront(walked, q[stop].n, q[stop].x) ELSE walked)
        /\ mEncryptionHalted' = [mEncryptionHalted EXCEPT ![c] = halts \/ halted]
        /\ pending' = [pending EXCEPT ![c] =
                         IF halted THEN @
                         ELSE IF halts THEN [on  |-> TRUE, row |-> q[stop].row,
                                             cmd |-> Encrypted(c, q, from, stop).cmd]
                         ELSE NoPend]
        /\ mCurrentKey' = [mCurrentKey EXCEPT ![c] =
                             IF made = {} THEN @ ELSE [id  |-> -(keyCount + Len(keyed)),
                                                       rcp |-> q[Max(made)].rcp]]
        /\ mUnconfirmedKeys' = [mUnconfirmedKeys EXCEPT ![c] = @ \o
                                  [j \in DOMAIN keyed |-> [id  |-> -(keyCount + j),
                                                           rcp |-> keyed[j].rcp]]]
        /\ keyCount' = keyCount + Len(keyed)
        /\ c2s' = Socket(sent \o FlattenSeq([k \in 1..(stop - from) |->
                                               Commands(c, after[from + k - 1])]))
        /\ failed' = failed \cup fails \cup
                     (IF ~halted /\ wrong THEN {"msgEncrypt: opcode is NEWMSG"} ELSE {})

-----------------------------------------------------------------------------
(* The process: start, crash and what it reloads from disk *)

\* The chats load their unconfirmed keys in any order, and each that has some leaves
\* mCurrentLocalKeyId, which they share, one past its own last key; the others add one.
Restart(image, fails) ==
    LET rows(c) == image[c].sending
        keyed(c) == Kept(rows(c), {k \in DOMAIN rows(c) : rows(c)[k].keyCmd # 0})
        keys(c)  == Map(keyed(c), LAMBDA r : [id |-> r.keyCmd, rcp |-> r.rcp])
        without  == {c \in Chats : keys(c) = <<>>}
    IN  /\ budget.crashes > 0
        /\ budget' = [budget EXCEPT !.crashes = @ - 1]
        /\ mSending'    = [c \in Chats |-> Map(rows(c), Item)]
        /\ mNextUnsent' = [c \in Chats |-> 1]
        /\ mEncryptionHalted' = [c \in Chats |-> FALSE]
        /\ pending'     = [c \in Chats |-> NoPend]
        /\ mUnconfirmedKeys' = [c \in Chats |-> keys(c)]
        /\ mCurrentKey' = [c \in Chats |-> IF keys(c) = <<>> THEN NoKey ELSE Last(keys(c))]
        /\ \/ without = Chats /\ keyCount' = Cardinality(Chats)
           \/ \E c \in Chats \ without, later \in 0..Cardinality(without) :
                 keyCount' = later - Last(keys(c)).id
        /\ dbSending'   = [c \in Chats |-> image[c].sending]
        /\ dbManual'    = [c \in Chats |-> image[c].manual]
        /\ history'     = [c \in Chats |-> image[c].history]
        /\ mOnlineState' = [c \in Chats |-> "Offline"]
        /\ calls' = <<>>
        /\ conn' = "down" /\ c2s' = <<>> /\ s2c' = <<>>
        /\ srv' = [c \in Chats |-> [srv[c] EXCEPT !.joined = FALSE, !.keyxids = {}]]
        /\ failed' = failed \cup fails
        /\ UNCHANGED <<created, edits, mUsers, srvMsg, now>>

\* with every chat logged in each statement is a transaction of its own (Client::setCommitMode)
AllOnline  == \A c \in Chats : mOnlineState[c] = "Online"
Autocommit == disk' = IF AllOnline' THEN Database' ELSE disk

Crash ==
    /\ Restart(disk, {})
    /\ UNCHANGED pubkeys
    /\ Autocommit

\* what survives a crash in the middle of a handler that has already written "image"
Durable(image) == IF AllOnline THEN image ELSE disk

\* outside the online phase the transaction is committed now and then
Commit ==
    /\ disk # Database
    /\ disk' = Database
    /\ UNCHANGED <<app, client, pubkeys, mUsers, mOnlineState, store, net, server, now,
                   budget, failed>>

-----------------------------------------------------------------------------
(* The application thread: msgSubmit and msgModify *)

NewItem(row, op, n, x, data, upd, key, rcp) ==
    [row |-> row, op |-> op, n |-> n, x |-> x, data |-> data, upd |-> upd, key |-> key,
     rcp |-> rcp, cmd |-> NoCmd, keyCmd |-> 0]

MsgSubmit(c) ==
    /\ Len(created) < MaxMsgs
    /\ created' = Append(created, [chat |-> c, ts |-> now])
    /\ calls' = Append(calls, [chat |-> c,
                               item |-> NewItem(Len(created) + 1, "NEWMSG", Len(created) + 1,
                                                TRUE, 0, 0, 0, mUsers[c])])
    /\ UNCHANGED <<edits, client, pubkeys, mUsers, mOnlineState, store, net, server, now,
                   budget, failed>>
    /\ Autocommit

\* the age of a message, which is the delta of an edit made now
Age(n) == now - created[n].ts

\* msgModify of a message still in the queue: every item with its id takes the new content;
\* the delta avoids that of the last of them
MsgModifySending(c, n) ==
    LET mine == {k \in DOMAIN mSending[c] : HasId(mSending[c][k], n, TRUE)}
        msg  == mSending[c][Min(mine)]
        last == mSending[c][Max(mine)]
        age  == IF IsNew(last) THEN IF Age(n) = 0 THEN 1 ELSE Age(n)
                ELSE IF last.upd = Age(n) THEN Age(n) + 1 ELSE Age(n)
        data == edits + 1
    IN  /\ edits < MaxEdits
        /\ \E k \in mine : mSending[c][k].op # "MSGUPD"
        /\ edits' = data
        /\ mSending' = [mSending EXCEPT ![c] =
             [k \in DOMAIN @ |-> IF k \notin mine THEN @[k]
                                 ELSE [mSending[c][k] EXCEPT
                                         !.data = data,
                                         !.upd  = IF k = Min(mine) THEN age ELSE @]]]
        /\ dbSending' = [dbSending EXCEPT ![c] =
             Map(@, LAMBDA r : IF HasId(r, n, TRUE) THEN [r EXCEPT !.data = data] ELSE r)]
        /\ calls' = Append(calls, [chat |-> c,
                                   item |-> NewItem(MaxMsgs + data, "MSGUPDX", n, TRUE, data,
                                                    age, msg.key, last.rcp)])
        /\ UNCHANGED <<created, mNextUnsent, mEncryptionHalted, pending, mCurrentKey,
                       mUnconfirmedKeys, keyCount, pubkeys, mUsers, mOnlineState, history,
                       dbManual, net, server, now, budget, failed>>
        /\ Autocommit

\* msgModify of a message in the history
MsgModifyConfirmed(c, h) ==
    LET msg  == history[c][h]
        age  == IF Age(msg.n) <= msg.upd THEN msg.upd + 1 ELSE Age(msg.n)
        data == edits + 1
    IN  /\ edits < MaxEdits
        /\ edits' = data
        /\ calls' = Append(calls, [chat |-> c,
                                   item |-> NewItem(MaxMsgs + data, "MSGUPD", msg.n, FALSE,
                                                    data, age, msg.key, -1)])
        /\ UNCHANGED <<created, client, pubkeys, mUsers, mOnlineState, store, net, server, now,
                       budget, failed>>
        /\ Autocommit

-----------------------------------------------------------------------------
(* The main thread: marshalled calls and encryption *)

\* postMsgToSending, run by the lambda at the head of the main thread's queue
PostMsgToSending ==
    LET c     == Head(calls).chat
        item  == Head(calls).item
        Q     == [Queue(c) EXCEPT !.q = Append(@, item), !.rows = Append(@, Row(item))]
        fails == IF c \in Public \/ item.op = "MSGUPDX" \/ (IsNew(item) /\ item.rcp = mUsers[c])
                    \/ (item.op = "MSGUPD" /\ item.key >= 0)
                 THEN {} ELSE {"postMsgToSending: recipients are the participants"}
    IN  /\ calls # <<>>
        /\ \/ /\ mOnlineState[c] = "Online" /\ Q.next # 0
              /\ FlushOutputQueue(c, Q, Walk(Q, FALSE), mEncryptionHalted[c], <<>>, fails)
              /\ calls' = Tail(calls)
              /\ UNCHANGED <<created, edits, pubkeys, mUsers, mOnlineState, history, conn, s2c,
                             server, now, budget>>
           \/ /\ mOnlineState[c] # "Online"
              /\ SetQueue(c, Q)
              /\ failed' = failed \cup fails
              /\ calls' = Tail(calls)
              /\ UNCHANGED <<created, edits, mEncryptionHalted, pending, mCurrentKey,
                             mUnconfirmedKeys, keyCount, pubkeys, mUsers, mOnlineState, history,
                             net, server, now, budget>>
           \/ /\ mOnlineState[c] = "Online" /\ Q.next = 0
              /\ Restart(Durable([Database EXCEPT ![c].sending = Q.rows]),
                         fails \cup {"mNextUnsent points into mSending"})
              /\ UNCHANGED pubkeys
        /\ Autocommit

\* The public keys of the membership e (the unified key of a public chat) arrive.  If an
\* encryption was waiting for them its closure runs: it gives the commands to the front of
\* the queue, and the blobs to the row of the message it encrypted.
KeysArrive(c, e) ==
    LET waits == pending[c].on /\ (c \in Public \/ pending[c].cmd.rcp = e)
        q     == mSending[c]
        mine  == {k \in DOMAIN q : q[k].row = pending[c].row}
        local == pending[c].cmd.key
        cmd   == [pending[c].cmd EXCEPT !.data = q[Min(mine)].data,
                                        !.key = IF c \in Public THEN 0 ELSE mCurrentKey[c].id]
        made  == [cmd |-> cmd, keyCmd |-> local, key |-> local]
        Q     == [Queue(c) EXCEPT
                    !.q    = [k \in DOMAIN q |->
                                [q[k] EXCEPT !.cmd    = IF k = 1 THEN cmd ELSE @,
                                             !.keyCmd = IF k = 1 THEN local ELSE @,
                                             !.key    = IF k \in mine THEN local ELSE @]],
                    !.rows = AddBlobs(@, pending[c].row, made)]
    IN  /\ e \notin pubkeys[c]
        /\ pubkeys' = [pubkeys EXCEPT ![c] = @ \cup {e}]
        /\ \/ /\ ~waits
              /\ UNCHANGED <<app, client, mUsers, mOnlineState, store, net, server, now, budget,
                             failed>>
           \/ /\ waits /\ mine # {} /\ mOnlineState[c] = "Online" /\ Q.next # 0
              /\ FlushOutputQueue(c, Q, Walk(Q, FALSE), FALSE, Commands(c, made), {})
              /\ UNCHANGED <<app, mUsers, mOnlineState, history, conn, s2c, server, now, budget>>
           \/ /\ waits /\ mine # {} /\ mOnlineState[c] # "Online"
              /\ SetQueue(c, Q)
              /\ mEncryptionHalted' = [mEncryptionHalted EXCEPT ![c] = FALSE]
              /\ pending' = [pending EXCEPT ![c] = NoPend]
              /\ c2s' = Socket(Commands(c, made))
              /\ UNCHANGED <<app, mCurrentKey, mUnconfirmedKeys, keyCount, mUsers, mOnlineState,
                             history, conn, s2c, server, now, budget, failed>>
           \/ /\ waits /\ (mine = {} \/ (mOnlineState[c] = "Online" /\ Q.next = 0))
              /\ Restart(Durable(Database), {IF mine = {} THEN "the encrypted message is queued"
                                             ELSE "mNextUnsent points into mSending"})
        /\ Autocommit

\* the public keys cannot be fetched: the promise of the encryption fails
EncryptFails(c) ==
    /\ pending[c].on
    /\ SetQueue(c, RejectFront(Queue(c), pending[c].cmd.n, pending[c].cmd.x))
    /\ mEncryptionHalted' = [mEncryptionHalted EXCEPT ![c] = FALSE]
    /\ pending' = [pending EXCEPT ![c] = NoPend]
    /\ UNCHANGED <<app, mCurrentKey, mUnconfirmedKeys, keyCount, pubkeys, mUsers, mOnlineState,
                   history, net, server, now, budget, failed>>
    /\ Autocommit

-----------------------------------------------------------------------------
(* The connection and the server (chatd itself is external) *)

\* wsConnectCb: every chat logs in, naming the newest message of ours it has
Connect ==
    /\ conn = "down"
    /\ conn' = "up"
    /\ mOnlineState' = [c \in Chats |-> "Joining"]
    /\ \E order \in SetToSeqs(Chats) :
          /\ \A i, j \in DOMAIN order : i < j => order[i] < order[j]
          /\ c2s' = Map(order, LAMBDA c : [op |-> "JOIN", chat |-> c,
                                           n |-> IF history[c] = <<>> THEN 0
                                                 ELSE Last(history[c]).n])
    /\ UNCHANGED <<app, client, pubkeys, mUsers, store, s2c, server, now, budget, failed>>
    /\ Autocommit

\* onSocketClose: what was in flight is lost
Disconnect ==
    /\ conn = "up" /\ budget.drops > 0
    /\ budget' = [budget EXCEPT !.drops = @ - 1]
    /\ conn' = "down" /\ c2s' = <<>> /\ s2c' = <<>>
    /\ mOnlineState' = [c \in Chats |-> "Offline"]
    /\ srv' = [c \in Chats |-> [srv[c] EXCEPT !.joined = FALSE, !.keyxids = {}]]
    /\ UNCHANGED <<app, client, pubkeys, mUsers, store, srvMsg, now, failed>>
    /\ Autocommit

\* the messages a JOIN answers with
Newer(c, n) == LET log == srv[c].log
                   pos == Max({0} \cup {k \in DOMAIN log : log[k] = n})
               IN  SubSeq(log, pos + 1, Len(log))

ServerJoin(cmd) ==
    LET c == cmd.chat
    IN  /\ cmd.op = "JOIN"
        /\ srv' = [srv EXCEPT ![c].joined = TRUE]
        /\ s2c' = s2c \o <<[op |-> "USERS", chat |-> c, users |-> srv[c].users]>>
                      \o Map(Newer(c, cmd.n),
                             LAMBDA n : [op |-> "NEWMSG", chat |-> c, n |-> n, msg |-> srvMsg[n]])
                      \o <<[op |-> "HISTDONE", chat |-> c]>>
        /\ UNCHANGED srvMsg

\* a key is for the members of the chat: it is refused once they have changed
ServerNewkey(cmd) ==
    LET c  == cmd.chat
        id == srv[c].keyCount + 1
        ok == cmd.rcp = srv[c].users
    IN  /\ cmd.op = "NEWKEY"
        /\ srv' = IF ok THEN [srv EXCEPT ![c].keyCount = id,
                                         ![c].keyxids = @ \cup {[xid |-> cmd.key, id |-> id]}]
                  ELSE [srv EXCEPT ![c].refused = @ \cup {cmd.key}]
        /\ s2c' = Append(s2c, IF ok THEN [op |-> "NEWKEYID", chat |-> c, keyid |-> id]
                              ELSE [op |-> "REJECT", chat |-> c, of |-> "NEWKEY"])
        /\ UNCHANGED srvMsg

KeyKnown(c, key) == key >= 0 \/ \E k \in srv[c].keyxids : k.xid = key
KeyId(c, key)    == IF key >= 0 THEN key ELSE (CHOOSE k \in srv[c].keyxids : k.xid = key).id

\* a msgxid is written once; no write access or other participants is a REJECT
ServerNewmsg(cmd) ==
    LET c  == cmd.chat
        m  == cmd.cmd
        ok == srv[c].write /\ (c \in Public \/ (m.rcp = srv[c].users /\ KeyKnown(c, m.key)))
    IN  /\ cmd.op = "NEWMSG"
        /\ \/ /\ Contains(srv[c].log, m.n)
              /\ s2c' = Append(s2c, [op |-> "MSGID", n |-> m.n])
              /\ UNCHANGED server
           \/ /\ ~Contains(srv[c].log, m.n) /\ ok
              /\ srv' = [srv EXCEPT ![c].log = Append(@, m.n)]
              /\ srvMsg' = [srvMsg EXCEPT ![m.n] = [data |-> m.data, upd |-> m.upd,
                                                    key |-> KeyId(c, m.key)]]
              /\ s2c' = Append(s2c, [op |-> "NEWMSGID", n |-> m.n])
           \/ /\ ~Contains(srv[c].log, m.n) /\ ~ok
              /\ srv' = [srv EXCEPT ![c].refused = @ \cup {m.n}]
              /\ s2c' = Append(s2c, [op |-> "REJECT", chat |-> c, of |-> "NEWMSG", n |-> m.n])
              /\ UNCHANGED srvMsg

\* an edit needs a larger delta and write access; it is broadcast with the msgid, and refused
\* with the msgid too once the server has the message
ServerMsgupd(cmd) ==
    LET c  == cmd.chat
        m  == cmd.cmd
        ok == Contains(srv[c].log, m.n) /\ srv[c].write /\ m.upd > srvMsg[m.n].upd
    IN  /\ cmd.op \in {"MSGUPD", "MSGUPDX"}
        /\ srvMsg' = IF ok THEN [srvMsg EXCEPT ![m.n].data = m.data, ![m.n].upd = m.upd] ELSE srvMsg
        /\ s2c' = Append(s2c, IF ok THEN [op |-> "MSGUPD", chat |-> c, n |-> m.n, msg |-> srvMsg'[m.n]]
                              ELSE [op |-> "REJECT", chat |-> c, of |-> "MSGUPD", n |-> m.n,
                                    x |-> ~Contains(srv[c].log, m.n),
                                    reason |-> IF srv[c].write THEN 2 ELSE 0])
        /\ UNCHANGED srv

Server ==
    /\ c2s # <<>>
    /\ c2s' = Tail(c2s)
    /\ \/ ServerJoin(Head(c2s))
       \/ ServerNewkey(Head(c2s))
       \/ ServerNewmsg(Head(c2s))
       \/ ServerMsgupd(Head(c2s))
    /\ UNCHANGED <<app, client, pubkeys, mUsers, mOnlineState, store, conn, now, budget, failed>>
    /\ Autocommit

\* what the chats that have joined are told
Broadcast(c, msg) == s2c' = IF srv[c].joined THEN Append(s2c, msg) ELSE s2c

UsersChange(c, e) ==
    /\ c \notin Public /\ e # srv[c].users /\ budget.users > 0
    /\ budget' = [budget EXCEPT !.users = @ - 1]
    /\ srv' = [srv EXCEPT ![c].users = e]
    /\ Broadcast(c, [op |-> "USERS", chat |-> c, users |-> e])
    /\ UNCHANGED <<app, client, pubkeys, mUsers, mOnlineState, store, conn, c2s, srvMsg, now, failed>>
    /\ Autocommit

\* the user loses or regains write access
Privilege(c) ==
    /\ budget.privs > 0
    /\ budget' = [budget EXCEPT !.privs = @ - 1]
    /\ srv' = [srv EXCEPT ![c].write = ~@]
    /\ UNCHANGED <<app, client, pubkeys, mUsers, mOnlineState, store, net, srvMsg, now, failed>>
    /\ Autocommit

\* another client of the user edits message n: content numbers above MaxEdits are theirs
ForeignEdit(c, n) ==
    /\ Contains(srv[c].log, n) /\ srv[c].write /\ budget.foreign > 0
    /\ budget' = [budget EXCEPT !.foreign = @ - 1]
    /\ srvMsg' = [srvMsg EXCEPT ![n].data = MaxEdits + budget.foreign, ![n].upd = @ + 1]
    /\ Broadcast(c, [op |-> "MSGUPD", chat |-> c, n |-> n, msg |-> srvMsg'[n]])
    /\ UNCHANGED <<app, client, pubkeys, mUsers, mOnlineState, store, conn, c2s, srv, now, failed>>
    /\ Autocommit

Tick ==
    /\ now < MaxTime
    /\ now' = now + 1
    /\ UNCHANGED <<app, client, pubkeys, mUsers, mOnlineState, store, net, server, budget, failed>>
    /\ Autocommit

-----------------------------------------------------------------------------
(* Connection::execCommand: one action per command received *)

Receive(op) == s2c # <<>> /\ Head(s2c).op = op /\ s2c' = Tail(s2c)

unqueued == <<mEncryptionHalted, pending, mCurrentKey, mUnconfirmedKeys, keyCount>>

RecvUsers ==
    /\ Receive("USERS")
    /\ mUsers' = [mUsers EXCEPT ![Head(s2c).chat] = Head(s2c).users]
    /\ UNCHANGED <<app, client, pubkeys, mOnlineState, store, conn, c2s, server, now, budget,
                   failed>>
    /\ Autocommit

\* mutant: a message still in the queue is skipped, its MSGID being on the way
KnownOrQueued(c, n) == n \in Numbers(history[c]) \cup Numbers(mSending[c])

\* msgIncoming of a message of ours: ignored when it is in the history already
Known(c, n) == n \in Numbers(history[c])

RecvNewmsg ==
    LET c == Head(s2c).chat
        n == Head(s2c).n
        m == Head(s2c).msg
    IN  /\ Receive("NEWMSG")
        /\ history' = IF Known(c, n) THEN history
                      ELSE [history EXCEPT ![c] = Append(@, [n |-> n, data |-> m.data,
                                                             upd |-> m.upd, key |-> m.key])]
        /\ UNCHANGED <<app, client, pubkeys, mUsers, mOnlineState, dbSending, dbManual, conn,
                       c2s, server, now, budget, failed>>
        /\ Autocommit

\* onJoinComplete: online, and the whole queue is flushed
RecvHistdone ==
    LET c == Head(s2c).chat
    IN  /\ Receive("HISTDONE")
        /\ mOnlineState' = [mOnlineState EXCEPT ![c] = "Online"]
        /\ FlushOutputQueue(c, Queue(c), Walk(Queue(c), TRUE), mEncryptionHalted[c], <<>>, {})
        /\ UNCHANGED <<app, pubkeys, mUsers, history, conn, server, now, budget>>
        /\ Autocommit

\* the chat whose msgRemoveFromSending accepts a confirmation; -1 is nobody
Taker(n) == LET able == {c \in Chats : ~Refuses(mSending[c], n, TRUE)}
            IN  IF able = {} THEN -1 ELSE Min(able)

Ignored == UNCHANGED <<app, client, pubkeys, mUsers, mOnlineState, store, conn, c2s, server, now,
                       budget, failed>>

\* msgConfirm: the front becomes a message of the history, the edits of its msgxid edits of
\* its msgid
RecvNewmsgid ==
    LET n     == Head(s2c).n
        c     == Taker(n)
        front == Head(mSending[c])
        Q     == EraseAt(PassFront(Queue(c)), {1})
        sent(i) == IF HasId(i, n, TRUE) THEN [i EXCEPT !.op = "MSGUPD", !.x = FALSE] ELSE i
        row(r)  == IF r.op = "MSGUPDX" THEN sent(r) ELSE r
        fails == (IF front.x THEN {} ELSE {"msgRemoveFromSending: msg isSending"})
                 \cup (IF front.key < 0 THEN {"msgConfirm: key is confirmed"} ELSE {})
                 \cup (IF \E k \in DOMAIN Q.q : HasId(Q.q[k], n, TRUE) /\ Q.q[k].op # "MSGUPDX"
                       THEN {"msgConfirm: opcode is MSGUPDX"} ELSE {})
    IN  /\ Receive("NEWMSGID")
        /\ \/ c = -1 /\ Ignored
           \/ /\ c # -1
              /\ SetQueue(c, [Q EXCEPT !.q = Map(@, sent), !.rows = Map(@, row)])
              /\ history' = [history EXCEPT ![c] = Append(@, [n |-> n, data |-> front.data,
                                                             upd |-> front.upd,
                                                             key |-> front.key])]
              /\ failed' = failed \cup fails
              /\ UNCHANGED <<app, unqueued, pubkeys, mUsers, mOnlineState, conn, c2s, server, now,
                             budget>>
        /\ Autocommit

\* msgAlreadySent: the server had the message, the item is dropped
RecvMsgid ==
    LET c == Taker(Head(s2c).n)
    IN  /\ Receive("MSGID")
        /\ \/ c = -1 /\ Ignored
           \/ /\ c # -1
              /\ SetQueue(c, EraseAt(PassFront(Queue(c)), {1}))
              /\ failed' = failed \cup (IF Head(mSending[c]).x THEN {}
                                        ELSE {"msgRemoveFromSending: msg isSending"})
              /\ UNCHANGED <<app, unqueued, pubkeys, mUsers, mOnlineState, history, conn, c2s,
                             server, now, budget>>
        /\ Autocommit

\* REJECT of a NEWMSG: msgConfirm with a null msgid
RecvRejectNewmsg ==
    LET c == Head(s2c).chat
    IN  /\ Receive("REJECT") /\ Head(s2c).of = "NEWMSG"
        /\ SetQueue(c, RejectFront(Queue(c), Head(s2c).n, TRUE))
        /\ UNCHANGED <<app, unqueued, pubkeys, mUsers, mOnlineState, history, conn, c2s, server,
                       now, budget, failed>>
        /\ Autocommit

\* rejectMsgupd: throws, so changes nothing, unless the front is the edit rejected; the
\* iterator is not moved
RecvRejectMsgupd ==
    LET c == Head(s2c).chat
        q == mSending[c]
        r == Head(s2c)
    IN  /\ Receive("REJECT") /\ r.of = "MSGUPD"
        /\ SetQueue(c, IF q = <<>> \/ ~IsEdit(Head(q)) \/ ~HasId(Head(q), r.n, r.x) THEN Queue(c)
                       ELSE IF r.reason = 2 THEN EraseAt(Queue(c), {1})
                       ELSE MoveItemToManualSending(Queue(c)))
        /\ UNCHANGED <<app, unqueued, pubkeys, mUsers, mOnlineState, history, conn, c2s, server,
                       now, budget, failed>>
        /\ Autocommit

\* onKeyRejected: the oldest unconfirmed key is forgotten, and is no longer the current one
\* if it was the only one
RecvRejectNewkey ==
    LET c == Head(s2c).chat
    IN  /\ Receive("REJECT") /\ Head(s2c).of = "NEWKEY"
        /\ mUnconfirmedKeys' = [mUnconfirmedKeys EXCEPT ![c] = IF @ = <<>> THEN @ ELSE Tail(@)]
        /\ mCurrentKey' = [mCurrentKey EXCEPT ![c] = IF Len(mUnconfirmedKeys[c]) = 1 THEN NoKey
                                                     ELSE @]
        /\ UNCHANGED <<app, mSending, mNextUnsent, mEncryptionHalted, pending, keyCount, pubkeys,
                       mUsers, mOnlineState, store, conn, c2s, server, now, budget, failed>>
        /\ Autocommit

\* keyConfirm: the key of the front is the one confirmed; every item that uses it takes the
\* confirmed id and loses its NEWKEY.  A front without NEWKEY, or an item with the key and
\* no message command, is a null pointer.
RecvNewkeyid ==
    LET c     == Head(s2c).chat
        keyid == Head(s2c).keyid
        q     == mSending[c]
        local == Head(q).keyCmd
        uses  == {k \in DOMAIN q : q[k].key = local}
        rows  == {k \in DOMAIN dbSending[c] : dbSending[c][k].key = local}
        keys  == mUnconfirmedKeys[c]
        fails == (IF Head(q).key # local THEN {"keyConfirm: key of the front"} ELSE {})
                 \cup (IF Cardinality(rows) # Cardinality(uses)
                       THEN {"keyConfirm: countDb is count"} ELSE {})
                 \cup (IF keys # <<>> /\ keys[1].id # local
                       THEN {"onKeyConfirmed: first unconfirmed key"} ELSE {})
    IN  /\ Receive("NEWKEYID")
        /\ \/ q = <<>> /\ Ignored
           \/ /\ q # <<>> /\ local # 0 /\ \A k \in uses : q[k].cmd # NoCmd
              /\ mSending' = [mSending EXCEPT ![c] =
                   [k \in DOMAIN @ |-> IF k \in uses
                      THEN [@[k] EXCEPT !.key = keyid, !.cmd.key = keyid, !.keyCmd = 0]
                      ELSE @[k]]]
              /\ dbSending' = [dbSending EXCEPT ![c] =
                   [k \in DOMAIN @ |-> IF k \in rows THEN [@[k] EXCEPT !.key = keyid, !.keyCmd = 0]
                                       ELSE @[k]]]
              /\ mCurrentKey' = [mCurrentKey EXCEPT ![c] =
                   IF @.id # 0 /\ Len(keys) = 1 THEN [@ EXCEPT !.id = keyid] ELSE @]
              /\ mUnconfirmedKeys' = [mUnconfirmedKeys EXCEPT ![c] =
                   IF keys = <<>> THEN @ ELSE Tail(@)]
              /\ failed' = failed \cup fails
              /\ UNCHANGED <<app, mNextUnsent, mEncryptionHalted, pending, keyCount, pubkeys,
                             mUsers, mOnlineState, history, dbManual, conn, c2s, server, now,
                             budget>>
        /\ Autocommit

\* the other outcome of keyConfirm: a null pointer, after which the process starts again
KeyConfirmDies ==
    LET c == Head(s2c).chat
        q == mSending[c]
    IN  /\ s2c # <<>> /\ Head(s2c).op = "NEWKEYID" /\ q # <<>>
        /\ \/ /\ Head(q).keyCmd = 0
              /\ Restart(Durable(Database), {"keyConfirm: the front has a NEWKEY"})
           \/ /\ Head(q).keyCmd # 0
              /\ \E k \in DOMAIN q : q[k].key = Head(q).keyCmd /\ q[k].cmd = NoCmd
              /\ Restart(Durable(Database), {"keyConfirm: every user of the key is encrypted"})
        /\ UNCHANGED pubkeys
        /\ Autocommit

\* onMsgUpdated: the queued edits of the message that are not newer are erased, and the copy
\* in the history takes the content unless its delta is the same
RecvMsgupd ==
    LET c    == Head(s2c).chat
        n    == Head(s2c).n
        m    == Head(s2c).msg
        Q    == Queue(c)
        gone == {k \in DOMAIN Q.q : IsEdit(Q.q[k]) /\ HasId(Q.q[k], n, FALSE) /\ Q.q[k].upd <= m.upd}
    IN  /\ Receive("MSGUPD")
        /\ SetQueue(c, EraseAt(Q, gone))
        /\ history' = [history EXCEPT ![c] =
             Map(@, LAMBDA h : IF h.n = n /\ h.upd # m.upd
                               THEN [h EXCEPT !.data = m.data, !.upd = m.upd] ELSE h)]
        /\ UNCHANGED <<app, unqueued, pubkeys, mUsers, mOnlineState, conn, c2s, server, now,
                       budget, failed>>
        /\ Autocommit

-----------------------------------------------------------------------------

Init ==
    /\ created = <<>> /\ edits = 0 /\ calls = <<>>
    /\ mSending = [c \in Chats |-> <<>>]
    /\ mNextUnsent = [c \in Chats |-> 1]
    /\ mEncryptionHalted = [c \in Chats |-> FALSE]
    /\ pending = [c \in Chats |-> NoPend]
    /\ mCurrentKey = [c \in Chats |-> NoKey]
    /\ mUnconfirmedKeys = [c \in Chats |-> <<>>]
    /\ keyCount = Cardinality(Chats)
    /\ pubkeys = [c \in Chats |-> IF SlowKeys THEN {} ELSE Memberships]
    /\ mUsers = [c \in Chats |-> 0]
    /\ mOnlineState = [c \in Chats |-> "Offline"]
    /\ history = [c \in Chats |-> <<>>]
    /\ dbSending = [c \in Chats |-> <<>>]
    /\ dbManual = [c \in Chats |-> <<>>]
    /\ disk = Database
    /\ conn = "down" /\ c2s = <<>> /\ s2c = <<>>
    /\ srv = [c \in Chats |-> [log |-> <<>>, users |-> 0, write |-> TRUE, joined |-> FALSE,
                               keyxids |-> {}, keyCount |-> 0, refused |-> {}]]
    /\ srvMsg = [n \in 1..MaxMsgs |-> [data |-> 0, upd |-> 0, key |-> 0]]
    /\ now = 0
    /\ budget = [drops |-> MaxDrops, crashes |-> MaxCrashes, users |-> MaxUserChanges,
                 privs |-> MaxPrivChanges, foreign |-> MaxForeign]
    /\ failed = {}

App == \E c \in Chats :
          \/ MsgSubmit(c)
          \/ \E n \in DOMAIN created : MsgModifySending(c, n)
          \/ \E h \in DOMAIN history[c] : MsgModifyConfirmed(c, h)

Keys == \E c \in Chats : \/ EncryptFails(c)
                         \/ \E e \in Memberships : KeysArrive(c, e)

Recv == \/ RecvUsers \/ RecvNewmsg \/ RecvHistdone \/ RecvNewmsgid \/ RecvMsgid
        \/ RecvRejectNewmsg \/ RecvRejectMsgupd \/ RecvRejectNewkey
        \/ RecvNewkeyid \/ KeyConfirmDies \/ RecvMsgupd

Environment == \E c \in Chats : \/ \E e \in Memberships : UsersChange(c, e)
                                \/ Privilege(c)
                                \/ \E n \in DOMAIN created : ForeignEdit(c, n)

Next == \/ Commit \/ App \/ PostMsgToSending \/ Keys \/ Recv
        \/ Connect \/ Disconnect \/ Crash \/ Server \/ Environment \/ Tick

Spec == Init /\ [][Next]_vars

\* The main thread runs what it is given, the server answers, the retries of the connection
\* never give up, and a key that is asked for arrives or fails.
System   == PostMsgToSending \/ Recv \/ Keys \/ Connect \/ Server
FairSpec == Spec /\ WF_vars(System)

-----------------------------------------------------------------------------
(* Properties *)

Numbering == 1..MaxMsgs
Contents  == 0..(MaxEdits + MaxForeign)
Cmds      == [op : {"NONE", "NEWMSG", "MSGUPD", "MSGUPDX"}, n : 0..MaxMsgs, x : BOOLEAN,
              data : Contents, upd : Nat, key : Int, rcp : Int]
Items     == [row : Nat, op : {"NEWMSG", "MSGUPD", "MSGUPDX"}, n : Numbering, x : BOOLEAN,
              data : Contents, upd : Nat, key : Int, rcp : Int, cmd : Cmds, keyCmd : Int]
KeyRecs   == [id : Int, rcp : Int]

\* The type of the client's state.
TypeOK ==
    /\ created \in Seq([chat : Chats, ts : Nat])
    /\ edits \in 0..MaxEdits
    /\ calls \in Seq([chat : Chats, item : Items])
    /\ mSending \in [Chats -> Seq(Items)]
    /\ \A c \in Chats : mNextUnsent[c] \in 0..(Len(mSending[c]) + 1)
    /\ mEncryptionHalted \in [Chats -> BOOLEAN]
    /\ pending \in [Chats -> [on : BOOLEAN, row : Nat, cmd : Cmds]]
    /\ mCurrentKey \in [Chats -> KeyRecs]
    /\ mUnconfirmedKeys \in [Chats -> Seq(KeyRecs)]
    /\ keyCount \in Nat
    /\ mUsers \in [Chats -> Memberships]
    /\ mOnlineState \in [Chats -> {"Offline", "Joining", "Online"}]
    /\ history \in [Chats -> Seq([n : Numbering, data : Contents, upd : Nat, key : Int])]
    /\ dbSending \in [Chats -> Seq(Items)]
    /\ dbManual \in [Chats -> Seq(Items)]
    /\ conn \in {"down", "up"}

\* The content an item was submitted with, which msgModify replaces when the message is edited
\* while the item waits.
OwnContent(i) == i.data = IF i.row > MaxMsgs THEN i.row - MaxMsgs ELSE 0

\* The table sending holds the queue: the same items in the same order, with the same id and
\* content, encrypted or not, with the same keys.  A restart rebuilds the queue from it.  The
\* delta of an item is in its row as long as the item has the content it was submitted with:
\* updateSendingItemsContentAndDelta, which msgModify calls so that the rows have the new
\* content and the new delta (chatd.cpp:3797-3798), writes the content alone (chatdDb.h:145).
DbMirrorsQueue ==
    \A c \in Chats :
        /\ Len(dbSending[c]) = Len(mSending[c])
        /\ \A k \in DOMAIN mSending[c] :
              LET i == mSending[c][k]
                  r == dbSending[c][k]
              IN  /\ <<r.row, r.op, r.n, r.x, r.data, r.rcp, r.keyCmd>>
                       = <<i.row, i.op, i.n, i.x, i.data, i.rcp, i.keyCmd>>
                  /\ OwnContent(i) => r.upd = i.upd
                  /\ (r.cmd = NoCmd) = (i.cmd = NoCmd)
                  /\ i.cmd # NoCmd => r.cmd.data = i.cmd.data /\ r.key = i.key

\* The history is a prefix of the server's log through confirmations, rejoins and restarts:
\* nothing missing in the middle, nothing twice, nothing the server does not have.
HistoryAgrees ==
    \A c \in Chats : /\ Len(history[c]) <= Len(srv[c].log)
                     /\ \A k \in DOMAIN history[c] : history[c][k].n = srv[c].log[k]

\* Everything the client sends under a local key comes after that key on the same connection,
\* through resends, restarts and keys that arrive late, unless the server has refused the key.
KeyBeforeMessage ==
    \A k \in DOMAIN c2s :
        c2s[k].op \in {"NEWMSG", "MSGUPDX", "MSGUPD"} /\ c2s[k].cmd.key < 0 =>
            \/ c2s[k].cmd.key \in srv[c2s[k].chat].refused
            \/ \E x \in srv[c2s[k].chat].keyxids : x.xid = c2s[k].cmd.key
            \/ \E j \in 1..(k - 1) : c2s[j].op = "NEWKEY" /\ c2s[j].chat = c2s[k].chat
                                     /\ c2s[j].key = c2s[k].cmd.key

\* None of the assertions that the queue and strongvelope make of each other is falsified by
\* the order of confirmations, rejections, key confirmations and reconnections: what is taken
\* from the front of a queue is what the server speaks of.  The one that a change of members
\* overtakes a message that was marshalled with the old ones can be (chatd.cpp 3649-3652).
AssertionsHold == failed \subseteq {"postMsgToSending: recipients are the participants"}

\* A message whose row a commit made durable stays durable, in the queue or in the manual
\* queue, until the server has it: a crash at any moment does not lose it.
Stored(image, c, n) == \E r \in ToSet(image[c].sending) \cup ToSet(image[c].manual) :
                          IsNew(r) /\ r.n = n
CommittedKept ==
    [][\A n \in DOMAIN created : LET c == created[n].chat IN
          Stored(disk, c, n) => Stored(disk', c, n) \/ Contains(srv'[c].log, n)]_vars

\* With drops that end and a process that lives, every message the application submits is
\* accepted by the server or handed back.
Settled(n) == LET c == created[n].chat
              IN  Contains(srv[c].log, n) \/ \E r \in ToSet(dbManual[c]) : IsNew(r) /\ r.n = n
EverySubmitSettles == \A n \in Numbering : (n \in DOMAIN created) ~> (n \in DOMAIN created /\ Settled(n))

-----------------------------------------------------------------------------
(* What the application relies on: module Outbox, implemented by this one. *)

InChat(c) == Kept([n \in DOMAIN created |-> n], {n \in DOMAIN created : created[n].chat = c})

O == INSTANCE Outbox WITH
        Messages  <- Numbering,
        submitted <- [c \in Chats |-> InChat(c)],
        accepted  <- [c \in Chats |-> srv[c].log],
        returned  <- [c \in Chats |-> {i.n : i \in {r \in ToSet(dbManual[c]) : IsNew(r)}}],
        refused   <- [c \in Chats |-> {n \in srv[c].refused : n > 0}]

\* Messages are accepted once, in the order submitted but for those refused before, and a
\* message handed back to the application is not accepted as well.
ImplementsOutbox == O!Spec

=============================================================================
