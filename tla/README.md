# MEGAchat in TLA+

MEGAchat is the C++ library behind MEGA's chat: an application links it, calls
`MegaChatApi`, and the library keeps connections to the chat servers (chatd),
the presence servers (presenced) and the call servers (SFU), a local database,
and the encryption of everything it sends (strongvelope).  This directory holds
TLA+ modules translated from that source, configurations that TLC checks on
small instances, and proofs that TLAPS checks for every instance.

Paths below are relative to `src/` of the repository unless they name a file
of this directory.

## Inventory

Almost everything runs on one thread, the one with the event loop ("main
thread").  Application calls take the SDK mutex, do part of their work at once
and post the rest ("marshall") to the main thread.  So the hard behaviours are
orders of callbacks, not data races: an answer that arrives after what asked
for it has been replaced, a closure that runs on a queue that has changed, a
crash between two commits, a resend of what was already done.

| Component | Source | State | Operations | Interacts with |
| --- | --- | --- | --- | --- |
| Output queue | `chatd.cpp` (`Chat`), `chatdDb.h`, `db.h` | `mSending`, `mNextUnsent`, `mEncryptionHalted`, tables `sending` and `manual_sending` | submit, edit, encrypt, flush, confirm, reject, hand back, reload | strongvelope (promises), connection (`sendBuf`), history, listener |
| Send keys | `strongvelope/strongvelope.cpp` | `mCurrentKey`, `mUnconfirmedKeys`, local key ids | encrypt, new key, confirmed, rejected, reload | output queue, user attribute cache |
| Connection | `chatd.cpp` (`Connection`) | `mState`, timers, `mRetryCtrl`, URL flags | connect, reconnect, DNS and URL answers, socket callbacks, heartbeat, echo | retry controller, DNS cache, websocket, every chat of the shard |
| Retry controller | `base/retryHandler.h` | state, attempt, timers | start, try, time out, wait, restart, abort | connection, presenced, SFU |
| DNS cache | `net/websocketsIO.cpp` | per shard: URL, addresses | add, update, invalidate | connections |
| Websocket | `net/libwebsocketsIO.cpp` | context, output buffer | connect, write, close | connections |
| History | `chatd.cpp` (`Chat`) | forward and backward lists, fetch state, halted decryptions, last seen and received | fetch, decrypt, truncate, retention | strongvelope, database, listener |
| Attachments | `chatd.cpp` (`FilteredHistory`) | its own buffer and fetch state | add, truncate, fetch | history |
| Reactions | `chatd.cpp` | per message and pending, sequence number | add, delete, confirm | history, strongvelope |
| Seen and unread | `chatd.cpp` (`Chat`) | last seen, last received, unread count, timer | mark as seen, count | history |
| Presence | `presenced.cpp` | connection, preferences and their acknowledgement, activity, contacts | login, set, acknowledge, reconnect | presenced, SDK, rooms |
| Calls | `rtcModule/webrtc.cpp` (`Call`) | state, timers, flags of destruction and reconnection, peer connection | start, join, hang up, delete, reconnect | chatd, SFU connection, webrtc |
| SFU connection | `sfu.cpp` (`SfuConnection`) | state, timers, controller, queue of commands | connect, send, disconnect, handle the SFU's commands | call, websocket |
| Peers of a call | `rtcModule/webrtc.cpp` (`Call`) | sessions, verifications under way, media keys | add, verify, remove a peer; send and use a key | SFU connection, user attributes |
| Client and rooms | `chatClient.cpp` | init state, rooms and their members, sequence number of the SDK, tables `chats`, `chat_peers`, `vars` | init, connect, sync with the API, answers to own requests | SDK, chatd, everything |
| User attributes | `userAttrCache.cpp` | cached items and callbacks, table `userattrs` | get, subscribe, fetch, notify, invalidate | SDK, strongvelope, rooms |
| Application API | `megachatapi_impl.cpp` | request queue | wrap, marshall | client |

What makes each correct, in a line: the output queue never loses, duplicates or
reorders a message; the keys sent to the server are those the messages are
encrypted with; a connection always has something that will retry; the history
is the server's log; a fetch ends and a decryption is not left halted;
preferences and contacts converge to the server's; a user who is not in a call
has neither its socket nor its media; the sessions of a call are the clients in
the meeting, and they can decrypt what is sent to them; a room has the members
that the API and chatd say it has, and so have its rows; an attribute is not
older than the last change the client was told of, but for the two cases below in which
the code has no second look, and every attribute that is asked for is answered.

## Modules

* `ChatdSending.tla`: the output queue with the send keys, the connection as a
  pair of channels, and the server.  `MCChatdSending.tla` instantiates it.
* `Outbox.tla`: what sending promises the application, with four variables and
  four actions.  `ChatdSending` implements it (`ImplementsOutbox`) through the
  refinement mapping at its end.  `ChatdSending_proof.tla` holds the inductive
  invariants and the theorems of `ChatdSending`.
* `ChatdConnection.tla`: one connection with its retry controller, DNS record,
  socket and timers.  `MCChatdConnection.tla` instantiates it,
  `ChatdConnection_proof.tla` holds its inductive invariant and theorems.
* `ChatdHistory.tla`: the history of one chat, in RAM and in the table, with the
  fetches from the server, the decryptions that wait for a key, and the session
  of the application.  `MCChatdHistory.tla` instantiates it,
  `ChatdHistory_proof.tla` holds its inductive invariant and theorems.
* `SfuCall.tla`: one call and its connection to the SFU: how it is joined,
  reconnected, left and destroyed.  `MCSfuCall.tla` instantiates it,
  `SfuCall_proof.tla` holds its inductive invariant and theorems.
* `CallPeers.tla`: the peers of that call and our media keys.  `MCCallPeers.tla`
  instantiates it, `CallPeers_proof.tla` holds its inductive invariants and theorems.
* `UserAttrCache.tla`: the attributes of one user.  `MCUserAttrCache.tla` instantiates
  it, `UserAttrCache_proof.tla` holds its inductive invariant and theorems.
* `Presence.tla`: the client of presenced.  `MCPresence.tla` instantiates it,
  `Presence_proof.tla` holds its inductive invariant and theorems.
* `ChatRooms.tla`: the client and one group chat of its list.  `MCChatRooms.tla`
  instantiates it, `ChatRooms_proof.tla` holds its inductive invariant and theorems.

The first three components meet in `Chat` and `Connection`: the connection tells every
chat that it is up (`login`, in `ChatdHistory`) or down (`onDisconnect`); the
HISTDONE that ends the login makes the chat online, and the output queue is
flushed (`ChatdSending`); a confirmed message leaves the queue and enters the
history.  Each module keeps of the others what it needs: `ChatdSending` a history
of its own messages only, `ChatdHistory` the confirmations only, both a
connection that drops and comes back.  `SfuCall` and `CallPeers` divide the class
`Call`: the first has its connection and treats the peers as media, the second
has its peers and loses the connection in the three ways the first can.
`ChatRooms` meets `Chat` where chatd tells a room of a JOIN, and keeps of a chat
its connection, our privilege and its users.  `UserAttrCache` and `ChatRooms`
share the order in which the SDK's thread posts its calls, the commits that carry
its sequence number among them.

### ChatdSending

One user with one shard.  A chat is public (one unified key, no NEWKEY) or
private (a key for each set of members).  Names are the source's:

| Model | Code |
| --- | --- |
| `mSending[c]`, a sequence of items | `Chat::mSending`; an item has the row id, opcode, message, id (`x`: msgxid or msgid), recipients, and the commands once encrypted |
| `mNextUnsent[c]`, a position | the list iterator; `Len + 1` is `end()`, 0 an iterator to an erased element |
| `pending[c]` | the closure of the encryption promise of `msgEncryptAndSend` |
| `dbSending`, `dbManual`, `history` | the tables `sending`, `manual_sending`, and our messages of `history` (RAM and table) |
| `disk`, `Commit`, `Autocommit` | the open transaction of `db.h`, committed by a timer, or at once when all chats are online |
| `calls` | lambdas posted by `marshallCall` |
| `c2s`, `s2c` | the commands on the websocket, in order, lost when it drops |
| `srv`, `srvMsg`, `Server*` | chatd, external: inferred from how the client uses it |

An action is a handler with all the calls it makes: for instance `RecvHistdone`
is `onJoinComplete` with the flush of the whole queue, each item encrypted in
turn until one has to wait.  A queue with its rows and its iterator is one
value, `Queue(c)`, so that "remove the front" is an operator several handlers
share, as in the code.  Where the code would dereference a null pointer or a
dangling iterator, the process dies and starts again from the disk
(`KeyConfirmDies`, `Restart`); where an assertion of the source is false the
model records its name in `failed` and goes on as a build without assertions
does.

Content is the number of the edit that wrote it; a key id is 0 (invalid),
negative (local) or positive (confirmed); recipients are a number that names a
set of members.  Only what the queue tests is kept.  A crash loses whatever was
not committed, the socket, and the marshalled calls; keys and queue are rebuilt
from the rows, in any order of the chats.

The two statements of `moveItemToManualSending` are one step: a crash between
them is possible only while every statement is its own transaction, and is
listed among the hazards.

### ChatdConnection

The members of `Connection` are fields of the record `conn`, and a method is a
function from record to record, because the methods call each other
(`retryPendingConnection` calls `setState`, `abortRetryController`,
`reconnect`, which starts a controller, which runs an attempt, which may
connect).  One action is one callback of the event loop: the answer to an URL
request, a DNS answer, a socket callback, a timer, an application's retry.

A DNS answer finds its attempt by the address and attempt number of the
controller; addresses come from a set of two, so a new controller may or may
not be allocated where the deleted one was.  The network is `good`, `half`
(`wsConnect` fails and there is no second address to try, so the state stays
Connecting), `down` (it fails for both, which closes the attempt) or `no dns`
(`wsResolveDNS` fails at once).  The last is returned as a `bool`, so the
attempt goes on as if it had been asked: with cached addresses it connects,
without any it waits in Resolving for its timeout.  When `resolve()` of a promise that is done throws, the
process is taken to start again.

### ChatdHistory

A message is named by its place in the server's log, so that "contiguous" is
arithmetic.  The members of `Chat` are fields of the record `h`, with the names of
the source, and a method is a function from record to record, as in
`ChatdConnection`.

| Model | Code |
| --- | --- |
| `h.low`, `h.ram` | `mBackwardList` reversed, followed by `mForwardList`: the window, whose first index is `lownum()` |
| `h.ram[i].pend` | `isPendingToDecrypt()` |
| `h.db` | the table `history`: a function from index to message |
| `h.mServerFetchState`, `mLastServerRequested`, `mLastServerHistFetchCount`, `mNextHistFetchIdx`, ... | the members of the same names; a request is its positive count |
| `mDecryptNewHaltedAt`, `mDecryptOldHaltedAt` | the members, with the message the closure of `msgDecrypt` holds |
| `mFetchRequest` | the length of the queue of the same name (only messages are fetched here) |
| `h.marshalled` | the counts of the `requestHistoryFromServer` posted by `getHistoryFromDbOrServer` |
| `h.open`, `loaded`, `live`, `waiting` | the application: has the room open, was given by `onRecvHistoryMessage`, by `onRecvNewMessage` and `onMessageConfirmed`, and has been promised an `onHistoryDone` |
| `log`, `cursor`, `down` | chatd, external: the log, how far back this connection has read, and the commands on their way |

Receiving a command is one action with everything it sets off: an OLDMSG is
added, decrypted if its key is known, stored, and given to the application.  A
message whose key is in `LateKeys` halts decryption in its direction until
`KeyArrives`, which decrypts the rest up to the next such message.  A login is
JOIN with HIST, or JOINRANGEHIST with the oldest row and the newest message, and
the server may reject the range, which reloads the history.

A truncation that the client hears of as an update of a message not in RAM has no
effect, as in the code (`onMsgUpdatedAfterDecrypt`, chatd.cpp:4828-4840).  An
insert that violates a key of the table is ignored (`CALL_DB` catches the
exception).  A restart keeps every row: it is an end of the process that commits
its transaction, unlike the crashes of `ChatdSending`.

### SfuCall

| Model | Code |
| --- | --- |
| `call.mState`, `mConnectTimer`, `mIsJoining`, `mIsDestroyingCall`, `mIsReconnectingToChatd` | the members of `Call` with the same names |
| `call.mSfuConnection`, `mRtcConn` | whether the pointers are set |
| `call.request` | the request of `joinChatCall` (mcs) is in flight |
| `call.offers`, `answers` | continuations of `createOffer` in `joinSfu`, and of the keys and `setRemoteDescription` in `handleAnswerCommand` |
| `call.todo` | calls posted by `marshallCall`: the BYE was written, remove the call, leave it |
| `conn.mConnState`, `mConnectTimer`, `mRetryCtrl`, `mCommandsQueue`, `mIsSendingBye`, `mAvoidReconnect`, `mInitialBackoff` | the members of `SfuConnection` |
| `conn.ctx`, `out` | the socket, and the command libwebsockets has to write |
| `conn.sfu` | the SFU, external: what it has seen and said on this socket |

A method is a function of one record of call and connection, since the methods of
the two classes call each other.  An action is a callback: of the socket, of one
of the timers, a marshalled call, a message of the SFU, an event of chatd, an
answer of the API or of webrtc.  A continuation looks at the state of the call,
as in the code, and not at the attempt it was made for, so that a late one finds
another attempt.

### CallPeers

| Model | Code |
| --- | --- |
| `call.mSessions` | the map of the same name; `TRUE` is a peer whose key was verified |
| `call.mPeersVerification` | the promise of each peer: pending, resolved or rejected |
| `call.checks` | the calls of `verifySignature` under way, with the ANSWER or PEERJOIN they belong to |
| `call.answers` | the continuations of `handleAnswerCommand`, waiting for keys or for the description |
| `keys.mCurrentkeyId`, `mKeyMap` | our keys; ids start again after `LastKeyId` (255 in the code) |
| `keys.rotations`, `timers` | keys that wait for the public keys of the peers, and for `kRotateKeyUseDelay` |
| `keys.got`, `encryptor` | what each peer was sent, and the key in use by `MegaEncryptor` |
| `sfu` | external: who is in the meeting, and the commands on their way to us |

`keys.clash`, `call.stale` and `sfu.ghosts` record, for the properties, the three
cases in which the code does not keep them.  A client that has left comes back
as another client, as in the SFU, so each is in the meeting once.

### UserAttrCache

A value is the number of changes its attribute has had, so that "older" is
arithmetic.  `cache.items` is the map of items with their `mPending`, their value, and
whether someone subscribes (`watched`) or waits for one answer (`asked`); `names`
are the fetches of a full name, each with the parts it waits for; `rows` is the
table in its open transaction, `disk` what is committed, with the sequence
number.  `requests` are with the SDK, each with the value that the server read when it
executed it (`ServerReads`, in the order sent); the answer is delivered in another
step (`SdkAnswers`), so that a change and its notification may come in between.
`channel` is what the SDK's thread has marshalled: answers, changes, commits and reloads,
in the order posted.  `told` counts the changes the client was told of, `orphans` are
the attributes whose row was written when their item was no longer in the map, and
`overtaken` those with an answer that was read before a change and came after its
notification; the three are history variables.  A part of the full name has no
subscribers of its own (`Watchable`): nothing in the source subscribes to one, the names
are only asked for once (megachatapi_impl.cpp:1361, 1395).
A restart keeps the committed rows, or those of a timed commit, which does not
write the sequence number; `Connect` is the login with `checkSyncWithSdkDb`.

### Presence

`mConnState`, `mConfig`, `mPrefsAckWait`, `mLastSentUserActive`, `mContacts` and
`mLastScsn` are the members; `peers.calls` are the calls marshalled by the SDK's
thread (`onEvent`, `onUsersUpdate`), which read the contacts when they are posted or
when they run, as the code does; `peers.exes` is a history, of the ex-contacts that were in
the last list and have not been contacts since.  Preferences are encoded in 16 bits (`ToCode`,
`FromCode`), 11 of them for the timeout, in seconds up to 600 and then in minutes: the
conversion is exact on what it decodes and rounds what it encodes.  `presenced` is
external: it keeps the preferences, answers HELLO and PREFS with them, and tells a client
of the changes of another.  How a connection is established is like in
`ChatdConnection` and is one step here.

### ChatRooms

The chat is a log of versions, each a function from users to privileges; a
sequence number is a position in it.  The API and chatd have the same log.

| Model | Code |
| --- | --- |
| `sdk` | external: whether it has fetched the account, the version it knows and the one on its disk, our request in flight |
| `posted` | what its thread has marshalled: `fetched` (TYPE_FETCH_NODES), `chats` (`onChatsUpdate`), `commit` (EVENT_COMMIT_DB), `answered` (a continuation of our request) |
| `k.mInitState`, `connected` | the client's init state and whether `connect` has run |
| `k.known`, `priv` | the room is in the list; `mPeers` and `mOwnPriv` as one function |
| `k.link`, `asked`, `online`, `disabled`, `mOwnPrivilege`, `mUsers` | the connection of the chat, a JOIN not answered, and the members of `chatd::Chat` |
| `k.db`, `disk`, `k.commitEach` | the rows as the open transaction has them, as committed, and whether each statement commits |
| `chatd` | external: whether we are subscribed, the commands on their way |

`MainThread` runs one marshalled call with everything it does, for instance the
synchronisation of the room (`syncWithApi`) after a full reload; `Receive` executes
one command of chatd.  The init state of a `fetched` call is the one read when it was
posted, on the SDK's thread (chatClient.cpp:1556).  `setPrivilege` writes the row and
leaves the room to the JOIN that follows (2966-2982).  A removed user who comes back is
told everything by chatd, whose subscription of them goes on.  The answer to a request of ours
is taken to be posted before the packets of later changes, which the API orders;
a chat that disappears is told of only by a list of all the chats.

## Runs

| Run | Instance | States | Shows |
| --- | --- | --- | --- |
| `send` | 1 private chat, 2 messages, 1 change of members, 2 of privilege, 1 drop | 13,604 | order, exactly once (`ImplementsOutbox`), key before message, the assertions of the queue, everything settles (fairness) |
| `edits` | 1 public chat, 2 messages, 2 edits, 1 edit by another client, 1 drop, 1 second | 648,169 | rows mirror the queue, the history stays a prefix of the log |
| `crashes` | 2 chats, one public, 2 messages, 1 change of members, 1 crash, keys that arrive late | 436,298 | what was committed survives |
| `connection` | 3 faults, 2 early timers, 1 call, 2 DNS queries, 2 addresses, 2 IPs | 380,297 | supervision, clean handover, one URL request, ends up online (fairness) |
| `history` | 3 messages, 1 more, of this client or another; 1 truncation, 1 drop, 1 restart, 1 rejected range, 2 loads of 1 or 2 messages; every key known | 87,679 | the window is contiguous, the rows are numbered like it, what was truncated stays away, the newest message arrives (fairness) |
| `late_keys` | 3 messages, 2 more, 3 of them with late keys, the room opened twice, 3 loads | 17,280 | the start of history is recognised, every message is stored and every load ends (fairness) |
| `calls` | with and without a waiting room, 1 fault, 1 slow answer, 3 calls of the user or of chatd, 1 unasked message | 186,921 | whoever has left is closed, the connection is supervised, nobody leaves without a BYE, a deleted call goes away (fairness) |
| `peers` | 2 other clients, key ids up to 2, 1 loss of the connection, 1 failed verification or description | 721,729 | sessions are the meeting, keys reach everyone, frames are encrypted with the key that was sent |
| `attributes` | both names, the full name and the email, with subscribers of the last two; 1 change, 2 gets, 1 failed request, 1 restart or reload | 1,096,225 | but for orphans and overtaken answers, nothing is staler than what was told, in RAM and in the table, and subscribers are up to date; every promise settles (fairness) |
| `presence` | 1 user who comes and goes as a contact, a timeout of 690 s, 4 events | 858,292 | preferences and contacts agree with presenced; an acknowledgement is not awaited for ever (fairness) |
| `rooms` | our user and 1 peer, 2 privileges, 3 versions, 1 request, 1 drop, 1 crash, 1 reload | 819,639 | rows match the room, the room matches the chat, the chat is joined (fairness) |
| `loaded_twice` | 3 messages, one of them with a late key, 2 loads of 1 or 2 messages | stops at the violation | a disagreement between the source and what it says of itself |

Bounds.  Two messages are enough for order, overtaking and for a key shared by
two items; two edits for an edit of an edit; one drop for a resend, and with two
messages the drop can come with either, both or none confirmed; two privilege
changes are a loss of access and its return; two chats are enough for a
confirmation to be tried on the wrong one.  In `connection` two addresses are a
reused and a fresh one, two queries an answer of before and one of now, and
three faults are enough for a failure of the network, of an API request and of
the socket in one behaviour.  In `history` three messages are one fetched at the
login and two that are left for later, so that a load of two reads from RAM and
from the table or the server, and the one that follows crosses the truncation,
the drop or the restart; fetches of one leave the login with history to fetch.
In `late_keys` the late ones are the newest at the login, the first of a fetch of
two, and the first of two new ones, so that both halts occur, with and without a
message that waits behind.

In `calls` three calls are a join, a hang-up and a deletion, or the loss of chatd and
its return in between; one fault and one slow answer make a second attempt that the
continuations of the first can meet.  In `peers` two peers are one who is in the ANSWER
and one who joins or leaves while it is worked on; three ids let them start again.  In
`attributes` one change, one restart and two gets let a request be executed and answered
before, between and after them and the notification of the change.  In `presence` four events are two changes of preferences, a loss of
the connection and a change by another client, or a reload with a contact that changes
between its two steps; 690 seconds are rounded.  In `rooms` three versions are an
invitation, a removal and a return, or a request of ours between the changes of others; crash
and reload come once each, with the drop before, between or after.  Every bound is a
constant named in the module and a conjunct of the actions it limits.  Deadlock is not
checked: a behaviour that has spent its bounds and is quiet has nothing left to do.

Fairness.  `ChatdSending!FairSpec` is weak fairness of what is not a fault: the
main thread runs what is posted, the server answers what it has received, the
connection is retried, keys asked for arrive or fail.  A retry is justified by
the runs and the proof of `ChatdConnection`: a connection that is down has a
retry controller and a connect timer.  `ChatdConnection!FairSpec` is the same of
answers, timers and the return of the network.  `ChatdHistory!FairSpec` is
weak fairness of the login, of the delivery of commands, of what is posted to the
main thread and of keys: `msgDecrypt` settles its promise whether the key comes or
not, and a failure decrypts the message as undecryptable.  `SfuCall!FairSpec` has
the loop run what is marshalled, libwebsockets write and connect, timers of the
back-off expire, the API, the SFU and webrtc answer, and the SFU drop a client
that does not join.  `UserAttrCache!FairSpec` has the server execute what it is sent, the SDK
answer it and the loop run what is posted, each written with the condition under which
it is enabled, which spares TLC the ENABLED; `Presence!FairSpec` has the client connect, presenced answer and
the loop run; `ChatRooms!FairSpec` has the SDK fetch, update and answer, chatd answer a
JOIN, the loop run and the connection come back.  `CallPeers` needs none.  The
application, the other clients, the members and the faults have no fairness.

What the properties leave out, each because the code does not keep it there:

* `EverySubmitSettles` is checked with keys in the cache and without edits or
  crashes: a posted call that a crash loses is no one's to keep.
  `ImplementsOutbox` and `AssertionsHold` likewise, and the second excepts the
  assertion that a message's recipients are the participants, which a change of
  members overtakes.  `DbMirrorsQueue` is checked for public chats with their keys, and
  asks nothing of the delta of an item whose content an edit has replaced, which the row
  does not have (see below).
* The properties of `late_keys` are checked without drops, those of `history`
  without late keys.  A request that is posted before a drop runs after it and is
  taken for one of the new connection (`HaveAllIsRight`); a drop during decryption
  leaves `waiting` (`LoadsEnd`); an old message that still waits for its key when
  the connection returns is not in the table, so that the login asks for it again
  (`WindowContiguous`, `HasMoreIsRight`); and a message truncated while it waits is
  stored afterwards (`TruncatedGone`).
* `EventuallyOnline` excepts the state `NoUrl`: `fetchUrl` that fails leaves the
  connection in `FetchingUrl` with no retry (chatd.cpp:1236-1246).
* `DestroyedEventually` excepts a connection to chatd that comes back while the
  call is being destroyed and drops its socket (chatd.cpp:6087), an SFU that has
  just ended the call, and a connect timer that a late offer has left running.
* `SessionsMatchMeeting` excepts the sessions of clients that left while we were
  joining again, which the code keeps, and, with `FramesReadable`, a call that
  used the ANSWER of another connection; `FramesReadable` also two rotations with
  one id.
* `Fresh` excepts attributes whose row was written after their item was erased, and, with
  `SubscribersUpToDate`, those with an answer that was overtaken by the notification of a
  change: `onUserAttrChange` ignores a change of an item that is being fetched
  (userAttrCache.cpp:259-266), so that the value is old, in RAM and in the table, until the
  attribute changes again or the cache is invalidated.  TLC finds both properties violated
  without the exception.  `SubscribersUpToDate` is of a cache that was not invalidated
  as a whole.
* `PeersAgree` excepts a contact that changed between the two steps of a reload
  (`api.missed`).
* `RoomAgrees` excepts members whose removal was said on a connection that ended
  before it was heard, and those whom our own removal, lost like that, would have removed
  (`chatd.unheard`); `JoinedInTheEnd` a chat that was disabled.

## Where the source disagrees with itself

The run `loaded_twice`: a HISTDONE that comes before the key of an old message does not
move `mNextHistFetchIdx`, nor does the decryption: `loadMessages` gives the
messages of that fetch again, though its documentation promises strict order.

These were met while modelling; the models follow the code, and no run is kept
for them:

* A NEWMSGID is offered to every chat; one whose queue starts with an MSGUPD takes
  it, falsifying `assert(msg->isSending())` (chatd.cpp:4352).
* An edit whose encryption fails removes the front of the queue by id, which is the
  original message, in flight: it is reported as not sent and the server accepts it
  (chatd.cpp:3759).
* A failed encryption does not call `resetSendKey`, whose comment describes this
  case (chatdICrypto.h:112-119); the next message goes under a key never sent.
* `wsResolveDNS` returns a `bool` (libwebsocketsIO.cpp:150-155), and chatd.cpp:991 tests it for
  an error code below zero, which it never is.  A request that failed at once is followed by a
  connection to the cached addresses, "futile" as the comment at 997-998 calls it, and without
  them by nothing until the attempt times out.  sfu.cpp and presenced.cpp do the same.
* `mFetchingUrl` stays set after a refused request, and `refreshUrl()` is ignored
  from then on (chatd.cpp:575, chatd.h:476).
* An own message is stored when it is confirmed, also while an earlier message waits
  for its key (chatd.cpp:4391).  `addMessage` asserts that this cannot be
  (chatdDb.h:72-81), and after a restart in between the earlier message is never
  fetched again.
* `updateSendingItemsContentAndDelta` writes the content alone (chatdDb.h:145-149).
  `msgModify`, which sets the delta of the message it was called for, calls it to update
  "original content+delta" (chatd.cpp:3797-3798, and the log at 3862).  After a
  restart the message has the content of the edit and the delta it was submitted with;
  `DbMirrorsQueue` says that no other delta differs.
* `onUserAttrChange` does nothing for an item that is being fetched, and asks itself:
  "Shouldn't we schedule a re-fetch?" (userAttrCache.cpp:262).  An answer that the
  server read before the change stays, if it is delivered after the notification.
* REACTIONSN is sent before JOIN (chatd.cpp:490-498), chatdMsg.h:476-479 wants it
  after.  Every HISTDONE drops the pending reactions (chatd.cpp:2762-2783), also that
  of a fetch, though chatd.h:1395-1397 says that chatd has applied them all by then.
* `generateNextKeyId` counts from the key in use (webrtc.cpp:3093), so that two
  rotations within the delay of 3203-3204 have one id, and a peer keeps the later key
  for frames of the earlier.  A verification that ends on a lost connection reaches
  `assert(mRtcConn)` (webrtc.cpp:1724), and the sessions of clients that left
  meanwhile stay.
* `invalidate` marks every item of the cache to be fetched at its next use
  (userAttrCache.cpp:577); userAttrCache.h:143 says that it "re-fetches all
  registered queries": subscribers are not told until someone asks.
* USERACTIVE is to be sent also "right after connecting to presenced"
  (presenced.h:114-115).  It is not when a change of preferences waits for its
  acknowledgement at the login (presenced.cpp:1283), and a user who is active as
  before the reconnection is not signalled later either (1148).
* A room we come back to "needs to send a new JOIN" (chatClient.cpp:4246-4256) and
  skips it while an older one waits to be rejected: the REJECT then disables the chat.
* The migration of the database from schema 14 to 15 does not write
  `schema_version` (chatClient.cpp:439-453), as those before it do, so that the next
  start takes the database for one of schema 14.

## Proofs

`ChatdConnection_proof` proves for every limit of connections, set of addresses
and bound, from `AddressAssumption` and `ConnectionAssumption` alone:

* `TypeCorrect`, `AlwaysSupervised`, `AlwaysCleanHandover`,
  `AlwaysOneUrlRequest`: the four invariants of the run `connection`.
* They follow from `Soundness`, the inductive invariant `IInv`.  The four
  invariants are not inductive as they stand, for methods are called in the
  middle of a handler, where they do not hold (a connection being restarted has
  neither socket nor controller).  The invariant therefore says what a record is
  like when a handler is over, and each method has a lemma that says which of
  its parts it needs and which it re-establishes (`DisconnectedSound`,
  `AttemptSound`, `ReconnectSound`, `RefreshSound`, `RetrySound`, ...).  A step
  of `Next` is then one lemma per action that composes those of its methods.

`Presence_proof` proves `PresenceTyped` and `PreferencesAgree` for every set of users, every
set of timeouts a user may choose and every number of events, from
`PresenceAssumption` (timeouts up to `kMaxAutoawayTimeout`, 87420 s, presenced.h:262,
which is what makes them fit in 11 bits).  That preferences agree once everything has
arrived is inductive only with what is on the way: presenced hears HELLO first and says
nothing before (`HelloFirst`), and the preferences it has are what it says last, or it is
yet to answer (`LastWord`).  The lemmas `Minutes` and `CodeRoundTrip` say that a
configuration that came from a code goes back to the same code, without which the client
and presenced could send each other new values for ever.

`ContactsAgree`, in the same module, is about the contacts.  Once everything has arrived
presenced follows a user if and only if the account has it for a contact or the user is an
ex-contact that was in the last list sent and has not been a contact since: `pushPeers()`
lists the ex-contacts too, so that the set is wider than the contacts, and the history
`peers.exes` says by whom.  A DELPEERS that were lost, or a user nobody asked for, would
violate it.  Inductive is that each of these users will be known, and everybody else will
not, once what was sent has been read (`Watches`: the last command about a user that brings
or takes it, `Gives` and `Takes`); and that the last call about a user that waits for the
loop says what the account has and will not be ignored (`UpToDate`).

`CallPeers_proof` proves the four invariants of the run `peers` for every set of clients,
every number of joins, departures and losses of the connection, and every key, from
`PeersAssumption`.  It is built in layers, each an invariant that uses those below: the types
(`Types`), the meeting (`Meeting`: what our client has and what it will be told add up to
who is there, each once), the keys (`Converging`: a peer without the key in use has it on
the way, or a rotation is under way that will send it one), and the frames (`Frames`: the
keys sent under one id are the same until the id comes round).  The last needs a
hypothesis that the others do not, `FewEnough`: no more clients than key ids.  A client
in the model joins a meeting once and makes us rotate once, so that under `FewEnough` the
ids never come round in a connection (`Numbered`); when they do, TLC finds a frame that was
encrypted with another key than the one a peer has under its id.  The code has 256 ids
(`Keyid_t`, 8 bits).

`UserAttrCache_proof` proves `TypeOKHolds`, `FreshHolds` and `SubscribersUpToDateHolds` for every set of attributes in
any order, every part of the full name, and every number of changes, requests, faults,
restarts and reloads, from `CacheAssumption`.  The methods are functions of the cache; a
lemma each says that it keeps the types (`Typed`) and which of three things it does to
values: it asks and changes none (`Fetches`), it takes them away (`Ages`), or it sets
one (`Answers`).  That nothing else is older than what the client was told rests on the order of what is
marshalled to it (`UnderWay`): between the changes it has been told of and
those the SDK knows there is a position for every message, a change takes the client
from one to the next, a commit has it for number.  Of an answer nothing is
assumed but that it is a version: one that is too old where it is received makes its
attribute one of the `Excepted`, the orphans and the overtaken.
What is in memory and in the table answers for the position of the client (`Memory`),
what is on disk for the sequence number next to it (`Saved`), and a row has its item in
the map unless it was written as an orphan (`RowsKnown`), which is why a change finds it.

That subscribers are up to date (`SubInv`) needs more, for nothing that is shown is
compared with the server again.  An item whose value is to be fetched has been asked for:
a request or an answer that it holds is under way (`Prompt`), through erasures, which
let go of requests, and changes, which make new ones.  A subscriber of an item that is
not to be fetched was given its value (`Shows`).  The full name is where it could go
wrong, for it takes the parts that are there when it is fetched and waits for the others:
it waits only for parts that are fetched for the first time, and the last fetch for all that
an earlier one waits for (`NamesWait`), so that the last is complete last and its value stays;
and the parts of the last are not too old but for an overtaken answer (`Whole`), since a change of a part asks for the
name again, after the part (`OnUserAttrChange`).  A method has a lemma for this
(`...Careful`) next to the one for its types.

`ChatRooms_proof` proves `RoomsTyped` and `RowsAlwaysMatch` for every finite set of peers,
every set of privileges with a greatest one and every bound, from `RoomsAssumption`.  One
lemma per method of the room and of the client says that it keeps rows and room alike
(`Keeps`, or `Moves` for those that change the init state), one per action composes
them.  That rows and room have the same members after a restart needs more: rows
without a sequence number are empty and there is a session exactly with one (`RoomsInv`), until a
session is online nothing is marshalled but the answer to one fetch, with the init
state of now (`FetchInv`), and a client with a session has an SDK with something on
disk (`DiskInv`).

It also proves `RoomAgreesHolds`, that the room is the chat's once everything was heard,
from the same assumption.  What is on the way has to be said for every state before that
one, which the invariant `AgreeInv` does, unless the chat is gone (`Gone`), in parts:

* sequence numbers only grow, from the committed rows over the rows, the SDK's disk and
  what is marshalled to the SDK (`OrderInv`): rows never claim a version that a restart of
  the SDK would not tell again;
* what is marshalled says what its version says (`TrueInv`), and what is out of date is
  followed by what is not before the rows take its number (`StaleInv`).  `Due` says that
  the room will be synchronised with the last version yet;
* a chat that joins has asked, or has the list of its users on the way up to HISTDONE, and
  is online after it (`PhaseInv`); of what chatd has on the way, the last word on each user
  is right (`LastWordInv`), and our removal finds us among the users (`FindsUs`);
* of whom nothing more is said, the chat knows the privilege, and the room does or is due
  (`HeardInv`); whoever is in the room or the committed rows and not in the chat is to
  be removed by what is on the way, or chatd's word of it was lost (`ExtraInv`).

There is a lemma per action for the numbers (`...Order`) and one for the rest (`...Core`).
A JOIN is proved for four cases, a user listed, a user changed, a user removed and ourselves
removed, each with the order in which `Receive` runs the methods.  Each part was
checked first on instances wider than that of `rooms`: two peers and five versions with a
lost connection, and one peer and four versions with one of every fault.  The first
showed that `chatd.unheard` was too narrow: our own removal is that of all
users (`onUserLeave`), and when it is lost with the connection, and we come back, whoever
was removed with us stays in the room as well.

`SfuCall_proof` proves for every bound, from `CallAssumption` alone, the four safety
properties of the run `calls`: `CallTyped`, `LeavingCloses`, `AlwaysSupervised` and
`LeavesWithBye`.  Methods are functions of a record with the call and its connection, so a
lemma per method says what it keeps (`Retried` for those of the connection, `Good` for
those of the call), and a lemma per action composes them.  `Supervised` is inductive once
it says on which state each timer acts (`Watched`: the timer of the backoff only reconnects a
connection that is disconnected).  That nobody leaves without a BYE (`Silent`, a
property of steps) needs to know what a marshalled call finds when it runs (`Good`): while
something is marshalled the socket is closed or the SFU has ended the call or
seen a BYE, and while a BYE is being sent, it is what libwebsockets
has to write, or was lost with the socket, or what follows it is marshalled.

`ChatdHistory_proof` proves the four invariants of the run `history`, `WindowContiguous`,
`RowsFollowWindow`, `HasMoreIsRight` and `TruncatedGone`, for every length of the log, every
count that is fetched and every number of messages sent, drops, restarts, rejected ranges,
truncations, sessions and calls, from `HistoryAssumption` and `KeysKnown`: the key of a
message is known when it arrives, as in the run.  Without the second they do not hold (see
above, `late_keys`).  None of the four is inductive, for whether the next command keeps the window
contiguous depends on what is on its way.  The invariant (`Consistent`) has two sides:

* of the chat, that it is empty or `Holds` the messages from b to n: one shift between ids
  and indexes for the rows, which are all of them, and the window, which is the end of
  them; only b can be a truncation.  Each method has a lemma that says what it does to b and
  n: it leaves them alone (`Aside`), loads rows below the window (`Keeps`,
  `GetHistoryFromDbLoads`), adds at one end (`ExtendHolds`, `OldmsgHolds`) or cuts
  (`HandleTruncateHolds`, `NewmsgJumps`).  That the rows read are the ones next to the
  window, the newest first, is `ReadingOnce`, by the least row at which it would fail;
* of the server, that the commands on their way, however many, continue the messages from b
  to n at both ends (`Continues`), or what comes after a rejection does (`FromScratch`).
  What makes that inductive is the order of the commands (`InOrder`): old ones come newest
  first, new ones oldest first, nothing older than a truncation follows it, and a
  rejection is the first answer.  `Concatenated` and `Received1` say that
  the order survives an answer that is appended and a command that is received.

`ChatdSending_proof` proves, from `ChatsAssumption` and `BoundsAssumption` alone, the type
invariant `TypeCorrect` and `CommittedKeptHolds`: no step loses a message that a commit
made durable, whatever the chats, the keys that arrive late and the number of messages,
edits, changes, drops and crashes.  The invariant has two parts:

* `TypesInv`: the types, and what an item or a command may name.  A message has the row
  of its number and is one that was created in that chat; an edit has a row
  above those, unless it was a message that is in the log; the commands on their way, the log, the
  history and the disk name messages of their chat; a key that is announced is a local one,
  and public chats have none.
* `KeptInv`: what is on disk is in the tables, or the server has it.  The first is not
  inductive without the second half, since a confirmation deletes the row before the deletion is
  committed.

Each action has a lemma that says it is a `GoodStep`: it keeps `TypesInv`, it changes the disk
only to what the tables are then (`Committed`), and what it takes out of the rows of a chat is in
the log or moves to manual sending (`Spares`).  That a confirmation takes out a message that is in
the log needs `TypesInv`: a MSGID is on its way only for such a message (`Down`), and the row that
is deleted is the one of the message with that number.  The queue, the table and
the iterator change through `EraseAt`, `PassFront`, `RejectFront`,
`MoveItemToManualSending` and `FlushOutputQueue`, each with its own lemma.

`DbMirrorsQueueHolds` and `DbMirrorsUneditedQueue` say that the table sending holds the queue,
item by item, so that a restart finds what was to be sent.  Nothing compares the two in
the code but the number of rows, in debug builds: each place that changes `mSending` calls the
database for rows it selects in its own way, by rowid (`deleteSendingItem`,
`addBlobsToSendingItem`), by the id of the message (`updateSendingItemsContentAndDelta`), by that
and the opcode (`updateSendingItemsMsgidAndOpcode`), by the key (`updateSendingItemsKeyid`).  The theorems need `KeysCached`, that every
public key is at hand when a message is encrypted; without it the closure at chatd.cpp:3744
gives the queue and its row different commands, which TLC finds.  The first says that they are alike
as long as the assertion of `msgConfirm` that the items of a confirmed msgxid are edits held
(`Confirmed`, chatd.cpp:4410): where it fails in a release build, the queue takes each item of the
msgxid for an edit of the msgid and the table only those with the opcode.  TLC finds it true in each
instance tried with `KeysCached`, private and public, with edits, crashes and changes of users.
The second needs no such hypothesis but a client that requests no edits, `MaxEdits = 0`.
Inductive is `MirrorInv`:

* queue and rows have the same length and the same elements at each place, but for what the row
  has not (`Same`), with the same delta while the item has the content it was submitted with: an
  edit has a content that no item was submitted with (`OwnIsOld`);
* no two elements of a queue, or of a table, have the same row (`Unlike`), so that what is
  erased by row is one, and is the same in both (`EraseTends`, by `KeptPlaces`);
* what is marshalled has a row of its own, given out before and in no queue, table or image on disk
  (`CallsInv`, `Taken`), also after a restart that reads rows of long ago;
* a row without a command has no key, and an item with a command has one that is sent (`Plain`,
  `Proper`), so that an item read from its row is the item again (`LoadedIs`).

A change of queue and table is one of `Tends`, which composes: `EraseAt`, `PassFront`,
`RejectFront` and a flush, which `FlushWalks` describes by the items that it encrypts, each have a
lemma.  `MirrorInv` was checked by TLC on five instances before: one and two chats, private,
public and both, with edits, changes of users and privileges, drops and crashes.

Only model-checked: the other invariants of `ChatdSending`, which do not hold for every value of
its constants.  A private chat whose keys arrive late, or whose edited message waits for a key, can
send under a key the server has not seen (`KeyBeforeMessage`); the closure of an
encryption that waited for the unified key meets a queue that has changed (`AssertionsHold`, and
`DbMirrorsQueue` without `KeysCached`, the hazard at chatd.cpp:3744); `HistoryAgrees` is for
public chats.  TLC finds each when the bounds of the run that checks it are widened that way;
`HaveAllIsRight`, which a request that is posted before a drop breaks; liveness, since ENABLED
and fairness are beyond the prover; the refinement of `Outbox`.  What a recursive function computes is
proved where it is needed, by the least number at which it would fail (`LeastNat`,
`KeptType` in `UserAttrCache_proof`); what the folds and filters of the community modules
compute cannot, since they take an operator as a parameter, and `Kept` takes their place
where a proof needs it.  No module declares a RECURSIVE operator.

## Not modelled, and the plan

Not modelled and not planned: cryptography and wire formats, libwebsockets and
libuv, logging and statistics, bindings, examples, the copies and lists of
`MegaChatApi`.

The plan, in order:

1. `ChatdReactions` and `ChatdSeen`, which use the history's window: pending
   reactions against their confirmations, the reaction sequence number and reconnections;
   the timer of SEEN, the last message received and the unread count.
2. `ChatdHistory`, the rest: retention, the fetch of the last text message with its
   `mServerOldHistCbEnabled`, a rejected HIST; the history of attachments
   (`FilteredHistory`), which is fed by it.
3. `ChatRooms`, the rest: 1-on-1 rooms and contacts, titles, scheduled meetings,
   previews of public chats.
4. `CallPeers`, the rest: slots, tracks, speakers and moderators.
5. Proofs: that `msgConfirm` meets no edit where it expects a message (`Confirmed`, with
   `KeysCached`), the history of `ChatdSending` (`HistoryAgrees` for public chats), the safety part
   of `ImplementsOutbox`.
