---------------------------- MODULE ChatdHistory ----------------------------
(***************************************************************************)
(* The history of one chat (class chatd::Chat, src/src/chatd.cpp): the     *)
(* messages in RAM, a window on the log of the server that grows at both   *)
(* ends, the rows of the history table, what is being fetched, the         *)
(* messages that wait for a key, and what the application has been given.  *)
(*                                                                         *)
(* A message is named by its place in the log of the server.  The members  *)
(* of Chat are the fields of the record h, so that a method that calls     *)
(* another is a function of the record; its fields that are not members    *)
(* are the rows (db), the keys known to strongvelope, the calls queued for *)
(* the main thread, and the session of the application: whether the room   *)
(* is open, what onRecvHistoryMessage gave it (loaded), what               *)
(* onRecvNewMessage and onMessageConfirmed did (live), and whether it      *)
(* waits for the onHistoryDone of a fetch from the server.                 *)
(*                                                                         *)
(* Builds without assertions are modelled: an assertion of the source is a *)
(* property here.                                                          *)
(***************************************************************************)
EXTENDS Integers, Sequences, FiniteSets, SequencesExt

CONSTANTS
    OldLog,       \* bound: length of the log when the program starts
    MaxLog,       \* bound: length of the log
    LateKeys,     \* messages whose key is not known when they arrive
    initialHistoryFetchCount,
    Counts,       \* what the application asks loadMessages for
    MaxOwn,       \* bound: messages this client sends
    MaxDrops,     \* bound: connections lost
    MaxRestarts,  \* bound: times the process ends, with its transaction committed
    MaxSessions,  \* bound: times the room is opened
    MaxCalls,     \* bound: calls of loadMessages
    MaxQueued,    \* bound: HIST requests queued for the main thread at a time
    MaxTruncates, \* bound: truncations of the log
    MaxRejects    \* bound: ranges the server does not accept

ASSUME HistoryAssumption ==
    /\ {OldLog, MaxLog, MaxOwn, MaxDrops, MaxRestarts, MaxSessions, MaxCalls, MaxQueued,
        MaxTruncates, MaxRejects} \subseteq Nat
    /\ initialHistoryFetchCount \in Nat \ {0} /\ Counts \subseteq Nat \ {0}
    /\ OldLog <= MaxLog /\ LateKeys \subseteq 1..MaxLog

VARIABLES
    h,       \* the Chat, its rows, its keys and the application
    mFetchRequest, \* the requests of messages whose HISTDONE is awaited
    log,     \* the log of the server: its first and last message, and whether it was truncated
    cursor,  \* the oldest message this connection has been told of
    down,    \* commands on their way to the client
    budget   \* what is left of the bounds

vars == <<h, mFetchRequest, log, cursor, down, budget>>

NoIdx  == MaxLog + 1000   \* CHATD_IDX_INVALID, larger than every index
NoId   == 0
NoHalt == [idx |-> NoIdx, id |-> NoId, trunc |-> FALSE]

OldStates == {"FetchingOld", "DecryptingOld"}    \* kHistOldFlag

Init ==
    /\ log = [first |-> 1, last |-> OldLog, cut |-> FALSE]
    /\ cursor = NoId /\ down = <<>> /\ mFetchRequest = 0
    /\ budget = [own |-> MaxOwn, drops |-> MaxDrops, restarts |-> MaxRestarts,
                 sessions |-> MaxSessions, calls |-> MaxCalls, truncates |-> MaxTruncates,
                 rejects |-> MaxRejects]
    /\ h = [mOnlineState |-> "Offline", low |-> 0, ram |-> <<>>, db |-> <<>>,
            keys |-> (1..MaxLog) \ LateKeys,
            mServerFetchState |-> "NotFetching", mLastServerRequested |-> 0,
            mLastServerHistFetchCount |-> 0, mOldestKnownMsgId |-> NoId,
            mHasMoreHistoryInDb |-> FALSE, mHaveAllHistory |-> FALSE,
            mNextHistFetchIdx |-> NoIdx, mServerOldHistCbEnabled |-> FALSE,
            mIsFirstJoin |-> TRUE, mDecryptNewHaltedAt |-> NoHalt,
            mDecryptOldHaltedAt |-> NoHalt, marshalled |-> <<>>,
            open |-> FALSE, loaded |-> <<>>, live |-> <<>>, waiting |-> FALSE]

-----------------------------------------------------------------------------
(* The window in RAM and the rows *)

\* lownum() is k.low
HighNum(k) == k.low + Len(k.ram) - 1
At(k, i) == k.ram[i - k.low + 1]
InRam(k, i) == i \in k.low..HighNum(k)
Ids(s) == {s[i].id : i \in DOMAIN s}
IdxOf(k, id) == CHOOSE i \in k.low..HighNum(k) : At(k, i).id = id

PushForward(k, m) == [k EXCEPT !.ram = Append(@, m)]
PushBack(k, m) == [k EXCEPT !.ram = <<m>> \o @, !.low = @ - 1]

\* the oldest row, as getHistoryInfo reads it
DbOldestId(k) == IF k.db = <<>> THEN NoId ELSE k.db[Min(DOMAIN k.db)].id

\* findOrNull(lownum()) fails only with nothing in RAM
HasMoreHistoryInDb(k) ==
    k.mOldestKnownMsgId # NoId /\ (k.ram = <<>> \/ Head(k.ram).id # k.mOldestKnownMsgId)

\* an insert that breaks one of the two unique keys throws, and CALL_DB goes on
AddMsgToHistory(db, m, i) ==
    IF i \in DOMAIN db \/ m.id \in Ids(db) THEN db
    ELSE [j \in DOMAIN db \cup {i} |-> IF j = i THEN [id |-> m.id, trunc |-> m.trunc] ELSE db[j]]

\* mutant: one row too many stays
TruncateRowsAfter(db, id) ==
    IF id \notin Ids(db) THEN db
    ELSE LET at == CHOOSE j \in DOMAIN db : db[j].id = id
         IN  [j \in {x \in DOMAIN db : x >= at - 1} |-> db[j]]

TruncateRows(db, id) ==
    IF id \notin Ids(db) THEN db
    ELSE LET at == CHOOSE j \in DOMAIN db : db[j].id = id
         IN  [j \in {x \in DOMAIN db : x >= at} |-> db[j]]

DeleteOlderMessagesBefore(k, idx) ==
    [k EXCEPT !.low = idx, !.ram = SubSeq(@, idx - k.low + 1, Len(@))]

HandleTruncate(k, id, idx) ==
    LET cut == [DeleteOlderMessagesBefore(k, idx) EXCEPT
                   !.db = TruncateRows(@, id), !.mHaveAllHistory = TRUE, !.mOldestKnownMsgId = id]
    IN  [cut EXCEPT !.mHasMoreHistoryInDb = HasMoreHistoryInDb(cut)]

-----------------------------------------------------------------------------
(* Messages that arrive, and their decryption *)

\* what onHistoryDone tells the application
HistoryDone(k) == [k EXCEPT !.waiting = FALSE]

GiveNew(k, id) == IF k.open THEN [k EXCEPT !.live = Append(@, id)] ELSE k
GiveOld(k, id) == IF k.open THEN [k EXCEPT !.loaded = Append(@, id)] ELSE k

\* msgIncomingAfterDecrypt of a message that is not local
MsgIncomingAfterDecrypt(k, isNew, m, idx) ==
    LET clear == IF InRam(k, idx) THEN [k EXCEPT !.ram[idx - k.low + 1].pend = FALSE] ELSE k
        saved == [clear EXCEPT !.db = AddMsgToHistory(@, m, idx)]
    IN  IF ~isNew THEN IF k.mServerOldHistCbEnabled THEN GiveOld(saved, m.id) ELSE saved
        ELSE IF m.trunc THEN HandleTruncate(GiveNew(saved, m.id), m.id, idx)
        ELSE GiveNew(saved, m.id)

Halted(k, isNew) == IF isNew THEN k.mDecryptNewHaltedAt ELSE k.mDecryptOldHaltedAt
Halt(k, isNew, at) == IF isNew THEN [k EXCEPT !.mDecryptNewHaltedAt = at]
                      ELSE [k EXCEPT !.mDecryptOldHaltedAt = at]

\* msgIncomingAfterAdd of a message that is not local
MsgIncomingAfterAdd(k, isNew, m, idx) ==
    IF m.pend /\ Halted(k, isNew) # NoHalt THEN k
    ELSE IF m.pend /\ m.id \notin k.keys
    THEN Halt(k, isNew, [idx |-> idx, id |-> m.id, trunc |-> m.trunc])
    ELSE MsgIncomingAfterDecrypt(k, isNew, m, idx)

\* mutant: only the message that was waited for is decrypted
DecryptNothing(k, isNew, idxs) == k

\* the loop that decrypts the rest, up to the first that has to wait
DecryptRest(k, isNew, idxs) ==
    FoldLeft(LAMBDA x, i : IF Halted(x, isNew) # NoHalt THEN x
                           ELSE MsgIncomingAfterAdd(x, isNew, At(x, i), i), k, idxs)

From(a, b) == [i \in 1..(b - a + 1) |-> a + i - 1]
DownTo(a, b) == [i \in 1..(a - b + 1) |-> a - i + 1]

\* mutant: the application is not told
OldDecryptedQuiet(k) ==
    IF Halted(k, FALSE) = NoHalt /\ k.mServerFetchState = "DecryptingOld"
    THEN [k EXCEPT !.mServerFetchState = "NotFetching"] ELSE k

\* all messages are decrypted, or another one has to wait
OldDecrypted(k) ==
    LET done == [k EXCEPT !.mServerFetchState = "NotFetching"]
    IN  IF Halted(k, FALSE) # NoHalt \/ k.mServerFetchState # "DecryptingOld" THEN k
        ELSE IF k.mServerOldHistCbEnabled THEN HistoryDone(done) ELSE done

NewDecrypted(k) ==
    IF Halted(k, TRUE) = NoHalt /\ k.mServerFetchState = "DecryptingNew"
    THEN [k EXCEPT !.mServerFetchState = "NotFetching"] ELSE k

\* The continuation of msgDecrypt.  A message that a truncation has removed meanwhile has been
\* freed; it is read as it was.  If what follows a new message has been removed from RAM,
\* at() throws in the loop and the handler ends there.
Decrypted(k, isNew) ==
    LET at   == Halted(k, isNew)
        msg  == [id |-> at.id, pend |-> FALSE, trunc |-> at.trunc]
        one  == Halt(MsgIncomingAfterDecrypt([k EXCEPT !.keys = @ \cup {at.id}], isNew, msg, at.idx),
                     isNew, NoHalt)
    IN  IF ~isNew THEN OldDecrypted(DecryptRest(one, FALSE, DownTo(at.idx - 1, one.low)))
        ELSE IF at.idx + 1 < one.low THEN one
        ELSE NewDecrypted(DecryptRest(one, TRUE, From(at.idx + 1, HighNum(one))))

\* upon the first message mNextHistFetchIdx is set so that it is not loaded again
InitNext(k) ==
    IF k.mNextHistFetchIdx = NoIdx /\ Len(k.ram) = 1 THEN [k EXCEPT !.mNextHistFetchIdx = -1] ELSE k

\* mutant: a new message is not taken while joining
OnNewmsgOnline(k, m) ==
    IF m.id \in Ids(k.ram) \/ k.mOnlineState = "Joining" THEN k
    ELSE MsgIncomingAfterAdd(InitNext(PushForward(k, m)), TRUE, m, HighNum(k) + 1)

OnNewmsg(k, m) ==
    IF m.id \in Ids(k.ram) THEN k
    ELSE LET added == PushForward(k, m)
             known == [added EXCEPT !.mOldestKnownMsgId = IF @ = NoId THEN m.id ELSE @]
         IN  MsgIncomingAfterAdd(InitNext(known), TRUE, m, HighNum(known))

OnOldmsg(k, m) ==
    LET counted == [k EXCEPT !.mLastServerHistFetchCount = @ + 1, !.mOldestKnownMsgId = m.id]
    IN  IF k.mHasMoreHistoryInDb
        THEN MsgIncomingAfterAdd(counted, FALSE, m, (IF k.db = <<>> THEN 0 ELSE Min(DOMAIN k.db)) - 1)
        ELSE MsgIncomingAfterAdd(PushBack(counted, m), FALSE, m, k.low - 1)

\* msgConfirm, the part that is about history
OnNewmsgid(k, m) ==
    LET own   == [m EXCEPT !.pend = FALSE]
        added == PushForward(k, own)
    IN  InitNext(GiveNew([added EXCEPT !.db = AddMsgToHistory(@, own, HighNum(added))], m.id))

\* onMsgUpdated of a truncation.  One for a message that is not in RAM has no effect: its
\* "updated" is 0, which is not above that of the row.
OnTruncate(k, m) ==
    IF m.id \notin Ids(k.ram) THEN k
    ELSE LET idx == IdxOf(k, m.id)
         IN  IF At(k, idx).trunc /\ ~At(k, idx).pend THEN k
             ELSE HandleTruncate(
                    [k EXCEPT !.ram[idx - k.low + 1] = [id |-> m.id, pend |-> FALSE, trunc |-> TRUE],
                              !.db = [j \in DOMAIN @ |-> IF @[j].id = m.id
                                                         THEN [@[j] EXCEPT !.trunc = TRUE] ELSE @[j]]],
                    m.id, idx)

-----------------------------------------------------------------------------
(* History for the application, and from the server *)

\* mutant: nobody notes that the rows are exhausted
MsgIncomingRow(k, m) == GiveOld(PushBack(k, m), m.id)

\* msgIncoming of a row
MsgIncomingLocal(k, m) ==
    GiveOld([PushBack(k, m) EXCEPT
                !.mHasMoreHistoryInDb = @ /\ m.id # k.mOldestKnownMsgId], m.id)

\* the newest rows older than the window, "count" of them or as many as there are
FetchDbHistory(k, count) ==
    LET older == {i \in DOMAIN k.db : i < k.low}
    IN  {i \in older : Cardinality({j \in older : j > i}) < count}

\* the n-th of the rows, the newest first
FetchedMessage(k, rows, n) ==
    LET row == k.db[CHOOSE i \in rows : Cardinality({j \in rows : j > i}) = n - 1]
    IN  [id |-> row.id, pend |-> FALSE, trunc |-> row.trunc]

\* each of them is given to msgIncoming
ReadRows(k, rows) ==
    LET read[n \in 0..Cardinality(rows)] ==
            IF n = 0 THEN k ELSE MsgIncomingLocal(read[n - 1], FetchedMessage(k, rows, n))
    IN  read[Cardinality(rows)]

GetHistoryFromDb(k, count) ==
    LET rows  == FetchDbHistory(k, count)
        moved == [ReadRows(k, rows) EXCEPT !.mNextHistFetchIdx =
                     (IF @ = NoIdx THEN k.low - 1 ELSE @) - Cardinality(rows)]
        again == [moved EXCEPT !.mOldestKnownMsgId = DbOldestId(k)]
    IN  IF Cardinality(rows) < count /\ moved.mHasMoreHistoryInDb
        THEN [again EXCEPT !.mHasMoreHistoryInDb = HasMoreHistoryInDb(again)]
        ELSE moved

\* The part of getHistory that reads RAM.  It stops at a message that is not decrypted, yet
\* mNextHistFetchIdx moves by the whole count.
GetHistoryFromRam(k, count) ==
    LET to    == Max({k.mNextHistFetchIdx - count, k.low - 1})
        ready == {i \in (to + 1)..k.mNextHistFetchIdx :
                     \A j \in i..k.mNextHistFetchIdx : ~At(k, j).pend}
        given == [n \in 1..Cardinality(ready) |-> At(k, k.mNextHistFetchIdx - n + 1).id]
    IN  [k EXCEPT !.loaded = IF k.open THEN @ \o given ELSE @, !.mNextHistFetchIdx = to]

GetHistoryFromDbOrServer(k, count) ==
    IF k.mHasMoreHistoryInDb THEN HistoryDone(GetHistoryFromDb(k, count))
    ELSE IF k.mHaveAllHistory \/ k.mOnlineState # "Online" THEN HistoryDone(k)
    ELSE [k EXCEPT !.mServerOldHistCbEnabled = TRUE, !.waiting = TRUE,
                   !.marshalled = IF k.mServerFetchState \in OldStates THEN @ ELSE Append(@, count)]

IsNotifyingOldHistFromServer(k) == k.mServerOldHistCbEnabled /\ k.mServerFetchState \in OldStates

GetHistory(k, count) ==
    LET start == IF k.mNextHistFetchIdx = NoIdx /\ k.ram # <<>>
                 THEN [k EXCEPT !.mNextHistFetchIdx = HighNum(k)] ELSE k
        ram   == start.mNextHistFetchIdx # NoIdx /\ start.mNextHistFetchIdx >= k.low
        read  == IF ram THEN GetHistoryFromRam(start, count) ELSE start
        rest  == IF ram THEN count - (start.mNextHistFetchIdx - read.mNextHistFetchIdx) ELSE count
    IN  IF IsNotifyingOldHistFromServer(k) THEN [k EXCEPT !.waiting = TRUE]
        ELSE IF rest <= 0 THEN HistoryDone(read)
        ELSE GetHistoryFromDbOrServer(read, rest)

RequestHistoryFromServer(k, count) ==
    [k EXCEPT !.mLastServerHistFetchCount = 0, !.mServerFetchState = "FetchingOld",
              !.mLastServerRequested = count]

\* mutant: all that was requested came, and still that is taken for the start of history
OnFetchHistDoneEarly(k) ==
    LET old   == k.mServerFetchState \in OldStates
        state == IF Halted(k, ~old) # NoHalt THEN IF old THEN "DecryptingOld" ELSE "DecryptingNew"
                 ELSE "NotFetching"
    IN  [k EXCEPT !.mServerFetchState = state, !.mLastServerRequested = 0,
                  !.mHaveAllHistory =
                      @ \/ (old /\ k.mLastServerHistFetchCount <= k.mLastServerRequested)]

OnFetchHistDone(k) ==
    LET old   == k.mServerFetchState \in OldStates
        state == IF Halted(k, ~old) # NoHalt THEN IF old THEN "DecryptingOld" ELSE "DecryptingNew"
                 ELSE "NotFetching"
        all   == old /\ (k.mLastServerHistFetchCount = 0
                         \/ k.mLastServerHistFetchCount < k.mLastServerRequested)
        done  == [k EXCEPT !.mServerFetchState = state, !.mLastServerRequested = 0,
                           !.mHaveAllHistory = @ \/ all,
                           !.mNextHistFetchIdx = IF old /\ state = "NotFetching" /\ ~k.mIsFirstJoin
                                                 THEN k.low - 1 ELSE @]
    IN  IF state = "NotFetching" /\ old /\ k.mServerOldHistCbEnabled THEN HistoryDone(done) ELSE done

\* onHistDone, with onJoinComplete
OnHistDone(k) ==
    LET done == IF k.mServerFetchState # "NotFetching" THEN OnFetchHistDone(k) ELSE k
    IN  IF k.mOnlineState = "Joining"
        THEN [done EXCEPT !.mOnlineState = "Online", !.mIsFirstJoin = FALSE] ELSE done

\* mutant: the window is not emptied
InitChatKeepsWindow(k) ==
    [k EXCEPT !.mOldestKnownMsgId = NoId, !.mNextHistFetchIdx = NoIdx,
              !.mLastServerHistFetchCount = 0, !.mLastServerRequested = 0,
              !.mHasMoreHistoryInDb = FALSE, !.mHaveAllHistory = FALSE]

InitChat(k) ==
    [k EXCEPT !.low = 0, !.ram = <<>>, !.mOldestKnownMsgId = NoId, !.mNextHistFetchIdx = NoIdx,
              !.mLastServerHistFetchCount = 0, !.mLastServerRequested = 0,
              !.mDecryptNewHaltedAt = NoHalt, !.mDecryptOldHaltedAt = NoHalt,
              !.mHasMoreHistoryInDb = FALSE, !.mHaveAllHistory = FALSE]

\* the constructor, with what the database holds
NewChat(k) ==
    LET info == [InitChat(k) EXCEPT
                    !.mOnlineState = "Offline", !.mIsFirstJoin = TRUE,
                    !.mServerFetchState = "NotFetching", !.mServerOldHistCbEnabled = FALSE,
                    !.mHaveAllHistory = k.mHaveAllHistory, !.mOldestKnownMsgId = DbOldestId(k),
                    !.marshalled = <<>>,
                    !.open = FALSE, !.loaded = <<>>, !.live = <<>>, !.waiting = FALSE]
    IN  IF k.db = <<>> THEN info
        ELSE GetHistoryFromDb([info EXCEPT !.low = Max(DOMAIN k.db) + 1,
                                           !.mHasMoreHistoryInDb = TRUE], initialHistoryFetchCount)

\* mutant: the rows stay
ClearHistoryInRam(k) == [InitChat(k) EXCEPT !.loaded = <<>>, !.live = <<>>]

ClearHistory(k) == [InitChat(k) EXCEPT !.db = <<>>, !.loaded = <<>>, !.live = <<>>]

OnDisconnect(k) ==
    LET notified == mFetchRequest > 0 /\ k.mServerOldHistCbEnabled
                    /\ k.mServerFetchState \in {"FetchingOld", "FetchingNew", "DecryptingOld"}
    IN  [k EXCEPT !.mServerFetchState = "NotFetching", !.mOnlineState = "Offline",
                  !.waiting = @ /\ ~notified]

ResetGetHistory(k) == [k EXCEPT !.mNextHistFetchIdx = NoIdx, !.mServerOldHistCbEnabled = FALSE]

-----------------------------------------------------------------------------
(* The server *)

Spend(what) == budget[what] > 0 /\ budget' = [budget EXCEPT ![what] = @ - 1]

Sent(op, id) == [op |-> op, id |-> id, trunc |-> log.cut /\ id = log.first]

\* HIST: up to count messages older than those this connection has been told of
Older(from, count) ==
    LET n == Max({0, Min({count, from - log.first})})
    IN  [i \in 1..n |-> Sent("OLDMSG", from - i)]

HistReply(from, count) ==
    /\ down' = down \o Append(Older(from, count), Sent("HISTDONE", NoId))
    /\ cursor' = from - Len(Older(from, count))

\* JOINRANGEHIST: what is newer than the range, and the truncation if it is in the range
RangeReply(oldest, newest) ==
    LET newer == From(Max({newest + 1, log.first}), log.last)
        cut   == IF log.cut /\ log.first \in oldest..newest
                 THEN <<Sent("TRUNCATE", log.first)>> ELSE <<>>
    IN  cut \o [i \in DOMAIN newer |-> Sent("NEWMSG", newer[i])] \o <<Sent("HISTDONE", NoId)>>

Joined == h.mOnlineState # "Offline"
Tell(c) == down' = IF Joined THEN Append(down, c) ELSE down

Post ==
    /\ log.last < MaxLog
    /\ log' = [log EXCEPT !.last = @ + 1]
    /\ Tell([op |-> "NEWMSG", id |-> log.last + 1, trunc |-> FALSE])
    /\ UNCHANGED <<h, mFetchRequest, cursor, budget>>

\* the server has a message of this client; the client knows the key of its own messages
PostOwn ==
    /\ log.last < MaxLog /\ h.mOnlineState = "Online" /\ Spend("own")
    /\ log' = [log EXCEPT !.last = @ + 1]
    /\ h' = [h EXCEPT !.keys = @ \cup {log.last + 1}]
    /\ Tell([op |-> "NEWMSGID", id |-> log.last + 1, trunc |-> FALSE])
    /\ UNCHANGED <<mFetchRequest, cursor>>

Truncate(t) ==
    /\ t \in log.first..log.last /\ ~(log.cut /\ t = log.first) /\ Spend("truncates")
    /\ log' = [log EXCEPT !.first = t, !.cut = TRUE]
    /\ Tell([op |-> "TRUNCATE", id |-> t, trunc |-> TRUE])
    /\ UNCHANGED <<h, mFetchRequest, cursor>>

-----------------------------------------------------------------------------
(* The client *)

\* JOINRANGEHIST with local history, else JOIN and HIST
Login ==
    LET info    == [h EXCEPT !.mOnlineState = "Joining", !.mServerOldHistCbEnabled = FALSE,
                             !.mOldestKnownMsgId = DbOldestId(h)]
        join    == RequestHistoryFromServer(info, initialHistoryFetchCount)
        range   == [info EXCEPT !.mServerFetchState = "FetchingNew"]
        newest  == Last(h.ram).id
        more(k) == [k EXCEPT !.mHasMoreHistoryInDb = HasMoreHistoryInDb(k)]
    IN  /\ h.mOnlineState = "Offline"
        /\ \/ /\ info.mOldestKnownMsgId = NoId
              /\ h' = more(join) /\ HistReply(log.last + 1, initialHistoryFetchCount)
              /\ UNCHANGED budget
           \/ /\ info.mOldestKnownMsgId # NoId
              /\ h' = more(range) /\ down' = RangeReply(info.mOldestKnownMsgId, newest)
              /\ cursor' = info.mOldestKnownMsgId
              /\ UNCHANGED budget
           \/ /\ info.mOldestKnownMsgId # NoId /\ info.mOldestKnownMsgId < log.first
              /\ Spend("rejects")
              /\ h' = more(range) /\ down' = <<Sent("REJECT", NoId)>> /\ cursor' = log.last + 1
        /\ mFetchRequest' = mFetchRequest + 1 /\ UNCHANGED log

Received(op) == down # <<>> /\ Head(down).op = op /\ down' = Tail(down)
Incoming == [id |-> Head(down).id, pend |-> TRUE, trunc |-> Head(down).trunc]

RecvNewmsg == Received("NEWMSG") /\ h' = OnNewmsg(h, Incoming) /\ UNCHANGED <<mFetchRequest, log, cursor, budget>>
RecvOldmsg == Received("OLDMSG") /\ h' = OnOldmsg(h, Incoming) /\ UNCHANGED <<mFetchRequest, log, cursor, budget>>
RecvNewmsgid == Received("NEWMSGID") /\ h' = OnNewmsgid(h, Incoming) /\ UNCHANGED <<mFetchRequest, log, cursor, budget>>
RecvTruncate == Received("TRUNCATE") /\ h' = OnTruncate(h, Incoming) /\ UNCHANGED <<mFetchRequest, log, cursor, budget>>
RecvHistdone == /\ Received("HISTDONE") /\ h' = OnHistDone(h)
                /\ mFetchRequest' = mFetchRequest - 1
                /\ UNCHANGED <<log, cursor, budget>>

\* the range was not accepted: reload
RecvReject ==
    /\ down # <<>> /\ Head(down).op = "REJECT"
    /\ h' = RequestHistoryFromServer([ClearHistory(h) EXCEPT !.mServerOldHistCbEnabled = h.open],
                                     initialHistoryFetchCount)
    /\ down' = Tail(down) \o Append(Older(cursor, initialHistoryFetchCount), Sent("HISTDONE", NoId))
    /\ cursor' = cursor - Len(Older(cursor, initialHistoryFetchCount))
    /\ mFetchRequest' = mFetchRequest + 1 /\ UNCHANGED <<log, budget>>

\* the key of the message that halts decryption is known at last
KeyArrives(isNew) ==
    /\ Halted(h, isNew) # NoHalt
    /\ h' = Decrypted(h, isNew)
    /\ UNCHANGED <<mFetchRequest, log, cursor, down, budget>>

OpenChatRoom ==
    /\ ~h.open /\ Spend("sessions")
    /\ h' = [ResetGetHistory(h) EXCEPT !.open = TRUE]
    /\ UNCHANGED <<mFetchRequest, log, cursor, down>>

CloseChatRoom ==
    /\ h.open
    /\ h' = [h EXCEPT !.open = FALSE, !.loaded = <<>>, !.live = <<>>, !.waiting = FALSE]
    /\ UNCHANGED <<mFetchRequest, log, cursor, down, budget>>

LoadMessages(count) ==
    /\ h.open /\ Len(h.marshalled) < MaxQueued /\ Spend("calls")
    /\ h' = GetHistory(h, count)
    /\ UNCHANGED <<mFetchRequest, log, cursor, down>>

\* the main thread runs the queued requestHistoryFromServer; without a connection nothing is sent
RunMarshalled ==
    /\ h.marshalled # <<>>
    /\ h' = RequestHistoryFromServer([h EXCEPT !.marshalled = Tail(@)], Head(h.marshalled))
    /\ IF Joined THEN HistReply(cursor, Head(h.marshalled)) ELSE UNCHANGED <<down, cursor>>
    /\ mFetchRequest' = mFetchRequest + 1 /\ UNCHANGED <<log, budget>>

Disconnect ==
    /\ Joined /\ Spend("drops")
    /\ h' = OnDisconnect(h) /\ down' = <<>> /\ mFetchRequest' = 0
    /\ UNCHANGED <<log, cursor>>

Restart ==
    /\ Spend("restarts")
    /\ h' = NewChat(h) /\ down' = <<>> /\ mFetchRequest' = 0
    /\ UNCHANGED <<log, cursor>>

Receive == \/ RecvNewmsg \/ RecvOldmsg \/ RecvNewmsgid \/ RecvTruncate \/ RecvHistdone \/ RecvReject

Next ==
    \/ Post \/ PostOwn \/ \E t \in 1..MaxLog : Truncate(t)
    \/ Login \/ Receive \/ \E isNew \in BOOLEAN : KeyArrives(isNew)
    \/ OpenChatRoom \/ CloseChatRoom \/ \E count \in Counts : LoadMessages(count)
    \/ RunMarshalled \/ Disconnect \/ Restart

\* the connection comes back, commands are delivered, keys are fetched, the main thread runs
Fairness == /\ WF_vars(Login) /\ WF_vars(Receive) /\ WF_vars(RunMarshalled)
            /\ \A isNew \in BOOLEAN : WF_vars(KeyArrives(isNew))

Spec == Init /\ [][Next]_vars
FairSpec == Spec /\ Fairness

-----------------------------------------------------------------------------
(* Properties *)

\* What is in RAM is a window on the log: whatever connections and processes end in the
\* middle of a fetch, no message is missing in it or there twice.  Before a truncation there
\* is nothing to be contiguous with.  (push_back, push_forward, initChat)
WindowContiguous ==
    \A i \in 1..(Len(h.ram) - 1) : h.ram[i + 1].id = h.ram[i].id + 1 \/ h.ram[i + 1].trunc

\* The rows have no gap: addMessage (chatdDb.h 62-81) asserts that the index it adds is next
\* to either end of them.
RowsDense == \A i, j \in DOMAIN h.db : i..j \subseteq DOMAIN h.db

\* The rows and the window are numbered alike, so that the index of a message found in one
\* can be used for the other.
RowsFollowWindow == RowsDense /\ \A i \in DOMAIN h.db : InRam(h, i) => h.db[i].id = At(h, i).id

\* mHasMoreHistoryInDb says whether there are rows older than the window: getHistoryFromDb is
\* called only when it can load something, and the server is asked only when it cannot.
HasMoreIsRight == h.mHasMoreHistoryInDb <=> \E i \in DOMAIN h.db : i < h.low

\* Once the whole history is said to be here, it is: mHaveAllHistory is stored, and makes
\* getHistory answer kHistSourceNone for good.
HaveAllIsRight ==
    h.mHaveAllHistory /\ h.ram # <<>> /\ ~h.mHasMoreHistoryInDb => Head(h.ram).id <= log.first

\* A truncation known to the client leaves no older row, so that none reappears after a
\* restart.  (handleTruncate, truncateHistory)
TruncatedGone == \A i \in DOMAIN h.db : h.db[i].trunc => \A j \in DOMAIN h.db : j >= i

\* "Messages are always loaded and notified in strict order, from newest to oldest"
\* (loadMessages, megachatapi.h).
LoadedInOrder == \A i, j \in DOMAIN h.loaded : i < j => h.loaded[i] > h.loaded[j]

\* In the end the newest message of the log is in the window.
CatchesUp == <>[](h.ram # <<>> /\ Last(h.ram).id = log.last)

\* In the end every message of the window is decrypted and stored.
EverythingStored == <>[](\A i \in h.low..HighNum(h) : i \in DOMAIN h.db /\ ~At(h, i).pend)

\* The application that waits for a fetch from the server is told of its end.
LoadsEnd == h.waiting ~> ~h.waiting
=============================================================================
