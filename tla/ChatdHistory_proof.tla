------------------------ MODULE ChatdHistory_proof ------------------------
(***************************************************************************)
(* Proofs about ChatdHistory, for every length of the log, every fetch     *)
(* count and every number of drops, restarts, rejections and truncations,  *)
(* with messages whose key is known on arrival: the window in RAM has no   *)
(* gap and the rows follow it.                                             *)
(*                                                                         *)
(* The invariant says of the chat that it holds the messages from b to n,  *)
(* and of what is on its way that it continues them at both ends.          *)
(***************************************************************************)
EXTENDS ChatdHistory, FiniteSetTheorems, SequenceTheorems, WellFoundedInduction, TLAPS

-----------------------------------------------------------------------------
(* The chat *)

Message == [id : 1..MaxLog, pend : BOOLEAN, trunc : BOOLEAN]
Row     == [id : 1..MaxLog, trunc : BOOLEAN]

Fields == {"mOnlineState", "low", "ram", "db", "keys", "mServerFetchState",
           "mLastServerRequested", "mLastServerHistFetchCount", "mOldestKnownMsgId",
           "mHasMoreHistoryInDb", "mHaveAllHistory", "mNextHistFetchIdx",
           "mServerOldHistCbEnabled", "mIsFirstJoin", "mDecryptNewHaltedAt",
           "mDecryptOldHaltedAt", "marshalled", "open", "loaded", "live", "waiting"}

\* The types of what moves the window; every key is known and nothing waits for one.
Chat(k) ==
    /\ k = [f \in Fields |-> k[f]]
    /\ k.low \in Int /\ k.mNextHistFetchIdx \in Int
    /\ k.ram \in Seq(Message)
    /\ k.mHasMoreHistoryInDb \in BOOLEAN
    /\ k.marshalled \in Seq(Nat)
    /\ k.keys = 1..MaxLog /\ k.mDecryptNewHaltedAt = NoHalt /\ k.mDecryptOldHaltedAt = NoHalt

\* The rows run from lo to the end of the window, index i for message i + d.
Numbered(k, lo, d) ==
    /\ lo \in Int /\ d \in Int /\ lo <= k.low /\ lo <= HighNum(k)
    /\ k.db \in [lo..HighNum(k) -> Row]
    /\ \A i \in lo..HighNum(k) : k.db[i].id = i + d /\ (k.db[i].trunc => i = lo)
    /\ \A i \in 1..Len(k.ram) : k.ram[i].id = k.low + i - 1 + d /\ k.ram[i].pend = FALSE
    /\ k.mHasMoreHistoryInDb <=> lo < k.low
    /\ k.mHasMoreHistoryInDb => k.mOldestKnownMsgId = lo + d

\* The chat has the messages from b to n: the window the last ones, the rows all of them.
Holds(k, b, n) ==
    /\ Chat(k) /\ k.ram # <<>>
    /\ \E lo, d : Numbered(k, lo, d) /\ b = lo + d /\ n = HighNum(k) + d

Bare(k) == Chat(k) /\ k.ram = <<>> /\ k.db = <<>> /\ k.mHasMoreHistoryInDb = FALSE

\* the truncations among the rows
Cuts(k) == {k.db[i].id : i \in {j \in DOMAIN k.db : k.db[j].trunc}}

\* nothing of the window has changed, but perhaps whether we are online
SameWindow(k, x) ==
    /\ x.low = k.low /\ x.ram = k.ram /\ x.db = k.db
    /\ x.mHasMoreHistoryInDb = k.mHasMoreHistoryInDb
    /\ x.mOldestKnownMsgId = k.mOldestKnownMsgId

LEMMA SameWindowHolds ==
    ASSUME NEW k, NEW x, NEW b, NEW n, SameWindow(k, x), Chat(x)
    PROVE  /\ Holds(k, b, n) => Holds(x, b, n)
           /\ Bare(k) => Bare(x)
           /\ Cuts(x) = Cuts(k)
<1>1. HighNum(x) = HighNum(k)
  BY DEF SameWindow, HighNum
<1>2. \A lo, d : Numbered(k, lo, d) => Numbered(x, lo, d)
  BY <1>1 DEF SameWindow, Numbered
<1>3. QED
  BY <1>1, <1>2 DEF SameWindow, Holds, Bare, Cuts

\* a step that leaves the window and the connection alone
Aside(k, x) == Chat(x) /\ SameWindow(k, x) /\ x.mOnlineState = k.mOnlineState

LEMMA AsideAlone == \A k : Chat(k) => Aside(k, k)
BY DEF Aside, SameWindow

LEMMA AsideTwice == \A k, x, y : Aside(k, x) /\ Aside(x, y) => Aside(k, y)
BY DEF Aside, SameWindow

LEMMA GiveNewAside ==
    ASSUME NEW k, NEW id, Chat(k)
    PROVE  Aside(k, GiveNew(k, id))
<1> DEFINE x == [k EXCEPT !.live = Append(@, id)]
<1>1. x = [f \in Fields |-> x[f]] /\ \A f \in Fields \ {"live"} : x[f] = k[f]
  BY DEF Chat, Fields
<1>2. Aside(k, x)
  BY <1>1 DEF Aside, Chat, SameWindow, Fields
<1>3. QED
  BY <1>2, AsideAlone DEF GiveNew

LEMMA GiveOldAside ==
    ASSUME NEW k, NEW id, Chat(k)
    PROVE  Aside(k, GiveOld(k, id))
<1> DEFINE x == [k EXCEPT !.loaded = Append(@, id)]
<1>1. x = [f \in Fields |-> x[f]] /\ \A f \in Fields \ {"loaded"} : x[f] = k[f]
  BY DEF Chat, Fields
<1>2. Aside(k, x)
  BY <1>1 DEF Aside, Chat, SameWindow, Fields
<1>3. QED
  BY <1>2, AsideAlone DEF GiveOld

LEMMA HistoryDoneAside ==
    ASSUME NEW k, Chat(k)
    PROVE  Aside(k, HistoryDone(k))
<1> DEFINE x == HistoryDone(k)
<1>1. x = [f \in Fields |-> x[f]] /\ \A f \in Fields \ {"waiting"} : x[f] = k[f]
  BY DEF Chat, Fields, HistoryDone
<1>2. QED
  BY <1>1 DEF Aside, Chat, SameWindow, Fields

LEMMA InitNextAside ==
    ASSUME NEW k, Chat(k)
    PROVE  Aside(k, InitNext(k))
<1> DEFINE x == [k EXCEPT !.mNextHistFetchIdx = -1]
<1>1. x = [f \in Fields |-> x[f]] /\ \A f \in Fields \ {"mNextHistFetchIdx"} : x[f] = k[f]
  BY DEF Chat, Fields
<1>. x.mNextHistFetchIdx = -1
  BY DEF Chat, Fields
<1>2. Aside(k, x)
  BY <1>1 DEF Aside, Chat, SameWindow, Fields
<1>3. QED
  BY <1>2, AsideAlone DEF InitNext

LEMMA RequestAside ==
    ASSUME NEW k, NEW count, Chat(k)
    PROVE  Aside(k, RequestHistoryFromServer(k, count))
<1> DEFINE x == RequestHistoryFromServer(k, count)
<1>1. /\ x = [f \in Fields |-> x[f]]
      /\ \A f \in Fields \ {"mLastServerHistFetchCount", "mServerFetchState",
                            "mLastServerRequested"} : x[f] = k[f]
  BY ZenonT(30) DEF Chat, Fields, RequestHistoryFromServer
<1>2. QED
  BY <1>1 DEF Aside, Chat, SameWindow, Fields

LEMMA OnFetchHistDoneAside ==
    ASSUME NEW k, Chat(k)
    PROVE  Aside(k, OnFetchHistDone(k))
<1> DEFINE old == k.mServerFetchState \in OldStates
           state == IF Halted(k, ~old) # NoHalt THEN IF old THEN "DecryptingOld"
                    ELSE "DecryptingNew" ELSE "NotFetching"
           all == old /\ (k.mLastServerHistFetchCount = 0
                          \/ k.mLastServerHistFetchCount < k.mLastServerRequested)
           next == IF old /\ state = "NotFetching" /\ ~k.mIsFirstJoin
                   THEN k.low - 1 ELSE k.mNextHistFetchIdx
           done(s, a, i) == [k EXCEPT !.mServerFetchState = s, !.mLastServerRequested = 0,
                                      !.mHaveAllHistory = @ \/ a, !.mNextHistFetchIdx = i]
<1>1. next \in Int
  BY DEF Chat
<1>2. ASSUME NEW s, NEW a, NEW i \in Int
      PROVE  Aside(k, done(s, a, i))
  <2>1. /\ done(s, a, i) = [f \in Fields |-> done(s, a, i)[f]]
        /\ \A f \in Fields \ {"mServerFetchState", "mLastServerRequested", "mHaveAllHistory",
                              "mNextHistFetchIdx"} : done(s, a, i)[f] = k[f]
        /\ done(s, a, i).mNextHistFetchIdx = i
    BY ZenonT(30) DEF Chat, Fields
  <2>2. QED
    BY <2>1, ZenonT(30) DEF Aside, Chat, SameWindow, Fields
<1>3. Aside(k, done(state, all, next))
  BY <1>1, <1>2, ZenonT(30)
<1>4. Aside(k, HistoryDone(done(state, all, next)))
  <2>1. ASSUME NEW y, Aside(k, y) PROVE Aside(k, HistoryDone(y))
    <3>1. Aside(y, HistoryDone(y))
      BY <2>1, HistoryDoneAside DEF Aside
    <3>2. QED
      BY <2>1, <3>1, AsideTwice
  <2>2. QED
    BY <1>3, <2>1
<1>5. OnFetchHistDone(k) \in {done(state, all, next), HistoryDone(done(state, all, next))}
  BY DEF OnFetchHistDone
<1>6. QED
  BY <1>3, <1>4, <1>5


LEMMA OnHistDoneKeeps ==
    ASSUME NEW k, Chat(k), k.mOnlineState # "Offline"
    PROVE  /\ Chat(OnHistDone(k)) /\ SameWindow(k, OnHistDone(k))
           /\ OnHistDone(k).mOnlineState # "Offline"
<1> DEFINE done == IF k.mServerFetchState # "NotFetching" THEN OnFetchHistDone(k) ELSE k
<1>1. Aside(k, done)
  BY OnFetchHistDoneAside, AsideAlone
<1>2. ASSUME NEW y, Aside(k, y)
      PROVE  LET x == [y EXCEPT !.mOnlineState = "Online", !.mIsFirstJoin = FALSE]
             IN  Chat(x) /\ SameWindow(k, x) /\ x.mOnlineState # "Offline"
  <2> DEFINE x == [y EXCEPT !.mOnlineState = "Online", !.mIsFirstJoin = FALSE]
  <2>1. /\ x = [f \in Fields |-> x[f]] /\ x.mOnlineState = "Online"
        /\ \A f \in Fields \ {"mOnlineState", "mIsFirstJoin"} : x[f] = y[f]
    BY <1>2, ZenonT(30) DEF Aside, Chat, Fields
  <2>2. QED
    BY <1>2, <2>1, ZenonT(30) DEF Aside, Chat, SameWindow, Fields
<1>3. QED
  BY <1>1, <1>2, ZenonT(30) DEF OnHistDone, Aside

LEMMA OnDisconnectKeeps ==
    ASSUME NEW k, Chat(k)
    PROVE  /\ Chat(OnDisconnect(k)) /\ SameWindow(k, OnDisconnect(k))
           /\ OnDisconnect(k).mOnlineState = "Offline"
<1> DEFINE x == OnDisconnect(k)
<1>1. /\ x = [f \in Fields |-> x[f]] /\ x.mOnlineState = "Offline"
      /\ \A f \in Fields \ {"mServerFetchState", "mOnlineState", "waiting"} : x[f] = k[f]
  BY ZenonT(30) DEF Chat, Fields, OnDisconnect
<1>2. QED
  BY <1>1 DEF Chat, SameWindow, Fields

LEMMA OpenAside ==
    ASSUME NEW k, Chat(k)
    PROVE  Aside(k, [ResetGetHistory(k) EXCEPT !.open = TRUE])
<1> DEFINE x == [ResetGetHistory(k) EXCEPT !.open = TRUE]
<1>1. /\ x = [f \in Fields |-> x[f]]
      /\ \A f \in Fields \ {"mNextHistFetchIdx", "mServerOldHistCbEnabled", "open"} : x[f] = k[f]
  BY ZenonT(30) DEF Chat, Fields, ResetGetHistory
<1>2. x.mNextHistFetchIdx = NoIdx
  BY DEF Chat, Fields, ResetGetHistory
<1>3. NoIdx \in Int
  BY HistoryAssumption DEF NoIdx
<1>4. QED
  BY <1>1, <1>2, <1>3 DEF Aside, Chat, SameWindow, Fields

LEMMA CloseAside ==
    ASSUME NEW k, Chat(k)
    PROVE  Aside(k, [k EXCEPT !.open = FALSE, !.loaded = <<>>, !.live = <<>>, !.waiting = FALSE])
<1> DEFINE x == [k EXCEPT !.open = FALSE, !.loaded = <<>>, !.live = <<>>, !.waiting = FALSE]
<1>1. /\ x = [f \in Fields |-> x[f]]
      /\ \A f \in Fields \ {"open", "loaded", "live", "waiting"} : x[f] = k[f]
  BY ZenonT(30) DEF Chat, Fields
<1>2. QED
  BY <1>1, ZenonT(30) DEF Aside, Chat, SameWindow, Fields

LEMMA PoppedAside ==
    ASSUME NEW k, Chat(k), k.marshalled # <<>>
    PROVE  Aside(k, [k EXCEPT !.marshalled = Tail(@)]) /\ Head(k.marshalled) \in Nat
<1> DEFINE x == [k EXCEPT !.marshalled = Tail(@)]
<1>1. /\ x = [f \in Fields |-> x[f]] /\ \A f \in Fields \ {"marshalled"} : x[f] = k[f]
  BY DEF Chat, Fields
<1>2. x.marshalled = Tail(k.marshalled)
  BY DEF Chat, Fields
<1>3. Head(k.marshalled) \in Nat /\ Tail(k.marshalled) \in Seq(Nat)
  BY DEF Chat
<1>4. QED
  BY <1>1, <1>2, <1>3 DEF Aside, Chat, SameWindow, Fields

-----------------------------------------------------------------------------
(* The rows that are read *)

LEMMA LeastNat ==
    ASSUME NEW T \in SUBSET Nat, T # {}
    PROVE  \E x \in T : \A y \in T : ~(y < x)
<1>1. IsWellFoundedOn(OpToRel(<, Nat), Nat)
  BY NatLessThanWellFounded, ZenonT(30)
<1>2. \E x \in T : \A y \in T : <<y, x>> \notin OpToRel(<, Nat)
  BY <1>1, WFMin, ZenonT(30)
<1>3. QED
  BY <1>2 DEF OpToRel

LEMMA IntervalSize ==
    ASSUME NEW a \in Int, NEW b \in Int, a <= b + 1
    PROVE  IsFiniteSet(a..b) /\ Cardinality(a..b) = b - a + 1
BY FS_Interval

\* The rows that are read are those below the window, as many as there are or as asked for.
LEMMA RowsRead ==
    ASSUME NEW k, NEW lo, NEW d, NEW count \in Nat, Chat(k), Numbered(k, lo, d)
    PROVE  \E from \in lo..k.low :
              /\ FetchDbHistory(k, count) = from..(k.low - 1)
              /\ from = lo \/ from = k.low - count
<1> DEFINE older == {i \in DOMAIN k.db : i < k.low}
           from == IF k.low - count <= lo THEN lo ELSE k.low - count
<1>1. /\ lo \in Int /\ k.low \in Int /\ lo <= k.low /\ Len(k.ram) \in Nat
      /\ HighNum(k) = k.low + Len(k.ram) - 1
  BY DEF Chat, Numbered, HighNum
<1>2. older = lo..(k.low - 1)
  BY <1>1, SMTT(30) DEF Numbered
<1>3. ASSUME NEW i \in older PROVE Cardinality({j \in older : j > i}) = k.low - 1 - i
  <2>1. i \in Int /\ i < k.low /\ lo <= i
    BY <1>1, <1>2, <1>3
  <2>2. {j \in older : j > i} = (i + 1)..(k.low - 1)
    BY <1>1, <1>2, <2>1, SMTT(30)
  <2>3. i + 1 \in Int /\ k.low - 1 \in Int /\ i + 1 <= (k.low - 1) + 1
    BY <1>1, <2>1, SMTT(30)
  <2>4. Cardinality((i + 1)..(k.low - 1)) = (k.low - 1) - (i + 1) + 1
    BY <2>3, IntervalSize
  <2>5. (k.low - 1) - (i + 1) + 1 = k.low - 1 - i
    BY <1>1, <2>1, SMTT(30)
  <2>6. QED
    BY <2>2, <2>4, <2>5, Zenon
<1>4. FetchDbHistory(k, count) = {i \in older : Cardinality({j \in older : j > i}) < count}
  BY DEF FetchDbHistory
<1>5. FetchDbHistory(k, count) = {i \in lo..(k.low - 1) : k.low - 1 - i < count}
  BY <1>2, <1>3, <1>4
<1>6. FetchDbHistory(k, count) = from..(k.low - 1)
  BY <1>1, <1>5, SMTT(30)
<1>7. QED
  BY <1>1, <1>6

\* The n-th row read is the one n below the window.
LEMMA RowFetched ==
    ASSUME NEW k, NEW from \in Int, NEW n \in 1..(k.low - from), Chat(k), from <= k.low
    PROVE  FetchedMessage(k, from..(k.low - 1), n) =
              [id |-> k.db[k.low - n].id, pend |-> FALSE, trunc |-> k.db[k.low - n].trunc]
<1> DEFINE rows == from..(k.low - 1)
           above(i) == Cardinality({j \in rows : j > i})
<1>1. k.low \in Int
  BY DEF Chat
<1>2. ASSUME NEW i \in rows PROVE above(i) = k.low - 1 - i
  <2>1. {j \in rows : j > i} = (i + 1)..(k.low - 1)
    BY <1>1, <1>2
  <2>2. Cardinality((i + 1)..(k.low - 1)) = k.low - 1 - i
    BY <1>1, <1>2, IntervalSize, SMTT(30)
  <2>3. QED
    BY <2>1, <2>2
<1>3. k.low - n \in rows
  BY <1>1
<1>. HIDE DEF above
<1>4. \A i \in rows : above(i) = n - 1 <=> i = k.low - n
  BY <1>1, <1>2
<1>5. (CHOOSE i \in rows : above(i) = n - 1) = k.low - n
  BY <1>3, <1>4
<1>6. QED
  BY <1>5 DEF FetchedMessage, above

LEMMA InFront ==
    ASSUME NEW S, NEW s \in Seq(S), NEW m \in S
    PROVE  /\ <<m>> \o s \in Seq(S) /\ Len(<<m>> \o s) = Len(s) + 1
           /\ (<<m>> \o s)[1] = m
           /\ \A i \in 1..Len(s) : (<<m>> \o s)[i + 1] = s[i]
<1>1. <<m>> \in Seq(S) /\ Len(<<m>>) = 1 /\ <<m>>[1] = m
  OBVIOUS
<1>2. QED
  BY <1>1, ConcatProperties

\* m is the message of the row below the window.
IsBelow(k, m, lo, d) ==
    /\ Chat(k) /\ Numbered(k, lo, d) /\ lo < k.low
    /\ m \in Message /\ m.id = k.low - 1 + d /\ m.pend = FALSE

\* The window of x has one message more.
ReadsOne(k, x, lo, d) ==
    /\ Chat(x) /\ Numbered(x, lo, d) /\ x.ram # <<>>
    /\ x.low = k.low - 1 /\ HighNum(x) = HighNum(k) /\ x.db = k.db
    /\ x.mOnlineState = k.mOnlineState
    /\ x.mOldestKnownMsgId = k.mOldestKnownMsgId

\* One row is read.
LEMMA MsgIncomingLocalReads ==
    \A k, m, lo, d : IsBelow(k, m, lo, d) => ReadsOne(k, MsgIncomingLocal(k, m), lo, d)
<1>0. SUFFICES ASSUME NEW k, NEW m, NEW lo, NEW d, IsBelow(k, m, lo, d)
               PROVE  ReadsOne(k, MsgIncomingLocal(k, m), lo, d)
  OBVIOUS
<1> DEFINE x == MsgIncomingLocal(k, m)
<1>. /\ Chat(k) /\ Numbered(k, lo, d) /\ lo < k.low
     /\ m \in Message /\ m.id = k.low - 1 + d /\ m.pend = FALSE
  BY <1>0 DEF IsBelow
<1>1. /\ lo \in Int /\ d \in Int /\ k.low \in Int /\ Len(k.ram) \in Nat
      /\ HighNum(k) = k.low + Len(k.ram) - 1
  BY DEF Chat, Numbered, HighNum
<1> DEFINE ram == <<m>> \o k.ram
           more == k.mHasMoreHistoryInDb /\ m.id # k.mOldestKnownMsgId
           y == [PushBack(k, m) EXCEPT !.mHasMoreHistoryInDb = @ /\ m.id # k.mOldestKnownMsgId]
<1>5. /\ ram \in Seq(Message) /\ Len(ram) = Len(k.ram) + 1 /\ ram[1] = m
      /\ \A i \in 1..Len(k.ram) : ram[i + 1] = k.ram[i]
  BY InFront DEF Chat
<1>6. y.ram = ram /\ y.low = k.low - 1
  BY DEF Chat, Fields, PushBack
<1>6a. y.mHasMoreHistoryInDb = more
  BY DEF Chat, Fields, PushBack
<1>6b. /\ y = [f \in Fields |-> y[f]] /\ y.mNextHistFetchIdx = k.mNextHistFetchIdx
       /\ y.marshalled = k.marshalled /\ y.keys = k.keys
       /\ y.mDecryptNewHaltedAt = k.mDecryptNewHaltedAt
       /\ y.mDecryptOldHaltedAt = k.mDecryptOldHaltedAt
  BY DEF Chat, Fields, PushBack
<1>10. y.db = k.db /\ y.mOldestKnownMsgId = k.mOldestKnownMsgId /\ y.mOnlineState = k.mOnlineState
  BY DEF Chat, Fields, PushBack
<1>7. more \in BOOLEAN /\ (more <=> lo < k.low - 1)
  BY <1>1 DEF Numbered
<1>. HIDE DEF y, ram, more
<1>8. Chat(y)
  <2>1. y.low \in Int
    BY <1>1, <1>6
  <2>2. y.ram \in Seq(Message)
    BY <1>5, <1>6
  <2>3. y.mHasMoreHistoryInDb \in BOOLEAN
    BY <1>6a, <1>7, Zenon
  <2>4. QED
    BY <1>6b, <2>1, <2>2, <2>3 DEF Chat
<1>9. HighNum(y) = HighNum(k)
  <2>1. HighNum(y) = (k.low - 1) + (Len(k.ram) + 1) - 1
    BY <1>5, <1>6 DEF HighNum
  <2>2. QED
    BY <1>1, <2>1, SMTT(30)
<1>11. \A i \in 1..Len(y.ram) : y.ram[i].id = y.low + i - 1 + d /\ y.ram[i].pend = FALSE
  <2> TAKE i \in 1..Len(y.ram)
  <2>0. i \in 1..(Len(k.ram) + 1)
    BY <1>5, <1>6
  <2>1. CASE i = 1
    BY <2>1, <1>1, <1>5, <1>6
  <2>2. CASE i # 1
    <3>1. i - 1 \in 1..Len(k.ram) /\ i = (i - 1) + 1
      BY <2>0, <2>2, <1>1
    <3>2. y.ram[i] = k.ram[i - 1]
      BY <3>1, <1>5, <1>6
    <3>3. k.ram[i - 1].id = k.low + (i - 1) - 1 + d /\ k.ram[i - 1].pend = FALSE
      BY <3>1 DEF Numbered
    <3>4. QED
      BY <3>1, <3>2, <3>3, <1>1, <1>6, SMTT(30)
  <2>3. QED
    BY <2>1, <2>2
<1>12. Numbered(y, lo, d)
  BY <1>1, <1>6, <1>6a, <1>7, <1>9, <1>10, <1>11 DEF Numbered
<1>13. y.ram # <<>>
  BY <1>1, <1>5, <1>6
<1>14. x = GiveOld(y, m.id)
  BY DEF MsgIncomingLocal, y
<1>. HIDE DEF x
<1>15. Aside(y, x)
  BY <1>8, <1>14, GiveOldAside
<1>16. HighNum(x) = HighNum(y)
  BY <1>15 DEF Aside, SameWindow, HighNum
<1>17. Numbered(x, lo, d)
  BY <1>12, <1>15, <1>16 DEF Aside, SameWindow, Numbered
<1>18. ReadsOne(k, x, lo, d)
  BY <1>6, <1>9, <1>10, <1>13, <1>15, <1>16, <1>17 DEF Aside, SameWindow, ReadsOne
<1>19. QED
  BY <1>18 DEF x

\* The recursion that ReadRows is defined by.
Reading(f, k, rows, m) ==
    f = [n \in 0..m |-> IF n = 0 THEN k ELSE MsgIncomingLocal(f[n - 1], FetchedMessage(k, rows, n))]

\* What has been read after n rows of those from "from".
ReadBack(k, x, lo, d, n) ==
    /\ Chat(x) /\ Numbered(x, lo, d) /\ x.low = k.low - n /\ HighNum(x) = HighNum(k) /\ x.db = k.db
    /\ x.mOnlineState = k.mOnlineState /\ x.mOldestKnownMsgId = k.mOldestKnownMsgId
    /\ x.ram # <<>> \/ (n = 0 /\ x.ram = k.ram)

\* The recursion is defined up to any number of rows, and each row moves the window by one.
LEMMA ReadingGoesOn ==
    ASSUME NEW k, NEW lo, NEW d, NEW from \in lo..k.low, Chat(k), Numbered(k, lo, d),
           NEW n \in Nat, n <= k.low - from
    PROVE  \E f : /\ Reading(f, k, from..(k.low - 1), n)
                  /\ \A i \in 0..n : ReadBack(k, f[i], lo, d, i)
<1> DEFINE rows == from..(k.low - 1)
           Can(m) == \E f : Reading(f, k, rows, m) /\ \A i \in 0..m : ReadBack(k, f[i], lo, d, i)
           cannot == {m \in Nat : m <= k.low - from /\ ~Can(m)}
<1>1. lo \in Int /\ k.low \in Int /\ from \in Int /\ lo <= from /\ from <= k.low
  BY DEF Chat, Numbered
<1>2. Can(0)
  <2>1. ReadBack(k, k, lo, d, 0)
    BY <1>1 DEF ReadBack
  <2> DEFINE f == [n_1 \in 0..0 |-> k]
  <2>2. f = [n_1 \in 0..0 |-> IF n_1 = 0 THEN k
                              ELSE MsgIncomingLocal(f[n_1 - 1], FetchedMessage(k, rows, n_1))]
    OBVIOUS
  <2>3. \A i \in 0..0 : f[i] = k /\ i = 0
    OBVIOUS
  <2>4. QED
    BY <2>1, <2>2, <2>3 DEF Reading
<1>3. ASSUME NEW m \in Nat, m + 1 <= k.low - from, Can(m) PROVE Can(m + 1)
  <2>1. PICK f : Reading(f, k, rows, m) /\ \A i \in 0..m : ReadBack(k, f[i], lo, d, i)
    BY <1>3
  <2> DEFINE x == f[m]
             msg == FetchedMessage(k, rows, m + 1)
             g == [i \in 0..(m + 1) |-> IF i = m + 1 THEN MsgIncomingLocal(x, msg) ELSE f[i]]
  <2>2. ReadBack(k, x, lo, d, m)
    BY <2>1
  <2>3. x.low = k.low - m /\ lo < x.low /\ x.low - 1 = k.low - (m + 1)
    BY <1>1, <1>3, <2>2, SMTT(30) DEF ReadBack
  <2>4. m + 1 \in 1..(k.low - from)
    BY <1>1, <1>3
  <2>5. msg = [id |-> k.db[k.low - (m + 1)].id, pend |-> FALSE, trunc |-> k.db[k.low - (m + 1)].trunc]
    BY <1>1, <2>4, RowFetched
  <2>6. msg = [id |-> x.db[x.low - 1].id, pend |-> FALSE, trunc |-> x.db[x.low - 1].trunc]
    BY <2>2, <2>3, <2>5 DEF ReadBack
  <2>. HIDE DEF x, msg
  <2>7. ASSUME NEW y, y = MsgIncomingLocal(x, msg)
        PROVE  ReadBack(k, y, lo, d, m + 1)
    <3>1. Chat(x) /\ Numbered(x, lo, d)
      BY <2>2 DEF ReadBack
    <3>2. x.low - 1 \in lo..HighNum(x)
      <4>1. x.low \in Int /\ Len(x.ram) \in Nat
        BY <3>1 DEF Chat
      <4>2. HighNum(x) = x.low + Len(x.ram) - 1
        BY DEF HighNum
      <4>3. x.low - 1 >= lo /\ x.low - 1 <= HighNum(x)
        BY <1>1, <2>3, <4>1, <4>2, SMTT(30)
      <4>4. HighNum(x) \in Int /\ x.low - 1 \in Int
        BY <4>1, <4>2, SMTT(30)
      <4>5. QED
        BY <1>1, <4>3, <4>4
    <3>3. x.db[x.low - 1] \in Row /\ x.db[x.low - 1].id = x.low - 1 + d
      BY <3>1, <3>2 DEF Numbered
    <3>4. msg \in Message /\ msg.id = x.low - 1 + d /\ msg.pend = FALSE
      BY <2>6, <3>3 DEF Message, Row
    <3>5. IsBelow(x, msg, lo, d)
      BY <2>3, <3>1, <3>4 DEF IsBelow
    <3>6. ReadsOne(x, y, lo, d)
      BY <2>7, <3>5, MsgIncomingLocalReads, Zenon
    <3>7. QED
      BY <2>2, <2>3, <3>6 DEF ReadBack, ReadsOne
  <2>8. \A i \in 0..m : g[i] = f[i]
    OBVIOUS
  <2>9. g[m + 1] = MsgIncomingLocal(x, msg)
    OBVIOUS
  <2>10. \A i \in 0..(m + 1) : ReadBack(k, g[i], lo, d, i)
    <3> TAKE i \in 0..(m + 1)
    <3>1. CASE i = m + 1
      BY <2>7, <2>9, <3>1
    <3>2. CASE i # m + 1
      <4>1. i \in 0..m
        BY <3>2
      <4>2. QED
        BY <2>1, <2>8, <4>1
    <3>3. QED
      BY <3>1, <3>2
  <2>11. \A i \in 0..m : f[i] = IF i = 0 THEN k ELSE MsgIncomingLocal(f[i - 1], FetchedMessage(k, rows, i))
    BY <2>1 DEF Reading
  <2>12. ASSUME NEW i \in 0..(m + 1)
         PROVE  g[i] = IF i = 0 THEN k ELSE MsgIncomingLocal(g[i - 1], FetchedMessage(k, rows, i))
    <3>1. CASE i = m + 1
      <4>1. i # 0 /\ i - 1 = m /\ g[i - 1] = x
        BY <2>8, <3>1 DEF x
      <4>2. QED
        BY <2>9, <3>1, <4>1 DEF msg
    <3>2. CASE i # m + 1 /\ i # 0
      <4>1. i \in 0..m /\ i - 1 \in 0..m
        BY <3>2
      <4>2. QED
        BY <2>8, <2>11, <3>2, <4>1
    <3>3. CASE i = 0
      <4>1. i \in 0..m
        BY <3>3
      <4>2. QED
        BY <2>8, <2>11, <3>3, <4>1
    <3>4. QED
      BY <3>1, <3>2, <3>3
  <2>13. g = [i \in 0..(m + 1) |-> g[i]]
    OBVIOUS
  <2>. HIDE DEF g
  <2>14. Reading(g, k, rows, m + 1)
    BY <2>12, <2>13 DEF Reading
  <2>15. QED
    BY <2>10, <2>14
<1>4. cannot = {}
  <2>1. SUFFICES ASSUME cannot # {} PROVE FALSE
    OBVIOUS
  <2>2. cannot \in SUBSET Nat
    OBVIOUS
  <2>. HIDE DEF Can
  <2>3. PICK m \in cannot : \A y \in cannot : ~(y < m)
    BY <2>1, <2>2, LeastNat
  <2>4. m \in Nat /\ m # 0 /\ m <= k.low - from /\ ~Can(m)
    BY <1>2, <2>3
  <2>5. m - 1 \in Nat /\ m - 1 <= k.low - from /\ m - 1 \notin cannot
    BY <1>1, <2>3, <2>4
  <2>6. Can(m - 1)
    BY <2>5
  <2>7. Can((m - 1) + 1)
    BY <1>1, <1>3, <2>4, <2>5, <2>6
  <2>8. (m - 1) + 1 = m
    BY <2>4
  <2>9. QED
    BY <2>4, <2>7, <2>8
<1>5. QED
  BY <1>4

LEMMA ReadingOnce ==
    ASSUME NEW k, NEW rows, NEW m \in Nat, NEW f, NEW g,
           Reading(f, k, rows, m), Reading(g, k, rows, m)
    PROVE  f = g
<1> DEFINE apart == {i \in Nat : i <= m /\ f[i] # g[i]}
<1>1. \A i \in 0..m : /\ f[i] = IF i = 0 THEN k ELSE MsgIncomingLocal(f[i - 1], FetchedMessage(k, rows, i))
                      /\ g[i] = IF i = 0 THEN k ELSE MsgIncomingLocal(g[i - 1], FetchedMessage(k, rows, i))
  BY DEF Reading
<1>2. apart = {}
  <2>1. SUFFICES ASSUME apart # {} PROVE FALSE
    OBVIOUS
  <2>2. PICK i \in apart : \A j \in apart : ~(j < i)
    BY <2>1, LeastNat
  <2>3. i \in Nat /\ i <= m /\ f[i] # g[i]
    BY <2>2
  <2>4. i # 0
    BY <1>1, <2>3
  <2>5. i - 1 \in Nat /\ i - 1 <= m /\ i - 1 < i
    BY <2>3, <2>4
  <2>6. f[i - 1] = g[i - 1]
    BY <2>2, <2>5
  <2>7. i \in 0..m
    BY <2>3
  <2>8. QED
    BY <1>1, <2>3, <2>4, <2>6, <2>7
<1>3. \A i \in 0..m : f[i] = g[i]
  BY <1>2
<1>4. f = [i \in 0..m |-> f[i]] /\ g = [i \in 0..m |-> g[i]]
  BY DEF Reading
<1>5. QED
  BY <1>3, <1>4

\* All the rows fetched have been read.
LEMMA ReadRowsReads ==
    ASSUME NEW k, NEW lo, NEW d, NEW from \in lo..k.low, Chat(k), Numbered(k, lo, d)
    PROVE  /\ Cardinality(from..(k.low - 1)) = k.low - from
           /\ ReadBack(k, ReadRows(k, from..(k.low - 1)), lo, d, k.low - from)
<1> DEFINE rows == from..(k.low - 1)
           m == k.low - from
<1>1. lo \in Int /\ k.low \in Int /\ from \in Int /\ lo <= from /\ from <= k.low
  BY DEF Chat, Numbered
<1>2. m \in Nat /\ m <= k.low - from
  BY <1>1
<1>3. Cardinality(rows) = m
  <2>1. k.low - 1 \in Int /\ from <= (k.low - 1) + 1
    BY <1>1
  <2>2. Cardinality(rows) = (k.low - 1) - from + 1
    BY <1>1, <2>1, IntervalSize
  <2>3. QED
    BY <1>1, <2>2
<1>4. PICK f : Reading(f, k, rows, m) /\ \A i \in 0..m : ReadBack(k, f[i], lo, d, i)
  BY <1>2, ReadingGoesOn
<1> DEFINE read == CHOOSE g : Reading(g, k, rows, m)
<1>5. Reading(read, k, rows, m)
  BY <1>4
<1>. HIDE DEF read
<1>6. read = f
  BY <1>2, <1>4, <1>5, ReadingOnce
<1>7. ReadRows(k, rows) = read[m]
  BY <1>3 DEF ReadRows, Reading, read
<1>8. m \in 0..m
  BY <1>2
<1>9. QED
  BY <1>3, <1>4, <1>6, <1>7, <1>8

LEMMA MaxOfTwo ==
    ASSUME NEW a \in Int, NEW b \in Int
    PROVE  /\ Max({a, b}) \in {a, b} /\ Max({a, b}) >= a /\ Max({a, b}) >= b
           /\ Max({a, b}) \in Int
<1>1. \E x \in {a, b} : \A y \in {a, b} : x >= y
  <2>1. CASE a >= b
    BY <2>1
  <2>2. CASE b >= a
    BY <2>2
  <2>3. QED
    BY <2>1, <2>2
<1>2. Max({a, b}) = CHOOSE x \in {a, b} : \A y \in {a, b} : x >= y
  BY DEF Max
<1>3. Max({a, b}) \in {a, b} /\ \A y \in {a, b} : Max({a, b}) >= y
  BY <1>1, <1>2
<1>4. QED
  BY <1>3

\* The chat has the same messages as before, but perhaps more of them are in RAM.
Keeps(k, x) ==
    /\ Chat(x) /\ x.mOnlineState = k.mOnlineState
    /\ \A b, n : Holds(k, b, n) => Holds(x, b, n)
    /\ Bare(k) => Bare(x)
    /\ Cuts(x) = Cuts(k)

LEMMA AsideKeeps == \A k, x : Aside(k, x) => Keeps(k, x)
BY SameWindowHolds DEF Aside, Keeps

LEMMA KeepsTwice == \A k, x, y : Keeps(k, x) /\ Keeps(x, y) => Keeps(k, y)
BY DEF Keeps

\* Nothing is loaded twice, and what says that there is more is right afterwards.
LEMMA GetHistoryFromDbLoads ==
    ASSUME NEW k, NEW lo, NEW d, NEW count \in Nat \ {0}, Chat(k), Numbered(k, lo, d), lo < k.low
    PROVE  ReadBack(k, GetHistoryFromDb(k, count), lo, d, k.low - GetHistoryFromDb(k, count).low)
           /\ GetHistoryFromDb(k, count).ram # <<>>
<1>1. lo \in Int /\ k.low \in Int
  BY DEF Chat, Numbered
<1>2. PICK from \in lo..k.low : /\ FetchDbHistory(k, count) = from..(k.low - 1)
                                /\ from = lo \/ from = k.low - count
  BY RowsRead
<1> DEFINE rows == from..(k.low - 1)
           read == ReadRows(k, rows)
           next == (IF read.mNextHistFetchIdx = NoIdx THEN k.low - 1
                    ELSE read.mNextHistFetchIdx) - Cardinality(rows)
           x == [read EXCEPT !.mNextHistFetchIdx = next]
           moved == [read EXCEPT !.mNextHistFetchIdx =
                     (IF @ = NoIdx THEN k.low - 1 ELSE @) - Cardinality(rows)]
           again == [moved EXCEPT !.mOldestKnownMsgId = DbOldestId(k)]
<1>3. Cardinality(rows) = k.low - from /\ ReadBack(k, read, lo, d, k.low - from)
  BY ReadRowsReads
<1>4. from \in Int /\ from <= k.low /\ from # k.low
  BY <1>1, <1>2
<1>. HIDE DEF read
<1>5. /\ Chat(read) /\ Numbered(read, lo, d) /\ read.low = from /\ read.ram # <<>>
      /\ HighNum(read) = HighNum(k) /\ read.db = k.db /\ read.mOnlineState = k.mOnlineState
      /\ read.mOldestKnownMsgId = k.mOldestKnownMsgId
  BY <1>1, <1>3, <1>4 DEF ReadBack
<1>6. next \in Int
  BY <1>1, <1>3, <1>4, <1>5, SMTT(30) DEF Chat
<1>7. moved = x
  BY DEF moved, x
<1>. HIDE DEF next
<1>8. /\ x = [f \in Fields |-> x[f]] /\ x.mNextHistFetchIdx = next
      /\ \A f \in Fields \ {"mNextHistFetchIdx"} : x[f] = read[f]
  BY <1>5 DEF Chat, Fields
<1>. HIDE DEF x, moved
<1>9. Aside(read, x)
  BY <1>5, <1>6, <1>8 DEF Aside, Chat, SameWindow, Fields
<1>10. HighNum(x) = HighNum(k)
  BY <1>5, <1>9 DEF Aside, SameWindow, HighNum
<1>11. Numbered(x, lo, d)
  BY <1>5, <1>9, <1>10 DEF Aside, SameWindow, Numbered
<1>12. x.low = from /\ x.ram # <<>>
  BY <1>5, <1>9 DEF Aside, SameWindow
<1>13. ReadBack(k, x, lo, d, k.low - x.low)
  <2>1. x.low = k.low - (k.low - x.low)
    BY <1>1, <1>4, <1>12
  <2>2. QED
    BY <2>1, <1>5, <1>9, <1>10, <1>11, <1>12 DEF Aside, SameWindow, ReadBack
<1>14. ~(Cardinality(rows) < count /\ x.mHasMoreHistoryInDb)
  <2>1. SUFFICES ASSUME Cardinality(rows) < count, x.mHasMoreHistoryInDb PROVE FALSE
    OBVIOUS
  <2>2. from = lo
    BY <1>1, <1>2, <1>3, <1>4, <2>1
  <2>3. lo < x.low
    BY <1>11, <2>1 DEF Numbered
  <2>4. QED
    BY <1>1, <1>12, <2>2, <2>3
<1>15. GetHistoryFromDb(k, count) = x
  <2>1. GetHistoryFromDb(k, count) =
           IF Cardinality(rows) < count /\ moved.mHasMoreHistoryInDb
           THEN [again EXCEPT !.mHasMoreHistoryInDb = HasMoreHistoryInDb(again)] ELSE moved
    BY <1>2 DEF GetHistoryFromDb, moved, read
  <2>2. QED
    BY <2>1, <1>7, <1>14
<1>16. QED
  BY <1>12, <1>13, <1>15

LEMMA FromDbKeeps ==
    ASSUME NEW k, NEW b, NEW n, NEW count \in Nat \ {0}, Holds(k, b, n), k.mHasMoreHistoryInDb
    PROVE  Keeps(k, GetHistoryFromDb(k, count))
<1> DEFINE x == GetHistoryFromDb(k, count)
<1>1. Chat(k) /\ k.ram # <<>>
  BY DEF Holds
<1>2. ASSUME NEW lo, NEW d, Numbered(k, lo, d)
      PROVE  /\ Numbered(x, lo, d) /\ HighNum(x) = HighNum(k) /\ Chat(x) /\ x.ram # <<>>
             /\ x.db = k.db /\ x.mOnlineState = k.mOnlineState
  <2>1. lo < k.low
    BY <1>2 DEF Numbered
  <2>2. ReadBack(k, x, lo, d, k.low - x.low) /\ x.ram # <<>>
    BY <1>1, <1>2, <2>1, GetHistoryFromDbLoads
  <2>3. QED
    BY <2>2 DEF ReadBack
<1>. HIDE DEF x
<1>3. PICK lo, d : Numbered(k, lo, d)
  BY DEF Holds
<1>4. ASSUME NEW a, NEW m, Holds(k, a, m) PROVE Holds(x, a, m)
  <2>1. PICK p, q : Numbered(k, p, q) /\ a = p + q /\ m = HighNum(k) + q
    BY <1>4 DEF Holds
  <2>2. /\ Numbered(x, p, q) /\ HighNum(x) = HighNum(k) /\ Chat(x) /\ x.ram # <<>>
    BY <1>2, <2>1
  <2>3. QED
    BY <2>1, <2>2 DEF Holds
<1>5. ~Bare(k)
  BY <1>1 DEF Bare
<1>6. Chat(x) /\ x.db = k.db /\ x.mOnlineState = k.mOnlineState
  BY <1>2, <1>3
<1>7. Keeps(k, x)
  BY <1>4, <1>5, <1>6 DEF Keeps, Cuts
<1>8. QED
  BY <1>7 DEF x

LEMMA FromRamAside ==
    ASSUME NEW k, NEW count \in Nat, Chat(k)
    PROVE  /\ Aside(k, GetHistoryFromRam(k, count))
           /\ GetHistoryFromRam(k, count).mNextHistFetchIdx \in Int
<1> DEFINE to == Max({k.mNextHistFetchIdx - count, k.low - 1})
           x(s) == [k EXCEPT !.loaded = s, !.mNextHistFetchIdx = to]
<1>1. k.mNextHistFetchIdx - count \in Int /\ k.low - 1 \in Int
  BY DEF Chat
<1>2. to \in Int
  BY <1>1, MaxOfTwo
<1>3. ASSUME NEW s PROVE Aside(k, x(s)) /\ x(s).mNextHistFetchIdx = to
  <2>. HIDE DEF to
  <2>1. /\ x(s) = [f \in Fields |-> x(s)[f]] /\ x(s).mNextHistFetchIdx = to
        /\ \A f \in Fields \ {"loaded", "mNextHistFetchIdx"} : x(s)[f] = k[f]
    BY ZenonT(30) DEF Chat, Fields
  <2>2. QED
    BY <1>2, <2>1, ZenonT(30) DEF Aside, Chat, SameWindow, Fields
<1>4. \E s : GetHistoryFromRam(k, count) = x(s)
  BY ZenonT(30) DEF GetHistoryFromRam
<1>5. QED
  BY <1>2, <1>3, <1>4, ZenonT(30)

\* The chat holds some messages, or none.
Settled(k) == Bare(k) \/ \E b, n : Holds(k, b, n)

LEMMA DbOrServerKeeps ==
    ASSUME NEW k, NEW count \in Nat \ {0}, Chat(k), Settled(k)
    PROVE  Keeps(k, GetHistoryFromDbOrServer(k, count))
<1> DEFINE asked == IF k.mServerFetchState \in OldStates THEN k.marshalled
                    ELSE Append(k.marshalled, count)
           x(s) == [k EXCEPT !.mServerOldHistCbEnabled = TRUE, !.waiting = TRUE,
                             !.marshalled = s]
           db == GetHistoryFromDb(k, count)
<1>1. CASE k.mHasMoreHistoryInDb
  <2>1. \E b, n : Holds(k, b, n)
    BY <1>1 DEF Settled, Bare
  <2>2. Keeps(k, db)
    BY <1>1, <2>1, FromDbKeeps
  <2>3. Keeps(db, HistoryDone(db))
    BY <2>2, HistoryDoneAside, AsideKeeps DEF Keeps
  <2>4. GetHistoryFromDbOrServer(k, count) = HistoryDone(db)
    BY <1>1 DEF GetHistoryFromDbOrServer
  <2>5. QED
    BY <2>2, <2>3, <2>4, KeepsTwice, Zenon
<1>2. CASE ~k.mHasMoreHistoryInDb /\ (k.mHaveAllHistory \/ k.mOnlineState # "Online")
  <2>1. GetHistoryFromDbOrServer(k, count) = HistoryDone(k)
    BY <1>2 DEF GetHistoryFromDbOrServer
  <2>2. QED
    BY <2>1, HistoryDoneAside, AsideKeeps
<1>3. CASE ~k.mHasMoreHistoryInDb /\ ~(k.mHaveAllHistory \/ k.mOnlineState # "Online")
  <2>1. asked \in Seq(Nat)
    BY DEF Chat
  <2>. HIDE DEF asked
  <2>2. /\ x(asked) = [f \in Fields |-> x(asked)[f]] /\ x(asked).marshalled = asked
        /\ \A f \in Fields \ {"mServerOldHistCbEnabled", "waiting", "marshalled"} : x(asked)[f] = k[f]
    BY ZenonT(30) DEF Chat, Fields
  <2>3. Aside(k, x(asked))
    BY <2>1, <2>2, ZenonT(30) DEF Aside, Chat, SameWindow, Fields
  <2>4. GetHistoryFromDbOrServer(k, count) = x(asked)
    BY <1>3 DEF GetHistoryFromDbOrServer, asked
  <2>5. QED
    BY <2>3, <2>4, AsideKeeps
<1>4. QED
  BY <1>1, <1>2, <1>3

LEMMA KeepsSettled == \A k, x : Keeps(k, x) /\ Settled(k) => Settled(x)
BY DEF Keeps, Settled

\* What the application asks for changes nothing of what the chat has.
LEMMA GetHistoryKeeps ==
    ASSUME NEW k, NEW count \in Nat \ {0}, Chat(k), Settled(k)
    PROVE  Keeps(k, GetHistory(k, count))
<1> DEFINE start == IF k.mNextHistFetchIdx = NoIdx /\ k.ram # <<>>
                    THEN [k EXCEPT !.mNextHistFetchIdx = HighNum(k)] ELSE k
           ram == start.mNextHistFetchIdx # NoIdx /\ start.mNextHistFetchIdx >= k.low
           read == IF ram THEN GetHistoryFromRam(start, count) ELSE start
           rest == IF ram THEN count - (start.mNextHistFetchIdx - read.mNextHistFetchIdx) ELSE count
           told == [k EXCEPT !.waiting = TRUE]
<1>1. Aside(k, start)
  <2> DEFINE x == [k EXCEPT !.mNextHistFetchIdx = HighNum(k)]
  <2>1. HighNum(k) \in Int
    BY DEF Chat, HighNum
  <2>2. /\ x = [f \in Fields |-> x[f]] /\ x.mNextHistFetchIdx = HighNum(k)
        /\ \A f \in Fields \ {"mNextHistFetchIdx"} : x[f] = k[f]
    BY DEF Chat, Fields
  <2>3. Aside(k, x)
    BY <2>1, <2>2 DEF Aside, Chat, SameWindow, Fields
  <2>4. QED
    BY <2>3, AsideAlone
<1>2. Aside(k, told)
  <2>1. told = [f \in Fields |-> told[f]] /\ \A f \in Fields \ {"waiting"} : told[f] = k[f]
    BY DEF Chat, Fields
  <2>2. QED
    BY <2>1 DEF Aside, Chat, SameWindow, Fields
<1>. HIDE DEF start, told
<1>3. Chat(start) /\ start.mNextHistFetchIdx \in Int
  BY <1>1 DEF Aside, Chat
<1>4. Aside(start, GetHistoryFromRam(start, count)) /\ GetHistoryFromRam(start, count).mNextHistFetchIdx \in Int
  BY <1>3, FromRamAside
<1>5. Aside(start, read) /\ read.mNextHistFetchIdx \in Int
  BY <1>3, <1>4, AsideAlone
<1>. HIDE DEF read
<1>6. rest \in Int
  BY <1>3, <1>5
<1>7. Aside(k, read)
  BY <1>1, <1>5, AsideTwice
<1>8. Keeps(k, read) /\ Chat(read) /\ Settled(read)
  BY <1>7, AsideKeeps, KeepsSettled DEF Aside
<1>9. Keeps(k, HistoryDone(read))
  BY <1>8, HistoryDoneAside, AsideKeeps, KeepsTwice
<1>. HIDE DEF rest
<1>10. ASSUME ~(rest <= 0) PROVE Keeps(k, GetHistoryFromDbOrServer(read, rest))
  <2>1. rest \in Nat \ {0}
    BY <1>6, <1>10
  <2>2. Keeps(read, GetHistoryFromDbOrServer(read, rest))
    BY <1>8, <2>1, DbOrServerKeeps
  <2>3. QED
    BY <1>8, <2>2, KeepsTwice
<1>11. GetHistory(k, count) =
          IF IsNotifyingOldHistFromServer(k) THEN told
          ELSE IF rest <= 0 THEN HistoryDone(read)
          ELSE GetHistoryFromDbOrServer(read, rest)
  BY DEF GetHistory, start, read, rest, told
<1>12. Keeps(k, told)
  BY <1>2, AsideKeeps
<1>13. QED
  BY <1>9, <1>10, <1>11, <1>12

LEMMA IntervalEnds ==
    ASSUME NEW a \in Int, NEW b \in Int, a <= b
    PROVE  Max(a..b) = b /\ Min(a..b) = a
<1>1. b \in a..b /\ a \in a..b
  OBVIOUS
<1>2. \A y \in a..b : b >= y /\ a <= y
  OBVIOUS
<1>3. \A x \in a..b : (\A y \in a..b : x >= y) => x = b
  BY <1>1
<1>4. \A x \in a..b : (\A y \in a..b : x <= y) => x = a
  BY <1>1
<1>5. Max(a..b) = b
  BY <1>1, <1>2, <1>3 DEF Max
<1>6. Min(a..b) = a
  BY <1>1, <1>2, <1>4 DEF Min
<1>7. QED
  BY <1>5, <1>6

\* The oldest row is the first message that the chat has.
LEMMA OldestRow ==
    ASSUME NEW k, NEW b, NEW n, Holds(k, b, n)
    PROVE  DbOldestId(k) = b /\ k.db # <<>> /\ b \in 1..MaxLog /\ n \in 1..MaxLog /\ b <= n
<1>1. PICK lo, d : Numbered(k, lo, d) /\ b = lo + d /\ n = HighNum(k) + d
  BY DEF Holds
<1>2. lo \in Int /\ HighNum(k) \in Int /\ lo <= HighNum(k) /\ d \in Int
  BY <1>1 DEF Numbered, Holds, Chat, HighNum
<1>3. DOMAIN k.db = lo..HighNum(k) /\ lo \in DOMAIN k.db /\ HighNum(k) \in DOMAIN k.db
  BY <1>1, <1>2 DEF Numbered
<1>4. k.db # <<>>
  BY <1>3
<1>5. k.db[lo].id = b /\ k.db[HighNum(k)].id = n /\ k.db[lo] \in Row /\ k.db[HighNum(k)] \in Row
  BY <1>1, <1>2, SMTT(30) DEF Numbered
<1>6. Min(DOMAIN k.db) = lo
  BY <1>2, <1>3, IntervalEnds
<1>7. b \in 1..MaxLog /\ n \in 1..MaxLog /\ b <= n
  BY <1>1, <1>2, <1>5 DEF Row
<1>8. QED
  BY <1>4, <1>5, <1>6, <1>7 DEF DbOldestId

LEMMA InitChatClears ==
    ASSUME NEW k, Chat(k)
    PROVE  /\ InitChat(k) = [f \in Fields |-> InitChat(k)[f]]
           /\ InitChat(k).low = 0 /\ InitChat(k).ram = <<>> /\ InitChat(k).mNextHistFetchIdx = NoIdx
           /\ InitChat(k).mHasMoreHistoryInDb = FALSE
           /\ InitChat(k).mDecryptNewHaltedAt = NoHalt /\ InitChat(k).mDecryptOldHaltedAt = NoHalt
           /\ \A f \in {"db", "keys", "mOnlineState", "marshalled", "open"} :
                 InitChat(k)[f] = k[f]
<1> DEFINE a == [k EXCEPT !.low = 0, !.ram = <<>>, !.mOldestKnownMsgId = NoId, !.mNextHistFetchIdx = NoIdx,
                          !.mLastServerHistFetchCount = 0, !.mLastServerRequested = 0]
           b == [a EXCEPT !.mDecryptNewHaltedAt = NoHalt, !.mDecryptOldHaltedAt = NoHalt,
                          !.mHasMoreHistoryInDb = FALSE, !.mHaveAllHistory = FALSE]
<1>1. a = [f \in Fields |-> a[f]]
  BY DEF Chat, Fields
<1>2. /\ a.low = 0 /\ a.ram = <<>> /\ a.mNextHistFetchIdx = NoIdx
      /\ \A f \in {"db", "keys", "mOnlineState", "marshalled", "open"} : a[f] = k[f]
  BY DEF Chat, Fields
<1>3. InitChat(k) = b
  BY DEF InitChat
<1>. HIDE DEF a
<1>4. b = [f \in Fields |-> b[f]]
  BY <1>1 DEF Fields
<1>5. /\ b.low = 0 /\ b.ram = <<>> /\ b.mNextHistFetchIdx = NoIdx
      /\ \A f \in {"db", "keys", "mOnlineState", "marshalled", "open"} : b[f] = k[f]
  BY <1>1, <1>2 DEF Fields
<1>6. /\ b.mHasMoreHistoryInDb = FALSE
      /\ b.mDecryptNewHaltedAt = NoHalt /\ b.mDecryptOldHaltedAt = NoHalt
  BY <1>1 DEF Fields
<1>7. QED
  BY <1>3, <1>4, <1>5, <1>6

\* The constructor finds in the database what the chat had.
LEMMA NewChatKeeps ==
    ASSUME NEW k, Chat(k), Settled(k)
    PROVE  /\ Chat(NewChat(k)) /\ NewChat(k).mOnlineState = "Offline"
           /\ \A b, n : Holds(k, b, n) => Holds(NewChat(k), b, n)
           /\ Bare(k) => Bare(NewChat(k))
           /\ Cuts(NewChat(k)) = Cuts(k)
<1> DEFINE info == [InitChat(k) EXCEPT
                    !.mOnlineState = "Offline", !.mIsFirstJoin = TRUE,
                    !.mServerFetchState = "NotFetching", !.mServerOldHistCbEnabled = FALSE,
                    !.mHaveAllHistory = k.mHaveAllHistory, !.mOldestKnownMsgId = DbOldestId(k),
                    !.marshalled = <<>>,
                    !.open = FALSE, !.loaded = <<>>, !.live = <<>>, !.waiting = FALSE]
           first == [info EXCEPT !.low = Max(DOMAIN k.db) + 1, !.mHasMoreHistoryInDb = TRUE]
           x == GetHistoryFromDb(first, initialHistoryFetchCount)
<1>1. NoIdx \in Int
  BY HistoryAssumption DEF NoIdx
<1> DEFINE init == InitChat(k)
           half == [init EXCEPT
                    !.mOnlineState = "Offline", !.mIsFirstJoin = TRUE,
                    !.mServerFetchState = "NotFetching", !.mServerOldHistCbEnabled = FALSE,
                    !.mHaveAllHistory = k.mHaveAllHistory, !.mOldestKnownMsgId = DbOldestId(k)]
           full == [half EXCEPT !.marshalled = <<>>,
                    !.open = FALSE, !.loaded = <<>>, !.live = <<>>, !.waiting = FALSE]
<1>1a. /\ init = [f \in Fields |-> init[f]]
       /\ init.low = 0 /\ init.ram = <<>> /\ init.mNextHistFetchIdx = NoIdx
       /\ init.mHasMoreHistoryInDb = FALSE
       /\ init.mDecryptNewHaltedAt = NoHalt /\ init.mDecryptOldHaltedAt = NoHalt
       /\ init.db = k.db /\ init.keys = k.keys
  BY InitChatClears
<1>1b. info = full
  OBVIOUS
<1>. HIDE DEF init, info
<1>1c. half = [f \in Fields |-> half[f]]
  BY <1>1a DEF Fields
<1>1d. /\ half.low = 0 /\ half.ram = <<>> /\ half.mNextHistFetchIdx = NoIdx
       /\ half.mHasMoreHistoryInDb = FALSE
       /\ half.mDecryptNewHaltedAt = NoHalt /\ half.mDecryptOldHaltedAt = NoHalt
       /\ half.db = k.db /\ half.keys = k.keys
       /\ half.mOnlineState = "Offline" /\ half.mOldestKnownMsgId = DbOldestId(k)
  BY <1>1a DEF Fields
<1>. HIDE DEF half
<1>2. info = [f \in Fields |-> info[f]]
  BY <1>1b, <1>1c DEF Fields
<1>3. /\ info.low = 0 /\ info.ram = <<>> /\ info.db = k.db /\ info.mHasMoreHistoryInDb = FALSE
      /\ info.mOnlineState = "Offline" /\ info.mOldestKnownMsgId = DbOldestId(k)
  BY <1>1b, <1>1c, <1>1d DEF Fields
<1>4. /\ info.keys = k.keys /\ info.mNextHistFetchIdx = NoIdx /\ info.marshalled = <<>>
      /\ info.mDecryptNewHaltedAt = NoHalt /\ info.mDecryptOldHaltedAt = NoHalt
  BY <1>1b, <1>1c, <1>1d DEF Fields
<1>5. Chat(info)
  <2>1. info.ram \in Seq(Message) /\ info.marshalled \in Seq(Nat)
    BY <1>3, <1>4
  <2>2. info.mHasMoreHistoryInDb \in BOOLEAN
    BY <1>3
  <2>3. QED
    BY <1>1, <1>2, <1>3, <1>4, <2>1, <2>2 DEF Chat
<1>6. NewChat(k) = IF k.db = <<>> THEN info ELSE x
  BY DEF NewChat, info
<1>7. CASE Bare(k)
  <2>1. NewChat(k) = info /\ k.db = <<>>
    BY <1>6, <1>7 DEF Bare
  <2>2. Bare(info)
    BY <1>3, <1>5, <2>1 DEF Bare
  <2>3. ~\E b, n : Holds(k, b, n)
    BY <1>7 DEF Bare, Holds
  <2>4. QED
    BY <1>3, <1>5, <2>1, <2>2, <2>3 DEF Cuts
<1>8. CASE ~Bare(k)
  <2>1. \E b, n : Holds(k, b, n)
    BY <1>8 DEF Settled
  <2>2. k.db # <<>>
    BY <2>1, OldestRow
  <2>3. ASSUME NEW lo, NEW d, Numbered(k, lo, d)
        PROVE  /\ Numbered(x, lo, d) /\ HighNum(x) = HighNum(k) /\ Chat(x) /\ x.ram # <<>>
               /\ x.db = k.db /\ x.mOnlineState = "Offline"
    <3>1. lo \in Int /\ HighNum(k) \in Int /\ lo <= HighNum(k) /\ d \in Int
      BY <2>3 DEF Numbered, Chat, HighNum
    <3>2. DOMAIN k.db = lo..HighNum(k)
      BY <2>3 DEF Numbered
    <3>3. Max(DOMAIN k.db) = HighNum(k) /\ Min(DOMAIN k.db) = lo
      BY <3>1, <3>2, IntervalEnds
    <3>4. DbOldestId(k) = lo + d
      <4>1. lo \in lo..HighNum(k)
        BY <3>1
      <4>2. k.db[lo].id = lo + d
        BY <2>3, <4>1 DEF Numbered
      <4>3. QED
        BY <2>2, <3>3, <4>2 DEF DbOldestId
    <3>5. /\ first = [f \in Fields |-> first[f]]
          /\ first.low = HighNum(k) + 1 /\ first.ram = info.ram /\ first.db = info.db
          /\ first.mOnlineState = info.mOnlineState
          /\ first.mOldestKnownMsgId = info.mOldestKnownMsgId
          /\ first.keys = info.keys /\ first.mNextHistFetchIdx = info.mNextHistFetchIdx
          /\ first.marshalled = info.marshalled
          /\ first.mDecryptNewHaltedAt = info.mDecryptNewHaltedAt
          /\ first.mDecryptOldHaltedAt = info.mDecryptOldHaltedAt
      BY <1>5, <3>3 DEF Chat, Fields
    <3>6. first.mHasMoreHistoryInDb = TRUE
      BY <1>5 DEF Chat, Fields
    <3>. HIDE DEF first
    <3>7. Chat(first) /\ first.ram = <<>> /\ first.db = k.db /\ first.mOnlineState = "Offline"
          /\ first.mOldestKnownMsgId = lo + d
      <4>1. first.low \in Int
        BY <3>1, <3>5
      <4>1a. first.mHasMoreHistoryInDb \in BOOLEAN
        BY <3>6, Zenon
      <4>2. Chat(first)
        BY <1>5, <3>5, <4>1, <4>1a DEF Chat
      <4>3. QED
        BY <1>3, <3>4, <3>5, <4>2
    <3>8. HighNum(first) = HighNum(k)
      BY <3>1, <3>5, <3>7 DEF HighNum
    <3>9. Numbered(first, lo, d) /\ lo < first.low
      <4>1. /\ lo \in Int /\ d \in Int /\ lo <= first.low /\ lo <= HighNum(first) /\ lo < first.low
        BY <3>1, <3>5, <3>8
      <4>2. first.db \in [lo..HighNum(first) -> Row]
        BY <2>3, <3>7, <3>8 DEF Numbered
      <4>3. \A i \in lo..HighNum(first) : first.db[i].id = i + d /\ (first.db[i].trunc => i = lo)
        BY <2>3, <3>7, <3>8 DEF Numbered
      <4>4. Len(first.ram) = 0
        BY <3>7
      <4>5. QED
        BY <3>6, <3>7, <4>1, <4>2, <4>3, <4>4 DEF Numbered
    <3>10. initialHistoryFetchCount \in Nat \ {0}
      BY HistoryAssumption
    <3>11. ReadBack(first, x, lo, d, first.low - x.low) /\ x.ram # <<>>
      BY <3>7, <3>9, <3>10, GetHistoryFromDbLoads
    <3>12. QED
      BY <3>7, <3>8, <3>11 DEF ReadBack
  <2>. HIDE DEF x
  <2>4. ASSUME NEW b, NEW n, Holds(k, b, n) PROVE Holds(x, b, n)
    <3>1. PICK p, q : Numbered(k, p, q) /\ b = p + q /\ n = HighNum(k) + q
      BY <2>4 DEF Holds
    <3>2. Numbered(x, p, q) /\ HighNum(x) = HighNum(k) /\ Chat(x) /\ x.ram # <<>>
      BY <2>3, <3>1
    <3>3. QED
      BY <3>1, <3>2 DEF Holds
  <2>5. \E lo, d : Numbered(k, lo, d)
    BY <2>1 DEF Holds
  <2>6. Chat(x) /\ x.db = k.db /\ x.mOnlineState = "Offline"
    BY <2>3, <2>5
  <2>7. QED
    BY <1>6, <1>8, <2>2, <2>4, <2>6 DEF Cuts
<1>9. QED
  BY <1>7, <1>8

-----------------------------------------------------------------------------
(* Messages that arrive *)

\* What x has that y has as well.
SameButDb(y, x) ==
    /\ x.low = y.low /\ x.mHasMoreHistoryInDb = y.mHasMoreHistoryInDb
    /\ x.mOldestKnownMsgId = y.mOldestKnownMsgId /\ x.mOnlineState = y.mOnlineState

\* x is y with the message at the place p decrypted.
Cleared(y, x, p) ==
    /\ Chat(x) /\ SameButDb(y, x) /\ x.db = y.db
    /\ Len(x.ram) = Len(y.ram) /\ x.ram[p].id = y.ram[p].id /\ x.ram[p].pend = FALSE
    /\ \A i \in (1..Len(y.ram)) \ {p} : x.ram[i] = y.ram[i]

LEMMA ClearedInRam ==
    ASSUME NEW y, Chat(y), NEW p \in 1..Len(y.ram)
    PROVE  Cleared(y, [y EXCEPT !.ram[p].pend = FALSE], p)
<1> DEFINE x == [y EXCEPT !.ram[p].pend = FALSE]
           ram == [y.ram EXCEPT ![p].pend = FALSE]
<1>1. y.ram \in [1..Len(y.ram) -> Message] /\ Len(y.ram) \in Nat /\ y.ram[p] \in Message
  BY DEF Chat
<1>2. [y.ram[p] EXCEPT !.pend = FALSE] \in Message
  BY <1>1 DEF Message
<1>3. ram \in [1..Len(y.ram) -> Message]
  BY <1>1, <1>2
<1>4. ram \in Seq(Message) /\ Len(ram) = Len(y.ram)
  BY <1>1, <1>3
<1>5. \A i \in (1..Len(y.ram)) \ {p} : ram[i] = y.ram[i]
  BY <1>1
<1>6. ram[p] = [y.ram[p] EXCEPT !.pend = FALSE]
  BY <1>1
<1>7. ram[p].id = y.ram[p].id
  BY <1>1, <1>6 DEF Message
<1>8. ram[p].pend = FALSE
  BY <1>1, <1>6 DEF Message
<1>9. x.ram = ram
  BY DEF Chat, Fields
<1>10. /\ x = [f \in Fields |-> x[f]] /\ x.mNextHistFetchIdx = y.mNextHistFetchIdx
       /\ x.marshalled = y.marshalled /\ x.keys = y.keys /\ x.db = y.db
       /\ x.mDecryptNewHaltedAt = y.mDecryptNewHaltedAt
       /\ x.mDecryptOldHaltedAt = y.mDecryptOldHaltedAt
  BY DEF Chat, Fields
<1>11. SameButDb(y, x)
  BY DEF Chat, Fields, SameButDb
<1>. HIDE DEF ram, x
<1>12. Chat(x)
  BY <1>4, <1>9, <1>10, <1>11 DEF Chat, SameButDb
<1>13. x.ram[p].pend = FALSE
  BY <1>8, <1>9, Zenon
<1>14. Cleared(y, x, p)
  BY <1>4, <1>5, <1>7, <1>9, <1>10, <1>11, <1>12, <1>13 DEF Cleared
<1>15. QED
  BY <1>14 DEF x

\* x is y with other rows.
Stored(y, x, db) == Chat(x) /\ SameButDb(y, x) /\ x.db = db /\ x.ram = y.ram

LEMMA StoredInDb ==
    ASSUME NEW y, Chat(y), NEW db
    PROVE  Stored(y, [y EXCEPT !.db = db], db)
<1> DEFINE x == [y EXCEPT !.db = db]
<1>1. /\ x = [f \in Fields |-> x[f]] /\ x.mNextHistFetchIdx = y.mNextHistFetchIdx
      /\ x.marshalled = y.marshalled /\ x.keys = y.keys /\ x.db = db /\ x.ram = y.ram
      /\ x.mDecryptNewHaltedAt = y.mDecryptNewHaltedAt
      /\ x.mDecryptOldHaltedAt = y.mDecryptOldHaltedAt
  BY DEF Chat, Fields
<1>2. SameButDb(y, x)
  BY DEF Chat, Fields, SameButDb
<1>. HIDE DEF x
<1>3. Stored(y, x, db)
  BY <1>1, <1>2 DEF Chat, SameButDb, Stored
<1>4. QED
  BY <1>3 DEF x

\* A message whose key is known is decrypted where it is.
LEMMA AfterAdd ==
    ASSUME NEW y, NEW isNew \in BOOLEAN, NEW m \in Message, NEW idx, Chat(y)
    PROVE  MsgIncomingAfterAdd(y, isNew, m, idx) = MsgIncomingAfterDecrypt(y, isNew, m, idx)
<1>1. m.id \in y.keys /\ Halted(y, isNew) = NoHalt
  BY DEF Chat, Message, Halted
<1>2. QED
  BY <1>1 DEF MsgIncomingAfterAdd

\* x is db with the row i for message m.
Added(db, x, i, m) ==
    /\ x \in [DOMAIN db \cup {i} -> Row]
    /\ \A j \in DOMAIN db : x[j] = db[j]
    /\ x[i] = [id |-> m.id, trunc |-> m.trunc]

LEMMA RowAdded ==
    ASSUME NEW db, db \in [DOMAIN db -> Row], NEW m \in Message, NEW i,
           i \notin DOMAIN db, m.id \notin Ids(db)
    PROVE  Added(db, AddMsgToHistory(db, m, i), i, m)
<1> DEFINE row == [id |-> m.id, trunc |-> m.trunc]
           x == [j \in DOMAIN db \cup {i} |-> IF j = i THEN row ELSE db[j]]
<1>1. AddMsgToHistory(db, m, i) = x
  BY DEF AddMsgToHistory
<1>2. row \in Row
  BY DEF Row, Message
<1>3. x \in [DOMAIN db \cup {i} -> Row]
  BY <1>2
<1>4. (\A j \in DOMAIN db : x[j] = db[j]) /\ x[i] = row
  OBVIOUS
<1>5. Added(db, x, i, m)
  BY <1>3, <1>4 DEF Added
<1>6. QED
  BY <1>1, <1>5

\* y is k with m at the end of the window and of the rows.
Extends(k, y, m) ==
    /\ Chat(y) /\ y.low = k.low /\ Len(y.ram) = Len(k.ram) + 1
    /\ \A i \in 1..Len(k.ram) : y.ram[i] = k.ram[i]
    /\ y.ram[Len(k.ram) + 1].id = m.id /\ y.ram[Len(k.ram) + 1].pend = FALSE
    /\ y.db = AddMsgToHistory(k.db, m, HighNum(k) + 1)
    /\ y.mHasMoreHistoryInDb = k.mHasMoreHistoryInDb
    /\ k.mOldestKnownMsgId # NoId => y.mOldestKnownMsgId = k.mOldestKnownMsgId
    /\ y.mOnlineState = k.mOnlineState

LEMMA ExtendHolds ==
    ASSUME NEW k, NEW y, NEW b, NEW n, NEW m \in Message, Holds(k, b, n),
           m.id = n + 1, m.trunc = FALSE, Extends(k, y, m)
    PROVE  Holds(y, b, n + 1) /\ Cuts(y) = Cuts(k)
<1>1. PICK lo, d : Numbered(k, lo, d) /\ b = lo + d /\ n = HighNum(k) + d
  BY DEF Holds
<1> DEFINE H == HighNum(k)
<1>2. /\ lo \in Int /\ d \in Int /\ H \in Int /\ lo <= H /\ lo <= k.low /\ k.low \in Int
      /\ Len(k.ram) \in Nat /\ H = k.low + Len(k.ram) - 1
  BY <1>1, SMTT(30) DEF Numbered, Holds, Chat, HighNum
<1>3. HighNum(y) = H + 1 /\ H + 1 \in Int
  BY <1>2 DEF Extends, HighNum
<1>4. k.db \in [lo..H -> Row] /\ \A j \in lo..H : k.db[j].id = j + d /\ (k.db[j].trunc => j = lo)
  BY <1>1 DEF Numbered
<1>5. m.id = (H + 1) + d /\ m.id \in 1..MaxLog /\ m.trunc \in BOOLEAN
  BY <1>1, <1>2 DEF Message
<1>. HIDE DEF H
<1>6. m.id \notin Ids(k.db)
  <2>1. DOMAIN k.db = lo..H
    BY <1>4
  <2>2. \A j \in lo..H : j + d # m.id
    BY <1>2, <1>5
  <2>3. \A j \in lo..H : k.db[j].id # m.id
    BY <1>4, <2>2
  <2>4. QED
    BY <2>1, <2>3 DEF Ids
<1>7. /\ y.db \in [(lo..H) \cup {H + 1} -> Row]
      /\ \A j \in lo..H : y.db[j] = k.db[j]
      /\ y.db[H + 1] = [id |-> m.id, trunc |-> m.trunc]
  <2>1. y.db = AddMsgToHistory(k.db, m, H + 1)
    BY DEF Extends, H
  <2>2. DOMAIN k.db = lo..H
    BY <1>4
  <2>2a. H + 1 \notin DOMAIN k.db
    BY <1>2, <2>2
  <2>2b. k.db \in [DOMAIN k.db -> Row]
    BY <1>4, <2>2, Zenon
  <2>3. Added(k.db, y.db, H + 1, m)
    BY <1>6, <2>1, <2>2a, <2>2b, RowAdded, Zenon
  <2>4. QED
    BY <2>2, <2>3 DEF Added
<1>8. (lo..H) \cup {H + 1} = lo..(H + 1) /\ H + 1 \notin lo..H
  BY <1>2, SMTT(30)
<1>9. y.db[H + 1] \in Row /\ y.db[H + 1].id = (H + 1) + d
  BY <1>5, <1>7 DEF Row
<1>10. y.db[H + 1].trunc = FALSE
  BY <1>7
<1>11. y.db \in [lo..(H + 1) -> Row]
  BY <1>7, <1>8
<1>12. \A j \in lo..(H + 1) : y.db[j].id = j + d /\ (y.db[j].trunc => j = lo)
  BY <1>4, <1>7, <1>8, <1>9, <1>10
<1>13. \A i \in 1..Len(y.ram) : y.ram[i].id = y.low + i - 1 + d /\ y.ram[i].pend = FALSE
  <2> TAKE i \in 1..Len(y.ram)
  <2>1. i \in 1..Len(k.ram) \/ i = Len(k.ram) + 1
    BY <1>2 DEF Extends
  <2>2. CASE i \in 1..Len(k.ram)
    BY <1>1, <2>2 DEF Extends, Numbered
  <2>3. CASE i = Len(k.ram) + 1
    <3>1. y.ram[i].id = m.id /\ y.ram[i].pend = FALSE /\ y.low = k.low
      BY <2>3 DEF Extends
    <3>2. QED
      BY <1>2, <1>5, <2>3, <3>1, SMTT(30)
  <2>4. QED
    BY <2>1, <2>2, <2>3
<1>14. y.mHasMoreHistoryInDb <=> lo < y.low
  BY <1>1 DEF Extends, Numbered
<1>15. y.mHasMoreHistoryInDb => y.mOldestKnownMsgId = lo + d
  <2>1. lo + d # NoId
    <3>1. k.db[lo].id = lo + d /\ k.db[lo] \in Row
      BY <1>2, <1>4
    <3>2. QED
      BY <3>1 DEF Row, NoId
  <2>2. QED
    BY <1>1, <2>1 DEF Extends, Numbered
<1>16. Numbered(y, lo, d)
  <2>1. lo <= y.low /\ lo <= HighNum(y)
    BY <1>2, <1>3 DEF Extends
  <2>2. QED
    BY <1>2, <1>3, <1>11, <1>12, <1>13, <1>14, <1>15, <2>1 DEF Numbered
<1>17. n + 1 = HighNum(y) + d
  BY <1>1, <1>2, <1>3 DEF H
<1>18. y.ram # <<>>
  BY <1>2, SMTT(30) DEF Extends
<1>19. Cuts(y) = Cuts(k)
  <2>1. {j \in DOMAIN y.db : y.db[j].trunc} = {j \in DOMAIN k.db : k.db[j].trunc}
    BY <1>4, <1>7, <1>8, <1>10
  <2>2. \A j \in {i \in DOMAIN k.db : k.db[i].trunc} : y.db[j].id = k.db[j].id
    BY <1>4, <1>7
  <2>3. QED
    BY <2>1, <2>2 DEF Cuts
<1>20. QED
  BY <1>1, <1>16, <1>17, <1>18, <1>19 DEF Holds, Extends

\* m is the first message that the chat has.
LEMMA ExtendBare ==
    ASSUME NEW k, NEW y, NEW m \in Message, Bare(k), Extends(k, y, m)
    PROVE  /\ Holds(y, m.id, m.id) /\ Numbered(y, y.low, m.id - y.low)
           /\ HighNum(y) = y.low /\ HighNum(k) + 1 = y.low
           /\ Cuts(y) = IF m.trunc THEN {m.id} ELSE {}
           /\ y.db[y.low].trunc = m.trunc
<1> DEFINE i == y.low
           d == m.id - i
<1>1. Len(k.ram) = 0 /\ k.low \in Int /\ k.low = i /\ k.db = <<>>
  BY DEF Bare, Chat, Extends
<1>2. HighNum(k) + 1 = i
  BY <1>1 DEF HighNum
<1>3. Len(y.ram) = 1 /\ i \in Int
  BY <1>1 DEF Extends
<1>4. HighNum(y) = i
  BY <1>3 DEF HighNum
<1>5. m.id \in 1..MaxLog /\ m.id \in Int
  BY HistoryAssumption DEF Message
<1>6. d \in Int /\ i + d = m.id
  BY <1>3, <1>5
<1>. HIDE DEF i, d
<1>7. y.db \in [{i} -> Row] /\ y.db[i] = [id |-> m.id, trunc |-> m.trunc]
  <2>1. DOMAIN k.db = {} /\ i \notin DOMAIN k.db /\ k.db \in [DOMAIN k.db -> Row]
    BY <1>1
  <2>2. m.id \notin Ids(k.db)
    BY <2>1 DEF Ids
  <2>3. y.db = AddMsgToHistory(k.db, m, i)
    BY <1>2 DEF Extends
  <2>4. Added(k.db, y.db, i, m)
    BY <2>1, <2>2, <2>3, RowAdded
  <2>5. DOMAIN k.db \cup {i} = {i}
    BY <2>1
  <2>6. QED
    BY <2>4, <2>5 DEF Added
<1>8. i..i = {i}
  BY <1>3
<1>9. y.db[i].id = m.id /\ y.db[i].trunc = m.trunc
  BY <1>7
<1>10. y.mHasMoreHistoryInDb = FALSE
  BY DEF Extends, Bare
<1>11. Numbered(y, i, d)
  <2>1. i \in Int /\ d \in Int /\ i <= y.low /\ i <= HighNum(y) /\ ~(i < y.low)
    BY <1>3, <1>4, <1>6 DEF i
  <2>2. y.db \in [i..HighNum(y) -> Row]
    BY <1>4, <1>7, <1>8
  <2>3. \A j \in i..HighNum(y) : y.db[j].id = j + d /\ (y.db[j].trunc => j = i)
    BY <1>4, <1>6, <1>8, <1>9
  <2>4. \A j \in 1..Len(y.ram) : y.ram[j].id = y.low + j - 1 + d /\ y.ram[j].pend = FALSE
    <3> TAKE j \in 1..Len(y.ram)
    <3>1. j = 1 /\ y.ram[j].id = m.id /\ y.ram[j].pend = FALSE
      BY <1>1, <1>3 DEF Extends
    <3>2. QED
      BY <1>3, <1>6, <3>1 DEF i
  <2>5. QED
    BY <1>10, <2>1, <2>2, <2>3, <2>4 DEF Numbered
<1>12. y.ram # <<>>
  BY <1>3
<1>13. Holds(y, m.id, m.id)
  BY <1>4, <1>6, <1>11, <1>12 DEF Holds, Extends
<1>14. Cuts(y) = IF m.trunc THEN {m.id} ELSE {}
  <2>1. DOMAIN y.db = {i}
    BY <1>7
  <2>2. QED
    BY <1>9, <2>1 DEF Cuts
<1>15. QED
  BY <1>2, <1>4, <1>9, <1>11, <1>13, <1>14 DEF i, d

\* From the index idx on, the rows and the window are numbered alike.
NumberedFrom(y, lo, idx, d) ==
    /\ Chat(y) /\ lo \in Int /\ d \in Int /\ lo <= idx /\ idx \in y.low..HighNum(y)
    /\ y.db \in [lo..HighNum(y) -> Row]
    /\ \A j \in idx..HighNum(y) : y.db[j].id = j + d /\ (y.db[j].trunc => j = idx)
    /\ \A j \in lo..(idx - 1) : y.db[j].id # idx + d
    /\ \A j \in 1..Len(y.ram) : y.low + j - 1 >= idx => y.ram[j].id = y.low + j - 1 + d /\ y.ram[j].pend = FALSE

LEMMA HandleTruncateHolds ==
    ASSUME NEW y, NEW lo, NEW idx, NEW d, NumberedFrom(y, lo, idx, d),
           NEW x, x = HandleTruncate(y, idx + d, idx)
    PROVE  /\ Holds(x, idx + d, HighNum(y) + d) /\ x.mOnlineState = y.mOnlineState
           /\ Cuts(x) = IF y.db[idx].trunc THEN {idx + d} ELSE {}
<1> DEFINE H == HighNum(y)
           id == idx + d
           p == idx - y.low + 1
           ram == SubSeq(y.ram, p, Len(y.ram))
           cut == [[y EXCEPT !.low = idx, !.ram = ram] EXCEPT
                   !.db = TruncateRows(@, id), !.mHaveAllHistory = TRUE, !.mOldestKnownMsgId = id]
           z == [cut EXCEPT !.mHasMoreHistoryInDb = HasMoreHistoryInDb(cut)]
<1>1. /\ lo \in Int /\ d \in Int /\ y.low \in Int /\ Len(y.ram) \in Nat /\ H = y.low + Len(y.ram) - 1
      /\ idx \in Int /\ lo <= idx /\ y.low <= idx /\ idx <= H /\ H \in Int
  BY DEF NumberedFrom, Chat, HighNum
<1>2. p \in 1..Len(y.ram) /\ id \in Int
  BY <1>1, SMTT(30)
<1>3. /\ ram \in Seq(Message) /\ Len(ram) = Len(y.ram) - p + 1
      /\ \A j \in 1..(Len(y.ram) - p + 1) : ram[j] = y.ram[p + j - 1]
  <2>1. y.ram \in Seq(Message) /\ p \in 1..(Len(y.ram) + 1) /\ Len(y.ram) \in (p - 1)..Len(y.ram)
    BY <1>1, <1>2, SMTT(30) DEF NumberedFrom, Chat
  <2>. HIDE DEF p
  <2>2. QED
    BY <1>1, <1>2, <2>1, SubSeqProperties
<1>4. Len(ram) = H - idx + 1 /\ Len(ram) \in Nat \ {0}
  <2>. HIDE DEF ram, H
  <2>1. Len(y.ram) - p + 1 = H - idx + 1 /\ H - idx + 1 \in Nat \ {0}
    BY <1>1, SMTT(30)
  <2>2. QED
    BY <1>3, <2>1
<1>5. y.db \in [lo..H -> Row] /\ DOMAIN y.db = lo..H /\ idx \in DOMAIN y.db
  BY <1>1 DEF NumberedFrom
<1>6. y.db[idx].id = id /\ y.db[idx] \in Row
  BY <1>1, <1>5 DEF NumberedFrom
<1>7. \A j \in DOMAIN y.db : y.db[j].id = id <=> j = idx
  <2> TAKE j \in DOMAIN y.db
  <2>1. CASE j < idx
    <3>1. j \in lo..(idx - 1)
      BY <1>1, <1>5, <2>1
    <3>2. QED
      BY <2>1, <3>1, <1>1, <1>5 DEF NumberedFrom
  <2>2. CASE ~(j < idx)
    <3>1. j \in idx..H /\ j \in Int
      BY <1>1, <1>5, <2>2
    <3>2. y.db[j].id = j + d
      BY <3>1 DEF NumberedFrom
    <3>3. QED
      BY <1>1, <3>1, <3>2, SMTT(30)
  <2>3. QED
    BY <2>1, <2>2
<1>. HIDE DEF H, id, p, ram
<1>8. TruncateRows(y.db, id) = [j \in {i \in DOMAIN y.db : i >= idx} |-> y.db[j]]
  <2>1. id \in Ids(y.db)
    BY <1>5, <1>6 DEF Ids
  <2>2. (CHOOSE j \in DOMAIN y.db : y.db[j].id = id) = idx
    BY <1>5, <1>7
  <2>3. QED
    BY <2>1, <2>2 DEF TruncateRows
<1>9. {i \in DOMAIN y.db : i >= idx} = idx..H
  BY <1>1, <1>5
<1> DEFINE db == [j \in idx..H |-> y.db[j]]
<1>10. TruncateRows(y.db, id) = db
  BY <1>8, <1>9
<1>11. x = z
  BY DEF HandleTruncate, DeleteOlderMessagesBefore, H, id, p, ram
<1>12. /\ cut = [f \in Fields |-> cut[f]] /\ cut.low = idx /\ cut.ram = ram /\ cut.db = db
       /\ cut.mOldestKnownMsgId = id
  BY <1>10 DEF NumberedFrom, Chat, Fields
<1>13. /\ cut.keys = y.keys /\ cut.mNextHistFetchIdx = y.mNextHistFetchIdx
       /\ cut.marshalled = y.marshalled /\ cut.mOnlineState = y.mOnlineState
       /\ cut.mDecryptNewHaltedAt = NoHalt /\ cut.mDecryptOldHaltedAt = NoHalt
  BY DEF NumberedFrom, Chat, Fields
<1>. HIDE DEF cut, db
<1>14. HasMoreHistoryInDb(cut) = FALSE
  <2>1. cut.ram # <<>>
    BY <1>4, <1>12
  <2>2. Head(cut.ram) = ram[1]
    BY <1>3, <1>4, <1>12
  <2>3. ram[1] = y.ram[p]
    <3>1. 1 \in 1..(Len(y.ram) - p + 1) /\ p + 1 - 1 = p
      BY <1>1, <1>2
    <3>2. QED
      BY <1>3, <3>1
  <2>4. y.low + p - 1 = idx /\ p \in 1..Len(y.ram)
    BY <1>1, <1>2, SMTT(30) DEF p
  <2>5. y.ram[p].id = id
    BY <1>1, <2>4 DEF NumberedFrom, id
  <2>6. QED
    BY <1>12, <2>1, <2>2, <2>3, <2>5 DEF HasMoreHistoryInDb
<1>15. z = [f \in Fields |-> z[f]]
  BY <1>12 DEF Fields
<1>16. /\ z.low = idx /\ z.ram = ram /\ z.db = db /\ z.keys = y.keys
       /\ z.mNextHistFetchIdx = y.mNextHistFetchIdx
       /\ z.marshalled = y.marshalled /\ z.mOnlineState = y.mOnlineState
       /\ z.mDecryptNewHaltedAt = NoHalt /\ z.mDecryptOldHaltedAt = NoHalt
  BY <1>12, <1>13 DEF Fields
<1>17. z.mHasMoreHistoryInDb = FALSE
  BY <1>12, <1>14 DEF Fields
<1>. HIDE DEF z
<1>18. Chat(z)
  <2>1. z.low \in Int /\ z.ram \in Seq(Message)
    BY <1>1, <1>3, <1>16
  <2>2. z.mHasMoreHistoryInDb \in BOOLEAN
    BY <1>17, Zenon
  <2>3. QED
    BY <1>15, <1>16, <2>1, <2>2 DEF Chat, NumberedFrom
<1>19. HighNum(z) = H
  <2>1. HighNum(z) = idx + Len(ram) - 1
    BY <1>16 DEF HighNum
  <2>2. idx + (H - idx + 1) - 1 = H
    BY <1>1
  <2>3. QED
    BY <1>4, <2>1, <2>2
<1>20. \A j \in 1..Len(z.ram) : z.ram[j].id = z.low + j - 1 + d /\ z.ram[j].pend = FALSE
  <2> TAKE j \in 1..Len(z.ram)
  <2>1. j \in 1..(Len(y.ram) - p + 1) /\ z.ram[j] = y.ram[p + j - 1]
    BY <1>3, <1>16
  <2>1a. j \in Int /\ 1 <= j /\ j <= Len(y.ram) - p + 1 /\ p \in Int /\ 1 <= p
    BY <1>1, <1>2, <2>1
  <2>1b. p + j - 1 \in 1..Len(y.ram)
    BY <1>1, <2>1a
  <2>1c. y.low + (p + j - 1) - 1 = idx + j - 1 /\ idx + j - 1 >= idx
    BY <1>1, <2>1a, SMTT(30) DEF p
  <2>2. p + j - 1 \in 1..Len(y.ram) /\ y.low + (p + j - 1) - 1 = idx + j - 1 /\ idx + j - 1 >= idx
    BY <2>1b, <2>1c
  <2>3. y.ram[p + j - 1].id = y.low + (p + j - 1) - 1 + d /\ y.ram[p + j - 1].pend = FALSE
    BY <2>2 DEF NumberedFrom
  <2>4. QED
    BY <1>16, <2>1, <2>2, <2>3
<1>21. z.db \in [idx..H -> Row]
  <2>1. \A j \in idx..H : y.db[j] \in Row
    BY <1>1, <1>5
  <2>2. QED
    BY <1>16, <2>1 DEF db
<1>22. \A j \in idx..H : z.db[j] = y.db[j]
  BY <1>16 DEF db
<1>23. Numbered(z, idx, d)
  <2>1. idx \in Int /\ d \in Int /\ idx <= z.low /\ idx <= HighNum(z) /\ ~(idx < z.low)
    BY <1>1, <1>16, <1>19
  <2>2. \A j \in idx..H : z.db[j].id = j + d /\ (z.db[j].trunc => j = idx)
    BY <1>22 DEF NumberedFrom, H
  <2>3. QED
    BY <1>17, <1>19, <1>20, <1>21, <2>1, <2>2 DEF Numbered
<1>24. Holds(z, id, H + d)
  <2>1. z.ram # <<>>
    BY <1>4, <1>16
  <2>2. QED
    BY <1>18, <1>19, <1>23, <2>1 DEF Holds, id
<1>25. Cuts(z) = IF y.db[idx].trunc THEN {id} ELSE {}
  <2>1. DOMAIN z.db = idx..H /\ idx \in idx..H
    BY <1>1, <1>21
  <2>2. \A j \in DOMAIN z.db : z.db[j].trunc <=> (j = idx /\ y.db[idx].trunc)
    BY <1>22, <2>1 DEF NumberedFrom, H
  <2>3. z.db[idx].id = id
    BY <1>6, <1>22, <2>1
  <2>4. QED
    BY <2>1, <2>2, <2>3 DEF Cuts
<1>26. QED
  BY <1>11, <1>16, <1>24, <1>25 DEF id, H

\* y is k with m at the end of the window, and o as the oldest message known.
Pushed(k, y, m, o) ==
    /\ Chat(y) /\ y.low = k.low /\ Len(y.ram) = Len(k.ram) + 1 /\ y.db = k.db
    /\ \A i \in 1..Len(k.ram) : y.ram[i] = k.ram[i]
    /\ y.ram[Len(k.ram) + 1] = m
    /\ y.mHasMoreHistoryInDb = k.mHasMoreHistoryInDb /\ y.mOldestKnownMsgId = o
    /\ y.mOnlineState = k.mOnlineState

LEMMA PushedForward ==
    ASSUME NEW k, NEW m \in Message, NEW o, Chat(k)
    PROVE  Pushed(k, [PushForward(k, m) EXCEPT !.mOldestKnownMsgId = o], m, o)
<1> DEFINE y == [PushForward(k, m) EXCEPT !.mOldestKnownMsgId = o]
<1> DEFINE ram == Append(k.ram, m)
           x == [k EXCEPT !.ram = Append(@, m)]
<1>1. k.ram \in Seq(Message) /\ Len(k.ram) \in Nat
  BY DEF Chat
<1>2. /\ ram \in Seq(Message) /\ Len(ram) = Len(k.ram) + 1 /\ ram[Len(k.ram) + 1] = m
      /\ \A i \in 1..Len(k.ram) : ram[i] = k.ram[i]
  BY <1>1, AppendProperties
<1>. HIDE DEF ram
<1>3. x = [f \in Fields |-> x[f]] /\ x.ram = ram
  BY DEF Chat, Fields, ram
<1>4. /\ x.low = k.low /\ x.db = k.db /\ x.mNextHistFetchIdx = k.mNextHistFetchIdx
      /\ x.marshalled = k.marshalled /\ x.keys = k.keys /\ x.mOnlineState = k.mOnlineState
      /\ x.mDecryptNewHaltedAt = k.mDecryptNewHaltedAt
      /\ x.mDecryptOldHaltedAt = k.mDecryptOldHaltedAt
      /\ x.mHasMoreHistoryInDb = k.mHasMoreHistoryInDb
  BY DEF Chat, Fields
<1>5. y = [x EXCEPT !.mOldestKnownMsgId = o]
  BY DEF PushForward
<1>. HIDE DEF x
<1>6. y = [f \in Fields |-> y[f]] /\ y.ram = ram /\ y.mOldestKnownMsgId = o
  BY <1>3, <1>5 DEF Fields
<1>7. /\ y.low = k.low /\ y.db = k.db /\ y.mNextHistFetchIdx = k.mNextHistFetchIdx
      /\ y.marshalled = k.marshalled /\ y.keys = k.keys /\ y.mOnlineState = k.mOnlineState
      /\ y.mDecryptNewHaltedAt = k.mDecryptNewHaltedAt
      /\ y.mDecryptOldHaltedAt = k.mDecryptOldHaltedAt
      /\ y.mHasMoreHistoryInDb = k.mHasMoreHistoryInDb
  BY <1>3, <1>4, <1>5 DEF Fields
<1>. HIDE DEF y
<1>8. Chat(y)
  BY <1>2, <1>6, <1>7 DEF Chat
<1>9. Pushed(k, y, m, o)
  BY <1>2, <1>6, <1>7, <1>8 DEF Pushed
<1>10. QED
  BY <1>9 DEF y

\* msgIncomingAfterDecrypt of a new message, up to the truncation.
LEMMA NewIsSaved ==
    ASSUME NEW k, NEW m \in Message, Chat(k), NEW known, NEW o, Pushed(k, known, m, o),
           k.mOldestKnownMsgId # NoId => o = k.mOldestKnownMsgId
    PROVE  \E g : /\ Extends(k, g, m)
                  /\ MsgIncomingAfterDecrypt(InitNext(known), TRUE, m, HighNum(known)) =
                        IF m.trunc THEN HandleTruncate(g, m.id, HighNum(k) + 1) ELSE g
<1> DEFINE y == InitNext(known)
           idx == HighNum(known)
           p == Len(k.ram) + 1
           clear == [y EXCEPT !.ram[p].pend = FALSE]
           db == AddMsgToHistory(k.db, m, idx)
           saved == [clear EXCEPT !.db = db]
           g == GiveNew(saved, m.id)
<1>0. /\ Chat(known) /\ known.low = k.low /\ Len(known.ram) = Len(k.ram) + 1 /\ known.db = k.db
      /\ \A i \in 1..Len(k.ram) : known.ram[i] = k.ram[i]
      /\ known.ram[Len(k.ram) + 1] = m
      /\ known.mHasMoreHistoryInDb = k.mHasMoreHistoryInDb
      /\ known.mOldestKnownMsgId = o /\ known.mOnlineState = k.mOnlineState
  BY DEF Pushed
<1>0a. k.low \in Int /\ Len(k.ram) \in Nat
  BY DEF Chat
<1>1. k.low \in Int /\ Len(k.ram) \in Nat /\ idx = HighNum(k) + 1 /\ p \in 1..Len(known.ram)
  BY <1>0, <1>0a DEF HighNum
<1>2. Aside(known, y)
  BY <1>0, InitNextAside
<1>. HIDE DEF y
<1>3. y.low = k.low /\ y.ram = known.ram /\ y.db = k.db /\ Chat(y)
  BY <1>0, <1>2 DEF Aside, SameWindow
<1>4. InRam(y, idx) /\ idx - y.low + 1 = p
  <2>1. idx \in k.low..(k.low + Len(known.ram) - 1)
    BY <1>0, <1>1 DEF HighNum
  <2>2. HighNum(y) = k.low + Len(known.ram) - 1
    BY <1>3 DEF HighNum
  <2>3. idx - k.low + 1 = p
    BY <1>0, <1>1 DEF HighNum
  <2>4. QED
    BY <1>3, <2>1, <2>2, <2>3 DEF InRam
<1>5. /\ Chat(clear) /\ SameButDb(y, clear) /\ clear.db = y.db
      /\ Len(clear.ram) = Len(y.ram) /\ clear.ram[p].id = y.ram[p].id /\ clear.ram[p].pend = FALSE
      /\ \A i \in (1..Len(y.ram)) \ {p} : clear.ram[i] = y.ram[i]
  <2>1. Cleared(y, clear, p)
    BY <1>0, <1>1, <1>3, ClearedInRam
  <2>2. QED
    BY <2>1 DEF Cleared
<1>5a. clear = [y EXCEPT !.ram[idx - y.low + 1].pend = FALSE]
  BY <1>4, Zenon
<1>. HIDE DEF clear
<1>6. Chat(saved) /\ SameButDb(clear, saved) /\ saved.db = db /\ saved.ram = clear.ram
  BY <1>5, StoredInDb DEF Stored
<1>7. saved = [clear EXCEPT !.db = AddMsgToHistory(@, m, idx)]
  BY <1>3, <1>5 DEF Chat, Fields
<1>. HIDE DEF saved, db, idx, p
<1>8. Aside(saved, g)
  BY <1>6, GiveNewAside
<1>9. Extends(k, g, m)
  <2>1. Chat(g) /\ g.low = k.low /\ g.ram = clear.ram /\ g.mOnlineState = k.mOnlineState
    BY <1>0, <1>2, <1>3, <1>5, <1>6, <1>8 DEF Aside, SameWindow, SameButDb
  <2>2. g.db = AddMsgToHistory(k.db, m, HighNum(k) + 1)
    BY <1>1, <1>6, <1>8 DEF Aside, SameWindow, db
  <2>3. g.mHasMoreHistoryInDb = k.mHasMoreHistoryInDb /\ g.mOldestKnownMsgId = known.mOldestKnownMsgId
    BY <1>0, <1>2, <1>5, <1>6, <1>8 DEF Aside, SameWindow, SameButDb
  <2>4. /\ Len(g.ram) = Len(k.ram) + 1 /\ g.ram[Len(k.ram) + 1].id = m.id
        /\ g.ram[Len(k.ram) + 1].pend = FALSE
    BY <1>0, <1>3, <1>5, <2>1 DEF p
  <2>5. \A i \in 1..Len(k.ram) : g.ram[i] = k.ram[i]
    <3> TAKE i \in 1..Len(k.ram)
    <3>1. i \in (1..Len(y.ram)) \ {p}
      BY <1>0, <1>1, <1>3 DEF p
    <3>2. QED
      BY <1>0, <1>3, <1>5, <2>1, <3>1
  <2>6. QED
    BY <1>0, <2>1, <2>2, <2>3, <2>4, <2>5 DEF Extends
<1>10. MsgIncomingAfterDecrypt(y, TRUE, m, idx) =
          IF m.trunc THEN HandleTruncate(g, m.id, idx) ELSE g
  BY <1>4, <1>5a, <1>7 DEF MsgIncomingAfterDecrypt
<1>11. MsgIncomingAfterDecrypt(InitNext(known), TRUE, m, HighNum(known)) =
          IF m.trunc THEN HandleTruncate(g, m.id, HighNum(k) + 1) ELSE g
  BY <1>1, <1>10 DEF y, idx
<1>. HIDE DEF g
<1>12. QED
  BY <1>9, <1>11

LEMMA NewmsgExtends ==
    ASSUME NEW k, NEW m \in Message, Chat(k), m.id \notin Ids(k.ram)
    PROVE  \E g : /\ Extends(k, g, m)
                  /\ OnNewmsg(k, m) = IF m.trunc THEN HandleTruncate(g, m.id, HighNum(k) + 1) ELSE g
<1> DEFINE added == PushForward(k, m)
           o == IF k.mOldestKnownMsgId = NoId THEN m.id ELSE k.mOldestKnownMsgId
           known == [added EXCEPT !.mOldestKnownMsgId = o]
<1>1. known = [added EXCEPT !.mOldestKnownMsgId = IF @ = NoId THEN m.id ELSE @]
  BY DEF Chat, Fields, PushForward
<1>2. Pushed(k, known, m, o)
  BY PushedForward
<1>3. OnNewmsg(k, m) = MsgIncomingAfterAdd(InitNext(known), TRUE, m, HighNum(known))
  BY <1>1 DEF OnNewmsg
<1>. HIDE DEF known
<1>4. Chat(InitNext(known))
  BY <1>2, InitNextAside DEF Aside, Pushed
<1>5. OnNewmsg(k, m) = MsgIncomingAfterDecrypt(InitNext(known), TRUE, m, HighNum(known))
  BY <1>3, <1>4, AfterAdd
<1>6. k.mOldestKnownMsgId # NoId => o = k.mOldestKnownMsgId
  OBVIOUS
<1>. HIDE DEF o
<1>7. \E g : /\ Extends(k, g, m)
             /\ MsgIncomingAfterDecrypt(InitNext(known), TRUE, m, HighNum(known)) =
                   IF m.trunc THEN HandleTruncate(g, m.id, HighNum(k) + 1) ELSE g
  BY <1>2, <1>6, NewIsSaved
<1>8. QED
  BY <1>5, <1>7

LEMMA NewmsgidExtends ==
    ASSUME NEW k, NEW m \in Message, Chat(k)
    PROVE  Extends(k, OnNewmsgid(k, m), [m EXCEPT !.pend = FALSE])
<1> DEFINE own == [m EXCEPT !.pend = FALSE]
           added == PushForward(k, own)
           same == [added EXCEPT !.mOldestKnownMsgId = k.mOldestKnownMsgId]
           db == AddMsgToHistory(k.db, own, HighNum(k) + 1)
           saved == [added EXCEPT !.db = db]
           x == InitNext(GiveNew(saved, m.id))
<1>1. own \in Message /\ own.id = m.id /\ own.trunc = m.trunc
  BY DEF Message
<1>2. own.pend = FALSE
  BY DEF Message
<1>. HIDE DEF own
<1>3. added = same
  BY DEF Chat, Fields, PushForward
<1>4a. Pushed(k, same, own, k.mOldestKnownMsgId)
  BY <1>1, PushedForward
<1>. HIDE DEF same, added
<1>4. /\ Chat(same) /\ same.low = k.low /\ Len(same.ram) = Len(k.ram) + 1 /\ same.db = k.db
      /\ \A i \in 1..Len(k.ram) : same.ram[i] = k.ram[i]
      /\ same.ram[Len(k.ram) + 1] = own
      /\ same.mHasMoreHistoryInDb = k.mHasMoreHistoryInDb
      /\ same.mOldestKnownMsgId = k.mOldestKnownMsgId /\ same.mOnlineState = k.mOnlineState
  BY <1>4a DEF Pushed
<1>5. HighNum(added) = HighNum(k) + 1
  <2>1. k.low \in Int /\ Len(k.ram) \in Nat
    BY DEF Chat
  <2>2. QED
    BY <1>3, <1>4, <2>1 DEF HighNum
<1>6. saved = [added EXCEPT !.db = AddMsgToHistory(@, own, HighNum(added))]
  BY <1>3, <1>4, <1>5 DEF Chat, Fields
<1>7. Chat(saved) /\ SameButDb(added, saved) /\ saved.db = db /\ saved.ram = added.ram
  BY <1>3, <1>4, StoredInDb DEF Stored
<1>8. OnNewmsgid(k, m) = x
  BY <1>6 DEF OnNewmsgid, own, added
<1>. HIDE DEF saved, db
<1>9. Aside(saved, GiveNew(saved, m.id))
  BY <1>7, GiveNewAside
<1>10. Aside(saved, x)
  BY <1>9, InitNextAside, AsideTwice DEF Aside
<1>. HIDE DEF x
<1>11. Extends(k, x, own)
  BY <1>1, <1>2, <1>3, <1>4, <1>5, <1>7, <1>10 DEF Aside, SameWindow, SameButDb, Extends, db
<1>12. QED
  BY <1>8, <1>11 DEF own

\* x is k with the row i for m, the oldest message known; if in RAM, then below the window.
OldStored(k, x, m, i) ==
    /\ Chat(x) /\ x.db = AddMsgToHistory(k.db, m, i)
    /\ x.mHasMoreHistoryInDb = k.mHasMoreHistoryInDb /\ x.mOldestKnownMsgId = m.id
    /\ x.mOnlineState = k.mOnlineState

OldInRam(k, x, m) ==
    /\ x.low = k.low - 1 /\ Len(x.ram) = Len(k.ram) + 1
    /\ x.ram[1].id = m.id /\ x.ram[1].pend = FALSE
    /\ \A i \in 1..Len(k.ram) : x.ram[i + 1] = k.ram[i]

\* what OnOldmsg begins with
Counted(k, m) == [k EXCEPT !.mLastServerHistFetchCount = @ + 1, !.mOldestKnownMsgId = m.id]

LEMMA CountedChat ==
    ASSUME NEW k, NEW m, Chat(k)
    PROVE  /\ Chat(Counted(k, m)) /\ Counted(k, m).low = k.low /\ Counted(k, m).ram = k.ram
           /\ Counted(k, m).db = k.db /\ Counted(k, m).mOldestKnownMsgId = m.id
           /\ Counted(k, m).mHasMoreHistoryInDb = k.mHasMoreHistoryInDb
           /\ Counted(k, m).mOnlineState = k.mOnlineState
<1> DEFINE x == Counted(k, m)
<1>1. /\ x = [f \in Fields |-> x[f]] /\ x.mOldestKnownMsgId = m.id
      /\ x.low = k.low /\ x.ram = k.ram /\ x.db = k.db
      /\ x.mHasMoreHistoryInDb = k.mHasMoreHistoryInDb
      /\ x.mOnlineState = k.mOnlineState
  BY DEF Chat, Fields, Counted
<1>2. /\ x.mNextHistFetchIdx = k.mNextHistFetchIdx
      /\ x.marshalled = k.marshalled /\ x.keys = k.keys
      /\ x.mDecryptNewHaltedAt = k.mDecryptNewHaltedAt
      /\ x.mDecryptOldHaltedAt = k.mDecryptOldHaltedAt
  BY DEF Chat, Fields, Counted
<1>. HIDE DEF x
<1>3. Chat(x)
  BY <1>1, <1>2 DEF Chat
<1>4. QED
  BY <1>1, <1>3 DEF x

\* msgIncomingAfterDecrypt of an old message, with the message as it is in RAM.
OldSaved(y, x, clear, m, i) == OldStored(y, x, m, i) /\ x.low = y.low /\ x.ram = clear.ram

LEMMA OldIsSaved ==
    ASSUME NEW y, NEW m \in Message, NEW i, y.mOldestKnownMsgId = m.id, NEW clear,
           clear = IF InRam(y, i) THEN [y EXCEPT !.ram[i - y.low + 1].pend = FALSE] ELSE y,
           Chat(clear), SameButDb(y, clear), clear.db = y.db
    PROVE  OldSaved(y, MsgIncomingAfterDecrypt(y, FALSE, m, i), clear, m, i)
<1> DEFINE db == AddMsgToHistory(y.db, m, i)
           saved == [clear EXCEPT !.db = db]
           x == MsgIncomingAfterDecrypt(y, FALSE, m, i)
<1>1. Chat(saved) /\ SameButDb(clear, saved) /\ saved.db = db /\ saved.ram = clear.ram
  <2>1. Stored(clear, saved, db)
    BY StoredInDb, Zenon
  <2>2. QED
    BY <2>1 DEF Stored
<1>2. saved = [clear EXCEPT !.db = AddMsgToHistory(@, m, i)]
  BY DEF Chat, Fields
<1>. HIDE DEF saved
<1>3. x = IF saved.mServerOldHistCbEnabled THEN GiveOld(saved, m.id) ELSE saved
  <2>1. x = LET save == [clear EXCEPT !.db = AddMsgToHistory(@, m, i)]
            IN  IF save.mServerOldHistCbEnabled THEN GiveOld(save, m.id) ELSE save
    BY DEF MsgIncomingAfterDecrypt
  <2>2. QED
    BY <1>2, <2>1
<1>4. Aside(saved, x)
  BY <1>1, <1>3, GiveOldAside, AsideAlone
<1>. HIDE DEF x, db
<1>5. x.db = AddMsgToHistory(y.db, m, i)
  BY <1>1, <1>4 DEF Aside, SameWindow, db
<1>6. OldSaved(y, x, clear, m, i)
  BY <1>1, <1>4, <1>5 DEF OldSaved, OldStored, Aside, SameWindow, SameButDb
<1>7. QED
  BY <1>6 DEF x

LEMMA OldmsgStored ==
    ASSUME NEW k, NEW m \in Message, Chat(k), NEW x, x = OnOldmsg(k, m),
           NEW i, i = IF k.mHasMoreHistoryInDb
                      THEN (IF k.db = <<>> THEN 0 ELSE Min(DOMAIN k.db)) - 1 ELSE k.low - 1
    PROVE  /\ k.mHasMoreHistoryInDb /\ ~InRam(k, i) =>
                 OldStored(k, x, m, i) /\ x.low = k.low /\ x.ram = k.ram
           /\ ~k.mHasMoreHistoryInDb => OldStored(k, x, m, i) /\ OldInRam(k, x, m)
<1> DEFINE c == Counted(k, m)
<1>1. /\ Chat(c) /\ c.low = k.low /\ c.ram = k.ram /\ c.db = k.db /\ c.mOldestKnownMsgId = m.id
      /\ c.mHasMoreHistoryInDb = k.mHasMoreHistoryInDb /\ c.mOnlineState = k.mOnlineState
  BY CountedChat
<1>2. CASE k.mHasMoreHistoryInDb /\ ~InRam(k, i)
  <2>1. x = MsgIncomingAfterAdd(c, FALSE, m, i)
    BY <1>2 DEF OnOldmsg, Counted
  <2>. HIDE DEF c
  <2>2. x = MsgIncomingAfterDecrypt(c, FALSE, m, i)
    BY <1>1, <2>1, AfterAdd
  <2>3. ~InRam(c, i)
    BY <1>1, <1>2 DEF InRam, HighNum
  <2>4. SameButDb(c, c)
    BY DEF SameButDb
  <2>5. OldStored(c, x, m, i) /\ x.low = c.low /\ x.ram = c.ram
    <3>1. PICK clear : clear = IF InRam(c, i) THEN [c EXCEPT !.ram[i - c.low + 1].pend = FALSE] ELSE c
      OBVIOUS
    <3>2. clear = c
      BY <2>3, <3>1
    <3>2a. Chat(clear) /\ SameButDb(c, clear) /\ clear.db = c.db /\ c.mOldestKnownMsgId = m.id
      BY <1>1, <2>4, <3>2
    <3>2b. OldSaved(c, x, clear, m, i)
      BY <2>2, <3>1, <3>2a, OldIsSaved
    <3>3. QED
      BY <3>2, <3>2b DEF OldSaved
  <2>6. OldStored(k, x, m, i)
    BY <1>1, <2>5 DEF OldStored
  <2>7. QED
    BY <1>1, <1>2, <2>5, <2>6
<1>3. CASE ~k.mHasMoreHistoryInDb
  <2> DEFINE ram == <<m>> \o c.ram
             y == PushBack(c, m)
  <2>1. x = MsgIncomingAfterAdd(y, FALSE, m, i)
    BY <1>3 DEF OnOldmsg, Counted
  <2>. HIDE DEF c
  <2>2. c.ram \in Seq(Message) /\ Len(c.ram) \in Nat /\ c.low \in Int
    BY <1>1 DEF Chat
  <2>3. /\ ram \in Seq(Message) /\ Len(ram) = Len(c.ram) + 1 /\ ram[1] = m
        /\ \A j \in 1..Len(c.ram) : ram[j + 1] = c.ram[j]
    BY <2>2, InFront
  <2>4. y.ram = ram /\ y.low = c.low - 1 /\ y = [f \in Fields |-> y[f]]
    BY <1>1 DEF Chat, Fields, PushBack
  <2>5. /\ y.keys = c.keys /\ y.mNextHistFetchIdx = c.mNextHistFetchIdx /\ y.db = c.db
        /\ y.marshalled = c.marshalled /\ y.mOnlineState = c.mOnlineState
        /\ y.mDecryptNewHaltedAt = NoHalt /\ y.mDecryptOldHaltedAt = NoHalt
        /\ y.mHasMoreHistoryInDb = c.mHasMoreHistoryInDb
        /\ y.mOldestKnownMsgId = c.mOldestKnownMsgId
    BY <1>1 DEF Chat, Fields, PushBack
  <2>. HIDE DEF ram, y
  <2>6. Chat(y)
    <3>1. y.low \in Int /\ y.ram \in Seq(Message)
      BY <2>2, <2>3, <2>4
    <3>2. QED
      BY <1>1, <2>4, <2>5, <3>1 DEF Chat
  <2>7. x = MsgIncomingAfterDecrypt(y, FALSE, m, i)
    BY <2>1, <2>6, AfterAdd
  <2>8. i = y.low /\ InRam(y, i) /\ i - y.low + 1 = 1 /\ 1 \in 1..Len(y.ram)
    <3>1. i = y.low /\ Len(y.ram) = Len(c.ram) + 1
      BY <1>1, <1>3, <2>3, <2>4
    <3>2. HighNum(y) = y.low + Len(y.ram) - 1
      BY DEF HighNum
    <3>3. y.low \in Int
      BY <2>2, <2>4
    <3>4. QED
      BY <2>2, <3>1, <3>2, <3>3, SMTT(30) DEF InRam
  <2> DEFINE clear == [y EXCEPT !.ram[1].pend = FALSE]
  <2>9. Cleared(y, clear, 1)
    BY <2>6, <2>8, ClearedInRam
  <2>10. clear = IF InRam(y, i) THEN [y EXCEPT !.ram[i - y.low + 1].pend = FALSE] ELSE y
    BY <2>8, Zenon
  <2>. HIDE DEF clear
  <2>11. OldStored(y, x, m, i) /\ x.low = y.low /\ x.ram = clear.ram
    <3>1. y.mOldestKnownMsgId = m.id
      BY <1>1, <2>5
    <3>2. Chat(clear) /\ SameButDb(y, clear) /\ clear.db = y.db
      BY <2>9 DEF Cleared
    <3>3. OldSaved(y, x, clear, m, i)
      BY <2>7, <2>10, <3>1, <3>2, OldIsSaved
    <3>4. QED
      BY <3>3 DEF OldSaved
  <2>12. OldStored(k, x, m, i)
    BY <1>1, <2>5, <2>11 DEF OldStored
  <2>13. x.low = k.low - 1 /\ Len(x.ram) = Len(k.ram) + 1
    BY <1>1, <2>3, <2>4, <2>9, <2>11 DEF Cleared
  <2>14. x.ram[1].id = m.id /\ x.ram[1].pend = FALSE
    BY <2>3, <2>4, <2>9, <2>11 DEF Cleared
  <2>15. \A j \in 1..Len(k.ram) : x.ram[j + 1] = k.ram[j]
    <3> TAKE j \in 1..Len(k.ram)
    <3>1. j + 1 \in (1..Len(y.ram)) \ {1} /\ j \in 1..Len(c.ram)
      BY <1>1, <2>2, <2>3, <2>4, SMTT(30)
    <3>2. QED
      BY <1>1, <2>3, <2>4, <2>9, <2>11, <3>1 DEF Cleared
  <2>16. OldInRam(k, x, m)
    BY <2>13, <2>14, <2>15 DEF OldInRam
  <2>17. QED
    BY <1>3, <2>12, <2>16
<1>4. CASE k.mHasMoreHistoryInDb /\ InRam(k, i)
  BY <1>4
<1>5. QED
  BY <1>2, <1>3, <1>4 DEF Chat

\* m is the message before b, which is no truncation; x is the chat with m as its first message.
Precedes(k, m, b) == Cuts(k) = {} /\ m.id = b - 1
Led(k, x, m, n) ==
    /\ Holds(x, m.id, n) /\ Cuts(x) = (IF m.trunc THEN {m.id} ELSE {})
    /\ x.mOnlineState = k.mOnlineState

\* The message before those that the chat has.
LEMMA OldmsgHolds ==
    ASSUME NEW k, NEW b, NEW n, NEW m \in Message, Holds(k, b, n), Precedes(k, m, b),
           NEW x, x = OnOldmsg(k, m)
    PROVE  Led(k, x, m, n)
<1>0. Cuts(k) = {} /\ m.id = b - 1
  BY DEF Precedes
<1>1. PICK lo, d : Numbered(k, lo, d) /\ b = lo + d /\ n = HighNum(k) + d
  BY DEF Holds
<1> DEFINE H == HighNum(k)
           i == lo - 1
<1>2. /\ lo \in Int /\ d \in Int /\ H \in Int /\ lo <= H /\ lo <= k.low /\ k.low \in Int
      /\ Len(k.ram) \in Nat /\ H = k.low + Len(k.ram) - 1
  BY <1>1 DEF Numbered, Holds, Chat, HighNum
<1>3. k.db \in [lo..H -> Row] /\ \A j \in lo..H : k.db[j].id = j + d /\ (k.db[j].trunc => j = lo)
  BY <1>1 DEF Numbered
<1>4. DOMAIN k.db = lo..H /\ k.db # <<>> /\ Min(DOMAIN k.db) = lo
  <2>1. DOMAIN k.db = lo..H
    BY <1>3
  <2>2. k.db # <<>>
    BY OldestRow
  <2>3. QED
    BY <1>2, <2>1, <2>2, IntervalEnds
<1>5. k.mHasMoreHistoryInDb <=> lo < k.low
  BY <1>1 DEF Numbered
<1>6. Chat(k) /\ k.ram # <<>>
  BY DEF Holds
<1>7. i = IF k.mHasMoreHistoryInDb
          THEN (IF k.db = <<>> THEN 0 ELSE Min(DOMAIN k.db)) - 1 ELSE k.low - 1
  BY <1>2, <1>4, <1>5, SMTT(30)
<1>8. ~InRam(k, i)
  BY <1>2 DEF InRam, HighNum
<1>9. OldStored(k, x, m, i)
  BY <1>6, <1>7, <1>8, OldmsgStored
<1>10. k.mHasMoreHistoryInDb => x.low = k.low /\ x.ram = k.ram
  BY <1>6, <1>7, <1>8, OldmsgStored
<1>11. ~k.mHasMoreHistoryInDb => OldInRam(k, x, m)
  BY <1>6, <1>7, <1>8, OldmsgStored
<1>12. m.id = i + d /\ m.trunc \in BOOLEAN
  BY <1>0, <1>1, <1>2 DEF Message
<1>. HIDE DEF H
<1>13. /\ x.db \in [(lo..H) \cup {i} -> Row]
       /\ \A j \in lo..H : x.db[j] = k.db[j]
       /\ x.db[i] = [id |-> m.id, trunc |-> m.trunc]
  <2>. HIDE DEF i
  <2>1. m.id \notin Ids(k.db) /\ i \notin DOMAIN k.db
    BY <1>2, <1>3, <1>4, <1>12 DEF Ids, i
  <2>2. k.db \in [DOMAIN k.db -> Row]
    BY <1>3, <1>4, Zenon
  <2>3. x.db = AddMsgToHistory(k.db, m, i)
    BY <1>9 DEF OldStored
  <2>4. Added(k.db, x.db, i, m)
    BY <2>1, <2>2, <2>3, RowAdded
  <2>5. QED
    BY <1>4, <2>4 DEF Added
<1>14. (lo..H) \cup {i} = i..H /\ i \notin lo..H
  BY <1>2
<1>15. x.db \in [i..H -> Row]
  BY <1>13, <1>14
<1>16. x.db[i].id = m.id /\ x.db[i].trunc = m.trunc
  BY <1>13
<1>17. \A j \in lo..H : ~k.db[j].trunc
  BY <1>0, <1>4 DEF Cuts
<1>18. \A j \in i..H : x.db[j].id = j + d /\ (x.db[j].trunc => j = i)
  BY <1>3, <1>12, <1>13, <1>14, <1>16, <1>17
<1>. HIDE DEF i
<1>19. /\ HighNum(x) = H /\ i <= x.low /\ x.ram # <<>>
       /\ x.mHasMoreHistoryInDb <=> i < x.low
       /\ \A j \in 1..Len(x.ram) : x.ram[j].id = x.low + j - 1 + d /\ x.ram[j].pend = FALSE
  <2>1. x.mHasMoreHistoryInDb = k.mHasMoreHistoryInDb
    BY <1>9 DEF OldStored
  <2>2. \A j \in 1..Len(k.ram) : k.ram[j].id = k.low + j - 1 + d /\ k.ram[j].pend = FALSE
    BY <1>1 DEF Numbered
  <2>3. CASE k.mHasMoreHistoryInDb
    <3>1. x.low = k.low /\ x.ram = k.ram
      BY <1>10, <2>3
    <3>2. HighNum(x) = H
      BY <3>1 DEF HighNum, H
    <3>3. i <= x.low /\ i < x.low
      BY <1>2, <3>1 DEF i
    <3>4. QED
      BY <1>6, <2>1, <2>2, <2>3, <3>1, <3>2, <3>3
  <2>4. CASE ~k.mHasMoreHistoryInDb
    <3>1. /\ x.low = k.low - 1 /\ Len(x.ram) = Len(k.ram) + 1
          /\ x.ram[1].id = m.id /\ x.ram[1].pend = FALSE
          /\ \A j \in 1..Len(k.ram) : x.ram[j + 1] = k.ram[j]
      BY <1>11, <2>4 DEF OldInRam
    <3>2. x.low = i /\ lo = k.low
      BY <1>2, <1>5, <2>4, <3>1 DEF i
    <3>3. HighNum(x) = H
      BY <1>2, <3>1 DEF HighNum
    <3>4. \A j \in 1..Len(x.ram) : x.ram[j].id = x.low + j - 1 + d /\ x.ram[j].pend = FALSE
      <4> TAKE j \in 1..Len(x.ram)
      <4>1. CASE j = 1
        <5>1. m.id = x.low + 1 - 1 + d
          BY <1>2, <1>12, <3>2 DEF i
        <5>2. QED
          BY <3>1, <4>1, <5>1
      <4>2. CASE j # 1
        <5>1. j - 1 \in 1..Len(k.ram) /\ (j - 1) + 1 = j
          BY <1>2, <3>1, <4>2
        <5>2. x.ram[j] = k.ram[j - 1]
          BY <3>1, <5>1
        <5>3. k.ram[j - 1].id = k.low + (j - 1) - 1 + d /\ k.ram[j - 1].pend = FALSE
          BY <2>2, <5>1
        <5>4. k.low + (j - 1) - 1 + d = x.low + j - 1 + d
          <6>1. j \in Int /\ x.low = k.low - 1 /\ x.low \in Int /\ k.low \in Int /\ d \in Int
            BY <1>2, <3>1, <5>1
          <6>2. QED
            BY <6>1, SMTT(30)
        <5>5. QED
          BY <5>2, <5>3, <5>4
      <4>3. QED
        BY <4>1, <4>2
    <3>5. ~(i < x.low) /\ i <= x.low /\ x.ram # <<>>
      BY <1>2, <3>1, <3>2, SMTT(30)
    <3>6. QED
      BY <2>1, <2>4, <3>3, <3>4, <3>5
  <2>5. QED
    BY <2>3, <2>4
<1>20. i \in Int /\ i <= H /\ i + d = b - 1
  BY <1>1, <1>2 DEF i
<1>21. Numbered(x, i, d)
  <2>1. x.mOldestKnownMsgId = i + d
    BY <1>9, <1>12 DEF OldStored
  <2>2. QED
    BY <1>2, <1>15, <1>18, <1>19, <1>20, <2>1 DEF Numbered
<1>22. Holds(x, b - 1, n)
  BY <1>1, <1>9, <1>19, <1>20, <1>21 DEF Holds, OldStored, H
<1>23. Cuts(x) = IF m.trunc THEN {m.id} ELSE {}
  <2>1. DOMAIN x.db = i..H /\ i \in i..H
    BY <1>15, <1>20, <1>2
  <2>2. \A j \in i..H : x.db[j].trunc <=> (j = i /\ m.trunc)
    BY <1>13, <1>14, <1>16, <1>17
  <2>3. QED
    BY <1>16, <2>1, <2>2 DEF Cuts
<1>24. QED
  BY <1>0, <1>9, <1>22, <1>23 DEF OldStored, Led

\* The first message that the chat has, from the past.
LEMMA OldmsgBare ==
    ASSUME NEW k, NEW m \in Message, Bare(k), NEW x, x = OnOldmsg(k, m)
    PROVE  /\ Holds(x, m.id, m.id) /\ Cuts(x) = (IF m.trunc THEN {m.id} ELSE {})
           /\ x.mOnlineState = k.mOnlineState
<1> DEFINE i == k.low - 1
           d == m.id - i
<1>1. Chat(k) /\ Len(k.ram) = 0 /\ k.low \in Int /\ k.db = <<>> /\ ~k.mHasMoreHistoryInDb
  BY DEF Bare, Chat
<1>2. OldStored(k, x, m, i) /\ OldInRam(k, x, m)
  BY <1>1, OldmsgStored
<1>3. m.id \in 1..MaxLog /\ m.id \in Int
  BY HistoryAssumption DEF Message
<1>4. i \in Int /\ d \in Int /\ i + d = m.id
  BY <1>1, <1>3
<1>5. x.low = i /\ Len(x.ram) = 1
  BY <1>1, <1>2 DEF OldInRam
<1>. HIDE DEF i, d
<1>6. HighNum(x) = i
  BY <1>4, <1>5 DEF HighNum
<1>7. x.db \in [{i} -> Row] /\ x.db[i] = [id |-> m.id, trunc |-> m.trunc]
  <2>1. DOMAIN k.db = {} /\ i \notin DOMAIN k.db /\ k.db \in [DOMAIN k.db -> Row]
    BY <1>1
  <2>2. m.id \notin Ids(k.db)
    BY <2>1 DEF Ids
  <2>3. x.db = AddMsgToHistory(k.db, m, i)
    BY <1>2 DEF OldStored
  <2>4. Added(k.db, x.db, i, m)
    BY <2>1, <2>2, <2>3, RowAdded
  <2>5. DOMAIN k.db \cup {i} = {i}
    BY <2>1
  <2>6. QED
    BY <2>4, <2>5 DEF Added
<1>8. i..i = {i} /\ x.db[i].id = m.id /\ x.db[i].trunc = m.trunc
  BY <1>4, <1>7
<1>9. Numbered(x, i, d)
  <2>1. i <= x.low /\ i <= HighNum(x) /\ ~(i < x.low)
    BY <1>4, <1>5, <1>6
  <2>2. x.db \in [i..HighNum(x) -> Row]
    BY <1>6, <1>7, <1>8
  <2>3. \A j \in i..HighNum(x) : x.db[j].id = j + d /\ (x.db[j].trunc => j = i)
    BY <1>4, <1>6, <1>8
  <2>4. \A j \in 1..Len(x.ram) : x.ram[j].id = x.low + j - 1 + d /\ x.ram[j].pend = FALSE
    <3> TAKE j \in 1..Len(x.ram)
    <3>1. j = 1 /\ x.ram[j].id = m.id /\ x.ram[j].pend = FALSE
      BY <1>2, <1>5 DEF OldInRam
    <3>2. QED
      BY <1>4, <1>5, <3>1
  <2>5. ~x.mHasMoreHistoryInDb
    BY <1>1, <1>2 DEF OldStored
  <2>6. QED
    BY <1>4, <2>1, <2>2, <2>3, <2>4, <2>5 DEF Numbered
<1>10. Holds(x, m.id, m.id)
  <2>1. x.ram # <<>>
    <3>1. Len(<<>>) # 1
      OBVIOUS
    <3>2. QED
      BY <1>5, <3>1
  <2>2. QED
    BY <1>2, <1>4, <1>6, <1>9, <2>1 DEF Holds, OldStored
<1>11. Cuts(x) = IF m.trunc THEN {m.id} ELSE {}
  <2>1. DOMAIN x.db = {i}
    BY <1>7
  <2>2. QED
    BY <1>8, <2>1 DEF Cuts
<1>12. QED
  BY <1>2, <1>10, <1>11 DEF OldStored

\* The messages in RAM are among those that the chat has.
LEMMA RamIds ==
    ASSUME NEW k, NEW b, NEW n, Holds(k, b, n)
    PROVE  Ids(k.ram) \subseteq b..n
<1>1. PICK lo, d : Numbered(k, lo, d) /\ b = lo + d /\ n = HighNum(k) + d
  BY DEF Holds
<1>2. /\ lo \in Int /\ d \in Int /\ lo <= k.low /\ k.low \in Int
      /\ Len(k.ram) \in Nat /\ HighNum(k) = k.low + Len(k.ram) - 1 /\ DOMAIN k.ram = 1..Len(k.ram)
  BY <1>1 DEF Numbered, Holds, Chat, HighNum
<1>3. \A i \in 1..Len(k.ram) : k.ram[i].id = k.low + i - 1 + d
  BY <1>1 DEF Numbered
<1>4. \A i \in 1..Len(k.ram) : k.low + i - 1 + d \in b..n
  BY <1>1, <1>2, SMTT(30)
<1>5. QED
  BY <1>2, <1>3, <1>4 DEF Ids

\* m is the message after n, and x the chat with it.
Follows(m, n) == m.id = n + 1 /\ m.trunc = FALSE
Grown(k, x, b, n) == Holds(x, b, n) /\ Cuts(x) = Cuts(k) /\ x.mOnlineState = k.mOnlineState

\* The next message.
LEMMA NewmsgHolds ==
    ASSUME NEW k, NEW b, NEW n, NEW m \in Message, Holds(k, b, n), Follows(m, n),
           NEW x, x = OnNewmsg(k, m)
    PROVE  Grown(k, x, b, m.id)
<1>0. m.id = n + 1 /\ m.trunc = FALSE
  BY DEF Follows
<1>1. Chat(k) /\ n \in 1..MaxLog
  BY OldestRow DEF Holds
<1>2. m.id \notin Ids(k.ram)
  BY <1>0, <1>1, RamIds
<1>3. Extends(k, x, m)
  BY <1>0, <1>1, <1>2, NewmsgExtends
<1>4. Holds(x, b, n + 1) /\ Cuts(x) = Cuts(k) /\ x.mOnlineState = k.mOnlineState
  BY <1>0, <1>3, ExtendHolds DEF Extends
<1>5. QED
  BY <1>0, <1>4 DEF Grown

\* A truncation past the messages that the chat has.
JumpsPast(m, n) == m.id > n /\ m.trunc = TRUE

\* x is left with the truncation at m and nothing else.
CutAt(x, k, m) == Holds(x, m.id, m.id) /\ Cuts(x) = {m.id} /\ x.mOnlineState = k.mOnlineState

LEMMA NewmsgJumps ==
    ASSUME NEW k, NEW b, NEW n, NEW m \in Message, Holds(k, b, n), JumpsPast(m, n),
           NEW x, x = OnNewmsg(k, m)
    PROVE  CutAt(x, k, m)
<1>0. m.id > n /\ m.trunc = TRUE
  BY DEF JumpsPast
<1>1. Chat(k) /\ n \in Int /\ m.id \in Int
  <2>1. n \in 1..MaxLog
    BY OldestRow
  <2>2. m.id \in 1..MaxLog
    BY DEF Message
  <2>3. QED
    BY <2>1, <2>2 DEF Holds
<1>2. m.id \notin Ids(k.ram)
  BY <1>0, <1>1, RamIds
<1>3. PICK g : Extends(k, g, m) /\ x = HandleTruncate(g, m.id, HighNum(k) + 1)
  BY <1>0, <1>1, <1>2, NewmsgExtends
<1>4. PICK lo, d : Numbered(k, lo, d) /\ b = lo + d /\ n = HighNum(k) + d
  BY DEF Holds
<1> DEFINE H == HighNum(k)
           i == H + 1
           e == m.id - i
<1>5. /\ lo \in Int /\ d \in Int /\ H \in Int /\ lo <= H /\ lo <= k.low /\ k.low \in Int
      /\ Len(k.ram) \in Nat /\ H = k.low + Len(k.ram) - 1
  BY <1>4, SMTT(30) DEF Numbered, Holds, Chat, HighNum
<1>6. i \in Int /\ e \in Int /\ i + e = m.id
  <2>. HIDE DEF H
  <2>1. i \in Int
    BY <1>5
  <2>2. QED
    BY <1>1, <2>1
<1>7. k.db \in [lo..H -> Row] /\ \A j \in lo..H : k.db[j].id = j + d
  BY <1>4 DEF Numbered
<1>8. \A j \in lo..H : k.db[j].id # m.id
  BY <1>0, <1>1, <1>4, <1>5, <1>7
<1>9. HighNum(g) = i /\ g.low <= i /\ g.low = k.low
  BY <1>3, <1>5 DEF Extends, HighNum
<1>. HIDE DEF H
<1>10. /\ g.db \in [(lo..H) \cup {i} -> Row]
       /\ \A j \in lo..H : g.db[j] = k.db[j]
       /\ g.db[i] = [id |-> m.id, trunc |-> m.trunc]
  <2>1. DOMAIN k.db = lo..H
    BY <1>7
  <2>2. m.id \notin Ids(k.db) /\ i \notin DOMAIN k.db
    BY <1>5, <1>8, <2>1, SMTT(30) DEF Ids
  <2>3. k.db \in [DOMAIN k.db -> Row]
    BY <1>7, <2>1, Zenon
  <2>4. g.db = AddMsgToHistory(k.db, m, i)
    BY <1>3 DEF Extends, H
  <2>. HIDE DEF i
  <2>5. Added(k.db, g.db, i, m)
    BY <2>2, <2>3, <2>4, RowAdded
  <2>6. QED
    BY <2>1, <2>5 DEF Added
<1>11. (lo..H) \cup {i} = lo..i /\ lo..(i - 1) = lo..H /\ i..i = {i}
  BY <1>5
<1>12. g.db[i].id = m.id /\ g.db[i].trunc = TRUE
  BY <1>0, <1>10
<1>. HIDE DEF i, e
<1>13. NumberedFrom(g, lo, i, e)
  <2>1. Chat(g) /\ lo \in Int /\ e \in Int /\ lo <= i /\ i \in g.low..HighNum(g)
    <3>1. lo <= i
      BY <1>5 DEF i
    <3>2. i \in g.low..HighNum(g)
      BY <1>5, <1>6, <1>9
    <3>3. QED
      BY <1>3, <1>5, <1>6, <3>1, <3>2 DEF Extends
  <2>2. g.db \in [lo..HighNum(g) -> Row]
    BY <1>9, <1>10, <1>11
  <2>3. \A j \in i..HighNum(g) : g.db[j].id = j + e /\ (g.db[j].trunc => j = i)
    BY <1>6, <1>9, <1>11, <1>12
  <2>4. \A j \in lo..(i - 1) : g.db[j].id # i + e
    BY <1>6, <1>8, <1>10, <1>11
  <2>5. \A j \in 1..Len(g.ram) : g.low + j - 1 >= i =>
            g.ram[j].id = g.low + j - 1 + e /\ g.ram[j].pend = FALSE
    <3> TAKE j \in 1..Len(g.ram)
    <3> HAVE g.low + j - 1 >= i
    <3>1. Len(g.ram) = Len(k.ram) + 1 /\ i = k.low + Len(k.ram)
      BY <1>3, <1>5 DEF Extends, i
    <3>2. j = Len(k.ram) + 1
      <4>1. j \in Int /\ j <= Len(k.ram) + 1
        BY <1>5, <3>1
      <4>2. QED
        BY <1>5, <1>9, <3>1, <4>1, SMTT(30)
    <3>3. g.ram[j].id = m.id /\ g.ram[j].pend = FALSE
      BY <1>3, <3>2 DEF Extends
    <3>4. g.low + j - 1 + e = m.id
      <4>1. g.low + j - 1 = i
        BY <1>5, <1>9, <3>1, <3>2
      <4>2. QED
        BY <1>6, <4>1
    <3>5. QED
      BY <3>3, <3>4
  <2>6. QED
    BY <2>1, <2>2, <2>3, <2>4, <2>5 DEF NumberedFrom
<1>14. x = HandleTruncate(g, i + e, i)
  BY <1>3, <1>6 DEF i, H
<1>15. /\ Holds(x, i + e, HighNum(g) + e) /\ x.mOnlineState = g.mOnlineState
       /\ Cuts(x) = IF g.db[i].trunc THEN {i + e} ELSE {}
  BY <1>13, <1>14, HandleTruncateHolds
<1>16. QED
  BY <1>3, <1>6, <1>9, <1>12, <1>15 DEF Extends, CutAt

\* A chat without gaps is numbered from each of its messages in RAM on.
LEMMA NumberedIsFrom ==
    ASSUME NEW k, NEW lo, NEW d, NEW i \in k.low..HighNum(k), Chat(k), Numbered(k, lo, d)
    PROVE  /\ i \in Int /\ lo \in Int /\ d \in Int /\ HighNum(k) \in Int /\ lo <= i /\ i <= HighNum(k)
           /\ \A j \in lo..HighNum(k) : k.db[j].id = j + d
           /\ \A j \in lo..(i - 1) : k.db[j].id # i + d
<1>1. /\ lo \in Int /\ d \in Int /\ lo <= k.low /\ k.low \in Int /\ HighNum(k) \in Int
  BY DEF Numbered, Chat, HighNum
<1>2. i \in Int /\ lo <= i /\ i <= HighNum(k)
  BY <1>1
<1>3. \A j \in lo..HighNum(k) : k.db[j].id = j + d
  BY DEF Numbered
<1>4. ASSUME NEW j \in lo..(i - 1) PROVE k.db[j].id # i + d
  <2>1. j \in lo..HighNum(k) /\ j \in Int /\ j < i
    BY <1>1, <1>2
  <2>2. k.db[j].id = j + d
    BY <1>3, <2>1
  <2>3. QED
    BY <1>1, <1>2, <2>1, <2>2
<1>5. QED
  BY <1>1, <1>2, <1>3, <1>4

\* The first message.
LEMMA NewmsgBare ==
    ASSUME NEW k, NEW m \in Message, Bare(k), NEW x, x = OnNewmsg(k, m)
    PROVE  /\ Holds(x, m.id, m.id) /\ Cuts(x) = (IF m.trunc THEN {m.id} ELSE {})
           /\ x.mOnlineState = k.mOnlineState
<1>1. Chat(k) /\ Ids(k.ram) = {}
  BY DEF Bare, Ids
<1>2. PICK g : /\ Extends(k, g, m)
               /\ x = IF m.trunc THEN HandleTruncate(g, m.id, HighNum(k) + 1) ELSE g
  BY <1>1, NewmsgExtends
<1>3. /\ Holds(g, m.id, m.id) /\ Numbered(g, g.low, m.id - g.low)
      /\ HighNum(g) = g.low /\ HighNum(k) + 1 = g.low
      /\ Cuts(g) = (IF m.trunc THEN {m.id} ELSE {}) /\ g.db[g.low].trunc = m.trunc
  BY <1>2, ExtendBare
<1>4. CASE ~m.trunc
  BY <1>2, <1>3, <1>4 DEF Extends
<1>5. CASE m.trunc
  <2> DEFINE i == g.low
             e == m.id - i
  <2>1. i \in Int /\ m.id \in Int /\ e \in Int /\ i + e = m.id /\ Chat(g)
    BY <1>2, HistoryAssumption, SMTT(30) DEF Extends, Chat, Message
  <2>2. i \in g.low..HighNum(g) /\ HighNum(g) + e = m.id /\ HighNum(g) = i
    BY <1>3, <2>1
  <2>. HIDE DEF i, e
  <2>3. Numbered(g, i, e)
    BY <1>3 DEF i, e
  <2>4. NumberedFrom(g, i, i, e)
    BY <2>1, <2>2, <2>3, NumberedIsFrom DEF NumberedFrom, Numbered
  <2>5. x = HandleTruncate(g, i + e, i)
    BY <1>2, <1>3, <1>5, <2>1 DEF i
  <2>6. /\ Holds(x, i + e, HighNum(g) + e) /\ x.mOnlineState = g.mOnlineState
        /\ Cuts(x) = IF g.db[i].trunc THEN {i + e} ELSE {}
    BY <2>4, <2>5, HandleTruncateHolds
  <2>7. g.db[i].trunc
    BY <1>3, <1>5 DEF i
  <2>8. QED
    BY <1>2, <1>5, <2>1, <2>2, <2>6, <2>7 DEF Extends
<1>6. QED
  BY <1>4, <1>5

\* A message of this client, not a truncation.
LEMMA NewmsgidHolds ==
    ASSUME NEW k, NEW m \in Message, m.trunc = FALSE, Chat(k), NEW x, x = OnNewmsgid(k, m)
    PROVE  /\ \A b, n : Holds(k, b, n) /\ m.id = n + 1 => Holds(x, b, n + 1) /\ Cuts(x) = Cuts(k)
           /\ Bare(k) => Holds(x, m.id, m.id) /\ Cuts(x) = {}
           /\ x.mOnlineState = k.mOnlineState
<1> DEFINE own == [m EXCEPT !.pend = FALSE]
<1>1. own \in Message /\ own.id = m.id
  BY DEF Message
<1>2. own.trunc = FALSE
  BY DEF Message
<1>3. Extends(k, x, own)
  BY NewmsgidExtends
<1>. HIDE DEF own
<1>4. ASSUME NEW b, NEW n, Holds(k, b, n), m.id = n + 1
      PROVE  Holds(x, b, n + 1) /\ Cuts(x) = Cuts(k)
  BY <1>1, <1>2, <1>3, <1>4, ExtendHolds
<1>5. ASSUME Bare(k) PROVE Holds(x, m.id, m.id) /\ Cuts(x) = {}
  <2>1. Holds(x, own.id, own.id) /\ Cuts(x) = IF own.trunc THEN {own.id} ELSE {}
    BY <1>1, <1>3, <1>5, ExtendBare
  <2>2. QED
    BY <1>1, <1>2, <2>1
<1>6. QED
  BY <1>3, <1>4, <1>5 DEF Extends

\* x is the chat without what is older than the truncation m.
Cut(k, x, m, b, n) ==
    Holds(x, m.id, n) /\ Cuts(x) = {m.id} /\ x.mOnlineState = k.mOnlineState /\ m.id \in b..n

\* A truncation of what is in RAM; one of anything else has no effect.
LEMMA TruncateHolds ==
    ASSUME NEW k, NEW b, NEW n, NEW m \in Message, Holds(k, b, n), NEW x, x = OnTruncate(k, m)
    PROVE  x = k \/ Cut(k, x, m, b, n)
<1>0. CASE m.id \notin Ids(k.ram)
  BY <1>0 DEF OnTruncate
<1>1. CASE m.id \in Ids(k.ram)
  <2>1. PICK lo, d : Numbered(k, lo, d) /\ b = lo + d /\ n = HighNum(k) + d
    BY DEF Holds
  <2> DEFINE H == HighNum(k)
             i == IdxOf(k, m.id)
             p == i - k.low + 1
             new == [id |-> m.id, pend |-> FALSE, trunc |-> TRUE]
             ram == [k.ram EXCEPT ![p] = new]
             db == [j \in DOMAIN k.db |-> IF k.db[j].id = m.id THEN [k.db[j] EXCEPT !.trunc = TRUE]
                                          ELSE k.db[j]]
             y == [k EXCEPT !.ram = ram, !.db = db]
  <2>2. /\ lo \in Int /\ d \in Int /\ H \in Int /\ lo <= H /\ lo <= k.low /\ k.low \in Int
        /\ Len(k.ram) \in Nat /\ H = k.low + Len(k.ram) - 1 /\ DOMAIN k.ram = 1..Len(k.ram)
        /\ Chat(k) /\ k.ram \in [1..Len(k.ram) -> Message]
    <3>1. Chat(k) /\ Len(k.ram) \in Nat /\ k.low \in Int /\ k.ram \in Seq(Message)
      BY DEF Holds, Chat
    <3>2. H = k.low + Len(k.ram) - 1 /\ H \in Int
      BY <3>1 DEF HighNum
    <3>3. lo \in Int /\ d \in Int /\ lo <= H /\ lo <= k.low
      BY <2>1 DEF Numbered
    <3>4. k.ram \in [1..Len(k.ram) -> Message] /\ DOMAIN k.ram = 1..Len(k.ram)
      BY <3>1
    <3>. HIDE DEF H
    <3>5. QED
      BY <3>1, <3>2, <3>3, <3>4
  <2>3. \A q \in 1..Len(k.ram) : k.ram[q].id = k.low + q - 1 + d /\ k.ram[q].pend = FALSE
    BY <2>1 DEF Numbered
  <2>4. k.db \in [lo..H -> Row] /\ \A j \in lo..H : k.db[j].id = j + d /\ (k.db[j].trunc => j = lo)
    BY <2>1 DEF Numbered
  <2>5. \A j \in k.low..H : At(k, j).id = j + d
    <3> TAKE j \in k.low..H
    <3>1. j - k.low + 1 \in 1..Len(k.ram) /\ k.low + (j - k.low + 1) - 1 + d = j + d
      BY <2>2, SMTT(30)
    <3>2. k.ram[j - k.low + 1].id = k.low + (j - k.low + 1) - 1 + d
      BY <2>3, <3>1
    <3>3. QED
      BY <3>1, <3>2 DEF At
  <2>6. PICK q \in 1..Len(k.ram) : k.ram[q].id = m.id
    BY <1>1, <2>2 DEF Ids
  <2>7. k.low + q - 1 \in k.low..H /\ At(k, k.low + q - 1).id = m.id
    <3>1. k.low + q - 1 \in k.low..H /\ (k.low + q - 1) - k.low + 1 = q
      BY <2>2, SMTT(30)
    <3>2. QED
      BY <2>6, <3>1 DEF At
  <2>8. i \in k.low..H /\ At(k, i).id = m.id
    <3>1. i = CHOOSE j \in k.low..H : At(k, j).id = m.id
      BY DEF IdxOf
    <3>. HIDE DEF i, H
    <3>2. QED
      BY <2>7, <3>1
  <2>9. /\ i \in Int /\ k.low <= i /\ i <= H /\ lo <= i /\ m.id = i + d
        /\ p \in 1..Len(k.ram) /\ p \in Int /\ k.low + p - 1 = i
    <3>. HIDE DEF i, H
    <3>1. i \in Int /\ k.low <= i /\ i <= H /\ lo <= i /\ m.id = i + d
      BY <2>2, <2>5, <2>8
    <3>2. QED
      BY <2>2, <3>1, SMTT(30)
  <2>10. m.id \in b..n
    <3>. HIDE DEF i
    <3>1. b = lo + d /\ n = H + d /\ m.id = i + d
      BY <2>1, <2>9
    <3>. HIDE DEF H
    <3>2. /\ lo \in Int /\ d \in Int /\ H \in Int
          /\ i \in Int /\ lo <= i /\ i <= H
      BY <2>2, <2>9
    <3>. HIDE DEF p
    <3>3. b \in Int /\ n \in Int /\ m.id \in Int /\ b <= m.id /\ m.id <= n
      BY ONLY <3>1, <3>2
    <3>4. QED
      BY <3>3
  <2>11. OnTruncate(k, m) = IF At(k, i).trunc /\ ~At(k, i).pend THEN k ELSE HandleTruncate(y, m.id, i)
    <3>1. y = [k EXCEPT !.ram[p] = new,
                        !.db = [j \in DOMAIN @ |-> IF @[j].id = m.id
                                                   THEN [@[j] EXCEPT !.trunc = TRUE] ELSE @[j]]]
      BY <2>2 DEF Chat, Fields
    <3>. HIDE DEF y
    <3>2. QED
      BY <1>1, <3>1 DEF OnTruncate
  <2>. HIDE DEF i, p, H, new
  <2>12. NumberedFrom(y, lo, i, d) /\ y.mOnlineState = k.mOnlineState /\ y.db[i].trunc = TRUE
         /\ HighNum(y) = H
    <3>1. new \in Message /\ new.id = m.id
      BY DEF new, Message
    <3>1a. new.pend = FALSE
      BY DEF new
    <3>2. ram \in [1..Len(k.ram) -> Message] /\ ram[p] = new
          /\ \A j \in (1..Len(k.ram)) \ {p} : ram[j] = k.ram[j]
      BY <2>2, <2>9, <3>1
    <3>3. ram \in Seq(Message) /\ Len(ram) = Len(k.ram)
      BY <2>2, <3>2, SMTT(30)
    <3>4. db \in [lo..H -> Row]
      BY <2>4 DEF Row
    <3>5. \A j \in lo..H : db[j].id = j + d
      BY <2>4 DEF Row
    <3>6. \A j \in lo..H : j # i => db[j] = k.db[j]
      <4> TAKE j \in lo..H
      <4>1. j # i => k.db[j].id # m.id
        BY <2>2, <2>4, <2>9
      <4>2. j \in DOMAIN k.db
        BY <2>4
      <4>3. QED
        BY <4>1, <4>2
    <3>7. db[i].trunc = TRUE
      <4>1. i \in lo..H /\ k.db[i].id = m.id /\ k.db[i] \in Row /\ i \in DOMAIN k.db
        BY <2>2, <2>4, <2>9, SMTT(30)
      <4>2. db[i] = [k.db[i] EXCEPT !.trunc = TRUE]
        BY <4>1
      <4>3. QED
        BY <4>1, <4>2 DEF Row
    <3>. HIDE DEF ram, db
    <3>8. /\ y = [f \in Fields |-> y[f]] /\ y.ram = ram /\ y.db = db
          /\ y.low = k.low /\ y.mHasMoreHistoryInDb = k.mHasMoreHistoryInDb
          /\ y.mOnlineState = k.mOnlineState
      BY <2>2 DEF Chat, Fields
    <3>9. /\ y.mNextHistFetchIdx = k.mNextHistFetchIdx
          /\ y.marshalled = k.marshalled /\ y.keys = k.keys
          /\ y.mDecryptNewHaltedAt = k.mDecryptNewHaltedAt
          /\ y.mDecryptOldHaltedAt = k.mDecryptOldHaltedAt
      BY <2>2 DEF Chat, Fields
    <3>. HIDE DEF y
    <3>10. Chat(y)
      BY <2>2, <3>3, <3>8, <3>9 DEF Chat
    <3>11. HighNum(y) = H
      BY <3>3, <3>8, <2>2 DEF HighNum
    <3>12. \A j \in i..H : y.db[j].id = j + d /\ (y.db[j].trunc => j = i)
      <4> TAKE j \in i..H
      <4>1. j \in lo..H /\ j \in Int /\ i <= j
        BY <2>2, <2>9
      <4>2. j # i => ~y.db[j].trunc
        <5>1. SUFFICES ASSUME j # i PROVE ~y.db[j].trunc
          OBVIOUS
        <5>2. y.db[j] = k.db[j]
          BY <3>6, <3>8, <4>1, <5>1
        <5>3. j # lo
          BY <2>2, <2>9, <4>1, <5>1
        <5>4. ~k.db[j].trunc
          BY <2>4, <4>1, <5>3
        <5>5. QED
          BY <5>2, <5>4, Zenon
      <4>3. QED
        BY <3>5, <3>8, <4>1, <4>2
    <3>13. \A j \in lo..(i - 1) : y.db[j].id # i + d
      <4> TAKE j \in lo..(i - 1)
      <4>1. j \in lo..H /\ j \in Int /\ j < i
        BY <2>2, <2>9, SMTT(30)
      <4>2. y.db[j].id = j + d
        BY <3>5, <3>8, <4>1
      <4>3. QED
        BY <2>2, <2>9, <4>1, <4>2
    <3>14. \A j \in 1..Len(y.ram) : y.ram[j].id = y.low + j - 1 + d /\ y.ram[j].pend = FALSE
      <4> TAKE j \in 1..Len(y.ram)
      <4>1. j \in 1..Len(k.ram) /\ y.low = k.low
        BY <3>3, <3>8
      <4>2. CASE j = p
        <5>1. y.ram[j] = new
          BY <3>2, <3>8, <4>2
        <5>2. k.low + p - 1 + d = m.id
          BY <2>9
        <5>3. y.ram[j].pend = FALSE
          BY <3>1a, <5>1
        <5>4. QED
          BY <3>1, <4>1, <4>2, <5>1, <5>2, <5>3
      <4>3. CASE j # p
        BY <2>3, <3>2, <3>8, <4>1, <4>3
      <4>4. QED
        BY <4>2, <4>3
    <3>15. i \in y.low..HighNum(y)
      BY <2>2, <2>9, <3>8, <3>11
    <3>16. y.db \in [lo..HighNum(y) -> Row]
      BY <3>4, <3>8, <3>11
    <3>17. y.db[i].trunc = TRUE
      BY <3>7, <3>8, Zenon
    <3>18. NumberedFrom(y, lo, i, d)
      BY <2>2, <2>9, <3>10, <3>11, <3>12, <3>13, <3>14, <3>15, <3>16 DEF NumberedFrom
    <3>19. QED
      BY <3>8, <3>11, <3>17, <3>18
  <2>. HIDE DEF y
  <2>13. CASE At(k, i).trunc /\ ~At(k, i).pend
    BY <2>11, <2>13
  <2>14. CASE ~(At(k, i).trunc /\ ~At(k, i).pend)
    <3>1. x = HandleTruncate(y, i + d, i)
      BY <2>9, <2>11, <2>14
    <3>2. /\ Holds(x, i + d, HighNum(y) + d) /\ x.mOnlineState = y.mOnlineState
          /\ Cuts(x) = IF y.db[i].trunc THEN {i + d} ELSE {}
      BY <2>12, <3>1, HandleTruncateHolds
    <3>3. HighNum(y) + d = n
      BY <2>1, <2>12 DEF H
    <3>4. QED
      BY <2>9, <2>10, <2>12, <3>2, <3>3 DEF Cut
  <2>15. QED
    BY <2>13, <2>14
<1>2. QED
  BY <1>0, <1>1

-----------------------------------------------------------------------------
(* The commands on their way *)

Ops == {"NEWMSG", "OLDMSG", "NEWMSGID", "TRUNCATE", "HISTDONE", "REJECT"}

\* Only messages have an id; a message that this client sent is no truncation.
Command == {c \in [op : Ops, id : 0..MaxLog, trunc : BOOLEAN] :
               /\ c.op \in {"HISTDONE", "REJECT"} => ~c.trunc
               /\ c.op \notin {"HISTDONE", "REJECT"} => c.id # 0
               /\ c.op = "TRUNCATE" => c.trunc
               /\ c.op = "NEWMSGID" => ~c.trunc}

Olds    == {c \in Command : c.op = "OLDMSG"}
News    == {c \in Command : c.op \in {"NEWMSG", "NEWMSGID"}}
Flags   == {c \in Command : c.trunc}
Jumps   == {c \in Command : c.op = "NEWMSG" /\ c.trunc}
Rejects == {c \in Command : c.op = "REJECT"}

\* the ids of the commands of one kind
IdsIn(s, kind) == {s[i].id : i \in {j \in DOMAIN s : s[j] \in kind}}

\* c may be on its way before e: old messages come from the newest to the oldest, new ones the
\* other way round, no message comes that is older than a truncation before it, and a
\* rejection is the first answer.
InOrder(c, e) ==
    /\ c \in Olds /\ e \in Olds => c.id > e.id
    /\ c \in News /\ e \in News => c.id < e.id
    /\ c \in Flags /\ e \in Olds => e.id >= c.id
    /\ e \notin Rejects

Lined(s) == \A i, j \in DOMAIN s : i < j => InOrder(s[i], s[j])

\* t may follow s.
LinesUp(s, t) ==
    /\ \A x \in IdsIn(s, Olds), y \in IdsIn(t, Olds) : x > y
    /\ \A x \in IdsIn(s, News), y \in IdsIn(t, News) : x < y
    /\ \A x \in IdsIn(s, Flags), y \in IdsIn(t, Olds) : y >= x
    /\ IdsIn(t, Rejects) = {}

LEMMA Concatenated ==
    ASSUME NEW s \in Seq(Command), NEW t \in Seq(Command)
    PROVE  /\ s \o t \in Seq(Command)
           /\ \A kind : IdsIn(s \o t, kind) = IdsIn(s, kind) \cup IdsIn(t, kind)
           /\ Lined(s) /\ Lined(t) /\ LinesUp(s, t) => Lined(s \o t)
<1> DEFINE u == s \o t
           m == Len(s)
           n == Len(t)
<1>1. m \in Nat /\ n \in Nat /\ DOMAIN s = 1..m /\ DOMAIN t = 1..n
  OBVIOUS
<1>2. /\ u \in Seq(Command) /\ Len(u) = m + n /\ DOMAIN u = 1..(m + n)
      /\ \A i \in 1..m : u[i] = s[i]
      /\ \A i \in 1..n : u[m + i] = t[i]
  OBVIOUS
<1>. HIDE DEF u, m, n
<1>3. ASSUME NEW i \in 1..(m + n) PROVE i \in 1..m \/ (i - m \in 1..n /\ m + (i - m) = i)
  BY <1>1
<1>4. ASSUME NEW kind PROVE IdsIn(u, kind) = IdsIn(s, kind) \cup IdsIn(t, kind)
  <2>1. ASSUME NEW x \in IdsIn(u, kind) PROVE x \in IdsIn(s, kind) \cup IdsIn(t, kind)
    <3>1. PICK i \in 1..(m + n) : u[i] \in kind /\ x = u[i].id
      BY <1>2, <2>1 DEF IdsIn
    <3>2. CASE i \in 1..m
      BY <1>1, <1>2, <3>1, <3>2 DEF IdsIn
    <3>3. CASE i - m \in 1..n /\ m + (i - m) = i
      <4>1. u[i] = t[i - m]
        BY <1>2, <3>3
      <4>2. QED
        BY <1>1, <3>1, <3>3, <4>1 DEF IdsIn
    <3>4. QED
      BY <1>3, <3>2, <3>3
  <2>2. ASSUME NEW x \in IdsIn(s, kind) PROVE x \in IdsIn(u, kind)
    <3>1. PICK i \in 1..m : s[i] \in kind /\ x = s[i].id
      BY <1>1, <2>2 DEF IdsIn
    <3>2. i \in 1..(m + n) /\ u[i] = s[i]
      BY <1>1, <1>2
    <3>3. QED
      BY <1>2, <3>1, <3>2 DEF IdsIn
  <2>3. ASSUME NEW x \in IdsIn(t, kind) PROVE x \in IdsIn(u, kind)
    <3>1. PICK i \in 1..n : t[i] \in kind /\ x = t[i].id
      BY <1>1, <2>3 DEF IdsIn
    <3>2. m + i \in 1..(m + n) /\ u[m + i] = t[i]
      BY <1>1, <1>2
    <3>3. QED
      BY <1>2, <3>1, <3>2 DEF IdsIn
  <2>4. QED
    BY <2>1, <2>2, <2>3
<1>5. ASSUME Lined(s), Lined(t), LinesUp(s, t) PROVE Lined(u)
  <2>1. SUFFICES ASSUME NEW i \in 1..(m + n), NEW j \in 1..(m + n), i < j
                 PROVE  InOrder(u[i], u[j])
    BY <1>2 DEF Lined
  <2>2. CASE j \in 1..m
    <3>1. i \in 1..m
      BY <1>1, <2>1, <2>2
    <3>2. QED
      BY <1>1, <1>2, <1>5, <2>1, <2>2, <3>1 DEF Lined
  <2>3. CASE i \notin 1..m
    <3>1. i - m \in 1..n /\ j - m \in 1..n /\ i - m < j - m /\ m + (i - m) = i /\ m + (j - m) = j
      BY <1>1, <2>1, <2>3
    <3>2. u[i] = t[i - m] /\ u[j] = t[j - m]
      BY <1>2, <3>1
    <3>3. InOrder(t[i - m], t[j - m])
      BY <1>1, <1>5, <3>1 DEF Lined
    <3>4. QED
      BY <3>2, <3>3
  <2>4. CASE i \in 1..m /\ j \notin 1..m
    <3>1. j - m \in 1..n /\ m + (j - m) = j
      BY <1>1, <2>1, <2>4
    <3>2. u[i] = s[i] /\ u[j] = t[j - m]
      BY <1>2, <2>4, <3>1
    <3>3. \A kind : s[i] \in kind => s[i].id \in IdsIn(s, kind)
      BY <1>1, <2>4 DEF IdsIn
    <3>4. \A kind : t[j - m] \in kind => t[j - m].id \in IdsIn(t, kind)
      BY <1>1, <3>1 DEF IdsIn
    <3>5. InOrder(s[i], t[j - m])
      BY <1>5, <3>3, <3>4 DEF LinesUp, InOrder
    <3>6. QED
      BY <3>2, <3>5
  <2>5. QED
    BY <2>2, <2>3, <2>4
<1>6. QED
  BY <1>2, <1>4, <1>5 DEF u

LEMMA OneCommand ==
    ASSUME NEW c \in Command
    PROVE  /\ <<c>> \in Seq(Command) /\ Lined(<<c>>)
           /\ \A kind : IdsIn(<<c>>, kind) = IF c \in kind THEN {c.id} ELSE {}
<1>1. <<c>> \in Seq(Command) /\ DOMAIN <<c>> = {1} /\ <<c>>[1] = c
  OBVIOUS
<1>2. Lined(<<c>>)
  BY <1>1 DEF Lined
<1>3. ASSUME NEW kind PROVE IdsIn(<<c>>, kind) = IF c \in kind THEN {c.id} ELSE {}
  BY <1>1 DEF IdsIn
<1>4. QED
  BY <1>1, <1>2, <1>3

LEMMA NoCommand ==
    <<>> \in Seq(Command) /\ Lined(<<>>) /\ \A kind : IdsIn(<<>>, kind) = {}
BY DEF Lined, IdsIn

\* What is left when the first command has been received.
LEMMA Received1 ==
    ASSUME NEW s \in Seq(Command), s # <<>>, Lined(s)
    PROVE  /\ Head(s) \in Command /\ Tail(s) \in Seq(Command) /\ Lined(Tail(s))
           /\ \A kind : IdsIn(s, kind) = IdsIn(Tail(s), kind) \cup (IF Head(s) \in kind THEN {Head(s).id} ELSE {})
           /\ LinesUp(<<Head(s)>>, Tail(s))
<1> DEFINE c == Head(s)
           t == Tail(s)
           n == Len(s)
<1>1. /\ n \in Nat \ {0} /\ DOMAIN s = 1..n /\ c = s[1] /\ c \in Command
      /\ t \in Seq(Command) /\ Len(t) = n - 1 /\ DOMAIN t = 1..(n - 1)
      /\ \A i \in 1..(n - 1) : t[i] = s[i + 1]
  OBVIOUS
<1>2. <<c>> \in Seq(Command)
  BY <1>1
<1>3. s = <<c>> \o t
  OBVIOUS
<1>. HIDE DEF c, t, n
<1>4. ASSUME NEW kind PROVE IdsIn(s, kind) = IdsIn(t, kind) \cup (IF c \in kind THEN {c.id} ELSE {})
  <2>1. IdsIn(<<c>> \o t, kind) = IdsIn(<<c>>, kind) \cup IdsIn(t, kind)
    BY <1>1, <1>2, Concatenated, ZenonT(30)
  <2>2. IdsIn(<<c>>, kind) = IF c \in kind THEN {c.id} ELSE {}
    BY <1>1, OneCommand
  <2>3. IdsIn(s, kind) = IdsIn(<<c>> \o t, kind)
    BY <1>3, Zenon
  <2>4. QED
    BY <2>1, <2>2, <2>3
<1>5. Lined(t)
  <2>1. SUFFICES ASSUME NEW i \in 1..(n - 1), NEW j \in 1..(n - 1), i < j PROVE InOrder(t[i], t[j])
    BY <1>1 DEF Lined
  <2>2. i + 1 \in 1..n /\ j + 1 \in 1..n /\ i + 1 < j + 1
    BY <1>1, <2>1
  <2>3. QED
    BY <1>1, <2>2 DEF Lined
<1>6. ASSUME NEW j \in 1..(n - 1) PROVE InOrder(c, t[j])
  <2>1. 1 \in 1..n /\ j + 1 \in 1..n /\ 1 < j + 1
    BY <1>1
  <2>2. QED
    BY <1>1, <2>1 DEF Lined
<1>7. LinesUp(<<c>>, t)
  <2>1. \A kind : IdsIn(<<c>>, kind) = IF c \in kind THEN {c.id} ELSE {}
    BY <1>1, OneCommand
  <2>2. \A kind : \A y \in IdsIn(t, kind) : \E j \in 1..(n - 1) : t[j] \in kind /\ y = t[j].id
    BY <1>1 DEF IdsIn
  <2>3. IdsIn(t, Rejects) = {}
    BY <1>6, <2>2 DEF InOrder
  <2>4. \A y \in IdsIn(t, Olds) : (c \in Olds => c.id > y) /\ (c \in Flags => y >= c.id)
    BY <1>6, <2>2 DEF InOrder
  <2>5. \A y \in IdsIn(t, News) : c \in News => c.id < y
    BY <1>6, <2>2 DEF InOrder
  <2>6. QED
    BY <2>1, <2>3, <2>4, <2>5 DEF LinesUp
<1>8. QED
  BY <1>1, <1>4, <1>5, <1>7 DEF c, t

-----------------------------------------------------------------------------
(* What the server answers *)

LogOK(l) ==
    /\ l \in [first : Nat, last : Nat, cut : BOOLEAN]
    /\ 1 <= l.first /\ l.first <= l.last + 1 /\ l.last <= MaxLog
    /\ l.first = 1 \/ l.cut
    /\ l.cut => l.first <= l.last

\* s holds the old messages from "to" to from - 1, none of them removed by the truncation.
OldAnswer(s, from, to) ==
    /\ s \in Seq(Command) /\ Lined(s)
    /\ to \in Int /\ to <= from /\ (to < from => to >= log.first)
    /\ IdsIn(s, Olds) = to..(from - 1)
    /\ IdsIn(s, News) = {} /\ IdsIn(s, Jumps) = {} /\ IdsIn(s, Rejects) = {}
    /\ IdsIn(s, Flags) \subseteq {log.first}

LEMMA SentIs ==
    ASSUME LogOK(log), NEW op \in Ops, NEW id \in 0..MaxLog,
           op \in {"HISTDONE", "REJECT"} => id = 0,
           op \notin {"HISTDONE", "REJECT"} => id # 0,
           op = "TRUNCATE" => log.cut /\ id = log.first, op # "NEWMSGID"
    PROVE  /\ Sent(op, id) \in Command /\ Sent(op, id).op = op /\ Sent(op, id).id = id
           /\ Sent(op, id) \in Flags => id = log.first
           /\ log.cut /\ id = log.first => Sent(op, id).trunc = TRUE
<1>1. (log.cut /\ id = log.first) \in BOOLEAN
  BY DEF LogOK
<1> DEFINE c == Sent(op, id)
           flag == log.cut /\ id = log.first
<1>2. c.op = op /\ c.id = id
  BY DEF Sent
<1>3. c.trunc = flag
  BY DEF Sent
<1>4. op \in {"HISTDONE", "REJECT"} => ~flag
  BY DEF LogOK
<1>5. c \in [op : Ops, id : 0..MaxLog, trunc : BOOLEAN]
  BY <1>1 DEF Sent
<1>6. c \in Command
  BY <1>2, <1>3, <1>4, <1>5 DEF Command
<1>7. c \in Flags => id = log.first
  BY <1>3 DEF Flags
<1>8. QED
  BY <1>2, <1>3, <1>6, <1>7

LEMMA HistdoneIs ==
    ASSUME LogOK(log)
    PROVE  Sent("HISTDONE", NoId) \in Command /\ \A kind \in {Olds, News, Flags, Jumps, Rejects} : Sent("HISTDONE", NoId) \notin kind
<1> DEFINE c == Sent("HISTDONE", NoId)
<1>1. 0 \in 0..MaxLog /\ NoId = 0
  BY HistoryAssumption DEF NoId
<1>2. /\ c \in Command /\ c.op = "HISTDONE"
  BY <1>1, SentIs DEF Ops
<1>. HIDE DEF c
<1>3. QED
  BY <1>2 DEF Olds, News, Flags, Jumps, Rejects, Command, c

LEMMA OlderIs ==
    ASSUME LogOK(log), NEW from \in Int, from <= MaxLog + 1, NEW count \in Nat
    PROVE  OldAnswer(Older(from, count), from, from - Len(Older(from, count)))
<1> DEFINE n == Max({0, Min({count, from - log.first})})
           s == [i \in 1..n |-> Sent("OLDMSG", from - i)]
           to == from - n
<1>1. log.first \in Nat /\ 1 <= log.first /\ MaxLog \in Nat
  BY HistoryAssumption DEF LogOK
<1>2. Min({count, from - log.first}) \in {count, from - log.first} /\ Min({count, from - log.first}) \in Int
      /\ Min({count, from - log.first}) <= from - log.first
  <2> DEFINE T == {count, from - log.first}
  <2>1. \E x \in T : \A y \in T : x <= y
    <3>1. CASE count <= from - log.first
      BY <1>1, <3>1
    <3>2. CASE from - log.first <= count
      BY <1>1, <3>2
    <3>3. QED
      BY <1>1, <3>1, <3>2
  <2>2. Min(T) = CHOOSE x \in T : \A y \in T : x <= y
    BY DEF Min
  <2>3. Min(T) \in T /\ \A y \in T : Min(T) <= y
    BY <2>1, <2>2
  <2>4. QED
    BY <1>1, <2>3
<1>3. n \in Nat /\ (n > 0 => n <= from - log.first)
  <2> DEFINE a == Min({count, from - log.first})
  <2>1. a \in Int /\ a <= from - log.first
    BY <1>2
  <2>. HIDE DEF a
  <2>2. Max({0, a}) \in {0, a} /\ Max({0, a}) >= 0 /\ Max({0, a}) \in Int
    <3>1. 0 \in Int
      OBVIOUS
    <3>2. QED
      BY <2>1, <3>1, MaxOfTwo, Zenon
  <2>3. n = Max({0, a})
    BY DEF a
  <2>. HIDE DEF n
  <2>4. n \in Nat
    BY <2>2, <2>3
  <2>5. n > 0 => n = a
    BY <2>2, <2>3
  <2>6. QED
    BY <2>1, <2>4, <2>5
<1>4. Older(from, count) = s
  BY DEF Older
<1>. HIDE DEF n
<1>5. Len(s) = n /\ DOMAIN s = 1..n
  BY <1>3
<1>6. ASSUME NEW i \in 1..n
      PROVE  /\ s[i] \in Command /\ s[i].op = "OLDMSG" /\ s[i].id = from - i
             /\ from - i >= log.first /\ from - i < from /\ i \in Int
             /\ s[i] \in Flags => from - i = log.first
  <2>1. i \in Int /\ from - i >= log.first /\ from - i < from /\ from - i \in 0..MaxLog /\ from - i # 0
    BY <1>1, <1>3
  <2>2. /\ Sent("OLDMSG", from - i) \in Command /\ Sent("OLDMSG", from - i).op = "OLDMSG"
        /\ Sent("OLDMSG", from - i).id = from - i
        /\ Sent("OLDMSG", from - i) \in Flags => from - i = log.first
    BY <2>1, SentIs DEF Ops
  <2>3. QED
    BY <2>1, <2>2
<1>. HIDE DEF s
<1>7. s \in Seq(Command)
  <2>1. s = [i \in 1..n |-> s[i]]
    BY DEF s
  <2>2. QED
    BY <1>3, <1>6, <2>1, SMTT(30)
<1>8. Lined(s)
  <2>1. SUFFICES ASSUME NEW i \in 1..n, NEW j \in 1..n, i < j PROVE InOrder(s[i], s[j])
    BY <1>5 DEF Lined
  <2>2. s[i].id > s[j].id /\ (s[i] \in Flags => s[j].id >= s[i].id)
    <3>1. from - i > from - j
      BY <1>6, <2>1
    <3>2. QED
      BY <1>6, <3>1
  <2>3. s[i].op = "OLDMSG" /\ s[j].op = "OLDMSG"
    BY <1>6
  <2>4. s[i] \notin News /\ s[j] \notin Rejects
    BY <2>3 DEF News, Rejects
  <2>5. QED
    BY <2>2, <2>4 DEF InOrder
<1>9. IdsIn(s, Olds) = to..(from - 1)
  <2>1. {j \in DOMAIN s : s[j] \in Olds} = 1..n
    BY <1>5, <1>6 DEF Olds
  <2>2. ASSUME NEW x \in to..(from - 1) PROVE x \in {s[i].id : i \in 1..n}
    <3>1. from - x \in 1..n /\ from - (from - x) = x
      BY <1>3
    <3>2. s[from - x].id = x
      BY <1>6, <3>1
    <3>3. QED
      BY <3>1, <3>2
  <2>3. ASSUME NEW i \in 1..n PROVE s[i].id \in to..(from - 1)
    BY <1>3, <1>6
  <2>4. QED
    BY <2>1, <2>2, <2>3 DEF IdsIn
<1>10. IdsIn(s, News) = {} /\ IdsIn(s, Jumps) = {} /\ IdsIn(s, Rejects) = {}
  BY <1>5, <1>6 DEF IdsIn, News, Jumps, Rejects
<1>11. IdsIn(s, Flags) \subseteq {log.first}
  BY <1>5, <1>6 DEF IdsIn
<1>12. to \in Int /\ to <= from /\ (to < from => to >= log.first)
  BY <1>1, <1>3
<1>13. OldAnswer(s, from, to)
  BY <1>7, <1>8, <1>9, <1>10, <1>11, <1>12 DEF OldAnswer
<1>14. QED
  BY <1>4, <1>5, <1>13

\* with the HISTDONE
LEMMA ReplyIs ==
    ASSUME LogOK(log), NEW from \in Int, from <= MaxLog + 1, NEW count \in Nat
    PROVE  OldAnswer(Append(Older(from, count), Sent("HISTDONE", NoId)), from,
                     from - Len(Older(from, count)))
<1> DEFINE o == Older(from, count)
           c == Sent("HISTDONE", NoId)
           to == from - Len(o)
<1>1. OldAnswer(o, from, to)
  BY OlderIs
<1>2. c \in Command /\ \A kind \in {Olds, News, Flags, Jumps, Rejects} : c \notin kind
  BY HistdoneIs
<1>. HIDE DEF o, c
<1>3. Append(o, c) = o \o <<c>>
  BY <1>1, <1>2 DEF OldAnswer
<1>4. /\ <<c>> \in Seq(Command) /\ Lined(<<c>>)
      /\ \A kind \in {Olds, News, Flags, Jumps, Rejects} : IdsIn(<<c>>, kind) = {}
  BY <1>2, OneCommand
<1>5. LinesUp(o, <<c>>)
  BY <1>4 DEF LinesUp
<1>6. /\ o \o <<c>> \in Seq(Command) /\ Lined(o \o <<c>>)
      /\ \A kind : IdsIn(o \o <<c>>, kind) = IdsIn(o, kind) \cup IdsIn(<<c>>, kind)
  BY <1>1, <1>4, <1>5, Concatenated DEF OldAnswer
<1>. HIDE DEF to
<1>7. OldAnswer(o \o <<c>>, from, to)
  BY <1>1, <1>4, <1>6 DEF OldAnswer
<1>8. QED
  BY <1>3, <1>7 DEF o, c, to

\* s holds the new messages from a to the end of the log.
NewAnswer(s, a) ==
    /\ s \in Seq(Command) /\ Lined(s)
    /\ IdsIn(s, News) = a..log.last
    /\ IdsIn(s, Olds) = {} /\ IdsIn(s, Rejects) = {}
    /\ IdsIn(s, Flags) \subseteq {log.first}
    /\ log.cut /\ a = log.first => a \in IdsIn(s, Jumps)

\* RangeReply without what comes before and after the messages
Newer(a) == [i \in DOMAIN From(a, log.last) |-> Sent("NEWMSG", From(a, log.last)[i])]

LEMMA NewerIs ==
    ASSUME LogOK(log), NEW a \in Int, 1 <= a, a <= log.last + 1, log.first <= a
    PROVE  NewAnswer(Newer(a), a)
<1> DEFINE n == log.last - a + 1
           s == Newer(a)
<1>1. /\ log.first \in Nat /\ log.last \in Nat /\ log.last <= MaxLog /\ MaxLog \in Nat /\ n \in Nat
      /\ log.cut => log.first <= log.last
  BY HistoryAssumption DEF LogOK
<1>2. DOMAIN From(a, log.last) = 1..n /\ \A i \in 1..n : From(a, log.last)[i] = a + i - 1
  BY <1>1 DEF From
<1>3. s = [i \in 1..n |-> Sent("NEWMSG", a + i - 1)]
  BY <1>2 DEF Newer
<1>4. Len(s) = n /\ DOMAIN s = 1..n
  BY <1>1, <1>3
<1>5. ASSUME NEW i \in 1..n
      PROVE  /\ s[i] \in Command /\ s[i].op = "NEWMSG" /\ s[i].id = a + i - 1 /\ i \in Int
             /\ s[i] \in Flags => a + i - 1 = log.first
             /\ log.cut /\ a + i - 1 = log.first => s[i].trunc = TRUE
  <2>1. i \in Int /\ a + i - 1 \in 0..MaxLog /\ a + i - 1 # 0
    BY <1>1
  <2>2. /\ Sent("NEWMSG", a + i - 1) \in Command /\ Sent("NEWMSG", a + i - 1).op = "NEWMSG"
        /\ Sent("NEWMSG", a + i - 1).id = a + i - 1
        /\ Sent("NEWMSG", a + i - 1) \in Flags => a + i - 1 = log.first
        /\ log.cut /\ a + i - 1 = log.first => Sent("NEWMSG", a + i - 1).trunc = TRUE
    BY <2>1, SentIs, ZenonT(30) DEF Ops
  <2>3. s[i] = Sent("NEWMSG", a + i - 1)
    BY <1>3
  <2>. HIDE DEF s
  <2>4. QED
    BY <2>1, <2>2, <2>3, Zenon
<1>6. s \in Seq(Command)
  <2>1. s = [i \in 1..n |-> s[i]]
    BY <1>3
  <2>. HIDE DEF s
  <2>2. \A i \in 1..n : s[i] \in Command
    BY <1>5
  <2>. HIDE DEF n
  <2>3. s \in [1..n -> Command] /\ n \in Nat
    BY <1>1, <2>1, <2>2
  <2>4. QED
    BY <2>3
<1>. HIDE DEF s
<1>7. Lined(s)
  <2>1. SUFFICES ASSUME NEW i \in 1..n, NEW j \in 1..n, i < j PROVE InOrder(s[i], s[j])
    BY <1>4 DEF Lined
  <2>2. s[i].id < s[j].id
    <3>1. a + i - 1 < a + j - 1
      BY <1>5, <2>1
    <3>2. QED
      BY <1>5, <3>1
  <2>3. s[i].op = "NEWMSG" /\ s[j].op = "NEWMSG"
    BY <1>5
  <2>4. s[i] \notin Olds /\ s[j] \notin Olds /\ s[j] \notin Rejects
    BY <2>3 DEF Olds, Rejects
  <2>5. QED
    BY <2>2, <2>4 DEF InOrder
<1>8. IdsIn(s, News) = a..log.last
  <2>1. {j \in DOMAIN s : s[j] \in News} = 1..n
    BY <1>4, <1>5 DEF News
  <2>2. ASSUME NEW x \in a..log.last PROVE x \in {s[i].id : i \in 1..n}
    <3>1. x - a + 1 \in 1..n /\ a + (x - a + 1) - 1 = x
      BY <1>1
    <3>2. s[x - a + 1].id = x
      BY <1>5, <3>1
    <3>3. QED
      BY <3>1, <3>2
  <2>3. ASSUME NEW i \in 1..n PROVE s[i].id \in a..log.last
    <3>1. a + i - 1 \in a..log.last
      BY <1>1
    <3>2. QED
      BY <1>5, <3>1
  <2>4. QED
    BY <2>1, <2>2, <2>3 DEF IdsIn
<1>9. IdsIn(s, Olds) = {} /\ IdsIn(s, Rejects) = {}
  BY <1>4, <1>5 DEF IdsIn, Olds, Rejects
<1>10. IdsIn(s, Flags) \subseteq {log.first}
  BY <1>4, <1>5 DEF IdsIn
<1>11. log.cut /\ a = log.first => a \in IdsIn(s, Jumps)
  <2>1. SUFFICES ASSUME log.cut, a = log.first PROVE a \in IdsIn(s, Jumps)
    OBVIOUS
  <2>2. 1 \in 1..n /\ a + 1 - 1 = a
    BY <1>1, <2>1
  <2>3. s[1] \in Command /\ s[1].op = "NEWMSG" /\ s[1].id = a /\ s[1].trunc = TRUE
    BY <1>5, <2>1, <2>2
  <2>4. QED
    BY <1>4, <2>2, <2>3 DEF IdsIn, Jumps
<1>12. NewAnswer(s, a)
  BY <1>6, <1>7, <1>8, <1>9, <1>10, <1>11 DEF NewAnswer
<1>13. QED
  BY <1>12 DEF s

LEMMA RangeReplyIs ==
    ASSUME LogOK(log), NEW b, NEW n \in Int, 0 <= n, n <= log.last
    PROVE  \E a \in (n + 1)..(log.last + 1) :
              /\ NewAnswer(RangeReply(b, n), a)
              /\ a = n + 1 \/ a \in IdsIn(RangeReply(b, n), Jumps)
<1> DEFINE a == Max({n + 1, log.first})
           cut == IF log.cut /\ log.first \in b..n
                  THEN <<Sent("TRUNCATE", log.first)>> ELSE <<>>
           s == Newer(a)
           end == <<Sent("HISTDONE", NoId)>>
<1>1. /\ log.first \in Nat /\ log.last \in Nat /\ 1 <= log.first /\ log.first <= log.last + 1
      /\ log.last <= MaxLog /\ MaxLog \in Nat /\ (log.first = 1 \/ log.cut)
  BY HistoryAssumption DEF LogOK
<1>2. a \in Int /\ n + 1 <= a /\ log.first <= a /\ (a = n + 1 \/ a = log.first)
  <2>1. n + 1 \in Int /\ log.first \in Int
    BY <1>1
  <2>2. a \in {n + 1, log.first} /\ a >= n + 1 /\ a >= log.first /\ a \in Int
    BY <2>1, MaxOfTwo, Zenon
  <2>. HIDE DEF a
  <2>3. QED
    BY <1>1, <2>2
<1>. HIDE DEF a
<1>3. 1 <= a /\ a <= log.last + 1 /\ a \in (n + 1)..(log.last + 1)
  BY <1>1, <1>2
<1>4. NewAnswer(s, a)
  BY <1>2, <1>3, NewerIs
<1>5. RangeReply(b, n) = (cut \o s) \o end
  BY DEF RangeReply, Newer, a
<1>6. /\ cut \in Seq(Command) /\ Lined(cut)
      /\ IdsIn(cut, Olds) = {} /\ IdsIn(cut, News) = {} /\ IdsIn(cut, Rejects) = {}
      /\ IdsIn(cut, Flags) \subseteq {log.first}
  <2>1. CASE log.cut /\ log.first \in b..n
    <3> DEFINE c == Sent("TRUNCATE", log.first)
    <3>1. log.first \in 0..MaxLog /\ log.first # 0
      <4>1. log.first <= log.last
        BY <2>1 DEF LogOK
      <4>2. QED
        BY <1>1, <4>1
    <3>2. c \in Command /\ c.op = "TRUNCATE" /\ c.id = log.first
      BY <2>1, <3>1, SentIs DEF Ops
    <3>3. cut = <<c>>
      BY <2>1
    <3>. HIDE DEF c, cut
    <3>4. c \notin Olds /\ c \notin News /\ c \notin Rejects
      BY <3>2 DEF Olds, News, Rejects
    <3>5. <<c>> \in Seq(Command) /\ Lined(<<c>>)
          /\ \A kind : IdsIn(<<c>>, kind) = IF c \in kind THEN {c.id} ELSE {}
      BY <3>2, OneCommand
    <3>6. QED
      BY <3>2, <3>3, <3>4, <3>5
  <2>2. CASE ~(log.cut /\ log.first \in b..n)
    <3>1. cut = <<>>
      BY <2>2
    <3>2. QED
      BY <3>1, NoCommand
  <2>3. QED
    BY <2>1, <2>2
<1>. HIDE DEF cut, s
<1>7. LinesUp(cut, s)
  BY <1>4, <1>6 DEF LinesUp, NewAnswer
<1>8. /\ cut \o s \in Seq(Command) /\ Lined(cut \o s)
      /\ \A kind : IdsIn(cut \o s, kind) = IdsIn(cut, kind) \cup IdsIn(s, kind)
  BY <1>4, <1>6, <1>7, Concatenated DEF NewAnswer
<1>9. /\ end \in Seq(Command) /\ Lined(end)
      /\ \A kind \in {Olds, News, Flags, Jumps, Rejects} : IdsIn(end, kind) = {}
  BY HistdoneIs, OneCommand
<1> DEFINE most == cut \o s
<1>. HIDE DEF end, most
<1>10. LinesUp(most, end)
  BY <1>9 DEF LinesUp
<1>11. /\ most \o end \in Seq(Command) /\ Lined(most \o end)
       /\ \A kind : IdsIn(most \o end, kind) = IdsIn(most, kind) \cup IdsIn(end, kind)
  BY <1>8, <1>9, <1>10, Concatenated DEF most
<1>12. \A kind \in {Olds, News, Flags, Jumps, Rejects} :
          IdsIn(most \o end, kind) = IdsIn(cut, kind) \cup IdsIn(s, kind)
  BY <1>8, <1>9, <1>11 DEF most
<1>13. log.cut /\ a = log.first => a \in IdsIn(most \o end, Jumps)
  BY <1>4, <1>12 DEF NewAnswer
<1>14. NewAnswer(most \o end, a)
  BY <1>4, <1>6, <1>11, <1>12, <1>13 DEF NewAnswer
<1>15. a = n + 1 \/ a \in IdsIn(most \o end, Jumps)
  BY <1>1, <1>2, <1>13
<1>16. RangeReply(b, n) = most \o end
  BY <1>5 DEF most
<1>17. QED
  BY <1>3, <1>14, <1>15, <1>16

-----------------------------------------------------------------------------
(* The invariant *)

\* With nothing in the chat: the messages below and from a on are on their way, the oldest
\* of them is the one that the server has sent last.
FromScratch(l, cur, s) ==
    \E a \in 1..(l.last + 1) :
       /\ IdsIn(s, News) = a..l.last
       /\ cur <= a /\ IdsIn(s, Olds) = cur..(a - 1)

\* With the messages from b to n: what is on its way continues them, or begins with a
\* truncation past them; of older ones nothing comes once they have been truncated.
Continues(l, cur, s, b, n) ==
    /\ \E a \in (n + 1)..(l.last + 1) :
          IdsIn(s, News) = a..l.last /\ (a = n + 1 \/ a \in IdsIn(s, Jumps))
    /\ \/ cur <= b /\ IdsIn(s, Olds) = cur..(b - 1)
       \/ IdsIn(s, Olds) = {} /\ cur <= l.first

\* a rejection empties the chat before the rest arrives
Feeds(l, cur, s, b, n) ==
    IF IdsIn(s, Rejects) # {} THEN FromScratch(l, cur, s) ELSE Continues(l, cur, s, b, n)

Online(k) == k.mOnlineState # "Offline"

Fed(k, l, cur, s) ==
    \/ Bare(k) /\ (Online(k) => FromScratch(l, cur, s))
    \/ \E b, n : Holds(k, b, n) /\ n <= l.last /\ (Online(k) => Feeds(l, cur, s, b, n))

\* Nothing on its way is older than a truncation that the client knows.
Flying(k, l, s) ==
    /\ s \in Seq(Command) /\ Lined(s)
    /\ Online(k) \/ s = <<>>
    /\ \A x \in IdsIn(s, Flags) : x <= l.first
    /\ \A x \in Cuts(k) : x <= l.first /\ \A y \in IdsIn(s, Olds) : y >= x

Consistent(k, l, cur, s) ==
    Chat(k) /\ LogOK(l) /\ cur \in Int /\ Flying(k, l, s) /\ Fed(k, l, cur, s)

IInv == Consistent(h, log, cursor, down)

\* All keys are known when the messages arrive; with late ones the rows can have gaps.
KeysKnown == LateKeys = {}

LEMMA ConsistentSettled == \A k, l, cur, s : Consistent(k, l, cur, s) => Chat(k) /\ Settled(k)
BY DEF Consistent, Fed, Settled

\* A step that changes nothing but what is in RAM.
LEMMA KeptConsistent ==
    ASSUME NEW k, NEW l, NEW cur, NEW s, Consistent(k, l, cur, s), NEW x, Keeps(k, x)
    PROVE  Consistent(x, l, cur, s)
<1>1. Flying(x, l, s)
  BY DEF Consistent, Flying, Keeps, Online
<1>2. Fed(x, l, cur, s)
  BY DEF Consistent, Fed, Keeps, Online
<1>3. QED
  BY <1>1, <1>2 DEF Consistent, Keeps

\* The connection is lost, or the process ends.
LEMMA OfflineConsistent ==
    ASSUME NEW k, NEW l, NEW cur, NEW s, Consistent(k, l, cur, s), NEW x, Chat(x), ~Online(x),
           \A b, n : Holds(k, b, n) => Holds(x, b, n), Bare(k) => Bare(x), Cuts(x) = Cuts(k)
    PROVE  Consistent(x, l, cur, <<>>)
<1>1. Flying(x, l, <<>>)
  BY NoCommand DEF Consistent, Flying
<1>2. Fed(x, l, cur, <<>>)
  BY DEF Consistent, Fed
<1>3. QED
  BY <1>1, <1>2 DEF Consistent

LEMMA InitConsistent == KeysKnown /\ Init => IInv
<1>1. SUFFICES ASSUME KeysKnown, Init PROVE IInv
  OBVIOUS
<1>2. LogOK(log)
  BY <1>1, HistoryAssumption DEF Init, LogOK
<1>3. h = [f \in Fields |-> h[f]]
  BY <1>1 DEF Init, Fields
<1>4. /\ h.low = 0 /\ h.mNextHistFetchIdx = NoIdx /\ h.ram = <<>> /\ h.marshalled = <<>>
      /\ h.mDecryptNewHaltedAt = NoHalt /\ h.mDecryptOldHaltedAt = NoHalt
      /\ h.keys = 1..MaxLog /\ h.db = <<>> /\ h.mOnlineState = "Offline"
  BY <1>1 DEF Init, KeysKnown
<1>5. h.mHasMoreHistoryInDb = FALSE
  BY <1>1 DEF Init
<1>6. Chat(h)
  <2>1. h.low \in Int /\ h.ram \in Seq(Message) /\ h.marshalled \in Seq(Nat)
    BY <1>4
  <2>2. h.mNextHistFetchIdx \in Int
    BY <1>4, HistoryAssumption DEF NoIdx
  <2>3. h.mHasMoreHistoryInDb \in BOOLEAN
    BY <1>5, Zenon
  <2>4. QED
    BY <1>3, <1>4, <2>1, <2>2, <2>3 DEF Chat
<1>7. Bare(h) /\ ~Online(h)
  BY <1>4, <1>5, <1>6 DEF Bare, Online
<1>8. Cuts(h) = {}
  BY <1>4 DEF Cuts
<1>9. cursor \in Int /\ down = <<>>
  BY <1>1 DEF Init, NoId
<1>10. Flying(h, log, down)
  BY <1>8, <1>9, NoCommand DEF Flying
<1>11. Fed(h, log, cursor, down)
  BY <1>7 DEF Fed
<1>12. QED
  BY <1>2, <1>6, <1>9, <1>10, <1>11 DEF IInv, Consistent

-----------------------------------------------------------------------------
(* The steps of the application, and the end of the connection *)

LEMMA OpenKeeps == IInv /\ OpenChatRoom => IInv'
<1>1. SUFFICES ASSUME IInv, OpenChatRoom PROVE IInv'
  OBVIOUS
<1>2. Keeps(h, h')
  BY <1>1, OpenAside, AsideKeeps DEF IInv, Consistent, OpenChatRoom
<1>3. log' = log /\ cursor' = cursor /\ down' = down
  BY <1>1 DEF OpenChatRoom
<1>4. QED
  BY <1>1, <1>2, <1>3, KeptConsistent DEF IInv

LEMMA CloseKeeps == IInv /\ CloseChatRoom => IInv'
<1>1. SUFFICES ASSUME IInv, CloseChatRoom PROVE IInv'
  OBVIOUS
<1>2. Keeps(h, h')
  BY <1>1, CloseAside, AsideKeeps, ZenonT(30) DEF IInv, Consistent, CloseChatRoom
<1>3. log' = log /\ cursor' = cursor /\ down' = down
  BY <1>1 DEF CloseChatRoom
<1>4. QED
  BY <1>1, <1>2, <1>3, KeptConsistent DEF IInv

LEMMA LoadKeeps == ASSUME NEW count \in Counts PROVE IInv /\ LoadMessages(count) => IInv'
<1>1. SUFFICES ASSUME IInv, LoadMessages(count) PROVE IInv'
  OBVIOUS
<1>2. count \in Nat \ {0}
  BY HistoryAssumption
<1>3. Chat(h) /\ Settled(h)
  BY <1>1, ConsistentSettled DEF IInv
<1>4. Keeps(h, h')
  BY <1>1, <1>2, <1>3, GetHistoryKeeps DEF LoadMessages
<1>5. log' = log /\ cursor' = cursor /\ down' = down
  BY <1>1 DEF LoadMessages
<1>6. QED
  BY <1>1, <1>4, <1>5, KeptConsistent DEF IInv

LEMMA NoKeyAwaited == ASSUME NEW isNew \in BOOLEAN PROVE IInv => ~KeyArrives(isNew)
BY DEF IInv, Consistent, Chat, KeyArrives, Halted

LEMMA DisconnectKeeps == IInv /\ Disconnect => IInv'
<1>1. SUFFICES ASSUME IInv, Disconnect PROVE IInv'
  OBVIOUS
<1>2. h' = OnDisconnect(h) /\ log' = log /\ cursor' = cursor /\ down' = <<>>
  BY <1>1 DEF Disconnect
<1>3. Chat(h)
  BY <1>1 DEF IInv, Consistent
<1>4. Chat(h') /\ SameWindow(h, h') /\ ~Online(h')
  BY <1>2, <1>3, OnDisconnectKeeps DEF Online
<1>5. /\ \A b, n : Holds(h, b, n) => Holds(h', b, n)
      /\ Bare(h) => Bare(h')
      /\ Cuts(h') = Cuts(h)
  BY <1>4, SameWindowHolds
<1>6. Consistent(h', log, cursor, <<>>)
  BY <1>1, <1>4, <1>5, OfflineConsistent DEF IInv
<1>7. QED
  BY <1>2, <1>6 DEF IInv

LEMMA RestartKeeps == IInv /\ Restart => IInv'
<1>1. SUFFICES ASSUME IInv, Restart PROVE IInv'
  OBVIOUS
<1>2. h' = NewChat(h) /\ log' = log /\ cursor' = cursor /\ down' = <<>>
  BY <1>1 DEF Restart
<1>3. Chat(h) /\ Settled(h)
  BY <1>1, ConsistentSettled DEF IInv
<1>4. /\ Chat(h') /\ ~Online(h')
      /\ \A b, n : Holds(h, b, n) => Holds(h', b, n)
      /\ Bare(h) => Bare(h')
      /\ Cuts(h') = Cuts(h)
  BY <1>2, <1>3, NewChatKeeps DEF Online
<1>5. Consistent(h', log, cursor, <<>>)
  BY <1>1, <1>4, OfflineConsistent DEF IInv
<1>6. QED
  BY <1>2, <1>5 DEF IInv

-----------------------------------------------------------------------------
(* The commands that arrive *)

LEMMA FirstOfInterval ==
    ASSUME NEW a \in Int, NEW z \in Int, NEW x \in Int, NEW T, a..z = T \cup {x},
           \A y \in T : x < y
    PROVE  x = a /\ a <= z /\ T = (a + 1)..z
<1>1. x \in a..z /\ T \subseteq a..z
  OBVIOUS
<1>2. a \in a..z
  BY <1>1
<1>3. x = a
  <2>1. a \notin T
    BY <1>1
  <2>2. QED
    BY <1>2, <2>1
<1>4. ASSUME NEW y \in (a + 1)..z PROVE y \in T
  <2>1. y \in a..z /\ y # a
    BY <1>4
  <2>2. QED
    BY <1>3, <2>1
<1>5. ASSUME NEW y \in T PROVE y \in (a + 1)..z
  <2>1. y \in a..z /\ a < y
    BY <1>1, <1>3, <1>5
  <2>2. QED
    BY <2>1
<1>6. a <= z
  BY <1>2
<1>7. T = (a + 1)..z
  BY <1>4, <1>5, Zenon
<1>8. QED
  BY <1>3, <1>6, <1>7

IsLast(x, T, a, z) == a..z = T \cup {x} /\ \A y \in T : y < x

LEMMA LastOfInterval ==
    ASSUME NEW a \in Int, NEW z \in Int, NEW x \in Int, NEW T, IsLast(x, T, a, z)
    PROVE  x = z /\ a <= z /\ T = a..(z - 1)
<1>0. a..z = T \cup {x} /\ \A y \in T : y < x
  BY DEF IsLast
<1>1. x \in a..z /\ T \subseteq a..z
  BY <1>0
<1>2. z \in a..z
  BY <1>1
<1>3. x = z
  <2>1. z \notin T
    BY <1>0, <1>1
  <2>2. QED
    BY <1>0, <1>2, <2>1
<1>4. ASSUME NEW y \in a..(z - 1) PROVE y \in T
  <2>1. y \in a..z /\ y # z
    BY <1>4
  <2>2. QED
    BY <1>0, <1>3, <2>1
<1>5. ASSUME NEW y \in T PROVE y \in a..(z - 1)
  <2>1. y \in a..z /\ y < z
    BY <1>0, <1>1, <1>3, <1>5
  <2>2. QED
    BY <2>1
<1>6. a <= z
  BY <1>2
<1>7. T = a..(z - 1)
  BY <1>4, <1>5, Zenon
<1>8. QED
  BY <1>3, <1>6, <1>7

\* Only the oldest message that the chat has can be a truncation.
LEMMA CutsAre ==
    ASSUME NEW k, NEW b, NEW n, Holds(k, b, n)
    PROVE  Cuts(k) \subseteq {b}
<1>1. PICK lo, d : Numbered(k, lo, d) /\ b = lo + d
  BY DEF Holds
<1>2. QED
  BY <1>1 DEF Numbered, Cuts

\* The first command and the others.
LEMMA WhatIsLeft ==
    ASSUME IInv, down # <<>>
    PROVE  /\ LogOK(log) /\ cursor \in Int /\ Chat(h) /\ Online(h)
           /\ Head(down) \in Command /\ Tail(down) \in Seq(Command) /\ Lined(Tail(down))
           /\ \A kind : IdsIn(down, kind) =
                 IdsIn(Tail(down), kind) \cup (IF Head(down) \in kind THEN {Head(down).id} ELSE {})
           /\ LinesUp(<<Head(down)>>, Tail(down))
           /\ Incoming.id = Head(down).id /\ Incoming.trunc = Head(down).trunc
           /\ Head(down).id # 0 => Incoming \in Message
<1>1. LogOK(log) /\ cursor \in Int /\ Chat(h) /\ down \in Seq(Command) /\ Lined(down) /\ Online(h)
  BY DEF IInv, Consistent, Flying
<1>2. /\ Head(down) \in Command /\ Tail(down) \in Seq(Command) /\ Lined(Tail(down))
      /\ \A kind : IdsIn(down, kind) =
            IdsIn(Tail(down), kind) \cup (IF Head(down) \in kind THEN {Head(down).id} ELSE {})
      /\ LinesUp(<<Head(down)>>, Tail(down))
  BY <1>1, Received1
<1>3. Incoming.id = Head(down).id /\ Incoming.trunc = Head(down).trunc
  BY DEF Incoming
<1>4. Head(down).id # 0 => Incoming \in Message
  <2>1. SUFFICES ASSUME Head(down).id # 0 PROVE Incoming \in Message
    OBVIOUS
  <2>2. Head(down).id \in 1..MaxLog /\ Head(down).trunc \in BOOLEAN
    BY <1>2, <2>1, HistoryAssumption DEF Command
  <2>3. TRUE \in BOOLEAN
    OBVIOUS
  <2>4. QED
    BY <2>2, <2>3 DEF Incoming, Message
<1>5. QED
  BY <1>1, <1>2, <1>3, <1>4

\* The kinds of the first command, by what it is
LEMMA KindOfHead ==
    ASSUME NEW c \in Command
    PROVE  /\ c \in Olds <=> c.op = "OLDMSG"
           /\ c \in News <=> c.op \in {"NEWMSG", "NEWMSGID"}
           /\ c \in Rejects <=> c.op = "REJECT"
           /\ c \in Flags <=> c.trunc
           /\ c \in Jumps <=> c.op = "NEWMSG" /\ c.trunc
           /\ c.op \in {"OLDMSG", "NEWMSG", "NEWMSGID", "TRUNCATE"} => c.id # 0
           /\ c.op = "NEWMSGID" => ~c.trunc
           /\ c.op = "TRUNCATE" => c.trunc
           /\ c.op = "HISTDONE" => ~c.trunc
BY DEF Command, Olds, News, Rejects, Flags, Jumps

\* The chat takes the first command and has the messages from b to n then.
Takes(x, b, n) ==
    /\ Holds(x, b, n) /\ Online(x)
    /\ Cuts(x) \subseteq Cuts(h) \cup (IF Head(down) \in Flags THEN {Head(down).id} ELSE {})

LEMMA LeftFlying ==
    ASSUME IInv, down # <<>>, NEW x, Online(x),
           Cuts(x) \subseteq Cuts(h) \cup (IF Head(down) \in Flags THEN {Head(down).id} ELSE {})
    PROVE  Flying(x, log, Tail(down))
<1> DEFINE c == Head(down)
           t == Tail(down)
<1>1. /\ t \in Seq(Command) /\ Lined(t) /\ c \in Command /\ LinesUp(<<c>>, t)
      /\ \A kind : IdsIn(down, kind) = IdsIn(t, kind) \cup (IF c \in kind THEN {c.id} ELSE {})
  BY WhatIsLeft
<1>2. /\ \A y \in IdsIn(down, Flags) : y <= log.first
      /\ \A z \in Cuts(h) : z <= log.first /\ \A y \in IdsIn(down, Olds) : y >= z
  BY DEF IInv, Consistent, Flying
<1>3. \A y \in IdsIn(t, Flags) : y <= log.first
  BY <1>1, <1>2
<1>4. c \in Flags => c.id <= log.first /\ \A y \in IdsIn(t, Olds) : y >= c.id
  <2>1. SUFFICES ASSUME c \in Flags PROVE c.id <= log.first /\ \A y \in IdsIn(t, Olds) : y >= c.id
    OBVIOUS
  <2>2. c.id \in IdsIn(down, Flags)
    BY <1>1, <2>1
  <2>3. c.id \in IdsIn(<<c>>, Flags)
    <3>1. IdsIn(<<c>>, Flags) = IF c \in Flags THEN {c.id} ELSE {}
      BY <1>1, OneCommand, Zenon
    <3>2. QED
      BY <2>1, <3>1
  <2>4. QED
    BY <1>1, <1>2, <2>2, <2>3 DEF LinesUp
<1>5. IdsIn(t, Olds) \subseteq IdsIn(down, Olds)
  BY <1>1
<1>6. ASSUME NEW z \in Cuts(x) PROVE z <= log.first /\ \A y \in IdsIn(t, Olds) : y >= z
  <2>1. CASE z \in Cuts(h)
    BY <1>2, <1>5, <2>1
  <2>2. CASE z \notin Cuts(h)
    <3>1. c \in Flags /\ z = c.id
      BY <1>6, <2>2
    <3>2. QED
      BY <1>4, <3>1
  <2>3. QED
    BY <2>1, <2>2
<1>7. QED
  BY <1>1, <1>3, <1>6 DEF Flying

LEMMA TakesConsistent ==
    ASSUME IInv, down # <<>>, NEW x, NEW b, NEW n, Takes(x, b, n), n <= log.last,
           Continues(log, cursor, Tail(down), b, n)
    PROVE  Consistent(x, log, cursor, Tail(down))
<1>1. LogOK(log) /\ cursor \in Int /\ Head(down) \in Command /\ LinesUp(<<Head(down)>>, Tail(down))
  BY WhatIsLeft
<1>2. Flying(x, log, Tail(down))
  BY LeftFlying DEF Takes
<1>3. IdsIn(Tail(down), Rejects) = {}
  BY <1>1 DEF LinesUp
<1>4. Fed(x, log, cursor, Tail(down))
  BY <1>3 DEF Fed, Feeds, Takes
<1>5. Chat(x)
  BY DEF Takes, Holds
<1>6. QED
  BY <1>1, <1>2, <1>4, <1>5 DEF Consistent

\* Unless the range was rejected, the chat is empty or has messages that are continued.
LEMMA NotRejected ==
    ASSUME IInv, down # <<>>, Head(down) \notin Rejects
    PROVE  \/ Bare(h) /\ FromScratch(log, cursor, down)
           \/ \E b, n : Holds(h, b, n) /\ n <= log.last /\ Continues(log, cursor, down, b, n)
<1>1. IdsIn(down, Rejects) = {}
  BY WhatIsLeft DEF LinesUp
<1>2. Online(h)
  BY WhatIsLeft
<1>3. QED
  BY <1>1, <1>2 DEF IInv, Consistent, Fed, Feeds

\* A command that is no message and no rejection.
LEMMA PassedOver ==
    ASSUME IInv, down # <<>>, Head(down) \notin Olds, Head(down) \notin News,
           Head(down) \notin Rejects,
           NEW x, Chat(x), Online(x), \A b, n : Holds(h, b, n) => Holds(x, b, n),
           Bare(h) => Bare(x), Cuts(x) = Cuts(h)
    PROVE  Consistent(x, log, cursor, Tail(down))
<1> DEFINE t == Tail(down)
<1>1. LogOK(log) /\ cursor \in Int /\ Head(down) \in Command
  BY WhatIsLeft
<1>2. Head(down) \notin Jumps
  BY <1>1, KindOfHead
<1>3. /\ IdsIn(t, Olds) = IdsIn(down, Olds) /\ IdsIn(t, News) = IdsIn(down, News)
      /\ IdsIn(t, Jumps) = IdsIn(down, Jumps) /\ IdsIn(t, Rejects) = {}
  BY <1>2, WhatIsLeft DEF LinesUp
<1>4. Flying(x, log, t)
  BY LeftFlying
<1>5. CASE Bare(h) /\ FromScratch(log, cursor, down)
  <2>1. FromScratch(log, cursor, t)
    BY <1>3, <1>5 DEF FromScratch
  <2>2. QED
    BY <1>1, <1>4, <1>5, <2>1 DEF Consistent, Fed
<1>6. ASSUME NEW b, NEW n, Holds(h, b, n), n <= log.last, Continues(log, cursor, down, b, n)
      PROVE  Consistent(x, log, cursor, t)
  <2>1. Continues(log, cursor, t, b, n)
    BY <1>3, <1>6 DEF Continues
  <2>2. Fed(x, log, cursor, t)
    BY <1>3, <1>6, <2>1 DEF Fed, Feeds
  <2>3. QED
    BY <1>1, <1>4, <2>2 DEF Consistent
<1>7. QED
  BY <1>5, <1>6, NotRejected

\* A new message that is taken: the first of those that continue the chat, or a truncation.
LEMMA NewTaken ==
    ASSUME IInv, down # <<>>, Head(down) \in News, NEW x,
           Bare(h) => Takes(x, Head(down).id, Head(down).id),
           \A b, n : Holds(h, b, n) /\ Head(down).id = n + 1 /\ Head(down) \notin Flags
                        => Takes(x, b, n + 1),
           \A b, n : Holds(h, b, n) /\ Head(down).id > n /\ Head(down) \in Jumps
                        => Takes(x, Head(down).id, Head(down).id),
           Head(down) \in Flags => Head(down) \in Jumps
    PROVE  Consistent(x, log, cursor, Tail(down))
<1> DEFINE c == Head(down)
           t == Tail(down)
<1>1. /\ LogOK(log) /\ cursor \in Int /\ c \in Command /\ LinesUp(<<c>>, t)
      /\ \A kind : IdsIn(down, kind) = IdsIn(t, kind) \cup (IF c \in kind THEN {c.id} ELSE {})
      /\ t \in Seq(Command)
  BY WhatIsLeft
<1>2. c \notin Olds /\ c \notin Rejects
  BY DEF News, Olds, Rejects
<1>3. /\ IdsIn(t, Olds) = IdsIn(down, Olds) /\ IdsIn(down, News) = IdsIn(t, News) \cup {c.id}
      /\ IdsIn(down, Jumps) = IdsIn(t, Jumps) \cup (IF c \in Jumps THEN {c.id} ELSE {})
  BY <1>1, <1>2
<1>4. \A kind : IdsIn(<<c>>, kind) = IF c \in kind THEN {c.id} ELSE {}
  BY <1>1, OneCommand, Zenon
<1>5. \A y \in IdsIn(t, News) : c.id < y
  BY <1>1, <1>4 DEF LinesUp
<1>6. c \in Flags => \A y \in IdsIn(t, Olds) : y >= c.id
  BY <1>1, <1>4 DEF LinesUp
<1>7. c.id \in Int /\ log.last \in Int /\ log.first \in Int
  BY <1>1 DEF Command, LogOK
<1>8. c \in Flags => c.id <= log.first
  <2>1. SUFFICES ASSUME c \in Flags PROVE c.id <= log.first
    OBVIOUS
  <2>2. c.id \in IdsIn(down, Flags)
    BY <1>1, <2>1
  <2>3. QED
    BY <2>2 DEF IInv, Consistent, Flying
<1>9. IdsIn(t, Jumps) \subseteq IdsIn(t, News)
  BY DEF IdsIn, Jumps, News
<1>10. CASE Bare(h) /\ FromScratch(log, cursor, down)
  <2>1. PICK a \in 1..(log.last + 1) : /\ IdsIn(down, News) = a..log.last
                                      /\ cursor <= a /\ IdsIn(down, Olds) = cursor..(a - 1)
    BY <1>10 DEF FromScratch
  <2>2. a \in Int
    OBVIOUS
  <2>3. c.id = a /\ a <= log.last /\ IdsIn(t, News) = (a + 1)..log.last
    <3>1. a..log.last = IdsIn(t, News) \cup {c.id}
      BY <1>3, <2>1
    <3>2. QED
      BY <1>5, <1>7, <2>2, <3>1, FirstOfInterval, Zenon
  <2>4. a + 1 \in (a + 1)..(log.last + 1)
    BY <1>7, <2>2, <2>3
  <2>5. Continues(log, cursor, t, a, a)
    BY <1>3, <2>1, <2>3, <2>4 DEF Continues
  <2>6. Takes(x, a, a)
    BY <1>10, <2>3
  <2>7. QED
    BY <2>3, <2>5, <2>6, TakesConsistent
<1>11. ASSUME NEW b, NEW n, Holds(h, b, n), n <= log.last, Continues(log, cursor, down, b, n)
       PROVE  Consistent(x, log, cursor, t)
  <2>1. PICK a \in (n + 1)..(log.last + 1) :
           IdsIn(down, News) = a..log.last /\ (a = n + 1 \/ a \in IdsIn(down, Jumps))
    BY <1>11 DEF Continues
  <2>2. b \in Int /\ n \in Int /\ b <= n
    BY <1>11, OldestRow
  <2>3. a \in Int /\ n < a
    BY <1>7, <2>2
  <2>4. c.id = a /\ a <= log.last /\ IdsIn(t, News) = (a + 1)..log.last
    <3>1. a..log.last = IdsIn(t, News) \cup {c.id}
      BY <1>3, <2>1
    <3>2. QED
      <4>1. a \in Int /\ log.last \in Int /\ c.id \in Int
        BY <1>7, <2>3
      <4>2. QED
        BY <1>5, <3>1, <4>1, FirstOfInterval, Zenon
  <2>5. a + 1 \in (a + 1)..(log.last + 1)
    BY <1>7, <2>3, <2>4
  <2>6. CASE c \in Flags
    <3>1. Takes(x, a, a)
      BY <1>11, <2>3, <2>4, <2>6
    <3>2. IdsIn(t, Olds) = {} /\ cursor <= log.first
      <4>1. CASE cursor <= b /\ IdsIn(down, Olds) = cursor..(b - 1)
        <5>1. ASSUME NEW y \in IdsIn(t, Olds) PROVE FALSE
          <6>1. y \in cursor..(b - 1) /\ y >= a
            BY <1>3, <1>6, <2>4, <2>6, <4>1, <5>1
          <6>2. QED
            BY <1>1, <2>2, <2>3, <6>1
        <5>2. a <= log.first
          BY <1>8, <2>4, <2>6
        <5>3. QED
          BY <1>1, <1>7, <2>2, <2>3, <4>1, <5>1, <5>2
      <4>2. CASE IdsIn(down, Olds) = {} /\ cursor <= log.first
        BY <1>3, <4>2
      <4>3. QED
        BY <1>11, <4>1, <4>2 DEF Continues
    <3>3. Continues(log, cursor, t, a, a)
      BY <2>4, <2>5, <3>2 DEF Continues
    <3>4. QED
      BY <2>4, <3>1, <3>3, TakesConsistent
  <2>7. CASE c \notin Flags
    <3>1. a = n + 1
      <4>1. SUFFICES ASSUME a \in IdsIn(down, Jumps) PROVE FALSE
        BY <2>1
      <4>2. c \notin Jumps
        BY <1>1, <2>7 DEF Jumps, Flags
      <4>3. a \in (a + 1)..log.last
        BY <1>3, <1>9, <2>4, <4>1, <4>2
      <4>4. QED
        BY <2>3, <4>3
    <3>2. Takes(x, b, n + 1)
      BY <1>11, <2>4, <2>7, <3>1
    <3>3. Continues(log, cursor, t, b, n + 1)
      <4>1. \/ cursor <= b /\ IdsIn(t, Olds) = cursor..(b - 1)
            \/ IdsIn(t, Olds) = {} /\ cursor <= log.first
        BY <1>3, <1>11 DEF Continues
      <4>2. QED
        BY <2>4, <2>5, <3>1, <4>1 DEF Continues
    <3>4. QED
      BY <2>4, <3>1, <3>2, <3>3, TakesConsistent
  <2>8. QED
    BY <2>6, <2>7
<1>12. QED
  BY <1>2, <1>10, <1>11, NotRejected

LEMMA NewmsgKeeps == IInv /\ RecvNewmsg => IInv'
<1>1. SUFFICES ASSUME IInv, RecvNewmsg PROVE IInv'
  OBVIOUS
<1> DEFINE c == Head(down)
<1>2. /\ down # <<>> /\ c.op = "NEWMSG" /\ h' = OnNewmsg(h, Incoming)
      /\ log' = log /\ cursor' = cursor /\ down' = Tail(down)
  BY <1>1 DEF RecvNewmsg, Received
<1>3. c \in Command /\ Online(h)
  BY <1>1, <1>2, WhatIsLeft
<1>4. c \in News /\ (c \in Jumps <=> c.trunc) /\ (c \in Flags <=> c.trunc) /\ c.id # 0
  BY <1>2, <1>3, KindOfHead
<1>5. PICK m \in Message : m = Incoming /\ m.id = c.id /\ m.trunc = c.trunc
  BY <1>1, <1>2, <1>4, WhatIsLeft
<1>6. c.trunc \in BOOLEAN
  BY <1>3 DEF Command
<1>a. PICK x : x = OnNewmsg(h, m) /\ x = h'
  BY <1>2, <1>5
<1>7. Bare(h) => Takes(x, c.id, c.id)
  <2>1. SUFFICES ASSUME Bare(h) PROVE Takes(x, c.id, c.id)
    OBVIOUS
  <2>2. /\ Holds(x, c.id, c.id) /\ Cuts(x) = (IF m.trunc THEN {c.id} ELSE {})
        /\ x.mOnlineState = h.mOnlineState
    BY <1>5, <2>1, NewmsgBare, <1>a
  <2>3. QED
    BY <1>3, <1>4, <1>5, <2>2 DEF Takes, Online
<1>8. ASSUME NEW b, NEW n, Holds(h, b, n), c.id = n + 1, c \notin Flags
      PROVE  Takes(x, b, n + 1)
  <2>1. m.trunc = FALSE
    BY <1>4, <1>5, <1>6, <1>8
  <2>2. Holds(x, b, n + 1) /\ Cuts(x) = Cuts(h) /\ x.mOnlineState = h.mOnlineState
    <3>1. m.id = n + 1 /\ x = OnNewmsg(h, m)
      BY <1>5, <1>8, <1>a
    <3>2. Holds(h, b, n) /\ Follows(m, n)
      BY <1>8, <2>1, <3>1 DEF Follows
    <3>3. Grown(h, x, b, m.id)
      <4>1. x = OnNewmsg(h, m) /\ m \in Message
        BY <3>1
      <4>2. QED
        BY <3>2, <4>1, NewmsgHolds, Zenon
    <3>4. QED
      BY <3>1, <3>3 DEF Grown
  <2>3. QED
    BY <1>3, <2>2 DEF Takes, Online
<1>9. ASSUME NEW b, NEW n, Holds(h, b, n), c.id > n, c \in Jumps
      PROVE  Takes(x, c.id, c.id)
  <2>1. m.trunc = TRUE
    BY <1>4, <1>5, <1>6, <1>9
  <2>2. Holds(x, c.id, c.id) /\ Cuts(x) = {c.id} /\ x.mOnlineState = h.mOnlineState
    <3>1. m.id > n /\ x = OnNewmsg(h, m)
      BY <1>5, <1>9, <1>a
    <3>2. JumpsPast(m, n) /\ m \in Message
      BY <2>1, <3>1, <1>9 DEF JumpsPast
    <3>3. CutAt(x, h, m)
      BY <1>9, <3>1, <3>2, NewmsgJumps, Zenon
    <3>4. QED
      BY <1>5, <3>3 DEF CutAt
  <2>3. QED
    BY <1>3, <1>4, <1>9, <2>2 DEF Takes, Online
<1>10. Consistent(x, log, cursor, Tail(down))
  BY <1>1, <1>2, <1>4, <1>7, <1>8, <1>9, NewTaken
<1>11. QED
  BY <1>2, <1>10, <1>a DEF IInv

LEMMA NewmsgidKeeps == IInv /\ RecvNewmsgid => IInv'
<1>1. SUFFICES ASSUME IInv, RecvNewmsgid PROVE IInv'
  OBVIOUS
<1> DEFINE c == Head(down)
<1>2. /\ down # <<>> /\ c.op = "NEWMSGID" /\ h' = OnNewmsgid(h, Incoming)
      /\ log' = log /\ cursor' = cursor /\ down' = Tail(down)
  BY <1>1 DEF RecvNewmsgid, Received
<1>3. c \in Command /\ Online(h) /\ Chat(h)
  BY <1>1, <1>2, WhatIsLeft
<1>4. c \in News /\ c \notin Jumps /\ c \notin Flags /\ c.id # 0
  BY <1>2, <1>3, KindOfHead
<1>5. PICK m \in Message : m = Incoming /\ m.id = c.id /\ m.trunc = c.trunc
  BY <1>1, <1>2, <1>4, WhatIsLeft
<1>6. c.trunc \in BOOLEAN
  BY <1>3 DEF Command
<1>7. m.trunc = FALSE
  BY <1>3, <1>4, <1>5, <1>6 DEF Flags
<1>a. PICK x : x = OnNewmsgid(h, m) /\ x = h'
  BY <1>2, <1>5
<1>8. /\ \A b, n : Holds(h, b, n) /\ c.id = n + 1 => Holds(x, b, n + 1) /\ Cuts(x) = Cuts(h)
      /\ Bare(h) => Holds(x, c.id, c.id) /\ Cuts(x) = {}
      /\ x.mOnlineState = h.mOnlineState
  <2>1. /\ \A b, n : Holds(h, b, n) /\ m.id = n + 1 => Holds(x, b, n + 1) /\ Cuts(x) = Cuts(h)
        /\ Bare(h) => Holds(x, m.id, m.id) /\ Cuts(x) = {}
        /\ x.mOnlineState = h.mOnlineState
    <3>1. x = OnNewmsgid(h, m)
      BY <1>a
    <3>2. QED
      BY <1>3, <1>7, <3>1, NewmsgidHolds, Zenon
  <2>2. QED
    BY <1>5, <2>1
<1>9. Bare(h) => Takes(x, c.id, c.id)
  BY <1>3, <1>8 DEF Takes, Online
<1>10. \A b, n : Holds(h, b, n) /\ c.id = n + 1 => Takes(x, b, n + 1)
  BY <1>3, <1>8 DEF Takes, Online
<1>11. Consistent(x, log, cursor, Tail(down))
  BY <1>1, <1>2, <1>4, <1>9, <1>10, NewTaken
<1>12. QED
  BY <1>2, <1>11, <1>a DEF IInv

LEMMA OldmsgKeeps == IInv /\ RecvOldmsg => IInv'
<1>1. SUFFICES ASSUME IInv, RecvOldmsg PROVE IInv'
  OBVIOUS
<1> DEFINE c == Head(down)
           t == Tail(down)
<1>2. /\ down # <<>> /\ c.op = "OLDMSG" /\ h' = OnOldmsg(h, Incoming)
      /\ log' = log /\ cursor' = cursor /\ down' = t
  BY <1>1 DEF RecvOldmsg, Received
<1>3. /\ c \in Command /\ Online(h) /\ LinesUp(<<c>>, t) /\ LogOK(log) /\ cursor \in Int
      /\ \A kind : IdsIn(down, kind) = IdsIn(t, kind) \cup (IF c \in kind THEN {c.id} ELSE {})
  BY <1>1, <1>2, WhatIsLeft
<1>4. c \in Olds /\ c \notin News /\ c \notin Jumps /\ c \notin Rejects /\ (c \in Flags <=> c.trunc)
      /\ c.id # 0
  BY <1>2, <1>3, KindOfHead
<1>5. PICK m \in Message : m = Incoming /\ m.id = c.id /\ m.trunc = c.trunc
  BY <1>1, <1>2, <1>4, WhatIsLeft
<1>6. PICK x : x = OnOldmsg(h, m) /\ x = h'
  BY <1>2, <1>5
<1>7. /\ IdsIn(down, Olds) = IdsIn(t, Olds) \cup {c.id} /\ IdsIn(t, News) = IdsIn(down, News)
      /\ IdsIn(t, Jumps) = IdsIn(down, Jumps)
  BY <1>3, <1>4
<1>8. \A y \in IdsIn(t, Olds) : y < c.id
  <2>1. IdsIn(<<c>>, Olds) = {c.id}
    <3>1. IdsIn(<<c>>, Olds) = IF c \in Olds THEN {c.id} ELSE {}
      BY <1>3, OneCommand, Zenon
    <3>2. QED
      BY <1>4, <3>1
  <2>2. \A y \in IdsIn(t, Olds) : c.id > y
    BY <1>3, <2>1 DEF LinesUp
  <2>3. \A y \in IdsIn(t, Olds) : y \in Int
    BY <1>1, <1>2, WhatIsLeft DEF IdsIn, Olds, Command
  <2>4. c.id \in Int
    BY <1>3 DEF Command
  <2>5. QED
    BY <2>2, <2>3, <2>4
<1>9. c.id \in Int /\ log.last \in Int /\ log.first \in Int
  BY <1>3 DEF Command, LogOK
<1>10. CASE Bare(h) /\ FromScratch(log, cursor, down)
  <2>1. PICK a \in 1..(log.last + 1) : /\ IdsIn(down, News) = a..log.last
                                      /\ cursor <= a /\ IdsIn(down, Olds) = cursor..(a - 1)
    BY <1>10 DEF FromScratch
  <2>2. a \in Int /\ a - 1 \in Int /\ cursor \in Int
    BY <1>3
  <2>3. cursor..(a - 1) = IdsIn(t, Olds) \cup {c.id}
    BY <1>7, <2>1
  <2>4. c.id = a - 1 /\ cursor <= a - 1 /\ IdsIn(t, Olds) = cursor..(a - 1 - 1)
    <3>1. cursor \in Int /\ c.id \in Int
      BY <1>9, <2>2
    <3>2. PICK z \in Int : z = a - 1
      BY <2>2
    <3>3. cursor..z = IdsIn(t, Olds) \cup {c.id}
      BY <2>3, <3>2
    <3>4. IsLast(c.id, IdsIn(t, Olds), cursor, z)
      BY <1>8, <3>3 DEF IsLast
    <3>5. c.id = z /\ cursor <= z /\ IdsIn(t, Olds) = cursor..(z - 1)
      BY <3>1, <3>4, LastOfInterval, Zenon
    <3>6. QED
      BY <3>2, <3>5
  <2>5. Led(h, x, m, m.id)
    BY <1>6, <1>10, OldmsgBare DEF Led
  <2>6. Takes(x, c.id, c.id)
    BY <1>3, <1>4, <1>5, <2>5 DEF Takes, Led, Online
  <2>7. a \in (c.id + 1)..(log.last + 1) /\ a = c.id + 1 /\ c.id <= log.last
    BY <1>9, <2>2, <2>4
  <2>8. cursor <= c.id /\ IdsIn(t, Olds) = cursor..(c.id - 1)
    BY <2>4
  <2>9. IdsIn(t, News) = a..log.last
    BY <1>7, <2>1
  <2>10. Continues(log, cursor, t, c.id, c.id)
    BY <2>7, <2>8, <2>9 DEF Continues
  <2>11. QED
    BY <1>1, <1>2, <1>6, <2>6, <2>7, <2>10, TakesConsistent DEF IInv
<1>11. ASSUME NEW b, NEW n, Holds(h, b, n), n <= log.last, Continues(log, cursor, down, b, n)
       PROVE  IInv'
  <2>1. PICK a \in (n + 1)..(log.last + 1) :
           IdsIn(down, News) = a..log.last /\ (a = n + 1 \/ a \in IdsIn(down, Jumps))
    BY <1>11 DEF Continues
  <2>2. b \in Int /\ b - 1 \in Int
    BY <1>11, OldestRow
  <2>3. cursor..(b - 1) = IdsIn(t, Olds) \cup {c.id}
    BY <1>7, <1>11 DEF Continues
  <2>4. c.id = b - 1 /\ cursor <= b - 1 /\ IdsIn(t, Olds) = cursor..(b - 1 - 1)
    <3>1. cursor \in Int
      BY <1>3
    <3>2. IsLast(c.id, IdsIn(t, Olds), cursor, b - 1)
      BY <1>8, <2>3 DEF IsLast
    <3>3. QED
      BY <1>9, <2>2, <3>1, <3>2, LastOfInterval, Zenon
  <2>5. Cuts(h) = {}
    <3>1. SUFFICES ASSUME b \in Cuts(h) PROVE FALSE
      BY <1>11, CutsAre
    <3>2. c.id >= b
      BY <1>1, <1>7, <3>1 DEF IInv, Consistent, Flying
    <3>3. QED
      BY <2>2, <2>4, <3>2
  <2>6. Led(h, x, m, n)
    <3>1. Precedes(h, m, b)
      BY <1>5, <2>4, <2>5 DEF Precedes
    <3>2. x = OnOldmsg(h, m) /\ Holds(h, b, n)
      BY <1>6, <1>11
    <3>3. QED
      BY <3>1, <3>2, OldmsgHolds, Zenon
  <2>7. Takes(x, c.id, n)
    BY <1>3, <1>4, <1>5, <2>6 DEF Takes, Led, Online
  <2>8. cursor <= c.id /\ IdsIn(t, Olds) = cursor..(c.id - 1)
    BY <2>4
  <2>9. Continues(log, cursor, t, c.id, n)
    BY <1>7, <2>1, <2>8 DEF Continues
  <2>10. QED
    BY <1>1, <1>2, <1>6, <1>11, <2>7, <2>9, TakesConsistent DEF IInv
<1>12. QED
  BY <1>1, <1>2, <1>4, <1>10, <1>11, NotRejected

LEMMA RecvTruncateKeeps == IInv /\ RecvTruncate => IInv'
<1>1. SUFFICES ASSUME IInv, RecvTruncate PROVE IInv'
  OBVIOUS
<1> DEFINE c == Head(down)
           t == Tail(down)
<1>2. /\ down # <<>> /\ c.op = "TRUNCATE" /\ h' = OnTruncate(h, Incoming)
      /\ log' = log /\ cursor' = cursor /\ down' = t
  BY <1>1 DEF RecvTruncate, Received
<1>3. /\ c \in Command /\ Chat(h) /\ Online(h) /\ LinesUp(<<c>>, t) /\ LogOK(log) /\ cursor \in Int
      /\ \A kind : IdsIn(down, kind) = IdsIn(t, kind) \cup (IF c \in kind THEN {c.id} ELSE {})
  BY <1>1, <1>2, WhatIsLeft
<1>4. c \notin Olds /\ c \notin News /\ c \notin Jumps /\ c \notin Rejects /\ c \in Flags /\ c.id # 0
  BY <1>2, <1>3, KindOfHead
<1>5. PICK m \in Message : m = Incoming /\ m.id = c.id
  BY <1>1, <1>2, <1>4, WhatIsLeft
<1>6. PICK x : x = OnTruncate(h, m) /\ x = h'
  BY <1>2, <1>5
<1>7. CASE x = h
  <2>1. Consistent(x, log, cursor, t)
    BY <1>1, <1>2, <1>3, <1>4, <1>7, PassedOver
  <2>2. QED
    BY <1>2, <1>6, <2>1 DEF IInv
<1>8. CASE Bare(h)
  <2>1. Ids(h.ram) = {}
    BY <1>8 DEF Bare, Ids
  <2>2. x = h
    BY <1>6, <2>1 DEF OnTruncate
  <2>3. QED
    BY <1>7, <2>2
<1>9. /\ IdsIn(t, News) = IdsIn(down, News) /\ IdsIn(t, Jumps) = IdsIn(down, Jumps)
      /\ IdsIn(t, Olds) = IdsIn(down, Olds)
  BY <1>3, <1>4
<1>10. c.id <= log.first /\ \A y \in IdsIn(t, Olds) : y >= c.id
  <2>1. IdsIn(<<c>>, Flags) = {c.id}
    <3>1. IdsIn(<<c>>, Flags) = IF c \in Flags THEN {c.id} ELSE {}
      BY <1>3, OneCommand, Zenon
    <3>2. QED
      BY <1>4, <3>1
  <2>2. c.id \in IdsIn(down, Flags)
    BY <1>3, <1>4
  <2>3. c.id <= log.first
    BY <1>1, <2>2 DEF IInv, Consistent, Flying
  <2>4. QED
    BY <1>3, <2>1, <2>3 DEF LinesUp
<1>11. ASSUME NEW b, NEW n, Holds(h, b, n), n <= log.last, Continues(log, cursor, down, b, n), x # h
       PROVE  IInv'
  <2>1. Cut(h, x, m, b, n)
    <3>1. x = OnTruncate(h, m) /\ x # h /\ Holds(h, b, n)
      BY <1>6, <1>11
    <3>2. QED
      BY <3>1, TruncateHolds DEF Cut
  <2>2. Holds(x, c.id, n) /\ Cuts(x) = {c.id} /\ x.mOnlineState = h.mOnlineState /\ c.id \in b..n
    BY <1>5, <2>1 DEF Cut
  <2>3. Takes(x, c.id, n)
    BY <1>3, <1>4, <2>2 DEF Takes, Online
  <2>4. IdsIn(t, Olds) = {} /\ cursor <= log.first
    <3>1. b \in Int /\ n \in Int /\ log.first \in Int /\ c.id \in Int /\ b <= c.id
      BY <1>3, <1>11, <2>2, OldestRow DEF LogOK
    <3>2. CASE cursor <= b /\ IdsIn(down, Olds) = cursor..(b - 1)
      <4>1. ASSUME NEW y \in IdsIn(t, Olds) PROVE FALSE
        <5>1. y \in cursor..(b - 1) /\ y >= c.id
          BY <1>9, <1>10, <3>2, <4>1
        <5>2. QED
          BY <1>3, <3>1, <5>1
      <4>2. QED
        BY <1>3, <1>10, <3>1, <3>2, <4>1
    <3>3. CASE IdsIn(down, Olds) = {} /\ cursor <= log.first
      BY <1>9, <3>3
    <3>4. QED
      BY <1>11, <3>2, <3>3 DEF Continues
  <2>5. Continues(log, cursor, t, c.id, n)
    BY <1>9, <1>11, <2>4 DEF Continues
  <2>6. QED
    BY <1>1, <1>2, <1>6, <1>11, <2>3, <2>5, TakesConsistent DEF IInv
<1>12. QED
  BY <1>1, <1>2, <1>4, <1>7, <1>8, <1>11, NotRejected

LEMMA HistdoneKeeps == IInv /\ RecvHistdone => IInv'
<1>1. SUFFICES ASSUME IInv, RecvHistdone PROVE IInv'
  OBVIOUS
<1> DEFINE c == Head(down)
           t == Tail(down)
<1>2. /\ down # <<>> /\ c.op = "HISTDONE" /\ h' = OnHistDone(h)
      /\ log' = log /\ cursor' = cursor /\ down' = t
  BY <1>1 DEF RecvHistdone, Received
<1>3. c \in Command /\ Chat(h) /\ Online(h)
  BY <1>1, <1>2, WhatIsLeft
<1>4. c \notin Olds /\ c \notin News /\ c \notin Rejects
  BY <1>2, <1>3, KindOfHead
<1>5. PICK x : x = h' /\ Chat(x) /\ SameWindow(h, x) /\ Online(x)
  BY <1>2, <1>3, OnHistDoneKeeps DEF Online
<1>6. (\A b, n : Holds(h, b, n) => Holds(x, b, n)) /\ (Bare(h) => Bare(x)) /\ Cuts(x) = Cuts(h)
  BY <1>5, SameWindowHolds
<1>7. Consistent(x, log, cursor, t)
  BY <1>1, <1>2, <1>4, <1>5, <1>6, PassedOver
<1>8. QED
  BY <1>2, <1>5, <1>7 DEF IInv

-----------------------------------------------------------------------------
(* More of the past is asked for *)

\* s with an answer behind it that begins where the server was
LEMMA Answered ==
    ASSUME LogOK(log), NEW s \in Seq(Command), Lined(s), NEW from \in Int,
           \A x \in IdsIn(s, Flags) : x <= log.first, \A y \in IdsIn(s, Olds) : y >= from,
           NEW r, NEW to, OldAnswer(r, from, to)
    PROVE  /\ s \o r \in Seq(Command) /\ Lined(s \o r)
           /\ \A x \in IdsIn(s \o r, Flags) : x <= log.first
           /\ \A y \in IdsIn(s \o r, Olds) : y \in IdsIn(s, Olds) \/ y >= log.first
           /\ IdsIn(s \o r, Rejects) = IdsIn(s, Rejects)
           /\ FromScratch(log, from, s) => FromScratch(log, to, s \o r)
           /\ \A b \in Int : \A n : Continues(log, from, s, b, n) => Continues(log, to, s \o r, b, n)
<1>1. /\ r \in Seq(Command) /\ Lined(r) /\ to \in Int /\ to <= from /\ (to < from => to >= log.first)
      /\ IdsIn(r, Olds) = to..(from - 1)
      /\ IdsIn(r, News) = {} /\ IdsIn(r, Jumps) = {} /\ IdsIn(r, Rejects) = {}
      /\ IdsIn(r, Flags) \subseteq {log.first}
  BY DEF OldAnswer
<1>2. log.first \in Int /\ log.last \in Int
  BY DEF LogOK
<1>3. \A y \in IdsIn(r, Olds) : y \in Int /\ y < from /\ y >= log.first
  BY <1>1, <1>2
<1>4. \A kind : \A x \in IdsIn(s, kind) : x \in Int
  BY DEF IdsIn, Command
<1>5. LinesUp(s, r)
  <2>1. ASSUME NEW x \in IdsIn(s, Olds), NEW y \in IdsIn(r, Olds) PROVE x > y
    <3>1. x \in Int /\ y \in Int /\ x >= from /\ y < from
      BY <1>3, <1>4, <2>1
    <3>2. QED
      BY <3>1
  <2>2. ASSUME NEW x \in IdsIn(s, Flags), NEW y \in IdsIn(r, Olds) PROVE y >= x
    <3>1. x \in Int /\ y \in Int /\ x <= log.first /\ y >= log.first
      BY <1>3, <1>4, <2>2
    <3>2. QED
      BY <1>2, <3>1
  <2>3. QED
    BY <1>1, <2>1, <2>2 DEF LinesUp
<1> DEFINE u == s \o r
<1>6. u \in Seq(Command) /\ Lined(u) /\ \A kind : IdsIn(u, kind) = IdsIn(s, kind) \cup IdsIn(r, kind)
  BY <1>1, <1>5, Concatenated
<1>. HIDE DEF u
<1>7. /\ IdsIn(u, Olds) = IdsIn(s, Olds) \cup (to..(from - 1)) /\ IdsIn(u, News) = IdsIn(s, News)
      /\ IdsIn(u, Jumps) = IdsIn(s, Jumps) /\ IdsIn(u, Rejects) = IdsIn(s, Rejects)
  BY <1>1, <1>6
<1>8. \A x \in IdsIn(u, Flags) : x <= log.first
  BY <1>1, <1>2, <1>6
<1>9. \A y \in IdsIn(u, Olds) : y \in IdsIn(s, Olds) \/ y >= log.first
  BY <1>3, <1>6
<1>10. ASSUME NEW a \in Int, from <= a, IdsIn(s, Olds) = from..(a - 1)
       PROVE  to <= a /\ IdsIn(u, Olds) = to..(a - 1)
  <2>1. (from..(a - 1)) \cup (to..(from - 1)) = to..(a - 1)
    BY <1>1, <1>10
  <2>2. to <= a
    BY <1>1, <1>10
  <2>3. QED
    BY <1>7, <1>10, <2>1, <2>2
<1>11. ASSUME FromScratch(log, from, s) PROVE FromScratch(log, to, u)
  <2>1. PICK a \in 1..(log.last + 1) : /\ IdsIn(s, News) = a..log.last
                                      /\ from <= a /\ IdsIn(s, Olds) = from..(a - 1)
    BY <1>11 DEF FromScratch
  <2>2. a \in Int
    OBVIOUS
  <2>3. to <= a /\ IdsIn(u, Olds) = to..(a - 1)
    BY <1>10, <2>1, <2>2
  <2>4. QED
    BY <1>7, <2>1, <2>3 DEF FromScratch
<1>12. ASSUME NEW b \in Int, NEW n, Continues(log, from, s, b, n)
       PROVE  Continues(log, to, u, b, n)
  <2>1. CASE from <= b /\ IdsIn(s, Olds) = from..(b - 1)
    <3>1. to <= b /\ IdsIn(u, Olds) = to..(b - 1)
      BY <1>10, <2>1
    <3>2. QED
      BY <1>7, <1>12, <3>1 DEF Continues
  <2>2. CASE IdsIn(s, Olds) = {} /\ from <= log.first
    <3>1. to = from
      BY <1>1, <1>2, <2>2
    <3>2. to..(from - 1) = {}
      BY <1>1, <3>1
    <3>3. IdsIn(u, Olds) = {} /\ to <= log.first
      BY <1>7, <2>2, <3>1, <3>2
    <3>4. QED
      BY <1>7, <1>12, <3>3 DEF Continues
  <2>3. QED
    BY <1>12, <2>1, <2>2 DEF Continues
<1>13. QED
  BY <1>6, <1>7, <1>8, <1>9, <1>11, <1>12 DEF u

\* The server has sent nothing that is older than where it is.
LEMMA WhereTheServerIs ==
    ASSUME IInv, Online(h)
    PROVE  cursor \in Int /\ cursor <= MaxLog + 1 /\ \A y \in IdsIn(down, Olds) : y >= cursor
<1>1. /\ cursor \in Int /\ log.last \in Int /\ log.first \in Int /\ log.last <= MaxLog
      /\ log.first <= log.last + 1 /\ MaxLog \in Int
  BY HistoryAssumption DEF IInv, Consistent, LogOK
<1>2. ASSUME NEW a \in Int, a <= log.last + 1, cursor <= a, IdsIn(down, Olds) = cursor..(a - 1)
      PROVE  cursor <= MaxLog + 1 /\ \A y \in IdsIn(down, Olds) : y >= cursor
  BY <1>1, <1>2
<1>3. ASSUME FromScratch(log, cursor, down)
      PROVE  cursor <= MaxLog + 1 /\ \A y \in IdsIn(down, Olds) : y >= cursor
  <2>1. PICK a \in 1..(log.last + 1) : cursor <= a /\ IdsIn(down, Olds) = cursor..(a - 1)
    BY <1>3 DEF FromScratch
  <2>2. a \in Int /\ a <= log.last + 1
    BY <1>1
  <2>3. QED
    BY <1>2, <2>1, <2>2
<1>4. ASSUME NEW b, NEW n, Holds(h, b, n), n <= log.last, Continues(log, cursor, down, b, n)
      PROVE  cursor <= MaxLog + 1 /\ \A y \in IdsIn(down, Olds) : y >= cursor
  <2>1. b \in Int /\ b <= log.last + 1
    <3>1. b \in Int /\ n \in Int /\ b <= n
      BY <1>4, OldestRow
    <3>2. QED
      BY <1>1, <1>4, <3>1
  <2>2. CASE cursor <= b /\ IdsIn(down, Olds) = cursor..(b - 1)
    BY <1>2, <2>1, <2>2
  <2>3. CASE IdsIn(down, Olds) = {} /\ cursor <= log.first
    BY <1>1, <2>3
  <2>4. QED
    BY <1>4, <2>2, <2>3 DEF Continues
<1>5. QED
  BY <1>1, <1>3, <1>4 DEF IInv, Consistent, Fed, Feeds

LEMMA EmptiedIsBare ==
    ASSUME NEW k, NEW count, Chat(k), NEW x,
           x = RequestHistoryFromServer([ClearHistory(k) EXCEPT !.mServerOldHistCbEnabled = k.open],
                                        count)
    PROVE  Bare(x) /\ x.mOnlineState = k.mOnlineState
<1>1. PICK y : y = InitChat(k)
  OBVIOUS
<1>2. /\ y = [f \in Fields |-> y[f]]
      /\ y.low = 0 /\ y.ram = <<>> /\ y.mNextHistFetchIdx = NoIdx
      /\ y.mHasMoreHistoryInDb = FALSE
      /\ y.mDecryptNewHaltedAt = NoHalt /\ y.mDecryptOldHaltedAt = NoHalt
      /\ \A f \in {"db", "keys", "mOnlineState", "marshalled", "open"} : y[f] = k[f]
  BY <1>1, InitChatClears
<1> DEFINE z == [[y EXCEPT !.db = <<>>, !.loaded = <<>>, !.live = <<>>]
                    EXCEPT !.mServerOldHistCbEnabled = k.open]
<1>3. x = RequestHistoryFromServer(z, count)
  BY <1>1 DEF ClearHistory
<1>4. /\ z = [f \in Fields |-> z[f]] /\ z.db = <<>>
      /\ z.low = 0 /\ z.ram = <<>> /\ z.mNextHistFetchIdx = NoIdx
      /\ z.mDecryptNewHaltedAt = NoHalt /\ z.mDecryptOldHaltedAt = NoHalt
      /\ z.keys = k.keys /\ z.mOnlineState = k.mOnlineState /\ z.marshalled = k.marshalled
  BY <1>2 DEF Fields
<1>5. z.mHasMoreHistoryInDb = FALSE
  BY <1>2 DEF Fields
<1>. HIDE DEF z
<1>6. Chat(z)
  <2>1. z.low \in Int /\ z.ram \in Seq(Message)
    <3>1. 0 \in Int /\ <<>> \in Seq(Message)
      OBVIOUS
    <3>2. z.low = 0 /\ z.ram = <<>>
      BY <1>4
    <3>3. QED
      BY <3>1, <3>2, Zenon
  <2>2. z.mNextHistFetchIdx \in Int
    BY <1>4, HistoryAssumption DEF NoIdx
  <2>3. z.mHasMoreHistoryInDb \in BOOLEAN
    BY <1>5, Zenon
  <2>4. z.marshalled \in Seq(Nat) /\ z.keys = 1..MaxLog
    BY <1>4 DEF Chat
  <2>5. QED
    BY <1>4, <2>1, <2>2, <2>3, <2>4 DEF Chat
<1>7. Bare(z)
  BY <1>4, <1>5, <1>6 DEF Bare
<1>8. Aside(z, x)
  BY <1>3, <1>6, RequestAside
<1>9. QED
  BY <1>4, <1>7, <1>8, SameWindowHolds DEF Aside

LEMMA RejectKeeps == IInv /\ RecvReject => IInv'
<1>1. SUFFICES ASSUME IInv, RecvReject PROVE IInv'
  OBVIOUS
<1> DEFINE c == Head(down)
           t == Tail(down)
           r == Append(Older(cursor, initialHistoryFetchCount), Sent("HISTDONE", NoId))
           to == cursor - Len(Older(cursor, initialHistoryFetchCount))
<1>2. /\ down # <<>> /\ c.op = "REJECT" /\ log' = log
      /\ h' = RequestHistoryFromServer([ClearHistory(h) EXCEPT !.mServerOldHistCbEnabled = h.open],
                                       initialHistoryFetchCount)
      /\ cursor' = to /\ down' = t \o r
  BY <1>1 DEF RecvReject
<1>3. /\ c \in Command /\ Chat(h) /\ Online(h) /\ LogOK(log) /\ cursor \in Int
      /\ t \in Seq(Command) /\ Lined(t)
      /\ \A kind : IdsIn(down, kind) = IdsIn(t, kind) \cup (IF c \in kind THEN {c.id} ELSE {})
  BY <1>1, <1>2, WhatIsLeft
<1>4. c \notin Olds /\ c \notin News /\ c \in Rejects
  BY <1>2, <1>3, KindOfHead
<1>5. IdsIn(t, Olds) = IdsIn(down, Olds) /\ IdsIn(t, News) = IdsIn(down, News) /\ c.id \in IdsIn(down, Rejects)
  BY <1>3, <1>4
<1>6. FromScratch(log, cursor, down)
  BY <1>1, <1>3, <1>5 DEF IInv, Consistent, Fed, Feeds
<1>7. FromScratch(log, cursor, t)
  BY <1>5, <1>6 DEF FromScratch
<1>8. cursor <= MaxLog + 1 /\ \A y \in IdsIn(t, Olds) : y >= cursor
  BY <1>1, <1>3, <1>5, WhereTheServerIs
<1>9. \A y \in IdsIn(t, Flags) : y <= log.first
  <2>1. IdsIn(t, Flags) \subseteq IdsIn(down, Flags)
    BY <1>3
  <2>2. QED
    BY <1>1, <2>1 DEF IInv, Consistent, Flying
<1>10. OldAnswer(r, cursor, to)
  BY <1>3, <1>8, ReplyIs, HistoryAssumption
<1>11. PICK x : x = h'
  OBVIOUS
<1>12. Bare(x) /\ Online(x)
  BY <1>2, <1>3, <1>11, EmptiedIsBare DEF Online
<1>. HIDE DEF r, to
<1>13. /\ t \o r \in Seq(Command) /\ Lined(t \o r)
       /\ \A y \in IdsIn(t \o r, Flags) : y <= log.first
       /\ FromScratch(log, to, t \o r)
  BY <1>3, <1>7, <1>8, <1>9, <1>10, Answered
<1>14. Cuts(x) = {}
  BY <1>12 DEF Bare, Cuts
<1>15. Flying(x, log, t \o r)
  BY <1>12, <1>13, <1>14 DEF Flying
<1>16. Fed(x, log, to, t \o r)
  BY <1>12, <1>13 DEF Fed
<1>17. to \in Int /\ Chat(x)
  BY <1>10, <1>12 DEF OldAnswer, Bare
<1>18. Consistent(x, log, to, t \o r)
  BY <1>3, <1>15, <1>16, <1>17 DEF Consistent
<1>19. QED
  BY <1>2, <1>11, <1>18 DEF IInv

LEMMA RunMarshalledKeeps == IInv /\ RunMarshalled => IInv'
<1>1. SUFFICES ASSUME IInv, RunMarshalled PROVE IInv'
  OBVIOUS
<1>2. Chat(h) /\ LogOK(log) /\ cursor \in Int
  BY <1>1 DEF IInv, Consistent
<1>3. PICK p : p = [h EXCEPT !.marshalled = Tail(@)]
  OBVIOUS
<1>4. PICK count \in Nat : count = Head(h.marshalled)
  BY <1>1, <1>2, PoppedAside DEF RunMarshalled
<1>5. Aside(h, p)
  BY <1>1, <1>2, <1>3, PoppedAside DEF RunMarshalled
<1>6. PICK x : x = h' /\ x = RequestHistoryFromServer(p, count)
  BY <1>1, <1>3, <1>4 DEF RunMarshalled
<1>7. Aside(p, x)
  BY <1>5, <1>6, RequestAside DEF Aside
<1>8. Keeps(h, x)
  BY <1>5, <1>7, AsideTwice, AsideKeeps
<1>9. log' = log
  BY <1>1 DEF RunMarshalled
<1>10. Consistent(x, log, cursor, down)
  BY <1>1, <1>8, KeptConsistent DEF IInv
<1>11. CASE ~Joined
  <2>1. cursor' = cursor /\ down' = down
    BY <1>1, <1>11 DEF RunMarshalled
  <2>2. QED
    BY <1>6, <1>9, <1>10, <2>1 DEF IInv
<1>12. CASE Joined
  <2> DEFINE r == Append(Older(cursor, count), Sent("HISTDONE", NoId))
             to == cursor - Len(Older(cursor, count))
  <2>1. down' = down \o r /\ cursor' = to
    BY <1>1, <1>4, <1>12 DEF RunMarshalled, HistReply
  <2>2. Online(h) /\ Online(x)
    BY <1>8, <1>12 DEF Joined, Online, Keeps
  <2>3. cursor <= MaxLog + 1 /\ \A y \in IdsIn(down, Olds) : y >= cursor
    BY <1>1, <2>2, WhereTheServerIs
  <2>4. OldAnswer(r, cursor, to)
    BY <1>2, <2>3, ReplyIs
  <2>5. /\ down \in Seq(Command) /\ Lined(down) /\ \A y \in IdsIn(down, Flags) : y <= log.first
        /\ \A z \in Cuts(x) : z <= log.first /\ \A y \in IdsIn(down, Olds) : y >= z
    BY <1>10 DEF Consistent, Flying
  <2>. HIDE DEF r, to
  <2> DEFINE u == down \o r
  <2>6. /\ u \in Seq(Command) /\ Lined(u)
        /\ \A y \in IdsIn(u, Flags) : y <= log.first
        /\ \A y \in IdsIn(u, Olds) : y \in IdsIn(down, Olds) \/ y >= log.first
        /\ IdsIn(u, Rejects) = IdsIn(down, Rejects)
        /\ FromScratch(log, cursor, down) => FromScratch(log, to, u)
        /\ \A b \in Int : \A n : Continues(log, cursor, down, b, n) => Continues(log, to, u, b, n)
    BY <1>2, <2>3, <2>4, <2>5, Answered
  <2>. HIDE DEF u
  <2>7. Flying(x, log, u)
    <3>1. ASSUME NEW z \in Cuts(x) PROVE z <= log.first /\ \A y \in IdsIn(u, Olds) : y >= z
      <4>1. z \in Int
        <5>1. IdsIn(u, Olds) \subseteq Int
          BY <2>6 DEF IdsIn, Command
        <5>2. \A b, n : Holds(x, b, n) => b \in Int /\ Cuts(x) \subseteq {b}
          BY CutsAre, OldestRow
        <5>3. Bare(x) => Cuts(x) = {}
          BY DEF Bare, Cuts
        <5>4. QED
          BY <1>10, <3>1, <5>2, <5>3 DEF Consistent, Fed
      <4>2. z <= log.first /\ log.first \in Int
        BY <1>2, <2>5 DEF LogOK
      <4>3. ASSUME NEW y \in IdsIn(u, Olds) PROVE y >= z
        <5>1. y \in Int
          BY <2>6, <4>3 DEF IdsIn, Command
        <5>2. CASE y \in IdsIn(down, Olds)
          BY <2>5, <5>2
        <5>3. CASE y >= log.first
          BY <4>1, <4>2, <5>1, <5>3
        <5>4. QED
          BY <2>6, <4>3, <5>2, <5>3
      <4>4. QED
        BY <4>2, <4>3
    <3>2. QED
      BY <2>2, <2>6, <3>1 DEF Flying
  <2>8. Fed(x, log, to, u)
    <3>1. CASE Bare(x)
      <4>1. FromScratch(log, cursor, down) \/ \E b, n : Holds(x, b, n)
        BY <1>10, <2>2 DEF Consistent, Fed
      <4>2. FromScratch(log, cursor, down)
        BY <3>1, <4>1 DEF Holds, Bare
      <4>3. QED
        BY <2>6, <3>1, <4>2 DEF Fed
    <3>2. ASSUME NEW b, NEW n, Holds(x, b, n), n <= log.last, Feeds(log, cursor, down, b, n)
          PROVE  Fed(x, log, to, u)
      <4>1. b \in Int
        BY <3>2, OldestRow
      <4>2. Feeds(log, to, u, b, n)
        BY <2>6, <3>2, <4>1 DEF Feeds
      <4>3. QED
        BY <3>2, <4>2 DEF Fed
    <3>3. QED
      BY <1>10, <2>2, <3>1, <3>2 DEF Consistent, Fed
  <2>9. Consistent(x, log, to, u)
    BY <1>2, <1>10, <2>4, <2>7, <2>8 DEF Consistent, OldAnswer
  <2>10. QED
    BY <1>6, <1>9, <2>1, <2>9 DEF IInv, u
<1>13. QED
  BY <1>11, <1>12

-----------------------------------------------------------------------------
(* The log grows, or is truncated *)

\* What the client is told is the last thing on its way.
LEMMA Told ==
    ASSUME IInv, NEW l, LogOK(l), log.first <= l.first, NEW c \in Command,
           c \notin Olds, c \notin Rejects, c \in Flags => c.id <= l.first,
           Online(h) /\ c \in News => \A y \in IdsIn(down, News) : y < c.id,
           NEW x, Keeps(h, x), NEW s, s = IF Joined THEN Append(down, c) ELSE down
    PROVE  /\ Flying(x, l, s)
           /\ Online(h) => \A kind : IdsIn(s, kind) =
                                 IdsIn(down, kind) \cup (IF c \in kind THEN {c.id} ELSE {})
<1>1. /\ down \in Seq(Command) /\ Lined(down) /\ (Online(h) \/ down = <<>>) /\ LogOK(log)
      /\ \A y \in IdsIn(down, Flags) : y <= log.first
      /\ \A z \in Cuts(h) : z <= log.first /\ \A y \in IdsIn(down, Olds) : y >= z
  BY DEF IInv, Consistent, Flying
<1>2. log.first \in Int /\ l.first \in Int
  BY <1>1 DEF LogOK
<1>3. \A z \in Cuts(h) : z \in Int
  <2>1. \A b, n : Holds(h, b, n) => b \in Int /\ Cuts(h) \subseteq {b}
    BY CutsAre, OldestRow
  <2>2. Bare(h) => Cuts(h) = {}
    BY DEF Bare, Cuts
  <2>3. QED
    BY <2>1, <2>2 DEF IInv, Consistent, Fed
<1>4. \A z \in Cuts(x) : z <= l.first /\ \A y \in IdsIn(down, Olds) : y >= z
  <2>1. Cuts(x) = Cuts(h)
    BY DEF Keeps
  <2>2. QED
    BY <1>1, <1>2, <1>3, <2>1
<1>5. \A y \in IdsIn(down, Flags) : y <= l.first
  <2>1. \A y \in IdsIn(down, Flags) : y \in Int
    BY <1>1 DEF IdsIn, Command
  <2>2. QED
    BY <1>1, <1>2, <2>1
<1>6. Online(x) <=> Online(h)
  BY DEF Keeps, Online
<1>7. CASE ~Joined
  <2>1. s = down /\ ~Online(h)
    BY <1>7 DEF Joined, Online
  <2>2. QED
    BY <1>1, <1>4, <1>5, <1>6, <2>1 DEF Flying
<1>8. CASE Joined
  <2>1. s = down \o <<c>> /\ Online(h)
    BY <1>1, <1>8 DEF Joined, Online
  <2>2. /\ <<c>> \in Seq(Command) /\ Lined(<<c>>)
        /\ \A kind : IdsIn(<<c>>, kind) = IF c \in kind THEN {c.id} ELSE {}
    BY OneCommand, Zenon
  <2>3. IdsIn(<<c>>, Olds) = {} /\ IdsIn(<<c>>, Rejects) = {}
    BY <2>2
  <2>4. \A y \in IdsIn(down, News), z \in IdsIn(<<c>>, News) : y < z
    BY <2>1, <2>2
  <2>5. LinesUp(down, <<c>>)
    BY <2>3, <2>4 DEF LinesUp
  <2>6. /\ down \o <<c>> \in Seq(Command) /\ Lined(down \o <<c>>)
        /\ \A kind : IdsIn(down \o <<c>>, kind) = IdsIn(down, kind) \cup IdsIn(<<c>>, kind)
    BY <1>1, <2>2, <2>5, Concatenated, ZenonT(30)
  <2>7. IdsIn(s, Olds) = IdsIn(down, Olds) /\ s \in Seq(Command) /\ Lined(s)
    BY <2>1, <2>3, <2>6
  <2>8. \A kind : IdsIn(s, kind) = IdsIn(down, kind) \cup (IF c \in kind THEN {c.id} ELSE {})
    BY <2>1, <2>2, <2>6
  <2>9. \A y \in IdsIn(s, Flags) : y <= l.first
    BY <1>5, <2>8
  <2>10. QED
    BY <1>4, <1>6, <2>1, <2>7, <2>8, <2>9 DEF Flying
<1>9. QED
  BY <1>7, <1>8

\* A message is posted.
LEMMA Posted ==
    ASSUME IInv, log.last < MaxLog, NEW c \in Command, c \in News, c \notin Flags,
           c.id = log.last + 1, NEW x, Keeps(h, x), NEW l, l = [log EXCEPT !.last = @ + 1],
           NEW s, s = IF Joined THEN Append(down, c) ELSE down
    PROVE  Consistent(x, l, cursor, s)
<1>1. /\ LogOK(log) /\ cursor \in Int /\ log.last \in Int /\ log.first \in Int /\ MaxLog \in Int
  BY HistoryAssumption DEF IInv, Consistent, LogOK
<1>2. l.first = log.first /\ l.last = log.last + 1 /\ l.cut = log.cut /\ LogOK(l)
  BY <1>1 DEF LogOK
<1>3. c \notin Olds /\ c \notin Rejects /\ c \notin Jumps
  BY DEF Olds, Rejects, News, Jumps, Flags
<1>4. ASSUME Online(h) PROVE \A y \in IdsIn(down, News) : y < log.last + 1
  <2>1. \E a \in Int : IdsIn(down, News) = a..log.last
    <3>1. \A b, n : Holds(h, b, n) => n \in Int
      BY OldestRow
    <3>2. ASSUME NEW b, NEW n, Holds(h, b, n), Continues(log, cursor, down, b, n)
          PROVE  \E a \in Int : IdsIn(down, News) = a..log.last
      <4>1. PICK a \in (n + 1)..(log.last + 1) : IdsIn(down, News) = a..log.last
        BY <3>2 DEF Continues
      <4>2. n \in Int
        BY <3>1, <3>2
      <4>3. a \in Int
        BY <1>1, <4>2
      <4>4. QED
        BY <4>1, <4>3
    <3>3. ASSUME FromScratch(log, cursor, down) PROVE \E a \in Int : IdsIn(down, News) = a..log.last
      <4>1. PICK a \in 1..(log.last + 1) : IdsIn(down, News) = a..log.last
        BY <3>3 DEF FromScratch
      <4>2. QED
        BY <4>1
    <3>4. QED
      BY <1>4, <3>2, <3>3 DEF IInv, Consistent, Fed, Feeds
  <2>2. QED
    BY <1>1, <2>1
<1>5. log.first <= l.first
  BY <1>1, <1>2
<1>6. /\ Flying(x, l, s)
      /\ Online(h) => \A kind : IdsIn(s, kind) =
                            IdsIn(down, kind) \cup (IF c \in kind THEN {c.id} ELSE {})
  <2>1. Online(h) /\ c \in News => \A y \in IdsIn(down, News) : y < c.id
    BY <1>4
  <2>2. LogOK(l) /\ c \notin Olds /\ c \notin Rejects /\ (c \in Flags => c.id <= l.first)
    BY <1>2, <1>3
  <2>3. QED
    BY <1>5, <2>1, <2>2, Told, Zenon
<1>7. Online(h) => /\ IdsIn(s, Olds) = IdsIn(down, Olds)
                   /\ IdsIn(s, Rejects) = IdsIn(down, Rejects)
                   /\ IdsIn(s, Jumps) = IdsIn(down, Jumps)
                   /\ IdsIn(s, News) = IdsIn(down, News) \cup {log.last + 1}
  BY <1>3, <1>6
<1>8. ASSUME NEW a \in Int, a <= log.last + 1
      PROVE  a <= l.last + 1 /\ (a..log.last) \cup {log.last + 1} = a..l.last
  BY <1>1, <1>2, <1>8
<1>9. ASSUME Online(h), FromScratch(log, cursor, down) PROVE FromScratch(l, cursor, s)
  <2>1. PICK a \in 1..(log.last + 1) : /\ IdsIn(down, News) = a..log.last
                                      /\ cursor <= a /\ IdsIn(down, Olds) = cursor..(a - 1)
    BY <1>9 DEF FromScratch
  <2>2. a \in Int /\ 1 <= a /\ a <= log.last + 1
    BY <1>1
  <2>3. a \in 1..(l.last + 1) /\ IdsIn(s, News) = a..l.last
    <3>1. a <= l.last + 1 /\ (a..log.last) \cup {log.last + 1} = a..l.last
      BY <1>8, <2>2
    <3>2. IdsIn(s, News) = (a..log.last) \cup {log.last + 1}
      BY <1>7, <1>9, <2>1
    <3>3. a \in 1..(l.last + 1)
      BY <1>1, <1>2, <2>2, <3>1
    <3>4. QED
      BY <3>1, <3>2, <3>3
  <2>4. QED
    BY <1>7, <1>9, <2>1, <2>3 DEF FromScratch
<1>10. ASSUME Online(h), NEW b, NEW n \in Int, Continues(log, cursor, down, b, n)
       PROVE  Continues(l, cursor, s, b, n)
  <2>1. PICK a \in (n + 1)..(log.last + 1) :
           IdsIn(down, News) = a..log.last /\ (a = n + 1 \/ a \in IdsIn(down, Jumps))
    BY <1>10 DEF Continues
  <2>2. a \in Int /\ n + 1 <= a /\ a <= log.last + 1
    BY <1>1
  <2>3. a \in (n + 1)..(l.last + 1) /\ IdsIn(s, News) = a..l.last
    <3>1. a <= l.last + 1 /\ (a..log.last) \cup {log.last + 1} = a..l.last
      BY <1>8, <2>2
    <3>2. IdsIn(s, News) = (a..log.last) \cup {log.last + 1}
      BY <1>7, <1>10, <2>1
    <3>3. a \in (n + 1)..(l.last + 1)
      BY <1>1, <1>2, <2>2, <3>1
    <3>4. QED
      BY <3>1, <3>2, <3>3
  <2>4. QED
    BY <1>2, <1>7, <1>10, <2>1, <2>3 DEF Continues
<1>11. ASSUME Online(h), NEW b, NEW n \in Int, Feeds(log, cursor, down, b, n)
       PROVE  Feeds(l, cursor, s, b, n)
  BY <1>7, <1>9, <1>10, <1>11 DEF Feeds
<1>12. Online(x) => Online(h)
  BY DEF Keeps, Online
<1>13. Fed(x, l, cursor, s)
  <2>1. CASE Bare(h) /\ (Online(h) => FromScratch(log, cursor, down))
    BY <1>9, <1>12, <2>1 DEF Fed, Keeps
  <2>2. ASSUME NEW b, NEW n, Holds(h, b, n), n <= log.last,
               Online(h) => Feeds(log, cursor, down, b, n)
        PROVE  Fed(x, l, cursor, s)
    <3>1. n \in Int
      BY <2>2, OldestRow
    <3>2. n <= l.last
      BY <1>1, <1>2, <2>2, <3>1
    <3>3. Online(x) => Feeds(l, cursor, s, b, n)
      BY <1>11, <1>12, <2>2, <3>1
    <3>4. QED
      BY <2>2, <3>2, <3>3 DEF Fed, Keeps
  <2>3. QED
    BY <2>1, <2>2 DEF IInv, Consistent, Fed
<1>14. QED
  BY <1>1, <1>2, <1>6, <1>13 DEF Consistent, Keeps

LEMMA PostKeeps == IInv /\ Post => IInv'
<1>1. SUFFICES ASSUME IInv, Post PROVE IInv'
  OBVIOUS
<1>2. PICK c : c = [op |-> "NEWMSG", id |-> log.last + 1, trunc |-> FALSE]
  OBVIOUS
<1>3. /\ log.last < MaxLog /\ log' = [log EXCEPT !.last = @ + 1] /\ h' = h /\ cursor' = cursor
      /\ down' = IF Joined THEN Append(down, c) ELSE down
  BY <1>1, <1>2 DEF Post, Tell
<1>4. log.last \in Nat /\ MaxLog \in Nat
  BY <1>1, HistoryAssumption DEF IInv, Consistent, LogOK
<1>5. c \in Command /\ c \in News /\ c \notin Flags /\ c.id = log.last + 1
  BY <1>2, <1>3, <1>4 DEF Command, News, Flags, Ops
<1>6. Keeps(h, h)
  BY <1>1, AsideAlone, AsideKeeps DEF IInv, Consistent
<1>7. Consistent(h, log', cursor, down')
  BY <1>1, <1>3, <1>5, <1>6, Posted
<1>8. QED
  BY <1>3, <1>7 DEF IInv

LEMMA PostOwnKeeps == IInv /\ PostOwn => IInv'
<1>1. SUFFICES ASSUME IInv, PostOwn PROVE IInv'
  OBVIOUS
<1>2. PICK c : c = [op |-> "NEWMSGID", id |-> log.last + 1, trunc |-> FALSE]
  OBVIOUS
<1>3. /\ log.last < MaxLog /\ log' = [log EXCEPT !.last = @ + 1] /\ cursor' = cursor
      /\ h' = [h EXCEPT !.keys = @ \cup {log.last + 1}]
      /\ down' = IF Joined THEN Append(down, c) ELSE down
  BY <1>1, <1>2 DEF PostOwn, Tell
<1>4. log.last \in Nat /\ MaxLog \in Nat /\ Chat(h)
  BY <1>1, HistoryAssumption DEF IInv, Consistent, LogOK
<1>5. c \in Command /\ c \in News /\ c \notin Flags /\ c.id = log.last + 1
  BY <1>2, <1>3, <1>4 DEF Command, News, Flags, Ops
<1>6. PICK x : x = h'
  OBVIOUS
<1>7. /\ x = [f \in Fields |-> x[f]] /\ \A f \in Fields \ {"keys"} : x[f] = h[f]
      /\ x.keys = h.keys \cup {log.last + 1}
  BY <1>3, <1>4, <1>6 DEF Chat, Fields
<1>8. x.keys = 1..MaxLog
  <2>1. h.keys = 1..MaxLog /\ log.last + 1 \in 1..MaxLog
    BY <1>3, <1>4 DEF Chat
  <2>2. QED
    BY <1>7, <2>1
<1>9. Aside(h, x)
  BY <1>4, <1>7, <1>8 DEF Aside, Chat, SameWindow, Fields
<1>10. Keeps(h, x)
  BY <1>9, AsideKeeps
<1>11. Consistent(x, log', cursor, down')
  BY <1>1, <1>3, <1>5, <1>10, Posted
<1>12. QED
  BY <1>3, <1>6, <1>11 DEF IInv

LEMMA TruncateKeeps == ASSUME NEW t \in 1..MaxLog PROVE IInv /\ Truncate(t) => IInv'
<1>1. SUFFICES ASSUME IInv, Truncate(t) PROVE IInv'
  OBVIOUS
<1>2. PICK c : c = [op |-> "TRUNCATE", id |-> t, trunc |-> TRUE]
  OBVIOUS
<1>3. PICK l, s : l = log' /\ s = down'
  OBVIOUS
<1>4. /\ t \in log.first..log.last /\ l = [log EXCEPT !.first = t, !.cut = TRUE]
      /\ h' = h /\ cursor' = cursor /\ s = IF Joined THEN Append(down, c) ELSE down
  BY <1>1, <1>2, <1>3 DEF Truncate, Tell
<1>5. /\ LogOK(log) /\ log.first \in Nat /\ log.last \in Nat /\ MaxLog \in Nat /\ Chat(h)
      /\ cursor \in Int
  BY <1>1, HistoryAssumption DEF IInv, Consistent, LogOK
<1>6. l.first = t /\ l.last = log.last /\ log.first <= l.first /\ LogOK(l)
  <2>1. l.first = t /\ l.last = log.last /\ l.cut = TRUE
    BY <1>4, <1>5 DEF LogOK
  <2>2. l \in [first : Nat, last : Nat, cut : BOOLEAN]
    <3>1. l = [first |-> t, last |-> log.last, cut |-> TRUE]
      BY <1>4, <1>5 DEF LogOK
    <3>2. t \in Nat /\ log.last \in Nat /\ TRUE \in BOOLEAN
      BY <1>4, <1>5
    <3>3. QED
      BY <3>1, <3>2
  <2>3. QED
    BY <1>4, <1>5, <2>1, <2>2 DEF LogOK
<1>7. /\ c \in Command /\ c \notin Olds /\ c \notin News /\ c \notin Rejects /\ c \notin Jumps
      /\ c.id = t
  BY <1>2, <1>5 DEF Command, Olds, News, Rejects, Jumps, Ops
<1>8. Keeps(h, h)
  BY <1>5, AsideAlone, AsideKeeps
<1>9. c.id <= l.first
  BY <1>6, <1>7
<1>10. /\ Flying(h, l, s)
       /\ Online(h) => \A kind : IdsIn(s, kind) =
                             IdsIn(down, kind) \cup (IF c \in kind THEN {c.id} ELSE {})
  BY <1>1, <1>4, <1>6, <1>7, <1>8, <1>9, Told
<1>11. Online(h) => /\ IdsIn(s, Olds) = IdsIn(down, Olds) /\ IdsIn(s, News) = IdsIn(down, News)
                    /\ IdsIn(s, Jumps) = IdsIn(down, Jumps)
                    /\ IdsIn(s, Rejects) = IdsIn(down, Rejects)
  BY <1>7, <1>10
<1>12. ASSUME Online(h), FromScratch(log, cursor, down) PROVE FromScratch(l, cursor, s)
  BY <1>6, <1>11, <1>12 DEF FromScratch
<1>13. ASSUME Online(h), NEW b, NEW n, Continues(log, cursor, down, b, n)
       PROVE  Continues(l, cursor, s, b, n)
  <2>1. cursor <= log.first => cursor <= l.first
    BY <1>5, <1>6
  <2>2. QED
    BY <1>6, <1>11, <1>13, <2>1 DEF Continues
<1>14. Fed(h, l, cursor, s)
  BY <1>1, <1>6, <1>11, <1>12, <1>13 DEF IInv, Consistent, Fed, Feeds
<1>15. Consistent(h, l, cursor, s)
  BY <1>5, <1>6, <1>10, <1>14 DEF Consistent
<1>16. QED
  BY <1>3, <1>4, <1>15 DEF IInv

-----------------------------------------------------------------------------
(* Login *)

\* The oldest row is read anew, and whether there are rows below the window follows from it.
Greeting(k) == [k EXCEPT !.mOnlineState = "Joining", !.mServerOldHistCbEnabled = FALSE,
                         !.mOldestKnownMsgId = DbOldestId(k)]
More(k)     == [k EXCEPT !.mHasMoreHistoryInDb = HasMoreHistoryInDb(k)]

Rejoined(k, z) ==
    /\ Chat(z) /\ z.low = k.low /\ z.ram = k.ram /\ z.db = k.db
    /\ z.mOnlineState = "Joining" /\ z.mOldestKnownMsgId = DbOldestId(k)
    /\ z.mHasMoreHistoryInDb <=> HasMoreHistoryInDb(z)

LEMMA LoggedIn ==
    ASSUME NEW k, Chat(k), NEW info, info = Greeting(k), NEW z
    PROVE  Chat(info) /\ \A y : Aside(info, y) /\ z = More(y) => Rejoined(k, z)
<1>1. PICK o : o = DbOldestId(k)
  OBVIOUS
<1>2. info = [k EXCEPT !.mOnlineState = "Joining", !.mServerOldHistCbEnabled = FALSE,
                       !.mOldestKnownMsgId = o]
  BY <1>1 DEF Greeting
<1>3. /\ info = [f \in Fields |-> info[f]]
      /\ info.mOnlineState = "Joining" /\ info.mOldestKnownMsgId = o
      /\ \A f \in Fields \ {"mOnlineState", "mServerOldHistCbEnabled", "mOldestKnownMsgId"} :
            info[f] = k[f]
  BY <1>2 DEF Chat, Fields
<1>4. Chat(info) /\ info.low = k.low /\ info.ram = k.ram /\ info.db = k.db
  BY <1>3 DEF Chat, Fields
<1>5. ASSUME NEW y, Aside(info, y), z = More(y)
      PROVE  /\ Chat(z) /\ z.low = k.low /\ z.ram = k.ram /\ z.db = k.db
             /\ z.mOnlineState = "Joining" /\ z.mOldestKnownMsgId = o
             /\ z.mHasMoreHistoryInDb <=> HasMoreHistoryInDb(z)
  <2>1. PICK more : more = HasMoreHistoryInDb(y)
    OBVIOUS
  <2>2. more \in BOOLEAN
    BY <2>1, Zenon DEF HasMoreHistoryInDb
  <2>3. z = [y EXCEPT !.mHasMoreHistoryInDb = more] /\ y = [f \in Fields |-> y[f]]
    BY <1>5, <2>1 DEF Aside, Chat, More
  <2>4. /\ z = [f \in Fields |-> z[f]]
        /\ \A f \in Fields \ {"mHasMoreHistoryInDb"} : z[f] = y[f]
    BY <2>3 DEF Fields
  <2>5. z.mHasMoreHistoryInDb = more
    BY <2>3, Zenon DEF Fields
  <2>6. /\ z.low = y.low /\ z.ram = y.ram /\ z.db = y.db /\ z.mOnlineState = y.mOnlineState
        /\ z.mOldestKnownMsgId = y.mOldestKnownMsgId /\ z.mNextHistFetchIdx = y.mNextHistFetchIdx
        /\ z.marshalled = y.marshalled /\ z.keys = y.keys
        /\ z.mDecryptNewHaltedAt = y.mDecryptNewHaltedAt
        /\ z.mDecryptOldHaltedAt = y.mDecryptOldHaltedAt
    BY <2>4 DEF Fields
  <2>7. z.mHasMoreHistoryInDb \in BOOLEAN
    BY <2>2, <2>5, Zenon
  <2>8. Chat(z)
    BY <1>5, <2>4, <2>6, <2>7 DEF Aside, Chat
  <2>9. HasMoreHistoryInDb(z) <=> HasMoreHistoryInDb(y)
    BY <2>6 DEF HasMoreHistoryInDb
  <2>10. z.mHasMoreHistoryInDb <=> HasMoreHistoryInDb(z)
    BY <2>1, <2>5, <2>9, Zenon
  <2>11. QED
    BY <1>3, <1>4, <1>5, <2>6, <2>8, <2>10 DEF Aside, SameWindow
<1>6. QED
  BY <1>1, <1>4, <1>5 DEF Rejoined

\* Logging in changes nothing of what the chat has.
LEMMA LoggedInKeeps ==
    ASSUME NEW k, NEW z, Rejoined(k, z)
    PROVE  /\ Bare(k) => Bare(z)
           /\ \A b, n : Holds(k, b, n) => Holds(z, b, n) /\ Last(k.ram).id = n
           /\ Cuts(z) = Cuts(k)
<1>0. /\ Chat(z) /\ z.low = k.low /\ z.ram = k.ram /\ z.db = k.db
      /\ z.mOldestKnownMsgId = DbOldestId(k) /\ (z.mHasMoreHistoryInDb <=> HasMoreHistoryInDb(z))
  BY DEF Rejoined
<1>1. Cuts(z) = Cuts(k)
  BY <1>0 DEF Cuts
<1>2. ASSUME Bare(k) PROVE Bare(z)
  <2>1. z.ram = <<>> /\ z.db = <<>> /\ DbOldestId(k) = NoId
    BY <1>0, <1>2 DEF Bare, DbOldestId
  <2>2. ~HasMoreHistoryInDb(z)
    BY <1>0, <2>1 DEF HasMoreHistoryInDb
  <2>3. z.mHasMoreHistoryInDb \in BOOLEAN
    BY <1>0 DEF Chat
  <2>4. z.mHasMoreHistoryInDb = FALSE
    BY <1>0, <2>2, <2>3, Zenon
  <2>5. QED
    BY <1>0, <2>1, <2>4 DEF Bare
<1>3. ASSUME NEW b, NEW n, Holds(k, b, n) PROVE Holds(z, b, n) /\ Last(k.ram).id = n
  <2>1. PICK lo, d : Numbered(k, lo, d) /\ b = lo + d /\ n = HighNum(k) + d
    BY <1>3 DEF Holds
  <2>2. /\ lo \in Int /\ d \in Int /\ k.low \in Int /\ lo <= k.low /\ b \in Int /\ b # 0
        /\ DbOldestId(k) = b
    <3>1. DbOldestId(k) = b /\ b \in 1..MaxLog
      BY <1>3, OldestRow
    <3>2. lo \in Int /\ d \in Int /\ k.low \in Int /\ lo <= k.low
      BY <1>3, <2>1 DEF Numbered, Holds, Chat
    <3>3. QED
      BY <3>1, <3>2
  <2>3. k.ram \in Seq(Message) /\ k.ram # <<>>
    BY <1>3 DEF Holds, Chat
  <2>4. Len(k.ram) \in Nat \ {0} /\ Head(k.ram) = k.ram[1] /\ Last(k.ram) = k.ram[Len(k.ram)]
    BY <2>3 DEF Last
  <2>5. \A i \in 1..Len(k.ram) : k.ram[i].id = k.low + i - 1 + d
    BY <2>1 DEF Numbered
  <2>6. Head(k.ram).id = k.low + d
    <3>1. 1 \in 1..Len(k.ram) /\ k.low + 1 - 1 + d = k.low + d
      BY <2>2, <2>4
    <3>2. QED
      BY <2>4, <2>5, <3>1
  <2>7. Last(k.ram).id = n
    <3>1. Len(k.ram) \in 1..Len(k.ram) /\ k.low + Len(k.ram) - 1 + d = n
      BY <2>1, <2>2, <2>4 DEF HighNum
    <3>2. QED
      BY <2>4, <2>5, <3>1
  <2>8. HasMoreHistoryInDb(z) <=> lo < k.low
    <3>1. HasMoreHistoryInDb(z) <=> k.low + d # b
      BY <1>0, <2>2, <2>3, <2>6 DEF HasMoreHistoryInDb, NoId
    <3>2. QED
      BY <2>1, <2>2, <3>1
  <2>9. HighNum(z) = HighNum(k)
    BY <1>0 DEF HighNum
  <2>10. Numbered(z, lo, d)
    BY <1>0, <2>1, <2>2, <2>8, <2>9 DEF Numbered
  <2>11. QED
    BY <1>0, <1>3, <2>1, <2>7, <2>9, <2>10 DEF Holds
<1>4. QED
  BY <1>1, <1>2, <1>3

LEMMA LoginKeeps == IInv /\ Login => IInv'
<1>1. SUFFICES ASSUME IInv, Login PROVE IInv'
  OBVIOUS
<1>2. /\ Chat(h) /\ LogOK(log) /\ cursor \in Int /\ log' = log /\ ~Online(h)
      /\ log.last \in Nat /\ log.first \in Nat /\ log.last <= MaxLog
  BY <1>1 DEF IInv, Consistent, Login, Online, LogOK
<1>3. down = <<>>
  BY <1>1, <1>2 DEF IInv, Consistent, Flying
<1>4. PICK info : info = Greeting(h)
  OBVIOUS
<1>5. PICK x : x = h'
  OBVIOUS
<1>6. Chat(info)
  BY <1>2, <1>4, LoggedIn
<1> DEFINE join == RequestHistoryFromServer(info, initialHistoryFetchCount)
           range == [info EXCEPT !.mServerFetchState = "FetchingNew"]
           oldest == DbOldestId(h)
<1>7. info.mOldestKnownMsgId = oldest
  BY <1>2, <1>4 DEF Chat, Fields, Greeting
<1>8. \E y \in {join, range} : x = More(y)
  BY <1>1, <1>4, <1>5 DEF Login, Greeting, More
<1>9. Aside(info, join)
  BY <1>6, RequestAside
<1>10. Aside(info, range)
  <2>1. /\ range = [f \in Fields |-> range[f]]
        /\ \A f \in Fields \ {"mServerFetchState"} : range[f] = info[f]
    BY <1>6 DEF Chat, Fields
  <2>2. QED
    BY <1>6, <2>1 DEF Aside, Chat, SameWindow, Fields
<1>11. PICK y : Aside(info, y) /\ x = More(y)
  BY <1>8, <1>9, <1>10
<1>12. Rejoined(h, x)
  BY <1>2, <1>4, <1>11, LoggedIn
<1>13. /\ Bare(h) => Bare(x)
       /\ \A b, n : Holds(h, b, n) => Holds(x, b, n) /\ Last(h.ram).id = n
       /\ Cuts(x) = Cuts(h)
  BY <1>12, LoggedInKeeps
<1>14. Online(x) /\ Chat(x)
  BY <1>12 DEF Online, Rejoined
<1>15. \A z \in Cuts(x) : z <= log.first
  BY <1>1, <1>13 DEF IInv, Consistent, Flying
<1>16. ASSUME NEW cur \in Int, NEW s \in Seq(Command), Lined(s),
              \A z \in IdsIn(s, Flags) : z <= log.first,
              \A z \in Cuts(x) : \A e \in IdsIn(s, Olds) : e >= z,
              Fed(x, log, cur, s), cursor' = cur, down' = s
       PROVE  IInv'
  <2>1. Flying(x, log, s)
    BY <1>14, <1>15, <1>16 DEF Flying
  <2>2. Consistent(x, log, cur, s)
    BY <1>2, <1>14, <1>16, <2>1 DEF Consistent
  <2>3. QED
    BY <1>2, <1>5, <1>16, <2>2 DEF IInv
<1>17. Bare(h) \/ \E b, n : Holds(h, b, n) /\ n <= log.last
  BY <1>1 DEF IInv, Consistent, Fed
<1>18. CASE oldest = NoId /\ HistReply(log.last + 1, initialHistoryFetchCount)
  <2>0. PICK from \in Int : from = log.last + 1
    BY <1>2
  <2> DEFINE r == Append(Older(from, initialHistoryFetchCount), Sent("HISTDONE", NoId))
             to == from - Len(Older(from, initialHistoryFetchCount))
  <2>1. OldAnswer(r, from, to)
    <3>1. from <= MaxLog + 1 /\ initialHistoryFetchCount \in Nat
      BY <1>2, <2>0, HistoryAssumption
    <3>2. QED
      BY <1>2, <3>1, ReplyIs
  <2>2. down' = <<>> \o r /\ cursor' = to
    <3>1. HistReply(from, initialHistoryFetchCount)
      BY <1>18, <2>0
    <3>2. QED
      BY <1>3, <3>1 DEF HistReply
  <2>. HIDE DEF r, to
  <2>3. down' = r
    BY <2>1, <2>2 DEF OldAnswer
  <2>4. Bare(x)
    <3>1. \A b, n : Holds(h, b, n) => oldest # NoId
      BY OldestRow DEF NoId
    <3>2. QED
      BY <1>13, <1>17, <1>18, <3>1
  <2>5. Cuts(x) = {}
    BY <2>4 DEF Bare, Cuts
  <2>6. FromScratch(log, to, r)
    <3>1. log.last + 1 \in 1..(log.last + 1) /\ (log.last + 1)..log.last = {}
      BY <1>2
    <3>2. QED
      BY <2>0, <2>1, <3>1 DEF OldAnswer, FromScratch
  <2>7. Fed(x, log, to, r)
    BY <2>4, <2>6 DEF Fed
  <2>8. \A z \in IdsIn(r, Flags) : z <= log.first
    BY <1>2, <2>1 DEF OldAnswer
  <2>9. QED
    BY <1>16, <2>1, <2>2, <2>3, <2>5, <2>7, <2>8 DEF OldAnswer
<1>19. ASSUME oldest # NoId PROVE \E b, n : Holds(h, b, n) /\ n <= log.last
  BY <1>17, <1>19 DEF Bare, DbOldestId
<1>20. CASE oldest # NoId /\ down' = RangeReply(oldest, Last(h.ram).id) /\ cursor' = oldest
  <2>1. PICK b, n : Holds(h, b, n) /\ n <= log.last
    BY <1>19, <1>20
  <2>2. /\ b \in Int /\ n \in Int /\ 0 <= n /\ oldest = b
    <3>1. oldest = b /\ b \in 1..MaxLog /\ n \in 1..MaxLog
      BY <2>1, OldestRow
    <3>2. QED
      BY <3>1
  <2>3. Last(h.ram).id = n /\ Holds(x, b, n)
    BY <1>13, <2>1
  <2>4. PICK s : s = RangeReply(b, n)
    OBVIOUS
  <2>5. down' = s /\ cursor' = b
    BY <1>20, <2>2, <2>3, <2>4
  <2>6. PICK a \in (n + 1)..(log.last + 1) : NewAnswer(s, a) /\ (a = n + 1 \/ a \in IdsIn(s, Jumps))
    BY <1>2, <2>1, <2>2, <2>4, RangeReplyIs
  <2>7. Continues(log, b, s, b, n)
    <3>1. b <= b /\ b..(b - 1) = {}
      BY <2>2
    <3>2. QED
      BY <2>6, <3>1 DEF Continues, NewAnswer
  <2>8. Fed(x, log, b, s)
    BY <2>1, <2>3, <2>6, <2>7 DEF Fed, Feeds, NewAnswer
  <2>9. \A z \in IdsIn(s, Flags) : z <= log.first
    BY <1>2, <2>6 DEF NewAnswer
  <2>10. QED
    BY <1>16, <2>2, <2>5, <2>6, <2>8, <2>9 DEF NewAnswer
<1>21. CASE oldest # NoId /\ down' = <<Sent("REJECT", NoId)>> /\ cursor' = log.last + 1
  <2>1. PICK b, n : Holds(h, b, n) /\ n <= log.last
    BY <1>19, <1>21
  <2>2. PICK c : c = Sent("REJECT", NoId)
    OBVIOUS
  <2>3. c \in Command /\ c.op = "REJECT"
    <3>1. 0 \in 0..MaxLog /\ NoId = 0
      BY HistoryAssumption DEF NoId
    <3>2. QED
      BY <1>2, <2>2, <3>1, SentIs DEF Ops
  <2>4. c \in Rejects /\ c \notin Olds /\ c \notin News /\ c \notin Flags
    BY <2>3 DEF Rejects, Olds, News, Flags, Command
  <2>5. PICK s : s = <<c>>
    OBVIOUS
  <2>6. /\ s \in Seq(Command) /\ Lined(s)
        /\ \A kind : IdsIn(s, kind) = IF c \in kind THEN {c.id} ELSE {}
    BY <2>3, <2>5, OneCommand, Zenon
  <2>7. /\ IdsIn(s, Olds) = {} /\ IdsIn(s, News) = {} /\ IdsIn(s, Flags) = {}
        /\ IdsIn(s, Rejects) # {}
    BY <2>4, <2>6
  <2>8. FromScratch(log, log.last + 1, s)
    <3>1. /\ log.last + 1 \in 1..(log.last + 1) /\ (log.last + 1)..log.last = {}
          /\ log.last + 1 <= log.last + 1 /\ (log.last + 1)..(log.last + 1 - 1) = {}
      BY <1>2
    <3>2. QED
      BY <2>7, <3>1 DEF FromScratch
  <2>9. Fed(x, log, log.last + 1, s)
    BY <1>13, <2>1, <2>7, <2>8 DEF Fed, Feeds
  <2>10. log.last + 1 \in Int /\ down' = s
    BY <1>2, <1>21, <2>2, <2>5
  <2>11. QED
    BY <1>16, <1>21, <2>6, <2>7, <2>9, <2>10
<1>22. QED
  BY <1>1, <1>4, <1>7, <1>18, <1>20, <1>21 DEF Login, Greeting

-----------------------------------------------------------------------------
(* The theorems *)

LEMMA ReceiveKeeps == IInv /\ Receive => IInv'
BY NewmsgKeeps, OldmsgKeeps, NewmsgidKeeps, RecvTruncateKeeps, HistdoneKeeps, RejectKeeps
   DEF Receive

LEMMA StepConsistent == IInv /\ [Next]_vars => IInv'
<1>1. SUFFICES ASSUME IInv, [Next]_vars PROVE IInv'
  OBVIOUS
<1>2. CASE UNCHANGED vars
  BY <1>1, <1>2 DEF vars, IInv
<1>3. CASE Next
  BY <1>1, <1>3, PostKeeps, PostOwnKeeps, TruncateKeeps, LoginKeeps, ReceiveKeeps, NoKeyAwaited,
     OpenKeeps, CloseKeeps, LoadKeeps, RunMarshalledKeeps, DisconnectKeeps, RestartKeeps
     DEF Next
<1>4. QED
  BY <1>1, <1>2, <1>3

\* What the four properties ask for follows from what the chat has.
LEMMA ConsistentIsRight ==
    IInv => WindowContiguous /\ RowsFollowWindow /\ HasMoreIsRight /\ TruncatedGone
<1>1. SUFFICES ASSUME IInv PROVE WindowContiguous /\ RowsFollowWindow /\ HasMoreIsRight /\ TruncatedGone
  OBVIOUS
<1>2. CASE Bare(h)
  <2>1. h.ram = <<>> /\ DOMAIN h.db = {} /\ ~h.mHasMoreHistoryInDb
    BY <1>2 DEF Bare
  <2>2. WindowContiguous
    <3>1. 1..(Len(h.ram) - 1) = {}
      BY <2>1
    <3>2. QED
      BY <3>1 DEF WindowContiguous
  <2>3. RowsFollowWindow /\ HasMoreIsRight /\ TruncatedGone
    BY <2>1 DEF RowsFollowWindow, RowsDense, HasMoreIsRight, TruncatedGone
  <2>4. QED
    BY <2>2, <2>3
<1>3. ASSUME NEW b, NEW n, Holds(h, b, n)
      PROVE  WindowContiguous /\ RowsFollowWindow /\ HasMoreIsRight /\ TruncatedGone
  <2>1. PICK lo, d : Numbered(h, lo, d)
    BY <1>3 DEF Holds
  <2> DEFINE top == HighNum(h)
  <2>2. /\ lo \in Int /\ d \in Int /\ h.low \in Int /\ lo <= h.low /\ lo <= top
        /\ Len(h.ram) \in Nat /\ top = h.low + Len(h.ram) - 1 /\ top \in Int
    BY <1>3, <2>1 DEF Numbered, Holds, Chat, HighNum
  <2>3. /\ DOMAIN h.db = lo..top
        /\ \A i \in lo..top : h.db[i].id = i + d /\ (h.db[i].trunc => i = lo)
        /\ \A i \in 1..Len(h.ram) : h.ram[i].id = h.low + i - 1 + d
        /\ h.mHasMoreHistoryInDb <=> lo < h.low
    BY <2>1 DEF Numbered
  <2>. HIDE DEF top
  <2>4. WindowContiguous
    <3>1. ASSUME NEW i \in 1..(Len(h.ram) - 1) PROVE h.ram[i + 1].id = h.ram[i].id + 1
      <4>1. i \in Int /\ i \in 1..Len(h.ram) /\ i + 1 \in 1..Len(h.ram)
        BY <2>2
      <4>2. h.ram[i].id = h.low + i - 1 + d /\ h.ram[i + 1].id = h.low + (i + 1) - 1 + d
        BY <2>3, <4>1
      <4>3. QED
        BY <2>2, <4>1, <4>2, SMTT(30)
    <3>2. QED
      BY <3>1 DEF WindowContiguous
  <2>5. RowsFollowWindow
    <3>1. RowsDense
      BY <2>2, <2>3 DEF RowsDense
    <3>2. ASSUME NEW i \in lo..top, InRam(h, i) PROVE h.db[i].id = At(h, i).id
      <4>1. i \in Int /\ i - h.low + 1 \in 1..Len(h.ram)
        BY <2>2, <3>2, SMTT(30) DEF InRam, HighNum
      <4>2. At(h, i).id = h.low + (i - h.low + 1) - 1 + d
        BY <2>3, <4>1 DEF At
      <4>3. QED
        BY <2>2, <2>3, <4>1, <4>2
    <3>3. QED
      BY <2>3, <3>1, <3>2 DEF RowsFollowWindow
  <2>6. HasMoreIsRight
    <3>1. (\E i \in lo..top : i < h.low) <=> lo < h.low
      <4>1. lo \in lo..top
        BY <2>2
      <4>2. QED
        BY <2>2, <4>1
    <3>2. QED
      BY <2>3, <3>1 DEF HasMoreIsRight
  <2>7. TruncatedGone
    BY <2>2, <2>3, SMTT(30) DEF TruncatedGone
  <2>8. QED
    BY <2>4, <2>5, <2>6, <2>7
<1>4. QED
  BY <1>1, <1>2, <1>3 DEF IInv, Consistent, Fed

LEMMA AlwaysConsistent == KeysKnown /\ Spec => []IInv
<1>1. KeysKnown /\ Init => IInv
  BY InitConsistent
<1>2. IInv /\ [Next]_vars => IInv'
  BY StepConsistent
<1>3. QED
  BY <1>1, <1>2, PTL DEF Spec

\* Whatever connections and processes end in the middle of a fetch, and however the log grows
\* and is truncated meanwhile, no message is missing in the window or there twice.
\* (push_back, push_forward, initChat, handleTruncate)
THEOREM WindowContiguousHolds == KeysKnown /\ Spec => []WindowContiguous
BY AlwaysConsistent, ConsistentIsRight, PTL

\* The rows of the history table have no gap, and have the indexes that the messages have in
\* RAM: what addMessage asserts. (msgIncomingAfterDecrypt, deleteOlderMessagesBefore)
THEOREM RowsFollowWindowHolds == KeysKnown /\ Spec => []RowsFollowWindow
BY AlwaysConsistent, ConsistentIsRight, PTL

\* The application is given rows as long as there are any below the window, and the server is
\* asked only when there are none. (mHasMoreHistoryInDb, getHistoryFromDbOrServer)
THEOREM HasMoreIsRightHolds == KeysKnown /\ Spec => []HasMoreIsRight
BY AlwaysConsistent, ConsistentIsRight, PTL

\* A truncation that the client knows leaves no older row, through restarts and reconnections.
\* (handleTruncate, truncateHistory)
THEOREM TruncatedGoneHolds == KeysKnown /\ Spec => []TruncatedGone
BY AlwaysConsistent, ConsistentIsRight, PTL
=============================================================================
