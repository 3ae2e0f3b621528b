------------------------- MODULE ChatdSending_proof -------------------------
(* Proofs about ChatdSending: the types of the client, of the server and of what is between   *)
(* them, that a message which a commit made durable is not lost, and that the table sending   *)
(* holds the queue.                                                                           *)
EXTENDS ChatdSending, FiniteSetTheorems, SequenceTheorems, WellFoundedInduction, TLAPS

-----------------------------------------------------------------------------
(* The inductive invariant *)

\* the server has written message n
InLog(n) == n \in DOMAIN created /\ Contains(srv[created[n].chat].log, n)

\* n is a message of this chat
Of(c, n) == n \in DOMAIN created /\ created[n].chat = c

\* A command to the server names a message of its chat; a public chat has no keys of messages.
CmdsOf(c) == {m \in Cmds : /\ m.op = "NEWMSG" => Of(c, m.n)
                           /\ c \in Public => m.key = 0}

\* A message has the row of its number.  An edit has a row of its own, unless it was a message
\* that is in the log.
ItemsOf(c) == {i \in Items : /\ IsNew(i) => i.row = i.n /\ Of(c, i.n)
                             /\ IsEdit(i) => i.row > MaxMsgs \/ InLog(i.row)
                             /\ i.keyCmd <= 0
                             /\ c \in Public => i.key = 0 /\ i.keyCmd = 0
                             /\ i.cmd \in CmdsOf(c)}

\* a queue with its table and its iterator
QueuesOf(c) == {Q \in [q : Seq(ItemsOf(c)), rows : Seq(ItemsOf(c)), manual : Seq(ItemsOf(c)),
                       next : Nat] : Q.next <= Len(Q.q) + 1}

\* the messages of a history
Hist == [n : Numbering, data : Contents, upd : Nat, key : Int]
HistOf(c) == {h \in Hist : h.n \in DOMAIN created /\ (c \in Public => h.key = 0)}

\* what the disk has of a chat
ImagesOf(c) == [sending : Seq(ItemsOf(c)), manual : Seq(ItemsOf(c)), history : Seq(HistOf(c))]
Images == {d \in [Chats -> [sending : Seq(Items), manual : Seq(Items), history : Seq(Hist)]] :
              \A c \in Chats : d[c] \in ImagesOf(c)}

\* a lambda on its way to the main thread
Marshalled == {m \in [chat : Chats, item : Items] : m.item \in ItemsOf(m.chat)}

AppInv ==
    /\ created \in Seq([chat : Chats, ts : Nat]) /\ Len(created) <= MaxMsgs
    /\ now \in Nat /\ \A n \in DOMAIN created : created[n].ts <= now
    /\ edits \in 0..MaxEdits
    /\ calls \in Seq(Marshalled)

QueueInv ==
    /\ mSending \in [Chats -> Seq(Items)] /\ mNextUnsent \in [Chats -> Nat]
    /\ dbSending \in [Chats -> Seq(Items)] /\ dbManual \in [Chats -> Seq(Items)]
    /\ \A c \in Chats : Queue(c) \in QueuesOf(c)

\* an encryption that waits: a key that it will announce is a local one
Pends == [on : BOOLEAN, row : Nat, cmd : Cmds]
PendsOf(c) == {p \in Pends : p.cmd \in CmdsOf(c) /\ p.cmd.key <= 0}

CryptInv ==
    /\ mEncryptionHalted \in [Chats -> BOOLEAN]
    /\ pending \in [Chats -> Pends] /\ \A c \in Chats : pending[c] \in PendsOf(c)
    /\ mCurrentKey \in [Chats -> KeyRecs]
    /\ mUnconfirmedKeys \in [Chats -> Seq(KeyRecs)]
    /\ keyCount \in Nat

ClientInv ==
    /\ mOnlineState \in [Chats -> {"Offline", "Joining", "Online"}]
    /\ pubkeys \in [Chats -> SUBSET Memberships] /\ mUsers \in [Chats -> Memberships]

HistInv == history \in [Chats -> Seq(Hist)] /\ \A c \in Chats : history[c] \in Seq(HistOf(c))

DiskInv == disk \in Images

\* what the server has of a message, and of a chat
Copies  == [data : Contents, upd : Nat, key : Int]
Servers == [log : Seq(Numbering), users : Memberships, write : BOOLEAN, joined : BOOLEAN,
            keyxids : SUBSET [xid : Int, id : Nat], keyCount : Nat, refused : SUBSET Int]

ServerInv ==
    /\ srv \in [Chats -> Servers]
    /\ srvMsg \in [Numbering -> Copies]
    /\ \A c \in Chats : \A k \in DOMAIN srv[c].log :
           Of(c, srv[c].log[k]) /\ (c \in Public => srvMsg[srv[c].log[k]].key = 0)
    /\ budget \in [drops : Nat, crashes : Nat, users : Nat, privs : Nat, foreign : 0..MaxForeign]

\* the commands to the server, and those from it
Up == [op : {"JOIN"}, chat : Chats, n : 0..MaxMsgs]
      \cup [op : {"NEWKEY"}, chat : Chats \ Public, key : Int, rcp : Int]
      \cup {m \in [op : {"NONE", "NEWMSG", "MSGUPD", "MSGUPDX"}, chat : Chats, cmd : Cmds] :
               m.op = m.cmd.op /\ m.cmd \in CmdsOf(m.chat)}
Down == [op : {"USERS"}, chat : Chats, users : Memberships]
        \cup {m \in [op : {"NEWMSG"}, chat : Chats, n : Numbering, msg : Copies] :
                 m.n \in DOMAIN created /\ (m.chat \in Public => m.msg.key = 0)}
        \cup [op : {"HISTDONE"}, chat : Chats]
        \cup [op : {"NEWKEYID"}, chat : Chats \ Public, keyid : Nat]
        \cup {m \in [op : {"MSGID", "NEWMSGID"}, n : Numbering] : InLog(m.n)}
        \cup [op : {"MSGUPD"}, chat : Chats, n : Numbering, msg : Copies]
        \cup [op : {"REJECT"}, chat : Chats, of : {"NEWKEY"}]
        \cup [op : {"REJECT"}, chat : Chats, of : {"NEWMSG"}, n : Numbering]
        \cup [op : {"REJECT"}, chat : Chats, of : {"MSGUPD"}, n : 0..MaxMsgs, x : BOOLEAN,
              reason : {0, 2}]

NetInv == conn \in {"down", "up"} /\ c2s \in Seq(Up) /\ s2c \in Seq(Down)

TypesInv == /\ AppInv /\ QueueInv /\ CryptInv /\ ClientInv /\ HistInv /\ DiskInv
            /\ ServerInv /\ NetInv

\* What is on disk is in the tables, or the server has it.
KeptInv == \A c \in Chats, n \in DOMAIN created :
              Stored(disk, c, n) => Stored(Database, c, n) \/ InLog(n)

--------------------------------------------------------------------------
(* Sequences *)

\* A set of naturals that is not empty has a least element.
LEMMA LeastNat ==
    ASSUME NEW T \in SUBSET Nat, T # {}
    PROVE  \E x \in T : \A y \in T : ~(y < x)
<1>1. IsWellFoundedOn(OpToRel(<, Nat), Nat)
  BY NatLessThanWellFounded, ZenonT(30)
<1>2. \E x \in T : \A y \in T : <<y, x>> \notin OpToRel(<, Nat)
  BY <1>1, WFMin, ZenonT(30)
<1>3. QED
  BY <1>2 DEF OpToRel

\* Induction up to a number.
LEMMA UpTo ==
    ASSUME NEW m \in Nat, NEW T, 0 \in T, \A n \in Nat : n \in T /\ n < m => n + 1 \in T
    PROVE  \A n \in 0..m : n \in T
<1> DEFINE bad == {n \in 0..m : n \notin T}
<1>1. SUFFICES ASSUME bad # {} PROVE FALSE
  OBVIOUS
<1>2. PICK x \in bad : \A y \in bad : ~(y < x)
  <2>1. bad \in SUBSET Nat
    OBVIOUS
  <2>. HIDE DEF bad
  <2>2. QED
    BY <1>1, <2>1, LeastNat
<1>3. x \in Nat /\ x # 0 /\ x <= m /\ x \notin T
  BY <1>2
<1>4. x - 1 \in 0..m /\ x - 1 \notin bad
  BY <1>2, <1>3
<1>5. x - 1 \in Nat /\ x - 1 \in T /\ x - 1 < m
  BY <1>3, <1>4
<1>6. (x - 1) + 1 = x
  BY <1>3
<1>7. QED
  BY <1>3, <1>5, <1>6

\* The greatest of a set of naturals with a bound.
LEMMA MaxIn ==
    ASSUME NEW n \in Nat, NEW S \in SUBSET (0..n), S # {}
    PROVE  Max(S) \in S
<1> DEFINE T == {k \in Nat : \E i \in S : k = n - i}
<1>1. \A i \in S : i \in Nat /\ n - i \in Nat
  OBVIOUS
<1>2. T \in SUBSET Nat /\ T # {}
  BY <1>1
<1>3. PICK k \in T : \A y \in T : ~(y < k)
  <2>. HIDE DEF T
  <2>1. QED
    BY <1>2, LeastNat
<1>4. PICK i \in S : k = n - i
  BY <1>3
<1>5. ASSUME NEW y \in S PROVE i >= y
  <2>1. n - y \in T
    BY <1>1
  <2>2. ~(n - y < n - i)
    BY <1>3, <1>4, <2>1
  <2>3. QED
    BY <1>1, <2>2
<1>6. \E x \in S : \A y \in S : x >= y
  BY <1>5
<1>7. QED
  BY <1>6 DEF Max

\* The least of a set of naturals.
LEMMA MinIn ==
    ASSUME NEW S \in SUBSET Nat, S # {}
    PROVE  Min(S) \in S /\ \A y \in S : Min(S) <= y
<1>1. PICK x \in S : \A y \in S : ~(y < x)
  BY LeastNat
<1>2. \A y \in S : x <= y
  BY <1>1
<1>3. QED
  BY <1>2 DEF Min

\* The recursion that Kept is defined by.
KeptUpTo(f, seq, positions, m) ==
    f = [n \in 0..m |-> IF n = 0 THEN <<>>
                        ELSE IF n \in positions THEN Append(f[n - 1], seq[n]) ELSE f[n - 1]]

\* The recursion that Kept is defined by has a solution.
LEMMA KeptRecursion ==
    ASSUME NEW seq, NEW positions, Len(seq) \in Nat
    PROVE  \E f : KeptUpTo(f, seq, positions, Len(seq)) /\ Kept(seq, positions) = f[Len(seq)]
<1> DEFINE T == {m \in Nat : \E f : KeptUpTo(f, seq, positions, m)}
<1>1. KeptUpTo([n \in 0..0 |-> <<>>], seq, positions, 0)
  BY DEF KeptUpTo
<1>2. 0 \in T
  BY <1>1
<1>3. ASSUME NEW m \in Nat, m \in T PROVE m + 1 \in T
  <2>1. PICK f : KeptUpTo(f, seq, positions, m)
    BY <1>3
  <2> DEFINE last == IF m + 1 \in positions THEN Append(f[m], seq[m + 1]) ELSE f[m]
             g    == [n \in 0..(m + 1) |-> IF n <= m THEN f[n] ELSE last]
  <2>2. \A n \in 0..m : f[n] = IF n = 0 THEN <<>>
                               ELSE IF n \in positions THEN Append(f[n - 1], seq[n])
                               ELSE f[n - 1]
    BY <2>1 DEF KeptUpTo
  <2>3. \A n \in 0..(m + 1) : g[n] = IF n = 0 THEN <<>>
                                     ELSE IF n \in positions THEN Append(g[n - 1], seq[n])
                                     ELSE g[n - 1]
    BY <2>2
  <2>4. KeptUpTo(g, seq, positions, m + 1)
    BY <2>3 DEF KeptUpTo
  <2>5. QED
    BY <2>4
<1>4. Len(seq) \in 0..Len(seq)
  OBVIOUS
<1>. HIDE DEF T
<1>5. Len(seq) \in T
  BY <1>2, <1>3, <1>4, UpTo
<1>6. \E f : KeptUpTo(f, seq, positions, Len(seq))
  BY <1>5 DEF T
<1> DEFINE h == CHOOSE f : KeptUpTo(f, seq, positions, Len(seq))
<1>7. KeptUpTo(h, seq, positions, Len(seq))
  BY <1>6
<1>8. Kept(seq, positions) = h[Len(seq)]
  BY DEF Kept, KeptUpTo
<1>9. QED
  BY <1>7, <1>8

\* What is kept is from these positions, and all of it is kept.
LEMMA KeptType ==
    ASSUME NEW S, NEW seq \in Seq(S), NEW positions
    PROVE  /\ Kept(seq, positions) \in Seq(S)
           /\ \A k \in DOMAIN seq \cap positions :
                  \E j \in DOMAIN Kept(seq, positions) : Kept(seq, positions)[j] = seq[k]
<1>1. Len(seq) \in Nat /\ DOMAIN seq = 1..Len(seq)
  OBVIOUS
<1>2. PICK f : KeptUpTo(f, seq, positions, Len(seq)) /\ Kept(seq, positions) = f[Len(seq)]
  BY <1>1, KeptRecursion
<1>3. \A n \in 0..Len(seq) : f[n] = IF n = 0 THEN <<>>
                                    ELSE IF n \in positions THEN Append(f[n - 1], seq[n])
                                    ELSE f[n - 1]
  BY <1>2 DEF KeptUpTo
<1> DEFINE T == {n \in Nat : /\ f[n] \in Seq(S)
                             /\ \A k \in (1..n) \cap positions :
                                    \E j \in DOMAIN f[n] : f[n][j] = seq[k]}
<1>4. 0 \in T
  <2>1. f[0] = <<>> /\ 1..0 = {}
    BY <1>1, <1>3
  <2>2. f[0] \in Seq(S) /\ \A k \in (1..0) \cap positions : \E j \in DOMAIN f[0] : f[0][j] = seq[k]
    BY <2>1
  <2>3. QED
    BY <2>2
<1>5. ASSUME NEW m \in Nat, m \in T, m < Len(seq) PROVE m + 1 \in T
  <2> DEFINE n == m + 1
  <2>1. /\ n \in 0..Len(seq) /\ n # 0 /\ n - 1 = m /\ n \in DOMAIN seq /\ seq[n] \in S
        /\ f[m] \in Seq(S) /\ \A k \in 1..n : k = n \/ k \in 1..m
    BY <1>1, <1>5
  <2>. HIDE DEF n
  <2>2. f[n] = IF n \in positions THEN Append(f[m], seq[n]) ELSE f[m]
    BY <1>3, <2>1
  <2>3. \A k \in (1..m) \cap positions : \E j \in DOMAIN f[m] : f[m][j] = seq[k]
    BY <1>5
  <2>4. CASE n \in positions
    <3> DEFINE g == Append(f[m], seq[n])
    <3>1. /\ g \in Seq(S) /\ \A j \in DOMAIN f[m] : j \in DOMAIN g /\ g[j] = f[m][j]
          /\ Len(f[m]) + 1 \in DOMAIN g /\ g[Len(f[m]) + 1] = seq[n]
      BY <2>1, SMTT(30)
    <3>2. f[n] = g
      BY <2>2, <2>4
    <3>. HIDE DEF g
    <3>3. \A k \in (1..n) \cap positions : \E j \in DOMAIN g : g[j] = seq[k]
      BY <2>1, <2>3, <3>1
    <3>4. QED
      BY <2>1, <3>1, <3>2, <3>3 DEF n
  <2>5. CASE n \notin positions
    <3>1. f[n] = f[m] /\ \A k \in (1..n) \cap positions : k \in (1..m) \cap positions
      BY <2>1, <2>2, <2>5
    <3>2. QED
      BY <2>1, <2>3, <3>1 DEF n
  <2>6. QED
    BY <2>4, <2>5
<1>6. Len(seq) \in T
  <2>. HIDE DEF T
  <2>1. Len(seq) \in 0..Len(seq)
    BY <1>1
  <2>2. QED
    BY <1>1, <1>4, <1>5, <2>1, UpTo
<1>7. QED
  BY <1>1, <1>2, <1>6

\* Up to a position, what is kept is what is not erased.
LEMMA KeptLength ==
    ASSUME NEW S, NEW seq \in Seq(S), NEW E \in SUBSET (DOMAIN seq), NEW p \in 0..Len(seq)
    PROVE  p - Cardinality({e \in E : e <= p}) \in 0..Len(Kept(seq, DOMAIN seq \ E))
<1> DEFINE positions == DOMAIN seq \ E
           Below(n) == {e \in E : e <= n}
<1>1. Len(seq) \in Nat /\ DOMAIN seq = 1..Len(seq) /\ p \in Nat
  OBVIOUS
<1>2. PICK f : KeptUpTo(f, seq, positions, Len(seq)) /\ Kept(seq, positions) = f[Len(seq)]
  BY <1>1, KeptRecursion
<1>3. \A n \in 0..Len(seq) : f[n] = IF n = 0 THEN <<>>
                                    ELSE IF n \in positions THEN Append(f[n - 1], seq[n])
                                    ELSE f[n - 1]
  BY <1>2 DEF KeptUpTo
<1>4. \A m \in Nat : m < Len(seq) =>
          /\ m + 1 \in DOMAIN seq /\ seq[m + 1] \in S
          /\ f[m + 1] = IF m + 1 \in E THEN f[m] ELSE Append(f[m], seq[m + 1])
  <2>1. SUFFICES ASSUME NEW m \in Nat, m < Len(seq)
                 PROVE  /\ m + 1 \in DOMAIN seq /\ seq[m + 1] \in S
                        /\ f[m + 1] = IF m + 1 \in E THEN f[m] ELSE Append(f[m], seq[m + 1])
    OBVIOUS
  <2>2. m + 1 \in 0..Len(seq) /\ m + 1 # 0 /\ (m + 1) - 1 = m /\ m + 1 \in DOMAIN seq
    BY <1>1, <2>1
  <2>3. QED
    BY <1>3, <2>2
<1>5. f[0] = <<>>
  BY <1>1, <1>3
<1> DEFINE T == {n \in Nat : /\ f[n] \in Seq(S) /\ Below(n) \in SUBSET (1..n)
                             /\ IsFiniteSet(Below(n)) /\ Cardinality(Below(n)) \in Nat
                             /\ Len(f[n]) = n - Cardinality(Below(n))}
<1>6. 0 \in T
  <2>1. Below(0) = {}
    BY <1>1
  <2>2. IsFiniteSet({}) /\ Cardinality({}) = 0
    BY FS_EmptySet
  <2>3. f[0] \in Seq(S) /\ Len(f[0]) = 0
    BY <1>5
  <2>4. {} \in SUBSET (1..0) /\ 0 \in Nat /\ 0 = 0 - 0
    OBVIOUS
  <2>5. /\ f[0] \in Seq(S) /\ Below(0) \in SUBSET (1..0)
        /\ IsFiniteSet(Below(0)) /\ Cardinality(Below(0)) \in Nat
        /\ Len(f[0]) = 0 - Cardinality(Below(0))
    <3>. HIDE DEF Below
    <3>1. QED
      BY <2>1, <2>2, <2>3, <2>4
  <2>6. QED
    BY <2>4, <2>5
<1>7. ASSUME NEW m \in Nat, m \in T, m < Len(seq) PROVE m + 1 \in T
  <2>1. /\ f[m] \in Seq(S) /\ IsFiniteSet(Below(m)) /\ Cardinality(Below(m)) \in Nat
        /\ Len(f[m]) = m - Cardinality(Below(m)) /\ Below(m) \in SUBSET (1..m)
    BY <1>7
  <2>2. CASE m + 1 \in E
    <3>1. Below(m + 1) = Below(m) \cup {m + 1} /\ m + 1 \notin Below(m)
      BY <1>1, <2>2
    <3>2. f[m + 1] = f[m]
      BY <1>4, <1>7, <2>2
    <3>3. /\ IsFiniteSet(Below(m) \cup {m + 1})
          /\ Cardinality(Below(m) \cup {m + 1}) = Cardinality(Below(m)) + 1
      <4>1. m + 1 \notin Below(m)
        BY <3>1
      <4>. HIDE DEF Below
      <4>2. QED
        BY <2>1, <4>1, FS_AddElement
    <3>4. /\ f[m + 1] \in Seq(S) /\ Below(m + 1) \in SUBSET (1..(m + 1))
          /\ IsFiniteSet(Below(m + 1)) /\ Cardinality(Below(m + 1)) \in Nat
          /\ Len(f[m + 1]) = (m + 1) - Cardinality(Below(m + 1))
      <4>. HIDE DEF Below, T
      <4>1. Cardinality(Below(m + 1)) = Cardinality(Below(m)) + 1
        BY <3>1, <3>3, Zenon
      <4>2. IsFiniteSet(Below(m + 1))
        BY <3>1, <3>3, Zenon
      <4>3. Below(m + 1) \in SUBSET (1..(m + 1))
        BY <2>1, <3>1
      <4>4. QED
        BY <2>1, <3>2, <4>1, <4>2, <4>3
    <3>5. QED
      BY <3>4
  <2>3. CASE m + 1 \notin E
    <3>1. Below(m + 1) = Below(m)
      BY <1>1, <2>3
    <3>2. f[m + 1] = Append(f[m], seq[m + 1]) /\ seq[m + 1] \in S
      BY <1>4, <1>7, <2>3
    <3>. HIDE DEF Below
    <3>3. f[m + 1] \in Seq(S) /\ Len(f[m + 1]) = Len(f[m]) + 1
      BY <2>1, <3>2
    <3>4. Len(f[m + 1]) = (m + 1) - Cardinality(Below(m + 1))
      BY <2>1, <3>1, <3>3
    <3>5. Below(m + 1) \in SUBSET (1..(m + 1))
      BY <2>1, <3>1
    <3>6. QED
      BY <2>1, <3>1, <3>3, <3>4, <3>5
  <2>4. QED
    BY <2>2, <2>3
<1>8. \A n \in 0..Len(seq) : n \in T
  <2>. HIDE DEF T
  <2>1. QED
    BY <1>1, <1>6, <1>7, UpTo
<1> DEFINE G == {n \in Nat : p + n <= Len(seq) => Len(f[p]) <= Len(f[p + n])}
<1>. HIDE DEF Below
<1>9. p \in T /\ \A n \in 0..Len(seq) : f[n] \in Seq(S) /\ Len(f[n]) \in Nat
  BY <1>8
<1>10. 0 \in G
  BY <1>1, <1>9
<1>11. ASSUME NEW n \in Nat, n \in G PROVE n + 1 \in G
  <2>1. CASE p + n < Len(seq)
    <3>1. /\ Len(f[p]) <= Len(f[p + n]) /\ p + n \in Nat /\ p + (n + 1) = (p + n) + 1
          /\ p + n \in 0..Len(seq)
      BY <1>1, <1>11, <2>1
    <3>2. f[p + n] \in Seq(S) /\ Len(f[p + n]) \in Nat
      BY <1>9, <3>1
    <3>3. Len(f[p + n]) <= Len(f[(p + n) + 1])
      <4>1. /\ seq[(p + n) + 1] \in S
            /\ f[(p + n) + 1] = IF (p + n) + 1 \in E THEN f[p + n]
                                ELSE Append(f[p + n], seq[(p + n) + 1])
        BY <1>4, <2>1, <3>1
      <4>2. Len(Append(f[p + n], seq[(p + n) + 1])) = Len(f[p + n]) + 1
        BY <3>2, <4>1
      <4>3. QED
        BY <3>2, <4>1, <4>2
    <3>4. Len(f[(p + n) + 1]) \in Nat /\ Len(f[p]) \in Nat
      BY <1>1, <1>9, <2>1, <3>1
    <3>5. QED
      BY <3>1, <3>2, <3>3, <3>4, SMTT(30)
  <2>2. CASE ~(p + n < Len(seq))
    <3>1. ~(p + (n + 1) <= Len(seq))
      BY <1>1, <2>2
    <3>2. QED
      BY <3>1
  <2>3. QED
    BY <2>1, <2>2
<1>12. Len(seq) - p \in Nat /\ Len(seq) - p \in 0..(Len(seq) - p) /\ p + (Len(seq) - p) = Len(seq)
  BY <1>1
<1>13. Len(seq) - p \in G
  <2>. HIDE DEF G
  <2>1. QED
    BY <1>10, <1>11, <1>12, UpTo
<1>14. Len(f[p]) <= Len(f[Len(seq)])
  BY <1>12, <1>13
<1>15. Len(f[p]) = p - Cardinality(Below(p)) /\ Len(f[p]) \in Nat /\ Len(f[Len(seq)]) \in Nat
  BY <1>1, <1>9
<1>16. p - Cardinality(Below(p)) \in 0..Len(Kept(seq, positions))
  BY <1>2, <1>14, <1>15
<1>17. QED
  BY <1>16 DEF Below

\* The recursion that FlattenSeq is defined by.
FlatUpTo(f, seqs, m) == f = [i \in 1..m |-> IF i = 1 THEN seqs[i] ELSE f[i - 1] \o seqs[i]]

\* The commands of several items, one after the other.
LEMMA FlattenType ==
    ASSUME NEW S, NEW seqs \in Seq(Seq(S))
    PROVE  FlattenSeq(seqs) \in Seq(S)
<1> DEFINE n == Len(seqs)
<1>1. n \in Nat /\ \A i \in 1..n : seqs[i] \in Seq(S)
  OBVIOUS
<1>. HIDE DEF n
<1>2. CASE n = 0
  <2>1. seqs = <<>> /\ Len(seqs) = 0
    BY <1>2 DEF n
  <2>2. FlattenSeq(seqs) = seqs
    BY <2>1 DEF FlattenSeq
  <2>3. <<>> \in Seq(S)
    OBVIOUS
  <2>4. QED
    BY <2>1, <2>2, <2>3, Zenon
<1>3. CASE n # 0
  <2> DEFINE T == {m \in Nat : \E f : FlatUpTo(f, seqs, m)}
  <2>1. FlatUpTo([i \in 1..0 |-> <<>>], seqs, 0)
    <3>1. 1..0 = {}
      OBVIOUS
    <3>2. QED
      BY <3>1 DEF FlatUpTo
  <2>2. 0 \in T
    BY <2>1
  <2>3. ASSUME NEW m \in Nat, m \in T PROVE m + 1 \in T
    <3>1. PICK f : FlatUpTo(f, seqs, m)
      BY <2>3
    <3> DEFINE last == IF m = 0 THEN seqs[m + 1] ELSE f[m] \o seqs[m + 1]
               g == [i \in 1..(m + 1) |-> IF i <= m THEN f[i] ELSE last]
    <3>2. \A i \in 1..m : f[i] = IF i = 1 THEN seqs[i] ELSE f[i - 1] \o seqs[i]
      BY <3>1 DEF FlatUpTo
    <3>3. \A i \in 1..(m + 1) : g[i] = IF i = 1 THEN seqs[i] ELSE g[i - 1] \o seqs[i]
      BY <3>2
    <3>4. FlatUpTo(g, seqs, m + 1)
      BY <3>3 DEF FlatUpTo
    <3>. HIDE DEF g
    <3>5. QED
      BY <3>4
  <2>4. n \in T
    <3>1. n \in 0..n
      BY <1>1
    <3>. HIDE DEF T
    <3>2. QED
      BY <1>1, <2>2, <2>3, <3>1, UpTo
  <2>5. \E f : FlatUpTo(f, seqs, n)
    BY <2>4
  <2> DEFINE h == CHOOSE f : FlatUpTo(f, seqs, n)
  <2>6. FlatUpTo(h, seqs, n)
    BY <2>5
  <2>7. FlattenSeq(seqs) = h[n]
    BY <1>1, <1>3 DEF FlattenSeq, FlatUpTo, n
  <2>8. \A i \in 1..n : h[i] = IF i = 1 THEN seqs[i] ELSE h[i - 1] \o seqs[i]
    BY <2>6, ZenonT(30) DEF FlatUpTo
  <2>. HIDE DEF h
  <2> DEFINE G == {m \in Nat : m = 0 \/ h[m] \in Seq(S)}
  <2>9. 0 \in G
    OBVIOUS
  <2>10. ASSUME NEW m \in Nat, m \in G, m < n PROVE m + 1 \in G
    <3>1. m + 1 \in 1..n /\ (m + 1) - 1 = m /\ (m # 0 => m + 1 # 1) /\ (m = 0 => m + 1 = 1)
      BY <1>1, <2>10
    <3>2. seqs[m + 1] \in Seq(S)
      BY <1>1, <3>1
    <3>3. CASE m = 0
      <4>1. h[m + 1] = seqs[m + 1]
        BY <2>8, <3>1, <3>3
      <4>2. QED
        BY <3>2, <4>1
    <3>4. CASE m # 0
      <4>1. h[m + 1] = h[m] \o seqs[m + 1] /\ h[m] \in Seq(S)
        BY <2>8, <2>10, <3>1, <3>4
      <4>2. h[m + 1] \in Seq(S)
        BY <3>2, <4>1
      <4>3. QED
        BY <4>2
    <3>5. QED
      BY <3>3, <3>4
  <2>11. n \in G
    <3>1. n \in 0..n
      BY <1>1
    <3>. HIDE DEF G
    <3>2. QED
      BY <1>1, <2>9, <2>10, <3>1, UpTo
  <2>12. QED
    BY <1>3, <2>7, <2>11
<1>4. QED
  BY <1>2, <1>3

\* A sequence over a set is one over a greater set.
LEMMA SeqGrows ==
    ASSUME NEW A, NEW B, A \subseteq B, NEW s \in Seq(A)
    PROVE  s \in Seq(B)
  OBVIOUS

-----------------------------------------------------------------------------
(* What is of a chat stays of it *)

\* More messages are created, and more are in the logs.
Growing == /\ \A n \in DOMAIN created : n \in DOMAIN created' /\ created'[n] = created[n]
           /\ \A n : InLog(n) => InLog(n)'

\* What an item, a command or a message in the history may name stays there.
LEMMA OfGrows ==
    ASSUME Growing, NEW c
    PROVE  /\ CmdsOf(c) \subseteq CmdsOf(c)' /\ ItemsOf(c) \subseteq ItemsOf(c)'
           /\ HistOf(c) \subseteq HistOf(c)' /\ PendsOf(c) \subseteq PendsOf(c)'
<1>1. \A n : Of(c, n) => Of(c, n)'
  BY DEF Growing, Of
<1>2. CmdsOf(c) \subseteq CmdsOf(c)'
  BY <1>1 DEF CmdsOf
<1>3. ItemsOf(c) \subseteq ItemsOf(c)'
  BY <1>1, <1>2 DEF ItemsOf, Growing
<1>4. HistOf(c) \subseteq HistOf(c)'
  BY DEF HistOf, Growing
<1>5. PendsOf(c) \subseteq PendsOf(c)'
  BY <1>2 DEF PendsOf
<1>6. QED
  BY <1>2, <1>3, <1>4, <1>5

\* So a good queue, and a good image of it, stay good,
LEMMA QueuesGrow ==
    ASSUME Growing, NEW c
    PROVE  QueuesOf(c) \subseteq QueuesOf(c)' /\ ImagesOf(c) \subseteq ImagesOf(c)'
<1>1. /\ Seq(ItemsOf(c)) \subseteq Seq(ItemsOf(c)') /\ Seq(HistOf(c)) \subseteq Seq(HistOf(c)')
  BY OfGrows
<1>2. QueuesOf(c) \subseteq QueuesOf(c)'
  BY <1>1 DEF QueuesOf
<1>3. ImagesOf(c) \subseteq ImagesOf(c)'
  BY <1>1 DEF ImagesOf
<1>4. QED
  BY <1>2, <1>3

\* and so does everything on the way.
LEMMA CommandsGrow ==
    ASSUME Growing
    PROVE  /\ Up \subseteq Up' /\ Down \subseteq Down' /\ Images \subseteq Images'
           /\ Marshalled \subseteq Marshalled'
<1>1. \A c : /\ CmdsOf(c) \subseteq CmdsOf(c)' /\ ImagesOf(c) \subseteq ImagesOf(c)'
             /\ ItemsOf(c) \subseteq ItemsOf(c)'
  BY OfGrows, QueuesGrow
<1>2. Up \subseteq Up'
  BY <1>1 DEF Up
<1>3. Down \subseteq Down'
  BY DEF Down, Growing
<1>4. Images \subseteq Images'
  BY <1>1 DEF Images
<1>5. Marshalled \subseteq Marshalled'
  BY <1>1 DEF Marshalled
<1>6. QED
  BY <1>2, <1>3, <1>4, <1>5

\* Everything but what a step changes stays as it is.
LEMMA AppStays == ASSUME AppInv, Growing, UNCHANGED <<created, edits, calls, now>> PROVE AppInv'
<1>1. Marshalled \subseteq Marshalled'
  BY CommandsGrow
<1>2. calls' \in Seq(Marshalled')
  BY <1>1, SeqGrows DEF AppInv
<1>3. QED
  BY <1>2 DEF AppInv

LEMMA QueueStays ==
    ASSUME QueueInv, Growing, UNCHANGED <<mSending, mNextUnsent, dbSending, dbManual>>
    PROVE  QueueInv'
<1>1. \A c \in Chats : Queue(c)' = Queue(c)
  BY DEF Queue
<1>2. \A c \in Chats : Queue(c)' \in QueuesOf(c)'
  BY <1>1, QueuesGrow DEF QueueInv
<1>3. QED
  BY <1>2 DEF QueueInv

LEMMA CryptStays ==
    ASSUME CryptInv, Growing,
           UNCHANGED <<mEncryptionHalted, pending, mCurrentKey, mUnconfirmedKeys, keyCount>>
    PROVE  CryptInv'
<1>1. \A c : PendsOf(c) \subseteq PendsOf(c)'
  BY OfGrows
<1>2. QED
  BY <1>1 DEF CryptInv

LEMMA HistStays == ASSUME HistInv, Growing, UNCHANGED history PROVE HistInv'
<1>1. \A c : Seq(HistOf(c)) \subseteq Seq(HistOf(c)')
  BY OfGrows
<1>2. QED
  BY <1>1 DEF HistInv

LEMMA NetStays == ASSUME NetInv, Growing, UNCHANGED net PROVE NetInv'
<1>1. Seq(Up) \subseteq Seq(Up') /\ Seq(Down) \subseteq Seq(Down')
  BY CommandsGrow
<1>2. QED
  BY <1>1 DEF NetInv, net

\* The tables are an image of the disk.
LEMMA DatabaseImage == QueueInv /\ HistInv => Database \in Images
<1>. SUFFICES ASSUME QueueInv, HistInv PROVE Database \in Images
  OBVIOUS
<1>1. \A c \in Chats : /\ Database[c] = [sending |-> dbSending[c], manual |-> dbManual[c],
                                         history |-> history[c]]
                       /\ dbSending[c] \in Seq(ItemsOf(c)) /\ dbManual[c] \in Seq(ItemsOf(c))
                       /\ history[c] \in Seq(HistOf(c))
  BY DEF QueueInv, HistInv, Database, Queue, QueuesOf
<1>2. Database \in [Chats -> [sending : Seq(Items), manual : Seq(Items), history : Seq(Hist)]]
  BY DEF QueueInv, HistInv, Database
<1>3. ASSUME NEW c \in Chats PROVE Database[c] \in ImagesOf(c)
  <2>1. [sending |-> dbSending[c], manual |-> dbManual[c], history |-> history[c]] \in ImagesOf(c)
    BY <1>1 DEF ImagesOf
  <2>2. QED
    BY <1>1, <2>1, Zenon
<1>4. QED
  BY <1>2, <1>3, Zenon DEF Images

\* What a step leaves on the disk is a good image.
LEMMA DiskStays ==
    ASSUME DiskInv, Growing, QueueInv', HistInv', disk' = disk \/ disk' = Database'
    PROVE  DiskInv'
<1>1. Database' \in Images'
  <2>1. (QueueInv /\ HistInv => Database \in Images)'
    BY DatabaseImage, PTL
  <2>2. QED
    BY <2>1
<1>2. QED
  BY <1>1, CommandsGrow DEF DiskInv

-----------------------------------------------------------------------------
(* The queue *)

\* What is assumed of the constants.
LEMMA Bounds ==
    /\ MaxMsgs \in Nat /\ MaxEdits \in Nat /\ MaxForeign \in Nat /\ MaxUserChanges \in Nat
    /\ Chats \subseteq Nat /\ IsFiniteSet(Chats) /\ 0 \in Memberships
  BY ChatsAssumption, BoundsAssumption DEF Memberships

\* The iterator stays in the queue when elements are erased.
LEMMA ShiftedIn ==
    ASSUME NEW S, NEW q \in Seq(S), NEW E \in SUBSET (DOMAIN q), NEW next \in Nat, next <= Len(q) + 1
    PROVE  /\ Shifted(next, E) \in Nat
           /\ Shifted(next, E) <= Len(Kept(q, DOMAIN q \ E)) + 1
<1>0. Kept(q, DOMAIN q \ E) \in Seq(S)
  BY KeptType
<1>1. Len(Kept(q, DOMAIN q \ E)) \in Nat /\ Len(q) \in Nat /\ DOMAIN q = 1..Len(q)
  BY <1>0
<1>2. CASE next \in E
  BY <1>1, <1>2 DEF Shifted
<1>3. CASE next \notin E /\ next = 0
  <2>1. {e \in E : e < next} = {}
    BY <1>1, <1>3
  <2>2. Shifted(next, E) = next - Cardinality({})
    BY <1>3, <2>1 DEF Shifted
  <2>3. Cardinality({}) = 0
    BY FS_EmptySet
  <2>4. QED
    BY <1>1, <1>3, <2>2, <2>3
<1>4. CASE next \notin E /\ next # 0
  <2>0. PICK p \in Nat : p = next - 1
    BY <1>4
  <2>0a. PICK B : B = {e \in E : e <= p}
    OBVIOUS
  <2>1. p \in 0..Len(q) /\ next = p + 1
    BY <1>1, <1>4, <2>0
  <2>2. {e \in E : e < next} = B
    BY <1>1, <1>4, <2>0, <2>0a
  <2>3. p - Cardinality(B) \in 0..Len(Kept(q, DOMAIN q \ E))
    BY <2>0a, <2>1, KeptLength
  <2>4. Shifted(next, E) = next - Cardinality(B)
    BY <1>4, <2>2 DEF Shifted
  <2>5. B \in SUBSET (1..Len(q)) /\ IsFiniteSet(1..Len(q))
    BY <1>1, <2>0a, FS_Interval
  <2>6. Cardinality(B) \in Nat
    BY <2>5, FS_Subset, FS_CardinalityType
  <2>7. QED
    BY <1>1, <2>1, <2>3, <2>4, <2>6
<1>5. QED
  BY <1>2, <1>3, <1>4

\* A queue some positions of which are erased is a good one.
LEMMA EraseGood ==
    ASSUME NEW c, NEW Q \in QueuesOf(c), NEW E \in SUBSET (DOMAIN Q.q)
    PROVE  /\ EraseAt(Q, E) \in QueuesOf(c) /\ EraseAt(Q, E).manual = Q.manual
           /\ \A k \in DOMAIN Q.rows :
                  \/ \E e \in E : Q.q[e].row = Q.rows[k].row
                  \/ \E j \in DOMAIN EraseAt(Q, E).rows : EraseAt(Q, E).rows[j] = Q.rows[k]
<1>1. /\ Q.q \in Seq(ItemsOf(c)) /\ Q.rows \in Seq(ItemsOf(c)) /\ Q.manual \in Seq(ItemsOf(c))
      /\ Q.next \in Nat /\ Q.next <= Len(Q.q) + 1
      /\ Q = [q |-> Q.q, rows |-> Q.rows, manual |-> Q.manual, next |-> Q.next]
  BY DEF QueuesOf
<1>2. PICK on : on = {j \in DOMAIN Q.rows : \A e \in E : Q.q[e].row # Q.rows[j].row}
  OBVIOUS
<1>3. PICK q, rows, next : q = Kept(Q.q, DOMAIN Q.q \ E) /\ rows = Kept(Q.rows, on) /\ next = Shifted(Q.next, E)
  OBVIOUS
<1>4. EraseAt(Q, E) = [q |-> q, rows |-> rows, manual |-> Q.manual, next |-> next]
  <2>1. EraseAt(Q, E) = [Q EXCEPT !.q = q, !.rows = rows, !.next = next]
    BY <1>2, <1>3, Zenon DEF EraseAt
  <2>2. QED
    BY <1>1, <2>1
<1>5. q \in Seq(ItemsOf(c)) /\ rows \in Seq(ItemsOf(c))
  BY <1>1, <1>3, KeptType
<1>6. next \in Nat /\ next <= Len(q) + 1
  BY <1>1, <1>3, ShiftedIn
<1>7. \A k \in DOMAIN Q.rows \cap on : \E j \in DOMAIN rows : rows[j] = Q.rows[k]
  BY <1>1, <1>3, KeptType
<1>8. \A k \in DOMAIN Q.rows : k \in on \/ \E e \in E : Q.q[e].row = Q.rows[k].row
  BY <1>2
<1>9. [q |-> q, rows |-> rows, manual |-> Q.manual, next |-> next] \in QueuesOf(c)
  BY <1>1, <1>5, <1>6 DEF QueuesOf
<1>10. QED
  BY <1>4, <1>7, <1>8, <1>9

\* A message of the rows, or one handed back, is either there afterwards or in the log.
HasMsg(rows, manual, n) ==
    \/ \E k \in DOMAIN rows : IsNew(rows[k]) /\ rows[k].n = n
    \/ \E k \in DOMAIN manual : IsNew(manual[k]) /\ manual[k].n = n
Spares(Q, R) == \A n : HasMsg(Q.rows, Q.manual, n) => HasMsg(R.rows, R.manual, n) \/ InLog(n)

\* To spare the messages twice is to spare them.
LEMMA SparesTwice ==
    ASSUME NEW P, NEW Q, NEW R, Spares(P, Q), Spares(Q, R) PROVE Spares(P, R)
  BY DEF Spares

\* What is erased has been answered, or is an edit.
LEMMA EraseSpares ==
    ASSUME NEW c, NEW Q \in QueuesOf(c), NEW E \in SUBSET (DOMAIN Q.q),
           \A e \in E : IsNew(Q.q[e]) => InLog(Q.q[e].n)
    PROVE  Spares(Q, EraseAt(Q, E))
<1> DEFINE R == EraseAt(Q, E)
<1>1. /\ Q.q \in Seq(ItemsOf(c)) /\ Q.rows \in Seq(ItemsOf(c))
  BY DEF QueuesOf
<1>2. ASSUME NEW k \in DOMAIN Q.rows, IsNew(Q.rows[k]), NEW e \in E, Q.q[e].row = Q.rows[k].row
      PROVE  InLog(Q.rows[k].n)
  <2>1. Q.rows[k] \in ItemsOf(c) /\ Q.q[e] \in ItemsOf(c)
    BY <1>1
  <2>2. Q.rows[k].row = Q.rows[k].n /\ Q.rows[k].n \in Numbering
    BY <1>2, <2>1 DEF ItemsOf, Items
  <2>3. CASE IsNew(Q.q[e])
    <3>1. Q.q[e].row = Q.q[e].n
      BY <2>1, <2>3 DEF ItemsOf
    <3>2. QED
      BY <1>2, <2>2, <2>3, <3>1
  <2>4. CASE ~IsNew(Q.q[e])
    <3>1. IsEdit(Q.q[e])
      BY <2>1, <2>4 DEF ItemsOf, Items, IsNew, IsEdit
    <3>2. Q.q[e].row > MaxMsgs \/ InLog(Q.q[e].row)
      BY <2>1, <3>1 DEF ItemsOf
    <3>3. ~(Q.q[e].row > MaxMsgs)
      BY <1>2, <2>2, Bounds DEF Numbering
    <3>4. QED
      BY <1>2, <2>2, <3>2, <3>3
  <2>5. QED
    BY <2>3, <2>4
<1>3. \A k \in DOMAIN Q.rows :
          \/ \E e \in E : Q.q[e].row = Q.rows[k].row
          \/ \E j \in DOMAIN R.rows : R.rows[j] = Q.rows[k]
  BY EraseGood
<1>4. R.manual = Q.manual
  BY EraseGood
<1>. HIDE DEF R
<1>5. QED
  BY <1>2, <1>3, <1>4 DEF Spares, HasMsg, R

\* The front goes to the manual queue with its row.
LEMMA MoveGood ==
    ASSUME NEW c, NEW Q \in QueuesOf(c), Q.q # <<>>
    PROVE  /\ MoveItemToManualSending(Q) \in QueuesOf(c)
           /\ Spares(Q, MoveItemToManualSending(Q))
<1> DEFINE R == EraseAt(Q, {1})
           M == MoveItemToManualSending(Q)
           m == Append(Q.manual, Head(Q.q))
<1>1. /\ Q.q \in Seq(ItemsOf(c)) /\ Q.rows \in Seq(ItemsOf(c)) /\ Q.manual \in Seq(ItemsOf(c))
  BY DEF QueuesOf
<1>2. {1} \in SUBSET (DOMAIN Q.q) /\ Head(Q.q) \in ItemsOf(c) /\ Head(Q.q) = Q.q[1]
  BY <1>1
<1>3. R \in QueuesOf(c)
  BY <1>2, EraseGood
<1>4. \A k \in DOMAIN Q.rows :
          \/ Q.q[1].row = Q.rows[k].row
          \/ \E j \in DOMAIN R.rows : R.rows[j] = Q.rows[k]
  BY <1>2, EraseGood, ZenonT(30)
<1>5. /\ m \in Seq(ItemsOf(c)) /\ \A k \in DOMAIN Q.manual : k \in DOMAIN m /\ m[k] = Q.manual[k]
      /\ Len(Q.manual) + 1 \in DOMAIN m /\ m[Len(Q.manual) + 1] = Head(Q.q)
  BY <1>1, <1>2
<1>. HIDE DEF R, m
<1>6. M = [R EXCEPT !.manual = m]
  BY DEF MoveItemToManualSending, R, m
<1>7. M \in QueuesOf(c) /\ M.rows = R.rows /\ M.manual = m
  BY <1>3, <1>5, <1>6 DEF QueuesOf
<1>. HIDE DEF M
<1>8. ASSUME NEW k \in DOMAIN Q.rows, IsNew(Q.rows[k]), Q.q[1].row = Q.rows[k].row
      PROVE  HasMsg(M.rows, M.manual, Q.rows[k].n) \/ InLog(Q.rows[k].n)
  <2>1. Q.rows[k] \in ItemsOf(c) /\ Q.q[1] \in ItemsOf(c)
    BY <1>1, <1>2
  <2>2. Q.rows[k].row = Q.rows[k].n /\ Q.rows[k].n \in Numbering
    BY <1>8, <2>1 DEF ItemsOf, Items
  <2>3. CASE IsNew(Q.q[1])
    <3>1. Q.q[1].n = Q.rows[k].n
      BY <1>8, <2>1, <2>2, <2>3 DEF ItemsOf
    <3>2. QED
      BY <1>2, <1>5, <1>7, <2>3, <3>1 DEF HasMsg
  <2>4. CASE ~IsNew(Q.q[1])
    <3>1. IsEdit(Q.q[1])
      BY <2>1, <2>4 DEF ItemsOf, Items, IsNew, IsEdit
    <3>2. Q.q[1].row > MaxMsgs \/ InLog(Q.q[1].row)
      BY <2>1, <3>1 DEF ItemsOf
    <3>3. ~(Q.q[1].row > MaxMsgs)
      BY <1>8, <2>2, Bounds DEF Numbering
    <3>4. QED
      BY <1>8, <2>2, <3>2, <3>3
  <2>5. QED
    BY <2>3, <2>4
<1>9. Spares(Q, M)
  BY <1>4, <1>5, <1>7, <1>8 DEF Spares, HasMsg
<1>10. QED
  BY <1>7, <1>9 DEF M

\* To move the iterator past the front leaves a good queue.
LEMMA PassGood ==
    ASSUME NEW c, NEW Q \in QueuesOf(c), Q.q # <<>>
    PROVE  /\ PassFront(Q) \in QueuesOf(c) /\ PassFront(Q).q = Q.q
           /\ PassFront(Q).rows = Q.rows /\ PassFront(Q).manual = Q.manual
<1>1. Q.q \in Seq(ItemsOf(c)) /\ Len(Q.q) \in Nat /\ Len(Q.q) >= 1
  BY DEF QueuesOf
<1>2. QED
  BY <1>1, SMTT(30) DEF PassFront, QueuesOf

\* The front is handed back, or the queue is left alone.
LEMMA RejectGood ==
    ASSUME NEW c, NEW Q \in QueuesOf(c), NEW n, NEW x
    PROVE  RejectFront(Q, n, x) \in QueuesOf(c) /\ Spares(Q, RejectFront(Q, n, x))
<1>1. CASE Refuses(Q.q, n, x)
  BY <1>1 DEF RejectFront, Spares
<1>2. CASE ~Refuses(Q.q, n, x)
  <2> DEFINE P == PassFront(Q)
  <2>1. Q.q # <<>>
    BY <1>2 DEF Refuses
  <2>2. P \in QueuesOf(c) /\ P.q # <<>> /\ P.rows = Q.rows /\ P.manual = Q.manual
    BY <2>1, PassGood
  <2>3. Spares(Q, P)
    BY <2>2 DEF Spares
  <2>. HIDE DEF P
  <2>4. MoveItemToManualSending(P) \in QueuesOf(c) /\ Spares(P, MoveItemToManualSending(P))
    BY <2>2, MoveGood
  <2>5. RejectFront(Q, n, x) = MoveItemToManualSending(P)
    BY <1>2 DEF RejectFront, P
  <2>6. QED
    BY <2>3, <2>4, <2>5, SparesTwice
<1>3. QED
  BY <1>1, <1>2

\* A queue that is good in one chat leaves those of the others.
LEMMA SetQueueGood ==
    ASSUME QueueInv, Growing, NEW c \in Chats, NEW Q \in QueuesOf(c), SetQueue(c, Q)
    PROVE  QueueInv'
<1>1. /\ Q.q \in Seq(ItemsOf(c)) /\ Q.rows \in Seq(ItemsOf(c)) /\ Q.manual \in Seq(ItemsOf(c))
      /\ Q.next \in Nat
      /\ Q = [q |-> Q.q, rows |-> Q.rows, manual |-> Q.manual, next |-> Q.next]
  BY DEF QueuesOf
<1>2. Q.q \in Seq(Items) /\ Q.rows \in Seq(Items) /\ Q.manual \in Seq(Items)
  <2>1. ItemsOf(c) \subseteq Items
    BY DEF ItemsOf
  <2>2. QED
    BY <1>1, <2>1, SeqGrows
<1>3. /\ mSending' \in [Chats -> Seq(Items)] /\ mNextUnsent' \in [Chats -> Nat]
      /\ dbSending' \in [Chats -> Seq(Items)] /\ dbManual' \in [Chats -> Seq(Items)]
  BY <1>1, <1>2 DEF SetQueue, QueueInv
<1>4. Queue(c)' = Q
  BY <1>1 DEF Queue, SetQueue, QueueInv
<1>5. \A d \in Chats \ {c} : Queue(d)' = Queue(d)
  BY DEF Queue, SetQueue, QueueInv
<1>6. \A d \in Chats : Queue(d)' \in QueuesOf(d)
  BY <1>4, <1>5 DEF QueueInv
<1>7. \A d \in Chats : Queue(d)' \in QueuesOf(d)'
  BY <1>6, QueuesGrow
<1>8. QED
  BY <1>3, <1>7 DEF QueueInv

-----------------------------------------------------------------------------
(* Encryption *)

\* The number of new keys is a number.
LEMMA CountNat ==
    ASSUME NEW n \in Nat, NEW T \in SUBSET (1..n) PROVE Cardinality(T) \in Nat
<1>1. IsFiniteSet(1..n)
  BY FS_Interval
<1>2. QED
  BY <1>1, FS_Subset, FS_CardinalityType

\* The positions with a new key are positions of the queue.
LEMMA NewKeysAre ==
    ASSUME NEW c, NEW q, Len(q) \in Nat, NEW from \in Nat \ {0}
    PROVE  /\ NewKeys(c, q, from) \in SUBSET (1..Len(q))
           /\ \A k \in NewKeys(c, q, from) : NeedsKey(c, q[k]) /\ k >= from
           /\ c \in Public => NewKeys(c, q, from) = {}
  BY DEF NewKeys, NeedsKey

\* The key of an item is a number, a new one is local, and a public chat has none.
LEMMA KeyForIs ==
    ASSUME CryptInv, NEW c \in Chats, NEW q \in Seq(ItemsOf(c)), NEW from \in Nat \ {0},
           NEW k \in DOMAIN q
    PROVE  /\ KeyFor(c, q, from, k) \in Int
           /\ k \in NewKeys(c, q, from) => KeyFor(c, q, from, k) <= 0
           /\ c \in Public => KeyFor(c, q, from, k) = 0
<1>1. Len(q) \in Nat /\ q[k] \in ItemsOf(c) /\ k \in 1..Len(q)
  OBVIOUS
<1>2. q[k].key \in Int /\ (c \in Public => q[k].key = 0)
  BY <1>1 DEF ItemsOf, Items
<1>3. mCurrentKey[c].id \in Int /\ keyCount \in Nat
  BY DEF CryptInv, KeyRecs
<1>4. PICK made : made = {j \in NewKeys(c, q, from) : j <= k}
  OBVIOUS
<1>5. Cardinality(made) \in Nat
  BY <1>1, <1>4, NewKeysAre, CountNat
<1>6. KeyFor(c, q, from, k) = IF ~NeedsKey(c, q[k]) THEN q[k].key
                              ELSE IF made = {} THEN mCurrentKey[c].id
                              ELSE -(keyCount + Cardinality(made))
  BY <1>4, Zenon DEF KeyFor
<1>7. KeyFor(c, q, from, k) \in Int
  BY <1>2, <1>3, <1>5, <1>6
<1>8. c \in Public => KeyFor(c, q, from, k) = 0
  BY <1>2, <1>6 DEF NeedsKey
<1>9. ASSUME k \in NewKeys(c, q, from) PROVE KeyFor(c, q, from, k) <= 0
  <2>1. NeedsKey(c, q[k])
    BY <1>1, <1>9, NewKeysAre
  <2>1a. k \in made
    BY <1>1, <1>4, <1>9
  <2>2. KeyFor(c, q, from, k) = -(keyCount + Cardinality(made))
    BY <1>6, <2>1, <2>1a
  <2>3. QED
    BY <1>3, <1>5, <2>2
<1>10. QED
  BY <1>7, <1>8, <1>9

\* An encrypted item is an item, and a key that it announces is a local one.
LEMMA EncryptedGood ==
    ASSUME CryptInv, NEW c \in Chats, NEW q \in Seq(ItemsOf(c)), NEW from \in Nat \ {0},
           NEW k \in DOMAIN q
    PROVE  /\ Encrypted(c, q, from, k) \in ItemsOf(c)
           /\ q[k].cmd = NoCmd /\ k \in NewKeys(c, q, from) =>
                  Encrypted(c, q, from, k).cmd.key <= 0
<1>1. q[k] \in ItemsOf(c)
  OBVIOUS
<1>2. CASE q[k].cmd # NoCmd
  BY <1>1, <1>2 DEF Encrypted
<1>3. CASE q[k].cmd = NoCmd
  <2>1. PICK key : key = KeyFor(c, q, from, k)
    OBVIOUS
  <2>2. PICK keyCmd : keyCmd = IF k \in NewKeys(c, q, from) THEN key ELSE 0
    OBVIOUS
  <2>3. /\ key \in Int /\ keyCmd \in Int /\ keyCmd <= 0 /\ (c \in Public => key = 0 /\ keyCmd = 0)
        /\ k \in NewKeys(c, q, from) => key <= 0
    BY <2>1, <2>2, KeyForIs
  <2>4. PICK cmd : cmd = [op |-> q[k].op, n |-> q[k].n, x |-> q[k].x, data |-> q[k].data,
                          upd |-> q[k].upd, key |-> key, rcp |-> q[k].rcp]
    OBVIOUS
  <2>5. cmd \in CmdsOf(c)
    <3>1. /\ q[k].op \in {"NEWMSG", "MSGUPD", "MSGUPDX"} /\ q[k].n \in 0..MaxMsgs
          /\ q[k].x \in BOOLEAN /\ q[k].data \in Contents /\ q[k].upd \in Nat /\ q[k].rcp \in Int
      BY <1>1, Bounds DEF ItemsOf, Items, Numbering
    <3>2. cmd \in Cmds
      BY <2>3, <2>4, <3>1 DEF Cmds
    <3>3. q[k].op = "NEWMSG" => Of(c, q[k].n)
      BY <1>1 DEF ItemsOf, IsNew
    <3>4. (cmd.op = "NEWMSG" => Of(c, cmd.n)) /\ (c \in Public => cmd.key = 0)
      BY <2>3, <2>4, <3>3
    <3>5. QED
      BY <3>2, <3>4 DEF CmdsOf
  <2>6. Encrypted(c, q, from, k) = [q[k] EXCEPT !.key = key, !.keyCmd = keyCmd, !.cmd = cmd]
    BY <1>3, <2>1, <2>2, <2>4, Zenon DEF Encrypted
  <2>7. [q[k] EXCEPT !.key = key, !.keyCmd = keyCmd, !.cmd = cmd] \in ItemsOf(c)
    BY <1>1, <2>3, <2>5 DEF ItemsOf, Items, CmdsOf, IsNew, IsEdit
  <2>8. Encrypted(c, q, from, k).cmd = cmd
    BY <1>1, <2>6 DEF ItemsOf, Items
  <2>9. QED
    BY <2>3, <2>4, <2>6, <2>7, <2>8
<1>4. QED
  BY <1>2, <1>3

\* A row that takes the blobs of an item is still the row of its message.
LEMMA BlobsGood ==
    ASSUME NEW c, NEW r \in ItemsOf(c), NEW i \in ItemsOf(c)
    PROVE  Blobs(r, i) \in ItemsOf(c) /\ Blobs(r, i).op = r.op /\ Blobs(r, i).n = r.n
  BY DEF Blobs, ItemsOf, Items, IsNew, IsEdit

\* What is sent for an item is a command, after its key if it announces one.
LEMMA CommandsGood ==
    ASSUME NEW c \in Chats, NEW cmd \in CmdsOf(c), NEW i, i.cmd = cmd, i.keyCmd \in Int,
           c \in Public => i.keyCmd = 0
    PROVE  Commands(c, i) \in Seq(Up)
<1>1. PICK m : m = [op |-> cmd.op, chat |-> c, cmd |-> cmd]
  OBVIOUS
<1>2. m \in Up
  <2>1. cmd \in Cmds
    BY DEF CmdsOf
  <2>2. m \in [op : {"NONE", "NEWMSG", "MSGUPD", "MSGUPDX"}, chat : Chats, cmd : Cmds]
    BY <1>1, <2>1 DEF Cmds
  <2>3. m.op = m.cmd.op /\ m.cmd \in CmdsOf(m.chat)
    BY <1>1
  <2>4. QED
    BY <2>2, <2>3 DEF Up
<1>3. CASE i.keyCmd = 0
  <2>1. Commands(c, i) = <<>> \o <<m>>
    BY <1>1, <1>3 DEF Commands
  <2>2. QED
    BY <1>2, <2>1
<1>4. CASE i.keyCmd # 0
  <2>1. PICK key : key = [op |-> "NEWKEY", chat |-> c, key |-> i.keyCmd, rcp |-> cmd.rcp]
    OBVIOUS
  <2>2. cmd.rcp \in Int /\ c \in Chats \ Public
    BY <1>4 DEF CmdsOf, Cmds
  <2>3. key \in Up
    BY <2>1, <2>2 DEF Up
  <2>4. Commands(c, i) = <<key>> \o <<m>>
    BY <1>1, <1>4, <2>1 DEF Commands
  <2>5. QED
    BY <1>2, <2>3, <2>4
<1>5. QED
  BY <1>3, <1>4

\* Where the chats' queues go when that of one of them becomes R.
Becomes(c, Q, R) == R \in QueuesOf(c) /\ SetQueue(c, R) /\ Spares(Q, R)

\* What a flush makes of a queue: some items are encrypted, their rows get the blobs, and it
\* ends there or with the front handed back.
Walked(c, Q, from, fresh, W) ==
    /\ fresh \subseteq DOMAIN Q.q /\ \A k \in fresh : Q.q[k].cmd = NoCmd
    /\ Len(W.q) = Len(Q.q)
    /\ \A k \in DOMAIN Q.q : W.q[k] = IF k \in fresh THEN Encrypted(c, Q.q, from, k) ELSE Q.q[k]
    /\ DOMAIN W.rows = DOMAIN Q.rows /\ W.manual = Q.manual
    /\ \A j \in DOMAIN Q.rows :
          W.rows[j] = IF \E k \in fresh : Q.q[k].row = Q.rows[j].row
                      THEN Blobs(Q.rows[j], W.q[CHOOSE k \in fresh : Q.q[k].row = Q.rows[j].row])
                      ELSE Q.rows[j]

\* That is what a flush does.
LEMMA FlushWalks ==
    ASSUME CryptInv, NEW c \in Chats, NEW Q \in QueuesOf(c), NEW from \in Nat \ {0},
           from <= Len(Q.q) + 1, NEW halted \in BOOLEAN, NEW sent, NEW fails,
           FlushOutputQueue(c, Q, from, halted, sent, fails)
    PROVE  \E fresh, W :
              /\ W \in QueuesOf(c) /\ Walked(c, Q, from, fresh, W)
              /\ SetQueue(c, W) \/ \E n, x : SetQueue(c, RejectFront(W, n, x))
<1> DEFINE
        q      == Q.q
        stops  == {k \in from..Len(q) : q[k].cmd = NoCmd
                                        /\ (halted \/ Waits(c, q, from, k) \/ Orphan(c, q[k]))}
        stop   == IF stops = {} THEN Len(q) + 1 ELSE Min(stops)
        halts  == stop <= Len(q) /\ (halted \/ Waits(c, q, from, stop))
        fresh  == {k \in from..(stop - 1) : q[k].cmd = NoCmd}
        after  == [k \in DOMAIN q |-> IF k \in fresh THEN Encrypted(c, q, from, k) ELSE q[k]]
        blobbed == [j \in DOMAIN Q.rows |->
                                        IF \E k \in fresh : q[k].row = Q.rows[j].row
                                        THEN Blobs(Q.rows[j], after[CHOOSE k \in fresh :
                                                                 q[k].row = Q.rows[j].row])
                                        ELSE Q.rows[j]]
        walked == [Q EXCEPT !.q    = after,
                            !.rows = [j \in DOMAIN @ |->
                                        IF \E k \in fresh : q[k].row = @[j].row
                                        THEN Blobs(@[j], after[CHOOSE k \in fresh :
                                                                 q[k].row = @[j].row])
                                        ELSE @[j]],
                            !.next = Min({stop, Len(q)}) + 1]
        R      == IF stop <= Len(q) /\ ~halts
                  THEN RejectFront(walked, q[stop].n, q[stop].x) ELSE walked
<1>1. SetQueue(c, R)
  BY ZenonT(30) DEF FlushOutputQueue
<1>2. /\ Q.q \in Seq(ItemsOf(c)) /\ Q.rows \in Seq(ItemsOf(c)) /\ Q.manual \in Seq(ItemsOf(c))
      /\ Q.next \in Nat
      /\ Q = [q |-> Q.q, rows |-> Q.rows, manual |-> Q.manual, next |-> Q.next]
  BY DEF QueuesOf
<1>3. /\ q \in Seq(ItemsOf(c)) /\ Len(q) \in Nat /\ DOMAIN q = 1..Len(q)
      /\ from <= Len(q) + 1 /\ \A k \in DOMAIN q : q[k] \in ItemsOf(c)
  BY <1>2
<1>4. walked = [q |-> after, rows |-> blobbed, manual |-> Q.manual,
                next |-> Min({stop, Len(q)}) + 1]
  <2>. HIDE DEF stop, after
  <2>1. walked = [Q EXCEPT !.q = after, !.rows = blobbed, !.next = Min({stop, Len(q)}) + 1]
    OBVIOUS
  <2>. HIDE DEF walked, blobbed
  <2>2. QED
    BY <1>2, <2>1
<1>. HIDE DEF q, walked, blobbed, after, R
<1>5. stop \in from..(Len(q) + 1) /\ (stop <= Len(q) => stop \in stops)
  <2>1. CASE stops = {}
    BY <1>3, <2>1
  <2>2. CASE stops # {}
    <3>1. stops \in SUBSET Nat /\ stops \in SUBSET (from..Len(q))
      BY <1>3
    <3>. HIDE DEF stops
    <3>2. Min(stops) \in stops
      BY <2>2, <3>1, MinIn
    <3>3. stop = Min(stops)
      BY <2>2
    <3>. HIDE DEF stop
    <3>4. stop \in stops /\ stop \in from..Len(q)
      BY <3>1, <3>2, <3>3
    <3>5. QED
      BY <1>3, <3>4
  <2>3. QED
    BY <2>1, <2>2
<1>7. \A k \in fresh : k \in DOMAIN q
  <2>. HIDE DEF stop
  <2>1. QED
    BY <1>3, <1>5
<1>. HIDE DEF stops, stop, fresh
<1>9. \A k \in DOMAIN q : Encrypted(c, q, from, k) \in ItemsOf(c)
  BY <1>3, EncryptedGood
<1>10. after \in Seq(ItemsOf(c)) /\ Len(after) = Len(q)
  BY <1>3, <1>9 DEF after
<1>11. Min({stop, Len(q)}) \in Nat /\ Min({stop, Len(q)}) <= Len(q)
  <2>1. {stop, Len(q)} \in SUBSET Nat /\ {stop, Len(q)} # {}
    BY <1>3, <1>5
  <2>2. QED
    BY <2>1, <1>3, MinIn
<1>12. ASSUME NEW j \in DOMAIN Q.rows
       PROVE  blobbed[j] \in ItemsOf(c) /\ blobbed[j].op = Q.rows[j].op
              /\ blobbed[j].n = Q.rows[j].n
  <2>1. Q.rows[j] \in ItemsOf(c)
    BY <1>2
  <2>2. CASE \E k \in fresh : q[k].row = Q.rows[j].row
    <3>1. PICK k \in fresh : k = CHOOSE i \in fresh : q[i].row = Q.rows[j].row
      BY <2>2
    <3>2. after[k] \in ItemsOf(c)
      BY <1>7, <1>3, <1>9 DEF after
    <3>3. blobbed[j] = Blobs(Q.rows[j], after[k])
      BY <2>2, <3>1 DEF blobbed
    <3>4. QED
      BY <2>1, <3>2, <3>3, BlobsGood
  <2>3. CASE ~\E k \in fresh : q[k].row = Q.rows[j].row
    BY <2>1, <2>3 DEF blobbed
  <2>4. QED
    BY <2>2, <2>3
<1>13. blobbed \in Seq(ItemsOf(c)) /\ DOMAIN blobbed = DOMAIN Q.rows
  <2>1. DOMAIN blobbed = DOMAIN Q.rows /\ Len(Q.rows) \in Nat /\ DOMAIN Q.rows = 1..Len(Q.rows)
    BY <1>2 DEF blobbed
  <2>2. blobbed \in [1..Len(Q.rows) -> ItemsOf(c)]
    BY <1>12, <2>1 DEF blobbed
  <2>3. QED
    BY <2>1, <2>2, SMTT(30)
<1>14. walked \in QueuesOf(c)
  <2>1. PICK next : next = Min({stop, Len(q)}) + 1
    OBVIOUS
  <2>2. next \in Nat /\ next <= Len(after) + 1
    BY <1>3, <1>10, <1>11, <2>1
  <2>3. [q |-> after, rows |-> blobbed, manual |-> Q.manual, next |-> next] \in QueuesOf(c)
    BY <1>2, <1>10, <1>13, <2>2 DEF QueuesOf
  <2>4. QED
    BY <1>4, <2>1, <2>3
<1>15. \A k \in fresh : Q.q[k].cmd = NoCmd
  BY DEF fresh, q
<1>16. /\ walked.q = after /\ walked.rows = blobbed /\ walked.manual = Q.manual
  BY <1>4
<1>17. Walked(c, Q, from, fresh, walked)
  BY <1>3, <1>7, <1>10, <1>13, <1>15, <1>16 DEF Walked, after, blobbed, q
<1>18. SetQueue(c, walked) \/ \E n, x : SetQueue(c, RejectFront(walked, n, x))
  BY <1>1 DEF R
<1>19. QED
  BY <1>14, <1>17, <1>18

\* A flush of a good queue leaves a good queue with the messages it had, good keys, and good
\* commands on the way.
LEMMA FlushGood ==
    ASSUME CryptInv, NEW c \in Chats, NEW Q \in QueuesOf(c), NEW from \in Nat \ {0},
           from <= Len(Q.q) + 1, NEW halted \in BOOLEAN, NEW sent \in Seq(Up), c2s \in Seq(Up),
           NEW fails, FlushOutputQueue(c, Q, from, halted, sent, fails), Growing
    PROVE  (\E R : Becomes(c, Q, R)) /\ CryptInv' /\ c2s' \in Seq(Up)
<1> DEFINE
        q      == Q.q
        stops  == {k \in from..Len(q) : q[k].cmd = NoCmd
                                        /\ (halted \/ Waits(c, q, from, k) \/ Orphan(c, q[k]))}
        stop   == IF stops = {} THEN Len(q) + 1 ELSE Min(stops)
        halts  == stop <= Len(q) /\ (halted \/ Waits(c, q, from, stop))
        fresh  == {k \in from..(stop - 1) : q[k].cmd = NoCmd}
        after  == [k \in DOMAIN q |-> IF k \in fresh THEN Encrypted(c, q, from, k) ELSE q[k]]
        made   == {k \in NewKeys(c, q, from) : k < stop \/ (k = stop /\ ~halted)}
        keyed  == Kept(q, made)
        out    == [k \in 1..(stop - from) |-> Commands(c, after[from + k - 1])]
<1>1. /\ mEncryptionHalted' = [mEncryptionHalted EXCEPT ![c] = halts \/ halted]
      /\ pending' = [pending EXCEPT ![c] =
                         IF halted THEN @
                         ELSE IF halts THEN [on  |-> TRUE, row |-> q[stop].row,
                                             cmd |-> Encrypted(c, q, from, stop).cmd]
                         ELSE NoPend]
      /\ mCurrentKey' = [mCurrentKey EXCEPT ![c] =
                             IF made = {} THEN @ ELSE [id  |-> -(keyCount + Len(keyed)),
                                                       rcp |-> q[Max(made)].rcp]]
      /\ mUnconfirmedKeys' = [mUnconfirmedKeys EXCEPT ![c] = @ \o
                                  [j \in DOMAIN keyed |-> [id  |-> -(keyCount + j),
                                                           rcp |-> keyed[j].rcp]]]
      /\ keyCount' = keyCount + Len(keyed)
      /\ c2s' = Socket(sent \o FlattenSeq(out))
  BY ZenonT(30) DEF FlushOutputQueue
<1>2. /\ Q.q \in Seq(ItemsOf(c)) /\ Q.rows \in Seq(ItemsOf(c)) /\ Q.manual \in Seq(ItemsOf(c))
      /\ Q.next \in Nat
      /\ Q = [q |-> Q.q, rows |-> Q.rows, manual |-> Q.manual, next |-> Q.next]
  BY DEF QueuesOf
<1>3. /\ q \in Seq(ItemsOf(c)) /\ Len(q) \in Nat /\ DOMAIN q = 1..Len(q)
      /\ from <= Len(q) + 1 /\ \A k \in DOMAIN q : q[k] \in ItemsOf(c)
  BY <1>2
<1>. HIDE DEF q, after, out
<1>5. stop \in from..(Len(q) + 1) /\ (stop <= Len(q) => stop \in stops)
  <2>1. CASE stops = {}
    BY <1>3, <2>1
  <2>2. CASE stops # {}
    <3>1. stops \in SUBSET Nat /\ stops \in SUBSET (from..Len(q))
      BY <1>3
    <3>. HIDE DEF stops
    <3>2. Min(stops) \in stops
      BY <2>2, <3>1, MinIn
    <3>3. stop = Min(stops)
      BY <2>2
    <3>. HIDE DEF stop
    <3>4. stop \in stops /\ stop \in from..Len(q)
      BY <3>1, <3>2, <3>3
    <3>5. QED
      BY <1>3, <3>4
  <2>3. QED
    BY <2>1, <2>2
<1>6. \A k \in stops : k \in DOMAIN q /\ q[k].cmd = NoCmd /\ (halted \/ Waits(c, q, from, k) \/ Orphan(c, q[k]))
  BY <1>3
<1>7. \A k \in fresh : k \in DOMAIN q
  <2>. HIDE DEF stop
  <2>1. QED
    BY <1>3, <1>5
<1>8. /\ made \in SUBSET (1..Len(q))
      /\ \A k \in made : k \in DOMAIN q
  BY <1>3, NewKeysAre
<1>. HIDE DEF stops, stop, fresh, made
<1>9. \A k \in DOMAIN q : /\ Encrypted(c, q, from, k) \in ItemsOf(c)
                          /\ q[k].cmd = NoCmd /\ k \in NewKeys(c, q, from) =>
                                 Encrypted(c, q, from, k).cmd.key <= 0
  BY <1>3, EncryptedGood
<1>17. \E P : Becomes(c, Q, P)
  <2>1. PICK fresh1, W : /\ W \in QueuesOf(c) /\ Walked(c, Q, from, fresh1, W)
                         /\ SetQueue(c, W) \/ \E n, x : SetQueue(c, RejectFront(W, n, x))
    BY FlushWalks
  <2>2. ASSUME NEW j \in DOMAIN Q.rows PROVE W.rows[j].op = Q.rows[j].op /\ W.rows[j].n = Q.rows[j].n
    <3>1. Q.rows[j] \in ItemsOf(c)
      BY <1>2
    <3>2. CASE W.rows[j] = Q.rows[j]
      BY <3>2
    <3>3. CASE W.rows[j] # Q.rows[j]
      <4>1. PICK i : W.rows[j] = Blobs(Q.rows[j], i)
        BY <2>1, <3>3 DEF Walked
      <4>2. QED
        BY <3>1, <4>1 DEF Blobs, ItemsOf, Items
    <3>4. QED
      BY <3>2, <3>3
  <2>3. Spares(Q, W)
    BY <2>1, <2>2 DEF Spares, HasMsg, IsNew, Walked
  <2>4. \A n, x : RejectFront(W, n, x) \in QueuesOf(c) /\ Spares(Q, RejectFront(W, n, x))
    BY <2>1, <2>3, RejectGood, SparesTwice
  <2>5. QED
    BY <2>1, <2>3, <2>4 DEF Becomes
<1>18. keyed \in Seq(ItemsOf(c)) /\ Len(keyed) \in Nat
  BY <1>3, KeptType
<1>. HIDE DEF keyed
<1>19. keyCount \in Nat /\ keyCount' \in Nat
  BY <1>1, <1>18 DEF CryptInv
<1>20. mCurrentKey' \in [Chats -> KeyRecs]
  <2>1. CASE made = {}
    BY <1>1, <2>1 DEF CryptInv
  <2>2. CASE made # {}
    <3>1. made \in SUBSET (0..Len(q)) /\ Len(q) \in Nat
      BY <1>3, <1>8
    <3>2. Max(made) \in made
      BY <2>2, <3>1, MaxIn
    <3>3. q[Max(made)].rcp \in Int
      BY <1>3, <1>8, <3>2 DEF ItemsOf, Items
    <3>4. [id |-> -(keyCount + Len(keyed)), rcp |-> q[Max(made)].rcp] \in KeyRecs
      BY <1>18, <1>19, <3>3 DEF KeyRecs
    <3>5. QED
      BY <1>1, <2>2, <3>4 DEF CryptInv
  <2>3. QED
    BY <2>1, <2>2
<1>21. mUnconfirmedKeys' \in [Chats -> Seq(KeyRecs)]
  <2> DEFINE new == [j \in DOMAIN keyed |-> [id |-> -(keyCount + j), rcp |-> keyed[j].rcp]]
  <2>1. \A j \in DOMAIN keyed : [id |-> -(keyCount + j), rcp |-> keyed[j].rcp] \in KeyRecs
    <3>1. \A j \in DOMAIN keyed : keyed[j] \in ItemsOf(c) /\ j \in Nat
      BY <1>18
    <3>2. \A j \in DOMAIN keyed : keyed[j].rcp \in Int /\ -(keyCount + j) \in Int
      BY <1>19, <3>1 DEF ItemsOf, Items
    <3>3. QED
      BY <3>2 DEF KeyRecs
  <2>2. new \in Seq(KeyRecs)
    BY <1>18, <2>1
  <2>3. mUnconfirmedKeys' = [mUnconfirmedKeys EXCEPT ![c] = @ \o new]
    BY <1>1
  <2>. HIDE DEF new
  <2>4. QED
    BY <2>2, <2>3 DEF CryptInv
<1>22. pending' \in [Chats -> Pends] /\ \A d \in Chats : pending'[d] \in PendsOf(d)
  <2>1. PICK p : p = IF halted THEN pending[c]
                     ELSE IF halts THEN [on |-> TRUE, row |-> q[stop].row,
                                         cmd |-> Encrypted(c, q, from, stop).cmd]
                     ELSE NoPend
    OBVIOUS
  <2>2. pending' = [pending EXCEPT ![c] = p]
    BY <1>1, <2>1
  <2>3. p \in PendsOf(c)
    <3>1. CASE halted
      BY <2>1, <3>1 DEF CryptInv
    <3>2. CASE ~halted /\ halts
      <4>1. stop \in DOMAIN q /\ q[stop].cmd = NoCmd /\ Waits(c, q, from, stop)
        BY <1>5, <1>6, <3>2
      <4>2. PICK i \in ItemsOf(c) : i = Encrypted(c, q, from, stop)
        BY <1>9, <4>1
      <4>3. i.cmd.key <= 0
        <5>1. CASE stop \in NewKeys(c, q, from)
          BY <1>9, <4>1, <4>2, <5>1
        <5>2. CASE c \in Public
          BY <4>2, <5>2 DEF ItemsOf, CmdsOf
        <5>3. QED
          BY <4>1, <5>1, <5>2 DEF Waits
      <4>4. q[stop].row \in Nat /\ i.cmd \in CmdsOf(c) /\ i.cmd \in Cmds
        BY <1>3, <4>1 DEF ItemsOf, Items, CmdsOf
      <4>5. p = [on |-> TRUE, row |-> q[stop].row, cmd |-> i.cmd]
        BY <2>1, <3>2, <4>2
      <4>6. QED
        BY <4>3, <4>4, <4>5 DEF PendsOf, Pends
    <3>3. CASE ~halted /\ ~halts
      <4>1. NoCmd \in CmdsOf(c) /\ NoCmd \in Cmds /\ NoCmd.key <= 0
        BY Bounds DEF NoCmd, CmdsOf, Cmds, Contents
      <4>2. p = NoPend
        BY <2>1, <3>3
      <4>. HIDE DEF NoCmd
      <4>3. QED
        BY <4>1, <4>2 DEF PendsOf, Pends, NoPend
    <3>4. QED
      BY <3>1, <3>2, <3>3
  <2>4. p \in Pends
    BY <2>3 DEF PendsOf
  <2>5. QED
    BY <2>2, <2>3, <2>4 DEF CryptInv
<1>23. mEncryptionHalted' \in [Chats -> BOOLEAN]
  <2>1. halts \in BOOLEAN
    OBVIOUS
  <2>. HIDE DEF halts
  <2>2. QED
    BY <1>1, <2>1, Zenon DEF CryptInv
<1>24. CryptInv'
  <2>1. \A d : PendsOf(d) \subseteq PendsOf(d)'
    BY OfGrows
  <2>2. QED
    BY <1>19, <1>20, <1>21, <1>22, <1>23, <2>1 DEF CryptInv
<1>25. c2s' \in Seq(Up)
  <2>1. stop - from \in Nat
    BY <1>3, <1>5
  <2>2. ASSUME NEW k \in 1..(stop - from) PROVE Commands(c, after[from + k - 1]) \in Seq(Up)
    <3>1. from + k - 1 \in DOMAIN q
      BY <1>3, <1>5
    <3>2. PICK i \in ItemsOf(c) : i = after[from + k - 1]
      BY <1>3, <1>9, <3>1 DEF after
    <3>3. i.cmd \in CmdsOf(c) /\ i.keyCmd \in Int /\ (c \in Public => i.keyCmd = 0)
      BY DEF ItemsOf, Items
    <3>4. QED
      BY <3>2, <3>3, CommandsGood
  <2>3. out \in Seq(Seq(Up))
    BY <2>1, <2>2 DEF out
  <2>4. FlattenSeq(out) \in Seq(Up)
    BY <2>3, FlattenType
  <2>5. QED
    BY <1>1, <2>4 DEF Socket
<1>26. QED
  BY <1>17, <1>24, <1>25

-----------------------------------------------------------------------------
(* What a step does *)

\* What is on disk is in the tables after the step, or the server has it.
Keeps == \A c \in Chats, n \in Numbering :
            Stored(disk, c, n) => Stored(Database, c, n)' \/ InLog(n)'

GoodStep == /\ Growing /\ AppInv' /\ QueueInv' /\ CryptInv' /\ ClientInv' /\ HistInv' /\ ServerInv'
            /\ NetInv' /\ Keeps /\ (disk' = disk \/ disk' = Database')

\* With autocommit or without, the disk is left alone or takes the tables.
LEMMA Committed == ASSUME Autocommit PROVE disk' = disk \/ disk' = Database'
  BY DEF Autocommit

\* What Stored says of an image,
LEMMA StoredIs ==
    ASSUME NEW image, NEW c, NEW n
    PROVE  Stored(image, c, n) <=> HasMsg(image[c].sending, image[c].manual, n)
  BY DEF Stored, HasMsg, ToSet

\* and of the tables.
LEMMA InTables ==
    ASSUME NEW c \in Chats, NEW n
    PROVE  Stored(Database, c, n) <=> HasMsg(dbSending[c], dbManual[c], n)
<1>1. Database[c].sending = dbSending[c] /\ Database[c].manual = dbManual[c]
  BY DEF Database
<1>2. QED
  BY <1>1, StoredIs

\* What is on disk of a chat is of its messages.
LEMMA DiskOf ==
    ASSUME DiskInv, NEW c \in Chats, NEW n, Stored(disk, c, n)
    PROVE  n \in DOMAIN created
<1>1. /\ disk[c].sending \in Seq(ItemsOf(c)) /\ disk[c].manual \in Seq(ItemsOf(c))
  BY DEF DiskInv, Images, ImagesOf
<1>2. HasMsg(disk[c].sending, disk[c].manual, n)
  BY StoredIs
<1>3. \E i \in ItemsOf(c) : IsNew(i) /\ i.n = n
  BY <1>1, <1>2 DEF HasMsg
<1>4. QED
  BY <1>3 DEF ItemsOf, Of

\* A step that keeps the messages of the tables keeps those of the disk.
LEMMA KeepsWhen ==
    ASSUME KeptInv, DiskInv, Growing,
           \A c \in Chats, n \in Numbering : HasMsg(dbSending[c], dbManual[c], n)
                              => HasMsg(dbSending'[c], dbManual'[c], n) \/ InLog(n)'
    PROVE  Keeps
<1>1. SUFFICES ASSUME NEW c \in Chats, NEW n \in Numbering, Stored(disk, c, n)
               PROVE  Stored(Database, c, n)' \/ InLog(n)'
  BY DEF Keeps
<1>2. Stored(Database, c, n) \/ InLog(n)
  BY <1>1, DiskOf DEF KeptInv
<1>3. (Stored(Database, c, n) <=> HasMsg(dbSending[c], dbManual[c], n))'
  BY InTables, PTL
<1>4. QED
  BY <1>2, <1>3, InTables DEF Growing

\* So does one that leaves the tables alone,
LEMMA KeepsSame ==
    ASSUME KeptInv, DiskInv, Growing, UNCHANGED <<dbSending, dbManual>> PROVE Keeps
  BY KeepsWhen

\* and one that changes a queue and spares its messages.
LEMMA KeepsSpares ==
    ASSUME KeptInv, DiskInv, Growing, QueueInv, NEW c \in Chats, NEW Q, Spares(Queue(c), Q), NEW R,
           Becomes(c, Q, R)
    PROVE  Keeps
<1>1. \A d \in Chats, n \in Numbering : HasMsg(dbSending[d], dbManual[d], n)
                              => HasMsg(dbSending'[d], dbManual'[d], n) \/ InLog(n)'
  <2>1. SUFFICES ASSUME NEW d \in Chats, NEW n \in Numbering, HasMsg(dbSending[d], dbManual[d], n)
                 PROVE  HasMsg(dbSending'[d], dbManual'[d], n) \/ InLog(n)'
    OBVIOUS
  <2>2. CASE d = c
    <3>1. HasMsg(Queue(c).rows, Queue(c).manual, n)
      BY <2>1, <2>2 DEF Queue
    <3>2. HasMsg(R.rows, R.manual, n) \/ InLog(n)
      BY <3>1 DEF Spares, Becomes
    <3>3. dbSending'[c] = R.rows /\ dbManual'[c] = R.manual
      BY DEF Becomes, SetQueue, QueueInv
    <3>4. QED
      BY <2>2, <3>2, <3>3 DEF Growing
  <2>3. CASE d # c
    <3>1. dbSending'[d] = dbSending[d] /\ dbManual'[d] = dbManual[d]
      BY <2>3 DEF Becomes, SetQueue, QueueInv
    <3>2. QED
      BY <2>1, <3>1
  <2>4. QED
    BY <2>2, <2>3
<1>2. QED
  BY <1>1, KeepsWhen

\* A good queue takes the place of another.
LEMMA BecomesGood ==
    ASSUME QueueInv, Growing, NEW c \in Chats, NEW Q, NEW R, Becomes(c, Q, R)
    PROVE  QueueInv'
  BY SetQueueGood DEF Becomes

\* A message that was created has a chat.
LEMMA CreatedIn ==
    ASSUME AppInv
    PROVE  /\ Len(created) \in Nat /\ DOMAIN created = 1..Len(created) /\ Len(created) <= MaxMsgs
           /\ \A n \in DOMAIN created : created[n].chat \in Chats /\ created[n].ts \in Nat
<1>1. PICK S : S = [chat : Chats, ts : Nat]
  OBVIOUS
<1>2. created \in Seq(S)
  BY <1>1 DEF AppInv
<1>3. \A n \in DOMAIN created : created[n] \in S
  BY <1>2
<1>4. \A n \in DOMAIN created : created[n].chat \in Chats /\ created[n].ts \in Nat
  BY <1>1, <1>3
<1>5. Len(created) \in Nat /\ DOMAIN created = 1..Len(created)
  BY <1>2
<1>6. QED
  BY <1>4, <1>5 DEF AppInv

\* The logs of the server only grow.
LEMMA Grows ==
    ASSUME AppInv, UNCHANGED created, \A c \in Chats : srv'[c].log = srv[c].log
    PROVE  Growing
<1>1. \A n \in DOMAIN created : created[n].chat \in Chats
  BY CreatedIn
<1>2. QED
  BY <1>1 DEF Growing, InLog

\* The server that a step leaves alone.
LEMMA ServerStays ==
    ASSUME ServerInv, Growing, UNCHANGED <<srv, srvMsg, budget>> PROVE ServerInv'
  BY DEF ServerInv, Growing, Of

\* The members, keys and states of the chats that a step leaves alone.
LEMMA ClientStays ==
    ASSUME ClientInv, UNCHANGED <<mOnlineState, pubkeys, mUsers>> PROVE ClientInv'
  BY DEF ClientInv

\* The commands on the way, one direction at a time.
LEMMA NetGrows ==
    ASSUME Growing, conn' \in {"down", "up"}, c2s' \in Seq(Up), s2c' \in Seq(Down)
    PROVE  NetInv'
<1>1. Seq(Up) \subseteq Seq(Up') /\ Seq(Down) \subseteq Seq(Down')
  BY CommandsGrow
<1>2. QED
  BY <1>1 DEF NetInv

\* The first of a sequence, and the others.
LEMMA HeadOf ==
    ASSUME NEW S, NEW s \in Seq(S), s # <<>>
    PROVE  Head(s) \in S /\ Tail(s) \in Seq(S)
  OBVIOUS

\* The command and the closure that are not there.
LEMMA NoCmdGood ==
    ASSUME NEW c
    PROVE  /\ NoCmd \in CmdsOf(c) /\ NoCmd \in Cmds /\ NoCmd.key = 0 /\ NoCmd.op = "NONE"
           /\ NoPend \in PendsOf(c) /\ NoPend \in Pends
<1>1. NoCmd \in CmdsOf(c) /\ NoCmd \in Cmds /\ NoCmd.key = 0 /\ NoCmd.op = "NONE"
  BY Bounds DEF NoCmd, CmdsOf, Cmds, Contents
<1>. HIDE DEF NoCmd
<1>2. QED
  BY <1>1 DEF PendsOf, Pends, NoPend

-----------------------------------------------------------------------------
(* The process starts again *)

\* The item that a row is loaded as.
LEMMA ItemGood ==
    ASSUME NEW c, NEW r \in ItemsOf(c)
    PROVE  Item(r) \in ItemsOf(c)
<1>1. CASE r.cmd = NoCmd
  <2>1. Item(r) = [r EXCEPT !.cmd = NoCmd]
    BY <1>1 DEF Item
  <2>2. [r EXCEPT !.cmd = NoCmd] = r
    BY <1>1 DEF ItemsOf, Items
  <2>3. QED
    BY <2>1, <2>2
<1>2. CASE r.cmd # NoCmd
  <2>1. PICK cmd : cmd = [op |-> r.op, n |-> r.n, x |-> r.x, data |-> r.cmd.data,
                          upd |-> r.upd, key |-> r.key, rcp |-> r.rcp]
    OBVIOUS
  <2>2. /\ r.op \in {"NEWMSG", "MSGUPD", "MSGUPDX"} /\ r.n \in 0..MaxMsgs /\ r.x \in BOOLEAN
        /\ r.cmd.data \in Contents /\ r.upd \in Nat /\ r.key \in Int /\ r.rcp \in Int
    BY Bounds DEF ItemsOf, Items, Cmds, Numbering
  <2>3. cmd \in Cmds
    BY <2>1, <2>2 DEF Cmds
  <2>4. (cmd.op = "NEWMSG" => Of(c, cmd.n)) /\ (c \in Public => cmd.key = 0)
    BY <2>1 DEF ItemsOf, IsNew
  <2>5. cmd \in CmdsOf(c)
    BY <2>3, <2>4 DEF CmdsOf
  <2>6. Item(r) = [r EXCEPT !.cmd = cmd]
    BY <1>2, <2>1 DEF Item
  <2>7. [r EXCEPT !.cmd = cmd] \in ItemsOf(c)
    BY <2>5 DEF ItemsOf, Items, CmdsOf, IsNew, IsEdit
  <2>8. QED
    BY <2>6, <2>7
<1>3. QED
  BY <1>1, <1>2

\* A function over the positions of a sequence is a sequence.
LEMMA MapType ==
    ASSUME NEW S, NEW T, NEW s \in Seq(S), NEW t \in [DOMAIN s -> T]
    PROVE  t \in Seq(T) /\ Len(t) = Len(s)
<1>1. Len(s) \in Nat /\ DOMAIN s = 1..Len(s)
  OBVIOUS
<1>2. QED
  BY <1>1

\* the keys that a restart loads are local
LocalKeys == [id : {i \in Int : i <= 0}, rcp : Int]

\* The process starts again from an image that has what the disk has.
LEMMA RestartGood ==
    ASSUME TypesInv, NEW image \in Images, NEW fails, Restart(image, fails), Autocommit,
           pubkeys' \in [Chats -> SUBSET Memberships],
           \A c \in Chats, n \in Numbering : Stored(disk, c, n) => Stored(image, c, n) \/ InLog(n)
    PROVE  GoodStep
<1> DEFINE rows(c)  == image[c].sending
           keyed(c) == Kept(rows(c), {k \in DOMAIN rows(c) : rows(c)[k].keyCmd # 0})
           keys(c)  == Map(keyed(c), LAMBDA r : [id |-> r.keyCmd, rcp |-> r.rcp])
           without  == {c \in Chats : keys(c) = <<>>}
<1>1. /\ budget.crashes > 0
      /\ budget' = [budget EXCEPT !.crashes = @ - 1]
      /\ mSending'    = [c \in Chats |-> Map(rows(c), Item)]
      /\ mNextUnsent' = [c \in Chats |-> 1]
      /\ mEncryptionHalted' = [c \in Chats |-> FALSE]
      /\ pending'     = [c \in Chats |-> NoPend]
      /\ mUnconfirmedKeys' = [c \in Chats |-> keys(c)]
      /\ mCurrentKey' = [c \in Chats |-> IF keys(c) = <<>> THEN NoKey ELSE Last(keys(c))]
      /\ \/ without = Chats /\ keyCount' = Cardinality(Chats)
         \/ \E c \in Chats \ without, later \in 0..Cardinality(without) :
               keyCount' = later - Last(keys(c)).id
  BY ZenonT(30) DEF Restart
<1>2. /\ dbSending'   = [c \in Chats |-> image[c].sending]
      /\ dbManual'    = [c \in Chats |-> image[c].manual]
      /\ history'     = [c \in Chats |-> image[c].history]
      /\ mOnlineState' = [c \in Chats |-> "Offline"]
      /\ calls' = <<>>
      /\ conn' = "down" /\ c2s' = <<>> /\ s2c' = <<>>
      /\ srv' = [c \in Chats |-> [srv[c] EXCEPT !.joined = FALSE, !.keyxids = {}]]
      /\ UNCHANGED <<created, edits, mUsers, srvMsg, now>>
  BY ZenonT(30) DEF Restart
<1>3. ASSUME NEW c \in Chats
      PROVE  /\ image[c].sending \in Seq(ItemsOf(c)) /\ image[c].manual \in Seq(ItemsOf(c))
             /\ image[c].history \in Seq(HistOf(c))
  BY DEF Images, ImagesOf
<1>4. ASSUME NEW c \in Chats PROVE keyed(c) \in Seq(ItemsOf(c))
  BY <1>3, KeptType
<1>. HIDE DEF keyed
<1>5. ASSUME NEW c \in Chats PROVE keys(c) \in Seq(LocalKeys)
  <2>0. PICK s \in Seq(ItemsOf(c)) : s = keyed(c)
    BY <1>4
  <2>1. \A i \in DOMAIN s : s[i] \in ItemsOf(c)
    OBVIOUS
  <2>2. \A i \in DOMAIN s : s[i].keyCmd \in Int /\ s[i].keyCmd <= 0 /\ s[i].rcp \in Int
    BY <2>1 DEF ItemsOf, Items
  <2>3. \A i \in DOMAIN s : [id |-> s[i].keyCmd, rcp |-> s[i].rcp] \in LocalKeys
    BY <2>2 DEF LocalKeys
  <2>4. keys(c) = [i \in DOMAIN s |-> [id |-> s[i].keyCmd, rcp |-> s[i].rcp]]
    BY <2>0 DEF Map
  <2>5. keys(c) \in [DOMAIN s -> LocalKeys]
    BY <2>3, <2>4, ZenonT(30)
  <2>. HIDE DEF keys
  <2>6. QED
    BY <2>5, MapType
<1>. HIDE DEF keys
<1>6. ASSUME NEW c \in Chats, keys(c) # <<>>
      PROVE  Last(keys(c)) \in KeyRecs /\ Last(keys(c)).id \in Int /\ Last(keys(c)).id <= 0
  <2>1. keys(c) \in Seq(LocalKeys)
    BY <1>5
  <2>2. Last(keys(c)) \in LocalKeys
    BY <1>6, <2>1 DEF Last
  <2>3. QED
    BY <2>2 DEF KeyRecs, LocalKeys
<1>7. \A c \in Chats : srv'[c].log = srv[c].log
  BY <1>2, ZenonT(30) DEF TypesInv, ServerInv, Servers
<1>8. Growing
  BY <1>2, <1>7, Grows, ZenonT(30) DEF TypesInv
<1>9. AppInv'
  <2>1. calls' = <<>>
    BY <1>2, ZenonT(30)
  <2>2. <<>> \in Seq(Marshalled')
    OBVIOUS
  <2>3. QED
    BY <1>2, <2>1, <2>2, ZenonT(30) DEF TypesInv, AppInv
<1>10. QueueInv'
  <2>1. ASSUME NEW c \in Chats
        PROVE  /\ Map(rows(c), Item) \in Seq(ItemsOf(c))
               /\ Queue(c)' \in QueuesOf(c)'
    <3>1. \A i \in DOMAIN rows(c) : Item(rows(c)[i]) \in ItemsOf(c)
      BY <1>3, ItemGood
    <3>2. PICK q : q = Map(rows(c), Item)
      OBVIOUS
    <3>3. q = [i \in DOMAIN rows(c) |-> Item(rows(c)[i])]
      BY <3>2 DEF Map
    <3>4. q \in [DOMAIN image[c].sending -> ItemsOf(c)]
      BY <3>1, <3>3
    <3>5. q \in Seq(ItemsOf(c))
      BY <1>3, <3>4, MapType
    <3>6. Queue(c)' = [q |-> q, rows |-> image[c].sending, manual |-> image[c].manual, next |-> 1]
      BY <1>1, <1>2, <3>2, ZenonT(30) DEF Queue
    <3>7. [q |-> q, rows |-> image[c].sending, manual |-> image[c].manual, next |-> 1] \in QueuesOf(c)
      BY <1>3, <3>5 DEF QueuesOf
    <3>8. QED
      BY <1>8, <3>2, <3>5, <3>6, <3>7, QueuesGrow
  <2>2. \A c \in Chats : Seq(ItemsOf(c)) \subseteq Seq(Items)
    BY DEF ItemsOf
  <2>3. \A c \in Chats : /\ Map(rows(c), Item) \in Seq(Items) /\ image[c].sending \in Seq(Items)
                         /\ image[c].manual \in Seq(Items)
    BY <1>3, <2>1, <2>2
  <2>4. QED
    BY <1>1, <1>2, <2>1, <2>3, ZenonT(30) DEF QueueInv
<1>11. CryptInv'
  <2>1. NoKey \in KeyRecs /\ LocalKeys \subseteq KeyRecs
    BY DEF NoKey, KeyRecs, LocalKeys
  <2>2. \A c \in Chats : keys(c) \in Seq(KeyRecs)
    BY <1>5, <2>1, SeqGrows
  <2>3. keyCount' \in Nat
    <3>1. Cardinality(Chats) \in Nat
      BY Bounds, FS_CardinalityType
    <3>2. Cardinality(without) \in Nat
      <4>1. without \in SUBSET Chats
        OBVIOUS
      <4>. HIDE DEF without
      <4>2. QED
        BY <4>1, Bounds, FS_Subset, FS_CardinalityType
    <3>3. CASE without = Chats /\ keyCount' = Cardinality(Chats)
      BY <3>1, <3>3
    <3>4. CASE \E c \in Chats \ without, later \in 0..Cardinality(without) :
                   keyCount' = later - Last(keys(c)).id
      <4>1. PICK c \in Chats \ without, later \in 0..Cardinality(without) :
                   keyCount' = later - Last(keys(c)).id
        BY <3>4
      <4>2. Last(keys(c)).id \in Int /\ Last(keys(c)).id <= 0
        BY <1>6, <4>1
      <4>. HIDE DEF without
      <4>3. QED
        BY <3>2, <4>1, <4>2
    <3>5. QED
      BY <1>1, <3>3, <3>4
  <2>4. \A c \in Chats : NoPend \in Pends /\ NoPend \in PendsOf(c)
    BY NoCmdGood
  <2>5. pending' \in [Chats -> Pends] /\ \A c \in Chats : pending'[c] \in PendsOf(c)'
    BY <1>1, <1>8, <2>4, OfGrows
  <2>6. mCurrentKey' \in [Chats -> KeyRecs]
    BY <1>1, <1>6, <2>1
  <2>7. mUnconfirmedKeys' \in [Chats -> Seq(KeyRecs)] /\ mEncryptionHalted' \in [Chats -> BOOLEAN]
    BY <1>1, <2>2
  <2>8. QED
    BY <2>3, <2>5, <2>6, <2>7 DEF CryptInv
<1>12. ClientInv'
  BY <1>2, ZenonT(30) DEF TypesInv, ClientInv
<1>13. HistInv'
  <2>1. \A c \in Chats : HistOf(c) \subseteq Hist
    BY DEF HistOf
  <2>2. \A c \in Chats : image[c].history \in Seq(Hist) /\ image[c].history \in Seq(HistOf(c)')
    BY <1>3, <1>8, <2>1, OfGrows, SeqGrows
  <2>3. QED
    BY <1>2, <2>2, ZenonT(30) DEF HistInv
<1>14. ServerInv'
  <2>1. srv' \in [Chats -> Servers]
    BY <1>2, ZenonT(30) DEF TypesInv, ServerInv, Servers
  <2>2. budget' \in [drops : Nat, crashes : Nat, users : Nat, privs : Nat, foreign : 0..MaxForeign]
    BY <1>1 DEF TypesInv, ServerInv
  <2>3. \A c \in Chats : \A k \in DOMAIN srv[c].log :
            Of(c, srv[c].log[k]) /\ (c \in Public => srvMsg[srv[c].log[k]].key = 0)
    BY DEF TypesInv, ServerInv
  <2>4. \A n, c : Of(c, n)' <=> Of(c, n)
    BY <1>2, ZenonT(30) DEF Of
  <2>5. (\A c \in Chats : \A k \in DOMAIN srv[c].log :
            Of(c, srv[c].log[k]) /\ (c \in Public => srvMsg[srv[c].log[k]].key = 0))'
    BY <1>2, <1>7, <2>3, <2>4, ZenonT(30)
  <2>6. srvMsg' \in [Numbering -> Copies]
    BY <1>2, ZenonT(30) DEF TypesInv, ServerInv
  <2>7. QED
    BY <2>1, <2>2, <2>5, <2>6 DEF ServerInv
<1>15. NetInv'
  <2>1. conn' \in {"down", "up"} /\ c2s' = <<>> /\ s2c' = <<>>
    BY <1>2, ZenonT(30)
  <2>2. <<>> \in Seq(Up) /\ <<>> \in Seq(Down)
    OBVIOUS
  <2>3. QED
    BY <1>8, <2>1, <2>2, NetGrows
<1>16. Keeps
  <2>1. SUFFICES ASSUME NEW c \in Chats, NEW n \in Numbering, Stored(disk, c, n)
                 PROVE  Stored(Database, c, n)' \/ InLog(n)'
    BY DEF Keeps
  <2>2. (Stored(Database, c, n) <=> HasMsg(dbSending[c], dbManual[c], n))'
    BY InTables, PTL
  <2>3. Stored(image, c, n) \/ InLog(n)
    BY <2>1
  <2>4. Stored(image, c, n) => HasMsg(dbSending'[c], dbManual'[c], n)
    BY <1>2, StoredIs, ZenonT(30)
  <2>5. QED
    BY <1>8, <2>2, <2>3, <2>4 DEF Growing
<1>17. QED
  BY <1>8, <1>9, <1>10, <1>11, <1>12, <1>13, <1>14, <1>15, <1>16, Committed DEF GoodStep

-----------------------------------------------------------------------------
(* The environment *)

\* Neither messages nor logs change.
LEMMA SameGrows == ASSUME AppInv, UNCHANGED <<created, srv>> PROVE Growing
  BY Grows

\* A step that leaves the client alone.
LEMMA ClientAlone ==
    ASSUME TypesInv, KeptInv, Growing, UNCHANGED <<app, client, store, now>>
    PROVE  AppInv' /\ QueueInv' /\ CryptInv' /\ HistInv' /\ Keeps
<1>1. UNCHANGED <<created, edits, calls, now>>
  BY DEF app
<1>2. UNCHANGED <<mSending, mNextUnsent, dbSending, dbManual>>
  BY DEF client, store
<1>3. UNCHANGED <<mEncryptionHalted, pending, mCurrentKey, mUnconfirmedKeys, keyCount>>
  BY DEF client
<1>4. UNCHANGED history
  BY DEF store
<1>5. AppInv'
  BY <1>1, AppStays DEF TypesInv
<1>6. QueueInv'
  BY <1>2, QueueStays DEF TypesInv
<1>7. CryptInv'
  BY <1>3, CryptStays DEF TypesInv
<1>8. HistInv'
  BY <1>4, HistStays DEF TypesInv
<1>9. Keeps
  BY <1>2, KeepsSame DEF TypesInv
<1>10. QED
  BY <1>5, <1>6, <1>7, <1>8, <1>9

\* A commit writes the tables.
LEMMA CommitGood == ASSUME TypesInv, KeptInv, Commit PROVE GoodStep
<1>1. UNCHANGED <<created, srv, srvMsg, budget, mOnlineState, pubkeys, mUsers>>
  BY DEF Commit, app, server
<1>2. Growing
  BY <1>1, SameGrows DEF TypesInv
<1>3. AppInv' /\ QueueInv' /\ CryptInv' /\ HistInv' /\ Keeps
  BY <1>2, ClientAlone DEF Commit
<1>4. UNCHANGED <<dbSending, dbManual, history>>
  BY DEF Commit, store
<1>5. disk' = Database'
  BY <1>4 DEF Commit, Database
<1>6. NetInv' /\ ServerInv' /\ ClientInv'
  BY <1>1, <1>2, NetStays, ServerStays, ClientStays DEF TypesInv, Commit
<1>7. QED
  BY <1>2, <1>3, <1>5, <1>6 DEF GoodStep

\* The process starts again from the disk.
LEMMA CrashGood == ASSUME TypesInv, KeptInv, Crash PROVE GoodStep
<1>1. disk \in Images
  BY DEF TypesInv, DiskInv
<1>2. Restart(disk, {}) /\ UNCHANGED pubkeys /\ Autocommit
  BY DEF Crash
<1>3. pubkeys' \in [Chats -> SUBSET Memberships]
  BY <1>2 DEF TypesInv, ClientInv
<1>4. QED
  BY <1>1, <1>2, <1>3, RestartGood

\* A second passes.
LEMMA TickGood == ASSUME TypesInv, KeptInv, Tick PROVE GoodStep
<1>1. UNCHANGED <<created, edits, calls, srv, srvMsg, budget, mOnlineState, pubkeys, mUsers>>
  BY DEF Tick, app, server
<1>1a. UNCHANGED <<client, store, net>> /\ now' = now + 1 /\ Autocommit
  BY DEF Tick
<1>2. Growing
  BY <1>1, SameGrows DEF TypesInv
<1>3. UNCHANGED <<mSending, mNextUnsent, dbSending, dbManual, history>>
  BY <1>1a DEF client, store
<1>4. UNCHANGED <<mEncryptionHalted, pending, mCurrentKey, mUnconfirmedKeys, keyCount>>
  BY <1>1a DEF client
<1>5. AppInv'
  <2>1. now \in Nat /\ now' \in Nat /\ \A n \in DOMAIN created : created[n].ts <= now /\ created[n].ts \in Nat
    BY <1>1a, CreatedIn DEF TypesInv, AppInv
  <2>2. \A n \in DOMAIN created : created[n].ts <= now'
    BY <1>1a, <2>1
  <2>3. Marshalled \subseteq Marshalled'
    BY <1>2, CommandsGrow
  <2>4. calls' \in Seq(Marshalled')
    BY <1>1, <2>3, SeqGrows DEF TypesInv, AppInv
  <2>5. QED
    BY <1>1, <2>1, <2>2, <2>4 DEF TypesInv, AppInv
<1>6. QueueInv' /\ CryptInv' /\ HistInv' /\ Keeps
  BY <1>2, <1>3, <1>4, QueueStays, CryptStays, HistStays, KeepsSame DEF TypesInv
<1>7. NetInv' /\ ServerInv' /\ ClientInv'
  BY <1>1, <1>1a, <1>2, NetStays, ServerStays, ClientStays DEF TypesInv
<1>8. QED
  BY <1>1a, <1>2, <1>5, <1>6, <1>7, Committed DEF GoodStep

\* The server's state changes in a chat, but not the log.
LEMMA ServerChanges ==
    ASSUME ServerInv, AppInv, UNCHANGED <<created, srvMsg>>, srv' \in [Chats -> Servers],
           \A c \in Chats : srv'[c].log = srv[c].log,
           budget' \in [drops : Nat, crashes : Nat, users : Nat, privs : Nat, foreign : 0..MaxForeign]
    PROVE  ServerInv' /\ Growing
<1>1. Growing
  BY Grows
<1>2. \A c \in Chats : \A k \in DOMAIN srv[c].log :
            Of(c, srv[c].log[k]) /\ (c \in Public => srvMsg[srv[c].log[k]].key = 0)
  BY DEF ServerInv
<1>3. \A n, c : Of(c, n)' <=> Of(c, n)
  BY DEF Of
<1>4. (\A c \in Chats : \A k \in DOMAIN srv[c].log :
            Of(c, srv[c].log[k]) /\ (c \in Public => srvMsg[srv[c].log[k]].key = 0))'
  BY <1>2, <1>3
<1>5. srvMsg' \in [Numbering -> Copies]
  BY DEF ServerInv
<1>6. QED
  BY <1>1, <1>4, <1>5 DEF ServerInv

\* The environment uses up one of its bounds.
LEMMA BudgetIs ==
    ASSUME ServerInv
    PROVE  /\ budget.crashes > 0 => [budget EXCEPT !.crashes = @ - 1]
                  \in [drops : Nat, crashes : Nat, users : Nat, privs : Nat, foreign : 0..MaxForeign]
           /\ budget.drops > 0 => [budget EXCEPT !.drops = @ - 1]
                  \in [drops : Nat, crashes : Nat, users : Nat, privs : Nat, foreign : 0..MaxForeign]
           /\ budget.users > 0 => [budget EXCEPT !.users = @ - 1]
                  \in [drops : Nat, crashes : Nat, users : Nat, privs : Nat, foreign : 0..MaxForeign]
           /\ budget.privs > 0 => [budget EXCEPT !.privs = @ - 1]
                  \in [drops : Nat, crashes : Nat, users : Nat, privs : Nat, foreign : 0..MaxForeign]
           /\ budget.foreign > 0 => [budget EXCEPT !.foreign = @ - 1]
                  \in [drops : Nat, crashes : Nat, users : Nat, privs : Nat, foreign : 0..MaxForeign]
  BY Bounds DEF ServerInv

\* The write access changes,
LEMMA PrivilegeGood ==
    ASSUME TypesInv, KeptInv, NEW c \in Chats, Privilege(c) PROVE GoodStep
<1>1. /\ UNCHANGED <<created, srvMsg, mOnlineState, pubkeys, mUsers, app, client, store, now, net>>
      /\ Autocommit /\ budget.privs > 0 /\ budget' = [budget EXCEPT !.privs = @ - 1]
      /\ srv' = [srv EXCEPT ![c].write = ~@]
  BY DEF Privilege, app
<1>2. srv' \in [Chats -> Servers] /\ \A d \in Chats : srv'[d].log = srv[d].log
  BY <1>1, ZenonT(30) DEF TypesInv, ServerInv, Servers
<1>3. ServerInv' /\ Growing
  BY <1>1, <1>2, BudgetIs, ServerChanges DEF TypesInv
<1>4. AppInv' /\ QueueInv' /\ CryptInv' /\ HistInv' /\ Keeps
  BY <1>1, <1>3, ClientAlone
<1>5. NetInv' /\ ClientInv'
  BY <1>1, <1>3, NetStays, ClientStays DEF TypesInv
<1>6. QED
  BY <1>1, <1>3, <1>4, <1>5, Committed DEF GoodStep

\* A message that is told is one more on the way.
LEMMA BroadcastGood ==
    ASSUME NetInv, NEW c \in Chats, NEW m \in Down, Broadcast(c, m)
    PROVE  s2c' \in Seq(Down)
  BY DEF NetInv, Broadcast

\* the members of a chat change,
LEMMA UsersChangeGood ==
    ASSUME TypesInv, KeptInv, NEW c \in Chats, NEW e \in Memberships, UsersChange(c, e)
    PROVE  GoodStep
<1>1. /\ UNCHANGED <<created, srvMsg, mOnlineState, pubkeys, mUsers, app, client, store, now, conn, c2s>>
      /\ Autocommit /\ budget.users > 0 /\ budget' = [budget EXCEPT !.users = @ - 1]
      /\ srv' = [srv EXCEPT ![c].users = e]
      /\ Broadcast(c, [op |-> "USERS", chat |-> c, users |-> e])
  BY DEF UsersChange, app
<1>2. srv' \in [Chats -> Servers] /\ \A d \in Chats : srv'[d].log = srv[d].log
  BY <1>1 DEF TypesInv, ServerInv, Servers
<1>3. ServerInv' /\ Growing
  BY <1>1, <1>2, BudgetIs, ServerChanges DEF TypesInv
<1>4. AppInv' /\ QueueInv' /\ CryptInv' /\ HistInv' /\ Keeps
  BY <1>1, <1>3, ClientAlone
<1>5. [op |-> "USERS", chat |-> c, users |-> e] \in Down
  BY DEF Down
<1>6. s2c' \in Seq(Down)
  BY <1>1, <1>5, BroadcastGood DEF TypesInv
<1>7. NetInv' /\ ClientInv'
  BY <1>1, <1>3, <1>6, NetGrows, ClientStays DEF TypesInv, NetInv
<1>8. QED
  BY <1>1, <1>3, <1>4, <1>7, Committed DEF GoodStep

\* and another client edits a message.
LEMMA ForeignEditGood ==
    ASSUME TypesInv, KeptInv, NEW c \in Chats, NEW n \in DOMAIN created, ForeignEdit(c, n)
    PROVE  GoodStep
<1>1. /\ UNCHANGED <<created, srv, mOnlineState, pubkeys, mUsers, app, client, store, now, conn, c2s>>
      /\ Autocommit /\ budget.foreign > 0 /\ budget' = [budget EXCEPT !.foreign = @ - 1]
      /\ srvMsg' = [srvMsg EXCEPT ![n].data = MaxEdits + budget.foreign, ![n].upd = @ + 1]
      /\ Broadcast(c, [op |-> "MSGUPD", chat |-> c, n |-> n, msg |-> srvMsg'[n]])
  BY DEF ForeignEdit, app
<1>2. Growing
  BY <1>1, SameGrows DEF TypesInv
<1>3. n \in Numbering
  BY CreatedIn, Bounds DEF TypesInv, Numbering
<1>4. srvMsg' \in [Numbering -> Copies] /\ \A i \in Numbering : srvMsg'[i].key = srvMsg[i].key
  <2>1. budget.foreign \in 0..MaxForeign
    BY DEF TypesInv, ServerInv
  <2>2. MaxEdits + budget.foreign \in Contents
    BY <2>1, Bounds DEF Contents
  <2>3. srvMsg \in [Numbering -> Copies] /\ srvMsg[n].upd + 1 \in Nat
    BY <1>3 DEF TypesInv, ServerInv, Copies
  <2>4. QED
    BY <1>1, <1>3, <2>2, <2>3 DEF Copies
<1>5. ServerInv'
  <2>1. \A d \in Chats : srv[d].log \in Seq(Numbering)
    BY DEF TypesInv, ServerInv, Servers
  <2>2. \A d \in Chats : \A k \in DOMAIN srv[d].log : srv[d].log[k] \in Numbering
    BY <2>1
  <2>3. \A d \in Chats : \A k \in DOMAIN srv[d].log :
            Of(d, srv[d].log[k])' /\ (d \in Public => srvMsg'[srv[d].log[k]].key = 0)
    BY <1>1, <1>4, <2>2 DEF TypesInv, ServerInv, Of
  <2>4. srv' = srv /\ srv \in [Chats -> Servers]
        /\ budget' \in [drops : Nat, crashes : Nat, users : Nat, privs : Nat, foreign : 0..MaxForeign]
    BY <1>1, BudgetIs DEF TypesInv, ServerInv
  <2>5. QED
    BY <1>4, <2>3, <2>4 DEF ServerInv
<1>6. AppInv' /\ QueueInv' /\ CryptInv' /\ HistInv' /\ Keeps
  BY <1>1, <1>2, ClientAlone
<1>7. [op |-> "MSGUPD", chat |-> c, n |-> n, msg |-> srvMsg'[n]] \in Down
  BY <1>3, <1>4 DEF Down
<1>8. s2c' \in Seq(Down)
  BY <1>1, <1>7, BroadcastGood DEF TypesInv
<1>9. NetInv' /\ ClientInv'
  BY <1>1, <1>2, <1>8, NetGrows, ClientStays DEF TypesInv, NetInv
<1>10. QED
  BY <1>1, <1>2, <1>5, <1>6, <1>9, Committed DEF GoodStep

\* The connection is lost.
LEMMA DisconnectGood == ASSUME TypesInv, KeptInv, Disconnect PROVE GoodStep
<1>1. /\ UNCHANGED <<created, srvMsg, pubkeys, mUsers, app, client, store, now>>
      /\ Autocommit /\ budget.drops > 0 /\ budget' = [budget EXCEPT !.drops = @ - 1]
      /\ conn' = "down" /\ c2s' = <<>> /\ s2c' = <<>>
      /\ mOnlineState' = [c \in Chats |-> "Offline"]
      /\ srv' = [c \in Chats |-> [srv[c] EXCEPT !.joined = FALSE, !.keyxids = {}]]
  BY ZenonT(30) DEF Disconnect, app
<1>2. srv' \in [Chats -> Servers] /\ \A d \in Chats : srv'[d].log = srv[d].log
  BY <1>1, ZenonT(30) DEF TypesInv, ServerInv, Servers
<1>3. ServerInv' /\ Growing
  BY <1>1, <1>2, BudgetIs, ServerChanges, ZenonT(30) DEF TypesInv
<1>4. AppInv' /\ QueueInv' /\ CryptInv' /\ HistInv' /\ Keeps
  BY <1>1, <1>3, ClientAlone, ZenonT(30)
<1>5. <<>> \in Seq(Up) /\ <<>> \in Seq(Down)
  OBVIOUS
<1>6. NetInv'
  BY <1>1, <1>3, <1>5, NetGrows, ZenonT(30)
<1>7. ClientInv'
  BY <1>1, ZenonT(30) DEF TypesInv, ClientInv
<1>8. QED
  BY <1>1, <1>3, <1>4, <1>6, <1>7, Committed, ZenonT(30) DEF GoodStep

\* What a command from the server says.
LEMMA DownSays ==
    ASSUME NEW m \in Down
    PROVE  /\ m.op = "USERS" => m.chat \in Chats /\ m.users \in Memberships
           /\ m.op = "NEWMSG" => /\ m.chat \in Chats /\ m.n \in Numbering /\ m.n \in DOMAIN created
                                 /\ m.msg \in Copies /\ (m.chat \in Public => m.msg.key = 0)
           /\ m.op = "HISTDONE" => m.chat \in Chats
           /\ m.op = "NEWKEYID" => m.chat \in Chats \ Public /\ m.keyid \in Nat
           /\ m.op \in {"MSGID", "NEWMSGID"} => m.n \in Numbering /\ InLog(m.n)
           /\ m.op = "MSGUPD" => m.chat \in Chats /\ m.n \in Numbering /\ m.msg \in Copies
           /\ m.op = "REJECT" => m.chat \in Chats
  BY DEF Down

\* A command is received: what is left is still good.
LEMMA Received ==
    ASSUME NetInv, NEW op, Receive(op)
    PROVE  Head(s2c) \in Down /\ Head(s2c).op = op /\ s2c' \in Seq(Down)
<1>1. s2c \in Seq(Down) /\ s2c # <<>>
  BY DEF NetInv, Receive
<1>2. QED
  BY <1>1, HeadOf DEF Receive

\* A step of the client that leaves the server and what is sent to it alone.
LEMMA ServerAlone ==
    ASSUME TypesInv, UNCHANGED <<created, conn, c2s, server, budget>>, s2c' \in Seq(Down)
    PROVE  Growing /\ ServerInv' /\ NetInv'
<1>1. UNCHANGED <<created, srv, srvMsg, budget>>
  BY DEF server
<1>2. Growing
  BY <1>1, SameGrows DEF TypesInv
<1>3. ServerInv'
  BY <1>1, <1>2, ServerStays DEF TypesInv
<1>4. NetInv'
  BY <1>2, NetGrows DEF TypesInv, NetInv
<1>5. QED
  BY <1>2, <1>3, <1>4

\* Connection::execCommand, command by command: the members of a chat.
LEMMA RecvUsersGood == ASSUME TypesInv, KeptInv, RecvUsers PROVE GoodStep
<1>1. /\ Receive("USERS") /\ UNCHANGED <<created, app, client, pubkeys, mOnlineState, store, conn, c2s, server, now, budget>>
      /\ mUsers' = [mUsers EXCEPT ![Head(s2c).chat] = Head(s2c).users] /\ Autocommit
  BY DEF RecvUsers, app
<1>2. Head(s2c) \in Down /\ Head(s2c).op = "USERS" /\ s2c' \in Seq(Down)
  BY <1>1, Received DEF TypesInv
<1>3. Growing /\ ServerInv' /\ NetInv'
  BY <1>1, <1>2, ServerAlone
<1>4. AppInv' /\ QueueInv' /\ CryptInv' /\ HistInv' /\ Keeps
  BY <1>1, <1>3, ClientAlone
<1>5. Head(s2c).users \in Memberships
  BY <1>2, DownSays
<1>6. ClientInv'
  BY <1>1, <1>5 DEF TypesInv, ClientInv
<1>7. QED
  BY <1>1, <1>3, <1>4, <1>6, Committed DEF GoodStep

\* The chats log in.
LEMMA ConnectGood == ASSUME TypesInv, KeptInv, Connect PROVE GoodStep
<1>1. /\ UNCHANGED <<created, app, client, pubkeys, mUsers, store, s2c, server, now, budget>>
      /\ UNCHANGED <<srv, srvMsg>>
      /\ Autocommit /\ conn' = "up" /\ mOnlineState' = [c \in Chats |-> "Joining"]
  BY ZenonT(30) DEF Connect, app, server
<1>2. Growing /\ ServerInv'
  BY <1>1, SameGrows, ServerStays DEF TypesInv
<1>3. AppInv' /\ QueueInv' /\ CryptInv' /\ HistInv' /\ Keeps
  BY <1>1, <1>2, ClientAlone
<1>4. c2s' \in Seq(Up)
  <2>1. PICK order \in SetToSeqs(Chats) :
            c2s' = Map(order, LAMBDA c : [op |-> "JOIN", chat |-> c,
                                          n |-> IF history[c] = <<>> THEN 0 ELSE Last(history[c]).n])
    BY ZenonT(30) DEF Connect
  <2>2. order \in [1..Cardinality(Chats) -> Chats] /\ Cardinality(Chats) \in Nat
    BY Bounds, FS_CardinalityType DEF SetToSeqs
  <2>3. order \in Seq(Chats)
    BY <2>2
  <2>4. ASSUME NEW i \in DOMAIN order
        PROVE  [op |-> "JOIN", chat |-> order[i],
                n |-> IF history[order[i]] = <<>> THEN 0 ELSE Last(history[order[i]]).n] \in Up
    <3>1. PICK c \in Chats : c = order[i]
      BY <2>3
    <3>2. history[c] \in Seq(Hist)
      BY DEF TypesInv, HistInv
    <3>3. history[c] # <<>> => Last(history[c]) \in Hist
      BY <3>2 DEF Last
    <3>4. history[c] # <<>> => Last(history[c]).n \in 0..MaxMsgs
      BY <3>3, Bounds DEF Hist, Numbering
    <3>5. PICK n : n = IF history[c] = <<>> THEN 0 ELSE Last(history[c]).n
      OBVIOUS
    <3>6. n \in 0..MaxMsgs
      BY <3>4, <3>5, Bounds
    <3>7. [op |-> "JOIN", chat |-> c, n |-> n] \in Up
      BY <3>6 DEF Up
    <3>8. QED
      BY <3>1, <3>5, <3>7
  <2>5. c2s' \in [DOMAIN order -> Up]
    BY <2>1, <2>4 DEF Map
  <2>6. QED
    BY <2>3, <2>5, MapType
<1>5. NetInv'
  BY <1>1, <1>2, <1>4, NetGrows DEF TypesInv, NetInv
<1>6. ClientInv'
  BY <1>1 DEF TypesInv, ClientInv
<1>7. QED
  BY <1>1, <1>2, <1>3, <1>5, <1>6, Committed DEF GoodStep

\* A key is rejected.
LEMMA RecvRejectNewkeyGood == ASSUME TypesInv, KeptInv, RecvRejectNewkey PROVE GoodStep
<1> DEFINE c == Head(s2c).chat
<1>1. /\ Receive("REJECT")
      /\ mUnconfirmedKeys' = [mUnconfirmedKeys EXCEPT ![c] = IF @ = <<>> THEN @ ELSE Tail(@)]
      /\ mCurrentKey' = [mCurrentKey EXCEPT ![c] = IF Len(mUnconfirmedKeys[c]) = 1 THEN NoKey
                                                     ELSE @]
      /\ UNCHANGED <<app, created, edits, calls, mSending, mNextUnsent, mEncryptionHalted, pending, keyCount, pubkeys,
                       mUsers, mOnlineState, store, conn, c2s, server, now, budget>>
      /\ UNCHANGED <<dbSending, dbManual, history>>
      /\ Autocommit
  BY DEF RecvRejectNewkey, app, store
<1>. HIDE DEF c
<1>2. Head(s2c) \in Down /\ Head(s2c).op = "REJECT" /\ s2c' \in Seq(Down)
  BY <1>1, Received DEF TypesInv
<1>3. Growing /\ ServerInv' /\ NetInv'
  BY <1>1, <1>2, ServerAlone
<1>4. AppInv' /\ QueueInv' /\ HistInv' /\ Keeps /\ ClientInv'
  BY <1>1, <1>3, AppStays, QueueStays, HistStays, KeepsSame, ClientStays DEF TypesInv
<1>5. CryptInv'
  <2>1. NoKey \in KeyRecs
    BY DEF NoKey, KeyRecs
  <2>2. \A d \in Chats : mUnconfirmedKeys[d] # <<>> => Tail(mUnconfirmedKeys[d]) \in Seq(KeyRecs)
    BY HeadOf DEF TypesInv, CryptInv
  <2>3. mUnconfirmedKeys' \in [Chats -> Seq(KeyRecs)] /\ mCurrentKey' \in [Chats -> KeyRecs]
    BY <1>1, <2>1, <2>2 DEF TypesInv, CryptInv
  <2>4. \A d : PendsOf(d) \subseteq PendsOf(d)'
    BY <1>3, OfGrows
  <2>5. QED
    BY <1>1, <2>3, <2>4 DEF TypesInv, CryptInv
<1>6. QED
  BY <1>1, <1>3, <1>4, <1>5, Committed DEF GoodStep

\* A step that changes only the queue of a chat, and its encryption.
LEMMA QueueStep ==
    ASSUME TypesInv, KeptInv, Growing, NEW c \in Chats, NEW Q, NEW R, Becomes(c, Q, R),
           Spares(Queue(c), Q)
    PROVE  QueueInv' /\ Keeps
  BY BecomesGood, KeepsSpares DEF TypesInv

\* A queue spares its own messages.
LEMMA SparesSelf == ASSUME NEW Q PROVE Spares(Q, Q)
  BY DEF Spares

\* The promise of an encryption fails.
LEMMA EncryptFailsGood ==
    ASSUME TypesInv, KeptInv, NEW c \in Chats, EncryptFails(c) PROVE GoodStep
<1>1. /\ SetQueue(c, RejectFront(Queue(c), pending[c].cmd.n, pending[c].cmd.x))
      /\ mEncryptionHalted' = [mEncryptionHalted EXCEPT ![c] = FALSE]
      /\ pending' = [pending EXCEPT ![c] = NoPend]
      /\ UNCHANGED <<created, edits, calls, mCurrentKey, mUnconfirmedKeys, keyCount, pubkeys, mUsers, mOnlineState,
                   history, net, srv, srvMsg, now, budget>>
      /\ Autocommit
  BY DEF EncryptFails, app, server
<1>2. Growing /\ ServerInv' /\ NetInv' /\ ClientInv' /\ HistInv' /\ AppInv'
  BY <1>1, SameGrows, ServerStays, NetStays, ClientStays, HistStays, AppStays DEF TypesInv
<1>3. Queue(c) \in QueuesOf(c)
  BY DEF TypesInv, QueueInv
<1>4. PICK R : R = RejectFront(Queue(c), pending[c].cmd.n, pending[c].cmd.x)
  OBVIOUS
<1>5. Becomes(c, Queue(c), R)
  BY <1>1, <1>3, <1>4, RejectGood DEF Becomes
<1>6. QueueInv' /\ Keeps
  BY <1>2, <1>5, SparesSelf, QueueStep
<1>7. CryptInv'
  <2>1. \A d \in Chats : NoPend \in PendsOf(d) /\ NoPend \in Pends /\ PendsOf(d) \subseteq PendsOf(d)'
    BY <1>2, NoCmdGood, OfGrows
  <2>2. pending' \in [Chats -> Pends] /\ \A d \in Chats : pending'[d] \in PendsOf(d)'
    BY <1>1, <2>1 DEF TypesInv, CryptInv
  <2>3. mEncryptionHalted' \in [Chats -> BOOLEAN]
    BY <1>1 DEF TypesInv, CryptInv
  <2>4. QED
    BY <1>1, <2>2, <2>3 DEF TypesInv, CryptInv
<1>8. QED
  BY <1>1, <1>2, <1>6, <1>7, Committed DEF GoodStep

\* A message is rejected, and goes to manual sending.
LEMMA RecvRejectNewmsgGood == ASSUME TypesInv, KeptInv, RecvRejectNewmsg PROVE GoodStep
<1>1. PICK c : c = Head(s2c).chat
  OBVIOUS
<1>2. PICK R : R = RejectFront(Queue(c), Head(s2c).n, TRUE)
  OBVIOUS
<1>3. /\ Receive("REJECT") /\ SetQueue(c, R)
      /\ UNCHANGED <<app, created, edits, calls, mEncryptionHalted, pending, mCurrentKey, mUnconfirmedKeys, keyCount,
                     pubkeys, mUsers, mOnlineState, history, conn, c2s, server, now, budget>>
      /\ Autocommit
  BY <1>1, <1>2 DEF RecvRejectNewmsg, app, unqueued
<1>4. Head(s2c) \in Down /\ Head(s2c).op = "REJECT" /\ s2c' \in Seq(Down)
  BY <1>3, Received DEF TypesInv
<1>5. Growing /\ ServerInv' /\ NetInv'
  BY <1>3, <1>4, ServerAlone
<1>6. AppInv' /\ CryptInv' /\ HistInv' /\ ClientInv'
  BY <1>3, <1>5, AppStays, CryptStays, HistStays, ClientStays DEF TypesInv
<1>7. c \in Chats
  BY <1>1, <1>4, DownSays
<1>8. Queue(c) \in QueuesOf(c)
  BY <1>7 DEF TypesInv, QueueInv
<1>9. Becomes(c, Queue(c), R)
  BY <1>2, <1>3, <1>8, RejectGood DEF Becomes
<1>10. QueueInv' /\ Keeps
  BY <1>5, <1>7, <1>9, SparesSelf, QueueStep
<1>11. QED
  BY <1>3, <1>5, <1>6, <1>10, Committed DEF GoodStep

\* An edit is rejected.
LEMMA RecvRejectMsgupdGood == ASSUME TypesInv, KeptInv, RecvRejectMsgupd PROVE GoodStep
<1>1. PICK c : c = Head(s2c).chat
  OBVIOUS
<1>2. PICK R : R = IF mSending[c] = <<>> \/ ~IsEdit(Head(mSending[c]))
                      \/ ~HasId(Head(mSending[c]), Head(s2c).n, Head(s2c).x) THEN Queue(c)
                   ELSE IF Head(s2c).reason = 2 THEN EraseAt(Queue(c), {1})
                   ELSE MoveItemToManualSending(Queue(c))
  OBVIOUS
<1>3. /\ Receive("REJECT") /\ SetQueue(c, R)
      /\ UNCHANGED <<app, created, edits, calls, mEncryptionHalted, pending, mCurrentKey, mUnconfirmedKeys, keyCount,
                     pubkeys, mUsers, mOnlineState, history, conn, c2s, server, now, budget>>
      /\ Autocommit
  BY <1>1, <1>2 DEF RecvRejectMsgupd, app, unqueued
<1>4. Head(s2c) \in Down /\ Head(s2c).op = "REJECT" /\ s2c' \in Seq(Down)
  BY <1>3, Received DEF TypesInv
<1>5. Growing /\ ServerInv' /\ NetInv'
  BY <1>3, <1>4, ServerAlone
<1>6. AppInv' /\ CryptInv' /\ HistInv' /\ ClientInv'
  BY <1>3, <1>5, AppStays, CryptStays, HistStays, ClientStays DEF TypesInv
<1>7. c \in Chats
  BY <1>1, <1>4, DownSays
<1>8. Queue(c) \in QueuesOf(c) /\ Queue(c).q = mSending[c]
  BY <1>7 DEF TypesInv, QueueInv, Queue
<1>9. R \in QueuesOf(c) /\ Spares(Queue(c), R)
  <2>1. CASE R = Queue(c)
    BY <1>8, <2>1, SparesSelf
  <2>2. CASE mSending[c] # <<>> /\ IsEdit(Head(mSending[c])) /\ R = EraseAt(Queue(c), {1})
    <3>1. Queue(c).q \in Seq(ItemsOf(c)) /\ Queue(c).q # <<>>
      BY <1>8, <2>2 DEF QueuesOf
    <3>2. {1} \in SUBSET (DOMAIN Queue(c).q) /\ Queue(c).q[1] = Head(mSending[c])
      BY <1>8, <3>1
    <3>3. \A e \in {1} : ~IsNew(Queue(c).q[e])
      BY <2>2, <3>2 DEF IsNew, IsEdit
    <3>4. QED
      BY <1>8, <2>2, <3>2, <3>3, EraseGood, EraseSpares
  <2>3. CASE mSending[c] # <<>> /\ R = MoveItemToManualSending(Queue(c))
    BY <1>8, <2>3, MoveGood
  <2>4. QED
    BY <1>2, <2>1, <2>2, <2>3
<1>10. QueueInv' /\ Keeps
  BY <1>3, <1>5, <1>7, <1>9, SparesSelf, QueueStep DEF Becomes
<1>11. QED
  BY <1>3, <1>5, <1>6, <1>10, Committed DEF GoodStep

\* The history of a chat changes.
LEMMA HistChanges ==
    ASSUME HistInv, Growing, NEW c \in Chats, NEW h \in Seq(HistOf(c)),
           history' = [history EXCEPT ![c] = h]
    PROVE  HistInv'
<1>1. HistOf(c) \subseteq Hist
  BY DEF HistOf
<1>2. h \in Seq(Hist)
  BY <1>1, SeqGrows
<1>3. \A d \in Chats : history'[d] \in Seq(HistOf(d))
  BY DEF HistInv
<1>4. \A d \in Chats : history'[d] \in Seq(HistOf(d)')
  BY <1>3, OfGrows, SeqGrows
<1>5. QED
  BY <1>2, <1>4 DEF HistInv

\* A message of ours comes back.
LEMMA RecvNewmsgGood == ASSUME TypesInv, KeptInv, RecvNewmsg PROVE GoodStep
<1>1. PICK c, n, m : c = Head(s2c).chat /\ n = Head(s2c).n /\ m = Head(s2c).msg
  OBVIOUS
<1>2. /\ Receive("NEWMSG")
      /\ history' = IF Known(c, n) THEN history
                    ELSE [history EXCEPT ![c] = Append(@, [n |-> n, data |-> m.data,
                                                           upd |-> m.upd, key |-> m.key])]
      /\ UNCHANGED <<app, created, edits, calls, client, mSending, mNextUnsent, mEncryptionHalted, pending, mCurrentKey, mUnconfirmedKeys, keyCount,
                     pubkeys, mUsers, mOnlineState, dbSending, dbManual, conn, c2s, server, now, budget>>
      /\ Autocommit
  BY <1>1 DEF RecvNewmsg, app, client
<1>3. Head(s2c) \in Down /\ Head(s2c).op = "NEWMSG" /\ s2c' \in Seq(Down)
  BY <1>2, Received DEF TypesInv
<1>4. Growing /\ ServerInv' /\ NetInv'
  BY <1>2, <1>3, ServerAlone
<1>5. AppInv' /\ QueueInv' /\ CryptInv' /\ ClientInv' /\ Keeps
  BY <1>2, <1>4, AppStays, QueueStays, CryptStays, ClientStays, KeepsSame DEF TypesInv
<1>6. /\ c \in Chats /\ n \in Numbering /\ n \in DOMAIN created
      /\ m \in Copies /\ (c \in Public => m.key = 0)
  BY <1>1, <1>3, DownSays
<1>7. HistInv'
  <2>1. CASE Known(c, n)
    BY <1>2, <1>4, <2>1, HistStays DEF TypesInv
  <2>2. CASE ~Known(c, n)
    <3>1. [n |-> n, data |-> m.data, upd |-> m.upd, key |-> m.key] \in HistOf(c)
      BY <1>6 DEF HistOf, Hist, Copies
    <3>2. history[c] \in Seq(HistOf(c))
      BY <1>6 DEF TypesInv, HistInv
    <3>2a. PICK x \in HistOf(c) : x = [n |-> n, data |-> m.data, upd |-> m.upd, key |-> m.key]
      BY <3>1
    <3>2b. Append(history[c], x) \in Seq(HistOf(c))
      BY <3>2
    <3>3. PICK h \in Seq(HistOf(c)) : h = Append(history[c], x)
      BY <3>2b
    <3>4. history' = [history EXCEPT ![c] = h]
      BY <1>2, <2>2, <3>2a, <3>3
    <3>5. QED
      BY <1>4, <1>6, <3>4, HistChanges DEF TypesInv
  <2>3. QED
    BY <2>1, <2>2
<1>8. QED
  BY <1>2, <1>4, <1>5, <1>7, Committed DEF GoodStep

\* A chat is online: the whole queue is flushed.
LEMMA RecvHistdoneGood == ASSUME TypesInv, KeptInv, RecvHistdone PROVE GoodStep
<1>1. PICK c : c = Head(s2c).chat
  OBVIOUS
<1>2. /\ Receive("HISTDONE")
      /\ mOnlineState' = [mOnlineState EXCEPT ![c] = "Online"]
      /\ FlushOutputQueue(c, Queue(c), 1, mEncryptionHalted[c], <<>>, {})
      /\ UNCHANGED <<created, edits, calls, pubkeys, mUsers, history, conn, srv, srvMsg, now, budget>>
      /\ Autocommit
  BY <1>1 DEF RecvHistdone, Walk, app, server
<1>3. Head(s2c) \in Down /\ Head(s2c).op = "HISTDONE" /\ s2c' \in Seq(Down)
  BY <1>2, Received DEF TypesInv
<1>4. c \in Chats
  BY <1>1, <1>3, DownSays
<1>5. Growing /\ ServerInv' /\ AppInv' /\ HistInv'
  BY <1>2, SameGrows, ServerStays, AppStays, HistStays DEF TypesInv
<1>6. Queue(c) \in QueuesOf(c) /\ 1 <= Len(Queue(c).q) + 1
  BY <1>4 DEF TypesInv, QueueInv, QueuesOf
<1>7. mEncryptionHalted[c] \in BOOLEAN /\ <<>> \in Seq(Up) /\ c2s \in Seq(Up)
  BY <1>4 DEF TypesInv, CryptInv, NetInv
<1>8. (\E R : Becomes(c, Queue(c), R)) /\ CryptInv' /\ c2s' \in Seq(Up)
  <2>1. PICK Q \in QueuesOf(c) : Q = Queue(c)
    BY <1>6
  <2>2. FlushOutputQueue(c, Q, 1, mEncryptionHalted[c], <<>>, {}) /\ CryptInv /\ Growing
        /\ 1 \in Nat \ {0} /\ 1 <= Len(Q.q) + 1
    BY <1>2, <1>5, <1>6, <2>1 DEF TypesInv
  <2>3. (\E R : Becomes(c, Q, R)) /\ CryptInv' /\ c2s' \in Seq(Up)
    BY <1>4, <1>7, <2>2, FlushGood
  <2>4. QED
    BY <2>1, <2>3
<1>9. QueueInv' /\ Keeps
  BY <1>4, <1>5, <1>8, SparesSelf, QueueStep
<1>10. NetInv'
  BY <1>2, <1>3, <1>5, <1>8, NetGrows DEF TypesInv, NetInv
<1>11. ClientInv'
  BY <1>2, <1>4 DEF TypesInv, ClientInv
<1>12. QED
  BY <1>2, <1>5, <1>8, <1>9, <1>10, <1>11, Committed DEF GoodStep

\* The chat that takes a confirmation has the message at its front, or an edit of the history.
LEMMA TakerIs ==
    ASSUME TypesInv, NEW n, InLog(n), NEW c, c = Taker(n), c # -1
    PROVE  /\ c \in Chats /\ Queue(c) \in QueuesOf(c) /\ Queue(c).q = mSending[c] /\ mSending[c] # <<>>
           /\ EraseAt(PassFront(Queue(c)), {1}) \in QueuesOf(c)
           /\ Spares(Queue(c), EraseAt(PassFront(Queue(c)), {1}))
<1>1. PICK able : able = {d \in Chats : ~Refuses(mSending[d], n, TRUE)}
  OBVIOUS
<1>2. c = IF able = {} THEN -1 ELSE Min(able)
  BY <1>1, Zenon DEF Taker
<1>3. able # {} /\ able \in SUBSET Nat
  BY <1>1, <1>2, Bounds
<1>4. c \in able
  BY <1>2, <1>3, MinIn
<1>5. c \in Chats /\ ~Refuses(mSending[c], n, TRUE)
  BY <1>1, <1>4
<1>6. Queue(c) \in QueuesOf(c) /\ Queue(c).q = mSending[c] /\ mSending[c] # <<>>
  BY <1>5 DEF TypesInv, QueueInv, Queue, Refuses
<1>7. IsNew(Head(mSending[c])) => Head(mSending[c]).n = n
  BY <1>5 DEF Refuses, HasId
<1>8. PICK P : P = PassFront(Queue(c))
  OBVIOUS
<1>9. P \in QueuesOf(c) /\ P.q = mSending[c] /\ P.rows = Queue(c).rows /\ P.manual = Queue(c).manual
  BY <1>6, <1>8, PassGood
<1>10. {1} \in SUBSET (DOMAIN P.q) /\ P.q[1] = Head(mSending[c])
  <2>1. P.q \in Seq(ItemsOf(c))
    BY <1>9 DEF QueuesOf
  <2>2. QED
    BY <1>6, <1>9, <2>1
<1>11. \A e \in {1} : IsNew(P.q[e]) => InLog(P.q[e].n)
  BY <1>7, <1>10
<1>12. EraseAt(P, {1}) \in QueuesOf(c) /\ Spares(P, EraseAt(P, {1}))
  BY <1>9, <1>10, <1>11, EraseGood, EraseSpares
<1>13. Spares(Queue(c), P)
  BY <1>9 DEF Spares
<1>14. QED
  BY <1>5, <1>6, <1>8, <1>12, <1>13, SparesTwice

\* The server had the message: its row is deleted, and it is in the log.
LEMMA RecvMsgidGood == ASSUME TypesInv, KeptInv, RecvMsgid PROVE GoodStep
<1>1. PICK c : c = Taker(Head(s2c).n)
  OBVIOUS
<1>2. /\ Receive("MSGID") /\ Autocommit
      /\ \/ Ignored
         \/ /\ c # -1
            /\ SetQueue(c, EraseAt(PassFront(Queue(c)), {1}))
            /\ UNCHANGED <<app, unqueued, pubkeys, mUsers, mOnlineState, history, conn, c2s,
                           server, now, budget>>
  BY <1>1, ZenonT(30) DEF RecvMsgid
<1>3. Head(s2c) \in Down /\ Head(s2c).op = "MSGID" /\ s2c' \in Seq(Down)
  BY <1>2, Received DEF TypesInv
<1>4. UNCHANGED <<created, edits, calls, unqueued, pubkeys, mUsers, mOnlineState, history, conn, c2s,
                  server, now, budget>>
  BY <1>2 DEF Ignored, app, client, store, unqueued
<1>5. Growing /\ ServerInv' /\ NetInv'
  BY <1>3, <1>4, ServerAlone
<1>6. AppInv' /\ CryptInv' /\ HistInv' /\ ClientInv'
  BY <1>4, <1>5, AppStays, CryptStays, HistStays, ClientStays DEF TypesInv, unqueued
<1>7. QueueInv' /\ Keeps
  <2>1. CASE Ignored
    <3>1. UNCHANGED <<mSending, mNextUnsent, dbSending, dbManual>>
      BY <2>1 DEF Ignored, client, store
    <3>2. QED
      BY <1>5, <3>1, QueueStays, KeepsSame DEF TypesInv
  <2>2. CASE ~Ignored
    <3>1. InLog(Head(s2c).n)
      BY <1>3, DownSays
    <3>2. c \in Chats /\ Becomes(c, Queue(c), EraseAt(PassFront(Queue(c)), {1}))
      BY <1>1, <1>2, <2>2, <3>1, TakerIs DEF Becomes
    <3>3. QED
      BY <1>5, <3>2, SparesSelf, QueueStep
  <2>3. QED
    BY <2>1, <2>2
<1>8. QED
  BY <1>2, <1>5, <1>6, <1>7, Committed DEF GoodStep

\* The message is confirmed: its row is deleted, and it is in the log.
LEMMA RecvNewmsgidGood == ASSUME TypesInv, KeptInv, RecvNewmsgid PROVE GoodStep
<1> DEFINE n     == Head(s2c).n
           c     == Taker(n)
           front == Head(mSending[c])
           Q     == EraseAt(PassFront(Queue(c)), {1})
           sent(i) == IF HasId(i, n, TRUE) THEN [i EXCEPT !.op = "MSGUPD", !.x = FALSE] ELSE i
           row(r)  == IF r.op = "MSGUPDX" THEN sent(r) ELSE r
<1>1. n = Head(s2c).n /\ c = Taker(n) /\ front = Head(mSending[c])
      /\ Q = EraseAt(PassFront(Queue(c)), {1})
  OBVIOUS
<1>2. /\ Receive("NEWMSGID") /\ Autocommit
      /\ \/ Ignored
         \/ /\ c # -1
            /\ SetQueue(c, [Q EXCEPT !.q = Map(@, sent), !.rows = Map(@, row)])
            /\ history' = [history EXCEPT ![c] = Append(@, [n |-> n, data |-> front.data,
                                                            upd |-> front.upd,
                                                            key |-> front.key])]
            /\ UNCHANGED <<app, unqueued, pubkeys, mUsers, mOnlineState, conn, c2s, server, now,
                           budget>>
  BY ZenonT(30) DEF RecvNewmsgid
<1>. HIDE DEF n, c, front, Q
<1>3. Head(s2c) \in Down /\ Head(s2c).op = "NEWMSGID" /\ s2c' \in Seq(Down)
  BY <1>2, Received DEF TypesInv
<1>4. UNCHANGED <<created, edits, calls, unqueued, pubkeys, mUsers, mOnlineState, conn, c2s,
                  server, now, budget>>
  BY <1>2 DEF Ignored, app, client, store, unqueued
<1>5. Growing /\ ServerInv' /\ NetInv'
  BY <1>3, <1>4, ServerAlone
<1>6. AppInv' /\ CryptInv' /\ ClientInv'
  BY <1>4, <1>5, AppStays, CryptStays, ClientStays DEF TypesInv, unqueued
<1>7. InLog(n) /\ n \in Numbering
  BY <1>1, <1>3, DownSays
<1>8. CASE Ignored
  <2>1. UNCHANGED <<mSending, mNextUnsent, dbSending, dbManual, history>>
    BY <1>8 DEF Ignored, client, store
  <2>2. QueueInv' /\ Keeps /\ HistInv'
    BY <1>5, <2>1, QueueStays, KeepsSame, HistStays DEF TypesInv
  <2>3. QED
    BY <1>2, <1>5, <1>6, <2>2, Committed DEF GoodStep
<1>9. CASE ~Ignored
  <2>1. /\ c \in Chats /\ Queue(c) \in QueuesOf(c) /\ Queue(c).q = mSending[c] /\ mSending[c] # <<>>
        /\ Q \in QueuesOf(c) /\ Spares(Queue(c), Q)
    BY <1>1, <1>2, <1>7, <1>9, TakerIs
  <2>2. /\ Q.q \in Seq(ItemsOf(c)) /\ Q.rows \in Seq(ItemsOf(c)) /\ Q.manual \in Seq(ItemsOf(c))
        /\ Q.next \in Nat /\ Q.next <= Len(Q.q) + 1
        /\ Q = [q |-> Q.q, rows |-> Q.rows, manual |-> Q.manual, next |-> Q.next]
    BY <2>1 DEF QueuesOf
  <2>3. ASSUME NEW i \in ItemsOf(c)
        PROVE  sent(i) \in ItemsOf(c) /\ row(i) \in ItemsOf(c) /\ (IsNew(i) => row(i) = i)
    <3>1. sent(i) \in ItemsOf(c)
      <4>1. CASE HasId(i, n, TRUE)
        <5>1. i.n = n
          BY <4>1 DEF HasId
        <5>2. IsNew(i) \/ IsEdit(i)
          BY DEF ItemsOf, Items, IsNew, IsEdit
        <5>3. i.row > MaxMsgs \/ InLog(i.row)
          BY <1>7, <5>1, <5>2 DEF ItemsOf
        <5>4. [i EXCEPT !.op = "MSGUPD", !.x = FALSE] \in ItemsOf(c)
          BY <5>3 DEF ItemsOf, Items, IsNew, IsEdit
        <5>5. QED
          BY <4>1, <5>4
      <4>2. CASE ~HasId(i, n, TRUE)
        BY <4>2
      <4>3. QED
        BY <4>1, <4>2
    <3>2. IsNew(i) => row(i) = i
      BY DEF IsNew
    <3>3. row(i) \in ItemsOf(c)
      <4>1. CASE i.op = "MSGUPDX"
        BY <3>1, <4>1
      <4>2. CASE i.op # "MSGUPDX"
        BY <4>2
      <4>3. QED
        BY <4>1, <4>2
    <3>4. QED
      BY <3>1, <3>2, <3>3
  <2>. HIDE DEF sent, row
  <2>4. PICK q, rows : q = Map(Q.q, sent) /\ rows = Map(Q.rows, row)
    OBVIOUS
  <2>5. PICK R : R = [q |-> q, rows |-> rows, manual |-> Q.manual, next |-> Q.next]
    OBVIOUS
  <2>6. SetQueue(c, R)
    <3>1. R = [Q EXCEPT !.q = q, !.rows = rows]
      <4>1. PICK W : W = [Q EXCEPT !.q = q, !.rows = rows]
        OBVIOUS
      <4>2. W = [q |-> q, rows |-> rows, manual |-> Q.manual, next |-> Q.next]
        BY <2>2, <4>1
      <4>3. QED
        BY <2>5, <4>1, <4>2, Zenon
    <3>2. SetQueue(c, [Q EXCEPT !.q = Map(@, sent), !.rows = Map(@, row)])
      BY <1>2, <1>9
    <3>3. QED
      BY <2>4, <3>1, <3>2, Zenon
  <2>7. q \in [DOMAIN Q.q -> ItemsOf(c)] /\ rows \in [DOMAIN Q.rows -> ItemsOf(c)]
    BY <2>2, <2>3, <2>4 DEF Map
  <2>8. q \in Seq(ItemsOf(c)) /\ Len(q) = Len(Q.q) /\ rows \in Seq(ItemsOf(c))
    BY <2>2, <2>7, MapType
  <2>9. R \in QueuesOf(c)
    BY <2>2, <2>5, <2>8 DEF QueuesOf
  <2>10. Spares(Q, R)
    <3>1. DOMAIN rows = DOMAIN Q.rows
          /\ \A k \in DOMAIN Q.rows : IsNew(Q.rows[k]) => rows[k] = Q.rows[k]
      BY <2>2, <2>3, <2>4 DEF Map
    <3>2. R.rows = rows /\ R.manual = Q.manual
      BY <2>5
    <3>3. QED
      BY <3>1, <3>2 DEF Spares, HasMsg
  <2>11. QueueInv' /\ Keeps
    BY <1>5, <2>1, <2>6, <2>9, <2>10, QueueStep DEF Becomes
  <2>12. HistInv'
    <3>1. mSending[c] \in Seq(ItemsOf(c))
      BY <2>1 DEF QueuesOf
    <3>2. front \in ItemsOf(c)
      BY <1>1, <2>1, <3>1
    <3>3. PICK x : x = [n |-> n, data |-> front.data, upd |-> front.upd, key |-> front.key]
      OBVIOUS
    <3>4. x \in HistOf(c)
      BY <1>7, <3>2, <3>3 DEF HistOf, Hist, ItemsOf, Items, InLog
    <3>5. history[c] \in Seq(HistOf(c))
      BY <2>1 DEF TypesInv, HistInv
    <3>5a. Append(history[c], x) \in Seq(HistOf(c))
      BY <3>4, <3>5
    <3>6. PICK h \in Seq(HistOf(c)) : h = Append(history[c], x)
      BY <3>5a
    <3>7. history' = [history EXCEPT ![c] = h]
      BY <1>2, <1>9, <3>3, <3>6
    <3>8. QED
      BY <1>5, <2>1, <3>7, HistChanges DEF TypesInv
  <2>13. QED
    BY <1>2, <1>5, <1>6, <2>11, <2>12, Committed DEF GoodStep
<1>10. QED
  BY <1>8, <1>9

\* Edits that are not newer are erased, and messages are not.
LEMMA RecvMsgupdGood == ASSUME TypesInv, KeptInv, RecvMsgupd PROVE GoodStep
<1>1. PICK c, n, m : c = Head(s2c).chat /\ n = Head(s2c).n /\ m = Head(s2c).msg
  OBVIOUS
<1>2. PICK gone : gone = {k \in DOMAIN Queue(c).q : IsEdit(Queue(c).q[k]) /\ HasId(Queue(c).q[k], n, FALSE)
                                                    /\ Queue(c).q[k].upd <= m.upd}
  OBVIOUS
<1> DEFINE edited(x) == IF x.n = n /\ x.upd # m.upd THEN [x EXCEPT !.data = m.data, !.upd = m.upd] ELSE x
<1>3. PICK h : h = [k \in DOMAIN history[c] |-> edited(history[c][k])]
  BY ZenonT(30)
<1>4. /\ Receive("MSGUPD") /\ SetQueue(c, EraseAt(Queue(c), gone))
      /\ UNCHANGED <<app, created, edits, calls, unqueued, mEncryptionHalted, pending, mCurrentKey, mUnconfirmedKeys, keyCount,
                     pubkeys, mUsers, mOnlineState, conn, c2s, server, now, budget>>
      /\ Autocommit
  BY <1>1, <1>2, SMTT(30) DEF RecvMsgupd, app, unqueued
<1>5. history' = [history EXCEPT ![c] = [k \in DOMAIN @ |-> edited(@[k])]]
  BY <1>1, ZenonT(30) DEF RecvMsgupd, Map
<1>6. Head(s2c) \in Down /\ Head(s2c).op = "MSGUPD" /\ s2c' \in Seq(Down)
  BY <1>4, Received DEF TypesInv
<1>7. c \in Chats /\ n \in Numbering /\ m \in Copies
  BY <1>1, <1>6, DownSays
<1>8. Growing /\ ServerInv' /\ NetInv'
  BY <1>4, <1>6, ServerAlone
<1>9. AppInv' /\ CryptInv' /\ ClientInv'
  BY <1>4, <1>8, AppStays, CryptStays, ClientStays DEF TypesInv
<1>10. Queue(c) \in QueuesOf(c)
  BY <1>7 DEF TypesInv, QueueInv
<1>11. gone \in SUBSET (DOMAIN Queue(c).q) /\ \A e \in gone : ~IsNew(Queue(c).q[e])
  BY <1>2 DEF IsNew, IsEdit
<1>12. EraseAt(Queue(c), gone) \in QueuesOf(c) /\ Spares(Queue(c), EraseAt(Queue(c), gone))
  BY <1>10, <1>11, EraseGood, EraseSpares
<1>13. QueueInv' /\ Keeps
  BY <1>4, <1>7, <1>8, <1>12, SparesSelf, QueueStep DEF Becomes
<1>14. HistInv'
  <2>1. history[c] \in Seq(HistOf(c))
    BY <1>7 DEF TypesInv, HistInv
  <2>2. ASSUME NEW x \in HistOf(c)
        PROVE  edited(x) \in HistOf(c)
    BY <1>7 DEF HistOf, Hist, Copies
  <2>. HIDE DEF edited
  <2>3. h \in [DOMAIN history[c] -> HistOf(c)]
    BY <1>3, <2>1, <2>2
  <2>4. h \in Seq(HistOf(c))
    BY <2>1, <2>3, MapType
  <2>5. history' = [history EXCEPT ![c] = h]
    BY <1>3, <1>5
  <2>6. QED
    BY <1>7, <1>8, <2>4, <2>5, HistChanges DEF TypesInv
<1>15. QED
  BY <1>4, <1>8, <1>9, <1>13, <1>14, Committed DEF GoodStep

\* An item of a private chat whose key is replaced.
LEMMA RekeyGood ==
    ASSUME NEW c, c \notin Public, NEW i \in ItemsOf(c), NEW key \in Nat, NEW cmd \in CmdsOf(c),
           NEW j, j = [i EXCEPT !.key = key, !.cmd = cmd, !.keyCmd = 0]
    PROVE  j \in ItemsOf(c) /\ j.op = i.op /\ j.n = i.n
<1>1. i \in Items /\ cmd \in Cmds
  BY DEF ItemsOf, CmdsOf
<1>2. key \in Int /\ 0 \in Int
  OBVIOUS
<1>3. [i EXCEPT !.key = key, !.cmd = cmd, !.keyCmd = 0] \in Items
  BY <1>1, <1>2 DEF Items
<1>4. j.op = i.op /\ j.n = i.n /\ j.row = i.row /\ j.cmd = cmd /\ j.keyCmd = 0
  BY <1>1 DEF Items
<1>5. /\ IsNew(i) => i.row = i.n /\ Of(c, i.n)
      /\ IsEdit(i) => i.row > MaxMsgs \/ InLog(i.row)
  BY DEF ItemsOf
<1>6. j \in Items /\ (IsNew(j) <=> IsNew(i)) /\ (IsEdit(j) <=> IsEdit(i))
  BY <1>3, <1>4 DEF IsNew, IsEdit
<1>7. /\ IsNew(j) => j.row = j.n /\ Of(c, j.n)
      /\ IsEdit(j) => j.row > MaxMsgs \/ InLog(j.row)
  BY <1>4, <1>5, <1>6
<1>8. j.keyCmd <= 0 /\ (c \in Public => j.key = 0 /\ j.keyCmd = 0) /\ j.cmd \in CmdsOf(c)
  BY <1>4
<1>9. j \in ItemsOf(c)
  BY <1>6, <1>7, <1>8, Zenon DEF ItemsOf
<1>10. QED
  BY <1>4, <1>9

\* A row of a private chat whose key is replaced.
LEMMA RekeyRow ==
    ASSUME NEW c, c \notin Public, NEW i \in ItemsOf(c), NEW key \in Nat
    PROVE  /\ [i EXCEPT !.key = key, !.keyCmd = 0] \in ItemsOf(c)
           /\ [i EXCEPT !.key = key, !.keyCmd = 0].op = i.op
           /\ [i EXCEPT !.key = key, !.keyCmd = 0].n = i.n
<1>1. i \in Items /\ key \in Int /\ 0 \in Int
  BY DEF ItemsOf
<1>2. PICK j \in Items : j = [i EXCEPT !.key = key, !.keyCmd = 0]
  <2>1. [i EXCEPT !.key = key, !.keyCmd = 0] \in Items
    BY <1>1 DEF Items
  <2>2. QED
    BY <2>1
<1>3. j.op = i.op /\ j.n = i.n /\ j.row = i.row /\ j.cmd = i.cmd /\ j.keyCmd = 0
  BY <1>1, <1>2 DEF Items
<1>4. /\ IsNew(i) => i.row = i.n /\ Of(c, i.n)
      /\ IsEdit(i) => i.row > MaxMsgs \/ InLog(i.row)
      /\ i.cmd \in CmdsOf(c)
  BY DEF ItemsOf
<1>5. (IsNew(j) <=> IsNew(i)) /\ (IsEdit(j) <=> IsEdit(i))
  BY <1>3 DEF IsNew, IsEdit
<1>6. /\ IsNew(j) => j.row = j.n /\ Of(c, j.n)
      /\ IsEdit(j) => j.row > MaxMsgs \/ InLog(j.row)
  BY <1>3, <1>4, <1>5
<1>7. j.keyCmd <= 0 /\ (c \in Public => j.key = 0 /\ j.keyCmd = 0) /\ j.cmd \in CmdsOf(c)
  BY <1>3, <1>4
<1>8. j \in ItemsOf(c)
  BY <1>6, <1>7, Zenon DEF ItemsOf
<1>9. QED
  BY <1>2, <1>3, <1>8

\* A key is confirmed: the items that use it take its id.
LEMMA RecvNewkeyidGood == ASSUME TypesInv, KeptInv, RecvNewkeyid PROVE GoodStep
<1> DEFINE c     == Head(s2c).chat
           keyid == Head(s2c).keyid
           q     == mSending[c]
           local == Head(q).keyCmd
           uses  == {k \in DOMAIN q : q[k].key = local}
           rows  == {k \in DOMAIN dbSending[c] : dbSending[c][k].key = local}
           keys  == mUnconfirmedKeys[c]
           newQ  == [k \in DOMAIN q |-> IF k \in uses
                      THEN [q[k] EXCEPT !.key = keyid, !.cmd.key = keyid, !.keyCmd = 0]
                      ELSE q[k]]
           newRows == [k \in DOMAIN dbSending[c] |->
                         IF k \in rows THEN [dbSending[c][k] EXCEPT !.key = keyid, !.keyCmd = 0]
                         ELSE dbSending[c][k]]
<1>1. /\ Receive("NEWKEYID") /\ Autocommit
      /\ \/ Ignored
         \/ /\ \A k \in uses : q[k].cmd # NoCmd
            /\ mSending' = [mSending EXCEPT ![c] = newQ]
            /\ dbSending' = [dbSending EXCEPT ![c] = newRows]
            /\ mCurrentKey' = [mCurrentKey EXCEPT ![c] =
                   IF @.id # 0 /\ Len(keys) = 1 THEN [@ EXCEPT !.id = keyid] ELSE @]
            /\ mUnconfirmedKeys' = [mUnconfirmedKeys EXCEPT ![c] =
                   IF keys = <<>> THEN @ ELSE Tail(@)]
            /\ UNCHANGED <<app, mNextUnsent, mEncryptionHalted, pending, keyCount, pubkeys,
                             mUsers, mOnlineState, history, dbManual, conn, c2s, server, now,
                             budget>>
  BY ZenonT(30) DEF RecvNewkeyid
<1>. HIDE DEF c, keyid, newQ, newRows
<1>2. Head(s2c) \in Down /\ Head(s2c).op = "NEWKEYID" /\ s2c' \in Seq(Down)
  BY <1>1, Received DEF TypesInv
<1>3. c \in Chats \ Public /\ keyid \in Nat
  BY <1>2, DownSays DEF c, keyid
<1>4. UNCHANGED <<created, edits, calls, mNextUnsent, mEncryptionHalted, pending, keyCount, pubkeys,
                  mUsers, mOnlineState, history, dbManual, conn, c2s, server, now, budget>>
  BY <1>1 DEF Ignored, app, client, store
<1>5. Growing /\ ServerInv' /\ NetInv'
  BY <1>2, <1>4, ServerAlone
<1>6. AppInv' /\ ClientInv' /\ HistInv'
  BY <1>4, <1>5, AppStays, ClientStays, HistStays DEF TypesInv
<1>7. CASE Ignored
  <2>1. UNCHANGED <<mSending, mNextUnsent, dbSending, dbManual, mCurrentKey, mUnconfirmedKeys>>
    BY <1>7 DEF Ignored, client, store
  <2>2. QueueInv' /\ Keeps /\ CryptInv'
    BY <1>4, <1>5, <2>1, QueueStays, KeepsSame, CryptStays DEF TypesInv
  <2>3. QED
    BY <1>1, <1>5, <1>6, <2>2, Committed DEF GoodStep
<1>8. CASE ~Ignored
  <2>1. Queue(c) \in QueuesOf(c)
    BY <1>3 DEF TypesInv, QueueInv
  <2>2. /\ q \in Seq(ItemsOf(c)) /\ dbSending[c] \in Seq(ItemsOf(c)) /\ dbManual[c] \in Seq(ItemsOf(c))
        /\ mNextUnsent[c] \in Nat /\ mNextUnsent[c] <= Len(q) + 1
    BY <2>1 DEF QueuesOf, Queue
  <2>3. ASSUME NEW i \in ItemsOf(c), i.cmd # NoCmd
        PROVE  [i EXCEPT !.key = keyid, !.cmd.key = keyid, !.keyCmd = 0] \in ItemsOf(c)
    <3>1. i.cmd \in Cmds /\ i.cmd \in CmdsOf(c)
      BY DEF ItemsOf, Items
    <3>2. PICK cmd : cmd = [i.cmd EXCEPT !.key = keyid]
      OBVIOUS
    <3>3. cmd \in Cmds /\ cmd.op = i.cmd.op /\ cmd.n = i.cmd.n
      BY <1>3, <3>1, <3>2 DEF Cmds
    <3>4. cmd \in CmdsOf(c)
      BY <1>3, <3>1, <3>3 DEF CmdsOf
    <3>5. PICK j : j = [i EXCEPT !.key = keyid, !.cmd.key = keyid, !.keyCmd = 0]
      OBVIOUS
    <3>6. j = [i EXCEPT !.key = keyid, !.cmd = cmd, !.keyCmd = 0]
      BY <3>2, <3>5 DEF ItemsOf, Items
    <3>7. j \in ItemsOf(c)
      BY <1>3, <3>4, <3>6, RekeyGood, ZenonT(30)
    <3>8. QED
      BY <3>5, <3>7
  <2>4. ASSUME NEW i \in ItemsOf(c)
        PROVE  /\ [i EXCEPT !.key = keyid, !.keyCmd = 0] \in ItemsOf(c)
               /\ [i EXCEPT !.key = keyid, !.keyCmd = 0].op = i.op
               /\ [i EXCEPT !.key = keyid, !.keyCmd = 0].n = i.n
    BY <1>3, RekeyRow, ZenonT(30)
  <2>5. newQ \in [DOMAIN q -> ItemsOf(c)]
    <3>1. \A k \in uses : q[k].cmd # NoCmd
      BY <1>1, <1>8
    <3>2. \A k \in DOMAIN q : q[k] \in ItemsOf(c)
      BY <2>2
    <3>. HIDE DEF q, uses
    <3>3. QED
      BY <2>3, <3>1, <3>2, ZenonT(30) DEF newQ
  <2>6. newRows \in [DOMAIN dbSending[c] -> ItemsOf(c)]
    <3>1. \A k \in DOMAIN dbSending[c] : dbSending[c][k] \in ItemsOf(c)
      BY <2>2
    <3>. HIDE DEF rows
    <3>2. QED
      BY <2>4, <3>1, ZenonT(30) DEF newRows
  <2>7. newQ \in Seq(ItemsOf(c)) /\ Len(newQ) = Len(q) /\ newRows \in Seq(ItemsOf(c))
    BY <2>2, <2>5, <2>6, MapType
  <2>8. \A k \in DOMAIN dbSending[c] : newRows[k].op = dbSending[c][k].op /\ newRows[k].n = dbSending[c][k].n
    <3>1. \A k \in DOMAIN dbSending[c] : dbSending[c][k] \in ItemsOf(c)
      BY <2>2
    <3>. HIDE DEF rows
    <3>2. QED
      BY <2>4, <3>1, ZenonT(30) DEF newRows
  <2>9. PICK R : R = [q |-> newQ, rows |-> newRows, manual |-> dbManual[c], next |-> mNextUnsent[c]]
    OBVIOUS
  <2>10. R \in QueuesOf(c)
    BY <2>2, <2>7, <2>9 DEF QueuesOf
  <2>11. SetQueue(c, R)
    BY <1>1, <1>4, <1>8, <2>9 DEF SetQueue, TypesInv, QueueInv
  <2>12. Spares(Queue(c), R)
    <3>1. R.rows = newRows /\ R.manual = dbManual[c] /\ Queue(c).rows = dbSending[c] /\ Queue(c).manual = dbManual[c]
          /\ DOMAIN newRows = DOMAIN dbSending[c]
      BY <2>6, <2>9 DEF Queue
    <3>2. QED
      BY <2>8, <3>1 DEF Spares, HasMsg, IsNew
  <2>13. QueueInv' /\ Keeps
    BY <1>3, <1>5, <2>10, <2>11, <2>12, SparesSelf, QueueStep DEF Becomes
  <2>14. CryptInv'
    <3>1. mCurrentKey \in [Chats -> KeyRecs] /\ mUnconfirmedKeys \in [Chats -> Seq(KeyRecs)]
      BY DEF TypesInv, CryptInv
    <3>2. PICK r : r = IF mCurrentKey[c].id # 0 /\ Len(keys) = 1 THEN [mCurrentKey[c] EXCEPT !.id = keyid]
                       ELSE mCurrentKey[c]
      OBVIOUS
    <3>3. r \in KeyRecs
      <4>1. mCurrentKey[c] \in KeyRecs
        BY <1>3, <3>1
      <4>2. [mCurrentKey[c] EXCEPT !.id = keyid] \in KeyRecs
        BY <1>3, <4>1 DEF KeyRecs
      <4>3. QED
        BY <3>2, <4>1, <4>2
    <3>4. mCurrentKey' \in [Chats -> KeyRecs]
      BY <1>1, <1>8, <3>1, <3>2, <3>3
    <3>5. PICK s : s = IF keys = <<>> THEN mUnconfirmedKeys[c] ELSE Tail(mUnconfirmedKeys[c])
      OBVIOUS
    <3>6. s \in Seq(KeyRecs)
      BY <1>3, <3>1, <3>5, HeadOf
    <3>7. mUnconfirmedKeys' \in [Chats -> Seq(KeyRecs)]
      BY <1>1, <1>8, <3>1, <3>5, <3>6
    <3>8. \A d : PendsOf(d) \subseteq PendsOf(d)'
      BY <1>5, OfGrows
    <3>9. QED
      BY <1>4, <3>4, <3>7, <3>8 DEF TypesInv, CryptInv
  <2>15. QED
    BY <1>1, <1>5, <1>6, <2>13, <2>14, Committed DEF GoodStep
<1>9. QED
  BY <1>7, <1>8

\* What a crash finds after a handler that has written "image".
LEMMA DurableGood ==
    ASSUME TypesInv, KeptInv, NEW image \in Images,
           \A c \in Chats, n \in Numbering : Stored(Database, c, n) => Stored(image, c, n)
    PROVE  /\ Durable(image) \in Images
           /\ \A c \in Chats, n \in Numbering : Stored(disk, c, n) => Stored(Durable(image), c, n) \/ InLog(n)
<1>1. disk \in Images /\ DiskInv
  BY DEF TypesInv, DiskInv
<1>2. \A c \in Chats, n \in Numbering : Stored(disk, c, n) => Stored(image, c, n) \/ InLog(n)
  BY <1>1, DiskOf DEF KeptInv
<1>3. Durable(image) = image \/ Durable(image) = disk
  BY DEF Durable
<1>4. QED
  BY <1>1, <1>2, <1>3

\* A confirmation that the front did not wait for ends the process.
LEMMA KeyConfirmDiesGood == ASSUME TypesInv, KeptInv, KeyConfirmDies PROVE GoodStep
<1>1. Database \in Images
  BY DatabaseImage DEF TypesInv
<1>2. /\ Durable(Database) \in Images
      /\ \A c \in Chats, n \in Numbering : Stored(disk, c, n) => Stored(Durable(Database), c, n) \/ InLog(n)
  BY <1>1, DurableGood
<1>3. UNCHANGED pubkeys /\ Autocommit /\ \E fails : Restart(Durable(Database), fails)
  BY ZenonT(30) DEF KeyConfirmDies
<1>4. pubkeys' \in [Chats -> SUBSET Memberships]
  BY <1>3 DEF TypesInv, ClientInv
<1>5. QED
  BY <1>2, <1>3, <1>4, RestartGood

-----------------------------------------------------------------------------
(* The application *)

\* What the application makes is an item: in general,
LEMMA NewItemGood ==
    ASSUME NEW c, NEW row \in Nat, NEW op \in {"NEWMSG", "MSGUPD", "MSGUPDX"}, NEW n \in Numbering,
           NEW x \in BOOLEAN, NEW data \in Contents, NEW upd \in Nat, NEW key \in Int, NEW rcp \in Int,
           op = "NEWMSG" => row = n /\ Of(c, n), op # "NEWMSG" => row > MaxMsgs,
           c \in Public => key = 0
    PROVE  NewItem(row, op, n, x, data, upd, key, rcp) \in ItemsOf(c)
<1>1. NoCmd \in CmdsOf(c) /\ NoCmd \in Cmds
  BY NoCmdGood
<1>. HIDE DEF NoCmd
<1>2. PICK i : i = NewItem(row, op, n, x, data, upd, key, rcp)
  OBVIOUS
<1>3. i = [row |-> row, op |-> op, n |-> n, x |-> x, data |-> data, upd |-> upd, key |-> key,
           rcp |-> rcp, cmd |-> NoCmd, keyCmd |-> 0]
  BY <1>2 DEF NewItem
<1>4. i \in Items
  BY <1>1, <1>3 DEF Items
<1>5. /\ IsNew(i) => i.row = i.n /\ Of(c, i.n)
      /\ IsEdit(i) => i.row > MaxMsgs \/ InLog(i.row)
      /\ i.keyCmd <= 0 /\ (c \in Public => i.key = 0 /\ i.keyCmd = 0) /\ i.cmd \in CmdsOf(c)
  BY <1>1, <1>3 DEF IsNew, IsEdit
<1>6. i \in ItemsOf(c)
  BY <1>4, <1>5, Zenon DEF ItemsOf
<1>7. QED
  BY <1>2, <1>6

\* for a message,
LEMMA NewMsgGood ==
    ASSUME NEW c, NEW n, NEW rcp
    PROVE  n \in Numbering /\ rcp \in Int /\ Of(c, n) =>
              NewItem(n, "NEWMSG", n, TRUE, 0, 0, 0, rcp) \in ItemsOf(c)
<1>. SUFFICES ASSUME n \in Numbering, rcp \in Int, Of(c, n)
              PROVE  NewItem(n, "NEWMSG", n, TRUE, 0, 0, 0, rcp) \in ItemsOf(c)
  OBVIOUS
<1>1. /\ n \in Nat /\ "NEWMSG" \in {"NEWMSG", "MSGUPD", "MSGUPDX"} /\ TRUE \in BOOLEAN
      /\ 0 \in Contents /\ 0 \in Nat /\ 0 \in Int
  BY Bounds DEF Contents, Numbering
<1>3. PICK op, x : op = "NEWMSG" /\ x = TRUE
  OBVIOUS
<1>4. NewItem(n, op, n, x, 0, 0, 0, rcp) \in ItemsOf(c)
  BY <1>1, <1>3, NewItemGood
<1>5. QED
  BY <1>3, <1>4

\* and for an edit.
LEMMA NewEditGood ==
    ASSUME NEW c, NEW op \in {"MSGUPD", "MSGUPDX"}, NEW n \in Numbering, NEW x \in BOOLEAN,
           NEW data \in Contents, NEW upd \in Nat, NEW key \in Int, NEW rcp \in Int,
           c \in Public => key = 0, data # 0
    PROVE  NewItem(MaxMsgs + data, op, n, x, data, upd, key, rcp) \in ItemsOf(c)
<1>1. PICK row : row = MaxMsgs + data
  OBVIOUS
<1>2. row \in Nat /\ row > MaxMsgs /\ op \in {"NEWMSG", "MSGUPD", "MSGUPDX"} /\ op # "NEWMSG"
  BY <1>1, Bounds DEF Contents
<1>3. NewItem(row, op, n, x, data, upd, key, rcp) \in ItemsOf(c)
  BY <1>2, NewItemGood
<1>4. QED
  BY <1>1, <1>3

\* A lambda is marshalled.
LEMMA CallsGrow ==
    ASSUME AppInv, Growing, NEW c \in Chats, NEW i, (i \in ItemsOf(c))',
           calls' = Append(calls, [chat |-> c, item |-> i])
    PROVE  calls' \in Seq(Marshalled')
<1>1. Marshalled \subseteq Marshalled'
  BY CommandsGrow
<1>2. calls \in Seq(Marshalled')
  BY <1>1, SeqGrows DEF AppInv
<1>3. i \in Items
  BY DEF ItemsOf
<1>4. PICK x : x = [chat |-> c, item |-> i]
  OBVIOUS
<1>5. x \in [chat : Chats, item : Items] /\ x.chat = c /\ x.item = i
  BY <1>3, <1>4
<1>6. x \in Marshalled'
  BY <1>5 DEF Marshalled
<1>7. Append(calls, x) \in Seq(Marshalled')
  BY <1>2, <1>6
<1>8. QED
  BY <1>4, <1>7

\* A message is submitted.
LEMMA MsgSubmitGood ==
    ASSUME TypesInv, KeptInv, NEW c \in Chats, MsgSubmit(c) PROVE GoodStep
<1>1. /\ Len(created) < MaxMsgs
      /\ created' = Append(created, [chat |-> c, ts |-> now])
      /\ calls' = Append(calls, [chat |-> c,
                                 item |-> NewItem(Len(created) + 1, "NEWMSG", Len(created) + 1,
                                                  TRUE, 0, 0, 0, mUsers[c])])
      /\ UNCHANGED <<edits, mSending, mNextUnsent, mEncryptionHalted, pending, mCurrentKey,
                     mUnconfirmedKeys, keyCount, pubkeys, mUsers, mOnlineState, history,
                     dbSending, dbManual, net, srv, srvMsg, now, budget>>
      /\ Autocommit
  BY DEF MsgSubmit, client, store, server
<1>2. PICK S : S = [chat : Chats, ts : Nat]
  OBVIOUS
<1>3. created \in Seq(S) /\ Len(created) \in Nat /\ now \in Nat
  BY <1>2 DEF TypesInv, AppInv
<1>4. PICK x \in S : x = [chat |-> c, ts |-> now]
  BY <1>2, <1>3
<1>5. created' = Append(created, x)
  BY <1>1, <1>4
<1>6. PICK n : n = Len(created) + 1
  OBVIOUS
<1>7. /\ created' \in Seq(S) /\ Len(created') = n /\ n \in DOMAIN created' /\ created'[n] = x
      /\ \A k \in DOMAIN created : k \in DOMAIN created' /\ created'[k] = created[k]
      /\ \A k \in DOMAIN created' : k = n \/ k \in DOMAIN created
  BY <1>3, <1>5, <1>6
<1>8. Growing
  BY <1>1, <1>7 DEF Growing, InLog
<1>9. n \in Numbering /\ n <= MaxMsgs /\ n \in Nat
  BY <1>1, <1>3, <1>6, Bounds DEF Numbering
<1>10. mUsers[c] \in Int
  BY Bounds DEF TypesInv, ClientInv, Memberships
<1>11. (NewItem(n, "NEWMSG", n, TRUE, 0, 0, 0, mUsers[c]) \in ItemsOf(c))'
  <2>1. PICK rcp \in Int : rcp = mUsers[c] /\ rcp = mUsers'[c]
    BY <1>1, <1>10
  <2>2. Of(c, n)'
    BY <1>4, <1>7 DEF Of
  <2>3. (n \in Numbering /\ rcp \in Int /\ Of(c, n) =>
            NewItem(n, "NEWMSG", n, TRUE, 0, 0, 0, rcp) \in ItemsOf(c))'
    BY NewMsgGood, PTL
  <2>4. (NewItem(n, "NEWMSG", n, TRUE, 0, 0, 0, rcp) \in ItemsOf(c))'
    BY <1>9, <2>2, <2>3
  <2>5. QED
    BY <2>1, <2>4
<1>12. AppInv'
  <2>1. PICK i : i = NewItem(n, "NEWMSG", n, TRUE, 0, 0, 0, mUsers[c])
    OBVIOUS
  <2>2. (i \in ItemsOf(c))'
    BY <1>1, <1>11, <2>1
  <2>3. calls' = Append(calls, [chat |-> c, item |-> i])
    BY <1>1, <1>6, <2>1
  <2>4. calls' \in Seq(Marshalled')
    BY <1>8, <2>2, <2>3, CallsGrow DEF TypesInv
  <2>5. \A k \in DOMAIN created' : created'[k].ts <= now'
    BY <1>1, <1>3, <1>4, <1>7 DEF TypesInv, AppInv
  <2>6. QED
    BY <1>1, <1>2, <1>7, <1>9, <2>4, <2>5 DEF TypesInv, AppInv
<1>13. QueueInv' /\ CryptInv' /\ HistInv' /\ Keeps
  BY <1>1, <1>8, QueueStays, CryptStays, HistStays, KeepsSame DEF TypesInv
<1>14. NetInv' /\ ServerInv' /\ ClientInv'
  BY <1>1, <1>8, NetStays, ServerStays, ClientStays DEF TypesInv
<1>15. QED
  BY <1>1, <1>8, <1>12, <1>13, <1>14, Committed DEF GoodStep

\* The age of a message is a number of seconds.
LEMMA AgeIs == ASSUME AppInv, NEW n \in DOMAIN created PROVE Age(n) \in Nat
<1>1. now \in Nat /\ created[n].ts \in Nat /\ created[n].ts <= now
  BY CreatedIn DEF AppInv
<1>2. QED
  BY <1>1 DEF Age

\* A message of the history is edited.
LEMMA MsgModifyConfirmedGood ==
    ASSUME TypesInv, KeptInv, NEW c \in Chats, NEW h \in DOMAIN history[c], MsgModifyConfirmed(c, h)
    PROVE  GoodStep
<1>1. PICK msg, data : msg = history[c][h] /\ data = edits + 1
  OBVIOUS
<1>2. PICK age : age = IF Age(msg.n) <= msg.upd THEN msg.upd + 1 ELSE Age(msg.n)
  OBVIOUS
<1>3. PICK i : i = NewItem(MaxMsgs + data, "MSGUPD", msg.n, FALSE, data, age, msg.key, -1)
  OBVIOUS
<1>4. /\ edits < MaxEdits /\ edits' = data
      /\ calls' = Append(calls, [chat |-> c, item |-> i])
      /\ UNCHANGED <<created, mSending, mNextUnsent, mEncryptionHalted, pending, mCurrentKey,
                     mUnconfirmedKeys, keyCount, pubkeys, mUsers, mOnlineState, history,
                     dbSending, dbManual, net, srv, srvMsg, now, budget>>
      /\ Autocommit
  BY <1>1, <1>2, <1>3 DEF MsgModifyConfirmed, client, store, server
<1>5. Growing
  BY <1>4, SameGrows DEF TypesInv
<1>6. msg \in HistOf(c)
  BY <1>1 DEF TypesInv, HistInv
<1>7. /\ msg.n \in Numbering /\ msg.n \in DOMAIN created /\ msg.upd \in Nat /\ msg.key \in Int
      /\ c \in Public => msg.key = 0
  BY <1>6 DEF HistOf, Hist
<1>8. age \in Nat
  BY <1>2, <1>7, AgeIs DEF TypesInv
<1>9. edits \in 0..MaxEdits /\ MaxMsgs + data \in Nat /\ MaxMsgs + data > MaxMsgs /\ data \in Contents
      /\ data \in 0..MaxEdits
  BY <1>1, <1>4, Bounds DEF TypesInv, AppInv, Contents
<1>10. i \in ItemsOf(c)
  <2>1. FALSE \in BOOLEAN /\ "MSGUPD" \in {"MSGUPD", "MSGUPDX"} /\ -1 \in Int /\ data # 0
    BY <1>1, <1>9
  <2>2. PICK op, x, rcp : op = "MSGUPD" /\ x = FALSE /\ rcp = -1
    OBVIOUS
  <2>3. NewItem(MaxMsgs + data, op, msg.n, x, data, age, msg.key, rcp) \in ItemsOf(c)
    BY <1>7, <1>8, <1>9, <2>1, <2>2, NewEditGood
  <2>4. QED
    BY <1>3, <2>2, <2>3
<1>11. (i \in ItemsOf(c))'
  BY <1>5, <1>10, OfGrows
<1>12. calls' \in Seq(Marshalled')
  BY <1>4, <1>5, <1>11, CallsGrow DEF TypesInv
<1>13. AppInv'
  BY <1>4, <1>9, <1>12 DEF TypesInv, AppInv
<1>14. QueueInv' /\ CryptInv' /\ HistInv' /\ Keeps
  BY <1>4, <1>5, QueueStays, CryptStays, HistStays, KeepsSame DEF TypesInv
<1>15. NetInv' /\ ServerInv' /\ ClientInv'
  BY <1>4, <1>5, NetStays, ServerStays, ClientStays DEF TypesInv
<1>16. QED
  BY <1>4, <1>5, <1>13, <1>14, <1>15, Committed DEF GoodStep

\* An item with another content.
LEMMA RewriteGood ==
    ASSUME NEW c, NEW i \in ItemsOf(c), NEW data \in Contents, NEW upd \in Nat
    PROVE  /\ [i EXCEPT !.data = data, !.upd = upd] \in ItemsOf(c)
           /\ [i EXCEPT !.data = data, !.upd = upd].op = i.op
           /\ [i EXCEPT !.data = data, !.upd = upd].n = i.n
<1>1. i \in Items
  BY DEF ItemsOf
<1>2. PICK j \in Items : j = [i EXCEPT !.data = data, !.upd = upd]
  <2>1. [i EXCEPT !.data = data, !.upd = upd] \in Items
    BY <1>1 DEF Items
  <2>2. QED
    BY <2>1
<1>3. j.op = i.op /\ j.n = i.n /\ j.row = i.row /\ j.cmd = i.cmd /\ j.keyCmd = i.keyCmd /\ j.key = i.key
  BY <1>1, <1>2 DEF Items
<1>4. /\ IsNew(i) => i.row = i.n /\ Of(c, i.n)
      /\ IsEdit(i) => i.row > MaxMsgs \/ InLog(i.row)
      /\ i.cmd \in CmdsOf(c) /\ i.keyCmd <= 0 /\ (c \in Public => i.key = 0 /\ i.keyCmd = 0)
  BY DEF ItemsOf
<1>5. (IsNew(j) <=> IsNew(i)) /\ (IsEdit(j) <=> IsEdit(i))
  BY <1>3 DEF IsNew, IsEdit
<1>6. /\ IsNew(j) => j.row = j.n /\ Of(c, j.n)
      /\ IsEdit(j) => j.row > MaxMsgs \/ InLog(j.row)
      /\ j.cmd \in CmdsOf(c) /\ j.keyCmd <= 0 /\ (c \in Public => j.key = 0 /\ j.keyCmd = 0)
  BY <1>3, <1>4, <1>5
<1>7. j \in ItemsOf(c)
  BY <1>6, Zenon DEF ItemsOf
<1>8. QED
  BY <1>2, <1>3, <1>7

\* Its row takes the content alone.
LEMMA RewriteRow ==
    ASSUME NEW c, NEW i \in ItemsOf(c), NEW data \in Contents
    PROVE  /\ [i EXCEPT !.data = data] \in ItemsOf(c)
           /\ [i EXCEPT !.data = data].op = i.op /\ [i EXCEPT !.data = data].n = i.n
<1>1. i.upd \in Nat
  BY DEF ItemsOf, Items
<1>2. [i EXCEPT !.data = data] = [i EXCEPT !.data = data, !.upd = i.upd]
  <2>1. i \in Items
    BY DEF ItemsOf
  <2>2. i = [row |-> i.row, op |-> i.op, n |-> i.n, x |-> i.x, data |-> i.data, upd |-> i.upd,
             key |-> i.key, rcp |-> i.rcp, cmd |-> i.cmd, keyCmd |-> i.keyCmd]
    BY <2>1 DEF Items
  <2>3. QED
    BY <2>2
<1>3. PICK j : j = [i EXCEPT !.data = data, !.upd = i.upd]
  OBVIOUS
<1>4. j \in ItemsOf(c) /\ j.op = i.op /\ j.n = i.n
  <2>1. PICK upd \in Nat : upd = i.upd
    BY <1>1
  <2>2. PICK w : w = [i EXCEPT !.data = data, !.upd = upd]
    OBVIOUS
  <2>3. w \in ItemsOf(c) /\ w.op = i.op /\ w.n = i.n
    <3>1. w \in ItemsOf(c)
      BY <2>2, RewriteGood, ZenonT(30)
    <3>2. i \in Items
      BY DEF ItemsOf
    <3>3. QED
      BY <2>2, <3>1, <3>2 DEF Items
  <2>4. QED
    BY <1>3, <2>1, <2>2, <2>3, Zenon
<1>5. QED
  BY <1>2, <1>3, <1>4

\* A message in the queue is edited.
LEMMA MsgModifySendingGood ==
    ASSUME TypesInv, KeptInv, NEW c \in Chats, NEW n \in DOMAIN created, MsgModifySending(c, n)
    PROVE  GoodStep
<1> DEFINE
        mine == {k \in DOMAIN mSending[c] : HasId(mSending[c][k], n, TRUE)}
        msg  == mSending[c][Min(mine)]
        last == mSending[c][Max(mine)]
        age  == IF IsNew(last) THEN IF Age(n) = 0 THEN 1 ELSE Age(n)
                ELSE IF last.upd = Age(n) THEN Age(n) + 1 ELSE Age(n)
        data == edits + 1
        newQ == [k \in DOMAIN mSending[c] |->
                    IF k \notin mine THEN mSending[c][k]
                    ELSE [mSending[c][k] EXCEPT !.data = data, !.upd = IF k = Min(mine) THEN age ELSE @]]
        newRows == Map(dbSending[c], LAMBDA r : IF HasId(r, n, TRUE) THEN [r EXCEPT !.data = data] ELSE r)
        i == NewItem(MaxMsgs + data, "MSGUPDX", n, TRUE, data, age, msg.key, last.rcp)
<1>1. /\ edits < MaxEdits /\ edits' = data
      /\ \E k \in mine : mSending[c][k].op # "MSGUPD"
      /\ mSending' = [mSending EXCEPT ![c] = newQ]
      /\ dbSending' = [dbSending EXCEPT ![c] = newRows]
      /\ calls' = Append(calls, [chat |-> c, item |-> i])
      /\ UNCHANGED <<created, mNextUnsent, mEncryptionHalted, pending, mCurrentKey,
                     mUnconfirmedKeys, keyCount, pubkeys, mUsers, mOnlineState, history,
                     dbManual, net, srv, srvMsg, now, budget>>
      /\ Autocommit
  <2>1. edits < MaxEdits /\ edits' = data /\ Autocommit
    BY ZenonT(30) DEF MsgModifySending
  <2>2. \E k \in mine : mSending[c][k].op # "MSGUPD"
    BY Zenon DEF MsgModifySending
  <2>3. mSending' = [mSending EXCEPT ![c] = newQ]
    BY ZenonT(30) DEF MsgModifySending
  <2>4. dbSending' = [dbSending EXCEPT ![c] = newRows]
    BY Zenon DEF MsgModifySending
  <2>5. calls' = Append(calls, [chat |-> c, item |-> i])
    BY Zenon DEF MsgModifySending
  <2>6. UNCHANGED <<created, mNextUnsent, mEncryptionHalted, pending, mCurrentKey,
                     mUnconfirmedKeys, keyCount, pubkeys, mUsers, mOnlineState, history,
                     dbManual, net, srv, srvMsg, now, budget>>
    BY ZenonT(30) DEF MsgModifySending, server
  <2>7. QED
    BY <2>1, <2>2, <2>3, <2>4, <2>5, <2>6, Zenon
<1>. HIDE DEF newQ, newRows, i, age, msg, last, data, mine
<1>2. Growing
  BY <1>1, SameGrows DEF TypesInv
<1>3. Queue(c) \in QueuesOf(c)
  BY DEF TypesInv, QueueInv
<1>4. /\ mSending[c] \in Seq(ItemsOf(c)) /\ dbSending[c] \in Seq(ItemsOf(c)) /\ dbManual[c] \in Seq(ItemsOf(c))
      /\ mNextUnsent[c] \in Nat /\ mNextUnsent[c] <= Len(mSending[c]) + 1
      /\ Len(mSending[c]) \in Nat /\ DOMAIN mSending[c] = 1..Len(mSending[c])
  BY <1>3 DEF QueuesOf, Queue
<1>5. mine # {} /\ mine \in SUBSET (DOMAIN mSending[c]) /\ mine \in SUBSET Nat
      /\ mine \in SUBSET (0..Len(mSending[c]))
  <2>1. mine # {}
    BY <1>1
  <2>2. mine \in SUBSET (DOMAIN mSending[c])
    BY DEF mine
  <2>3. DOMAIN mSending[c] \in SUBSET Nat /\ DOMAIN mSending[c] \in SUBSET (0..Len(mSending[c]))
    BY <1>4
  <2>4. QED
    BY <2>1, <2>2, <2>3
<1>6. Min(mine) \in mine /\ Max(mine) \in mine
  BY <1>4, <1>5, MinIn, MaxIn
<1>7. msg \in ItemsOf(c) /\ last \in ItemsOf(c)
  <2>1. \A k \in DOMAIN mSending[c] : mSending[c][k] \in ItemsOf(c)
    BY <1>4
  <2>2. Min(mine) \in DOMAIN mSending[c] /\ Max(mine) \in DOMAIN mSending[c]
    BY <1>5, <1>6
  <2>3. QED
    BY <2>1, <2>2, Zenon DEF msg, last
<1>8. /\ msg.key \in Int /\ (c \in Public => msg.key = 0) /\ last.upd \in Nat /\ last.rcp \in Int
  BY <1>7 DEF ItemsOf, Items
<1>9. age \in Nat
  <2>1. Age(n) \in Nat
    BY AgeIs DEF TypesInv
  <2>2. QED
    BY <2>1 DEF age
<1>10. edits \in 0..MaxEdits /\ data \in Contents /\ data # 0 /\ data \in 0..MaxEdits
  BY <1>1, Bounds DEF TypesInv, AppInv, Contents, data
<1>11. n \in Numbering
  BY CreatedIn, Bounds DEF TypesInv, Numbering
<1>. HIDE DEF data
<1>12. i \in ItemsOf(c)
  <2>1. TRUE \in BOOLEAN /\ "MSGUPDX" \in {"MSGUPD", "MSGUPDX"}
    OBVIOUS
  <2>2. PICK op, x, key, rcp : op = "MSGUPDX" /\ x = TRUE /\ key = msg.key /\ rcp = last.rcp
    OBVIOUS
  <2>3. NewItem(MaxMsgs + data, op, n, x, data, age, key, rcp) \in ItemsOf(c)
    BY <1>8, <1>9, <1>10, <1>11, <2>1, <2>2, NewEditGood
  <2>4. QED
    BY <2>2, <2>3 DEF i
<1>13. calls' \in Seq(Marshalled')
  <2>1. PICK j : j = i
    OBVIOUS
  <2>2. (j \in ItemsOf(c))'
    BY <1>2, <1>12, <2>1, OfGrows
  <2>3. calls' = Append(calls, [chat |-> c, item |-> j])
    BY <1>1, <2>1
  <2>4. QED
    BY <1>2, <2>2, <2>3, CallsGrow DEF TypesInv
<1>14. AppInv'
  BY <1>1, <1>10, <1>13 DEF TypesInv, AppInv
<1>15. newQ \in [DOMAIN mSending[c] -> ItemsOf(c)]
  <2>1. ASSUME NEW k \in DOMAIN mSending[c] PROVE newQ[k] \in ItemsOf(c)
    <3>. PICK j \in ItemsOf(c) : j = mSending[c][k]
      BY <1>4
    <3>1. j \in Items /\ j.upd \in Nat
      BY DEF ItemsOf, Items
    <3>2. PICK upd \in Nat : upd = IF k = Min(mine) THEN age ELSE j.upd
      BY <1>9, <3>1
    <3>3. newQ[k] = IF k \notin mine THEN j
                    ELSE [j EXCEPT !.data = data, !.upd = IF k = Min(mine) THEN age ELSE @]
      BY ZenonT(30) DEF newQ
    <3>4. [j EXCEPT !.data = data, !.upd = IF k = Min(mine) THEN age ELSE @]
          = [j EXCEPT !.data = data, !.upd = upd]
      <4>1. j = [row |-> j.row, op |-> j.op, n |-> j.n, x |-> j.x, data |-> j.data, upd |-> j.upd,
                 key |-> j.key, rcp |-> j.rcp, cmd |-> j.cmd, keyCmd |-> j.keyCmd]
        BY <3>1 DEF Items
      <4>2. QED
        BY <3>2, <4>1
    <3>5. PICK w : w = [j EXCEPT !.data = data, !.upd = upd]
      OBVIOUS
    <3>6. w \in ItemsOf(c)
      BY <1>10, <3>5, RewriteGood, ZenonT(30)
    <3>7. QED
      BY <3>3, <3>4, <3>5, <3>6
  <2>2. QED
    BY <2>1, ZenonT(30) DEF newQ
<1>16. \A k \in DOMAIN dbSending[c] : newRows[k] \in ItemsOf(c)
           /\ newRows[k].op = dbSending[c][k].op /\ newRows[k].n = dbSending[c][k].n
  <2>1. \A k \in DOMAIN dbSending[c] : dbSending[c][k] \in ItemsOf(c)
    BY <1>4
  <2>2. QED
    BY <1>10, <2>1, RewriteRow, ZenonT(30) DEF newRows, Map
<1>17. newRows \in [DOMAIN dbSending[c] -> ItemsOf(c)]
  BY <1>16 DEF newRows, Map
<1>18. newQ \in Seq(ItemsOf(c)) /\ Len(newQ) = Len(mSending[c]) /\ newRows \in Seq(ItemsOf(c))
  <2>1. PICK S : S = ItemsOf(c)
    OBVIOUS
  <2>2. PICK q \in Seq(S) : q = mSending[c]
    BY <1>4, <2>1
  <2>3. PICK rows \in Seq(S) : rows = dbSending[c]
    BY <1>4, <2>1
  <2>4. newQ \in [DOMAIN q -> S] /\ newRows \in [DOMAIN rows -> S]
    BY <1>15, <1>17, <2>1, <2>2, <2>3
  <2>5. newQ \in Seq(S) /\ Len(newQ) = Len(q)
    BY <2>4, MapType
  <2>6. newRows \in Seq(S)
    BY <2>4, MapType
  <2>7. QED
    BY <2>1, <2>2, <2>5, <2>6
<1>19. PICK R : R = [q |-> newQ, rows |-> newRows, manual |-> dbManual[c], next |-> mNextUnsent[c]]
  OBVIOUS
<1>20. R \in QueuesOf(c)
  BY <1>4, <1>18, <1>19 DEF QueuesOf
<1>21. SetQueue(c, R)
  BY <1>1, <1>19 DEF SetQueue, TypesInv, QueueInv
<1>22. Spares(Queue(c), R)
  <2>1. R.rows = newRows /\ R.manual = dbManual[c] /\ Queue(c).rows = dbSending[c]
        /\ Queue(c).manual = dbManual[c] /\ DOMAIN newRows = DOMAIN dbSending[c]
    BY <1>17, <1>19 DEF Queue
  <2>2. QED
    BY <1>16, <2>1 DEF Spares, HasMsg, IsNew
<1>23. QueueInv' /\ Keeps
  BY <1>2, <1>20, <1>21, <1>22, SparesSelf, QueueStep DEF Becomes
<1>24. CryptInv' /\ HistInv' /\ NetInv' /\ ServerInv' /\ ClientInv'
  BY <1>1, <1>2, CryptStays, HistStays, NetStays, ServerStays, ClientStays DEF TypesInv
<1>25. QED
  BY <1>1, <1>2, <1>14, <1>23, <1>24, Committed DEF GoodStep

-----------------------------------------------------------------------------
(* The main thread *)

\* A marshalled item joins the queue, and is flushed when the chat is online.
LEMMA PostMsgToSendingGood == ASSUME TypesInv, KeptInv, PostMsgToSending PROVE GoodStep
<1> DEFINE c     == Head(calls).chat
           item  == Head(calls).item
           Q     == [Queue(c) EXCEPT !.q = Append(@, item), !.rows = Append(@, Row(item))]
<1>1. /\ calls # <<>> /\ Autocommit
      /\ \/ /\ Q.next # 0 /\ \E fails : FlushOutputQueue(c, Q, Q.next, mEncryptionHalted[c], <<>>, fails)
            /\ calls' = Tail(calls)
            /\ UNCHANGED <<created, edits, pubkeys, mUsers, mOnlineState, history, conn, s2c,
                           server, now, budget>>
         \/ /\ SetQueue(c, Q)
            /\ calls' = Tail(calls)
            /\ UNCHANGED <<created, edits, mEncryptionHalted, pending, mCurrentKey,
                           mUnconfirmedKeys, keyCount, pubkeys, mUsers, mOnlineState, history,
                           net, server, now, budget>>
         \/ /\ \E fails : Restart(Durable([Database EXCEPT ![c].sending = Q.rows]), fails)
            /\ UNCHANGED pubkeys
  BY ZenonT(30) DEF PostMsgToSending, Walk
<1>. HIDE DEF c, item
<1>2. Head(calls) \in Marshalled /\ Tail(calls) \in Seq(Marshalled)
  BY <1>1, HeadOf DEF TypesInv, AppInv
<1>3. c \in Chats /\ item \in ItemsOf(c)
  BY <1>2 DEF Marshalled, c, item
<1>4. Row(item) \in ItemsOf(c)
  <2>1. item.cmd \in CmdsOf(c) /\ item.keyCmd \in Int
    BY <1>3 DEF ItemsOf, Items
  <2>2. Row(item) = [item EXCEPT !.key = 0]
    BY DEF Row
  <2>3. [item EXCEPT !.key = 0] \in ItemsOf(c)
    BY <1>3 DEF ItemsOf, Items, IsNew, IsEdit
  <2>4. QED
    BY <2>2, <2>3
<1>5. Queue(c) \in QueuesOf(c)
  BY <1>3 DEF TypesInv, QueueInv
<1>6. /\ mSending[c] \in Seq(ItemsOf(c)) /\ dbSending[c] \in Seq(ItemsOf(c)) /\ dbManual[c] \in Seq(ItemsOf(c))
      /\ mNextUnsent[c] \in Nat /\ mNextUnsent[c] <= Len(mSending[c]) + 1
  BY <1>5 DEF QueuesOf, Queue
<1>7. PICK q, rows : q = Append(mSending[c], item) /\ rows = Append(dbSending[c], Row(item))
  OBVIOUS
<1>8. /\ q \in Seq(ItemsOf(c)) /\ rows \in Seq(ItemsOf(c)) /\ Len(q) = Len(mSending[c]) + 1
      /\ \A k \in DOMAIN dbSending[c] : k \in DOMAIN rows /\ rows[k] = dbSending[c][k]
  BY <1>3, <1>4, <1>6, <1>7
<1>9. Q = [q |-> q, rows |-> rows, manual |-> dbManual[c], next |-> mNextUnsent[c]]
  <2>1. PICK W : W = Q
    OBVIOUS
  <2>2. W = [Queue(c) EXCEPT !.q = q, !.rows = rows]
    BY <1>7, <2>1 DEF Queue
  <2>. HIDE DEF Q
  <2>3. W = [q |-> q, rows |-> rows, manual |-> dbManual[c], next |-> mNextUnsent[c]]
    BY <2>2 DEF Queue
  <2>4. QED
    BY <2>1, <2>3
<1>. HIDE DEF Q
<1>10. Q \in QueuesOf(c) /\ Q.next <= Len(Q.q) + 1 /\ Q.next \in Nat /\ Q.rows = rows
  BY <1>6, <1>8, <1>9 DEF QueuesOf
<1>11. Spares(Queue(c), Q)
  <2>1. Queue(c).rows = dbSending[c] /\ Queue(c).manual = dbManual[c] /\ Q.rows = rows /\ Q.manual = dbManual[c]
    BY <1>9 DEF Queue
  <2>2. QED
    BY <1>8, <2>1 DEF Spares, HasMsg
<1>12. ASSUME UNCHANGED <<created, edits, pubkeys, mUsers, mOnlineState, history, conn, s2c,
                          server, now, budget>>,
              calls' = Tail(calls)
       PROVE  Growing /\ AppInv' /\ HistInv' /\ ServerInv' /\ ClientInv'
  <2>1. UNCHANGED <<srv, srvMsg>>
    BY <1>12 DEF server
  <2>2. Growing
    BY <1>12, <2>1, SameGrows DEF TypesInv
  <2>3. calls' \in Seq(Marshalled')
    BY <1>2, <1>12, <2>2, CommandsGrow, SeqGrows
  <2>4. AppInv'
    BY <1>12, <2>3 DEF TypesInv, AppInv
  <2>5. HistInv' /\ ServerInv' /\ ClientInv'
    BY <1>12, <2>1, <2>2, HistStays, ServerStays, ClientStays DEF TypesInv
  <2>6. QED
    BY <2>2, <2>4, <2>5
<1>13. CASE /\ Q.next # 0 /\ \E fails : FlushOutputQueue(c, Q, Q.next, mEncryptionHalted[c], <<>>, fails)
            /\ calls' = Tail(calls)
            /\ UNCHANGED <<created, edits, pubkeys, mUsers, mOnlineState, history, conn, s2c,
                           server, now, budget>>
  <2>1. Growing /\ AppInv' /\ HistInv' /\ ServerInv' /\ ClientInv'
    BY <1>12, <1>13
  <2>2. PICK P, from, fails :
            /\ P \in QueuesOf(c) /\ P = Q /\ from = Q.next
            /\ FlushOutputQueue(c, P, from, mEncryptionHalted[c], <<>>, fails)
    BY <1>10, <1>13
  <2>3. /\ mEncryptionHalted[c] \in BOOLEAN /\ <<>> \in Seq(Up) /\ c2s \in Seq(Up) /\ CryptInv
        /\ from \in Nat \ {0} /\ from <= Len(P.q) + 1
    BY <1>3, <1>10, <1>13, <2>2 DEF TypesInv, CryptInv, NetInv
  <2>4. (\E R : Becomes(c, P, R)) /\ CryptInv' /\ c2s' \in Seq(Up)
    BY <1>3, <2>1, <2>2, <2>3, FlushGood
  <2>5. QueueInv' /\ Keeps
    BY <1>3, <1>11, <2>1, <2>2, <2>4, QueueStep
  <2>6. NetInv'
    BY <1>13, <2>1, <2>4, NetGrows DEF TypesInv, NetInv
  <2>7. QED
    BY <1>1, <2>1, <2>4, <2>5, <2>6, Committed DEF GoodStep
<1>14. CASE /\ SetQueue(c, Q)
            /\ calls' = Tail(calls)
            /\ UNCHANGED <<created, edits, mEncryptionHalted, pending, mCurrentKey,
                           mUnconfirmedKeys, keyCount, pubkeys, mUsers, mOnlineState, history,
                           net, server, now, budget>>
  <2>1. Growing /\ AppInv' /\ HistInv' /\ ServerInv' /\ ClientInv'
    BY <1>12, <1>14 DEF net
  <2>2. QueueInv' /\ Keeps
    BY <1>3, <1>10, <1>11, <1>14, <2>1, SparesSelf, QueueStep DEF Becomes
  <2>3. CryptInv' /\ NetInv'
    BY <1>14, <2>1, CryptStays, NetStays DEF TypesInv
  <2>4. QED
    BY <1>1, <2>1, <2>2, <2>3, Committed DEF GoodStep
<1>15. CASE /\ \E fails : Restart(Durable([Database EXCEPT ![c].sending = Q.rows]), fails)
            /\ UNCHANGED pubkeys
  <2>1. PICK image : image = [Database EXCEPT ![c].sending = Q.rows]
    OBVIOUS
  <2>2. Database \in Images /\ rows \in Seq(Items)
    BY <1>8, DatabaseImage, SeqGrows DEF TypesInv, ItemsOf
  <2>3. /\ image[c] = [sending |-> rows, manual |-> dbManual[c], history |-> history[c]]
        /\ \A d \in Chats \ {c} : image[d] = Database[d]
        /\ image \in [Chats -> [sending : Seq(Items), manual : Seq(Items), history : Seq(Hist)]]
    BY <1>3, <1>10, <2>1, <2>2 DEF Database, Images
  <2>4. image \in Images
    <3>1. history[c] \in Seq(HistOf(c))
      BY <1>3 DEF TypesInv, HistInv
    <3>2. [sending |-> rows, manual |-> dbManual[c], history |-> history[c]] \in ImagesOf(c)
      BY <1>6, <1>8, <3>1 DEF ImagesOf
    <3>3. \A d \in Chats : image[d] \in ImagesOf(d)
      BY <2>2, <2>3, <3>2 DEF Images
    <3>4. QED
      BY <2>3, <3>3 DEF Images
  <2>5. \A d \in Chats, n \in Numbering : Stored(Database, d, n) => Stored(image, d, n)
    <3>1. SUFFICES ASSUME NEW d \in Chats, NEW n \in Numbering, Stored(Database, d, n)
                   PROVE  Stored(image, d, n)
      OBVIOUS
    <3>2. CASE d = c
      <4>1. HasMsg(dbSending[c], dbManual[c], n)
        BY <3>1, <3>2, InTables
      <4>2. HasMsg(rows, dbManual[c], n)
        BY <1>8, <4>1 DEF HasMsg
      <4>3. image[c].sending = rows /\ image[c].manual = dbManual[c]
        BY <2>3
      <4>4. QED
        BY <3>2, <4>2, <4>3, StoredIs
    <3>3. CASE d # c
      BY <2>3, <3>1, <3>3, StoredIs
    <3>4. QED
      BY <3>2, <3>3
  <2>6. /\ Durable(image) \in Images
        /\ \A d \in Chats, n \in Numbering : Stored(disk, d, n) => Stored(Durable(image), d, n) \/ InLog(n)
    BY <2>4, <2>5, DurableGood
  <2>7. PICK durable, fails : durable = Durable(image) /\ Restart(durable, fails)
    BY <1>15, <2>1
  <2>8. pubkeys' \in [Chats -> SUBSET Memberships]
    BY <1>15 DEF TypesInv, ClientInv
  <2>9. QED
    BY <1>1, <2>6, <2>7, <2>8, RestartGood
<1>16. QED
  BY <1>1, <1>13, <1>14, <1>15

\* An item that is given a command and keys.
LEMMA GivenGood ==
    ASSUME NEW c, NEW i \in ItemsOf(c), NEW cmd \in CmdsOf(c), NEW keyCmd \in Int, keyCmd <= 0,
           NEW key \in Int, c \in Public => key = 0 /\ keyCmd = 0,
           NEW j, j = [i EXCEPT !.cmd = cmd, !.keyCmd = keyCmd, !.key = key]
    PROVE  j \in ItemsOf(c) /\ j.op = i.op /\ j.n = i.n
<1>1. i \in Items /\ cmd \in Cmds
  BY DEF ItemsOf, CmdsOf
<1>2. [i EXCEPT !.cmd = cmd, !.keyCmd = keyCmd, !.key = key] \in Items
  BY <1>1 DEF Items
<1>3. j.op = i.op /\ j.n = i.n /\ j.row = i.row /\ j.cmd = cmd /\ j.keyCmd = keyCmd /\ j.key = key
  BY <1>1 DEF Items
<1>4. /\ IsNew(i) => i.row = i.n /\ Of(c, i.n)
      /\ IsEdit(i) => i.row > MaxMsgs \/ InLog(i.row)
  BY DEF ItemsOf
<1>5. j \in Items /\ (IsNew(j) <=> IsNew(i)) /\ (IsEdit(j) <=> IsEdit(i))
  BY <1>2, <1>3 DEF IsNew, IsEdit
<1>6. /\ IsNew(j) => j.row = j.n /\ Of(c, j.n)
      /\ IsEdit(j) => j.row > MaxMsgs \/ InLog(j.row)
  BY <1>3, <1>4, <1>5
<1>7. j.keyCmd <= 0 /\ (c \in Public => j.key = 0 /\ j.keyCmd = 0) /\ j.cmd \in CmdsOf(c)
  BY <1>3
<1>8. j \in ItemsOf(c)
  BY <1>5, <1>6, <1>7, Zenon DEF ItemsOf
<1>9. QED
  BY <1>3, <1>8

\* The closure of an encryption gives the commands to the front and the blobs to a row.
Given(c, mine, cmd, local) ==
    [q      |-> [k \in DOMAIN mSending[c] |->
                   [mSending[c][k] EXCEPT !.cmd    = IF k = 1 THEN cmd ELSE @,
                                          !.keyCmd = IF k = 1 THEN local ELSE @,
                                          !.key    = IF k \in mine THEN local ELSE @]],
     rows   |-> AddBlobs(dbSending[c], pending[c].row,
                         [cmd |-> cmd, keyCmd |-> local, key |-> local]),
     manual |-> dbManual[c],
     next   |-> mNextUnsent[c]]

\* What the closure leaves is a good queue, and its rows are of the same messages.
LEMMA GivenQueue ==
    ASSUME TypesInv, NEW c \in Chats, NEW mine, NEW cmd \in CmdsOf(c), NEW local \in Int, local <= 0,
           c \in Public => local = 0, NEW Q, Q = Given(c, mine, cmd, local)
    PROVE  Q \in QueuesOf(c) /\ Spares(Queue(c), Q) /\ Q.next = mNextUnsent[c]
<1>1. Queue(c) \in QueuesOf(c)
  BY DEF TypesInv, QueueInv
<1>2. /\ mSending[c] \in Seq(ItemsOf(c)) /\ dbSending[c] \in Seq(ItemsOf(c)) /\ dbManual[c] \in Seq(ItemsOf(c))
      /\ mNextUnsent[c] \in Nat /\ mNextUnsent[c] <= Len(mSending[c]) + 1
  BY <1>1 DEF QueuesOf, Queue
<1>3. PICK S : S = ItemsOf(c)
  OBVIOUS
<1>4. PICK q \in Seq(S), rows \in Seq(S) : q = mSending[c] /\ rows = dbSending[c]
  BY <1>2, <1>3
<1>5. PICK newQ : newQ = [k \in DOMAIN q |-> [q[k] EXCEPT !.cmd    = IF k = 1 THEN cmd ELSE @,
                                                          !.keyCmd = IF k = 1 THEN local ELSE @,
                                                          !.key    = IF k \in mine THEN local ELSE @]]
  BY ZenonT(30)
<1>6. newQ \in [DOMAIN q -> S]
  <2>1. ASSUME NEW k \in DOMAIN q PROVE newQ[k] \in S
    <3>1. PICK i \in ItemsOf(c) : i = q[k]
      BY <1>3, <1>4
    <3>2. i \in Items /\ i.cmd \in CmdsOf(c) /\ i.keyCmd \in Int /\ i.keyCmd <= 0 /\ i.key \in Int
          /\ (c \in Public => i.key = 0 /\ i.keyCmd = 0)
      BY DEF ItemsOf, Items
    <3>3. PICK theCmd \in CmdsOf(c), theKeyCmd \in Int, theKey \in Int :
               /\ theCmd = IF k = 1 THEN cmd ELSE i.cmd
               /\ theKeyCmd = IF k = 1 THEN local ELSE i.keyCmd
               /\ theKey = IF k \in mine THEN local ELSE i.key
      BY <3>2
    <3>4. theKeyCmd <= 0 /\ (c \in Public => theKey = 0 /\ theKeyCmd = 0)
      BY <3>2, <3>3
    <3>5. newQ[k] = [i EXCEPT !.cmd    = IF k = 1 THEN cmd ELSE @,
                              !.keyCmd = IF k = 1 THEN local ELSE @,
                              !.key    = IF k \in mine THEN local ELSE @]
      BY <1>5, <2>1, <3>1, ZenonT(30)
    <3>6. PICK j : j = [i EXCEPT !.cmd = theCmd, !.keyCmd = theKeyCmd, !.key = theKey]
      OBVIOUS
    <3>7. newQ[k] = j
      <4>1. i = [row |-> i.row, op |-> i.op, n |-> i.n, x |-> i.x, data |-> i.data, upd |-> i.upd,
                 key |-> i.key, rcp |-> i.rcp, cmd |-> i.cmd, keyCmd |-> i.keyCmd]
        BY <3>2 DEF Items
      <4>2. QED
        BY <3>3, <3>5, <3>6, <4>1
    <3>8. j \in ItemsOf(c)
      BY <3>4, <3>6, GivenGood, ZenonT(30)
    <3>9. QED
      BY <1>3, <3>7, <3>8
  <2>2. QED
    BY <1>5, <2>1, ZenonT(30)
<1>7. newQ \in Seq(S) /\ Len(newQ) = Len(q)
  BY <1>6, MapType
<1>8. PICK blobs : blobs = [cmd |-> cmd, keyCmd |-> local, key |-> local]
  OBVIOUS
<1>9. PICK newRows : newRows = AddBlobs(rows, pending[c].row, blobs)
  OBVIOUS
<1>10. \A k \in DOMAIN rows : newRows[k] \in S /\ newRows[k].op = rows[k].op /\ newRows[k].n = rows[k].n
  <2>1. SUFFICES ASSUME NEW k \in DOMAIN rows
                 PROVE  newRows[k] \in S /\ newRows[k].op = rows[k].op /\ newRows[k].n = rows[k].n
    OBVIOUS
  <2>2. PICK r \in ItemsOf(c) : r = rows[k]
    BY <1>3, <1>4
  <2>3. PICK j : j = [r EXCEPT !.cmd = cmd, !.keyCmd = local, !.key = local]
    OBVIOUS
  <2>4. j \in ItemsOf(c) /\ j.op = r.op /\ j.n = r.n
    <3>1. c \in Public => local = 0 /\ local = 0
      OBVIOUS
    <3>2. j \in ItemsOf(c)
      BY <2>3, <3>1, GivenGood, ZenonT(30)
    <3>3. j.op = r.op /\ j.n = r.n
      BY <2>3 DEF ItemsOf, Items
    <3>4. QED
      BY <3>2, <3>3
  <2>5. Blobs(r, blobs) = j
    BY <1>8, <2>3 DEF Blobs
  <2>6. newRows[k] = IF r.row = pending[c].row THEN Blobs(r, blobs) ELSE r
    BY <1>9, <2>2 DEF AddBlobs, Map
  <2>7. QED
    BY <1>3, <2>2, <2>4, <2>5, <2>6
<1>11. newRows \in [DOMAIN rows -> S]
  BY <1>9, <1>10 DEF AddBlobs, Map
<1>12. newRows \in Seq(S)
  BY <1>11, MapType
<1>13. Q = [q |-> newQ, rows |-> newRows, manual |-> dbManual[c], next |-> mNextUnsent[c]]
  BY <1>4, <1>5, <1>8, <1>9, ZenonT(30) DEF Given
<1>14. Q \in QueuesOf(c) /\ Q.next = mNextUnsent[c]
  BY <1>2, <1>3, <1>4, <1>7, <1>12, <1>13 DEF QueuesOf
<1>15. Spares(Queue(c), Q)
  <2>1. Q.rows = newRows /\ Q.manual = dbManual[c] /\ Queue(c).rows = rows
        /\ Queue(c).manual = dbManual[c] /\ DOMAIN newRows = DOMAIN rows
    BY <1>4, <1>11, <1>13 DEF Queue
  <2>2. QED
    BY <1>10, <2>1 DEF Spares, HasMsg, IsNew
<1>16. QED
  BY <1>14, <1>15

\* Public keys arrive, and the closure that waited for them runs.
LEMMA KeysArriveGood ==
    ASSUME TypesInv, KeptInv, NEW c \in Chats, NEW e \in Memberships, KeysArrive(c, e) PROVE GoodStep
<1> DEFINE
        waits == pending[c].on /\ (c \in Public \/ pending[c].cmd.rcp = e)
        q     == mSending[c]
        mine  == {k \in DOMAIN q : q[k].row = pending[c].row}
        local == pending[c].cmd.key
        cmd   == [pending[c].cmd EXCEPT !.data = q[Min(mine)].data,
                                        !.key = IF c \in Public THEN 0 ELSE mCurrentKey[c].id]
        made  == [cmd |-> cmd, keyCmd |-> local, key |-> local]
        Q     == [Queue(c) EXCEPT
                    !.q    = [k \in DOMAIN q |->
                                [q[k] EXCEPT !.cmd    = IF k = 1 THEN cmd ELSE @,
                                             !.keyCmd = IF k = 1 THEN local ELSE @,
                                             !.key    = IF k \in mine THEN local ELSE @]],
                    !.rows = AddBlobs(@, pending[c].row, made)]
<1>1. /\ pubkeys' = [pubkeys EXCEPT ![c] = @ \cup {e}]
      /\ Autocommit
      /\ \/ UNCHANGED <<app, client, mUsers, mOnlineState, store, net, server, now, budget, failed>>
         \/ /\ mine # {} /\ Q.next # 0
            /\ FlushOutputQueue(c, Q, Q.next, FALSE, Commands(c, made), {})
            /\ UNCHANGED <<app, mUsers, mOnlineState, history, conn, s2c, server, now, budget>>
         \/ /\ mine # {}
            /\ SetQueue(c, Q)
            /\ mEncryptionHalted' = [mEncryptionHalted EXCEPT ![c] = FALSE]
            /\ pending' = [pending EXCEPT ![c] = NoPend]
            /\ c2s' = Socket(Commands(c, made))
            /\ UNCHANGED <<app, mCurrentKey, mUnconfirmedKeys, keyCount, mUsers, mOnlineState,
                           history, conn, s2c, server, now, budget, failed>>
         \/ \E fails : Restart(Durable(Database), fails)
  BY ZenonT(30) DEF KeysArrive, Walk
<1>. HIDE DEF waits, q, mine, local, cmd, made, Q
<1>2. pubkeys' \in [Chats -> SUBSET Memberships]
  BY <1>1 DEF TypesInv, ClientInv
<1>3. pending[c] \in PendsOf(c) /\ mCurrentKey[c].id \in Int /\ Queue(c) \in QueuesOf(c)
  BY DEF TypesInv, CryptInv, KeyRecs, QueueInv
<1>4. local \in Int /\ local <= 0 /\ (c \in Public => local = 0)
  BY <1>3 DEF PendsOf, Pends, Cmds, CmdsOf, local
<1>5. ASSUME mine # {} PROVE cmd \in CmdsOf(c)
  <2>1. PICK p \in CmdsOf(c) : p = pending[c].cmd
    BY <1>3 DEF PendsOf
  <2>2. mSending[c] \in Seq(ItemsOf(c)) /\ mine \in SUBSET Nat /\ mine \in SUBSET (DOMAIN mSending[c])
    BY <1>3 DEF QueuesOf, Queue, mine, q
  <2>3. Min(mine) \in mine
    BY <1>5, <2>2, MinIn
  <2>4. Min(mine) \in DOMAIN mSending[c]
    BY <2>2, <2>3
  <2>5. mSending[c][Min(mine)] \in ItemsOf(c)
    BY <2>2, <2>4
  <2>6. mSending[c][Min(mine)].data \in Contents
    BY <2>5 DEF ItemsOf, Items
  <2>7. PICK data \in Contents, key \in Int : data = q[Min(mine)].data
                    /\ key = IF c \in Public THEN 0 ELSE mCurrentKey[c].id
    BY <1>3, <2>6 DEF q
  <2>8. p \in Cmds /\ (p.op = "NEWMSG" => Of(c, p.n)) /\ (c \in Public => key = 0)
    BY <2>1, <2>7 DEF CmdsOf
  <2>9. PICK w : w = [p EXCEPT !.data = data, !.key = key]
    OBVIOUS
  <2>10. [p EXCEPT !.data = data, !.key = key] \in Cmds
    BY <2>8 DEF Cmds
  <2>11. w \in Cmds /\ w.op = p.op /\ w.n = p.n /\ w.key = key
    BY <2>8, <2>9, <2>10 DEF Cmds
  <2>12. w \in CmdsOf(c)
    BY <2>8, <2>11 DEF CmdsOf
  <2>13. cmd = w
    BY <2>1, <2>7, <2>9 DEF cmd
  <2>14. QED
    BY <2>12, <2>13
<1>6. Q = Given(c, mine, cmd, local)
  <2>1. PICK newQ, newRows :
          /\ newQ = [k \in DOMAIN q |->
                                [q[k] EXCEPT !.cmd    = IF k = 1 THEN cmd ELSE @,
                                             !.keyCmd = IF k = 1 THEN local ELSE @,
                                             !.key    = IF k \in mine THEN local ELSE @]]
          /\ newRows = AddBlobs(dbSending[c], pending[c].row, made)
    BY ZenonT(30)
  <2>2. Q = [Queue(c) EXCEPT !.q = newQ, !.rows = newRows]
    BY <2>1, ZenonT(30) DEF Q, Queue
  <2>3. Q = [q |-> newQ, rows |-> newRows, manual |-> dbManual[c], next |-> mNextUnsent[c]]
    BY <2>2 DEF Queue
  <2>4. QED
    BY <2>1, <2>3, ZenonT(30) DEF Given, q, made
<1>7. ASSUME mine # {}
      PROVE  /\ Q \in QueuesOf(c) /\ Spares(Queue(c), Q) /\ Q.next \in Nat /\ Q.next <= Len(Q.q) + 1
             /\ Commands(c, made) \in Seq(Up)
  <2>1. cmd \in CmdsOf(c)
    BY <1>5, <1>7
  <2>2. Q \in QueuesOf(c) /\ Spares(Queue(c), Q)
    BY <1>4, <1>6, <2>1, GivenQueue
  <2>3. made.cmd = cmd /\ made.keyCmd = local
    BY DEF made
  <2>4. PICK w : w = made
    OBVIOUS
  <2>5. Commands(c, w) \in Seq(Up)
    BY <1>4, <2>1, <2>3, <2>4, CommandsGood
  <2>6. QED
    BY <2>2, <2>4, <2>5 DEF QueuesOf
<1>8. ASSUME UNCHANGED <<app, mUsers, mOnlineState, history, conn, s2c, server, now, budget>>
      PROVE  Growing /\ AppInv' /\ HistInv' /\ ServerInv' /\ ClientInv'
  <2>1. UNCHANGED <<created, edits, calls, srv, srvMsg>>
    BY <1>8 DEF app, server
  <2>2. Growing
    BY <2>1, SameGrows DEF TypesInv
  <2>3. AppInv' /\ HistInv' /\ ServerInv'
    BY <1>8, <2>1, <2>2, AppStays, HistStays, ServerStays DEF TypesInv
  <2>4. ClientInv'
    BY <1>2, <1>8 DEF TypesInv, ClientInv
  <2>5. QED
    BY <2>2, <2>3, <2>4
<1>9. CASE UNCHANGED <<app, client, mUsers, mOnlineState, store, net, server, now, budget, failed>>
  <2>1. UNCHANGED <<mSending, mNextUnsent, mEncryptionHalted, pending, mCurrentKey, mUnconfirmedKeys,
                    keyCount, history, dbSending, dbManual, conn, c2s, s2c>>
    BY <1>9 DEF client, store, net
  <2>2. Growing /\ AppInv' /\ HistInv' /\ ServerInv' /\ ClientInv'
    BY <1>8, <1>9, <2>1
  <2>3. QueueInv' /\ CryptInv' /\ NetInv' /\ Keeps
    BY <1>9, <2>1, <2>2, QueueStays, CryptStays, NetStays, KeepsSame DEF TypesInv
  <2>4. QED
    BY <1>1, <2>2, <2>3, Committed DEF GoodStep
<1>10. CASE /\ mine # {} /\ Q.next # 0
            /\ FlushOutputQueue(c, Q, Q.next, FALSE, Commands(c, made), {})
            /\ UNCHANGED <<app, mUsers, mOnlineState, history, conn, s2c, server, now, budget>>
  <2>1. Growing /\ AppInv' /\ HistInv' /\ ServerInv' /\ ClientInv'
    BY <1>8, <1>10
  <2>2. PICK P \in QueuesOf(c), from \in Nat, sent \in Seq(Up) :
            P = Q /\ from = Q.next /\ FlushOutputQueue(c, P, from, FALSE, sent, {})
    BY <1>7, <1>10
  <2>3. /\ FALSE \in BOOLEAN /\ c2s \in Seq(Up) /\ CryptInv
        /\ from \in Nat \ {0} /\ from <= Len(P.q) + 1
    BY <1>7, <1>10, <2>2 DEF TypesInv, NetInv
  <2>4. (\E R : Becomes(c, P, R)) /\ CryptInv' /\ c2s' \in Seq(Up)
    BY <2>1, <2>2, <2>3, FlushGood
  <2>5. QueueInv' /\ Keeps
    BY <1>7, <1>10, <2>1, <2>2, <2>4, QueueStep
  <2>6. NetInv'
    BY <1>10, <2>1, <2>4, NetGrows DEF TypesInv, NetInv
  <2>7. QED
    BY <1>1, <2>1, <2>4, <2>5, <2>6, Committed DEF GoodStep
<1>11. CASE /\ mine # {}
            /\ SetQueue(c, Q)
            /\ mEncryptionHalted' = [mEncryptionHalted EXCEPT ![c] = FALSE]
            /\ pending' = [pending EXCEPT ![c] = NoPend]
            /\ c2s' = Socket(Commands(c, made))
            /\ UNCHANGED <<app, mCurrentKey, mUnconfirmedKeys, keyCount, mUsers, mOnlineState,
                           history, conn, s2c, server, now, budget, failed>>
  <2>1. Growing /\ AppInv' /\ HistInv' /\ ServerInv' /\ ClientInv'
    BY <1>8, <1>11
  <2>2. QueueInv' /\ Keeps
    BY <1>7, <1>11, <2>1, SparesSelf, QueueStep DEF Becomes
  <2>3. CryptInv'
    <3>1. \A d \in Chats : NoPend \in PendsOf(d) /\ NoPend \in Pends /\ PendsOf(d) \subseteq PendsOf(d)'
      BY <2>1, NoCmdGood, OfGrows
    <3>2. pending' \in [Chats -> Pends] /\ \A d \in Chats : pending'[d] \in PendsOf(d)'
      BY <1>11, <3>1 DEF TypesInv, CryptInv
    <3>3. mEncryptionHalted' \in [Chats -> BOOLEAN]
      BY <1>11 DEF TypesInv, CryptInv
    <3>4. QED
      BY <1>11, <3>2, <3>3 DEF TypesInv, CryptInv
  <2>4. c2s' \in Seq(Up)
    <3>1. PICK out \in Seq(Up), sent \in Seq(Up) : out = Commands(c, made) /\ sent = c2s
      BY <1>7, <1>11 DEF TypesInv, NetInv
    <3>2. sent \o out \in Seq(Up)
      OBVIOUS
    <3>3. QED
      BY <1>11, <3>1, <3>2 DEF Socket
  <2>5. NetInv'
    BY <1>11, <2>1, <2>4, NetGrows DEF TypesInv, NetInv
  <2>6. QED
    BY <1>1, <2>1, <2>2, <2>3, <2>5, Committed DEF GoodStep
<1>12. CASE \E fails : Restart(Durable(Database), fails)
  <2>1. Database \in Images
    BY DatabaseImage DEF TypesInv
  <2>2. /\ Durable(Database) \in Images
        /\ \A d \in Chats, n \in Numbering : Stored(disk, d, n) => Stored(Durable(Database), d, n) \/ InLog(n)
    BY <2>1, DurableGood
  <2>3. PICK durable, fails : /\ durable \in Images /\ durable = Durable(Database)
                              /\ Restart(durable, fails)
    BY <1>12, <2>2
  <2>4. QED
    BY <1>1, <1>2, <2>2, <2>3, RestartGood
<1>13. QED
  BY <1>1, <1>9, <1>10, <1>11, <1>12

-----------------------------------------------------------------------------
(* The server *)

\* What a command to the server says.
LEMMA UpSays ==
    ASSUME NEW m \in Up
    PROVE  /\ m.chat \in Chats
           /\ m.op = "NEWKEY" => m.chat \notin Public /\ m.key \in Int /\ m.rcp \in Int
           /\ m.op \in {"NEWMSG", "MSGUPD", "MSGUPDX"} => m.cmd \in CmdsOf(m.chat) /\ m.cmd.op = m.op
  BY DEF Up

\* What the server does with a command leaves its chats and what it sends good, and nothing of
\* its logs is lost.
Served == ServerInv' /\ Growing /\ s2c' \in Seq(Down')

\* An answer is sent after what is on the way.
LEMMA Answers ==
    ASSUME NetInv, Growing, NEW m \in Down', s2c' = Append(s2c, m)
    PROVE  s2c' \in Seq(Down')
<1>1. PICK D, E : D = Down /\ E = Down'
  OBVIOUS
<1>2. D \subseteq E
  BY <1>1, CommandsGrow
<1>3. PICK s \in Seq(D) : s = s2c
  BY <1>1 DEF NetInv
<1>4. s \in Seq(E) /\ m \in E
  BY <1>1, <1>2, SeqGrows
<1>5. Append(s, m) \in Seq(E)
  BY <1>4
<1>6. QED
  BY <1>1, <1>3, <1>5

\* The message of a command is one the application created.
LEMMA CmdSays ==
    ASSUME AppInv, NEW c \in Chats, NEW m \in CmdsOf(c)
    PROVE  /\ m.n \in 0..MaxMsgs /\ m.data \in Contents /\ m.upd \in Nat /\ m.key \in Int
           /\ m.op = "NEWMSG" => m.n \in Numbering /\ Of(c, m.n)
           /\ c \in Public => m.key = 0
<1>1. m.n \in 0..MaxMsgs /\ m.data \in Contents /\ m.upd \in Nat /\ m.key \in Int
  BY DEF CmdsOf, Cmds
<1>2. (m.op = "NEWMSG" => Of(c, m.n)) /\ (c \in Public => m.key = 0)
  BY DEF CmdsOf
<1>3. DOMAIN created = 1..Len(created) /\ Len(created) \in Nat /\ Len(created) <= MaxMsgs
  BY CreatedIn
<1>4. Of(c, m.n) => m.n \in Numbering
  BY <1>3, Bounds DEF Of, Numbering
<1>5. QED
  BY <1>1, <1>2, <1>4

\* A key is confirmed or refused.
LEMMA ServerNewkeyGood ==
    ASSUME TypesInv, NEW cmd \in Up, UNCHANGED <<created, budget>>, ServerNewkey(cmd)
    PROVE  Served
<1>1. PICK c : c = cmd.chat
  OBVIOUS
<1>2. PICK id : id = srv[c].keyCount + 1
  OBVIOUS
<1>3. /\ cmd.op = "NEWKEY" /\ srvMsg' = srvMsg
      /\ \/ /\ srv' = [srv EXCEPT ![c].keyCount = id,
                                  ![c].keyxids = @ \cup {[xid |-> cmd.key, id |-> id]}]
            /\ s2c' = Append(s2c, [op |-> "NEWKEYID", chat |-> c, keyid |-> id])
         \/ /\ srv' = [srv EXCEPT ![c].refused = @ \cup {cmd.key}]
            /\ s2c' = Append(s2c, [op |-> "REJECT", chat |-> c, of |-> "NEWKEY"])
  BY <1>1, <1>2 DEF ServerNewkey
<1>4. c \in Chats \ Public /\ cmd.key \in Int
  BY <1>1, <1>3, UpSays
<1>5. PICK s \in Servers : s = srv[c]
  BY <1>4 DEF TypesInv, ServerInv
<1>6. id \in Nat
  BY <1>2, <1>5 DEF Servers
<1>7. srv \in [Chats -> Servers]
  BY DEF TypesInv, ServerInv
<1>8. srv' \in [Chats -> Servers] /\ \A d \in Chats : srv'[d].log = srv[d].log
  <2>1. CASE srv' = [srv EXCEPT ![c].keyCount = id,
                                ![c].keyxids = @ \cup {[xid |-> cmd.key, id |-> id]}]
    <3>1. PICK key \in [xid : Int, id : Nat] : key = [xid |-> cmd.key, id |-> id]
      BY <1>4, <1>6
    <3>2. PICK t : t = [s EXCEPT !.keyCount = id, !.keyxids = @ \cup {key}]
      OBVIOUS
    <3>3. [s EXCEPT !.keyCount = id, !.keyxids = @ \cup {key}] \in Servers
      BY <1>6 DEF Servers
    <3>4. t \in Servers /\ t.log = s.log
      BY <3>2, <3>3 DEF Servers
    <3>5. srv' = [srv EXCEPT ![c] = t]
      BY <1>5, <2>1, <3>1, <3>2
    <3>6. QED
      BY <1>4, <1>5, <1>7, <3>4, <3>5
  <2>2. CASE srv' = [srv EXCEPT ![c].refused = @ \cup {cmd.key}]
    BY <1>4, <1>5, <1>7, <2>2 DEF Servers
  <2>3. QED
    BY <1>3, <2>1, <2>2
<1>9. ServerInv' /\ Growing
  BY <1>3, <1>8, ServerChanges DEF TypesInv, ServerInv
<1>10. PICK k, r : k = [op |-> "NEWKEYID", chat |-> c, keyid |-> id] /\ r = [op |-> "REJECT", chat |-> c, of |-> "NEWKEY"]
  OBVIOUS
<1>11. k \in Down' /\ r \in Down'
  BY <1>4, <1>6, <1>10 DEF Down
<1>12. s2c' \in Seq(Down')
  BY <1>3, <1>9, <1>10, <1>11, Answers DEF TypesInv
<1>13. QED
  BY <1>9, <1>12 DEF Served

\* An edit is broadcast or refused.
LEMMA ServerMsgupdGood ==
    ASSUME TypesInv, NEW cmd \in Up, UNCHANGED <<created, budget>>, ServerMsgupd(cmd)
    PROVE  Served
<1>1. PICK c, m : c = cmd.chat /\ m = cmd.cmd
  OBVIOUS
<1>2. /\ cmd.op \in {"MSGUPD", "MSGUPDX"} /\ srv' = srv
      /\ \/ /\ Contains(srv[c].log, m.n)
            /\ srvMsg' = [srvMsg EXCEPT ![m.n].data = m.data, ![m.n].upd = m.upd]
            /\ s2c' = Append(s2c, [op |-> "MSGUPD", chat |-> c, n |-> m.n, msg |-> srvMsg'[m.n]])
         \/ /\ srvMsg' = srvMsg
            /\ \E x \in BOOLEAN, reason \in {0, 2} :
                 s2c' = Append(s2c, [op |-> "REJECT", chat |-> c, of |-> "MSGUPD", n |-> m.n,
                                     x |-> x, reason |-> reason])
  BY <1>1, ZenonT(30) DEF ServerMsgupd
<1>3. c \in Chats /\ m \in CmdsOf(c)
  BY <1>1, <1>2, UpSays
<1>4. m.n \in 0..MaxMsgs /\ m.data \in Contents /\ m.upd \in Nat
  BY <1>3, CmdSays DEF TypesInv
<1>5. Growing
  BY <1>2, SameGrows DEF TypesInv
<1>6. \A d \in Chats : srv[d].log \in Seq(Numbering)
  BY DEF TypesInv, ServerInv, Servers
<1>7. Contains(srv[c].log, m.n) => m.n \in Numbering
  BY <1>3, <1>6 DEF Contains
<1>8. CASE /\ Contains(srv[c].log, m.n)
           /\ srvMsg' = [srvMsg EXCEPT ![m.n].data = m.data, ![m.n].upd = m.upd]
           /\ s2c' = Append(s2c, [op |-> "MSGUPD", chat |-> c, n |-> m.n, msg |-> srvMsg'[m.n]])
  <2>1. PICK n \in Numbering : n = m.n
    BY <1>7, <1>8
  <2>2. srvMsg \in [Numbering -> Copies]
    BY DEF TypesInv, ServerInv
  <2>3. srvMsg' \in [Numbering -> Copies] /\ \A i \in Numbering : srvMsg'[i].key = srvMsg[i].key
    BY <1>4, <1>8, <2>1, <2>2 DEF Copies
  <2>4. \A d \in Chats : \A k \in DOMAIN srv[d].log : srv[d].log[k] \in Numbering
    BY <1>6
  <2>5. \A d \in Chats : \A k \in DOMAIN srv[d].log :
            Of(d, srv[d].log[k])' /\ (d \in Public => srvMsg'[srv[d].log[k]].key = 0)
    BY <1>2, <2>3, <2>4 DEF TypesInv, ServerInv, Of
  <2>6. ServerInv'
    BY <1>2, <2>3, <2>5 DEF TypesInv, ServerInv
  <2>7. PICK a : a = [op |-> "MSGUPD", chat |-> c, n |-> n, msg |-> srvMsg'[n]]
    OBVIOUS
  <2>8. a \in Down'
    BY <1>3, <2>3, <2>7 DEF Down
  <2>9. s2c' \in Seq(Down')
    BY <1>5, <1>8, <2>1, <2>7, <2>8, Answers DEF TypesInv
  <2>10. QED
    BY <1>5, <2>6, <2>9 DEF Served
<1>9. CASE /\ srvMsg' = srvMsg
           /\ \E x \in BOOLEAN, reason \in {0, 2} :
                 s2c' = Append(s2c, [op |-> "REJECT", chat |-> c, of |-> "MSGUPD", n |-> m.n,
                                     x |-> x, reason |-> reason])
  <2>1. ServerInv'
    BY <1>2, <1>5, <1>9, ServerStays DEF TypesInv
  <2>2. PICK x \in BOOLEAN, reason \in {0, 2} :
                 s2c' = Append(s2c, [op |-> "REJECT", chat |-> c, of |-> "MSGUPD", n |-> m.n,
                                     x |-> x, reason |-> reason])
    BY <1>9
  <2>3. PICK a : a = [op |-> "REJECT", chat |-> c, of |-> "MSGUPD", n |-> m.n, x |-> x, reason |-> reason]
    OBVIOUS
  <2>4. a \in Down'
    BY <1>3, <1>4, <2>3 DEF Down
  <2>5. s2c' \in Seq(Down')
    BY <1>5, <2>2, <2>3, <2>4, Answers DEF TypesInv
  <2>6. QED
    BY <1>5, <2>1, <2>5 DEF Served
<1>10. QED
  BY <1>2, <1>8, <1>9

\* A message is written, refused, or was written before.
LEMMA ServerNewmsgGood ==
    ASSUME TypesInv, NEW cmd \in Up, UNCHANGED <<created, budget>>, ServerNewmsg(cmd)
    PROVE  Served
<1>1. PICK c, m : c = cmd.chat /\ m = cmd.cmd
  OBVIOUS
<1>2. PICK n : n = m.n
  OBVIOUS
<1>3. /\ cmd.op = "NEWMSG"
      /\ \/ /\ Contains(srv[c].log, n)
            /\ s2c' = Append(s2c, [op |-> "MSGID", n |-> n])
            /\ srv' = srv /\ srvMsg' = srvMsg
         \/ /\ c \in Public \/ KeyKnown(c, m.key)
            /\ srv' = [srv EXCEPT ![c].log = Append(@, n)]
            /\ srvMsg' = [srvMsg EXCEPT ![n] = [data |-> m.data, upd |-> m.upd, key |-> KeyId(c, m.key)]]
            /\ s2c' = Append(s2c, [op |-> "NEWMSGID", n |-> n])
         \/ /\ srv' = [srv EXCEPT ![c].refused = @ \cup {n}]
            /\ s2c' = Append(s2c, [op |-> "REJECT", chat |-> c, of |-> "NEWMSG", n |-> n])
            /\ srvMsg' = srvMsg
  BY <1>1, <1>2 DEF ServerNewmsg, server
<1>4. c \in Chats /\ m \in CmdsOf(c) /\ m.op = "NEWMSG"
  BY <1>1, <1>3, UpSays
<1>5. /\ n \in Numbering /\ Of(c, n) /\ m.data \in Contents /\ m.upd \in Nat /\ m.key \in Int
      /\ (c \in Public => m.key = 0)
  BY <1>2, <1>4, CmdSays DEF TypesInv
<1>6. PICK s \in Servers : s = srv[c]
  BY <1>4 DEF TypesInv, ServerInv
<1>7. srv \in [Chats -> Servers] /\ srvMsg \in [Numbering -> Copies] /\ s.log \in Seq(Numbering)
  BY DEF TypesInv, ServerInv, Servers
<1>8. CASE /\ Contains(srv[c].log, n)
           /\ s2c' = Append(s2c, [op |-> "MSGID", n |-> n])
           /\ srv' = srv /\ srvMsg' = srvMsg
  <2>1. Growing
    BY <1>8, SameGrows DEF TypesInv
  <2>2. ServerInv'
    BY <1>8, <2>1, ServerStays DEF TypesInv
  <2>3. InLog(n)'
    BY <1>5, <1>8 DEF InLog, Of
  <2>4. PICK a : a = [op |-> "MSGID", n |-> n]
    OBVIOUS
  <2>5. a \in Down'
    BY <1>5, <2>3, <2>4 DEF Down
  <2>6. s2c' \in Seq(Down')
    BY <1>8, <2>1, <2>4, <2>5, Answers DEF TypesInv
  <2>7. QED
    BY <2>1, <2>2, <2>6 DEF Served
<1>9. CASE /\ c \in Public \/ KeyKnown(c, m.key)
           /\ srv' = [srv EXCEPT ![c].log = Append(@, n)]
           /\ srvMsg' = [srvMsg EXCEPT ![n] = [data |-> m.data, upd |-> m.upd, key |-> KeyId(c, m.key)]]
           /\ s2c' = Append(s2c, [op |-> "NEWMSGID", n |-> n])
  <2>1. PICK key : key = KeyId(c, m.key)
    OBVIOUS
  <2>2. key \in Int /\ (c \in Public => key = 0)
    <3>1. CASE m.key >= 0
      BY <1>5, <2>1, <3>1 DEF KeyId
    <3>2. CASE ~(m.key >= 0)
      <4>1. c \notin Public /\ KeyKnown(c, m.key)
        BY <1>5, <1>9, <3>2
      <4>2. \E k \in srv[c].keyxids : k.xid = m.key
        BY <3>2, <4>1 DEF KeyKnown
      <4>3. PICK known : known = CHOOSE k \in srv[c].keyxids : k.xid = m.key
        OBVIOUS
      <4>4. known \in srv[c].keyxids
        BY <4>2, <4>3
      <4>5. known \in [xid : Int, id : Nat]
        BY <1>6, <4>4 DEF Servers
      <4>6. key = known.id
        BY <2>1, <3>2, <4>3 DEF KeyId
      <4>7. QED
        BY <4>1, <4>5, <4>6
    <3>3. QED
      BY <3>1, <3>2
  <2>3. PICK copy \in Copies : copy = [data |-> m.data, upd |-> m.upd, key |-> key]
    BY <1>5, <2>2 DEF Copies
  <2>4. copy.key = key
    BY <2>3
  <2>5. srvMsg' = [srvMsg EXCEPT ![n] = copy]
    BY <1>9, <2>1, <2>3
  <2>6. srvMsg' \in [Numbering -> Copies]
    BY <1>5, <1>7, <2>5
  <2>7. PICK log \in Seq(Numbering) : log = Append(s.log, n)
    <3>1. PICK old \in Seq(Numbering) : old = s.log
      BY <1>7
    <3>2. Append(old, n) \in Seq(Numbering)
      BY <1>5
    <3>3. QED
      BY <3>1, <3>2
  <2>8. PICK t : t = [s EXCEPT !.log = log]
    OBVIOUS
  <2>9. [s EXCEPT !.log = log] \in Servers
    BY DEF Servers
  <2>10. t \in Servers /\ t.log = log
    BY <2>8, <2>9 DEF Servers
  <2>11. srv' = [srv EXCEPT ![c] = t]
    BY <1>6, <1>9, <2>7, <2>8
  <2>12. srv' \in [Chats -> Servers] /\ srv'[c].log = log /\ \A d \in Chats \ {c} : srv'[d].log = srv[d].log
    BY <1>4, <1>7, <2>10, <2>11
  <2>13. /\ \A k \in DOMAIN s.log : k \in DOMAIN log /\ log[k] = s.log[k]
         /\ \A k \in DOMAIN log : k \in DOMAIN s.log \/ log[k] = n
         /\ Len(log) \in DOMAIN log /\ log[Len(log)] = n
         /\ DOMAIN s.log = 1..Len(s.log) /\ DOMAIN log = 1..Len(log)
    BY <1>5, <1>7, <2>7
  <2>14. Contains(log, n) /\ \A i : Contains(s.log, i) => Contains(log, i)
    BY <2>13, Zenon DEF Contains
  <2>15. Growing
    <3>1. ASSUME NEW i, InLog(i) PROVE InLog(i)'
      <4>1. PICK d : d = created[i].chat
        OBVIOUS
      <4>2. i \in DOMAIN created /\ d \in Chats /\ Contains(srv[d].log, i)
        BY <3>1, <4>1, CreatedIn DEF InLog, TypesInv
      <4>3. Contains(srv'[d].log, i)
        BY <1>6, <2>12, <2>14, <4>2
      <4>4. QED
        BY <4>1, <4>2, <4>3 DEF InLog
    <3>2. QED
      BY <3>1 DEF Growing
  <2>16. InLog(n)'
    BY <1>5, <2>12, <2>14 DEF InLog, Of
  <2>17. ASSUME NEW d \in Chats, NEW k \in DOMAIN srv'[d].log
         PROVE  (Of(d, srv[d].log[k]) /\ (d \in Public => srvMsg[srv[d].log[k]].key = 0))'
    <3>1. PICK i : i = srv'[d].log[k]
      OBVIOUS
    <3>2. i \in Numbering
      <4>1. srv'[d].log \in Seq(Numbering)
        BY <2>12 DEF Servers
      <4>2. QED
        BY <3>1, <4>1
    <3>3. CASE i = n /\ d = c
      <4>1. srvMsg'[i] = copy
        BY <1>5, <1>7, <2>5, <3>3
      <4>2. Of(d, i)' /\ (d \in Public => srvMsg'[i].key = 0)
        BY <1>5, <2>2, <2>4, <3>3, <4>1 DEF Of
      <4>3. QED
        BY <3>1, <4>2
    <3>4. CASE ~(i = n /\ d = c)
      <4>1. k \in DOMAIN srv[d].log /\ i = srv[d].log[k]
        BY <1>6, <2>12, <2>13, <3>1, <3>4
      <4>2. Of(d, i) /\ (d \in Public => srvMsg[i].key = 0)
        BY <4>1 DEF TypesInv, ServerInv
      <4>3. i # n
        BY <1>5, <3>4, <4>2 DEF Of
      <4>4. srvMsg'[i] = srvMsg[i]
        BY <1>7, <2>5, <3>2, <4>3
      <4>5. Of(d, i)' /\ (d \in Public => srvMsg'[i].key = 0)
        BY <4>2, <4>4 DEF Of
      <4>6. QED
        BY <3>1, <4>5
    <3>5. QED
      BY <3>3, <3>4
  <2>18. ServerInv'
    <3>1. (\A d \in Chats : \A k \in DOMAIN srv[d].log :
               Of(d, srv[d].log[k]) /\ (d \in Public => srvMsg[srv[d].log[k]].key = 0))'
      BY <2>17
    <3>2. budget' \in [drops : Nat, crashes : Nat, users : Nat, privs : Nat, foreign : 0..MaxForeign]
      BY DEF TypesInv, ServerInv
    <3>3. QED
      BY <2>6, <2>12, <3>1, <3>2 DEF ServerInv
  <2>19. PICK a : a = [op |-> "NEWMSGID", n |-> n]
    OBVIOUS
  <2>20. a \in Down'
    BY <1>5, <2>16, <2>19 DEF Down
  <2>21. s2c' \in Seq(Down')
    BY <1>9, <2>15, <2>19, <2>20, Answers DEF TypesInv
  <2>22. QED
    BY <2>15, <2>18, <2>21 DEF Served
<1>10. CASE /\ srv' = [srv EXCEPT ![c].refused = @ \cup {n}]
            /\ s2c' = Append(s2c, [op |-> "REJECT", chat |-> c, of |-> "NEWMSG", n |-> n])
            /\ srvMsg' = srvMsg
  <2>1. n \in Int
    BY <1>5, Bounds DEF Numbering
  <2>2. srv' \in [Chats -> Servers] /\ \A d \in Chats : srv'[d].log = srv[d].log
    BY <1>4, <1>6, <1>7, <1>10, <2>1 DEF Servers
  <2>3. ServerInv' /\ Growing
    BY <1>10, <2>2, ServerChanges DEF TypesInv, ServerInv
  <2>4. PICK a : a = [op |-> "REJECT", chat |-> c, of |-> "NEWMSG", n |-> n]
    OBVIOUS
  <2>5. a \in Down'
    BY <1>4, <1>5, <2>4 DEF Down
  <2>6. s2c' \in Seq(Down')
    BY <1>10, <2>3, <2>4, <2>5, Answers DEF TypesInv
  <2>7. QED
    BY <2>3, <2>6 DEF Served
<1>11. QED
  BY <1>3, <1>8, <1>9, <1>10

\* A login is answered with the messages that the client has not seen.
LEMMA ServerJoinGood ==
    ASSUME TypesInv, NEW cmd \in Up, UNCHANGED <<created, budget>>, ServerJoin(cmd)
    PROVE  Served
<1>1. PICK c : c = cmd.chat
  OBVIOUS
<1>2. PICK users, newer, done :
          /\ users = [op |-> "USERS", chat |-> c, users |-> srv[c].users]
          /\ newer = Map(Newer(c, cmd.n), LAMBDA n : [op |-> "NEWMSG", chat |-> c, n |-> n, msg |-> srvMsg[n]])
          /\ done = [op |-> "HISTDONE", chat |-> c]
  BY ZenonT(30)
<1>3. /\ srv' = [srv EXCEPT ![c].joined = TRUE] /\ srvMsg' = srvMsg
      /\ s2c' = s2c \o <<users>> \o newer \o <<done>>
  <2>1. srv' = [srv EXCEPT ![c].joined = TRUE] /\ srvMsg' = srvMsg
    BY <1>1, ZenonT(30) DEF ServerJoin
  <2>2. s2c' = s2c \o <<users>> \o newer \o <<done>>
    BY <1>1, <1>2 DEF ServerJoin, Map
  <2>3. QED
    BY <2>1, <2>2
<1>4. c \in Chats
  BY <1>1, UpSays
<1>5. PICK s \in Servers : s = srv[c]
  BY <1>4 DEF TypesInv, ServerInv
<1>6. srv' \in [Chats -> Servers] /\ \A d \in Chats : srv'[d].log = srv[d].log
  BY <1>3, <1>4, <1>5 DEF TypesInv, ServerInv, Servers
<1>7. ServerInv' /\ Growing
  BY <1>3, <1>6, ServerChanges DEF TypesInv, ServerInv
<1>8. users \in Down /\ done \in Down
  BY <1>2, <1>4, <1>5, ZenonT(30) DEF Down, Servers
<1>9. newer \in Seq(Down)
  <2>1. PICK log \in Seq(Numbering) : log = srv[c].log
    BY <1>5 DEF Servers
  <2>2. PICK at : at = {0} \cup {k \in DOMAIN log : log[k] = cmd.n}
    OBVIOUS
  <2>3. at # {} /\ at \in SUBSET (0..Len(log)) /\ Len(log) \in Nat
    BY <2>2
  <2>4. Max(at) \in at
    BY <2>3, MaxIn
  <2>5. PICK pos \in Nat : pos = Max(at)
    <3>1. Max(at) \in 0..Len(log)
      BY <2>3, <2>4
    <3>2. QED
      BY <2>3, <3>1
  <2>6. PICK later : later = SubSeq(log, pos + 1, Len(log))
    OBVIOUS
  <2>7. Newer(c, cmd.n) = later
    BY <2>1, <2>2, <2>5, <2>6, Zenon DEF Newer
  <2>8. pos <= Len(log)
    BY <2>3, <2>4, <2>5
  <2>9. /\ later \in Seq(Numbering) /\ DOMAIN later = 1..(Len(log) - pos)
        /\ \A k \in DOMAIN later : k + pos \in DOMAIN log /\ later[k] = log[k + pos]
    BY <2>3, <2>6, <2>8
  <2>10. ASSUME NEW k \in DOMAIN later PROVE newer[k] \in Down
    <3>1. PICK n \in Numbering : n = later[k]
      BY <2>9, <2>10
    <3>2. Of(c, n) /\ (c \in Public => srvMsg[n].key = 0)
      BY <1>4, <2>1, <2>9, <2>10, <3>1 DEF TypesInv, ServerInv
    <3>3. srvMsg[n] \in Copies
      BY DEF TypesInv, ServerInv
    <3>4. PICK a : a = [op |-> "NEWMSG", chat |-> c, n |-> n, msg |-> srvMsg[n]]
      OBVIOUS
    <3>5. a \in [op : {"NEWMSG"}, chat : Chats, n : Numbering, msg : Copies]
      BY <1>4, <3>3, <3>4
    <3>6. a.n \in DOMAIN created /\ (a.chat \in Public => a.msg.key = 0)
      BY <3>2, <3>4 DEF Of
    <3>7. a \in Down
      BY <3>5, <3>6 DEF Down
    <3>8. newer[k] = a
      BY <1>2, <2>7, <3>1, <3>4 DEF Map
    <3>9. QED
      BY <3>7, <3>8
  <2>11. newer \in [DOMAIN later -> Down]
    BY <1>2, <2>7, <2>10 DEF Map
  <2>12. QED
    BY <2>9, <2>11, MapType
<1>10. s2c' \in Seq(Down)
  <2>1. PICK D : D = Down
    OBVIOUS
  <2>2. PICK a \in Seq(D), b \in Seq(D) : a = s2c /\ b = newer
    BY <1>9, <2>1 DEF TypesInv, NetInv
  <2>3. <<users>> \in Seq(D) /\ <<done>> \in Seq(D)
    BY <1>8, <2>1
  <2>4. a \o <<users>> \o b \o <<done>> \in Seq(D)
    BY <2>3
  <2>5. QED
    BY <1>3, <2>1, <2>2, <2>4
<1>11. s2c' \in Seq(Down')
  BY <1>7, <1>10, CommandsGrow, SeqGrows
<1>12. QED
  BY <1>7, <1>11 DEF Served

\* The server takes the next command.
LEMMA ServerGood == ASSUME TypesInv, KeptInv, Server PROVE GoodStep
<1>1. PICK cmd : cmd = Head(c2s)
  OBVIOUS
<1>2. /\ c2s # <<>> /\ c2s' = Tail(c2s)
      /\ ServerJoin(cmd) \/ ServerNewkey(cmd) \/ ServerNewmsg(cmd) \/ ServerMsgupd(cmd)
      /\ UNCHANGED <<app, client, pubkeys, mUsers, mOnlineState, store, conn, now, budget>>
      /\ created' = created /\ Autocommit
  BY <1>1 DEF Server, app
<1>3. cmd \in Up /\ c2s' \in Seq(Up)
  BY <1>1, <1>2, HeadOf DEF TypesInv, NetInv
<1>4. Served
  BY <1>2, <1>3, ServerJoinGood, ServerNewkeyGood, ServerNewmsgGood, ServerMsgupdGood
<1>5. ServerInv' /\ Growing
  BY <1>4 DEF Served
<1>6. AppInv' /\ QueueInv' /\ CryptInv' /\ HistInv' /\ Keeps
  BY <1>2, <1>5, ClientAlone
<1>7. c2s' \in Seq(Up')
  BY <1>3, <1>5, CommandsGrow, SeqGrows
<1>8. NetInv'
  BY <1>2, <1>4, <1>7 DEF Served, TypesInv, NetInv
<1>9. ClientInv'
  BY <1>2, ClientStays DEF TypesInv
<1>10. QED
  BY <1>2, <1>5, <1>6, <1>8, <1>9, Committed DEF GoodStep

-----------------------------------------------------------------------------
(* The theorems *)

\* The first state is a good one.
LEMMA InitGood == Init => TypesInv /\ KeptInv
<1>. SUFFICES ASSUME Init PROVE TypesInv /\ KeptInv
  OBVIOUS
<1>1. Cardinality(Chats) \in Nat
  BY Bounds, FS_CardinalityType
<1>2. AppInv
  BY Bounds DEF Init, AppInv
<1>3. QueueInv
  <2>1. mSending \in [Chats -> Seq(Items)] /\ dbSending \in [Chats -> Seq(Items)]
        /\ dbManual \in [Chats -> Seq(Items)] /\ mNextUnsent \in [Chats -> Nat]
    BY DEF Init
  <2>2. ASSUME NEW c \in Chats PROVE Queue(c) \in QueuesOf(c)
    <3>1. PICK S : S = ItemsOf(c)
      OBVIOUS
    <3>2. Queue(c) = [q |-> <<>>, rows |-> <<>>, manual |-> <<>>, next |-> 1]
      BY DEF Init, Queue
    <3>3. <<>> \in Seq(S) /\ 1 \in Nat /\ 1 <= Len(<<>>) + 1
      OBVIOUS
    <3>4. QED
      BY <3>1, <3>2, <3>3 DEF QueuesOf
  <2>3. QED
    BY <2>1, <2>2 DEF QueueInv
<1>4. CryptInv
  <2>1. \A c \in Chats : NoPend \in PendsOf(c) /\ NoPend \in Pends
    BY NoCmdGood
  <2>2. pending \in [Chats -> Pends] /\ \A c \in Chats : pending[c] \in PendsOf(c)
    BY <2>1 DEF Init
  <2>3. mCurrentKey \in [Chats -> KeyRecs] /\ mUnconfirmedKeys \in [Chats -> Seq(KeyRecs)]
        /\ mEncryptionHalted \in [Chats -> BOOLEAN]
    BY DEF Init, KeyRecs, NoKey
  <2>4. QED
    BY <1>1, <2>2, <2>3 DEF Init, CryptInv
<1>5. ClientInv
  BY Bounds DEF Init, ClientInv, Memberships
<1>6. HistInv
  BY DEF Init, HistInv
<1>7. disk = Database /\ DiskInv
  BY <1>3, <1>6, DatabaseImage DEF Init, DiskInv
<1>8. ServerInv
  <2>1. 0 \in Memberships /\ 0 \in Contents
    BY Bounds DEF Memberships, Contents
  <2>2. [log |-> <<>>, users |-> 0, write |-> TRUE, joined |-> FALSE, keyxids |-> {}, keyCount |-> 0,
         refused |-> {}] \in Servers
    BY <2>1 DEF Servers
  <2>3. srv \in [Chats -> Servers] /\ \A c \in Chats : srv[c].log = <<>>
    BY <2>2 DEF Init
  <2>4. [data |-> 0, upd |-> 0, key |-> 0] \in Copies
    BY <2>1 DEF Copies
  <2>5. srvMsg \in [Numbering -> Copies]
    BY <2>4 DEF Init, Numbering
  <2>6. budget \in [drops : Nat, crashes : Nat, users : Nat, privs : Nat, foreign : 0..MaxForeign]
    BY Bounds, BoundsAssumption DEF Init
  <2>7. \A c \in Chats : DOMAIN srv[c].log = {}
    BY <2>3
  <2>8. QED
    BY <2>3, <2>5, <2>6, <2>7 DEF ServerInv
<1>9. NetInv
  BY DEF Init, NetInv
<1>10. KeptInv
  BY <1>7 DEF KeptInv
<1>11. QED
  BY <1>2, <1>3, <1>4, <1>5, <1>6, <1>7, <1>8, <1>9, <1>10 DEF TypesInv

\* The messages have the numbers that the bound leaves.
LEMMA CreatedNumber == AppInv => DOMAIN created \subseteq Numbering
  BY CreatedIn, Bounds DEF Numbering

\* A good step keeps what the invariant says of the disk as well.
LEMMA GoodStepKeeps == ASSUME TypesInv, KeptInv, GoodStep PROVE TypesInv' /\ KeptInv'
<1>1. /\ Growing /\ AppInv' /\ QueueInv' /\ CryptInv' /\ ClientInv' /\ HistInv' /\ ServerInv' /\ NetInv'
      /\ Keeps /\ (disk' = disk \/ disk' = Database')
  BY DEF GoodStep
<1>2. DiskInv'
  BY <1>1, DiskStays DEF TypesInv
<1>3. KeptInv'
  <2>1. ASSUME NEW c \in Chats, NEW n \in DOMAIN created', Stored(disk', c, n)
        PROVE  Stored(Database, c, n)' \/ InLog(n)'
    <3>1. CASE disk' = disk
      <4>1. n \in Numbering
        <5>1. (AppInv => DOMAIN created \subseteq Numbering)'
          BY CreatedNumber, PTL
        <5>2. DOMAIN created' \subseteq Numbering
          BY <1>1, <5>1 DEF Numbering
        <5>3. QED
          BY <5>2
      <4>2. Stored(disk, c, n)
        BY <2>1, <3>1
      <4>3. QED
        BY <1>1, <4>1, <4>2 DEF Keeps
    <3>2. CASE disk' = Database'
      BY <2>1, <3>2 DEF Stored
    <3>3. QED
      BY <1>1, <3>1, <3>2
  <2>2. QED
    BY <2>1 DEF KeptInv, Stored
<1>4. QED
  BY <1>1, <1>2, <1>3 DEF TypesInv

\* Whatever the next step is, it is a good one.
LEMMA NextGood == ASSUME TypesInv, KeptInv, Next PROVE GoodStep
<1>1. CASE Commit
  BY <1>1, CommitGood
<1>2. CASE App
  <2>1. PICK c \in Chats : \/ MsgSubmit(c)
                           \/ \E n \in DOMAIN created : MsgModifySending(c, n)
                           \/ \E h \in DOMAIN history[c] : MsgModifyConfirmed(c, h)
    BY <1>2 DEF App
  <2>2. CASE MsgSubmit(c)
    BY <2>2, MsgSubmitGood
  <2>3. CASE \E n \in DOMAIN created : MsgModifySending(c, n)
    BY <2>3, MsgModifySendingGood
  <2>4. CASE \E h \in DOMAIN history[c] : MsgModifyConfirmed(c, h)
    BY <2>4, MsgModifyConfirmedGood
  <2>5. QED
    BY <2>1, <2>2, <2>3, <2>4
<1>3. CASE PostMsgToSending
  BY <1>3, PostMsgToSendingGood
<1>4. CASE Keys
  <2>1. PICK c \in Chats : EncryptFails(c) \/ \E e \in Memberships : KeysArrive(c, e)
    BY <1>4 DEF Keys
  <2>2. CASE EncryptFails(c)
    BY <2>2, EncryptFailsGood
  <2>3. CASE \E e \in Memberships : KeysArrive(c, e)
    BY <2>3, KeysArriveGood
  <2>4. QED
    BY <2>1, <2>2, <2>3
<1>5. CASE Recv
  <2>1. CASE RecvUsers
    BY <2>1, RecvUsersGood
  <2>2. CASE RecvNewmsg
    BY <2>2, RecvNewmsgGood
  <2>3. CASE RecvHistdone
    BY <2>3, RecvHistdoneGood
  <2>4. CASE RecvNewmsgid
    BY <2>4, RecvNewmsgidGood
  <2>5. CASE RecvMsgid
    BY <2>5, RecvMsgidGood
  <2>6. CASE RecvRejectNewmsg
    BY <2>6, RecvRejectNewmsgGood
  <2>7. CASE RecvRejectMsgupd
    BY <2>7, RecvRejectMsgupdGood
  <2>8. CASE RecvRejectNewkey
    BY <2>8, RecvRejectNewkeyGood
  <2>9. CASE RecvNewkeyid
    BY <2>9, RecvNewkeyidGood
  <2>10. CASE KeyConfirmDies
    BY <2>10, KeyConfirmDiesGood
  <2>11. CASE RecvMsgupd
    BY <2>11, RecvMsgupdGood
  <2>12. QED
    BY <1>5, <2>1, <2>2, <2>3, <2>4, <2>5, <2>6, <2>7, <2>8, <2>9, <2>10, <2>11 DEF Recv
<1>6. CASE Connect
  BY <1>6, ConnectGood
<1>7. CASE Disconnect
  BY <1>7, DisconnectGood
<1>8. CASE Crash
  BY <1>8, CrashGood
<1>9. CASE Server
  BY <1>9, ServerGood
<1>10. CASE Environment
  <2>1. PICK c \in Chats : \/ \E e \in Memberships : UsersChange(c, e)
                           \/ Privilege(c)
                           \/ \E n \in DOMAIN created : ForeignEdit(c, n)
    BY <1>10 DEF Environment
  <2>2. CASE \E e \in Memberships : UsersChange(c, e)
    BY <2>2, UsersChangeGood
  <2>3. CASE Privilege(c)
    BY <2>3, PrivilegeGood
  <2>4. CASE \E n \in DOMAIN created : ForeignEdit(c, n)
    BY <2>4, ForeignEditGood
  <2>5. QED
    BY <2>1, <2>2, <2>3, <2>4
<1>11. CASE Tick
  BY <1>11, TickGood
<1>12. QED
  BY <1>1, <1>2, <1>3, <1>4, <1>5, <1>6, <1>7, <1>8, <1>9, <1>10, <1>11 DEF Next

\* To do nothing is a good step.
LEMMA StutterGood == ASSUME TypesInv, KeptInv, UNCHANGED vars PROVE GoodStep
<1>1. /\ UNCHANGED <<created, edits, calls, mSending, mNextUnsent, mEncryptionHalted, pending,
                     mCurrentKey, mUnconfirmedKeys, keyCount, pubkeys, mUsers, mOnlineState>>
      /\ UNCHANGED <<history, dbSending, dbManual, disk, conn, c2s, s2c, srv, srvMsg, now, budget>>
      /\ UNCHANGED net
  BY DEF vars, app, client, store, net, server
<1>2. Growing
  BY <1>1, SameGrows DEF TypesInv
<1>3. AppInv' /\ QueueInv' /\ CryptInv' /\ HistInv' /\ Keeps
  BY <1>1, <1>2, AppStays, QueueStays, CryptStays, HistStays, KeepsSame DEF TypesInv
<1>4. NetInv' /\ ServerInv' /\ ClientInv'
  BY <1>1, <1>2, NetStays, ServerStays, ClientStays DEF TypesInv
<1>5. QED
  BY <1>1, <1>2, <1>3, <1>4 DEF GoodStep

\* The inductive invariant holds.
LEMMA SafetyHolds == Spec => [](TypesInv /\ KeptInv)
<1>1. TypesInv /\ KeptInv /\ [Next]_vars => TypesInv' /\ KeptInv'
  BY NextGood, StutterGood, GoodStepKeeps
<1>2. QED
  BY InitGood, <1>1, PTL DEF Spec

\* It says what TypeOK says.
LEMMA TypesType == TypesInv => TypeOK
<1>. SUFFICES ASSUME TypesInv PROVE TypeOK
  OBVIOUS
<1>1. created \in Seq([chat : Chats, ts : Nat]) /\ edits \in 0..MaxEdits
  BY DEF TypesInv, AppInv
<1>2. calls \in Seq([chat : Chats, item : Items])
  <2>1. Marshalled \subseteq [chat : Chats, item : Items]
    BY DEF Marshalled
  <2>2. QED
    BY <2>1, SeqGrows DEF TypesInv, AppInv
<1>3. mSending \in [Chats -> Seq(Items)] /\ dbSending \in [Chats -> Seq(Items)]
      /\ dbManual \in [Chats -> Seq(Items)]
  BY DEF TypesInv, QueueInv
<1>4. \A c \in Chats : mNextUnsent[c] \in 0..(Len(mSending[c]) + 1)
  <2>1. SUFFICES ASSUME NEW c \in Chats PROVE mNextUnsent[c] \in 0..(Len(mSending[c]) + 1)
    OBVIOUS
  <2>2. Queue(c) \in QueuesOf(c) /\ mSending[c] \in Seq(Items)
    BY DEF TypesInv, QueueInv
  <2>3. mNextUnsent[c] \in Nat /\ mNextUnsent[c] <= Len(mSending[c]) + 1
    BY <2>2 DEF QueuesOf, Queue
  <2>4. QED
    BY <2>2, <2>3
<1>5. /\ mEncryptionHalted \in [Chats -> BOOLEAN]
      /\ pending \in [Chats -> [on : BOOLEAN, row : Nat, cmd : Cmds]]
      /\ mCurrentKey \in [Chats -> KeyRecs]
      /\ mUnconfirmedKeys \in [Chats -> Seq(KeyRecs)]
      /\ keyCount \in Nat
  BY DEF TypesInv, CryptInv, Pends
<1>6. /\ mUsers \in [Chats -> Memberships]
      /\ mOnlineState \in [Chats -> {"Offline", "Joining", "Online"}]
      /\ conn \in {"down", "up"}
  BY DEF TypesInv, ClientInv, NetInv
<1>7. history \in [Chats -> Seq([n : Numbering, data : Contents, upd : Nat, key : Int])]
  BY DEF TypesInv, HistInv, Hist
<1>8. QED
  BY <1>1, <1>2, <1>3, <1>4, <1>5, <1>6, <1>7 DEF TypeOK

\* The types of the client's state (class chatd::Chat), for any chats and bounds.
THEOREM TypeCorrect == Spec => []TypeOK
  BY SafetyHolds, TypesType, PTL

\* A message that a commit made durable stays durable until the server has it, through every
\* confirmation, rejection, edit, disconnection and death of the process (chatd.cpp's table
\* sending), for any chats and bounds.
THEOREM CommittedKeptHolds == Spec => CommittedKept
<1>1. ASSUME TypesInv, KeptInv, GoodStep
      PROVE  \A n \in DOMAIN created : LET c == created[n].chat IN
                Stored(disk, c, n) => Stored(disk', c, n) \/ Contains(srv'[c].log, n)
  <2>1. SUFFICES ASSUME NEW n \in DOMAIN created, NEW c, c = created[n].chat, Stored(disk, c, n)
                 PROVE  Stored(disk', c, n) \/ Contains(srv'[c].log, n)
    OBVIOUS
  <2>2. Growing /\ Keeps /\ (disk' = disk \/ disk' = Database')
    BY <1>1 DEF GoodStep
  <2>3. c \in Chats /\ n \in Numbering
    BY <1>1, <2>1, CreatedIn, Bounds DEF TypesInv, Numbering
  <2>4. created'[n].chat = c
    BY <2>1, <2>2 DEF Growing
  <2>5. CASE disk' = disk
    BY <2>1, <2>5
  <2>6. CASE disk' = Database'
    <3>1. Stored(Database, c, n)' \/ InLog(n)'
      BY <2>1, <2>2, <2>3 DEF Keeps
    <3>2. Stored(Database, c, n)' => Stored(disk', c, n)
      BY <2>6 DEF Stored
    <3>3. InLog(n)' => Contains(srv'[c].log, n)
      BY <2>4 DEF InLog
    <3>4. QED
      BY <3>1, <3>2, <3>3
  <2>7. QED
    BY <2>2, <2>5, <2>6
<1>2. TypesInv /\ KeptInv /\ [Next]_vars =>
        [\A n \in DOMAIN created : LET c == created[n].chat IN
                Stored(disk, c, n) => Stored(disk', c, n) \/ Contains(srv'[c].log, n)]_vars
  BY <1>1, NextGood
<1>3. QED
  BY SafetyHolds, <1>2, PTL DEF Spec, CommittedKept

-----------------------------------------------------------------------------
(* The table sending holds the queue *)

\* what the invariant is for: with every key in the cache from the start
KeysCached == ~SlowKeys

\* no two elements have the same row
Unlike(s) == \A j, k \in DOMAIN s : s[j].row = s[k].row => j = k
RowSet(s) == {s[k].row : k \in DOMAIN s}

\* what holds of every item, and of every row
Proper(i) == /\ i.cmd # NoCmd => i.cmd.op # "NONE"
             /\ MaxEdits = 0 => IsNew(i)
Plain(r)  == /\ r.cmd = NoCmd => r.key = 0
             /\ MaxEdits = 0 => IsNew(r)
NeatQueue(q)   == Unlike(q) /\ \A k \in DOMAIN q : Proper(q[k])
NeatRows(rows) == Unlike(rows) /\ \A k \in DOMAIN rows : Plain(rows[k])

\* a row and the item it stores, as in DbMirrorsQueue
Same(i, r) == /\ <<r.row, r.op, r.n, r.x, r.data, r.rcp, r.keyCmd>>
                     = <<i.row, i.op, i.n, i.x, i.data, i.rcp, i.keyCmd>>
              /\ OwnContent(i) => r.upd = i.upd
              /\ (r.cmd = NoCmd) = (i.cmd = NoCmd)
              /\ i.cmd # NoCmd => r.cmd.data = i.cmd.data /\ r.key = i.key
Mirrors(q, rows) == Len(rows) = Len(q) /\ \A k \in DOMAIN q : Same(q[k], rows[k])

\* the assertion of msgConfirm has not failed: what had the msgxid that was confirmed were edits
Wrong     == "msgConfirm: opcode is MSGUPDX"
Confirmed == Wrong \notin failed

\* rows that were given to messages and edits so far, and those that a chat has
Taken   == (1..Len(created)) \cup {MaxMsgs + k : k \in 1..edits}
Rows(c) == RowSet(mSending[c]) \cup RowSet(dbSending[c]) \cup RowSet(disk[c].sending)

\* what is marshalled has a row that no queue and no table has yet
CallsInv ==
    /\ \A j, k \in DOMAIN calls : calls[j].item.row = calls[k].item.row => j = k
    /\ \A k \in DOMAIN calls : LET i == calls[k].item IN
          /\ i.cmd = NoCmd /\ i.keyCmd = 0 /\ (MaxEdits = 0 => IsNew(i))
          /\ i.row \in Taken /\ \A c \in Chats : i.row \notin Rows(c)
NeatInv == \A c \in Chats : /\ NeatQueue(mSending[c]) /\ NeatRows(dbSending[c])
                            /\ NeatRows(disk[c].sending) /\ Rows(c) \subseteq Taken
MirrorInv ==
    /\ pubkeys = [c \in Chats |-> Memberships]
    /\ CallsInv /\ NeatInv
    /\ MaxEdits = 0 => Confirmed
    /\ Confirmed => \A c \in Chats : Mirrors(mSending[c], dbSending[c])

\* where in two sequences is what is kept of them
Places(s, t, positions, at) ==
    /\ Len(Kept(s, positions)) = Len(at) /\ Len(Kept(t, positions)) = Len(at)
    /\ \A j, k \in DOMAIN at : at[j] = at[k] => j = k
    /\ \A k \in DOMAIN at : /\ at[k] \in DOMAIN s /\ at[k] \in positions
                            /\ Kept(s, positions)[k] = s[at[k]]
                            /\ Kept(t, positions)[k] = t[at[k]]

\* The places are the same in two sequences of one length.
LEMMA KeptPlaces ==
    ASSUME NEW S, NEW T, NEW s \in Seq(S), NEW t \in Seq(T), Len(t) = Len(s), NEW positions
    PROVE  \E at \in Seq(Nat) : Places(s, t, positions, at)
<1> DEFINE L == Len(s)
<1>1. L \in Nat /\ DOMAIN s = 1..L /\ Len(t) = L /\ DOMAIN t = 1..L
  OBVIOUS
<1>. HIDE DEF L
<1>2. PICK f : KeptUpTo(f, s, positions, L) /\ Kept(s, positions) = f[L]
  BY <1>1, KeptRecursion DEF L
<1>3. PICK g : KeptUpTo(g, t, positions, L) /\ Kept(t, positions) = g[L]
  BY <1>1, KeptRecursion
<1>4. \A n \in 0..L : /\ f[n] = IF n = 0 THEN <<>>
                                ELSE IF n \in positions THEN Append(f[n - 1], s[n])
                                ELSE f[n - 1]
                      /\ g[n] = IF n = 0 THEN <<>>
                                ELSE IF n \in positions THEN Append(g[n - 1], t[n])
                                ELSE g[n - 1]
  BY <1>2, <1>3 DEF KeptUpTo
<1> DEFINE UpToHere(n, at) ==
              /\ at \in Seq(Nat) /\ f[n] \in Seq(S) /\ g[n] \in Seq(T)
              /\ Len(f[n]) = Len(at) /\ Len(g[n]) = Len(at)
              /\ \A j, k \in DOMAIN at : at[j] = at[k] => j = k
              /\ \A k \in DOMAIN at : /\ at[k] \in 1..n /\ at[k] \in positions
                                      /\ f[n][k] = s[at[k]] /\ g[n][k] = t[at[k]]
           Z == {n \in Nat : \E at : UpToHere(n, at)}
<1>5. 0 \in Z
  <2>1. f[0] = <<>> /\ g[0] = <<>>
    BY <1>1, <1>4
  <2>2. UpToHere(0, <<>>)
    BY <2>1
  <2>3. QED
    BY <2>2
<1>6. ASSUME NEW m \in Nat, m \in Z, m < L PROVE m + 1 \in Z
  <2>1. PICK at : UpToHere(m, at)
    BY <1>6
  <2> DEFINE n == m + 1
  <2>2. /\ n \in 0..L /\ n # 0 /\ n - 1 = m /\ n \in DOMAIN s /\ n \in DOMAIN t /\ n \in Nat
        /\ s[n] \in S /\ t[n] \in T /\ \A k \in 1..m : k \in 1..n /\ k # n
        /\ n \in 1..n
    BY <1>1, <1>6
  <2>. HIDE DEF n
  <2>3. /\ f[n] = IF n \in positions THEN Append(f[m], s[n]) ELSE f[m]
        /\ g[n] = IF n \in positions THEN Append(g[m], t[n]) ELSE g[m]
    BY <1>4, <2>2
  <2>4. CASE n \in positions
    <3>1. f[n] = Append(f[m], s[n]) /\ g[n] = Append(g[m], t[n])
      BY <2>3, <2>4
    <3> DEFINE new == Append(at, n)
    <3>2. /\ new \in Seq(Nat) /\ Len(new) = Len(at) + 1
          /\ \A k \in DOMAIN new : IF k = Len(at) + 1 THEN new[k] = n
                                   ELSE k \in DOMAIN at /\ new[k] = at[k]
      BY <2>1, <2>2
    <3>3. /\ f[n] \in Seq(S) /\ Len(f[n]) = Len(at) + 1 /\ f[n][Len(at) + 1] = s[n]
          /\ \A k \in DOMAIN at : f[n][k] = f[m][k]
      <4>1. PICK u, e : u = f[m] /\ e = s[n]
        OBVIOUS
      <4>2. u \in Seq(S) /\ Len(u) = Len(at) /\ e \in S /\ f[n] = Append(u, e)
        BY <2>1, <2>2, <3>1, <4>1
      <4>3. DOMAIN at = DOMAIN u
        BY <2>1, <4>2
      <4>4. QED
        BY <4>1, <4>2, <4>3
    <3>4. /\ g[n] \in Seq(T) /\ Len(g[n]) = Len(at) + 1 /\ g[n][Len(at) + 1] = t[n]
          /\ \A k \in DOMAIN at : g[n][k] = g[m][k]
      <4>1. PICK u, e : u = g[m] /\ e = t[n]
        OBVIOUS
      <4>2. u \in Seq(T) /\ Len(u) = Len(at) /\ e \in T /\ g[n] = Append(u, e)
        BY <2>1, <2>2, <3>1, <4>1
      <4>3. DOMAIN at = DOMAIN u
        BY <2>1, <4>2
      <4>4. QED
        BY <4>1, <4>2, <4>3
    <3>. HIDE DEF new
    <3>5. ASSUME NEW k \in DOMAIN new
          PROVE  /\ new[k] \in 1..n /\ new[k] \in positions
                 /\ f[n][k] = s[new[k]] /\ g[n][k] = t[new[k]]
      <4>1. CASE k = Len(at) + 1
        BY <2>2, <2>4, <3>2, <3>3, <3>4, <4>1
      <4>2. CASE k # Len(at) + 1
        BY <2>1, <2>2, <3>2, <3>3, <3>4, <4>2
      <4>3. QED
        BY <4>1, <4>2
    <3>6. ASSUME NEW j \in DOMAIN new, NEW k \in DOMAIN new, new[j] = new[k] PROVE j = k
      <4>1. \A i \in DOMAIN at : at[i] # n
        BY <2>1, <2>2
      <4>2. CASE j = Len(at) + 1 \/ k = Len(at) + 1
        BY <3>2, <3>6, <4>1, <4>2
      <4>3. CASE j # Len(at) + 1 /\ k # Len(at) + 1
        BY <2>1, <3>2, <3>6, <4>3
      <4>4. QED
        BY <4>2, <4>3
    <3>7. UpToHere(n, new)
      BY <3>2, <3>3, <3>4, <3>5, <3>6
    <3>8. QED
      BY <2>2, <3>7 DEF n
  <2>5. CASE n \notin positions
    <3>1. f[n] = f[m] /\ g[n] = g[m]
      BY <2>3, <2>5
    <3>2. UpToHere(n, at)
      BY <2>1, <2>2, <3>1
    <3>3. QED
      BY <2>2, <3>2 DEF n
  <2>6. QED
    BY <2>4, <2>5
<1>7. L \in Z
  <2>. HIDE DEF Z
  <2>1. L \in 0..L
    BY <1>1
  <2>2. QED
    BY <1>1, <1>5, <1>6, <2>1, UpTo
<1>8. PICK at : UpToHere(L, at)
  BY <1>7
<1>9. Places(s, t, positions, at)
  BY <1>1, <1>2, <1>3, <1>8 DEF Places
<1>10. QED
  BY <1>8, <1>9

\* What a part of a sequence has not, the sequence has not.
LEMMA KeptNeat ==
    ASSUME NEW S, NEW s \in Seq(S), NEW positions
    PROVE  /\ Unlike(s) => Unlike(Kept(s, positions))
           /\ RowSet(Kept(s, positions)) \subseteq RowSet(s)
           /\ \A k \in DOMAIN Kept(s, positions) : \E j \in DOMAIN s : Kept(s, positions)[k] = s[j]
<1>1. PICK at \in Seq(Nat) : Places(s, s, positions, at)
  BY KeptPlaces
<1>2. Kept(s, positions) \in Seq(S)
  BY KeptType
<1>3. DOMAIN Kept(s, positions) = DOMAIN at
  BY <1>1, <1>2 DEF Places
<1>4. QED
  BY <1>1, <1>3 DEF Places, Unlike, RowSet

\* A queue goes over into another that is as neat, with no new rows, and that its rows mirror
\* if they did.
Neat(Q)     == NeatQueue(Q.q) /\ NeatRows(Q.rows)
Tends(Q, R) == /\ Neat(R) /\ RowSet(R.q) \subseteq RowSet(Q.q)
               /\ RowSet(R.rows) \subseteq RowSet(Q.rows)
               /\ Mirrors(Q.q, Q.rows) => Mirrors(R.q, R.rows)

LEMMA TendsTwice == ASSUME NEW P, NEW Q, NEW R, Tends(P, Q), Tends(Q, R) PROVE Tends(P, R)
  BY DEF Tends

\* Elements are erased with their rows.
LEMMA EraseTends ==
    ASSUME NEW c, NEW Q \in QueuesOf(c), Neat(Q), NEW E \in SUBSET (DOMAIN Q.q)
    PROVE  Tends(Q, EraseAt(Q, E))
<1>1. /\ Q.q \in Seq(ItemsOf(c)) /\ Q.rows \in Seq(ItemsOf(c))
      /\ Q = [q |-> Q.q, rows |-> Q.rows, manual |-> Q.manual, next |-> Q.next]
  BY DEF QueuesOf
<1>2. PICK on : on = {j \in DOMAIN Q.rows : \A e \in E : Q.q[e].row # Q.rows[j].row}
  OBVIOUS
<1>3. PICK off : off = DOMAIN Q.q \ E
  OBVIOUS
<1>4. PICK R : R = EraseAt(Q, E)
  OBVIOUS
<1>5. R.q = Kept(Q.q, off) /\ R.rows = Kept(Q.rows, on)
  <2>1. PICK next : next = Shifted(Q.next, E)
    OBVIOUS
  <2>2. R = [Q EXCEPT !.q = Kept(Q.q, off), !.rows = Kept(Q.rows, on), !.next = next]
    BY <1>2, <1>3, <1>4, <2>1, Zenon DEF EraseAt
  <2>3. QED
    BY <1>1, <2>2
<1>6. /\ Unlike(R.q) /\ RowSet(R.q) \subseteq RowSet(Q.q)
      /\ \A k \in DOMAIN R.q : \E j \in DOMAIN Q.q : R.q[k] = Q.q[j]
  BY <1>1, <1>5, KeptNeat DEF Neat, NeatQueue
<1>7. /\ Unlike(R.rows) /\ RowSet(R.rows) \subseteq RowSet(Q.rows)
      /\ \A k \in DOMAIN R.rows : \E j \in DOMAIN Q.rows : R.rows[k] = Q.rows[j]
  BY <1>1, <1>5, KeptNeat DEF Neat, NeatRows
<1>8. Neat(R)
  BY <1>6, <1>7 DEF Neat, NeatQueue, NeatRows
<1>9. ASSUME Mirrors(Q.q, Q.rows) PROVE Mirrors(R.q, R.rows)
  <2>1. /\ Len(Q.rows) = Len(Q.q) /\ DOMAIN Q.q = DOMAIN Q.rows
        /\ \A k \in DOMAIN Q.q : Same(Q.q[k], Q.rows[k])
    BY <1>1, <1>9 DEF Mirrors
  <2>2. \A k \in DOMAIN Q.q : Q.rows[k].row = Q.q[k].row
    BY <2>1 DEF Same
  <2>3. on = off
    BY <1>2, <1>3, <2>1, <2>2 DEF Neat, NeatQueue, Unlike
  <2>4. PICK at \in Seq(Nat) : Places(Q.q, Q.rows, off, at)
    BY <1>1, <2>1, KeptPlaces
  <2>5. R.q \in Seq(ItemsOf(c))
    BY <1>1, <1>5, KeptType
  <2>6. DOMAIN R.q = DOMAIN at /\ Len(R.rows) = Len(R.q)
    BY <1>5, <2>3, <2>4, <2>5 DEF Places
  <2>7. QED
    BY <1>5, <2>1, <2>3, <2>4, <2>6 DEF Mirrors, Places
<1>10. QED
  BY <1>4, <1>6, <1>7, <1>8, <1>9 DEF Tends

\* So does the front, that goes to the manual queue,
LEMMA MoveTends ==
    ASSUME NEW c, NEW Q \in QueuesOf(c), Neat(Q), Q.q # <<>>
    PROVE  Tends(Q, MoveItemToManualSending(Q))
<1>1. {1} \in SUBSET (DOMAIN Q.q)
  BY DEF QueuesOf
<1>2. PICK R \in QueuesOf(c) : R = EraseAt(Q, {1})
  BY <1>1, EraseGood
<1>3. Tends(Q, R)
  BY <1>1, <1>2, EraseTends
<1>4. MoveItemToManualSending(Q) = [R EXCEPT !.manual = Append(Q.manual, Head(Q.q))]
  BY <1>2 DEF MoveItemToManualSending
<1>5. MoveItemToManualSending(Q).q = R.q /\ MoveItemToManualSending(Q).rows = R.rows
  BY <1>2, <1>4 DEF QueuesOf
<1>6. QED
  BY <1>3, <1>5 DEF Tends, Neat

\* if it is not refused.
LEMMA RejectTends ==
    ASSUME NEW c, NEW Q \in QueuesOf(c), Neat(Q), NEW n, NEW x
    PROVE  Tends(Q, RejectFront(Q, n, x))
<1>1. CASE Refuses(Q.q, n, x)
  BY <1>1 DEF RejectFront, Tends
<1>2. CASE ~Refuses(Q.q, n, x)
  <2>1. Q.q # <<>>
    BY <1>2 DEF Refuses
  <2>2. PICK P \in QueuesOf(c) : P = PassFront(Q) /\ P.q = Q.q /\ P.rows = Q.rows
    BY <2>1, PassGood
  <2>3. Neat(P)
    BY <2>2 DEF Neat
  <2>4. Tends(P, MoveItemToManualSending(P))
    BY <2>1, <2>2, <2>3, MoveTends
  <2>5. RejectFront(Q, n, x) = MoveItemToManualSending(P)
    BY <1>2, <2>2 DEF RejectFront
  <2>6. QED
    BY <2>2, <2>4, <2>5 DEF Tends
<1>3. QED
  BY <1>1, <1>2

\* An item that is encrypted has its row, its id and its content, and a command.
LEMMA EncryptedIs ==
    ASSUME NEW c, NEW q, NEW from, NEW k \in DOMAIN q, q[k] \in Items, q[k].cmd = NoCmd,
           Proper(q[k]), NEW e, e = Encrypted(c, q, from, k)
    PROVE  /\ <<e.row, e.op, e.n, e.x, e.data, e.upd, e.rcp>>
                  = <<q[k].row, q[k].op, q[k].n, q[k].x, q[k].data, q[k].upd, q[k].rcp>>
           /\ e.cmd # NoCmd /\ e.cmd.data = e.data /\ Proper(e)
<1>1. PICK key : key = KeyFor(c, q, from, k)
  OBVIOUS
<1>2. PICK new : new = IF k \in NewKeys(c, q, from) THEN key ELSE 0
  OBVIOUS
<1>3. PICK cmd : cmd = [op |-> q[k].op, n |-> q[k].n, x |-> q[k].x, data |-> q[k].data,
                        upd |-> q[k].upd, key |-> key, rcp |-> q[k].rcp]
  OBVIOUS
<1>4. e = [q[k] EXCEPT !.key = key, !.keyCmd = new, !.cmd = cmd]
  BY <1>1, <1>2, <1>3 DEF Encrypted
<1>5. /\ <<e.row, e.op, e.n, e.x, e.data, e.upd, e.rcp>>
             = <<q[k].row, q[k].op, q[k].n, q[k].x, q[k].data, q[k].upd, q[k].rcp>>
      /\ e.cmd = cmd
  BY <1>4 DEF Items
<1>6. cmd.op # "NONE" /\ cmd.data = q[k].data
  BY <1>3 DEF Items
<1>7. cmd # NoCmd
  BY <1>6 DEF NoCmd
<1>8. QED
  BY <1>5, <1>6, <1>7 DEF Proper, IsNew

\* A row with the blobs of an item that is encrypted stores that item.
LEMMA BlobsStore ==
    ASSUME NEW r \in Items, Plain(r), NEW e, e.cmd # NoCmd
    PROVE  /\ Plain(Blobs(r, e)) /\ Blobs(r, e).row = r.row
           /\ \A i : Same(i, r)
                     /\ <<e.row, e.op, e.n, e.x, e.data, e.upd, e.rcp>>
                          = <<i.row, i.op, i.n, i.x, i.data, i.upd, i.rcp>>
                     => Same(e, Blobs(r, e))
<1>1. PICK b : b = Blobs(r, e)
  OBVIOUS
<1>2. /\ b.row = r.row /\ b.op = r.op /\ b.n = r.n /\ b.x = r.x /\ b.data = r.data /\ b.upd = r.upd /\ b.rcp = r.rcp
      /\ b.cmd = e.cmd /\ b.keyCmd = e.keyCmd /\ b.key = e.key
  BY <1>1 DEF Blobs, Items
<1>3. Plain(b)
  BY <1>2 DEF Plain, IsNew
<1>4. ASSUME NEW i, Same(i, r),
             <<e.row, e.op, e.n, e.x, e.data, e.upd, e.rcp>>
                          = <<i.row, i.op, i.n, i.x, i.data, i.upd, i.rcp>>
      PROVE  Same(e, b)
  BY <1>2, <1>4 DEF Same, OwnContent
<1>5. QED
  BY <1>1, <1>2, <1>3, <1>4

\* A flush leaves a queue as neat.
LEMMA WalkedTends ==
    ASSUME NEW c, NEW Q \in QueuesOf(c), Neat(Q), NEW from, NEW fresh, NEW W \in QueuesOf(c),
           Walked(c, Q, from, fresh, W)
    PROVE  Tends(Q, W)
<1>1. /\ Q.q \in Seq(Items) /\ Q.rows \in Seq(Items) /\ W.q \in Seq(Items) /\ W.rows \in Seq(Items)
  <2>1. ItemsOf(c) \subseteq Items
    BY DEF ItemsOf
  <2>2. QED
    BY <2>1, SeqGrows DEF QueuesOf
<1>2. /\ fresh \subseteq DOMAIN Q.q /\ \A k \in fresh : Q.q[k].cmd = NoCmd
      /\ Len(W.q) = Len(Q.q) /\ DOMAIN W.q = DOMAIN Q.q
      /\ \A k \in DOMAIN Q.q : W.q[k] = IF k \in fresh THEN Encrypted(c, Q.q, from, k) ELSE Q.q[k]
      /\ DOMAIN W.rows = DOMAIN Q.rows /\ Len(W.rows) = Len(Q.rows)
  BY <1>1 DEF Walked
<1>3. \A k \in DOMAIN Q.q : Q.q[k] \in Items /\ Proper(Q.q[k])
  BY <1>1 DEF Neat, NeatQueue
<1>4. \A k \in fresh : /\ <<W.q[k].row, W.q[k].op, W.q[k].n, W.q[k].x, W.q[k].data, W.q[k].upd, W.q[k].rcp>>
                              = <<Q.q[k].row, Q.q[k].op, Q.q[k].n, Q.q[k].x, Q.q[k].data, Q.q[k].upd, Q.q[k].rcp>>
                       /\ W.q[k].cmd # NoCmd /\ W.q[k].cmd.data = W.q[k].data /\ Proper(W.q[k])
  BY <1>2, <1>3, EncryptedIs
<1>5. \A k \in DOMAIN Q.q : W.q[k].row = Q.q[k].row /\ Proper(W.q[k])
  BY <1>2, <1>3, <1>4
<1>6. NeatQueue(W.q) /\ RowSet(W.q) \subseteq RowSet(Q.q)
  BY <1>2, <1>5 DEF Neat, NeatQueue, Unlike, RowSet
<1>7. ASSUME NEW j \in DOMAIN Q.rows
      PROVE  W.rows[j].row = Q.rows[j].row /\ Plain(W.rows[j])
  <2>1. Q.rows[j] \in Items /\ Plain(Q.rows[j])
    BY <1>1 DEF Neat, NeatRows
  <2>2. CASE \E k \in fresh : Q.q[k].row = Q.rows[j].row
    <3>1. PICK k \in fresh : W.rows[j] = Blobs(Q.rows[j], W.q[k])
      BY <2>2 DEF Walked
    <3>2. QED
      BY <1>4, <2>1, <3>1, BlobsStore
  <2>3. CASE ~\E k \in fresh : Q.q[k].row = Q.rows[j].row
    BY <2>1, <2>3 DEF Walked
  <2>4. QED
    BY <2>2, <2>3
<1>8. NeatRows(W.rows) /\ RowSet(W.rows) \subseteq RowSet(Q.rows)
  BY <1>2, <1>7 DEF Neat, NeatRows, Unlike, RowSet
<1>9. ASSUME Mirrors(Q.q, Q.rows), NEW k \in DOMAIN Q.q
      PROVE  Same(W.q[k], W.rows[k])
  <2>1. k \in DOMAIN Q.rows /\ DOMAIN Q.rows = DOMAIN Q.q /\ Same(Q.q[k], Q.rows[k])
    BY <1>1, <1>9 DEF Mirrors
  <2>2. \A j \in DOMAIN Q.q : Q.q[j].row = Q.rows[k].row => j = k
    BY <2>1 DEF Neat, NeatQueue, Unlike, Same
  <2>3. Q.q[k].row = Q.rows[k].row
    BY <2>1 DEF Same
  <2>4. CASE k \in fresh
    <3>1. (CHOOSE j \in fresh : Q.q[j].row = Q.rows[k].row) = k
      BY <1>2, <2>2, <2>3, <2>4
    <3>2. W.rows[k] = Blobs(Q.rows[k], W.q[k])
      BY <2>1, <2>3, <2>4, <3>1 DEF Walked
    <3>3. Q.rows[k] \in Items /\ Plain(Q.rows[k])
      BY <1>1, <2>1 DEF Neat, NeatRows
    <3>4. QED
      BY <1>4, <2>1, <2>4, <3>2, <3>3, BlobsStore
  <2>5. CASE k \notin fresh
    <3>1. ~\E j \in fresh : Q.q[j].row = Q.rows[k].row
      BY <1>2, <2>2, <2>5
    <3>2. W.rows[k] = Q.rows[k] /\ W.q[k] = Q.q[k]
      BY <1>2, <2>1, <2>5, <3>1 DEF Walked
    <3>3. QED
      BY <2>1, <3>2
  <2>6. QED
    BY <2>4, <2>5
<1>10. Mirrors(Q.q, Q.rows) => Mirrors(W.q, W.rows)
  BY <1>2, <1>9 DEF Mirrors
<1>11. QED
  BY <1>6, <1>8, <1>10 DEF Tends, Neat

\* What a flush leaves in the chat is as neat as what it found.
LEMMA FlushTends ==
    ASSUME CryptInv, NEW c \in Chats, NEW Q \in QueuesOf(c), NEW from \in Nat \ {0},
           from <= Len(Q.q) + 1, NEW halted \in BOOLEAN, NEW sent, NEW fails,
           FlushOutputQueue(c, Q, from, halted, sent, fails), Neat(Q)
    PROVE  /\ \E R : Tends(Q, R) /\ SetQueue(c, R)
           /\ Wrong \notin fails => (Confirmed' <=> Confirmed)
<1>1. PICK fresh, W : /\ W \in QueuesOf(c) /\ Walked(c, Q, from, fresh, W)
                      /\ SetQueue(c, W) \/ \E n, x : SetQueue(c, RejectFront(W, n, x))
  BY FlushWalks
<1>2. Tends(Q, W)
  BY <1>1, WalkedTends
<1>3. \A n, x : Tends(Q, RejectFront(W, n, x))
  <2>1. TAKE n, x
  <2>2. Tends(W, RejectFront(W, n, x))
    BY <1>1, <1>2, RejectTends DEF Tends
  <2>3. QED
    BY <1>2, <2>2, TendsTwice
<1>4. ASSUME Wrong \notin fails PROVE (Confirmed' <=> Confirmed)
  <2>1. PICK other : other = "msgEncrypt: opcode is NEWMSG"
    BY Zenon
  <2>2. failed' = failed \cup fails \/ failed' = failed \cup fails \cup {other}
    BY <2>1, ZenonT(30) DEF FlushOutputQueue
  <2>3. other # Wrong
    BY <2>1, Zenon DEF Wrong
  <2>4. QED
    BY <1>4, <2>2, <2>3 DEF Confirmed
<1>5. QED
  BY <1>1, <1>2, <1>3, <1>4

-----------------------------------------------------------------------------
(* What a step does to the mirror *)

\* What is marshalled after a step that gives the rows F to the queues.
CallsAre(F) ==
    /\ \A j, k \in DOMAIN calls' : calls'[j].item.row = calls'[k].item.row => j = k
    /\ \A k \in DOMAIN calls' : LET i == calls'[k].item IN
          /\ i.cmd = NoCmd /\ i.keyCmd = 0 /\ (MaxEdits = 0 => IsNew(i))
          /\ i.row \in Taken' /\ i.row \notin F /\ \A c \in Chats : i.row \notin Rows(c)

\* The queues and their tables after such a step.
TablesAre(F) ==
    /\ \A c \in Chats : /\ NeatQueue(mSending'[c]) /\ NeatRows(dbSending'[c])
                        /\ RowSet(mSending'[c]) \subseteq Rows(c) \cup F
                        /\ RowSet(dbSending'[c]) \subseteq Rows(c) \cup F
    /\ Confirmed' => \A c \in Chats : Mirrors(mSending'[c], dbSending'[c])

\* Together they are the invariant after the step.
LEMMA MirrorStep ==
    ASSUME MirrorInv, UNCHANGED pubkeys, disk' = disk \/ disk' = Database', NEW F,
           Taken \subseteq Taken', F \subseteq Taken', CallsAre(F), TablesAre(F),
           MaxEdits = 0 => Confirmed'
    PROVE  MirrorInv'
<1>1. \A c \in Chats : RowSet(disk'[c].sending) \subseteq Rows(c) \cup F /\ NeatRows(disk'[c].sending)
  <2>1. CASE disk' = disk
    BY <2>1 DEF Rows, MirrorInv, NeatInv
  <2>2. CASE disk' = Database'
    <3>1. \A c \in Chats : disk'[c].sending = dbSending'[c]
      BY <2>2 DEF Database
    <3>2. QED
      BY <3>1 DEF TablesAre
  <2>3. QED
    BY <2>1, <2>2
<1>2. \A c \in Chats : Rows(c)' \subseteq Rows(c) \cup F
  BY <1>1 DEF Rows, RowSet, TablesAre
<1>3. NeatInv'
  <2>1. \A c \in Chats : Rows(c)' \subseteq Taken'
    BY <1>2 DEF MirrorInv, NeatInv
  <2>2. \A c \in Chats : NeatQueue(mSending'[c]) /\ NeatRows(dbSending'[c]) /\ NeatRows(disk'[c].sending)
    BY <1>1 DEF TablesAre
  <2>3. QED
    BY <2>1, <2>2 DEF NeatInv, NeatQueue, NeatRows, Unlike, Proper, Plain, IsNew
<1>4. CallsInv'
  BY <1>2 DEF CallsInv, CallsAre, IsNew
<1>5. pubkeys' = [c \in Chats |-> Memberships]
  BY DEF MirrorInv
<1>6. (Confirmed => \A c \in Chats : Mirrors(mSending[c], dbSending[c]))'
  BY DEF TablesAre, Mirrors
<1>7. QED
  BY <1>3, <1>4, <1>5, <1>6 DEF MirrorInv, Memberships

\* The calls that a step leaves alone,
LEMMA CallsStay ==
    ASSUME MirrorInv, UNCHANGED calls, Taken \subseteq Taken' PROVE CallsAre({})
  BY DEF MirrorInv, CallsInv, CallsAre

\* those of a process that dies,
LEMMA CallsLost == ASSUME calls' = <<>>, NEW F PROVE CallsAre(F)
  BY DEF CallsAre

\* those that are left when the main thread takes one,
LEMMA CallsTaken ==
    ASSUME MirrorInv, AppInv, calls # <<>>, calls' = Tail(calls), Taken \subseteq Taken'
    PROVE  CallsAre({Head(calls).item.row}) /\ Head(calls).item.row \in Taken
<1>1. /\ Head(calls) = calls[1] /\ 1 \in DOMAIN calls
      /\ \A k \in DOMAIN calls' : k + 1 \in DOMAIN calls /\ calls'[k] = calls[k + 1] /\ k + 1 # 1
                                  /\ k \in Nat
  BY DEF AppInv
<1>2. QED
  BY <1>1 DEF MirrorInv, CallsInv, CallsAre

\* and those to which the application adds one, with a row of its own.
LEMMA CallsAdded ==
    ASSUME MirrorInv, AppInv, NEW m, calls' = Append(calls, m), Taken \subseteq Taken',
           m.item.cmd = NoCmd, m.item.keyCmd = 0, MaxEdits = 0 => IsNew(m.item),
           m.item.row \in Taken', m.item.row \notin Taken
    PROVE  CallsAre({})
<1>1. \A k \in DOMAIN calls' : IF k = Len(calls) + 1 THEN calls'[k] = m
                               ELSE k \in DOMAIN calls /\ calls'[k] = calls[k]
  BY DEF AppInv
<1>2. \A k \in DOMAIN calls : calls[k].item.row # m.item.row
  BY DEF MirrorInv, CallsInv
<1>3. \A c \in Chats : m.item.row \notin Rows(c)
  BY DEF MirrorInv, NeatInv
<1>4. \A j, k \in DOMAIN calls' : calls'[j].item.row = calls'[k].item.row => j = k
  BY <1>1, <1>2 DEF MirrorInv, CallsInv
<1>5. ASSUME NEW k \in DOMAIN calls'
      PROVE  LET i == calls'[k].item IN
             /\ i.cmd = NoCmd /\ i.keyCmd = 0 /\ (MaxEdits = 0 => IsNew(i))
             /\ i.row \in Taken' /\ i.row \notin {} /\ \A c \in Chats : i.row \notin Rows(c)
  BY <1>1, <1>3 DEF MirrorInv, CallsInv
<1>6. QED
  BY <1>4, <1>5 DEF CallsAre

\* The queues that a step leaves alone.
LEMMA TablesStay ==
    ASSUME MirrorInv, UNCHANGED <<mSending, dbSending>>, (Confirmed' <=> Confirmed) PROVE TablesAre({})
  BY DEF MirrorInv, NeatInv, TablesAre, Rows

\* A queue that becomes another.
LEMMA TablesBecome ==
    ASSUME MirrorInv, QueueInv, NEW c \in Chats, NEW F, NEW Q,
           RowSet(Q.q) \subseteq Rows(c) \cup F, RowSet(Q.rows) \subseteq Rows(c) \cup F,
           Mirrors(mSending[c], dbSending[c]) => Mirrors(Q.q, Q.rows),
           NEW R, Neat(R), RowSet(R.q) \subseteq RowSet(Q.q), RowSet(R.rows) \subseteq RowSet(Q.rows),
           Confirmed' /\ Mirrors(Q.q, Q.rows) => Mirrors(R.q, R.rows), SetQueue(c, R),
           Confirmed' => Confirmed
    PROVE  TablesAre(F)
<1>1. mSending'[c] = R.q /\ dbSending'[c] = R.rows
  BY DEF SetQueue, QueueInv
<1>2. \A d \in Chats \ {c} : mSending'[d] = mSending[d] /\ dbSending'[d] = dbSending[d]
  BY DEF SetQueue, QueueInv
<1>3. ASSUME NEW d \in Chats
      PROVE  /\ NeatQueue(mSending'[d]) /\ NeatRows(dbSending'[d])
             /\ RowSet(mSending'[d]) \subseteq Rows(d) \cup F
             /\ RowSet(dbSending'[d]) \subseteq Rows(d) \cup F
  <2>1. CASE d = c
    <3>1. NeatQueue(R.q) /\ NeatRows(R.rows) /\ RowSet(R.q) \subseteq RowSet(Q.q)
          /\ RowSet(R.rows) \subseteq RowSet(Q.rows)
      BY DEF Neat
    <3>2. QED
      BY <1>1, <2>1, <3>1
  <2>2. CASE d # c
    BY <1>2, <2>2 DEF MirrorInv, NeatInv, Rows
  <2>3. QED
    BY <2>1, <2>2
<1>4. ASSUME Confirmed', NEW d \in Chats PROVE Mirrors(mSending'[d], dbSending'[d])
  <2>1. Mirrors(mSending[d], dbSending[d])
    BY <1>4 DEF MirrorInv
  <2>2. CASE d = c
    BY <1>1, <1>4, <2>1, <2>2
  <2>3. CASE d # c
    BY <1>2, <2>1, <2>3
  <2>4. QED
    BY <2>2, <2>3
<1>5. QED
  BY <1>3, <1>4 DEF TablesAre

\* So it is when it goes over into it.
LEMMA TablesTend ==
    ASSUME MirrorInv, QueueInv, NEW c \in Chats, NEW F, NEW Q,
           RowSet(Q.q) \subseteq Rows(c) \cup F, RowSet(Q.rows) \subseteq Rows(c) \cup F,
           Mirrors(mSending[c], dbSending[c]) => Mirrors(Q.q, Q.rows),
           NEW R, Tends(Q, R), SetQueue(c, R), Confirmed' => Confirmed
    PROVE  TablesAre(F)
<1>1. /\ Neat(R) /\ RowSet(R.q) \subseteq RowSet(Q.q) /\ RowSet(R.rows) \subseteq RowSet(Q.rows)
      /\ Confirmed' /\ Mirrors(Q.q, Q.rows) => Mirrors(R.q, R.rows)
  BY DEF Tends
<1>2. QED
  BY <1>1, TablesBecome

\* A queue of a chat is as neat as the tables.
LEMMA QueueNeat ==
    ASSUME MirrorInv, QueueInv, NEW c \in Chats
    PROVE  /\ Queue(c) \in QueuesOf(c) /\ Neat(Queue(c))
           /\ Queue(c).q = mSending[c] /\ Queue(c).rows = dbSending[c]
           /\ RowSet(Queue(c).q) \subseteq Rows(c) /\ RowSet(Queue(c).rows) \subseteq Rows(c)
<1>1. Queue(c) \in QueuesOf(c) /\ Queue(c).q = mSending[c] /\ Queue(c).rows = dbSending[c]
  BY DEF QueueInv, Queue
<1>2. QED
  BY <1>1 DEF MirrorInv, NeatInv, Neat, Rows

\* A step that leaves the calls alone and makes a queue go over into another.
LEMMA TendStep ==
    ASSUME MirrorInv, QueueInv, UNCHANGED <<pubkeys, created, edits, calls>>, Autocommit,
           NEW c \in Chats, NEW R, Tends(Queue(c), R), SetQueue(c, R), (Confirmed' <=> Confirmed)
    PROVE  MirrorInv'
<1>1. Taken \subseteq Taken'
  BY DEF Taken
<1>2. TablesAre({})
  BY QueueNeat, TablesTend
<1>3. disk' = disk \/ disk' = Database'
  BY Committed
<1>4. QED
  BY <1>1, <1>2, <1>3, CallsStay, MirrorStep DEF MirrorInv

\* A step that leaves the calls and the queues alone.
LEMMA StillStep ==
    ASSUME MirrorInv, UNCHANGED <<pubkeys, created, edits, calls, mSending, dbSending>>,
           disk' = disk \/ disk' = Database', (Confirmed' <=> Confirmed)
    PROVE  MirrorInv'
<1>1. Taken \subseteq Taken'
  BY DEF Taken
<1>2. QED
  BY <1>1, CallsStay, TablesStay, MirrorStep DEF MirrorInv

-----------------------------------------------------------------------------
(* The mirror, action by action *)

\* What does not touch the queues, the rows or the calls.
LEMMA StillMirror ==
    ASSUME MirrorInv,
           \/ Commit \/ RecvUsers \/ RecvNewmsg \/ RecvRejectNewkey \/ Connect \/ Disconnect
           \/ Server \/ Environment \/ Tick \/ UNCHANGED vars
    PROVE  MirrorInv'
<1> DEFINE still == /\ UNCHANGED <<pubkeys, created, edits, calls, mSending, dbSending, failed>>
                    /\ disk' = disk \/ disk' = Database'
<1>1. CASE Commit
  <2>1. Database' = Database
    BY <1>1 DEF Commit, Database, store
  <2>2. still
    BY <1>1, <2>1 DEF Commit, app, client, store
  <2>3. QED
    BY <2>2, StillStep DEF Confirmed
<1>2. CASE RecvUsers \/ RecvNewmsg \/ RecvRejectNewkey
  <2>1. still
    BY <1>2, Committed DEF RecvUsers, RecvNewmsg, RecvRejectNewkey, app, client, store
  <2>2. QED
    BY <2>1, StillStep DEF Confirmed
<1>3. CASE Connect \/ Disconnect \/ Tick
  <2>1. still
    BY <1>3, Committed, ZenonT(30) DEF Connect, Disconnect, Tick, app, client, store
  <2>2. QED
    BY <2>1, StillStep DEF Confirmed
<1>4. CASE Server
  <2>1. still
    BY <1>4, Committed, ZenonT(30) DEF Server, app, client, store
  <2>2. QED
    BY <2>1, StillStep DEF Confirmed
<1>5. CASE Environment
  <2>1. PICK c \in Chats : \/ \E e \in Memberships : UsersChange(c, e)
                           \/ Privilege(c)
                           \/ \E n \in DOMAIN created : ForeignEdit(c, n)
    BY <1>5 DEF Environment
  <2>2. still
    BY <2>1, Committed, ZenonT(30) DEF UsersChange, Privilege, ForeignEdit, app, client, store
  <2>3. QED
    BY <2>2, StillStep DEF Confirmed
<1>6. CASE UNCHANGED vars
  <2>1. still
    BY <1>6 DEF vars, app, client, store
  <2>2. QED
    BY <2>1, StillStep DEF Confirmed
<1>7. QED
  BY <1>1, <1>2, <1>3, <1>4, <1>5, <1>6

\* The rows that are given to a message and to an edit were not given before.
LEMMA RowsNew ==
    ASSUME AppInv
    PROVE  /\ Len(created) < MaxMsgs => Len(created) + 1 \notin Taken
           /\ MaxMsgs + edits + 1 \notin Taken
           /\ Len(created) \in Nat /\ edits \in Nat /\ MaxMsgs \in Nat
<1>1. Len(created) \in Nat /\ Len(created) <= MaxMsgs /\ edits \in Nat /\ MaxMsgs \in Nat
  BY CreatedIn, Bounds DEF AppInv
<1>2. QED
  BY <1>1 DEF Taken

\* No item was submitted with the content of the edit that is made now.
LEMMA OwnIsOld ==
    ASSUME AppInv
    PROVE  \A row \in Taken : edits + 1 # IF row > MaxMsgs THEN row - MaxMsgs ELSE 0
<1>1. Len(created) \in Nat /\ Len(created) <= MaxMsgs /\ edits \in Nat /\ MaxMsgs \in Nat
  BY CreatedIn, Bounds DEF AppInv
<1>2. ASSUME NEW row \in Taken, row > MaxMsgs PROVE edits + 1 # row - MaxMsgs
  BY <1>1, <1>2 DEF Taken
<1>3. QED
  BY <1>1, <1>2

LEMMA EditRow ==
    ASSUME AppInv, edits' = edits + 1, created' = created
    PROVE  Taken \subseteq Taken' /\ MaxMsgs + edits + 1 \in Taken' /\ MaxMsgs + edits + 1 \notin Taken
<1>1. edits \in Nat /\ MaxMsgs \in Nat /\ MaxMsgs + edits + 1 \notin Taken
  BY RowsNew
<1>2. 1..edits \subseteq 1..edits' /\ edits + 1 \in 1..edits' /\ MaxMsgs + edits + 1 = MaxMsgs + (edits + 1)
  BY <1>1
<1>3. Taken' = (1..Len(created)) \cup {MaxMsgs + k : k \in 1..edits'}
  BY DEF Taken
<1>4. QED
  BY <1>1, <1>2, <1>3 DEF Taken

\* A message that the application submits has a row of its own.
LEMMA MsgSubmitMirror ==
    ASSUME AppInv, MirrorInv, NEW c \in Chats, MsgSubmit(c) PROVE MirrorInv'
<1>1. PICK item : item = NewItem(Len(created) + 1, "NEWMSG", Len(created) + 1, TRUE, 0, 0, 0, mUsers[c])
  OBVIOUS
<1>2. PICK m : m = [chat |-> c, item |-> item]
  OBVIOUS
<1>3. /\ Len(created) < MaxMsgs /\ created' = Append(created, [chat |-> c, ts |-> now])
      /\ calls' = Append(calls, m) /\ edits' = edits
      /\ UNCHANGED <<pubkeys, mSending, dbSending, failed>> /\ (disk' = disk \/ disk' = Database')
  BY <1>1, <1>2, Committed DEF MsgSubmit, client, store
<1>4. m.item.row = Len(created) + 1 /\ m.item.cmd = NoCmd /\ m.item.keyCmd = 0 /\ IsNew(m.item)
  BY <1>1, <1>2 DEF NewItem, IsNew
<1>5. Len(created') = Len(created) + 1
  BY <1>3 DEF AppInv
<1>6. Taken \subseteq Taken' /\ m.item.row \in Taken' /\ m.item.row \notin Taken
  BY <1>3, <1>4, <1>5, RowsNew DEF Taken
<1>7. CallsAre({})
  BY <1>3, <1>4, <1>6, CallsAdded
<1>8. (Confirmed' <=> Confirmed) /\ TablesAre({})
  BY <1>3, TablesStay DEF Confirmed
<1>9. QED
  BY <1>3, <1>6, <1>7, <1>8, MirrorStep DEF MirrorInv

\* So has the edit of a message of the history.
LEMMA MsgModifyConfirmedMirror ==
    ASSUME AppInv, MirrorInv, NEW c \in Chats, NEW h, MsgModifyConfirmed(c, h) PROVE MirrorInv'
<1> DEFINE msg == history[c][h]
           age == IF Age(msg.n) <= msg.upd THEN msg.upd + 1 ELSE Age(msg.n)
<1>1. PICK item : item = NewItem(MaxMsgs + (edits + 1), "MSGUPD", msg.n, FALSE, edits + 1, age, msg.key, -1)
  OBVIOUS
<1>2. PICK m : m = [chat |-> c, item |-> item]
  OBVIOUS
<1>3. /\ edits < MaxEdits /\ edits' = edits + 1 /\ calls' = Append(calls, m) /\ created' = created
      /\ UNCHANGED <<pubkeys, mSending, dbSending, failed>> /\ (disk' = disk \/ disk' = Database')
  BY <1>1, <1>2, Committed DEF MsgModifyConfirmed, client, store
<1>4. m.item.row = MaxMsgs + edits + 1 /\ m.item.cmd = NoCmd /\ m.item.keyCmd = 0
  BY <1>1, <1>2, RowsNew DEF NewItem
<1>5. MaxEdits # 0
  BY <1>3, RowsNew
<1>6. Taken \subseteq Taken' /\ m.item.row \in Taken' /\ m.item.row \notin Taken
  BY <1>3, <1>4, EditRow
<1>7. CallsAre({})
  BY <1>3, <1>4, <1>5, <1>6, CallsAdded
<1>8. (Confirmed' <=> Confirmed) /\ TablesAre({})
  BY <1>3, TablesStay DEF Confirmed
<1>9. QED
  BY <1>3, <1>6, <1>7, <1>8, MirrorStep DEF MirrorInv

\* The front, or a message that its encryption fails, is handed back.
LEMMA RejectMirror ==
    ASSUME TypesInv, MirrorInv, RecvRejectNewmsg \/ \E c \in Chats : EncryptFails(c)
    PROVE  MirrorInv'
<1>1. \E c \in Chats : \E n, x : SetQueue(c, RejectFront(Queue(c), n, x))
  <2>1. CASE RecvRejectNewmsg
    <3>1. Head(s2c) \in Down /\ Head(s2c).op = "REJECT"
      BY <2>1, Received DEF TypesInv, RecvRejectNewmsg
    <3>2. Head(s2c).chat \in Chats
      BY <3>1, DownSays
    <3>3. QED
      BY <2>1, <3>2 DEF RecvRejectNewmsg
  <2>2. CASE \E c \in Chats : EncryptFails(c)
    BY <2>2 DEF EncryptFails
  <2>3. QED
    BY <2>1, <2>2
<1>2. UNCHANGED <<pubkeys, created, edits, calls, failed>> /\ Autocommit
  BY DEF RecvRejectNewmsg, EncryptFails, app
<1>3. PICK c \in Chats : \E n, x : SetQueue(c, RejectFront(Queue(c), n, x))
  BY <1>1
<1>4. PICK n, x : SetQueue(c, RejectFront(Queue(c), n, x))
  BY <1>3
<1>5. Tends(Queue(c), RejectFront(Queue(c), n, x))
  BY QueueNeat, RejectTends DEF TypesInv
<1>6. QED
  BY <1>2, <1>4, <1>5, TendStep DEF TypesInv, Confirmed

\* A queue is as neat as itself.
LEMMA TendsSelf == ASSUME NEW Q, Neat(Q) PROVE Tends(Q, Q)
  BY DEF Tends

\* An edit is refused.
LEMMA RecvRejectMsgupdMirror == ASSUME TypesInv, MirrorInv, RecvRejectMsgupd PROVE MirrorInv'
<1>1. PICK c : c = Head(s2c).chat
  OBVIOUS
<1>2. PICK R : R = IF mSending[c] = <<>> \/ ~IsEdit(Head(mSending[c]))
                      \/ ~HasId(Head(mSending[c]), Head(s2c).n, Head(s2c).x) THEN Queue(c)
                   ELSE IF Head(s2c).reason = 2 THEN EraseAt(Queue(c), {1})
                   ELSE MoveItemToManualSending(Queue(c))
  OBVIOUS
<1>3. /\ Receive("REJECT") /\ SetQueue(c, R)
      /\ UNCHANGED <<pubkeys, created, edits, calls, failed>> /\ Autocommit
  BY <1>1, <1>2 DEF RecvRejectMsgupd, app
<1>4. Head(s2c) \in Down /\ Head(s2c).op = "REJECT"
  BY <1>3, Received DEF TypesInv
<1>5. c \in Chats
  BY <1>1, <1>4, DownSays
<1>6. PICK Q \in QueuesOf(c) : Q = Queue(c) /\ Neat(Q) /\ Q.q = mSending[c]
  BY <1>5, QueueNeat DEF TypesInv
<1>7. Tends(Q, R)
  <2>1. CASE R = Q
    BY <1>6, <2>1, TendsSelf
  <2>2. CASE mSending[c] # <<>> /\ R = EraseAt(Q, {1})
    <3>1. {1} \in SUBSET (DOMAIN Q.q)
      BY <1>6, <2>2 DEF QueuesOf
    <3>2. QED
      BY <1>6, <2>2, <3>1, EraseTends
  <2>3. CASE mSending[c] # <<>> /\ R = MoveItemToManualSending(Q)
    BY <1>6, <2>3, MoveTends
  <2>4. QED
    BY <1>2, <1>6, <2>1, <2>2, <2>3
<1>8. QED
  BY <1>3, <1>5, <1>6, <1>7, TendStep DEF TypesInv, Confirmed

\* A chat goes online, and its queue is flushed.
LEMMA RecvHistdoneMirror == ASSUME TypesInv, MirrorInv, RecvHistdone PROVE MirrorInv'
<1>1. PICK c : c = Head(s2c).chat
  OBVIOUS
<1>2. /\ Receive("HISTDONE") /\ FlushOutputQueue(c, Queue(c), 1, mEncryptionHalted[c], <<>>, {})
      /\ UNCHANGED <<pubkeys, created, edits, calls>> /\ Autocommit
  BY <1>1 DEF RecvHistdone, Walk, app
<1>3. Head(s2c) \in Down /\ Head(s2c).op = "HISTDONE"
  BY <1>2, Received DEF TypesInv
<1>4. c \in Chats
  BY <1>1, <1>3, DownSays
<1>5. PICK Q \in QueuesOf(c) : Q = Queue(c) /\ Neat(Q)
  BY <1>4, QueueNeat DEF TypesInv
<1>6. 1 \in Nat \ {0} /\ 1 <= Len(Q.q) + 1 /\ mEncryptionHalted[c] \in BOOLEAN /\ Wrong \notin {}
  BY <1>4 DEF TypesInv, CryptInv, QueuesOf
<1>7. (\E R : Tends(Q, R) /\ SetQueue(c, R)) /\ (Confirmed' <=> Confirmed)
  BY <1>2, <1>4, <1>5, <1>6, FlushTends DEF TypesInv
<1>8. QED
  BY <1>2, <1>4, <1>5, <1>7, TendStep DEF TypesInv

\* The front of the chat that takes a confirmation is erased.
LEMMA TakenTends ==
    ASSUME TypesInv, MirrorInv, NEW n, InLog(n), NEW c, c = Taker(n), c # -1
    PROVE  Tends(Queue(c), EraseAt(PassFront(Queue(c)), {1}))
<1>1. c \in Chats /\ mSending[c] # <<>>
  BY TakerIs
<1>2. PICK Q \in QueuesOf(c) : Q = Queue(c) /\ Neat(Q) /\ Q.q # <<>>
  BY <1>1, QueueNeat DEF TypesInv
<1>3. PICK P \in QueuesOf(c) : P = PassFront(Q) /\ P.q = Q.q /\ P.rows = Q.rows
  BY <1>2, PassGood
<1>4. Neat(P) /\ {1} \in SUBSET (DOMAIN P.q)
  BY <1>2, <1>3 DEF Neat, QueuesOf
<1>5. Tends(P, EraseAt(P, {1}))
  BY <1>4, EraseTends
<1>6. QED
  BY <1>2, <1>3, <1>5 DEF Tends

\* The server had the message: the front is erased.
LEMMA RecvMsgidMirror == ASSUME TypesInv, MirrorInv, RecvMsgid PROVE MirrorInv'
<1>1. PICK c : c = Taker(Head(s2c).n)
  OBVIOUS
<1>2. PICK assertion : assertion = "msgRemoveFromSending: msg isSending"
  BY Zenon
<1>3. /\ Receive("MSGID") /\ Autocommit
      /\ \/ Ignored
         \/ /\ c # -1 /\ SetQueue(c, EraseAt(PassFront(Queue(c)), {1}))
            /\ failed' = failed \/ failed' = failed \cup {assertion}
            /\ UNCHANGED <<pubkeys, created, edits, calls>>
  BY <1>1, <1>2, ZenonT(60) DEF RecvMsgid, app
<1>4. Wrong # assertion
  BY <1>2, Zenon DEF Wrong
<1>5. CASE Ignored
  <2>1. UNCHANGED <<pubkeys, created, edits, calls, mSending, dbSending, failed>>
    BY <1>5 DEF Ignored, app, client, store
  <2>2. QED
    BY <1>3, <2>1, Committed, StillStep DEF Confirmed
<1>6. CASE ~Ignored
  <2>1. Head(s2c) \in Down /\ Head(s2c).op = "MSGID"
    BY <1>3, Received DEF TypesInv
  <2>2. InLog(Head(s2c).n)
    BY <2>1, DownSays
  <2>3. c \in Chats
    BY <1>1, <1>3, <1>6, <2>2, TakerIs
  <2>4. Tends(Queue(c), EraseAt(PassFront(Queue(c)), {1}))
    BY <1>1, <1>3, <1>6, <2>2, TakenTends
  <2>5. Confirmed' <=> Confirmed
    BY <1>3, <1>4, <1>6 DEF Confirmed
  <2>6. QED
    BY <1>3, <1>6, <2>3, <2>4, <2>5, TendStep DEF TypesInv
<1>7. QED
  BY <1>5, <1>6

\* The edits that are not newer are erased.
LEMMA RecvMsgupdMirror == ASSUME TypesInv, MirrorInv, RecvMsgupd PROVE MirrorInv'
<1>1. PICK c, n, m : c = Head(s2c).chat /\ n = Head(s2c).n /\ m = Head(s2c).msg
  OBVIOUS
<1>2. PICK gone : gone = {k \in DOMAIN Queue(c).q : IsEdit(Queue(c).q[k]) /\ HasId(Queue(c).q[k], n, FALSE)
                                                    /\ Queue(c).q[k].upd <= m.upd}
  OBVIOUS
<1>3. /\ Receive("MSGUPD") /\ SetQueue(c, EraseAt(Queue(c), gone))
      /\ UNCHANGED <<pubkeys, created, edits, calls, failed>> /\ Autocommit
  BY <1>1, <1>2, SMTT(30) DEF RecvMsgupd, app
<1>4. Head(s2c) \in Down /\ Head(s2c).op = "MSGUPD"
  BY <1>3, Received DEF TypesInv
<1>5. c \in Chats
  BY <1>1, <1>4, DownSays
<1>6. gone \in SUBSET (DOMAIN Queue(c).q)
  BY <1>2
<1>7. Tends(Queue(c), EraseAt(Queue(c), gone))
  BY <1>5, <1>6, QueueNeat, EraseTends DEF TypesInv
<1>8. QED
  BY <1>3, <1>5, <1>7, TendStep DEF TypesInv, Confirmed

\* The item that a row is loaded as is the one that it stores.
LEMMA LoadedIs ==
    ASSUME NEW r \in Items, Plain(r)
    PROVE  Proper(Item(r)) /\ Same(Item(r), r)
<1>1. r.op # "NONE"
  BY DEF Items
<1>2. CASE r.cmd = NoCmd
  <2>1. Item(r) = [r EXCEPT !.cmd = NoCmd]
    BY <1>2 DEF Item
  <2>2. [r EXCEPT !.cmd = NoCmd] = r
    BY <1>2 DEF Items
  <2>3. QED
    BY <1>2, <2>1, <2>2 DEF Proper, Plain, Same
<1>3. CASE r.cmd # NoCmd
  <2>1. PICK cmd : cmd = [op |-> r.op, n |-> r.n, x |-> r.x, data |-> r.cmd.data,
                          upd |-> r.upd, key |-> r.key, rcp |-> r.rcp]
    OBVIOUS
  <2>2. cmd.op = r.op /\ cmd.data = r.cmd.data
    BY <2>1
  <2>3. cmd # NoCmd
    BY <1>1, <2>2 DEF NoCmd
  <2>4. PICK i : i = [r EXCEPT !.cmd = cmd]
    OBVIOUS
  <2>5. i = Item(r)
    BY <1>3, <2>1, <2>4 DEF Item
  <2>6. /\ i.row = r.row /\ i.op = r.op /\ i.n = r.n /\ i.x = r.x /\ i.data = r.data /\ i.upd = r.upd /\ i.rcp = r.rcp
        /\ i.keyCmd = r.keyCmd /\ i.key = r.key /\ i.cmd = cmd
    BY <2>4 DEF Items
  <2>7. Proper(i) /\ Same(i, r)
    BY <1>1, <1>3, <2>2, <2>3, <2>6 DEF Proper, Plain, Same, IsNew
  <2>8. QED
    BY <2>5, <2>7
<1>4. QED
  BY <1>2, <1>3

\* The process starts again from an image that is as neat as the tables.
LEMMA RestartMirror ==
    ASSUME MirrorInv, NEW image \in Images, NEW F, F \subseteq Taken, NEW fails, Restart(image, fails),
           Wrong \notin fails, Autocommit, UNCHANGED pubkeys,
           \A c \in Chats : /\ NeatRows(image[c].sending)
                            /\ RowSet(image[c].sending) \subseteq Rows(c) \cup F
    PROVE  MirrorInv'
<1>1. /\ mSending'  = [c \in Chats |-> Map(image[c].sending, Item)]
      /\ dbSending' = [c \in Chats |-> image[c].sending]
      /\ calls' = <<>> /\ failed' = failed \cup fails /\ UNCHANGED <<created, edits>>
  BY ZenonT(30) DEF Restart
<1>2. ASSUME NEW c \in Chats
      PROVE  /\ dbSending'[c] = image[c].sending /\ image[c].sending \in Seq(Items)
             /\ mSending'[c] = [k \in DOMAIN image[c].sending |-> Item(image[c].sending[k])]
             /\ Len(mSending'[c]) = Len(dbSending'[c])
  <2>1. PICK s : s = image[c].sending
    OBVIOUS
  <2>2. s \in Seq(ItemsOf(c)) /\ ItemsOf(c) \subseteq Items
    BY <2>1 DEF Images, ImagesOf, ItemsOf
  <2>3. s \in Seq(Items)
    BY <2>2, SeqGrows
  <2>4. mSending'[c] = [k \in DOMAIN s |-> Item(s[k])] /\ dbSending'[c] = s
    BY <1>1, <2>1 DEF Map
  <2>5. Len([k \in DOMAIN s |-> Item(s[k])]) = Len(s)
    BY <2>3
  <2>6. QED
    BY <2>1, <2>3, <2>4, <2>5
<1>3. ASSUME NEW c \in Chats
      PROVE  /\ NeatQueue(mSending'[c]) /\ NeatRows(dbSending'[c])
             /\ RowSet(mSending'[c]) \subseteq Rows(c) \cup F
             /\ RowSet(dbSending'[c]) \subseteq Rows(c) \cup F
             /\ Mirrors(mSending'[c], dbSending'[c])
  <2>1. PICK s \in Seq(Items) : s = image[c].sending /\ NeatRows(s) /\ RowSet(s) \subseteq Rows(c) \cup F
    BY <1>2
  <2>2. PICK q : q = [k \in DOMAIN s |-> Item(s[k])]
    OBVIOUS
  <2>2a. q = mSending'[c] /\ DOMAIN q = DOMAIN s /\ Len(q) = Len(s) /\ \A k \in DOMAIN s : q[k] = Item(s[k])
    BY <1>2, <2>1, <2>2
  <2>3. \A k \in DOMAIN s : Proper(q[k]) /\ Same(q[k], s[k])
    BY <2>1, <2>2a, LoadedIs DEF NeatRows
  <2>4. \A k \in DOMAIN s : q[k].row = s[k].row
    BY <2>3 DEF Same
  <2>5. NeatQueue(q) /\ RowSet(q) = RowSet(s) /\ Mirrors(q, s)
    BY <2>1, <2>2a, <2>3, <2>4 DEF NeatQueue, NeatRows, Unlike, RowSet, Mirrors
  <2>6. dbSending'[c] = s
    BY <1>2, <2>1
  <2>7. QED
    BY <2>1, <2>2a, <2>5, <2>6
<1>4. TablesAre(F)
  BY <1>3 DEF TablesAre
<1>5. CallsAre(F)
  BY <1>1, CallsLost
<1>6. Confirmed' <=> Confirmed
  BY <1>1 DEF Confirmed
<1>7. Taken' = Taken
  BY <1>1 DEF Taken
<1>8. QED
  BY <1>4, <1>5, <1>6, <1>7, Committed, MirrorStep DEF MirrorInv

\* The disk and the tables are as neat as that.
LEMMA ImagesNeat ==
    ASSUME MirrorInv, NEW c \in Chats
    PROVE  /\ NeatRows(disk[c].sending) /\ RowSet(disk[c].sending) \subseteq Rows(c)
           /\ Database[c].sending = dbSending[c]
           /\ NeatRows(dbSending[c]) /\ RowSet(dbSending[c]) \subseteq Rows(c)
  BY DEF MirrorInv, NeatInv, Rows, Database

\* The process dies, or a confirmation that the front did not wait for ends it.
LEMMA DeathMirror ==
    ASSUME TypesInv, MirrorInv, Crash \/ KeyConfirmDies PROVE MirrorInv'
<1>1. UNCHANGED pubkeys /\ Autocommit
  BY ZenonT(30) DEF Crash, KeyConfirmDies
<1>2. PICK assertions : assertions = {"keyConfirm: the front has a NEWKEY",
                                      "keyConfirm: every user of the key is encrypted"}
  BY Zenon
<1>3. Wrong \notin assertions
  BY <1>2, Zenon DEF Wrong
<1>4. \E fails : /\ Restart(disk, fails) \/ Restart(Durable(Database), fails)
                 /\ fails \subseteq assertions
  <2>1. CASE Crash
    <3>1. Restart(disk, {})
      BY <2>1 DEF Crash
    <3>2. {} \subseteq assertions
      OBVIOUS
    <3>3. QED
      BY <3>1, <3>2
  <2>2. CASE KeyConfirmDies
    <3>1. \/ Restart(Durable(Database), {"keyConfirm: the front has a NEWKEY"})
          \/ Restart(Durable(Database), {"keyConfirm: every user of the key is encrypted"})
      BY <2>2, ZenonT(30) DEF KeyConfirmDies
    <3>2. QED
      BY <1>2, <3>1, Zenon
  <2>3. QED
    BY <2>1, <2>2
<1>5. PICK fails, image : /\ Restart(image, fails) /\ Wrong \notin fails
                          /\ image = disk \/ image = Database
  BY <1>3, <1>4 DEF Durable
<1>6. image \in Images
  BY <1>5, DatabaseImage DEF TypesInv, DiskInv
<1>7. \A c \in Chats : NeatRows(image[c].sending) /\ RowSet(image[c].sending) \subseteq Rows(c) \cup {}
  BY <1>5, ImagesNeat
<1>8. {} \subseteq Taken
  OBVIOUS
<1>9. QED
  BY <1>1, <1>5, <1>6, <1>7, <1>8, RestartMirror

\* With the keys in the cache none arrives.
LEMMA KeysArriveNever ==
    ASSUME MirrorInv, NEW c \in Chats, NEW e \in Memberships PROVE ~KeysArrive(c, e)
<1>1. e \in pubkeys[c]
  BY DEF MirrorInv
<1>2. KeysArrive(c, e) => e \notin pubkeys[c]
  BY ZenonT(30) DEF KeysArrive
<1>3. QED
  BY <1>1, <1>2

\* An item, and a row, that use the key that is confirmed take its id.
Rekeyed(i, local, key) ==
    IF i.key = local THEN [i EXCEPT !.key = key, !.cmd.key = key, !.keyCmd = 0] ELSE i
RekeyedRow(r, local, key) ==
    IF r.key = local THEN [r EXCEPT !.key = key, !.keyCmd = 0] ELSE r

\* Each is as neat after it,
LEMMA RekeyProper ==
    ASSUME NEW i \in Items, NEW local, NEW keyid \in Nat, Proper(i), i.key = local => i.cmd # NoCmd,
           NEW j, j = Rekeyed(i, local, keyid)
    PROVE  /\ Proper(j) /\ <<j.row, j.op, j.n, j.x, j.data, j.upd, j.rcp>>
                             = <<i.row, i.op, i.n, i.x, i.data, i.upd, i.rcp>>
           /\ i.key = local => /\ i.cmd # NoCmd /\ j.cmd # NoCmd /\ j.cmd.data = i.cmd.data
                               /\ j.keyCmd = 0 /\ j.key = keyid
           /\ i.key # local => j = i
<1>1. CASE i.key = local
  <2>1. i.cmd \in Cmds /\ i.cmd # NoCmd /\ i.cmd.op # "NONE"
    BY <1>1 DEF Items, Proper
  <2>2. PICK cmd : cmd = [i.cmd EXCEPT !.key = keyid]
    OBVIOUS
  <2>3. cmd.op # "NONE" /\ cmd.data = i.cmd.data
    BY <2>1, <2>2 DEF Cmds
  <2>4. cmd # NoCmd
    BY <2>3 DEF NoCmd
  <2>5. j = [i EXCEPT !.key = keyid, !.cmd = cmd, !.keyCmd = 0]
    BY <1>1, <2>2 DEF Items, Rekeyed
  <2>6. /\ j.row = i.row /\ j.op = i.op /\ j.n = i.n /\ j.x = i.x /\ j.data = i.data /\ j.upd = i.upd
        /\ j.rcp = i.rcp
        /\ j.keyCmd = 0 /\ j.key = keyid /\ j.cmd = cmd
    BY <2>5 DEF Items
  <2>7. Proper(j)
    BY <2>3, <2>6 DEF Proper, IsNew
  <2>8. QED
    BY <1>1, <2>1, <2>3, <2>4, <2>6, <2>7
<1>2. CASE i.key # local
  BY <1>2 DEF Rekeyed
<1>3. QED
  BY <1>1, <1>2

LEMMA RekeyPlain ==
    ASSUME NEW r \in Items, NEW local, local # 0, NEW keyid \in Nat, Plain(r),
           NEW s, s = RekeyedRow(r, local, keyid)
    PROVE  /\ Plain(s) /\ <<s.row, s.op, s.n, s.x, s.data, s.upd, s.rcp>>
                            = <<r.row, r.op, r.n, r.x, r.data, r.upd, r.rcp>>
           /\ s.cmd = r.cmd
           /\ r.key = local => r.cmd # NoCmd /\ s.keyCmd = 0 /\ s.key = keyid
           /\ r.key # local => s = r
<1>1. CASE r.key = local
  <2>1. s = [r EXCEPT !.key = keyid, !.keyCmd = 0]
    BY <1>1 DEF RekeyedRow
  <2>2. /\ s.row = r.row /\ s.op = r.op /\ s.n = r.n /\ s.x = r.x /\ s.data = r.data /\ s.upd = r.upd
        /\ s.rcp = r.rcp /\ s.keyCmd = 0 /\ s.key = keyid /\ s.cmd = r.cmd
    BY <2>1 DEF Items
  <2>3. r.cmd # NoCmd
    BY <1>1 DEF Plain
  <2>4. QED
    BY <1>1, <2>2, <2>3 DEF Plain, IsNew
<1>2. CASE r.key # local
  BY <1>2 DEF RekeyedRow
<1>3. QED
  BY <1>1, <1>2

\* and they do it together.
LEMMA RekeySame ==
    ASSUME NEW i \in Items, NEW r \in Items, NEW local, local # 0, NEW keyid \in Nat, Proper(i), Plain(r),
           i.key = local => i.cmd # NoCmd, Same(i, r)
    PROVE  Same(Rekeyed(i, local, keyid), RekeyedRow(r, local, keyid))
<1>1. PICK j, s : j = Rekeyed(i, local, keyid) /\ s = RekeyedRow(r, local, keyid)
  OBVIOUS
<1>2. i.key = local <=> r.key = local
  <2>1. i.key = local => r.key = local
    BY DEF Same
  <2>2. r.key = local => i.key = local
    BY DEF Same, Plain
  <2>3. QED
    BY <2>1, <2>2
<1>3. Same(j, s)
  <2>1. CASE i.key = local
    <3>1. /\ <<j.row, j.op, j.n, j.x, j.data, j.upd, j.rcp>>
                             = <<i.row, i.op, i.n, i.x, i.data, i.upd, i.rcp>>
          /\ i.cmd # NoCmd /\ j.cmd # NoCmd /\ j.cmd.data = i.cmd.data /\ j.keyCmd = 0 /\ j.key = keyid
      BY <1>1, <2>1, RekeyProper
    <3>2. /\ <<s.row, s.op, s.n, s.x, s.data, s.upd, s.rcp>>
                            = <<r.row, r.op, r.n, r.x, r.data, r.upd, r.rcp>>
          /\ s.cmd = r.cmd /\ s.keyCmd = 0 /\ s.key = keyid
      BY <1>1, <1>2, <2>1, RekeyPlain
    <3>3. QED
      BY <3>1, <3>2 DEF Same, OwnContent
  <2>2. CASE i.key # local
    <3>1. j = i /\ s = r
      BY <1>1, <1>2, <2>2 DEF Rekeyed, RekeyedRow
    <3>2. QED
      BY <3>1
  <2>3. QED
    BY <2>1, <2>2
<1>4. QED
  BY <1>1, <1>3

\* A key is confirmed.
LEMMA RecvNewkeyidMirror == ASSUME TypesInv, MirrorInv, RecvNewkeyid PROVE MirrorInv'
<1> DEFINE c     == Head(s2c).chat
           keyid == Head(s2c).keyid
           q     == mSending[c]
           rows  == dbSending[c]
           local == Head(q).keyCmd
           newQ  == [k \in DOMAIN q |-> IF q[k].key = local
                      THEN [q[k] EXCEPT !.key = keyid, !.cmd.key = keyid, !.keyCmd = 0]
                      ELSE q[k]]
           newRows == [k \in DOMAIN rows |-> IF rows[k].key = local
                         THEN [rows[k] EXCEPT !.key = keyid, !.keyCmd = 0] ELSE rows[k]]
<1>1. PICK assertions : assertions = {"keyConfirm: key of the front", "keyConfirm: countDb is count",
                                      "onKeyConfirmed: first unconfirmed key"}
  BY Zenon
<1>2. Wrong \notin assertions
  BY <1>1, Zenon DEF Wrong
<1> DEFINE uses  == {k \in DOMAIN q : q[k].key = local}
           used  == {k \in DOMAIN rows : rows[k].key = local}
           keys  == mUnconfirmedKeys[c]
           fails == (IF Head(q).key # local THEN {"keyConfirm: key of the front"} ELSE {})
                    \cup (IF Cardinality(used) # Cardinality(uses)
                          THEN {"keyConfirm: countDb is count"} ELSE {})
                    \cup (IF keys # <<>> /\ keys[1].id # local
                          THEN {"onKeyConfirmed: first unconfirmed key"} ELSE {})
<1>3a. fails \subseteq assertions
  <2>. HIDE DEF local, q, keys, uses, used
  <2>1. QED
    BY <1>1, ZenonT(60)
<1>3b. /\ Receive("NEWKEYID") /\ Autocommit
       /\ \/ Ignored
          \/ /\ local # 0 /\ \A k \in uses : q[k].cmd # NoCmd
             /\ mSending' = [mSending EXCEPT ![c] =
                  [k \in DOMAIN @ |-> IF k \in uses
                     THEN [@[k] EXCEPT !.key = keyid, !.cmd.key = keyid, !.keyCmd = 0]
                     ELSE @[k]]]
             /\ dbSending' = [dbSending EXCEPT ![c] =
                  [k \in DOMAIN @ |-> IF k \in used THEN [@[k] EXCEPT !.key = keyid, !.keyCmd = 0]
                                      ELSE @[k]]]
             /\ failed' = failed \cup fails
             /\ UNCHANGED <<pubkeys, created, edits, calls, dbManual, mNextUnsent>>
  BY ZenonT(60) DEF RecvNewkeyid, app
<1>3c. ASSUME NEW new, new = [mSending EXCEPT ![c] =
                  [k \in DOMAIN @ |-> IF k \in uses
                     THEN [@[k] EXCEPT !.key = keyid, !.cmd.key = keyid, !.keyCmd = 0]
                     ELSE @[k]]]
       PROVE  new = [mSending EXCEPT ![c] = newQ]
  BY <1>3c, ZenonT(60)
<1>3d. ASSUME NEW new, new = [dbSending EXCEPT ![c] =
                  [k \in DOMAIN @ |-> IF k \in used THEN [@[k] EXCEPT !.key = keyid, !.keyCmd = 0]
                                      ELSE @[k]]]
       PROVE  new = [dbSending EXCEPT ![c] = newRows]
  BY <1>3d, ZenonT(60)
<1>3. /\ Receive("NEWKEYID") /\ Autocommit
      /\ \/ Ignored
         \/ /\ local # 0 /\ \A k \in DOMAIN q : q[k].key = local => q[k].cmd # NoCmd
            /\ mSending' = [mSending EXCEPT ![c] = newQ]
            /\ dbSending' = [dbSending EXCEPT ![c] = newRows]
            /\ failed' = failed \cup fails
            /\ UNCHANGED <<pubkeys, created, edits, calls, dbManual, mNextUnsent>>
  <2>. HIDE DEF newQ, newRows, fails
  <2>1. QED
    BY <1>3b, <1>3c, <1>3d, ZenonT(60)
<1>. HIDE DEF c, keyid, newQ, newRows, q, rows, local, uses, used, fails, keys
<1>4. Head(s2c) \in Down /\ Head(s2c).op = "NEWKEYID"
  BY <1>3, Received DEF TypesInv
<1>5. c \in Chats /\ keyid \in Nat
  BY <1>4, DownSays DEF c, keyid
<1>6. CASE Ignored
  <2>1. UNCHANGED <<pubkeys, created, edits, calls, mSending, dbSending, failed>>
    BY <1>6 DEF Ignored, app, client, store
  <2>2. QED
    BY <1>3, <2>1, Committed, StillStep DEF Confirmed
<1>7. CASE ~Ignored
  <2>1. /\ Queue(c) \in QueuesOf(c) /\ Neat(Queue(c)) /\ Queue(c).q = q /\ Queue(c).rows = rows
        /\ Queue(c).manual = dbManual[c] /\ Queue(c).next = mNextUnsent[c]
    BY <1>5, QueueNeat DEF TypesInv, Queue, q, rows
  <2>2. q \in Seq(Items) /\ rows \in Seq(Items)
    BY <1>5 DEF TypesInv, QueueInv, q, rows
  <2>3. PICK R : R = [q |-> newQ, rows |-> newRows, manual |-> dbManual[c], next |-> mNextUnsent[c]]
    OBVIOUS
  <2>4. SetQueue(c, R)
    BY <1>3, <1>7, <2>3 DEF SetQueue, TypesInv, QueueInv
  <2>5. /\ local # 0
        /\ \A k \in DOMAIN q : q[k] \in Items /\ Proper(q[k]) /\ (q[k].key = local => q[k].cmd # NoCmd)
        /\ \A k \in DOMAIN rows : rows[k] \in Items /\ Plain(rows[k])
    BY <1>3, <1>7, <2>1, <2>2 DEF Neat, NeatQueue, NeatRows
  <2>6. /\ DOMAIN newQ = DOMAIN q /\ Len(newQ) = Len(q)
        /\ DOMAIN newRows = DOMAIN rows /\ Len(newRows) = Len(rows)
    <3>1. PICK S, T : S = {newQ[k] : k \in DOMAIN q} /\ T = {newRows[k] : k \in DOMAIN rows}
      OBVIOUS
    <3>2. newQ \in [DOMAIN q -> S]
      BY <3>1, ZenonT(30) DEF newQ
    <3>3. newRows \in [DOMAIN rows -> T]
      BY <3>1, ZenonT(30) DEF newRows
    <3>4. Len(newQ) = Len(q)
      BY <2>2, <3>2, MapType
    <3>5. Len(newRows) = Len(rows)
      BY <2>2, <3>3, MapType
    <3>6. QED
      BY <3>2, <3>3, <3>4, <3>5
  <2>7. ASSUME NEW k \in DOMAIN q
        PROVE  newQ[k] = Rekeyed(q[k], local, keyid) /\ Proper(newQ[k]) /\ newQ[k].row = q[k].row
    <3>1. newQ[k] = Rekeyed(q[k], local, keyid)
      BY ZenonT(30) DEF newQ, Rekeyed
    <3>2. QED
      BY <1>5, <2>5, <3>1, RekeyProper
  <2>8. ASSUME NEW k \in DOMAIN rows
        PROVE  /\ newRows[k] = RekeyedRow(rows[k], local, keyid) /\ Plain(newRows[k])
               /\ newRows[k].row = rows[k].row
    <3>1. newRows[k] = RekeyedRow(rows[k], local, keyid)
      BY ZenonT(30) DEF newRows, RekeyedRow
    <3>2. QED
      BY <1>5, <2>5, <3>1, RekeyPlain
  <2>9. Tends(Queue(c), R)
    <3>1. R.q = newQ /\ R.rows = newRows
      BY <2>3
    <3>2. Unlike(q) /\ Unlike(rows)
      BY <2>1 DEF Neat, NeatQueue, NeatRows
    <3>3. NeatQueue(newQ) /\ RowSet(newQ) = RowSet(q)
      BY <2>6, <2>7, <3>2 DEF NeatQueue, Unlike, RowSet
    <3>4. NeatRows(newRows) /\ RowSet(newRows) = RowSet(rows)
      BY <2>6, <2>8, <3>2 DEF NeatRows, Unlike, RowSet
    <3>5. ASSUME Mirrors(q, rows), NEW k \in DOMAIN q PROVE Same(newQ[k], newRows[k])
      <4>1. k \in DOMAIN rows /\ Same(q[k], rows[k])
        BY <2>2, <3>5 DEF Mirrors
      <4>2. QED
        BY <1>5, <2>5, <2>7, <2>8, <4>1, RekeySame
    <3>6. Mirrors(q, rows) => Mirrors(newQ, newRows)
      <4>1. ASSUME Mirrors(q, rows) PROVE Mirrors(newQ, newRows)
        <5>1. Len(newRows) = Len(newQ)
          BY <2>6, <4>1 DEF Mirrors
        <5>2. \A k \in DOMAIN newQ : Same(newQ[k], newRows[k])
          BY <2>6, <3>5, <4>1
        <5>3. QED
          BY <5>1, <5>2 DEF Mirrors
      <4>2. QED
        BY <4>1
    <3>7. QED
      BY <2>1, <3>1, <3>3, <3>4, <3>6 DEF Tends, Neat
  <2>10. Confirmed' <=> Confirmed
    BY <1>2, <1>3, <1>3a, <1>7 DEF Confirmed
  <2>11. QED
    BY <1>3, <1>5, <1>7, <2>4, <2>9, <2>10, TendStep DEF TypesInv
<1>8. QED
  BY <1>6, <1>7

\* Without edits the others of a queue are not the message at its front.
LEMMA OthersAreOthers ==
    ASSUME TypesInv, MirrorInv, MaxEdits = 0, NEW n, InLog(n), NEW c, c = Taker(n), c # -1,
           NEW k \in DOMAIN EraseAt(PassFront(Queue(c)), {1}).q
    PROVE  ~HasId(EraseAt(PassFront(Queue(c)), {1}).q[k], n, TRUE)
<1>1. c \in Chats /\ mSending[c] # <<>> /\ ~Refuses(mSending[c], n, TRUE)
  <2>1. c \in Chats /\ mSending[c] # <<>>
    BY TakerIs
  <2>2. PICK able : able = {d \in Chats : ~Refuses(mSending[d], n, TRUE)}
    OBVIOUS
  <2>3. c = IF able = {} THEN -1 ELSE Min(able)
    BY <2>2, Zenon DEF Taker
  <2>4. able # {} /\ able \in SUBSET Nat
    BY <2>2, <2>3, Bounds
  <2>5. c \in able
    BY <2>3, <2>4, MinIn
  <2>6. QED
    BY <2>1, <2>2, <2>5
<1>2. PICK Q \in QueuesOf(c) : Q = Queue(c) /\ Neat(Q) /\ Q.q = mSending[c]
  BY <1>1, QueueNeat DEF TypesInv
<1>3. PICK P \in QueuesOf(c) : P = PassFront(Q) /\ P.q = Q.q
  BY <1>1, <1>2, PassGood
<1>4. P.q \in Seq(ItemsOf(c)) /\ P.q # <<>> /\ Head(P.q) = P.q[1] /\ 1 \in DOMAIN P.q
  BY <1>1, <1>2, <1>3 DEF QueuesOf
<1>5. PICK others, W : others = DOMAIN P.q \ {1} /\ W = EraseAt(P, {1})
  OBVIOUS
<1>6. W.q = Kept(P.q, others)
  <2>1. P = [q |-> P.q, rows |-> P.rows, manual |-> P.manual, next |-> P.next]
    BY DEF QueuesOf
  <2>2. PICK rows, next : W = [P EXCEPT !.q = Kept(P.q, others), !.rows = rows, !.next = next]
    BY <1>5, Zenon DEF EraseAt
  <2>3. QED
    BY <2>1, <2>2
<1>7. PICK at \in Seq(Nat) : Places(P.q, P.q, others, at)
  BY <1>4, KeptPlaces
<1>8. W.q \in Seq(ItemsOf(c))
  BY <1>4, <1>6, KeptType
<1>9. k \in DOMAIN at /\ at[k] \in DOMAIN P.q /\ at[k] # 1 /\ W.q[k] = P.q[at[k]]
  <2>1. k \in DOMAIN W.q
    BY <1>2, <1>3, <1>5
  <2>2. DOMAIN W.q = DOMAIN at
    BY <1>6, <1>7, <1>8 DEF Places
  <2>3. QED
    BY <1>5, <1>6, <1>7, <2>1, <2>2 DEF Places
<1>10. IsNew(P.q[1]) /\ IsNew(P.q[at[k]]) /\ P.q[1].row # P.q[at[k]].row
  BY <1>2, <1>3, <1>4, <1>9 DEF Neat, NeatQueue, Proper, Unlike
<1>11. P.q[1].row = P.q[1].n /\ P.q[at[k]].row = P.q[at[k]].n
  BY <1>4, <1>9, <1>10 DEF ItemsOf
<1>12. P.q[1].n = n
  BY <1>1, <1>2, <1>3, <1>4, <1>10 DEF Refuses, HasId
<1>13. W.q[k].n # n
  BY <1>9, <1>10, <1>11, <1>12
<1>14. QED
  BY <1>2, <1>3, <1>5, <1>13 DEF HasId

\* The edits of a message that is confirmed, and their rows, become edits of its msgid.
SentItem(i, n) == IF HasId(i, n, TRUE) THEN [i EXCEPT !.op = "MSGUPD", !.x = FALSE] ELSE i
SentRow(r, n)  == IF r.op = "MSGUPDX" THEN SentItem(r, n) ELSE r

\* They stay neat unless there are no edits,
LEMMA SentNeat ==
    ASSUME NEW n, NEW i \in Items
    PROVE  /\ Proper(i) /\ (MaxEdits = 0 => ~HasId(i, n, TRUE)) => Proper(SentItem(i, n))
           /\ Plain(i) => Plain(SentRow(i, n))
           /\ SentItem(i, n).row = i.row /\ SentRow(i, n).row = i.row
<1>1. PICK j : j = [i EXCEPT !.op = "MSGUPD", !.x = FALSE]
  OBVIOUS
<1>2. j.row = i.row /\ j.cmd = i.cmd /\ j.key = i.key
  BY <1>1 DEF Items
<1>3. SentItem(i, n) = IF HasId(i, n, TRUE) THEN j ELSE i
  BY <1>1 DEF SentItem
<1>4. SentRow(i, n) = IF i.op = "MSGUPDX" /\ HasId(i, n, TRUE) THEN j ELSE i
  BY <1>3 DEF SentRow
<1>5. Proper(i) /\ (MaxEdits = 0 => ~HasId(i, n, TRUE)) => Proper(SentItem(i, n))
  BY <1>2, <1>3 DEF Proper
<1>6. Plain(i) => Plain(SentRow(i, n))
  BY <1>2, <1>4 DEF Plain, IsNew
<1>7. QED
  BY <1>2, <1>3, <1>4, <1>5, <1>6

\* and a row goes with its item if that is an edit.
LEMMA SentSame ==
    ASSUME NEW n, NEW i \in Items, NEW r \in Items, Same(i, r), HasId(i, n, TRUE) => i.op = "MSGUPDX"
    PROVE  Same(SentItem(i, n), SentRow(r, n))
<1>1. r.op = i.op /\ (HasId(r, n, TRUE) <=> HasId(i, n, TRUE))
  BY DEF Same, HasId
<1>2. CASE HasId(i, n, TRUE)
  <2>1. PICK j, s : j = [i EXCEPT !.op = "MSGUPD", !.x = FALSE] /\ s = [r EXCEPT !.op = "MSGUPD", !.x = FALSE]
    OBVIOUS
  <2>2. j = SentItem(i, n) /\ s = SentRow(r, n)
    BY <1>1, <1>2, <2>1 DEF SentItem, SentRow
  <2>3. /\ j.row = i.row /\ j.op = "MSGUPD" /\ j.n = i.n /\ j.x = FALSE /\ j.data = i.data /\ j.upd = i.upd
        /\ j.rcp = i.rcp /\ j.keyCmd = i.keyCmd /\ j.cmd = i.cmd /\ j.key = i.key
    BY <2>1 DEF Items
  <2>4. /\ s.row = r.row /\ s.op = "MSGUPD" /\ s.n = r.n /\ s.x = FALSE /\ s.data = r.data /\ s.upd = r.upd
        /\ s.rcp = r.rcp /\ s.keyCmd = r.keyCmd /\ s.cmd = r.cmd /\ s.key = r.key
    BY <2>1 DEF Items
  <2>5. Same(j, s)
    BY <2>3, <2>4 DEF Same, OwnContent
  <2>6. QED
    BY <2>2, <2>5
<1>3. CASE ~HasId(i, n, TRUE)
  <2>1. SentItem(i, n) = i /\ SentRow(r, n) = r
    BY <1>1, <1>3 DEF SentItem, SentRow
  <2>2. QED
    BY <2>1
<1>4. QED
  BY <1>2, <1>3

\* A message is confirmed.
LEMMA RecvNewmsgidMirror == ASSUME TypesInv, MirrorInv, RecvNewmsgid PROVE MirrorInv'
<1> DEFINE n     == Head(s2c).n
           c     == Taker(n)
           front == Head(mSending[c])
           Q     == EraseAt(PassFront(Queue(c)), {1})
           sent(i) == IF HasId(i, n, TRUE) THEN [i EXCEPT !.op = "MSGUPD", !.x = FALSE] ELSE i
           row(r)  == IF r.op = "MSGUPDX" THEN sent(r) ELSE r
           other == \E k \in DOMAIN Q.q : HasId(Q.q[k], n, TRUE) /\ Q.q[k].op # "MSGUPDX"
           first == (IF front.x THEN {} ELSE {"msgRemoveFromSending: msg isSending"})
                    \cup (IF front.key < 0 THEN {"msgConfirm: key is confirmed"} ELSE {})
<1>1. c = Taker(n) /\ Q = EraseAt(PassFront(Queue(c)), {1})
      /\ (other <=> \E k \in DOMAIN Q.q : HasId(Q.q[k], n, TRUE) /\ Q.q[k].op # "MSGUPDX")
  OBVIOUS
<1>2. /\ Receive("NEWMSGID") /\ Autocommit
      /\ \/ Ignored
         \/ /\ c # -1
            /\ SetQueue(c, [Q EXCEPT !.q = Map(@, sent), !.rows = Map(@, row)])
            /\ failed' = failed \cup (first \cup (IF other THEN {Wrong} ELSE {}))
            /\ UNCHANGED <<pubkeys, created, edits, calls>>
  BY ZenonT(60) DEF RecvNewmsgid, app, Wrong
<1>3. Wrong \notin first
  <2>. HIDE DEF front
  <2>1. QED
    BY ZenonT(30) DEF Wrong
<1>. HIDE DEF n, c, front, Q, first, other
<1>4. Head(s2c) \in Down /\ Head(s2c).op = "NEWMSGID"
  BY <1>2, Received DEF TypesInv
<1>5. InLog(n)
  BY <1>4, DownSays DEF n
<1>6. CASE Ignored
  <2>1. UNCHANGED <<pubkeys, created, edits, calls, mSending, dbSending, failed>>
    BY <1>6 DEF Ignored, app, client, store
  <2>2. QED
    BY <1>2, <2>1, Committed, StillStep DEF Confirmed
<1>7. CASE ~Ignored
  <2>1. c \in Chats /\ Q \in QueuesOf(c) /\ Tends(Queue(c), Q) /\ Neat(Q)
    <3>1. c \in Chats /\ Q \in QueuesOf(c)
      BY <1>1, <1>2, <1>5, <1>7, TakerIs
    <3>2. Tends(Queue(c), Q)
      BY <1>1, <1>2, <1>5, <1>7, TakenTends
    <3>3. QED
      BY <3>1, <3>2 DEF Tends
  <2>2. Confirmed' <=> Confirmed /\ ~other
    BY <1>2, <1>3, <1>7 DEF Confirmed
  <2>3. MaxEdits = 0 => \A k \in DOMAIN Q.q : ~HasId(Q.q[k], n, TRUE)
    BY <1>1, <1>2, <1>5, <1>7, OthersAreOthers
  <2>4. MaxEdits = 0 => Confirmed'
    BY <1>1, <2>2, <2>3 DEF MirrorInv
  <2>5. /\ Q.q \in Seq(Items) /\ Q.rows \in Seq(Items)
        /\ Q = [q |-> Q.q, rows |-> Q.rows, manual |-> Q.manual, next |-> Q.next]
    <3>1. ItemsOf(c) \subseteq Items
      BY DEF ItemsOf
    <3>2. QED
      BY <2>1, <3>1, SeqGrows DEF QueuesOf
  <2>6. PICK q, rows : q = Map(Q.q, sent) /\ rows = Map(Q.rows, row)
    OBVIOUS
  <2>7. PICK R : R = [q |-> q, rows |-> rows, manual |-> Q.manual, next |-> Q.next]
    OBVIOUS
  <2>8. SetQueue(c, R)
    <3>. HIDE DEF sent, row
    <3>1. PICK W : W = [Q EXCEPT !.q = q, !.rows = rows]
      OBVIOUS
    <3>2. W = [q |-> q, rows |-> rows, manual |-> Q.manual, next |-> Q.next]
      BY <2>5, <3>1
    <3>3. SetQueue(c, [Q EXCEPT !.q = Map(@, sent), !.rows = Map(@, row)])
      BY <1>2, <1>7
    <3>4. QED
      BY <2>6, <2>7, <3>1, <3>2, <3>3, Zenon
  <2>9. /\ q = [k \in DOMAIN Q.q |-> SentItem(Q.q[k], n)]
        /\ rows = [k \in DOMAIN Q.rows |-> SentRow(Q.rows[k], n)]
    BY <2>6, ZenonT(30) DEF Map, SentItem, SentRow
  <2>. HIDE DEF sent, row
  <2>10. /\ DOMAIN q = DOMAIN Q.q /\ Len(q) = Len(Q.q) /\ \A k \in DOMAIN Q.q : q[k] = SentItem(Q.q[k], n)
         /\ DOMAIN rows = DOMAIN Q.rows /\ Len(rows) = Len(Q.rows)
         /\ \A k \in DOMAIN Q.rows : rows[k] = SentRow(Q.rows[k], n)
    BY <2>5, <2>9
  <2>11. ASSUME NEW k \in DOMAIN Q.q
         PROVE  Q.q[k] \in Items /\ Proper(q[k]) /\ q[k].row = Q.q[k].row
    <3>1. Q.q[k] \in Items /\ Proper(Q.q[k]) /\ (MaxEdits = 0 => ~HasId(Q.q[k], n, TRUE))
      <4>1. Q.q[k] \in Items
        BY <2>5
      <4>2. Proper(Q.q[k])
        BY <2>1 DEF Neat, NeatQueue
      <4>3. QED
        BY <2>3, <4>1, <4>2, Zenon
    <3>2. QED
      BY <2>10, <3>1, SentNeat
  <2>12. ASSUME NEW k \in DOMAIN Q.rows
         PROVE  Q.rows[k] \in Items /\ Plain(rows[k]) /\ rows[k].row = Q.rows[k].row
    <3>1. Q.rows[k] \in Items /\ Plain(Q.rows[k])
      BY <2>1, <2>5 DEF Neat, NeatRows
    <3>2. QED
      BY <2>10, <3>1, SentNeat
  <2>13. NeatQueue(q) /\ RowSet(q) = RowSet(Q.q)
    BY <2>1, <2>10, <2>11 DEF Neat, NeatQueue, Unlike, RowSet
  <2>14. NeatRows(rows) /\ RowSet(rows) = RowSet(Q.rows)
    BY <2>1, <2>10, <2>12 DEF Neat, NeatRows, Unlike, RowSet
  <2>15. ASSUME ~other, Mirrors(Q.q, Q.rows) PROVE Mirrors(q, rows)
    <3>1. Len(Q.rows) = Len(Q.q) /\ DOMAIN Q.rows = DOMAIN Q.q
      BY <2>5, <2>15 DEF Mirrors
    <3>2. ASSUME NEW k \in DOMAIN Q.q PROVE Same(q[k], rows[k])
      <4>1. Same(Q.q[k], Q.rows[k]) /\ (HasId(Q.q[k], n, TRUE) => Q.q[k].op = "MSGUPDX")
        BY <1>1, <2>15 DEF Mirrors
      <4>2. QED
        BY <2>10, <2>11, <2>12, <3>1, <4>1, SentSame
    <3>3. QED
      BY <2>10, <3>1, <3>2 DEF Mirrors
  <2>16. TablesAre({})
    <3>1. /\ Neat(R) /\ RowSet(R.q) \subseteq RowSet(Q.q) /\ RowSet(R.rows) \subseteq RowSet(Q.rows)
          /\ Confirmed' /\ Mirrors(Q.q, Q.rows) => Mirrors(R.q, R.rows)
      BY <2>2, <2>7, <2>13, <2>14, <2>15 DEF Neat
    <3>2. /\ RowSet(Q.q) \subseteq Rows(c) \cup {} /\ RowSet(Q.rows) \subseteq Rows(c) \cup {}
          /\ Mirrors(mSending[c], dbSending[c]) => Mirrors(Q.q, Q.rows)
      BY <2>1, QueueNeat DEF TypesInv, Tends
    <3>3. QED
      BY <2>1, <2>2, <2>8, <3>1, <3>2, TablesBecome DEF TypesInv
  <2>17. UNCHANGED <<pubkeys, created, edits, calls>>
    BY <1>2, <1>7
  <2>18. Taken' = Taken
    BY <2>17 DEF Taken
  <2>19. CallsAre({})
    BY <2>17, <2>18, CallsStay
  <2>20. QED
    BY <1>2, <2>4, <2>16, <2>17, <2>18, <2>19, Committed, MirrorStep
<1>8. QED
  BY <1>6, <1>7

\* A message in the queue is edited, with its row.
LEMMA MsgModifySendingMirror ==
    ASSUME TypesInv, MirrorInv, NEW c \in Chats, NEW n, MsgModifySending(c, n) PROVE MirrorInv'
<1> DEFINE
        mine == {k \in DOMAIN mSending[c] : HasId(mSending[c][k], n, TRUE)}
        msg  == mSending[c][Min(mine)]
        last == mSending[c][Max(mine)]
        age  == IF IsNew(last) THEN IF Age(n) = 0 THEN 1 ELSE Age(n)
                ELSE IF last.upd = Age(n) THEN Age(n) + 1 ELSE Age(n)
        data == edits + 1
        newQ == [k \in DOMAIN mSending[c] |->
                    IF k \notin mine THEN mSending[c][k]
                    ELSE [mSending[c][k] EXCEPT !.data = data, !.upd = IF k = Min(mine) THEN age ELSE @]]
        newRows == Map(dbSending[c], LAMBDA r : IF HasId(r, n, TRUE) THEN [r EXCEPT !.data = data] ELSE r)
        item == NewItem(MaxMsgs + data, "MSGUPDX", n, TRUE, data, age, msg.key, last.rcp)
<1>1. /\ edits < MaxEdits /\ edits' = data
      /\ mSending' = [mSending EXCEPT ![c] = newQ]
      /\ dbSending' = [dbSending EXCEPT ![c] = newRows]
      /\ calls' = Append(calls, [chat |-> c, item |-> item])
      /\ UNCHANGED <<created, mNextUnsent, pubkeys, dbManual, failed>>
      /\ Autocommit
  <2>1. edits < MaxEdits /\ edits' = data /\ Autocommit
    BY ZenonT(30) DEF MsgModifySending
  <2>2. mSending' = [mSending EXCEPT ![c] = newQ]
    BY ZenonT(30) DEF MsgModifySending
  <2>3. dbSending' = [dbSending EXCEPT ![c] = newRows]
    BY Zenon DEF MsgModifySending
  <2>4. calls' = Append(calls, [chat |-> c, item |-> item])
    BY Zenon DEF MsgModifySending
  <2>5. UNCHANGED <<created, mNextUnsent, pubkeys, dbManual, failed>>
    BY ZenonT(30) DEF MsgModifySending
  <2>6. QED
    BY <2>1, <2>2, <2>3, <2>4, <2>5, Zenon
<1>2. PICK m : m = [chat |-> c, item |-> item]
  OBVIOUS
<1>3. m.item.row = MaxMsgs + data /\ m.item.cmd = NoCmd /\ m.item.keyCmd = 0
  BY <1>2 DEF NewItem
<1>5. ASSUME NEW k \in DOMAIN mSending[c], mSending[c][k] \in Items
      PROVE  /\ <<newQ[k].row, newQ[k].op, newQ[k].n, newQ[k].x, newQ[k].rcp, newQ[k].keyCmd, newQ[k].cmd,
                  newQ[k].key>>
                   = <<mSending[c][k].row, mSending[c][k].op, mSending[c][k].n, mSending[c][k].x,
                       mSending[c][k].rcp, mSending[c][k].keyCmd, mSending[c][k].cmd, mSending[c][k].key>>
             /\ newQ[k].data = IF HasId(mSending[c][k], n, TRUE) THEN data ELSE mSending[c][k].data
             /\ ~HasId(mSending[c][k], n, TRUE) => newQ[k].upd = mSending[c][k].upd
  <2>1. PICK i \in Items : i = mSending[c][k]
    BY <1>5
  <2>2. PICK upd : upd = IF k = Min(mine) THEN age ELSE i.upd
    OBVIOUS
  <2>3. newQ[k] = IF ~HasId(i, n, TRUE) THEN i
                  ELSE [i EXCEPT !.data = data, !.upd = IF k = Min(mine) THEN age ELSE @]
    BY <2>1, ZenonT(30)
  <2>. HIDE DEF age, mine, data
  <2>4. [i EXCEPT !.data = data, !.upd = IF k = Min(mine) THEN age ELSE @] = [i EXCEPT !.data = data, !.upd = upd]
    BY <2>2 DEF Items
  <2>. HIDE DEF newQ
  <2>5. CASE HasId(i, n, TRUE)
    <3>1. PICK j : j = newQ[k]
      OBVIOUS
    <3>2. j = [i EXCEPT !.data = data, !.upd = upd]
      BY <2>3, <2>4, <2>5, <3>1
    <3>3. /\ j.row = i.row /\ j.op = i.op /\ j.n = i.n /\ j.x = i.x /\ j.rcp = i.rcp /\ j.keyCmd = i.keyCmd
          /\ j.cmd = i.cmd /\ j.key = i.key /\ j.data = data
      BY <3>2 DEF Items
    <3>4. QED
      BY <2>1, <2>5, <3>1, <3>3
  <2>6. CASE ~HasId(i, n, TRUE)
    BY <2>1, <2>3, <2>6
  <2>7. QED
    BY <2>5, <2>6
<1>6. ASSUME NEW k \in DOMAIN dbSending[c], dbSending[c][k] \in Items
      PROVE  /\ <<newRows[k].row, newRows[k].op, newRows[k].n, newRows[k].x, newRows[k].rcp, newRows[k].keyCmd,
                  newRows[k].cmd, newRows[k].key>>
                   = <<dbSending[c][k].row, dbSending[c][k].op, dbSending[c][k].n, dbSending[c][k].x,
                       dbSending[c][k].rcp, dbSending[c][k].keyCmd, dbSending[c][k].cmd, dbSending[c][k].key>>
             /\ newRows[k].upd = dbSending[c][k].upd
             /\ newRows[k].data = IF HasId(dbSending[c][k], n, TRUE) THEN data ELSE dbSending[c][k].data
  <2>1. PICK r \in Items : r = dbSending[c][k]
    BY <1>6
  <2>2. newRows[k] = IF HasId(r, n, TRUE) THEN [r EXCEPT !.data = data] ELSE r
    BY <2>1, ZenonT(30) DEF Map
  <2>. HIDE DEF data, newRows
  <2>3. CASE HasId(r, n, TRUE)
    <3>1. PICK s : s = newRows[k]
      OBVIOUS
    <3>2. s = [r EXCEPT !.data = data]
      BY <2>2, <2>3, <3>1
    <3>3. /\ s.row = r.row /\ s.op = r.op /\ s.n = r.n /\ s.x = r.x /\ s.rcp = r.rcp /\ s.keyCmd = r.keyCmd
          /\ s.cmd = r.cmd /\ s.key = r.key /\ s.data = data /\ s.upd = r.upd
      BY <3>2 DEF Items
    <3>4. QED
      BY <2>1, <2>3, <3>1, <3>3
  <2>4. CASE ~HasId(r, n, TRUE)
    BY <2>1, <2>2, <2>4
  <2>5. QED
    BY <2>3, <2>4
<1>7. DOMAIN newQ = DOMAIN mSending[c] /\ DOMAIN newRows = DOMAIN dbSending[c]
  BY ZenonT(30) DEF Map
<1>7a. edits \in Nat /\ MaxMsgs \in Nat
  BY RowsNew DEF TypesInv
<1>. HIDE DEF newQ, newRows, item, age, msg, last, mine
<1>8. UNCHANGED created /\ edits' = edits + 1 /\ m.item.row = MaxMsgs + edits + 1 /\ MaxEdits # 0
  BY <1>1, <1>3, <1>7a
<1>9. calls' = Append(calls, m)
  BY <1>1, <1>2
<1>. HIDE DEF data
<1>10. Taken \subseteq Taken' /\ m.item.row \in Taken' /\ m.item.row \notin Taken
  BY <1>8, EditRow DEF TypesInv
<1>11. CallsAre({})
  BY <1>3, <1>8, <1>9, <1>10, CallsAdded DEF TypesInv
<1>12. /\ Queue(c) \in QueuesOf(c) /\ Neat(Queue(c))
       /\ Queue(c).q = mSending[c] /\ Queue(c).rows = dbSending[c]
       /\ RowSet(Queue(c).q) \subseteq Rows(c) /\ RowSet(Queue(c).rows) \subseteq Rows(c)
  BY QueueNeat DEF TypesInv
<1>13. mSending[c] \in Seq(Items) /\ dbSending[c] \in Seq(Items)
  BY DEF TypesInv, QueueInv
<1>14. Len(newQ) = Len(mSending[c]) /\ Len(newRows) = Len(dbSending[c])
  <2>1. PICK S, T : S = {newQ[k] : k \in DOMAIN mSending[c]} /\ T = {newRows[k] : k \in DOMAIN dbSending[c]}
    OBVIOUS
  <2>2. newQ \in [DOMAIN mSending[c] -> S]
    BY <2>1, ZenonT(30) DEF newQ
  <2>3. newRows \in [DOMAIN dbSending[c] -> T]
    BY <2>1, ZenonT(30) DEF newRows, Map
  <2>4. Len(newQ) = Len(mSending[c])
    BY <1>13, <2>2, MapType
  <2>5. Len(newRows) = Len(dbSending[c])
    BY <1>13, <2>3, MapType
  <2>6. QED
    BY <2>4, <2>5
<1>15. PICK R : R = [q |-> newQ, rows |-> newRows, manual |-> dbManual[c], next |-> mNextUnsent[c]]
  OBVIOUS
<1>16. SetQueue(c, R)
  BY <1>1, <1>15 DEF SetQueue, TypesInv, QueueInv
<1>17. NeatQueue(mSending[c]) /\ NeatRows(dbSending[c])
  BY <1>12 DEF Neat
<1>18. NeatQueue(newQ) /\ RowSet(newQ) = RowSet(mSending[c])
  <2>1. ASSUME NEW k \in DOMAIN mSending[c] PROVE newQ[k].row = mSending[c][k].row /\ Proper(newQ[k])
    <3>1. mSending[c][k] \in Items /\ Proper(mSending[c][k])
      BY <1>13, <1>17 DEF NeatQueue
    <3>2. /\ newQ[k].row = mSending[c][k].row /\ newQ[k].op = mSending[c][k].op /\ newQ[k].cmd = mSending[c][k].cmd
      BY <1>5, <3>1
    <3>3. QED
      BY <3>1, <3>2 DEF Proper, IsNew
  <2>2. QED
    BY <1>7, <1>17, <2>1 DEF NeatQueue, Unlike, RowSet
<1>19. NeatRows(newRows) /\ RowSet(newRows) = RowSet(dbSending[c])
  <2>1. ASSUME NEW k \in DOMAIN dbSending[c] PROVE newRows[k].row = dbSending[c][k].row /\ Plain(newRows[k])
    <3>1. dbSending[c][k] \in Items /\ Plain(dbSending[c][k])
      BY <1>13, <1>17 DEF NeatRows
    <3>2. /\ newRows[k].row = dbSending[c][k].row /\ newRows[k].op = dbSending[c][k].op
          /\ newRows[k].cmd = dbSending[c][k].cmd /\ newRows[k].key = dbSending[c][k].key
      BY <1>6, <3>1
    <3>3. QED
      BY <3>1, <3>2 DEF Plain, IsNew
  <2>2. QED
    BY <1>7, <1>17, <2>1 DEF NeatRows, Unlike, RowSet
<1>20a. RowSet(mSending[c]) \subseteq Taken
  BY DEF MirrorInv, NeatInv, Rows
<1>20b. \A row \in Taken : data # IF row > MaxMsgs THEN row - MaxMsgs ELSE 0
  BY OwnIsOld DEF TypesInv, data
<1>20. ASSUME Mirrors(mSending[c], dbSending[c]) PROVE Mirrors(newQ, newRows)
  <2>1. Len(newRows) = Len(newQ) /\ DOMAIN dbSending[c] = DOMAIN mSending[c]
    BY <1>13, <1>14, <1>20 DEF Mirrors
  <2>2. ASSUME NEW k \in DOMAIN mSending[c] PROVE Same(newQ[k], newRows[k])
    <3>1. mSending[c][k] \in Items /\ dbSending[c][k] \in Items /\ Same(mSending[c][k], dbSending[c][k])
          /\ k \in DOMAIN dbSending[c]
      BY <1>13, <1>20, <2>1 DEF Mirrors
    <3>2. HasId(mSending[c][k], n, TRUE) <=> HasId(dbSending[c][k], n, TRUE)
      BY <3>1 DEF Same, HasId
    <3>3. PICK i, r, j, s, h : /\ i = mSending[c][k] /\ r = dbSending[c][k] /\ j = newQ[k] /\ s = newRows[k]
                               /\ h = data
      OBVIOUS
    <3>4. /\ j.row = i.row /\ j.op = i.op /\ j.n = i.n /\ j.x = i.x /\ j.rcp = i.rcp /\ j.keyCmd = i.keyCmd
          /\ j.cmd = i.cmd /\ j.key = i.key /\ j.data = IF HasId(i, n, TRUE) THEN h ELSE i.data
          /\ ~HasId(i, n, TRUE) => j.upd = i.upd
      BY <1>5, <3>1, <3>3
    <3>5. /\ s.row = r.row /\ s.op = r.op /\ s.n = r.n /\ s.x = r.x /\ s.rcp = r.rcp /\ s.keyCmd = r.keyCmd
          /\ s.cmd = r.cmd /\ s.key = r.key /\ s.upd = r.upd
          /\ s.data = IF HasId(r, n, TRUE) THEN h ELSE r.data
      BY <1>6, <3>1, <3>3
    <3>6. Same(i, r) /\ (HasId(i, n, TRUE) <=> HasId(r, n, TRUE))
      BY <3>1, <3>2, <3>3
    <3>7. s.data = j.data
      BY <3>4, <3>5, <3>6 DEF Same
    <3>7a. OwnContent(j) => s.upd = j.upd
      <4>1. i.row \in Taken
        BY <1>20a, <3>1, <3>3 DEF RowSet
      <4>2. HasId(i, n, TRUE) => ~OwnContent(j)
        BY <1>20b, <3>3, <3>4, <4>1 DEF OwnContent
      <4>3. ~HasId(i, n, TRUE) => (OwnContent(j) <=> OwnContent(i))
        BY <3>4 DEF OwnContent
      <4>4. QED
        BY <3>4, <3>5, <3>6, <4>2, <4>3 DEF Same
    <3>8. Same(j, s)
      BY <3>4, <3>5, <3>6, <3>7, <3>7a DEF Same
    <3>9. QED
      BY <3>3, <3>8
  <2>3. QED
    BY <1>7, <2>1, <2>2 DEF Mirrors
<1>21. Tends(Queue(c), R)
  <2>1. R.q = newQ /\ R.rows = newRows
    BY <1>15
  <2>2. QED
    BY <1>12, <1>18, <1>19, <1>20, <2>1 DEF Tends, Neat
<1>22. Confirmed' <=> Confirmed
  BY <1>1 DEF Confirmed
<1>23. TablesAre({})
  BY <1>12, <1>16, <1>21, <1>22, TablesTend DEF TypesInv
<1>24. QED
  BY <1>1, <1>10, <1>11, <1>22, <1>23, Committed, MirrorStep DEF MirrorInv

\* what a queue that an item joined has, when no element of it had the row of that one
Joined(s, i, t) ==
    /\ Unlike(s) => Unlike(t)
    /\ RowSet(t) = RowSet(s) \cup {i.row} /\ Len(t) = Len(s) + 1
    /\ \A k \in DOMAIN t : IF k = Len(s) + 1 THEN t[k] = i ELSE k \in DOMAIN s /\ t[k] = s[k]

LEMMA JoinedNeat ==
    ASSUME NEW s \in Seq(Items), NEW i, i.row \notin RowSet(s)
    PROVE  Joined(s, i, Append(s, i))
<1>1. PICK t : t = Append(s, i)
  OBVIOUS
<1>2. /\ Len(t) = Len(s) + 1 /\ Len(s) + 1 \in DOMAIN t /\ Len(s) \in Nat
      /\ \A k \in DOMAIN t : IF k = Len(s) + 1 THEN t[k] = i ELSE k \in DOMAIN s /\ t[k] = s[k]
      /\ \A k \in DOMAIN s : k \in DOMAIN t /\ k # Len(s) + 1
  BY <1>1
<1>3. RowSet(t) = RowSet(s) \cup {i.row}
  BY <1>2 DEF RowSet
<1>4. Unlike(s) => Unlike(t)
  BY <1>2 DEF Unlike, RowSet
<1>5. QED
  BY <1>1, <1>2, <1>3, <1>4 DEF Joined

\* The row of an item of a chat is one of the chat.
LEMMA RowGood == ASSUME NEW c, NEW item \in ItemsOf(c) PROVE Row(item) \in ItemsOf(c)
<1>1. item.cmd \in CmdsOf(c) /\ item.keyCmd \in Int
  BY DEF ItemsOf, Items
<1>2. Row(item) = [item EXCEPT !.key = 0]
  BY DEF Row
<1>3. [item EXCEPT !.key = 0] \in ItemsOf(c)
  BY DEF ItemsOf, Items, IsNew, IsEdit
<1>4. QED
  BY <1>2, <1>3

\* A marshalled item joins the queue with its row, and is flushed when the chat is online.
LEMMA PostMsgToSendingMirror == ASSUME TypesInv, MirrorInv, PostMsgToSending PROVE MirrorInv'
<1> DEFINE c     == Head(calls).chat
           item  == Head(calls).item
           Q     == [Queue(c) EXCEPT !.q = Append(@, item), !.rows = Append(@, Row(item))]
           F     == {item.row}
<1>1. PICK assertions : assertions = {"postMsgToSending: recipients are the participants",
                                      "mNextUnsent points into mSending"}
  BY Zenon
<1>2. Wrong \notin assertions
  BY <1>1, Zenon DEF Wrong
<1> DEFINE
    fails == IF c \in Public \/ item.op = "MSGUPDX" \/ (IsNew(item) /\ item.rcp = mUsers[c])
                \/ (item.op = "MSGUPD" /\ item.key >= 0)
             THEN {} ELSE {"postMsgToSending: recipients are the participants"}
<1>3. PICK more : more = fails \cup {"mNextUnsent points into mSending"}
  BY Zenon
<1>4. fails \subseteq assertions /\ more \subseteq assertions
  <2>. HIDE DEF c, item
  <2>1. QED
    BY <1>1, <1>3, ZenonT(60)
<1>5. Wrong \notin fails /\ Wrong \notin more
  BY <1>2, <1>4, Zenon
<1>6. /\ calls # <<>> /\ Autocommit
      /\ \/ /\ Q.next # 0 /\ FlushOutputQueue(c, Q, Q.next, mEncryptionHalted[c], <<>>, fails)
            /\ calls' = Tail(calls)
            /\ UNCHANGED <<created, edits, pubkeys>>
         \/ /\ SetQueue(c, Q) /\ failed' = failed \cup fails
            /\ calls' = Tail(calls)
            /\ UNCHANGED <<created, edits, pubkeys>>
         \/ /\ Restart(Durable([Database EXCEPT ![c].sending = Q.rows]), more)
            /\ UNCHANGED pubkeys
  BY <1>3, ZenonT(60) DEF PostMsgToSending, Walk
<1>. HIDE DEF c, item, fails
<1>7. /\ Head(calls) \in Marshalled /\ Head(calls) = calls[1] /\ 1 \in DOMAIN calls
  BY <1>6, HeadOf DEF TypesInv, AppInv
<1>8. /\ c \in Chats /\ item \in Items /\ item.cmd = NoCmd /\ item.keyCmd = 0 /\ (MaxEdits = 0 => IsNew(item))
      /\ item.row \in Taken /\ item.row \notin Rows(c)
  BY <1>7 DEF Marshalled, c, item, MirrorInv, CallsInv
<1>9. /\ Queue(c) \in QueuesOf(c) /\ Neat(Queue(c)) /\ Queue(c).q = mSending[c] /\ Queue(c).rows = dbSending[c]
      /\ RowSet(Queue(c).q) \subseteq Rows(c) /\ RowSet(Queue(c).rows) \subseteq Rows(c)
  BY <1>8, QueueNeat DEF TypesInv
<1>10. mSending[c] \in Seq(Items) /\ dbSending[c] \in Seq(Items)
  BY <1>8 DEF TypesInv, QueueInv
<1>11. PICK row : row = Row(item)
  OBVIOUS
<1>12. /\ row \in Items /\ row.cmd = NoCmd /\ row.key = 0 /\ Plain(row) /\ Proper(item)
       /\ row.row = item.row /\ Same(item, row)
  BY <1>8, <1>11 DEF Row, Items, Plain, Proper, Same, IsNew
<1>13. PICK q, rows : q = Append(mSending[c], item) /\ rows = Append(dbSending[c], row)
  OBVIOUS
<1>14. Q.q = q /\ Q.rows = rows
  <2>1. Queue(c) = [q |-> Queue(c).q, rows |-> Queue(c).rows, manual |-> Queue(c).manual, next |-> Queue(c).next]
    BY DEF Queue
  <2>2. QED
    BY <1>9, <1>11, <1>13, <2>1
<1>15. item.row \notin RowSet(mSending[c]) /\ row.row \notin RowSet(dbSending[c])
  BY <1>8, <1>9, <1>12
<1>16. /\ Unlike(mSending[c]) => Unlike(q)
       /\ RowSet(q) = RowSet(mSending[c]) \cup F /\ Len(q) = Len(mSending[c]) + 1
       /\ \A k \in DOMAIN q : IF k = Len(mSending[c]) + 1 THEN q[k] = item
                              ELSE k \in DOMAIN mSending[c] /\ q[k] = mSending[c][k]
  <2>1. Joined(mSending[c], item, q)
    BY <1>10, <1>13, <1>15, JoinedNeat
  <2>2. QED
    BY <2>1 DEF Joined
<1>17. /\ Unlike(dbSending[c]) => Unlike(rows)
       /\ RowSet(rows) = RowSet(dbSending[c]) \cup F /\ Len(rows) = Len(dbSending[c]) + 1
       /\ \A k \in DOMAIN rows : IF k = Len(dbSending[c]) + 1 THEN rows[k] = row
                                 ELSE k \in DOMAIN dbSending[c] /\ rows[k] = dbSending[c][k]
  <2>1. Joined(dbSending[c], row, rows)
    BY <1>10, <1>13, <1>15, JoinedNeat
  <2>2. QED
    BY <1>12, <2>1 DEF Joined
<1>18. NeatQueue(q) /\ NeatRows(rows)
  <2>1. NeatQueue(mSending[c]) /\ NeatRows(dbSending[c])
    BY <1>9 DEF Neat
  <2>2. NeatQueue(q)
    BY <1>12, <1>16, <2>1 DEF NeatQueue
  <2>3. NeatRows(rows)
    BY <1>12, <1>17, <2>1 DEF NeatRows
  <2>4. QED
    BY <2>2, <2>3
<1>19. Mirrors(mSending[c], dbSending[c]) => Mirrors(q, rows)
  <2>1. SUFFICES ASSUME Mirrors(mSending[c], dbSending[c]) PROVE Mirrors(q, rows)
    OBVIOUS
  <2>2. Len(rows) = Len(q) /\ DOMAIN rows = DOMAIN q
    <3>1. q \in Seq(Items) /\ rows \in Seq(Items)
      BY <1>8, <1>10, <1>12, <1>13
    <3>2. Len(rows) = Len(q)
      BY <1>16, <1>17, <2>1 DEF Mirrors
    <3>3. QED
      BY <3>1, <3>2
  <2>3. \A k \in DOMAIN q : Same(q[k], rows[k])
    BY <1>12, <1>16, <1>17, <2>1, <2>2 DEF Mirrors
  <2>4. QED
    BY <2>2, <2>3 DEF Mirrors
<1>20. /\ mSending[c] \in Seq(ItemsOf(c)) /\ dbSending[c] \in Seq(ItemsOf(c)) /\ dbManual[c] \in Seq(ItemsOf(c))
       /\ mNextUnsent[c] \in Nat /\ mNextUnsent[c] <= Len(mSending[c]) + 1
       /\ q \in Seq(ItemsOf(c)) /\ rows \in Seq(ItemsOf(c))
  <2>1. item \in ItemsOf(c)
    BY <1>7 DEF Marshalled, c, item
  <2>2. row \in ItemsOf(c)
    BY <1>11, <2>1, RowGood
  <2>3. /\ mSending[c] \in Seq(ItemsOf(c)) /\ dbSending[c] \in Seq(ItemsOf(c)) /\ dbManual[c] \in Seq(ItemsOf(c))
        /\ mNextUnsent[c] \in Nat /\ mNextUnsent[c] <= Len(mSending[c]) + 1
    BY <1>9 DEF QueuesOf, Queue
  <2>4. QED
    BY <1>13, <2>1, <2>2, <2>3
<1>21. Q \in QueuesOf(c)
  <2>1. PICK W : W = Q
    OBVIOUS
  <2>2. W = [Queue(c) EXCEPT !.q = q, !.rows = rows]
    BY <1>11, <1>13, <2>1 DEF Queue
  <2>. HIDE DEF Q
  <2>3. W = [q |-> q, rows |-> rows, manual |-> dbManual[c], next |-> mNextUnsent[c]]
    BY <2>2 DEF Queue
  <2>4. QED
    BY <1>16, <1>20, <2>1, <2>3 DEF QueuesOf
<1>. HIDE DEF Q
<1>22. Neat(Q) /\ RowSet(Q.q) \subseteq Rows(c) \cup F /\ RowSet(Q.rows) \subseteq Rows(c) \cup F
       /\ (Mirrors(mSending[c], dbSending[c]) => Mirrors(Q.q, Q.rows))
  BY <1>9, <1>14, <1>16, <1>17, <1>18, <1>19 DEF Neat
<1>23. F \subseteq Taken
  BY <1>8
<1>24. ASSUME calls' = Tail(calls), UNCHANGED <<created, edits, pubkeys>>, Confirmed' <=> Confirmed,
              NEW R, Tends(Q, R), SetQueue(c, R)
       PROVE  MirrorInv'
  <2>1. Taken' = Taken
    BY <1>24 DEF Taken
  <2>2. CallsAre(F)
    BY <1>6, <1>24, <2>1, CallsTaken DEF TypesInv, item
  <2>3. TablesAre(F)
    BY <1>8, <1>22, <1>24, TablesTend DEF TypesInv
  <2>. HIDE DEF F
  <2>4. QED
    BY <1>6, <1>23, <1>24, <2>1, <2>2, <2>3, Committed, MirrorStep DEF MirrorInv
<1>25. CASE /\ Q.next # 0 /\ FlushOutputQueue(c, Q, Q.next, mEncryptionHalted[c], <<>>, fails)
            /\ calls' = Tail(calls)
            /\ UNCHANGED <<created, edits, pubkeys>>
  <2>2. PICK P, from : P \in QueuesOf(c) /\ P = Q /\ from = Q.next
    BY <1>21
  <2>3. /\ FlushOutputQueue(c, P, from, mEncryptionHalted[c], <<>>, fails)
        /\ mEncryptionHalted[c] \in BOOLEAN /\ CryptInv /\ Neat(P)
        /\ from \in Nat \ {0} /\ from <= Len(P.q) + 1
    BY <1>8, <1>22, <1>25, <2>2 DEF TypesInv, CryptInv, QueuesOf
  <2>4. (\E R : Tends(P, R) /\ SetQueue(c, R)) /\ (Confirmed' <=> Confirmed)
    BY <1>8, <1>5, <2>2, <2>3, FlushTends
  <2>5. QED
    BY <1>24, <1>25, <2>2, <2>4
<1>26. CASE /\ SetQueue(c, Q) /\ failed' = failed \cup fails
            /\ calls' = Tail(calls)
            /\ UNCHANGED <<created, edits, pubkeys>>
  <2>1. Tends(Q, Q)
    BY <1>22, TendsSelf
  <2>2. Confirmed' <=> Confirmed
    BY <1>5, <1>26 DEF Confirmed
  <2>3. QED
    BY <1>24, <1>26, <2>1, <2>2
<1>27. CASE /\ Restart(Durable([Database EXCEPT ![c].sending = Q.rows]), more)
            /\ UNCHANGED pubkeys
  <2>3. PICK image : image = [Database EXCEPT ![c].sending = Q.rows]
    OBVIOUS
  <2>4. PICK durable : durable = Durable(image) /\ Restart(durable, more)
    BY <1>27, <2>3, Zenon
  <2>5. durable = image \/ durable = disk
    BY <2>4 DEF Durable
  <2>6. \A d \in Chats : image[d].sending = IF d = c THEN rows ELSE dbSending[d]
    BY <1>8, <1>14, <2>3 DEF Database
  <2>7. \A d \in Chats : NeatRows(durable[d].sending) /\ RowSet(durable[d].sending) \subseteq Rows(d) \cup F
    <3>1. TAKE d \in Chats
    <3>2. CASE durable = disk
      BY <3>2, ImagesNeat
    <3>3. CASE durable = image /\ d = c
      BY <1>14, <1>18, <1>22, <2>6, <3>3
    <3>4. CASE durable = image /\ d # c
      BY <2>6, <3>4, ImagesNeat
    <3>5. QED
      BY <2>5, <3>2, <3>3, <3>4
  <2>8. durable \in Images
    <3>1. Database \in Images /\ disk \in Images /\ rows \in Seq(Items)
      BY <1>20, DatabaseImage, SeqGrows DEF TypesInv, DiskInv, ItemsOf
    <3>2. /\ image[c] = [sending |-> rows, manual |-> dbManual[c], history |-> history[c]]
          /\ \A d \in Chats \ {c} : image[d] = Database[d]
          /\ image \in [Chats -> [sending : Seq(Items), manual : Seq(Items), history : Seq(Hist)]]
      BY <1>8, <1>14, <2>3, <3>1 DEF Database, Images
    <3>3. history[c] \in Seq(HistOf(c))
      BY <1>8 DEF TypesInv, HistInv
    <3>4. [sending |-> rows, manual |-> dbManual[c], history |-> history[c]] \in ImagesOf(c)
      BY <1>20, <3>3 DEF ImagesOf
    <3>5. \A d \in Chats : image[d] \in ImagesOf(d)
      BY <3>1, <3>2, <3>4 DEF Images
    <3>6. QED
      BY <2>5, <3>1, <3>2, <3>5 DEF Images
  <2>9. QED
    BY <1>6, <1>23, <1>5, <1>27, <2>4, <2>7, <2>8, RestartMirror
<1>28. QED
  BY <1>6, <1>25, <1>26, <1>27

\* In the beginning nothing is queued or stored, and every key is in the cache.
LEMMA InitMirror == ASSUME KeysCached, Init PROVE MirrorInv
<1>1. /\ pubkeys = [c \in Chats |-> Memberships]
      /\ created = <<>> /\ edits = 0 /\ calls = <<>> /\ failed = {}
  BY DEF Init, KeysCached
<1>2. \A c \in Chats : mSending[c] = <<>> /\ dbSending[c] = <<>>
  BY DEF Init
<1>3. \A c \in Chats : disk[c].sending = <<>>
  BY <1>2 DEF Init, Database
<1>4. DOMAIN <<>> = {} /\ Len(<<>>) = 0
  OBVIOUS
<1>5. NeatQueue(<<>>) /\ NeatRows(<<>>) /\ Mirrors(<<>>, <<>>) /\ RowSet(<<>>) = {}
  BY <1>4 DEF NeatQueue, NeatRows, Mirrors, RowSet, Unlike
<1>6. NeatInv
  BY <1>2, <1>3, <1>5 DEF NeatInv, Rows
<1>7. CallsInv
  BY <1>1, <1>4 DEF CallsInv
<1>8. Confirmed
  BY <1>1 DEF Confirmed
<1>9. QED
  BY <1>1, <1>2, <1>5, <1>6, <1>7, <1>8 DEF MirrorInv

\* Every step keeps the invariant.
LEMMA NextMirror == ASSUME TypesInv, MirrorInv, Next PROVE MirrorInv'
<1>1. CASE Commit \/ Connect \/ Disconnect \/ Server \/ Environment \/ Tick
  BY <1>1, StillMirror
<1>2. CASE App
  <2>1. PICK c \in Chats : \/ MsgSubmit(c)
                           \/ \E n \in DOMAIN created : MsgModifySending(c, n)
                           \/ \E h \in DOMAIN history[c] : MsgModifyConfirmed(c, h)
    BY <1>2 DEF App
  <2>2. AppInv
    BY DEF TypesInv
  <2>3. QED
    BY <2>1, <2>2, MsgSubmitMirror, MsgModifySendingMirror, MsgModifyConfirmedMirror
<1>3. CASE PostMsgToSending
  BY <1>3, PostMsgToSendingMirror
<1>4. CASE Keys
  <2>1. PICK c \in Chats : EncryptFails(c) \/ \E e \in Memberships : KeysArrive(c, e)
    BY <1>4 DEF Keys
  <2>2. EncryptFails(c)
    BY <2>1, KeysArriveNever
  <2>3. QED
    BY <2>2, RejectMirror
<1>5. CASE Recv
  <2>1. CASE RecvUsers \/ RecvNewmsg \/ RecvRejectNewkey
    BY <2>1, StillMirror
  <2>2. CASE RecvNewmsgid
    BY <2>2, RecvNewmsgidMirror
  <2>3. CASE RecvHistdone \/ RecvMsgid \/ RecvMsgupd
    BY <2>3, RecvHistdoneMirror, RecvMsgidMirror, RecvMsgupdMirror
  <2>4. CASE RecvRejectNewmsg \/ RecvRejectMsgupd
    BY <2>4, RejectMirror, RecvRejectMsgupdMirror
  <2>5. CASE RecvNewkeyid
    BY <2>5, RecvNewkeyidMirror
  <2>6. CASE KeyConfirmDies
    BY <2>6, DeathMirror
  <2>7. QED
    BY <1>5, <2>1, <2>2, <2>3, <2>4, <2>5, <2>6 DEF Recv
<1>6. CASE Crash
  BY <1>6, DeathMirror
<1>7. QED
  BY <1>1, <1>2, <1>3, <1>4, <1>5, <1>6 DEF Next

\* The invariant holds.
LEMMA MirrorHolds == ASSUME KeysCached PROVE Spec => []MirrorInv
<1>1. Init => MirrorInv
  BY InitMirror
<1>2. TypesInv /\ MirrorInv /\ [Next]_vars => MirrorInv'
  BY NextMirror, StillMirror
<1>3. QED
  BY <1>1, <1>2, SafetyHolds, PTL DEF Spec

\* It is more than DbMirrorsQueue.
LEMMA MirrorsAre == MirrorInv /\ Confirmed => DbMirrorsQueue
  BY DEF MirrorInv, Mirrors, Same, DbMirrorsQueue

\* The table sending holds the queue (the callbacks of the database that chatd.cpp calls beside
\* every change of mSending): while every public key is at hand when a message is encrypted,
\* no sequence of messages, edits, confirmations, rejections, reconnections and deaths of the
\* process lets them differ, as long as msgConfirm has not met an edit where it expects a message.
THEOREM DbMirrorsQueueHolds == KeysCached /\ Spec => [](Confirmed => DbMirrorsQueue)
<1>1. CASE KeysCached
  <2>1. MirrorInv => (Confirmed => DbMirrorsQueue)
    BY MirrorsAre
  <2>2. Spec => []MirrorInv
    BY <1>1, MirrorHolds
  <2>3. QED
    BY <2>1, <2>2, PTL
<1>2. CASE ~KeysCached
  BY <1>2
<1>3. QED
  BY <1>1, <1>2

\* It never meets one in a client that does not edit what it has not sent: the table holds the
\* queue there, for any chats and bounds.
THEOREM DbMirrorsUneditedQueue == KeysCached /\ MaxEdits = 0 /\ Spec => []DbMirrorsQueue
<1>1. CASE KeysCached /\ MaxEdits = 0
  <2>1. MirrorInv => DbMirrorsQueue
    BY <1>1, MirrorsAre DEF MirrorInv
  <2>2. Spec => []MirrorInv
    BY <1>1, MirrorHolds
  <2>3. QED
    BY <2>1, <2>2, PTL
<1>2. CASE ~(KeysCached /\ MaxEdits = 0)
  BY <1>2
<1>3. QED
  BY <1>1, <1>2

=============================================================================
