-------------------------- MODULE CallPeers_proof --------------------------
(***************************************************************************)
(* Proofs about CallPeers, for every set of clients and every bound: the   *)
(* sessions follow the meeting, every verified peer comes to have the key  *)
(* in use, and frames are readable.  The invariant comes in layers, each   *)
(* of which uses the ones before it: Types, Meeting, Converging, Frames.   *)
(***************************************************************************)
EXTENDS CallPeers, FiniteSetTheorems, SequenceTheorems, TLAPS

-----------------------------------------------------------------------------
(* Maps, as std::map is used: functions of a part of a set *)

Partial(A, B) == UNION {[S -> B] : S \in SUBSET A}

LEMMA PartialIs ==
    ASSUME NEW A, NEW B, NEW f
    PROVE  f \in Partial(A, B) <=>
               /\ f = [x \in DOMAIN f |-> f[x]] /\ DOMAIN f \subseteq A
               /\ \A x \in DOMAIN f : f[x] \in B
<1>1. ASSUME f \in Partial(A, B)
      PROVE  /\ f = [x \in DOMAIN f |-> f[x]] /\ DOMAIN f \subseteq A
             /\ \A x \in DOMAIN f : f[x] \in B
  <2>1. PICK S \in SUBSET A : f \in [S -> B]
    BY <1>1 DEF Partial
  <2>2. QED
    BY <2>1
<1>2. ASSUME f = [x \in DOMAIN f |-> f[x]], DOMAIN f \subseteq A, \A x \in DOMAIN f : f[x] \in B
      PROVE  f \in Partial(A, B)
  <2>1. f \in [DOMAIN f -> B]
    BY <1>2
  <2>2. QED
    BY <1>2, <2>1 DEF Partial
<1>3. QED
  BY <1>1, <1>2

LEMMA EmptyPartial ==
    ASSUME NEW A, NEW B
    PROVE  Empty \in Partial(A, B) /\ DOMAIN Empty = {}
<1>1. Empty \in Seq({})
  BY DEF Empty
<1>2. Len(Empty) = 0
  BY DEF Empty
<1>3. DOMAIN Empty = {} /\ Empty = [x \in DOMAIN Empty |-> Empty[x]]
  BY <1>1, <1>2
<1>4. QED
  BY <1>3, PartialIs

LEMMA PutAllPartial ==
    ASSUME NEW A, NEW B, NEW f \in Partial(A, B), NEW S, S \subseteq A, NEW y \in B
    PROVE  PutAll(f, S, y) \in Partial(A, B)
<1> DEFINE h == PutAll(f, S, y)
<1>1. /\ \A x : x \in DOMAIN h <=> x \in DOMAIN f \/ x \in S
      /\ h = [x \in DOMAIN h |-> h[x]]
  BY DEF PutAll
<1>2. \A x \in S : h[x] = y
  BY DEF PutAll
<1>3. \A x \in DOMAIN f \ S : h[x] = f[x]
  BY DEF PutAll
<1>4. DOMAIN f \subseteq A /\ \A x \in DOMAIN f : f[x] \in B
  BY PartialIs
<1>. HIDE DEF h
<1>5. DOMAIN h \subseteq A
  BY <1>1, <1>4
<1>6. \A x \in DOMAIN h : h[x] \in B
  BY <1>1, <1>2, <1>3, <1>4
<1>7. h \in Partial(A, B)
  BY <1>1, <1>5, <1>6, PartialIs
<1>8. QED
  BY <1>7 DEF h

LEMMA PutPartial ==
    ASSUME NEW A, NEW B, NEW f \in Partial(A, B), NEW x \in A, NEW y \in B
    PROVE  /\ Put(f, x, y) \in Partial(A, B)
           /\ \A z : z \in DOMAIN Put(f, x, y) <=> z \in DOMAIN f \/ z = x
           /\ Put(f, x, y)[x] = y
           /\ \A z \in DOMAIN f : z # x => Put(f, x, y)[z] = f[z]
<1> DEFINE h == Put(f, x, y)
<1>1. /\ \A z : z \in DOMAIN h <=> z \in DOMAIN f \/ z = x
      /\ h = [z \in DOMAIN h |-> h[z]]
  BY DEF Put, PutAll
<1>2. h[x] = y
  BY DEF Put, PutAll
<1>3. \A z \in DOMAIN f : z # x => h[z] = f[z]
  BY DEF Put, PutAll
<1>4. DOMAIN f \subseteq A /\ \A z \in DOMAIN f : f[z] \in B
  BY PartialIs
<1>. HIDE DEF h
<1>5. DOMAIN h \subseteq A
  BY <1>1, <1>4
<1>6. \A z \in DOMAIN h : h[z] \in B
  BY <1>1, <1>2, <1>3, <1>4
<1>7. h \in Partial(A, B)
  BY <1>1, <1>5, <1>6, PartialIs
<1>8. QED
  BY <1>1, <1>2, <1>3, <1>7 DEF h

LEMMA WithoutPartial ==
    ASSUME NEW A, NEW B, NEW f \in Partial(A, B), NEW x
    PROVE  /\ Without(f, x) \in Partial(A, B)
           /\ \A z : z \in DOMAIN Without(f, x) <=> z \in DOMAIN f /\ z # x
           /\ \A z \in DOMAIN f \ {x} : Without(f, x)[z] = f[z]
<1> DEFINE h == [y \in DOMAIN f \ {x} |-> f[y]]
<1>1. /\ DOMAIN h = DOMAIN f \ {x} /\ \A z \in DOMAIN f \ {x} : h[z] = f[z]
      /\ h = [z \in DOMAIN h |-> h[z]]
  OBVIOUS
<1>2. Without(f, x) = h
  BY DEF Without
<1>. HIDE DEF h
<1>3. DOMAIN f \subseteq A /\ \A z \in DOMAIN f : f[z] \in B
  BY PartialIs
<1>4. DOMAIN h \subseteq A /\ \A z \in DOMAIN h : h[z] \in B
  BY <1>1, <1>3
<1>5. h \in Partial(A, B)
  BY <1>1, <1>4, PartialIs
<1>6. QED
  BY <1>1, <1>2, <1>5

-----------------------------------------------------------------------------
(* What the methods work on, and what they return *)

CallStates == {"Connecting", "Joining", "InProgress", "Ended", "Crashed"}
Outcomes   == {"pending", "resolved", "rejected"}
Checks     == [cid : Cids, round : Nat, answer : BOOLEAN]
Answers    == [round : Nat, stage : {"keys", "sdp"}, asked : Nat, left : Nat, any : BOOLEAN]
KeyIds     == 0 .. LastKeyId

Calls ==
    [mState : CallStates, mRtcConn : BOOLEAN, mSessions : Partial(Cids, BOOLEAN),
     mPeersVerification : Partial(Cids, Outcomes), checks : SUBSET Checks,
     answers : SUBSET Answers, round : Nat, stale : BOOLEAN]

KeySets ==
    [mCurrentkeyId : KeyIds, mKeyMap : Partial(KeyIds, Nat), rotations : SUBSET Rotation,
     timers : Seq(Rotation), encryptor : [id : 0 .. LastKeyId + 1, key : Nat],
     got : [Cids -> Partial(KeyIds, Nat)], fresh : Nat, clash : BOOLEAN]

States == [call : Calls, keys : KeySets]

\* The keys l are those of k with a rotation that starts.
Rotated(k, l, reset) ==
    /\ l \in KeySets
    /\ l.timers = k.timers /\ l.got = k.got /\ l.encryptor = k.encryptor
    /\ l.mCurrentkeyId = IF reset THEN 0 ELSE k.mCurrentkeyId
    /\ l.mKeyMap = IF reset THEN Empty ELSE k.mKeyMap
    /\ \E r \in Rotation :
        /\ r.id = GenerateNextKeyId(l) /\ l.rotations = k.rotations \cup {r}
        /\ l.clash = (k.clash \/ \E q \in Unused(k) : reset \/ q.id = r.id)

LEMMA NextKeyId ==
    ASSUME NEW k \in KeySets
    PROVE  GenerateNextKeyId(k) \in KeyIds
<1>1. LastKeyId \in Nat
  BY PeersAssumption
<1>2. k.mCurrentkeyId \in KeyIds
  BY DEF KeySets
<1>3. QED
  BY <1>1, <1>2 DEF GenerateNextKeyId, KeyIds

LEMMA ResetDoes ==
    ASSUME NEW k \in KeySets
    PROVE  /\ ResetKeys(k) \in KeySets
           /\ ResetKeys(k).mCurrentkeyId = 0 /\ ResetKeys(k).mKeyMap = Empty
           /\ ResetKeys(k).rotations = k.rotations /\ ResetKeys(k).timers = k.timers
           /\ ResetKeys(k).encryptor = k.encryptor /\ ResetKeys(k).got = k.got
           /\ ResetKeys(k).fresh = k.fresh /\ ResetKeys(k).clash = k.clash
<1>1. 0 \in KeyIds
  BY PeersAssumption DEF KeyIds
<1>2. Empty \in Partial(KeyIds, Nat)
  BY EmptyPartial
<1>3. QED
  BY <1>1, <1>2 DEF ResetKeys, KeySets

\* generateAndSendNewMediakey() is about the keys alone.
LEMMA NewKeyDoes ==
    ASSUME NEW s \in States, NEW reset \in BOOLEAN
    PROVE  /\ GenerateAndSendNewMediakey(s, reset) \in States
           /\ GenerateAndSendNewMediakey(s, reset).call = s.call
           /\ Rotated(s.keys, GenerateAndSendNewMediakey(s, reset).keys, reset)
<1> DEFINE k  == IF reset THEN ResetKeys(s.keys) ELSE s.keys
           r  == [id |-> GenerateNextKeyId(k), key |-> k.fresh]
           cl == k.clash \/ \E q \in Unused(k) : reset \/ q.id = r.id
           l  == [k EXCEPT !.rotations = @ \cup {r}, !.fresh = @ + 1, !.clash = cl]
           t  == [s EXCEPT !.keys = l]
<1>1. GenerateAndSendNewMediakey(s, reset) = t
  BY DEF GenerateAndSendNewMediakey
<1>2. s.keys \in KeySets
  BY DEF States
<1>3. /\ k \in KeySets
      /\ k.mCurrentkeyId = IF reset THEN 0 ELSE s.keys.mCurrentkeyId
      /\ k.mKeyMap = IF reset THEN Empty ELSE s.keys.mKeyMap
      /\ k.rotations = s.keys.rotations /\ k.timers = s.keys.timers
      /\ k.encryptor = s.keys.encryptor /\ k.got = s.keys.got
      /\ k.fresh = s.keys.fresh /\ k.clash = s.keys.clash
  BY <1>2, ResetDoes
<1>4. Unused(k) = Unused(s.keys)
  BY <1>3 DEF Unused
<1>. HIDE DEF k
<1>5. r \in Rotation /\ r.id = GenerateNextKeyId(k)
  BY <1>3, NextKeyId DEF Rotation, KeyIds, KeySets
<1>6. cl = (s.keys.clash \/ \E q \in Unused(s.keys) : reset \/ q.id = r.id)
  BY <1>3, <1>4
<1>. HIDE DEF r
<1>7. cl \in BOOLEAN
  BY <1>3 DEF KeySets
<1>. HIDE DEF cl
<1>8. l \in KeySets
  <2> DEFINE rs == k.rotations \cup {r}
             fr == k.fresh + 1
  <2>1. rs \in SUBSET Rotation /\ fr \in Nat
    BY <1>3, <1>5 DEF KeySets
  <2>2. l = [k EXCEPT !.rotations = rs, !.fresh = fr, !.clash = cl]
    OBVIOUS
  <2>. HIDE DEF rs, fr
  <2>3. QED
    BY <1>3, <1>7, <2>1, <2>2 DEF KeySets
<1>9. /\ l.mCurrentkeyId = k.mCurrentkeyId /\ l.mKeyMap = k.mKeyMap
      /\ l.rotations = k.rotations \cup {r} /\ l.timers = k.timers
      /\ l.encryptor = k.encryptor /\ l.got = k.got /\ l.clash = cl
  BY <1>3 DEF KeySets
<1>. HIDE DEF l
<1>10. GenerateNextKeyId(l) = GenerateNextKeyId(k)
  BY <1>9 DEF GenerateNextKeyId
<1>11. Rotated(s.keys, l, reset)
  BY <1>3, <1>5, <1>6, <1>8, <1>9, <1>10 DEF Rotated
<1>12. t \in States /\ t.call = s.call /\ t.keys = l
  BY <1>8 DEF States
<1>13. QED
  BY <1>1, <1>11, <1>12

\* The peer of a verification has the session that it ends in, if it waits for one.
Added(c, d, cid, ok) ==
    /\ ~Pending(c, cid) =>
           d.mSessions = c.mSessions /\ d.mPeersVerification = c.mPeersVerification
    /\ Pending(c, cid) =>
           /\ \A z : z \in DOMAIN d.mSessions <=> z \in DOMAIN c.mSessions \/ z = cid
           /\ d.mSessions[cid] = ok
           /\ \A z \in DOMAIN c.mSessions : z # cid => d.mSessions[z] = c.mSessions[z]
           /\ \A z : z \in DOMAIN d.mPeersVerification <=> z \in DOMAIN c.mPeersVerification
           /\ d.mPeersVerification[cid] = IF ok THEN "resolved" ELSE "rejected"
           /\ \A z \in DOMAIN c.mPeersVerification :
                  z # cid => d.mPeersVerification[z] = c.mPeersVerification[z]

\* the parts of a call that neither the peers nor an ANSWER touch
SameAnswers(c, d) ==
    /\ d.mState = c.mState /\ d.answers = c.answers /\ d.stale = c.stale

SamePeers(c, d) ==
    /\ d.mSessions = c.mSessions /\ d.mPeersVerification = c.mPeersVerification
    /\ d.checks = c.checks

SameRound(c, d) == d.round = c.round /\ d.mRtcConn = c.mRtcConn

LEMMA AddPeerDoes ==
    ASSUME NEW s \in States, NEW cid \in Cids, NEW ok \in BOOLEAN
    PROVE  /\ AddPeer(s, cid, ok) \in States /\ AddPeer(s, cid, ok).keys = s.keys
           /\ Added(s.call, AddPeer(s, cid, ok).call, cid, ok)
           /\ AddPeer(s, cid, ok).call.checks = s.call.checks
           /\ SameAnswers(s.call, AddPeer(s, cid, ok).call)
           /\ SameRound(s.call, AddPeer(s, cid, ok).call)
<1>1. CASE ~Pending(s.call, cid)
  <2>1. AddPeer(s, cid, ok) = s
    BY <1>1 DEF AddPeer
  <2>2. QED
    BY <1>1, <2>1 DEF Added, SameAnswers, SameRound, States
<1>2. CASE Pending(s.call, cid)
  <2> DEFINE o  == IF ok THEN "resolved" ELSE "rejected"
             ss == Put(s.call.mSessions, cid, ok)
             vs == [s.call.mPeersVerification EXCEPT ![cid] = o]
             c  == [s.call EXCEPT !.mSessions = ss, !.mPeersVerification = vs]
             t  == [s EXCEPT !.call = c]
  <2>1. AddPeer(s, cid, ok) = t
    BY <1>2 DEF AddPeer, States, Calls
  <2>2. /\ s.call \in Calls /\ s.call.mSessions \in Partial(Cids, BOOLEAN)
        /\ s.call.mPeersVerification \in Partial(Cids, Outcomes)
    BY DEF States, Calls
  <2>3. o \in Outcomes
    BY DEF Outcomes
  <2>4. ss \in Partial(Cids, BOOLEAN)
    BY <2>2, PutPartial
  <2>5. /\ \A z : z \in DOMAIN ss <=> z \in DOMAIN s.call.mSessions \/ z = cid
        /\ ss[cid] = ok
        /\ \A z \in DOMAIN s.call.mSessions : z # cid => ss[z] = s.call.mSessions[z]
    BY <2>2, PutPartial
  <2>6. cid \in DOMAIN s.call.mPeersVerification
    BY <1>2 DEF Pending
  <2>7. /\ \A z : z \in DOMAIN vs <=> z \in DOMAIN s.call.mPeersVerification
        /\ vs = [z \in DOMAIN vs |-> vs[z]] /\ vs[cid] = o
        /\ \A z \in DOMAIN s.call.mPeersVerification :
               z # cid => vs[z] = s.call.mPeersVerification[z]
    BY <2>6
  <2>8. /\ DOMAIN s.call.mPeersVerification \subseteq Cids
        /\ \A z \in DOMAIN s.call.mPeersVerification : s.call.mPeersVerification[z] \in Outcomes
    BY <2>2, PartialIs
  <2>. HIDE DEF ss, vs, o
  <2>9. DOMAIN vs \subseteq Cids /\ \A z \in DOMAIN vs : vs[z] \in Outcomes
    BY <2>3, <2>7, <2>8
  <2>10. vs \in Partial(Cids, Outcomes)
    BY <2>7, <2>9, PartialIs
  <2>11. c \in Calls
    BY <2>2, <2>4, <2>10 DEF Calls
  <2>12. /\ c.mSessions = ss /\ c.mPeersVerification = vs /\ c.checks = s.call.checks
         /\ SameAnswers(s.call, c) /\ SameRound(s.call, c)
    BY <2>2 DEF Calls, SameAnswers, SameRound
  <2>. HIDE DEF c
  <2>13. Added(s.call, c, cid, ok)
    BY <1>2, <2>5, <2>7, <2>12 DEF Added, o
  <2>14. t \in States /\ t.keys = s.keys /\ t.call = c
    BY <2>11 DEF States
  <2>15. QED
    BY <2>1, <2>12, <2>13, <2>14
<1>3. QED
  BY <1>1, <1>2

\* keyDerivationPms is resolved: the call ends, or finds no connection, or has a new key and
\* a description to set.
Concluded(c, d, k, l, answer) ==
    \/ /\ d.mState = "Ended" /\ l = k /\ d.stale = c.stale
       /\ d.answers = {a \in c.answers : a.round # answer.round}
    \/ /\ d.mState = "Crashed" /\ Rotated(k, l, TRUE) /\ d.stale = c.stale
       /\ d.answers = {a \in c.answers : a.round # answer.round}
    \/ /\ d.mState = c.mState /\ Rotated(k, l, TRUE)
       /\ d.stale = (c.stale \/ answer.round # c.round)
       /\ d.answers = {a \in c.answers : a.round # answer.round} \cup
                          {[answer EXCEPT !.stage = "sdp"]}

Derived(s, t, answer) ==
    /\ SamePeers(s.call, t.call) /\ SameRound(s.call, t.call)
    /\ Concluded(s.call, t.call, s.keys, t.keys, answer)

LEMMA KeysDerivedDoes ==
    ASSUME NEW s \in States, NEW answer \in Answers
    PROVE  KeysDerived(s, answer) \in States /\ Derived(s, KeysDerived(s, answer), answer)
<1> DEFINE as == {a \in s.call.answers : a.round # answer.round}
           c  == [s.call EXCEPT !.answers = as]
           t  == [s EXCEPT !.call = c]
           g  == GenerateAndSendNewMediakey(t, TRUE)
           u  == KeysDerived(s, answer)
<1>1. s.call \in Calls /\ s.call.answers \subseteq Answers
  BY DEF States, Calls
<1>2. t = [s EXCEPT !.call.answers = @ \ {a \in @ : a.round = answer.round}]
  <2>1. as = s.call.answers \ {a \in s.call.answers : a.round = answer.round}
    OBVIOUS
  <2>2. QED
    BY <2>1 DEF States, Calls
<1>3. u = IF answer.asked # 0 /\ ~answer.any THEN [t EXCEPT !.call.mState = "Ended"]
          ELSE IF ~t.call.mRtcConn
          THEN [g EXCEPT !.call.mState = "Crashed"]
          ELSE [g EXCEPT !.call.answers = @ \cup {[answer EXCEPT !.stage = "sdp"]},
                         !.call.stale = @ \/ answer.round # t.call.round]
  BY <1>2, ZenonT(30) DEF KeysDerived
<1>. HIDE DEF u
<1>4. as \subseteq Answers
  BY <1>1
<1>5. /\ c \in Calls /\ c.answers = as /\ c.mState = s.call.mState /\ c.stale = s.call.stale
      /\ SamePeers(s.call, c) /\ SameRound(s.call, c)
  BY <1>1, <1>4 DEF Calls, SamePeers, SameRound
<1>. HIDE DEF c
<1>6. t \in States /\ t.call = c /\ t.keys = s.keys
  BY <1>5 DEF States
<1>. HIDE DEF t
<1>7. g \in States /\ g.call = c /\ Rotated(s.keys, g.keys, TRUE)
  BY <1>6, NewKeyDoes
<1>. HIDE DEF g
<1>8. CASE answer.asked # 0 /\ ~answer.any
  <2> DEFINE d == [c EXCEPT !.mState = "Ended"]
  <2>1. u = [t EXCEPT !.call = d]
    BY <1>3, <1>6, <1>8 DEF States
  <2>2. /\ d \in Calls /\ d.mState = "Ended" /\ d.answers = as /\ d.stale = s.call.stale
        /\ SamePeers(s.call, d) /\ SameRound(s.call, d)
    BY <1>5 DEF Calls, CallStates, SamePeers, SameRound
  <2>. HIDE DEF d
  <2>3. u \in States /\ u.call = d /\ u.keys = s.keys
    BY <1>6, <2>1, <2>2 DEF States
  <2>4. QED
    BY <2>2, <2>3 DEF Derived, Concluded, u
<1>9. CASE ~(answer.asked # 0 /\ ~answer.any) /\ ~t.call.mRtcConn
  <2> DEFINE d == [c EXCEPT !.mState = "Crashed"]
  <2>1. u = [g EXCEPT !.call = d]
    BY <1>3, <1>7, <1>9 DEF States
  <2>2. /\ d \in Calls /\ d.mState = "Crashed" /\ d.answers = as /\ d.stale = s.call.stale
        /\ SamePeers(s.call, d) /\ SameRound(s.call, d)
    BY <1>5 DEF Calls, CallStates, SamePeers, SameRound
  <2>. HIDE DEF d
  <2>3. u \in States /\ u.call = d /\ u.keys = g.keys
    BY <1>7, <2>1, <2>2 DEF States
  <2>4. QED
    BY <1>7, <2>2, <2>3 DEF Derived, Concluded, u
<1>10. CASE ~(answer.asked # 0 /\ ~answer.any) /\ t.call.mRtcConn
  <2> DEFINE b  == [answer EXCEPT !.stage = "sdp"]
             bs == as \cup {b}
             st == c.stale \/ answer.round # c.round
             d  == [c EXCEPT !.answers = bs, !.stale = st]
  <2>1. u = [g EXCEPT !.call = d]
    BY <1>3, <1>5, <1>6, <1>7, <1>10 DEF States, Calls
  <2>2. bs \in SUBSET Answers /\ st \in BOOLEAN
    BY <1>4, <1>5 DEF Answers, Calls
  <2>3. bs = as \cup {b} /\ st = (s.call.stale \/ answer.round # s.call.round)
    BY <1>5 DEF SameRound
  <2>. HIDE DEF bs, st, b
  <2>4. /\ d \in Calls /\ d.mState = s.call.mState /\ d.answers = bs /\ d.stale = st
        /\ SamePeers(s.call, d) /\ SameRound(s.call, d)
    BY <1>5, <2>2 DEF Calls, SamePeers, SameRound
  <2>. HIDE DEF d
  <2>5. u \in States /\ u.call = d /\ u.keys = g.keys
    BY <1>7, <2>1, <2>4 DEF States
  <2>6. QED
    BY <1>7, <2>3, <2>4, <2>5 DEF Derived, Concluded, u, b
<1>11. QED
  BY <1>8, <1>9, <1>10 DEF u

\* Peers are announced: each of them is pending, with a verification that has started.
Announced(c, d, cids, inAnswer) ==
    /\ d.mSessions = c.mSessions
    /\ \A z : z \in DOMAIN d.mPeersVerification <=> z \in DOMAIN c.mPeersVerification \/ z \in cids
    /\ \A z \in cids : d.mPeersVerification[z] = "pending"
    /\ \A z \in DOMAIN c.mPeersVerification :
           z \notin cids => d.mPeersVerification[z] = c.mPeersVerification[z]
    /\ d.checks = c.checks \cup {[cid |-> cid, round |-> c.round, answer |-> inAnswer] :
                                     cid \in cids}

LEMMA VerifyDoes ==
    ASSUME NEW s \in States, NEW cids, cids \subseteq Cids, NEW inAnswer \in BOOLEAN
    PROVE  /\ Verify(s, cids, inAnswer) \in States /\ Verify(s, cids, inAnswer).keys = s.keys
           /\ Announced(s.call, Verify(s, cids, inAnswer).call, cids, inAnswer)
           /\ SameAnswers(s.call, Verify(s, cids, inAnswer).call)
           /\ SameRound(s.call, Verify(s, cids, inAnswer).call)
<1> DEFINE vs == PutAll(s.call.mPeersVerification, cids, "pending")
           cs == s.call.checks \cup {[cid |-> cid, round |-> s.call.round, answer |-> inAnswer] :
                                         cid \in cids}
           c  == [s.call EXCEPT !.mPeersVerification = vs, !.checks = cs]
           t  == [s EXCEPT !.call = c]
<1>1. Verify(s, cids, inAnswer) = t
  BY DEF Verify, States, Calls
<1>2. /\ s.call \in Calls /\ s.call.round \in Nat /\ s.call.checks \subseteq Checks
      /\ s.call.mPeersVerification \in Partial(Cids, Outcomes)
  BY DEF States, Calls
<1>3. "pending" \in Outcomes
  BY DEF Outcomes
<1>4. vs \in Partial(Cids, Outcomes)
  BY <1>2, <1>3, PutAllPartial
<1>5. \A z : z \in DOMAIN vs <=> z \in DOMAIN s.call.mPeersVerification \/ z \in cids
  BY DEF PutAll
<1>6. \A z \in cids : vs[z] = "pending"
  BY DEF PutAll
<1>7. \A z \in DOMAIN s.call.mPeersVerification :
         z \notin cids => vs[z] = s.call.mPeersVerification[z]
  BY DEF PutAll
<1>8. cs \in SUBSET Checks
  BY <1>2 DEF Checks
<1>. HIDE DEF vs
<1>9. cs = s.call.checks \cup {[cid |-> cid, round |-> s.call.round, answer |-> inAnswer] :
                                   cid \in cids}
  OBVIOUS
<1>. HIDE DEF cs
<1>10. /\ c \in Calls /\ c.mPeersVerification = vs /\ c.checks = cs
       /\ c.mSessions = s.call.mSessions
       /\ SameAnswers(s.call, c) /\ SameRound(s.call, c)
  BY <1>2, <1>4, <1>8 DEF Calls, SameAnswers, SameRound
<1>. HIDE DEF c
<1>11. Announced(s.call, c, cids, inAnswer)
  BY <1>5, <1>6, <1>7, <1>9, <1>10 DEF Announced
<1>12. t \in States /\ t.keys = s.keys /\ t.call = c
  BY <1>10 DEF States
<1>13. QED
  BY <1>1, <1>10, <1>11, <1>12

-----------------------------------------------------------------------------
(* What the SFU has sent *)

Messages == [cmd : {"ANSWER", "PEERJOIN", "PEERLEFT"}, peers : SUBSET Cids]

Sfus ==
    [meeting : SUBSET Cids, left : SUBSET Cids, joined : BOOLEAN, inbox : Seq(Messages),
     ghosts : SUBSET Cids]

Tells(box, cmd, cid) == \E i \in DOMAIN box : box[i].cmd = cmd /\ cid \in box[i].peers
AnswerDue(box)       == box # <<>> /\ box[1].cmd = "ANSWER"

\* The ANSWER comes first; the other commands are about one peer, and a PEERJOIN is the
\* first about its peer.
BoxOk(box) ==
    /\ box \in Seq(Messages)
    /\ \A i \in DOMAIN box :
        /\ box[i].cmd = "ANSWER" => i = 1
        /\ box[i].cmd # "ANSWER" => \E cid \in Cids : box[i].peers = {cid}
    /\ \A i, j \in DOMAIN box, cid \in Cids :
        i < j /\ box[j].cmd = "PEERJOIN" /\ cid \in box[j].peers => cid \notin box[i].peers

LEMMA EmptyBox ==
    /\ BoxOk(<<>>) /\ ~AnswerDue(<<>>)
    /\ \A cmd, cid : ~Tells(<<>>, cmd, cid)
<1>1. <<>> \in Seq(Messages) /\ DOMAIN <<>> = {}
  OBVIOUS
<1>2. QED
  BY <1>1 DEF BoxOk, AnswerDue, Tells

LEMMA BoxTail ==
    ASSUME NEW box, BoxOk(box), box # <<>>
    PROVE  /\ BoxOk(Tail(box)) /\ ~AnswerDue(Tail(box)) /\ Head(box) \in Messages
           /\ Head(box) = box[1]
           /\ Head(box).cmd # "ANSWER" => \E cid \in Cids : Head(box).peers = {cid}
           /\ \A cmd, cid : Tells(box, cmd, cid) <=>
                  (Head(box).cmd = cmd /\ cid \in Head(box).peers) \/ Tells(Tail(box), cmd, cid)
           /\ \A cid \in Head(box).peers : ~Tells(Tail(box), "PEERJOIN", cid)
<1> DEFINE t == Tail(box)
<1>1. box \in Seq(Messages) /\ Len(box) \in Nat /\ Len(box) # 0 /\ DOMAIN box = 1 .. Len(box)
  BY EmptySeq DEF BoxOk
<1>2. /\ t \in Seq(Messages) /\ Len(t) = Len(box) - 1 /\ DOMAIN t = 1 .. Len(box) - 1
      /\ \A i \in DOMAIN t : t[i] = box[i + 1]
  BY <1>1
<1>3. Head(box) = box[1] /\ box[1] \in Messages /\ 1 \in DOMAIN box
  BY <1>1
<1>. HIDE DEF t
<1>4. \A i \in DOMAIN t : i \in Nat /\ i + 1 \in DOMAIN box /\ i + 1 # 1
  BY <1>1, <1>2
<1>5. \A i \in DOMAIN box : i # 1 => i - 1 \in DOMAIN t /\ t[i - 1] = box[i]
  <2> SUFFICES ASSUME NEW i \in DOMAIN box, i # 1
               PROVE  i - 1 \in DOMAIN t /\ t[i - 1] = box[i]
    OBVIOUS
  <2>1. i - 1 \in DOMAIN t /\ (i - 1) + 1 = i
    BY <1>1, <1>2
  <2>2. QED
    BY <1>2, <2>1
<1>6. \A i \in DOMAIN t :
         /\ t[i].cmd # "ANSWER"
         /\ \E cid \in Cids : t[i].peers = {cid}
  BY <1>2, <1>4 DEF BoxOk
<1>7. \A i, j \in DOMAIN t, cid \in Cids :
         i < j /\ t[j].cmd = "PEERJOIN" /\ cid \in t[j].peers => cid \notin t[i].peers
  <2> SUFFICES ASSUME NEW i \in DOMAIN t, NEW j \in DOMAIN t, NEW cid \in Cids, i < j,
                      t[j].cmd = "PEERJOIN", cid \in t[j].peers
               PROVE  cid \notin t[i].peers
    OBVIOUS
  <2>1. i + 1 \in DOMAIN box /\ j + 1 \in DOMAIN box /\ i + 1 < j + 1
    BY <1>4
  <2>2. t[i] = box[i + 1] /\ t[j] = box[j + 1]
    BY <1>2
  <2>3. QED
    BY <2>1, <2>2 DEF BoxOk
<1>8. BoxOk(t)
  BY <1>2, <1>6, <1>7 DEF BoxOk
<1>9. ~AnswerDue(t)
  <2>1. ASSUME t # <<>> PROVE 1 \in DOMAIN t
    BY <2>1, <1>2, EmptySeq
  <2>2. QED
    BY <1>6, <2>1 DEF AnswerDue
<1>10. ASSUME NEW cmd, NEW cid
       PROVE  Tells(box, cmd, cid) <=>
                  (Head(box).cmd = cmd /\ cid \in Head(box).peers) \/ Tells(t, cmd, cid)
  <2>1. ASSUME NEW i \in DOMAIN box, box[i].cmd = cmd, cid \in box[i].peers
        PROVE  (Head(box).cmd = cmd /\ cid \in Head(box).peers) \/ Tells(t, cmd, cid)
    <3>1. CASE i = 1
      BY <1>3, <2>1, <3>1
    <3>2. CASE i # 1
      BY <1>5, <2>1, <3>2 DEF Tells
    <3>3. QED
      BY <3>1, <3>2
  <2>2. ASSUME NEW i \in DOMAIN t, t[i].cmd = cmd, cid \in t[i].peers
        PROVE  Tells(box, cmd, cid)
    BY <1>2, <1>4, <2>2 DEF Tells
  <2>3. ASSUME Head(box).cmd = cmd, cid \in Head(box).peers
        PROVE  Tells(box, cmd, cid)
    BY <1>3, <2>3 DEF Tells
  <2>4. QED
    BY <2>1, <2>2, <2>3 DEF Tells
<1>11. ASSUME NEW cid \in Head(box).peers, NEW i \in DOMAIN t, t[i].cmd = "PEERJOIN",
              cid \in t[i].peers
       PROVE  FALSE
  <2>1. cid \in Cids /\ i + 1 \in DOMAIN box /\ 1 < i + 1 /\ t[i] = box[i + 1]
    BY <1>1, <1>2, <1>3, <1>4 DEF Messages
  <2>2. QED
    BY <1>3, <1>11, <2>1 DEF BoxOk
<1>12. \A cid \in Head(box).peers : ~Tells(t, "PEERJOIN", cid)
  BY <1>11 DEF Tells
<1>13. Head(box).cmd # "ANSWER" => \E cid \in Cids : Head(box).peers = {cid}
  BY <1>3 DEF BoxOk
<1>14. QED
  BY <1>3, <1>8, <1>9, <1>10, <1>12, <1>13 DEF t

LEMMA BoxAppend ==
    ASSUME NEW box, BoxOk(box), NEW m \in Messages, NEW who \in Cids, m.peers = {who},
           m.cmd # "ANSWER",
           m.cmd = "PEERJOIN" => \A i \in DOMAIN box : who \notin box[i].peers
    PROVE  /\ BoxOk(Append(box, m))
           /\ AnswerDue(Append(box, m)) => AnswerDue(box)
           /\ \A cmd, cid : Tells(Append(box, m), cmd, cid) <=>
                  Tells(box, cmd, cid) \/ (m.cmd = cmd /\ cid = who)
<1> DEFINE t == Append(box, m)
<1>1. box \in Seq(Messages) /\ Len(box) \in Nat /\ DOMAIN box = 1 .. Len(box)
  BY DEF BoxOk
<1>2. /\ t \in Seq(Messages) /\ DOMAIN t = 1 .. Len(box) + 1
      /\ \A i \in DOMAIN box : t[i] = box[i]
      /\ t[Len(box) + 1] = m
  BY <1>1
<1>. HIDE DEF t
<1>3. /\ DOMAIN box \subseteq DOMAIN t /\ Len(box) + 1 \in DOMAIN t
      /\ \A i \in DOMAIN t : i \in DOMAIN box \/ i = Len(box) + 1
      /\ \A i \in DOMAIN box : i < Len(box) + 1
  BY <1>1, <1>2
<1>4. \A i \in DOMAIN t :
         /\ t[i].cmd = "ANSWER" => i = 1
         /\ t[i].cmd # "ANSWER" => \E cid \in Cids : t[i].peers = {cid}
  <2> SUFFICES ASSUME NEW i \in DOMAIN t
               PROVE  /\ t[i].cmd = "ANSWER" => i = 1
                      /\ t[i].cmd # "ANSWER" => \E cid \in Cids : t[i].peers = {cid}
    OBVIOUS
  <2>1. CASE i \in DOMAIN box
    BY <1>2, <2>1 DEF BoxOk
  <2>2. CASE i = Len(box) + 1
    BY <1>2, <2>2
  <2>3. QED
    BY <1>3, <2>1, <2>2
<1>5. \A i, j \in DOMAIN t, cid \in Cids :
         i < j /\ t[j].cmd = "PEERJOIN" /\ cid \in t[j].peers => cid \notin t[i].peers
  <2> SUFFICES ASSUME NEW i \in DOMAIN t, NEW j \in DOMAIN t, NEW cid \in Cids, i < j,
                      t[j].cmd = "PEERJOIN", cid \in t[j].peers
               PROVE  cid \notin t[i].peers
    OBVIOUS
  <2>1. i \in DOMAIN box
    BY <1>1, <1>2, <1>3
  <2>2. CASE j \in DOMAIN box
    BY <1>2, <2>1, <2>2 DEF BoxOk
  <2>3. CASE j = Len(box) + 1
    BY <1>2, <2>1, <2>3
  <2>4. QED
    BY <1>3, <2>2, <2>3
<1>6. BoxOk(t)
  BY <1>2, <1>4, <1>5 DEF BoxOk
<1>7. AnswerDue(t) => AnswerDue(box)
  <2>1. SUFFICES ASSUME t # <<>>, t[1].cmd = "ANSWER"
                 PROVE  box # <<>> /\ box[1].cmd = "ANSWER"
    BY DEF AnswerDue
  <2>2. 1 \in DOMAIN t
    BY <1>1, <1>2
  <2>3. 1 \in DOMAIN box
    BY <1>2, <1>3, <2>1, <2>2
  <2>4. QED
    BY <1>2, <2>1, <2>3
<1>8. ASSUME NEW cmd, NEW cid
      PROVE  Tells(t, cmd, cid) <=> Tells(box, cmd, cid) \/ (m.cmd = cmd /\ cid = who)
  <2>1. ASSUME NEW i \in DOMAIN t, t[i].cmd = cmd, cid \in t[i].peers
        PROVE  Tells(box, cmd, cid) \/ (m.cmd = cmd /\ cid = who)
    <3>1. CASE i \in DOMAIN box
      BY <1>2, <2>1, <3>1 DEF Tells
    <3>2. CASE i = Len(box) + 1
      BY <1>2, <2>1, <3>2
    <3>3. QED
      BY <1>3, <3>1, <3>2
  <2>2. ASSUME NEW i \in DOMAIN box, box[i].cmd = cmd, cid \in box[i].peers
        PROVE  Tells(t, cmd, cid)
    BY <1>2, <1>3, <2>2 DEF Tells
  <2>3. ASSUME m.cmd = cmd, cid = who
        PROVE  Tells(t, cmd, cid)
    BY <1>2, <1>3, <2>3 DEF Tells
  <2>4. QED
    BY <2>1, <2>2, <2>3 DEF Tells
<1>9. QED
  BY <1>6, <1>7, <1>8 DEF t

-----------------------------------------------------------------------------
(* The first layer: types, and the verifications that an ANSWER still waits for *)

Waiting(c, r) == {check \in c.checks : check.answer /\ check.round = r}

CallOk(c) ==
    /\ IsFiniteSet(c.checks)
    /\ \A a \in c.answers :
        /\ a.round <= c.round /\ a.left = Cardinality(Waiting(c, a.round))
        /\ a.stage = "sdp" <=> a.left = 0
    /\ \A a, b \in c.answers : a.round = b.round => a = b
    /\ \A check \in c.checks :
        check.answer => \E a \in c.answers : a.round = check.round
    /\ \A cid \in DOMAIN c.mPeersVerification :
        c.mPeersVerification[cid] # "pending" =>
            /\ cid \in DOMAIN c.mSessions
            /\ c.mSessions[cid] = (c.mPeersVerification[cid] = "resolved")

\* An ANSWER that is still to come is the first of its connection.
DueOk(c, box) ==
    AnswerDue(box) => /\ \A a \in c.answers : a.round # c.round
                      /\ \A cid : cid \notin DOMAIN c.mPeersVerification

\* The commands are about clients that have been in the meeting.
Known(s) == \A cmd, cid : Tells(s.inbox, cmd, cid) => cid \in s.meeting \cup s.left

Types ==
    /\ call \in Calls /\ keys \in KeySets /\ sfu \in Sfus /\ Known(sfu)
    /\ CallOk(call) /\ BoxOk(sfu.inbox) /\ (~sfu.joined => sfu.inbox = <<>>)
    /\ DueOk(call, sfu.inbox)

LEMMA NowIs ==
    ASSUME call \in Calls, keys \in KeySets
    PROVE  Now \in States /\ Now.call = call /\ Now.keys = keys
BY DEF Now, States

(* What the handlers do *)

\* The ANSWER is handled: its peers are pending, and it waits for their keys, or has none.
Answered(c, d, k, l, peers) ==
    /\ Announced(c, d, peers, TRUE) /\ SameRound(c, d)
    /\ \E n \in Answers :
        /\ n.round = c.round /\ n.stage = "keys" /\ n.left = Cardinality(peers)
        /\ peers # {} => /\ d.mState = c.mState /\ d.stale = c.stale /\ l = k
                         /\ d.answers = c.answers \cup {n}
        /\ peers = {} => Concluded(c, d, k, l, n)

LEMMA HandleAnswerDoes ==
    ASSUME NEW s \in States, NEW peers, peers \subseteq Cids
    PROVE  /\ HandleAnswerCommand(s, peers) \in States
           /\ s.call.mState # "Joining" => HandleAnswerCommand(s, peers) = s
           /\ s.call.mState = "Joining" =>
                  Answered(s.call, HandleAnswerCommand(s, peers).call,
                           s.keys, HandleAnswerCommand(s, peers).keys, peers)
<1>1. CASE s.call.mState # "Joining"
  BY <1>1 DEF HandleAnswerCommand
<1>2. CASE s.call.mState = "Joining"
  <2> DEFINE n  == [round |-> s.call.round, stage |-> "keys", asked |-> Cardinality(peers),
                    left |-> Cardinality(peers), any |-> FALSE]
             v  == Verify(s, peers, TRUE)
             as == v.call.answers \cup {n}
             c  == [v.call EXCEPT !.answers = as]
             t  == [v EXCEPT !.call = c]
             u  == HandleAnswerCommand(s, peers)
  <2>1. /\ v \in States /\ v.keys = s.keys /\ Announced(s.call, v.call, peers, TRUE)
        /\ SameAnswers(s.call, v.call) /\ SameRound(s.call, v.call)
    BY VerifyDoes
  <2>2. u = IF peers = {} THEN KeysDerived(t, n) ELSE t
    BY <1>2, <2>1 DEF HandleAnswerCommand, States, Calls
  <2>. HIDE DEF v, u
  <2>3. Cardinality(peers) \in Nat
    BY PeersAssumption, FS_Subset, FS_CardinalityType
  <2>4. s.call.round \in Nat
    BY DEF States, Calls
  <2>5. /\ n \in Answers /\ n.round = s.call.round /\ n.stage = "keys"
        /\ n.left = Cardinality(peers)
    BY <2>3, <2>4 DEF Answers
  <2>. HIDE DEF n
  <2>6. as \in SUBSET Answers /\ as = s.call.answers \cup {n}
    BY <2>1, <2>5 DEF States, Calls, SameAnswers
  <2>. HIDE DEF as
  <2>7. /\ c \in Calls /\ c.answers = as /\ c.mState = s.call.mState /\ c.stale = s.call.stale
        /\ c.round = s.call.round /\ c.mRtcConn = s.call.mRtcConn
        /\ c.mSessions = v.call.mSessions /\ c.checks = v.call.checks
        /\ c.mPeersVerification = v.call.mPeersVerification
    BY <2>1, <2>6 DEF States, Calls, SameAnswers, SameRound
  <2>. HIDE DEF c
  <2>8. t \in States /\ t.call = c /\ t.keys = s.keys
    BY <2>1, <2>7 DEF States
  <2>. HIDE DEF t
  <2>9. CASE peers # {}
    <3>1. u = t
      BY <2>2, <2>9
    <3>2. Announced(s.call, c, peers, TRUE) /\ SameRound(s.call, c)
      BY <2>1, <2>7 DEF Announced, SameRound
    <3>3. Answered(s.call, u.call, s.keys, u.keys, peers)
      BY <2>5, <2>6, <2>7, <2>8, <2>9, <3>1, <3>2 DEF Answered
    <3>4. QED
      BY <1>2, <2>8, <3>1, <3>3 DEF u
  <2>10. CASE peers = {}
    <3>1. u = KeysDerived(t, n)
      BY <2>2, <2>10
    <3>2. u \in States /\ Derived(t, u, n)
      BY <2>5, <2>8, <3>1, KeysDerivedDoes
    <3>3. /\ SamePeers(c, u.call) /\ SameRound(c, u.call)
          /\ Concluded(c, u.call, s.keys, u.keys, n)
      BY <2>8, <3>2 DEF Derived
    <3>4. {a \in c.answers : a.round # n.round} = {a \in s.call.answers : a.round # n.round}
      BY <2>6, <2>7
    <3>5. Concluded(s.call, u.call, s.keys, u.keys, n)
      BY <2>7, <3>3, <3>4 DEF Concluded
    <3>6. Announced(s.call, u.call, peers, TRUE) /\ SameRound(s.call, u.call)
      BY <2>1, <2>7, <3>3 DEF Announced, SameRound, SamePeers
    <3>7. Answered(s.call, u.call, s.keys, u.keys, peers)
      BY <2>5, <2>10, <3>5, <3>6 DEF Answered
    <3>8. QED
      BY <1>2, <3>2, <3>7 DEF u
  <2>11. QED
    BY <2>9, <2>10
<1>3. QED
  BY <1>1, <1>2

LEMMA HandlePeerJoinDoes ==
    ASSUME NEW s \in States, NEW cid \in Cids
    PROVE  /\ HandlePeerJoin(s, cid) \in States /\ HandlePeerJoin(s, cid).keys = s.keys
           /\ ~InCall(s.call) \/ cid \in DOMAIN s.call.mPeersVerification =>
                  HandlePeerJoin(s, cid) = s
           /\ InCall(s.call) /\ cid \notin DOMAIN s.call.mPeersVerification =>
                  /\ Announced(s.call, HandlePeerJoin(s, cid).call, {cid}, FALSE)
                  /\ SameAnswers(s.call, HandlePeerJoin(s, cid).call)
                  /\ SameRound(s.call, HandlePeerJoin(s, cid).call)
<1>1. {cid} \subseteq Cids
  OBVIOUS
<1>2. /\ Verify(s, {cid}, FALSE) \in States /\ Verify(s, {cid}, FALSE).keys = s.keys
      /\ Announced(s.call, Verify(s, {cid}, FALSE).call, {cid}, FALSE)
      /\ SameAnswers(s.call, Verify(s, {cid}, FALSE).call)
      /\ SameRound(s.call, Verify(s, {cid}, FALSE).call)
  BY <1>1, VerifyDoes
<1>3. CASE ~InCall(s.call) \/ cid \in DOMAIN s.call.mPeersVerification
  <2>1. HandlePeerJoin(s, cid) = s
    BY <1>3 DEF HandlePeerJoin
  <2>2. QED
    BY <1>3, <2>1
<1>4. CASE ~(~InCall(s.call) \/ cid \in DOMAIN s.call.mPeersVerification)
  <2>1. HandlePeerJoin(s, cid) = Verify(s, {cid}, FALSE)
    BY <1>4 DEF HandlePeerJoin
  <2>2. QED
    BY <1>2, <1>4, <2>1
<1>5. QED
  BY <1>3, <1>4

\* The peer is forgotten.
Forgotten(c, d, cid) ==
    /\ \A z : z \in DOMAIN d.mSessions <=> z \in DOMAIN c.mSessions /\ z # cid
    /\ \A z \in DOMAIN d.mSessions : d.mSessions[z] = c.mSessions[z]
    /\ \A z : z \in DOMAIN d.mPeersVerification <=> z \in DOMAIN c.mPeersVerification /\ z # cid
    /\ \A z \in DOMAIN d.mPeersVerification :
           d.mPeersVerification[z] = c.mPeersVerification[z]
    /\ d.checks = c.checks /\ SameAnswers(c, d) /\ SameRound(c, d)

LEMMA HandlePeerLeftDoes ==
    ASSUME NEW s \in States, NEW cid \in Cids
    PROVE  /\ HandlePeerLeft(s, cid) \in States /\ HandlePeerLeft(s, cid).keys = s.keys
           /\ ~InCall(s.call) => HandlePeerLeft(s, cid) = s
           /\ InCall(s.call) => Forgotten(s.call, HandlePeerLeft(s, cid).call, cid)
<1>1. CASE ~InCall(s.call)
  <2>1. HandlePeerLeft(s, cid) = s
    BY <1>1 DEF HandlePeerLeft
  <2>2. QED
    BY <1>1, <2>1
<1>2. CASE InCall(s.call)
  <2> DEFINE ss == Without(s.call.mSessions, cid)
             vs == Without(s.call.mPeersVerification, cid)
             c  == [s.call EXCEPT !.mPeersVerification = vs, !.mSessions = ss]
             t  == [s EXCEPT !.call = c]
  <2>1. HandlePeerLeft(s, cid) = t
    BY <1>2 DEF HandlePeerLeft, States, Calls
  <2>2. /\ s.call \in Calls /\ s.call.mSessions \in Partial(Cids, BOOLEAN)
        /\ s.call.mPeersVerification \in Partial(Cids, Outcomes)
    BY DEF States, Calls
  <2>3. ss \in Partial(Cids, BOOLEAN) /\ vs \in Partial(Cids, Outcomes)
    BY <2>2, WithoutPartial
  <2>4. /\ \A z : z \in DOMAIN ss <=> z \in DOMAIN s.call.mSessions /\ z # cid
        /\ \A z \in DOMAIN ss : ss[z] = s.call.mSessions[z]
    BY DEF Without
  <2>5. /\ \A z : z \in DOMAIN vs <=> z \in DOMAIN s.call.mPeersVerification /\ z # cid
        /\ \A z \in DOMAIN vs : vs[z] = s.call.mPeersVerification[z]
    BY DEF Without
  <2>. HIDE DEF ss, vs
  <2>6. /\ c \in Calls /\ c.mSessions = ss /\ c.mPeersVerification = vs
        /\ c.checks = s.call.checks /\ SameAnswers(s.call, c) /\ SameRound(s.call, c)
    BY <2>2, <2>3 DEF Calls, SameAnswers, SameRound
  <2>. HIDE DEF c
  <2>7. Forgotten(s.call, c, cid)
    BY <2>4, <2>5, <2>6 DEF Forgotten
  <2>8. t \in States /\ t.keys = s.keys /\ t.call = c
    BY <2>6 DEF States
  <2>9. QED
    BY <1>2, <2>1, <2>7, <2>8
<1>3. QED
  BY <1>1, <1>2

\* One verification that the ANSWER a waited for is done: it waits for the others, or is
\* concluded.
Counted(c, d, k, l, a, ok) ==
    LET n == [a EXCEPT !.left = @ - 1, !.any = @ \/ ok]
    IN /\ n \in Answers
       /\ n.left # 0 => /\ d.mState = c.mState /\ d.stale = c.stale /\ l = k
                        /\ d.answers = (c.answers \ {a}) \cup {n}
       /\ n.left = 0 => Concluded(c, d, k, l, n)

LEMMA OnKeyVerifiedDoes ==
    ASSUME NEW s \in States, NEW check, NEW ok \in BOOLEAN, NEW a \in s.call.answers,
           a.round = check.round, a.left # 0,
           \A b \in s.call.answers : b.round = a.round => b = a
    PROVE  /\ OnKeyVerified(s, check, ok) \in States
           /\ SamePeers(s.call, OnKeyVerified(s, check, ok).call)
           /\ SameRound(s.call, OnKeyVerified(s, check, ok).call)
           /\ Counted(s.call, OnKeyVerified(s, check, ok).call,
                      s.keys, OnKeyVerified(s, check, ok).keys, a, ok)
<1> DEFINE n  == [a EXCEPT !.left = @ - 1, !.any = @ \/ ok]
           as == (s.call.answers \ {a}) \cup {n}
           c  == [s.call EXCEPT !.answers = as]
           t  == [s EXCEPT !.call = c]
           u  == OnKeyVerified(s, check, ok)
<1>1. a = CHOOSE b \in s.call.answers : b.round = check.round
  OBVIOUS
<1>2. u = IF n.left = 0 THEN KeysDerived(t, n) ELSE t
  BY <1>1 DEF OnKeyVerified, States, Calls
<1>. HIDE DEF u
<1>3. a \in Answers
  BY DEF States, Calls
<1>4. a.left - 1 \in Nat
  BY <1>3 DEF Answers
<1>5. n \in Answers /\ n.round = a.round /\ n.left = a.left - 1
  BY <1>3, <1>4 DEF Answers
<1>6. n = [a EXCEPT !.left = @ - 1, !.any = @ \/ ok]
  OBVIOUS
<1>. HIDE DEF n
<1>7. as \in SUBSET Answers
  BY <1>5 DEF States, Calls
<1>8. /\ c \in Calls /\ c.answers = as /\ c.mState = s.call.mState /\ c.stale = s.call.stale
      /\ SamePeers(s.call, c) /\ SameRound(s.call, c)
  BY <1>7 DEF States, Calls, SamePeers, SameRound
<1>9. {b \in as : b.round # n.round} = {b \in s.call.answers : b.round # n.round}
  BY <1>5
<1>10. as = (s.call.answers \ {a}) \cup {n}
  OBVIOUS
<1>. HIDE DEF as, c
<1>11. t \in States /\ t.call = c /\ t.keys = s.keys
  BY <1>8 DEF States
<1>. HIDE DEF t
<1>12. CASE n.left # 0
  <2>1. u = t
    BY <1>2, <1>12
  <2>2. Counted(s.call, t.call, s.keys, t.keys, a, ok)
    BY <1>5, <1>6, <1>8, <1>10, <1>11, <1>12 DEF Counted
  <2>3. QED
    BY <1>8, <1>11, <2>1, <2>2 DEF u
<1>13. CASE n.left = 0
  <2>1. u \in States /\ Derived(t, u, n)
    BY <1>2, <1>5, <1>11, <1>13, KeysDerivedDoes
  <2>2. /\ SamePeers(c, u.call) /\ SameRound(c, u.call)
        /\ Concluded(c, u.call, s.keys, u.keys, n)
    BY <1>11, <2>1 DEF Derived
  <2>3. {b \in c.answers : b.round # n.round} = {b \in s.call.answers : b.round # n.round}
    BY <1>8, <1>9
  <2>4. c.round = s.call.round
    BY <1>8 DEF SameRound
  <2>5. Concluded(s.call, u.call, s.keys, u.keys, n)
    BY <1>8, <2>2, <2>3, <2>4 DEF Concluded
  <2>6. Counted(s.call, u.call, s.keys, u.keys, a, ok)
    BY <1>5, <1>6, <1>13, <2>5 DEF Counted
  <2>7. SamePeers(s.call, u.call) /\ SameRound(s.call, u.call)
    BY <1>8, <2>2 DEF SamePeers, SameRound
  <2>8. QED
    BY <2>1, <2>6, <2>7 DEF u
<1>14. QED
  BY <1>12, <1>13

(* What the actions do *)

LEMMA WaitingCounts ==
    ASSUME Types, NEW check \in call.checks, check.answer
    PROVE  \E a \in call.answers : /\ a.round = check.round /\ a.left # 0
                                   /\ \A b \in call.answers : b.round = a.round => b = a
<1>1. PICK a \in call.answers : a.round = check.round
  BY DEF Types, CallOk
<1>2. a.left = Cardinality(Waiting(call, a.round))
  BY DEF Types, CallOk
<1>3. check \in Waiting(call, a.round)
  BY <1>1 DEF Waiting
<1>4. IsFiniteSet(call.checks)
  BY DEF Types, CallOk
<1>5. Waiting(call, a.round) \subseteq call.checks
  BY DEF Waiting
<1>6. IsFiniteSet(Waiting(call, a.round))
  BY <1>4, <1>5, FS_Subset
<1>7. a.left # 0
  BY <1>2, <1>3, <1>6, FS_EmptySet
<1>8. QED
  BY <1>1, <1>7 DEF Types, CallOk

\* Verified(check, ok) as a relation of the two states
Verifies(check, ok) ==
    /\ call' \in Calls /\ keys' \in KeySets /\ sfu' = sfu
    /\ Added(call, call', check.cid, ok) /\ call'.checks = call.checks \ {check}
    /\ SameRound(call, call')
    /\ ~check.answer => SameAnswers(call, call') /\ Rotated(keys, keys', FALSE)
    /\ check.answer =>
           \E a \in call.answers :
               /\ a.round = check.round /\ a.left # 0
               /\ \A b \in call.answers : b.round = a.round => b = a
               /\ Counted(call, call', keys, keys', a, ok)

LEMMA VerifiedDoes ==
    ASSUME Types, NEW check \in call.checks, NEW ok \in BOOLEAN, Verified(check, ok)
    PROVE  Verifies(check, ok)
<1> DEFINE c == [call EXCEPT !.checks = @ \ {check}]
           s == [Now EXCEPT !.call = c]
           t == AddPeer(s, check.cid, ok)
<1>1. call \in Calls /\ keys \in KeySets /\ check \in Checks /\ sfu' = sfu
  BY DEF Types, Calls, Verified
<1>2. check.cid \in Cids
  BY <1>1 DEF Checks
<1>3. /\ c \in Calls /\ c.checks = call.checks \ {check}
      /\ c.mSessions = call.mSessions /\ c.mPeersVerification = call.mPeersVerification
      /\ c.answers = call.answers /\ c.mState = call.mState /\ c.stale = call.stale
      /\ c.round = call.round /\ c.mRtcConn = call.mRtcConn
  BY <1>1 DEF Calls
<1>4. s = [Now EXCEPT !.call.checks = @ \ {check}]
  BY DEF Now
<1>. HIDE DEF c
<1>5. s \in States /\ s.call = c /\ s.keys = keys
  BY <1>1, <1>3, NowIs DEF States
<1>6. Becomes(IF check.answer THEN OnKeyVerified(t, check, ok)
              ELSE VerifiedAfterJoin(s, check.cid, ok))
  BY <1>4 DEF Verified
<1>. HIDE DEF s
<1>7. /\ t \in States /\ t.keys = keys /\ Added(c, t.call, check.cid, ok)
      /\ t.call.checks = c.checks /\ SameAnswers(c, t.call) /\ SameRound(c, t.call)
  BY <1>2, <1>5, AddPeerDoes
<1>8. /\ Added(call, t.call, check.cid, ok) /\ t.call.checks = call.checks \ {check}
      /\ SameAnswers(call, t.call) /\ SameRound(call, t.call)
  BY <1>3, <1>7 DEF Added, Pending, SameAnswers, SameRound
<1>9. VerifiedAfterJoin(s, check.cid, ok) = GenerateAndSendNewMediakey(t, FALSE)
  BY DEF VerifiedAfterJoin
<1>. HIDE DEF t
<1>10. CASE ~check.answer
  <2> DEFINE u == GenerateAndSendNewMediakey(t, FALSE)
  <2>1. u \in States /\ u.call = t.call /\ Rotated(keys, u.keys, FALSE)
    BY <1>7, NewKeyDoes
  <2>2. call' = u.call /\ keys' = u.keys
    BY <1>6, <1>9, <1>10 DEF Becomes
  <2>3. u.call \in Calls /\ u.keys \in KeySets
    BY <2>1 DEF States
  <2>. HIDE DEF u
  <2>4. QED
    BY <1>1, <1>8, <1>10, <2>1, <2>2, <2>3 DEF Verifies
<1>11. CASE check.answer
  <2> DEFINE u == OnKeyVerified(t, check, ok)
  <2>1. PICK a \in call.answers : /\ a.round = check.round /\ a.left # 0
                                  /\ \A b \in call.answers : b.round = a.round => b = a
    BY <1>11, WaitingCounts
  <2>2. t.call.answers = call.answers
    BY <1>8 DEF SameAnswers
  <2>3. /\ u \in States /\ SamePeers(t.call, u.call) /\ SameRound(t.call, u.call)
        /\ Counted(t.call, u.call, t.keys, u.keys, a, ok)
    BY <1>7, <2>1, <2>2, OnKeyVerifiedDoes
  <2>4. call' = u.call /\ keys' = u.keys
    BY <1>6, <1>11 DEF Becomes
  <2>5. u.call \in Calls /\ u.keys \in KeySets
    BY <2>3 DEF States
  <2>. HIDE DEF u
  <2>6. /\ Added(call, u.call, check.cid, ok) /\ u.call.checks = call.checks \ {check}
        /\ SameRound(call, u.call)
    BY <1>8, <2>3 DEF Added, SamePeers, SameRound
  <2>7. /\ t.call.mState = call.mState /\ t.call.stale = call.stale
        /\ t.call.round = call.round
    BY <1>8 DEF SameAnswers, SameRound
  <2>8. Counted(call, u.call, keys, u.keys, a, ok)
    BY <1>7, <2>2, <2>3, <2>7 DEF Counted, Concluded
  <2>9. QED
    BY <1>1, <1>11, <2>1, <2>4, <2>5, <2>6, <2>8 DEF Verifies
<1>12. QED
  BY <1>10, <1>11

\* HandleCommand as a relation of the two states
Handles ==
    /\ call' \in Calls /\ keys' \in KeySets /\ Live /\ sfu.inbox # <<>>
    /\ sfu' = [sfu EXCEPT !.inbox = Tail(sfu.inbox)]
    /\ \/ /\ Head(sfu.inbox).cmd = "ANSWER"
          /\ call.mState # "Joining" => call' = call /\ keys' = keys
          /\ call.mState = "Joining" =>
                 Answered(call, call', keys, keys', Head(sfu.inbox).peers)
       \/ /\ Head(sfu.inbox).cmd = "PEERJOIN" /\ keys' = keys
          /\ \E cid \in Cids :
              /\ Head(sfu.inbox).peers = {cid}
              /\ ~InCall(call) \/ cid \in DOMAIN call.mPeersVerification => call' = call
              /\ InCall(call) /\ cid \notin DOMAIN call.mPeersVerification =>
                     /\ Announced(call, call', {cid}, FALSE)
                     /\ SameAnswers(call, call') /\ SameRound(call, call')
       \/ /\ Head(sfu.inbox).cmd = "PEERLEFT" /\ keys' = keys
          /\ \E cid \in Cids :
              /\ Head(sfu.inbox).peers = {cid}
              /\ ~InCall(call) => call' = call
              /\ InCall(call) => Forgotten(call, call', cid)

LEMMA HandleCommandDoes ==
    ASSUME Types, HandleCommand
    PROVE  Handles
<1> DEFINE m == Head(sfu.inbox)
<1>1. /\ Now \in States /\ Now.call = call /\ Now.keys = keys
  BY NowIs DEF Types
<1>2. Live /\ sfu.inbox # <<>> /\ sfu' = [sfu EXCEPT !.inbox = Tail(sfu.inbox)]
  BY DEF HandleCommand, Types, Sfus
<1>3. m \in Messages /\ (m.cmd # "ANSWER" => \E cid \in Cids : m.peers = {cid})
  BY <1>2, BoxTail DEF Types
<1>4. m.peers \subseteq Cids
  BY <1>3 DEF Messages
<1>5. \/ m.cmd = "ANSWER" /\ Becomes(HandleAnswerCommand(Now, m.peers))
      \/ m.cmd = "PEERJOIN" /\ \E cid \in m.peers : Becomes(HandlePeerJoin(Now, cid))
      \/ m.cmd = "PEERLEFT" /\ \E cid \in m.peers : Becomes(HandlePeerLeft(Now, cid))
  BY DEF HandleCommand
<1>. HIDE DEF m
<1>6. CASE m.cmd = "ANSWER" /\ Becomes(HandleAnswerCommand(Now, m.peers))
  <2> DEFINE u == HandleAnswerCommand(Now, m.peers)
  <2>1. /\ u \in States /\ call' = u.call /\ keys' = u.keys
        /\ call.mState # "Joining" => u = Now
        /\ call.mState = "Joining" => Answered(call, u.call, keys, u.keys, m.peers)
    BY <1>1, <1>4, <1>6, HandleAnswerDoes DEF Becomes
  <2>. HIDE DEF u
  <2>2. call' \in Calls /\ keys' \in KeySets
    BY <2>1 DEF States
  <2>3. QED
    BY <1>1, <1>2, <1>6, <2>1, <2>2 DEF m, Handles
<1>7. CASE m.cmd = "PEERJOIN" /\ \E cid \in m.peers : Becomes(HandlePeerJoin(Now, cid))
  <2>1. PICK cid \in Cids : m.peers = {cid} /\ Becomes(HandlePeerJoin(Now, cid))
    BY <1>3, <1>7
  <2> DEFINE u == HandlePeerJoin(Now, cid)
  <2>2. /\ u \in States /\ u.keys = keys /\ call' = u.call /\ keys' = u.keys
        /\ ~InCall(call) \/ cid \in DOMAIN call.mPeersVerification => u = Now
        /\ InCall(call) /\ cid \notin DOMAIN call.mPeersVerification =>
                  /\ Announced(call, u.call, {cid}, FALSE)
                  /\ SameAnswers(call, u.call) /\ SameRound(call, u.call)
    BY <1>1, <2>1, HandlePeerJoinDoes DEF Becomes
  <2>. HIDE DEF u
  <2>3. call' \in Calls /\ keys' \in KeySets
    BY <2>2 DEF States
  <2>4. QED
    BY <1>1, <1>2, <1>7, <2>1, <2>2, <2>3 DEF m, Handles
<1>8. CASE m.cmd = "PEERLEFT" /\ \E cid \in m.peers : Becomes(HandlePeerLeft(Now, cid))
  <2>1. PICK cid \in Cids : m.peers = {cid} /\ Becomes(HandlePeerLeft(Now, cid))
    BY <1>3, <1>8
  <2> DEFINE u == HandlePeerLeft(Now, cid)
  <2>2. /\ u \in States /\ u.keys = keys /\ call' = u.call /\ keys' = u.keys
        /\ ~InCall(call) => u = Now
        /\ InCall(call) => Forgotten(call, u.call, cid)
    BY <1>1, <2>1, HandlePeerLeftDoes DEF Becomes
  <2>. HIDE DEF u
  <2>3. call' \in Calls /\ keys' \in KeySets
    BY <2>2 DEF States
  <2>4. QED
    BY <1>1, <1>2, <1>8, <2>1, <2>2, <2>3 DEF m, Handles
<1>9. QED
  BY <1>5, <1>6, <1>7, <1>8

(* The answers and what they wait for *)

AnswersOk(c) ==
    /\ \A a \in c.answers :
        /\ a.round <= c.round /\ a.left = Cardinality(Waiting(c, a.round))
        /\ a.stage = "sdp" <=> a.left = 0
    /\ \A a, b \in c.answers : a.round = b.round => a = b
    /\ \A check \in c.checks :
        check.answer => \E a \in c.answers : a.round = check.round

PeersOk(c) ==
    \A cid \in DOMAIN c.mPeersVerification :
        c.mPeersVerification[cid] # "pending" =>
            /\ cid \in DOMAIN c.mSessions
            /\ c.mSessions[cid] = (c.mPeersVerification[cid] = "resolved")

LEMMA CallOkParts ==
    ASSUME NEW c
    PROVE  CallOk(c) <=> IsFiniteSet(c.checks) /\ AnswersOk(c) /\ PeersOk(c)
BY DEF CallOk, AnswersOk, PeersOk

\* The answer r is replaced by at most one, which waits for what is left; the others stay.
LEMMA AnswersReplaced ==
    ASSUME NEW c, NEW d, NEW r, AnswersOk(c), d.round = c.round, r <= c.round,
           \A a \in d.answers : a.round # r => a \in c.answers,
           \A a \in c.answers : a.round # r => a \in d.answers,
           \A a \in d.answers :
               a.round = r => /\ a.left = Cardinality(Waiting(d, r))
                              /\ a.stage = "sdp" <=> a.left = 0,
           \A a, b \in d.answers : a.round = r /\ b.round = r => a = b,
           \A i : i # r => Waiting(d, i) = Waiting(c, i),
           (\E check : check \in Waiting(d, r)) => \E a \in d.answers : a.round = r
    PROVE  AnswersOk(d)
<1>1. ASSUME NEW a \in d.answers
      PROVE  /\ a.round <= d.round /\ a.left = Cardinality(Waiting(d, a.round))
             /\ a.stage = "sdp" <=> a.left = 0
  <2>1. CASE a.round = r
    BY <2>1
  <2>2. CASE a.round # r
    BY <2>2 DEF AnswersOk
  <2>3. QED
    BY <2>1, <2>2
<1>2. ASSUME NEW a \in d.answers, NEW b \in d.answers, a.round = b.round
      PROVE  a = b
  BY <1>2 DEF AnswersOk
<1>3. ASSUME NEW check \in d.checks, check.answer
      PROVE  \E a \in d.answers : a.round = check.round
  <2>1. check \in Waiting(d, check.round)
    BY <1>3 DEF Waiting
  <2>2. CASE check.round = r
    BY <2>1, <2>2
  <2>3. CASE check.round # r
    <3>1. check \in Waiting(c, check.round)
      BY <2>1, <2>3
    <3>2. check \in c.checks
      BY <3>1 DEF Waiting
    <3>3. PICK a \in c.answers : a.round = check.round
      BY <1>3, <3>2 DEF AnswersOk
    <3>4. QED
      BY <2>3, <3>3
  <2>4. QED
    BY <2>2, <2>3
<1>4. QED
  BY <1>1, <1>2, <1>3 DEF AnswersOk

LEMMA WaitingFinite ==
    ASSUME NEW c, NEW r, IsFiniteSet(c.checks)
    PROVE  IsFiniteSet(Waiting(c, r)) /\ Cardinality(Waiting(c, r)) \in Nat
<1>1. Waiting(c, r) \subseteq c.checks
  BY DEF Waiting
<1>2. IsFiniteSet(Waiting(c, r))
  BY <1>1, FS_Subset
<1>3. QED
  BY <1>2, FS_CardinalityType

LEMMA WaitingLess ==
    ASSUME NEW c, NEW d, NEW check \in c.checks, d.checks = c.checks \ {check},
           IsFiniteSet(c.checks)
    PROVE  /\ IsFiniteSet(d.checks)
           /\ \A r : ~check.answer \/ check.round # r => Waiting(d, r) = Waiting(c, r)
           /\ check.answer => Cardinality(Waiting(d, check.round)) =
                                  Cardinality(Waiting(c, check.round)) - 1
<1>1. IsFiniteSet(d.checks)
  BY FS_RemoveElement
<1>2. ASSUME NEW r, ~check.answer \/ check.round # r PROVE Waiting(d, r) = Waiting(c, r)
  BY <1>2 DEF Waiting
<1>3. ASSUME check.answer
      PROVE  Cardinality(Waiting(d, check.round)) = Cardinality(Waiting(c, check.round)) - 1
  <2> DEFINE w == Waiting(c, check.round)
  <2>1. Waiting(d, check.round) = w \ {check} /\ check \in w
    BY <1>3 DEF Waiting
  <2>2. IsFiniteSet(w)
    BY WaitingFinite
  <2>. HIDE DEF w
  <2>3. Cardinality(w \ {check}) = Cardinality(w) - 1
    BY <2>1, <2>2, FS_RemoveElement
  <2>4. QED
    BY <2>1, <2>3 DEF w
<1>4. QED
  BY <1>1, <1>2, <1>3

\* When nothing waits for the answer n any more, it is concluded.
LEMMA ConcludedAnswers ==
    ASSUME NEW c \in Calls, NEW d, NEW k, NEW l, NEW n \in Answers, AnswersOk(c),
           d.round = c.round, n.round <= c.round, n.left = 0, IsFiniteSet(d.checks),
           Concluded(c, d, k, l, n), Cardinality(Waiting(d, n.round)) = 0,
           \A i : i # n.round => Waiting(d, i) = Waiting(c, i)
    PROVE  AnswersOk(d)
<1> DEFINE b == [n EXCEPT !.stage = "sdp"]
<1>1. b.round = n.round /\ b.left = 0 /\ b.stage = "sdp"
  BY DEF Answers
<1>2. /\ \A a \in d.answers : (a \in c.answers /\ a.round # n.round) \/ a = b
      /\ \A a \in c.answers : a.round # n.round => a \in d.answers
  BY DEF Concluded
<1>. HIDE DEF b
<1>3. Waiting(d, n.round) = {}
  BY WaitingFinite, FS_EmptySet
<1>4. \A a \in d.answers : a.round # n.round => a \in c.answers
  BY <1>1, <1>2
<1>5. \A a \in d.answers : a.round = n.round => a = b
  BY <1>2
<1>6. \A a \in d.answers :
         a.round = n.round => /\ a.left = Cardinality(Waiting(d, n.round))
                              /\ a.stage = "sdp" <=> a.left = 0
  BY <1>1, <1>5
<1>7. \A a, e \in d.answers : a.round = n.round /\ e.round = n.round => a = e
  BY <1>5
<1>8. ~\E check : check \in Waiting(d, n.round)
  BY <1>3
<1>9. \A a \in c.answers : a.round # n.round => a \in d.answers
  BY <1>2
<1>. HIDE <1>2
<1>10. QED
  BY <1>4, <1>6, <1>7, <1>8, <1>9, AnswersReplaced

LEMMA VerifiedCallOk ==
    ASSUME Types, NEW check \in call.checks, NEW ok \in BOOLEAN, Verified(check, ok)
    PROVE  CallOk(call')
<1>. Verifies(check, ok)
  BY VerifiedDoes
<1>1. /\ call' \in Calls /\ Added(call, call', check.cid, ok)
      /\ call'.checks = call.checks \ {check} /\ SameRound(call, call')
      /\ ~check.answer => SameAnswers(call, call')
  BY DEF Verifies
<1>2. IsFiniteSet(call.checks) /\ AnswersOk(call) /\ PeersOk(call)
  BY CallOkParts DEF Types
<1>3. /\ IsFiniteSet(call'.checks)
      /\ \A r : ~check.answer \/ check.round # r => Waiting(call', r) = Waiting(call, r)
      /\ check.answer => Cardinality(Waiting(call', check.round)) =
                             Cardinality(Waiting(call, check.round)) - 1
  BY <1>1, <1>2, WaitingLess
<1>4. PeersOk(call')
  <2>1. CASE ~Pending(call, check.cid)
    BY <1>1, <1>2, <2>1 DEF PeersOk, Added
  <2>2. CASE Pending(call, check.cid)
    <3> SUFFICES ASSUME NEW cid \in DOMAIN call'.mPeersVerification,
                        call'.mPeersVerification[cid] # "pending"
                 PROVE  /\ cid \in DOMAIN call'.mSessions
                        /\ call'.mSessions[cid] = (call'.mPeersVerification[cid] = "resolved")
      BY DEF PeersOk
    <3>1. cid \in DOMAIN call.mPeersVerification
      BY <1>1, <2>2 DEF Added
    <3>2. CASE cid = check.cid
      <4>1. /\ cid \in DOMAIN call'.mSessions /\ call'.mSessions[cid] = ok
            /\ call'.mPeersVerification[cid] = IF ok THEN "resolved" ELSE "rejected"
        BY <1>1, <2>2, <3>2 DEF Added
      <4>2. (call'.mPeersVerification[cid] = "resolved") = ok
        BY <4>1
      <4>3. QED
        BY <4>1, <4>2
    <3>3. CASE cid # check.cid
      <4>1. call'.mPeersVerification[cid] = call.mPeersVerification[cid]
        BY <1>1, <2>2, <3>1, <3>3 DEF Added
      <4>2. /\ cid \in DOMAIN call.mSessions
            /\ call.mSessions[cid] = (call.mPeersVerification[cid] = "resolved")
        BY <1>2, <3>1, <4>1 DEF PeersOk
      <4>3. cid \in DOMAIN call'.mSessions /\ call'.mSessions[cid] = call.mSessions[cid]
        BY <1>1, <2>2, <3>3, <4>2 DEF Added
      <4>4. QED
        BY <4>1, <4>2, <4>3
    <3>4. QED
      BY <3>2, <3>3
  <2>3. QED
    BY <2>1, <2>2
<1>5. CASE ~check.answer
  <2>1. call'.answers = call.answers /\ call'.round = call.round
    BY <1>1, <1>5 DEF SameAnswers, SameRound
  <2>2. AnswersOk(call')
    BY <1>1, <1>2, <1>3, <1>5, <2>1 DEF AnswersOk
  <2>3. QED
    BY <1>3, <1>4, <2>2, CallOkParts
<1>6. CASE check.answer
  <2>1. PICK a \in call.answers :
             /\ a.round = check.round /\ a.left # 0
             /\ \A b \in call.answers : b.round = a.round => b = a
             /\ Counted(call, call', keys, keys', a, ok)
    BY <1>6 DEF Verifies
  <2> DEFINE n == [a EXCEPT !.left = @ - 1, !.any = @ \/ ok]
  <2>2. call'.round = call.round /\ call \in Calls /\ a \in Answers
    BY <1>1 DEF SameRound, Types, Calls
  <2>3. n \in Answers /\ n.round = a.round /\ n.left = a.left - 1 /\ n.stage = a.stage
    BY <2>1, <2>2 DEF Counted, Answers
  <2>4. /\ n.left # 0 => call'.answers = (call.answers \ {a}) \cup {n}
        /\ n.left = 0 => Concluded(call, call', keys, keys', n)
    BY <2>1 DEF Counted
  <2>. HIDE DEF n
  <2>5. /\ a.left = Cardinality(Waiting(call, a.round)) /\ a.stage # "sdp"
        /\ a.round <= call.round
    BY <1>2, <2>1 DEF AnswersOk
  <2>6. Cardinality(Waiting(call', a.round)) = n.left
    BY <1>3, <1>6, <2>1, <2>3, <2>5
  <2>7. \A i : i # a.round => Waiting(call', i) = Waiting(call, i)
    BY <1>3, <2>1
  <2>8. AnswersOk(call')
    <3>1. CASE n.left # 0
      <4>1. \A b \in call'.answers : b.round # a.round => b \in call.answers
        BY <2>3, <2>4, <3>1
      <4>2. \A b \in call.answers : b.round # a.round => b \in call'.answers
        BY <2>4, <3>1
      <4>3. \A b \in call'.answers : b.round = a.round => b = n
        BY <2>1, <2>4, <3>1
      <4>4. n \in call'.answers
        BY <2>4, <3>1
      <4>5. \A b \in call'.answers :
               b.round = a.round => /\ b.left = Cardinality(Waiting(call', a.round))
                                    /\ b.stage = "sdp" <=> b.left = 0
        BY <2>3, <2>5, <2>6, <3>1, <4>3
      <4>6. \A b, e \in call'.answers : b.round = a.round /\ e.round = a.round => b = e
        BY <4>3
      <4>7. (\E other : other \in Waiting(call', a.round)) =>
               \E b \in call'.answers : b.round = a.round
        BY <2>3, <4>4
      <4>8. QED
        BY <1>2, <2>2, <2>5, <2>7, <4>1, <4>2, <4>5, <4>6, <4>7, AnswersReplaced
    <3>2. CASE n.left = 0
      BY <1>2, <1>3, <2>2, <2>3, <2>4, <2>5, <2>6, <2>7, <3>2, ConcludedAnswers
    <3>3. QED
      BY <3>1, <3>2
  <2>9. QED
    BY <1>3, <1>4, <2>8, CallOkParts
<1>7. QED
  BY <1>5, <1>6

LEMMA AnnouncedPeersOk ==
    ASSUME NEW c, NEW d, NEW cids, NEW inAnswer, PeersOk(c), Announced(c, d, cids, inAnswer)
    PROVE  PeersOk(d)
<1> SUFFICES ASSUME NEW cid \in DOMAIN d.mPeersVerification,
                    d.mPeersVerification[cid] # "pending"
             PROVE  /\ cid \in DOMAIN d.mSessions
                    /\ d.mSessions[cid] = (d.mPeersVerification[cid] = "resolved")
  BY DEF PeersOk
<1>1. cid \notin cids /\ cid \in DOMAIN c.mPeersVerification
  BY DEF Announced
<1>2. d.mPeersVerification[cid] = c.mPeersVerification[cid] /\ d.mSessions = c.mSessions
  BY <1>1 DEF Announced
<1>3. QED
  BY <1>1, <1>2 DEF PeersOk

\* as many verifications start as there are peers
Started(cids, r) == {[cid |-> cid, round |-> r, answer |-> TRUE] : cid \in cids}

LEMMA StartedCount ==
    ASSUME NEW cids, cids \subseteq Cids, NEW r
    PROVE  IsFiniteSet(Started(cids, r)) /\ Cardinality(Started(cids, r)) = Cardinality(cids)
<1> DEFINE N == Started(cids, r)
           f == [cid \in cids |-> [cid |-> cid, round |-> r, answer |-> TRUE]]
<1>1. IsFiniteSet(cids)
  BY PeersAssumption, FS_Subset
<1>2. f \in [cids -> N]
  BY DEF Started
<1>3. \A x, y \in cids : f[x] = f[y] => x = y
  <2> SUFFICES ASSUME NEW x \in cids, NEW y \in cids, f[x] = f[y] PROVE x = y
    OBVIOUS
  <2>1. f[x].cid = x /\ f[y].cid = y
    OBVIOUS
  <2>2. QED
    BY <2>1
<1>4. \A e \in N : \E x \in cids : f[x] = e
  BY DEF Started
<1>. HIDE DEF f, N
<1>5. f \in Injection(cids, N)
  BY <1>2, <1>3 DEF Injection, IsInjective
<1>6. f \in Surjection(cids, N)
  BY <1>2, <1>4 DEF Surjection
<1>7. ExistsBijection(cids, N)
  BY <1>5, <1>6 DEF ExistsBijection, Bijection
<1>8. IsFiniteSet(N) /\ Cardinality(N) = Cardinality(cids)
  BY <1>1, <1>7, FS_Bijection
<1>9. QED
  BY <1>8 DEF N

LEMMA AnsweredCallOk ==
    ASSUME NEW c \in Calls, NEW d \in Calls, NEW k, NEW l, NEW peers, peers \subseteq Cids,
           CallOk(c), \A a \in c.answers : a.round # c.round, Answered(c, d, k, l, peers)
    PROVE  CallOk(d)
<1> DEFINE N == Started(peers, c.round)
<1>1. IsFiniteSet(c.checks) /\ AnswersOk(c) /\ PeersOk(c)
  BY CallOkParts
<1>2. /\ Announced(c, d, peers, TRUE) /\ d.round = c.round /\ d.checks = c.checks \cup N
  BY DEF Answered, SameRound, Announced, Started
<1>3. IsFiniteSet(N) /\ Cardinality(N) = Cardinality(peers)
  BY StartedCount
<1>4. PeersOk(d)
  BY <1>1, <1>2, AnnouncedPeersOk
<1>5. \A check \in N : check.answer = TRUE /\ check.round = c.round
  BY DEF Started
<1>6. \A check \in c.checks : check.answer => check.round # c.round
  BY <1>1 DEF AnswersOk
<1>. HIDE DEF N
<1>7. IsFiniteSet(d.checks)
  BY <1>1, <1>2, <1>3, FS_Union
<1>8. Waiting(d, c.round) = N
  BY <1>2, <1>5, <1>6 DEF Waiting
<1>9. \A i : i # c.round => Waiting(d, i) = Waiting(c, i)
  BY <1>2, <1>5 DEF Waiting
<1>10. PICK n \in Answers :
         /\ n.round = c.round /\ n.stage = "keys" /\ n.left = Cardinality(peers)
         /\ peers # {} => /\ d.mState = c.mState /\ d.stale = c.stale /\ l = k
                          /\ d.answers = c.answers \cup {n}
         /\ peers = {} => Concluded(c, d, k, l, n)
  BY DEF Answered
<1>11. IsFiniteSet(peers) /\ (Cardinality(peers) = 0 <=> peers = {})
  BY PeersAssumption, FS_Subset, FS_EmptySet
<1>12. c.round \in Nat /\ c.round <= c.round
  BY DEF Calls
<1>13. CASE peers # {}
  <2>1. d.answers = c.answers \cup {n}
    BY <1>10, <1>13
  <2>2. \A a \in d.answers : a.round = c.round => a = n
    BY <2>1
  <2>3. \A a \in d.answers :
           a.round = c.round => /\ a.left = Cardinality(Waiting(d, c.round))
                                /\ a.stage = "sdp" <=> a.left = 0
    BY <1>3, <1>8, <1>10, <1>11, <1>13, <2>2
  <2>4. \A a, b \in d.answers : a.round = c.round /\ b.round = c.round => a = b
    BY <2>2
  <2>5. \E a \in d.answers : a.round = c.round
    BY <1>10, <2>1
  <2>6. \A a \in d.answers : a.round # c.round => a \in c.answers
    BY <1>10, <2>1
  <2>7. \A a \in c.answers : a.round # c.round => a \in d.answers
    BY <2>1
  <2>8. AnswersOk(d)
    BY <1>1, <1>2, <1>9, <1>12, <2>3, <2>4, <2>5, <2>6, <2>7, AnswersReplaced
  <2>9. QED
    BY <1>4, <1>7, <2>8, CallOkParts
<1>14. CASE peers = {}
  <2>1. n.left = 0 /\ Concluded(c, d, k, l, n) /\ Cardinality(Waiting(d, n.round)) = 0
    BY <1>3, <1>8, <1>10, <1>11, <1>14
  <2>2. n.round <= c.round /\ \A i : i # n.round => Waiting(d, i) = Waiting(c, i)
    BY <1>9, <1>10, <1>12
  <2>3. AnswersOk(d)
    BY <1>1, <1>2, <1>7, <2>1, <2>2, ConcludedAnswers
  <2>4. QED
    BY <1>4, <1>7, <2>3, CallOkParts
<1>15. QED
  BY <1>13, <1>14

LEMMA HandleCommandTypes ==
    ASSUME Types, HandleCommand
    PROVE  Types'
<1> DEFINE m == Head(sfu.inbox)
<1>. Handles
  BY HandleCommandDoes
<1>1. /\ call' \in Calls /\ keys' \in KeySets /\ sfu.inbox # <<>>
      /\ sfu' = [sfu EXCEPT !.inbox = Tail(sfu.inbox)] /\ sfu \in Sfus
  BY DEF Handles, Types
<1>2. BoxOk(Tail(sfu.inbox)) /\ ~AnswerDue(Tail(sfu.inbox)) /\ m \in Messages /\ m = sfu.inbox[1]
  BY <1>1, BoxTail DEF Types
<1>3. /\ sfu' \in Sfus /\ sfu'.inbox = Tail(sfu.inbox) /\ sfu'.joined = sfu.joined
  BY <1>1, <1>2 DEF Sfus, BoxOk
<1>4. sfu.joined
  BY <1>1 DEF Types
<1>5. DueOk(call', sfu'.inbox)
  BY <1>2, <1>3 DEF DueOk
<1>6. m.peers \subseteq Cids
  BY <1>2 DEF Messages
<1>. HIDE DEF m
<1>7. CallOk(call)
  BY DEF Types
<1>8. CallOk(call')
  <2>1. CASE /\ m.cmd = "ANSWER"
             /\ call.mState # "Joining" => call' = call /\ keys' = keys
             /\ call.mState = "Joining" => Answered(call, call', keys, keys', m.peers)
    <3>1. \A a \in call.answers : a.round # call.round
      BY <1>1, <1>2, <2>1 DEF Types, DueOk, AnswerDue
    <3>2. CASE call.mState # "Joining"
      BY <1>7, <2>1, <3>2
    <3>3. CASE call.mState = "Joining"
      BY <1>1, <1>6, <1>7, <2>1, <3>1, <3>3, AnsweredCallOk DEF Types
    <3>4. QED
      BY <3>2, <3>3
  <2>2. CASE \E cid \in Cids :
                 /\ ~InCall(call) \/ cid \in DOMAIN call.mPeersVerification => call' = call
                 /\ InCall(call) /\ cid \notin DOMAIN call.mPeersVerification =>
                        /\ Announced(call, call', {cid}, FALSE)
                        /\ SameAnswers(call, call') /\ SameRound(call, call')
    <3>1. CASE call' = call
      BY <1>7, <3>1
    <3>2. CASE \E cid \in Cids : /\ Announced(call, call', {cid}, FALSE)
                                 /\ SameAnswers(call, call') /\ SameRound(call, call')
      <4>1. PICK cid \in Cids : /\ Announced(call, call', {cid}, FALSE)
                                /\ SameAnswers(call, call') /\ SameRound(call, call')
        BY <3>2
      <4> DEFINE check == [cid |-> cid, round |-> call.round, answer |-> FALSE]
      <4>2. call'.checks = call.checks \cup {check}
        BY <4>1 DEF Announced
      <4>3. check.answer = FALSE
        OBVIOUS
      <4>. HIDE DEF check
      <4>4. IsFiniteSet(call'.checks)
        BY <1>7, <4>2, FS_AddElement DEF CallOk
      <4>5. \A i : Waiting(call', i) = Waiting(call, i)
        BY <4>2, <4>3 DEF Waiting
      <4>6. AnswersOk(call) /\ PeersOk(call)
        BY <1>7, CallOkParts
      <4>7. PeersOk(call')
        BY <4>1, <4>6, AnnouncedPeersOk
      <4>8. call'.answers = call.answers /\ call'.round = call.round
        BY <4>1 DEF SameAnswers, SameRound
      <4>9. AnswersOk(call')
        BY <4>2, <4>3, <4>5, <4>6, <4>8 DEF AnswersOk
      <4>10. QED
        BY <4>4, <4>7, <4>9, CallOkParts
    <3>3. QED
      BY <2>2, <3>1, <3>2
  <2>3. CASE \E cid \in Cids : /\ ~InCall(call) => call' = call
                               /\ InCall(call) => Forgotten(call, call', cid)
    <3>1. CASE call' = call
      BY <1>7, <3>1
    <3>2. CASE \E cid \in Cids : Forgotten(call, call', cid)
      <4>1. PICK cid \in Cids : Forgotten(call, call', cid)
        BY <3>2
      <4>2. AnswersOk(call) /\ PeersOk(call) /\ IsFiniteSet(call.checks)
        BY <1>7, CallOkParts
      <4>3. /\ call'.checks = call.checks /\ call'.answers = call.answers
            /\ call'.round = call.round
        BY <4>1 DEF Forgotten, SameAnswers, SameRound
      <4>4. \A i : Waiting(call', i) = Waiting(call, i)
        BY <4>3 DEF Waiting
      <4>5. AnswersOk(call')
        BY <4>2, <4>3, <4>4 DEF AnswersOk
      <4>6. PeersOk(call')
        BY <4>1, <4>2 DEF PeersOk, Forgotten
      <4>7. QED
        BY <4>2, <4>3, <4>5, <4>6, CallOkParts
    <3>3. QED
      BY <2>3, <3>1, <3>2
  <2>4. QED
    BY <2>1, <2>2, <2>3 DEF Handles, m
<1>9. Known(sfu')
  <2>1. sfu'.meeting = sfu.meeting /\ sfu'.left = sfu.left
    BY <1>1 DEF Sfus
  <2>2. \A cmd, cid : Tells(Tail(sfu.inbox), cmd, cid) => Tells(sfu.inbox, cmd, cid)
    BY <1>1, BoxTail DEF Types
  <2>3. QED
    BY <1>3, <2>1, <2>2 DEF Types, Known
<1>10. QED
  BY <1>1, <1>2, <1>3, <1>4, <1>5, <1>8, <1>9 DEF Types

LEMMA VerifiedTypes ==
    ASSUME Types, NEW check \in call.checks, NEW ok \in BOOLEAN, Verified(check, ok)
    PROVE  Types'
<1>. Verifies(check, ok)
  BY VerifiedDoes
<1>1. /\ call' \in Calls /\ keys' \in KeySets /\ sfu' = sfu
      /\ Added(call, call', check.cid, ok) /\ SameRound(call, call')
  BY DEF Verifies
<1>2. CallOk(call')
  BY VerifiedCallOk
<1>3. DueOk(call', sfu'.inbox)
  <2> SUFFICES ASSUME AnswerDue(sfu.inbox)
               PROVE  /\ \A a \in call'.answers : a.round # call'.round
                      /\ \A cid : cid \notin DOMAIN call'.mPeersVerification
    BY <1>1 DEF DueOk
  <2>1. /\ \A a \in call.answers : a.round # call.round
        /\ \A cid : cid \notin DOMAIN call.mPeersVerification
    BY DEF Types, DueOk
  <2>2. call'.mPeersVerification = call.mPeersVerification /\ call'.round = call.round
    BY <1>1, <2>1 DEF Added, Pending, SameRound
  <2>3. \A a \in call'.answers : \E b \in call.answers : b.round = a.round
    <3>1. CASE ~check.answer
      BY <3>1 DEF Verifies, SameAnswers
    <3>2. CASE check.answer
      <4>1. PICK a \in call.answers : Counted(call, call', keys, keys', a, ok)
        BY <3>2 DEF Verifies
      <4> DEFINE n == [a EXCEPT !.left = @ - 1, !.any = @ \/ ok]
                 b == [n EXCEPT !.stage = "sdp"]
      <4>2. a \in Answers
        BY DEF Types, Calls
      <4>3. n.round = a.round /\ b.round = a.round
        BY <4>2 DEF Answers
      <4>4. \A e \in call'.answers : e \in call.answers \/ e = n \/ e = b
        BY <4>1 DEF Counted, Concluded
      <4>. HIDE DEF n, b
      <4>5. QED
        BY <4>3, <4>4
    <3>3. QED
      BY <3>1, <3>2
  <2>4. QED
    BY <2>1, <2>2, <2>3
<1>4. QED
  BY <1>1, <1>2, <1>3 DEF Types

(* The other actions *)

LEMMA PeerJoinsTypes ==
    ASSUME Types, NEW cid \in Cids, PeerJoins(cid)
    PROVE  /\ Types' /\ call' = call /\ keys' = keys
           /\ sfu'.meeting = sfu.meeting \cup {cid} /\ sfu'.left = sfu.left
           /\ sfu'.joined = sfu.joined /\ sfu'.ghosts = sfu.ghosts
           /\ cid \notin sfu.meeting /\ cid \notin sfu.left
           /\ sfu.joined => \A cmd, z : Tells(sfu'.inbox, cmd, z) <=>
                  Tells(sfu.inbox, cmd, z) \/ (cmd = "PEERJOIN" /\ z = cid)
           /\ ~sfu.joined => sfu'.inbox = sfu.inbox
           /\ AnswerDue(sfu'.inbox) => AnswerDue(sfu.inbox)
<1> DEFINE m   == [cmd |-> "PEERJOIN", peers |-> {cid}]
           box == IF sfu.joined THEN Append(sfu.inbox, m) ELSE sfu.inbox
<1>1. /\ sfu' = [sfu EXCEPT !.meeting = @ \cup {cid}, !.inbox = box] /\ sfu \in Sfus
      /\ call' = call /\ keys' = keys /\ cid \notin sfu.meeting /\ cid \notin sfu.left
  BY DEF PeerJoins, Deliver, Types
<1>2. m \in Messages /\ m.peers = {cid} /\ m.cmd = "PEERJOIN"
  BY DEF Messages
<1>. HIDE DEF m
<1>3. BoxOk(sfu.inbox) /\ Known(sfu)
  BY DEF Types
<1>4. \A i \in DOMAIN sfu.inbox : cid \notin sfu.inbox[i].peers
  BY <1>1, <1>3 DEF Known, Tells
<1>5. /\ BoxOk(Append(sfu.inbox, m))
      /\ AnswerDue(Append(sfu.inbox, m)) => AnswerDue(sfu.inbox)
      /\ \A cmd, z : Tells(Append(sfu.inbox, m), cmd, z) <=>
             Tells(sfu.inbox, cmd, z) \/ (m.cmd = cmd /\ z = cid)
  BY <1>2, <1>3, <1>4, BoxAppend
<1>6. /\ BoxOk(box) /\ (AnswerDue(box) => AnswerDue(sfu.inbox))
      /\ sfu.joined => \A cmd, z : Tells(box, cmd, z) <=>
             Tells(sfu.inbox, cmd, z) \/ (cmd = "PEERJOIN" /\ z = cid)
      /\ ~sfu.joined => box = sfu.inbox
  BY <1>2, <1>3, <1>5
<1>. HIDE DEF box
<1>7. /\ sfu' \in Sfus /\ sfu'.inbox = box /\ sfu'.joined = sfu.joined
      /\ sfu'.meeting = sfu.meeting \cup {cid} /\ sfu'.left = sfu.left
      /\ sfu'.ghosts = sfu.ghosts
  BY <1>1, <1>6 DEF Sfus, BoxOk
<1>8. \A cmd, z : Tells(box, cmd, z) => Tells(sfu.inbox, cmd, z) \/ z = cid
  BY <1>6
<1>9. Known(sfu')
  BY <1>3, <1>7, <1>8 DEF Known
<1>10. DueOk(call', sfu'.inbox)
  BY <1>1, <1>6, <1>7 DEF Types, DueOk
<1>11. Types'
  BY <1>1, <1>6, <1>7, <1>9, <1>10 DEF Types
<1>12. QED
  BY <1>1, <1>6, <1>7, <1>11

LEMMA PeerLeavesTypes ==
    ASSUME Types, NEW cid \in Cids, PeerLeaves(cid)
    PROVE  /\ Types' /\ call' = call /\ keys' = [keys EXCEPT !.got[cid] = Empty]
           /\ sfu'.meeting = sfu.meeting \ {cid} /\ sfu'.left = sfu.left \cup {cid}
           /\ sfu'.joined = sfu.joined /\ sfu'.ghosts = sfu.ghosts
           /\ cid \in sfu.meeting
           /\ sfu.joined => \A cmd, z : Tells(sfu'.inbox, cmd, z) <=>
                  Tells(sfu.inbox, cmd, z) \/ (cmd = "PEERLEFT" /\ z = cid)
           /\ ~sfu.joined => sfu'.inbox = sfu.inbox
           /\ AnswerDue(sfu'.inbox) => AnswerDue(sfu.inbox)
<1> DEFINE m   == [cmd |-> "PEERLEFT", peers |-> {cid}]
           box == IF sfu.joined THEN Append(sfu.inbox, m) ELSE sfu.inbox
<1>1. /\ sfu' = [sfu EXCEPT !.meeting = @ \ {cid}, !.left = @ \cup {cid}, !.inbox = box]
      /\ call' = call /\ keys' = [keys EXCEPT !.got[cid] = Empty]
      /\ sfu \in Sfus /\ cid \in sfu.meeting
  BY DEF PeerLeaves, Deliver, Types
<1>2. m \in Messages /\ m.peers = {cid} /\ m.cmd = "PEERLEFT"
  BY DEF Messages
<1>. HIDE DEF m
<1>3. BoxOk(sfu.inbox) /\ Known(sfu)
  BY DEF Types
<1>4. m.cmd # "ANSWER" /\ m.cmd # "PEERJOIN"
  BY <1>2
<1>5. /\ BoxOk(Append(sfu.inbox, m))
      /\ AnswerDue(Append(sfu.inbox, m)) => AnswerDue(sfu.inbox)
      /\ \A cmd, z : Tells(Append(sfu.inbox, m), cmd, z) <=>
             Tells(sfu.inbox, cmd, z) \/ (m.cmd = cmd /\ z = cid)
  BY <1>2, <1>3, <1>4, BoxAppend
<1>6. /\ BoxOk(box) /\ (AnswerDue(box) => AnswerDue(sfu.inbox))
      /\ sfu.joined => \A cmd, z : Tells(box, cmd, z) <=>
             Tells(sfu.inbox, cmd, z) \/ (cmd = "PEERLEFT" /\ z = cid)
      /\ ~sfu.joined => box = sfu.inbox
  BY <1>2, <1>3, <1>5
<1>. HIDE DEF box
<1>7. /\ sfu' \in Sfus /\ sfu'.inbox = box /\ sfu'.joined = sfu.joined
      /\ sfu'.meeting = sfu.meeting \ {cid} /\ sfu'.left = sfu.left \cup {cid}
      /\ sfu'.ghosts = sfu.ghosts
  BY <1>1, <1>6 DEF Sfus, BoxOk
<1>8. \A cmd, z : Tells(box, cmd, z) => Tells(sfu.inbox, cmd, z) \/ z = cid
  BY <1>6
<1>9. Known(sfu')
  BY <1>3, <1>7, <1>8 DEF Known
<1>10. DueOk(call', sfu'.inbox)
  BY <1>1, <1>6, <1>7 DEF Types, DueOk
<1>11. keys' \in KeySets
  <2>1. Empty \in Partial(KeyIds, Nat)
    BY EmptyPartial
  <2>2. keys \in KeySets
    BY DEF Types
  <2>3. QED
    BY <1>1, <2>1, <2>2 DEF KeySets
<1>12. Types'
  BY <1>1, <1>6, <1>7, <1>9, <1>10, <1>11 DEF Types
<1>13. QED
  BY <1>1, <1>6, <1>7, <1>12

LEMMA DescriptionSetTypes ==
    ASSUME Types, NEW answer \in call.answers, NEW ok \in BOOLEAN, DescriptionSet(answer, ok)
    PROVE  /\ Types' /\ keys' = keys /\ sfu' = sfu /\ SamePeers(call, call')
           /\ SameRound(call, call') /\ call'.stale = call.stale
           /\ call'.answers = call.answers \ {answer} /\ answer.stage = "sdp" /\ Live
           /\ call'.mState = IF ~ok THEN "Ended"
                             ELSE IF call.mState = "Joining" THEN "InProgress" ELSE call.mState
<1> DEFINE st == IF ~ok THEN "Ended"
                 ELSE IF call.mState = "Joining" THEN "InProgress" ELSE call.mState
           as == call.answers \ {answer}
<1>1. /\ call' = [call EXCEPT !.answers = as, !.mState = st] /\ call \in Calls
      /\ keys' = keys /\ sfu' = sfu /\ answer.stage = "sdp" /\ Live
  BY DEF DescriptionSet, Types, Calls
<1>2. st \in CallStates /\ as \in SUBSET Answers
  BY <1>1 DEF Calls, CallStates
<1>3. as = call.answers \ {answer}
  OBVIOUS
<1>. HIDE DEF as
<1>4. /\ call' \in Calls /\ call'.answers = as /\ call'.mState = st /\ SamePeers(call, call')
      /\ SameRound(call, call') /\ call'.stale = call.stale
  BY <1>1, <1>2 DEF Calls, SamePeers, SameRound
<1>. HIDE DEF st
<1>5. CallOk(call) /\ answer \in call.answers
  BY DEF Types
<1>6. IsFiniteSet(call.checks) /\ AnswersOk(call) /\ PeersOk(call)
  BY <1>5, CallOkParts
<1>7. IsFiniteSet(call'.checks) /\ PeersOk(call')
  BY <1>4, <1>6 DEF PeersOk, SamePeers
<1>8. \A i : Waiting(call', i) = Waiting(call, i)
  BY <1>4 DEF Waiting, SamePeers
<1>9. ~\E check : check \in Waiting(call, answer.round)
  <2>1. Cardinality(Waiting(call, answer.round)) = 0
    BY <1>1, <1>6 DEF AnswersOk
  <2>2. QED
    BY <1>6, <2>1, WaitingFinite, FS_EmptySet
<1>10. call'.round = call.round /\ answer.round <= call.round
  BY <1>4, <1>5, <1>6 DEF SameRound, AnswersOk
<1>11. \A a \in call'.answers : a \in call.answers /\ a.round # answer.round
  BY <1>3, <1>4, <1>6 DEF AnswersOk
<1>12. \A a \in call.answers : a.round # answer.round => a \in call'.answers
  BY <1>3, <1>4
<1>13. \A a \in call'.answers : a.round # answer.round => a \in call.answers
  BY <1>11
<1>14. \A a \in call'.answers :
          a.round = answer.round => /\ a.left = Cardinality(Waiting(call', answer.round))
                                    /\ a.stage = "sdp" <=> a.left = 0
  BY <1>11
<1>15. \A a, b \in call'.answers : a.round = answer.round /\ b.round = answer.round => a = b
  BY <1>11
<1>16. (\E check : check \in Waiting(call', answer.round)) =>
          \E a \in call'.answers : a.round = answer.round
  BY <1>8, <1>9
<1>17. \A i : i # answer.round => Waiting(call', i) = Waiting(call, i)
  BY <1>8
<1>18. AnswersOk(call')
  BY <1>6, <1>10, <1>12, <1>13, <1>14, <1>15, <1>16, <1>17, AnswersReplaced
<1>19. CallOk(call')
  BY <1>7, <1>18, CallOkParts
<1>20. DueOk(call', sfu'.inbox)
  BY <1>1, <1>4, <1>11 DEF Types, DueOk, SamePeers, SameRound
<1>21. Types'
  BY <1>1, <1>4, <1>19, <1>20 DEF Types
<1>22. QED
  BY <1>1, <1>3, <1>4, <1>21 DEF st

\* The peers that a key reaches when it is sent.
Reached(c, s, cid) == cid \in s.meeting /\ cid \in DOMAIN c.mSessions /\ c.mSessions[cid]

LEMMA KeysTypes ==
    ASSUME Types, keys' \in KeySets, UNCHANGED <<call, sfu>>
    PROVE  Types'
BY DEF Types, DueOk

LEMMA SendKeyTypes ==
    ASSUME Types, NEW r \in keys.rotations, SendKey(r)
    PROVE  /\ Types' /\ call' = call /\ sfu' = sfu /\ r \in Rotation /\ Live
           /\ keys'.mCurrentkeyId = keys.mCurrentkeyId /\ keys'.mKeyMap = keys.mKeyMap
           /\ keys'.encryptor = keys.encryptor /\ keys'.clash = keys.clash
           /\ keys'.rotations = keys.rotations \ {r} /\ keys'.timers = Append(keys.timers, r)
           /\ \A cid \in Cids :
                  IF sfu.joined /\ Reached(call, sfu, cid)
                  THEN /\ keys'.got[cid][r.id] = r.key
                       /\ \A i : i \in DOMAIN keys'.got[cid] <=> i \in DOMAIN keys.got[cid] \/ i = r.id
                       /\ \A i \in DOMAIN keys.got[cid] :
                              i # r.id => keys'.got[cid][i] = keys.got[cid][i]
                  ELSE keys'.got[cid] = keys.got[cid]
<1> DEFINE g  == [cid \in Cids |-> IF sfu.joined /\ Reached(call, sfu, cid)
                                   THEN Put(keys.got[cid], r.id, r.key) ELSE keys.got[cid]]
           rs == keys.rotations \ {r}
           ts == Append(keys.timers, r)
<1>1. /\ keys' = [keys EXCEPT !.rotations = rs, !.timers = ts, !.got = g]
      /\ UNCHANGED <<call, sfu>> /\ Live /\ keys \in KeySets
  BY DEF SendKey, Reached, Types, KeySets
<1>2. /\ keys.rotations \subseteq Rotation /\ keys.timers \in Seq(Rotation)
      /\ keys.got \in [Cids -> Partial(KeyIds, Nat)]
  BY <1>1 DEF KeySets
<1>3. r \in Rotation /\ rs \in SUBSET Rotation /\ ts \in Seq(Rotation)
  BY <1>2
<1>4. r.id \in KeyIds /\ r.key \in Nat
  BY <1>3 DEF Rotation, KeyIds
<1>5. ASSUME NEW cid \in Cids
      PROVE  /\ Put(keys.got[cid], r.id, r.key) \in Partial(KeyIds, Nat)
             /\ \A i : i \in DOMAIN Put(keys.got[cid], r.id, r.key) <=>
                    i \in DOMAIN keys.got[cid] \/ i = r.id
             /\ Put(keys.got[cid], r.id, r.key)[r.id] = r.key
             /\ \A i \in DOMAIN keys.got[cid] :
                    i # r.id => Put(keys.got[cid], r.id, r.key)[i] = keys.got[cid][i]
  <2>1. keys.got[cid] \in Partial(KeyIds, Nat)
    BY <1>2
  <2>2. QED
    BY <1>4, <2>1, PutPartial
<1>6. g \in [Cids -> Partial(KeyIds, Nat)]
  <2>1. \A cid \in Cids : keys.got[cid] \in Partial(KeyIds, Nat)
    BY <1>2
  <2>2. QED
    BY <1>5, <2>1
<1>7. \A cid \in Cids :
         IF sfu.joined /\ Reached(call, sfu, cid)
         THEN /\ g[cid][r.id] = r.key
              /\ \A i : i \in DOMAIN g[cid] <=> i \in DOMAIN keys.got[cid] \/ i = r.id
              /\ \A i \in DOMAIN keys.got[cid] : i # r.id => g[cid][i] = keys.got[cid][i]
         ELSE g[cid] = keys.got[cid]
  <2> SUFFICES ASSUME NEW cid \in Cids
               PROVE  IF sfu.joined /\ Reached(call, sfu, cid)
                      THEN /\ g[cid][r.id] = r.key
                           /\ \A i : i \in DOMAIN g[cid] <=> i \in DOMAIN keys.got[cid] \/ i = r.id
                           /\ \A i \in DOMAIN keys.got[cid] :
                                  i # r.id => g[cid][i] = keys.got[cid][i]
                      ELSE g[cid] = keys.got[cid]
    OBVIOUS
  <2>1. g[cid] = IF sfu.joined /\ Reached(call, sfu, cid)
                 THEN Put(keys.got[cid], r.id, r.key) ELSE keys.got[cid]
    OBVIOUS
  <2>. HIDE DEF g
  <2>2. QED
    BY <1>5, <2>1
<1>. HIDE DEF g
<1>8. keys' \in KeySets /\ keys'.got = g
  BY <1>1, <1>3, <1>6 DEF KeySets
<1>9. /\ keys'.mCurrentkeyId = keys.mCurrentkeyId /\ keys'.mKeyMap = keys.mKeyMap
      /\ keys'.encryptor = keys.encryptor /\ keys'.clash = keys.clash
      /\ keys'.rotations = rs /\ keys'.timers = ts
  BY <1>1 DEF KeySets
<1>10. Types'
  BY <1>1, <1>8, KeysTypes
<1>11. QED
  BY <1>1, <1>3, <1>7, <1>8, <1>9, <1>10

LEMMA UseKeyTypes ==
    ASSUME Types, UseKey
    PROVE  /\ Types' /\ call' = call /\ sfu' = sfu /\ Live /\ keys.timers # <<>>
           /\ Head(keys.timers) \in Rotation
           /\ keys'.mCurrentkeyId = Head(keys.timers).id
           /\ \A i : i \in DOMAIN keys'.mKeyMap <=>
                  i \in DOMAIN keys.mKeyMap \/ i = Head(keys.timers).id
           /\ keys'.mKeyMap[Head(keys.timers).id] = Head(keys.timers).key
           /\ \A i \in DOMAIN keys.mKeyMap :
                  i # Head(keys.timers).id => keys'.mKeyMap[i] = keys.mKeyMap[i]
           /\ keys'.encryptor = keys.encryptor /\ keys'.clash = keys.clash
           /\ keys'.rotations = keys.rotations /\ keys'.timers = Tail(keys.timers)
           /\ keys'.got = keys.got
<1> DEFINE r  == Head(keys.timers)
           km == Put(keys.mKeyMap, r.id, r.key)
           ts == Tail(keys.timers)
<1>1. /\ keys' = [keys EXCEPT !.mCurrentkeyId = r.id, !.mKeyMap = km, !.timers = ts]
      /\ UNCHANGED <<call, sfu>> /\ Live /\ keys \in KeySets /\ keys.timers # <<>>
  BY DEF UseKey, AddKey, Types, KeySets
<1>2. keys.timers \in Seq(Rotation) /\ keys.mKeyMap \in Partial(KeyIds, Nat)
  BY <1>1 DEF KeySets
<1>3. r \in Rotation /\ ts \in Seq(Rotation)
  BY <1>1, <1>2
<1>. HIDE DEF r
<1>4. r.id \in KeyIds /\ r.key \in Nat
  BY <1>3 DEF Rotation, KeyIds
<1>5. /\ km \in Partial(KeyIds, Nat)
      /\ \A i : i \in DOMAIN km <=> i \in DOMAIN keys.mKeyMap \/ i = r.id
      /\ km[r.id] = r.key
      /\ \A i \in DOMAIN keys.mKeyMap : i # r.id => km[i] = keys.mKeyMap[i]
  BY <1>2, <1>4, PutPartial
<1>. HIDE DEF km, ts
<1>6. keys' \in KeySets /\ keys'.mKeyMap = km
  BY <1>1, <1>3, <1>4, <1>5 DEF KeySets
<1>7. /\ keys'.mCurrentkeyId = r.id /\ keys'.encryptor = keys.encryptor
      /\ keys'.clash = keys.clash /\ keys'.rotations = keys.rotations /\ keys'.timers = ts
      /\ keys'.got = keys.got
  BY <1>1 DEF KeySets
<1>8. Types'
  BY <1>1, <1>6, KeysTypes
<1>9. QED
  BY <1>1, <1>3, <1>5, <1>6, <1>7, <1>8 DEF r, ts

LEMMA EncryptFrameTypes ==
    ASSUME Types, EncryptFrame
    PROVE  /\ Types' /\ call' = call /\ sfu' = sfu
           /\ keys'.mCurrentkeyId = keys.mCurrentkeyId /\ keys'.mKeyMap = keys.mKeyMap
           /\ keys'.rotations = keys.rotations /\ keys'.timers = keys.timers
           /\ keys'.got = keys.got /\ keys'.clash = keys.clash
           /\ keys.mCurrentkeyId \in DOMAIN keys.mKeyMap
           /\ keys'.encryptor = [id |-> keys.mCurrentkeyId,
                                 key |-> keys.mKeyMap[keys.mCurrentkeyId]]
           /\ sfu.joined /\ call.mState = "InProgress"
<1> DEFINE e == [id |-> keys.mCurrentkeyId, key |-> keys.mKeyMap[keys.mCurrentkeyId]]
<1>1. /\ keys' = [keys EXCEPT !.encryptor = e] /\ UNCHANGED <<call, sfu>>
      /\ keys \in KeySets /\ keys.mCurrentkeyId \in DOMAIN keys.mKeyMap
      /\ sfu.joined /\ call.mState = "InProgress"
  BY DEF EncryptFrame, Types
<1>2. keys.mCurrentkeyId \in KeyIds /\ keys.mKeyMap \in Partial(KeyIds, Nat)
  BY <1>1 DEF KeySets
<1>3. keys.mKeyMap[keys.mCurrentkeyId] \in Nat
  BY <1>1, <1>2, PartialIs
<1>4. e \in [id : 0 .. LastKeyId + 1, key : Nat]
  BY <1>2, <1>3, PeersAssumption DEF KeyIds
<1>5. e = [id |-> keys.mCurrentkeyId, key |-> keys.mKeyMap[keys.mCurrentkeyId]]
  OBVIOUS
<1>. HIDE DEF e
<1>6. /\ keys' \in KeySets /\ keys'.mCurrentkeyId = keys.mCurrentkeyId
      /\ keys'.mKeyMap = keys.mKeyMap /\ keys'.rotations = keys.rotations
      /\ keys'.timers = keys.timers /\ keys'.got = keys.got /\ keys'.clash = keys.clash
      /\ keys'.encryptor = e
  BY <1>1, <1>4 DEF KeySets
<1>7. Types'
  BY <1>1, <1>6, KeysTypes
<1>8. QED
  BY <1>1, <1>5, <1>6, <1>7

LEMMA LoseSfuTypes ==
    ASSUME Types, NEW why \in {"socket", "media", "chatd"}, LoseSfu(why)
    PROVE  /\ Types' /\ Live /\ sfu.joined
           /\ ~sfu'.joined /\ sfu'.inbox = <<>> /\ sfu'.meeting = sfu.meeting
           /\ sfu'.left = sfu.left /\ sfu'.ghosts = sfu.ghosts
           /\ keys' = [keys EXCEPT !.encryptor = None, !.got = [cid \in Cids |-> Empty]]
           /\ call'.checks = call.checks /\ call'.answers = call.answers
           /\ call'.round = call.round /\ call'.stale = call.stale
           /\ \/ call'.mSessions = Empty /\ call'.mPeersVerification = Empty
              \/ /\ call'.mSessions = call.mSessions
                 /\ call'.mPeersVerification = call.mPeersVerification
<1>1. /\ call \in Calls /\ keys \in KeySets /\ sfu \in Sfus /\ Live /\ sfu.joined
      /\ sfu' = [sfu EXCEPT !.joined = FALSE, !.inbox = <<>>]
      /\ keys' = [keys EXCEPT !.encryptor = None, !.got = [cid \in Cids |-> Empty]]
      /\ \/ call' = [call EXCEPT !.mState = "Connecting", !.mRtcConn = FALSE,
                                 !.mSessions = Empty, !.mPeersVerification = Empty]
         \/ call' = [call EXCEPT !.mState = "Connecting"]
         \/ call' = call
  BY DEF LoseSfu, Types
<1>2. BoxOk(<<>>) /\ ~AnswerDue(<<>>) /\ \A cmd, cid : ~Tells(<<>>, cmd, cid)
  BY EmptyBox
<1>3. /\ sfu' \in Sfus /\ ~sfu'.joined /\ sfu'.inbox = <<>> /\ sfu'.meeting = sfu.meeting
      /\ sfu'.left = sfu.left /\ sfu'.ghosts = sfu.ghosts
  BY <1>1, <1>2 DEF Sfus, BoxOk
<1>4. keys' \in KeySets
  <2>1. None \in [id : 0 .. LastKeyId + 1, key : Nat]
    BY PeersAssumption DEF None
  <2>2. [cid \in Cids |-> Empty] \in [Cids -> Partial(KeyIds, Nat)]
    BY EmptyPartial
  <2>3. QED
    BY <1>1, <2>1, <2>2 DEF KeySets
<1>5. /\ Empty \in Partial(Cids, BOOLEAN) /\ Empty \in Partial(Cids, Outcomes)
      /\ DOMAIN Empty = {}
  BY EmptyPartial
<1>6. call' \in Calls
  BY <1>1, <1>5 DEF Calls, CallStates
<1>7. /\ call'.checks = call.checks /\ call'.answers = call.answers
      /\ call'.round = call.round /\ call'.stale = call.stale
      /\ \/ call'.mSessions = Empty /\ call'.mPeersVerification = Empty
         \/ /\ call'.mSessions = call.mSessions
            /\ call'.mPeersVerification = call.mPeersVerification
  BY <1>1 DEF Calls
<1>8. CallOk(call')
  <2>1. IsFiniteSet(call.checks) /\ AnswersOk(call) /\ PeersOk(call)
    BY CallOkParts DEF Types
  <2>2. \A i : Waiting(call', i) = Waiting(call, i)
    BY <1>7 DEF Waiting
  <2>3. AnswersOk(call')
    BY <1>7, <2>1, <2>2 DEF AnswersOk
  <2>4. PeersOk(call')
    BY <1>5, <1>7, <2>1 DEF PeersOk
  <2>5. QED
    BY <1>7, <2>1, <2>3, <2>4, CallOkParts
<1>9. Known(sfu') /\ DueOk(call', sfu'.inbox) /\ BoxOk(sfu'.inbox)
  BY <1>2, <1>3 DEF Known, DueOk
<1>10. Types'
  BY <1>3, <1>4, <1>6, <1>8, <1>9 DEF Types
<1>11. QED
  BY <1>1, <1>3, <1>7, <1>10

LEMMA JoinSfuTypes ==
    ASSUME Types, JoinSfu
    PROVE  /\ Types' /\ Live /\ ~sfu.joined /\ keys' = keys
           /\ sfu'.joined /\ sfu'.meeting = sfu.meeting /\ sfu'.left = sfu.left
           /\ \A cid : cid \in sfu'.ghosts <=>
                  cid \in DOMAIN call.mSessions /\ cid \notin sfu.meeting
           /\ \A cmd, cid : Tells(sfu'.inbox, cmd, cid) <=> cmd = "ANSWER" /\ cid \in sfu.meeting
           /\ call'.mState = "Joining" /\ call'.mSessions = call.mSessions
           /\ call'.mPeersVerification = Empty /\ call'.checks = call.checks
           /\ call'.answers = {a \in call.answers : a.stage = "keys"}
           /\ call'.round = call.round + 1 /\ call'.stale = call.stale
           /\ \A a \in call'.answers : a.round # call'.round
<1> DEFINE m  == [cmd |-> "ANSWER", peers |-> sfu.meeting]
           gs == DOMAIN call.mSessions \ sfu.meeting
           as == {a \in call.answers : a.stage = "keys"}
<1>1. /\ call \in Calls /\ keys \in KeySets /\ sfu \in Sfus /\ Live /\ ~sfu.joined
      /\ sfu' = [sfu EXCEPT !.joined = TRUE, !.inbox = <<m>>, !.ghosts = gs]
      /\ call' = [call EXCEPT !.mState = "Joining", !.mRtcConn = TRUE, !.round = @ + 1,
                              !.mPeersVerification = Empty, !.answers = as]
      /\ keys' = keys
  BY DEF JoinSfu, Types, Calls
<1>2. m \in Messages /\ m.cmd = "ANSWER" /\ m.peers = sfu.meeting
  BY <1>1 DEF Messages, Sfus
<1>. HIDE DEF m
<1>3. <<m>> \in Seq(Messages) /\ DOMAIN <<m>> = {1} /\ <<m>>[1] = m
  BY <1>2
<1>4. BoxOk(<<m>>)
  BY <1>2, <1>3 DEF BoxOk
<1>5. \A cmd, cid : Tells(<<m>>, cmd, cid) <=> cmd = "ANSWER" /\ cid \in sfu.meeting
  BY <1>2, <1>3 DEF Tells
<1>6. gs \subseteq Cids
  <2>1. call.mSessions \in Partial(Cids, BOOLEAN)
    BY <1>1 DEF Calls
  <2>2. QED
    BY <2>1, PartialIs
<1>7. \A cid : cid \in gs <=> cid \in DOMAIN call.mSessions /\ cid \notin sfu.meeting
  OBVIOUS
<1>. HIDE DEF gs
<1>8. /\ sfu' \in Sfus /\ sfu'.joined /\ sfu'.inbox = <<m>> /\ sfu'.meeting = sfu.meeting
      /\ sfu'.left = sfu.left /\ sfu'.ghosts = gs
  BY <1>1, <1>3, <1>6 DEF Sfus
<1>9. Empty \in Partial(Cids, Outcomes) /\ DOMAIN Empty = {}
  BY EmptyPartial
<1>10. as \in SUBSET Answers /\ call.round + 1 \in Nat /\ call.round \in Nat
  BY <1>1 DEF Calls
<1>11. as = {a \in call.answers : a.stage = "keys"}
  OBVIOUS
<1>. HIDE DEF as
<1>12. /\ call' \in Calls /\ call'.mState = "Joining" /\ call'.mSessions = call.mSessions
       /\ call'.mPeersVerification = Empty /\ call'.checks = call.checks
       /\ call'.answers = as /\ call'.round = call.round + 1 /\ call'.stale = call.stale
  BY <1>1, <1>9, <1>10 DEF Calls, CallStates
<1>13. IsFiniteSet(call.checks) /\ AnswersOk(call)
  BY CallOkParts DEF Types
<1>14. \A a \in call.answers : a.round \in Nat /\ a.round <= call.round
  BY <1>1, <1>13 DEF AnswersOk, Calls, Answers
<1>15. \A a \in as : a.round # call.round + 1 /\ a.round <= call.round + 1
  BY <1>10, <1>11, <1>14
<1>16. AnswersOk(call')
  <2>1. \A i : Waiting(call', i) = Waiting(call, i)
    BY <1>12 DEF Waiting
  <2>2. ASSUME NEW check \in call.checks, check.answer
        PROVE  \E a \in as : a.round = check.round
    <3>1. PICK a \in call.answers : a.round = check.round
      BY <1>13, <2>2 DEF AnswersOk
    <3>2. check \in Waiting(call, a.round)
      BY <2>2, <3>1 DEF Waiting
    <3>3. Cardinality(Waiting(call, a.round)) # 0
      BY <1>13, <3>2, WaitingFinite, FS_EmptySet
    <3>4. a.stage # "sdp"
      BY <1>13, <3>3 DEF AnswersOk
    <3>5. a.stage = "keys"
      BY <1>1, <3>4 DEF Calls, Answers
    <3>6. QED
      BY <1>11, <3>1, <3>5
  <2>3. QED
    BY <1>11, <1>12, <1>13, <1>15, <2>1, <2>2 DEF AnswersOk
<1>17. CallOk(call')
  <2>1. PeersOk(call')
    BY <1>9, <1>12 DEF PeersOk
  <2>2. QED
    BY <1>12, <1>13, <1>16, <2>1, CallOkParts
<1>18. Known(sfu')
  BY <1>5, <1>8 DEF Known
<1>19. DueOk(call', sfu'.inbox)
  BY <1>9, <1>12, <1>15 DEF DueOk
<1>20. Types'
  BY <1>1, <1>4, <1>8, <1>12, <1>17, <1>18, <1>19 DEF Types
<1>21. QED
  BY <1>1, <1>5, <1>7, <1>8, <1>11, <1>12, <1>15, <1>20

LEMMA InitTypes == Init => Types
<1> SUFFICES ASSUME Init PROVE Types
  OBVIOUS
<1>1. /\ Empty \in Partial(Cids, BOOLEAN) /\ Empty \in Partial(Cids, Outcomes)
      /\ Empty \in Partial(KeyIds, Nat) /\ DOMAIN Empty = {}
  BY EmptyPartial
<1>2. call = [mState |-> "Connecting", mRtcConn |-> FALSE, mSessions |-> Empty,
              mPeersVerification |-> Empty, checks |-> {}, answers |-> {},
              round |-> 0, stale |-> FALSE]
  BY DEF Init
<1>3. call \in Calls
  BY <1>1, <1>2 DEF Calls, CallStates
<1>4. CallOk(call)
  BY <1>1, <1>2, FS_EmptySet DEF CallOk
<1>5. keys \in KeySets
  <2>1. 0 \in KeyIds /\ None \in [id : 0 .. LastKeyId + 1, key : Nat]
    BY PeersAssumption DEF KeyIds, None
  <2>2. <<>> \in Seq(Rotation) /\ [cid \in Cids |-> Empty] \in [Cids -> Partial(KeyIds, Nat)]
    BY <1>1
  <2>3. QED
    BY <1>1, <2>1, <2>2 DEF Init, KeySets
<1>6. /\ sfu \in Sfus /\ sfu.inbox = <<>>
  BY EmptyBox DEF Init, Sfus, BoxOk
<1>7. BoxOk(sfu.inbox) /\ Known(sfu) /\ DueOk(call, sfu.inbox)
  BY <1>6, EmptyBox DEF Known, DueOk
<1>8. QED
  BY <1>3, <1>4, <1>5, <1>6, <1>7 DEF Types

LEMMA NextTypes == Types /\ [Next]_vars => Types'
<1> SUFFICES ASSUME Types, [Next]_vars PROVE Types'
  OBVIOUS
<1>1. CASE UNCHANGED vars
  BY <1>1 DEF vars, Types, CallOk, PeersOk, AnswersOk, DueOk, Known
<1>2. CASE \E cid \in Cids : PeerJoins(cid) \/ PeerLeaves(cid)
  BY <1>2, PeerJoinsTypes, PeerLeavesTypes
<1>3. CASE HandleCommand
  BY <1>3, HandleCommandTypes
<1>4. CASE \E check \in call.checks, ok \in BOOLEAN : Verified(check, ok)
  BY <1>4, VerifiedTypes
<1>5. CASE \E answer \in call.answers, ok \in BOOLEAN : DescriptionSet(answer, ok)
  BY <1>5, DescriptionSetTypes
<1>6. CASE \E rotation \in keys.rotations : SendKey(rotation)
  BY <1>6, SendKeyTypes
<1>7. CASE UseKey \/ EncryptFrame
  BY <1>7, UseKeyTypes, EncryptFrameTypes
<1>8. CASE \E why \in {"socket", "media", "chatd"} : LoseSfu(why)
  BY <1>8, LoseSfuTypes
<1>9. CASE JoinSfu
  BY <1>9, JoinSfuTypes
<1>10. QED
  BY <1>1, <1>2, <1>3, <1>4, <1>5, <1>6, <1>7, <1>8, <1>9 DEF Next

\* Always, the client, the SFU and what is between them have their types.
THEOREM AlwaysTypes == Spec => []Types
<1>1. QED
  BY InitTypes, NextTypes, PTL DEF Spec

LEMMA TypesImply == Types => TypeOK
<1> SUFFICES ASSUME Types PROVE TypeOK
  OBVIOUS
<1>1. call \in Calls /\ keys \in KeySets /\ AnswersOk(call) /\ PeersOk(call)
      /\ IsFiniteSet(call.checks)
  BY CallOkParts DEF Types
<1>2. call.mState \in {"Connecting", "Joining", "InProgress", "Ended", "Crashed"}
  BY <1>1 DEF Calls, CallStates
<1>3. /\ call.mSessions \in Partial(Cids, BOOLEAN)
      /\ call.mPeersVerification \in Partial(Cids, Outcomes)
  BY <1>1 DEF Calls
<1>4. DOMAIN call.mSessions \cup DOMAIN call.mPeersVerification \subseteq Cids
  BY <1>3, PartialIs
<1>5. \A cid \in DOMAIN call.mPeersVerification :
        /\ call.mPeersVerification[cid] \in {"pending", "resolved", "rejected"}
        /\ call.mPeersVerification[cid] # "pending" =>
               /\ cid \in DOMAIN call.mSessions
               /\ call.mSessions[cid] = (call.mPeersVerification[cid] = "resolved")
  <2>1. \A cid \in DOMAIN call.mPeersVerification : call.mPeersVerification[cid] \in Outcomes
    BY <1>3, PartialIs
  <2>2. QED
    BY <1>1, <2>1 DEF PeersOk, Outcomes
<1>6. \A check \in call.checks :
        check.answer => \E a \in call.answers : a.round = check.round /\ a.stage = "keys"
  <2> SUFFICES ASSUME NEW check \in call.checks, check.answer
               PROVE  \E a \in call.answers : a.round = check.round /\ a.stage = "keys"
    OBVIOUS
  <2>1. PICK a \in call.answers : a.round = check.round /\ a.left # 0
    BY WaitingCounts
  <2>2. a.stage # "sdp" /\ a \in Answers
    BY <1>1, <2>1 DEF AnswersOk, Calls
  <2>3. QED
    BY <2>1, <2>2 DEF Answers
<1>7. \A a \in call.answers :
        /\ a.left = Cardinality({check \in call.checks : check.answer /\ check.round = a.round})
        /\ a.stage = "sdp" <=> a.left = 0
  BY <1>1 DEF AnswersOk, Waiting
<1>8. keys.rotations \subseteq Rotation /\ keys.mCurrentkeyId \in 0 .. LastKeyId
  BY <1>1 DEF KeySets, KeyIds
<1>9. \A i \in DOMAIN keys.timers : keys.timers[i] \in Rotation
  BY <1>1 DEF KeySets
<1>10. QED
  BY <1>2, <1>4, <1>5, <1>6, <1>7, <1>8, <1>9 DEF TypeOK

\* Type correctness: an ANSWER waits for as many verifications as are under way for it, and a
\* peer whose verification is done has the session it ended in (Call::handleAnswerCommand,
\* Call::addPeer), for every set of clients.
THEOREM TypeOKHolds == Spec => []TypeOK
<1>1. QED
  BY AlwaysTypes, TypesImply, PTL

-----------------------------------------------------------------------------
(* The second layer: what our client will know of the meeting *)

Alive(c) == c.mState \notin {"Ended", "Crashed"}

\* Our client has a peer, or is about to be told of it.
Expected(c, s, cid) ==
    \/ cid \in DOMAIN c.mPeersVerification
    \/ Tells(s.inbox, "ANSWER", cid) \/ Tells(s.inbox, "PEERJOIN", cid)

Going(s, cid) == Tells(s.inbox, "PEERLEFT", cid)

\* A client is in the meeting once.
Once(c, s) ==
    /\ \A cid : cid \in s.meeting => cid \notin s.left
    /\ \A cid : cid \in s.ghosts \/ Going(s, cid) => cid \in s.left
    /\ \A cid : cid \in DOMAIN c.mSessions \/ cid \in DOMAIN c.mPeersVerification =>
                    cid \in s.meeting \cup s.left

\* What is pending is being verified; only the ANSWER of this connection has its description
\* set, as long as none of another connection was used.
UnderWay(c) ==
    /\ \A cid : Pending(c, cid) => \E check \in c.checks : check.cid = cid
    /\ ~c.stale => \A a \in c.answers : a.stage = "sdp" => a.round = c.round

\* While our client is joined, what it has and what it will be told add up to the meeting.
Told(c, s) ==
    s.joined /\ Alive(c) =>
        /\ InCall(c)
        /\ ~c.stale =>
               /\ \A cid : cid \in s.meeting <=> Expected(c, s, cid) /\ ~Going(s, cid)
               /\ \A cid \in DOMAIN c.mSessions : cid \in s.ghosts \/ Expected(c, s, cid)
               /\ c.mState = "InProgress" =>
                      ~AnswerDue(s.inbox) /\ \A a \in c.answers : a.round # c.round

Meeting == Once(call, sfu) /\ UnderWay(call) /\ Told(call, sfu)

LEMMA InitMeeting == Init => Meeting
<1> SUFFICES ASSUME Init PROVE Meeting
  OBVIOUS
<1>1. DOMAIN Empty = {}
  BY EmptyPartial
<1>2. /\ call.mSessions = Empty /\ call.mPeersVerification = Empty /\ call.answers = {}
      /\ sfu.left = {} /\ sfu.ghosts = {} /\ sfu.inbox = <<>> /\ sfu.joined = FALSE
  BY DEF Init
<1>3. Once(call, sfu)
  BY <1>1, <1>2, EmptyBox DEF Once, Going
<1>4. UnderWay(call) /\ Told(call, sfu)
  BY <1>1, <1>2 DEF UnderWay, Told, Pending
<1>5. QED
  BY <1>3, <1>4 DEF Meeting

LEMMA PeerJoinsMeeting ==
    ASSUME Types, Meeting, NEW cid \in Cids, PeerJoins(cid)
    PROVE  Meeting'
<1>1. /\ call' = call
      /\ sfu'.meeting = sfu.meeting \cup {cid} /\ sfu'.left = sfu.left
      /\ sfu'.joined = sfu.joined /\ sfu'.ghosts = sfu.ghosts
      /\ cid \notin sfu.meeting /\ cid \notin sfu.left
      /\ sfu.joined => \A cmd, z : Tells(sfu'.inbox, cmd, z) <=>
             Tells(sfu.inbox, cmd, z) \/ (cmd = "PEERJOIN" /\ z = cid)
      /\ ~sfu.joined => sfu'.inbox = sfu.inbox
      /\ AnswerDue(sfu'.inbox) => AnswerDue(sfu.inbox)
  BY PeerJoinsTypes
<1>2. \A z : Going(sfu', z) <=> Going(sfu, z)
  BY <1>1 DEF Going
<1>3. Once(call', sfu')
  BY <1>1, <1>2 DEF Meeting, Once
<1>4. UnderWay(call')
  BY <1>1 DEF Meeting
<1>5. Told(call', sfu')
  <2> SUFFICES ASSUME sfu.joined, Alive(call) PROVE Told(call', sfu')
    BY <1>1 DEF Told
  <2>1. InCall(call)
    BY DEF Meeting, Told
  <2>2. ASSUME ~call.stale, NEW z
        PROVE  z \in sfu'.meeting <=> Expected(call', sfu', z) /\ ~Going(sfu', z)
    <3>1. z \in sfu.meeting <=> Expected(call, sfu, z) /\ ~Going(sfu, z)
      BY <2>2 DEF Meeting, Told
    <3>2. Expected(call', sfu', z) <=> Expected(call, sfu, z) \/ z = cid
      BY <1>1 DEF Expected
    <3>3. ~Going(sfu, cid)
      BY <1>1 DEF Meeting, Once
    <3>4. QED
      BY <1>1, <1>2, <3>1, <3>2, <3>3
  <2>3. ASSUME ~call.stale, NEW z \in DOMAIN call.mSessions
        PROVE  z \in sfu'.ghosts \/ Expected(call', sfu', z)
    <3>1. z \in sfu.ghosts \/ Expected(call, sfu, z)
      BY <2>3 DEF Meeting, Told
    <3>2. QED
      BY <1>1, <3>1 DEF Expected
  <2>4. ASSUME ~call.stale, call.mState = "InProgress"
        PROVE  ~AnswerDue(sfu'.inbox) /\ \A a \in call.answers : a.round # call.round
    BY <1>1, <2>4 DEF Meeting, Told
  <2>5. QED
    BY <1>1, <2>1, <2>2, <2>3, <2>4 DEF Told
<1>6. QED
  BY <1>3, <1>4, <1>5 DEF Meeting

LEMMA PeerLeavesMeeting ==
    ASSUME Types, Meeting, NEW cid \in Cids, PeerLeaves(cid)
    PROVE  Meeting'
<1>1. /\ call' = call
      /\ sfu'.meeting = sfu.meeting \ {cid} /\ sfu'.left = sfu.left \cup {cid}
      /\ sfu'.joined = sfu.joined /\ sfu'.ghosts = sfu.ghosts
      /\ cid \in sfu.meeting
      /\ sfu.joined => \A cmd, z : Tells(sfu'.inbox, cmd, z) <=>
             Tells(sfu.inbox, cmd, z) \/ (cmd = "PEERLEFT" /\ z = cid)
      /\ ~sfu.joined => sfu'.inbox = sfu.inbox
      /\ AnswerDue(sfu'.inbox) => AnswerDue(sfu.inbox)
  BY PeerLeavesTypes
<1>2. \A z : Going(sfu', z) => Going(sfu, z) \/ z = cid
  BY <1>1 DEF Going
<1>3. Once(call', sfu')
  BY <1>1, <1>2 DEF Meeting, Once
<1>4. UnderWay(call')
  BY <1>1 DEF Meeting
<1>5. Told(call', sfu')
  <2> SUFFICES ASSUME sfu.joined, Alive(call) PROVE Told(call', sfu')
    BY <1>1 DEF Told
  <2>1. InCall(call)
    BY DEF Meeting, Told
  <2>2. ASSUME ~call.stale, NEW z
        PROVE  z \in sfu'.meeting <=> Expected(call', sfu', z) /\ ~Going(sfu', z)
    <3>1. z \in sfu.meeting <=> Expected(call, sfu, z) /\ ~Going(sfu, z)
      BY <2>2 DEF Meeting, Told
    <3>2. Expected(call', sfu', z) <=> Expected(call, sfu, z)
      BY <1>1 DEF Expected
    <3>3. Going(sfu', z) <=> Going(sfu, z) \/ z = cid
      BY <1>1 DEF Going
    <3>4. QED
      BY <1>1, <3>1, <3>2, <3>3
  <2>3. ASSUME ~call.stale, NEW z \in DOMAIN call.mSessions
        PROVE  z \in sfu'.ghosts \/ Expected(call', sfu', z)
    <3>1. z \in sfu.ghosts \/ Expected(call, sfu, z)
      BY <2>3 DEF Meeting, Told
    <3>2. QED
      BY <1>1, <3>1 DEF Expected
  <2>4. ASSUME ~call.stale, call.mState = "InProgress"
        PROVE  ~AnswerDue(sfu'.inbox) /\ \A a \in call.answers : a.round # call.round
    BY <1>1, <2>4 DEF Meeting, Told
  <2>5. QED
    BY <1>1, <2>1, <2>2, <2>3, <2>4 DEF Told
<1>6. QED
  BY <1>3, <1>4, <1>5 DEF Meeting

LEMMA NoAnswerLeft ==
    ASSUME NEW box, BoxOk(box), ~AnswerDue(box), NEW cid
    PROVE  ~Tells(box, "ANSWER", cid)
<1> SUFFICES ASSUME NEW i \in DOMAIN box, box[i].cmd = "ANSWER" PROVE FALSE
  BY DEF Tells
<1>1. i = 1
  BY DEF BoxOk
<1>2. box # <<>>
  BY EmptySeq
<1>3. QED
  BY <1>1, <1>2 DEF AnswerDue

\* What is left in the inbox once the command is handled.
Taken(s, t) ==
    /\ t.meeting = s.meeting /\ t.left = s.left /\ t.joined = s.joined /\ t.ghosts = s.ghosts
    /\ t.inbox = Tail(s.inbox) /\ ~AnswerDue(t.inbox)
    /\ \A cid : ~Tells(t.inbox, "ANSWER", cid)
    /\ \A cmd, cid : Tells(s.inbox, cmd, cid) <=>
           (Head(s.inbox).cmd = cmd /\ cid \in Head(s.inbox).peers) \/ Tells(t.inbox, cmd, cid)
    /\ \A cid \in Head(s.inbox).peers : ~Tells(t.inbox, "PEERJOIN", cid)

LEMMA InboxTaken ==
    ASSUME Types, sfu.inbox # <<>>, sfu' = [sfu EXCEPT !.inbox = Tail(sfu.inbox)]
    PROVE  Taken(sfu, sfu') /\ sfu.joined
<1>1. BoxOk(sfu.inbox) /\ sfu \in Sfus /\ sfu.joined
  BY DEF Types
<1>2. /\ sfu'.inbox = Tail(sfu.inbox) /\ sfu'.meeting = sfu.meeting
      /\ sfu'.left = sfu.left /\ sfu'.joined = sfu.joined /\ sfu'.ghosts = sfu.ghosts
  BY <1>1 DEF Sfus
<1>3. /\ BoxOk(Tail(sfu.inbox)) /\ ~AnswerDue(Tail(sfu.inbox))
      /\ \A cmd, cid : Tells(sfu.inbox, cmd, cid) <=>
             \/ Head(sfu.inbox).cmd = cmd /\ cid \in Head(sfu.inbox).peers
             \/ Tells(Tail(sfu.inbox), cmd, cid)
      /\ \A cid \in Head(sfu.inbox).peers : ~Tells(Tail(sfu.inbox), "PEERJOIN", cid)
  BY <1>1, BoxTail
<1>4. \A cid : ~Tells(sfu'.inbox, "ANSWER", cid)
  BY <1>2, <1>3, NoAnswerLeft
<1>5. /\ ~AnswerDue(sfu'.inbox)
      /\ \A cid \in Head(sfu.inbox).peers : ~Tells(sfu'.inbox, "PEERJOIN", cid)
  BY <1>2, <1>3
<1>6. \A cmd, cid : Tells(sfu.inbox, cmd, cid) <=>
         \/ Head(sfu.inbox).cmd = cmd /\ cid \in Head(sfu.inbox).peers
         \/ Tells(sfu'.inbox, cmd, cid)
  BY <1>2, <1>3
<1>. HIDE <1>3
<1>7. QED
  BY <1>1, <1>2, <1>4, <1>5, <1>6, Zenon DEF Taken

LEMMA AnsweredMeeting ==
    ASSUME NEW c \in Calls, NEW d \in Calls, NEW s, NEW t, NEW k, NEW l,
           Once(c, s), UnderWay(c), Told(c, s), Taken(s, t), s.joined, Alive(c),
           \A cid \in Head(s.inbox).peers : cid \in s.meeting \cup s.left,
           Head(s.inbox).cmd = "ANSWER", c.mState = "Joining",
           Answered(c, d, k, l, Head(s.inbox).peers)
    PROVE  Once(d, t) /\ UnderWay(d) /\ Told(d, t)
<1> DEFINE peers == Head(s.inbox).peers
<1>1. Announced(c, d, peers, TRUE) /\ SameRound(c, d)
  BY DEF Answered
<1>2. PICK n \in Answers :
         /\ n.round = c.round /\ n.stage = "keys"
         /\ peers # {} => /\ d.mState = c.mState /\ d.stale = c.stale
                          /\ d.answers = c.answers \cup {n}
         /\ peers = {} => Concluded(c, d, k, l, n)
  BY DEF Answered
<1>3. /\ d.mState = c.mState \/ ~Alive(d)
      /\ d.stale = c.stale
  <2>1. c.stale \in BOOLEAN
    BY DEF Calls
  <2>2. QED
    BY <1>2, <2>1 DEF Concluded, Alive
<1>4. \A a \in d.answers : a.stage = "sdp" => a \in c.answers \/ a.round = c.round
  <2>1. [n EXCEPT !.stage = "sdp"].round = c.round
    BY <1>2 DEF Answers
  <2>2. QED
    BY <1>2, <2>1 DEF Concluded
<1>5. \A cid : Expected(d, t, cid) <=> Expected(c, s, cid)
  BY <1>1 DEF Expected, Taken, Announced
<1>6. \A cid : Going(t, cid) <=> Going(s, cid)
  BY DEF Going, Taken
<1>7. d.mSessions = c.mSessions /\ d.round = c.round
  BY <1>1 DEF Announced, SameRound
<1>8. Once(d, t)
  BY <1>1, <1>6, <1>7 DEF Once, Taken, Announced
<1>9. UnderWay(d)
  <2>1. ASSUME NEW cid, Pending(d, cid) PROVE \E check \in d.checks : check.cid = cid
    <3>1. CASE cid \in peers
      <4> DEFINE check == [cid |-> cid, round |-> c.round, answer |-> TRUE]
      <4>1. check \in d.checks /\ check.cid = cid
        BY <1>1, <3>1 DEF Announced
      <4>2. QED
        BY <4>1
    <3>2. CASE cid \notin peers
      <4>1. Pending(c, cid)
        BY <1>1, <2>1, <3>2 DEF Announced, Pending
      <4>2. QED
        BY <1>1, <4>1 DEF Announced, UnderWay
    <3>3. QED
      BY <3>1, <3>2
  <2>2. QED
    BY <1>3, <1>4, <1>7, <2>1 DEF UnderWay
<1>10. Told(d, t)
  <2> SUFFICES ASSUME Alive(d) PROVE Told(d, t)
    BY DEF Told
  <2>1. d.mState = "Joining" /\ InCall(d) /\ t.joined
    BY <1>3 DEF InCall, Taken
  <2>2. ~c.stale => \A cid : cid \in s.meeting <=> Expected(c, s, cid) /\ ~Going(s, cid)
    BY DEF Told
  <2>3. ~c.stale => \A cid \in DOMAIN c.mSessions : cid \in s.ghosts \/ Expected(c, s, cid)
    BY DEF Told
  <2>4. t.meeting = s.meeting /\ t.ghosts = s.ghosts
    BY DEF Taken
  <2>5. QED
    BY <1>3, <1>5, <1>6, <1>7, <2>1, <2>2, <2>3, <2>4 DEF Told
<1>11. QED
  BY <1>8, <1>9, <1>10

LEMMA PeerJoinMeeting ==
    ASSUME NEW c \in Calls, NEW d \in Calls, NEW s, NEW t, NEW cid,
           Once(c, s), UnderWay(c), Told(c, s), Taken(s, t), s.joined, Alive(c),
           cid \in s.meeting \cup s.left,
           Head(s.inbox).cmd = "PEERJOIN", Head(s.inbox).peers = {cid},
           ~InCall(c) \/ cid \in DOMAIN c.mPeersVerification => d = c,
           InCall(c) /\ cid \notin DOMAIN c.mPeersVerification =>
               Announced(c, d, {cid}, FALSE) /\ SameAnswers(c, d) /\ SameRound(c, d)
    PROVE  Once(d, t) /\ UnderWay(d) /\ Told(d, t)
<1>1. InCall(c)
  BY DEF Told
<1>2. /\ d.mSessions = c.mSessions /\ SameAnswers(c, d) /\ SameRound(c, d)
      /\ \A z : z \in DOMAIN d.mPeersVerification <=>
             z \in DOMAIN c.mPeersVerification \/ z = cid
  <2>1. CASE cid \in DOMAIN c.mPeersVerification
    BY <2>1 DEF SameAnswers, SameRound
  <2>2. CASE cid \notin DOMAIN c.mPeersVerification
    BY <1>1, <2>2 DEF Announced
  <2>3. QED
    BY <2>1, <2>2
<1>3. \A z : Expected(d, t, z) <=> Expected(c, s, z)
  BY <1>2 DEF Expected, Taken
<1>4. \A z : Going(t, z) <=> Going(s, z)
  BY DEF Going, Taken
<1>5. Once(d, t)
  BY <1>2, <1>4 DEF Once, Taken
<1>6. UnderWay(d)
  <2>1. ASSUME NEW z, Pending(d, z) PROVE \E check \in d.checks : check.cid = z
    <3>1. CASE cid \in DOMAIN c.mPeersVerification
      BY <2>1, <3>1 DEF UnderWay
    <3>2. CASE cid \notin DOMAIN c.mPeersVerification /\ z = cid
      <4> DEFINE check == [cid |-> cid, round |-> c.round, answer |-> FALSE]
      <4>1. check \in d.checks /\ check.cid = cid
        BY <1>1, <3>2 DEF Announced
      <4>2. QED
        BY <3>2, <4>1
    <3>3. CASE cid \notin DOMAIN c.mPeersVerification /\ z # cid
      <4>1. Pending(c, z)
        BY <1>1, <2>1, <3>3 DEF Announced, Pending
      <4>2. c.checks \subseteq d.checks
        BY <1>1, <3>3 DEF Announced
      <4>3. QED
        BY <4>1, <4>2 DEF UnderWay
    <3>4. QED
      BY <3>1, <3>2, <3>3
  <2>2. QED
    BY <1>2, <2>1 DEF UnderWay, SameAnswers, SameRound
<1>7. Told(d, t)
  <2>1. InCall(d) /\ d.stale = c.stale /\ d.answers = c.answers /\ d.round = c.round
        /\ d.mState = c.mState
    BY <1>1, <1>2 DEF InCall, SameAnswers, SameRound
  <2>2. ~c.stale =>
          /\ \A z : z \in s.meeting <=> Expected(c, s, z) /\ ~Going(s, z)
          /\ \A z \in DOMAIN c.mSessions : z \in s.ghosts \/ Expected(c, s, z)
          /\ c.mState = "InProgress" => \A a \in c.answers : a.round # c.round
    BY DEF Told
  <2>3. t.meeting = s.meeting /\ t.ghosts = s.ghosts /\ ~AnswerDue(t.inbox)
    BY DEF Taken
  <2>4. QED
    BY <1>2, <1>3, <1>4, <2>1, <2>2, <2>3 DEF Told
<1>8. QED
  BY <1>5, <1>6, <1>7

LEMMA PeerLeftMeeting ==
    ASSUME NEW c \in Calls, NEW d \in Calls, NEW s, NEW t, NEW cid,
           Once(c, s), UnderWay(c), Told(c, s), Taken(s, t), s.joined, Alive(c),
           Head(s.inbox).cmd = "PEERLEFT", Head(s.inbox).peers = {cid},
           ~InCall(c) => d = c, InCall(c) => Forgotten(c, d, cid)
    PROVE  Once(d, t) /\ UnderWay(d) /\ Told(d, t)
<1>1. InCall(c) /\ Forgotten(c, d, cid)
  BY DEF Told
<1>2. SameAnswers(c, d) /\ SameRound(c, d)
  BY <1>1 DEF Forgotten
<1>3. \A z : Expected(d, t, z) <=> Expected(c, s, z) /\ z # cid
  <2>1. ~Expected(d, t, cid)
    BY <1>1 DEF Expected, Taken, Forgotten
  <2>2. ASSUME NEW z, z # cid PROVE Expected(d, t, z) <=> Expected(c, s, z)
    BY <1>1, <2>2 DEF Expected, Taken, Forgotten
  <2>3. QED
    BY <2>1, <2>2
<1>4. \A z : Going(s, z) <=> Going(t, z) \/ z = cid
  BY DEF Going, Taken
<1>5. cid \notin s.meeting
  BY <1>4 DEF Once
<1>6. Once(d, t)
  BY <1>1, <1>4 DEF Once, Taken, Forgotten
<1>7. UnderWay(d)
  <2>1. ASSUME NEW z, Pending(d, z) PROVE \E check \in d.checks : check.cid = z
    <3>1. Pending(c, z)
      BY <1>1, <2>1 DEF Forgotten, Pending
    <3>2. d.checks = c.checks
      BY <1>1 DEF Forgotten
    <3>3. QED
      BY <3>1, <3>2 DEF UnderWay
  <2>2. QED
    BY <1>2, <2>1 DEF UnderWay, SameAnswers, SameRound
<1>8. Told(d, t)
  <2>1. InCall(d) /\ d.stale = c.stale /\ d.answers = c.answers /\ d.round = c.round
        /\ d.mState = c.mState
    BY <1>1, <1>2 DEF InCall, SameAnswers, SameRound
  <2>2. ~c.stale =>
          /\ \A z : z \in s.meeting <=> Expected(c, s, z) /\ ~Going(s, z)
          /\ \A z \in DOMAIN c.mSessions : z \in s.ghosts \/ Expected(c, s, z)
          /\ c.mState = "InProgress" => \A a \in c.answers : a.round # c.round
    BY DEF Told
  <2>3. t.meeting = s.meeting /\ t.ghosts = s.ghosts /\ ~AnswerDue(t.inbox)
    BY DEF Taken
  <2>4. \A z \in DOMAIN d.mSessions : z \in DOMAIN c.mSessions /\ z # cid
    BY <1>1 DEF Forgotten
  <2>5. ~c.stale => \A z : z \in t.meeting <=> Expected(d, t, z) /\ ~Going(t, z)
    BY <1>3, <1>4, <1>5, <2>2, <2>3
  <2>6. ~c.stale => \A z \in DOMAIN d.mSessions : z \in t.ghosts \/ Expected(d, t, z)
    BY <1>3, <2>2, <2>3, <2>4
  <2>7. QED
    BY <2>1, <2>2, <2>3, <2>5, <2>6 DEF Told
<1>9. QED
  BY <1>6, <1>7, <1>8

LEMMA HandleCommandMeeting ==
    ASSUME Types, Meeting, HandleCommand
    PROVE  Meeting'
<1>. Handles
  BY HandleCommandDoes
<1>1. /\ call \in Calls /\ call' \in Calls /\ sfu.inbox # <<>> /\ Alive(call)
      /\ sfu' = [sfu EXCEPT !.inbox = Tail(sfu.inbox)]
  BY DEF Handles, Types, Live, Alive
<1>2. Taken(sfu, sfu') /\ sfu.joined
  BY <1>1, InboxTaken
<1>3. Once(call, sfu) /\ UnderWay(call) /\ Told(call, sfu)
  BY DEF Meeting
<1>4. \A cid \in Head(sfu.inbox).peers : cid \in sfu.meeting \cup sfu.left
  <2>1. Known(sfu)
    BY DEF Types
  <2>2. \A cid \in Head(sfu.inbox).peers : Tells(sfu.inbox, Head(sfu.inbox).cmd, cid)
    BY <1>2 DEF Taken
  <2>3. QED
    BY <2>1, <2>2 DEF Known
<1>5. CASE /\ Head(sfu.inbox).cmd = "ANSWER"
           /\ call.mState # "Joining" => call' = call /\ keys' = keys
           /\ call.mState = "Joining" =>
                  Answered(call, call', keys, keys', Head(sfu.inbox).peers)
  <2>1. CASE call.mState = "Joining"
    BY <1>1, <1>2, <1>3, <1>4, <1>5, <2>1, AnsweredMeeting DEF Meeting
  <2>2. CASE call.mState # "Joining"
    <3>1. call' = call
      BY <1>5, <2>2
    <3>2. AnswerDue(sfu.inbox)
      BY <1>1, <1>5, BoxTail DEF AnswerDue, Types
    <3>3. InCall(call) /\ call.stale
      BY <1>1, <1>2, <1>3, <2>2, <3>2 DEF Told, InCall
    <3>4. \A z : Going(sfu', z) <=> Going(sfu, z)
      BY <1>2, <1>5 DEF Going, Taken
    <3>5. Once(call', sfu')
      BY <1>2, <1>3, <3>1, <3>4 DEF Once, Taken
    <3>6. QED
      BY <1>3, <3>1, <3>3, <3>5 DEF Meeting, Told
  <2>3. QED
    BY <2>1, <2>2
<1>6. CASE /\ Head(sfu.inbox).cmd = "PEERJOIN"
           /\ \E cid \in Cids :
               /\ Head(sfu.inbox).peers = {cid}
               /\ ~InCall(call) \/ cid \in DOMAIN call.mPeersVerification => call' = call
               /\ InCall(call) /\ cid \notin DOMAIN call.mPeersVerification =>
                      /\ Announced(call, call', {cid}, FALSE)
                      /\ SameAnswers(call, call') /\ SameRound(call, call')
  <2>1. PICK cid \in Cids :
               /\ Head(sfu.inbox).peers = {cid}
               /\ ~InCall(call) \/ cid \in DOMAIN call.mPeersVerification => call' = call
               /\ InCall(call) /\ cid \notin DOMAIN call.mPeersVerification =>
                      /\ Announced(call, call', {cid}, FALSE)
                      /\ SameAnswers(call, call') /\ SameRound(call, call')
    BY <1>6
  <2>2. cid \in sfu.meeting \cup sfu.left
    BY <1>4, <2>1
  <2>3. QED
    BY <1>1, <1>2, <1>3, <1>6, <2>1, <2>2, PeerJoinMeeting DEF Meeting
<1>7. CASE /\ Head(sfu.inbox).cmd = "PEERLEFT"
           /\ \E cid \in Cids : /\ Head(sfu.inbox).peers = {cid}
                                /\ ~InCall(call) => call' = call
                                /\ InCall(call) => Forgotten(call, call', cid)
  BY <1>1, <1>2, <1>3, <1>7, PeerLeftMeeting DEF Meeting
<1>8. QED
  BY <1>5, <1>6, <1>7 DEF Handles

\* What a verification does to the state of the call and to the answers
LEMMA VerifiedAnswers ==
    ASSUME Types, NEW check \in call.checks, NEW ok \in BOOLEAN, Verifies(check, ok)
    PROVE  /\ call'.mState = call.mState \/ ~Alive(call')
           /\ ~call'.stale => ~call.stale
           /\ \A e \in call'.answers : \E b \in call.answers : b.round = e.round
           /\ ~call'.stale => \A e \in call'.answers :
                  e.stage = "sdp" => e \in call.answers \/ e.round = call.round
<1>1. CASE ~check.answer
  BY <1>1 DEF Verifies, SameAnswers
<1>2. CASE check.answer
  <2>1. PICK a \in call.answers : a.left # 0 /\ Counted(call, call', keys, keys', a, ok)
    BY <1>2 DEF Verifies
  <2> DEFINE n == [a EXCEPT !.left = @ - 1, !.any = @ \/ ok]
             b == [n EXCEPT !.stage = "sdp"]
  <2>2. a \in Answers /\ call.stale \in BOOLEAN
    BY DEF Types, Calls
  <2>3. n.round = a.round /\ b.round = a.round /\ n.stage = a.stage
    BY <2>2 DEF Answers
  <2>4. n.stage # "sdp"
    BY <2>1, <2>3 DEF Types, CallOk
  <2>5. /\ n.left # 0 => /\ call'.mState = call.mState /\ call'.stale = call.stale
                         /\ call'.answers = (call.answers \ {a}) \cup {n}
        /\ n.left = 0 => Concluded(call, call', keys, keys', n)
    BY <2>1 DEF Counted
  <2>. HIDE DEF n
  <2>6. CASE n.left # 0
    BY <2>3, <2>4, <2>5, <2>6
  <2>7. CASE n.left = 0
    <3>1. CASE ~Alive(call') /\ call'.stale = call.stale /\ call'.answers \subseteq call.answers
      BY <3>1
    <3>2. CASE /\ call'.mState = call.mState
               /\ call'.stale = (call.stale \/ n.round # call.round)
               /\ call'.answers = {e \in call.answers : e.round # n.round} \cup {b}
      <4>. HIDE DEF b
      <4>1. QED
        BY <2>2, <2>3, <3>2
    <3>3. QED
      BY <2>5, <2>7, <3>1, <3>2 DEF Concluded, Alive
  <2>8. QED
    BY <2>6, <2>7
<1>3. QED
  BY <1>1, <1>2

LEMMA VerifiedMeeting ==
    ASSUME Types, Meeting, NEW check \in call.checks, NEW ok \in BOOLEAN, Verified(check, ok)
    PROVE  Meeting'
<1>. Verifies(check, ok)
  BY VerifiedDoes
<1>1. /\ Once(call, sfu) /\ UnderWay(call) /\ Told(call, sfu) /\ Alive(call) /\ sfu' = sfu
      /\ Added(call, call', check.cid, ok) /\ call'.round = call.round
      /\ call'.checks = call.checks \ {check}
  BY DEF Meeting, Verified, Live, Alive, Verifies, SameRound
<1>2. /\ call'.mState = call.mState \/ ~Alive(call')
      /\ ~call'.stale => ~call.stale
      /\ \A e \in call'.answers : \E b \in call.answers : b.round = e.round
      /\ ~call'.stale => \A e \in call'.answers :
             e.stage = "sdp" => e \in call.answers \/ e.round = call.round
  BY VerifiedAnswers
<1>3. \A z : z \in DOMAIN call'.mPeersVerification <=> z \in DOMAIN call.mPeersVerification
  BY <1>1 DEF Added
<1>4. \A z \in DOMAIN call'.mSessions :
         z \in DOMAIN call.mSessions \/ z \in DOMAIN call.mPeersVerification
  BY <1>1 DEF Added, Pending
<1>5. Once(call', sfu')
  BY <1>1, <1>3, <1>4 DEF Once
<1>6. UnderWay(call')
  <2>1. ASSUME NEW z, Pending(call', z) PROVE \E other \in call'.checks : other.cid = z
    <3>1. Pending(call, z) /\ z # check.cid
      <4>1. CASE Pending(call, check.cid)
        BY <1>1, <2>1, <4>1 DEF Added, Pending
      <4>2. CASE ~Pending(call, check.cid)
        BY <1>1, <2>1, <4>2 DEF Added, Pending
      <4>3. QED
        BY <4>1, <4>2
    <3>2. PICK other \in call.checks : other.cid = z
      BY <1>1, <3>1 DEF UnderWay
    <3>3. QED
      BY <1>1, <3>1, <3>2
  <2>2. QED
    BY <1>1, <1>2, <2>1 DEF UnderWay
<1>7. Told(call', sfu')
  <2> SUFFICES ASSUME sfu.joined, Alive(call') PROVE Told(call', sfu')
    BY <1>1 DEF Told
  <2>1. InCall(call') /\ call'.mState = call.mState
    BY <1>1, <1>2 DEF Told, InCall
  <2>2. \A z : Expected(call', sfu', z) <=> Expected(call, sfu, z)
    BY <1>1, <1>3 DEF Expected
  <2>3. \A z \in DOMAIN call.mPeersVerification : Expected(call, sfu, z)
    BY DEF Expected
  <2>4. ASSUME ~call'.stale
        PROVE  /\ \A z : z \in sfu'.meeting <=> Expected(call', sfu', z) /\ ~Going(sfu', z)
               /\ \A z \in DOMAIN call'.mSessions : z \in sfu'.ghosts \/ Expected(call', sfu', z)
    <3>1. /\ \A z : z \in sfu.meeting <=> Expected(call, sfu, z) /\ ~Going(sfu, z)
          /\ \A z \in DOMAIN call.mSessions : z \in sfu.ghosts \/ Expected(call, sfu, z)
      BY <1>1, <1>2, <2>4 DEF Told
    <3>2. QED
      BY <1>1, <1>4, <2>2, <2>3, <3>1
  <2>5. ASSUME ~call'.stale, call'.mState = "InProgress"
        PROVE  ~AnswerDue(sfu'.inbox) /\ \A a \in call'.answers : a.round # call'.round
    <3>1. ~AnswerDue(sfu.inbox) /\ \A a \in call.answers : a.round # call.round
      BY <1>1, <1>2, <2>1, <2>5 DEF Told
    <3>2. QED
      BY <1>1, <1>2, <3>1
  <2>6. QED
    BY <2>1, <2>4, <2>5 DEF Told
<1>8. QED
  BY <1>5, <1>6, <1>7 DEF Meeting

LEMMA DescriptionSetMeeting ==
    ASSUME Types, Meeting, NEW answer \in call.answers, NEW ok \in BOOLEAN,
           DescriptionSet(answer, ok)
    PROVE  Meeting'
<1>1. /\ sfu' = sfu /\ SamePeers(call, call') /\ call'.round = call.round
      /\ call'.stale = call.stale /\ Alive(call)
      /\ call'.answers = call.answers \ {answer} /\ answer.stage = "sdp"
      /\ call'.mState = IF ~ok THEN "Ended"
                        ELSE IF call.mState = "Joining" THEN "InProgress" ELSE call.mState
  BY DescriptionSetTypes DEF SameRound, Live, Alive
<1>2. Once(call, sfu) /\ UnderWay(call) /\ Told(call, sfu)
  BY DEF Meeting
<1>3. Once(call', sfu')
  BY <1>1, <1>2 DEF Once, SamePeers
<1>4. UnderWay(call')
  BY <1>1, <1>2 DEF UnderWay, SamePeers, Pending
<1>5. Told(call', sfu')
  <2> SUFFICES ASSUME sfu.joined, Alive(call') PROVE Told(call', sfu')
    BY <1>1 DEF Told
  <2>1. InCall(call')
    BY <1>1, <1>2 DEF Told, InCall, Alive
  <2>2. \A z : Expected(call', sfu', z) <=> Expected(call, sfu, z)
    BY <1>1 DEF Expected, SamePeers
  <2>3. ~call.stale =>
          /\ \A z : z \in sfu.meeting <=> Expected(call, sfu, z) /\ ~Going(sfu, z)
          /\ \A z \in DOMAIN call.mSessions : z \in sfu.ghosts \/ Expected(call, sfu, z)
    BY <1>1, <1>2 DEF Told
  <2>4. ASSUME ~call.stale
        PROVE  ~AnswerDue(sfu.inbox) /\ \A a \in call'.answers : a.round # call.round
    <3>1. answer.round = call.round
      BY <1>1, <1>2, <2>4 DEF UnderWay
    <3>2. ~AnswerDue(sfu.inbox)
      BY <3>1 DEF Types, DueOk
    <3>3. \A a \in call.answers : a.round = call.round => a = answer
      BY <3>1 DEF Types, CallOk
    <3>4. QED
      BY <1>1, <3>2, <3>3
  <2>5. call'.mSessions = call.mSessions
    BY <1>1 DEF SamePeers
  <2>6. QED
    BY <1>1, <2>1, <2>2, <2>3, <2>4, <2>5 DEF Told
<1>6. QED
  BY <1>3, <1>4, <1>5 DEF Meeting

LEMMA LoseSfuMeeting ==
    ASSUME Types, Meeting, NEW why \in {"socket", "media", "chatd"}, LoseSfu(why)
    PROVE  Meeting'
<1>1. /\ ~sfu'.joined /\ sfu'.inbox = <<>> /\ sfu'.meeting = sfu.meeting
      /\ sfu'.left = sfu.left /\ sfu'.ghosts = sfu.ghosts
      /\ call'.checks = call.checks /\ call'.answers = call.answers
      /\ call'.round = call.round /\ call'.stale = call.stale
      /\ \/ call'.mSessions = Empty /\ call'.mPeersVerification = Empty
         \/ /\ call'.mSessions = call.mSessions
            /\ call'.mPeersVerification = call.mPeersVerification
  BY LoseSfuTypes
<1>2. DOMAIN Empty = {} /\ \A z : ~Going(sfu', z)
  BY <1>1, EmptyPartial, EmptyBox DEF Going
<1>3. Once(call, sfu) /\ UnderWay(call)
  BY DEF Meeting
<1>4. Once(call', sfu')
  BY <1>1, <1>2, <1>3 DEF Once
<1>5. UnderWay(call')
  BY <1>1, <1>2, <1>3 DEF UnderWay, Pending
<1>6. Told(call', sfu')
  BY <1>1 DEF Told
<1>7. QED
  BY <1>4, <1>5, <1>6 DEF Meeting

LEMMA JoinSfuMeeting ==
    ASSUME Types, Meeting, JoinSfu
    PROVE  Meeting'
<1>1. /\ sfu'.meeting = sfu.meeting /\ sfu'.left = sfu.left
      /\ \A cid : cid \in sfu'.ghosts <=>
             cid \in DOMAIN call.mSessions /\ cid \notin sfu.meeting
      /\ \A cmd, cid : Tells(sfu'.inbox, cmd, cid) <=> cmd = "ANSWER" /\ cid \in sfu.meeting
      /\ call'.mState = "Joining" /\ call'.mSessions = call.mSessions
      /\ call'.mPeersVerification = Empty
      /\ call'.answers = {a \in call.answers : a.stage = "keys"}
  BY JoinSfuTypes
<1>2. DOMAIN Empty = {}
  BY EmptyPartial
<1>3. \A z : ~Going(sfu', z)
  BY <1>1 DEF Going
<1>4. \A z : Expected(call', sfu', z) <=> z \in sfu.meeting
  BY <1>1, <1>2 DEF Expected
<1>5. Once(call', sfu')
  BY <1>1, <1>2, <1>3 DEF Meeting, Once
<1>6. UnderWay(call')
  BY <1>1, <1>2 DEF UnderWay, Pending
<1>7. Told(call', sfu')
  BY <1>1, <1>3, <1>4 DEF Told, InCall
<1>8. QED
  BY <1>5, <1>6, <1>7 DEF Meeting

LEMMA NextMeeting == Types /\ Meeting /\ [Next]_vars => Meeting'
<1> SUFFICES ASSUME Types, Meeting, [Next]_vars PROVE Meeting'
  OBVIOUS
<1>1. CASE UNCHANGED <<call, sfu>>
  BY <1>1 DEF Meeting
<1>2. CASE \E cid \in Cids : PeerJoins(cid) \/ PeerLeaves(cid)
  BY <1>2, PeerJoinsMeeting, PeerLeavesMeeting
<1>3. CASE HandleCommand
  BY <1>3, HandleCommandMeeting
<1>4. CASE \E check \in call.checks, ok \in BOOLEAN : Verified(check, ok)
  BY <1>4, VerifiedMeeting
<1>5. CASE \E answer \in call.answers, ok \in BOOLEAN : DescriptionSet(answer, ok)
  BY <1>5, DescriptionSetMeeting
<1>6. CASE \E rotation \in keys.rotations : SendKey(rotation)
  BY <1>1, <1>6 DEF SendKey
<1>7. CASE UseKey \/ EncryptFrame
  BY <1>1, <1>7 DEF UseKey, EncryptFrame
<1>8. CASE \E why \in {"socket", "media", "chatd"} : LoseSfu(why)
  BY <1>8, LoseSfuMeeting
<1>9. CASE JoinSfu
  BY <1>9, JoinSfuMeeting
<1>10. CASE UNCHANGED vars
  BY <1>1, <1>10 DEF vars
<1>11. QED
  BY <1>2, <1>3, <1>4, <1>5, <1>6, <1>7, <1>8, <1>9, <1>10 DEF Next

\* Always, what our client has and what it will be told add up to the meeting.
THEOREM AlwaysMeeting == Spec => [](Types /\ Meeting)
<1>1. Init => Types /\ Meeting
  BY InitTypes, InitMeeting
<1>2. Types /\ Meeting /\ [Next]_vars => (Types /\ Meeting)'
  BY NextTypes, NextMeeting
<1>3. QED
  BY <1>1, <1>2, PTL DEF Spec

LEMMA MeetingImplies == Types /\ Meeting => SessionsMatchMeeting
<1> SUFFICES ASSUME Types, Meeting, Settled, ~call.stale, NEW z
             PROVE  z \in DOMAIN call.mSessions \ sfu.ghosts <=> z \in sfu.meeting
  BY DEF SessionsMatchMeeting
<1>1. sfu.joined /\ Alive(call) /\ sfu.inbox = <<>> /\ call.checks = {}
  BY DEF Settled, Alive
<1>2. /\ z \in sfu.meeting <=> Expected(call, sfu, z) /\ ~Going(sfu, z)
      /\ z \in DOMAIN call.mSessions => z \in sfu.ghosts \/ Expected(call, sfu, z)
  BY <1>1 DEF Meeting, Told
<1>3. ~Going(sfu, z) /\ (Expected(call, sfu, z) <=> z \in DOMAIN call.mPeersVerification)
  BY <1>1, EmptyBox DEF Going, Expected
<1>4. z \in DOMAIN call.mPeersVerification => z \in DOMAIN call.mSessions
  <2>1. ~Pending(call, z)
    BY <1>1 DEF Meeting, UnderWay
  <2>2. QED
    BY <2>1 DEF Pending, Types, CallOk
<1>5. z \in sfu.meeting => z \notin sfu.ghosts
  BY DEF Meeting, Once
<1>6. QED
  BY <1>2, <1>3, <1>4, <1>5

\* Once everything is handled there is a session for each client in the meeting and for no
\* other, the ghosts of a connection before apart, whichever verifications ended after a
\* PEERLEFT or on another connection.
THEOREM SessionsMatchMeetingHolds == Spec => []SessionsMatchMeeting
<1>1. QED
  BY AlwaysMeeting, MeetingImplies, PTL

-----------------------------------------------------------------------------
(* The third layer: who has been sent the newest key *)

Holds(k, cid, id, key) == id \in DOMAIN k.got[cid] /\ k.got[cid][id] = key

\* The newest key is the last of those that wait to be used, or the one in use.
HasNewest(k, cid) ==
    /\ k.timers # <<>> =>
           Holds(k, cid, k.timers[Len(k.timers)].id, k.timers[Len(k.timers)].key)
    /\ k.timers = <<>> =>
           /\ k.mCurrentkeyId \in DOMAIN k.mKeyMap
           /\ Holds(k, cid, k.mCurrentkeyId, k.mKeyMap[k.mCurrentkeyId])

\* An ANSWER of this call has been concluded, on this connection or on another.
InUse(c, s) ==
    /\ s.joined /\ Alive(c)
    /\ c.mState = "InProgress" \/ \E a \in c.answers : a.stage = "sdp"

\* A key is going to be sent to everyone.
KeyToCome(c, k) == k.rotations # {} \/ \E a \in c.answers : a.stage = "keys"

Converging ==
    InUse(call, sfu) /\ ~KeyToCome(call, keys) =>
        \A cid \in Cids : Reached(call, sfu, cid) => HasNewest(keys, cid)

\* No peer is reached that was not before, and no peer that is has lost a key.
LEMMA StillConverging ==
    ASSUME Converging, keys'.mCurrentkeyId = keys.mCurrentkeyId,
           keys'.mKeyMap = keys.mKeyMap, keys'.timers = keys.timers,
           InUse(call', sfu') => InUse(call, sfu),
           KeyToCome(call, keys) => KeyToCome(call', keys'),
           \A cid \in Cids : Reached(call', sfu', cid) =>
               Reached(call, sfu, cid) /\ keys'.got[cid] = keys.got[cid]
    PROVE  Converging'
<1> SUFFICES ASSUME InUse(call', sfu'), ~KeyToCome(call', keys'), NEW cid \in Cids,
                    Reached(call', sfu', cid)
             PROVE  HasNewest(keys', cid)
  BY DEF Converging
<1>1. HasNewest(keys, cid) /\ keys'.got[cid] = keys.got[cid]
  BY DEF Converging
<1>2. QED
  BY <1>1 DEF HasNewest, Holds

LEMMA PeerJoinsConverging ==
    ASSUME Types, Meeting, Converging, NEW cid \in Cids, PeerJoins(cid)
    PROVE  Converging'
<1>1. /\ call' = call /\ keys' = keys /\ sfu'.meeting = sfu.meeting \cup {cid}
      /\ sfu'.joined = sfu.joined /\ cid \notin sfu.meeting /\ cid \notin sfu.left
  BY PeerJoinsTypes
<1>2. cid \notin DOMAIN call.mSessions
  BY <1>1 DEF Meeting, Once
<1>3. \A z : Reached(call', sfu', z) => Reached(call, sfu, z)
  BY <1>1, <1>2 DEF Reached
<1>4. InUse(call', sfu') => InUse(call, sfu)
  BY <1>1 DEF InUse
<1>5. QED
  BY <1>1, <1>3, <1>4, StillConverging

LEMMA PeerLeavesConverging ==
    ASSUME Types, Meeting, Converging, NEW cid \in Cids, PeerLeaves(cid)
    PROVE  Converging'
<1>1. /\ call' = call /\ keys' = [keys EXCEPT !.got[cid] = Empty] /\ keys \in KeySets
      /\ sfu'.meeting = sfu.meeting \ {cid} /\ sfu'.joined = sfu.joined
  BY PeerLeavesTypes DEF Types
<1>2. /\ keys'.mCurrentkeyId = keys.mCurrentkeyId /\ keys'.mKeyMap = keys.mKeyMap
      /\ keys'.timers = keys.timers /\ keys'.rotations = keys.rotations
      /\ \A z \in Cids : z # cid => keys'.got[z] = keys.got[z]
  BY <1>1 DEF KeySets
<1>3. \A z \in Cids : Reached(call', sfu', z) => Reached(call, sfu, z) /\ keys'.got[z] = keys.got[z]
  BY <1>1, <1>2 DEF Reached
<1>4. InUse(call', sfu') => InUse(call, sfu)
  BY <1>1 DEF InUse
<1>5. KeyToCome(call, keys) => KeyToCome(call', keys')
  BY <1>1, <1>2 DEF KeyToCome
<1>6. QED
  BY <1>2, <1>3, <1>4, <1>5, StillConverging

\* When an ANSWER is concluded a key is to come, or the call has ended.
LEMMA ConcludedConverging ==
    ASSUME NEW n, Concluded(call, call', keys, keys', n)
    PROVE  Converging'
<1>1. ~Alive(call') \/ keys'.rotations # {}
  BY DEF Concluded, Alive, Rotated
<1>2. QED
  BY <1>1 DEF Converging, InUse, KeyToCome

LEMMA HandleCommandConverging ==
    ASSUME Types, Meeting, Converging, HandleCommand
    PROVE  Converging'
<1>. Handles
  BY HandleCommandDoes
<1>1. /\ sfu \in Sfus /\ sfu' = [sfu EXCEPT !.inbox = Tail(sfu.inbox)]
  BY DEF Handles, Types
<1>2. sfu'.meeting = sfu.meeting /\ sfu'.joined = sfu.joined
  BY <1>1 DEF Sfus
<1>3. CASE call' = call /\ keys' = keys
  <2>1. InUse(call', sfu') => InUse(call, sfu)
    BY <1>2, <1>3 DEF InUse
  <2>2. \A z : Reached(call', sfu', z) => Reached(call, sfu, z)
    BY <1>2, <1>3 DEF Reached
  <2>3. QED
    BY <1>3, <2>1, <2>2, StillConverging
<1>4. CASE Answered(call, call', keys, keys', Head(sfu.inbox).peers)
  <2>1. PICK n \in Answers :
           /\ n.stage = "keys"
           /\ Head(sfu.inbox).peers # {} => call'.answers = call.answers \cup {n}
           /\ Head(sfu.inbox).peers = {} => Concluded(call, call', keys, keys', n)
    BY <1>4 DEF Answered
  <2>2. CASE Head(sfu.inbox).peers # {}
    <3>1. n \in call'.answers
      BY <2>1, <2>2
    <3>2. KeyToCome(call', keys')
      BY <2>1, <3>1 DEF KeyToCome
    <3>3. QED
      BY <3>2 DEF Converging
  <2>3. CASE Head(sfu.inbox).peers = {}
    BY <2>1, <2>3, ConcludedConverging
  <2>4. QED
    BY <2>2, <2>3
<1>5. CASE /\ keys' = keys /\ SameAnswers(call, call')
           /\ \A z \in DOMAIN call'.mSessions :
                  z \in DOMAIN call.mSessions /\ call'.mSessions[z] = call.mSessions[z]
  <2>1. InUse(call', sfu') => InUse(call, sfu)
    BY <1>2, <1>5 DEF InUse, SameAnswers, Alive
  <2>2. \A z : Reached(call', sfu', z) => Reached(call, sfu, z)
    BY <1>2, <1>5 DEF Reached
  <2>3. KeyToCome(call, keys) => KeyToCome(call', keys')
    BY <1>5 DEF KeyToCome, SameAnswers
  <2>4. QED
    BY <1>5, <2>1, <2>2, <2>3, StillConverging
<1>6. QED
  <2>1. CASE Head(sfu.inbox).cmd = "ANSWER"
    BY <1>3, <1>4, <2>1 DEF Handles
  <2>2. CASE Head(sfu.inbox).cmd = "PEERJOIN"
    BY <1>3, <1>5, <2>2 DEF Handles, Announced
  <2>3. CASE Head(sfu.inbox).cmd = "PEERLEFT"
    BY <1>3, <1>5, <2>3 DEF Handles, Forgotten
  <2>4. QED
    BY <2>1, <2>2, <2>3 DEF Handles

LEMMA VerifiedConverging ==
    ASSUME Types, NEW check \in call.checks, NEW ok \in BOOLEAN, Verified(check, ok)
    PROVE  Converging'
<1>. Verifies(check, ok)
  BY VerifiedDoes
<1>1. CASE ~check.answer
  <2>1. keys'.rotations # {}
    BY <1>1 DEF Verifies, Rotated
  <2>2. QED
    BY <2>1 DEF Converging, KeyToCome
<1>2. CASE check.answer
  <2>1. PICK a \in call.answers : a.left # 0 /\ Counted(call, call', keys, keys', a, ok)
    BY <1>2 DEF Verifies
  <2> DEFINE n == [a EXCEPT !.left = @ - 1, !.any = @ \/ ok]
  <2>2. a \in Answers
    BY DEF Types, Calls
  <2>3. n.stage = a.stage
    BY <2>2 DEF Answers
  <2>4. a.stage = "keys"
    BY <2>1, <2>2 DEF Types, CallOk, Answers
  <2>5. /\ n.left # 0 => call'.answers = (call.answers \ {a}) \cup {n}
        /\ n.left = 0 => Concluded(call, call', keys, keys', n)
    BY <2>1 DEF Counted
  <2>. HIDE DEF n
  <2>6. CASE n.left # 0
    <3>1. n \in call'.answers
      BY <2>5, <2>6
    <3>2. KeyToCome(call', keys')
      BY <2>3, <2>4, <3>1 DEF KeyToCome
    <3>3. QED
      BY <3>2 DEF Converging
  <2>7. CASE n.left = 0
    BY <2>5, <2>7, ConcludedConverging
  <2>8. QED
    BY <2>6, <2>7
<1>3. QED
  BY <1>1, <1>2

LEMMA DescriptionSetConverging ==
    ASSUME Types, Converging, NEW answer \in call.answers, NEW ok \in BOOLEAN,
           DescriptionSet(answer, ok)
    PROVE  Converging'
<1>1. /\ keys' = keys /\ sfu' = sfu /\ SamePeers(call, call') /\ Alive(call)
      /\ call'.answers = call.answers \ {answer} /\ answer.stage = "sdp"
  BY DescriptionSetTypes DEF Live, Alive
<1>2. InUse(call', sfu') => InUse(call, sfu)
  BY <1>1 DEF InUse
<1>3. \A z : Reached(call', sfu', z) => Reached(call, sfu, z)
  BY <1>1 DEF Reached, SamePeers
<1>4. KeyToCome(call, keys) => KeyToCome(call', keys')
  BY <1>1 DEF KeyToCome
<1>5. QED
  BY <1>1, <1>2, <1>3, <1>4, StillConverging

LEMMA SendKeyConverging ==
    ASSUME Types, NEW r \in keys.rotations, SendKey(r)
    PROVE  Converging'
<1>1. /\ call' = call /\ sfu' = sfu /\ r \in Rotation /\ keys'.timers = Append(keys.timers, r)
      /\ \A cid \in Cids :
             sfu.joined /\ Reached(call, sfu, cid) =>
                 /\ keys'.got[cid][r.id] = r.key
                 /\ \A i : i \in DOMAIN keys'.got[cid] <=> i \in DOMAIN keys.got[cid] \/ i = r.id
  BY SendKeyTypes
<1>2. keys.timers \in Seq(Rotation)
  BY DEF Types, KeySets
<1>3. keys'.timers # <<>> /\ keys'.timers[Len(keys'.timers)] = r
  BY <1>1, <1>2
<1>4. ASSUME NEW cid \in Cids, sfu.joined, Reached(call, sfu, cid) PROVE HasNewest(keys', cid)
  BY <1>1, <1>3, <1>4 DEF HasNewest, Holds
<1>5. QED
  BY <1>1, <1>4 DEF Converging, InUse

LEMMA LastOfTail ==
    ASSUME NEW S, NEW q \in Seq(S), q # <<>>
    PROVE  /\ Tail(q) = <<>> => Len(q) = 1
           /\ Tail(q) # <<>> => Tail(q)[Len(Tail(q))] = q[Len(q)]
<1>1. Tail(q) \in Seq(S) /\ Len(Tail(q)) = Len(q) - 1 /\ Len(q) \in Nat
  BY HeadTailProperties
<1>2. Tail(q) = <<>> <=> Len(Tail(q)) = 0
  BY <1>1, EmptySeq
<1>3. QED
  BY <1>1, <1>2

LEMMA UseKeyConverging ==
    ASSUME Types, Converging, UseKey
    PROVE  Converging'
<1> DEFINE r == Head(keys.timers)
<1>1. /\ call' = call /\ sfu' = sfu /\ keys.timers # <<>>
      /\ keys'.mCurrentkeyId = r.id /\ r.id \in DOMAIN keys'.mKeyMap
      /\ keys'.mKeyMap[r.id] = r.key /\ keys'.rotations = keys.rotations
      /\ keys'.timers = Tail(keys.timers) /\ keys'.got = keys.got
  BY UseKeyTypes
<1>2. keys.timers \in Seq(Rotation)
  BY DEF Types, KeySets
<1>3. keys'.timers # <<>> => keys'.timers[Len(keys'.timers)] = keys.timers[Len(keys.timers)]
  BY <1>1, <1>2, LastOfTail
<1>4. keys'.timers = <<>> => r = keys.timers[Len(keys.timers)]
  <2>1. keys'.timers = <<>> => Len(keys.timers) = 1
    BY <1>1, <1>2, LastOfTail
  <2>2. r = keys.timers[1]
    BY <1>1, <1>2
  <2>. HIDE DEF r
  <2>3. QED
    BY <2>1, <2>2
<1>. HIDE DEF r
<1>5. ASSUME NEW cid, HasNewest(keys, cid) PROVE HasNewest(keys', cid)
  BY <1>1, <1>3, <1>4, <1>5 DEF HasNewest, Holds
<1>6. QED
  BY <1>1, <1>5 DEF Converging, KeyToCome

LEMMA NextConverging == Types /\ Meeting /\ Converging /\ [Next]_vars => Converging'
<1> SUFFICES ASSUME Types, Meeting, Converging, [Next]_vars PROVE Converging'
  OBVIOUS
<1>1. CASE \E cid \in Cids : PeerJoins(cid) \/ PeerLeaves(cid)
  BY <1>1, PeerJoinsConverging, PeerLeavesConverging
<1>2. CASE HandleCommand
  BY <1>2, HandleCommandConverging
<1>3. CASE \E check \in call.checks, ok \in BOOLEAN : Verified(check, ok)
  BY <1>3, VerifiedConverging
<1>4. CASE \E answer \in call.answers, ok \in BOOLEAN : DescriptionSet(answer, ok)
  BY <1>4, DescriptionSetConverging
<1>5. CASE \E rotation \in keys.rotations : SendKey(rotation)
  BY <1>5, SendKeyConverging
<1>6. CASE UseKey
  BY <1>6, UseKeyConverging
<1>7. CASE EncryptFrame
  <2>1. /\ call' = call /\ sfu' = sfu
        /\ keys'.mCurrentkeyId = keys.mCurrentkeyId /\ keys'.mKeyMap = keys.mKeyMap
        /\ keys'.rotations = keys.rotations /\ keys'.timers = keys.timers
        /\ keys'.got = keys.got
    BY <1>7, EncryptFrameTypes
  <2>2. KeyToCome(call, keys) => KeyToCome(call', keys')
    BY <2>1 DEF KeyToCome
  <2>3. QED
    BY <2>1, <2>2, StillConverging
<1>8. CASE \E why \in {"socket", "media", "chatd"} : LoseSfu(why)
  <2>1. ~sfu'.joined
    BY <1>8, LoseSfuTypes
  <2>2. QED
    BY <2>1 DEF Converging, InUse
<1>9. CASE JoinSfu
  <2>1. call'.mState = "Joining" /\ call'.answers = {a \in call.answers : a.stage = "keys"}
    BY <1>9, JoinSfuTypes
  <2>2. QED
    BY <2>1 DEF Converging, InUse
<1>10. CASE UNCHANGED vars
  BY <1>10 DEF vars, Converging
<1>11. QED
  BY <1>1, <1>2, <1>3, <1>4, <1>5, <1>6, <1>7, <1>8, <1>9, <1>10 DEF Next

LEMMA ConvergingImplies == Types /\ Converging => KeysConverge
<1> SUFFICES ASSUME Types, Converging, Settled, Unused(keys) = {},
                    NEW cid \in sfu.meeting \cap DOMAIN call.mSessions, call.mSessions[cid]
             PROVE  /\ keys.mCurrentkeyId \in DOMAIN keys.mKeyMap \cap DOMAIN keys.got[cid]
                    /\ keys.got[cid][keys.mCurrentkeyId] = keys.mKeyMap[keys.mCurrentkeyId]
  BY DEF KeysConverge
<1>1. keys.rotations = {} /\ \A i \in DOMAIN keys.timers : FALSE
  BY DEF Unused
<1>2. keys.timers = <<>>
  <2>1. keys.timers \in Seq(Rotation)
    BY DEF Types, KeySets
  <2>2. Len(keys.timers) \in Nat /\ DOMAIN keys.timers = 1 .. Len(keys.timers)
    BY <2>1
  <2>3. 1 \notin DOMAIN keys.timers
    BY <1>1
  <2>4. Len(keys.timers) = 0
    BY <2>2, <2>3
  <2>5. QED
    BY <2>1, <2>4, EmptySeq
<1>3. cid \in Cids /\ Reached(call, sfu, cid)
  BY DEF Types, Sfus, Reached
<1>4. InUse(call, sfu) /\ ~KeyToCome(call, keys)
  BY <1>1 DEF Settled, InUse, KeyToCome, Alive
<1>5. HasNewest(keys, cid)
  BY <1>3, <1>4 DEF Converging
<1>6. QED
  BY <1>2, <1>5 DEF HasNewest, Holds

\* When no key is about to be sent or used, every verified peer has the key in use.
THEOREM KeysConvergeHolds == Spec => []KeysConverge
<1>1. Init => Converging
  BY DEF Init, Converging, InUse
<1>2. QED
  BY <1>1, AlwaysMeeting, NextConverging, ConvergingImplies, PTL DEF Spec

-----------------------------------------------------------------------------
(* The fourth layer: the ids of the keys.  A client joins the meeting once, so that there *)
(* are no more keys after an ANSWER than there are clients; and a new key has an id of    *)
(* its own as long as there are no more clients than ids.                                 *)

\* A PEERJOIN may still lead to a new key for the sake of this client.
Joinable(c, s, cid) ==
    \/ cid \notin s.meeting /\ cid \notin s.left
    \/ Tells(s.inbox, "PEERJOIN", cid)
    \/ \E check \in c.checks : check.cid = cid /\ ~check.answer

Spare(c, s) == {cid \in Cids : Joinable(c, s, cid)}

\* It does so once.
JoinsOnce(c, s) ==
    /\ \A check \in c.checks : ~check.answer =>
           /\ check.cid \in s.meeting \/ check.cid \in s.left
           /\ ~Tells(s.inbox, "PEERJOIN", check.cid)
    /\ \A check, other \in c.checks :
           ~check.answer /\ ~other.answer /\ check.cid = other.cid => check = other

Fewer(c, s, d, t) == \A cid : Joinable(d, t, cid) => Joinable(c, s, cid)

LEMMA FewerJoins ==
    ASSUME NEW c, NEW d, NEW s, NEW t, JoinsOnce(c, s),
           \A check \in d.checks : ~check.answer => check \in c.checks,
           \A cid : Tells(t.inbox, "PEERJOIN", cid) => Tells(s.inbox, "PEERJOIN", cid),
           \A cid : cid \in s.meeting \/ cid \in s.left => cid \in t.meeting \/ cid \in t.left
    PROVE  JoinsOnce(d, t) /\ Fewer(c, s, d, t)
<1>1. JoinsOnce(d, t)
  BY DEF JoinsOnce
<1>2. Fewer(c, s, d, t)
  BY DEF Fewer, Joinable
<1>3. QED
  BY <1>1, <1>2

LEMMA PeerJoinsOnce ==
    ASSUME Types, JoinsOnce(call, sfu), NEW cid \in Cids, PeerJoins(cid)
    PROVE  JoinsOnce(call', sfu') /\ Fewer(call, sfu, call', sfu')
<1>1. /\ call' = call /\ sfu'.meeting = sfu.meeting \cup {cid} /\ sfu'.left = sfu.left
      /\ cid \notin sfu.meeting /\ cid \notin sfu.left
      /\ sfu.joined => \A cmd, z : Tells(sfu'.inbox, cmd, z) <=>
             Tells(sfu.inbox, cmd, z) \/ (cmd = "PEERJOIN" /\ z = cid)
      /\ ~sfu.joined => sfu'.inbox = sfu.inbox
  BY PeerJoinsTypes
<1>2. \A z : Tells(sfu'.inbox, "PEERJOIN", z) => Tells(sfu.inbox, "PEERJOIN", z) \/ z = cid
  BY <1>1
<1>3. JoinsOnce(call', sfu')
  BY <1>1, <1>2 DEF JoinsOnce
<1>4. Fewer(call, sfu, call', sfu')
  BY <1>1, <1>2 DEF Fewer, Joinable
<1>5. QED
  BY <1>3, <1>4

LEMMA HandleCommandOnce ==
    ASSUME Types, JoinsOnce(call, sfu), HandleCommand
    PROVE  JoinsOnce(call', sfu') /\ Fewer(call, sfu, call', sfu')
<1>. Handles
  BY HandleCommandDoes
<1>1. /\ sfu.inbox # <<>> /\ sfu' = [sfu EXCEPT !.inbox = Tail(sfu.inbox)]
  BY DEF Handles
<1>2. Taken(sfu, sfu')
  BY <1>1, InboxTaken
<1>3. /\ \A z : Tells(sfu'.inbox, "PEERJOIN", z) => Tells(sfu.inbox, "PEERJOIN", z)
      /\ \A z : z \in sfu.meeting \/ z \in sfu.left => z \in sfu'.meeting \/ z \in sfu'.left
  BY <1>2 DEF Taken
<1>4. CASE \A check \in call'.checks : ~check.answer => check \in call.checks
  BY <1>3, <1>4, FewerJoins
<1>5. ASSUME NEW cid \in Cids, Head(sfu.inbox).cmd = "PEERJOIN", Head(sfu.inbox).peers = {cid},
             Announced(call, call', {cid}, FALSE)
      PROVE  JoinsOnce(call', sfu') /\ Fewer(call, sfu, call', sfu')
  <2> DEFINE new == [cid |-> cid, round |-> call.round, answer |-> FALSE]
  <2>1. new.cid = cid /\ \A check \in call'.checks : check \in call.checks \/ check = new
    BY <1>5 DEF Announced
  <2>. HIDE DEF new
  <2>2. Tells(sfu.inbox, "PEERJOIN", cid) /\ ~Tells(sfu'.inbox, "PEERJOIN", cid)
    BY <1>2, <1>5 DEF Taken
  <2>3. cid \in sfu.meeting \/ cid \in sfu.left
    BY <2>2 DEF Types, Known
  <2>4. \A check \in call.checks : ~check.answer => check.cid # cid
    BY <2>2 DEF JoinsOnce
  <2>5. ASSUME NEW check \in call'.checks, ~check.answer
        PROVE  /\ check.cid \in sfu'.meeting \/ check.cid \in sfu'.left
               /\ ~Tells(sfu'.inbox, "PEERJOIN", check.cid)
    <3>1. CASE check \in call.checks
      BY <1>3, <2>5, <3>1 DEF JoinsOnce
    <3>2. CASE check = new
      BY <1>3, <2>1, <2>2, <2>3, <3>2
    <3>3. QED
      BY <2>1, <3>1, <3>2
  <2>6. \A check, other \in call'.checks :
           ~check.answer /\ ~other.answer /\ check.cid = other.cid => check = other
    BY <2>1, <2>4 DEF JoinsOnce
  <2>7. JoinsOnce(call', sfu')
    BY <2>5, <2>6 DEF JoinsOnce
  <2>8. Fewer(call, sfu, call', sfu')
    BY <1>3, <2>1, <2>2 DEF Fewer, Joinable
  <2>9. QED
    BY <2>7, <2>8
<1>6. CASE Head(sfu.inbox).cmd = "ANSWER"
  <2>1. call' = call \/ Announced(call, call', Head(sfu.inbox).peers, TRUE)
    BY <1>6 DEF Handles, Answered
  <2>2. \A check \in call'.checks : ~check.answer => check \in call.checks
    BY <2>1 DEF Announced
  <2>3. QED
    BY <1>4, <2>2
<1>7. CASE Head(sfu.inbox).cmd = "PEERJOIN"
  <2>1. PICK cid \in Cids : /\ Head(sfu.inbox).peers = {cid}
                            /\ call' = call \/ Announced(call, call', {cid}, FALSE)
    BY <1>7 DEF Handles
  <2>2. QED
    BY <1>4, <1>5, <1>7, <2>1
<1>8. CASE Head(sfu.inbox).cmd = "PEERLEFT"
  <2>1. call'.checks = call.checks
    BY <1>8 DEF Handles, Forgotten
  <2>2. QED
    BY <1>4, <2>1
<1>9. QED
  BY <1>6, <1>7, <1>8 DEF Handles

LEMMA NextOnce ==
    ASSUME Types, JoinsOnce(call, sfu), [Next]_vars
    PROVE  JoinsOnce(call', sfu') /\ Fewer(call, sfu, call', sfu')
<1>1. CASE UNCHANGED <<call, sfu>>
  BY <1>1 DEF Fewer
<1>2. CASE \E cid \in Cids : PeerJoins(cid)
  BY <1>2, PeerJoinsOnce
<1>3. ASSUME NEW cid \in Cids, PeerLeaves(cid)
      PROVE  JoinsOnce(call', sfu') /\ Fewer(call, sfu, call', sfu')
  <2>1. /\ call' = call /\ sfu'.meeting = sfu.meeting \ {cid} /\ sfu'.left = sfu.left \cup {cid}
        /\ sfu.joined => \A cmd, z : Tells(sfu'.inbox, cmd, z) <=>
               Tells(sfu.inbox, cmd, z) \/ (cmd = "PEERLEFT" /\ z = cid)
        /\ ~sfu.joined => sfu'.inbox = sfu.inbox
    BY <1>3, PeerLeavesTypes
  <2>2. \A z : Tells(sfu'.inbox, "PEERJOIN", z) => Tells(sfu.inbox, "PEERJOIN", z)
    BY <2>1
  <2>3. \A z : z \in sfu.meeting \/ z \in sfu.left => z \in sfu'.meeting \/ z \in sfu'.left
    BY <2>1
  <2>4. QED
    BY <2>1, <2>2, <2>3, FewerJoins
<1>4. CASE HandleCommand
  BY <1>4, HandleCommandOnce
<1>5. ASSUME NEW check \in call.checks, NEW ok \in BOOLEAN, Verified(check, ok)
      PROVE  JoinsOnce(call', sfu') /\ Fewer(call, sfu, call', sfu')
  <2>1. sfu' = sfu /\ call'.checks = call.checks \ {check}
    BY <1>5, VerifiedDoes DEF Verifies
  <2>2. \A e \in call'.checks : ~e.answer => e \in call.checks
    BY <2>1
  <2>3. QED
    BY <2>1, <2>2, FewerJoins
<1>6. ASSUME NEW answer \in call.answers, NEW ok \in BOOLEAN, DescriptionSet(answer, ok)
      PROVE  JoinsOnce(call', sfu') /\ Fewer(call, sfu, call', sfu')
  <2>1. sfu' = sfu /\ call'.checks = call.checks
    BY <1>6, DescriptionSetTypes DEF SamePeers
  <2>2. QED
    BY <2>1, FewerJoins
<1>7. ASSUME NEW why \in {"socket", "media", "chatd"}, LoseSfu(why)
      PROVE  JoinsOnce(call', sfu') /\ Fewer(call, sfu, call', sfu')
  <2>1. /\ sfu'.inbox = <<>> /\ sfu'.meeting = sfu.meeting /\ sfu'.left = sfu.left
        /\ call'.checks = call.checks
    BY <1>7, LoseSfuTypes
  <2>2. \A z : ~Tells(sfu'.inbox, "PEERJOIN", z)
    BY <2>1, EmptyBox
  <2>3. QED
    BY <2>1, <2>2, FewerJoins
<1>8. CASE JoinSfu
  <2>1. /\ sfu'.meeting = sfu.meeting /\ sfu'.left = sfu.left /\ call'.checks = call.checks
        /\ \A cmd, cid : Tells(sfu'.inbox, cmd, cid) <=> cmd = "ANSWER" /\ cid \in sfu.meeting
    BY <1>8, JoinSfuTypes
  <2>2. \A z : ~Tells(sfu'.inbox, "PEERJOIN", z)
    BY <2>1
  <2>3. QED
    BY <2>1, <2>2, FewerJoins
<1>9. CASE \E rotation \in keys.rotations : SendKey(rotation)
  BY <1>1, <1>9 DEF SendKey
<1>10. CASE UseKey \/ EncryptFrame
  BY <1>1, <1>10 DEF UseKey, EncryptFrame
<1>11. CASE UNCHANGED vars
  BY <1>1, <1>11 DEF vars
<1>12. QED
  BY <1>2, <1>3, <1>4, <1>5, <1>6, <1>7, <1>8, <1>9, <1>10, <1>11 DEF Next

LEMMA SpareFewer ==
    ASSUME NEW c, NEW s, NEW d, NEW t, Fewer(c, s, d, t)
    PROVE  /\ Cardinality(Spare(c, s)) \in Nat /\ Cardinality(Spare(d, t)) \in Nat
           /\ Cardinality(Spare(d, t)) <= Cardinality(Spare(c, s))
           /\ Cardinality(Spare(c, s)) <= Cardinality(Cids) /\ Cardinality(Cids) \in Nat
           /\ \A cid \in Cids :
                  Joinable(c, s, cid) /\ ~Joinable(d, t, cid) =>
                      Cardinality(Spare(d, t)) + 1 <= Cardinality(Spare(c, s))
<1>1. IsFiniteSet(Cids) /\ Spare(c, s) \subseteq Cids /\ Spare(d, t) \subseteq Spare(c, s)
  BY PeersAssumption DEF Spare, Fewer
<1>2. IsFiniteSet(Spare(c, s)) /\ Cardinality(Spare(c, s)) <= Cardinality(Cids)
  BY <1>1, FS_Subset
<1>3. IsFiniteSet(Spare(d, t)) /\ Cardinality(Spare(d, t)) <= Cardinality(Spare(c, s))
  BY <1>1, <1>2, FS_Subset
<1>4. /\ Cardinality(Spare(c, s)) \in Nat /\ Cardinality(Spare(d, t)) \in Nat
      /\ Cardinality(Cids) \in Nat
  BY <1>1, <1>2, <1>3, FS_CardinalityType
<1>5. ASSUME NEW cid \in Cids, Joinable(c, s, cid), ~Joinable(d, t, cid)
      PROVE  Cardinality(Spare(d, t)) + 1 <= Cardinality(Spare(c, s))
  <2>1. cid \in Spare(c, s) /\ cid \notin Spare(d, t)
    BY <1>5 DEF Spare
  <2>2. Spare(d, t) \subseteq Spare(c, s) \ {cid}
    BY <1>1, <2>1
  <2>3. /\ IsFiniteSet(Spare(c, s) \ {cid})
        /\ Cardinality(Spare(c, s) \ {cid}) = Cardinality(Spare(c, s)) - 1
    BY <1>2, <2>1, FS_RemoveElement
  <2>4. Cardinality(Spare(d, t)) <= Cardinality(Spare(c, s) \ {cid})
    BY <2>2, <2>3, FS_Subset
  <2>5. QED
    BY <1>4, <2>3, <2>4
<1>6. QED
  BY <1>2, <1>3, <1>4, <1>5

(* How the keys change when a command is handled or a verification is done *)

LEMMA HandleCommandKeys ==
    ASSUME Types, HandleCommand
    PROVE  /\ keys' = keys \/ (Rotated(keys, keys', TRUE) /\ call.mState = "Joining")
           /\ call'.mState = call.mState \/ ~Alive(call')
           /\ call'.stale = call.stale
<1>. Handles
  BY HandleCommandDoes
<1>1. CASE call' = call /\ keys' = keys
  BY <1>1
<1>2. CASE /\ call.mState = "Joining"
           /\ Answered(call, call', keys, keys', Head(sfu.inbox).peers)
  <2>1. PICK n \in Answers :
           /\ n.round = call.round
           /\ Head(sfu.inbox).peers # {} =>
                  call'.mState = call.mState /\ call'.stale = call.stale /\ keys' = keys
           /\ Head(sfu.inbox).peers = {} => Concluded(call, call', keys, keys', n)
    BY <1>2 DEF Answered
  <2>2. call.stale \in BOOLEAN
    BY DEF Types, Calls
  <2>3. QED
    BY <1>2, <2>1, <2>2 DEF Concluded, Alive
<1>3. CASE keys' = keys /\ SameAnswers(call, call')
  BY <1>3 DEF SameAnswers
<1>4. CASE Head(sfu.inbox).cmd = "ANSWER"
  BY <1>1, <1>2, <1>4 DEF Handles
<1>5. CASE Head(sfu.inbox).cmd = "PEERJOIN"
  BY <1>1, <1>3, <1>5 DEF Handles
<1>6. CASE Head(sfu.inbox).cmd = "PEERLEFT"
  BY <1>1, <1>3, <1>6 DEF Handles, Forgotten
<1>7. QED
  BY <1>4, <1>5, <1>6 DEF Handles

LEMMA VerifiedKeys ==
    ASSUME Types, NEW check \in call.checks, NEW ok \in BOOLEAN, Verified(check, ok)
    PROVE  \/ ~check.answer /\ Rotated(keys, keys', FALSE)
           \/ keys' = keys
           \/ /\ Rotated(keys, keys', TRUE)
              /\ Alive(call') /\ ~call'.stale => \E a \in call.answers : a.round = call.round
<1>. Verifies(check, ok)
  BY VerifiedDoes
<1>1. CASE ~check.answer
  BY <1>1 DEF Verifies
<1>2. CASE check.answer
  <2>1. PICK a \in call.answers : Counted(call, call', keys, keys', a, ok)
    BY <1>2 DEF Verifies
  <2> DEFINE n == [a EXCEPT !.left = @ - 1, !.any = @ \/ ok]
  <2>2. a \in Answers /\ call.stale \in BOOLEAN
    BY DEF Types, Calls
  <2>3. n.round = a.round
    BY <2>2 DEF Answers
  <2>4. keys' = keys \/ Concluded(call, call', keys, keys', n)
    BY <2>1 DEF Counted
  <2>. HIDE DEF n
  <2>5. CASE keys' = keys
    BY <2>5
  <2>6. CASE Concluded(call, call', keys, keys', n)
    BY <2>2, <2>3, <2>6 DEF Concluded, Alive
  <2>7. QED
    BY <2>4, <2>5, <2>6
<1>3. QED
  BY <1>1, <1>2

LEMMA RotatedSame ==
    ASSUME NEW k, NEW l, NEW reset, l = k \/ Rotated(k, l, reset)
    PROVE  l.got = k.got /\ l.timers = k.timers /\ l.encryptor = k.encryptor
BY DEF Rotated

-----------------------------------------------------------------------------
(* Who has been sent a key: peers that are verified, or were until they were asked again *)

Rejected(c, cid) ==
    cid \in DOMAIN c.mPeersVerification /\ c.mPeersVerification[cid] = "rejected"

Served(c, k, s) ==
    \A cid \in Cids : DOMAIN k.got[cid] # {} =>
        /\ s.joined /\ cid \in s.meeting
        /\ Reached(c, s, cid) \/ Rejected(c, cid)

\* A peer that is rejected stays so as long as it has a key.
Kept(c, d, l) ==
    \A cid \in Cids : Rejected(c, cid) /\ DOMAIN l.got[cid] # {} => Rejected(d, cid)

LEMMA HandleCommandServed ==
    ASSUME Types, Meeting, Served(call, keys, sfu), HandleCommand
    PROVE  Served(call', keys', sfu') /\ Kept(call, call', keys')
<1>. Handles
  BY HandleCommandDoes
<1>1. /\ sfu.inbox # <<>> /\ sfu' = [sfu EXCEPT !.inbox = Tail(sfu.inbox)]
      /\ keys'.got = keys.got
  BY HandleCommandKeys, RotatedSame DEF Handles
<1>2. Taken(sfu, sfu')
  BY <1>1, InboxTaken
<1>3. ASSUME NEW cid \in Cids, DOMAIN keys.got[cid] # {}
      PROVE  /\ Reached(call, sfu, cid) => Reached(call', sfu', cid) \/ Rejected(call', cid)
             /\ Rejected(call, cid) => Rejected(call', cid)
  <2>1. sfu.joined /\ cid \in sfu.meeting /\ cid \in sfu'.meeting
    BY <1>2, <1>3 DEF Served, Taken
  <2>2. CASE call' = call
    BY <2>1, <2>2 DEF Reached
  <2>3. ASSUME NEW cids, NEW in, Announced(call, call', cids, in),
               \A z \in cids : z \notin DOMAIN call.mPeersVerification
        PROVE  /\ Reached(call, sfu, cid) => Reached(call', sfu', cid)
               /\ Rejected(call, cid) => Rejected(call', cid)
    BY <2>1, <2>3 DEF Announced, Reached, Rejected
  <2>4. CASE Head(sfu.inbox).cmd = "ANSWER"
    <3>1. AnswerDue(sfu.inbox)
      BY <1>1, <2>4, BoxTail DEF AnswerDue, Types
    <3>2. \A z : z \notin DOMAIN call.mPeersVerification
      BY <3>1 DEF Types, DueOk
    <3>3. call' = call \/ Announced(call, call', Head(sfu.inbox).peers, TRUE)
      BY <2>4 DEF Handles, Answered
    <3>4. QED
      BY <2>2, <2>3, <3>2, <3>3
  <2>5. CASE Head(sfu.inbox).cmd = "PEERJOIN"
    <3>1. PICK z \in Cids :
             call' = call \/ (/\ z \notin DOMAIN call.mPeersVerification
                              /\ Announced(call, call', {z}, FALSE))
      BY <2>5 DEF Handles
    <3>2. ASSUME z \notin DOMAIN call.mPeersVerification, Announced(call, call', {z}, FALSE)
          PROVE  /\ Reached(call, sfu, cid) => Reached(call', sfu', cid)
                 /\ Rejected(call, cid) => Rejected(call', cid)
      BY <2>1, <3>2 DEF Announced, Reached, Rejected
    <3>3. QED
      BY <2>2, <3>1, <3>2
  <2>6. CASE Head(sfu.inbox).cmd = "PEERLEFT"
    <3>1. PICK z \in Cids : /\ Head(sfu.inbox).peers = {z}
                            /\ call' = call \/ Forgotten(call, call', z)
      BY <2>6 DEF Handles
    <3>2. z # cid
      <4>1. Going(sfu, z)
        BY <1>2, <2>6, <3>1 DEF Going, Taken
      <4>2. z \notin sfu.meeting
        BY <4>1 DEF Meeting, Once
      <4>3. QED
        BY <2>1, <4>2
    <3>3. CASE Forgotten(call, call', z)
      BY <2>1, <3>2, <3>3 DEF Forgotten, Reached, Rejected
    <3>4. QED
      BY <2>2, <3>1, <3>3
  <2>7. QED
    BY <2>4, <2>5, <2>6 DEF Handles
<1>4. Served(call', keys', sfu')
  BY <1>1, <1>2, <1>3 DEF Served, Taken
<1>5. Kept(call, call', keys')
  BY <1>1, <1>3 DEF Kept
<1>6. QED
  BY <1>4, <1>5

LEMMA VerifiedServed ==
    ASSUME Types, Served(call, keys, sfu),
           NEW check \in call.checks, NEW ok \in BOOLEAN, Verified(check, ok)
    PROVE  Served(call', keys', sfu') /\ Kept(call, call', keys')
<1>1. sfu' = sfu /\ Added(call, call', check.cid, ok) /\ keys'.got = keys.got
  <2>. Verifies(check, ok)
    BY VerifiedDoes
  <2>1. sfu' = sfu /\ Added(call, call', check.cid, ok)
    BY DEF Verifies
  <2>2. keys' = keys \/ Rotated(keys, keys', FALSE) \/ Rotated(keys, keys', TRUE)
    BY VerifiedKeys
  <2>3. QED
    BY <2>1, <2>2, RotatedSame
<1>2. ASSUME NEW cid
      PROVE  /\ Reached(call, sfu, cid) => Reached(call', sfu', cid) \/ Rejected(call', cid)
             /\ Rejected(call, cid) => Rejected(call', cid)
  <2>1. CASE ~Pending(call, check.cid)
    BY <1>1, <2>1 DEF Added, Reached, Rejected
  <2>2. CASE Pending(call, check.cid) /\ cid # check.cid
    BY <1>1, <2>2 DEF Added, Reached, Rejected
  <2>3. CASE Pending(call, check.cid) /\ cid = check.cid
    <3>1. /\ check.cid \in DOMAIN call'.mSessions /\ call'.mSessions[check.cid] = ok
          /\ check.cid \in DOMAIN call'.mPeersVerification
          /\ ~ok => call'.mPeersVerification[check.cid] = "rejected"
      BY <1>1, <2>3 DEF Added, Pending
    <3>2. ~Rejected(call, cid)
      BY <2>3 DEF Pending, Rejected
    <3>3. QED
      BY <1>1, <2>3, <3>1, <3>2 DEF Reached, Rejected
  <2>4. QED
    BY <2>1, <2>2, <2>3
<1>3. Served(call', keys', sfu')
  BY <1>1, <1>2 DEF Served
<1>4. Kept(call, call', keys')
  BY <1>2 DEF Kept
<1>5. QED
  BY <1>3, <1>4

LEMMA NextServed ==
    ASSUME Types, Meeting, Served(call, keys, sfu), [Next]_vars
    PROVE  Served(call', keys', sfu') /\ Kept(call, call', keys')
<1>1. CASE UNCHANGED <<call, sfu>> /\ keys'.got = keys.got
  BY <1>1 DEF Served, Kept
<1>2. ASSUME NEW cid \in Cids, PeerJoins(cid)
      PROVE  Served(call', keys', sfu') /\ Kept(call, call', keys')
  <2>1. /\ call' = call /\ keys' = keys /\ sfu'.meeting = sfu.meeting \cup {cid}
        /\ sfu'.joined = sfu.joined
    BY <1>2, PeerJoinsTypes
  <2>2. QED
    BY <2>1 DEF Served, Kept, Reached
<1>3. ASSUME NEW cid \in Cids, PeerLeaves(cid)
      PROVE  Served(call', keys', sfu') /\ Kept(call, call', keys')
  <2>1. /\ call' = call /\ keys' = [keys EXCEPT !.got[cid] = Empty]
        /\ sfu'.meeting = sfu.meeting \ {cid} /\ sfu'.joined = sfu.joined
    BY <1>3, PeerLeavesTypes
  <2>2. keys \in KeySets /\ DOMAIN Empty = {}
    BY EmptyPartial DEF Types
  <2>3. \A z \in Cids : DOMAIN keys'.got[z] # {} => z # cid /\ keys'.got[z] = keys.got[z]
    BY <2>1, <2>2 DEF KeySets
  <2>4. QED
    BY <2>1, <2>3 DEF Served, Kept, Reached
<1>4. CASE HandleCommand
  BY <1>4, HandleCommandServed
<1>5. CASE \E check \in call.checks, ok \in BOOLEAN : Verified(check, ok)
  BY <1>5, VerifiedServed
<1>6. ASSUME NEW answer \in call.answers, NEW ok \in BOOLEAN, DescriptionSet(answer, ok)
      PROVE  Served(call', keys', sfu') /\ Kept(call, call', keys')
  <2>1. sfu' = sfu /\ keys' = keys /\ SamePeers(call, call')
    BY <1>6, DescriptionSetTypes
  <2>2. QED
    BY <2>1 DEF Served, Kept, Reached, Rejected, SamePeers
<1>7. ASSUME NEW r \in keys.rotations, SendKey(r)
      PROVE  Served(call', keys', sfu') /\ Kept(call, call', keys')
  <2>1. /\ call' = call /\ sfu' = sfu
        /\ \A cid \in Cids : ~(sfu.joined /\ Reached(call, sfu, cid)) =>
                                 keys'.got[cid] = keys.got[cid]
    BY <1>7, SendKeyTypes
  <2>2. Kept(call, call', keys')
    BY <2>1 DEF Kept
  <2>3. ASSUME NEW cid \in Cids, DOMAIN keys'.got[cid] # {}
        PROVE  sfu.joined /\ cid \in sfu.meeting /\ (Reached(call, sfu, cid) \/ Rejected(call, cid))
    <3>1. CASE sfu.joined /\ Reached(call, sfu, cid)
      BY <3>1 DEF Reached
    <3>2. CASE ~(sfu.joined /\ Reached(call, sfu, cid))
      BY <2>1, <2>3, <3>2 DEF Served
    <3>3. QED
      BY <3>1, <3>2
  <2>4. QED
    BY <2>1, <2>2, <2>3 DEF Served
<1>8. CASE UseKey
  BY <1>1, <1>8, UseKeyTypes
<1>9. CASE EncryptFrame
  BY <1>1, <1>9, EncryptFrameTypes
<1>10. ASSUME NEW why \in {"socket", "media", "chatd"}, LoseSfu(why)
       PROVE  Served(call', keys', sfu') /\ Kept(call, call', keys')
  <2>1. /\ keys' = [keys EXCEPT !.encryptor = None, !.got = [cid \in Cids |-> Empty]]
        /\ keys \in KeySets /\ DOMAIN Empty = {}
    BY <1>10, LoseSfuTypes, EmptyPartial DEF Types
  <2>2. \A cid \in Cids : DOMAIN keys'.got[cid] = {}
    BY <2>1 DEF KeySets
  <2>3. QED
    BY <2>2 DEF Served, Kept
<1>11. CASE JoinSfu
  <2>1. ~sfu.joined /\ keys' = keys
    BY <1>11, JoinSfuTypes
  <2>2. \A cid \in Cids : DOMAIN keys'.got[cid] = {}
    BY <2>1 DEF Served
  <2>3. QED
    BY <2>2 DEF Served, Kept
<1>12. CASE UNCHANGED vars
  BY <1>1, <1>12 DEF vars
<1>13. QED
  BY <1>2, <1>3, <1>4, <1>5, <1>6, <1>7, <1>8, <1>9, <1>10, <1>11, <1>12 DEF Next

-----------------------------------------------------------------------------
(* The numbers of the keys: as long as no rotation clashes with another there is one at a *)
(* time, its id is the next one, and the ids are not used up.                             *)

FewEnough == Cardinality(Cids) <= LastKeyId

First(k) == IF DOMAIN k.mKeyMap = {} THEN 0 ELSE k.mCurrentkeyId + 1
Idle(k)  == k.rotations = {} /\ k.timers = <<>>

OneUnused(k) ==
    \E r \in Rotation :
        /\ r.id = First(k)
        /\ \/ k.rotations = {r} /\ k.timers = <<>>
           \/ k.rotations = {} /\ k.timers = <<r>>

Numbered(c, k, s) ==
    ~k.clash =>
        /\ Idle(k) \/ OneUnused(k)
        /\ \A i : i \in DOMAIN k.mKeyMap <=> i \in Nat /\ i < First(k)
        /\ First(k) + (IF Idle(k) THEN 0 ELSE 1) + Cardinality(Spare(c, s)) <= Cardinality(Cids) + 1

LEMMA FirstType ==
    ASSUME NEW k \in KeySets
    PROVE  First(k) \in Nat /\ k.mCurrentkeyId \in Nat
<1>1. k.mCurrentkeyId \in Nat
  BY PeersAssumption DEF KeySets, KeyIds
<1>2. QED
  BY <1>1 DEF First

LEMMA OneIsUnused ==
    ASSUME NEW k, OneUnused(k)
    PROVE  \E q \in Unused(k) : q.id = First(k)
<1>1. PICK r \in Rotation : /\ r.id = First(k)
                            /\ k.rotations = {r} \/ k.timers = <<r>>
  BY DEF OneUnused
<1>2. CASE k.rotations = {r}
  BY <1>1, <1>2 DEF Unused
<1>3. CASE k.timers = <<r>>
  <2>1. 1 \in DOMAIN k.timers /\ k.timers[1] = r
    BY <1>3
  <2>2. r \in Unused(k)
    BY <2>1 DEF Unused
  <2>3. QED
    BY <1>1, <2>2
<1>4. QED
  BY <1>1, <1>2, <1>3

LEMMA SameNumbered ==
    ASSUME NEW c, NEW d, NEW s, NEW t, NEW k \in KeySets, NEW l, Numbered(c, k, s),
           Fewer(c, s, d, t), l.clash = k.clash, l.rotations = k.rotations,
           l.timers = k.timers, l.mKeyMap = k.mKeyMap, l.mCurrentkeyId = k.mCurrentkeyId
    PROVE  Numbered(d, l, t)
<1> SUFFICES ASSUME ~k.clash PROVE Numbered(d, l, t)
  BY DEF Numbered
<1>1. First(l) = First(k) /\ (Idle(l) <=> Idle(k)) /\ (OneUnused(l) <=> OneUnused(k))
  BY DEF First, Idle, OneUnused
<1>2. /\ Cardinality(Spare(c, s)) \in Nat /\ Cardinality(Spare(d, t)) \in Nat
      /\ Cardinality(Spare(d, t)) <= Cardinality(Spare(c, s)) /\ Cardinality(Cids) \in Nat
  BY SpareFewer
<1>3. First(k) + (IF Idle(k) THEN 0 ELSE 1) + Cardinality(Spare(c, s)) <= Cardinality(Cids) + 1
  BY DEF Numbered
<1>4. First(l) + (IF Idle(l) THEN 0 ELSE 1) + Cardinality(Spare(d, t)) <= Cardinality(Cids) + 1
  <2>1. First(k) \in Nat
    BY FirstType
  <2>2. CASE Idle(k)
    BY <1>1, <1>2, <1>3, <2>1, <2>2
  <2>3. CASE ~Idle(k)
    BY <1>1, <1>2, <1>3, <2>1, <2>3
  <2>4. QED
    BY <2>2, <2>3
<1>5. QED
  BY <1>1, <1>4 DEF Numbered

LEMMA RotatedNumbered ==
    ASSUME FewEnough, NEW c, NEW d, NEW s, NEW t, NEW k \in KeySets, NEW l,
           NEW reset \in BOOLEAN, Rotated(k, l, reset), Numbered(c, k, s), Fewer(c, s, d, t),
           ~reset => \E cid \in Cids : Joinable(c, s, cid) /\ ~Joinable(d, t, cid)
    PROVE  Numbered(d, l, t) /\ (~l.clash => Idle(k) /\ ~k.clash)
<1> SUFFICES ASSUME ~l.clash PROVE Numbered(d, l, t) /\ Idle(k) /\ ~k.clash
  BY DEF Numbered
<1>1. PICK r \in Rotation :
         /\ r.id = GenerateNextKeyId(l) /\ l.rotations = k.rotations \cup {r}
         /\ l.clash = (k.clash \/ \E q \in Unused(k) : reset \/ q.id = r.id)
  BY DEF Rotated
<1>2. /\ l.timers = k.timers /\ l \in KeySets
      /\ l.mCurrentkeyId = IF reset THEN 0 ELSE k.mCurrentkeyId
      /\ l.mKeyMap = IF reset THEN Empty ELSE k.mKeyMap
  BY DEF Rotated
<1>3. ~k.clash /\ \A q \in Unused(k) : ~reset /\ q.id # r.id
  BY <1>1
<1>4. /\ Idle(k) \/ OneUnused(k)
      /\ \A i : i \in DOMAIN k.mKeyMap <=> i \in Nat /\ i < First(k)
      /\ First(k) + (IF Idle(k) THEN 0 ELSE 1) + Cardinality(Spare(c, s)) <= Cardinality(Cids) + 1
  BY <1>3 DEF Numbered
<1>5. /\ Cardinality(Spare(c, s)) \in Nat /\ Cardinality(Spare(d, t)) \in Nat
      /\ Cardinality(Spare(d, t)) <= Cardinality(Spare(c, s))
      /\ Cardinality(Spare(c, s)) <= Cardinality(Cids) /\ Cardinality(Cids) \in Nat
      /\ ~reset => Cardinality(Spare(d, t)) + 1 <= Cardinality(Spare(c, s))
  BY SpareFewer
<1>6. First(k) \in Nat /\ k.mCurrentkeyId \in Nat /\ LastKeyId \in Nat
  BY FirstType, PeersAssumption
<1>7. First(l) + 1 + Cardinality(Spare(d, t)) <= Cardinality(Cids) + 1
  <2>1. CASE reset
    <3>1. First(l) = 0
      BY <1>2, <2>1, EmptyPartial DEF First
    <3>2. QED
      BY <1>5, <3>1
  <2>2. CASE ~reset
    <3>1. First(l) = First(k)
      BY <1>2, <2>2 DEF First
    <3>2. First(k) + Cardinality(Spare(c, s)) <= Cardinality(Cids) + 1
      BY <1>4, <1>5, <1>6
    <3>3. QED
      BY <1>5, <1>6, <2>2, <3>1, <3>2
  <2>3. QED
    BY <2>1, <2>2
<1>8. First(l) \in Nat /\ First(l) <= LastKeyId /\ l.mCurrentkeyId \in Nat
  <2>1. First(l) \in Nat /\ l.mCurrentkeyId \in Nat
    BY <1>2, FirstType
  <2>2. QED
    BY <1>5, <1>6, <1>7, <2>1 DEF FewEnough
<1>9. r.id = First(l)
  <2>1. CASE DOMAIN l.mKeyMap = {}
    BY <1>1, <2>1 DEF GenerateNextKeyId, First
  <2>2. CASE DOMAIN l.mKeyMap # {}
    <3>1. First(l) = l.mCurrentkeyId + 1
      BY <2>2 DEF First
    <3>2. ~(l.mCurrentkeyId >= LastKeyId)
      BY <1>6, <1>8, <3>1
    <3>3. QED
      BY <1>1, <2>2, <3>1, <3>2 DEF GenerateNextKeyId
  <2>3. QED
    BY <2>1, <2>2
<1>10. Idle(k)
  <2> SUFFICES ASSUME OneUnused(k) PROVE FALSE
    BY <1>4
  <2>1. PICK q \in Unused(k) : q.id = First(k)
    BY OneIsUnused
  <2>2. ~reset /\ q.id # r.id
    BY <1>3
  <2>3. First(l) = First(k)
    BY <1>2, <2>2 DEF First
  <2>4. QED
    BY <1>9, <2>1, <2>2, <2>3
<1>11. l.rotations = {r} /\ l.timers = <<>>
  BY <1>1, <1>2, <1>10 DEF Idle
<1>12. ~Idle(l) /\ OneUnused(l)
  BY <1>9, <1>11 DEF Idle, OneUnused
<1>13. ASSUME NEW i PROVE i \in DOMAIN l.mKeyMap <=> i \in Nat /\ i < First(l)
  <2>1. CASE reset
    <3>1. DOMAIN l.mKeyMap = {} /\ First(l) = 0
      BY <1>2, <2>1, EmptyPartial DEF First
    <3>2. QED
      BY <3>1
  <2>2. CASE ~reset
    <3>1. First(l) = First(k) /\ l.mKeyMap = k.mKeyMap
      BY <1>2, <2>2 DEF First
    <3>2. QED
      BY <1>4, <3>1
  <2>3. QED
    BY <2>1, <2>2
<1>14. QED
  BY <1>3, <1>7, <1>10, <1>12, <1>13 DEF Numbered

LEMMA SendKeyNumbered ==
    ASSUME Types, Numbered(call, keys, sfu), NEW r \in keys.rotations, SendKey(r)
    PROVE  /\ Numbered(call', keys', sfu') /\ keys'.clash = keys.clash
           /\ ~keys.clash => /\ r.id = First(keys) /\ keys.timers = <<>>
                             /\ keys'.timers = <<r>>
<1>1. /\ call' = call /\ sfu' = sfu /\ r \in Rotation
      /\ keys'.mCurrentkeyId = keys.mCurrentkeyId /\ keys'.mKeyMap = keys.mKeyMap
      /\ keys'.clash = keys.clash
      /\ keys'.rotations = keys.rotations \ {r} /\ keys'.timers = Append(keys.timers, r)
  BY SendKeyTypes
<1> SUFFICES ASSUME ~keys.clash
             PROVE  /\ Numbered(call', keys', sfu') /\ r.id = First(keys)
                    /\ keys.timers = <<>> /\ keys'.timers = <<r>>
  BY <1>1 DEF Numbered
<1>2. ~Idle(keys)
  BY DEF Idle
<1>3. PICK q \in Rotation : q.id = First(keys) /\ keys.rotations = {q} /\ keys.timers = <<>>
  BY <1>2 DEF Numbered, OneUnused
<1>4. q = r
  BY <1>3
<1>5. keys'.rotations = {} /\ keys'.timers = <<r>>
  BY <1>1, <1>3, <1>4
<1>6. First(keys') = First(keys)
  BY <1>1 DEF First
<1>7. <<r>> # <<>>
  OBVIOUS
<1>8. ~Idle(keys')
  BY <1>5, <1>7 DEF Idle
<1>9. OneUnused(keys')
  BY <1>1, <1>3, <1>4, <1>5, <1>6 DEF OneUnused
<1>10. Numbered(call', keys', sfu')
  BY <1>1, <1>2, <1>6, <1>8, <1>9 DEF Numbered
<1>11. QED
  BY <1>3, <1>4, <1>5, <1>10

LEMMA UseKeyNumbered ==
    ASSUME Types, Numbered(call, keys, sfu), UseKey
    PROVE  /\ Numbered(call', keys', sfu') /\ keys'.clash = keys.clash
           /\ ~keys.clash => /\ keys'.timers = <<>> /\ keys.timers = <<Head(keys.timers)>>
                             /\ Head(keys.timers).id = First(keys)
                             /\ Head(keys.timers).id \notin DOMAIN keys.mKeyMap
<1> DEFINE r == Head(keys.timers)
<1>1. /\ call' = call /\ sfu' = sfu /\ keys.timers # <<>> /\ r \in Rotation
      /\ keys'.mCurrentkeyId = r.id
      /\ \A i : i \in DOMAIN keys'.mKeyMap <=> i \in DOMAIN keys.mKeyMap \/ i = r.id
      /\ keys'.clash = keys.clash
      /\ keys'.rotations = keys.rotations /\ keys'.timers = Tail(keys.timers)
  BY UseKeyTypes
<1> SUFFICES ASSUME ~keys.clash
             PROVE  /\ Numbered(call', keys', sfu') /\ keys'.timers = <<>>
                    /\ keys.timers = <<r>> /\ r.id = First(keys)
                    /\ r.id \notin DOMAIN keys.mKeyMap
  BY <1>1 DEF Numbered
<1>2. ~Idle(keys)
  BY <1>1 DEF Idle
<1>3. PICK q \in Rotation : q.id = First(keys) /\ keys.rotations = {} /\ keys.timers = <<q>>
  BY <1>1, <1>2 DEF Numbered, OneUnused
<1>4. r = q /\ Tail(keys.timers) = <<>>
  BY <1>3
<1>. HIDE DEF r
<1>5. r.id = First(keys) /\ keys.timers = <<r>> /\ keys'.timers = <<>> /\ keys'.rotations = {}
  BY <1>1, <1>3, <1>4
<1>6. Idle(keys')
  BY <1>5 DEF Idle
<1>7. First(keys) \in Nat
  BY FirstType DEF Types
<1>8. First(keys') = First(keys) + 1
  <2>1. r.id \in DOMAIN keys'.mKeyMap
    BY <1>1
  <2>2. QED
    BY <1>1, <1>5, <2>1 DEF First
<1>9. \A i : i \in DOMAIN keys.mKeyMap <=> i \in Nat /\ i < First(keys)
  BY DEF Numbered
<1>10. ASSUME NEW i PROVE i \in DOMAIN keys'.mKeyMap <=> i \in Nat /\ i < First(keys')
  <2>1. i \in Nat => (i < First(keys) + 1 <=> i < First(keys) \/ i = First(keys))
    BY <1>7
  <2>2. QED
    BY <1>1, <1>5, <1>7, <1>8, <1>9, <2>1
<1>11. First(keys) + 1 + Cardinality(Spare(call, sfu)) <= Cardinality(Cids) + 1
  BY <1>2 DEF Numbered
<1>12. First(keys') + 0 + Cardinality(Spare(call', sfu')) <= Cardinality(Cids) + 1
  <2>1. Fewer(call, sfu, call, sfu)
    BY DEF Fewer
  <2>2. Cardinality(Spare(call, sfu)) \in Nat
    BY <2>1, SpareFewer
  <2>3. QED
    BY <1>1, <1>7, <1>8, <1>11, <2>2
<1>13. Numbered(call', keys', sfu')
  BY <1>6, <1>10, <1>12 DEF Numbered
<1>14. r.id \notin DOMAIN keys.mKeyMap
  BY <1>5, <1>7, <1>9
<1>15. QED
  BY <1>5, <1>13, <1>14

LEMMA VerifiedNumbered ==
    ASSUME FewEnough, Types, JoinsOnce(call, sfu), Numbered(call, keys, sfu),
           NEW check \in call.checks, NEW ok \in BOOLEAN, Verified(check, ok)
    PROVE  /\ Numbered(call', keys', sfu')
           /\ keys' # keys /\ ~keys'.clash => Idle(keys) /\ ~keys.clash
<1>. Verifies(check, ok)
  BY VerifiedDoes
<1>1. /\ keys \in KeySets /\ sfu' = sfu /\ call'.checks = call.checks \ {check}
      /\ check \in Checks
  BY DEF Types, Verifies, Calls
<1>2. Fewer(call, sfu, call', sfu')
  <2>1. [Next]_vars
    BY DEF Next
  <2>2. QED
    BY <2>1, NextOnce
<1>3. CASE keys' = keys
  BY <1>1, <1>2, <1>3, SameNumbered
<1>4. CASE Rotated(keys, keys', TRUE)
  BY <1>1, <1>2, <1>4, RotatedNumbered
<1>5. CASE ~check.answer /\ Rotated(keys, keys', FALSE)
  <2>1. check.cid \in Cids
    BY <1>1 DEF Checks
  <2>2. Joinable(call, sfu, check.cid)
    BY <1>5 DEF Joinable
  <2>3. ~Joinable(call', sfu', check.cid)
    BY <1>1, <1>5 DEF JoinsOnce, Joinable
  <2>4. QED
    BY <1>1, <1>2, <1>5, <2>1, <2>2, <2>3, RotatedNumbered
<1>6. QED
  BY <1>3, <1>4, <1>5, VerifiedKeys

\* What a step does to the keys
LEMMA HandleCommandNumbered ==
    ASSUME FewEnough, Types, JoinsOnce(call, sfu), Numbered(call, keys, sfu), HandleCommand
    PROVE  /\ Numbered(call', keys', sfu')
           /\ keys' # keys /\ ~keys'.clash => Idle(keys) /\ ~keys.clash
<1>1. keys' = keys \/ Rotated(keys, keys', TRUE)
  BY HandleCommandKeys
<1>2. Fewer(call, sfu, call', sfu')
  BY HandleCommandOnce
<1>3. keys \in KeySets
  BY DEF Types
<1>4. CASE keys' = keys
  BY <1>2, <1>3, <1>4, SameNumbered
<1>5. CASE Rotated(keys, keys', TRUE)
  BY <1>2, <1>3, <1>5, RotatedNumbered
<1>6. QED
  BY <1>1, <1>4, <1>5

LEMMA NextNumbered ==
    ASSUME FewEnough, Types, JoinsOnce(call, sfu), Numbered(call, keys, sfu), [Next]_vars
    PROVE  Numbered(call', keys', sfu')
<1>1. Fewer(call, sfu, call', sfu') /\ keys \in KeySets
  BY NextOnce DEF Types
<1>2. CASE /\ keys'.clash = keys.clash /\ keys'.rotations = keys.rotations
           /\ keys'.timers = keys.timers /\ keys'.mKeyMap = keys.mKeyMap
           /\ keys'.mCurrentkeyId = keys.mCurrentkeyId
  BY <1>1, <1>2, SameNumbered
<1>3. CASE \E cid \in Cids : PeerJoins(cid)
  BY <1>2, <1>3 DEF PeerJoins
<1>4. ASSUME NEW cid \in Cids, PeerLeaves(cid) PROVE Numbered(call', keys', sfu')
  <2>1. keys' = [keys EXCEPT !.got[cid] = Empty]
    BY <1>4 DEF PeerLeaves
  <2>2. QED
    BY <1>1, <1>2, <2>1 DEF KeySets
<1>5. CASE HandleCommand
  BY <1>5, HandleCommandNumbered
<1>6. CASE \E check \in call.checks, ok \in BOOLEAN : Verified(check, ok)
  BY <1>6, VerifiedNumbered
<1>7. CASE \E answer \in call.answers, ok \in BOOLEAN : DescriptionSet(answer, ok)
  BY <1>2, <1>7 DEF DescriptionSet
<1>8. CASE \E rotation \in keys.rotations : SendKey(rotation)
  BY <1>8, SendKeyNumbered
<1>9. CASE UseKey
  BY <1>9, UseKeyNumbered
<1>10. CASE EncryptFrame
  BY <1>2, <1>10, EncryptFrameTypes
<1>11. CASE \E why \in {"socket", "media", "chatd"} : LoseSfu(why)
  <2>1. keys' = [keys EXCEPT !.encryptor = None, !.got = [cid \in Cids |-> Empty]]
    BY <1>11, LoseSfuTypes
  <2>2. QED
    BY <1>1, <1>2, <2>1 DEF KeySets
<1>12. CASE JoinSfu
  BY <1>2, <1>12 DEF JoinSfu
<1>13. CASE UNCHANGED vars
  BY <1>2, <1>13 DEF vars
<1>14. QED
  BY <1>3, <1>4, <1>5, <1>6, <1>7, <1>8, <1>9, <1>10, <1>11, <1>12, <1>13 DEF Next

-----------------------------------------------------------------------------
(* The keys that a peer has are those that our client has under their ids *)

Agrees(k, cid) ==
    \A i \in DOMAIN k.got[cid] :
        /\ i \in DOMAIN k.mKeyMap => k.got[cid][i] = k.mKeyMap[i]
        /\ \A j \in DOMAIN k.timers : k.timers[j].id = i => k.got[cid][i] = k.timers[j].key

Agreeing(c, k) == ~k.clash => \A cid \in Cids : Rejected(c, cid) \/ Agrees(k, cid)

\* No peer is given a key.
LEMMA StillAgreeing ==
    ASSUME NEW c, NEW d, NEW k, NEW l, Agreeing(c, k), Kept(c, d, l),
           ~l.clash => ~k.clash, l.timers = k.timers,
           l.mKeyMap = k.mKeyMap \/ DOMAIN l.mKeyMap = {},
           \A cid \in Cids : DOMAIN l.got[cid] = {} \/ l.got[cid] = k.got[cid]
    PROVE  Agreeing(d, l)
<1> SUFFICES ASSUME ~l.clash, NEW cid \in Cids, ~Rejected(d, cid) PROVE Agrees(l, cid)
  BY DEF Agreeing
<1>1. CASE DOMAIN l.got[cid] = {}
  BY <1>1 DEF Agrees
<1>2. CASE DOMAIN l.got[cid] # {}
  <2>1. ~Rejected(c, cid)
    BY <1>2 DEF Kept
  <2>2. Agrees(k, cid) /\ l.got[cid] = k.got[cid]
    BY <1>2, <2>1 DEF Agreeing
  <2>3. QED
    BY <2>2 DEF Agrees
<1>3. QED
  BY <1>1, <1>2

LEMMA RotatedAgreeing ==
    ASSUME NEW c, NEW d, NEW k, NEW l, NEW reset \in BOOLEAN, Agreeing(c, k), Kept(c, d, l),
           l = k \/ Rotated(k, l, reset), k.clash \in BOOLEAN
    PROVE  Agreeing(d, l)
<1>1. /\ ~l.clash => ~k.clash
      /\ l.timers = k.timers /\ l.got = k.got
      /\ l.mKeyMap = k.mKeyMap \/ l.mKeyMap = Empty
  BY DEF Rotated
<1>2. DOMAIN Empty = {}
  BY EmptyPartial
<1>3. QED
  BY <1>1, <1>2, StillAgreeing

LEMMA SendKeyAgreeing ==
    ASSUME Types, Served(call, keys, sfu), Numbered(call, keys, sfu), Agreeing(call, keys),
           NEW r \in keys.rotations, SendKey(r)
    PROVE  Agreeing(call', keys')
<1>1. /\ call' = call /\ keys'.mKeyMap = keys.mKeyMap /\ keys'.clash = keys.clash
      /\ ~keys.clash => r.id = First(keys) /\ keys'.timers = <<r>>
  BY SendKeyTypes, SendKeyNumbered
<1> SUFFICES ASSUME ~keys.clash, NEW cid \in Cids, ~Rejected(call, cid)
             PROVE  Agrees(keys', cid)
  BY <1>1 DEF Agreeing
<1>2. keys'.timers = <<r>> /\ r.id = First(keys) /\ First(keys) \in Nat
  BY <1>1, FirstType DEF Types
<1>3. \A j \in DOMAIN keys'.timers : keys'.timers[j] = r
  BY <1>2
<1>4. r.id \notin DOMAIN keys.mKeyMap
  BY <1>2 DEF Numbered
<1>5. Agrees(keys, cid)
  BY DEF Agreeing
<1>6. CASE sfu.joined /\ Reached(call, sfu, cid)
  <2>1. /\ keys'.got[cid][r.id] = r.key
        /\ \A i : i \in DOMAIN keys'.got[cid] <=> i \in DOMAIN keys.got[cid] \/ i = r.id
        /\ \A i \in DOMAIN keys.got[cid] : i # r.id => keys'.got[cid][i] = keys.got[cid][i]
    BY <1>6, SendKeyTypes
  <2>2. QED
    BY <1>1, <1>3, <1>4, <1>5, <2>1 DEF Agrees
<1>7. CASE ~(sfu.joined /\ Reached(call, sfu, cid))
  <2>1. keys'.got[cid] = keys.got[cid]
    BY <1>7, SendKeyTypes
  <2>2. DOMAIN keys'.got[cid] = {}
    BY <1>7, <2>1 DEF Served
  <2>3. QED
    BY <2>2 DEF Agrees
<1>8. QED
  BY <1>6, <1>7

LEMMA UseKeyAgreeing ==
    ASSUME Types, Numbered(call, keys, sfu), Agreeing(call, keys), UseKey
    PROVE  Agreeing(call', keys')
<1> DEFINE r == Head(keys.timers)
<1>1. /\ call' = call /\ keys'.clash = keys.clash /\ keys'.got = keys.got
      /\ keys.timers # <<>>
      /\ \A i : i \in DOMAIN keys'.mKeyMap <=> i \in DOMAIN keys.mKeyMap \/ i = r.id
      /\ keys'.mKeyMap[r.id] = r.key
      /\ \A i \in DOMAIN keys.mKeyMap : i # r.id => keys'.mKeyMap[i] = keys.mKeyMap[i]
  BY UseKeyTypes
<1>2. ~keys.clash => keys'.timers = <<>> /\ keys.timers = <<r>>
  BY UseKeyNumbered
<1>. HIDE DEF r
<1> SUFFICES ASSUME ~keys.clash, NEW cid \in Cids, ~Rejected(call, cid)
             PROVE  Agrees(keys', cid)
  BY <1>1 DEF Agreeing
<1>3. Agrees(keys, cid)
  BY DEF Agreeing
<1>4. 1 \in DOMAIN keys.timers /\ keys.timers[1] = r /\ DOMAIN keys'.timers = {}
  BY <1>2
<1>5. ASSUME NEW i \in DOMAIN keys'.got[cid], i \in DOMAIN keys'.mKeyMap
      PROVE  keys'.got[cid][i] = keys'.mKeyMap[i]
  <2>1. CASE i = r.id
    BY <1>1, <1>3, <1>4, <1>5, <2>1 DEF Agrees
  <2>2. CASE i # r.id
    BY <1>1, <1>3, <1>5, <2>2 DEF Agrees
  <2>3. QED
    BY <2>1, <2>2
<1>6. QED
  BY <1>4, <1>5 DEF Agrees

LEMMA NextAgreeing ==
    ASSUME FewEnough, Types, Meeting, Served(call, keys, sfu), Numbered(call, keys, sfu),
           Agreeing(call, keys), [Next]_vars
    PROVE  Agreeing(call', keys')
<1>1. Kept(call, call', keys') /\ keys \in KeySets /\ keys.clash \in BOOLEAN
  BY NextServed DEF Types, KeySets
<1>2. CASE keys' = keys \/ Rotated(keys, keys', TRUE) \/ Rotated(keys, keys', FALSE)
  BY <1>1, <1>2, RotatedAgreeing
<1>3. CASE \E cid \in Cids : PeerJoins(cid)
  BY <1>2, <1>3 DEF PeerJoins
<1>4. ASSUME NEW cid \in Cids, PeerLeaves(cid) PROVE Agreeing(call', keys')
  <2>1. keys' = [keys EXCEPT !.got[cid] = Empty] /\ DOMAIN Empty = {}
    BY <1>4, EmptyPartial DEF PeerLeaves
  <2>2. /\ keys'.clash = keys.clash /\ keys'.timers = keys.timers /\ keys'.mKeyMap = keys.mKeyMap
        /\ \A z \in Cids : DOMAIN keys'.got[z] = {} \/ keys'.got[z] = keys.got[z]
    BY <1>1, <2>1 DEF KeySets
  <2>3. QED
    BY <1>1, <2>2, StillAgreeing
<1>5. CASE HandleCommand
  BY <1>2, <1>5, HandleCommandKeys
<1>6. CASE \E check \in call.checks, ok \in BOOLEAN : Verified(check, ok)
  BY <1>2, <1>6, VerifiedKeys
<1>7. CASE \E answer \in call.answers, ok \in BOOLEAN : DescriptionSet(answer, ok)
  BY <1>2, <1>7 DEF DescriptionSet
<1>8. CASE \E rotation \in keys.rotations : SendKey(rotation)
  BY <1>8, SendKeyAgreeing
<1>9. CASE UseKey
  BY <1>9, UseKeyAgreeing
<1>10. CASE EncryptFrame
  <2>1. /\ keys'.clash = keys.clash /\ keys'.timers = keys.timers
        /\ keys'.mKeyMap = keys.mKeyMap /\ keys'.got = keys.got
    BY <1>10, EncryptFrameTypes
  <2>2. QED
    BY <1>1, <2>1, StillAgreeing
<1>11. CASE \E why \in {"socket", "media", "chatd"} : LoseSfu(why)
  <2>1. /\ keys' = [keys EXCEPT !.encryptor = None, !.got = [cid \in Cids |-> Empty]]
        /\ DOMAIN Empty = {}
    BY <1>11, LoseSfuTypes, EmptyPartial
  <2>2. /\ keys'.clash = keys.clash /\ keys'.timers = keys.timers /\ keys'.mKeyMap = keys.mKeyMap
        /\ \A z \in Cids : DOMAIN keys'.got[z] = {}
    BY <1>1, <2>1 DEF KeySets
  <2>3. QED
    BY <1>1, <2>2, StillAgreeing
<1>12. CASE JoinSfu
  BY <1>2, <1>12 DEF JoinSfu
<1>13. CASE UNCHANGED vars
  BY <1>2, <1>13 DEF vars
<1>14. QED
  BY <1>3, <1>4, <1>5, <1>6, <1>7, <1>8, <1>9, <1>10, <1>11, <1>12, <1>13 DEF Next

-----------------------------------------------------------------------------
(* The encryptor has a key of the ANSWER that is in use *)

Encrypting(c, k, s) ==
    ~k.clash /\ ~c.stale /\ Alive(c) /\ k.encryptor # None =>
        /\ s.joined /\ c.mState = "InProgress"
        /\ k.encryptor.id \in DOMAIN k.mKeyMap
        /\ k.encryptor.key = k.mKeyMap[k.encryptor.id]

LEMMA StillEncrypting ==
    ASSUME NEW c, NEW d, NEW k, NEW l, NEW s, NEW t, Encrypting(c, k, s),
           ~l.clash => ~k.clash, ~d.stale => ~c.stale, Alive(d) => Alive(c),
           c.mState = "InProgress" /\ Alive(d) => d.mState = "InProgress",
           l.encryptor = k.encryptor, t.joined = s.joined, l.mKeyMap = k.mKeyMap
    PROVE  Encrypting(d, l, t)
BY DEF Encrypting

\* An ANSWER that is concluded empties mKeyMap before our client is in progress again.
LEMMA ResetEncrypting ==
    ASSUME NEW c, NEW d, NEW k, NEW l, NEW s, NEW t, Encrypting(c, k, s),
           Rotated(k, l, TRUE), k.clash \in BOOLEAN, ~d.stale => ~c.stale, Alive(c),
           ~d.stale /\ Alive(d) => c.mState # "InProgress"
    PROVE  Encrypting(d, l, t)
<1>1. (~l.clash => ~k.clash) /\ l.encryptor = k.encryptor
  BY DEF Rotated
<1>2. QED
  BY <1>1 DEF Encrypting

LEMMA HandleCommandEncrypting ==
    ASSUME Types, Encrypting(call, keys, sfu), HandleCommand
    PROVE  Encrypting(call', keys', sfu')
<1>1. /\ keys' = keys \/ (Rotated(keys, keys', TRUE) /\ call.mState = "Joining")
      /\ call'.mState = call.mState \/ ~Alive(call')
      /\ call'.stale = call.stale
  BY HandleCommandKeys
<1>2. Alive(call) /\ sfu'.joined = sfu.joined /\ keys.clash \in BOOLEAN
  BY DEF HandleCommand, Live, Alive, Types, KeySets, Sfus
<1>3. CASE keys' = keys
  BY <1>1, <1>2, <1>3, StillEncrypting
<1>4. CASE Rotated(keys, keys', TRUE) /\ call.mState = "Joining"
  BY <1>1, <1>2, <1>4, ResetEncrypting
<1>5. QED
  BY <1>1, <1>3, <1>4

LEMMA VerifiedEncrypting ==
    ASSUME Types, Meeting, Encrypting(call, keys, sfu),
           NEW check \in call.checks, NEW ok \in BOOLEAN, Verified(check, ok)
    PROVE  Encrypting(call', keys', sfu')
<1>. Verifies(check, ok)
  BY VerifiedDoes
<1>1. /\ call'.mState = call.mState \/ ~Alive(call')
      /\ ~call'.stale => ~call.stale
  BY VerifiedAnswers
<1>2. Alive(call) /\ sfu' = sfu /\ keys.clash \in BOOLEAN
  BY DEF Verified, Verifies, Live, Alive, Types, KeySets
<1>3. CASE keys' = keys
  BY <1>1, <1>2, <1>3, StillEncrypting
<1>4. CASE Rotated(keys, keys', FALSE)
  <2>1. /\ ~keys'.clash => ~keys.clash
        /\ keys'.mKeyMap = keys.mKeyMap /\ keys'.encryptor = keys.encryptor
    BY <1>2, <1>4 DEF Rotated
  <2>2. QED
    BY <1>1, <1>2, <2>1, StillEncrypting
<1>5. CASE /\ Rotated(keys, keys', TRUE)
           /\ Alive(call') /\ ~call'.stale => \E a \in call.answers : a.round = call.round
  <2>1. CASE keys.encryptor = None
    BY <1>5, <2>1 DEF Rotated, Encrypting
  <2>2. CASE ~sfu.joined
    BY <1>1, <1>2, <1>5, <2>2 DEF Rotated, Encrypting
  <2>3. CASE sfu.joined
    <3>1. ~call'.stale /\ Alive(call') => call.mState # "InProgress"
      BY <1>1, <1>2, <1>5, <2>3 DEF Meeting, Told
    <3>2. QED
      BY <1>1, <1>2, <1>5, <3>1, ResetEncrypting
  <2>4. QED
    BY <2>2, <2>3
<1>6. QED
  BY <1>3, <1>4, <1>5, VerifiedKeys

LEMMA NextEncrypting ==
    ASSUME Types, Meeting, Numbered(call, keys, sfu), Encrypting(call, keys, sfu), [Next]_vars
    PROVE  Encrypting(call', keys', sfu')
<1>1. keys \in KeySets
  BY DEF Types
<1>2. CASE /\ call' = call /\ sfu'.joined = sfu.joined /\ keys'.clash = keys.clash
           /\ keys'.encryptor = keys.encryptor /\ keys'.mKeyMap = keys.mKeyMap
  BY <1>2, StillEncrypting
<1>3. CASE \E cid \in Cids : PeerJoins(cid)
  BY <1>2, <1>3, PeerJoinsTypes
<1>4. ASSUME NEW cid \in Cids, PeerLeaves(cid) PROVE Encrypting(call', keys', sfu')
  <2>1. /\ call' = call /\ keys' = [keys EXCEPT !.got[cid] = Empty]
        /\ sfu'.joined = sfu.joined
    BY <1>4, PeerLeavesTypes
  <2>2. QED
    BY <1>1, <1>2, <2>1 DEF KeySets
<1>5. CASE HandleCommand
  BY <1>5, HandleCommandEncrypting
<1>6. CASE \E check \in call.checks, ok \in BOOLEAN : Verified(check, ok)
  BY <1>6, VerifiedEncrypting
<1>7. ASSUME NEW answer \in call.answers, NEW ok \in BOOLEAN, DescriptionSet(answer, ok)
      PROVE  Encrypting(call', keys', sfu')
  <2>1. /\ keys' = keys /\ sfu' = sfu /\ call'.stale = call.stale /\ Alive(call)
        /\ call'.mState = IF ~ok THEN "Ended"
                          ELSE IF call.mState = "Joining" THEN "InProgress" ELSE call.mState
    BY <1>7, DescriptionSetTypes DEF Live, Alive
  <2>2. call.mState = "InProgress" /\ Alive(call') => call'.mState = "InProgress"
    BY <2>1 DEF Alive
  <2>3. QED
    BY <2>1, <2>2, StillEncrypting
<1>8. CASE \E rotation \in keys.rotations : SendKey(rotation)
  BY <1>2, <1>8, SendKeyTypes
<1>9. CASE UseKey
  <2> DEFINE r == Head(keys.timers)
  <2>1. /\ call' = call /\ sfu' = sfu /\ keys'.clash = keys.clash
        /\ keys'.encryptor = keys.encryptor
        /\ \A i : i \in DOMAIN keys'.mKeyMap <=> i \in DOMAIN keys.mKeyMap \/ i = r.id
        /\ \A i \in DOMAIN keys.mKeyMap : i # r.id => keys'.mKeyMap[i] = keys.mKeyMap[i]
    BY <1>9, UseKeyTypes
  <2>2. ~keys.clash => r.id \notin DOMAIN keys.mKeyMap
    BY <1>9, UseKeyNumbered
  <2>. HIDE DEF r
  <2>3. QED
    BY <2>1, <2>2 DEF Encrypting
<1>10. CASE EncryptFrame
  <2>1. /\ call' = call /\ sfu' = sfu /\ keys'.mKeyMap = keys.mKeyMap
        /\ keys.mCurrentkeyId \in DOMAIN keys.mKeyMap
        /\ keys'.encryptor = [id |-> keys.mCurrentkeyId,
                              key |-> keys.mKeyMap[keys.mCurrentkeyId]]
        /\ sfu.joined /\ call.mState = "InProgress"
    BY <1>10, EncryptFrameTypes
  <2>2. keys'.encryptor.id = keys.mCurrentkeyId
        /\ keys'.encryptor.key = keys.mKeyMap[keys.mCurrentkeyId]
    BY <2>1
  <2>3. QED
    BY <2>1, <2>2 DEF Encrypting
<1>11. CASE \E why \in {"socket", "media", "chatd"} : LoseSfu(why)
  <2>1. keys' = [keys EXCEPT !.encryptor = None, !.got = [cid \in Cids |-> Empty]]
    BY <1>11, LoseSfuTypes
  <2>2. keys'.encryptor = None
    BY <1>1, <2>1 DEF KeySets
  <2>3. QED
    BY <2>2 DEF Encrypting
<1>12. CASE JoinSfu
  <2>1. /\ Alive(call) /\ ~sfu.joined /\ keys' = keys /\ call'.stale = call.stale
    BY <1>12, JoinSfuTypes DEF Live, Alive
  <2>2. QED
    BY <2>1 DEF Encrypting
<1>13. CASE UNCHANGED vars
  BY <1>2, <1>13 DEF vars
<1>14. QED
  BY <1>3, <1>4, <1>5, <1>6, <1>7, <1>8, <1>9, <1>10, <1>11, <1>12, <1>13 DEF Next

Frames ==
    /\ JoinsOnce(call, sfu) /\ Served(call, keys, sfu) /\ Numbered(call, keys, sfu)
    /\ Agreeing(call, keys) /\ Encrypting(call, keys, sfu)

LEMMA InitFrames == Init => Frames
<1> SUFFICES ASSUME Init PROVE Frames
  OBVIOUS
<1>1. /\ call.checks = {} /\ keys.encryptor = None /\ keys.rotations = {} /\ keys.timers = <<>>
      /\ keys.mKeyMap = Empty /\ keys.got = [cid \in Cids |-> Empty]
  BY DEF Init
<1>2. DOMAIN Empty = {} /\ \A cid \in Cids : DOMAIN keys.got[cid] = {}
  BY <1>1, EmptyPartial
<1>3. JoinsOnce(call, sfu) /\ Served(call, keys, sfu) /\ Agreeing(call, keys)
  BY <1>1, <1>2 DEF JoinsOnce, Served, Agreeing, Agrees
<1>4. Encrypting(call, keys, sfu)
  BY <1>1 DEF Encrypting
<1>5. Numbered(call, keys, sfu)
  <2>1. First(keys) = 0 /\ Idle(keys)
    BY <1>1, <1>2 DEF First, Idle
  <2>2. Fewer(call, sfu, call, sfu)
    BY DEF Fewer
  <2>3. /\ Cardinality(Spare(call, sfu)) <= Cardinality(Cids) /\ Cardinality(Cids) \in Nat
        /\ Cardinality(Spare(call, sfu)) \in Nat
    BY <2>2, SpareFewer
  <2>4. 0 + 0 + Cardinality(Spare(call, sfu)) <= Cardinality(Cids) + 1
    BY <2>3
  <2>5. \A i : i \in DOMAIN keys.mKeyMap <=> i \in Nat /\ i < 0
    BY <1>1, <1>2
  <2>6. QED
    BY <2>1, <2>4, <2>5 DEF Numbered
<1>6. QED
  BY <1>3, <1>4, <1>5 DEF Frames

LEMMA NextFrames == FewEnough /\ Types /\ Meeting /\ Frames /\ [Next]_vars => Frames'
<1> SUFFICES ASSUME FewEnough, Types, Meeting, Frames, [Next]_vars PROVE Frames'
  OBVIOUS
<1>1. /\ JoinsOnce(call, sfu) /\ Served(call, keys, sfu) /\ Numbered(call, keys, sfu)
      /\ Agreeing(call, keys) /\ Encrypting(call, keys, sfu)
  BY DEF Frames
<1>2. JoinsOnce(call', sfu')
  BY <1>1, NextOnce
<1>3. Served(call', keys', sfu')
  BY <1>1, NextServed
<1>4. Numbered(call', keys', sfu')
  BY <1>1, NextNumbered
<1>5. Agreeing(call', keys')
  BY <1>1, NextAgreeing
<1>6. Encrypting(call', keys', sfu')
  BY <1>1, NextEncrypting
<1>7. QED
  BY <1>2, <1>3, <1>4, <1>5, <1>6 DEF Frames

LEMMA FramesImply == Types /\ Frames => FramesReadable
<1> SUFFICES ASSUME Types, Frames, Settled, keys.encryptor # None, ~keys.clash, ~call.stale,
                    NEW cid \in sfu.meeting \cap DOMAIN call.mSessions, call.mSessions[cid],
                    keys.encryptor.id \in DOMAIN keys.got[cid]
             PROVE  keys.got[cid][keys.encryptor.id] = keys.encryptor.key
  BY DEF FramesReadable
<1>1. cid \in Cids /\ ~Rejected(call, cid)
  BY DEF Types, Sfus, CallOk, Rejected
<1>2. Agrees(keys, cid)
  BY <1>1 DEF Frames, Agreeing
<1>3. /\ keys.encryptor.id \in DOMAIN keys.mKeyMap
      /\ keys.encryptor.key = keys.mKeyMap[keys.encryptor.id]
  BY DEF Settled, Alive, Frames, Encrypting
<1>4. QED
  BY <1>2, <1>3 DEF Agrees

\* As long as there are no more clients than key ids, a frame is encrypted with the key that
\* the verified peers have been sent under its id, in a call in which no rotation clashed
\* with another and no ANSWER of another connection was used.
THEOREM FramesReadableHolds == ASSUME FewEnough PROVE Spec => []FramesReadable
<1>1. Types /\ Meeting /\ Frames /\ [Next]_vars => Frames'
  BY NextFrames
<1>2. QED
  BY <1>1, InitFrames, AlwaysMeeting, FramesImply, PTL DEF Spec
=============================================================================
