----------------------------- MODULE CallPeers -----------------------------
(***************************************************************************)
(* The peers of a call (class rtcModule::Call, src/src/rtcModule/          *)
(* webrtc.cpp): a peer that the SFU announces is pending until the         *)
(* signature of its ephemeral key has been verified, then has a session;   *)
(* when the set of peers grows, our client sends everyone a new media key, *)
(* and uses it a little later.                                             *)
(*                                                                         *)
(* The keys of the peers come from the user attribute cache, so that a     *)
(* verification may take long, and end after the peer has left or after    *)
(* the connection has been lost and a new ANSWER has arrived.  How the     *)
(* connection comes and goes is in SfuCall; here it is lost in three ways, *)
(* which differ in what they clear, and joined again.                      *)
(***************************************************************************)
EXTENDS Naturals, Sequences, FiniteSets

CONSTANTS
    Cids,         \* the clients that may be in the meeting, each of them once
    LastKeyId,    \* the key id after which they start again (255)
    MaxDrops,     \* bound: how often the connection is lost
    MaxFaults     \* bound: verifications and descriptions that fail

ASSUME PeersAssumption ==
    /\ IsFiniteSet(Cids)
    /\ {LastKeyId, MaxDrops, MaxFaults} \subseteq Nat

VARIABLES
    call,      \* the Call, and the continuations that wait
    keys,      \* our own media keys and who has been sent which
    sfu,       \* the meeting, and what the SFU has sent to our client
    budget     \* what is left of the bounds

vars == <<call, keys, sfu, budget>>

Empty == <<>>
None  == [id |-> LastKeyId + 1, key |-> 0]

\* what the methods below work on
Now        == [call |-> call, keys |-> keys]
Becomes(s) == call' = s.call /\ keys' = s.keys

\* std::map: elements that are set and erased
PutAll(f, S, y) == [x \in DOMAIN f \cup S |-> IF x \in S THEN y ELSE f[x]]
Put(f, x, y)    == PutAll(f, {x}, y)
Without(f, x)   == [y \in DOMAIN f \ {x} |-> f[y]]

-----------------------------------------------------------------------------
(* Our media keys *)

\* mutant: a new key has the id of the one in use
GenerateNextKeyIdInUse(k) == k.mCurrentkeyId

\* generateNextKeyId()
GenerateNextKeyId(k) ==
    IF k.mCurrentkeyId >= LastKeyId \/ DOMAIN k.mKeyMap = {} THEN 0 ELSE k.mCurrentkeyId + 1

\* resetKeys()
ResetKeys(k) == [k EXCEPT !.mCurrentkeyId = 0, !.mKeyMap = Empty]

\* Peer::addKey()
AddKey(k, id, key) == [k EXCEPT !.mCurrentkeyId = id, !.mKeyMap = Put(@, id, key)]

\* the rotations that are not done: their keys are to be sent, or to be used
Unused(k) == k.rotations \cup {k.timers[i] : i \in DOMAIN k.timers}

\* generateAndSendNewMediakey(), as far as the request of the public keys.  clash notes, for FramesReadable, a
\* rotation that starts while another has its id or belongs to an ANSWER before
GenerateAndSendNewMediakey(s, reset) ==
    LET k  == IF reset THEN ResetKeys(s.keys) ELSE s.keys
        id == GenerateNextKeyId(k)
    IN [s EXCEPT !.keys =
           [k EXCEPT !.rotations = @ \cup {[id |-> id, key |-> k.fresh]},
                     !.fresh = @ + 1,
                     !.clash = @ \/ \E r \in Unused(k) : reset \/ r.id = id]]

-----------------------------------------------------------------------------
(* Peers *)

Pending(c, cid) == cid \in DOMAIN c.mPeersVerification /\ c.mPeersVerification[cid] = "pending"

\* mutant: a peer is added even if it has left, or was announced on another connection
AddPeerAlways(s, cid, ok) ==
    [s EXCEPT !.call.mSessions = Put(@, cid, ok),
              !.call.mPeersVerification = Put(@, cid, IF ok THEN "resolved" ELSE "rejected")]

\* addPeer(), fullfilPeerPms()
AddPeer(s, cid, ok) ==
    IF ~Pending(s.call, cid) THEN s
    ELSE [s EXCEPT !.call.mSessions = Put(@, cid, ok),
                   !.call.mPeersVerification[cid] = IF ok THEN "resolved" ELSE "rejected"]

\* keyDerivationPms is resolved: the continuation looks neither at the state of the call nor
\* at which connection the ANSWER came from
KeysDerived(s, answer) ==
    LET t == [s EXCEPT !.call.answers = @ \ {a \in @ : a.round = answer.round}]
    IN IF answer.asked # 0 /\ ~answer.any THEN [t EXCEPT !.call.mState = "Ended"]
       ELSE IF ~t.call.mRtcConn
       THEN [GenerateAndSendNewMediakey(t, TRUE) EXCEPT !.call.mState = "Crashed"]
       ELSE [GenerateAndSendNewMediakey(t, TRUE) EXCEPT
                 !.call.answers = @ \cup {[answer EXCEPT !.stage = "sdp"]},
                 !.call.stale = @ \/ answer.round # t.call.round]

\* onKeyVerified() of the ANSWER that the peer was in
OnKeyVerified(s, check, ok) ==
    LET answer == CHOOSE a \in s.call.answers : a.round = check.round
        counted == [answer EXCEPT !.left = @ - 1, !.any = @ \/ ok]
        t == [s EXCEPT !.call.answers = (@ \ {answer}) \cup {counted}]
    IN IF counted.left = 0 THEN KeysDerived(t, counted) ELSE t

\* mutant: the peer is added, and is never sent a key
VerifiedAfterJoinQuiet(s, cid, ok) == AddPeer(s, cid, ok)

\* addPeerWithEphemKey() of handlePeerJoin(): the key is sent whether or not the peer was added
VerifiedAfterJoin(s, cid, ok) == GenerateAndSendNewMediakey(AddPeer(s, cid, ok), FALSE)

\* addPendingPeer() and verifySignature() for each of the cids
Verify(s, cids, inAnswer) ==
    [s EXCEPT !.call.mPeersVerification = PutAll(@, cids, "pending"),
              !.call.checks = @ \cup {[cid |-> cid, round |-> s.call.round, answer |-> inAnswer] :
                                          cid \in cids}]

\* handleAnswerCommand()
HandleAnswerCommand(s, peers) ==
    IF s.call.mState # "Joining" THEN s
    ELSE LET answer == [round |-> s.call.round, stage |-> "keys", asked |-> Cardinality(peers),
                        left |-> Cardinality(peers), any |-> FALSE]
             t == [Verify(s, peers, TRUE) EXCEPT !.call.answers = @ \cup {answer}]
         IN IF peers = {} THEN KeysDerived(t, answer) ELSE t

InCall(c) == c.mState \in {"Joining", "InProgress"}

\* handlePeerJoin()
HandlePeerJoin(s, cid) ==
    IF ~InCall(s.call) \/ cid \in DOMAIN s.call.mPeersVerification THEN s
    ELSE Verify(s, {cid}, FALSE)

\* mutant: the promise of the peer stays
HandlePeerLeftPromised(s, cid) ==
    IF ~InCall(s.call) THEN s ELSE [s EXCEPT !.call.mSessions = Without(@, cid)]

\* handlePeerLeft(), with removePendingPeer()
HandlePeerLeft(s, cid) ==
    IF ~InCall(s.call) THEN s
    ELSE [s EXCEPT !.call.mPeersVerification = Without(@, cid),
                   !.call.mSessions = Without(@, cid)]

-----------------------------------------------------------------------------
Live == call.mState \notin {"Ended", "Crashed"}
Spend(kind) == budget[kind] > 0 /\ budget' = [budget EXCEPT ![kind] = @ - 1]
Free        == UNCHANGED budget

Deliver(msg) == IF sfu.joined THEN Append(sfu.inbox, msg) ELSE sfu.inbox

(* The other clients *)

PeerJoins(cid) ==
    /\ Live /\ cid \notin sfu.meeting \cup sfu.left
    /\ sfu' = [sfu EXCEPT !.meeting = @ \cup {cid},
                          !.inbox = Deliver([cmd |-> "PEERJOIN", peers |-> {cid}])]
    /\ UNCHANGED <<call, keys, budget>>

PeerLeaves(cid) ==
    /\ Live /\ cid \in sfu.meeting
    /\ sfu' = [sfu EXCEPT !.meeting = @ \ {cid}, !.left = @ \cup {cid},
                          !.inbox = Deliver([cmd |-> "PEERLEFT", peers |-> {cid}])]
    /\ keys' = [keys EXCEPT !.got[cid] = Empty]
    /\ UNCHANGED <<call, budget>>

(* Our client *)

HandleCommand ==
    /\ Live /\ sfu.inbox # <<>>
    /\ LET msg == Head(sfu.inbox)
       IN \/ msg.cmd = "ANSWER" /\ Becomes(HandleAnswerCommand(Now, msg.peers))
          \/ msg.cmd = "PEERJOIN" /\ \E cid \in msg.peers : Becomes(HandlePeerJoin(Now, cid))
          \/ msg.cmd = "PEERLEFT" /\ \E cid \in msg.peers : Becomes(HandlePeerLeft(Now, cid))
    /\ sfu' = [sfu EXCEPT !.inbox = Tail(@)]
    /\ Free

\* verifySignature() of a peer is done
Verified(check, ok) ==
    /\ Live /\ check \in call.checks
    /\ IF ok THEN Free ELSE Spend("faults")
    /\ LET s == [Now EXCEPT !.call.checks = @ \ {check}]
       IN Becomes(IF check.answer
                  THEN OnKeyVerified(AddPeer(s, check.cid, ok), check, ok)
                  ELSE VerifiedAfterJoin(s, check.cid, ok))
    /\ UNCHANGED sfu

\* setRemoteDescription() is done; the description of another connection may be refused
DescriptionSet(answer, ok) ==
    /\ Live /\ answer \in call.answers /\ answer.stage = "sdp"
    /\ IF ok \/ answer.round # call.round THEN Free ELSE Spend("faults")
    /\ call' = [call EXCEPT !.answers = @ \ {answer},
                            !.mState = IF ~ok THEN "Ended"
                                       ELSE IF @ = "Joining" THEN "InProgress" ELSE @]
    /\ UNCHANGED <<keys, sfu>>

\* the public keys are there: the key is sent to the verified peers of the moment
SendKey(rotation) ==
    /\ Live /\ rotation \in keys.rotations
    /\ keys' = [keys EXCEPT
           !.rotations = @ \ {rotation},
           !.timers = Append(@, rotation),
           !.got = [cid \in Cids |->
                        IF /\ sfu.joined /\ cid \in sfu.meeting
                           /\ cid \in DOMAIN call.mSessions /\ call.mSessions[cid]
                        THEN Put(@[cid], rotation.id, rotation.key) ELSE @[cid]]]
    /\ UNCHANGED <<call, sfu, budget>>

\* kRotateKeyUseDelay later our client starts to use it
UseKey ==
    /\ Live /\ keys.timers # <<>>
    /\ keys' = [AddKey(keys, Head(keys.timers).id, Head(keys.timers).key) EXCEPT !.timers = Tail(@)]
    /\ UNCHANGED <<call, sfu, budget>>

\* MegaEncryptor::Encrypt() takes a key when its id is not the one it has
EncryptFrame ==
    /\ call.mState = "InProgress" /\ sfu.joined
    /\ keys.mCurrentkeyId \in DOMAIN keys.mKeyMap /\ keys.mCurrentkeyId # keys.encryptor.id
    /\ keys' = [keys EXCEPT !.encryptor = [id |-> keys.mCurrentkeyId,
                                           key |-> keys.mKeyMap[keys.mCurrentkeyId]]]
    /\ UNCHANGED <<call, sfu, budget>>

(* The connection *)

\* It is lost because the socket closes (onSfuDisconnected()), because the media do
\* (onConnectionChange(), and then a BYE), or because chatd is back (reconnectToSfu()).  To
\* the peers we are another client when we join again, with another encryptor.
LoseSfu(why) ==
    /\ Live /\ sfu.joined /\ Spend("drops")
    /\ sfu' = [sfu EXCEPT !.joined = FALSE, !.inbox = <<>>]
    /\ call' = CASE why = "socket" ->
                      [call EXCEPT !.mState = "Connecting", !.mRtcConn = FALSE,
                                   !.mSessions = Empty, !.mPeersVerification = Empty]
                 [] why = "media" -> [call EXCEPT !.mState = "Connecting"]
                 [] why = "chatd" -> call
    /\ keys' = [keys EXCEPT !.encryptor = None, !.got = [cid \in Cids |-> Empty]]

\* HELLO, joinSfu() as far as the JOIN, and the SFU's ANSWER.  A description that was set on
\* the closed connection has been marshalled before.
JoinSfu ==
    /\ Live /\ ~sfu.joined
    /\ call' = [call EXCEPT !.mState = "Joining", !.mRtcConn = TRUE, !.round = @ + 1,
                            !.mPeersVerification = Empty,
                            !.answers = {a \in @ : a.stage = "keys"}]
    /\ sfu' = [sfu EXCEPT !.joined = TRUE,
                          !.inbox = <<[cmd |-> "ANSWER", peers |-> sfu.meeting]>>,
                          !.ghosts = DOMAIN call.mSessions \ sfu.meeting]
    /\ UNCHANGED <<keys, budget>>

-----------------------------------------------------------------------------
Init ==
    /\ call = [mState |-> "Connecting", mRtcConn |-> FALSE, mSessions |-> Empty,
               mPeersVerification |-> Empty, checks |-> {}, answers |-> {},
               round |-> 0, stale |-> FALSE]
    /\ keys = [mCurrentkeyId |-> 0, mKeyMap |-> Empty, rotations |-> {}, timers |-> <<>>,
               encryptor |-> None, got |-> [cid \in Cids |-> Empty], fresh |-> 1,
               clash |-> FALSE]
    /\ \E meeting \in SUBSET Cids :
        sfu = [meeting |-> meeting, left |-> {}, joined |-> FALSE, inbox |-> <<>>, ghosts |-> {}]
    /\ budget = [drops |-> MaxDrops, faults |-> MaxFaults]

Next ==
    \/ \E cid \in Cids : PeerJoins(cid) \/ PeerLeaves(cid)
    \/ HandleCommand
    \/ \E check \in call.checks, ok \in BOOLEAN : Verified(check, ok)
    \/ \E answer \in call.answers, ok \in BOOLEAN : DescriptionSet(answer, ok)
    \/ \E rotation \in keys.rotations : SendKey(rotation)
    \/ UseKey \/ EncryptFrame
    \/ \E why \in {"socket", "media", "chatd"} : LoseSfu(why)
    \/ JoinSfu

Spec == Init /\ [][Next]_vars

-----------------------------------------------------------------------------
(* Properties *)

Rotation == [id : 0 .. LastKeyId, key : Nat]

TypeOK ==
    /\ call.mState \in {"Connecting", "Joining", "InProgress", "Ended", "Crashed"}
    /\ DOMAIN call.mSessions \cup DOMAIN call.mPeersVerification \subseteq Cids
    /\ \A cid \in DOMAIN call.mPeersVerification :
        /\ call.mPeersVerification[cid] \in {"pending", "resolved", "rejected"}
        /\ call.mPeersVerification[cid] # "pending" =>
               /\ cid \in DOMAIN call.mSessions
               /\ call.mSessions[cid] = (call.mPeersVerification[cid] = "resolved")
    /\ \A check \in call.checks :
        check.answer => \E a \in call.answers : a.round = check.round /\ a.stage = "keys"
    /\ \A a \in call.answers :
        /\ a.left = Cardinality({check \in call.checks : check.answer /\ check.round = a.round})
        /\ a.stage = "sdp" <=> a.left = 0
    /\ keys.rotations \subseteq Rotation /\ \A i \in DOMAIN keys.timers : keys.timers[i] \in Rotation
    /\ keys.mCurrentkeyId \in 0 .. LastKeyId

\* Nothing is on its way, except the use of a key.
Settled ==
    /\ call.mState = "InProgress" /\ sfu.joined /\ sfu.inbox = <<>>
    /\ call.checks = {} /\ call.answers = {}

\* Once everything is handled there is a session for each client in the meeting and for no
\* other, whichever verifications ended after a PEERLEFT or on another connection.  Left out
\* are the sessions of clients that left while the client had to join again (sfu.ghosts),
\* which the code keeps, and a call that has used the ANSWER of another connection.
SessionsMatchMeeting ==
    Settled /\ ~call.stale => DOMAIN call.mSessions \ sfu.ghosts = sfu.meeting

\* When no key is about to be sent or used, every verified peer has been sent the current
\* key of our client, however joins, losses of the connection and slow requests interleave.
KeysConverge ==
    Settled /\ Unused(keys) = {} =>
        \A cid \in sfu.meeting \cap DOMAIN call.mSessions :
            call.mSessions[cid] =>
                /\ keys.mCurrentkeyId \in DOMAIN keys.mKeyMap \cap DOMAIN keys.got[cid]
                /\ keys.got[cid][keys.mCurrentkeyId] = keys.mKeyMap[keys.mCurrentkeyId]

\* A frame is encrypted with the key that verified peers have been sent under its id: the encryptor
\* takes a key by its id alone, and uses it after a delay that is there for the peers to have it
\* (webrtc.cpp:3203-3204).  Left out are a call in which a
\* rotation started while the key of another was still to be sent or used, with the same id or
\* before an ANSWER emptied mKeyMap (generateNextKeyId() counts from the id in use), and one
\* that has used the ANSWER of another connection.
FramesReadable ==
    Settled /\ Unused(keys) = {} /\ keys.encryptor # None /\ ~keys.clash /\ ~call.stale =>
        \A cid \in sfu.meeting \cap DOMAIN call.mSessions :
            call.mSessions[cid] /\ keys.encryptor.id \in DOMAIN keys.got[cid] =>
                keys.got[cid][keys.encryptor.id] = keys.encryptor.key
=============================================================================
