------------------------------ MODULE SfuCall ------------------------------
(***************************************************************************)
(* One call of one chat (class rtcModule::Call, src/src/rtcModule/         *)
(* webrtc.cpp) and its connection to the SFU (class sfu::SfuConnection,    *)
(* src/src/sfu.cpp): joining, the waiting room, the commands that go out   *)
(* one by one, hanging up with a BYE, losing the socket or the media,      *)
(* reconnecting, and the removal that chatd orders.                        *)
(*                                                                         *)
(* All of it runs on one thread.  What can go wrong is the order of what   *)
(* comes back: the callbacks of libwebsockets, the marshalled calls, three *)
(* timers, and the continuations of createOffer and setRemoteDescription,  *)
(* which look at the state of the call but not at which attempt to join    *)
(* they belong to.                                                         *)
(*                                                                         *)
(* The members of Call, of its SfuConnection and of the socket are the     *)
(* fields of one record, so that a method that calls another is a function *)
(* of the record.  Peers, keys and media are in CallPeers.                 *)
(***************************************************************************)
EXTENDS Naturals, Sequences, SequencesExt, FiniteSets

CONSTANTS
    WaitingRooms,   \* the "waiting room" flags a HELLO may carry
    MaxFaults,      \* bound: sockets, requests and offers that fail
    MaxSlow,        \* bound: attempts and calls that run into their timeout
    MaxCalls,       \* bound: what the user and chatd ask for
    MaxMessages     \* bound: BYE, error and push messages of the SFU, and other commands

ASSUME CallAssumption ==
    /\ WaitingRooms \subseteq BOOLEAN
    /\ {MaxFaults, MaxSlow, MaxCalls, MaxMessages} \subseteq Nat

VARIABLES
    call,     \* the Call and what it waits for
    conn,     \* its SfuConnection, with the socket
    budget    \* what is left of the bounds

vars == <<call, conn, budget>>

NoConnection ==
    [mConnState      |-> "none",     \* there is no SfuConnection
     mConnectTimer   |-> "off",      \* off, connect (kConnectTimeout) or backoff
     mRetryCtrl      |-> "none",     \* none, attempt or wait
     mCommandsQueue  |-> <<>>,
     isSending       |-> FALSE,
     mIsSendingBye   |-> FALSE,
     mAvoidReconnect |-> FALSE,
     mInitialBackoff |-> FALSE,      \* it is not zero
     ctx             |-> "none",     \* the socket: none, opening or open
     out             |-> "none",     \* the command libwebsockets has to write
     sfu             |-> "none"]     \* what the SFU has seen and said on this socket

NoCall ==
    [mState                 |-> "none",  \* there is no Call
     mConnectTimer          |-> "off",   \* off, armed, or fired and still set
     mIsJoining             |-> FALSE,
     mIsDestroyingCall      |-> FALSE,
     mIsReconnectingToChatd |-> FALSE,
     mConnInitialTs         |-> FALSE,   \* it is valid
     mSfuConnection         |-> FALSE,   \* the pointer is set
     mRtcConn               |-> FALSE,   \* there is a peer connection
     request                |-> FALSE,   \* joinChatCall in flight
     offers                 |-> 0,       \* joinSfu waits for createOffer
     answers                |-> 0,       \* handleAnswerCommand waits for the keys and the SDP
     todo                   |-> <<>>]    \* marshalled calls

Participating == {"Connecting", "InWaitingRoom", "Joining", "InProgress"}

\* a call and its connection: what the methods below work on
Now        == [call |-> call, conn |-> conn]
Becomes(s) == call' = s.call /\ conn' = s.conn

Online(k)   == k.mConnState \in {"Connected", "Joining", "Joined"}
ToSfu(s)    == s.call.mSfuConnection /\ Online(s.conn)
SendsBye(s) == s.call.mSfuConnection /\ s.conn.mIsSendingBye

Marshall(s, f) == [s EXCEPT !.call.todo = Append(@, f)]

-----------------------------------------------------------------------------
(* SfuConnection *)

\* setConnState(kDisconnected): what libwebsockets had to write is lost
SetDisconnected(k) ==
    IF k.mConnState = "Disconnected" THEN k
    ELSE [k EXCEPT !.mConnState = "Disconnected", !.mConnectTimer = "connect",
                   !.ctx = "none", !.out = "none", !.sfu = "none"]

\* an attempt of the retry controller, as far as the DNS request
Attempt(k) ==
    [SetDisconnected(k) EXCEPT !.mConnState = "Resolving", !.mRetryCtrl = "attempt"]

\* reconnect()
Reconnect(k) ==
    IF k.mConnState \notin {"New", "Disconnected"} THEN k
    ELSE Attempt([k EXCEPT !.mConnState = "Resolving"])

\* mutant: the connect timer is cancelled and the one of the backoff is not started
DoReconnectUntimed(k, applyInitialBackoff) ==
    IF k.mAvoidReconnect THEN k
    ELSE IF applyInitialBackoff /\ k.mInitialBackoff
    THEN [k EXCEPT !.mConnectTimer = "off"]
    ELSE Reconnect([k EXCEPT !.mConnectTimer = "off"])

\* doReconnect()
DoReconnect(k, applyInitialBackoff) ==
    IF k.mAvoidReconnect THEN k
    ELSE IF applyInitialBackoff /\ k.mInitialBackoff
    THEN [k EXCEPT !.mConnectTimer = "backoff"]
    ELSE Reconnect([k EXCEPT !.mConnectTimer = "off"])

\* retryPendingConnection()
RetryPendingConnection(k, disconnect) ==
    IF k.mConnState = "New" THEN k
    ELSE IF disconnect
    THEN DoReconnect([SetDisconnected(k) EXCEPT !.mRetryCtrl = "none"], Online(k))
    ELSE IF k.mRetryCtrl = "wait" THEN Attempt(k) ELSE k

\* onByeCommandSent() only marshalls
OnByeCommandSent(s) == Marshall(s, "byeSent")

\* commands that a closed socket refuses, as far as a BYE
Refuse(s) ==
    LET queue  == s.conn.mCommandsQueue
        before == {i \in DOMAIN queue :
                      ~s.conn.mIsSendingBye /\ \A j \in 1 .. i : queue[j] # "BYE"}
    IN IF before = DOMAIN queue THEN [s EXCEPT !.conn.mCommandsQueue = <<>>]
       ELSE OnByeCommandSent(
                [s EXCEPT !.conn.mIsSendingBye = TRUE,
                          !.conn.mCommandsQueue =
                              SubSeq(queue, Cardinality(before) + 2, Len(queue))])

\* processNextCommand(false)
ProcessNextCommand(s) ==
    LET queue == s.conn.mCommandsQueue
    IN IF queue = <<>> \/ s.conn.isSending THEN s
       ELSE IF s.conn.ctx = "none" THEN Refuse(s)
       ELSE [s EXCEPT !.conn.isSending = TRUE,
                      !.conn.out = Head(queue),
                      !.conn.mCommandsQueue = Tail(queue),
                      !.conn.mIsSendingBye = @ \/ Head(queue) = "BYE"]

\* sendCommand(), addNewCommand()
SendCommand(s, command) ==
    IF ~Online(s.conn) THEN s
    ELSE ProcessNextCommand([s EXCEPT !.conn.mCommandsQueue = Append(@, command)])

\* clearCommandsQueue()
ClearCommandsQueue(k) ==
    [k EXCEPT !.mIsSendingBye = FALSE, !.mCommandsQueue = <<>>, !.isSending = FALSE]

-----------------------------------------------------------------------------
(* Call *)

\* setState()
SetState(s, new) ==
    LET timer == s.call.mConnectTimer
    IN IF new = s.call.mState THEN s
       ELSE [s EXCEPT !.call.mState = new,
                      !.call.mConnectTimer =
                          IF new \in {"InWaitingRoom", "InProgress", "Terminating"} THEN "off"
                          ELSE IF new = "Connecting" /\ timer = "off" THEN "armed" ELSE timer,
                      !.call.mConnInitialTs =
                          new = "InProgress" \/ (@ /\ ~(new = "Connecting" /\ timer = "off"))]

\* mediaChannelDisconnect(): the peer connection is closed
MediaChannelDisconnect(s) == [s EXCEPT !.call.mRtcConn = FALSE]

\* mutant: the connection is kept, in a state that nothing else knows of
CloseSfuConnectionKept(s) ==
    IF s.call.mSfuConnection
    THEN [s EXCEPT !.conn.mConnState = "Closed", !.call.mSfuConnection = FALSE] ELSE s

\* closeSfuConnection()
CloseSfuConnection(s) ==
    IF s.call.mSfuConnection
    THEN [s EXCEPT !.conn = NoConnection, !.call.mSfuConnection = FALSE] ELSE s

\* mutant: the connection to the SFU is left open when the SFU had not answered yet
DisconnectFromSfuJoined(s) ==
    LET wasJoined == s.call.mSfuConnection /\ s.conn.mConnState = "Joined"
        left      == IF wasJoined THEN CloseSfuConnection(SetState(s, "Terminating"))
                                  ELSE SetState(s, "Terminating")
    IN IF s.call.mIsDestroyingCall \/ wasJoined THEN left
       ELSE SetState(left, "ClientNoParticipating")

\* disconnectFromSfu(): its caller has just cleared the sessions
DisconnectFromSfu(s) ==
    LET wasJoined == s.call.mSfuConnection /\ s.conn.mConnState = "Joined"
        left      == CloseSfuConnection(SetState(s, "Terminating"))
    IN IF s.call.mIsDestroyingCall \/ wasJoined THEN left
       ELSE SetState(left, "ClientNoParticipating")

\* immediateCallDisconnect()
ImmediateCallDisconnect(s, retriable) ==
    IF retriable \/ s.call.mState = "Terminating" THEN s
    ELSE DisconnectFromSfu(MediaChannelDisconnect(s))

\* mutant: the connection is closed before the BYE has been written
OrderedCallDisconnectAtOnce(s, forceDisconnect) ==
    IF (s.call.mIsDestroyingCall /\ ~forceDisconnect) \/ SendsBye(s) THEN s
    ELSE ImmediateCallDisconnect(IF ToSfu(s) THEN SendCommand(s, "BYE") ELSE s, FALSE)

\* orderedCallDisconnect()
OrderedCallDisconnect(s, forceDisconnect) ==
    IF (s.call.mIsDestroyingCall /\ ~forceDisconnect) \/ SendsBye(s) THEN s
    ELSE IF ToSfu(s) THEN SendCommand(s, "BYE")
    ELSE ImmediateCallDisconnect(s, FALSE)

\* removeCallImmediately(): the continuations and marshalled calls find the Call deleted
RemoveCallImmediately(s, retriable) ==
    [ImmediateCallDisconnect(s, retriable) EXCEPT !.call = NoCall]

\* RtcModuleSfu::onDestroyCall(), setDestroying()
OnDestroyCall(s) ==
    IF s.call.mIsDestroyingCall THEN s
    ELSE LET t == [s EXCEPT !.call.mIsDestroyingCall = TRUE,
                            !.conn.mAvoidReconnect = s.call.mSfuConnection \/ @]
         IN IF ToSfu(t) THEN OrderedCallDisconnect(t, TRUE)
                        ELSE RemoveCallImmediately(t, FALSE)

\* mutant: a call whose BYE was lost with the socket waits for it
OnSfuDisconnectedForgets(s) ==
    IF s.call.mIsDestroyingCall THEN s
    ELSE SetState(MediaChannelDisconnect(s), "Connecting")

\* onSfuDisconnected()
OnSfuDisconnected(s) ==
    IF s.call.mIsDestroyingCall THEN Marshall(s, "remove")
    ELSE SetState(MediaChannelDisconnect(s), "Connecting")

\* SfuConnection::onSocketClose()
OnSocketClose(s) ==
    LET t == [OnSfuDisconnected(s) EXCEPT !.conn.mIsSendingBye = FALSE]
        k == SetDisconnected(t.conn)
    IN [t EXCEPT !.conn = IF Online(s.conn) THEN DoReconnect(k, TRUE)
                          ELSE [k EXCEPT !.mRetryCtrl = "wait"]]

\* connectSfu(), createSfuConnection(), connect()
ConnectSfu(s) ==
    [SetState(s, "Connecting") EXCEPT
        !.call.mSfuConnection = TRUE,
        !.conn = DoReconnect([NoConnection EXCEPT !.mConnState = "New"], FALSE)]

\* joinSfu(), as far as createOffer
JoinSfu(s) ==
    LET t == SetState(s, "Joining")
    IN [t EXCEPT !.call.mRtcConn = TRUE, !.call.offers = @ + 1]

-----------------------------------------------------------------------------
Spend(kind) == budget[kind] > 0 /\ budget' = [budget EXCEPT ![kind] = @ - 1]
Free        == UNCHANGED budget

\* A marshalled call runs before the next wait for the network (MegaChatApiImpl::loop):
\* only callbacks of the same wait come before it.
Settled == call.todo = <<>>
HasCall == call.mState # "none"

(* What chatd and the user do *)

\* OP_CALLSTATE or OP_JOINEDCALL of a call that is not known: handleNewCall()
NewCall ==
    /\ Settled /\ ~HasCall /\ Spend("calls")
    /\ Becomes([Now EXCEPT !.call = [NoCall EXCEPT !.mState = "ClientNoParticipating"]])

\* startCall(): the API has created the call and gives the URL
StartCall ==
    /\ Settled /\ ~HasCall /\ Spend("calls")
    /\ Becomes(ConnectSfu([Now EXCEPT !.call = [NoCall EXCEPT !.mState = "Initial"]]))

\* join(), asked for by answerChatCall() or startChatCall()
Join ==
    /\ Settled /\ HasCall /\ Spend("calls")
    /\ call.mState \notin Participating \cup {"Initial"}
    /\ ~call.mIsJoining
    /\ Becomes([Now EXCEPT !.call.mIsJoining = TRUE, !.call.request = TRUE])

\* the answer of joinChatCall; the handler of an error does not reset mIsJoining
JoinAnswered ==
    /\ call.request /\ Free
    /\ Becomes(ConnectSfu([Now EXCEPT !.call.request = FALSE, !.call.mIsJoining = FALSE]))

JoinRefused ==
    /\ call.request /\ Spend("faults")
    /\ Becomes([Now EXCEPT !.call.request = FALSE])

\* hangup(), and rtcOrderedCallDisconnect() of a user who leaves the chat
Hangup ==
    /\ Settled /\ HasCall /\ Spend("calls")
    /\ Becomes(OrderedCallDisconnect(Now, FALSE))

\* any other command: audio and video flags, speaker requests, keys
SendOther ==
    /\ Settled /\ call.mSfuConnection /\ Spend("messages")
    /\ Becomes(SendCommand(Now, "OTHER"))

\* OP_DELCALLREASON, OP_CALLEND
CallDeleted ==
    /\ HasCall /\ Spend("calls")
    /\ Becomes(OnDestroyCall(Now))

\* onDisconnectFromChatd()
ChatdLost ==
    /\ HasCall /\ ~call.mIsReconnectingToChatd /\ Spend("calls")
    /\ Becomes([Now EXCEPT !.call.mIsReconnectingToChatd = TRUE])

\* joinedCallUpdateParticipants()
ChatdJoinedCall ==
    /\ HasCall /\ call.mIsReconnectingToChatd /\ Free
    /\ Becomes([Now EXCEPT !.call.mIsReconnectingToChatd = FALSE])

\* setOnlineState(kChatStateOnline): the call has participants, or none is left
ChatdOnline ==
    /\ HasCall /\ call.mIsReconnectingToChatd /\ Spend("calls")
    /\ \E noParticipants \in BOOLEAN :
        Becomes(IF noParticipants THEN OrderedCallDisconnect(Now, FALSE)
                ELSE IF call.mState \in Participating
                THEN [Now EXCEPT !.conn = RetryPendingConnection(conn, TRUE)]
                ELSE Now)

-----------------------------------------------------------------------------
(* Timers and marshalled calls *)

\* the lambda of setState(kStateConnecting), after kConnectingTimeout
CallTimeout ==
    /\ call.mConnectTimer = "armed" /\ Spend("slow")
    /\ Becomes(IF call.mState \notin {"Initial", "ClientNoParticipating", "Connecting"}
               THEN [Now EXCEPT !.call.mConnectTimer = "fired"]
               ELSE LET s == [Now EXCEPT !.call.mConnectTimer = "off"]
                    IN IF call.mIsReconnectingToChatd THEN OnDestroyCall(s)
                       ELSE OrderedCallDisconnect(s, FALSE))

\* mConnectTimer of the SfuConnection
ConnectTimeout ==
    /\ conn.mConnectTimer = "connect" /\ Spend("slow")
    /\ Becomes([Now EXCEPT
           !.conn = RetryPendingConnection([conn EXCEPT !.mConnectTimer = "off"], TRUE)])

BackoffTimeout ==
    /\ conn.mConnectTimer = "backoff" /\ Free
    /\ Becomes([Now EXCEPT !.conn = Reconnect([conn EXCEPT !.mConnectTimer = "off"])])

\* the retry controller: an attempt lasts too long; the wait for the next one is over, or
\* cut short by SfuClient::retryPendingConnections(false)
AttemptTimeout ==
    /\ conn.mRetryCtrl = "attempt" /\ Spend("slow")
    /\ Becomes([Now EXCEPT !.conn.mRetryCtrl = "wait"])

NextAttempt ==
    /\ conn.mRetryCtrl = "wait" /\ Free
    /\ Becomes([Now EXCEPT !.conn = Attempt(conn)])

\* onByeCommandSent()
ByeSent(s) ==
    IF ~s.call.mSfuConnection THEN s
    ELSE IF s.call.mIsDestroyingCall THEN RemoveCallImmediately(s, FALSE)
    ELSE IF s.call.mState = "Connecting"
    THEN [s EXCEPT !.conn = RetryPendingConnection(ClearCommandsQueue(s.conn), TRUE)]
    ELSE ImmediateCallDisconnect(s, FALSE)

\* a marshalled call: of onByeCommandSent(), onSfuDisconnected(), handleBye() or error()
RunMarshalled ==
    /\ call.todo # <<>> /\ Free
    /\ LET s == [Now EXCEPT !.call.todo = Tail(@)]
       IN Becomes(CASE Head(call.todo) = "byeSent" -> ByeSent(s)
                    [] Head(call.todo) = "remove"  -> RemoveCallImmediately(s, TRUE)
                    [] Head(call.todo) = "leave"   -> ImmediateCallDisconnect(s, FALSE))

-----------------------------------------------------------------------------
(* The socket *)

\* doConnect(): the address is known
DoConnect ==
    /\ conn.mConnState = "Resolving" /\ Settled /\ Free
    /\ Becomes([Now EXCEPT !.conn.mConnState = "Connecting", !.conn.ctx = "opening"])

\* wsConnectCb()
Connected ==
    /\ conn.ctx = "opening" /\ Settled /\ Free
    /\ LET k == [conn EXCEPT !.ctx = "open", !.sfu = "new"]
       IN Becomes([Now EXCEPT !.conn =
              IF conn.mConnState # "Connecting" THEN k
              ELSE [k EXCEPT !.mConnState = "Connected", !.mInitialBackoff = TRUE,
                             !.mRetryCtrl = "none", !.mConnectTimer = "off"]])

\* the DNS request or the connection fails, or the socket is closed
SocketClosed ==
    /\ conn.mConnState = "Resolving" \/ conn.ctx # "none"
    /\ call.mSfuConnection /\ Spend("faults")
    /\ Becomes(OnSocketClose(Now))

\* the SFU closes the socket of a client that does not join, or that said BYE; a close that
\* is followed by a new attempt counts against the bound
SfuGivesUp ==
    /\ conn.ctx = "open" /\ conn.sfu \in {"waiting", "admitted", "left", "byed"}
    /\ call.mSfuConnection /\ Settled
    /\ IF conn.mAvoidReconnect THEN Free ELSE Spend("slow")
    /\ Becomes(OnSocketClose(Now))

\* wsProcessNextMsgCb(): a command has been written
CommandWritten ==
    /\ conn.ctx = "open" /\ conn.out # "none" /\ Free
    /\ LET s == [Now EXCEPT !.conn.out = "none", !.conn.isSending = FALSE,
                            !.conn.sfu = CASE conn.out = "JOIN" /\ @ = "admitted" -> "joining"
                                           [] conn.out = "BYE" /\ @ # "left" -> "byed"
                                           [] OTHER -> @]
       IN Becomes(IF conn.mIsSendingBye THEN OnByeCommandSent(s) ELSE ProcessNextCommand(s))

-----------------------------------------------------------------------------
(* What the SFU sends *)

FromSfu(stages) == conn.ctx = "open" /\ call.mSfuConnection /\ conn.sfu \in stages

\* handleHello()
Hello ==
    /\ FromSfu({"new"}) /\ Settled /\ Free
    /\ \E wr \in WaitingRooms, allowed \in BOOLEAN :
        LET s == [Now EXCEPT !.conn.sfu = IF wr /\ ~allowed THEN "waiting" ELSE "admitted"]
        IN Becomes(IF wr /\ ~allowed THEN SetState(s, "InWaitingRoom") ELSE JoinSfu(s))

\* handleWrAllow(), or handleModAdd() of the own user
WrAllow ==
    /\ FromSfu({"waiting"}) /\ Settled /\ Free
    /\ LET s == [Now EXCEPT !.conn.sfu = "admitted"]
       IN Becomes(IF call.mState = "InWaitingRoom" THEN JoinSfu(s) ELSE s)

\* handleBye() with "wr": pushIntoWr()
PushedIntoWaitingRoom ==
    /\ TRUE \in WaitingRooms
    /\ FromSfu({"admitted", "joining", "joined"}) /\ Spend("messages")
    /\ LET s == [Now EXCEPT !.conn.sfu = "waiting"]
       IN Becomes(IF call.mIsDestroyingCall THEN s
                  ELSE SetState(MediaChannelDisconnect(s), "InWaitingRoom"))

\* handleBye(), and error() with a code that cannot be retried
SfuEndsCall ==
    /\ FromSfu({"new", "waiting", "admitted", "joining", "joined"}) /\ Spend("messages")
    /\ LET s == [Now EXCEPT !.conn.sfu = "left"]
       IN Becomes(IF call.mIsDestroyingCall THEN s ELSE Marshall(s, "leave"))

\* processDeny() of a JOIN
JoinDenied ==
    /\ FromSfu({"joining"}) /\ Spend("messages")
    /\ LET s == [Now EXCEPT !.conn.sfu = "admitted"]
       IN Becomes(IF call.mState = "Joining" THEN OrderedCallDisconnect(s, FALSE) ELSE s)

\* handleAnswerCommand(), as far as the verification of the keys
Answer ==
    /\ FromSfu({"joining"}) /\ Settled /\ Free
    /\ LET s == [Now EXCEPT !.conn.sfu = "joined"]
       IN Becomes(IF call.mState # "Joining" THEN s
                  ELSE [s EXCEPT !.call.answers = @ + 1, !.conn.mInitialBackoff = FALSE,
                                 !.conn.mConnState = "Joined"])

-----------------------------------------------------------------------------
(* The continuations of webrtc and of the API *)

\* createOffer and setLocalDescription of joinSfu() are done
OfferCreated ==
    /\ call.offers > 0 /\ Free
    /\ LET s == [Now EXCEPT !.call.offers = @ - 1]
       IN Becomes(IF call.mState # "Joining" THEN s
                  ELSE SendCommand([s EXCEPT !.conn.mConnState = "Joining"], "JOIN"))

\* they fail, or the flags of a user who may not speak are refused
OfferFailed ==
    /\ call.offers > 0 /\ Spend("faults")
    /\ Becomes(OrderedCallDisconnect([Now EXCEPT !.call.offers = @ - 1], FALSE))

\* the keys of the peers are verified and setRemoteDescription is done
AnswerApplied ==
    /\ call.answers > 0 /\ Free
    /\ LET s == [Now EXCEPT !.call.answers = @ - 1]
       IN Becomes(IF call.mState # "Joining" THEN s ELSE SetState(s, "InProgress"))

\* no key is valid, or setRemoteDescription fails
AnswerFailed ==
    /\ call.answers > 0 /\ Spend("faults")
    /\ Becomes(OrderedCallDisconnect([Now EXCEPT !.call.answers = @ - 1], FALSE))

\* onConnectionChange(kDisconnected): the media are lost, or there never was a path for them.
\* isUdpDisconnected() takes a call for one of the latter unless it has been in progress since it
\* connected, which one pushed back into the waiting room and admitted again has.
MediaLost ==
    /\ call.mRtcConn /\ call.mSfuConnection /\ ~call.mIsDestroyingCall
    /\ call.mState \in {"Joining", "InProgress"} /\ Spend("faults")
    /\ \E noMediaPath \in BOOLEAN :
        /\ call.mConnInitialTs \/ noMediaPath
        /\ Becomes(IF noMediaPath THEN OrderedCallDisconnect(Now, FALSE)
                   ELSE IF ~Online(conn)
                   THEN [SetState(Now, "Connecting") EXCEPT
                            !.conn = RetryPendingConnection(ClearCommandsQueue(conn), TRUE)]
                   ELSE IF ~conn.mIsSendingBye
                   THEN SendCommand(SetState(Now, "Connecting"), "BYE")
                   ELSE Now)

\* onConnectionChange(kConnected)
MediaConnected ==
    /\ call.mRtcConn /\ call.mSfuConnection /\ Spend("calls")
    /\ Becomes([Now EXCEPT !.conn = RetryPendingConnection(conn, ~Online(conn))])

-----------------------------------------------------------------------------
Init ==
    /\ call = NoCall
    /\ conn = NoConnection
    /\ budget = [faults |-> MaxFaults, slow |-> MaxSlow, calls |-> MaxCalls,
                 messages |-> MaxMessages]

FromChatd   == NewCall \/ CallDeleted \/ ChatdLost \/ ChatdJoinedCall \/ ChatdOnline
FromUser    == StartCall \/ Join \/ JoinAnswered \/ JoinRefused \/ Hangup \/ SendOther
Timers      == CallTimeout \/ ConnectTimeout \/ BackoffTimeout \/ AttemptTimeout \/ NextAttempt
Socket      == \/ DoConnect \/ Connected \/ SocketClosed \/ SfuGivesUp \/ CommandWritten
SfuMessages == Hello \/ WrAllow \/ PushedIntoWaitingRoom \/ SfuEndsCall \/ JoinDenied \/ Answer
Webrtc      == \/ OfferCreated \/ OfferFailed \/ AnswerApplied \/ AnswerFailed
               \/ MediaLost \/ MediaConnected

Next == FromChatd \/ FromUser \/ Timers \/ RunMarshalled \/ Socket \/ SfuMessages \/ Webrtc

Spec == Init /\ [][Next]_vars

\* The loop runs what is marshalled, libwebsockets writes what it holds, timers expire,
\* the API and webrtc answer, and the SFU drops a client that does not join.
FairSpec ==
    /\ Spec
    /\ WF_vars(RunMarshalled) /\ WF_vars(CommandWritten) /\ WF_vars(SfuGivesUp)
    /\ WF_vars(BackoffTimeout) /\ WF_vars(NextAttempt)
    /\ WF_vars(DoConnect) /\ WF_vars(Connected) /\ WF_vars(Hello) /\ WF_vars(Answer)
    /\ WF_vars(JoinAnswered) /\ WF_vars(OfferCreated) /\ WF_vars(AnswerApplied)

-----------------------------------------------------------------------------
(* Properties *)

CallStates == {"none", "Initial", "ClientNoParticipating", "Terminating"} \cup Participating
ConnStates == {"none", "New", "Disconnected", "Resolving", "Connecting", "Connected",
               "Joining", "Joined"}
Commands   == {"JOIN", "BYE", "OTHER"}

TypeOK ==
    /\ call \in [mState : CallStates, mConnectTimer : {"off", "armed", "fired"},
                 mIsJoining : BOOLEAN, mIsDestroyingCall : BOOLEAN, mConnInitialTs : BOOLEAN,
                 mIsReconnectingToChatd : BOOLEAN, mSfuConnection : BOOLEAN,
                 mRtcConn : BOOLEAN, request : BOOLEAN, offers : Nat, answers : Nat,
                 todo : Seq({"byeSent", "remove", "leave"})]
    /\ conn \in [mConnState : ConnStates, mConnectTimer : {"off", "connect", "backoff"},
                 mRetryCtrl : {"none", "attempt", "wait"}, mCommandsQueue : Seq(Commands),
                 isSending : BOOLEAN, mIsSendingBye : BOOLEAN, mAvoidReconnect : BOOLEAN,
                 mInitialBackoff : BOOLEAN, ctx : {"none", "opening", "open"},
                 out : Commands \cup {"none"},
                 sfu : {"none", "new", "waiting", "admitted", "joining", "joined", "left", "byed"}]
    /\ budget \in [{"faults", "slow", "calls", "messages"} -> Nat]

\* A user takes part in a call exactly while the call holds a connection to the SFU; when
\* he does not, the peer connection, with microphone and camera, is closed as well.
LeftMeansClosed ==
    /\ call.mState \in Participating <=> call.mSfuConnection
    /\ call.mSfuConnection => conn.mConnState \notin {"none", "New"}
    /\ call.mRtcConn => call.mState \in Participating

\* A connection that is not online and that may be retried has a timer or a retry
\* controller at work: it cannot be left waiting for nothing.
Supervised ==
    call.mSfuConnection /\ ~Online(conn) /\ ~conn.mAvoidReconnect =>
        conn.mConnectTimer # "off" \/ conn.mRetryCtrl # "none"

\* The client never drops an open socket to leave the call unless the SFU had ended the
\* call or been told with a BYE.
NeverLeavesSilently ==
    [][call.mSfuConnection /\ ~call'.mSfuConnection /\ conn.ctx = "open" =>
           conn.sfu \in {"left", "byed"}]_vars

\* A call that chatd deletes while its connection is open is removed in the end, whether its
\* BYE is written, stuck in the queue or lost with the socket.  Three things get in the way,
\* each left out: the connection to chatd is lost and comes back meanwhile and drops the
\* socket; the SFU had just ended the call; a late offer had left the connect timer running.
DestroyedEventually ==
    (/\ conn.mAvoidReconnect /\ conn.ctx = "open" /\ conn.mConnectTimer = "off"
     /\ ~Contains(call.todo, "leave"))
        ~> ~HasCall \/ call.mIsReconnectingToChatd
=============================================================================
