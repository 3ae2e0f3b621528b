--------------------------- MODULE SfuCall_proof ---------------------------
(***************************************************************************)
(* Proofs about SfuCall: the invariants of a call and its connection, and  *)
(* that a call is not left without a BYE, for every bound.  LeftMeansClosed *)
(* and Supervised are kept by every method; that an open socket is closed  *)
(* only once the SFU knows rests on what a marshalled call finds when it   *)
(* runs, and on what a BYE that is being sent leaves behind (Good).        *)
(***************************************************************************)
EXTENDS SfuCall, FiniteSetTheorems, SequenceTheorems, TLAPS

Todos == {"byeSent", "remove", "leave"}

Calls ==
    [mState : CallStates, mConnectTimer : {"off", "armed", "fired"},
     mIsJoining : BOOLEAN, mIsDestroyingCall : BOOLEAN, mConnInitialTs : BOOLEAN,
     mIsReconnectingToChatd : BOOLEAN, mSfuConnection : BOOLEAN,
     mRtcConn : BOOLEAN, request : BOOLEAN, offers : Nat, answers : Nat,
     todo : Seq(Todos)]

Stages == {"none", "new", "waiting", "admitted", "joining", "joined", "left", "byed"}

Conns ==
    [mConnState : ConnStates, mConnectTimer : {"off", "connect", "backoff"},
     mRetryCtrl : {"none", "attempt", "wait"}, mCommandsQueue : Seq(Commands),
     isSending : BOOLEAN, mIsSendingBye : BOOLEAN, mAvoidReconnect : BOOLEAN,
     mInitialBackoff : BOOLEAN, ctx : {"none", "opening", "open"},
     out : Commands \cup {"none"}, sfu : Stages]

States  == [call : Calls, conn : Conns]
Budgets == [{"faults", "slow", "calls", "messages"} -> Nat]

\* A socket is that of the state it was opened in, or of a late offer that made it kJoining.
SocketOk(k) ==
    /\ k \in Conns
    /\ k.ctx = "none" => k.out = "none"
    /\ k.ctx = "opening" => k.mConnState \in {"Connecting", "Connected", "Joining", "Joined"}
    /\ k.ctx = "open" => Online(k)

Begun(k)   == k.mConnState \notin {"none", "New"}

\* The timer of the backoff acts on a connection that is disconnected, and on no other.
Watched(k) ==
    ~Online(k) /\ ~k.mAvoidReconnect =>
        \/ k.mConnectTimer = "connect"
        \/ k.mConnectTimer = "backoff" /\ k.mConnState = "Disconnected"
        \/ k.mRetryCtrl # "none"

\* what LeftMeansClosed and Supervised say of a call and its connection
Sound(s) ==
    /\ s \in States /\ SocketOk(s.conn)
    /\ s.call.mState \in Participating <=> s.call.mSfuConnection
    /\ s.call.mSfuConnection => Begun(s.conn) /\ Watched(s.conn)
    /\ s.call.mRtcConn => s.call.mState \in Participating

\* the SFU has ended the call, or has been told that it ends
Over(k) == k.sfu \in {"left", "byed"}

ByePosted(s) == \E i \in DOMAIN s.call.todo : s.call.todo[i] = "byeSent"

\* A marshalled call finds the socket closed or the call over.  While a BYE is being sent, it
\* is what libwebsockets has to write, or was lost with the socket and keeps the queue from
\* sending, or what follows it is marshalled.
Good(s) ==
    /\ Sound(s)
    /\ s.call.mSfuConnection /\ s.call.todo # <<>> =>
           s.conn.ctx = "none" \/ (s.conn.ctx = "open" /\ Over(s.conn))
    /\ s.call.mSfuConnection /\ s.conn.mIsSendingBye =>
           (s.conn.isSending /\ s.conn.out \in {"none", "BYE"}) \/ ByePosted(s)

IInv == Good(Now) /\ budget \in Budgets

\* what NeverLeavesSilently says of a step
Silent(s, t) ==
    s.call.mSfuConnection /\ ~t.call.mSfuConnection /\ s.conn.ctx = "open" => Over(s.conn)

-----------------------------------------------------------------------------
(* The connection *)

\* A connection is retried: its socket is what it was, or closed.
Retried(k, l) ==
    /\ SocketOk(l) /\ (Begun(k) => Begun(l))
    /\ l.mIsSendingBye = k.mIsSendingBye /\ l.isSending = k.isSending
    /\ l.mAvoidReconnect = k.mAvoidReconnect
    /\ (l.ctx = k.ctx /\ l.out = k.out /\ l.sfu = k.sfu) \/ l.ctx = "none"

LEMMA DisconnectedRetried ==
    ASSUME NEW k, SocketOk(k)
    PROVE  /\ Retried(k, SetDisconnected(k))
           /\ SetDisconnected(k).mConnState = "Disconnected"
           /\ Begun(k) /\ Watched(k) => Watched(SetDisconnected(k))
           /\ k.mConnState # "Disconnected" => SetDisconnected(k).mConnectTimer = "connect"
           /\ SetDisconnected(k).ctx = "none" /\ SetDisconnected(k).mRetryCtrl = k.mRetryCtrl
<1>1. CASE k.mConnState = "Disconnected"
  <2>1. k.ctx \in {"none", "opening", "open"}
    BY DEF SocketOk, Conns
  <2>2. k.ctx = "none"
    BY <1>1, <2>1 DEF SocketOk, Online
  <2>3. QED
    BY <1>1, <2>2 DEF SetDisconnected, Retried
<1>2. CASE k.mConnState # "Disconnected"
  <2> DEFINE d == [k EXCEPT !.mConnState = "Disconnected", !.mConnectTimer = "connect",
                            !.ctx = "none", !.out = "none", !.sfu = "none"]
  <2>1. SetDisconnected(k) = d
    BY <1>2 DEF SetDisconnected
  <2>2. d \in Conns
    BY ZenonT(30) DEF SocketOk, Conns, ConnStates, Stages
  <2>3. /\ d.mConnState = "Disconnected" /\ d.mConnectTimer = "connect" /\ d.ctx = "none"
        /\ d.out = "none" /\ d.mIsSendingBye = k.mIsSendingBye /\ d.isSending = k.isSending
        /\ d.mAvoidReconnect = k.mAvoidReconnect /\ d.mRetryCtrl = k.mRetryCtrl
    BY DEF SocketOk, Conns
  <2>. HIDE DEF d
  <2>4. QED
    BY <2>1, <2>2, <2>3 DEF Retried, SocketOk, Begun, Watched
<1>3. QED
  BY <1>1, <1>2

LEMMA AttemptRetried ==
    ASSUME NEW k, SocketOk(k)
    PROVE  /\ Retried(k, Attempt(k)) /\ Begun(Attempt(k)) /\ Watched(Attempt(k))
<1> DEFINE d == SetDisconnected(k)
<1>1. Retried(k, d) /\ d.ctx = "none"
  BY DisconnectedRetried
<1>2. Attempt(k) = [d EXCEPT !.mConnState = "Resolving", !.mRetryCtrl = "attempt"]
  BY DEF Attempt
<1> DEFINE a == [d EXCEPT !.mConnState = "Resolving", !.mRetryCtrl = "attempt"]
<1>3. d \in Conns /\ d.out = "none"
  BY <1>1 DEF Retried, SocketOk
<1>. HIDE DEF d
<1>4. a \in Conns
  BY <1>3 DEF Conns, ConnStates
<1>5. /\ a.mConnState = "Resolving" /\ a.mRetryCtrl = "attempt"
      /\ a.ctx = d.ctx /\ a.out = d.out /\ a.mIsSendingBye = d.mIsSendingBye
      /\ a.isSending = d.isSending /\ a.mAvoidReconnect = d.mAvoidReconnect
  BY <1>3 DEF Conns
<1>. HIDE DEF a
<1>6. Attempt(k) = a
  BY <1>2 DEF a
<1>7. QED
  BY <1>1, <1>3, <1>4, <1>5, <1>6 DEF Retried, SocketOk, Begun, Watched

LEMMA ReconnectRetried ==
    ASSUME NEW k, SocketOk(k)
    PROVE  /\ Retried(k, Reconnect(k))
           /\ Watched(k) => Watched(Reconnect(k))
           /\ k.mConnState \in {"New", "Disconnected"} =>
                  Watched(Reconnect(k)) /\ Begun(Reconnect(k))
<1>1. CASE k.mConnState \notin {"New", "Disconnected"}
  BY <1>1 DEF Reconnect, Retried
<1>2. CASE k.mConnState \in {"New", "Disconnected"}
  <2> DEFINE r == [k EXCEPT !.mConnState = "Resolving"]
  <2>1. SocketOk(r) /\ Retried(k, r)
    BY <1>2 DEF SocketOk, Online, Retried, Begun, Conns, ConnStates
  <2>2. Reconnect(k) = Attempt(r)
    BY <1>2 DEF Reconnect
  <2>. HIDE DEF r
  <2>3. Retried(r, Attempt(r)) /\ Begun(Attempt(r)) /\ Watched(Attempt(r))
    BY <2>1, AttemptRetried
  <2>4. QED
    BY <2>1, <2>2, <2>3 DEF Retried
<1>3. QED
  BY <1>1, <1>2

LEMMA DoReconnectRetried ==
    ASSUME NEW k, SocketOk(k), NEW b \in BOOLEAN
    PROVE  /\ Retried(k, DoReconnect(k, b))
           /\ k.mConnState = "Disconnected" => Watched(DoReconnect(k, b))
           /\ k.mConnState = "New" /\ ~b /\ ~k.mAvoidReconnect =>
                  Watched(DoReconnect(k, b)) /\ Begun(DoReconnect(k, b))
<1>1. CASE k.mAvoidReconnect
  BY <1>1 DEF DoReconnect, Retried, Watched
<1>2. CASE ~k.mAvoidReconnect /\ b /\ k.mInitialBackoff
  BY <1>2 DEF DoReconnect, Retried, Watched, SocketOk, Conns, Online, Begun
<1>3. CASE ~k.mAvoidReconnect /\ ~(b /\ k.mInitialBackoff)
  <2> DEFINE r == [k EXCEPT !.mConnectTimer = "off"]
  <2>1. SocketOk(r) /\ Retried(k, r) /\ r.mConnState = k.mConnState
    BY DEF SocketOk, Retried, Begun, Conns, Online
  <2>2. DoReconnect(k, b) = Reconnect(r)
    BY <1>3 DEF DoReconnect
  <2>. HIDE DEF r
  <2>3. QED
    BY <2>1, <2>2, ReconnectRetried DEF Retried
<1>4. QED
  BY <1>1, <1>2, <1>3

\* retryPendingConnection() leaves the connection supervised, whatever it was.
LEMMA RetryPendingRetried ==
    ASSUME NEW k, SocketOk(k), NEW b \in BOOLEAN
    PROVE  LET l == RetryPendingConnection(k, b)
           IN /\ Retried(k, l)
              /\ Begun(k) /\ (b \/ Watched(k)) => Watched(l)
              /\ Begun(k) /\ b => l.ctx = "none"
<1>1. CASE k.mConnState = "New"
  BY <1>1 DEF RetryPendingConnection, Retried, Begun
<1>2. CASE k.mConnState # "New" /\ b
  <2> DEFINE r == [SetDisconnected(k) EXCEPT !.mRetryCtrl = "none"]
             o == Online(k)
  <2>1. SocketOk(r) /\ Retried(k, r) /\ r.mConnState = "Disconnected" /\ r.ctx = "none"
    BY DisconnectedRetried DEF SocketOk, Retried, Begun, Conns, Online
  <2>2. RetryPendingConnection(k, b) = DoReconnect(r, o)
    BY <1>2 DEF RetryPendingConnection
  <2>3. o \in BOOLEAN
    BY DEF Online
  <2>. HIDE DEF r, o
  <2>4. QED
    BY <2>1, <2>2, <2>3, DoReconnectRetried DEF Retried
<1>3. CASE k.mConnState # "New" /\ ~b /\ k.mRetryCtrl = "wait"
  BY <1>3, AttemptRetried DEF RetryPendingConnection
<1>4. CASE k.mConnState # "New" /\ ~b /\ k.mRetryCtrl # "wait"
  BY <1>4 DEF RetryPendingConnection, Retried
<1>5. QED
  BY <1>1, <1>2, <1>3, <1>4

-----------------------------------------------------------------------------
(* States *)

\* A state is known by its call and its connection.
LEMMA Pair ==
    ASSUME NEW c \in Calls, NEW k \in Conns
    PROVE  /\ [call |-> c, conn |-> k] \in States
           /\ [call |-> c, conn |-> k].call = c /\ [call |-> c, conn |-> k].conn = k
BY DEF States

LEMMA Split ==
    ASSUME NEW s \in States
    PROVE  s.call \in Calls /\ s.conn \in Conns /\ s = [call |-> s.call, conn |-> s.conn]
BY DEF States

LEMMA NoCallTyped == NoCall \in Calls /\ NoCall.mState = "none" /\ ~NoCall.mSfuConnection
                         /\ ~NoCall.mRtcConn /\ NoCall.todo = <<>> /\ "none" \notin Participating
<1>1. <<>> \in Seq(Todos)
  OBVIOUS
<1>2. NoCall \in Calls
  BY <1>1 DEF NoCall, Calls, CallStates
<1>3. QED
  BY <1>2 DEF NoCall, Participating

LEMMA NoConnectionOk ==
    /\ SocketOk(NoConnection) /\ NoConnection.mConnState = "none"
    /\ ~NoConnection.mAvoidReconnect /\ ~NoConnection.mIsSendingBye
<1>1. <<>> \in Seq(Commands)
  OBVIOUS
<1>2. NoConnection \in Conns
  BY <1>1 DEF NoConnection, Conns, ConnStates, Stages
<1>3. QED
  BY <1>2 DEF NoConnection, SocketOk

LEMMA Stepped ==
    ASSUME NEW s \in States, Becomes(s)
    PROVE  Now' = s
<1>1. s = [call |-> s.call, conn |-> s.conn]
  BY Split
<1>2. QED
  BY <1>1 DEF Becomes, Now

LEMMA NowTyped == Now.call = call /\ Now.conn = conn
BY DEF Now

\* Only the connection changes, and is retried.
LEMMA ConnRetried ==
    ASSUME NEW s, Good(s), NEW k, Retried(s.conn, k), s.call.mSfuConnection => Watched(k)
    PROVE  /\ [s EXCEPT !.conn = k] \in States
           /\ Good([s EXCEPT !.conn = k])
           /\ [s EXCEPT !.conn = k].call = s.call
<1> DEFINE t == [s EXCEPT !.conn = k]
<1>1. s \in States /\ k \in Conns
  BY DEF Good, Sound, Retried, SocketOk
<1>2. t \in States /\ t.call = s.call /\ t.conn = k
  BY <1>1 DEF States
<1>. HIDE DEF t
<1>3. Sound(t)
  BY <1>2 DEF Good, Sound, Retried
<1>4. t.conn.ctx = "none" => t.conn.out = "none"
  BY <1>2 DEF Retried, SocketOk
<1>5. Good(t)
  BY <1>2, <1>3, <1>4 DEF Good, Retried, ByePosted, Over
<1>6. QED
  BY <1>2, <1>5 DEF t

\* Only the call changes, and neither its part in the call nor what is marshalled.
LEMMA CallMoved ==
    ASSUME NEW s, Good(s), NEW c \in Calls, c.todo = s.call.todo,
           c.mSfuConnection = s.call.mSfuConnection,
           c.mState \in Participating <=> s.call.mState \in Participating,
           c.mRtcConn => c.mState \in Participating
    PROVE  /\ [s EXCEPT !.call = c] \in States
           /\ Good([s EXCEPT !.call = c])
           /\ [s EXCEPT !.call = c].call = c /\ [s EXCEPT !.call = c].conn = s.conn
<1> DEFINE t == [s EXCEPT !.call = c]
<1>1. s \in States
  BY DEF Good, Sound
<1>2. t \in States /\ t.call = c /\ t.conn = s.conn
  BY <1>1 DEF States
<1>. HIDE DEF t
<1>3. Sound(t)
  BY <1>2 DEF Good, Sound
<1>4. Good(t)
  BY <1>2, <1>3 DEF Good, ByePosted, Over
<1>5. QED
  BY <1>2, <1>4 DEF t

\* A call without a connection is as good as it is sound.
LEMMA WithoutConnection ==
    ASSUME NEW s, Sound(s), ~s.call.mSfuConnection
    PROVE  Good(s)
BY DEF Good

-----------------------------------------------------------------------------
(* Marshalled calls and commands *)

LEMMA Marshalled ==
    ASSUME NEW s \in States, NEW f \in Todos
    PROVE  LET t == Marshall(s, f)
           IN /\ t \in States /\ t.conn = s.conn
              /\ t.call = [s.call EXCEPT !.todo = Append(s.call.todo, f)]
              /\ t.call.mState = s.call.mState /\ t.call.mSfuConnection = s.call.mSfuConnection
              /\ t.call.mRtcConn = s.call.mRtcConn
              /\ t.call.mIsDestroyingCall = s.call.mIsDestroyingCall
              /\ t.call.todo # <<>>
              /\ ByePosted(s) \/ f = "byeSent" => ByePosted(t)
<1> DEFINE q == Append(s.call.todo, f)
           c == [s.call EXCEPT !.todo = q]
           t == Marshall(s, f)
<1>1. s.call \in Calls
  BY DEF States
<1>2. s.call.todo \in Seq(Todos)
  BY <1>1 DEF Calls
<1>3. /\ q \in Seq(Todos) /\ q # <<>> /\ q[Len(q)] = f /\ Len(q) \in DOMAIN q
      /\ \A i \in DOMAIN s.call.todo : i \in DOMAIN q /\ q[i] = s.call.todo[i]
  BY <1>2, SMTT(30)
<1>. HIDE DEF q
<1>4. c \in Calls /\ c.todo = q
  BY <1>1, <1>3 DEF Calls
<1>5. /\ c.mState = s.call.mState /\ c.mSfuConnection = s.call.mSfuConnection
      /\ c.mRtcConn = s.call.mRtcConn /\ c.mIsDestroyingCall = s.call.mIsDestroyingCall
  BY <1>1 DEF Calls
<1>6. t = [s EXCEPT !.call = c]
  BY DEF Marshall, States, q
<1>7. t.call = c /\ t.conn = s.conn /\ t \in States
  BY <1>4, <1>6 DEF States
<1>8. ByePosted(s) \/ f = "byeSent" => ByePosted(t)
  BY <1>3, <1>4, <1>7 DEF ByePosted
<1>. HIDE DEF c, t
<1>9. t.call = [s.call EXCEPT !.todo = Append(s.call.todo, f)]
  BY <1>7 DEF c, q
<1>10. QED
  BY <1>3, <1>4, <1>5, <1>7, <1>8, <1>9 DEF t

\* What is marshalled finds a closed socket, or a call that is over.
LEMMA MarshalledGood ==
    ASSUME NEW s, Sound(s), NEW f \in Todos,
           s.call.mSfuConnection => s.conn.ctx = "none" \/ (s.conn.ctx = "open" /\ Over(s.conn)),
           f # "byeSent" => Good(s)
    PROVE  /\ Good(Marshall(s, f)) /\ Marshall(s, f).conn = s.conn
           /\ Marshall(s, f).call.mSfuConnection = s.call.mSfuConnection
           /\ Marshall(s, f).call.mState = s.call.mState
           /\ Marshall(s, f).call.mIsDestroyingCall = s.call.mIsDestroyingCall
<1> DEFINE t == Marshall(s, f)
<1>1. s \in States
  BY DEF Sound
<1>2. /\ t \in States /\ t.conn = s.conn
      /\ t.call.mState = s.call.mState /\ t.call.mSfuConnection = s.call.mSfuConnection
      /\ t.call.mRtcConn = s.call.mRtcConn
      /\ t.call.mIsDestroyingCall = s.call.mIsDestroyingCall
      /\ ByePosted(s) \/ f = "byeSent" => ByePosted(t)
  BY <1>1, Marshalled
<1>. HIDE DEF t
<1>3. Sound(t)
  BY <1>2 DEF Sound
<1>4. Good(t)
  BY <1>2, <1>3 DEF Good
<1>5. QED
  BY <1>2, <1>4 DEF t

\* The call of t has the connection, if it has one, and the state of that of s.
Same(s, t) == /\ t.call.mSfuConnection = s.call.mSfuConnection
              /\ t.call.mState = s.call.mState
              /\ t.call.mIsDestroyingCall = s.call.mIsDestroyingCall
              /\ t.conn.mConnState = s.conn.mConnState

\* Only the queue changes.
LEMMA QueueGood ==
    ASSUME NEW s, Good(s), NEW q \in Seq(Commands)
    PROVE  LET t == [s EXCEPT !.conn.mCommandsQueue = q]
           IN /\ Good(t) /\ Same(s, t) /\ t.conn.mCommandsQueue = q
              /\ t.conn.ctx = s.conn.ctx /\ t.conn.isSending = s.conn.isSending
              /\ t.conn.mIsSendingBye = s.conn.mIsSendingBye
<1> DEFINE k == [s.conn EXCEPT !.mCommandsQueue = q]
           t == [s EXCEPT !.conn.mCommandsQueue = q]
<1>1. s \in States /\ SocketOk(s.conn) /\ s.conn \in Conns
  BY DEF Good, Sound, SocketOk
<1>2. k \in Conns
  BY <1>1 DEF Conns
<1>3. /\ k.ctx = s.conn.ctx /\ k.sfu = s.conn.sfu /\ k.out = s.conn.out
      /\ k.mConnState = s.conn.mConnState /\ k.mAvoidReconnect = s.conn.mAvoidReconnect
      /\ k.mConnectTimer = s.conn.mConnectTimer /\ k.mRetryCtrl = s.conn.mRetryCtrl
      /\ k.isSending = s.conn.isSending /\ k.mIsSendingBye = s.conn.mIsSendingBye
      /\ k.mCommandsQueue = q
  BY <1>1 DEF Conns
<1>4. t = [s EXCEPT !.conn = k] /\ t.conn = k /\ t.call = s.call
  BY <1>1 DEF States
<1>. HIDE DEF k, t
<1>5. Retried(s.conn, k)
  BY <1>1, <1>2, <1>3 DEF Retried, SocketOk, Begun, Online
<1>6. s.call.mSfuConnection => Watched(k)
  BY <1>3 DEF Good, Sound, Watched, Online
<1>7. Good(t)
  BY <1>4, <1>5, <1>6, ConnRetried
<1>8. QED
  BY <1>3, <1>4, <1>7 DEF t, Same

\* A BYE is taken from the queue.
LEMMA ByeTaken ==
    ASSUME NEW s, Sound(s), NEW q \in Seq(Commands)
    PROVE  LET t == [s EXCEPT !.conn.mIsSendingBye = TRUE, !.conn.mCommandsQueue = q]
           IN Sound(t) /\ Same(s, t) /\ t.conn.ctx = s.conn.ctx
<1> DEFINE k == [s.conn EXCEPT !.mIsSendingBye = TRUE, !.mCommandsQueue = q]
           t == [s EXCEPT !.conn.mIsSendingBye = TRUE, !.conn.mCommandsQueue = q]
<1>1. s \in States /\ s.conn \in Conns
  BY DEF Sound, States
<1>2. k \in Conns
  BY <1>1 DEF Conns
<1>3. /\ k.ctx = s.conn.ctx /\ k.sfu = s.conn.sfu /\ k.out = s.conn.out
      /\ k.mConnState = s.conn.mConnState /\ k.mAvoidReconnect = s.conn.mAvoidReconnect
      /\ k.mConnectTimer = s.conn.mConnectTimer /\ k.mRetryCtrl = s.conn.mRetryCtrl
  BY <1>1 DEF Conns
<1>4. t = [s EXCEPT !.conn = k]
  BY <1>1 DEF States
<1>. HIDE DEF k, t
<1>5. t \in States /\ t.call = s.call /\ t.conn = k
  BY <1>1, <1>2, <1>4 DEF States
<1>6. Sound(t)
  BY <1>2, <1>3, <1>5 DEF Sound, SocketOk, Begun, Watched, Online
<1>7. QED
  BY <1>3, <1>5, <1>6 DEF t, Same

LEMMA RefuseGood ==
    ASSUME NEW s, Good(s), s.conn.ctx = "none"
    PROVE  Good(Refuse(s)) /\ Same(s, Refuse(s)) /\ Refuse(s).conn.ctx = "none"
<1> DEFINE queue  == s.conn.mCommandsQueue
           before == {i \in DOMAIN queue :
                         ~s.conn.mIsSendingBye /\ \A j \in 1 .. i : queue[j] # "BYE"}
           rest   == SubSeq(queue, Cardinality(before) + 2, Len(queue))
           empty  == [s EXCEPT !.conn.mCommandsQueue = <<>>]
           t      == [s EXCEPT !.conn.mIsSendingBye = TRUE, !.conn.mCommandsQueue = rest]
<1>1. /\ Sound(s) /\ s \in States /\ s.conn \in Conns /\ queue \in Seq(Commands)
      /\ s.conn.mIsSendingBye \in BOOLEAN
  BY DEF Good, Sound, States, Conns
<1>2. CASE before = DOMAIN queue
  <2>1. Refuse(s) = empty
    BY <1>2 DEF Refuse
  <2>2. <<>> \in Seq(Commands)
    OBVIOUS
  <2>3. Good(empty) /\ Same(s, empty) /\ empty.conn.ctx = "none"
    BY <2>2, QueueGood
  <2>4. QED
    BY <2>1, <2>3
<1>3. CASE before # DOMAIN queue
  <2>1. Refuse(s) = Marshall(t, "byeSent")
    BY <1>3 DEF Refuse, OnByeCommandSent
  <2>2. rest \in Seq(Commands)
    <3>1. IsFiniteSet(DOMAIN queue) /\ before \subseteq DOMAIN queue
      BY <1>1, FS_Interval
    <3>2. Cardinality(before) \in Nat
      BY SMTT(30), <3>1, FS_Subset, FS_CardinalityType
    <3>. HIDE DEF before
    <3>3. QED
      BY <1>1, <3>2, SubSeqProperties
  <2>. HIDE DEF rest
  <2>3. Sound(t) /\ Same(s, t) /\ t.conn.ctx = "none"
    BY <1>1, <2>2, ByeTaken, ZenonT(30)
  <2>. HIDE DEF t
  <2>4. QED
    BY <2>1, <2>3, MarshalledGood DEF Same, Todos
<1>4. QED
  BY <1>2, <1>3

LEMMA ProcessGood ==
    ASSUME NEW s, Good(s)
    PROVE  Good(ProcessNextCommand(s)) /\ Same(s, ProcessNextCommand(s))
<1> DEFINE queue == s.conn.mCommandsQueue
<1>1. s \in States /\ SocketOk(s.conn) /\ s.conn \in Conns /\ queue \in Seq(Commands)
  BY DEF Good, Sound, SocketOk, Conns
<1>2. CASE queue = <<>> \/ s.conn.isSending
  BY <1>2 DEF ProcessNextCommand, Same
<1>3. CASE ~(queue = <<>> \/ s.conn.isSending) /\ s.conn.ctx = "none"
  BY <1>3, RefuseGood DEF ProcessNextCommand
<1>4. CASE ~(queue = <<>> \/ s.conn.isSending) /\ s.conn.ctx # "none"
  <2> DEFINE k == [s.conn EXCEPT !.isSending = TRUE, !.out = Head(queue),
                                 !.mCommandsQueue = Tail(queue),
                                 !.mIsSendingBye = s.conn.mIsSendingBye \/ Head(queue) = "BYE"]
             t == [s EXCEPT !.conn = k]
  <2>1. Head(queue) \in Commands /\ Tail(queue) \in Seq(Commands)
    BY <1>1, <1>4
  <2>2. ProcessNextCommand(s) = t
    BY <1>1, <1>4 DEF ProcessNextCommand, States, Conns
  <2>3. (s.conn.mIsSendingBye \/ Head(queue) = "BYE") \in BOOLEAN
    OBVIOUS
  <2>4. k \in Conns
    BY <1>1, <2>1, <2>3 DEF Conns
  <2>5. /\ k.ctx = s.conn.ctx /\ k.sfu = s.conn.sfu /\ k.isSending /\ k.out = Head(queue)
        /\ k.mConnState = s.conn.mConnState /\ k.mAvoidReconnect = s.conn.mAvoidReconnect
        /\ k.mConnectTimer = s.conn.mConnectTimer /\ k.mRetryCtrl = s.conn.mRetryCtrl
        /\ k.mIsSendingBye <=> s.conn.mIsSendingBye \/ Head(queue) = "BYE"
    BY <1>1 DEF Conns
  <2>. HIDE DEF k
  <2>6. t \in States /\ t.call = s.call /\ t.conn = k
    BY <1>1, <2>4 DEF States
  <2>. HIDE DEF t
  <2>7. Sound(t)
    BY <1>4, <2>4, <2>5, <2>6 DEF Good, Sound, SocketOk, Begun, Watched, Online
  <2>8. ByePosted(t) <=> ByePosted(s)
    BY <2>6 DEF ByePosted
  <2>9. Good(t)
    BY <1>4, <2>5, <2>6, <2>7, <2>8 DEF Good, Over
  <2>10. QED
    BY <2>2, <2>5, <2>6, <2>9 DEF Same
<1>5. QED
  BY <1>2, <1>3, <1>4

LEMMA SendGood ==
    ASSUME NEW s, Good(s), NEW command \in Commands
    PROVE  Good(SendCommand(s, command)) /\ Same(s, SendCommand(s, command))
<1> DEFINE q == Append(s.conn.mCommandsQueue, command)
           t == [s EXCEPT !.conn.mCommandsQueue = q]
<1>1. s \in States /\ s.conn.mCommandsQueue \in Seq(Commands)
  BY DEF Good, Sound, States, Conns
<1>2. q \in Seq(Commands)
  BY <1>1
<1>3. CASE ~Online(s.conn)
  BY <1>3 DEF SendCommand, Same
<1>4. CASE Online(s.conn)
  <2>1. SendCommand(s, command) = ProcessNextCommand(t)
    BY <1>1, <1>4 DEF SendCommand, States, Conns
  <2>. HIDE DEF q
  <2>2. Good(t) /\ Same(s, t)
    BY <1>2, QueueGood
  <2>. HIDE DEF t
  <2>3. Good(ProcessNextCommand(t)) /\ Same(t, ProcessNextCommand(t))
    BY <2>2, ProcessGood
  <2>4. QED
    BY <2>1, <2>2, <2>3 DEF Same
<1>5. QED
  BY <1>3, <1>4

-----------------------------------------------------------------------------
(* The call *)

LEMMA SetStateTyped ==
    ASSUME NEW s \in States, NEW new \in CallStates
    PROVE  LET t == SetState(s, new)
           IN /\ t \in States /\ t.conn = s.conn /\ t.call.mState = new
              /\ t.call.mSfuConnection = s.call.mSfuConnection
              /\ t.call.mRtcConn = s.call.mRtcConn /\ t.call.todo = s.call.todo
              /\ t.call.mIsDestroyingCall = s.call.mIsDestroyingCall
<1> DEFINE timer == s.call.mConnectTimer
           u == IF new \in {"InWaitingRoom", "InProgress", "Terminating"} THEN "off"
                ELSE IF new = "Connecting" /\ timer = "off" THEN "armed" ELSE timer
           old == s.call.mConnInitialTs
           ts == new = "InProgress" \/ (old /\ ~(new = "Connecting" /\ timer = "off"))
           c == [s.call EXCEPT !.mState = new, !.mConnectTimer = u, !.mConnInitialTs = ts]
<1>1. s.call \in Calls /\ timer \in {"off", "armed", "fired"}
  BY DEF States, Calls
<1>2. u \in {"off", "armed", "fired"}
  BY <1>1
<1>3. CASE new = s.call.mState
  BY <1>3 DEF SetState
<1>4. CASE new # s.call.mState
  <2>1. SetState(s, new) = [s EXCEPT !.call = c]
    BY <1>4 DEF SetState, States
  <2>. ts \in BOOLEAN
    OBVIOUS
  <2>. HIDE DEF u, ts
  <2>2. /\ c \in Calls /\ c.mState = new /\ c.mSfuConnection = s.call.mSfuConnection
        /\ c.mRtcConn = s.call.mRtcConn /\ c.todo = s.call.todo
        /\ c.mIsDestroyingCall = s.call.mIsDestroyingCall
    BY <1>1, <1>2 DEF Calls
  <2>. HIDE DEF c
  <2>3. [s EXCEPT !.call = c] \in States /\ [s EXCEPT !.call = c].call = c
        /\ [s EXCEPT !.call = c].conn = s.conn
    BY <2>2 DEF States
  <2>4. QED
    BY <2>1, <2>2, <2>3
<1>5. QED
  BY <1>3, <1>4

LEMMA ClosedMedia ==
    ASSUME NEW s, Good(s)
    PROVE  LET t == MediaChannelDisconnect(s)
           IN /\ Good(t) /\ Same(s, t) /\ ~t.call.mRtcConn /\ t.conn = s.conn
              /\ t.call.todo = s.call.todo
<1> DEFINE c == [s.call EXCEPT !.mRtcConn = FALSE]
<1>1. s \in States /\ s.call \in Calls
  BY DEF Good, Sound, States
<1>2. /\ c \in Calls /\ c.todo = s.call.todo /\ c.mSfuConnection = s.call.mSfuConnection
      /\ c.mState = s.call.mState /\ c.mIsDestroyingCall = s.call.mIsDestroyingCall
      /\ ~c.mRtcConn
  BY <1>1 DEF Calls
<1>3. MediaChannelDisconnect(s) = [s EXCEPT !.call = c]
  BY <1>1 DEF MediaChannelDisconnect, States
<1>. HIDE DEF c
<1>4. QED
  BY <1>2, <1>3, CallMoved DEF Same

\* A call that takes part goes on to another state of a participant.
LEMMA MovedOn ==
    ASSUME NEW s, Good(s), s.call.mSfuConnection, NEW new \in Participating
    PROVE  /\ Good(SetState(s, new)) /\ SetState(s, new).conn = s.conn
           /\ SetState(s, new).call.mState = new
           /\ SetState(s, new).call.mSfuConnection
           /\ SetState(s, new).call.todo = s.call.todo
<1> DEFINE t == SetState(s, new)
<1>1. s \in States /\ new \in CallStates
  BY DEF Good, Sound, CallStates
<1>2. /\ t \in States /\ t.conn = s.conn /\ t.call.mState = new
      /\ t.call.mSfuConnection = s.call.mSfuConnection /\ t.call.todo = s.call.todo
      /\ t.call.mRtcConn = s.call.mRtcConn
  BY <1>1, SetStateTyped
<1>. HIDE DEF t
<1>3. Sound(t)
  BY <1>2 DEF Good, Sound
<1>4. Good(t)
  BY <1>2, <1>3 DEF Good, ByePosted, Over
<1>5. QED
  BY <1>2, <1>4 DEF t

LEMMA ConnectionClosed ==
    ASSUME NEW s \in States, SocketOk(s.conn)
    PROVE  LET t == CloseSfuConnection(s)
           IN /\ t \in States /\ SocketOk(t.conn) /\ ~t.call.mSfuConnection
              /\ t.call.mState = s.call.mState /\ t.call.mRtcConn = s.call.mRtcConn
              /\ t.call.todo = s.call.todo
<1>1. CASE ~s.call.mSfuConnection
  BY <1>1 DEF CloseSfuConnection
<1>2. CASE s.call.mSfuConnection
  <2> DEFINE c == [s.call EXCEPT !.mSfuConnection = FALSE]
  <2>1. s.call \in Calls
    BY DEF States
  <2>2. /\ c \in Calls /\ ~c.mSfuConnection /\ c.mState = s.call.mState
        /\ c.mRtcConn = s.call.mRtcConn /\ c.todo = s.call.todo
    BY <2>1 DEF Calls
  <2>3. CloseSfuConnection(s) = [call |-> c, conn |-> NoConnection]
    BY <1>2 DEF CloseSfuConnection, States
  <2>. HIDE DEF c
  <2>4. QED
    BY <2>2, <2>3, NoConnectionOk, Pair DEF SocketOk
<1>3. QED
  BY <1>1, <1>2

\* immediateCallDisconnect() leaves the call without a connection, whatever is marshalled.
LEMMA Disconnected ==
    ASSUME NEW s, Sound(s)
    PROVE  /\ Good(ImmediateCallDisconnect(s, FALSE))
           /\ ~ImmediateCallDisconnect(s, FALSE).call.mSfuConnection
<1>1. s \in States /\ s.call \in Calls /\ SocketOk(s.conn)
  BY DEF Sound, States
<1>2. CASE s.call.mState = "Terminating"
  <2>1. ~s.call.mSfuConnection
    BY <1>2 DEF Sound, Participating
  <2>2. QED
    BY <1>2, <2>1, WithoutConnection DEF ImmediateCallDisconnect
<1>3. CASE s.call.mState # "Terminating"
  <2> DEFINE c == [s.call EXCEPT !.mRtcConn = FALSE]
             m == MediaChannelDisconnect(s)
             w == m.call.mSfuConnection /\ m.conn.mConnState = "Joined"
             t == SetState(m, "Terminating")
             l == CloseSfuConnection(t)
             n == SetState(l, "ClientNoParticipating")
  <2>1. m \in States /\ ~m.call.mRtcConn /\ SocketOk(m.conn)
    <3>1. c \in Calls /\ ~c.mRtcConn
      BY <1>1 DEF Calls
    <3>2. m = [s EXCEPT !.call = c]
      BY <1>1 DEF MediaChannelDisconnect, States
    <3>3. QED
      BY <1>1, <3>1, <3>2 DEF States
  <2>2. ImmediateCallDisconnect(s, FALSE) = IF m.call.mIsDestroyingCall \/ w THEN l ELSE n
    BY <1>3 DEF ImmediateCallDisconnect, DisconnectFromSfu
  <2>. HIDE DEF m, w
  <2>3. t \in States /\ SocketOk(t.conn) /\ ~t.call.mRtcConn /\ t.call.mState = "Terminating"
    BY <2>1, SetStateTyped DEF CallStates
  <2>. HIDE DEF t
  <2>4. /\ l \in States /\ SocketOk(l.conn) /\ ~l.call.mRtcConn /\ ~l.call.mSfuConnection
        /\ l.call.mState = "Terminating"
    BY <2>3, ConnectionClosed
  <2>. HIDE DEF l
  <2>5. /\ n \in States /\ SocketOk(n.conn) /\ ~n.call.mRtcConn /\ ~n.call.mSfuConnection
        /\ n.call.mState = "ClientNoParticipating"
    BY <2>4, SetStateTyped DEF CallStates
  <2>. HIDE DEF n
  <2>6. Sound(l) /\ Sound(n)
    BY <2>4, <2>5 DEF Sound, Participating
  <2>7. QED
    BY <2>2, <2>4, <2>5, <2>6, WithoutConnection
<1>4. QED
  BY <1>2, <1>3

LEMMA Removed ==
    ASSUME NEW s, Sound(s), NEW b \in BOOLEAN
    PROVE  Good(RemoveCallImmediately(s, b)) /\ ~RemoveCallImmediately(s, b).call.mSfuConnection
<1> DEFINE i == ImmediateCallDisconnect(s, b)
           t == [i EXCEPT !.call = NoCall]
<1>1. i \in States /\ SocketOk(i.conn)
  <2>1. CASE b
    BY <2>1 DEF ImmediateCallDisconnect, Sound
  <2>2. CASE ~b
    <3>1. b = FALSE
      BY <2>2
    <3>2. QED
      BY <3>1, Disconnected DEF Good, Sound
  <2>3. QED
    BY <2>1, <2>2
<1>2. RemoveCallImmediately(s, b) = t
  BY DEF RemoveCallImmediately
<1>. HIDE DEF i
<1>3. t \in States /\ t.conn = i.conn /\ t.call = NoCall
  BY <1>1, NoCallTyped DEF States
<1>. HIDE DEF t
<1>4. Sound(t)
  BY <1>1, <1>3, NoCallTyped DEF Sound
<1>5. QED
  BY <1>2, <1>3, <1>4, NoCallTyped, WithoutConnection

\* An ordered end sends a BYE wherever it can.
LEMMA OrderedGood ==
    ASSUME NEW s, Good(s), NEW b \in BOOLEAN
    PROVE  Good(OrderedCallDisconnect(s, b)) /\ Silent(s, OrderedCallDisconnect(s, b))
<1>1. CASE (s.call.mIsDestroyingCall /\ ~b) \/ SendsBye(s)
  BY <1>1 DEF OrderedCallDisconnect, Silent
<1>2. CASE ~((s.call.mIsDestroyingCall /\ ~b) \/ SendsBye(s)) /\ ToSfu(s)
  <2>1. OrderedCallDisconnect(s, b) = SendCommand(s, "BYE")
    BY <1>2 DEF OrderedCallDisconnect
  <2>2. "BYE" \in Commands
    BY DEF Commands
  <2>3. QED
    BY <2>1, <2>2, SendGood DEF Silent, Same
<1>3. CASE ~((s.call.mIsDestroyingCall /\ ~b) \/ SendsBye(s)) /\ ~ToSfu(s)
  <2>1. OrderedCallDisconnect(s, b) = ImmediateCallDisconnect(s, FALSE)
    BY <1>3 DEF OrderedCallDisconnect
  <2>2. s.call.mSfuConnection => s.conn.ctx # "open"
    BY <1>3 DEF Good, Sound, SocketOk, ToSfu
  <2>3. QED
    BY <2>1, <2>2, Disconnected DEF Good, Silent
<1>4. QED
  BY <1>1, <1>2, <1>3

LEMMA DestroyGood ==
    ASSUME NEW s, Good(s)
    PROVE  Good(OnDestroyCall(s)) /\ Silent(s, OnDestroyCall(s))
<1>1. CASE s.call.mIsDestroyingCall
  BY <1>1 DEF OnDestroyCall, Silent
<1>2. CASE ~s.call.mIsDestroyingCall
  <2> DEFINE a == s.call.mSfuConnection \/ s.conn.mAvoidReconnect
             c == [s.call EXCEPT !.mIsDestroyingCall = TRUE]
             k == [s.conn EXCEPT !.mAvoidReconnect = a]
             t == [call |-> c, conn |-> k]
  <2>1. s \in States /\ s.call \in Calls /\ s.conn \in Conns /\ a \in BOOLEAN
    BY DEF Good, Sound, States, Calls, Conns
  <2>2. OnDestroyCall(s) = IF ToSfu(t) THEN OrderedCallDisconnect(t, TRUE)
                           ELSE RemoveCallImmediately(t, FALSE)
    <3> DEFINE u == [s EXCEPT !.call.mIsDestroyingCall = TRUE,
                              !.conn.mAvoidReconnect = s.call.mSfuConnection \/ @]
    <3>1. u \in States /\ u.call = c /\ u.conn = k
      <4>1. u = [s EXCEPT !.call = c, !.conn = k]
        BY <2>1, Zenon DEF States
      <4>2. c \in Calls /\ k \in Conns
        BY <2>1 DEF Calls, Conns
      <4>. HIDE DEF u, c, k
      <4>3. QED
        BY <4>1, <4>2, <2>1 DEF States
    <3>. HIDE DEF u
    <3>2. u = t
      BY <3>1, Split
    <3>. USE DEF u
    <3>3. QED
      BY <1>2, <3>2 DEF OnDestroyCall
  <2>3. /\ c \in Calls /\ c.mState = s.call.mState /\ c.todo = s.call.todo
        /\ c.mSfuConnection = s.call.mSfuConnection /\ c.mRtcConn = s.call.mRtcConn
    BY <2>1 DEF Calls
  <2>4. /\ k \in Conns /\ k.ctx = s.conn.ctx /\ k.sfu = s.conn.sfu /\ k.out = s.conn.out
        /\ k.mConnState = s.conn.mConnState /\ k.mAvoidReconnect = a
        /\ k.isSending = s.conn.isSending /\ k.mIsSendingBye = s.conn.mIsSendingBye
    BY <2>1 DEF Conns
  <2>. HIDE DEF c, k
  <2>5. t \in States /\ t.call = c /\ t.conn = k
    BY <2>3, <2>4, Pair
  <2>. HIDE DEF t
  <2>6. Sound(t)
    BY <2>3, <2>4, <2>5 DEF Good, Sound, SocketOk, Begun, Watched, Online
  <2>7. ByePosted(t) <=> ByePosted(s)
    BY <2>3, <2>5 DEF ByePosted
  <2>8. Good(t)
    BY <2>3, <2>4, <2>5, <2>6, <2>7 DEF Good, Over
  <2>9. CASE ToSfu(t)
    BY <2>2, <2>3, <2>4, <2>5, <2>8, <2>9, OrderedGood DEF Silent, Over
  <2>10. CASE ~ToSfu(t)
    <3>1. s.call.mSfuConnection => s.conn.ctx # "open"
      BY <2>3, <2>5, <2>6, <2>4, <2>10 DEF Sound, SocketOk, ToSfu
    <3>2. QED
      BY <2>2, <2>6, <2>10, <3>1, Removed DEF Silent
  <2>11. QED
    BY <2>9, <2>10
<1>3. QED
  BY <1>1, <1>2

-----------------------------------------------------------------------------
(* What the actions are built from *)

\* Only the connection changes.
LEMMA ConnMoved ==
    ASSUME NEW s, Sound(s), NEW k, SocketOk(k),
           s.call.mSfuConnection =>
               /\ Begun(k) /\ Watched(k)
               /\ s.call.todo # <<>> => k.ctx = "none" \/ (k.ctx = "open" /\ Over(k))
               /\ k.mIsSendingBye => (k.isSending /\ k.out \in {"none", "BYE"}) \/ ByePosted(s)
    PROVE  LET t == [s EXCEPT !.conn = k]
           IN t \in States /\ Good(t) /\ t.call = s.call /\ t.conn = k
<1> DEFINE t == [s EXCEPT !.conn = k]
<1>1. t \in States /\ t.call = s.call /\ t.conn = k
  BY DEF Sound, States, SocketOk
<1>. HIDE DEF t
<1>2. Sound(t)
  BY <1>1 DEF Sound
<1>3. Good(t)
  BY <1>1, <1>2 DEF Good, ByePosted
<1>4. QED
  BY <1>1, <1>3 DEF t

\* connectSfu() begins with a new connection.
LEMMA SfuConnected ==
    ASSUME NEW s \in States
    PROVE  Good(ConnectSfu(s)) /\ ConnectSfu(s).call.mSfuConnection
<1> DEFINE n == [NoConnection EXCEPT !.mConnState = "New"]
           k == DoReconnect(n, FALSE)
           u == SetState(s, "Connecting")
           c == [u.call EXCEPT !.mSfuConnection = TRUE]
<1>1. SocketOk(n) /\ n.mConnState = "New" /\ ~n.mAvoidReconnect /\ ~n.mIsSendingBye
  BY NoConnectionOk DEF NoConnection, SocketOk, Conns, ConnStates, Online
<1>2. n.ctx = "none"
  BY DEF NoConnection
<1>. HIDE DEF n
<1>3. Retried(n, k) /\ Watched(k) /\ Begun(k)
  BY <1>1, DoReconnectRetried
<1>. HIDE DEF k
<1>4. k \in Conns /\ ~k.mIsSendingBye /\ k.ctx = "none"
  BY <1>1, <1>2, <1>3 DEF Retried, SocketOk
<1>5. u \in States /\ u.call.mState = "Connecting"
  BY SetStateTyped DEF CallStates, Participating
<1>6. ConnectSfu(s) = [u EXCEPT !.call = c, !.conn = k]
  BY <1>5 DEF ConnectSfu, States, k, n
<1>. HIDE DEF u
<1>7. c \in Calls /\ c.mSfuConnection /\ c.mState = "Connecting"
  BY <1>5 DEF States, Calls
<1>. HIDE DEF c
<1>8. ConnectSfu(s) \in States /\ ConnectSfu(s).call = c /\ ConnectSfu(s).conn = k
  BY <1>4, <1>5, <1>6, <1>7 DEF States
<1>9. Sound(ConnectSfu(s))
  BY <1>3, <1>7, <1>8 DEF Sound, Retried, Participating
<1>10. QED
  BY <1>4, <1>7, <1>8, <1>9 DEF Good

\* joinSfu() opens the peer connection of a participant.
LEMMA SfuJoined ==
    ASSUME NEW s, Good(s), s.call.mSfuConnection
    PROVE  Good(JoinSfu(s)) /\ JoinSfu(s).call.mSfuConnection
<1> DEFINE t == SetState(s, "Joining")
           o == t.call.offers + 1
           c == [t.call EXCEPT !.mRtcConn = TRUE, !.offers = o]
<1>1. Good(t) /\ t.call.mSfuConnection /\ t.call.mState = "Joining"
  BY MovedOn DEF Participating
<1>2. t \in States /\ t.call \in Calls
  BY <1>1 DEF Good, Sound, States
<1>3. JoinSfu(s) = [t EXCEPT !.call = c]
  BY <1>2 DEF JoinSfu, States, Calls
<1>. HIDE DEF t
<1>4. o \in Nat
  BY <1>2 DEF Calls
<1>. HIDE DEF o
<1>5. c \in Calls /\ c.todo = t.call.todo /\ c.mSfuConnection = t.call.mSfuConnection
      /\ c.mState = t.call.mState
  BY <1>2, <1>4 DEF Calls
<1>. HIDE DEF c
<1>6. /\ c.mState \in Participating <=> t.call.mState \in Participating
      /\ c.mState \in Participating
  BY <1>1, <1>5 DEF Participating
<1>7. Good([t EXCEPT !.call = c]) /\ [t EXCEPT !.call = c].call = c
  BY <1>1, <1>5, <1>6, CallMoved
<1>8. QED
  BY <1>1, <1>3, <1>5, <1>7

\* The part of onSocketClose() that is the call's.
LEMMA CallTold ==
    ASSUME NEW s, Good(s), s.call.mSfuConnection
    PROVE  LET t == OnSfuDisconnected(s)
           IN Sound(t) /\ t.call.mSfuConnection /\ t.conn = s.conn
<1>1. s \in States
  BY DEF Good, Sound
<1>2. CASE s.call.mIsDestroyingCall
  <2> DEFINE t == Marshall(s, "remove")
  <2>1. "remove" \in Todos
    BY DEF Todos
  <2>2. /\ t \in States /\ t.conn = s.conn
        /\ t.call.mState = s.call.mState /\ t.call.mSfuConnection = s.call.mSfuConnection
        /\ t.call.mRtcConn = s.call.mRtcConn
    BY <1>1, <2>1, Marshalled
  <2>3. OnSfuDisconnected(s) = t
    BY <1>2 DEF OnSfuDisconnected
  <2>. HIDE DEF t
  <2>4. QED
    BY <2>2, <2>3 DEF Good, Sound
<1>3. CASE ~s.call.mIsDestroyingCall
  <2> DEFINE m == MediaChannelDisconnect(s)
  <2>1. Good(m) /\ m.call.mSfuConnection /\ m.conn = s.conn
    BY ClosedMedia DEF Same
  <2>2. OnSfuDisconnected(s) = SetState(m, "Connecting")
    BY <1>3 DEF OnSfuDisconnected
  <2>. HIDE DEF m
  <2>3. "Connecting" \in Participating
    BY DEF Participating
  <2>4. QED
    BY <2>1, <2>2, <2>3, MovedOn DEF Good
<1>4. QED
  BY <1>2, <1>3

\* A socket that closes leaves the call its connection, which tries again.
LEMMA SocketClosedGood ==
    ASSUME NEW s, Good(s), s.call.mSfuConnection
    PROVE  Good(OnSocketClose(s)) /\ OnSocketClose(s).call.mSfuConnection
<1> DEFINE u == OnSfuDisconnected(s)
           j == [s.conn EXCEPT !.mIsSendingBye = FALSE]
           k == SetDisconnected(j)
           w == [k EXCEPT !.mRetryCtrl = "wait"]
           l == IF Online(s.conn) THEN DoReconnect(k, TRUE) ELSE w
           t == [u EXCEPT !.conn = l]
<1>1. Sound(u) /\ u \in States /\ u.call.mSfuConnection /\ u.conn = s.conn
  BY CallTold DEF Sound
<1>2. SocketOk(j) /\ ~j.mIsSendingBye /\ Begun(j)
  BY ZenonT(30) DEF Good, Sound, SocketOk, Conns, Online, Begun
<1>3. OnSocketClose(s) = t
  BY <1>1 DEF OnSocketClose, States
<1>. HIDE DEF u, j
<1>4. Retried(j, k) /\ k.mConnState = "Disconnected" /\ k.ctx = "none"
  BY <1>2, DisconnectedRetried
<1>. HIDE DEF k
<1>5. SocketOk(k) /\ ~k.mIsSendingBye /\ Begun(k)
  BY <1>2, <1>4 DEF Retried
<1>6. SocketOk(w) /\ ~w.mIsSendingBye /\ Begun(w) /\ Watched(w) /\ w.ctx = "none"
  BY <1>4, <1>5 DEF SocketOk, Conns, Online, Begun, Watched
<1>7. SocketOk(l) /\ ~l.mIsSendingBye /\ Begun(l) /\ Watched(l) /\ l.ctx = "none"
  BY <1>4, <1>5, <1>6, DoReconnectRetried DEF Retried
<1>. HIDE DEF l
<1>8. Good(t) /\ t.call = u.call
  BY <1>1, <1>7, ConnMoved
<1>9. QED
  BY <1>1, <1>3, <1>8

\* clearCommandsQueue() and a retry: nothing is left of what was being sent.
LEMMA ClearedGood ==
    ASSUME NEW s, Sound(s), s.call.mSfuConnection
    PROVE  LET t == [s EXCEPT !.conn = RetryPendingConnection(ClearCommandsQueue(s.conn), TRUE)]
           IN Good(t) /\ t.call = s.call
<1> DEFINE k == ClearCommandsQueue(s.conn)
           l == RetryPendingConnection(k, TRUE)
<1>1. SocketOk(k) /\ ~k.mIsSendingBye /\ Begun(k)
  <2>1. <<>> \in Seq(Commands)
    OBVIOUS
  <2>2. QED
    BY ZenonT(30), <2>1 DEF Sound, SocketOk, ClearCommandsQueue, Conns, Online, Begun
<1>. HIDE DEF k
<1>2. Retried(k, l) /\ Watched(l) /\ l.ctx = "none"
  BY <1>1, RetryPendingRetried
<1>3. SocketOk(l) /\ ~l.mIsSendingBye /\ Begun(l)
  BY <1>1, <1>2 DEF Retried
<1>. HIDE DEF l
<1>4. QED
  BY <1>2, <1>3, ConnMoved DEF k, l

\* What a BYE that is written does later: the socket is closed by then, or the SFU knows.
LEMMA ByeSentGood ==
    ASSUME NEW s, Sound(s)
    PROVE  Good(ByeSent(s))
<1>1. CASE ~s.call.mSfuConnection
  BY <1>1, WithoutConnection DEF ByeSent
<1>2. CASE s.call.mSfuConnection /\ s.call.mIsDestroyingCall
  BY <1>2, Removed DEF ByeSent
<1>3. CASE s.call.mSfuConnection /\ ~s.call.mIsDestroyingCall /\ s.call.mState = "Connecting"
  BY <1>3, ClearedGood DEF ByeSent
<1>4. CASE s.call.mSfuConnection /\ ~s.call.mIsDestroyingCall /\ s.call.mState # "Connecting"
  BY <1>4, Disconnected DEF ByeSent
<1>5. QED
  BY <1>1, <1>2, <1>3, <1>4

-----------------------------------------------------------------------------
(* The actions *)

Counted == Free \/ Spend("faults") \/ Spend("slow") \/ Spend("calls") \/ Spend("messages")

\* what every step keeps
Kept == IInv' /\ Silent(Now, Now')

LEMMA BudgetKept ==
    ASSUME budget \in Budgets, Counted
    PROVE  budget' \in Budgets
<1>1. CASE Free
  BY <1>1 DEF Free
<1>2. ASSUME NEW kind \in {"faults", "slow", "calls", "messages"}, Spend(kind)
      PROVE  budget' \in Budgets
  BY <1>2 DEF Spend, Budgets
<1>3. QED
  BY <1>1, <1>2 DEF Counted

LEMMA Became ==
    ASSUME IInv, NEW t, Good(t), Silent(Now, t), Becomes(t), Counted
    PROVE  Kept
<1>1. t \in States
  BY DEF Good, Sound
<1>2. Now' = t
  BY <1>1, Stepped
<1>3. budget' \in Budgets
  BY BudgetKept DEF IInv
<1>4. IInv'
  BY <1>2, <1>3 DEF IInv
<1>5. QED
  BY <1>2, <1>4 DEF Kept

\* What holds of the state before a step.
LEMMA Before ==
    ASSUME IInv
    PROVE  /\ Good(Now) /\ Sound(Now) /\ Now \in States /\ Now.call = call /\ Now.conn = conn
           /\ call \in Calls /\ conn \in Conns /\ SocketOk(conn)
           /\ call.mSfuConnection => Begun(conn) /\ Watched(conn)
           /\ call.mState \in Participating <=> call.mSfuConnection
           /\ call.mRtcConn => call.mState \in Participating
BY NowTyped DEF IInv, Good, Sound, States

\* A step that changes only the call, and not its part in it.
LEMMA CallStep ==
    ASSUME IInv, NEW c \in Calls, c.todo = call.todo, c.mSfuConnection = call.mSfuConnection,
           c.mState = call.mState, c.mRtcConn = call.mRtcConn
    PROVE  LET t == [Now EXCEPT !.call = c]
           IN t \in States /\ Good(t) /\ t.call = c /\ t.conn = conn /\ Silent(Now, t)
<1>1. c.mState \in Participating <=> Now.call.mState \in Participating
  BY Before
<1>2. c.mRtcConn => c.mState \in Participating
  BY Before
<1>3. QED
  BY <1>1, <1>2, Before, CallMoved DEF Silent

\* A step that changes only the connection, which is retried.
LEMMA ConnStep ==
    ASSUME IInv, NEW k, Retried(conn, k), call.mSfuConnection => Watched(k)
    PROVE  LET t == [Now EXCEPT !.conn = k]
           IN Good(t) /\ t.call = call /\ Silent(Now, t)
BY Before, ConnRetried DEF Silent

LEMMA NewCallKept ==
    ASSUME IInv, NewCall
    PROVE  Kept
<1> DEFINE c == [NoCall EXCEPT !.mState = "ClientNoParticipating"]
           t == [Now EXCEPT !.call = c]
<1>1. Becomes(t) /\ Counted /\ call.mState = "none" /\ call.todo = <<>>
  BY DEF NewCall, Counted, HasCall, Settled
<1>2. ~call.mSfuConnection
  BY <1>1, Before DEF Participating
<1>3. /\ c \in Calls /\ ~c.mSfuConnection /\ ~c.mRtcConn /\ c.todo = <<>>
      /\ c.mState = "ClientNoParticipating"
  BY NoCallTyped DEF Calls, CallStates
<1>. HIDE DEF c
<1>4. /\ c.mState \in Participating <=> call.mState \in Participating
  BY <1>1, <1>3 DEF Participating
<1>5. c.mSfuConnection = Now.call.mSfuConnection
  BY <1>2, <1>3, Before DEF Calls
<1>6. Good(t)
  BY <1>1, <1>3, <1>4, <1>5, Before, CallMoved
<1>7. Silent(Now, t)
  BY <1>2, Before DEF Silent
<1>. HIDE DEF t
<1>8. QED
  BY <1>1, <1>6, <1>7, Became

LEMMA StartCallKept ==
    ASSUME IInv, StartCall
    PROVE  Kept
<1> DEFINE c == [NoCall EXCEPT !.mState = "Initial"]
           s == [Now EXCEPT !.call = c]
           t == ConnectSfu(s)
<1>1. Becomes(t) /\ Counted
  BY DEF StartCall, Counted
<1>2. c \in Calls
  BY NoCallTyped DEF Calls, CallStates
<1>3. s \in States
  BY <1>2, Before DEF States
<1>. HIDE DEF s
<1>4. Good(t) /\ t.call.mSfuConnection
  BY <1>3, SfuConnected
<1>. HIDE DEF t
<1>5. QED
  BY <1>1, <1>4, Became DEF Silent

LEMMA JoinKept ==
    ASSUME IInv, Join
    PROVE  Kept
<1> DEFINE c == [call EXCEPT !.mIsJoining = TRUE, !.request = TRUE]
           t == [Now EXCEPT !.call = c]
<1>1. Becomes(t) /\ Counted
  BY Before DEF Join, Counted, States
<1>2. /\ c \in Calls /\ c.todo = call.todo /\ c.mSfuConnection = call.mSfuConnection
      /\ c.mState = call.mState /\ c.mRtcConn = call.mRtcConn
  BY Before DEF Calls
<1>. HIDE DEF c
<1>3. Good(t) /\ Silent(Now, t)
  BY <1>2, CallStep
<1>. HIDE DEF t
<1>4. QED
  BY <1>1, <1>3, Became

LEMMA JoinAnsweredKept ==
    ASSUME IInv, JoinAnswered
    PROVE  Kept
<1> DEFINE c == [call EXCEPT !.request = FALSE, !.mIsJoining = FALSE]
           s == [Now EXCEPT !.call = c]
           t == ConnectSfu(s)
<1>1. Becomes(t) /\ Counted
  BY Before DEF JoinAnswered, Counted, States
<1>2. c \in Calls
  BY Before DEF Calls
<1>3. s \in States
  BY <1>2, Before DEF States
<1>. HIDE DEF s
<1>4. Good(t) /\ t.call.mSfuConnection
  BY <1>3, SfuConnected
<1>. HIDE DEF t
<1>5. QED
  BY <1>1, <1>4, Became DEF Silent

LEMMA JoinRefusedKept ==
    ASSUME IInv, JoinRefused
    PROVE  Kept
<1> DEFINE c == [call EXCEPT !.request = FALSE]
           t == [Now EXCEPT !.call = c]
<1>1. Becomes(t) /\ Counted
  BY Before DEF JoinRefused, Counted, States
<1>2. /\ c \in Calls /\ c.todo = call.todo /\ c.mSfuConnection = call.mSfuConnection
      /\ c.mState = call.mState /\ c.mRtcConn = call.mRtcConn
  BY Before DEF Calls
<1>. HIDE DEF c
<1>3. Good(t) /\ Silent(Now, t)
  BY <1>2, CallStep
<1>. HIDE DEF t
<1>4. QED
  BY <1>1, <1>3, Became

LEMMA HangupKept ==
    ASSUME IInv, Hangup
    PROVE  Kept
BY Before, OrderedGood, Became DEF Hangup, Counted

LEMMA SendOtherKept ==
    ASSUME IInv, SendOther
    PROVE  Kept
<1>1. "OTHER" \in Commands
  BY DEF Commands
<1>2. QED
  BY <1>1, Before, SendGood, Became DEF SendOther, Counted, Silent, Same

LEMMA CallDeletedKept ==
    ASSUME IInv, CallDeleted
    PROVE  Kept
BY Before, DestroyGood, Became DEF CallDeleted, Counted

LEMMA ReconnectingKept ==
    ASSUME IInv, ChatdLost \/ ChatdJoinedCall
    PROVE  Kept
<1>1. PICK b \in BOOLEAN : Becomes([Now EXCEPT !.call.mIsReconnectingToChatd = b])
  BY DEF ChatdLost, ChatdJoinedCall
<1> DEFINE c == [call EXCEPT !.mIsReconnectingToChatd = b]
           t == [Now EXCEPT !.call = c]
<1>2. Becomes(t) /\ Counted
  BY <1>1, Before DEF ChatdLost, ChatdJoinedCall, Counted, States
<1>3. /\ c \in Calls /\ c.todo = call.todo /\ c.mSfuConnection = call.mSfuConnection
      /\ c.mState = call.mState /\ c.mRtcConn = call.mRtcConn
  BY Before DEF Calls
<1>. HIDE DEF c
<1>4. Good(t) /\ Silent(Now, t)
  BY <1>3, CallStep
<1>. HIDE DEF t
<1>5. QED
  BY <1>2, <1>4, Became

LEMMA ChatdOnlineKept ==
    ASSUME IInv, ChatdOnline
    PROVE  Kept
<1> DEFINE k == RetryPendingConnection(conn, TRUE)
           t == [Now EXCEPT !.conn = k]
<1>1. Counted
  BY DEF ChatdOnline, Counted
<1>2. \/ Becomes(OrderedCallDisconnect(Now, FALSE))
      \/ Becomes(t)
      \/ Becomes(Now)
  BY DEF ChatdOnline
<1>3. CASE Becomes(OrderedCallDisconnect(Now, FALSE))
  BY <1>1, <1>3, Before, OrderedGood, Became
<1>4. CASE Becomes(t)
  <2>1. Retried(conn, k) /\ (call.mSfuConnection => Watched(k))
    BY Before, RetryPendingRetried
  <2>. HIDE DEF k
  <2>2. Good(t) /\ Silent(Now, t)
    BY <2>1, ConnStep
  <2>. HIDE DEF t
  <2>3. QED
    BY <1>1, <1>4, <2>2, Became
<1>5. CASE Becomes(Now)
  BY <1>1, <1>5, Before, Became DEF Silent
<1>6. QED
  BY <1>2, <1>3, <1>4, <1>5

LEMMA CallTimeoutKept ==
    ASSUME IInv, CallTimeout
    PROVE  Kept
<1>1. PICK timer \in {"off", "armed", "fired"} :
          LET s == [Now EXCEPT !.call.mConnectTimer = timer]
          IN Becomes(s) \/ Becomes(OnDestroyCall(s)) \/ Becomes(OrderedCallDisconnect(s, FALSE))
  BY DEF CallTimeout
<1> DEFINE c == [call EXCEPT !.mConnectTimer = timer]
           s == [Now EXCEPT !.call = c]
<1>2. /\ Counted
      /\ Becomes(s) \/ Becomes(OnDestroyCall(s)) \/ Becomes(OrderedCallDisconnect(s, FALSE))
  BY <1>1, Before DEF CallTimeout, Counted, States
<1>3. /\ c \in Calls /\ c.todo = call.todo /\ c.mSfuConnection = call.mSfuConnection
      /\ c.mState = call.mState /\ c.mRtcConn = call.mRtcConn
  BY Before DEF Calls
<1>. HIDE DEF c
<1>4. Good(s) /\ Silent(Now, s) /\ s.call.mSfuConnection = call.mSfuConnection /\ s.conn = conn
  BY <1>3, CallStep
<1>. HIDE DEF s
<1>5. Good(OnDestroyCall(s)) /\ Silent(Now, OnDestroyCall(s))
  BY <1>4, Before, DestroyGood DEF Silent
<1>6. Good(OrderedCallDisconnect(s, FALSE)) /\ Silent(Now, OrderedCallDisconnect(s, FALSE))
  BY <1>4, Before, OrderedGood DEF Silent
<1>7. QED
  BY <1>2, <1>4, <1>5, <1>6, Became

LEMMA ConnectTimeoutKept ==
    ASSUME IInv, ConnectTimeout
    PROVE  Kept
<1> DEFINE o == [conn EXCEPT !.mConnectTimer = "off"]
           k == RetryPendingConnection(o, TRUE)
           t == [Now EXCEPT !.conn = k]
<1>1. Becomes(t) /\ Counted
  BY DEF ConnectTimeout, Counted
<1>2. SocketOk(o) /\ Retried(conn, o) /\ (Begun(conn) => Begun(o))
  BY Before DEF SocketOk, Retried, Conns, Online, Begun
<1>. HIDE DEF o
<1>3. Retried(conn, k) /\ (call.mSfuConnection => Watched(k))
  BY <1>2, Before, RetryPendingRetried DEF Retried
<1>. HIDE DEF k
<1>4. Good(t) /\ Silent(Now, t)
  BY <1>3, ConnStep
<1>. HIDE DEF t
<1>5. QED
  BY <1>1, <1>4, Became

LEMMA BackoffTimeoutKept ==
    ASSUME IInv, BackoffTimeout
    PROVE  Kept
<1> DEFINE o == [conn EXCEPT !.mConnectTimer = "off"]
           k == Reconnect(o)
           t == [Now EXCEPT !.conn = k]
<1>1. Becomes(t) /\ Counted /\ conn.mConnectTimer = "backoff"
  BY DEF BackoffTimeout, Counted
<1>2. /\ SocketOk(o) /\ Retried(conn, o) /\ o.mConnState = conn.mConnState
      /\ call.mSfuConnection => o.mConnState = "Disconnected" \/ Watched(o)
  BY <1>1, Before DEF SocketOk, Retried, Conns, Online, Begun, Watched
<1>. HIDE DEF o
<1>3. Retried(conn, k) /\ (call.mSfuConnection => Watched(k))
  BY <1>2, ReconnectRetried DEF Retried
<1>. HIDE DEF k
<1>4. Good(t) /\ Silent(Now, t)
  BY <1>3, ConnStep
<1>. HIDE DEF t
<1>5. QED
  BY <1>1, <1>4, Became

LEMMA AttemptTimeoutKept ==
    ASSUME IInv, AttemptTimeout
    PROVE  Kept
<1> DEFINE k == [conn EXCEPT !.mRetryCtrl = "wait"]
           t == [Now EXCEPT !.conn = k]
<1>1. Becomes(t) /\ Counted
  BY Before DEF AttemptTimeout, Counted, States
<1>2. Retried(conn, k) /\ Watched(k)
  BY Before DEF SocketOk, Retried, Conns, Online, Begun, Watched
<1>. HIDE DEF k
<1>3. Good(t) /\ Silent(Now, t)
  BY <1>2, ConnStep
<1>. HIDE DEF t
<1>4. QED
  BY <1>1, <1>3, Became

LEMMA NextAttemptKept ==
    ASSUME IInv, NextAttempt
    PROVE  Kept
<1> DEFINE k == Attempt(conn)
           t == [Now EXCEPT !.conn = k]
<1>1. Becomes(t) /\ Counted
  BY DEF NextAttempt, Counted
<1>2. Retried(conn, k) /\ Watched(k)
  BY Before, AttemptRetried
<1>. HIDE DEF k
<1>3. Good(t) /\ Silent(Now, t)
  BY <1>2, ConnStep
<1>. HIDE DEF t
<1>4. QED
  BY <1>1, <1>3, Became

LEMMA RunMarshalledKept ==
    ASSUME IInv, RunMarshalled
    PROVE  Kept
<1> DEFINE q == Tail(call.todo)
           c == [call EXCEPT !.todo = q]
           s == [Now EXCEPT !.call = c]
<1>1. call.todo # <<>> /\ Counted /\ call.todo \in Seq(Todos)
  BY Before DEF RunMarshalled, Counted, Calls
<1>2. q \in Seq(Todos) /\ Head(call.todo) \in Todos
  BY <1>1
<1>3. PICK t : /\ t \in {ByeSent(s), RemoveCallImmediately(s, TRUE),
                         ImmediateCallDisconnect(s, FALSE)}
               /\ Becomes(t)
  <2>1. [Now EXCEPT !.call.todo = Tail(@)] = s
    BY Before DEF States
  <2>. HIDE DEF s
  <2>2. CASE Head(call.todo) = "byeSent"
    BY <2>1, <2>2 DEF RunMarshalled
  <2>3. CASE Head(call.todo) = "remove"
    BY <2>1, <2>3 DEF RunMarshalled
  <2>4. CASE Head(call.todo) = "leave"
    BY <2>1, <2>4 DEF RunMarshalled
  <2>5. QED
    BY <1>2, <2>2, <2>3, <2>4 DEF Todos
<1>. HIDE DEF q
<1>4. /\ c \in Calls /\ c.mSfuConnection = call.mSfuConnection
      /\ c.mState = call.mState /\ c.mRtcConn = call.mRtcConn
  BY <1>2, Before DEF Calls
<1>. HIDE DEF c
<1>5. s \in States /\ s.call = c /\ s.conn = conn
  BY <1>4, Before DEF States
<1>. HIDE DEF s
<1>6. Sound(s)
  BY <1>4, <1>5, Before DEF Sound
<1>7. Good(t)
  BY <1>3, <1>6, ByeSentGood, Removed, Disconnected
<1>8. Silent(Now, t)
  BY <1>1, Before DEF Good, Silent
<1>9. QED
  BY <1>1, <1>3, <1>7, <1>8, Became

LEMMA DoConnectKept ==
    ASSUME IInv, DoConnect
    PROVE  Kept
<1> DEFINE k == [conn EXCEPT !.mConnState = "Connecting", !.ctx = "opening"]
           t == [Now EXCEPT !.conn = k]
<1>1. /\ Becomes(t) /\ Counted /\ call.todo = <<>> /\ conn.mConnState = "Resolving"
  BY Before DEF DoConnect, Counted, States, Settled
<1>2. SocketOk(k) /\ Begun(k) /\ (Watched(conn) => Watched(k))
  BY <1>1, Before DEF SocketOk, Conns, ConnStates, Online, Begun, Watched
<1>3. k.mIsSendingBye = conn.mIsSendingBye /\ k.isSending = conn.isSending /\ k.out = conn.out
  BY Before DEF Conns
<1>4. conn.mIsSendingBye /\ call.mSfuConnection =>
          (conn.isSending /\ conn.out \in {"none", "BYE"}) \/ ByePosted(Now)
  BY Before DEF Good
<1>. HIDE DEF k
<1>5. Good(t) /\ t.call = call
  BY <1>1, <1>2, <1>3, <1>4, Before, ConnMoved
<1>6. Silent(Now, t)
  BY <1>5, Before DEF Silent
<1>. HIDE DEF t
<1>7. QED
  BY <1>1, <1>5, <1>6, Became

\* A step of a connection that sends what it was sending.
LEMMA SettledStep ==
    ASSUME IInv, NEW k, SocketOk(k), call.mSfuConnection => Begun(k) /\ Watched(k),
           call.mSfuConnection => call.todo = <<>> \/ (k.ctx = "open" /\ Over(k)),
           k.mIsSendingBye = conn.mIsSendingBye, k.isSending = conn.isSending, k.out = conn.out
    PROVE  LET t == [Now EXCEPT !.conn = k]
           IN t \in States /\ Good(t) /\ t.call = call /\ t.conn = k /\ Silent(Now, t)
<1>1. conn.mIsSendingBye /\ call.mSfuConnection =>
          (conn.isSending /\ conn.out \in {"none", "BYE"}) \/ ByePosted(Now)
  BY Before DEF Good
<1>2. QED
  BY <1>1, Before, ConnMoved DEF Silent

LEMMA ConnectedKept ==
    ASSUME IInv, Connected
    PROVE  Kept
<1> DEFINE j == [conn EXCEPT !.ctx = "open", !.sfu = "new"]
           l == [j EXCEPT !.mConnState = "Connected", !.mInitialBackoff = TRUE,
                          !.mRetryCtrl = "none", !.mConnectTimer = "off"]
           k == IF conn.mConnState # "Connecting" THEN j ELSE l
           t == [Now EXCEPT !.conn = k]
<1>1. Becomes(t) /\ Counted /\ call.todo = <<>> /\ conn.ctx = "opening"
  BY Before DEF Connected, Counted, States, Settled
<1>2. /\ j \in Conns /\ j.ctx = "open" /\ j.mConnState = conn.mConnState
      /\ j.mIsSendingBye = conn.mIsSendingBye /\ j.isSending = conn.isSending /\ j.out = conn.out
  BY Before DEF Conns, Stages
<1>. HIDE DEF j
<1>3. /\ l \in Conns /\ l.ctx = "open" /\ l.mConnState = "Connected"
      /\ l.mIsSendingBye = conn.mIsSendingBye /\ l.isSending = conn.isSending /\ l.out = conn.out
  BY <1>2 DEF Conns, ConnStates
<1>. HIDE DEF l
<1>4. k \in Conns /\ k.ctx = "open" /\ Online(k)
  BY <1>1, <1>2, <1>3, Before DEF SocketOk, Online
<1>5. k.mIsSendingBye = conn.mIsSendingBye /\ k.isSending = conn.isSending /\ k.out = conn.out
  BY <1>2, <1>3
<1>. HIDE DEF k
<1>6. SocketOk(k) /\ Begun(k) /\ Watched(k)
  BY <1>4 DEF SocketOk, Begun, Watched, Online
<1>7. Good(t) /\ Silent(Now, t)
  BY <1>1, <1>5, <1>6, SettledStep
<1>. HIDE DEF t
<1>8. QED
  BY <1>1, <1>7, Became

LEMMA SocketClosedKept ==
    ASSUME IInv, SocketClosed \/ SfuGivesUp
    PROVE  Kept
<1>1. Becomes(OnSocketClose(Now)) /\ Counted /\ call.mSfuConnection
  BY DEF SocketClosed, SfuGivesUp, Counted
<1>2. Good(OnSocketClose(Now)) /\ OnSocketClose(Now).call.mSfuConnection
  BY <1>1, Before, SocketClosedGood
<1>3. QED
  BY <1>1, <1>2, Became DEF Silent

\* A BYE that has been written is what the SFU was told.
LEMMA CommandWrittenKept ==
    ASSUME IInv, CommandWritten
    PROVE  Kept
<1> DEFINE stage == CASE conn.out = "JOIN" /\ conn.sfu = "admitted" -> "joining"
                      [] conn.out = "BYE" /\ conn.sfu # "left" -> "byed"
                      [] OTHER -> conn.sfu
           k == [conn EXCEPT !.out = "none", !.isSending = FALSE, !.sfu = stage]
           s == [Now EXCEPT !.conn = k]
           t == IF conn.mIsSendingBye THEN OnByeCommandSent(s) ELSE ProcessNextCommand(s)
<1>1. Counted /\ conn.ctx = "open" /\ conn.out # "none"
  BY DEF CommandWritten, Counted
<1>2. Becomes(t)
  BY ZenonT(30), Before DEF CommandWritten, States, Conns
<1>3. /\ stage \in Stages /\ (Over(conn) => stage \in {"left", "byed"})
      /\ conn.out = "BYE" => stage \in {"left", "byed"}
  BY Before DEF Over, Conns, Stages
<1>. HIDE DEF stage
<1>4. /\ k \in Conns /\ k.out = "none" /\ k.sfu = stage /\ k.ctx = "open"
      /\ k.mIsSendingBye = conn.mIsSendingBye /\ k.mConnState = conn.mConnState
  BY <1>1, <1>3, Before DEF Conns
<1>5. Online(conn) /\ Online(k)
  BY <1>1, <1>4, Before DEF SocketOk, Online
<1>. HIDE DEF k
<1>6. SocketOk(k) /\ Begun(k) /\ Watched(k)
  BY <1>4, <1>5 DEF SocketOk, Begun, Watched, Online
<1>7. s \in States /\ s.call = call /\ s.conn = k
  BY <1>4, Before DEF States
<1>. HIDE DEF s
<1>8. Sound(s)
  BY <1>6, <1>7, Before DEF Sound
<1>9. call.mSfuConnection /\ call.todo # <<>> => Over(conn)
  BY <1>1, Before DEF Good
<1>10. CASE conn.mIsSendingBye
  <2>1. call.mSfuConnection => conn.out = "BYE" \/ call.todo # <<>>
    <3>1. call.mSfuConnection => conn.out = "BYE" \/ ByePosted(Now)
      BY <1>1, <1>10, Before DEF Good
    <3>2. ByePosted(Now) => call.todo # <<>>
      BY Before DEF ByePosted
    <3>3. QED
      BY <3>1, <3>2
  <2>2. s.call.mSfuConnection => s.conn.ctx = "open" /\ Over(s.conn)
    BY <1>3, <1>4, <1>7, <1>9, <2>1 DEF Over
  <2>3. t = Marshall(s, "byeSent")
    BY <1>10 DEF OnByeCommandSent
  <2>. HIDE DEF t
  <2>4. Good(t) /\ t.call.mSfuConnection = s.call.mSfuConnection
    BY <1>8, <2>2, <2>3, MarshalledGood DEF Todos
  <2>5. Silent(Now, t)
    BY <1>7, <2>4, Before DEF Silent
  <2>6. QED
    BY <1>1, <1>2, <2>4, <2>5, Became
<1>11. CASE ~conn.mIsSendingBye
  <2>1. Good(s)
    BY <1>3, <1>4, <1>7, <1>8, <1>9, <1>11 DEF Good, Over
  <2>2. t = ProcessNextCommand(s)
    BY <1>11
  <2>. HIDE DEF t
  <2>3. Good(t) /\ t.call.mSfuConnection = s.call.mSfuConnection
    BY <2>1, <2>2, ProcessGood DEF Same
  <2>4. Silent(Now, t)
    BY <1>7, <2>3, Before DEF Silent
  <2>5. QED
    BY <1>1, <1>2, <2>3, <2>4, Became
<1>12. QED
  BY <1>10, <1>11

\* A message of the SFU changes what it has said, and then what the call makes of it.
LEMMA SfuSays ==
    ASSUME IInv, NEW stage \in Stages, call.mSfuConnection, conn.ctx = "open",
           call.todo = <<>> \/ stage = "left"
    PROVE  LET s == [Now EXCEPT !.conn.sfu = stage]
           IN /\ Good(s) /\ s.call = call /\ s.conn.sfu = stage /\ s.conn.ctx = "open"
              /\ Silent(Now, s)
<1> DEFINE k == [conn EXCEPT !.sfu = stage]
           s == [Now EXCEPT !.conn = k]
<1>1. [Now EXCEPT !.conn.sfu = stage] = s
  BY Before DEF States
<1>2. /\ SocketOk(k) /\ (Begun(conn) => Begun(k)) /\ (Watched(conn) => Watched(k))
      /\ k.mIsSendingBye = conn.mIsSendingBye /\ k.isSending = conn.isSending
      /\ k.out = conn.out /\ k.ctx = "open" /\ k.sfu = stage
  BY Before DEF SocketOk, Begun, Watched, Online, Conns
<1>. HIDE DEF k
<1>3. stage = "left" => Over(k)
  BY <1>2 DEF Over
<1>4. Good(s) /\ s.call = call /\ s.conn = k /\ Silent(Now, s)
  BY <1>2, <1>3, Before, SettledStep
<1>. HIDE DEF s
<1>5. QED
  BY <1>1, <1>2, <1>4

\* While the SFU is talking to the call, nothing is marshalled.
LEMMA NothingMarshalled ==
    ASSUME IInv, FromSfu({"new", "waiting", "admitted", "joining", "joined"})
    PROVE  call.todo = <<>> /\ call.mSfuConnection /\ conn.ctx = "open" /\ ~Over(conn)
BY Before DEF FromSfu, Good, Over

LEMMA HelloKept ==
    ASSUME IInv, Hello
    PROVE  Kept
<1>1. PICK stage \in {"waiting", "admitted"} :
          LET s == [Now EXCEPT !.conn.sfu = stage]
          IN Becomes(SetState(s, "InWaitingRoom")) \/ Becomes(JoinSfu(s))
  BY DEF Hello
<1> DEFINE s == [Now EXCEPT !.conn.sfu = stage]
<1>2. /\ Counted /\ call.mSfuConnection
      /\ Becomes(SetState(s, "InWaitingRoom")) \/ Becomes(JoinSfu(s))
  BY <1>1 DEF Hello, Counted, FromSfu
<1>3. FromSfu({"new", "waiting", "admitted", "joining", "joined"})
  BY DEF Hello, FromSfu
<1>4. Good(s) /\ s.call.mSfuConnection
  <2>1. stage \in Stages
    BY DEF Stages
  <2>2. call.todo = <<>> /\ conn.ctx = "open"
    BY <1>3, NothingMarshalled
  <2>3. QED
    BY <1>2, <2>1, <2>2, SfuSays
<1>. HIDE DEF s
<1>5. Good(SetState(s, "InWaitingRoom")) /\ SetState(s, "InWaitingRoom").call.mSfuConnection
  BY <1>4, MovedOn DEF Participating
<1>6. Good(JoinSfu(s)) /\ JoinSfu(s).call.mSfuConnection
  BY <1>4, SfuJoined
<1>7. QED
  BY <1>2, <1>5, <1>6, Became DEF Silent

LEMMA WrAllowKept ==
    ASSUME IInv, WrAllow
    PROVE  Kept
<1> DEFINE s == [Now EXCEPT !.conn.sfu = "admitted"]
<1>1. Counted /\ call.mSfuConnection /\ (Becomes(JoinSfu(s)) \/ Becomes(s))
  BY DEF WrAllow, Counted, FromSfu
<1>2. FromSfu({"new", "waiting", "admitted", "joining", "joined"})
  BY DEF WrAllow, FromSfu
<1>3. Good(s) /\ s.call.mSfuConnection
  <2>1. "admitted" \in Stages
    BY DEF Stages
  <2>2. call.todo = <<>> /\ conn.ctx = "open"
    BY <1>2, NothingMarshalled
  <2>3. QED
    BY <1>1, <2>1, <2>2, SfuSays
<1>. HIDE DEF s
<1>4. Good(JoinSfu(s)) /\ JoinSfu(s).call.mSfuConnection
  BY <1>3, SfuJoined
<1>5. QED
  BY <1>1, <1>3, <1>4, Became DEF Silent

LEMMA PushedKept ==
    ASSUME IInv, PushedIntoWaitingRoom
    PROVE  Kept
<1> DEFINE s == [Now EXCEPT !.conn.sfu = "waiting"]
           m == MediaChannelDisconnect(s)
<1>1. /\ Counted /\ call.mSfuConnection
      /\ Becomes(SetState(m, "InWaitingRoom")) \/ Becomes(s)
  BY DEF PushedIntoWaitingRoom, Counted, FromSfu
<1>2. FromSfu({"new", "waiting", "admitted", "joining", "joined"})
  BY DEF PushedIntoWaitingRoom, FromSfu
<1>3. Good(s) /\ s.call.mSfuConnection
  <2>1. "waiting" \in Stages
    BY DEF Stages
  <2>2. call.todo = <<>> /\ conn.ctx = "open"
    BY <1>2, NothingMarshalled
  <2>3. QED
    BY <1>1, <2>1, <2>2, SfuSays
<1>. HIDE DEF s
<1>4. Good(m) /\ m.call.mSfuConnection
  BY <1>3, ClosedMedia DEF Same
<1>. HIDE DEF m
<1>5. Good(SetState(m, "InWaitingRoom")) /\ SetState(m, "InWaitingRoom").call.mSfuConnection
  BY <1>4, MovedOn DEF Participating
<1>6. QED
  BY <1>1, <1>3, <1>5, Became DEF Silent

LEMMA SfuEndsCallKept ==
    ASSUME IInv, SfuEndsCall
    PROVE  Kept
<1> DEFINE s == [Now EXCEPT !.conn.sfu = "left"]
           m == Marshall(s, "leave")
<1>1. Counted /\ call.mSfuConnection /\ conn.ctx = "open" /\ (Becomes(m) \/ Becomes(s))
  BY DEF SfuEndsCall, Counted, FromSfu
<1>2. Good(s) /\ s.call.mSfuConnection /\ s.conn.ctx = "open" /\ s.conn.sfu = "left"
  <2>1. "left" \in Stages
    BY DEF Stages
  <2>2. QED
    BY <1>1, <2>1, SfuSays
<1>. HIDE DEF s
<1>3. Good(m) /\ m.call.mSfuConnection
  BY <1>2, MarshalledGood DEF Good, Over, Todos
<1>. HIDE DEF m
<1>4. QED
  BY <1>1, <1>2, <1>3, Became DEF Silent

LEMMA JoinDeniedKept ==
    ASSUME IInv, JoinDenied
    PROVE  Kept
<1> DEFINE s == [Now EXCEPT !.conn.sfu = "admitted"]
           t == OrderedCallDisconnect(s, FALSE)
<1>1. Counted /\ call.mSfuConnection /\ (Becomes(t) \/ Becomes(s))
  BY DEF JoinDenied, Counted, FromSfu
<1>2. FromSfu({"new", "waiting", "admitted", "joining", "joined"})
  BY DEF JoinDenied, FromSfu
<1>3. Good(s) /\ s.call.mSfuConnection /\ s.conn.ctx = "open" /\ s.conn.sfu = "admitted"
  <2>1. "admitted" \in Stages
    BY DEF Stages
  <2>2. call.todo = <<>> /\ conn.ctx = "open"
    BY <1>2, NothingMarshalled
  <2>3. QED
    BY <1>1, <2>1, <2>2, SfuSays
<1>. HIDE DEF s
<1>4. Good(t) /\ Silent(s, t)
  BY <1>3, OrderedGood
<1>. HIDE DEF t
<1>5. t.call.mSfuConnection
  BY <1>3, <1>4 DEF Silent, Over
<1>6. QED
  BY <1>1, <1>3, <1>4, <1>5, Became DEF Silent

LEMMA AnswerKept ==
    ASSUME IInv, Answer
    PROVE  Kept
<1> DEFINE s == [Now EXCEPT !.conn.sfu = "joined"]
           n == s.call.answers + 1
           k == [s.conn EXCEPT !.mInitialBackoff = FALSE, !.mConnState = "Joined"]
           c == [s.call EXCEPT !.answers = n]
           u == [s EXCEPT !.conn = k]
           t == [u EXCEPT !.call = c]
<1>1. FromSfu({"new", "waiting", "admitted", "joining", "joined"})
  BY DEF Answer, FromSfu
<1>2. call.todo = <<>> /\ call.mSfuConnection /\ conn.ctx = "open"
  BY <1>1, NothingMarshalled
<1>3. Good(s) /\ s.call = call /\ s.conn.ctx = "open"
  <2>1. "joined" \in Stages
    BY DEF Stages
  <2>2. QED
    BY <1>2, <2>1, SfuSays
<1>4. s \in States /\ s.call \in Calls /\ s.conn \in Conns
  BY <1>3 DEF Good, Sound, States
<1>5. Counted /\ (Becomes(s) \/ Becomes([s EXCEPT !.call.answers = @ + 1,
                                                  !.conn.mInitialBackoff = FALSE,
                                                  !.conn.mConnState = "Joined"]))
  BY DEF Answer, Counted
<1>. HIDE DEF s
<1>6. [s EXCEPT !.call.answers = @ + 1, !.conn.mInitialBackoff = FALSE,
                !.conn.mConnState = "Joined"] = t
  BY <1>4 DEF States, Calls, Conns
<1>7. /\ k \in Conns /\ k.ctx = "open" /\ k.mConnState = "Joined"
      /\ k.mIsSendingBye = s.conn.mIsSendingBye /\ k.isSending = s.conn.isSending
      /\ k.out = s.conn.out
  BY <1>3, <1>4 DEF Conns, ConnStates
<1>. HIDE DEF k
<1>8. SocketOk(k) /\ Begun(k) /\ Watched(k)
  BY <1>7 DEF SocketOk, Begun, Watched, Online
<1>9. Good(u) /\ u.call = s.call
  BY <1>2, <1>3, <1>7, <1>8, ConnMoved DEF Good
<1>. HIDE DEF u
<1>10. n \in Nat
  BY <1>4 DEF Calls
<1>. HIDE DEF n
<1>11. /\ c \in Calls /\ c.todo = s.call.todo /\ c.mSfuConnection = s.call.mSfuConnection
       /\ c.mState = s.call.mState /\ c.mRtcConn = s.call.mRtcConn
  BY <1>4, <1>10 DEF Calls
<1>. HIDE DEF c
<1>12. c.mRtcConn => c.mState \in Participating
  BY <1>3, <1>11 DEF Good, Sound
<1>13. Good(t) /\ t.call.mSfuConnection
  BY <1>2, <1>3, <1>9, <1>11, <1>12, CallMoved
<1>. HIDE DEF t
<1>14. QED
  BY <1>2, <1>3, <1>5, <1>6, <1>13, Became DEF Silent

\* A continuation of createOffer or setRemoteDescription is one less to wait for.
LEMMA OfferStep ==
    ASSUME IInv, call.offers > 0
    PROVE  LET s == [Now EXCEPT !.call.offers = @ - 1]
           IN /\ Good(s) /\ s.call.mSfuConnection = call.mSfuConnection /\ s.conn = conn
              /\ s.call.mState = call.mState /\ s.call.todo = call.todo
<1> DEFINE n == call.offers - 1
           c == [call EXCEPT !.offers = n]
           s == [Now EXCEPT !.call = c]
<1>1. [Now EXCEPT !.call.offers = @ - 1] = s
  BY Before DEF States, Calls
<1>2. n \in Nat
  BY Before DEF Calls
<1>. HIDE DEF n
<1>3. /\ c \in Calls /\ c.todo = call.todo /\ c.mSfuConnection = call.mSfuConnection
      /\ c.mState = call.mState /\ c.mRtcConn = call.mRtcConn
  BY <1>2, Before DEF Calls
<1>. HIDE DEF c
<1>4. Good(s) /\ s.call = c /\ s.conn = conn
  BY <1>3, CallStep
<1>. HIDE DEF s
<1>5. QED
  BY <1>1, <1>3, <1>4

LEMMA AnswerStep ==
    ASSUME IInv, call.answers > 0
    PROVE  LET s == [Now EXCEPT !.call.answers = @ - 1]
           IN /\ Good(s) /\ s.call.mSfuConnection = call.mSfuConnection /\ s.conn = conn
              /\ s.call.mState = call.mState /\ s.call.todo = call.todo
<1> DEFINE n == call.answers - 1
           c == [call EXCEPT !.answers = n]
           s == [Now EXCEPT !.call = c]
<1>1. [Now EXCEPT !.call.answers = @ - 1] = s
  BY Before DEF States, Calls
<1>2. n \in Nat
  BY Before DEF Calls
<1>. HIDE DEF n
<1>3. /\ c \in Calls /\ c.todo = call.todo /\ c.mSfuConnection = call.mSfuConnection
      /\ c.mState = call.mState /\ c.mRtcConn = call.mRtcConn
  BY <1>2, Before DEF Calls
<1>. HIDE DEF c
<1>4. Good(s) /\ s.call = c /\ s.conn = conn
  BY <1>3, CallStep
<1>. HIDE DEF s
<1>5. QED
  BY <1>1, <1>3, <1>4

LEMMA OfferCreatedKept ==
    ASSUME IInv, OfferCreated
    PROVE  Kept
<1> DEFINE s == [Now EXCEPT !.call.offers = @ - 1]
           k == [s.conn EXCEPT !.mConnState = "Joining"]
           u == [s EXCEPT !.conn = k]
           t == SendCommand(u, "JOIN")
<1>1. /\ Good(s) /\ s.call.mSfuConnection = call.mSfuConnection /\ s.conn = conn
      /\ s.call.mState = call.mState
  BY OfferStep DEF OfferCreated
<1>2. /\ Counted /\ s \in States /\ s.conn \in Conns
      /\ Becomes(s) \/ (call.mState = "Joining" /\ Becomes(t))
  BY <1>1 DEF OfferCreated, Counted, Good, Sound, States
<1>. HIDE DEF s
<1>3. CASE Becomes(s)
  BY <1>1, <1>2, <1>3, Before, Became DEF Silent
<1>4. CASE call.mState = "Joining" /\ Becomes(t)
  <2>1. s.call.mSfuConnection /\ Begun(s.conn)
    BY <1>1, <1>4, Before DEF Participating
  <2>2. /\ SocketOk(k) /\ Begun(k) /\ Watched(k) /\ k.ctx = s.conn.ctx /\ Over(k) = Over(s.conn)
        /\ k.mIsSendingBye = s.conn.mIsSendingBye /\ k.isSending = s.conn.isSending
        /\ k.out = s.conn.out
    BY <1>1, <1>2, Before DEF SocketOk, Begun, Watched, Online, Conns, ConnStates, Over
  <2>. HIDE DEF k
  <2>3. Good(u) /\ u.call = s.call
    BY <1>1, <2>1, <2>2, ConnMoved DEF Good
  <2>. HIDE DEF u
  <2>4. Good(t) /\ t.call.mSfuConnection
    BY <2>1, <2>3, SendGood DEF Same, Commands
  <2>. HIDE DEF t
  <2>5. QED
    BY <1>2, <1>4, <2>4, Became DEF Silent
<1>5. QED
  BY <1>2, <1>3, <1>4

LEMMA OfferFailedKept ==
    ASSUME IInv, OfferFailed
    PROVE  Kept
<1> DEFINE s == [Now EXCEPT !.call.offers = @ - 1]
           t == OrderedCallDisconnect(s, FALSE)
<1>1. Becomes(t) /\ Counted
  BY DEF OfferFailed, Counted
<1>2. Good(s) /\ s.call.mSfuConnection = call.mSfuConnection /\ s.conn = conn
  BY OfferStep DEF OfferFailed
<1>. HIDE DEF s
<1>3. Good(t) /\ Silent(Now, t)
  BY <1>2, Before, OrderedGood DEF Silent
<1>. HIDE DEF t
<1>4. QED
  BY <1>1, <1>3, Became

LEMMA AnswerAppliedKept ==
    ASSUME IInv, AnswerApplied
    PROVE  Kept
<1> DEFINE s == [Now EXCEPT !.call.answers = @ - 1]
           t == SetState(s, "InProgress")
<1>1. Counted /\ (Becomes(s) \/ (call.mState = "Joining" /\ Becomes(t)))
  BY DEF AnswerApplied, Counted
<1>2. Good(s) /\ s.call.mSfuConnection = call.mSfuConnection
  BY AnswerStep DEF AnswerApplied
<1>. HIDE DEF s
<1>3. CASE Becomes(s)
  BY <1>1, <1>2, <1>3, Before, Became DEF Silent
<1>4. CASE call.mState = "Joining" /\ Becomes(t)
  <2>1. s.call.mSfuConnection
    BY <1>2, <1>4, Before DEF Participating
  <2>2. Good(t) /\ t.call.mSfuConnection
    BY <1>2, <2>1, MovedOn DEF Participating
  <2>. HIDE DEF t
  <2>3. QED
    BY <1>1, <1>4, <2>2, Became DEF Silent
<1>5. QED
  BY <1>1, <1>3, <1>4

LEMMA AnswerFailedKept ==
    ASSUME IInv, AnswerFailed
    PROVE  Kept
<1> DEFINE s == [Now EXCEPT !.call.answers = @ - 1]
           t == OrderedCallDisconnect(s, FALSE)
<1>1. Becomes(t) /\ Counted
  BY DEF AnswerFailed, Counted
<1>2. Good(s) /\ s.call.mSfuConnection = call.mSfuConnection /\ s.conn = conn
  BY AnswerStep DEF AnswerFailed
<1>. HIDE DEF s
<1>3. Good(t) /\ Silent(Now, t)
  BY <1>2, Before, OrderedGood DEF Silent
<1>. HIDE DEF t
<1>4. QED
  BY <1>1, <1>3, Became

\* Media that are lost: the call ends, connects again, or says BYE to connect again.
LEMMA MediaLostKept ==
    ASSUME IInv, MediaLost
    PROVE  Kept
<1> DEFINE s == SetState(Now, "Connecting")
           t == OrderedCallDisconnect(Now, FALSE)
           u == [s EXCEPT !.conn = RetryPendingConnection(ClearCommandsQueue(conn), TRUE)]
           v == SendCommand(s, "BYE")
<1>1. Counted /\ call.mSfuConnection
  BY DEF MediaLost, Counted
<1>2. Becomes(t) \/ Becomes(u) \/ Becomes(v) \/ Becomes(Now)
  BY DEF MediaLost
<1>3. Good(s) /\ Sound(s) /\ s.call.mSfuConnection /\ s.conn = conn
  BY <1>1, Before, MovedOn DEF Participating, Good
<1>4. Good(t) /\ Silent(Now, t)
  BY Before, OrderedGood
<1>. HIDE DEF s, t
<1>5. Good(u) /\ u.call.mSfuConnection
  BY <1>3, ClearedGood
<1>6. Good(v) /\ v.call.mSfuConnection
  BY <1>3, SendGood DEF Same, Commands
<1>. HIDE DEF u, v
<1>7. QED
  BY <1>1, <1>2, <1>4, <1>5, <1>6, Before, Became DEF Silent

LEMMA MediaConnectedKept ==
    ASSUME IInv, MediaConnected
    PROVE  Kept
<1> DEFINE b == ~Online(conn)
           k == RetryPendingConnection(conn, b)
           t == [Now EXCEPT !.conn = k]
<1>1. Becomes(t) /\ Counted
  BY DEF MediaConnected, Counted
<1>2. b \in BOOLEAN
  BY DEF Online
<1>. HIDE DEF b
<1>3. Retried(conn, k) /\ (call.mSfuConnection => Watched(k))
  BY <1>2, Before, RetryPendingRetried
<1>. HIDE DEF k
<1>4. Good(t) /\ Silent(Now, t)
  BY <1>3, ConnStep
<1>. HIDE DEF t
<1>5. QED
  BY <1>1, <1>4, Became

-----------------------------------------------------------------------------
(* The theorems *)

LEMMA InitIInv == Init => IInv
<1> SUFFICES ASSUME Init PROVE IInv
  OBVIOUS
<1>1. Now \in States /\ Now.call = NoCall /\ Now.conn = NoConnection
  BY NoCallTyped, NoConnectionOk, NowTyped, Pair DEF Init, Now, SocketOk
<1>2. Sound(Now)
  BY <1>1, NoCallTyped, NoConnectionOk DEF Sound
<1>3. budget \in Budgets
  BY CallAssumption DEF Init, Budgets
<1>4. QED
  BY <1>1, <1>2, <1>3, NoCallTyped, WithoutConnection DEF IInv

LEMMA NextIInv == IInv /\ [Next]_vars => Kept
<1> SUFFICES ASSUME IInv, [Next]_vars PROVE Kept
  OBVIOUS
<1>1. CASE UNCHANGED vars
  <2>1. Becomes(Now) /\ Counted
    BY <1>1, NowTyped DEF vars, Becomes, Counted, Free
  <2>2. QED
    BY <2>1, Before, Became DEF Silent
<1>2. CASE FromChatd
  BY <1>2, NewCallKept, CallDeletedKept, ReconnectingKept, ChatdOnlineKept DEF FromChatd
<1>3. CASE FromUser
  BY <1>3, StartCallKept, JoinKept, JoinAnsweredKept, JoinRefusedKept, HangupKept,
     SendOtherKept DEF FromUser
<1>4. CASE Timers
  BY <1>4, CallTimeoutKept, ConnectTimeoutKept, BackoffTimeoutKept, AttemptTimeoutKept,
     NextAttemptKept DEF Timers
<1>5. CASE RunMarshalled
  BY <1>5, RunMarshalledKept
<1>6. CASE Socket
  BY <1>6, DoConnectKept, ConnectedKept, SocketClosedKept, CommandWrittenKept DEF Socket
<1>7. CASE SfuMessages
  BY <1>7, HelloKept, WrAllowKept, PushedKept, SfuEndsCallKept, JoinDeniedKept,
     AnswerKept DEF SfuMessages
<1>8. CASE Webrtc
  BY <1>8, OfferCreatedKept, OfferFailedKept, AnswerAppliedKept, AnswerFailedKept,
     MediaLostKept, MediaConnectedKept DEF Webrtc
<1>9. QED
  BY <1>1, <1>2, <1>3, <1>4, <1>5, <1>6, <1>7, <1>8 DEF Next

\* Every reachable state is sound, and a marshalled call or a BYE finds what it counts on.
THEOREM Invariant == Spec => []IInv
<1>1. IInv /\ [Next]_vars => IInv'
  BY NextIInv DEF Kept
<1>2. QED
  BY <1>1, InitIInv, PTL DEF Spec

\* Every member of the call, of its connection and of the socket keeps its type.
THEOREM CallTyped == Spec => []TypeOK
<1>1. IInv => TypeOK
  BY Before DEF IInv, TypeOK, Calls, Conns, Stages, Todos, Budgets
<1>2. QED
  BY <1>1, Invariant, PTL

\* disconnectFromSfu(), connectSfu() and every change of state in between: a user takes part
\* in a call exactly while it holds a connection, and has no peer connection otherwise.
THEOREM LeavingCloses == Spec => []LeftMeansClosed
<1>1. IInv => LeftMeansClosed
  BY Before DEF LeftMeansClosed, Begun
<1>2. QED
  BY <1>1, Invariant, PTL

\* doReconnect(), retryPendingConnection(), onSocketClose() and the timers: a connection that
\* is not online and may be retried has something that will act on it.
THEOREM AlwaysSupervised == Spec => []Supervised
<1>1. IInv => Supervised
  BY Before DEF Supervised, Watched
<1>2. QED
  BY <1>1, Invariant, PTL

\* orderedCallDisconnect(), onDestroyCall() and what they marshall: an open socket is dropped
\* to leave the call only when the SFU had ended the call or been told.
THEOREM LeavesWithBye == Spec => NeverLeavesSilently
<1>1. IInv /\ [Next]_vars =>
          [call.mSfuConnection /\ ~call'.mSfuConnection /\ conn.ctx = "open" =>
               conn.sfu \in {"left", "byed"}]_vars
  <2> SUFFICES ASSUME IInv, [Next]_vars
               PROVE  call.mSfuConnection /\ ~call'.mSfuConnection /\ conn.ctx = "open" =>
                          conn.sfu \in {"left", "byed"}
    OBVIOUS
  <2>1. Silent(Now, Now')
    BY NextIInv DEF Kept
  <2>2. Now.call = call /\ Now.conn = conn /\ Now'.call = call'
    BY DEF Now
  <2>3. QED
    BY <2>1, <2>2 DEF Silent, Over
<1>2. QED
  BY <1>1, Invariant, PTL DEF Spec, NeverLeavesSilently

=============================================================================
