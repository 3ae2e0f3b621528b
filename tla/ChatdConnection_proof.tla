----------------------- MODULE ChatdConnection_proof -----------------------
(***************************************************************************)
(* Proofs about ChatdConnection.  The invariants of the connection are not *)
(* inductive one by one: a retry is supervised because what it tears down  *)
(* was, and the two requests of an URL exclude each other because of the   *)
(* states they are made in.  Inv is their conjunction over the record of a *)
(* connection, with the little they need besides, so that a lemma can say  *)
(* of each method which records it makes sound.                            *)
(***************************************************************************)
EXTENDS ChatdConnection, TLAPS

Requests(k) == /\ k.fetch # "none" => k.mState = "FetchingUrl" /\ ~k.url /\ ~k.mFetchingUrl
               /\ k.refetch => k.url /\ k.mFetchingUrl

Handover(k) ==
    /\ k.mState = "Connected" => /\ k.mRetryCtrl = NoCtrl /\ ~k.mConnectTimer
                                 /\ k.ctx = "open" /\ k.mHeartbeatEnabled
    /\ k.mState # "Connected" => ~k.mHeartbeatEnabled /\ ~k.mEchoTimer
    /\ k.mState \notin {"Connecting", "Connected"} => k.ctx = "none"
    /\ k.mState \notin Down => k.mRetryCtrl = NoCtrl

Watched(k) == k.mState \in Down => k.mConnectTimer /\ k.mRetryCtrl # NoCtrl /\ k.url

\* what the properties need besides
Kept(k) == /\ k.mRetryCtrl # NoCtrl => k.mRetryCtrl.addr \in Addresses
           /\ k.mState = "Connected" => k.url
           /\ k.mState = "New" => k.fetch = "none" /\ ~k.mFetchingUrl /\ ~k.refetch

Inv(k) == k \in Conns /\ Requests(k) /\ Handover(k) /\ Watched(k) /\ Kept(k)

Networks == {"good", "half", "down", "no dns"}

IInv == /\ Inv(conn)
        /\ network \in Networks
        /\ budget \in [{"faults", "slow", "calls"} -> Nat]

\* a connection that is being retried, whatever its socket
Working(k) ==
    /\ k \in Conns /\ k.mState \in Down
    /\ k.mConnectTimer /\ ~k.mHeartbeatEnabled /\ ~k.mEchoTimer
    /\ k.mRetryCtrl # NoCtrl /\ k.mRetryCtrl.addr \in Addresses
    /\ k.url /\ k.fetch = "none" /\ (k.refetch => k.mFetchingUrl)

-----------------------------------------------------------------------------

\* What setState(kStateDisconnected) assigns are values of the right types.
LEMMA Assigned ==
    ASSUME NEW k \in Conns, NEW m \in States, NEW h \in BOOLEAN, NEW e \in BOOLEAN,
           NEW t \in BOOLEAN, NEW c \in {"none", "connecting", "open"}
    PROVE  [k EXCEPT !.mState = m, !.mHeartbeatEnabled = h, !.ctx = c, !.mEchoTimer = e,
                     !.mConnectTimer = t] \in Conns
  BY DEF Conns

\* setState(kStateDisconnected) yields the record of a connection.
LEMMA DisconnectedSound ==
    ASSUME NEW k \in Conns
    PROVE  SetDisconnected(k) \in Conns
<1>1. CASE k.mState = "Disconnected"
  BY <1>1 DEF SetDisconnected
<1>2. CASE k.mState # "Disconnected"
  <2>1. "Disconnected" \in States
    BY DEF States
  <2>2. TRUE \in BOOLEAN /\ FALSE \in BOOLEAN
    OBVIOUS
  <2>3. QED
    BY <1>2, <2>1, <2>2, Assigned, ZenonT(30) DEF SetDisconnected
<1>3. QED
  BY <1>1, <1>2

\* It leaves the URL, the requests and the controller alone.
LEMMA DisconnectedFields ==
    ASSUME NEW k \in Conns
    PROVE  LET d == SetDisconnected(k)
           IN  /\ d.mState = "Disconnected"
               /\ d.url = k.url /\ d.ip = k.ip
               /\ d.fetch = k.fetch /\ d.refetch = k.refetch
               /\ d.mFetchingUrl = k.mFetchingUrl /\ d.mRetryCtrl = k.mRetryCtrl
  BY DEF SetDisconnected, Conns, States

\* a record whose socket, heartbeat and echo timer are gone when it is Disconnected
Quiet(k) == k.mState = "Disconnected" =>
               k.ctx = "none" /\ ~k.mHeartbeatEnabled /\ ~k.mEchoTimer

\* It leaves no socket and no timer but the connect timer.
LEMMA DisconnectedQuiet ==
    ASSUME NEW k \in Conns, Quiet(k)
    PROVE  LET d == SetDisconnected(k)
           IN  /\ d.ctx = "none" /\ d.mHeartbeatEnabled = FALSE /\ d.mEchoTimer = FALSE
               /\ (k.mState # "Disconnected" \/ k.mConnectTimer) => d.mConnectTimer
  BY DEF SetDisconnected, Quiet, Conns, States

\* A connection being retried is sound when no other state than Connecting has a socket.
LEMMA WorkingSound ==
    ASSUME NEW k, Working(k), k.mState = "Connecting" \/ k.ctx = "none"
    PROVE  Inv(k)
  BY DEF Working, Inv, Requests, Handover, Watched, Kept, Down

\* A sound connection that is down is being retried.
LEMMA SoundWorks ==
    ASSUME NEW k, Inv(k), k.mState \in Down
    PROVE  Working(k)
  BY DEF Working, Inv, Requests, Handover, Watched, Kept, Down

\* A failed attempt leaves a sound connection.
LEMMA CloseAttemptSound ==
    ASSUME NEW k, Working(k), k.mState # "Disconnected"
    PROVE  Inv(CloseAttempt(k))
<1> DEFINE d == SetDisconnected(k)
           p == IF d.mConnectPromise = "pending" THEN "rejected" ELSE d.mConnectPromise
           c == [d EXCEPT !.mConnectPromise = p]
<1>1. k \in Conns /\ Quiet(k)
  BY DEF Working, Quiet
<1>2. d \in Conns
  BY <1>1, DisconnectedSound
<1>3. p \in {"pending", "resolved", "rejected"}
  BY <1>2 DEF Conns
<1>4. c \in Conns
  BY <1>2, <1>3 DEF Conns
<1>5. /\ d.mState = "Disconnected" /\ d.url = k.url /\ d.fetch = k.fetch
      /\ d.refetch = k.refetch /\ d.mFetchingUrl = k.mFetchingUrl
      /\ d.mRetryCtrl = k.mRetryCtrl
  BY <1>1, DisconnectedFields
<1>6. d.ctx = "none" /\ d.mHeartbeatEnabled = FALSE /\ d.mEchoTimer = FALSE /\ d.mConnectTimer
  BY <1>1, DisconnectedQuiet
<1>7. /\ c.mState = d.mState /\ c.url = d.url /\ c.fetch = d.fetch /\ c.refetch = d.refetch
      /\ c.mFetchingUrl = d.mFetchingUrl /\ c.mRetryCtrl = d.mRetryCtrl /\ c.ctx = d.ctx
      /\ c.mHeartbeatEnabled = d.mHeartbeatEnabled /\ c.mEchoTimer = d.mEchoTimer
      /\ c.mConnectTimer = d.mConnectTimer
  BY <1>2 DEF Conns
<1>8. Working(c) /\ c.ctx = "none"
  BY <1>4, <1>5, <1>6, <1>7 DEF Working, Down
<1>9. c = CloseAttempt(k)
  BY <1>2 DEF CloseAttempt, Conns
<1>10. QED
  BY <1>8, <1>9, WorkingSound

\* doConnect leaves a sound connection, whatever the network does.
LEMMA DoConnectSound ==
    ASSUME NEW k, Working(k), network \in Networks
    PROVE  Inv(DoConnect(k))
<1> DEFINE with(c) == [k EXCEPT !.mState = "Connecting", !.ctx = c]
<1>1. "Connecting" \in States /\ k \in Conns
  BY DEF States, Working
<1>2. ASSUME NEW c \in {"none", "connecting", "open"}
      PROVE  Working(with(c)) /\ with(c).mState = "Connecting"
  <2>1. with(c) \in Conns
    BY <1>1 DEF Conns
  <2>2. /\ with(c).mState = "Connecting" /\ with(c).url = k.url /\ with(c).fetch = k.fetch
        /\ with(c).refetch = k.refetch /\ with(c).mFetchingUrl = k.mFetchingUrl
        /\ with(c).mRetryCtrl = k.mRetryCtrl /\ with(c).mConnectTimer = k.mConnectTimer
        /\ with(c).mHeartbeatEnabled = k.mHeartbeatEnabled
        /\ with(c).mEchoTimer = k.mEchoTimer
    BY <1>1 DEF Conns
  <2>3. QED
    BY <2>1, <2>2 DEF Working, Down
<1>3. CASE network \in {"good", "no dns"}
  <2>1. DoConnect(k) = with("connecting")
    BY <1>3 DEF DoConnect
  <2>2. QED
    BY <2>1, <1>2, WorkingSound
<1>4. CASE network = "half"
  <2>1. DoConnect(k) = with("none")
    BY <1>4 DEF DoConnect
  <2>2. QED
    BY <2>1, <1>2, WorkingSound
<1>5. CASE network = "down"
  <2>1. DoConnect(k) = CloseAttempt(with("none"))
    BY <1>5 DEF DoConnect
  <2>2. QED
    BY <2>1, <1>2, CloseAttemptSound
<1>6. QED
  BY <1>3, <1>4, <1>5 DEF Networks

\* An attempt, from any state a controller can run it in, leaves a sound connection.
LEMMA AttemptSound ==
    ASSUME NEW k \in Conns, Quiet(k), network \in Networks,
           k.mState # "Disconnected" \/ k.mConnectTimer,
           k.mRetryCtrl # NoCtrl, k.mRetryCtrl.addr \in Addresses,
           k.url, k.fetch = "none", k.refetch => k.mFetchingUrl
    PROVE  Inv(Attempt(k))
<1> DEFINE d     == SetDisconnected(k)
           with(p) == [d EXCEPT !.mState = "Resolving", !.mConnectPromise = p]
           query == [addr |-> k.mRetryCtrl.addr, attemptNo |-> k.mRetryCtrl.attemptNo,
                     cachedIPs |-> k.ip # NoIp]
           asked == [with("pending") EXCEPT !.queries = Append(@, query)]
<1>1. d \in Conns
  BY DisconnectedSound
<1>2. /\ d.mState = "Disconnected" /\ d.url = k.url /\ d.fetch = k.fetch
      /\ d.refetch = k.refetch /\ d.mFetchingUrl = k.mFetchingUrl
      /\ d.mRetryCtrl = k.mRetryCtrl
  BY DisconnectedFields
<1>3. d.ctx = "none" /\ d.mHeartbeatEnabled = FALSE /\ d.mEchoTimer = FALSE /\ d.mConnectTimer
  BY DisconnectedQuiet
<1>4. ASSUME NEW p \in {"pending", "resolved", "rejected"}
      PROVE  Working(with(p)) /\ with(p).ctx = "none"
  <2>1. "Resolving" \in States
    BY DEF States
  <2>2. with(p) \in Conns
    BY <1>1, <2>1 DEF Conns
  <2>3. /\ with(p).mState = "Resolving" /\ with(p).url = d.url /\ with(p).fetch = d.fetch
        /\ with(p).refetch = d.refetch /\ with(p).mFetchingUrl = d.mFetchingUrl
        /\ with(p).mRetryCtrl = d.mRetryCtrl /\ with(p).mConnectTimer = d.mConnectTimer
        /\ with(p).mHeartbeatEnabled = d.mHeartbeatEnabled
        /\ with(p).mEchoTimer = d.mEchoTimer /\ with(p).ctx = d.ctx
    BY <1>1 DEF Conns
  <2>4. QED
    BY <1>2, <1>3, <2>2, <2>3 DEF Working, Down
<1>5. query \in Queries
  BY DEF Queries, Conns, Ctrls
<1>6. Working(asked) /\ asked.ctx = "none"
  <2> DEFINE w == with("pending")
  <2>1. Working(w) /\ w.ctx = "none" /\ w \in Conns
    BY <1>4 DEF Working
  <2>2. w.queries \in Seq(Queries)
    BY <2>1 DEF Conns
  <2>3. Append(w.queries, query) \in Seq(Queries)
    BY <2>2, <1>5
  <2>. HIDE DEF w, query
  <2> DEFINE a == [w EXCEPT !.queries = Append(w.queries, query)]
  <2>4. a \in Conns
    BY <2>1, <2>3 DEF Conns
  <2>5. /\ a.mState = w.mState /\ a.url = w.url /\ a.fetch = w.fetch
        /\ a.refetch = w.refetch /\ a.mFetchingUrl = w.mFetchingUrl
        /\ a.mRetryCtrl = w.mRetryCtrl /\ a.mConnectTimer = w.mConnectTimer
        /\ a.mHeartbeatEnabled = w.mHeartbeatEnabled
        /\ a.mEchoTimer = w.mEchoTimer /\ a.ctx = w.ctx
    BY <2>1 DEF Conns
  <2>6. Working(a) /\ a.ctx = "none"
    BY <2>1, <2>4, <2>5 DEF Working
  <2>7. QED
    BY <2>6 DEF w
<1>7. CASE k.ip # NoIp
  <2>1. Attempt(k) = DoConnect(with("pending")) \/ Attempt(k) = DoConnect(asked)
    BY <1>7 DEF Attempt
  <2>2. Inv(DoConnect(with("pending"))) /\ Inv(DoConnect(asked))
    BY <1>4, <1>6, DoConnectSound
  <2>3. QED
    BY <2>1, <2>2
<1>8. CASE k.ip = NoIp
  <2>1. Attempt(k) = with("pending") \/ Attempt(k) = asked
    BY <1>8 DEF Attempt
  <2>2. Inv(with("pending")) /\ Inv(asked)
    BY <1>4, <1>6, WorkingSound
  <2>3. QED
    BY <2>1, <2>2
<1>9. QED
  BY <1>7, <1>8

\* So does the controller that runs it.
LEMMA NextTrySound ==
    ASSUME NEW k \in Conns, Quiet(k), network \in Networks,
           k.mState # "Disconnected" \/ k.mConnectTimer,
           k.mRetryCtrl.addr \in Addresses,
           k.url, k.fetch = "none", k.refetch => k.mFetchingUrl
    PROVE  Inv(NextTry(k))
<1> DEFINE c == [k.mRetryCtrl EXCEPT !.state = "InProgress"]
           t == [k EXCEPT !.mRetryCtrl = c]
<1>1. k.mRetryCtrl \in Ctrls
  BY DEF Conns
<1>2. c \in Ctrls /\ c.addr = k.mRetryCtrl.addr /\ c.state = "InProgress"
  BY <1>1 DEF Ctrls
<1>3. c # NoCtrl
  BY <1>2 DEF NoCtrl
<1>. HIDE DEF c
<1>4. t \in Conns
  BY <1>2 DEF Conns
<1>5. /\ t.mState = k.mState /\ t.mConnectTimer = k.mConnectTimer /\ t.mRetryCtrl = c
      /\ t.url = k.url /\ t.fetch = k.fetch /\ t.refetch = k.refetch
      /\ t.mFetchingUrl = k.mFetchingUrl /\ t.ctx = k.ctx
      /\ t.mHeartbeatEnabled = k.mHeartbeatEnabled /\ t.mEchoTimer = k.mEchoTimer
  BY DEF Conns
<1>6. Quiet(t)
  BY <1>5 DEF Quiet
<1>. HIDE DEF t
<1>7. Inv(Attempt(t))
  BY <1>2, <1>3, <1>4, <1>5, <1>6, AttemptSound
<1>8. NextTry(k) = Attempt(t)
  BY DEF NextTry, t, c
<1>9. QED
  BY <1>7, <1>8

\* So do start and restart.
LEMMA StartSound ==
    ASSUME NEW k \in Conns, Quiet(k), network \in Networks,
           k.mState # "Disconnected" \/ k.mConnectTimer,
           k.mRetryCtrl.addr \in Addresses,
           k.url, k.fetch = "none", k.refetch => k.mFetchingUrl
    PROVE  Inv(Start(k))
<1> DEFINE c == [k.mRetryCtrl EXCEPT !.attemptNo = 1]
           t == [k EXCEPT !.mRetryCtrl = c]
<1>1. k.mRetryCtrl \in Ctrls
  BY DEF Conns
<1>2. c \in Ctrls /\ c.addr = k.mRetryCtrl.addr
  BY <1>1 DEF Ctrls
<1>. HIDE DEF c
<1>3. t \in Conns
  BY <1>2 DEF Conns
<1>4. /\ t.mState = k.mState /\ t.mConnectTimer = k.mConnectTimer /\ t.mRetryCtrl = c
      /\ t.url = k.url /\ t.fetch = k.fetch /\ t.refetch = k.refetch
      /\ t.mFetchingUrl = k.mFetchingUrl /\ t.ctx = k.ctx
      /\ t.mHeartbeatEnabled = k.mHeartbeatEnabled /\ t.mEchoTimer = k.mEchoTimer
  BY DEF Conns
<1>5. Quiet(t)
  BY <1>4 DEF Quiet
<1>. HIDE DEF t
<1>6. Inv(NextTry(t))
  BY <1>2, <1>3, <1>4, <1>5, NextTrySound
<1>7. Start(k) = NextTry(t)
  BY DEF Start, t, c
<1>8. QED
  BY <1>6, <1>7

\* reconnect from a state without an attempt: the timer it starts does not depend on the one
\* that was running
LEMMA ReconnectSound ==
    ASSUME NEW k \in Conns, NEW addr \in Addresses, network \in Networks,
           k.mState \in {"New", "FetchingUrl", "Disconnected"},
           k.url, k.fetch = "none", k.refetch => k.mFetchingUrl
    PROVE  Inv(Reconnect(k, addr))
<1> DEFINE c == [k.mRetryCtrl EXCEPT !.addr = addr]
           t == [k EXCEPT !.mState = "Resolving", !.mRetryCtrl = c]
<1>1. k.mRetryCtrl \in Ctrls /\ "Resolving" \in States
  BY DEF Conns, States
<1>2. c \in Ctrls /\ c.addr = addr
  BY <1>1 DEF Ctrls
<1>. HIDE DEF c
<1>3. t \in Conns
  BY <1>1, <1>2 DEF Conns
<1>4. /\ t.mState = "Resolving" /\ t.mRetryCtrl = c
      /\ t.url = k.url /\ t.fetch = k.fetch /\ t.refetch = k.refetch
      /\ t.mFetchingUrl = k.mFetchingUrl
  BY DEF Conns
<1>5. Quiet(t)
  BY <1>4 DEF Quiet
<1>. HIDE DEF t
<1>6. Inv(Start(t))
  BY <1>2, <1>3, <1>4, <1>5, StartSound
<1>7. Reconnect(k, addr) = Start(t)
  BY DEF Reconnect, t, c
<1>8. QED
  BY <1>6, <1>7

\* abortRetryController removes the controller and nothing else.
LEMMA AbortSound ==
    ASSUME NEW k \in Conns
    PROVE  LET a == AbortRetryController(k)
           IN  /\ a \in Conns /\ a.mRetryCtrl = NoCtrl
               /\ a.mState = k.mState /\ a.mConnectTimer = k.mConnectTimer
               /\ a.url = k.url /\ a.fetch = k.fetch /\ a.refetch = k.refetch
               /\ a.mFetchingUrl = k.mFetchingUrl /\ a.ctx = k.ctx
               /\ a.mHeartbeatEnabled = k.mHeartbeatEnabled /\ a.mEchoTimer = k.mEchoTimer
<1>1. NoCtrl \in Ctrls
  BY DEF NoCtrl, Ctrls
<1>2. QED
  BY <1>1 DEF AbortRetryController, Conns

\* A connection torn down from any state that has an URL is sound once it reconnects.
LEMMA RestartedSound ==
    ASSUME NEW k \in Conns, NEW addr \in Addresses, network \in Networks,
           k.url, k.fetch = "none", k.refetch => k.mFetchingUrl
    PROVE  Inv(Restarted(k, addr))
<1> DEFINE d == SetDisconnected(k)
           a == AbortRetryController(d)
<1>1. d \in Conns
  BY DisconnectedSound
<1>2. /\ d.mState = "Disconnected" /\ d.url = k.url /\ d.fetch = k.fetch
      /\ d.refetch = k.refetch /\ d.mFetchingUrl = k.mFetchingUrl
  BY DisconnectedFields
<1>. HIDE DEF d
<1>3. /\ a \in Conns /\ a.mState = d.mState /\ a.url = d.url /\ a.fetch = d.fetch
      /\ a.refetch = d.refetch /\ a.mFetchingUrl = d.mFetchingUrl
  BY <1>1, AbortSound
<1>. HIDE DEF a
<1>4. Inv(Reconnect(a, addr))
  BY <1>2, <1>3, ReconnectSound
<1>5. QED
  BY <1>4 DEF Restarted, a, d

\* Fetching a fresh URL leaves a sound connection: the request is not made twice.
LEMMA RefreshSound ==
    ASSUME NEW k, Inv(k)
    PROVE  Inv(Refresh(k))
<1> DEFINE d == SetDisconnected(k)
           a == [d EXCEPT !.mRetryCtrl = NoCtrl]
           f == [a EXCEPT !.url = FALSE, !.ip = NoIp]
           r == [f EXCEPT !.mState = "FetchingUrl", !.fetch = "retry"]
<1>1. CASE IsFetching(k)
  BY <1>1 DEF Refresh
<1>2. CASE ~IsFetching(k)
  <2>1. k \in Conns /\ Quiet(k) /\ ~k.mFetchingUrl /\ ~k.refetch
    BY <1>2 DEF Inv, Quiet, Handover, Requests, IsFetching
  <2>2. d \in Conns /\ d.mFetchingUrl = k.mFetchingUrl /\ d.refetch = k.refetch
    BY <2>1, DisconnectedSound, DisconnectedFields
  <2>3. d.ctx = "none" /\ d.mHeartbeatEnabled = FALSE /\ d.mEchoTimer = FALSE
    BY <2>1, DisconnectedQuiet
  <2>. HIDE DEF d
  <2>4. /\ NoCtrl \in Ctrls /\ NoIp \in IPs \cup {NoIp} /\ FALSE \in BOOLEAN
        /\ "FetchingUrl" \in States /\ "retry" \in {"none", "connect", "retry"}
    BY DEF NoCtrl, Ctrls, States
  <2>5. a \in Conns /\ a.mRetryCtrl = NoCtrl /\ a.ctx = d.ctx /\ a.refetch = d.refetch
        /\ a.mHeartbeatEnabled = d.mHeartbeatEnabled /\ a.mEchoTimer = d.mEchoTimer
        /\ a.mFetchingUrl = d.mFetchingUrl
    BY <2>2, <2>4 DEF Conns
  <2>6. a = AbortRetryController(d)
    BY DEF AbortRetryController
  <2>. HIDE DEF a
  <2>7. f \in Conns /\ ~f.url /\ f.mRetryCtrl = a.mRetryCtrl /\ f.ctx = a.ctx
        /\ f.mHeartbeatEnabled = a.mHeartbeatEnabled /\ f.mEchoTimer = a.mEchoTimer
        /\ f.mFetchingUrl = a.mFetchingUrl /\ f.refetch = a.refetch
    BY <2>4, <2>5 DEF Conns
  <2>. HIDE DEF f
  <2>8. r \in Conns /\ r.mState = "FetchingUrl" /\ r.fetch = "retry"
        /\ r.url = f.url /\ r.mRetryCtrl = f.mRetryCtrl /\ r.ctx = f.ctx
        /\ r.mHeartbeatEnabled = f.mHeartbeatEnabled /\ r.mEchoTimer = f.mEchoTimer
        /\ r.mFetchingUrl = f.mFetchingUrl /\ r.refetch = f.refetch
    BY <2>4, <2>7 DEF Conns
  <2>9. Inv(r)
    BY <2>1, <2>2, <2>3, <2>5, <2>7, <2>8
       DEF Inv, Requests, Handover, Watched, Kept, Down
  <2>10. Refresh(k) = r
    BY <1>2, <2>6 DEF Refresh, FetchUrl, f, d
  <2>11. QED
    BY <2>9, <2>10
<1>3. QED
  BY <1>1, <1>2

\* retryPendingConnection leaves a sound connection, called at any moment.
LEMMA RetrySound ==
    ASSUME NEW k, Inv(k), NEW disconnect \in BOOLEAN, NEW refreshURL \in BOOLEAN,
           NEW addr \in Addresses, network \in Networks
    PROVE  Inv(RetryPendingConnection(k, disconnect, refreshURL, addr))
<1>1. CASE k.mState = "New"
  BY <1>1 DEF RetryPendingConnection
<1>2. CASE k.mState # "New" /\ (refreshURL \/ ~k.url)
  BY <1>2, RefreshSound DEF RetryPendingConnection
<1>3. CASE k.mState # "New" /\ ~refreshURL /\ k.url
  <2>1. k \in Conns /\ k.fetch = "none" /\ (k.refetch => k.mFetchingUrl) /\ Quiet(k)
    BY <1>3 DEF Inv, Requests, Handover, Quiet
  <2>2. CASE disconnect
    <3>1. RetryPendingConnection(k, disconnect, refreshURL, addr) = Restarted(k, addr)
      BY <1>3, <2>2 DEF RetryPendingConnection
    <3>2. QED
      BY <1>3, <2>1, <3>1, RestartedSound
  <2>3. CASE ~disconnect /\ k.mRetryCtrl.state = "RetryWait"
    <3>1. RetryPendingConnection(k, disconnect, refreshURL, addr) = Start(k)
      BY <1>3, <2>3 DEF RetryPendingConnection
    <3>2. k.mRetryCtrl # NoCtrl
      BY <2>3 DEF NoCtrl
    <3>3. k.mRetryCtrl.addr \in Addresses /\ k.mConnectTimer
      BY <3>2 DEF Inv, Kept, Handover, Watched
    <3>4. QED
      BY <1>3, <2>1, <3>1, <3>3, StartSound
  <2>4. CASE ~disconnect /\ k.mRetryCtrl.state # "RetryWait"
    BY <1>3, <2>4 DEF RetryPendingConnection
  <2>5. QED
    BY <2>2, <2>3, <2>4
<1>4. QED
  BY <1>1, <1>2, <1>3

\* An attempt whose socket is open ends in a sound connection.
LEMMA SetConnectedSound ==
    ASSUME NEW k, Working(k), k.ctx = "open"
    PROVE  Inv(SetConnected(k))
<1> DEFINE c == [k EXCEPT !.mState = "Connected", !.mConnectPromise = "resolved",
                          !.mRetryCtrl = NoCtrl, !.mConnectTimer = FALSE,
                          !.mHeartbeatEnabled = TRUE]
<1>1. k \in Conns
  BY DEF Working
<1>2. CASE k.mConnectPromise # "pending"
  <2>1. k.url \in BOOLEAN /\ k.ip \in IPs \cup {NoIp}
    BY <1>1 DEF Conns
  <2>2. Inv(New(k.url, k.ip))
    <3>1. New(k.url, k.ip) \in Conns
      BY <2>1, ConnectionAssumption
         DEF New, Conns, States, Ctrls, NoCtrl
    <3>2. QED
      BY <3>1 DEF New, Inv, Requests, Handover, Watched, Kept, Down
  <2>3. QED
    BY <1>2, <2>2 DEF SetConnected
<1>3. CASE k.mConnectPromise = "pending"
  <2>1. /\ "Connected" \in States /\ NoCtrl \in Ctrls /\ FALSE \in BOOLEAN /\ TRUE \in BOOLEAN
        /\ "resolved" \in {"pending", "resolved", "rejected"}
    BY DEF NoCtrl, Ctrls, States
  <2>2. ASSUME NEW m \in States, NEW p \in {"pending", "resolved", "rejected"},
               NEW r \in Ctrls, NEW t \in BOOLEAN, NEW h \in BOOLEAN
        PROVE  [k EXCEPT !.mState = m, !.mConnectPromise = p, !.mRetryCtrl = r,
                         !.mConnectTimer = t, !.mHeartbeatEnabled = h] \in Conns
    BY <1>1 DEF Conns
  <2>3. c \in Conns
    BY <2>1, <2>2, ZenonT(30)
  <2>4. /\ c.mState = "Connected" /\ c.mRetryCtrl = NoCtrl /\ ~c.mConnectTimer
        /\ c.mHeartbeatEnabled /\ c.ctx = k.ctx /\ c.url = k.url /\ c.fetch = k.fetch
        /\ c.refetch = k.refetch /\ c.mFetchingUrl = k.mFetchingUrl
    BY <1>1 DEF Conns
  <2>5. Inv(c)
    BY <2>3, <2>4 DEF Working, Inv, Requests, Handover, Watched, Kept, Down
  <2>6. QED
    BY <1>3, <2>5 DEF SetConnected
<1>4. QED
  BY <1>2, <1>3

-----------------------------------------------------------------------------
(* What the handlers change besides calling those methods *)

\* Inv does not depend on the requests, the address nor the count of connections.
LEMMA SameInv ==
    ASSUME NEW k, Inv(k), NEW j \in Conns,
           j.mState = k.mState, j.mHeartbeatEnabled = k.mHeartbeatEnabled,
           j.mEchoTimer = k.mEchoTimer, j.mConnectTimer = k.mConnectTimer,
           j.mFetchingUrl = k.mFetchingUrl, j.mRetryCtrl = k.mRetryCtrl, j.ctx = k.ctx,
           j.url = k.url, j.fetch = k.fetch, j.refetch = k.refetch
    PROVE  Inv(j)
  BY DEF Inv, Requests, Handover, Watched, Kept

\* The retry of a connection whose address is forgotten or replaced.
LEMMA AddressSound ==
    ASSUME NEW k, Inv(k), NEW ip \in IPs \cup {NoIp}
    PROVE  LET j == [k EXCEPT !.ip = ip]
           IN  Inv(j) /\ j.mState = k.mState /\ j.mRetryCtrl = k.mRetryCtrl
<1> DEFINE j == [k EXCEPT !.ip = ip]
<1>1. k \in Conns
  BY DEF Inv
<1>2. j \in Conns
  BY <1>1 DEF Conns
<1>3. /\ j.mState = k.mState /\ j.mHeartbeatEnabled = k.mHeartbeatEnabled
      /\ j.mEchoTimer = k.mEchoTimer /\ j.mConnectTimer = k.mConnectTimer
      /\ j.mFetchingUrl = k.mFetchingUrl /\ j.mRetryCtrl = k.mRetryCtrl /\ j.ctx = k.ctx
      /\ j.url = k.url /\ j.fetch = k.fetch /\ j.refetch = k.refetch
  BY <1>1 DEF Conns
<1>. HIDE DEF j
<1>4. Inv(j)
  BY <1>2, <1>3, SameInv
<1>5. QED
  BY <1>3, <1>4 DEF j

\* The same with the count of connections.
LEMMA CountSound ==
    ASSUME NEW k, Inv(k), NEW n \in 0..kMaxConnSuceeded
    PROVE  LET j == [k EXCEPT !.mConnSuceeded = n]
           IN  Inv(j) /\ j.mState = k.mState /\ j.mRetryCtrl = k.mRetryCtrl /\ j.ctx = k.ctx
<1> DEFINE j == [k EXCEPT !.mConnSuceeded = n]
<1>1. k \in Conns
  BY DEF Inv
<1>2. j \in Conns
  BY <1>1 DEF Conns
<1>3. /\ j.mState = k.mState /\ j.mHeartbeatEnabled = k.mHeartbeatEnabled
      /\ j.mEchoTimer = k.mEchoTimer /\ j.mConnectTimer = k.mConnectTimer
      /\ j.mFetchingUrl = k.mFetchingUrl /\ j.mRetryCtrl = k.mRetryCtrl /\ j.ctx = k.ctx
      /\ j.url = k.url /\ j.fetch = k.fetch /\ j.refetch = k.refetch
  BY <1>1 DEF Conns
<1>. HIDE DEF j
<1>4. Inv(j)
  BY <1>2, <1>3, SameInv
<1>5. QED
  BY <1>3, <1>4 DEF j

\* RemoveAt leaves a sequence of requests.
LEMMA RemoveAtQueries ==
    ASSUME NEW s \in Seq(Queries), NEW i \in DOMAIN s
    PROVE  RemoveAt(s, i) \in Seq(Queries)
<1>1. i \in 1..Len(s)
  OBVIOUS
<1>2. SubSeq(s, 1, i - 1) \in Seq(Queries) /\ SubSeq(s, i + 1, Len(s)) \in Seq(Queries)
  BY <1>1
<1>3. QED
  BY <1>2 DEF RemoveAt

\* A DNS answer that is dropped leaves a sound connection.
LEMMA AnsweredSound ==
    ASSUME Inv(conn), NEW i \in DOMAIN conn.queries
    PROVE  /\ Inv(Answered(i)) /\ conn.queries[i] \in Queries
           /\ Answered(i).mState = conn.mState /\ Answered(i).mRetryCtrl = conn.mRetryCtrl
<1> DEFINE qs == RemoveAt(conn.queries, i)
           j  == [conn EXCEPT !.queries = qs]
<1>1. conn \in Conns
  BY DEF Inv
<1>2. conn.queries \in Seq(Queries)
  BY <1>1 DEF Conns
<1>3. qs \in Seq(Queries) /\ conn.queries[i] \in Queries
  BY <1>2, RemoveAtQueries
<1>. HIDE DEF qs
<1>4. j \in Conns
  BY <1>1, <1>3 DEF Conns
<1>5. /\ j.mState = conn.mState /\ j.mHeartbeatEnabled = conn.mHeartbeatEnabled
      /\ j.mEchoTimer = conn.mEchoTimer /\ j.mConnectTimer = conn.mConnectTimer
      /\ j.mFetchingUrl = conn.mFetchingUrl /\ j.mRetryCtrl = conn.mRetryCtrl
      /\ j.ctx = conn.ctx /\ j.url = conn.url /\ j.fetch = conn.fetch
      /\ j.refetch = conn.refetch
  BY <1>1 DEF Conns
<1>6. Answered(i) = j
  BY DEF Answered, qs
<1>. HIDE DEF j
<1>7. Inv(j)
  BY <1>4, <1>5, SameInv
<1>8. QED
  BY <1>3, <1>5, <1>6, <1>7

\* An answer is only taken for current while the connection is being retried: whatever
\* address the controller it asked for had, there is a controller now.
LEMMA CurrentWorks ==
    ASSUME NEW k, Inv(k), NEW q \in Queries, IsCurrent(k, q)
    PROVE  Working(k)
<1>1. k.mRetryCtrl.addr \in Addresses
  BY DEF IsCurrent, Queries
<1>2. k.mRetryCtrl # NoCtrl
  BY <1>1, AddressAssumption DEF NoCtrl
<1>3. k.mState \in Down
  BY <1>2 DEF Inv, Handover
<1>4. QED
  BY <1>3, SoundWorks

\* The bounds are spent, never exceeded.
LEMMA Spent ==
    ASSUME budget \in [{"faults", "slow", "calls"} -> Nat],
           NEW what \in {"faults", "slow", "calls"}, Spend(what)
    PROVE  budget' \in [{"faults", "slow", "calls"} -> Nat]
  BY DEF Spend

\* The socket of an attempt, or of a connection that was up, closes.
LEMMA OnSocketCloseSound ==
    ASSUME NEW k \in Conns, NEW addr \in Addresses, network \in Networks,
           k.mState = "Connected" \/ (k.mState = "Connecting" /\ Working(k)),
           k.url, k.fetch = "none", k.refetch => k.mFetchingUrl
    PROVE  Inv(OnSocketClose(k, addr))
<1>1. CASE k.mState = "Connected"
  <2> DEFINE d == SetDisconnected(k)
  <2>1. /\ d \in Conns /\ d.mState = "Disconnected" /\ d.url = k.url /\ d.fetch = k.fetch
        /\ d.refetch = k.refetch /\ d.mFetchingUrl = k.mFetchingUrl
    BY DisconnectedSound, DisconnectedFields
  <2>2. OnSocketClose(k, addr) = Reconnect(d, addr)
    BY <1>1 DEF OnSocketClose
  <2>. HIDE DEF d
  <2>3. QED
    BY <2>1, <2>2, ReconnectSound
<1>2. CASE k.mState = "Connecting"
  <2>1. OnSocketClose(k, addr) = CloseAttempt(k)
    BY <1>2 DEF OnSocketClose
  <2>2. QED
    BY <1>2, <2>1, CloseAttemptSound
<1>3. QED
  BY <1>1, <1>2

-----------------------------------------------------------------------------
(* One lemma for each group of handlers *)

\* Chat::connect keeps the connection sound.
LEMMA ConnectStep ==
    ASSUME IInv, Connect
    PROVE  IInv'
<1>1. PICK addr \in Addresses :
         conn' = IF conn.url THEN Reconnect(conn, addr) ELSE FetchUrl(conn, "connect")
  BY DEF Connect
<1>2. /\ conn \in Conns /\ conn.mState = "New" /\ conn.fetch = "none" /\ ~conn.refetch
      /\ ~conn.mFetchingUrl /\ conn.ctx = "none" /\ conn.mRetryCtrl = NoCtrl
      /\ ~conn.mHeartbeatEnabled /\ ~conn.mEchoTimer
  BY DEF Connect, IInv, Inv, Kept, Handover, Down
<1>3. CASE conn.url
  BY <1>1, <1>2, <1>3, ReconnectSound DEF IInv, Connect
<1>4. CASE ~conn.url
  <2> DEFINE f == [conn EXCEPT !.mState = "FetchingUrl", !.fetch = "connect"]
  <2>1. f \in Conns
    BY <1>2 DEF Conns, States
  <2>2. /\ f.mState = "FetchingUrl" /\ f.fetch = "connect" /\ f.url = conn.url
        /\ f.refetch = conn.refetch /\ f.mFetchingUrl = conn.mFetchingUrl /\ f.ctx = conn.ctx
        /\ f.mRetryCtrl = conn.mRetryCtrl /\ f.mHeartbeatEnabled = conn.mHeartbeatEnabled
        /\ f.mEchoTimer = conn.mEchoTimer
    BY <1>2 DEF Conns
  <2>3. Inv(f)
    BY <1>2, <1>4, <2>1, <2>2 DEF Inv, Requests, Handover, Watched, Kept, Down
  <2>4. conn' = f
    BY <1>1, <1>4 DEF FetchUrl
  <2>5. QED
    BY <2>3, <2>4 DEF IInv, Connect
<1>5. QED
  BY <1>3, <1>4

\* The answer to fetchUrl keeps the connection sound.
LEMMA UrlFetchedStep ==
    ASSUME IInv, UrlFetched
    PROVE  IInv'
<1> DEFINE k == [conn EXCEPT !.fetch = "none", !.url = TRUE, !.ip = NoIp]
           z == [k EXCEPT !.mConnSuceeded = 0]
<1>1. PICK addr \in Addresses :
         conn' = IF conn.fetch = "connect" THEN Reconnect(k, addr)
                 ELSE RetryPendingConnection(z, TRUE, FALSE, addr)
  BY DEF UrlFetched
<1>2. /\ conn \in Conns /\ conn.mState = "FetchingUrl" /\ ~conn.refetch /\ ~conn.mFetchingUrl
      /\ conn.ctx = "none" /\ conn.mRetryCtrl = NoCtrl /\ ~conn.mHeartbeatEnabled
      /\ ~conn.mEchoTimer
  BY DEF UrlFetched, IInv, Inv, Requests, Handover, Down
<1>3. k \in Conns
  <2>1. ASSUME NEW f \in {"none", "connect", "retry"}, NEW u \in BOOLEAN,
               NEW ip \in IPs \cup {NoIp}
        PROVE  [conn EXCEPT !.fetch = f, !.url = u, !.ip = ip] \in Conns
    BY <1>2 DEF Conns
  <2>2. "none" \in {"none", "connect", "retry"} /\ TRUE \in BOOLEAN /\ NoIp \in IPs \cup {NoIp}
    OBVIOUS
  <2>3. QED
    BY <2>1, <2>2, ZenonT(30)
<1>4. /\ k.mState = conn.mState /\ k.fetch = "none" /\ k.url /\ k.refetch = conn.refetch
      /\ k.mFetchingUrl = conn.mFetchingUrl /\ k.ctx = conn.ctx
      /\ k.mRetryCtrl = conn.mRetryCtrl /\ k.mHeartbeatEnabled = conn.mHeartbeatEnabled
      /\ k.mEchoTimer = conn.mEchoTimer
  BY <1>2 DEF Conns
<1>. HIDE DEF k
<1>5. Inv(k)
  BY <1>2, <1>3, <1>4 DEF Inv, Requests, Handover, Watched, Kept, Down
<1>6. 0 \in 0..kMaxConnSuceeded
  BY ConnectionAssumption
<1>7. Inv(z)
  BY <1>5, <1>6, CountSound
<1>. HIDE DEF z
<1>8. Inv(Reconnect(k, addr))
  BY <1>2, <1>3, <1>4, ReconnectSound DEF IInv
<1>9. Inv(RetryPendingConnection(z, TRUE, FALSE, addr))
  BY <1>7, RetrySound DEF IInv
<1>10. QED
  BY <1>1, <1>8, <1>9 DEF IInv, UrlFetched

\* No URL leaves a connection that waits for none.
LEMMA UrlRefusedStep ==
    ASSUME IInv, UrlRefused
    PROVE  IInv'
<1>1. PICK succeeded \in {0, conn.mConnSuceeded} :
         conn' = [conn EXCEPT !.fetch = "none",
                              !.mConnSuceeded = IF conn.fetch = "retry" THEN succeeded ELSE @]
  BY DEF UrlRefused
<1> DEFINE n == IF conn.fetch = "retry" THEN succeeded ELSE conn.mConnSuceeded
           r == [conn EXCEPT !.fetch = "none", !.mConnSuceeded = n]
<1>2. /\ conn \in Conns /\ conn.mState = "FetchingUrl" /\ ~conn.refetch /\ ~conn.mFetchingUrl
      /\ conn.ctx = "none" /\ conn.mRetryCtrl = NoCtrl /\ ~conn.mHeartbeatEnabled
      /\ ~conn.mEchoTimer
  BY DEF UrlRefused, IInv, Inv, Requests, Handover, Down
<1>3. n \in 0..kMaxConnSuceeded
  BY <1>2, ConnectionAssumption DEF Conns
<1>4. conn' = r
  BY <1>1, <1>2 DEF Conns
<1>. HIDE DEF n
<1>5. r \in Conns
  BY <1>2, <1>3 DEF Conns
<1>6. /\ r.mState = conn.mState /\ r.fetch = "none" /\ r.refetch = conn.refetch
      /\ r.mFetchingUrl = conn.mFetchingUrl /\ r.ctx = conn.ctx
      /\ r.mRetryCtrl = conn.mRetryCtrl /\ r.mHeartbeatEnabled = conn.mHeartbeatEnabled
      /\ r.mEchoTimer = conn.mEchoTimer
  BY <1>2 DEF Conns
<1>. HIDE DEF r
<1>7. Inv(r)
  BY <1>2, <1>5, <1>6 DEF Inv, Requests, Handover, Watched, Kept, Down
<1>8. QED
  BY <1>4, <1>7, Spent DEF IInv, UrlRefused

\* The answer to getUrlChat, whether the shard has moved or not, keeps the connection sound.
LEMMA RefetchedStep ==
    ASSUME IInv, NEW moved \in BOOLEAN, Refetched(moved)
    PROVE  IInv'
<1> DEFINE k == [conn EXCEPT !.refetch = FALSE, !.mFetchingUrl = FALSE]
           z == [k EXCEPT !.mConnSuceeded = 0, !.ip = NoIp]
<1>1. PICK addr \in Addresses :
         conn' = IF ~moved THEN k ELSE RetryPendingConnection(z, TRUE, FALSE, addr)
  BY DEF Refetched
<1>2. conn \in Conns /\ Inv(conn) /\ conn.refetch
  BY DEF IInv, Inv, Refetched
<1>3. k \in Conns
  <2>1. ASSUME NEW r \in BOOLEAN, NEW m \in BOOLEAN
        PROVE  [conn EXCEPT !.refetch = r, !.mFetchingUrl = m] \in Conns
    BY <1>2 DEF Conns
  <2>2. QED
    BY <2>1, ZenonT(30)
<1>4. /\ k.mState = conn.mState /\ k.fetch = conn.fetch /\ k.url = conn.url /\ k.refetch = FALSE
      /\ k.mFetchingUrl = FALSE /\ k.ctx = conn.ctx /\ k.mConnectTimer = conn.mConnectTimer
      /\ k.mRetryCtrl = conn.mRetryCtrl /\ k.mHeartbeatEnabled = conn.mHeartbeatEnabled
      /\ k.mEchoTimer = conn.mEchoTimer
  BY <1>2 DEF Conns
<1>. HIDE DEF k
<1>5. Inv(k)
  BY <1>2, <1>3, <1>4 DEF Inv, Requests, Handover, Watched, Kept
<1>6. z \in Conns
  <2>1. 0 \in 0..kMaxConnSuceeded /\ NoIp \in IPs \cup {NoIp}
    BY ConnectionAssumption
  <2>2. QED
    BY <1>3, <2>1 DEF Conns
<1>7. /\ z.mState = k.mState /\ z.fetch = k.fetch /\ z.url = k.url /\ z.refetch = k.refetch
      /\ z.mFetchingUrl = k.mFetchingUrl /\ z.ctx = k.ctx /\ z.mConnectTimer = k.mConnectTimer
      /\ z.mRetryCtrl = k.mRetryCtrl /\ z.mHeartbeatEnabled = k.mHeartbeatEnabled
      /\ z.mEchoTimer = k.mEchoTimer
  BY <1>3 DEF Conns
<1>. HIDE DEF z
<1>8. Inv(z)
  BY <1>5, <1>6, <1>7, SameInv
<1>9. Inv(RetryPendingConnection(z, TRUE, FALSE, addr))
  BY <1>8, RetrySound DEF IInv
<1>10. QED
  BY <1>1, <1>5, <1>9 DEF IInv, Refetched

\* A getUrlChat that fails leaves mFetchingUrl set and the connection sound.
LEMMA RefetchRefusedStep ==
    ASSUME IInv, RefetchRefused
    PROVE  IInv'
<1> DEFINE k == [conn EXCEPT !.refetch = FALSE]
<1>1. conn \in Conns /\ Inv(conn) /\ conn.refetch
  BY DEF IInv, Inv, RefetchRefused
<1>2. k \in Conns
  BY <1>1 DEF Conns
<1>3. /\ k.mState = conn.mState /\ k.fetch = conn.fetch /\ k.url = conn.url /\ k.refetch = FALSE
      /\ k.mFetchingUrl = conn.mFetchingUrl /\ k.ctx = conn.ctx
      /\ k.mConnectTimer = conn.mConnectTimer /\ k.mRetryCtrl = conn.mRetryCtrl
      /\ k.mHeartbeatEnabled = conn.mHeartbeatEnabled /\ k.mEchoTimer = conn.mEchoTimer
  BY <1>1 DEF Conns
<1>4. conn' = k
  BY DEF RefetchRefused
<1>. HIDE DEF k
<1>5. Inv(k)
  BY <1>1, <1>2, <1>3 DEF Inv, Requests, Handover, Watched, Kept
<1>6. QED
  BY <1>4, <1>5, Spent DEF IInv, RefetchRefused

\* DNS answers keep the connection sound, those of attempts long over too.
LEMMA DnsStep ==
    ASSUME IInv, Dns
    PROVE  IInv'
<1>1. PICK i \in DOMAIN conn.queries :
         (\E ip \in IPs : DnsResolved(i, ip)) \/ DnsNoName(i) \/ DnsError(i)
  BY DEF Dns
<1> DEFINE q == conn.queries[i]
           k == Answered(i)
<1>2. Inv(k) /\ q \in Queries /\ network \in Networks
  BY AnsweredSound DEF IInv
<1>3. ASSUME NEW ip \in IPs, DnsResolved(i, ip)
      PROVE  IInv'
  <2> DEFINE z == [k EXCEPT !.ip = ip]
  <2>1. PICK addr \in Addresses :
           conn' = IF ~IsCurrent(k, q) \/ (q.cachedIPs /\ ip = k.ip) THEN k
                   ELSE IF ~q.cachedIPs THEN DoConnect(z)
                   ELSE RetryPendingConnection(z, TRUE, FALSE, addr)
    BY <1>3 DEF DnsResolved
  <2>2. /\ UNCHANGED budget \/ Spend("faults")
        /\ UNCHANGED network
    BY <1>3 DEF DnsResolved
  <2>. HIDE DEF k, q
  <2>3. Inv(z) /\ z.mRetryCtrl = k.mRetryCtrl
    BY <1>2, AddressSound
  <2>. HIDE DEF z
  <2>4. ASSUME IsCurrent(k, q)
        PROVE  Inv(DoConnect(z)) /\ Inv(RetryPendingConnection(z, TRUE, FALSE, addr))
    <3>1. Working(z)
      BY <1>2, <2>3, <2>4, CurrentWorks DEF IsCurrent
    <3>2. QED
      BY <1>2, <2>3, <3>1, DoConnectSound, RetrySound
  <2>5. Inv(conn')
    BY <1>2, <2>1, <2>4
  <2>6. QED
    BY <2>2, <2>5, Spent DEF IInv
<1>4. CASE DnsNoName(i)
  <2>1. conn' = IF IsCurrent(k, q) /\ k.mState # "New" THEN Refresh(k) ELSE k
    BY <1>4 DEF DnsNoName
  <2>. HIDE DEF k, q
  <2>2. Inv(conn')
    BY <1>2, <2>1, RefreshSound
  <2>3. QED
    BY <1>4, <2>2, Spent DEF IInv, DnsNoName
<1>5. CASE DnsError(i)
  <2>1. conn' = IF IsCurrent(k, q) /\ k.mState = "Resolving" THEN CloseAttempt(k) ELSE k
    BY <1>5 DEF DnsError
  <2>. HIDE DEF k, q
  <2>2. Inv(conn')
    BY <1>2, <2>1, CurrentWorks, CloseAttemptSound
  <2>3. QED
    BY <1>5, <2>2, Spent DEF IInv, DnsError
<1>6. QED
  BY <1>1, <1>3, <1>4, <1>5

\* A socket that opens belongs to the attempt in progress, and either completes it or fetches
\* a fresh URL.
LEMMA WsConnectStep ==
    ASSUME IInv, WsConnectCb
    PROVE  IInv'
<1> DEFINE k == [conn EXCEPT !.ctx = "open"]
           z(n) == [k EXCEPT !.mConnSuceeded = n]
<1>1. /\ Inv(conn) /\ conn \in Conns /\ conn.ctx = "connecting" /\ conn.mState = "Connecting"
      /\ network \in Networks
  BY DEF IInv, Inv, Handover, WsConnectCb
<1>2. Working(conn)
  BY <1>1, SoundWorks DEF Down
<1>3. k \in Conns
  BY <1>1 DEF Conns
<1>4. /\ k.mState = conn.mState /\ k.fetch = conn.fetch /\ k.url = conn.url
      /\ k.refetch = conn.refetch /\ k.mFetchingUrl = conn.mFetchingUrl /\ k.ctx = "open"
      /\ k.mConnectTimer = conn.mConnectTimer /\ k.mRetryCtrl = conn.mRetryCtrl
      /\ k.mHeartbeatEnabled = conn.mHeartbeatEnabled /\ k.mEchoTimer = conn.mEchoTimer
      /\ k.mConnSuceeded = conn.mConnSuceeded
  BY <1>1 DEF Conns
<1>5. \E n \in 0..kMaxConnSuceeded : conn' = SetConnected(z(n)) \/ conn' = Refresh(z(n))
  <2>1. 0 \in 0..kMaxConnSuceeded
    BY ConnectionAssumption
  <2>2. Allowed(conn) => conn.mConnSuceeded + 1 \in 0..kMaxConnSuceeded
    BY <1>1, ConnectionAssumption DEF Allowed, Conns
  <2>3. \/ conn' = SetConnected(z(0))
        \/ Allowed(conn) /\ conn' = SetConnected([k EXCEPT !.mConnSuceeded = @ + 1])
        \/ conn' = Refresh(z(0))
    BY <1>1 DEF WsConnectCb
  <2>4. CASE Allowed(conn) /\ conn' = SetConnected([k EXCEPT !.mConnSuceeded = @ + 1])
    <3>1. [k EXCEPT !.mConnSuceeded = @ + 1] = z(conn.mConnSuceeded + 1)
      BY <1>4
    <3>2. QED
      BY <2>2, <2>4, <3>1, ZenonT(30)
  <2>5. QED
    BY <2>1, <2>3, <2>4, ZenonT(30)
<1>. HIDE DEF k
<1>6. Working(k)
  BY <1>1, <1>2, <1>3, <1>4 DEF Working
<1>7. Inv(k)
  BY <1>1, <1>4, <1>6, WorkingSound
<1>8. ASSUME NEW n \in 0..kMaxConnSuceeded
      PROVE  Inv(SetConnected(z(n))) /\ Inv(Refresh(z(n)))
  <2>1. Inv(z(n)) /\ z(n).mState = k.mState /\ z(n).ctx = k.ctx
    BY <1>7, CountSound
  <2>. HIDE DEF z
  <2>2. Working(z(n))
    BY <1>1, <1>4, <2>1, SoundWorks DEF Down
  <2>3. QED
    BY <1>4, <2>1, <2>2, SetConnectedSound, RefreshSound
<1>9. Inv(conn')
  BY <1>5, <1>8
<1>10. QED
  BY <1>9 DEF IInv, WsConnectCb

\* A socket that closes, with or without a fresh URL to ask for, keeps the connection sound.
LEMMA WsCloseStep ==
    ASSUME IInv, WsCloseCb
    PROVE  IInv'
<1> DEFINE k == [conn EXCEPT !.ctx = "none"]
           m == [k EXCEPT !.mFetchingUrl = TRUE, !.refetch = TRUE]
<1>1. PICK addr \in Addresses :
         conn' = IF IsFetching(k) THEN OnSocketClose(k, addr) ELSE OnSocketClose(m, addr)
  BY DEF WsCloseCb
<1>2. /\ conn \in Conns /\ conn.mState \in {"Connecting", "Connected"} /\ conn.url
      /\ conn.fetch = "none" /\ (conn.refetch => conn.mFetchingUrl) /\ network \in Networks
  BY DEF IInv, Inv, Handover, Requests, Watched, Kept, Down, WsCloseCb
<1>3. conn.mState = "Connecting" => Working(conn)
  BY <1>2, SoundWorks DEF IInv, Down
<1>4. k \in Conns
  BY <1>2 DEF Conns
<1>5. /\ k.mState = conn.mState /\ k.fetch = conn.fetch /\ k.url = conn.url
      /\ k.refetch = conn.refetch /\ k.mFetchingUrl = conn.mFetchingUrl
      /\ k.mConnectTimer = conn.mConnectTimer /\ k.mRetryCtrl = conn.mRetryCtrl
      /\ k.mHeartbeatEnabled = conn.mHeartbeatEnabled /\ k.mEchoTimer = conn.mEchoTimer
  BY <1>2 DEF Conns
<1>. HIDE DEF k
<1>6. conn.mState = "Connecting" => Working(k)
  BY <1>3, <1>4, <1>5 DEF Working
<1>7. m \in Conns
  <2>1. ASSUME NEW f \in BOOLEAN, NEW r \in BOOLEAN
        PROVE  [k EXCEPT !.mFetchingUrl = f, !.refetch = r] \in Conns
    BY <1>4 DEF Conns
  <2>2. QED
    BY <2>1, ZenonT(30)
<1>8. /\ m.mState = k.mState /\ m.fetch = k.fetch /\ m.url = k.url
      /\ m.refetch = TRUE /\ m.mFetchingUrl = TRUE
      /\ m.mConnectTimer = k.mConnectTimer /\ m.mRetryCtrl = k.mRetryCtrl
      /\ m.mHeartbeatEnabled = k.mHeartbeatEnabled /\ m.mEchoTimer = k.mEchoTimer
  BY <1>4 DEF Conns
<1>. HIDE DEF m
<1>9. conn.mState = "Connecting" => Working(m)
  BY <1>6, <1>7, <1>8 DEF Working
<1>10. Inv(OnSocketClose(k, addr))
  BY <1>2, <1>4, <1>5, <1>6, OnSocketCloseSound
<1>11. Inv(OnSocketClose(m, addr))
  BY <1>2, <1>5, <1>7, <1>8, <1>9, OnSocketCloseSound
<1>12. QED
  BY <1>1, <1>10, <1>11, Spent DEF IInv, WsCloseCb

\* The network fails or comes back: requests made from now on fare differently.
LEMMA NetworkStep ==
    ASSUME IInv, NetworkBack \/ \E how \in {"half", "down", "no dns"} : NetworkFails(how)
    PROVE  IInv'
<1>1. CASE NetworkBack
  BY <1>1 DEF IInv, NetworkBack, Networks
<1>2. ASSUME NEW how \in {"half", "down", "no dns"}, NetworkFails(how)
      PROVE  IInv'
  BY <1>2, Spent DEF IInv, NetworkFails, Networks
<1>3. QED
  BY <1>1, <1>2

\* The timeout of an attempt keeps its controller.
LEMMA AttemptTimeoutStep ==
    ASSUME IInv, AttemptTimeout
    PROVE  IInv'
<1> DEFINE c == [conn.mRetryCtrl EXCEPT !.state = "RetryWait",
                                        !.attemptNo = conn.mRetryCtrl.attemptNo + 1]
           k == [conn EXCEPT !.mRetryCtrl = c]
<1>1. conn \in Conns /\ Inv(conn) /\ conn.mRetryCtrl.state = "InProgress"
  BY DEF IInv, Inv, AttemptTimeout
<1>2. conn.mRetryCtrl \in Ctrls /\ conn.mRetryCtrl # NoCtrl
  BY <1>1 DEF Conns, NoCtrl
<1>3. c \in Ctrls /\ c.addr = conn.mRetryCtrl.addr /\ c.state = "RetryWait"
  <2>1. ASSUME NEW s \in {"NotStarted", "InProgress", "RetryWait"}, NEW n \in Nat
        PROVE  LET d == [conn.mRetryCtrl EXCEPT !.state = s, !.attemptNo = n]
               IN  d \in Ctrls /\ d.addr = conn.mRetryCtrl.addr /\ d.state = s
    BY <1>2 DEF Ctrls
  <2>2. "RetryWait" \in {"NotStarted", "InProgress", "RetryWait"}
        /\ conn.mRetryCtrl.attemptNo + 1 \in Nat
    BY <1>2 DEF Ctrls
  <2>3. QED
    BY <2>1, <2>2, ZenonT(30)
<1>4. conn' = k
  BY <1>1, <1>2 DEF AttemptTimeout, Conns, Ctrls
<1>5. c # NoCtrl
  BY <1>3 DEF NoCtrl
<1>. HIDE DEF c
<1>6. k \in Conns
  BY <1>1, <1>3 DEF Conns
<1>7. /\ k.mState = conn.mState /\ k.fetch = conn.fetch /\ k.url = conn.url
      /\ k.refetch = conn.refetch /\ k.mFetchingUrl = conn.mFetchingUrl /\ k.ctx = conn.ctx
      /\ k.mConnectTimer = conn.mConnectTimer /\ k.mRetryCtrl = c
      /\ k.mHeartbeatEnabled = conn.mHeartbeatEnabled /\ k.mEchoTimer = conn.mEchoTimer
  BY <1>1 DEF Conns
<1>. HIDE DEF k
<1>8. Inv(k)
  BY <1>1, <1>2, <1>3, <1>5, <1>6, <1>7 DEF Inv, Requests, Handover, Watched, Kept
<1>9. network' \in Networks /\ budget' \in [{"faults", "slow", "calls"} -> Nat]
  BY Spent DEF IInv, AttemptTimeout, Expire
<1>10. QED
  BY <1>4, <1>8, <1>9 DEF IInv

\* The next attempt of a controller that waits.
LEMMA RetryTimeoutStep ==
    ASSUME IInv, RetryTimeout
    PROVE  IInv'
<1>1. Inv(conn) /\ conn \in Conns /\ conn.mRetryCtrl # NoCtrl /\ network \in Networks
  BY DEF IInv, Inv, RetryTimeout, NoCtrl
<1>2. Working(conn)
  BY <1>1, SoundWorks DEF Inv, Handover
<1>3. Quiet(conn)
  BY <1>1 DEF Inv, Handover, Quiet
<1>4. Inv(NextTry(conn))
  BY <1>1, <1>2, <1>3, NextTrySound DEF Working
<1>5. QED
  BY <1>4 DEF IInv, RetryTimeout

\* The connect timer restarts a connection that is down and does no harm to another.
LEMMA ConnectTimeoutStep ==
    ASSUME IInv, ConnectTimeout
    PROVE  IInv'
<1> DEFINE k == [conn EXCEPT !.mConnectTimer = FALSE]
<1>1. PICK addr \in Addresses : conn' = RetryPendingConnection(k, TRUE, FALSE, addr)
  BY DEF ConnectTimeout
<1>2. conn \in Conns /\ Inv(conn) /\ network \in Networks
  BY DEF IInv, Inv
<1>3. k \in Conns
  BY <1>2 DEF Conns
<1>4. /\ k.mState = conn.mState /\ k.fetch = conn.fetch /\ k.url = conn.url
      /\ k.refetch = conn.refetch /\ k.mFetchingUrl = conn.mFetchingUrl /\ k.ctx = conn.ctx
      /\ k.mConnectTimer = FALSE /\ k.mRetryCtrl = conn.mRetryCtrl
      /\ k.mHeartbeatEnabled = conn.mHeartbeatEnabled /\ k.mEchoTimer = conn.mEchoTimer
  BY <1>2 DEF Conns
<1>. HIDE DEF k
<1>5. ASSUME conn.mState \in Down
      PROVE  Inv(conn')
  <2>1. Working(conn)
    BY <1>2, <1>5, SoundWorks
  <2>2. Inv(Restarted(k, addr))
    BY <1>2, <1>3, <1>4, <2>1, RestartedSound DEF Working
  <2>3. RetryPendingConnection(k, TRUE, FALSE, addr) = Restarted(k, addr)
    BY <1>4, <1>5, <2>1 DEF RetryPendingConnection, Working, Down
  <2>4. QED
    BY <1>1, <2>2, <2>3
<1>6. ASSUME conn.mState \notin Down
      PROVE  Inv(conn')
  <2>1. Inv(k)
    BY <1>2, <1>3, <1>4, <1>6 DEF Inv, Requests, Handover, Watched, Kept
  <2>2. QED
    BY <1>1, <1>2, <2>1, RetrySound
<1>7. Inv(conn')
  BY <1>5, <1>6
<1>8. network' \in Networks /\ budget' \in [{"faults", "slow", "calls"} -> Nat]
  BY Spent DEF IInv, ConnectTimeout, Expire
<1>9. QED
  BY <1>7, <1>8 DEF IInv

\* The heartbeat only tears down a connection that can be made again.
LEMMA HeartbeatStep ==
    ASSUME IInv, Heartbeat
    PROVE  IInv'
<1>1. PICK addr \in Addresses : conn' = Restarted(conn, addr)
  BY DEF Heartbeat
<1>2. /\ conn \in Conns /\ conn.url /\ conn.fetch = "none"
      /\ (conn.refetch => conn.mFetchingUrl) /\ network \in Networks
  BY DEF IInv, Inv, Handover, Requests, Kept, Heartbeat
<1>3. Inv(conn')
  BY <1>1, <1>2, RestartedSound
<1>4. QED
  BY <1>3, Spent DEF IInv, Heartbeat

\* An echo is sent, answered or missed on a connection that is up.
LEMMA EchoStep ==
    ASSUME IInv, SendEcho \/ RecvEcho \/ EchoTimeout
    PROVE  IInv'
<1> DEFINE k(e) == [conn EXCEPT !.mEchoTimer = e]
<1>1. /\ Inv(conn) /\ conn \in Conns /\ conn.mState = "Connected" /\ conn.url
      /\ conn.fetch = "none" /\ (conn.refetch => conn.mFetchingUrl) /\ network \in Networks
  BY DEF IInv, Inv, Handover, Requests, Kept, SendEcho, RecvEcho, EchoTimeout
<1>2. ASSUME NEW e \in BOOLEAN
      PROVE  /\ k(e) \in Conns /\ Inv(k(e)) /\ k(e).url /\ k(e).fetch = "none"
             /\ (k(e).refetch => k(e).mFetchingUrl)
  <2>1. k(e) \in Conns
    BY <1>1 DEF Conns
  <2>2. /\ k(e).mState = conn.mState /\ k(e).fetch = conn.fetch /\ k(e).url = conn.url
        /\ k(e).refetch = conn.refetch /\ k(e).mFetchingUrl = conn.mFetchingUrl
        /\ k(e).ctx = conn.ctx /\ k(e).mConnectTimer = conn.mConnectTimer
        /\ k(e).mRetryCtrl = conn.mRetryCtrl
        /\ k(e).mHeartbeatEnabled = conn.mHeartbeatEnabled
    BY <1>1 DEF Conns
  <2>. HIDE DEF k
  <2>3. QED
    BY <1>1, <2>1, <2>2 DEF Inv, Requests, Handover, Watched, Kept
<1>3. CASE SendEcho
  BY <1>2, <1>3, Spent DEF IInv, SendEcho
<1>4. CASE RecvEcho
  BY <1>2, <1>4 DEF IInv, RecvEcho
<1>5. CASE EchoTimeout
  <2>1. PICK addr \in Addresses : conn' = Restarted(k(FALSE), addr)
    BY <1>5 DEF EchoTimeout
  <2>2. k(FALSE) \in Conns /\ k(FALSE).url /\ k(FALSE).fetch = "none"
        /\ (k(FALSE).refetch => k(FALSE).mFetchingUrl)
    BY <1>2
  <2>. HIDE DEF k
  <2>3. Inv(Restarted(k(FALSE), addr))
    BY <1>1, <2>2, RestartedSound
  <2>4. QED
    BY <1>5, <2>1, <2>3, Spent DEF IInv, EchoTimeout
<1>6. QED
  BY <1>3, <1>4, <1>5

\* The application may retry at any moment, whichever way.
LEMMA AppRetryStep ==
    ASSUME IInv, NEW disconnect \in BOOLEAN, NEW refreshURL \in BOOLEAN,
           AppRetry(disconnect, refreshURL)
    PROVE  IInv'
<1>1. PICK addr \in Addresses :
         conn' = RetryPendingConnection(conn, disconnect, refreshURL, addr)
  BY DEF AppRetry
<1>2. Inv(conn')
  BY <1>1, RetrySound DEF IInv
<1>3. QED
  BY <1>2, Spent DEF IInv, AppRetry

-----------------------------------------------------------------------------

\* A Connection starts sound.
LEMMA InitSound == Init => IInv
<1> SUFFICES ASSUME Init PROVE IInv
  OBVIOUS
<1>1. PICK url \in BOOLEAN, ip \in IPs \cup {NoIp} : conn = New(url, ip)
  BY DEF Init
<1>2. New(url, ip) \in Conns
  BY ConnectionAssumption DEF New, Conns, States, Ctrls, NoCtrl
<1>3. Inv(New(url, ip))
  BY <1>2 DEF New, Inv, Requests, Handover, Watched, Kept, Down
<1>4. budget \in [{"faults", "slow", "calls"} -> Nat]
  BY ConnectionAssumption DEF Init
<1>5. QED
  BY <1>1, <1>3, <1>4 DEF Init, IInv, Networks

\* Whatever handler runs next leaves a sound connection.
LEMMA NextSound == IInv /\ [Next]_vars => IInv'
<1> SUFFICES ASSUME IInv, [Next]_vars PROVE IInv'
  OBVIOUS
<1>1. CASE Connect
  BY <1>1, ConnectStep
<1>2. CASE Answers
  <2>1. CASE UrlFetched
    BY <2>1, UrlFetchedStep
  <2>2. CASE Dns
    BY <2>2, DnsStep
  <2>3. CASE WsConnectCb
    BY <2>3, WsConnectStep
  <2>4. CASE RecvEcho
    BY <2>4, EchoStep
  <2>5. CASE \E moved \in BOOLEAN : Refetched(moved)
    BY <2>5, RefetchedStep
  <2>6. QED
    BY <1>2, <2>1, <2>2, <2>3, <2>4, <2>5 DEF Answers
<1>3. CASE Timers
  BY <1>3, AttemptTimeoutStep, RetryTimeoutStep, ConnectTimeoutStep DEF Timers
<1>4. CASE NetworkBack \/ \E how \in {"half", "down", "no dns"} : NetworkFails(how)
  BY <1>4, NetworkStep
<1>5. CASE UrlRefused
  BY <1>5, UrlRefusedStep
<1>6. CASE RefetchRefused
  BY <1>6, RefetchRefusedStep
<1>7. CASE WsCloseCb
  BY <1>7, WsCloseStep
<1>8. CASE Heartbeat
  BY <1>8, HeartbeatStep
<1>9. CASE SendEcho \/ EchoTimeout
  BY <1>9, EchoStep
<1>10. CASE \E refreshURL, disconnect \in BOOLEAN : AppRetry(disconnect, refreshURL)
  BY <1>10, AppRetryStep
<1>11. CASE UNCHANGED vars
  BY <1>11 DEF IInv, Inv, Requests, Handover, Watched, Kept, vars
<1>12. QED
  BY <1>1, <1>2, <1>3, <1>4, <1>5, <1>6, <1>7, <1>8, <1>9, <1>10, <1>11 DEF Next

\* The inductive invariant, for every number of controllers, addresses and faults.
THEOREM Soundness == Spec => []IInv
<1>1. QED
  BY InitSound, NextSound, PTL DEF Spec

\* The state of the connection has its type.
THEOREM TypeCorrect == Spec => []TypeOK
<1>1. IInv => TypeOK
  BY DEF IInv, Inv, TypeOK, Networks
<1>2. QED
  BY <1>1, Soundness, PTL

\* A connection that is down is never left without a timer, a controller and an URL, in
\* whatever order the callbacks of the socket, DNS, the API and the timers run.
THEOREM AlwaysSupervised == Spec => []Supervised
<1>1. IInv => Supervised
  BY DEF IInv, Inv, Watched, Supervised
<1>2. QED
  BY <1>1, Soundness, PTL

\* Nothing of an attempt outlives it, and a connection that is down has no socket but the one
\* being opened.
THEOREM AlwaysCleanHandover == Spec => []CleanHandover
<1>1. IInv => CleanHandover
  BY DEF IInv, Inv, Handover, CleanHandover
<1>2. QED
  BY <1>1, Soundness, PTL

\* The two requests of an URL are never in flight together, and each finds the DNS record in
\* the state it expects.
THEOREM AlwaysOneUrlRequest == Spec => []OneUrlRequest
<1>1. IInv => OneUrlRequest
  BY DEF IInv, Inv, Requests, OneUrlRequest
<1>2. QED
  BY <1>1, Soundness, PTL

=============================================================================
