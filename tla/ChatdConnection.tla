-------------------------- MODULE ChatdConnection --------------------------
(***************************************************************************)
(* The connection to one chatd shard (class chatd::Connection,             *)
(* src/src/chatd.cpp 523-1310) with the retry controller that drives it    *)
(* (src/src/base/retryHandler.h), its record of the DNS cache and its      *)
(* websocket (src/src/net/).                                               *)
(*                                                                         *)
(* Everything runs on the main thread, one callback at a time.  What can   *)
(* go wrong is the order of the callbacks: the answers of DNS requests of  *)
(* earlier attempts, the two timers that retry, the two requests of a      *)
(* fresh URL, the socket and the application's own retries.                *)
(*                                                                         *)
(* The members of Connection are the fields of the record conn, so that a  *)
(* method that calls another is a function of the record.  A handler that  *)
(* creates a RetryController takes the address it is allocated at: a DNS   *)
(* answer is matched with the controller by address, and the address of a  *)
(* deleted controller may be given to the next one.                        *)
(***************************************************************************)
EXTENDS Naturals, Sequences, SequencesExt

CONSTANTS
    kMaxConnSuceeded,  \* connections allowed before the URL is fetched again
    Addresses,         \* where a RetryController can be allocated
    IPs,               \* what a DNS server can answer
    MaxFaults,         \* bound: failures of the network, of the server and of the API
    MaxSlow,           \* bound: timers that expire before the answer they wait for
    MaxCalls,          \* bound: retries and echoes the application asks for
    MaxQueries         \* bound: DNS requests in flight when an attempt starts

Null == "null"

ASSUME AddressAssumption == Null \notin Addresses
ASSUME ConnectionAssumption ==
    {kMaxConnSuceeded, MaxFaults, MaxSlow, MaxCalls, MaxQueries} \subseteq Nat

VARIABLES
    conn,     \* the Connection, its requests in flight, its socket and its DNS record
    network,  \* what becomes of a request made now: it is answered (good), wsConnect fails
              \* (half: for the only address, down: for both), no DNS request can be made (no dns)
    budget    \* what is left of the bounds

vars == <<conn, network, budget>>

NoIp   == "no ip"
NoCtrl == [addr |-> Null, state |-> "NotStarted", attemptNo |-> 0]

New(url, ip) ==
    [mState            |-> "New",
     mHeartbeatEnabled |-> FALSE,
     mEchoTimer        |-> FALSE,
     mConnectTimer     |-> FALSE,
     mConnSuceeded     |-> 0,
     mFetchingUrl      |-> FALSE,
     mConnectPromise   |-> "pending",
     mRetryCtrl        |-> NoCtrl,
     ctx               |-> "none",    \* the socket: none, connecting or open
     url               |-> url,       \* there is a record with a valid URL
     ip                |-> ip,        \* and this address
     fetch             |-> "none",    \* fetchUrl in flight, and who called it
     refetch           |-> FALSE,     \* getUrlChat of wsCloseCb in flight
     queries           |-> <<>>]      \* DNS requests in flight

-----------------------------------------------------------------------------
(* The methods of Connection *)

\* mutant: the connect timer is not restarted
SetDisconnectedQuiet(k) ==
    IF k.mState = "Disconnected" THEN k
    ELSE [k EXCEPT !.mState = "Disconnected", !.mHeartbeatEnabled = FALSE, !.ctx = "none",
                   !.mEchoTimer = FALSE, !.mConnectTimer = FALSE]

\* mutant: a socket that is not open yet is left alone
SetDisconnectedLeaky(k) ==
    IF k.mState = "Disconnected" THEN k
    ELSE [k EXCEPT !.mState = "Disconnected", !.mHeartbeatEnabled = FALSE,
                   !.ctx = IF @ = "open" THEN "none" ELSE @,
                   !.mEchoTimer = FALSE, !.mConnectTimer = TRUE]

\* setState(kStateDisconnected)
SetDisconnected(k) ==
    IF k.mState = "Disconnected" THEN k
    ELSE [k EXCEPT !.mState = "Disconnected", !.mHeartbeatEnabled = FALSE, !.ctx = "none",
                   !.mEchoTimer = FALSE, !.mConnectTimer = TRUE]

\* setState(kStateConnected): the promise of the attempt is resolved, which enables the
\* heartbeat.  If it is done already resolve() throws into libwebsockets: the process is
\* taken to start again with the DNS record it has in its database.
SetConnected(k) ==
    IF k.mConnectPromise # "pending" THEN New(k.url, k.ip)
    ELSE [k EXCEPT !.mState = "Connected", !.mConnectPromise = "resolved",
                   !.mRetryCtrl = NoCtrl, !.mConnectTimer = FALSE, !.mHeartbeatEnabled = TRUE]

AbortRetryController(k) == [k EXCEPT !.mRetryCtrl = NoCtrl]

\* onSocketClose while Resolving or Connecting: the attempt fails
CloseAttempt(k) ==
    [SetDisconnected(k) EXCEPT !.mConnectPromise = IF @ = "pending" THEN "rejected" ELSE @]

\* doConnect: a socket of before is deleted.  If wsConnect fails for the only address there
\* is the state stays Connecting, until DNS answers or the attempt times out.
DoConnect(k) ==
    CASE network \in {"good", "no dns"} -> [k EXCEPT !.mState = "Connecting", !.ctx = "connecting"]
      [] network = "half" -> [k EXCEPT !.mState = "Connecting", !.ctx = "none"]
      [] network = "down" -> CloseAttempt([k EXCEPT !.mState = "Connecting", !.ctx = "none"])

\* The function the controller retries.  wsResolveDNS returns a bool, so that its caller never
\* takes a request that failed at once for an error: it goes on to connect to the addresses it
\* has and, without any, stays Resolving until the attempt times out.
Attempt(k) ==
    LET ready == [SetDisconnected(k) EXCEPT !.mState = "Resolving", !.mConnectPromise = "pending"]
        asked == [ready EXCEPT !.queries = Append(@, [addr      |-> k.mRetryCtrl.addr,
                                                      attemptNo |-> k.mRetryCtrl.attemptNo,
                                                      cachedIPs |-> k.ip # NoIp])]
        sent  == IF network = "no dns" THEN ready ELSE asked
    IN  IF k.ip # NoIp THEN DoConnect(sent) ELSE sent

\* RetryController::nextTry
NextTry(k) == Attempt([k EXCEPT !.mRetryCtrl.state = "InProgress"])

\* RetryController::start and restart, without delay
Start(k) == NextTry([k EXCEPT !.mRetryCtrl.attemptNo = 1])

Reconnect(k, addr) ==
    IF k.mState \in {"Resolving", "Connecting", "Connected"} \/ ~k.url THEN k
    ELSE Start([k EXCEPT !.mState = "Resolving", !.mRetryCtrl.addr = addr])

\* from any state, what heartbeat, the echo timer and a forced retry do
Restarted(k, addr) == Reconnect(AbortRetryController(SetDisconnected(k)), addr)

\* fetchUrl without a valid URL; "caller" says what runs when it is answered
FetchUrl(k, caller) == [k EXCEPT !.mState = "FetchingUrl", !.fetch = caller]

\* mutant: a fetch started by a socket that closed is not seen
IsFetchingState(k) == k.mState = "FetchingUrl"

\* a fresh URL has been asked for
IsFetching(k) == k.mState = "FetchingUrl" \/ k.mFetchingUrl

\* retryPendingConnection, when the URL is to be fetched again
Refresh(k) ==
    IF IsFetching(k) THEN k
    ELSE FetchUrl([AbortRetryController(SetDisconnected(k)) EXCEPT !.url = FALSE, !.ip = NoIp],
                  "retry")

\* mutant: an URL that has just arrived counts as still being fetched
RetryUnlessFetching(k, disconnect, refreshURL, addr) ==
    IF k.mState = "New" \/ IsFetching(k) THEN k
    ELSE IF refreshURL \/ ~k.url THEN Refresh(k)
    ELSE IF disconnect THEN Restarted(k, addr)
    ELSE IF k.mRetryCtrl.state = "RetryWait" THEN Start(k)
    ELSE k

RetryPendingConnection(k, disconnect, refreshURL, addr) ==
    IF k.mState = "New" THEN k
    ELSE IF refreshURL \/ ~k.url THEN Refresh(k)
    ELSE IF disconnect THEN Restarted(k, addr)
    ELSE IF k.mRetryCtrl.state = "RetryWait" THEN Start(k)
    ELSE k

OnSocketClose(k, addr) ==
    CASE k.mState = "Disconnected" -> IF k.mRetryCtrl = NoCtrl THEN Reconnect(k, addr) ELSE k
      [] k.mState = "FetchingUrl"  -> k
      [] k.mState = "Connected"    -> Reconnect(SetDisconnected(k), addr)
      [] OTHER                     -> CloseAttempt(k)

-----------------------------------------------------------------------------
(* Chat::connect, the API and the DNS *)

Spend(what) == budget[what] > 0 /\ budget' = [budget EXCEPT ![what] = @ - 1]

\* room for the DNS request of one more attempt
Room == Len(conn.queries) < MaxQueries

Connect ==
    /\ conn.mState = "New"
    /\ \E addr \in Addresses :
          conn' = IF conn.url THEN Reconnect(conn, addr) ELSE FetchUrl(conn, "connect")
    /\ UNCHANGED <<network, budget>>

\* a new record has no address; connect() goes on with reconnect(), a retry with another retry
UrlFetched ==
    LET k == [conn EXCEPT !.fetch = "none", !.url = TRUE, !.ip = NoIp]
    IN  /\ conn.fetch # "none" /\ Room
        /\ \E addr \in Addresses :
              conn' = IF conn.fetch = "connect" THEN Reconnect(k, addr)
                      ELSE RetryPendingConnection([k EXCEPT !.mConnSuceeded = 0], TRUE, FALSE, addr)
        /\ UNCHANGED <<network, budget>>

\* no URL: the API refuses, or answers without a link, and either way no record is added
UrlRefused ==
    /\ conn.fetch # "none" /\ Spend("faults")
    /\ \E succeeded \in {0, conn.mConnSuceeded} :
          conn' = [conn EXCEPT !.fetch = "none",
                               !.mConnSuceeded = IF conn.fetch = "retry" THEN succeeded ELSE @]
    /\ UNCHANGED network

\* the answer to the request wsCloseCb made: the shard has moved or it has not
Refetched(moved) ==
    LET k == [conn EXCEPT !.refetch = FALSE, !.mFetchingUrl = FALSE]
    IN  /\ conn.refetch /\ Room
        /\ \E addr \in Addresses :
              conn' = IF ~moved THEN k
                      ELSE RetryPendingConnection([k EXCEPT !.mConnSuceeded = 0, !.ip = NoIp],
                                                  TRUE, FALSE, addr)
        /\ UNCHANGED <<network, budget>>

\* there is no fail() handler
RefetchRefused ==
    /\ conn.refetch /\ Spend("faults")
    /\ conn' = [conn EXCEPT !.refetch = FALSE]
    /\ UNCHANGED network

\* the answer is for the attempt in progress, as far as the callback can tell
IsCurrent(k, q) == k.mRetryCtrl.addr = q.addr /\ k.mRetryCtrl.attemptNo = q.attemptNo

Answered(i) == [conn EXCEPT !.queries = RemoveAt(@, i)]

\* another address than the one in the cache costs a fault: the server has moved
DnsResolved(i, ip) ==
    LET q == conn.queries[i]
        k == Answered(i)
    IN  /\ IF conn.ip \in {NoIp, ip} THEN UNCHANGED budget ELSE Spend("faults")
        /\ \E addr \in Addresses :
              conn' = IF ~IsCurrent(k, q) \/ (q.cachedIPs /\ ip = k.ip) THEN k
                      ELSE IF ~q.cachedIPs THEN DoConnect([k EXCEPT !.ip = ip])
                      ELSE RetryPendingConnection([k EXCEPT !.ip = ip], TRUE, FALSE, addr)
        /\ UNCHANGED network

DnsNoName(i) ==
    LET k == Answered(i)
    IN  /\ Spend("faults")
        /\ conn' = IF IsCurrent(k, conn.queries[i]) /\ k.mState # "New" THEN Refresh(k) ELSE k
        /\ UNCHANGED network

DnsError(i) ==
    LET k == Answered(i)
    IN  /\ Spend("faults")
        /\ conn' = IF IsCurrent(k, conn.queries[i]) /\ k.mState = "Resolving" THEN CloseAttempt(k)
                   ELSE k
        /\ UNCHANGED network

Dns == \E i \in DOMAIN conn.queries :
          \/ \E ip \in IPs : DnsResolved(i, ip)
          \/ DnsNoName(i)
          \/ DnsError(i)

-----------------------------------------------------------------------------
(* The socket *)

\* mutant: one connection too many
AllowedOneMore(k) == k.mConnSuceeded <= kMaxConnSuceeded

\* ++mConnSuceeded does not pass the limit
Allowed(k) == k.mConnSuceeded < kMaxConnSuceeded

\* more connections than allowed in the time frame fetch a fresh URL; past the time frame
\* the count starts again
WsConnectCb ==
    LET k == [conn EXCEPT !.ctx = "open"]
    IN  /\ conn.ctx = "connecting"
        /\ \/ conn.mState # "Connecting" /\ conn' = k
           \/ conn.mState = "Connecting" /\ conn' = SetConnected([k EXCEPT !.mConnSuceeded = 0])
           \/ /\ conn.mState = "Connecting" /\ Allowed(conn)
              /\ conn' = SetConnected([k EXCEPT !.mConnSuceeded = @ + 1])
           \/ /\ conn.mState = "Connecting" /\ ~Allowed(conn)
              /\ conn' = Refresh([k EXCEPT !.mConnSuceeded = 0])
        /\ UNCHANGED <<network, budget>>

WsCloseCb ==
    LET k == [conn EXCEPT !.ctx = "none"]
    IN  /\ conn.ctx # "none" /\ Room /\ Spend("faults")
        /\ \E addr \in Addresses :
              conn' = IF IsFetching(k) THEN OnSocketClose(k, addr)
                      ELSE OnSocketClose([k EXCEPT !.mFetchingUrl = TRUE, !.refetch = TRUE], addr)
        /\ UNCHANGED network

NetworkFails(how) ==
    /\ network = "good" /\ network' = how /\ Spend("faults")
    /\ UNCHANGED conn

NetworkBack ==
    /\ network # "good" /\ network' = "good"
    /\ UNCHANGED <<conn, budget>>

-----------------------------------------------------------------------------
(* The timers *)

\* something is on its way that a timer may yet have to wait for
Awaited ==
    \/ network # "good"
    \/ conn.ctx = "connecting"
    \/ \E i \in DOMAIN conn.queries : IsCurrent(conn, conn.queries[i])

Expire == IF Awaited THEN Spend("slow") ELSE UNCHANGED budget

\* the timeout of the attempt, that of a failed one too: schedNextRetry
AttemptTimeout ==
    /\ conn.mRetryCtrl.state = "InProgress" /\ Expire
    /\ conn' = [conn EXCEPT !.mRetryCtrl.state = "RetryWait", !.mRetryCtrl.attemptNo = @ + 1]
    /\ UNCHANGED network

RetryTimeout ==
    /\ conn.mRetryCtrl.state = "RetryWait" /\ Room
    /\ conn' = NextTry(conn)
    /\ UNCHANGED <<network, budget>>

ConnectTimeout ==
    /\ conn.mConnectTimer /\ Room /\ Expire
    /\ \E addr \in Addresses :
          conn' = RetryPendingConnection([conn EXCEPT !.mConnectTimer = FALSE], TRUE, FALSE, addr)
    /\ UNCHANGED network

\* nothing received for kIdleTimeout
Heartbeat ==
    /\ conn.mHeartbeatEnabled /\ Room /\ Spend("slow")
    /\ \E addr \in Addresses : conn' = Restarted(conn, addr)
    /\ UNCHANGED network

SendEcho ==
    /\ conn.url /\ ~conn.mEchoTimer /\ conn.mState = "Connected" /\ Spend("calls")
    /\ conn' = [conn EXCEPT !.mEchoTimer = TRUE]
    /\ UNCHANGED network

RecvEcho ==
    /\ conn.mEchoTimer /\ conn.ctx = "open"
    /\ conn' = [conn EXCEPT !.mEchoTimer = FALSE]
    /\ UNCHANGED <<network, budget>>

EchoTimeout ==
    /\ conn.mEchoTimer /\ Room /\ Spend("slow")
    /\ \E addr \in Addresses : conn' = Restarted([conn EXCEPT !.mEchoTimer = FALSE], addr)
    /\ UNCHANGED network

\* Client::retryPendingConnections, called by the application
AppRetry(disconnect, refreshURL) ==
    /\ Room /\ Spend("calls")
    /\ \E addr \in Addresses :
          conn' = RetryPendingConnection(conn, disconnect, refreshURL, addr)
    /\ UNCHANGED network

-----------------------------------------------------------------------------

Init ==
    /\ \E ip \in IPs \cup {NoIp} : conn \in {New(FALSE, NoIp), New(TRUE, ip)}
    /\ network = "good"
    /\ budget = [faults |-> MaxFaults, slow |-> MaxSlow, calls |-> MaxCalls]

Answers == UrlFetched \/ Dns \/ WsConnectCb \/ RecvEcho
           \/ \E moved \in BOOLEAN : Refetched(moved)
Timers  == AttemptTimeout \/ RetryTimeout \/ ConnectTimeout

Next == \/ Connect \/ Answers \/ Timers \/ NetworkBack
        \/ UrlRefused \/ RefetchRefused \/ WsCloseCb
        \/ \E how \in {"half", "down", "no dns"} : NetworkFails(how)
        \/ Heartbeat \/ SendEcho \/ EchoTimeout
        \/ \E refreshURL, disconnect \in BOOLEAN : AppRetry(disconnect, refreshURL)

Spec == Init /\ [][Next]_vars

\* The chat is connected once, what has been asked for is answered, timers expire and the
\* network comes back.
System   == Connect \/ Answers \/ Timers \/ NetworkBack
FairSpec == Spec /\ WF_vars(System)

-----------------------------------------------------------------------------
(* Properties *)

States  == {"New", "FetchingUrl", "Disconnected", "Resolving", "Connecting", "Connected"}
Queries == [addr : Addresses, attemptNo : Nat, cachedIPs : BOOLEAN]
Ctrls   == [addr : Addresses \cup {Null}, state : {"NotStarted", "InProgress", "RetryWait"},
            attemptNo : Nat]
Conns   == [mState            : States,
            mHeartbeatEnabled : BOOLEAN,
            mEchoTimer        : BOOLEAN,
            mConnectTimer     : BOOLEAN,
            mConnSuceeded     : 0..kMaxConnSuceeded,
            mFetchingUrl      : BOOLEAN,
            mConnectPromise   : {"pending", "resolved", "rejected"},
            mRetryCtrl        : Ctrls,
            ctx               : {"none", "connecting", "open"},
            url               : BOOLEAN,
            ip                : IPs \cup {NoIp},
            fetch             : {"none", "connect", "retry"},
            refetch           : BOOLEAN,
            queries           : Seq(Queries)]

\* The type of the connection's state.
TypeOK ==
    /\ conn \in Conns
    /\ network \in {"good", "half", "down", "no dns"}
    /\ budget \in [{"faults", "slow", "calls"} -> Nat]

Down == {"Disconnected", "Resolving", "Connecting"}

\* A connection that is down is never left alone: whatever order the callbacks came in, the
\* connect timer and a retry controller are running and there is an URL to connect to.
Supervised ==
    conn.mState \in Down => conn.mConnectTimer /\ conn.mRetryCtrl # NoCtrl /\ conn.url

\* Nothing of an attempt outlives it: once connected there is no retry controller nor connect
\* timer to tear the connection down, and the heartbeat watches it; a connection that is down
\* has no heartbeat, no echo timer and no socket but the one being opened.
CleanHandover ==
    /\ conn.mState = "Connected" => /\ conn.mRetryCtrl = NoCtrl /\ ~conn.mConnectTimer
                                    /\ conn.ctx = "open" /\ conn.mHeartbeatEnabled
    /\ conn.mState # "Connected" => ~conn.mHeartbeatEnabled /\ ~conn.mEchoTimer
    /\ conn.mState \notin {"Connecting", "Connected"} => conn.ctx = "none"
    /\ conn.mState \notin Down => conn.mRetryCtrl = NoCtrl

\* The two requests of an URL never race: the one that adds a record finds none, the one that
\* updates it finds it, and they are not in flight together (the assertions of DNScache).
OneUrlRequest ==
    /\ conn.fetch # "none" => conn.mState = "FetchingUrl" /\ ~conn.url /\ ~conn.mFetchingUrl
    /\ conn.refetch => conn.url /\ conn.mFetchingUrl

\* Once the faults are over the connection comes up and stays up, unless the API has refused
\* the URL it needs: nothing asks for it again.
NoUrl == conn.mState = "FetchingUrl" /\ conn.fetch = "none" /\ ~conn.url
EventuallyOnline == <>[](conn.mState = "Connected" \/ NoUrl)
=============================================================================
