------------------------------ MODULE Presence ------------------------------
(***************************************************************************)
(* The presence of the user (class presenced::Client,                      *)
(* src/src/presenced.cpp): the preferences that all the clients of the     *)
(* account share (PREFS), whether the user is active at this client        *)
(* (USERACTIVE), and the users that presenced is told of (SNSETPEERS,      *)
(* SNADDPEERS, SNDELPEERS).                                                *)
(*                                                                         *)
(* Three threads of control meet here: the loop of the client, presenced   *)
(* at the other end of a connection that may be lost, and the SDK's        *)
(* thread, which calls onEvent() and onUsersUpdate() and leaves the rest   *)
(* of the work to the loop.  How a connection is established is like in    *)
(* ChatdConnection and left out here.                                      *)
(***************************************************************************)
EXTENDS Integers, Sequences

CONSTANTS
    Users,          \* those who are, or may become, contacts
    Timeouts,       \* the autoaway timeouts that are chosen, in seconds
    MaxEvents       \* bound: changes of preferences, activity and contacts, and losses of the
                    \* connection, together

kMaxAutoawayTimeout == 87420    \* what fits in 11 bits; a longer one is refused

ASSUME PresenceAssumption == MaxEvents \in Nat /\ Timeouts \subseteq 1 .. kMaxAutoawayTimeout

VARIABLES
    mConnState,  \* "Offline" (not yet connected), "Connected" or "LoggedIn"
    prefs,       \* mConfig and mPrefsAckWait
    activity,    \* mLastSentUserActive, and whether the application is in the foreground
    peers,       \* mContacts, mLastScsn.isValid(), and the calls that wait for the loop; of the
                 \* ex-contacts in the last list sent, those not contacts since (a history)
    presenced,   \* the server: the preferences, and what this connection has told it
    net,         \* what is on its way, in each direction
    api,         \* the contacts of the account
    budget       \* what is left of the bound

vars == <<mConnState, prefs, activity, peers, presenced, net, api, budget>>

Visibilities == {"none", "visible", "hidden", "inactive"}
Nobody       == [u \in Users |-> "none"]

isOnline == mConnState # "Offline"

Spend == budget > 0 /\ budget' = budget - 1

\* sendCommand(): what is sent offline is lost, and the caller does not care
Sent(msgs) == net' = [net EXCEPT !.up = IF isOnline THEN @ \o msgs ELSE @]

-----------------------------------------------------------------------------
(* Preferences *)

Presences == {"offline", "away", "online", "busy"}

\* a timeout in a code: above 600 seconds whole minutes count
Rounded(seconds) == IF seconds > 600 THEN 600 + (seconds - 600) \div 60 ELSE seconds

\* mutant: the minutes are not added to the 600 seconds
SecondsOfMinutes(timeout) == IF timeout > 600 THEN (timeout - 600) * 60 ELSE timeout

\* and back
Seconds(timeout) == IF timeout > 600 THEN 600 + (timeout - 600) * 60 ELSE timeout

Preferences(presence, persist, active, timeout, visible) ==
    [mPresence |-> presence, mPersist |-> persist, mAutoawayActive |-> active,
     mAutoawayTimeout |-> timeout, mLastGreenVisible |-> visible]

\* toCode(); kUnknown has the bits of kOnline
ToCode(c) ==
    Preferences(IF c.mPresence = "unknown" THEN "online" ELSE c.mPresence, c.mPersist,
                c.mAutoawayActive, Rounded(c.mAutoawayTimeout), c.mLastGreenVisible)

\* fromCode()
FromCode(c) ==
    Preferences(c.mPresence, c.mPersist, c.mAutoawayActive, Seconds(c.mAutoawayTimeout),
                c.mLastGreenVisible)

\* autoAwayInEffect()
AutoAwayInEffect(config) ==
    config.mPresence = "online" /\ config.mAutoawayActive /\ ~config.mPersist

Prefs(config) == [op |-> "PREFS", code |-> ToCode(config)]

\* sendPrefs() of a changed configuration
SendPrefs(config) ==
    /\ prefs' = [mConfig |-> config, mPrefsAckWait |-> TRUE]
    /\ Sent(<<Prefs(config)>>)

\* setPresence(), setPersist(), setLastGreenVisible()
SetPrefs ==
    /\ Spend
    /\ \/ \E pres \in {"online", "busy"} \ {prefs.mConfig.mPresence} :
              SendPrefs([prefs.mConfig EXCEPT !.mPresence = pres])
       \/ SendPrefs([prefs.mConfig EXCEPT !.mPersist = ~@])
       \/ SendPrefs([prefs.mConfig EXCEPT !.mLastGreenVisible = ~@])
    /\ UNCHANGED <<mConnState, activity, peers, presenced, api>>

\* setAutoaway(): enabling it ends the other modes
SetAutoaway(enable, timeout) ==
    LET old == prefs.mConfig
        new == [old EXCEPT !.mAutoawayActive = enable, !.mAutoawayTimeout = timeout]
    IN /\ new # old /\ Spend
       /\ SendPrefs(IF enable THEN [new EXCEPT !.mPersist = FALSE, !.mPresence = "online"] ELSE new)
       /\ UNCHANGED <<mConnState, activity, peers, presenced, api>>

-----------------------------------------------------------------------------
(* Activity *)

\* sendUserActive()
SendUserActive(a, active, force) ==
    LET sends == isOnline /\ (force \/ active # a.mLastSentUserActive)
    IN /\ activity' = IF sends THEN [a EXCEPT !.mLastSentUserActive = active] ELSE a
       /\ Sent(IF sends THEN <<[op |-> "USERACTIVE", on |-> active]>> ELSE <<>>)

\* signalActivity(), which the application calls in the foreground, and heartbeat() when the
\* timeout has passed since
SignalActivity(active) ==
    /\ AutoAwayInEffect(prefs.mConfig) /\ Spend
    /\ IF active THEN activity.foreground ELSE isOnline /\ activity.mLastSentUserActive
    /\ SendUserActive(activity, active, FALSE)
    /\ UNCHANGED <<mConnState, prefs, peers, presenced, api>>

\* notifyUserStatus(): the application goes to the background, or comes back
NotifyUserStatus ==
    LET moved == [activity EXCEPT !.foreground = ~@]
    IN /\ Spend
       /\ IF AutoAwayInEffect(prefs.mConfig) THEN SendUserActive(moved, moved.foreground, FALSE)
          ELSE activity' = moved /\ UNCHANGED net
       /\ UNCHANGED <<mConnState, prefs, peers, presenced, api>>

-----------------------------------------------------------------------------
(* Contacts.  What the SDK's thread does is not locked against the loop. *)

\* pushPeers(): the ex-contacts too
PushPeers(mContacts) == <<[op |-> "SETPEERS", users |-> {u \in Users : mContacts[u] # "none"}]>>
ExContacts(mContacts) == {u \in Users : mContacts[u] \notin {"none", "visible"}}

\* EVENT_NODES_CURRENT in onEvent(): the account has been loaded
OnEvent ==
    /\ Spend
    /\ peers' = [peers EXCEPT !.mLastScsn = FALSE, !.mContacts = Nobody,
                              !.calls = Append(@, [op |-> "nodes", contacts |-> api.contacts])]
    /\ api' = [api EXCEPT !.missed = {}]
    /\ UNCHANGED <<mConnState, prefs, activity, presenced, net>>

\* mutant: presenced is not told of a contact who cancels the account
UsersUpdatedFollowsOn(u, visibility) ==
    LET old  == peers.mContacts[u]
        adds == visibility = "visible" /\ old \in {"none", "hidden"}
        dels == visibility = "hidden" /\ old = "visible"
        kept == IF visibility = "inactive" /\ old # "none" THEN "none" ELSE visibility
    IN IF ~peers.mLastScsn THEN peers' = [peers EXCEPT !.calls = Tail(@)] /\ UNCHANGED net
       ELSE /\ peers' = [peers EXCEPT !.mContacts[u] = kept, !.calls = Tail(@),
                                      !.exes = IF visibility = "visible" THEN @ \ {u} ELSE @]
            /\ Sent(IF adds THEN <<[op |-> "ADDPEERS", users |-> {u}]>>
                    ELSE IF dels THEN <<[op |-> "DELPEERS", users |-> {u}]>> ELSE <<>>)

\* the part of onUsersUpdate() that the loop does
UsersUpdated(u, visibility) ==
    LET old  == peers.mContacts[u]
        adds == visibility = "visible" /\ old \in {"none", "hidden"}
        dels == visibility \in {"hidden", "inactive"} /\ old = "visible"
        kept == IF visibility = "inactive" /\ old # "none" THEN "none" ELSE visibility
    IN IF ~peers.mLastScsn THEN peers' = [peers EXCEPT !.calls = Tail(@)] /\ UNCHANGED net
       ELSE /\ peers' = [peers EXCEPT !.mContacts[u] = kept, !.calls = Tail(@),
                                      !.exes = IF visibility = "visible" THEN @ \ {u} ELSE @]
            /\ Sent(IF adds THEN <<[op |-> "ADDPEERS", users |-> {u}]>>
                    ELSE IF dels THEN <<[op |-> "DELPEERS", users |-> {u}]>> ELSE <<>>)

\* the part of onEvent() that the loop does
ContactsLoaded(contacts) ==
    /\ peers' = [mLastScsn |-> TRUE, mContacts |-> contacts, calls |-> Tail(peers.calls),
                 exes |-> ExContacts(contacts)]
    /\ Sent(PushPeers(contacts))

\* The contacts of the account change; onUsersUpdate() ignores it between OnEvent and
\* ContactsLoaded, whose list was made before.
ContactChanges(u, visibility) ==
    /\ <<api.contacts[u], visibility>> \in {<<"none", "visible">>, <<"visible", "hidden">>,
            <<"hidden", "visible">>, <<"visible", "inactive">>, <<"hidden", "inactive">>}
    /\ Spend
    /\ api' = [contacts |-> [api.contacts EXCEPT ![u] = visibility],
               missed |-> IF peers.mLastScsn THEN api.missed ELSE api.missed \cup {u}]
    /\ peers' = IF peers.mLastScsn
                THEN [peers EXCEPT !.calls = Append(@, [op |-> "users", user |-> u,
                                                           visibility |-> visibility])]
                ELSE peers
    /\ UNCHANGED <<mConnState, prefs, activity, presenced, net>>

\* the loop runs the call at the head of its queue
RunCall ==
    /\ peers.calls # <<>>
    /\ LET call == Head(peers.calls)
       IN IF call.op = "nodes" THEN ContactsLoaded(call.contacts)
          ELSE UsersUpdated(call.user, call.visibility)
    /\ UNCHANGED <<mConnState, prefs, activity, presenced, api, budget>>

-----------------------------------------------------------------------------
(* The connection *)

\* login()
LoginCommands ==
    <<[op |-> "HELLO"]>> \o (IF prefs.mPrefsAckWait THEN <<Prefs(prefs.mConfig)>> ELSE <<>>)
                         \o (IF peers.mLastScsn THEN PushPeers(peers.mContacts) ELSE <<>>)

\* setConnState(kConnected), and what is attached to mConnectPromise
Connect ==
    /\ ~isOnline
    /\ mConnState' = "Connected"
    /\ net' = [net EXCEPT !.up = LoginCommands]
    /\ peers' = IF peers.mLastScsn THEN [peers EXCEPT !.exes = ExContacts(peers.mContacts)]
                ELSE peers
    /\ UNCHANGED <<prefs, activity, presenced, api, budget>>

\* setConnState(kDisconnected), whatever the reason
Disconnect ==
    /\ isOnline /\ Spend
    /\ mConnState' = "Offline"
    /\ net' = [up |-> <<>>, down |-> <<>>]
    /\ presenced' = [presenced EXCEPT !.hello = FALSE, !.active = FALSE, !.peers = {}]
    /\ UNCHANGED <<prefs, activity, peers, api>>

\* mutant: the preferences of another client do not cancel the wait
HandlePrefsStillWaits(code) ==
    LET ack == prefs.mPrefsAckWait /\ code = ToCode(prefs.mConfig)
    IN /\ prefs' = [mConfig |-> IF ack THEN prefs.mConfig ELSE FromCode(code),
                    mPrefsAckWait |-> prefs.mPrefsAckWait /\ ~ack]
       /\ UNCHANGED activity /\ net' = [net EXCEPT !.down = Tail(@)]

\* OP_PREFS in handleMessage()
HandlePrefs(code) ==
    LET ack    == prefs.mPrefsAckWait /\ code = ToCode(prefs.mConfig)
        config == IF ack THEN prefs.mConfig ELSE FromCode(code)
        rest   == [net EXCEPT !.down = Tail(@)]
    IN /\ prefs' = [mConfig |-> config, mPrefsAckWait |-> FALSE]
       /\ IF ~prefs.mPrefsAckWait /\ mConnState = "Connected" /\ AutoAwayInEffect(config)
          THEN \E active \in {FALSE, activity.foreground} :
                 /\ activity' = [activity EXCEPT !.mLastSentUserActive = active]
                 /\ net' = [rest EXCEPT !.up = Append(@, [op |-> "USERACTIVE", on |-> active])]
          ELSE UNCHANGED activity /\ net' = rest

\* a message of presenced: PREFS
HandleMessage ==
    /\ net.down # <<>>
    /\ mConnState' = "LoggedIn"
    /\ HandlePrefs(Head(net.down))
    /\ UNCHANGED <<peers, presenced, api, budget>>

-----------------------------------------------------------------------------
(* presenced *)

\* It answers HELLO with the preferences, and tells all the clients of a change.
Server ==
    /\ net.up # <<>>
    /\ LET msg == Head(net.up)
       IN /\ presenced' =
                CASE msg.op = "HELLO" -> [presenced EXCEPT !.hello = TRUE]
                  [] msg.op = "PREFS" -> [presenced EXCEPT !.prefs = msg.code]
                  [] msg.op = "USERACTIVE" -> [presenced EXCEPT !.active = msg.on]
                  [] msg.op = "SETPEERS" -> [presenced EXCEPT !.peers = msg.users]
                  [] msg.op = "ADDPEERS" -> [presenced EXCEPT !.peers = @ \cup msg.users]
                  [] msg.op = "DELPEERS" -> [presenced EXCEPT !.peers = @ \ msg.users]
          /\ net' = [up |-> Tail(net.up),
                     down |-> IF msg.op \in {"HELLO", "PREFS"}
                              THEN Append(net.down, presenced'.prefs) ELSE net.down]
    /\ UNCHANGED <<mConnState, prefs, activity, peers, api, budget>>

\* another client of the account changes the preferences
Foreign(code) ==
    /\ code # presenced.prefs /\ Spend
    /\ presenced' = [presenced EXCEPT !.prefs = code]
    /\ net' = IF presenced.hello THEN [net EXCEPT !.down = Append(@, code)] ELSE net
    /\ UNCHANGED <<mConnState, prefs, activity, peers, api>>

-----------------------------------------------------------------------------
AutoAwayCode == Preferences("online", FALSE, TRUE, 600, FALSE)
BusyCode     == Preferences("busy", TRUE, TRUE, 600, FALSE)

\* a new client, of an account with one of two configurations
Init ==
    /\ mConnState = "Offline"
    /\ prefs = [mConfig |-> Preferences("unknown", FALSE, TRUE, 600, FALSE), mPrefsAckWait |-> FALSE]
    /\ activity = [mLastSentUserActive |-> FALSE, foreground |-> TRUE]
    /\ peers = [mLastScsn |-> FALSE, mContacts |-> Nobody, calls |-> <<>>, exes |-> {}]
    /\ \E code \in {AutoAwayCode, BusyCode} :
           presenced = [prefs |-> code, hello |-> FALSE, active |-> FALSE, peers |-> {}]
    /\ net = [up |-> <<>>, down |-> <<>>]
    /\ api \in [contacts : [Users -> {"none", "visible"}], missed : {{}}]
    /\ budget = MaxEvents

Next ==
    \/ SetPrefs \/ \E enable \in BOOLEAN, timeout \in Timeouts : SetAutoaway(enable, timeout)
    \/ \E active \in BOOLEAN : SignalActivity(active)
    \/ NotifyUserStatus
    \/ OnEvent \/ \E u \in Users, v \in Visibilities : ContactChanges(u, v)
    \/ RunCall \/ Connect \/ Disconnect \/ HandleMessage \/ Server
    \/ \E code \in {AutoAwayCode, BusyCode} : Foreign(code)

Spec == Init /\ [][Next]_vars

\* The client connects again, the loop runs what is queued, and presenced answers.
FairSpec ==
    Spec /\ WF_vars(Connect) /\ WF_vars(RunCall) /\ WF_vars(HandleMessage) /\ WF_vars(Server)

-----------------------------------------------------------------------------
(* Properties *)

InSeconds == 1 .. kMaxAutoawayTimeout
In11Bits  == 1 .. 2047

Configs == [mPresence : Presences \cup {"unknown"}, mPersist : BOOLEAN,
            mAutoawayActive : BOOLEAN, mAutoawayTimeout : InSeconds,
            mLastGreenVisible : BOOLEAN]

\* a configuration in 16 bits, 11 of them for the timeout
Codes == [mPresence : Presences, mPersist : BOOLEAN, mAutoawayActive : BOOLEAN,
          mAutoawayTimeout : In11Bits, mLastGreenVisible : BOOLEAN]

Commands == [op : {"HELLO"}] \cup [op : {"PREFS"}, code : Codes]
                \cup [op : {"USERACTIVE"}, on : BOOLEAN]
                \cup [op : {"SETPEERS", "ADDPEERS", "DELPEERS"}, users : SUBSET Users]

Calls == [op : {"nodes"}, contacts : [Users -> Visibilities]]
             \cup [op : {"users"}, user : Users, visibility : Visibilities \ {"none"}]

TypeOK ==
    /\ mConnState \in {"Offline", "Connected", "LoggedIn"}
    /\ prefs \in [mConfig : Configs, mPrefsAckWait : BOOLEAN]
    /\ activity \in [mLastSentUserActive : BOOLEAN, foreground : BOOLEAN]
    /\ peers \in [mLastScsn : BOOLEAN, mContacts : [Users -> Visibilities], calls : Seq(Calls),
                 exes : SUBSET Users]
    /\ ~peers.mLastScsn => peers.mContacts = Nobody
    /\ presenced \in [prefs : Codes, hello : BOOLEAN, active : BOOLEAN, peers : SUBSET Users]
    /\ net \in [up : Seq(Commands), down : Seq(Codes)]
    /\ api \in [contacts : [Users -> Visibilities], missed : SUBSET Users]
    /\ mConnState = "Offline" => net = [up |-> <<>>, down |-> <<>>] /\ ~presenced.hello
    /\ mConnState = "LoggedIn" => presenced.hello

\* Everything that was sent has arrived, and nothing waits for the loop.
Settled ==
    mConnState = "LoggedIn" /\ net = [up |-> <<>>, down |-> <<>>] /\ peers.calls = <<>>

\* Once everything has arrived the client has the preferences that presenced has, and waits
\* for no acknowledgement, however its own changes, those of other clients and losses of the
\* connection interleave.
PrefsAgree == Settled => ToCode(prefs.mConfig) = presenced.prefs /\ ~prefs.mPrefsAckWait

\* Once everything has arrived presenced follows the contacts of the account and nobody else but
\* the ex-contacts that login() and pushPeers() list with them, and the client takes the contacts
\* of the account for its own, except where a change came between the two steps of a reload.
PeersAgree ==
    Settled /\ peers.mLastScsn =>
        \A u \in Users \ api.missed :
            /\ u \in presenced.peers <=> api.contacts[u] = "visible" \/ u \in peers.exes
            /\ peers.mContacts[u] = "visible" <=> api.contacts[u] = "visible"

\* What the user sets is confirmed or replaced in the end.
PrefsSettle == prefs.mPrefsAckWait ~> ~prefs.mPrefsAckWait
=============================================================================
