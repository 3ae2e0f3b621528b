--------------------------- MODULE Presence_proof ---------------------------
(* Proofs about Presence: the client ends up with the preferences of presenced. *)
EXTENDS Presence, SequenceTheorems, TLAPS

\* presenced will answer with preferences
Asks(up) == \E i \in DOMAIN up : up[i].op \in {"HELLO", "PREFS"}

\* HELLO is what presenced hears first on a connection, and it says nothing before.
HelloFirst ==
    ~presenced.hello => /\ net.down = <<>>
                        /\ isOnline => net.up # <<>> /\ Head(net.up).op = "HELLO"

\* The preferences that presenced has are what it says last: the client waits for an answer,
\* has them on its way, or has taken them.
LastWord ==
    isOnline => \/ Asks(net.up)
                \/ net.down # <<>> /\ net.down[Len(net.down)] = presenced.prefs
                \/ /\ net.down = <<>> /\ mConnState = "LoggedIn"
                   /\ ToCode(prefs.mConfig) = presenced.prefs /\ ~prefs.mPrefsAckWait

IInv == TypeOK /\ HelloFirst /\ LastWord

-----------------------------------------------------------------------------
(* Configurations and their codes *)

\* Whole minutes above 600 seconds are kept.
LEMMA Minutes ==
    ASSUME NEW t \in Int, 1 <= t, t <= 2047
    PROVE  /\ Seconds(t) \in Int /\ 1 <= Seconds(t) /\ Seconds(t) <= 87420
           /\ Rounded(Seconds(t)) = t
<1>1. CASE t > 600
  <2> DEFINE u == (t - 600) * 60
  <2>1. u \in Int /\ u >= 60 /\ u <= 86820
    BY <1>1
  <2>2. u \div 60 = t - 600
    BY <1>1
  <2>. HIDE DEF u
  <2>3. Seconds(t) = 600 + u
    BY <1>1 DEF Seconds, u
  <2>4. Rounded(600 + u) = 600 + u \div 60
    BY <2>1 DEF Rounded
  <2>5. QED
    BY <2>1, <2>2, <2>3, <2>4
<1>2. CASE ~(t > 600)
  BY <1>2 DEF Seconds, Rounded
<1>3. QED
  BY <1>1, <1>2

LEMMA InSecondsDef ==
    /\ \A t \in InSeconds : t \in Int /\ 1 <= t /\ t <= 87420
    /\ \A t \in Int : 1 <= t /\ t <= 87420 => t \in InSeconds
<1>1. kMaxAutoawayTimeout \in Int
  BY SMT DEF kMaxAutoawayTimeout
<1>2. ASSUME NEW t \in InSeconds
      PROVE  t \in Int /\ 1 <= t /\ t <= kMaxAutoawayTimeout
  BY SMT, <1>1 DEF InSeconds
<1>3. ASSUME NEW t \in Int, 1 <= t, t <= kMaxAutoawayTimeout
      PROVE  t \in InSeconds
  BY SMT, <1>1, <1>3 DEF InSeconds
<1>4. kMaxAutoawayTimeout = 87420
  BY DEF kMaxAutoawayTimeout
<1>5. QED
  BY SMT, <1>2, <1>3, <1>4

LEMMA SecondsType ==
    ASSUME NEW t \in In11Bits
    PROVE  Seconds(t) \in InSeconds /\ Rounded(Seconds(t)) = t
<1>1. t \in Int /\ 1 <= t /\ t <= 2047
  BY SMT DEF In11Bits
<1>2. QED
  BY <1>1, Minutes, InSecondsDef, SMT

\* A timeout that the API accepts fits its bits.
LEMMA RoundedType ==
    ASSUME NEW t \in InSeconds
    PROVE  Rounded(t) \in In11Bits
<1>1. t \in Int /\ 1 <= t /\ t <= 87420
  BY SMT, InSecondsDef
<1>2. PICK s \in Int : s = Rounded(t) /\ 1 <= s /\ s <= 2047
  BY <1>1, SMT DEF Rounded
<1>3. s \in In11Bits
  BY <1>2, SMTT(30) DEF In11Bits
<1>4. QED
  BY <1>2, <1>3, SMT

\* A configuration that came from presenced is sent back as it came.
LEMMA CodeRoundTrip ==
    ASSUME NEW code \in Codes
    PROVE  FromCode(code) \in Configs /\ ToCode(FromCode(code)) = code
<1>1. code.mAutoawayTimeout \in In11Bits
  BY DEF Codes
<1>2. /\ Seconds(code.mAutoawayTimeout) \in InSeconds
      /\ Rounded(Seconds(code.mAutoawayTimeout)) = code.mAutoawayTimeout
  BY <1>1, SecondsType
<1>3. FromCode(code) \in Configs
  BY <1>2 DEF FromCode, Preferences, Configs, Codes
<1>4. code.mPresence # "unknown"
  BY DEF Codes, Presences
<1>5. QED
  BY <1>2, <1>3, <1>4 DEF FromCode, ToCode, Preferences, Codes

LEMMA ToCodeType ==
    ASSUME NEW config \in Configs
    PROVE  ToCode(config) \in Codes
<1>1. Rounded(config.mAutoawayTimeout) \in In11Bits
  BY RoundedType DEF Configs
<1>2. QED
  BY <1>1 DEF ToCode, Preferences, Codes, Configs, Presences

-----------------------------------------------------------------------------
(* What is on its way to presenced *)

\* Sending takes no question away and does not change what is heard first.
LEMMA AsksConcat ==
    ASSUME NEW s \in Seq(Commands), NEW t \in Seq(Commands)
    PROVE  /\ s \o t \in Seq(Commands)
           /\ Asks(s) \/ Asks(t) => Asks(s \o t)
           /\ s # <<>> => s \o t # <<>> /\ Head(s \o t) = Head(s)
<1>1. /\ s \o t \in Seq(Commands) /\ Len(s \o t) = Len(s) + Len(t)
      /\ \A i \in 1 .. Len(s) + Len(t) : (s \o t)[i] = IF i <= Len(s) THEN s[i] ELSE t[i - Len(s)]
  BY ConcatProperties
<1>2. Asks(s) => Asks(s \o t)
  BY <1>1 DEF Asks
<1>3. ASSUME Asks(t) PROVE Asks(s \o t)
  <2>1. PICK i \in DOMAIN t : t[i].op \in {"HELLO", "PREFS"}
    BY <1>3 DEF Asks
  <2>2. i + Len(s) \in DOMAIN (s \o t) /\ (s \o t)[i + Len(s)] = t[i]
    BY <1>1, <2>1
  <2>3. QED
    BY <2>1, <2>2 DEF Asks
<1>4. s # <<>> => s \o t # <<>> /\ Head(s \o t) = Head(s)
  BY <1>1
<1>5. QED
  BY <1>1, <1>2, <1>3, <1>4

\* Only HELLO and PREFS are answered.
LEMMA AsksTail ==
    ASSUME NEW s \in Seq(Commands), s # <<>>, Asks(s), Head(s).op \notin {"HELLO", "PREFS"}
    PROVE  Asks(Tail(s))
<1>1. PICK i \in DOMAIN s : s[i].op \in {"HELLO", "PREFS"}
  BY DEF Asks
<1>2. i # 1
  BY <1>1
<1>3. i - 1 \in DOMAIN Tail(s) /\ Tail(s)[i - 1] = s[i]
  BY <1>1, <1>2
<1>4. QED
  BY <1>1, <1>3 DEF Asks

-----------------------------------------------------------------------------
(* The steps of the client that only send *)

NetTypeOK ==
    /\ net \in [up : Seq(Commands), down : Seq(Codes)]
    /\ mConnState = "Offline" => net = [up |-> <<>>, down |-> <<>>]

\* What the client sends delays no answer, and new preferences are sent whenever they change.
LEMMA SendKeeps ==
    ASSUME TypeOK, HelloFirst, LastWord, NEW msgs \in Seq(Commands), Sent(msgs),
           mConnState' = mConnState, presenced' = presenced, prefs' = prefs \/ Asks(msgs)
    PROVE  NetTypeOK' /\ HelloFirst' /\ LastWord'
<1>1. CASE isOnline
  <2>1. net.up \in Seq(Commands) /\ net.down \in Seq(Codes) /\ net = [up |-> net.up, down |-> net.down]
    BY DEF TypeOK
  <2>2. net' = [up |-> net.up \o msgs, down |-> net.down]
    BY <1>1, <2>1 DEF Sent
  <2>3. /\ net.up \o msgs \in Seq(Commands)
        /\ Asks(net.up) \/ Asks(msgs) => Asks(net.up \o msgs)
        /\ net.up # <<>> => net.up \o msgs # <<>> /\ Head(net.up \o msgs) = Head(net.up)
    BY <2>1, AsksConcat
  <2>4. NetTypeOK'
    BY <1>1, <2>1, <2>2, <2>3 DEF NetTypeOK, isOnline
  <2>5. HelloFirst'
    BY <1>1, <2>2, <2>3 DEF HelloFirst, isOnline
  <2>6. LastWord'
    <3>1. CASE Asks(net.up) \/ Asks(msgs)
      BY <2>2, <2>3, <3>1 DEF LastWord
    <3>2. CASE ~Asks(net.up) /\ prefs' = prefs
      BY <1>1, <2>2, <3>2 DEF LastWord
    <3>3. QED
      BY <3>1, <3>2
  <2>7. QED
    BY <2>4, <2>5, <2>6
<1>2. CASE ~isOnline
  <2>1. net = [up |-> <<>>, down |-> <<>>]
    BY <1>2 DEF TypeOK, isOnline
  <2>2. net' = net
    BY <1>2, <2>1 DEF Sent
  <2>3. QED
    BY <1>2, <2>1, <2>2 DEF NetTypeOK, TypeOK, HelloFirst, LastWord, isOnline
<1>3. QED
  BY <1>1, <1>2

\* A step that leaves the connection and the preferences alone.
LEMMA QuietKeeps ==
    ASSUME TypeOK, HelloFirst, LastWord, UNCHANGED <<net, mConnState, presenced, prefs>>
    PROVE  NetTypeOK' /\ HelloFirst' /\ LastWord'
BY DEF TypeOK, NetTypeOK, HelloFirst, LastWord, isOnline

\* The parts of TypeOK that have nothing to do with what is on its way.
LocalTypeOK ==
    /\ prefs \in [mConfig : Configs, mPrefsAckWait : BOOLEAN]
    /\ activity \in [mLastSentUserActive : BOOLEAN, foreground : BOOLEAN]
    /\ peers \in [mLastScsn : BOOLEAN, mContacts : [Users -> Visibilities], calls : Seq(Calls), exes : SUBSET Users]
    /\ ~peers.mLastScsn => peers.mContacts = Nobody
    /\ api \in [contacts : [Users -> Visibilities], missed : SUBSET Users]

LEMMA ClientStep ==
    ASSUME TypeOK, LocalTypeOK', NetTypeOK', mConnState' = mConnState, presenced' = presenced
    PROVE  TypeOK'
BY DEF TypeOK, LocalTypeOK, NetTypeOK

LEMMA SendPrefsKeeps ==
    ASSUME IInv, NEW config \in Configs, SendPrefs(config),
           UNCHANGED <<mConnState, activity, peers, presenced, api>>
    PROVE  IInv'
<1> DEFINE msgs == <<Prefs(config)>>
<1>1. ToCode(config) \in Codes
  BY ToCodeType
<1>2. Prefs(config) \in Commands
  BY <1>1 DEF Prefs, Commands
<1>3. msgs \in Seq(Commands)
  BY <1>2
<1>4. Asks(msgs)
  BY DEF Asks, Prefs
<1>5. NetTypeOK' /\ HelloFirst' /\ LastWord'
  BY <1>3, <1>4, SendKeeps DEF SendPrefs, IInv
<1>6. LocalTypeOK'
  BY DEF SendPrefs, IInv, TypeOK, LocalTypeOK, Nobody
<1>7. QED
  BY <1>5, <1>6, ClientStep DEF IInv

LEMMA SetPrefsKeeps ==
    ASSUME IInv, SetPrefs
    PROVE  IInv'
<1>1. prefs.mConfig \in Configs
  BY DEF IInv, TypeOK
<1>2. PICK config \in Configs : SendPrefs(config)
  <2>1. ASSUME NEW pres \in {"online", "busy"}
        PROVE  [prefs.mConfig EXCEPT !.mPresence = pres] \in Configs
    BY <1>1 DEF Configs, Presences
  <2>2. [prefs.mConfig EXCEPT !.mPersist = ~@] \in Configs
    BY <1>1 DEF Configs
  <2>3. [prefs.mConfig EXCEPT !.mLastGreenVisible = ~@] \in Configs
    BY <1>1 DEF Configs
  <2>4. QED
    BY <2>1, <2>2, <2>3 DEF SetPrefs
<1>3. QED
  BY <1>2, SendPrefsKeeps DEF SetPrefs

LEMMA SetAutoawayKeeps ==
    ASSUME IInv, NEW enable \in BOOLEAN, NEW timeout \in Timeouts, SetAutoaway(enable, timeout)
    PROVE  IInv'
<1> DEFINE old == prefs.mConfig
           new == [old EXCEPT !.mAutoawayActive = enable, !.mAutoawayTimeout = timeout]
           set == [new EXCEPT !.mPersist = FALSE, !.mPresence = "online"]
<1>1. old \in Configs /\ timeout \in InSeconds
  BY PresenceAssumption DEF IInv, TypeOK, InSeconds
<1>2. new \in Configs
  BY <1>1 DEF Configs
<1>3. set \in Configs
  BY <1>2 DEF Configs, Presences
<1>4. SendPrefs(IF enable THEN set ELSE new)
  BY DEF SetAutoaway
<1>. HIDE DEF new, set
<1>5. QED
  BY <1>2, <1>3, <1>4, SendPrefsKeeps DEF SetAutoaway

LEMMA SendUserActiveKeeps ==
    ASSUME IInv, NEW a \in [mLastSentUserActive : BOOLEAN, foreground : BOOLEAN],
           NEW active \in BOOLEAN, SendUserActive(a, active, FALSE),
           UNCHANGED <<mConnState, prefs, peers, presenced, api>>
    PROVE  IInv'
<1>1. PICK msgs \in Seq(Commands) : Sent(msgs)
  <2>1. [op |-> "USERACTIVE", on |-> active] \in Commands
    BY DEF Commands
  <2>2. <<[op |-> "USERACTIVE", on |-> active]>> \in Seq(Commands) /\ <<>> \in Seq(Commands)
    BY <2>1
  <2>3. QED
    BY <2>2 DEF SendUserActive
<1>2. NetTypeOK' /\ HelloFirst' /\ LastWord'
  BY <1>1, SendKeeps DEF IInv
<1>3. activity' \in [mLastSentUserActive : BOOLEAN, foreground : BOOLEAN]
  BY DEF SendUserActive
<1>4. LocalTypeOK'
  BY <1>3 DEF IInv, TypeOK, LocalTypeOK, Nobody
<1>5. QED
  BY <1>2, <1>4, ClientStep DEF IInv

LEMMA NotifyUserStatusKeeps ==
    ASSUME IInv, NotifyUserStatus
    PROVE  IInv'
<1> DEFINE moved == [activity EXCEPT !.foreground = ~@]
<1>1. /\ moved \in [mLastSentUserActive : BOOLEAN, foreground : BOOLEAN]
      /\ moved.foreground \in BOOLEAN
  BY DEF IInv, TypeOK
<1>2. CASE AutoAwayInEffect(prefs.mConfig)
  <2>1. SendUserActive(moved, moved.foreground, FALSE)
    BY <1>2 DEF NotifyUserStatus
  <2>2. UNCHANGED <<mConnState, prefs, peers, presenced, api>>
    BY DEF NotifyUserStatus
  <2>. HIDE DEF moved
  <2>3. QED
    BY <1>1, <2>1, <2>2, SendUserActiveKeeps
<1>3. CASE ~AutoAwayInEffect(prefs.mConfig)
  <2>1. activity' = moved /\ UNCHANGED <<net, mConnState, prefs, peers, presenced, api>>
    BY <1>3 DEF NotifyUserStatus
  <2>2. LocalTypeOK'
    BY <1>1, <2>1 DEF IInv, TypeOK, LocalTypeOK, Nobody
  <2>3. QED
    BY <2>1, <2>2, QuietKeeps, ClientStep DEF IInv
<1>4. QED
  BY <1>2, <1>3

LEMMA SignalActivityKeeps ==
    ASSUME IInv, NEW active \in BOOLEAN, SignalActivity(active)
    PROVE  IInv'
<1>1. activity \in [mLastSentUserActive : BOOLEAN, foreground : BOOLEAN]
  BY DEF IInv, TypeOK
<1>2. QED
  BY <1>1, SendUserActiveKeeps DEF SignalActivity

-----------------------------------------------------------------------------
(* Contacts *)

LEMMA OnEventKeeps ==
    ASSUME IInv, OnEvent
    PROVE  IInv'
<1> DEFINE call == [op |-> "nodes", contacts |-> api.contacts]
<1>1. peers.calls \in Seq(Calls) /\ call \in Calls
  BY DEF IInv, TypeOK, Calls
<1>. HIDE DEF call
<1>2. Append(peers.calls, call) \in Seq(Calls)
  BY <1>1
<1>3. Nobody \in [Users -> Visibilities]
  BY DEF Nobody, Visibilities
<1>4. /\ peers' = [mLastScsn |-> FALSE, mContacts |-> Nobody,
                   calls |-> Append(peers.calls, call), exes |-> peers.exes]
      /\ peers.exes \in SUBSET Users
  BY DEF OnEvent, call, IInv, TypeOK
<1>5. api' \in [contacts : [Users -> Visibilities], missed : SUBSET Users]
  BY DEF OnEvent, IInv, TypeOK
<1>6. Nobody' = Nobody
  BY DEF Nobody
<1>7. /\ prefs' \in [mConfig : Configs, mPrefsAckWait : BOOLEAN]
      /\ activity' \in [mLastSentUserActive : BOOLEAN, foreground : BOOLEAN]
  BY DEF OnEvent, IInv, TypeOK
<1>8. LocalTypeOK'
  BY <1>2, <1>3, <1>4, <1>5, <1>6, <1>7 DEF LocalTypeOK
<1>9. QED
  BY <1>8, QuietKeeps, ClientStep DEF IInv, OnEvent

LEMMA ContactChangesKeeps ==
    ASSUME IInv, NEW u \in Users, NEW visibility \in Visibilities, ContactChanges(u, visibility)
    PROVE  IInv'
<1> DEFINE call == [op |-> "users", user |-> u, visibility |-> visibility]
<1>1. peers.calls \in Seq(Calls) /\ call \in Calls
  <2>1. visibility # "none"
    BY DEF ContactChanges
  <2>2. QED
    BY <2>1 DEF IInv, TypeOK, Calls
<1>. HIDE DEF call
<1>2. Append(peers.calls, call) \in Seq(Calls)
  BY <1>1
<1>3. /\ peers' \in [mLastScsn : BOOLEAN, mContacts : [Users -> Visibilities], calls : Seq(Calls), exes : SUBSET Users]
      /\ peers'.mLastScsn = peers.mLastScsn /\ peers'.mContacts = peers.mContacts
  BY <1>2 DEF ContactChanges, call, IInv, TypeOK
<1>4. api' \in [contacts : [Users -> Visibilities], missed : SUBSET Users]
  BY DEF ContactChanges, IInv, TypeOK
<1>5. Nobody' = Nobody
  BY DEF Nobody
<1>6. LocalTypeOK'
  BY <1>3, <1>4, <1>5 DEF ContactChanges, IInv, TypeOK, LocalTypeOK
<1>7. QED
  BY <1>6, QuietKeeps, ClientStep DEF IInv, ContactChanges

\* A command about some users is one.
LEMMA UsersCommand ==
    ASSUME NEW op \in {"SETPEERS", "ADDPEERS", "DELPEERS"}, NEW users \in SUBSET Users
    PROVE  <<[op |-> op, users |-> users]>> \in Seq(Commands)
<1>1. [op |-> op, users |-> users] \in Commands
  BY DEF Commands
<1>2. QED
  BY <1>1

LEMMA PushPeersType ==
    ASSUME NEW mContacts
    PROVE  PushPeers(mContacts) \in Seq(Commands)
<1> DEFINE users == {u \in Users : mContacts[u] # "none"}
<1>1. users \in SUBSET Users
  OBVIOUS
<1>. HIDE DEF users
<1>2. <<[op |-> "SETPEERS", users |-> users]>> \in Seq(Commands)
  BY <1>1, UsersCommand
<1>3. QED
  BY <1>2 DEF PushPeers, users

LEMMA RunCallKeeps ==
    ASSUME IInv, RunCall
    PROVE  IInv'
<1> DEFINE call == Head(peers.calls)
           rest == Tail(peers.calls)
<1>1. /\ peers \in [mLastScsn : BOOLEAN, mContacts : [Users -> Visibilities], calls : Seq(Calls), exes : SUBSET Users]
      /\ peers.calls \in Seq(Calls) /\ peers.calls # <<>>
  BY DEF IInv, TypeOK, RunCall
<1>2. call \in Calls /\ rest \in Seq(Calls)
  BY <1>1
<1>3. UNCHANGED <<mConnState, prefs, activity, presenced, api, budget>>
  BY DEF RunCall
<1>4. Nobody' = Nobody
  BY DEF Nobody
<1>5. SUFFICES /\ peers' \in [mLastScsn : BOOLEAN, mContacts : [Users -> Visibilities],
                              calls : Seq(Calls), exes : SUBSET Users]
               /\ ~peers'.mLastScsn => peers'.mContacts = Nobody
               /\ (\E msgs \in Seq(Commands) : Sent(msgs)) \/ UNCHANGED net
  BY <1>3, <1>4, SendKeeps, QuietKeeps, ClientStep DEF IInv, TypeOK, LocalTypeOK
<1>6. CASE call.op = "nodes"
  <2>1. call.contacts \in [Users -> Visibilities]
    BY <1>2, <1>6 DEF Calls
  <2>2. ContactsLoaded(call.contacts)
    BY <1>6 DEF RunCall
  <2>. HIDE DEF call
  <2>3. Sent(PushPeers(call.contacts)) /\ PushPeers(call.contacts) \in Seq(Commands)
    BY <2>2, PushPeersType DEF ContactsLoaded
  <2>4. /\ peers' = [mLastScsn |-> TRUE, mContacts |-> call.contacts, calls |-> rest,
                     exes |-> ExContacts(call.contacts)]
        /\ ExContacts(call.contacts) \in SUBSET Users
    BY <2>2 DEF ContactsLoaded, ExContacts
  <2>5. QED
    BY <1>2, <2>1, <2>3, <2>4
<1>7. CASE call.op # "nodes"
  <2>1. call.user \in Users /\ call.visibility \in Visibilities
    BY <1>2, <1>7 DEF Calls
  <2>2. UsersUpdated(call.user, call.visibility)
    BY <1>7 DEF RunCall
  <2>. HIDE DEF call
  <2>3. CASE ~peers.mLastScsn
    BY ZenonT(30), <1>1, <1>2, <2>2, <2>3 DEF UsersUpdated, IInv, TypeOK
  <2>4. CASE peers.mLastScsn
    <3>1. PICK kept \in Visibilities : \E exes \in SUBSET Users :
             peers' = [peers EXCEPT !.mContacts[call.user] = kept, !.calls = Tail(@),
                                    !.exes = exes]
      <4>1. peers.exes \in SUBSET Users /\ peers.exes \ {call.user} \in SUBSET Users
        BY <1>1
      <4>2. QED
        BY <2>1, <2>2, <2>4, <4>1 DEF UsersUpdated, Visibilities
    <3>2. /\ peers' \in [mLastScsn : BOOLEAN, mContacts : [Users -> Visibilities],
                         calls : Seq(Calls), exes : SUBSET Users]
          /\ peers'.mLastScsn
      BY <1>1, <1>2, <2>1, <2>4, <3>1
    <3>3. /\ <<[op |-> "ADDPEERS", users |-> {call.user}]>> \in Seq(Commands)
          /\ <<[op |-> "DELPEERS", users |-> {call.user}]>> \in Seq(Commands)
          /\ <<>> \in Seq(Commands)
      BY <2>1, UsersCommand
    <3>4. \E msgs \in Seq(Commands) : Sent(msgs)
      BY <2>2, <2>4, <3>3 DEF UsersUpdated
    <3>5. QED
      BY <3>2, <3>4
  <2>5. QED
    BY <2>3, <2>4
<1>8. QED
  BY <1>6, <1>7

-----------------------------------------------------------------------------
(* The connection *)

LEMMA ConnectKeeps ==
    ASSUME IInv, Connect
    PROVE  IInv'
<1> DEFINE hello == <<[op |-> "HELLO"]>>
           own   == IF prefs.mPrefsAckWait THEN <<Prefs(prefs.mConfig)>> ELSE <<>>
           users == IF peers.mLastScsn THEN PushPeers(peers.mContacts) ELSE <<>>
<1>1. [op |-> "HELLO"] \in Commands
  BY DEF Commands
<1>2. hello \in Seq(Commands) /\ hello # <<>> /\ Head(hello).op = "HELLO" /\ Asks(hello)
  BY <1>1 DEF Asks
<1>3. own \in Seq(Commands)
  <2>1. prefs.mConfig \in Configs
    BY DEF IInv, TypeOK
  <2>2. Prefs(prefs.mConfig) \in Commands
    BY <2>1, ToCodeType DEF Prefs, Commands
  <2>3. QED
    BY <2>2
<1>4. users \in Seq(Commands)
  <2>1. PushPeers(peers.mContacts) \in Seq(Commands)
    BY PushPeersType
  <2>2. QED
    BY <2>1
<1>5. LoginCommands = (hello \o own) \o users
  BY DEF LoginCommands
<1>. HIDE DEF hello, own, users
<1>6. /\ hello \o own \in Seq(Commands) /\ Asks(hello \o own)
      /\ hello \o own # <<>> /\ Head(hello \o own).op = "HELLO"
  BY <1>2, <1>3, AsksConcat
<1>7. /\ LoginCommands \in Seq(Commands) /\ Asks(LoginCommands)
      /\ LoginCommands # <<>> /\ Head(LoginCommands).op = "HELLO"
  BY <1>4, <1>5, <1>6, AsksConcat
<1>8. net = [up |-> <<>>, down |-> <<>>] /\ ~presenced.hello
  BY DEF IInv, TypeOK, Connect, isOnline
<1>9. net' = [up |-> LoginCommands, down |-> <<>>]
  BY <1>8 DEF Connect
<1>10. /\ peers' \in [mLastScsn : BOOLEAN, mContacts : [Users -> Visibilities],
                       calls : Seq(Calls), exes : SUBSET Users]
       /\ peers'.mLastScsn = peers.mLastScsn /\ peers'.mContacts = peers.mContacts
  <2>1. ExContacts(peers.mContacts) \in SUBSET Users
    BY DEF ExContacts
  <2>2. /\ peers \in [mLastScsn : BOOLEAN, mContacts : [Users -> Visibilities],
                      calls : Seq(Calls), exes : SUBSET Users]
        /\ \/ peers' = [peers EXCEPT !.exes = ExContacts(peers.mContacts)]
           \/ peers' = peers
    BY DEF IInv, TypeOK, Connect
  <2>3. QED
    BY <2>1, <2>2
<1>11. TypeOK'
  BY ZenonT(30), <1>7, <1>9, <1>10 DEF IInv, TypeOK, Connect, Nobody
<1>12. HelloFirst' /\ LastWord'
  BY <1>7, <1>9 DEF HelloFirst, LastWord
<1>13. QED
  BY <1>11, <1>12 DEF IInv

LEMMA DisconnectKeeps ==
    ASSUME IInv, Disconnect
    PROVE  IInv'
<1>1. <<>> \in Seq(Commands) /\ <<>> \in Seq(Codes)
  OBVIOUS
<1>2. net' = [up |-> <<>>, down |-> <<>>] /\ mConnState' = "Offline"
  BY DEF Disconnect
<1>3. /\ presenced' \in [prefs : Codes, hello : BOOLEAN, active : BOOLEAN, peers : SUBSET Users]
      /\ ~presenced'.hello
  BY DEF Disconnect, IInv, TypeOK
<1>4. TypeOK'
  BY <1>1, <1>2, <1>3 DEF IInv, TypeOK, Disconnect, Nobody
<1>5. HelloFirst' /\ LastWord'
  BY <1>2, <1>3 DEF HelloFirst, LastWord, isOnline
<1>6. QED
  BY <1>4, <1>5 DEF IInv

\* What has no rest ends with its head.
LEMMA OnlyOne ==
    ASSUME NEW s \in Seq(Codes), s # <<>>, Tail(s) = <<>>
    PROVE  s[Len(s)] = Head(s)
<1>1. Tail(s) \in Seq(Codes) /\ Len(Tail(s)) = Len(s) - 1
  BY HeadTailProperties
<1>2. Len(Tail(s)) = 0 /\ Len(s) \in Nat
  BY <1>1, EmptySeq, LenProperties
<1>3. Len(s) = 1
  BY <1>1, <1>2, SMTT(30)
<1>4. QED
  BY <1>3

\* The preferences that presenced tells become those of the client.
LEMMA HandleMessageKeeps ==
    ASSUME IInv, HandleMessage
    PROVE  IInv'
<1> DEFINE code == Head(net.down)
<1>1. /\ net \in [up : Seq(Commands), down : Seq(Codes)] /\ net.down # <<>>
      /\ prefs.mConfig \in Configs /\ prefs.mPrefsAckWait \in BOOLEAN
      /\ activity \in [mLastSentUserActive : BOOLEAN, foreground : BOOLEAN]
  BY DEF IInv, TypeOK, HandleMessage
<1>2. code \in Codes /\ Tail(net.down) \in Seq(Codes)
  BY <1>1
<1>3. HandlePrefs(code)
  BY DEF HandleMessage
<1>4. isOnline /\ presenced.hello
  BY <1>1 DEF IInv, TypeOK, HelloFirst, isOnline
<1>. HIDE DEF code
<1>5. /\ prefs' \in [mConfig : Configs, mPrefsAckWait : BOOLEAN]
      /\ ToCode(prefs'.mConfig) = code /\ ~prefs'.mPrefsAckWait
  BY <1>1, <1>2, <1>3, CodeRoundTrip DEF HandlePrefs
<1>6. /\ net'.down = Tail(net.down)
      /\ net'.up \in Seq(Commands) /\ net' \in [up : Seq(Commands), down : Seq(Codes)]
      /\ Asks(net.up) => Asks(net'.up)
      /\ activity' \in [mLastSentUserActive : BOOLEAN, foreground : BOOLEAN]
  <2>1. CASE ~(~prefs.mPrefsAckWait /\ mConnState = "Connected" /\ AutoAwayInEffect(prefs'.mConfig))
    BY <1>1, <1>2, <1>3, <2>1 DEF HandlePrefs
  <2>2. CASE ~prefs.mPrefsAckWait /\ mConnState = "Connected" /\ AutoAwayInEffect(prefs'.mConfig)
    <3>1. PICK active \in {FALSE, activity.foreground} :
             /\ activity' = [activity EXCEPT !.mLastSentUserActive = active]
             /\ net' = [up |-> Append(net.up, [op |-> "USERACTIVE", on |-> active]),
                        down |-> Tail(net.down)]
      BY <1>1, <1>3, <2>2 DEF HandlePrefs
    <3>2. active \in BOOLEAN
      BY <1>1
    <3>3. [op |-> "USERACTIVE", on |-> active] \in Commands
      BY <3>2 DEF Commands
    <3>4. /\ <<[op |-> "USERACTIVE", on |-> active]>> \in Seq(Commands)
          /\ net'.up = net.up \o <<[op |-> "USERACTIVE", on |-> active]>>
      BY <1>1, <3>1, <3>3
    <3>5. net'.up \in Seq(Commands) /\ (Asks(net.up) => Asks(net'.up))
      BY <1>1, <3>4, AsksConcat
    <3>6. QED
      BY <1>1, <1>2, <3>1, <3>2, <3>5
  <2>3. QED
    BY <2>1, <2>2
<1>7. UNCHANGED <<peers, presenced, api, budget>> /\ mConnState' = "LoggedIn"
  BY DEF HandleMessage
<1>8. TypeOK'
  BY <1>4, <1>5, <1>6, <1>7 DEF IInv, TypeOK, Nobody
<1>9. HelloFirst'
  BY <1>4, <1>7 DEF HelloFirst
<1>10. LastWord'
  <2>1. CASE Asks(net.up)
    BY <1>6, <2>1 DEF LastWord
  <2>2. CASE net.down[Len(net.down)] = presenced.prefs
    <3>1. CASE Tail(net.down) = <<>>
      <4>1. net.down \in Seq(Codes)
        BY <1>1
      <4>2. code = presenced.prefs
        BY <1>1, <2>2, <3>1, <4>1, OnlyOne DEF code
      <4>3. QED
        BY <1>5, <1>6, <1>7, <3>1, <4>2 DEF LastWord
    <3>2. CASE Tail(net.down) # <<>>
      <4>1. Tail(net.down)[Len(Tail(net.down))] = net.down[Len(net.down)]
        BY <1>1, <3>2
      <4>2. QED
        BY <1>6, <1>7, <2>2, <3>2, <4>1 DEF LastWord
    <3>3. QED
      BY <3>1, <3>2
  <2>3. QED
    BY <1>1, <1>4, <2>1, <2>2 DEF IInv, LastWord
<1>11. QED
  BY <1>8, <1>9, <1>10 DEF IInv

-----------------------------------------------------------------------------
(* presenced, and the other clients *)

\* What presenced says of its preferences is the last that the client will hear.
LEMMA Said ==
    ASSUME NEW s \in Seq(Codes), NEW code \in Codes
    PROVE  /\ Append(s, code) \in Seq(Codes) /\ Append(s, code) # <<>>
           /\ Append(s, code)[Len(Append(s, code))] = code
OBVIOUS

LEMMA ServerKeeps ==
    ASSUME IInv, Server
    PROVE  IInv'
<1> DEFINE msg == Head(net.up)
<1>1. /\ net \in [up : Seq(Commands), down : Seq(Codes)] /\ net.up # <<>>
      /\ presenced \in [prefs : Codes, hello : BOOLEAN, active : BOOLEAN, peers : SUBSET Users]
  BY DEF IInv, TypeOK, Server
<1>2. msg \in Commands /\ Tail(net.up) \in Seq(Commands)
  BY <1>1
<1>3. isOnline
  BY <1>1 DEF IInv, TypeOK, isOnline
<1>4. UNCHANGED <<mConnState, prefs, activity, peers, api, budget>>
  BY DEF Server
<1>5. /\ presenced' = CASE msg.op = "HELLO" -> [presenced EXCEPT !.hello = TRUE]
                  [] msg.op = "PREFS" -> [presenced EXCEPT !.prefs = msg.code]
                  [] msg.op = "USERACTIVE" -> [presenced EXCEPT !.active = msg.on]
                  [] msg.op = "SETPEERS" -> [presenced EXCEPT !.peers = msg.users]
                  [] msg.op = "ADDPEERS" -> [presenced EXCEPT !.peers = @ \cup msg.users]
                  [] msg.op = "DELPEERS" -> [presenced EXCEPT !.peers = @ \ msg.users]
      /\ net' = [up |-> Tail(net.up),
                 down |-> IF msg.op \in {"HELLO", "PREFS"}
                          THEN Append(net.down, presenced'.prefs) ELSE net.down]
  BY DEF Server
<1>6. ~presenced.hello => msg.op = "HELLO"
  BY <1>3 DEF IInv, HelloFirst
<1>7. SUFFICES /\ presenced' \in [prefs : Codes, hello : BOOLEAN, active : BOOLEAN,
                                  peers : SUBSET Users]
               /\ presenced'.hello
               /\ net' \in [up : Seq(Commands), down : Seq(Codes)]
               /\ LastWord'
  BY <1>3, <1>4 DEF IInv, TypeOK, HelloFirst, isOnline, Nobody
<1>8. CASE msg.op \in {"HELLO", "PREFS"}
  <2>1. msg.op = "PREFS" => msg.code \in Codes
    BY <1>2 DEF Commands
  <2>. HIDE DEF msg
  <2>2. /\ presenced' \in [prefs : Codes, hello : BOOLEAN, active : BOOLEAN, peers : SUBSET Users]
        /\ presenced'.hello
    BY <1>1, <1>5, <1>6, <1>8, <2>1
  <2>3. net' = [up |-> Tail(net.up), down |-> Append(net.down, presenced'.prefs)]
    BY <1>5, <1>8
  <2>4. /\ Append(net.down, presenced'.prefs) \in Seq(Codes)
        /\ Append(net.down, presenced'.prefs) # <<>>
        /\ Append(net.down, presenced'.prefs)[Len(Append(net.down, presenced'.prefs))]
               = presenced'.prefs
    BY <1>1, <2>2, Said
  <2>5. QED
    BY <1>2, <2>2, <2>3, <2>4 DEF LastWord
<1>9. CASE msg.op \notin {"HELLO", "PREFS"}
  <2>1. /\ msg.op = "USERACTIVE" => msg.on \in BOOLEAN
        /\ msg.op \in {"SETPEERS", "ADDPEERS", "DELPEERS"} => msg.users \in SUBSET Users
        /\ msg.op \in {"USERACTIVE", "SETPEERS", "ADDPEERS", "DELPEERS"}
    BY <1>2, <1>9 DEF Commands
  <2>2. Asks(net.up) => Asks(Tail(net.up))
    BY <1>1, <1>9, AsksTail
  <2>. HIDE DEF msg
  <2>3. /\ presenced' \in [prefs : Codes, hello : BOOLEAN, active : BOOLEAN, peers : SUBSET Users]
        /\ presenced'.hello /\ presenced'.prefs = presenced.prefs
    BY <1>1, <1>5, <1>6, <1>9, <2>1
  <2>4. net' = [up |-> Tail(net.up), down |-> net.down]
    BY <1>5, <1>9
  <2>5. LastWord'
    BY <1>3, <1>4, <2>2, <2>3, <2>4 DEF IInv, LastWord, isOnline
  <2>6. QED
    BY <1>1, <1>2, <2>3, <2>4, <2>5
<1>10. QED
  BY <1>8, <1>9

LEMMA CodesType == AutoAwayCode \in Codes /\ BusyCode \in Codes
<1>1. 600 \in In11Bits
  BY SMT DEF In11Bits
<1>2. QED
  BY <1>1 DEF AutoAwayCode, BusyCode, Preferences, Codes, Presences

LEMMA ForeignKeeps ==
    ASSUME IInv, NEW code \in Codes, Foreign(code)
    PROVE  IInv'
<1>1. /\ net \in [up : Seq(Commands), down : Seq(Codes)]
      /\ presenced \in [prefs : Codes, hello : BOOLEAN, active : BOOLEAN, peers : SUBSET Users]
  BY DEF IInv, TypeOK
<1>2. /\ presenced' \in [prefs : Codes, hello : BOOLEAN, active : BOOLEAN, peers : SUBSET Users]
      /\ presenced'.hello = presenced.hello /\ presenced'.prefs = code
  BY <1>1 DEF Foreign
<1>3. UNCHANGED <<mConnState, prefs, activity, peers, api>>
  BY DEF Foreign
<1>4. CASE presenced.hello
  <2>1. net' = [up |-> net.up, down |-> Append(net.down, code)]
    BY <1>1, <1>4 DEF Foreign
  <2>2. /\ Append(net.down, code) \in Seq(Codes) /\ Append(net.down, code) # <<>>
        /\ Append(net.down, code)[Len(Append(net.down, code))] = code
    BY <1>1, Said
  <2>3. isOnline
    BY <1>4 DEF IInv, TypeOK, isOnline
  <2>4. TypeOK'
    BY <1>1, <1>2, <1>3, <1>4, <2>1, <2>2, <2>3 DEF IInv, TypeOK, isOnline, Nobody
  <2>5. HelloFirst' /\ LastWord'
    BY <1>2, <1>4, <2>1, <2>2 DEF HelloFirst, LastWord
  <2>6. QED
    BY <2>4, <2>5 DEF IInv
<1>5. CASE ~presenced.hello
  <2>1. net' = net
    BY <1>5 DEF Foreign
  <2>2. TypeOK'
    BY <1>2, <1>3, <1>5, <2>1 DEF IInv, TypeOK, Nobody
  <2>3. HelloFirst'
    BY <1>2, <1>3, <1>5, <2>1 DEF IInv, HelloFirst, isOnline
  <2>4. isOnline => Asks(net.up)
    <3>1. ASSUME isOnline PROVE 1 \in DOMAIN net.up /\ net.up[1].op = "HELLO"
      BY <1>1, <1>5, <3>1 DEF IInv, HelloFirst
    <3>2. QED
      BY <3>1 DEF Asks
  <2>5. LastWord'
    BY <1>3, <2>1, <2>4 DEF LastWord, isOnline
  <2>6. QED
    BY <2>2, <2>3, <2>5 DEF IInv
<1>6. QED
  BY <1>4, <1>5

-----------------------------------------------------------------------------
LEMMA InitIInv == Init => IInv
<1>1. 600 \in InSeconds
  BY InSecondsDef, SMT
<1>2. SUFFICES ASSUME Init PROVE IInv
  OBVIOUS
<1>3. prefs \in [mConfig : Configs, mPrefsAckWait : BOOLEAN]
  BY <1>1, <1>2 DEF Init, Preferences, Configs
<1>4. presenced \in [prefs : Codes, hello : BOOLEAN, active : BOOLEAN, peers : SUBSET Users]
  BY <1>2, CodesType DEF Init
<1>5. /\ net \in [up : Seq(Commands), down : Seq(Codes)] /\ peers.calls \in Seq(Calls)
      /\ net = [up |-> <<>>, down |-> <<>>]
  BY <1>2 DEF Init
<1>6. /\ peers \in [mLastScsn : BOOLEAN, mContacts : [Users -> Visibilities], calls : Seq(Calls), exes : SUBSET Users]
      /\ peers.mContacts = Nobody
  <2>1. /\ Nobody \in [Users -> Visibilities] /\ {} \in SUBSET Users
        /\ peers = [mLastScsn |-> FALSE, mContacts |-> Nobody, calls |-> <<>>, exes |-> {}]
    BY <1>2 DEF Init, Nobody, Visibilities
  <2>2. QED
    BY <1>5, <2>1
<1>7. api \in [contacts : [Users -> Visibilities], missed : SUBSET Users]
  BY <1>2 DEF Init, Visibilities
<1>8. /\ mConnState = "Offline" /\ ~presenced.hello
      /\ activity \in [mLastSentUserActive : BOOLEAN, foreground : BOOLEAN]
  BY <1>2 DEF Init
<1>9. TypeOK
  BY <1>3, <1>4, <1>5, <1>6, <1>7, <1>8 DEF TypeOK
<1>10. HelloFirst /\ LastWord
  BY <1>5, <1>8 DEF HelloFirst, LastWord, isOnline
<1>11. QED
  BY <1>9, <1>10 DEF IInv

LEMMA NextIInv == IInv /\ [Next]_vars => IInv'
<1> SUFFICES ASSUME IInv, [Next]_vars PROVE IInv'
  OBVIOUS
<1>1. CASE SetPrefs
  BY <1>1, SetPrefsKeeps
<1>2. CASE \E enable \in BOOLEAN, timeout \in Timeouts : SetAutoaway(enable, timeout)
  BY <1>2, SetAutoawayKeeps
<1>3. CASE \E active \in BOOLEAN : SignalActivity(active)
  BY <1>3, SignalActivityKeeps
<1>4. CASE NotifyUserStatus
  BY <1>4, NotifyUserStatusKeeps
<1>5. CASE OnEvent
  BY <1>5, OnEventKeeps
<1>6. CASE \E u \in Users, v \in Visibilities : ContactChanges(u, v)
  BY <1>6, ContactChangesKeeps
<1>7. CASE RunCall
  BY <1>7, RunCallKeeps
<1>8. CASE Connect
  BY <1>8, ConnectKeeps
<1>9. CASE Disconnect
  BY <1>9, DisconnectKeeps
<1>10. CASE HandleMessage
  BY <1>10, HandleMessageKeeps
<1>11. CASE Server
  BY <1>11, ServerKeeps
<1>12. CASE \E code \in {AutoAwayCode, BusyCode} : Foreign(code)
  BY <1>12, CodesType, ForeignKeeps
<1>13. CASE UNCHANGED vars
  BY <1>13 DEF vars, IInv, TypeOK, HelloFirst, LastWord, isOnline, Nobody
<1>14. QED
  BY <1>1, <1>2, <1>3, <1>4, <1>5, <1>6, <1>7, <1>8, <1>9, <1>10, <1>11, <1>12, <1>13 DEF Next

\* With nothing on its way, the last word of presenced has been taken.
LEMMA LastWordIsTaken == IInv => TypeOK /\ PrefsAgree
<1>1. ASSUME IInv, Settled
      PROVE  ToCode(prefs.mConfig) = presenced.prefs /\ ~prefs.mPrefsAckWait
  BY <1>1 DEF IInv, LastWord, Settled, isOnline, Asks
<1>2. QED
  BY <1>1 DEF IInv, PrefsAgree

\* The state of the presence client is well formed: in particular presenced hears HELLO before
\* it says anything, so that a client that has logged in is known to it.
THEOREM PresenceTyped == Spec => []TypeOK
<1>1. Init => IInv
  BY InitIInv
<1>2. IInv /\ [Next]_vars => IInv'
  BY NextIInv
<1>3. IInv => TypeOK
  BY LastWordIsTaken
<1>4. QED
  BY <1>1, <1>2, <1>3, PTL DEF Spec

\* For any contacts, any timeouts and any number of changes on either side, once nothing is on
\* its way the client has the preferences of presenced and waits for no acknowledgement
\* (OP_PREFS in handleMessage(), login()).
THEOREM PreferencesAgree == Spec => []PrefsAgree
<1>1. Init => IInv
  BY InitIInv
<1>2. IInv /\ [Next]_vars => IInv'
  BY NextIInv
<1>3. IInv => PrefsAgree
  BY LastWordIsTaken
<1>4. QED
  BY <1>1, <1>2, <1>3, PTL DEF Spec

-----------------------------------------------------------------------------
(* The contacts of the client.  A change of a contact reaches the client as a call of its loop,     *)
(* and presenced as a command; the last call, and the last command, about a user must be the one    *)
(* that says what is the case now.                                                                  *)

\* a call of the loop is about the user, and what it says
Concerns(call, u) == call.op = "nodes" \/ call.user = u
Says(call, u)     == IF call.op = "nodes" THEN call.contacts[u] ELSE call.visibility

LastAbout(calls, i, u) ==
    Concerns(calls[i], u) /\ \A j \in DOMAIN calls : j > i => ~Concerns(calls[j], u)

\* the contacts will have been loaded when this call runs
LoadedBy(p, i) == p.mLastScsn \/ \E h \in DOMAIN p.calls : h < i /\ p.calls[h].op = "nodes"

\* The last call about a user that waits says what the account says of the user, and will not be
\* ignored; with no such call the client has it already.
UpToDate(p, contacts, u) ==
    /\ \A i \in DOMAIN p.calls :
          LastAbout(p.calls, i, u) =>
              /\ Says(p.calls[i], u) = contacts[u]
              /\ p.calls[i].op = "users" => LoadedBy(p, i)
    /\ p.mLastScsn /\ (\A i \in DOMAIN p.calls : ~Concerns(p.calls[i], u)) =>
           (p.mContacts[u] = "visible" <=> contacts[u] = "visible")

AllUpToDate == \A u \in Users \ api.missed : UpToDate(peers, api.contacts, u)

\* A user whose account is closed does not come back, in no call and later ones.
NoReturn(p, contacts, u) ==
    /\ \A i \in DOMAIN p.calls :
          Concerns(p.calls[i], u) /\ Says(p.calls[i], u) = "inactive" =>
              /\ contacts[u] = "inactive"
              /\ \A j \in DOMAIN p.calls :
                    j > i /\ Concerns(p.calls[j], u) => Says(p.calls[j], u) = "inactive"
    /\ p.mContacts[u] = "inactive" =>
           /\ contacts[u] = "inactive"
           /\ \A j \in DOMAIN p.calls :
                 Concerns(p.calls[j], u) => Says(p.calls[j], u) = "inactive"

NobodyReturns == \A u \in Users : NoReturn(peers, api.contacts, u)

\* a command starts, or ends, the interest in a user
Gives(m, u) == m.op \in {"SETPEERS", "ADDPEERS"} /\ u \in m.users
Takes(m, u) == (m.op = "SETPEERS" /\ u \notin m.users) \/ (m.op = "DELPEERS" /\ u \in m.users)

\* presenced, which knows these users, will know this one when it has read what was sent, or will
\* not
WillKnow(up, known, u) ==
    \/ \E i \in DOMAIN up : Gives(up[i], u) /\ \A j \in DOMAIN up : j > i => ~Takes(up[j], u)
    \/ u \in known /\ \A j \in DOMAIN up : ~Takes(up[j], u)

WillNotKnow(up, known, u) ==
    \/ \E i \in DOMAIN up : Takes(up[i], u) /\ \A j \in DOMAIN up : j > i => ~Gives(up[j], u)
    \/ u \notin known /\ \A j \in DOMAIN up : ~Gives(up[j], u)

\* the contacts of the client, and the ex-contacts that were listed with them
Wanted(p, u) == p.mContacts[u] = "visible" \/ u \in p.exes

\* presenced will know those and nobody else; nobody is an ex-contact and a contact at once
Watches(p, up, known) ==
    p.mLastScsn =>
        \A u \in Users :
            /\ Wanted(p, u) => WillKnow(up, known, u)
            /\ ~Wanted(p, u) => WillNotKnow(up, known, u)
            /\ u \in p.exes => p.mContacts[u] # "visible"

Watched == isOnline => Watches(peers, net.up, presenced.peers)

ContactsInv == TypeOK /\ AllUpToDate /\ NobodyReturns /\ Watched

\* What takes nobody away does not disturb what is on its way.
LEMMA StillKnown ==
    ASSUME NEW s \in Seq(Commands), NEW t \in Seq(Commands), NEW known, NEW u,
           WillKnow(s, known, u), \A j \in DOMAIN t : ~Takes(t[j], u)
    PROVE  WillKnow(s \o t, known, u)
<1>1. /\ s \o t \in Seq(Commands) /\ Len(s \o t) = Len(s) + Len(t)
      /\ \A i \in 1 .. Len(s) + Len(t) : (s \o t)[i] = IF i <= Len(s) THEN s[i] ELSE t[i - Len(s)]
  BY ConcatProperties
<1>2. /\ Len(s) \in Nat /\ Len(t) \in Nat
      /\ DOMAIN s = 1 .. Len(s) /\ DOMAIN t = 1 .. Len(t)
      /\ DOMAIN (s \o t) = 1 .. Len(s) + Len(t)
  BY <1>1
<1>3. ASSUME NEW j \in DOMAIN (s \o t), Takes((s \o t)[j], u)
      PROVE  j \in DOMAIN s /\ (s \o t)[j] = s[j]
  <2>1. CASE j <= Len(s)
    BY <1>1, <1>2, <2>1
  <2>2. CASE ~(j <= Len(s))
    <3>1. j - Len(s) \in DOMAIN t /\ (s \o t)[j] = t[j - Len(s)]
      BY <1>1, <1>2, <2>2
    <3>2. QED
      BY <1>3, <3>1
  <2>3. QED
    BY <2>1, <2>2
<1>4. CASE \E i \in DOMAIN s : Gives(s[i], u) /\ \A j \in DOMAIN s : j > i => ~Takes(s[j], u)
  <2>1. PICK i \in DOMAIN s : Gives(s[i], u) /\ \A j \in DOMAIN s : j > i => ~Takes(s[j], u)
    BY <1>4
  <2>2. i \in DOMAIN (s \o t) /\ (s \o t)[i] = s[i]
    BY <1>1, <1>2, <2>1
  <2>3. \A j \in DOMAIN (s \o t) : j > i => ~Takes((s \o t)[j], u)
    BY <1>3, <2>1
  <2>4. QED
    BY <2>1, <2>2, <2>3 DEF WillKnow
<1>5. CASE u \in known /\ \A j \in DOMAIN s : ~Takes(s[j], u)
  BY <1>3, <1>5 DEF WillKnow
<1>6. QED
  BY <1>4, <1>5 DEF WillKnow

\* Who is named last is known.
LEMMA NowKnown ==
    ASSUME NEW s \in Seq(Commands), NEW m \in Commands, NEW known, NEW u, Gives(m, u)
    PROVE  WillKnow(s \o <<m>>, known, u)
<1>1. /\ s \o <<m>> \in Seq(Commands) /\ Len(s \o <<m>>) = Len(s) + 1
      /\ (s \o <<m>>)[Len(s) + 1] = m
  OBVIOUS
<1>2. Len(s) \in Nat /\ DOMAIN (s \o <<m>>) = 1 .. Len(s) + 1
  BY <1>1
<1>3. \A j \in DOMAIN (s \o <<m>>) : ~(j > Len(s) + 1)
  BY <1>2
<1>4. Len(s) + 1 \in DOMAIN (s \o <<m>>)
  BY <1>2
<1>5. QED
  BY <1>1, <1>3, <1>4 DEF WillKnow

\* presenced takes in one command.
LEMMA TailKnown ==
    ASSUME NEW s \in Seq(Commands), s # <<>>, NEW known, NEW now, NEW u, WillKnow(s, known, u),
           Gives(Head(s), u) => u \in now,
           u \in known /\ ~Takes(Head(s), u) => u \in now
    PROVE  WillKnow(Tail(s), now, u)
<1>1. /\ Len(s) \in Nat /\ Len(s) >= 1 /\ DOMAIN s = 1 .. Len(s) /\ Head(s) = s[1]
      /\ DOMAIN Tail(s) = 1 .. Len(s) - 1
  OBVIOUS
<1>2. \A j \in 1 .. Len(s) - 1 : Tail(s)[j] = s[j + 1]
  BY <1>1
<1>3. \A j \in DOMAIN Tail(s) : j + 1 \in DOMAIN s /\ j + 1 > 1 /\ Tail(s)[j] = s[j + 1]
  BY <1>1, <1>2
<1>4. CASE \E i \in DOMAIN s : Gives(s[i], u) /\ \A j \in DOMAIN s : j > i => ~Takes(s[j], u)
  <2>1. PICK i \in DOMAIN s : Gives(s[i], u) /\ \A j \in DOMAIN s : j > i => ~Takes(s[j], u)
    BY <1>4
  <2>2. CASE i = 1
    <3>1. \A j \in DOMAIN Tail(s) : ~Takes(Tail(s)[j], u)
      BY <1>3, <2>1, <2>2
    <3>2. u \in now
      BY <1>1, <2>1, <2>2
    <3>3. QED
      BY <3>1, <3>2 DEF WillKnow
  <2>3. CASE i # 1
    <3>1. i - 1 \in DOMAIN Tail(s) /\ Tail(s)[i - 1] = s[i]
      BY <1>1, <1>2, <2>1, <2>3
    <3>2. \A j \in DOMAIN Tail(s) : j > i - 1 => j + 1 > i
      BY <1>1, <2>1
    <3>3. \A j \in DOMAIN Tail(s) : j > i - 1 => ~Takes(Tail(s)[j], u)
      BY <1>3, <2>1, <3>2
    <3>4. QED
      BY <2>1, <3>1, <3>3 DEF WillKnow
  <2>4. QED
    BY <2>2, <2>3
<1>5. CASE u \in known /\ \A j \in DOMAIN s : ~Takes(s[j], u)
  <2>1. 1 \in DOMAIN s
    BY <1>1
  <2>2. u \in now
    BY <1>1, <1>5, <2>1
  <2>3. \A j \in DOMAIN Tail(s) : ~Takes(Tail(s)[j], u)
    BY <1>3, <1>5
  <2>4. QED
    BY <2>2, <2>3 DEF WillKnow
<1>6. QED
  BY <1>4, <1>5 DEF WillKnow

\* What brings nobody does not disturb what is on its way.
LEMMA StillNotKnown ==
    ASSUME NEW s \in Seq(Commands), NEW t \in Seq(Commands), NEW known, NEW u,
           WillNotKnow(s, known, u), \A j \in DOMAIN t : ~Gives(t[j], u)
    PROVE  WillNotKnow(s \o t, known, u)
<1>1. /\ s \o t \in Seq(Commands) /\ Len(s \o t) = Len(s) + Len(t)
      /\ \A i \in 1 .. Len(s) + Len(t) : (s \o t)[i] = IF i <= Len(s) THEN s[i] ELSE t[i - Len(s)]
  BY ConcatProperties
<1>2. /\ Len(s) \in Nat /\ Len(t) \in Nat
      /\ DOMAIN s = 1 .. Len(s) /\ DOMAIN t = 1 .. Len(t)
      /\ DOMAIN (s \o t) = 1 .. Len(s) + Len(t)
  BY <1>1
<1>3. ASSUME NEW j \in DOMAIN (s \o t), Gives((s \o t)[j], u)
      PROVE  j \in DOMAIN s /\ (s \o t)[j] = s[j]
  <2>1. CASE j <= Len(s)
    BY <1>1, <1>2, <2>1
  <2>2. CASE ~(j <= Len(s))
    <3>1. j - Len(s) \in DOMAIN t /\ (s \o t)[j] = t[j - Len(s)]
      BY <1>1, <1>2, <2>2
    <3>2. QED
      BY <1>3, <3>1
  <2>3. QED
    BY <2>1, <2>2
<1>4. CASE \E i \in DOMAIN s : Takes(s[i], u) /\ \A j \in DOMAIN s : j > i => ~Gives(s[j], u)
  <2>1. PICK i \in DOMAIN s : Takes(s[i], u) /\ \A j \in DOMAIN s : j > i => ~Gives(s[j], u)
    BY <1>4
  <2>2. i \in DOMAIN (s \o t) /\ (s \o t)[i] = s[i]
    BY <1>1, <1>2, <2>1
  <2>3. \A j \in DOMAIN (s \o t) : j > i => ~Gives((s \o t)[j], u)
    BY <1>3, <2>1
  <2>4. QED
    BY <2>1, <2>2, <2>3 DEF WillNotKnow
<1>5. CASE u \notin known /\ \A j \in DOMAIN s : ~Gives(s[j], u)
  BY <1>3, <1>5 DEF WillNotKnow
<1>6. QED
  BY <1>4, <1>5 DEF WillNotKnow

\* Who is left out last is not known.
LEMMA NowNotKnown ==
    ASSUME NEW s \in Seq(Commands), NEW m \in Commands, NEW known, NEW u, Takes(m, u)
    PROVE  WillNotKnow(s \o <<m>>, known, u)
<1>1. /\ s \o <<m>> \in Seq(Commands) /\ Len(s \o <<m>>) = Len(s) + 1
      /\ (s \o <<m>>)[Len(s) + 1] = m
  OBVIOUS
<1>2. Len(s) \in Nat /\ DOMAIN (s \o <<m>>) = 1 .. Len(s) + 1
  BY <1>1
<1>3. \A j \in DOMAIN (s \o <<m>>) : ~(j > Len(s) + 1)
  BY <1>2
<1>4. Len(s) + 1 \in DOMAIN (s \o <<m>>)
  BY <1>2
<1>5. QED
  BY <1>1, <1>3, <1>4 DEF WillNotKnow

\* The same for those whom it is not to know.
LEMMA TailNotKnown ==
    ASSUME NEW s \in Seq(Commands), s # <<>>, NEW known, NEW now, NEW u, WillNotKnow(s, known, u),
           Takes(Head(s), u) => u \notin now,
           u \notin known /\ ~Gives(Head(s), u) => u \notin now
    PROVE  WillNotKnow(Tail(s), now, u)
<1>1. /\ Len(s) \in Nat /\ Len(s) >= 1 /\ DOMAIN s = 1 .. Len(s) /\ Head(s) = s[1]
      /\ DOMAIN Tail(s) = 1 .. Len(s) - 1
  OBVIOUS
<1>2. \A j \in 1 .. Len(s) - 1 : Tail(s)[j] = s[j + 1]
  BY <1>1
<1>3. \A j \in DOMAIN Tail(s) : j + 1 \in DOMAIN s /\ j + 1 > 1 /\ Tail(s)[j] = s[j + 1]
  BY <1>1, <1>2
<1>4. CASE \E i \in DOMAIN s : Takes(s[i], u) /\ \A j \in DOMAIN s : j > i => ~Gives(s[j], u)
  <2>1. PICK i \in DOMAIN s : Takes(s[i], u) /\ \A j \in DOMAIN s : j > i => ~Gives(s[j], u)
    BY <1>4
  <2>2. CASE i = 1
    <3>1. \A j \in DOMAIN Tail(s) : ~Gives(Tail(s)[j], u)
      BY <1>3, <2>1, <2>2
    <3>2. u \notin now
      BY <1>1, <2>1, <2>2
    <3>3. QED
      BY <3>1, <3>2 DEF WillNotKnow
  <2>3. CASE i # 1
    <3>1. i - 1 \in DOMAIN Tail(s) /\ Tail(s)[i - 1] = s[i]
      BY <1>1, <1>2, <2>1, <2>3
    <3>2. \A j \in DOMAIN Tail(s) : j > i - 1 => j + 1 > i
      BY <1>1, <2>1
    <3>3. \A j \in DOMAIN Tail(s) : j > i - 1 => ~Gives(Tail(s)[j], u)
      BY <1>3, <2>1, <3>2
    <3>4. QED
      BY <2>1, <3>1, <3>3 DEF WillNotKnow
  <2>4. QED
    BY <2>2, <2>3
<1>5. CASE u \notin known /\ \A j \in DOMAIN s : ~Gives(s[j], u)
  <2>1. 1 \in DOMAIN s
    BY <1>1
  <2>2. u \notin now
    BY <1>1, <1>5, <2>1
  <2>3. \A j \in DOMAIN Tail(s) : ~Gives(Tail(s)[j], u)
    BY <1>3, <1>5
  <2>4. QED
    BY <2>2, <2>3 DEF WillNotKnow
<1>6. QED
  BY <1>4, <1>5 DEF WillNotKnow

\* What says nothing of users.
Neutral(t) == \A j \in DOMAIN t : t[j].op \notin {"SETPEERS", "ADDPEERS", "DELPEERS"}

LEMMA CallsUnchanged ==
    ASSUME AllUpToDate, NobodyReturns, UNCHANGED api, peers'.calls = peers.calls,
           peers'.mLastScsn = peers.mLastScsn, peers'.mContacts = peers.mContacts
    PROVE  AllUpToDate' /\ NobodyReturns'
BY DEF AllUpToDate, NobodyReturns, UpToDate, NoReturn, LoadedBy

LEMMA NeutralSent ==
    ASSUME NEW p, NEW known, NEW s \in Seq(Commands), NEW t \in Seq(Commands), Neutral(t),
           Watches(p, s, known)
    PROVE  Watches(p, s \o t, known)
<1>1. ASSUME p.mLastScsn, NEW u \in Users
      PROVE  /\ Wanted(p, u) => WillKnow(s \o t, known, u)
             /\ ~Wanted(p, u) => WillNotKnow(s \o t, known, u)
             /\ u \in p.exes => p.mContacts[u] # "visible"
  <2>1. /\ Wanted(p, u) => WillKnow(s, known, u)
        /\ ~Wanted(p, u) => WillNotKnow(s, known, u)
        /\ u \in p.exes => p.mContacts[u] # "visible"
    BY <1>1 DEF Watches
  <2>2. \A j \in DOMAIN t : ~Takes(t[j], u) /\ ~Gives(t[j], u)
    BY DEF Neutral, Takes, Gives
  <2>3. QED
    BY <2>1, <2>2, StillKnown, StillNotKnown
<1>2. QED
  BY <1>1 DEF Watches

\* The steps that change no contact, and send nothing of users.
LEMMA NeutralStep ==
    ASSUME ContactsInv, UNCHANGED <<peers, api>>, presenced'.peers = presenced.peers,
           isOnline' => isOnline, NEW t \in Seq(Commands), Neutral(t),
           isOnline => net'.up = net.up \o t
    PROVE  AllUpToDate' /\ NobodyReturns' /\ Watched'
<1>1. AllUpToDate' /\ NobodyReturns'
  BY CallsUnchanged DEF ContactsInv
<1>2. ASSUME isOnline' PROVE Watches(peers', net'.up, presenced'.peers)
  <2>1. Watches(peers, net.up, presenced.peers)
    BY <1>2 DEF ContactsInv, Watched
  <2>2. net.up \in Seq(Commands)
    BY DEF ContactsInv, TypeOK
  <2>3. Watches(peers, net.up \o t, presenced.peers)
    BY <2>1, <2>2, NeutralSent
  <2>4. QED
    BY <1>2, <2>3
<1>3. Watched'
  BY <1>2 DEF Watched
<1>4. QED
  BY <1>1, <1>3

\* The steps that change no contact, and send nothing.
LEMMA SilentStep ==
    ASSUME ContactsInv, UNCHANGED <<peers, api>>, presenced'.peers = presenced.peers,
           isOnline' => isOnline, net'.up = net.up
    PROVE  AllUpToDate' /\ NobodyReturns' /\ Watched'
<1>1. AllUpToDate' /\ NobodyReturns'
  BY CallsUnchanged DEF ContactsInv
<1>2. Watched'
  BY DEF ContactsInv, Watched
<1>3. QED
  BY <1>1, <1>2

LEMMA NeutralCommands ==
    /\ <<>> \in Seq(Commands) /\ Neutral(<<>>)
    /\ \A on \in BOOLEAN : /\ <<[op |-> "USERACTIVE", on |-> on]>> \in Seq(Commands)
                           /\ Neutral(<<[op |-> "USERACTIVE", on |-> on]>>)
    /\ \A config \in Configs : /\ <<Prefs(config)>> \in Seq(Commands)
                               /\ Neutral(<<Prefs(config)>>)
<1>1. <<>> \in Seq(Commands) /\ Neutral(<<>>)
  BY DEF Neutral
<1>2. ASSUME NEW on \in BOOLEAN
      PROVE  /\ <<[op |-> "USERACTIVE", on |-> on]>> \in Seq(Commands)
             /\ Neutral(<<[op |-> "USERACTIVE", on |-> on]>>)
  <2>1. [op |-> "USERACTIVE", on |-> on] \in Commands
    BY DEF Commands
  <2>2. Neutral(<<[op |-> "USERACTIVE", on |-> on]>>)
    BY DEF Neutral
  <2>3. QED
    BY <2>1, <2>2
<1>3. ASSUME NEW config \in Configs
      PROVE  <<Prefs(config)>> \in Seq(Commands) /\ Neutral(<<Prefs(config)>>)
  <2>1. Prefs(config) \in Commands
    BY ToCodeType DEF Prefs, Commands
  <2>2. Neutral(<<Prefs(config)>>)
    BY DEF Neutral, Prefs
  <2>3. QED
    BY <2>1, <2>2
<1>4. QED
  BY <1>1, <1>2, <1>3

LEMMA SentNeutral ==
    ASSUME ContactsInv, UNCHANGED <<mConnState, peers, presenced, api>>,
           NEW t \in Seq(Commands), Neutral(t), Sent(t)
    PROVE  AllUpToDate' /\ NobodyReturns' /\ Watched'
<1>1. isOnline' => isOnline
  BY DEF isOnline
<1>2. net \in [up : Seq(Commands), down : Seq(Codes)]
  BY DEF ContactsInv, TypeOK
<1>3. isOnline => net'.up = net.up \o t
  BY <1>2 DEF Sent
<1>4. QED
  BY <1>1, <1>3, NeutralStep

\* Preferences and activity.
LEMMA ConfigsOfTheUser ==
    ASSUME TypeOK
    PROVE  /\ SetPrefs => \E config \in Configs : SendPrefs(config)
           /\ \A enable \in BOOLEAN, timeout \in Timeouts :
                 SetAutoaway(enable, timeout) => \E config \in Configs : SendPrefs(config)
<1>1. prefs.mConfig \in Configs
  BY DEF TypeOK
<1>2. ASSUME SetPrefs PROVE \E config \in Configs : SendPrefs(config)
  <2>1. ASSUME NEW pres \in {"online", "busy"}
        PROVE  [prefs.mConfig EXCEPT !.mPresence = pres] \in Configs
    BY <1>1 DEF Configs, Presences
  <2>2. [prefs.mConfig EXCEPT !.mPersist = ~@] \in Configs
    BY <1>1 DEF Configs
  <2>3. [prefs.mConfig EXCEPT !.mLastGreenVisible = ~@] \in Configs
    BY <1>1 DEF Configs
  <2>4. QED
    BY <1>2, <2>1, <2>2, <2>3 DEF SetPrefs
<1>3. ASSUME NEW enable \in BOOLEAN, NEW timeout \in Timeouts, SetAutoaway(enable, timeout)
      PROVE  \E config \in Configs : SendPrefs(config)
  <2> DEFINE new == [prefs.mConfig EXCEPT !.mAutoawayActive = enable, !.mAutoawayTimeout = timeout]
             set == [new EXCEPT !.mPersist = FALSE, !.mPresence = "online"]
  <2>1. timeout \in InSeconds
    BY PresenceAssumption DEF InSeconds
  <2>2. new \in Configs
    BY <1>1, <2>1 DEF Configs
  <2>3. set \in Configs
    BY <2>2 DEF Configs, Presences
  <2>4. SendPrefs(IF enable THEN set ELSE new)
    BY <1>3 DEF SetAutoaway
  <2>. HIDE DEF new, set
  <2>5. QED
    BY <2>2, <2>3, <2>4
<1>4. QED
  BY <1>2, <1>3

LEMMA PrefsSent ==
    ASSUME ContactsInv, UNCHANGED <<mConnState, peers, presenced, api>>,
           NEW config \in Configs, SendPrefs(config)
    PROVE  AllUpToDate' /\ NobodyReturns' /\ Watched'
<1>1. Sent(<<Prefs(config)>>)
  BY DEF SendPrefs
<1>2. <<Prefs(config)>> \in Seq(Commands) /\ Neutral(<<Prefs(config)>>)
  BY NeutralCommands
<1>3. QED
  BY <1>1, <1>2, SentNeutral

LEMMA ActivitySent ==
    ASSUME ContactsInv, UNCHANGED <<mConnState, peers, presenced, api>>,
           NEW a, NEW active \in BOOLEAN, SendUserActive(a, active, FALSE)
    PROVE  AllUpToDate' /\ NobodyReturns' /\ Watched'
<1>1. \/ Sent(<<[op |-> "USERACTIVE", on |-> active]>>)
      \/ Sent(<<>>)
  BY DEF SendUserActive
<1>2. QED
  BY <1>1, NeutralCommands, SentNeutral

LEMMA PreferencesNeutral ==
    ASSUME ContactsInv,
           \/ SetPrefs
           \/ \E enable \in BOOLEAN, timeout \in Timeouts : SetAutoaway(enable, timeout)
    PROVE  AllUpToDate' /\ NobodyReturns' /\ Watched'
<1>1. \E config \in Configs : SendPrefs(config)
  BY ConfigsOfTheUser DEF ContactsInv
<1>2. UNCHANGED <<mConnState, peers, presenced, api>>
  BY ZenonT(30) DEF SetPrefs, SetAutoaway
<1>3. QED
  BY <1>1, <1>2, PrefsSent

LEMMA ActivityNeutral ==
    ASSUME ContactsInv, (\E active \in BOOLEAN : SignalActivity(active)) \/ NotifyUserStatus
    PROVE  AllUpToDate' /\ NobodyReturns' /\ Watched'
<1>1. CASE \E active \in BOOLEAN : SignalActivity(active)
  BY <1>1, ActivitySent DEF SignalActivity
<1>2. CASE NotifyUserStatus
  <2> DEFINE moved == [activity EXCEPT !.foreground = ~@]
  <2>1. moved.foreground \in BOOLEAN
    BY DEF ContactsInv, TypeOK
  <2>2. UNCHANGED <<mConnState, peers, presenced, api>>
    BY <1>2 DEF NotifyUserStatus
  <2>3. SendUserActive(moved, moved.foreground, FALSE) \/ UNCHANGED net
    BY <1>2 DEF NotifyUserStatus
  <2>. HIDE DEF moved
  <2>4. CASE SendUserActive(moved, moved.foreground, FALSE)
    BY <2>1, <2>2, <2>4, ActivitySent
  <2>5. CASE UNCHANGED net
    BY <2>2, <2>5, SilentStep DEF isOnline
  <2>6. QED
    BY <2>3, <2>4, <2>5
<1>3. QED
  BY <1>1, <1>2

\* A list of the contacts and the ex-contacts settles whom presenced is to watch.
LEMMA Listed ==
    ASSUME NEW p, NEW known, NEW s \in Seq(Commands), p.exes = ExContacts(p.mContacts)
    PROVE  Watches(p, s \o PushPeers(p.mContacts), known)
<1> DEFINE users == {u \in Users : p.mContacts[u] # "none"}
           push  == [op |-> "SETPEERS", users |-> users]
<1>1. PushPeers(p.mContacts) = <<push>>
  BY DEF PushPeers
<1>2. push \in Commands
  <2>1. users \in SUBSET Users
    OBVIOUS
  <2>. HIDE DEF users
  <2>2. QED
    BY <2>1 DEF Commands
<1>3. ASSUME NEW u \in Users
      PROVE  (Wanted(p, u) <=> u \in users) /\ (u \in p.exes => p.mContacts[u] # "visible")
  BY DEF Wanted, ExContacts
<1>. HIDE DEF users
<1>4. ASSUME NEW u \in Users
      PROVE  /\ Wanted(p, u) => WillKnow(s \o <<push>>, known, u)
             /\ ~Wanted(p, u) => WillNotKnow(s \o <<push>>, known, u)
  <2>1. (u \in users => Gives(push, u)) /\ (u \notin users => Takes(push, u))
    BY DEF Gives, Takes
  <2>. HIDE DEF push
  <2>2. QED
    BY <1>2, <1>3, <2>1, NowKnown, NowNotKnown
<1>5. QED
  BY <1>1, <1>3, <1>4 DEF Watches

\* The connection.
LEMMA LoginTellsUsers ==
    ASSUME ContactsInv, Connect
    PROVE  AllUpToDate' /\ NobodyReturns' /\ Watched'
<1> DEFINE hello == <<[op |-> "HELLO"]>>
           own   == IF prefs.mPrefsAckWait THEN <<Prefs(prefs.mConfig)>> ELSE <<>>
<1>1. /\ UNCHANGED <<presenced, api>> /\ net'.up = LoginCommands
      /\ peers'.calls = peers.calls /\ peers'.mLastScsn = peers.mLastScsn
      /\ peers'.mContacts = peers.mContacts
      /\ peers.mLastScsn => peers'.exes = ExContacts(peers.mContacts)
  BY DEF Connect, ContactsInv, TypeOK
<1>2. AllUpToDate' /\ NobodyReturns'
  BY <1>1, CallsUnchanged DEF ContactsInv
<1>3. [op |-> "HELLO"] \in Commands
  BY DEF Commands
<1>4. hello \in Seq(Commands)
  BY <1>3
<1>5. own \in Seq(Commands)
  <2>1. prefs.mConfig \in Configs
    BY DEF ContactsInv, TypeOK
  <2>2. QED
    BY <2>1, NeutralCommands
<1>6. ASSUME peers.mLastScsn PROVE Watches(peers', net'.up, presenced'.peers)
  <2>1. LoginCommands = (hello \o own) \o PushPeers(peers.mContacts)
    BY <1>6, ZenonT(30) DEF LoginCommands
  <2>. HIDE DEF hello, own
  <2>2. hello \o own \in Seq(Commands)
    BY <1>4, <1>5, ConcatProperties
  <2>3. peers'.exes = ExContacts(peers'.mContacts)
    BY <1>1, <1>6
  <2>4. Watches(peers', (hello \o own) \o PushPeers(peers'.mContacts), presenced.peers)
    BY <2>2, <2>3, Listed
  <2>5. QED
    BY <1>1, <2>1, <2>4
<1>7. Watched'
  BY <1>1, <1>6 DEF Watched, Watches
<1>8. QED
  BY <1>2, <1>7

LEMMA LostConnection ==
    ASSUME ContactsInv, Disconnect
    PROVE  AllUpToDate' /\ NobodyReturns' /\ Watched'
<1>1. UNCHANGED <<peers, api>> /\ ~isOnline'
  BY DEF Disconnect, isOnline
<1>2. AllUpToDate' /\ NobodyReturns'
  BY <1>1, CallsUnchanged DEF ContactsInv
<1>3. Watched'
  BY <1>1 DEF Watched
<1>4. QED
  BY <1>2, <1>3

LEMMA PreferencesHeard ==
    ASSUME ContactsInv, HandleMessage
    PROVE  AllUpToDate' /\ NobodyReturns' /\ Watched'
<1>1. /\ net \in [up : Seq(Commands), down : Seq(Codes)] /\ net.down # <<>>
      /\ activity.foreground \in BOOLEAN
  BY DEF ContactsInv, TypeOK, HandleMessage
<1>2. isOnline /\ UNCHANGED <<peers, presenced, api>>
  BY <1>1 DEF ContactsInv, TypeOK, isOnline, HandleMessage
<1>3. HandlePrefs(Head(net.down))
  BY DEF HandleMessage
<1>4. \/ net'.up = net.up
      \/ \E active \in BOOLEAN : net'.up = Append(net.up, [op |-> "USERACTIVE", on |-> active])
  BY <1>1, <1>3 DEF HandlePrefs
<1>5. CASE net'.up = net.up
  BY <1>2, <1>5, SilentStep
<1>6. ASSUME NEW active \in BOOLEAN, net'.up = Append(net.up, [op |-> "USERACTIVE", on |-> active])
      PROVE  AllUpToDate' /\ NobodyReturns' /\ Watched'
  <2> DEFINE t == <<[op |-> "USERACTIVE", on |-> active]>>
  <2>1. t \in Seq(Commands) /\ Neutral(t)
    BY NeutralCommands
  <2>2. [op |-> "USERACTIVE", on |-> active] \in Commands
    BY DEF Commands
  <2>3. net.up \in Seq(Commands)
    BY <1>1
  <2>4. net'.up = net.up \o t
    BY <1>6, <2>2, <2>3, AppendIsConcat
  <2>. HIDE DEF t
  <2>5. QED
    BY <1>2, <2>1, <2>4, NeutralStep
<1>7. QED
  BY <1>4, <1>5, <1>6

LEMMA CommandRead ==
    ASSUME ContactsInv, Server
    PROVE  AllUpToDate' /\ NobodyReturns' /\ Watched'
<1> DEFINE msg == Head(net.up)
<1>1. /\ net \in [up : Seq(Commands), down : Seq(Codes)] /\ net.up # <<>>
      /\ presenced \in [prefs : Codes, hello : BOOLEAN, active : BOOLEAN, peers : SUBSET Users]
  BY DEF ContactsInv, TypeOK, Server
<1>2. msg \in Commands
  BY <1>1
<1>3. UNCHANGED <<mConnState, peers, api>> /\ net'.up = Tail(net.up)
  BY DEF Server
<1>4. presenced' = CASE msg.op = "HELLO" -> [presenced EXCEPT !.hello = TRUE]
                  [] msg.op = "PREFS" -> [presenced EXCEPT !.prefs = msg.code]
                  [] msg.op = "USERACTIVE" -> [presenced EXCEPT !.active = msg.on]
                  [] msg.op = "SETPEERS" -> [presenced EXCEPT !.peers = msg.users]
                  [] msg.op = "ADDPEERS" -> [presenced EXCEPT !.peers = @ \cup msg.users]
                  [] msg.op = "DELPEERS" -> [presenced EXCEPT !.peers = @ \ msg.users]
  BY DEF Server
<1>5. msg.op \in {"HELLO", "PREFS", "USERACTIVE", "SETPEERS", "ADDPEERS", "DELPEERS"}
  BY <1>2 DEF Commands
<1>6. AllUpToDate' /\ NobodyReturns'
  BY <1>3, CallsUnchanged DEF ContactsInv
<1>7. ASSUME isOnline', peers.mLastScsn, NEW u \in Users
      PROVE  /\ Wanted(peers, u) => WillKnow(net'.up, presenced'.peers, u)
             /\ ~Wanted(peers, u) => WillNotKnow(net'.up, presenced'.peers, u)
             /\ u \in peers.exes => peers.mContacts[u] # "visible"
  <2>1. /\ Wanted(peers, u) => WillKnow(net.up, presenced.peers, u)
        /\ ~Wanted(peers, u) => WillNotKnow(net.up, presenced.peers, u)
        /\ u \in peers.exes => peers.mContacts[u] # "visible"
    BY <1>3, <1>7 DEF ContactsInv, Watched, Watches, isOnline
  <2>. HIDE DEF msg
  <2>2. /\ Gives(msg, u) => u \in presenced'.peers
        /\ Takes(msg, u) => u \notin presenced'.peers
    BY <1>1, <1>4 DEF Gives, Takes
  <2>3. /\ u \in presenced.peers /\ ~Takes(msg, u) => u \in presenced'.peers
        /\ u \notin presenced.peers /\ ~Gives(msg, u) => u \notin presenced'.peers
    BY <1>1, <1>4, <1>5 DEF Takes, Gives
  <2>4. net.up \in Seq(Commands)
    BY <1>1
  <2>5. WillKnow(net.up, presenced.peers, u) => WillKnow(Tail(net.up), presenced'.peers, u)
    BY <1>1, <2>2, <2>3, <2>4, TailKnown DEF msg
  <2>6. WillNotKnow(net.up, presenced.peers, u) => WillNotKnow(Tail(net.up), presenced'.peers, u)
    BY <1>1, <2>2, <2>3, <2>4, TailNotKnown DEF msg
  <2>7. QED
    BY <1>3, <2>1, <2>5, <2>6
<1>8. Watched'
  BY <1>3, <1>7 DEF Watched, Watches
<1>9. QED
  BY <1>6, <1>8

LEMMA OtherClient ==
    ASSUME ContactsInv, NEW code, Foreign(code)
    PROVE  AllUpToDate' /\ NobodyReturns' /\ Watched'
<1>1. UNCHANGED <<peers, api>> /\ net'.up = net.up
  BY DEF Foreign, ContactsInv, TypeOK
<1>2. presenced'.peers = presenced.peers
  BY DEF Foreign, ContactsInv, TypeOK
<1>3. isOnline' => isOnline
  BY DEF Foreign, isOnline
<1>4. QED
  BY <1>1, <1>2, <1>3, SilentStep

\* The queue of the loop: a call comes last, and the first one leaves.
LEMMA CallQueued ==
    ASSUME NEW calls \in Seq(Calls), NEW call \in Calls
    PROVE  /\ Len(calls) \in Nat
           /\ \A i \in DOMAIN Append(calls, call) :
                 \/ i = Len(calls) + 1
                 \/ i \in DOMAIN calls /\ i < Len(calls) + 1
           /\ Len(calls) + 1 \in DOMAIN Append(calls, call)
           /\ Append(calls, call)[Len(calls) + 1] = call
           /\ \A i \in DOMAIN calls : /\ i \in DOMAIN Append(calls, call)
                                      /\ i \in Nat /\ i < Len(calls) + 1
                                      /\ Append(calls, call)[i] = calls[i]
<1>1. /\ Len(calls) \in Nat /\ DOMAIN calls = 1 .. Len(calls)
      /\ Append(calls, call) \in Seq(Calls) /\ Len(Append(calls, call)) = Len(calls) + 1
      /\ Append(calls, call)[Len(calls) + 1] = call
      /\ \A i \in 1 .. Len(calls) : Append(calls, call)[i] = calls[i]
  BY AppendProperties
<1>2. DOMAIN Append(calls, call) = 1 .. Len(calls) + 1
  BY <1>1
<1>3. QED
  BY <1>1, <1>2

LEMMA CallLeaves ==
    ASSUME NEW calls \in Seq(Calls), calls # <<>>
    PROVE  /\ 1 \in DOMAIN calls /\ calls[1] = Head(calls)
           /\ \A i \in DOMAIN Tail(calls) :
                 i \in Nat /\ i >= 1 /\ i + 1 \in DOMAIN calls /\ Tail(calls)[i] = calls[i + 1]
           /\ \A i \in DOMAIN calls :
                 i \in Nat /\ (i = 1 \/ (i > 1 /\ i - 1 \in DOMAIN Tail(calls)
                                              /\ Tail(calls)[i - 1] = calls[i]))
<1>1. /\ Len(calls) \in Nat /\ Len(calls) >= 1 /\ DOMAIN calls = 1 .. Len(calls)
      /\ Head(calls) = calls[1] /\ DOMAIN Tail(calls) = 1 .. Len(calls) - 1
  OBVIOUS
<1>2. \A i \in 1 .. Len(calls) - 1 : Tail(calls)[i] = calls[i + 1]
  BY <1>1
<1>3. QED
  BY <1>1, <1>2

\* The account is loaded: whatever waited before, this call is the last about everyone.
LEMMA AccountLoaded ==
    ASSUME ContactsInv, OnEvent
    PROVE  AllUpToDate' /\ NobodyReturns' /\ Watched'
<1> DEFINE calls == peers.calls
           call  == [op |-> "nodes", contacts |-> api.contacts]
           now   == Append(calls, call)
<1>1. calls \in Seq(Calls) /\ call \in Calls
  BY DEF ContactsInv, TypeOK, Calls
<1>2. /\ peers'.mLastScsn = FALSE /\ peers'.mContacts = Nobody /\ peers'.calls = now
      /\ api'.contacts = api.contacts
  BY DEF OnEvent, ContactsInv, TypeOK
<1>3. \A u \in Users : Concerns(call, u) /\ Says(call, u) = api.contacts[u] /\ call.op = "nodes"
  BY DEF Concerns, Says
<1>4. \A u \in Users : NoReturn(peers, api.contacts, u)
  BY ZenonT(30) DEF ContactsInv, NobodyReturns
<1>. HIDE DEF calls, call
<1>5. /\ Len(calls) \in Nat
      /\ \A i \in DOMAIN now : i = Len(calls) + 1 \/ (i \in DOMAIN calls /\ i < Len(calls) + 1)
      /\ Len(calls) + 1 \in DOMAIN now /\ now[Len(calls) + 1] = call
      /\ \A i \in DOMAIN calls :
            i \in DOMAIN now /\ i \in Nat /\ i < Len(calls) + 1 /\ now[i] = calls[i]
  BY <1>1, CallQueued
<1>. HIDE DEF now
<1>6. ASSUME NEW u \in Users PROVE UpToDate(peers', api'.contacts, u)
  <2>1. \A i \in DOMAIN now : LastAbout(now, i, u) => i = Len(calls) + 1
    BY <1>3, <1>5 DEF LastAbout
  <2>2. QED
    BY <1>2, <1>3, <1>5, <2>1 DEF UpToDate
<1>7. ASSUME NEW u \in Users PROVE NoReturn(peers', api'.contacts, u)
  <2>1. ASSUME NEW i \in DOMAIN now, Concerns(now[i], u), Says(now[i], u) = "inactive"
        PROVE  /\ api.contacts[u] = "inactive"
               /\ \A j \in DOMAIN now :
                     j > i /\ Concerns(now[j], u) => Says(now[j], u) = "inactive"
    <3>1. CASE i = Len(calls) + 1
      <4>1. api.contacts[u] = "inactive"
        BY <1>3, <1>5, <2>1, <3>1
      <4>2. \A j \in DOMAIN now : ~(j > i)
        BY <1>5, <3>1
      <4>3. QED
        BY <4>1, <4>2
    <3>2. CASE i \in DOMAIN calls
      <4>1. Concerns(calls[i], u) /\ Says(calls[i], u) = "inactive"
        BY <1>5, <2>1, <3>2
      <4>2. /\ api.contacts[u] = "inactive"
            /\ \A j \in DOMAIN calls :
                  j > i /\ Concerns(calls[j], u) => Says(calls[j], u) = "inactive"
        BY <1>4, <3>2, <4>1 DEF NoReturn, calls
      <4>3. QED
        BY <1>3, <1>5, <4>2
    <3>3. QED
      BY <1>5, <3>1, <3>2
  <2>2. peers'.mContacts[u] # "inactive"
    BY <1>2 DEF Nobody
  <2>3. QED
    BY <1>2, <2>1, <2>2 DEF NoReturn
<1>8. AllUpToDate' /\ NobodyReturns'
  BY <1>6, <1>7 DEF AllUpToDate, NobodyReturns
<1>9. Watched'
  BY <1>2 DEF Watched, Watches
<1>10. QED
  BY <1>8, <1>9

\* A contact changes: the call says what is now the case, unless the account is being loaded.
LEMMA ContactChanged ==
    ASSUME ContactsInv, NEW x \in Users, NEW v \in Visibilities, ContactChanges(x, v)
    PROVE  AllUpToDate' /\ NobodyReturns' /\ Watched'
<1> DEFINE calls == peers.calls
           call  == [op |-> "users", user |-> x, visibility |-> v]
           now   == Append(calls, call)
<1>1. calls \in Seq(Calls) /\ call \in Calls
  <2>1. v # "none"
    BY DEF ContactChanges
  <2>2. QED
    BY <2>1 DEF ContactsInv, TypeOK, Calls
<1>2. /\ api.contacts[x] # "inactive"
      /\ api' = [contacts |-> [api.contacts EXCEPT ![x] = v],
                 missed |-> IF peers.mLastScsn THEN api.missed ELSE api.missed \cup {x}]
      /\ UNCHANGED <<mConnState, presenced, net>>
  BY DEF ContactChanges
<1>3. /\ api'.contacts[x] = v
      /\ \A u \in Users \ {x} : api'.contacts[u] = api.contacts[u]
  BY <1>2 DEF ContactsInv, TypeOK
<1>4. /\ \A u \in Users \ api.missed : UpToDate(peers, api.contacts, u)
      /\ \A u \in Users : NoReturn(peers, api.contacts, u)
  BY DEF ContactsInv, AllUpToDate, NobodyReturns
<1>5. CASE ~peers.mLastScsn
  <2>1. peers' = peers /\ api'.missed = api.missed \cup {x}
    BY <1>2, <1>5 DEF ContactChanges
  <2>2. ASSUME NEW u \in Users \ {x}, UpToDate(peers, api.contacts, u)
        PROVE  UpToDate(peers', api'.contacts, u)
    BY <1>3, <2>1, <2>2 DEF UpToDate
  <2>3. AllUpToDate'
    BY <1>4, <2>1, <2>2 DEF AllUpToDate
  <2>4. ASSUME NEW u \in Users PROVE NoReturn(peers', api'.contacts, u)
    <3>1. NoReturn(peers, api.contacts, u)
      BY <1>4
    <3>2. CASE u = x
      BY <1>2, <2>1, <3>1, <3>2 DEF NoReturn
    <3>3. CASE u # x
      <4>1. api'.contacts[u] = api.contacts[u]
        BY <1>3, <3>3
      <4>2. QED
        BY <2>1, <3>1, <4>1 DEF NoReturn
    <3>4. QED
      BY <3>2, <3>3
  <2>5. NobodyReturns'
    BY <2>4 DEF NobodyReturns
  <2>6. Watched'
    BY <1>2, <2>1 DEF ContactsInv, Watched, isOnline
  <2>7. QED
    BY <2>3, <2>5, <2>6
<1>6. CASE peers.mLastScsn
  <2>1. /\ api'.missed = api.missed
        /\ peers'.calls = now /\ peers'.mLastScsn /\ peers'.mContacts = peers.mContacts
        /\ peers'.exes = peers.exes
    BY <1>2, <1>6 DEF ContactChanges, ContactsInv, TypeOK
  <2>2. /\ \A u \in Users : Concerns(call, u) <=> u = x
        /\ Says(call, x) = v /\ call.op = "users"
    BY DEF Concerns, Says
  <2>. HIDE DEF calls, call
  <2>3. /\ Len(calls) \in Nat
        /\ \A i \in DOMAIN now : i = Len(calls) + 1 \/ (i \in DOMAIN calls /\ i < Len(calls) + 1)
        /\ Len(calls) + 1 \in DOMAIN now /\ now[Len(calls) + 1] = call
        /\ \A i \in DOMAIN calls :
              i \in DOMAIN now /\ i \in Nat /\ i < Len(calls) + 1 /\ now[i] = calls[i]
    BY <1>1, CallQueued
  <2>. HIDE DEF now
  <2>4. ASSUME NEW u \in Users \ api.missed PROVE UpToDate(peers', api'.contacts, u)
    <3>1. CASE u = x
      <4>1. \A i \in DOMAIN now : LastAbout(now, i, u) => i = Len(calls) + 1
        BY <2>2, <2>3, <3>1 DEF LastAbout
      <4>2. QED
        BY <1>3, <2>1, <2>2, <2>3, <3>1, <4>1 DEF UpToDate, LoadedBy
    <3>2. CASE u # x
      <4>1. UpToDate(peers, api.contacts, u) /\ api'.contacts[u] = api.contacts[u]
        BY <1>3, <1>4, <3>2
      <4>2. \A i \in DOMAIN now : LastAbout(now, i, u) =>
                i \in DOMAIN calls /\ LastAbout(calls, i, u) /\ now[i] = calls[i]
        BY <2>2, <2>3, <3>2 DEF LastAbout
      <4>3. (\A i \in DOMAIN now : ~Concerns(now[i], u)) =>
                \A i \in DOMAIN calls : ~Concerns(calls[i], u)
        BY <2>3
      <4>4. QED
        BY <1>6, <2>1, <4>1, <4>2, <4>3 DEF UpToDate, LoadedBy, calls
    <3>3. QED
      BY <3>1, <3>2
  <2>5. ASSUME NEW u \in Users PROVE NoReturn(peers', api'.contacts, u)
    <3>1. NoReturn(peers, api.contacts, u)
      BY <1>4
    <3>2. CASE u = x
      <4>1. /\ \A i \in DOMAIN calls : Concerns(calls[i], u) => Says(calls[i], u) # "inactive"
            /\ peers.mContacts[u] # "inactive"
        BY <1>2, <3>1, <3>2 DEF NoReturn, calls
      <4>2. \A i \in DOMAIN now : Concerns(now[i], u) /\ Says(now[i], u) = "inactive" =>
                i = Len(calls) + 1 /\ v = "inactive"
        BY <2>2, <2>3, <3>2, <4>1
      <4>3. \A j \in DOMAIN now : ~(j > Len(calls) + 1)
        BY <2>3
      <4>4. QED
        BY <1>3, <2>1, <3>2, <4>1, <4>2, <4>3 DEF NoReturn
    <3>3. CASE u # x
      <4>1. api'.contacts[u] = api.contacts[u] /\ ~Concerns(call, u)
        BY <1>3, <2>2, <3>3
      <4>2. \A i \in DOMAIN now : Concerns(now[i], u) => i \in DOMAIN calls /\ now[i] = calls[i]
        BY <2>3, <4>1
      <4>3. QED
        BY <2>1, <3>1, <4>1, <4>2 DEF NoReturn, calls
    <3>4. QED
      BY <3>2, <3>3
  <2>6. AllUpToDate' /\ NobodyReturns'
    BY <2>1, <2>4, <2>5 DEF AllUpToDate, NobodyReturns
  <2>7. Watched'
    BY <1>2, <1>6, <2>1 DEF ContactsInv, Watched, Watches, Wanted, isOnline
  <2>8. QED
    BY <2>6, <2>7
<1>7. QED
  BY <1>5, <1>6

\* The first call has run.  What the ones behind it promise stays true; the contact that they do
\* not concern must now be what the account says.
LEMMA CallGone ==
    ASSUME ContactsInv, peers.calls # <<>>, UNCHANGED api, peers'.calls = Tail(peers.calls),
           NEW u \in Users,
           \/ peers'.mLastScsn
           \/ ~peers'.mLastScsn /\ ~peers.mLastScsn /\ Head(peers.calls).op # "nodes",
           peers'.mLastScsn /\ u \notin api.missed =>
               IF Concerns(Head(peers.calls), u)
               THEN Says(Head(peers.calls), u) = api.contacts[u] =>
                        (peers'.mContacts[u] = "visible" <=> api.contacts[u] = "visible")
               ELSE peers'.mContacts[u] = peers.mContacts[u] /\ peers.mLastScsn,
           peers'.mContacts[u] = "inactive" =>
               \/ peers.mContacts[u] = "inactive"
               \/ Concerns(Head(peers.calls), u) /\ Says(Head(peers.calls), u) = "inactive"
    PROVE  /\ u \notin api.missed => UpToDate(peers', api'.contacts, u)
           /\ NoReturn(peers', api'.contacts, u)
<1> DEFINE calls == peers.calls
           now   == Tail(peers.calls)
<1>1. calls \in Seq(Calls) /\ calls # <<>>
  BY DEF ContactsInv, TypeOK
<1>2. /\ u \notin api.missed => UpToDate(peers, api.contacts, u)
      /\ NoReturn(peers, api.contacts, u)
  BY DEF ContactsInv, AllUpToDate, NobodyReturns
<1>3. /\ 1 \in DOMAIN calls /\ calls[1] = Head(calls)
      /\ \A i \in DOMAIN now :
            i \in Nat /\ i >= 1 /\ i + 1 \in DOMAIN calls /\ now[i] = calls[i + 1]
      /\ \A i \in DOMAIN calls :
            i \in Nat /\ (i = 1 \/ (i > 1 /\ i - 1 \in DOMAIN now /\ now[i - 1] = calls[i]))
  BY <1>1, CallLeaves
<1>4. peers'.calls = now
  OBVIOUS
<1>. HIDE DEF now
<1>5. ASSUME NEW i \in DOMAIN now, LastAbout(now, i, u)
      PROVE  LastAbout(calls, i + 1, u)
  <2>1. Concerns(calls[i + 1], u)
    BY <1>3, <1>5 DEF LastAbout
  <2>2. ASSUME NEW j \in DOMAIN calls, j > i + 1
        PROVE  ~Concerns(calls[j], u)
    <3>1. j - 1 \in DOMAIN now /\ now[j - 1] = calls[j] /\ j - 1 > i
      BY <1>3, <2>2
    <3>2. QED
      BY <1>5, <3>1 DEF LastAbout
  <2>3. QED
    BY <2>1, <2>2 DEF LastAbout
<1>6. ASSUME u \notin api.missed PROVE UpToDate(peers', api'.contacts, u)
  <2>1. ASSUME NEW i \in DOMAIN now, LastAbout(now, i, u)
        PROVE  /\ Says(now[i], u) = api.contacts[u]
               /\ now[i].op = "users" => LoadedBy(peers', i)
    <3>1. i + 1 \in DOMAIN calls /\ now[i] = calls[i + 1] /\ LastAbout(calls, i + 1, u)
      BY <1>3, <1>5, <2>1
    <3>2. /\ Says(calls[i + 1], u) = api.contacts[u]
          /\ calls[i + 1].op = "users" => LoadedBy(peers, i + 1)
      BY <1>2, <1>6, <3>1 DEF UpToDate, calls
    <3>3. ASSUME now[i].op = "users", ~peers'.mLastScsn
          PROVE  LoadedBy(peers', i)
      <4>1. PICK h \in DOMAIN calls : h < i + 1 /\ calls[h].op = "nodes"
        BY <3>1, <3>2, <3>3 DEF LoadedBy, calls
      <4>2. h # 1
        BY <1>3, <3>3, <4>1
      <4>3. h - 1 \in DOMAIN now /\ now[h - 1] = calls[h] /\ h - 1 < i
        BY <1>3, <4>1, <4>2
      <4>4. QED
        BY <1>4, <4>1, <4>3 DEF LoadedBy
    <3>4. QED
      BY <3>1, <3>2, <3>3 DEF LoadedBy
  <2>2. ASSUME peers'.mLastScsn, \A i \in DOMAIN now : ~Concerns(now[i], u)
        PROVE  peers'.mContacts[u] = "visible" <=> api.contacts[u] = "visible"
    <3>1. CASE Concerns(Head(calls), u)
      <4>1. LastAbout(calls, 1, u)
        BY <1>3, <2>2, <3>1 DEF LastAbout
      <4>2. Says(Head(calls), u) = api.contacts[u]
        BY <1>2, <1>3, <1>6, <4>1 DEF UpToDate, calls
      <4>3. QED
        BY <1>6, <2>2, <3>1, <4>2
    <3>2. CASE ~Concerns(Head(calls), u)
      <4>1. \A i \in DOMAIN calls : ~Concerns(calls[i], u)
        BY <1>3, <2>2, <3>2
      <4>2. peers'.mContacts[u] = peers.mContacts[u] /\ peers.mLastScsn
        BY <1>6, <2>2, <3>2
      <4>3. QED
        BY <1>2, <1>6, <4>1, <4>2 DEF UpToDate, calls
    <3>3. QED
      BY <3>1, <3>2
  <2>3. api'.contacts = api.contacts
    OBVIOUS
  <2>4. QED
    BY <1>4, <2>1, <2>2, <2>3 DEF UpToDate
<1>7. NoReturn(peers', api'.contacts, u)
  <2>1. ASSUME NEW i \in DOMAIN calls, Concerns(calls[i], u), Says(calls[i], u) = "inactive"
        PROVE  /\ api.contacts[u] = "inactive"
               /\ \A j \in DOMAIN calls :
                     j > i /\ Concerns(calls[j], u) => Says(calls[j], u) = "inactive"
    BY <1>2, <2>1 DEF NoReturn, calls
  <2>2. ASSUME NEW i \in DOMAIN now, Concerns(now[i], u), Says(now[i], u) = "inactive"
        PROVE  /\ api.contacts[u] = "inactive"
               /\ \A j \in DOMAIN now :
                     j > i /\ Concerns(now[j], u) => Says(now[j], u) = "inactive"
    <3>1. i + 1 \in DOMAIN calls /\ now[i] = calls[i + 1]
      BY <1>3
    <3>2. /\ api.contacts[u] = "inactive"
          /\ \A j \in DOMAIN calls :
                j > i + 1 /\ Concerns(calls[j], u) => Says(calls[j], u) = "inactive"
      BY <2>1, <2>2, <3>1
    <3>3. \A j \in DOMAIN now : j > i => j + 1 > i + 1
      BY <1>3
    <3>4. QED
      BY <1>3, <3>2, <3>3
  <2>3. ASSUME peers'.mContacts[u] = "inactive"
        PROVE  /\ api.contacts[u] = "inactive"
               /\ \A j \in DOMAIN now : Concerns(now[j], u) => Says(now[j], u) = "inactive"
    <3>1. CASE peers.mContacts[u] = "inactive"
      <4>1. /\ api.contacts[u] = "inactive"
            /\ \A j \in DOMAIN calls : Concerns(calls[j], u) => Says(calls[j], u) = "inactive"
        BY <1>2, <3>1 DEF NoReturn, calls
      <4>2. QED
        BY <1>3, <4>1
    <3>2. CASE Concerns(Head(calls), u) /\ Says(Head(calls), u) = "inactive"
      <4>1. /\ api.contacts[u] = "inactive"
            /\ \A j \in DOMAIN calls :
                  j > 1 /\ Concerns(calls[j], u) => Says(calls[j], u) = "inactive"
        BY <1>3, <2>1, <3>2
      <4>2. \A j \in DOMAIN now : j + 1 > 1
        BY <1>3
      <4>3. QED
        BY <1>3, <4>1, <4>2
    <3>3. QED
      BY <2>3, <3>1, <3>2
  <2>4. QED
    BY <1>4, <2>2, <2>3 DEF NoReturn
<1>8. QED
  BY <1>6, <1>7

\* The list of contacts arrives: presenced is sent all of it.
LEMMA ContactsTaken ==
    ASSUME ContactsInv, RunCall, Head(peers.calls).op = "nodes"
    PROVE  AllUpToDate' /\ NobodyReturns' /\ Watched'
<1> DEFINE call == Head(peers.calls)
<1>1. peers.calls # <<>> /\ UNCHANGED <<mConnState, presenced, api>>
  BY DEF RunCall
<1>2. /\ peers' = [mLastScsn |-> TRUE, mContacts |-> call.contacts, calls |-> Tail(peers.calls),
                   exes |-> ExContacts(call.contacts)]
      /\ Sent(PushPeers(call.contacts))
  BY DEF RunCall, ContactsLoaded
<1>3. \A u \in Users : Concerns(call, u) /\ Says(call, u) = call.contacts[u]
  BY DEF Concerns, Says
<1>4. ASSUME NEW u \in Users
      PROVE  /\ u \notin api.missed => UpToDate(peers', api'.contacts, u)
             /\ NoReturn(peers', api'.contacts, u)
  <2>1. /\ peers'.calls = Tail(peers.calls) /\ peers'.mLastScsn
        /\ peers'.mContacts[u] = Says(Head(peers.calls), u) /\ Concerns(Head(peers.calls), u)
    BY <1>2, <1>3
  <2>2. QED
    BY <1>1, <2>1, CallGone
<1>5. AllUpToDate' /\ NobodyReturns'
  BY <1>1, <1>4 DEF AllUpToDate, NobodyReturns
<1>6. ASSUME isOnline' PROVE Watches(peers', net'.up, presenced'.peers)
  <2>1. net.up \in Seq(Commands)
    BY DEF ContactsInv, TypeOK
  <2>2. net'.up = net.up \o PushPeers(peers'.mContacts)
    BY <1>1, <1>2, <1>6 DEF Sent, isOnline, ContactsInv, TypeOK
  <2>3. peers'.exes = ExContacts(peers'.mContacts)
    BY <1>2
  <2>4. Watches(peers', net.up \o PushPeers(peers'.mContacts), presenced.peers)
    BY <2>1, <2>3, Listed
  <2>5. QED
    BY <1>1, <2>2, <2>4
<1>7. Watched'
  BY <1>6 DEF Watched
<1>8. QED
  BY <1>5, <1>7

\* A contact changed before the list was there: the list has it.
LEMMA ChangeIgnored ==
    ASSUME ContactsInv, RunCall, Head(peers.calls).op # "nodes", ~peers.mLastScsn
    PROVE  AllUpToDate' /\ NobodyReturns' /\ Watched'
<1>1. /\ peers.calls # <<>> /\ UNCHANGED <<mConnState, presenced, api, net>>
      /\ peers' = [peers EXCEPT !.calls = Tail(@)]
  BY DEF RunCall, UsersUpdated
<1>2. /\ peers'.calls = Tail(peers.calls) /\ peers'.mLastScsn = peers.mLastScsn
      /\ peers'.mContacts = peers.mContacts
  BY <1>1 DEF ContactsInv, TypeOK
<1>3. ASSUME NEW u \in Users
      PROVE  /\ u \notin api.missed => UpToDate(peers', api'.contacts, u)
             /\ NoReturn(peers', api'.contacts, u)
  BY <1>1, <1>2, CallGone
<1>4. AllUpToDate' /\ NobodyReturns'
  BY <1>1, <1>3 DEF AllUpToDate, NobodyReturns
<1>5. Watched'
  BY <1>2 DEF Watched, Watches
<1>6. QED
  BY <1>4, <1>5

\* A contact changed: presenced is told to watch it, or to leave it.
LEMMA ChangeTaken ==
    ASSUME ContactsInv, RunCall, Head(peers.calls).op # "nodes", peers.mLastScsn
    PROVE  AllUpToDate' /\ NobodyReturns' /\ Watched'
<1> DEFINE call == Head(peers.calls)
           x    == call.user
           v    == call.visibility
           old  == peers.mContacts[x]
           adds == v = "visible" /\ old \in {"none", "hidden"}
           dels == v \in {"hidden", "inactive"} /\ old = "visible"
           kept == IF v = "inactive" /\ old # "none" THEN "none" ELSE v
           sent == IF adds THEN <<[op |-> "ADDPEERS", users |-> {x}]>>
                   ELSE IF dels THEN <<[op |-> "DELPEERS", users |-> {x}]>> ELSE <<>>
<1>1. peers.calls # <<>> /\ UNCHANGED <<mConnState, presenced, api>>
  BY DEF RunCall
<1>2. /\ peers' = [peers EXCEPT !.mContacts[x] = kept, !.calls = Tail(@),
                                !.exes = IF v = "visible" THEN @ \ {x} ELSE @]
      /\ Sent(sent)
  <2>1. UsersUpdated(x, v)
    BY DEF RunCall
  <2>. HIDE DEF x, v
  <2>2. QED
    BY <2>1 DEF UsersUpdated
<1>3. /\ peers.calls \in Seq(Calls)
      /\ peers \in [mLastScsn : BOOLEAN, mContacts : [Users -> Visibilities], calls : Seq(Calls), exes : SUBSET Users]
  BY DEF ContactsInv, TypeOK
<1>4. call \in Calls
  BY <1>1, <1>3
<1>5. x \in Users /\ v \in Visibilities \ {"none"} /\ \A u \in Users : Concerns(call, u) <=> u = x
  BY <1>4 DEF Calls, Concerns
<1>6. Says(call, x) = v
  BY DEF Says
<1>7. old \in Visibilities
  BY <1>3, <1>5
<1>8. \A u \in Users : NoReturn(peers, api.contacts, u)
  BY ZenonT(30) DEF ContactsInv, NobodyReturns
<1>9. 1 \in DOMAIN peers.calls /\ peers.calls[1] = call
  BY <1>1, <1>3, CallLeaves
<1>10. ~(v = "visible" /\ old = "inactive")
  BY <1>5, <1>6, <1>8, <1>9 DEF NoReturn
<1>. HIDE DEF call, x, v
<1>11. /\ peers'.calls = Tail(peers.calls) /\ peers'.mLastScsn
       /\ peers'.mContacts[x] = kept
       /\ \A u \in Users \ {x} : peers'.mContacts[u] = peers.mContacts[u]
       /\ peers'.exes = IF v = "visible" THEN peers.exes \ {x} ELSE peers.exes
  BY <1>2, <1>3, <1>5
<1>12. ASSUME NEW u \in Users
       PROVE  /\ u \notin api.missed => UpToDate(peers', api'.contacts, u)
              /\ NoReturn(peers', api'.contacts, u)
  <2>1. CASE u = x
    <3>1. Concerns(Head(peers.calls), u) /\ Says(Head(peers.calls), u) = v
      BY <1>5, <1>6, <2>1 DEF call
    <3>2. /\ peers'.mContacts[u] = "visible" <=> v = "visible"
          /\ peers'.mContacts[u] = "inactive" => v = "inactive"
      BY <1>11, <2>1
    <3>3. QED
      BY <1>1, <1>11, <3>1, <3>2, CallGone
  <2>2. CASE u # x
    <3>1. ~Concerns(Head(peers.calls), u)
      BY <1>5, <2>2 DEF call
    <3>2. peers'.mContacts[u] = peers.mContacts[u]
      BY <1>11, <2>2
    <3>3. QED
      BY <1>1, <1>11, <3>1, <3>2, CallGone
  <2>3. QED
    BY <2>1, <2>2
<1>13. AllUpToDate' /\ NobodyReturns'
  BY <1>1, <1>12 DEF AllUpToDate, NobodyReturns
<1>14. /\ [op |-> "ADDPEERS", users |-> {x}] \in Commands
       /\ [op |-> "DELPEERS", users |-> {x}] \in Commands
       /\ <<[op |-> "ADDPEERS", users |-> {x}]>> \in Seq(Commands)
       /\ <<[op |-> "DELPEERS", users |-> {x}]>> \in Seq(Commands)
  <2>1. [op |-> "ADDPEERS", users |-> {x}] \in Commands
    BY <1>5 DEF Commands
  <2>2. [op |-> "DELPEERS", users |-> {x}] \in Commands
    BY <1>5 DEF Commands
  <2>3. QED
    BY <2>1, <2>2
<1>15. sent \in Seq(Commands)
  BY <1>14
<1>16. ASSUME isOnline', NEW u \in Users
       PROVE  /\ Wanted(peers', u) => WillKnow(net'.up, presenced'.peers, u)
              /\ ~Wanted(peers', u) => WillNotKnow(net'.up, presenced'.peers, u)
              /\ u \in peers'.exes => peers'.mContacts[u] # "visible"
  <2>1. net.up \in Seq(Commands)
    BY DEF ContactsInv, TypeOK
  <2>2. net'.up = net.up \o sent /\ presenced'.peers = presenced.peers
    BY <1>1, <1>2, <1>16 DEF Sent, isOnline, ContactsInv, TypeOK
  <2>3. /\ Wanted(peers, u) => WillKnow(net.up, presenced.peers, u)
        /\ ~Wanted(peers, u) => WillNotKnow(net.up, presenced.peers, u)
        /\ u \in peers.exes => peers.mContacts[u] # "visible"
    BY <1>1, <1>16 DEF ContactsInv, Watched, Watches, isOnline
  <2>4. CASE u = x /\ adds
    <3>1. Gives([op |-> "ADDPEERS", users |-> {x}], u)
      BY <2>4 DEF Gives
    <3>2. WillKnow(net.up \o <<[op |-> "ADDPEERS", users |-> {x}]>>, presenced.peers, u)
      BY <1>14, <2>1, <3>1, NowKnown
    <3>3. Wanted(peers', u) /\ u \notin peers'.exes
      BY <1>11, <2>4 DEF Wanted
    <3>4. QED
      BY <2>2, <2>4, <3>2, <3>3
  <2>5. CASE u = x /\ dels
    <3>1. Takes([op |-> "DELPEERS", users |-> {x}], u)
      BY <2>5 DEF Takes
    <3>2. WillNotKnow(net.up \o <<[op |-> "DELPEERS", users |-> {x}]>>, presenced.peers, u)
      BY <1>14, <2>1, <3>1, NowNotKnown
    <3>3. ~Wanted(peers', u) /\ u \notin peers'.exes /\ ~adds
      BY <1>11, <2>3, <2>5 DEF Wanted
    <3>4. QED
      BY <2>2, <2>5, <3>2, <3>3
  <2>6. CASE ~(u = x /\ (adds \/ dels))
    <3>1. Wanted(peers', u) = Wanted(peers, u)
      <4>1. CASE u # x
        BY <1>11, <4>1 DEF Wanted
      <4>2. CASE u = x
        <5>1. v = "visible" => old = "visible"
          BY <1>7, <1>10, <2>6, <4>2 DEF Visibilities
        <5>2. v # "visible" => old # "visible"
          BY <1>5, <2>6, <4>2 DEF Visibilities
        <5>3. QED
          BY <1>11, <2>3, <4>2, <5>1, <5>2 DEF Wanted
      <4>3. QED
        BY <4>1, <4>2
    <3>2. \A j \in DOMAIN sent : ~Takes(sent[j], u) /\ ~Gives(sent[j], u)
      BY <2>6 DEF Takes, Gives
    <3>3. u \in peers'.exes => peers'.mContacts[u] # "visible"
      BY <1>11, <2>3
    <3>. HIDE DEF sent
    <3>4. /\ Wanted(peers, u) => WillKnow(net.up \o sent, presenced.peers, u)
          /\ ~Wanted(peers, u) => WillNotKnow(net.up \o sent, presenced.peers, u)
      BY <1>15, <2>1, <2>3, <3>2, StillKnown, StillNotKnown
    <3>5. QED
      BY <2>2, <3>1, <3>3, <3>4
  <2>7. QED
    BY <2>4, <2>5, <2>6
<1>17. Watched'
  BY <1>16 DEF Watched, Watches
<1>18. QED
  BY <1>13, <1>17

-----------------------------------------------------------------------------
LEMMA InitContactsInv == Init => AllUpToDate /\ NobodyReturns /\ Watched
<1> SUFFICES ASSUME Init PROVE AllUpToDate /\ NobodyReturns /\ Watched
  OBVIOUS
<1>1. /\ peers = [mLastScsn |-> FALSE, mContacts |-> Nobody, calls |-> <<>>, exes |-> {}]
      /\ mConnState = "Offline"
  BY DEF Init
<1>2. \A u \in Users : peers.mContacts[u] # "inactive"
  BY <1>1, ZenonT(30) DEF Nobody
<1>3. DOMAIN peers.calls = {}
  BY <1>1
<1>4. AllUpToDate
  BY <1>1, <1>3 DEF AllUpToDate, UpToDate
<1>5. NobodyReturns
  BY <1>2, <1>3, ZenonT(30) DEF NobodyReturns, NoReturn
<1>6. Watched
  BY <1>1 DEF Watched, isOnline
<1>7. QED
  BY <1>4, <1>5, <1>6

LEMMA NextContactsInv ==
    ContactsInv /\ [Next]_vars => AllUpToDate' /\ NobodyReturns' /\ Watched'
<1> SUFFICES ASSUME ContactsInv, [Next]_vars PROVE AllUpToDate' /\ NobodyReturns' /\ Watched'
  OBVIOUS
<1>1. CASE SetPrefs
  BY <1>1, PreferencesNeutral
<1>2. CASE \E enable \in BOOLEAN, timeout \in Timeouts : SetAutoaway(enable, timeout)
  BY <1>2, PreferencesNeutral
<1>3. CASE (\E active \in BOOLEAN : SignalActivity(active)) \/ NotifyUserStatus
  BY <1>3, ActivityNeutral
<1>4. CASE OnEvent
  BY <1>4, AccountLoaded
<1>5. CASE \E u \in Users, v \in Visibilities : ContactChanges(u, v)
  BY <1>5, ContactChanged
<1>6. CASE RunCall
  BY <1>6, ContactsTaken, ChangeIgnored, ChangeTaken
<1>7. CASE Connect
  BY <1>7, LoginTellsUsers
<1>8. CASE Disconnect
  BY <1>8, LostConnection
<1>9. CASE HandleMessage
  BY <1>9, PreferencesHeard
<1>10. CASE Server
  BY <1>10, CommandRead
<1>11. CASE \E code \in {AutoAwayCode, BusyCode} : Foreign(code)
  BY <1>11, OtherClient
<1>12. CASE UNCHANGED vars
  BY <1>12, SilentStep DEF vars, isOnline
<1>13. QED
  BY <1>1, <1>2, <1>3, <1>4, <1>5, <1>6, <1>7, <1>8, <1>9, <1>10, <1>11, <1>12 DEF Next

\* With nothing on its way and no call waiting, what was promised has come true.
LEMMA NothingLeft == ContactsInv => PeersAgree
<1> SUFFICES ASSUME ContactsInv, Settled, peers.mLastScsn, NEW u \in Users \ api.missed
             PROVE  /\ u \in presenced.peers <=> api.contacts[u] = "visible" \/ u \in peers.exes
                    /\ peers.mContacts[u] = "visible" <=> api.contacts[u] = "visible"
  BY ZenonT(30) DEF PeersAgree
<1>1. isOnline /\ net.up = <<>> /\ peers.calls = <<>>
  BY DEF Settled, isOnline
<1>2. DOMAIN net.up = {} /\ DOMAIN peers.calls = {}
  BY <1>1
<1>3. peers.mContacts[u] = "visible" <=> api.contacts[u] = "visible"
  BY <1>2 DEF ContactsInv, AllUpToDate, UpToDate
<1>4. /\ Wanted(peers, u) => WillKnow(net.up, presenced.peers, u)
      /\ ~Wanted(peers, u) => WillNotKnow(net.up, presenced.peers, u)
  BY <1>1 DEF ContactsInv, Watched, Watches
<1>5. Wanted(peers, u) <=> u \in presenced.peers
  BY <1>2, <1>4 DEF WillKnow, WillNotKnow
<1>6. QED
  BY <1>3, <1>5 DEF Wanted

\* For any users and any number of changes, reloads and losses of the connection: once nothing
\* is on its way presenced watches the contacts of the account and, of all others, only the
\* ex-contacts that were listed with them and were not contacts since; and the client takes the
\* contacts and nobody else for contacts, except where a change came while a reload was under way
\* (onEvent(), onUsersUpdate(), pushPeers(), login()).
THEOREM ContactsAgree == Spec => []PeersAgree
<1>1. Init => IInv /\ ContactsInv
  BY InitIInv, InitContactsInv DEF ContactsInv, IInv
<1>2. IInv /\ ContactsInv /\ [Next]_vars => IInv' /\ ContactsInv'
  <2>1. IInv /\ [Next]_vars => TypeOK'
    BY NextIInv DEF IInv
  <2>2. QED
    BY <2>1, NextIInv, NextContactsInv DEF ContactsInv
<1>3. ContactsInv => PeersAgree
  BY NothingLeft
<1>4. QED
  BY <1>1, <1>2, <1>3, PTL DEF Spec
=============================================================================
