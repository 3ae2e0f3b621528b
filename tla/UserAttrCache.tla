--------------------------- MODULE UserAttrCache ---------------------------
(***************************************************************************)
(* The cache of the attributes of one user (src/src/userAttrCache.cpp): a  *)
(* map from attributes to items with their subscribers, backed by a table  *)
(* of the database, filled by requests to the SDK and invalidated by the   *)
(* SDK's notifications of change.  The full name is an item as well: it is *)
(* put together from the two names, which it asks of the same cache.       *)
(*                                                                         *)
(* A request is answered on the SDK's thread and marshalled, as are the    *)
(* notifications and the commits that carry the SDK's sequence number      *)
(* (sdkApi.h, chatClient.cpp): they arrive in the order they were posted.  *)
(* The value of an answer is read before it is posted, so a change may be  *)
(* notified in between.  What can go wrong is what happens to an item      *)
(* between its request and its answer: a change, a removal from the map,   *)
(* an invalidation of the whole cache, a restart.                          *)
(*                                                                         *)
(* A value is the number of changes the attribute has had; zero is an      *)
(* attribute that is not set (ENOENT).                                     *)
(***************************************************************************)
EXTENDS Naturals, Sequences, SequencesExt, FiniteSets

CONSTANTS
    Ordered,       \* the attributes the SDK knows, backed by the database, as the map orders them
    Parts,         \* those the full name is made of
    Failed,        \* the null value left by a request that failed
    Unknown,       \* no value yet
    MaxChanges,    \* bound: changes of attributes on the server
    MaxGets,       \* bound: requests and subscriptions of the application
    MaxFaults,     \* bound: requests that fail
    MaxRestarts    \* bound: restarts and full reloads

Standard == ToSet(Ordered)

ASSUME CacheAssumption ==
    /\ Ordered \in Seq(Standard)
    /\ Parts \subseteq Standard
    /\ "fullname" \notin Standard
    /\ Failed \notin Nat /\ Unknown \notin Nat /\ Failed # Unknown
    /\ {MaxChanges, MaxGets, MaxFaults, MaxRestarts} \subseteq Nat

VARIABLES
    cache,     \* the cache, its requests and what is marshalled to it
    sdk,       \* the server's changes, how many the SDK knows and has on disk, the account is fetched
    disk,      \* what is committed: the rows and the sequence number
    told,      \* history: how many of the changes the cache has been told of
    orphans,   \* history: rows written for an item that was no longer in the map
    overtaken, \* history: attributes with an answer older than a change told before it
    budget     \* what is left of the bounds

vars == <<cache, sdk, disk, told, orphans, overtaken, budget>>

Attrs     == Standard \cup {"fullname"}
\* what the program subscribes to, and what it fetches ahead: never a part of the full name
Watchable == Attrs \ Parts

\* the value of an attribute once the first n changes have been made
Version(a, n) == Cardinality({i \in 1 .. n : sdk.log[i] = a})

\* not older than the last change the client has been told of
Current(value, a) == value # Failed => value >= Version(a, told)

\* a map loaded from the rows: the items are not pending
Loaded(rows) ==
    [mIsLoggedIn |-> FALSE,
     items    |-> [a \in DOMAIN rows |->
                       [pending |-> "not", data |-> rows[a], watched |-> FALSE, asked |-> FALSE]],
     names    |-> <<>>,      \* the fetches of the full name
     rows     |-> rows,      \* the table userattrs, as the open transaction sees it
     requests |-> <<>>,      \* to the SDK, with the value read for each
     channel  |-> <<>>,      \* marshalled by the SDK's thread
     shown    |-> [a \in Watchable |-> Unknown]]   \* what the subscriber was last given

-----------------------------------------------------------------------------
(* The methods *)

Put(f, a, v)  == [b \in DOMAIN f \cup {a} |-> IF b = a THEN v ELSE f[b]]
Without(f, a) == [b \in DOMAIN f \ {a} |-> f[b]]

\* what a sequence has at some positions
Kept(seq, positions) ==
    LET f[n \in 0 .. Len(seq)] ==
            IF n = 0 THEN <<>>
            ELSE IF n \in positions THEN Append(f[n - 1], seq[n]) ELSE f[n - 1]
    IN f[Len(seq)]

\* attributes as the map orders them
InOrder(attrs) == Kept(Ordered, {i \in DOMAIN Ordered : Ordered[i] \in attrs})

Waiting(name, a)  == a \in Parts /\ name.parts[a] = Unknown
HasCallbacks(s, a) ==
    \/ s.items[a].watched \/ s.items[a].asked
    \/ \E i \in DOMAIN s.names : Waiting(s.names[i], a)

\* fetchStandardAttr(), fetchEmail(), for each attribute of a sequence; fetchAttr() does
\* nothing before the login
FetchEach(s, attrs) ==
    IF ~s.mIsLoggedIn THEN s
    ELSE [s EXCEPT !.requests =
              @ \o [i \in DOMAIN attrs |-> [attr |-> attrs[i], live |-> TRUE, value |-> Unknown]]]

NewItem(pending) == [pending |-> pending, data |-> Failed, watched |-> FALSE, asked |-> FALSE]
Emplace(s, attrs, pending) ==
    [s EXCEPT !.items = [a \in DOMAIN @ \cup attrs |->
                             IF a \in attrs THEN NewItem(pending) ELSE @[a]]]

\* the full names whose parts are all there: resolveNoDb()
CompleteNames(s) ==
    LET waits == {i \in DOMAIN s.names : \E p \in Parts : Waiting(s.names[i], p)}
        used  == {i \in DOMAIN s.names \ waits : s.names[i].live}
        value == s.names[Max(used)].parts
        t     == [s EXCEPT !.names = Kept(@, waits)]
    IN IF used = {} THEN t
       ELSE [t EXCEPT !.items["fullname"].data = value,
                      !.items["fullname"].pending = "not",
                      !.items["fullname"].asked = FALSE,
                      !.shown["fullname"] =
                          IF t.items["fullname"].watched THEN value ELSE @]

\* fetchUserFullName(), with the getAttr() of each part: one that is being updated is taken
\* as it is
FetchUserFullName(s) ==
    LET known(p) == p \in DOMAIN s.items /\ s.items[p].pending # "new"
        name     == [live  |-> TRUE,
                     parts |-> [p \in Parts |-> IF known(p) THEN s.items[p].data ELSE Unknown]]
        missing  == Parts \ DOMAIN s.items
        t        == [Emplace(s, missing, "new") EXCEPT !.names = Append(@, name)]
    IN CompleteNames(FetchEach(t, InOrder(missing)))

\* fetchAttr()
FetchAttr(s, a) == IF a = "fullname" THEN FetchUserFullName(s) ELSE FetchEach(s, <<a>>)

AddCb(s, a, cb) ==
    CASE cb = "watch" -> [s EXCEPT !.items[a].watched = TRUE]
      [] cb = "ask"   -> [s EXCEPT !.items[a].asked = TRUE]
      [] cb = "none"  -> s

\* getAttr(); cb is a subscription (watch), one-shot (ask) or none
GetAttr(s, a, cb, fetch) ==
    LET new == AddCb(Emplace(s, {a}, IF fetch THEN "new" ELSE "untilUse"), a, cb)
    IN IF a \notin DOMAIN s.items THEN IF fetch THEN FetchAttr(new, a) ELSE new
       ELSE IF cb = "none" THEN s
       ELSE IF s.items[a].pending = "new" THEN AddCb(s, a, cb)
       ELSE IF s.items[a].pending = "untilUse"
       THEN IF fetch THEN FetchAttr([AddCb(s, a, cb) EXCEPT !.items[a].pending = "new"], a)
                     ELSE AddCb(s, a, cb)
       ELSE IF cb = "watch"
       THEN [AddCb(s, a, cb) EXCEPT !.shown[a] = s.items[a].data] ELSE s

\* removeCb() of a subscription
RemoveCb(s, a) == [s EXCEPT !.items[a].watched = FALSE, !.shown[a] = Unknown]

\* the item leaves the map; the requests for it hold it until they are answered
Erase(s, a) ==
    LET orphaned(seq) == [i \in DOMAIN seq |-> IF seq[i].attr = a
                                               THEN [seq[i] EXCEPT !.live = FALSE] ELSE seq[i]]
        kept == [s EXCEPT !.items = Without(@, a)]
    IN IF a = "fullname"
       THEN [kept EXCEPT !.names = [i \in DOMAIN @ |-> [@[i] EXCEPT !.live = FALSE]]]
       ELSE [kept EXCEPT !.requests = orphaned(@), !.channel = orphaned(@)]

\* onUserAttrChange() of one attribute: nothing at all is done for one that is not in the map
Changed(s, a) ==
    LET t == IF a = "fullname" THEN s ELSE [s EXCEPT !.rows = Without(@, a)]
    IN IF a \notin DOMAIN s.items THEN s
       ELSE IF ~HasCallbacks(s, a) THEN Erase(t, a)
       ELSE IF a # "fullname" /\ s.items[a].pending # "not" THEN t
       ELSE FetchAttr([t EXCEPT !.items[a].pending = "update"], a)

\* mutant: the full name is fetched before its part is known to have changed
OnUserAttrChangeNameFirst(s, a) ==
    Changed(IF a \in Parts THEN Changed(s, "fullname") ELSE s, a)

\* the map is ordered: the full name comes after its parts
OnUserAttrChange(s, a) ==
    LET t == Changed(s, a) IN IF a \in Parts THEN Changed(t, "fullname") ELSE t

\* invalidate()
Invalidate(s) ==
    [s EXCEPT !.rows = <<>>,
              !.items = [a \in DOMAIN @ |-> [@[a] EXCEPT !.pending = "update"]]]

\* onLogin()
OnLogin(s) ==
    LET due == {a \in DOMAIN s.items : s.items[a].pending \in {"update", "new"}}
        t   == FetchEach([s EXCEPT !.mIsLoggedIn = TRUE], InOrder(due))
    IN IF "fullname" \in due THEN FetchUserFullName(t) ELSE t

\* mutant: any error leaves a row, not only that of an attribute that is not set
DbWriteAnyError(s, a, value) == [s EXCEPT !.rows = Put(@, a, value)]

DbWrite(s, a, value) == IF value = Failed THEN s ELSE [s EXCEPT !.rows = Put(@, a, value)]

\* mutant: the one-shot callbacks are removed without being called after an error
ResolveSilent(s, a, value) ==
    CompleteNames([DbWrite(s, a, value) EXCEPT
        !.items[a].data = value, !.items[a].pending = "not",
        !.items[a].asked = @ /\ value = Failed,
        !.shown = [b \in DOMAIN @ |-> IF b = a /\ s.items[a].watched THEN value ELSE @[b]],
        !.names = [i \in DOMAIN @ |-> IF Waiting(@[i], a)
                                      THEN [@[i] EXCEPT !.parts[a] = value] ELSE @[i]]])

\* resolve() or error(): the item is set, then its callbacks are called
Resolve(s, a, value) ==
    CompleteNames([DbWrite(s, a, value) EXCEPT
        !.items[a].data = value, !.items[a].pending = "not", !.items[a].asked = FALSE,
        !.shown = [b \in DOMAIN @ |-> IF b = a /\ s.items[a].watched THEN value ELSE @[b]],
        !.names = [i \in DOMAIN @ |-> IF Waiting(@[i], a)
                                      THEN [@[i] EXCEPT !.parts[a] = value] ELSE @[i]]])

-----------------------------------------------------------------------------
Spend(kind) == budget[kind] > 0 /\ budget' = [budget EXCEPT ![kind] = @ - 1]
Free        == UNCHANGED budget

(* The application *)

Watch(a, fetch) ==
    /\ a \in DOMAIN cache.items => ~cache.items[a].watched
    /\ Spend("gets") /\ cache' = GetAttr(cache, a, "watch", fetch)
    /\ UNCHANGED <<sdk, disk, told, orphans, overtaken>>

Unwatch(a) ==
    /\ a \in DOMAIN cache.items /\ cache.items[a].watched
    /\ Free /\ cache' = RemoveCb(cache, a)
    /\ UNCHANGED <<sdk, disk, told, orphans, overtaken>>

\* a promise, or a prefetch of the keys without a callback
Get(a, cb) ==
    /\ Spend("gets") /\ cache' = GetAttr(cache, a, cb, TRUE)
    /\ UNCHANGED <<sdk, disk, told, orphans, overtaken>>

(* The server and the SDK *)

Change(a) ==
    /\ Len(sdk.log) < MaxChanges /\ Free
    /\ sdk' = [sdk EXCEPT !.log = Append(@, a)]
    /\ UNCHANGED <<cache, disk, told, orphans, overtaken>>

Post(s, kind, attr, live, value) ==
    [s EXCEPT !.channel = Append(@, [kind |-> kind, attr |-> attr, live |-> live, value |-> value])]

Executed(r) == r.value # Unknown

\* the commands are executed in the order they were sent
ServerReads ==
    /\ \E i \in DOMAIN cache.requests :
        /\ \A j \in DOMAIN cache.requests : Executed(cache.requests[j]) <=> j < i
        /\ cache' = [cache EXCEPT !.requests[i].value =
                         Version(cache.requests[i].attr, Len(sdk.log))]
    /\ Free /\ UNCHANGED <<sdk, disk, told, orphans, overtaken>>

SdkAnswers ==
    /\ cache.requests # <<>>
    /\ LET r == Head(cache.requests)
           s == [cache EXCEPT !.requests = Tail(@)]
       IN \/ /\ Executed(r) /\ Free
             /\ cache' = Post(s, "answer", r.attr, r.live, r.value)
          \/ Spend("faults") /\ cache' = Post(s, "answer", r.attr, r.live, Failed)
    /\ UNCHANGED <<sdk, disk, told, orphans, overtaken>>

SdkNotifies ==
    /\ cache.mIsLoggedIn /\ sdk.seen < Len(sdk.log) /\ Free
    /\ sdk' = [sdk EXCEPT !.seen = @ + 1]
    /\ cache' = Post(cache, "change", sdk.log[sdk.seen + 1], FALSE, 0)
    /\ UNCHANGED <<disk, told, orphans, overtaken>>

SdkCommits ==
    /\ cache.mIsLoggedIn /\ sdk.committed # sdk.seen /\ Free
    /\ sdk' = [sdk EXCEPT !.committed = sdk.seen]
    /\ cache' = Post(cache, "commit", "none", FALSE, sdk.seen)
    /\ UNCHANGED <<disk, told, orphans, overtaken>>

\* the SDK fetches the whole account again, while the client is connected
SdkReloads ==
    /\ cache.mIsLoggedIn /\ Spend("restarts")
    /\ sdk' = [sdk EXCEPT !.seen = Len(sdk.log), !.committed = Len(sdk.log)]
    /\ cache' = Post(cache, "reload", "none", FALSE, Len(sdk.log))
    /\ UNCHANGED <<disk, told, orphans, overtaken>>

(* What is marshalled to the client *)

ReceiveAnswer ==
    /\ cache.channel # <<>> /\ Head(cache.channel).kind = "answer"
    /\ LET m == Head(cache.channel)
           s == [cache EXCEPT !.channel = Tail(@)]
       IN /\ cache' = IF m.live THEN Resolve(s, m.attr, m.value) ELSE DbWrite(s, m.attr, m.value)
          /\ orphans' = IF m.attr \in DOMAIN s.items THEN orphans ELSE orphans \cup {m.attr}
          /\ overtaken' = IF Current(m.value, m.attr)
                          THEN overtaken ELSE overtaken \cup {m.attr}
    /\ Free /\ UNCHANGED <<sdk, disk, told>>

ReceiveChange ==
    /\ cache.channel # <<>> /\ Head(cache.channel).kind = "change"
    /\ cache' = OnUserAttrChange([cache EXCEPT !.channel = Tail(@)], Head(cache.channel).attr)
    /\ told' = told + 1
    /\ Free /\ UNCHANGED <<sdk, disk, orphans, overtaken>>

\* EVENT_COMMIT_DB; checkSyncWithSdkDb() of a full reload
ReceiveCommit ==
    /\ cache.channel # <<>> /\ Head(cache.channel).kind \in {"commit", "reload"}
    /\ LET m == Head(cache.channel)
           s == [cache EXCEPT !.channel = Tail(@)]
       IN /\ cache' = IF m.kind = "reload" THEN Invalidate(s) ELSE s
          /\ disk'  = [rows |-> cache'.rows, scsn |-> m.value]
          /\ told'  = IF m.kind = "reload" THEN m.value ELSE told
    /\ Free /\ UNCHANGED <<sdk, orphans, overtaken>>

Receive == ReceiveAnswer \/ ReceiveChange \/ ReceiveCommit

\* The process ends and starts again from the databases: initWithDbSession().  The rows are
\* those of the last commit, or those of a timedCommit(), which leaves the sequence number.
Restart ==
    /\ cache.mIsLoggedIn /\ Spend("restarts")
    /\ \E rows \in {disk.rows, cache.rows} :
        /\ cache' = Loaded(rows)
        /\ disk' = [disk EXCEPT !.rows = rows]
    /\ sdk' = [sdk EXCEPT !.seen = sdk.committed, !.fetched = FALSE]
    /\ told' = sdk.committed
    /\ UNCHANGED <<orphans, overtaken>>

\* mutant: rows of another sequence number are taken as they are
OutOfSyncNever(seen) == FALSE

\* checkSyncWithSdkDb(): the SDK is not where the last commit was
OutOfSync(seen) == disk.scsn # seen

\* TYPE_FETCH_NODES finished, from the SDK's database or from the server, then connect();
\* a new session starts from what has just been fetched
Connect ==
    /\ ~cache.mIsLoggedIn /\ Free
    /\ \E seen \in IF sdk.fetched THEN {sdk.seen} ELSE {sdk.seen, Len(sdk.log)} :
        LET s == IF OutOfSync(seen) THEN Invalidate(cache) ELSE cache
        IN /\ sdk' = [sdk EXCEPT !.seen = seen, !.committed = seen, !.fetched = TRUE]
           /\ disk' = IF OutOfSync(seen) THEN [rows |-> s.rows, scsn |-> seen] ELSE disk
           /\ told' = seen
           /\ cache' = OnLogin(s)
    /\ UNCHANGED <<orphans, overtaken>>

-----------------------------------------------------------------------------
Init ==
    /\ cache = Loaded(<<>>)
    /\ sdk = [log |-> <<>>, seen |-> 0, committed |-> 0, fetched |-> TRUE]
    /\ disk = [rows |-> <<>>, scsn |-> 0]
    /\ told = 0
    /\ orphans = {}
    /\ overtaken = {}
    /\ budget = [gets |-> MaxGets, faults |-> MaxFaults, restarts |-> MaxRestarts]

Next ==
    \/ \E a \in Watchable, fetch \in BOOLEAN : Watch(a, fetch)
    \/ \E a \in Watchable : Unwatch(a)
    \/ \E a \in Attrs : Get(a, "ask")
    \/ \E a \in Standard \ Parts : Get(a, "none")
    \/ \E a \in Standard : Change(a)
    \/ ServerReads \/ SdkAnswers \/ SdkNotifies \/ SdkCommits \/ SdkReloads
    \/ Receive \/ Restart \/ Connect

Spec == Init /\ [][Next]_vars

\* The server executes what it is sent, the SDK answers what was executed, and the loop runs
\* what is marshalled.  This is the weak fairness of the three actions, written with the
\* conditions under which they are enabled.
FairSpec ==
    /\ Spec
    /\ []<>(\A i \in DOMAIN cache.requests : Executed(cache.requests[i]))
       \/ []<><<ServerReads>>_vars
    /\ []<>(cache.requests = <<>> \/ ~Executed(Head(cache.requests)))
       \/ []<><<SdkAnswers>>_vars
    /\ []<>(cache.channel = <<>>) \/ []<><<Receive>>_vars

-----------------------------------------------------------------------------
(* Properties *)

Versions == Nat \cup {Failed}
Names    == [Parts -> Versions]
Values(a) == IF a = "fullname" THEN Names \cup {Failed} ELSE Versions

TypeOK ==
    /\ DOMAIN cache.items \subseteq Attrs
    /\ \A a \in DOMAIN cache.items :
        /\ cache.items[a].pending \in {"not", "update", "new", "untilUse"}
        /\ cache.items[a].data \in Values(a)
        /\ {cache.items[a].watched, cache.items[a].asked} \subseteq BOOLEAN
    /\ \A i \in DOMAIN cache.names : /\ cache.names[i].live => "fullname" \in DOMAIN cache.items
                                     /\ \E p \in Parts : Waiting(cache.names[i], p)
    /\ \A rows \in {cache.rows, disk.rows} :
        DOMAIN rows \subseteq Standard /\ \A a \in DOMAIN rows : rows[a] \in Nat
    /\ \A i \in DOMAIN cache.requests :
        /\ cache.requests[i].live => cache.requests[i].attr \in DOMAIN cache.items
        /\ cache.requests[i].value \in Nat \cup {Unknown}
    /\ \A a \in Watchable : cache.shown[a] \in Values(a) \cup {Unknown}
    /\ {told, sdk.seen, sdk.committed, disk.scsn} \subseteq 0 .. Len(sdk.log)
    /\ orphans \subseteq Standard /\ overtaken \subseteq Standard

\* Once connected, a value in memory that is not being fetched and a row of the table are
\* never older than the last change the client has been told of, across restarts, commits
\* that are lost and full reloads.  Two cases are left out, in which the code has no second
\* look: an answer that was read before a change and comes after its notification, which
\* onUserAttrChange() ignores because the fetch is under way (its TODO), and a row written for
\* an item that was erased while its request was under way, which later changes do not find.
Fresh ==
    cache.mIsLoggedIn =>
        \A a \in Standard \ (orphans \cup overtaken) :
            /\ a \in DOMAIN cache.items /\ cache.items[a].pending = "not"
               => Current(cache.items[a].data, a)
            /\ a \in DOMAIN cache.rows => Current(cache.rows[a], a)

\* When nothing is under way and the cache has not been invalidated as a whole, what each
\* subscriber was last given is what the server has, as far as the client has been told: no
\* change is lost to an item that was erased and asked for again, to one whose fetch the
\* server executed after the change, nor to a full name put together while one of its parts
\* changed.  An attribute with an overtaken answer is left out, as in Fresh.
SubscribersUpToDate ==
    (/\ cache.mIsLoggedIn /\ cache.requests = <<>> /\ cache.channel = <<>>
     /\ budget.restarts = MaxRestarts) =>
        \A a \in Watchable \cap DOMAIN cache.items :
            cache.items[a].watched /\ cache.items[a].pending # "untilUse" =>
                IF a # "fullname" THEN a \in overtaken \/ Current(cache.shown[a], a)
                ELSE \A p \in Parts \ overtaken : Current(cache.shown[a][p], p)

Asked(a) == a \in DOMAIN cache.items /\ cache.items[a].asked

\* Every promise of a connected client is settled, whatever happens to the item meanwhile: the
\* application stops asking (MaxGets), and then no promise is left.
EveryPromiseSettles == []<>(cache.mIsLoggedIn => \A a \in Attrs : ~Asked(a))
=============================================================================
