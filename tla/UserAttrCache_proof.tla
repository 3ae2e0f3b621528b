------------------------- MODULE UserAttrCache_proof -------------------------
(* Proofs about UserAttrCache: the cache is well formed, nothing in it is older than what the *)
(* client has been told of, and no subscriber is left with what is.                           *)
EXTENDS UserAttrCache, SequenceTheorems, FiniteSetTheorems, WellFoundedInduction,
        NaturalsInduction, TLAPS

-----------------------------------------------------------------------------
(* Sequences *)

\* Induction over the naturals: a set of them has a least one.
LEMMA LeastNat ==
    ASSUME NEW T \in SUBSET Nat, T # {}
    PROVE  \E x \in T : \A y \in T : ~(y < x)
<1>1. IsWellFoundedOn(OpToRel(<, Nat), Nat)
  BY NatLessThanWellFounded, ZenonT(30)
<1>2. \E x \in T : \A y \in T : <<y, x>> \notin OpToRel(<, Nat)
  BY <1>1, WFMin, ZenonT(30)
<1>3. QED
  BY <1>2 DEF OpToRel

\* The recursion that Kept is defined by.
KeptUpTo(f, seq, positions, m) ==
    f = [n \in 0 .. m |-> IF n = 0 THEN <<>>
                          ELSE IF n \in positions THEN Append(f[n - 1], seq[n]) ELSE f[n - 1]]

LEMMA KeptRecursion ==
    ASSUME NEW seq, NEW positions, Len(seq) \in Nat
    PROVE  \E f : KeptUpTo(f, seq, positions, Len(seq)) /\ Kept(seq, positions) = f[Len(seq)]
<1> DEFINE without == {m \in Nat : ~ \E f : KeptUpTo(f, seq, positions, m)}
<1>1. KeptUpTo([n \in 0 .. 0 |-> <<>>], seq, positions, 0)
  BY DEF KeptUpTo
<1>2. 0 \notin without
  BY <1>1
<1>3. ASSUME NEW m \in Nat, m \notin without PROVE m + 1 \notin without
  <2>1. PICK f : KeptUpTo(f, seq, positions, m)
    BY <1>3
  <2> DEFINE last == IF m + 1 \in positions THEN Append(f[m], seq[m + 1]) ELSE f[m]
             g    == [n \in 0 .. m + 1 |-> IF n <= m THEN f[n] ELSE last]
  <2>2. \A n \in 0 .. m : f[n] = IF n = 0 THEN <<>>
                                 ELSE IF n \in positions THEN Append(f[n - 1], seq[n])
                                 ELSE f[n - 1]
    BY <2>1 DEF KeptUpTo
  <2>3. \A n \in 0 .. m + 1 : g[n] = IF n = 0 THEN <<>>
                                     ELSE IF n \in positions THEN Append(g[n - 1], seq[n])
                                     ELSE g[n - 1]
    BY <2>2
  <2>4. KeptUpTo(g, seq, positions, m + 1)
    BY <2>3 DEF KeptUpTo
  <2>5. QED
    BY <2>4
<1>. HIDE DEF without
<1>4. without = {}
  <2>1. SUFFICES ASSUME without # {} PROVE FALSE
    OBVIOUS
  <2>2. without \in SUBSET Nat
    BY DEF without
  <2>3. PICK x \in without : \A y \in without : ~(y < x)
    BY <2>1, <2>2, LeastNat
  <2>4. x # 0 /\ x \in Nat
    BY <1>2, <2>2
  <2>5. x - 1 \in Nat /\ x - 1 \notin without
    BY <2>2, <2>3, <2>4
  <2>6. QED
    BY <1>3, <2>4, <2>5
<1>5. \E f : KeptUpTo(f, seq, positions, Len(seq))
  BY <1>4 DEF without
<1> DEFINE h == CHOOSE f : KeptUpTo(f, seq, positions, Len(seq))
<1>6. KeptUpTo(h, seq, positions, Len(seq))
  BY <1>5
<1>7. Kept(seq, positions) = h[Len(seq)]
  BY DEF Kept, KeptUpTo
<1>8. QED
  BY <1>6, <1>7

\* What is kept of a sequence is a sequence of what it has at these positions.
LEMMA KeptType ==
    ASSUME NEW S, NEW seq \in Seq(S), NEW positions
    PROVE  /\ Kept(seq, positions) \in Seq(S)
           /\ \A j \in DOMAIN Kept(seq, positions) :
                 \E i \in DOMAIN seq \cap positions : Kept(seq, positions)[j] = seq[i]
<1>1. Len(seq) \in Nat /\ DOMAIN seq = 1 .. Len(seq)
  OBVIOUS
<1>2. PICK f : KeptUpTo(f, seq, positions, Len(seq)) /\ Kept(seq, positions) = f[Len(seq)]
  BY <1>1, KeptRecursion
<1>3. \A n \in 0 .. Len(seq) : f[n] = IF n = 0 THEN <<>>
                                      ELSE IF n \in positions THEN Append(f[n - 1], seq[n])
                                      ELSE f[n - 1]
  BY <1>2 DEF KeptUpTo
<1> DEFINE Good(s) == /\ s \in Seq(S)
                      /\ \A j \in DOMAIN s : \E i \in DOMAIN seq \cap positions : s[j] = seq[i]
           bad     == {n \in Nat : n <= Len(seq) /\ ~Good(f[n])}
<1>4. Good(f[0])
  <2>1. f[0] = <<>>
    BY <1>1, <1>3
  <2>2. QED
    BY <2>1
<1>5. ASSUME NEW n \in 1 .. Len(seq), Good(f[n - 1])
      PROVE  Good(f[n])
  <2>1. CASE n \in positions
    <3>1. n \in 0 .. Len(seq) /\ n # 0 /\ n \in DOMAIN seq
      BY <1>1
    <3>2. f[n] = Append(f[n - 1], seq[n])
      BY <1>3, <2>1, <3>1
    <3>3. seq[n] \in S /\ f[n - 1] \in Seq(S)
      BY <1>5, <3>1
    <3>4. /\ f[n] \in Seq(S) /\ Len(f[n - 1]) \in Nat /\ DOMAIN f[n - 1] = 1 .. Len(f[n - 1])
          /\ DOMAIN f[n] = 1 .. Len(f[n - 1]) + 1
          /\ f[n][Len(f[n - 1]) + 1] = seq[n]
          /\ \A j \in 1 .. Len(f[n - 1]) : f[n][j] = f[n - 1][j]
      BY <3>2, <3>3
    <3>5. ASSUME NEW j \in DOMAIN f[n]
          PROVE  \E i \in DOMAIN seq \cap positions : f[n][j] = seq[i]
      <4>1. CASE j = Len(f[n - 1]) + 1
        BY <2>1, <3>1, <3>4, <4>1
      <4>2. CASE j \in 1 .. Len(f[n - 1])
        BY <1>5, <3>4, <4>2
      <4>3. QED
        BY <3>4, <4>1, <4>2, SMTT(30)
    <3>6. QED
      BY <3>4, <3>5
  <2>2. CASE n \notin positions
    <3>1. n \in 0 .. Len(seq) /\ n # 0
      BY <1>1
    <3>2. f[n] = f[n - 1]
      BY <1>3, <2>2, <3>1
    <3>3. QED
      BY <1>5, <3>2
  <2>3. QED
    BY <2>1, <2>2
<1>. HIDE DEF Good
<1>6. bad = {}
  <2>1. SUFFICES ASSUME bad # {} PROVE FALSE
    OBVIOUS
  <2>2. PICK x \in bad : \A y \in bad : ~(y < x)
    <3>1. bad \in SUBSET Nat
      OBVIOUS
    <3>. HIDE DEF bad
    <3>2. QED
      BY <2>1, <3>1, LeastNat
  <2>3. x \in Nat /\ x <= Len(seq) /\ ~Good(f[x]) /\ x # 0
    BY <1>4, <2>2
  <2>4. x - 1 \in Nat /\ x - 1 \notin bad /\ x \in 1 .. Len(seq)
    BY <1>1, <2>2, <2>3
  <2>5. Good(f[x - 1])
    BY <1>1, <2>3, <2>4
  <2>6. QED
    BY <1>5, <2>3, <2>4, <2>5
<1>7. Good(f[Len(seq)])
  BY <1>1, <1>6
<1>8. QED
  BY <1>2, <1>7 DEF Good

-----------------------------------------------------------------------------
(* The types of the cache *)

Pendings == {"not", "update", "new", "untilUse"}
Item(a)  == [pending : Pendings, data : Values(a), watched : BOOLEAN, asked : BOOLEAN]
Name     == [live : BOOLEAN, parts : [Parts -> Versions \cup {Unknown}]]
Request  == [attr : Standard, live : BOOLEAN, value : Nat \cup {Unknown}]

\* what is marshalled: an answer, a change, a commit or a reload
Message ==
    [kind : {"answer"}, attr : Standard, live : BOOLEAN, value : Versions]
        \cup [kind : {"change"}, attr : Standard, live : {FALSE}, value : {0}]
        \cup [kind : {"commit", "reload"}, attr : {"none"}, live : {FALSE}, value : Nat]

ItemsOk(items) == DOMAIN items \subseteq Attrs /\ \A a \in DOMAIN items : items[a] \in Item(a)
NamesOk(names, items) ==
    names \in Seq(Name) /\ \A i \in DOMAIN names : names[i].live => "fullname" \in DOMAIN items
RowsOk(rows)   == DOMAIN rows \subseteq Standard /\ \A a \in DOMAIN rows : rows[a] \in Nat
Held(seq, items) == \A i \in DOMAIN seq : seq[i].live => seq[i].attr \in DOMAIN items
ShownOk(shown) ==
    DOMAIN shown = Watchable /\ \A a \in Watchable : shown[a] \in Values(a) \cup {Unknown}

Typed(s) ==
    /\ s = [mIsLoggedIn |-> s.mIsLoggedIn, items |-> s.items, names |-> s.names, rows |-> s.rows,
            requests |-> s.requests, channel |-> s.channel, shown |-> s.shown]
    /\ s.mIsLoggedIn \in BOOLEAN
    /\ ItemsOk(s.items) /\ NamesOk(s.names, s.items) /\ RowsOk(s.rows)
    /\ s.requests \in Seq(Request) /\ Held(s.requests, s.items)
    /\ s.channel \in Seq(Message) /\ Held(s.channel, s.items)
    /\ ShownOk(s.shown)
    /\ ~s.mIsLoggedIn => s.requests = <<>> /\ s.channel = <<>>

\* every full name under way waits for a part
AllWait(names) == \A i \in DOMAIN names : \E p \in Parts : Waiting(names[i], p)

\* What a method that only asks for attributes may do: it adds items, and no value of the SDK's.
Fetches(s, t) ==
    /\ t.mIsLoggedIn = s.mIsLoggedIn /\ t.rows = s.rows /\ t.channel = s.channel
    /\ DOMAIN s.items \subseteq DOMAIN t.items
    /\ \A a \in Standard \cap DOMAIN t.items :
          t.items[a].pending = "not" => /\ a \in DOMAIN s.items /\ s.items[a].pending = "not"
                                        /\ t.items[a].data = s.items[a].data

\* What else a method leaves alone.
OnlyItems(s, t)    == t = [s EXCEPT !.items = t.items]
OnlyRequests(s, t) == t = [s EXCEPT !.requests = t.requests]

LEMMA OnlyItemsLeaves ==
    ASSUME NEW s, Typed(s), NEW t, OnlyItems(s, t)
    PROVE  /\ t.names = s.names /\ t.rows = s.rows /\ t.requests = s.requests
           /\ t.channel = s.channel /\ t.shown = s.shown /\ t.mIsLoggedIn = s.mIsLoggedIn
BY DEF Typed, OnlyItems

LEMMA OnlyRequestsLeaves ==
    ASSUME NEW s, Typed(s), NEW t, OnlyRequests(s, t)
    PROVE  /\ t.names = s.names /\ t.rows = s.rows /\ t.items = s.items
           /\ t.channel = s.channel /\ t.shown = s.shown /\ t.mIsLoggedIn = s.mIsLoggedIn
BY DEF Typed, OnlyRequests

LEMMA FetchesTwice ==
    ASSUME NEW s, NEW t, NEW u, Fetches(s, t), Fetches(t, u)
    PROVE  Fetches(s, u)
BY DEF Fetches

LEMMA FetchesNothing == ASSUME NEW s PROVE Fetches(s, s)
BY DEF Fetches

\* The constants.
LEMMA AttrsDef ==
    /\ Parts \subseteq Standard /\ Standard \subseteq Attrs /\ "fullname" \in Attrs
    /\ "fullname" \notin Standard /\ "fullname" \notin Parts /\ "fullname" \in Watchable
    /\ Watchable \subseteq Attrs
    /\ \A a \in Standard : Values(a) = Versions /\ a # "fullname"
    /\ Values("fullname") = Names \cup {Failed}
    /\ \A a \in Attrs : a # "fullname" => a \in Standard
BY CacheAssumption DEF Attrs, Watchable, Values

LEMMA VersionsDef ==
    /\ Failed \in Versions /\ Unknown \notin Versions /\ Unknown # Failed
    /\ \A n \in Nat : n \in Versions
    /\ \A v \in Versions : v # Failed => v \in Nat
BY CacheAssumption DEF Versions

\* Ordered has the standard attributes, and a part of it has those.
LEMMA OrderedType == Ordered \in Seq(Standard)
BY CacheAssumption


-----------------------------------------------------------------------------
(* The methods that ask for attributes *)

\* Held is about the attributes in the map only.
LEMMA HeldMore ==
    ASSUME NEW seq, NEW items, NEW more, Held(seq, items), DOMAIN items \subseteq DOMAIN more
    PROVE  Held(seq, more)
BY DEF Held

\* The attributes that are in a set, as the map orders them.
LEMMA InOrderType ==
    ASSUME NEW attrs
    PROVE  /\ InOrder(attrs) \in Seq(Standard)
           /\ \A j \in DOMAIN InOrder(attrs) : InOrder(attrs)[j] \in attrs
<1> DEFINE positions == {i \in DOMAIN Ordered : Ordered[i] \in attrs}
<1>1. /\ Kept(Ordered, positions) \in Seq(Standard)
      /\ \A j \in DOMAIN Kept(Ordered, positions) :
            \E i \in DOMAIN Ordered \cap positions : Kept(Ordered, positions)[j] = Ordered[i]
  <2>. HIDE DEF positions
  <2>1. QED
    BY OrderedType, KeptType
<1>2. InOrder(attrs) = Kept(Ordered, positions)
  BY DEF InOrder
<1>3. QED
  BY <1>1, <1>2

\* fetchStandardAttr() of attributes that are in the map adds their requests.
LEMMA FetchEachTyped ==
    ASSUME NEW s, Typed(s), NEW attrs \in Seq(Standard),
           \A i \in DOMAIN attrs : attrs[i] \in DOMAIN s.items
    PROVE  /\ Typed(FetchEach(s, attrs)) /\ Fetches(s, FetchEach(s, attrs))
           /\ OnlyRequests(s, FetchEach(s, attrs))
<1> DEFINE more == [i \in DOMAIN attrs |-> [attr |-> attrs[i], live |-> TRUE, value |-> Unknown]]
           t    == FetchEach(s, attrs)
<1>1. CASE ~s.mIsLoggedIn
  <2>1. t = s
    BY <1>1 DEF FetchEach
  <2>2. s = [s EXCEPT !.requests = s.requests]
    BY DEF Typed
  <2>3. OnlyRequests(s, t)
    BY <2>1, <2>2 DEF OnlyRequests
  <2>4. QED
    BY <2>1, <2>3, FetchesNothing
<1>2. CASE s.mIsLoggedIn
  <2>1. t = [s EXCEPT !.requests = s.requests \o more]
    BY <1>2 DEF FetchEach
  <2>2. DOMAIN attrs = 1 .. Len(attrs) /\ Len(attrs) \in Nat
    OBVIOUS
  <2>3. \A i \in DOMAIN attrs : [attr |-> attrs[i], live |-> TRUE, value |-> Unknown] \in Request
    BY DEF Request
  <2>4. more \in Seq(Request) /\ Len(more) = Len(attrs) /\ DOMAIN more = DOMAIN attrs
    BY <2>2, <2>3
  <2>5. \A i \in DOMAIN more : more[i].attr \in DOMAIN s.items
    BY <2>4
  <2>. HIDE DEF more
  <2>6. s.requests \in Seq(Request) /\ Held(s.requests, s.items)
    BY DEF Typed
  <2>7. s.requests \o more \in Seq(Request)
    BY <2>4, <2>6
  <2>8. Held(s.requests \o more, s.items)
    <3>1. SUFFICES ASSUME NEW i \in DOMAIN (s.requests \o more)
                   PROVE  (s.requests \o more)[i].live =>
                              (s.requests \o more)[i].attr \in DOMAIN s.items
      BY DEF Held
    <3>2. \/ i \in DOMAIN s.requests /\ (s.requests \o more)[i] = s.requests[i]
          \/ i - Len(s.requests) \in DOMAIN more
             /\ (s.requests \o more)[i] = more[i - Len(s.requests)]
      BY <2>4, <2>6, SMTT(30)
    <3>3. QED
      BY <2>5, <2>6, <3>2 DEF Held
  <2>9. /\ t.requests = s.requests \o more /\ t.items = s.items /\ t.names = s.names
        /\ t.rows = s.rows /\ t.channel = s.channel /\ t.shown = s.shown
        /\ t.mIsLoggedIn = s.mIsLoggedIn
        /\ t = [mIsLoggedIn |-> t.mIsLoggedIn, items |-> t.items, names |-> t.names,
                rows |-> t.rows, requests |-> t.requests, channel |-> t.channel,
                shown |-> t.shown]
    BY <2>1 DEF Typed
  <2>. HIDE DEF t
  <2>10. Typed(t)
    BY <1>2, <2>7, <2>8, <2>9 DEF Typed
  <2>11. Fetches(s, t)
    BY <2>9 DEF Fetches
  <2>12. OnlyRequests(s, t)
    BY <2>1, <2>9 DEF OnlyRequests, t
  <2>13. QED
    BY <2>10, <2>11, <2>12 DEF t
<1>3. QED
  BY <1>1, <1>2 DEF Typed

\* Items are added or changed.
LEMMA ItemsTyped ==
    ASSUME NEW s, Typed(s), NEW items, ItemsOk(items), DOMAIN s.items \subseteq DOMAIN items
    PROVE  Typed([s EXCEPT !.items = items])
<1> DEFINE t == [s EXCEPT !.items = items]
<1>1. /\ t.items = items /\ t.names = s.names /\ t.rows = s.rows /\ t.requests = s.requests
      /\ t.channel = s.channel /\ t.shown = s.shown /\ t.mIsLoggedIn = s.mIsLoggedIn
      /\ t = [mIsLoggedIn |-> t.mIsLoggedIn, items |-> t.items, names |-> t.names,
              rows |-> t.rows, requests |-> t.requests, channel |-> t.channel, shown |-> t.shown]
  BY DEF Typed
<1>2. Held(s.requests, items) /\ Held(s.channel, items)
  BY HeldMore DEF Typed
<1>3. NamesOk(s.names, items)
  BY DEF Typed, NamesOk
<1>. HIDE DEF t
<1>4. QED
  BY <1>1, <1>2, <1>3 DEF Typed, t

\* A new item has no value.
LEMMA NewItemType ==
    ASSUME NEW a \in Attrs, NEW pending \in Pendings
    PROVE  NewItem(pending) \in Item(a) /\ NewItem(pending).pending = pending
BY VersionsDef, AttrsDef DEF NewItem, Item, Values

\* Items are emplaced in the map.
LEMMA EmplaceTyped ==
    ASSUME NEW s, Typed(s), NEW attrs \in SUBSET Attrs, NEW pending \in {"new", "untilUse"}
    PROVE  /\ Typed(Emplace(s, attrs, pending)) /\ Fetches(s, Emplace(s, attrs, pending))
           /\ OnlyItems(s, Emplace(s, attrs, pending))
           /\ DOMAIN Emplace(s, attrs, pending).items = DOMAIN s.items \cup attrs
           /\ \A a \in DOMAIN s.items \cup attrs :
                 Emplace(s, attrs, pending).items[a] =
                     IF a \in attrs THEN NewItem(pending) ELSE s.items[a]
<1> DEFINE items == [a \in DOMAIN s.items \cup attrs |->
                        IF a \in attrs THEN NewItem(pending) ELSE s.items[a]]
           t     == Emplace(s, attrs, pending)
<1>1. t = [s EXCEPT !.items = items]
  BY DEF Emplace
<1>2. pending \in Pendings /\ pending # "not"
  BY DEF Pendings
<1>3. ItemsOk(s.items)
  BY DEF Typed
<1>4. ItemsOk(items)
  BY <1>2, <1>3, NewItemType DEF ItemsOk
<1>5. /\ DOMAIN items = DOMAIN s.items \cup attrs
      /\ \A a \in DOMAIN items : items[a] = IF a \in attrs THEN NewItem(pending) ELSE s.items[a]
  OBVIOUS
<1>. HIDE DEF items
<1>6. Typed(t)
  BY <1>1, <1>4, <1>5, ItemsTyped
<1>7. /\ t.items = items /\ t.rows = s.rows /\ t.channel = s.channel
      /\ t.mIsLoggedIn = s.mIsLoggedIn
  BY <1>1 DEF Typed
<1>8. Fetches(s, t)
  <2>1. \A a \in attrs : items[a].pending # "not"
    BY <1>2, <1>5, NewItemType
  <2>2. QED
    BY <1>5, <1>7, <2>1 DEF Fetches
<1>9. OnlyItems(s, t)
  BY <1>1, <1>7 DEF OnlyItems
<1>10. QED
  BY <1>5, <1>6, <1>7, <1>8, <1>9

\* A callback is added to an item.
LEMMA AddCbTyped ==
    ASSUME NEW s, Typed(s), NEW a \in DOMAIN s.items, NEW cb \in {"watch", "ask", "none"}
    PROVE  /\ Typed(AddCb(s, a, cb)) /\ Fetches(s, AddCb(s, a, cb))
           /\ OnlyItems(s, AddCb(s, a, cb))
           /\ DOMAIN AddCb(s, a, cb).items = DOMAIN s.items
           /\ \A b \in DOMAIN s.items :
                 /\ AddCb(s, a, cb).items[b].pending = s.items[b].pending
                 /\ AddCb(s, a, cb).items[b].data = s.items[b].data
<1> DEFINE t == AddCb(s, a, cb)
<1>1. ItemsOk(s.items)
  BY DEF Typed
<1>2. PICK items :
         /\ t = [s EXCEPT !.items = items] /\ DOMAIN items = DOMAIN s.items /\ ItemsOk(items)
         /\ \A b \in DOMAIN items : /\ items[b].pending = s.items[b].pending
                                    /\ items[b].data = s.items[b].data
  <2>1. CASE cb = "watch"
    <3> DEFINE items == [s.items EXCEPT ![a].watched = TRUE]
    <3>1. t = [s EXCEPT !.items = items]
      BY <2>1 DEF AddCb, Typed
    <3>2. DOMAIN items = DOMAIN s.items /\ ItemsOk(items)
      BY <1>1 DEF ItemsOk, Item
    <3>3. \A b \in DOMAIN items : /\ items[b].pending = s.items[b].pending
                                  /\ items[b].data = s.items[b].data
      BY <1>1 DEF ItemsOk, Item
    <3>. HIDE DEF items
    <3>4. QED
      BY <3>1, <3>2, <3>3
  <2>2. CASE cb = "ask"
    <3> DEFINE items == [s.items EXCEPT ![a].asked = TRUE]
    <3>1. t = [s EXCEPT !.items = items]
      BY <2>2 DEF AddCb, Typed
    <3>2. DOMAIN items = DOMAIN s.items /\ ItemsOk(items)
      BY <1>1 DEF ItemsOk, Item
    <3>3. \A b \in DOMAIN items : /\ items[b].pending = s.items[b].pending
                                  /\ items[b].data = s.items[b].data
      BY <1>1 DEF ItemsOk, Item
    <3>. HIDE DEF items
    <3>4. QED
      BY <3>1, <3>2, <3>3
  <2>3. CASE cb = "none"
    <3>1. t = [s EXCEPT !.items = s.items]
      BY <2>3 DEF AddCb, Typed
    <3>2. QED
      BY <1>1, <3>1
  <2>4. QED
    BY <2>1, <2>2, <2>3
<1>3. Typed(t)
  BY <1>2, ItemsTyped
<1>4. /\ t.items = items /\ t.rows = s.rows /\ t.channel = s.channel
      /\ t.mIsLoggedIn = s.mIsLoggedIn
  BY <1>2 DEF Typed
<1>5. Fetches(s, t)
  BY <1>2, <1>4 DEF Fetches
<1>6. OnlyItems(s, t)
  BY <1>2, <1>4 DEF OnlyItems
<1>7. QED
  BY <1>2, <1>3, <1>4, <1>5, <1>6

\* A set of positions has a last one.
LEMMA MaxIn ==
    ASSUME NEW n \in Nat, NEW S \in SUBSET (1 .. n), S # {}
    PROVE  Max(S) \in S /\ \A y \in S : Max(S) >= y
<1> DEFINE T == {k \in Nat : \E i \in S : k = n - i}
<1>1. \A i \in S : i \in Nat /\ n - i \in Nat
  OBVIOUS
<1>2. T \in SUBSET Nat /\ T # {}
  BY <1>1
<1>3. PICK k \in T : \A y \in T : ~(y < k)
  <2>. HIDE DEF T
  <2>1. QED
    BY <1>2, LeastNat
<1>4. PICK i \in S : k = n - i
  BY <1>3
<1>5. ASSUME NEW y \in S PROVE i >= y
  <2>1. n - y \in T
    BY <1>1
  <2>2. ~(n - y < n - i)
    BY <1>3, <1>4, <2>1
  <2>3. QED
    BY <1>1, <2>2
<1>6. \E x \in S : \A y \in S : x >= y
  BY <1>5
<1>7. QED
  BY <1>6 DEF Max

\* The full names whose parts are all there leave the list, and the last one is the value of
\* the item.
LEMMA CompleteNamesTyped ==
    ASSUME NEW s, Typed(s)
    PROVE  /\ Typed(CompleteNames(s)) /\ Fetches(s, CompleteNames(s))
           /\ AllWait(CompleteNames(s).names)
           /\ DOMAIN CompleteNames(s).items = DOMAIN s.items
           /\ \A a \in DOMAIN s.items : a # "fullname" => CompleteNames(s).items[a] = s.items[a]
           /\ CompleteNames(s).requests = s.requests
<1> DEFINE waits == {i \in DOMAIN s.names : \E p \in Parts : Waiting(s.names[i], p)}
           used  == {i \in DOMAIN s.names \ waits : s.names[i].live}
           value == s.names[Max(used)].parts
           names == Kept(s.names, waits)
           t     == CompleteNames(s)
<1>1. /\ s.names \in Seq(Name) /\ ItemsOk(s.items) /\ ShownOk(s.shown)
      /\ \A i \in DOMAIN s.names : s.names[i].live => "fullname" \in DOMAIN s.items
  BY DEF Typed, NamesOk
<1>2. /\ names \in Seq(Name)
      /\ \A j \in DOMAIN names : \E i \in DOMAIN s.names \cap waits : names[j] = s.names[i]
  <2>. HIDE DEF waits
  <2>1. QED
    BY <1>1, KeptType
<1>3. AllWait(names)
  <2>1. \A i \in DOMAIN s.names \cap waits : \E p \in Parts : Waiting(s.names[i], p)
    OBVIOUS
  <2>. HIDE DEF waits, names
  <2>2. QED
    BY <1>2, <2>1 DEF AllWait
<1>4. NamesOk(names, s.items)
  <2>. HIDE DEF names, waits
  <2>1. QED
    BY <1>1, <1>2 DEF NamesOk
<1> DEFINE u == [s EXCEPT !.names = names]
<1>5. /\ u.names = names /\ u.items = s.items /\ u.rows = s.rows /\ u.requests = s.requests
      /\ u.channel = s.channel /\ u.shown = s.shown /\ u.mIsLoggedIn = s.mIsLoggedIn
      /\ u = [mIsLoggedIn |-> s.mIsLoggedIn, items |-> s.items, names |-> names,
              rows |-> s.rows, requests |-> s.requests, channel |-> s.channel,
              shown |-> s.shown]
  <2>. HIDE DEF names, waits
  <2>1. QED
    BY DEF Typed
<1>6. CASE used = {}
  <2>1. t = u
    BY <1>6 DEF CompleteNames
  <2>. HIDE DEF t, u, names, waits, used
  <2>2. Typed(t)
    BY <1>4, <1>5, <2>1 DEF Typed
  <2>3. Fetches(s, t)
    BY <1>5, <2>1 DEF Fetches
  <2>4. QED
    BY <1>3, <1>5, <2>1, <2>2, <2>3 DEF t
<1>7. CASE used # {}
  <2>1. Max(used) \in used
    <3>1. Len(s.names) \in Nat /\ DOMAIN s.names = 1 .. Len(s.names)
      BY <1>1
    <3>2. used \in SUBSET (1 .. Len(s.names))
      BY <3>1
    <3>. HIDE DEF used
    <3>3. QED
      BY <1>7, <3>1, <3>2, MaxIn
  <2>2. PICK i \in DOMAIN s.names : i = Max(used) /\ i \notin waits /\ s.names[i].live
    BY <2>1, Zenon
  <2>3. value \in Names /\ "fullname" \in DOMAIN s.items
    <3>1. s.names[i] \in Name
      BY <1>1
    <3>2. \A p \in Parts : s.names[i].parts[p] # Unknown
      BY <2>2, ZenonT(30) DEF Waiting
    <3>3. \A parts \in [Parts -> Versions \cup {Unknown}] :
             (\A p \in Parts : parts[p] # Unknown) => parts \in Names
      BY Zenon DEF Names
    <3>4. s.names[i].parts \in [Parts -> Versions \cup {Unknown}]
      BY <3>1, Zenon DEF Name
    <3>5. s.names[i].parts \in Names
      <4>. HIDE DEF value, used, waits, names, t, u
      <4>1. QED
        BY <3>2, <3>3, <3>4, Zenon
    <3>6. "fullname" \in DOMAIN s.items
      BY <1>1, <2>2, Zenon
    <3>7. QED
      BY <2>2, <3>5, <3>6, Zenon
  <2> DEFINE items == [s.items EXCEPT !["fullname"].data = value,
                                      !["fullname"].pending = "not",
                                      !["fullname"].asked = FALSE]
             shown == [s.shown EXCEPT !["fullname"] =
                          IF s.items["fullname"].watched THEN value ELSE @]
  <2>4. t = [u EXCEPT !.items["fullname"].data = value,
                      !.items["fullname"].pending = "not",
                      !.items["fullname"].asked = FALSE,
                      !.shown["fullname"] = IF u.items["fullname"].watched THEN value ELSE @]
    BY <1>7, Zenon DEF CompleteNames
  <2>. HIDE DEF t, u, names, waits, used, value
  <2>5. t = [mIsLoggedIn |-> s.mIsLoggedIn, items |-> items, names |-> names, rows |-> s.rows,
             requests |-> s.requests, channel |-> s.channel, shown |-> shown]
    BY <1>5, <2>4
  <2>6. /\ DOMAIN items = DOMAIN s.items
        /\ \A a \in DOMAIN s.items : a # "fullname" => items[a] = s.items[a]
        /\ \A a \in DOMAIN s.items : a \in Attrs /\ s.items[a] \in Item(a)
    BY <1>1 DEF ItemsOk
  <2>7. items["fullname"] \in Item("fullname")
    <3>1. s.items["fullname"] \in Item("fullname")
      BY <2>3, <2>6
    <3>2. value \in Values("fullname")
      BY <2>3, AttrsDef
    <3>3. QED
      BY <2>3, <3>1, <3>2 DEF Item, Pendings
  <2>8. ShownOk(shown)
    <3>1. value \in Values("fullname")
      BY <2>3, AttrsDef
    <3>2. QED
      BY <1>1, <3>1, AttrsDef DEF ShownOk
  <2>. HIDE DEF items, shown
  <2>9. ItemsOk(items)
    BY <2>6, <2>7 DEF ItemsOk
  <2>10. /\ t.items = items /\ t.names = names /\ t.rows = s.rows /\ t.requests = s.requests
         /\ t.channel = s.channel /\ t.shown = shown /\ t.mIsLoggedIn = s.mIsLoggedIn
    BY <2>5
  <2>11. Typed(t)
    <3>1. Held(s.requests, items) /\ Held(s.channel, items)
      BY <2>6, HeldMore DEF Typed
    <3>2. NamesOk(names, items)
      BY <1>4, <2>6 DEF NamesOk
    <3>3. QED
      BY <2>5, <2>8, <2>9, <2>10, <3>1, <3>2 DEF Typed
  <2>12. Fetches(s, t)
    BY <2>6, <2>10, AttrsDef DEF Fetches
  <2>13. QED
    BY <1>3, <2>6, <2>10, <2>11, <2>12 DEF t
<1>8. QED
  BY <1>6, <1>7

\* Full names are added or go.
LEMMA NamesTyped ==
    ASSUME NEW s, Typed(s), NEW names, NamesOk(names, s.items)
    PROVE  /\ Typed([s EXCEPT !.names = names]) /\ Fetches(s, [s EXCEPT !.names = names])
           /\ [s EXCEPT !.names = names].names = names
           /\ [s EXCEPT !.names = names].items = s.items
<1> DEFINE t == [s EXCEPT !.names = names]
<1>1. /\ t.names = names /\ t.items = s.items /\ t.rows = s.rows /\ t.requests = s.requests
      /\ t.channel = s.channel /\ t.shown = s.shown /\ t.mIsLoggedIn = s.mIsLoggedIn
      /\ t = [mIsLoggedIn |-> t.mIsLoggedIn, items |-> t.items, names |-> t.names,
              rows |-> t.rows, requests |-> t.requests, channel |-> t.channel,
              shown |-> t.shown]
  BY DEF Typed
<1>. HIDE DEF t
<1>2. Typed(t)
  BY <1>1 DEF Typed
<1>3. Fetches(s, t)
  BY <1>1 DEF Fetches
<1>4. QED
  BY <1>1, <1>2, <1>3 DEF t

\* Asking for the full name asks for the parts that are not in the map.
LEMMA FetchUserFullNameTyped ==
    ASSUME NEW s, Typed(s), "fullname" \in DOMAIN s.items
    PROVE  /\ Typed(FetchUserFullName(s)) /\ Fetches(s, FetchUserFullName(s))
           /\ AllWait(FetchUserFullName(s).names)
<1> DEFINE known(p) == p \in DOMAIN s.items /\ s.items[p].pending # "new"
           name     == [live  |-> TRUE,
                        parts |-> [p \in Parts |->
                                      IF known(p) THEN s.items[p].data ELSE Unknown]]
           missing  == Parts \ DOMAIN s.items
           e        == Emplace(s, missing, "new")
           t        == [e EXCEPT !.names = Append(@, name)]
           u        == FetchEach(t, InOrder(missing))
<1>1. ItemsOk(s.items)
  BY DEF Typed
<1>2. name \in Name
  <2>1. \A p \in Parts : known(p) => s.items[p].data \in Versions
    <3>1. SUFFICES ASSUME NEW p \in Parts, p \in DOMAIN s.items
                   PROVE  s.items[p].data \in Versions
      OBVIOUS
    <3>2. s.items[p] \in Item(p)
      BY <1>1, <3>1 DEF ItemsOk
    <3>3. Values(p) = Versions
      BY AttrsDef
    <3>4. QED
      BY <3>2, <3>3 DEF Item
  <2>2. QED
    BY <2>1 DEF Name
<1>3. missing \in SUBSET Attrs /\ missing \subseteq Parts
  BY AttrsDef
<1>. HIDE DEF name, missing
<1>4. /\ Typed(e) /\ Fetches(s, e) /\ OnlyItems(s, e)
      /\ DOMAIN e.items = DOMAIN s.items \cup missing
  BY <1>3, EmplaceTyped
<1>. HIDE DEF e
<1>5. /\ e.names \in Seq(Name)
      /\ \A i \in DOMAIN e.names : e.names[i].live => "fullname" \in DOMAIN e.items
  BY <1>4 DEF Typed, NamesOk
<1>6. NamesOk(Append(e.names, name), e.items)
  <2>1. Append(e.names, name) \in Seq(Name)
    BY <1>2, <1>5
  <2>2. "fullname" \in DOMAIN e.items
    BY <1>4
  <2>3. QED
    BY <2>1, <2>2 DEF NamesOk
<1>7. Typed(t) /\ Fetches(e, t) /\ t.items = e.items
  <2> DEFINE names == Append(e.names, name)
  <2>1. t = [e EXCEPT !.names = names]
    OBVIOUS
  <2>. HIDE DEF names, t
  <2>2. NamesOk(names, e.items)
    BY <1>6 DEF names
  <2>3. QED
    BY <1>4, <2>1, <2>2, NamesTyped
<1>. HIDE DEF t
<1>8. Fetches(s, t)
  BY <1>4, <1>7, FetchesTwice
<1>9. Typed(u) /\ Fetches(t, u)
  <2>1. InOrder(missing) \in Seq(Standard)
    BY InOrderType
  <2>2. \A i \in DOMAIN InOrder(missing) : InOrder(missing)[i] \in DOMAIN t.items
    BY <1>4, <1>7, InOrderType
  <2>3. QED
    BY <1>7, <2>1, <2>2, FetchEachTyped
<1>10. FetchUserFullName(s) = CompleteNames(u)
  BY DEF FetchUserFullName, u, t, e, name, missing
<1>. HIDE DEF u
<1>11. Fetches(s, u)
  BY <1>8, <1>9, FetchesTwice
<1>12. QED
  BY <1>9, <1>10, <1>11, CompleteNamesTyped, FetchesTwice

\* fetchAttr() of an attribute that is in the map.
LEMMA FetchAttrTyped ==
    ASSUME NEW s, Typed(s), AllWait(s.names), NEW a \in DOMAIN s.items
    PROVE  /\ Typed(FetchAttr(s, a)) /\ Fetches(s, FetchAttr(s, a))
           /\ AllWait(FetchAttr(s, a).names)
<1>1. CASE a = "fullname"
  BY <1>1, FetchUserFullNameTyped DEF FetchAttr
<1>2. CASE a # "fullname"
  <2>1. a \in Standard
    BY <1>2, AttrsDef DEF Typed, ItemsOk
  <2>2. <<a>> \in Seq(Standard) /\ \A i \in DOMAIN <<a>> : <<a>>[i] \in DOMAIN s.items
    BY <2>1
  <2>3. FetchAttr(s, a) = FetchEach(s, <<a>>)
    BY <1>2 DEF FetchAttr
  <2>4. FetchEach(s, <<a>>).names = s.names
    BY <2>2, FetchEachTyped, OnlyRequestsLeaves
  <2>5. QED
    BY <2>2, <2>3, <2>4, FetchEachTyped
<1>3. QED
  BY <1>1, <1>2

\* What a subscriber is given.
LEMMA ShownTyped ==
    ASSUME NEW s, Typed(s), AllWait(s.names), NEW shown, ShownOk(shown)
    PROVE  /\ Typed([s EXCEPT !.shown = shown]) /\ Fetches(s, [s EXCEPT !.shown = shown])
           /\ AllWait([s EXCEPT !.shown = shown].names)
<1> DEFINE t == [s EXCEPT !.shown = shown]
<1>1. /\ t.names = s.names /\ t.items = s.items /\ t.rows = s.rows
      /\ t.requests = s.requests /\ t.channel = s.channel /\ t.shown = shown
      /\ t.mIsLoggedIn = s.mIsLoggedIn
      /\ t = [mIsLoggedIn |-> t.mIsLoggedIn, items |-> t.items, names |-> t.names,
              rows |-> t.rows, requests |-> t.requests, channel |-> t.channel,
              shown |-> t.shown]
  BY DEF Typed
<1>. HIDE DEF t
<1>2. Typed(t)
  BY <1>1 DEF Typed
<1>3. Fetches(s, t)
  BY <1>1 DEF Fetches
<1>4. QED
  BY <1>1, <1>2, <1>3 DEF t

\* An item whose value is to be fetched.
Mark(s, a, pending) == [s EXCEPT !.items[a].pending = pending]

LEMMA PendingTyped ==
    ASSUME NEW s, Typed(s), AllWait(s.names), NEW a \in DOMAIN s.items,
           NEW pending \in {"new", "update"}
    PROVE  /\ Typed(Mark(s, a, pending)) /\ Fetches(s, Mark(s, a, pending))
           /\ AllWait(Mark(s, a, pending).names)
           /\ DOMAIN Mark(s, a, pending).items = DOMAIN s.items
           /\ Mark(s, a, pending).items[a].pending = pending
<1> DEFINE items == [s.items EXCEPT ![a].pending = pending]
           t     == Mark(s, a, pending)
<1>1. t = [s EXCEPT !.items = items]
  BY DEF Typed, Mark
<1>2. ItemsOk(s.items)
  BY DEF Typed
<1>3. DOMAIN items = DOMAIN s.items /\ ItemsOk(items)
  BY <1>2 DEF ItemsOk, Item, Pendings
<1>4. items[a].pending = pending /\ \A b \in DOMAIN items : b # a => items[b] = s.items[b]
  BY <1>2 DEF ItemsOk, Item
<1>. HIDE DEF items, t
<1>5. Typed(t)
  BY <1>1, <1>3, ItemsTyped
<1>6. /\ t.names = s.names /\ t.items = items /\ t.rows = s.rows
      /\ t.channel = s.channel /\ t.mIsLoggedIn = s.mIsLoggedIn
  BY <1>1 DEF Typed
<1>7. Fetches(s, t)
  BY <1>3, <1>4, <1>6 DEF Fetches
<1>8. QED
  BY <1>3, <1>4, <1>5, <1>6, <1>7 DEF t

\* getAttr(), whatever its callback.
LEMMA GetAttrTyped ==
    ASSUME NEW s, Typed(s), AllWait(s.names), NEW a \in Attrs,
           NEW cb \in {"watch", "ask", "none"}, cb = "watch" => a \in Watchable,
           NEW fetch \in BOOLEAN
    PROVE  /\ Typed(GetAttr(s, a, cb, fetch)) /\ Fetches(s, GetAttr(s, a, cb, fetch))
           /\ AllWait(GetAttr(s, a, cb, fetch).names)
<1> DEFINE pending == IF fetch THEN "new" ELSE "untilUse"
           e       == Emplace(s, {a}, pending)
           new     == AddCb(e, a, cb)
           c       == AddCb(s, a, cb)
           t       == GetAttr(s, a, cb, fetch)
<1>1. CASE a \notin DOMAIN s.items
  <2>1. /\ Typed(e) /\ Fetches(s, e) /\ a \in DOMAIN e.items /\ OnlyItems(s, e)
    BY EmplaceTyped
  <2>2. e.names = s.names
    BY <2>1, OnlyItemsLeaves
  <2>. HIDE DEF e
  <2>3. /\ Typed(new) /\ Fetches(e, new) /\ a \in DOMAIN new.items
        /\ OnlyItems(e, new)
    BY <2>1, AddCbTyped
  <2>4. new.names = s.names
    BY <2>1, <2>2, <2>3, OnlyItemsLeaves
  <2>5. t = IF fetch THEN FetchAttr(new, a) ELSE new
    BY <1>1 DEF GetAttr, e
  <2>6. Fetches(s, new)
    BY <2>1, <2>3, FetchesTwice
  <2>. HIDE DEF new, t
  <2>7. QED
    BY <2>3, <2>4, <2>5, <2>6, FetchAttrTyped, FetchesTwice DEF t
<1>2. CASE a \in DOMAIN s.items
  <2>1. /\ Typed(c) /\ Fetches(s, c) /\ DOMAIN c.items = DOMAIN s.items
        /\ OnlyItems(s, c)
    BY <1>2, AddCbTyped
  <2>2. c.names = s.names /\ c.shown = s.shown
    BY <2>1, OnlyItemsLeaves
  <2>3. CASE cb = "none"
    <3>1. t = s
      BY <1>2, <2>3 DEF GetAttr
    <3>2. QED
      BY <3>1, FetchesNothing
  <2>4. CASE cb # "none" /\ s.items[a].pending = "new"
    <3>1. t = c
      BY <1>2, <2>4 DEF GetAttr
    <3>2. QED
      BY <2>1, <2>2, <3>1
  <2>5. CASE cb # "none" /\ s.items[a].pending = "untilUse"
    <3> DEFINE u == Mark(c, a, "new")
    <3>1. t = IF fetch THEN FetchAttr(u, a) ELSE c
      BY <1>2, <2>5 DEF GetAttr, Mark
    <3>. HIDE DEF c, t
    <3>2. Typed(u) /\ Fetches(c, u) /\ AllWait(u.names) /\ a \in DOMAIN u.items
      BY <1>2, <2>1, <2>2, PendingTyped
    <3>. HIDE DEF u
    <3>3. Fetches(s, u)
      BY <2>1, <3>2, FetchesTwice
    <3>4. QED
      BY <2>1, <2>2, <3>1, <3>2, <3>3, FetchAttrTyped, FetchesTwice DEF t
  <2>6. CASE cb # "none" /\ s.items[a].pending \notin {"new", "untilUse"}
    <3>1. t = IF cb = "watch" THEN [c EXCEPT !.shown[a] = s.items[a].data] ELSE s
      BY <1>2, <2>6 DEF GetAttr
    <3>. HIDE DEF t
    <3>2. CASE cb = "watch"
      <4> DEFINE shown == [c.shown EXCEPT ![a] = s.items[a].data]
      <4>1. s.items[a].data \in Values(a)
        BY <1>2 DEF Typed, ItemsOk, Item
      <4>2. ShownOk(shown)
        BY <2>1, <4>1 DEF Typed, ShownOk
      <4>3. t = [c EXCEPT !.shown = shown]
        BY <2>1, <3>1, <3>2 DEF Typed
      <4>. HIDE DEF c, shown
      <4>4. QED
        BY <2>1, <2>2, <4>2, <4>3, ShownTyped, FetchesTwice DEF t
    <3>3. QED
      BY <3>1, <3>2, FetchesNothing DEF t
  <2>7. QED
    BY <2>3, <2>4, <2>5, <2>6
<1>3. QED
  BY <1>1, <1>2

LEMMA LoginShape ==
    ASSUME NEW s, Typed(s), NEW b
    PROVE  [s EXCEPT !.mIsLoggedIn = b] =
               [mIsLoggedIn |-> b, items |-> s.items, names |-> s.names, rows |-> s.rows,
                requests |-> s.requests, channel |-> s.channel, shown |-> s.shown]
BY DEF Typed

\* onLogin() fetches what is not there.
LEMMA OnLoginTyped ==
    ASSUME NEW s, Typed(s), AllWait(s.names)
    PROVE  /\ Typed(OnLogin(s)) /\ Fetches([s EXCEPT !.mIsLoggedIn = TRUE], OnLogin(s))
           /\ AllWait(OnLogin(s).names)
<1> DEFINE due == {a \in DOMAIN s.items : s.items[a].pending \in {"update", "new"}}
           l   == [s EXCEPT !.mIsLoggedIn = TRUE]
           t   == FetchEach(l, InOrder(due))
<1>1. /\ l.names = s.names /\ l.items = s.items /\ l.rows = s.rows /\ l.requests = s.requests
      /\ l.channel = s.channel /\ l.shown = s.shown /\ l.mIsLoggedIn = TRUE
      /\ l = [mIsLoggedIn |-> l.mIsLoggedIn, items |-> l.items, names |-> l.names,
              rows |-> l.rows, requests |-> l.requests, channel |-> l.channel,
              shown |-> l.shown]
  <2>1. l = [mIsLoggedIn |-> TRUE, items |-> s.items, names |-> s.names, rows |-> s.rows,
             requests |-> s.requests, channel |-> s.channel, shown |-> s.shown]
    BY LoginShape
  <2>. HIDE DEF l
  <2>2. QED
    BY <2>1
<1>2. due \subseteq DOMAIN s.items
  OBVIOUS
<1>. HIDE DEF l
<1>3. Typed(l)
  BY <1>1 DEF Typed
<1>4. OnLogin(s) = IF "fullname" \in due THEN FetchUserFullName(t) ELSE t
  BY DEF OnLogin, l
<1>. HIDE DEF due
<1>5. Typed(t) /\ Fetches(l, t) /\ OnlyRequests(l, t)
  <2>1. InOrder(due) \in Seq(Standard)
    BY InOrderType
  <2>2. \A i \in DOMAIN InOrder(due) : InOrder(due)[i] \in DOMAIN l.items
    BY <1>1, <1>2, InOrderType
  <2>3. QED
    BY <1>3, <2>1, <2>2, FetchEachTyped
<1>6. t.names = s.names /\ t.items = s.items
  BY <1>1, <1>3, <1>5, OnlyRequestsLeaves
<1>. HIDE DEF t
<1>7. CASE "fullname" \in due
  <2>1. "fullname" \in DOMAIN t.items
    BY <1>2, <1>6, <1>7
  <2>2. /\ Typed(FetchUserFullName(t)) /\ Fetches(t, FetchUserFullName(t))
        /\ AllWait(FetchUserFullName(t).names)
    BY <1>5, <2>1, FetchUserFullNameTyped
  <2>3. QED
    BY <1>4, <1>5, <1>7, <2>2, FetchesTwice DEF l
<1>8. CASE "fullname" \notin due
  BY <1>4, <1>5, <1>6, <1>8 DEF l
<1>9. QED
  BY <1>7, <1>8

-----------------------------------------------------------------------------
(* The methods that take values away *)

Orphaned(seq, a) == [i \in DOMAIN seq |-> IF seq[i].attr = a
                                          THEN [seq[i] EXCEPT !.live = FALSE] ELSE seq[i]]

\* What is marshalled stays, whether or not its item does.
SameNews(c, d) ==
    /\ Len(d) = Len(c) /\ DOMAIN d = DOMAIN c
    /\ \A i \in DOMAIN c : /\ d[i].kind = c[i].kind /\ d[i].attr = c[i].attr
                           /\ d[i].value = c[i].value

\* What a change of an attribute does: its value and its row go, unless it is not in the map.
Ages(s, t, a) ==
    /\ t.mIsLoggedIn = s.mIsLoggedIn /\ SameNews(s.channel, t.channel)
    /\ \A b \in DOMAIN t.rows : b \in DOMAIN s.rows /\ t.rows[b] = s.rows[b]
    /\ a \in DOMAIN t.rows => a \notin DOMAIN s.items
    /\ \A b \in (DOMAIN s.items \cap Standard) \ {a} : b \in DOMAIN t.items
    /\ \A b \in Standard \cap DOMAIN t.items :
          t.items[b].pending = "not" => /\ b # a /\ b \in DOMAIN s.items
                                        /\ s.items[b].pending = "not"
                                        /\ t.items[b].data = s.items[b].data

LEMMA AgesTwice ==
    ASSUME NEW s, NEW t, NEW u, NEW a, Ages(s, t, a), Ages(t, u, "fullname"), a \in Standard
    PROVE  Ages(s, u, a)
<1>1. SameNews(s.channel, u.channel)
  BY DEF Ages, SameNews
<1>2. QED
  BY <1>1, AttrsDef DEF Ages

\* A function on the first positions is a sequence.
LEMMA SequenceOf ==
    ASSUME NEW S, NEW n \in Nat, NEW f, f = [i \in 1 .. n |-> f[i]], \A i \in 1 .. n : f[i] \in S
    PROVE  f \in Seq(S)
OBVIOUS

\* The requests and the answers of an item that goes are no longer held by one.
LEMMA OrphanedType ==
    ASSUME NEW a, NEW S, NEW seq \in Seq(S), NEW items, Held(seq, items),
           \A m \in S : m.attr = a => /\ [m EXCEPT !.live = FALSE] \in S
                                      /\ [m EXCEPT !.live = FALSE].live = FALSE
    PROVE  /\ Orphaned(seq, a) \in Seq(S) /\ Held(Orphaned(seq, a), Without(items, a))
           /\ Len(Orphaned(seq, a)) = Len(seq) /\ DOMAIN Orphaned(seq, a) = DOMAIN seq
<1>1. Len(seq) \in Nat /\ DOMAIN seq = 1 .. Len(seq)
  OBVIOUS
<1>2. \A i \in DOMAIN seq : seq[i] \in S
  OBVIOUS
<1>3. \A i \in DOMAIN seq : Orphaned(seq, a)[i] \in S
  BY <1>2 DEF Orphaned
<1>4. DOMAIN Orphaned(seq, a) = 1 .. Len(seq)
  BY <1>1 DEF Orphaned
<1>5. Orphaned(seq, a) = [i \in 1 .. Len(seq) |-> Orphaned(seq, a)[i]]
  BY <1>4 DEF Orphaned
<1>6. Orphaned(seq, a) \in Seq(S) /\ Len(Orphaned(seq, a)) = Len(seq)
  BY <1>1, <1>3, <1>4, <1>5
<1>7. ASSUME NEW i \in DOMAIN seq, Orphaned(seq, a)[i].live
      PROVE  Orphaned(seq, a)[i].attr \in DOMAIN Without(items, a)
  <2>1. seq[i].attr # a
    BY <1>2, <1>7 DEF Orphaned
  <2>2. Orphaned(seq, a)[i] = seq[i]
    BY <2>1 DEF Orphaned
  <2>3. QED
    BY <1>7, <2>1, <2>2 DEF Held, Without
<1>8. QED
  BY <1>1, <1>4, <1>6, <1>7 DEF Held

LEMMA OrphanedRequests ==
    ASSUME NEW s, Typed(s), NEW a
    PROVE  /\ Orphaned(s.requests, a) \in Seq(Request)
           /\ Held(Orphaned(s.requests, a), Without(s.items, a))
           /\ s.requests = <<>> => Orphaned(s.requests, a) = <<>>
<1>1. \A m \in Request : /\ [m EXCEPT !.live = FALSE] \in Request
                         /\ [m EXCEPT !.live = FALSE].live = FALSE
  BY DEF Request
<1>2. s.requests \in Seq(Request) /\ Held(s.requests, s.items)
  BY DEF Typed
<1>3. s.requests = <<>> => Orphaned(s.requests, a) = <<>>
  BY DEF Orphaned
<1>4. QED
  BY <1>1, <1>2, <1>3, OrphanedType

LEMMA OrphanedChannel ==
    ASSUME NEW s, Typed(s), NEW a
    PROVE  /\ Orphaned(s.channel, a) \in Seq(Message)
           /\ Held(Orphaned(s.channel, a), Without(s.items, a))
           /\ SameNews(s.channel, Orphaned(s.channel, a))
           /\ s.channel = <<>> => Orphaned(s.channel, a) = <<>>
<1>1. \A m \in Message : LET d == [m EXCEPT !.live = FALSE]
                         IN /\ d \in Message /\ d.live = FALSE /\ d.kind = m.kind
                            /\ d.attr = m.attr /\ d.value = m.value
  BY DEF Message
<1>2. s.channel \in Seq(Message) /\ Held(s.channel, s.items)
  BY DEF Typed
<1>3. s.channel = <<>> => Orphaned(s.channel, a) = <<>>
  BY DEF Orphaned
<1>4. /\ Orphaned(s.channel, a) \in Seq(Message)
      /\ Held(Orphaned(s.channel, a), Without(s.items, a))
      /\ Len(Orphaned(s.channel, a)) = Len(s.channel)
      /\ DOMAIN Orphaned(s.channel, a) = DOMAIN s.channel
  <2>1. \A m \in Message : m.attr = a => /\ [m EXCEPT !.live = FALSE] \in Message
                                         /\ [m EXCEPT !.live = FALSE].live = FALSE
    BY <1>1
  <2> DEFINE seq == s.channel
  <2>2. seq \in Seq(Message) /\ Held(seq, s.items)
    BY <1>2
  <2>. HIDE DEF seq
  <2>3. /\ Orphaned(seq, a) \in Seq(Message) /\ Held(Orphaned(seq, a), Without(s.items, a))
        /\ Len(Orphaned(seq, a)) = Len(seq) /\ DOMAIN Orphaned(seq, a) = DOMAIN seq
    BY <2>1, <2>2, OrphanedType
  <2>4. QED
    BY <2>3 DEF seq
<1>5. \A i \in DOMAIN s.channel : s.channel[i] \in Message
  BY <1>2
<1>6. SameNews(s.channel, Orphaned(s.channel, a))
  BY <1>1, <1>4, <1>5 DEF SameNews, Orphaned
<1>7. QED
  BY <1>3, <1>4, <1>6

\* The item leaves the map.
LEMMA EraseTyped ==
    ASSUME NEW s, Typed(s), AllWait(s.names), NEW a \in Attrs
    PROVE  /\ Typed(Erase(s, a)) /\ AllWait(Erase(s, a).names)
           /\ Erase(s, a).mIsLoggedIn = s.mIsLoggedIn /\ Erase(s, a).rows = s.rows
           /\ Erase(s, a).items = Without(s.items, a)
           /\ SameNews(s.channel, Erase(s, a).channel)
<1> DEFINE t     == Erase(s, a)
           items == Without(s.items, a)
<1>1. /\ DOMAIN items = DOMAIN s.items \ {a}
      /\ \A b \in DOMAIN items : items[b] = s.items[b]
  BY DEF Without
<1>2. ItemsOk(items)
  <2>1. ItemsOk(s.items)
    BY DEF Typed
  <2>. HIDE DEF items
  <2>2. QED
    BY <1>1, <2>1 DEF ItemsOk
<1>3. CASE a = "fullname"
  <2> DEFINE names == [i \in DOMAIN s.names |-> [s.names[i] EXCEPT !.live = FALSE]]
  <2>1. t = [mIsLoggedIn |-> s.mIsLoggedIn, items |-> items, names |-> names, rows |-> s.rows,
             requests |-> s.requests, channel |-> s.channel, shown |-> s.shown]
    BY <1>3 DEF Erase, Typed
  <2>2. s.names \in Seq(Name)
    BY DEF Typed, NamesOk
  <2>3. /\ Len(s.names) \in Nat /\ DOMAIN s.names = 1 .. Len(s.names)
        /\ \A i \in DOMAIN s.names : s.names[i] \in Name
    BY <2>2
  <2>4. /\ names \in Seq(Name) /\ DOMAIN names = DOMAIN s.names
        /\ \A i \in DOMAIN names : ~names[i].live /\ names[i].parts = s.names[i].parts
    <3>1. \A m \in Name : LET d == [m EXCEPT !.live = FALSE]
                          IN d \in Name /\ ~d.live /\ d.parts = m.parts
      BY DEF Name
    <3>2. \A i \in 1 .. Len(s.names) :
             names[i] \in Name /\ ~names[i].live /\ names[i].parts = s.names[i].parts
      BY <2>3, <3>1
    <3>3. names = [i \in 1 .. Len(s.names) |-> names[i]]
      BY <2>3
    <3>4. DOMAIN names = 1 .. Len(s.names)
      BY <2>3
    <3>. HIDE DEF names
    <3>5. names \in Seq(Name)
      <4>1. \A i \in 1 .. Len(s.names) : names[i] \in Name
        BY <3>2
      <4>2. QED
        BY <2>3, <3>3, <4>1, SequenceOf
    <3>6. QED
      BY <2>3, <3>2, <3>4, <3>5
  <2>. HIDE DEF names
  <2>5. NamesOk(names, items) /\ AllWait(names)
    BY <2>4 DEF NamesOk, AllWait, Waiting
  <2>6. Held(s.requests, items) /\ Held(s.channel, items)
    <3>1. \A i \in DOMAIN s.requests : s.requests[i].attr # a
      <4>1. \A i \in DOMAIN s.requests : s.requests[i] \in Request
        BY DEF Typed
      <4>2. \A r \in Request : r.attr \in Standard
        BY DEF Request
      <4>3. QED
        BY <1>3, <4>1, <4>2, AttrsDef
    <3>2. \A i \in DOMAIN s.channel : s.channel[i].live => s.channel[i].attr # a
      <4>1. \A i \in DOMAIN s.channel : s.channel[i] \in Message
        BY DEF Typed
      <4>2. \A m \in Message : m.live => m.attr \in Standard
        BY DEF Message
      <4>3. QED
        BY <1>3, <4>1, <4>2, AttrsDef
    <3>3. Held(s.requests, s.items) /\ Held(s.channel, s.items)
      BY DEF Typed
    <3>. HIDE DEF items
    <3>4. QED
      BY <1>1, <3>1, <3>2, <3>3 DEF Held
  <2>7. SameNews(s.channel, s.channel)
    BY DEF SameNews
  <2>. HIDE DEF items, t
  <2>8. /\ t.items = items /\ t.names = names /\ t.rows = s.rows /\ t.requests = s.requests
        /\ t.channel = s.channel /\ t.shown = s.shown /\ t.mIsLoggedIn = s.mIsLoggedIn
    BY <2>1
  <2>9. Typed(t)
    BY <1>2, <2>1, <2>5, <2>6, <2>8 DEF Typed
  <2>10. QED
    BY <2>5, <2>7, <2>8, <2>9 DEF t, items
<1>4. CASE a # "fullname"
  <2> DEFINE requests == Orphaned(s.requests, a)
             channel  == Orphaned(s.channel, a)
  <2>1. t = [mIsLoggedIn |-> s.mIsLoggedIn, items |-> items, names |-> s.names, rows |-> s.rows,
             requests |-> requests, channel |-> channel, shown |-> s.shown]
    BY <1>4 DEF Erase, Typed, Orphaned
  <2>2. /\ requests \in Seq(Request) /\ Held(requests, items)
        /\ s.requests = <<>> => requests = <<>>
    BY OrphanedRequests
  <2>3. /\ channel \in Seq(Message) /\ Held(channel, items) /\ SameNews(s.channel, channel)
        /\ s.channel = <<>> => channel = <<>>
    BY OrphanedChannel
  <2>. HIDE DEF items, t, requests, channel
  <2>4. /\ t.items = items /\ t.names = s.names /\ t.rows = s.rows /\ t.requests = requests
        /\ t.channel = channel /\ t.shown = s.shown /\ t.mIsLoggedIn = s.mIsLoggedIn
    BY <2>1
  <2>5. NamesOk(s.names, items)
    BY <1>1, <1>4 DEF Typed, NamesOk
  <2>6. Typed(t)
    BY <1>2, <2>1, <2>2, <2>3, <2>4, <2>5 DEF Typed
  <2>7. QED
    BY <2>3, <2>4, <2>6 DEF t, items
<1>5. QED
  BY <1>3, <1>4

\* Rows go or come.
LEMMA RowsTyped ==
    ASSUME NEW s, Typed(s), NEW rows, RowsOk(rows)
    PROVE  /\ Typed([s EXCEPT !.rows = rows])
           /\ [s EXCEPT !.rows = rows] =
                  [mIsLoggedIn |-> s.mIsLoggedIn, items |-> s.items, names |-> s.names,
                   rows |-> rows, requests |-> s.requests, channel |-> s.channel,
                   shown |-> s.shown]
<1> DEFINE t == [s EXCEPT !.rows = rows]
<1>1. t = [mIsLoggedIn |-> s.mIsLoggedIn, items |-> s.items, names |-> s.names,
           rows |-> rows, requests |-> s.requests, channel |-> s.channel, shown |-> s.shown]
  BY DEF Typed
<1>. HIDE DEF t
<1>2. Typed(t)
  BY <1>1 DEF Typed
<1>3. QED
  BY <1>1, <1>2 DEF t

\* The row goes.
Forget(s, a) == [s EXCEPT !.rows = IF a = "fullname" THEN s.rows ELSE Without(s.rows, a)]

\* What Changed does to an attribute that is in the map.
LEMMA ChangedIs ==
    ASSUME NEW s, Typed(s), NEW a \in DOMAIN s.items
    PROVE  Changed(s, a) =
               IF ~HasCallbacks(s, a) THEN Erase(Forget(s, a), a)
               ELSE IF a # "fullname" /\ s.items[a].pending # "not" THEN Forget(s, a)
               ELSE FetchAttr(Mark(Forget(s, a), a, "update"), a)
<1> DEFINE t == Forget(s, a)
           u == Mark(t, a, "update")
           c == Changed(s, a)
<1>1. a = "fullname" => s = t
  BY DEF Typed, Forget
<1>2. a # "fullname" => [s EXCEPT !.rows = Without(s.rows, a)] = t
  BY DEF Forget
<1>. HIDE DEF t
<1>3. CASE a = "fullname"
  <2>1. c = IF ~HasCallbacks(s, a) THEN Erase(s, a) ELSE FetchAttr(Mark(s, a, "update"), a)
    BY <1>3 DEF Changed, Mark
  <2>2. /\ Erase(s, a) = Erase(t, a)
        /\ FetchAttr(Mark(s, a, "update"), a) = FetchAttr(u, a)
    BY <1>1, <1>3
  <2>. HIDE DEF c, u
  <2>3. c = IF ~HasCallbacks(s, a) THEN Erase(t, a) ELSE FetchAttr(u, a)
    BY <2>1, <2>2
  <2>4. QED
    BY <1>3, <2>3 DEF c, u, t
<1>4. CASE a # "fullname"
  <2> DEFINE x == [s EXCEPT !.rows = Without(s.rows, a)]
  <2>1. c = IF ~HasCallbacks(s, a) THEN Erase(x, a)
            ELSE IF s.items[a].pending # "not" THEN x ELSE FetchAttr(Mark(x, a, "update"), a)
    BY <1>4 DEF Changed, Mark
  <2>2. x = t
    BY <1>2, <1>4
  <2>. HIDE DEF x
  <2>3. Erase(x, a) = Erase(t, a) /\ FetchAttr(Mark(x, a, "update"), a) = FetchAttr(u, a)
    BY <2>2
  <2>. HIDE DEF c, u
  <2>4. c = IF ~HasCallbacks(s, a) THEN Erase(t, a)
            ELSE IF s.items[a].pending # "not" THEN t ELSE FetchAttr(u, a)
    BY <2>1, <2>2, <2>3
  <2>5. QED
    BY <1>4, <2>4 DEF c, u, t
<1>5. QED
  BY <1>3, <1>4

LEMMA ChangedTyped ==
    ASSUME NEW s, Typed(s), AllWait(s.names), NEW a \in Attrs
    PROVE  Typed(Changed(s, a)) /\ AllWait(Changed(s, a).names) /\ Ages(s, Changed(s, a), a)
<1> DEFINE rows == IF a = "fullname" THEN s.rows ELSE Without(s.rows, a)
           t    == [s EXCEPT !.rows = rows]
           u    == Mark(t, a, "update")
           c    == Changed(s, a)
<1>1. SameNews(s.channel, s.channel)
  BY DEF SameNews
<1>2. CASE a \notin DOMAIN s.items
  <2>1. c = s
    BY <1>2 DEF Changed
  <2>2. Ages(s, s, a)
    BY <1>1, <1>2 DEF Ages
  <2>3. QED
    BY <2>1, <2>2
<1>3. CASE a \in DOMAIN s.items
  <2>1. RowsOk(s.rows)
    BY DEF Typed
  <2>2. /\ RowsOk(rows) /\ a \notin DOMAIN rows
        /\ \A b \in DOMAIN rows : b \in DOMAIN s.rows /\ rows[b] = s.rows[b]
    BY <2>1, AttrsDef DEF RowsOk, Without
  <2>3. c = IF ~HasCallbacks(s, a) THEN Erase(t, a)
            ELSE IF a # "fullname" /\ s.items[a].pending # "not" THEN t
            ELSE FetchAttr(u, a)
    <3>1. t = Forget(s, a)
      BY DEF Forget
    <3>. HIDE DEF t, c, rows
    <3>2. QED
      BY <1>3, <3>1, ChangedIs DEF c
  <2>. HIDE DEF rows, c
  <2>4. Typed(t)
    BY <2>2, RowsTyped
  <2>5. /\ t.items = s.items /\ t.names = s.names /\ t.rows = rows /\ t.channel = s.channel
        /\ t.mIsLoggedIn = s.mIsLoggedIn
    BY <2>2, RowsTyped
  <2>. HIDE DEF t
  <2>6. CASE ~HasCallbacks(s, a)
    <3>1. c = Erase(t, a)
      BY <2>3, <2>6
    <3>2. /\ Typed(c) /\ AllWait(c.names) /\ c.mIsLoggedIn = t.mIsLoggedIn /\ c.rows = t.rows
          /\ c.items = Without(t.items, a) /\ SameNews(t.channel, c.channel)
      BY <2>4, <2>5, <3>1, EraseTyped
    <3>3. /\ DOMAIN c.items = DOMAIN s.items \ {a}
          /\ \A b \in DOMAIN c.items : c.items[b] = s.items[b]
      BY <2>5, <3>2 DEF Without
    <3>4. Ages(s, c, a)
      BY <2>2, <2>5, <3>2, <3>3 DEF Ages
    <3>5. QED
      BY <3>2, <3>4 DEF c
  <2>7. CASE HasCallbacks(s, a) /\ a # "fullname" /\ s.items[a].pending # "not"
    <3>1. c = t
      BY <2>3, <2>7
    <3>2. Ages(s, c, a)
      BY <1>1, <2>2, <2>5, <2>7, <3>1 DEF Ages
    <3>3. QED
      BY <2>4, <2>5, <3>1, <3>2 DEF c
  <2>8. CASE HasCallbacks(s, a) /\ ~(a # "fullname" /\ s.items[a].pending # "not")
    <3>1. c = FetchAttr(u, a)
      BY <2>3, <2>8
    <3>2. /\ Typed(u) /\ Fetches(t, u) /\ AllWait(u.names) /\ a \in DOMAIN u.items
          /\ u.items[a].pending = "update"
      BY <1>3, <2>4, <2>5, PendingTyped
    <3>. HIDE DEF u
    <3>3. Typed(c) /\ Fetches(u, c) /\ AllWait(c.names)
      BY <3>1, <3>2, FetchAttrTyped
    <3>4. Fetches(t, c)
      BY <3>2, <3>3, FetchesTwice
    <3>5. a \in Standard /\ a \in DOMAIN c.items => c.items[a].pending # "not"
      BY <3>2, <3>3 DEF Fetches
    <3>6. Ages(s, c, a)
      BY <1>1, <2>2, <2>5, <3>4, <3>5 DEF Ages, Fetches
    <3>7. QED
      BY <3>3, <3>6 DEF c
  <2>9. QED
    BY <2>6, <2>7, <2>8
<1>4. QED
  BY <1>2, <1>3

LEMMA OnUserAttrChangeTyped ==
    ASSUME NEW s, Typed(s), AllWait(s.names), NEW a \in Standard
    PROVE  /\ Typed(OnUserAttrChange(s, a)) /\ AllWait(OnUserAttrChange(s, a).names)
           /\ Ages(s, OnUserAttrChange(s, a), a)
<1> DEFINE t == Changed(s, a)
<1>1. Typed(t) /\ AllWait(t.names) /\ Ages(s, t, a)
  BY ChangedTyped, AttrsDef
<1>2. OnUserAttrChange(s, a) = IF a \in Parts THEN Changed(t, "fullname") ELSE t
  BY DEF OnUserAttrChange
<1>. HIDE DEF t
<1>3. /\ Typed(Changed(t, "fullname")) /\ AllWait(Changed(t, "fullname").names)
      /\ Ages(t, Changed(t, "fullname"), "fullname")
  BY <1>1, ChangedTyped, AttrsDef
<1>4. Ages(s, Changed(t, "fullname"), a)
  BY <1>1, <1>3, AgesTwice
<1>5. QED
  BY <1>1, <1>2, <1>3, <1>4

\* invalidate() leaves no row and no value that is not to be fetched.
LEMMA InvalidateTyped ==
    ASSUME NEW s, Typed(s), AllWait(s.names)
    PROVE  /\ Typed(Invalidate(s)) /\ AllWait(Invalidate(s).names)
           /\ Invalidate(s).mIsLoggedIn = s.mIsLoggedIn /\ Invalidate(s).channel = s.channel
           /\ DOMAIN Invalidate(s).rows = {}
           /\ \A a \in DOMAIN Invalidate(s).items : Invalidate(s).items[a].pending = "update"
<1> DEFINE items == [a \in DOMAIN s.items |-> [s.items[a] EXCEPT !.pending = "update"]]
           rows  == <<>>
           t     == Invalidate(s)
<1>1. t = [mIsLoggedIn |-> s.mIsLoggedIn, items |-> items, names |-> s.names, rows |-> rows,
           requests |-> s.requests, channel |-> s.channel, shown |-> s.shown]
  <2>1. t = [s EXCEPT !.rows = rows, !.items = items]
    BY DEF Invalidate
  <2>. HIDE DEF items, rows, t
  <2>2. QED
    BY <2>1 DEF Typed
<1>2. ItemsOk(s.items)
  BY DEF Typed
<1>3. /\ ItemsOk(items) /\ DOMAIN items = DOMAIN s.items
      /\ \A a \in DOMAIN items : items[a].pending = "update"
  BY <1>2 DEF ItemsOk, Item, Pendings
<1>4. RowsOk(rows) /\ DOMAIN rows = {}
  BY DEF RowsOk
<1>. HIDE DEF items, rows, t
<1>5. Typed([s EXCEPT !.items = items])
  BY <1>3, ItemsTyped
<1>6. Typed([[s EXCEPT !.items = items] EXCEPT !.rows = rows])
  BY <1>4, <1>5, RowsTyped
<1>7. t = [[s EXCEPT !.items = items] EXCEPT !.rows = rows]
  <2> DEFINE x == [s EXCEPT !.items = items]
  <2>1. x = [mIsLoggedIn |-> s.mIsLoggedIn, items |-> items, names |-> s.names,
             rows |-> s.rows, requests |-> s.requests, channel |-> s.channel,
             shown |-> s.shown]
    BY DEF Typed
  <2>. HIDE DEF x
  <2>2. t = [x EXCEPT !.rows = rows]
    BY <1>1, <2>1
  <2>3. QED
    BY <2>2 DEF x
<1>8. /\ t.mIsLoggedIn = s.mIsLoggedIn /\ t.channel = s.channel /\ t.rows = rows
      /\ t.items = items /\ t.names = s.names
  BY <1>1
<1>9. QED
  BY <1>3, <1>4, <1>6, <1>7, <1>8 DEF t

\* removeCb() forgets what the subscriber was given.
LEMMA RemoveCbTyped ==
    ASSUME NEW s, Typed(s), AllWait(s.names), NEW a \in DOMAIN s.items
    PROVE  /\ Typed(RemoveCb(s, a)) /\ Fetches(s, RemoveCb(s, a))
           /\ AllWait(RemoveCb(s, a).names)
<1> DEFINE items == [s.items EXCEPT ![a].watched = FALSE]
           shown == [s.shown EXCEPT ![a] = Unknown]
           t     == [s EXCEPT !.items = items]
<1>1. RemoveCb(s, a) = [t EXCEPT !.shown = shown]
  BY DEF RemoveCb, Typed
<1>2. ItemsOk(s.items) /\ ShownOk(s.shown)
  BY DEF Typed
<1>3. DOMAIN items = DOMAIN s.items /\ ItemsOk(items)
  BY <1>2 DEF ItemsOk, Item
<1>4. \A b \in DOMAIN items : /\ items[b].pending = s.items[b].pending
                              /\ items[b].data = s.items[b].data
  BY <1>2 DEF ItemsOk, Item
<1>5. ShownOk(shown)
  BY <1>2 DEF ShownOk
<1>. HIDE DEF items, shown, t
<1>6. Typed(t)
  BY <1>3, ItemsTyped DEF t
<1>7. /\ t.names = s.names /\ t.items = items /\ t.rows = s.rows /\ t.channel = s.channel
      /\ t.mIsLoggedIn = s.mIsLoggedIn
  BY DEF Typed, t
<1>8. Fetches(s, t)
  BY <1>3, <1>4, <1>7 DEF Fetches
<1>9. /\ Typed([t EXCEPT !.shown = shown]) /\ Fetches(t, [t EXCEPT !.shown = shown])
      /\ AllWait([t EXCEPT !.shown = shown].names)
  BY <1>5, <1>6, <1>7, ShownTyped
<1>10. QED
  BY <1>1, <1>8, <1>9, FetchesTwice

-----------------------------------------------------------------------------
(* The answer of a request *)

\* The row of a value, none of a failure.
LEMMA DbWriteTyped ==
    ASSUME NEW s, Typed(s), NEW a \in Standard, NEW value \in Versions
    PROVE  /\ Typed(DbWrite(s, a, value))
           /\ DbWrite(s, a, value) =
                  [mIsLoggedIn |-> s.mIsLoggedIn, items |-> s.items, names |-> s.names,
                   rows |-> DbWrite(s, a, value).rows, requests |-> s.requests,
                   channel |-> s.channel, shown |-> s.shown]
           /\ DbWrite(s, a, value).rows =
                  IF value = Failed THEN s.rows ELSE Put(s.rows, a, value)
<1>1. CASE value = Failed
  BY <1>1 DEF DbWrite, Typed
<1>2. CASE value # Failed
  <2> DEFINE rows == Put(s.rows, a, value)
  <2>1. RowsOk(rows)
    BY <1>2, VersionsDef DEF Typed, RowsOk, Put
  <2>2. DbWrite(s, a, value) = [s EXCEPT !.rows = rows]
    BY <1>2 DEF DbWrite
  <2>. HIDE DEF rows
  <2>3. /\ Typed([s EXCEPT !.rows = rows])
        /\ [s EXCEPT !.rows = rows] =
               [mIsLoggedIn |-> s.mIsLoggedIn, items |-> s.items, names |-> s.names,
                rows |-> rows, requests |-> s.requests, channel |-> s.channel,
                shown |-> s.shown]
    BY <2>1, RowsTyped
  <2>4. QED
    BY <1>2, <2>2, <2>3 DEF rows
<1>3. QED
  BY <1>1, <1>2

\* What an answer does: the item has the value it brings, and its row unless it failed.
Answers(s, t, a, value) ==
    /\ t.mIsLoggedIn = s.mIsLoggedIn /\ t.channel = s.channel
    /\ t.rows = IF value = Failed THEN s.rows ELSE Put(s.rows, a, value)
    /\ DOMAIN s.items \subseteq DOMAIN t.items
    /\ \A b \in Standard \cap DOMAIN t.items :
          t.items[b].pending = "not" =>
              IF b = a /\ a \in DOMAIN s.items /\ t.items[b].data = value THEN TRUE
              ELSE /\ b \in DOMAIN s.items /\ s.items[b].pending = "not"
                   /\ t.items[b].data = s.items[b].data

\* The cache once the item is set and its callbacks are called, before the full names.
Settled(s, a, value) ==
    [mIsLoggedIn |-> s.mIsLoggedIn,
     items |-> [s.items EXCEPT ![a].data = value, ![a].pending = "not", ![a].asked = FALSE],
     names |-> [i \in DOMAIN s.names |->
                   IF Waiting(s.names[i], a) THEN [s.names[i] EXCEPT !.parts[a] = value]
                                             ELSE s.names[i]],
     rows  |-> DbWrite(s, a, value).rows,
     requests |-> s.requests, channel |-> s.channel,
     shown |-> [b \in DOMAIN s.shown |->
                   IF b = a /\ s.items[a].watched THEN value ELSE s.shown[b]]]

\* What it then holds.
Settles(s, u, a, value) ==
    /\ u.rows = IF value = Failed THEN s.rows ELSE Put(s.rows, a, value)
    /\ DOMAIN u.items = DOMAIN s.items
    /\ u.items[a].data = value /\ u.items[a].pending = "not" /\ u.items[a].asked = FALSE
    /\ u.items[a].watched = s.items[a].watched
    /\ \A b \in DOMAIN s.items : b # a => u.items[b] = s.items[b]

LEMMA ResolveIs ==
    ASSUME NEW s, Typed(s), NEW a \in Standard, a \in DOMAIN s.items, NEW value \in Versions
    PROVE  /\ Resolve(s, a, value) = CompleteNames(Settled(s, a, value))
           /\ Typed(Settled(s, a, value)) /\ Settles(s, Settled(s, a, value), a, value)
<1> DEFINE d     == DbWrite(s, a, value)
           items == [s.items EXCEPT ![a].data = value, ![a].pending = "not", ![a].asked = FALSE]
           shown == [b \in DOMAIN s.shown |->
                        IF b = a /\ s.items[a].watched THEN value ELSE s.shown[b]]
           names == [i \in DOMAIN s.names |->
                        IF Waiting(s.names[i], a) THEN [s.names[i] EXCEPT !.parts[a] = value]
                                                  ELSE s.names[i]]
           u     == [d EXCEPT !.items[a].data = value, !.items[a].pending = "not",
                              !.items[a].asked = FALSE,
                              !.shown = [b \in DOMAIN @ |->
                                  IF b = a /\ s.items[a].watched THEN value ELSE @[b]],
                              !.names = [i \in DOMAIN @ |->
                                  IF Waiting(@[i], a) THEN [@[i] EXCEPT !.parts[a] = value]
                                                      ELSE @[i]]]
<1>1. Resolve(s, a, value) = CompleteNames(u)
  BY DEF Resolve
<1>2. /\ Typed(d)
      /\ d = [mIsLoggedIn |-> s.mIsLoggedIn, items |-> s.items, names |-> s.names,
              rows |-> d.rows, requests |-> s.requests, channel |-> s.channel,
              shown |-> s.shown]
      /\ d.rows = IF value = Failed THEN s.rows ELSE Put(s.rows, a, value)
  BY DbWriteTyped
<1>. HIDE DEF d
<1>3. u = [mIsLoggedIn |-> s.mIsLoggedIn, items |-> items, names |-> names,
           rows |-> d.rows, requests |-> s.requests, channel |-> s.channel, shown |-> shown]
  <2> DEFINE items2 == [d.items EXCEPT ![a].data = value, ![a].pending = "not",
                                       ![a].asked = FALSE]
             shown2 == [b \in DOMAIN d.shown |->
                           IF b = a /\ s.items[a].watched THEN value ELSE d.shown[b]]
             names2 == [i \in DOMAIN d.names |->
                           IF Waiting(d.names[i], a)
                           THEN [d.names[i] EXCEPT !.parts[a] = value] ELSE d.names[i]]
  <2>1. d.items = s.items /\ d.shown = s.shown /\ d.names = s.names
    BY <1>2
  <2>2. items2 = items /\ shown2 = shown /\ names2 = names
    BY <2>1
  <2>0. d = [mIsLoggedIn |-> d.mIsLoggedIn, items |-> d.items, names |-> d.names,
             rows |-> d.rows, requests |-> d.requests, channel |-> d.channel,
             shown |-> d.shown]
    BY <1>2 DEF Typed
  <2>3. u = [d EXCEPT !.items = items2, !.shown = shown2, !.names = names2]
    <3> DEFINE x1 == [d EXCEPT !.items[a].data = value]
               x2 == [x1 EXCEPT !.items[a].pending = "not"]
               x3 == [x2 EXCEPT !.items[a].asked = FALSE]
               x4 == [x3 EXCEPT !.shown = shown2]
               x5 == [x4 EXCEPT !.names = names2]
    <3>1. u = x5
      BY <2>0
    <3>2. x3 = [d EXCEPT !.items = items2]
      BY <2>0
    <3>. HIDE DEF x3, items2, shown2, names2, u
    <3>3. QED
      BY <2>0, <3>1, <3>2
  <2>. HIDE DEF items, shown, names, items2, shown2, names2, u
  <2>4. u = [d EXCEPT !.items = items, !.shown = shown, !.names = names]
    BY <2>2, <2>3
  <2>5. d = [mIsLoggedIn |-> s.mIsLoggedIn, items |-> s.items, names |-> s.names,
             rows |-> d.rows, requests |-> s.requests, channel |-> s.channel,
             shown |-> s.shown]
    BY <1>2
  <2>6. u = [mIsLoggedIn |-> d.mIsLoggedIn, items |-> items, names |-> names, rows |-> d.rows,
             requests |-> d.requests, channel |-> d.channel, shown |-> shown]
    BY <2>0, <2>4
  <2>7. /\ d.mIsLoggedIn = s.mIsLoggedIn /\ d.requests = s.requests
        /\ d.channel = s.channel
    BY <2>5
  <2>8. QED
    BY <2>6, <2>7
<1>4. ItemsOk(s.items) /\ ShownOk(s.shown) /\ NamesOk(s.names, s.items) /\ Values(a) = Versions
  BY AttrsDef DEF Typed
<1>5. /\ DOMAIN items = DOMAIN s.items /\ ItemsOk(items)
      /\ items[a].data = value /\ items[a].pending = "not" /\ items[a].asked = FALSE
      /\ items[a].watched = s.items[a].watched
      /\ \A b \in DOMAIN items : b # a => items[b] = s.items[b]
  <2> DEFINE f == [s.items EXCEPT ![a].data = value]
             g == [f EXCEPT ![a].pending = "not"]
  <2>1. /\ DOMAIN f = DOMAIN s.items /\ ItemsOk(f) /\ f[a].data = value
        /\ f[a].watched = s.items[a].watched
        /\ \A b \in DOMAIN f : b # a => f[b] = s.items[b]
    BY <1>4 DEF ItemsOk, Item
  <2>2. items = [g EXCEPT ![a].asked = FALSE]
    OBVIOUS
  <2>. HIDE DEF f, items
  <2>3. /\ DOMAIN g = DOMAIN f /\ ItemsOk(g) /\ g[a].data = f[a].data
        /\ g[a].pending = "not" /\ g[a].watched = f[a].watched
        /\ \A b \in DOMAIN g : b # a => g[b] = f[b]
    BY <2>1 DEF ItemsOk, Item, Pendings
  <2>. HIDE DEF g
  <2>4. /\ DOMAIN items = DOMAIN g /\ \A b \in DOMAIN items : b # a => items[b] = g[b]
        /\ a \in DOMAIN g /\ items[a] = [g[a] EXCEPT !.asked = FALSE]
    BY <2>1, <2>2, <2>3
  <2>5. g[a] \in Item(a)
    BY <2>3, <2>4 DEF ItemsOk
  <2>6. /\ items[a] \in Item(a) /\ items[a].data = g[a].data /\ items[a].asked = FALSE
        /\ items[a].pending = g[a].pending /\ items[a].watched = g[a].watched
    BY <2>4, <2>5 DEF Item
  <2>7. ItemsOk(items)
    BY <2>3, <2>4, <2>6 DEF ItemsOk
  <2>8. QED
    BY <2>1, <2>3, <2>4, <2>6, <2>7
<1>6. ShownOk(shown)
  BY <1>4 DEF ShownOk
<1>7. NamesOk(names, items)
  <2>1. \A m \in Name : LET n == [m EXCEPT !.parts[a] = value]
                        IN n \in Name /\ n.live = m.live
    BY DEF Name
  <2>2. /\ Len(s.names) \in Nat /\ DOMAIN s.names = 1 .. Len(s.names)
        /\ \A i \in DOMAIN s.names : s.names[i] \in Name
    BY <1>4 DEF NamesOk
  <2>3. \A i \in 1 .. Len(s.names) : names[i] \in Name /\ names[i].live = s.names[i].live
    BY <2>1, <2>2
  <2>4. names = [i \in 1 .. Len(s.names) |-> names[i]] /\ DOMAIN names = DOMAIN s.names
    BY <2>2
  <2>. HIDE DEF names
  <2>5. \A i \in 1 .. Len(s.names) : names[i] \in Name
    BY <2>3
  <2>6. names \in Seq(Name)
    BY <2>2, <2>4, <2>5, SequenceOf
  <2>7. QED
    BY <1>4, <1>5, <2>2, <2>3, <2>4, <2>6 DEF NamesOk
<1>0. u = Settled(s, a, value)
  <2>. HIDE DEF u
  <2>1. QED
    BY <1>3 DEF Settled, d
<1>. HIDE DEF items, shown, names, u
<1>8. /\ u.items = items /\ u.names = names /\ u.rows = d.rows /\ u.requests = s.requests
      /\ u.channel = s.channel /\ u.shown = shown /\ u.mIsLoggedIn = s.mIsLoggedIn
  BY <1>3
<1>9. RowsOk(d.rows)
  BY <1>2 DEF Typed
<1>10. Held(s.requests, items) /\ Held(s.channel, items)
  BY <1>5, HeldMore DEF Typed
<1>11. Typed(u)
  BY <1>3, <1>5, <1>6, <1>7, <1>8, <1>9, <1>10 DEF Typed
<1>12. QED
  BY <1>0, <1>1, <1>2, <1>5, <1>8, <1>11 DEF Settles

LEMMA ResolveTyped ==
    ASSUME NEW s, Typed(s), NEW a \in Standard, a \in DOMAIN s.items, NEW value \in Versions
    PROVE  /\ Typed(Resolve(s, a, value)) /\ AllWait(Resolve(s, a, value).names)
           /\ Answers(s, Resolve(s, a, value), a, value)
<1> DEFINE u == Settled(s, a, value)
           t == CompleteNames(u)
<1>1. Resolve(s, a, value) = t /\ Typed(u) /\ Settles(s, u, a, value)
  BY ResolveIs
<1>2. u.mIsLoggedIn = s.mIsLoggedIn /\ u.channel = s.channel
  BY DEF Settled
<1>. HIDE DEF u
<1>3. Typed(t) /\ Fetches(u, t) /\ AllWait(t.names)
  BY <1>1, CompleteNamesTyped
<1>. HIDE DEF t
<1>4. Answers(s, t, a, value)
  BY <1>1, <1>2, <1>3 DEF Answers, Fetches, Settles
<1>5. QED
  BY <1>1, <1>3, <1>4

-----------------------------------------------------------------------------
(* What is marshalled *)

\* The SDK posts a message to a client that is connected.
LEMMA PostTyped ==
    ASSUME NEW s, Typed(s), s.mIsLoggedIn, NEW kind, NEW attr, NEW live, NEW value,
           [kind |-> kind, attr |-> attr, live |-> live, value |-> value] \in Message,
           live => attr \in DOMAIN s.items
    PROVE  /\ Typed(Post(s, kind, attr, live, value))
           /\ Post(s, kind, attr, live, value) =
                  [s EXCEPT !.channel = Append(s.channel, [kind |-> kind, attr |-> attr,
                                                           live |-> live, value |-> value])]
<1> DEFINE m == [kind |-> kind, attr |-> attr, live |-> live, value |-> value]
           c == Append(s.channel, m)
           t == Post(s, kind, attr, live, value)
<1>1. t = [s EXCEPT !.channel = c]
  BY DEF Post
<1>2. m.live = live /\ m.attr = attr /\ m \in Message
  OBVIOUS
<1>. HIDE DEF m
<1>3. s.channel \in Seq(Message) /\ Held(s.channel, s.items)
  BY DEF Typed
<1>4. /\ c \in Seq(Message) /\ Len(s.channel) \in Nat /\ DOMAIN c = 1 .. Len(s.channel) + 1
      /\ DOMAIN s.channel = 1 .. Len(s.channel)
      /\ c[Len(s.channel) + 1] = m /\ \A i \in DOMAIN s.channel : c[i] = s.channel[i]
  BY <1>2, <1>3
<1>5. Held(c, s.items)
  BY <1>2, <1>3, <1>4 DEF Held
<1>. HIDE DEF c
<1>6. /\ t.names = s.names /\ t.items = s.items /\ t.rows = s.rows
      /\ t.requests = s.requests /\ t.channel = c /\ t.shown = s.shown
      /\ t.mIsLoggedIn = s.mIsLoggedIn
      /\ t = [mIsLoggedIn |-> t.mIsLoggedIn, items |-> t.items, names |-> t.names,
              rows |-> t.rows, requests |-> t.requests, channel |-> t.channel,
              shown |-> t.shown]
  BY <1>1 DEF Typed
<1>. HIDE DEF t
<1>7. Typed(t)
  BY <1>4, <1>5, <1>6 DEF Typed
<1>8. QED
  BY <1>1, <1>7 DEF c, m, t

-----------------------------------------------------------------------------
(* Versions *)

\* the changes of an attribute among the first of a log
Count(log, a, n) == Cardinality({i \in 1 .. n : log[i] = a})

LEMMA CountNat == ASSUME NEW log, NEW a, NEW n \in Nat
                  PROVE  /\ Count(log, a, n) \in Nat
                         /\ IsFiniteSet({i \in 1 .. n : log[i] = a})
<1>1. IsFiniteSet(1 .. n)
  BY FS_Interval
<1>2. IsFiniteSet({i \in 1 .. n : log[i] = a})
  BY <1>1, FS_Subset
<1>3. QED
  BY <1>2, FS_CardinalityType DEF Count

\* A version only grows.
LEMMA CountGrows ==
    ASSUME NEW log, NEW a, NEW m \in Nat, NEW n \in Nat, m <= n
    PROVE  Count(log, a, m) <= Count(log, a, n)
<1>1. {i \in 1 .. m : log[i] = a} \subseteq {i \in 1 .. n : log[i] = a}
  OBVIOUS
<1>2. IsFiniteSet({i \in 1 .. n : log[i] = a})
  BY CountNat
<1>3. QED
  BY <1>1, <1>2, FS_Subset DEF Count

\* A change of another attribute leaves it.
LEMMA CountOther ==
    ASSUME NEW log, NEW a, NEW n \in Nat, log[n + 1] # a
    PROVE  Count(log, a, n + 1) = Count(log, a, n)
<1>1. {i \in 1 .. n + 1 : log[i] = a} = {i \in 1 .. n : log[i] = a}
  OBVIOUS
<1>2. QED
  BY <1>1 DEF Count

\* A change on the server leaves the versions it had.
LEMMA CountKept ==
    ASSUME NEW S, NEW log \in Seq(S), NEW b \in S, NEW a, NEW n \in 0 .. Len(log)
    PROVE  Count(Append(log, b), a, n) = Count(log, a, n)
<1>1. \A i \in 1 .. n : Append(log, b)[i] = log[i]
  OBVIOUS
<1>2. {i \in 1 .. n : Append(log, b)[i] = a} = {i \in 1 .. n : log[i] = a}
  BY <1>1
<1>3. QED
  BY <1>2 DEF Count

-----------------------------------------------------------------------------
(* How far what is marshalled takes the client *)

\* a message takes the client from i to j changes
Step(m, i, j, log) ==
    /\ m.kind = "answer" => j = i
    /\ m.kind = "change" => j = i + 1 /\ log[j] = m.attr
    /\ m.kind = "commit" => j = i /\ m.value = j
    /\ m.kind = "reload" => m.value = j

Positions(n, channel, from, to, log) ==
    /\ n \in [0 .. Len(channel) -> 0 .. Len(log)]
    /\ n[0] = from /\ n[Len(channel)] = to
    /\ \A i \in 1 .. Len(channel) : Step(channel[i], n[i - 1], n[i], log)

Reaches(channel, from, to, log) == \E n : Positions(n, channel, from, to, log)

LEMMA ReachesNothing ==
    ASSUME NEW log, Len(log) \in Nat, NEW from \in 0 .. Len(log)
    PROVE  Reaches(<<>>, from, from, log)
<1>1. Positions([i \in 0 .. 0 |-> from], <<>>, from, from, log)
  BY DEF Positions
<1>2. QED
  BY <1>1 DEF Reaches

LEMMA ReachesEnds ==
    ASSUME NEW channel \in Seq(Message), NEW from, NEW to, NEW log, Reaches(channel, from, to, log)
    PROVE  /\ from \in 0 .. Len(log) /\ to \in 0 .. Len(log)
           /\ channel = <<>> => from = to
<1>1. PICK n : Positions(n, channel, from, to, log)
  BY DEF Reaches
<1>2. Len(channel) \in Nat
  OBVIOUS
<1>3. QED
  BY <1>1, <1>2 DEF Positions

\* One more message.
LEMMA ReachesOneMore ==
    ASSUME NEW channel \in Seq(Message), NEW from, NEW to, NEW log, Reaches(channel, from, to, log),
           NEW m \in Message, NEW j \in 0 .. Len(log), Step(m, to, j, log)
    PROVE  Reaches(Append(channel, m), from, j, log)
<1>1. PICK n : Positions(n, channel, from, to, log)
  BY DEF Reaches
<1> DEFINE k == Len(channel)
           c == Append(channel, m)
           p == [i \in 0 .. k + 1 |-> IF i <= k THEN n[i] ELSE j]
<1>2. k \in Nat /\ Len(c) = k + 1 /\ c[k + 1] = m /\ \A i \in 1 .. k : c[i] = channel[i]
  OBVIOUS
<1>3. /\ n \in [0 .. k -> 0 .. Len(log)] /\ n[0] = from /\ n[k] = to
      /\ \A i \in 1 .. k : Step(channel[i], n[i - 1], n[i], log)
  BY <1>1 DEF Positions
<1>. HIDE DEF k, c
<1>4. /\ p \in [0 .. k + 1 -> 0 .. Len(log)] /\ p[0] = from /\ p[k + 1] = j /\ p[k] = to
      /\ \A i \in 0 .. k : p[i] = n[i]
  BY <1>2, <1>3
<1>. HIDE DEF p
<1>5. ASSUME NEW i \in 1 .. k + 1 PROVE Step(c[i], p[i - 1], p[i], log)
  <2>1. CASE i = k + 1
    <3>1. i - 1 = k
      BY <1>2, <2>1
    <3>2. QED
      BY <1>2, <1>4, <2>1, <3>1
  <2>2. CASE i \in 1 .. k
    <3>1. i - 1 \in 0 .. k /\ i \in 0 .. k
      BY <1>2, <2>2
    <3>2. QED
      BY <1>2, <1>3, <1>4, <2>2, <3>1
  <2>3. QED
    BY <1>2, <2>1, <2>2
<1>6. Positions(p, c, from, j, log)
  BY <1>2, <1>4, <1>5 DEF Positions
<1>7. QED
  BY <1>6 DEF Reaches, c

\* The first message is received.
LEMMA ReachesOneLess ==
    ASSUME NEW channel \in Seq(Message), NEW from, NEW to, NEW log, Reaches(channel, from, to, log),
           channel # <<>>
    PROVE  \E j \in 0 .. Len(log) :
               Step(Head(channel), from, j, log) /\ Reaches(Tail(channel), j, to, log)
<1>1. PICK n : Positions(n, channel, from, to, log)
  BY DEF Reaches
<1> DEFINE k == Len(channel)
           c == Tail(channel)
           p == [i \in 0 .. k - 1 |-> n[i + 1]]
<1>2. /\ k \in Nat /\ k # 0 /\ Len(c) = k - 1 /\ Head(channel) = channel[1]
      /\ \A i \in 1 .. k - 1 : c[i] = channel[i + 1]
  OBVIOUS
<1>3. /\ n \in [0 .. k -> 0 .. Len(log)] /\ n[0] = from /\ n[k] = to
      /\ \A i \in 1 .. k : Step(channel[i], n[i - 1], n[i], log)
  BY <1>1 DEF Positions
<1>. HIDE DEF k, c
<1>4. /\ p \in [0 .. k - 1 -> 0 .. Len(log)] /\ p[0] = n[1] /\ p[k - 1] = to
      /\ \A i \in 0 .. k - 1 : p[i] = n[i + 1]
  BY <1>2, <1>3
<1>. HIDE DEF p
<1>5. ASSUME NEW i \in 1 .. k - 1 PROVE Step(c[i], p[i - 1], p[i], log)
  <2>1. i + 1 \in 1 .. k /\ i \in 0 .. k - 1 /\ i - 1 \in 0 .. k - 1 /\ (i + 1) - 1 = i
        /\ (i - 1) + 1 = i
    BY <1>2
  <2>2. Step(channel[i + 1], n[(i + 1) - 1], n[i + 1], log)
    BY <1>3, <2>1
  <2>3. p[i] = n[i + 1] /\ p[i - 1] = n[i]
    BY <1>4, <2>1
  <2>4. QED
    BY <1>2, <2>1, <2>2, <2>3
<1>6. Positions(p, c, n[1], to, log)
  BY <1>2, <1>4, <1>5 DEF Positions
<1>7. Step(Head(channel), from, n[1], log) /\ n[1] \in 0 .. Len(log)
  <2>1. 1 \in 1 .. k /\ 1 - 1 = 0 /\ 1 \in 0 .. k
    BY <1>2
  <2>2. QED
    BY <1>2, <1>3, <2>1
<1>8. QED
  BY <1>6, <1>7 DEF Reaches, c

\* It is the same whether or not the items are still there.
LEMMA ReachesSame ==
    ASSUME NEW c, NEW d, SameNews(c, d), Len(c) \in Nat, DOMAIN c = 1 .. Len(c),
           NEW from, NEW to, NEW log, Reaches(c, from, to, log)
    PROVE  Reaches(d, from, to, log)
<1>1. PICK n : Positions(n, c, from, to, log)
  BY DEF Reaches
<1>2. Len(d) = Len(c)
  BY DEF SameNews
<1>3. \A i \in 1 .. Len(c) : Step(d[i], n[i - 1], n[i], log)
  <2>1. SUFFICES ASSUME NEW i \in 1 .. Len(c) PROVE Step(d[i], n[i - 1], n[i], log)
    OBVIOUS
  <2>2. Step(c[i], n[i - 1], n[i], log)
    BY <1>1 DEF Positions
  <2>3. d[i].kind = c[i].kind /\ d[i].attr = c[i].attr /\ d[i].value = c[i].value
    BY DEF SameNews
  <2>4. QED
    BY <2>2, <2>3 DEF Step
<1>4. Positions(n, d, from, to, log)
  BY <1>1, <1>2, <1>3 DEF Positions
<1>5. QED
  BY <1>4 DEF Reaches

\* A change on the server comes after them all.
LEMMA ReachesLater ==
    ASSUME NEW channel \in Seq(Message), NEW from, NEW to, NEW log \in Seq(Standard),
           Reaches(channel, from, to, log), NEW a \in Standard
    PROVE  Reaches(channel, from, to, Append(log, a))
<1>1. PICK n : Positions(n, channel, from, to, log)
  BY DEF Reaches
<1> DEFINE more == Append(log, a)
<1>2. Len(log) \in Nat /\ Len(more) = Len(log) + 1 /\ \A i \in 1 .. Len(log) : more[i] = log[i]
  OBVIOUS
<1>3. /\ n \in [0 .. Len(channel) -> 0 .. Len(log)]
      /\ \A i \in 1 .. Len(channel) : Step(channel[i], n[i - 1], n[i], log)
  BY <1>1 DEF Positions
<1>4. ASSUME NEW i \in 1 .. Len(channel) PROVE Step(channel[i], n[i - 1], n[i], more)
  <2>1. Step(channel[i], n[i - 1], n[i], log)
    BY <1>3
  <2>2. Len(channel) \in Nat
    OBVIOUS
  <2>3. i \in 0 .. Len(channel) /\ i - 1 \in 0 .. Len(channel)
    BY <2>2
  <2>4. n[i] \in 0 .. Len(log) /\ n[i - 1] \in 0 .. Len(log)
    BY <1>3, <2>3
  <2>. HIDE DEF more
  <2>5. channel[i].kind = "change" => more[n[i]] = log[n[i]]
    BY <1>2, <2>1, <2>4 DEF Step
  <2>6. QED
    BY <2>1, <2>5 DEF Step
<1>. HIDE DEF more
<1>5. n \in [0 .. Len(channel) -> 0 .. Len(more)]
  BY <1>2, <1>3
<1>6. Positions(n, channel, from, to, more)
  BY <1>1, <1>4, <1>5 DEF Positions
<1>7. QED
  BY <1>6 DEF Reaches, more

-----------------------------------------------------------------------------
(* The invariant *)

ItemsAt(items, n, log, skip) ==
    \A a \in Standard \ skip :
        a \in DOMAIN items /\ items[a].pending = "not" /\ items[a].data # Failed
            => items[a].data >= Count(log, a, n)

RowsAt(rows, n, log, skip) ==
    \A a \in Standard \ skip : a \in DOMAIN rows => rows[a] >= Count(log, a, n)

SdkOk ==
    /\ sdk = [log |-> sdk.log, seen |-> sdk.seen, committed |-> sdk.committed,
              fetched |-> sdk.fetched]
    /\ sdk.log \in Seq(Standard)
    /\ sdk.seen \in 0 .. Len(sdk.log) /\ sdk.committed \in 0 .. Len(sdk.log)

DiskOk ==
    /\ disk = [rows |-> disk.rows, scsn |-> disk.scsn]
    /\ RowsOk(disk.rows) /\ disk.scsn \in 0 .. Len(sdk.log)

Types ==
    /\ Typed(cache) /\ AllWait(cache.names)
    /\ SdkOk /\ DiskOk /\ orphans \subseteq Standard /\ overtaken \subseteq Standard

\* The attributes that are left out: their rows were orphaned, or their answers overtaken.
Excepted == orphans \cup overtaken

\* What is marshalled takes the client from what it has been told of to what the SDK knows.
UnderWay == Reaches(cache.channel, told, sdk.seen, sdk.log)

\* A row has its item, unless the item had gone when it was written.
RowsKnown == \A a \in DOMAIN cache.rows : a \in DOMAIN cache.items \/ a \in orphans

\* The changes the cache answers for: before the login, those of the last commit.
Since == IF cache.mIsLoggedIn THEN told ELSE disk.scsn

Memory ==
    /\ ItemsAt(cache.items, Since, sdk.log, Excepted)
    /\ RowsAt(cache.rows, Since, sdk.log, Excepted)

Saved ==
    /\ RowsAt(disk.rows, disk.scsn, sdk.log, Excepted)
    /\ cache.mIsLoggedIn => disk.scsn <= told

CacheInv == Types /\ UnderWay /\ RowsKnown /\ Memory /\ Saved

\* A version of the log is a count of its changes.
LEMMA VersionIsCount ==
    /\ \A a, n : Version(a, n) = Count(sdk.log, a, n)
    /\ \A a, n : Version(a, n)' = Count(sdk'.log, a, n)
BY DEF Version, Count

LEMMA InvRanges ==
    ASSUME CacheInv
    PROVE  /\ told \in 0 .. Len(sdk.log) /\ Len(sdk.log) \in Nat /\ Since \in 0 .. Len(sdk.log)
           /\ cache.channel = <<>> => told = sdk.seen
           /\ cache.channel \in Seq(Message)
<1>1. cache.channel \in Seq(Message)
  BY DEF CacheInv, Types, Typed
<1>2. /\ told \in 0 .. Len(sdk.log) /\ (cache.channel = <<>> => told = sdk.seen)
  BY <1>1, ReachesEnds DEF CacheInv, UnderWay
<1>3. Len(sdk.log) \in Nat /\ disk.scsn \in 0 .. Len(sdk.log)
  BY DEF CacheInv, Types, SdkOk, DiskOk
<1>4. QED
  BY <1>1, <1>2, <1>3 DEF Since

\* An action that only asks for attributes.
LEMMA FetchesKeeps ==
    ASSUME CacheInv, Typed(cache'), AllWait(cache'.names), Fetches(cache, cache'),
           UNCHANGED <<sdk, disk, told, orphans, overtaken>>
    PROVE  CacheInv'
<1>1. Types'
  BY DEF CacheInv, Types, SdkOk, DiskOk
<1>2. UnderWay'
  BY DEF CacheInv, UnderWay, Fetches
<1>3. RowsKnown'
  BY DEF CacheInv, RowsKnown, Fetches
<1>4. Since' = Since
  BY DEF Since, Fetches
<1>5. Memory'
  BY <1>4 DEF CacheInv, Memory, ItemsAt, RowsAt, Fetches, Excepted
<1>6. Saved'
  BY DEF CacheInv, Saved, Fetches, Excepted
<1>7. QED
  BY <1>1, <1>2, <1>3, <1>5, <1>6 DEF CacheInv

\* An action that only posts a message, or takes a request.
LEMMA PostKeeps ==
    ASSUME CacheInv, Types', UnderWay', UNCHANGED <<disk, told, orphans, overtaken>>,
           sdk'.log = sdk.log, cache'.items = cache.items, cache'.rows = cache.rows,
           cache'.mIsLoggedIn = cache.mIsLoggedIn
    PROVE  CacheInv'
<1>1. RowsKnown'
  BY DEF CacheInv, RowsKnown
<1>2. Memory'
  BY DEF CacheInv, Memory, Since, Excepted
<1>3. Saved'
  BY DEF CacheInv, Saved, Excepted
<1>4. QED
  BY <1>1, <1>2, <1>3 DEF CacheInv

-----------------------------------------------------------------------------
(* The steps *)

\* What is loaded from the rows.
LEMMA LoadedTyped ==
    ASSUME NEW rows, RowsOk(rows)
    PROVE  /\ Typed(Loaded(rows)) /\ AllWait(Loaded(rows).names)
           /\ Loaded(rows).mIsLoggedIn = FALSE /\ Loaded(rows).channel = <<>>
           /\ Loaded(rows).rows = rows /\ DOMAIN Loaded(rows).items = DOMAIN rows
           /\ \A a \in DOMAIN rows : Loaded(rows).items[a].data = rows[a]
<1> DEFINE items == [a \in DOMAIN rows |->
                        [pending |-> "not", data |-> rows[a], watched |-> FALSE, asked |-> FALSE]]
           shown == [a \in Watchable |-> Unknown]
           none  == <<>>
           t     == Loaded(rows)
<1>1. t = [mIsLoggedIn |-> FALSE, items |-> items, names |-> none, rows |-> rows,
           requests |-> none, channel |-> none, shown |-> shown]
  BY DEF Loaded
<1>2. /\ DOMAIN items = DOMAIN rows
      /\ \A a \in DOMAIN rows : items[a].data = rows[a]
  OBVIOUS
<1>3. ItemsOk(items)
  <2>1. ASSUME NEW a \in DOMAIN rows PROVE items[a] \in Item(a)
    <3>1. a \in Standard /\ rows[a] \in Nat
      BY DEF RowsOk
    <3>2. rows[a] \in Values(a)
      BY <3>1, AttrsDef, VersionsDef
    <3>3. QED
      BY <3>2 DEF Item, Pendings
  <2>2. DOMAIN rows \subseteq Attrs
    BY AttrsDef DEF RowsOk
  <2>. HIDE DEF items
  <2>3. QED
    BY <1>2, <2>1, <2>2 DEF ItemsOk
<1>4. ShownOk(shown)
  BY DEF ShownOk
<1>5. /\ DOMAIN none = {} /\ none \in Seq(Name) /\ none \in Seq(Request)
      /\ none \in Seq(Message) /\ none = <<>>
  OBVIOUS
<1>. HIDE DEF items, shown, none, t
<1>6. NamesOk(none, items) /\ Held(none, items) /\ AllWait(none)
  BY <1>5 DEF NamesOk, Held, AllWait
<1>7. /\ t.mIsLoggedIn = FALSE /\ t.items = items /\ t.names = none /\ t.rows = rows
      /\ t.requests = none /\ t.channel = none /\ t.shown = shown
      /\ t = [mIsLoggedIn |-> t.mIsLoggedIn, items |-> t.items, names |-> t.names,
              rows |-> t.rows, requests |-> t.requests, channel |-> t.channel,
              shown |-> t.shown]
  BY <1>1
<1>8. Typed(t)
  BY <1>3, <1>4, <1>5, <1>6, <1>7 DEF Typed
<1>9. QED
  BY <1>2, <1>5, <1>6, <1>7, <1>8 DEF t

LEMMA InitInv == Init => CacheInv
<1>1. SUFFICES ASSUME Init PROVE CacheInv
  OBVIOUS
<1>2. RowsOk(<<>>) /\ \A log, n, skip : RowsAt(<<>>, n, log, skip)
  BY DEF RowsOk, RowsAt
<1>3. /\ sdk = [log |-> <<>>, seen |-> 0, committed |-> 0, fetched |-> TRUE]
      /\ disk = [rows |-> <<>>, scsn |-> 0] /\ told = 0 /\ orphans = {} /\ overtaken = {}
  BY <1>1 DEF Init
<1>4. /\ Typed(cache) /\ AllWait(cache.names) /\ cache.channel = <<>> /\ cache.rows = <<>>
      /\ DOMAIN cache.items = {} /\ cache.mIsLoggedIn = FALSE
  <2> DEFINE none == <<>>
  <2>1. cache = Loaded(none)
    BY <1>1 DEF Init
  <2>2. RowsOk(none) /\ DOMAIN none = {}
    BY <1>2
  <2>3. none = <<>>
    OBVIOUS
  <2>. HIDE DEF none
  <2>4. /\ Typed(cache) /\ AllWait(cache.names) /\ cache.mIsLoggedIn = FALSE
        /\ cache.channel = <<>> /\ cache.rows = none /\ DOMAIN cache.items = DOMAIN none
    BY <2>1, <2>2, LoadedTyped
  <2>5. QED
    BY <2>2, <2>3, <2>4
<1>5. SdkOk /\ DiskOk
  BY <1>2, <1>3 DEF SdkOk, DiskOk
<1>6. Types
  BY <1>3, <1>4, <1>5 DEF Types
<1>7. UnderWay
  <2>1. Len(sdk.log) = 0 /\ told = 0 /\ sdk.seen = 0
    BY <1>3
  <2>2. Reaches(<<>>, told, told, sdk.log)
    BY <2>1, ReachesNothing
  <2>3. QED
    BY <1>4, <2>1, <2>2 DEF UnderWay
<1>8. RowsKnown /\ Memory /\ Saved
  BY <1>2, <1>3, <1>4 DEF RowsKnown, Memory, Saved, ItemsAt
<1>9. QED
  BY <1>6, <1>7, <1>8 DEF CacheInv

LEMMA WatchInv ==
    ASSUME CacheInv, NEW a \in Watchable, NEW fetch \in BOOLEAN, Watch(a, fetch)
    PROVE  CacheInv'
<1>1. Typed(cache) /\ AllWait(cache.names) /\ a \in Attrs
  BY AttrsDef DEF CacheInv, Types
<1>2. /\ cache' = GetAttr(cache, a, "watch", fetch)
      /\ UNCHANGED <<sdk, disk, told, orphans, overtaken>>
  BY DEF Watch
<1>3. Typed(cache') /\ Fetches(cache, cache') /\ AllWait(cache'.names)
  BY <1>1, <1>2, GetAttrTyped
<1>4. QED
  BY <1>2, <1>3, FetchesKeeps

LEMMA UnwatchInv ==
    ASSUME CacheInv, NEW a \in Watchable, Unwatch(a)
    PROVE  CacheInv'
<1>1. Typed(cache) /\ AllWait(cache.names)
  BY DEF CacheInv, Types
<1>2. /\ a \in DOMAIN cache.items /\ cache' = RemoveCb(cache, a)
      /\ UNCHANGED <<sdk, disk, told, orphans, overtaken>>
  BY DEF Unwatch
<1>3. Typed(cache') /\ Fetches(cache, cache') /\ AllWait(cache'.names)
  BY <1>1, <1>2, RemoveCbTyped
<1>4. QED
  BY <1>2, <1>3, FetchesKeeps

LEMMA GetInv ==
    ASSUME CacheInv, NEW a \in Attrs, NEW cb \in {"ask", "none"}, Get(a, cb)
    PROVE  CacheInv'
<1>1. Typed(cache) /\ AllWait(cache.names)
  BY DEF CacheInv, Types
<1>2. /\ cache' = GetAttr(cache, a, cb, TRUE)
      /\ UNCHANGED <<sdk, disk, told, orphans, overtaken>>
  BY DEF Get
<1>3. Typed(cache') /\ Fetches(cache, cache') /\ AllWait(cache'.names)
  BY <1>1, <1>2, GetAttrTyped
<1>4. QED
  BY <1>2, <1>3, FetchesKeeps

LEMMA ChangeInv ==
    ASSUME CacheInv, NEW a \in Standard, Change(a)
    PROVE  CacheInv'
<1> DEFINE log == sdk.log
<1>1. /\ sdk' = [sdk EXCEPT !.log = Append(log, a)]
      /\ UNCHANGED <<cache, disk, told, orphans, overtaken>>
  BY DEF Change
<1>2. SdkOk /\ DiskOk /\ log \in Seq(Standard)
  BY DEF CacheInv, Types, SdkOk
<1>3. /\ Append(log, a) \in Seq(Standard) /\ Len(Append(log, a)) = Len(log) + 1
      /\ Len(log) \in Nat
  BY <1>2
<1>4. /\ sdk'.log = Append(log, a) /\ sdk'.seen = sdk.seen /\ sdk'.committed = sdk.committed
      /\ sdk' = [log |-> sdk'.log, seen |-> sdk'.seen, committed |-> sdk'.committed,
                 fetched |-> sdk'.fetched]
  BY <1>1, <1>2 DEF SdkOk
<1>. HIDE DEF log
<1>5. SdkOk'
  BY <1>2, <1>3, <1>4 DEF SdkOk, log
<1>6. DiskOk'
  BY <1>1, <1>2, <1>3, <1>4 DEF DiskOk, log
<1>7. Types'
  BY <1>1, <1>5, <1>6 DEF CacheInv, Types
<1>8. UnderWay'
  <2>1. cache.channel \in Seq(Message) /\ Reaches(cache.channel, told, sdk.seen, log)
    BY InvRanges DEF CacheInv, UnderWay, log
  <2>2. Reaches(cache.channel, told, sdk.seen, Append(log, a))
    BY <1>2, <2>1, ReachesLater
  <2>3. QED
    BY <1>1, <1>4, <2>2 DEF UnderWay
<1>9. RowsKnown'
  BY <1>1 DEF CacheInv, RowsKnown
<1>10. Since' = Since /\ Since \in 0 .. Len(log) /\ disk.scsn \in 0 .. Len(log)
  BY <1>1, <1>2, InvRanges DEF Since, log, DiskOk
<1>11. \A b \in Standard : /\ Count(sdk'.log, b, Since) = Count(log, b, Since)
                           /\ Count(sdk'.log, b, disk.scsn) = Count(log, b, disk.scsn)
  BY <1>2, <1>4, <1>10, CountKept
<1>12. Memory'
  BY <1>1, <1>10, <1>11 DEF CacheInv, Memory, ItemsAt, RowsAt, log, Excepted
<1>13. Saved'
  BY <1>1, <1>11 DEF CacheInv, Saved, RowsAt, log, Excepted
<1>14. QED
  BY <1>7, <1>8, <1>9, <1>12, <1>13 DEF CacheInv

\* What is left of a sequence is held as it was.
LEMMA HeldRest ==
    ASSUME NEW S, NEW seq \in Seq(S), seq # <<>>, NEW items, Held(seq, items)
    PROVE  /\ Head(seq) \in S /\ Tail(seq) \in Seq(S) /\ Held(Tail(seq), items)
           /\ Head(seq).live => Head(seq).attr \in DOMAIN items
<1>1. /\ Len(seq) \in Nat /\ Len(seq) # 0 /\ DOMAIN seq = 1 .. Len(seq) /\ Head(seq) = seq[1]
      /\ Tail(seq) \in Seq(S) /\ DOMAIN Tail(seq) = 1 .. Len(seq) - 1
      /\ \A i \in 1 .. Len(seq) - 1 : Tail(seq)[i] = seq[i + 1]
  OBVIOUS
<1>2. 1 \in DOMAIN seq /\ \A i \in 1 .. Len(seq) - 1 : i + 1 \in DOMAIN seq
  BY <1>1
<1>3. QED
  BY <1>1, <1>2 DEF Held

\* A request is answered.
TakeRequest(s) == [s EXCEPT !.requests = Tail(@)]

LEMMA TakeRequestTyped ==
    ASSUME NEW s, Typed(s), s.requests # <<>>
    PROVE  /\ Typed(TakeRequest(s)) /\ OnlyRequests(s, TakeRequest(s))
           /\ Head(s.requests) \in Request
           /\ Head(s.requests).live => Head(s.requests).attr \in DOMAIN s.items
           /\ s.mIsLoggedIn
<1> DEFINE t    == TakeRequest(s)
           rest == Tail(s.requests)
<1>1. /\ Head(s.requests) \in Request /\ rest \in Seq(Request) /\ Held(rest, s.items)
      /\ Head(s.requests).live => Head(s.requests).attr \in DOMAIN s.items
  BY HeldRest DEF Typed
<1>2. s.mIsLoggedIn
  BY DEF Typed
<1>3. t = [s EXCEPT !.requests = rest]
  BY DEF TakeRequest
<1>. HIDE DEF t, rest
<1>4. /\ t.names = s.names /\ t.items = s.items /\ t.rows = s.rows
      /\ t.requests = rest /\ t.channel = s.channel /\ t.shown = s.shown
      /\ t.mIsLoggedIn = s.mIsLoggedIn
      /\ t = [mIsLoggedIn |-> t.mIsLoggedIn, items |-> t.items, names |-> t.names,
              rows |-> t.rows, requests |-> t.requests, channel |-> t.channel,
              shown |-> t.shown]
  BY <1>3 DEF Typed
<1>5. Typed(t)
  BY <1>1, <1>2, <1>4 DEF Typed
<1>6. OnlyRequests(s, t)
  BY <1>3, <1>4 DEF OnlyRequests
<1>7. QED
  BY <1>1, <1>2, <1>5, <1>6 DEF t

\* A message is received.
TakeMessage(s) == [s EXCEPT !.channel = Tail(@)]

LEMMA TakeMessageTyped ==
    ASSUME NEW s, Typed(s), s.channel # <<>>
    PROVE  /\ Typed(TakeMessage(s)) /\ Head(s.channel) \in Message
           /\ Head(s.channel).live => Head(s.channel).attr \in DOMAIN s.items
           /\ s.mIsLoggedIn
           /\ TakeMessage(s) =
                  [mIsLoggedIn |-> s.mIsLoggedIn, items |-> s.items, names |-> s.names,
                   rows |-> s.rows, requests |-> s.requests, channel |-> Tail(s.channel),
                   shown |-> s.shown]
<1> DEFINE t    == TakeMessage(s)
           rest == Tail(s.channel)
<1>1. /\ Head(s.channel) \in Message /\ rest \in Seq(Message) /\ Held(rest, s.items)
      /\ Head(s.channel).live => Head(s.channel).attr \in DOMAIN s.items
  BY HeldRest DEF Typed
<1>2. s.mIsLoggedIn
  BY DEF Typed
<1>3. t = [s EXCEPT !.channel = rest]
  BY DEF TakeMessage
<1>. HIDE DEF t, rest
<1>4. t = [mIsLoggedIn |-> s.mIsLoggedIn, items |-> s.items, names |-> s.names,
           rows |-> s.rows, requests |-> s.requests, channel |-> rest, shown |-> s.shown]
  BY <1>3 DEF Typed
<1>5. /\ t.names = s.names /\ t.items = s.items /\ t.rows = s.rows
      /\ t.requests = s.requests /\ t.channel = rest /\ t.shown = s.shown
      /\ t.mIsLoggedIn = s.mIsLoggedIn
  BY <1>4
<1>6. Typed(t)
  BY <1>1, <1>2, <1>4, <1>5 DEF Typed
<1>7. QED
  BY <1>1, <1>2, <1>4, <1>6 DEF t, rest

\* A message that is posted follows the others.
News(kind, attr, live, value) ==
    [kind |-> kind, attr |-> attr, live |-> live, value |-> value]

\* The message, and nothing else.
Posted(s, t, j) ==
    /\ Typed(t) /\ Reaches(t.channel, told, j, sdk.log)
    /\ t.items = s.items /\ t.rows = s.rows /\ t.names = s.names
    /\ t.mIsLoggedIn = s.mIsLoggedIn

LEMMA PostReaches ==
    ASSUME CacheInv, NEW s, Typed(s), s.channel = cache.channel, s.mIsLoggedIn,
           NEW kind, NEW attr, NEW live, NEW value,
           News(kind, attr, live, value) \in Message,
           live => attr \in DOMAIN s.items, NEW j \in 0 .. Len(sdk.log),
           Step(News(kind, attr, live, value), sdk.seen, j, sdk.log)
    PROVE  Posted(s, Post(s, kind, attr, live, value), j)
<1> DEFINE m == News(kind, attr, live, value)
           t == Post(s, kind, attr, live, value)
<1>1. Typed(t) /\ t = [s EXCEPT !.channel = Append(s.channel, m)]
  BY PostTyped DEF News
<1>2. Reaches(Append(cache.channel, m), told, j, sdk.log)
  BY InvRanges, ReachesOneMore DEF CacheInv, UnderWay
<1>. HIDE DEF m, t
<1>3. /\ t.channel = Append(s.channel, m) /\ t.items = s.items /\ t.rows = s.rows
      /\ t.names = s.names /\ t.mIsLoggedIn = s.mIsLoggedIn
  BY <1>1 DEF Typed
<1>4. QED
  BY <1>1, <1>2, <1>3 DEF t, Posted

\* A request is executed.
Read(s, i, v) == [s EXCEPT !.requests[i].value = v]

LEMMA ReadTyped ==
    ASSUME NEW s, Typed(s), NEW i \in DOMAIN s.requests, NEW v \in Nat
    PROVE  /\ Typed(Read(s, i, v)) /\ OnlyRequests(s, Read(s, i, v))
           /\ DOMAIN Read(s, i, v).requests = DOMAIN s.requests
           /\ \A j \in DOMAIN s.requests :
                 /\ Read(s, i, v).requests[j].attr = s.requests[j].attr
                 /\ Read(s, i, v).requests[j].live = s.requests[j].live
           /\ s.mIsLoggedIn
<1> DEFINE t    == Read(s, i, v)
           more == [s.requests EXCEPT ![i].value = v]
<1>1. s.requests \in Seq(Request) /\ Held(s.requests, s.items) /\ s.mIsLoggedIn
  BY DEF Typed
<1>2. /\ DOMAIN more = DOMAIN s.requests
      /\ \A j \in DOMAIN s.requests :
            /\ more[j].attr = s.requests[j].attr /\ more[j].live = s.requests[j].live
            /\ more[j] \in Request
  <2>1. DOMAIN more = DOMAIN s.requests
    OBVIOUS
  <2>2. \A j \in DOMAIN s.requests : s.requests[j] \in Request
    BY <1>1
  <2>3. ASSUME NEW j \in DOMAIN s.requests
        PROVE  more[j] = IF j = i THEN [s.requests[j] EXCEPT !.value = v] ELSE s.requests[j]
    OBVIOUS
  <2>. HIDE DEF more
  <2>4. ASSUME NEW j \in DOMAIN s.requests
        PROVE  /\ more[j].attr = s.requests[j].attr /\ more[j].live = s.requests[j].live
               /\ more[j] \in Request
    BY <2>2, <2>3 DEF Request
  <2>5. QED
    BY <2>1, <2>4
<1>3. more \in Seq(Request)
  <2>1. DOMAIN s.requests = 1 .. Len(s.requests) /\ Len(s.requests) \in Nat
    BY <1>1
  <2>2. more = [j \in 1 .. Len(s.requests) |-> more[j]]
    BY <1>2, <2>1
  <2>3. \A j \in 1 .. Len(s.requests) : more[j] \in Request
    BY <1>2, <2>1
  <2>. HIDE DEF more
  <2>4. QED
    BY <2>1, <2>2, <2>3
<1>4. t = [s EXCEPT !.requests = more]
  BY DEF Read, Typed
<1>. HIDE DEF t, more
<1>5. Held(more, s.items)
  BY <1>1, <1>2 DEF Held
<1>6. /\ t.names = s.names /\ t.items = s.items /\ t.rows = s.rows
      /\ t.requests = more /\ t.channel = s.channel /\ t.shown = s.shown
      /\ t.mIsLoggedIn = s.mIsLoggedIn
      /\ t = [mIsLoggedIn |-> t.mIsLoggedIn, items |-> t.items, names |-> t.names,
              rows |-> t.rows, requests |-> t.requests, channel |-> t.channel,
              shown |-> t.shown]
  BY <1>4 DEF Typed
<1>7. Typed(t)
  BY <1>1, <1>3, <1>5, <1>6 DEF Typed
<1>8. OnlyRequests(s, t)
  BY <1>4, <1>6 DEF OnlyRequests
<1>9. QED
  BY <1>1, <1>2, <1>6, <1>7, <1>8 DEF t

\* What the server does to the cache's requests.
LEMMA ServerReadsIs ==
    ASSUME CacheInv, ServerReads
    PROVE  /\ UNCHANGED <<sdk, disk, told, orphans, overtaken, budget>>
           /\ \E i \in DOMAIN cache.requests, v \in Nat : cache' = Read(cache, i, v)
<1>1. PICK i \in DOMAIN cache.requests :
         cache' = Read(cache, i, Version(cache.requests[i].attr, Len(sdk.log)))
  BY DEF ServerReads, Read
<1>2. Len(sdk.log) \in Nat
  BY InvRanges
<1>3. Version(cache.requests[i].attr, Len(sdk.log)) \in Nat
  BY <1>2, VersionIsCount, CountNat
<1>4. UNCHANGED <<sdk, disk, told, orphans, overtaken, budget>>
  BY DEF ServerReads, Free
<1>5. QED
  BY <1>1, <1>3, <1>4

LEMMA ServerReadsInv ==
    ASSUME CacheInv, ServerReads
    PROVE  CacheInv'
<1>1. UNCHANGED <<sdk, disk, told, orphans, overtaken>>
  BY ServerReadsIs
<1>2. PICK i \in DOMAIN cache.requests, v \in Nat : cache' = Read(cache, i, v)
  BY ServerReadsIs
<1>3. Typed(cache) /\ AllWait(cache.names)
  BY DEF CacheInv, Types
<1>4. Typed(cache') /\ OnlyRequests(cache, cache')
  BY <1>2, <1>3, ReadTyped
<1>5. /\ cache'.names = cache.names /\ cache'.rows = cache.rows /\ cache'.items = cache.items
      /\ cache'.channel = cache.channel /\ cache'.mIsLoggedIn = cache.mIsLoggedIn
  BY <1>3, <1>4, OnlyRequestsLeaves
<1>6. UnderWay'
  BY <1>1, <1>5 DEF CacheInv, UnderWay
<1>7. Types'
  BY <1>1, <1>3, <1>4, <1>5 DEF CacheInv, Types, SdkOk, DiskOk
<1>8. QED
  BY <1>1, <1>5, <1>6, <1>7, PostKeeps

LEMMA SdkAnswersInv ==
    ASSUME CacheInv, SdkAnswers
    PROVE  CacheInv'
<1> DEFINE r == Head(cache.requests)
           s == TakeRequest(cache)
<1>1. Typed(cache) /\ AllWait(cache.names)
  BY DEF CacheInv, Types
<1>2. /\ Typed(s) /\ OnlyRequests(cache, s) /\ r \in Request
      /\ r.live => r.attr \in DOMAIN cache.items
      /\ cache.mIsLoggedIn
  BY <1>1, TakeRequestTyped DEF SdkAnswers
<1>3. /\ s.names = cache.names /\ s.rows = cache.rows /\ s.items = cache.items
      /\ s.channel = cache.channel /\ s.mIsLoggedIn = cache.mIsLoggedIn
  BY <1>1, <1>2, OnlyRequestsLeaves
<1>4. /\ \/ Executed(r) /\ cache' = Post(s, "answer", r.attr, r.live, r.value)
         \/ cache' = Post(s, "answer", r.attr, r.live, Failed)
      /\ UNCHANGED <<sdk, disk, told, orphans, overtaken>>
  BY DEF SdkAnswers, TakeRequest
<1>. HIDE DEF s
<1>5. sdk.seen \in 0 .. Len(sdk.log) /\ Len(sdk.log) \in Nat /\ r.attr \in Standard
  BY <1>2, InvRanges DEF CacheInv, Types, SdkOk, Request
<1>6. r.live \in BOOLEAN /\ (Executed(r) => r.value \in Versions)
  BY <1>2, VersionsDef DEF Request, Executed
<1>. HIDE DEF r
<1>7. ASSUME NEW value \in Versions, cache' = Post(s, "answer", r.attr, r.live, value)
      PROVE  CacheInv'
  <2> DEFINE m == News("answer", r.attr, r.live, value)
  <2>1. m \in Message
    BY <1>5, <1>6 DEF Message, News
  <2>2. m.kind = "answer" /\ m.attr = r.attr /\ m.value = value
    BY DEF News
  <2>. HIDE DEF m
  <2>3. Step(m, sdk.seen, sdk.seen, sdk.log)
    BY <2>2 DEF Step
  <2>4. Posted(s, cache', sdk.seen)
    BY <1>2, <1>3, <1>5, <1>7, <2>1, <2>3, PostReaches DEF m
  <2>5. UnderWay'
    BY <1>4, <2>4 DEF UnderWay, Posted
  <2>6. Types'
    BY <1>1, <1>3, <1>4, <2>4 DEF CacheInv, Types, SdkOk, DiskOk, Posted
  <2>7. QED
    BY <1>3, <1>4, <2>4, <2>5, <2>6, PostKeeps DEF Posted
<1>8. QED
  BY <1>4, <1>6, <1>7, VersionsDef

LEMMA SdkNotifiesInv ==
    ASSUME CacheInv, SdkNotifies
    PROVE  CacheInv'
<1> DEFINE j == sdk.seen + 1
           a == sdk.log[j]
           m == News("change", a, FALSE, 0)
<1>1. Typed(cache) /\ AllWait(cache.names) /\ SdkOk /\ DiskOk
  BY DEF CacheInv, Types
<1>2. /\ cache.mIsLoggedIn /\ sdk.seen < Len(sdk.log) /\ sdk' = [sdk EXCEPT !.seen = j]
      /\ cache' = Post(cache, "change", a, FALSE, 0) /\ UNCHANGED <<disk, told, orphans, overtaken>>
  BY DEF SdkNotifies
<1>3. /\ Len(sdk.log) \in Nat /\ j \in 0 .. Len(sdk.log) /\ sdk.log \in Seq(Standard)
      /\ j \in 1 .. Len(sdk.log)
  BY <1>1, <1>2 DEF SdkOk
<1>4. a \in Standard
  BY <1>3
<1>5. m \in Message /\ m.kind = "change" /\ m.attr = a
  BY <1>4 DEF Message, News
<1>6. /\ sdk'.log = sdk.log /\ sdk'.seen = j /\ sdk'.committed = sdk.committed
      /\ sdk' = [log |-> sdk'.log, seen |-> sdk'.seen, committed |-> sdk'.committed,
                 fetched |-> sdk'.fetched]
  BY <1>1, <1>2 DEF SdkOk
<1>. HIDE DEF m
<1>7. Step(m, sdk.seen, j, sdk.log)
  BY <1>5 DEF Step
<1>8. Posted(cache, cache', j)
  <2>. HIDE DEF a, j
  <2>1. QED
    BY <1>1, <1>2, <1>3, <1>5, <1>7, PostReaches DEF m
<1>9. UnderWay'
  BY <1>2, <1>6, <1>8 DEF UnderWay, Posted
<1>10. Types'
  <2>. HIDE DEF a, j
  <2>1. SdkOk'
    BY <1>1, <1>3, <1>6 DEF SdkOk
  <2>2. DiskOk'
    BY <1>1, <1>2, <1>6 DEF DiskOk
  <2>3. QED
    BY <1>1, <1>2, <1>8, <2>1, <2>2 DEF CacheInv, Types, Posted
<1>11. QED
  BY <1>2, <1>6, <1>8, <1>9, <1>10, PostKeeps DEF Posted

LEMMA SdkCommitsInv ==
    ASSUME CacheInv, SdkCommits
    PROVE  CacheInv'
<1> DEFINE m == News("commit", "none", FALSE, sdk.seen)
<1>1. Typed(cache) /\ AllWait(cache.names) /\ SdkOk /\ DiskOk
  BY DEF CacheInv, Types
<1>2. /\ cache.mIsLoggedIn /\ sdk' = [sdk EXCEPT !.committed = sdk.seen]
      /\ cache' = Post(cache, "commit", "none", FALSE, sdk.seen)
      /\ UNCHANGED <<disk, told, orphans, overtaken>>
  BY DEF SdkCommits
<1>3. Len(sdk.log) \in Nat /\ sdk.seen \in 0 .. Len(sdk.log) /\ sdk.seen \in Nat
  BY <1>1 DEF SdkOk
<1>4. m \in Message /\ m.kind = "commit" /\ m.value = sdk.seen
  BY <1>3 DEF Message, News
<1>5. /\ sdk'.log = sdk.log /\ sdk'.seen = sdk.seen /\ sdk'.committed = sdk.seen
      /\ sdk' = [log |-> sdk'.log, seen |-> sdk'.seen, committed |-> sdk'.committed,
                 fetched |-> sdk'.fetched]
  BY <1>1, <1>2 DEF SdkOk
<1>. HIDE DEF m
<1>6. Step(m, sdk.seen, sdk.seen, sdk.log)
  BY <1>4 DEF Step
<1>7. Posted(cache, cache', sdk.seen)
  BY <1>1, <1>2, <1>3, <1>4, <1>6, PostReaches DEF m
<1>8. UnderWay'
  BY <1>2, <1>5, <1>7 DEF UnderWay, Posted
<1>9. Types'
  <2>1. SdkOk'
    BY <1>1, <1>3, <1>5 DEF SdkOk
  <2>2. DiskOk'
    BY <1>1, <1>2, <1>5 DEF DiskOk
  <2>3. QED
    BY <1>1, <1>2, <1>7, <2>1, <2>2 DEF CacheInv, Types, Posted
<1>10. QED
  BY <1>2, <1>5, <1>7, <1>8, <1>9, PostKeeps DEF Posted

LEMMA SdkReloadsInv ==
    ASSUME CacheInv, SdkReloads
    PROVE  CacheInv'
<1> DEFINE n == Len(sdk.log)
           m == News("reload", "none", FALSE, n)
<1>1. Typed(cache) /\ AllWait(cache.names) /\ SdkOk /\ DiskOk
  BY DEF CacheInv, Types
<1>2. /\ cache.mIsLoggedIn /\ sdk' = [sdk EXCEPT !.seen = n, !.committed = n]
      /\ cache' = Post(cache, "reload", "none", FALSE, n)
      /\ UNCHANGED <<disk, told, orphans, overtaken>>
  BY DEF SdkReloads
<1>3. n \in Nat /\ n \in 0 .. n
  BY <1>1 DEF SdkOk
<1>4. m \in Message /\ m.kind = "reload" /\ m.value = n
  BY <1>3 DEF Message, News
<1>5. /\ sdk'.log = sdk.log /\ sdk'.seen = n /\ sdk'.committed = n
      /\ sdk' = [log |-> sdk'.log, seen |-> sdk'.seen, committed |-> sdk'.committed,
                 fetched |-> sdk'.fetched]
  BY <1>1, <1>2 DEF SdkOk
<1>. HIDE DEF m
<1>6. Step(m, sdk.seen, n, sdk.log)
  BY <1>4 DEF Step
<1>7. Posted(cache, cache', n)
  BY <1>1, <1>2, <1>3, <1>4, <1>6, PostReaches DEF m
<1>8. UnderWay'
  BY <1>2, <1>5, <1>7 DEF UnderWay, Posted
<1>9. Types'
  <2>1. SdkOk'
    BY <1>1, <1>3, <1>5 DEF SdkOk
  <2>2. DiskOk'
    BY <1>1, <1>2, <1>5 DEF DiskOk
  <2>3. QED
    BY <1>1, <1>2, <1>7, <2>1, <2>2 DEF CacheInv, Types, Posted
<1>10. QED
  BY <1>2, <1>5, <1>7, <1>8, <1>9, PostKeeps DEF Posted

\* What the first message says of the next.
LEMMA Received ==
    ASSUME CacheInv, cache.channel # <<>>
    PROVE  /\ Typed(TakeMessage(cache)) /\ Head(cache.channel) \in Message
           /\ Head(cache.channel).live => Head(cache.channel).attr \in DOMAIN cache.items
           /\ cache.mIsLoggedIn
           /\ \E j \in 0 .. Len(sdk.log) :
                 /\ Step(Head(cache.channel), told, j, sdk.log)
                 /\ Reaches(TakeMessage(cache).channel, j, sdk.seen, sdk.log)
<1>1. Typed(cache)
  BY DEF CacheInv, Types
<1>2. /\ Typed(TakeMessage(cache)) /\ Head(cache.channel) \in Message
      /\ Head(cache.channel).live => Head(cache.channel).attr \in DOMAIN cache.items
      /\ cache.mIsLoggedIn
  BY <1>1, TakeMessageTyped
<1>3. \E j \in 0 .. Len(sdk.log) : /\ Step(Head(cache.channel), told, j, sdk.log)
                                   /\ Reaches(Tail(cache.channel), j, sdk.seen, sdk.log)
  BY InvRanges, ReachesOneLess DEF CacheInv, UnderWay
<1>4. TakeMessage(cache).channel = Tail(cache.channel)
  <2>1. TakeMessage(cache) =
            [mIsLoggedIn |-> cache.mIsLoggedIn, items |-> cache.items, names |-> cache.names,
             rows |-> cache.rows, requests |-> cache.requests, channel |-> Tail(cache.channel),
             shown |-> cache.shown]
    BY <1>1, TakeMessageTyped
  <2>2. QED
    BY <2>1
<1>5. QED
  BY <1>2, <1>3, <1>4

LEMMA TakenIs ==
    ASSUME CacheInv, cache.channel # <<>>
    PROVE  /\ TakeMessage(cache).items = cache.items /\ TakeMessage(cache).rows = cache.rows
           /\ TakeMessage(cache).names = cache.names
           /\ TakeMessage(cache).mIsLoggedIn = cache.mIsLoggedIn
<1>1. Typed(cache)
  BY DEF CacheInv, Types
<1>2. TakeMessage(cache) =
          [mIsLoggedIn |-> cache.mIsLoggedIn, items |-> cache.items, names |-> cache.names,
           rows |-> cache.rows, requests |-> cache.requests, channel |-> Tail(cache.channel),
           shown |-> cache.shown]
  BY <1>1, TakeMessageTyped
<1>3. QED
  BY <1>2

LEMMA ReceiveAnswerInv ==
    ASSUME CacheInv, ReceiveAnswer
    PROVE  CacheInv'
<1> DEFINE m == Head(cache.channel)
           s == TakeMessage(cache)
           a == m.attr
           v == m.value
<1>1. /\ cache.channel # <<>> /\ m.kind = "answer"
      /\ cache' = IF m.live THEN Resolve(s, a, v) ELSE DbWrite(s, a, v)
      /\ orphans' = IF a \in DOMAIN s.items THEN orphans ELSE orphans \cup {a}
      /\ overtaken' = IF Current(v, a) THEN overtaken ELSE overtaken \cup {a}
      /\ UNCHANGED <<sdk, disk, told>>
  BY DEF ReceiveAnswer, TakeMessage
<1>2. /\ Typed(s) /\ m \in Message /\ cache.mIsLoggedIn
      /\ m.live => a \in DOMAIN cache.items
  BY <1>1, Received
<1>3. PICK j \in 0 .. Len(sdk.log) : /\ Step(m, told, j, sdk.log)
                                     /\ Reaches(s.channel, j, sdk.seen, sdk.log)
  BY <1>1, Received
<1>4. /\ s.items = cache.items /\ s.rows = cache.rows /\ s.names = cache.names
      /\ s.mIsLoggedIn = cache.mIsLoggedIn
  BY <1>1, TakenIs
<1>5. j = told /\ (v = Failed \/ v >= Count(sdk.log, a, told) \/ a \in overtaken')
  BY <1>1, <1>3, VersionIsCount DEF Step, Current
<1>6. a \in Standard /\ v \in Versions
  BY <1>1, <1>2 DEF Message
<1>. HIDE DEF m, s, a, v
<1>7. /\ AllWait(cache.names) /\ orphans \subseteq Standard /\ overtaken \subseteq Standard
  BY DEF CacheInv, Types
<1>8. Typed(cache') /\ AllWait(cache'.names) /\ Answers(s, cache', a, v)
  <2>1. CASE m.live
    BY <1>1, <1>2, <1>4, <1>6, <2>1, ResolveTyped
  <2>2. CASE ~m.live
    <3>1. cache' = DbWrite(s, a, v)
      BY <1>1, <2>2
    <3>2. /\ Typed(cache')
          /\ cache' = [mIsLoggedIn |-> s.mIsLoggedIn, items |-> s.items, names |-> s.names,
                       rows |-> cache'.rows, requests |-> s.requests, channel |-> s.channel,
                       shown |-> s.shown]
          /\ cache'.rows = IF v = Failed THEN s.rows ELSE Put(s.rows, a, v)
      BY <1>2, <1>6, <3>1, DbWriteTyped
    <3>3. /\ cache'.mIsLoggedIn = s.mIsLoggedIn /\ cache'.items = s.items
          /\ cache'.names = s.names /\ cache'.channel = s.channel
      BY <3>2
    <3>4. Answers(s, cache', a, v)
      BY <3>2, <3>3 DEF Answers
    <3>5. QED
      BY <1>4, <1>7, <3>2, <3>3, <3>4
  <2>3. QED
    BY <2>1, <2>2
<1>9. /\ orphans \subseteq orphans' /\ orphans' \subseteq Standard /\ overtaken' \subseteq Standard
      /\ a \in DOMAIN cache.items \/ a \in orphans'
      /\ overtaken' \subseteq Excepted' /\ Excepted \subseteq Excepted'
  BY <1>1, <1>4, <1>6, <1>7 DEF Excepted
<1>10. /\ \A b \in DOMAIN cache'.rows : b = a \/ b \in DOMAIN cache.rows
       /\ \A b \in DOMAIN cache'.rows :
             \/ b = a /\ v # Failed /\ cache'.rows[b] = v
             \/ b \in DOMAIN cache.rows /\ cache'.rows[b] = cache.rows[b]
  BY <1>4, <1>8 DEF Answers, Put
<1>11. Types'
  <2>1. SdkOk' /\ DiskOk'
    BY <1>1 DEF CacheInv, Types, SdkOk, DiskOk
  <2>2. QED
    BY <1>8, <1>9, <2>1 DEF Types
<1>12. UnderWay'
  BY <1>1, <1>3, <1>5, <1>8 DEF UnderWay, Answers
<1>13. RowsKnown'
  BY <1>4, <1>8, <1>9, <1>10 DEF CacheInv, RowsKnown, Answers
<1>14. Since = told /\ Since' = told
  BY <1>1, <1>2, <1>4, <1>8 DEF Since, Answers
<1>15. ItemsAt(cache'.items, told, sdk.log, Excepted')
  <2>1. SUFFICES ASSUME NEW b \in Standard \ Excepted', b \in DOMAIN cache'.items,
                        cache'.items[b].pending = "not", cache'.items[b].data # Failed
                 PROVE  cache'.items[b].data >= Count(sdk.log, b, told)
    BY DEF ItemsAt
  <2>2. CASE b = a /\ cache'.items[b].data = v
    BY <1>5, <1>9, <2>1, <2>2
  <2>3. CASE ~(b = a /\ cache'.items[b].data = v)
    <3>1. /\ b \in DOMAIN cache.items /\ cache.items[b].pending = "not"
          /\ cache'.items[b].data = cache.items[b].data
      BY <1>4, <1>8, <2>1, <2>3 DEF Answers
    <3>2. ItemsAt(cache.items, told, sdk.log, Excepted)
      BY <1>14 DEF CacheInv, Memory
    <3>3. QED
      BY <1>9, <2>1, <3>1, <3>2 DEF ItemsAt
  <2>4. QED
    BY <2>2, <2>3
<1>16. RowsAt(cache'.rows, told, sdk.log, Excepted')
  <2>1. RowsAt(cache.rows, told, sdk.log, Excepted)
    BY <1>14 DEF CacheInv, Memory
  <2>2. QED
    BY <1>5, <1>9, <1>10, <2>1 DEF RowsAt
<1>17. Memory'
  BY <1>1, <1>14, <1>15, <1>16 DEF Memory
<1>18. Saved'
  BY <1>1, <1>2, <1>9 DEF CacheInv, Saved, RowsAt
<1>19. QED
  BY <1>11, <1>12, <1>13, <1>17, <1>18 DEF CacheInv

LEMMA ReceiveChangeInv ==
    ASSUME CacheInv, ReceiveChange
    PROVE  CacheInv'
<1> DEFINE m == Head(cache.channel)
           s == TakeMessage(cache)
           a == m.attr
<1>1. /\ cache.channel # <<>> /\ m.kind = "change"
      /\ cache' = OnUserAttrChange(s, a) /\ told' = told + 1
      /\ UNCHANGED <<sdk, disk, orphans, overtaken>>
  BY DEF ReceiveChange, TakeMessage
<1>2. Typed(s) /\ m \in Message /\ cache.mIsLoggedIn
  BY <1>1, Received
<1>3. PICK j \in 0 .. Len(sdk.log) : /\ Step(m, told, j, sdk.log)
                                     /\ Reaches(s.channel, j, sdk.seen, sdk.log)
  BY <1>1, Received
<1>4. /\ s.items = cache.items /\ s.rows = cache.rows /\ s.names = cache.names
      /\ s.mIsLoggedIn = cache.mIsLoggedIn
  BY <1>1, TakenIs
<1>5. j = told + 1 /\ sdk.log[told + 1] = a
  BY <1>1, <1>3 DEF Step
<1>6. a \in Standard
  BY <1>1, <1>2 DEF Message
<1>. HIDE DEF m, s, a
<1>7. told \in Nat /\ disk.scsn \in Nat /\ AllWait(cache.names)
  BY InvRanges DEF CacheInv, Types, DiskOk
<1>8. Typed(cache') /\ AllWait(cache'.names) /\ Ages(s, cache', a)
  BY <1>1, <1>2, <1>4, <1>6, <1>7, OnUserAttrChangeTyped
<1>9. /\ cache'.mIsLoggedIn = cache.mIsLoggedIn
      /\ \A b \in DOMAIN cache'.rows : b \in DOMAIN cache.rows /\ cache'.rows[b] = cache.rows[b]
      /\ a \in DOMAIN cache'.rows => a \notin DOMAIN cache.items
      /\ \A b \in (DOMAIN cache.items \cap Standard) \ {a} : b \in DOMAIN cache'.items
      /\ \A b \in Standard \cap DOMAIN cache'.items :
            cache'.items[b].pending = "not" => /\ b # a /\ b \in DOMAIN cache.items
                                               /\ cache.items[b].pending = "not"
                                               /\ cache'.items[b].data = cache.items[b].data
  BY <1>4, <1>8 DEF Ages
<1>10. a \in DOMAIN cache'.rows => a \in orphans
  BY <1>9 DEF CacheInv, RowsKnown
<1>11. Types'
  BY <1>1, <1>8 DEF CacheInv, Types, SdkOk, DiskOk
<1>12. UnderWay'
  <2>1. SameNews(s.channel, cache'.channel)
    BY <1>8 DEF Ages
  <2>2. s.channel \in Seq(Message)
    BY <1>2 DEF Typed
  <2>3. Len(s.channel) \in Nat /\ DOMAIN s.channel = 1 .. Len(s.channel)
    BY <2>2
  <2>4. Reaches(cache'.channel, told + 1, sdk.seen, sdk.log)
    BY <1>3, <1>5, <2>1, <2>3, ReachesSame
  <2>5. QED
    BY <1>1, <2>4 DEF UnderWay
<1>13. RowsKnown'
  <2>1. \A b \in DOMAIN cache.rows : b \in Standard
    <3>1. RowsOk(cache.rows)
      BY DEF CacheInv, Types, Typed
    <3>2. QED
      BY <3>1 DEF RowsOk
  <2>2. QED
    BY <1>1, <1>9, <1>10, <2>1 DEF CacheInv, RowsKnown
<1>14. Since = told /\ Since' = told + 1
  BY <1>1, <1>2, <1>9 DEF Since
<1>15. \A b : b # a => Count(sdk.log, b, told + 1) = Count(sdk.log, b, told)
  BY <1>5, <1>7, CountOther
<1>16. ItemsAt(cache'.items, told + 1, sdk.log, Excepted)
  <2>1. ItemsAt(cache.items, told, sdk.log, Excepted)
    BY <1>14 DEF CacheInv, Memory
  <2>2. QED
    BY <1>9, <1>15, <2>1 DEF ItemsAt
<1>17. RowsAt(cache'.rows, told + 1, sdk.log, Excepted)
  <2>1. RowsAt(cache.rows, told, sdk.log, Excepted)
    BY <1>14 DEF CacheInv, Memory
  <2>2. QED
    BY <1>9, <1>10, <1>15, <2>1 DEF RowsAt, Excepted
<1>18. Memory'
  BY <1>1, <1>14, <1>16, <1>17 DEF Memory, Excepted
<1>19. Saved'
  <2>1. disk.scsn <= told
    BY <1>2 DEF CacheInv, Saved
  <2>2. disk.scsn <= told + 1
    BY <1>7, <2>1
  <2>3. QED
    BY <1>1, <2>2 DEF CacheInv, Saved, Excepted
<1>20. QED
  BY <1>11, <1>12, <1>13, <1>18, <1>19 DEF CacheInv

LEMMA ReceiveCommitInv ==
    ASSUME CacheInv, ReceiveCommit
    PROVE  CacheInv'
<1> DEFINE m == Head(cache.channel)
           s == TakeMessage(cache)
<1>1. /\ cache.channel # <<>> /\ m.kind \in {"commit", "reload"}
      /\ cache' = IF m.kind = "reload" THEN Invalidate(s) ELSE s
      /\ disk' = [rows |-> cache'.rows, scsn |-> m.value]
      /\ told' = IF m.kind = "reload" THEN m.value ELSE told
      /\ UNCHANGED <<sdk, orphans, overtaken>>
  BY DEF ReceiveCommit, TakeMessage
<1>2. Typed(s) /\ cache.mIsLoggedIn
  BY <1>1, Received
<1>3. PICK j \in 0 .. Len(sdk.log) : /\ Step(m, told, j, sdk.log)
                                     /\ Reaches(s.channel, j, sdk.seen, sdk.log)
  BY <1>1, Received
<1>4. /\ s.items = cache.items /\ s.rows = cache.rows /\ s.names = cache.names
      /\ s.mIsLoggedIn = cache.mIsLoggedIn
  BY <1>1, TakenIs
<1>5. j = m.value /\ told' = m.value
  BY <1>1, <1>3 DEF Step
<1>. HIDE DEF m, s
<1>6. AllWait(cache.names)
  BY DEF CacheInv, Types
<1>7. /\ Typed(cache') /\ AllWait(cache'.names) /\ cache'.mIsLoggedIn
      /\ cache'.channel = s.channel
  BY <1>1, <1>2, <1>4, <1>6, InvalidateTyped
<1>8. disk'.rows = cache'.rows /\ disk'.scsn = m.value
      /\ disk' = [rows |-> disk'.rows, scsn |-> disk'.scsn]
  BY <1>1
<1>9. Types'
  <2>1. SdkOk'
    BY <1>1 DEF CacheInv, Types, SdkOk
  <2>2. RowsOk(cache'.rows)
    BY <1>7 DEF Typed
  <2>3. DiskOk'
    BY <1>1, <1>3, <1>5, <1>8, <2>2 DEF DiskOk
  <2>4. QED
    BY <1>1, <1>7, <2>1, <2>3 DEF CacheInv, Types
<1>10. UnderWay'
  BY <1>1, <1>3, <1>5, <1>7 DEF UnderWay
<1>11. RowsKnown' /\ ItemsAt(cache'.items, told', sdk.log, Excepted)
       /\ RowsAt(cache'.rows, told', sdk.log, Excepted)
  <2>1. CASE m.kind = "reload"
    <3>1. /\ DOMAIN cache'.rows = {}
          /\ \A a \in DOMAIN cache'.items : cache'.items[a].pending = "update"
      BY <1>1, <1>2, <1>4, <1>6, <2>1, InvalidateTyped
    <3>2. QED
      BY <3>1 DEF RowsKnown, ItemsAt, RowsAt
  <2>2. CASE m.kind # "reload"
    <3>1. cache'.items = cache.items /\ cache'.rows = cache.rows /\ told' = told
      BY <1>1, <1>4, <2>2
    <3>2. Since = told
      BY <1>2 DEF Since
    <3>3. QED
      BY <1>1, <3>1, <3>2 DEF CacheInv, RowsKnown, Memory
  <2>3. QED
    BY <2>1, <2>2
<1>12. Memory'
  BY <1>1, <1>7, <1>11 DEF Memory, Since, Excepted
<1>13. Saved'
  <2>1. RowsAt(disk'.rows, disk'.scsn, sdk.log, Excepted)
    BY <1>5, <1>8, <1>11
  <2>2. disk'.scsn = told' /\ told' \in Nat
    BY <1>3, <1>5, <1>8
  <2>3. QED
    BY <1>1, <2>1, <2>2 DEF Saved, Excepted
<1>14. QED
  BY <1>9, <1>10, <1>11, <1>12, <1>13 DEF CacheInv

LEMMA RestartInv ==
    ASSUME CacheInv, Restart
    PROVE  CacheInv'
<1>1. PICK rows \in {disk.rows, cache.rows} :
         cache' = Loaded(rows) /\ disk' = [disk EXCEPT !.rows = rows]
  BY DEF Restart
<1>2. /\ cache.mIsLoggedIn /\ sdk' = [sdk EXCEPT !.seen = sdk.committed, !.fetched = FALSE]
      /\ told' = sdk.committed /\ UNCHANGED <<orphans, overtaken>>
  BY DEF Restart
<1>3. /\ Typed(cache) /\ SdkOk /\ DiskOk
      /\ orphans \subseteq Standard /\ overtaken \subseteq Standard
  BY DEF CacheInv, Types
<1>4. RowsOk(rows)
  BY <1>1, <1>3 DEF Typed, DiskOk
<1>5. /\ Typed(cache') /\ AllWait(cache'.names) /\ cache'.mIsLoggedIn = FALSE
      /\ cache'.channel = <<>> /\ cache'.rows = rows /\ DOMAIN cache'.items = DOMAIN rows
      /\ \A a \in DOMAIN rows : cache'.items[a].data = rows[a]
  BY <1>1, <1>4, LoadedTyped
<1>6. /\ sdk'.log = sdk.log /\ sdk'.seen = sdk.committed /\ sdk'.committed = sdk.committed
      /\ sdk' = [log |-> sdk'.log, seen |-> sdk'.seen, committed |-> sdk'.committed,
                 fetched |-> sdk'.fetched]
  <2>1. sdk = [log |-> sdk.log, seen |-> sdk.seen, committed |-> sdk.committed,
               fetched |-> sdk.fetched]
    BY <1>3 DEF SdkOk
  <2>2. QED
    BY <1>2, <2>1
<1>7. /\ disk'.rows = rows /\ disk'.scsn = disk.scsn
      /\ disk' = [rows |-> disk'.rows, scsn |-> disk'.scsn]
  BY <1>1, <1>3 DEF DiskOk
<1>8. Types'
  <2>1. SdkOk'
    BY <1>3, <1>6 DEF SdkOk
  <2>2. DiskOk'
    BY <1>3, <1>4, <1>6, <1>7 DEF DiskOk
  <2>3. QED
    BY <1>2, <1>3, <1>5, <2>1, <2>2 DEF Types
<1>9. UnderWay'
  <2>1. Len(sdk.log) \in Nat /\ sdk.committed \in 0 .. Len(sdk.log)
    BY <1>3 DEF SdkOk
  <2>2. Reaches(<<>>, sdk.committed, sdk.committed, sdk.log)
    BY <2>1, ReachesNothing
  <2>3. QED
    BY <1>2, <1>5, <1>6, <2>2 DEF UnderWay
<1>10. RowsKnown'
  BY <1>5 DEF RowsKnown
<1>11. RowsAt(rows, disk.scsn, sdk.log, Excepted)
  <2>1. RowsAt(disk.rows, disk.scsn, sdk.log, Excepted) /\ disk.scsn <= told
    BY <1>2 DEF CacheInv, Saved
  <2>2. RowsAt(cache.rows, told, sdk.log, Excepted)
    BY <1>2 DEF CacheInv, Memory, Since
  <2>3. told \in Nat /\ disk.scsn \in Nat
    BY <1>3, InvRanges DEF DiskOk
  <2>4. RowsAt(cache.rows, disk.scsn, sdk.log, Excepted)
    <3>1. SUFFICES ASSUME NEW a \in Standard \ Excepted, a \in DOMAIN cache.rows
                   PROVE  cache.rows[a] >= Count(sdk.log, a, disk.scsn)
      BY DEF RowsAt
    <3>2. cache.rows[a] >= Count(sdk.log, a, told)
      BY <2>2, <3>1 DEF RowsAt
    <3>3. Count(sdk.log, a, disk.scsn) <= Count(sdk.log, a, told)
      BY <2>1, <2>3, CountGrows
    <3>4. Count(sdk.log, a, disk.scsn) \in Nat /\ Count(sdk.log, a, told) \in Nat
      BY <2>3, CountNat
    <3>5. RowsOk(cache.rows)
      BY <1>3 DEF Typed
    <3>6. cache.rows[a] \in Nat
      BY <3>1, <3>5 DEF RowsOk
    <3>7. QED
      BY <3>2, <3>3, <3>4, <3>6
  <2>5. QED
    BY <1>1, <2>1, <2>4
<1>12. Since' = disk.scsn
  BY <1>5, <1>7 DEF Since
<1>13. ItemsAt(cache'.items, disk.scsn, sdk.log, Excepted)
  BY <1>5, <1>11 DEF ItemsAt, RowsAt
<1>14. Memory'
  BY <1>2, <1>5, <1>6, <1>11, <1>12, <1>13 DEF Memory, Excepted
<1>15. Saved'
  BY <1>2, <1>5, <1>6, <1>7, <1>11 DEF Saved, Excepted
<1>16. QED
  BY <1>8, <1>9, <1>10, <1>14, <1>15 DEF CacheInv

LEMMA ConnectInv ==
    ASSUME CacheInv, Connect
    PROVE  CacheInv'
<1>1. ~cache.mIsLoggedIn /\ UNCHANGED <<orphans, overtaken>>
  BY DEF Connect
<1>2. PICK seen \in {sdk.seen, Len(sdk.log)} :
         LET s == IF OutOfSync(seen) THEN Invalidate(cache) ELSE cache
         IN /\ sdk' = [sdk EXCEPT !.seen = seen, !.committed = seen, !.fetched = TRUE]
            /\ disk' = IF OutOfSync(seen) THEN [rows |-> s.rows, scsn |-> seen] ELSE disk
            /\ told' = seen
            /\ cache' = OnLogin(s)
  BY DEF Connect
<1> DEFINE s == IF OutOfSync(seen) THEN Invalidate(cache) ELSE cache
           l == [s EXCEPT !.mIsLoggedIn = TRUE]
<1>3. /\ sdk' = [sdk EXCEPT !.seen = seen, !.committed = seen, !.fetched = TRUE]
      /\ disk' = IF OutOfSync(seen) THEN [rows |-> s.rows, scsn |-> seen] ELSE disk
      /\ told' = seen /\ cache' = OnLogin(s)
  BY <1>2
<1>4. /\ Typed(cache) /\ AllWait(cache.names) /\ SdkOk /\ DiskOk
      /\ orphans \subseteq Standard /\ overtaken \subseteq Standard
  BY DEF CacheInv, Types
<1>5. seen \in 0 .. Len(sdk.log) /\ Len(sdk.log) \in Nat
  BY <1>4 DEF SdkOk
<1>6. /\ Typed(s) /\ AllWait(s.names) /\ s.channel = cache.channel
      /\ OutOfSync(seen) => /\ DOMAIN s.rows = {}
                            /\ \A a \in DOMAIN s.items : s.items[a].pending = "update"
      /\ ~OutOfSync(seen) => s = cache
  BY <1>4, InvalidateTyped
<1>. HIDE DEF s
<1>7. Typed(cache') /\ Fetches(l, cache') /\ AllWait(cache'.names)
  BY <1>3, <1>6, OnLoginTyped
<1>8. l = [mIsLoggedIn |-> TRUE, items |-> s.items, names |-> s.names, rows |-> s.rows,
           requests |-> s.requests, channel |-> s.channel, shown |-> s.shown]
  BY <1>6, LoginShape
<1>. HIDE DEF l
<1>9. l.mIsLoggedIn = TRUE /\ l.items = s.items /\ l.rows = s.rows /\ l.channel = s.channel
  BY <1>8
<1>10. /\ cache'.mIsLoggedIn = TRUE /\ cache'.rows = s.rows /\ cache'.channel = s.channel
       /\ DOMAIN s.items \subseteq DOMAIN cache'.items
       /\ \A a \in Standard \cap DOMAIN cache'.items :
             cache'.items[a].pending = "not" => /\ a \in DOMAIN s.items
                                                /\ s.items[a].pending = "not"
                                                /\ cache'.items[a].data = s.items[a].data
  BY <1>7, <1>9 DEF Fetches
<1>11. /\ sdk'.log = sdk.log /\ sdk'.seen = seen /\ sdk'.committed = seen
       /\ sdk' = [log |-> sdk'.log, seen |-> sdk'.seen, committed |-> sdk'.committed,
                  fetched |-> sdk'.fetched]
  <2>1. sdk = [log |-> sdk.log, seen |-> sdk.seen, committed |-> sdk.committed,
               fetched |-> sdk.fetched]
    BY <1>4 DEF SdkOk
  <2>2. QED
    BY <1>3, <2>1
<1>12. /\ disk'.scsn = seen /\ disk' = [rows |-> disk'.rows, scsn |-> disk'.scsn]
       /\ RowsOk(disk'.rows)
       /\ RowsAt(disk'.rows, seen, sdk.log, Excepted)
  <2>1. CASE OutOfSync(seen)
    <3>1. disk' = [rows |-> s.rows, scsn |-> seen]
      BY <1>3, <2>1
    <3>2. RowsOk(s.rows)
      BY <1>6 DEF Typed
    <3>3. disk'.rows = s.rows /\ disk'.scsn = seen
      BY <3>1
    <3>4. RowsAt(s.rows, seen, sdk.log, Excepted)
      BY <1>6, <2>1 DEF RowsAt
    <3>5. QED
      BY <3>1, <3>2, <3>3, <3>4
  <2>2. CASE ~OutOfSync(seen)
    <3>1. disk' = disk /\ disk.scsn = seen
      BY <1>3, <2>2 DEF OutOfSync
    <3>2. QED
      BY <1>4, <3>1 DEF DiskOk, CacheInv, Saved
  <2>3. QED
    BY <2>1, <2>2
<1>13. Types'
  <2>1. SdkOk'
    BY <1>4, <1>5, <1>11 DEF SdkOk
  <2>2. DiskOk'
    BY <1>5, <1>11, <1>12 DEF DiskOk
  <2>3. QED
    BY <1>1, <1>4, <1>7, <2>1, <2>2 DEF Types
<1>14. UnderWay'
  <2>1. cache'.channel = <<>>
    BY <1>1, <1>4, <1>6, <1>10 DEF Typed
  <2>2. Reaches(<<>>, seen, seen, sdk.log)
    BY <1>5, ReachesNothing
  <2>3. QED
    BY <1>3, <1>11, <2>1, <2>2 DEF UnderWay
<1>15. /\ RowsKnown' /\ ItemsAt(cache'.items, seen, sdk.log, Excepted)
       /\ RowsAt(cache'.rows, seen, sdk.log, Excepted)
  <2>1. CASE OutOfSync(seen)
    BY <1>6, <1>10, <2>1 DEF RowsKnown, ItemsAt, RowsAt
  <2>2. CASE ~OutOfSync(seen)
    <3>1. s = cache /\ disk.scsn = seen
      BY <1>6, <2>2 DEF OutOfSync
    <3>2. /\ ItemsAt(cache.items, seen, sdk.log, Excepted)
          /\ RowsAt(cache.rows, seen, sdk.log, Excepted)
      BY <1>1, <3>1 DEF CacheInv, Memory, Since
    <3>3. QED
      BY <1>1, <1>10, <3>1, <3>2 DEF CacheInv, RowsKnown, ItemsAt, RowsAt
  <2>3. QED
    BY <2>1, <2>2
<1>16. Since' = seen
  BY <1>3, <1>10 DEF Since
<1>17. Memory'
  BY <1>1, <1>11, <1>15, <1>16 DEF Memory, Excepted
<1>18. Saved'
  BY <1>1, <1>3, <1>5, <1>11, <1>12 DEF Saved, Excepted
<1>19. QED
  BY <1>13, <1>14, <1>15, <1>17, <1>18 DEF CacheInv

-----------------------------------------------------------------------------
(* The theorems *)

LEMMA Inductive == CacheInv /\ [Next]_vars => CacheInv'
<1>1. SUFFICES ASSUME CacheInv, [Next]_vars PROVE CacheInv'
  OBVIOUS
<1>2. CASE UNCHANGED vars
  <2>1. UNCHANGED <<cache, sdk, disk, told, orphans, overtaken>>
    BY <1>2 DEF vars
  <2>2. Typed(cache) /\ AllWait(cache.names)
    BY <1>1 DEF CacheInv, Types
  <2>3. QED
    BY <1>1, <2>1, <2>2, FetchesNothing, FetchesKeeps
<1>3. CASE \E a \in Watchable, fetch \in BOOLEAN : Watch(a, fetch)
  BY <1>1, <1>3, WatchInv
<1>4. CASE \E a \in Watchable : Unwatch(a)
  BY <1>1, <1>4, UnwatchInv
<1>5. CASE \E a \in Attrs : Get(a, "ask")
  BY <1>1, <1>5, GetInv
<1>6. CASE \E a \in Standard \ Parts : Get(a, "none")
  BY <1>1, <1>6, GetInv, AttrsDef
<1>7. CASE \E a \in Standard : Change(a)
  BY <1>1, <1>7, ChangeInv
<1>8. CASE SdkAnswers
  BY <1>1, <1>8, SdkAnswersInv
<1>9. CASE SdkNotifies
  BY <1>1, <1>9, SdkNotifiesInv
<1>10. CASE SdkCommits
  BY <1>1, <1>10, SdkCommitsInv
<1>11. CASE SdkReloads
  BY <1>1, <1>11, SdkReloadsInv
<1>12. CASE ReceiveAnswer
  BY <1>1, <1>12, ReceiveAnswerInv
<1>13. CASE ReceiveChange
  BY <1>1, <1>13, ReceiveChangeInv
<1>14. CASE ReceiveCommit
  BY <1>1, <1>14, ReceiveCommitInv
<1>15. CASE Restart
  BY <1>1, <1>15, RestartInv
<1>16. CASE Connect
  BY <1>1, <1>16, ConnectInv
<1>17. CASE ServerReads
  BY <1>1, <1>17, ServerReadsInv
<1>18. QED
  BY <1>1, <1>2, <1>3, <1>4, <1>5, <1>6, <1>7, <1>8, <1>9, <1>10, <1>11, <1>12, <1>13, <1>14,
     <1>15, <1>16, <1>17 DEF Next, Receive

LEMMA CacheInvHolds == Spec => []CacheInv
<1>1. Init => CacheInv
  BY InitInv
<1>2. CacheInv /\ [Next]_vars => CacheInv'
  BY Inductive
<1>3. QED
  BY <1>1, <1>2, PTL DEF Spec

\* The cache is well formed: an item has the value its attribute may have, a full name under
\* way waits for a part, a request or an answer that is held has its item in the map, the
\* table has rows of the standard attributes only, and neither the client nor the SDK is told
\* of a change that was not made.
THEOREM TypeOKHolds == Spec => []TypeOK
<1>1. CacheInv => TypeOK
  <2>1. SUFFICES ASSUME CacheInv PROVE TypeOK
    OBVIOUS
  <2>2. /\ Typed(cache) /\ AllWait(cache.names) /\ SdkOk /\ DiskOk
        /\ orphans \subseteq Standard /\ overtaken \subseteq Standard
    BY <2>1 DEF CacheInv, Types
  <2>3. /\ ItemsOk(cache.items) /\ NamesOk(cache.names, cache.items) /\ RowsOk(cache.rows)
        /\ Held(cache.requests, cache.items) /\ ShownOk(cache.shown)
    BY <2>2 DEF Typed
  <2>4. \A a \in DOMAIN cache.items :
           /\ cache.items[a].pending \in Pendings /\ cache.items[a].data \in Values(a)
           /\ cache.items[a].watched \in BOOLEAN /\ cache.items[a].asked \in BOOLEAN
    BY <2>3 DEF ItemsOk, Item
  <2>5. {told, sdk.seen, sdk.committed, disk.scsn} \subseteq 0 .. Len(sdk.log)
    BY <2>1, <2>2, InvRanges DEF SdkOk, DiskOk
  <2>6. \A rows \in {cache.rows, disk.rows} :
           DOMAIN rows \subseteq Standard /\ \A a \in DOMAIN rows : rows[a] \in Nat
    BY <2>2, <2>3 DEF DiskOk, RowsOk
  <2>7. \A i \in DOMAIN cache.names : /\ cache.names[i].live => "fullname" \in DOMAIN cache.items
                                      /\ \E p \in Parts : Waiting(cache.names[i], p)
    BY <2>2, <2>3 DEF NamesOk, AllWait
  <2>8. \A i \in DOMAIN cache.requests : cache.requests[i].value \in Nat \cup {Unknown}
    <3>1. cache.requests \in Seq(Request)
      BY <2>2 DEF Typed
    <3>2. \A i \in DOMAIN cache.requests : cache.requests[i] \in Request
      BY <3>1
    <3>3. QED
      BY <3>2 DEF Request
  <2>9. QED
    BY <2>2, <2>3, <2>4, <2>5, <2>6, <2>7, <2>8 DEF TypeOK, ItemsOk, Held, ShownOk, Pendings
<1>2. QED
  BY <1>1, CacheInvHolds, PTL

\* Nothing that a connected client keeps is older than what it has been told of: neither a
\* value in memory that is not being fetched nor a row of the table, whatever was erased,
\* asked for again, lost in a restart or fetched anew.  This is of the attributes of which no
\* row was written for an item that had gone, and no answer came after the notification of a
\* change that it was read before.
THEOREM FreshHolds == Spec => []Fresh
<1>1. CacheInv => Fresh
  <2>1. SUFFICES ASSUME CacheInv, cache.mIsLoggedIn, NEW a \in Standard \ Excepted
                 PROVE  /\ a \in DOMAIN cache.items /\ cache.items[a].pending = "not"
                           /\ cache.items[a].data # Failed
                               => cache.items[a].data >= Version(a, told)
                        /\ a \in DOMAIN cache.rows => cache.rows[a] >= Version(a, told)
    BY DEF Fresh, Excepted, Current
  <2>2. Version(a, told) = Count(sdk.log, a, told)
    BY VersionIsCount
  <2>3. /\ ItemsAt(cache.items, told, sdk.log, Excepted)
        /\ RowsAt(cache.rows, told, sdk.log, Excepted)
    BY <2>1 DEF CacheInv, Memory, Since
  <2>4. QED
    BY <2>1, <2>2, <2>3 DEF ItemsAt, RowsAt
<1>2. QED
  BY <1>1, CacheInvHolds, PTL

-----------------------------------------------------------------------------
(* What subscribers are given *)

\* a request for an attribute, or its answer, that an item holds
Asks(seq, a)  == \E i \in DOMAIN seq : seq[i].live /\ seq[i].attr = a
Asking(s, a)  == Asks(s.requests, a) \/ Asks(s.channel, a)

\* Of a client that is connected, an item whose value is to be fetched has been asked for,
\* except those of X.
Prompt(s, X) ==
    s.mIsLoggedIn =>
        \A a \in Standard \cap DOMAIN s.items :
            s.items[a].pending \in {"new", "update"} => a \in X \/ Asking(s, a)

\* A subscriber has been given the value of an item that is not to be fetched.
Shows(s) ==
    \A a \in Standard \cap Watchable \cap DOMAIN s.items :
        s.items[a].watched /\ s.items[a].pending = "not" => s.shown[a] = s.items[a].data

\* Nobody subscribes to a part of the full name, or waits for one that is there.
PartsNew(s) ==
    \A p \in Parts \cap DOMAIN s.items :
        /\ s.items[p].pending \in {"new", "not"} /\ ~s.items[p].watched
        /\ s.items[p].asked => s.items[p].pending = "new"

\* A full name waits for parts that are on their way only, and the last one waits for what
\* the others wait for: it is complete after them.
NamesWait(s) ==
    \A p \in Parts, i \in DOMAIN s.names :
        Waiting(s.names[i], p) => /\ p \in DOMAIN s.items /\ s.items[p].pending = "new"
                                  /\ Waiting(Last(s.names), p)

Careful(s, X) == Prompt(s, X) /\ Shows(s) /\ PartsNew(s) /\ NamesWait(s)

LEMMA EmplaceCareful ==
    ASSUME NEW s, Typed(s), NEW attrs \in SUBSET Attrs, attrs \cap DOMAIN s.items = {},
           NEW pending \in {"new", "untilUse"}, pending = "new" \/ attrs \cap Parts = {},
           NEW X, Careful(s, X)
    PROVE  /\ Careful(Emplace(s, attrs, pending), X \cup attrs)
           /\ pending = "untilUse" => Careful(Emplace(s, attrs, pending), X)
<1> DEFINE e == Emplace(s, attrs, pending)
<1>1. /\ Typed(e) /\ OnlyItems(s, e) /\ DOMAIN e.items = DOMAIN s.items \cup attrs
      /\ \A a \in DOMAIN s.items \cup attrs :
            e.items[a] = IF a \in attrs THEN NewItem(pending) ELSE s.items[a]
  BY EmplaceTyped
<1>2. /\ e.names = s.names /\ e.requests = s.requests /\ e.channel = s.channel
      /\ e.shown = s.shown /\ e.mIsLoggedIn = s.mIsLoggedIn
  BY <1>1, OnlyItemsLeaves
<1>. HIDE DEF e
<1>3. /\ \A a \in attrs : /\ e.items[a].pending = pending /\ ~e.items[a].watched
                          /\ ~e.items[a].asked
      /\ \A a \in DOMAIN s.items : a \notin attrs /\ e.items[a] = s.items[a]
  BY <1>1 DEF NewItem
<1>4. \A a : Asking(e, a) <=> Asking(s, a)
  BY <1>2 DEF Asking
<1>5. Prompt(e, X \cup attrs) /\ (pending = "untilUse" => Prompt(e, X))
  BY <1>1, <1>2, <1>3, <1>4 DEF Careful, Prompt
<1>6. Shows(e)
  BY <1>1, <1>2, <1>3 DEF Careful, Shows
<1>7. PartsNew(e)
  BY <1>1, <1>3 DEF Careful, PartsNew
<1>8. NamesWait(e)
  BY <1>1, <1>2, <1>3 DEF Careful, NamesWait
<1>9. QED
  BY <1>5, <1>6, <1>7, <1>8 DEF Careful, e

\* The requests that are made are those that were to be made.
LEMMA FetchEachCareful ==
    ASSUME NEW s, Typed(s), NEW attrs \in Seq(Standard),
           \A i \in DOMAIN attrs : attrs[i] \in DOMAIN s.items,
           NEW X, NEW Y, \A a \in X \cap Standard : a \in Y \/ \E i \in DOMAIN attrs : attrs[i] = a,
           Careful(s, X)
    PROVE  Careful(FetchEach(s, attrs), Y)
<1> DEFINE more == [i \in DOMAIN attrs |-> [attr |-> attrs[i], live |-> TRUE, value |-> Unknown]]
           t    == FetchEach(s, attrs)
<1>1. OnlyRequests(s, t)
  BY FetchEachTyped
<1>2. /\ t.names = s.names /\ t.items = s.items /\ t.channel = s.channel
      /\ t.shown = s.shown /\ t.mIsLoggedIn = s.mIsLoggedIn
  BY <1>1, OnlyRequestsLeaves
<1>3. s.mIsLoggedIn => t.requests = s.requests \o more
  BY DEF FetchEach, Typed
<1>4. /\ s.requests \in Seq(Request) /\ Len(attrs) \in Nat /\ DOMAIN attrs = 1 .. Len(attrs)
      /\ Len(s.requests) \in Nat /\ DOMAIN s.requests = 1 .. Len(s.requests)
  BY DEF Typed
<1>5. /\ Len(more) = Len(attrs) /\ DOMAIN more = DOMAIN attrs
      /\ \A i \in DOMAIN attrs : more[i].live /\ more[i].attr = attrs[i]
  BY <1>4
<1>6. more \in Seq(Request)
  BY <1>4, <1>5 DEF Request
<1>. HIDE DEF more, t
<1>7. /\ \A i \in DOMAIN s.requests : /\ i \in DOMAIN (s.requests \o more)
                                      /\ (s.requests \o more)[i] = s.requests[i]
      /\ \A i \in DOMAIN attrs : /\ Len(s.requests) + i \in DOMAIN (s.requests \o more)
                                 /\ (s.requests \o more)[Len(s.requests) + i] = more[i]
  BY <1>4, <1>5, <1>6
<1>8. ASSUME s.mIsLoggedIn, NEW a, Asking(s, a) \/ \E i \in DOMAIN attrs : attrs[i] = a
      PROVE  Asking(t, a)
  <2>1. t.requests = s.requests \o more
    BY <1>3, <1>8
  <2>2. CASE Asks(s.channel, a)
    BY <1>2, <2>2 DEF Asking
  <2>3. CASE Asks(s.requests, a)
    BY <1>7, <2>1, <2>3 DEF Asking, Asks
  <2>4. CASE \E i \in DOMAIN attrs : attrs[i] = a
    <3>1. PICK i \in DOMAIN attrs : attrs[i] = a
      BY <2>4
    <3>2. /\ Len(s.requests) + i \in DOMAIN t.requests
          /\ t.requests[Len(s.requests) + i] = more[i] /\ more[i].live /\ more[i].attr = a
      BY <1>5, <1>7, <2>1, <3>1
    <3>3. QED
      BY <3>2 DEF Asking, Asks
  <2>5. QED
    BY <1>8, <2>2, <2>3, <2>4 DEF Asking
<1>9. Prompt(t, Y)
  BY <1>2, <1>8 DEF Careful, Prompt
<1>10. QED
  BY <1>2, <1>9 DEF Careful, Shows, PartsNew, NamesWait, t

LEMMA AddCbIs ==
    ASSUME NEW s, Typed(s), NEW a \in DOMAIN s.items, NEW cb \in {"watch", "ask", "none"}
    PROVE  \A b \in DOMAIN s.items :
              /\ AddCb(s, a, cb).items[b].watched = (s.items[b].watched \/ (b = a /\ cb = "watch"))
              /\ AddCb(s, a, cb).items[b].asked = (s.items[b].asked \/ (b = a /\ cb = "ask"))
<1>1. SUFFICES ASSUME NEW b \in DOMAIN s.items
               PROVE  /\ AddCb(s, a, cb).items[b].watched =
                             (s.items[b].watched \/ (b = a /\ cb = "watch"))
                      /\ AddCb(s, a, cb).items[b].asked =
                             (s.items[b].asked \/ (b = a /\ cb = "ask"))
  OBVIOUS
<1>2. /\ s.items[b].watched \in BOOLEAN /\ s.items[b].asked \in BOOLEAN
      /\ s.items[a] = [pending |-> s.items[a].pending, data |-> s.items[a].data,
                       watched |-> s.items[a].watched, asked |-> s.items[a].asked]
  BY DEF Typed, ItemsOk, Item
<1>3. CASE cb = "watch"
  <2>1. AddCb(s, a, cb).items = [s.items EXCEPT ![a].watched = TRUE]
    BY <1>3 DEF AddCb, Typed
  <2>2. QED
    BY <1>2, <1>3, <2>1, ZenonT(30)
<1>4. CASE cb = "ask"
  <2> DEFINE items == AddCb(s, a, cb).items
  <2>1. items = [s.items EXCEPT ![a].asked = TRUE]
    BY <1>4 DEF AddCb, Typed
  <2>. HIDE DEF items
  <2>2. b # a => items[b] = s.items[b]
    BY <2>1
  <2>3. items[a].asked = TRUE /\ items[a].watched = s.items[a].watched
    BY <1>2, <2>1
  <2>4. items[b].watched = s.items[b].watched /\ items[b].asked = (s.items[b].asked \/ b = a)
    BY <1>2, <2>2, <2>3, ZenonT(30)
  <2>5. QED
    BY <1>2, <1>4, <2>4 DEF items
<1>5. CASE cb = "none"
  BY <1>2, <1>5 DEF AddCb
<1>6. QED
  BY <1>3, <1>4, <1>5

\* A callback is added to an item that is to be fetched.
LEMMA AddCbCareful ==
    ASSUME NEW s, Typed(s), NEW a \in DOMAIN s.items, NEW cb \in {"watch", "ask", "none"},
           cb = "watch" => a \in Watchable, s.items[a].pending # "not", NEW X, Careful(s, X)
    PROVE  Careful(AddCb(s, a, cb), X)
<1> DEFINE t == AddCb(s, a, cb)
<1>1. /\ OnlyItems(s, t) /\ DOMAIN t.items = DOMAIN s.items
      /\ \A b \in DOMAIN s.items : /\ t.items[b].pending = s.items[b].pending
                                   /\ t.items[b].data = s.items[b].data
  BY AddCbTyped
<1>2. /\ t.names = s.names /\ t.requests = s.requests /\ t.channel = s.channel
      /\ t.shown = s.shown /\ t.mIsLoggedIn = s.mIsLoggedIn
  BY <1>1, OnlyItemsLeaves
<1>3. \A b \in DOMAIN s.items :
         /\ t.items[b].watched = (s.items[b].watched \/ (b = a /\ cb = "watch"))
         /\ t.items[b].asked = (s.items[b].asked \/ (b = a /\ cb = "ask"))
  BY AddCbIs
<1>. HIDE DEF t
<1>4. Prompt(t, X)
  BY <1>1, <1>2 DEF Careful, Prompt, Asking
<1>5. Shows(t)
  <2>1. SUFFICES ASSUME NEW b \in Standard \cap Watchable \cap DOMAIN t.items,
                        t.items[b].watched, t.items[b].pending = "not"
                 PROVE  t.shown[b] = t.items[b].data
    BY DEF Shows
  <2>2. b # a /\ s.items[b].pending = "not" /\ b \in DOMAIN s.items
    BY <1>1, <2>1
  <2>3. s.items[b].watched
    BY <1>3, <2>1, <2>2
  <2>4. s.shown[b] = s.items[b].data
    BY <2>1, <2>2, <2>3 DEF Careful, Shows
  <2>5. QED
    BY <1>1, <1>2, <2>2, <2>4
<1>6. PartsNew(t)
  BY <1>1, <1>3 DEF Careful, PartsNew, Watchable
<1>7. NamesWait(t)
  BY <1>1, <1>2 DEF Careful, NamesWait
<1>8. QED
  BY <1>4, <1>5, <1>6, <1>7 DEF Careful, t

\* A subscriber is given at once what is there.
Give(s, a) == [AddCb(s, a, "watch") EXCEPT !.shown[a] = s.items[a].data]

LEMMA GiveCareful ==
    ASSUME NEW s, Typed(s), NEW a \in DOMAIN s.items, a \in Watchable, NEW X, Careful(s, X)
    PROVE  /\ Careful(Give(s, a), X)
           /\ Give(s, a).names = s.names /\ DOMAIN Give(s, a).items = DOMAIN s.items
           /\ Give(s, a).shown[a] = s.items[a].data
           /\ \A b \in Watchable : b # a => Give(s, a).shown[b] = s.shown[b]
           /\ \A b \in DOMAIN s.items :
                 /\ Give(s, a).items[b].pending = s.items[b].pending
                 /\ Give(s, a).items[b].data = s.items[b].data
                 /\ Give(s, a).items[b].watched = (s.items[b].watched \/ b = a)
<1> DEFINE c == AddCb(s, a, "watch")
           t == Give(s, a)
<1>1. /\ Typed(c) /\ OnlyItems(s, c) /\ DOMAIN c.items = DOMAIN s.items
      /\ \A b \in DOMAIN s.items : /\ c.items[b].pending = s.items[b].pending
                                   /\ c.items[b].data = s.items[b].data
  BY AddCbTyped
<1>2. /\ c.names = s.names /\ c.requests = s.requests /\ c.channel = s.channel
      /\ c.shown = s.shown /\ c.mIsLoggedIn = s.mIsLoggedIn
  BY <1>1, OnlyItemsLeaves
<1>3. \A b \in DOMAIN s.items :
         /\ c.items[b].watched = (s.items[b].watched \/ b = a)
         /\ c.items[b].asked = s.items[b].asked
  <2>1. \A b \in DOMAIN s.items :
           /\ c.items[b].watched = (s.items[b].watched \/ (b = a /\ "watch" = "watch"))
           /\ c.items[b].asked = (s.items[b].asked \/ (b = a /\ "watch" = "ask"))
    BY AddCbIs
  <2>2. \A b \in DOMAIN s.items : s.items[b].asked \in BOOLEAN /\ s.items[b].watched \in BOOLEAN
    BY DEF Typed, ItemsOk, Item
  <2>. HIDE DEF c
  <2>3. QED
    BY <2>1, <2>2
<1>4. t = [c EXCEPT !.shown[a] = s.items[a].data]
  BY DEF Give
<1>. HIDE DEF c, t
<1>5. /\ t.names = c.names /\ t.requests = c.requests /\ t.channel = c.channel
      /\ t.items = c.items /\ t.mIsLoggedIn = c.mIsLoggedIn
      /\ t.shown = [c.shown EXCEPT ![a] = s.items[a].data]
  BY <1>1, <1>4 DEF Typed
<1>6. /\ t.shown[a] = s.items[a].data
      /\ \A b \in Watchable : b # a => t.shown[b] = s.shown[b]
      /\ DOMAIN t.items = DOMAIN s.items
      /\ \A b \in DOMAIN s.items :
            /\ t.items[b].pending = s.items[b].pending /\ t.items[b].data = s.items[b].data
            /\ t.items[b].watched <=> (s.items[b].watched \/ b = a)
            /\ t.items[b].asked <=> s.items[b].asked
  BY <1>1, <1>2, <1>3, <1>5, ZenonT(30) DEF Typed, ShownOk
<1>7. Prompt(t, X)
  BY <1>1, <1>2, <1>5 DEF Careful, Prompt, Asking
<1>8. Shows(t)
  BY <1>6 DEF Careful, Shows
<1>9. PartsNew(t)
  BY <1>6 DEF Careful, PartsNew, Watchable
<1>10. NamesWait(t)
  BY <1>1, <1>2, <1>5 DEF Careful, NamesWait
<1>11. QED
  BY <1>1, <1>2, <1>3, <1>5, <1>6, <1>7, <1>8, <1>9, <1>10 DEF Careful, t

\* The subscription goes.
LEMMA RemoveCbCareful ==
    ASSUME NEW s, Typed(s), NEW a \in DOMAIN s.items, a \in Watchable, NEW X, Careful(s, X)
    PROVE  /\ Careful(RemoveCb(s, a), X)
           /\ RemoveCb(s, a).names = s.names /\ DOMAIN RemoveCb(s, a).items = DOMAIN s.items
           /\ ~RemoveCb(s, a).items[a].watched
           /\ \A b \in Watchable : b # a => RemoveCb(s, a).shown[b] = s.shown[b]
           /\ \A b \in DOMAIN s.items :
                 /\ b # a => RemoveCb(s, a).items[b] = s.items[b]
                 /\ RemoveCb(s, a).items[b].pending = s.items[b].pending
                 /\ RemoveCb(s, a).items[b].data = s.items[b].data
<1> DEFINE t == RemoveCb(s, a)
<1>1. /\ t.names = s.names /\ t.requests = s.requests /\ t.channel = s.channel
      /\ t.mIsLoggedIn = s.mIsLoggedIn
      /\ t.items = [s.items EXCEPT ![a].watched = FALSE]
      /\ t.shown = [s.shown EXCEPT ![a] = Unknown]
  BY DEF RemoveCb, Typed
<1>. HIDE DEF t
<1>2. \A b \in Watchable : b # a => t.shown[b] = s.shown[b]
  BY <1>1 DEF Typed, ShownOk
<1>3. s.items[a] \in Item(a)
  BY DEF Typed, ItemsOk
<1>4. /\ DOMAIN t.items = DOMAIN s.items /\ ~t.items[a].watched
      /\ t.items[a].pending = s.items[a].pending /\ t.items[a].data = s.items[a].data
      /\ \A b \in DOMAIN s.items : b # a => t.items[b] = s.items[b]
  BY <1>1, <1>3 DEF Item
<1>5. Prompt(t, X)
  BY <1>1, <1>4 DEF Careful, Prompt, Asking
<1>6. Shows(t)
  BY <1>2, <1>4 DEF Careful, Shows
<1>7. PartsNew(t)
  BY <1>4 DEF Careful, PartsNew, Watchable
<1>8. NamesWait(t)
  BY <1>1, <1>4 DEF Careful, NamesWait
<1>9. QED
  BY <1>1, <1>2, <1>4, <1>5, <1>6, <1>7, <1>8 DEF Careful, t

\* An item that is not a part is to be fetched.
LEMMA MarkCareful ==
    ASSUME NEW s, Typed(s), NEW a \in DOMAIN s.items, a \notin Parts,
           NEW pending \in {"new", "update"}, NEW X, Careful(s, X)
    PROVE  /\ Careful(Mark(s, a, pending), X \cup {a})
           /\ Mark(s, a, pending).names = s.names /\ Mark(s, a, pending).shown = s.shown
           /\ \A b \in DOMAIN s.items : b # a => Mark(s, a, pending).items[b] = s.items[b]
<1> DEFINE t == Mark(s, a, pending)
<1>1. /\ t.names = s.names /\ t.requests = s.requests /\ t.channel = s.channel
      /\ t.mIsLoggedIn = s.mIsLoggedIn /\ t.shown = s.shown
      /\ t.items = [s.items EXCEPT ![a].pending = pending]
  BY DEF Mark, Typed
<1>. HIDE DEF t
<1>2. s.items[a] \in Item(a)
  BY DEF Typed, ItemsOk
<1>3. /\ DOMAIN t.items = DOMAIN s.items /\ t.items[a].pending = pending
      /\ \A b \in DOMAIN s.items : b # a => t.items[b] = s.items[b]
  BY <1>1, <1>2 DEF Item
<1>4. Prompt(t, X \cup {a})
  BY <1>1, <1>3 DEF Careful, Prompt, Asking
<1>5. Shows(t)
  BY <1>1, <1>3 DEF Careful, Shows
<1>6. PartsNew(t)
  BY <1>3 DEF Careful, PartsNew
<1>7. NamesWait(t)
  BY <1>1, <1>3 DEF Careful, NamesWait
<1>8. QED
  BY <1>1, <1>3, <1>4, <1>5, <1>6, <1>7 DEF Careful, t

\* What is kept of a sequence has all that is at these positions, the last of the sequence last.
LEMMA KeptAll ==
    ASSUME NEW S, NEW seq \in Seq(S), NEW positions
    PROVE  /\ \A k \in DOMAIN seq \cap positions :
                 \E j \in DOMAIN Kept(seq, positions) : Kept(seq, positions)[j] = seq[k]
           /\ Len(seq) \in DOMAIN seq \cap positions =>
                 Kept(seq, positions) # <<>> /\ Last(Kept(seq, positions)) = Last(seq)
           /\ DOMAIN seq \cap positions = {} => Kept(seq, positions) = <<>>
<1>1. Len(seq) \in Nat /\ DOMAIN seq = 1 .. Len(seq)
  OBVIOUS
<1>2. PICK f : KeptUpTo(f, seq, positions, Len(seq)) /\ Kept(seq, positions) = f[Len(seq)]
  BY <1>1, KeptRecursion
<1>3. \A n \in 0 .. Len(seq) : f[n] = IF n = 0 THEN <<>>
                                      ELSE IF n \in positions THEN Append(f[n - 1], seq[n])
                                      ELSE f[n - 1]
  BY <1>2 DEF KeptUpTo
<1> DEFINE Good(n) == /\ f[n] \in Seq(S)
                      /\ \A k \in (1 .. n) \cap positions : \E j \in DOMAIN f[n] : f[n][j] = seq[k]
           bad     == {n \in Nat : n <= Len(seq) /\ ~Good(n)}
<1>4. Good(0)
  <2>1. f[0] = <<>>
    BY <1>1, <1>3
  <2>2. QED
    BY <2>1
<1>5. ASSUME NEW n \in 1 .. Len(seq), Good(n - 1)
      PROVE  Good(n)
  <2>1. n \in 0 .. Len(seq) /\ n # 0 /\ n \in DOMAIN seq /\ seq[n] \in S /\ f[n - 1] \in Seq(S)
    BY <1>1, <1>5
  <2>2. CASE n \in positions
    <3>1. f[n] = Append(f[n - 1], seq[n])
      BY <1>3, <2>1, <2>2
    <3>2. /\ f[n] \in Seq(S) /\ Len(f[n - 1]) \in Nat /\ DOMAIN f[n - 1] = 1 .. Len(f[n - 1])
          /\ DOMAIN f[n] = 1 .. Len(f[n - 1]) + 1
          /\ f[n][Len(f[n - 1]) + 1] = seq[n]
          /\ \A j \in 1 .. Len(f[n - 1]) : f[n][j] = f[n - 1][j]
      BY <2>1, <3>1
    <3>3. ASSUME NEW k \in (1 .. n) \cap positions
          PROVE  \E j \in DOMAIN f[n] : f[n][j] = seq[k]
      <4>1. CASE k = n
        <5>1. Len(f[n - 1]) + 1 \in DOMAIN f[n]
          BY <3>2
        <5>2. QED
          BY <3>2, <4>1, <5>1
      <4>2. CASE k # n
        <5>1. k \in (1 .. n - 1) \cap positions
          BY <4>2
        <5>2. PICK j \in DOMAIN f[n - 1] : f[n - 1][j] = seq[k]
          BY <1>5, <5>1
        <5>3. j \in DOMAIN f[n] /\ f[n][j] = seq[k]
          BY <3>2, <5>2, SMTT(30)
        <5>4. QED
          BY <5>3
      <4>3. QED
        BY <4>1, <4>2
    <3>4. QED
      BY <3>2, <3>3
  <2>3. CASE n \notin positions
    <3>1. f[n] = f[n - 1]
      BY <1>3, <2>1, <2>3
    <3>2. \A k \in (1 .. n) \cap positions : k \in (1 .. n - 1) \cap positions
      BY <2>3
    <3>3. QED
      BY <1>5, <2>1, <3>1, <3>2
  <2>4. QED
    BY <2>2, <2>3
<1>. HIDE DEF Good
<1>6. bad = {}
  <2>1. SUFFICES ASSUME bad # {} PROVE FALSE
    OBVIOUS
  <2>2. PICK x \in bad : \A y \in bad : ~(y < x)
    <3>1. bad \in SUBSET Nat
      OBVIOUS
    <3>. HIDE DEF bad
    <3>2. QED
      BY <2>1, <3>1, LeastNat
  <2>3. x \in Nat /\ x <= Len(seq) /\ ~Good(x) /\ x # 0
    BY <1>4, <2>2
  <2>4. x - 1 \in Nat /\ x - 1 \notin bad /\ x \in 1 .. Len(seq)
    BY <1>1, <2>2, <2>3
  <2>5. Good(x - 1)
    BY <1>1, <2>3, <2>4
  <2>6. QED
    BY <1>5, <2>3, <2>4, <2>5
<1>7. \A n \in 0 .. Len(seq) : Good(n)
  BY <1>1, <1>6
<1>. HIDE DEF bad
<1>8. \A k \in DOMAIN seq \cap positions :
         \E j \in DOMAIN Kept(seq, positions) : Kept(seq, positions)[j] = seq[k]
  BY <1>1, <1>2, <1>7 DEF Good
<1>9. ASSUME Len(seq) \in DOMAIN seq \cap positions
      PROVE  Kept(seq, positions) # <<>> /\ Last(Kept(seq, positions)) = Last(seq)
  <2> DEFINE n == Len(seq)
             g == f[n - 1]
  <2>1. n \in 1 .. n /\ n - 1 \in 0 .. n /\ seq[n] \in S
    BY <1>1, <1>9
  <2>2. f[n] = Append(g, seq[n])
    <3>1. n \in 0 .. n /\ n # 0 /\ n \in positions
      BY <1>1, <1>9, <2>1
    <3>2. f[n] = IF n = 0 THEN <<>> ELSE IF n \in positions THEN Append(f[n - 1], seq[n])
                                         ELSE f[n - 1]
      BY <1>3, <3>1
    <3>3. QED
      BY <3>1, <3>2
  <2>3. g \in Seq(S)
    BY <1>7, <2>1 DEF Good
  <2>. HIDE DEF g, n
  <2>4. f[n] # <<>> /\ Last(f[n]) = seq[n]
    BY <2>1, <2>2, <2>3, SMTT(30) DEF Last
  <2>5. QED
    BY <1>2, <2>4 DEF n, Last
<1>10. ASSUME DOMAIN seq \cap positions = {}
       PROVE  Kept(seq, positions) = <<>>
  <2>1. /\ Kept(seq, positions) \in Seq(S)
        /\ \A j \in DOMAIN Kept(seq, positions) :
              \E i \in DOMAIN seq \cap positions : Kept(seq, positions)[j] = seq[i]
    BY KeptType
  <2>2. DOMAIN Kept(seq, positions) = {}
    BY <1>10, <2>1
  <2>. HIDE DEF Good
  <2>3. QED
    BY <2>1, <2>2
<1>11. QED
  BY <1>8, <1>9, <1>10

LEMMA InOrderAll ==
    ASSUME NEW attrs, NEW a \in attrs \cap Standard
    PROVE  \E j \in DOMAIN InOrder(attrs) : InOrder(attrs)[j] = a
<1> DEFINE positions == {i \in DOMAIN Ordered : Ordered[i] \in attrs}
<1>1. PICK k \in DOMAIN Ordered : Ordered[k] = a
  BY DEF Standard, ToSet
<1>2. k \in DOMAIN Ordered \cap positions
  BY <1>1
<1>3. InOrder(attrs) = Kept(Ordered, positions)
  BY DEF InOrder
<1>. HIDE DEF positions
<1>4. \E j \in DOMAIN Kept(Ordered, positions) : Kept(Ordered, positions)[j] = Ordered[k]
  BY <1>2, OrderedType, KeptAll
<1>5. QED
  BY <1>1, <1>3, <1>4

-----------------------------------------------------------------------------
(* The full name *)

\* the full names that wait for a part, and those that are complete and that the item has
Waits(names) == {i \in DOMAIN names : \E p \in Parts : Waiting(names[i], p)}
Used(names)  == {i \in DOMAIN names \ Waits(names) : names[i].live}

\* None of these parts is older than the first n changes.
PartsCurrent(parts, n, log, skip) ==
    \A p \in Parts \ skip : parts[p] \in {Unknown, Failed} \/ parts[p] >= Count(log, p, n)

\* A full name that has been asked for is on its way, with parts that are not too old, or is
\* there, and its subscriber has been given it.
Whole(s, n, log, skip) ==
    "fullname" \in DOMAIN s.items =>
        IF s.items["fullname"].pending = "untilUse" THEN \A i \in DOMAIN s.names : ~s.names[i].live
        ELSE \/ /\ s.names # <<>> /\ Last(s.names).live
                /\ PartsCurrent(Last(s.names).parts, n, log, skip)
             \/ /\ s.names = <<>> /\ s.items["fullname"].pending = "not"
                /\ s.items["fullname"].data \in Names
                /\ PartsCurrent(s.items["fullname"].data, n, log, skip)
                /\ s.items["fullname"].watched => s.shown["fullname"] = s.items["fullname"].data

\* What CompleteNames does, without its LET.
LEMMA CompleteNamesIs ==
    ASSUME NEW s, Typed(s)
    PROVE  /\ CompleteNames(s).names = Kept(s.names, Waits(s.names))
           /\ CompleteNames(s).mIsLoggedIn = s.mIsLoggedIn
           /\ CompleteNames(s).channel = s.channel
           /\ \A b \in Watchable \ {"fullname"} : CompleteNames(s).shown[b] = s.shown[b]
           /\ Used(s.names) = {} =>
                 CompleteNames(s).items = s.items /\ CompleteNames(s).shown = s.shown
           /\ Used(s.names) # {} =>
                 /\ CompleteNames(s).items["fullname"].pending = "not"
                 /\ CompleteNames(s).items["fullname"].data = s.names[Max(Used(s.names))].parts
                 /\ CompleteNames(s).items["fullname"].watched =>
                       CompleteNames(s).shown["fullname"] = s.names[Max(Used(s.names))].parts
<1> DEFINE waits == Waits(s.names)
           used  == Used(s.names)
           value == s.names[Max(used)].parts
           names == Kept(s.names, waits)
           u     == [s EXCEPT !.names = names]
           t     == CompleteNames(s)
<1>1. t = IF used = {} THEN u
          ELSE [u EXCEPT !.items["fullname"].data = value,
                         !.items["fullname"].pending = "not",
                         !.items["fullname"].asked = FALSE,
                         !.shown["fullname"] = IF u.items["fullname"].watched THEN value ELSE @]
  BY Zenon DEF CompleteNames, Waits, Used
<1>2. u = [mIsLoggedIn |-> s.mIsLoggedIn, items |-> s.items, names |-> names, rows |-> s.rows,
           requests |-> s.requests, channel |-> s.channel, shown |-> s.shown]
  <2>. HIDE DEF names
  <2>1. QED
    BY DEF Typed
<1>. HIDE DEF waits, used, value, names, u, t
<1>3. CASE used = {}
  <2>1. t = u
    BY <1>1, <1>3
  <2>2. QED
    BY <1>2, <1>3, <2>1 DEF t, names, waits, used
<1>4. CASE used # {}
  <2> DEFINE items == [s.items EXCEPT !["fullname"].data = value,
                                      !["fullname"].pending = "not",
                                      !["fullname"].asked = FALSE]
             shown == [s.shown EXCEPT !["fullname"] =
                          IF s.items["fullname"].watched THEN value ELSE @]
  <2>1. t = [mIsLoggedIn |-> s.mIsLoggedIn, items |-> items, names |-> names, rows |-> s.rows,
             requests |-> s.requests, channel |-> s.channel, shown |-> shown]
    BY <1>1, <1>2, <1>4, ZenonT(30)
  <2>2. PICK i \in DOMAIN s.names : s.names[i].live
    BY <1>4 DEF used, Used
  <2>3. "fullname" \in DOMAIN s.items /\ s.items["fullname"] \in Item("fullname")
    BY <2>2 DEF Typed, NamesOk, ItemsOk
  <2>4. /\ items["fullname"].pending = "not" /\ items["fullname"].data = value
        /\ items["fullname"].watched = s.items["fullname"].watched
    BY <2>3 DEF Item
  <2>5. /\ \A b \in Watchable \ {"fullname"} : shown[b] = s.shown[b]
        /\ s.items["fullname"].watched => shown["fullname"] = value
    BY AttrsDef DEF Typed, ShownOk
  <2>. HIDE DEF items, shown
  <2>6. /\ t.items = items /\ t.shown = shown /\ t.names = names /\ t.channel = s.channel
        /\ t.mIsLoggedIn = s.mIsLoggedIn
    BY <2>1
  <2>7. QED
    BY <1>4, <2>4, <2>5, <2>6 DEF t, names, waits, used, value
<1>5. QED
  BY <1>3, <1>4

LEMMA NamesSeq ==
    ASSUME NEW s, Typed(s)
    PROVE  /\ s.names \in Seq(Name) /\ Len(s.names) \in Nat /\ DOMAIN s.names = 1 .. Len(s.names)
           /\ s.names # <<>> => Len(s.names) \in DOMAIN s.names
           /\ \A i \in DOMAIN s.names : s.names[i].live => "fullname" \in DOMAIN s.items
<1>1. /\ s.names \in Seq(Name)
      /\ \A i \in DOMAIN s.names : s.names[i].live => "fullname" \in DOMAIN s.items
  BY DEF Typed, NamesOk
<1>2. QED
  BY <1>1

\* Once the last full name waits for nothing, none does.
LEMMA NoneWaits ==
    ASSUME NEW s, Typed(s), NamesWait(s), Len(s.names) \notin Waits(s.names)
    PROVE  Waits(s.names) = {}
<1>1. SUFFICES ASSUME NEW i \in DOMAIN s.names, NEW p \in Parts, Waiting(s.names[i], p)
               PROVE  FALSE
  BY DEF Waits
<1>2. Waiting(Last(s.names), p)
  BY <1>1 DEF NamesWait
<1>3. s.names # <<>>
  BY <1>1
<1>4. Len(s.names) \in Waits(s.names)
  BY <1>2, <1>3, NamesSeq DEF Waits, Last
<1>5. QED
  BY <1>4

LEMMA CompleteNamesCareful ==
    ASSUME NEW s, Typed(s), NEW X, Careful(s, X)
    PROVE  Careful(CompleteNames(s), X)
<1> DEFINE t == CompleteNames(s)
<1>1. /\ DOMAIN t.items = DOMAIN s.items /\ t.requests = s.requests
      /\ \A a \in DOMAIN s.items : a # "fullname" => t.items[a] = s.items[a]
  BY CompleteNamesTyped
<1>2. /\ t.names = Kept(s.names, Waits(s.names)) /\ t.mIsLoggedIn = s.mIsLoggedIn
      /\ t.channel = s.channel /\ \A b \in Watchable \ {"fullname"} : t.shown[b] = s.shown[b]
  BY CompleteNamesIs
<1>. HIDE DEF t
<1>3. Prompt(t, X)
  BY <1>1, <1>2, AttrsDef DEF Careful, Prompt, Asking
<1>4. Shows(t)
  BY <1>1, <1>2, AttrsDef DEF Careful, Shows
<1>5. PartsNew(t)
  BY <1>1, AttrsDef DEF Careful, PartsNew
<1>6. NamesWait(t)
  <2>1. SUFFICES ASSUME NEW p \in Parts, NEW j \in DOMAIN t.names, Waiting(t.names[j], p)
                 PROVE  /\ p \in DOMAIN t.items /\ t.items[p].pending = "new"
                        /\ Waiting(Last(t.names), p)
    BY DEF NamesWait
  <2>2. s.names \in Seq(Name)
    BY NamesSeq
  <2>3. PICK i \in DOMAIN s.names \cap Waits(s.names) : t.names[j] = s.names[i]
    BY <1>2, <2>1, <2>2, KeptType
  <2>4. /\ p \in DOMAIN s.items /\ s.items[p].pending = "new" /\ Waiting(Last(s.names), p)
    BY <2>1, <2>3 DEF Careful, NamesWait
  <2>5. Len(s.names) \in DOMAIN s.names \cap Waits(s.names)
    <3>1. Len(s.names) \in DOMAIN s.names
      BY <2>3, NamesSeq
    <3>2. QED
      BY <2>4, <3>1 DEF Waits, Last
  <2>6. Last(t.names) = Last(s.names)
    BY <1>2, <2>2, <2>5, KeptAll
  <2>7. QED
    BY <1>1, <2>4, <2>6, AttrsDef
<1>7. QED
  BY <1>3, <1>4, <1>5, <1>6 DEF Careful, t

LEMMA CompleteNamesWhole ==
    ASSUME NEW s, Typed(s), NamesWait(s), NEW n, NEW log, NEW skip, Whole(s, n, log, skip)
    PROVE  Whole(CompleteNames(s), n, log, skip)
<1> DEFINE t == CompleteNames(s)
           z == Max(Used(s.names))
<1>1. DOMAIN t.items = DOMAIN s.items
  BY CompleteNamesTyped
<1>2. /\ t.names = Kept(s.names, Waits(s.names))
      /\ Used(s.names) = {} => t.items = s.items /\ t.shown = s.shown
      /\ Used(s.names) # {} =>
            /\ t.items["fullname"].pending = "not" /\ t.items["fullname"].data = s.names[z].parts
            /\ t.items["fullname"].watched => t.shown["fullname"] = s.names[z].parts
  BY CompleteNamesIs
<1>3. /\ s.names \in Seq(Name) /\ Len(s.names) \in Nat /\ DOMAIN s.names = 1 .. Len(s.names)
      /\ s.names # <<>> => Len(s.names) \in DOMAIN s.names
  BY NamesSeq
<1>. HIDE DEF t, z
<1>4. SUFFICES ASSUME "fullname" \in DOMAIN s.items PROVE Whole(t, n, log, skip)
  BY <1>1 DEF Whole, t
<1>5. CASE s.items["fullname"].pending = "untilUse"
  <2>1. \A i \in DOMAIN s.names : ~s.names[i].live
    BY <1>4, <1>5 DEF Whole
  <2>2. Used(s.names) = {}
    BY <2>1 DEF Used
  <2>3. \A j \in DOMAIN t.names : ~t.names[j].live
    BY <1>2, <1>3, <2>1, KeptType
  <2>4. QED
    BY <1>2, <1>5, <2>2, <2>3 DEF Whole
<1>6. CASE s.items["fullname"].pending # "untilUse" /\ s.names = <<>>
  <2>1. Used(s.names) = {} /\ DOMAIN s.names = {}
    BY <1>3, <1>6 DEF Used
  <2>2. t.names = <<>>
    BY <1>2, <1>3, <2>1, KeptAll
  <2>3. QED
    BY <1>2, <1>4, <1>6, <2>1, <2>2 DEF Whole
<1>7. CASE s.items["fullname"].pending # "untilUse" /\ s.names # <<>>
  <2>1. Last(s.names).live /\ PartsCurrent(Last(s.names).parts, n, log, skip)
    BY <1>4, <1>7 DEF Whole
  <2>2. Len(s.names) \in DOMAIN s.names /\ Last(s.names) = s.names[Len(s.names)]
    BY <1>3, <1>7 DEF Last
  <2>3. CASE Len(s.names) \in Waits(s.names)
    <3>1. t.names # <<>> /\ Last(t.names) = Last(s.names)
      BY <1>2, <1>3, <2>2, <2>3, KeptAll
    <3>2. t.items["fullname"].pending # "untilUse"
      BY <1>2, <1>7
    <3>3. QED
      BY <2>1, <3>1, <3>2 DEF Whole
  <2>4. CASE Len(s.names) \notin Waits(s.names)
    <3>1. Waits(s.names) = {}
      BY <2>4, NoneWaits
    <3>2. t.names = <<>>
      BY <1>2, <1>3, <3>1, KeptAll
    <3>3. Len(s.names) \in Used(s.names) /\ Used(s.names) \in SUBSET (1 .. Len(s.names))
      BY <1>3, <2>1, <2>2, <3>1 DEF Used
    <3>4. z \in Used(s.names) /\ z >= Len(s.names)
      BY <1>3, <3>3, MaxIn DEF z
    <3>5. z = Len(s.names)
      BY <1>3, <3>3, <3>4
    <3>6. s.names[z].parts \in Names
      <4>1. s.names[z] \in Name
        BY <1>3, <2>2, <3>5
      <4>2. s.names[z].parts \in [Parts -> Versions \cup {Unknown}]
        BY <4>1 DEF Name
      <4>3. \A p \in Parts : s.names[z].parts[p] # Unknown
        BY <2>2, <3>1, <3>5 DEF Waits, Waiting
      <4>4. \A parts \in [Parts -> Versions \cup {Unknown}] :
               (\A p \in Parts : parts[p] # Unknown) => parts \in Names
        BY Zenon DEF Names
      <4>5. QED
        BY <4>2, <4>3, <4>4, Zenon
    <3>7. PartsCurrent(s.names[z].parts, n, log, skip)
      BY <2>1, <2>2, <3>5
    <3>8. QED
      BY <1>2, <3>2, <3>3, <3>6, <3>7 DEF Whole
  <2>5. QED
    BY <2>3, <2>4
<1>8. QED
  BY <1>5, <1>6, <1>7

\* Asking for the full name.
LEMMA FetchUserFullNameCareful ==
    ASSUME NEW s, Typed(s), "fullname" \in DOMAIN s.items,
           s.items["fullname"].pending # "untilUse", NEW X, Careful(s, X),
           NEW n, NEW log, NEW skip, ItemsAt(s.items, n, log, skip)
    PROVE  /\ Careful(FetchUserFullName(s), X) /\ Whole(FetchUserFullName(s), n, log, skip)
<1> DEFINE known(p) == p \in DOMAIN s.items /\ s.items[p].pending # "new"
           parts    == [p \in Parts |-> IF known(p) THEN s.items[p].data ELSE Unknown]
           name     == [live |-> TRUE, parts |-> parts]
           missing  == Parts \ DOMAIN s.items
           e        == Emplace(s, missing, "new")
           names    == Append(e.names, name)
           t        == [e EXCEPT !.names = names]
           u        == FetchEach(t, InOrder(missing))
<1>1. \A p \in Parts \cap DOMAIN s.items : s.items[p].data \in Versions
  <2>1. SUFFICES ASSUME NEW p \in Parts, p \in DOMAIN s.items
                 PROVE  s.items[p].data \in Versions
    OBVIOUS
  <2>2. s.items[p] \in Item(p)
    BY <2>1 DEF Typed, ItemsOk
  <2>3. Values(p) = Versions
    BY AttrsDef
  <2>4. QED
    BY <2>2, <2>3 DEF Item
<1>2. name \in Name /\ name.live /\ name.parts = parts
  BY <1>1 DEF Name
<1>3. \A p \in Parts : /\ known(p) => parts[p] = s.items[p].data /\ parts[p] # Unknown
                       /\ ~known(p) => parts[p] = Unknown
  BY <1>1, VersionsDef
<1>4. PartsCurrent(parts, n, log, skip)
  <2>1. SUFFICES ASSUME NEW p \in Parts \ skip, known(p)
                 PROVE  s.items[p].data = Failed \/ s.items[p].data >= Count(log, p, n)
    BY <1>3 DEF PartsCurrent
  <2>2. s.items[p].pending = "not"
    BY <2>1 DEF Careful, PartsNew
  <2>3. QED
    BY <2>1, <2>2, AttrsDef DEF ItemsAt
<1>5. /\ missing \in SUBSET Attrs /\ missing \subseteq Parts /\ missing \cap DOMAIN s.items = {}
      /\ "fullname" \notin missing
  BY AttrsDef
<1>6. /\ Typed(e) /\ OnlyItems(s, e) /\ Fetches(s, e)
      /\ DOMAIN e.items = DOMAIN s.items \cup missing
      /\ \A a \in DOMAIN s.items \cup missing :
            e.items[a] = IF a \in missing THEN NewItem("new") ELSE s.items[a]
  <2>. HIDE DEF missing
  <2>1. QED
    BY <1>5, EmplaceTyped
<1>7. e.names = s.names
  BY <1>6, OnlyItemsLeaves
<1>8. Careful(e, X \cup missing)
  <2>. HIDE DEF missing
  <2>1. QED
    BY <1>5, EmplaceCareful
<1>9. \A p \in Parts : ~known(p) => p \in DOMAIN e.items /\ e.items[p].pending = "new"
  BY <1>6 DEF NewItem
<1>10. \A p \in Parts : Waiting(name, p) <=> ~known(p)
  BY <1>2, <1>3, Zenon DEF Waiting
<1>. HIDE DEF name, parts
<1>11. /\ e.names \in Seq(Name) /\ Len(e.names) \in Nat /\ DOMAIN e.names = 1 .. Len(e.names)
       /\ \A i \in DOMAIN e.names : e.names[i].live => "fullname" \in DOMAIN e.items
  BY <1>6, NamesSeq
<1>12. /\ names \in Seq(Name) /\ Last(names) = name /\ names # <<>>
       /\ DOMAIN names = 1 .. Len(e.names) + 1
       /\ names[Len(e.names) + 1] = name
       /\ \A i \in DOMAIN e.names : names[i] = e.names[i]
  <2> DEFINE old == e.names
  <2>1. old \in Seq(Name) /\ Len(old) \in Nat /\ DOMAIN old = 1 .. Len(old)
    BY <1>11
  <2>. HIDE DEF old
  <2>2. /\ Append(old, name) \in Seq(Name) /\ Len(Append(old, name)) = Len(old) + 1
        /\ DOMAIN Append(old, name) = 1 .. Len(old) + 1
        /\ Append(old, name)[Len(old) + 1] = name
        /\ \A i \in DOMAIN old : Append(old, name)[i] = old[i]
    BY <1>2, <2>1
  <2>3. Last(Append(old, name)) = name /\ Append(old, name) # <<>>
    BY <2>1, <2>2 DEF Last
  <2>4. QED
    BY <2>2, <2>3 DEF old
<1>13. NamesOk(names, e.items)
  BY <1>6, <1>12 DEF NamesOk
<1>. HIDE DEF names
<1>14. Typed(t) /\ t.items = e.items /\ t.names = names
  <2>. HIDE DEF e
  <2>1. QED
    BY <1>6, <1>13, NamesTyped
<1>15. /\ t.mIsLoggedIn = e.mIsLoggedIn /\ t.requests = e.requests /\ t.channel = e.channel
       /\ t.shown = e.shown
  BY <1>6 DEF Typed
<1>. HIDE DEF e, t
<1>16. NamesWait(t)
  <2>1. SUFFICES ASSUME NEW p \in Parts, NEW i \in DOMAIN names, Waiting(names[i], p)
                 PROVE  p \in DOMAIN e.items /\ e.items[p].pending = "new" /\ ~known(p)
    BY <1>10, <1>12, <1>14 DEF NamesWait
  <2>2. CASE i \in DOMAIN e.names
    <3>1. Waiting(s.names[i], p)
      BY <1>7, <1>12, <2>1, <2>2
    <3>2. s.items[p].pending = "new"
      BY <1>7, <2>2, <3>1 DEF Careful, NamesWait
    <3>3. QED
      BY <1>9, <3>2
  <2>3. CASE i = Len(e.names) + 1
    BY <1>9, <1>10, <1>12, <2>1, <2>3
  <2>4. QED
    BY <1>11, <1>12, <2>2, <2>3
<1>17. Careful(t, X \cup missing)
  BY <1>8, <1>14, <1>15, <1>16 DEF Careful, Prompt, Asking, Shows, PartsNew
<1>18. /\ InOrder(missing) \in Seq(Standard)
       /\ \A i \in DOMAIN InOrder(missing) : InOrder(missing)[i] \in DOMAIN t.items
       /\ \A a \in (X \cup missing) \cap Standard :
             a \in X \/ \E i \in DOMAIN InOrder(missing) : InOrder(missing)[i] = a
  <2>. HIDE DEF missing
  <2>1. QED
    BY <1>6, <1>14, InOrderType, InOrderAll
<1>19. Typed(u) /\ OnlyRequests(t, u) /\ Careful(u, X)
  <2>. HIDE DEF missing
  <2>1. QED
    BY <1>14, <1>17, <1>18, FetchEachTyped, FetchEachCareful
<1>20. u.names = names /\ u.items = e.items /\ u.shown = t.shown
  BY <1>14, <1>19, OnlyRequestsLeaves
<1>21. FetchUserFullName(s) = CompleteNames(u)
  BY DEF FetchUserFullName, u, t, e, names, name, parts, missing
<1>. HIDE DEF u
<1>22. Whole(u, n, log, skip)
  <2>1. u.items["fullname"] = s.items["fullname"]
    BY <1>5, <1>6, <1>20
  <2>2. Last(u.names) = name /\ u.names # <<>>
    BY <1>12, <1>20
  <2>3. QED
    BY <1>2, <1>4, <2>1, <2>2 DEF Whole
<1>23. QED
  BY <1>19, <1>21, <1>22, CompleteNamesCareful, CompleteNamesWhole DEF Careful

\* fetchAttr() of an item that is to be fetched.
LEMMA FetchAttrCareful ==
    ASSUME NEW s, Typed(s), NEW a \in DOMAIN s.items, Careful(s, {a}),
           NEW n, NEW log, NEW skip, ItemsAt(s.items, n, log, skip),
           a = "fullname" => s.items[a].pending # "untilUse",
           a # "fullname" => Whole(s, n, log, skip)
    PROVE  Careful(FetchAttr(s, a), {}) /\ Whole(FetchAttr(s, a), n, log, skip)
<1>1. CASE a = "fullname"
  <2>1. Careful(s, {})
    BY <1>1, AttrsDef DEF Careful, Prompt
  <2>2. FetchAttr(s, a) = FetchUserFullName(s)
    BY <1>1 DEF FetchAttr
  <2>3. QED
    BY <1>1, <2>1, <2>2, FetchUserFullNameCareful
<1>2. CASE a # "fullname"
  <2> DEFINE one == <<a>>
             t   == FetchEach(s, one)
  <2>1. a \in Standard
    BY <1>2, AttrsDef DEF Typed, ItemsOk
  <2>2. /\ one \in Seq(Standard) /\ \A i \in DOMAIN one : one[i] \in DOMAIN s.items
        /\ \A b \in {a} \cap Standard : b \in {} \/ \E i \in DOMAIN one : one[i] = b
    <3>1. DOMAIN one = {1} /\ one[1] = a
      OBVIOUS
    <3>2. one \in Seq(Standard)
      BY <2>1
    <3>. HIDE DEF one
    <3>3. QED
      BY <3>1, <3>2
  <2>3. FetchAttr(s, a) = t
    BY <1>2 DEF FetchAttr
  <2>. HIDE DEF one
  <2>4. Careful(t, {}) /\ OnlyRequests(s, t)
    BY <2>2, FetchEachTyped, FetchEachCareful
  <2>5. t.names = s.names /\ t.items = s.items /\ t.shown = s.shown
    BY <2>4, OnlyRequestsLeaves
  <2>6. Whole(t, n, log, skip)
    BY <1>2, <2>5 DEF Whole
  <2>7. QED
    BY <2>3, <2>4, <2>6
<1>3. QED
  BY <1>1, <1>2

\* An item that only asks for a value leaves the others as old as they are.
LEMMA FetchesItems ==
    ASSUME NEW s, NEW t, Fetches(s, t), NEW n, NEW log, NEW skip, ItemsAt(s.items, n, log, skip)
    PROVE  ItemsAt(t.items, n, log, skip)
BY DEF Fetches, ItemsAt

\* getAttr(), whatever its callback.
LEMMA GetAttrCareful ==
    ASSUME NEW s, Typed(s), AllWait(s.names), NEW a \in Attrs,
           NEW cb \in {"watch", "ask", "none"}, cb = "watch" => a \in Watchable,
           NEW fetch \in BOOLEAN, ~fetch => a \in Watchable,
           Careful(s, {}), NEW n, NEW log, NEW skip, ItemsAt(s.items, n, log, skip),
           Whole(s, n, log, skip)
    PROVE  Careful(GetAttr(s, a, cb, fetch), {}) /\ Whole(GetAttr(s, a, cb, fetch), n, log, skip)
<1> DEFINE pending == IF fetch THEN "new" ELSE "untilUse"
           e       == Emplace(s, {a}, pending)
           new     == AddCb(e, a, cb)
           c       == AddCb(s, a, cb)
           t       == GetAttr(s, a, cb, fetch)
<1>1. CASE a \notin DOMAIN s.items
  <2>1. /\ Typed(e) /\ Fetches(s, e) /\ OnlyItems(s, e)
        /\ DOMAIN e.items = DOMAIN s.items \cup {a}
        /\ \A b \in DOMAIN s.items \cup {a} :
              e.items[b] = IF b \in {a} THEN NewItem(pending) ELSE s.items[b]
    BY EmplaceTyped
  <2>2. e.names = s.names /\ e.shown = s.shown
    BY <2>1, OnlyItemsLeaves
  <2>3. e.items[a].pending = pending /\ \A b \in DOMAIN s.items : e.items[b] = s.items[b]
    BY <1>1, <2>1 DEF NewItem
  <2>4. /\ Careful(e, {a}) /\ (~fetch => Careful(e, {}))
    <3>1. pending = "new" \/ {a} \cap Parts = {}
      BY DEF Watchable
    <3>2. {a} \in SUBSET Attrs /\ {a} \cap DOMAIN s.items = {} /\ pending \in {"new", "untilUse"}
      BY <1>1
    <3>3. ~fetch => pending = "untilUse"
      OBVIOUS
    <3>4. {} \cup {a} = {a}
      OBVIOUS
    <3>. HIDE DEF pending
    <3>5. Careful(e, {} \cup {a}) /\ (pending = "untilUse" => Careful(e, {}))
      BY <3>1, <3>2, EmplaceCareful
    <3>6. QED
      BY <3>3, <3>4, <3>5
  <2>. HIDE DEF e
  <2>5. /\ Typed(new) /\ Fetches(e, new) /\ OnlyItems(e, new) /\ DOMAIN new.items = DOMAIN e.items
        /\ \A b \in DOMAIN e.items : /\ new.items[b].pending = e.items[b].pending
                                     /\ new.items[b].data = e.items[b].data
    BY <2>1, AddCbTyped
  <2>6. new.names = s.names /\ new.shown = s.shown
    BY <2>1, <2>2, <2>5, OnlyItemsLeaves
  <2>7. Careful(new, {a}) /\ (~fetch => Careful(new, {}))
    BY <2>1, <2>3, <2>4, AddCbCareful
  <2>8. \A b \in DOMAIN s.items : /\ new.items[b].pending = s.items[b].pending
                                  /\ new.items[b].data = s.items[b].data
                                  /\ b # a /\ new.items[b].watched = s.items[b].watched
    <3>1. \A b \in DOMAIN e.items :
             new.items[b].watched = (e.items[b].watched \/ (b = a /\ cb = "watch"))
      BY <2>1, AddCbIs
    <3>2. \A b \in DOMAIN s.items : s.items[b].watched \in BOOLEAN
      BY DEF Typed, ItemsOk, Item
    <3>3. \A b \in DOMAIN s.items : /\ new.items[b].pending = s.items[b].pending
                                    /\ new.items[b].data = s.items[b].data /\ b # a
      BY <1>1, <2>1, <2>3, <2>5
    <3>. HIDE DEF new
    <3>4. QED
      BY <1>1, <2>1, <2>3, <3>1, <3>2, <3>3
  <2>9. ItemsAt(new.items, n, log, skip)
    BY <2>1, <2>5, FetchesItems
  <2>10. t = IF fetch THEN FetchAttr(new, a) ELSE new
    BY <1>1 DEF GetAttr, e
  <2>11. a # "fullname" => Whole(new, n, log, skip)
    BY <2>1, <2>5, <2>6, <2>8 DEF Whole
  <2>12. CASE fetch
    <3>1. new.items[a].pending = "new"
      BY <2>1, <2>3, <2>5, <2>12
    <3>2. t = FetchAttr(new, a) /\ a \in DOMAIN new.items
      BY <2>1, <2>5, <2>10, <2>12
    <3>. HIDE DEF new, t
    <3>3. Careful(FetchAttr(new, a), {}) /\ Whole(FetchAttr(new, a), n, log, skip)
      BY <2>5, <2>7, <2>9, <2>11, <3>1, <3>2, FetchAttrCareful
    <3>4. QED
      BY <3>2, <3>3 DEF t
  <2>13. CASE ~fetch
    <3>1. a = "fullname" => Whole(new, n, log, skip)
      <4>1. a = "fullname" => \A i \in DOMAIN s.names : ~s.names[i].live
        BY <1>1, NamesSeq
      <4>2. new.items[a].pending = "untilUse"
        BY <2>1, <2>3, <2>5, <2>13
      <4>3. QED
        BY <2>6, <4>1, <4>2 DEF Whole
    <3>2. QED
      BY <2>7, <2>10, <2>11, <2>13, <3>1
  <2>14. QED
    BY <2>12, <2>13
<1>2. CASE a \in DOMAIN s.items
  <2>1. /\ Typed(c) /\ Fetches(s, c) /\ DOMAIN c.items = DOMAIN s.items /\ OnlyItems(s, c)
        /\ \A b \in DOMAIN s.items : /\ c.items[b].pending = s.items[b].pending
                                     /\ c.items[b].data = s.items[b].data
    BY <1>2, AddCbTyped
  <2>2. c.names = s.names /\ c.shown = s.shown
    BY <2>1, OnlyItemsLeaves
  <2>3. s.items[a].pending # "not" => Careful(c, {})
    BY <1>2, AddCbCareful
  <2>4. \A b \in DOMAIN s.items : b # a => c.items[b].watched = s.items[b].watched
    <3>1. \A b \in DOMAIN s.items :
             c.items[b].watched = (s.items[b].watched \/ (b = a /\ cb = "watch"))
      BY <1>2, AddCbIs
    <3>2. \A b \in DOMAIN s.items : s.items[b].watched \in BOOLEAN
      BY DEF Typed, ItemsOk, Item
    <3>. HIDE DEF c
    <3>3. QED
      BY <3>1, <3>2
  <2>5. s.items[a].pending # "not" => Whole(c, n, log, skip)
    BY <2>1, <2>2, <2>4 DEF Whole
  <2>6. ItemsAt(c.items, n, log, skip)
    BY <2>1, FetchesItems
  <2>7. CASE cb = "none"
    <3>1. t = s
      BY <1>2, <2>7 DEF GetAttr
    <3>2. QED
      BY <3>1
  <2>8. CASE cb # "none" /\ s.items[a].pending = "new"
    <3>1. t = c
      BY <1>2, <2>8 DEF GetAttr
    <3>2. QED
      BY <2>3, <2>5, <2>8, <3>1
  <2>9. CASE cb # "none" /\ s.items[a].pending = "untilUse"
    <3> DEFINE u == Mark(c, a, "new")
    <3>1. t = IF fetch THEN FetchAttr(u, a) ELSE c
      BY <1>2, <2>9 DEF GetAttr, Mark
    <3>2. a \notin Parts
      BY <1>2, <2>9 DEF Careful, PartsNew
    <3>. HIDE DEF c, t
    <3>3. Typed(u) /\ Fetches(c, u) /\ DOMAIN u.items = DOMAIN c.items /\ u.items[a].pending = "new"
      BY <1>2, <2>1, <2>2, PendingTyped
    <3>4. /\ Careful(u, {} \cup {a}) /\ u.names = c.names /\ u.shown = c.shown
          /\ \A b \in DOMAIN c.items : b # a => u.items[b] = c.items[b]
      BY <1>2, <2>1, <2>3, <2>9, <3>2, MarkCareful, ZenonT(30)
    <3>5. Careful(u, {a})
      <4>1. {} \cup {a} = {a}
        OBVIOUS
      <4>2. QED
        BY <3>4, <4>1
    <3>. HIDE DEF u
    <3>6. a # "fullname" => Whole(u, n, log, skip)
      BY <2>5, <2>9, <3>3, <3>4 DEF Whole
    <3>7. ItemsAt(u.items, n, log, skip)
      BY <2>6, <3>3, FetchesItems
    <3>8. Careful(FetchAttr(u, a), {}) /\ Whole(FetchAttr(u, a), n, log, skip)
      BY <1>2, <2>1, <3>3, <3>5, <3>6, <3>7, FetchAttrCareful
    <3>9. QED
      BY <2>3, <2>5, <2>9, <3>1, <3>8 DEF t
  <2>10. CASE cb # "none" /\ s.items[a].pending \notin {"new", "untilUse"}
    <3>1. t = IF cb = "watch" THEN Give(s, a) ELSE s
      BY <1>2, <2>10 DEF GetAttr, Give
    <3> DEFINE g == Give(s, a)
    <3>. HIDE DEF t
    <3>2. CASE cb = "watch"
      <4>1. /\ Careful(g, {}) /\ g.names = s.names /\ DOMAIN g.items = DOMAIN s.items
            /\ g.shown[a] = s.items[a].data
            /\ \A b \in Watchable : b # a => g.shown[b] = s.shown[b]
            /\ \A b \in DOMAIN s.items :
                  /\ g.items[b].pending = s.items[b].pending /\ g.items[b].data = s.items[b].data
                  /\ g.items[b].watched = (s.items[b].watched \/ b = a)
        BY <1>2, <3>2, GiveCareful
      <4>. HIDE DEF g
      <4>2. \A b \in DOMAIN s.items : s.items[b].watched \in BOOLEAN
        BY DEF Typed, ItemsOk, Item
      <4>3. Whole(g, n, log, skip)
        BY <4>1, <4>2, AttrsDef DEF Whole
      <4>4. QED
        BY <3>1, <3>2, <4>1, <4>3 DEF g, t
    <3>3. QED
      BY <3>1, <3>2 DEF t
  <2>11. QED
    BY <2>7, <2>8, <2>9, <2>10
<1>3. QED
  BY <1>1, <1>2

-----------------------------------------------------------------------------
(* Changes, answers and the login, for subscribers *)

\* Who asks for the other attributes is as it was.
LEMMA OrphanedAsks ==
    ASSUME NEW seq, NEW a, NEW b, b # a, Asks(seq, b)
    PROVE  Asks(Orphaned(seq, a), b)
BY DEF Asks, Orphaned

\* Where each field of the cache is once an item has left the map.
LEMMA EraseIs ==
    ASSUME NEW s, Typed(s), NEW a \in Attrs
    PROVE  /\ Erase(s, a).mIsLoggedIn = s.mIsLoggedIn /\ Erase(s, a).shown = s.shown
           /\ DOMAIN Erase(s, a).items = DOMAIN s.items \ {a}
           /\ \A b \in DOMAIN s.items \ {a} : Erase(s, a).items[b] = s.items[b]
           /\ Len(Erase(s, a).names) = Len(s.names)
           /\ DOMAIN Erase(s, a).names = DOMAIN s.names
           /\ \A i \in DOMAIN s.names : Erase(s, a).names[i].parts = s.names[i].parts
           /\ a # "fullname" => Erase(s, a).names = s.names
           /\ \A b : b # a /\ Asking(s, b) => Asking(Erase(s, a), b)
<1> DEFINE t == Erase(s, a)
<1>1. CASE a = "fullname"
  <2> DEFINE names == [i \in DOMAIN s.names |-> [s.names[i] EXCEPT !.live = FALSE]]
  <2>1. t = [mIsLoggedIn |-> s.mIsLoggedIn, items |-> Without(s.items, a), names |-> names,
             rows |-> s.rows, requests |-> s.requests, channel |-> s.channel,
             shown |-> s.shown]
    BY <1>1 DEF Erase, Typed
  <2>2. Len(s.names) \in Nat /\ DOMAIN s.names = 1 .. Len(s.names) /\ s.names \in Seq(Name)
    BY NamesSeq
  <2>3. DOMAIN names = 1 .. Len(s.names) /\ Len(names) = Len(s.names)
    BY <2>2
  <2>4. \A i \in DOMAIN s.names : names[i].parts = s.names[i].parts
    BY <2>2 DEF Name
  <2>. HIDE DEF names, t
  <2>5. /\ t.mIsLoggedIn = s.mIsLoggedIn /\ t.items = Without(s.items, a) /\ t.names = names
        /\ t.requests = s.requests /\ t.channel = s.channel /\ t.shown = s.shown
    BY <2>1
  <2>6. QED
    BY <1>1, <2>2, <2>3, <2>4, <2>5 DEF Without, Asking, t
<1>2. CASE a # "fullname"
  <2> DEFINE requests == Orphaned(s.requests, a)
             channel  == Orphaned(s.channel, a)
  <2>1. t = [mIsLoggedIn |-> s.mIsLoggedIn, items |-> Without(s.items, a), names |-> s.names,
             rows |-> s.rows, requests |-> requests, channel |-> channel, shown |-> s.shown]
    BY <1>2 DEF Erase, Typed, Orphaned
  <2>. HIDE DEF t, requests, channel
  <2>2. /\ t.mIsLoggedIn = s.mIsLoggedIn /\ t.items = Without(s.items, a) /\ t.names = s.names
        /\ t.requests = requests /\ t.channel = channel /\ t.shown = s.shown
    BY <2>1
  <2>3. \A b : b # a /\ Asking(s, b) => Asking(t, b)
    BY <2>2, OrphanedAsks DEF Asking, requests, channel
  <2>4. QED
    BY <2>2, <2>3 DEF Without, t
<1>3. QED
  BY <1>1, <1>2

LEMMA EraseCareful ==
    ASSUME NEW s, Typed(s), AllWait(s.names), NEW a \in Attrs, ~HasCallbacks(s, a),
           Careful(s, {})
    PROVE  /\ Careful(Erase(s, a), {})
           /\ \A n, log, skip : Whole(s, n, log, skip) \/ a = "fullname"
                                   => Whole(Erase(s, a), n, log, skip)
<1> DEFINE t == Erase(s, a)
<1>1. /\ t.mIsLoggedIn = s.mIsLoggedIn /\ t.shown = s.shown
      /\ DOMAIN t.items = DOMAIN s.items \ {a}
      /\ \A b \in DOMAIN s.items \ {a} : t.items[b] = s.items[b]
      /\ Len(t.names) = Len(s.names) /\ DOMAIN t.names = DOMAIN s.names
      /\ \A i \in DOMAIN s.names : t.names[i].parts = s.names[i].parts
      /\ a # "fullname" => t.names = s.names
      /\ \A b : b # a /\ Asking(s, b) => Asking(t, b)
  BY EraseIs
<1>. HIDE DEF t
<1>2. \A i \in DOMAIN s.names : ~Waiting(s.names[i], a)
  BY DEF HasCallbacks
<1>3. \A i \in DOMAIN s.names, p \in Parts : Waiting(t.names[i], p) <=> Waiting(s.names[i], p)
  BY <1>1 DEF Waiting
<1>4. Prompt(t, {})
  BY <1>1 DEF Careful, Prompt
<1>5. Shows(t)
  BY <1>1 DEF Careful, Shows
<1>6. PartsNew(t)
  BY <1>1 DEF Careful, PartsNew
<1>7. NamesWait(t)
  <2>1. SUFFICES ASSUME NEW p \in Parts, NEW i \in DOMAIN s.names, Waiting(s.names[i], p)
                 PROVE  /\ p \in DOMAIN t.items /\ t.items[p].pending = "new"
                        /\ Waiting(Last(t.names), p)
    BY <1>1, <1>3 DEF NamesWait
  <2>2. /\ p # a /\ p \in DOMAIN s.items /\ s.items[p].pending = "new"
        /\ Waiting(Last(s.names), p)
    BY <1>2, <2>1 DEF Careful, NamesWait
  <2>3. Len(s.names) \in DOMAIN s.names
    BY <2>1, NamesSeq
  <2>4. QED
    BY <1>1, <1>3, <2>2, <2>3 DEF Last
<1>8. \A n, log, skip : Whole(s, n, log, skip) \/ a = "fullname" => Whole(t, n, log, skip)
  BY <1>1 DEF Whole
<1>9. QED
  BY <1>4, <1>5, <1>6, <1>7, <1>8 DEF Careful, t

\* A change leaves no value that is too old.
LEMMA AgesItems ==
    ASSUME NEW s, NEW t, NEW a, Ages(s, t, a),
           NEW n, NEW log, NEW skip, ItemsAt(s.items, n, log, skip \cup {a})
    PROVE  ItemsAt(t.items, n, log, skip)
BY DEF Ages, ItemsAt

LEMMA ForgetIs ==
    ASSUME NEW s, Typed(s), NEW a
    PROVE  /\ Typed(Forget(s, a)) /\ Forget(s, a).items = s.items
           /\ Forget(s, a).names = s.names /\ Forget(s, a).requests = s.requests
           /\ Forget(s, a).channel = s.channel /\ Forget(s, a).shown = s.shown
           /\ Forget(s, a).mIsLoggedIn = s.mIsLoggedIn
<1> DEFINE rows == IF a = "fullname" THEN s.rows ELSE Without(s.rows, a)
<1>1. RowsOk(s.rows)
  BY DEF Typed
<1>2. RowsOk(rows)
  BY <1>1 DEF RowsOk, Without
<1>3. Forget(s, a) = [s EXCEPT !.rows = rows]
  BY DEF Forget
<1>. HIDE DEF rows
<1>4. /\ Typed([s EXCEPT !.rows = rows])
      /\ [s EXCEPT !.rows = rows] =
             [mIsLoggedIn |-> s.mIsLoggedIn, items |-> s.items, names |-> s.names,
              rows |-> rows, requests |-> s.requests, channel |-> s.channel,
              shown |-> s.shown]
  BY <1>2, RowsTyped
<1>5. QED
  BY <1>3, <1>4

\* The change of an attribute other than a part, or of a part before the full name is told.
LEMMA ChangedCareful ==
    ASSUME NEW s, Typed(s), AllWait(s.names), NEW a \in Attrs, Careful(s, {}),
           NEW n, NEW log, NEW skip, ItemsAt(s.items, n, log, skip \cup {a}),
           a \notin Parts /\ a # "fullname" => Whole(s, n, log, skip)
    PROVE  /\ Careful(Changed(s, a), {}) /\ (a \notin Parts => Whole(Changed(s, a), n, log, skip))
<1> DEFINE t == Forget(s, a)
           u == Mark(t, a, "update")
           c == Changed(s, a)
<1>1. CASE a \notin DOMAIN s.items
  <2>1. c = s
    BY <1>1 DEF Changed
  <2>2. a = "fullname" => Whole(s, n, log, skip)
    BY <1>1 DEF Whole
  <2>3. QED
    BY <2>1, <2>2
<1>2. CASE a \in DOMAIN s.items
  <2>1. c = IF ~HasCallbacks(s, a) THEN Erase(t, a)
            ELSE IF a # "fullname" /\ s.items[a].pending # "not" THEN t ELSE FetchAttr(u, a)
    BY <1>2, ChangedIs
  <2>2. /\ Typed(t) /\ t.items = s.items /\ t.names = s.names /\ t.requests = s.requests
        /\ t.channel = s.channel /\ t.shown = s.shown /\ t.mIsLoggedIn = s.mIsLoggedIn
    BY ForgetIs
  <2>. HIDE DEF t, c
  <2>3. Careful(t, {}) /\ (Whole(s, n, log, skip) => Whole(t, n, log, skip))
    BY <2>2 DEF Careful, Prompt, Asking, Shows, PartsNew, NamesWait, Whole
  <2>4. HasCallbacks(t, a) <=> HasCallbacks(s, a)
    BY <2>2, Zenon DEF HasCallbacks
  <2>5. CASE ~HasCallbacks(s, a)
    <3>1. c = Erase(t, a)
      BY <2>1, <2>5
    <3>2. /\ Careful(Erase(t, a), {})
          /\ Whole(t, n, log, skip) \/ a = "fullname" => Whole(Erase(t, a), n, log, skip)
      BY <2>2, <2>3, <2>4, <2>5, EraseCareful
    <3>3. QED
      BY <2>3, <3>1, <3>2 DEF c
  <2>6. CASE HasCallbacks(s, a) /\ a # "fullname" /\ s.items[a].pending # "not"
    <3>1. c = t
      BY <2>1, <2>6
    <3>2. QED
      BY <2>3, <2>6, <3>1 DEF c
  <2>7. CASE HasCallbacks(s, a) /\ ~(a # "fullname" /\ s.items[a].pending # "not")
    <3>1. c = FetchAttr(u, a)
      BY <2>1, <2>7
    <3>2. a \notin Parts
      <4>1. SUFFICES ASSUME a \in Parts PROVE FALSE
        OBVIOUS
      <4>2. s.items[a].pending = "not" /\ ~s.items[a].watched /\ ~s.items[a].asked
        BY <1>2, <2>7, <4>1, AttrsDef DEF Careful, PartsNew
      <4>3. \A i \in DOMAIN s.names : ~Waiting(s.names[i], a)
        BY <4>1, <4>2 DEF Careful, NamesWait
      <4>4. QED
        BY <2>7, <4>2, <4>3, Zenon DEF HasCallbacks
    <3>3. /\ Typed(u) /\ Fetches(t, u) /\ DOMAIN u.items = DOMAIN t.items
          /\ u.items[a].pending = "update"
      BY <1>2, <2>2, PendingTyped
    <3>4. /\ Careful(u, {} \cup {a}) /\ u.names = t.names /\ u.shown = t.shown
          /\ \A b \in DOMAIN t.items : b # a => u.items[b] = t.items[b]
      BY <1>2, <2>2, <2>3, <3>2, MarkCareful
    <3>. HIDE DEF u
    <3>5. Careful(u, {a})
      <4>1. {} \cup {a} = {a}
        OBVIOUS
      <4>2. QED
        BY <3>4, <4>1
    <3>6. ItemsAt(u.items, n, log, skip)
      BY <2>2, <3>3, <3>4 DEF ItemsAt
    <3>7. a # "fullname" => Whole(u, n, log, skip)
      BY <2>3, <3>2, <3>3, <3>4 DEF Whole
    <3>8. Careful(FetchAttr(u, a), {}) /\ Whole(FetchAttr(u, a), n, log, skip)
      BY <1>2, <2>2, <3>3, <3>5, <3>6, <3>7, FetchAttrCareful
    <3>9. QED
      BY <3>1, <3>8 DEF c
  <2>8. QED
    BY <2>5, <2>6, <2>7
<1>3. QED
  BY <1>1, <1>2

LEMMA OnUserAttrChangeCareful ==
    ASSUME NEW s, Typed(s), AllWait(s.names), NEW a \in Standard, Careful(s, {}),
           NEW n, NEW log, NEW skip, ItemsAt(s.items, n, log, skip \cup {a}),
           a \notin Parts => Whole(s, n, log, skip)
    PROVE  /\ Careful(OnUserAttrChange(s, a), {})
           /\ Whole(OnUserAttrChange(s, a), n, log, skip)
<1> DEFINE t == Changed(s, a)
<1>1. /\ Typed(t) /\ AllWait(t.names) /\ Ages(s, t, a) /\ Careful(t, {})
      /\ a \notin Parts => Whole(t, n, log, skip)
  BY ChangedTyped, ChangedCareful, AttrsDef
<1>2. OnUserAttrChange(s, a) = IF a \in Parts THEN Changed(t, "fullname") ELSE t
  BY DEF OnUserAttrChange
<1>. HIDE DEF t
<1>3. ItemsAt(t.items, n, log, skip)
  BY <1>1, AgesItems
<1>4. ItemsAt(t.items, n, log, skip \cup {"fullname"})
  BY <1>3 DEF ItemsAt
<1>5. Careful(Changed(t, "fullname"), {}) /\ Whole(Changed(t, "fullname"), n, log, skip)
  BY <1>1, <1>4, ChangedCareful, AttrsDef
<1>6. QED
  BY <1>1, <1>2, <1>5

\* An answer that its item waited for.
LEMMA ResolveCareful ==
    ASSUME NEW s, Typed(s), NEW a \in Standard, a \in DOMAIN s.items, NEW value \in Versions,
           Careful(s, {a}), NEW n, NEW log, NEW skip, Whole(s, n, log, skip),
           value = Failed \/ value >= Count(log, a, n) \/ a \in skip
    PROVE  Careful(Resolve(s, a, value), {}) /\ Whole(Resolve(s, a, value), n, log, skip)
<1> DEFINE u == Settled(s, a, value)
<1>1. Resolve(s, a, value) = CompleteNames(u) /\ Typed(u) /\ Settles(s, u, a, value)
  BY ResolveIs
<1>2. /\ u.mIsLoggedIn = s.mIsLoggedIn /\ u.channel = s.channel /\ u.requests = s.requests
      /\ u.shown = [b \in DOMAIN s.shown |->
                       IF b = a /\ s.items[a].watched THEN value ELSE s.shown[b]]
      /\ u.names = [i \in DOMAIN s.names |->
                       IF Waiting(s.names[i], a) THEN [s.names[i] EXCEPT !.parts[a] = value]
                                                 ELSE s.names[i]]
  BY DEF Settled
<1>. HIDE DEF u
<1>3. /\ DOMAIN u.items = DOMAIN s.items /\ u.items[a].data = value
      /\ u.items[a].pending = "not" /\ u.items[a].asked = FALSE
      /\ u.items[a].watched = s.items[a].watched
      /\ \A b \in DOMAIN s.items : b # a => u.items[b] = s.items[b]
  BY <1>1 DEF Settles
<1>4. \A b \in Watchable : u.shown[b] = IF b = a /\ s.items[a].watched THEN value ELSE s.shown[b]
  BY <1>2 DEF Typed, ShownOk
<1>5. /\ Len(s.names) \in Nat /\ DOMAIN s.names = 1 .. Len(s.names)
      /\ \A i \in DOMAIN s.names : s.names[i] \in Name
  BY NamesSeq
<1>6. DOMAIN u.names = DOMAIN s.names /\ Len(u.names) = Len(s.names)
  BY <1>2, <1>5
<1>7. ASSUME NEW i \in DOMAIN s.names
      PROVE  /\ u.names[i].live = s.names[i].live
             /\ ~Waiting(u.names[i], a)
             /\ \A p \in Parts \ {a} : /\ u.names[i].parts[p] = s.names[i].parts[p]
                                       /\ Waiting(u.names[i], p) <=> Waiting(s.names[i], p)
             /\ a \in Parts => u.names[i].parts[a] \in {value, s.names[i].parts[a]}
  <2>1. value # Unknown
    BY VersionsDef
  <2>2. s.names[i] \in Name
    BY <1>5
  <2>3. CASE Waiting(s.names[i], a)
    <3>1. u.names[i] = [s.names[i] EXCEPT !.parts[a] = value]
      BY <1>2, <2>3
    <3>2. a \in Parts /\ s.names[i].parts[a] = Unknown
      BY <2>3 DEF Waiting
    <3>3. /\ u.names[i].live = s.names[i].live /\ u.names[i].parts[a] = value
          /\ \A p \in Parts \ {a} : u.names[i].parts[p] = s.names[i].parts[p]
      BY <2>2, <3>1, <3>2 DEF Name
    <3>4. QED
      BY <2>1, <3>3 DEF Waiting
  <2>4. CASE ~Waiting(s.names[i], a)
    <3>1. u.names[i] = s.names[i]
      BY <1>2, <2>4
    <3>2. QED
      BY <2>4, <3>1
  <2>5. QED
    BY <2>3, <2>4
<1>8. Prompt(u, {})
  BY <1>2, <1>3 DEF Careful, Prompt, Asking
<1>9. Shows(u)
  BY <1>3, <1>4 DEF Careful, Shows
<1>10. PartsNew(u)
  BY <1>3 DEF Careful, PartsNew
<1>11. NamesWait(u)
  <2>1. SUFFICES ASSUME NEW p \in Parts, NEW i \in DOMAIN s.names, Waiting(u.names[i], p)
                 PROVE  /\ p \in DOMAIN u.items /\ u.items[p].pending = "new"
                        /\ Waiting(Last(u.names), p)
    BY <1>6 DEF NamesWait
  <2>2. p # a /\ Waiting(s.names[i], p)
    BY <1>7, <2>1
  <2>3. /\ p \in DOMAIN s.items /\ s.items[p].pending = "new" /\ Waiting(Last(s.names), p)
    BY <2>2 DEF Careful, NamesWait
  <2>4. Len(s.names) \in DOMAIN s.names
    BY <1>5
  <2>5. Waiting(Last(u.names), p)
    BY <1>6, <1>7, <2>2, <2>3, <2>4 DEF Last
  <2>6. QED
    BY <1>3, <2>2, <2>3, <2>5
<1>12. Whole(u, n, log, skip)
  <2>1. SUFFICES ASSUME "fullname" \in DOMAIN s.items PROVE Whole(u, n, log, skip)
    BY <1>3 DEF Whole
  <2>2. u.items["fullname"] = s.items["fullname"] /\ u.shown["fullname"] = s.shown["fullname"]
    BY <1>3, <1>4, <2>1, AttrsDef
  <2>3. CASE s.items["fullname"].pending = "untilUse"
    BY <1>6, <1>7, <2>1, <2>2, <2>3 DEF Whole
  <2>4. CASE s.items["fullname"].pending # "untilUse" /\ s.names = <<>>
    <3>1. u.names = <<>>
      BY <1>2, <2>4
    <3>2. QED
      BY <2>1, <2>2, <2>4, <3>1 DEF Whole
  <2>5. CASE s.items["fullname"].pending # "untilUse" /\ s.names # <<>>
    <3>1. Last(s.names).live /\ PartsCurrent(Last(s.names).parts, n, log, skip)
      BY <2>1, <2>5 DEF Whole
    <3>2. Len(s.names) \in DOMAIN s.names
      BY <2>5, NamesSeq
    <3>3. PartsCurrent(Last(u.names).parts, n, log, skip)
      <4>1. \A p \in Parts : \/ Last(u.names).parts[p] = Last(s.names).parts[p]
                             \/ p = a /\ Last(u.names).parts[p] = value
        BY <1>6, <1>7, <3>2 DEF Last
      <4>2. QED
        BY <3>1, <4>1 DEF PartsCurrent
    <3>4. Last(u.names).live /\ u.names # <<>>
      BY <1>6, <1>7, <3>1, <3>2 DEF Last
    <3>5. QED
      BY <2>2, <2>5, <3>3, <3>4 DEF Whole
  <2>6. QED
    BY <2>3, <2>4, <2>5
<1>13. Careful(u, {})
  BY <1>8, <1>9, <1>10, <1>11 DEF Careful
<1>14. QED
  BY <1>1, <1>12, <1>13, CompleteNamesCareful, CompleteNamesWhole DEF Careful

\* The login asks for all that is to be fetched.
LEMMA OnLoginCareful ==
    ASSUME NEW s, Typed(s), AllWait(s.names), ~s.mIsLoggedIn, Careful(s, {}),
           NEW n, NEW log, NEW skip, ItemsAt(s.items, n, log, skip), Whole(s, n, log, skip)
    PROVE  Careful(OnLogin(s), {}) /\ Whole(OnLogin(s), n, log, skip)
<1> DEFINE due == {a \in DOMAIN s.items : s.items[a].pending \in {"update", "new"}}
           l   == [s EXCEPT !.mIsLoggedIn = TRUE]
           t   == FetchEach(l, InOrder(due))
<1>1. /\ l.names = s.names /\ l.items = s.items /\ l.rows = s.rows /\ l.requests = s.requests
      /\ l.channel = s.channel /\ l.shown = s.shown /\ l.mIsLoggedIn = TRUE
      /\ l = [mIsLoggedIn |-> l.mIsLoggedIn, items |-> l.items, names |-> l.names,
              rows |-> l.rows, requests |-> l.requests, channel |-> l.channel,
              shown |-> l.shown]
  <2>1. l = [mIsLoggedIn |-> TRUE, items |-> s.items, names |-> s.names, rows |-> s.rows,
             requests |-> s.requests, channel |-> s.channel, shown |-> s.shown]
    BY LoginShape
  <2>. HIDE DEF l
  <2>2. QED
    BY <2>1
<1>2. due \subseteq DOMAIN s.items
  OBVIOUS
<1>. HIDE DEF l
<1>3. Typed(l)
  BY <1>1 DEF Typed
<1>4. OnLogin(s) = IF "fullname" \in due THEN FetchUserFullName(t) ELSE t
  BY DEF OnLogin, l
<1>5. Careful(l, due) /\ Whole(l, n, log, skip)
  BY <1>1 DEF Careful, Prompt, Shows, PartsNew, NamesWait, Whole
<1>6. "fullname" \in due => s.items["fullname"].pending # "untilUse"
  OBVIOUS
<1>. HIDE DEF due
<1>7. Typed(t) /\ OnlyRequests(l, t) /\ Careful(t, {})
  <2>1. /\ InOrder(due) \in Seq(Standard)
        /\ \A i \in DOMAIN InOrder(due) : InOrder(due)[i] \in DOMAIN l.items
    BY <1>1, <1>2, InOrderType
  <2>2. \A a \in due \cap Standard :
           a \in {} \/ \E i \in DOMAIN InOrder(due) : InOrder(due)[i] = a
    BY InOrderAll
  <2>3. QED
    BY <1>3, <1>5, <2>1, <2>2, FetchEachTyped, FetchEachCareful
<1>8. t.names = s.names /\ t.items = s.items /\ t.shown = s.shown
  BY <1>1, <1>3, <1>7, OnlyRequestsLeaves
<1>. HIDE DEF t
<1>9. Whole(t, n, log, skip)
  BY <1>8 DEF Whole
<1>10. "fullname" \in due => /\ Careful(FetchUserFullName(t), {})
                              /\ Whole(FetchUserFullName(t), n, log, skip)
  BY <1>2, <1>6, <1>7, <1>8, FetchUserFullNameCareful
<1>11. QED
  BY <1>4, <1>7, <1>9, <1>10

-----------------------------------------------------------------------------
(* The invariant of the subscribers *)

BudgetOk ==
    /\ budget = [gets |-> budget.gets, faults |-> budget.faults, restarts |-> budget.restarts]
    /\ budget.restarts \in 0 .. MaxRestarts

\* the cache has not been loaded from the rows, nor invalidated as a whole
Pristine == budget.restarts = MaxRestarts

NoReload(channel) == \A i \in DOMAIN channel : channel[i].kind # "reload"

Attentive ==
    /\ ~cache.mIsLoggedIn => sdk.fetched /\ disk.scsn = sdk.seen
    /\ NoReload(cache.channel)
    /\ Careful(cache, {})
    /\ ItemsAt(cache.items, told, sdk.log, overtaken)
    /\ Whole(cache, told, sdk.log, overtaken)

SubInv == BudgetOk /\ (Pristine => Attentive)

\* A step that is no restart and no reload leaves the cache pristine if it was.
LEMMA NoRestart ==
    ASSUME BudgetOk, Free \/ Spend("gets") \/ Spend("faults")
    PROVE  BudgetOk' /\ (Pristine' => Pristine)
<1>1. CASE Free
  BY <1>1 DEF Free, BudgetOk, Pristine
<1>2. ASSUME NEW kind \in {"gets", "faults"}, Spend(kind)
      PROVE  BudgetOk' /\ (Pristine' => Pristine)
  BY <1>2 DEF Spend, BudgetOk, Pristine
<1>3. QED
  BY <1>1, <1>2

LEMMA RestartSpends ==
    ASSUME BudgetOk, Spend("restarts")
    PROVE  BudgetOk' /\ ~Pristine'
<1>1. MaxRestarts \in Nat
  BY CacheAssumption
<1>2. /\ budget.restarts > 0
      /\ budget' = [budget EXCEPT !.restarts = budget.restarts - 1]
  BY DEF Spend
<1>3. /\ budget' = [gets |-> budget'.gets, faults |-> budget'.faults,
                    restarts |-> budget'.restarts]
      /\ budget'.restarts = budget.restarts - 1
  BY <1>2 DEF BudgetOk
<1>4. QED
  BY <1>1, <1>2, <1>3 DEF BudgetOk, Pristine

\* A cache that is the same, but for what it has asked for.
LEMMA CarefulSame ==
    ASSUME NEW s, NEW t, t.items = s.items, t.names = s.names, t.shown = s.shown,
           t.mIsLoggedIn = s.mIsLoggedIn,
           NEW X, NEW Y, \A a \in Standard : Asking(s, a) => a \in Y \/ Asking(t, a),
           X \subseteq Y, Careful(s, X)
    PROVE  Careful(t, Y) /\ \A n, log, skip : Whole(s, n, log, skip) => Whole(t, n, log, skip)
<1>1. Prompt(t, Y)
  BY DEF Careful, Prompt
<1>2. Shows(t) /\ PartsNew(t) /\ NamesWait(t)
  BY DEF Careful, Shows, PartsNew, NamesWait
<1>3. \A n, log, skip : Whole(s, n, log, skip) => Whole(t, n, log, skip)
  BY DEF Whole
<1>4. QED
  BY <1>1, <1>2, <1>3 DEF Careful

\* What may be left out of more may be left out.
LEMMA SkipMore ==
    ASSUME NEW s, NEW n, NEW log, NEW skip, NEW more, skip \subseteq more
    PROVE  /\ Whole(s, n, log, skip) => Whole(s, n, log, more)
           /\ ItemsAt(s.items, n, log, skip) => ItemsAt(s.items, n, log, more)
<1>1. \A parts : PartsCurrent(parts, n, log, skip) => PartsCurrent(parts, n, log, more)
  BY DEF PartsCurrent
<1>2. QED
  BY <1>1 DEF Whole, ItemsAt

LEMMA NoReloadRest ==
    ASSUME NEW channel \in Seq(Message), channel # <<>>, NoReload(channel)
    PROVE  NoReload(Tail(channel)) /\ Head(channel).kind # "reload"
<1> DEFINE rest == Tail(channel)
<1>1. /\ Head(channel) = channel[1] /\ 1 \in DOMAIN channel
      /\ \A i \in DOMAIN rest : rest[i] = channel[i + 1] /\ i + 1 \in DOMAIN channel
  OBVIOUS
<1>. HIDE DEF rest
<1>2. NoReload(rest) /\ Head(channel).kind # "reload"
  BY <1>1 DEF NoReload
<1>3. QED
  BY <1>2 DEF rest

LEMMA NoReloadMore ==
    ASSUME NEW channel \in Seq(Message), NoReload(channel), NEW m \in Message, m.kind # "reload"
    PROVE  NoReload(Append(channel, m))
<1> DEFINE more == Append(channel, m)
<1>1. \A i \in DOMAIN more : more[i] = m \/ (i \in DOMAIN channel /\ more[i] = channel[i])
  OBVIOUS
<1>. HIDE DEF more
<1>2. NoReload(more)
  BY <1>1 DEF NoReload
<1>3. QED
  BY <1>2 DEF more

LEMMA NoReloadSame ==
    ASSUME NEW c, NEW d, SameNews(c, d), NoReload(c)
    PROVE  NoReload(d)
BY DEF SameNews, NoReload

\* What is held goes on being asked for when a message is posted.
LEMMA AsksMore ==
    ASSUME NEW S, NEW seq \in Seq(S), NEW m \in S
    PROVE  /\ \A a : Asks(seq, a) => Asks(Append(seq, m), a)
           /\ m.live => Asks(Append(seq, m), m.attr)
<1> DEFINE more == Append(seq, m)
<1>1. /\ \A i \in DOMAIN seq : i \in DOMAIN more /\ more[i] = seq[i]
      /\ Len(seq) + 1 \in DOMAIN more /\ more[Len(seq) + 1] = m
  OBVIOUS
<1>. HIDE DEF more
<1>2. (\A a : Asks(seq, a) => Asks(more, a)) /\ (m.live => Asks(more, m.attr))
  BY <1>1 DEF Asks
<1>3. QED
  BY <1>2 DEF more

LEMMA AsksRest ==
    ASSUME NEW S, NEW seq \in Seq(S), seq # <<>>, NEW a, Asks(seq, a)
    PROVE  Asks(Tail(seq), a) \/ (Head(seq).live /\ Head(seq).attr = a)
<1> DEFINE rest == Tail(seq)
<1>1. PICK i \in DOMAIN seq : seq[i].live /\ seq[i].attr = a
  BY DEF Asks
<1>2. CASE i = 1
  <2>1. Head(seq) = seq[1]
    OBVIOUS
  <2>2. QED
    BY <1>1, <1>2, <2>1
<1>3. CASE i # 1
  <2>1. i - 1 \in DOMAIN rest /\ rest[i - 1] = seq[i]
    BY <1>3
  <2>. HIDE DEF rest
  <2>2. Asks(rest, a)
    BY <1>1, <2>1 DEF Asks
  <2>3. QED
    BY <2>2 DEF rest
<1>4. QED
  BY <1>2, <1>3

LEMMA InitSub == Init => SubInv
<1>1. SUFFICES ASSUME Init PROVE SubInv
  OBVIOUS
<1>2. BudgetOk
  BY <1>1, CacheAssumption DEF Init, BudgetOk
<1>3. /\ sdk = [log |-> <<>>, seen |-> 0, committed |-> 0, fetched |-> TRUE]
      /\ disk = [rows |-> <<>>, scsn |-> 0]
      /\ cache = Loaded(<<>>)
  BY <1>1 DEF Init
<1>4. /\ DOMAIN cache.items = {} /\ cache.names = <<>> /\ cache.channel = <<>>
      /\ cache.mIsLoggedIn = FALSE
  BY <1>3 DEF Loaded
<1>5. DOMAIN cache.names = {} /\ DOMAIN cache.channel = {}
  BY <1>4
<1>6. Careful(cache, {})
  BY <1>4, <1>5 DEF Careful, Prompt, Shows, PartsNew, NamesWait
<1>7. ItemsAt(cache.items, told, sdk.log, overtaken) /\ Whole(cache, told, sdk.log, overtaken)
  BY <1>4 DEF ItemsAt, Whole
<1>8. NoReload(cache.channel)
  BY <1>5 DEF NoReload
<1>9. sdk.fetched /\ disk.scsn = sdk.seen
  BY <1>3
<1>10. QED
  BY <1>2, <1>6, <1>7, <1>8, <1>9 DEF SubInv, Attentive

\* An action that only asks for attributes.
LEMMA FetchesSub ==
    ASSUME CacheInv, Attentive, Fetches(cache, cache'), Careful(cache', {}),
           Whole(cache', told, sdk.log, overtaken), UNCHANGED <<sdk, disk, told, overtaken>>
    PROVE  Attentive'
<1>1. ItemsAt(cache'.items, told, sdk.log, overtaken)
  BY FetchesItems DEF Attentive
<1>2. cache'.channel = cache.channel /\ cache'.mIsLoggedIn = cache.mIsLoggedIn
  BY DEF Fetches
<1>3. QED
  BY <1>1, <1>2 DEF Attentive

LEMMA WatchSub ==
    ASSUME CacheInv, SubInv, NEW a \in Watchable, NEW fetch \in BOOLEAN, Watch(a, fetch)
    PROVE  SubInv'
<1>1. Typed(cache) /\ AllWait(cache.names) /\ a \in Attrs
  BY AttrsDef DEF CacheInv, Types
<1>2. /\ cache' = GetAttr(cache, a, "watch", fetch) /\ UNCHANGED <<sdk, disk, told, overtaken>>
      /\ Spend("gets")
  BY DEF Watch
<1>3. BudgetOk' /\ (Pristine' => Pristine)
  BY <1>2, NoRestart DEF SubInv
<1>4. ASSUME Attentive PROVE Attentive'
  <2>1. Fetches(cache, cache')
    BY <1>1, <1>2, GetAttrTyped
  <2>2. Careful(cache', {}) /\ Whole(cache', told, sdk.log, overtaken)
    BY <1>1, <1>2, <1>4, GetAttrCareful DEF Attentive
  <2>3. QED
    BY <1>2, <1>4, <2>1, <2>2, FetchesSub
<1>5. QED
  BY <1>3, <1>4 DEF SubInv

LEMMA GetSub ==
    ASSUME CacheInv, SubInv, NEW a \in Attrs, NEW cb \in {"ask", "none"}, Get(a, cb)
    PROVE  SubInv'
<1>1. Typed(cache) /\ AllWait(cache.names)
  BY DEF CacheInv, Types
<1>2. /\ cache' = GetAttr(cache, a, cb, TRUE) /\ UNCHANGED <<sdk, disk, told, overtaken>>
      /\ Spend("gets")
  BY DEF Get
<1>3. BudgetOk' /\ (Pristine' => Pristine)
  BY <1>2, NoRestart DEF SubInv
<1>4. ASSUME Attentive PROVE Attentive'
  <2>1. Fetches(cache, cache')
    BY <1>1, <1>2, GetAttrTyped
  <2>2. Careful(cache', {}) /\ Whole(cache', told, sdk.log, overtaken)
    BY <1>1, <1>2, <1>4, GetAttrCareful DEF Attentive
  <2>3. QED
    BY <1>2, <1>4, <2>1, <2>2, FetchesSub
<1>5. QED
  BY <1>3, <1>4 DEF SubInv

LEMMA UnwatchSub ==
    ASSUME CacheInv, SubInv, NEW a \in Watchable, Unwatch(a)
    PROVE  SubInv'
<1>1. Typed(cache) /\ AllWait(cache.names)
  BY DEF CacheInv, Types
<1>2. /\ a \in DOMAIN cache.items /\ cache' = RemoveCb(cache, a)
      /\ UNCHANGED <<sdk, disk, told, overtaken>> /\ Free
  BY DEF Unwatch
<1>3. BudgetOk' /\ (Pristine' => Pristine)
  BY <1>2, NoRestart DEF SubInv
<1>4. ASSUME Attentive PROVE Attentive'
  <2>1. Fetches(cache, cache')
    BY <1>1, <1>2, RemoveCbTyped
  <2>2. /\ Careful(cache', {}) /\ cache'.names = cache.names
        /\ DOMAIN cache'.items = DOMAIN cache.items /\ ~cache'.items[a].watched
        /\ \A b \in Watchable : b # a => cache'.shown[b] = cache.shown[b]
        /\ \A b \in DOMAIN cache.items :
              /\ b # a => cache'.items[b] = cache.items[b]
              /\ cache'.items[b].pending = cache.items[b].pending
              /\ cache'.items[b].data = cache.items[b].data
    BY <1>1, <1>2, <1>4, RemoveCbCareful DEF Attentive
  <2>3. "fullname" \in Watchable
    BY AttrsDef
  <2>4. Whole(cache', told, sdk.log, overtaken)
    BY <1>4, <2>2, <2>3 DEF Attentive, Whole
  <2>5. QED
    BY <1>2, <1>4, <2>1, <2>2, <2>4, FetchesSub
<1>5. QED
  BY <1>3, <1>4 DEF SubInv

LEMMA ChangeSub ==
    ASSUME CacheInv, SubInv, NEW a \in Standard, Change(a)
    PROVE  SubInv'
<1> DEFINE log == sdk.log
<1>1. /\ sdk' = [sdk EXCEPT !.log = Append(log, a)]
      /\ UNCHANGED <<cache, disk, told, overtaken>> /\ Free
  BY DEF Change
<1>2. BudgetOk' /\ (Pristine' => Pristine)
  BY <1>1, NoRestart DEF SubInv
<1>3. log \in Seq(Standard) /\ told \in 0 .. Len(log)
  BY InvRanges DEF CacheInv, Types, SdkOk
<1>4. sdk'.log = Append(log, a) /\ sdk'.seen = sdk.seen /\ sdk'.fetched = sdk.fetched
  BY <1>1 DEF CacheInv, Types, SdkOk
<1>. HIDE DEF log
<1>5. \A b : Count(sdk'.log, b, told) = Count(log, b, told)
  BY <1>3, <1>4, CountKept
<1>6. ASSUME Attentive PROVE Attentive'
  <2>1. ItemsAt(cache.items, told, sdk'.log, overtaken)
    BY <1>5, <1>6 DEF Attentive, ItemsAt, log
  <2>2. \A parts : PartsCurrent(parts, told, log, overtaken)
                      => PartsCurrent(parts, told, sdk'.log, overtaken)
    BY <1>5 DEF PartsCurrent
  <2>3. Whole(cache, told, sdk'.log, overtaken)
    BY <1>6, <2>2 DEF Attentive, Whole, log
  <2>4. QED
    BY <1>1, <1>4, <1>6, <2>1, <2>3 DEF Attentive
<1>7. QED
  BY <1>2, <1>6 DEF SubInv

\* A message is posted: what was asked for is asked for still.
Posts(s, t, attr, live) ==
    /\ t.items = s.items /\ t.names = s.names /\ t.shown = s.shown
    /\ t.mIsLoggedIn = s.mIsLoggedIn /\ NoReload(t.channel)
    /\ \A a : Asking(s, a) \/ (live /\ attr = a) => Asking(t, a)

LEMMA PostAsks ==
    ASSUME NEW s, Typed(s), s.mIsLoggedIn, NEW kind, NEW attr, NEW live, NEW value,
           News(kind, attr, live, value) \in Message, live => attr \in DOMAIN s.items,
           kind # "reload", NoReload(s.channel)
    PROVE  Posts(s, Post(s, kind, attr, live, value), attr, live)
<1> DEFINE m == News(kind, attr, live, value)
           t == Post(s, kind, attr, live, value)
<1>1. t = [s EXCEPT !.channel = Append(s.channel, m)]
  BY PostTyped DEF News
<1>2. m \in Message /\ m.kind = kind /\ m.attr = attr /\ m.live = live
  BY DEF News
<1>. HIDE DEF m, t
<1>3. /\ t.items = s.items /\ t.names = s.names /\ t.shown = s.shown
      /\ t.mIsLoggedIn = s.mIsLoggedIn /\ t.requests = s.requests
      /\ t.channel = Append(s.channel, m)
  BY <1>1 DEF Typed
<1>4. s.channel \in Seq(Message)
  BY DEF Typed
<1>5. NoReload(t.channel)
  BY <1>2, <1>3, <1>4, NoReloadMore
<1>6. /\ \A a : Asks(s.channel, a) => Asks(t.channel, a)
      /\ live => Asks(t.channel, attr)
  BY <1>2, <1>3, <1>4, AsksMore
<1>7. \A a : Asking(s, a) \/ (live /\ attr = a) => Asking(t, a)
  BY <1>3, <1>6 DEF Asking
<1>8. QED
  BY <1>3, <1>5, <1>7 DEF Posts, t

LEMMA ServerReadsSub ==
    ASSUME CacheInv, SubInv, ServerReads
    PROVE  SubInv'
<1>1. UNCHANGED <<sdk, disk, told, overtaken, budget>>
  BY ServerReadsIs
<1>2. PICK i \in DOMAIN cache.requests, v \in Nat : cache' = Read(cache, i, v)
  BY ServerReadsIs
<1>3. Typed(cache)
  BY DEF CacheInv, Types
<1>4. /\ OnlyRequests(cache, cache') /\ DOMAIN cache'.requests = DOMAIN cache.requests
      /\ \A j \in DOMAIN cache.requests :
            /\ cache'.requests[j].attr = cache.requests[j].attr
            /\ cache'.requests[j].live = cache.requests[j].live
  BY <1>2, <1>3, ReadTyped
<1>5. /\ cache'.items = cache.items /\ cache'.names = cache.names /\ cache'.shown = cache.shown
      /\ cache'.channel = cache.channel /\ cache'.mIsLoggedIn = cache.mIsLoggedIn
  BY <1>3, <1>4, OnlyRequestsLeaves
<1>6. \A a : Asking(cache, a) => Asking(cache', a)
  BY <1>4, <1>5 DEF Asking, Asks
<1>7. ASSUME Attentive PROVE Attentive'
  <2>1. /\ Careful(cache', {})
        /\ \A n, log, skip : Whole(cache, n, log, skip) => Whole(cache', n, log, skip)
    BY <1>5, <1>6, <1>7, CarefulSame DEF Attentive
  <2>2. QED
    BY <1>1, <1>5, <1>7, <2>1 DEF Attentive
<1>8. QED
  BY <1>1, <1>7 DEF SubInv, BudgetOk, Pristine

LEMMA SdkAnswersSub ==
    ASSUME CacheInv, SubInv, SdkAnswers
    PROVE  SubInv'
<1> DEFINE r == Head(cache.requests)
           s == TakeRequest(cache)
<1>1. Typed(cache)
  BY DEF CacheInv, Types
<1>2. /\ Typed(s) /\ OnlyRequests(cache, s) /\ r \in Request /\ cache.mIsLoggedIn
      /\ r.live => r.attr \in DOMAIN cache.items
  BY <1>1, TakeRequestTyped DEF SdkAnswers
<1>3. /\ s.names = cache.names /\ s.items = cache.items /\ s.shown = cache.shown
      /\ s.channel = cache.channel /\ s.mIsLoggedIn = cache.mIsLoggedIn
  BY <1>1, <1>2, OnlyRequestsLeaves
<1>4. /\ \/ /\ Executed(r) /\ Free
            /\ cache' = Post(s, "answer", r.attr, r.live, r.value)
         \/ Spend("faults") /\ cache' = Post(s, "answer", r.attr, r.live, Failed)
      /\ UNCHANGED <<sdk, disk, told, overtaken>> /\ cache.requests # <<>>
  BY DEF SdkAnswers, TakeRequest
<1>5. s.requests = Tail(cache.requests)
  BY <1>1 DEF TakeRequest, Typed
<1>. HIDE DEF s
<1>6. r.live \in BOOLEAN /\ r.attr \in Standard /\ (Executed(r) => r.value \in Versions)
  BY <1>2, VersionsDef DEF Request, Executed
<1>7. PICK value \in Versions : cache' = Post(s, "answer", r.attr, r.live, value)
  <2>. HIDE DEF r
  <2>1. QED
    BY <1>4, <1>6, VersionsDef
<1>8. BudgetOk' /\ (Pristine' => Pristine)
  BY <1>4, NoRestart DEF SubInv
<1>9. \A a : Asking(cache, a) => Asking(s, a) \/ (r.live /\ r.attr = a)
  <2>1. cache.requests \in Seq(Request)
    BY <1>1 DEF Typed
  <2>. HIDE DEF r
  <2>2. \A a : Asks(cache.requests, a) => Asks(s.requests, a) \/ (r.live /\ r.attr = a)
    BY <1>4, <1>5, <2>1, AsksRest DEF r
  <2>3. QED
    BY <1>3, <2>2 DEF Asking
<1>10. ASSUME Attentive PROVE Attentive'
  <2>1. News("answer", r.attr, r.live, value) \in Message
    <3>. HIDE DEF r
    <3>1. QED
      BY <1>6 DEF Message, News
  <2>. HIDE DEF r
  <2>2. NoReload(s.channel) /\ s.mIsLoggedIn
    BY <1>2, <1>3, <1>10 DEF Attentive
  <2>3. r.live => r.attr \in DOMAIN s.items
    BY <1>2, <1>3
  <2>4. /\ cache'.items = s.items /\ cache'.names = s.names /\ cache'.shown = s.shown
        /\ cache'.mIsLoggedIn = s.mIsLoggedIn /\ NoReload(cache'.channel)
        /\ \A a : Asking(s, a) \/ (r.live /\ r.attr = a) => Asking(cache', a)
    <3>1. Posts(s, Post(s, "answer", r.attr, r.live, value), r.attr, r.live)
      BY <1>2, <2>1, <2>2, <2>3, PostAsks
    <3>2. QED
      BY <1>7, <3>1 DEF Posts
  <2>5. \A a : Asking(cache, a) => Asking(cache', a)
    BY <1>9, <2>4
  <2>6. /\ Careful(cache', {})
        /\ \A n, log, skip : Whole(cache, n, log, skip) => Whole(cache', n, log, skip)
    BY <1>3, <1>10, <2>4, <2>5, CarefulSame DEF Attentive
  <2>7. QED
    BY <1>2, <1>3, <1>4, <1>10, <2>4, <2>6 DEF Attentive
<1>11. QED
  BY <1>8, <1>10 DEF SubInv

\* A notification is posted.
LEMMA PostAttentive ==
    ASSUME CacheInv, Attentive, cache.mIsLoggedIn, NEW kind, NEW attr, NEW value,
           News(kind, attr, FALSE, value) \in Message, kind # "reload",
           cache' = Post(cache, kind, attr, FALSE, value),
           UNCHANGED <<told, overtaken>>, sdk'.log = sdk.log
    PROVE  Attentive'
<1>1. Typed(cache) /\ NoReload(cache.channel) /\ Careful(cache, {})
      /\ Whole(cache, told, sdk.log, overtaken) /\ ItemsAt(cache.items, told, sdk.log, overtaken)
  BY DEF CacheInv, Types, Attentive
<1>2. /\ cache'.items = cache.items /\ cache'.names = cache.names /\ cache'.shown = cache.shown
      /\ cache'.mIsLoggedIn = cache.mIsLoggedIn /\ NoReload(cache'.channel)
      /\ \A a : Asking(cache, a) => Asking(cache', a)
  <2>1. Posts(cache, Post(cache, kind, attr, FALSE, value), attr, FALSE)
    BY <1>1, PostAsks
  <2>2. QED
    BY <2>1 DEF Posts
<1>3. /\ Careful(cache', {})
      /\ \A n, log, skip : Whole(cache, n, log, skip) => Whole(cache', n, log, skip)
  BY <1>1, <1>2, CarefulSame
<1>4. QED
  BY <1>1, <1>2, <1>3 DEF Attentive

LEMMA SdkNotifiesSub ==
    ASSUME CacheInv, SubInv, SdkNotifies
    PROVE  SubInv'
<1> DEFINE a == sdk.log[sdk.seen + 1]
<1>1. /\ cache.mIsLoggedIn /\ sdk.seen < Len(sdk.log) /\ sdk' = [sdk EXCEPT !.seen = @ + 1]
      /\ cache' = Post(cache, "change", a, FALSE, 0)
      /\ UNCHANGED <<told, overtaken>> /\ Free
  BY DEF SdkNotifies
<1>2. SdkOk
  BY DEF CacheInv, Types
<1>3. a \in Standard
  BY <1>1, <1>2 DEF SdkOk
<1>4. News("change", a, FALSE, 0) \in Message
  BY <1>3 DEF Message, News
<1>5. sdk'.log = sdk.log
  BY <1>1, <1>2 DEF SdkOk
<1>6. BudgetOk' /\ (Pristine' => Pristine)
  BY <1>1, NoRestart DEF SubInv
<1>. HIDE DEF a
<1>7. Attentive => Attentive'
  BY <1>1, <1>4, <1>5, PostAttentive
<1>8. QED
  BY <1>6, <1>7 DEF SubInv

LEMMA SdkCommitsSub ==
    ASSUME CacheInv, SubInv, SdkCommits
    PROVE  SubInv'
<1>1. /\ cache.mIsLoggedIn /\ sdk' = [sdk EXCEPT !.committed = sdk.seen]
      /\ cache' = Post(cache, "commit", "none", FALSE, sdk.seen)
      /\ UNCHANGED <<told, overtaken>> /\ Free
  BY DEF SdkCommits
<1>2. SdkOk
  BY DEF CacheInv, Types
<1>3. sdk.seen \in Nat
  BY <1>2 DEF SdkOk
<1>4. News("commit", "none", FALSE, sdk.seen) \in Message
  BY <1>3 DEF Message, News
<1>5. sdk'.log = sdk.log
  BY <1>1, <1>2 DEF SdkOk
<1>6. BudgetOk' /\ (Pristine' => Pristine)
  BY <1>1, NoRestart DEF SubInv
<1>7. Attentive => Attentive'
  BY <1>1, <1>4, <1>5, PostAttentive
<1>8. QED
  BY <1>6, <1>7 DEF SubInv

\* A message is taken: what was asked for is asked for still, unless it is answered.
LEMMA TakeMessageAsks ==
    ASSUME CacheInv, Attentive, cache.channel # <<>>,
           NEW s, s = TakeMessage(cache), NEW m, m = Head(cache.channel)
    PROVE  /\ Typed(s) /\ s.items = cache.items /\ s.names = cache.names
           /\ s.shown = cache.shown /\ s.mIsLoggedIn = cache.mIsLoggedIn /\ NoReload(s.channel)
           /\ m.kind # "reload"
           /\ Careful(s, IF m.live THEN {m.attr} ELSE {})
           /\ Whole(s, told, sdk.log, overtaken) /\ ItemsAt(s.items, told, sdk.log, overtaken)
<1>1. Typed(cache) /\ NoReload(cache.channel) /\ Careful(cache, {})
      /\ Whole(cache, told, sdk.log, overtaken) /\ ItemsAt(cache.items, told, sdk.log, overtaken)
  BY DEF CacheInv, Types, Attentive
<1>2. /\ Typed(s)
      /\ s = [mIsLoggedIn |-> cache.mIsLoggedIn, items |-> cache.items, names |-> cache.names,
              rows |-> cache.rows, requests |-> cache.requests, channel |-> Tail(cache.channel),
              shown |-> cache.shown]
  BY <1>1, TakeMessageTyped
<1>3. /\ s.items = cache.items /\ s.names = cache.names /\ s.shown = cache.shown
      /\ s.mIsLoggedIn = cache.mIsLoggedIn /\ s.requests = cache.requests
      /\ s.channel = Tail(cache.channel)
  BY <1>2
<1>4. cache.channel \in Seq(Message)
  BY <1>1 DEF Typed
<1>5. NoReload(s.channel) /\ m.kind # "reload"
  BY <1>1, <1>3, <1>4, NoReloadRest
<1>6. \A a : Asks(cache.channel, a) => Asks(s.channel, a) \/ (m.live /\ m.attr = a)
  BY <1>3, <1>4, AsksRest
<1> DEFINE Y == IF m.live THEN {m.attr} ELSE {}
<1>7. \A a \in Standard : Asking(cache, a) => a \in Y \/ Asking(s, a)
  BY <1>3, <1>6 DEF Asking
<1>. HIDE DEF Y
<1>8. /\ Careful(s, Y)
      /\ \A n, log, skip : Whole(cache, n, log, skip) => Whole(s, n, log, skip)
  BY <1>1, <1>3, <1>7, CarefulSame
<1>9. QED
  BY <1>1, <1>2, <1>3, <1>5, <1>8 DEF Y

LEMMA ReceiveAnswerSub ==
    ASSUME CacheInv, SubInv, ReceiveAnswer
    PROVE  SubInv'
<1>1. PICK m : m = Head(cache.channel)
  OBVIOUS
<1>2. PICK s : s = TakeMessage(cache)
  OBVIOUS
<1>3. /\ cache.channel # <<>> /\ m.kind = "answer"
      /\ cache' = IF m.live THEN Resolve(s, m.attr, m.value) ELSE DbWrite(s, m.attr, m.value)
      /\ overtaken' = IF Current(m.value, m.attr)
                      THEN overtaken ELSE overtaken \cup {m.attr}
      /\ UNCHANGED <<sdk, disk, told>> /\ Free
  BY <1>1, <1>2 DEF ReceiveAnswer, TakeMessage
<1>4. BudgetOk' /\ (Pristine' => Pristine)
  BY <1>3, NoRestart DEF SubInv
<1>5. m \in Message
  BY <1>1, <1>3, Received
<1>6. /\ overtaken \subseteq overtaken'
      /\ \/ m.value = Failed \/ m.value >= Count(sdk.log, m.attr, told)
         \/ m.attr \in overtaken'
  BY <1>3, VersionIsCount DEF Current
<1>7. m.attr \in Standard /\ m.value \in Versions
  BY <1>3, <1>5 DEF Message
<1>8. cache.mIsLoggedIn
  BY <1>1, <1>3, Received
<1>9. ASSUME Attentive PROVE Attentive'
  <2>1. /\ Typed(s) /\ s.items = cache.items /\ s.names = cache.names
        /\ s.shown = cache.shown /\ s.mIsLoggedIn = cache.mIsLoggedIn /\ NoReload(s.channel)
        /\ Careful(s, IF m.live THEN {m.attr} ELSE {})
        /\ Whole(s, told, sdk.log, overtaken') /\ ItemsAt(s.items, told, sdk.log, overtaken')
    BY <1>1, <1>2, <1>3, <1>6, <1>9, TakeMessageAsks, SkipMore
  <2>2. CASE m.live
    <3>1. m.attr \in DOMAIN s.items /\ cache' = Resolve(s, m.attr, m.value)
      <4>1. m.attr \in DOMAIN cache.items
        BY <1>1, <1>3, <2>2, Received
      <4>2. QED
        BY <1>3, <2>1, <2>2, <4>1
    <3>2. Careful(cache', {}) /\ Whole(cache', told, sdk.log, overtaken')
      BY <1>6, <1>7, <2>1, <2>2, <3>1, ResolveCareful
    <3>3. Answers(s, cache', m.attr, m.value)
      BY <1>7, <2>1, <3>1, ResolveTyped
    <3>4. cache'.channel = s.channel /\ cache'.mIsLoggedIn = s.mIsLoggedIn
      BY <3>3 DEF Answers
    <3>5. ItemsAt(cache'.items, told, sdk.log, overtaken')
      BY <1>6, <2>1, <3>3 DEF ItemsAt, Answers
    <3>6. QED
      BY <1>3, <1>8, <2>1, <3>2, <3>4, <3>5 DEF Attentive
  <2>3. CASE ~m.live
    <3>1. cache' = [mIsLoggedIn |-> s.mIsLoggedIn, items |-> s.items, names |-> s.names,
                    rows |-> cache'.rows, requests |-> s.requests, channel |-> s.channel,
                    shown |-> s.shown]
      BY <1>3, <1>7, <2>1, <2>3, DbWriteTyped
    <3>2. /\ cache'.items = s.items /\ cache'.names = s.names /\ cache'.shown = s.shown
          /\ cache'.mIsLoggedIn = s.mIsLoggedIn /\ cache'.requests = s.requests
          /\ cache'.channel = s.channel
      BY <3>1
    <3>3. \A a \in Standard : Asking(s, a) => Asking(cache', a)
      BY <3>2 DEF Asking
    <3>4. Careful(s, {})
      BY <2>1, <2>3
    <3>5. /\ Careful(cache', {})
          /\ \A n, log, skip : Whole(s, n, log, skip) => Whole(cache', n, log, skip)
      BY <3>2, <3>3, <3>4, CarefulSame
    <3>6. QED
      BY <1>3, <1>8, <2>1, <3>2, <3>5 DEF Attentive
  <2>4. QED
    BY <2>2, <2>3
<1>10. QED
  BY <1>4, <1>9 DEF SubInv

LEMMA ReceiveChangeSub ==
    ASSUME CacheInv, SubInv, ReceiveChange
    PROVE  SubInv'
<1>1. PICK m : m = Head(cache.channel)
  OBVIOUS
<1>2. PICK s : s = TakeMessage(cache)
  OBVIOUS
<1>3. PICK a : a = m.attr
  OBVIOUS
<1>4. /\ cache.channel # <<>> /\ m.kind = "change" /\ cache' = OnUserAttrChange(s, a)
      /\ told' = told + 1 /\ UNCHANGED <<sdk, disk, overtaken>> /\ Free
  BY <1>1, <1>2, <1>3 DEF ReceiveChange, TakeMessage
<1>5. BudgetOk' /\ (Pristine' => Pristine)
  BY <1>4, NoRestart DEF SubInv
<1>6. m \in Message /\ cache.mIsLoggedIn
  BY <1>1, <1>4, Received
<1>7. sdk.log[told + 1] = a
  <2>1. PICK j \in 0 .. Len(sdk.log) : Step(m, told, j, sdk.log)
    BY <1>1, <1>4, Received
  <2>2. QED
    BY <1>3, <1>4, <2>1 DEF Step
<1>8. a \in Standard /\ ~m.live
  BY <1>3, <1>4, <1>6 DEF Message
<1>9. told \in Nat /\ AllWait(cache.names)
  BY InvRanges DEF CacheInv, Types
<1>10. \A b : b # a => Count(sdk.log, b, told + 1) = Count(sdk.log, b, told)
  BY <1>7, <1>9, CountOther
<1>11. ASSUME Attentive PROVE Attentive'
  <2>1. /\ Typed(s) /\ s.names = cache.names /\ NoReload(s.channel)
        /\ s.mIsLoggedIn = cache.mIsLoggedIn /\ Careful(s, {})
        /\ Whole(s, told, sdk.log, overtaken) /\ ItemsAt(s.items, told, sdk.log, overtaken)
    BY <1>1, <1>2, <1>4, <1>8, <1>11, TakeMessageAsks
  <2>2. ItemsAt(s.items, told + 1, sdk.log, overtaken \cup {a})
    BY <1>10, <2>1 DEF ItemsAt
  <2>3. ASSUME a \notin Parts PROVE Whole(s, told + 1, sdk.log, overtaken)
    <3>1. \A parts : PartsCurrent(parts, told, sdk.log, overtaken)
                        => PartsCurrent(parts, told + 1, sdk.log, overtaken)
      BY <1>10, <2>3 DEF PartsCurrent
    <3>2. QED
      BY <2>1, <3>1 DEF Whole
  <2>4. Careful(cache', {}) /\ Whole(cache', told + 1, sdk.log, overtaken)
    BY <1>4, <1>8, <1>9, <2>1, <2>2, <2>3, OnUserAttrChangeCareful
  <2>5. Ages(s, cache', a)
    BY <1>4, <1>8, <1>9, <2>1, OnUserAttrChangeTyped
  <2>6. ItemsAt(cache'.items, told + 1, sdk.log, overtaken)
    BY <2>2, <2>5, AgesItems
  <2>7. NoReload(cache'.channel) /\ cache'.mIsLoggedIn = s.mIsLoggedIn
    BY <2>1, <2>5, NoReloadSame DEF Ages
  <2>8. QED
    BY <1>4, <1>6, <2>1, <2>4, <2>6, <2>7 DEF Attentive
<1>12. QED
  BY <1>5, <1>11 DEF SubInv

LEMMA ReceiveCommitSub ==
    ASSUME CacheInv, SubInv, ReceiveCommit
    PROVE  SubInv'
<1>1. PICK m : m = Head(cache.channel)
  OBVIOUS
<1>2. PICK s : s = TakeMessage(cache)
  OBVIOUS
<1>3. /\ cache.channel # <<>> /\ m.kind \in {"commit", "reload"}
      /\ cache' = IF m.kind = "reload" THEN Invalidate(s) ELSE s
      /\ told' = IF m.kind = "reload" THEN m.value ELSE told
      /\ UNCHANGED <<sdk, overtaken>> /\ Free
  BY <1>1, <1>2 DEF ReceiveCommit, TakeMessage
<1>4. BudgetOk' /\ (Pristine' => Pristine)
  BY <1>3, NoRestart DEF SubInv
<1>5. m \in Message /\ cache.mIsLoggedIn
  BY <1>1, <1>3, Received
<1>6. ~m.live
  BY <1>3, <1>5 DEF Message
<1>7. ASSUME Attentive PROVE Attentive'
  <2>1. /\ s.mIsLoggedIn = cache.mIsLoggedIn /\ NoReload(s.channel)
        /\ m.kind # "reload" /\ Careful(s, {})
        /\ Whole(s, told, sdk.log, overtaken) /\ ItemsAt(s.items, told, sdk.log, overtaken)
    BY <1>1, <1>2, <1>3, <1>6, <1>7, TakeMessageAsks
  <2>2. cache' = s /\ told' = told
    BY <1>3, <2>1
  <2>3. QED
    BY <1>3, <1>5, <2>1, <2>2 DEF Attentive
<1>8. QED
  BY <1>4, <1>7 DEF SubInv

LEMMA ConnectSub ==
    ASSUME CacheInv, SubInv, Connect
    PROVE  SubInv'
<1>1. ~cache.mIsLoggedIn /\ Free /\ UNCHANGED overtaken
  BY DEF Connect
<1>2. BudgetOk' /\ (Pristine' => Pristine)
  BY <1>1, NoRestart DEF SubInv
<1>3. Typed(cache) /\ AllWait(cache.names) /\ SdkOk
  BY DEF CacheInv, Types
<1>4. cache.channel = <<>>
  BY <1>1, <1>3 DEF Typed
<1>5. told = sdk.seen
  BY <1>4, InvRanges
<1>6. ASSUME Attentive PROVE Attentive'
  <2>1. sdk.fetched /\ ~OutOfSync(sdk.seen)
    BY <1>1, <1>6 DEF Attentive, OutOfSync
  <2>2. /\ sdk' = [sdk EXCEPT !.seen = sdk.seen, !.committed = sdk.seen, !.fetched = TRUE]
        /\ told' = sdk.seen /\ cache' = OnLogin(cache)
    BY <2>1 DEF Connect
  <2>3. sdk'.log = sdk.log /\ told' = told
    BY <1>3, <1>5, <2>2 DEF SdkOk
  <2>4. Careful(cache', {}) /\ Whole(cache', told, sdk.log, overtaken)
    BY <1>1, <1>3, <1>6, <2>2, OnLoginCareful DEF Attentive
  <2> DEFINE l == [cache EXCEPT !.mIsLoggedIn = TRUE]
  <2>5. Fetches(l, cache')
    BY <1>3, <2>2, OnLoginTyped
  <2>6. l.items = cache.items /\ l.channel = cache.channel /\ l.mIsLoggedIn = TRUE
    <3>1. l = [mIsLoggedIn |-> TRUE, items |-> cache.items, names |-> cache.names,
               rows |-> cache.rows, requests |-> cache.requests, channel |-> cache.channel,
               shown |-> cache.shown]
      BY <1>3, LoginShape
    <3>2. QED
      BY <3>1
  <2>. HIDE DEF l
  <2>7. ItemsAt(cache'.items, told, sdk.log, overtaken)
    BY <1>6, <2>5, <2>6, FetchesItems DEF Attentive
  <2>8. cache'.channel = <<>> /\ cache'.mIsLoggedIn
    BY <1>4, <2>5, <2>6 DEF Fetches
  <2>9. NoReload(cache'.channel)
    BY <1>4, <1>6, <2>8 DEF Attentive
  <2>10. QED
    BY <1>1, <2>3, <2>4, <2>7, <2>8, <2>9 DEF Attentive
<1>7. QED
  BY <1>2, <1>6 DEF SubInv

LEMMA SubInductive == CacheInv /\ SubInv /\ [Next]_vars => SubInv'
<1>1. SUFFICES ASSUME CacheInv, SubInv, [Next]_vars PROVE SubInv'
  OBVIOUS
<1>2. CASE UNCHANGED vars
  <2>1. UNCHANGED <<cache, sdk, disk, told, overtaken, budget>>
    BY <1>2 DEF vars
  <2>2. QED
    BY <1>1, <2>1 DEF SubInv, BudgetOk, Pristine, Attentive
<1>3. CASE \E a \in Watchable, fetch \in BOOLEAN : Watch(a, fetch)
  BY <1>1, <1>3, WatchSub
<1>4. CASE \E a \in Watchable : Unwatch(a)
  BY <1>1, <1>4, UnwatchSub
<1>5. CASE \E a \in Attrs : Get(a, "ask")
  BY <1>1, <1>5, GetSub
<1>6. CASE \E a \in Standard \ Parts : Get(a, "none")
  BY <1>1, <1>6, GetSub, AttrsDef
<1>7. CASE \E a \in Standard : Change(a)
  BY <1>1, <1>7, ChangeSub
<1>8. CASE SdkAnswers
  BY <1>1, <1>8, SdkAnswersSub
<1>9. CASE SdkNotifies
  BY <1>1, <1>9, SdkNotifiesSub
<1>10. CASE SdkCommits
  BY <1>1, <1>10, SdkCommitsSub
<1>11. CASE SdkReloads
  BY <1>1, <1>11, RestartSpends DEF SubInv, SdkReloads
<1>12. CASE ReceiveAnswer
  BY <1>1, <1>12, ReceiveAnswerSub
<1>13. CASE ReceiveChange
  BY <1>1, <1>13, ReceiveChangeSub
<1>14. CASE ReceiveCommit
  BY <1>1, <1>14, ReceiveCommitSub
<1>15. CASE Restart
  BY <1>1, <1>15, RestartSpends DEF SubInv, Restart
<1>16. CASE Connect
  BY <1>1, <1>16, ConnectSub
<1>17. CASE ServerReads
  BY <1>1, <1>17, ServerReadsSub
<1>18. QED
  BY <1>1, <1>2, <1>3, <1>4, <1>5, <1>6, <1>7, <1>8, <1>9, <1>10, <1>11, <1>12, <1>13, <1>14,
     <1>15, <1>16, <1>17 DEF Next, Receive

LEMMA SubscribersGiven == CacheInv /\ SubInv => SubscribersUpToDate
<1>1. SUFFICES ASSUME CacheInv, SubInv, cache.mIsLoggedIn, cache.requests = <<>>,
                      cache.channel = <<>>, budget.restarts = MaxRestarts,
                      NEW a \in Watchable \cap DOMAIN cache.items, cache.items[a].watched,
                      cache.items[a].pending # "untilUse"
               PROVE  IF a # "fullname" THEN a \in overtaken \/ Current(cache.shown[a], a)
                      ELSE \A p \in Parts \ overtaken : Current(cache.shown[a][p], p)
  BY DEF SubscribersUpToDate
<1>2. /\ Typed(cache) /\ AllWait(cache.names) /\ Careful(cache, {})
      /\ ItemsAt(cache.items, told, sdk.log, overtaken) /\ Whole(cache, told, sdk.log, overtaken)
  BY <1>1 DEF CacheInv, Types, SubInv, Pristine, Attentive
<1>3. \A b \in Standard \cap DOMAIN cache.items : cache.items[b].pending \notin {"new", "update"}
  <2>1. \A b : ~Asking(cache, b)
    BY <1>1 DEF Asking, Asks
  <2>2. QED
    BY <1>1, <1>2, <2>1 DEF Careful, Prompt
<1>4. CASE a # "fullname"
  <2>1. a \in Standard
    BY <1>1, <1>4, AttrsDef
  <2>2. cache.items[a] \in Item(a)
    BY <1>1, <1>2 DEF Typed, ItemsOk
  <2>3. cache.items[a].pending = "not"
    BY <1>1, <1>3, <2>1, <2>2 DEF Item, Pendings
  <2>4. cache.shown[a] = cache.items[a].data
    BY <1>1, <1>2, <2>1, <2>3 DEF Careful, Shows
  <2>5. a \notin overtaken /\ cache.items[a].data # Failed
            => cache.items[a].data >= Count(sdk.log, a, told)
    BY <1>1, <1>2, <2>1, <2>3 DEF ItemsAt
  <2>6. QED
    BY <1>4, <2>4, <2>5, VersionIsCount DEF Current
<1>5. CASE a = "fullname"
  <2>1. cache.names = <<>>
    <3>1. SUFFICES ASSUME cache.names # <<>> PROVE FALSE
      OBVIOUS
    <3>2. Len(cache.names) \in DOMAIN cache.names
      BY <1>2, <3>1, NamesSeq
    <3>3. PICK p \in Parts : Waiting(cache.names[Len(cache.names)], p)
      BY <1>2, <3>2 DEF AllWait
    <3>4. p \in DOMAIN cache.items /\ cache.items[p].pending = "new"
      BY <1>2, <3>2, <3>3 DEF Careful, NamesWait
    <3>5. QED
      BY <1>3, <3>4, AttrsDef
  <2>2. /\ cache.items["fullname"].data \in Names
        /\ PartsCurrent(cache.items["fullname"].data, told, sdk.log, overtaken)
        /\ cache.shown["fullname"] = cache.items["fullname"].data
    BY <1>1, <1>2, <1>5, <2>1 DEF Whole
  <2>3. \A p \in Parts : cache.shown["fullname"][p] \in Versions
    BY <2>2 DEF Names
  <2>4. ASSUME NEW p \in Parts \ overtaken PROVE Current(cache.shown["fullname"][p], p)
    <3>1. cache.shown["fullname"][p] # Unknown
      BY <2>3, VersionsDef
    <3>2. \/ cache.shown["fullname"][p] = Failed
          \/ cache.shown["fullname"][p] >= Count(sdk.log, p, told)
      BY <2>2, <3>1 DEF PartsCurrent
    <3>3. QED
      BY <3>2, VersionIsCount DEF Current
  <2>5. QED
    BY <1>5, <2>4
<1>6. QED
  BY <1>4, <1>5

\* Once nothing is under way, what each subscriber of a connected client was last given is
\* what the server has, as far as the client has been told: for each attribute, whatever was
\* fetched, changed, erased or subscribed to again meanwhile, and for each part of a full
\* name, which is put together from parts that change while it waits for the others.  An
\* attribute of which an answer came after the notification of a change that it was read
\* before is left out: the cache ignores such a change, and has no second look.  The
\* argument is that an item whose value is to be fetched has always been asked for (Prompt),
\* that a full name waits only for parts that are on their way, the last one for as many as
\* any other (NamesWait), and that the parts it has been given already are not too old, or
\* it has been asked for again (Whole).
THEOREM SubscribersUpToDateHolds == Spec => []SubscribersUpToDate
<1>1. Init => CacheInv /\ SubInv
  BY InitInv, InitSub
<1>2. CacheInv /\ SubInv /\ [Next]_vars => CacheInv' /\ SubInv'
  BY Inductive, SubInductive
<1>3. CacheInv /\ SubInv => SubscribersUpToDate
  BY SubscribersGiven
<1>4. QED
  BY <1>1, <1>2, <1>3, PTL DEF Spec
=============================================================================
