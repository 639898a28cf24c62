---------------------- MODULE StratifierProxies_proofs ----------------------
(* Proofs about proxy mode, for any number of pools, sessions and miners: the *)
(* stratifier works for the best live proxy (BestAlive), counts the clients   *)
(* of each session (BoundCounted), and agrees with the generator on which     *)
(* sessions there are (Agreement).                                            *)
(*                                                                           *)
(* ProxyInv is the invariant.  Agreed says of every session, also of one that *)
(* is being set up, what Agreement says of those that are settled, with the   *)
(* last message under way instead of a choice (Taken).  It takes Fresh: the   *)
(* generator never has a session under a subid not given out yet, so a new    *)
(* subproxy is one the stratifier has heard nothing good of.  Tidy is what    *)
(* keeps a session the stratifier has forgotten from counting as alive.       *)
EXTENDS StratifierProxies, SequenceTheorems, FiniteSetTheorems,
        WellFoundedInduction, TLAPS

ProxySpec == ProxyInit /\ [][ProxyNext]_vars

StratTypes ==
    /\ toStrat \in Seq(ToStrat)
    /\ proxy \in [Keys -> ProxyRec] /\ client \in [Clients -> ClientRec]
    /\ loop \in [at : {"idle", "fill", "check", "walk", "reap"}, k : Keys]

\* What parents are; how many recruits are asked for may be any number.
ParentOf(made, listed, disabled, reconnecting, authorised, recruit, count) ==
    [made |-> made, listed |-> listed, disabled |-> disabled,
     reconnecting |-> reconnecting, authorised |-> authorised,
     recruit |-> recruit, count |-> count]
IsParentRec(r) ==
    \E disabled, reconnecting, authorised, recruit :
      \E made \in BOOLEAN, listed \in BOOLEAN, count \in Nat :
        r = ParentOf(made, listed, disabled, reconnecting, authorised, recruit, count)

ParentTypes ==
    parent = [p \in Proxies |-> parent[p]] /\ \A p \in Proxies : IsParentRec(parent[p])

GenTypes == ParentTypes /\ session \in [Keys -> SessionState] /\ linked \subseteq Keys

\* The clients bound to session k, and that only those who have subscribed are
\* bound.
Mine(k) == {c \in Clients : client[c].bound /\ client[c].key = k}
BoundSubscribed ==
    \A c \in Clients : client[c].bound => client[c].at \in {"subscribed", "authorised"}

\* What is not there is as it was before it was; a deleted session is dead until
\* it subscribes again.
Tidy ==
    /\ \A k \in Keys : ~ proxy[k].there => ~ proxy[k].subscribed /\ ~ proxy[k].deleted
    /\ \A k \in Keys : proxy[k].deleted => proxy[k].dead
    /\ loop.at = "fill" => ~ proxy[loop.k].deleted

\* While stratum_loop handles a message of a global session, the choice may be
\* made on the proxies as they were.
Choosing == loop.at \in {"fill", "check"} /\ Global(loop.k[1])
BestElse == Choosing \/ current = BestNow(proxy)

\* TakenAlive, without the choice.
About(i, k) == toStrat[i].k = k /\ toStrat[i].t # "notify"
Taken(k) ==
    \/ \E i \in 1..Len(toStrat) : /\ About(i, k) /\ toStrat[i].t = "subscribe"
                                  /\ \A j \in 1..Len(toStrat) : About(j, k) => j <= i
    \/ /\ \A i \in 1..Len(toStrat) : ~ About(i, k)
       /\ (loop.at = "fill" /\ loop.k = k) \/ (proxy[k].subscribed /\ ~ proxy[k].dead)

\* Subids are given out in their order, ids of proxies once; only subproxies wait
\* to be put in the list.
Fresh ==
    /\ \A k \in Keys : k[2] > parent[k[1]].count => session[k] = "none" \/ IsParent(k)
    /\ \A p \in Proxies : session[Key(p)] # "none" \/ parent[p].listed => parent[p].made
    /\ \A k \in Keys : IsParent(k) => session[k] \in {"none", "idle", "auth", "alive"}

Agreed ==
    \A k \in Keys :
        Taken(k) <=> session[k] \in {"auth", "made", "alive"} /\ k \notin closed

-----------------------------------------------------------------------------
(* Keys and messages.                                                         *)

LEMMA KeyFacts ==
    /\ \A k \in Keys : /\ k[1] \in Proxies /\ k[2] \in Nat /\ k[2] <= MaxSub[k[1]]
                       /\ k = <<k[1], k[2]>>
    /\ \A p \in Proxies, s \in Nat : s <= MaxSub[p] => <<p, s>> \in Keys
    /\ \A p \in Proxies : Key(p) \in Keys /\ IsParent(Key(p)) /\ Key(p)[1] = p
    /\ \A k \in Keys : IsParent(k) => k = Key(k[1])
    /\ MaxSub \in [Proxies -> Nat]
<1>1. MaxSub \in [Proxies -> Nat]
  BY GeneratorProxiesAssumption
<1> QED
  BY <1>1 DEF Keys, Key, IsParent

LEMMA NoKeyElse == \A p, s : <<p, s>> \in Keys => p \in Proxies /\ s \in Nat
  BY GeneratorProxiesAssumption DEF Keys

LEMMA MsgType ==
    ASSUME NEW t \in {"subscribe", "notify", "dead", "del"}, NEW k \in Keys
    PROVE  Msg(t, k) \in ToStrat /\ Msg(t, k).t = t /\ Msg(t, k).k = k
  BY DEF Msg, ToStrat

\* A set of numbers up to n has a greatest.
LEMMA HasGreatest ==
    ASSUME NEW n \in Nat, NEW T \in SUBSET (1..n), T # {}
    PROVE  \E m \in T : \A j \in T : j <= m
<1> DEFINE R == OpToRel(<, Nat)
           U == {x \in Nat : n - x \in T}
<1>1. IsWellFoundedOn(R, Nat)
  BY NatLessThanWellFounded
<1>2. \A a, b \in Nat : a < b => <<a, b>> \in R
  BY DEF OpToRel
<1>3. U \subseteq Nat /\ U # {}
  <2>1. PICK j \in T : TRUE
    OBVIOUS
  <2>2. n - j \in Nat /\ n - (n - j) = j
    OBVIOUS
  <2> QED
    BY <2>1, <2>2
<1> HIDE DEF R
<1>4. PICK x \in U : \A y \in U : ~ (<<y, x>> \in R)
  <2> HIDE DEF U
  <2> QED
    BY <1>1, <1>3, WFMin, Zenon
<1>5. \A j \in T : j <= n - x
  <2> TAKE j \in T
  <2>1. n - j \in U
    OBVIOUS
  <2>2. ~ (n - j < x)
    BY <1>2, <1>4, <2>1
  <2> QED
    BY <2>2
<1> QED
  BY <1>5

\* What is sent changes what is taken for alive as its last message says.
LEMMA Appended ==
    ASSUME StratTypes, NEW ms \in Seq(ToStrat), toStrat' = toStrat \o ms,
           UNCHANGED <<loop, proxy>>, NEW k \in Keys
    PROVE  /\ (\A i \in 1..Len(ms) : ms[i].k # k \/ ms[i].t = "notify")
                => (Taken(k)' <=> Taken(k))
           /\ (/\ \E i \in 1..Len(ms) : ms[i].k = k /\ ms[i].t # "notify"
               /\ \A i \in 1..Len(ms) : ms[i].k = k => ms[i].t # "subscribe")
                => ~ Taken(k)'
           /\ (Len(ms) = 1 /\ ms[1].k = k /\ ms[1].t = "subscribe") => Taken(k)'
<1> DEFINE n == Len(toStrat)
           Now(i) == toStrat'[i].k = k /\ toStrat'[i].t # "notify"
<1>1. /\ toStrat \in Seq(ToStrat) /\ toStrat' \in Seq(ToStrat) /\ n \in Nat /\ Len(ms) \in Nat
      /\ Len(toStrat') = n + Len(ms)
      /\ \A i \in 1..n : toStrat'[i] = toStrat[i]
      /\ \A i \in 1..Len(ms) : toStrat'[n + i] = ms[i] /\ n + i \in 1..(n + Len(ms))
  <2>1. toStrat \in Seq(ToStrat)
    BY DEF StratTypes
  <2> QED
    BY <2>1, ConcatProperties
<1>2. \A i \in (n + 1)..(n + Len(ms)) : \E j \in 1..Len(ms) : i = n + j
  <2> TAKE i \in (n + 1)..(n + Len(ms))
  <2>1. i - n \in 1..Len(ms) /\ i = n + (i - n)
    BY <1>1
  <2> QED
    BY <2>1
<1>3. Taken(k)' <=>
        \/ \E i \in 1..(n + Len(ms)) : /\ Now(i) /\ toStrat'[i].t = "subscribe"
                                       /\ \A j \in 1..(n + Len(ms)) : Now(j) => j <= i
        \/ /\ \A i \in 1..(n + Len(ms)) : ~ Now(i)
           /\ (loop.at = "fill" /\ loop.k = k) \/ (proxy[k].subscribed /\ ~ proxy[k].dead)
  BY <1>1 DEF Taken, About
<1>4. ASSUME \A i \in 1..Len(ms) : ms[i].k # k \/ ms[i].t = "notify"
      PROVE  Taken(k)' <=> Taken(k)
  <2>1. ASSUME NEW i \in 1..(n + Len(ms)), Now(i) PROVE i \in 1..n
    <3>1. CASE i > n
      <4>1. i \in (n + 1)..(n + Len(ms))
        <5> HIDE DEF n
        <5> QED
          BY <1>1, <3>1
      <4>2. PICK j \in 1..Len(ms) : i = n + j
        BY <1>2, <4>1
      <4> QED
        BY <1>1, <1>4, <2>1, <4>2
    <3> QED
      BY <1>1, <3>1
  <2>2. \A i \in 1..n : (Now(i) <=> About(i, k)) /\ i \in 1..(n + Len(ms))
    BY <1>1 DEF About
  <2> HIDE DEF Now
  <2> QED
    BY <1>1, <1>3, <2>1, <2>2 DEF Taken
<1>5. ASSUME NEW i \in 1..Len(ms), ms[i].k = k, ms[i].t # "notify",
             \A j \in 1..Len(ms) : ms[j].k = k => ms[j].t # "subscribe"
      PROVE  ~ Taken(k)'
  <2>1. Now(n + i) /\ n + i \in 1..(n + Len(ms)) /\ i > 0
    BY <1>1, <1>5
  <2>2. ASSUME NEW j \in 1..(n + Len(ms)), Now(j), n + i <= j PROVE toStrat'[j].t # "subscribe"
    <3>1. PICK l \in 1..Len(ms) : j = n + l
      BY <1>1, <1>2, <2>2
    <3> QED
      BY <1>1, <1>5, <2>2, <3>1
  <2> HIDE DEF Now
  <2> QED
    BY <1>1, <1>3, <2>1, <2>2
<1>6. ASSUME Len(ms) = 1, ms[1].k = k, ms[1].t = "subscribe" PROVE Taken(k)'
  <2>1. Now(n + 1) /\ toStrat'[n + 1].t = "subscribe" /\ n + 1 \in 1..(n + 1)
    BY <1>1, <1>6
  <2> HIDE DEF Now
  <2> QED
    BY <1>1, <1>3, <1>6, <2>1
<1> QED
  BY <1>4, <1>5, <1>6

\* TakenAlive is Taken.
LEMMA TakenIs == ASSUME StratTypes, NEW k \in Keys PROVE TakenAlive(k) <=> Taken(k)
<1> DEFINE mine == {i \in DOMAIN toStrat : toStrat[i].k = k /\ toStrat[i].t # "notify"}
           last == CHOOSE i \in mine : \A j \in mine : j <= i
<1>1. toStrat \in Seq(ToStrat) /\ DOMAIN toStrat = 1..Len(toStrat) /\ Len(toStrat) \in Nat
  BY DEF StratTypes
<1>2. mine \in SUBSET (1..Len(toStrat)) /\ \A i \in 1..Len(toStrat) : i \in mine <=> About(i, k)
  BY <1>1 DEF About
<1>3. TakenAlive(k) <=> IF mine # {} THEN toStrat[last].t = "subscribe"
                        ELSE (loop.at = "fill" /\ loop.k = k)
                             \/ (proxy[k].subscribed /\ ~ proxy[k].dead)
  BY Zenon DEF TakenAlive
<1> HIDE DEF mine
<1>4. CASE mine = {}
  BY <1>2, <1>3, <1>4 DEF Taken
<1>5. CASE mine # {}
  <2>1. \E m \in mine : \A j \in mine : j <= m
    BY <1>1, <1>2, <1>5, HasGreatest
  <2>2. last \in mine /\ \A j \in mine : j <= last
    BY <2>1, Zenon
  <2> HIDE DEF last
  <2>3. \A i \in mine : (\A j \in mine : j <= i) => i = last
    BY <1>1, <1>2, <2>2
  <2> QED
    BY <1>1, <1>2, <1>3, <1>5, <2>2, <2>3 DEF Taken
<1> QED
  BY <1>4, <1>5

-----------------------------------------------------------------------------
(* The generator's steps.                                                     *)

Down == {"none", "idle", "lost"}
Up == {"auth", "made", "alive"}

\* What a step does to session k, and what it tells the stratifier.
Unmoved(k) ==
    /\ Taken(k)' <=> Taken(k)
    /\ k \in closed <=> k \in closed'
    /\ \/ session'[k] = session[k]
       \/ session[k] \in Down /\ session'[k] \in Down
       \/ session[k] \in Up /\ session'[k] \in Up
GoesDown(k) == ~ Taken(k)' /\ (k \in closed' \/ session'[k] \in Down)
ComesUp(k) == Taken(k)' /\ session'[k] \in Up /\ k \notin closed'

\* What a step does to the parents.
ParentsStay ==
    \A p \in Proxies : /\ parent[p].made => parent'[p].made
                       /\ parent'[p].listed => parent'[p].made
                       /\ parent'[p].count >= parent[p].count

SessionsStay ==
    \A k \in Keys :
      /\ IsParent(k) => /\ session'[k] \in {"none", "idle", "auth", "alive"}
                        /\ session'[k] # "none" => session[k] # "none" \/ parent'[k[1]].made
      /\ ~ IsParent(k) /\ session'[k] # "none" /\ session[k] = "none"
           => k[2] <= parent'[k[1]].count

LEMMA FieldsOf ==
    ASSUME NEW a, NEW b, NEW c, NEW d, NEW e, NEW f, NEW n, NEW r,
           r = ParentOf(a, b, c, d, e, f, n)
    PROVE  r.made = a /\ r.listed = b /\ r.count = n
  BY DEF ParentOf

LEMMA ParentFields ==
    ASSUME NEW r, IsParentRec(r)
    PROVE  r.made \in BOOLEAN /\ r.listed \in BOOLEAN /\ r.count \in Nat
  BY FieldsOf DEF IsParentRec

LEMMA GenKeeps ==
    ASSUME GenTypes, GenTypes', Fresh, Agreed, ParentsStay, SessionsStay,
           \A k \in Keys : Unmoved(k) \/ GoesDown(k) \/ ComesUp(k)
    PROVE  Fresh' /\ Agreed'
<1>1. Agreed'
  <2> SUFFICES ASSUME NEW k \in Keys
               PROVE  Taken(k)' <=> session'[k] \in Up /\ k \notin closed'
    BY DEF Agreed, Up
  <2>1. /\ Taken(k) <=> session[k] \in Up /\ k \notin closed
        /\ session[k] \in Up \union Down /\ session'[k] \in Up \union Down
    BY DEF Agreed, GenTypes, SessionState, Up, Down
  <2>2. CASE Unmoved(k)
    BY <2>1, <2>2 DEF Unmoved, Down, Up
  <2>3. CASE GoesDown(k)
    BY <2>3 DEF GoesDown, Down, Up
  <2>4. CASE ComesUp(k)
    BY <2>4 DEF ComesUp, Up
  <2> QED
    BY <2>2, <2>3, <2>4
<1>2. Fresh'
  <2>1. ASSUME NEW k \in Keys, k[2] > parent'[k[1]].count, ~ IsParent(k)
        PROVE  session'[k] = "none"
    <3>1. k[1] \in Proxies /\ k[2] \in Nat
      BY KeyFacts
    <3>2. /\ parent[k[1]].count \in Nat /\ parent'[k[1]].count \in Nat
          /\ parent'[k[1]].count >= parent[k[1]].count
      <4>1. IsParentRec(parent[k[1]]) /\ IsParentRec(parent'[k[1]])
        BY <3>1 DEF GenTypes, ParentTypes, IsParentRec
      <4> QED
        BY <3>1, <4>1, ParentFields DEF ParentsStay
    <3>3. session[k] = "none"
      BY <2>1, <3>1, <3>2 DEF Fresh
    <3> QED
      BY <2>1, <3>1, <3>2, <3>3 DEF SessionsStay
  <2>2. ASSUME NEW p \in Proxies, session'[Key(p)] # "none" \/ parent'[p].listed
        PROVE  parent'[p].made
    <3>1. Key(p) \in Keys /\ IsParent(Key(p)) /\ Key(p)[1] = p
      BY KeyFacts
    <3>2. session[Key(p)] # "none" => parent[p].made
      BY DEF Fresh
    <3> QED
      BY <2>2, <3>1, <3>2 DEF ParentsStay, SessionsStay
  <2>3. ASSUME NEW k \in Keys, IsParent(k)
        PROVE  session'[k] \in {"none", "idle", "auth", "alive"}
    BY <2>3 DEF SessionsStay
  <2> QED
    BY <2>1, <2>2, <2>3 DEF Fresh, Key, IsParent
<1> QED
  BY <1>1, <1>2

\* Parent p becomes r.
LEMMA ParentField ==
    ASSUME GenTypes, Fresh, NEW p \in Proxies, NEW r, IsParentRec(r),
           parent[p].made => r.made, r.listed => r.made, r.count >= parent[p].count,
           parent' = [parent EXCEPT ![p] = r]
    PROVE  ParentTypes' /\ ParentsStay /\ parent'[p] = r
<1>1. \A q \in Proxies : parent'[q] = IF q = p THEN r ELSE parent[q]
  BY DEF GenTypes, ParentTypes
<1>2. parent' = [q \in Proxies |-> parent'[q]]
  BY DEF GenTypes, ParentTypes
<1>3. ParentTypes'
  <2>1. \A q \in Proxies : IsParentRec(parent'[q])
    BY <1>1 DEF GenTypes, ParentTypes
  <2> QED
    BY <1>2, <2>1 DEF ParentTypes, IsParentRec
<1>4. \A q \in Proxies : parent[q].count \in Nat
  BY ParentFields DEF GenTypes, ParentTypes
<1>5. \A q \in Proxies : parent[q].listed => parent[q].made
  BY DEF Fresh
<1> QED
  BY <1>1, <1>3, <1>4, <1>5 DEF ParentsStay

\* The changes of a parent.
Same(r, s) == IsParentRec(s) /\ s.made = r.made /\ s.listed = r.listed

LEMMA EditRecruit ==
    ASSUME NEW r, IsParentRec(r), NEW x
    PROVE  LET s == [r EXCEPT !.recruit = x] IN Same(r, s) /\ s.count = r.count
<1> DEFINE s == [r EXCEPT !.recruit = x]
<1>1. PICK a, b, c, d, e, f, n : /\ a \in BOOLEAN /\ b \in BOOLEAN /\ n \in Nat
                                 /\ r = ParentOf(a, b, c, d, e, f, n)
  BY DEF IsParentRec
<1>2. s = ParentOf(a, b, c, d, e, x, n)
  BY <1>1 DEF ParentOf
<1> HIDE DEF s
<1>3. /\ r.made = a /\ r.listed = b /\ r.count = n /\ s.made = a /\ s.listed = b
      /\ s.count = n
  BY <1>1, <1>2, FieldsOf
<1>4. IsParentRec(s)
  BY <1>1, <1>2 DEF IsParentRec
<1> QED
  BY <1>3, <1>4 DEF Same, s

LEMMA EditReconnecting ==
    ASSUME NEW r, IsParentRec(r), NEW x
    PROVE  LET s == [r EXCEPT !.reconnecting = x] IN Same(r, s) /\ s.count = r.count
<1> DEFINE s == [r EXCEPT !.reconnecting = x]
<1>1. PICK a, b, c, d, e, f, n : /\ a \in BOOLEAN /\ b \in BOOLEAN /\ n \in Nat
                                 /\ r = ParentOf(a, b, c, d, e, f, n)
  BY DEF IsParentRec
<1>2. s = ParentOf(a, b, c, x, e, f, n)
  BY <1>1 DEF ParentOf
<1> HIDE DEF s
<1>3. /\ r.made = a /\ r.listed = b /\ r.count = n /\ s.made = a /\ s.listed = b
      /\ s.count = n
  BY <1>1, <1>2, FieldsOf
<1>4. IsParentRec(s)
  BY <1>1, <1>2 DEF IsParentRec
<1> QED
  BY <1>3, <1>4 DEF Same, s

LEMMA EditDisabled ==
    ASSUME NEW r, IsParentRec(r), NEW x
    PROVE  LET s == [r EXCEPT !.disabled = x] IN Same(r, s) /\ s.count = r.count
<1> DEFINE s == [r EXCEPT !.disabled = x]
<1>1. PICK a, b, c, d, e, f, n : /\ a \in BOOLEAN /\ b \in BOOLEAN /\ n \in Nat
                                 /\ r = ParentOf(a, b, c, d, e, f, n)
  BY DEF IsParentRec
<1>2. s = ParentOf(a, b, x, d, e, f, n)
  BY <1>1 DEF ParentOf
<1> HIDE DEF s
<1>3. /\ r.made = a /\ r.listed = b /\ r.count = n /\ s.made = a /\ s.listed = b
      /\ s.count = n
  BY <1>1, <1>2, FieldsOf
<1>4. IsParentRec(s)
  BY <1>1, <1>2 DEF IsParentRec
<1> QED
  BY <1>3, <1>4 DEF Same, s

LEMMA EditEnabled ==
    ASSUME NEW r, IsParentRec(r), NEW x, NEW y
    PROVE  LET s == [r EXCEPT !.disabled = x, !.reconnecting = y]
           IN  Same(r, s) /\ s.count = r.count
<1> DEFINE q == [r EXCEPT !.disabled = x]
           s == [r EXCEPT !.disabled = x, !.reconnecting = y]
<1>1. Same(r, q) /\ q.count = r.count
  BY EditDisabled
<1>2. s = [q EXCEPT !.reconnecting = y]
  OBVIOUS
<1> HIDE DEF q
<1>3. Same(q, s) /\ s.count = q.count
  BY <1>1, <1>2, EditReconnecting DEF Same
<1> QED
  BY <1>1, <1>3 DEF Same

AuthorisedRec(r, x, y, z) ==
    [r EXCEPT !.recruit = x, !.reconnecting = y, !.authorised = z]

LEMMA EditAuthorised ==
    ASSUME NEW r, IsParentRec(r), NEW x, NEW y, NEW z
    PROVE  Same(r, AuthorisedRec(r, x, y, z)) /\ AuthorisedRec(r, x, y, z).count = r.count
<1> DEFINE q == [r EXCEPT !.recruit = x]
           t == [q EXCEPT !.reconnecting = y]
           s == AuthorisedRec(r, x, y, z)
<1>1. Same(r, q) /\ q.count = r.count
  BY EditRecruit
<1>2. s = [t EXCEPT !.authorised = z]
  BY DEF AuthorisedRec
<1> HIDE DEF s
<1> HIDE DEF q
<1>3. Same(q, t) /\ t.count = q.count
  BY <1>1, EditReconnecting DEF Same
<1> HIDE DEF t
<1>4. PICK a, b, c, d, e, f, n : /\ a \in BOOLEAN /\ b \in BOOLEAN /\ n \in Nat
                                 /\ t = ParentOf(a, b, c, d, e, f, n)
  BY <1>3 DEF Same, IsParentRec
<1>5. s = ParentOf(a, b, c, d, z, f, n)
  BY <1>2, <1>4 DEF ParentOf
<1>6. /\ t.made = a /\ t.listed = b /\ t.count = n /\ s.made = a /\ s.listed = b
      /\ s.count = n
  BY <1>4, <1>5, FieldsOf
<1>7. IsParentRec(s)
  BY <1>4, <1>5 DEF IsParentRec
<1> QED
  BY <1>1, <1>3, <1>6, <1>7 DEF Same, s

LEMMA EditCount ==
    ASSUME NEW r, IsParentRec(r), NEW m \in Nat
    PROVE  LET s == [r EXCEPT !.count = m] IN Same(r, s) /\ s.count = m
<1> DEFINE s == [r EXCEPT !.count = m]
<1>1. PICK a, b, c, d, e, f, n : /\ a \in BOOLEAN /\ b \in BOOLEAN /\ n \in Nat
                                 /\ r = ParentOf(a, b, c, d, e, f, n)
  BY DEF IsParentRec
<1>2. s = ParentOf(a, b, c, d, e, f, m)
  BY <1>1 DEF ParentOf
<1> HIDE DEF s
<1>3. /\ r.made = a /\ r.listed = b /\ r.count = n /\ s.made = a /\ s.listed = b
      /\ s.count = m
  BY <1>1, <1>2, FieldsOf
<1>4. IsParentRec(s)
  BY <1>1, <1>2 DEF IsParentRec
<1> QED
  BY <1>3, <1>4 DEF Same, s

\* Parent p is as it was, where the invariant looks.
LEMMA ParentKept ==
    ASSUME GenTypes, Fresh, NEW p \in Proxies, NEW r, Same(parent[p], r),
           r.count >= parent[p].count, parent' = [parent EXCEPT ![p] = r]
    PROVE  ParentTypes' /\ ParentsStay /\ parent'[p] = r
<1>1. IsParentRec(r) /\ (parent[p].made => r.made) /\ (r.listed => r.made)
  BY DEF Same, Fresh
<1> QED
  BY <1>1, ParentField

LEMMA ParentSame ==
    ASSUME GenTypes, Fresh, parent' = parent
    PROVE  ParentTypes' /\ ParentsStay
<1>1. \A q \in Proxies : parent[q].count \in Nat
  BY ParentFields DEF GenTypes, ParentTypes
<1>2. ParentTypes'
  BY DEF GenTypes, ParentTypes, IsParentRec
<1> QED
  BY <1>1, <1>2 DEF ParentsStay, Fresh

LEMMA RecruitMoreIs ==
    ASSUME GenTypes, Fresh, NEW k \in Keys, NEW alive \in BOOLEAN, ~ IsParent(k),
           session[k] # "none", ~ alive => session[k] # "made", RecruitMore(k, alive)
    PROVE  /\ ParentTypes' /\ ParentsStay /\ session' \in [Keys -> SessionState]
           /\ session'[k] = IF ~ alive THEN "none"
                            ELSE IF session[k] = "made" THEN "alive" ELSE session[k]
           /\ \A j \in Keys \ {k} :
                \/ session'[j] = session[j]
                \/ /\ session[j] = "none" /\ session'[j] = "idle" /\ ~ IsParent(j)
                   /\ j[2] <= parent'[j[1]].count
<1> DEFINE p == k[1]
           done == [session EXCEPT ![k] = CASE ~ alive -> "none"
                                            [] @ = "made" -> "alive"
                                            [] OTHER -> @]
           c == parent[p].count + 1
<1>1. /\ p \in Proxies /\ k[2] \in Nat /\ k = <<p, k[2]>>
      /\ \A q \in Proxies : parent[q].listed => parent[q].made
  BY KeyFacts DEF Fresh
<1>2. ParentTypes /\ session \in [Keys -> SessionState] /\ parent[p].count \in Nat
  BY <1>1, ParentFields DEF GenTypes, ParentTypes
<1>3. k[2] <= parent[p].count
  BY <1>1, <1>2 DEF Fresh
<1>4. /\ done \in [Keys -> SessionState] /\ \A j \in Keys \ {k} : done[j] = session[j]
      /\ done[k] = IF ~ alive THEN "none"
                   ELSE IF session[k] = "made" THEN "alive" ELSE session[k]
  <2>1. CASE ~ alive
    <3>1. done = [session EXCEPT ![k] = "none"]
      BY <2>1
    <3> HIDE DEF done
    <3> QED
      BY <1>2, <2>1, <3>1 DEF SessionState
  <2>2. CASE alive /\ session[k] = "made"
    <3>1. done = [session EXCEPT ![k] = "alive"]
      BY <2>2
    <3> HIDE DEF done
    <3> QED
      BY <1>2, <2>2, <3>1 DEF SessionState
  <2>3. CASE alive /\ session[k] # "made"
    <3>1. done = [session EXCEPT ![k] = session[k]]
      BY <2>3
    <3> HIDE DEF done
    <3> QED
      BY <1>2, <2>3, <3>1 DEF SessionState
  <2> QED
    BY <2>1, <2>2, <2>3
<1>5. \/ /\ parent' = [parent EXCEPT ![p].count = @ + 1]
         /\ session' = [done EXCEPT ![<<p, c>>] = "idle"] /\ c <= MaxSub[p]
      \/ parent' = [parent EXCEPT ![p].recruit = 0] /\ session' = done
  <2>1. MaxSub[p] \in Nat
    BY <1>1, KeyFacts
  <2> QED
    BY <1>2, <2>1 DEF RecruitMore
<1> HIDE DEF done
<1>6. CASE /\ parent' = [parent EXCEPT ![p].count = @ + 1]
           /\ session' = [done EXCEPT ![<<p, c>>] = "idle"] /\ c <= MaxSub[p]
  <2>1. <<p, c>> \in Keys /\ <<p, c>> # k /\ <<p, c>>[2] = c /\ ~ IsParent(<<p, c>>)
        /\ <<p, c>>[1] = p
    BY <1>1, <1>2, <1>3, <1>6, KeyFacts DEF IsParent
  <2>2. session[<<p, c>>] = "none"
    BY <1>2, <2>1 DEF Fresh
  <2>3. ParentTypes' /\ ParentsStay /\ parent'[p].count = c
    <3> DEFINE r == [parent[p] EXCEPT !.count = c]
    <3>1. parent' = [parent EXCEPT ![p] = r]
      BY <1>6
    <3>2. Same(parent[p], r) /\ r.count = c
      BY <1>1, <1>2, EditCount DEF ParentTypes
    <3> HIDE DEF r
    <3>3. r.count >= parent[p].count
      BY <1>2, <3>2
    <3>4. ParentTypes' /\ ParentsStay /\ parent'[p] = r
      BY <1>1, <3>1, <3>2, <3>3, ParentKept, Zenon
    <3> QED
      BY <3>2, <3>4
  <2>4. session' \in [Keys -> SessionState]
        /\ \A j \in Keys : session'[j] = IF j = <<p, c>> THEN "idle" ELSE done[j]
    BY <1>4, <1>6, <2>1 DEF SessionState
  <2> QED
    BY <1>2, <1>4, <2>1, <2>2, <2>3, <2>4
<1>7. CASE parent' = [parent EXCEPT ![p].recruit = 0] /\ session' = done
  <2>1. ParentTypes' /\ ParentsStay
    <3> DEFINE r == [parent[p] EXCEPT !.recruit = 0]
    <3>1. parent' = [parent EXCEPT ![p] = r]
      BY <1>7
    <3>2. Same(parent[p], r) /\ r.count = parent[p].count
      BY <1>1, <1>2, EditRecruit DEF ParentTypes
    <3> HIDE DEF r
    <3>3. r.count >= parent[p].count
      BY <1>2, <3>2
    <3>4. ParentTypes' /\ ParentsStay /\ parent'[p] = r
      BY <1>1, <3>1, <3>2, <3>3, ParentKept, Zenon
    <3> QED
      BY <3>2, <3>4
  <2> QED
    BY <1>4, <1>7, <2>1
<1> QED
  BY <1>5, <1>6, <1>7

LEMMA Quiet ==
    ASSUME UNCHANGED <<toStrat, loop, proxy>>, NEW k \in Keys
    PROVE  Taken(k)' <=> Taken(k)
  BY DEF Taken, About

GenGoal == GenTypes' /\ Fresh' /\ Agreed' /\ toStrat' \in Seq(ToStrat)

\* A message on session k.
LEMMA OneSent ==
    ASSUME StratTypes, NEW k \in Keys, NEW t \in {"subscribe", "notify", "dead", "del"},
           Send(<<Msg(t, k)>>), UNCHANGED <<loop, proxy>>
    PROVE  /\ toStrat' \in Seq(ToStrat)
           /\ \A j \in Keys : j # k \/ t = "notify" => (Taken(j)' <=> Taken(j))
           /\ t = "subscribe" => Taken(k)'
           /\ t \in {"dead", "del"} => ~ Taken(k)'
<1> DEFINE ms == <<Msg(t, k)>>
<1>1. Msg(t, k) \in ToStrat /\ Msg(t, k).t = t /\ Msg(t, k).k = k
  BY MsgType
<1>2. ms \in Seq(ToStrat) /\ Len(ms) = 1 /\ ms[1].t = t /\ ms[1].k = k /\ 1 \in 1..Len(ms)
      /\ \A i \in 1..Len(ms) : i = 1
  BY <1>1
<1>3. toStrat' = toStrat \o ms
  BY DEF Send
<1> HIDE DEF ms
<1>4. toStrat' \in Seq(ToStrat)
  BY <1>2, <1>3, ConcatProperties DEF StratTypes
<1>5. \A j \in Keys : j # k \/ t = "notify" => (Taken(j)' <=> Taken(j))
  <2> TAKE j \in Keys
  <2> HAVE j # k \/ t = "notify"
  <2>1. \A i \in 1..Len(ms) : ms[i].k # j \/ ms[i].t = "notify"
    BY <1>2
  <2> QED
    BY <1>2, <1>3, <2>1, Appended
<1>6. t = "subscribe" => Taken(k)'
  BY <1>2, <1>3, Appended
<1>7. t \in {"dead", "del"} => ~ Taken(k)'
  <2> HAVE t \in {"dead", "del"}
  <2>1. /\ \E i \in 1..Len(ms) : ms[i].k = k /\ ms[i].t # "notify"
        /\ \A i \in 1..Len(ms) : ms[i].k = k => ms[i].t # "subscribe"
    BY <1>2
  <2> QED
    BY <1>2, <1>3, <2>1, Appended
<1> QED
  BY <1>4, <1>5, <1>6, <1>7

\* Two messages that session k is dead.
LEMMA TwoSent ==
    ASSUME StratTypes, NEW k \in Keys,
           Send(<<Msg("dead", k), Msg("dead", k)>>), UNCHANGED <<loop, proxy>>
    PROVE  /\ toStrat' \in Seq(ToStrat)
           /\ \A j \in Keys : j # k => (Taken(j)' <=> Taken(j))
           /\ ~ Taken(k)'
<1> DEFINE ms == <<Msg("dead", k), Msg("dead", k)>>
<1>1. Msg("dead", k) \in ToStrat /\ Msg("dead", k).t = "dead" /\ Msg("dead", k).k = k
  BY MsgType
<1>2. ms \in Seq(ToStrat) /\ Len(ms) = 2 /\ 1 \in 1..Len(ms)
      /\ \A i \in 1..Len(ms) : ms[i].t = "dead" /\ ms[i].k = k
  BY <1>1
<1>3. toStrat' = toStrat \o ms
  BY DEF Send
<1> HIDE DEF ms
<1>4. toStrat' \in Seq(ToStrat)
  BY <1>2, <1>3, ConcatProperties DEF StratTypes
<1>5. \A j \in Keys : j # k => (Taken(j)' <=> Taken(j))
  <2> TAKE j \in Keys
  <2> HAVE j # k
  <2>1. \A i \in 1..Len(ms) : ms[i].k # j \/ ms[i].t = "notify"
    BY <1>2
  <2> QED
    BY <1>2, <1>3, <2>1, Appended
<1>6. ~ Taken(k)'
  <2>1. /\ \E i \in 1..Len(ms) : ms[i].k = k /\ ms[i].t # "notify"
        /\ \A i \in 1..Len(ms) : ms[i].k = k => ms[i].t # "subscribe"
    BY <1>2
  <2> QED
    BY <1>2, <1>3, <2>1, Appended
<1> QED
  BY <1>4, <1>5, <1>6

GenBefore == GenTypes /\ Fresh /\ Agreed /\ StratTypes

LEMMA SubscribedKeeps ==
    ASSUME GenBefore, UNCHANGED <<loop, proxy>>, NEW k \in Keys, Subscribed(k)
    PROVE  GenGoal
<1>1. /\ GenTypes /\ Fresh /\ Agreed /\ StratTypes
      /\ session \in [Keys -> SessionState] /\ linked \subseteq Keys
  BY DEF GenBefore, GenTypes
<1>2. /\ session[k] = "idle" /\ session' = [session EXCEPT ![k] = "auth"]
      /\ Send(<<Msg("subscribe", k)>>) /\ closed' = closed \ {k}
      /\ UNCHANGED <<parent, linked>>
  BY DEF Subscribed, Attended
<1>3. /\ toStrat' \in Seq(ToStrat) /\ Taken(k)'
      /\ \A j \in Keys : j # k => (Taken(j)' <=> Taken(j))
  BY <1>1, <1>2, OneSent
<1>4. session' \in [Keys -> SessionState] /\ session'[k] = "auth"
      /\ \A j \in Keys : j # k => session'[j] = session[j]
  BY <1>1, <1>2 DEF SessionState
<1>5. ParentTypes' /\ ParentsStay
  BY <1>1, <1>2, ParentSame
<1>6. GenTypes'
  BY <1>1, <1>2, <1>4, <1>5 DEF GenTypes
<1>7. SessionsStay
  BY <1>1, <1>2, <1>4 DEF SessionsStay, Fresh
<1>8. \A j \in Keys : Unmoved(j) \/ GoesDown(j) \/ ComesUp(j)
  BY <1>2, <1>3, <1>4 DEF Unmoved, ComesUp, Up
<1> QED
  BY <1>1, <1>3, <1>5, <1>6, <1>7, <1>8, GenKeeps DEF GenGoal

LEMMA SetupFailedKeeps ==
    ASSUME GenBefore, UNCHANGED <<loop, proxy>>, NEW k \in Keys, SetupFailed(k)
    PROVE  GenGoal
<1>1. /\ GenTypes /\ Fresh /\ Agreed /\ StratTypes
      /\ session \in [Keys -> SessionState] /\ linked \subseteq Keys /\ ParentTypes
  BY DEF GenBefore, GenTypes
<1>2. /\ session[k] \in {"idle", "auth"} /\ linked' = linked /\ closed' = closed \ {k}
      /\ Send(<<Msg("dead", k)>>)
  BY DEF SetupFailed, Attended
<1>3. /\ toStrat' \in Seq(ToStrat) /\ ~ Taken(k)'
      /\ \A j \in Keys : j # k => (Taken(j)' <=> Taken(j))
  BY <1>1, <1>2, OneSent
<1>4. /\ k[1] \in Proxies /\ k = <<k[1], k[2]>>
      /\ \A q \in Proxies : parent[q].listed => parent[q].made
  BY <1>1, KeyFacts DEF Fresh
<1>5. CASE IsParent(k)
  <2>1. /\ session' = [session EXCEPT ![k] = "idle"]
        /\ parent' = [parent EXCEPT ![k[1]].reconnecting = FALSE]
    BY <1>5 DEF SetupFailed
  <2>2. ParentTypes' /\ ParentsStay
    <3> DEFINE p == k[1]
               r == [parent[p] EXCEPT !.reconnecting = FALSE]
    <3>1. parent' = [parent EXCEPT ![p] = r]
      BY <2>1
    <3>2. IsParentRec(parent[p]) /\ parent[p].count \in Nat
      BY <1>1, <1>4, ParentFields DEF ParentTypes
    <3>3. Same(parent[p], r) /\ r.count = parent[p].count
      BY <3>2, EditReconnecting
    <3> HIDE DEF r
    <3>4. r.count >= parent[p].count
      BY <3>2, <3>3
    <3> QED
      BY <1>1, <1>4, <3>1, <3>3, <3>4, ParentKept, Zenon
  <2>3. session' \in [Keys -> SessionState] /\ session'[k] = "idle"
        /\ \A j \in Keys : j # k => session'[j] = session[j]
    BY <1>1, <2>1 DEF SessionState
  <2>4. GenTypes'
    BY <1>1, <1>2, <2>2, <2>3 DEF GenTypes
  <2>5. SessionsStay
    BY <1>1, <1>2, <2>3 DEF SessionsStay, Fresh
  <2>6. \A j \in Keys : Unmoved(j) \/ GoesDown(j) \/ ComesUp(j)
    BY <1>2, <1>3, <2>3 DEF Unmoved, GoesDown, Down
  <2> QED
    BY <1>1, <1>3, <2>2, <2>4, <2>5, <2>6, GenKeeps DEF GenGoal
<1>6. CASE ~ IsParent(k)
  <2>1. RecruitMore(k, FALSE)
    BY <1>6 DEF SetupFailed
  <2>2. /\ ParentTypes' /\ ParentsStay /\ session' \in [Keys -> SessionState]
        /\ session'[k] = "none"
        /\ \A j \in Keys \ {k} :
             \/ session'[j] = session[j]
             \/ /\ session[j] = "none" /\ session'[j] = "idle" /\ ~ IsParent(j)
                /\ j[2] <= parent'[j[1]].count
    BY <1>1, <1>2, <1>6, <2>1, RecruitMoreIs
  <2>3. GenTypes'
    BY <1>1, <1>2, <2>2 DEF GenTypes
  <2>4. SessionsStay
    BY <1>1, <1>6, <2>2 DEF SessionsStay, Fresh
  <2>5. \A j \in Keys : Unmoved(j) \/ GoesDown(j) \/ ComesUp(j)
    BY <1>2, <1>3, <2>2 DEF Unmoved, GoesDown, Down
  <2> QED
    BY <1>1, <1>3, <2>2, <2>3, <2>4, <2>5, GenKeeps DEF GenGoal
<1> QED
  BY <1>5, <1>6

\* What every step of the generator starts from.
LEMMA BeforeFacts ==
    ASSUME GenBefore
    PROVE  /\ GenTypes /\ Fresh /\ Agreed /\ StratTypes /\ ParentTypes
           /\ session \in [Keys -> SessionState] /\ linked \subseteq Keys
           /\ \A p \in Proxies : /\ IsParentRec(parent[p]) /\ parent[p].count \in Nat
                                 /\ parent[p].made \in BOOLEAN /\ parent[p].listed \in BOOLEAN
                                 /\ parent[p].listed => parent[p].made
                                 /\ session[Key(p)] # "none" => parent[p].made
<1>1. GenTypes /\ Fresh /\ Agreed /\ StratTypes
  BY DEF GenBefore
<1>2. ParentTypes /\ session \in [Keys -> SessionState] /\ linked \subseteq Keys
  BY <1>1 DEF GenTypes
<1>3. \A p \in Proxies : IsParentRec(parent[p])
  BY <1>2 DEF ParentTypes
<1> QED
  BY <1>1, <1>2, <1>3, ParentFields DEF Fresh

\* Only parents change, and not as the invariant sees them.
LEMMA ParentOnly ==
    ASSUME GenBefore, UNCHANGED <<loop, proxy, toStrat, session, linked, closed>>,
           NEW p \in Proxies, NEW r, Same(parent[p], r), r.count = parent[p].count,
           parent' = [parent EXCEPT ![p] = r]
    PROVE  GenGoal
<1>1. /\ GenTypes /\ Fresh /\ Agreed /\ StratTypes /\ parent[p].count \in Nat
      /\ session \in [Keys -> SessionState] /\ linked \subseteq Keys
  BY BeforeFacts
<1>2. ParentTypes' /\ ParentsStay
  <2>1. r.count >= parent[p].count
    BY <1>1
  <2> QED
    BY <1>1, <2>1, ParentKept, Zenon
<1>3. GenTypes'
  BY <1>1, <1>2 DEF GenTypes
<1>4. SessionsStay
  BY <1>1 DEF SessionsStay, Fresh
<1>5. \A j \in Keys : Unmoved(j)
  BY Quiet DEF Unmoved
<1>6. toStrat' \in Seq(ToStrat)
  BY <1>1 DEF StratTypes
<1> QED
  BY <1>1, <1>2, <1>3, <1>4, <1>5, <1>6, GenKeeps DEF GenGoal

LEMMA AuthorisedKeeps ==
    ASSUME GenBefore, UNCHANGED <<loop, proxy>>, NEW k \in Keys, Authorised(k)
    PROVE  GenGoal
<1> DEFINE p == k[1]
           x == IF parent[p].recruit > PerProxy THEN parent[p].recruit - PerProxy ELSE 0
           y == parent[p].reconnecting /\ ~ IsParent(k)
           z == parent[p].authorised \/ IsParent(k)
           r == AuthorisedRec(parent[p], x, y, z)
           now == IF IsParent(k) THEN "alive" ELSE "made"
<1>1. /\ GenTypes /\ Fresh /\ Agreed /\ StratTypes /\ ParentTypes
      /\ session \in [Keys -> SessionState] /\ linked \subseteq Keys
  BY BeforeFacts
<1>2. p \in Proxies /\ IsParentRec(parent[p]) /\ parent[p].count \in Nat
  BY BeforeFacts, KeyFacts
<1>3. /\ session[k] = "auth" /\ session' = [session EXCEPT ![k] = now]
      /\ UNCHANGED <<linked, closed, toStrat>>
  BY DEF Authorised, links
<1>4. parent' = [parent EXCEPT ![p] = r]
  <2>1. parent' = [parent EXCEPT ![p].recruit = x, ![p].reconnecting = y,
                                 ![p].authorised = z]
    BY Zenon DEF Authorised
  <2> HIDE DEF x, y, z
  <2> DEFINE f == [parent EXCEPT ![p].recruit = x]
             g == [f EXCEPT ![p].reconnecting = y]
             s == [parent[p] EXCEPT !.recruit = x]
             t == [s EXCEPT !.reconnecting = y]
  <2>2. parent' = [g EXCEPT ![p].authorised = z] /\ r = [t EXCEPT !.authorised = z]
    BY <2>1 DEF AuthorisedRec
  <2>3. f = [q \in Proxies |-> IF q = p THEN s ELSE parent[q]]
    BY <1>1, <1>2 DEF ParentTypes
  <2> HIDE DEF f, s
  <2>4. g = [q \in Proxies |-> IF q = p THEN t ELSE parent[q]]
    BY <1>2, <2>3
  <2> HIDE DEF g, t, r
  <2>5. parent' = [q \in Proxies |-> IF q = p THEN r ELSE parent[q]]
    BY <1>2, <2>2, <2>4
  <2>6. [parent EXCEPT ![p] = r] = [q \in Proxies |-> IF q = p THEN r ELSE parent[q]]
    <3>1. parent = [q \in Proxies |-> parent[q]]
      BY <1>1 DEF ParentTypes
    <3> QED
      BY <1>2, <3>1
  <2> QED
    BY <2>5, <2>6, Zenon
<1>5. Same(parent[p], r) /\ r.count = parent[p].count
  BY <1>2, EditAuthorised
<1> HIDE DEF r
<1>6. ParentTypes' /\ ParentsStay
  <2>1. r.count >= parent[p].count
    BY <1>2, <1>5
  <2> QED
    BY <1>1, <1>2, <1>4, <1>5, <2>1, ParentKept, Zenon
<1>7. session' \in [Keys -> SessionState] /\ session'[k] = now
      /\ \A j \in Keys : j # k => session'[j] = session[j]
  BY <1>1, <1>3 DEF SessionState
<1>8. GenTypes'
  BY <1>1, <1>3, <1>6, <1>7 DEF GenTypes
<1>9. SessionsStay
  BY <1>1, <1>3, <1>7 DEF SessionsStay, Fresh
<1>10. \A j \in Keys : Unmoved(j)
  <2>1. \A j \in Keys : Taken(j)' <=> Taken(j)
    BY <1>3, Quiet
  <2> QED
    BY <1>3, <1>7, <2>1 DEF Unmoved, Up
<1>11. toStrat' \in Seq(ToStrat)
  BY <1>1, <1>3 DEF StratTypes
<1> QED
  BY <1>1, <1>6, <1>8, <1>9, <1>10, <1>11, GenKeeps DEF GenGoal

LEMMA RecruitedKeeps ==
    ASSUME GenBefore, UNCHANGED <<loop, proxy>>, NEW k \in Keys, Recruited(k)
    PROVE  GenGoal
<1>1. /\ GenTypes /\ Fresh /\ Agreed /\ StratTypes
      /\ session \in [Keys -> SessionState] /\ linked \subseteq Keys
  BY BeforeFacts
<1>2. /\ session[k] \in {"made", "lost"} /\ linked' = linked \union {k}
      /\ RecruitMore(k, TRUE) /\ UNCHANGED <<closed, toStrat>>
  BY DEF Recruited, links
<1>3. ~ IsParent(k)
  BY <1>1, <1>2 DEF Fresh
<1>4. /\ ParentTypes' /\ ParentsStay /\ session' \in [Keys -> SessionState]
      /\ session'[k] = IF session[k] = "made" THEN "alive" ELSE session[k]
      /\ \A j \in Keys \ {k} :
           \/ session'[j] = session[j]
           \/ /\ session[j] = "none" /\ session'[j] = "idle" /\ ~ IsParent(j)
              /\ j[2] <= parent'[j[1]].count
  BY <1>1, <1>2, <1>3, RecruitMoreIs
<1>5. GenTypes'
  BY <1>1, <1>2, <1>4 DEF GenTypes
<1>6. SessionsStay
  BY <1>1, <1>2, <1>3, <1>4 DEF SessionsStay, Fresh
<1>7. \A j \in Keys : Unmoved(j)
  <2>1. \A j \in Keys : Taken(j)' <=> Taken(j)
    BY <1>2, Quiet
  <2> QED
    BY <1>2, <1>4, <2>1 DEF Unmoved, Up, Down
<1>8. toStrat' \in Seq(ToStrat)
  BY <1>1, <1>2 DEF StratTypes
<1> QED
  BY <1>1, <1>4, <1>5, <1>6, <1>7, <1>8, GenKeeps DEF GenGoal

LEMMA NotifyKeeps ==
    ASSUME GenBefore, UNCHANGED <<loop, proxy>>, NEW k \in Keys, Notify(k)
    PROVE  GenGoal
<1>1. /\ GenTypes /\ Fresh /\ Agreed /\ StratTypes
      /\ session \in [Keys -> SessionState] /\ linked \subseteq Keys
  BY BeforeFacts
<1>2. Send(<<Msg("notify", k)>>) /\ UNCHANGED <<parent, session, linked, closed>>
  BY DEF Notify, genVars
<1>3. toStrat' \in Seq(ToStrat) /\ \A j \in Keys : Taken(j)' <=> Taken(j)
  BY <1>1, <1>2, OneSent
<1>4. ParentTypes' /\ ParentsStay
  BY <1>1, <1>2, ParentSame
<1>5. GenTypes'
  BY <1>1, <1>2, <1>4 DEF GenTypes
<1>6. SessionsStay
  BY <1>1, <1>2 DEF SessionsStay, Fresh
<1>7. \A j \in Keys : Unmoved(j)
  BY <1>2, <1>3 DEF Unmoved
<1> QED
  BY <1>1, <1>3, <1>4, <1>5, <1>6, <1>7, GenKeeps DEF GenGoal

\* disable_subproxy
LEMMA DisableKeeps ==
    ASSUME GenBefore, UNCHANGED <<loop, proxy>>, NEW k \in Keys, NEW keep, Disable(k, keep),
           IsParent(k) => parent[k[1]].made,
           NEW p \in Proxies, NEW r, Same(parent[p], r), r.count >= parent[p].count,
           keep = [parent EXCEPT ![p] = r]
    PROVE  GenGoal
<1>1. /\ GenTypes /\ Fresh /\ Agreed /\ StratTypes
      /\ session \in [Keys -> SessionState] /\ linked \subseteq Keys
  BY BeforeFacts
<1>2. /\ linked' \subseteq Keys /\ parent' = keep
      /\ closed' = IF session[k] = "auth" THEN closed \union {k} ELSE closed \ {k}
      /\ \/ Send(<<Msg("dead", k)>>)
         \/ Send(<<Msg("dead", k), Msg("dead", k)>>)
  BY <1>1 DEF Disable
<1>3. ParentTypes' /\ ParentsStay
  BY <1>1, <1>2, ParentKept, Zenon
<1>4. /\ session' \in [Keys -> SessionState]
      /\ \A j \in Keys : j # k => session'[j] = session[j]
      /\ session'[k] \in {"auth", "none", "lost", "idle"}
      /\ session'[k] = "auth" => session[k] = "auth"
      /\ ~ IsParent(k) => session'[k] = "none" \/ session[k] # "none"
      /\ IsParent(k) => session'[k] \in {"auth", "idle"}
  <2> DEFINE new == CASE session[k] = "auth" -> session[k]
                      [] session[k] = "made" -> "lost"
                      [] IsParent(k) /\ session[k] # "auth" -> "idle"
                      [] OTHER -> "none"
  <2>1. session' = [session EXCEPT ![k] = new]
    BY DEF Disable
  <2>2. CASE IsParent(k)
    <3>1. session[k] \in {"none", "idle", "auth", "alive"}
      BY <1>1, <2>2 DEF Fresh
    <3>2. new \in {"auth", "idle"} /\ (new = "auth" => session[k] = "auth")
      BY <2>2, <3>1
    <3> HIDE DEF new
    <3> QED
      BY <1>1, <2>1, <2>2, <3>2 DEF SessionState
  <2>3. CASE ~ IsParent(k)
    <3>1. /\ new \in {"auth", "none", "lost"} /\ (new = "auth" => session[k] = "auth")
          /\ new = "none" \/ session[k] # "none"
      BY <2>3
    <3> HIDE DEF new
    <3> QED
      BY <1>1, <2>1, <2>3, <3>1 DEF SessionState
  <2> QED
    BY <2>2, <2>3
<1>5. /\ toStrat' \in Seq(ToStrat) /\ ~ Taken(k)'
      /\ \A j \in Keys : j # k => (Taken(j)' <=> Taken(j))
  BY <1>1, <1>2, OneSent, TwoSent
<1>6. GenTypes'
  BY <1>1, <1>2, <1>3, <1>4 DEF GenTypes
<1>7. SessionsStay
  <2>1. IsParent(k) => parent'[k[1]].made
    BY <1>3, KeyFacts DEF ParentsStay
  <2> QED
    BY <1>1, <1>4, <2>1 DEF SessionsStay, Fresh
<1>8. \A j \in Keys : Unmoved(j) \/ GoesDown(j)
  BY <1>2, <1>4, <1>5 DEF Unmoved, GoesDown, Down
<1> QED
  BY <1>1, <1>3, <1>5, <1>6, <1>7, <1>8, GenKeeps DEF GenGoal

LEMMA HangUpsKeep ==
    ASSUME GenBefore, UNCHANGED <<loop, proxy>>, NEW k \in Keys,
           HangUp(k) \/ UserHangUp(k) \/ (\E e \in BOOLEAN : UpstreamReconnect(k, e))
    PROVE  GenGoal
<1> DEFINE p == k[1]
           r == [parent[p] EXCEPT !.count = parent[p].count + 1]
<1>1. /\ p \in Proxies /\ IsParentRec(parent[p]) /\ parent[p].count \in Nat /\ ParentTypes
      /\ IsParent(k) => k = Key(p)
  BY BeforeFacts, KeyFacts
<1>2. session[k] # "none"
  BY DEF HangUp, UserHangUp, UpstreamReconnect, Hears, Alive
<1>3. IsParent(k) => parent[p].made
  BY <1>1, <1>2, BeforeFacts
<1>4. \/ Disable(k, parent)
      \/ Disable(k, [parent EXCEPT ![p].count = @ + 1])
  BY DEF HangUp, UserHangUp, UpstreamReconnect
<1>5. CASE Disable(k, parent)
  <2>1. parent = [parent EXCEPT ![p] = parent[p]]
    BY <1>1 DEF ParentTypes
  <2>2. Same(parent[p], parent[p]) /\ parent[p].count >= parent[p].count
    BY <1>1 DEF Same
  <2> QED
    BY <1>1, <1>2, <1>3, <1>5, <2>1, <2>2, DisableKeeps, Zenon
<1>6. CASE Disable(k, [parent EXCEPT ![p].count = @ + 1])
  <2>1. [parent EXCEPT ![p].count = @ + 1] = [parent EXCEPT ![p] = r]
    BY <1>1 DEF ParentTypes
  <2>2. Same(parent[p], r) /\ r.count = parent[p].count + 1
    BY <1>1, EditCount
  <2>3. r.count >= parent[p].count
    BY <1>1, <2>2
  <2> QED
    BY <1>1, <1>2, <1>3, <1>6, <2>1, <2>2, <2>3, DisableKeeps, Zenon
<1> QED
  BY <1>4, <1>5, <1>6

LEMMA DisableProxyKeeps ==
    ASSUME GenBefore, UNCHANGED <<loop, proxy>>, NEW p \in Proxies, DisableProxy(p)
    PROVE  GenGoal
<1> DEFINE k == Key(p)
           r == [parent[p] EXCEPT !.disabled = TRUE]
<1>1. /\ k \in Keys /\ IsParent(k) /\ k[1] = p /\ ParentTypes
      /\ IsParentRec(parent[p]) /\ parent[p].count \in Nat
  BY BeforeFacts, KeyFacts
<1>2. parent[p].listed /\ Disable(k, [parent EXCEPT ![p].disabled = TRUE])
  BY DEF DisableProxy
<1>3. parent[k[1]].made
  BY <1>1, <1>2, BeforeFacts
<1>4. [parent EXCEPT ![p].disabled = TRUE] = [parent EXCEPT ![p] = r]
  BY <1>1 DEF ParentTypes
<1>5. Same(parent[p], r) /\ r.count = parent[p].count
  BY <1>1, EditDisabled
<1>6. r.count >= parent[p].count
  BY <1>1, <1>5
<1> HIDE DEF r, k
<1> QED
  BY <1>1, <1>2, <1>3, <1>4, <1>5, <1>6, DisableKeeps, Zenon

LEMMA ParentStepsKeep ==
    ASSUME GenBefore, UNCHANGED <<loop, proxy>>, NEW p \in Proxies,
           Reconnect(p) \/ SetupRefused(p) \/ EnableProxy(p)
    PROVE  GenGoal
<1>1. ParentTypes /\ IsParentRec(parent[p])
  BY BeforeFacts
<1>2. UNCHANGED <<toStrat, session, linked, closed>>
  BY DEF Reconnect, SetupRefused, EnableProxy, links
<1>3. CASE Reconnect(p) \/ SetupRefused(p)
  <2>1. PICK b \in BOOLEAN : parent' = [parent EXCEPT ![p].reconnecting = b]
    BY <1>3 DEF Reconnect, SetupRefused
  <2> DEFINE r == [parent[p] EXCEPT !.reconnecting = b]
  <2>2. parent' = [parent EXCEPT ![p] = r]
    BY <2>1
  <2>3. Same(parent[p], r) /\ r.count = parent[p].count
    BY <1>1, EditReconnecting
  <2> HIDE DEF r
  <2> QED
    BY <1>2, <2>2, <2>3, ParentOnly, Zenon
<1>4. CASE EnableProxy(p)
  <2> DEFINE b == parent[p].reconnecting \/ session[Key(p)] = "idle"
             r == [parent[p] EXCEPT !.disabled = FALSE, !.reconnecting = b]
             f == [parent EXCEPT ![p].disabled = FALSE]
             s == [parent[p] EXCEPT !.disabled = FALSE]
  <2>1. parent' = [parent EXCEPT ![p].disabled = FALSE, ![p].reconnecting = b]
    BY <1>4, Zenon DEF EnableProxy
  <2> HIDE DEF b
  <2>2. parent' = [f EXCEPT ![p].reconnecting = b] /\ r = [s EXCEPT !.reconnecting = b]
    BY <2>1
  <2>3. f = [q \in Proxies |-> IF q = p THEN s ELSE parent[q]]
    BY <1>1 DEF ParentTypes
  <2>4. Same(parent[p], r) /\ r.count = parent[p].count
    BY <1>1, EditEnabled
  <2> HIDE DEF f, s, r
  <2>5. parent' = [q \in Proxies |-> IF q = p THEN r ELSE parent[q]]
    BY <2>2, <2>3
  <2>6. [parent EXCEPT ![p] = r] = [q \in Proxies |-> IF q = p THEN r ELSE parent[q]]
    <3>1. parent = [q \in Proxies |-> parent[q]]
      BY <1>1 DEF ParentTypes
    <3> QED
      BY <3>1
  <2>7. parent' = [parent EXCEPT ![p] = r]
    BY <2>5, <2>6, Zenon
  <2> QED
    BY <1>2, <2>4, <2>7, ParentOnly, Zenon
<1> QED
  BY <1>3, <1>4

\* Nothing changes that the invariant speaks of.
LEMMA NothingMoves ==
    ASSUME GenBefore, UNCHANGED <<loop, proxy, toStrat, session, linked, closed, parent>>
    PROVE  GenGoal
<1>1. /\ GenTypes /\ Fresh /\ Agreed /\ StratTypes
      /\ session \in [Keys -> SessionState] /\ linked \subseteq Keys
  BY BeforeFacts
<1>2. ParentTypes' /\ ParentsStay
  BY <1>1, ParentSame
<1>3. GenTypes'
  BY <1>1, <1>2 DEF GenTypes
<1>4. SessionsStay
  BY <1>1 DEF SessionsStay, Fresh
<1>5. \A j \in Keys : Unmoved(j)
  BY Quiet DEF Unmoved
<1>6. toStrat' \in Seq(ToStrat)
  BY <1>1 DEF StratTypes
<1> QED
  BY <1>1, <1>2, <1>3, <1>4, <1>5, <1>6, GenKeeps DEF GenGoal

LEMMA NotInDomain ==
    ASSUME NEW S, NEW f, f = [q \in S |-> f[q]], NEW p, p \notin S, NEW x
    PROVE  [f EXCEPT ![p] = x] = f
  OBVIOUS

LEMMA RecruitKeeps ==
    ASSUME GenBefore, UNCHANGED <<loop, proxy>>, Recruit
    PROVE  GenGoal
<1> DEFINE p == Head(toGen).id
           x == IF parent[p].recruit < Head(toGen).recruits THEN Head(toGen).recruits
                ELSE parent[p].recruit
           rec == [parent[p] EXCEPT !.recruit = x]
           n == rec.count + 1
           r == [rec EXCEPT !.count = n]
           y == IF parent[p].recruit = 0 THEN 0 ELSE rec.recruit
           s == [parent[p] EXCEPT !.recruit = y]
<1>1. /\ GenTypes /\ Fresh /\ Agreed /\ StratTypes /\ ParentTypes
      /\ session \in [Keys -> SessionState] /\ linked \subseteq Keys
  BY BeforeFacts
<1>2. /\ UNCHANGED <<linked, closed, toStrat>>
      /\ \/ UNCHANGED <<parent, session>>
         \/ /\ parent' = [parent EXCEPT ![p] = r]
            /\ session' = [session EXCEPT ![<<p, n>>] = "idle"]
            /\ parent[p].count < MaxSub[p]
         \/ parent' = [parent EXCEPT ![p].recruit = y] /\ UNCHANGED session
  BY Zenon DEF Recruit, Create
<1> HIDE DEF x, y
<1>3. CASE UNCHANGED <<parent, session>>
  BY <1>2, <1>3, NothingMoves
<1>4. CASE p \notin Proxies
  <2>1. parent = [q \in Proxies |-> parent[q]] /\ session = [k \in Keys |-> session[k]]
    BY <1>1 DEF ParentTypes
  <2>2. <<p, n>> \notin Keys
    BY <1>4, NoKeyElse
  <2>3. [parent EXCEPT ![p].recruit = y] = [parent EXCEPT ![p] = s]
    OBVIOUS
  <2> HIDE DEF p, r, n, s
  <2>4. [parent EXCEPT ![p] = r] = parent /\ [parent EXCEPT ![p] = s] = parent
    BY <1>4, <2>1, NotInDomain
  <2>5. [session EXCEPT ![<<p, n>>] = "idle"] = session
    BY <2>1, <2>2, NotInDomain
  <2>6. UNCHANGED <<parent, session>>
    BY <1>2, <2>3, <2>4, <2>5
  <2> QED
    BY <1>3, <2>6
<1>5. CASE /\ p \in Proxies /\ parent' = [parent EXCEPT ![p] = r]
           /\ session' = [session EXCEPT ![<<p, n>>] = "idle"]
           /\ parent[p].count < MaxSub[p]
  <2> DEFINE c == parent[p].count
  <2>1. IsParentRec(parent[p]) /\ c \in Nat /\ MaxSub[p] \in Nat
    BY <1>5, BeforeFacts, KeyFacts
  <2> HIDE DEF p
  <2>2. Same(parent[p], rec) /\ rec.count = c
    BY <2>1, EditRecruit
  <2> HIDE DEF rec
  <2>3. n \in Nat /\ n = c + 1 /\ IsParentRec(rec)
    BY <2>1, <2>2 DEF Same
  <2> HIDE DEF n
  <2>4. Same(rec, r) /\ r.count = n
    BY <2>3, EditCount
  <2>5. Same(parent[p], r) /\ r.count >= parent[p].count
    BY <2>1, <2>2, <2>3, <2>4 DEF Same
  <2> HIDE DEF r
  <2>6. ParentTypes' /\ ParentsStay /\ parent'[p] = r
    BY <1>1, <1>5, <2>5, ParentKept, Zenon
  <2> DEFINE k == <<p, n>>
  <2>7. k \in Keys /\ ~ IsParent(k) /\ k[1] = p /\ k[2] = n
    BY <1>5, <2>1, <2>3, KeyFacts DEF IsParent
  <2>8. session[k] = "none"
    BY <1>1, <2>1, <2>3, <2>7 DEF Fresh
  <2> HIDE DEF k
  <2>9. /\ session' \in [Keys -> SessionState] /\ session'[k] = "idle"
        /\ \A j \in Keys : j # k => session'[j] = session[j]
    <3>1. session' = [session EXCEPT ![k] = "idle"]
      BY <1>5 DEF k
    <3> QED
      BY <1>1, <2>7, <3>1 DEF SessionState
  <2>10. GenTypes'
    BY <1>1, <1>2, <2>6, <2>9 DEF GenTypes
  <2>11. SessionsStay
    <3>1. k[2] <= parent'[k[1]].count
      BY <2>3, <2>4, <2>6, <2>7
    <3> QED
      BY <1>1, <2>7, <2>8, <2>9, <3>1 DEF SessionsStay, Fresh
  <2>12. \A j \in Keys : Unmoved(j)
    <3>1. closed' = closed /\ \A j \in Keys : Taken(j)' <=> Taken(j)
      BY <1>2, Quiet
    <3> QED
      BY <2>8, <2>9, <3>1 DEF Unmoved, Down
  <2>13. toStrat' \in Seq(ToStrat)
    BY <1>1, <1>2 DEF StratTypes
  <2> QED
    BY <1>1, <2>6, <2>10, <2>11, <2>12, <2>13, GenKeeps DEF GenGoal
<1>6. CASE /\ p \in Proxies /\ parent' = [parent EXCEPT ![p].recruit = y] /\ UNCHANGED session
  <2>1. IsParentRec(parent[p])
    BY <1>6, BeforeFacts
  <2>2. parent' = [parent EXCEPT ![p] = s]
    BY <1>6
  <2> HIDE DEF p
  <2>3. Same(parent[p], s) /\ s.count = parent[p].count
    BY <2>1, EditRecruit
  <2> HIDE DEF s
  <2> QED
    BY <1>2, <1>6, <2>2, <2>3, ParentOnly, Zenon
<1> QED
  BY <1>2, <1>3, <1>4, <1>5, <1>6

\* addproxy: the parent is made, and listed.
MadeRec(r, x, y) == [r EXCEPT !.made = x, !.listed = y]

LEMMA EditMade ==
    ASSUME NEW r, IsParentRec(r), NEW x, NEW y
    PROVE  /\ x \in BOOLEAN /\ y \in BOOLEAN => IsParentRec(MadeRec(r, x, y))
           /\ MadeRec(r, x, y).made = x
           /\ MadeRec(r, x, y).count = r.count
<1> DEFINE s == MadeRec(r, x, y)
           q == [r EXCEPT !.made = x]
<1>1. PICK a, b, c, d, e, f, n : /\ a \in BOOLEAN /\ b \in BOOLEAN /\ n \in Nat
                                 /\ r = ParentOf(a, b, c, d, e, f, n)
  BY DEF IsParentRec
<1>2. q = ParentOf(x, b, c, d, e, f, n)
  BY <1>1 DEF ParentOf
<1>3. s = [q EXCEPT !.listed = y]
  BY DEF MadeRec
<1> HIDE DEF s, q
<1>4. s = ParentOf(x, y, c, d, e, f, n)
  BY <1>2, <1>3 DEF ParentOf
<1>5. r.count = n /\ s.made = x /\ s.count = n
  BY <1>1, <1>4, FieldsOf
<1>6. x \in BOOLEAN /\ y \in BOOLEAN => IsParentRec(s)
  BY <1>1, <1>4 DEF IsParentRec
<1> QED
  BY <1>5, <1>6 DEF s

LEMMA AddProxyKeeps ==
    ASSUME GenBefore, UNCHANGED <<loop, proxy>>, NEW p \in Proxies, AddProxy(p)
    PROVE  GenGoal
<1> DEFINE k == Key(p)
           r == [parent[p] EXCEPT !.made = TRUE, !.listed = TRUE]
<1>1. /\ GenTypes /\ Fresh /\ Agreed /\ StratTypes /\ ParentTypes
      /\ session \in [Keys -> SessionState] /\ linked \subseteq Keys
      /\ IsParentRec(parent[p]) /\ parent[p].count \in Nat
  BY BeforeFacts
<1>2. k \in Keys /\ IsParent(k) /\ k[1] = p
  BY KeyFacts
<1>3. /\ ~ parent[p].made /\ session' = [session EXCEPT ![k] = "idle"]
      /\ linked' = linked \union {k} /\ UNCHANGED <<closed, toStrat>>
      /\ parent' = [parent EXCEPT ![p].made = TRUE, ![p].listed = TRUE]
  BY DEF AddProxy, links
<1>4. session[k] = "none"
  BY <1>3, BeforeFacts
<1>5. parent' = [parent EXCEPT ![p] = r]
  <2> DEFINE f == [parent EXCEPT ![p].made = TRUE]
             s == [parent[p] EXCEPT !.made = TRUE]
  <2>1. parent' = [f EXCEPT ![p].listed = TRUE] /\ r = [s EXCEPT !.listed = TRUE]
    BY <1>3
  <2>2. f = [q \in Proxies |-> IF q = p THEN s ELSE parent[q]]
    BY <1>1 DEF ParentTypes
  <2> HIDE DEF f, s, r
  <2>3. parent' = [q \in Proxies |-> IF q = p THEN r ELSE parent[q]]
    BY <2>1, <2>2
  <2>4. [parent EXCEPT ![p] = r] = [q \in Proxies |-> IF q = p THEN r ELSE parent[q]]
    <3>1. parent = [q \in Proxies |-> parent[q]]
      BY <1>1 DEF ParentTypes
    <3> QED
      BY <3>1
  <2> QED
    BY <2>3, <2>4, Zenon
<1>6. IsParentRec(r) /\ r.made /\ r.count = parent[p].count
  <2>1. PICK x \in BOOLEAN : x = TRUE
    OBVIOUS
  <2>2. r = MadeRec(parent[p], x, x)
    BY <2>1 DEF MadeRec
  <2> HIDE DEF r
  <2>3. IsParentRec(r) /\ r.made = x /\ r.count = parent[p].count
    BY <1>1, <2>2, EditMade
  <2> QED
    BY <2>1, <2>3
<1> HIDE DEF r
<1>7. ParentTypes' /\ ParentsStay /\ parent'[p] = r
  <2>1. r.count >= parent[p].count /\ r.made
    BY <1>1, <1>6
  <2> QED
    BY <1>1, <1>5, <1>6, <2>1, ParentField, Zenon
<1>8. session' \in [Keys -> SessionState] /\ session'[k] = "idle"
      /\ \A j \in Keys : j # k => session'[j] = session[j]
  BY <1>1, <1>2, <1>3 DEF SessionState
<1>9. GenTypes'
  BY <1>1, <1>2, <1>3, <1>7, <1>8 DEF GenTypes
<1>10. SessionsStay
  <2>1. parent'[k[1]].made
    BY <1>2, <1>6, <1>7
  <2> HIDE DEF k
  <2> QED
    BY <1>1, <1>2, <1>8, <2>1 DEF SessionsStay, Fresh
<1>11. \A j \in Keys : Unmoved(j)
  <2>1. \A j \in Keys : Taken(j)' <=> Taken(j)
    BY <1>3, Quiet
  <2> QED
    BY <1>3, <1>4, <1>8, <2>1 DEF Unmoved, Down
<1>12. toStrat' \in Seq(ToStrat)
  BY <1>1, <1>3 DEF StratTypes
<1> QED
  BY <1>1, <1>7, <1>9, <1>10, <1>11, <1>12, GenKeeps DEF GenGoal

\* The session of subid k[2] comes in its place in the order of the hash list.
Place(S, k) == Cardinality({j \in S : j[2] <= k[2]})

LEMMA PlacesAll ==
    ASSUME NEW p \in Proxies, NEW S \in SUBSET Keys, \A k \in S : k[1] = p
    PROVE  /\ Cardinality(S) \in Nat
           /\ \A k \in S : Place(S, k) \in 1..Cardinality(S)
           /\ \A i \in 1..Cardinality(S) : \E k \in S : Place(S, k) = i
           /\ \A k, j \in S : Place(S, k) = Place(S, j) => k = j
<1> DEFINE n == Cardinality(S)
           T == 1..n
           f == [k \in S |-> Place(S, k)]
           g == [k \in S |-> k[2]]
           upTo(k) == {j \in S : j[2] <= k[2]}
<1>1. /\ \A k \in S : k[2] \in Nat /\ k[2] <= MaxSub[p] /\ k = <<p, k[2]>>
      /\ MaxSub[p] \in Nat
  BY KeyFacts
<1>2. IsFiniteSet(S)
  <2>1. g \in Injection(S, 0..MaxSub[p])
    <3>1. g \in [S -> 0..MaxSub[p]]
      BY <1>1
    <3>2. \A k, j \in S : g[k] = g[j] => k = j
      BY <1>1
    <3> QED
      BY <3>1, <3>2 DEF Injection, IsInjective
  <2>2. IsFiniteSet(0..MaxSub[p])
    BY <1>1, FS_Interval
  <2> QED
    BY <2>1, <2>2, FS_Injection
<1>3. n \in Nat
  BY <1>2, FS_CardinalityType
<1>4. \A k \in S : /\ IsFiniteSet(upTo(k)) /\ k \in upTo(k) /\ upTo(k) \subseteq S
                   /\ Place(S, k) = Cardinality(upTo(k))
  <2> TAKE k \in S
  <2>1. k \in upTo(k) /\ upTo(k) \in SUBSET S
    BY <1>1
  <2>2. IsFiniteSet(upTo(k))
    BY <1>2, <2>1, FS_Subset
  <2> QED
    BY <2>1, <2>2 DEF Place
<1>5. \A k \in S : Place(S, k) \in T
  <2> TAKE k \in S
  <2> DEFINE U == upTo(k)
  <2>1. IsFiniteSet(U) /\ U # {} /\ U \in SUBSET S /\ Place(S, k) = Cardinality(U)
    BY <1>4
  <2> HIDE DEF U
  <2>2. Cardinality(U) \in Nat /\ Cardinality(U) # 0
    BY <2>1, FS_CardinalityType, FS_EmptySet
  <2>3. Cardinality(U) <= n
    BY <1>2, <2>1, FS_Subset
  <2> QED
    BY <1>3, <2>1, <2>2, <2>3
<1>6. ASSUME NEW k \in S, NEW j \in S, Place(S, k) = Place(S, j), k[2] <= j[2]
      PROVE  k = j
  <2> DEFINE U == upTo(k)
             V == upTo(j)
  <2>1. U \in SUBSET V
    BY <1>1, <1>6
  <2>2. IsFiniteSet(V) /\ Cardinality(U) = Cardinality(V)
    BY <1>4, <1>6
  <2>3. j \in V /\ (j \in U => j[2] <= k[2])
    BY <1>4
  <2> HIDE DEF U, V
  <2>4. U = V
    BY <2>1, <2>2, FS_Subset
  <2>5. j[2] <= k[2]
    BY <2>3, <2>4
  <2> QED
    BY <1>1, <1>6, <2>5
<1>7. \A k, j \in S : Place(S, k) = Place(S, j) => k = j
  <2>1. \A k, j \in S : k[2] <= j[2] \/ j[2] <= k[2]
    BY <1>1
  <2> QED
    BY <1>6, <2>1
<1>8. f \in Surjection(S, T)
  <2>1. f \in [S -> T]
    BY <1>5
  <2>2. f \in Injection(S, T)
    BY <1>7, <2>1 DEF Injection, IsInjective
  <2>3. IsFiniteSet(T) /\ Cardinality(T) = n
    BY <1>3, FS_Interval
  <2> HIDE DEF f, T
  <2> QED
    BY <2>2, <2>3, FS_Injection
<1>9. \A i \in T : \E k \in S : Place(S, k) = i
  BY <1>8 DEF Surjection
<1> QED
  BY <1>3, <1>5, <1>7, <1>9

LEMMA DeleteProxyKeeps ==
    ASSUME GenBefore, UNCHANGED <<loop, proxy>>, NEW p \in Proxies, DeleteProxy(p)
    PROVE  GenGoal
<1> DEFINE mine == {k \in linked : k[1] = p}
           N == Cardinality(mine)
           order == [i \in 1..N |-> CHOOSE k \in mine : Place(mine, k) = i]
           ms == [i \in DOMAIN order |-> Msg("del", order[i])]
           r == [parent[p] EXCEPT !.listed = FALSE]
<1>1. /\ GenTypes /\ Fresh /\ Agreed /\ StratTypes /\ ParentTypes
      /\ session \in [Keys -> SessionState] /\ linked \subseteq Keys
      /\ IsParentRec(parent[p]) /\ parent[p].count \in Nat
  BY BeforeFacts
<1>2. /\ parent' = [parent EXCEPT ![p].listed = FALSE]
      /\ session' = [k \in Keys |-> IF k \in mine THEN "none" ELSE session[k]]
      /\ linked' = linked \ mine /\ closed' = closed \ mine
      /\ Send(ms)
  BY Zenon DEF DeleteProxy, Place
<1>3. mine \in SUBSET Keys /\ \A k \in mine : k[1] = p
  BY <1>1
<1> HIDE DEF mine
<1>4. /\ N \in Nat /\ \A i \in 1..N : \E k \in mine : Place(mine, k) = i
      /\ \A k \in mine : Place(mine, k) \in 1..N
      /\ \A k, j \in mine : Place(mine, k) = Place(mine, j) => k = j
  BY <1>3, PlacesAll
<1> HIDE DEF N
<1>5. DOMAIN order = 1..N /\ \A i \in 1..N : order[i] \in mine /\ Place(mine, order[i]) = i
  BY <1>4, Zenon
<1> HIDE DEF order
<1>6. /\ ms \in Seq(ToStrat) /\ Len(ms) = N
      /\ \A i \in 1..N : ms[i].k = order[i] /\ ms[i].t = "del"
  <2>1. \A i \in 1..N : /\ Msg("del", order[i]) \in ToStrat
                        /\ Msg("del", order[i]).t = "del" /\ Msg("del", order[i]).k = order[i]
    BY <1>3, <1>5, MsgType
  <2>2. ms = [i \in 1..N |-> Msg("del", order[i])]
    BY <1>5
  <2> HIDE DEF ms
  <2> QED
    BY <1>4, <2>1, <2>2
<1> HIDE DEF ms
<1>7. toStrat' = toStrat \o ms
  BY <1>2 DEF Send
<1>8. toStrat' \in Seq(ToStrat)
  BY <1>1, <1>6, <1>7, ConcatProperties DEF StratTypes
<1>9. ASSUME NEW k \in Keys PROVE IF k \in mine THEN ~ Taken(k)' ELSE (Taken(k)' <=> Taken(k))
  <2>1. CASE k \in mine
    <3> DEFINE i == Place(mine, k)
    <3>1. i \in 1..N /\ order[i] = k
      BY <1>4, <1>5, <2>1
    <3>2. /\ \E l \in 1..Len(ms) : ms[l].k = k /\ ms[l].t # "notify"
          /\ \A l \in 1..Len(ms) : ms[l].k = k => ms[l].t # "subscribe"
      BY <1>6, <3>1
    <3> QED
      BY <1>1, <1>6, <1>7, <2>1, <3>2, Appended
  <2>2. CASE k \notin mine
    <3>1. \A l \in 1..Len(ms) : ms[l].k # k \/ ms[l].t = "notify"
      BY <1>5, <1>6, <2>2
    <3> QED
      BY <1>1, <1>6, <1>7, <2>2, <3>1, Appended
  <2> QED
    BY <2>1, <2>2
<1>10. session' \in [Keys -> SessionState]
       /\ \A k \in Keys : session'[k] = IF k \in mine THEN "none" ELSE session[k]
  BY <1>1, <1>2 DEF SessionState
<1>11. parent' = [parent EXCEPT ![p] = r]
  BY <1>2
<1>12. IsParentRec(r) /\ (r.made <=> parent[p].made) /\ ~ r.listed /\ r.count = parent[p].count
  <2>1. PICK a, b, c, d, e, f, n : /\ a \in BOOLEAN /\ b \in BOOLEAN /\ n \in Nat
                                   /\ parent[p] = ParentOf(a, b, c, d, e, f, n)
    BY <1>1 DEF IsParentRec
  <2>2. PICK x \in BOOLEAN : x = FALSE
    OBVIOUS
  <2>3. r = ParentOf(a, x, c, d, e, f, n)
    <3>1. \A y : [parent[p] EXCEPT !.listed = y] = ParentOf(a, y, c, d, e, f, n)
      BY <2>1 DEF ParentOf
    <3>2. r = [parent[p] EXCEPT !.listed = x]
      BY <2>2
    <3> HIDE DEF r
    <3> QED
      BY <3>1, <3>2, Zenon
  <2> HIDE DEF r
  <2>4. /\ parent[p].made = a /\ parent[p].count = n
        /\ r.made = a /\ r.listed = x /\ r.count = n
    BY <2>1, <2>3, FieldsOf
  <2>5. IsParentRec(r)
    BY <2>1, <2>2, <2>3 DEF IsParentRec
  <2> QED
    BY <2>2, <2>4, <2>5
<1> HIDE DEF r
<1>13. ParentTypes' /\ ParentsStay
  <2>1. r.count >= parent[p].count /\ (parent[p].made => r.made) /\ (r.listed => r.made)
    BY <1>1, <1>12
  <2> QED
    BY <1>1, <1>11, <1>12, <2>1, ParentField, Zenon
<1>14. GenTypes'
  BY <1>1, <1>2, <1>10, <1>13 DEF GenTypes
<1>15. SessionsStay
  BY <1>1, <1>10 DEF SessionsStay, Fresh
<1>16. \A k \in Keys : Unmoved(k) \/ GoesDown(k)
  BY <1>2, <1>9, <1>10 DEF Unmoved, GoesDown, Down
<1> QED
  BY <1>1, <1>8, <1>13, <1>14, <1>15, <1>16, GenKeeps DEF GenGoal

\* Every step of the generator.
LEMMA GenStep ==
    ASSUME GenBefore, UNCHANGED <<loop, proxy>>, GenNext
    PROVE  GenGoal
<1>1. CASE \E k \in Keys :
             \/ Subscribed(k) \/ SetupFailed(k) \/ Authorised(k) \/ Recruited(k)
             \/ Notify(k) \/ HangUp(k) \/ UserHangUp(k)
             \/ \E e \in BOOLEAN : UpstreamReconnect(k, e)
  BY <1>1, SubscribedKeeps, SetupFailedKeeps, AuthorisedKeeps, RecruitedKeeps,
     NotifyKeeps,
     HangUpsKeep, Zenon
<1>2. CASE Recruit
  BY <1>2, RecruitKeeps
<1>3. CASE \E p \in Proxies :
             \/ Reconnect(p) \/ SetupRefused(p) \/ AddProxy(p) \/ DisableProxy(p)
             \/ EnableProxy(p) \/ DeleteProxy(p)
  BY <1>3, ParentStepsKeep, AddProxyKeeps, DisableProxyKeeps, DeleteProxyKeeps, Zenon
<1>4. CASE \E p \in Proxies : PoolDown(p) \/ PoolUp(p)
  <2>1. UNCHANGED <<toStrat, session, linked, closed, parent>>
    BY <1>4 DEF PoolDown, PoolUp, genVars, links
  <2> QED
    BY <2>1, NothingMoves
<1> QED
  BY <1>1, <1>2, <1>3, <1>4, Zenon DEF GenNext

-----------------------------------------------------------------------------
(* The best proxy.                                                            *)

PrioTypes == prio \in [Proxies -> Nat]

\* Best and BestNow, of given priorities, proxies and owners.
Ahead(pr, p, q) == pr[p] < pr[q] \/ (pr[p] = pr[q] /\ p <= q)
BestOf(pr, S) == CHOOSE p \in S : \A q \in S : Ahead(pr, p, q)
AliveSet(px, ow) ==
    {p \in Proxies : ow[p] = 0 /\ px[Key(p)].subscribed /\ ProxyAlive(px, p)}
BestGiven(px, ow, pr) ==
    IF AliveSet(px, ow) = {} THEN NoProxy ELSE BestOf(pr, AliveSet(px, ow))

LEMMA ProxiesAre == Proxies \subseteq Nat /\ 0 \in Proxies
<1>1. Cardinality(Proxies) \in Nat /\ Proxies # {} /\ Proxies = 0..(Cardinality(Proxies) - 1)
  BY GeneratorProxiesAssumption, FS_CardinalityType
<1> QED
  BY <1>1

LEMMA HasLeast ==
    ASSUME NEW T \in SUBSET Nat, T # {}
    PROVE  \E m \in T : \A j \in T : m <= j
<1> DEFINE R == OpToRel(<, Nat)
<1>1. IsWellFoundedOn(R, Nat)
  BY NatLessThanWellFounded
<1>2. \A a, b \in Nat : a < b => <<a, b>> \in R
  BY DEF OpToRel
<1> HIDE DEF R
<1>3. PICK x \in T : \A y \in T : ~ (<<y, x>> \in R)
  <2>1. T \subseteq Nat
    OBVIOUS
  <2> QED
    BY <1>1, <2>1, WFMin, Zenon
<1>4. \A y \in T : x <= y
  <2> TAKE y \in T
  <2>1. x \in Nat /\ y \in Nat
    OBVIOUS
  <2>2. ~ (y < x)
    BY <1>2, <1>3, <2>1, Zenon
  <2> QED
    BY <2>1, <2>2
<1> QED
  BY <1>4

LEMMA BestOfIs ==
    ASSUME NEW pr \in [Proxies -> Nat], NEW S \in SUBSET Proxies, S # {}
    PROVE  /\ BestOf(pr, S) \in S /\ \A q \in S : Ahead(pr, BestOf(pr, S), q)
           /\ \A b \in S : (\A q \in S : Ahead(pr, b, q)) => b = BestOf(pr, S)
<1> DEFINE T == {pr[q] : q \in S}
<1>1. \A p \in S : p \in Nat /\ pr[p] \in Nat
  BY ProxiesAre
<1>2. PICK p0 \in S : \A q \in S : pr[p0] <= pr[q]
  <2>1. T \in SUBSET Nat /\ T # {}
    BY <1>1
  <2>2. PICK m \in T : \A j \in T : m <= j
    <3> HIDE DEF T
    <3> QED
      BY <2>1, HasLeast
  <2> QED
    BY <2>2
<1> DEFINE U == {q \in S : pr[q] = pr[p0]}
<1>3. PICK p1 \in U : \A q \in U : p1 <= q
  <2>1. U \in SUBSET Nat /\ U # {}
    BY <1>1
  <2> HIDE DEF U
  <2> QED
    BY <2>1, HasLeast
<1>4. p1 \in S /\ \A q \in S : Ahead(pr, p1, q)
  BY <1>1, <1>2, <1>3 DEF Ahead
<1>5. BestOf(pr, S) \in S /\ \A q \in S : Ahead(pr, BestOf(pr, S), q)
  BY <1>4, Zenon DEF BestOf
<1>6. \A a, b \in S : Ahead(pr, a, b) /\ Ahead(pr, b, a) => a = b
  BY <1>1 DEF Ahead
<1> QED
  BY <1>5, <1>6, Zenon

\* Only the priorities of those in the set count.
LEMMA BestOfSame ==
    ASSUME NEW pr \in [Proxies -> Nat], NEW qr \in [Proxies -> Nat],
           NEW S \in SUBSET Proxies, S # {}, \A p \in S : pr[p] = qr[p]
    PROVE  BestOf(pr, S) = BestOf(qr, S)
<1>1. /\ BestOf(pr, S) \in S /\ \A q \in S : Ahead(pr, BestOf(pr, S), q)
      /\ \A b \in S : (\A q \in S : Ahead(qr, b, q)) => b = BestOf(qr, S)
  BY BestOfIs
<1>2. \A p, q \in S : Ahead(pr, p, q) <=> Ahead(qr, p, q)
  BY DEF Ahead
<1> QED
  BY <1>1, <1>2, Zenon

LEMMA BestNowIs == \A px : BestNow(px) = BestGiven(px, owner, prio)
  BY Zenon DEF BestNow, BestGiven, AliveSet, Best, BestOf, Ahead, Global

LEMMA BestNextIs == BestNow(proxy)' = BestGiven(proxy', owner', prio')
  BY Zenon DEF BestNow, BestGiven, AliveSet, Best, BestOf, Ahead, Global, ProxyAlive

\* The choice is the same if the same global proxies are alive, and in the same
\* order.
LEMMA BestKept ==
    ASSUME PrioTypes, PrioTypes', owner' = owner,
           \A p \in Proxies :
             Global(p) =>
               /\ (proxy'[Key(p)].subscribed /\ ProxyAlive(proxy', p))
                    <=> (proxy[Key(p)].subscribed /\ ProxyAlive(proxy, p))
               /\ proxy[Key(p)].subscribed /\ ProxyAlive(proxy, p) => prio'[p] = prio[p]
    PROVE  BestNow(proxy)' = BestNow(proxy)
<1> DEFINE S == AliveSet(proxy, owner)
<1>1. AliveSet(proxy', owner) = S
  BY DEF AliveSet, Global
<1>2. S \in SUBSET Proxies /\ \A p \in S : prio'[p] = prio[p]
  BY DEF AliveSet, Global
<1> HIDE DEF S
<1>3. S # {} => BestOf(prio', S) = BestOf(prio, S)
  BY <1>2, BestOfSame DEF PrioTypes
<1>4. BestGiven(proxy', owner, prio') = BestGiven(proxy, owner, prio)
  BY <1>1, <1>3 DEF BestGiven, S
<1> QED
  BY <1>4, BestNowIs, BestNextIs

-----------------------------------------------------------------------------
(* The invariant, and what the stratifier's steps have in common.             *)

Counted ==
    \A k \in Keys : /\ proxy[k].bound = Cardinality(Mine(k))
                    /\ Mine(k) # {} => proxy[k].there

ProxyInv ==
    /\ GenTypes /\ Fresh /\ Agreed /\ StratTypes /\ PrioTypes
    /\ BoundSubscribed /\ Tidy /\ Counted /\ BestElse

\* Taken, of the last message about a session, or of what the stratifier knows.
Sub(k) ==
    \E i \in 1..Len(toStrat) : /\ About(i, k) /\ toStrat[i].t = "subscribe"
                               /\ \A j \in 1..Len(toStrat) : About(j, k) => j <= i
Silent(k) == \A i \in 1..Len(toStrat) : ~ About(i, k)
Known(k) == (loop.at = "fill" /\ loop.k = k) \/ (proxy[k].subscribed /\ ~ proxy[k].dead)

LEMMA TakenSplit == \A k : Taken(k) <=> Sub(k) \/ (Silent(k) /\ Known(k))
  BY Zenon DEF Taken, Sub, Silent, Known

\* A message is taken off the queue.
LEMMA Consumed ==
    ASSUME StratTypes, toStrat # <<>>, toStrat' = Tail(toStrat), NEW k \in Keys
    PROVE  /\ Head(toStrat) \in ToStrat /\ toStrat' \in Seq(ToStrat)
           /\ Head(toStrat).k # k \/ Head(toStrat).t = "notify"
                => (Sub(k)' <=> Sub(k)) /\ (Silent(k)' <=> Silent(k))
           /\ Head(toStrat).k = k /\ Head(toStrat).t # "notify"
                => /\ ~ Silent(k)
                   /\ IF Silent(k)' THEN Sub(k) <=> Head(toStrat).t = "subscribe"
                                    ELSE Sub(k)' <=> Sub(k)
           /\ Silent(k)' => ~ Sub(k)'
<1> DEFINE n == Len(toStrat)
           Was(i) == About(i, k)
           Is(i) == toStrat'[i].k = k /\ toStrat'[i].t # "notify"
<1>1. /\ toStrat \in Seq(ToStrat) /\ n \in Nat /\ n > 0 /\ 1 \in 1..n
      /\ Head(toStrat) = toStrat[1] /\ Head(toStrat) \in ToStrat /\ toStrat' \in Seq(ToStrat)
      /\ Len(toStrat') = n - 1
      /\ \A i \in 1..(n - 1) : toStrat'[i] = toStrat[i + 1] /\ i + 1 \in 1..n
  <2>1. toStrat \in Seq(ToStrat)
    BY DEF StratTypes
  <2> QED
    BY <2>1, HeadTailProperties
<1>2. /\ \A i \in 1..(n - 1) : Is(i) <=> Was(i + 1)
      /\ Was(1) <=> Head(toStrat).k = k /\ Head(toStrat).t # "notify"
      /\ Was(1) => (toStrat[1].t = "subscribe" <=> Head(toStrat).t = "subscribe")
  BY <1>1 DEF About
<1>3. \A i \in 2..n : i - 1 \in 1..(n - 1) /\ (i - 1) + 1 = i
  <2> HIDE DEF n
  <2> QED
    BY <1>1
<1>4. /\ Silent(k) <=> \A i \in 1..n : ~ Was(i)
      /\ Silent(k)' <=> \A i \in 1..(n - 1) : ~ Is(i)
      /\ Sub(k) <=> \E i \in 1..n : /\ Was(i) /\ toStrat[i].t = "subscribe"
                                    /\ \A j \in 1..n : Was(j) => j <= i
      /\ Sub(k)' <=> \E i \in 1..(n - 1) : /\ Is(i) /\ toStrat'[i].t = "subscribe"
                                           /\ \A j \in 1..(n - 1) : Is(j) => j <= i
  BY <1>1 DEF Silent, Sub, About
<1> HIDE DEF n, Was, Is
<1>5. Silent(k)' <=> \A i \in 2..n : ~ Was(i)
  <2>1. ASSUME \A i \in 2..n : ~ Was(i), NEW i \in 1..(n - 1) PROVE ~ Is(i)
    <3>1. i + 1 \in 2..n
      BY <1>1
    <3> QED
      BY <1>2, <2>1, <3>1
  <2>2. ASSUME \A i \in 1..(n - 1) : ~ Is(i), NEW i \in 2..n PROVE ~ Was(i)
    BY <1>2, <1>3, <2>2
  <2> QED
    BY <1>4, <2>1, <2>2
<1>6. Sub(k)' <=> \E i \in 2..n : /\ Was(i) /\ toStrat[i].t = "subscribe"
                                  /\ \A j \in 2..n : Was(j) => j <= i
  <2>1. ASSUME NEW i \in 1..(n - 1), Is(i), toStrat'[i].t = "subscribe",
               \A j \in 1..(n - 1) : Is(j) => j <= i
        PROVE  /\ i + 1 \in 2..n /\ Was(i + 1) /\ toStrat[i + 1].t = "subscribe"
               /\ \A j \in 2..n : Was(j) => j <= i + 1
    <3>1. i + 1 \in 2..n /\ Was(i + 1) /\ toStrat[i + 1].t = "subscribe"
      BY <1>1, <1>2, <2>1
    <3>2. ASSUME NEW j \in 2..n, Was(j) PROVE j <= i + 1
      <4>1. j - 1 \in 1..(n - 1) /\ Is(j - 1)
        BY <1>2, <1>3, <3>2
      <4>2. j - 1 <= i
        BY <2>1, <4>1
      <4> QED
        BY <1>1, <4>2
    <3> QED
      BY <3>1, <3>2
  <2>2. ASSUME NEW i \in 2..n, Was(i), toStrat[i].t = "subscribe",
               \A j \in 2..n : Was(j) => j <= i
        PROVE  /\ i - 1 \in 1..(n - 1) /\ Is(i - 1) /\ toStrat'[i - 1].t = "subscribe"
               /\ \A j \in 1..(n - 1) : Is(j) => j <= i - 1
    <3>1. i - 1 \in 1..(n - 1) /\ Is(i - 1) /\ toStrat'[i - 1].t = "subscribe"
      BY <1>1, <1>2, <1>3, <2>2
    <3>2. ASSUME NEW j \in 1..(n - 1), Is(j) PROVE j <= i - 1
      <4>1. j + 1 \in 2..n /\ Was(j + 1)
        BY <1>1, <1>2, <3>2
      <4>2. j + 1 <= i
        BY <2>2, <4>1
      <4> QED
        BY <1>1, <4>2
    <3> QED
      BY <3>1, <3>2
  <2>3. Sub(k)' => \E i \in 2..n : /\ Was(i) /\ toStrat[i].t = "subscribe"
                                   /\ \A j \in 2..n : Was(j) => j <= i
    BY <1>4, <2>1
  <2>4. (\E i \in 2..n : /\ Was(i) /\ toStrat[i].t = "subscribe"
                         /\ \A j \in 2..n : Was(j) => j <= i) => Sub(k)'
    BY <1>4, <2>2
  <2> QED
    BY <2>3, <2>4
<1>7. \A i : i \in 1..n <=> i = 1 \/ i \in 2..n
  BY <1>1
<1>8. \A i \in 2..n : 1 <= i /\ ~ (i <= 1)
  BY <1>1
<1>9. ~ Was(1) => (Sub(k)' <=> Sub(k)) /\ (Silent(k)' <=> Silent(k))
  BY <1>4, <1>5, <1>6, <1>7, <1>8
<1>10. Was(1) => ~ Silent(k)
  BY <1>1, <1>4
<1>11. Was(1) /\ Silent(k)' => (Sub(k) <=> toStrat[1].t = "subscribe")
  BY <1>1, <1>4, <1>5, <1>7
<1>12. Was(1) /\ ~ Silent(k)' => (Sub(k)' <=> Sub(k))
  BY <1>4, <1>5, <1>6, <1>7, <1>8
<1>13. Silent(k)' => ~ Sub(k)'
  BY <1>4
<1> QED
  BY <1>1, <1>2, <1>9, <1>10, <1>11, <1>12, <1>13

\* The stratifier keeps the agreement if it takes for alive what it did.
LEMMA AgreedKept ==
    ASSUME GenTypes, Fresh, Agreed, UNCHANGED genVars,
           \A k \in Keys : Taken(k)' <=> Taken(k)
    PROVE  GenTypes' /\ Fresh' /\ Agreed'
<1>1. UNCHANGED <<parent, session, linked, closed>>
  BY DEF genVars
<1>2. GenTypes'
  BY <1>1, ParentSame DEF GenTypes
<1>3. Fresh'
  BY <1>1 DEF Fresh
<1>4. Agreed'
  BY <1>1 DEF Agreed
<1> QED
  BY <1>2, <1>3, <1>4

\* Clients are where they were, and bound to what they were.
KeepsClients ==
    /\ client' \in [Clients -> ClientRec]
    /\ \A c \in Clients : /\ client'[c].bound = client[c].bound
                          /\ client'[c].key = client[c].key /\ client'[c].at = client[c].at

LEMMA MineKept ==
    ASSUME KeepsClients, BoundSubscribed
    PROVE  BoundSubscribed' /\ \A k : Mine(k)' = Mine(k)
  BY DEF KeepsClients, BoundSubscribed, Mine

LEMMA AskKeeps ==
    ASSUME client \in [Clients -> ClientRec], NEW S, NEW room, NEW p, NEW mark,
           AskReconnects(S, room, p, mark)
    PROVE  KeepsClients
<1>1. PICK A : client' = [c \in Clients |->
                            IF c \in S \ A /\ mark THEN [client[c] EXCEPT !.reconnect = TRUE]
                            ELSE client[c]]
  BY Zenon DEF AskReconnects
<1> QED
  BY <1>1 DEF KeepsClients, ClientRec

LEMMA MineFinite == \A k : IsFiniteSet(Mine(k)) /\ Mine(k) \in SUBSET Clients
<1>1. \A k : Mine(k) \in SUBSET Clients
  BY DEF Mine
<1> QED
  BY <1>1, FS_Subset, StratifierProxiesAssumption

\* A session changes, or goes, but no client comes or leaves.
LEMMA StratStep ==
    ASSUME ProxyInv, UNCHANGED genVars, KeepsClients,
           toStrat' \in Seq(ToStrat), proxy' \in [Keys -> ProxyRec], PrioTypes',
           loop' \in [at : {"idle", "fill", "check", "walk", "reap"}, k : Keys],
           \A k \in Keys : Taken(k)' <=> Taken(k), Tidy', BestElse',
           \A k \in Keys : /\ proxy'[k].bound = proxy[k].bound
                           /\ proxy[k].there => proxy'[k].there \/ proxy[k].bound = 0
    PROVE  ProxyInv'
<1>1. GenTypes' /\ Fresh' /\ Agreed'
  BY AgreedKept DEF ProxyInv
<1>2. StratTypes'
  BY DEF StratTypes, KeepsClients
<1>3. BoundSubscribed' /\ \A k : Mine(k)' = Mine(k)
  BY MineKept DEF ProxyInv
<1>4. ASSUME NEW k \in Keys
      PROVE  proxy'[k].bound = Cardinality(Mine(k)) /\ (Mine(k) # {} => proxy'[k].there)
  <2>1. proxy[k].bound = Cardinality(Mine(k)) /\ (Mine(k) # {} => proxy[k].there)
    BY DEF ProxyInv, Counted
  <2>2. Mine(k) # {} => proxy[k].bound # 0
    BY <2>1, MineFinite, FS_EmptySet
  <2> QED
    BY <2>1, <2>2
<1>5. Counted'
  BY <1>3, <1>4 DEF Counted
<1> QED
  BY <1>1, <1>2, <1>3, <1>5 DEF ProxyInv

\* No message comes or goes.
LEMMA TakenQuiet ==
    ASSUME UNCHANGED toStrat, NEW k, Known(k)' <=> Known(k)
    PROVE  Taken(k)' <=> Taken(k)
<1>1. (Sub(k)' <=> Sub(k)) /\ (Silent(k)' <=> Silent(k))
  BY DEF Sub, Silent, About
<1> QED
  BY <1>1, TakenSplit DEF Taken, Sub, Silent, Known, About

\* Clients as they are.
LEMMA ClientsSame == ASSUME StratTypes, UNCHANGED client PROVE KeepsClients
  BY DEF StratTypes, KeepsClients

LEMMA InvFacts ==
    ASSUME ProxyInv
    PROVE  /\ GenTypes /\ Fresh /\ Agreed /\ StratTypes /\ PrioTypes
           /\ BoundSubscribed /\ Tidy /\ Counted /\ BestElse
           /\ toStrat \in Seq(ToStrat) /\ prio \in [Proxies -> Nat]
           /\ proxy \in [Keys -> ProxyRec] /\ client \in [Clients -> ClientRec]
           /\ loop \in [at : {"idle", "fill", "check", "walk", "reap"}, k : Keys]
           /\ loop.k \in Keys
  BY DEF ProxyInv, StratTypes, PrioTypes

\* What goes for alive with the choice of the best proxy stays.
LEMMA BestStays ==
    ASSUME PrioTypes, UNCHANGED <<owner, prio, current>>,
           \A k \in Keys : Global(k[1]) =>
             /\ proxy'[k].subscribed = proxy[k].subscribed
             /\ proxy'[k].there /\ ~ proxy'[k].dead <=> proxy[k].there /\ ~ proxy[k].dead
    PROVE  current = BestNow(proxy) => current' = BestNow(proxy)'
<1>1. PrioTypes'
  BY DEF PrioTypes
<1>2. \A p \in Proxies :
        Global(p) => (proxy'[Key(p)].subscribed /\ ProxyAlive(proxy', p)
                        <=> proxy[Key(p)].subscribed /\ ProxyAlive(proxy, p))
  BY KeyFacts DEF ProxyAlive
<1>3. BestNow(proxy)' = BestNow(proxy)
  BY <1>1, <1>2, BestKept
<1> QED
  BY <1>3

LEMMA SubscribeKeeps ==
    ASSUME ProxyInv, LoopSubscribe
    PROVE  ProxyInv'
<1> DEFINE k == Head(toStrat).k
           gone == [proxy EXCEPT ![k].dead = TRUE, ![k].deleted = FALSE]
           gone1 == [proxy[k] EXCEPT !.dead = TRUE]
           gone2 == [gone1 EXCEPT !.deleted = FALSE]
<1>1. /\ GenTypes /\ Fresh /\ Agreed /\ StratTypes /\ PrioTypes
      /\ BoundSubscribed /\ Tidy /\ Counted /\ BestElse
      /\ toStrat \in Seq(ToStrat) /\ prio \in [Proxies -> Nat]
      /\ proxy \in [Keys -> ProxyRec] /\ client \in [Clients -> ClientRec]
  BY InvFacts
<1>2. /\ loop.at = "idle" /\ toStrat # <<>> /\ Head(toStrat).t = "subscribe"
      /\ toStrat' = Tail(toStrat) /\ loop' = [at |-> "fill", k |-> k]
      /\ UNCHANGED <<genVars, owner, current, prio>>
  BY DEF LoopSubscribe, Take, Idle, Then, poolVars
<1>3. KeepsClients
  <2>1. (\E room, p : AskReconnects(ClientsOf(k), room, p, TRUE)) \/ UNCHANGED client
    BY Zenon DEF LoopSubscribe
  <2> QED
    BY <1>1, <2>1, AskKeeps, ClientsSame
<1>4. IF proxy[k].there THEN proxy' = gone ELSE proxy' = proxy
  BY Zenon DEF LoopSubscribe
<1>5. Head(toStrat) \in ToStrat /\ toStrat' \in Seq(ToStrat) /\ k \in Keys
  <2>1. Head(toStrat) \in ToStrat /\ toStrat' \in Seq(ToStrat)
    BY <1>1, <1>2, HeadTailProperties
  <2> QED
    BY <2>1 DEF ToStrat
<1>6. /\ proxy' \in [Keys -> ProxyRec]
      /\ \A j \in Keys : /\ proxy'[j].subscribed = proxy[j].subscribed
                         /\ proxy'[j].there = proxy[j].there
                         /\ proxy'[j].bound = proxy[j].bound
                         /\ j # k => proxy'[j] = proxy[j]
      /\ proxy[k].there => ~ proxy'[k].deleted
      /\ ~ proxy[k].there => proxy' = proxy
  <2>1. CASE proxy[k].there
    <3>1. proxy' = [proxy EXCEPT ![k] = gone2]
      <4>1. gone = [[proxy EXCEPT ![k].dead = TRUE] EXCEPT ![k].deleted = FALSE]
        OBVIOUS
      <4> QED
        BY <1>1, <1>4, <1>5, <2>1, <4>1
    <3>2. gone1 \in ProxyRec /\ gone1.subscribed = proxy[k].subscribed
          /\ gone1.there = proxy[k].there /\ gone1.bound = proxy[k].bound
      BY <1>1, <1>5 DEF ProxyRec
    <3> HIDE DEF gone1
    <3>3. gone2 \in ProxyRec /\ gone2.subscribed = proxy[k].subscribed
          /\ gone2.there = proxy[k].there /\ gone2.bound = proxy[k].bound /\ ~ gone2.deleted
      BY <3>2 DEF ProxyRec
    <3> HIDE DEF gone2, gone, k
    <3> QED
      BY <1>1, <1>5, <2>1, <3>1, <3>3
  <2>2. CASE ~ proxy[k].there
    BY <1>1, <1>4, <2>2
  <2> QED
    BY <2>1, <2>2
<1>7. \A j \in Keys : Taken(j)' <=> Taken(j)
  <2> TAKE j \in Keys
  <2>1. CASE j = k
    <3>1. Known(j)'
      BY <1>2, <2>1 DEF Known
    <3>2. ~ Silent(j) /\ (Silent(j)' => Sub(j)) /\ (~ Silent(j)' => (Sub(j)' <=> Sub(j)))
      BY <1>1, <1>2, <2>1, Consumed
    <3>3. Taken(j)' <=> Sub(j)' \/ (Silent(j)' /\ Known(j)')
      BY DEF Taken, Sub, Silent, Known, About
    <3> QED
      BY <3>1, <3>2, <3>3, TakenSplit
  <2>2. CASE j # k
    <3>1. Known(j)' <=> Known(j)
      BY <1>2, <1>6, <2>2 DEF Known
    <3>2. (Sub(j)' <=> Sub(j)) /\ (Silent(j)' <=> Silent(j))
      BY <1>1, <1>2, <2>2, Consumed
    <3>3. Taken(j)' <=> Sub(j)' \/ (Silent(j)' /\ Known(j)')
      BY DEF Taken, Sub, Silent, Known, About
    <3> QED
      BY <3>1, <3>2, <3>3, TakenSplit
  <2> QED
    BY <2>1, <2>2
<1>8. Tidy'
  <2>1. \A j \in Keys : ~ proxy'[j].there => ~ proxy'[j].subscribed /\ ~ proxy'[j].deleted
    BY <1>1, <1>6 DEF Tidy
  <2>2. \A j \in Keys : proxy'[j].deleted => proxy'[j].dead
    BY <1>1, <1>6 DEF Tidy
  <2>3. ~ proxy'[k].deleted
    BY <1>1, <1>5, <1>6 DEF Tidy
  <2> QED
    BY <1>2, <2>1, <2>2, <2>3 DEF Tidy
<1>9. BestElse'
  <2>1. CASE Global(k[1])
    BY <1>2, <2>1 DEF BestElse, Choosing, Global
  <2>2. CASE ~ Global(k[1])
    <3>1. current = BestNow(proxy)
      BY <1>1, <1>2 DEF BestElse, Choosing
    <3>2. \A j \in Keys : Global(j[1]) => proxy'[j] = proxy[j]
      BY <1>6, <2>2
    <3>3. current' = BestNow(proxy)'
      BY <1>1, <1>2, <3>1, <3>2, BestStays
    <3> QED
      BY <3>3 DEF BestElse
  <2> QED
    BY <2>1, <2>2
<1>10. loop' \in [at : {"idle", "fill", "check", "walk", "reap"}, k : Keys]
  BY <1>2, <1>5
<1>11. PrioTypes'
  BY <1>1, <1>2 DEF PrioTypes
<1>12. \A j \in Keys : /\ proxy'[j].bound = proxy[j].bound
                       /\ proxy[j].there => proxy'[j].there \/ proxy[j].bound = 0
  BY <1>6
<1> HIDE DEF k
<1> QED
  BY <1>2, <1>3, <1>5, <1>6, <1>7, <1>8, <1>9, <1>10, <1>11, <1>12, StratStep

\* A message is handled that does not concern session k, or not whether it is
\* alive.
LEMMA TakenElse ==
    ASSUME StratTypes, toStrat # <<>>, toStrat' = Tail(toStrat), NEW k \in Keys,
           Head(toStrat).k # k \/ Head(toStrat).t = "notify", Known(k)' <=> Known(k)
    PROVE  Taken(k)' <=> Taken(k)
<1>1. (Sub(k)' <=> Sub(k)) /\ (Silent(k)' <=> Silent(k))
  BY Consumed
<1>2. Taken(k)' <=> Sub(k)' \/ (Silent(k)' /\ Known(k)')
  BY DEF Taken, Sub, Silent, Known, About
<1> QED
  BY <1>1, <1>2, TakenSplit

LEMMA LoopNotifyKeeps ==
    ASSUME ProxyInv, LoopNotify
    PROVE  ProxyInv'
<1> DEFINE k == Head(toStrat).k
           r == [proxy[k] EXCEPT !.work = TRUE]
           at == loop'.at
<1>1. /\ GenTypes /\ Fresh /\ Agreed /\ StratTypes /\ PrioTypes
      /\ BoundSubscribed /\ Tidy /\ Counted /\ BestElse
      /\ toStrat \in Seq(ToStrat) /\ prio \in [Proxies -> Nat]
      /\ proxy \in [Keys -> ProxyRec] /\ client \in [Clients -> ClientRec]
  BY InvFacts
<1>2. /\ loop.at = "idle" /\ toStrat # <<>> /\ Head(toStrat).t = "notify"
      /\ toStrat' = Tail(toStrat)
      /\ UNCHANGED <<genVars, owner, current, prio, client>>
  BY DEF LoopNotify, Take, Idle, poolVars
<1>3. /\ loop' = [at |-> "check", k |-> k] \/ loop' = [at |-> "idle", k |-> k]
      /\ proxy' = [proxy EXCEPT ![k].work = TRUE] \/ proxy' = proxy
  BY Zenon DEF LoopNotify, Then
<1>4. Head(toStrat) \in ToStrat /\ toStrat' \in Seq(ToStrat) /\ k \in Keys
  <2>1. Head(toStrat) \in ToStrat /\ toStrat' \in Seq(ToStrat)
    BY <1>1, <1>2, HeadTailProperties
  <2> QED
    BY <2>1 DEF ToStrat
<1>5. /\ proxy' \in [Keys -> ProxyRec]
      /\ \A j \in Keys : /\ proxy'[j].subscribed = proxy[j].subscribed
                         /\ proxy'[j].there = proxy[j].there
                         /\ proxy'[j].dead = proxy[j].dead
                         /\ proxy'[j].deleted = proxy[j].deleted
                         /\ proxy'[j].bound = proxy[j].bound
  <2>1. r \in ProxyRec /\ r.subscribed = proxy[k].subscribed /\ r.there = proxy[k].there
        /\ r.dead = proxy[k].dead /\ r.deleted = proxy[k].deleted /\ r.bound = proxy[k].bound
    BY <1>1, <1>4 DEF ProxyRec
  <2>2. proxy' = [proxy EXCEPT ![k] = r] \/ proxy' = proxy
    BY <1>3
  <2> HIDE DEF r, k
  <2> QED
    BY <1>1, <1>4, <2>1, <2>2
<1>6. \A j \in Keys : Taken(j)' <=> Taken(j)
  <2> TAKE j \in Keys
  <2>1. Known(j)' <=> Known(j)
    BY <1>2, <1>3, <1>5 DEF Known
  <2> QED
    BY <1>1, <1>2, <2>1, TakenElse
<1>7. Tidy'
  BY <1>1, <1>3, <1>5 DEF Tidy
<1>8. BestElse'
  <2>1. current = BestNow(proxy)
    BY <1>1, <1>2 DEF BestElse, Choosing
  <2>2. current' = BestNow(proxy)'
    BY <1>1, <1>2, <1>5, <2>1, BestStays
  <2> QED
    BY <2>2 DEF BestElse
<1>9. loop' \in [at : {"idle", "fill", "check", "walk", "reap"}, k : Keys]
  BY <1>3, <1>4
<1>10. PrioTypes' /\ KeepsClients
  BY <1>1, <1>2, ClientsSame DEF PrioTypes
<1> HIDE DEF k
<1> QED
  BY <1>2, <1>4, <1>5, <1>6, <1>7, <1>8, <1>9, <1>10, StratStep

LEMMA LoopFillKeeps ==
    ASSUME ProxyInv, LoopFill
    PROVE  ProxyInv'
<1> DEFINE k == loop.k
           fresh == [there |-> TRUE, dead |-> FALSE, subscribed |-> TRUE, clients |-> 0,
                     work |-> proxy[k].work, bound |-> proxy[k].bound,
                     deleted |-> proxy[k].deleted]
           seen(j) == [proxy[j] EXCEPT !.there = TRUE]
<1>1. /\ GenTypes /\ Fresh /\ Agreed /\ StratTypes /\ PrioTypes
      /\ BoundSubscribed /\ Tidy /\ Counted /\ BestElse
      /\ toStrat \in Seq(ToStrat) /\ prio \in [Proxies -> Nat]
      /\ proxy \in [Keys -> ProxyRec] /\ client \in [Clients -> ClientRec]
      /\ k \in Keys
  BY InvFacts
<1>2. /\ loop.at = "fill" /\ loop' = [at |-> "check", k |-> k]
      /\ proxy' = [j \in Keys |-> IF j = k THEN fresh
                                  ELSE IF j = Key(k[1]) THEN seen(j) ELSE proxy[j]]
      /\ prio' = (IF proxy[k].there THEN prio ELSE NewPrio(k))
      /\ UNCHANGED <<genVars, toStrat, owner, current, client>>
  BY DEF LoopFill, Then, poolVars, links
<1>3. fresh \in ProxyRec /\ fresh.there /\ ~ fresh.dead /\ fresh.subscribed
      /\ fresh.bound = proxy[k].bound /\ fresh.deleted = proxy[k].deleted
  BY <1>1 DEF ProxyRec
<1>4. ASSUME NEW j \in Keys
      PROVE  /\ seen(j) \in ProxyRec /\ seen(j).there /\ seen(j).dead = proxy[j].dead
             /\ seen(j).subscribed = proxy[j].subscribed /\ seen(j).bound = proxy[j].bound
             /\ seen(j).deleted = proxy[j].deleted
  BY <1>1 DEF ProxyRec
<1> HIDE DEF fresh, seen
<1>5. /\ proxy' \in [Keys -> ProxyRec]
      /\ proxy'[k] = fresh
      /\ \A j \in Keys : /\ j # k => /\ proxy'[j].subscribed = proxy[j].subscribed
                                     /\ proxy'[j].dead = proxy[j].dead
                         /\ j[1] # k[1] => proxy'[j] = proxy[j]
                         /\ proxy'[j].bound = proxy[j].bound
                         /\ proxy'[j].deleted = proxy[j].deleted
                         /\ proxy[j].there => proxy'[j].there
                         /\ ~ proxy'[j].there => proxy'[j] = proxy[j]
  <2>1. \A j \in Keys : proxy'[j] = IF j = k THEN fresh
                                    ELSE IF j = Key(k[1]) THEN seen(j) ELSE proxy[j]
    BY <1>2
  <2>2. \A j \in Keys : proxy'[j] \in ProxyRec
    BY <1>1, <1>3, <1>4, <2>1
  <2>3. proxy' \in [Keys -> ProxyRec]
    BY <1>2, <2>2
  <2>4. k[1] \in Proxies /\ Key(k[1])[1] = k[1]
    BY <1>1, KeyFacts
  <2> HIDE DEF k
  <2> QED
    BY <1>1, <1>3, <1>4, <2>1, <2>3, <2>4
<1>6. \A j \in Keys : Taken(j)' <=> Taken(j)
  <2> TAKE j \in Keys
  <2>1. Known(j)' <=> Known(j)
    BY <1>1, <1>2, <1>3, <1>5 DEF Known
  <2> QED
    BY <1>2, <2>1, TakenQuiet
<1>7. Tidy'
  <2>1. ~ proxy[k].deleted
    BY <1>1, <1>2 DEF Tidy
  <2>2. \A j \in Keys : ~ proxy'[j].there => ~ proxy'[j].subscribed /\ ~ proxy'[j].deleted
    BY <1>1, <1>5 DEF Tidy
  <2>3. \A j \in Keys : proxy'[j].deleted => proxy'[j].dead
    BY <1>1, <1>3, <1>5, <2>1 DEF Tidy
  <2> QED
    BY <1>2, <2>2, <2>3 DEF Tidy
<1>8. /\ PrioTypes'
      /\ \A q \in Proxies : owner[q] # owner[k[1]] => prio'[q] = prio[q]
  <2> DEFINE p == k[1]
             behind == {q \in Proxies : owner[q] = owner[p] /\ prio[q] # Unset /\ prio[q] >= p}
  <2>1. p \in Proxies /\ p \in Nat
    BY <1>1, KeyFacts, ProxiesAre
  <2>2. PICK moved, taken :
          /\ NewPrio(k) = [q \in Proxies |-> IF q = p /\ IsParent(k) THEN p
                                             ELSE IF taken /\ q \in moved THEN prio[q] + 1
                                             ELSE prio[q]]
          /\ moved \subseteq behind
    <3> DEFINE Before(q) == {r \in behind : prio[r] < prio[q]}
               moved == {q \in behind : \A r \in Before(q) \union {q} :
                                          prio[r] <= p + 1 + Cardinality(Before(r))}
               taken == \E q \in behind : prio[q] = p
    <3>1. NewPrio(k) = [q \in Proxies |-> IF q = p /\ IsParent(k) THEN p
                                          ELSE IF taken /\ q \in moved THEN prio[q] + 1
                                          ELSE prio[q]]
      BY Zenon DEF NewPrio
    <3>2. moved \subseteq behind
      OBVIOUS
    <3> HIDE DEF moved, taken, behind
    <3> QED
      BY <3>1, <3>2
  <2>3. \A q \in behind : q \in Proxies /\ owner[q] = owner[p]
    OBVIOUS
  <2>4. \A q \in Proxies : prio[q] \in Nat /\ prio[q] + 1 \in Nat
    BY <1>1
  <2> HIDE DEF behind, p
  <2>5. NewPrio(k) \in [Proxies -> Nat]
    BY <2>1, <2>2, <2>4
  <2>6. \A q \in Proxies : owner[q] # owner[p] => NewPrio(k)[q] = prio[q]
    <3>1. \A q \in Proxies : owner[q] # owner[p] => q # p /\ q \notin moved
      BY <2>2, <2>3
    <3> QED
      BY <2>2, <3>1
  <2> QED
    BY <1>1, <1>2, <2>5, <2>6 DEF PrioTypes, p
<1>9. BestElse'
  <2>1. CASE Global(k[1])
    BY <1>2, <2>1 DEF BestElse, Choosing, Global
  <2>2. CASE ~ Global(k[1])
    <3>1. current = BestNow(proxy)
      BY <1>1, <1>2, <2>2 DEF BestElse, Choosing
    <3>2. \A p \in Proxies : Global(p) =>
            /\ proxy'[Key(p)].subscribed /\ ProxyAlive(proxy', p)
                 <=> proxy[Key(p)].subscribed /\ ProxyAlive(proxy, p)
            /\ prio'[p] = prio[p]
      <4> TAKE p \in Proxies
      <4> HAVE Global(p)
      <4>1. p # k[1] /\ Key(p) \in Keys /\ Key(p)[1] = p
        BY <2>2, KeyFacts
      <4>2. \A j \in Keys : j[1] = p => proxy'[j] = proxy[j]
        BY <1>5, <4>1
      <4>3. owner[p] # owner[k[1]]
        BY <2>2 DEF Global
      <4>4. prio'[p] = prio[p]
        BY <1>8, <4>3
      <4> QED
        BY <4>1, <4>2, <4>4 DEF ProxyAlive
    <3>3. BestNow(proxy)' = BestNow(proxy)
      BY <1>1, <1>2, <1>8, <3>2, BestKept
    <3> QED
      BY <1>2, <3>1, <3>3 DEF BestElse
  <2> QED
    BY <2>1, <2>2
<1>10. loop' \in [at : {"idle", "fill", "check", "walk", "reap"}, k : Keys]
  BY <1>1, <1>2
<1>11. KeepsClients
  BY <1>1, <1>2, ClientsSame
<1> HIDE DEF k
<1> QED
  BY <1>1, <1>2, <1>5, <1>6, <1>7, <1>8, <1>9, <1>10, <1>11, StratStep

LEMMA LoopDeadKeeps ==
    ASSUME ProxyInv, LoopDead
    PROVE  ProxyInv'
<1> DEFINE k == Head(toStrat).k
           x == Head(toStrat).t = "del"
           marked == [proxy EXCEPT ![k].dead = TRUE, ![k].deleted = x]
           r == [proxy[k] EXCEPT !.dead = TRUE]
           s == [r EXCEPT !.deleted = x]
<1>1. /\ GenTypes /\ Fresh /\ Agreed /\ StratTypes /\ PrioTypes
      /\ BoundSubscribed /\ Tidy /\ Counted /\ BestElse
      /\ toStrat \in Seq(ToStrat) /\ prio \in [Proxies -> Nat]
      /\ proxy \in [Keys -> ProxyRec] /\ client \in [Clients -> ClientRec]
  BY InvFacts
<1>2. /\ loop.at = "idle" /\ toStrat # <<>> /\ Head(toStrat).t \in {"dead", "del"}
      /\ toStrat' = Tail(toStrat) /\ loop' = [at |-> "walk", k |-> k]
      /\ UNCHANGED <<genVars, owner, prio, client>>
  BY DEF LoopDead, Take, Idle, poolVars, Then
<1>3. IF proxy[k].there
      THEN /\ proxy' = marked
           /\ IF Global(k[1]) THEN current' = BestNow(proxy') ELSE current' = current
      ELSE proxy' = proxy /\ current' = current
  BY Zenon DEF LoopDead, CheckBest
<1>4. Head(toStrat) \in ToStrat /\ toStrat' \in Seq(ToStrat) /\ k \in Keys
  <2>1. Head(toStrat) \in ToStrat /\ toStrat' \in Seq(ToStrat)
    BY <1>1, <1>2, HeadTailProperties
  <2> QED
    BY <2>1 DEF ToStrat
<1>5. /\ proxy' \in [Keys -> ProxyRec]
      /\ \A j \in Keys : /\ proxy'[j].subscribed = proxy[j].subscribed
                         /\ proxy'[j].there = proxy[j].there
                         /\ proxy'[j].bound = proxy[j].bound
                         /\ j # k => proxy'[j] = proxy[j]
      /\ proxy[k].there => proxy'[k].dead
      /\ ~ proxy[k].there => proxy' = proxy
  <2>1. CASE proxy[k].there
    <3>1. proxy' = [proxy EXCEPT ![k] = s]
      <4>1. marked = [[proxy EXCEPT ![k].dead = TRUE] EXCEPT ![k].deleted = x]
        OBVIOUS
      <4> HIDE DEF x
      <4> QED
        BY <1>1, <1>3, <1>4, <2>1, <4>1
    <3>2. r \in ProxyRec /\ r.subscribed = proxy[k].subscribed /\ r.dead
          /\ r.there = proxy[k].there /\ r.bound = proxy[k].bound
      BY <1>1, <1>4 DEF ProxyRec
    <3> HIDE DEF r
    <3>3. x \in BOOLEAN
      OBVIOUS
    <3> HIDE DEF x
    <3>4. s \in ProxyRec /\ s.subscribed = proxy[k].subscribed /\ s.dead
          /\ s.there = proxy[k].there /\ s.bound = proxy[k].bound
      BY <3>2, <3>3 DEF ProxyRec
    <3> HIDE DEF s, marked, k
    <3> QED
      BY <1>1, <1>4, <2>1, <3>1, <3>4
  <2>2. CASE ~ proxy[k].there
    BY <1>1, <1>3, <2>2
  <2> QED
    BY <2>1, <2>2
<1>6. \A j \in Keys : Taken(j)' <=> Taken(j)
  <2> TAKE j \in Keys
  <2>1. CASE j = k
    <3>1. ~ Known(j)'
      BY <1>1, <1>2, <1>4, <1>5, <2>1 DEF Known, Tidy
    <3>2. ~ Silent(j) /\ (Silent(j)' => ~ Sub(j)) /\ (~ Silent(j)' => (Sub(j)' <=> Sub(j)))
          /\ (Silent(j)' => ~ Sub(j)')
      BY <1>1, <1>2, <2>1, Consumed
    <3>3. Taken(j)' <=> Sub(j)' \/ (Silent(j)' /\ Known(j)')
      BY DEF Taken, Sub, Silent, Known, About
    <3> QED
      BY <3>1, <3>2, <3>3, TakenSplit
  <2>2. CASE j # k
    <3>1. Known(j)' <=> Known(j)
      BY <1>2, <1>5, <2>2 DEF Known
    <3> QED
      BY <1>1, <1>2, <2>2, <3>1, TakenElse
  <2> QED
    BY <2>1, <2>2
<1>7. Tidy'
  <2>1. \A j \in Keys : ~ proxy'[j].there => ~ proxy'[j].subscribed /\ ~ proxy'[j].deleted
    <3>1. \A j \in Keys : ~ proxy[j].there => proxy'[j] = proxy[j]
      BY <1>5
    <3> QED
      BY <1>1, <1>5, <3>1 DEF Tidy
  <2>2. \A j \in Keys : proxy'[j].deleted => proxy'[j].dead
    <3>1. \A j \in Keys : proxy'[j] = proxy[j] \/ proxy'[j].dead
      BY <1>4, <1>5
    <3> QED
      BY <1>1, <3>1 DEF Tidy
  <2> QED
    BY <1>2, <2>1, <2>2 DEF Tidy
<1>8. BestElse'
  <2>1. current = BestNow(proxy)
    BY <1>1, <1>2 DEF BestElse, Choosing
  <2>2. CASE proxy[k].there /\ Global(k[1])
    <3>1. current' = BestGiven(proxy', owner, prio)
      BY <1>3, <2>2, BestNowIs
    <3>2. current' = BestNow(proxy)'
      BY <1>2, <3>1, BestNextIs
    <3> QED
      BY <3>2 DEF BestElse
  <2>3. CASE ~ (proxy[k].there /\ Global(k[1]))
    <3>1. current' = current
      BY <1>3, <2>3
    <3>2. \A j \in Keys : Global(j[1]) => proxy'[j] = proxy[j]
      BY <1>5, <2>3
    <3>3. current' = BestNow(proxy)'
      BY <1>1, <1>2, <2>1, <3>1, <3>2, BestStays
    <3> QED
      BY <3>3 DEF BestElse
  <2> QED
    BY <2>2, <2>3
<1>9. loop' \in [at : {"idle", "fill", "check", "walk", "reap"}, k : Keys]
  BY <1>2, <1>4
<1>10. PrioTypes' /\ KeepsClients
  BY <1>1, <1>2, ClientsSame DEF PrioTypes
<1>11. \A j \in Keys : /\ proxy'[j].bound = proxy[j].bound
                       /\ proxy[j].there => proxy'[j].there \/ proxy[j].bound = 0
  BY <1>5
<1> HIDE DEF k
<1> QED
  BY <1>2, <1>4, <1>5, <1>6, <1>7, <1>8, <1>9, <1>10, <1>11, StratStep

\* The steps of the loop that only choose, or only ask clients to reconnect.
LEMMA LoopAsksKeep ==
    ASSUME ProxyInv, LoopCheckGlobal \/ LoopCheckUser \/ LoopWalk
    PROVE  ProxyInv'
<1>1. /\ GenTypes /\ Fresh /\ Agreed /\ StratTypes /\ PrioTypes
      /\ BoundSubscribed /\ Tidy /\ Counted /\ BestElse
      /\ toStrat \in Seq(ToStrat) /\ prio \in [Proxies -> Nat]
      /\ proxy \in [Keys -> ProxyRec] /\ client \in [Clients -> ClientRec]
      /\ loop.k \in Keys
  BY InvFacts
<1>2. /\ UNCHANGED <<genVars, toStrat, owner, prio, proxy>>
      /\ loop.at \in {"check", "walk"}
      /\ \/ loop' = [at |-> "idle", k |-> loop.k]
         \/ loop' = [at |-> "reap", k |-> loop.k]
  BY DEF LoopCheckGlobal, LoopCheckUser, LoopWalk, poolVars, Then
<1>3. KeepsClients
  <2>1. (\E S, room, p, mark : AskReconnects(S, room, p, mark)) \/ UNCHANGED client
    BY Zenon DEF LoopCheckGlobal, LoopCheckUser, LoopWalk
  <2> QED
    BY <1>1, <2>1, AskKeeps, ClientsSame
<1>4. \A j \in Keys : Taken(j)' <=> Taken(j)
  <2> TAKE j \in Keys
  <2>1. Known(j)' <=> Known(j)
    BY <1>2 DEF Known
  <2> QED
    BY <1>2, <2>1, TakenQuiet
<1>5. Tidy'
  BY <1>1, <1>2 DEF Tidy
<1>6. BestElse'
  <2>1. CASE LoopCheckGlobal
    <3>1. current' = BestNow(proxy)
      BY <2>1 DEF LoopCheckGlobal, CheckBest
    <3>2. current' = BestNow(proxy)'
      BY <1>2, <3>1, BestNowIs, BestNextIs
    <3> QED
      BY <3>2 DEF BestElse
  <2>2. CASE LoopCheckUser \/ LoopWalk
    <3>1. ~ Choosing /\ current' = current
      BY <2>2 DEF LoopCheckUser, LoopWalk, Choosing
    <3>2. current = BestNow(proxy)
      BY <1>1, <3>1 DEF BestElse
    <3>3. current' = BestNow(proxy)'
      BY <1>1, <1>2, <3>1, <3>2, BestStays
    <3> QED
      BY <3>3 DEF BestElse
  <2> QED
    BY <2>1, <2>2
<1>7. loop' \in [at : {"idle", "fill", "check", "walk", "reap"}, k : Keys]
  BY <1>1, <1>2
<1>8. PrioTypes'
  BY <1>1, <1>2 DEF PrioTypes
<1> QED
  BY <1>1, <1>2, <1>3, <1>4, <1>5, <1>6, <1>7, <1>8, StratStep

LEMMA ReapKeeps ==
    ASSUME ProxyInv, LoopReap \/ DropReap
    PROVE  ProxyInv'
<1> DEFINE goes(k) == Reapable(k) \/ (IsParent(k) /\ Retired(k[1]))
           emptied(k) == [proxy[k] EXCEPT !.clients = 0]
<1>1. /\ GenTypes /\ Fresh /\ Agreed /\ StratTypes /\ PrioTypes
      /\ BoundSubscribed /\ Tidy /\ Counted /\ BestElse
      /\ toStrat \in Seq(ToStrat) /\ prio \in [Proxies -> Nat]
      /\ proxy \in [Keys -> ProxyRec] /\ client \in [Clients -> ClientRec]
      /\ loop \in [at : {"idle", "fill", "check", "walk", "reap"}, k : Keys]
      /\ loop.k \in Keys
  BY InvFacts
<1>2. /\ UNCHANGED <<genVars, toStrat, owner, current, client>>
      /\ \/ loop' = loop
         \/ loop.at = "reap" /\ loop' = [at |-> "idle", k |-> loop.k]
      /\ proxy' = Reaped
      /\ prio' = [p \in Proxies |-> IF Retired(p) THEN Unset ELSE prio[p]]
  BY DEF LoopReap, DropReap, Reap, poolVars, links, Then
<1>3. ASSUME NEW k \in Keys
      PROVE  /\ goes(k) => proxy[k].dead /\ proxy[k].bound = 0
             /\ proxy'[k] = IF goes(k) THEN NoProxyRec
                            ELSE IF proxy[k].there /\ proxy[k].bound = 0 /\ ~ proxy[k].dead
                            THEN emptied(k) ELSE proxy[k]
  <2>1. IsParent(k) => k = Key(k[1])
    BY KeyFacts
  <2>2. IsParent(k) /\ Retired(k[1]) => proxy[k].deleted /\ proxy[k].bound = 0
    BY <2>1 DEF Retired
  <2>3. goes(k) => proxy[k].dead /\ proxy[k].bound = 0
    BY <1>1, <2>2 DEF Reapable, Tidy
  <2>4. proxy'[k] = IF goes(k) THEN NoProxyRec
                    ELSE IF proxy[k].there /\ proxy[k].bound = 0 /\ ~ proxy[k].dead
                    THEN emptied(k) ELSE proxy[k]
    BY <1>2, Zenon DEF Reaped
  <2> QED
    BY <2>3, <2>4
<1>4. ASSUME NEW k \in Keys
      PROVE  /\ emptied(k) \in ProxyRec /\ emptied(k).there = proxy[k].there
             /\ emptied(k).dead = proxy[k].dead /\ emptied(k).subscribed = proxy[k].subscribed
             /\ emptied(k).deleted = proxy[k].deleted /\ emptied(k).bound = proxy[k].bound
  BY <1>1 DEF ProxyRec
<1>5. /\ NoProxyRec \in ProxyRec /\ ~ NoProxyRec.there /\ ~ NoProxyRec.dead
      /\ ~ NoProxyRec.subscribed /\ ~ NoProxyRec.deleted /\ NoProxyRec.bound = 0
  BY DEF NoProxyRec, ProxyRec
<1>6. proxy' = [k \in Keys |-> proxy'[k]]
  BY <1>2 DEF Reaped
<1> HIDE DEF goes, emptied
<1>7. /\ proxy' \in [Keys -> ProxyRec]
      /\ \A k \in Keys :
           /\ proxy'[k].bound = proxy[k].bound
           /\ proxy[k].there => proxy'[k].there \/ proxy[k].bound = 0
           /\ goes(k) => /\ proxy[k].dead /\ ~ proxy'[k].there /\ ~ proxy'[k].subscribed
                         /\ ~ proxy'[k].deleted
           /\ ~ goes(k) => /\ proxy'[k].there = proxy[k].there /\ proxy'[k].dead = proxy[k].dead
                           /\ proxy'[k].subscribed = proxy[k].subscribed
                           /\ proxy'[k].deleted = proxy[k].deleted
  <2>1. \A k \in Keys : proxy'[k] \in ProxyRec
    BY <1>1, <1>3, <1>4, <1>5
  <2>2. proxy' \in [Keys -> ProxyRec]
    BY <1>6, <2>1
  <2> QED
    BY <1>3, <1>4, <1>5, <2>2
<1>8. \A k \in Keys : Taken(k)' <=> Taken(k)
  <2> TAKE k \in Keys
  <2>1. Known(k)' <=> Known(k)
    BY <1>2, <1>7 DEF Known
  <2> QED
    BY <1>2, <2>1, TakenQuiet
<1>9. Tidy'
  <2>1. loop'.at = "fill" => loop' = loop
    BY <1>2
  <2>2. \A k \in Keys : ~ proxy'[k].there => ~ proxy'[k].subscribed /\ ~ proxy'[k].deleted
    BY <1>1, <1>7 DEF Tidy
  <2>3. \A k \in Keys : proxy'[k].deleted => proxy'[k].dead
    BY <1>1, <1>7 DEF Tidy
  <2>4. loop'.at = "fill" => ~ proxy'[loop'.k].deleted
    BY <1>1, <1>7, <2>1 DEF Tidy
  <2> QED
    BY <2>2, <2>3, <2>4 DEF Tidy
<1>10. PrioTypes'
  BY <1>1, <1>2 DEF PrioTypes, Unset
<1>11. BestNow(proxy)' = BestNow(proxy)
  <2>1. ASSUME NEW p \in Proxies
        PROVE  /\ ProxyAlive(proxy', p) <=> ProxyAlive(proxy, p)
               /\ ProxyAlive(proxy, p) => /\ ~ Retired(p)
                                          /\ proxy'[Key(p)].subscribed = proxy[Key(p)].subscribed
                                          /\ prio'[p] = prio[p]
    <3>1. ProxyAlive(proxy', p) <=> ProxyAlive(proxy, p)
      BY <1>7 DEF ProxyAlive
    <3>2. Key(p) \in Keys /\ IsParent(Key(p)) /\ Key(p)[1] = p
          /\ \A k \in Keys : IsParent(k) => k = Key(k[1])
      BY KeyFacts
    <3>3. Retired(p) => ~ ProxyAlive(proxy, p)
      <4>1. Retired(p) => proxy[Key(p)].dead
        BY <1>1, <3>2 DEF Retired, Tidy
      <4>2. ASSUME Retired(p), NEW k \in Keys, k[1] = p, proxy[k].there
            PROVE  proxy[k].dead
        <5>1. k \in Subs(p)
          BY <4>2 DEF Subs
        <5> QED
          BY <3>2, <4>1, <4>2, <5>1 DEF Retired, Reapable
      <4> QED
        BY <4>2 DEF ProxyAlive
    <3>4. ~ Retired(p) => ~ goes(Key(p))
      BY <3>2 DEF goes, Reapable
    <3>5. ~ Retired(p) => prio'[p] = prio[p]
      BY <1>2
    <3> QED
      BY <1>7, <3>1, <3>2, <3>3, <3>4, <3>5
  <2> QED
    BY <1>1, <1>2, <1>10, <2>1, BestKept
<1>12. BestElse'
  <2>1. Choosing => Choosing'
    BY <1>2 DEF Choosing, Global
  <2> QED
    BY <1>1, <1>2, <1>11, <2>1 DEF BestElse
<1>13. loop' \in [at : {"idle", "fill", "check", "walk", "reap"}, k : Keys]
  BY <1>1, <1>2
<1>14. KeepsClients /\ toStrat' \in Seq(ToStrat)
  BY <1>1, <1>2, ClientsSame
<1> QED
  BY <1>2, <1>7, <1>8, <1>9, <1>10, <1>12, <1>13, <1>14, StratStep

-----------------------------------------------------------------------------
(* The clients' steps.                                                        *)

LEMMA ClientStep ==
    ASSUME ProxyInv, UNCHANGED <<genVars, toStrat, owner, current, prio, loop>>,
           client' \in [Clients -> ClientRec], proxy' \in [Keys -> ProxyRec],
           BoundSubscribed', Counted',
           \A k \in Keys : /\ proxy'[k].there = proxy[k].there /\ proxy'[k].dead = proxy[k].dead
                           /\ proxy'[k].subscribed = proxy[k].subscribed
                           /\ proxy'[k].deleted = proxy[k].deleted
    PROVE  ProxyInv'
<1>1. /\ GenTypes /\ Fresh /\ Agreed /\ StratTypes /\ PrioTypes
      /\ Tidy /\ BestElse /\ toStrat \in Seq(ToStrat)
      /\ loop \in [at : {"idle", "fill", "check", "walk", "reap"}, k : Keys]
      /\ loop.k \in Keys
  BY InvFacts
<1>2. \A k \in Keys : Taken(k)' <=> Taken(k)
  <2> TAKE k \in Keys
  <2>1. Known(k)' <=> Known(k)
    BY DEF Known
  <2> QED
    BY <2>1, TakenQuiet
<1>3. GenTypes' /\ Fresh' /\ Agreed'
  BY <1>1, <1>2, AgreedKept
<1>4. StratTypes' /\ PrioTypes'
  BY <1>1 DEF StratTypes, PrioTypes
<1>5. Tidy'
  BY <1>1 DEF Tidy
<1>6. BestElse'
  <2>1. Choosing => Choosing'
    BY DEF Choosing, Global
  <2>2. current = BestNow(proxy) => current' = BestNow(proxy)'
    BY <1>1, BestStays
  <2> QED
    BY <1>1, <2>1, <2>2 DEF BestElse
<1> QED
  BY <1>3, <1>4, <1>5, <1>6 DEF ProxyInv

\* A client that is bound stays so, and no other becomes it.
LEMMA ClientQuiet ==
    ASSUME ProxyInv, UNCHANGED <<genVars, toStrat, owner, current, prio, loop, proxy>>,
           client' \in [Clients -> ClientRec],
           \A c \in Clients :
             \/ client'[c] = client[c]
             \/ /\ client'[c].bound = client[c].bound
                /\ client[c].bound => client'[c].key = client[c].key
                                      /\ client'[c].at \in {"subscribed", "authorised"}
    PROVE  ProxyInv'
<1>1. BoundSubscribed /\ Counted /\ proxy \in [Keys -> ProxyRec]
  BY InvFacts
<1>2. BoundSubscribed' /\ \A k : Mine(k)' = Mine(k)
  BY <1>1 DEF BoundSubscribed, Mine
<1>3. Counted'
  BY <1>1, <1>2 DEF Counted
<1> QED
  BY <1>1, <1>2, <1>3, ClientStep

LEMMA ClientsKeep ==
    ASSUME ProxyInv, NEW c \in Clients,
           Connect(c) \/ Select(c) \/ BindFreed(c) \/ Authorise(c) \/ ShareRefused(c)
    PROVE  ProxyInv'
<1>1. /\ BoundSubscribed /\ client \in [Clients -> ClientRec] /\ client[c] \in ClientRec
      /\ UNCHANGED <<genVars, toStrat, owner, current, prio, loop, proxy>>
  BY InvFacts DEF Connect, Select, BindFreed, Authorise, ShareRefused, poolVars, links
<1>2. Key(0) \in Keys
  BY ProxiesAre, KeyFacts
<1>3. CASE Connect(c)
  <2> DEFINE r == [NoClient EXCEPT !.at = "new"]
  <2>1. r \in ClientRec /\ ~ r.bound
    BY <1>2 DEF NoClient, ClientRec
  <2>2. client' = [client EXCEPT ![c] = r] /\ client[c].at = "away"
    BY <1>3 DEF Connect
  <2>3. ~ client[c].bound
    BY <1>1, <2>2 DEF BoundSubscribed
  <2> HIDE DEF r
  <2>4. client' \in [Clients -> ClientRec] /\ client'[c] = r
        /\ \A d \in Clients : d # c => client'[d] = client[d]
    BY <1>1, <2>1, <2>2
  <2>5. r.bound = client[c].bound
    BY <1>1, <2>1, <2>3 DEF ClientRec
  <2> QED
    BY <1>1, <2>3, <2>4, <2>5, ClientQuiet
<1>4. CASE Select(c)
  <2>1. PICK k \in Keys : client' = [client EXCEPT ![c].at = "chosen", ![c].pick = k]
    BY <1>4 DEF Select
  <2> DEFINE r == [client[c] EXCEPT !.at = "chosen", !.pick = k]
  <2>2. client' = [client EXCEPT ![c] = r] /\ client[c].at = "new"
    BY <1>1, <1>4, <2>1 DEF Select
  <2>3. ~ client[c].bound
    BY <1>1, <2>2 DEF BoundSubscribed
  <2>4. r \in ClientRec /\ r.bound = client[c].bound
    BY <1>1 DEF ClientRec
  <2> HIDE DEF r
  <2>5. client' \in [Clients -> ClientRec] /\ client'[c] = r
        /\ \A d \in Clients : d # c => client'[d] = client[d]
    BY <1>1, <2>2, <2>4
  <2> QED
    BY <1>1, <2>3, <2>4, <2>5, ClientQuiet
<1>5. CASE BindFreed(c)
  BY <1>1, <1>5, ClientQuiet DEF BindFreed
<1>6. CASE Authorise(c)
  <2> DEFINE r == [client[c] EXCEPT !.at = "authorised"]
  <2>1. client' = [client EXCEPT ![c] = r]
    BY <1>6 DEF Authorise
  <2>2. r \in ClientRec /\ r.bound = client[c].bound /\ r.key = client[c].key
        /\ r.at = "authorised"
    BY <1>1 DEF ClientRec
  <2> HIDE DEF r
  <2>3. client' \in [Clients -> ClientRec] /\ client'[c] = r
        /\ \A d \in Clients : d # c => client'[d] = client[d]
    BY <1>1, <2>1, <2>2
  <2> QED
    BY <1>1, <2>2, <2>3, ClientQuiet
<1>7. CASE ShareRefused(c)
  <2> DEFINE r == [client[c] EXCEPT !.reconnect = TRUE]
  <2>1. client' = [client EXCEPT ![c] = r] /\ client[c].at = "authorised"
    BY <1>7 DEF ShareRefused
  <2>2. r \in ClientRec /\ r.bound = client[c].bound /\ r.key = client[c].key
        /\ r.at = client[c].at
    BY <1>1 DEF ClientRec
  <2> HIDE DEF r
  <2>3. client' \in [Clients -> ClientRec] /\ client'[c] = r
        /\ \A d \in Clients : d # c => client'[d] = client[d]
    BY <1>1, <2>1, <2>2
  <2> QED
    BY <1>1, <2>1, <2>2, <2>3, ClientQuiet
<1> QED
  BY <1>3, <1>4, <1>5, <1>6, <1>7

\* One session has another number of clients.
BoundRec(r, n, b) == [r EXCEPT !.clients = n, !.bound = b]

LEMMA BoundRecIs ==
    ASSUME NEW r \in ProxyRec, NEW n \in Nat, NEW b \in Int
    PROVE  /\ BoundRec(r, n, b) \in ProxyRec /\ BoundRec(r, n, b).bound = b
           /\ BoundRec(r, n, b).there = r.there /\ BoundRec(r, n, b).dead = r.dead
           /\ BoundRec(r, n, b).subscribed = r.subscribed
           /\ BoundRec(r, n, b).deleted = r.deleted
<1> DEFINE q == [r EXCEPT !.clients = n]
           s == BoundRec(r, n, b)
<1>1. q \in ProxyRec /\ q.there = r.there /\ q.dead = r.dead
      /\ q.subscribed = r.subscribed /\ q.deleted = r.deleted
  BY DEF ProxyRec
<1>2. s = [q EXCEPT !.bound = b]
  BY DEF BoundRec
<1> HIDE DEF q, s
<1>3. s \in ProxyRec /\ s.bound = b /\ s.there = q.there /\ s.dead = q.dead
      /\ s.subscribed = q.subscribed /\ s.deleted = q.deleted
  BY <1>1, <1>2 DEF ProxyRec
<1> QED
  BY <1>1, <1>3 DEF s

LEMMA SessionEdited ==
    ASSUME StratTypes, NEW k \in Keys, NEW n \in Nat, NEW b \in Int,
           proxy' = [proxy EXCEPT ![k] = BoundRec(proxy[k], n, b)]
    PROVE  /\ proxy' \in [Keys -> ProxyRec] /\ proxy'[k].bound = b
           /\ \A j \in Keys : /\ proxy'[j].there = proxy[j].there
                              /\ proxy'[j].dead = proxy[j].dead
                              /\ proxy'[j].subscribed = proxy[j].subscribed
                              /\ proxy'[j].deleted = proxy[j].deleted
                              /\ j # k => proxy'[j] = proxy[j]
<1> DEFINE r == BoundRec(proxy[k], n, b)
<1>1. proxy \in [Keys -> ProxyRec] /\ proxy[k] \in ProxyRec
  BY DEF StratTypes
<1>2. r \in ProxyRec /\ r.bound = b /\ r.there = proxy[k].there /\ r.dead = proxy[k].dead
      /\ r.subscribed = proxy[k].subscribed /\ r.deleted = proxy[k].deleted
  BY <1>1, BoundRecIs
<1> HIDE DEF r
<1>3. proxy' = [proxy EXCEPT ![k] = r]
  BY DEF r
<1>4. proxy' \in [Keys -> ProxyRec] /\ proxy'[k] = r
      /\ \A j \in Keys : j # k => proxy'[j] = proxy[j]
  BY <1>1, <1>2, <1>3
<1> QED
  BY <1>2, <1>4

\* The clients bound to session k after a step.
MineNext(k) == {c \in Clients : client'[c].bound /\ client'[c].key = k}

LEMMA BindKeeps ==
    ASSUME ProxyInv, NEW c \in Clients, Bind(c)
    PROVE  ProxyInv'
<1>0. PICK k \in Keys : k = client[c].pick
  <2>1. client[c] \in ClientRec
    BY InvFacts
  <2> QED
    BY <2>1 DEF ClientRec
<1> DEFINE now == IF Full(k) THEN "new" ELSE "subscribed"
           full == Full(k)
           r == [client[c] EXCEPT !.at = now, !.bound = ~ full, !.key = k, !.pick = Key(0)]
<1>1. /\ StratTypes /\ BoundSubscribed /\ Counted /\ proxy \in [Keys -> ProxyRec]
      /\ client \in [Clients -> ClientRec] /\ client[c] \in ClientRec
      /\ proxy[k] \in ProxyRec /\ Key(0) \in Keys
  <2>1. Key(0) \in Keys
    BY ProxiesAre, KeyFacts
  <2>2. client \in [Clients -> ClientRec] /\ proxy \in [Keys -> ProxyRec]
    BY InvFacts
  <2> QED
    BY <2>1, <2>2, InvFacts
<1>2. /\ UNCHANGED <<genVars, toStrat, owner, current, prio, loop>>
      /\ client[c].at = "chosen" /\ proxy[k].there
  BY <1>0 DEF Bind, poolVars, links
<1>3. full \in BOOLEAN
  BY DEF Full
<1>4. client' = [client EXCEPT ![c] = r]
  <2>1. client' = [client EXCEPT ![c].at = now, ![c].bound = ~ full, ![c].key = k,
                                 ![c].pick = Key(0)]
    BY <1>0, Zenon DEF Bind
  <2> HIDE DEF now, full
  <2> QED
    BY <1>1, <2>1
<1>5. IF full THEN proxy' = proxy
      ELSE proxy' = [proxy EXCEPT ![k].clients = @ + 1, ![k].bound = @ + 1]
  BY <1>0, Zenon DEF Bind
<1>6. now \in {"new", "subscribed"} /\ (full <=> now = "new")
  BY <1>3
<1>7. r \in ClientRec /\ r.key = k /\ r.at = now /\ (r.bound <=> ~ full)
  <2> HIDE DEF now, full
  <2> DEFINE r1 == [client[c] EXCEPT !.at = now]
             r2 == [r1 EXCEPT !.bound = ~ full]
             r3 == [r2 EXCEPT !.key = k]
  <2>1. r = [r3 EXCEPT !.pick = Key(0)]
    OBVIOUS
  <2>2. r1 \in ClientRec /\ r1.at = now
    BY <1>1, <1>6 DEF ClientRec
  <2> HIDE DEF r1
  <2>3. r2 \in ClientRec /\ r2.at = now /\ (r2.bound <=> ~ full)
    <3>1. PICK x \in BOOLEAN : x = ~ full
      OBVIOUS
    <3>2. r2 = [r1 EXCEPT !.bound = x]
      BY <3>1
    <3> HIDE DEF r2
    <3>3. r2 \in ClientRec /\ r2.at = r1.at /\ r2.bound = x
      BY <2>2, <3>2 DEF ClientRec
    <3> QED
      BY <2>2, <3>1, <3>3
  <2> HIDE DEF r2
  <2>4. r3 \in ClientRec /\ r3.at = now /\ r3.bound = r2.bound /\ r3.key = k
    BY <1>1, <2>3 DEF ClientRec
  <2> HIDE DEF r3, r
  <2>5. r \in ClientRec /\ r.at = r3.at /\ r.bound = r3.bound /\ r.key = r3.key
    BY <1>1, <2>1, <2>4 DEF ClientRec
  <2> QED
    BY <2>3, <2>4, <2>5
<1> HIDE DEF r, now
<1>8. client' \in [Clients -> ClientRec] /\ client'[c] = r
      /\ \A d \in Clients : d # c => client'[d] = client[d]
  BY <1>1, <1>4, <1>7
<1>9. ~ client[c].bound
  BY <1>1, <1>2 DEF BoundSubscribed
<1>10. BoundSubscribed'
  BY <1>1, <1>6, <1>7, <1>8 DEF BoundSubscribed
<1>11. CASE full
  <2>1. \A j : MineNext(j) = Mine(j)
    BY <1>7, <1>8, <1>9, <1>11 DEF Mine, MineNext
  <2>2. proxy' = proxy
    BY <1>5, <1>11
  <2>3. Counted'
    BY <1>1, <2>1, <2>2 DEF Counted, Mine, MineNext
  <2> HIDE DEF full
  <2> QED
    BY <1>1, <1>2, <1>8, <1>10, <2>2, <2>3, ClientStep
<1>12. CASE ~ full
  <2> DEFINE n == proxy[k].clients + 1
             b == proxy[k].bound + 1
  <2>1. n \in Nat /\ b \in Int
    BY <1>1 DEF ProxyRec
  <2>2. proxy' = [proxy EXCEPT ![k] = BoundRec(proxy[k], n, b)]
    BY <1>1, <1>5, <1>12 DEF BoundRec
  <2>3. /\ \A j : j # k => MineNext(j) = Mine(j)
        /\ MineNext(k) = Mine(k) \union {c} /\ c \notin Mine(k)
    <3>2. ASSUME NEW j, NEW d PROVE d \in MineNext(j) <=> d \in Mine(j) \/ (d = c /\ j = k)
      <4>1. CASE d = c
        BY <1>7, <1>8, <1>9, <1>12, <4>1 DEF Mine, MineNext
      <4>2. CASE d # c
        BY <1>8, <4>2 DEF Mine, MineNext
      <4> QED
        BY <4>1, <4>2
    <3>3. c \notin Mine(k)
      BY <1>9 DEF Mine
    <3>4. ASSUME NEW j, j # k PROVE MineNext(j) = Mine(j)
      BY <3>2, <3>4
    <3>5. MineNext(k) = Mine(k) \union {c}
      BY <3>2
    <3> QED
      BY <3>3, <3>4, <3>5
  <2>4. proxy[k].bound = Cardinality(Mine(k))
    BY <1>1 DEF Counted
  <2>5. Cardinality(Mine(k) \union {c}) = b
    BY <2>3, <2>4, MineFinite, FS_AddElement
  <2> HIDE DEF n, b
  <2>6. /\ proxy' \in [Keys -> ProxyRec] /\ proxy'[k].bound = b
        /\ \A j \in Keys : /\ proxy'[j].there = proxy[j].there
                           /\ proxy'[j].dead = proxy[j].dead
                           /\ proxy'[j].subscribed = proxy[j].subscribed
                           /\ proxy'[j].deleted = proxy[j].deleted
                           /\ j # k => proxy'[j] = proxy[j]
    BY <1>1, <2>1, <2>2, SessionEdited
  <2>7. \A j \in Keys : /\ proxy'[j].bound = Cardinality(MineNext(j))
                        /\ MineNext(j) # {} => proxy'[j].there
    <3> TAKE j \in Keys
    <3>1. CASE j = k
      BY <1>2, <2>3, <2>5, <2>6, <3>1
    <3>2. CASE j # k
      BY <1>1, <2>3, <2>6, <3>2 DEF Counted
    <3> QED
      BY <3>1, <3>2
  <2>8. Counted'
    BY <2>7 DEF Counted, Mine, MineNext
  <2> QED
    BY <1>2, <1>8, <1>10, <2>6, <2>8, ClientStep
<1> QED
  BY <1>11, <1>12

LEMMA LeaveKeeps ==
    ASSUME ProxyInv, NEW c \in Clients, Leave(c)
    PROVE  ProxyInv'
<1>0. PICK k \in Keys : k = client[c].key
  <2>1. client[c] \in ClientRec
    BY InvFacts
  <2> QED
    BY <2>1 DEF ClientRec
<1> DEFINE r == [NoClient EXCEPT !.at = "gone"]
<1>1. /\ StratTypes /\ BoundSubscribed /\ Counted /\ proxy \in [Keys -> ProxyRec]
      /\ client \in [Clients -> ClientRec] /\ proxy[k] \in ProxyRec
      /\ Key(0) \in Keys
  <2>1. Key(0) \in Keys
    BY ProxiesAre, KeyFacts
  <2>2. client \in [Clients -> ClientRec] /\ proxy \in [Keys -> ProxyRec]
    BY InvFacts
  <2> QED
    BY <2>1, <2>2, InvFacts
<1>2. /\ UNCHANGED <<genVars, toStrat, owner, current, prio, loop>>
      /\ client' = [client EXCEPT ![c] = r]
  BY DEF Leave, poolVars, links
<1>3. IF client[c].bound THEN proxy' = [proxy EXCEPT ![k].bound = @ - 1] ELSE proxy' = proxy
  BY <1>0, Zenon DEF Leave
<1>4. r \in ClientRec /\ ~ r.bound
  BY <1>1 DEF NoClient, ClientRec
<1> HIDE DEF r
<1>5. client' \in [Clients -> ClientRec] /\ client'[c] = r
      /\ \A d \in Clients : d # c => client'[d] = client[d]
  BY <1>1, <1>2, <1>4
<1>6. BoundSubscribed'
  BY <1>1, <1>4, <1>5 DEF BoundSubscribed
<1>7. CASE ~ client[c].bound
  <2>1. \A j : MineNext(j) = Mine(j)
    BY <1>4, <1>5, <1>7 DEF Mine, MineNext
  <2>2. proxy' = proxy
    BY <1>3, <1>7
  <2>3. Counted'
    BY <1>1, <2>1, <2>2 DEF Counted, Mine, MineNext
  <2> QED
    BY <1>1, <1>2, <1>5, <1>6, <2>2, <2>3, ClientStep
<1>8. CASE client[c].bound
  <2> DEFINE n == proxy[k].clients
             b == proxy[k].bound - 1
  <2>1. n \in Nat /\ b \in Int
    BY <1>1 DEF ProxyRec
  <2>2. proxy' = [proxy EXCEPT ![k] = BoundRec(proxy[k], n, b)]
    <3>1. BoundRec(proxy[k], n, b) = [proxy[k] EXCEPT !.bound = b]
      <4> DEFINE x == proxy[k]
      <4>1. x \in [there : BOOLEAN, dead : BOOLEAN, deleted : BOOLEAN,
                   subscribed : BOOLEAN, work : BOOLEAN, clients : Nat, bound : Int]
        BY <1>1 DEF ProxyRec
      <4>2. [x EXCEPT !.clients = x.clients] = x
        <5> HIDE DEF x
        <5> QED
          BY <4>1
      <4> QED
        BY <4>2 DEF BoundRec
    <3> QED
      BY <1>1, <1>3, <1>8, <3>1
  <2>3. /\ \A j : j # k => MineNext(j) = Mine(j)
        /\ MineNext(k) = Mine(k) \ {c} /\ c \in Mine(k)
    <3>2. ASSUME NEW j, NEW d PROVE d \in MineNext(j) <=> d \in Mine(j) /\ d # c
      <4>1. CASE d = c
        BY <1>4, <1>5, <4>1 DEF Mine, MineNext
      <4>2. CASE d # c
        BY <1>5, <4>2 DEF Mine, MineNext
      <4> QED
        BY <4>1, <4>2
    <3>3. c \in Mine(k) /\ \A j : j # k => c \notin Mine(j)
      BY <1>0, <1>8 DEF Mine
    <3>4. ASSUME NEW j, j # k PROVE MineNext(j) = Mine(j)
      BY <3>2, <3>3, <3>4
    <3>5. MineNext(k) = Mine(k) \ {c}
      BY <3>2
    <3> QED
      BY <3>3, <3>4, <3>5
  <2>4. proxy[k].bound = Cardinality(Mine(k)) /\ proxy[k].there
    BY <1>1, <2>3 DEF Counted
  <2>5. Cardinality(Mine(k) \ {c}) = b
    <3>1. Cardinality(Mine(k) \ {c}) =
            IF c \in Mine(k) THEN Cardinality(Mine(k)) - 1 ELSE Cardinality(Mine(k))
      BY MineFinite, FS_RemoveElement, Zenon
    <3> QED
      BY <2>3, <2>4, <3>1
  <2> HIDE DEF n, b
  <2>6. /\ proxy' \in [Keys -> ProxyRec] /\ proxy'[k].bound = b
        /\ \A j \in Keys : /\ proxy'[j].there = proxy[j].there
                           /\ proxy'[j].dead = proxy[j].dead
                           /\ proxy'[j].subscribed = proxy[j].subscribed
                           /\ proxy'[j].deleted = proxy[j].deleted
                           /\ j # k => proxy'[j] = proxy[j]
    BY <1>1, <2>1, <2>2, SessionEdited
  <2>7. \A j \in Keys : /\ proxy'[j].bound = Cardinality(MineNext(j))
                        /\ MineNext(j) # {} => proxy'[j].there
    <3> TAKE j \in Keys
    <3>1. CASE j = k
      BY <2>3, <2>4, <2>5, <2>6, <3>1
    <3>2. CASE j # k
      BY <1>1, <2>3, <2>6, <3>2 DEF Counted
    <3> QED
      BY <3>1, <3>2
  <2>8. Counted'
    BY <2>7 DEF Counted, Mine, MineNext
  <2> QED
    BY <1>2, <1>5, <1>6, <2>6, <2>8, ClientStep
<1> QED
  BY <1>7, <1>8

-----------------------------------------------------------------------------
(* The theorems.                                                              *)

LEMMA OwnerKept == ASSUME GenNext PROVE owner' = owner
  BY DEF GenNext, poolVars, Subscribed, SetupFailed, Authorised, Recruited, Notify,
     HangUp,
     UserHangUp, UpstreamReconnect, Recruit, Reconnect, SetupRefused, AddProxy, DisableProxy,
     EnableProxy, DeleteProxy, PoolDown, PoolUp

LEMMA GenNextKeeps ==
    ASSUME ProxyInv, GenNext, UNCHANGED stratVars
    PROVE  ProxyInv'
<1>1. UNCHANGED <<current, prio, proxy, client, loop, reaping, crashed>>
  BY DEF stratVars
<1>2. /\ GenTypes /\ Fresh /\ Agreed /\ StratTypes /\ PrioTypes
      /\ BoundSubscribed /\ Tidy /\ Counted /\ BestElse
      /\ proxy \in [Keys -> ProxyRec] /\ client \in [Clients -> ClientRec]
      /\ loop \in [at : {"idle", "fill", "check", "walk", "reap"}, k : Keys]
  BY InvFacts
<1>3. GenTypes' /\ Fresh' /\ Agreed' /\ toStrat' \in Seq(ToStrat)
  BY <1>1, <1>2, GenStep DEF GenGoal, GenBefore
<1>4. StratTypes' /\ PrioTypes' /\ Tidy'
  BY <1>1, <1>2, <1>3 DEF StratTypes, PrioTypes, Tidy
<1>5. BoundSubscribed'
  BY <1>1, <1>2 DEF BoundSubscribed
<1>6. Counted'
  BY <1>1, <1>2 DEF Counted, Mine
<1>7. BestElse'
  <2>1. owner' = owner
    BY OwnerKept
  <2>2. Choosing => Choosing'
    BY <1>1, <2>1 DEF Choosing, Global
  <2>3. current = BestNow(proxy) => current' = BestNow(proxy)'
    BY <1>1, <1>2, <2>1, BestStays
  <2> QED
    BY <1>2, <2>2, <2>3 DEF BestElse
<1> QED
  BY <1>3, <1>4, <1>5, <1>6, <1>7 DEF ProxyInv

LEMMA ProxyInitInv == ProxyInit => ProxyInv
<1> SUFFICES ASSUME GenInit, StratInit PROVE ProxyInv
  BY DEF ProxyInit
<1>1. Key(0) \in Keys /\ 0 \in Proxies
  BY ProxiesAre, KeyFacts
<1>2. GenTypes
  <2> DEFINE r(p) == [made |-> p \in First, listed |-> p \in First, disabled |-> FALSE,
                      reconnecting |-> FALSE, authorised |-> FALSE,
                      recruit |-> 0, count |-> 0]
  <2>1. parent = [p \in Proxies |-> r(p)]
    BY Zenon DEF GenInit
  <2>2. ASSUME NEW p \in Proxies PROVE IsParentRec(r(p))
    <3>1. \A x \in BOOLEAN :
            IsParentRec([made |-> x, listed |-> x, disabled |-> FALSE, reconnecting |-> FALSE,
                         authorised |-> FALSE, recruit |-> 0, count |-> 0])
      BY DEF IsParentRec, ParentOf
    <3>2. (p \in First) \in BOOLEAN
      OBVIOUS
    <3> QED
      BY <3>1, <3>2, Zenon
  <2> HIDE DEF r
  <2>3. ParentTypes
    <3>1. \A p \in Proxies : parent[p] = r(p)
      BY <2>1
    <3>2. \A p \in Proxies : IsParentRec(parent[p])
      BY <2>2, <3>1
    <3>3. parent = [p \in Proxies |-> parent[p]]
      BY <2>1
    <3> QED
      BY <3>2, <3>3 DEF ParentTypes
  <2>4. session \in [Keys -> SessionState]
    BY DEF GenInit, SessionState
  <2>5. linked \subseteq Keys
    BY KeyFacts, GeneratorProxiesAssumption DEF GenInit, First
  <2> QED
    BY <2>3, <2>4, <2>5 DEF GenTypes
<1>3. Fresh
  <2>1. \A p \in Proxies : /\ parent[p].made <=> p \in First
                           /\ parent[p].listed <=> p \in First
    BY DEF GenInit
  <2>2. \A k \in Keys : session[k] = IF IsParent(k) /\ k[1] \in First THEN "idle" ELSE "none"
    BY DEF GenInit
  <2>3. \A p \in Proxies : Key(p) \in Keys /\ Key(p)[1] = p
    BY KeyFacts
  <2>4. \A p \in Proxies : session[Key(p)] # "none" \/ parent[p].listed => parent[p].made
    BY <2>1, <2>2, <2>3
  <2>5. /\ \A k \in Keys : session[k] = "none" \/ IsParent(k)
        /\ \A k \in Keys : session[k] \in {"none", "idle"}
    BY <2>2
  <2> QED
    BY <2>4, <2>5 DEF Fresh
<1>4. StratTypes /\ PrioTypes
  <2>1. NoProxyRec \in ProxyRec /\ NoClient \in ClientRec
    BY <1>1 DEF NoProxyRec, ProxyRec, NoClient, ClientRec
  <2>2. toStrat \in Seq(ToStrat)
    BY DEF StratInit
  <2>3. /\ proxy \in [Keys -> ProxyRec] /\ client \in [Clients -> ClientRec]
        /\ prio \in [Proxies -> Nat]
    BY <2>1 DEF StratInit, Unset
  <2>4. loop \in [at : {"idle", "fill", "check", "walk", "reap"}, k : Keys]
    BY <1>1 DEF StratInit
  <2> QED
    BY <2>2, <2>3, <2>4 DEF StratTypes, PrioTypes
<1>5. \A k \in Keys : proxy[k] = NoProxyRec /\ ~ proxy[k].there /\ ~ proxy[k].subscribed
                      /\ ~ proxy[k].deleted /\ proxy[k].bound = 0
  BY DEF StratInit, NoProxyRec
<1>6. \A c \in Clients : ~ client[c].bound
  BY DEF StratInit, NoClient
<1>7. loop.at = "idle" /\ toStrat = <<>> /\ current = NoProxy
  BY DEF StratInit
<1>8. Tidy /\ BoundSubscribed
  BY <1>5, <1>6, <1>7 DEF Tidy, BoundSubscribed
<1>9. Agreed
  <2>1. \A k \in Keys : ~ Taken(k)
    BY <1>5, <1>7 DEF Taken
  <2>2. \A k \in Keys : session[k] \in {"none", "idle"}
    BY DEF GenInit
  <2> QED
    BY <2>1, <2>2 DEF Agreed
<1>10. Counted
  <2>1. \A k : Mine(k) = {}
    BY <1>6 DEF Mine
  <2> QED
    BY <1>5, <2>1, FS_EmptySet DEF Counted
<1>11. BestElse
  <2>1. AliveSet(proxy, owner) = {}
    BY <1>5, KeyFacts DEF AliveSet
  <2>2. current = BestNow(proxy)
    BY <1>7, <2>1, BestNowIs DEF BestGiven
  <2> QED
    BY <2>2 DEF BestElse
<1> QED
  BY <1>2, <1>3, <1>4, <1>8, <1>9, <1>10, <1>11 DEF ProxyInv

LEMMA ProxyInvariance == ProxySpec => []ProxyInv
<1>1. ASSUME ProxyInv, ProxyNext PROVE ProxyInv'
  <2>1. CASE GenNext /\ UNCHANGED stratVars
    BY <1>1, <2>1, GenNextKeeps
  <2>2. CASE Loop \/ DropReap
    BY <1>1, <2>2, SubscribeKeeps, LoopFillKeeps, LoopNotifyKeeps, LoopDeadKeeps,
       LoopAsksKeep, ReapKeeps, Zenon DEF Loop
  <2>3. CASE \E c \in Clients : Client(c)
    BY <1>1, <2>3, ClientsKeep, BindKeeps, LeaveKeeps, Zenon DEF Client
  <2> QED
    BY <1>1, <2>1, <2>2, <2>3, Zenon DEF ProxyNext
<1>2. ASSUME ProxyInv, UNCHANGED vars PROVE ProxyInv'
  <2>1. UNCHANGED <<genVars, toStrat, owner, current, prio, loop, proxy, client>>
    BY <1>2 DEF vars, poolVars, links, stratVars
  <2>2. client \in [Clients -> ClientRec]
    BY <1>2, InvFacts
  <2> QED
    BY <1>2, <2>1, <2>2, ClientQuiet
<1> QED
  BY <1>1, <1>2, ProxyInitInv, PTL DEF ProxySpec

\* The two processes agree on which sessions there are, once the messages under
\* way are handled (send_stratifier_deadproxy, send_subscribe, dead_proxyid):
\* what the stratifier takes for alive the generator has or is setting up, with a
\* connection, and what the generator has with a connection, the stratifier takes
\* for alive.
THEOREM AgreementThm == ProxySpec => []Agreement
<1>1. ProxyInv => Agreement
  <2> SUFFICES ASSUME ProxyInv, NEW k \in Keys
               PROVE  /\ TakenAlive(k) => (Alive(k) \/ session[k] = "auth") /\ k \notin closed
                      /\ Alive(k) /\ k \notin closed => TakenAlive(k)
    BY Zenon DEF Agreement
  <2>1. StratTypes /\ Agreed
    BY InvFacts
  <2>2. TakenAlive(k) <=> Taken(k)
    BY <2>1, TakenIs
  <2> QED
    BY <2>1, <2>2 DEF Agreed, Alive
<1> QED
  BY <1>1, ProxyInvariance, PTL

\* The clients that new_enonce1 has bound to a session, and __kill_instance has
\* not released, are what bound_clients says; none of them loses the session to
\* reap_proxies.
THEOREM BoundCountedThm == ProxySpec => []BoundCounted
<1>1. ProxyInv => BoundCounted
  BY Zenon DEF ProxyInv, Counted, Mine, BoundCounted
<1> QED
  BY <1>1, ProxyInvariance, PTL

\* Whenever stratum_loop has no message in hand, the pool works for the first
\* global proxy in the list that is alive, if there is one (check_bestproxy).
THEOREM BestAliveThm == ProxySpec => []BestAlive
<1>1. ProxyInv => BestAlive
  BY DEF ProxyInv, BestElse, Choosing, BestAlive, Idle
<1> QED
  BY <1>1, ProxyInvariance, PTL
=============================================================================
