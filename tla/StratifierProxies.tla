------------------------- MODULE StratifierProxies -------------------------
(* The stratifier in proxy mode (src/src/stratifier.c): the proxies it has    *)
(* heard of from the generator, which of them the miners work for, and the    *)
(* reconnects that move miners from one to another.                           *)
(*                                                                           *)
(* Three kinds of threads meet here: stratum_loop, which handles the          *)
(* generator's messages, the threads that receive from miners, and whichever  *)
(* thread drops a miner and then reaps the proxies nobody is bound to.        *)
(* Reading freed memory and following a null pointer end the program here.    *)
EXTENDS GeneratorProxies

CONSTANTS
    Clients,     \* connections of miners
    User,        \* User[c]: the user c authorises as
    MaxClients,  \* max_clients of a session, as its nonce2 length has it
    NoProxy      \* no current proxy

ASSUME StratifierProxiesAssumption ==
    /\ IsFiniteSet(Clients) /\ User \in [Clients -> Nat \ {0}]
    /\ MaxClients \in Nat \ {0} /\ NoProxy \notin Proxies

VARIABLES
    current,  \* sdata->proxy: the global proxy the pool works for
    prio,     \* prio[p]: its priority within its user
    proxy,    \* proxy[k]: the proxy_t of session k
    client,   \* client[c]: a stratum instance, as far as proxies matter
    loop,     \* what stratum_loop is doing, and about which session
    reaping,  \* a thread that has dropped a client comes to reap_proxies
    crashed

stratVars == <<current, prio, proxy, client, loop, reaping, crashed>>
vars == <<poolVars, genVars, links, stratVars>>

Unset == 1000    \* the initial priority, impossibly high

\* A proxy_t: known to the stratifier or not, dead, deleted (of parents),
\* subscribed, with a current workbase; the counters of clients.
ProxyRec == [there : BOOLEAN, dead : BOOLEAN, deleted : BOOLEAN,
             subscribed : BOOLEAN, work : BOOLEAN, clients : Nat, bound : Int]
NoProxyRec == [there |-> FALSE, dead |-> FALSE, deleted |-> FALSE,
               subscribed |-> FALSE, work |-> FALSE, clients |-> 0, bound |-> 0]

\* A client: "away" or "gone", without an instance, "chosen" when select_sdata has found
\* it a session, pick; proxyid and subproxyid in key, zero to begin with; bound
\* to it when new_enonce1 has counted it; flagged to be moved later.
ClientRec == [at : {"away", "gone", "new", "chosen", "subscribed", "authorised"},
              pick : Keys, key : Keys, bound : BOOLEAN, reconnect : BOOLEAN]
NoClient == [at |-> "away", pick |-> Key(0), key |-> Key(0), bound |-> FALSE,
             reconnect |-> FALSE]

StratTypeOK ==
    /\ current \in Proxies \union {NoProxy} /\ prio \in [Proxies -> Nat]
    /\ proxy \in [Keys -> ProxyRec] /\ client \in [Clients -> ClientRec]
    /\ loop \in [at : {"idle", "fill", "check", "walk", "reap"}, k : Keys]
    /\ reaping \in BOOLEAN /\ crashed \in BOOLEAN

StratInit ==
    /\ toStrat = <<>> /\ toGen = <<>>
    /\ current = NoProxy /\ prio = [p \in Proxies |-> Unset]
    /\ proxy = [k \in Keys |-> NoProxyRec]
    /\ client = [c \in Clients |-> NoClient]
    /\ loop = [at |-> "idle", k |-> Key(0)] /\ reaping = FALSE /\ crashed = FALSE

ProxyInit == GenInit /\ StratInit

Subs(p) == {k \in Keys : k[1] = p /\ proxy[k].there}

\* Room for more clients in the live sessions of p.
Headroom(p) ==
    MapThenSumSet(LAMBDA k : MaxClients - proxy[k].clients,
                  {k \in Subs(p) : ~ proxy[k].dead /\ proxy[k].subscribed})

ProxyAlive(px, p) == \E k \in Keys : k[1] = p /\ px[k].there /\ ~ px[k].dead

\* The list of proxies is sorted by user and priority: the first of a set.
\* Ties stay in the order of their ids.
Best(S) == CHOOSE p \in S : \A q \in S : prio[p] < prio[q] \/ (prio[p] = prio[q] /\ p <= q)

\* The first proxy of a user that is alive.
AliveOf(u) == {p \in Proxies : owner[p] = u /\ proxy[Key(p)].there /\ ProxyAlive(proxy, p)}

-----------------------------------------------------------------------------
(* Helpers of the handlers.                                                  *)

\* check_bestproxy: the first global proxy that is alive.  A parent whose own
\* session has never subscribed is not known to be global, though its
\* subproxies may be alive.
BestNow(px) ==
    LET alive == {p \in Proxies : Global(p) /\ px[Key(p)].subscribed /\ ProxyAlive(px, p)}
    IN  IF alive = {} THEN NoProxy ELSE Best(alive)

CheckBest(px) == current' = BestNow(px)

\* generator_recruit.
\* (bound) one request at a time
AskRecruits(p, n) ==
    toGen' = IF n > 0 /\ toGen = <<>> THEN <<[id |-> p, recruits |-> n]>> ELSE toGen

\* reconnect_client for as many of the clients in S as there is room for, in
\* whatever order the table has them: they get a message, and leave or not.
\* Recruits are asked for the others, which with mark are flagged.
AskReconnects(S, room, p, mark) ==
    LET n == IF room < 0 THEN 0 ELSE IF room < Cardinality(S) THEN room ELSE Cardinality(S)
    IN  /\ \E A \in kSubset(n, S) :
            client' = [c \in Clients |->
                         IF c \in S \ A /\ mark THEN [client[c] EXCEPT !.reconnect = TRUE]
                         ELSE client[c]]
        /\ AskRecruits(p, Cardinality(S) - room)

-----------------------------------------------------------------------------
(* stratum_loop.                                                             *)

Idle == loop.at = "idle" /\ ~ crashed
Take(t) == Idle /\ toStrat # <<>> /\ Head(toStrat).t = t /\ toStrat' = Tail(toStrat)
Then(place, key) == loop' = [at |-> place, k |-> key]

\* A client that has not subscribed has the key it began with.
ClientsOf(k) == {c \in Clients : client[c].at \notin {"away", "gone"} /\ client[c].key = k}
Room == IF current = NoProxy THEN 0 ELSE Headroom(current)

\* subscribe=: a session the stratifier knows is replaced; its clients are told
\* to reconnect, while it counts as dead.
LoopSubscribe ==
    LET k == Head(toStrat).k IN
    /\ Take("subscribe")
    /\ IF proxy[k].there
       THEN /\ proxy' = [proxy EXCEPT ![k].dead = TRUE, ![k].deleted = FALSE]
            /\ LET room == IF current = NoProxy THEN 0
                           ELSE Headroom(current) - (IF current = k[1] /\ ~ proxy[k].dead
                                                     THEN MaxClients - proxy[k].clients ELSE 0)
               IN AskReconnects(ClientsOf(k), room, IF current = NoProxy THEN 0 ELSE current, TRUE)
       ELSE UNCHANGED <<proxy, client, toGen>>
    /\ Then("fill", k)
    /\ UNCHANGED <<poolVars, genVars, current, prio, reaping, crashed>>

\* __set_proxy_prio for a new session of p, parent or subproxy: a proxy that
\* has that priority is moved up one, and so is each behind it whose own is no
\* more than that of the one before has become, plus one.
NewPrio(k) ==
    LET p == k[1]
        behind == {q \in Proxies : owner[q] = owner[p] /\ prio[q] # Unset /\ prio[q] >= p}
        Before(q) == {r \in behind : prio[r] < prio[q]}
        moved == {q \in behind : \A r \in Before(q) \union {q} :
                                   prio[r] <= p + 1 + Cardinality(Before(r))}
        taken == \E q \in behind : prio[q] = p
    IN  [q \in Proxies |-> IF q = p /\ IsParent(k) THEN p
                           ELSE IF taken /\ q \in moved THEN prio[q] + 1 ELSE prio[q]]

\* The session is there, fresh.
LoopFill ==
    LET k == loop.k
        fresh == [there |-> TRUE, dead |-> FALSE, subscribed |-> TRUE, clients |-> 0,
                  work |-> proxy[k].work, bound |-> proxy[k].bound,
                  deleted |-> proxy[k].deleted]
    IN
    /\ loop.at = "fill" /\ ~ crashed
    /\ proxy' = [j \in Keys |->
                   IF j = k THEN fresh
                   ELSE IF j = Key(k[1]) THEN [proxy[j] EXCEPT !.there = TRUE]
                   ELSE proxy[j]]
    /\ prio' = IF proxy[k].there THEN prio ELSE NewPrio(k)
    /\ Then("check", k)
    /\ UNCHANGED <<poolVars, genVars, links, current, client, reaping, crashed>>

\* notify=: work for a session that has subscribed.
LoopNotify ==
    LET k == Head(toStrat).k
        known == proxy[k].there /\ proxy[k].subscribed
    IN
    /\ Take("notify")
    /\ proxy' = IF known THEN [proxy EXCEPT ![k].work = TRUE] ELSE proxy
    /\ Then(IF known THEN "check" ELSE "idle", k)
    /\ UNCHANGED <<poolVars, genVars, toGen, current, prio, client, reaping, crashed>>

\* Clients that are to move to global proxy p: those of other global proxies,
\* and those flagged.
ToGlobal(p) ==
    {c \in Clients : client[c].at = "authorised"
        /\ (client[c].reconnect \/ (owner[client[c].key[1]] = 0 /\ client[c].key[1] # p))}

\* check_proxy of a global session: check_globalproxies follows the pointer to
\* the best proxy, of which there may be none.
LoopCheckGlobal ==
    /\ loop.at = "check" /\ ~ crashed /\ Global(loop.k[1])
    /\ CheckBest(proxy)
    /\ IF current' = NoProxy THEN crashed' = TRUE /\ UNCHANGED <<client, toGen>>
       ELSE /\ UNCHANGED crashed
            /\ IF loop.k[1] = current'
               THEN AskReconnects(ToGlobal(current'), Headroom(current'), current', FALSE)
               ELSE UNCHANGED <<client, toGen>>
    /\ Then("idle", loop.k)
    /\ UNCHANGED <<poolVars, genVars, toStrat, prio, proxy, reaping>>

\* Clients of user u that are to move to proxy p of theirs.
ToUser(u, p) ==
    {c \in Clients : client[c].at = "authorised" /\ User[c] = u
        /\ ~ (owner[client[c].key[1]] = u /\ prio[client[c].key[1]] <= prio[p])}

\* check_proxy of a user's session: check_userproxies.  recruit_best_userproxy
\* recruits for the last proxy of the user that is alive.
LoopCheckUser ==
    LET p == loop.k[1]
        alive == AliveOf(owner[p])
        last == CHOOSE q \in alive : \A r \in alive : prio[r] <= prio[q]
    IN
    /\ loop.at = "check" /\ ~ crashed /\ ~ Global(p)
    /\ AskReconnects(ToUser(owner[p], p), IF alive = {} THEN 0 ELSE Headroom(Best(alive)),
                     IF alive = {} THEN p ELSE last, FALSE)
    /\ Then("idle", loop.k)
    /\ UNCHANGED <<poolVars, genVars, toStrat, current, prio, proxy, reaping, crashed>>

\* (mutant) a dead subproxy is not taken for a reason to look for another proxy
LoopDeadParentOnly ==
    LET k == Head(toStrat).k
        marked == [proxy EXCEPT ![k].dead = TRUE, ![k].deleted = Head(toStrat).t = "del"]
    IN
    /\ Take("dead") \/ Take("del")
    /\ IF proxy[k].there
       THEN /\ proxy' = marked
            /\ IF Global(k[1]) /\ IsParent(k) THEN CheckBest(marked) ELSE UNCHANGED current
       ELSE UNCHANGED <<proxy, current>>
    /\ Then("walk", k)
    /\ UNCHANGED <<poolVars, genVars, toGen, prio, client, reaping, crashed>>

\* deadproxy=, delproxy=: dead_proxyid.
LoopDead ==
    LET k == Head(toStrat).k
        marked == [proxy EXCEPT ![k].dead = TRUE, ![k].deleted = Head(toStrat).t = "del"]
    IN
    /\ Take("dead") \/ Take("del")
    /\ IF proxy[k].there
       THEN /\ proxy' = marked
            /\ IF Global(k[1]) THEN CheckBest(marked) ELSE UNCHANGED current
       ELSE UNCHANGED <<proxy, current>>
    /\ Then("walk", k)
    /\ UNCHANGED <<poolVars, genVars, toGen, prio, client, reaping, crashed>>

\* Its clients are asked to reconnect.
LoopWalk ==
    /\ loop.at = "walk" /\ ~ crashed
    /\ AskReconnects(ClientsOf(loop.k), Room, IF current = NoProxy THEN 0 ELSE current, TRUE)
    /\ Then("reap", loop.k)
    /\ UNCHANGED <<poolVars, genVars, toStrat, current, prio, proxy, reaping, crashed>>

-----------------------------------------------------------------------------
(* reap_proxies.                                                             *)

\* Dead subproxies without clients.
Reapable(k) == proxy[k].there /\ ~ IsParent(k) /\ proxy[k].bound = 0 /\ proxy[k].dead

\* A deleted parent goes with its last subproxy.
Retired(p) ==
    /\ proxy[Key(p)].there /\ proxy[Key(p)].deleted /\ proxy[Key(p)].bound = 0
    /\ \A k \in Subs(p) : IsParent(k) \/ Reapable(k)

Reaped ==
    [k \in Keys |->
       IF Reapable(k) \/ (IsParent(k) /\ Retired(k[1])) THEN NoProxyRec
       ELSE IF proxy[k].there /\ proxy[k].bound = 0 /\ ~ proxy[k].dead
       THEN [proxy[k] EXCEPT !.clients = 0]
       ELSE proxy[k]]

Reap ==
    /\ proxy' = Reaped
    /\ prio' = [p \in Proxies |-> IF Retired(p) THEN Unset ELSE prio[p]]
    /\ UNCHANGED <<poolVars, genVars, links, current, client, crashed>>

LoopReap == loop.at = "reap" /\ ~ crashed /\ Reap /\ Then("idle", loop.k) /\ UNCHANGED reaping
DropReap == reaping /\ ~ crashed /\ Reap /\ reaping' = FALSE /\ UNCHANGED loop

-----------------------------------------------------------------------------
(* Clients.                                                                  *)

\* (bound) each client comes once
Connect(c) ==
    /\ client[c].at = "away" /\ ~ crashed
    /\ client' = [client EXCEPT ![c] = [NoClient EXCEPT !.at = "new"]]
    /\ UNCHANGED <<poolVars, genVars, links, current, prio, proxy, loop, reaping, crashed>>

\* __best_subproxy: the first live session of p with work and room.
RoomIn(p) == {k \in Subs(p) : ~ proxy[k].dead /\ proxy[k].work /\ proxy[k].clients < MaxClients}

\* select_sdata for user u: the session it chooses.  Without a proxy of that
\* user it is the current one's parent.
Selected(u, k) ==
    LET mine == {p \in Proxies : owner[p] = u /\ proxy[Key(p)].there}
        able == {p \in mine : RoomIn(p) # {}}
    IN  IF mine = {} THEN current # NoProxy /\ k = Key(current)
        ELSE able # {} /\ k \in RoomIn(Best(able))

\* The recruits it asks for; without a current proxy the pointer is null.
SelectRecruits(u, k) ==
    IF u = 0
    THEN IF current = NoProxy THEN crashed' = TRUE /\ UNCHANGED toGen
         ELSE /\ UNCHANGED crashed
              /\ AskRecruits(current, IF k[1] # current \/ Headroom(current) < 2 THEN 1 ELSE 0)
    ELSE /\ UNCHANGED crashed
         /\ AskRecruits(k[1], IF AliveOf(u) = {} THEN 1
                              ELSE IF Headroom(Best(AliveOf(u))) < 2 THEN 1 ELSE 0)

\* mining.subscribe: parse_subscribe.  A client whose session is remembered
\* gets a proxy of its user if there is one.
Select(c) ==
    /\ client[c].at = "new" /\ ~ crashed
    /\ \E k \in Keys : Selected(0, k) /\ proxy[k].work
    /\ \E u \in {0, User[c]}, k \in Keys :
        /\ Selected(u, k)
        /\ SelectRecruits(u, k)
        /\ client' = [client EXCEPT ![c].at = "chosen", ![c].pick = k]
    /\ UNCHANGED <<poolVars, genVars, toStrat, current, prio, proxy, loop, reaping>>

\* new_enonce1 finds the session gone: it works on freed memory.
BindFreed(c) ==
    /\ client[c].at = "chosen" /\ ~ crashed /\ ~ proxy[client[c].pick].there
    /\ crashed' = TRUE
    /\ UNCHANGED <<poolVars, genVars, links, current, prio, proxy, client, loop, reaping>>

Full(k) == current = NoProxy \/ proxy[k].clients >= MaxClients \/ ~ proxy[k].work

\* (mutant) a client refused is counted as bound
BindCountsRefused(c) ==
    LET k == client[c].pick IN
    /\ client[c].at = "chosen" /\ ~ crashed /\ proxy[k].there
    /\ proxy' = [proxy EXCEPT ![k].clients = @ + 1, ![k].bound = @ + 1]
    /\ client' = [client EXCEPT ![c].at = IF Full(k) THEN "new" ELSE "subscribed",
                                ![c].bound = ~ Full(k), ![c].key = k, ![c].pick = Key(0)]
    /\ UNCHANGED <<poolVars, genVars, links, current, prio, loop, reaping, crashed>>

\* new_enonce1: the client is bound to its session, unless that is full.
Bind(c) ==
    LET k == client[c].pick IN
    /\ client[c].at = "chosen" /\ ~ crashed /\ proxy[k].there
    /\ client' = [client EXCEPT ![c].at = IF Full(k) THEN "new" ELSE "subscribed",
                                ![c].bound = ~ Full(k), ![c].key = k, ![c].pick = Key(0)]
    /\ proxy' = IF Full(k) THEN proxy
                ELSE [proxy EXCEPT ![k].clients = @ + 1, ![k].bound = @ + 1]
    /\ UNCHANGED <<poolVars, genVars, links, current, prio, loop, reaping, crashed>>

Authorise(c) ==
    /\ client[c].at = "subscribed" /\ ~ crashed
    /\ client' = [client EXCEPT ![c].at = "authorised"]
    /\ UNCHANGED <<poolVars, genVars, links, current, prio, proxy, loop, reaping, crashed>>

\* The generator has no such session for a share, or a dead one
\* (submit_share): the client is told to reconnect.
ShareRefused(c) ==
    /\ client[c].at = "authorised" /\ ~ crashed /\ ~ client[c].reconnect
    /\ ~ (client[c].key \in linked /\ Alive(client[c].key))
    /\ client' = [client EXCEPT ![c].reconnect = TRUE]
    /\ UNCHANGED <<poolVars, genVars, links, current, prio, proxy, loop, reaping, crashed>>

\* The client leaves, as it should when told to reconnect: __kill_instance.
Leave(c) ==
    LET k == client[c].key IN
    /\ client[c].at \notin {"away", "gone", "chosen"} /\ ~ crashed
    /\ client' = [client EXCEPT ![c] = [NoClient EXCEPT !.at = "gone"]]
    /\ proxy' = IF client[c].bound THEN [proxy EXCEPT ![k].bound = @ - 1] ELSE proxy
    /\ reaping' = TRUE
    /\ UNCHANGED <<poolVars, genVars, links, current, prio, loop, crashed>>

-----------------------------------------------------------------------------

Loop ==
    \/ LoopSubscribe \/ LoopFill \/ LoopNotify \/ LoopCheckGlobal \/ LoopCheckUser
    \/ LoopDead \/ LoopWalk \/ LoopReap
Client(c) ==
    \/ Connect(c) \/ Select(c) \/ BindFreed(c) \/ Bind(c) \/ Authorise(c)
    \/ ShareRefused(c) \/ Leave(c)

ProxyNext ==
    \/ ~ crashed /\ GenNext /\ UNCHANGED stratVars
    \/ Loop \/ DropReap
    \/ \E c \in Clients : Client(c)

-----------------------------------------------------------------------------
(* Properties.                                                               *)

\* Whether the stratifier takes session k for alive, once the messages under
\* way have been handled.
TakenAlive(k) ==
    LET mine == {i \in DOMAIN toStrat : toStrat[i].k = k /\ toStrat[i].t # "notify"}
        last == CHOOSE i \in mine : \A j \in mine : j <= i
    IN  IF mine # {} THEN toStrat[last].t = "subscribe"
        ELSE (loop.at = "fill" /\ loop.k = k) \/ (proxy[k].subscribed /\ ~ proxy[k].dead)

\* send_stratifier_deadproxy, send_subscribe: the two processes agree on which
\* sessions there are.  What the stratifier takes for alive the generator has or
\* is setting up, with a connection; what the generator has with a connection, the
\* stratifier takes for alive.  (One that is disabled, or told to reconnect, while
\* it is being authorised may be alive in the end with its descriptor closed: that
\* one the stratifier takes for dead, though the generator does not.)
Agreement ==
    ~ crashed => \A k \in Keys :
        /\ TakenAlive(k) => (Alive(k) \/ session[k] = "auth") /\ k \notin closed
        /\ Alive(k) /\ k \notin closed => TakenAlive(k)

\* new_enonce1, __kill_instance, reap_proxies: bound_clients is the number of
\* clients that work on a session, and none of these is reaped.
BoundCounted ==
    \A k \in Keys :
        LET mine == {c \in Clients : client[c].bound /\ client[c].key = k}
        IN  /\ proxy[k].bound = Cardinality(mine)
            /\ mine # {} => proxy[k].there

\* check_bestproxy: with no message being handled, the pool works for an alive
\* global proxy if there is one, the first in the list.
BestAlive == Idle => current = BestNow(proxy)

\* stratifier.c:2914: a new proxy's priority, its id, puts it in its place in
\* the list, so the pool works for the first one of the configuration that is
\* alive.
ProxyOrder ==
    Idle /\ current # NoProxy =>
        \A p \in Proxies : Global(p) /\ proxy[Key(p)].subscribed /\ ProxyAlive(proxy, p) => current <= p
=============================================================================
