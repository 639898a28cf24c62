-------------------------- MODULE GeneratorProxies --------------------------
(* The generator in proxy mode (src/src/generator.c): its sessions with the   *)
(* upstream pools.                                                            *)
(*                                                                           *)
(* Every pool has a parent proxy, whose own session has subid 0, and          *)
(* subproxies: further sessions with the same pool, set up one after the      *)
(* other by a thread of its own when the stratifier wants room for more       *)
(* miners.  A session that is lost is reported to the stratifier; a parent's  *)
(* is set up again, a subproxy's data is recycled.                            *)
EXTENDS Integers, Sequences, FiniteSets, FiniteSetsExt

CONSTANTS
    Proxies,     \* ids of the proxies, 0 .. n-1: the pools of the configuration
                 \* in their order, and those added by command
    Configured,  \* those in the configuration, if they are global
    Owners,      \* possible owners of the proxies
    MaxSub,      \* bound: MaxSub[p]: the subids of proxy p
    PerProxy,    \* clients_per_proxy: miners one session has room for
    MaxQueue,    \* bound: messages under way to the stratifier
    MaxEvents    \* bound: notifies, sessions lost, reconnects, proxies disabled,
                 \* enabled or deleted

ASSUME GeneratorProxiesAssumption ==
    /\ IsFiniteSet(Proxies) /\ Proxies # {} /\ Proxies = 0..(Cardinality(Proxies) - 1)
    /\ Configured \subseteq Proxies /\ Configured # {}
    /\ Owners \subseteq [Proxies -> Nat]
    /\ MaxSub \in [Proxies -> Nat] /\ PerProxy \in Nat \ {0}
    /\ MaxQueue \in Nat \ {0} /\ MaxEvents \in Nat

VARIABLES
    up,       \* up[p]: the pool takes new sessions
    events,
    owner,    \* owner[p]: the user whose proxy p is (userid), 0: a global one
    parent,   \* parent[p]: the proxy_instance of p, what concerns all sessions
    session,  \* session[k]: where the session with subid k[2] of proxy k[1] is
    linked,   \* keys in the hash lists of subproxies
    closed,   \* sessions being authorised or alive whose descriptor is closed
    toStrat,  \* messages to the stratifier
    toGen     \* recruit requests to the generator: [id, recruits]

poolVars == <<up, events, owner>>
genVars == <<parent, session, linked, closed>>
links == <<toStrat, toGen>>

Keys == UNION {{p} \X (0..MaxSub[p]) : p \in Proxies}
Key(p) == <<p, 0>>
Global(p) == owner[p] = 0
IsParent(k) == k[2] = 0

\* A session: "none" is one that does not exist; an "idle" one is not alive,
\* nor being set up unless it is a subproxy's; "auth" has subscribed; "made" is
\* a subproxy's that is alive but not in the hash list yet, a "lost" one broke
\* before it got there.
SessionState == {"none", "idle", "auth", "made", "lost", "alive"}
\* made: the id has been given out (ckp->proxies)
ParentRec == [made : BOOLEAN, listed : BOOLEAN, disabled : BOOLEAN,
              reconnecting : BOOLEAN, authorised : BOOLEAN, recruit : Nat, count : Nat]
ToStrat == [t : {"subscribe", "notify", "dead", "del"}, k : Keys]

GenTypeOK ==
    /\ up \in [Proxies -> BOOLEAN] /\ events \in 0..MaxEvents
    /\ parent \in [Proxies -> ParentRec] /\ session \in [Keys -> SessionState]
    /\ linked \subseteq Keys /\ closed \subseteq Keys /\ owner \in [Proxies -> Nat]

\* The proxies listed to begin with.
First == {p \in Configured : Global(p)}

GenInit ==
    /\ up = [p \in Proxies |-> TRUE] /\ events = 0 /\ owner \in Owners
    /\ parent = [p \in Proxies |->
                   [made |-> p \in First, listed |-> p \in First, disabled |-> FALSE,
                    reconnecting |-> FALSE, authorised |-> FALSE,
                    recruit |-> 0, count |-> 0]]
    /\ session = [k \in Keys |->
                   IF IsParent(k) /\ k[1] \in First THEN "idle" ELSE "none"]
    /\ linked = {Key(p) : p \in First} /\ closed = {}

\* (bound) One more event.
Event == events < MaxEvents /\ events' = events + 1

\* send_proc to the stratifier, at most MaxQueue at a time (bound).
Send(msgs) ==
    /\ Len(toStrat) + Len(msgs) <= MaxQueue + 1
    /\ toStrat' = toStrat \o msgs
Msg(t, k) == [t |-> t, k |-> k]

\* A session is in use, as far as the generator knows.
Alive(k) == session[k] \in {"made", "alive"}

-----------------------------------------------------------------------------
(* Setting up a session: proxy_alive.                                        *)

\* The recruiting thread of p makes a subproxy (create_subproxy): its subid is
\* new.
\* (bound) MaxSub subids
Create(p, rec) ==
    LET s == rec.count + 1 IN
    /\ parent' = [parent EXCEPT ![p] = [rec EXCEPT !.count = s]]
    /\ session' = [session EXCEPT ![<<p, s>>] = "idle"]

\* The thread is done with subproxy k, which is alive or not: it makes another
\* if more are asked for.
RecruitMore(k, alive) ==
    LET p == k[1]
        more == alive /\ parent[p].recruit > 0
        done == [session EXCEPT ![k] = CASE ~ alive -> "none"
                                         [] @ = "made" -> "alive"
                                         [] OTHER -> @]
    IN  IF more /\ parent[p].count < MaxSub[p]
        THEN /\ parent' = [parent EXCEPT ![p].count = @ + 1]
             /\ session' = [done EXCEPT ![<<p, parent[p].count + 1>>] = "idle"]
        ELSE /\ parent' = [parent EXCEPT ![p].recruit = 0]
             /\ session' = done

\* A thread sets k up: the recruiting one a subproxy, proxy_reconnect a parent
\* that is not disabled.
Attended(k) ==
    session[k] = "idle"
    /\ (IsParent(k) => parent[k[1]].reconnecting /\ ~ parent[k[1]].disabled)

\* Connected and subscribed: the stratifier hears of it (send_subscribe).
Subscribed(k) ==
    /\ Attended(k) /\ up[k[1]]
    /\ session' = [session EXCEPT ![k] = "auth"] /\ closed' = closed \ {k}
    /\ Send(<<Msg("subscribe", k)>>)
    /\ UNCHANGED <<poolVars, parent, linked, toGen>>

\* (mutant) the stratifier is only told if the session had been alive
SetupFailedQuietly(k) ==
    /\ Attended(k) \/ session[k] = "auth"
    /\ IF up[k[1]] /\ k \notin closed THEN Event ELSE UNCHANGED events
    /\ closed' = closed \ {k}
    /\ IF IsParent(k)
       THEN /\ session' = [session EXCEPT ![k] = "idle"]
            /\ parent' = [parent EXCEPT ![k[1]].reconnecting = FALSE]
       ELSE RecruitMore(k, FALSE)
    /\ UNCHANGED <<up, owner, linked, links>>

\* Connecting, subscribing or authorising has failed, because of the pool or, with
\* the descriptor closed, for want of the answer.  A parent is tried again later, a
\* subproxy given up, and recruiting with it.
SetupFailed(k) ==
    /\ Attended(k) \/ session[k] = "auth"
    /\ IF up[k[1]] /\ k \notin closed THEN Event ELSE UNCHANGED events
    /\ closed' = closed \ {k}
    /\ Send(<<Msg("dead", k)>>)
    /\ IF IsParent(k)
       THEN /\ session' = [session EXCEPT ![k] = "idle"]
            /\ parent' = [parent EXCEPT ![k[1]].reconnecting = FALSE]
       ELSE RecruitMore(k, FALSE)
    /\ UNCHANGED <<up, owner, linked, toGen>>

\* A disabled parent is not set up.
SetupRefused(p) ==
    /\ session[Key(p)] = "idle" /\ parent[p].reconnecting /\ parent[p].disabled
    /\ parent' = [parent EXCEPT ![p].reconnecting = FALSE]
    /\ UNCHANGED <<poolVars, session, linked, closed, links>>

\* Authorised: alive, also when the descriptor was closed in the meantime and the
\* answer had been read before that.  The room a new session has is taken off what
\* was asked for.
Authorised(k) ==
    /\ session[k] = "auth"
    /\ session' = [session EXCEPT ![k] = IF IsParent(k) THEN "alive" ELSE "made"]
    /\ parent' = [parent EXCEPT ![k[1]].recruit = IF @ > PerProxy THEN @ - PerProxy ELSE 0,
                                ![k[1]].reconnecting = @ /\ ~ IsParent(k),
                                ![k[1]].authorised = @ \/ IsParent(k)]
    /\ UNCHANGED <<poolVars, linked, closed, links>>

\* proxy_recruit after proxy_alive: the subproxy is put in the hash list.
Recruited(k) ==
    /\ session[k] \in {"made", "lost"} /\ k \notin linked
    /\ linked' = linked \union {k}
    /\ RecruitMore(k, TRUE)
    /\ UNCHANGED <<poolVars, closed, links>>

\* reconnect_proxy, by the thread that receives for p.
Reconnect(p) ==
    /\ parent[p].listed /\ ~ parent[p].reconnecting /\ ~ parent[p].disabled
    /\ session[Key(p)] = "idle"
    /\ parent' = [parent EXCEPT ![p].reconnecting = TRUE]
    /\ UNCHANGED <<poolVars, session, linked, closed, links>>

-----------------------------------------------------------------------------
(* Sessions in use.                                                          *)

\* A pool is heard by session k: being authorised, from what has been read of it,
\* or in use, as long as its descriptor is open.
Hears(k) == session[k] = "auth" \/ (Alive(k) /\ k \notin closed)

\* A pool sends work: parse_notify.
Notify(k) ==
    /\ Hears(k) /\ Event
    /\ Send(<<Msg("notify", k)>>)
    /\ UNCHANGED <<up, owner, genVars, toGen>>

\* disable_subproxy: the session is not alive, the stratifier hears of it, twice for
\* a subproxy in the list, whose data is recycled, and the descriptor is closed.  A
\* thread that is authorising the session is not told, and goes on.
Disable(k, keep) ==
    /\ Send(IF IsParent(k) \/ k \notin linked THEN <<Msg("dead", k)>>
            ELSE <<Msg("dead", k), Msg("dead", k)>>)
    /\ session' = [session EXCEPT ![k] = CASE @ = "auth" -> @
                                           [] @ = "made" -> "lost"
                                           [] IsParent(k) /\ @ # "auth" -> "idle"
                                           [] OTHER -> "none"]
    /\ linked' = IF IsParent(k) THEN linked ELSE linked \ {k}
    /\ closed' = IF session[k] = "auth" THEN closed \union {k} ELSE closed \ {k}
    /\ parent' = keep

\* A global proxy's session breaks: a hangup, nothing to read, a share that
\* cannot be sent.
HangUp(k) ==
    /\ Global(k[1]) /\ Alive(k) /\ Event
    /\ Disable(k, parent)
    /\ UNCHANGED <<up, owner, toGen>>

\* userproxy_recv, the one thread of all user proxies.  It does not ask whether
\* the session is alive but whether it was ever authorised: one that is set up
\* again may be disabled in the midst of it.
UserHangUp(k) ==
    /\ ~ Global(k[1]) /\ Event
    /\ Alive(k) \/ (IsParent(k) /\ session[k] = "auth" /\ parent[k[1]].authorised)
    /\ Disable(k, parent)
    /\ UNCHANGED <<up, owner, toGen>>

\* client.reconnect: as if it broke, also while it is being authorised
\* (auth_stratum parses every line it reads).  With another url a subproxy is
\* created for it that nobody sets up.
UpstreamReconnect(k, elsewhere) ==
    /\ Hears(k) /\ Event
    /\ elsewhere => ~ IsParent(k) /\ parent[k[1]].count < MaxSub[k[1]]
    /\ Disable(k, IF elsewhere THEN [parent EXCEPT ![k[1]].count = @ + 1] ELSE parent)
    /\ UNCHANGED <<up, owner, toGen>>

-----------------------------------------------------------------------------
(* Commands: proxy_loop.                                                     *)

\* recruit=id:n.  A thread is started unless one is at work: recruit is not 0.
Recruit ==
    /\ toGen # <<>> /\ toGen' = Tail(toGen)
    /\ LET p == Head(toGen).id
           rec == [parent[p] EXCEPT !.recruit =
                     IF @ < Head(toGen).recruits THEN Head(toGen).recruits ELSE @]
       IN  IF ~ parent[p].listed THEN UNCHANGED <<parent, session>>
           ELSE IF parent[p].recruit = 0 /\ rec.recruit > 0 /\ parent[p].count < MaxSub[p]
           THEN Create(p, rec)
           ELSE /\ parent' = [parent EXCEPT ![p].recruit = IF @ = 0 THEN 0 ELSE rec.recruit]
                /\ UNCHANGED session
    /\ UNCHANGED <<poolVars, linked, closed, toStrat>>

\* addproxy=: a new one has an id that no other has had.
AddProxy(p) ==
    /\ ~ parent[p].made
    /\ parent' = [parent EXCEPT ![p].made = TRUE, ![p].listed = TRUE]
    /\ session' = [session EXCEPT ![Key(p)] = "idle"]
    /\ linked' = linked \union {Key(p)}
    /\ UNCHANGED <<poolVars, closed, links>>

\* disableproxy closes the parent's session only.  One being authorised may be
\* alive all the same in the end.
DisableProxy(p) ==
    /\ parent[p].listed /\ Event
    /\ Disable(Key(p), [parent EXCEPT ![p].disabled = TRUE])
    /\ UNCHANGED <<up, owner, toGen>>

EnableProxy(p) ==
    /\ parent[p].listed /\ parent[p].disabled /\ Event
    /\ parent' = [parent EXCEPT ![p].disabled = FALSE,
                                ![p].reconnecting = @ \/ session[Key(p)] = "idle"]
    /\ UNCHANGED <<up, owner, session, linked, closed, links>>

\* delproxy: the parent leaves the list, its sessions are recycled in the order
\* of the hash list.  A thread that is setting one of them up goes on with
\* memory that has been cleared; here none is.
DeleteProxy(p) ==
    LET mine == {k \in linked : k[1] = p}
        order == [i \in 1..Cardinality(mine) |->
                    CHOOSE k \in mine : Cardinality({j \in mine : j[2] <= k[2]}) = i]
    IN  /\ parent[p].listed /\ ~ parent[p].reconnecting /\ Event
        /\ \A s \in 0..MaxSub[p] : session[<<p, s>>] \in {"none", "alive", "lost"} \/ s = 0
        /\ session[Key(p)] # "auth"
        /\ \A k \in Keys : session[k] = "lost" => k \in linked
        /\ parent' = [parent EXCEPT ![p].listed = FALSE]
        /\ session' = [k \in Keys |-> IF k \in mine THEN "none" ELSE session[k]]
        /\ linked' = linked \ mine /\ closed' = closed \ mine
        /\ Send([i \in DOMAIN order |-> Msg("del", order[i])])
        /\ UNCHANGED <<up, owner, toGen>>

-----------------------------------------------------------------------------

PoolDown(p) ==
    /\ up[p] /\ Event /\ up' = [up EXCEPT ![p] = FALSE]
    /\ UNCHANGED <<owner, genVars, links>>

PoolUp(p) ==
    /\ ~ up[p] /\ up' = [up EXCEPT ![p] = TRUE]
    /\ UNCHANGED <<events, owner, genVars, links>>

GenNext ==
    \/ \E k \in Keys :
        \/ Subscribed(k) \/ SetupFailed(k) \/ Authorised(k) \/ Recruited(k)
        \/ Notify(k) \/ HangUp(k) \/ UserHangUp(k)
        \/ \E e \in BOOLEAN : UpstreamReconnect(k, e)
    \/ Recruit
    \/ \E p \in Proxies :
        \/ Reconnect(p) \/ SetupRefused(p) \/ AddProxy(p) \/ DisableProxy(p) \/ EnableProxy(p)
        \/ DeleteProxy(p) \/ PoolDown(p) \/ PoolUp(p)
=============================================================================
