------------------------- MODULE StratifierClients -------------------------
(* The life of a stratum instance, the stratifier's record of one miner's    *)
(* connection (src/src/stratifier.c), in pool mode, btcsolo or not.          *)
(*                                                                           *)
(* The connector hands the messages of a connection to the srecv thread,     *)
(* which creates the instance, and sends "dropclient" to the command loop    *)
(* when the connection closes.  The authoriser, the share processor, the     *)
(* statistics walk, the solo broadcast walk and the command loop use the     *)
(* instance outside instance_lock, under a reference count; an instance      *)
(* dropped while in use is removed by whoever releases the last reference.   *)
(* Each critical section of instance_lock is one action.                     *)
EXTENDS Integers, Sequences, FiniteSets

CONSTANTS
    Ids,        \* connection ids; the connector never reuses one
    Insts,      \* stratum_instance_t structs: recycled ones are used again
    Users,      \* user names miners authorise with
    GoodUsers,  \* those whose name is a valid address, or mines to the pool
    NoId, NoInst, NoUser,
    BtcSolo,    \* ckp->btcsolo
    Walkers,    \* background walks that run: subset of {"stats", "bcast"}
    AdminCmds,  \* commands of ckpmsg and the API the operator may give
    MaxMsgs,    \* bound: messages all miners together send
    MaxQueue,   \* bound: commands waiting for the connector or the stratifier
    MaxAdmin    \* bound: operator commands given

ASSUME StratifierAssumption ==
    /\ GoodUsers \subseteq Users
    /\ NoId \notin Ids /\ NoInst \notin Insts /\ NoUser \notin Users
    /\ IsFiniteSet(Insts) /\ IsFiniteSet(Users)
    /\ BtcSolo \in BOOLEAN
    /\ MaxMsgs \in Nat /\ MaxQueue \in Nat /\ MaxAdmin \in Nat

VARIABLES
    \* the connector, as the stratifier sees it
    conn,       \* conn[id]: "open" or "closed"
    evt,        \* id whose message is parsed, found valid, and not yet queued
    msgs,       \* messages sent so far
    connq,      \* commands for connector_loop
    sends,      \* ids with responses on their way out (ssends, then cmpq)
    \* the stratifier's queues, all consumed by one thread each
    recvq, authq, shareq,
    loopq,      \* "dropclient" commands for stratum_loop
    \* sdata, under instance_lock
    inst,       \* inst[s]: the fields of struct s
    table,      \* the structs in the stratum_instances hashtable
    before,     \* the order in which they were added (uthash's hh.next list)
    sessions,   \* enonce1s of the disconnected sessions that may be resumed
    enonce1,    \* last enonce1 handed out
    workers,    \* workers[u]: user->workers, and instance_count of its worker
    nworkers, nusers,   \* stats.workers, stats.users
    failed,     \* users whose failed_authtime is set
    \* the threads
    pc, hold,   \* where a thread is; the instance it holds a reference on
    adding,     \* struct __stratum_add_instance is filling, lock released
    took,       \* enonce1 parse_subscribe has taken from a session, or 0
    tmp,        \* HASH_ITER's saved next element in stratum_broadcast_updates
    todo,       \* (history) todo[w]: instances walk w has still to come to
    admin       \* operator commands given so far

connVars == <<conn, evt, msgs>>
tableVars == <<inst, table, before, workers, nworkers, nusers, todo>>
authVars == <<authq, failed>>
vars == <<conn, evt, msgs, connq, sends, recvq, authq, shareq, loopq, inst, table,
          before, sessions, enonce1, workers, nworkers, nusers, failed, pc, hold,
          adding, took, tmp, todo, admin>>

Threads == {"srecv", "sauth", "sshare", "sloop", "stats", "bcast"}

Instance == [id : Ids \union {NoId}, ref : Int, enonce : Nat, user : Users \union {NoUser},
             dropped : BOOLEAN, useragent : BOOLEAN, subscribed : BOOLEAN,
             authorising : BOOLEAN, authorised : BOOLEAN, reject : BOOLEAN]

\* A recycled struct: __kill_instance clears it.
Cleared == [id |-> NoId, ref |-> 0, enonce |-> 0, user |-> NoUser,
            dropped |-> FALSE, useragent |-> FALSE, subscribed |-> FALSE,
            authorising |-> FALSE, authorised |-> FALSE, reject |-> FALSE]

Command == [cmd : {"drop", "test"}, id : Ids]

TypeOK ==
    /\ conn \in [Ids -> {"open", "closed"}]
    /\ evt \in Ids \union {NoId}
    /\ msgs \in Nat /\ admin \in Nat
    /\ connq \in Seq(Command)
    /\ sends \in SUBSET Ids
    /\ recvq \in Seq(Ids) /\ authq \in Seq(Ids)
    /\ shareq \in Seq(Ids) /\ loopq \in Seq(Ids)
    /\ inst \in [Insts -> Instance]
    /\ table \in SUBSET Insts
    /\ before \in SUBSET (Insts \X Insts)
    /\ sessions \in SUBSET Nat /\ enonce1 \in Nat /\ took \in Nat
    /\ workers \in [Users -> Int] /\ nworkers \in Int /\ nusers \in Int
    /\ failed \in SUBSET Users
    /\ pc \in [Threads -> {"idle", "adding", "parse", "enonce", "auth", "linked",
                           "tag", "visit", "done"}]
    /\ hold \in [Threads -> Insts \union {NoInst}]
    /\ adding \in Insts \union {NoInst} /\ tmp \in Insts \union {NoInst}
    /\ todo \in [{"stats", "bcast"} -> SUBSET Insts]

Init ==
    /\ conn = [id \in Ids |-> "open"] /\ evt = NoId /\ msgs = 0
    /\ connq = <<>> /\ sends = {}
    /\ recvq = <<>> /\ authq = <<>> /\ shareq = <<>> /\ loopq = <<>>
    /\ inst = [s \in Insts |-> Cleared] /\ table = {} /\ before = {}
    /\ sessions = {} /\ enonce1 = 0 /\ failed = {}
    /\ workers = [u \in Users |-> 0] /\ nworkers = 0 /\ nusers = 0
    /\ pc = [t \in Threads |-> "idle"] /\ hold = [t \in Threads |-> NoInst]
    /\ adding = NoInst /\ took = 0 /\ tmp = NoInst /\ admin = 0
    /\ todo = [w \in {"stats", "bcast"} |-> {}]

-----------------------------------------------------------------------------
(* Helpers, each inside a critical section of instance_lock.                 *)

\* (mutant) a lookup that passes over dropped instances
AtNotDropped(id) == {s \in table : inst[s].id = id /\ ~ inst[s].dropped}

\* __instance_by_id: the instances of id in the table (UniqueIds: one at most).
At(id) == {s \in table : inst[s].id = id}

Linked(S) == {s \in S : inst[s].user # NoUser}

\* The handler leaves the fields as in rec; __del_client and __kill_instance
\* remove and recycle each of S.
KillInstances(rec, S) ==
    /\ inst' = [s \in Insts |-> IF s \in S THEN Cleared ELSE rec[s]]
    /\ table' = table \ S
    /\ before' = {p \in before : p[1] \notin S /\ p[2] \notin S}
    /\ todo' = [w \in {"stats", "bcast"} |-> todo[w] \ S]
    /\ workers' = [u \in Users |->
                     workers[u] - Cardinality({s \in S : inst[s].user = u})]

\* The same with the statistics __dec_worker keeps.
UpdateAndKill(rec, S) ==
    /\ KillInstances(rec, S)
    /\ nworkers' = nworkers - Cardinality(Linked(S))
    /\ nusers' = nusers - Cardinality({u \in Users : workers[u] # 0 /\ workers'[u] = 0})

\* As above, for a handler that kills nobody.
Update(rec) ==
    /\ inst' = rec
    /\ UNCHANGED <<table, before, todo, workers, nworkers, nusers>>

\* (mutant) a release that leaves removal to somebody else
DecInstanceRefOnly(t) ==
    /\ UpdateAndKill([inst EXCEPT ![hold[t]].ref = @ - 1], {})
    /\ hold' = [hold EXCEPT ![t] = NoInst]

\* _dec_instance_ref by thread t: the last one out removes a dropped instance.
DecInstanceRef(t) ==
    LET s == hold[t]
        rec == [inst EXCEPT ![s].ref = @ - 1]
    IN  /\ UpdateAndKill(rec, IF rec[s].dropped /\ rec[s].ref = 0 THEN {s} ELSE {})
        /\ hold' = [hold EXCEPT ![t] = NoInst]

\* A lookup that takes a reference, with the other fields as in rec.
TakeRef(t, s, rec) ==
    /\ Update([rec EXCEPT ![s].ref = @ + 1])
    /\ hold' = [hold EXCEPT ![t] = s]

\* (mutant) drop_client without the test of ref
DropInstanceInUse(s) ==
    /\ sessions' = sessions
    /\ UpdateAndKill(inst, {s})

\* drop_client and __disconnect_session on instance s.  Sessions older than
\* ten minutes are aged by the way; the authorised leave a session behind.
DropInstance(s) ==
    LET recorded == IF inst[s].enonce # 0 /\ inst[s].user # NoUser /\ inst[s].authorised
                      THEN {inst[s].enonce} ELSE {}
    IN  /\ \E kept \in SUBSET sessions : sessions' = kept \union recorded
        /\ IF inst[s].ref = 0
             THEN UpdateAndKill(inst, {s})
             ELSE Update([inst EXCEPT ![s].dropped = TRUE])

\* connector_drop_client and connector_test_client
ConnectorCmd(c, id) ==
    /\ Len(connq) < MaxQueue
    /\ connq' = Append(connq, [cmd |-> c, id |-> id])

\* uthash's order of insertion: s has no element before it; x comes after s.
IsFirst(s) == s \in table /\ \A x \in table : <<x, s>> \notin before
IsNext(s, x) ==
    /\ <<s, x>> \in before
    /\ ~ \E y \in table : <<s, y>> \in before /\ <<y, x>> \in before

\* hh.next of s, NoInst when there is none (or s has been killed).
HHNext(s, x) ==
    \/ x \in table /\ IsNext(s, x)
    \/ x = NoInst /\ ~ \E y \in table : IsNext(s, y)

-----------------------------------------------------------------------------
(* The connector's side.                                                     *)

\* parse_client_msg, up to its unlocked test of client->invalid ...
Parse(id) ==
    /\ evt = NoId /\ conn[id] = "open" /\ msgs < MaxMsgs
    /\ evt' = id
    /\ msgs' = msgs + 1
    /\ UNCHANGED <<conn, tableVars, authVars, connq, sends, recvq, shareq, loopq, sessions,
                   enonce1, pc, hold, adding, took, tmp, admin>>

\* ... and its stratifier_add_recv, by when the client may have been dropped.
AddRecv ==
    /\ evt # NoId
    /\ recvq' = Append(recvq, evt)
    /\ evt' = NoId
    /\ UNCHANGED <<conn, msgs, tableVars, authVars, connq, sends, shareq, loopq, sessions,
                   enonce1, pc, hold, adding, took, tmp, admin>>

\* invalidate_client: drop_client and stratifier_drop_client both tell the
\* stratifier.
Invalidate(id) ==
    /\ conn[id] = "open"
    /\ Len(loopq) + 2 <= MaxQueue
    /\ conn' = [conn EXCEPT ![id] = "closed"]
    /\ loopq' = loopq \o <<id, id>>

\* The peer hangs up, or a send to it fails or blocks for a minute.
Close(id) ==
    /\ Invalidate(id)
    /\ UNCHANGED <<evt, msgs, tableVars, authVars, connq, sends, recvq, shareq, sessions,
                   enonce1, pc, hold, adding, took, tmp, admin>>

\* stratifier_drop_id for a connection that is gone
DropId(id) ==
    /\ conn[id] = "closed"
    /\ Len(loopq) < MaxQueue
    /\ loopq' = Append(loopq, id)
    /\ UNCHANGED conn

\* connector_loop takes a command.
ConnectorLoop ==
    /\ connq # <<>>
    /\ connq' = Tail(connq)
    /\ LET c == Head(connq) IN
         \/ c.cmd = "drop" /\ Invalidate(c.id)
         \/ c.cmd = "drop" /\ conn[c.id] = "closed" /\ UNCHANGED <<conn, loopq>>
         \/ c.cmd = "test" /\ conn[c.id] = "open" /\ UNCHANGED <<conn, loopq>>
         \/ c.cmd = "test" /\ DropId(c.id)
    /\ UNCHANGED <<evt, msgs, tableVars, authVars, sends, recvq, shareq, sessions, enonce1,
                   pc, hold, adding, took, tmp, admin>>

\* send_client delivers a response, or reports a client it does not find.
SendClient(id) ==
    /\ id \in sends
    /\ sends' = sends \ {id}
    /\ (conn[id] = "open" /\ UNCHANGED <<conn, loopq>>) \/ DropId(id)
    /\ UNCHANGED <<evt, msgs, tableVars, authVars, connq, recvq, shareq, sessions, enonce1,
                   pc, hold, adding, took, tmp, admin>>

-----------------------------------------------------------------------------
(* srecv_process: one message, its method chosen when it is looked at.       *)

Goto(t, place) == pc' = [pc EXCEPT ![t] = place]

\* The queue of srecv loses its head, whose id is id.
TakeRecv(id) ==
    /\ pc["srecv"] = "idle" /\ recvq # <<>> /\ id = Head(recvq)
    /\ recvq' = Tail(recvq)
    /\ UNCHANGED <<connVars, authVars, sends, shareq, loopq, sessions, enonce1, took, tmp,
                   admin>>

\* No instance yet: recruit a struct, and release the lock while filling it.
RecvRecruit ==
    \E id \in Ids :
      /\ TakeRecv(id)
      /\ At(id) = {}
      /\ \E s \in Insts \ table :
           /\ adding' = s
           /\ Update([inst EXCEPT ![s] = [Cleared EXCEPT !.id = id]])
      /\ Goto("srecv", "adding")
      /\ UNCHANGED <<hold, connq>>

\* (mutant) the reference is only taken on the path that finds an instance
RecvAddWithoutRef ==
    /\ pc["srecv"] = "adding"
    /\ inst' = inst
    /\ table' = table \union {adding}
    /\ before' = before \union (table \X {adding})
    /\ hold' = [hold EXCEPT !["srecv"] = adding]
    /\ adding' = NoInst
    /\ Goto("srecv", "parse")
    /\ UNCHANGED <<connVars, authVars, connq, sends, recvq, shareq, loopq, sessions, enonce1,
                   workers, nworkers, nusers, took, tmp, todo, admin>>

\* Lock held again: the struct goes into the table, with a reference.
RecvAddInstance ==
    /\ pc["srecv"] = "adding"
    /\ inst' = [inst EXCEPT ![adding].ref = @ + 1]
    /\ table' = table \union {adding}
    /\ before' = before \union (table \X {adding})
    /\ hold' = [hold EXCEPT !["srecv"] = adding]
    /\ adding' = NoInst
    /\ Goto("srecv", "parse")
    /\ UNCHANGED <<connVars, authVars, connq, sends, recvq, shareq, loopq, sessions, enonce1,
                   workers, nworkers, nusers, took, tmp, todo, admin>>

RecvFound ==
    \E id \in Ids : \E s \in At(id) :
      /\ TakeRecv(id)
      /\ ~ inst[s].dropped
      /\ TakeRef("srecv", s, inst)
      /\ Goto("srecv", "parse")
      /\ UNCHANGED <<adding, connq>>

\* A message of a dropped instance is skipped.
RecvDropped ==
    \E id \in Ids : \E s \in At(id) :
      /\ TakeRecv(id)
      /\ inst[s].dropped
      /\ ConnectorCmd("drop", id)
      /\ UNCHANGED <<tableVars, pc, hold, adding>>

\* parse_instance_msg has instance s in hand, and is done with it afterwards.
Parsing(s) ==
    /\ pc["srecv"] = "parse" /\ s = hold["srecv"]
    /\ UNCHANGED <<connVars, failed, recvq, loopq, hold, adding, tmp, admin>>

\* Tagged for lazy invalidation.
RecvRejected ==
    \E s \in table :
      /\ Parsing(s)
      /\ inst[s].reject
      /\ ConnectorCmd("drop", inst[s].id)
      /\ Goto("srecv", "done")
      /\ UNCHANGED <<tableVars, authq, sends, shareq, sessions, enonce1, took>>

\* mining.submit of an authorised client
RecvSubmit ==
    \E s \in table :
      /\ Parsing(s)
      /\ ~ inst[s].reject /\ inst[s].authorised
      /\ shareq' = Append(shareq, inst[s].id)
      /\ Goto("srecv", "done")
      /\ UNCHANGED <<tableVars, authq, connq, sends, sessions, enonce1, took>>

\* mining.term: drop_client, while srecv itself holds a reference
RecvTerm ==
    \E s \in table :
      /\ Parsing(s)
      /\ ~ inst[s].reject
      /\ IF inst[s].dropped THEN UNCHANGED <<tableVars, sessions>> ELSE DropInstance(s)
      /\ Goto("srecv", "done")
      /\ UNCHANGED <<authq, connq, sends, shareq, enonce1, took>>

\* (mutant) the session stays in the table when it is resumed
RecvSubscribeKeepsSession ==
    \E s \in table :
      /\ Parsing(s)
      /\ ~ inst[s].reject /\ ~ inst[s].subscribed
      /\ \E e \in sessions \union {0} :
           /\ took' = e /\ sessions' = sessions
           /\ Update([inst EXCEPT ![s].useragent = TRUE, ![s].enonce = e])
      /\ Goto("srecv", "enonce")
      /\ UNCHANGED <<authq, connq, sends, shareq, enonce1>>

\* mining.subscribe, the useragent and the session.  A message without a user
\* agent or a known session id takes none; the session is gone from here on.
RecvSubscribe ==
    \E s \in table :
      /\ Parsing(s)
      /\ ~ inst[s].reject /\ ~ inst[s].subscribed
      /\ \E e \in sessions \union {0} :
           /\ took' = e /\ sessions' = sessions \ {e}
           /\ Update([inst EXCEPT ![s].useragent = TRUE, ![s].enonce = e])
      /\ Goto("srecv", "enonce")
      /\ UNCHANGED <<authq, connq, sends, shareq, enonce1>>

\* The counter of a pool; it outlives the instances.
new_enonce1 == enonce1 + 1

\* The rest of it: the enonce1 of the session, or a new one.
RecvEnonce ==
    LET s == hold["srecv"]
        e == IF took # 0 THEN took ELSE new_enonce1
    IN  /\ pc["srecv"] = "enonce"
        /\ Update([inst EXCEPT ![s].enonce = e, ![s].subscribed = TRUE])
        /\ enonce1' = IF took # 0 THEN enonce1 ELSE e
        /\ took' = 0
        /\ sends' = sends \union {inst[s].id}
        /\ Goto("srecv", "done")
        /\ UNCHANGED <<connVars, authVars, connq, recvq, shareq, loopq, sessions, hold,
                       adding, tmp, admin>>

\* mining.authorize, before the client is authorised
RecvAuth ==
    \E s \in table :
      /\ Parsing(s)
      /\ ~ inst[s].reject /\ ~ inst[s].authorised
      /\ authq' = Append(authq, inst[s].id)
      /\ Goto("srecv", "done")
      /\ UNCHANGED <<tableVars, connq, sends, shareq, sessions, enonce1, took>>

\* Any other method of an unsubscribed client has it dropped.
RecvUnsubscribed ==
    \E s \in table :
      /\ Parsing(s)
      /\ ~ inst[s].reject /\ ~ inst[s].subscribed
      /\ ConnectorCmd("drop", inst[s].id)
      /\ Goto("srecv", "done")
      /\ UNCHANGED <<tableVars, authq, sends, shareq, sessions, enonce1, took>>

\* Messages that are ignored: a second subscription or authorisation, an
\* unauthorised share, a pong.
RecvIgnored ==
    \E s \in table :
      /\ Parsing(s)
      /\ ~ inst[s].reject
      /\ Goto("srecv", "done")
      /\ UNCHANGED <<tableVars, authq, connq, sends, shareq, sessions, enonce1, took>>

\* Messages answered at once: mining.configure, errors.
RecvAnswered ==
    \E s \in table :
      /\ Parsing(s)
      /\ ~ inst[s].reject
      /\ sends' = sends \union {inst[s].id}
      /\ Goto("srecv", "done")
      /\ UNCHANGED <<tableVars, authq, connq, shareq, sessions, enonce1, took>>

RecvDone ==
    /\ pc["srecv"] = "done"
    /\ DecInstanceRef("srecv")
    /\ Goto("srecv", "idle")
    /\ UNCHANGED <<connVars, authVars, connq, sends, recvq, shareq, loopq, sessions, enonce1,
                   adding, took, tmp, admin>>

srecv == \/ RecvRecruit \/ RecvAddInstance \/ RecvFound \/ RecvDropped \/ RecvRejected
         \/ RecvSubmit \/ RecvTerm \/ RecvSubscribe \/ RecvEnonce \/ RecvAuth
         \/ RecvUnsubscribed \/ RecvIgnored \/ RecvAnswered \/ RecvDone

-----------------------------------------------------------------------------
(* sauth_process: one authorisation.                                         *)

\* (mutant) a second authorisation is not turned away
AuthTakeAgain ==
    /\ pc["sauth"] = "idle" /\ authq # <<>>
    /\ authq' = Tail(authq)
    /\ LET found == {s \in At(Head(authq)) : ~ inst[s].dropped}
       IN  \/ found = {} /\ UNCHANGED <<tableVars, pc, hold>>
           \/ \E s \in found : /\ TakeRef("sauth", s, [inst EXCEPT ![s].authorising = TRUE])
                               /\ Goto("sauth", "auth")
    /\ UNCHANGED <<connVars, failed, connq, sends, recvq, shareq, loopq, sessions, enonce1,
                   adding, took, tmp, admin>>

\* preauth_ref_instance_by_id
AuthTake ==
    /\ pc["sauth"] = "idle" /\ authq # <<>>
    /\ authq' = Tail(authq)
    /\ LET found == {s \in At(Head(authq)) : ~ (inst[s].dropped \/ inst[s].authorising
                                                 \/ inst[s].authorised)}
       IN  \/ found = {} /\ UNCHANGED <<tableVars, pc, hold>>
           \/ \E s \in found : /\ TakeRef("sauth", s, [inst EXCEPT ![s].authorising = TRUE])
                               /\ Goto("sauth", "auth")
    /\ UNCHANGED <<connVars, failed, connq, sends, recvq, shareq, loopq, sessions, enonce1,
                   adding, took, tmp, admin>>

AuthUnchanged == UNCHANGED <<connVars, authq, connq, recvq, shareq, loopq, sessions, enonce1,
                             adding, took, tmp, admin>>

\* The early errors of parse_authorise: no user agent yet, or bad parameters.
AuthError ==
    /\ pc["sauth"] = "auth"
    /\ sends' = sends \union {inst[hold["sauth"]].id}
    /\ Goto("sauth", "done")
    /\ UNCHANGED <<tableVars, failed, hold>>
    /\ AuthUnchanged

\* generate_user links the instance to its user, whatever comes of it.
AuthLink ==
    LET s == hold["sauth"]
    IN  /\ pc["sauth"] = "auth" /\ inst[s].useragent
        /\ \E u \in Users :
             /\ inst' = [inst EXCEPT ![s].user = u]
             /\ workers' = [workers EXCEPT ![u] = @ + 1]
             /\ nusers' = nusers + (IF workers[u] = 0 THEN 1 ELSE 0)
        /\ nworkers' = nworkers + 1
        /\ Goto("sauth", "linked")
        /\ UNCHANGED <<table, before, todo, failed, hold, sends>>
        /\ AuthUnchanged

\* A decision on instance s for user u is sent to the miner.
Deciding(s, u) ==
    /\ pc["sauth"] = "linked" /\ s = hold["sauth"] /\ u = inst[s].user
    /\ sends' = sends \union {inst[s].id}
    /\ Goto("sauth", "done")
    /\ UNCHANGED hold
    /\ AuthUnchanged

\* Still inside the backoff time of an earlier failure
AuthThrottled ==
    \E s \in table, u \in failed :
      /\ Deciding(s, u)
      /\ Update([inst EXCEPT ![s].dropped = TRUE])
      /\ UNCHANGED failed

\* client_auth(true)
AuthSucceed ==
    \E s \in table, u \in Users :
      /\ Deciding(s, u)
      /\ ~ BtcSolo \/ u \in GoodUsers
      /\ Update([inst EXCEPT ![s].authorised = TRUE, ![s].authorising = FALSE])
      /\ failed' = failed \ {u}

\* client_auth(false): in solo mode, a username that is a mistyped address
AuthFail ==
    \E s \in table, u \in Users \ GoodUsers :
      /\ Deciding(s, u)
      /\ BtcSolo
      /\ Update([inst EXCEPT ![s].reject = TRUE, ![s].authorising = FALSE])
      /\ failed' = failed \union {u}

AuthDone ==
    /\ pc["sauth"] = "done"
    /\ DecInstanceRef("sauth")
    /\ Goto("sauth", "idle")
    /\ UNCHANGED <<failed, sends>>
    /\ AuthUnchanged

sauth == AuthTake \/ AuthError \/ AuthLink \/ AuthThrottled \/ AuthSucceed \/ AuthFail
         \/ AuthDone

-----------------------------------------------------------------------------
(* sshare_process: one share.                                                *)

\* (mutant) a lookup that returns dropped instances
FindableDropped(id) == At(id)

\* ref_instance_by_id
Findable(id) == {s \in At(id) : ~ inst[s].dropped}

ShareTake ==
    /\ pc["sshare"] = "idle" /\ shareq # <<>>
    /\ shareq' = Tail(shareq)
    /\ \/ Findable(Head(shareq)) = {} /\ UNCHANGED <<tableVars, pc, hold>>
       \/ \E s \in Findable(Head(shareq)) :
            TakeRef("sshare", s, inst) /\ Goto("sshare", "parse")
    /\ UNCHANGED <<connVars, authVars, connq, sends, recvq, loopq, sessions, enonce1,
                   adding, took, tmp, admin>>

\* parse_submit, of a client that is still authorised, and its answer.  After
\* three minutes of invalid shares the client is tagged (reject = 3).
ShareSubmit ==
    LET s == hold["sshare"]
    IN  /\ pc["sshare"] = "parse"
        /\ \/ ~ inst[s].authorised /\ UNCHANGED <<tableVars, sends>>
           \/ /\ inst[s].authorised
              /\ \E r \in {inst[s].reject, TRUE} : Update([inst EXCEPT ![s].reject = r])
              /\ sends' = sends \union {inst[s].id}
        /\ Goto("sshare", "done")
        /\ UNCHANGED <<connVars, authVars, connq, recvq, shareq, loopq, sessions, enonce1,
                       hold, adding, took, tmp, admin>>

ShareDone ==
    /\ pc["sshare"] = "done"
    /\ DecInstanceRef("sshare")
    /\ Goto("sshare", "idle")
    /\ UNCHANGED <<connVars, authVars, connq, sends, recvq, shareq, loopq, sessions, enonce1,
                   adding, took, tmp, admin>>

sshare == ShareTake \/ ShareSubmit \/ ShareDone

-----------------------------------------------------------------------------
(* stratum_loop: commands, one at a time.                                    *)

LoopUnchanged == UNCHANGED <<conn, evt, msgs, authVars, recvq, shareq, enonce1, adding,
                             took, tmp>>

\* dropclient
LoopDrop ==
    /\ pc["sloop"] = "idle" /\ loopq # <<>>
    /\ loopq' = Tail(loopq)
    /\ \/ Findable(Head(loopq)) = {} /\ UNCHANGED <<tableVars, sessions>>
       \/ \E s \in Findable(Head(loopq)) : DropInstance(s)
    /\ UNCHANGED <<connq, sends, pc, hold, admin>>
    /\ LoopUnchanged

Admin(c) ==
    /\ pc["sloop"] = "idle"
    /\ c \in AdminCmds /\ admin < MaxAdmin
    /\ admin' = admin + 1
    /\ UNCHANGED loopq
    /\ LoopUnchanged

\* drop_allclients: the connector is told to drop each client, in some order;
\* the statistics are zeroed, though clients still in use stay linked.
LoopDropAll ==
    LET drops == [cmd : {"drop"}, id : {inst[s].id : s \in table}]
    IN  /\ Admin("dropall")
        /\ KillInstances([s \in Insts |-> [inst[s] EXCEPT !.dropped = @ \/ s \in table]],
                         {s \in table : inst[s].ref = 0})
        /\ nworkers' = 0 /\ nusers' = 0
        /\ Len(connq) + Cardinality(table) <= MaxQueue
        /\ \E q \in [1 .. Cardinality(table) -> drops] :
             /\ {q[i] : i \in DOMAIN q} = drops
             /\ connq' = connq \o q
        /\ UNCHANGED <<sends, sessions, pc, hold>>

\* request_reconnect: a message to every active client ...
LoopReconnect ==
    /\ Admin("reconnect")
    /\ sends' = sends \union {inst[s].id : s \in {x \in table : inst[x].authorised
                                                            /\ ~ inst[x].dropped}}
    /\ Goto("sloop", "tag")
    /\ UNCHANGED <<tableVars, connq, sessions, hold>>

\* ... then, the lock taken anew, every instance there is now is tagged.
LoopTag ==
    /\ pc["sloop"] = "tag"
    /\ Update([s \in Insts |-> [inst[s] EXCEPT !.dropped = @ \/ s \in table]])
    /\ Goto("sloop", "idle")
    /\ UNCHANGED <<connq, sends, loopq, sessions, hold, admin>>
    /\ LoopUnchanged

\* getclient, of the API: the instance is looked up ...
LoopGetClient ==
    /\ Admin("getclient")
    /\ \E id \in Ids : \E s \in Findable(id) : TakeRef("sloop", s, inst)
    /\ Goto("sloop", "done")
    /\ UNCHANGED <<connq, sends, sessions>>

\* ... described, and released.
LoopPutClient ==
    /\ pc["sloop"] = "done"
    /\ DecInstanceRef("sloop")
    /\ Goto("sloop", "idle")
    /\ UNCHANGED <<connq, sends, loopq, sessions, admin>>
    /\ LoopUnchanged

sloop == LoopDrop \/ LoopTag \/ LoopPutClient
operator == LoopDropAll \/ LoopReconnect \/ LoopGetClient

-----------------------------------------------------------------------------
(* The client walk of statsupdate, every minute.                             *)

StatsUnchanged == UNCHANGED <<connVars, authVars, sends, recvq, shareq, loopq, sessions,
                              enonce1, adding, took, tmp, admin>>

\* Walks take references by hand: __dec_instance_ref never removes anybody.
\* x, an instance or NoInst, is held instead of what t held.
MoveOn(t, x) ==
    /\ inst' = [s \in Insts |-> [inst[s] EXCEPT !.ref =
                  @ - (IF s = hold[t] THEN 1 ELSE 0) + (IF s = x THEN 1 ELSE 0)]]
    /\ UNCHANGED <<table, before, workers, nworkers, nusers>>
    /\ hold' = [hold EXCEPT ![t] = x]
    /\ Goto(t, IF x = NoInst THEN "idle" ELSE "visit")

StatsStart ==
    /\ "stats" \in Walkers /\ pc["stats"] = "idle"
    /\ \E s \in table : IsFirst(s) /\ MoveOn("stats", s)
    /\ todo' = [todo EXCEPT !["stats"] = table]
    /\ UNCHANGED connq
    /\ StatsUnchanged

\* The lock is not held: a dropped instance, and an idle one, is checked
\* against the connector; one that takes over a minute to authorise is tagged.
StatsVisit ==
    LET s == hold["stats"]
    IN  /\ pc["stats"] = "visit"
        /\ \/ inst[s].dropped /\ ConnectorCmd("test", inst[s].id) /\ UNCHANGED tableVars
           \/ /\ ~ inst[s].dropped /\ ~ inst[s].authorised
              /\ ConnectorCmd("drop", inst[s].id)
              /\ Update([inst EXCEPT ![s].dropped = TRUE])
           \/ /\ ~ inst[s].dropped /\ inst[s].authorised
              /\ ConnectorCmd("test", inst[s].id) /\ UNCHANGED tableVars
           \/ ~ inst[s].dropped /\ UNCHANGED <<tableVars, connq>>
        /\ Goto("stats", "done")
        /\ UNCHANGED hold
        /\ StatsUnchanged

\* (mutant) the walk takes its references like everybody else, and stops where
\* it gets none
StatsStopsAtDropped ==
    /\ pc["stats"] = "done"
    /\ \E x \in table \union {NoInst} :
         /\ HHNext(hold["stats"], x)
         /\ MoveOn("stats", IF x # NoInst /\ inst[x].dropped THEN NoInst ELSE x)
    /\ todo' = [todo EXCEPT !["stats"] = @ \ {hold["stats"]}]
    /\ UNCHANGED connq
    /\ StatsUnchanged

StatsNext ==
    /\ pc["stats"] = "done"
    /\ \E x \in table \union {NoInst} : HHNext(hold["stats"], x) /\ MoveOn("stats", x)
    /\ todo' = [todo EXCEPT !["stats"] = @ \ {hold["stats"]}]
    /\ UNCHANGED connq
    /\ StatsUnchanged

stats == StatsStart \/ StatsVisit \/ StatsNext

-----------------------------------------------------------------------------
(* The broadcasts of new work (block_update).                                *)

BcastUnchanged == UNCHANGED <<connVars, authVars, connq, recvq, shareq, loopq, sessions,
                              enonce1, adding, took, admin>>

\* stratum_broadcast_update: all active clients, in one critical section
Broadcast ==
    /\ "bcast" \in Walkers /\ ~ BtcSolo
    /\ sends' = sends \union {inst[s].id : s \in {x \in table : inst[x].authorised
                                                            /\ ~ inst[x].dropped}}
    /\ UNCHANGED <<tableVars, pc, hold, tmp>>
    /\ BcastUnchanged

\* The first element from s on, in the table's order, that has a user.
FirstLinked(s, x) ==
    LET ahead == {y \in Linked(table) : y = s \/ <<s, y>> \in before}
    IN  \/ x \in ahead /\ ~ \E y \in ahead : <<y, x>> \in before
        \/ x = NoInst /\ ahead = {}

\* HASH_ITER moves from element s, and saves the successor of the element it
\* comes to.  A saved element that was killed meanwhile ends the walk.
BcastMove(s) ==
    \E x \in table \union {NoInst} :
      /\ FirstLinked(s, x)
      /\ MoveOn("bcast", x)
      /\ \E y \in table \union {NoInst} : tmp' = y /\ HHNext(x, y)

\* stratum_broadcast_updates, solo: a walk that releases the lock at each
\* client, while it makes the client's own message.
BcastStart ==
    /\ "bcast" \in Walkers /\ BtcSolo /\ pc["bcast"] = "idle"
    /\ \E s \in table : IsFirst(s) /\ BcastMove(s)
    /\ todo' = [todo EXCEPT !["bcast"] = Linked(table)]
    /\ UNCHANGED sends
    /\ BcastUnchanged

BcastNext ==
    LET s == hold["bcast"]
    IN  /\ pc["bcast"] = "visit"
        /\ sends' = sends \union {inst[s].id}
        /\ todo' = [todo EXCEPT !["bcast"] = @ \ {s}]
        /\ BcastMove(tmp)
        /\ BcastUnchanged

bcast == Broadcast \/ BcastStart \/ BcastNext

-----------------------------------------------------------------------------
\* Nothing is under way and no miner has anything left to say.
Quiescent ==
    /\ evt = NoId /\ sends = {}
    /\ connq = <<>> /\ loopq = <<>> /\ recvq = <<>> /\ authq = <<>> /\ shareq = <<>>
    /\ \A t \in Threads : pc[t] = "idle"
    /\ \A id \in Ids : conn[id] = "closed"
    /\ UNCHANGED vars

connector == AddRecv \/ ConnectorLoop \/ \E id \in Ids : SendClient(id)
miners == \E id \in Ids : Parse(id) \/ Close(id)

Next == \/ miners \/ connector \/ srecv \/ sauth \/ sshare \/ sloop \/ operator \/ stats
        \/ bcast \/ Quiescent

Spec == Init /\ [][Next]_vars

\* Every thread that has something to do gets to do it; nothing is assumed of
\* the miners, the operator or the timers that start the walks.
Fairness ==
    /\ WF_vars(AddRecv) /\ WF_vars(ConnectorLoop) /\ \A id \in Ids : WF_vars(SendClient(id))
    /\ WF_vars(srecv) /\ WF_vars(sauth) /\ WF_vars(sshare) /\ WF_vars(sloop)
    /\ WF_vars(StatsVisit \/ StatsNext) /\ WF_vars(BcastNext)

FairSpec == Spec /\ Fairness
-----------------------------------------------------------------------------
(* Properties.                                                               *)

HoldersOf(s) == {t \in Threads : hold[t] = s}

(* The reference count of an instance is the number of threads that use it   *)
(* outside instance_lock (the comment on stratum_instance.ref), through      *)
(* every interleaving of the lookups, walks and releases.                    *)
RefsCounted == \A s \in table : inst[s].ref = Cardinality(HoldersOf(s))

(* An instance some thread uses is never removed and recycled under it by    *)
(* drop_client, drop_allclients or another thread's _dec_instance_ref.       *)
HeldInTable == \A t \in Threads : hold[t] # NoInst => hold[t] \in table

(* One instance per connection, though __stratum_add_instance releases the   *)
(* lock between the failed lookup and the insertion.                         *)
UniqueIds == \A s, x \in table : inst[s].id = inst[x].id => s = x

(* user->workers, stats.workers and stats.users count the instances in the   *)
(* table and their users, whatever the order of authorisations and drops.    *)
WorkersCounted ==
    /\ \A u \in Users : workers[u] = Cardinality({s \in table : inst[s].user = u})
    /\ nworkers = Cardinality(Linked(table))
    /\ nusers = Cardinality({inst[s].user : s \in Linked(table)})

(* No two miners in service search the same nonce space: neither two         *)
(* instances nor an instance and a session some later connection may resume  *)
(* have one enonce1.                                                         *)
EnonceUnique ==
    LET serving == {s \in table : inst[s].enonce # 0 /\ ~ inst[s].dropped}
    IN  /\ \A s, x \in serving : inst[s].enonce = inst[x].enonce => s = x
        /\ \A s \in serving : inst[s].enonce \notin sessions

(* A solo broadcast of new work reaches every client that was in service     *)
(* when it began and still is when it ends.                                  *)
BroadcastComplete == pc["bcast"] = "idle" => \A s \in todo["bcast"] : inst[s].dropped

(* The statistics walk examines every instance that is in the table from the *)
(* start of the walk to its end, though each step of it releases the lock.   *)
StatsComplete == pc["stats"] = "idle" => todo["stats"] = {}

(* The table keeps the promise of a reference-counted table with lazy        *)
(* removal: only the walks get hold of a dropped instance, a drop is final,  *)
(* and the last user, or nobody, holds an instance when it is recycled.      *)
LR == INSTANCE LazyReclaim WITH
        Objs <- Insts, Holders <- Threads, Sweepers <- {"stats", "bcast"},
        phase <- [s \in Insts |-> IF s \notin table THEN "free"
                                  ELSE IF inst[s].dropped THEN "dying" ELSE "live"],
        held <- [s \in Insts |-> HoldersOf(s)]

ReclaimsLazily == LR!Spec

(* A dropped instance is eventually removed: "drop them lazily".             *)
DroppedReclaimed ==
    \A s \in Insts : (s \in table /\ inst[s].dropped) ~> (s \notin table \/ ~ inst[s].dropped)
=============================================================================
