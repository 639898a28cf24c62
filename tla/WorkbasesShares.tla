-------------------------- MODULE WorkbasesShares --------------------------
(* Workbases, the shares submitted on them and the blocks shares solve       *)
(* (src/src/stratifier.c), in pool mode and in solo mode.                     *)
(*                                                                           *)
(* The update thread (updateq) makes a workbase of each template, publishes  *)
(* it, ages old ones out of the table, forgets shares of past blocks and     *)
(* broadcasts the new work.  The share thread (sshareq) looks up the         *)
(* workbase a share is for under a read count, checks the share, submits the *)
(* block it may solve, releases the workbase and only then enters the share  *)
(* in the table of shares.  In solo mode every user has a coinbase of his    *)
(* own per workbase (userwb), and the authoriser (sauthq) makes that of a    *)
(* new user.  A miner subscribes through a thread of srecvq and is authorised *)
(* by the authoriser, each in its own time; work that is sent to him alone is *)
(* read under a lock and put in the queue of sends later, when the update    *)
(* thread may have sent newer.  workbase_lock, instance_lock and share_lock  *)
(* each cover single steps only; each critical section is one action.        *)
EXTENDS Integers, FiniteSets

CONSTANTS
    Users,      \* users, each with one client
    NoUser,
    MaxBases,   \* bound: workbases made
    MaxTime,    \* bound: the clock, in units of ten minutes
    MaxHeight,  \* bound: blocks of the chain
    MaxShares,  \* bound: shares submitted
    NetDiff,    \* NetDiff[h]: network difficulty of a template on block h
    Diffs,      \* difficulties of shares
    MinDiff,    \* ckp->mindiff
    Modes       \* subset of {"pool", "solo"}: values of ckp->btcsolo

ASSUME WorkbasesAssumption ==
    /\ NoUser \notin Users
    /\ MaxBases \in Nat /\ MaxTime \in Nat /\ MaxHeight \in Nat /\ MaxShares \in Nat
    /\ NetDiff \in [0..MaxHeight -> Nat \ {0}]
    /\ Diffs \subseteq Nat /\ MinDiff \in Nat \ {0}
    /\ Modes \subseteq {"pool", "solo"}

VARIABLES
    mode,       \* ckp->btcsolo
    now,        \* the clock
    chain,      \* height of the bitcoind's best block: a template's prevhash
    \* under workbase_lock
    workbases,  \* ids in the table
    current,    \* current_workbase, 0 before the first
    last_id,    \* sdata->workbase_id: the last id given
    prevhash, gentime, readcount,   \* fields of each workbase
    blockchange_id, lasthash,
    freed,      \* ids whose workbase clear_workbase has freed
    \* under share_lock, instance_lock
    shares,     \* the hashes in the table of shares
    userwbs,    \* <<user, id>>: the per user workbases
    txnlen,     \* users in user_instances that have their coinbase script
    \* the update thread: where it is, new_block, HASH_ITER's cursor, the
    \* workbase being aged and the users not broadcast to yet
    upc, new_block, cursor, victim, todo,
    \* the share thread: where it is, the share, what is known of it; the miner
    \* update_client is called for, and the work it has read, or 0
    spc, share, stale, submitted, ruser, resend,
    \* the authoriser: where it is, the user
    apc, auser,
    hold,       \* hold[t]: id of the workbase thread t has a read count on, or 0
    at,         \* at[u]: how far the subscription of u's client is
    seen,       \* seen[u]: the work init_client has read for u and not yet sent, or 0
    \* what was sent out
    told,       \* told[u]: ids of the work u was sent
    last,       \* last[u]: the work u was sent last, or 0
    due,        \* users authorised before the current work was made, and sent no
                \* work on their own since: its broadcast has to reach them
    authorised, \* users whose client is authorised
    blocks,     \* hashes submitted to the bitcoind
    credited    \* credited[h]: times share h was accepted

tableVars == <<workbases, current, last_id, prevhash, gentime, readcount,
               blockchange_id, lasthash, freed>>
updateVars == <<upc, new_block, cursor, victim, todo>>
shareVars == <<spc, share, stale, submitted, ruser, resend>>
authVars == <<apc, auser, at, seen>>
sentVars == <<told, last, due>>
outVars == <<sentVars, authorised, blocks, credited>>
envVars == <<mode, now, chain>>
vars == <<envVars, tableVars, shares, userwbs, txnlen, updateVars, shareVars,
          authVars, hold, outVars>>

Ids == 1..MaxBases

\* What a share's hash commits to: the job, the miner's coinbase, and a nonce
\* that gives it this difficulty.
Hashes == [job : Ids, user : Users, diff : Diffs]
NoShare == [job |-> 0, user |-> NoUser, diff |-> 0]

TypeOK ==
    /\ mode \in Modes /\ now \in 0..MaxTime /\ chain \in 0..MaxHeight
    /\ workbases \in SUBSET Ids /\ current \in {0} \union Ids
    /\ last_id \in 0..MaxBases /\ blockchange_id \in 0..MaxBases
    /\ prevhash \in [Ids -> 0..MaxHeight] /\ gentime \in [Ids -> 0..MaxTime]
    /\ readcount \in [Ids -> Int] /\ lasthash \in -1..MaxHeight
    /\ freed \in SUBSET Ids /\ shares \in SUBSET Hashes
    /\ userwbs \in SUBSET (Users \X Ids) /\ txnlen \in SUBSET Users
    /\ upc \in {"idle", "aged", "clear", "relock", "users", "purge", "send"}
    /\ new_block \in BOOLEAN /\ cursor \in 0..MaxBases
    /\ victim \in 0..MaxBases /\ todo \in SUBSET Users
    /\ spc \in {"idle", "got", "hashed", "put", "rejected", "resend"} /\ share \in Hashes \union {NoShare}
    /\ stale \in BOOLEAN /\ submitted \in 0..MaxShares
    /\ ruser \in Users \union {NoUser} /\ resend \in 0..MaxBases
    /\ apc \in {"idle", "script", "auth", "work", "userwb", "send", "sent"}
    /\ auser \in Users \union {NoUser}
    /\ hold \in [{"share", "auth"} -> {0} \union Ids]
    /\ at \in [Users -> {"new", "agent", "read", "sent"}] /\ seen \in [Users -> 0..MaxBases]
    /\ told \in [Users -> SUBSET Ids] /\ last \in [Users -> 0..MaxBases]
    /\ due \in SUBSET Users /\ authorised \in SUBSET Users
    /\ blocks \in SUBSET Hashes /\ credited \in [Hashes -> 0..MaxShares]

Init ==
    /\ mode \in Modes /\ now = 0 /\ chain = 0
    /\ workbases = {} /\ current = 0 /\ last_id = 0
    /\ prevhash = [i \in Ids |-> 0] /\ gentime = [i \in Ids |-> 0]
    /\ readcount = [i \in Ids |-> 0] /\ blockchange_id = 0 /\ lasthash = -1
    /\ freed = {} /\ shares = {} /\ userwbs = {} /\ txnlen = {}
    /\ upc = "idle" /\ new_block = FALSE /\ cursor = 0 /\ victim = 0 /\ todo = {}
    /\ spc = "idle" /\ share = NoShare /\ stale = FALSE /\ submitted = 0
    /\ ruser = NoUser /\ resend = 0
    /\ apc = "idle" /\ auser = NoUser
    /\ hold = [t \in {"share", "auth"} |-> 0]
    /\ at = [u \in Users |-> "new"] /\ seen = [u \in Users |-> 0]
    /\ told = [u \in Users |-> {}] /\ last = [u \in Users |-> 0]
    /\ due = {} /\ authorised = {}
    /\ blocks = {} /\ credited = [h \in Hashes |-> 0]

-----------------------------------------------------------------------------
(* The outside: time passes, the network finds a block.                      *)

Tick ==
    /\ now < MaxTime /\ now' = now + 1
    /\ UNCHANGED <<mode, chain, tableVars, shares, userwbs, txnlen, updateVars,
                   shareVars, authVars, hold, outVars>>

NetworkBlock ==
    /\ chain < MaxHeight /\ chain' = chain + 1
    /\ UNCHANGED <<mode, now, tableVars, shares, userwbs, txnlen, updateVars,
                   shareVars, authVars, hold, outVars>>

-----------------------------------------------------------------------------
(* The update thread: block_update, add_base.                                *)

\* (mutant) the read count is not looked at
AgeableRead(gen, base, tbl, from) ==
    {i \in tbl : i > from /\ i # base /\ gen[i] < gen[base] - 1}

\* The workbases the ageing loop may still take out of tbl after from: not the
\* new one, nor one that is read, but those more than ten minutes older.
Ageable(gen, base, tbl, from) ==
    {i \in tbl : /\ i > from /\ i # base /\ readcount[i] = 0
                 /\ gen[i] < gen[base] - 1}

\* The ageing loop of add_base from one unlock to the next: it takes out the
\* first it may, unless fewer than three are in the table.  The lock is then
\* released to age the shares of that one.
AgeNext(gen, base, tbl, from) ==
    LET old == Ageable(gen, base, tbl, from) IN
    IF Cardinality(tbl) >= 3 /\ old # {}
    THEN \E i \in old :
            /\ \A j \in old : i <= j
            /\ victim' = i /\ cursor' = i /\ workbases' = tbl \ {i} /\ upc' = "aged"
    ELSE /\ workbases' = tbl /\ cursor' = 0 /\ victim' = 0 /\ upc' = "users"

\* add_base, first critical section: the workbase of a new template is made
\* current; one with another prevhash is a new block.
AddBase ==
    /\ upc = "idle" /\ last_id < MaxBases
    /\ LET id == last_id + 1 IN
        /\ last_id' = id /\ current' = id
        /\ prevhash' = [prevhash EXCEPT ![id] = chain]
        /\ gentime' = [gentime EXCEPT ![id] = now]
        /\ new_block' = (lasthash # chain) /\ lasthash' = chain
        /\ blockchange_id' = IF lasthash # chain THEN id ELSE blockchange_id
        /\ AgeNext(gentime', id, workbases \union {id}, 0)
    /\ due' = authorised
    /\ UNCHANGED <<envVars, readcount, freed, shares, userwbs, txnlen, todo, shareVars,
                   authVars, hold, told, last, authorised, blocks, credited>>

\* age_share_hashtable
AgeShares ==
    /\ upc = "aged"
    /\ shares' = {h \in shares : h.job # victim} /\ upc' = "clear"
    /\ UNCHANGED <<envVars, tableVars, userwbs, txnlen, new_block, cursor, victim,
                   todo, shareVars, authVars, hold, outVars>>

\* (mutant) clear_userwb keeps the newest only
ClearWorkbaseOlder ==
    /\ upc = "clear"
    /\ userwbs' = IF mode = "solo" THEN {w \in userwbs : w[2] = current} ELSE userwbs
    /\ freed' = freed \union {victim} /\ upc' = "relock"
    /\ UNCHANGED <<envVars, workbases, current, last_id, prevhash, gentime, readcount,
                   blockchange_id, lasthash, shares, txnlen, new_block, cursor, victim,
                   todo, shareVars, authVars, hold, outVars>>

\* clear_workbase: the users' workbases of that id go, then its memory.
ClearWorkbase ==
    /\ upc = "clear"
    /\ userwbs' = IF mode = "solo" THEN {w \in userwbs : w[2] # victim} ELSE userwbs
    /\ freed' = freed \union {victim} /\ upc' = "relock"
    /\ UNCHANGED <<envVars, workbases, current, last_id, prevhash, gentime, readcount,
                   blockchange_id, lasthash, shares, txnlen, new_block, cursor, victim,
                   todo, shareVars, authVars, hold, outVars>>

\* The lock is taken again and the loop goes on.
AgeMore ==
    /\ upc = "relock"
    /\ AgeNext(gentime, current, workbases, cursor)
    /\ UNCHANGED <<envVars, current, last_id, prevhash, gentime, readcount, blockchange_id,
                   lasthash, freed, shares, userwbs, txnlen, new_block, todo, shareVars,
                   authVars, hold, outVars>>

\* generate_userwbs: in solo mode every user with a script gets a workbase of
\* his own, unless he has it.
GenerateUserwbs ==
    /\ upc = "users" /\ upc' = "purge"
    /\ userwbs' = IF mode = "solo" THEN userwbs \union (txnlen \X {current}) ELSE userwbs
    /\ UNCHANGED <<envVars, tableVars, shares, txnlen, new_block, cursor, victim, todo,
                   shareVars, authVars, hold, outVars>>

\* purge_share_hashtable after a block change, and the start of the broadcast.
PurgeShares ==
    /\ upc = "purge"
    /\ shares' = IF new_block THEN {h \in shares : h.job >= current} ELSE shares
    /\ todo' = Users /\ upc' = "send"
    /\ UNCHANGED <<envVars, tableVars, userwbs, txnlen, new_block, cursor, victim,
                   shareVars, authVars, hold, outVars>>

\* The current work goes to every user of to.
Tell(to) ==
    /\ told' = [u \in Users |-> IF u \in to THEN told[u] \union {current} ELSE told[u]]
    /\ last' = [u \in Users |-> IF u \in to THEN current ELSE last[u]]

\* stratum_broadcast_updates: a walk over the clients that have a user, the lock
\* released at each.  One is sent the current work with his user's coinbase, if
\* that was made, whether he is authorised by then or not.
BroadcastSolo ==
    /\ upc = "send" /\ mode = "solo" /\ todo # {}
    /\ \E u \in todo :
        /\ todo' = todo \ {u}
        /\ Tell({u} \intersect {w \in Users : <<w, current>> \in userwbs})
    /\ UNCHANGED <<envVars, tableVars, shares, userwbs, txnlen, upc, new_block, cursor,
                   victim, shareVars, authVars, hold, due, authorised, blocks, credited>>

\* (mutant) only a new block is broadcast, not newer transactions
BroadcastPoolBlocks ==
    /\ upc = "send" /\ mode = "pool" /\ todo # {}
    /\ todo' = {}
    /\ Tell({u \in authorised : new_block})
    /\ UNCHANGED <<envVars, tableVars, shares, userwbs, txnlen, upc, new_block, cursor,
                   victim, shareVars, authVars, hold, due, authorised, blocks, credited>>

\* stratum_broadcast_update: one bulk of messages, to the clients that are active;
\* those that have subscribed and are not authorised yet are passed over.
BroadcastPool ==
    /\ upc = "send" /\ mode = "pool" /\ todo # {}
    /\ todo' = {}
    /\ Tell(authorised)
    /\ UNCHANGED <<envVars, tableVars, shares, userwbs, txnlen, upc, new_block, cursor,
                   victim, shareVars, authVars, hold, due, authorised, blocks, credited>>

UpdateDone ==
    /\ upc = "send" /\ todo = {} /\ upc' = "idle" /\ new_block' = FALSE
    /\ UNCHANGED <<envVars, tableVars, shares, userwbs, txnlen, cursor, victim, todo,
                   shareVars, authVars, hold, outVars>>

-----------------------------------------------------------------------------
(* Miners come: they subscribe, and are authorised.                          *)

\* Work i, read earlier, goes to u alone.
TellAlone(u, i) ==
    /\ told' = [told EXCEPT ![u] = @ \union {i}]
    /\ last' = [last EXCEPT ![u] = i]
    /\ due' = due \ {u}

\* parse_subscribe: with the user agent set the client may be authorised.
ParseSubscribe(u) ==
    /\ at[u] = "new" /\ current # 0
    /\ at' = [at EXCEPT ![u] = "agent"]
    /\ UNCHANGED <<envVars, tableVars, shares, userwbs, txnlen, updateVars, shareVars,
                   apc, auser, seen, hold, outVars>>

\* init_client, in pool mode: stratum_send_update makes a message of the current
\* work under workbase_lock,
SendUpdateRead(u) ==
    /\ mode = "pool" /\ at[u] = "agent"
    /\ at' = [at EXCEPT ![u] = "read"] /\ seen' = [seen EXCEPT ![u] = current]
    /\ UNCHANGED <<envVars, tableVars, shares, userwbs, txnlen, updateVars, shareVars,
                   apc, auser, hold, outVars>>

\* and puts it in the queue of sends without the lock.
SendUpdate(u) ==
    /\ at[u] = "read"
    /\ at' = [at EXCEPT ![u] = "sent"] /\ seen' = [seen EXCEPT ![u] = 0]
    /\ TellAlone(u, seen[u])
    /\ UNCHANGED <<envVars, tableVars, shares, userwbs, txnlen, updateVars, shareVars,
                   apc, auser, hold, authorised, blocks, credited>>

\* client_auth.  In pool mode nothing is sent to him for it.  In solo mode it
\* comes between generate_user and the end of parse_authorise.
ClientAuth(u) ==
    /\ \/ mode = "pool" /\ at[u] # "new" /\ u \notin authorised /\ apc' = apc
       \/ mode = "solo" /\ apc = "auth" /\ u = auser /\ apc' = "work"
    /\ authorised' = authorised \union {u}
    /\ UNCHANGED <<envVars, tableVars, shares, userwbs, txnlen, updateVars, shareVars,
                   auser, at, seen, hold, sentVars, blocks, credited>>

\* In solo mode generate_user makes the user's record and links his client to it;
AuthUser(u) ==
    /\ mode = "solo" /\ apc = "idle" /\ at[u] # "new" /\ u \notin authorised
    /\ apc' = "script" /\ auser' = u
    /\ UNCHANGED <<envVars, tableVars, shares, userwbs, txnlen, updateVars, shareVars,
                   at, seen, hold, outVars>>

\* then his coinbase script, or the pool's, becomes known.
AuthScript ==
    /\ apc = "script" /\ apc' = "auth"
    /\ txnlen' = txnlen \union {auser}
    /\ UNCHANGED <<envVars, tableVars, shares, userwbs, updateVars, shareVars, auser,
                   at, seen, hold, outVars>>

\* The end of parse_authorise: a read count on the current workbase,
AuthTakeBase ==
    /\ apc = "work" /\ apc' = "userwb"
    /\ hold' = [hold EXCEPT !["auth"] = current]
    /\ readcount' = [readcount EXCEPT ![current] = @ + 1]
    /\ UNCHANGED <<envVars, workbases, current, last_id, prevhash, gentime,
                   blockchange_id, lasthash, freed, shares, userwbs, txnlen, updateVars,
                   shareVars, auser, at, seen, outVars>>

\* __generate_userwb,
AuthUserwb ==
    /\ apc = "userwb" /\ apc' = "send"
    /\ userwbs' = userwbs \union {<<auser, hold["auth"]>>}
    /\ UNCHANGED <<envVars, tableVars, shares, txnlen, updateVars, shareVars, auser,
                   at, seen, hold, outVars>>

\* update_solo_client, which sends that workbase although a newer one may have
\* been broadcast by now,
UpdateSoloClient ==
    /\ apc = "send" /\ apc' = "sent"
    /\ TellAlone(auser, hold["auth"])
    /\ UNCHANGED <<envVars, tableVars, shares, userwbs, txnlen, updateVars, shareVars,
                   auser, at, seen, hold, authorised, blocks, credited>>

\* and the read count back.
AuthPutBase ==
    /\ apc = "sent" /\ apc' = "idle" /\ auser' = NoUser
    /\ hold' = [hold EXCEPT !["auth"] = 0]
    /\ readcount' = [readcount EXCEPT ![hold["auth"]] = @ - 1]
    /\ UNCHANGED <<envVars, workbases, current, last_id, prevhash, gentime,
                   blockchange_id, lasthash, freed, shares, userwbs, txnlen, updateVars,
                   shareVars, at, seen, outVars>>

-----------------------------------------------------------------------------
(* The share thread: parse_submit.                                           *)

\* A share whose workbase is in the table: get_workbase counts the reader, and
\* whether the share is stale is looked up at once, without the lock.
SubmitGet(h) ==
    /\ spc = "idle" /\ submitted < MaxShares
    /\ h.user \in authorised /\ h.job \in told[h.user] \intersect workbases
    /\ spc' = "got" /\ share' = h /\ submitted' = submitted + 1
    /\ stale' = (h.job < blockchange_id)
    /\ hold' = [hold EXCEPT !["share"] = h.job]
    /\ readcount' = [readcount EXCEPT ![h.job] = @ + 1]
    /\ UNCHANGED <<envVars, workbases, current, last_id, prevhash, gentime,
                   blockchange_id, lasthash, freed, shares, userwbs, txnlen, updateVars,
                   ruser, resend, authVars, outVars>>

\* The share is not accepted.  If the miner's shares have not been for a minute
\* he is sent the current work again (the end of parse_submit).
Rejected(u) ==
    /\ share' = NoShare /\ stale' = FALSE
    /\ \/ spc' = "idle" /\ ruser' = ruser
       \/ mode = "pool" /\ spc' = "rejected" /\ ruser' = u

\* SE_INVALID_JOBID: its workbase is no longer in the table.
SubmitUnknown(h) ==
    /\ spc = "idle" /\ submitted < MaxShares
    /\ h.user \in authorised /\ h.job \in told[h.user] \ workbases
    /\ submitted' = submitted + 1
    /\ Rejected(h.user)
    /\ UNCHANGED <<envVars, tableVars, shares, userwbs, txnlen, updateVars, resend,
                   authVars, hold, outVars>>

\* The difficulty submission_diff finds: that of the hash if the coinbase is
\* the one the miner was sent; in solo mode that is his userwb's.
Difficulty(h) ==
    IF mode = "solo" /\ <<h.user, h.job>> \notin userwbs THEN 0 ELSE h.diff

\* (mutant) a share of exactly the network difficulty is passed over
TestBlocksolveAbove(h) ==
    IF Difficulty(h) > NetDiff[prevhash[current]]
    THEN blocks' = blocks \union {h} ELSE blocks' = blocks

\* test_blocksolve: a share of the network difficulty of the current work, or
\* 99.9% of it, is submitted as a block, stale or not.
TestBlocksolve(h) ==
    IF 1000 * Difficulty(h) >= 999 * NetDiff[prevhash[current]]
    THEN blocks' = blocks \union {h} ELSE blocks' = blocks

\* submission_diff, under the read count.
SubmitHash ==
    /\ spc = "got" /\ spc' = "hashed"
    /\ TestBlocksolve(share)
    /\ UNCHANGED <<envVars, tableVars, shares, userwbs, txnlen, updateVars, share, stale,
                   submitted, ruser, resend, authVars, hold, sentVars, authorised, credited>>

\* put_workbase.  The share goes on to the table of shares if it is not
\* stale, or late by less than the latency of a remote client's connection,
\* if its ntime is in its window, and its difficulty the pool's minimum.
SubmitPut(late, ntime) ==
    /\ spc = "hashed"
    /\ IF (stale => late) /\ ntime /\ Difficulty(share) >= MinDiff
       THEN spc' = "put" /\ UNCHANGED <<share, stale, ruser>>
       ELSE Rejected(share.user)
    /\ hold' = [hold EXCEPT !["share"] = 0]
    /\ readcount' = [readcount EXCEPT ![share.job] = @ - 1]
    /\ UNCHANGED <<envVars, workbases, current, last_id, prevhash, gentime,
                   blockchange_id, lasthash, freed, shares, userwbs, txnlen, updateVars,
                   submitted, resend, authVars, outVars>>

\* The thread turns to the next share.
Accepted == spc' = "idle" /\ share' = NoShare /\ stale' = FALSE /\ ruser' = ruser

\* (mutant) the hash is looked for and not entered
NewShareForgets ==
    /\ spc = "put"
    /\ IF share \in shares THEN Rejected(share.user) ELSE Accepted
    /\ credited' = IF share \in shares THEN credited
                   ELSE [credited EXCEPT ![share] = @ + 1]
    /\ UNCHANGED <<envVars, tableVars, shares, userwbs, txnlen, updateVars,
                   submitted, resend, authVars, hold, sentVars, authorised, blocks>>

\* new_share: a hash that is in the table is a duplicate; else it is credited.
NewShare ==
    /\ spc = "put"
    /\ IF share \in shares THEN Rejected(share.user) ELSE Accepted
    /\ shares' = shares \union {share}
    /\ credited' = IF share \in shares THEN credited
                   ELSE [credited EXCEPT ![share] = @ + 1]
    /\ UNCHANGED <<envVars, tableVars, userwbs, txnlen, updateVars,
                   submitted, resend, authVars, hold, sentVars, authorised, blocks>>

\* update_client: stratum_send_update reads the current work,
ResendRead ==
    /\ spc = "rejected" /\ spc' = "resend" /\ resend' = current
    /\ UNCHANGED <<envVars, tableVars, shares, userwbs, txnlen, updateVars, share, stale,
                   submitted, ruser, authVars, hold, outVars>>

\* and sends it.
Resend ==
    /\ spc = "resend" /\ spc' = "idle" /\ resend' = 0 /\ ruser' = NoUser
    /\ TellAlone(ruser, resend)
    /\ UNCHANGED <<envVars, tableVars, shares, userwbs, txnlen, updateVars, share, stale,
                   submitted, authVars, hold, authorised, blocks, credited>>

-----------------------------------------------------------------------------

Update ==
    \/ AddBase \/ AgeShares \/ ClearWorkbase \/ AgeMore \/ GenerateUserwbs
    \/ PurgeShares \/ BroadcastSolo \/ BroadcastPool \/ UpdateDone

Authorise ==
    \/ \E u \in Users : \/ ParseSubscribe(u) \/ SendUpdateRead(u) \/ SendUpdate(u)
                        \/ ClientAuth(u) \/ AuthUser(u)
    \/ AuthScript \/ AuthTakeBase \/ AuthUserwb \/ UpdateSoloClient \/ AuthPutBase

Submit ==
    \/ \E h \in Hashes : SubmitGet(h) \/ SubmitUnknown(h)
    \/ SubmitHash
    \/ \E late, ntime \in BOOLEAN : SubmitPut(late, ntime)
    \/ NewShare \/ ResendRead \/ Resend

Next == Tick \/ NetworkBlock \/ Update \/ Authorise \/ Submit

Spec == Init /\ [][Next]_vars

-----------------------------------------------------------------------------
(* Properties                                                                *)

\* A workbase a thread has a read count on is in the table and not freed: the
\* ageing loop of add_base passes over it, whichever thread took it when.
HeldAlive == \A t \in {"share", "auth"} : hold[t] # 0 => hold[t] \in workbases \ freed

\* In solo mode a share is hashed with the coinbase its miner was sent: the
\* user's workbase of all work he was sent is there as long as the workbase.
UserwbKept ==
    mode = "solo" => \A u \in Users : \A i \in told[u] \intersect workbases :
                        <<u, i>> \in userwbs

\* No miner stays on old work: once he is authorised and whatever was to be sent
\* to him alone was sent, each update reaches him, and is the last that was sent to
\* him when its broadcast is over.  Work that was current before that he may miss:
\* one who subscribes, is passed over by a broadcast and is then authorised, or
\* whose own message was made of work that has been replaced since, stays on old
\* work until the next update.
NobodyMissed == upc = "idle" => \A u \in due : last[u] = current

\* A share that solves the block its work is for is submitted as long as the
\* pool knows of no other block at that height, whatever becomes of the share
\* as a share, and although it is tested against the current workbase.
TipSolved ==
    spc \in {"hashed", "put"} /\ share.job >= blockchange_id
        /\ share.diff >= NetDiff[prevhash[share.job]]
    => share \in blocks

\* A share is accepted a second time only if meanwhile its work has become
\* stale or was aged out: new_share tells duplicates by a table that add_base
\* clears of such shares while others are on their way there.
DupeOnlyOvertaken ==
    [][\A h \in Hashes : credited'[h] > credited[h] /\ credited[h] > 0
        => h.job < blockchange_id \/ h.job \notin workbases]_vars

\* "Test we haven't solved a block regardless of share status" (stratifier.c
\* line 6186): every share that meets the difficulty of its own work is
\* submitted as a block, stale or not.
SolvesSubmitted ==
    spc = "hashed" /\ share.diff >= NetDiff[prevhash[share.job]] => share \in blocks
=============================================================================
