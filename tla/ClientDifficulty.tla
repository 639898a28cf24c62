--------------------------- MODULE ClientDifficulty ---------------------------
(* The difficulty of one miner's shares (src/src/stratifier.c): set when its  *)
(* instance is made, by its agent, its worker's name or password, its own     *)
(* suggestions, the rate of its shares and its upstream pool.  The miner must *)
(* be told of every change.  Each change is made by another thread, which     *)
(* then makes a message of the difficulty as it is and queues it, without a   *)
(* lock: between the two steps another thread's message may pass it.  From    *)
(* the queue on messages keep their order.  What a share is credited while    *)
(* the difficulty changes (diff_change_job_id, old_diff) is not part of this  *)
(* module.                                                                    *)
EXTENDS Integers, Sequences, SequencesExt

CONSTANTS
    Modes,                    \* subset of {"pool", "proxy", "remote"}
    Diffs,                    \* bound: difficulties anybody asks for
    PoolMin, PoolMax, Start,  \* mindiff, maxdiff (0: none), startdiff
    HighDiff,                 \* highdiff: that of clients on a server_highdiff
    Rental,                   \* that of rental services' agents
    Overrides,                \* those of patterns in workers' names
    WorkerMins,               \* minimums workers have chosen
    ShareThreads, RecvThreads

ASSUME ClientDifficultyAssumption ==
    /\ Modes \subseteq {"pool", "proxy", "remote"}
    /\ Diffs \subseteq Nat \ {0} /\ Overrides \subseteq Nat \ {0}
    /\ PoolMin \in Nat /\ PoolMax \in Nat /\ WorkerMins \subseteq Nat
    /\ Start \in Nat \ {0} /\ HighDiff \in Nat /\ Rental \in Nat \ {0}
    /\ ShareThreads \intersect RecvThreads = {}

VARIABLES
    mode,
    subscribed,
    auth,       \* "no", "upstream": asked there (remote mode), "yes", "failed"
    dropped,
    reject,     \* client->reject, 3: to be dropped
    run,        \* minutes its shares have been invalid, 4: over three
    diff,       \* client->diff
    suggest,    \* client->suggest_diff
    rental,     \* client->rental_diff
    workerMin,  \* worker->mindiff
    limit,      \* the work's difficulty: the network's, or its pool's
    waiting,    \* the user has failed to authorise and auth_backoff runs
    reading,    \* reading[th]: the limit add_submit has read in th, 0: none
    telling,    \* threads that are about to make a message
    flight,     \* messages made and not yet queued, by whom, the oldest first
    behind,     \* how many of them, the first ones, are older than one queued
    told,       \* the difficulty in the last message queued, 0: none
    late        \* that was made before one that was queued before

diffVars == <<mode, subscribed, auth, dropped, reject, run, diff, suggest, rental, workerMin,
              limit, waiting, reading, telling, flight, behind, told, late>>
stateVars == <<subscribed, auth, dropped>>
runVars == <<reject, run>>
wishVars == <<suggest, rental, workerMin>>
tellVars == <<flight, behind, told, late>>

Tellers == ShareThreads \union RecvThreads \union {"auth", "loop"}
Lowest(a, b) == IF a < b THEN a ELSE b
Highest(a, b) == IF a > b THEN a ELSE b
\* PoolMax, where there is one
Capped(d) == IF PoolMax = 0 THEN d ELSE Lowest(d, PoolMax)

Values == Diffs \union Overrides \union WorkerMins
            \union {PoolMin, PoolMax, Start, HighDiff, Rental, 1}
DiffTypeOK ==
    /\ mode \in Modes /\ subscribed \in BOOLEAN /\ dropped \in BOOLEAN
    /\ auth \in {"no", "upstream", "yes", "failed"} /\ reject \in 0..3 /\ run \in 0..4
    /\ diff \in Values \ {0} /\ suggest \in Values /\ limit \in Values \ {0}
    /\ workerMin \in WorkerMins /\ telling \subseteq Tellers
    /\ reading \in [ShareThreads -> Values]
    /\ \A i \in DOMAIN flight : flight[i] \in [by : Tellers, diff : Values]
    /\ behind \in 0..Len(flight) /\ told \in Values \union {0} /\ late \in BOOLEAN

\* __stratum_add_instance
DiffInit ==
    /\ mode \in Modes /\ subscribed = FALSE /\ auth = "no" /\ dropped = FALSE
    /\ reject = 0 /\ run = 0
    /\ suggest \in {0, HighDiff} /\ diff = Highest(Start, suggest)
    /\ rental = FALSE /\ workerMin \in WorkerMins /\ limit \in Diffs /\ waiting \in BOOLEAN
    /\ reading = [th \in ShareThreads |-> 0]
    /\ telling = {} /\ flight = <<>> /\ behind = 0 /\ told = 0 /\ late = FALSE

-----------------------------------------------------------------------------
(* Telling the miner.                                                        *)

\* stratum_send_diff reads the difficulty.
MakeMessage(th) ==
    /\ th \in telling /\ telling' = telling \ {th}
    /\ flight' = Append(flight, [by |-> th, diff |-> diff])
    /\ UNCHANGED <<mode, stateVars, runVars, diff, wishVars, limit, waiting, reading,
                   behind, told, late>>

\* stratum_add_send: the message joins ssends (a node sends none, and none is sent
\* by way of a server that is gone: neither is here).
QueueMessage(i) ==
    /\ told' = flight[i].diff /\ flight' = RemoveAt(flight, i)
    /\ late' = (i <= behind) /\ behind' = IF i <= behind THEN behind - 1 ELSE i - 1
    /\ UNCHANGED <<mode, stateVars, runVars, diff, wishVars, limit, waiting, reading, telling>>

\* Thread th is not through with telling.
Telling(th) == th \in telling \/ \E i \in DOMAIN flight : flight[i].by = th

\* A thread that has changed the difficulty tells the miner before anything else.
Changed(th, d) == diff' = d /\ telling' = telling \union {th}

-----------------------------------------------------------------------------
(* Subscribing and authorising.                                              *)

\* parse_instance_msg: does thread th read another message of the client?
Heard(th) == ~ Telling(th) /\ ~ dropped /\ reject < 3

\* parse_subscribe, init_client: agent: that of a rental service.
Subscribe(th, agent) ==
    /\ Heard(th) /\ ~ subscribed /\ subscribed' = TRUE
    /\ rental' = agent /\ suggest' = IF agent THEN Rental ELSE suggest
    /\ Changed(th, IF agent THEN Rental ELSE diff)
    /\ UNCHANGED <<mode, auth, dropped, runVars, workerMin, limit, waiting, reading, tellVars>>

\* parse_authorise: a pattern in the worker's name counts but for rental
\* services, as it is; the password counts more, within the pool's limits.  0 is
\* none of them.
Applied(override, password) ==
    LET named == IF rental THEN 0 ELSE override
        asked == IF password # 0 THEN Capped(Highest(password, PoolMin)) ELSE named
    IN  /\ suggest' = IF password # 0 THEN password ELSE IF named # 0 THEN named ELSE suggest
        /\ diff' = IF asked # 0 THEN asked ELSE diff

\* preauth_ref_instance_by_id; failed clients may have asked twice.
AuthFound == auth \in {"no", "failed"} /\ ~ dropped /\ ~ Telling("auth")

AuthorisedUser == auth' = "yes" /\ waiting' = FALSE /\ UNCHANGED reject
\* upstream_auth: the client stays authorising until the pool has answered.
AskedUpstream == auth' = "upstream" /\ UNCHANGED <<waiting, reject>>
RefusedUser == auth' = "failed" /\ waiting' = TRUE /\ reject' = 3

\* sauth_process: remote servers leave the decision to their pool, and then do
\* not tell.
Authorise(override, password, ok) ==
    /\ AuthFound /\ ~ waiting /\ Applied(override, password)
    /\ IF ~ ok THEN RefusedUser /\ UNCHANGED telling
       ELSE IF mode = "remote"
       THEN AskedUpstream /\ UNCHANGED telling
       ELSE AuthorisedUser /\ telling' = telling \union {"auth"}
    /\ UNCHANGED <<mode, subscribed, dropped, run, rental, workerMin, limit, reading, tellVars>>

\* The user has failed too short a while ago.
Throttle(override, password) ==
    /\ AuthFound /\ waiting /\ Applied(override, password) /\ dropped' = TRUE
    /\ UNCHANGED <<mode, subscribed, auth, runVars, rental, workerMin, limit, waiting, reading,
                   telling, tellVars>>

\* ref_instance_by_id, ref_instance_by_virtualid: the client the answer is for.
AnswerFor == auth = "upstream" /\ ~ dropped

\* parse_upstream_auth
UpstreamAnswer(ok) ==
    /\ AnswerFor /\ IF ok THEN AuthorisedUser ELSE RefusedUser
    /\ UNCHANGED <<mode, subscribed, dropped, run, diff, wishVars, limit, reading, telling,
                   tellVars>>

\* Another client of the user fails; auth_backoff passes.
Backoff ==
    /\ ~ dropped /\ auth \in {"no", "failed"} /\ waiting' = ~ waiting
    /\ UNCHANGED <<mode, stateVars, runVars, diff, wishVars, limit, reading, telling, tellVars>>

Leave ==
    /\ ~ dropped /\ dropped' = TRUE
    /\ UNCHANGED <<mode, subscribed, auth, runVars, diff, wishVars, limit, waiting, reading,
                   telling, tellVars>>

-----------------------------------------------------------------------------
(* Changes while it works.                                                   *)

\* suggest_diff
Suggest(th, wish) ==
    LET s == Highest(wish, PoolMin)
    IN  /\ Heard(th) /\ subscribed /\ auth = "yes" /\ s # suggest /\ suggest' = s
        /\ IF s = diff THEN UNCHANGED <<diff, telling>> ELSE Changed(th, s)
        /\ UNCHANGED <<mode, stateVars, runVars, rental, workerMin, limit, waiting, reading,
                       tellVars>>

\* sshare_process, parse_submit: the share counts; add_submit reads the limit.
Working(th) == ~ Telling(th) /\ reading[th] = 0 /\ auth = "yes" /\ ~ dropped
TakeShareOf(th) ==
    /\ Working(th) /\ reading' = [reading EXCEPT ![th] = limit]
    /\ UNCHANGED <<mode, stateVars, runVars, diff, wishVars, limit, waiting, telling, tellVars>>

\* A valid share ends a run of invalid ones, unless the client is to go.
ValidShare == IF reject < 3 THEN reject' = 0 /\ run' = 0 ELSE UNCHANGED runVars

\* add_submit: it is not yet time, or the rate is right.
KeepDiff(th) ==
    /\ reading[th] # 0 /\ reading' = [reading EXCEPT ![th] = 0] /\ ValidShare
    /\ UNCHANGED <<mode, stateVars, diff, wishVars, limit, waiting, telling, tellVars>>

\* Its rate wants another difficulty; less than it has only if nobody has chosen
\* a minimum.
Retarget(th, wanted) ==
    LET mindiff == IF suggest # 0 THEN suggest ELSE workerMin
        optimal == Lowest(Capped(Highest(wanted, Highest(PoolMin, mindiff))), reading[th])
    IN  /\ reading[th] # 0 /\ (mindiff # 0 => wanted > diff) /\ optimal # diff
        /\ reading' = [reading EXCEPT ![th] = 0] /\ ValidShare /\ Changed(th, optimal)
        /\ UNCHANGED <<mode, stateVars, wishVars, limit, waiting, tellVars>>

\* parse_submit: what a run of invalid shares leads to: after a minute, work and
\* difficulty are sent again (update_client); after two, the client is asked to
\* reconnect; after three it is to go.
InvalidShare(th, minutes) ==
    /\ Working(th) /\ minutes \in {run, run + 1} \intersect 1..4 /\ run' = minutes
    /\ reject' = IF minutes = 4 THEN 3 ELSE IF minutes = 3 /\ reject < 2 THEN 2
                 ELSE IF minutes > 1 /\ reject = 0 THEN 1 ELSE reject
    /\ telling' = IF reject = 0 /\ reject' = 1 THEN telling \union {th} ELSE telling
    /\ UNCHANGED <<mode, stateVars, diff, wishVars, limit, waiting, reading, tellVars>>

\* (mutant) lowered quietly
UpstreamDiffUntold(d) ==
    /\ mode = "proxy" /\ limit' = d /\ ~ Telling("loop")
    /\ diff' = IF d <= limit /\ subscribed THEN Lowest(diff, d) ELSE diff
    /\ UNCHANGED <<mode, stateVars, runVars, wishVars, waiting, reading, telling, tellVars>>

\* update_diff: its pool's difficulty has not risen: no client of it may have a
\* higher one.
UpstreamDiff(d) ==
    /\ mode = "proxy" /\ limit' = d /\ ~ Telling("loop")
    /\ IF d <= limit /\ subscribed /\ diff > d
       THEN Changed("loop", d) ELSE UNCHANGED <<diff, telling>>
    /\ UNCHANGED <<mode, stateVars, runVars, wishVars, waiting, reading, tellVars>>

DiffNext ==
    \/ \E th \in Tellers : MakeMessage(th)
    \/ \E i \in DOMAIN flight : QueueMessage(i)
    \/ \E th \in RecvThreads :
        \/ \E agent \in BOOLEAN : Subscribe(th, agent)
        \/ \E wish \in Diffs : Suggest(th, wish)
    \/ \E override \in Overrides \union {0}, password \in Diffs \union {0} :
        \/ \E ok \in BOOLEAN : Authorise(override, password, ok)
        \/ Throttle(override, password)
    \/ \E ok \in BOOLEAN : UpstreamAnswer(ok)
    \/ Backoff \/ Leave
    \/ \E th \in ShareThreads :
        \/ TakeShareOf(th) \/ KeepDiff(th) \/ \E wanted \in Diffs : Retarget(th, wanted)
        \/ \E minutes \in 1..4 : InvalidShare(th, minutes)
    \/ \E d \in Diffs : UpstreamDiff(d)

DiffSpec == DiffInit /\ [][DiffNext]_diffVars

-----------------------------------------------------------------------------
(* Property.                                                                 *)

\* A miner that has subscribed, and has not been refused, has been told the
\* difficulty it has, once every message about it has been queued, whichever
\* threads changed it at once; unless a message was made before another one and
\* queued after it.  On a trusted remote server it holds until the miner authorises: what
\* its worker's name or password asks for is not told once the pool has agreed.
DiffTold ==
    \/ telling # {} \/ flight # <<>> \/ late
    \/ ~ subscribed \/ auth = "failed" \/ dropped
    \/ mode = "remote" /\ auth # "no"
    \/ told = diff
=============================================================================
