-------------------------- MODULE TemplateUpdates --------------------------
(* Where work comes from: the bitcoinds the generator fails over between      *)
(* (src/src/generator.c), and the requests of the stratifier for a new        *)
(* template and for the submission of a block (src/src/stratifier.c).         *)
(*                                                                           *)
(* Any thread that calls a bitcoind and fails flags it dead and looks itself *)
(* for a live one (live_server); gen_loop does so when told to reconnect, and *)
(* the watchdog tells it to when a better bitcoind is back.  update_sem lets  *)
(* one update through at a time: a routine one is skipped while another is    *)
(* under way, one of high priority waits.                                     *)
EXTENDS Integers, Sequences, FiniteSets

CONSTANTS
    BtcDs,       \* ckp->btcds: the bitcoinds are 1..BtcDs, best first
    Notify,      \* bitcoinds that notify of blocks (btcdnotify): not polled
    Zmq,         \* bitcoinds with a zmq endpoint
    Retries,     \* block_update's retries of a routine update (5)
    SubmitTries, \* submit_block's attempts (5)
    MaxHeight,   \* bound: blocks of the chain
    MaxEvents    \* bound: blocks found, by the network or this pool, bitcoinds
                 \* going down and replies lost, taken together

ASSUME UpdatesAssumption ==
    /\ BtcDs \in Nat \ {0}
    /\ Notify \subseteq 1..BtcDs /\ Zmq \subseteq 1..BtcDs
    /\ Retries \in Nat /\ SubmitTries \in Nat \ {0}
    /\ MaxHeight \in Nat /\ MaxEvents \in Nat

VARIABLES
    \* the bitcoinds and the network
    up,         \* up[s]: s answers
    tip,        \* height of the best chain
    seen,       \* seen[s]: height of the chain s knows
    events,     \* events so far
    \* the generator
    alive,      \* alive[s]: si->alive
    current_si,
    gq,         \* "reconnect" waits for gen_loop
    scan,       \* scan[t]: next bitcoind t tries in live_server, 0: the flagged
    \* the stratifier
    sem,        \* update_sem
    updateq,    \* priorities of the updates queued
    zq,         \* zmq messages not yet acted on
    lq,         \* "update" commands for stratum_loop
    prio, retries,  \* of the update under way
    height,     \* height of the current workbase
    \* a block being submitted
    blk,        \* its height
    si,         \* the bitcoind it is submitted to
    tries, accepted,
    \* all threads
    pc

envVars == <<up, tip, seen, events>>
genVars == <<alive, current_si, gq, scan>>
updVars == <<sem, updateq, zq, lq, prio, retries, height>>
blockVars == <<blk, si, tries, accepted>>
vars == <<envVars, genVars, updVars, blockVars, pc>>

Servers == 1..BtcDs
Callers == {"gen", "updater", "poll", "share"}    \* threads that use live_server
Threads == Callers \union {"loop", "zmq"}
NORMAL == 0
PRIORITY == 1

TypeOK ==
    /\ up \in [Servers -> BOOLEAN] /\ tip \in 0..MaxHeight
    /\ seen \in [Servers -> 0..MaxHeight] /\ events \in 0..MaxEvents
    /\ alive \in [Servers -> BOOLEAN] /\ current_si \in Servers /\ gq \in BOOLEAN
    /\ scan \in [Callers -> 0..BtcDs]
    /\ sem \in 0..1 /\ updateq \in Seq({NORMAL, PRIORITY})
    /\ zq \in Nat /\ lq \in Nat /\ prio \in {NORMAL, PRIORITY} /\ retries \in 0..Retries
    /\ height \in 0..MaxHeight /\ blk \in Nat /\ tries \in 0..SubmitTries
    /\ accepted \in BOOLEAN
    /\ pc \in [Threads -> {"idle", "call", "live", "post", "failed", "sem",
                           "check", "solved", "rejected"}]
    /\ si \in Servers

\* The pool is up: gen_loop found the first bitcoind, and the first update is
\* through.
Init ==
    /\ up = [s \in Servers |-> TRUE] /\ tip = 0 /\ seen = [s \in Servers |-> 0]
    /\ events = 0
    /\ alive = [s \in Servers |-> s = 1] /\ current_si = 1 /\ gq = FALSE
    /\ scan = [t \in Callers |-> 0]
    /\ sem = 1 /\ updateq = <<>> /\ zq = 0 /\ lq = 0 /\ prio = NORMAL /\ retries = 0
    /\ height = 0 /\ blk = 0 /\ tries = 0 /\ accepted = FALSE
    /\ pc = [t \in Threads |-> "idle"] /\ si = 1

Goto(t, place) == pc' = [pc EXCEPT ![t] = place]

-----------------------------------------------------------------------------
(* The bitcoinds.                                                            *)

\* (bound) One more event.
Event == events < MaxEvents /\ events' = events + 1

GoDown(s) ==
    /\ up[s] /\ Event
    /\ up' = [up EXCEPT ![s] = FALSE]
    /\ UNCHANGED <<tip, seen, genVars, updVars, blockVars, pc>>

ComeUp(s) ==
    /\ ~ up[s] /\ up' = [up EXCEPT ![s] = TRUE]
    /\ UNCHANGED <<tip, seen, events, genVars, updVars, blockVars, pc>>

\* The network finds a block.
NetworkBlock ==
    /\ tip < MaxHeight /\ tip' = tip + 1 /\ Event
    /\ UNCHANGED <<up, seen, genVars, updVars, blockVars, pc>>

\* A bitcoind learns of the chain.  Its blocknotify, if that is configured,
\* gives stratum_loop an "update", its zmq endpoint publishes a hashblock.
Learn(s) ==
    /\ up[s] /\ seen[s] < tip /\ seen' = [seen EXCEPT ![s] = tip]
    /\ zq' = IF s \in Zmq THEN zq + 1 ELSE zq
    /\ lq' = IF s \in Notify \ Zmq THEN lq + 1 ELSE lq
    /\ UNCHANGED <<up, tip, events, genVars, sem, updateq, prio, retries, height,
                   blockVars, pc>>

-----------------------------------------------------------------------------
(* Calls of a bitcoind: json_rpc_call and what is made of its answer.         *)

\* A call is answered by a bitcoind that is up.
Answers(s) == up[s]

\* gen_gbtbase, get_bestblockhash: the block that is next, and the last one.
Template(s) == seen[s]
BestBlock(s) == seen[s]

\* get_blockhash: only for a height it has.
BlockHash(s, h) == Answers(s) /\ seen[s] >= h

\* server_alive: one flagged alive is not called.
ServerAlive(s) == alive[s] \/ Answers(s)

-----------------------------------------------------------------------------
(* live_server, in whichever thread, and what each thread does then.         *)

Flagged == {s \in Servers : alive[s]}

\* After live_server the thread returns to its work: gen_loop and the poll have
\* nothing more to do, the updater retries unless it has done so too often, and
\* generator_get_blockhash has failed.
AfterLive(t) ==
    CASE t \in {"gen", "poll"} -> Goto(t, "idle") /\ UNCHANGED retries
      [] t = "share" -> Goto(t, "rejected") /\ UNCHANGED retries
      [] t = "updater" ->
            IF retries < Retries
            THEN Goto(t, "call") /\ retries' = retries + 1
            ELSE Goto(t, IF prio = PRIORITY THEN "call" ELSE "failed") /\ UNCHANGED retries

\* The thread settles for s; all but gen_loop tell gen_loop to do the same.
Settle(t, s) ==
    /\ current_si' = s
    /\ gq' = (gq \/ t # "gen")
    /\ scan' = [scan EXCEPT ![t] = 0]
    /\ AfterLive(t)
    /\ UNCHANGED <<envVars, sem, updateq, zq, lq, prio, height, blockVars>>

\* (mutant) the first flagged alive is the last of the list
LiveFlaggedLast(t) ==
    /\ pc[t] = "live" /\ scan[t] = 0 /\ Flagged # {}
    /\ \E s \in Flagged : (\A r \in Flagged : r <= s) /\ Settle(t, s)
    /\ UNCHANGED alive

\* One is flagged alive: the first is taken, without trying it.
LiveFlagged(t) ==
    /\ pc[t] = "live" /\ scan[t] = 0 /\ Flagged # {}
    /\ \E s \in Flagged : (\A r \in Flagged : s <= r) /\ Settle(t, s)
    /\ UNCHANGED alive

\* None is.
LiveNone(t) ==
    /\ pc[t] = "live" /\ scan[t] = 0 /\ Flagged = {}
    /\ scan' = [scan EXCEPT ![t] = 1]
    /\ UNCHANGED <<envVars, alive, current_si, gq, updVars, blockVars, pc>>

\* They are tried in order (server_alive); after the last the thread sleeps
\* and starts again.
LiveTry(t) ==
    /\ pc[t] = "live" /\ scan[t] # 0
    /\ LET s == scan[t] IN
        IF ServerAlive(s)
        THEN alive' = [alive EXCEPT ![s] = TRUE] /\ Settle(t, s)
        ELSE /\ scan' = [scan EXCEPT ![t] = IF s = BtcDs THEN 0 ELSE s + 1]
             /\ UNCHANGED <<envVars, alive, current_si, gq, updVars, blockVars, pc>>

\* gen_loop takes "reconnect".
GenReconnect ==
    /\ pc["gen"] = "idle" /\ gq /\ gq' = FALSE /\ Goto("gen", "live")
    /\ UNCHANGED <<envVars, alive, current_si, scan, updVars, blockVars>>

\* server_watchdog tries s.  If s is the first it finds alive, and not the one
\* in use, it has gen_loop reconnect.
WatchTry(s) ==
    /\ alive' = [alive EXCEPT ![s] = ServerAlive(s)]
    /\ gq' = (gq \/ (alive'[s] /\ s # current_si /\ \A r \in 1..(s - 1) : ~ alive[r]))
    /\ UNCHANGED <<envVars, current_si, scan, updVars, blockVars, pc>>

\* A call to the current bitcoind has failed: the caller flags it dead and looks
\* for another.
Failed(t) ==
    /\ alive' = [alive EXCEPT ![current_si] = FALSE]
    /\ Goto(t, "live")
    /\ UNCHANGED <<envVars, current_si, gq, scan, updVars, blockVars>>

-----------------------------------------------------------------------------
(* The requests for an update.                                               *)

\* update_base once the semaphore is there.
Queue(p) == sem' = 0 /\ updateq' = Append(updateq, p)

\* (mutant) a routine update does not look at the semaphore
LoopTimerAlways ==
    /\ pc["loop"] = "idle" /\ Len(updateq) < 2
    /\ updateq' = Append(updateq, NORMAL)
    /\ UNCHANGED <<envVars, genVars, sem, zq, lq, prio, retries, height, blockVars, pc>>

\* update_interval has passed: stratum_loop asks for a routine update, unless
\* one is under way.
LoopTimer ==
    /\ pc["loop"] = "idle" /\ sem = 1
    /\ Queue(NORMAL)
    /\ UNCHANGED <<envVars, genVars, zq, lq, prio, retries, height, blockVars, pc>>

\* stratum_loop takes "update", and waits for its turn.
LoopUpdate ==
    /\ pc["loop"] = "idle" /\ lq > 0 /\ lq' = lq - 1 /\ Goto("loop", "sem")
    /\ UNCHANGED <<envVars, genVars, sem, updateq, zq, prio, retries, height, blockVars>>

ZmqBlock ==
    /\ pc["zmq"] = "idle" /\ zq > 0 /\ zq' = zq - 1 /\ Goto("zmq", "sem")
    /\ UNCHANGED <<envVars, genVars, sem, updateq, lq, prio, retries, height, blockVars>>

\* blockupdate: generator_getbest.  A bitcoind that notifies is not polled.
Poll ==
    /\ pc["poll"] = "idle" /\ current_si \notin Notify
    /\ IF Answers(current_si)
       THEN /\ BestBlock(current_si) # height /\ Goto("poll", "sem")
            /\ UNCHANGED <<envVars, genVars, updVars, blockVars>>
       ELSE Failed("poll")

\* A thread that waits for the semaphore gets it.
TakeSem(t) ==
    /\ pc[t] = "sem" /\ sem = 1
    /\ Queue(PRIORITY) /\ Goto(t, "idle")
    /\ UNCHANGED <<envVars, genVars, zq, lq, prio, retries, height, blockVars>>

-----------------------------------------------------------------------------
(* The updater: block_update.                                                *)

UpdTake ==
    /\ pc["updater"] = "idle" /\ updateq # <<>>
    /\ prio' = Head(updateq) /\ updateq' = Tail(updateq) /\ retries' = 0
    /\ Goto("updater", "call")
    /\ UNCHANGED <<envVars, genVars, sem, zq, lq, height, blockVars>>

\* generator_getbase from the current bitcoind, add_base and the broadcast.
UpdCall ==
    /\ pc["updater"] = "call" /\ Answers(current_si)
    /\ height' = Template(current_si)
    /\ Goto("updater", "post")
    /\ UNCHANGED <<envVars, genVars, sem, updateq, zq, lq, prio, retries, blockVars>>

\* (mutant) a failed update returns at once
UpdCallFailsReturns ==
    /\ pc["updater"] = "call" /\ ~ Answers(current_si)
    /\ alive' = [alive EXCEPT ![current_si] = FALSE] /\ Goto("updater", "idle")
    /\ UNCHANGED <<envVars, current_si, gq, scan, updVars, blockVars>>

\* The bitcoind that was current does not answer.
UpdCallFails ==
    /\ pc["updater"] = "call" /\ ~ Answers(current_si)
    /\ Failed("updater")

\* Done, or given up.
UpdPost ==
    /\ pc["updater"] \in {"post", "failed"} /\ sem' = 1 /\ retries' = 0 /\ prio' = NORMAL
    /\ Goto("updater", "idle")
    /\ UNCHANGED <<envVars, genVars, updateq, zq, lq, height, blockVars>>

-----------------------------------------------------------------------------
(* A share solves a block: local_block_submit.                               *)

Solve ==
    /\ pc["share"] = "idle" /\ Event
    /\ height < MaxHeight
    /\ blk' = height + 1 /\ tries' = 0 /\ accepted' = FALSE
    /\ si' = current_si /\ Goto("share", "call")
    /\ UNCHANGED <<up, tip, seen, genVars, updVars>>

\* Submitted where the chain has not got further: it extends the chain.
Extends(s) == up[s] /\ ~ accepted /\ blk = tip + 1

\* submit_block is answered: accepted, or a duplicate, or too late.
SubmitAnswered ==
    /\ pc["share"] = "call" /\ up[si]
    /\ IF Extends(si)
       THEN tip' = blk /\ seen' = [seen EXCEPT ![si] = blk] /\ accepted' = TRUE
       ELSE UNCHANGED <<tip, seen, accepted>>
    /\ Goto("share", IF accepted' THEN "solved" ELSE "check")
    /\ tries' = 0
    /\ UNCHANGED <<up, events, genVars, updVars, blk, si>>

\* It is not: the bitcoind is down, or its answer is lost.  The same bitcoind is
\* tried again, for a number of times.
SubmitLost ==
    /\ pc["share"] = "call" /\ IF up[si] THEN Event ELSE UNCHANGED events
    /\ IF Extends(si)
       THEN tip' = blk /\ seen' = [seen EXCEPT ![si] = blk] /\ accepted' = TRUE
       ELSE UNCHANGED <<tip, seen, accepted>>
    /\ tries' = (tries + 1) % SubmitTries
    /\ Goto("share", IF tries' = 0 THEN "check" ELSE "call")
    /\ UNCHANGED <<up, genVars, updVars, blk, si>>

\* (mutant) any block of that height is taken for ours
CheckHashAny ==
    /\ pc["share"] = "check" /\ BlockHash(current_si, blk)
    /\ Goto("share", "solved")
    /\ UNCHANGED <<envVars, genVars, updVars, blockVars>>

\* generator_get_blockhash: is the block of that height ours?
CheckHash ==
    /\ pc["share"] = "check" /\ BlockHash(current_si, blk)
    /\ Goto("share", IF accepted THEN "solved" ELSE "rejected")
    /\ UNCHANGED <<envVars, genVars, updVars, blockVars>>

\* No answer, or none of that height: the bitcoind is taken for dead.
CheckFails ==
    /\ pc["share"] = "check" /\ ~ BlockHash(current_si, blk)
    /\ Failed("share")

\* The share is done with.
SubmitDone ==
    /\ pc["share"] \in {"solved", "rejected"} /\ Goto("share", "idle")
    /\ blk' = 0 /\ si' = 1 /\ tries' = 0 /\ accepted' = FALSE
    /\ UNCHANGED <<envVars, genVars, updVars>>

-----------------------------------------------------------------------------

Env == \E s \in Servers : GoDown(s) \/ ComeUp(s) \/ Learn(s)

Live(t) == LiveFlagged(t) \/ LiveNone(t) \/ LiveTry(t)
Generator == (\E t \in Callers : Live(t)) \/ GenReconnect
Watch == \E s \in Servers : WatchTry(s)
Loop == LoopTimer \/ LoopUpdate
Updater == UpdTake \/ UpdCall \/ UpdCallFails \/ UpdPost
Submit == SubmitAnswered \/ SubmitLost \/ CheckHash \/ CheckFails \/ SubmitDone

Next ==
    \/ Env \/ NetworkBlock \/ Generator \/ Watch \/ Loop \/ ZmqBlock \/ Poll
    \/ \E t \in {"loop", "zmq", "poll"} : TakeSem(t)
    \/ Updater \/ Solve \/ Submit

Spec == Init /\ [][Next]_vars

\* Every thread runs, and bitcoinds that are up learn of blocks.  A thread that
\* waits for update_sem is woken: POSIX semaphores do not let one waiter starve
\* for ever while others come and go.  Faults are never bound to happen, nor
\* is their end.
FairSpec ==
    /\ Spec
    /\ \A s \in Servers : WF_vars(Learn(s))
    /\ \A t \in Callers : WF_vars(Live(t))
    /\ WF_vars(GenReconnect) /\ (\A s \in Servers : WF_vars(WatchTry(s))) /\ WF_vars(ZmqBlock) /\ WF_vars(Poll)
    /\ WF_vars(LoopUpdate) /\ WF_vars(LoopTimer)
    /\ \A t \in {"loop", "zmq", "poll"} : SF_vars(TakeSem(t))
    /\ WF_vars(Updater) /\ WF_vars(Submit)

-----------------------------------------------------------------------------
(* Properties                                                                *)

\* Updates are made one at a time and the permission for the next is never lost:
\* either update_sem is free, or one request is queued, or one is under way.
OneUpdate ==
    sem + Len(updateq) + (IF pc["updater"] = "idle" THEN 0 ELSE 1) = 1

\* A block is reported solved only if a bitcoind has accepted it, however the
\* answers and retries came out.
SolvedAccepted == pc["share"] = "solved" => accepted

\* Unless all bitcoinds are down for good the miners come to work on the latest
\* block, whichever of them fail when, and whatever thread finds out.
WorkFollows == <>[](\E s \in Servers : [](up[s])) => []<>(height = tip)

\* When the best bitcoind stays up the pool returns to it for good.
FailsBack == <>[](up[1]) => <>[](current_si = 1)

\* A miner's block reaches a bitcoind when one that works is known.
\* "Make sure we always submit any possible block solve" (stratifier.c line
\* 6434): it is not given up for rejected with a live bitcoind at hand.
SolveReachesLive ==
    pc["share"] = "rejected" /\ ~ accepted /\ blk = tip + 1
    => \A s \in Servers : ~ (up[s] /\ alive[s])
=============================================================================
