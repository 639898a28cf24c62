----------------------- MODULE TemplateUpdates_proofs -----------------------
(* Proofs about TemplateUpdates, for any number of bitcoinds, heights, retries *)
(* and faults: one update is made at a time and the permission for the next is *)
(* never lost, and a block is only called solved when a bitcoind took it.      *)
EXTENDS TemplateUpdates, SequenceTheorems, TLAPS

\* A block being submitted is one the chain may come to.
Reachable == blk <= MaxHeight

IInv == TypeOK /\ Reachable /\ OneUpdate /\ SolvedAccepted

\* Where the threads are.
Places == {"idle", "call", "live", "post", "failed", "sem", "check", "solved", "rejected"}

LEMMA Going ==
    ASSUME NEW t \in Threads, NEW place \in Places, pc \in [Threads -> Places], Goto(t, place)
    PROVE  pc' \in [Threads -> Places] /\ pc'[t] = place
           /\ \A r \in Threads \ {t} : pc'[r] = pc[r]
BY DEF Goto

\* The three threads whose place the invariant looks at.
LEMMA ThreadNames ==
    /\ Callers \subseteq Threads
    /\ {"loop", "zmq", "poll", "gen", "updater", "share"} \subseteq Threads
BY DEF Callers, Threads

LEMMA InitInv == Init => IInv
<1> SUFFICES ASSUME Init PROVE IInv
  OBVIOUS
<1>1. /\ BtcDs \in Nat \ {0} /\ Retries \in Nat /\ SubmitTries \in Nat \ {0}
      /\ MaxHeight \in Nat /\ MaxEvents \in Nat
  BY UpdatesAssumption
<1>2. updateq \in Seq({NORMAL, PRIORITY}) /\ Len(updateq) = 0
  BY DEF Init
<1>3. pc["updater"] = "idle" /\ pc["share"] = "idle"
  BY DEF Init, Callers, Threads
<1>4. TypeOK
  <2>1. /\ up \in [Servers -> BOOLEAN] /\ alive \in [Servers -> BOOLEAN]
        /\ gq \in BOOLEAN /\ accepted \in BOOLEAN
    BY DEF Init
  <2>2. pc \in [Threads -> Places] /\ scan \in [Callers -> 0..BtcDs] /\ seen \in [Servers -> 0..MaxHeight]
    BY <1>1 DEF Init, Places
  <2>3. /\ tip \in 0..MaxHeight /\ events \in 0..MaxEvents /\ current_si \in Servers
        /\ sem \in 0..1 /\ zq \in Nat /\ lq \in Nat /\ prio \in {NORMAL, PRIORITY}
        /\ retries \in 0..Retries /\ height \in 0..MaxHeight /\ blk \in Nat
        /\ tries \in 0..SubmitTries /\ si \in Servers
    <3>1. /\ tip = 0 /\ events = 0 /\ current_si = 1 /\ sem = 1 /\ zq = 0 /\ lq = 0
          /\ prio = NORMAL /\ retries = 0 /\ height = 0 /\ blk = 0 /\ tries = 0
          /\ si = 1
      BY DEF Init
    <3> QED
      BY <1>1, <3>1 DEF Servers
  <2> QED
    BY <1>2, <2>1, <2>2, <2>3 DEF TypeOK, Places
<1> QED
  BY <1>1, <1>2, <1>3, <1>4 DEF Init, IInv, Reachable, OneUpdate, SolvedAccepted

\* What the thread does after live_server.
LEMMA AfterLiveGoes ==
    ASSUME TypeOK, NEW t \in Callers, AfterLive(t)
    PROVE  /\ pc' \in [Threads -> Places] /\ retries' \in 0..Retries
           /\ \A r \in Threads \ {t} : pc'[r] = pc[r]
           /\ t = "updater" => pc'[t] # "idle"
           /\ t = "share" => pc'[t] # "solved"
<1>1. t \in Threads /\ pc \in [Threads -> Places] /\ retries \in 0..Retries /\ Retries \in Nat
  BY UpdatesAssumption, ThreadNames DEF TypeOK, Places
<1>2. t \in {"gen", "poll", "share", "updater"}
  BY DEF Callers
<1>3. CASE t \in {"gen", "poll"}
  <2>1. Goto(t, "idle") /\ UNCHANGED retries
    BY <1>3 DEF AfterLive
  <2> QED
    BY <1>1, <1>3, <2>1, Going DEF Places
<1>4. CASE t = "share"
  <2>1. Goto(t, "rejected") /\ UNCHANGED retries
    BY <1>4 DEF AfterLive
  <2> QED
    BY <1>1, <1>4, <2>1, Going DEF Places
<1>5. CASE t = "updater"
  <2>1. PICK place \in {"call", "failed"} :
          Goto(t, place) /\ (retries' = retries \/ (retries < Retries /\ retries' = retries + 1))
    BY <1>5 DEF AfterLive
  <2>2. place \in Places /\ retries' \in 0..Retries
    BY <1>1, <2>1 DEF Places
  <2>3. pc' \in [Threads -> Places] /\ pc'[t] = place
        /\ \A r \in Threads \ {t} : pc'[r] = pc[r]
    BY <1>1, <2>1, <2>2, Going
  <2> QED
    BY <1>5, <2>1, <2>2, <2>3
<1> QED
  BY <1>2, <1>3, <1>4, <1>5

\* live_server changes no semaphore and queue, and lets no update end.
LEMMA SettleInv ==
    ASSUME IInv, NEW t \in Callers, pc[t] = "live", NEW s \in Servers,
           Settle(t, s), alive' \in [Servers -> BOOLEAN]
    PROVE  IInv'
<1>1. TypeOK /\ AfterLive(t) /\ UNCHANGED <<envVars, sem, updateq, zq, lq, prio, height, blockVars>>
  BY DEF IInv, Settle
<1>2. /\ pc' \in [Threads -> Places] /\ retries' \in 0..Retries
      /\ \A r \in Threads \ {t} : pc'[r] = pc[r]
      /\ t = "updater" => pc'[t] # "idle"
      /\ t = "share" => pc'[t] # "solved"
  BY <1>1, AfterLiveGoes
<1>3. scan' \in [Callers -> 0..BtcDs] /\ current_si' \in Servers /\ gq' \in BOOLEAN
  BY <1>1, UpdatesAssumption DEF Settle, TypeOK
<1>4. TypeOK'
  BY <1>1, <1>2, <1>3 DEF TypeOK, envVars, blockVars, Places
<1>5. OneUpdate'
  BY <1>1, <1>2, ThreadNames DEF IInv, OneUpdate
<1>6. SolvedAccepted'
  BY <1>1, <1>2, ThreadNames DEF IInv, SolvedAccepted, blockVars
<1> QED
  BY <1>1, <1>4, <1>5, <1>6 DEF IInv, Reachable, blockVars

LEMMA LiveInv == ASSUME IInv, NEW t \in Callers, Live(t) PROVE IInv'
<1>1. CASE LiveFlagged(t)
  <2>1. pc[t] = "live" /\ alive' \in [Servers -> BOOLEAN]
        /\ \E s \in Servers : Settle(t, s)
    BY <1>1 DEF LiveFlagged, Flagged, IInv, TypeOK
  <2> QED
    BY <2>1, SettleInv
<1>2. CASE LiveNone(t)
  <2>1. scan' \in [Callers -> 0..BtcDs]
    BY <1>2, UpdatesAssumption DEF LiveNone, IInv, TypeOK
  <2> QED
    BY <1>2, <2>1 DEF LiveNone, IInv, TypeOK, Reachable, OneUpdate, SolvedAccepted,
                      envVars, updVars, blockVars
<1>3. CASE LiveTry(t)
  <2>1. scan[t] \in Servers /\ pc[t] = "live"
    BY <1>3, UpdatesAssumption DEF LiveTry, IInv, TypeOK, Servers
  <2>2. CASE ServerAlive(scan[t])
    <3>1. alive' \in [Servers -> BOOLEAN] /\ Settle(t, scan[t])
      BY <1>3, <2>1, <2>2 DEF LiveTry, IInv, TypeOK
    <3> QED
      BY <2>1, <3>1, SettleInv
  <2>3. CASE ~ ServerAlive(scan[t])
    <3>1. /\ scan' = [scan EXCEPT ![t] = IF scan[t] = BtcDs THEN 0 ELSE scan[t] + 1]
          /\ UNCHANGED <<envVars, alive, current_si, gq, updVars, blockVars, pc>>
      BY <1>3, <2>3 DEF LiveTry
    <3>2. scan' \in [Callers -> 0..BtcDs]
      BY <2>1, <3>1, UpdatesAssumption DEF IInv, TypeOK, Servers
    <3> QED
      BY <3>1, <3>2 DEF IInv, TypeOK, Reachable, OneUpdate, SolvedAccepted,
                        envVars, updVars, blockVars
  <2> QED
    BY <2>2, <2>3
<1> QED
  BY <1>1, <1>2, <1>3 DEF Live

\* A thread that is not the updater or the share's goes from one place to another.
LEMMA OtherGoes ==
    ASSUME IInv, NEW t \in {"loop", "zmq", "poll", "gen"}, NEW place \in Places,
           Goto(t, place)
    PROVE  pc' \in [Threads -> Places] /\ pc'["updater"] = pc["updater"]
           /\ pc'["share"] = pc["share"]
<1>1. t \in Threads /\ t # "updater" /\ t # "share" /\ {"updater", "share"} \subseteq Threads
  BY ThreadNames
<1>2. pc \in [Threads -> Places]
  BY DEF IInv, TypeOK, Places
<1>3. pc' \in [Threads -> Places] /\ \A r \in Threads \ {t} : pc'[r] = pc[r]
  BY <1>1, <1>2, Going
<1> QED
  BY <1>1, <1>3

\* A call has failed.
LEMMA FailedInv ==
    ASSUME IInv, NEW t \in {"updater", "poll", "share"}, Failed(t),
           t = "updater" => pc[t] # "idle"
    PROVE  IInv'
<1>1. t \in Threads /\ pc \in [Threads -> Places] /\ "live" \in Places
  BY ThreadNames DEF IInv, TypeOK, Places
<1>2. pc' \in [Threads -> Places] /\ pc'[t] = "live"
      /\ \A r \in Threads \ {t} : pc'[r] = pc[r]
  BY <1>1, Going DEF Failed
<1>3. alive' \in [Servers -> BOOLEAN]
  BY DEF Failed, IInv, TypeOK
<1>4. UNCHANGED <<envVars, current_si, gq, scan, updVars, blockVars>>
  BY DEF Failed
<1>5. TypeOK'
  BY <1>2, <1>3, <1>4 DEF IInv, TypeOK, Places, envVars, updVars, blockVars
<1>6. OneUpdate' /\ SolvedAccepted'
  BY <1>2, <1>4, ThreadNames DEF IInv, OneUpdate, SolvedAccepted, updVars, blockVars
<1> QED
  BY <1>4, <1>5, <1>6 DEF IInv, Reachable, blockVars

\* The semaphore is taken and an update queued.
LEMMA QueueInv ==
    ASSUME IInv, NEW p \in {NORMAL, PRIORITY}, sem = 1, Queue(p), pc' \in [Threads -> Places],
           pc'["updater"] = pc["updater"], pc'["share"] = pc["share"],
           UNCHANGED <<envVars, genVars, zq, lq, prio, retries, height, blockVars>>
    PROVE  IInv'
<1>1. updateq \in Seq({NORMAL, PRIORITY})
  BY DEF IInv, TypeOK
<1>2. updateq' \in Seq({NORMAL, PRIORITY}) /\ Len(updateq') = Len(updateq) + 1
      /\ Len(updateq) \in Nat /\ sem' = 0
  BY <1>1, AppendProperties, LenProperties DEF Queue
<1>3. TypeOK'
  BY <1>2 DEF IInv, TypeOK, Places, envVars, genVars, blockVars
<1>4. OneUpdate'
  BY <1>2 DEF IInv, OneUpdate
<1> QED
  BY <1>3, <1>4 DEF IInv, Reachable, SolvedAccepted, blockVars

\* Steps of the bitcoinds, the watchdog and the threads that ask for updates.
LEMMA QuietInv ==
    ASSUME IInv, TypeOK', UNCHANGED <<sem, updateq, blk, accepted>>,
           pc'["updater"] = pc["updater"], pc'["share"] = pc["share"]
    PROVE  IInv'
BY DEF IInv, OneUpdate, SolvedAccepted, Reachable

\* Threads that ask for an update, and the bitcoinds.
LEMMA AskInv ==
    ASSUME IInv, \/ Env \/ NetworkBlock \/ GenReconnect \/ Watch \/ Loop \/ ZmqBlock \/ Poll
                 \/ \E t \in {"loop", "zmq", "poll"} : TakeSem(t)
    PROVE  IInv'
<1>1. ASSUME NEW s \in Servers, GoDown(s) \/ ComeUp(s) PROVE IInv'
  <2>1. up' \in [Servers -> BOOLEAN] /\ events' \in 0..MaxEvents
    <3>1. up' \in [Servers -> BOOLEAN]
      BY <1>1 DEF GoDown, ComeUp, IInv, TypeOK
    <3>2. events' = events \/ (events < MaxEvents /\ events' = events + 1)
      BY <1>1 DEF GoDown, ComeUp, Event
    <3> QED
      BY <3>1, <3>2, UpdatesAssumption DEF IInv, TypeOK
  <2>2. UNCHANGED <<tip, seen, genVars, updVars, blockVars, pc>>
    BY <1>1 DEF GoDown, ComeUp
  <2>3. TypeOK'
    BY <2>1, <2>2 DEF IInv, TypeOK, genVars, updVars, blockVars
  <2> QED
    BY <2>2, <2>3, QuietInv DEF updVars, blockVars
<1>2. ASSUME NEW s \in Servers, Learn(s) PROVE IInv'
  <2>1. seen' \in [Servers -> 0..MaxHeight] /\ zq' \in Nat /\ lq' \in Nat
    BY <1>2 DEF Learn, IInv, TypeOK
  <2>2. UNCHANGED <<up, tip, events, genVars, sem, updateq, prio, retries, height, blockVars, pc>>
    BY <1>2 DEF Learn
  <2>3. TypeOK'
    BY <2>1, <2>2 DEF IInv, TypeOK, genVars, blockVars
  <2> QED
    BY <2>2, <2>3, QuietInv DEF blockVars
<1>3. CASE NetworkBlock
  <2>1. tip' \in 0..MaxHeight /\ events' \in 0..MaxEvents
    BY <1>3, UpdatesAssumption DEF NetworkBlock, Event, IInv, TypeOK
  <2>2. UNCHANGED <<up, seen, genVars, updVars, blockVars, pc>>
    BY <1>3 DEF NetworkBlock
  <2>3. TypeOK'
    BY <2>1, <2>2 DEF IInv, TypeOK, genVars, updVars, blockVars
  <2> QED
    BY <2>2, <2>3, QuietInv DEF updVars, blockVars
<1>4. CASE GenReconnect
  <2>1. pc' \in [Threads -> Places] /\ pc'["updater"] = pc["updater"] /\ pc'["share"] = pc["share"]
    BY <1>4, OtherGoes DEF GenReconnect, Places
  <2>2. gq' \in BOOLEAN /\ UNCHANGED <<envVars, alive, current_si, scan, updVars, blockVars>>
    BY <1>4 DEF GenReconnect
  <2>3. TypeOK'
    BY <2>1, <2>2 DEF IInv, TypeOK, Places, envVars, updVars, blockVars
  <2> QED
    BY <2>1, <2>2, <2>3, QuietInv DEF updVars, blockVars
<1>5. ASSUME NEW s \in Servers, WatchTry(s) PROVE IInv'
  <2>1. alive' \in [Servers -> BOOLEAN] /\ gq' \in BOOLEAN
    <3>1. ServerAlive(s) \in BOOLEAN
      BY DEF ServerAlive
    <3>2. alive' \in [Servers -> BOOLEAN]
      BY <1>5, <3>1 DEF WatchTry, IInv, TypeOK
    <3>3. gq' \in BOOLEAN
      BY <1>5 DEF WatchTry
    <3> QED
      BY <3>2, <3>3
  <2>2. UNCHANGED <<envVars, current_si, scan, updVars, blockVars, pc>>
    BY <1>5 DEF WatchTry
  <2>3. TypeOK'
    BY <2>1, <2>2 DEF IInv, TypeOK, envVars, updVars, blockVars
  <2> QED
    BY <2>2, <2>3, QuietInv DEF updVars, blockVars
<1>6. CASE LoopTimer
  <2>1. sem = 1 /\ Queue(NORMAL) /\ pc' \in [Threads -> Places] /\ UNCHANGED pc
    BY <1>6 DEF LoopTimer, IInv, TypeOK, Places
  <2> QED
    BY <1>6, <2>1, QueueInv DEF LoopTimer
<1>7. ASSUME NEW t \in {"loop", "zmq"}, LoopUpdate \/ ZmqBlock, Goto(t, "sem") PROVE IInv'
  <2>1. pc' \in [Threads -> Places] /\ pc'["updater"] = pc["updater"] /\ pc'["share"] = pc["share"]
    BY <1>7, OtherGoes DEF Places
  <2>2. zq' \in Nat /\ lq' \in Nat
    BY <1>7 DEF LoopUpdate, ZmqBlock, IInv, TypeOK
  <2>3. UNCHANGED <<envVars, genVars, sem, updateq, prio, retries, height, blockVars>>
    BY <1>7 DEF LoopUpdate, ZmqBlock
  <2>4. TypeOK'
    BY <2>1, <2>2, <2>3 DEF IInv, TypeOK, Places, envVars, genVars, blockVars
  <2> QED
    BY <2>1, <2>3, <2>4, QuietInv DEF blockVars
<1>8. CASE Poll
  <2>1. CASE Failed("poll")
    BY <2>1, FailedInv
  <2>2. CASE Goto("poll", "sem") /\ UNCHANGED <<envVars, genVars, updVars, blockVars>>
    <3>1. pc' \in [Threads -> Places] /\ pc'["updater"] = pc["updater"] /\ pc'["share"] = pc["share"]
      BY <2>2, OtherGoes DEF Places
    <3>2. TypeOK'
      BY <2>2, <3>1 DEF IInv, TypeOK, Places, envVars, genVars, updVars, blockVars
    <3> QED
      BY <2>2, <3>1, <3>2, QuietInv DEF updVars, blockVars
  <2> QED
    BY <1>8, <2>1, <2>2 DEF Poll
<1>9. ASSUME NEW t \in {"loop", "zmq", "poll"}, TakeSem(t) PROVE IInv'
  <2>1. pc' \in [Threads -> Places] /\ pc'["updater"] = pc["updater"] /\ pc'["share"] = pc["share"]
    BY <1>9, OtherGoes DEF TakeSem, Places
  <2> QED
    BY <1>9, <2>1, QueueInv DEF TakeSem
<1> QED
  BY <1>1, <1>2, <1>3, <1>4, <1>5, <1>6, <1>7, <1>8, <1>9 DEF Env, Watch, Loop, LoopUpdate, ZmqBlock

\* The update under way, from its request to the end.
LEMMA UpdaterInv == ASSUME IInv, Updater PROVE IInv'
<1>1. "updater" \in Threads /\ "share" \in Threads /\ pc \in [Threads -> Places]
  BY ThreadNames DEF IInv, TypeOK, Places
<1>2. CASE UpdTake
  <2>1. updateq \in Seq({NORMAL, PRIORITY}) /\ updateq # <<>>
    BY <1>2 DEF UpdTake, IInv, TypeOK
  <2>2. /\ prio' \in {NORMAL, PRIORITY} /\ updateq' \in Seq({NORMAL, PRIORITY})
        /\ Len(updateq') = Len(updateq) - 1 /\ Len(updateq) \in Nat
    BY <1>2, <2>1, HeadTailProperties, LenProperties DEF UpdTake
  <2>3. pc' \in [Threads -> Places] /\ pc'["updater"] = "call" /\ pc'["share"] = pc["share"]
    BY <1>1, <1>2, Going DEF UpdTake, Places
  <2>4. retries' \in 0..Retries
        /\ UNCHANGED <<envVars, genVars, sem, zq, lq, height, blockVars>>
    BY <1>2, UpdatesAssumption DEF UpdTake
  <2>5. TypeOK'
    BY <2>2, <2>3, <2>4 DEF IInv, TypeOK, Places, envVars, genVars, blockVars
  <2>6. OneUpdate'
    BY <1>2, <2>2, <2>3, <2>4 DEF UpdTake, IInv, TypeOK, OneUpdate
  <2> QED
    BY <2>3, <2>4, <2>5, <2>6 DEF IInv, Reachable, SolvedAccepted, blockVars
<1>3. CASE UpdCall
  <2>1. pc' \in [Threads -> Places] /\ pc'["updater"] = "post" /\ pc'["share"] = pc["share"]
    BY <1>1, <1>3, Going DEF UpdCall, Places
  <2>2. height' \in 0..MaxHeight
    BY <1>3 DEF UpdCall, Template, IInv, TypeOK
  <2>3. UNCHANGED <<envVars, genVars, sem, updateq, zq, lq, prio, retries, blockVars>>
    BY <1>3 DEF UpdCall
  <2>4. TypeOK'
    BY <2>1, <2>2, <2>3 DEF IInv, TypeOK, Places, envVars, genVars, blockVars
  <2> QED
    BY <1>3, <2>1, <2>3, <2>4 DEF UpdCall, IInv, OneUpdate, Reachable, SolvedAccepted, blockVars
<1>4. CASE UpdCallFails
  BY <1>4, FailedInv DEF UpdCallFails
<1>5. CASE UpdPost
  <2>1. pc' \in [Threads -> Places] /\ pc'["updater"] = "idle" /\ pc'["share"] = pc["share"]
    BY <1>1, <1>5, Going DEF UpdPost, Places
  <2>2. /\ sem' = 1 /\ retries' = 0 /\ prio' = NORMAL
        /\ UNCHANGED <<envVars, genVars, updateq, zq, lq, height, blockVars>>
    BY <1>5 DEF UpdPost
  <2>3. TypeOK'
    BY <2>1, <2>2, UpdatesAssumption DEF IInv, TypeOK, Places, envVars, genVars, blockVars
  <2>4. sem \in 0..1 /\ Len(updateq) \in Nat /\ pc["updater"] # "idle"
    BY <1>5, LenProperties DEF UpdPost, IInv, TypeOK
  <2>5. OneUpdate'
    BY <2>1, <2>2, <2>4 DEF IInv, OneUpdate
  <2> QED
    BY <2>1, <2>2, <2>3, <2>5 DEF IInv, Reachable, SolvedAccepted, blockVars
<1> QED
  BY <1>2, <1>3, <1>4, <1>5 DEF Updater

\* A step of the thread that submits a block.
LEMMA ShareStepInv ==
    ASSUME IInv, NEW place \in Places, Goto("share", place), UNCHANGED <<up, genVars, updVars>>,
           place = "solved" => accepted',
           tip' \in 0..MaxHeight, seen' \in [Servers -> 0..MaxHeight], events' \in 0..MaxEvents,
           blk' \in 0..MaxHeight, si' \in Servers, tries' \in 0..SubmitTries,
           accepted' \in BOOLEAN
    PROVE  IInv'
<1>1. {"updater", "share"} \subseteq Threads /\ pc \in [Threads -> Places]
  BY ThreadNames DEF IInv, TypeOK, Places
<1>2. pc' \in [Threads -> Places] /\ pc'["updater"] = pc["updater"] /\ pc'["share"] = place
  BY <1>1, Going
<1>3. TypeOK'
  BY SMTT(60), <1>2 DEF IInv, TypeOK, Places, genVars, updVars
<1>4. Reachable'
  BY UpdatesAssumption DEF Reachable
<1> QED
  BY <1>2, <1>3, <1>4 DEF IInv, OneUpdate, SolvedAccepted, updVars

LEMMA SubmitInv == ASSUME IInv, Solve \/ Submit PROVE IInv'
<1>1. /\ tip \in 0..MaxHeight /\ seen \in [Servers -> 0..MaxHeight] /\ events \in 0..MaxEvents
      /\ blk \in 0..MaxHeight /\ si \in Servers /\ tries \in 0..SubmitTries
      /\ accepted \in BOOLEAN /\ height \in 0..MaxHeight /\ current_si \in Servers
  BY UpdatesAssumption DEF IInv, TypeOK, Reachable
<1>2. 1 \in Servers /\ 0 \in 0..SubmitTries /\ 0 \in 0..MaxHeight
  BY UpdatesAssumption DEF Servers
<1>3. CASE Solve
  <2>1. blk' \in 0..MaxHeight /\ events' \in 0..MaxEvents
    BY <1>1, <1>3, UpdatesAssumption DEF Solve, Event
  <2>2. /\ Goto("share", "call") /\ tries' = 0 /\ accepted' = FALSE /\ si' = current_si
        /\ UNCHANGED <<up, tip, seen, genVars, updVars>>
    BY <1>3 DEF Solve
  <2> QED
    BY <1>1, <1>2, <2>1, <2>2, ShareStepInv DEF Places
\* What the bitcoind makes of the block.
<1>4. ASSUME IF Extends(si)
             THEN tip' = blk /\ seen' = [seen EXCEPT ![si] = blk] /\ accepted' = TRUE
             ELSE UNCHANGED <<tip, seen, accepted>>
      PROVE  /\ tip' \in 0..MaxHeight /\ seen' \in [Servers -> 0..MaxHeight]
             /\ accepted' \in BOOLEAN
  <2>1. CASE Extends(si)
    BY <1>1, <1>4, <2>1
  <2>2. CASE ~ Extends(si)
    BY <1>1, <1>4, <2>2
  <2> QED
    BY <2>1, <2>2
<1>5. CASE SubmitAnswered
  <2>1. /\ tip' \in 0..MaxHeight /\ seen' \in [Servers -> 0..MaxHeight]
        /\ accepted' \in BOOLEAN
    BY <1>4, <1>5 DEF SubmitAnswered
  <2>2. PICK place \in {"solved", "check"} : Goto("share", place) /\ (place = "solved" => accepted')
    BY <1>5 DEF SubmitAnswered
  <2>3. tries' = 0 /\ UNCHANGED <<up, events, genVars, updVars, blk, si>>
    BY <1>5 DEF SubmitAnswered
  <2>4. place \in Places
    BY DEF Places
  <2> QED
    BY <1>1, <1>2, <2>1, <2>2, <2>3, <2>4, ShareStepInv
<1>6. CASE SubmitLost
  <2>1. /\ tip' \in 0..MaxHeight /\ seen' \in [Servers -> 0..MaxHeight]
        /\ accepted' \in BOOLEAN
    BY <1>4, <1>6 DEF SubmitLost
  <2>2. PICK place \in {"call", "check"} : Goto("share", place)
    BY <1>6 DEF SubmitLost
  <2>3. tries' = (tries + 1) % SubmitTries /\ UNCHANGED <<up, genVars, updVars, blk, si>>
    BY <1>6 DEF SubmitLost
  <2>4. tries' \in 0..SubmitTries
    BY <1>1, <2>3, UpdatesAssumption
  <2>5. events' \in 0..MaxEvents
    BY <1>1, <1>6, UpdatesAssumption DEF SubmitLost, Event
  <2>6. place \in Places /\ place # "solved"
    BY DEF Places
  <2> QED
    BY <1>1, <2>1, <2>2, <2>3, <2>4, <2>5, <2>6, ShareStepInv
<1>7. CASE CheckHash
  <2>1. PICK place \in {"solved", "rejected"} : Goto("share", place) /\ (place = "solved" => accepted)
    BY <1>7 DEF CheckHash
  <2>2. UNCHANGED <<envVars, genVars, updVars, blockVars>> /\ place \in Places
    BY <1>7 DEF CheckHash, Places
  <2> QED
    BY <1>1, <2>1, <2>2, ShareStepInv DEF envVars, blockVars
<1>8. CASE CheckFails
  BY <1>8, FailedInv DEF CheckFails
<1>9. CASE SubmitDone
  <2>1. /\ Goto("share", "idle") /\ blk' = 0 /\ si' = 1 /\ tries' = 0 /\ accepted' = FALSE
        /\ UNCHANGED <<envVars, genVars, updVars>>
    BY <1>9 DEF SubmitDone
  <2> QED
    BY <1>1, <1>2, <2>1, ShareStepInv DEF Places, envVars
<1> QED
  BY <1>3, <1>5, <1>6, <1>7, <1>8, <1>9 DEF Submit

LEMMA NextInv == IInv /\ [Next]_vars => IInv'
<1> SUFFICES ASSUME IInv, [Next]_vars PROVE IInv'
  OBVIOUS
<1>1. CASE UNCHANGED vars
  BY <1>1 DEF vars, envVars, genVars, updVars, blockVars, IInv, TypeOK, Reachable, OneUpdate,
              SolvedAccepted
<1>2. CASE \/ Env \/ NetworkBlock \/ GenReconnect \/ Watch \/ Loop \/ ZmqBlock \/ Poll
           \/ \E t \in {"loop", "zmq", "poll"} : TakeSem(t)
  BY <1>2, AskInv
<1>3. CASE \E t \in Callers : Live(t)
  BY <1>3, LiveInv
<1>4. CASE Updater
  BY <1>4, UpdaterInv
<1>5. CASE Solve \/ Submit
  BY <1>5, SubmitInv
<1> QED
  BY <1>1, <1>2, <1>3, <1>4, <1>5 DEF Next, Generator

(* The invariant holds in every reachable state, whatever the threads and      *)
(* bitcoinds do.                                                              *)
THEOREM Invariance == Spec => []IInv
<1>1. Init => IInv
  BY InitInv
<1>2. IInv /\ [Next]_vars => IInv'
  BY NextInv
<1> QED
  BY <1>1, <1>2, PTL DEF Spec

(* update_sem: whatever threads ask for updates, and however often one is     *)
(* retried, one update at most is asked for or under way, and the semaphore   *)
(* is back when none is.                                                      *)
THEOREM OneUpdateThm == Spec => []OneUpdate
<1>1. IInv => OneUpdate
  BY DEF IInv
<1> QED
  BY <1>1, Invariance, PTL

(* local_block_submit: whatever is lost, retried or failed over, a block is   *)
(* only called solved when a bitcoind has accepted it.                        *)
THEOREM SolvedAcceptedThm == Spec => []SolvedAccepted
<1>1. IInv => SolvedAccepted
  BY DEF IInv
<1> QED
  BY <1>1, Invariance, PTL
=============================================================================
