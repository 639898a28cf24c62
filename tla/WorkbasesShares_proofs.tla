----------------------- MODULE WorkbasesShares_proofs -----------------------
(* Proofs about WorkbasesShares, for any number of users, workbases and      *)
(* shares, and in both modes.                                                 *)
(*                                                                           *)
(* HeldAlive, UserwbKept and NobodyMissed are none of them inductive.  IInv  *)
(* adds that the read counts count the readers, that what was aged out stays *)
(* out, that what is read to be sent to one miner is work there was, and, for *)
(* each stage of the update thread, who has a userwb of the current workbase *)
(* by then and who was sent it.                                              *)
EXTENDS WorkbasesShares, TLAPS

Readers == {"share", "auth"}

\* The types the proof needs.
Types ==
    /\ mode \in Modes
    /\ last_id \in 0..MaxBases /\ current \in 0..last_id
    /\ workbases \subseteq 1..last_id /\ freed \subseteq 1..last_id
    /\ readcount \in [Ids -> Int]
    /\ userwbs \in SUBSET (Users \X Ids)
    /\ told \in [Users -> SUBSET (1..last_id)]
    /\ hold \in [Readers -> 0..last_id]
    /\ last \in [Users -> 0..last_id] /\ seen \in [Users -> 0..last_id]
    /\ at \in [Users -> {"new", "agent", "read", "sent"}]
    /\ auser \in Users \union {NoUser} /\ authorised \in SUBSET Users
    /\ ruser \in Users \union {NoUser} /\ resend \in 0..last_id
    /\ upc \in {"idle", "aged", "clear", "relock", "users", "purge", "send"}
    /\ apc \in {"idle", "script", "auth", "work", "userwb", "send", "sent"}
    /\ todo \in SUBSET Users /\ txnlen \in SUBSET Users

\* Each read count is the number of threads that hold it.
Counted ==
    \A i \in Ids : readcount[i] = (IF hold["share"] = i THEN 1 ELSE 0)
                                  + (IF hold["auth"] = i THEN 1 ELSE 0)

\* The table and the freed are apart; the current workbase is in the table, the
\* one being aged in neither.
Placed ==
    /\ freed \intersect workbases = {}
    /\ current # 0 => current \in workbases
    /\ upc # "idle" => current # 0
    /\ upc \in {"aged", "clear"} => victim \in (1..last_id) \ workbases

\* Who holds a read count, by where the thread is.
Held ==
    /\ spc \in {"got", "hashed"} => hold["share"] = share.job /\ share.job # 0
    /\ spc \in {"idle", "put", "rejected", "resend"} => hold["share"] = 0
    /\ spc \in {"idle", "got", "hashed", "put", "rejected", "resend"}
    /\ spc \in {"got", "hashed", "put"} => share \in Hashes
    /\ apc \in {"userwb", "send", "sent"} <=> hold["auth"] # 0
    /\ apc # "idle" => auser \in Users /\ mode = "solo" /\ current # 0

\* Who is on his way in, or is about to be sent work on his own, and that it is
\* work: in solo mode work for which he has a userwb.
Coming ==
    /\ \A u \in Users : at[u] # "new" => current # 0
    /\ \A u \in Users : at[u] = "read" => seen[u] # 0
    /\ authorised # {} => current # 0
    /\ mode = "solo" => \A u \in Users : at[u] # "read"
    /\ spc # "idle" => current # 0
    /\ spc \in {"rejected", "resend"} => ruser \in Users /\ mode # "solo"
    /\ spc = "resend" => resend # 0
    /\ apc = "send" => <<auser, hold["auth"]>> \in userwbs

\* The users' workbases and messages of the current workbase.
Served ==
    /\ due \subseteq authorised
    /\ mode = "solo" =>
        /\ authorised \subseteq txnlen /\ (apc = "auth" => auser \in txnlen)
        /\ upc \in {"purge", "send"} => \A u \in due : <<u, current>> \in userwbs
    /\ upc = "send" => \A u \in due \ todo : last[u] = current

IInv == /\ Types /\ Counted /\ Placed /\ HeldAlive /\ UserwbKept /\ Held /\ Coming
        /\ Served /\ NobodyMissed

\* The stratifier starts with no workbase, no user and no share: IInv holds.
LEMMA InitInv == Init => IInv
  BY WorkbasesAssumption, SMTT(30) DEF Init, IInv, Types, Counted, Placed, HeldAlive,
     UserwbKept, Held, Served, Coming, NobodyMissed, Readers, Ids

\* Every step keeps IInv.
LEMMA NextInv == IInv /\ [Next]_vars => IInv'
<1> SUFFICES ASSUME IInv, [Next]_vars PROVE IInv'
  OBVIOUS
<1> USE WorkbasesAssumption DEF IInv, vars, envVars, tableVars, updateVars, shareVars, authVars,
     sentVars, outVars
<1>1. CASE Tick
  <2>1. Types'
    BY <1>1, SMTT(30) DEF Tick, Types, Held, Hashes, Readers, Ids
  <2>2. Counted'
    BY <1>1 DEF Tick, Counted, Types, Readers
  <2>3. Placed' /\ HeldAlive' /\ Held'
    BY <1>1 DEF Tick, Types, Placed, HeldAlive, Held, Readers
  <2>4. UserwbKept' /\ Coming'
    BY <1>1 DEF Tick, Types, UserwbKept, Placed, HeldAlive, Held, Coming, Readers
  <2>5. Served' /\ NobodyMissed'
    BY <1>1 DEF Tick, Types, Placed, Held, Coming, Served, NobodyMissed
  <2>. QED
    BY <2>1, <2>2, <2>3, <2>4, <2>5
<1>2. CASE NetworkBlock
  <2>1. Types'
    BY <1>2, SMTT(30) DEF NetworkBlock, Types, Held, Hashes, Readers, Ids
  <2>2. Counted'
    BY <1>2 DEF NetworkBlock, Counted, Types, Readers
  <2>3. Placed' /\ HeldAlive' /\ Held'
    BY <1>2 DEF NetworkBlock, Types, Placed, HeldAlive, Held, Readers
  <2>4. UserwbKept' /\ Coming'
    BY <1>2 DEF NetworkBlock, Types, UserwbKept, Placed, HeldAlive, Held, Coming, Readers
  <2>5. Served' /\ NobodyMissed'
    BY <1>2 DEF NetworkBlock, Types, Placed, Held, Coming, Served, NobodyMissed
  <2>. QED
    BY <2>1, <2>2, <2>3, <2>4, <2>5
<1>3. CASE AddBase
  <2>1. Types'
    <3>1. last_id' = last_id + 1 /\ last_id' \in 0..MaxBases /\ current' = last_id'
      BY <1>3 DEF AddBase, AgeNext, Ageable, Types, Held, Readers, Ids
    <3>2. workbases' \subseteq 1..last_id' /\ freed' \subseteq 1..last_id'
      <4>1. workbases' \subseteq workbases \union {last_id + 1} /\ freed' = freed
        BY <1>3 DEF AddBase, AgeNext
      <4>. QED
        BY <3>1, <4>1 DEF Types
    <3>3. told' \in [Users -> SUBSET (1..last_id')]
      BY <1>3 DEF AddBase, AgeNext, Ageable, Types, Held, Readers, Ids
    <3>4. hold' \in [Readers -> 0..last_id']
      BY SMTT(60), <1>3 DEF AddBase, AgeNext, Ageable, Types, Held, Readers, Ids
    <3>5. upc' \in {"aged", "users"}
      BY <1>3 DEF AddBase, AgeNext, Ageable, Types, Held, Readers, Ids
    <3>. QED
      BY SMTT(60), <1>3, <3>1, <3>2, <3>3, <3>4, <3>5 DEF AddBase, AgeNext, Ageable, Types,
         Readers, Ids
  <2>2. Counted'
    BY <1>3, <2>1 DEF AddBase, AgeNext, Ageable, Counted, Types, Held, Readers, Ids
  <2>3. Placed'
    BY SMTT(60), <1>3, <2>1 DEF AddBase, AgeNext, Ageable, Placed, Types, Held, Readers, Ids
  <2>4. HeldAlive'
    <3> SUFFICES ASSUME NEW t \in Readers, hold'[t] # 0
                 PROVE  hold'[t] \in workbases' \ freed'
      BY DEF HeldAlive, Readers
    <3>1. hold[t] \in workbases \ freed /\ hold[t] \in Ids
      <4>1. hold' = hold
        BY <1>3 DEF AddBase
      <4>. QED
        BY <4>1 DEF HeldAlive, Types, Readers, Ids
    <3>2. readcount[hold[t]] # 0
      <4>1. readcount[hold[t]] = (IF hold["share"] = hold[t] THEN 1 ELSE 0)
                                 + (IF hold["auth"] = hold[t] THEN 1 ELSE 0)
        BY <3>1 DEF Counted
      <4>. QED
        BY <4>1 DEF Readers
    <3>3. workbases \ workbases' \subseteq {i \in Ids : readcount[i] = 0}
      BY <1>3 DEF AddBase, AgeNext, Ageable, Types, Ids
    <3>. QED
      BY <1>3, <3>1, <3>2, <3>3 DEF AddBase
  <2>5. UserwbKept'
    <3>1. workbases' \subseteq workbases \union {last_id + 1}
      BY <1>3 DEF AddBase, AgeNext
    <3>2. \A u \in Users : last_id + 1 \notin told[u]
      BY DEF Types
    <3>. QED
      BY <1>3, <3>1, <3>2 DEF AddBase, UserwbKept
  <2>6. Held'
    BY <1>3, <2>1 DEF AddBase, AgeNext, Ageable, Held, Types, Readers, Placed,
       HeldAlive, Ids
  <2>7. Coming'
    BY SMTT(60), <1>3, <2>1 DEF AddBase, AgeNext, Ageable, Coming, UserwbKept, HeldAlive, Types,
       Placed, Held,
       Readers, Ids
  <2>8. Served' /\ NobodyMissed'
    BY <1>3, <2>1 DEF AddBase, AgeNext, Ageable, Served, NobodyMissed, Coming, Types,
       Placed, Held,
       Readers, Ids
  <2>. QED
    BY <2>1, <2>2, <2>3, <2>4, <2>5, <2>6, <2>7, <2>8
<1>4. CASE AgeShares
  <2>1. Types'
    BY <1>4, SMTT(30) DEF AgeShares, Types, Held, Hashes, Readers, Ids
  <2>2. Counted'
    BY <1>4 DEF AgeShares, Counted, Types, Readers
  <2>3. Placed' /\ HeldAlive' /\ Held'
    BY <1>4 DEF AgeShares, Types, Placed, HeldAlive, Held, Readers
  <2>4. UserwbKept' /\ Coming'
    BY <1>4 DEF AgeShares, Types, UserwbKept, Placed, HeldAlive, Held, Coming, Readers
  <2>5. Served' /\ NobodyMissed'
    BY <1>4 DEF AgeShares, Types, Placed, Held, Coming, Served, NobodyMissed
  <2>. QED
    BY <2>1, <2>2, <2>3, <2>4, <2>5
<1>5. CASE ClearWorkbase
  <2>1. Types'
    <3>1. freed' \subseteq 1..last_id /\ userwbs' \in SUBSET (Users \X Ids)
      BY <1>5 DEF ClearWorkbase, Types, Placed
    <3>. QED
      BY <1>5, <3>1 DEF ClearWorkbase, Types
  <2>2. Counted'
    BY <1>5 DEF ClearWorkbase, Counted, Types, Readers
  <2>3. Placed' /\ HeldAlive' /\ Held'
    <3>1. Placed'
      <4>1. victim \notin workbases /\ freed' = freed \union {victim} /\ upc' = "relock"
            /\ UNCHANGED <<workbases, current, last_id, victim>> /\ current # 0
        BY <1>5 DEF ClearWorkbase, Placed
      <4>. QED
        BY <4>1 DEF Placed
    <3>2. HeldAlive'
      BY <1>5 DEF ClearWorkbase, Types, Placed, HeldAlive, Readers
    <3>3. Held'
      BY <1>5 DEF ClearWorkbase, Types, Held, Hashes, Coming, Readers
    <3>. QED
      BY <3>1, <3>2, <3>3
  <2>4. UserwbKept' /\ Coming'
    <3>1. UserwbKept'
      <4>1. victim \notin workbases /\ UNCHANGED <<workbases, mode, told>>
            /\ \A w \in userwbs : w[2] # victim => w \in userwbs'
        BY <1>5 DEF ClearWorkbase, Placed
      <4>. QED
        BY <4>1 DEF UserwbKept
    <3>2. Coming'
      BY <1>5 DEF ClearWorkbase, Types, Coming, HeldAlive, Held, Hashes, Placed, Readers
    <3>. QED
      BY <3>1, <3>2
  <2>5. Served' /\ NobodyMissed'
    BY <1>5 DEF ClearWorkbase, Types, Placed, Held, Coming, Served, NobodyMissed
  <2>. QED
    BY <2>1, <2>2, <2>3, <2>4, <2>5
<1>6. CASE AgeMore
  <2>1. Types'
    BY <1>6 DEF AgeMore, AgeNext, Ageable, Types, Readers, Ids
  <2>2. Counted'
    BY <1>6, <2>1 DEF AgeMore, AgeNext, Ageable, Counted, Types, Held, Readers, Ids
  <2>3. Placed'
    BY SMTT(60), <1>6, <2>1 DEF AgeMore, AgeNext, Ageable, Placed, Types, Held, Readers, Ids
  <2>4. HeldAlive'
    <3> SUFFICES ASSUME NEW t \in Readers, hold'[t] # 0
                 PROVE  hold'[t] \in workbases' \ freed'
      BY DEF HeldAlive, Readers
    <3>1. hold[t] \in workbases \ freed /\ hold[t] \in Ids
      BY SMTT(60), <1>6 DEF AgeMore, AgeNext, Ageable, HeldAlive, Types, Readers, Ids
    <3>2. readcount[hold[t]] # 0
      <4>1. readcount[hold[t]] = (IF hold["share"] = hold[t] THEN 1 ELSE 0)
                                 + (IF hold["auth"] = hold[t] THEN 1 ELSE 0)
        BY <3>1 DEF Counted
      <4>. QED
        BY <4>1 DEF Readers
    <3>3. workbases \ workbases' \subseteq {i \in Ids : readcount[i] = 0}
      BY SMTT(60), <1>6 DEF AgeMore, AgeNext, Ageable, Types, Ids
    <3>. QED
      BY <1>6, <3>1, <3>2, <3>3 DEF AgeMore
  <2>5. UserwbKept'
    BY <1>6, <2>1 DEF AgeMore, AgeNext, Ageable, UserwbKept, Types, Placed, Held,
       HeldAlive, Readers, Ids
  <2>6. Held'
    BY <1>6, <2>1 DEF AgeMore, AgeNext, Ageable, Held, Types, Readers, Placed,
       HeldAlive, Ids
  <2>7. Coming'
    BY <1>6, <2>1 DEF AgeMore, AgeNext, Ageable, Coming, UserwbKept, HeldAlive, Types,
       Placed, Held,
       Readers, Ids
  <2>8. Served' /\ NobodyMissed'
    BY <1>6, <2>1 DEF AgeMore, AgeNext, Ageable, Served, NobodyMissed, Coming, Types,
       Placed, Held,
       Readers, Ids
  <2>. QED
    BY <2>1, <2>2, <2>3, <2>4, <2>5, <2>6, <2>7, <2>8
<1>7. CASE GenerateUserwbs
  <2>1. Types'
    <3>1. current \in Ids
      BY <1>7 DEF GenerateUserwbs, Types, Placed, Readers, Ids
    <3>2. userwbs' \in SUBSET (Users \X Ids)
      BY SMTT(60), <1>7 DEF GenerateUserwbs, Types, Placed, Readers, Ids
    <3>. QED
      BY <1>7, <3>1, <3>2 DEF GenerateUserwbs, Types, Readers, Ids
  <2>2. Counted'
    BY <1>7, <2>1 DEF GenerateUserwbs, Counted, Types, Held, Readers, Ids
  <2>3. Placed'
    BY <1>7, <2>1 DEF GenerateUserwbs, Placed, Types, Held, Readers, Ids
  <2>4. HeldAlive'
    BY <1>7, <2>1 DEF GenerateUserwbs, HeldAlive, Types, Placed, Held, Counted, Readers,
       Ids
  <2>5. UserwbKept'
    BY <1>7, <2>1 DEF GenerateUserwbs, UserwbKept, Types, Placed, Held, HeldAlive,
       Readers, Ids
  <2>6. Held'
    BY <1>7, <2>1 DEF GenerateUserwbs, Held, Types, Readers, Placed, HeldAlive, Ids
  <2>7. Coming'
    BY <1>7, <2>1 DEF GenerateUserwbs, Coming, UserwbKept, HeldAlive, Types, Placed, Held,
       Readers, Ids
  <2>8. Served' /\ NobodyMissed'
    BY <1>7, <2>1 DEF GenerateUserwbs, Served, NobodyMissed, Coming, Types, Placed, Held,
       Readers, Ids
  <2>. QED
    BY <2>1, <2>2, <2>3, <2>4, <2>5, <2>6, <2>7, <2>8
<1>8. CASE PurgeShares
  <2>1. Types'
    BY <1>8, SMTT(30) DEF PurgeShares, Types, Held, Hashes, Readers, Ids
  <2>2. Counted'
    BY <1>8 DEF PurgeShares, Counted, Types, Readers
  <2>3. Placed' /\ HeldAlive' /\ Held'
    BY <1>8 DEF PurgeShares, Types, Placed, HeldAlive, Held, Readers
  <2>4. UserwbKept' /\ Coming'
    BY <1>8 DEF PurgeShares, Types, UserwbKept, Placed, HeldAlive, Held, Coming, Readers
  <2>5. Served' /\ NobodyMissed'
    BY <1>8 DEF PurgeShares, Types, Placed, Held, Coming, Served, NobodyMissed
  <2>. QED
    BY <2>1, <2>2, <2>3, <2>4, <2>5
<1>9. CASE BroadcastSolo
  <2>1. Types'
    BY SMTT(60), <1>9 DEF BroadcastSolo, Tell, Types, Readers, Ids
  <2>2. Counted'
    BY <1>9, <2>1 DEF BroadcastSolo, Tell, Counted, Types, Held, Readers, Ids
  <2>3. Placed'
    BY <1>9, <2>1 DEF BroadcastSolo, Tell, Placed, Types, Held, Readers, Ids
  <2>4. HeldAlive'
    BY <1>9, <2>1 DEF BroadcastSolo, Tell, HeldAlive, Types, Placed, Held, Counted,
       Readers, Ids
  <2>5. UserwbKept'
    <3> SUFFICES ASSUME NEW w \in Users, NEW i \in told'[w] \intersect workbases
                 PROVE  <<w, i>> \in userwbs
      BY <1>9 DEF BroadcastSolo, Tell, UserwbKept
    <3>1. i \in told[w] \/ (i = current /\ <<w, current>> \in userwbs)
      <4>1. PICK u \in todo :
               told' = [v \in Users |-> IF v \in {u} \intersect {x \in Users : <<x, current>> \in userwbs}
                                        THEN told[v] \union {current} ELSE told[v]]
        BY <1>9 DEF BroadcastSolo, Tell
      <4>. QED
        BY <4>1
    <3>. QED
      BY <1>9, <3>1 DEF BroadcastSolo, Tell, UserwbKept
  <2>6. Held'
    BY <1>9, <2>1 DEF BroadcastSolo, Tell, Held, Types, Readers, Placed, HeldAlive, Ids
  <2>7. Coming'
    BY <1>9, <2>1 DEF BroadcastSolo, Tell, Coming, UserwbKept, HeldAlive, Types, Placed,
       Held,
       Readers, Ids
  <2>8. Served' /\ NobodyMissed'
    BY <1>9, <2>1 DEF BroadcastSolo, Tell, Served, NobodyMissed, Coming, Types, Placed,
       Held,
       Readers, Ids
  <2>. QED
    BY <2>1, <2>2, <2>3, <2>4, <2>5, <2>6, <2>7, <2>8
<1>10. CASE BroadcastPool
  <2>1. Types'
    <3>1. current \in 1..last_id
      BY <1>10 DEF BroadcastPool, Types, Placed
    <3>2. told' \in [Users -> SUBSET (1..last_id)] /\ last' \in [Users -> 0..last_id]
      BY <1>10, <3>1 DEF BroadcastPool, Tell, Types
    <3>. QED
      BY <1>10, <3>2 DEF BroadcastPool, Types
  <2>2. Counted'
    BY <1>10 DEF BroadcastPool, Tell, Counted, Types, Readers
  <2>3. Placed' /\ HeldAlive' /\ Held'
    BY <1>10 DEF BroadcastPool, Tell, Types, Placed, HeldAlive, Held, Readers
  <2>4. UserwbKept' /\ Coming'
    BY <1>10 DEF BroadcastPool, Tell, Types, UserwbKept, Placed, HeldAlive, Held, Coming,
       Readers
  <2>5. Served' /\ NobodyMissed'
    BY <1>10 DEF BroadcastPool, Tell, Types, Placed, Held, Coming, Served, NobodyMissed
  <2>. QED
    BY <2>1, <2>2, <2>3, <2>4, <2>5
<1>11. CASE UpdateDone
  <2>1. Types'
    BY <1>11, SMTT(30) DEF UpdateDone, Types, Held, Hashes, Readers, Ids
  <2>2. Counted'
    BY <1>11 DEF UpdateDone, Counted, Types, Readers
  <2>3. Placed' /\ HeldAlive' /\ Held'
    BY <1>11 DEF UpdateDone, Types, Placed, HeldAlive, Held, Readers
  <2>4. UserwbKept' /\ Coming'
    BY <1>11 DEF UpdateDone, Types, UserwbKept, Placed, HeldAlive, Held, Coming, Readers
  <2>5. Served' /\ NobodyMissed'
    BY <1>11 DEF UpdateDone, Types, Placed, Held, Coming, Served, NobodyMissed
  <2>. QED
    BY <2>1, <2>2, <2>3, <2>4, <2>5
<1>12. ASSUME NEW u \in Users, AuthUser(u) PROVE IInv'
  <2>1. Types'
    BY <1>12, SMTT(30) DEF AuthUser, Types, Held, Hashes, Readers, Ids
  <2>2. Counted'
    BY <1>12 DEF AuthUser, Counted, Types, Readers
  <2>3. Placed' /\ HeldAlive' /\ Held'
    <3>1. Placed'
      BY <1>12 DEF AuthUser, Types, Placed, Readers
    <3>2. HeldAlive'
      BY <1>12 DEF AuthUser, Types, Placed, HeldAlive, Readers
    <3>3. Held'
      BY <1>12 DEF AuthUser, Types, Held, Hashes, Coming, Readers
    <3>. QED
      BY <3>1, <3>2, <3>3
  <2>4. UserwbKept' /\ Coming'
    <3>1. UserwbKept'
      BY <1>12 DEF AuthUser, Types, UserwbKept
    <3>2. Coming'
      BY <1>12 DEF AuthUser, Types, Coming, HeldAlive, Held, Hashes, Placed, Readers
    <3>. QED
      BY <3>1, <3>2
  <2>5. Served' /\ NobodyMissed'
    BY <1>12 DEF AuthUser, Types, Placed, Held, Coming, Served, NobodyMissed
  <2>. QED
    BY <2>1, <2>2, <2>3, <2>4, <2>5
<1>13. ASSUME NEW u \in Users, ParseSubscribe(u) PROVE IInv'
  <2>1. Types'
    BY SMTT(60), <1>13 DEF ParseSubscribe, Coming, Types, Held, Readers, Ids
  <2>2. Counted' /\ Placed' /\ HeldAlive'
    BY <1>13, <2>1 DEF ParseSubscribe, Counted, Placed, HeldAlive, Types, Held, Readers, Ids
  <2>3. UserwbKept'
    BY <1>13, <2>1 DEF ParseSubscribe, UserwbKept, Coming, Types, Held, Readers, Ids
  <2>4. Held' /\ Coming'
    BY <1>13, <2>1 DEF ParseSubscribe, Held, Coming, Types, Placed, HeldAlive, Readers, Ids
  <2>5. Served' /\ NobodyMissed'
    BY <1>13, <2>1 DEF ParseSubscribe, Served, NobodyMissed, Coming, Types, Placed, Held,
       Readers, Ids
  <2>. QED
    BY <2>1, <2>2, <2>3, <2>4, <2>5
<1>14. ASSUME NEW u \in Users, SendUpdateRead(u) PROVE IInv'
  <2>1. Types'
    BY SMTT(60), <1>14 DEF SendUpdateRead, Coming, Types, Held, Readers, Ids
  <2>2. Counted' /\ Placed' /\ HeldAlive'
    BY <1>14, <2>1 DEF SendUpdateRead, Counted, Placed, HeldAlive, Types, Held, Readers, Ids
  <2>3. UserwbKept'
    BY <1>14, <2>1 DEF SendUpdateRead, UserwbKept, Coming, Types, Held, Readers, Ids
  <2>4. Held' /\ Coming'
    BY <1>14, <2>1 DEF SendUpdateRead, Held, Coming, Types, Placed, HeldAlive, Readers, Ids
  <2>5. Served' /\ NobodyMissed'
    BY <1>14, <2>1 DEF SendUpdateRead, Served, NobodyMissed, Coming, Types, Placed, Held,
       Readers, Ids
  <2>. QED
    BY <2>1, <2>2, <2>3, <2>4, <2>5
<1>15. ASSUME NEW u \in Users, SendUpdate(u) PROVE IInv'
  <2>1. Types'
    BY SMTT(60), <1>15 DEF SendUpdate, TellAlone, Coming, Types, Held, Readers, Ids
  <2>2. Counted' /\ Placed' /\ HeldAlive'
    BY <1>15, <2>1 DEF SendUpdate, TellAlone, Counted, Placed, HeldAlive, Types, Held,
       Readers, Ids
  <2>3. UserwbKept'
    BY <1>15, <2>1 DEF SendUpdate, TellAlone, UserwbKept, Coming, Types, Held, Readers, Ids
  <2>4. Held' /\ Coming'
    BY <1>15, <2>1 DEF SendUpdate, TellAlone, Held, Coming, Types, Placed, HeldAlive,
       Readers, Ids
  <2>5. Served' /\ NobodyMissed'
    BY <1>15, <2>1 DEF SendUpdate, TellAlone, Served, NobodyMissed, Coming, Types,
       Placed, Held, Readers, Ids
  <2>. QED
    BY <2>1, <2>2, <2>3, <2>4, <2>5
<1>16. ASSUME NEW u \in Users, ClientAuth(u) PROVE IInv'
  <2>1. Types'
    BY SMTT(60), <1>16 DEF ClientAuth, Coming, Types, Held, Readers, Ids
  <2>2. Counted' /\ Placed' /\ HeldAlive'
    BY <1>16, <2>1 DEF ClientAuth, Counted, Placed, HeldAlive, Types, Held, Readers, Ids
  <2>3. UserwbKept'
    BY <1>16, <2>1 DEF ClientAuth, UserwbKept, Coming, Types, Held, Readers, Ids
  <2>4. Held' /\ Coming'
    BY <1>16, <2>1 DEF ClientAuth, Held, Coming, Types, Placed, HeldAlive, Readers, Ids
  <2>5. Served' /\ NobodyMissed'
    BY SMTT(60), <1>16, <2>1 DEF ClientAuth, Served, NobodyMissed, Coming, Types, Placed, Held,
       Readers, Ids
  <2>. QED
    BY <2>1, <2>2, <2>3, <2>4, <2>5
<1>17. CASE AuthScript
  <2>1. Types'
    BY <1>17, SMTT(30) DEF AuthScript, Types, Held, Hashes, Readers, Ids
  <2>2. Counted'
    BY <1>17 DEF AuthScript, Counted, Types, Readers
  <2>3. Placed' /\ HeldAlive' /\ Held'
    BY <1>17 DEF AuthScript, Types, Placed, HeldAlive, Held, Readers
  <2>4. UserwbKept' /\ Coming'
    BY <1>17 DEF AuthScript, Types, UserwbKept, Placed, HeldAlive, Held, Coming, Readers
  <2>5. Served' /\ NobodyMissed'
    BY <1>17 DEF AuthScript, Types, Placed, Held, Coming, Served, NobodyMissed
  <2>. QED
    BY <2>1, <2>2, <2>3, <2>4, <2>5
<1>18. CASE AuthTakeBase
  <2>1. Types'
    <3>1. current \in Ids
      BY <1>18 DEF AuthTakeBase, Types, Held, Readers, Ids
    <3>2. readcount' \in [Ids -> Int]
      BY <1>18 DEF AuthTakeBase, Types, Held, Readers, Ids
    <3>3. hold' \in [Readers -> 0..last_id']
      BY <1>18 DEF AuthTakeBase, Types, Held, Readers, Ids
    <3>. QED
      BY <1>18, <3>1, <3>2, <3>3 DEF AuthTakeBase, Types, Readers, Ids
  <2>2. Counted'
    <3>1. current \in Ids /\ hold["auth"] = 0
      BY <1>18 DEF AuthTakeBase, Types, Placed, Held, Hashes, Readers, Ids
    <3> SUFFICES ASSUME NEW i \in Ids
                 PROVE  readcount'[i] = (IF hold'["share"] = i THEN 1 ELSE 0)
                                        + (IF hold'["auth"] = i THEN 1 ELSE 0)
      BY DEF Counted
    <3>2. hold'["share"] = hold["share"] /\ hold'["auth"] = current
      BY <1>18 DEF AuthTakeBase, Types, Readers
    <3>3. readcount'[i] = IF i = current THEN readcount[i] + 1 ELSE readcount[i]
      BY <1>18, <3>1 DEF AuthTakeBase, Types
    <3>4. readcount[i] = (IF hold["share"] = i THEN 1 ELSE 0)
                         + (IF hold["auth"] = i THEN 1 ELSE 0)
      BY DEF Counted
    <3>. QED
      BY <3>1, <3>2, <3>3, <3>4 DEF Ids
  <2>3. Placed'
    BY <1>18, <2>1 DEF AuthTakeBase, Placed, Types, Held, Readers, Ids
  <2>4. HeldAlive'
    BY <1>18, <2>1 DEF AuthTakeBase, HeldAlive, Types, Placed, Held, Counted, Readers, Ids
  <2>5. UserwbKept'
    BY <1>18, <2>1 DEF AuthTakeBase, UserwbKept, Types, Placed, Held, HeldAlive,
       Readers, Ids
  <2>6. Held'
    BY <1>18, <2>1 DEF AuthTakeBase, Held, Types, Readers, Placed, HeldAlive, Ids
  <2>7. Coming'
    BY <1>18, <2>1 DEF AuthTakeBase, Coming, UserwbKept, HeldAlive, Types, Placed, Held,
       Readers, Ids
  <2>8. Served' /\ NobodyMissed'
    BY <1>18, <2>1 DEF AuthTakeBase, Served, NobodyMissed, Coming, Types, Placed, Held,
       Readers, Ids
  <2>. QED
    BY <2>1, <2>2, <2>3, <2>4, <2>5, <2>6, <2>7, <2>8
<1>19. CASE AuthUserwb
  <2>1. Types'
    <3>1. hold["auth"] \in Ids /\ hold["auth"] \in 1..last_id /\ auser \in Users
      BY SMTT(60), <1>19 DEF AuthUserwb, Types, Held, Readers, Ids
    <3>2. userwbs' \in SUBSET (Users \X Ids)
      BY <1>19, <3>1 DEF AuthUserwb, Types, Held, Readers, Ids
    <3>3. told' \in [Users -> SUBSET (1..last_id')]
      BY <1>19, <3>1 DEF AuthUserwb, Types, Held, Readers, Ids
    <3>. QED
      BY <1>19, <3>1, <3>2, <3>3 DEF AuthUserwb, Types, Readers, Ids
  <2>2. Counted'
    BY <1>19, <2>1 DEF AuthUserwb, Counted, Types, Held, Readers, Ids
  <2>3. Placed'
    BY <1>19, <2>1 DEF AuthUserwb, Placed, Types, Held, Readers, Ids
  <2>4. HeldAlive'
    BY <1>19, <2>1 DEF AuthUserwb, HeldAlive, Types, Placed, Held, Counted, Readers, Ids
  <2>5. UserwbKept'
    BY <1>19, <2>1 DEF AuthUserwb, UserwbKept, Types, Placed, Held, HeldAlive, Readers,
       Ids
  <2>6. Held'
    BY <1>19, <2>1 DEF AuthUserwb, Held, Types, Readers, Placed, HeldAlive, Ids
  <2>7. Coming'
    BY <1>19, <2>1 DEF AuthUserwb, Coming, UserwbKept, HeldAlive, Types, Placed, Held,
       Readers, Ids
  <2>8. Served' /\ NobodyMissed'
    BY <1>19, <2>1 DEF AuthUserwb, Served, NobodyMissed, Coming, Types, Placed, Held,
       Readers, Ids
  <2>. QED
    BY <2>1, <2>2, <2>3, <2>4, <2>5, <2>6, <2>7, <2>8
<1>20. CASE UpdateSoloClient
  <2>1. Types'
    BY SMTT(60), <1>20 DEF UpdateSoloClient, TellAlone, Coming, Types, Held, Readers, Ids
  <2>2. Counted' /\ Placed' /\ HeldAlive'
    BY <1>20, <2>1 DEF UpdateSoloClient, TellAlone, Counted, Placed, HeldAlive, Types,
       Held, Readers, Ids
  <2>3. UserwbKept'
    BY <1>20, <2>1 DEF UpdateSoloClient, TellAlone, UserwbKept, Coming, Types, Held,
       Readers, Ids
  <2>4. Held' /\ Coming'
    BY <1>20, <2>1 DEF UpdateSoloClient, TellAlone, Held, Coming, Types, Placed,
       HeldAlive, Readers, Ids
  <2>5. Served' /\ NobodyMissed'
    BY <1>20, <2>1 DEF UpdateSoloClient, TellAlone, Served, NobodyMissed, Coming, Types,
       Placed, Held, Readers, Ids
  <2>. QED
    BY <2>1, <2>2, <2>3, <2>4, <2>5
<1>21. CASE AuthPutBase
  <2>1. Types'
    <3>1. hold["auth"] \in Ids /\ auser \in Users
      BY <1>21 DEF AuthPutBase, Types, Held, Readers, Ids
    <3>2. readcount' \in [Ids -> Int]
      BY <1>21 DEF AuthPutBase, Types, Held, Readers, Ids
    <3>3. hold' \in [Readers -> 0..last_id']
      BY <1>21 DEF AuthPutBase, Types, Held, Readers, Ids
    <3>. QED
      BY <1>21, <3>1, <3>2, <3>3 DEF AuthPutBase, Types, Readers, Ids
  <2>2. Counted'
    <3>1. hold["auth"] \in Ids
      BY SMTT(60), <1>21 DEF AuthPutBase, Types, Placed, Held, Hashes, Readers, Ids
    <3> SUFFICES ASSUME NEW i \in Ids
                 PROVE  readcount'[i] = (IF hold'["share"] = i THEN 1 ELSE 0)
                                        + (IF hold'["auth"] = i THEN 1 ELSE 0)
      BY DEF Counted
    <3>2. hold'["share"] = hold["share"] /\ hold'["auth"] = 0
      BY <1>21 DEF AuthPutBase, Types, Readers
    <3>3. readcount'[i] = IF i = hold["auth"] THEN readcount[i] - 1 ELSE readcount[i]
      BY <1>21, <3>1 DEF AuthPutBase, Types
    <3>4. readcount[i] = (IF hold["share"] = i THEN 1 ELSE 0)
                         + (IF hold["auth"] = i THEN 1 ELSE 0)
      BY DEF Counted
    <3>. QED
      BY <3>1, <3>2, <3>3, <3>4 DEF Ids
  <2>3. Placed'
    BY <1>21, <2>1 DEF AuthPutBase, Placed, Types, Held, Readers, Ids
  <2>4. HeldAlive'
    BY <1>21, <2>1 DEF AuthPutBase, HeldAlive, Types, Placed, Held, Counted, Readers, Ids
  <2>5. UserwbKept'
    BY <1>21, <2>1 DEF AuthPutBase, UserwbKept, Types, Placed, Held, HeldAlive, Readers,
       Ids
  <2>6. Held'
    BY <1>21, <2>1 DEF AuthPutBase, Held, Types, Readers, Placed, HeldAlive, Ids
  <2>7. Coming'
    BY <1>21, <2>1 DEF AuthPutBase, Coming, UserwbKept, HeldAlive, Types, Placed, Held,
       Readers, Ids
  <2>8. Served' /\ NobodyMissed'
    BY <1>21, <2>1 DEF AuthPutBase, Served, NobodyMissed, Coming, Types, Placed, Held,
       Readers, Ids
  <2>. QED
    BY <2>1, <2>2, <2>3, <2>4, <2>5, <2>6, <2>7, <2>8
<1>22. ASSUME NEW h \in Hashes, SubmitGet(h) PROVE IInv'
  <2>1. Types'
    BY SMTT(60), <1>22 DEF SubmitGet, Hashes, Types, Readers, Ids
  <2>2. Counted'
    <3>1. h.job \in Ids /\ hold["share"] = 0
      BY <1>22 DEF SubmitGet, Types, Placed, Held, Hashes, Readers, Ids
    <3> SUFFICES ASSUME NEW i \in Ids
                 PROVE  readcount'[i] = (IF hold'["share"] = i THEN 1 ELSE 0)
                                        + (IF hold'["auth"] = i THEN 1 ELSE 0)
      BY DEF Counted
    <3>2. hold'["auth"] = hold["auth"] /\ hold'["share"] = h.job
      BY <1>22 DEF SubmitGet, Types, Readers
    <3>3. readcount'[i] = IF i = h.job THEN readcount[i] + 1 ELSE readcount[i]
      BY <1>22, <3>1 DEF SubmitGet, Types
    <3>4. readcount[i] = (IF hold["share"] = i THEN 1 ELSE 0)
                         + (IF hold["auth"] = i THEN 1 ELSE 0)
      BY DEF Counted
    <3>. QED
      BY <3>1, <3>2, <3>3, <3>4 DEF Ids
  <2>3. Placed'
    BY <1>22, <2>1 DEF SubmitGet, Hashes, Placed, Types, Held, Readers, Ids
  <2>4. HeldAlive'
    BY <1>22, <2>1 DEF SubmitGet, Hashes, HeldAlive, Types, Placed, Held, Counted,
       Readers, Ids
  <2>5. UserwbKept'
    BY <1>22, <2>1 DEF SubmitGet, Hashes, UserwbKept, Types, Placed, Held, HeldAlive,
       Readers, Ids
  <2>6. Held'
    BY <1>22, <2>1 DEF SubmitGet, Hashes, Held, Types, Readers, Placed, HeldAlive, Ids
  <2>7. Coming'
    BY <1>22, <2>1 DEF SubmitGet, Hashes, Coming, UserwbKept, HeldAlive, Types, Placed,
       Held,
       Readers, Ids
  <2>8. Served' /\ NobodyMissed'
    BY <1>22, <2>1 DEF SubmitGet, Hashes, Served, NobodyMissed, Coming, Types, Placed, Held,
       Readers, Ids
  <2>. QED
    BY <2>1, <2>2, <2>3, <2>4, <2>5, <2>6, <2>7, <2>8
<1>23. ASSUME NEW h \in Hashes, SubmitUnknown(h) PROVE IInv'
  <2>1. Types'
    <3>1. h.user \in Users /\ ruser' \in {ruser, h.user}
      BY <1>23 DEF SubmitUnknown, Rejected, Hashes
    <3>. QED
      BY <1>23, <3>1 DEF SubmitUnknown, Types
  <2>2. Counted'
    BY <1>23 DEF SubmitUnknown, Rejected, Counted, Types, Readers
  <2>3. Placed' /\ HeldAlive' /\ Held'
    BY <1>23 DEF SubmitUnknown, Rejected, Types, Placed, HeldAlive, Held, Readers
  <2>4. UserwbKept' /\ Coming'
    BY <1>23 DEF SubmitUnknown, Rejected, Types, UserwbKept, Placed, HeldAlive, Held,
       Hashes,
       Coming, Readers
  <2>5. Served' /\ NobodyMissed'
    BY <1>23 DEF SubmitUnknown, Rejected, Types, Placed, Held, Coming, Served, NobodyMissed
  <2>. QED
    BY <2>1, <2>2, <2>3, <2>4, <2>5
<1>24. CASE SubmitHash
  <2>1. Types'
    BY <1>24 DEF SubmitHash, TestBlocksolve, Types, Readers, Ids
  <2>2. Counted'
    BY <1>24, <2>1 DEF SubmitHash, TestBlocksolve, Counted, Types, Held, Readers, Ids
  <2>3. Placed'
    BY <1>24, <2>1 DEF SubmitHash, TestBlocksolve, Placed, Types, Held, Readers, Ids
  <2>4. HeldAlive'
    BY <1>24, <2>1 DEF SubmitHash, TestBlocksolve, HeldAlive, Types, Placed, Held,
       Counted, Readers, Ids
  <2>5. UserwbKept'
    BY ZenonT(60), <1>24, <2>1 DEF SubmitHash, TestBlocksolve, UserwbKept, Types, Placed,
       Held,
       HeldAlive, Readers, Ids
  <2>6. Held'
    BY <1>24, <2>1 DEF SubmitHash, TestBlocksolve, Held, Types, Readers, Placed,
       HeldAlive, Ids
  <2>7. Coming'
    BY <1>24 DEF SubmitHash, Coming
  <2>8. Served' /\ NobodyMissed'
    BY <1>24 DEF SubmitHash, Served, NobodyMissed
  <2>. QED
    BY <2>1, <2>2, <2>3, <2>4, <2>5, <2>6, <2>7, <2>8
<1>25. ASSUME NEW late \in BOOLEAN, NEW ntime \in BOOLEAN, SubmitPut(late, ntime) PROVE IInv'
  <2>1. Types'
    <3>1. hold["share"] \in Ids /\ share.job = hold["share"]
      BY <1>25 DEF SubmitPut, Rejected, Types, Held, Readers, Ids
    <3>2. readcount' \in [Ids -> Int]
      BY SMTT(60), <1>25 DEF SubmitPut, Rejected, Types, Held, Readers, Ids
    <3>3. hold' \in [Readers -> 0..last_id']
      BY <1>25 DEF SubmitPut, Rejected, Types, Held, Readers, Ids
    <3>4. share.user \in Users /\ ruser' \in {ruser, share.user}
      BY <1>25 DEF SubmitPut, Rejected, Held, Hashes
    <3>. QED
      BY <1>25, <3>1, <3>2, <3>3, <3>4 DEF SubmitPut, Rejected, Types, Readers, Ids
  <2>2. Counted'
    <3>1. hold["share"] \in Ids /\ share.job = hold["share"]
      BY <1>25 DEF SubmitPut, Rejected, Types, Placed, Held, Hashes, Readers, Ids
    <3> SUFFICES ASSUME NEW i \in Ids
                 PROVE  readcount'[i] = (IF hold'["share"] = i THEN 1 ELSE 0)
                                        + (IF hold'["auth"] = i THEN 1 ELSE 0)
      BY DEF Counted
    <3>2. hold'["auth"] = hold["auth"] /\ hold'["share"] = 0
      BY <1>25 DEF SubmitPut, Rejected, Types, Readers
    <3>3. readcount'[i] = IF i = share.job THEN readcount[i] - 1 ELSE readcount[i]
      BY <1>25, <3>1 DEF SubmitPut, Rejected, Types
    <3>4. readcount[i] = (IF hold["share"] = i THEN 1 ELSE 0)
                         + (IF hold["auth"] = i THEN 1 ELSE 0)
      BY DEF Counted
    <3>. QED
      BY <3>1, <3>2, <3>3, <3>4 DEF Ids
  <2>3. Placed'
    BY <1>25, <2>1 DEF SubmitPut, Rejected, Placed, Types, Held, Readers, Ids
  <2>4. HeldAlive'
    BY <1>25, <2>1 DEF SubmitPut, Rejected, HeldAlive, Types, Placed, Held, Counted,
       Readers, Ids
  <2>5. UserwbKept'
    BY <1>25, <2>1 DEF SubmitPut, Rejected, UserwbKept, Types, Placed, Held,
       HeldAlive, Readers, Ids
  <2>6. Held'
    BY <1>25, <2>1 DEF SubmitPut, Rejected, Held, Hashes, Types, Readers, Placed,
       HeldAlive, Ids
  <2>7. Coming'
    BY <1>25, <2>1 DEF SubmitPut, Rejected, Coming, UserwbKept, HeldAlive, Types, Placed,
       Held, Hashes,
       Readers, Ids
  <2>8. Served' /\ NobodyMissed'
    BY <1>25, <2>1 DEF SubmitPut, Rejected, Served, NobodyMissed, Coming, Types, Placed,
       Held,
       Readers, Ids
  <2>. QED
    BY <2>1, <2>2, <2>3, <2>4, <2>5, <2>6, <2>7, <2>8
<1>26. CASE NewShare
  <2>1. Types'
    BY <1>26, SMTT(30) DEF NewShare, Accepted, Rejected, Types, Held, Hashes, Readers, Ids
  <2>2. Counted'
    BY <1>26 DEF NewShare, Accepted, Rejected, Counted, Types, Readers
  <2>3. Placed' /\ HeldAlive' /\ Held'
    <3>1. Placed'
      BY <1>26 DEF NewShare, Accepted, Rejected, Types, Placed, Readers
    <3>2. HeldAlive'
      BY <1>26 DEF NewShare, Accepted, Rejected, Types, Placed, HeldAlive, Readers
    <3>3. Held'
      BY <1>26 DEF NewShare, Accepted, Rejected, Types, Held, Hashes, Coming, Readers
    <3>. QED
      BY <3>1, <3>2, <3>3
  <2>4. UserwbKept' /\ Coming'
    <3>1. UserwbKept'
      BY <1>26 DEF NewShare, Accepted, Rejected, Types, UserwbKept
    <3>2. Coming'
      BY <1>26 DEF NewShare, Accepted, Rejected, Types, Coming, HeldAlive, Held, Hashes,
         Placed, Readers
    <3>. QED
      BY <3>1, <3>2
  <2>5. Served' /\ NobodyMissed'
    BY <1>26 DEF NewShare, Accepted, Rejected, Types, Placed, Held, Coming, Served,
       NobodyMissed
  <2>. QED
    BY <2>1, <2>2, <2>3, <2>4, <2>5
<1>27. CASE ResendRead
  <2>1. Types'
    BY SMTT(60), <1>27 DEF ResendRead, Coming, Types, Held, Readers, Ids
  <2>2. Counted' /\ Placed' /\ HeldAlive'
    BY <1>27, <2>1 DEF ResendRead, Counted, Placed, HeldAlive, Types, Held, Readers, Ids
  <2>3. UserwbKept'
    BY <1>27, <2>1 DEF ResendRead, UserwbKept, Coming, Types, Held, Readers, Ids
  <2>4. Held' /\ Coming'
    BY <1>27, <2>1 DEF ResendRead, Held, Coming, Types, Placed, HeldAlive, Readers, Ids
  <2>5. Served' /\ NobodyMissed'
    BY <1>27, <2>1 DEF ResendRead, Served, NobodyMissed, Coming, Types, Placed, Held,
       Readers, Ids
  <2>. QED
    BY <2>1, <2>2, <2>3, <2>4, <2>5
<1>28. CASE Resend
  <2>1. Types'
    BY SMTT(60), <1>28 DEF Resend, TellAlone, Coming, Types, Held, Readers, Ids
  <2>2. Counted' /\ Placed' /\ HeldAlive'
    BY <1>28, <2>1 DEF Resend, TellAlone, Counted, Placed, HeldAlive, Types, Held,
       Readers, Ids
  <2>3. UserwbKept'
    BY <1>28, <2>1 DEF Resend, TellAlone, UserwbKept, Coming, Types, Held, Readers, Ids
  <2>4. Held' /\ Coming'
    BY <1>28, <2>1 DEF Resend, TellAlone, Held, Coming, Types, Placed, HeldAlive,
       Readers, Ids
  <2>5. Served' /\ NobodyMissed'
    BY <1>28, <2>1 DEF Resend, TellAlone, Served, NobodyMissed, Coming, Types, Placed,
       Held, Readers, Ids
  <2>. QED
    BY <2>1, <2>2, <2>3, <2>4, <2>5
<1>29. CASE UNCHANGED vars
  <2>1. Types'
    BY <1>29, SMTT(30) DEF Types, Held, Hashes, Readers, Ids
  <2>2. Counted'
    BY <1>29 DEF Counted, Types, Readers
  <2>3. Placed' /\ HeldAlive' /\ Held'
    BY <1>29 DEF Types, Placed, HeldAlive, Held, Readers
  <2>4. UserwbKept' /\ Coming'
    BY <1>29 DEF Types, UserwbKept, Placed, HeldAlive, Held, Coming, Readers
  <2>5. Served' /\ NobodyMissed'
    BY <1>29 DEF Types, Placed, Held, Coming, Served, NobodyMissed
  <2>. QED
    BY <2>1, <2>2, <2>3, <2>4, <2>5
<1>. QED
  BY <1>1, <1>2, <1>3, <1>4, <1>5, <1>6, <1>7, <1>8, <1>9, <1>10, <1>11, <1>12,
     <1>13, <1>14, <1>15, <1>16, <1>17, <1>18, <1>19, <1>20, <1>21, <1>22, <1>23,
     <1>24, <1>25, <1>26, <1>27, <1>28, <1>29
     DEF Next, Update, Authorise, Submit

\* add_base never takes out a workbase that get_workbase or the authoriser
\* counted a reader on, so clear_workbase never frees one in use.
THEOREM HeldAliveThm == Spec => []HeldAlive
<1>1. IInv => HeldAlive
  BY DEF IInv
<1>. QED
  BY <1>1, InitInv, NextInv, PTL DEF Spec

\* In solo mode __user_coinb2 finds the userwb of every share on work its miner
\* was sent, as long as get_workbase finds the workbase.
THEOREM UserwbKeptThm == Spec => []UserwbKept
<1>1. IInv => UserwbKept
  BY DEF IInv
<1>. QED
  BY <1>1, InitInv, NextInv, PTL DEF Spec

\* When a broadcast is over, the last work sent to every miner who was authorised
\* before it, and whom init_client, update_solo_client or update_client has sent
\* nothing since its work became current, is that work.
THEOREM NobodyMissedThm == Spec => []NobodyMissed
<1>1. IInv => NobodyMissed
  BY DEF IInv
<1>. QED
  BY <1>1, InitInv, NextInv, PTL DEF Spec

-----------------------------------------------------------------------------
(* The shares.  What a share is tested against is the current workbase, which *)
(* stands for the share's own as long as no block has come between them: the  *)
(* work since the last block change is all for one block (OneBlock).          *)

Stamps ==
    /\ prevhash \in [Ids -> 0..MaxHeight] /\ chain \in 0..MaxHeight /\ lasthash \in Int
    /\ blockchange_id \in 0..last_id /\ current = last_id
    /\ credited \in [Hashes -> Nat]

OneBlock == \A i \in Ids : i >= blockchange_id /\ i <= last_id => prevhash[i] = lasthash

\* The share in hand is on work that its miner was sent.
InHand ==
    spc \in {"got", "hashed", "put"} => share \in Hashes /\ share.job <= last_id /\ share.job \in told[share.user]

\* The update thread purges shares of work older than the block change.
Purging == new_block => blockchange_id = current

\* A share that was credited is remembered while it is not stale.
Remembered ==
    \A h \in Hashes : credited[h] > 0 =>
        /\ h.job <= last_id
        /\ h \in shares \/ h.job < blockchange_id \/ h.job \notin workbases

SInv == Stamps /\ OneBlock /\ InHand /\ Purging /\ Remembered /\ TipSolved

\* Before the first template there is nothing to compare.
LEMMA InitShares == Init => SInv
<1> SUFFICES ASSUME Init PROVE SInv
  OBVIOUS
<1>1. Stamps /\ OneBlock
  BY WorkbasesAssumption DEF Init, Stamps, OneBlock, Ids
<1>2. InHand /\ Purging /\ Remembered /\ TipSolved
  BY WorkbasesAssumption DEF Init, InHand, Purging, Remembered, TipSolved
<1> QED
  BY <1>1, <1>2 DEF SInv

\* Most steps leave the shares alone, and take no work from anybody.
LEMMA SharesKept ==
    ASSUME SInv, UNCHANGED <<prevhash, lasthash, blockchange_id, last_id, current, credited,
                             spc, share, blocks, shares>>,
           workbases' \subseteq workbases, chain' \in 0..MaxHeight, new_block' => new_block,
           \A u \in Users : told[u] \subseteq told'[u]
    PROVE  SInv'
<1>1. Stamps' /\ OneBlock'
  BY DEF SInv, Stamps, OneBlock
<1>2. InHand'
  BY DEF SInv, InHand, Hashes
<1>3. Purging' /\ Remembered' /\ TipSolved'
  BY DEF SInv, Purging, Remembered, TipSolved
<1> QED
  BY <1>1, <1>2, <1>3 DEF SInv

\* A new workbase: either the block is the one that the others are for, or all the
\* others are of the past.
LEMMA SharesAddBase == ASSUME IInv, SInv, AddBase PROVE SInv'
<1>1. /\ upc = "idle" /\ last_id < MaxBases /\ last_id' = last_id + 1 /\ current' = last_id'
      /\ prevhash' = [prevhash EXCEPT ![last_id + 1] = chain] /\ lasthash' = chain
      /\ new_block' = (lasthash # chain)
      /\ blockchange_id' = IF lasthash # chain THEN last_id + 1 ELSE blockchange_id
      /\ workbases' \subseteq workbases \union {last_id + 1}
      /\ UNCHANGED <<chain, credited, shares, spc, share, blocks, told>>
  BY DEF AddBase, AgeNext, envVars, shareVars, sentVars, outVars
<1>2. /\ last_id \in 0..MaxBases /\ last_id + 1 \in Ids /\ MaxBases \in Nat
      /\ Ids = 1..MaxBases
  BY <1>1, WorkbasesAssumption DEF IInv, Types, Ids
<1>3. /\ prevhash \in [Ids -> 0..MaxHeight] /\ chain \in 0..MaxHeight /\ lasthash \in Int
      /\ blockchange_id \in 0..last_id /\ credited \in [Hashes -> Nat]
  BY DEF SInv, Stamps
<1>4. prevhash' \in [Ids -> 0..MaxHeight] /\ prevhash'[last_id + 1] = chain
      /\ \A i \in Ids : i <= last_id => prevhash'[i] = prevhash[i]
  BY <1>1, <1>2, <1>3
<1>5. Stamps'
  BY SMTT(60), <1>1, <1>2, <1>3, <1>4, WorkbasesAssumption DEF Stamps
<1>6. OneBlock'
  <2>1. ASSUME NEW i \in Ids, i >= blockchange_id', i <= last_id + 1 PROVE prevhash'[i] = chain
    <3>1. CASE i = last_id + 1
      BY <1>4, <3>1
    <3>2. CASE i <= last_id
      BY <1>1, <1>2, <1>3, <1>4, <2>1, <3>2 DEF SInv, OneBlock
    <3> QED
      BY <1>2, <2>1, <3>1, <3>2
  <2> QED
    BY <1>1, <2>1 DEF OneBlock
<1>7. InHand'
  BY <1>1, <1>2 DEF SInv, InHand, Hashes
<1>8. Purging'
  BY <1>1 DEF Purging
<1>9. Remembered'
  <2>1. ASSUME NEW h \in Hashes, credited[h] > 0
        PROVE  /\ h.job <= last_id + 1
               /\ h \in shares \/ h.job < blockchange_id' \/ h.job \notin workbases'
    <3>1. h.job \in Int /\ h.job <= last_id
          /\ (h \in shares \/ h.job < blockchange_id \/ h.job \notin workbases)
      BY <1>2, <2>1 DEF SInv, Remembered, Hashes
    <3> QED
      BY <1>1, <1>2, <1>3, <3>1
  <2> QED
    BY <1>1, <2>1 DEF Remembered
<1>10. TipSolved'
  <2>1. ASSUME spc \in {"hashed", "put"}, share.job >= blockchange_id',
               share.diff >= NetDiff[prevhash'[share.job]]
        PROVE  share \in blocks
    <3>1. share.job \in Ids /\ share.job <= last_id
      BY <2>1 DEF SInv, InHand, Hashes
    <3>2. prevhash'[share.job] = prevhash[share.job] /\ share.job >= blockchange_id
      BY <1>1, <1>2, <1>3, <1>4, <2>1, <3>1
    <3> QED
      BY <2>1, <3>2 DEF SInv, TipSolved
  <2> QED
    BY <1>1, <2>1 DEF TipSolved
<1> QED
  BY <1>5, <1>6, <1>7, <1>8, <1>9, <1>10 DEF SInv

\* What is forgotten is of a workbase that is out of the table, or of the past.
LEMMA SharesForgotten == ASSUME IInv, SInv, AgeShares \/ PurgeShares PROVE SInv'
<1>1. UNCHANGED <<prevhash, lasthash, blockchange_id, last_id, current, credited, spc, share,
                  blocks, workbases, chain, new_block, told>>
  BY DEF AgeShares, PurgeShares, envVars, tableVars, shareVars, sentVars, outVars
<1>2. Remembered'
  <2>1. ASSUME NEW h \in Hashes, credited[h] > 0
        PROVE  h.job <= last_id /\ (h \in shares' \/ h.job < blockchange_id \/ h.job \notin workbases)
    <3>1. h.job <= last_id /\ (h \in shares \/ h.job < blockchange_id \/ h.job \notin workbases)
      BY <2>1 DEF SInv, Remembered
    <3>2. CASE AgeShares
      <4>1. shares' = {g \in shares : g.job # victim} /\ victim \notin workbases
        BY <3>2 DEF AgeShares, IInv, Placed
      <4> QED
        BY <3>1, <4>1
    <3>3. CASE PurgeShares
      <4>1. h.job \in Int /\ current \in Int
        BY DEF SInv, Stamps, Hashes, Ids, IInv, Types
      <4>2. h \in shares /\ h \notin shares' => new_block /\ ~ (h.job >= current)
        BY <3>3 DEF PurgeShares
      <4> QED
        BY <3>1, <4>1, <4>2 DEF SInv, Purging
    <3> QED
      BY <3>2, <3>3
  <2> QED
    BY <1>1, <2>1 DEF Remembered
<1>3. Stamps' /\ OneBlock'
  BY <1>1 DEF SInv, Stamps, OneBlock
<1>4. InHand' /\ Purging' /\ TipSolved'
  BY <1>1 DEF SInv, InHand, Purging, TipSolved
<1> QED
  BY <1>2, <1>3, <1>4 DEF SInv

\* submission_diff finds the difficulty that the share has.
LEMMA FullDifficulty ==
    ASSUME IInv, SInv, spc = "got" PROVE Difficulty(share) = share.diff
<1>1. share \in Hashes /\ share.job \in told[share.user] /\ share.job \in workbases
  BY DEF IInv, HeldAlive, Held, SInv, InHand, Hashes, Ids
<1>2. share.user \in Users
  BY <1>1 DEF Hashes
<1> QED
  BY <1>1, <1>2 DEF IInv, UserwbKept, Difficulty

LEMMA SharesHashed == ASSUME IInv, SInv, SubmitHash PROVE SInv'
<1>1. /\ spc = "got" /\ spc' = "hashed" /\ TestBlocksolve(share)
      /\ UNCHANGED <<prevhash, lasthash, blockchange_id, last_id, current, credited, share,
                     shares, workbases, chain, new_block, told>>
  BY DEF SubmitHash, envVars, tableVars, updateVars, sentVars
<1>2. TipSolved'
  <2>1. ASSUME share.job >= blockchange_id, share.diff >= NetDiff[prevhash[share.job]]
        PROVE  share \in blocks'
    <3>1. share.job \in Ids /\ share.job <= last_id /\ share.diff \in Nat
      BY <1>1, WorkbasesAssumption DEF SInv, InHand, Hashes
    <3>2. prevhash[share.job] = lasthash
      BY <2>1, <3>1 DEF SInv, OneBlock
    <3>3. current \in Ids /\ current >= blockchange_id /\ current <= last_id
      BY <3>1, WorkbasesAssumption DEF SInv, Stamps, IInv, Types, Ids
    <3>4. prevhash[current] = lasthash
      BY <3>3 DEF SInv, OneBlock
    <3>5. NetDiff[prevhash[current]] \in Nat
      BY <3>3, WorkbasesAssumption DEF SInv, Stamps
    <3>6. Difficulty(share) = share.diff
      BY <1>1, FullDifficulty
    <3>7. 1000 * share.diff >= 999 * NetDiff[prevhash[current]]
      BY <2>1, <3>1, <3>2, <3>4, <3>5
    <3>8. blocks' = blocks \union {share}
      BY <1>1, <3>6, <3>7 DEF TestBlocksolve
    <3> QED
      BY <3>8
  <2> QED
    BY <1>1, <2>1 DEF TipSolved
<1>3. Stamps' /\ OneBlock'
  BY <1>1 DEF SInv, Stamps, OneBlock
<1>4. InHand' /\ Purging' /\ Remembered'
  BY <1>1 DEF SInv, InHand, Purging, Remembered
<1> QED
  BY <1>2, <1>3, <1>4 DEF SInv

LEMMA SharesTaken == ASSUME IInv, SInv, NEW h \in Hashes, SubmitGet(h) PROVE SInv'
<1>1. /\ spc' = "got" /\ share' = h /\ h.job \in told[h.user]
      /\ UNCHANGED <<prevhash, lasthash, blockchange_id, last_id, current, credited, blocks,
                     shares, workbases, chain, new_block, told>>
  BY DEF SubmitGet, envVars, updateVars, sentVars, outVars
<1>2. h.user \in Users /\ h.job <= last_id
  BY <1>1 DEF Hashes, IInv, Types
<1>3. InHand' /\ TipSolved'
  BY <1>1, <1>2 DEF InHand, TipSolved
<1>4. Stamps' /\ OneBlock'
  BY <1>1 DEF SInv, Stamps, OneBlock
<1>5. Purging' /\ Remembered'
  BY <1>1 DEF SInv, Purging, Remembered
<1> QED
  BY <1>3, <1>4, <1>5 DEF SInv

LEMMA SharesPut ==
    ASSUME IInv, SInv, NEW late, NEW ntime, SubmitPut(late, ntime) PROVE SInv'
<1>1. /\ spc = "hashed" /\ (spc' \in {"idle", "rejected"} \/ (spc' = "put" /\ share' = share))
      /\ UNCHANGED <<prevhash, lasthash, blockchange_id, last_id, current, credited, blocks,
                     shares, workbases, chain, new_block, told>>
  BY DEF SubmitPut, Rejected, envVars, updateVars, sentVars, outVars
<1>2. InHand' /\ TipSolved'
  BY <1>1 DEF SInv, InHand, TipSolved
<1>3. Stamps' /\ OneBlock'
  BY <1>1 DEF SInv, Stamps, OneBlock
<1>4. Purging' /\ Remembered'
  BY <1>1 DEF SInv, Purging, Remembered
<1> QED
  BY <1>2, <1>3, <1>4 DEF SInv

LEMMA SharesNew == ASSUME IInv, SInv, NewShare PROVE SInv'
<1>1. /\ spc = "put" /\ spc' \in {"idle", "rejected"} /\ shares' = shares \union {share}
      /\ credited' = IF share \in shares THEN credited
                     ELSE [credited EXCEPT ![share] = @ + 1]
      /\ UNCHANGED <<prevhash, lasthash, blockchange_id, last_id, current, blocks, workbases,
                     chain, new_block, told>>
  BY DEF NewShare, Accepted, Rejected, envVars, tableVars, updateVars, sentVars
<1>2. share \in Hashes /\ share.job <= last_id /\ credited \in [Hashes -> Nat]
  BY <1>1 DEF SInv, InHand, Stamps
<1>3. credited' \in [Hashes -> Nat]
      /\ \A h \in Hashes : h # share => credited'[h] = credited[h]
  BY <1>1, <1>2
<1>4. Remembered'
  BY <1>1, <1>2, <1>3 DEF SInv, Remembered
<1>5. Stamps' /\ OneBlock'
  BY <1>1, <1>3 DEF SInv, Stamps, OneBlock
<1>6. InHand' /\ Purging' /\ TipSolved'
  BY <1>1 DEF SInv, InHand, Purging, TipSolved
<1> QED
  BY <1>4, <1>5, <1>6 DEF SInv

\* The other steps of the update thread, of the authoriser and of the miners.
LEMMA SharesQuiet ==
    ASSUME IInv, SInv,
           \/ Tick \/ NetworkBlock \/ ClearWorkbase \/ AgeMore \/ GenerateUserwbs
           \/ BroadcastSolo \/ BroadcastPool \/ UpdateDone \/ AuthScript \/ AuthTakeBase
           \/ AuthUserwb \/ UpdateSoloClient \/ AuthPutBase
           \/ (\E u \in Users : \/ ParseSubscribe(u) \/ SendUpdateRead(u) \/ SendUpdate(u)
                               \/ ClientAuth(u) \/ AuthUser(u))
           \/ UNCHANGED vars
    PROVE  SInv'
<1> USE DEF vars, envVars, tableVars, updateVars, shareVars, authVars, sentVars,
     outVars
<1>1. UNCHANGED <<prevhash, lasthash, blockchange_id, last_id, current, credited, spc, share,
                  blocks, shares>>
  BY DEF Tick, NetworkBlock, ClearWorkbase, AgeMore, GenerateUserwbs, BroadcastSolo,
         BroadcastPool, UpdateDone, AuthScript, AuthTakeBase, AuthUserwb, AuthPutBase, AuthUser,
         UpdateSoloClient, ParseSubscribe, SendUpdateRead, SendUpdate, ClientAuth
<1>2. workbases' \subseteq workbases /\ (new_block' => new_block)
  BY DEF Tick, NetworkBlock, ClearWorkbase, AgeMore, AgeNext, GenerateUserwbs,
     BroadcastSolo,
         BroadcastPool, UpdateDone, AuthScript, AuthTakeBase, AuthUserwb, AuthPutBase, AuthUser,
         UpdateSoloClient, ParseSubscribe, SendUpdateRead, SendUpdate, ClientAuth
<1>3. chain' \in 0..MaxHeight
  <2>1. CASE NetworkBlock
    BY <2>1, WorkbasesAssumption DEF NetworkBlock, SInv, Stamps
  <2>2. CASE ~ NetworkBlock
    <3>1. chain' = chain
      BY <2>2 DEF Tick, ClearWorkbase, AgeMore, GenerateUserwbs, BroadcastSolo,
         BroadcastPool, UpdateDone, AuthScript, AuthTakeBase, AuthUserwb, AuthPutBase, AuthUser,
         UpdateSoloClient, ParseSubscribe, SendUpdateRead, SendUpdate, ClientAuth
    <3> QED
      BY <3>1 DEF SInv, Stamps
  <2> QED
    BY <2>1, <2>2
<1>4. ASSUME NEW u \in Users PROVE told[u] \subseteq told'[u]
  <2>1. told \in [Users -> SUBSET (1..last_id)]
    BY DEF IInv, Types
  <2>2. CASE UNCHANGED told
    BY <2>2
  <2>3. CASE BroadcastSolo \/ BroadcastPool
    BY <2>1, <2>3 DEF BroadcastSolo, BroadcastPool, Tell
  <2>4. CASE UpdateSoloClient \/ \E w \in Users : SendUpdate(w)
    BY <2>1, <2>4 DEF IInv, Coming, UpdateSoloClient, SendUpdate, TellAlone
  <2> QED
    BY <2>2, <2>3, <2>4 DEF Tick, NetworkBlock, ClearWorkbase, AgeMore, GenerateUserwbs,
       UpdateDone, AuthScript, AuthTakeBase, AuthUserwb, AuthPutBase, AuthUser, ParseSubscribe,
       SendUpdateRead, ClientAuth
<1> QED
  BY <1>1, <1>2, <1>3, <1>4, SharesKept

\* The thread has put the share away, and sends the miner the current work.
LEMMA SharesRejected ==
    ASSUME IInv, SInv, ResendRead \/ Resend \/ \E h \in Hashes : SubmitUnknown(h)
    PROVE  SInv'
<1>1. /\ spc' \notin {"got", "hashed", "put"}
      /\ UNCHANGED <<prevhash, lasthash, blockchange_id, last_id, current, credited, blocks,
                     shares, workbases, chain, new_block>>
  BY DEF ResendRead, Resend, SubmitUnknown, Rejected, envVars, tableVars, updateVars,
     sentVars,
         outVars
<1>2. InHand' /\ TipSolved'
  BY <1>1 DEF InHand, TipSolved
<1>3. Stamps' /\ OneBlock'
  BY <1>1 DEF SInv, Stamps, OneBlock
<1>4. Purging' /\ Remembered'
  BY <1>1 DEF SInv, Purging, Remembered
<1> QED
  BY <1>2, <1>3, <1>4 DEF SInv

LEMMA SharesInv == IInv /\ SInv /\ [Next]_vars => SInv'
<1> SUFFICES ASSUME IInv, SInv, [Next]_vars PROVE SInv'
  OBVIOUS
<1>1. CASE AddBase \/ AgeShares \/ PurgeShares \/ SubmitHash \/ NewShare
  BY <1>1, SharesAddBase, SharesForgotten, SharesHashed, SharesNew
<1>2. ASSUME NEW h \in Hashes, SubmitGet(h) PROVE SInv'
  BY <1>2, SharesTaken
<1>3. ASSUME NEW late \in BOOLEAN, NEW ntime \in BOOLEAN, SubmitPut(late, ntime) PROVE SInv'
  BY <1>3, SharesPut
<1> QED
  BY <1>1, <1>2, <1>3, SharesQuiet, SharesRejected DEF Next, Update, Authorise, Submit

LEMMA SharesSound == Spec => [](IInv /\ SInv)
BY InitInv, NextInv, InitShares, SharesInv, PTL DEF Spec

\* test_blocksolve, which compares with the current workbase, submits every share
\* that solves the block its work is for, as long as no other block is known of.
THEOREM TipSolvedThm == Spec => []TipSolved
<1>1. SInv => TipSolved
  BY DEF SInv
<1> QED
  BY <1>1, SharesSound, PTL

\* new_share credits a hash again only when its work has become stale, or was
\* aged out of the table, in the meantime.
THEOREM DupeOnlyOvertakenThm == Spec => DupeOnlyOvertaken
<1>1. ASSUME IInv, SInv, IInv', SInv', [Next]_vars, NEW h \in Hashes,
             credited'[h] > credited[h], credited[h] > 0
      PROVE  h.job < blockchange_id \/ h.job \notin workbases
  <2>1. credited' # credited
    BY <1>1 DEF SInv, Stamps
  <2>2. NewShare
    BY <1>1, <2>1 DEF Next, Update, Authorise, Submit, vars, Tick, NetworkBlock, AddBase,
       AgeShares, ClearWorkbase, AgeMore, GenerateUserwbs, PurgeShares, BroadcastSolo,
       BroadcastPool, UpdateDone, AuthUser, AuthScript, AuthTakeBase, AuthUserwb, AuthPutBase,
       UpdateSoloClient, ParseSubscribe, SendUpdateRead, SendUpdate, ClientAuth, SubmitGet,
       SubmitUnknown, SubmitHash, SubmitPut, ResendRead, Resend, outVars
  <2>3. credited' = IF share \in shares THEN credited
                    ELSE [credited EXCEPT ![share] = @ + 1]
    BY <2>2 DEF NewShare
  <2>4. h = share /\ share \notin shares
    BY <1>1, <2>3 DEF SInv, Stamps
  <2> QED
    BY <1>1, <2>4 DEF SInv, Remembered
<1>2. IInv /\ SInv /\ IInv' /\ SInv' /\ [Next]_vars =>
        [\A h \in Hashes : credited'[h] > credited[h] /\ credited[h] > 0
          => h.job < blockchange_id \/ h.job \notin workbases]_vars
  BY <1>1
<1> QED
  BY <1>2, SharesSound, PTL DEF Spec, DupeOnlyOvertaken
=============================================================================
