---------------------- MODULE StratifierClients_proofs ----------------------
(* Proofs about the life of stratum instances, for any number of             *)
(* connections, structs and users, and any bounds.                           *)
EXTENDS StratifierClients, FiniteSetTheorems, SequenceTheorems, WellFoundedInduction, TLAPS

-----------------------------------------------------------------------------
(* The inductive invariant.                                                  *)

\* TypeOK in two halves: what KillInstances writes, and the rest.
TableTypes ==
    /\ inst \in [Insts -> Instance]
    /\ table \in SUBSET Insts
    /\ before \in SUBSET (Insts \X Insts)
    /\ workers \in [Users -> Int] /\ nworkers \in Int /\ nusers \in Int
    /\ todo \in [{"stats", "bcast"} -> SUBSET Insts]

OtherTypes ==
    /\ conn \in [Ids -> {"open", "closed"}]
    /\ evt \in Ids \union {NoId}
    /\ msgs \in Nat /\ admin \in Nat
    /\ connq \in Seq(Command)
    /\ sends \in SUBSET Ids
    /\ recvq \in Seq(Ids) /\ authq \in Seq(Ids)
    /\ shareq \in Seq(Ids) /\ loopq \in Seq(Ids)
    /\ sessions \in SUBSET Nat /\ enonce1 \in Nat /\ took \in Nat
    /\ failed \in SUBSET Users
    /\ pc \in [Threads -> {"idle", "adding", "parse", "enonce", "auth", "linked",
                           "tag", "visit", "done"}]
    /\ hold \in [Threads -> Insts \union {NoInst}]
    /\ adding \in Insts \union {NoInst} /\ tmp \in Insts \union {NoInst}

\* The threads that hold s when h says what each thread holds.
HoldersIn(h, s) == {t \in Threads : h[t] = s}

\* RefsCounted, of all structs: one that is not in the table has no
\* references and no holders.
AllRefsCounted == \A s \in Insts : inst[s].ref = Cardinality(HoldersIn(hold, s))

\* A thread holds an instance except between two pieces of work.
HoldsWhileBusy == \A t \in Threads : hold[t] = NoInst <=> pc[t] \in {"idle", "adding", "tag"}

\* The struct being filled is outside the table, and only srecv fills one.
AddingApart ==
    /\ pc["srecv"] = "adding" <=> adding # NoInst
    /\ adding # NoInst => adding \in Insts \ table /\ inst[adding].id \in Ids
                          /\ inst[adding].ref = 0
    /\ \A t \in Threads : pc[t] = "adding" => t = "srecv"

\* Instances in the table belong to a connection.
IdsInTable == \A s \in table : inst[s].id \in Ids

Core == TableTypes /\ AllRefsCounted /\ HeldInTable
Busy == HoldsWhileBusy /\ AddingApart /\ IdsInTable

IInv == OtherTypes /\ Core /\ Busy

-----------------------------------------------------------------------------
(* Counting holders.                                                         *)

(* There are finitely many threads.                                          *)
LEMMA ThreadsFinite == IsFiniteSet(Threads)
<1>1. /\ IsFiniteSet({"srecv"})
      /\ IsFiniteSet({"srecv", "sauth"})
      /\ IsFiniteSet({"srecv", "sauth", "sshare"})
  <2>1. IsFiniteSet({"srecv"})
    BY FS_Singleton
  <2>2. {"srecv", "sauth"} = {"srecv"} \union {"sauth"}
    OBVIOUS
  <2>3. {"srecv", "sauth", "sshare"} = {"srecv", "sauth"} \union {"sshare"}
    OBVIOUS
  <2> QED
    BY <2>1, <2>2, <2>3, FS_AddElement
<1>2. IsFiniteSet({"srecv", "sauth", "sshare", "sloop"})
  <2>1. {"srecv", "sauth", "sshare", "sloop"} = {"srecv", "sauth", "sshare"} \union {"sloop"}
    OBVIOUS
  <2> QED
    BY <1>1, <2>1, FS_AddElement
<1>3. IsFiniteSet({"srecv", "sauth", "sshare", "sloop", "stats"})
  <2>1. {"srecv", "sauth", "sshare", "sloop", "stats"}
          = {"srecv", "sauth", "sshare", "sloop"} \union {"stats"}
    OBVIOUS
  <2> QED
    BY <1>2, <2>1, FS_AddElement
<1>4. Threads = {"srecv", "sauth", "sshare", "sloop", "stats"} \union {"bcast"}
  BY DEF Threads
<1> QED
  BY <1>3, <1>4, FS_AddElement

(* An instance's holders are finitely many.                                  *)
LEMMA HoldersFinite ==
    ASSUME NEW h, NEW s
    PROVE  IsFiniteSet(HoldersIn(h, s)) /\ Cardinality(HoldersIn(h, s)) \in Nat
  BY ThreadsFinite, FS_Subset, FS_CardinalityType DEF HoldersIn

\* h becomes g when thread t holds x instead of what it held.
Moved(h, g, t, x) == g = [h EXCEPT ![t] = x]

(* When thread t lets go of one thing and takes hold of another, x, the      *)
(* number of holders of each instance changes by what that says.             *)
LEMMA HoldersMove ==
    ASSUME NEW h \in [Threads -> Insts \union {NoInst}],
           NEW t \in Threads, NEW x, NEW g, Moved(h, g, t, x), NEW s \in Insts
    PROVE  Cardinality(HoldersIn(g, s)) = Cardinality(HoldersIn(h, s))
               - (IF s = h[t] THEN 1 ELSE 0) + (IF s = x THEN 1 ELSE 0)
<1>1. IsFiniteSet(HoldersIn(h, s)) /\ Cardinality(HoldersIn(h, s)) \in Nat
  BY HoldersFinite
<1>2. CASE s = h[t] /\ s = x
  <2>1. HoldersIn(g, s) = HoldersIn(h, s)
    BY <1>2 DEF HoldersIn, Moved
  <2> QED
    BY <1>1, <1>2, <2>1
<1>3. CASE s = h[t] /\ s # x
  <2>1. HoldersIn(g, s) = HoldersIn(h, s) \ {t} /\ t \in HoldersIn(h, s)
    BY <1>3 DEF HoldersIn, Moved
  <2>2. Cardinality(HoldersIn(h, s) \ {t}) = Cardinality(HoldersIn(h, s)) - 1
    BY <1>1, <2>1, FS_RemoveElement
  <2>3. Cardinality(HoldersIn(g, s)) = Cardinality(HoldersIn(h, s)) - 1
    BY <2>1, <2>2, Zenon
  <2> QED
    BY <1>1, <1>3, <2>3
<1>4. CASE s # h[t] /\ s = x
  <2>1. HoldersIn(g, s) = HoldersIn(h, s) \union {t} /\ t \notin HoldersIn(h, s)
    BY <1>4 DEF HoldersIn, Moved
  <2>2. Cardinality(HoldersIn(h, s) \union {t}) = Cardinality(HoldersIn(h, s)) + 1
    BY <1>1, <2>1, FS_AddElement
  <2>3. Cardinality(HoldersIn(g, s)) = Cardinality(HoldersIn(h, s)) + 1
    BY <2>1, <2>2, Zenon
  <2> QED
    BY <1>1, <1>4, <2>3
<1>5. CASE s # h[t] /\ s # x
  <2>1. HoldersIn(g, s) = HoldersIn(h, s)
    BY <1>5 DEF HoldersIn, Moved
  <2> QED
    BY <1>1, <1>5, <2>1
<1> QED
  BY <1>2, <1>3, <1>4, <1>5

(* Nobody holds an instance that has no holders to count.                    *)
LEMMA UncountedUnheld ==
    ASSUME NEW h, NEW s, Cardinality(HoldersIn(h, s)) = 0, NEW t \in Threads
    PROVE  h[t] # s
<1>1. HoldersIn(h, s) = {}
  BY HoldersFinite, FS_EmptySet
<1> QED
  BY <1>1 DEF HoldersIn

-----------------------------------------------------------------------------
(* What the helpers write has the right type.                                *)

LEMMA ClearedTyped == Cleared \in Instance
  BY DEF Cleared, Instance

(* Killing leaves well-formed tables.                                        *)
LEMMA KillTyped ==
    ASSUME TableTypes, NEW rec \in [Insts -> Instance], NEW S \in SUBSET Insts,
           KillInstances(rec, S), nworkers' \in Int, nusers' \in Int
    PROVE  TableTypes'
<1>1. inst' \in [Insts -> Instance]
  BY ClearedTyped DEF KillInstances
<1>2. /\ table' \in SUBSET Insts /\ before' \in SUBSET (Insts \X Insts)
      /\ todo' \in [{"stats", "bcast"} -> SUBSET Insts]
  BY DEF KillInstances, TableTypes
<1>3. workers' \in [Users -> Int]
  <2> SUFFICES ASSUME NEW u \in Users
               PROVE  workers[u] - Cardinality({s \in S : inst[s].user = u}) \in Int
    BY DEF KillInstances
  <2>1. Cardinality({s \in S : inst[s].user = u}) \in Nat
    BY StratifierAssumption, FS_Subset, FS_CardinalityType
  <2> QED
    BY <2>1 DEF TableTypes
<1> QED
  BY <1>1, <1>2, <1>3 DEF TableTypes

(* ... and so it does with the statistics.                                   *)
LEMMA UpdateAndKillTyped ==
    ASSUME TableTypes, NEW rec \in [Insts -> Instance], NEW S \in SUBSET Insts,
           UpdateAndKill(rec, S)
    PROVE  TableTypes'
<1>1. Cardinality(Linked(S)) \in Nat
  BY StratifierAssumption, FS_Subset, FS_CardinalityType DEF Linked
<1>2. Cardinality({u \in Users : workers[u] # 0 /\ workers'[u] = 0}) \in Nat
  BY StratifierAssumption, FS_Subset, FS_CardinalityType
<1>3. nworkers' \in Int /\ nusers' \in Int
  BY <1>1, <1>2 DEF UpdateAndKill, TableTypes
<1> QED
  BY <1>3, KillTyped DEF UpdateAndKill

(* ... and a change of fields alone.                                         *)
LEMMA UpdateTyped ==
    ASSUME TableTypes, NEW rec \in [Insts -> Instance], Update(rec)
    PROVE  TableTypes'
  BY DEF TableTypes, Update

-----------------------------------------------------------------------------
(* What every kind of step keeps.                                            *)

(* Thread t goes to place p and holds x instead of what it held; counts are  *)
(* adjusted to match, and whatever leaves the table has a count of zero.     *)
LEMMA StepKeeps ==
    ASSUME IInv, TableTypes',
           NEW t \in Threads, NEW x \in table \union {NoInst}, NEW p,
           hold' = [hold EXCEPT ![t] = x], pc' = [pc EXCEPT ![t] = p],
           adding' = adding, p # "adding", pc[t] # "adding",
           x = NoInst <=> p \in {"idle", "tag"},
           table' \subseteq table, x # NoInst => x \in table',
           \A s \in Insts : inst'[s].ref = inst[s].ref - (IF s = hold[t] THEN 1 ELSE 0)
                                                       + (IF s = x THEN 1 ELSE 0),
           \A s \in table \ table' : inst'[s].ref = 0,
           \A s \in Insts : s \in table' \/ s = adding => inst'[s].id = inst[s].id
    PROVE  Core' /\ Busy'
<1> USE DEF IInv, Core, Busy
<1>1. AllRefsCounted'
  <2> SUFFICES ASSUME NEW s \in Insts
               PROVE  inst'[s].ref = Cardinality(HoldersIn(hold', s))
    BY DEF AllRefsCounted
  <2>1. Cardinality(HoldersIn(hold', s)) = Cardinality(HoldersIn(hold, s))
               - (IF s = hold[t] THEN 1 ELSE 0) + (IF s = x THEN 1 ELSE 0)
    <3>1. hold \in [Threads -> Insts \union {NoInst}]
      BY DEF OtherTypes
    <3>2. Moved(hold, hold', t, x)
      BY DEF Moved
    <3> HIDE DEF IInv, Core, Busy
    <3> QED
      BY <3>1, <3>2, HoldersMove
  <2> QED
    BY <2>1 DEF AllRefsCounted
<1>2. HeldInTable'
  <2> SUFFICES ASSUME NEW u \in Threads, hold'[u] # NoInst, hold'[u] \notin table'
               PROVE  FALSE
    BY DEF HeldInTable
  <2>1. u # t /\ hold'[u] = hold[u] /\ hold[u] \in table \ table'
    BY DEF HeldInTable, OtherTypes
  <2>2. hold[u] \in Insts /\ inst'[hold[u]].ref = 0
    BY <2>1 DEF TableTypes
  <2>3. Cardinality(HoldersIn(hold', hold[u])) = 0
    BY <1>1, <2>2 DEF AllRefsCounted
  <2> QED
    BY ZenonT(60), <2>1, <2>3, UncountedUnheld
<1>3. HoldsWhileBusy'
  BY DEF HoldsWhileBusy, OtherTypes
<1>4. AddingApart'
  <2>1. pc'["srecv"] = "adding" <=> adding' # NoInst
    BY DEF AddingApart, OtherTypes, Threads
  <2>2. \A u \in Threads : pc'[u] = "adding" => u = "srecv"
    BY DEF AddingApart, OtherTypes
  <2>3. ASSUME adding # NoInst
        PROVE  adding \in Insts \ table' /\ inst'[adding].id \in Ids /\ inst'[adding].ref = 0
    <3>1. adding \in Insts \ table /\ inst[adding].id \in Ids /\ inst[adding].ref = 0
      BY <2>3 DEF AddingApart
    <3>2. adding # hold[t] /\ adding # x
      BY <2>3, <3>1 DEF HeldInTable
    <3> QED
      BY <3>1, <3>2
  <2> QED
    BY <2>1, <2>2, <2>3 DEF AddingApart
<1>5. IdsInTable'
  BY DEF IdsInTable, TableTypes
<1> QED
  BY <1>1, <1>2, <1>3, <1>4, <1>5

(* Nothing that Core and Busy speak of changes.                              *)
LEMMA FrameKeeps ==
    ASSUME IInv, UNCHANGED <<tableVars, pc, hold, adding>>
    PROVE  Core' /\ Busy'
  BY DEF IInv, Core, Busy, tableVars, TableTypes, AllRefsCounted, HeldInTable,
         HoldsWhileBusy, AddingApart, IdsInTable

(* Thread t changes fields other than ref and id, goes to place p, and holds *)
(* what it held.                                                             *)
LEMMA UpdateKeeps ==
    ASSUME IInv, NEW t \in Threads, NEW p, NEW rec \in [Insts -> Instance],
           Update(rec), \A s \in Insts : rec[s].ref = inst[s].ref /\ rec[s].id = inst[s].id,
           hold' = hold, adding' = adding, pc' = [pc EXCEPT ![t] = p],
           p # "adding", pc[t] # "adding", hold[t] = NoInst <=> p \in {"idle", "tag"}
    PROVE  Core' /\ Busy'
<1> DEFINE x == hold[t]
<1>1. TableTypes'
  BY UpdateTyped DEF IInv, Core
<1>2. x \in table \union {NoInst} /\ hold' = [hold EXCEPT ![t] = x]
  BY DEF IInv, Core, HeldInTable, OtherTypes
<1>3. table' = table /\ inst' = rec
  BY DEF Update
<1>4. \A s \in Insts : inst'[s].ref = inst[s].ref - (IF s = hold[t] THEN 1 ELSE 0)
                                                  + (IF s = x THEN 1 ELSE 0)
  BY <1>3 DEF IInv, Core, TableTypes, Instance
<1> HIDE DEF x
<1> QED
  BY <1>1, <1>2, <1>3, <1>4, StepKeeps DEF x

(* Thread t takes a reference on instance s.                                 *)
LEMMA TakeRefKeeps ==
    ASSUME IInv, NEW t \in Threads, NEW s \in table, NEW p, NEW rec \in [Insts -> Instance],
           \A y \in Insts : rec[y].ref = inst[y].ref /\ rec[y].id = inst[y].id,
           TakeRef(t, s, rec), adding' = adding, pc' = [pc EXCEPT ![t] = p],
           pc[t] = "idle", p \notin {"idle", "tag", "adding"}
    PROVE  Core' /\ Busy'
<1> DEFINE new == [rec EXCEPT ![s].ref = @ + 1]
<1>1. s \in Insts /\ s # NoInst /\ hold[t] = NoInst
  BY StratifierAssumption DEF IInv, Core, Busy, TableTypes, HoldsWhileBusy
<1>2. new \in [Insts -> Instance]
  BY <1>1 DEF Instance
<1>3. inst' = new /\ table' = table
  BY DEF TakeRef, Update
<1>4. TableTypes'
  BY <1>2, UpdateTyped DEF IInv, Core, TakeRef
<1>5. \A y \in Insts : inst'[y].ref = inst[y].ref - (IF y = hold[t] THEN 1 ELSE 0)
                                                  + (IF y = s THEN 1 ELSE 0)
  BY <1>1, <1>3, StratifierAssumption DEF IInv, Core, TableTypes, Instance
<1>6. \A y \in Insts : inst'[y].id = inst[y].id
  BY <1>1, <1>3 DEF Instance
<1>7. hold' = [hold EXCEPT ![t] = s] /\ table' \subseteq table /\ s \in table'
  BY <1>3 DEF TakeRef
<1>8. \A y \in table \ table' : inst'[y].ref = 0
  BY <1>3
<1>9. s \in table \union {NoInst} /\ p # "adding" /\ pc[t] # "adding"
      /\ (s = NoInst <=> p \in {"idle", "tag"})
  BY <1>1
<1> HIDE DEF new
<1> QED
  BY <1>4, <1>5, <1>6, <1>7, <1>8, <1>9, StepKeeps

(* Thread t releases what it holds, by _dec_instance_ref, and is idle.       *)
LEMMA DecInstanceRefKeeps ==
    ASSUME IInv, NEW t \in Threads, DecInstanceRef(t), adding' = adding,
           pc' = [pc EXCEPT ![t] = "idle"], pc[t] \notin {"idle", "tag", "adding"}
    PROVE  Core' /\ Busy'
<1> DEFINE s == hold[t]
           rec == [inst EXCEPT ![s].ref = @ - 1]
           S == IF rec[s].dropped /\ rec[s].ref = 0 THEN {s} ELSE {}
<1>1. s \in table /\ s \in Insts /\ s # NoInst
  BY StratifierAssumption DEF IInv, Core, Busy, TableTypes, HeldInTable, HoldsWhileBusy
<1>2. rec \in [Insts -> Instance] /\ S \in SUBSET Insts
  BY <1>1 DEF IInv, Core, TableTypes, Instance
<1>3. UpdateAndKill(rec, S) /\ hold' = [hold EXCEPT ![t] = NoInst]
  BY DEF DecInstanceRef
<1>4. /\ table' = table \ S
      /\ \A y \in Insts : inst'[y] = IF y \in S THEN Cleared ELSE rec[y]
  BY <1>3 DEF UpdateAndKill, KillInstances
<1>5. \A y \in Insts : /\ rec[y].ref = inst[y].ref - (IF y = s THEN 1 ELSE 0)
                       /\ rec[y].id = inst[y].id
                       /\ y \in S => rec[y].ref = 0
  BY <1>1 DEF IInv, Core, TableTypes, Instance
<1> HIDE DEF rec, S
<1>6. TableTypes'
  BY <1>2, <1>3, UpdateAndKillTyped DEF IInv, Core
<1>7. \A y \in Insts : inst'[y].ref = inst[y].ref - (IF y = hold[t] THEN 1 ELSE 0)
                                                  + (IF y = NoInst THEN 1 ELSE 0)
  BY <1>4, <1>5, StratifierAssumption DEF Cleared, IInv, Core, TableTypes, Instance
<1>8. \A y \in table \ table' : inst'[y].ref = 0
  BY <1>2, <1>4 DEF Cleared
<1>9. \A y \in Insts : y \in table' \/ y = adding => inst'[y].id = inst[y].id
  <2>1. adding \notin S
    BY <1>1 DEF S, IInv, Busy, AddingApart
  <2> QED
    BY <1>4, <1>5, <2>1
<1>10. NoInst \in table \union {NoInst} /\ table' \subseteq table /\ pc[t] # "adding"
  BY <1>4
<1> HIDE DEF s
<1> QED
  BY <1>3, <1>6, <1>7, <1>8, <1>9, <1>10, StepKeeps

(* Thread t, the command loop or srecv, drops instance s.                    *)
LEMMA DropInstanceKeeps ==
    ASSUME IInv, NEW t \in Threads, NEW s \in table, NEW p, DropInstance(s),
           hold' = hold, adding' = adding, pc' = [pc EXCEPT ![t] = p],
           p # "adding", pc[t] # "adding", hold[t] = NoInst <=> p \in {"idle", "tag"}
    PROVE  Core' /\ Busy'
<1>1. s \in Insts /\ inst \in [Insts -> Instance]
  BY DEF IInv, Core, TableTypes
<1>2. CASE inst[s].ref = 0
  <2> DEFINE S == {s}
  <2>1. UpdateAndKill(inst, S)
    BY <1>2 DEF DropInstance
  <2>2. /\ table' = table \ S /\ S \in SUBSET Insts /\ \A y \in S : inst[y].ref = 0
        /\ \A y \in Insts : inst'[y] = IF y \in S THEN Cleared ELSE inst[y]
    BY <1>1, <1>2, <2>1 DEF UpdateAndKill, KillInstances
  <2>3. hold[t] # NoInst => hold[t] \in table'
    <3>1. hold[t] # s
      BY <1>1, <1>2, UncountedUnheld DEF IInv, Core, AllRefsCounted
    <3> QED
      BY <2>2, <3>1 DEF IInv, Core, HeldInTable
  <2>4. hold[t] \in table \union {NoInst} /\ hold' = [hold EXCEPT ![t] = hold[t]]
    BY DEF IInv, Core, HeldInTable, OtherTypes
  <2>5. adding \notin S
    BY <1>1, StratifierAssumption DEF IInv, Busy, AddingApart
  <2> HIDE DEF S
  <2>6. TableTypes'
    BY <1>1, <2>1, <2>2, UpdateAndKillTyped DEF IInv, Core
  <2>7. \A y \in Insts : inst'[y].ref = inst[y].ref - (IF y = hold[t] THEN 1 ELSE 0)
                                                    + (IF y = hold[t] THEN 1 ELSE 0)
    BY <1>1, <2>2 DEF Cleared, Instance
  <2>8. \A y \in table \ table' : inst'[y].ref = 0
    BY <2>2 DEF Cleared
  <2>9. \A y \in Insts : y \in table' \/ y = adding => inst'[y].id = inst[y].id
    BY <2>2, <2>5
  <2> QED
    BY <2>2, <2>3, <2>4, <2>6, <2>7, <2>8, <2>9, StepKeeps
<1>3. CASE inst[s].ref # 0
  <2> DEFINE rec == [inst EXCEPT ![s].dropped = TRUE]
  <2>1. rec \in [Insts -> Instance] /\ Update(rec)
    BY <1>1, <1>3 DEF DropInstance, Instance
  <2>2. \A y \in Insts : rec[y].ref = inst[y].ref /\ rec[y].id = inst[y].id
    BY <1>1 DEF Instance
  <2> HIDE DEF rec
  <2> QED
    BY <2>1, <2>2, UpdateKeeps
<1> QED
  BY <1>2, <1>3

(* Thread t of a walk moves on to x, or stops.                               *)
LEMMA MoveOnKeeps ==
    ASSUME IInv, NEW t \in Threads, NEW x \in table \union {NoInst}, MoveOn(t, x),
           todo' \in [{"stats", "bcast"} -> SUBSET Insts],
           adding' = adding, pc[t] # "adding"
    PROVE  Core' /\ Busy'
<1> DEFINE p == IF x = NoInst THEN "idle" ELSE "visit"
<1>1. TableTypes'
  BY SMTT(30) DEF MoveOn, IInv, Core, TableTypes, Instance
<1>2. /\ hold' = [hold EXCEPT ![t] = x] /\ pc' = [pc EXCEPT ![t] = p]
      /\ table' = table
  BY DEF MoveOn, Goto
<1>3. \A s \in Insts : /\ inst'[s].ref = inst[s].ref - (IF s = hold[t] THEN 1 ELSE 0)
                                                      + (IF s = x THEN 1 ELSE 0)
                       /\ inst'[s].id = inst[s].id
  BY DEF MoveOn, IInv, Core, TableTypes, Instance
<1>4. p # "adding" /\ (x = NoInst <=> p \in {"idle", "tag"})
  OBVIOUS
<1> HIDE DEF p
<1> QED
  BY <1>1, <1>2, <1>3, <1>4, StepKeeps

-----------------------------------------------------------------------------
(* The steps, action by action.                                              *)

(* Where a thread stands tells whether it holds an instance, and which sort. *)
LEMMA BusyHolds ==
    ASSUME IInv, NEW t \in Threads, pc[t] \notin {"idle", "adding", "tag"}
    PROVE  hold[t] \in table /\ hold[t] \in Insts /\ inst[hold[t]] \in Instance
           /\ inst[hold[t]].id \in Ids
<1>1. hold[t] # NoInst
  BY DEF IInv, Busy, HoldsWhileBusy
<1>2. hold[t] \in table
  BY <1>1 DEF IInv, Core, HeldInTable
<1> QED
  BY <1>2 DEF IInv, Core, Busy, TableTypes, IdsInTable

(* A command for the connector leaves its queue a queue of commands.         *)
LEMMA CommandsTyped ==
    ASSUME connq \in Seq(Command), NEW c \in {"drop", "test"}, NEW id \in Ids,
           ConnectorCmd(c, id)
    PROVE  connq' \in Seq(Command)
<1>1. [cmd |-> c, id |-> id] \in Command
  BY DEF Command
<1> HIDE DEF Command
<1> QED
  BY <1>1 DEF ConnectorCmd

(* The connector and the miners do not touch the instances.                  *)
LEMMA ConnectorKeeps ==
    ASSUME IInv, miners \/ connector
    PROVE  IInv'
<1>1. OtherTypes
  BY DEF IInv
<1>2. ASSUME NEW id \in Ids, Parse(id)
      PROVE  IInv'
  <2>1. OtherTypes'
    BY <1>1, <1>2 DEF Parse, OtherTypes, tableVars, authVars
  <2> QED
    BY <1>2, <2>1, FrameKeeps DEF Parse, IInv
<1>3. ASSUME NEW id \in Ids, Close(id)
      PROVE  IInv'
  <2>1. loopq \o <<id, id>> \in Seq(Ids)
    BY <1>1 DEF OtherTypes
  <2>2. OtherTypes'
    BY <1>1, <1>3, <2>1 DEF Close, Invalidate, OtherTypes, tableVars, authVars
  <2> QED
    BY <1>3, <2>2, FrameKeeps DEF Close, IInv
<1>4. ASSUME AddRecv
      PROVE  IInv'
  <2>1. OtherTypes'
    BY <1>1, <1>4 DEF AddRecv, OtherTypes, tableVars, authVars
  <2> QED
    BY <1>4, <2>1, FrameKeeps DEF AddRecv, IInv
<1>5. ASSUME ConnectorLoop
      PROVE  IInv'
  <2> DEFINE c == Head(connq)
  <2>1. c \in Command /\ connq' \in Seq(Command)
    BY <1>1, <1>5, HeadTailProperties DEF ConnectorLoop, OtherTypes
  <2>2. c.id \in Ids
    BY <2>1 DEF Command
  <2>3. loopq \o <<c.id, c.id>> \in Seq(Ids) /\ Append(loopq, c.id) \in Seq(Ids)
    BY <1>1, <2>2 DEF OtherTypes
  <2>4. conn' \in [Ids -> {"open", "closed"}] /\ loopq' \in Seq(Ids)
    BY <1>1, <1>5, <2>3 DEF ConnectorLoop, Invalidate, DropId, OtherTypes
  <2>5. OtherTypes'
    BY <1>1, <1>5, <2>1, <2>4 DEF ConnectorLoop, OtherTypes, tableVars, authVars
  <2> QED
    BY <1>5, <2>5, FrameKeeps DEF ConnectorLoop, IInv
<1>6. ASSUME NEW id \in Ids, SendClient(id)
      PROVE  IInv'
  <2>1. conn' \in [Ids -> {"open", "closed"}] /\ loopq' \in Seq(Ids)
    <3>1. Append(loopq, id) \in Seq(Ids)
      BY <1>1 DEF OtherTypes
    <3>2. conn' = conn /\ (loopq' = loopq \/ loopq' = Append(loopq, id))
      BY <1>6 DEF SendClient, DropId
    <3> QED
      BY <1>1, <3>1, <3>2 DEF OtherTypes
  <2>2. OtherTypes'
    BY <1>1, <1>6, <2>1 DEF SendClient, OtherTypes, tableVars, authVars
  <2> QED
    BY <1>6, <2>2, FrameKeeps DEF SendClient, IInv
<1> QED
  BY <1>2, <1>3, <1>4, <1>5, <1>6 DEF miners, connector

(* A new instance is filled with the lock released, and then inserted.       *)
LEMMA RecruitKeeps ==
    ASSUME IInv, RecvRecruit \/ RecvAddInstance
    PROVE  IInv'
<1>1. OtherTypes /\ Core /\ Busy
  BY DEF IInv
<1>2. ASSUME RecvRecruit
      PROVE  IInv'
  <2>1. PICK id \in Ids, s \in Insts \ table :
          /\ TakeRecv(id) /\ adding' = s
          /\ Update([inst EXCEPT ![s] = [Cleared EXCEPT !.id = id]])
          /\ Goto("srecv", "adding") /\ UNCHANGED <<hold, connq>>
    BY <1>2 DEF RecvRecruit
  <2> DEFINE new == [Cleared EXCEPT !.id = id]
  <2>2. new \in Instance /\ new.id = id /\ new.ref = 0
    <3>1. Cleared \in Instance /\ Cleared.ref = 0
      BY ClearedTyped DEF Cleared
    <3> QED
      BY <3>1 DEF Instance
  <2>3. /\ inst' = [inst EXCEPT ![s] = new] /\ table' = table /\ hold' = hold
        /\ pc' = [pc EXCEPT !["srecv"] = "adding"] /\ adding' = s /\ pc["srecv"] = "idle"
    BY <2>1 DEF Update, Goto, TakeRecv
  <2>4. TableTypes'
    BY <1>1, <2>1, <2>2, UpdateTyped DEF Core, TableTypes
  <2> HIDE DEF new
  <2>5. OtherTypes'
    <3>1. recvq' \in Seq(Ids)
      BY <1>1, <2>1 DEF TakeRecv, OtherTypes
    <3> QED
      BY <1>1, <2>1, <2>3, <3>1 DEF TakeRecv, OtherTypes, connVars, authVars
  <2>6. inst[s].ref = 0
    <3>1. HoldersIn(hold, s) = {}
      BY <1>1, StratifierAssumption DEF HoldersIn, Core, HeldInTable
    <3> QED
      BY <1>1, <3>1, FS_EmptySet, Zenon DEF Core, AllRefsCounted
  <2>7. \A y \in Insts : inst'[y].ref = inst[y].ref
    BY <1>1, <2>2, <2>3, <2>6 DEF Core, TableTypes
  <2>8. AllRefsCounted'
    BY <1>1, <2>3, <2>7 DEF Core, AllRefsCounted, HoldersIn
  <2>9. HeldInTable'
    BY <1>1, <2>3 DEF Core, HeldInTable
  <2>10. HoldsWhileBusy'
    BY <1>1, <2>3 DEF Busy, HoldsWhileBusy, OtherTypes
  <2>11. AddingApart'
    BY <1>1, <2>2, <2>3, StratifierAssumption
       DEF Busy, AddingApart, OtherTypes, Core, TableTypes, Threads
  <2>12. IdsInTable'
    BY <1>1, <2>2, <2>3 DEF Busy, IdsInTable, Core, TableTypes
  <2> QED
    BY <2>4, <2>5, <2>8, <2>9, <2>10, <2>11, <2>12 DEF IInv, Core, Busy
<1>3. ASSUME RecvAddInstance
      PROVE  IInv'
  <2>1. /\ adding \in Insts \ table /\ inst[adding].id \in Ids /\ adding # NoInst
        /\ "srecv" \in Threads
    BY <1>1, <1>3 DEF RecvAddInstance, Busy, AddingApart, Threads
  <2>2. /\ inst' = [inst EXCEPT ![adding].ref = @ + 1] /\ table' = table \union {adding}
        /\ hold' = [hold EXCEPT !["srecv"] = adding] /\ adding' = NoInst
        /\ pc' = [pc EXCEPT !["srecv"] = "parse"] /\ pc["srecv"] = "adding"
    BY <1>3 DEF RecvAddInstance, Goto
  <2>3. TableTypes'
    BY SMTT(60), <1>1, <1>3, <2>1 DEF RecvAddInstance, Core, TableTypes, Instance
  <2>4. OtherTypes'
    BY <1>1, <1>3, <2>1, <2>2
       DEF RecvAddInstance, OtherTypes, connVars, authVars
  <2>5. hold["srecv"] = NoInst /\ hold \in [Threads -> Insts \union {NoInst}]
    BY <1>1, <2>1, <2>2 DEF Busy, HoldsWhileBusy, OtherTypes
  <2>6. AllRefsCounted'
    <3> SUFFICES ASSUME NEW s \in Insts
                 PROVE  inst'[s].ref = Cardinality(HoldersIn(hold', s))
      BY DEF AllRefsCounted
    <3>1. Moved(hold, hold', "srecv", adding)
      BY <2>2 DEF Moved
    <3>2. Cardinality(HoldersIn(hold', s)) = Cardinality(HoldersIn(hold, s))
               - (IF s = hold["srecv"] THEN 1 ELSE 0) + (IF s = adding THEN 1 ELSE 0)
      BY <2>1, <2>5, <3>1, HoldersMove
    <3>3. s # NoInst
      BY StratifierAssumption
    <3>4. inst'[s].ref = inst[s].ref + (IF s = adding THEN 1 ELSE 0) /\ inst[s].ref \in Int
      BY <1>1, <2>1, <2>2 DEF Core, TableTypes, Instance
    <3>5. inst[s].ref = Cardinality(HoldersIn(hold, s))
      BY <1>1 DEF Core, AllRefsCounted
    <3> QED
      BY <2>5, <3>2, <3>3, <3>4, <3>5
  <2>7. HeldInTable'
    BY <1>1, <2>1, <2>2, <2>5 DEF Core, HeldInTable
  <2>8. HoldsWhileBusy'
    BY <1>1, <2>1, <2>2, <2>5 DEF Busy, HoldsWhileBusy, OtherTypes
  <2>9. AddingApart'
    BY <1>1, <2>2 DEF Busy, AddingApart, OtherTypes, Threads
  <2>10. IdsInTable'
    BY <1>1, <2>1, <2>2 DEF Busy, IdsInTable, Core, TableTypes, Instance
  <2> QED
    BY <2>3, <2>4, <2>6, <2>7, <2>8, <2>9, <2>10 DEF IInv, Core, Busy
<1> QED
  BY <1>2, <1>3

(* Thread t goes to place p, and that is all.                                *)
LEMMA GotoKeeps ==
    ASSUME IInv, NEW t \in Threads, NEW p, UNCHANGED <<tableVars, hold, adding>>, Goto(t, p),
           p # "adding", pc[t] # "adding", hold[t] = NoInst <=> p \in {"idle", "tag"}
    PROVE  Core' /\ Busy'
<1>1. Update(inst) /\ hold' = hold /\ adding' = adding
  BY DEF Update, tableVars
<1>2. inst \in [Insts -> Instance] /\ pc' = [pc EXCEPT ![t] = p]
  BY DEF IInv, Core, TableTypes, Goto
<1> QED
  BY <1>1, <1>2, UpdateKeeps

(* While srecv parses a message of instance s, its queue and reference stay. *)
LEMMA ParsingHolds ==
    ASSUME IInv, NEW s \in table, Parsing(s)
    PROVE  /\ OtherTypes /\ s \in Insts /\ inst[s] \in Instance /\ inst[s].id \in Ids
           /\ hold["srecv"] # NoInst /\ pc["srecv"] = "parse" /\ "srecv" \in Threads
           /\ inst \in [Insts -> Instance] /\ hold' = hold /\ adding' = adding
  BY StratifierAssumption
     DEF IInv, Core, Busy, Parsing, TableTypes, IdsInTable, HoldsWhileBusy, Threads

(* srecv takes a message and looks its instance up.                          *)
LEMMA LookupKeeps ==
    ASSUME IInv, RecvFound \/ RecvDropped
    PROVE  IInv'
<1>1. ASSUME NEW id \in Ids, TakeRecv(id)
      PROVE  OtherTypes /\ recvq' \in Seq(Ids) /\ pc["srecv"] = "idle" /\ "srecv" \in Threads
  <2>1. OtherTypes /\ recvq # <<>> /\ recvq' = Tail(recvq) /\ pc["srecv"] = "idle"
    BY <1>1 DEF IInv, TakeRecv
  <2> QED
    BY <2>1, HeadTailProperties DEF OtherTypes, Threads
<1>2. ASSUME RecvFound
      PROVE  IInv'
  <2>1. PICK id \in Ids : \E s \in At(id) :
          TakeRecv(id) /\ TakeRef("srecv", s, inst) /\ Goto("srecv", "parse")
          /\ UNCHANGED <<adding, connq>>
    BY <1>2 DEF RecvFound
  <2>2. PICK s \in At(id) : TakeRecv(id) /\ TakeRef("srecv", s, inst)
                            /\ Goto("srecv", "parse") /\ UNCHANGED <<adding, connq>>
    BY <2>1
  <2>3. s \in table /\ s \in Insts /\ inst \in [Insts -> Instance]
    BY <2>2 DEF At, IInv, Core, TableTypes
  <2>4. OtherTypes /\ recvq' \in Seq(Ids) /\ pc["srecv"] = "idle" /\ "srecv" \in Threads
    BY <1>1, <2>2
  <2>5. pc' = [pc EXCEPT !["srecv"] = "parse"] /\ adding' = adding
    BY <2>2 DEF Goto
  <2>6. Core' /\ Busy'
    BY <2>2, <2>3, <2>4, <2>5, TakeRefKeeps
  <2>7. OtherTypes'
    BY <2>3, <2>2, <2>4, <2>5 DEF TakeRecv, TakeRef, OtherTypes, connVars, authVars
  <2> QED
    BY <2>6, <2>7 DEF IInv
<1>3. ASSUME RecvDropped
      PROVE  IInv'
  <2>1. PICK id \in Ids : TakeRecv(id) /\ ConnectorCmd("drop", id)
                          /\ UNCHANGED <<tableVars, pc, hold, adding>>
    BY <1>3 DEF RecvDropped
  <2>2. OtherTypes /\ recvq' \in Seq(Ids)
    BY <1>1, <2>1
  <2>3. connq' \in Seq(Command)
    BY <2>1, <2>2, CommandsTyped DEF OtherTypes
  <2>4. OtherTypes'
    BY <2>1, <2>2, <2>3 DEF TakeRecv, OtherTypes, connVars, authVars
  <2> QED
    BY <2>1, <2>4, FrameKeeps DEF IInv
<1> QED
  BY <1>2, <1>3

(* The messages whose handling leaves the instances alone.                   *)
LEMMA MessageKeeps ==
    ASSUME IInv, \/ RecvRejected \/ RecvSubmit \/ RecvAuth \/ RecvUnsubscribed
                 \/ RecvIgnored \/ RecvAnswered
    PROVE  IInv'
<1>1. PICK s \in table : /\ Parsing(s) /\ Goto("srecv", "done")
                         /\ UNCHANGED <<tableVars, sessions, enonce1, took>>
                         /\ \/ ConnectorCmd("drop", inst[s].id) /\ UNCHANGED <<authq, sends, shareq>>
                            \/ /\ shareq' = Append(shareq, inst[s].id)
                               /\ UNCHANGED <<authq, connq, sends>>
                            \/ /\ authq' = Append(authq, inst[s].id)
                               /\ UNCHANGED <<connq, sends, shareq>>
                            \/ /\ sends' = sends \union {inst[s].id}
                               /\ UNCHANGED <<authq, connq, shareq>>
                            \/ UNCHANGED <<authq, connq, sends, shareq>>
  BY DEF RecvRejected, RecvSubmit, RecvAuth, RecvUnsubscribed, RecvIgnored, RecvAnswered
<1>2. /\ OtherTypes /\ inst[s].id \in Ids /\ hold["srecv"] # NoInst /\ pc["srecv"] = "parse"
      /\ "srecv" \in Threads /\ hold' = hold /\ adding' = adding
  BY <1>1, ParsingHolds
<1>3. Core' /\ Busy'
  BY <1>1, <1>2, GotoKeeps
<1>4. /\ connq' \in Seq(Command) /\ authq' \in Seq(Ids) /\ shareq' \in Seq(Ids)
      /\ sends' \in SUBSET Ids
  <2>1. Append(authq, inst[s].id) \in Seq(Ids) /\ Append(shareq, inst[s].id) \in Seq(Ids)
    BY <1>2 DEF OtherTypes
  <2>2. ConnectorCmd("drop", inst[s].id) => connq' \in Seq(Command)
    BY <1>2, CommandsTyped DEF OtherTypes
  <2> QED
    BY <1>1, <1>2, <2>1, <2>2 DEF OtherTypes
<1>5. OtherTypes'
  BY <1>1, <1>2, <1>4 DEF Parsing, Goto, OtherTypes, connVars
<1> QED
  BY <1>3, <1>5 DEF IInv

(* mining.term, mining.subscribe and the release at the end.                 *)
LEMMA SessionKeeps ==
    ASSUME IInv, RecvTerm \/ RecvSubscribe \/ RecvEnonce \/ RecvDone
    PROVE  IInv'
<1>1. OtherTypes /\ inst \in [Insts -> Instance] /\ "srecv" \in Threads
  BY DEF IInv, Core, TableTypes, Threads
<1>2. ASSUME RecvTerm
      PROVE  IInv'
  <2>1. PICK s \in table : /\ Parsing(s) /\ Goto("srecv", "done")
                           /\ \/ UNCHANGED <<tableVars, sessions>>
                              \/ DropInstance(s)
                           /\ UNCHANGED <<authq, connq, sends, shareq, enonce1, took>>
    BY <1>2 DEF RecvTerm
  <2>2. /\ hold["srecv"] # NoInst /\ pc["srecv"] = "parse"
        /\ hold' = hold /\ adding' = adding /\ inst[s] \in Instance
    BY <2>1, ParsingHolds
  <2>3. Core' /\ Busy'
    <3>1. CASE UNCHANGED tableVars
      BY <1>1, <2>1, <2>2, <3>1, GotoKeeps
    <3>2. CASE DropInstance(s)
      BY <1>1, <2>1, <2>2, <3>2, DropInstanceKeeps DEF Goto
    <3> QED
      BY <2>1, <3>1, <3>2
  <2>4. sessions' \in SUBSET Nat
    BY <1>1, <2>1, <2>2 DEF DropInstance, OtherTypes, Instance
  <2>5. OtherTypes'
    BY <1>1, <2>1, <2>4 DEF Parsing, Goto, OtherTypes, connVars
  <2> QED
    BY <2>3, <2>5 DEF IInv
<1>3. ASSUME RecvSubscribe
      PROVE  IInv'
  <2>1. PICK s \in table, e \in sessions \union {0} :
               /\ Parsing(s) /\ Goto("srecv", "enonce")
               /\ took' = e /\ sessions' = sessions \ {e}
               /\ Update([inst EXCEPT ![s].useragent = TRUE, ![s].enonce = e])
               /\ UNCHANGED <<authq, connq, sends, shareq, enonce1>>
    BY <1>3 DEF RecvSubscribe
  <2>2. /\ hold["srecv"] # NoInst /\ pc["srecv"] = "parse" /\ s \in Insts /\ e \in Nat
        /\ hold' = hold /\ adding' = adding
    BY <1>1, <2>1, ParsingHolds DEF OtherTypes
  <2> DEFINE rec == [inst EXCEPT ![s].useragent = TRUE, ![s].enonce = e]
  <2>3. /\ rec \in [Insts -> Instance]
        /\ \A y \in Insts : rec[y].ref = inst[y].ref /\ rec[y].id = inst[y].id
    BY ZenonT(60), <1>1, <2>2 DEF Instance
  <2>4. Update(rec) /\ pc' = [pc EXCEPT !["srecv"] = "enonce"]
    BY <2>1 DEF Goto
  <2> HIDE DEF rec
  <2>5. Core' /\ Busy'
    BY <1>1, <2>2, <2>3, <2>4, UpdateKeeps
  <2>6. OtherTypes'
    BY <1>1, <2>1, <2>4 DEF Parsing, OtherTypes, connVars
  <2> QED
    BY <2>5, <2>6 DEF IInv
<1>4. ASSUME RecvEnonce
      PROVE  IInv'
  <2> DEFINE s == hold["srecv"]
             e == IF took # 0 THEN took ELSE new_enonce1
             rec == [inst EXCEPT ![s].enonce = e, ![s].subscribed = TRUE]
  <2>1. /\ pc["srecv"] = "enonce" /\ Update(rec) /\ Goto("srecv", "done")
        /\ hold' = hold /\ adding' = adding
    BY <1>4 DEF RecvEnonce
  <2>2. s \in table /\ s \in Insts /\ inst[s].id \in Ids /\ s # NoInst
    BY <1>1, <2>1, BusyHolds, StratifierAssumption
  <2>3. e \in Nat
    BY <1>1 DEF OtherTypes, new_enonce1
  <2>4. /\ rec \in [Insts -> Instance]
        /\ \A y \in Insts : rec[y].ref = inst[y].ref /\ rec[y].id = inst[y].id
    <3> HIDE DEF e, s
    <3> QED
      BY ZenonT(60), <1>1, <2>2, <2>3 DEF Instance
  <2>5. OtherTypes'
    BY <1>1, <1>4, <2>1, <2>2, <2>3 DEF RecvEnonce, Goto, OtherTypes, connVars, authVars
  <2> HIDE DEF rec, e
  <2>6. Core' /\ Busy'
    BY <1>1, <2>1, <2>2, <2>4, UpdateKeeps DEF Goto
  <2> QED
    BY <2>5, <2>6 DEF IInv
<1>5. ASSUME RecvDone
      PROVE  IInv'
  <2>1. /\ pc["srecv"] = "done" /\ DecInstanceRef("srecv") /\ Goto("srecv", "idle")
        /\ adding' = adding
    BY <1>5 DEF RecvDone
  <2>2. Core' /\ Busy'
    BY <1>1, <2>1, DecInstanceRefKeeps DEF Goto
  <2>3. OtherTypes'
    BY <1>1, <1>5 DEF RecvDone, DecInstanceRef, Goto, OtherTypes, connVars, authVars
  <2> QED
    BY <2>2, <2>3 DEF IInv
<1> QED
  BY <1>2, <1>3, <1>4, <1>5

(* The authoriser.                                                           *)
LEMMA AuthKeeps ==
    ASSUME IInv, sauth
    PROVE  IInv'
<1>1. OtherTypes /\ inst \in [Insts -> Instance] /\ "sauth" \in Threads
  BY DEF IInv, Core, TableTypes, Threads
<1>2. ASSUME AuthTake
      PROVE  IInv'
  <2>1. authq' \in Seq(Ids) /\ pc["sauth"] = "idle" /\ adding' = adding
    BY <1>1, <1>2, HeadTailProperties DEF AuthTake, OtherTypes
  <2>2. CASE UNCHANGED <<tableVars, pc, hold>>
    <3>1. OtherTypes'
      BY <1>1, <1>2, <2>1, <2>2 DEF AuthTake, OtherTypes, connVars
    <3> QED
      BY <2>1, <2>2, <3>1, FrameKeeps DEF IInv
  <2>3. CASE \E s \in table : /\ TakeRef("sauth", s, [inst EXCEPT ![s].authorising = TRUE])
                              /\ Goto("sauth", "auth")
    <3>1. PICK s \in table : /\ TakeRef("sauth", s, [inst EXCEPT ![s].authorising = TRUE])
                             /\ Goto("sauth", "auth")
      BY <2>3
    <3> DEFINE rec == [inst EXCEPT ![s].authorising = TRUE]
    <3>2. s \in Insts
      BY DEF IInv, Core, TableTypes
    <3>3. /\ rec \in [Insts -> Instance]
          /\ \A y \in Insts : rec[y].ref = inst[y].ref /\ rec[y].id = inst[y].id
      BY <1>1, <3>2 DEF Instance
    <3>4. TakeRef("sauth", s, rec) /\ pc' = [pc EXCEPT !["sauth"] = "auth"]
      BY <3>1 DEF Goto
    <3> HIDE DEF rec
    <3>5. Core' /\ Busy'
      BY <1>1, <2>1, <3>3, <3>4, TakeRefKeeps
    <3>6. OtherTypes'
      BY <1>1, <1>2, <2>1, <3>2, <3>4 DEF AuthTake, TakeRef, OtherTypes, connVars
    <3> QED
      BY <3>5, <3>6 DEF IInv
  <2> QED
    BY <1>2, <2>2, <2>3 DEF AuthTake, At
<1>3. ASSUME AuthError
      PROVE  IInv'
  <2>1. /\ pc["sauth"] = "auth" /\ Goto("sauth", "done")
        /\ UNCHANGED <<tableVars, hold, adding>>
    BY <1>3 DEF AuthError, AuthUnchanged
  <2>2. inst[hold["sauth"]].id \in Ids /\ hold["sauth"] # NoInst
    BY <1>1, <2>1, BusyHolds, StratifierAssumption
  <2>3. OtherTypes'
    BY <1>1, <1>3, <2>2 DEF AuthError, AuthUnchanged, Goto, OtherTypes, connVars
  <2> QED
    BY <1>1, <2>1, <2>2, <2>3, GotoKeeps DEF IInv
<1>4. ASSUME AuthLink
      PROVE  IInv'
  <2> DEFINE s == hold["sauth"]
  <2>1. /\ pc["sauth"] = "auth" /\ pc' = [pc EXCEPT !["sauth"] = "linked"]
        /\ hold' = hold /\ adding' = adding /\ table' = table /\ before' = before
        /\ todo' = todo /\ nworkers' = nworkers + 1
    BY <1>4 DEF AuthLink, AuthUnchanged, Goto
  <2>2. s \in table /\ s \in Insts
    BY <1>1, <2>1, BusyHolds
  <2>3. PICK u \in Users : /\ inst' = [inst EXCEPT ![s].user = u]
                           /\ workers' = [workers EXCEPT ![u] = @ + 1]
                           /\ nusers' = nusers + (IF workers[u] = 0 THEN 1 ELSE 0)
    BY <1>4 DEF AuthLink
  <2>4. TableTypes'
    BY <2>1, <2>2, <2>3 DEF IInv, Core, TableTypes, Instance
  <2>5. \A y \in Insts : inst'[y].ref = inst[y].ref /\ inst'[y].id = inst[y].id
                         /\ inst[y].ref \in Int
    BY <1>1, <2>2, <2>3 DEF Instance
  <2> HIDE DEF s
  <2>6. hold' = [hold EXCEPT !["sauth"] = s] /\ s \in table' /\ s # NoInst
        /\ \A y \in Insts : inst'[y].ref = inst[y].ref
             - (IF y = hold["sauth"] THEN 1 ELSE 0) + (IF y = s THEN 1 ELSE 0)
    BY <1>1, <2>1, <2>2, <2>5, StratifierAssumption DEF s, OtherTypes
  <2>7. Core' /\ Busy'
    <3>1. /\ s \in table \union {NoInst} /\ table' \subseteq table /\ pc["sauth"] # "adding"
          /\ (s = NoInst <=> "linked" \in {"idle", "tag"})
          /\ \A y \in table \ table' : inst'[y].ref = 0
          /\ adding' = adding /\ pc' = [pc EXCEPT !["sauth"] = "linked"]
      BY <2>1, <2>2, <2>6
    <3> QED
      BY ZenonT(60), <1>1, <2>4, <2>5, <2>6, <3>1, StepKeeps
  <2>8. OtherTypes'
    BY <1>1, <1>4, <2>1 DEF AuthLink, AuthUnchanged, OtherTypes, connVars
  <2> QED
    BY <2>7, <2>8 DEF IInv
<1>5. ASSUME AuthThrottled \/ AuthSucceed \/ AuthFail
      PROVE  IInv'
  <2>1. PICK s \in table :
          /\ \E u : Deciding(s, u)
          /\ \/ Update([inst EXCEPT ![s].dropped = TRUE])
             \/ Update([inst EXCEPT ![s].authorised = TRUE, ![s].authorising = FALSE])
             \/ Update([inst EXCEPT ![s].reject = TRUE, ![s].authorising = FALSE])
          /\ failed' \in SUBSET Users
    <3>1. CASE AuthThrottled
      BY <1>1, <3>1 DEF AuthThrottled, OtherTypes
    <3>2. CASE AuthSucceed
      BY <1>1, <3>2 DEF AuthSucceed, OtherTypes
    <3>3. CASE AuthFail
      BY <1>1, <3>3 DEF AuthFail, OtherTypes
    <3> QED
      BY <1>5, <3>1, <3>2, <3>3
  <2>2. /\ pc["sauth"] = "linked" /\ s = hold["sauth"] /\ hold' = hold /\ adding' = adding
        /\ pc' = [pc EXCEPT !["sauth"] = "done"] /\ sends' = sends \union {inst[s].id}
    BY <2>1 DEF Deciding, Goto, AuthUnchanged
  <2>3. s \in Insts /\ inst[s].id \in Ids /\ s # NoInst
    BY <1>1, <2>2, BusyHolds, StratifierAssumption
  <2>4. PICK rec \in [Insts -> Instance] :
          /\ Update(rec)
          /\ \A y \in Insts : rec[y].ref = inst[y].ref /\ rec[y].id = inst[y].id
    <3> DEFINE tagged == [inst EXCEPT ![s].dropped = TRUE]
               allowed == [inst EXCEPT ![s].authorised = TRUE, ![s].authorising = FALSE]
               refused == [inst EXCEPT ![s].reject = TRUE, ![s].authorising = FALSE]
    <3>1. /\ tagged \in [Insts -> Instance]
          /\ \A y \in Insts : tagged[y].ref = inst[y].ref /\ tagged[y].id = inst[y].id
      BY <1>1, <2>3 DEF Instance
    <3>2. /\ allowed \in [Insts -> Instance]
          /\ \A y \in Insts : allowed[y].ref = inst[y].ref /\ allowed[y].id = inst[y].id
      BY ZenonT(60), <1>1, <2>3 DEF Instance
    <3>3. /\ refused \in [Insts -> Instance]
          /\ \A y \in Insts : refused[y].ref = inst[y].ref /\ refused[y].id = inst[y].id
      BY ZenonT(60), <1>1, <2>3 DEF Instance
    <3>4. Update(tagged) \/ Update(allowed) \/ Update(refused)
      BY <2>1
    <3> HIDE DEF tagged, allowed, refused
    <3> QED
      BY <3>1, <3>2, <3>3, <3>4
  <2>5. Core' /\ Busy'
    BY <1>1, <2>2, <2>3, <2>4, UpdateKeeps
  <2>6. OtherTypes'
    BY <1>1, <2>1, <2>2, <2>3 DEF Deciding, AuthUnchanged, OtherTypes, connVars
  <2> QED
    BY <2>5, <2>6 DEF IInv
<1>6. ASSUME AuthDone
      PROVE  IInv'
  <2>1. /\ pc["sauth"] = "done" /\ DecInstanceRef("sauth") /\ Goto("sauth", "idle")
        /\ adding' = adding
    BY <1>6 DEF AuthDone, AuthUnchanged
  <2>2. Core' /\ Busy'
    BY <1>1, <2>1, DecInstanceRefKeeps DEF Goto
  <2>3. OtherTypes'
    BY <1>1, <1>6 DEF AuthDone, AuthUnchanged, DecInstanceRef, Goto, OtherTypes, connVars
  <2> QED
    BY <2>2, <2>3 DEF IInv
<1> QED
  BY <1>2, <1>3, <1>4, <1>5, <1>6 DEF sauth

(* The share processor.                                                      *)
LEMMA ShareKeeps ==
    ASSUME IInv, sshare
    PROVE  IInv'
<1>1. OtherTypes /\ inst \in [Insts -> Instance] /\ "sshare" \in Threads
  BY DEF IInv, Core, TableTypes, Threads
<1>2. ASSUME ShareTake
      PROVE  IInv'
  <2>1. shareq' \in Seq(Ids) /\ pc["sshare"] = "idle" /\ adding' = adding
    BY <1>1, <1>2, HeadTailProperties DEF ShareTake, OtherTypes
  <2>2. CASE UNCHANGED <<tableVars, pc, hold>>
    <3>1. OtherTypes'
      BY <1>1, <1>2, <2>1, <2>2 DEF ShareTake, OtherTypes, connVars, authVars
    <3> QED
      BY <2>1, <2>2, <3>1, FrameKeeps DEF IInv
  <2>3. CASE \E s \in table : TakeRef("sshare", s, inst) /\ Goto("sshare", "parse")
    <3>1. PICK s \in table : TakeRef("sshare", s, inst) /\ Goto("sshare", "parse")
      BY <2>3
    <3>2. s \in Insts
      BY DEF IInv, Core, TableTypes
    <3>3. Core' /\ Busy'
      BY <1>1, <2>1, <3>1, TakeRefKeeps DEF Goto
    <3>4. OtherTypes'
      BY <1>1, <1>2, <2>1, <3>1, <3>2
         DEF ShareTake, TakeRef, Goto, OtherTypes, connVars, authVars
    <3> QED
      BY <3>3, <3>4 DEF IInv
  <2> QED
    BY <1>2, <2>2, <2>3 DEF ShareTake, Findable, At
<1>3. ASSUME ShareSubmit
      PROVE  IInv'
  <2> DEFINE s == hold["sshare"]
  <2>1. /\ pc["sshare"] = "parse" /\ Goto("sshare", "done")
        /\ hold' = hold /\ adding' = adding
    BY <1>3 DEF ShareSubmit
  <2>2. s \in Insts /\ inst[s].id \in Ids /\ s # NoInst /\ inst[s] \in Instance
    BY <1>1, <2>1, BusyHolds, StratifierAssumption
  <2>3. sends' \in SUBSET Ids
    BY <1>1, <1>3, <2>2 DEF ShareSubmit, OtherTypes
  <2>4. OtherTypes'
    BY <1>1, <1>3, <2>1, <2>3 DEF ShareSubmit, Goto, OtherTypes, connVars, authVars
  <2>5. CASE UNCHANGED tableVars
    BY <1>1, <2>1, <2>2, <2>4, <2>5, GotoKeeps DEF IInv
  <2>6. CASE \E r \in {inst[s].reject, TRUE} : Update([inst EXCEPT ![s].reject = r])
    <3> HIDE DEF s
    <3>1. PICK r \in {inst[s].reject, TRUE} : Update([inst EXCEPT ![s].reject = r])
      BY <2>6
    <3> DEFINE rec == [inst EXCEPT ![s].reject = r]
    <3>2. r \in BOOLEAN
      BY <2>2, <3>1 DEF Instance
    <3>3. /\ rec \in [Insts -> Instance]
          /\ \A y \in Insts : rec[y].ref = inst[y].ref /\ rec[y].id = inst[y].id
      BY <1>1, <2>2, <3>2 DEF Instance
    <3>4. Update(rec)
      BY <3>1
    <3> HIDE DEF rec
    <3>5. Core' /\ Busy'
      BY <1>1, <2>1, <2>2, <3>3, <3>4, UpdateKeeps DEF s, Goto
    <3> QED
      BY <2>4, <3>5 DEF IInv
  <2> QED
    BY <1>3, <2>5, <2>6 DEF ShareSubmit
<1>4. ASSUME ShareDone
      PROVE  IInv'
  <2>1. /\ pc["sshare"] = "done" /\ DecInstanceRef("sshare") /\ Goto("sshare", "idle")
        /\ adding' = adding
    BY <1>4 DEF ShareDone
  <2>2. Core' /\ Busy'
    BY <1>1, <2>1, DecInstanceRefKeeps DEF Goto
  <2>3. OtherTypes'
    BY <1>1, <1>4 DEF ShareDone, DecInstanceRef, Goto, OtherTypes, connVars, authVars
  <2> QED
    BY <2>2, <2>3 DEF IInv
<1> QED
  BY <1>2, <1>3, <1>4 DEF sshare

(* The command loop, on behalf of the connector.                             *)
LEMMA LoopKeeps ==
    ASSUME IInv, sloop
    PROVE  IInv'
<1>1. OtherTypes /\ inst \in [Insts -> Instance] /\ "sloop" \in Threads
  BY DEF IInv, Core, TableTypes, Threads
<1>2. ASSUME LoopDrop
      PROVE  IInv'
  <2>1. /\ loopq' \in Seq(Ids) /\ pc["sloop"] = "idle"
        /\ pc' = pc /\ hold' = hold /\ adding' = adding
    BY <1>1, <1>2, HeadTailProperties DEF LoopDrop, LoopUnchanged, OtherTypes
  <2>2. sessions' \in SUBSET Nat
    <3>1. CASE sessions' = sessions
      BY <1>1, <3>1 DEF OtherTypes
    <3>2. CASE \E s \in table : DropInstance(s)
      <4>1. PICK s \in table : DropInstance(s)
        BY <3>2
      <4>2. inst[s] \in Instance
        BY <1>1 DEF IInv, Core, TableTypes
      <4> QED
        BY <1>1, <4>1, <4>2 DEF DropInstance, OtherTypes, Instance
    <3> QED
      BY <1>2, <3>1, <3>2 DEF LoopDrop, Findable, At
  <2>3. OtherTypes'
    BY <1>1, <1>2, <2>1, <2>2 DEF LoopDrop, LoopUnchanged, OtherTypes, authVars
  <2>4. CASE UNCHANGED tableVars
    BY <2>1, <2>3, <2>4, FrameKeeps DEF IInv
  <2>5. CASE \E s \in table : DropInstance(s)
    <3>1. PICK s \in table : DropInstance(s)
      BY <2>5
    <3>2. pc' = [pc EXCEPT !["sloop"] = "idle"] /\ hold["sloop"] = NoInst
      BY <1>1, <2>1 DEF OtherTypes, IInv, Busy, HoldsWhileBusy
    <3>3. Core' /\ Busy'
      BY <1>1, <2>1, <3>1, <3>2, DropInstanceKeeps
    <3> QED
      BY <2>3, <3>3 DEF IInv
  <2> QED
    BY <1>2, <2>4, <2>5 DEF LoopDrop, Findable, At
<1>3. ASSUME LoopTag
      PROVE  IInv'
  <2> DEFINE rec == [s \in Insts |-> [inst[s] EXCEPT !.dropped = @ \/ s \in table]]
  <2>1. /\ Update(rec) /\ pc["sloop"] = "tag" /\ pc' = [pc EXCEPT !["sloop"] = "idle"]
        /\ hold' = hold /\ adding' = adding
    BY <1>3 DEF LoopTag, LoopUnchanged, Goto
  <2>2. /\ rec \in [Insts -> Instance]
        /\ \A y \in Insts : rec[y].ref = inst[y].ref /\ rec[y].id = inst[y].id
    BY <1>1 DEF Instance
  <2> HIDE DEF rec
  <2>3. hold["sloop"] = NoInst
    BY <1>1, <2>1 DEF IInv, Busy, HoldsWhileBusy
  <2>4. Core' /\ Busy'
    BY <1>1, <2>1, <2>2, <2>3, UpdateKeeps
  <2>5. OtherTypes'
    BY <1>1, <1>3, <2>1 DEF LoopTag, LoopUnchanged, OtherTypes, authVars
  <2> QED
    BY <2>4, <2>5 DEF IInv
<1>4. ASSUME LoopPutClient
      PROVE  IInv'
  <2>1. /\ pc["sloop"] = "done" /\ DecInstanceRef("sloop") /\ Goto("sloop", "idle")
        /\ adding' = adding
    BY <1>4 DEF LoopPutClient, LoopUnchanged
  <2>2. Core' /\ Busy'
    BY <1>1, <2>1, DecInstanceRefKeeps DEF Goto
  <2>3. OtherTypes'
    BY <1>1, <1>4 DEF LoopPutClient, LoopUnchanged, DecInstanceRef, Goto, OtherTypes, authVars
  <2> QED
    BY <2>2, <2>3 DEF IInv
<1> QED
  BY <1>2, <1>3, <1>4 DEF sloop

(* The command loop, on behalf of the operator.                              *)
LEMMA OperatorKeeps ==
    ASSUME IInv, operator
    PROVE  IInv'
<1>1. /\ OtherTypes /\ inst \in [Insts -> Instance] /\ table \subseteq Insts
      /\ "sloop" \in Threads /\ \A s \in table : inst[s].id \in Ids
  BY DEF IInv, Core, Busy, TableTypes, IdsInTable, Threads
<1>2. ASSUME LoopDropAll
      PROVE  IInv'
  <2> DEFINE S == {s \in table : inst[s].ref = 0}
             rec == [s \in Insts |-> [inst[s] EXCEPT !.dropped = @ \/ s \in table]]
             drops == [cmd : {"drop"}, id : {inst[s].id : s \in table}]
  <2>1. /\ pc["sloop"] = "idle" /\ KillInstances(rec, S) /\ nworkers' = 0 /\ nusers' = 0
        /\ pc' = pc /\ hold' = hold /\ adding' = adding
    BY <1>2 DEF LoopDropAll, Admin, LoopUnchanged
  <2>2. hold["sloop"] = NoInst
    BY <1>1, <2>1 DEF IInv, Busy, HoldsWhileBusy
  <2>3. connq' \in Seq(Command)
    <3>1. drops \subseteq Command
      BY <1>1 DEF Command
    <3>2. PICK q \in [1 .. Cardinality(table) -> drops] : connq' = connq \o q
      BY <1>2 DEF LoopDropAll
    <3>3. Cardinality(table) \in Nat
      BY <1>1, StratifierAssumption, FS_Subset, FS_CardinalityType
    <3> HIDE DEF drops
    <3>4. q \in Seq(Command)
      BY <3>1, <3>2, <3>3
    <3> QED
      BY <1>1, <3>2, <3>4, ConcatProperties DEF OtherTypes
  <2>4. OtherTypes'
    BY <1>1, <1>2, <2>1, <2>3 DEF LoopDropAll, Admin, LoopUnchanged, OtherTypes, authVars
  <2>5. /\ rec \in [Insts -> Instance] /\ S \subseteq Insts
        /\ \A y \in Insts : rec[y].ref = inst[y].ref /\ rec[y].id = inst[y].id
        /\ \A y \in S : inst[y].ref = 0
    BY <1>1 DEF Instance
  <2>6. \A y \in S : y # adding
    BY <1>1, StratifierAssumption DEF IInv, Busy, AddingApart
  <2> HIDE DEF rec, S, drops
  <2>7. TableTypes'
    BY <2>1, <2>5, KillTyped DEF IInv, Core
  <2>8. /\ table' = table \ S
        /\ \A y \in Insts : inst'[y] = IF y \in S THEN Cleared ELSE rec[y]
    BY <2>1 DEF KillInstances
  <2>9. /\ \A y \in Insts : inst'[y].ref = inst[y].ref
             - (IF y = hold["sloop"] THEN 1 ELSE 0) + (IF y = NoInst THEN 1 ELSE 0)
        /\ \A y \in table \ table' : inst'[y].ref = 0
        /\ \A y \in Insts : y \in table' \/ y = adding => inst'[y].id = inst[y].id
    BY <1>1, <2>2, <2>5, <2>6, <2>8, StratifierAssumption DEF Cleared, Instance
  <2>10. /\ hold' = [hold EXCEPT !["sloop"] = NoInst] /\ pc' = [pc EXCEPT !["sloop"] = "idle"]
         /\ adding' = adding /\ table' \subseteq table /\ pc["sloop"] # "adding"
         /\ NoInst \in table \union {NoInst}
    BY <1>1, <2>1, <2>2, <2>8 DEF OtherTypes
  <2>11. Core' /\ Busy'
    BY <1>1, <2>7, <2>9, <2>10, StepKeeps
  <2> QED
    BY <2>4, <2>11 DEF IInv
<1>3. ASSUME LoopReconnect
      PROVE  IInv'
  <2>1. /\ pc["sloop"] = "idle" /\ Goto("sloop", "tag")
        /\ UNCHANGED <<tableVars, hold, adding>>
    BY <1>3 DEF LoopReconnect, Admin, LoopUnchanged
  <2>2. hold["sloop"] = NoInst
    BY <1>1, <2>1 DEF IInv, Busy, HoldsWhileBusy
  <2>3. OtherTypes'
    BY <1>1, <1>3 DEF LoopReconnect, Admin, LoopUnchanged, Goto, OtherTypes, authVars
  <2> QED
    BY <1>1, <2>1, <2>2, <2>3, GotoKeeps DEF IInv
<1>4. ASSUME LoopGetClient
      PROVE  IInv'
  <2>1. /\ pc["sloop"] = "idle" /\ Goto("sloop", "done") /\ adding' = adding
        /\ \E s \in table : TakeRef("sloop", s, inst)
    BY <1>4 DEF LoopGetClient, Admin, LoopUnchanged, Findable, At
  <2>2. PICK s \in table : TakeRef("sloop", s, inst)
    BY <2>1
  <2>3. Core' /\ Busy'
    BY <1>1, <2>1, <2>2, TakeRefKeeps DEF Goto
  <2>4. OtherTypes'
    BY <1>1, <1>4, <2>1, <2>2
       DEF LoopGetClient, Admin, LoopUnchanged, TakeRef, Goto, OtherTypes, authVars
  <2> QED
    BY <2>3, <2>4 DEF IInv
<1> QED
  BY <1>2, <1>3, <1>4 DEF operator

(* The statistics walk.                                                      *)
LEMMA StatsKeeps ==
    ASSUME IInv, stats
    PROVE  IInv'
<1>1. /\ OtherTypes /\ inst \in [Insts -> Instance] /\ table \subseteq Insts
      /\ "stats" \in Threads /\ todo \in [{"stats", "bcast"} -> SUBSET Insts]
  BY DEF IInv, Core, TableTypes, Threads
<1>2. ASSUME StatsStart \/ StatsNext
      PROVE  IInv'
  <2>1. PICK x \in table \union {NoInst} :
          /\ MoveOn("stats", x) /\ connq' = connq /\ StatsUnchanged
          /\ pc["stats"] # "adding"
    BY <1>2 DEF StatsStart, StatsNext
  <2>2. todo' \in [{"stats", "bcast"} -> SUBSET Insts] /\ adding' = adding
    BY <1>1, <1>2, <2>1 DEF StatsStart, StatsNext, StatsUnchanged
  <2>3. Core' /\ Busy'
    BY <1>1, <2>1, <2>2, MoveOnKeeps
  <2>4. OtherTypes'
    BY <1>1, <2>1 DEF MoveOn, Goto, StatsUnchanged, OtherTypes, connVars, authVars
  <2> QED
    BY <2>3, <2>4 DEF IInv
<1>3. ASSUME StatsVisit
      PROVE  IInv'
  <2> DEFINE s == hold["stats"]
             rec == [inst EXCEPT ![s].dropped = TRUE]
  <2>1. /\ pc["stats"] = "visit" /\ Goto("stats", "done") /\ hold' = hold /\ adding' = adding
    BY <1>3 DEF StatsVisit, StatsUnchanged
  <2>2. s \in Insts /\ inst[s].id \in Ids /\ s # NoInst
    BY <1>1, <2>1, BusyHolds, StratifierAssumption
  <2>3. /\ rec \in [Insts -> Instance]
        /\ \A y \in Insts : rec[y].ref = inst[y].ref /\ rec[y].id = inst[y].id
    <3> HIDE DEF s
    <3> QED
      BY ZenonT(60), <1>1, <2>2 DEF Instance
  <2>4. /\ UNCHANGED tableVars \/ Update(rec)
        /\ \/ connq' = connq
           \/ \E c \in {"drop", "test"} : ConnectorCmd(c, inst[s].id)
    BY <1>3 DEF StatsVisit
  <2> HIDE DEF rec, s
  <2>5. Core' /\ Busy'
    <3>1. CASE UNCHANGED tableVars
      BY <1>1, <2>1, <2>2, <3>1, GotoKeeps DEF s
    <3>2. CASE Update(rec)
      BY <1>1, <2>1, <2>2, <2>3, <3>2, UpdateKeeps DEF s, Goto
    <3> QED
      BY <2>4, <3>1, <3>2
  <2>6. connq' \in Seq(Command)
    BY <1>1, <2>2, <2>4, CommandsTyped DEF OtherTypes
  <2>7. OtherTypes'
    BY <1>1, <1>3, <2>6 DEF StatsVisit, StatsUnchanged, Goto, OtherTypes, connVars, authVars
  <2> QED
    BY <2>5, <2>7 DEF IInv
<1> QED
  BY <1>2, <1>3 DEF stats

(* The broadcasts.                                                           *)
LEMMA BroadcastKeeps ==
    ASSUME IInv, bcast
    PROVE  IInv'
<1>1. /\ OtherTypes /\ inst \in [Insts -> Instance] /\ table \subseteq Insts
      /\ "bcast" \in Threads /\ todo \in [{"stats", "bcast"} -> SUBSET Insts]
      /\ \A s \in table : inst[s].id \in Ids
  BY DEF IInv, Core, Busy, TableTypes, IdsInTable, Threads
<1>2. ASSUME Broadcast
      PROVE  IInv'
  <2>1. sends' \in SUBSET Ids /\ UNCHANGED <<tableVars, pc, hold, tmp>> /\ BcastUnchanged
    BY <1>1, <1>2 DEF Broadcast, OtherTypes
  <2>2. OtherTypes'
    BY <1>1, <2>1 DEF BcastUnchanged, OtherTypes, connVars, authVars
  <2> QED
    BY <2>1, <2>2, FrameKeeps DEF BcastUnchanged, IInv
<1>3. ASSUME BcastStart \/ BcastNext
      PROVE  IInv'
  <2>1. PICK x \in table \union {NoInst} :
          /\ MoveOn("bcast", x) /\ BcastUnchanged /\ pc["bcast"] # "adding"
          /\ tmp' \in table \union {NoInst}
    BY <1>3 DEF BcastStart, BcastNext, BcastMove
  <2>2. todo' \in [{"stats", "bcast"} -> SUBSET Insts] /\ adding' = adding
    BY <1>1, <1>3, <2>1 DEF BcastStart, BcastNext, BcastUnchanged, Linked
  <2>3. sends' \in SUBSET Ids
    <3>1. CASE BcastStart
      BY <1>1, <3>1 DEF BcastStart, OtherTypes
    <3>2. CASE BcastNext
      <4>1. inst[hold["bcast"]].id \in Ids
        BY <1>1, <3>2, BusyHolds DEF BcastNext
      <4> QED
        BY <1>1, <3>2, <4>1 DEF BcastNext, OtherTypes
    <3> QED
      BY <1>3, <3>1, <3>2
  <2>4. Core' /\ Busy'
    BY <1>1, <2>1, <2>2, MoveOnKeeps
  <2>5. OtherTypes'
    BY <1>1, <2>1, <2>3 DEF MoveOn, Goto, BcastUnchanged, OtherTypes, connVars, authVars
  <2> QED
    BY <2>4, <2>5 DEF IInv
<1> QED
  BY <1>2, <1>3 DEF bcast

-----------------------------------------------------------------------------
(* The theorems.                                                             *)

(* The stratifier starts with no instances, and no thread at work.           *)
LEMMA InitIInv == Init => IInv
<1> SUFFICES ASSUME Init
             PROVE  IInv
  OBVIOUS
<1>1. OtherTypes
  BY DEF Init, OtherTypes
<1>2. TableTypes
  BY ClearedTyped DEF Init, TableTypes
<1>3. AllRefsCounted
  <2> SUFFICES ASSUME NEW s \in Insts
               PROVE  inst[s].ref = Cardinality(HoldersIn(hold, s))
    BY DEF AllRefsCounted
  <2>1. HoldersIn(hold, s) = {}
    BY StratifierAssumption DEF Init, HoldersIn
  <2>2. inst[s].ref = 0
    BY DEF Init, Cleared
  <2> QED
    BY <2>1, <2>2, FS_EmptySet, Zenon
<1>4. HeldInTable /\ Busy
  BY DEF Init, HeldInTable, Busy, HoldsWhileBusy, AddingApart, IdsInTable, Threads
<1> QED
  BY <1>1, <1>2, <1>3, <1>4 DEF IInv, Core

(* Every step of every thread keeps the invariant.                           *)
LEMMA NextKeepsIInv == IInv /\ [Next]_vars => IInv'
<1> SUFFICES ASSUME IInv, [Next]_vars
             PROVE  IInv'
  OBVIOUS
<1>1. CASE miners \/ connector
  BY <1>1, ConnectorKeeps
<1>2. CASE srecv
  BY <1>2, RecruitKeeps, LookupKeeps, MessageKeeps, SessionKeeps DEF srecv
<1>3. CASE sauth
  BY <1>3, AuthKeeps
<1>4. CASE sshare
  BY <1>4, ShareKeeps
<1>5. CASE sloop \/ operator
  BY <1>5, LoopKeeps, OperatorKeeps
<1>6. CASE stats \/ bcast
  BY <1>6, StatsKeeps, BroadcastKeeps
<1>7. CASE Quiescent \/ UNCHANGED vars
  <2>1. UNCHANGED vars
    BY <1>7 DEF Quiescent
  <2>2. OtherTypes'
    BY <2>1 DEF IInv, vars, OtherTypes
  <2>3. UNCHANGED <<tableVars, pc, hold, adding>>
    BY <2>1 DEF vars, tableVars
  <2> QED
    BY <2>2, <2>3, FrameKeeps DEF IInv
<1> QED
  BY <1>1, <1>2, <1>3, <1>4, <1>5, <1>6, <1>7 DEF Next

(* The invariant holds in every reachable state.                             *)
THEOREM Invariance == Spec => []IInv
  BY InitIInv, NextKeepsIInv, PTL DEF Spec

(* The fields of every record keep to their types, through every handler.    *)
THEOREM TypeCorrect == Spec => []TypeOK
<1>1. IInv => TypeOK
  BY DEF IInv, Core, OtherTypes, TableTypes, TypeOK
<1> QED
  BY <1>1, Invariance, PTL

(* stratum_instance.ref is the number of threads that use the instance       *)
(* outside instance_lock, in every interleaving of the lookups, the walks    *)
(* and the releases.                                                         *)
THEOREM ReferencesCounted == Spec => []RefsCounted
<1>1. IInv => RefsCounted
  <2> SUFFICES ASSUME IInv, NEW s \in table
               PROVE  inst[s].ref = Cardinality(HoldersOf(s))
    BY DEF RefsCounted
  <2>1. HoldersOf(s) = HoldersIn(hold, s)
    BY DEF HoldersOf, HoldersIn
  <2>2. inst[s].ref = Cardinality(HoldersIn(hold, s))
    BY DEF IInv, Core, TableTypes, AllRefsCounted
  <2> QED
    BY <2>1, <2>2, Zenon
<1> QED
  BY <1>1, Invariance, PTL

(* drop_client, drop_allclients and _dec_instance_ref never recycle an       *)
(* instance some thread still uses.                                          *)
THEOREM NobodyLosesItsInstance == Spec => []HeldInTable
<1>1. IInv => HeldInTable
  BY DEF IInv, Core
<1> QED
  BY <1>1, Invariance, PTL

-----------------------------------------------------------------------------
(* The steps, sorted by what they do to the table.                           *)

\* rec is inst with perhaps more instances tagged, and other counts: ids, users
\* and nonces are the same, and out of solo mode whoever has begun to authorise
\* has so still.
Tagged(rec) ==
    \A s \in Insts :
      /\ rec[s].id = inst[s].id
      /\ rec[s].user = inst[s].user /\ rec[s].enonce = inst[s].enonce
      /\ inst[s].dropped => rec[s].dropped
      /\ ~ BtcSolo /\ (inst[s].authorising \/ inst[s].authorised)
           => rec[s].authorising \/ rec[s].authorised
      /\ s \notin table => rec[s] = inst[s]

\* Nobody comes to a place where something is asked of the instance it holds.
Onward ==
    /\ pc'["srecv"] = "enonce" => pc["srecv"] = "enonce" /\ hold'["srecv"] = hold["srecv"]
    /\ pc'["sauth"] = "auth" => pc["sauth"] = "auth" /\ hold'["sauth"] = hold["sauth"]

Handlers == {"srecv", "sauth", "sshare", "sloop"}

TagStep ==
    \E rec \in [Insts -> Instance] :
      /\ Update(rec) /\ Tagged(rec)
      /\ UNCHANGED <<hold, sessions>> /\ Onward

TakeStep ==
    \E t \in Handlers, s \in table, rec \in [Insts -> Instance] :
      /\ TakeRef(t, s, rec) /\ Tagged(rec)
      /\ \A y \in Insts : rec[y].dropped = inst[y].dropped
      /\ ~ inst[s].dropped /\ hold[t] = NoInst /\ sessions' = sessions
      /\ pc'["srecv"] = "enonce" => pc["srecv"] = "enonce" /\ t # "srecv"
      /\ pc'["sauth"] = "auth" =>
           IF t = "sauth" THEN ~ inst[s].authorising /\ ~ inst[s].authorised /\ rec[s].authorising
           ELSE pc["sauth"] = "auth"

ReleaseStep ==
    \E t \in Handlers : DecInstanceRef(t) /\ hold[t] # NoInst /\ sessions' = sessions /\ Onward

DropStep ==
    \E s \in table : DropInstance(s) /\ ~ inst[s].dropped /\ hold' = hold /\ Onward

WalkStep ==
    \E t \in {"stats", "bcast"}, x \in table \union {NoInst} :
      /\ MoveOn(t, x) /\ sessions' = sessions /\ Onward
      /\ IF t = "stats" THEN StatsStart \/ StatsNext ELSE todo'["stats"] = todo["stats"]

Ordinary ==
    /\ UNCHANGED <<enonce1, took, adding>>
    /\ TagStep \/ TakeStep \/ ReleaseStep \/ DropStep \/ WalkStep

(* Thread t goes to a place where nothing is asked of it.                    *)
LEMMA GoesOn ==
    ASSUME IInv, NEW t \in Threads, NEW p, p \notin {"enonce", "auth"},
           pc' = [pc EXCEPT ![t] = p], \A u \in Threads \ {t} : hold'[u] = hold[u]
    PROVE  Onward
<1>1. pc \in [Threads -> {"idle", "adding", "parse", "enonce", "auth", "linked",
                          "tag", "visit", "done"}]
  BY DEF IInv, OtherTypes
<1>2. \A u \in Threads : pc'[u] = IF u = t THEN p ELSE pc[u]
  BY <1>1
<1>3. "srecv" \in Threads /\ "sauth" \in Threads
  BY DEF Threads
<1> QED
  BY <1>2, <1>3 DEF Onward

(* A step that leaves the table alone is one that tags nobody.               *)
LEMMA Untouched ==
    ASSUME IInv, UNCHANGED <<tableVars, hold, sessions>>, Onward
    PROVE  TagStep
<1>1. inst \in [Insts -> Instance] /\ Update(inst)
  BY DEF IInv, Core, TableTypes, Update, tableVars
<1>2. Tagged(inst)
  BY DEF Tagged
<1> QED
  BY <1>1, <1>2 DEF TagStep

(* The connector's steps leave the table alone.                              *)
LEMMA ConnectorSorted == ASSUME IInv, miners \/ connector PROVE Ordinary
<1>1. UNCHANGED <<tableVars, hold, sessions, pc, enonce1, took, adding>>
  BY DEF miners, connector, Parse, Close, AddRecv, ConnectorLoop, SendClient
<1>2. Onward
  BY <1>1 DEF Onward
<1> QED
  BY <1>1, <1>2, Untouched DEF Ordinary

(* What srecv does, message by message.                                      *)
LEMMA RecvSorted ==
    ASSUME IInv, srecv
    PROVE  Ordinary \/ RecvRecruit \/ RecvAddInstance \/ RecvSubscribe \/ RecvEnonce
<1>1. "srecv" \in Threads /\ inst \in [Insts -> Instance]
  BY DEF Threads, IInv, Core, TableTypes
<1>2. CASE RecvFound
  <2>1. PICK id \in Ids : \E s \in At(id) :
          /\ TakeRecv(id) /\ ~ inst[s].dropped /\ TakeRef("srecv", s, inst)
          /\ Goto("srecv", "parse") /\ UNCHANGED <<adding, connq>>
    BY <1>2 DEF RecvFound
  <2>2. PICK s \in At(id) :
          /\ TakeRecv(id) /\ ~ inst[s].dropped /\ TakeRef("srecv", s, inst)
          /\ Goto("srecv", "parse") /\ UNCHANGED <<adding, connq>>
    BY <2>1
  <2>3. s \in table /\ UNCHANGED <<sessions, enonce1, took>> /\ pc["srecv"] = "idle"
    BY <2>2 DEF At, TakeRecv
  <2>4. pc' = [pc EXCEPT !["srecv"] = "parse"] /\ Tagged(inst)
    BY <2>2 DEF Goto, Tagged
  <2>5. hold["srecv"] = NoInst
    BY <1>1, <2>3 DEF IInv, Busy, HoldsWhileBusy
  <2>6. pc'["srecv"] = "parse" /\ pc'["sauth"] = pc["sauth"]
    BY <2>4 DEF IInv, OtherTypes, Threads
  <2>7. TakeStep
    BY <1>1, <2>2, <2>3, <2>4, <2>5, <2>6 DEF TakeStep, Handlers
  <2> QED
    BY <2>2, <2>3, <2>7 DEF Ordinary
<1>3. CASE RecvDropped
  <2>1. UNCHANGED <<tableVars, hold, sessions, pc, enonce1, took, adding>>
    BY <1>3 DEF RecvDropped, TakeRecv
  <2> QED
    BY <2>1, Untouched DEF Ordinary, Onward
<1>4. CASE \/ RecvRejected \/ RecvSubmit \/ RecvAuth \/ RecvUnsubscribed \/ RecvIgnored
           \/ RecvAnswered
  <2>1. /\ UNCHANGED <<tableVars, hold, sessions, enonce1, took, adding>>
        /\ pc' = [pc EXCEPT !["srecv"] = "done"]
    BY <1>4 DEF RecvRejected, RecvSubmit, RecvAuth, RecvUnsubscribed, RecvIgnored,
                RecvAnswered, Parsing, Goto
  <2>2. Onward
    BY <1>1, <2>1, GoesOn
  <2> QED
    BY <2>1, <2>2, Untouched DEF Ordinary
<1>5. CASE RecvTerm
  <2>1. PICK s \in table : /\ Parsing(s) /\ Goto("srecv", "done")
                           /\ IF inst[s].dropped THEN UNCHANGED <<tableVars, sessions>>
                              ELSE DropInstance(s)
                           /\ UNCHANGED <<enonce1, took>>
    BY <1>5 DEF RecvTerm
  <2>2. hold' = hold /\ adding' = adding /\ pc' = [pc EXCEPT !["srecv"] = "done"]
    BY <2>1 DEF Parsing, Goto
  <2>3. Onward
    BY <1>1, <2>2, GoesOn
  <2>4. CASE inst[s].dropped
    BY <2>1, <2>2, <2>3, <2>4, Untouched DEF Ordinary
  <2>5. CASE ~ inst[s].dropped
    BY <2>1, <2>2, <2>3, <2>5 DEF Ordinary, DropStep
  <2> QED
    BY <2>4, <2>5
<1>6. CASE RecvDone
  <2>1. /\ pc["srecv"] = "done" /\ DecInstanceRef("srecv")
        /\ pc' = [pc EXCEPT !["srecv"] = "idle"]
        /\ UNCHANGED <<sessions, enonce1, took, adding>>
    BY <1>6 DEF RecvDone, Goto
  <2>2. hold["srecv"] # NoInst /\ \A u \in Threads \ {"srecv"} : hold'[u] = hold[u]
    BY <1>1, <2>1 DEF IInv, Busy, HoldsWhileBusy, DecInstanceRef, OtherTypes
  <2>3. Onward
    BY <1>1, <2>1, <2>2, GoesOn
  <2> QED
    BY <2>1, <2>2, <2>3 DEF Ordinary, ReleaseStep, Handlers
<1> QED
  BY <1>2, <1>3, <1>4, <1>5, <1>6 DEF srecv

(* What sauth does, decision by decision.                                    *)
LEMMA AuthSorted == ASSUME IInv, sauth PROVE Ordinary \/ AuthLink
<1>1. "sauth" \in Threads /\ inst \in [Insts -> Instance] /\ table \subseteq Insts
  BY DEF Threads, IInv, Core, TableTypes
<1>2. CASE AuthTake
  <2>1. pc["sauth"] = "idle" /\ UNCHANGED <<sessions, enonce1, took, adding>>
    BY <1>2 DEF AuthTake
  <2>2. CASE UNCHANGED <<tableVars, pc, hold>>
    BY <2>1, <2>2, Untouched DEF Ordinary, Onward
  <2>3. CASE \E s \in table :
               /\ ~ (inst[s].dropped \/ inst[s].authorising \/ inst[s].authorised)
               /\ TakeRef("sauth", s, [inst EXCEPT ![s].authorising = TRUE])
               /\ Goto("sauth", "auth")
    <3>1. PICK s \in table :
               /\ ~ (inst[s].dropped \/ inst[s].authorising \/ inst[s].authorised)
               /\ TakeRef("sauth", s, [inst EXCEPT ![s].authorising = TRUE])
               /\ Goto("sauth", "auth")
      BY <2>3
    <3> DEFINE rec == [inst EXCEPT ![s].authorising = TRUE]
    <3>2. /\ rec \in [Insts -> Instance] /\ Tagged(rec) /\ rec[s].authorising
          /\ \A y \in Insts : rec[y].dropped = inst[y].dropped
      BY <1>1 DEF Tagged, Instance
    <3>3. TakeRef("sauth", s, rec)
      BY <3>1
    <3>4. hold["sauth"] = NoInst
      BY <1>1, <2>1 DEF IInv, Busy, HoldsWhileBusy
    <3>5. pc'["srecv"] = pc["srecv"]
      BY <3>1 DEF Goto, IInv, OtherTypes, Threads
    <3> HIDE DEF rec
    <3>6. TakeStep
      BY <3>1, <3>2, <3>3, <3>4, <3>5, <2>1 DEF TakeStep, Handlers
    <3> QED
      BY <2>1, <3>6 DEF Ordinary
  <2> QED
    BY <1>2, <2>2, <2>3 DEF AuthTake, At
<1>3. CASE AuthError
  <2>1. /\ UNCHANGED <<tableVars, hold, sessions, enonce1, took, adding>>
        /\ pc' = [pc EXCEPT !["sauth"] = "done"]
    BY <1>3 DEF AuthError, AuthUnchanged, Goto
  <2>2. Onward
    BY <1>1, <2>1, GoesOn
  <2> QED
    BY <2>1, <2>2, Untouched DEF Ordinary
<1>4. CASE AuthThrottled \/ AuthSucceed \/ AuthFail
  <2>1. PICK s \in table :
          /\ \E u : Deciding(s, u)
          /\ \/ Update([inst EXCEPT ![s].dropped = TRUE])
             \/ Update([inst EXCEPT ![s].authorised = TRUE, ![s].authorising = FALSE])
             \/ /\ BtcSolo
                /\ Update([inst EXCEPT ![s].reject = TRUE, ![s].authorising = FALSE])
    BY <1>4 DEF AuthThrottled, AuthSucceed, AuthFail
  <2>2. /\ UNCHANGED <<hold, sessions, enonce1, took, adding>>
        /\ pc' = [pc EXCEPT !["sauth"] = "done"]
    BY <2>1 DEF Deciding, Goto, AuthUnchanged
  <2>3. PICK rec \in [Insts -> Instance] : Update(rec) /\ Tagged(rec)
    <3>1. CASE Update([inst EXCEPT ![s].dropped = TRUE])
      <4> DEFINE tagged == [inst EXCEPT ![s].dropped = TRUE]
      <4>1. tagged \in [Insts -> Instance] /\ Tagged(tagged)
        BY <1>1 DEF Tagged, Instance
      <4> QED
        BY <3>1, <4>1
    <3>2. CASE Update([inst EXCEPT ![s].authorised = TRUE, ![s].authorising = FALSE])
      <4> DEFINE allowed == [inst EXCEPT ![s].authorised = TRUE, ![s].authorising = FALSE]
      <4>1. allowed \in [Insts -> Instance] /\ Tagged(allowed)
        BY <1>1, ZenonT(60) DEF Tagged, Instance
      <4> QED
        BY <3>2, <4>1
    <3>3. CASE BtcSolo /\ Update([inst EXCEPT ![s].reject = TRUE, ![s].authorising = FALSE])
      <4> DEFINE refused == [inst EXCEPT ![s].reject = TRUE, ![s].authorising = FALSE]
      <4>1. refused \in [Insts -> Instance] /\ Tagged(refused)
        BY <1>1, <3>3, ZenonT(60) DEF Tagged, Instance
      <4> QED
        BY <3>3, <4>1
    <3> QED
      BY <2>1, <3>1, <3>2, <3>3
  <2>4. Onward
    BY <1>1, <2>2, GoesOn
  <2> QED
    BY <2>2, <2>3, <2>4 DEF Ordinary, TagStep
<1>5. CASE AuthDone
  <2>1. /\ pc["sauth"] = "done" /\ DecInstanceRef("sauth")
        /\ pc' = [pc EXCEPT !["sauth"] = "idle"]
        /\ UNCHANGED <<sessions, enonce1, took, adding>>
    BY <1>5 DEF AuthDone, AuthUnchanged, Goto
  <2>2. hold["sauth"] # NoInst /\ \A u \in Threads \ {"sauth"} : hold'[u] = hold[u]
    BY <1>1, <2>1 DEF IInv, Busy, HoldsWhileBusy, DecInstanceRef, OtherTypes
  <2>3. Onward
    BY <1>1, <2>1, <2>2, GoesOn
  <2> QED
    BY <2>1, <2>2, <2>3 DEF Ordinary, ReleaseStep, Handlers
<1> QED
  BY <1>2, <1>3, <1>4, <1>5 DEF sauth

(* What sshare does with a share.                                            *)
LEMMA ShareSorted == ASSUME IInv, sshare PROVE Ordinary
<1>1. "sshare" \in Threads /\ inst \in [Insts -> Instance] /\ table \subseteq Insts
  BY DEF Threads, IInv, Core, TableTypes
<1>2. CASE ShareTake
  <2>1. pc["sshare"] = "idle" /\ UNCHANGED <<sessions, enonce1, took, adding>>
    BY <1>2 DEF ShareTake
  <2>2. CASE UNCHANGED <<tableVars, pc, hold>>
    BY <2>1, <2>2, Untouched DEF Ordinary, Onward
  <2>3. CASE \E s \in table : /\ ~ inst[s].dropped /\ TakeRef("sshare", s, inst)
                              /\ Goto("sshare", "parse")
    <3>1. PICK s \in table : /\ ~ inst[s].dropped /\ TakeRef("sshare", s, inst)
                             /\ Goto("sshare", "parse")
      BY <2>3
    <3>2. hold["sshare"] = NoInst
      BY <1>1, <2>1 DEF IInv, Busy, HoldsWhileBusy
    <3>3. pc'["srecv"] = pc["srecv"] /\ pc'["sauth"] = pc["sauth"]
      BY <3>1 DEF Goto, IInv, OtherTypes, Threads
    <3>4. Tagged(inst)
      BY DEF Tagged
    <3>5. TakeStep
      BY <1>1, <2>1, <3>1, <3>2, <3>3, <3>4 DEF TakeStep, Handlers
    <3> QED
      BY <2>1, <3>5 DEF Ordinary
  <2> QED
    BY <1>2, <2>2, <2>3 DEF ShareTake, Findable, At
<1>3. CASE ShareSubmit
  <2> DEFINE s == hold["sshare"]
  <2>1. /\ pc["sshare"] = "parse" /\ pc' = [pc EXCEPT !["sshare"] = "done"]
        /\ UNCHANGED <<hold, sessions, enonce1, took, adding>>
    BY <1>3 DEF ShareSubmit, Goto
  <2>2. Onward
    BY <1>1, <2>1, GoesOn
  <2>3. s \in table /\ inst[s] \in Instance
    BY <1>1, <2>1, BusyHolds
  <2>4. CASE UNCHANGED tableVars
    BY <2>1, <2>2, <2>4, Untouched DEF Ordinary
  <2>5. CASE \E r \in {inst[s].reject, TRUE} : Update([inst EXCEPT ![s].reject = r])
    <3> HIDE DEF s
    <3>1. PICK r \in {inst[s].reject, TRUE} : Update([inst EXCEPT ![s].reject = r])
      BY <2>5
    <3> DEFINE rec == [inst EXCEPT ![s].reject = r]
    <3>2. r \in BOOLEAN
      BY <2>3, <3>1 DEF Instance
    <3>3. rec \in [Insts -> Instance] /\ Tagged(rec)
      BY <1>1, <2>3, <3>2 DEF Tagged, Instance
    <3> QED
      BY <2>1, <2>2, <3>1, <3>3 DEF Ordinary, TagStep
  <2> QED
    BY <1>3, <2>4, <2>5 DEF ShareSubmit
<1>4. CASE ShareDone
  <2>1. /\ pc["sshare"] = "done" /\ DecInstanceRef("sshare")
        /\ pc' = [pc EXCEPT !["sshare"] = "idle"]
        /\ UNCHANGED <<sessions, enonce1, took, adding>>
    BY <1>4 DEF ShareDone, Goto
  <2>2. hold["sshare"] # NoInst /\ \A u \in Threads \ {"sshare"} : hold'[u] = hold[u]
    BY <1>1, <2>1 DEF IInv, Busy, HoldsWhileBusy, DecInstanceRef, OtherTypes
  <2>3. Onward
    BY <1>1, <2>1, <2>2, GoesOn
  <2> QED
    BY <2>1, <2>2, <2>3 DEF Ordinary, ReleaseStep, Handlers
<1> QED
  BY <1>2, <1>3, <1>4 DEF sshare

(* What the command loop does for the connector and the operator.            *)
LEMMA LoopSorted == ASSUME IInv, sloop \/ operator PROVE Ordinary \/ LoopDropAll
<1>1. "sloop" \in Threads /\ inst \in [Insts -> Instance] /\ table \subseteq Insts
  BY DEF Threads, IInv, Core, TableTypes
<1>2. CASE LoopDrop
  <2>1. UNCHANGED <<pc, hold, enonce1, took, adding>>
    BY <1>2 DEF LoopDrop, LoopUnchanged
  <2>2. Onward
    BY <2>1 DEF Onward
  <2>3. CASE UNCHANGED <<tableVars, sessions>>
    BY <2>1, <2>2, <2>3, Untouched DEF Ordinary
  <2>4. CASE \E s \in table : ~ inst[s].dropped /\ DropInstance(s)
    BY <2>1, <2>2, <2>4 DEF Ordinary, DropStep
  <2> QED
    BY <1>2, <2>3, <2>4 DEF LoopDrop, Findable, At
<1>3. CASE LoopTag
  <2> DEFINE rec == [s \in Insts |-> [inst[s] EXCEPT !.dropped = @ \/ s \in table]]
  <2>1. /\ Update(rec) /\ pc' = [pc EXCEPT !["sloop"] = "idle"]
        /\ UNCHANGED <<hold, sessions, enonce1, took, adding>>
    BY <1>3 DEF LoopTag, LoopUnchanged, Goto
  <2>2. rec \in [Insts -> Instance]
    BY <1>1 DEF Instance
  <2>3. Tagged(rec)
    <3> SUFFICES ASSUME NEW s \in Insts
                 PROVE  /\ rec[s].id = inst[s].id
                        /\ rec[s].user = inst[s].user /\ rec[s].enonce = inst[s].enonce
                        /\ inst[s].dropped => rec[s].dropped
                        /\ rec[s].authorising = inst[s].authorising
                        /\ rec[s].authorised = inst[s].authorised
                        /\ s \notin table => rec[s] = inst[s]
      BY Zenon DEF Tagged
    <3>1. inst[s] \in Instance
      BY <1>1
    <3> QED
      BY <3>1 DEF Instance
  <2> HIDE DEF rec
  <2>4. Onward
    BY <1>1, <2>1, GoesOn
  <2> QED
    BY <2>1, <2>2, <2>3, <2>4 DEF Ordinary, TagStep
<1>4. CASE LoopPutClient
  <2>1. /\ pc["sloop"] = "done" /\ DecInstanceRef("sloop")
        /\ pc' = [pc EXCEPT !["sloop"] = "idle"]
        /\ UNCHANGED <<sessions, enonce1, took, adding>>
    BY <1>4 DEF LoopPutClient, LoopUnchanged, Goto
  <2>2. hold["sloop"] # NoInst /\ \A u \in Threads \ {"sloop"} : hold'[u] = hold[u]
    BY <1>1, <2>1 DEF IInv, Busy, HoldsWhileBusy, DecInstanceRef, OtherTypes
  <2>3. Onward
    BY <1>1, <2>1, <2>2, GoesOn
  <2> QED
    BY <2>1, <2>2, <2>3 DEF Ordinary, ReleaseStep, Handlers
<1>5. CASE LoopReconnect
  <2>1. /\ UNCHANGED <<tableVars, hold, sessions, enonce1, took, adding>>
        /\ pc' = [pc EXCEPT !["sloop"] = "tag"]
    BY <1>5 DEF LoopReconnect, Admin, LoopUnchanged, Goto
  <2>2. Onward
    BY <1>1, <2>1, GoesOn
  <2> QED
    BY <2>1, <2>2, Untouched DEF Ordinary
<1>6. CASE LoopGetClient
  <2>1. /\ pc["sloop"] = "idle" /\ Goto("sloop", "done")
        /\ UNCHANGED <<sessions, enonce1, took, adding>>
    BY <1>6 DEF LoopGetClient, Admin, LoopUnchanged
  <2>2. PICK s \in table : ~ inst[s].dropped /\ TakeRef("sloop", s, inst)
    BY <1>6 DEF LoopGetClient, Findable, At
  <2>3. hold["sloop"] = NoInst
    BY <1>1, <2>1 DEF IInv, Busy, HoldsWhileBusy
  <2>4. pc'["srecv"] = pc["srecv"] /\ pc'["sauth"] = pc["sauth"]
    BY <2>1 DEF Goto, IInv, OtherTypes, Threads
  <2>5. Tagged(inst)
    BY DEF Tagged
  <2>6. TakeStep
    BY <1>1, <2>1, <2>2, <2>3, <2>4, <2>5 DEF TakeStep, Handlers
  <2> QED
    BY <2>1, <2>6 DEF Ordinary
<1> QED
  BY <1>2, <1>3, <1>4, <1>5, <1>6 DEF sloop, operator

(* What the two walks do.                                                    *)
LEMMA WalksSorted == ASSUME IInv, stats \/ bcast PROVE Ordinary
<1>1. /\ "stats" \in Threads /\ "bcast" \in Threads /\ inst \in [Insts -> Instance]
      /\ table \subseteq Insts /\ todo \in [{"stats", "bcast"} -> SUBSET Insts]
      /\ hold \in [Threads -> Insts \union {NoInst}]
  BY DEF Threads, IInv, Core, TableTypes, OtherTypes
<1>2. ASSUME NEW t \in {"stats", "bcast"}, NEW x, MoveOn(t, x)
      PROVE  Onward
  <2> DEFINE p == IF x = NoInst THEN "idle" ELSE "visit"
  <2>1. t \in Threads /\ p \notin {"enonce", "auth"} /\ pc' = [pc EXCEPT ![t] = p]
    BY <1>1, <1>2 DEF MoveOn, Goto
  <2>2. \A u \in Threads \ {t} : hold'[u] = hold[u]
    BY <1>1, <1>2 DEF MoveOn
  <2> HIDE DEF p
  <2> QED
    BY <2>1, <2>2, GoesOn
<1>3. CASE StatsStart \/ StatsNext
  <2>1. PICK x \in table \union {NoInst} :
          MoveOn("stats", x) /\ UNCHANGED <<sessions, enonce1, took, adding>>
    BY <1>3 DEF StatsStart, StatsNext, StatsUnchanged
  <2>2. Onward
    BY <1>2, <2>1
  <2>3. WalkStep
    BY <1>3, <2>1, <2>2 DEF WalkStep
  <2> QED
    BY <2>1, <2>3 DEF Ordinary
<1>4. CASE StatsVisit
  <2> DEFINE s == hold["stats"]
             rec == [inst EXCEPT ![s].dropped = TRUE]
  <2>1. /\ pc["stats"] = "visit" /\ pc' = [pc EXCEPT !["stats"] = "done"]
        /\ UNCHANGED <<hold, sessions, enonce1, took, adding>>
        /\ UNCHANGED tableVars \/ Update(rec)
    BY <1>4 DEF StatsVisit, StatsUnchanged, Goto
  <2>2. s \in table
    BY <1>1, <2>1, BusyHolds
  <2>3. rec \in [Insts -> Instance] /\ Tagged(rec)
    <3> HIDE DEF s
    <3> QED
      BY <1>1, <2>2, ZenonT(60) DEF Tagged, Instance
  <2> HIDE DEF rec, s
  <2>4. Onward
    BY <1>1, <2>1, GoesOn, ZenonT(60)
  <2>5. TagStep
    BY <2>1, <2>3, <2>4, Untouched DEF TagStep
  <2> QED
    BY <2>1, <2>5 DEF Ordinary
<1>5. CASE Broadcast
  <2>1. UNCHANGED <<tableVars, hold, sessions, pc, enonce1, took, adding>>
    BY <1>5 DEF Broadcast, BcastUnchanged
  <2> QED
    BY <2>1, Untouched DEF Ordinary, Onward
<1>6. CASE BcastStart \/ BcastNext
  <2>1. PICK x \in table \union {NoInst} :
          MoveOn("bcast", x) /\ UNCHANGED <<sessions, enonce1, took, adding>>
    BY <1>6 DEF BcastStart, BcastNext, BcastMove, BcastUnchanged
  <2>2. Onward
    BY <1>2, <2>1
  <2>3. todo'["stats"] = todo["stats"]
    BY <1>1, <1>6 DEF BcastStart, BcastNext
  <2>4. WalkStep
    BY <2>1, <2>2, <2>3 DEF WalkStep
  <2> QED
    BY <2>1, <2>4 DEF Ordinary
<1> QED
  BY <1>3, <1>4, <1>5, <1>6 DEF stats, bcast

(* Every step is one of the sorts, or one of the few of its own.             *)
LEMMA Sorted ==
    ASSUME IInv, [Next]_vars
    PROVE  \/ Ordinary \/ RecvRecruit \/ RecvAddInstance \/ RecvSubscribe \/ RecvEnonce
           \/ AuthLink \/ LoopDropAll
<1>1. CASE Quiescent \/ UNCHANGED vars
  <2>1. UNCHANGED <<tableVars, hold, sessions, pc, enonce1, took, adding>>
    BY <1>1 DEF Quiescent, vars, tableVars
  <2> QED
    BY <2>1, Untouched DEF Ordinary, Onward
<1> QED
  BY <1>1, ConnectorSorted, RecvSorted, AuthSorted, ShareSorted, LoopSorted, WalksSorted
     DEF Next

-----------------------------------------------------------------------------
(* One instance a connection, distinct nonces, and the order of the table.   *)

\* The struct being filled is as new, and nobody in the table has its id.
AddingNew ==
    adding # NoInst =>
      /\ inst[adding] = [Cleared EXCEPT !.id = inst[adding].id]
      /\ \A s \in table : inst[s].id # inst[adding].id

\* Every nonce there is was handed out, and srecv has the one it took.
Nonces ==
    /\ \A e \in sessions : 0 < e /\ e <= enonce1
    /\ took <= enonce1
    /\ \A s \in table : inst[s].enonce <= enonce1
    /\ pc["srecv"] = "enonce" => inst[hold["srecv"]].enonce = took

\* uthash's order is a strict total order of the table.
TableOrder ==
    /\ before \subseteq table \X table
    /\ \A x \in table : <<x, x>> \notin before
    /\ \A x, y, z \in table :
         <<x, y>> \in before /\ <<y, z>> \in before => <<x, z>> \in before
    /\ \A x, y \in table : x = y \/ <<x, y>> \in before \/ <<y, x>> \in before

\* What the statistics walk has still to come to is where it is, or after that.
WalkAhead ==
    \A y \in todo["stats"] : y = hold["stats"] \/ <<hold["stats"], y>> \in before

\* UniqueIds, EnonceUnique and StatsComplete, inductive.
TInv == UniqueIds /\ AddingNew /\ Nonces /\ EnonceUnique /\ TableOrder /\ WalkAhead

\* What a step does that puts nothing into the table.
Loses ==
    /\ table' \subseteq table
    /\ before' = {p \in before : p[1] \notin table \ table' /\ p[2] \notin table \ table'}
    /\ \A s \in table' : /\ inst'[s].id = inst[s].id
                         /\ inst[s].dropped => inst'[s].dropped
    /\ adding' = adding /\ (adding # NoInst => inst'[adding] = inst[adding])
    /\ \/ StatsStart \/ StatsNext
       \/ /\ todo'["stats"] \subseteq todo["stats"] \ (table \ table')
          /\ hold'["stats"] = hold["stats"]

SameNonces == \A s \in table' : inst'[s].enonce = inst[s].enonce

SameUsers ==
    \A s \in table' :
      /\ inst'[s].user = inst[s].user
      /\ ~ BtcSolo /\ (inst[s].authorising \/ inst[s].authorised)
           => inst'[s].authorising \/ inst'[s].authorised

(* The fields become those of rec, and the instances of S are killed.        *)
LEMMA TaggedLoses ==
    ASSUME IInv, NEW S \in SUBSET table, NEW rec \in [Insts -> Instance], Tagged(rec),
           inst' = [s \in Insts |-> IF s \in S THEN Cleared ELSE rec[s]], table' = table \ S,
           before' = {p \in before : p[1] \notin S /\ p[2] \notin S}, adding' = adding,
           \/ StatsStart \/ StatsNext
           \/ todo'["stats"] \subseteq todo["stats"] \ S /\ hold'["stats"] = hold["stats"]
    PROVE  Loses /\ SameNonces /\ SameUsers
<1>1. table \ table' = S /\ table \subseteq Insts
  BY DEF IInv, Core, TableTypes
<1>2. \A s \in table' : inst'[s] = rec[s]
  BY <1>1
<1>3. adding # NoInst => inst'[adding] = inst[adding]
  BY <1>1 DEF IInv, Busy, AddingApart, Tagged
<1>4. /\ \A s \in table' : /\ inst'[s].id = inst[s].id
                           /\ inst[s].dropped => inst'[s].dropped
      /\ SameNonces /\ SameUsers
  BY <1>1, <1>2 DEF Tagged, SameNonces, SameUsers
<1> QED
  BY <1>1, <1>3, <1>4, Zenon DEF Loses

(* The fields become those of rec, and nobody leaves.                        *)
LEMMA UpdateLoses ==
    ASSUME IInv, NEW rec \in [Insts -> Instance], Tagged(rec), inst' = rec,
           UNCHANGED <<table, before>>, adding' = adding,
           \/ StatsStart \/ StatsNext
           \/ todo'["stats"] = todo["stats"] /\ hold'["stats"] = hold["stats"]
    PROVE  Loses /\ SameNonces /\ SameUsers
<1> DEFINE S == {s \in table : FALSE}
<1>1. S \in SUBSET table /\ S = {}
  OBVIOUS
<1> HIDE DEF S
<1>2. /\ inst' = [s \in Insts |-> IF s \in S THEN Cleared ELSE rec[s]] /\ table' = table \ S
      /\ before' = {p \in before : p[1] \notin S /\ p[2] \notin S}
      /\ \/ StatsStart \/ StatsNext
         \/ todo'["stats"] \subseteq todo["stats"] \ S /\ hold'["stats"] = hold["stats"]
  BY <1>1
<1> QED
  BY <1>1, <1>2, TaggedLoses

(* A step of the sorts puts nothing into the table and changes no nonce.     *)
LEMMA OrdinaryLoses ==
    ASSUME IInv, Ordinary \/ LoopDropAll
    PROVE  Loses /\ SameNonces /\ SameUsers
<1>1. /\ inst \in [Insts -> Instance] /\ table \subseteq Insts /\ "stats" \in Threads
      /\ todo \in [{"stats", "bcast"} -> SUBSET Insts]
      /\ hold \in [Threads -> Insts \union {NoInst}]
      /\ \A t \in Threads : hold[t] # NoInst => hold[t] \in table
  BY DEF IInv, Core, TableTypes, OtherTypes, Threads, HeldInTable
<1>2. CASE Ordinary /\ TagStep
  <2>1. PICK rec \in [Insts -> Instance] : Update(rec) /\ Tagged(rec) /\ hold' = hold
    BY <1>2 DEF TagStep
  <2> QED
    BY <1>2, <2>1, UpdateLoses DEF Update, Ordinary
<1>3. CASE Ordinary /\ TakeStep
  <2>1. PICK t \in Handlers, s \in table, rec \in [Insts -> Instance] :
          TakeRef(t, s, rec) /\ Tagged(rec)
    BY <1>3 DEF TakeStep
  <2> DEFINE new == [rec EXCEPT ![s].ref = @ + 1]
  <2>2. new \in [Insts -> Instance] /\ Tagged(new)
    BY <1>1, <2>1 DEF Tagged, Instance
  <2>3. inst' = new /\ UNCHANGED <<table, before, todo>> /\ hold'["stats"] = hold["stats"]
    BY <1>1, <2>1 DEF TakeRef, Update, Handlers
  <2> HIDE DEF new
  <2> QED
    BY <1>3, <2>2, <2>3, UpdateLoses DEF Ordinary
<1>4. CASE Ordinary /\ ReleaseStep
  <2>1. PICK t \in Handlers : DecInstanceRef(t) /\ hold[t] # NoInst
    BY <1>4 DEF ReleaseStep
  <2> DEFINE s == hold[t]
             rec == [inst EXCEPT ![s].ref = @ - 1]
             S == IF rec[s].dropped /\ rec[s].ref = 0 THEN {s} ELSE {}
  <2>2. s \in table /\ t \in Threads
    BY <1>1, <2>1 DEF Handlers, Threads
  <2>3. rec \in [Insts -> Instance] /\ Tagged(rec) /\ S \in SUBSET table
    <3> HIDE DEF s
    <3> QED
      BY <1>1, <2>2 DEF Tagged, Instance
  <2>4. UpdateAndKill(rec, S) /\ hold'["stats"] = hold["stats"]
    BY <1>1, <2>1 DEF DecInstanceRef, Handlers
  <2> HIDE DEF rec, S, s
  <2>5. /\ inst' = [y \in Insts |-> IF y \in S THEN Cleared ELSE rec[y]] /\ table' = table \ S
        /\ before' = {p \in before : p[1] \notin S /\ p[2] \notin S}
        /\ todo'["stats"] \subseteq todo["stats"] \ S
    BY <2>4 DEF UpdateAndKill, KillInstances
  <2> QED
    BY <1>4, <2>3, <2>4, <2>5, TaggedLoses DEF Ordinary
<1>5. CASE Ordinary /\ DropStep
  <2>1. PICK s \in table : DropInstance(s) /\ hold' = hold
    BY <1>5 DEF DropStep
  <2>2. CASE inst[s].ref = 0
    <3>1. KillInstances(inst, {s})
      BY <2>1, <2>2 DEF DropInstance, UpdateAndKill
    <3>2. Tagged(inst) /\ {s} \in SUBSET table
      BY DEF Tagged
    <3>3. /\ inst' = [y \in Insts |-> IF y \in {s} THEN Cleared ELSE inst[y]]
          /\ table' = table \ {s}
          /\ before' = {p \in before : p[1] \notin {s} /\ p[2] \notin {s}}
          /\ todo'["stats"] \subseteq todo["stats"] \ {s}
      BY <3>1 DEF KillInstances
    <3> QED
      BY <1>1, <1>5, <2>1, <3>2, <3>3, TaggedLoses DEF Ordinary
  <2>3. CASE inst[s].ref # 0
    <3> DEFINE rec == [inst EXCEPT ![s].dropped = TRUE]
    <3>1. rec \in [Insts -> Instance] /\ Tagged(rec)
      BY <1>1, ZenonT(60) DEF Tagged, Instance
    <3>2. Update(rec)
      BY <2>1, <2>3 DEF DropInstance
    <3> HIDE DEF rec
    <3> QED
      BY <1>5, <2>1, <3>1, <3>2, UpdateLoses DEF Update, Ordinary
  <2> QED
    BY <2>2, <2>3
<1>6. CASE Ordinary /\ WalkStep
  <2>1. PICK t \in {"stats", "bcast"}, x \in table \union {NoInst} :
          /\ MoveOn(t, x)
          /\ IF t = "stats" THEN StatsStart \/ StatsNext ELSE todo'["stats"] = todo["stats"]
    BY <1>6 DEF WalkStep
  <2> DEFINE step(s) == inst[s].ref - (IF s = hold[t] THEN 1 ELSE 0) + (IF s = x THEN 1 ELSE 0)
             rec == [s \in Insts |-> [inst[s] EXCEPT !.ref = step(s)]]
  <2>2. rec \in [Insts -> Instance]
    BY <1>1 DEF Instance
  <2>3. inst' = rec /\ UNCHANGED <<table, before>>
    BY <2>1 DEF MoveOn
  <2>4. hold[t] \in table \union {NoInst}
    BY <1>1, <2>1 DEF Threads
  <2>5. Tagged(rec)
    <3>1. ASSUME NEW s \in Insts
          PROVE  /\ rec[s].id = inst[s].id
                 /\ rec[s].user = inst[s].user /\ rec[s].enonce = inst[s].enonce
                 /\ rec[s].dropped = inst[s].dropped
                 /\ rec[s].authorising = inst[s].authorising
                 /\ rec[s].authorised = inst[s].authorised
                 /\ s \notin table => rec[s] = inst[s]
      <4>1. inst[s] \in Instance /\ inst[s].ref \in Int
        BY <1>1 DEF Instance
      <4>2. s \notin table => step(s) = inst[s].ref
        BY <2>4, <4>1, StratifierAssumption
      <4> HIDE DEF step
      <4> QED
        BY <4>1, <4>2 DEF Instance
    <3> HIDE DEF rec
    <3> QED
      BY <3>1 DEF Tagged
  <2>6. t # "stats" => hold'["stats"] = hold["stats"]
    BY <1>1, <2>1 DEF MoveOn
  <2> HIDE DEF rec
  <2> QED
    BY <1>6, <2>1, <2>2, <2>3, <2>5, <2>6, UpdateLoses DEF Ordinary
<1>7. CASE LoopDropAll
  <2> DEFINE S == {s \in table : inst[s].ref = 0}
             rec == [s \in Insts |-> [inst[s] EXCEPT !.dropped = @ \/ s \in table]]
  <2>1. KillInstances(rec, S) /\ hold' = hold /\ adding' = adding
    BY <1>7 DEF LoopDropAll, Admin, LoopUnchanged
  <2>2. rec \in [Insts -> Instance] /\ S \in SUBSET table
    BY <1>1, ZenonT(60) DEF Instance
  <2>3. Tagged(rec)
    <3> SUFFICES ASSUME NEW s \in Insts
                 PROVE  /\ rec[s].id = inst[s].id
                        /\ rec[s].user = inst[s].user /\ rec[s].enonce = inst[s].enonce
                        /\ inst[s].dropped => rec[s].dropped
                        /\ rec[s].authorising = inst[s].authorising
                        /\ rec[s].authorised = inst[s].authorised
                        /\ s \notin table => rec[s] = inst[s]
      BY Zenon DEF Tagged
    <3>1. inst[s] \in Instance
      BY <1>1
    <3> QED
      BY <3>1 DEF Instance
  <2> HIDE DEF rec, S
  <2>4. /\ inst' = [y \in Insts |-> IF y \in S THEN Cleared ELSE rec[y]] /\ table' = table \ S
        /\ before' = {p \in before : p[1] \notin S /\ p[2] \notin S}
        /\ todo'["stats"] \subseteq todo["stats"] \ S
    BY <2>1 DEF KillInstances
  <2> QED
    BY <2>1, <2>2, <2>3, <2>4, TaggedLoses
<1> QED
  BY <1>2, <1>3, <1>4, <1>5, <1>6, <1>7 DEF Ordinary

\* A set of naturals has a least element.
LEMMA HasLeast ==
    ASSUME NEW T \in SUBSET Nat, T # {}
    PROVE  \E m \in T : \A j \in T : m <= j
<1> DEFINE R == OpToRel(<, Nat)
<1>1. IsWellFoundedOn(R, Nat)
  BY NatLessThanWellFounded
<1>2. \A a, b \in Nat : a < b => <<a, b>> \in R
  BY DEF OpToRel
<1> HIDE DEF R
<1>3. PICK x \in T : \A y \in T : ~ (<<y, x>> \in R)
  <2>1. T \subseteq Nat
    OBVIOUS
  <2> QED
    BY <1>1, <2>1, WFMin, Zenon
<1>4. \A y \in T : x <= y
  <2> TAKE y \in T
  <2>1. x \in Nat /\ y \in Nat
    OBVIOUS
  <2>2. ~ (y < x)
    BY <1>2, <1>3, <2>1, Zenon
  <2> QED
    BY <2>1, <2>2
<1> QED
  BY <1>4

(* What is not the last in the table has a next: of those after it, the one  *)
(* that fewest come before.                                                  *)
LEMMA HasNext ==
    ASSUME IInv, TableOrder, NEW s \in table, NEW z \in table, <<s, z>> \in before
    PROVE  \E y \in table : IsNext(s, y)
<1> DEFINE Earlier(y) == {x \in table : <<x, y>> \in before}
           After == {y \in table : <<s, y>> \in before}
           T == {Cardinality(Earlier(y)) : y \in After}
<1>1. IsFiniteSet(table)
  BY StratifierAssumption, FS_Subset DEF IInv, Core, TableTypes
<1>2. \A y : IsFiniteSet(Earlier(y)) /\ Cardinality(Earlier(y)) \in Nat
  BY <1>1, FS_Subset, FS_CardinalityType
<1>3. T \in SUBSET Nat /\ T # {}
  <2>1. z \in After
    OBVIOUS
  <2> HIDE DEF Earlier, After
  <2> QED
    BY <1>2, <2>1
<1>4. PICK y \in After : \A w \in After : Cardinality(Earlier(y)) <= Cardinality(Earlier(w))
  <2>1. PICK m \in T : \A j \in T : m <= j
    BY <1>3, HasLeast
  <2> HIDE DEF Earlier, After
  <2>2. PICK y \in After : m = Cardinality(Earlier(y))
    BY <2>1
  <2>3. \A w \in After : Cardinality(Earlier(w)) \in T
    OBVIOUS
  <2> QED
    BY <2>1, <2>2, <2>3
<1>5. ASSUME NEW w \in table, <<s, w>> \in before, <<w, y>> \in before
      PROVE  FALSE
  <2>1. Earlier(w) \in SUBSET Earlier(y) /\ w \in Earlier(y) /\ w \notin Earlier(w)
    BY <1>5 DEF TableOrder
  <2>2. Cardinality(Earlier(y)) <= Cardinality(Earlier(w))
    BY <1>4, <1>5
  <2> HIDE DEF Earlier
  <2>3. Cardinality(Earlier(w)) <= Cardinality(Earlier(y))
        /\ (Cardinality(Earlier(y)) = Cardinality(Earlier(w)) => Earlier(y) = Earlier(w))
    BY <1>2, <2>1, FS_Subset
  <2>4. Cardinality(Earlier(y)) = Cardinality(Earlier(w))
    BY <1>2, <2>2, <2>3
  <2> QED
    BY <2>1, <2>3, <2>4
<1> QED
  BY <1>5 DEF IsNext

(* Nothing of a walk is left behind when somebody leaves the table, or when  *)
(* the walk moves on to the next.                                            *)
LEMMA WalkKept ==
    ASSUME IInv, IInv', TInv, Loses
    PROVE  WalkAhead'
<1>1. /\ table \subseteq Insts /\ \A t \in Threads : hold[t] # NoInst => hold[t] \in table
      /\ \A t \in Threads : hold'[t] # NoInst => hold'[t] \in table'
      /\ "stats" \in Threads /\ TableOrder /\ WalkAhead
      /\ todo \in [{"stats", "bcast"} -> SUBSET Insts]
      /\ hold \in [Threads -> Insts \union {NoInst}]
  BY DEF IInv, Core, HeldInTable, TInv, Threads, TableTypes, OtherTypes
<1>2. CASE todo'["stats"] \subseteq todo["stats"] \ (table \ table')
           /\ hold'["stats"] = hold["stats"]
  <2> SUFFICES ASSUME NEW y \in todo'["stats"], y # hold'["stats"]
               PROVE  <<hold'["stats"], y>> \in before'
    BY DEF WalkAhead
  <2>1. y \in todo["stats"] /\ y \notin table \ table' /\ <<hold["stats"], y>> \in before
    BY <1>1, <1>2 DEF WalkAhead
  <2>2. hold["stats"] \in table
    BY <1>1, <2>1 DEF TableOrder
  <2>3. hold["stats"] \in table'
    BY <1>1, <1>2, <2>2, StratifierAssumption
  <2> QED
    BY <1>2, <2>1, <2>3 DEF Loses
<1>3. CASE StatsStart
  <2>1. PICK s \in table : IsFirst(s) /\ MoveOn("stats", s)
    BY <1>3 DEF StatsStart
  <2>2. hold'["stats"] = s /\ before' = before /\ todo'["stats"] = table
    BY <1>1, <1>3, <2>1 DEF MoveOn, StatsStart
  <2> QED
    BY <1>1, <2>1, <2>2 DEF WalkAhead, IsFirst, TableOrder
<1>4. CASE StatsNext
  <2> DEFINE s == hold["stats"]
  <2>1. PICK x \in table \union {NoInst} : HHNext(s, x) /\ MoveOn("stats", x)
    BY <1>4 DEF StatsNext
  <2>2. hold'["stats"] = x /\ before' = before /\ todo'["stats"] = todo["stats"] \ {s}
    BY <1>1, <1>4, <2>1 DEF MoveOn, StatsNext
  <2>3. s \in table
    BY <1>1, <1>4, BusyHolds DEF StatsNext
  <2> HIDE DEF s
  <2>4. \A y \in todo["stats"] \ {s} : y \in table /\ <<s, y>> \in before
    BY <1>1 DEF s, WalkAhead, TableOrder
  <2>5. CASE x \in table /\ IsNext(s, x)
    BY <1>1, <2>2, <2>3, <2>4, <2>5 DEF WalkAhead, IsNext, TableOrder
  <2>6. CASE ~ \E y \in table : IsNext(s, y)
    <3>1. todo["stats"] \ {s} = {}
      BY <1>1, <2>3, <2>4, <2>6, HasNext
    <3> QED
      BY <2>2, <3>1 DEF WalkAhead
  <2> QED
    BY <2>1, <2>5, <2>6 DEF HHNext
<1> QED
  BY <1>2, <1>3, <1>4 DEF Loses

(* Nor are ids and the order disturbed.                                      *)
LEMMA LosesKeeps ==
    ASSUME IInv, IInv', TInv, Loses
    PROVE  UniqueIds' /\ AddingNew' /\ TableOrder' /\ WalkAhead'
<1>1. UniqueIds' /\ AddingNew'
  BY DEF Loses, TInv, UniqueIds, AddingNew
<1>2. TableOrder'
  <2>1. \A x, y \in table' : <<x, y>> \in before' <=> <<x, y>> \in before
    BY DEF Loses
  <2>2. before' \subseteq table' \X table'
    BY DEF Loses, TInv, TableOrder
  <2>3. table' \subseteq table /\ TableOrder
    BY DEF Loses, TInv
  <2> QED
    BY <2>1, <2>2, <2>3 DEF TableOrder
<1> QED
  BY <1>1, <1>2, WalkKept

(* A nonce stays with whoever has it, or goes to the sessions when its owner *)
(* is dropped.                                                               *)
LEMMA NoncesKept ==
    ASSUME IInv, IInv', TInv, Loses, SameNonces, UNCHANGED <<enonce1, took>>,
           pc'["srecv"] = "enonce" =>
             pc["srecv"] = "enonce" /\ hold'["srecv"] = hold["srecv"],
           \A e \in sessions' :
             \/ e \in sessions
             \/ \E x \in table : /\ e = inst[x].enonce /\ e # 0 /\ ~ inst[x].dropped
                                 /\ (x \notin table' \/ inst'[x].dropped)
    PROVE  Nonces' /\ EnonceUnique'
<1>1. /\ table \subseteq Insts /\ inst \in [Insts -> Instance] /\ "srecv" \in Threads
      /\ inst' \in [Insts -> Instance] /\ table' \subseteq table
      /\ enonce1 \in Nat /\ took \in Nat /\ Nonces /\ EnonceUnique
      /\ sessions \subseteq Nat /\ sessions' \subseteq Nat
  BY DEF IInv, Core, TableTypes, OtherTypes, Threads, TInv, Loses
<1>2. Nonces'
  <2>1. \A e \in sessions' : 0 < e /\ e <= enonce1
    <3> TAKE e \in sessions'
    <3>1. CASE e \in sessions
      BY <3>1, <1>1 DEF Nonces
    <3>2. CASE \E x \in table : e = inst[x].enonce /\ e # 0
      BY <3>2, <1>1 DEF Nonces
    <3> QED
      BY <3>1, <3>2
  <2>2. \A s \in table' : inst'[s].enonce <= enonce1
    BY <1>1 DEF Nonces, SameNonces
  <2>3. pc'["srecv"] = "enonce" => inst'[hold'["srecv"]].enonce = took
    <3> SUFFICES ASSUME pc'["srecv"] = "enonce"
                 PROVE  inst'[hold'["srecv"]].enonce = took
      OBVIOUS
    <3>1. pc["srecv"] = "enonce" /\ hold'["srecv"] = hold["srecv"]
      OBVIOUS
    <3>2. hold'["srecv"] \in table'
      <4>1. hold["srecv"] \in table /\ hold["srecv"] \in Insts
        BY <1>1, <3>1, BusyHolds
      <4> QED
        BY <1>1, <3>1, <4>1, StratifierAssumption DEF IInv, Core, HeldInTable
    <3> QED
      BY <1>1, <3>1, <3>2 DEF SameNonces, Nonces
  <2> QED
    BY <1>1, <2>1, <2>2, <2>3 DEF Nonces
<1>3. EnonceUnique'
  <2>1. ASSUME NEW s \in table', inst'[s].enonce # 0, ~ inst'[s].dropped
        PROVE  /\ s \in table /\ inst[s].enonce = inst'[s].enonce /\ ~ inst[s].dropped
               /\ inst'[s].enonce \notin sessions'
    <3>1. s \in table /\ inst[s].enonce = inst'[s].enonce /\ ~ inst[s].dropped
      BY <1>1, <2>1 DEF SameNonces, Loses
    <3>2. inst[s].enonce \notin sessions
      BY <1>1, <2>1, <3>1 DEF EnonceUnique
    <3>3. ASSUME NEW x \in table, inst[x].enonce = inst[s].enonce, ~ inst[x].dropped,
                 x \notin table' \/ inst'[x].dropped
          PROVE  FALSE
      BY <1>1, <2>1, <3>1, <3>3 DEF EnonceUnique
    <3> QED
      BY <3>1, <3>2, <3>3
  <2> QED
    BY <1>1, <2>1 DEF EnonceUnique
<1> QED
  BY <1>2, <1>3

(* The steps that put nothing into the table, and give no nonce away.        *)
LEMMA OrdinaryKeepsTInv ==
    ASSUME IInv, IInv', TInv, Ordinary \/ LoopDropAll
    PROVE  TInv'
<1>1. Loses /\ SameNonces
  BY OrdinaryLoses
<1>2. UNCHANGED <<enonce1, took>>
  BY DEF Ordinary, LoopDropAll, Admin, LoopUnchanged
<1>3. pc'["srecv"] = "enonce" => pc["srecv"] = "enonce" /\ hold'["srecv"] = hold["srecv"]
  <2>1. CASE TagStep \/ ReleaseStep \/ DropStep \/ WalkStep
    BY <2>1 DEF TagStep, ReleaseStep, DropStep, WalkStep, Onward
  <2>2. CASE TakeStep
    BY <2>2 DEF TakeStep, TakeRef, IInv, OtherTypes, Threads
  <2>3. CASE LoopDropAll
    BY <2>3 DEF LoopDropAll
  <2> QED
    BY <2>1, <2>2, <2>3 DEF Ordinary
<1>4. \A e \in sessions' :
             \/ e \in sessions
             \/ \E x \in table : /\ e = inst[x].enonce /\ e # 0 /\ ~ inst[x].dropped
                                 /\ (x \notin table' \/ inst'[x].dropped)
  <2>1. CASE sessions' = sessions
    BY <2>1
  <2>2. CASE DropStep
    <3>1. PICK s \in table : DropInstance(s) /\ ~ inst[s].dropped
      BY <2>2 DEF DropStep
    <3>2. s \in Insts /\ inst \in [Insts -> Instance]
      BY DEF IInv, Core, TableTypes
    <3>3. s \notin table' \/ inst'[s].dropped
      <4>1. CASE inst[s].ref = 0
        BY <3>1, <4>1 DEF DropInstance, UpdateAndKill, KillInstances
      <4>2. CASE inst[s].ref # 0
        BY <3>1, <3>2, <4>2 DEF DropInstance, Update, Instance
      <4> QED
        BY <4>1, <4>2
    <3>4. \A e \in sessions' : e \in sessions \/ (e = inst[s].enonce /\ e # 0)
      BY <3>1 DEF DropInstance
    <3> QED
      BY <3>1, <3>3, <3>4
  <2> QED
    BY <2>1, <2>2 DEF Ordinary, TagStep, TakeStep, ReleaseStep, WalkStep, LoopDropAll
<1> QED
  BY <1>1, <1>2, <1>3, <1>4, LosesKeeps, NoncesKept DEF TInv

(* The recruited struct gets an id that nobody in the table has.             *)
LEMMA RecruitKeepsTInv ==
    ASSUME IInv, TInv, RecvRecruit
    PROVE  TInv'
<1>1. PICK id \in Ids, s \in Insts \ table :
        /\ TakeRecv(id) /\ At(id) = {} /\ adding' = s
        /\ Update([inst EXCEPT ![s] = [Cleared EXCEPT !.id = id]])
        /\ Goto("srecv", "adding") /\ UNCHANGED hold
  BY DEF RecvRecruit
<1>2. /\ inst \in [Insts -> Instance] /\ table \subseteq Insts /\ "srecv" \in Threads
      /\ pc["srecv"] = "idle" /\ pc'["srecv"] = "adding"
      /\ UNCHANGED <<table, before, todo, sessions, enonce1, took, hold>>
  BY <1>1 DEF IInv, Core, TableTypes, OtherTypes, Threads, TakeRecv, Goto, Update
<1>3. inst'[s] = [Cleared EXCEPT !.id = id] /\ \A x \in table : inst'[x] = inst[x]
  BY <1>1, <1>2 DEF Update
<1>4. AddingNew'
  <2>1. inst'[s].id = id
    BY <1>3 DEF Cleared
  <2>2. \A x \in table : inst'[x].id # id
    BY <1>1, <1>3 DEF At
  <2> QED
    BY <1>1, <1>2, <1>3, <2>1, <2>2 DEF AddingNew
<1>5. UniqueIds' /\ Nonces' /\ EnonceUnique'
  BY <1>2, <1>3 DEF TInv, UniqueIds, Nonces, EnonceUnique
<1>6. TableOrder' /\ WalkAhead'
  BY <1>2 DEF TInv, TableOrder, WalkAhead
<1> QED
  BY <1>4, <1>5, <1>6 DEF TInv

(* It enters the table last, without a nonce.                                *)
LEMMA AddKeepsTInv ==
    ASSUME IInv, TInv, RecvAddInstance
    PROVE  TInv'
<1>1. /\ inst \in [Insts -> Instance] /\ table \subseteq Insts /\ "srecv" \in Threads
      /\ adding \in Insts \ table /\ adding # NoInst
      /\ todo \in [{"stats", "bcast"} -> SUBSET Insts] /\ enonce1 \in Nat
  BY DEF RecvAddInstance, IInv, Busy, AddingApart, Core, TableTypes, OtherTypes, Threads
<1>2. /\ table' = table \union {adding} /\ before' = before \union (table \X {adding})
      /\ inst' = [inst EXCEPT ![adding].ref = @ + 1] /\ adding' = NoInst
      /\ hold' = [hold EXCEPT !["srecv"] = adding]
      /\ UNCHANGED <<sessions, enonce1, took, todo>>
  BY DEF RecvAddInstance
<1>3. pc'["srecv"] = "parse" /\ hold'["stats"] = hold["stats"]
  BY <1>1, <1>2 DEF RecvAddInstance, Goto, IInv, OtherTypes
<1>4. /\ \A s \in table : inst'[s] = inst[s]
      /\ inst'[adding].id = inst[adding].id /\ inst'[adding].enonce = 0
  <2>1. inst[adding].enonce = 0
    BY <1>1 DEF TInv, AddingNew, Cleared
  <2> QED
    BY <1>1, <1>2, <2>1 DEF Instance
<1>5. UniqueIds'
  BY <1>1, <1>2, <1>4 DEF TInv, UniqueIds, AddingNew
<1>6. Nonces'
  BY <1>1, <1>2, <1>3, <1>4 DEF TInv, Nonces
<1>7. EnonceUnique'
  BY <1>1, <1>2, <1>4 DEF TInv, EnonceUnique
<1>8. TableOrder'
  <2>1. before \subseteq table \X table
    BY DEF TInv, TableOrder
  <2>2. \A x, y : <<x, y>> \in before' <=>
                    <<x, y>> \in before \/ (x \in table /\ y = adding)
    BY <1>2
  <2>3. before' \subseteq table' \X table'
    BY <1>2, <2>1
  <2>4. \A x, y : <<x, y>> \in before => x \in table /\ y \in table
    BY <2>1
  <2> QED
    BY <1>1, <1>2, <2>2, <2>3, <2>4 DEF TInv, TableOrder
<1>9. WalkAhead'
  BY <1>2, <1>3 DEF TInv, WalkAhead
<1>10. AddingNew'
  BY <1>2 DEF AddingNew
<1> QED
  BY <1>5, <1>6, <1>7, <1>8, <1>9, <1>10 DEF TInv

(* A session that is resumed is a session no more.                           *)
LEMMA SubscribeKeepsTInv ==
    ASSUME IInv, IInv', TInv, RecvSubscribe
    PROVE  TInv'
<1>1. PICK s \in table, e \in sessions \union {0} :
               /\ Parsing(s) /\ Goto("srecv", "enonce")
               /\ took' = e /\ sessions' = sessions \ {e} /\ enonce1' = enonce1
               /\ Update([inst EXCEPT ![s].useragent = TRUE, ![s].enonce = e])
  BY DEF RecvSubscribe
<1> DEFINE rec == [inst EXCEPT ![s].useragent = TRUE, ![s].enonce = e]
<1>2. /\ inst \in [Insts -> Instance] /\ table \subseteq Insts /\ "srecv" \in Threads
      /\ e \in Nat /\ s \in Insts /\ s = hold["srecv"] /\ enonce1 \in Nat
      /\ UNCHANGED <<table, before, todo, hold, adding>>
  BY <1>1 DEF IInv, Core, TableTypes, OtherTypes, Threads, Parsing, Update
<1>3. inst' = rec /\ rec \in [Insts -> Instance] /\ rec[s].enonce = e
      /\ \A x \in Insts : /\ rec[x].id = inst[x].id /\ rec[x].dropped = inst[x].dropped
                          /\ x # s => rec[x] = inst[x]
  <2>1. inst' = rec
    BY <1>1 DEF Update
  <2>2. inst[s] \in Instance /\ s \in Insts /\ e \in Nat
    BY <1>2
  <2>3. rec[s] = [[inst[s] EXCEPT !.useragent = TRUE] EXCEPT !.enonce = e]
        /\ \A x \in Insts : x # s => rec[x] = inst[x]
    BY <1>2
  <2>4. rec[s] \in Instance /\ rec[s].enonce = e /\ rec[s].id = inst[s].id
        /\ rec[s].dropped = inst[s].dropped
    <3> HIDE DEF rec
    <3> QED
      BY <2>2, <2>3 DEF Instance
  <2>5. rec \in [Insts -> Instance]
    BY <1>2, <2>4
  <2> HIDE DEF rec
  <2> QED
    BY <2>1, <2>3, <2>4, <2>5
<1> HIDE DEF rec
<1>4. Loses
  <2>1. adding # NoInst => inst'[adding] = inst[adding]
    BY <1>2, <1>3 DEF IInv, Busy, AddingApart
  <2>2. before' = {p \in before : p[1] \notin table \ table' /\ p[2] \notin table \ table'}
    BY <1>2
  <2>3. \A x \in table' : inst'[x].id = inst[x].id /\ (inst[x].dropped => inst'[x].dropped)
    BY <1>2, <1>3
  <2> QED
    BY <1>2, <2>1, <2>2, <2>3 DEF Loses
<1>5. e <= enonce1 /\ took' <= enonce1'
  BY <1>1, <1>2 DEF TInv, Nonces
<1>6. Nonces'
  <2>1. \A x \in table' : inst'[x].enonce <= enonce1'
    BY <1>1, <1>2, <1>3, <1>5 DEF TInv, Nonces
  <2>2. inst'[hold'["srecv"]].enonce = took'
    BY <1>1, <1>2, <1>3
  <2>3. \A f \in sessions' : 0 < f /\ f <= enonce1'
    BY <1>1 DEF TInv, Nonces
  <2> QED
    BY <1>5, <2>1, <2>2, <2>3 DEF Nonces
<1>7. EnonceUnique'
  <2>1. \A x \in table \ {s} : inst[x].enonce # 0 /\ ~ inst[x].dropped => inst[x].enonce # e
    BY <1>1, <1>2 DEF TInv, EnonceUnique
  <2> QED
    BY <1>1, <1>2, <1>3, <2>1 DEF TInv, EnonceUnique
<1> QED
  BY <1>4, <1>6, <1>7, LosesKeeps DEF TInv

(* A new nonce is one that was never handed out.                             *)
LEMMA EnonceKeepsTInv ==
    ASSUME IInv, IInv', TInv, RecvEnonce
    PROVE  TInv'
<1> DEFINE s == hold["srecv"]
           e == IF took # 0 THEN took ELSE new_enonce1
           rec == [inst EXCEPT ![s].enonce = e, ![s].subscribed = TRUE]
<1>1. /\ pc["srecv"] = "enonce" /\ Update(rec) /\ Goto("srecv", "done") /\ took' = 0
      /\ enonce1' = (IF took # 0 THEN enonce1 ELSE e)
      /\ UNCHANGED <<sessions, hold, adding>>
  BY DEF RecvEnonce
<1>2. /\ inst \in [Insts -> Instance] /\ table \subseteq Insts /\ "srecv" \in Threads
      /\ enonce1 \in Nat /\ took \in Nat /\ sessions \subseteq Nat
      /\ UNCHANGED <<table, before, todo>>
  BY <1>1 DEF IInv, Core, TableTypes, OtherTypes, Threads, Update
<1>3. s \in table
  BY <1>1, <1>2, BusyHolds
<1>4. e \in Nat /\ enonce1 <= enonce1' /\ e <= enonce1' /\ enonce1' \in Nat
      /\ pc'["srecv"] = "done"
  BY <1>1, <1>2, SMTT(60) DEF new_enonce1, TInv, Nonces, Goto, IInv, OtherTypes
<1>5. inst[s].enonce = took /\ (e = took \/ e > enonce1)
  BY <1>1, <1>2 DEF new_enonce1, TInv, Nonces
<1> HIDE DEF s, e
<1>6. inst' = rec /\ rec \in [Insts -> Instance] /\ rec[s].enonce = e
      /\ \A x \in Insts : /\ rec[x].id = inst[x].id /\ rec[x].dropped = inst[x].dropped
                          /\ x # s => rec[x] = inst[x]
  BY <1>1, <1>2, <1>3, <1>4, ZenonT(60) DEF Update, Instance
<1> HIDE DEF rec
<1>7. Loses
  <2>1. adding # NoInst => inst'[adding] = inst[adding]
    BY <1>3, <1>6 DEF IInv, Busy, AddingApart
  <2>2. before' = {p \in before : p[1] \notin table \ table' /\ p[2] \notin table \ table'}
    BY <1>2
  <2>3. \A x \in table' : inst'[x].id = inst[x].id /\ (inst[x].dropped => inst'[x].dropped)
    BY <1>2, <1>6
  <2> QED
    BY <1>1, <1>2, <2>1, <2>2, <2>3 DEF Loses
<1>8. Nonces'
  <2>1. \A x \in table' : inst'[x].enonce <= enonce1'
    <3> TAKE x \in table'
    <3>1. CASE x = s
      BY <1>4, <1>6, <3>1
    <3>2. CASE x # s
      <4>1. inst'[x] = inst[x] /\ inst[x].enonce \in Nat /\ inst[x].enonce <= enonce1
        BY <1>2, <1>6, <3>2 DEF TInv, Nonces, Instance
      <4> QED
        BY <1>2, <1>4, <4>1
    <3> QED
      BY <3>1, <3>2
  <2>2. \A f \in sessions' : 0 < f /\ f <= enonce1'
    BY <1>1, <1>2, <1>4 DEF TInv, Nonces
  <2> QED
    BY <1>1, <1>4, <2>1, <2>2 DEF Nonces
<1>9. EnonceUnique'
  <2>1. CASE e = took
    <3>1. \A x \in table : inst'[x].enonce = inst[x].enonce /\ inst'[x].dropped = inst[x].dropped
      BY <1>2, <1>3, <1>5, <1>6, <2>1
    <3> QED
      BY <1>1, <1>2, <3>1 DEF TInv, EnonceUnique
  <2>2. CASE e > enonce1
    <3>1. e \notin sessions /\ \A x \in table \ {s} : inst[x].enonce # e
      BY <1>2, <1>4, <2>2 DEF TInv, Nonces, Instance
    <3> QED
      BY <1>1, <1>2, <1>3, <1>6, <3>1 DEF TInv, EnonceUnique
  <2> QED
    BY <1>5, <2>1, <2>2
<1> QED
  BY <1>7, <1>8, <1>9, LosesKeeps DEF TInv

(* generate_user changes nothing of this.                                    *)
LEMMA LinkKeepsTInv ==
    ASSUME IInv, IInv', TInv, AuthLink
    PROVE  TInv'
<1>1. PICK u \in Users : inst' = [inst EXCEPT ![hold["sauth"]].user = u]
  BY DEF AuthLink
<1>2. /\ inst \in [Insts -> Instance] /\ table \subseteq Insts /\ "sauth" \in Threads
      /\ UNCHANGED <<table, before, todo, hold, adding, sessions, enonce1, took>>
      /\ pc["sauth"] = "auth" /\ pc'["srecv"] = pc["srecv"]
  BY DEF AuthLink, AuthUnchanged, IInv, Core, TableTypes, OtherTypes, Threads, Goto
<1>3. hold["sauth"] \in table
  BY <1>2, BusyHolds
<1>4. \A x \in Insts :
        /\ inst'[x].id = inst[x].id /\ inst'[x].dropped = inst[x].dropped
        /\ inst'[x].enonce = inst[x].enonce
        /\ x # hold["sauth"] => inst'[x] = inst[x]
  BY <1>1, <1>2 DEF Instance
<1>5. Loses /\ SameNonces
  <2>1. adding # NoInst => inst'[adding] = inst[adding]
    BY <1>3, <1>4 DEF IInv, Busy, AddingApart
  <2>2. before' = {p \in before : p[1] \notin table \ table' /\ p[2] \notin table \ table'}
    BY <1>2
  <2>3. \A x \in table' : inst'[x].id = inst[x].id /\ (inst[x].dropped => inst'[x].dropped)
    BY <1>2, <1>4
  <2>4. \A x \in table' : inst'[x].enonce = inst[x].enonce
    BY <1>2, <1>4
  <2> QED
    BY <1>2, <2>1, <2>2, <2>3, <2>4 DEF Loses, SameNonces
<1> QED
  BY <1>2, <1>5, LosesKeeps, NoncesKept DEF TInv

(* An empty table is in order.                                               *)
LEMMA InitTInv == Init => TInv
<1> SUFFICES ASSUME Init PROVE TInv
  OBVIOUS
<1>1. table = {} /\ before = {} /\ sessions = {} /\ adding = NoInst /\ took = 0 /\ enonce1 = 0
      /\ pc["srecv"] # "enonce" /\ todo["stats"] = {}
  BY DEF Init, Threads
<1>2. UniqueIds /\ AddingNew /\ EnonceUnique
  BY <1>1 DEF UniqueIds, AddingNew, EnonceUnique
<1>3. Nonces /\ TableOrder /\ WalkAhead
  BY <1>1 DEF Nonces, TableOrder, WalkAhead
<1> QED
  BY <1>2, <1>3 DEF TInv

(* Every step keeps the order of the table and the nonces apart.             *)
LEMMA NextKeepsTInv == IInv /\ IInv' /\ TInv /\ [Next]_vars => TInv'
  BY Sorted, OrdinaryKeepsTInv, RecruitKeepsTInv, AddKeepsTInv, SubscribeKeepsTInv,
     EnonceKeepsTInv, LinkKeepsTInv

(* Ids, nonces and the order of the table, in every reachable state.         *)
THEOREM TableInvariance == Spec => []TInv
<1>1. IInv /\ TInv /\ [Next]_vars => IInv' /\ TInv'
  BY NextKeepsIInv, NextKeepsTInv
<1>2. Init => IInv /\ TInv
  BY InitIInv, InitTInv
<1> QED
  BY <1>1, <1>2, PTL DEF Spec

(* One instance per connection, though __stratum_add_instance releases the   *)
(* lock between the failed lookup and the insertion.                         *)
THEOREM UniqueIdsThm == Spec => []UniqueIds
<1>1. TInv => UniqueIds
  BY DEF TInv
<1> QED
  BY <1>1, TableInvariance, PTL

(* No two miners in service, and no miner and a session, have one enonce1.   *)
THEOREM EnonceUniqueThm == Spec => []EnonceUnique
<1>1. TInv => EnonceUnique
  BY DEF TInv
<1> QED
  BY <1>1, TableInvariance, PTL

(* The walk of statsupdate comes to every instance that is in the table from *)
(* its start to its end.                                                     *)
THEOREM StatsCompleteThm == Spec => []StatsComplete
<1>1. IInv /\ TInv => StatsComplete
  <2> SUFFICES ASSUME IInv, TInv, pc["stats"] = "idle", NEW y \in todo["stats"]
               PROVE  FALSE
    BY DEF StatsComplete
  <2>1. hold["stats"] = NoInst /\ y \in Insts
    BY DEF IInv, Busy, HoldsWhileBusy, Core, TableTypes, Threads
  <2>2. <<NoInst, y>> \in before
    BY <2>1, StratifierAssumption DEF TInv, WalkAhead
  <2> QED
    BY <2>2, StratifierAssumption DEF TInv, TableOrder, IInv, Core, TableTypes
<1> QED
  BY <1>1, Invariance, TableInvariance, PTL

-----------------------------------------------------------------------------
(* The statistics of users and workers.                                      *)

\* w, nw and nu count the users of the instances in T, whose records are f.
Tally(f, T, w, nw, nu) ==
    /\ \A u \in Users : w[u] = Cardinality({s \in T : f[s].user = u})
    /\ nw = Cardinality({s \in T : f[s].user # NoUser})
    /\ nu = Cardinality({u \in Users : w[u] # 0})

(* stats.users is the number of users that instances in the table have.      *)
LEMMA TallyIs ==
    ASSUME NEW f \in [Insts -> Instance], NEW T \in SUBSET Insts, NEW w, NEW nw, NEW nu
    PROVE  Tally(f, T, w, nw, nu) <=>
             /\ \A u \in Users : w[u] = Cardinality({s \in T : f[s].user = u})
             /\ nw = Cardinality({s \in T : f[s].user # NoUser})
             /\ nu = Cardinality({f[s].user : s \in {x \in T : f[x].user # NoUser}})
<1> SUFFICES ASSUME \A u \in Users : w[u] = Cardinality({s \in T : f[s].user = u})
             PROVE  {f[s].user : s \in {x \in T : f[x].user # NoUser}}
                      = {u \in Users : w[u] # 0}
  BY Zenon DEF Tally
<1>1. IsFiniteSet(T) /\ \A s \in T : f[s].user \in Users \union {NoUser}
  BY StratifierAssumption, FS_Subset DEF Instance
<1>2. ASSUME NEW u \in Users
      PROVE  w[u] # 0 <=> \E s \in T : f[s].user = u
  <2> DEFINE S == {s \in T : f[s].user = u}
  <2>1. IsFiniteSet(S) /\ w[u] = Cardinality(S)
    BY <1>1, FS_Subset
  <2>2. w[u] # 0 <=> S # {}
    <3> HIDE DEF S
    <3> QED
      BY <2>1, FS_EmptySet
  <2> QED
    BY <2>2
<1> QED
  BY <1>1, <1>2, StratifierAssumption

(* An instance without a user comes, or nothing happens at all.              *)
LEMMA TallySame ==
    ASSUME NEW f, NEW g, NEW T, NEW T2, NEW w, NEW nw, NEW nu, Tally(f, T, w, nw, nu),
           T \subseteq T2, \A s \in T : g[s].user = f[s].user,
           \A s \in T2 \ T : g[s].user = NoUser
    PROVE  Tally(g, T2, w, nw, nu)
<1>1. \A u \in Users : {s \in T2 : g[s].user = u} = {s \in T : f[s].user = u}
  BY StratifierAssumption
<1>2. {s \in T2 : g[s].user # NoUser} = {s \in T : f[s].user # NoUser}
  OBVIOUS
<1> QED
  BY <1>1, <1>2, Zenon DEF Tally

\* The instances of S that user u has, those that have any user, and the users
\* whose count of workers w comes to nothing in v.
OfUser(f, S, u) == {s \in S : f[s].user = u}
OfAny(f, S) == {s \in S : f[s].user # NoUser}
Left(w, v) == {u \in Users : w[u] # 0 /\ v[u] = 0}

(* Instances are killed, with what __dec_worker does for each.               *)
LEMMA TallyKill ==
    ASSUME NEW f, NEW g, NEW T \in SUBSET Insts, NEW S \in SUBSET T,
           NEW w \in [Users -> Int], NEW v, NEW nw \in Int, NEW nu \in Int,
           Tally(f, T, w, nw, nu), \A s \in T \ S : g[s].user = f[s].user,
           \A u \in Users : v[u] = w[u] - Cardinality(OfUser(f, S, u))
    PROVE  Tally(g, T \ S, v, nw - Cardinality(OfAny(f, S)), nu - Cardinality(Left(w, v)))
<1>1. IsFiniteSet(T) /\ IsFiniteSet(Users)
  BY StratifierAssumption, FS_Subset
<1>2. ASSUME NEW A \in SUBSET T, NEW B, B = A \ S
      PROVE  /\ Cardinality(B) = Cardinality(A) - Cardinality(A \intersect S)
             /\ IsFiniteSet(B) /\ Cardinality(B) \in Nat /\ Cardinality(A) \in Nat
             /\ Cardinality(B) <= Cardinality(A)
  <2>1. IsFiniteSet(A)
    BY <1>1, FS_Subset
  <2> QED
    BY <1>2, <2>1, FS_Difference, FS_Subset, FS_CardinalityType
<1>3. ASSUME NEW u \in Users
      PROVE  /\ v[u] = Cardinality({s \in T \ S : g[s].user = u})
             /\ v[u] \in Nat /\ w[u] \in Nat /\ v[u] <= w[u]
  <2> DEFINE A == {s \in T : f[s].user = u}
             B == {s \in T \ S : g[s].user = u}
             C == OfUser(f, S, u)
  <2>1. A \in SUBSET T /\ B = A \ S /\ A \intersect S = C
    BY DEF OfUser
  <2>2. w[u] = Cardinality(A) /\ v[u] = w[u] - Cardinality(C)
    BY DEF Tally
  <2> HIDE DEF A, B, C
  <2>3. v[u] = Cardinality(B) /\ v[u] \in Nat /\ w[u] \in Nat /\ v[u] <= w[u]
    BY <1>2, <2>1, <2>2
  <2> QED
    BY <2>3 DEF B
<1>4. nw - Cardinality(OfAny(f, S))
        = Cardinality({s \in T \ S : g[s].user # NoUser})
  <2> DEFINE A == {s \in T : f[s].user # NoUser}
             B == {s \in T \ S : g[s].user # NoUser}
             C == OfAny(f, S)
  <2>1. A \in SUBSET T /\ B = A \ S /\ A \intersect S = C
    BY DEF OfAny
  <2>2. nw = Cardinality(A)
    BY DEF Tally
  <2> HIDE DEF A, B, C
  <2>3. nw - Cardinality(C) = Cardinality(B)
    BY <1>2, <2>1, <2>2
  <2> QED
    BY <2>3 DEF B, C
<1>5. nu - Cardinality(Left(w, v))
        = Cardinality({u \in Users : v[u] # 0})
  <2> DEFINE A == {u \in Users : w[u] # 0}
             B == Left(w, v)
             C == {u \in Users : v[u] # 0}
  <2>0. \A u \in Users : v[u] # 0 <=> w[u] # 0 /\ ~ (w[u] # 0 /\ v[u] = 0)
    <3> TAKE u \in Users
    <3>1. v[u] \in Nat /\ w[u] \in Nat /\ v[u] <= w[u]
      BY <1>3
    <3> QED
      BY <3>1
  <2>1. C = A \ B /\ A \intersect B = B /\ A \in SUBSET Users
    BY <2>0 DEF Left
  <2>2. nu = Cardinality(A)
    BY DEF Tally
  <2> HIDE DEF A, B, C
  <2>3. IsFiniteSet(A)
    BY <1>1, <2>1, FS_Subset
  <2>4. nu - Cardinality(B) = Cardinality(C)
    <3>1. Cardinality(A \ B) = Cardinality(A) - Cardinality(A \intersect B)
      BY <2>3, FS_Difference
    <3> QED
      BY <2>1, <2>2, <3>1, Zenon
  <2> QED
    BY <2>4 DEF B, C
<1> QED
  BY <1>3, <1>4, <1>5 DEF Tally

(* generate_user links an instance that was not linked.                      *)
LEMMA TallyLink ==
    ASSUME NEW f \in [Insts -> Instance], NEW g, NEW T \in SUBSET Insts, NEW s \in T,
           NEW u \in Users,
           NEW w \in [Users -> Int], NEW v, NEW nw, NEW nu, Tally(f, T, w, nw, nu),
           f[s].user = NoUser, g = [f EXCEPT ![s].user = u], v = [w EXCEPT ![u] = @ + 1]
    PROVE  Tally(g, T, v, nw + 1, nu + (IF w[u] = 0 THEN 1 ELSE 0))
<1>1. IsFiniteSet(T) /\ IsFiniteSet(Users)
  BY StratifierAssumption, FS_Subset
<1>2. g[s].user = u /\ \A x \in T \ {s} : g[x].user = f[x].user
  BY DEF Instance
<1>3. ASSUME NEW x \in Users
      PROVE  v[x] = Cardinality({y \in T : g[y].user = x})
  <2> DEFINE A == {y \in T : f[y].user = x}
             B == {y \in T : g[y].user = x}
  <2>1. IsFiniteSet(A) /\ w[x] = Cardinality(A)
    BY <1>1, FS_Subset DEF Tally
  <2>2. s \notin A /\ B = IF x = u THEN A \union {s} ELSE A
    BY <1>2, StratifierAssumption
  <2> HIDE DEF A, B
  <2>3. Cardinality(B) = IF x = u THEN Cardinality(A) + 1 ELSE Cardinality(A)
    BY <2>1, <2>2, FS_AddElement
  <2>4. v[x] = Cardinality(B)
    BY <2>1, <2>3
  <2> QED
    BY <2>4 DEF B
<1>4. nw + 1 = Cardinality({y \in T : g[y].user # NoUser})
  <2> DEFINE A == {y \in T : f[y].user # NoUser}
             B == {y \in T : g[y].user # NoUser}
  <2>1. IsFiniteSet(A) /\ nw = Cardinality(A)
    BY <1>1, FS_Subset DEF Tally
  <2>2. s \notin A /\ B = A \union {s}
    BY <1>2, StratifierAssumption
  <2> HIDE DEF A, B
  <2>3. Cardinality(B) = nw + 1
    BY <2>1, <2>2, FS_AddElement
  <2> QED
    BY <2>3 DEF B
<1>5. nu + (IF w[u] = 0 THEN 1 ELSE 0) = Cardinality({x \in Users : v[x] # 0})
  <2> DEFINE A == {x \in Users : w[x] # 0}
             B == {x \in Users : v[x] # 0}
  <2>1. IsFiniteSet(A) /\ nu = Cardinality(A) /\ Cardinality(A) \in Nat
    BY <1>1, FS_Subset, FS_CardinalityType DEF Tally
  <2>2. w[u] = Cardinality({y \in T : f[y].user = u}) /\ w[u] \in Nat
    <3>1. IsFiniteSet({y \in T : f[y].user = u})
      BY <1>1, FS_Subset
    <3> QED
      BY <3>1, FS_CardinalityType DEF Tally
  <2>a. \A x \in Users : v[x] # 0 <=> w[x] # 0 \/ x = u
    BY <2>2
  <2>3. B = A \union {u} /\ (u \in A <=> w[u] # 0)
    BY <2>a
  <2> HIDE DEF A, B
  <2>4. Cardinality(B) = IF w[u] = 0 THEN Cardinality(A) + 1 ELSE Cardinality(A)
    BY <2>1, <2>3, FS_AddElement
  <2>5. Cardinality(B) = nu + (IF w[u] = 0 THEN 1 ELSE 0)
    BY <2>1, <2>4
  <2> QED
    BY <2>5 DEF B
<1> QED
  BY <1>3, <1>4, <1>5 DEF Tally

\* Whoever has a user has begun to authorise, so is not linked again.
Linking ==
    /\ \A s \in table : inst[s].user # NoUser => inst[s].authorising \/ inst[s].authorised
    /\ pc["sauth"] = "auth" =>
         LET s == hold["sauth"]
         IN  inst[s].user = NoUser /\ (inst[s].authorising \/ inst[s].authorised)

\* The statistics count the instances in the table and their users.
Tallied == Tally(inst, table, workers, nworkers, nusers)

\* WorkersCounted, inductive out of solo mode.
WInv == Tallied /\ Linking

(* The statistics follow every step of the sorts.                            *)
LEMMA OrdinaryTallied ==
    ASSUME IInv, Tallied, Ordinary
    PROVE  Tallied'
<1>1. /\ inst \in [Insts -> Instance] /\ table \in SUBSET Insts
      /\ workers \in [Users -> Int] /\ nworkers \in Int /\ nusers \in Int
      /\ hold \in [Threads -> Insts \union {NoInst}]
  BY DEF IInv, Core, TableTypes, OtherTypes
<1>2. SameUsers /\ table' \subseteq table
  BY OrdinaryLoses DEF Loses
<1>3. CASE UNCHANGED <<table, workers, nworkers, nusers>>
  BY <1>2, <1>3, TallySame DEF Tallied, SameUsers
<1>4. ASSUME NEW rec, NEW S \in SUBSET table, UpdateAndKill(rec, S)
      PROVE  Tallied'
  <2>1. /\ table' = table \ S
        /\ \A u \in Users : workers'[u] = workers[u] - Cardinality(OfUser(inst, S, u))
        /\ nworkers' = nworkers - Cardinality(OfAny(inst, S))
        /\ nusers' = nusers - Cardinality(Left(workers, workers'))
    BY <1>4 DEF UpdateAndKill, KillInstances, Linked, OfUser, OfAny, Left
  <2>2. \A s \in table \ S : inst'[s].user = inst[s].user
    BY <1>2, <2>1 DEF SameUsers
  <2>3. Tally(inst', table \ S, workers', nworkers - Cardinality(OfAny(inst, S)),
              nusers - Cardinality(Left(workers, workers')))
    BY <1>1, <2>1, <2>2, TallyKill DEF Tallied
  <2> QED
    BY <2>1, <2>3 DEF Tallied
<1>5. CASE TagStep \/ TakeStep \/ WalkStep
  BY <1>3, <1>5 DEF TagStep, TakeStep, WalkStep, TakeRef, Update, MoveOn
<1>6. CASE ReleaseStep
  <2>1. PICK t \in Handlers : DecInstanceRef(t) /\ hold[t] # NoInst
    BY <1>6 DEF ReleaseStep
  <2>2. hold[t] \in table
    BY <2>1 DEF Handlers, Threads, IInv, Core, HeldInTable
  <2> DEFINE rec == [inst EXCEPT ![hold[t]].ref = @ - 1]
             S == IF rec[hold[t]].dropped /\ rec[hold[t]].ref = 0 THEN {hold[t]} ELSE {}
  <2>3. UpdateAndKill(rec, S)
    BY <2>1 DEF DecInstanceRef
  <2>4. S \in SUBSET table
    BY <2>2
  <2> HIDE DEF rec, S
  <2> QED
    BY <1>4, <2>3, <2>4
<1>7. CASE DropStep
  <2>1. PICK s \in table : DropInstance(s)
    BY <1>7 DEF DropStep
  <2>2. CASE inst[s].ref = 0
    <3>1. UpdateAndKill(inst, {s}) /\ {s} \in SUBSET table
      BY <2>1, <2>2 DEF DropInstance
    <3> QED
      BY <1>4, <3>1
  <2>3. CASE inst[s].ref # 0
    BY <1>3, <2>1, <2>3 DEF DropInstance, Update
  <2> QED
    BY <2>2, <2>3
<1> QED
  BY <1>5, <1>6, <1>7 DEF Ordinary

\* An instance thread t holds at another moment than it came to hold it.
LEMMA HeldThen ==
    ASSUME IInv, IInv', NEW t \in Threads, pc[t] \notin {"idle", "adding", "tag"},
           hold'[t] = hold[t]
    PROVE  hold[t] \in table /\ hold[t] \in table'
<1>1. hold[t] \in table /\ hold[t] \in Insts
  BY BusyHolds
<1> QED
  BY <1>1, StratifierAssumption DEF IInv, Core, HeldInTable

(* Whoever sauth authorises has no user yet, and is marked as authorising.   *)
LEMMA OrdinaryLinking ==
    ASSUME ~ BtcSolo, IInv, IInv', Linking, Ordinary
    PROVE  Linking'
<1>1. /\ SameUsers /\ table' \subseteq table /\ "sauth" \in Threads
      /\ hold \in [Threads -> Insts \union {NoInst}] /\ table \subseteq Insts
  BY OrdinaryLoses DEF Loses, Threads, IInv, OtherTypes, Core, TableTypes
<1>2. \A s \in table' : inst'[s].user # NoUser => inst'[s].authorising \/ inst'[s].authorised
  BY <1>1 DEF Linking, SameUsers
<1> DEFINE Fine(s) == inst'[s].user = NoUser /\ (inst'[s].authorising \/ inst'[s].authorised)
<1>3. ASSUME pc'["sauth"] = "auth", pc["sauth"] = "auth", hold'["sauth"] = hold["sauth"]
      PROVE  Fine(hold'["sauth"])
  <2>1. hold["sauth"] \in table'
    BY <1>1, <1>3, HeldThen
  <2> QED
    BY <1>1, <1>3, <2>1 DEF Linking, SameUsers
<1>4. ASSUME pc'["sauth"] = "auth"
      PROVE  Fine(hold'["sauth"])
  <2>1. CASE TagStep \/ ReleaseStep \/ DropStep \/ WalkStep
    BY <1>3, <1>4, <2>1 DEF TagStep, ReleaseStep, DropStep, WalkStep, Onward
  <2>2. CASE TakeStep
    <3>1. PICK t \in Handlers, s \in table, rec \in [Insts -> Instance] :
            /\ hold' = [hold EXCEPT ![t] = s] /\ table' = table
            /\ inst' = [rec EXCEPT ![s].ref = @ + 1]
            /\ IF t = "sauth"
                 THEN ~ inst[s].authorising /\ ~ inst[s].authorised /\ rec[s].authorising
               ELSE pc["sauth"] = "auth"
      BY <1>4, <2>2 DEF TakeStep, TakeRef, Update
    <3>2. CASE t = "sauth"
      <4>1. hold'["sauth"] = s /\ inst[s].user = NoUser /\ inst'[s].user = inst[s].user
        BY <1>1, <3>1, <3>2 DEF Linking, SameUsers
      <4>2. inst'[s].authorising
        BY <1>1, <3>1, <3>2 DEF Instance
      <4> QED
        BY <4>1, <4>2
    <3>3. CASE t # "sauth"
      BY <1>1, <1>3, <1>4, <3>1, <3>3
    <3> QED
      BY <3>2, <3>3
  <2> QED
    BY <2>1, <2>2 DEF Ordinary
<1> QED
  BY <1>2, <1>4 DEF Linking

(* Out of solo mode, and without dropall, every step keeps the counts.       *)
LEMMA NextKeepsWInv ==
    ASSUME ~ BtcSolo, "dropall" \notin AdminCmds, IInv, IInv', TInv, WInv, [Next]_vars
    PROVE  WInv'
<1>1. /\ inst \in [Insts -> Instance] /\ table \in SUBSET Insts /\ "sauth" \in Threads
      /\ "srecv" \in Threads
      /\ workers \in [Users -> Int] /\ nworkers \in Int /\ nusers \in Int
  BY DEF IInv, Core, TableTypes, Threads
<1>2. CASE Ordinary
  BY <1>2, OrdinaryTallied, OrdinaryLinking DEF WInv
<1>3. CASE RecvRecruit
  <2>1. PICK s \in Insts \ table : \E id \in Ids :
          /\ TakeRecv(id) /\ Update([inst EXCEPT ![s] = [Cleared EXCEPT !.id = id]])
          /\ Goto("srecv", "adding") /\ UNCHANGED hold
    BY <1>3 DEF RecvRecruit
  <2>2. /\ UNCHANGED <<table, workers, nworkers, nusers, hold>> /\ pc'["sauth"] = pc["sauth"]
        /\ \A x \in table : inst'[x] = inst[x]
    BY <1>1, <2>1 DEF Update, Goto, IInv, OtherTypes
  <2>3. Tallied'
    BY <2>2, TallySame DEF WInv, Tallied
  <2>4. pc["sauth"] = "auth" => hold["sauth"] \in table
    BY <1>1, BusyHolds
  <2>5. Linking'
    BY <2>2, <2>4 DEF WInv, Linking
  <2> QED
    BY <2>3, <2>5 DEF WInv
<1>4. CASE RecvAddInstance
  <2>1. /\ adding \in Insts \ table /\ adding # NoInst
        /\ inst[adding] = [Cleared EXCEPT !.id = inst[adding].id]
    BY <1>4 DEF RecvAddInstance, IInv, Busy, AddingApart, TInv, AddingNew
  <2>2. /\ table' = table \union {adding} /\ inst' = [inst EXCEPT ![adding].ref = @ + 1]
        /\ hold' = [hold EXCEPT !["srecv"] = adding] /\ Goto("srecv", "parse")
        /\ UNCHANGED <<workers, nworkers, nusers>>
    BY <1>4 DEF RecvAddInstance
  <2>3. inst'[adding].user = NoUser /\ \A x \in table : inst'[x] = inst[x]
    BY <1>1, <2>1, <2>2 DEF Cleared, Instance
  <2>4. Tallied'
    BY <2>2, <2>3, TallySame DEF WInv, Tallied
  <2>5. pc'["sauth"] = pc["sauth"] /\ hold'["sauth"] = hold["sauth"]
    BY <1>1, <2>2 DEF Goto, IInv, OtherTypes
  <2>6. pc["sauth"] = "auth" => hold["sauth"] \in table
    BY <1>1, BusyHolds
  <2>7. Linking'
    BY <2>2, <2>3, <2>5, <2>6 DEF WInv, Linking
  <2> QED
    BY <2>4, <2>7 DEF WInv
<1>5. CASE RecvSubscribe \/ RecvEnonce
  <2>1. /\ UNCHANGED hold /\ pc'["sauth"] = pc["sauth"]
        /\ \E s \in Insts : \E e :
             \/ Update([inst EXCEPT ![s].useragent = TRUE, ![s].enonce = e])
             \/ Update([inst EXCEPT ![s].enonce = e, ![s].subscribed = TRUE])
    <3>1. CASE RecvSubscribe
      <4>1. PICK s \in table, e \in sessions \union {0} :
              /\ Parsing(s) /\ Goto("srecv", "enonce")
              /\ Update([inst EXCEPT ![s].useragent = TRUE, ![s].enonce = e])
        BY <3>1 DEF RecvSubscribe
      <4>2. UNCHANGED hold /\ pc'["sauth"] = pc["sauth"] /\ s \in Insts
        BY <1>1, <4>1 DEF Parsing, Goto, IInv, OtherTypes
      <4> QED
        BY <4>1, <4>2, Zenon
    <3>2. CASE RecvEnonce
      <4> DEFINE h == hold["srecv"]
                 n == IF took # 0 THEN took ELSE new_enonce1
      <4>1. /\ pc["srecv"] = "enonce" /\ Goto("srecv", "done") /\ UNCHANGED hold
            /\ Update([inst EXCEPT ![h].enonce = n, ![h].subscribed = TRUE])
        BY <3>2 DEF RecvEnonce
      <4>2. pc'["sauth"] = pc["sauth"] /\ h \in Insts
        BY <1>1, <4>1, BusyHolds DEF Goto, IInv, OtherTypes
      <4> HIDE DEF h, n
      <4> QED
        BY <4>1, <4>2, Zenon
    <3> QED
      BY <1>5, <3>1, <3>2
  <2>2. /\ UNCHANGED <<table, workers, nworkers, nusers, hold>> /\ pc'["sauth"] = pc["sauth"]
        /\ \A x \in Insts : /\ inst'[x].user = inst[x].user
                            /\ inst'[x].authorising = inst[x].authorising
                            /\ inst'[x].authorised = inst[x].authorised
    BY <1>1, <2>1 DEF Update, Instance
  <2>3. Tallied'
    BY <1>1, <2>2, TallySame DEF WInv, Tallied
  <2>4. pc["sauth"] = "auth" => hold["sauth"] \in Insts
    BY <1>1, BusyHolds
  <2>5. Linking'
    BY <1>1, <2>2, <2>4 DEF WInv, Linking
  <2> QED
    BY <2>3, <2>5 DEF WInv
<1>6. CASE AuthLink
  <2>1. PICK u \in Users : /\ inst' = [inst EXCEPT ![hold["sauth"]].user = u]
                           /\ workers' = [workers EXCEPT ![u] = @ + 1]
                           /\ nusers' = nusers + (IF workers[u] = 0 THEN 1 ELSE 0)
    BY <1>6 DEF AuthLink
  <2>2. /\ pc["sauth"] = "auth" /\ nworkers' = nworkers + 1 /\ table' = table
        /\ pc'["sauth"] = "linked"
    BY <1>1, <1>6 DEF AuthLink, Goto, IInv, OtherTypes
  <2>3. hold["sauth"] \in table /\ inst[hold["sauth"]].user = NoUser
    BY <1>1, <2>2, BusyHolds DEF WInv, Linking
  <2>4. Tallied'
    BY <1>1, <2>1, <2>2, <2>3, TallyLink DEF WInv, Tallied
  <2>5. inst[hold["sauth"]].authorising \/ inst[hold["sauth"]].authorised
    BY <2>2 DEF WInv, Linking
  <2>6. Linking'
    BY <1>1, <2>1, <2>2, <2>3, <2>5 DEF WInv, Linking, Instance
  <2> QED
    BY <2>4, <2>6 DEF WInv
<1>7. ~ LoopDropAll
  BY DEF LoopDropAll, Admin
<1> QED
  BY <1>2, <1>3, <1>4, <1>5, <1>6, <1>7, Sorted

(* An empty table has no users and no workers.                               *)
LEMMA InitWInv == Init => WInv
<1> SUFFICES ASSUME Init PROVE WInv
  OBVIOUS
<1>1. table = {} /\ nworkers = 0 /\ nusers = 0 /\ workers = [u \in Users |-> 0]
      /\ pc["sauth"] # "auth"
  BY DEF Init, Threads
<1>2. Cardinality({}) = 0
  BY FS_EmptySet
<1>3. /\ \A u \in Users : {s \in table : inst[s].user = u} = {}
      /\ {s \in table : inst[s].user # NoUser} = {} /\ {u \in Users : workers[u] # 0} = {}
  BY <1>1
<1> QED
  BY <1>1, <1>2, <1>3 DEF WInv, Tallied, Tally, Linking

(* user->workers, stats.workers and stats.users count the instances in the   *)
(* table and their users, whatever the order of authorisations and drops.    *)
(* Not so in solo mode, where an instance may authorise a second time, nor   *)
(* when an operator has all clients dropped (section 4 of the README).       *)
THEOREM WorkersCountedThm ==
    ASSUME ~ BtcSolo, "dropall" \notin AdminCmds
    PROVE  Spec => []WorkersCounted
<1>1. IInv /\ TInv /\ WInv /\ [Next]_vars => IInv' /\ TInv' /\ WInv'
  BY NextKeepsIInv, NextKeepsTInv, NextKeepsWInv
<1>2. Init => IInv /\ TInv /\ WInv
  BY InitIInv, InitTInv, InitWInv
<1>3. IInv /\ WInv => WorkersCounted
  <2> SUFFICES ASSUME IInv, WInv PROVE WorkersCounted
    OBVIOUS
  <2>1. inst \in [Insts -> Instance] /\ table \in SUBSET Insts
    BY DEF IInv, Core, TableTypes
  <2>2. Tally(inst, table, workers, nworkers, nusers)
    BY DEF WInv, Tallied
  <2> QED
    BY <2>1, <2>2, TallyIs, Zenon DEF WorkersCounted, Linked
<1> QED
  BY <1>1, <1>2, <1>3, PTL DEF Spec

-----------------------------------------------------------------------------
(* The contract of a reference-counted table.                                *)

\* The refinement mapping of LR, struct by struct.
PhaseOf(s) == IF s \notin table THEN "free" ELSE IF inst[s].dropped THEN "dying" ELSE "live"

\* What the contract allows a step to do to struct s.
Allowed(s) ==
    \/ PhaseOf(s)' = PhaseOf(s) /\ HoldersOf(s)' = HoldersOf(s)
    \/ /\ PhaseOf(s) = "free" /\ PhaseOf(s)' = "live"
       /\ \E t \in Threads : HoldersOf(s)' = {t}
    \/ /\ PhaseOf(s)' = PhaseOf(s)
       /\ \E t \in Threads \ HoldersOf(s) :
            /\ HoldersOf(s)' = HoldersOf(s) \union {t}
            /\ PhaseOf(s) = "live" \/ (PhaseOf(s) = "dying" /\ t \in {"stats", "bcast"})
    \/ /\ PhaseOf(s)' = PhaseOf(s)
       /\ \E t \in HoldersOf(s) : HoldersOf(s)' = HoldersOf(s) \ {t}
    \/ PhaseOf(s) = "live" /\ PhaseOf(s)' = "dying" /\ HoldersOf(s)' = HoldersOf(s)
    \/ /\ PhaseOf(s) # "free" /\ PhaseOf(s)' = "free" /\ HoldersOf(s)' = {}
       /\ HoldersOf(s) = {} \/ (PhaseOf(s) = "dying" /\ \E t \in Threads : HoldersOf(s) = {t})

(* A step that removes nobody and tags nobody leaves every phase as it is.   *)
LEMMA PhaseKept ==
    ASSUME NEW s \in Insts, table' = table, s \in table => inst'[s].dropped = inst[s].dropped
    PROVE  PhaseOf(s)' = PhaseOf(s)
  BY DEF PhaseOf

(* A step that may tag struct s, and leaves it where it is.                  *)
LEMMA PhaseTagged ==
    ASSUME NEW s \in Insts, s \in table' <=> s \in table,
           s \in table /\ inst[s].dropped => inst'[s].dropped
    PROVE  PhaseOf(s)' = PhaseOf(s) \/ (PhaseOf(s) = "live" /\ PhaseOf(s)' = "dying")
<1>1. CASE s \notin table
  BY <1>1 DEF PhaseOf
<1>2. CASE s \in table /\ inst[s].dropped
  BY <1>2 DEF PhaseOf
<1>3. CASE s \in table /\ ~ inst[s].dropped
  BY <1>3 DEF PhaseOf
<1> QED
  BY <1>1, <1>2, <1>3

(* A thread that moves on from what it held to x.                            *)
LEMMA HoldersMoved ==
    ASSUME IInv, NEW t \in Threads, NEW x, hold' = [hold EXCEPT ![t] = x], NEW s \in Insts
    PROVE  /\ s = x /\ s # hold[t] => /\ t \notin HoldersOf(s)
                                      /\ HoldersOf(s)' = HoldersOf(s) \union {t}
           /\ s # x /\ s = hold[t] => /\ t \in HoldersOf(s)
                                      /\ HoldersOf(s)' = HoldersOf(s) \ {t}
           /\ (s = x <=> s = hold[t]) => HoldersOf(s)' = HoldersOf(s)
<1>1. \A u \in Threads : hold'[u] = IF u = t THEN x ELSE hold[u]
  BY DEF IInv, OtherTypes
<1> QED
  BY <1>1 DEF HoldersOf

(* The holders of s are as many as its reference count says.                 *)
LEMMA Counted ==
    ASSUME IInv, NEW s \in Insts
    PROVE  /\ inst[s].ref = 0 => HoldersOf(s) = {}
           /\ inst[s].ref = 1 => \A t \in HoldersOf(s) : HoldersOf(s) = {t}
<1>1. HoldersOf(s) = HoldersIn(hold, s)
  BY DEF HoldersOf, HoldersIn
<1>2. inst[s].ref = Cardinality(HoldersIn(hold, s))
  BY DEF IInv, Core, AllRefsCounted
<1>3. IsFiniteSet(HoldersIn(hold, s))
  BY HoldersFinite
<1>4. inst[s].ref = 0 => HoldersOf(s) = {}
  BY <1>1, <1>2, <1>3, FS_EmptySet
<1>5. ASSUME inst[s].ref = 1, NEW t \in HoldersOf(s)
      PROVE  HoldersOf(s) = {t}
  <2>1. Cardinality(HoldersIn(hold, s)) = 1
    BY <1>2, <1>5
  <2>2. PICK h : HoldersIn(hold, s) = {h}
    BY <1>3, <2>1, FS_Singleton
  <2> QED
    BY <1>1, <1>5, <2>2
<1> QED
  BY <1>4, <1>5

(* Nobody holds a struct that is not in the table.                           *)
LEMMA FreeUnheld == ASSUME IInv, NEW s \in Insts, s \notin table PROVE HoldersOf(s) = {}
<1>1. s # NoInst
  BY StratifierAssumption
<1> QED
  BY <1>1 DEF IInv, Core, HeldInTable, HoldersOf

(* The steps of the sorts keep the contract.                                 *)
LEMMA OrdinaryAllowed ==
    ASSUME IInv, Ordinary, NEW s \in Insts
    PROVE  Allowed(s)
<1>1. inst \in [Insts -> Instance] /\ table \subseteq Insts /\ inst[s] \in Instance
  BY DEF IInv, Core, TableTypes
<1>2. CASE TagStep
  <2>1. PICK rec \in [Insts -> Instance] : Update(rec) /\ Tagged(rec) /\ hold' = hold
    BY <1>2 DEF TagStep
  <2>2. table' = table /\ inst'[s] = rec[s] /\ HoldersOf(s)' = HoldersOf(s)
    BY <2>1 DEF Update, HoldersOf
  <2>3. inst[s].dropped => inst'[s].dropped
    BY <2>1, <2>2 DEF Tagged
  <2>4. PhaseOf(s)' = PhaseOf(s) \/ (PhaseOf(s) = "live" /\ PhaseOf(s)' = "dying")
    BY <2>2, <2>3, PhaseTagged
  <2> QED
    BY <2>2, <2>4 DEF Allowed
<1>3. CASE TakeStep
  <2>1. PICK t \in Handlers, x \in table, rec \in [Insts -> Instance] :
          /\ TakeRef(t, x, rec) /\ \A y \in Insts : rec[y].dropped = inst[y].dropped
          /\ ~ inst[x].dropped /\ hold[t] = NoInst
    BY <1>3 DEF TakeStep
  <2>2. t \in Threads /\ hold' = [hold EXCEPT ![t] = x] /\ table' = table /\ s # hold[t]
    BY <2>1, StratifierAssumption DEF Handlers, Threads, TakeRef, Update
  <2>3. inst'[s].dropped = inst[s].dropped
    BY <1>1, <2>1 DEF TakeRef, Update, Instance
  <2>4. PhaseOf(s)' = PhaseOf(s)
    BY <2>2, <2>3, PhaseKept
  <2>5. CASE s = x
    <3>1. PhaseOf(s) = "live"
      BY <2>1, <2>5 DEF PhaseOf
    <3>2. t \in Threads \ HoldersOf(s) /\ HoldersOf(s)' = HoldersOf(s) \union {t}
      BY <2>2, <2>5, HoldersMoved
    <3> QED
      BY <2>4, <3>1, <3>2 DEF Allowed
  <2>6. CASE s # x
    BY <2>2, <2>4, <2>6, HoldersMoved, ZenonT(60) DEF Allowed
  <2> QED
    BY <2>5, <2>6
<1>4. CASE ReleaseStep
  <2>1. PICK t \in Handlers : DecInstanceRef(t) /\ hold[t] # NoInst
    BY <1>4 DEF ReleaseStep
  <2>2. t \in Threads /\ hold' = [hold EXCEPT ![t] = NoInst] /\ hold[t] \in table /\ s # NoInst
    BY <2>1, StratifierAssumption
       DEF Handlers, Threads, DecInstanceRef, IInv, Core, HeldInTable
  <2> DEFINE rec == [inst EXCEPT ![hold[t]].ref = @ - 1]
             S == IF rec[hold[t]].dropped /\ rec[hold[t]].ref = 0 THEN {hold[t]} ELSE {}
  <2>3. /\ table' = table \ S
        /\ \A y \in Insts : inst'[y] = IF y \in S THEN Cleared ELSE rec[y]
    BY <2>1 DEF DecInstanceRef, UpdateAndKill, KillInstances
  <2>4. /\ rec[s].dropped = inst[s].dropped
        /\ s = hold[t] => rec[s].ref = inst[s].ref - 1
    BY <1>1, <2>2 DEF Instance
  <2>5. CASE s \in S
    <3>1. s = hold[t] /\ inst[s].dropped /\ inst[s].ref = 1 /\ s \in table
      <4>1. s = hold[t] /\ rec[s].dropped /\ rec[s].ref = 0
        BY <2>5
      <4> QED
        BY <1>1, <2>2, <2>4, <4>1 DEF Instance
    <3>2. PhaseOf(s) = "dying" /\ PhaseOf(s)' = "free"
      BY <2>3, <2>5, <3>1 DEF PhaseOf
    <3>3. t \in HoldersOf(s) /\ HoldersOf(s)' = HoldersOf(s) \ {t}
      BY <2>2, <3>1, HoldersMoved
    <3>4. HoldersOf(s) = {t}
      BY <3>1, <3>3, Counted
    <3> QED
      BY <2>2, <3>2, <3>3, <3>4 DEF Allowed
  <2>6. CASE s \notin S
    <3>1. PhaseOf(s)' = PhaseOf(s)
      BY <2>3, <2>4, <2>6 DEF PhaseOf
    <3> QED
      BY <2>2, <3>1, HoldersMoved DEF Allowed
  <2> QED
    BY <2>5, <2>6
<1>5. CASE DropStep
  <2>1. PICK x \in table : DropInstance(x) /\ ~ inst[x].dropped /\ hold' = hold
    BY <1>5 DEF DropStep
  <2>2. HoldersOf(s)' = HoldersOf(s)
    BY <2>1 DEF HoldersOf
  <2>3. CASE inst[x].ref = 0
    <3>1. /\ table' = table \ {x}
          /\ \A y \in Insts : inst'[y] = IF y \in {x} THEN Cleared ELSE inst[y]
      BY <2>1, <2>3 DEF DropInstance, UpdateAndKill, KillInstances
    <3>2. CASE s = x
      <4>1. PhaseOf(s) # "free" /\ PhaseOf(s)' = "free"
        BY <2>1, <3>1, <3>2 DEF PhaseOf
      <4>2. HoldersOf(s) = {} /\ HoldersOf(s)' = {}
        BY <2>2, <2>3, <3>2, Counted
      <4> QED
        BY <4>1, <4>2 DEF Allowed
    <3>3. CASE s # x
      BY <2>2, <3>1, <3>3 DEF Allowed, PhaseOf
    <3> QED
      BY <3>2, <3>3
  <2>4. CASE inst[x].ref # 0
    <3>1. table' = table /\ inst'[s].dropped = (IF s = x THEN TRUE ELSE inst[s].dropped)
      BY <1>1, <2>1, <2>4 DEF DropInstance, Update, Instance
    <3>2. PhaseOf(s)' = PhaseOf(s) \/ (PhaseOf(s) = "live" /\ PhaseOf(s)' = "dying")
      BY <2>1, <3>1, PhaseTagged
    <3> QED
      BY <2>2, <3>2 DEF Allowed
  <2> QED
    BY <2>3, <2>4
<1>6. CASE WalkStep
  <2>1. PICK t \in {"stats", "bcast"}, x \in table \union {NoInst} : MoveOn(t, x)
    BY <1>6 DEF WalkStep
  <2>2. t \in Threads /\ hold' = [hold EXCEPT ![t] = x] /\ table' = table
    BY <2>1 DEF Threads, MoveOn
  <2>3. inst'[s].dropped = inst[s].dropped
    BY <1>1, <2>1 DEF MoveOn, Instance
  <2>4. PhaseOf(s)' = PhaseOf(s)
    BY <2>2, <2>3, PhaseKept
  <2>5. CASE s = x
    <3>1. PhaseOf(s) = "live" \/ PhaseOf(s) = "dying"
      BY <2>1, <2>5, StratifierAssumption DEF PhaseOf
    <3>2. \/ HoldersOf(s)' = HoldersOf(s)
          \/ t \in Threads \ HoldersOf(s) /\ HoldersOf(s)' = HoldersOf(s) \union {t}
      BY <2>2, <2>5, HoldersMoved
    <3> QED
      BY <2>1, <2>4, <3>1, <3>2 DEF Allowed
  <2>6. CASE s # x
    <3>1. \/ HoldersOf(s)' = HoldersOf(s)
          \/ t \in HoldersOf(s) /\ HoldersOf(s)' = HoldersOf(s) \ {t}
      BY <2>2, <2>6, HoldersMoved
    <3> QED
      BY <2>4, <3>1 DEF Allowed
  <2> QED
    BY <2>5, <2>6
<1> QED
  BY <1>2, <1>3, <1>4, <1>5, <1>6 DEF Ordinary

(* ... and so do all the others.                                             *)
LEMMA NextAllowed ==
    ASSUME IInv, TInv, [Next]_vars, NEW s \in Insts
    PROVE  Allowed(s)
<1>1. inst \in [Insts -> Instance] /\ table \subseteq Insts /\ inst[s] \in Instance
  BY DEF IInv, Core, TableTypes
<1>2. CASE RecvRecruit
  <2>1. PICK id \in Ids, x \in Insts \ table :
          Update([inst EXCEPT ![x] = [Cleared EXCEPT !.id = id]]) /\ hold' = hold
    BY <1>2 DEF RecvRecruit
  <2>2. table' = table /\ (s \in table => inst'[s] = inst[s])
    BY <1>1, <2>1 DEF Update
  <2>3. PhaseOf(s)' = PhaseOf(s)
    BY <2>2, PhaseKept
  <2> QED
    BY <2>1, <2>3 DEF Allowed, HoldersOf
<1>3. CASE RecvAddInstance
  <2>1. /\ pc["srecv"] = "adding" /\ inst' = [inst EXCEPT ![adding].ref = @ + 1]
        /\ table' = table \union {adding} /\ hold' = [hold EXCEPT !["srecv"] = adding]
        /\ "srecv" \in Threads
    BY <1>3 DEF RecvAddInstance, Threads
  <2>2. /\ adding # NoInst /\ adding \in Insts \ table /\ hold["srecv"] = NoInst
        /\ s # NoInst
    BY <2>1, StratifierAssumption DEF IInv, Busy, AddingApart, HoldsWhileBusy
  <2>3. inst'[s].dropped = inst[s].dropped
    BY <1>1, <2>1 DEF Instance
  <2>4. CASE s = adding
    <3>1. ~ inst[s].dropped
      BY <2>2, <2>4 DEF TInv, AddingNew, Cleared
    <3>2. PhaseOf(s) = "free" /\ PhaseOf(s)' = "live"
      BY <2>1, <2>2, <2>3, <2>4, <3>1 DEF PhaseOf
    <3>3. HoldersOf(s) = {}
      BY <2>2, <2>4, FreeUnheld
    <3>4. HoldersOf(s)' = HoldersOf(s) \union {"srecv"}
      BY <2>1, <2>2, <2>4, HoldersMoved
    <3>5. HoldersOf(s)' = {"srecv"}
      BY <3>3, <3>4
    <3> QED
      BY <2>1, <3>2, <3>5 DEF Allowed
  <2>5. CASE s # adding
    <3>1. PhaseOf(s)' = PhaseOf(s)
      BY <2>1, <2>3, <2>5 DEF PhaseOf
    <3>2. HoldersOf(s)' = HoldersOf(s)
      BY <2>1, <2>2, <2>5, HoldersMoved
    <3> QED
      BY <3>1, <3>2 DEF Allowed
  <2> QED
    BY <2>4, <2>5
<1>4. CASE RecvSubscribe \/ RecvEnonce \/ AuthLink
  <2>1. hold' = hold /\ table' = table
    BY <1>4 DEF RecvSubscribe, RecvEnonce, AuthLink, Parsing, Update
  <2>2. inst'[s].dropped = inst[s].dropped
    <3>1. CASE RecvSubscribe
      BY <1>1, <3>1 DEF RecvSubscribe, Update, Instance
    <3>2. CASE RecvEnonce
      <4> DEFINE x == hold["srecv"]
                 e == IF took # 0 THEN took ELSE new_enonce1
      <4>1. inst' = [inst EXCEPT ![x].enonce = e, ![x].subscribed = TRUE]
        BY <3>2 DEF RecvEnonce, Update
      <4> HIDE DEF x, e
      <4> QED
        BY <1>1, <4>1 DEF Instance
    <3>3. CASE AuthLink
      BY <1>1, <3>3 DEF AuthLink, Instance
    <3> QED
      BY <1>4, <3>1, <3>2, <3>3
  <2>3. PhaseOf(s)' = PhaseOf(s)
    BY <2>1, <2>2, PhaseKept
  <2> QED
    BY <2>1, <2>3 DEF Allowed, HoldersOf
<1>5. CASE LoopDropAll
  <2> DEFINE rec == [y \in Insts |-> [inst[y] EXCEPT !.dropped = @ \/ y \in table]]
             S == {y \in table : inst[y].ref = 0}
  <2>1. KillInstances(rec, S) /\ hold' = hold
    BY <1>5 DEF LoopDropAll
  <2>2. /\ table' = table \ S /\ HoldersOf(s)' = HoldersOf(s)
        /\ inst'[s] = IF s \in S THEN Cleared ELSE rec[s]
    BY <2>1 DEF KillInstances, HoldersOf
  <2>3. s \in table => rec[s].dropped
    BY <1>1 DEF Instance
  <2>4. CASE s \in S
    <3>1. PhaseOf(s) # "free" /\ PhaseOf(s)' = "free"
      BY <2>2, <2>4 DEF PhaseOf
    <3>2. HoldersOf(s) = {} /\ HoldersOf(s)' = {}
      BY <2>2, <2>4, Counted
    <3> QED
      BY <3>1, <3>2 DEF Allowed
  <2>5. CASE s \notin S
    <3>1. PhaseOf(s)' = PhaseOf(s) \/ (PhaseOf(s) = "live" /\ PhaseOf(s)' = "dying")
      BY <2>2, <2>3, <2>5, PhaseTagged
    <3> QED
      BY <2>2, <3>1 DEF Allowed
  <2> QED
    BY <2>4, <2>5
<1> QED
  BY <1>2, <1>3, <1>4, <1>5, Sorted, OrdinaryAllowed

(* What is allowed is a step of the contract.                                *)
LEMMA AllowedMapped == ASSUME NEW s \in Insts, Allowed(s) PROVE LR!Step(s)
  BY DEF LR!Step, LR!Same, LR!Admit, LR!Acquire, LR!Release, LR!Retire, LR!Reclaim,
         Allowed, PhaseOf

(* The table keeps the contract of a reference-counted table with lazy       *)
(* removal: only the walks take hold of a dropped instance, a drop is final, *)
(* and the last user, or nobody, holds an instance when it is recycled.      *)
THEOREM ReclaimsLazilyThm == Spec => ReclaimsLazily
<1>1. Init => LR!Init
  <2> SUFFICES ASSUME Init, NEW s \in Insts
               PROVE  PhaseOf(s) = "free" /\ HoldersOf(s) = {}
    BY DEF LR!Init, PhaseOf
  <2> QED
    BY StratifierAssumption DEF Init, PhaseOf, HoldersOf
<1>2. IInv /\ TInv /\ [Next]_vars => [LR!Next]_(LR!absVars)
  <2> SUFFICES ASSUME IInv, TInv, [Next]_vars
               PROVE  LR!Next
    OBVIOUS
  <2>1. \A s \in Insts : LR!Step(s)
    BY NextAllowed, AllowedMapped
  <2>2. \A s \in Insts : PhaseOf(s)' \in LR!Phases /\ HoldersOf(s)' \subseteq Threads
    BY DEF PhaseOf, LR!Phases, HoldersOf
  <2> QED
    BY <2>1, <2>2 DEF LR!Next, PhaseOf
<1> QED
  BY <1>1, <1>2, Invariance, TableInvariance, PTL DEF Spec, ReclaimsLazily, LR!Spec
=============================================================================
