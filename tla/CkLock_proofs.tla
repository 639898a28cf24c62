--------------------------- MODULE CkLock_proofs ---------------------------
(* Mutual exclusion and stability of ck locks, for any set of threads.       *)
EXTENDS CkLock, TLAPS

(* Where a thread is tells what it owns: the mutex from one end of the gate  *)
(* to the other, and one of the two locks of the rwlock.                     *)
AtGate == {"rgate", "rin", "wgate", "writing", "wout", "dgap", "din"}
InRead == {"rin", "reading", "din"}

Owned ==
    \A t \in Callers :
      /\ mutex = t <=> at[t] \in AtGate
      /\ t \in readers <=> at[t] \in InRead
      /\ writer = t <=> at[t] = "writing"

(* The rwlock has a writer or readers.                                       *)
Exclusive == writer # NoThread => readers = {}

(* The inductive invariant: who owns what is needed to see that no thread    *)
(* is between the two locks of ck_dwlock while another one writes.           *)
IInv == LockTypeOK /\ Owned /\ Exclusive /\ Stable

-----------------------------------------------------------------------------
(* A writer is alone, by who owns what: a thread that relies on the lock     *)
(* owns the write lock, a read lock or the mutex.                            *)
LEMMA WriterAlone == IInv => MutualExclusion
<1> SUFFICES ASSUME IInv, NEW t \in Callers, NEW u \in Callers,
                    at[t] = "writing", at[u] \in Relying
             PROVE  u = t
    BY DEF MutualExclusion
<1>1. writer = t /\ mutex = t
    BY DEF IInv, Owned, AtGate
<1>2. readers = {}
    BY <1>1, CkLockAssumption DEF IInv, Exclusive
<1>3. CASE at[u] \in InRead
    BY <1>2, <1>3 DEF IInv, Owned
<1>4. CASE at[u] = "dgap"
    BY <1>1, <1>4 DEF IInv, Owned, AtGate
<1>5. CASE at[u] = "writing"
    BY <1>1, <1>5 DEF IInv, Owned
<1> QED BY <1>3, <1>4, <1>5 DEF Relying, InRead

LEMMA InitIInv == LockInit => IInv
<1> SUFFICES ASSUME LockInit PROVE IInv
    OBVIOUS
<1>1. LockTypeOK
    BY DEF LockInit, LockTypeOK, Places
<1>2. Owned
    BY CkLockAssumption DEF LockInit, Owned, AtGate, InRead
<1>3. Exclusive /\ Stable
    BY DEF LockInit, Exclusive, Stable, Relying
<1> QED BY <1>1, <1>2, <1>3 DEF IInv

(* A step that moves a thread from one place to another, and leaves the data *)
(* and what the others saw alone, keeps Stable if the thread itself relied   *)
(* on the lock before, looks at the data now, or does not rely on it after.  *)
LEMMA MoveKeepsStable ==
    ASSUME IInv, NEW t \in Callers, NEW to \in Places,
           at' = [at EXCEPT ![t] = to], UNCHANGED data,
           UNCHANGED seen \/ Looks(t),
           at[t] \in Relying \/ Looks(t) \/ to \notin Relying
    PROVE  Stable'
<1> SUFFICES ASSUME NEW u \in Callers, at'[u] \in Relying
             PROVE  seen'[u] = data'
    BY DEF Stable
<1>1. CASE u # t
  <2>1. at[u] \in Relying /\ seen[u] = data
      BY <1>1 DEF IInv, LockTypeOK, Stable
  <2>2. seen'[u] = seen[u]
      BY <1>1 DEF Looks, IInv, LockTypeOK
  <2> QED BY <2>1, <2>2
<1>2. CASE u = t
  <2>1. at'[t] = to
      BY DEF IInv, LockTypeOK
  <2>2. CASE Looks(t)
      BY <1>2, <2>2 DEF Looks, IInv, LockTypeOK
  <2>3. CASE UNCHANGED seen /\ at[t] \in Relying
      BY <1>2, <2>3 DEF IInv, Stable
  <2> QED BY <1>2, <2>1, <2>2, <2>3
<1> QED BY <1>1, <1>2

LEMMA StepIInv == IInv /\ [LockNext]_lockVars => IInv'
<1> SUFFICES ASSUME IInv, [LockNext]_lockVars PROVE IInv'
    OBVIOUS
<1> USE CkLockAssumption
<1>1. ASSUME NEW t \in Callers, Step(t) PROVE IInv'
  <2>1. LockTypeOK'
      BY <1>1 DEF IInv, LockTypeOK, Places, Step, ck_rlock, ck_wlock, ck_dwlock, ck_wunlock,
            WantRead, ReadGate, ReadLock, ReadIn, ReadUnlock, WantWrite, WriteGate,
            WriteLock, Write, WriteUnlock, WriteOut, Downgrade, DowngradeLock, DowngradeIn,
            Goto, mutex_lock, mutex_unlock, rd_lock, rd_unlock, wr_lock, wr_unlock, Looks
  <2>2. CASE WantRead(t)
    <3>1. Owned' /\ Exclusive'
        BY <2>2 DEF IInv, LockTypeOK, Owned, Exclusive, AtGate, InRead, WantRead, Goto
    <3>2. Stable'
        BY <2>2, MoveKeepsStable DEF WantRead, Goto, Relying, Places
    <3> QED BY <2>1, <3>1, <3>2 DEF IInv
  <2>3. CASE ReadGate(t)
    <3>1. Owned' /\ Exclusive'
        BY <2>3 DEF IInv, LockTypeOK, Owned, Exclusive, AtGate, InRead, ReadGate, Goto, mutex_lock
    <3>2. Stable'
        BY <2>3, MoveKeepsStable DEF ReadGate, Goto, Relying, Places
    <3> QED BY <2>1, <3>1, <3>2 DEF IInv
  <2>4. CASE ReadLock(t)
    <3>1. Owned' /\ Exclusive'
        BY <2>4 DEF IInv, LockTypeOK, Owned, Exclusive, AtGate, InRead, ReadLock, Goto, rd_lock
    <3>2. Stable'
        BY <2>4, MoveKeepsStable DEF ReadLock, Goto, Places
    <3> QED BY <2>1, <3>1, <3>2 DEF IInv
  <2>5. CASE ReadIn(t)
    <3>1. Owned' /\ Exclusive'
        BY <2>5 DEF IInv, LockTypeOK, Owned, Exclusive, AtGate, InRead, ReadIn, Goto, mutex_unlock
    <3>2. Stable'
        BY <2>5, MoveKeepsStable DEF ReadIn, Goto, Relying, Places
    <3> QED BY <2>1, <3>1, <3>2 DEF IInv
  <2>6. CASE ReadUnlock(t)
    <3>1. Owned' /\ Exclusive'
        BY <2>6 DEF IInv, LockTypeOK, Owned, Exclusive, AtGate, InRead, ReadUnlock, Goto, rd_unlock
    <3>2. Stable'
        BY <2>6, MoveKeepsStable DEF ReadUnlock, Goto, Relying, Places
    <3> QED BY <2>1, <3>1, <3>2 DEF IInv
  <2>7. CASE WantWrite(t)
    <3>1. Owned' /\ Exclusive'
        BY <2>7 DEF IInv, LockTypeOK, Owned, Exclusive, AtGate, InRead, WantWrite, Goto
    <3>2. Stable'
        BY <2>7, MoveKeepsStable DEF WantWrite, Goto, Relying, Places
    <3> QED BY <2>1, <3>1, <3>2 DEF IInv
  <2>8. CASE WriteGate(t)
    <3>1. Owned' /\ Exclusive'
        BY <2>8 DEF IInv, LockTypeOK, Owned, Exclusive, AtGate, InRead, WriteGate, Goto, mutex_lock
    <3>2. Stable'
        BY <2>8, MoveKeepsStable DEF WriteGate, Goto, Relying, Places
    <3> QED BY <2>1, <3>1, <3>2 DEF IInv
  <2>9. CASE WriteLock(t)
    <3>1. Owned' /\ Exclusive'
        BY <2>9 DEF IInv, LockTypeOK, Owned, Exclusive, AtGate, InRead, WriteLock, Goto, wr_lock
    <3>2. Stable'
        BY <2>9, MoveKeepsStable DEF WriteLock, Goto, Places
    <3> QED BY <2>1, <3>1, <3>2 DEF IInv
  <2>10. CASE Write(t)
    <3>1. Owned' /\ Exclusive'
        BY <2>10 DEF IInv, Owned, Exclusive, Write
    <3>2. Stable'
        \* nobody else relies on the lock
        <4> SUFFICES ASSUME NEW u \in Callers, at[u] \in Relying
                     PROVE  seen'[u] = data'
            BY <2>10 DEF Stable, Write
        <4>1. u = t
            BY <2>10, WriterAlone DEF Write, MutualExclusion
        <4> QED BY <2>10, <4>1 DEF Write, IInv, LockTypeOK
    <3> QED BY <2>1, <3>1, <3>2 DEF IInv
  <2>11. CASE Downgrade(t)
    <3>1. Owned' /\ Exclusive'
        BY <2>11 DEF IInv, LockTypeOK, Owned, Exclusive, AtGate, InRead, Downgrade, Goto, wr_unlock
    <3>2. Stable'
        BY <2>11, MoveKeepsStable DEF Downgrade, Goto, Relying, Places
    <3> QED BY <2>1, <3>1, <3>2 DEF IInv
  <2>12. CASE DowngradeLock(t)
    <3>1. Owned' /\ Exclusive'
        BY <2>12 DEF IInv, LockTypeOK, Owned, Exclusive, AtGate, InRead, DowngradeLock, Goto, rd_lock
    <3>2. Stable'
        BY <2>12, MoveKeepsStable DEF DowngradeLock, Goto, Relying, Places
    <3> QED BY <2>1, <3>1, <3>2 DEF IInv
  <2>13. CASE DowngradeIn(t)
    <3>1. Owned' /\ Exclusive'
        BY <2>13 DEF IInv, LockTypeOK, Owned, Exclusive, AtGate, InRead, DowngradeIn, Goto,
                     mutex_unlock
    <3>2. Stable'
        BY <2>13, MoveKeepsStable DEF DowngradeIn, Goto, Relying, Places
    <3> QED BY <2>1, <3>1, <3>2 DEF IInv
  <2>14. CASE WriteUnlock(t)
    <3>1. Owned' /\ Exclusive'
        BY <2>14 DEF IInv, LockTypeOK, Owned, Exclusive, AtGate, InRead, WriteUnlock, Goto, wr_unlock
    <3>2. Stable'
        BY <2>14, MoveKeepsStable DEF WriteUnlock, Goto, Relying, Places
    <3> QED BY <2>1, <3>1, <3>2 DEF IInv
  <2>15. CASE WriteOut(t)
    <3>1. Owned' /\ Exclusive'
        BY <2>15 DEF IInv, LockTypeOK, Owned, Exclusive, AtGate, InRead, WriteOut, Goto, mutex_unlock
    <3>2. Stable'
        BY <2>15, MoveKeepsStable DEF WriteOut, Goto, Relying, Places
    <3> QED BY <2>1, <3>1, <3>2 DEF IInv
  <2> QED BY <1>1, <2>2, <2>3, <2>4, <2>5, <2>6, <2>7, <2>8, <2>9, <2>10, <2>11, <2>12,
             <2>13, <2>14, <2>15
          DEF Step, ck_rlock, ck_wlock, ck_dwlock, ck_wunlock
<1>2. CASE UNCHANGED lockVars
    BY <1>2 DEF IInv, LockTypeOK, Owned, Exclusive, Stable, lockVars
<1> QED BY <1>1, <1>2 DEF LockNext

-----------------------------------------------------------------------------
(* ck_wlock excludes every other holder, those in the middle of a ck_dwlock  *)
(* included.                                                                 *)
THEOREM WritersAreAlone == LockSpec => []MutualExclusion
<1>1. LockSpec => []IInv
    BY InitIInv, StepIInv, PTL DEF LockSpec
<1> QED BY <1>1, WriterAlone, PTL

(* What a thread saw or wrote under a ck lock is still so when it lets go,   *)
(* also across the gap of ck_dwlock.                                         *)
THEOREM SeenStaysSo == LockSpec => []Stable
<1>1. LockSpec => []IInv
    BY InitIInv, StepIInv, PTL DEF LockSpec
<1>2. IInv => Stable
    BY DEF IInv
<1> QED BY <1>1, <1>2, PTL
=============================================================================
