------------------------------- MODULE CkLock -------------------------------
(* ck locks, "a write biased variant of rwlocks" (src/src/libckpool.c): a    *)
(* mutex and a pthread rwlock, which prefers readers.  Everyone passes by    *)
(* the mutex: a reader gives it back once it has its read lock, a writer     *)
(* keeps it, and so keeps new readers out while it waits for the old ones.   *)
(* Each call of the pthread library is one action.  What the lock protects   *)
(* is one bit that every writer flips.                                       *)
EXTENDS Naturals, FiniteSets

CONSTANTS
    Callers,   \* the threads that use the lock
    NoThread

ASSUME CkLockAssumption == NoThread \notin Callers

VARIABLES
    mutex,    \* the owner of lock->mutex
    readers,  \* the owners of read locks of lock->rwlock
    writer,   \* the owner of its write lock
    at,       \* where a thread is
    data,     \* what the lock protects
    seen      \* what a thread saw of it under the lock

lockVars == <<mutex, readers, writer, at, data, seen>>

Places == {"out",                                   \* not interested
           "rwant", "rgate", "rin", "reading",      \* in ck_rlock; holding it
           "wwant", "wgate", "writing", "wout",     \* in ck_wlock; ck_wunlock
           "dgap", "din"}                           \* in ck_dwlock

LockTypeOK ==
    /\ mutex \in Callers \union {NoThread}
    /\ readers \subseteq Callers
    /\ writer \in Callers \union {NoThread}
    /\ at \in [Callers -> Places]
    /\ data \in {0, 1}
    /\ seen \in [Callers -> {0, 1}]

LockInit ==
    /\ mutex = NoThread /\ readers = {} /\ writer = NoThread
    /\ at = [t \in Callers |-> "out"]
    /\ data = 0 /\ seen = [t \in Callers |-> 0]

Goto(t, from, to) == at[t] = from /\ at' = [at EXCEPT ![t] = to]

-----------------------------------------------------------------------------
(* The pthread library.                                                      *)

mutex_lock(t) == mutex = NoThread /\ mutex' = t
mutex_unlock == mutex' = NoThread

\* rd_lock waits for the writer, not for those who wait to write.
rd_lock(t) == writer = NoThread /\ readers' = readers \union {t}
rd_unlock(t) == readers' = readers \ {t}

wr_lock(t) == writer = NoThread /\ readers = {} /\ writer' = t
wr_unlock == writer' = NoThread

\* A thread that gets a lock looks at what it protects.
Looks(t) == seen' = [seen EXCEPT ![t] = data]

-----------------------------------------------------------------------------
(* ck_rlock, ck_runlock.                                                     *)

WantRead(t) ==
    /\ Goto(t, "out", "rwant")
    /\ UNCHANGED <<mutex, readers, writer, data, seen>>

\* (mutant) a reader does not pass by the mutex
ReadGateOpen(t) ==
    /\ Goto(t, "rwant", "rgate")
    /\ UNCHANGED <<mutex, readers, writer, data, seen>>

ReadGate(t) ==
    /\ Goto(t, "rwant", "rgate")
    /\ mutex_lock(t)
    /\ UNCHANGED <<readers, writer, data, seen>>

ReadLock(t) ==
    /\ Goto(t, "rgate", "rin")
    /\ rd_lock(t) /\ Looks(t)
    /\ UNCHANGED <<mutex, writer, data>>

ReadIn(t) ==
    /\ Goto(t, "rin", "reading")
    /\ mutex_unlock
    /\ UNCHANGED <<readers, writer, data, seen>>

ReadUnlock(t) ==
    /\ Goto(t, "reading", "out")
    /\ rd_unlock(t)
    /\ UNCHANGED <<mutex, writer, data, seen>>

-----------------------------------------------------------------------------
(* ck_wlock, a write, ck_wunlock.                                            *)

WantWrite(t) ==
    /\ Goto(t, "out", "wwant")
    /\ UNCHANGED <<mutex, readers, writer, data, seen>>

WriteGate(t) ==
    /\ Goto(t, "wwant", "wgate")
    /\ mutex_lock(t)
    /\ UNCHANGED <<readers, writer, data, seen>>

\* (mutant) a writer that relies on the mutex
WriteLockEarly(t) ==
    /\ Goto(t, "wgate", "writing")
    /\ writer' = t /\ Looks(t)
    /\ UNCHANGED <<mutex, readers, data>>

WriteLock(t) ==
    /\ Goto(t, "wgate", "writing")
    /\ wr_lock(t) /\ Looks(t)
    /\ UNCHANGED <<mutex, readers, data>>

\* The holder changes what it protects.
Write(t) ==
    /\ at[t] = "writing"
    /\ data' = 1 - data
    /\ seen' = [seen EXCEPT ![t] = 1 - data]
    /\ UNCHANGED <<mutex, readers, writer, at>>

WriteUnlock(t) ==
    /\ Goto(t, "writing", "wout")
    /\ wr_unlock
    /\ UNCHANGED <<mutex, readers, data, seen>>

WriteOut(t) ==
    /\ Goto(t, "wout", "out")
    /\ mutex_unlock
    /\ UNCHANGED <<readers, writer, data, seen>>

-----------------------------------------------------------------------------
(* ck_dwlock: from the write lock to a read lock.                            *)

\* (mutant) the mutex is given back before the read lock is taken
DowngradeEarly(t) ==
    /\ Goto(t, "writing", "dgap")
    /\ wr_unlock
    /\ mutex_unlock
    /\ UNCHANGED <<readers, data, seen>>

Downgrade(t) ==
    /\ Goto(t, "writing", "dgap")
    /\ wr_unlock
    /\ UNCHANGED <<mutex, readers, data, seen>>

\* The thread goes by what it saw and wrote before.
DowngradeLock(t) ==
    /\ Goto(t, "dgap", "din")
    /\ rd_lock(t)
    /\ UNCHANGED <<mutex, writer, data, seen>>

DowngradeIn(t) ==
    /\ Goto(t, "din", "reading")
    /\ mutex_unlock
    /\ UNCHANGED <<readers, writer, data, seen>>

-----------------------------------------------------------------------------
ck_rlock(t) == ReadGate(t) \/ ReadLock(t) \/ ReadIn(t)
ck_wlock(t) == WriteGate(t) \/ WriteLock(t)
ck_dwlock(t) == Downgrade(t) \/ DowngradeLock(t) \/ DowngradeIn(t)
ck_wunlock(t) == WriteUnlock(t) \/ WriteOut(t)

Step(t) == \/ WantRead(t) \/ ck_rlock(t) \/ ReadUnlock(t)
           \/ WantWrite(t) \/ ck_wlock(t) \/ Write(t) \/ ck_dwlock(t) \/ ck_wunlock(t)

LockNext == \E t \in Callers : Step(t)

LockSpec == LockInit /\ [][LockNext]_lockVars

\* A call returns when what it waits for is there, and a holder lets go.  No
\* fairness of the mutex or the rwlock towards those who wait for it: weak
\* fairness is lost by a thread whose lock is taken from under its nose.
LockFairness ==
    \A t \in Callers :
      /\ WF_lockVars(ReadLock(t) \/ ReadIn(t))
      /\ WF_lockVars(WriteLock(t))
      /\ WF_lockVars(DowngradeLock(t) \/ DowngradeIn(t))
      /\ WF_lockVars(ReadUnlock(t))
      /\ WF_lockVars(WriteUnlock(t) \/ Downgrade(t))
      /\ WF_lockVars(WriteOut(t))

-----------------------------------------------------------------------------
(* Who relies on the lock: those who hold it either way, and, between the    *)
(* two locks of ck_dwlock, those who hold neither.                           *)
Relying == {"rin", "reading", "writing", "dgap", "din"}

(* What a thread saw or wrote under the lock stays as it is until it lets    *)
(* go of the lock, also while ck_dwlock holds neither lock of the rwlock.    *)
Stable == \A t \in Callers : at[t] \in Relying => seen[t] = data

(* A writer is alone: nobody reads what it changes, or relies on it.         *)
MutualExclusion ==
    \A t, u \in Callers :
      at[t] = "writing" /\ at[u] \in Relying => u = t

(* The write bias: a writer that has the mutex writes, however many readers  *)
(* come: they queue behind it.                                               *)
WriterGetsIn == \A t \in Callers : at[t] = "wgate" ~> at[t] = "writing"

(* Whoever has come past the mutex reads: nobody gets stuck in the gate.     *)
ReaderGetsIn == \A t \in Callers : at[t] \in {"rgate", "dgap"} ~> at[t] = "reading"
=============================================================================
