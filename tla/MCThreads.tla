------------------------------ MODULE MCThreads ------------------------------
(* Queues and locks share no state, and are checked in one run: part is the   *)
(* one that moves, the other stays as it starts.                              *)
EXTENDS CkMsgQueue, CkLock

CONSTANTS t1, t2, t3, t4   \* model values

VARIABLE part
allVars == <<part, vars, lockVars>>

PartInit == part \in {"queue", "lock"} /\ Init /\ LockInit

PartNext ==
    \/ part = "queue" /\ Next /\ UNCHANGED <<part, lockVars>>
    \/ part = "lock" /\ LockNext /\ UNCHANGED <<part, vars>>

\* The fairness of the part that moves.
PartSpec ==
    /\ PartInit /\ [][PartNext]_allVars
    /\ part = "queue" => Fairness
    /\ part = "lock" => LockFairness
=============================================================================
