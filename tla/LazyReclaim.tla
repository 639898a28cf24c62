---------------------------- MODULE LazyReclaim ----------------------------
(* What a reference-counted table with lazy removal promises its users: the  *)
(* contract of stratum_instances in stratifier.c, and of the client table of *)
(* connector.c, without the counters, lists and locks that implement it.     *)
(*                                                                           *)
(* An object is "free" (not in the table), "live", or "dying" (still in the  *)
(* table, dropped by somebody while others were using it).  Users hold       *)
(* objects; an object leaves the table only when nobody holds it.            *)
EXTENDS FiniteSets

CONSTANTS
    Objs,     \* the structs the table can hold
    Holders,  \* the threads that may hold one outside the lock
    Sweepers  \* the holders that may take hold of a dying one

VARIABLES
    phase,    \* phase[o]: "free", "live" or "dying"
    held      \* held[o]: the threads that hold o

absVars == <<phase, held>>

Phases == {"free", "live", "dying"}

TypeOK ==
    /\ phase \in [Objs -> Phases]
    /\ held \in [Objs -> SUBSET Holders]

Init ==
    /\ phase = [o \in Objs |-> "free"]
    /\ held = [o \in Objs |-> {}]

\* o enters the table, held by nobody or by the thread that puts it there.
Admit(o) ==
    /\ phase[o] = "free"
    /\ phase'[o] = "live"
    /\ held'[o] = {} \/ \E h \in Holders : held'[o] = {h}

\* One more thread takes hold of o; only a sweeper finds a dying object.
Acquire(o) ==
    /\ phase'[o] = phase[o]
    /\ \E h \in Holders \ held[o] :
          /\ held'[o] = held[o] \union {h}
          /\ phase[o] = "live" \/ (phase[o] = "dying" /\ h \in Sweepers)

\* A thread lets go of o, and o stays where it is.
Release(o) ==
    /\ phase'[o] = phase[o]
    /\ \E h \in held[o] : held'[o] = held[o] \ {h}

\* o is dropped while in use.
Retire(o) ==
    /\ phase[o] = "live"
    /\ phase'[o] = "dying"
    /\ held'[o] = held[o]

\* o leaves the table: nobody holds it afterwards, and at most one thread,
\* the one that takes it out, held it before.
Reclaim(o) ==
    /\ phase[o] # "free"
    /\ phase'[o] = "free"
    /\ held'[o] = {}
    /\ \/ held[o] = {}
       \/ phase[o] = "dying" /\ \E h \in Holders : held[o] = {h}

Same(o) == phase'[o] = phase[o] /\ held'[o] = held[o]

Step(o) == Same(o) \/ Admit(o) \/ Acquire(o) \/ Release(o) \/ Retire(o) \/ Reclaim(o)

\* A critical section of the table's lock may touch several objects.
Next ==
    /\ phase' \in [Objs -> Phases]
    /\ held' \in [Objs -> SUBSET Holders]
    /\ \A o \in Objs : Step(o)

Spec == Init /\ [][Next]_absVars

-----------------------------------------------------------------------------
(* A thread only ever holds objects that are in the table.                   *)
HeldInTable == \A o \in Objs : held[o] # {} => phase[o] # "free"

(* An object that others hold is not taken away from them: while two threads *)
(* or more hold it, it stays in the table, and once dropped it never returns *)
(* to service.                                                               *)
NeverTakenAway ==
    [][\A o \in Objs :
         /\ (\E h, g \in held[o] : h # g) => phase'[o] # "free"
         /\ phase[o] = "dying" => phase'[o] # "live"]_absVars
=============================================================================
