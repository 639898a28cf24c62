----------------------------- MODULE CkMsgQueue -----------------------------
(* Message queues and their threads (ckmsgq_t, src/src/ckpool.c), and the    *)
(* bulk additions of src/src/stratifier.c.  create_ckmsgqs makes an array of *)
(* queues, each with a list and a thread of its own, that share one mutex    *)
(* and one condition; its callers add messages to the first.                 *)
(* A critical section of the mutex is one action.                            *)
EXTENDS Naturals, Sequences, FiniteSets

CONSTANTS
    Threads,   \* the array of queues, and their threads
    First,     \* its first element, which is what the callers are given
    MaxMsgs    \* bound: messages added

ASSUME CkMsgQueueAssumption == First \in Threads /\ MaxMsgs \in Nat

VARIABLES
    msgs,      \* msgs[t]: ckmsgq->msgs
    pc,        \* where a thread is
    msg,       \* msg[t]: the message thread t is handling, or 0
    made,      \* messages added, numbered from 1
    handled,   \* messages handled, in the order in which that ended
    must       \* pairs of messages, the first to be handled before the second

vars == <<msgs, pc, msg, made, handled, must>>

Msgs == 1 .. MaxMsgs

TypeOK ==
    /\ msgs \in [Threads -> Seq(Msgs)]
    /\ pc \in [Threads -> {"new", "check", "waiting", "woken", "busy"}]
    /\ msg \in [Threads -> Msgs \union {0}]
    /\ made \in Msgs \union {0}
    /\ handled \in Seq(Msgs)
    /\ must \subseteq Msgs \X Msgs

Init ==
    /\ msgs = [t \in Threads |-> <<>>]
    /\ pc = [t \in Threads |-> "new"]
    /\ msg = [t \in Threads |-> 0]
    /\ made = 0 /\ handled = <<>> /\ must = {}

Queued(t) == {msgs[t][i] : i \in DOMAIN msgs[t]}
Waiting == {t \in Threads : pc[t] = "waiting"}

-----------------------------------------------------------------------------
(* ckmsg_queue: the thread of a queue.                                       *)

\* ckmsgq->active
Start(t) ==
    /\ pc[t] = "new"
    /\ pc' = [pc EXCEPT ![t] = "check"]
    /\ UNCHANGED <<msgs, msg, made, handled, must>>

\* (mutant) every thread works on the first list
TakeAny(t) ==
    /\ msgs[First] # <<>>
    /\ msg' = [msg EXCEPT ![t] = Head(msgs[First])]
    /\ msgs' = [msgs EXCEPT ![First] = Tail(@)]
    /\ pc' = [pc EXCEPT ![t] = "busy"]

\* (mutant) the message is looked at but not deleted from the list
TakeLeaves(t) ==
    /\ msgs[t] # <<>>
    /\ msg' = [msg EXCEPT ![t] = Head(msgs[t])]
    /\ msgs' = msgs
    /\ pc' = [pc EXCEPT ![t] = "busy"]

\* Its first message, if any, is the thread's.
Take(t) ==
    /\ msgs[t] # <<>>
    /\ msg' = [msg EXCEPT ![t] = Head(msgs[t])]
    /\ msgs' = [msgs EXCEPT ![t] = Tail(@)]
    /\ pc' = [pc EXCEPT ![t] = "busy"]

\* Under the mutex: a message, or the condition is waited for.
Check(t) ==
    /\ pc[t] = "check"
    /\ \/ Take(t)
       \/ /\ msgs[t] = <<>>
          /\ pc' = [pc EXCEPT ![t] = "waiting"]
          /\ UNCHANGED <<msgs, msg>>
    /\ UNCHANGED <<made, handled, must>>

\* (mutant) only what is signalled wakes
SleepOn(t) ==
    /\ pc[t] = "waiting" /\ FALSE
    /\ UNCHANGED vars

\* The wait times out after a second (or ends for no reason).
Timeout(t) ==
    /\ pc[t] = "waiting"
    /\ pc' = [pc EXCEPT ![t] = "woken"]
    /\ UNCHANGED <<msgs, msg, made, handled, must>>

\* The wait is over and the mutex taken again.
Resume(t) ==
    /\ pc[t] = "woken"
    /\ \/ Take(t)
       \/ /\ msgs[t] = <<>>
          /\ pc' = [pc EXCEPT ![t] = "check"]
          /\ UNCHANGED <<msgs, msg>>
    /\ UNCHANGED <<made, handled, must>>

\* ckmsgq->func has returned.
Handle(t) ==
    /\ pc[t] = "busy"
    /\ handled' = Append(handled, msg[t])
    /\ msg' = [msg EXCEPT ![t] = 0]
    /\ pc' = [pc EXCEPT ![t] = "check"]
    /\ UNCHANGED <<msgs, made, must>>

ckmsg_queue(t) == Start(t) \/ Check(t) \/ Timeout(t) \/ Resume(t) \/ Handle(t)

-----------------------------------------------------------------------------
(* Adding messages, to the first queue.                                      *)

New(n) == made + 1 .. made + n
List(n) == [i \in 1 .. n |-> made + i]
InTurn(n) == {p \in New(n) \X New(n) : p[1] < p[2]}

Adds(n) ==
    /\ made + n <= MaxMsgs
    /\ made' = made + n
    /\ UNCHANGED <<msg, handled>>

\* What is added at the end is handled after all that was added before.
AtEnd(n) ==
    /\ msgs' = [msgs EXCEPT ![First] = @ \o List(n)]
    /\ must' = must \union ((1 .. made) \X New(n)) \union InTurn(n)

\* pthread_cond_broadcast and pthread_cond_signal
Broadcast == pc' = [t \in Threads |-> IF t \in Waiting THEN "woken" ELSE pc[t]]
Signal ==
    \/ Waiting = {} /\ UNCHANGED pc
    \/ \E t \in Waiting : pc' = [pc EXCEPT ![t] = "woken"]

\* ckmsgq_add, once the thread of the queue is active
ckmsgq_add ==
    /\ pc[First] # "new"
    /\ Adds(1) /\ AtEnd(1) /\ Broadcast

\* A list of messages, all at once
ssend_bulk_append ==
    \E n \in 1 .. 2 : Adds(n) /\ AtEnd(n) /\ Signal

\* The same, of high priority
ssend_bulk_prepend ==
    \E n \in 1 .. 2 :
      /\ Adds(n)
      /\ msgs' = [msgs EXCEPT ![First] = List(n) \o @]
      /\ must' = must \union (((1 .. made) \ Queued(First)) \X New(n))
                      \union (New(n) \X Queued(First)) \union InTurn(n)
      /\ Signal

Next == \/ \E t \in Threads : ckmsg_queue(t)
        \/ ckmsgq_add \/ ssend_bulk_append \/ ssend_bulk_prepend

Spec == Init /\ [][Next]_vars

\* The threads run and their waits time out; nobody need add anything.
Fairness == \A t \in Threads : WF_vars(ckmsg_queue(t))

-----------------------------------------------------------------------------
(* Properties.                                                               *)

Elements(s) == {s[i] : i \in DOMAIN s}

\* How many copies of message n there are.
Copies(n) ==
    Cardinality(UNION {{<<t, i>> : i \in {j \in DOMAIN msgs[t] : msgs[t][j] = n}} :
                         t \in Threads})
    + Cardinality({t \in Threads : msg[t] = n})
    + Cardinality({i \in DOMAIN handled : handled[i] = n})

(* Every message added is in a list, with a thread, or handled, once: no     *)
(* interleaving of bulk additions and threads loses or repeats one.          *)
NothingLost == \A n \in Msgs : Copies(n) = IF n <= made THEN 1 ELSE 0

(* Messages are done with in the order of their additions, those of high     *)
(* priority before what was queued; the order of a miner's messages rests on *)
(* it, since one thread at a time works on the list, however many wait.      *)
InOrder ==
    \A i, j \in DOMAIN handled : i < j => <<handled[j], handled[i]>> \notin must

(* Every message is handled, though the signal of a bulk addition may wake   *)
(* the wrong one of the threads that share the condition.                    *)
EventuallyHandled ==
    \A n \in Msgs : n <= made ~> n \in Elements(handled)

(* "Signal the ckmsgq parsing thread(s) to wake up and process it": a thread *)
(* goes to sleep only when no message is queued.                             *)
ThreadsShareWork ==
    [][\A t \in Threads : (pc[t] = "check" /\ pc'[t] = "waiting")
                            => \A u \in Threads : msgs[u] = <<>>]_vars
=============================================================================
