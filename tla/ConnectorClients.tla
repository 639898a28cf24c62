------------------------- MODULE ConnectorClients -------------------------
(* The connector's clients (src/src/connector.c): accept, read and parse,    *)
(* send, drop.  A client_instance_t is looked up in a hashtable   *)
(* under cdata->lock and used outside of it under a reference count; its     *)
(* presence in the epoll list is one reference, every queued message another.*)
(* A dropped client goes to the list of dead clients, from where it is       *)
(* recycled by the next drop that finds it unreferenced.                     *)
(* Each critical section is one action; so is each use of client->fd, which  *)
(* no lock protects.                                                         *)
EXTENDS Integers, Sequences, FiniteSets

CONSTANTS
    MaxId,       \* bound: connections accepted, with ids 1 .. MaxId
    Structs,     \* client_instance_t structs
    Fds,         \* file descriptors the kernel may hand out, as numbers
    NoStruct, NoFd,
    MaxClients,  \* ckp->maxclients
    Passthrough, \* ckp->passthrough: a reject drops every client
    Commands,    \* the commands connector_loop may be sent
    MaxSends     \* bound: messages sent to clients

ASSUME ConnectorAssumption ==
    /\ MaxId \in Nat /\ MaxClients \in Nat /\ MaxSends \in Nat
    /\ Fds \subseteq Nat
    /\ Commands \subseteq {"dropclient", "testclient", "accept"}
    /\ NoStruct \notin Structs /\ NoFd \notin Fds /\ Passthrough \in BOOLEAN

Ids == 1 .. MaxId
Serials == 1 .. MaxSends

VARIABLES
    \* the kernel
    open,       \* open[f]: the connection fd f is, or 0 when f is free
    epoll,      \* epoll[f]: the client id registered for f, and whether armed
    \* cdata
    client,     \* client[c]: the fields of struct c
    client_ids, \* ids given so far
    accept,     \* cdata->accept
    events,     \* cevents: ids with something to read or a hangup
    queued,     \* cdata->sender_sends
    sends,      \* the sender's own list
    \* the threads
    pc, hold,   \* where a thread is; the client it has looked up
    fdv,        \* the value of client->fd a thread is about to use
    making,     \* the message send_client is about to queue
    at,         \* how far the sender is in its list
    known,      \* ids the stratifier has heard of
    told,       \* ids the stratifier was told to drop
    sent        \* messages made so far

vars == <<open, epoll, client, client_ids, accept, events, queued, sends, pc, hold, fdv,
          making, at, known, told, sent>>

kernel == <<open, epoll>>
admission == <<client_ids, accept>>
stratifier == <<known, told>>

Threads == {"receiver", "event", "cmp", "sender", "loop"}

\* where: "recycled" (or not allocated yet), "new" (being filled by
\* accept_client), "table" (in the hashtable), "dead" (client->invalid).
Client == [where : {"recycled", "new", "table", "dead"}, id : Ids \union {0},
           fd : Fds \union {NoFd}, ref : Int, sending : Serials \union {0},
           blocked : BOOLEAN]

\* __recycle_client
Recycled == [where |-> "recycled", id |-> 0, fd |-> NoFd, ref |-> 0, sending |-> 0,
             blocked |-> FALSE]

\* A sender_send: its serial number and client.
Send == [n : Serials, c : Structs]
NoSend == [n |-> 0]

TypeOK ==
    /\ open \in [Fds -> Ids \union {0}]
    /\ epoll \in [Fds -> [id : Ids \union {0}, armed : BOOLEAN]]
    /\ client \in [Structs -> Client]
    /\ client_ids \in Ids \union {0} /\ accept \in BOOLEAN
    /\ events \in Seq(Ids)
    /\ queued \in Seq(Send) /\ sends \in Seq(Send)
    /\ pc \in [Threads -> {"idle", "add", "arm", "load", "read", "parse", "rearm", "mod",
                           "queue", "write", "drop", "tell", "cull", "dec"}]
    /\ hold \in [Threads -> Structs \union {NoStruct}]
    /\ fdv \in [Threads -> Fds \union {NoFd}]
    /\ making \in Send \union {NoSend}
    /\ at \in Nat \ {0}
    /\ known \in SUBSET Ids /\ told \in SUBSET Ids
    /\ sent \in Serials \union {0}

Init ==
    /\ open = [f \in Fds |-> 0]
    /\ epoll = [f \in Fds |-> [id |-> 0, armed |-> FALSE]]
    /\ client = [c \in Structs |-> Recycled] /\ client_ids = 0 /\ accept = TRUE
    /\ events = <<>> /\ queued = <<>> /\ sends = <<>>
    /\ pc = [t \in Threads |-> "idle"] /\ hold = [t \in Threads |-> NoStruct]
    /\ fdv = [t \in Threads |-> NoFd]
    /\ making = NoSend /\ at = 1
    /\ known = {} /\ told = {} /\ sent = 0

-----------------------------------------------------------------------------
Clients == {c \in Structs : client[c].where = "table"}
Dead == {c \in Structs : client[c].where = "dead"}

Goto(t, place) == pc' = [pc EXCEPT ![t] = place]

\* ref_client_by_id's lookup: dead clients are not in the table.
ById(id) == {c \in Clients : client[c].id = id}

\* The sends on client c, wherever they are queued.
InFlight(c) ==
    {queued[i].n : i \in {j \in DOMAIN queued : queued[j].c = c}}
    \union {sends[i].n : i \in {j \in DOMAIN sends : sends[j].c = c}}
    \union (IF making # NoSend /\ making.c = c THEN {making.n} ELSE {})

\* Close(fd): _close sets the fd to -1, and does nothing to one that is.
Closed(fds) ==
    /\ open' = [f \in Fds |-> IF f \in fds THEN 0 ELSE open[f]]
    /\ epoll' = [f \in Fds |-> IF f \in fds THEN [id |-> 0, armed |-> FALSE] ELSE epoll[f]]

\* A new message for client c, for which a reference is taken.
MakeSend(c) ==
    /\ sent < MaxSends
    /\ sent' = sent + 1
    /\ client' = [client EXCEPT ![c].ref = @ + 1]

Message(c) == [n |-> sent + 1, c |-> c]

-----------------------------------------------------------------------------
(* The receiver: accept_client.                                              *)

\* recruit_client: it makes no difference which of the recycled structs.
Recruits == {c \in Structs : client[c].where = "recycled"}
Recruit == CHOOSE c \in Recruits : TRUE

\* A struct is recruited, and the kernel hands out the lowest free fd.
Accept ==
    /\ pc["receiver"] = "idle" /\ accept
    /\ Cardinality(Clients) < MaxClients /\ client_ids < MaxId
    /\ Recruits # {}
    /\ client' = [client EXCEPT ![Recruit].where = "new"]
    /\ hold' = [hold EXCEPT !["receiver"] = Recruit]
    /\ \E f \in Fds :
         /\ open[f] = 0 /\ \A g \in Fds : open[g] = 0 => f <= g
         /\ open' = [open EXCEPT ![f] = client_ids + 1]
         /\ fdv' = [fdv EXCEPT !["receiver"] = f]
    /\ Goto("receiver", "add")
    /\ UNCHANGED <<epoll, admission, events, queued, sends, making, at, sent, stratifier>>

\* It gets an id and goes into the table.
AcceptAdd ==
    LET c == hold["receiver"]
    IN  /\ pc["receiver"] = "add"
        /\ client_ids' = client_ids + 1
        /\ client' = [client EXCEPT ![c].where = "table", ![c].id = client_ids + 1]
        /\ Goto("receiver", "arm")
        /\ UNCHANGED <<kernel, accept, events, queued, sends, hold, fdv, making, at, sent,
                       stratifier>>

\* The lock released, it gets its reference and fd, and goes into the epoll
\* list.
AcceptArm ==
    LET c == hold["receiver"]
        f == fdv["receiver"]
    IN  /\ pc["receiver"] = "arm"
        /\ client' = [client EXCEPT ![c].ref = @ + 1, ![c].fd = f]
        /\ epoll' = [epoll EXCEPT ![f] = [id |-> client[c].id, armed |-> TRUE]]
        /\ hold' = [hold EXCEPT !["receiver"] = NoStruct]
        /\ fdv' = [fdv EXCEPT !["receiver"] = NoFd]
        /\ Goto("receiver", "idle")
        /\ UNCHANGED <<open, admission, events, queued, sends, making, at, sent, stratifier>>

\* The peer of fd f sends something or hangs up: EPOLLONESHOT.
Event(f) ==
    /\ epoll[f].armed /\ open[f] # 0
    /\ epoll' = [epoll EXCEPT ![f].armed = FALSE]
    /\ events' = Append(events, epoll[f].id)
    /\ UNCHANGED <<open, client, admission, queued, sends, pc, hold, fdv, making, at, sent,
                   stratifier>>

receiver == Accept \/ AcceptAdd \/ AcceptArm \/ \E f \in Fds : Event(f)

-----------------------------------------------------------------------------
(* invalidate_client, by the thread t that holds the client.                 *)

\* The client on whose behalf t acts: the sender's is the message's.
Subject(t) == IF t = "sender" THEN sends[at].c ELSE hold[t]

\* (mutant) a drop that leaves the fd to the cull, without it
DropKeepsFd(t) ==
    LET c == Subject(t)
    IN  /\ pc[t] = "drop"
        /\ client' = IF client[c].where = "dead" THEN client
                     ELSE [client EXCEPT ![c].where = "dead", ![c].fd = NoFd, ![c].ref = @ - 1]
        /\ Closed({})
        /\ Goto(t, "tell")
        /\ UNCHANGED <<admission, events, queued, sends, hold, fdv, making, at, sent,
                       stratifier>>

\* drop_client, the critical section: closing the fd takes it off the epoll
\* list.
Drop(t) ==
    LET c == Subject(t)
    IN  /\ pc[t] = "drop"
        /\ \/ client[c].where = "dead" /\ UNCHANGED <<client, kernel>>
           \/ /\ client[c].where = "table"
              /\ client' = [client EXCEPT ![c].where = "dead", ![c].fd = NoFd,
                                          ![c].ref = @ - 1]
              /\ Closed({client[c].fd})
        /\ Goto(t, "tell")
        /\ UNCHANGED <<admission, events, queued, sends, hold, fdv, making, at, sent,
                       stratifier>>

\* (mutant) the stratifier is told by somebody else
TellNobody(t) ==
    /\ pc[t] = "tell"
    /\ Goto(t, "cull")
    /\ UNCHANGED <<kernel, client, admission, events, queued, sends, hold, fdv, making, at,
                   sent, stratifier>>

\* stratifier_drop_id
Tell(t) ==
    /\ pc[t] = "tell"
    /\ told' = told \union {client[Subject(t)].id}
    /\ Goto(t, "cull")
    /\ UNCHANGED <<kernel, client, admission, events, queued, sends, hold, fdv, making, at,
                   sent, known>>

\* (mutant) the cull does not look at the references
CullAll(t) ==
    /\ pc[t] = "cull"
    /\ Closed({client[c].fd : c \in Dead})
    /\ client' = [c \in Structs |-> IF c \in Dead THEN Recycled ELSE client[c]]
    /\ Goto(t, "dec")
    /\ UNCHANGED <<admission, events, queued, sends, hold, fdv, making, at, sent, stratifier>>

\* Dead clients nobody refers to are recycled.
Cull(t) ==
    LET unused == {c \in Dead : client[c].ref = 0}
    IN  /\ pc[t] = "cull"
        /\ Closed({client[c].fd : c \in unused})
        /\ client' = [c \in Structs |-> IF c \in unused THEN Recycled ELSE client[c]]
        /\ Goto(t, "dec")
        /\ UNCHANGED <<admission, events, queued, sends, hold, fdv, making, at, sent,
                       stratifier>>

invalidate_client(t) == Drop(t) \/ Tell(t) \/ Cull(t)

\* dec_instance_ref: it only counts.
Dec(t) ==
    /\ pc[t] = "dec"
    /\ client' = [client EXCEPT ![hold[t]].ref = @ - 1]
    /\ hold' = [hold EXCEPT ![t] = NoStruct]
    /\ Goto(t, "idle")
    /\ UNCHANGED <<kernel, admission, events, queued, sends, fdv, making, at, sent,
                   stratifier>>

-----------------------------------------------------------------------------
(* client_event_processor: one event.                                        *)

\* ref_client_by_id of the event's id
EventTake ==
    /\ pc["event"] = "idle" /\ events # <<>>
    /\ events' = Tail(events)
    /\ \/ ById(Head(events)) = {} /\ UNCHANGED <<client, pc, hold>>
       \/ \E c \in ById(Head(events)) :
            /\ client' = [client EXCEPT ![c].ref = @ + 1]
            /\ hold' = [hold EXCEPT !["event"] = c]
            /\ Goto("event", "load")
    /\ UNCHANGED <<kernel, admission, queued, sends, fdv, making, at, sent, stratifier>>

\* parse_client_msg: the arguments of read() are evaluated, ...
EventLoad ==
    /\ pc["event"] = "load"
    /\ fdv' = [fdv EXCEPT !["event"] = client[hold["event"]].fd]
    /\ Goto("event", "read")
    /\ UNCHANGED <<kernel, client, admission, events, queued, sends, hold, making, at, sent,
                   stratifier>>

\* ... which brings a message, nothing (any more), or an error: always on a
\* closed fd.  A hangup may also be among the events.
EventRead ==
    /\ pc["event"] = "read"
    /\ \/ /\ fdv["event"] # NoFd /\ open[fdv["event"]] # 0
          /\ Goto("event", "parse") \/ Goto("event", "rearm")
       \/ Goto("event", "drop")
    /\ fdv' = [fdv EXCEPT !["event"] = NoFd]
    /\ UNCHANGED <<kernel, client, admission, events, queued, sends, hold, making, at, sent,
                   stratifier>>

\* A message goes to the stratifier, unless the client has been dropped.
EventMessage ==
    LET c == hold["event"]
    IN  /\ pc["event"] = "parse"
        /\ \/ client[c].where = "table" /\ known' = known \union {client[c].id}
           \/ client[c].where = "dead" /\ UNCHANGED known
        /\ Goto("event", "load")
        /\ UNCHANGED <<kernel, client, admission, events, queued, sends, hold, fdv, making, at,
                       told, sent>>

\* What is no message is answered by send_client, and the client is dropped.
EventGarbled ==
    LET id == client[hold["event"]].id
    IN  /\ pc["event"] = "parse"
        /\ \/ /\ \E c \in ById(id) : MakeSend(c) /\ queued' = Append(queued, Message(c))
              /\ UNCHANGED told
           \/ /\ ById(id) = {}
              /\ told' = told \union {id}
              /\ UNCHANGED <<client, queued, sent>>
        /\ Goto("event", "drop")
        /\ UNCHANGED <<kernel, admission, events, sends, hold, fdv, making, at, known>>

\* The fd of a client that is still valid is to be rearmed ...
EventRearm ==
    LET c == hold["event"]
    IN  /\ pc["event"] = "rearm"
        /\ \/ /\ client[c].where = "table"
              /\ fdv' = [fdv EXCEPT !["event"] = client[c].fd]
              /\ Goto("event", "mod")
           \/ client[c].where = "dead" /\ Goto("event", "dec") /\ UNCHANGED fdv
        /\ UNCHANGED <<kernel, client, admission, events, queued, sends, hold, making, at,
                       sent, stratifier>>

\* ... by epoll_ctl, which fails on a closed one.
EventMod ==
    LET f == fdv["event"]
    IN  /\ pc["event"] = "mod"
        /\ epoll' = IF f = NoFd \/ open[f] = 0 THEN epoll
                    ELSE [epoll EXCEPT ![f] = [id |-> client[hold["event"]].id,
                                               armed |-> TRUE]]
        /\ fdv' = [fdv EXCEPT !["event"] = NoFd]
        /\ Goto("event", "dec")
        /\ UNCHANGED <<open, client, admission, events, queued, sends, hold, making, at, sent,
                       stratifier>>

event == EventTake \/ EventLoad \/ EventRead \/ EventMessage \/ EventGarbled
         \/ EventRearm \/ EventMod \/ invalidate_client("event") \/ Dec("event")

-----------------------------------------------------------------------------
(* send_client, by the client message processor.                             *)

\* The client is looked up; one that is gone is reported.
SendClient ==
    /\ pc["cmp"] = "idle"
    /\ \E id \in known :
         \/ /\ ById(id) = {} /\ id \notin told
            /\ told' = told \union {id}
            /\ UNCHANGED <<client, making, sent, pc>>
         \/ \E c \in ById(id) :
              /\ MakeSend(c)
              /\ making' = Message(c)
              /\ Goto("cmp", "queue")
              /\ UNCHANGED told
    /\ UNCHANGED <<kernel, admission, events, queued, sends, hold, fdv, at, known>>

\* Its message is queued, under sender_lock.
QueueSend ==
    /\ pc["cmp"] = "queue"
    /\ queued' = Append(queued, making)
    /\ making' = NoSend
    /\ Goto("cmp", "idle")
    /\ UNCHANGED <<kernel, client, admission, events, sends, hold, fdv, at, sent, stratifier>>

cmp == SendClient \/ QueueSend

-----------------------------------------------------------------------------
(* The sender: it goes through its list again and again.                     *)

senderLeaves == <<admission, events, hold, making, sent, stratifier>>

\* The end of the list: what was queued meanwhile is appended.
SenderCollect ==
    /\ pc["sender"] = "idle" /\ at > Len(sends)
    /\ sends' = sends \o queued
    /\ queued' = <<>>
    /\ at' = 1
    /\ sends' # <<>>
    /\ UNCHANGED <<kernel, client, pc, fdv, senderLeaves>>

Current == pc["sender"] = "idle" /\ at <= Len(sends)

\* The message at the sender's place is done with: clear_sender_send.
Finished ==
    /\ sends' = SubSeq(sends, 1, at - 1) \o SubSeq(sends, at + 1, Len(sends))
    /\ UNCHANGED <<queued, at>>

\* The message of an invalid client is thrown away.
SenderDiscard ==
    LET c == sends[at].c
    IN  /\ Current
        /\ client[c].where = "dead"
        /\ client' = [client EXCEPT ![c].ref = @ - 1, ![c].sending = 0]
        /\ Finished
        /\ UNCHANGED <<kernel, pc, fdv, senderLeaves>>

\* Another message is being written to this client.
SenderSkip ==
    LET c == sends[at].c
    IN  /\ Current
        /\ client[c].where = "table" /\ client[c].sending \notin {0, sends[at].n}
        /\ at' = at + 1
        /\ UNCHANGED <<kernel, client, queued, sends, pc, fdv, senderLeaves>>

\* (mutant) no look at client->sending
SenderLoadAnyway ==
    LET c == sends[at].c
    IN  /\ Current
        /\ client[c].where = "table"
        /\ client' = [client EXCEPT ![c].sending = sends[at].n]
        /\ fdv' = [fdv EXCEPT !["sender"] = client[c].fd]
        /\ Goto("sender", "write")
        /\ UNCHANGED <<kernel, queued, sends, at, senderLeaves>>

\* The arguments of write() are evaluated ...
SenderLoad ==
    LET c == sends[at].c
    IN  /\ Current
        /\ client[c].where = "table" /\ client[c].sending \in {0, sends[at].n}
        /\ client' = [client EXCEPT ![c].sending = sends[at].n]
        /\ fdv' = [fdv EXCEPT !["sender"] = client[c].fd]
        /\ Goto("sender", "write")
        /\ UNCHANGED <<kernel, queued, sends, at, senderLeaves>>

WriteReturns(next) ==
    /\ pc["sender"] = "write"
    /\ fdv' = [fdv EXCEPT !["sender"] = NoFd]
    /\ Goto("sender", next)

\* ... and the message is written, ...
SenderWritten ==
    LET c == sends[at].c
    IN  /\ WriteReturns("idle")
        /\ fdv["sender"] # NoFd /\ open[fdv["sender"]] # 0
        /\ client' = [client EXCEPT ![c].ref = @ - 1, ![c].sending = 0, ![c].blocked = FALSE]
        /\ Finished
        /\ UNCHANGED <<kernel, senderLeaves>>

\* ... or the client blocks, or is still blocked, ...
SenderBlocked ==
    /\ WriteReturns("idle")
    /\ fdv["sender"] # NoFd /\ open[fdv["sender"]] # 0
    /\ client' = [client EXCEPT ![sends[at].c].blocked = TRUE]
    /\ at' = at + 1
    /\ UNCHANGED <<kernel, queued, sends, senderLeaves>>

\* (mutant) a client that has blocked for a minute is given more time
SenderPatient ==
    /\ WriteReturns("drop")
    /\ fdv["sender"] = NoFd \/ open[fdv["sender"]] = 0
    /\ UNCHANGED <<kernel, client, queued, sends, at, senderLeaves>>

\* ... or the write fails, or the client has blocked for a minute.
SenderFailed ==
    /\ WriteReturns("drop")
    /\ UNCHANGED <<kernel, client, queued, sends, at, senderLeaves>>

\* After invalidate_client
SenderDropped ==
    LET c == sends[at].c
    IN  /\ pc["sender"] = "dec"
        /\ client' = [client EXCEPT ![c].ref = @ - 1, ![c].sending = 0]
        /\ Finished
        /\ Goto("sender", "idle")
        /\ UNCHANGED <<kernel, fdv, senderLeaves>>

sender == SenderCollect \/ SenderDiscard \/ SenderSkip \/ SenderLoad \/ SenderWritten
          \/ SenderBlocked \/ SenderFailed \/ SenderDropped \/ invalidate_client("sender")

-----------------------------------------------------------------------------
(* connector_loop: commands of the stratifier and the generator.             *)

\* dropclient
LoopDrop ==
    /\ pc["loop"] = "idle" /\ "dropclient" \in Commands
    /\ \E id \in known : \E c \in ById(id) :
         /\ client' = [client EXCEPT ![c].ref = @ + 1]
         /\ hold' = [hold EXCEPT !["loop"] = c]
    /\ Goto("loop", "drop")
    /\ UNCHANGED <<kernel, admission, events, queued, sends, fdv, making, at, sent,
                   stratifier>>

\* testclient, of a client that is gone
LoopTest ==
    /\ pc["loop"] = "idle" /\ "testclient" \in Commands
    /\ \E id \in known \ told : ById(id) = {} /\ told' = told \union {id}
    /\ UNCHANGED <<kernel, client, admission, events, queued, sends, pc, hold, fdv, making, at,
                   known, sent>>

\* accept and reject; a passthrough that has lost its pool drops everybody
\* (drop_all_clients, without a word to the stratifier).
LoopAccept ==
    /\ pc["loop"] = "idle" /\ "accept" \in Commands
    /\ accept' = ~ accept
    /\ \/ accept /\ Passthrough
          /\ Closed({client[c].fd : c \in Clients})
          /\ client' = [c \in Structs |->
                          IF c \in Clients
                          THEN [client[c] EXCEPT !.where = "dead", !.fd = NoFd, !.ref = @ - 1]
                          ELSE client[c]]
       \/ ~ (accept /\ Passthrough) /\ UNCHANGED <<kernel, client>>
    /\ UNCHANGED <<client_ids, events, queued, sends, pc, hold, fdv, making, at, sent,
                   stratifier>>

loop == LoopDrop \/ LoopTest \/ LoopAccept \/ invalidate_client("loop") \/ Dec("loop")

Next == receiver \/ event \/ cmp \/ sender \/ loop

Spec == Init /\ [][Next]_vars

\* A client that blocks is written to again every time round, until the
\* minute is over.
TimesOut(c) ==
    /\ pc["sender"] = "write" /\ sends[at].c = c /\ client[c].blocked
    /\ SenderFailed

\* The threads run, and the minute passes; the peers, and the commands that
\* come, may do as they like.
Fairness ==
    /\ WF_vars(AcceptAdd \/ AcceptArm) /\ WF_vars(event) /\ WF_vars(QueueSend)
    /\ WF_vars(sender)
    /\ WF_vars(invalidate_client("loop") \/ Dec("loop"))
    /\ \A c \in Structs : SF_vars(TimesOut(c))

FairSpec == Spec /\ Fairness

-----------------------------------------------------------------------------
(* Properties.                                                               *)

(* client->ref is one for the epoll list, one for each thread that has       *)
(* looked the client up, and one for each message on its way.                *)
RefsCounted ==
    \A c \in Clients \union Dead :
      client[c].ref = Cardinality({t \in {"event", "loop"} : hold[t] = c})
                      + Cardinality(InFlight(c))
                      + (IF c \in Clients /\ hold["receiver"] # c THEN 1 ELSE 0)

(* No descriptor is lost: every one the kernel holds open is the fd of one   *)
(* client in the table, or of the one being accepted.                        *)
FdsOwned ==
    \A f \in Fds : open[f] # 0 =>
      \/ fdv["receiver"] = f
      \/ \E c \in Clients : client[c].fd = f /\ client[c].id = open[f]

(* What the sender writes to a client is the oldest message it has for it:   *)
(* messages are neither reordered nor written into each other.               *)
OldestFirst ==
    pc["sender"] = "write" => \A j \in 1 .. at - 1 : sends[j].c # sends[at].c

(* The stratifier is told of every client that is dropped.                   *)
DropsTold ==
    \A c \in Dead : client[c].id \in told
                    \/ \E t \in {"event", "sender", "loop"} : pc[t] = "tell" /\ Subject(t) = c

(* Every message is eventually written or thrown away, and its reference     *)
(* released, however the other clients block.                                *)
SendsDrain ==
    \A n \in Serials : (\E c \in Structs : n \in InFlight(c))
                         ~> (\A c \in Structs : n \notin InFlight(c))

(* "Rearm the fd in the epoll list if it's still active": a client in the    *)
(* table is listened to, unless an event of it is being handled.             *)
Listened ==
    \A c \in Clients :
      \/ hold["receiver"] = c \/ hold["event"] = c
      \/ epoll[client[c].fd] = [id |-> client[c].id, armed |-> TRUE]
      \/ \E i \in DOMAIN events : events[i] = client[c].id

(* The table keeps the promise of a reference-counted table with lazy        *)
(* removal: dead clients are found by nobody, and recycled only when nobody  *)
(* holds them.                                                               *)
Users == ({"thread"} \X {"event", "loop"}) \union ({"message"} \X Serials)

LR == INSTANCE LazyReclaim WITH
        Objs <- Structs, Holders <- Users, Sweepers <- {},
        phase <- [c \in Structs |-> IF client[c].where \in {"recycled", "new"} THEN "free"
                                    ELSE IF client[c].where = "dead" THEN "dying"
                                    ELSE "live"],
        held <- [c \in Structs |-> ({"thread"} \X {t \in {"event", "loop"} : hold[t] = c})
                                    \union ({"message"} \X InFlight(c))]

ReclaimsLazily == LR!Spec
=============================================================================
