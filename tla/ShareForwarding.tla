--------------------------- MODULE ShareForwarding ---------------------------
(* The way of a miner's share to an upstream pool (src/src/generator.c): the  *)
(* stratifier hands it over (generator_add_send), a table remembers it until  *)
(* the pool answers, and one thread, proxy_send, writes the shares of all     *)
(* sessions to their sockets without ever waiting for one of them.  Sessions  *)
(* are lost and set up again by other threads; a subproxy's structure is      *)
(* cleared and used for another one while messages still point to it, and a   *)
(* descriptor is given to another connection while proxy_send holds it.  The  *)
(* threads that receive write to the same sockets, unasked: the answers to    *)
(* mining.ping and client.get_version.                                        *)
EXTENDS Integers, Sequences, FiniteSets, SequencesExt

CONSTANTS
    Structs,      \* proxy_instance structures: 1 .. n
    Parents,      \* those of parent proxies; the others are recycled
    Miners,
    MaxShares,    \* bound: shares submitted
    MaxConns,     \* bound: connections made
    MaxFds,       \* bound: descriptors there are
    MaxPings,     \* bound: requests of the pools that are answered
    MaxJobs       \* bound: jobs the pools send

ASSUME ShareForwardingAssumption ==
    /\ IsFiniteSet(Structs) /\ Structs = 1..Cardinality(Structs) /\ Parents \subseteq Structs
    /\ Miners # {} /\ MaxShares \in Nat
    /\ MaxConns \in Nat /\ MaxConns >= Cardinality(Structs)
    /\ MaxFds \in Nat /\ MaxFds >= Cardinality(Structs)
    /\ MaxPings \in Nat /\ MaxJobs \in Nat \ {0}

VARIABLES
    conn,      \* conn[s]: the number of the connection s has or had last
    alive,     \* alive[s]
    setup,     \* sessions connected that are not alive yet
    csfd,      \* csfd[s]: the descriptor of the connection, cs.fd, 0: closed
    sending,   \* sending[s]: the message a part of which has been sent, or 0
    wire,      \* wire[c]: the parts of messages sent on connection c
    replies,   \* replies[c]: what had been sent of these, of parts of messages,
               \* whenever a piece of a reply was
    onto,      \* onto[s]: the descriptor a reply is being written to, or 0
    pings,     \* requests answered
    shares,    \* the table of shares that wait for an answer
    outdated,  \* those submitted more than 120 s ago
    psends,    \* shares handed over
    csq,       \* proxy_send's messages; left: parts still to be sent
    pass,      \* the message send_json_msgq is at, 0: between two passes
    step,      \* what it does next there: test alive, load cs.fd, or write
    target,    \* the descriptor it has loaded
    jobs,      \* notify_instances: the jobs of all sessions
    lastJob,   \* proxy_notify_id
    bound,     \* bound[m]: the session miner m works on
    asked,     \* miners told to reconnect that have not yet
    put,       \* (history) shares handed over: [id, m, s, on]
    failed,    \* (history) shares whose miner was told
    aborted    \* the process has gone down

sessionVars == <<conn, alive, setup, csfd, sending>>
replyVars == <<replies, onto, pings>>
wireVars == <<wire, replyVars>>
tableVars == <<shares, outdated>>
passVars == <<pass, step, target>>
queueVars == <<psends, csq, passVars>>
jobVars == <<jobs, lastJob>>
minerVars == <<bound, asked>>
historyVars == <<put, failed>>
fwdVars == <<sessionVars, wireVars, tableVars, queueVars, jobVars, minerVars, historyVars,
             aborted>>

\* A message is written in two parts if the socket takes no more at once.
Parts == 2

\* How a session is found, by id and subid: a parent's name does not change with
\* its connection, a subproxy's does.
Name(s) == <<s, IF s \in Parents THEN 0 ELSE conn[s]>>
\* proxy_by_id and subproxy_by_id: a subproxy that is not alive is off the list.
FoundBy(name) == {s \in Structs : Name(s) = name /\ (s \in Parents \/ alive[s])}

Share == [id : 1..MaxShares, m : Miners, to : Structs \X (0..MaxConns), job : 1..MaxJobs]
\* What proxy_send makes of one, for session s.
Message(id, s) == [id |-> id, s |-> s, left |-> Parts]
CsMsg == [id : 1..MaxShares, s : Structs, left : 0..Parts]

FwdTypeOK ==
    /\ conn \in [Structs -> 1..MaxConns] /\ alive \in [Structs -> BOOLEAN]
    /\ setup \subseteq Structs /\ csfd \in [Structs -> 0..MaxFds]
    /\ sending \in [Structs -> 0..MaxShares] /\ onto \in [Structs -> 0..MaxFds]
    /\ pings \in 0..MaxPings
    /\ \A c \in DOMAIN wire : \A i \in DOMAIN wire[c] :
        wire[c][i] \in (1..MaxShares) \X (1..Parts)
    /\ DOMAIN replies = DOMAIN wire
    /\ \A c \in DOMAIN wire : replies[c] \subseteq 0..Len(wire[c])
    /\ shares \subseteq 1..MaxShares /\ outdated \subseteq 1..MaxShares
    /\ \A i \in DOMAIN psends : psends[i] \in Share
    /\ \A i \in DOMAIN csq : csq[i] \in CsMsg
    /\ pass \in 0..Len(csq) + 1 /\ step \in {"test", "load", "write"} /\ target \in 0..MaxFds
    /\ jobs \subseteq 1..lastJob /\ lastJob \in 1..MaxJobs
    /\ bound \in [Miners -> Structs \X (0..MaxConns)] /\ asked \subseteq Miners

FwdInit ==
    /\ conn = [s \in Structs |-> s] /\ alive = [s \in Structs |-> TRUE]
    /\ setup = {} /\ csfd = [s \in Structs |-> s]
    /\ sending = [s \in Structs |-> 0] /\ wire = [s \in Structs |-> <<>>]
    /\ replies = [s \in Structs |-> {}] /\ onto = [s \in Structs |-> 0] /\ pings = 0
    /\ shares = {} /\ outdated = {} /\ psends = <<>> /\ csq = <<>>
    /\ pass = 0 /\ step = "test" /\ target = 0
    /\ lastJob = 1 /\ jobs = {1}
    /\ bound \in [Miners -> {Name(s) : s \in Structs}] /\ asked = {}
    /\ put = <<>> /\ failed = {} /\ aborted = FALSE

-----------------------------------------------------------------------------
(* Submitting and answers.                                                   *)

\* add_share: every new one ages the others.
AddShare(id) ==
    /\ shares' = (shares \ outdated) \union {id}
    /\ UNCHANGED outdated

\* generator_add_send, submit_share: a share for a session that is not alive is
\* dropped, and its miner asked to reconnect (reconnclient=).
SubmitUpstream(m, job) ==
    LET found == {s \in FoundBy(bound[m]) : alive[s]}
        id == Len(put) + 1
        on == conn[CHOOSE s \in found : TRUE]
    IN  /\ m \notin asked
        /\ IF found = {}
           THEN /\ asked' = asked \union {m}
                /\ UNCHANGED <<tableVars, psends, put>>
           ELSE /\ id <= MaxShares
                /\ AddShare(id)
                /\ psends' = Append(psends, [id |-> id, m |-> m, to |-> bound[m],
                                             job |-> job])
                /\ put' = Append(put, [m |-> m, on |-> on])
                /\ UNCHANGED asked
        /\ UNCHANGED <<sessionVars, wireVars, csq, passVars, jobVars, bound, failed,
                       aborted>>

\* The miner comes back and is given a session that is alive.
Rebind(m, s) ==
    /\ m \in asked /\ alive[s]
    /\ asked' = asked \ {m} /\ bound' = [bound EXCEPT ![m] = Name(s)]
    /\ UNCHANGED <<sessionVars, wireVars, tableVars, queueVars, jobVars, historyVars,
                   aborted>>

\* Two minutes pass.
TwoMinutes ==
    /\ shares \ outdated # {} /\ outdated' = outdated \union shares
    /\ UNCHANGED <<sessionVars, wireVars, shares, queueVars, jobVars, minerVars,
                   historyVars, aborted>>

\* The receiving threads age the table.
AgeShares ==
    /\ shares \intersect outdated # {} /\ shares' = shares \ outdated
    /\ UNCHANGED <<sessionVars, wireVars, outdated, queueVars, jobVars, minerVars,
                   historyVars, aborted>>

\* parse_share: the pool answers a share it has got.  One found in the table is
\* freed, read and freed again: the process may abort.
AnswerShare(s, id) ==
    /\ alive[s] /\ csfd[s] # 0
    /\ \E i \in DOMAIN wire[conn[s]] : wire[conn[s]][i] = <<id, Parts>>
    /\ id \in shares /\ shares' = shares \ {id}
    /\ aborted' \in BOOLEAN
    /\ UNCHANGED <<sessionVars, wireVars, outdated, queueVars, jobVars, minerVars,
                   historyVars>>

-----------------------------------------------------------------------------
(* proxy_send.                                                               *)

\* (mutant) a share whose job is gone is dropped like one whose session is gone
TakeShareSilently ==
    LET msg == Head(psends)
        found == FoundBy(msg.to)
        known == found # {} /\ msg.job \in jobs
    IN  /\ pass = 0 /\ psends # <<>> /\ psends' = Tail(psends)
        /\ IF known
           THEN /\ csq' = Append(csq, Message(msg.id, CHOOSE s \in found : TRUE))
                /\ pass' = 1
           ELSE UNCHANGED <<csq, pass>>
        /\ UNCHANGED <<sessionVars, wireVars, tableVars, step, target, jobVars, bound,
                       asked, put, failed, aborted>>

\* The next share becomes a message of its session, unless the session is gone,
\* of which nobody hears, or the job, when the miner is asked to reconnect.
TakeShare ==
    LET msg == Head(psends)
        found == FoundBy(msg.to)
    IN  /\ pass = 0 /\ psends # <<>> /\ psends' = Tail(psends)
        /\ IF found # {} /\ msg.job \in jobs
           THEN /\ csq' = Append(csq, Message(msg.id, CHOOSE s \in found : TRUE))
                /\ pass' = 1
           ELSE UNCHANGED <<csq, pass>>
        /\ IF found # {} /\ msg.job \notin jobs
           THEN /\ asked' = asked \union {msg.m} /\ failed' = failed \union {msg.id}
           ELSE UNCHANGED <<asked, failed>>
        /\ UNCHANGED <<sessionVars, wireVars, tableVars, step, target, jobVars, bound, put,
                       aborted>>

\* Nothing to take for 10 ms: what would have blocked is tried again.
PollPass ==
    /\ pass = 0 /\ psends = <<>> /\ csq # <<>> /\ pass' = 1
    /\ UNCHANGED <<sessionVars, wireVars, tableVars, psends, csq, step, target, jobVars,
                   minerVars, historyVars, aborted>>

EndPass ==
    /\ pass > Len(csq) /\ pass' = 0
    /\ UNCHANGED <<sessionVars, wireVars, tableVars, psends, csq, step, target, jobVars,
                   minerVars, historyVars, aborted>>

At == csq[pass]
AtMessage == pass \in DOMAIN csq
\* What there is of the session of connection c is written to.
Connected == {s \in Structs : csfd[s] # 0}

\* (mutant) messages are not kept apart
MayEver(msg) == TRUE

\* One message at a time to each session.
MaySend(msg) == sending[msg.s] \in {0, msg.id}

\* The message at hand is done with.
Dispatched == csq' = RemoveAt(csq, pass) /\ step' = "test" /\ UNCHANGED <<pass, target>>

PassSkip ==
    /\ AtMessage /\ step = "test" /\ ~ MaySend(At) /\ pass' = pass + 1
    /\ UNCHANGED <<sessionVars, wireVars, tableVars, psends, csq, step, target, jobVars,
                   minerVars, historyVars, aborted>>

\* The session of the message is not alive.
PassDead ==
    /\ AtMessage /\ step = "test" /\ MaySend(At) /\ ~ alive[At.s]
    /\ sending' = [sending EXCEPT ![At.s] = 0] /\ Dispatched
    /\ UNCHANGED <<conn, alive, setup, csfd, wireVars, tableVars, psends, jobVars,
                   minerVars, historyVars, aborted>>

\* It is.  Nothing keeps it so: the descriptor is loaded, and written to, after that.
PassTest ==
    /\ AtMessage /\ step = "test" /\ MaySend(At) /\ alive[At.s] /\ step' = "load"
    /\ UNCHANGED <<sessionVars, wireVars, tableVars, psends, csq, pass, target, jobVars,
                   minerVars, historyVars, aborted>>

PassLoad ==
    /\ step = "load" /\ step' = "write" /\ target' = csfd[At.s]
    /\ sending' = [sending EXCEPT ![At.s] = At.id]
    /\ UNCHANGED <<conn, alive, setup, csfd, wireVars, tableVars, psends, csq, pass,
                   jobVars, minerVars, historyVars, aborted>>

\* A part, or all that is left, is taken by a socket.
PartTaken ==
    IF At.left = 1
    THEN sending' = [sending EXCEPT ![At.s] = 0] /\ Dispatched
    ELSE /\ csq' = [csq EXCEPT ![pass].left = @ - 1]
         /\ step' = "test" /\ UNCHANGED <<sending, pass, target>>

\* By the one that has the descriptor now, which may be another session's.
PassSend ==
    /\ step = "write"
    /\ \E s \in Connected :
        /\ csfd[s] = target
        /\ wire' = [wire EXCEPT ![conn[s]] = Append(@, <<At.id, Parts - At.left + 1>>)]
    /\ PartTaken
    /\ UNCHANGED <<conn, alive, setup, csfd, replyVars, tableVars, psends, jobVars,
                   minerVars, historyVars, aborted>>

\* By something else of the process that has it.
PassAstray ==
    /\ step = "write" /\ target # 0 /\ \A s \in Structs : csfd[s] # target
    /\ PartTaken
    /\ UNCHANGED <<conn, alive, setup, csfd, wireVars, tableVars, psends, jobVars,
                   minerVars, historyVars, aborted>>

\* It takes nothing now.
PassBlocked ==
    /\ step = "write" /\ target # 0 /\ pass' = pass + 1 /\ step' = "test"
    /\ UNCHANGED <<sessionVars, wireVars, tableVars, psends, csq, target, jobVars,
                   minerVars, historyVars, aborted>>

\* disable_subproxy: the descriptor is closed, and a subproxy's structure, if it was
\* in the list, cleared (store_proxy).
DisabledSession(s) ==
    /\ alive' = [alive EXCEPT ![s] = FALSE] /\ csfd' = [csfd EXCEPT ![s] = 0]
    /\ sending' = IF s \in Parents THEN sending ELSE [sending EXCEPT ![s] = 0]
    /\ UNCHANGED conn

\* It is broken, or closed: the message is dropped, and the session the structure
\* has now.  For one cleared and not in use there is no parent whose mutex to take.
PassError ==
    /\ step = "write"
    /\ alive' = [alive EXCEPT ![At.s] = FALSE] /\ csfd' = [csfd EXCEPT ![At.s] = 0]
    /\ sending' = [sending EXCEPT ![At.s] = 0] /\ Dispatched
    /\ aborted' \in IF At.s \in Parents \/ alive[At.s] \/ At.s \in setup
                     THEN {FALSE} ELSE BOOLEAN
    /\ UNCHANGED <<conn, setup, wireVars, tableVars, psends, jobVars, minerVars,
                   historyVars>>

-----------------------------------------------------------------------------
(* Replies.                                                                  *)

\* send_pong, send_version: the receiving thread of a session, or the one that sets it
\* up, answers the pool; it does not look at sending.
ReplyLoad(s) ==
    /\ onto[s] = 0 /\ (alive[s] \/ s \in setup) /\ pings < MaxPings
    /\ onto' = [onto EXCEPT ![s] = csfd[s]] /\ pings' = pings + 1
    /\ UNCHANGED <<sessionVars, wire, replies, tableVars, queueVars, jobVars, minerVars,
                   historyVars, aborted>>

\* write_socket, write_length: a piece of the reply, to whoever has the descriptor.
ReplyPiece(s, t) ==
    /\ onto[s] # 0 /\ csfd[t] = onto[s]
    /\ replies' = [replies EXCEPT ![conn[t]] = @ \union {Len(wire[conn[t]])}]
    /\ UNCHANGED <<sessionVars, wire, onto, pings, tableVars, queueVars, jobVars, minerVars,
                   historyVars, aborted>>

ReplyEnd(s) ==
    /\ onto[s] # 0 /\ onto' = [onto EXCEPT ![s] = 0]
    /\ UNCHANGED <<sessionVars, wire, replies, pings, tableVars, queueVars, jobVars,
                   minerVars, historyVars, aborted>>

-----------------------------------------------------------------------------
(* Sessions and jobs.                                                        *)

\* Another thread finds the session lost, or setting it up has failed.
LoseSession(s) ==
    /\ alive[s] \/ s \in setup
    /\ DisabledSession(s) /\ setup' = setup \ {s}
    /\ UNCHANGED <<wireVars, tableVars, queueVars, jobVars, minerVars, historyVars,
                   aborted>>

\* A session is connected to its pool: a parent's again, or a subproxy in a structure
\* that was cleared.  It gets any descriptor that is not in use.
ConnectSession(s, d) ==
    /\ ~ alive[s] /\ s \notin setup /\ Len(wire) < MaxConns
    /\ \A t \in Structs : csfd[t] # d
    /\ csfd' = [csfd EXCEPT ![s] = d] /\ setup' = setup \union {s}
    /\ conn' = [conn EXCEPT ![s] = Len(wire) + 1]
    /\ wire' = Append(wire, <<>>) /\ replies' = Append(replies, {})
    /\ UNCHANGED <<alive, sending, onto, pings, tableVars, queueVars, jobVars, minerVars,
                   historyVars, aborted>>

\* Its descriptor is closed while it is being set up (client.reconnect, disableproxy).
CutSession(s) ==
    /\ s \in setup /\ csfd[s] # 0 /\ csfd' = [csfd EXCEPT ![s] = 0]
    /\ UNCHANGED <<conn, alive, setup, sending, wireVars, tableVars, queueVars, jobVars,
                   minerVars, historyVars, aborted>>

\* It is set up; subscribing and authorising are over.
SessionUp(s) ==
    /\ s \in setup /\ setup' = setup \ {s} /\ alive' = [alive EXCEPT ![s] = TRUE]
    /\ UNCHANGED <<conn, csfd, sending, wireVars, tableVars, queueVars, jobVars, minerVars,
                   historyVars, aborted>>

\* parse_notify: a job of any session joins the one table.
NewJob ==
    /\ lastJob < MaxJobs /\ lastJob' = lastJob + 1 /\ jobs' = jobs \union {lastJob + 1}
    /\ UNCHANGED <<sessionVars, wireVars, tableVars, queueVars, minerVars, historyVars,
                   aborted>>

\* Jobs older than ten minutes go while there are three, whoever's they are.
AgeJob(j) ==
    /\ j \in jobs /\ \A i \in jobs : j <= i
    /\ Cardinality(jobs) >= 3 /\ jobs' = jobs \ {j}
    /\ UNCHANGED <<sessionVars, wireVars, tableVars, queueVars, lastJob, minerVars,
                   historyVars, aborted>>

ProxySend ==
    \/ TakeShare \/ PollPass \/ EndPass \/ PassSkip \/ PassDead \/ PassTest \/ PassLoad
    \/ PassSend \/ PassAstray \/ PassBlocked \/ PassError

FwdNext ==
    /\ ~ aborted
    /\ \/ ProxySend
       \/ \E m \in Miners :
            \/ \E job \in 1..lastJob : SubmitUpstream(m, job)
            \/ \E s \in Structs : Rebind(m, s)
       \/ TwoMinutes \/ AgeShares
       \/ \E s \in Structs :
            \/ \E id \in shares : AnswerShare(s, id)
            \/ ReplyLoad(s) \/ ReplyEnd(s) \/ \E t \in Structs : ReplyPiece(s, t)
            \/ LoseSession(s) \/ CutSession(s) \/ SessionUp(s)
            \/ \E d \in 1..MaxFds : ConnectSession(s, d)
       \/ NewJob \/ \E j \in jobs : AgeJob(j)

-----------------------------------------------------------------------------
(* Properties.                                                               *)

\* The shares handed over for a connection reach its pool whole, no part of another
\* share between their parts, and in the order in which they were found: although a
\* pass leaves a message half sent and goes on with others, and although proxy_send
\* writes to a descriptor that may have been closed, or be another session's, since
\* it looked.  Nothing of the kind holds of the messages that were meant for an
\* earlier session of the same structure: send_json_msgq goes on with them, or with
\* the rest of them.  Nor of the replies of the receiving threads (PartsTogether).
WholeInOrder ==
    \A c \in DOMAIN wire :
        LET Own(i) == put[wire[c][i][1]].on = c
        IN  \A i \in DOMAIN wire[c] : Own(i) =>
              IF wire[c][i][2] = 1
              THEN /\ i < Len(wire[c]) => wire[c][i + 1] = <<wire[c][i][1], 2>>
                   /\ \A j \in 1..(i - 1) : Own(j) => wire[c][j][1] < wire[c][i][1]
              ELSE i > 1 /\ wire[c][i - 1] = <<wire[c][i][1], 1>>

\* "Only try to send one message at a time to each proxy to avoid sending parts of
\* different messages": what is on the wire between the two parts of a share is
\* nothing else, no piece of a reply either.
PartsTogether ==
    \A c \in DOMAIN wire : \A i \in DOMAIN wire[c] :
        wire[c][i][2] = 1 /\ i < Len(wire[c]) => i \notin replies[c]

\* A share that was handed over while its session was alive is still on its way,
\* has reached the pool, or its miner was told; unless that session has ended
\* since.  No pass forgets one that could not be sent at once.
ShareKept ==
    \A id \in DOMAIN put :
        \/ \E i \in DOMAIN psends : psends[i].id = id
        \/ \E i \in DOMAIN csq : csq[i].id = id
        \/ \E i \in DOMAIN wire[put[id].on] : wire[put[id].on][i] = <<id, Parts>>
        \/ id \in failed
        \/ ~ \E s \in Structs : alive[s] /\ conn[s] = put[id].on
=============================================================================
