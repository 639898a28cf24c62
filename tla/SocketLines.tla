----------------------------- MODULE SocketLines -----------------------------
(* read_socket_line (src/src/ckpool.c): lines are read from a stream socket   *)
(* through a buffer that is kept between calls.  A call may end in the midst  *)
(* of a line and data may hold several; the owner of the connsock may also    *)
(* connect it again, and may or may not empty the buffer before.              *)
EXTENDS Integers, Sequences, SequencesExt

CONSTANTS
    Lengths,   \* bound: lengths of lines
    MaxLines,  \* bound: lines sent on one connection
    MaxOpens   \* bound: connections

ASSUME SocketLinesAssumption == Lengths \subseteq Nat /\ MaxLines \in Nat /\ MaxOpens \in Nat

VARIABLES
    stream,  \* what has been sent and not received: <<l, n>>, the character n of
             \* line l, 0 its end
    sent,    \* sent[l]: the length of line l of this connection
    fin,     \* the peer has closed
    fd,      \* the socket is open
    opens,
    buf,     \* cs->buf, as far as it has been written to
    bufofs, buflen,
    inCall,  \* a call of read_socket_line is at work
    lines,   \* (history) what the calls have returned on this connection
    fresh    \* (history) the buffer held nothing when it was made

lineVars == <<stream, sent, fin, fd, opens, buf, bufofs, buflen, inCall, lines, fresh>>
peerVars == <<stream, sent, fin>>
bufVars == <<buf, bufofs, buflen>>
connVars == <<fd, opens, fresh>>

Body(l, n) == [i \in 1..n |-> <<l, i>>]
Line(l, n) == Append(Body(l, n), <<l, 0>>)

LinesInit ==
    /\ stream = <<>> /\ sent = <<>> /\ fin = FALSE
    /\ fd = FALSE /\ opens = 0 /\ fresh = TRUE
    /\ buf = <<>> /\ bufofs = 0 /\ buflen = 0
    /\ inCall = FALSE /\ lines = <<>>

-----------------------------------------------------------------------------
(* The peer.                                                                 *)

PeerSends(n) ==
    /\ fd /\ ~ fin /\ Len(sent) < MaxLines
    /\ sent' = Append(sent, n) /\ stream' = stream \o Line(Len(sent) + 1, n)
    /\ UNCHANGED <<fin, bufVars, connVars, inCall, lines>>

\* Perhaps in the midst of a line, of which the rest is not received.
PeerCloses ==
    /\ fd /\ ~ fin /\ fin' = TRUE
    /\ \E n \in 0..Len(stream) : stream' = SubSeq(stream, 1, n)
    /\ UNCHANGED <<sent, bufVars, connVars, inCall, lines>>

-----------------------------------------------------------------------------
(* The buffer.                                                               *)

\* clear_bufline: buflen characters from bufofs on are moved to the front;
\* without any the buffer holds bufofs characters of a line.
Kept == IF buflen > 0 THEN SubSeq(buf, bufofs + 1, bufofs + buflen) ELSE SubSeq(buf, 1, bufofs)

\* add_buflen
Filled(kept, data) ==
    /\ buf' = kept \o data /\ bufofs' = Len(kept) + Len(data) /\ buflen' = 0

\* recv_available: what has arrived, the first n characters.
Arrived(n) == SubSeq(stream, 1, n)
Received(n) == stream' = SubSeq(stream, n + 1, Len(stream))

\* empty_buffer
Emptied == buf' = <<>> /\ bufofs' = 0 /\ buflen' = 0

\* The ends of lines in the buffer, as far as it is filled.
Ends == {i \in 1..bufofs : buf[i][2] = 0}

-----------------------------------------------------------------------------
(* read_socket_line.                                                         *)

ReadBegins(n) ==
    /\ opens > 0 /\ ~ inCall /\ inCall' = TRUE
    /\ n = 0 \/ fd
    /\ Filled(Kept, Arrived(n)) /\ Received(n)
    /\ UNCHANGED <<sent, fin, connVars, lines>>

\* select reports more, and it is received.
ReadMore(n) ==
    /\ inCall /\ Ends = {} /\ fd /\ n > 0
    /\ Filled(SubSeq(buf, 1, bufofs), Arrived(n)) /\ Received(n)
    /\ UNCHANGED <<sent, fin, connVars, inCall, lines>>

\* (mutant) bufofs is not reset when nothing is left
ReadLineUnreset ==
    LET eom == CHOOSE i \in Ends : \A j \in Ends : i <= j
        left == bufofs - eom
    IN  /\ inCall /\ Ends # {} /\ inCall' = FALSE
        /\ lines' = Append(lines, SubSeq(buf, 1, eom - 1))
        /\ buflen' = left /\ UNCHANGED buf
        /\ bufofs' = IF left > 0 THEN eom ELSE eom - 1
        /\ UNCHANGED <<peerVars, connVars>>

\* A whole line: its length is returned.
ReadLine ==
    LET eom == CHOOSE i \in Ends : \A j \in Ends : i <= j
        left == bufofs - eom
    IN  /\ inCall /\ Ends # {} /\ inCall' = FALSE
        /\ lines' = Append(lines, SubSeq(buf, 1, eom - 1))
        /\ buflen' = left /\ UNCHANGED buf
        /\ bufofs' = IF left > 0 THEN eom ELSE 0
        /\ UNCHANGED <<peerVars, connVars>>

\* The time is over: 0 is returned, what was received is kept.
ReadTimesOut ==
    /\ inCall /\ Ends = {} /\ fd /\ inCall' = FALSE
    /\ UNCHANGED <<peerVars, bufVars, connVars, lines>>

\* The socket is closed, or has nothing more: -1 is returned, the buffer freed.
ReadFails ==
    /\ inCall /\ Ends = {} /\ (fd => fin /\ stream = <<>>)
    /\ inCall' = FALSE /\ Emptied
    /\ UNCHANGED <<peerVars, connVars, lines>>

-----------------------------------------------------------------------------
(* The owners.                                                               *)

\* connect_proxy and others: a new connection, the buffer as it is.
Connect ==
    /\ ~ fd /\ ~ inCall /\ opens < MaxOpens
    /\ fd' = TRUE /\ opens' = opens + 1 /\ fresh' = (Kept = <<>>)
    /\ stream' = <<>> /\ sent' = <<>> /\ fin' = FALSE /\ lines' = <<>>
    /\ UNCHANGED <<bufVars, inCall>>

\* close_proxy_socket closes it, perhaps while another thread reads;
\* _json_rpc_call has emptied the buffer.
CloseSocket(empty) ==
    /\ fd /\ (empty => ~ inCall) /\ fd' = FALSE
    /\ IF empty THEN Emptied ELSE UNCHANGED bufVars
    /\ UNCHANGED <<opens, fresh, peerVars, inCall, lines>>

LinesNext ==
    \/ \E n \in Lengths : PeerSends(n)
    \/ PeerCloses
    \/ \E n \in 0..Len(stream) : ReadBegins(n) \/ ReadMore(n)
    \/ ReadLine \/ ReadTimesOut \/ ReadFails
    \/ Connect \/ \E empty \in BOOLEAN : CloseSocket(empty)

-----------------------------------------------------------------------------
(* Property.                                                                 *)

\* However the stream is cut, and wherever calls time out, the calls return the
\* lines of the connection, whole, each once and in order; but a connection made
\* with a part of an earlier one in the buffer begins with that.
LinesWhole ==
    fresh => /\ Len(lines) <= Len(sent)
             /\ \A l \in DOMAIN lines : lines[l] = Body(l, sent[l])
=============================================================================
