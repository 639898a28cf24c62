---------------------- MODULE ConnectorClients_proofs ----------------------
(* Proofs about ConnectorClients, for any number of connections, structs,     *)
(* descriptors and messages, of a pool that is no passthrough: a passthrough  *)
(* that loses its pool drops every client, one that accept_client has not     *)
(* given its reference and its fd yet among them.                             *)
(*                                                                           *)
(* The reference counts come out right because nobody finds a client between  *)
(* the moment it is in the table and the moment accept_client is through with *)
(* it: no id that was given out to anyone is that of the client being armed   *)
(* (Heard), and whoever holds a client holds one in the table or dropped from *)
(* it (Sound).  The order of a client's messages then rests on the counts: a  *)
(* message's client is not recycled, so its "sending" stays what the sender   *)
(* left there when it passed the message (Passed).                            *)
EXTENDS ConnectorClients, FiniteSetTheorems, SequenceTheorems, TLAPS

\* Who has looked c up.
Lookups(c) == {t \in {"event", "loop"} : hold[t] = c}

\* The ids of clients that accept_client is through with.
Announced == IF pc["receiver"] = "arm" THEN client_ids - 1 ELSE client_ids

\* Where the threads may be, and what they have in hand there.
Control ==
    /\ pc["receiver"] \in {"idle", "add", "arm"} /\ pc["cmp"] \in {"idle", "queue"}
    /\ pc["event"] \in {"idle", "load", "read", "parse", "rearm", "mod", "drop", "tell",
                        "cull", "dec"}
    /\ pc["sender"] \in {"idle", "write", "drop", "tell", "cull", "dec"}
    /\ pc["loop"] \in {"idle", "drop", "tell", "cull", "dec"}
    /\ \A t \in {"receiver", "event", "loop"} : hold[t] \in Structs <=> pc[t] # "idle"
    /\ fdv["receiver"] \in Fds <=> pc["receiver"] # "idle"
    /\ pc["receiver"] = "add" => client_ids < MaxId
    /\ pc["receiver"] = "arm" => client_ids # 0
    /\ making \in Send <=> pc["cmp"] = "queue"
    /\ at <= Len(sends) + 1
    /\ pc["sender"] # "idle" => at <= Len(sends)

\* No two messages have the same number.
Serialised ==
    /\ \A i \in DOMAIN sends : sends[i].n <= sent
    /\ \A i \in DOMAIN queued : queued[i].n <= sent
    /\ \A i, j \in DOMAIN sends : sends[i].n = sends[j].n => i = j
    /\ \A i, j \in DOMAIN queued : queued[i].n = queued[j].n => i = j
    /\ \A i \in DOMAIN sends, j \in DOMAIN queued : sends[i].n # queued[j].n
    /\ making \in Send =>
         /\ making.n <= sent
         /\ \A i \in DOMAIN sends : sends[i].n # making.n
         /\ \A i \in DOMAIN queued : queued[i].n # making.n

\* Nobody has heard of the id of the client that is being armed.
Heard ==
    /\ \A f \in Fds : epoll[f].id <= Announced /\ (epoll[f].armed => epoll[f].id # 0)
    /\ \A i \in DOMAIN events : events[i] <= Announced
    /\ \A id \in known : id <= Announced

\* Struct c, wherever it is, and who may hold it.
Free(c) == Lookups(c) = {} /\ InFlight(c) = {}
Uses(c) == Cardinality(Lookups(c)) + Cardinality(InFlight(c))

Sound(c) ==
    /\ client[c].where = "recycled" =>
         client[c] = Recycled /\ Free(c) /\ hold["receiver"] # c
    /\ client[c].where = "new" =>
         /\ hold["receiver"] = c /\ pc["receiver"] = "add"
         /\ client[c].ref = 0 /\ client[c].fd = NoFd /\ Free(c)
    /\ client[c].where = "table" /\ hold["receiver"] = c =>
         /\ pc["receiver"] = "arm" /\ client[c].id = client_ids
         /\ client[c].ref = 0 /\ client[c].fd = NoFd /\ Free(c)
    /\ client[c].where = "table" /\ hold["receiver"] # c =>
         client[c].ref = Uses(c) + 1 /\ client[c].id \in 1 .. Announced
    /\ client[c].where = "dead" =>
         /\ client[c].ref = Uses(c) /\ client[c].id \in 1 .. Announced
         /\ hold["receiver"] # c

AllSound == \A c \in Structs : Sound(c)

\* The descriptor of the connection that is being accepted.
Accepted ==
    /\ pc["receiver"] = "add" => open[fdv["receiver"]] \in {0, client_ids + 1}
    /\ pc["receiver"] = "arm" => open[fdv["receiver"]] \in {0, client_ids}

\* A message that the sender has passed is half written, or waits for one of the
\* same client that is; unless the client is dead.
Passed ==
    \A j \in 1 .. at - 1 : LET c == sends[j].c
                          IN  client[c].where = "dead" \/ client[c].sending # 0

\* A message that is half written is the oldest one of its client.
Oldest(c, k) == sends[k].c = c /\ \A i \in 1 .. k - 1 : sends[i].c # c

HalfWritten ==
    \A c \in Structs : client[c].where # "dead" /\ client[c].sending # 0 =>
      \E k \in DOMAIN sends : Oldest(c, k) /\ sends[k].n = client[c].sending

\* The message the sender is at.
Writing ==
    pc["sender"] # "idle" =>
      LET c == sends[at].c
      IN  \/ client[c].where = "dead"
          \/ client[c].sending = sends[at].n /\ pc["sender"] \in {"write", "drop"}

Order == OldestFirst /\ Passed /\ HalfWritten /\ Writing

IInv ==
    /\ TypeOK /\ Control /\ Serialised /\ Heard /\ AllSound
    /\ FdsOwned /\ Accepted /\ DropsTold /\ Order

-----------------------------------------------------------------------------
(* Messages on their way: five things happen to them.                        *)

\* q has message n of client c.
Has(q, c, n) == \E i \in DOMAIN q : q[i].c = c /\ q[i].n = n

LEMMA InFlightIs ==
    ASSUME NEW c, NEW n
    PROVE  n \in InFlight(c) <=>
             \/ Has(queued, c, n) \/ Has(sends, c, n)
             \/ making # NoSend /\ making.c = c /\ making.n = n
BY DEF InFlight, Has

LEMMA InFlightIsThen ==
    ASSUME NEW c, NEW n
    PROVE  n \in InFlight(c)' <=>
             \/ Has(queued', c, n) \/ Has(sends', c, n)
             \/ making' # NoSend /\ making'.c = c /\ making'.n = n
BY DEF InFlight, Has

\* What is found in a longer queue.
LEMMA AppendHas ==
    ASSUME NEW S, NEW q \in Seq(S), NEW x \in S, NEW c, NEW n
    PROVE  Has(Append(q, x), c, n) <=> Has(q, c, n) \/ (x.c = c /\ x.n = n)
<1>1. /\ DOMAIN q = 1 .. Len(q) /\ Len(q) \in Nat /\ DOMAIN Append(q, x) = 1 .. Len(q) + 1
      /\ \A i \in 1 .. Len(q) : Append(q, x)[i] = q[i]
      /\ Append(q, x)[Len(q) + 1] = x
  BY AppendProperties, LenProperties
<1>2. Len(q) + 1 \in DOMAIN Append(q, x) /\ DOMAIN q \subseteq DOMAIN Append(q, x)
  BY <1>1
<1>3. \A i \in DOMAIN Append(q, x) : i \in DOMAIN q \/ i = Len(q) + 1
  BY <1>1
<1> QED
  BY <1>1, <1>2, <1>3 DEF Has

LEMMA ConcatHas ==
    ASSUME NEW q \in Seq(Send), NEW r \in Seq(Send), NEW c, NEW n
    PROVE  Has(q \o r, c, n) <=> Has(q, c, n) \/ Has(r, c, n)
<1>1. /\ DOMAIN q = 1 .. Len(q) /\ Len(q) \in Nat /\ DOMAIN r = 1 .. Len(r) /\ Len(r) \in Nat
      /\ DOMAIN (q \o r) = 1 .. Len(q) + Len(r)
      /\ \A i \in 1 .. Len(q) + Len(r) :
            (q \o r)[i] = IF i <= Len(q) THEN q[i] ELSE r[i - Len(q)]
  BY ConcatProperties, LenProperties
<1>2. ASSUME NEW i \in DOMAIN q
      PROVE  i \in DOMAIN (q \o r) /\ (q \o r)[i] = q[i]
  BY <1>1
<1>3. ASSUME NEW i \in DOMAIN r
      PROVE  i + Len(q) \in DOMAIN (q \o r) /\ (q \o r)[i + Len(q)] = r[i]
  BY <1>1
<1>4. ASSUME NEW i \in DOMAIN (q \o r)
      PROVE  \/ i \in DOMAIN q /\ (q \o r)[i] = q[i]
             \/ i - Len(q) \in DOMAIN r /\ (q \o r)[i] = r[i - Len(q)]
  BY <1>1
<1>5. ASSUME NEW i \in DOMAIN q, q[i].c = c /\ q[i].n = n
      PROVE  Has(q \o r, c, n)
  BY <1>2, <1>5 DEF Has
<1>6. ASSUME NEW i \in DOMAIN r, r[i].c = c /\ r[i].n = n
      PROVE  Has(q \o r, c, n)
  BY <1>3, <1>6 DEF Has
<1>7. ASSUME NEW i \in DOMAIN (q \o r), (q \o r)[i].c = c /\ (q \o r)[i].n = n
      PROVE  Has(q, c, n) \/ Has(r, c, n)
  BY <1>4, <1>7 DEF Has
<1> QED
  BY <1>5, <1>6, <1>7 DEF Has

\* A message is not the absence of one.
LEMMA SendIsSend == \A m \in Send : m # NoSend /\ m.n # 0
<1>1. \A m \in Send : m.n \in 1 .. MaxSends
  BY DEF Send, Serials
<1>2. NoSend.n = 0
  BY DEF NoSend
<1> QED
  BY <1>1, <1>2, ConnectorAssumption

LEMMA InFlightFinite ==
    ASSUME TypeOK, NEW c
    PROVE  IsFiniteSet(InFlight(c)) /\ InFlight(c) \subseteq Serials
<1>1. InFlight(c) \subseteq Serials
  <2>1. \A i \in DOMAIN queued : queued[i] \in Send
    BY DEF TypeOK
  <2>2. \A i \in DOMAIN sends : sends[i] \in Send
    BY DEF TypeOK
  <2>3. making # NoSend => making \in Send
    BY DEF TypeOK
  <2>4. \A m \in Send : m.n \in Serials
    BY DEF Send
  <2> QED
    BY <2>1, <2>2, <2>3, <2>4, InFlightIs DEF Has
<1>2. IsFiniteSet(Serials)
  BY FS_Interval, ConnectorAssumption DEF Serials
<1> QED
  BY <1>1, <1>2, FS_Subset

LEMMA LookupsFinite == ASSUME NEW c PROVE IsFiniteSet(Lookups(c))
<1>1. IsFiniteSet({"event", "loop"})
  <2>1. {"event", "loop"} = {"event"} \union {"loop"}
    OBVIOUS
  <2>2. IsFiniteSet({"event"})
    BY FS_Singleton
  <2> QED
    BY <2>1, <2>2, FS_AddElement
<1> QED
  BY <1>1, FS_Subset DEF Lookups

\* How many use a struct.
LEMMA UsesCount ==
    ASSUME TypeOK, NEW c
    PROVE  /\ Uses(c) \in Nat /\ Cardinality(Lookups(c)) \in Nat /\ Cardinality(InFlight(c)) \in Nat
           /\ Uses(c) = 0 <=> Free(c)
<1>1. Cardinality(Lookups(c)) \in Nat /\ (Cardinality(Lookups(c)) = 0 <=> Lookups(c) = {})
  BY LookupsFinite, FS_EmptySet, FS_CardinalityType
<1>2. Cardinality(InFlight(c)) \in Nat /\ (Cardinality(InFlight(c)) = 0 <=> InFlight(c) = {})
  BY InFlightFinite, FS_EmptySet, FS_CardinalityType
<1> QED
  BY <1>1, <1>2 DEF Uses, Free

\* The messages as sequences.
LEMMA MessageTypes ==
    ASSUME TypeOK
    PROVE  /\ queued \in Seq(Send) /\ sends \in Seq(Send) /\ sent \in 0 .. MaxSends /\ MaxSends \in Nat
           /\ DOMAIN queued = 1 .. Len(queued) /\ DOMAIN sends = 1 .. Len(sends)
           /\ Len(queued) \in Nat /\ Len(sends) \in Nat
           /\ \A i \in DOMAIN queued : queued[i] \in Send /\ queued[i].n \in Nat /\ queued[i].c \in Structs
           /\ \A i \in DOMAIN sends : sends[i] \in Send /\ sends[i].n \in Nat /\ sends[i].c \in Structs
           /\ making \in Send => making.n \in Nat /\ making.c \in Structs
<1>1. queued \in Seq(Send) /\ sends \in Seq(Send) /\ sent \in 0 .. MaxSends
  BY ConnectorAssumption DEF TypeOK, Serials
<1>2. \A m \in Send : m.n \in Nat /\ m.c \in Structs
  BY DEF Send, Serials
<1> QED
  BY <1>1, <1>2, ConnectorAssumption, LenProperties, ElementOfSeq

\* The next number is nobody's.
LEMMA NewNumber ==
    ASSUME TypeOK, Serialised, NEW c PROVE sent + 1 \notin InFlight(c)
<1>1. \A i \in DOMAIN queued : queued[i].n # sent + 1
  BY MessageTypes DEF Serialised
<1>2. \A i \in DOMAIN sends : sends[i].n # sent + 1
  BY MessageTypes DEF Serialised
<1>3. making # NoSend => making.n # sent + 1
  <2>1. making # NoSend => making \in Send
    BY DEF TypeOK
  <2> QED
    BY <2>1, MessageTypes DEF Serialised
<1> QED
  BY <1>1, <1>2, <1>3, InFlightIs DEF Has

\* One is made.
LEMMA MessageMade ==
    ASSUME TypeOK, Control, Serialised, NEW c0 \in Structs,
           making = NoSend, making' = Message(c0),
           sent < MaxSends, sent' = sent + 1, UNCHANGED <<queued, sends>>
    PROVE  /\ Serialised' /\ making' \in Send
           /\ \A c \in Structs : InFlight(c)' = IF c = c0 THEN InFlight(c) \union {sent + 1}
                                                ELSE InFlight(c)
           /\ \A c \in Structs : sent + 1 \notin InFlight(c)
<1>1. /\ making' \in Send /\ making'.n = sent + 1 /\ making'.c = c0 /\ making' # NoSend
  <2>1. making' \in Send /\ making'.n = sent + 1 /\ making'.c = c0
    BY MessageTypes DEF Message, Send, Serials
  <2> QED
    BY <2>1, SendIsSend
<1>2. Serialised'
  BY <1>1, MessageTypes DEF Serialised
<1>3. \A c, n : n \in InFlight(c)' <=> n \in InFlight(c) \/ (c = c0 /\ n = sent + 1)
  BY <1>1 DEF InFlight
<1>4. ASSUME NEW c \in Structs PROVE sent + 1 \notin InFlight(c)
  BY NewNumber
<1> QED
  BY <1>1, <1>2, <1>3, <1>4

\* One is made and queued.
LEMMA MessageAnswered ==
    ASSUME TypeOK, Control, Serialised, NEW c0 \in Structs,
           queued' = Append(queued, Message(c0)),
           sent < MaxSends, sent' = sent + 1, UNCHANGED <<making, sends>>
    PROVE  /\ Serialised' /\ queued' \in Seq(Send)
           /\ \A c \in Structs : InFlight(c)' = IF c = c0 THEN InFlight(c) \union {sent + 1}
                                                ELSE InFlight(c)
           /\ \A c \in Structs : sent + 1 \notin InFlight(c)
<1>1. Message(c0) \in Send /\ Message(c0).n = sent + 1 /\ Message(c0).c = c0
  BY MessageTypes DEF Message, Send, Serials
<1>2. /\ queued' \in Seq(Send) /\ Len(queued') = Len(queued) + 1
      /\ DOMAIN queued' = 1 .. Len(queued) + 1
      /\ \A i \in 1 .. Len(queued) : queued'[i] = queued[i]
      /\ queued'[Len(queued) + 1] = Message(c0)
  BY <1>1, MessageTypes, AppendProperties, LenProperties
<1>3. Serialised'
  <2>1. \A i \in DOMAIN queued' : queued'[i].n <= sent + 1
                               /\ (queued'[i].n = sent + 1 \/ (i \in DOMAIN queued /\ queued'[i] = queued[i]))
    BY <1>1, <1>2, MessageTypes DEF Serialised
  <2>2. \A i \in DOMAIN queued' : queued'[i].n = sent + 1 => i = Len(queued) + 1
    BY <1>1, <1>2, MessageTypes DEF Serialised
  <2> QED
    BY <2>1, <2>2, MessageTypes DEF Serialised
<1>5. ASSUME NEW c, NEW n
      PROVE  n \in InFlight(c)' <=> n \in InFlight(c) \/ (c = c0 /\ n = sent + 1)
  <2>1. Has(queued', c, n)
        <=> Has(queued, c, n) \/ (Message(c0).c = c /\ Message(c0).n = n)
    BY <1>1, MessageTypes, AppendHas
  <2> QED
    BY <1>1, <2>1, InFlightIs, InFlightIsThen
<1>6. ASSUME NEW c \in Structs PROVE sent + 1 \notin InFlight(c)
  BY NewNumber
<1> QED
  BY <1>2, <1>3, <1>5, <1>6

\* The one made is queued.
LEMMA MessageQueued ==
    ASSUME TypeOK, Control, Serialised, making \in Send,
           queued' = Append(queued, making), making' = NoSend, UNCHANGED <<sends, sent>>
    PROVE  /\ Serialised' /\ queued' \in Seq(Send)
           /\ \A c \in Structs : InFlight(c)' = InFlight(c)
<1>1. /\ queued' \in Seq(Send) /\ Len(queued') = Len(queued) + 1
      /\ DOMAIN queued' = 1 .. Len(queued) + 1
      /\ \A i \in 1 .. Len(queued) : queued'[i] = queued[i]
      /\ queued'[Len(queued) + 1] = making
  BY MessageTypes, AppendProperties, LenProperties
<1>2. making # NoSend /\ making' \notin Send
  BY SendIsSend
<1>3. Serialised'
  BY <1>1, <1>2, MessageTypes DEF Serialised
<1>5. ASSUME NEW c, NEW n PROVE n \in InFlight(c)' <=> n \in InFlight(c)
  <2>1. Has(queued', c, n)
        <=> Has(queued, c, n) \/ (making.c = c /\ making.n = n)
    BY MessageTypes, AppendHas
  <2> QED
    BY <1>2, <2>1, InFlightIs, InFlightIsThen
<1>6. ASSUME NEW c PROVE InFlight(c)' = InFlight(c)
  <2>1. InFlight(c)' \subseteq InFlight(c) /\ InFlight(c) \subseteq InFlight(c)'
    BY <1>5
  <2> QED
    BY <2>1, Zenon
<1> QED
  BY <1>1, <1>3, <1>6

\* The sender collects what was queued.
LEMMA MessagesCollected ==
    ASSUME TypeOK, Control, Serialised,
           sends' = sends \o queued, queued' = <<>>, UNCHANGED <<making, sent>>
    PROVE  /\ Serialised' /\ sends' \in Seq(Send) /\ queued' \in Seq(Send) /\ Len(sends') \in Nat
           /\ \A c \in Structs : InFlight(c)' = InFlight(c)
<1>1. /\ sends' \in Seq(Send) /\ Len(sends') = Len(sends) + Len(queued)
      /\ DOMAIN sends' = 1 .. Len(sends) + Len(queued)
      /\ \A i \in 1 .. Len(sends) + Len(queued) :
            sends'[i] = IF i <= Len(sends) THEN sends[i] ELSE queued[i - Len(sends)]
  BY MessageTypes, ConcatProperties, LenProperties
<1>2. queued' \in Seq(Send) /\ DOMAIN queued' = {}
  OBVIOUS
<1>4. ASSUME NEW c, NEW n PROVE n \in InFlight(c)' <=> n \in InFlight(c)
  <2>1. Has(sends', c, n) <=> Has(sends, c, n) \/ Has(queued, c, n)
    <3>1. queued \in Seq(Send) /\ sends \in Seq(Send)
      BY MessageTypes
    <3> QED
      BY <3>1, ConcatHas
  <2>2. ~ Has(queued', c, n)
    BY <1>2 DEF Has
  <2> QED
    BY <2>1, <2>2, InFlightIs, InFlightIsThen
<1>5. Serialised'
  <2>1. ASSUME NEW i \in DOMAIN sends'
        PROVE  \/ i \in DOMAIN sends /\ sends'[i] = sends[i]
               \/ /\ i - Len(sends) \in DOMAIN queued /\ sends'[i] = queued[i - Len(sends)]
                  /\ i > Len(sends)
    BY <1>1, MessageTypes
  <2>2. \A i \in DOMAIN sends' : sends'[i].n <= sent
    BY <2>1 DEF Serialised
  <2>3. ASSUME NEW i \in DOMAIN sends', NEW j \in DOMAIN sends', sends'[i].n = sends'[j].n
        PROVE  i = j
    <3>1. i \in Int /\ j \in Int /\ Len(sends) \in Int
      BY <1>1, MessageTypes
    <3> QED
      BY <2>1, <2>3, <3>1 DEF Serialised
  <2>4. making \in Send => \A i \in DOMAIN sends' : sends'[i].n # making.n
    BY <2>1 DEF Serialised
  <2> QED
    BY <1>2, <2>2, <2>3, <2>4 DEF Serialised
<1>6. ASSUME NEW c PROVE InFlight(c)' = InFlight(c)
  <2>1. InFlight(c)' \subseteq InFlight(c) /\ InFlight(c) \subseteq InFlight(c)'
    BY <1>4
  <2> QED
    BY <2>1, Zenon
<1>7. Len(sends') \in Nat
  BY <1>1, LenProperties
<1> QED
  BY <1>1, <1>2, <1>5, <1>6, <1>7

\* The sender is done with the one it is at.
LEMMA MessageFinished ==
    ASSUME TypeOK, Control, Serialised, at <= Len(sends), Finished, UNCHANGED <<making, sent>>
    PROVE  /\ Serialised' /\ sends' \in Seq(Send) /\ Len(sends') = Len(sends) - 1
           /\ DOMAIN sends' = 1 .. Len(sends) - 1
           /\ \A i \in 1 .. Len(sends) - 1 : sends'[i] = IF i < at THEN sends[i] ELSE sends[i + 1]
           /\ \A c \in Structs : InFlight(c)' = IF c = sends[at].c
                                                THEN InFlight(c) \ {sends[at].n}
                                                ELSE InFlight(c)
           /\ sends[at] \in Send /\ sends[at].n \in InFlight(sends[at].c)
<1> DEFINE a == SubSeq(sends, 1, at - 1)
           b == SubSeq(sends, at + 1, Len(sends))
           len == Len(sends)
<1>0. at \in 1 .. len /\ len \in Nat /\ sends \in Seq(Send) /\ DOMAIN sends = 1 .. len
  BY MessageTypes DEF TypeOK
<1>1. a \in Seq(Send) /\ Len(a) = at - 1 /\ \A i \in 1 .. at - 1 : a[i] = sends[i]
  <2>1. a \in Seq(Send) /\ Len(a) = at - 1
    BY <1>0, SubSeqProperties
  <2>2. \A i \in 1 .. at - 1 : a[i] = sends[i]
    BY <1>0, SubSeqProperties
  <2> QED
    BY <2>1, <2>2
<1>2. b \in Seq(Send) /\ Len(b) = len - at /\ \A i \in 1 .. len - at : b[i] = sends[at + i]
  <2>0. (\A i \in at + 1 .. len : sends[i] \in Send) /\ at + 1 \in Int /\ len \in Int
    BY <1>0, MessageTypes
  <2>1. b \in Seq(Send) /\ Len(b) = len - at
    <3>1. b \in Seq(Send) /\ Len(b) = IF at + 1 <= len THEN len - (at + 1) + 1 ELSE 0
      <4> HIDE DEF len
      <4> QED
        BY <2>0, SubSeqProperties, SMTT(60) DEF b, len
    <3>2. at <= len /\ at \in Int /\ len \in Int
      BY <1>0
    <3> HIDE DEF b, len
    <3> QED
      BY <3>1, <3>2
  <2>2. \A i \in 1 .. len - at : b[i] = sends[at + i]
    BY <1>0, SubSeqProperties
  <2> QED
    BY <2>1, <2>2
<1>3. sends' = a \o b /\ UNCHANGED queued
  BY DEF Finished
<1> HIDE DEF a, b
<1>4. /\ sends' \in Seq(Send) /\ Len(sends') = len - 1 /\ DOMAIN sends' = 1 .. len - 1
      /\ \A i \in 1 .. len - 1 : sends'[i] = IF i < at THEN sends[i] ELSE sends[i + 1]
  <2>1. /\ a \o b \in Seq(Send) /\ Len(a \o b) = Len(a) + Len(b)
        /\ \A i \in 1 .. Len(a) + Len(b) :
              (a \o b)[i] = IF i <= Len(a) THEN a[i] ELSE b[i - Len(a)]
    BY <1>1, <1>2, ConcatProperties
  <2>2. Len(a) + Len(b) = len - 1
    BY <1>0, <1>1, <1>2
  <2>3. ASSUME NEW i \in 1 .. len - 1
        PROVE  (a \o b)[i] = IF i < at THEN sends[i] ELSE sends[i + 1]
    <3>1. CASE i < at
      BY <1>0, <1>1, <2>1, <2>2, <3>1
    <3>2. CASE i >= at
      <4>1. (a \o b)[i] = b[i - (at - 1)]
        BY <1>0, <1>1, <2>1, <2>2, <3>2
      <4>2. i - (at - 1) \in 1 .. len - at /\ at + (i - (at - 1)) = i + 1
        BY <1>0, <3>2
      <4>3. b[i - (at - 1)] = sends[at + (i - (at - 1))]
        BY <1>2, <4>2
      <4> QED
        BY <1>0, <3>2, <4>1, <4>2, <4>3
    <3>3. i < at \/ i >= at
      BY <1>0
    <3> QED
      BY <3>1, <3>2, <3>3
  <2>4. DOMAIN (a \o b) = 1 .. len - 1
    BY <2>1, <2>2, LenProperties
  <2> QED
    BY <1>3, <2>1, <2>2, <2>3, <2>4
\* Where the messages of sends' were.
<1>5. ASSUME NEW i \in DOMAIN sends'
      PROVE  \E k \in DOMAIN sends : /\ k # at /\ sends'[i] = sends[k]
                                     /\ k = IF i < at THEN i ELSE i + 1
  BY <1>0, <1>4
<1>6. ASSUME NEW k \in DOMAIN sends, k # at
      PROVE  \E i \in DOMAIN sends' : sends'[i] = sends[k]
  <2>1. CASE k < at
    BY <1>0, <1>4, <2>1
  <2>2. CASE k > at
    <3>1. k - 1 \in 1 .. len - 1 /\ ~ (k - 1 < at) /\ k - 1 + 1 = k
      BY <1>0, <2>2
    <3>2. sends'[k - 1] = sends[k]
      BY <1>4, <3>1
    <3> QED
      BY <1>4, <3>1, <3>2
  <2> QED
    BY <1>0, <1>6, <2>1, <2>2
<1>7. Serialised'
  <2>1. \A i \in DOMAIN sends' : sends'[i].n <= sent
    BY <1>5 DEF Serialised
  <2>2. ASSUME NEW i \in DOMAIN sends', NEW j \in DOMAIN sends', sends'[i].n = sends'[j].n
        PROVE  i = j
    BY <1>0, <1>4, <1>5, <2>2 DEF Serialised
  <2>3. \A i \in DOMAIN sends', j \in DOMAIN queued : sends'[i].n # queued[j].n
    BY <1>5 DEF Serialised
  <2>4. making \in Send => \A i \in DOMAIN sends' : sends'[i].n # making.n
    BY <1>5 DEF Serialised
  <2> QED
    BY <1>3, <2>1, <2>2, <2>3, <2>4 DEF Serialised
<1>8. ASSUME NEW c, NEW n
      PROVE  n \in InFlight(c)' <=> n \in InFlight(c) /\ ~ (c = sends[at].c /\ n = sends[at].n)
  <2>1. Has(sends', c, n)
        <=> (\E i \in DOMAIN sends : i # at /\ sends[i].c = c /\ sends[i].n = n)
    BY <1>5, <1>6 DEF Has
  <2>2. n \in InFlight(c)' <=>
             \/ Has(queued, c, n)
             \/ \E i \in DOMAIN sends : i # at /\ sends[i].c = c /\ sends[i].n = n
             \/ making # NoSend /\ making.c = c /\ making.n = n
    BY <1>3, <2>1, InFlightIsThen
  <2>3. making # NoSend => making \in Send
    BY DEF TypeOK
  <2>4. \A i \in DOMAIN sends : i # at => sends[i].n # sends[at].n
    BY <1>0 DEF Serialised
  <2>5. \A i \in DOMAIN queued : queued[i].n # sends[at].n
    BY <1>0 DEF Serialised
  <2>6. making # NoSend => making.n # sends[at].n
    BY <1>0, <2>3 DEF Serialised
  <2> QED
    BY <1>0, <2>2, <2>4, <2>5, <2>6, InFlightIs DEF Has
<1>9. sends[at] \in Send /\ sends[at].n \in InFlight(sends[at].c)
  BY <1>0, InFlightIs, MessageTypes DEF Has
<1>11. ASSUME NEW c \in Structs
       PROVE  InFlight(c)' = IF c = sends[at].c THEN InFlight(c) \ {sends[at].n} ELSE InFlight(c)
  <2>1. CASE c = sends[at].c
    BY <1>8, <2>1
  <2>2. CASE c # sends[at].c
    <3>1. InFlight(c)' \subseteq InFlight(c) /\ InFlight(c) \subseteq InFlight(c)'
      BY <1>8, <2>2
    <3>2. InFlight(c)' = InFlight(c)
      BY <3>1, Zenon
    <3> QED
      BY <2>2, <3>2
  <2> QED
    BY <2>1, <2>2
<1> QED
  BY <1>4, <1>7, <1>9, <1>11

-----------------------------------------------------------------------------
(* What a step may do to a struct.                                            *)

\* Who uses c stays as it is.
SameUsers(c) == Lookups(c)' = Lookups(c) /\ InFlight(c)' = InFlight(c)

SameFields(c) == UNCHANGED <<client[c].where, client[c].id, client[c].fd>>

Quiet(c) ==
    /\ SameUsers(c) /\ SameFields(c) /\ client'[c].ref = client[c].ref
    /\ client[c].where = "recycled" => client'[c] = client[c]

\* A thread looks c up, or a message for it is made.
Gains(c) ==
    /\ client[c].where = "table" /\ hold["receiver"] # c
    /\ SameFields(c) /\ client'[c].ref = client[c].ref + 1
    /\ \/ \E t \in {"event", "loop"} \ Lookups(c) :
             Lookups(c)' = Lookups(c) \union {t} /\ InFlight(c)' = InFlight(c)
       \/ \E n \in Serials \ InFlight(c) :
             InFlight(c)' = InFlight(c) \union {n} /\ Lookups(c)' = Lookups(c)

\* A thread is done with c, or a message for it is.
Loses(c) ==
    /\ ~ Free(c)
    /\ SameFields(c) /\ client'[c].ref = client[c].ref - 1
    /\ \/ \E t \in Lookups(c) : Lookups(c)' = Lookups(c) \ {t} /\ InFlight(c)' = InFlight(c)
       \/ \E n \in InFlight(c) : InFlight(c)' = InFlight(c) \ {n} /\ Lookups(c)' = Lookups(c)

\* c is dropped.
Retires(c) ==
    /\ client[c].where = "table" /\ hold["receiver"] # c
    /\ client'[c].where = "dead" /\ client'[c].ref = client[c].ref - 1
    /\ client'[c].id = client[c].id /\ SameUsers(c)

\* c is recycled.
Reclaimed(c) ==
    /\ client[c].where = "dead" /\ client[c].ref = 0
    /\ client'[c] = Recycled /\ SameUsers(c)

\* accept_client's three steps.
Recruited(c) ==
    /\ client[c].where = "recycled" /\ client'[c] = [client[c] EXCEPT !.where = "new"]
    /\ hold'["receiver"] = c /\ pc'["receiver"] = "add" /\ SameUsers(c)

Enters(c) ==
    /\ client[c].where = "new" /\ client'[c].where = "table"
    /\ client'[c].id = client_ids + 1 /\ client_ids' = client_ids + 1
    /\ UNCHANGED <<client[c].ref, client[c].fd, hold["receiver"]>>
    /\ pc'["receiver"] = "arm" /\ SameUsers(c)

Armed(c) ==
    /\ client[c].where = "table" /\ hold["receiver"] = c
    /\ client'[c].where = "table" /\ client'[c].id = client[c].id
    /\ client'[c].ref = client[c].ref + 1
    /\ hold'["receiver"] # c /\ pc'["receiver"] = "idle" /\ client_ids' = client_ids
    /\ SameUsers(c)

\* accept_client is at work on another one, or does nothing.
Apart(c) ==
    \/ UNCHANGED <<pc["receiver"], hold["receiver"], client_ids>>
    \/ hold["receiver"] # c /\ hold'["receiver"] # c /\ Announced <= Announced'

StructStep(c) ==
    \/ (Quiet(c) \/ Gains(c) \/ Loses(c) \/ Retires(c) \/ Reclaimed(c)) /\ Apart(c)
    \/ Recruited(c) \/ Enters(c) \/ Armed(c)

LEMMA UsesSame ==
    ASSUME NEW c, SameUsers(c)
    PROVE  Uses(c)' = Uses(c) /\ (Free(c)' <=> Free(c))
BY DEF SameUsers, Uses, Free

LEMMA UsesGain == ASSUME TypeOK, NEW c \in Structs, Gains(c) PROVE Uses(c)' = Uses(c) + 1
<1>0. IsFiniteSet(Lookups(c)) /\ IsFiniteSet(InFlight(c))
      /\ Cardinality(Lookups(c)) \in Nat /\ Cardinality(InFlight(c)) \in Nat
  BY LookupsFinite, InFlightFinite, UsesCount
<1>1. CASE \E t \in {"event", "loop"} \ Lookups(c) :
             Lookups(c)' = Lookups(c) \union {t} /\ InFlight(c)' = InFlight(c)
  <2>1. Cardinality(Lookups(c)') = Cardinality(Lookups(c)) + 1 /\ InFlight(c)' = InFlight(c)
    BY <1>0, <1>1, FS_AddElement
  <2> QED
    BY <1>0, <2>1 DEF Uses
<1>2. CASE \E n \in Serials \ InFlight(c) :
             InFlight(c)' = InFlight(c) \union {n} /\ Lookups(c)' = Lookups(c)
  <2>1. Cardinality(InFlight(c)') = Cardinality(InFlight(c)) + 1 /\ Lookups(c)' = Lookups(c)
    BY <1>0, <1>2, FS_AddElement
  <2> QED
    BY <1>0, <2>1 DEF Uses
<1> QED
  BY <1>1, <1>2 DEF Gains

LEMMA UsesLose == ASSUME TypeOK, NEW c \in Structs, Loses(c) PROVE Uses(c)' = Uses(c) - 1
<1>0. IsFiniteSet(Lookups(c)) /\ IsFiniteSet(InFlight(c))
      /\ Cardinality(Lookups(c)) \in Nat /\ Cardinality(InFlight(c)) \in Nat
  BY LookupsFinite, InFlightFinite, UsesCount
<1>1. CASE \E t \in Lookups(c) : Lookups(c)' = Lookups(c) \ {t} /\ InFlight(c)' = InFlight(c)
  <2>1. Cardinality(Lookups(c)') = Cardinality(Lookups(c)) - 1 /\ InFlight(c)' = InFlight(c)
    BY <1>0, <1>1, FS_RemoveElement
  <2> QED
    BY <1>0, <2>1 DEF Uses
<1>2. CASE \E n \in InFlight(c) : InFlight(c)' = InFlight(c) \ {n} /\ Lookups(c)' = Lookups(c)
  <2>1. Cardinality(InFlight(c)') = Cardinality(InFlight(c)) - 1 /\ Lookups(c)' = Lookups(c)
    BY <1>0, <1>2, FS_RemoveElement
  <2> QED
    BY <1>0, <2>1 DEF Uses
<1> QED
  BY <1>1, <1>2 DEF Loses

\* The types of what Sound speaks of.
LEMMA FieldTypes ==
    ASSUME TypeOK
    PROVE  /\ client_ids \in Nat /\ Announced \in Int /\ client \in [Structs -> Client]
           /\ \A c \in Structs :
                /\ client[c] \in Client
                /\ client[c].where \in {"recycled", "new", "table", "dead"}
                /\ client[c].ref \in Int /\ client[c].id \in Nat
<1>1. client_ids \in Nat
  BY ConnectorAssumption DEF TypeOK, Ids
<1>2. Ids \union {0} \subseteq Nat
  BY ConnectorAssumption DEF Ids
<1>3. \A c \in Structs : client[c] \in Client
  BY DEF TypeOK
<1>4. \A r \in Client : r.where \in {"recycled", "new", "table", "dead"} /\ r.ref \in Int
                        /\ r.id \in Ids \union {0}
  BY DEF Client
<1>5. Announced \in Int
  BY <1>1 DEF Announced
<1> QED
  BY <1>1, <1>2, <1>3, <1>4, <1>5 DEF TypeOK

\* A struct in use is in the table, or was dropped from it.
LEMMA InUse ==
    ASSUME TypeOK, NEW c \in Structs, Sound(c), ~ Free(c)
    PROVE  client[c].where \in {"table", "dead"} /\ hold["receiver"] # c
BY FieldTypes DEF Sound

\* The types Sound and its change rest on, now and in the next state.
Typed(c) ==
    /\ client_ids \in Nat /\ Announced \in Int
    /\ client[c].where \in {"recycled", "new", "table", "dead"}
    /\ client[c].ref \in Int /\ client[c].id \in Nat
    /\ Uses(c) \in Nat /\ (Uses(c) = 0 <=> Free(c))

LEMMA TypedNow == TypeOK => \A c \in Structs : Typed(c)
BY FieldTypes, UsesCount DEF Typed

LEMMA TypedThen == TypeOK' => (\A c \in Structs : Typed(c))'
BY TypedNow, PTL

LEMMA SoundStep ==
    ASSUME TypeOK, TypeOK', Control, NEW c \in Structs, Sound(c), StructStep(c)
    PROVE  Sound(c)'
<1>1. /\ client_ids \in Nat /\ client_ids' \in Nat /\ Announced \in Int /\ Announced' \in Int
      /\ client[c].where \in {"recycled", "new", "table", "dead"}
      /\ client[c].ref \in Int /\ client'[c].ref \in Int /\ client[c].id \in Nat
      /\ Uses(c) \in Nat /\ Uses(c)' \in Nat
      /\ (Uses(c) = 0 <=> Free(c)) /\ (Uses(c)' = 0 <=> Free(c)')
  BY TypedNow, TypedThen DEF Typed
<1>2. Apart(c) => /\ Announced <= Announced' /\ (hold'["receiver"] = c <=> hold["receiver"] = c)
                  /\ (hold["receiver"] = c => UNCHANGED <<pc["receiver"], client_ids>>)
  <2>1. CASE UNCHANGED <<pc["receiver"], hold["receiver"], client_ids>>
    <3>1. Announced' = Announced
      BY <2>1 DEF Announced
    <3> QED
      BY <1>1, <2>1, <3>1
  <2>2. CASE hold["receiver"] # c /\ hold'["receiver"] # c /\ Announced <= Announced'
    BY <2>2
  <2> QED
    BY <2>1, <2>2 DEF Apart
<1>3. CASE Quiet(c) /\ Apart(c)
  <2>1. Uses(c)' = Uses(c) /\ (Free(c)' <=> Free(c))
    BY <1>3, UsesSame DEF Quiet
  <2> QED
    BY <1>1, <1>2, <1>3, <2>1 DEF Quiet, SameFields, Sound
<1>4. CASE Gains(c) /\ Apart(c)
  <2>1. Uses(c)' = Uses(c) + 1
    BY <1>4, UsesGain
  <2> QED
    BY <1>1, <1>2, <1>4, <2>1 DEF Gains, SameFields, Sound
<1>5. CASE Loses(c) /\ Apart(c)
  <2>1. Uses(c)' = Uses(c) - 1 /\ client[c].where \in {"table", "dead"} /\ hold["receiver"] # c
    BY <1>5, UsesLose, InUse DEF Loses
  <2> QED
    BY <1>1, <1>2, <1>5, <2>1 DEF Loses, SameFields, Sound
<1>6. CASE Retires(c) /\ Apart(c)
  <2>1. Uses(c)' = Uses(c)
    BY <1>6, UsesSame DEF Retires
  <2> QED
    BY <1>1, <1>2, <1>6, <2>1 DEF Retires, Sound
<1>7. CASE Reclaimed(c) /\ Apart(c)
  <2>1. Free(c)'
    BY <1>1, <1>7, UsesSame DEF Reclaimed, Sound
  <2>2. Recycled.where = "recycled"
    BY DEF Recycled
  <2> QED
    BY <1>1, <1>2, <1>7, <2>1, <2>2 DEF Reclaimed, Sound
<1>8. CASE Recruited(c)
  <2>1. Free(c)' /\ client'[c].where = "new" /\ client'[c].ref = 0 /\ client'[c].fd = NoFd
    BY <1>8, UsesSame DEF Recruited, Sound, Recycled
  <2> QED
    BY <1>8, <2>1 DEF Recruited, Sound
<1>9. CASE Enters(c)
  <2>1. Free(c)'
    BY <1>9, UsesSame DEF Enters, Sound
  <2> QED
    BY <1>9, <2>1 DEF Enters, Sound
<1>10. CASE Armed(c)
  <2>1. Uses(c)' = 0 /\ client'[c].ref = 1
    BY <1>1, <1>10, UsesSame DEF Armed, Sound
  <2>2. client'[c].id = client_ids /\ Announced' = client_ids /\ client_ids # 0
    BY <1>1, <1>10 DEF Armed, Sound, Announced, Control
  <2> QED
    BY <1>1, <1>10, <2>1, <2>2 DEF Armed, Sound
<1> QED
  BY <1>3, <1>4, <1>5, <1>6, <1>7, <1>8, <1>9, <1>10 DEF StructStep

-----------------------------------------------------------------------------
(* What most steps leave alone.                                               *)

Places == {"idle", "add", "arm", "load", "read", "parse", "rearm", "mod",
           "queue", "write", "drop", "tell", "cull", "dec"}

LEMMA Going ==
    ASSUME TypeOK, NEW t \in Threads, NEW place \in Places, Goto(t, place)
    PROVE  pc' \in [Threads -> Places] /\ pc'[t] = place
           /\ \A r \in Threads \ {t} : pc'[r] = pc[r]
BY DEF Goto, TypeOK, Places

\* A thread takes hold of a struct or lets go of it; nobody else does.
LEMMA Holding ==
    ASSUME TypeOK, NEW t \in Threads, NEW c \in Structs \union {NoStruct},
           hold' = [hold EXCEPT ![t] = c]
    PROVE  hold' \in [Threads -> Structs \union {NoStruct}] /\ hold'[t] = c
           /\ \A r \in Threads \ {t} : hold'[r] = hold[r]
BY DEF TypeOK

\* Only c's count of references changes, by k.
Touches(c, k) ==
    /\ client' \in [Structs -> Client]
    /\ \A d \in Structs \ {c} : client'[d] = client[d]
    /\ SameFields(c) /\ client'[c].ref = client[c].ref + k

\* A struct's record, changed.
LEMMA RecordSet ==
    ASSUME NEW r \in Client, NEW k \in Int, NEW n \in Serials \union {0}, NEW b \in BOOLEAN
    PROVE  /\ [r EXCEPT !.ref = k] \in Client
           /\ [r EXCEPT !.ref = k, !.sending = n] \in Client
           /\ [r EXCEPT !.ref = k, !.sending = n, !.blocked = FALSE] \in Client
           /\ [r EXCEPT !.sending = n] \in Client
           /\ [r EXCEPT !.blocked = TRUE] \in Client
BY DEF Client

LEMMA StructSet ==
    ASSUME client \in [Structs -> Client], NEW c \in Structs, NEW r \in Client, NEW k \in Int,
           client' = [client EXCEPT ![c] = r],
           r.where = client[c].where, r.id = client[c].id, r.fd = client[c].fd,
           r.ref = client[c].ref + k
    PROVE  Touches(c, k) /\ client'[c] = r
<1>1. client' \in [Structs -> Client] /\ client'[c] = r
      /\ \A d \in Structs \ {c} : client'[d] = client[d]
  OBVIOUS
<1> QED
  BY <1>1 DEF Touches, SameFields

LEMMA RefUp ==
    ASSUME TypeOK, NEW c \in Structs, client' = [client EXCEPT ![c].ref = @ + 1]
    PROVE  Touches(c, 1) /\ client'[c].sending = client[c].sending
<1> DEFINE r == [client[c] EXCEPT !.ref = client[c].ref + 1]
<1>1. client \in [Structs -> Client] /\ client[c] \in Client /\ client[c].ref \in Int
  BY FieldTypes
<1>2. client' = [client EXCEPT ![c] = r]
  BY <1>1
<1>3. r.where = client[c].where /\ r.id = client[c].id /\ r.fd = client[c].fd
      /\ r.ref = client[c].ref + 1 /\ r.sending = client[c].sending
  BY <1>1 DEF Client
<1>4. r \in Client
  <2>1. client[c].ref + 1 \in Int
    BY <1>1
  <2> QED
    BY <1>1, <2>1, RecordSet
<1> HIDE DEF r
<1>5. Touches(c, 1) /\ client'[c] = r
  <2>1. 1 \in Int
    OBVIOUS
  <2> QED
    BY <1>1, <1>2, <1>3, <1>4, <2>1, StructSet, Zenon
<1> QED
  BY <1>3, <1>5

LEMMA RefDown ==
    ASSUME TypeOK, NEW c \in Structs, client' = [client EXCEPT ![c].ref = @ - 1]
    PROVE  Touches(c, -1) /\ client'[c].sending = client[c].sending
<1> DEFINE r == [client[c] EXCEPT !.ref = client[c].ref - 1]
<1>1. client \in [Structs -> Client] /\ client[c] \in Client /\ client[c].ref \in Int
  BY FieldTypes
<1>2. client' = [client EXCEPT ![c] = r]
  BY <1>1
<1>3. r.where = client[c].where /\ r.id = client[c].id /\ r.fd = client[c].fd
      /\ r.ref = client[c].ref + -1 /\ r.sending = client[c].sending
  BY <1>1 DEF Client
<1>4. r \in Client
  <2>1. client[c].ref - 1 \in Int
    BY <1>1
  <2> QED
    BY <1>1, <2>1, RecordSet
<1> HIDE DEF r
<1>5. Touches(c, -1) /\ client'[c] = r
  <2>1. -1 \in Int
    OBVIOUS
  <2> QED
    BY <1>1, <1>2, <1>3, <1>4, <2>1, StructSet, Zenon
<1> QED
  BY <1>3, <1>5

LEMMA RefDownSent ==
    ASSUME TypeOK, NEW c \in Structs,
           \/ client' = [client EXCEPT ![c].ref = @ - 1, ![c].sending = 0]
           \/ client' = [client EXCEPT ![c].ref = @ - 1, ![c].sending = 0,
                                       ![c].blocked = FALSE]
    PROVE  Touches(c, -1)
<1> DEFINE r == [client[c] EXCEPT !.ref = client[c].ref - 1, !.sending = 0]
           q == [client[c] EXCEPT !.ref = client[c].ref - 1, !.sending = 0, !.blocked = FALSE]
<1>1. client \in [Structs -> Client] /\ client[c] \in Client /\ client[c].ref \in Int
  BY FieldTypes
<1>2. client' = [client EXCEPT ![c] = r] \/ client' = [client EXCEPT ![c] = q]
  BY <1>1
<1>3. /\ r.where = client[c].where /\ r.id = client[c].id /\ r.fd = client[c].fd
      /\ r.ref = client[c].ref + -1
      /\ q.where = client[c].where /\ q.id = client[c].id /\ q.fd = client[c].fd
      /\ q.ref = client[c].ref + -1
  BY <1>1 DEF Client
<1>4. r \in Client /\ q \in Client
  <2>1. client[c].ref - 1 \in Int
    BY <1>1
  <2> QED
    BY <1>1, <2>1, RecordSet
<1> HIDE DEF r, q
<1> QED
  BY <1>1, <1>2, <1>3, <1>4, StructSet

LEMMA SendingSet ==
    ASSUME TypeOK, NEW c \in Structs, NEW n \in Serials,
           client' = [client EXCEPT ![c].sending = n]
    PROVE  Touches(c, 0) /\ client'[c].sending = n
<1> DEFINE r == [client[c] EXCEPT !.sending = n]
<1>1. client \in [Structs -> Client] /\ client[c] \in Client /\ client[c].ref \in Int
  BY FieldTypes
<1>2. client' = [client EXCEPT ![c] = r]
  BY <1>1
<1>3. r.where = client[c].where /\ r.id = client[c].id /\ r.fd = client[c].fd
      /\ r.ref = client[c].ref + 0 /\ r.sending = n
  BY <1>1 DEF Client
<1>4. r \in Client
  BY <1>1, RecordSet
<1> HIDE DEF r
<1>5. Touches(c, 0) /\ client'[c] = r
  <2>1. 0 \in Int
    OBVIOUS
  <2> QED
    BY <1>1, <1>2, <1>3, <1>4, <2>1, StructSet, Zenon
<1> QED
  BY <1>3, <1>5

LEMMA BlockedSet ==
    ASSUME TypeOK, NEW c \in Structs, client' = [client EXCEPT ![c].blocked = TRUE]
    PROVE  Touches(c, 0) /\ client'[c].sending = client[c].sending
<1> DEFINE r == [client[c] EXCEPT !.blocked = TRUE]
<1>1. client \in [Structs -> Client] /\ client[c] \in Client /\ client[c].ref \in Int
  BY FieldTypes
<1>2. client' = [client EXCEPT ![c] = r]
  BY <1>1
<1>3. r.where = client[c].where /\ r.id = client[c].id /\ r.fd = client[c].fd
      /\ r.ref = client[c].ref + 0 /\ r.sending = client[c].sending
  BY <1>1 DEF Client
<1>4. r \in Client
  BY <1>1, RecordSet
<1> HIDE DEF r
<1>5. Touches(c, 0) /\ client'[c] = r
  <2>1. 0 \in Int
    OBVIOUS
  <2> QED
    BY <1>1, <1>2, <1>3, <1>4, <2>1, StructSet, Zenon
<1> QED
  BY <1>3, <1>5

\* No id has become unknown that was known.
LEMMA HeardKept ==
    ASSUME TypeOK, TypeOK', Heard, UNCHANGED <<epoll, events, known>>, Announced <= Announced'
    PROVE  Heard'
<1>1. Announced \in Int /\ Announced' \in Int
  <2>1. client_ids \in Int /\ client_ids' \in Int
    BY ConnectorAssumption DEF TypeOK, Ids
  <2> QED
    BY <2>1 DEF Announced
<1>2. /\ \A f \in Fds : epoll[f].id \in Int
      /\ \A i \in DOMAIN events : events[i] \in Int
      /\ \A id \in known : id \in Int
  BY ConnectorAssumption DEF TypeOK, Ids
<1> QED
  BY <1>1, <1>2 DEF Heard

\* The descriptors, and what was told of the dead, are left alone.
LEMMA TableKept ==
    ASSUME FdsOwned, Accepted, DropsTold,
           UNCHANGED <<open, fdv["receiver"], pc["receiver"], client_ids>>,
           told \subseteq told', \A c \in Structs : SameFields(c),
           \A t \in {"event", "sender", "loop"} :
              pc[t] = "tell" => pc'[t] = "tell" /\ Subject(t)' = Subject(t)
    PROVE  FdsOwned' /\ Accepted' /\ DropsTold'
<1>1. Clients' = Clients /\ Dead' = Dead /\ Clients \subseteq Structs /\ Dead \subseteq Structs
  BY DEF Clients, Dead, SameFields
<1>2. FdsOwned'
  BY <1>1 DEF FdsOwned, SameFields
<1>3. Accepted'
  BY DEF Accepted
<1>4. DropsTold'
  BY <1>1 DEF DropsTold, SameFields
<1> QED
  BY <1>2, <1>3, <1>4

\* So is the order of the messages.
LEMMA OrderKept ==
    ASSUME TypeOK, Control, Order, UNCHANGED <<sends, at>>,
           \/ UNCHANGED pc["sender"]
           \/ /\ pc["sender"] # "idle" /\ pc'["sender"] # "write"
              /\ client'[sends[at].c].where = "dead",
           \A i \in DOMAIN sends :
              LET c == sends[i].c
              IN  \/ client'[c].where = "dead"
                  \/ client'[c].where = client[c].where /\ client'[c].sending = client[c].sending,
           \A c \in Structs : client'[c].where # "dead" /\ client'[c].sending # 0 =>
              client[c].where # "dead" /\ client'[c].sending = client[c].sending
    PROVE  Order'
<1>1. /\ DOMAIN sends = 1 .. Len(sends) /\ Len(sends) \in Nat /\ at \in Nat \ {0}
      /\ at <= Len(sends) + 1 /\ (pc["sender"] # "idle" => at <= Len(sends))
  BY MessageTypes DEF TypeOK, Control
<1>2. \A j \in 1 .. at - 1 : j \in DOMAIN sends
  BY <1>1
<1>3. pc["sender"] # "idle" => at \in DOMAIN sends
  BY <1>1
<1>4. Passed'
  BY <1>2 DEF Order, Passed
<1>5. Writing'
  BY <1>3 DEF Order, Writing
<1>6. OldestFirst'
  BY DEF Order, OldestFirst
<1>7. HalfWritten'
  BY DEF Order, HalfWritten, Oldest
<1> QED
  BY <1>4, <1>5, <1>6, <1>7 DEF Order

\* The last two at once, and a step that only looks.
Untold == \A t \in {"event", "loop"} : pc[t] = "tell" => UNCHANGED <<pc[t], hold[t]>>

LEMMA Elsewhere ==
    ASSUME TypeOK, Control, FdsOwned, Accepted, DropsTold, Order,
           UNCHANGED <<open, fdv["receiver"], pc["receiver"], client_ids, sends, at, pc["sender"]>>,
           told \subseteq told',
           \A c \in Structs : SameFields(c) /\ client'[c].sending = client[c].sending,
           Untold
    PROVE  FdsOwned' /\ Accepted' /\ DropsTold' /\ Order'
<1>1. ASSUME NEW t \in {"event", "sender", "loop"}, pc[t] = "tell"
      PROVE  pc'[t] = "tell" /\ Subject(t)' = Subject(t)
  BY <1>1 DEF Subject, Untold
<1>2. FdsOwned' /\ Accepted' /\ DropsTold'
  BY <1>1, TableKept
<1>3. \A i \in DOMAIN sends : sends[i].c \in Structs
  BY MessageTypes
<1>4. Order'
  BY <1>3, OrderKept DEF SameFields
<1> QED
  BY <1>2, <1>4

-----------------------------------------------------------------------------
(* The structs in a step that changes one of them, or none.                   *)

Receiving == UNCHANGED <<pc["receiver"], hold["receiver"], client_ids>>

LEMMA QuietAll ==
    ASSUME Receiving, \A c \in Structs : SameUsers(c),
           \/ UNCHANGED client
           \/ \E c \in Structs : Touches(c, 0) /\ client[c].where # "recycled",
           TypeOK
    PROVE  \A c \in Structs : StructStep(c)
<1>1. ASSUME NEW c \in Structs PROVE Quiet(c)
  <2>1. CASE UNCHANGED client
    BY <2>1 DEF Quiet, SameFields
  <2>2. ASSUME NEW d \in Structs, Touches(d, 0), client[d].where # "recycled" PROVE Quiet(c)
    BY <2>2, FieldTypes DEF Quiet, SameFields, Touches
  <2> QED
    BY <2>1, <2>2
<1> QED
  BY <1>1 DEF StructStep, Apart, Receiving

LEMMA GainAll ==
    ASSUME Receiving, NEW c \in Structs, Gains(c), Touches(c, 1),
           \A d \in Structs \ {c} : SameUsers(d)
    PROVE  \A d \in Structs : StructStep(d)
<1>1. ASSUME NEW d \in Structs \ {c} PROVE Quiet(d)
  BY DEF Quiet, SameFields, Touches
<1> QED
  BY <1>1 DEF StructStep, Apart, Receiving

LEMMA LoseAll ==
    ASSUME Receiving, NEW c \in Structs, Loses(c), Touches(c, -1),
           \A d \in Structs \ {c} : SameUsers(d)
    PROVE  \A d \in Structs : StructStep(d)
<1>1. ASSUME NEW d \in Structs \ {c} PROVE Quiet(d)
  BY DEF Quiet, SameFields, Touches
<1> QED
  BY <1>1 DEF StructStep, Apart, Receiving

\* Whoever is looked up by an id that somebody has heard of is not the one that
\* accept_client is at work on.
LEMMA Found ==
    ASSUME TypeOK, AllSound, NEW id, id <= Announced, NEW c \in ById(id)
    PROVE  c \in Structs /\ client[c].where = "table" /\ hold["receiver"] # c
<1>1. c \in Structs /\ client[c].where = "table" /\ client[c].id = id
  BY DEF ById, Clients
<1>2. ASSUME hold["receiver"] = c PROVE FALSE
  <2>1. pc["receiver"] = "arm" /\ client[c].id = client_ids
    BY <1>1, <1>2 DEF AllSound, Sound
  <2>2. Announced = client_ids - 1 /\ client_ids \in Nat
    BY <2>1, FieldTypes DEF Announced
  <2> QED
    BY <1>1, <2>1, <2>2
<1> QED
  BY <1>1, <1>2

\* Who is held is in the table, or dead, and has been announced.
LEMMA Held ==
    ASSUME TypeOK, AllSound, NEW c \in Structs, ~ Free(c)
    PROVE  client[c].where \in {"table", "dead"} /\ hold["receiver"] # c
           /\ client[c].id \in 1 .. Announced /\ client[c].ref \in Nat \ {0}
<1>1. client[c].where \in {"table", "dead"} /\ hold["receiver"] # c
  BY InUse DEF AllSound
<1>2. Uses(c) \in Nat \ {0}
  BY UsesCount
<1> QED
  BY <1>1, <1>2 DEF AllSound, Sound

LEMMA LookedUp ==
    ASSUME TypeOK, Control, NEW t \in {"event", "loop"}, pc[t] # "idle"
    PROVE  hold[t] \in Structs /\ t \in Lookups(hold[t]) /\ ~ Free(hold[t])
BY DEF Control, Lookups, Free

LEMMA OnItsWay ==
    ASSUME TypeOK, NEW i \in DOMAIN sends
    PROVE  sends[i].c \in Structs /\ sends[i].n \in InFlight(sends[i].c) /\ ~ Free(sends[i].c)
<1>1. sends[i].c \in Structs
  BY MessageTypes
<1>2. sends[i].n \in InFlight(sends[i].c)
  BY InFlightIs DEF Has
<1> QED
  BY <1>1, <1>2 DEF Free

LEMMA ThreadNames == {"receiver", "event", "cmp", "sender", "loop"} = Threads
BY DEF Threads

\* What is to be shown of each step.
StepRight == IInv' /\ \A c \in Structs : StructStep(c)

LEMMA Together ==
    ASSUME IInv, TypeOK', Control', Serialised', Heard', \A c \in Structs : StructStep(c),
           FdsOwned', Accepted', DropsTold', Order'
    PROVE  StepRight
<1>1. AllSound'
  BY SoundStep DEF IInv, AllSound
<1> QED
  BY <1>1 DEF StepRight, IInv

\* Steps that change no struct, message or hold.
LEMMA Looks ==
    ASSUME IInv, TypeOK', Control', Heard',
           UNCHANGED <<client, open, queued, sends, making, sent, hold, at, client_ids,
                       fdv["receiver"], pc["receiver"], pc["sender"]>>,
           told \subseteq told',
           \A t \in {"event", "loop"} : pc[t] = "tell" => pc'[t] = "tell"
    PROVE  StepRight
<1>1. TypeOK /\ Control /\ Serialised /\ FdsOwned /\ Accepted /\ DropsTold /\ Order
  BY DEF IInv
<1>2. \A c \in Structs : SameUsers(c)
  BY DEF SameUsers, Lookups, InFlight
<1>3. \A c \in Structs : StructStep(c)
  BY <1>1, <1>2, QuietAll DEF Receiving
<1>4. \A c \in Structs : SameFields(c) /\ client'[c].sending = client[c].sending
  BY DEF SameFields
<1>5. Untold
  BY DEF Untold
<1>6. FdsOwned' /\ Accepted' /\ DropsTold' /\ Order'
  BY <1>1, <1>4, <1>5, Elsewhere
<1>7. Serialised'
  BY <1>1 DEF Serialised
<1> QED
  BY <1>3, <1>6, <1>7, Together

\* The event processor goes on.
LEMMA EventGoes ==
    ASSUME IInv, pc["event"] # "idle",
           NEW place \in {"load", "read", "parse", "rearm", "mod", "drop", "tell", "cull", "dec"},
           Goto("event", place),
           UNCHANGED <<hold, making, sends, at, client_ids, fdv["receiver"]>>
    PROVE  Control' /\ pc' \in [Threads -> Places] /\ pc'["event"] = place
           /\ UNCHANGED <<pc["receiver"], pc["sender"], pc["cmp"], pc["loop"]>>
<1>1. place \in Places /\ {"receiver", "event", "cmp", "sender", "loop"} = Threads
  BY ThreadNames DEF Places
<1>2. pc' \in [Threads -> Places] /\ pc'["event"] = place
      /\ UNCHANGED <<pc["receiver"], pc["sender"], pc["cmp"], pc["loop"]>>
  BY <1>1, Going DEF IInv
<1>3. Control'
  BY <1>2 DEF IInv, Control
<1> QED
  BY <1>2, <1>3

LEMMA HeardSame ==
    ASSUME IInv, TypeOK', UNCHANGED <<epoll, events, known, pc["receiver"], client_ids>>
    PROVE  Heard'
<1>1. Announced' = Announced /\ Announced \in Int
  BY FieldTypes DEF Announced, IInv
<1> QED
  BY <1>1, HeardKept DEF IInv

-----------------------------------------------------------------------------
(* Each step.                                                                *)

\* Something to read, or a hangup.
LEMMA EventStep == ASSUME IInv, NEW f \in Fds, Event(f) PROVE StepRight
<1>1. /\ UNCHANGED <<open, client, admission, queued, sends, pc, hold, fdv, making, at, sent,
                     stratifier>>
      /\ epoll' = [epoll EXCEPT ![f].armed = FALSE] /\ events' = Append(events, epoll[f].id)
      /\ epoll[f].armed
  BY DEF Event
<1>2. /\ epoll \in [Fds -> [id : Ids \union {0}, armed : BOOLEAN]] /\ events \in Seq(Ids)
      /\ Heard
  BY DEF IInv, TypeOK
<1>3. /\ epoll' \in [Fds -> [id : Ids \union {0}, armed : BOOLEAN]]
      /\ \A g \in Fds : epoll'[g].id = epoll[g].id /\ (epoll'[g].armed => epoll[g].armed)
  <2>1. epoll' = [epoll EXCEPT ![f] = [epoll[f] EXCEPT !.armed = FALSE]]
    BY <1>1, <1>2
  <2>2. [epoll[f] EXCEPT !.armed = FALSE] \in [id : Ids \union {0}, armed : BOOLEAN]
    BY <1>2
  <2>3. [epoll[f] EXCEPT !.armed = FALSE].id = epoll[f].id
        /\ [epoll[f] EXCEPT !.armed = FALSE].armed = FALSE
    BY <1>2
  <2>4. \A g \in Fds : epoll'[g] = IF g = f THEN [epoll[f] EXCEPT !.armed = FALSE] ELSE epoll[g]
    BY <1>2, <2>1
  <2> QED
    BY <1>2, <2>1, <2>2, <2>3, <2>4
<1>4. epoll[f].id \in Ids /\ epoll[f].id <= Announced
  BY <1>1, <1>2 DEF Heard
<1>5. /\ events' \in Seq(Ids) /\ Len(events') = Len(events) + 1 /\ Len(events) \in Nat
      /\ \A i \in 1 .. Len(events) : events'[i] = events[i]
      /\ events'[Len(events) + 1] = epoll[f].id
  BY <1>1, <1>2, <1>4, AppendProperties, LenProperties
<1>6. TypeOK'
  BY <1>1, <1>3, <1>5 DEF IInv, TypeOK, admission, stratifier
<1>7. Control'
  BY <1>1 DEF IInv, Control, admission
<1>8. Heard'
  <2>1. Announced' = Announced
    BY <1>1 DEF Announced, admission
  <2>2. \A i \in DOMAIN events' : events'[i] <= Announced
    <3>1. DOMAIN events' = 1 .. Len(events) + 1 /\ DOMAIN events = 1 .. Len(events)
      BY <1>2, <1>5, LenProperties
    <3>2. \A i \in DOMAIN events' : i \in DOMAIN events \/ i = Len(events) + 1
      BY <1>5, <3>1
    <3>3. ASSUME NEW i \in DOMAIN events PROVE events'[i] <= Announced
      <4>1. events'[i] = events[i]
        BY <1>5, <3>1
      <4> QED
        BY <1>2, <4>1 DEF Heard
    <3>4. events'[Len(events) + 1] <= Announced
      BY <1>4, <1>5
    <3> QED
      BY <3>2, <3>3, <3>4
  <2> QED
    BY <1>1, <1>2, <1>3, <2>1, <2>2 DEF Heard, stratifier
<1> QED
  BY <1>1, <1>6, <1>7, <1>8, Looks DEF admission, stratifier

\* The thread that has a client in hand: the client's id was announced.
LEMMA HeldId ==
    ASSUME IInv, NEW t \in {"event", "loop"}, pc[t] # "idle"
    PROVE  /\ hold[t] \in Structs /\ client[hold[t]].id \in Ids
           /\ client[hold[t]].id <= Announced /\ client[hold[t]].where \in {"table", "dead"}
           /\ hold["receiver"] # hold[t]
           /\ client[hold[t]].fd \in Fds \union {NoFd}
<1>1. hold[t] \in Structs /\ ~ Free(hold[t]) /\ TypeOK /\ AllSound
  BY LookedUp DEF IInv
<1>2. client[hold[t]].where \in {"table", "dead"} /\ hold["receiver"] # hold[t]
      /\ client[hold[t]].id \in 1 .. Announced
  BY <1>1, Held
<1>3. client[hold[t]].id \in Ids \union {0} /\ client[hold[t]].fd \in Fds \union {NoFd}
  BY <1>1, FieldTypes DEF Client
<1>4. Announced \in Int
  BY <1>1, FieldTypes
<1> QED
  BY <1>1, <1>2, <1>3, <1>4

\* parse_client_msg's reads, and what does not come to the stratifier.
LEMMA EventLooks ==
    ASSUME IInv, EventLoad \/ EventRead \/ EventMessage \/ EventRearm \/ EventMod
    PROVE  StepRight
<1>1. pc["event"] # "idle" /\ TypeOK /\ Control /\ Heard
  BY DEF EventLoad, EventRead, EventMessage, EventRearm, EventMod, IInv
<1>2. PICK place \in {"load", "read", "parse", "rearm", "mod", "drop", "tell", "cull", "dec"} :
        Goto("event", place)
  BY DEF EventLoad, EventRead, EventMessage, EventRearm, EventMod
<1>3. UNCHANGED <<open, client, admission, events, queued, sends, hold, making, at, sent, told>>
  BY DEF EventLoad, EventRead, EventMessage, EventRearm, EventMod, kernel, stratifier
<1>4. PICK f \in Fds \union {NoFd} : fdv' = fdv \/ fdv' = [fdv EXCEPT !["event"] = f]
  BY <1>1, HeldId DEF EventLoad, EventRead, EventMessage, EventRearm, EventMod
<1>5. fdv' \in [Threads -> Fds \union {NoFd}] /\ fdv'["receiver"] = fdv["receiver"]
  BY <1>1, <1>4, ThreadNames DEF TypeOK
<1>6. Control' /\ pc' \in [Threads -> Places] /\ pc'["event"] = place
      /\ UNCHANGED <<pc["receiver"], pc["sender"], pc["cmp"], pc["loop"]>>
  BY <1>1, <1>2, <1>3, <1>5, EventGoes DEF admission
<1>7. pc["event"] # "tell"
  BY DEF EventLoad, EventRead, EventMessage, EventRearm, EventMod
<1>8. /\ known' \in SUBSET Ids /\ \A id \in known' : id <= Announced
  <2>1. CASE EventMessage
    <3>1. known' = known \/ known' = known \union {client[hold["event"]].id}
      BY <2>1 DEF EventMessage
    <3> QED
      BY <1>1, <3>1, HeldId DEF TypeOK, Heard
  <2>2. CASE ~ EventMessage
    <3>1. known' = known
      BY <2>2 DEF EventLoad, EventRead, EventRearm, EventMod, stratifier
    <3> QED
      BY <1>1, <3>1 DEF TypeOK, Heard
  <2> QED
    BY <2>1, <2>2
<1>9. /\ epoll' \in [Fds -> [id : Ids \union {0}, armed : BOOLEAN]]
      /\ \A f1 \in Fds : epoll'[f1].id <= Announced /\ (epoll'[f1].armed => epoll'[f1].id # 0)
  <2>1. CASE UNCHANGED epoll
    BY <1>1, <2>1 DEF TypeOK, Heard
  <2>2. CASE EventMod /\ ~ UNCHANGED epoll
    <3>1. fdv["event"] \in Fds
          /\ epoll' = [epoll EXCEPT ![fdv["event"]] = [id |-> client[hold["event"]].id,
                                                       armed |-> TRUE]]
      BY <1>1, <2>2, ThreadNames DEF EventMod, TypeOK
    <3>2. client[hold["event"]].id \in Ids /\ client[hold["event"]].id <= Announced
          /\ client[hold["event"]].id # 0
      BY <1>1, HeldId DEF Ids
    <3> QED
      BY <1>1, <3>1, <3>2 DEF TypeOK, Heard
  <2>3. CASE ~ EventMod /\ ~ UNCHANGED epoll
    BY <2>3 DEF EventLoad, EventRead, EventMessage, EventRearm, kernel
  <2> QED
    BY <2>1, <2>2, <2>3
<1>10. TypeOK'
  BY <1>1, <1>3, <1>5, <1>6, <1>8, <1>9 DEF TypeOK, Places, admission
<1>11. Heard'
  <2>1. Announced' = Announced
    BY <1>3, <1>6 DEF Announced, admission
  <2> QED
    BY <1>1, <1>3, <1>8, <1>9, <2>1 DEF Heard
<1> QED
  BY <1>3, <1>5, <1>6, <1>7, <1>10, <1>11, Looks DEF admission

LEMMA LoopLooks == ASSUME IInv, ~ Passthrough, LoopTest \/ LoopAccept PROVE StepRight
<1>1. /\ UNCHANGED <<kernel, client, client_ids, events, queued, sends, pc, hold, fdv, making, at,
                     sent, known>>
      /\ told \subseteq told' /\ told' \in SUBSET Ids
  <2>1. CASE LoopTest
    <3>1. PICK id \in known \ told : told' = told \union {id}
      BY <2>1 DEF LoopTest
    <3>2. known \subseteq Ids /\ told \subseteq Ids
      BY DEF IInv, TypeOK
    <3> QED
      BY <2>1, <3>1, <3>2 DEF LoopTest, admission
  <2>2. CASE LoopAccept
    BY <2>2 DEF LoopAccept, stratifier, IInv, TypeOK
  <2> QED
    BY <2>1, <2>2
<1>2. accept' \in BOOLEAN
  <2>1. CASE LoopTest
    BY <2>1 DEF LoopTest, admission, IInv, TypeOK
  <2>2. CASE LoopAccept
    BY <2>2 DEF LoopAccept
  <2> QED
    BY <2>1, <2>2
<1>3. TypeOK'
  BY <1>1, <1>2 DEF IInv, TypeOK, kernel
<1>4. Control'
  BY <1>1 DEF IInv, Control
<1>5. Heard'
  BY <1>1, <1>3, HeardSame DEF kernel
<1> QED
  BY <1>1, <1>3, <1>4, <1>5, Looks DEF kernel

\* A thread looks up a client for which somebody gave it an id.
LEMMA LookupStep ==
    ASSUME IInv, NEW t \in {"event", "loop"}, pc[t] = "idle",
           NEW id, id <= Announced, NEW c \in ById(id),
           client' = [client EXCEPT ![c].ref = @ + 1], hold' = [hold EXCEPT ![t] = c],
           NEW place \in {"load", "drop"}, Goto(t, place), t = "loop" => place = "drop",
           UNCHANGED <<kernel, admission, queued, sends, fdv, making, at, sent, stratifier>>,
           events' \in Seq(Ids), \A i \in DOMAIN events' : events'[i] <= Announced
    PROVE  StepRight
<1>1. TypeOK /\ Control /\ AllSound /\ Serialised /\ Heard /\ FdsOwned /\ Accepted /\ DropsTold
      /\ Order
  BY DEF IInv
<1>2. c \in Structs /\ client[c].where = "table" /\ hold["receiver"] # c
  BY <1>1, Found
<1>3. Touches(c, 1) /\ client'[c].sending = client[c].sending
  BY <1>1, <1>2, RefUp
<1>4. t \in Threads /\ place \in Places
  BY ThreadNames DEF Places
<1>5. pc' \in [Threads -> Places] /\ pc'[t] = place /\ \A r \in Threads \ {t} : pc'[r] = pc[r]
  BY <1>1, <1>4, Going
<1>6. hold' \in [Threads -> Structs \union {NoStruct}] /\ hold'[t] = c
      /\ \A r \in Threads \ {t} : hold'[r] = hold[r]
  BY <1>1, <1>2, <1>4, Holding
<1>7. TypeOK'
  BY <1>1, <1>3, <1>5, <1>6 DEF TypeOK, Places, Touches, kernel, admission, stratifier
<1>8. Control'
  <2>1. \A r \in {"receiver", "event", "loop"} \ {t} : r \in Threads \ {t}
    BY ThreadNames
  <2> QED
    BY <1>1, <1>2, <1>5, <1>6, <2>1, ThreadNames DEF Control, admission
<1>9. Receiving /\ UNCHANGED pc["sender"]
  BY <1>5, <1>6, ThreadNames DEF Receiving, admission
<1>10. Heard'
  <2>1. Announced' = Announced
    BY <1>9 DEF Receiving, Announced
  <2> QED
    BY <1>1, <2>1 DEF Heard, kernel, stratifier
<1>11. \A d \in Structs : InFlight(d)' = InFlight(d)
  BY DEF InFlight
<1>12. t \notin Lookups(c)
  BY <1>1, <1>2 DEF Lookups, Control
<1>13. Lookups(c)' = Lookups(c) \union {t}
  BY <1>6, ThreadNames DEF Lookups
<1>14. ASSUME NEW d \in Structs \ {c} PROVE SameUsers(d)
  <2>1. Lookups(d)' = Lookups(d)
    BY <1>1, <1>6, ThreadNames DEF Lookups, Control
  <2> QED
    BY <1>11, <2>1 DEF SameUsers
<1>15. Gains(c)
  BY <1>2, <1>3, <1>11, <1>12, <1>13 DEF Gains, Touches
<1>16. \A d \in Structs : StructStep(d)
  BY <1>2, <1>3, <1>9, <1>14, <1>15, GainAll
<1>17. \A d \in Structs : SameFields(d) /\ client'[d].sending = client[d].sending
  BY <1>3 DEF Touches, SameFields
<1>18. Untold
  <2>1. ASSUME NEW r \in {"event", "loop"}, pc[r] = "tell" PROVE UNCHANGED <<pc[r], hold[r]>>
    <3>1. r \in Threads \ {t}
      BY <2>1, ThreadNames
    <3> QED
      BY <1>5, <1>6, <3>1
  <2> QED
    BY <2>1 DEF Untold
<1>19. FdsOwned' /\ Accepted' /\ DropsTold' /\ Order'
  BY <1>1, <1>9, <1>17, <1>18, Elsewhere DEF Receiving, kernel, stratifier
<1>20. Serialised'
  BY <1>1 DEF Serialised
<1> QED
  BY <1>7, <1>8, <1>10, <1>16, <1>19, <1>20, Together

LEMMA EventTakeStep == ASSUME IInv, EventTake PROVE StepRight
<1>1. /\ pc["event"] = "idle" /\ events # <<>> /\ events' = Tail(events)
      /\ UNCHANGED <<kernel, admission, queued, sends, fdv, making, at, sent, stratifier>>
  BY DEF EventTake
<1>2. TypeOK /\ Control /\ Heard /\ AllSound /\ Serialised
  BY DEF IInv
<1>3. events \in Seq(Ids) /\ Len(events) \in Nat \ {0} /\ DOMAIN events = 1 .. Len(events)
      /\ 1 \in DOMAIN events
  BY <1>1, <1>2, LenProperties, EmptySeq DEF TypeOK
<1>4. events' \in Seq(Ids)
      /\ \A i \in DOMAIN events' : i + 1 \in DOMAIN events /\ events'[i] = events[i + 1]
  <2>1. /\ Tail(events) \in Seq(Ids) /\ Len(Tail(events)) = Len(events) - 1
        /\ \A i \in 1 .. Len(Tail(events)) : Tail(events)[i] = events[i + 1]
    BY <1>1, <1>3, HeadTailProperties
  <2>2. DOMAIN events' = 1 .. Len(events) - 1
    BY <1>1, <2>1, LenProperties
  <2> QED
    BY <1>1, <1>3, <2>1, <2>2
<1>5. Head(events) <= Announced
  BY <1>1, <1>2, <1>3 DEF Heard
<1>6. \A i \in DOMAIN events' : events'[i] <= Announced
  BY <1>2, <1>4 DEF Heard
<1>7. CASE UNCHANGED <<client, pc, hold>>
  <2>1. TypeOK'
    BY <1>1, <1>2, <1>4, <1>7 DEF TypeOK, kernel, admission, stratifier
  <2>2. Control'
    BY <1>1, <1>2, <1>7 DEF Control, admission
  <2>3. Announced' = Announced
    BY <1>1, <1>7 DEF Announced, admission
  <2>4. Heard'
    BY <1>1, <1>2, <1>6, <2>3 DEF Heard, kernel, stratifier
  <2> QED
    BY <1>1, <1>7, <2>1, <2>2, <2>4, Looks DEF kernel, admission, stratifier
<1>8. ASSUME NEW c \in ById(Head(events)), client' = [client EXCEPT ![c].ref = @ + 1],
             hold' = [hold EXCEPT !["event"] = c], Goto("event", "load")
      PROVE  StepRight
  BY <1>1, <1>4, <1>5, <1>6, <1>8, LookupStep
<1> QED
  BY <1>7, <1>8 DEF EventTake

LEMMA LoopDropStep == ASSUME IInv, LoopDrop PROVE StepRight
<1>1. PICK id \in known : \E c \in ById(id) :
         /\ client' = [client EXCEPT ![c].ref = @ + 1]
         /\ hold' = [hold EXCEPT !["loop"] = c]
  BY DEF LoopDrop
<1>2. id <= Announced /\ events \in Seq(Ids) /\ \A i \in DOMAIN events : events[i] <= Announced
  BY DEF IInv, Heard, TypeOK
<1>3. /\ pc["loop"] = "idle" /\ Goto("loop", "drop")
      /\ UNCHANGED <<kernel, admission, queued, sends, fdv, making, at, sent, stratifier, events>>
  BY DEF LoopDrop
<1> QED
  BY <1>1, <1>2, <1>3, LookupStep

\* The structs when a message is made for c.
LEMMA MessageStructs ==
    ASSUME IInv, NEW c \in Structs, client[c].where = "table", hold["receiver"] # c,
           client' = [client EXCEPT ![c].ref = @ + 1], sent < MaxSends,
           UNCHANGED hold, Receiving,
           \A d \in Structs : InFlight(d)' = IF d = c THEN InFlight(d) \union {sent + 1}
                                             ELSE InFlight(d),
           \A d \in Structs : sent + 1 \notin InFlight(d)
    PROVE  /\ client' \in [Structs -> Client]
           /\ \A d \in Structs : StructStep(d)
           /\ \A d \in Structs : SameFields(d) /\ client'[d].sending = client[d].sending
<1>1. TypeOK
  BY DEF IInv
<1>2. Touches(c, 1) /\ client'[c].sending = client[c].sending
  BY <1>1, RefUp
<1>3. sent + 1 \in Serials
  BY <1>1, MessageTypes DEF Serials
<1>4. \A d : Lookups(d)' = Lookups(d)
  BY DEF Lookups
<1>5. Gains(c)
  BY <1>2, <1>3, <1>4 DEF Gains, Touches
<1>6. \A d \in Structs \ {c} : SameUsers(d)
  BY <1>4 DEF SameUsers
<1>7. \A d \in Structs : StructStep(d)
  BY <1>2, <1>5, <1>6, GainAll
<1>8. \A d \in Structs : SameFields(d) /\ client'[d].sending = client[d].sending
  BY <1>2 DEF Touches, SameFields
<1> QED
  BY <1>2, <1>7, <1>8 DEF Touches

LEMMA EventGarbledStep == ASSUME IInv, EventGarbled PROVE StepRight
<1> DEFINE id == client[hold["event"]].id
<1>1. /\ pc["event"] = "parse" /\ Goto("event", "drop")
      /\ UNCHANGED <<kernel, admission, events, sends, hold, fdv, making, at, known>>
  BY DEF EventGarbled
<1>2. TypeOK /\ Control /\ AllSound /\ Serialised /\ Heard /\ FdsOwned /\ Accepted /\ DropsTold
      /\ Order
  BY DEF IInv
<1>3. id \in Ids /\ id <= Announced
  BY <1>1, HeldId
<1>4. Control' /\ pc' \in [Threads -> Places]
      /\ UNCHANGED <<pc["receiver"], pc["sender"], pc["cmp"], pc["loop"]>>
  BY <1>1, EventGoes DEF admission
<1>5. CASE told' = told \union {id} /\ UNCHANGED <<client, queued, sent>>
  <2>1. told' \in SUBSET Ids
    BY <1>2, <1>3, <1>5 DEF TypeOK
  <2>2. TypeOK'
    BY <1>1, <1>2, <1>4, <1>5, <2>1 DEF TypeOK, Places, kernel, admission
  <2>3. Heard'
    BY <1>1, <1>4, <2>2, HeardSame DEF kernel, admission
  <2> QED
    BY <1>1, <1>4, <1>5, <2>2, <2>3, Looks DEF kernel, admission
<1>6. ASSUME NEW c \in ById(id), MakeSend(c), queued' = Append(queued, Message(c)),
             UNCHANGED told
      PROVE  StepRight
  <2>1. c \in Structs /\ client[c].where = "table" /\ hold["receiver"] # c
    BY <1>2, <1>3, Found
  <2>2. sent < MaxSends /\ sent' = sent + 1 /\ client' = [client EXCEPT ![c].ref = @ + 1]
    BY <1>6 DEF MakeSend
  <2>3. /\ Serialised' /\ queued' \in Seq(Send)
        /\ \A d \in Structs : InFlight(d)' = IF d = c THEN InFlight(d) \union {sent + 1}
                                             ELSE InFlight(d)
        /\ \A d \in Structs : sent + 1 \notin InFlight(d)
    BY <1>1, <1>2, <1>6, <2>1, <2>2, MessageAnswered
  <2>4. Receiving
    BY <1>1, <1>4 DEF Receiving, admission
  <2>5. /\ client' \in [Structs -> Client]
        /\ \A d \in Structs : StructStep(d)
        /\ \A d \in Structs : SameFields(d) /\ client'[d].sending = client[d].sending
    BY <1>1, <2>1, <2>2, <2>3, <2>4, MessageStructs
  <2>6. sent' \in Serials \union {0}
    BY <1>2, <2>2, MessageTypes DEF Serials
  <2>7. TypeOK'
    BY <1>1, <1>2, <1>4, <1>6, <2>3, <2>5, <2>6 DEF TypeOK, Places, kernel, admission
  <2>8. Heard'
    BY <1>1, <1>4, <2>7, HeardSame DEF kernel, admission
  <2>9. Untold
    BY <1>1, <1>4 DEF Untold
  <2>10. FdsOwned' /\ Accepted' /\ DropsTold' /\ Order'
    BY <1>1, <1>2, <1>4, <1>6, <2>5, <2>9, Elsewhere DEF kernel, admission
  <2> QED
    BY <1>4, <2>3, <2>5, <2>7, <2>8, <2>10, Together
<1> QED
  BY <1>5, <1>6 DEF EventGarbled

\* The client message processor goes on.
LEMMA CmpGoes ==
    ASSUME IInv, NEW place \in {"idle", "queue"}, Goto("cmp", place),
           making' \in Send <=> place = "queue",
           UNCHANGED <<hold, sends, at, client_ids, fdv["receiver"]>>
    PROVE  Control' /\ pc' \in [Threads -> Places]
           /\ UNCHANGED <<pc["receiver"], pc["sender"], pc["event"], pc["loop"]>>
<1>1. place \in Places /\ {"receiver", "event", "cmp", "sender", "loop"} = Threads
  BY ThreadNames DEF Places
<1>2. pc' \in [Threads -> Places] /\ pc'["cmp"] = place
      /\ UNCHANGED <<pc["receiver"], pc["sender"], pc["event"], pc["loop"]>>
  BY <1>1, Going DEF IInv
<1>3. Control'
  BY <1>2 DEF IInv, Control
<1> QED
  BY <1>2, <1>3

LEMMA SendClientStep == ASSUME IInv, SendClient PROVE StepRight
<1>1. /\ pc["cmp"] = "idle"
      /\ UNCHANGED <<kernel, admission, events, queued, sends, hold, fdv, at, known>>
  BY DEF SendClient
<1>2. TypeOK /\ Control /\ AllSound /\ Serialised /\ Heard /\ FdsOwned /\ Accepted /\ DropsTold
      /\ Order
  BY DEF IInv
<1>3. ASSUME NEW id \in known, told' = told \union {id}, UNCHANGED <<client, making, sent, pc>>
      PROVE  StepRight
  <2>1. told' \in SUBSET Ids
    BY <1>2, <1>3 DEF TypeOK
  <2>2. TypeOK'
    BY <1>1, <1>2, <1>3, <2>1 DEF TypeOK, kernel, admission
  <2>3. Control'
    BY <1>1, <1>2, <1>3 DEF Control, admission
  <2>4. Heard'
    BY <1>1, <1>3, <2>2, HeardSame DEF kernel, admission
  <2> QED
    BY <1>1, <1>3, <2>2, <2>3, <2>4, Looks DEF kernel, admission
<1>4. ASSUME NEW id \in known, NEW c \in ById(id), MakeSend(c), making' = Message(c),
             Goto("cmp", "queue"), UNCHANGED told
      PROVE  StepRight
  <2>1. c \in Structs /\ client[c].where = "table" /\ hold["receiver"] # c
    BY <1>2, Found DEF Heard
  <2>2. sent < MaxSends /\ sent' = sent + 1 /\ client' = [client EXCEPT ![c].ref = @ + 1]
    BY <1>4 DEF MakeSend
  <2>3. making = NoSend
    BY <1>1, <1>2 DEF Control, TypeOK
  <2>4. /\ Serialised' /\ making' \in Send
        /\ \A d \in Structs : InFlight(d)' = IF d = c THEN InFlight(d) \union {sent + 1}
                                             ELSE InFlight(d)
        /\ \A d \in Structs : sent + 1 \notin InFlight(d)
    BY <1>1, <1>2, <1>4, <2>1, <2>2, <2>3, MessageMade
  <2>5. Control' /\ pc' \in [Threads -> Places]
        /\ UNCHANGED <<pc["receiver"], pc["sender"], pc["event"], pc["loop"]>>
    BY <1>1, <1>4, <2>4, CmpGoes DEF admission
  <2>6. Receiving
    BY <1>1, <2>5 DEF Receiving, admission
  <2>7. /\ client' \in [Structs -> Client]
        /\ \A d \in Structs : StructStep(d)
        /\ \A d \in Structs : SameFields(d) /\ client'[d].sending = client[d].sending
    BY <1>1, <2>1, <2>2, <2>4, <2>6, MessageStructs
  <2>8. sent' \in Serials \union {0}
    BY <1>2, <2>2, MessageTypes DEF Serials
  <2>9. TypeOK'
    BY <1>1, <1>2, <1>4, <2>4, <2>5, <2>7, <2>8 DEF TypeOK, Places, kernel, admission
  <2>10. Heard'
    BY <1>1, <2>5, <2>9, HeardSame DEF kernel, admission
  <2>11. Untold
    BY <1>1, <2>5 DEF Untold
  <2>12. FdsOwned' /\ Accepted' /\ DropsTold' /\ Order'
    BY <1>1, <1>2, <1>4, <2>5, <2>7, <2>11, Elsewhere DEF kernel, admission
  <2> QED
    BY <2>4, <2>5, <2>7, <2>9, <2>10, <2>12, Together
<1> QED
  BY <1>3, <1>4 DEF SendClient

\* A step that moves messages from one queue to the next.
LEMMA QueueSendStep == ASSUME IInv, QueueSend PROVE StepRight
<1>1. /\ pc["cmp"] = "queue" /\ queued' = Append(queued, making) /\ making' = NoSend
      /\ Goto("cmp", "idle")
      /\ UNCHANGED <<kernel, client, admission, events, sends, hold, fdv, at, sent, stratifier>>
  BY DEF QueueSend
<1>2. TypeOK /\ Control /\ AllSound /\ Serialised /\ Heard /\ FdsOwned /\ Accepted /\ DropsTold
      /\ Order
  BY DEF IInv
<1>3. making \in Send
  BY <1>1, <1>2 DEF Control
<1>4. /\ Serialised' /\ queued' \in Seq(Send)
      /\ \A c \in Structs : InFlight(c)' = InFlight(c)
  BY <1>1, <1>2, <1>3, MessageQueued
<1>5. making' \notin Send
  BY <1>1, SendIsSend
<1>6. Control' /\ pc' \in [Threads -> Places]
      /\ UNCHANGED <<pc["receiver"], pc["sender"], pc["event"], pc["loop"]>>
  BY <1>1, <1>5, CmpGoes DEF admission
<1>7. TypeOK'
  BY <1>1, <1>2, <1>4, <1>6 DEF TypeOK, Places, kernel, admission, stratifier
<1>8. Heard'
  BY <1>1, <1>6, <1>7, HeardSame DEF kernel, admission, stratifier
<1>9. \A c \in Structs : SameUsers(c)
  BY <1>1, <1>4 DEF SameUsers, Lookups
<1>10. \A c \in Structs : StructStep(c)
  BY <1>1, <1>2, <1>6, <1>9, QuietAll DEF Receiving, admission
<1>11. Untold
  BY <1>1, <1>6 DEF Untold
<1>12. \A c \in Structs : SameFields(c) /\ client'[c].sending = client[c].sending
  BY <1>1 DEF SameFields
<1>13. FdsOwned' /\ Accepted' /\ DropsTold' /\ Order'
  BY <1>1, <1>2, <1>6, <1>11, <1>12, Elsewhere DEF kernel, admission, stratifier
<1> QED
  BY <1>4, <1>6, <1>7, <1>8, <1>10, <1>13, Together

\* A thread is done with its client.
LEMMA DecStep == ASSUME IInv, NEW t \in {"event", "loop"}, Dec(t) PROVE StepRight
<1>1. /\ pc[t] = "dec" /\ client' = [client EXCEPT ![hold[t]].ref = @ - 1]
      /\ hold' = [hold EXCEPT ![t] = NoStruct] /\ Goto(t, "idle")
      /\ UNCHANGED <<kernel, admission, events, queued, sends, fdv, making, at, sent,
                     stratifier>>
  BY DEF Dec
<1>2. TypeOK /\ Control /\ AllSound /\ Serialised /\ Heard /\ FdsOwned /\ Accepted /\ DropsTold
      /\ Order
  BY DEF IInv
<1>c. PICK c \in Structs : c = hold[t]
  BY <1>1, <1>2, LookedUp
<1>3. t \in Lookups(c) /\ ~ Free(c)
  BY <1>c, <1>1, <1>2, LookedUp
<1>4. Touches(c, -1) /\ client'[c].sending = client[c].sending
  BY <1>c, <1>1, <1>2, RefDown
<1>5. t \in Threads /\ "idle" \in Places
  BY ThreadNames DEF Places
<1>6. pc' \in [Threads -> Places] /\ pc'[t] = "idle" /\ \A r \in Threads \ {t} : pc'[r] = pc[r]
  BY <1>1, <1>2, <1>5, Going
<1>7. hold' \in [Threads -> Structs \union {NoStruct}] /\ hold'[t] = NoStruct
      /\ \A r \in Threads \ {t} : hold'[r] = hold[r]
  BY <1>1, <1>2, <1>5, Holding
<1>8. TypeOK'
  BY <1>1, <1>2, <1>4, <1>6, <1>7 DEF TypeOK, Places, Touches, kernel, admission,
     stratifier
<1>9. Control'
  <2>1. \A r \in {"receiver", "event", "loop"} \ {t} : r \in Threads \ {t}
    BY ThreadNames
  <2> QED
    BY <1>1, <1>2, <1>6, <1>7, <2>1, ThreadNames, ConnectorAssumption DEF Control,
       admission
<1>10. Receiving /\ UNCHANGED pc["sender"]
  BY <1>1, <1>6, <1>7, ThreadNames DEF Receiving, admission
<1>11. Heard'
  BY <1>1, <1>8, <1>10, HeardSame DEF kernel, admission, stratifier, Receiving
<1>12. \A d \in Structs : InFlight(d)' = InFlight(d)
  BY <1>1 DEF InFlight
<1>13. Lookups(c)' = Lookups(c) \ {t}
  BY <1>c, <1>3, <1>7, ThreadNames, ConnectorAssumption DEF Lookups
<1>14. ASSUME NEW d \in Structs \ {c} PROVE SameUsers(d)
  <2>1. Lookups(d)' = Lookups(d)
    BY <1>c, <1>7, ThreadNames, ConnectorAssumption DEF Lookups
  <2> QED
    BY <1>12, <2>1 DEF SameUsers
<1>15. Loses(c)
  <2>1. client[c].ref + -1 = client[c].ref - 1
    BY <1>2, FieldTypes
  <2> QED
    BY <1>3, <1>4, <1>12, <1>13, <2>1 DEF Loses, Touches
<1>16. \A d \in Structs : StructStep(d)
  BY <1>3, <1>4, <1>10, <1>14, <1>15, LoseAll
<1>17. \A d \in Structs : SameFields(d) /\ client'[d].sending = client[d].sending
  BY <1>4 DEF Touches, SameFields
<1>18. Untold
  <2>1. ASSUME NEW r \in {"event", "loop"}, pc[r] = "tell" PROVE UNCHANGED <<pc[r], hold[r]>>
    <3>1. r \in Threads \ {t}
      BY <1>1, <2>1, ThreadNames
    <3> QED
      BY <1>6, <1>7, <3>1
  <2> QED
    BY <2>1 DEF Untold
<1>19. FdsOwned' /\ Accepted' /\ DropsTold' /\ Order'
  BY <1>1, <1>2, <1>10, <1>17, <1>18, Elsewhere DEF Receiving, kernel, admission,
     stratifier
<1>20. Serialised'
  BY <1>1, <1>2 DEF Serialised
<1> QED
  BY <1>8, <1>9, <1>11, <1>16, <1>19, <1>20, Together

\* The sender, done with the message it is at: the order of the others.
LEMMA OrderFinished ==
    ASSUME TypeOK, Control, Order, Serialised, at <= Len(sends), Finished, UNCHANGED <<making, sent>>,
           pc'["sender"] = "idle", \A d \in Structs : SameFields(d),
           NEW c \in Structs, c = sends[at].c, Touches(c, -1), client'[c].sending = 0,
           client[c].where = "dead" \/ pc["sender"] = "write"
    PROVE  Order'
<1> DEFINE len == Len(sends)
<1>1. /\ at \in 1 .. len /\ len \in Nat /\ DOMAIN sends = 1 .. len
      /\ \A i \in DOMAIN sends : sends[i].c \in Structs
  BY MessageTypes DEF TypeOK
<1>2. /\ DOMAIN sends' = 1 .. len - 1 /\ at' = at
      /\ \A i \in 1 .. len - 1 : sends'[i] = IF i < at THEN sends[i] ELSE sends[i + 1]
  BY MessageFinished DEF Finished
<1>3. \A d \in Structs \ {c} : client'[d] = client[d]
  BY DEF Touches
<1>4. Passed'
  <2>1. ASSUME NEW j \in 1 .. at - 1
        PROVE  client'[sends'[j].c].where = "dead" \/ client'[sends'[j].c].sending # 0
    <3>1. sends'[j] = sends[j] /\ sends[j].c \in Structs
      BY <1>1, <1>2
    <3>2. client[sends[j].c].where = "dead" \/ client[sends[j].c].sending # 0
      BY DEF Order, Passed
    <3>3. sends[j].c = c => client[c].where = "dead"
      BY DEF Order, OldestFirst
    <3> QED
      BY <1>1, <1>3, <3>1, <3>2, <3>3 DEF SameFields
  <2> QED
    BY <1>2, <2>1 DEF Passed
<1>5. HalfWritten'
  <2>1. ASSUME NEW d \in Structs, client'[d].where # "dead", client'[d].sending # 0
        PROVE  \E k \in DOMAIN sends' : Oldest(d, k)' /\ sends'[k].n = client'[d].sending
    <3>1. d # c /\ client'[d] = client[d]
      BY <1>3, <2>1
    <3>2. PICK k \in DOMAIN sends : Oldest(d, k) /\ sends[k].n = client[d].sending
      BY <2>1, <3>1 DEF Order, HalfWritten
    <3>3. k # at
      BY <3>1, <3>2 DEF Oldest
    <3>4. PICK m \in 1 .. len - 1 : m = IF k < at THEN k ELSE k - 1
      BY <1>1, <3>3
    <3>5. sends'[m] = sends[k]
      BY <1>1, <1>2, <3>3, <3>4
    <3>6. ASSUME NEW i \in 1 .. m - 1 PROVE sends'[i].c # d
      <4>1. i \in 1 .. len - 1 /\ (i < at => i \in 1 .. k - 1) /\ (~ i < at => i + 1 \in 1 .. k - 1)
        BY <1>1, <3>3, <3>4
      <4> QED
        BY <1>2, <3>2, <4>1 DEF Oldest
    <3> QED
      BY <1>2, <3>1, <3>2, <3>5, <3>6 DEF Oldest
  <2> QED
    BY <2>1 DEF HalfWritten
<1> QED
  BY <1>4, <1>5 DEF Order, OldestFirst, Writing

\* What a step of the sender leaves to be shown, when it tells nobody.
SenderPlaces == {"idle", "write", "drop", "tell", "cull", "dec"}

LEMMA SenderRight ==
    ASSUME IInv, NEW place \in SenderPlaces, pc' = [pc EXCEPT !["sender"] = place],
           pc["sender"] # "tell",
           fdv' = fdv \/ \E f \in Fds \union {NoFd} : fdv' = [fdv EXCEPT !["sender"] = f],
           client' \in [Structs -> Client], sends' \in Seq(Send), queued' \in Seq(Send),
           at' \in Nat \ {0}, at' <= Len(sends') + 1, place # "idle" => at' <= Len(sends'),
           Serialised', \A c \in Structs : StructStep(c), \A c \in Structs : SameFields(c), Order',
           UNCHANGED <<kernel, senderLeaves>>
    PROVE  StepRight
<1>1. TypeOK /\ Control /\ Heard /\ FdsOwned /\ Accepted /\ DropsTold
  BY DEF IInv
<1>2. UNCHANGED <<open, epoll, client_ids, accept, events, hold, making, sent, known, told>>
  BY DEF kernel, senderLeaves, admission, stratifier
<1>3. "sender" \in Threads /\ place \in Places
  BY ThreadNames DEF Places, SenderPlaces
<1>4. pc' \in [Threads -> Places] /\ pc'["sender"] = place
      /\ \A r \in Threads \ {"sender"} : pc'[r] = pc[r]
  BY <1>1, <1>3, Going DEF Goto
<1>5. UNCHANGED <<pc["receiver"], pc["event"], pc["cmp"], pc["loop"]>>
  BY <1>4, ThreadNames
<1>6. fdv' \in [Threads -> Fds \union {NoFd}] /\ fdv'["receiver"] = fdv["receiver"]
  BY <1>1, ThreadNames DEF TypeOK
<1>7. TypeOK'
  BY <1>1, <1>2, <1>4, <1>6 DEF TypeOK, Places
<1>8. Control'
  BY <1>1, <1>2, <1>4, <1>5, <1>6 DEF Control, SenderPlaces
<1>9. Heard'
  BY <1>2, <1>5, <1>7, HeardSame
<1>10. FdsOwned' /\ Accepted' /\ DropsTold'
  <2>1. ASSUME NEW t \in {"event", "sender", "loop"}, pc[t] = "tell"
        PROVE  pc'[t] = "tell" /\ Subject(t)' = Subject(t)
    BY <1>2, <1>5, <2>1 DEF Subject
  <2> QED
    BY <1>1, <1>2, <1>5, <1>6, <2>1, TableKept
<1> QED
  BY <1>7, <1>8, <1>9, <1>10, Together

\* The sender's own part of Receiving, and of who uses what.
LEMMA SenderAlone ==
    ASSUME TypeOK, NEW place, pc' = [pc EXCEPT !["sender"] = place], UNCHANGED senderLeaves
    PROVE  Receiving /\ \A c : Lookups(c)' = Lookups(c)
<1>1. pc'["receiver"] = pc["receiver"] /\ UNCHANGED <<hold, client_ids>>
  BY ThreadNames DEF TypeOK, senderLeaves, admission
<1> QED
  BY <1>1 DEF Receiving, Lookups

LEMMA SenderCollectStep == ASSUME IInv, SenderCollect PROVE StepRight
<1>1. /\ pc["sender"] = "idle" /\ sends' = sends \o queued /\ queued' = <<>> /\ at' = 1
      /\ UNCHANGED <<kernel, client, pc, fdv, senderLeaves>>
  BY DEF SenderCollect
<1>2. TypeOK /\ Control /\ Serialised /\ Order
  BY DEF IInv
<1>3. UNCHANGED <<making, sent, hold>>
  BY <1>1 DEF senderLeaves
<1>4. /\ Serialised' /\ sends' \in Seq(Send) /\ queued' \in Seq(Send) /\ Len(sends') \in Nat
      /\ \A c \in Structs : InFlight(c)' = InFlight(c)
  BY <1>1, <1>2, <1>3, MessagesCollected
<1>5. pc' = [pc EXCEPT !["sender"] = "idle"] /\ "idle" \in SenderPlaces
  BY <1>1, <1>2, ThreadNames DEF TypeOK, SenderPlaces
<1>6. Receiving /\ \A c : Lookups(c)' = Lookups(c)
  BY <1>1, <1>2, <1>5, SenderAlone
<1>7. \A c \in Structs : SameUsers(c)
  BY <1>4, <1>6 DEF SameUsers
<1>8. \A c \in Structs : StructStep(c)
  BY <1>1, <1>2, <1>6, <1>7, QuietAll
<1>9. \A c \in Structs : SameFields(c)
  BY <1>1 DEF SameFields
<1>10. \A k \in DOMAIN sends : k \in DOMAIN sends' /\ sends'[k] = sends[k]
                               /\ \A i \in 1 .. k - 1 : sends'[i] = sends[i]
  BY <1>1, <1>2, MessageTypes, ConcatProperties, LenProperties
<1>11. HalfWritten'
  BY <1>1, <1>2, <1>10 DEF Order, HalfWritten, Oldest
<1>12. Order'
  BY <1>1, <1>11 DEF Order, OldestFirst, Passed, Writing
<1>13. client' \in [Structs -> Client] /\ at' \in Nat \ {0} /\ at' <= Len(sends') + 1
  BY <1>1, <1>2, <1>4 DEF TypeOK
<1> QED
  BY <1>1, <1>4, <1>5, <1>8, <1>9, <1>12, <1>13, SenderRight

\* It is done with a message, of a client that is dead or that it was writing to.
LEMMA FinishedStep ==
    ASSUME IInv, at <= Len(sends), Finished, pc' = [pc EXCEPT !["sender"] = "idle"],
           pc["sender"] # "tell",
           fdv' = fdv \/ \E f \in Fds \union {NoFd} : fdv' = [fdv EXCEPT !["sender"] = f],
           \/ client' = [client EXCEPT ![sends[at].c].ref = @ - 1, ![sends[at].c].sending = 0]
           \/ client' = [client EXCEPT ![sends[at].c].ref = @ - 1, ![sends[at].c].sending = 0,
                                       ![sends[at].c].blocked = FALSE],
           client[sends[at].c].where = "dead" \/ pc["sender"] = "write",
           UNCHANGED <<kernel, senderLeaves>>
    PROVE  StepRight
<1>1. TypeOK /\ Control /\ Serialised /\ Order /\ UNCHANGED <<making, sent, queued, at>>
  BY DEF IInv, senderLeaves, Finished
<1>2. PICK c \in Structs : c = sends[at].c
  BY <1>1, MessageFinished DEF Send
<1>3. at \in DOMAIN sends
  BY <1>1, MessageTypes DEF TypeOK
<1>4. ~ Free(c) /\ sends[at].n \in InFlight(c)
  BY <1>1, <1>2, <1>3, OnItsWay
<1>5. Touches(c, -1)
  BY <1>1, <1>2, RefDownSent
<1>6. client'[c].sending = 0
  BY <1>1, <1>2 DEF TypeOK, Client
<1>7. /\ Serialised' /\ sends' \in Seq(Send) /\ Len(sends') = Len(sends) - 1
      /\ \A d \in Structs : InFlight(d)' = IF d = c THEN InFlight(d) \ {sends[at].n}
                                           ELSE InFlight(d)
  BY <1>1, <1>2, MessageFinished
<1>8. Receiving /\ \A d : Lookups(d)' = Lookups(d)
  BY <1>1, SenderAlone
<1>9. Loses(c)
  <2>1. client[c].ref + -1 = client[c].ref - 1
    BY <1>1, FieldTypes
  <2> QED
    BY <1>4, <1>5, <1>7, <1>8, <2>1 DEF Loses, Touches
<1>10. \A d \in Structs \ {c} : SameUsers(d)
  BY <1>7, <1>8 DEF SameUsers
<1>11. \A d \in Structs : StructStep(d)
  BY <1>5, <1>8, <1>9, <1>10, LoseAll
<1>12. \A d \in Structs : SameFields(d)
  BY <1>5 DEF Touches, SameFields
<1>13. pc'["sender"] = "idle"
  BY <1>1, ThreadNames DEF TypeOK
<1>14. Order'
  BY <1>1, <1>2, <1>5, <1>6, <1>12, <1>13, OrderFinished
<1>15. queued' \in Seq(Send) /\ at' \in Nat \ {0} /\ at' <= Len(sends') + 1
       /\ client' \in [Structs -> Client] /\ "idle" \in SenderPlaces
  BY <1>1, <1>5, <1>7, MessageTypes DEF TypeOK, Touches, SenderPlaces
<1> QED
  BY <1>7, <1>11, <1>12, <1>14, <1>15, SenderRight

LEMMA SenderDoneStep ==
    ASSUME IInv, SenderDiscard \/ SenderWritten \/ SenderDropped PROVE StepRight
<1>1. TypeOK /\ Control /\ Order
  BY DEF IInv
<1>2. CASE SenderDiscard
  <2>1. pc["sender"] = "idle" /\ at <= Len(sends) /\ client[sends[at].c].where = "dead"
        /\ UNCHANGED <<kernel, pc, fdv, senderLeaves>> /\ Finished
        /\ client' = [client EXCEPT ![sends[at].c].ref = @ - 1, ![sends[at].c].sending = 0]
    BY <1>2 DEF SenderDiscard, Current
  <2>2. pc' = [pc EXCEPT !["sender"] = "idle"]
    BY <1>1, <2>1, ThreadNames DEF TypeOK
  <2> QED
    BY <2>1, <2>2, FinishedStep
<1>3. CASE SenderWritten
  <2>1. pc["sender"] = "write" /\ fdv' = [fdv EXCEPT !["sender"] = NoFd]
        /\ pc' = [pc EXCEPT !["sender"] = "idle"] /\ UNCHANGED <<kernel, senderLeaves>> /\ Finished
        /\ client' = [client EXCEPT ![sends[at].c].ref = @ - 1, ![sends[at].c].sending = 0,
                                    ![sends[at].c].blocked = FALSE]
    BY <1>3 DEF SenderWritten, WriteReturns, Goto
  <2>2. at <= Len(sends)
    BY <1>1, <2>1 DEF Control
  <2> QED
    BY <2>1, <2>2, FinishedStep
<1>4. CASE SenderDropped
  <2>1. pc["sender"] = "dec" /\ UNCHANGED fdv
        /\ pc' = [pc EXCEPT !["sender"] = "idle"] /\ UNCHANGED <<kernel, senderLeaves>> /\ Finished
        /\ client' = [client EXCEPT ![sends[at].c].ref = @ - 1, ![sends[at].c].sending = 0]
    BY <1>4 DEF SenderDropped, Goto
  <2>2. at <= Len(sends) /\ client[sends[at].c].where = "dead"
    BY <1>1, <2>1 DEF Control, Order, Writing
  <2> QED
    BY <2>1, <2>2, FinishedStep
<1> QED
  BY <1>2, <1>3, <1>4

\* The client of the message the sender is at.
LEMMA AtItsMessage ==
    ASSUME IInv, at <= Len(sends)
    PROVE  /\ at \in 1 .. Len(sends) /\ at \in DOMAIN sends /\ Len(sends) \in Nat
           /\ sends[at].c \in Structs /\ sends[at].n \in Serials /\ ~ Free(sends[at].c)
           /\ client[sends[at].c].where \in {"table", "dead"}
           /\ client[sends[at].c].fd \in Fds \union {NoFd}
<1>1. TypeOK /\ AllSound
  BY DEF IInv
<1>2. at \in 1 .. Len(sends) /\ at \in DOMAIN sends /\ Len(sends) \in Nat
  BY <1>1, MessageTypes DEF TypeOK
<1>3. sends[at].c \in Structs /\ ~ Free(sends[at].c) /\ sends[at] \in Send
  BY <1>1, <1>2, OnItsWay, MessageTypes
<1>4. client[sends[at].c].where \in {"table", "dead"}
  BY <1>1, <1>3, Held
<1>5. client[sends[at].c].fd \in Fds \union {NoFd}
  BY <1>1, <1>3, FieldTypes DEF Client
<1> QED
  BY <1>2, <1>3, <1>4, <1>5 DEF Send

\* It goes on without an answer: to the next one, or from one place to another.
LEMMA SenderGoesOn ==
    ASSUME IInv, NEW place \in SenderPlaces, pc' = [pc EXCEPT !["sender"] = place],
           pc["sender"] # "tell", at <= Len(sends), UNCHANGED <<sends, queued>>,
           fdv' = fdv \/ \E f \in Fds \union {NoFd} : fdv' = [fdv EXCEPT !["sender"] = f],
           at' = IF place = "idle" THEN at + 1 ELSE at,
           NEW c \in Structs, c = sends[at].c, UNCHANGED client \/ Touches(c, 0), Order',
           UNCHANGED <<kernel, senderLeaves>>
    PROVE  StepRight
<1>1. TypeOK /\ Control /\ Serialised /\ UNCHANGED <<making, sent>>
  BY DEF IInv, senderLeaves
<1>2. /\ at \in 1 .. Len(sends) /\ Len(sends) \in Nat /\ client[c].where \in {"table", "dead"}
  BY AtItsMessage
<1>3. Receiving /\ \A d : Lookups(d)' = Lookups(d)
  BY <1>1, SenderAlone
<1>4. \A d \in Structs : SameUsers(d)
  BY <1>1, <1>3 DEF SameUsers, InFlight
<1>5. \A d \in Structs : StructStep(d)
  BY <1>1, <1>2, <1>3, <1>4, QuietAll
<1>6. \A d \in Structs : SameFields(d)
  BY DEF Touches, SameFields
<1>7. Serialised'
  BY <1>1 DEF Serialised
<1>8. client' \in [Structs -> Client] /\ sends' \in Seq(Send) /\ queued' \in Seq(Send)
  BY <1>1 DEF TypeOK, Touches
<1>9. at' \in Nat \ {0} /\ at' <= Len(sends') + 1 /\ (place # "idle" => at' <= Len(sends'))
  BY <1>2
<1> QED
  BY <1>5, <1>6, <1>7, <1>8, <1>9, SenderRight

LEMMA SenderSkipStep == ASSUME IInv, SenderSkip PROVE StepRight
<1>1. /\ pc["sender"] = "idle" /\ at <= Len(sends) /\ at' = at + 1
      /\ client[sends[at].c].where = "table" /\ client[sends[at].c].sending \notin {0, sends[at].n}
      /\ UNCHANGED <<kernel, client, queued, sends, pc, fdv, senderLeaves>>
  BY DEF SenderSkip, Current
<1>2. TypeOK /\ Order
  BY DEF IInv
<1>0. PICK c \in Structs : c = sends[at].c
  BY <1>1, AtItsMessage
<1>3. pc' = [pc EXCEPT !["sender"] = "idle"] /\ "idle" \in SenderPlaces
  BY <1>1, <1>2, ThreadNames DEF TypeOK, SenderPlaces
<1>4. Passed'
  <2>1. at \in 1 .. Len(sends)
    BY <1>1, AtItsMessage
  <2>2. \A j \in 1 .. at' - 1 : j \in 1 .. at - 1 \/ j = at
    BY <1>1, <2>1
  <2> QED
    BY <1>1, <1>2, <2>2 DEF Order, Passed
<1>5. Order'
  BY <1>1, <1>2, <1>4 DEF Order, HalfWritten, Oldest, OldestFirst, Writing
<1> QED
  BY <1>0, <1>1, <1>3, <1>5, SenderGoesOn

\* The message that is about to be written is the oldest of its client: had one
\* been passed, that would be the one half written.
LEMMA SenderLoadStep == ASSUME IInv, SenderLoad PROVE StepRight
<1>1. /\ pc["sender"] = "idle" /\ at <= Len(sends)
      /\ client[sends[at].c].where = "table" /\ client[sends[at].c].sending \in {0, sends[at].n}
      /\ client' = [client EXCEPT ![sends[at].c].sending = sends[at].n]
      /\ fdv' = [fdv EXCEPT !["sender"] = client[sends[at].c].fd]
      /\ pc' = [pc EXCEPT !["sender"] = "write"]
      /\ UNCHANGED <<kernel, queued, sends, at, senderLeaves>>
  BY DEF SenderLoad, Current, Goto
<1>2. TypeOK /\ Order /\ Serialised
  BY DEF IInv
<1>3. /\ at \in 1 .. Len(sends) /\ at \in DOMAIN sends /\ Len(sends) \in Nat
      /\ sends[at].c \in Structs /\ sends[at].n \in Serials
      /\ client[sends[at].c].fd \in Fds \union {NoFd}
  BY <1>1, AtItsMessage
<1>4. PICK c \in Structs : c = sends[at].c
  BY <1>3
<1>5. Touches(c, 0) /\ client'[c].sending = sends[at].n
  BY <1>1, <1>2, <1>3, <1>4, SendingSet
<1>6. sends[at].n # 0
  BY <1>3 DEF Serials
<1>7. pc'["sender"] = "write" /\ "write" \in SenderPlaces
  BY <1>1, <1>2, ThreadNames DEF TypeOK, SenderPlaces
<1>8. ASSUME NEW j \in 1 .. at - 1, sends[j].c = c PROVE FALSE
  <2>1. client[c].sending # 0
    BY <1>1, <1>2, <1>4, <1>8 DEF Order, Passed
  <2>2. PICK k \in DOMAIN sends : Oldest(c, k) /\ sends[k].n = sends[at].n
    BY <1>1, <1>2, <1>4, <2>1 DEF Order, HalfWritten
  <2>3. k = at
    BY <1>2, <1>3, <2>2 DEF Serialised
  <2> QED
    BY <1>8, <2>2, <2>3 DEF Oldest
<1>9. OldestFirst'
  BY <1>1, <1>4, <1>8 DEF OldestFirst
<1>10. Passed'
  <2>1. ASSUME NEW j \in 1 .. at - 1
        PROVE  client'[sends[j].c].where = "dead" \/ client'[sends[j].c].sending # 0
    <3>1. sends[j].c \in Structs /\ sends[j].c # c
      BY <1>2, <1>3, <1>8, MessageTypes
    <3> QED
      BY <1>2, <1>5, <3>1 DEF Order, Passed, Touches
  <2> QED
    BY <1>1, <2>1 DEF Passed
<1>11. HalfWritten'
  <2>1. ASSUME NEW d \in Structs, client'[d].where # "dead", client'[d].sending # 0
        PROVE  \E k \in DOMAIN sends : Oldest(d, k) /\ sends[k].n = client'[d].sending
    <3>1. CASE d = c
      BY <1>3, <1>4, <1>5, <1>8, <3>1 DEF Oldest
    <3>2. CASE d # c
      BY <1>2, <1>5, <2>1, <3>2 DEF Touches, Order, HalfWritten
    <3> QED
      BY <3>1, <3>2
  <2> QED
    BY <1>1, <2>1 DEF HalfWritten, Oldest
<1>12. Writing'
  BY <1>1, <1>4, <1>5, <1>7 DEF Writing
<1>13. Order'
  BY <1>9, <1>10, <1>11, <1>12 DEF Order
<1>14. pc["sender"] # "tell" /\ at' = at
       /\ \E f \in Fds \union {NoFd} : fdv' = [fdv EXCEPT !["sender"] = f]
  BY <1>1, <1>3
<1> QED
  BY <1>1, <1>4, <1>5, <1>7, <1>13, <1>14, SenderGoesOn

LEMMA SenderBlockedStep == ASSUME IInv, SenderBlocked PROVE StepRight
<1>1. /\ pc["sender"] = "write" /\ fdv' = [fdv EXCEPT !["sender"] = NoFd]
      /\ pc' = [pc EXCEPT !["sender"] = "idle"] /\ at' = at + 1
      /\ client' = [client EXCEPT ![sends[at].c].blocked = TRUE]
      /\ UNCHANGED <<kernel, queued, sends, senderLeaves>>
  BY DEF SenderBlocked, WriteReturns, Goto
<1>2. TypeOK /\ Control /\ Order
  BY DEF IInv
<1>3. at <= Len(sends)
  BY <1>1, <1>2 DEF Control
<1>4. at \in 1 .. Len(sends) /\ sends[at].c \in Structs /\ sends[at].n \in Serials
  BY <1>3, AtItsMessage
<1>0. PICK c \in Structs : c = sends[at].c
  BY <1>4
<1>5. Touches(c, 0) /\ client'[c].sending = client[c].sending
  BY <1>0, <1>1, <1>2, BlockedSet
<1>6. \A d \in Structs : client'[d].where = client[d].where
                         /\ client'[d].sending = client[d].sending
  BY <1>5 DEF Touches, SameFields
<1>7. pc'["sender"] = "idle" /\ "idle" \in SenderPlaces
  BY <1>1, <1>2, ThreadNames DEF TypeOK, SenderPlaces
<1>8. Passed'
  <2>1. client[sends[at].c].where = "dead" \/ client[sends[at].c].sending # 0
    BY <1>1, <1>2, <1>4 DEF Order, Writing, Serials
  <2>2. \A j \in 1 .. at' - 1 : j \in 1 .. at - 1 \/ j = at
    BY <1>1, <1>4
  <2>3. \A j \in 1 .. at' - 1 : client[sends[j].c].where = "dead" \/ client[sends[j].c].sending # 0
    BY <1>2, <2>1, <2>2 DEF Order, Passed
  <2>4. \A j \in 1 .. at' - 1 : sends[j].c \in Structs
    BY <1>1, <1>2, <1>4, MessageTypes
  <2> QED
    BY <1>1, <1>6, <2>3, <2>4 DEF Passed
<1>9. HalfWritten'
  BY <1>1, <1>2, <1>6 DEF Order, HalfWritten, Oldest
<1>10. Order'
  BY <1>7, <1>8, <1>9 DEF Order, OldestFirst, Writing
<1> QED
  BY <1>0, <1>1, <1>3, <1>5, <1>7, <1>10, SenderGoesOn

LEMMA SenderFailedStep == ASSUME IInv, SenderFailed PROVE StepRight
<1>1. /\ pc["sender"] = "write" /\ fdv' = [fdv EXCEPT !["sender"] = NoFd]
      /\ pc' = [pc EXCEPT !["sender"] = "drop"]
      /\ UNCHANGED <<kernel, client, queued, sends, at, senderLeaves>>
  BY DEF SenderFailed, WriteReturns, Goto
<1>2. TypeOK /\ Control /\ Order
  BY DEF IInv
<1>3. at <= Len(sends)
  BY <1>1, <1>2 DEF Control
<1>0. PICK c \in Structs : c = sends[at].c
  BY <1>3, AtItsMessage
<1>4. pc'["sender"] = "drop" /\ "drop" \in SenderPlaces
  BY <1>1, <1>2, ThreadNames DEF TypeOK, SenderPlaces
<1>5. Order'
  BY <1>1, <1>2, <1>4 DEF Order, OldestFirst, Passed, HalfWritten, Oldest, Writing
<1> QED
  BY <1>0, <1>1, <1>3, <1>4, <1>5, SenderGoesOn

-----------------------------------------------------------------------------
(* invalidate_client, by any of the three threads that call it.              *)

Invalidating == {"event", "sender", "loop"}

\* The client that a thread invalidates.
LEMMA SubjectHeld ==
    ASSUME IInv, NEW t \in Invalidating, pc[t] \in {"drop", "tell", "cull"}
    PROVE  /\ Subject(t) \in Structs /\ ~ Free(Subject(t))
           /\ client[Subject(t)].where \in {"table", "dead"} /\ hold["receiver"] # Subject(t)
           /\ client[Subject(t)].id \in Ids /\ client[Subject(t)].id \in 1 .. Announced
<1>1. TypeOK /\ Control /\ AllSound
  BY DEF IInv
<1>2. Subject(t) \in Structs /\ ~ Free(Subject(t))
  <2>1. CASE t = "sender"
    <3>1. at <= Len(sends)
      BY <1>1, <2>1 DEF Control
    <3> QED
      BY <2>1, <3>1, AtItsMessage DEF Subject
  <2>2. CASE t \in {"event", "loop"}
    BY <1>1, <2>2, LookedUp DEF Subject
  <2> QED
    BY <2>1, <2>2 DEF Invalidating
<1>3. client[Subject(t)].where \in {"table", "dead"} /\ hold["receiver"] # Subject(t)
      /\ client[Subject(t)].id \in 1 .. Announced
  BY <1>1, <1>2, Held
<1>4. client[Subject(t)].id \in Ids \union {0} /\ Announced \in Int
  BY <1>1, <1>2, FieldTypes DEF Client
<1> QED
  BY <1>2, <1>3, <1>4

\* What is closed was not heard of.
LEMMA ClosedHeard ==
    ASSUME IInv, NEW fds, UNCHANGED kernel \/ Closed(fds),
           UNCHANGED <<events, known, pc["receiver"], client_ids>>
    PROVE  /\ open' \in [Fds -> Ids \union {0}]
           /\ epoll' \in [Fds -> [id : Ids \union {0}, armed : BOOLEAN]]
           /\ \A f \in Fds : open'[f] # 0 => open'[f] = open[f] /\ (Closed(fds) => f \notin fds)
           /\ Heard'
<1>1. TypeOK /\ Heard /\ Control
  BY DEF IInv
<1>2. Announced' = Announced /\ Announced \in Nat
  BY <1>1, FieldTypes DEF Announced, Control
<1>3. CASE UNCHANGED kernel /\ ~ Closed(fds)
  BY <1>1, <1>2, <1>3 DEF kernel, TypeOK, Heard
<1>4. CASE Closed(fds)
  <2>1. /\ open' \in [Fds -> Ids \union {0}]
        /\ epoll' \in [Fds -> [id : Ids \union {0}, armed : BOOLEAN]]
        /\ \A f \in Fds : open'[f] # 0 => open'[f] = open[f] /\ f \notin fds
        /\ \A f \in Fds : epoll'[f] = epoll[f] \/ epoll'[f] = [id |-> 0, armed |-> FALSE]
    BY <1>1, <1>4 DEF Closed, TypeOK
  <2> QED
    BY <1>1, <1>2, <2>1 DEF Heard
<1> QED
  BY <1>3, <1>4

\* What is left to be shown of a step of invalidate_client.
LEMMA InvalidateRight ==
    ASSUME IInv, NEW t \in Invalidating, pc[t] \in {"drop", "tell", "cull"},
           NEW place \in {"tell", "cull", "dec"}, Goto(t, place),
           UNCHANGED <<admission, events, queued, sends, hold, fdv, making, at, sent, known>>,
           told' \in SUBSET Ids, client' \in [Structs -> Client],
           NEW fds, UNCHANGED kernel \/ Closed(fds),
           \A c \in Structs : StructStep(c),
           \A c \in Clients : \/ c \in Clients' /\ SameFields(c)
                              \/ Closed(fds) /\ client[c].fd \in fds,
           DropsTold',
           \A i \in DOMAIN sends :
              LET c == sends[i].c
              IN  \/ client'[c].where = "dead"
                  \/ client'[c].where = client[c].where /\ client'[c].sending = client[c].sending,
           \A c \in Structs : client'[c].where # "dead" /\ client'[c].sending # 0 =>
              client[c].where # "dead" /\ client'[c].sending = client[c].sending,
           t = "sender" => client'[sends[at].c].where = "dead"
    PROVE  StepRight
<1>1. TypeOK /\ Control /\ Serialised /\ FdsOwned /\ Accepted /\ Order
  BY DEF IInv
<1>2. UNCHANGED <<client_ids, accept>>
  BY DEF admission
<1>3. t \in Threads /\ place \in Places
  BY ThreadNames DEF Invalidating, Places
<1>4. pc' \in [Threads -> Places] /\ pc'[t] = place /\ \A r \in Threads \ {t} : pc'[r] = pc[r]
  BY <1>1, <1>3, Going
<1>5. UNCHANGED <<pc["receiver"], pc["cmp"]>>
  BY <1>4, ThreadNames DEF Invalidating
<1>6. /\ open' \in [Fds -> Ids \union {0}]
      /\ epoll' \in [Fds -> [id : Ids \union {0}, armed : BOOLEAN]]
      /\ \A f \in Fds : open'[f] # 0 => open'[f] = open[f] /\ (Closed(fds) => f \notin fds)
      /\ Heard'
  BY <1>2, <1>5, ClosedHeard
<1>7. TypeOK'
  BY <1>1, <1>2, <1>4, <1>6 DEF TypeOK, Places
<1>8. Control'
  <2>1. t \in Invalidating /\ \A r \in Invalidating \ {t} : pc'[r] = pc[r]
    BY <1>4, ThreadNames DEF Invalidating
  <2> QED
    BY <1>1, <1>2, <1>4, <1>5, <2>1 DEF Control, Invalidating
<1>9. Serialised'
  BY <1>1 DEF Serialised
<1>10. FdsOwned'
  <2>1. ASSUME NEW f \in Fds, open'[f] # 0, fdv["receiver"] # f
        PROVE  \E c \in Clients' : client'[c].fd = f /\ client'[c].id = open'[f]
    <3>1. open'[f] = open[f] /\ (Closed(fds) => f \notin fds)
      BY <1>6, <2>1
    <3>2. PICK c \in Clients : client[c].fd = f /\ client[c].id = open[f]
      BY <1>1, <2>1, <3>1 DEF FdsOwned
    <3> QED
      BY <3>1, <3>2 DEF SameFields
  <2> QED
    BY <2>1 DEF FdsOwned
<1>11. Accepted'
  <2>1. pc["receiver"] # "idle" => fdv["receiver"] \in Fds
    BY <1>1 DEF Control
  <2> QED
    BY <1>1, <1>2, <1>5, <1>6, <2>1 DEF Accepted
<1>12. Order'
  <2>1. CASE t = "sender"
    BY <1>1, <1>4, <2>1, OrderKept
  <2>2. CASE t # "sender"
    <3>1. UNCHANGED pc["sender"]
      BY <1>4, <2>2, ThreadNames
    <3> QED
      BY <1>1, <3>1, OrderKept
  <2> QED
    BY <2>1, <2>2
<1> QED
  BY <1>6, <1>7, <1>8, <1>9, <1>10, <1>11, <1>12, Together

\* Who is telling the stratifier goes on telling it, while t does something else.
LEMMA StillTelling ==
    ASSUME TypeOK, NEW t \in Invalidating, NEW place \in Places, Goto(t, place),
           UNCHANGED <<sends, hold, at>>
    PROVE  /\ pc'[t] = place /\ Subject(t)' = Subject(t) /\ UNCHANGED pc["receiver"]
           /\ \A r \in Invalidating : pc[r] = "tell" /\ r # t =>
                 pc'[r] = "tell" /\ Subject(r)' = Subject(r)
<1>1. t \in Threads /\ Invalidating \subseteq Threads
  BY ThreadNames DEF Invalidating
<1>2. pc'[t] = place /\ \A r \in Threads \ {t} : pc'[r] = pc[r]
  BY <1>1, Going
<1> QED
  BY <1>1, <1>2, ThreadNames DEF Subject, Invalidating

\* A client's record when it is dropped.
LEMMA RecordDropped ==
    ASSUME NEW r \in Client, NEW k \in Int
    PROVE  LET d == [r EXCEPT !.where = "dead", !.fd = NoFd, !.ref = k]
           IN  d \in Client /\ d.where = "dead" /\ d.id = r.id /\ d.ref = k
BY DEF Client

LEMMA StructDropped ==
    ASSUME TypeOK, NEW c \in Structs,
           client' = [client EXCEPT ![c].where = "dead", ![c].fd = NoFd, ![c].ref = @ - 1]
    PROVE  /\ client' \in [Structs -> Client] /\ client'[c].where = "dead"
           /\ client'[c].id = client[c].id /\ client'[c].ref = client[c].ref - 1
           /\ \A d \in Structs \ {c} : client'[d] = client[d]
<1> DEFINE q == [client[c] EXCEPT !.where = "dead", !.fd = NoFd, !.ref = client[c].ref - 1]
<1>1. client \in [Structs -> Client] /\ client[c] \in Client
  BY FieldTypes
<1>2. client' = [client EXCEPT ![c] = q]
  BY <1>1
<1>3. q \in Client /\ q.where = "dead" /\ q.id = client[c].id /\ q.ref = client[c].ref - 1
  <2>1. client[c].ref - 1 \in Int
    BY <1>1, FieldTypes
  <2> QED
    BY <1>1, <2>1, RecordDropped
<1> HIDE DEF q
<1> QED
  BY <1>1, <1>2, <1>3

LEMMA DropStep == ASSUME IInv, NEW t \in Invalidating, Drop(t) PROVE StepRight
<1>1. /\ pc[t] = "drop" /\ Goto(t, "tell")
      /\ UNCHANGED <<admission, events, queued, sends, hold, fdv, making, at, sent, stratifier>>
  BY DEF Drop
<1>2. TypeOK /\ DropsTold
  BY DEF IInv
<1>3. PICK c \in Structs : c = Subject(t) /\ hold["receiver"] # c
  BY <1>1, SubjectHeld
<1>4. "tell" \in Places
  BY DEF Places
<1>5. /\ pc'[t] = "tell" /\ Subject(t)' = c /\ UNCHANGED pc["receiver"]
      /\ \A r \in Invalidating : pc[r] = "tell" /\ r # t =>
            pc'[r] = "tell" /\ Subject(r)' = Subject(r)
  BY <1>1, <1>2, <1>3, <1>4, StillTelling
<1>6. Receiving
  BY <1>1, <1>5 DEF Receiving, admission
<1>7. \A d \in Structs : SameUsers(d)
  BY <1>1 DEF SameUsers, Lookups, InFlight
<1>8. \A i \in DOMAIN sends : sends[i].c \in Structs
  BY <1>2, MessageTypes
<1>9. t = "sender" => c = sends[at].c
  BY <1>3 DEF Subject
<1>10. told' \in SUBSET Ids /\ UNCHANGED <<known, told>>
  BY <1>1, <1>2 DEF TypeOK, stratifier
<1>11. \A d \in Dead : client[d].id \in told
                       \/ \E r \in Invalidating : pc'[r] = "tell" /\ Subject(r)' = d
  BY <1>1, <1>2, <1>5 DEF DropsTold, Invalidating
<1>12. CASE client[c].where = "dead" /\ UNCHANGED <<client, kernel>>
  <2>1. \A d \in Structs : StructStep(d)
    BY <1>2, <1>6, <1>7, <1>12, QuietAll
  <2>2. DropsTold'
    BY <1>10, <1>11, <1>12 DEF DropsTold, Dead, Invalidating
  <2>3. \A d \in Clients : d \in Clients' /\ SameFields(d)
    BY <1>12 DEF Clients, SameFields
  <2>4. client' \in [Structs -> Client]
    BY <1>2, <1>12 DEF TypeOK
  <2>5. \A d \in Structs : client'[d] = client[d]
    BY <1>12
  <2> QED
    BY <1>1, <1>8, <1>9, <1>10, <1>12, <2>1, <2>2, <2>3, <2>4, <2>5, InvalidateRight
<1>13. CASE /\ client[c].where = "table" /\ Closed({client[c].fd})
            /\ client' = [client EXCEPT ![c].where = "dead", ![c].fd = NoFd, ![c].ref = @ - 1]
  <2>1. /\ client' \in [Structs -> Client] /\ client'[c].where = "dead"
        /\ client'[c].id = client[c].id /\ client'[c].ref = client[c].ref - 1
        /\ \A d \in Structs \ {c} : client'[d] = client[d]
    BY <1>2, <1>13, StructDropped
  <2>2. Retires(c)
    BY <1>3, <1>7, <1>13, <2>1 DEF Retires
  <2>3. ASSUME NEW d \in Structs \ {c} PROVE Quiet(d)
    BY <1>7, <2>1 DEF Quiet, SameFields
  <2>4. \A d \in Structs : StructStep(d)
    BY <1>6, <2>2, <2>3 DEF StructStep, Apart, Receiving
  <2>5. DropsTold'
    <3>1. \A d \in Dead' : d = c \/ (d \in Dead /\ client'[d].id = client[d].id)
      BY <2>1 DEF Dead
    <3> QED
      BY <1>5, <1>10, <1>11, <3>1 DEF DropsTold, Invalidating
  <2>6. \A d \in Clients : (d \in Clients' /\ SameFields(d)) \/ client[d].fd \in {client[c].fd}
    BY <2>1 DEF Clients, SameFields
  <2> QED
    BY <1>1, <1>8, <1>9, <1>10, <1>13, <2>1, <2>4, <2>5, <2>6, InvalidateRight
<1> QED
  BY <1>3, <1>12, <1>13 DEF Drop

LEMMA TellStep == ASSUME IInv, NEW t \in Invalidating, Tell(t) PROVE StepRight
<1>1. /\ pc[t] = "tell" /\ Goto(t, "cull") /\ told' = told \union {client[Subject(t)].id}
      /\ UNCHANGED <<kernel, client, admission, events, queued, sends, hold, fdv, making, at,
                     sent, known>>
  BY DEF Tell
<1>2. TypeOK /\ Control /\ DropsTold /\ Order
  BY DEF IInv
<1>3. PICK c \in Structs : c = Subject(t) /\ client[c].id \in Ids
  BY <1>1, SubjectHeld
<1>4. "cull" \in Places
  BY DEF Places
<1>5. /\ UNCHANGED pc["receiver"]
      /\ \A r \in Invalidating : pc[r] = "tell" /\ r # t =>
            pc'[r] = "tell" /\ Subject(r)' = Subject(r)
  BY <1>1, <1>2, <1>4, StillTelling
<1>6. Receiving
  BY <1>1, <1>5 DEF Receiving, admission
<1>7. \A d \in Structs : SameUsers(d)
  BY <1>1 DEF SameUsers, Lookups, InFlight
<1>8. \A d \in Structs : StructStep(d)
  BY <1>1, <1>2, <1>6, <1>7, QuietAll
<1>9. DropsTold'
  <2>1. \A d \in Dead : \/ client[d].id \in told'
                        \/ \E r \in Invalidating : pc'[r] = "tell" /\ Subject(r)' = d
    BY <1>1, <1>2, <1>5 DEF DropsTold, Invalidating
  <2> QED
    BY <1>1, <2>1 DEF DropsTold, Dead, Invalidating
<1>10. told' \in SUBSET Ids /\ client' \in [Structs -> Client]
  BY <1>1, <1>2, <1>3 DEF TypeOK
<1>11. \A d \in Clients : d \in Clients' /\ SameFields(d)
  BY <1>1 DEF Clients, SameFields
<1>12. t = "sender" => client'[sends[at].c].where = "dead"
  BY <1>1, <1>2 DEF Order, Writing
<1>13. \A d \in Structs : client'[d] = client[d]
  BY <1>1
<1>14. \A i \in DOMAIN sends : sends[i].c \in Structs
  BY <1>2, MessageTypes
<1> QED
  BY <1>1, <1>8, <1>9, <1>10, <1>11, <1>12, <1>13, <1>14, InvalidateRight

LEMMA CullStep == ASSUME IInv, NEW t \in Invalidating, Cull(t) PROVE StepRight
<1> DEFINE unused == {d \in Dead : client[d].ref = 0}
<1>1. /\ pc[t] = "cull" /\ Goto(t, "dec") /\ Closed({client[d].fd : d \in unused})
      /\ client' = [d \in Structs |-> IF d \in unused THEN Recycled ELSE client[d]]
      /\ UNCHANGED <<admission, events, queued, sends, hold, fdv, making, at, sent, stratifier>>
  BY DEF Cull
<1>2. TypeOK /\ Control /\ AllSound /\ DropsTold /\ Order
  BY DEF IInv
<1>3. "dec" \in Places
  BY DEF Places
<1>4. /\ UNCHANGED pc["receiver"]
      /\ \A r \in Invalidating : pc[r] = "tell" /\ r # t =>
            pc'[r] = "tell" /\ Subject(r)' = Subject(r)
  BY <1>1, <1>2, <1>3, StillTelling
<1>5. Receiving
  BY <1>1, <1>4 DEF Receiving, admission
<1>6. \A d \in Structs : SameUsers(d)
  BY <1>1 DEF SameUsers, Lookups, InFlight
<1>7. Recycled \in Client /\ Recycled.where = "recycled" /\ Recycled.sending = 0
  <2>1. FALSE \in BOOLEAN /\ 0 \in Int
    OBVIOUS
  <2> QED
    BY <2>1 DEF Recycled, Client
<1>8. /\ client' \in [Structs -> Client]
      /\ \A d \in Structs : \/ d \in unused /\ client'[d] = Recycled
                            \/ d \notin unused /\ client'[d] = client[d]
  BY <1>1, <1>2, <1>7 DEF TypeOK
<1>9. ASSUME NEW d \in Structs PROVE StructStep(d)
  <2>1. CASE d \in unused
    BY <1>5, <1>6, <1>8, <2>1 DEF StructStep, Reclaimed, Dead, Apart, Receiving
  <2>2. CASE d \notin unused
    BY <1>5, <1>6, <1>8, <2>2 DEF StructStep, Quiet, SameFields, Apart, Receiving
  <2> QED
    BY <2>1, <2>2
<1>10. \A i \in DOMAIN sends : sends[i].c \in Structs /\ sends[i].c \notin unused
  <2>1. ASSUME NEW i \in DOMAIN sends PROVE sends[i].c \in Structs /\ sends[i].c \notin unused
    <3>1. sends[i].c \in Structs /\ ~ Free(sends[i].c)
      BY <1>2, OnItsWay
    <3>2. client[sends[i].c].ref \in Nat \ {0}
      BY <1>2, <3>1, Held
    <3> QED
      BY <3>1, <3>2
  <2> QED
    BY <2>1
<1>11. \A i \in DOMAIN sends : sends[i].c \in Structs /\ client'[sends[i].c] = client[sends[i].c]
  BY <1>8, <1>10
<1>12. t = "sender" => client'[sends[at].c].where = "dead"
  <2>1. ASSUME t = "sender" PROVE client'[sends[at].c].where = "dead"
    <3>1. at <= Len(sends) /\ client[sends[at].c].where = "dead"
      BY <1>1, <1>2, <2>1 DEF Control, Order, Writing
    <3>2. at \in DOMAIN sends
      BY <3>1, AtItsMessage
    <3> QED
      BY <1>11, <3>1, <3>2
  <2> QED
    BY <2>1
<1>13. told' \in SUBSET Ids /\ UNCHANGED <<known, told>>
  BY <1>1, <1>2 DEF TypeOK, stratifier
<1>14. \A d \in Clients : d \in Clients' /\ SameFields(d)
  BY <1>8 DEF Clients, Dead, SameFields
<1>15. DropsTold'
  <2>1. \A d \in Dead' : d \in Dead /\ client'[d] = client[d]
    BY <1>7, <1>8 DEF Dead
  <2>2. \A d \in Dead : \/ client[d].id \in told
                        \/ \E r \in Invalidating : pc'[r] = "tell" /\ Subject(r)' = d
    BY <1>1, <1>2, <1>4 DEF DropsTold, Invalidating
  <2> QED
    BY <1>13, <2>1, <2>2 DEF DropsTold, Invalidating
<1>16. \A d \in Structs : client'[d].where # "dead" /\ client'[d].sending # 0 =>
                            client[d].where # "dead" /\ client'[d].sending = client[d].sending
  BY <1>7, <1>8
<1> HIDE DEF unused
<1> QED
  BY <1>1, <1>8, <1>9, <1>11, <1>12, <1>13, <1>14, <1>15, <1>16, InvalidateRight

-----------------------------------------------------------------------------
(* accept_client.                                                            *)

\* What is left to be shown of its steps on struct c.
LEMMA ReceiverRight ==
    ASSUME IInv, NEW c \in Structs, NEW place \in {"idle", "add", "arm"}, Goto("receiver", place),
           UNCHANGED <<accept, events, queued, sends, making, at, sent, known, told>>,
           hold' \in [Threads -> Structs \union {NoStruct}],
           \A r \in Threads \ {"receiver"} : hold'[r] = hold[r],
           hold["receiver"] \in Structs => hold["receiver"] = c,
           hold'["receiver"] \in Structs => hold'["receiver"] = c,
           hold'["receiver"] \in Structs <=> place # "idle",
           fdv' \in [Threads -> Fds \union {NoFd}],
           fdv'["receiver"] \in Fds <=> place # "idle",
           client' \in [Structs -> Client], \A d \in Structs \ {c} : client'[d] = client[d],
           client_ids' \in Ids \union {0}, place = "add" => client_ids' < MaxId,
           place = "arm" => client_ids' # 0,
           open' \in [Fds -> Ids \union {0}],
           epoll' \in [Fds -> [id : Ids \union {0}, armed : BOOLEAN]],
           Announced <= Announced', Free(c),
           SameUsers(c) => Recruited(c) \/ Enters(c) \/ Armed(c),
           client[c].where # "dead", client'[c].where # "dead",
           client'[c].sending = client[c].sending,
           Heard', FdsOwned', Accepted'
    PROVE  StepRight
<1>1. TypeOK /\ Control /\ Serialised /\ DropsTold /\ Order
  BY DEF IInv
<1>2. "receiver" \in Threads /\ place \in Places /\ Invalidating \subseteq Threads \ {"receiver"}
  BY ThreadNames DEF Places, Invalidating
<1>3. pc' \in [Threads -> Places] /\ pc'["receiver"] = place
      /\ \A r \in Threads \ {"receiver"} : pc'[r] = pc[r]
  BY <1>1, <1>2, Going
<1>4. TypeOK'
  BY <1>1, <1>3 DEF TypeOK, Places
<1>5. UNCHANGED <<pc["cmp"], pc["event"], pc["sender"], pc["loop"], hold["event"], hold["loop"]>>
  BY <1>3, ThreadNames
<1>6. Control'
  BY <1>1, <1>3, <1>5 DEF Control
<1>7. Serialised'
  BY <1>1 DEF Serialised
<1>8. \A d : Lookups(d)' = Lookups(d) /\ InFlight(d)' = InFlight(d)
  BY <1>5 DEF Lookups, InFlight
<1>9. ASSUME NEW d \in Structs PROVE StructStep(d)
  <2>1. CASE d = c
    BY <1>8, <2>1 DEF StructStep, SameUsers
  <2>2. CASE d # c
    <3>1. Quiet(d)
      BY <1>8, <2>2 DEF Quiet, SameUsers, SameFields
    <3>2. Apart(d)
      BY <2>2 DEF Apart
    <3> QED
      BY <3>1, <3>2 DEF StructStep
  <2> QED
    BY <2>1, <2>2
<1>10. DropsTold'
  <2>1. \A d \in Dead' : d \in Dead /\ client'[d] = client[d]
    BY DEF Dead
  <2>2. \A r \in Invalidating : pc'[r] = pc[r] /\ Subject(r)' = Subject(r)
    BY <1>2, <1>3 DEF Subject
  <2> QED
    BY <1>1, <2>1, <2>2 DEF DropsTold, Invalidating
<1>11. Order'
  <2>1. \A i \in DOMAIN sends : sends[i].c \in Structs \ {c}
    BY <1>1, OnItsWay
  <2>2. \A d \in Structs : client'[d].where # "dead" /\ client'[d].sending # 0 =>
                             client[d].where # "dead" /\ client'[d].sending = client[d].sending
    OBVIOUS
  <2> QED
    BY <1>1, <1>5, <2>1, <2>2, OrderKept
<1> QED
  BY <1>4, <1>6, <1>7, <1>9, <1>10, <1>11, Together

\* A struct's record in accept_client's hands.
LEMMA RecordRecruited ==
    ASSUME NEW r \in Client
    PROVE  LET d == [r EXCEPT !.where = "new"]
           IN  d \in Client /\ d.where = "new" /\ d.sending = r.sending
BY DEF Client

LEMMA RecordAdded ==
    ASSUME NEW r \in Client, NEW id \in Ids
    PROVE  LET d == [r EXCEPT !.where = "table", !.id = id]
           IN  /\ d \in Client /\ d.where = "table" /\ d.id = id /\ d.ref = r.ref
               /\ d.fd = r.fd /\ d.sending = r.sending
BY DEF Client

LEMMA RecordArmed ==
    ASSUME NEW r \in Client, NEW k \in Int, NEW f \in Fds
    PROVE  LET d == [r EXCEPT !.ref = k, !.fd = f]
           IN  /\ d \in Client /\ d.where = r.where /\ d.id = r.id /\ d.ref = k /\ d.fd = f
               /\ d.sending = r.sending
BY DEF Client

LEMMA AcceptStep == ASSUME IInv, Accept PROVE StepRight
<1>1. /\ pc["receiver"] = "idle" /\ client_ids < MaxId /\ Recruits # {}
      /\ client' = [client EXCEPT ![Recruit].where = "new"]
      /\ hold' = [hold EXCEPT !["receiver"] = Recruit] /\ Goto("receiver", "add")
      /\ UNCHANGED <<epoll, admission, events, queued, sends, making, at, sent, stratifier>>
  BY DEF Accept
<1>2. PICK f \in Fds : /\ open' = [open EXCEPT ![f] = client_ids + 1]
                       /\ fdv' = [fdv EXCEPT !["receiver"] = f]
  BY DEF Accept
<1>3. TypeOK /\ Control /\ AllSound /\ Heard /\ FdsOwned
  BY DEF IInv
<1>4. PICK c \in Structs : c = Recruit /\ client[c].where = "recycled"
  BY <1>1 DEF Recruit, Recruits
<1>5. client[c] = Recycled /\ Free(c)
  BY <1>3, <1>4 DEF AllSound, Sound
<1>6. client' = [client EXCEPT ![c] = [client[c] EXCEPT !.where = "new"]]
  BY <1>1, <1>3, <1>4 DEF TypeOK
<1>7. [client[c] EXCEPT !.where = "new"] \in Client /\ client \in [Structs -> Client]
      /\ [client[c] EXCEPT !.where = "new"].where = "new"
      /\ [client[c] EXCEPT !.where = "new"].sending = client[c].sending
  BY <1>3, RecordRecruited, FieldTypes
<1>8. /\ client' \in [Structs -> Client] /\ \A d \in Structs \ {c} : client'[d] = client[d]
      /\ client'[c] = [client[c] EXCEPT !.where = "new"] /\ client'[c].where = "new"
      /\ client'[c].sending = client[c].sending
  BY <1>6, <1>7
<1>9. /\ pc'["receiver"] = "add" /\ "receiver" \in Threads
      /\ hold' \in [Threads -> Structs \union {NoStruct}] /\ hold'["receiver"] = c
      /\ \A r \in Threads \ {"receiver"} : hold'[r] = hold[r]
      /\ fdv' \in [Threads -> Fds \union {NoFd}] /\ fdv'["receiver"] = f
  BY <1>1, <1>2, <1>3, <1>4, ThreadNames DEF TypeOK, Goto
<1>10. /\ UNCHANGED <<client_ids, accept, known, told, epoll>>
       /\ hold["receiver"] \notin Structs /\ fdv["receiver"] \notin Fds
  BY <1>1, <1>3 DEF Control, admission, stratifier
<1>11. client_ids + 1 \in Ids
  BY <1>1, <1>3, FieldTypes, ConnectorAssumption DEF Ids
<1>12. open' \in [Fds -> Ids \union {0}] /\ open'[f] = client_ids + 1
       /\ \A g \in Fds \ {f} : open'[g] = open[g]
  BY <1>2, <1>3, <1>11 DEF TypeOK
<1>13. Announced' = Announced /\ Announced \in Int
  BY <1>1, <1>3, <1>9, <1>10, FieldTypes DEF Announced
<1>14. Heard'
  BY <1>1, <1>3, <1>10, <1>13 DEF Heard
<1>15. FdsOwned'
  <2>1. ASSUME NEW g \in Fds, open'[g] # 0, g # f
        PROVE  \E d \in Clients' : client'[d].fd = g /\ client'[d].id = open'[g]
    <3>1. PICK d \in Clients : client[d].fd = g /\ client[d].id = open[g]
      BY <1>3, <1>10, <1>12, <2>1 DEF FdsOwned
    <3>2. d \in Structs \ {c} /\ d \in Clients'
      BY <1>4, <1>8, <3>1 DEF Clients
    <3> QED
      BY <1>8, <1>12, <2>1, <3>1, <3>2
  <2> QED
    BY <1>9, <2>1 DEF FdsOwned
<1>16. Accepted'
  BY <1>9, <1>10, <1>12 DEF Accepted
<1>17. SameUsers(c) => Recruited(c)
  BY <1>4, <1>8, <1>9 DEF Recruited
<1>18. client_ids' \in Ids \union {0} /\ client_ids' < MaxId /\ Announced <= Announced'
       /\ epoll' \in [Fds -> [id : Ids \union {0}, armed : BOOLEAN]]
  BY <1>1, <1>3, <1>10, <1>13 DEF TypeOK
<1> QED
  BY <1>1, <1>4, <1>5, <1>8, <1>9, <1>10, <1>12, <1>14, <1>15, <1>16, <1>17, <1>18,
     ReceiverRight

\* The struct that is being accepted.
LEMMA BeingAccepted ==
    ASSUME IInv, pc["receiver"] # "idle"
    PROVE  /\ hold["receiver"] \in Structs /\ Free(hold["receiver"])
           /\ client[hold["receiver"]].where = IF pc["receiver"] = "add" THEN "new" ELSE "table"
           /\ client[hold["receiver"]].ref = 0 /\ client[hold["receiver"]].fd = NoFd
           /\ pc["receiver"] = "arm" => client[hold["receiver"]].id = client_ids
           /\ fdv["receiver"] \in Fds
<1>1. hold["receiver"] \in Structs /\ fdv["receiver"] \in Fds /\ pc["receiver"] \in {"add", "arm"}
  BY DEF IInv, Control
<1>2. client[hold["receiver"]].where \in {"recycled", "new", "table", "dead"}
      /\ Sound(hold["receiver"])
  BY <1>1, FieldTypes DEF IInv, AllSound
<1> QED
  BY <1>1, <1>2 DEF Sound

LEMMA AcceptAddStep == ASSUME IInv, AcceptAdd PROVE StepRight
<1>1. /\ pc["receiver"] = "add" /\ client_ids' = client_ids + 1
      /\ client' = [client EXCEPT ![hold["receiver"]].where = "table",
                                  ![hold["receiver"]].id = client_ids + 1]
      /\ Goto("receiver", "arm")
      /\ UNCHANGED <<kernel, accept, events, queued, sends, hold, fdv, making, at, sent,
                     stratifier>>
  BY DEF AcceptAdd
<1>2. TypeOK /\ Control /\ Heard /\ FdsOwned /\ Accepted
  BY DEF IInv
<1>3. PICK c \in Structs : c = hold["receiver"]
  BY <1>1, BeingAccepted
<1>4. Free(c) /\ client[c].where = "new" /\ client[c].ref = 0 /\ client[c].fd = NoFd
      /\ fdv["receiver"] \in Fds
  BY <1>1, <1>3, BeingAccepted
<1>5. client_ids + 1 \in Ids /\ client_ids \in Nat
  BY <1>1, <1>2, FieldTypes, ConnectorAssumption DEF Control, Ids
<1>0. PICK id \in Ids : id = client_ids + 1
  BY <1>5
<1> DEFINE q == [client[c] EXCEPT !.where = "table", !.id = id]
<1>6. client' = [client EXCEPT ![c] = q]
  BY <1>0, <1>1, <1>2, <1>3 DEF TypeOK
<1>7. q \in Client /\ client \in [Structs -> Client] /\ q.where = "table" /\ q.id = id
      /\ q.ref = client[c].ref /\ q.fd = client[c].fd /\ q.sending = client[c].sending
  <2>1. client[c] \in Client /\ client \in [Structs -> Client]
    BY <1>2, FieldTypes
  <2> QED
    BY <2>1, RecordAdded, Zenon
<1> HIDE DEF q
<1>8. /\ client' \in [Structs -> Client] /\ \A d \in Structs \ {c} : client'[d] = client[d]
      /\ client'[c].where = "table" /\ client'[c].id = client_ids + 1
      /\ client'[c].ref = client[c].ref /\ client'[c].fd = client[c].fd
      /\ client'[c].sending = client[c].sending
  BY <1>0, <1>6, <1>7
<1>9. pc'["receiver"] = "arm"
  BY <1>1, <1>2, ThreadNames DEF TypeOK, Goto
<1>10. UNCHANGED <<accept, known, told, open, epoll, hold, fdv>>
  BY <1>1 DEF kernel, stratifier
<1>11. Announced' = Announced /\ Announced \in Int
  BY <1>1, <1>5, <1>9 DEF Announced
<1>12. Heard'
  BY <1>1, <1>2, <1>10, <1>11 DEF Heard
<1>13. FdsOwned'
  <2>1. ASSUME NEW g \in Fds, open'[g] # 0, g # fdv["receiver"]
        PROVE  \E d \in Clients' : client'[d].fd = g /\ client'[d].id = open'[g]
    <3>1. PICK d \in Clients : client[d].fd = g /\ client[d].id = open[g]
      BY <1>2, <1>10, <2>1 DEF FdsOwned
    <3>2. d \in Structs \ {c} /\ d \in Clients'
      BY <1>4, <1>8, <3>1 DEF Clients
    <3> QED
      BY <1>8, <1>10, <3>1, <3>2
  <2> QED
    BY <1>10, <2>1 DEF FdsOwned
<1>14. Accepted'
  BY <1>1, <1>2, <1>9, <1>10 DEF Accepted
<1>15. SameUsers(c) => Enters(c)
  BY <1>1, <1>4, <1>8, <1>9, <1>10 DEF Enters
<1>16. /\ client_ids' \in Ids \union {0} /\ client_ids' # 0 /\ Announced <= Announced'
       /\ epoll' \in [Fds -> [id : Ids \union {0}, armed : BOOLEAN]]
       /\ open' \in [Fds -> Ids \union {0}] /\ fdv' \in [Threads -> Fds \union {NoFd}]
       /\ hold' \in [Threads -> Structs \union {NoStruct}]
  BY <1>1, <1>2, <1>5, <1>10, <1>11 DEF TypeOK
<1> QED
  BY <1>1, <1>3, <1>4, <1>8, <1>9, <1>10, <1>12, <1>13, <1>14, <1>15, <1>16, ReceiverRight

LEMMA AcceptArmStep == ASSUME IInv, AcceptArm PROVE StepRight
<1>1. /\ pc["receiver"] = "arm"
      /\ client' = [client EXCEPT ![hold["receiver"]].ref = @ + 1,
                                  ![hold["receiver"]].fd = fdv["receiver"]]
      /\ epoll' = [epoll EXCEPT ![fdv["receiver"]] =
                      [id |-> client[hold["receiver"]].id, armed |-> TRUE]]
      /\ hold' = [hold EXCEPT !["receiver"] = NoStruct]
      /\ fdv' = [fdv EXCEPT !["receiver"] = NoFd] /\ Goto("receiver", "idle")
      /\ UNCHANGED <<open, admission, events, queued, sends, making, at, sent, stratifier>>
  BY DEF AcceptArm
<1>2. TypeOK /\ Control /\ Heard /\ FdsOwned /\ Accepted
  BY DEF IInv
<1>3. PICK c \in Structs : c = hold["receiver"]
  BY <1>1, BeingAccepted
<1>4. PICK f \in Fds : f = fdv["receiver"]
  BY <1>1, BeingAccepted
<1>5. Free(c) /\ client[c].where = "table" /\ client[c].ref = 0 /\ client[c].fd = NoFd
      /\ client[c].id = client_ids
  BY <1>1, <1>3, BeingAccepted
<1>6. client_ids \in Ids /\ client_ids \in Nat \ {0}
  BY <1>1, <1>2, FieldTypes DEF Control, TypeOK
<1>0. PICK k \in Int : k = client[c].ref + 1
  BY <1>2, FieldTypes
<1> DEFINE q == [client[c] EXCEPT !.ref = k, !.fd = f]
<1>7. client' = [client EXCEPT ![c] = q]
  BY <1>0, <1>1, <1>2, <1>3, <1>4 DEF TypeOK
<1>8. q \in Client /\ client \in [Structs -> Client] /\ q.where = client[c].where
      /\ q.id = client[c].id /\ q.ref = k /\ q.fd = f
      /\ q.sending = client[c].sending
  <2>1. client[c] \in Client /\ client \in [Structs -> Client]
    BY <1>2, FieldTypes
  <2> QED
    BY <2>1, RecordArmed DEF Client
<1> HIDE DEF q
<1>9. /\ client' \in [Structs -> Client] /\ \A d \in Structs \ {c} : client'[d] = client[d]
      /\ client'[c].where = "table" /\ client'[c].id = client_ids
      /\ client'[c].ref = client[c].ref + 1 /\ client'[c].fd = f
      /\ client'[c].sending = client[c].sending
  BY <1>0, <1>5, <1>7, <1>8
<1>10. /\ pc'["receiver"] = "idle" /\ "receiver" \in Threads
       /\ hold' \in [Threads -> Structs \union {NoStruct}] /\ hold'["receiver"] = NoStruct
       /\ \A r \in Threads \ {"receiver"} : hold'[r] = hold[r]
       /\ fdv' \in [Threads -> Fds \union {NoFd}] /\ fdv'["receiver"] = NoFd
  BY <1>1, <1>2, ThreadNames DEF TypeOK, Goto
<1>11. UNCHANGED <<client_ids, accept, known, told, open>>
  BY <1>1 DEF admission, stratifier
<1>12. Announced' = client_ids /\ Announced = client_ids - 1
  BY <1>1, <1>10, <1>11 DEF Announced
<1>13. /\ epoll' \in [Fds -> [id : Ids \union {0}, armed : BOOLEAN]]
       /\ epoll'[f] = [id |-> client_ids, armed |-> TRUE]
       /\ \A g \in Fds \ {f} : epoll'[g] = epoll[g]
  BY <1>1, <1>2, <1>3, <1>4, <1>5, <1>6 DEF TypeOK
<1>14. Heard'
  <2>1. /\ \A g \in Fds : epoll[g].id \in Int
        /\ \A i \in DOMAIN events : events[i] \in Int
        /\ \A id \in known : id \in Int
    BY <1>2, ConnectorAssumption DEF TypeOK, Ids
  <2>2. /\ \A i \in DOMAIN events : events[i] <= client_ids
        /\ \A id \in known : id <= client_ids
    BY <1>2, <1>6, <1>12, <2>1 DEF Heard
  <2>3. \A g \in Fds : epoll'[g].id <= client_ids /\ (epoll'[g].armed => epoll'[g].id # 0)
    <3>1. ASSUME NEW g \in Fds \ {f}
          PROVE  epoll'[g].id <= client_ids /\ (epoll'[g].armed => epoll'[g].id # 0)
      <4>1. epoll'[g].id <= client_ids
        BY <1>2, <1>6, <1>12, <1>13, <2>1 DEF Heard
      <4> QED
        BY <1>2, <1>13, <4>1 DEF Heard
    <3> QED
      BY <1>6, <1>13, <3>1
  <2> QED
    BY <1>1, <1>11, <1>12, <2>2, <2>3 DEF Heard
<1>15. FdsOwned'
  <2>1. c \in Clients'
    BY <1>9 DEF Clients
  <2>2. open[f] # 0 => open[f] = client_ids
    BY <1>1, <1>2, <1>4 DEF Accepted
  <2>3. ASSUME NEW g \in Fds, open[g] # 0, g # f
        PROVE  \E d \in Clients' : client'[d].fd = g /\ client'[d].id = open[g]
    <3>1. PICK d \in Clients : client[d].fd = g /\ client[d].id = open[g]
      BY <1>2, <1>4, <2>3 DEF FdsOwned
    <3>2. d \in Structs \ {c} /\ d \in Clients'
      BY <1>5, <1>9, <3>1, ConnectorAssumption DEF Clients
    <3> QED
      BY <1>9, <3>1, <3>2
  <2> QED
    BY <1>9, <1>11, <2>1, <2>2, <2>3 DEF FdsOwned
<1>16. Accepted'
  BY <1>10 DEF Accepted
<1>17. SameUsers(c) => Armed(c)
  BY <1>3, <1>5, <1>9, <1>10, <1>11, ConnectorAssumption DEF Armed
<1>18. /\ client_ids' \in Ids \union {0} /\ Announced <= Announced'
       /\ open' \in [Fds -> Ids \union {0}]
  BY <1>2, <1>6, <1>11, <1>12 DEF TypeOK
<1>19. hold'["receiver"] \notin Structs /\ fdv'["receiver"] \notin Fds
  BY <1>10, ConnectorAssumption
<1> QED
  BY <1>1, <1>3, <1>5, <1>9, <1>10, <1>11, <1>13, <1>14, <1>15, <1>16, <1>17, <1>18,
     <1>19,
     ReceiverRight

-----------------------------------------------------------------------------
LEMMA InitInv == Init => IInv
<1> SUFFICES ASSUME Init PROVE IInv
  OBVIOUS
<1>1. Recycled \in Client /\ Recycled.where = "recycled" /\ Recycled.sending = 0
  <2>1. FALSE \in BOOLEAN /\ 0 \in Int
    OBVIOUS
  <2> QED
    BY <2>1 DEF Recycled, Client
<1>2. TypeOK
  <2>1. /\ client \in [Structs -> Client]
        /\ pc \in [Threads -> {"idle", "add", "arm", "load", "read", "parse", "rearm", "mod",
                               "queue", "write", "drop", "tell", "cull", "dec"}]
        /\ hold \in [Threads -> Structs \union {NoStruct}] /\ fdv \in [Threads -> Fds \union {NoFd}]
    BY <1>1 DEF Init
  <2>2. open \in [Fds -> Ids \union {0}] /\ epoll \in [Fds -> [id : Ids \union {0}, armed : BOOLEAN]]
    BY DEF Init
  <2>3. events \in Seq(Ids) /\ queued \in Seq(Send) /\ sends \in Seq(Send) /\ making \in Send \union {NoSend}
    BY DEF Init
  <2>4. client_ids \in Ids \union {0} /\ accept \in BOOLEAN /\ at \in Nat \ {0}
        /\ known \in SUBSET Ids /\ told \in SUBSET Ids /\ sent \in Serials \union {0}
    BY DEF Init
  <2> QED
    BY <2>1, <2>2, <2>3, <2>4 DEF TypeOK
<1>3. /\ \A t \in Threads : pc[t] = "idle" /\ hold[t] = NoStruct /\ fdv[t] = NoFd
      /\ making \notin Send /\ DOMAIN sends = {} /\ DOMAIN queued = {} /\ DOMAIN events = {}
      /\ Len(sends) = 0 /\ at = 1 /\ client_ids = 0 /\ making = NoSend
      /\ \A f \in Fds : open[f] = 0 /\ epoll[f] = [id |-> 0, armed |-> FALSE]
      /\ \A c \in Structs : client[c] = Recycled
      /\ known = {}
  BY SendIsSend DEF Init
<1>4. pc["receiver"] = "idle" /\ pc["event"] = "idle" /\ pc["cmp"] = "idle" /\ pc["sender"] = "idle"
      /\ pc["loop"] = "idle" /\ hold["receiver"] \notin Structs /\ hold["event"] \notin Structs
      /\ hold["loop"] \notin Structs /\ fdv["receiver"] \notin Fds
  BY <1>3, ThreadNames, ConnectorAssumption
<1>5. Control
  BY <1>3, <1>4 DEF Control
<1>6. Serialised
  BY <1>3 DEF Serialised
<1>7. Heard
  BY <1>3, <1>4 DEF Heard, Announced
<1>8. AllSound
  <2>1. ASSUME NEW c \in Structs PROVE Sound(c)
    <3>1. Lookups(c) = {} /\ InFlight(c) = {}
      BY <1>3, <1>4 DEF Lookups, InFlight
    <3> QED
      BY <1>1, <1>3, <1>4, <3>1 DEF Sound, Free
  <2> QED
    BY <2>1 DEF AllSound
<1>9. FdsOwned /\ Accepted /\ DropsTold
  BY <1>1, <1>3, <1>4 DEF FdsOwned, Accepted, DropsTold, Dead
<1>10. Order
  BY <1>1, <1>3, <1>4 DEF Order, OldestFirst, Passed, HalfWritten, Writing
<1> QED
  BY <1>2, <1>5, <1>6, <1>7, <1>8, <1>9, <1>10 DEF IInv

LEMMA NextInv == ASSUME IInv, ~ Passthrough, Next PROVE StepRight
<1>1. CASE receiver
  BY <1>1, AcceptStep, AcceptAddStep, AcceptArmStep, EventStep DEF receiver
<1>2. CASE event
  BY <1>2, EventTakeStep, EventLooks, EventGarbledStep, DropStep, TellStep, CullStep,
     DecStep
     DEF event, invalidate_client, Invalidating
<1>3. CASE cmp
  BY <1>3, SendClientStep, QueueSendStep DEF cmp
<1>4. CASE sender
  BY <1>4, SenderCollectStep, SenderDoneStep, SenderSkipStep, SenderLoadStep,
     SenderBlockedStep,
     SenderFailedStep, DropStep, TellStep, CullStep
     DEF sender, invalidate_client, Invalidating
<1>5. CASE loop
  BY <1>5, LoopDropStep, LoopLooks, DropStep, TellStep, CullStep, DecStep
     DEF loop, invalidate_client, Invalidating
<1> QED
  BY <1>1, <1>2, <1>3, <1>4, <1>5 DEF Next

LEMMA StutterInv == ASSUME IInv, UNCHANGED vars PROVE StepRight
<1>1. UNCHANGED <<open, epoll, client, client_ids, accept, events, queued, sends>>
      /\ UNCHANGED <<pc, hold, fdv, making, at, known, told, sent>>
  BY DEF vars
<1>2. TypeOK'
  BY <1>1 DEF IInv, TypeOK
<1>3. Control'
  BY <1>1 DEF IInv, Control
<1>4. Heard'
  BY <1>1, <1>2, HeardSame
<1> QED
  BY <1>1, <1>2, <1>3, <1>4, Looks

(* The invariant holds in every reachable state, for any number of clients,   *)
(* descriptors and messages.                                                  *)
THEOREM Invariance == ASSUME ~ Passthrough PROVE Spec => []IInv
<1>1. Init => IInv
  BY InitInv
<1>2. IInv /\ [Next]_vars => IInv'
  BY NextInv, StutterInv DEF StepRight
<1> QED
  BY <1>1, <1>2, PTL DEF Spec

(* client->ref counts the uses of a client that is in the table or was       *)
(* dropped from it, of any number of clients and messages.                   *)
THEOREM RefsCountedThm == ASSUME ~ Passthrough PROVE Spec => []RefsCounted
<1>1. ASSUME IInv PROVE RefsCounted
  <2>1. ASSUME NEW c \in Clients \union Dead
        PROVE  client[c].ref = Cardinality(Lookups(c)) + Cardinality(InFlight(c))
                               + (IF c \in Clients /\ hold["receiver"] # c THEN 1 ELSE 0)
    <3>1. c \in Structs /\ Sound(c) /\ TypeOK
      BY <1>1, <2>1 DEF Clients, Dead, IInv, AllSound
    <3>2. Uses(c) = Cardinality(Lookups(c)) + Cardinality(InFlight(c)) /\ Uses(c) \in Nat
          /\ (Uses(c) = 0 <=> Free(c))
      BY <3>1, UsesCount DEF Uses
    <3>3. CASE c \in Clients
      BY <3>1, <3>2, <3>3 DEF Clients, Sound
    <3>4. CASE c \in Dead
      BY <3>1, <3>2, <3>4 DEF Clients, Dead, Sound
    <3> QED
      BY <2>1, <3>3, <3>4
  <2> QED
    BY <2>1 DEF RefsCounted, Lookups
<1> QED
  BY <1>1, Invariance, PTL

(* No descriptor that the kernel holds open is lost.                         *)
THEOREM FdsOwnedThm == ASSUME ~ Passthrough PROVE Spec => []FdsOwned
<1>1. IInv => FdsOwned
  BY DEF IInv
<1> QED
  BY <1>1, Invariance, PTL

(* The sender writes the oldest message it has for a client.                 *)
THEOREM OldestFirstThm == ASSUME ~ Passthrough PROVE Spec => []OldestFirst
<1>1. IInv => OldestFirst
  BY DEF IInv, Order
<1> QED
  BY <1>1, Invariance, PTL

(* The stratifier is told of every client that is dropped.                   *)
THEOREM DropsToldThm == ASSUME ~ Passthrough PROVE Spec => []DropsTold
<1>1. IInv => DropsTold
  BY DEF IInv
<1> QED
  BY <1>1, Invariance, PTL

-----------------------------------------------------------------------------
(* The contract of the table: a struct's phase and its holders.              *)

PhaseOf(c) == IF client[c].where \in {"recycled", "new"} THEN "free"
              ELSE IF client[c].where = "dead" THEN "dying" ELSE "live"
HeldOf(c) == ({"thread"} \X Lookups(c)) \union ({"message"} \X InFlight(c))

LEMMA HeldIn == ASSUME TypeOK, NEW c PROVE HeldOf(c) \subseteq Users
BY InFlightFinite DEF HeldOf, Users, Lookups

LEMMA HeldThen == TypeOK' => (\A c : HeldOf(c) \subseteq Users)'
<1>1. TypeOK => \A c : HeldOf(c) \subseteq Users
  BY HeldIn
<1> QED
  BY <1>1, PTL

LEMMA FreeHeld == ASSUME NEW c, Free(c) PROVE HeldOf(c) = {}
BY DEF Free, HeldOf

\* Each way in which a struct changes is one that the contract allows.
LEMMA ContractStep ==
    ASSUME TypeOK, NEW c \in Structs, Sound(c), StructStep(c)
    PROVE  \/ PhaseOf(c)' = PhaseOf(c) /\ HeldOf(c)' = HeldOf(c)
           \/ PhaseOf(c) = "free" /\ PhaseOf(c)' = "live" /\ HeldOf(c)' = {}
           \/ /\ PhaseOf(c) = "live" /\ PhaseOf(c)' = PhaseOf(c)
              /\ \E h \in Users \ HeldOf(c) : HeldOf(c)' = HeldOf(c) \union {h}
           \/ /\ PhaseOf(c)' = PhaseOf(c)
              /\ \E h \in HeldOf(c) : HeldOf(c)' = HeldOf(c) \ {h}
           \/ PhaseOf(c) = "live" /\ PhaseOf(c)' = "dying" /\ HeldOf(c)' = HeldOf(c)
           \/ PhaseOf(c) = "dying" /\ PhaseOf(c)' = "free" /\ HeldOf(c) = {} /\ HeldOf(c)' = {}
<1>1. SameUsers(c) => HeldOf(c)' = HeldOf(c)
  BY DEF SameUsers, HeldOf
<1>2. CASE Quiet(c)
  BY <1>1, <1>2 DEF Quiet, SameFields, PhaseOf
<1>3. CASE Gains(c)
  <2>1. PhaseOf(c) = "live" /\ PhaseOf(c)' = PhaseOf(c)
    BY <1>3 DEF Gains, SameFields, PhaseOf
  <2>2. CASE \E t \in {"event", "loop"} \ Lookups(c) :
               Lookups(c)' = Lookups(c) \union {t} /\ InFlight(c)' = InFlight(c)
    <3>1. PICK t \in {"event", "loop"} \ Lookups(c) :
               Lookups(c)' = Lookups(c) \union {t} /\ InFlight(c)' = InFlight(c)
      BY <2>2
    <3>2. <<"thread", t>> \in Users \ HeldOf(c)
          /\ HeldOf(c)' = HeldOf(c) \union {<<"thread", t>>}
      BY <3>1 DEF HeldOf, Users
    <3> QED
      BY <2>1, <3>2
  <2>3. CASE \E n \in Serials \ InFlight(c) :
               InFlight(c)' = InFlight(c) \union {n} /\ Lookups(c)' = Lookups(c)
    <3>1. PICK n \in Serials \ InFlight(c) :
               InFlight(c)' = InFlight(c) \union {n} /\ Lookups(c)' = Lookups(c)
      BY <2>3
    <3>2. <<"message", n>> \in Users \ HeldOf(c)
          /\ HeldOf(c)' = HeldOf(c) \union {<<"message", n>>}
      BY <3>1 DEF HeldOf, Users
    <3> QED
      BY <2>1, <3>2
  <2> QED
    BY <1>3, <2>2, <2>3 DEF Gains
<1>4. CASE Loses(c)
  <2>1. PhaseOf(c)' = PhaseOf(c)
    BY <1>4 DEF Loses, SameFields, PhaseOf
  <2>2. CASE \E t \in Lookups(c) : Lookups(c)' = Lookups(c) \ {t} /\ InFlight(c)' = InFlight(c)
    <3>1. PICK t \in Lookups(c) : Lookups(c)' = Lookups(c) \ {t} /\ InFlight(c)' = InFlight(c)
      BY <2>2
    <3>2. <<"thread", t>> \in HeldOf(c) /\ HeldOf(c)' = HeldOf(c) \ {<<"thread", t>>}
      BY <3>1 DEF HeldOf
    <3> QED
      BY <2>1, <3>2
  <2>3. CASE \E n \in InFlight(c) : InFlight(c)' = InFlight(c) \ {n} /\ Lookups(c)' = Lookups(c)
    <3>1. PICK n \in InFlight(c) : InFlight(c)' = InFlight(c) \ {n} /\ Lookups(c)' = Lookups(c)
      BY <2>3
    <3>2. <<"message", n>> \in HeldOf(c) /\ HeldOf(c)' = HeldOf(c) \ {<<"message", n>>}
      BY <3>1 DEF HeldOf
    <3> QED
      BY <2>1, <3>2
  <2> QED
    BY <1>4, <2>2, <2>3 DEF Loses
<1>5. CASE Retires(c)
  BY <1>1, <1>5 DEF Retires, PhaseOf
<1>6. CASE Reclaimed(c)
  <2>1. HeldOf(c) = {}
    BY <1>6, UsesCount, FreeHeld DEF Reclaimed, Sound
  <2>2. PhaseOf(c) = "dying" /\ PhaseOf(c)' = "free"
    BY <1>6 DEF Reclaimed, PhaseOf, Recycled
  <2> QED
    BY <1>1, <1>6, <2>1, <2>2 DEF Reclaimed
<1>7. CASE Recruited(c)
  <2>1. client[c] = Recycled
    BY <1>7 DEF Recruited, Sound
  <2>2. PhaseOf(c)' = PhaseOf(c)
    BY <1>7, <2>1 DEF Recruited, Recycled, PhaseOf
  <2> QED
    BY <1>1, <1>7, <2>2 DEF Recruited
<1>8. CASE Enters(c)
  <2>1. HeldOf(c) = {}
    BY <1>8, FreeHeld DEF Enters, Sound
  <2> QED
    BY <1>1, <1>8, <2>1 DEF Enters, PhaseOf
<1>9. CASE Armed(c)
  BY <1>1, <1>9 DEF Armed, PhaseOf
<1> QED
  BY <1>2, <1>3, <1>4, <1>5, <1>6, <1>7, <1>8, <1>9 DEF StructStep

\* The refinement mapping, struct by struct.
LEMMA MappedStep ==
    ASSUME NEW c \in Structs,
           \/ PhaseOf(c)' = PhaseOf(c) /\ HeldOf(c)' = HeldOf(c)
           \/ PhaseOf(c) = "free" /\ PhaseOf(c)' = "live" /\ HeldOf(c)' = {}
           \/ /\ PhaseOf(c) = "live" /\ PhaseOf(c)' = PhaseOf(c)
              /\ \E h \in Users \ HeldOf(c) : HeldOf(c)' = HeldOf(c) \union {h}
           \/ /\ PhaseOf(c)' = PhaseOf(c)
              /\ \E h \in HeldOf(c) : HeldOf(c)' = HeldOf(c) \ {h}
           \/ PhaseOf(c) = "live" /\ PhaseOf(c)' = "dying" /\ HeldOf(c)' = HeldOf(c)
           \/ PhaseOf(c) = "dying" /\ PhaseOf(c)' = "free" /\ HeldOf(c) = {} /\ HeldOf(c)' = {}
    PROVE  LR!Step(c)
BY DEF LR!Step, LR!Same, LR!Admit, LR!Acquire, LR!Release, LR!Retire, LR!Reclaim,
       PhaseOf, HeldOf, Lookups

(* The connector's table keeps the contract of a reference-counted table with *)
(* lazy removal.                                                              *)
THEOREM ReclaimsLazilyThm == ASSUME ~ Passthrough PROVE Spec => ReclaimsLazily
<1>1. ASSUME Init PROVE LR!Init
  <2>1. ASSUME NEW c \in Structs PROVE PhaseOf(c) = "free" /\ HeldOf(c) = {}
    <3>1. IInv /\ client[c] = Recycled
      BY <1>1, InitInv DEF Init
    <3>2. Free(c) /\ Recycled.where = "recycled"
      BY <3>1 DEF IInv, AllSound, Sound, Recycled
    <3> QED
      BY <3>1, <3>2, FreeHeld DEF PhaseOf
  <2> QED
    BY <2>1 DEF LR!Init, PhaseOf, HeldOf, Lookups
<1>2. ASSUME IInv, [Next]_vars PROVE [LR!Next]_(LR!absVars)
  <2>1. StepRight
    BY <1>2, NextInv, StutterInv
  <2>2. \A c \in Structs : LR!Step(c)
    BY <1>2, <2>1, ContractStep, MappedStep DEF StepRight, IInv, AllSound
  <2>3. \A c \in Structs : PhaseOf(c)' \in LR!Phases /\ HeldOf(c)' \subseteq Users
    BY <2>1, HeldThen DEF StepRight, IInv, PhaseOf, LR!Phases
  <2>4. LR!Next
    BY <2>2, <2>3 DEF LR!Next, PhaseOf, HeldOf, Lookups
  <2> QED
    BY <2>4
<1> QED
  BY <1>1, <1>2, Invariance, PTL DEF Spec, ReclaimsLazily, LR!Spec
=============================================================================
