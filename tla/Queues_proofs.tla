----------------------------- MODULE Queues_proofs -----------------------------
(* Proofs about what passes through queues: the shares and messages to the    *)
(* upstream pools (WholeInOrder, ShareKept) and the messages of a ckmsgq      *)
(* (InOrder, NothingLost).                                                    *)
EXTENDS CkMsgQueue, ShareForwarding, SequenceTheorems, FiniteSetTheorems, TLAPS

-----------------------------------------------------------------------------
(* WholeInOrder and ShareKept: the way of a share.                            *)

FwdSpec == FwdInit /\ [][FwdNext]_fwdVars

ShareOf == [id : Nat, m : Miners, to : Structs \X Nat, job : Nat]
MsgOf == [id : Nat, s : Structs, left : 1..2]
Part == Nat \X Nat

FwdTypes ==
    /\ conn \in [Structs -> Nat] /\ alive \in [Structs -> BOOLEAN]
    /\ sending \in [Structs -> Nat] /\ wire \in Seq(Seq(Part))
    /\ psends \in Seq(ShareOf) /\ csq \in Seq(MsgOf) /\ pass \in Nat
    /\ put \in Seq([m : Miners, on : Nat]) /\ lastJob \in Nat

\* Every connection has a number of its own.
Connections ==
    /\ \A s \in Structs : conn[s] \in 1..Len(wire)
    /\ \A s, t \in Structs : conn[s] = conn[t] => s = t
    /\ \A id \in 1..Len(put) : put[id].on \in 1..Len(wire)

\* Shares are taken, and messages made of them, in the order of their ids.
Ids ==
    /\ \A i \in 1..Len(psends) : psends[i].id \in 1..Len(put)
    /\ \A i, j \in 1..Len(psends) : i < j => psends[i].id < psends[j].id
    /\ \A i \in 1..Len(csq) : csq[i].id \in 1..Len(put)
    /\ \A i, j \in 1..Len(csq) : i < j => csq[i].id < csq[j].id
    /\ \A i \in 1..Len(csq) : \A j \in 1..Len(psends) : csq[i].id < psends[j].id
    /\ \A s \in Structs : sending[s] <= Len(put)
    /\ \A s \in Structs : \A j \in 1..Len(psends) : sending[s] < psends[j].id

Written ==
    \A c \in 1..Len(wire) : \A k \in 1..Len(wire[c]) :
        /\ wire[c][k][1] \in 1..Len(put) /\ wire[c][k][2] \in 1..2
        /\ \A j \in 1..Len(psends) : wire[c][k][1] < psends[j].id

\* A share that was handed over for the connection a session has now is for that
\* session, and its name is the one the share has.
Belong ==
    /\ \A i \in 1..Len(psends) : \A t \in Structs :
          conn[t] = put[psends[i].id].on =>
            psends[i].to = <<t, IF t \in Parents THEN 0 ELSE conn[t]>>
    /\ \A i \in 1..Len(csq) : \A t \in Structs :
          conn[t] = put[csq[i].id].on => csq[i].s = t

\* Message i is for the connection its session has, and that is alive.
Mine(i) == alive[csq[i].s] /\ put[csq[i].id].on = conn[csq[i].s]

\* None of them overtakes another: one that a pass has left behind keeps the
\* session from sending any that comes after it.
Turns ==
    \A i \in 1..Len(csq) : Mine(i) =>
        /\ sending[csq[i].s] <= csq[i].id
        /\ i < pass => sending[csq[i].s] # 0

\* Which parts have been written of a message: one that is half written is what
\* its session is sending, and the last on the wire.
PartsOf ==
    \A i \in 1..Len(csq) : Mine(i) =>
        LET w == wire[conn[csq[i].s]]
        IN  IF csq[i].left = 2
            THEN \A k \in 1..Len(w) : put[w[k][1]].on = conn[csq[i].s] => w[k][1] < csq[i].id
            ELSE /\ sending[csq[i].s] = csq[i].id
                 /\ Len(w) > 0 /\ w[Len(w)] = <<csq[i].id, 1>>

\* The rest of a message is what comes next.
RestNext ==
    \A s \in Structs : alive[s] =>
        LET w == wire[conn[s]]
        IN  Len(w) > 0 /\ put[w[Len(w)][1]].on = conn[s] /\ w[Len(w)][2] = 1 =>
              sending[s] = w[Len(w)][1]

FwdInv ==
    /\ FwdTypes /\ Connections /\ Ids /\ Written /\ Belong /\ Turns /\ PartsOf /\ RestNext
    /\ WholeInOrder /\ ShareKept

\* No two sessions have a descriptor; only one that is alive or being set up has any,
\* and for the connection of the latter no share has been handed over.
Sockets ==
    /\ csfd \in [Structs -> Nat] /\ setup \subseteq Structs
    /\ step \in {"test", "load", "write"} /\ target \in Nat
    /\ \A s, t \in Structs : csfd[s] = csfd[t] /\ csfd[s] # 0 => s = t
    /\ \A s \in Structs : csfd[s] # 0 => alive[s] \/ s \in setup
    /\ \A s \in setup : ~ alive[s] /\ \A id \in 1..Len(put) : put[id].on # conn[s]

\* Between the test and the write: while the session of the message at hand lives,
\* the descriptor loaded is its own; who else has got it since has nothing on its wire.
AtStep ==
    /\ step # "test" =>
         pass \in 1..Len(csq) /\ sending[csq[pass].s] \in {0, csq[pass].id}
    /\ step = "write" /\ Mine(pass) =>
         sending[csq[pass].s] = csq[pass].id /\ target = csfd[csq[pass].s]
    /\ step = "write" /\ target # 0 =>
         \A r \in Structs : r # csq[pass].s /\ csfd[r] = target => wire[conn[r]] = <<>>

LEMMA FwdSets == Structs \subseteq Nat \ {0} /\ Cardinality(Structs) \in Nat
<1>1. Cardinality(Structs) \in Nat
  BY FS_CardinalityType, ShareForwardingAssumption
<1>2. QED
  BY <1>1, ShareForwardingAssumption

LEMMA FwdInitInv == FwdInit => FwdInv
<1> SUFFICES ASSUME FwdInit PROVE FwdInv
  OBVIOUS
<1> USE FwdSets
<1> DEFINE n == Cardinality(Structs)
<1>1. Structs = 1..n
  BY ShareForwardingAssumption
<1>2. wire \in Seq(Seq(Part)) /\ Len(wire) = n /\ \A s \in 1..n : wire[s] = <<>>
  <2>1. <<>> \in Seq(Part)
    OBVIOUS
  <2>2. wire \in [1..n -> Seq(Part)]
    BY <1>1, <2>1 DEF FwdInit
  <2>3. n \in Nat
    OBVIOUS
  <2>4. wire \in Seq(Seq(Part)) /\ Len(wire) = n
    <3> HIDE DEF n
    <3> QED
      BY <2>2, <2>3, SeqDef, LenProperties
  <2> QED
    BY <1>1, <2>4 DEF FwdInit
<1>3. /\ conn \in [Structs -> Nat] /\ alive \in [Structs -> BOOLEAN] /\ sending \in [Structs -> Nat]
      /\ \A s \in Structs : conn[s] = s /\ sending[s] = 0 /\ alive[s] = TRUE
  BY DEF FwdInit
<1>4. psends = <<>> /\ csq = <<>> /\ put = <<>> /\ pass = 0 /\ lastJob = 1
  BY DEF FwdInit
<1>5. FwdTypes
  BY <1>2, <1>3, <1>4 DEF FwdTypes
<1>6. Connections
  <2>1. \A s \in Structs : conn[s] \in 1..Len(wire)
    BY <1>1, <1>2, <1>3
  <2>2. \A s, t \in Structs : conn[s] = conn[t] => s = t
    BY <1>3
  <2>3. Len(put) = 0 /\ 1..Len(put) = {}
    BY <1>4
  <2> QED
    BY <2>1, <2>2, <2>3 DEF Connections
<1>7. Ids /\ Belong /\ Turns /\ PartsOf
  BY <1>3, <1>4 DEF Ids, Belong, Turns, PartsOf
<1>8. Written /\ RestNext /\ WholeInOrder
  <2>1. \A c \in DOMAIN wire : wire[c] = <<>> /\ Len(wire[c]) = 0 /\ DOMAIN wire[c] = {}
    BY <1>2
  <2>2. \A c \in 1..Len(wire) : Len(wire[c]) = 0
    BY <1>2
  <2>3. \A s \in Structs : Len(wire[conn[s]]) = 0
    BY <1>1, <1>2, <1>3
  <2>4. Written
    <3>1. \A c \in 1..Len(wire) : 1..Len(wire[c]) = {}
      BY <2>2
    <3> QED
      BY <3>1 DEF Written
  <2>5. RestNext
    BY <2>3 DEF RestNext
  <2>6. WholeInOrder
    BY <2>1, Zenon DEF WholeInOrder
  <2> QED
    BY <2>4, <2>5, <2>6
<1>9. ShareKept
  <2>1. DOMAIN put = {}
    BY <1>4
  <2> QED
    BY <2>1 DEF ShareKept
<1> QED
  BY <1>5, <1>6, <1>7, <1>8, <1>9 DEF FwdInv

\* What the invariant looks at, but for pass and failed.
Core == <<conn, alive, sending, wire, psends, csq, put>>

\* Facts that depend neither on pass nor on what has failed.
Steady == FwdTypes /\ Connections /\ Ids /\ Written /\ Belong /\ PartsOf /\ RestNext /\ WholeInOrder

LEMMA CoreKept ==
    ASSUME FwdInv, UNCHANGED Core, pass' \in Nat, lastJob' \in Nat, failed' = failed,
           \A i \in 1..Len(csq) : Mine(i) /\ i < pass' => i < pass \/ sending[csq[i].s] # 0
    PROVE  FwdInv'
<1>1. UNCHANGED <<conn, alive, sending, wire, psends, csq, put>>
  BY DEF Core
<1>2. FwdTypes' /\ Connections' /\ Ids' /\ Written' /\ Belong'
  BY <1>1 DEF FwdInv, FwdTypes, Connections, Ids, Written, Belong
<1>3. PartsOf' /\ RestNext'
  BY <1>1 DEF FwdInv, PartsOf, RestNext, Mine
<1>4. Turns'
  BY <1>1 DEF FwdInv, Turns, Mine
<1>5. WholeInOrder' /\ ShareKept'
  BY <1>1 DEF FwdInv, WholeInOrder, ShareKept
<1> QED
  BY <1>2, <1>3, <1>4, <1>5 DEF FwdInv

LEMMA FwdQuiet ==
    ASSUME FwdInv, UNCHANGED <<Core, pass, failed>>, lastJob' \in Nat
    PROVE  FwdInv'
BY CoreKept DEF FwdInv, FwdTypes

LEMMA PassMoves ==
    ASSUME FwdInv, AtStep, PollPass \/ EndPass \/ PassSkip \/ PassBlocked
    PROVE  FwdInv'
<1>1. UNCHANGED Core /\ failed' = failed
  BY DEF PollPass, EndPass, PassSkip, PassBlocked, Core, sessionVars, wireVars, historyVars
<1>2. pass' \in Nat /\ pass \in Nat /\ lastJob' \in Nat
  BY DEF FwdInv, FwdTypes, PollPass, EndPass, PassSkip, PassBlocked, jobVars
<1>3. PollPass \/ EndPass => \A i \in 1..Len(csq) : ~ (i < pass')
  BY DEF PollPass, EndPass
<1>4. ASSUME PassSkip \/ PassBlocked, NEW i \in 1..Len(csq), Mine(i), i < pass'
      PROVE  i < pass \/ sending[csq[i].s] # 0
  <2>1. pass' = pass + 1
    BY <1>4 DEF PassSkip, PassBlocked
  <2>2. i < pass \/ i = pass
    BY <1>2, <1>4, <2>1
  <2>3. CASE PassSkip
    BY <2>2, <2>3 DEF PassSkip, MaySend, At
  <2>4. CASE PassBlocked /\ i = pass
    <3>1. sending[csq[pass].s] = csq[pass].id
      BY <1>4, <2>4 DEF AtStep, PassBlocked
    <3>2. csq[pass].id \in 1..Len(put)
      BY <1>4, <2>4 DEF FwdInv, Ids
    <3> QED
      BY <2>4, <3>1, <3>2
  <2> QED
    BY <1>4, <2>2, <2>3, <2>4
<1> QED
  BY <1>1, <1>2, <1>3, <1>4, CoreKept, Zenon

LEMMA CsMessages ==
    ASSUME FwdTypes
    PROVE  /\ \A i \in 1..Len(csq) : csq[i] \in MsgOf /\ csq[i].id \in Nat
                                    /\ csq[i].s \in Structs /\ csq[i].left \in 1..2
           /\ DOMAIN csq = 1..Len(csq)
           /\ \A i \in 1..Len(psends) : psends[i] \in ShareOf /\ psends[i].id \in Nat
           /\ \A c \in 1..Len(wire) : wire[c] \in Seq(Part) /\ Len(wire[c]) \in Nat
                                     /\ DOMAIN wire[c] = 1..Len(wire[c])
           /\ DOMAIN wire = 1..Len(wire) /\ DOMAIN put = 1..Len(put)
           /\ DOMAIN psends = 1..Len(psends)
<1>1. \A i \in 1..Len(csq) : csq[i] \in MsgOf
  BY DEF FwdTypes
<1>2. \A x \in MsgOf : x.id \in Nat /\ x.s \in Structs /\ x.left \in 1..2
  BY DEF MsgOf
<1>3. \A i \in 1..Len(psends) : psends[i] \in ShareOf
  BY DEF FwdTypes
<1>4. \A x \in ShareOf : x.id \in Nat
  BY DEF ShareOf
<1>5. \A c \in 1..Len(wire) : wire[c] \in Seq(Part)
  BY DEF FwdTypes
<1>6. \A c \in 1..Len(wire) : Len(wire[c]) \in Nat /\ DOMAIN wire[c] = 1..Len(wire[c])
  BY <1>5
<1>7. /\ DOMAIN csq = 1..Len(csq) /\ DOMAIN wire = 1..Len(wire) /\ DOMAIN put = 1..Len(put)
      /\ DOMAIN psends = 1..Len(psends)
  BY DEF FwdTypes
<1> QED
  BY <1>1, <1>2, <1>3, <1>4, <1>5, <1>6, <1>7

\* Share r is handed over for the connection of session s.
LEMMA HandedOver ==
    ASSUME FwdInv, NEW s \in Structs, NEW m \in Miners, NEW job \in Nat,
           psends' = Append(psends, [id |-> Len(put) + 1, m |-> m, to |-> Name(s), job |-> job]),
           put' = Append(put, [m |-> m, on |-> conn[s]]),
           UNCHANGED <<conn, alive, sending, wire, csq, pass, failed, lastJob>>
    PROVE  FwdInv'
<1> DEFINE r == [id |-> Len(put) + 1, m |-> m, to |-> Name(s), job |-> job]
           h == [m |-> m, on |-> conn[s]]
           N == Len(put) + 1
           P == Len(psends) + 1
<1>1. FwdTypes /\ Connections /\ Ids /\ Written
  BY DEF FwdInv
<1>2. r \in ShareOf /\ h \in [m : Miners, on : Nat] /\ N \in Nat /\ P \in Nat /\ r.id = N
      /\ r.to = <<s, IF s \in Parents THEN 0 ELSE conn[s]>> /\ h.on = conn[s]
  BY <1>1, FwdSets DEF FwdTypes, ShareOf, Name
<1>3. /\ put' \in Seq([m : Miners, on : Nat]) /\ Len(put') = N /\ put'[N] = h
      /\ \A id \in 1..Len(put) : put'[id] = put[id]
  BY <1>1, <1>2 DEF FwdTypes
<1>4. /\ psends' \in Seq(ShareOf) /\ Len(psends') = P /\ psends'[P] = r
      /\ \A i \in 1..Len(psends) : psends'[i] = psends[i]
  BY <1>1, <1>2 DEF FwdTypes
<1> HIDE DEF r, h
<1>5. \A x \in 1..N : x \in 1..Len(put) \/ x = N
  BY <1>1 DEF FwdTypes
<1>6. \A x \in 1..P : x \in 1..Len(psends) \/ x = P
  BY <1>1 DEF FwdTypes
<1>7. /\ \A x \in 1..Len(put) : x \in 1..N /\ x < N
      /\ \A x \in 1..Len(psends) : x \in 1..P /\ x < P
      /\ N \in 1..N /\ P \in 1..P /\ Len(put) <= N
  BY <1>1 DEF FwdTypes
<1> HIDE DEF N, P
<1>10. FwdTypes'
  BY <1>1, <1>3, <1>4 DEF FwdTypes
<1>11. Connections'
  BY <1>1, <1>2, <1>3, <1>5 DEF Connections
<1>12. Ids'
  <2>1. \A i \in 1..P : psends'[i].id \in 1..N
    BY <1>1, <1>2, <1>4, <1>6, <1>7 DEF Ids
  <2>2. \A i, j \in 1..P : i < j => i \in 1..Len(psends)
    BY <1>1, <1>2, <1>6
  <2>3. \A i, j \in 1..P : i < j => psends'[i].id < psends'[j].id
    <3> TAKE i, j \in 1..P
    <3> HAVE i < j
    <3>1. i \in 1..Len(psends) /\ psends'[i] = psends[i]
      BY <1>4, <2>2
    <3>2. CASE j = P
      BY <1>1, <1>2, <1>4, <1>7, <3>1, <3>2 DEF Ids
    <3>3. CASE j \in 1..Len(psends)
      BY <1>1, <1>4, <3>1, <3>3 DEF Ids
    <3> QED
      BY <1>6, <3>2, <3>3
  <2>4. \A i \in 1..Len(csq) : csq[i].id \in 1..N
    BY <1>1, <1>7 DEF Ids
  <2>5. \A i \in 1..Len(csq) : \A j \in 1..P : csq[i].id < psends'[j].id
    BY <1>1, <1>2, <1>4, <1>6, <1>7 DEF Ids
  <2>6. \A t \in Structs : sending[t] \in Nat /\ sending[t] <= Len(put) /\ Len(put) \in Nat
    BY <1>1 DEF Ids, FwdTypes
  <2>7. \A t \in Structs : sending[t] <= N /\ sending[t] < N
    BY <2>6 DEF N
  <2>8. \A t \in Structs : \A j \in 1..P : sending[t] < psends'[j].id
    BY <1>1, <1>2, <1>4, <1>6, <2>7 DEF Ids
  <2>9. \A i, j \in 1..Len(csq) : i < j => csq[i].id < csq[j].id
    BY <1>1 DEF Ids
  <2> QED
    BY <1>3, <1>4, <2>1, <2>3, <2>4, <2>5, <2>7, <2>8, <2>9 DEF Ids
<1>13. Written'
  <2> SUFFICES ASSUME NEW c \in 1..Len(wire), NEW k \in 1..Len(wire[c])
               PROVE  /\ wire[c][k][1] \in 1..N /\ wire[c][k][2] \in 1..2
                      /\ \A j \in 1..P : wire[c][k][1] < psends'[j].id
    BY SMTT(60), <1>3, <1>4 DEF Written
  <2> QED
    BY <1>1, <1>2, <1>4, <1>6, <1>7 DEF Written
<1>14. Belong'
  <2>1. ASSUME NEW i \in 1..P, NEW t \in Structs, conn[t] = put'[psends'[i].id].on
        PROVE  psends'[i].to = <<t, IF t \in Parents THEN 0 ELSE conn[t]>>
    <3>1. CASE i = P
      <4>1. conn[t] = conn[s]
        BY <1>2, <1>3, <1>4, <2>1, <3>1
      <4>2. t = s
        BY <1>1, <4>1 DEF Connections
      <4> QED
        BY <1>2, <1>4, <3>1, <4>2
    <3>2. CASE i \in 1..Len(psends)
      <4>1. psends'[i] = psends[i] /\ psends[i].id \in 1..Len(put)
        BY <1>1, <1>4, <3>2 DEF Ids
      <4>2. put'[psends[i].id] = put[psends[i].id]
        BY <1>3, <4>1
      <4> QED
        BY <2>1, <3>2, <4>1, <4>2 DEF FwdInv, Belong
    <3> QED
      BY <1>6, <3>1, <3>2
  <2>2. \A i \in 1..Len(csq) : csq[i].id \in 1..Len(put) /\ put'[csq[i].id] = put[csq[i].id]
    BY <1>1, <1>3 DEF Ids
  <2>3. \A i \in 1..Len(csq) : \A t \in Structs :
          conn[t] = put'[csq[i].id].on => csq[i].s = t
    BY <2>2 DEF FwdInv, Belong
  <2>4. \A i \in 1..Len(psends') : \A t \in Structs :
          conn[t] = put'[psends'[i].id].on =>
            psends'[i].to = <<t, IF t \in Parents THEN 0 ELSE conn[t]>>
    BY <1>4, <2>1
  <2> QED
    BY <2>3, <2>4 DEF Belong
<1>15. \A i \in 1..Len(csq) : /\ put'[csq[i].id] = put[csq[i].id]
                              /\ csq[i].s \in Structs
                              /\ csq[i].left \in 1..2
  BY <1>1, <1>3, CsMessages DEF Ids
<1>22. \A i \in 1..Len(csq) :
          (alive[csq[i].s] /\ put'[csq[i].id].on = conn[csq[i].s])
            = (alive[csq[i].s] /\ put[csq[i].id].on = conn[csq[i].s])
  BY <1>15
<1>16. \A t \in Structs : \A k \in 1..Len(wire[conn[t]]) :
          put'[wire[conn[t]][k][1]] = put[wire[conn[t]][k][1]]
  BY <1>1, <1>3 DEF Connections, Written
<1>17. Turns'
  BY <1>22 DEF FwdInv, Turns, Mine
<1>18. PartsOf'
  <2> SUFFICES ASSUME NEW i \in 1..Len(csq), alive[csq[i].s],
                      put'[csq[i].id].on = conn[csq[i].s]
               PROVE  LET w == wire[conn[csq[i].s]]
                      IN  IF csq[i].left = 2
                          THEN \A k \in 1..Len(w) :
                                 put'[w[k][1]].on = conn[csq[i].s] => w[k][1] < csq[i].id
                          ELSE /\ sending[csq[i].s] = csq[i].id
                               /\ Len(w) > 0 /\ w[Len(w)] = <<csq[i].id, 1>>
    BY DEF PartsOf, Mine
  <2>1. Mine(i) /\ csq[i].s \in Structs
    BY <1>15 DEF Mine
  <2> QED
    BY <1>16, <2>1 DEF FwdInv, PartsOf
<1>19. RestNext'
  <2> SUFFICES ASSUME NEW t \in Structs, alive[t], Len(wire[conn[t]]) > 0,
                      put'[wire[conn[t]][Len(wire[conn[t]])][1]].on = conn[t],
                      wire[conn[t]][Len(wire[conn[t]])][2] = 1
               PROVE  sending[t] = wire[conn[t]][Len(wire[conn[t]])][1]
    BY DEF RestNext
  <2>1. Len(wire[conn[t]]) \in 1..Len(wire[conn[t]])
    <3>1. wire[conn[t]] \in Seq(Part)
      BY <1>1 DEF FwdTypes, Connections
    <3>2. Len(wire[conn[t]]) \in Nat
      BY <3>1
    <3> QED
      BY <3>2
  <2>2. put[wire[conn[t]][Len(wire[conn[t]])][1]].on = conn[t]
    BY <1>16, <2>1
  <2> QED
    BY <2>2 DEF FwdInv, RestNext
<1>20. WholeInOrder'
  <2>1. \A c \in 1..Len(wire) : \A k \in 1..Len(wire[c]) : put'[wire[c][k][1]] = put[wire[c][k][1]]
    BY <1>1, <1>3 DEF Written
  <2>2. \A c \in 1..Len(wire) : DOMAIN wire[c] = 1..Len(wire[c])
    BY <1>1 DEF FwdTypes
  <2>3. DOMAIN wire = 1..Len(wire)
    BY <1>1 DEF FwdTypes
  <2>4. \A c \in DOMAIN wire : \A k \in DOMAIN wire[c] :
          (put'[wire[c][k][1]].on = c) = (put[wire[c][k][1]].on = c)
    BY ZenonT(60), <2>1, <2>2, <2>3
  <2>5. \A c \in DOMAIN wire : \A i \in DOMAIN wire[c] :
          \A j \in 1..(i - 1) : j \in DOMAIN wire[c]
    BY <2>2, <2>3, <1>1 DEF FwdTypes
  <2> SUFFICES ASSUME NEW c \in DOMAIN wire, NEW i \in DOMAIN wire[c],
                      put'[wire[c][i][1]].on = c
               PROVE  IF wire[c][i][2] = 1
                      THEN /\ i < Len(wire[c]) => wire[c][i + 1] = <<wire[c][i][1], 2>>
                           /\ \A j \in 1..(i - 1) : put'[wire[c][j][1]].on = c =>
                                                      wire[c][j][1] < wire[c][i][1]
                      ELSE i > 1 /\ wire[c][i - 1] = <<wire[c][i][1], 1>>
    BY <1>4 DEF WholeInOrder
  <2>6. put[wire[c][i][1]].on = c
    BY <2>4
  <2>7. \A j \in 1..(i - 1) : put'[wire[c][j][1]].on = c => put[wire[c][j][1]].on = c
    BY <2>4, <2>5
  <2>8. IF wire[c][i][2] = 1
        THEN /\ i < Len(wire[c]) => wire[c][i + 1] = <<wire[c][i][1], 2>>
             /\ \A j \in 1..(i - 1) : put[wire[c][j][1]].on = c =>
                                        wire[c][j][1] < wire[c][i][1]
        ELSE i > 1 /\ wire[c][i - 1] = <<wire[c][i][1], 1>>
    BY <2>6 DEF FwdInv, WholeInOrder
  <2> QED
    BY <2>7, <2>8
<1>21. ShareKept'
  <2>1. DOMAIN put' = 1..N /\ DOMAIN put = 1..Len(put) /\ DOMAIN psends' = 1..P
        /\ DOMAIN psends = 1..Len(psends)
    BY <1>1, <1>3, <1>4 DEF FwdTypes
  <2> SUFFICES ASSUME NEW id \in 1..N
               PROVE  \/ \E i \in 1..P : psends'[i].id = id
                      \/ \E i \in DOMAIN csq : csq[i].id = id
                      \/ \E i \in DOMAIN wire[put'[id].on] : wire[put'[id].on][i] = <<id, Parts>>
                      \/ id \in failed
                      \/ ~ \E t \in Structs : alive[t] /\ conn[t] = put'[id].on
    BY <2>1 DEF ShareKept
  <2>2. CASE id = N
    BY <1>2, <1>4, <1>7, <2>2
  <2>3. CASE id \in 1..Len(put)
    <3>1. put'[id] = put[id]
      BY <1>3, <2>3
    <3>2. ASSUME NEW i \in DOMAIN psends, psends[i].id = id PROVE \E j \in 1..P : psends'[j].id = id
      <4>1. i \in 1..P /\ psends'[i] = psends[i]
        BY <1>4, <1>7, <2>1, <3>2
      <4> QED
        BY <3>2, <4>1
    <3> QED
      BY <2>1, <2>3, <3>1, <3>2 DEF FwdInv, ShareKept
  <2> QED
    BY <1>5, <2>2, <2>3
<1> QED
  BY <1>10, <1>11, <1>12, <1>13, <1>14, <1>17, <1>18, <1>19, <1>20, <1>21 DEF FwdInv

LEMMA Submitted ==
    ASSUME FwdInv, NEW m \in Miners, NEW job \in 1..lastJob, SubmitUpstream(m, job)
    PROVE  FwdInv'
<1> DEFINE found == {s \in FoundBy(bound[m]) : alive[s]}
<1>1. lastJob \in Nat /\ job \in Nat /\ lastJob' = lastJob
  BY DEF FwdInv, FwdTypes, SubmitUpstream, jobVars
<1>2. UNCHANGED <<conn, alive, sending, wire, csq, pass, failed>>
  BY DEF SubmitUpstream, sessionVars, wireVars, passVars
<1>3. CASE found = {}
  <2>1. UNCHANGED <<psends, put>>
    BY <1>3 DEF SubmitUpstream
  <2> QED
    BY <1>1, <1>2, <2>1, FwdQuiet DEF Core
<1>4. CASE found # {}
  <2> DEFINE s == CHOOSE s \in found : TRUE
  <2>1. s \in found
    BY <1>4
  <2>2. /\ psends' = Append(psends, [id |-> Len(put) + 1, m |-> m, to |-> bound[m], job |-> job])
        /\ put' = Append(put, [m |-> m, on |-> conn[s]])
    BY <1>4 DEF SubmitUpstream
  <2>3. s \in Structs /\ Name(s) = bound[m]
    BY <2>1 DEF FoundBy
  <2> HIDE DEF s
  <2> QED
    BY <1>1, <1>2, <2>2, <2>3, HandedOver
<1> QED
  BY <1>3, <1>4

LEMMA Elsewhere ==
    ASSUME FwdInv,
           \/ TwoMinutes \/ AgeShares \/ NewJob
           \/ \E m \in Miners, s \in Structs : Rebind(m, s)
           \/ \E s \in Structs, id \in shares : AnswerShare(s, id)
           \/ \E s, t \in Structs : ReplyLoad(s) \/ ReplyPiece(s, t) \/ ReplyEnd(s)
           \/ \E j \in jobs : AgeJob(j)
           \/ PassTest \/ \E s \in Structs : CutSession(s)
    PROVE  FwdInv'
<1>1. UNCHANGED <<conn, alive, sending, wire, psends, csq, put, pass, failed>>
  BY DEF TwoMinutes, AgeShares, NewJob, Rebind, AnswerShare, AgeJob, ReplyLoad, ReplyPiece,
         ReplyEnd, PassTest, CutSession, sessionVars, wireVars, queueVars, passVars, historyVars
<1>2. lastJob' \in Nat
  <2>1. lastJob \in Nat
    BY DEF FwdInv, FwdTypes
  <2>2. lastJob' = lastJob \/ lastJob' = lastJob + 1
    BY DEF TwoMinutes, AgeShares, NewJob, Rebind, AnswerShare, AgeJob, ReplyLoad, ReplyPiece,
           ReplyEnd, PassTest, CutSession, jobVars
  <2> QED
    BY <2>1, <2>2
<1> QED
  BY <1>1, <1>2, FwdQuiet DEF Core

\* What is left of psends once its first is taken.
LEMMA TakenFrom ==
    ASSUME FwdInv, psends # <<>>, psends' = Tail(psends)
    PROVE  /\ 1 \in 1..Len(psends) /\ Head(psends) = psends[1] /\ psends' \in Seq(ShareOf)
           /\ \A i \in 1..Len(psends') : \E q \in 1..Len(psends) :
                q = i + 1 /\ psends'[i] = psends[q] /\ psends[1].id < psends[q].id
           /\ \A q \in 1..Len(psends) : q = 1 \/ \E i \in 1..Len(psends') : psends'[i] = psends[q]
<1>1. psends \in Seq(ShareOf) /\ Ids
  BY DEF FwdInv, FwdTypes
<1>2. /\ Len(psends) \in Nat /\ Len(psends) > 0 /\ Head(psends) = psends[1]
      /\ psends' \in Seq(ShareOf) /\ Len(psends') = Len(psends) - 1
      /\ \A i \in 1..Len(psends') : psends'[i] = psends[i + 1]
  BY <1>1
<1>3. ASSUME NEW i \in 1..Len(psends')
      PROVE  \E q \in 1..Len(psends) :
                q = i + 1 /\ psends'[i] = psends[q] /\ psends[1].id < psends[q].id
  <2>1. PICK q \in 1..Len(psends) : q = i + 1 /\ 1 < q
    BY <1>2
  <2>2. psends'[i] = psends[q]
    BY <1>2, <2>1
  <2>3. psends[1].id < psends[q].id
    BY <1>1, <1>2, <2>1 DEF Ids
  <2> QED
    BY <2>1, <2>2, <2>3
<1>4. ASSUME NEW q \in 1..Len(psends), q # 1
      PROVE  \E i \in 1..Len(psends') : psends'[i] = psends[q]
  <2>1. PICK i \in 1..Len(psends') : q = i + 1
    BY <1>2, <1>4
  <2> QED
    BY <1>2, <2>1
<1> QED
  BY <1>2, <1>3, <1>4

LEMMA TakenDropped ==
    ASSUME FwdInv, psends # <<>>, psends' = Tail(psends), failed \subseteq failed',
           FoundBy(psends[1].to) = {} \/ psends[1].id \in failed',
           UNCHANGED <<conn, alive, sending, wire, csq, pass, put, lastJob>>
    PROVE  FwdInv'
<1>1. FwdTypes /\ Connections /\ Ids /\ Written /\ Belong
  BY DEF FwdInv
<1>2. \A i \in 1..Len(psends') : \E q \in 1..Len(psends) : q = i + 1 /\ psends'[i] = psends[q]
  BY TakenFrom
<1>3. FwdTypes' /\ Connections'
  BY <1>1, TakenFrom DEF FwdTypes, Connections
<1>4. Ids'
  <2>1. \A i, j \in 1..Len(psends') : i < j => psends'[i].id < psends'[j].id
    <3> TAKE i, j \in 1..Len(psends')
    <3> HAVE i < j
    <3>1. PICK p \in 1..Len(psends) : p = i + 1 /\ psends'[i] = psends[p]
      BY <1>2
    <3>2. PICK q \in 1..Len(psends) : q = j + 1 /\ psends'[j] = psends[q]
      BY <1>2
    <3> QED
      BY SMTT(60), <1>1, <3>1, <3>2 DEF Ids
  <2> QED
    BY <1>1, <1>2, <2>1 DEF Ids
<1>5. Written'
  BY <1>1, <1>2 DEF Written
<1>6. Belong'
  BY SMTT(60), <1>1, <1>2 DEF Belong
<1>7. Turns' /\ PartsOf' /\ RestNext' /\ WholeInOrder'
  BY DEF FwdInv, Turns, PartsOf, RestNext, WholeInOrder, Mine
<1>8. ShareKept'
  <2>1. DOMAIN psends = 1..Len(psends) /\ DOMAIN psends' = 1..Len(psends')
    BY <1>1, <1>3 DEF FwdTypes
  <2> SUFFICES ASSUME NEW id \in DOMAIN put
               PROVE  \/ \E i \in DOMAIN psends' : psends'[i].id = id
                      \/ \E i \in DOMAIN csq : csq[i].id = id
                      \/ \E i \in DOMAIN wire[put[id].on] : wire[put[id].on][i] = <<id, Parts>>
                      \/ id \in failed'
                      \/ ~ \E t \in Structs : alive[t] /\ conn[t] = put[id].on
    BY DEF ShareKept
  <2>2. CASE \E q \in DOMAIN psends : psends[q].id = id
    <3>1. PICK q \in 1..Len(psends) : psends[q].id = id
      BY <2>1, <2>2
    <3>2. CASE q # 1
      BY ZenonT(60), <2>1, <3>1, <3>2, TakenFrom
    <3>3. ASSUME q = 1, id \notin failed', NEW t \in Structs, alive[t], conn[t] = put[id].on
          PROVE  FALSE
      <4>1. psends[1].to = <<t, IF t \in Parents THEN 0 ELSE conn[t]>>
        BY <1>1, <3>1, <3>3 DEF Belong
      <4>2. t \in FoundBy(psends[1].to)
        BY <3>3, <4>1 DEF FoundBy, Name
      <4> QED
        BY <3>1, <3>3, <4>2
    <3> QED
      BY <3>2, <3>3
  <2>3. CASE ~ \E q \in DOMAIN psends : psends[q].id = id
    BY <2>3 DEF FwdInv, ShareKept
  <2> QED
    BY <2>2, <2>3
<1> QED
  BY <1>3, <1>4, <1>5, <1>6, <1>7, <1>8 DEF FwdInv

LEMMA TakenQueued ==
    ASSUME FwdInv, psends # <<>>, psends' = Tail(psends), NEW s \in FoundBy(psends[1].to),
           csq' = Append(csq, Message(psends[1].id, s)), pass' = 1, pass = 0,
           UNCHANGED <<conn, alive, sending, wire, put, failed, lastJob>>
    PROVE  FwdInv'
<1> DEFINE r == Message(psends[1].id, s)
           N == Len(csq) + 1
<1>1. FwdTypes /\ Connections /\ Ids /\ Written /\ Belong
  BY DEF FwdInv
<1>2. \A i \in 1..Len(psends') : \E q \in 1..Len(psends) :
         q = i + 1 /\ psends'[i] = psends[q] /\ psends[1].id < psends[q].id
  BY TakenFrom
<1>3. /\ r \in MsgOf /\ r.id = psends[1].id /\ r.s = s /\ s \in Structs /\ r.left = 2
      /\ Name(s) = psends[1].to /\ N \in Nat /\ r.id \in 1..Len(put) /\ r.id \in Nat
  <2>1. 1 \in 1..Len(psends) /\ psends[1].id \in 1..Len(put) /\ psends[1].id \in Nat
    BY <1>1, TakenFrom, CsMessages DEF Ids
  <2>2. s \in Structs /\ Name(s) = psends[1].to
    BY DEF FoundBy
  <2> QED
    BY <1>1, <2>1, <2>2 DEF Message, Parts, MsgOf, FwdTypes
<1>4. /\ csq' \in Seq(MsgOf) /\ Len(csq') = N /\ csq'[N] = r
      /\ \A i \in 1..Len(csq) : csq'[i] = csq[i]
  BY <1>1, <1>3 DEF FwdTypes
<1> HIDE DEF r
<1>5. \A x \in 1..N : x \in 1..Len(csq) \/ x = N
  BY <1>1 DEF FwdTypes
<1>6. \A x \in 1..Len(csq) : x \in 1..N /\ x < N
  BY <1>1 DEF FwdTypes
<1>7. N \in 1..N
  BY <1>3
<1> HIDE DEF N
<1>8. \A i \in 1..Len(csq) : csq[i].id < r.id
  BY <1>1, <1>3, TakenFrom DEF Ids
<1>10. FwdTypes' /\ Connections'
  BY <1>1, <1>4, TakenFrom DEF FwdTypes, Connections
<1>11. Ids'
  <2>1. \A i, j \in 1..Len(psends') : i < j => psends'[i].id < psends'[j].id
    <3> TAKE i, j \in 1..Len(psends')
    <3> HAVE i < j
    <3>1. PICK p \in 1..Len(psends) : p = i + 1 /\ psends'[i] = psends[p]
      BY <1>2
    <3>2. PICK q \in 1..Len(psends) : q = j + 1 /\ psends'[j] = psends[q]
      BY <1>2
    <3>3. p < q
      BY <3>1, <3>2
    <3> QED
      BY <1>1, <3>1, <3>2, <3>3 DEF Ids
  <2>2. \A i, j \in 1..N : i < j => csq'[i].id < csq'[j].id
    <3> TAKE i, j \in 1..N
    <3> HAVE i < j
    <3>1. i \in 1..Len(csq) /\ csq'[i] = csq[i]
      BY <1>1, <1>4, <1>3, <1>5, <1>6
    <3>2. CASE j = N
      BY <1>4, <1>8, <3>1, <3>2
    <3>3. CASE j \in 1..Len(csq)
      BY <1>1, <1>4, <3>1, <3>3 DEF Ids
    <3> QED
      BY <1>5, <3>2, <3>3
  <2>3. \A i \in 1..N : csq'[i].id \in 1..Len(put)
    BY <1>1, <1>3, <1>4, <1>5 DEF Ids
  <2>4. ASSUME NEW i \in 1..N, NEW j \in 1..Len(psends') PROVE csq'[i].id < psends'[j].id
    <3>1. PICK q \in 1..Len(psends) : psends'[j] = psends[q] /\ psends[1].id < psends[q].id
      BY <1>2
    <3>2. CASE i = N
      BY <1>3, <1>4, <3>1, <3>2
    <3>3. CASE i \in 1..Len(csq)
      BY <1>1, <1>4, <3>1, <3>3 DEF Ids
    <3> QED
      BY <1>5, <3>2, <3>3
  <2>5. \A i \in 1..Len(psends') : psends'[i].id \in 1..Len(put)
    BY <1>1, <1>2 DEF Ids
  <2>6. \A t \in Structs : \A j \in 1..Len(psends') : sending[t] < psends'[j].id
    BY <1>1, <1>2 DEF Ids
  <2> QED
    BY <1>1, <1>4, <2>1, <2>2, <2>3, <2>4, <2>5, <2>6 DEF Ids
<1>12. Written'
  BY <1>1, <1>2 DEF Written
<1>13. Belong'
  <2>1. ASSUME NEW i \in 1..N, NEW t \in Structs, conn[t] = put[csq'[i].id].on
        PROVE  csq'[i].s = t
    <3>1. CASE i = N
      <4>1. psends[1].to = <<t, IF t \in Parents THEN 0 ELSE conn[t]>>
        BY <1>1, <1>3, <1>4, <2>1, <3>1, TakenFrom DEF Belong
      <4> QED
        BY <1>3, <1>4, <3>1, <4>1 DEF Name
    <3>2. CASE i \in 1..Len(csq)
      BY <1>1, <1>4, <2>1, <3>2 DEF Belong
    <3> QED
      BY <1>5, <3>1, <3>2
  <2>2. \A i \in 1..Len(psends') : \A t \in Structs :
          conn[t] = put[psends'[i].id].on =>
            psends'[i].to = <<t, IF t \in Parents THEN 0 ELSE conn[t]>>
    BY <1>1, <1>2 DEF Belong
  <2> QED
    BY <1>4, <2>1, <2>2 DEF Belong
<1>14. Turns'
  <2> SUFFICES ASSUME NEW i \in 1..N, alive[csq'[i].s], put[csq'[i].id].on = conn[csq'[i].s]
               PROVE  /\ sending[csq'[i].s] <= csq'[i].id
                      /\ i < 1 => sending[csq'[i].s] # 0
    BY <1>4 DEF Turns, Mine
  <2>1. ~ (i < 1)
    BY <1>3
  <2>2. CASE i = N
    <3>1. sending[s] < r.id /\ sending[s] \in Nat
      BY <1>1, <1>3, TakenFrom DEF Ids, FwdTypes
    <3>2. sending[s] <= r.id
      BY <1>3, <3>1
    <3> QED
      BY <1>3, <1>4, <2>1, <2>2, <3>2
  <2>3. CASE i \in 1..Len(csq)
    BY <1>4, <2>1, <2>3 DEF FwdInv, Turns, Mine
  <2> QED
    BY <1>5, <2>2, <2>3
<1>15. PartsOf'
  <2> SUFFICES ASSUME NEW i \in 1..N, alive[csq'[i].s], put[csq'[i].id].on = conn[csq'[i].s]
               PROVE  LET w == wire[conn[csq'[i].s]]
                      IN  IF csq'[i].left = 2
                          THEN \A k \in 1..Len(w) :
                                 put[w[k][1]].on = conn[csq'[i].s] => w[k][1] < csq'[i].id
                          ELSE /\ sending[csq'[i].s] = csq'[i].id
                               /\ Len(w) > 0 /\ w[Len(w)] = <<csq'[i].id, 1>>
    BY <1>4 DEF PartsOf, Mine
  <2>2. CASE i = N
    <3>1. conn[s] \in 1..Len(wire)
      BY <1>1, <1>3 DEF Connections
    <3>2. \A k \in 1..Len(wire[conn[s]]) : wire[conn[s]][k][1] < r.id
      BY <1>1, <1>3, <3>1, TakenFrom DEF Written
    <3>3. csq'[i].s = s /\ csq'[i].left = 2 /\ csq'[i].id = r.id
      BY <1>3, <1>4, <2>2
    <3> QED
      BY <3>2, <3>3
  <2>3. CASE i \in 1..Len(csq)
    <3>1. csq'[i] = csq[i] /\ Mine(i)
      BY <1>4, <2>3 DEF Mine
    <3> QED
      BY <2>3, <3>1 DEF FwdInv, PartsOf
  <2> QED
    BY <1>5, <2>2, <2>3
<1>16. RestNext' /\ WholeInOrder'
  BY DEF FwdInv, RestNext, WholeInOrder
<1>17. ShareKept'
  <2>1. DOMAIN psends = 1..Len(psends) /\ DOMAIN psends' = 1..Len(psends')
        /\ DOMAIN csq = 1..Len(csq) /\ DOMAIN csq' = 1..N
    BY <1>1, <1>4, <1>10 DEF FwdTypes
  <2> SUFFICES ASSUME NEW id \in DOMAIN put
               PROVE  \/ \E i \in DOMAIN psends' : psends'[i].id = id
                      \/ \E i \in DOMAIN csq' : csq'[i].id = id
                      \/ \E i \in DOMAIN wire[put[id].on] : wire[put[id].on][i] = <<id, Parts>>
                      \/ id \in failed
                      \/ ~ \E t \in Structs : alive[t] /\ conn[t] = put[id].on
    BY DEF ShareKept
  <2>2. CASE \E q \in DOMAIN psends : psends[q].id = id
    <3>1. PICK q \in 1..Len(psends) : psends[q].id = id
      BY <2>1, <2>2
    <3>2. CASE q = 1
      BY <1>3, <1>4, <1>7, <2>1, <3>1, <3>2
    <3>3. CASE \E i \in 1..Len(psends') : psends'[i] = psends[q]
      BY <2>1, <3>1, <3>3
    <3> QED
      BY <3>2, <3>3, TakenFrom
  <2>3. CASE \E q \in DOMAIN csq : csq[q].id = id
    BY <1>4, <1>6, <2>1, <2>3
  <2>4. CASE ~ (\E q \in DOMAIN psends : psends[q].id = id)
             /\ ~ (\E q \in DOMAIN csq : csq[q].id = id)
    BY <2>4 DEF FwdInv, ShareKept
  <2> QED
    BY <2>2, <2>3, <2>4
<1> QED
  BY <1>10, <1>11, <1>12, <1>13, <1>14, <1>15, <1>16, <1>17 DEF FwdInv

LEMMA Taken == FwdInv /\ TakeShare => FwdInv'
<1> SUFFICES ASSUME FwdInv, TakeShare PROVE FwdInv'
  OBVIOUS
<1> DEFINE found == FoundBy(psends[1].to)
<1>1. /\ pass = 0 /\ psends # <<>> /\ psends' = Tail(psends) /\ Head(psends) = psends[1]
      /\ UNCHANGED <<conn, alive, sending, wire, put, lastJob>>
  BY TakenFrom DEF TakeShare, sessionVars, wireVars, jobVars
<1>2. CASE found # {} /\ psends[1].job \in jobs
  <2> DEFINE s == CHOOSE s \in found : TRUE
  <2>1. s \in found
    BY <1>2
  <2>2. csq' = Append(csq, Message(psends[1].id, s)) /\ pass' = 1 /\ UNCHANGED failed
    BY <1>1, <1>2 DEF TakeShare
  <2> HIDE DEF s
  <2> QED
    BY <1>1, <2>1, <2>2, TakenQueued
<1>3. CASE ~ (found # {} /\ psends[1].job \in jobs)
  <2>1. UNCHANGED <<csq, pass>>
    BY <1>1, <1>3 DEF TakeShare
  <2>2. failed \subseteq failed' /\ (found = {} \/ psends[1].id \in failed')
    BY <1>1, <1>3 DEF TakeShare
  <2> QED
    BY <1>1, <2>1, <2>2, TakenDropped
<1> QED
  BY <1>2, <1>3

LEMMA Lost ==
    ASSUME FwdInv, NEW s \in Structs, LoseSession(s)
    PROVE  FwdInv'
<1>1. FwdTypes /\ Connections /\ Ids /\ Written /\ Belong
  BY DEF FwdInv
<1>2. UNCHANGED <<conn, wire, psends, csq, pass, put, failed, lastJob>>
  BY DEF LoseSession, DisabledSession, wireVars, queueVars, passVars, historyVars, jobVars
<1>3. /\ alive' \in [Structs -> BOOLEAN] /\ sending' \in [Structs -> Nat]
      /\ \A t \in Structs : alive'[t] => alive[t] /\ t # s
      /\ \A t \in Structs : sending'[t] = sending[t] \/ sending'[t] = 0
      /\ \A t \in Structs : t # s => sending'[t] = sending[t]
  BY <1>1 DEF LoseSession, DisabledSession, FwdTypes
<1>4. FwdTypes' /\ Connections' /\ Written' /\ Belong'
  <2>1. FwdTypes'
    BY <1>1, <1>2, <1>3 DEF FwdTypes
  <2>2. Connections'
    BY <1>1, <1>2 DEF Connections
  <2>3. Written'
    BY <1>1, <1>2 DEF Written
  <2>4. Belong'
    BY <1>1, <1>2 DEF Belong
  <2> QED
    BY <2>1, <2>2, <2>3, <2>4
<1>5. Ids'
  <2>1. \A t \in Structs : sending'[t] <= Len(put)
    <3>1. 0 <= Len(put)
      BY <1>1 DEF FwdTypes
    <3> QED
      BY <1>1, <1>3, <3>1 DEF Ids
  <2>2. \A t \in Structs : \A j \in 1..Len(psends) : sending'[t] < psends[j].id
    <3>1. \A j \in 1..Len(psends) : psends[j].id \in 1..Len(put)
      BY <1>1 DEF Ids
    <3>2. \A j \in 1..Len(psends) : 0 < psends[j].id
      BY <3>1
    <3> QED
      BY <1>1, <1>3, <3>2 DEF Ids
  <2> QED
    BY <1>1, <1>2, <2>1, <2>2 DEF Ids
<1>6. \A i \in 1..Len(csq) : csq[i].s \in Structs
  BY <1>1, CsMessages
<1>7. ASSUME NEW i \in 1..Len(csq), Mine(i)' PROVE Mine(i) /\ sending'[csq[i].s] = sending[csq[i].s]
  BY <1>2, <1>3, <1>6, <1>7 DEF Mine
<1>8. Turns'
  BY <1>2, <1>7 DEF FwdInv, Turns
<1>9. PartsOf'
  BY <1>2, <1>7 DEF FwdInv, PartsOf
<1>10. RestNext'
  BY <1>2, <1>3 DEF FwdInv, RestNext
<1>11. WholeInOrder'
  BY <1>2 DEF FwdInv, WholeInOrder
<1>12. ShareKept'
  BY <1>2, <1>3 DEF FwdInv, ShareKept
<1> QED
  BY <1>4, <1>5, <1>8, <1>9, <1>10, <1>11, <1>12 DEF FwdInv

LEMMA Connecting ==
    ASSUME FwdInv, NEW s \in Structs, NEW d, ConnectSession(s, d)
    PROVE  FwdInv'
<1> DEFINE C == Len(wire) + 1
<1>1. FwdTypes /\ Connections /\ Ids /\ Written /\ Belong
  BY DEF FwdInv
<1>2. UNCHANGED <<alive, sending, psends, csq, pass, put, failed, lastJob>>
  BY DEF ConnectSession, queueVars, passVars, historyVars, jobVars
<1>3. /\ C \in Nat /\ Len(wire) \in Nat /\ wire' \in Seq(Seq(Part)) /\ Len(wire') = C
      /\ wire'[C] = <<>> /\ \A c \in 1..Len(wire) : wire'[c] = wire[c]
  BY <1>1 DEF ConnectSession, FwdTypes
<1>4. /\ conn' \in [Structs -> Nat] /\ alive' \in [Structs -> BOOLEAN]
      /\ conn'[s] = C /\ ~ alive[s]
      /\ \A t \in Structs : t # s => conn'[t] = conn[t] /\ alive'[t] = alive[t]
  BY <1>1, <1>2, <1>3 DEF ConnectSession, FwdTypes
<1>5. /\ \A x \in 1..C : x \in 1..Len(wire) \/ x = C
      /\ \A x \in 1..Len(wire) : x \in 1..C /\ x # C /\ C # x
      /\ C \in 1..C
  BY <1>3
<1> HIDE DEF C
<1>6. \A id \in 1..Len(put) : put[id].on \in 1..Len(wire)
  BY <1>1 DEF Connections
<1>7. FwdTypes' /\ Connections'
  <2>1. \A t \in Structs : conn'[t] \in 1..C
    BY <1>1, <1>4, <1>5 DEF Connections
  <2>2. \A t, u \in Structs : conn'[t] = conn'[u] => t = u
    <3>1. \A t \in Structs : conn[t] # C
      BY <1>1, <1>5 DEF Connections
    <3> QED
      BY <1>1, <1>4, <3>1 DEF Connections
  <2> QED
    BY <1>1, <1>2, <1>3, <1>4, <1>5, <1>6, <2>1, <2>2 DEF FwdTypes, Connections
<1>8. Ids'
  BY <1>1, <1>2 DEF Ids
<1>9. Written'
  <2>1. \A k \in 1..Len(<<>>) : FALSE
    OBVIOUS
  <2> SUFFICES ASSUME NEW c \in 1..C, NEW k \in 1..Len(wire'[c])
               PROVE  /\ wire'[c][k][1] \in 1..Len(put) /\ wire'[c][k][2] \in 1..2
                      /\ \A j \in 1..Len(psends) : wire'[c][k][1] < psends[j].id
    BY <1>2, <1>3 DEF Written
  <2>2. c \in 1..Len(wire) /\ wire'[c] = wire[c]
    BY <1>3, <1>5, <2>1
  <2> QED
    BY <1>1, <2>2 DEF Written
<1>10. \A t \in Structs : conn'[t] \in 1..Len(wire) => t # s /\ conn'[t] = conn[t]
  BY <1>4, <1>5
<1>11. Belong'
  <2>1. \A i \in 1..Len(psends) : put[psends[i].id].on \in 1..Len(wire)
    BY <1>1, <1>6 DEF Ids
  <2>2. \A i \in 1..Len(csq) : put[csq[i].id].on \in 1..Len(wire)
    BY <1>1, <1>6 DEF Ids
  <2>3. ASSUME NEW i \in 1..Len(psends), NEW t \in Structs, conn'[t] = put[psends[i].id].on
        PROVE  psends[i].to = <<t, IF t \in Parents THEN 0 ELSE conn'[t]>>
    <3>1. conn'[t] = conn[t]
      BY <1>10, <2>1, <2>3
    <3> QED
      BY ZenonT(60), <1>1, <2>3, <3>1 DEF Belong
  <2>4. ASSUME NEW i \in 1..Len(csq), NEW t \in Structs, conn'[t] = put[csq[i].id].on
        PROVE  csq[i].s = t
    <3>1. conn'[t] = conn[t]
      BY <1>10, <2>2, <2>4
    <3> QED
      BY <1>1, <2>4, <3>1 DEF Belong
  <2> QED
    BY <1>2, <2>3, <2>4 DEF Belong
<1>12. ASSUME NEW i \in 1..Len(csq), Mine(i)'
       PROVE  /\ Mine(i) /\ csq[i].s \in Structs /\ conn'[csq[i].s] = conn[csq[i].s]
              /\ wire'[conn'[csq[i].s]] = wire[conn[csq[i].s]]
  <2>1. csq[i].s \in Structs /\ csq[i].id \in 1..Len(put)
    BY <1>1, CsMessages DEF Ids
  <2>2. put[csq[i].id].on = conn'[csq[i].s] /\ alive'[csq[i].s]
    BY <1>2, <1>12 DEF Mine
  <2>3. csq[i].s # s /\ conn'[csq[i].s] = conn[csq[i].s]
    BY <1>6, <1>10, <2>1, <2>2
  <2> QED
    BY <1>1, <1>3, <1>4, <2>1, <2>2, <2>3 DEF Mine, Connections
<1>13. Turns'
  BY <1>2, <1>12 DEF FwdInv, Turns
<1>14. PartsOf'
  <2> SUFFICES ASSUME NEW i \in 1..Len(csq), Mine(i)'
               PROVE  LET w == wire'[conn'[csq[i].s]]
                      IN  IF csq[i].left = 2
                          THEN \A k \in 1..Len(w) :
                                 put[w[k][1]].on = conn'[csq[i].s] => w[k][1] < csq[i].id
                          ELSE /\ sending[csq[i].s] = csq[i].id
                               /\ Len(w) > 0 /\ w[Len(w)] = <<csq[i].id, 1>>
    BY <1>2 DEF PartsOf
  <2> QED
    BY <1>12 DEF FwdInv, PartsOf
<1>15. RestNext'
  <2> SUFFICES ASSUME NEW t \in Structs, alive'[t], Len(wire'[conn'[t]]) > 0,
                      put[wire'[conn'[t]][Len(wire'[conn'[t]])][1]].on = conn'[t],
                      wire'[conn'[t]][Len(wire'[conn'[t]])][2] = 1
               PROVE  sending[t] = wire'[conn'[t]][Len(wire'[conn'[t]])][1]
    BY <1>2 DEF RestNext
  <2>1. t # s
    BY <1>3, <1>4
  <2>2. conn'[t] = conn[t] /\ wire'[conn'[t]] = wire[conn[t]] /\ alive[t]
    BY <1>1, <1>3, <1>4, <2>1 DEF Connections
  <2> QED
    BY <2>2 DEF FwdInv, RestNext
<1>16. WholeInOrder'
  <2>1. DOMAIN wire' = 1..C /\ DOMAIN wire = 1..Len(wire) /\ DOMAIN wire'[C] = {}
    BY <1>1, <1>3, <1>7 DEF FwdTypes
  <2> SUFFICES ASSUME NEW c \in 1..C, NEW i \in DOMAIN wire'[c], put[wire'[c][i][1]].on = c
               PROVE  IF wire'[c][i][2] = 1
                      THEN /\ i < Len(wire'[c]) => wire'[c][i + 1] = <<wire'[c][i][1], 2>>
                           /\ \A j \in 1..(i - 1) : put[wire'[c][j][1]].on = c =>
                                                      wire'[c][j][1] < wire'[c][i][1]
                      ELSE i > 1 /\ wire'[c][i - 1] = <<wire'[c][i][1], 1>>
    BY <1>2, <2>1 DEF WholeInOrder
  <2>2. c \in DOMAIN wire /\ wire'[c] = wire[c]
    BY <1>3, <1>5, <2>1
  <2> QED
    BY <2>2 DEF FwdInv, WholeInOrder
<1>17. ShareKept'
  <2>1. \A id \in DOMAIN put : put[id].on \in 1..Len(wire)
    BY <1>1, <1>6, CsMessages
  <2> SUFFICES ASSUME NEW id \in DOMAIN put
               PROVE  \/ \E i \in DOMAIN psends : psends[i].id = id
                      \/ \E i \in DOMAIN csq : csq[i].id = id
                      \/ \E i \in DOMAIN wire'[put[id].on] : wire'[put[id].on][i] = <<id, Parts>>
                      \/ id \in failed
                      \/ ~ \E t \in Structs : alive'[t] /\ conn'[t] = put[id].on
    BY <1>2 DEF ShareKept
  <2>2. wire'[put[id].on] = wire[put[id].on]
    BY <1>3, <2>1
  <2>3. \A t \in Structs : alive'[t] /\ conn'[t] = put[id].on => alive[t] /\ conn[t] = put[id].on
    BY <1>4, <1>10, <2>1
  <2> QED
    BY <2>2, <2>3 DEF FwdInv, ShareKept
<1> QED
  BY <1>7, <1>8, <1>9, <1>11, <1>13, <1>14, <1>15, <1>16, <1>17 DEF FwdInv

\* No share is for a session when it comes up.
LEMMA Up ==
    ASSUME FwdInv, Sockets, NEW s \in Structs, SessionUp(s)
    PROVE  FwdInv'
<1>1. FwdTypes /\ Connections /\ Ids /\ Written /\ Belong
  BY DEF FwdInv
<1>2. UNCHANGED <<conn, sending, wire, psends, csq, pass, put, failed, lastJob>>
  BY DEF SessionUp, wireVars, queueVars, passVars, historyVars, jobVars
<1>3. /\ alive' \in [Structs -> BOOLEAN]
      /\ \A t \in Structs : t # s => alive'[t] = alive[t]
  BY <1>1 DEF SessionUp, FwdTypes
<1>4. \A id \in 1..Len(put) : put[id].on # conn[s]
  BY DEF SessionUp, Sockets
<1>5. FwdTypes' /\ Connections' /\ Ids' /\ Written' /\ Belong'
  BY <1>1, <1>2, <1>3 DEF FwdTypes, Connections, Ids, Written, Belong
<1>6. ASSUME NEW i \in 1..Len(csq), Mine(i)' PROVE Mine(i)
  <2>1. csq[i].s \in Structs /\ csq[i].id \in 1..Len(put)
    BY <1>1, CsMessages DEF Ids
  <2> QED
    BY <1>2, <1>3, <1>4, <1>6, <2>1 DEF Mine
<1>7. Turns' /\ PartsOf'
  BY <1>2, <1>6 DEF FwdInv, Turns, PartsOf
<1>8. RestNext'
  <2> SUFFICES ASSUME NEW t \in Structs, alive'[t], Len(wire[conn[t]]) > 0,
                      put[wire[conn[t]][Len(wire[conn[t]])][1]].on = conn[t],
                      wire[conn[t]][Len(wire[conn[t]])][2] = 1
               PROVE  sending[t] = wire[conn[t]][Len(wire[conn[t]])][1]
    BY <1>2 DEF RestNext
  <2>1. CASE t = s
    <3>1. conn[t] \in 1..Len(wire) /\ Len(wire[conn[t]]) \in Nat
      BY <1>1, CsMessages DEF Connections
    <3>2. Len(wire[conn[t]]) \in 1..Len(wire[conn[t]])
      BY <3>1
    <3>3. wire[conn[t]][Len(wire[conn[t]])][1] \in 1..Len(put)
      BY <1>1, <3>1, <3>2 DEF Written
    <3> QED
      BY <1>4, <2>1, <3>3
  <2>2. CASE t # s
    BY <1>3, <2>2 DEF FwdInv, RestNext
  <2> QED
    BY <2>1, <2>2
<1>9. WholeInOrder'
  BY <1>2 DEF FwdInv, WholeInOrder
<1>10. ShareKept'
  <2>1. \A id \in DOMAIN put : \A t \in Structs :
           alive'[t] /\ conn[t] = put[id].on => alive[t]
    BY <1>1, <1>3, <1>4, CsMessages
  <2> QED
    BY <1>2, <2>1 DEF FwdInv, ShareKept
<1> QED
  BY <1>5, <1>7, <1>8, <1>9, <1>10 DEF FwdInv

\* What is so when the message at hand may be sent: those of its session that
\* come after it are whole, none comes before, and if the wire ends in the first
\* part of a message, it is this one.
LEMMA AtHand ==
    ASSUME FwdInv, AtMessage, MaySend(At), alive[At.s]
    PROVE  /\ pass \in 1..Len(csq) /\ At = csq[pass] /\ At.s \in Structs
           /\ At.id \in Nat /\ At.id > 0 /\ At.left \in 1..2
           /\ \A j \in 1..Len(csq) : Mine(j) /\ csq[j].s = At.s /\ j # pass =>
                pass < j /\ At.id < csq[j].id /\ csq[j].left = 2
           /\ LET w == wire[conn[At.s]]
              IN  /\ Len(w) > 0 /\ put[w[Len(w)][1]].on = conn[At.s] /\ w[Len(w)][2] = 1 =>
                       Mine(pass) /\ At.left = 1 /\ w[Len(w)] = <<At.id, 1>>
                  /\ Mine(pass) /\ At.left = 1 => Len(w) > 0 /\ w[Len(w)] = <<At.id, 1>>
                  /\ Mine(pass) /\ At.left = 2 =>
                       \A k \in 1..Len(w) : put[w[k][1]].on = conn[At.s] => w[k][1] < At.id
<1> DEFINE s == At.s
           w == wire[conn[s]]
<1>1. FwdTypes /\ Connections /\ Ids /\ Written /\ Turns /\ PartsOf /\ RestNext
  BY DEF FwdInv
<1>2. /\ pass \in 1..Len(csq) /\ At = csq[pass] /\ s \in Structs
      /\ At.id \in Nat /\ At.id > 0 /\ At.left \in 1..2
  <2>1. pass \in 1..Len(csq) /\ At = csq[pass]
    BY <1>1, CsMessages DEF AtMessage, At
  <2> QED
    BY <1>1, <2>1, CsMessages DEF Ids
<1>3. sending[s] = 0 \/ sending[s] = At.id
  BY DEF MaySend
<1>4. ASSUME NEW j \in 1..Len(csq), Mine(j), csq[j].s = s, j # pass
      PROVE  pass < j /\ At.id < csq[j].id /\ csq[j].left = 2
  <2>1. csq[j].id \in Nat /\ csq[j].left \in 1..2
    BY <1>1, CsMessages
  <2>2. sending[s] <= csq[j].id /\ (j < pass => sending[s] # 0)
    BY <1>1, <1>4 DEF Turns
  <2>3. pass < j
    <3>1. ASSUME j < pass PROVE FALSE
      <4>1. csq[j].id < At.id
        BY <1>1, <1>2, <3>1 DEF Ids
      <4> QED
        BY <1>2, <1>3, <2>1, <2>2, <3>1, <4>1
    <3> QED
      BY <1>2, <1>4, <3>1
  <2>4. At.id < csq[j].id
    BY <1>1, <1>2, <2>3 DEF Ids
  <2>5. ASSUME csq[j].left # 2 PROVE FALSE
    <3>1. sending[s] = csq[j].id
      BY <1>1, <1>4, <2>5 DEF PartsOf
    <3> QED
      BY <1>2, <1>3, <2>1, <2>4, <3>1
  <2> QED
    BY <2>3, <2>4, <2>5
<1>5. Mine(pass) => put[At.id].on = conn[s]
  BY <1>2 DEF Mine
<1>6. /\ Mine(pass) /\ At.left = 1 => Len(w) > 0 /\ w[Len(w)] = <<At.id, 1>>
      /\ Mine(pass) /\ At.left = 2 =>
           \A k \in 1..Len(w) : put[w[k][1]].on = conn[s] => w[k][1] < At.id
  <2>1. Mine(pass) =>
          IF csq[pass].left = 2
          THEN \A k \in 1..Len(wire[conn[csq[pass].s]]) :
                 put[wire[conn[csq[pass].s]][k][1]].on = conn[csq[pass].s] =>
                   wire[conn[csq[pass].s]][k][1] < csq[pass].id
          ELSE /\ sending[csq[pass].s] = csq[pass].id
               /\ Len(wire[conn[csq[pass].s]]) > 0
               /\ wire[conn[csq[pass].s]][Len(wire[conn[csq[pass].s]])] = <<csq[pass].id, 1>>
    BY <1>1, <1>2, Zenon DEF PartsOf
  <2>2. At.left = 1 => At.left # 2
    OBVIOUS
  <2> QED
    BY <1>2, <2>1, <2>2, Zenon
<1>7. ASSUME Len(w) > 0, put[w[Len(w)][1]].on = conn[s], w[Len(w)][2] = 1
      PROVE  Mine(pass) /\ At.left = 1 /\ w[Len(w)] = <<At.id, 1>>
  <2>1. conn[s] \in 1..Len(wire) /\ Len(w) \in 1..Len(w)
    <3>1. conn[s] \in 1..Len(wire)
      BY <1>1, <1>2 DEF Connections
    <3>2. Len(w) \in Nat
      BY <1>1, <3>1, CsMessages
    <3> QED
      BY <1>7, <3>1, <3>2
  <2>2. w[Len(w)][1] \in 1..Len(put)
    BY <1>1, <2>1 DEF Written
  <2>3. sending[s] = w[Len(w)][1]
    BY <1>1, <1>2, <1>7 DEF RestNext
  <2>4. w[Len(w)][1] = At.id
    BY <1>3, <2>2, <2>3
  <2>5. Mine(pass)
    BY <1>2, <1>7, <2>4 DEF Mine
  <2>6. At.left # 2
    <3>1. ASSUME At.left = 2 PROVE At.id < At.id
      BY <1>6, <1>7, <2>1, <2>4, <2>5, <3>1
    <3> QED
      BY <1>2, <3>1
  <2> QED
    BY <1>2, <1>6, <2>5, <2>6
<1> QED
  BY <1>2, <1>4, <1>6, <1>7

LEMMA AtTypes ==
    ASSUME FwdInv, AtMessage
    PROVE  /\ pass \in 1..Len(csq) /\ At = csq[pass] /\ At.s \in Structs
           /\ At.id \in 1..Len(put) /\ At.id \in Nat /\ At.id > 0 /\ At.left \in 1..2
<1>1. FwdTypes /\ Ids
  BY DEF FwdInv
<1>2. pass \in 1..Len(csq) /\ At = csq[pass]
  BY <1>1, CsMessages DEF AtMessage, At
<1> QED
  BY <1>1, <1>2, CsMessages DEF Ids

LEMMA StepAt ==
    ASSUME FwdInv, AtStep, step # "test"
    PROVE  AtMessage /\ MaySend(At)
BY CsMessages DEF FwdInv, AtStep, AtMessage, MaySend, At

LEMMA Loaded == FwdInv /\ AtStep /\ PassLoad => FwdInv'
<1> SUFFICES ASSUME FwdInv, AtStep, PassLoad PROVE FwdInv'
  OBVIOUS
<1> DEFINE s == At.s
<1>1. FwdTypes /\ Connections /\ Ids /\ Written /\ Belong
  BY DEF FwdInv
<1>2. /\ AtMessage /\ MaySend(At)
      /\ sending' = [sending EXCEPT ![s] = At.id] /\ pass' = pass
      /\ UNCHANGED <<conn, alive, wire, psends, csq, put, failed, lastJob>>
  BY StepAt DEF PassLoad, wireVars, jobVars, historyVars
<1>3. /\ pass \in 1..Len(csq) /\ At = csq[pass] /\ s \in Structs
      /\ At.id \in Nat /\ At.id > 0
  BY <1>2, AtTypes
<1>4. /\ sending' \in [Structs -> Nat] /\ sending'[s] = At.id
      /\ \A t \in Structs : t # s => sending'[t] = sending[t]
  BY <1>1, <1>2, <1>3 DEF FwdTypes
<1>5. FwdTypes' /\ Connections' /\ Written' /\ Belong'
  <2>1. pass' \in Nat
    BY <1>1, <1>2 DEF FwdTypes
  <2>2. FwdTypes'
    BY <1>1, <1>2, <1>4, <2>1 DEF FwdTypes
  <2>3. Connections'
    BY <1>1, <1>2 DEF Connections
  <2>4. Written'
    BY <1>1, <1>2 DEF Written
  <2>5. Belong'
    BY <1>1, <1>2 DEF Belong
  <2> QED
    BY <2>2, <2>3, <2>4, <2>5
<1>6. Ids'
  <2>1. At.id <= Len(put) /\ \A j \in 1..Len(psends) : At.id < psends[j].id
    BY <1>1, <1>3 DEF Ids
  <2>2. \A t \in Structs : sending'[t] <= Len(put)
    BY <1>1, <1>4, <2>1 DEF Ids
  <2>3. \A t \in Structs : \A j \in 1..Len(psends) : sending'[t] < psends[j].id
    BY <1>1, <1>4, <2>1 DEF Ids
  <2> QED
    BY <1>1, <1>2, <2>2, <2>3 DEF Ids
<1>7. ASSUME NEW j \in 1..Len(csq), Mine(j)', csq[j].s # s
      PROVE  Mine(j) /\ sending'[csq[j].s] = sending[csq[j].s] /\ (j < pass' => j < pass)
  <2>1. csq[j].s \in Structs
    BY <1>1, CsMessages
  <2>2. j < pass' => j < pass
    BY <1>2, <1>3, <1>7
  <2> QED
    BY <1>2, <1>4, <1>7, <2>1, <2>2 DEF Mine
<1>8. ASSUME NEW j \in 1..Len(csq), Mine(j)', csq[j].s = s, j # pass
      PROVE  Mine(j) /\ pass < j /\ At.id < csq[j].id /\ csq[j].left = 2
  BY <1>2, <1>3, <1>8, AtHand DEF Mine
<1>9. Turns'
  <2> SUFFICES ASSUME NEW j \in 1..Len(csq), Mine(j)'
               PROVE  /\ sending'[csq[j].s] <= csq[j].id
                      /\ j < pass' => sending'[csq[j].s] # 0
    BY <1>2 DEF Turns
  <2>1. CASE csq[j].s # s
    BY <1>7, <2>1 DEF FwdInv, Turns
  <2>2. CASE csq[j].s = s /\ j # pass
    <3>1. pass < j /\ At.id < csq[j].id /\ csq[j].id \in Nat
      BY <1>1, <1>8, <2>2, CsMessages
    <3> QED
      BY <1>2, <1>3, <1>4, <2>2, <3>1
  <2>3. CASE j = pass
    BY <1>3, <1>4, <2>3
  <2> QED
    BY <2>1, <2>2, <2>3
<1>10. PartsOf'
  <2> SUFFICES ASSUME NEW j \in 1..Len(csq), Mine(j)'
               PROVE  LET w == wire[conn[csq[j].s]]
                      IN  IF csq[j].left = 2
                          THEN \A k \in 1..Len(w) :
                                 put[w[k][1]].on = conn[csq[j].s] => w[k][1] < csq[j].id
                          ELSE /\ sending'[csq[j].s] = csq[j].id
                               /\ Len(w) > 0 /\ w[Len(w)] = <<csq[j].id, 1>>
    BY <1>2 DEF PartsOf
  <2>0. Mine(j)
    BY <1>2 DEF Mine
  <2>1. CASE csq[j].s # s
    BY <1>7, <2>0, <2>1 DEF FwdInv, PartsOf
  <2>2. CASE csq[j].s = s /\ j # pass
    BY <1>8, <2>0, <2>2 DEF FwdInv, PartsOf
  <2>3. CASE j = pass
    BY <1>3, <1>4, <2>0, <2>3 DEF FwdInv, PartsOf
  <2> QED
    BY <2>1, <2>2, <2>3
<1>11. RestNext'
  <2> SUFFICES ASSUME NEW t \in Structs, alive[t], Len(wire[conn[t]]) > 0,
                      put[wire[conn[t]][Len(wire[conn[t]])][1]].on = conn[t],
                      wire[conn[t]][Len(wire[conn[t]])][2] = 1
               PROVE  sending'[t] = wire[conn[t]][Len(wire[conn[t]])][1]
    BY <1>2 DEF RestNext
  <2>1. CASE t = s
    <3> DEFINE w == wire[conn[s]]
    <3>1. w[Len(w)] = <<At.id, 1>>
      BY <1>2, <2>1, AtHand
    <3> QED
      BY <1>4, <2>1, <3>1
  <2>2. CASE t # s
    BY <1>4, <2>2 DEF FwdInv, RestNext
  <2> QED
    BY <2>1, <2>2
<1>12. WholeInOrder' /\ ShareKept'
  BY <1>2 DEF FwdInv, WholeInOrder, ShareKept
<1> QED
  BY <1>5, <1>6, <1>9, <1>10, <1>11, <1>12 DEF FwdInv

LEMMA RemovedAt ==
    ASSUME NEW S, NEW q \in Seq(S), NEW i \in 1..Len(q)
    PROVE  /\ RemoveAt(q, i) \in Seq(S) /\ Len(RemoveAt(q, i)) = Len(q) - 1
           /\ \A k \in 1..(Len(q) - 1) : RemoveAt(q, i)[k] = IF k < i THEN q[k] ELSE q[k + 1]
<1> DEFINE a == SubSeq(q, 1, i - 1)
           b == SubSeq(q, i + 1, Len(q))
<1>1. a \in Seq(S) /\ Len(a) = i - 1 /\ \A k \in 1..(i - 1) : a[k] = q[k]
  BY SubSeqProperties
<1>2. b \in Seq(S) /\ Len(b) = Len(q) - i /\ \A k \in 1..(Len(q) - i) : b[k] = q[i + 1 + k - 1]
  BY SubSeqProperties
<1>3. RemoveAt(q, i) = a \o b
  BY DEF RemoveAt
<1> HIDE DEF a, b
<1>4. /\ a \o b \in Seq(S) /\ Len(a \o b) = Len(a) + Len(b)
      /\ \A k \in 1..(Len(a) + Len(b)) :
            (a \o b)[k] = IF k <= Len(a) THEN a[k] ELSE b[k - Len(a)]
  BY <1>1, <1>2, ConcatProperties
<1>5. Len(a) + Len(b) = Len(q) - 1 /\ Len(q) \in Nat
  BY <1>1, <1>2
<1>6. ASSUME NEW k \in 1..(Len(q) - 1)
      PROVE  (a \o b)[k] = IF k < i THEN q[k] ELSE q[k + 1]
  <2>1. (a \o b)[k] = IF k <= i - 1 THEN a[k] ELSE b[k - (i - 1)]
    BY <1>1, <1>4, <1>5
  <2>2. CASE k < i
    <3>1. k \in 1..(i - 1)
      BY <1>5, <2>2
    <3> QED
      BY <1>1, <2>1, <2>2, <3>1
  <2>3. CASE ~ (k < i)
    <3>1. PICK m \in 1..(Len(q) - i) : m = k - (i - 1)
      BY <1>5, <2>3
    <3>2. b[m] = q[i + 1 + m - 1] /\ i + 1 + m - 1 = k + 1
      BY <1>2, <1>5, <3>1
    <3> QED
      BY <2>1, <2>3, <3>1, <3>2
  <2> QED
    BY <2>2, <2>3
<1> QED
  BY <1>3, <1>4, <1>5, <1>6

\* What is left of csq when the message at hand is gone.
LEMMA Removal ==
    ASSUME FwdInv, pass \in 1..Len(csq), Dispatched
    PROVE  /\ csq' \in Seq(MsgOf) /\ pass' = pass
           /\ \A k \in 1..Len(csq') : \E q \in 1..Len(csq) :
                q # pass /\ csq'[k] = csq[q] /\ (k < pass => q < pass)
           /\ \A k, l \in 1..Len(csq') : k < l => csq'[k].id < csq'[l].id
           /\ \A q \in 1..Len(csq) : q = pass \/ \E k \in 1..Len(csq') : csq'[k] = csq[q]
<1>1. csq \in Seq(MsgOf) /\ Ids /\ Len(csq) \in Nat /\ pass \in Nat
  BY DEF FwdInv, FwdTypes
<1>2. /\ csq' \in Seq(MsgOf) /\ Len(csq') = Len(csq) - 1 /\ pass' = pass
      /\ \A k \in 1..Len(csq') : csq'[k] = IF k < pass THEN csq[k] ELSE csq[k + 1]
  BY <1>1, RemovedAt DEF Dispatched
<1>3. ASSUME NEW k \in 1..Len(csq')
      PROVE  \E q \in 1..Len(csq) : /\ q # pass /\ csq'[k] = csq[q]
                                    /\ q = IF k < pass THEN k ELSE k + 1
  <2>1. PICK q \in 1..Len(csq) : q # pass /\ q = IF k < pass THEN k ELSE k + 1
    <3>1. CASE k < pass
      BY <1>1, <1>2, <3>1
    <3>2. CASE ~ (k < pass)
      <4>1. k + 1 \in 1..Len(csq) /\ k + 1 # pass
        BY <1>1, <1>2, <3>2
      <4> QED
        BY <3>2, <4>1
    <3> QED
      BY <3>1, <3>2
  <2> QED
    BY <1>2, <2>1
<1>4. ASSUME NEW k \in 1..Len(csq'), NEW l \in 1..Len(csq'), k < l
      PROVE  csq'[k].id < csq'[l].id
  <2>1. PICK p \in 1..Len(csq) : csq'[k] = csq[p] /\ p = IF k < pass THEN k ELSE k + 1
    BY <1>3
  <2>2. PICK q \in 1..Len(csq) : csq'[l] = csq[q] /\ q = IF l < pass THEN l ELSE l + 1
    BY <1>3
  <2>3. p < q
    BY <1>1, <1>4, <2>1, <2>2
  <2> QED
    BY <1>1, <2>1, <2>2, <2>3 DEF Ids
<1>5. ASSUME NEW q \in 1..Len(csq), q # pass
      PROVE  \E k \in 1..Len(csq') : csq'[k] = csq[q]
  <2>1. CASE q < pass
    <3>1. q \in 1..Len(csq')
      BY <1>1, <1>2, <2>1
    <3> QED
      BY <1>2, <2>1, <3>1
  <2>2. CASE pass < q
    <3>1. PICK k \in 1..Len(csq') : q = k + 1 /\ ~ (k < pass)
      BY <1>1, <1>2, <2>2
    <3> QED
      BY <1>2, <3>1
  <2> QED
    BY <1>1, <1>5, <2>1, <2>2
<1> QED
  BY <1>2, <1>3, <1>4, <1>5

\* The message at hand is dropped with its session.
LEMMA Dropped ==
    ASSUME FwdInv, AtMessage, Dispatched, sending' = [sending EXCEPT ![At.s] = 0],
           alive' = [alive EXCEPT ![At.s] = FALSE],
           UNCHANGED <<conn, wire, psends, put, failed, lastJob>>
    PROVE  FwdInv'
<1> DEFINE s == At.s
<1>1. FwdTypes /\ Connections /\ Ids /\ Written /\ Belong
  BY DEF FwdInv
<1>2. /\ pass \in 1..Len(csq) /\ At = csq[pass] /\ s \in Structs
  <2>1. pass \in 1..Len(csq) /\ At = csq[pass]
    BY <1>1, CsMessages DEF AtMessage, At
  <2> QED
    BY <1>1, <2>1, CsMessages DEF Ids
<1>3. /\ alive' \in [Structs -> BOOLEAN] /\ sending' \in [Structs -> Nat] /\ ~ alive'[s]
      /\ \A t \in Structs : alive'[t] => alive[t] /\ t # s
      /\ \A t \in Structs : sending'[t] = sending[t] \/ sending'[t] = 0
      /\ \A t \in Structs : t # s => sending'[t] = sending[t]
  BY <1>1, <1>2 DEF FwdTypes
<1>4. \A k \in 1..Len(csq') : \E q \in 1..Len(csq) :
         q # pass /\ csq'[k] = csq[q] /\ (k < pass => q < pass)
  BY <1>2, Removal
<1>5. FwdTypes' /\ Connections' /\ Written' /\ Belong'
  <2>1. csq' \in Seq(MsgOf) /\ pass' = pass
    BY <1>2, Removal
  <2>2. FwdTypes'
    BY <1>1, <1>3, <2>1 DEF FwdTypes
  <2>3. Connections' /\ Written'
    BY <1>1 DEF Connections, Written
  <2>4. \A i \in 1..Len(csq') : \A t \in Structs :
          conn[t] = put[csq'[i].id].on => csq'[i].s = t
    BY <1>1, <1>4 DEF Belong
  <2>5. Belong'
    BY <1>1, <2>4 DEF Belong
  <2> QED
    BY <2>2, <2>3, <2>5
<1>6. Ids'
  <2>1. \A t \in Structs : sending'[t] <= Len(put)
    <3>1. 0 <= Len(put)
      BY <1>1 DEF FwdTypes
    <3> QED
      BY <1>1, <1>3, <3>1 DEF Ids
  <2>2. \A t \in Structs : \A j \in 1..Len(psends) : sending'[t] < psends[j].id
    <3>1. \A j \in 1..Len(psends) : psends[j].id \in 1..Len(put)
      BY <1>1 DEF Ids
    <3>2. \A j \in 1..Len(psends) : 0 < psends[j].id
      BY <3>1
    <3> QED
      BY <1>1, <1>3, <3>2 DEF Ids
  <2>3. \A k, l \in 1..Len(csq') : k < l => csq'[k].id < csq'[l].id
    BY <1>2, Removal
  <2> QED
    BY <1>1, <1>4, <2>1, <2>2, <2>3 DEF Ids
<1>7. ASSUME NEW k \in 1..Len(csq'), Mine(k)'
      PROVE  \E q \in 1..Len(csq) : /\ csq'[k] = csq[q] /\ Mine(q) /\ (k < pass' => q < pass)
                                    /\ sending'[csq[q].s] = sending[csq[q].s]
  <2>1. PICK q \in 1..Len(csq) : csq'[k] = csq[q] /\ (k < pass => q < pass)
    BY <1>4
  <2>2. csq[q].s \in Structs
    BY <1>1, CsMessages
  <2>3. pass' = pass
    BY <1>2, Removal
  <2> QED
    BY <1>3, <1>7, <2>1, <2>2, <2>3 DEF Mine
<1>8. Turns'
  BY <1>7 DEF FwdInv, Turns
<1>9. PartsOf'
  <2> SUFFICES ASSUME NEW k \in 1..Len(csq'), Mine(k)'
               PROVE  LET w == wire[conn[csq'[k].s]]
                      IN  IF csq'[k].left = 2
                          THEN \A l \in 1..Len(w) :
                                 put[w[l][1]].on = conn[csq'[k].s] => w[l][1] < csq'[k].id
                          ELSE /\ sending'[csq'[k].s] = csq'[k].id
                               /\ Len(w) > 0 /\ w[Len(w)] = <<csq'[k].id, 1>>
    BY <1>1 DEF PartsOf
  <2>1. PICK q \in 1..Len(csq) : /\ csq'[k] = csq[q] /\ Mine(q)
                                 /\ sending'[csq[q].s] = sending[csq[q].s]
    BY <1>7
  <2> QED
    BY <2>1 DEF FwdInv, PartsOf
<1>10. RestNext'
  BY <1>3 DEF FwdInv, RestNext
<1>11. WholeInOrder'
  BY DEF FwdInv, WholeInOrder
<1>12. ShareKept'
  <2>1. DOMAIN csq = 1..Len(csq) /\ DOMAIN csq' = 1..Len(csq') /\ DOMAIN put = 1..Len(put)
    BY <1>1, <1>5 DEF FwdTypes
  <2> SUFFICES ASSUME NEW id \in 1..Len(put)
               PROVE  \/ \E i \in DOMAIN psends : psends[i].id = id
                      \/ \E i \in DOMAIN csq' : csq'[i].id = id
                      \/ \E i \in DOMAIN wire[put[id].on] : wire[put[id].on][i] = <<id, Parts>>
                      \/ id \in failed
                      \/ ~ \E t \in Structs : alive'[t] /\ conn[t] = put[id].on
    BY <2>1 DEF ShareKept
  <2>2. CASE \E q \in DOMAIN csq : csq[q].id = id
    <3>1. PICK q \in 1..Len(csq) : csq[q].id = id
      BY <2>1, <2>2
    <3>2. CASE q = pass
      <4>1. \A t \in Structs : conn[t] = put[id].on => t = s
        BY <1>1, <1>2, <3>1, <3>2 DEF Belong
      <4> QED
        BY <1>3, <4>1
    <3>3. CASE \E k \in 1..Len(csq') : csq'[k] = csq[q]
      BY <2>1, <3>1, <3>3
    <3> QED
      BY <1>2, <3>2, <3>3, Removal
  <2>3. CASE ~ \E q \in DOMAIN csq : csq[q].id = id
    BY <1>3, <2>1, <2>3 DEF FwdInv, ShareKept
  <2> QED
    BY <2>2, <2>3
<1> QED
  BY <1>5, <1>6, <1>8, <1>9, <1>10, <1>11, <1>12 DEF FwdInv

LEMMA DeadOrError == FwdInv /\ AtStep /\ (PassDead \/ PassError) => FwdInv'
<1> SUFFICES ASSUME FwdInv, AtStep, PassDead \/ PassError PROVE FwdInv'
  OBVIOUS
<1>0. AtMessage
  BY StepAt DEF PassDead, PassError
<1>1. /\ AtMessage /\ Dispatched /\ sending' = [sending EXCEPT ![At.s] = 0]
      /\ UNCHANGED <<conn, wire, psends, put, failed, lastJob>>
  BY <1>0 DEF PassDead, PassError, wireVars, jobVars, historyVars
<1>2. alive' = [alive EXCEPT ![At.s] = FALSE]
  <2>1. CASE PassError
    BY <2>1 DEF PassError
  <2>2. CASE PassDead
    <3>1. alive' = alive /\ alive[At.s] = FALSE /\ alive \in [Structs -> BOOLEAN]
      <4>1. FwdTypes /\ At.s \in Structs
        <5>1. FwdTypes /\ pass \in 1..Len(csq) /\ At = csq[pass]
          BY <1>1, CsMessages DEF FwdInv, AtMessage, At
        <5> QED
          BY <5>1, CsMessages
      <4> QED
        BY <2>2, <4>1 DEF PassDead, FwdTypes
    <3> QED
      BY <3>1
  <2> QED
    BY <2>1, <2>2
<1> QED
  BY <1>1, <1>2, Dropped

\* A part of the message at hand is written to the socket of session r, to its own.
SentTo(r) == wire' = [wire EXCEPT ![conn[r]] = Append(@, <<At.id, Parts - At.left + 1>>)]
Sent == SentTo(At.s)

LEMMA WireGrowsAt ==
    ASSUME FwdInv, AtMessage, NEW r \in Structs, SentTo(r)
    PROVE  LET c == conn[r]
               x == <<At.id, IF At.left = 2 THEN 1 ELSE 2>>
           IN  /\ c \in 1..Len(wire) /\ wire' \in Seq(Seq(Part)) /\ Len(wire') = Len(wire)
               /\ \A d \in 1..Len(wire) : d # c => wire'[d] = wire[d]
               /\ wire'[c] \in Seq(Part) /\ Len(wire'[c]) = Len(wire[c]) + 1
               /\ wire[c] \in Seq(Part) /\ Len(wire[c]) \in Nat
               /\ wire'[c][Len(wire[c]) + 1] = x
               /\ \A k \in 1..Len(wire[c]) : wire'[c][k] = wire[c][k]
<1> DEFINE c == conn[r]
           x == <<At.id, IF At.left = 2 THEN 1 ELSE 2>>
<1>1. FwdTypes /\ Connections
  BY DEF FwdInv
<1>2. c \in 1..Len(wire) /\ wire[c] \in Seq(Part) /\ Len(wire[c]) \in Nat
  BY <1>1, CsMessages DEF Connections
<1>3. x \in Part
  BY AtTypes DEF Part
<1>4. Parts - At.left + 1 = IF At.left = 2 THEN 1 ELSE 2
  BY AtTypes DEF Parts
<1>5. wire' = [wire EXCEPT ![c] = Append(wire[c], x)]
  BY <1>4 DEF SentTo
<1> HIDE DEF c, x
<1>6. /\ Append(wire[c], x) \in Seq(Part) /\ Len(Append(wire[c], x)) = Len(wire[c]) + 1
      /\ Append(wire[c], x)[Len(wire[c]) + 1] = x
      /\ \A k \in 1..Len(wire[c]) : Append(wire[c], x)[k] = wire[c][k]
  BY <1>2, <1>3
<1>7. wire \in Seq(Seq(Part))
  BY <1>1 DEF FwdTypes
<1>8. wire' \in Seq(Seq(Part)) /\ Len(wire') = Len(wire)
      /\ \A d \in 1..Len(wire) : wire'[d] = IF d = c THEN Append(wire[c], x) ELSE wire[d]
  BY <1>2, <1>5, <1>6, <1>7, ExceptSeq
<1>9. /\ c \in 1..Len(wire) /\ wire' \in Seq(Seq(Part)) /\ Len(wire') = Len(wire)
      /\ \A d \in 1..Len(wire) : d # c => wire'[d] = wire[d]
      /\ wire'[c] \in Seq(Part) /\ Len(wire'[c]) = Len(wire[c]) + 1
      /\ wire[c] \in Seq(Part) /\ Len(wire[c]) \in Nat
      /\ wire'[c][Len(wire[c]) + 1] = x
      /\ \A k \in 1..Len(wire[c]) : wire'[c][k] = wire[c][k]
  <2>1. wire'[c] = Append(wire[c], x)
    BY <1>2, <1>8
  <2> QED
    BY <1>2, <1>6, <1>8, <2>1
<1> QED
  BY <1>9, Zenon DEF c, x

LEMMA WireGrows ==
    ASSUME FwdInv, AtMessage, MaySend(At), alive[At.s],
           Sent
    PROVE  LET c == conn[At.s]
               x == <<At.id, IF At.left = 2 THEN 1 ELSE 2>>
           IN  /\ c \in 1..Len(wire) /\ wire' \in Seq(Seq(Part)) /\ Len(wire') = Len(wire)
               /\ \A d \in 1..Len(wire) : d # c => wire'[d] = wire[d]
               /\ wire'[c] \in Seq(Part) /\ Len(wire'[c]) = Len(wire[c]) + 1
               /\ wire[c] \in Seq(Part) /\ Len(wire[c]) \in Nat
               /\ wire'[c][Len(wire[c]) + 1] = x
               /\ \A k \in 1..Len(wire[c]) : wire'[c][k] = wire[c][k]
<1>1. At.s \in Structs /\ SentTo(At.s)
  BY AtTypes DEF Sent
<1> QED
  BY <1>1, WireGrowsAt, Zenon

LEMMA WrittenInOrder ==
    ASSUME FwdInv, AtMessage, MaySend(At), alive[At.s],
           Sent, put' = put, psends' = psends
    PROVE  Written' /\ WholeInOrder'
<1> DEFINE c == conn[At.s]
           x == <<At.id, IF At.left = 2 THEN 1 ELSE 2>>
           L == Len(wire[c])
<1>1. FwdTypes /\ Connections /\ Ids /\ Written
  BY DEF FwdInv
<1>2. /\ c \in 1..Len(wire) /\ wire' \in Seq(Seq(Part)) /\ Len(wire') = Len(wire)
      /\ \A d \in 1..Len(wire) : d # c => wire'[d] = wire[d]
      /\ wire'[c] \in Seq(Part) /\ Len(wire'[c]) = L + 1 /\ L \in Nat /\ wire'[c][L + 1] = x
      /\ \A k \in 1..L : wire'[c][k] = wire[c][k]
  BY WireGrows
<1>3. At.id \in 1..Len(put) /\ \A j \in 1..Len(psends) : At.id < psends[j].id
  BY <1>1, AtHand DEF Ids
<1>4. x[1] = At.id /\ x[2] = IF At.left = 2 THEN 1 ELSE 2
  OBVIOUS
<1>5. \A k \in 1..(L + 1) : k \in 1..L \/ k = L + 1
  BY <1>2
<1>6. /\ L > 0 /\ put[wire[c][L][1]].on = c /\ wire[c][L][2] = 1 =>
           Mine(pass) /\ At.left = 1 /\ wire[c][L] = <<At.id, 1>>
      /\ Mine(pass) /\ At.left = 1 => L > 0 /\ wire[c][L] = <<At.id, 1>>
      /\ Mine(pass) /\ At.left = 2 =>
           \A k \in 1..L : put[wire[c][k][1]].on = c => wire[c][k][1] < At.id
      /\ pass \in 1..Len(csq) /\ At = csq[pass] /\ At.left \in 1..2
  BY AtHand, Zenon
<1>7. put[At.id].on = c => Mine(pass)
  BY <1>6 DEF Mine
<1> HIDE DEF c, x, L
<1>10. Written'
  <2> SUFFICES ASSUME NEW d \in 1..Len(wire), NEW k \in 1..Len(wire'[d])
               PROVE  /\ wire'[d][k][1] \in 1..Len(put) /\ wire'[d][k][2] \in 1..2
                      /\ \A j \in 1..Len(psends) : wire'[d][k][1] < psends[j].id
    BY <1>2 DEF Written
  <2>1. CASE d # c
    BY <1>1, <1>2, <2>1 DEF Written
  <2>2. CASE d = c /\ k \in 1..L
    BY <1>1, <1>2, <2>2 DEF Written, L
  <2>3. CASE d = c /\ k = L + 1
    BY <1>2, <1>3, <1>4, <2>3
  <2> QED
    BY <1>2, <1>5, <2>1, <2>2, <2>3
<1>11. WholeInOrder'
  <2>1. DOMAIN wire' = 1..Len(wire) /\ DOMAIN wire = 1..Len(wire)
        /\ DOMAIN wire'[c] = 1..(L + 1) /\ DOMAIN wire[c] = 1..L
    <3>1. wire \in Seq(Seq(Part)) /\ wire' \in Seq(Seq(Part)) /\ Len(wire') = Len(wire)
      BY <1>1, <1>2 DEF FwdTypes
    <3>2. wire[c] \in Seq(Part) /\ Len(wire[c]) = L
      BY <1>2, <3>1 DEF L
    <3>3. wire'[c] \in Seq(Part) /\ Len(wire'[c]) = L + 1
      BY <1>2
    <3>4. DOMAIN wire' = 1..Len(wire) /\ DOMAIN wire = 1..Len(wire)
      BY <3>1
    <3> QED
      BY <3>2, <3>3, <3>4
  <2> SUFFICES ASSUME NEW d \in 1..Len(wire), NEW i \in DOMAIN wire'[d],
                      put[wire'[d][i][1]].on = d
               PROVE  IF wire'[d][i][2] = 1
                      THEN /\ i < Len(wire'[d]) => wire'[d][i + 1] = <<wire'[d][i][1], 2>>
                           /\ \A j \in 1..(i - 1) : put[wire'[d][j][1]].on = d =>
                                                      wire'[d][j][1] < wire'[d][i][1]
                      ELSE i > 1 /\ wire'[d][i - 1] = <<wire'[d][i][1], 1>>
    BY SMTT(60), <2>1 DEF WholeInOrder
  <2>2. CASE d # c
    <3>1. wire'[d] = wire[d] /\ d \in DOMAIN wire
      BY <1>2, <2>1, <2>2
    <3> QED
      BY <3>1 DEF FwdInv, WholeInOrder
  <2>3. CASE d = c /\ i \in 1..L
    <3>1. wire'[c][i] = wire[c][i] /\ put[wire[c][i][1]].on = c /\ i \in DOMAIN wire[c]
          /\ c \in DOMAIN wire
      BY <1>2, <2>1, <2>3
    <3>2. IF wire[c][i][2] = 1
          THEN /\ i < L => wire[c][i + 1] = <<wire[c][i][1], 2>>
               /\ \A j \in 1..(i - 1) : put[wire[c][j][1]].on = c =>
                                          wire[c][j][1] < wire[c][i][1]
          ELSE i > 1 /\ wire[c][i - 1] = <<wire[c][i][1], 1>>
      BY <3>1 DEF FwdInv, WholeInOrder, L
    <3>3. \A j \in 1..(i - 1) : wire'[c][j] = wire[c][j]
      <4>1. \A j \in 1..(i - 1) : j \in 1..L
        BY <1>2, <2>3
      <4> QED
        BY <1>2, <4>1
    <3>4. CASE wire[c][i][2] # 1
      <4>1. i > 1 /\ i - 1 \in 1..(i - 1)
        BY <2>3, <3>2, <3>4
      <4> QED
        BY <2>3, <3>1, <3>2, <3>3, <3>4, <4>1
    <3>5. CASE wire[c][i][2] = 1 /\ i < L
      <4>1. PICK m \in 1..L : m = i + 1
        BY <1>2, <2>3, <3>5
      <4>2. wire'[c][m] = <<wire[c][i][1], 2>>
        BY <1>2, <3>2, <3>5, <4>1
      <4> QED
        BY <2>3, <3>1, <3>2, <3>3, <3>5, <4>1, <4>2
    <3>6. CASE wire[c][i][2] = 1 /\ i = L
      <4>1. wire[c][i] = <<At.id, 1>> /\ At.left = 1
        <5>1. L > 0
          BY <1>2, <2>3
        <5> QED
          BY <1>6, <3>1, <3>6, <5>1
      <4>2. wire'[c][i + 1] = <<wire[c][i][1], 2>>
        BY <1>2, <3>6, <4>1 DEF x
      <4> QED
        BY <2>3, <3>1, <3>2, <3>3, <3>6, <4>2
    <3> QED
      BY <1>2, <2>3, <3>4, <3>5, <3>6
  <2>4. CASE d = c /\ i = L + 1
    <3>1. wire'[c][i] = x /\ put[At.id].on = c /\ Mine(pass)
      BY <1>2, <1>4, <1>7, <2>4
    <3>2. CASE At.left = 2
      <4>1. \A j \in 1..(i - 1) : j \in 1..L /\ wire'[c][j] = wire[c][j]
        BY <1>2, <2>4
      <4>2. ~ (i < Len(wire'[c]))
        BY <1>2, <2>4
      <4>3. \A j \in 1..(i - 1) : put[wire'[c][j][1]].on = c => wire'[c][j][1] < At.id
        BY <1>6, <3>1, <3>2, <4>1
      <4> QED
        BY <1>4, <2>4, <3>1, <3>2, <4>2, <4>3
    <3>3. CASE At.left = 1
      <4>1. L > 0 /\ wire[c][L] = <<At.id, 1>>
        BY <1>6, <3>1, <3>3
      <4>2. wire'[c][L] = <<At.id, 1>> /\ i - 1 = L /\ i > 1
        <5>1. L \in 1..L /\ i - 1 = L /\ i > 1
          BY <1>2, <2>4, <4>1
        <5> QED
          BY <1>2, <4>1, <5>1
      <4> QED
        BY <1>4, <2>4, <3>1, <3>3, <4>2
    <3> QED
      BY <1>6, <3>2, <3>3
  <2> QED
    BY <1>5, <2>1, <2>2, <2>3, <2>4
<1> QED
  BY <1>10, <1>11

\* What was written on a wire is still there, and only that of one session has grown.
LEMMA StillWritten ==
    ASSUME FwdInv, AtMessage, MaySend(At), alive[At.s], Sent
    PROVE  /\ \A t \in Structs : t # At.s => wire'[conn[t]] = wire[conn[t]]
           /\ \A d \in DOMAIN wire : \A k \in DOMAIN wire[d] :
                k \in DOMAIN wire'[d] /\ wire'[d][k] = wire[d][k]
<1> DEFINE c == conn[At.s]
           L == Len(wire[c])
<1>1. FwdTypes /\ Connections /\ DOMAIN wire = 1..Len(wire)
  BY CsMessages DEF FwdInv
<1>2. /\ c \in 1..Len(wire) /\ Len(wire') = Len(wire)
      /\ \A d \in 1..Len(wire) : d # c => wire'[d] = wire[d]
      /\ wire'[c] \in Seq(Part) /\ Len(wire'[c]) = L + 1 /\ L \in Nat
      /\ \A k \in 1..L : wire'[c][k] = wire[c][k]
  BY WireGrows
<1>3. DOMAIN wire[c] = 1..L /\ DOMAIN wire'[c] = 1..(L + 1)
  BY <1>1, <1>2, CsMessages
<1>4. At.s \in Structs
  BY AtHand
<1> HIDE DEF L
<1>5. ASSUME NEW t \in Structs, t # At.s PROVE wire'[conn[t]] = wire[conn[t]]
  BY <1>1, <1>2, <1>4, <1>5 DEF Connections
<1>6. ASSUME NEW d \in DOMAIN wire, NEW k \in DOMAIN wire[d]
      PROVE  k \in DOMAIN wire'[d] /\ wire'[d][k] = wire[d][k]
  <2>1. CASE d = c
    BY <1>2, <1>3, <2>1
  <2>2. CASE d # c
    BY <1>1, <1>2, <2>2
  <2> QED
    BY <2>1, <2>2
<1> QED
  BY <1>5, <1>6

OneLess == csq' = [csq EXCEPT ![pass].left = @ - 1]

LEMMA SentFirst ==
    ASSUME FwdInv, AtMessage, MaySend(At), alive[At.s], Sent, At.left # 1,
           sending' = [sending EXCEPT ![At.s] = At.id],
           OneLess,
           UNCHANGED <<conn, alive, pass, psends, put, failed, lastJob>>
    PROVE  FwdInv'
<1> DEFINE s == At.s
           c == conn[s]
           L == Len(wire[c])
           r == [At EXCEPT !.left = 1]
<1>1. FwdTypes /\ Connections /\ Ids /\ Belong
  BY DEF FwdInv
<1>2. /\ pass \in 1..Len(csq) /\ At = csq[pass] /\ s \in Structs
      /\ At.id \in Nat /\ At.id > 0 /\ At.left = 2
  BY AtHand
<1>3. /\ sending' \in [Structs -> Nat] /\ sending'[s] = At.id
      /\ \A t \in Structs : t # s => sending'[t] = sending[t]
  BY <1>1, <1>2 DEF FwdTypes
<1>4. /\ csq' \in Seq(MsgOf) /\ Len(csq') = Len(csq) /\ csq'[pass] = r
      /\ \A i \in 1..Len(csq) : i # pass => csq'[i] = csq[i]
  <2>0. \A x \in MsgOf : [x EXCEPT !.left = 1] \in MsgOf
    BY DEF MsgOf
  <2>1. At \in MsgOf /\ r \in MsgOf /\ csq \in Seq(MsgOf)
    <3>1. At \in MsgOf /\ csq \in Seq(MsgOf)
      BY <1>1, <1>2, CsMessages DEF FwdTypes
    <3> QED
      BY <2>0, <3>1
  <2>2. csq' = [csq EXCEPT ![pass] = r]
    BY <1>2 DEF OneLess
  <2> HIDE DEF r
  <2> QED
    BY <1>2, <2>1, <2>2, ExceptSeq
<1>5. r.id = At.id /\ r.s = s /\ r.left = 1
  <2>1. At \in MsgOf
    BY <1>1, <1>2, CsMessages
  <2> QED
    BY <2>1 DEF MsgOf
<1> HIDE DEF r
<1>6. \A i \in 1..Len(csq) : csq'[i].id = csq[i].id /\ csq'[i].s = csq[i].s
  BY <1>2, <1>4, <1>5
<1>7. /\ c \in 1..Len(wire) /\ wire' \in Seq(Seq(Part)) /\ Len(wire') = Len(wire)
      /\ wire'[c] \in Seq(Part) /\ Len(wire'[c]) = L + 1 /\ L \in Nat
      /\ wire'[c][L + 1] = <<At.id, 1>>
      /\ \A k \in 1..L : wire'[c][k] = wire[c][k]
  BY <1>2, WireGrows
<1>8. \A k \in 1..(L + 1) : k \in 1..L \/ k = L + 1
  BY <1>7
<1>9. \A t \in Structs : t # s => wire'[conn[t]] = wire[conn[t]]
  BY StillWritten
<1> HIDE DEF L
<1>10. FwdTypes' /\ Connections'
  BY <1>1, <1>3, <1>4, <1>7 DEF FwdTypes, Connections
<1>11. Ids'
  <2>1. At.id <= Len(put) /\ \A j \in 1..Len(psends) : At.id < psends[j].id
    BY <1>1, <1>2 DEF Ids
  <2>2. \A t \in Structs : sending'[t] <= Len(put)
    BY <1>1, <1>3, <2>1 DEF Ids
  <2>3. \A t \in Structs : \A j \in 1..Len(psends) : sending'[t] < psends[j].id
    BY <1>1, <1>3, <2>1 DEF Ids
  <2> QED
    BY <1>1, <1>4, <1>6, <2>2, <2>3 DEF Ids
<1>12. Belong'
  BY <1>1, <1>4, <1>6 DEF Belong
<1>13. ASSUME NEW j \in 1..Len(csq), Mine(j)' PROVE Mine(j) /\ csq[j].s \in Structs
  BY <1>1, <1>6, <1>13, CsMessages DEF Mine
<1>14. ASSUME NEW j \in 1..Len(csq), Mine(j)', csq[j].s = s, j # pass
       PROVE  pass < j /\ At.id < csq[j].id /\ csq[j].left = 2
  BY <1>13, <1>14, AtHand
<1>15. Turns'
  <2> SUFFICES ASSUME NEW j \in 1..Len(csq), Mine(j)'
               PROVE  /\ sending'[csq[j].s] <= csq[j].id
                      /\ j < pass => sending'[csq[j].s] # 0
    BY <1>4, <1>6 DEF Turns
  <2>1. CASE csq[j].s # s
    BY <1>3, <1>13, <2>1 DEF FwdInv, Turns
  <2>2. CASE csq[j].s = s /\ j # pass
    <3>1. pass < j /\ At.id < csq[j].id /\ csq[j].id \in Nat
      BY <1>1, <1>14, <2>2, CsMessages
    <3> QED
      BY <1>2, <1>3, <2>2, <3>1
  <2>3. CASE j = pass
    BY <1>2, <1>3, <2>3
  <2> QED
    BY <2>1, <2>2, <2>3
<1>16. PartsOf'
  <2> SUFFICES ASSUME NEW j \in 1..Len(csq), Mine(j)'
               PROVE  LET w == wire'[conn[csq'[j].s]]
                      IN  IF csq'[j].left = 2
                          THEN \A k \in 1..Len(w) :
                                 put[w[k][1]].on = conn[csq'[j].s] => w[k][1] < csq'[j].id
                          ELSE /\ sending'[csq'[j].s] = csq'[j].id
                               /\ Len(w) > 0 /\ w[Len(w)] = <<csq'[j].id, 1>>
    BY <1>4 DEF PartsOf
  <2>0. csq'[j].s = csq[j].s /\ csq'[j].id = csq[j].id
    BY <1>6
  <2>1. CASE csq[j].s # s
    <3>1. csq'[j] = csq[j] /\ Mine(j) /\ sending'[csq[j].s] = sending[csq[j].s]
          /\ wire'[conn[csq[j].s]] = wire[conn[csq[j].s]]
      BY <1>2, <1>3, <1>4, <1>9, <1>13, <2>1
    <3> QED
      BY <3>1 DEF FwdInv, PartsOf
  <2>2. CASE csq[j].s = s /\ j # pass
    <3>1. At.id < csq[j].id /\ csq[j].left = 2 /\ csq'[j] = csq[j] /\ Mine(j)
      BY <1>4, <1>13, <1>14, <2>2
    <3>2. \A k \in 1..L : put[wire[c][k][1]].on = c => wire[c][k][1] < csq[j].id
      BY <2>2, <3>1 DEF FwdInv, PartsOf, L
    <3>3. \A k \in 1..(L + 1) : put[wire'[c][k][1]].on = c => wire'[c][k][1] < csq[j].id
      <4> TAKE k \in 1..(L + 1)
      <4>1. CASE k \in 1..L
        BY <1>7, <3>2, <4>1
      <4>2. CASE k = L + 1
        BY <1>7, <3>1, <4>2
      <4> QED
        BY <1>8, <4>1, <4>2
    <3>4. Len(wire'[c]) = L + 1 /\ conn[csq'[j].s] = c /\ csq'[j].left = 2
          /\ csq'[j].id = csq[j].id
      BY <1>7, <2>0, <2>2, <3>1
    <3> QED
      BY <3>3, <3>4
  <2>3. CASE j = pass
    <3>1. Len(wire'[c]) > 0
      BY <1>7
    <3> QED
      <4>1. csq'[j].left # 2 /\ csq'[j].id = At.id /\ csq'[j].s = s
        BY <1>2, <1>4, <1>5, <2>0, <2>3
      <4>2. wire'[c][Len(wire'[c])] = <<At.id, 1>>
        BY <1>7
      <4> QED
        BY <1>3, <3>1, <4>1, <4>2
  <2> QED
    BY <2>1, <2>2, <2>3
<1>17. RestNext'
  <2> SUFFICES ASSUME NEW t \in Structs, alive[t], Len(wire'[conn[t]]) > 0,
                      put[wire'[conn[t]][Len(wire'[conn[t]])][1]].on = conn[t],
                      wire'[conn[t]][Len(wire'[conn[t]])][2] = 1
               PROVE  sending'[t] = wire'[conn[t]][Len(wire'[conn[t]])][1]
    BY DEF RestNext
  <2>1. CASE t = s
    <3>1. Len(wire'[c]) = L + 1 /\ wire'[c][L + 1] = <<At.id, 1>>
      BY <1>7
    <3>2. wire'[conn[t]][Len(wire'[conn[t]])] = <<At.id, 1>>
      BY <2>1, <3>1
    <3> QED
      BY <1>3, <2>1, <3>2
  <2>2. CASE t # s
    BY <1>3, <1>9, <2>2 DEF FwdInv, RestNext
  <2> QED
    BY <2>1, <2>2
<1>18. Written' /\ WholeInOrder'
  BY WrittenInOrder
<1>19. ShareKept'
  <2> SUFFICES ASSUME NEW id \in DOMAIN put
               PROVE  \/ \E i \in DOMAIN psends : psends[i].id = id
                      \/ \E i \in DOMAIN csq' : csq'[i].id = id
                      \/ \E i \in DOMAIN wire'[put[id].on] : wire'[put[id].on][i] = <<id, Parts>>
                      \/ id \in failed
                      \/ ~ \E t \in Structs : alive[t] /\ conn[t] = put[id].on
    BY DEF ShareKept
  <2>1. DOMAIN csq = 1..Len(csq) /\ DOMAIN csq' = 1..Len(csq)
    BY <1>1, <1>4, <1>10 DEF FwdTypes
  <2>2. put[id].on \in DOMAIN wire
    BY <1>1, CsMessages DEF Connections
  <2>3. (\E i \in DOMAIN wire[put[id].on] : wire[put[id].on][i] = <<id, Parts>>) =>
           \E i \in DOMAIN wire'[put[id].on] : wire'[put[id].on][i] = <<id, Parts>>
    BY <2>2, StillWritten
  <2>4. (\E i \in DOMAIN csq : csq[i].id = id) => \E i \in DOMAIN csq' : csq'[i].id = id
    BY <1>6, <2>1
  <2> QED
    BY <2>3, <2>4 DEF FwdInv, ShareKept
<1> QED
  BY <1>10, <1>11, <1>12, <1>15, <1>16, <1>17, <1>18, <1>19 DEF FwdInv

LEMMA SentRest ==
    ASSUME FwdInv, AtMessage, MaySend(At), alive[At.s], Sent, At.left = 1,
           sending' = [sending EXCEPT ![At.s] = 0], Dispatched,
           UNCHANGED <<conn, alive, psends, put, failed, lastJob>>
    PROVE  FwdInv'
<1> DEFINE s == At.s
           c == conn[s]
           L == Len(wire[c])
<1>1. FwdTypes /\ Connections /\ Ids /\ Belong
  BY DEF FwdInv
<1>2. /\ pass \in 1..Len(csq) /\ At = csq[pass] /\ s \in Structs
      /\ At.id \in Nat /\ At.id > 0
  BY AtHand
<1>3. /\ sending' \in [Structs -> Nat] /\ sending'[s] = 0
      /\ \A t \in Structs : t # s => sending'[t] = sending[t]
  BY <1>1, <1>2 DEF FwdTypes
<1>4. /\ csq' \in Seq(MsgOf) /\ pass' = pass
      /\ \A k \in 1..Len(csq') : \E q \in 1..Len(csq) :
           q # pass /\ csq'[k] = csq[q] /\ (k < pass => q < pass)
      /\ \A k, l \in 1..Len(csq') : k < l => csq'[k].id < csq'[l].id
      /\ \A q \in 1..Len(csq) : q = pass \/ \E k \in 1..Len(csq') : csq'[k] = csq[q]
  BY <1>2, Removal
<1>7. /\ c \in 1..Len(wire) /\ wire' \in Seq(Seq(Part)) /\ Len(wire') = Len(wire)
      /\ wire'[c] \in Seq(Part) /\ Len(wire'[c]) = L + 1 /\ L \in Nat
      /\ wire'[c][L + 1] = <<At.id, 2>>
      /\ \A k \in 1..L : wire'[c][k] = wire[c][k]
  BY <1>2, WireGrows
<1>8. \A k \in 1..(L + 1) : k \in 1..L \/ k = L + 1
  BY <1>7
<1>9. \A t \in Structs : t # s => wire'[conn[t]] = wire[conn[t]]
  BY StillWritten
<1> HIDE DEF L
<1>10. FwdTypes' /\ Connections'
  BY <1>1, <1>3, <1>4, <1>7 DEF FwdTypes, Connections
<1>11. Ids'
  <2>1. \A t \in Structs : sending'[t] <= Len(put)
    <3>1. 0 <= Len(put)
      BY <1>1 DEF FwdTypes
    <3> QED
      BY <1>1, <1>3, <3>1 DEF Ids
  <2>2. \A t \in Structs : \A j \in 1..Len(psends) : sending'[t] < psends[j].id
    <3>1. \A j \in 1..Len(psends) : psends[j].id \in 1..Len(put)
      BY <1>1 DEF Ids
    <3>2. \A j \in 1..Len(psends) : 0 < psends[j].id
      BY <3>1
    <3> QED
      BY <1>1, <1>3, <3>2 DEF Ids
  <2> QED
    BY <1>1, <1>4, <2>1, <2>2 DEF Ids
<1>12. Belong'
  <2>1. \A i \in 1..Len(csq') : \A t \in Structs :
          conn[t] = put[csq'[i].id].on => csq'[i].s = t
    <3> TAKE i \in 1..Len(csq')
    <3>1. PICK q \in 1..Len(csq) : csq'[i] = csq[q]
      BY <1>4
    <3> QED
      BY <1>1, <3>1 DEF Belong
  <2> QED
    BY <1>1, <2>1 DEF Belong
<1>13. ASSUME NEW k \in 1..Len(csq'), Mine(k)'
       PROVE  \E q \in 1..Len(csq) : /\ csq'[k] = csq[q] /\ Mine(q) /\ csq[q].s \in Structs
                                     /\ k < pass => q < pass
                                     /\ csq[q].s = s => /\ pass < q /\ At.id < csq[q].id
                                                        /\ csq[q].left = 2
  <2>1. PICK q \in 1..Len(csq) : q # pass /\ csq'[k] = csq[q] /\ (k < pass => q < pass)
    BY <1>4
  <2>2. csq[q].s \in Structs /\ Mine(q)
    BY <1>1, <1>13, <2>1, CsMessages DEF Mine
  <2> QED
    BY <2>1, <2>2, AtHand
<1>15. Turns'
  <2> SUFFICES ASSUME NEW k \in 1..Len(csq'), Mine(k)'
               PROVE  /\ sending'[csq'[k].s] <= csq'[k].id
                      /\ k < pass => sending'[csq'[k].s] # 0
    BY <1>4 DEF Turns
  <2>0. PICK q \in 1..Len(csq) : /\ csq'[k] = csq[q] /\ Mine(q) /\ csq[q].s \in Structs
                                 /\ k < pass => q < pass
                                 /\ csq[q].s = s => pass < q
    BY <1>13
  <2>1. CASE csq[q].s # s
    BY <1>3, <2>0, <2>1 DEF FwdInv, Turns
  <2>2. CASE csq[q].s = s
    <3>1. pass < q /\ ~ (k < pass) /\ csq[q].id \in Nat
      <4>1. pass < q /\ pass \in Nat /\ q \in Nat /\ csq[q].id \in Nat
        BY <1>1, <1>2, <2>0, <2>2, CsMessages
      <4> QED
        BY <2>0, <4>1
    <3> QED
      BY <1>3, <2>0, <2>2, <3>1
  <2> QED
    BY <2>1, <2>2
<1>16. PartsOf'
  <2> SUFFICES ASSUME NEW j \in 1..Len(csq'), Mine(j)'
               PROVE  LET w == wire'[conn[csq'[j].s]]
                      IN  IF csq'[j].left = 2
                          THEN \A k \in 1..Len(w) :
                                 put[w[k][1]].on = conn[csq'[j].s] => w[k][1] < csq'[j].id
                          ELSE /\ sending'[csq'[j].s] = csq'[j].id
                               /\ Len(w) > 0 /\ w[Len(w)] = <<csq'[j].id, 1>>
    BY <1>4 DEF PartsOf
  <2>0. PICK q \in 1..Len(csq) : /\ csq'[j] = csq[q] /\ Mine(q) /\ csq[q].s \in Structs
                                 /\ csq[q].s = s => At.id < csq[q].id /\ csq[q].left = 2
    BY <1>13
  <2>1. CASE csq[q].s # s
    <3>1. sending'[csq[q].s] = sending[csq[q].s] /\ wire'[conn[csq[q].s]] = wire[conn[csq[q].s]]
      BY <1>3, <1>9, <2>0, <2>1
    <3> QED
      BY ZenonT(60), <2>0, <3>1 DEF FwdInv, PartsOf
  <2>2. CASE csq[q].s = s
    <3>1. At.id < csq[q].id /\ csq[q].left = 2
      BY <2>0, <2>2
    <3>2. \A k \in 1..L : put[wire[c][k][1]].on = c => wire[c][k][1] < csq[q].id
      BY <2>0, <2>2, <3>1 DEF FwdInv, PartsOf, L
    <3>3. \A k \in 1..(L + 1) : put[wire'[c][k][1]].on = c => wire'[c][k][1] < csq[q].id
      <4> TAKE k \in 1..(L + 1)
      <4>1. CASE k \in 1..L
        BY <1>7, <3>2, <4>1
      <4>2. CASE k = L + 1
        BY SMTT(60), <1>7, <3>1, <4>2
      <4> QED
        BY <1>8, <4>1, <4>2
    <3> QED
      BY <1>7, <2>0, <2>2, <3>1, <3>3
  <2> QED
    BY <2>1, <2>2
<1>17. RestNext'
  <2> SUFFICES ASSUME NEW t \in Structs, alive[t], Len(wire'[conn[t]]) > 0,
                      put[wire'[conn[t]][Len(wire'[conn[t]])][1]].on = conn[t],
                      wire'[conn[t]][Len(wire'[conn[t]])][2] = 1
               PROVE  sending'[t] = wire'[conn[t]][Len(wire'[conn[t]])][1]
    BY DEF RestNext
  <2>1. CASE t = s
    <3>1. Len(wire'[c]) = L + 1 /\ wire'[c][L + 1] = <<At.id, 2>>
      BY <1>7
    <3>2. wire'[conn[t]][Len(wire'[conn[t]])] = <<At.id, 2>>
      BY <2>1, <3>1
    <3> QED
      BY <1>3, <2>1, <3>2
  <2>2. CASE t # s
    BY <1>3, <1>9, <2>2 DEF FwdInv, RestNext
  <2> QED
    BY <2>1, <2>2
<1>18. Written' /\ WholeInOrder'
  BY WrittenInOrder
<1>19. ShareKept'
  <2> SUFFICES ASSUME NEW id \in DOMAIN put
               PROVE  \/ \E i \in DOMAIN psends : psends[i].id = id
                      \/ \E i \in DOMAIN csq' : csq'[i].id = id
                      \/ \E i \in DOMAIN wire'[put[id].on] : wire'[put[id].on][i] = <<id, Parts>>
                      \/ id \in failed
                      \/ ~ \E t \in Structs : alive[t] /\ conn[t] = put[id].on
    BY DEF ShareKept
  <2>1. DOMAIN csq = 1..Len(csq) /\ DOMAIN csq' = 1..Len(csq')
    BY <1>1, <1>10 DEF FwdTypes
  <2>2. put[id].on \in DOMAIN wire
    BY <1>1, CsMessages DEF Connections
  <2>3. (\E i \in DOMAIN wire[put[id].on] : wire[put[id].on][i] = <<id, Parts>>) =>
           \E i \in DOMAIN wire'[put[id].on] : wire'[put[id].on][i] = <<id, Parts>>
    BY <2>2, StillWritten
  <2>4. CASE \E q \in DOMAIN csq : csq[q].id = id
    <3>1. PICK q \in 1..Len(csq) : csq[q].id = id
      BY <2>1, <2>4
    <3>2. CASE q = pass
      <4>1. ASSUME NEW t \in Structs, conn[t] = put[id].on PROVE put[id].on = c
        BY <1>1, <1>2, <3>1, <3>2, <4>1 DEF Belong
      <4>2. L + 1 \in DOMAIN wire'[c] /\ wire'[c][L + 1] = <<id, Parts>>
        BY <1>2, <1>7, <3>1, <3>2 DEF Parts
      <4> QED
        BY <4>1, <4>2
    <3>3. CASE \E k \in 1..Len(csq') : csq'[k] = csq[q]
      BY <2>1, <3>1, <3>3
    <3> QED
      BY <1>4, <3>2, <3>3
  <2>5. CASE ~ \E q \in DOMAIN csq : csq[q].id = id
    BY <2>3, <2>5 DEF FwdInv, ShareKept
  <2> QED
    BY <2>4, <2>5
<1> QED
  BY <1>10, <1>11, <1>12, <1>15, <1>16, <1>17, <1>18, <1>19 DEF FwdInv

\* The part goes to another connection than the one its share was handed over for,
\* and the last on the wire of that is not half of one that was handed over for it.
Strays(r) ==
    LET w == wire[conn[r]]
    IN  /\ put[At.id].on # conn[r]
        /\ ~ (Len(w) > 0 /\ put[w[Len(w)][1]].on = conn[r] /\ w[Len(w)][2] = 1)

LEMMA StrayWritten ==
    ASSUME FwdInv, AtMessage, NEW r \in Structs, Strays(r), SentTo(r),
           put' = put, psends' = psends
    PROVE  Written' /\ WholeInOrder'
<1> DEFINE c == conn[r]
           x == <<At.id, IF At.left = 2 THEN 1 ELSE 2>>
           L == Len(wire[c])
<1>1. FwdTypes /\ Connections /\ Ids /\ Written
  BY DEF FwdInv
<1>2. /\ c \in 1..Len(wire) /\ wire' \in Seq(Seq(Part)) /\ Len(wire') = Len(wire)
      /\ \A d \in 1..Len(wire) : d # c => wire'[d] = wire[d]
      /\ wire'[c] \in Seq(Part) /\ Len(wire'[c]) = L + 1 /\ L \in Nat /\ wire'[c][L + 1] = x
      /\ \A k \in 1..L : wire'[c][k] = wire[c][k]
  BY WireGrowsAt
<1>3. At.id \in 1..Len(put) /\ \A j \in 1..Len(psends) : At.id < psends[j].id
  BY <1>1, AtTypes DEF Ids
<1>4. x[1] = At.id /\ x[2] = IF At.left = 2 THEN 1 ELSE 2
  OBVIOUS
<1>5. \A k \in 1..(L + 1) : k \in 1..L \/ k = L + 1
  BY <1>2
<1>6. put[At.id].on # c /\ ~ (L > 0 /\ put[wire[c][L][1]].on = c /\ wire[c][L][2] = 1)
  BY DEF Strays
<1> HIDE DEF c, x, L
<1>10. Written'
  <2> SUFFICES ASSUME NEW d \in 1..Len(wire), NEW k \in 1..Len(wire'[d])
               PROVE  /\ wire'[d][k][1] \in 1..Len(put) /\ wire'[d][k][2] \in 1..2
                      /\ \A j \in 1..Len(psends) : wire'[d][k][1] < psends[j].id
    BY <1>2 DEF Written
  <2>1. CASE d # c
    BY <1>1, <1>2, <2>1 DEF Written
  <2>2. CASE d = c /\ k \in 1..L
    BY <1>1, <1>2, <2>2 DEF Written, L
  <2>3. CASE d = c /\ k = L + 1
    BY <1>2, <1>3, <1>4, <2>3
  <2> QED
    BY <1>2, <1>5, <2>1, <2>2, <2>3
<1>11. WholeInOrder'
  <2>1. DOMAIN wire' = 1..Len(wire) /\ DOMAIN wire = 1..Len(wire)
        /\ DOMAIN wire'[c] = 1..(L + 1) /\ DOMAIN wire[c] = 1..L
    BY <1>1, <1>2, CsMessages DEF FwdTypes, L
  <2> SUFFICES ASSUME NEW d \in 1..Len(wire), NEW i \in DOMAIN wire'[d],
                      put[wire'[d][i][1]].on = d
               PROVE  IF wire'[d][i][2] = 1
                      THEN /\ i < Len(wire'[d]) => wire'[d][i + 1] = <<wire'[d][i][1], 2>>
                           /\ \A j \in 1..(i - 1) : put[wire'[d][j][1]].on = d =>
                                                      wire'[d][j][1] < wire'[d][i][1]
                      ELSE i > 1 /\ wire'[d][i - 1] = <<wire'[d][i][1], 1>>
    BY SMTT(60), <2>1 DEF WholeInOrder
  <2>2. CASE d # c
    <3>1. wire'[d] = wire[d] /\ d \in DOMAIN wire
      BY <1>2, <2>1, <2>2
    <3> QED
      BY <3>1 DEF FwdInv, WholeInOrder
  <2>3. CASE d = c /\ i \in 1..L
    <3>1. wire'[c][i] = wire[c][i] /\ put[wire[c][i][1]].on = c /\ i \in DOMAIN wire[c]
          /\ c \in DOMAIN wire
      BY <1>2, <2>1, <2>3
    <3>2. IF wire[c][i][2] = 1
          THEN /\ i < L => wire[c][i + 1] = <<wire[c][i][1], 2>>
               /\ \A j \in 1..(i - 1) : put[wire[c][j][1]].on = c =>
                                          wire[c][j][1] < wire[c][i][1]
          ELSE i > 1 /\ wire[c][i - 1] = <<wire[c][i][1], 1>>
      BY <3>1 DEF FwdInv, WholeInOrder, L
    <3>3. \A j \in 1..(i - 1) : wire'[c][j] = wire[c][j]
      <4>1. \A j \in 1..(i - 1) : j \in 1..L
        BY <1>2, <2>3
      <4> QED
        BY <1>2, <4>1
    <3>4. CASE wire[c][i][2] # 1
      <4>1. i > 1 /\ i - 1 \in 1..(i - 1)
        BY <2>3, <3>2, <3>4
      <4> QED
        BY <2>3, <3>1, <3>2, <3>3, <3>4, <4>1
    <3>5. CASE wire[c][i][2] = 1 /\ i < L
      <4>1. PICK m \in 1..L : m = i + 1
        BY <1>2, <2>3, <3>5
      <4>2. wire'[c][m] = <<wire[c][i][1], 2>>
        BY <1>2, <3>2, <3>5, <4>1
      <4> QED
        BY <2>3, <3>1, <3>2, <3>3, <3>5, <4>1, <4>2
    <3>6. ~ (wire[c][i][2] = 1 /\ i = L)
      <4>1. L > 0
        BY <1>2, <2>3
      <4> QED
        BY <1>6, <3>1, <4>1
    <3> QED
      BY <1>2, <2>3, <3>4, <3>5, <3>6
  <2>4. CASE d = c /\ i = L + 1
    BY <1>2, <1>4, <1>6, <2>4
  <2> QED
    BY <1>5, <2>1, <2>2, <2>3, <2>4
<1> QED
  BY <1>10, <1>11

\* What the wires are then: those of the sessions are as they were, or a part of
\* another's share has been added.
LEMMA StrayWires ==
    ASSUME FwdInv, AtMessage, NEW r \in Structs, Strays(r), SentTo(r)
    PROVE  /\ wire' \in Seq(Seq(Part)) /\ Len(wire') = Len(wire)
           /\ \A t \in Structs :
                LET w == wire[conn[t]]
                    v == wire'[conn[t]]
                IN  \/ v = w
                    \/ /\ Strays(t) /\ put[v[Len(v)][1]].on # conn[t]
                       /\ \A k \in 1..Len(v) : put[v[k][1]].on = conn[t] =>
                            k \in 1..Len(w) /\ v[k] = w[k]
           /\ \A d \in DOMAIN wire : \A k \in DOMAIN wire[d] :
                k \in DOMAIN wire'[d] /\ wire'[d][k] = wire[d][k]
<1> DEFINE c == conn[r]
           L == Len(wire[c])
<1>1. FwdTypes /\ Connections /\ DOMAIN wire = 1..Len(wire)
  BY CsMessages DEF FwdInv
<1>2. /\ c \in 1..Len(wire) /\ Len(wire') = Len(wire) /\ wire' \in Seq(Seq(Part))
      /\ \A d \in 1..Len(wire) : d # c => wire'[d] = wire[d]
      /\ wire'[c] \in Seq(Part) /\ Len(wire'[c]) = L + 1 /\ L \in Nat
      /\ wire'[c][L + 1][1] = At.id
      /\ \A k \in 1..L : wire'[c][k] = wire[c][k]
  BY WireGrowsAt
<1>3. DOMAIN wire[c] = 1..L /\ DOMAIN wire'[c] = 1..(L + 1)
  BY <1>1, <1>2, CsMessages
<1>4. put[At.id].on # c
  BY DEF Strays
<1> HIDE DEF L
<1>5. ASSUME NEW t \in Structs
      PROVE  LET w == wire[conn[t]]
                 v == wire'[conn[t]]
             IN  \/ v = w
                 \/ /\ Strays(t) /\ put[v[Len(v)][1]].on # conn[t]
                    /\ \A k \in 1..Len(v) : put[v[k][1]].on = conn[t] =>
                         k \in 1..Len(w) /\ v[k] = w[k]
  <2>1. CASE t = r
    <3>1. put[wire'[c][Len(wire'[c])][1]].on # c
      BY <1>2, <1>4
    <3>2. ASSUME NEW k \in 1..Len(wire'[c]), put[wire'[c][k][1]].on = c
          PROVE  k \in 1..Len(wire[c]) /\ wire'[c][k] = wire[c][k]
      <4>1. k \in 1..L \/ k = L + 1
        BY <1>2
      <4> QED
        BY <1>2, <1>4, <3>2, <4>1 DEF L
    <3> HIDE DEF c
    <3> QED
      BY <2>1, <3>1, <3>2 DEF c
  <2>2. CASE t # r
    BY <1>1, <1>2, <2>2 DEF Connections
  <2> QED
    BY <2>1, <2>2
<1>6. ASSUME NEW d \in DOMAIN wire, NEW k \in DOMAIN wire[d]
      PROVE  k \in DOMAIN wire'[d] /\ wire'[d][k] = wire[d][k]
  <2>1. CASE d = c
    BY <1>2, <1>3, <2>1
  <2>2. CASE d # c
    BY <1>1, <1>2, <2>2
  <2> QED
    BY <2>1, <2>2
<1> QED
  BY <1>2, <1>5, <1>6

\* What csq is once a part of the message at hand is taken.
LEMMA Shorter ==
    ASSUME FwdInv, AtMessage, PartTaken
    PROVE  /\ csq' \in Seq(MsgOf) /\ pass' = pass
           /\ \A k \in 1..Len(csq') : \E q \in 1..Len(csq) :
                /\ csq'[k].id = csq[q].id /\ csq'[k].s = csq[q].s
                /\ (k < pass => q < pass) /\ (q # pass => csq'[k] = csq[q])
           /\ \A k, l \in 1..Len(csq') : k < l => csq'[k].id < csq'[l].id
           /\ \A q \in 1..Len(csq) : q = pass \/ \E k \in 1..Len(csq') : csq'[k] = csq[q]
<1>1. FwdTypes /\ Ids /\ pass \in 1..Len(csq) /\ At = csq[pass] /\ At.left \in 1..2
  BY AtTypes DEF FwdInv
<1>2. CASE At.left = 1
  <2>1. Dispatched
    BY <1>2 DEF PartTaken
  <2> QED
    BY <1>1, <2>1, Removal
<1>3. CASE At.left = 2
  <2> DEFINE m == [At EXCEPT !.left = 1]
  <2>1. csq' = [csq EXCEPT ![pass] = m] /\ pass' = pass
    BY <1>1, <1>3 DEF PartTaken
  <2>2. m \in MsgOf /\ m.id = At.id /\ m.s = At.s
    <3>1. \A y \in MsgOf : LET z == [y EXCEPT !.left = 1]
                          IN  z \in MsgOf /\ z.id = y.id /\ z.s = y.s
      BY DEF MsgOf
    <3>2. At \in MsgOf
      BY <1>1, CsMessages
    <3> QED
      BY <3>1, <3>2
  <2> HIDE DEF m
  <2>3. csq \in Seq(MsgOf)
    BY <1>1 DEF FwdTypes
  <2>4. /\ csq' \in Seq(MsgOf) /\ Len(csq') = Len(csq) /\ csq'[pass] = m
        /\ \A q \in 1..Len(csq) : q # pass => csq'[q] = csq[q]
    BY <1>1, <2>1, <2>2, <2>3, ExceptSeq
  <2>5. \A k \in 1..Len(csq) : csq'[k].id = csq[k].id /\ csq'[k].s = csq[k].s
    BY <1>1, <2>2, <2>4
  <2> QED
    BY <1>1, <2>1, <2>4, <2>5 DEF Ids
<1> QED
  BY <1>1, <1>2, <1>3

LEMMA AstrayTaken ==
    ASSUME FwdInv, AtMessage, MaySend(At), ~ Mine(pass), PartTaken,
           UNCHANGED <<conn, alive, psends, put, failed, lastJob>>,
           wire' = wire \/ \E r \in Structs : Strays(r) /\ SentTo(r)
    PROVE  FwdInv'
<1> DEFINE s == At.s
<1>1. FwdTypes /\ Connections /\ Ids /\ Written /\ Belong
  BY DEF FwdInv
<1>2. /\ pass \in 1..Len(csq) /\ At = csq[pass] /\ s \in Structs
      /\ At.id \in Nat /\ At.id > 0
  BY AtTypes
<1>3. /\ sending' \in [Structs -> Nat]
      /\ \A t \in Structs : sending'[t] = sending[t] \/ sending'[t] = 0
      /\ \A t \in Structs : t # s => sending'[t] = sending[t]
  <2>1. sending' = sending \/ sending' = [sending EXCEPT ![s] = 0]
    BY Zenon DEF PartTaken
  <2>2. sending \in [Structs -> Nat]
    BY <1>1 DEF FwdTypes
  <2> QED
    BY <1>2, <2>1, <2>2
<1>4. /\ csq' \in Seq(MsgOf) /\ pass' = pass
      /\ \A k \in 1..Len(csq') : \E q \in 1..Len(csq) :
           /\ csq'[k].id = csq[q].id /\ csq'[k].s = csq[q].s
           /\ (k < pass => q < pass) /\ (q # pass => csq'[k] = csq[q])
      /\ \A k, l \in 1..Len(csq') : k < l => csq'[k].id < csq'[l].id
      /\ \A q \in 1..Len(csq) : q = pass \/ \E k \in 1..Len(csq') : csq'[k] = csq[q]
  BY Shorter
<1>5. /\ wire' \in Seq(Seq(Part)) /\ Len(wire') = Len(wire)
      /\ \A t \in Structs :
           LET w == wire[conn[t]]
               v == wire'[conn[t]]
           IN  \/ v = w
               \/ /\ Strays(t) /\ put[v[Len(v)][1]].on # conn[t]
                  /\ \A k \in 1..Len(v) : put[v[k][1]].on = conn[t] =>
                       k \in 1..Len(w) /\ v[k] = w[k]
      /\ \A d \in DOMAIN wire : \A k \in DOMAIN wire[d] :
           k \in DOMAIN wire'[d] /\ wire'[d][k] = wire[d][k]
  <2>1. CASE wire' = wire
    BY <1>1, <2>1 DEF FwdTypes
  <2>2. CASE \E r \in Structs : Strays(r) /\ SentTo(r)
    BY <2>2, StrayWires, Zenon
  <2> QED
    BY <2>1, <2>2
<1>6. Written' /\ WholeInOrder'
  <2>1. CASE wire' = wire
    BY <1>1, <2>1 DEF Written, FwdInv, WholeInOrder
  <2>2. CASE \E r \in Structs : Strays(r) /\ SentTo(r)
    BY <2>2, StrayWritten
  <2> QED
    BY <2>1, <2>2
<1>10. FwdTypes' /\ Connections'
  BY <1>1, <1>2, <1>3, <1>4, <1>5 DEF FwdTypes, Connections
<1>11. Ids'
  <2>1. \A j \in 1..Len(psends) : 0 < psends[j].id
    BY <1>1 DEF Ids
  <2>2. \A t \in Structs : sending'[t] <= Len(put)
    <3>1. 0 <= Len(put)
      BY <1>1 DEF FwdTypes
    <3> QED
      BY <1>1, <1>3, <3>1 DEF Ids
  <2>3. \A t \in Structs : \A j \in 1..Len(psends) : sending'[t] < psends[j].id
    BY <1>1, <1>3, <2>1 DEF Ids
  <2> QED
    BY <1>1, <1>4, <2>2, <2>3 DEF Ids
<1>12. Belong'
  <2>1. \A i \in 1..Len(csq') : \A t \in Structs :
          conn[t] = put[csq'[i].id].on => csq'[i].s = t
    <3> TAKE i \in 1..Len(csq')
    <3>1. PICK q \in 1..Len(csq) : csq'[i].id = csq[q].id /\ csq'[i].s = csq[q].s
      BY <1>4
    <3> QED
      BY <1>1, <3>1 DEF Belong
  <2> QED
    BY <1>1, <2>1 DEF Belong
<1>13. ASSUME NEW k \in 1..Len(csq'), Mine(k)'
       PROVE  \E q \in 1..Len(csq) : /\ csq'[k] = csq[q] /\ Mine(q) /\ csq[q].s \in Structs
                                     /\ k < pass => q < pass
                                     /\ csq[q].s = s => /\ pass < q /\ csq[q].left = 2
  <2>1. PICK q \in 1..Len(csq) : /\ csq'[k].id = csq[q].id /\ csq'[k].s = csq[q].s
                                 /\ (k < pass => q < pass) /\ (q # pass => csq'[k] = csq[q])
    BY <1>4
  <2>2. csq[q].s \in Structs /\ Mine(q)
    BY <1>1, <1>13, <2>1, CsMessages DEF Mine
  <2>3. q # pass /\ (csq[q].s = s => alive[s])
    BY <2>2 DEF Mine
  <2> QED
    BY <2>1, <2>2, <2>3, AtHand
<1>15. Turns'
  <2> SUFFICES ASSUME NEW k \in 1..Len(csq'), Mine(k)'
               PROVE  /\ sending'[csq'[k].s] <= csq'[k].id
                      /\ k < pass => sending'[csq'[k].s] # 0
    BY <1>4 DEF Turns
  <2>0. PICK q \in 1..Len(csq) : /\ csq'[k] = csq[q] /\ Mine(q) /\ csq[q].s \in Structs
                                 /\ k < pass => q < pass
                                 /\ csq[q].s = s => pass < q
    BY <1>13
  <2>1. CASE csq[q].s # s
    BY <1>3, <2>0, <2>1 DEF FwdInv, Turns
  <2>2. CASE csq[q].s = s
    <3>1. pass < q /\ pass \in Nat /\ q \in Nat /\ csq[q].id \in Nat
      BY <1>1, <1>2, <2>0, <2>2, CsMessages
    <3>2. ~ (k < pass)
      BY <2>0, <3>1
    <3>3. sending[s] <= csq[q].id
      BY <2>0, <2>2 DEF FwdInv, Turns
    <3>4. sending'[s] <= csq[q].id
      BY <1>2, <1>3, <3>1, <3>3
    <3> QED
      BY <2>0, <2>2, <3>2, <3>4
  <2> QED
    BY <2>1, <2>2
<1>16. PartsOf'
  <2> SUFFICES ASSUME NEW j \in 1..Len(csq'), Mine(j)'
               PROVE  LET w == wire'[conn[csq'[j].s]]
                      IN  IF csq'[j].left = 2
                          THEN \A k \in 1..Len(w) :
                                 put[w[k][1]].on = conn[csq'[j].s] => w[k][1] < csq'[j].id
                          ELSE /\ sending'[csq'[j].s] = csq'[j].id
                               /\ Len(w) > 0 /\ w[Len(w)] = <<csq'[j].id, 1>>
    BY <1>4 DEF PartsOf
  <2>0. PICK q \in 1..Len(csq) : /\ csq'[j] = csq[q] /\ Mine(q) /\ csq[q].s \in Structs
                                 /\ csq[q].s = s => csq[q].left = 2
    BY <1>13
  <2> DEFINE t == csq[q].s
             w == wire[conn[t]]
             v == wire'[conn[t]]
  <2>1. \/ v = w
        \/ /\ Strays(t)
           /\ \A k \in 1..Len(v) : put[v[k][1]].on = conn[t] => k \in 1..Len(w) /\ v[k] = w[k]
    BY <1>5, <2>0
  <2>2. CASE csq[q].left = 2
    <3>1. \A k \in 1..Len(w) : put[w[k][1]].on = conn[t] => w[k][1] < csq[q].id
      BY <2>0, <2>2 DEF FwdInv, PartsOf
    <3>2. \A k \in 1..Len(v) : put[v[k][1]].on = conn[t] => v[k][1] < csq[q].id
      BY <2>1, <3>1
    <3> QED
      BY <2>0, <2>2, <3>2
  <2>3. CASE csq[q].left # 2
    <3>1. sending[t] = csq[q].id /\ Len(w) > 0 /\ w[Len(w)] = <<csq[q].id, 1>>
      BY <2>0, <2>3 DEF FwdInv, PartsOf
    <3>2. put[csq[q].id].on = conn[t]
      BY <2>0 DEF Mine
    <3>3. ~ Strays(t)
      <4>1. w[Len(w)][1] = csq[q].id /\ w[Len(w)][2] = 1
        BY <3>1
      <4> QED
        BY <3>1, <3>2, <4>1, Zenon DEF Strays
    <3>4. sending'[t] = sending[t]
      BY <1>3, <2>0, <2>3
    <3> QED
      BY <2>0, <2>1, <2>3, <3>1, <3>3, <3>4
  <2> QED
    BY <2>2, <2>3
<1>17. RestNext'
  <2> SUFFICES ASSUME NEW t \in Structs, alive[t], Len(wire'[conn[t]]) > 0,
                      put[wire'[conn[t]][Len(wire'[conn[t]])][1]].on = conn[t],
                      wire'[conn[t]][Len(wire'[conn[t]])][2] = 1
               PROVE  sending'[t] = wire'[conn[t]][Len(wire'[conn[t]])][1]
    BY DEF RestNext
  <2>1. wire'[conn[t]] = wire[conn[t]]
    BY <1>5
  <2>2. t # s
    <3>1. ASSUME t = s PROVE Mine(pass)
      BY <2>1, <3>1, AtHand
    <3> QED
      BY <3>1
  <2> QED
    BY <1>3, <2>1, <2>2 DEF FwdInv, RestNext
<1>19. ShareKept'
  <2> SUFFICES ASSUME NEW id \in DOMAIN put
               PROVE  \/ \E i \in DOMAIN psends : psends[i].id = id
                      \/ \E i \in DOMAIN csq' : csq'[i].id = id
                      \/ \E i \in DOMAIN wire'[put[id].on] : wire'[put[id].on][i] = <<id, Parts>>
                      \/ id \in failed
                      \/ ~ \E t \in Structs : alive[t] /\ conn[t] = put[id].on
    BY DEF ShareKept
  <2>1. DOMAIN csq = 1..Len(csq) /\ DOMAIN csq' = 1..Len(csq')
    BY <1>1, <1>10 DEF FwdTypes
  <2>2. put[id].on \in DOMAIN wire
    BY <1>1, CsMessages DEF Connections
  <2>3. (\E i \in DOMAIN wire[put[id].on] : wire[put[id].on][i] = <<id, Parts>>) =>
           \E i \in DOMAIN wire'[put[id].on] : wire'[put[id].on][i] = <<id, Parts>>
    BY <1>5, <2>2
  <2>4. CASE \E q \in DOMAIN csq : csq[q].id = id
    <3>1. PICK q \in 1..Len(csq) : csq[q].id = id
      BY <2>1, <2>4
    <3>2. CASE q = pass
      <4>1. ASSUME NEW t \in Structs, alive[t], conn[t] = put[id].on PROVE Mine(pass)
        BY <1>1, <1>2, <3>1, <3>2, <4>1 DEF Belong, Mine
      <4> QED
        BY <4>1
    <3>3. CASE \E k \in 1..Len(csq') : csq'[k] = csq[q]
      BY <2>1, <3>1, <3>3
    <3> QED
      BY <1>4, <3>2, <3>3
  <2>5. CASE ~ \E q \in DOMAIN csq : csq[q].id = id
    BY <2>3, <2>5 DEF FwdInv, ShareKept
  <2> QED
    BY <2>4, <2>5
<1> QED
  BY <1>6, <1>10, <1>11, <1>12, <1>15, <1>16, <1>17, <1>19 DEF FwdInv

\* Who has the descriptor now is the session of the message, with the connection its
\* share was handed over for, or one of which nothing is half written.
LEMMA PassSent == FwdInv /\ Sockets /\ AtStep /\ PassSend => FwdInv'
<1> SUFFICES ASSUME FwdInv, Sockets, AtStep, PassSend PROVE FwdInv'
  OBVIOUS
<1>1. /\ AtMessage /\ MaySend(At) /\ PartTaken /\ step = "write"
      /\ UNCHANGED <<conn, alive, psends, put, failed, lastJob>>
  BY StepAt DEF PassSend, jobVars, historyVars
<1>2. PICK r \in Structs : csfd[r] # 0 /\ csfd[r] = target /\ SentTo(r)
  BY DEF PassSend, Connected, SentTo
<1>3. /\ pass \in 1..Len(csq) /\ At = csq[pass] /\ At.s \in Structs
      /\ At.id \in 1..Len(put) /\ At.left \in 1..2
  BY <1>1, AtTypes
<1>4. FwdTypes /\ Belong /\ Connections /\ Written
  BY DEF FwdInv
<1>5. CASE put[At.id].on = conn[r]
  <2>1. At.s = r
    BY <1>3, <1>4, <1>5 DEF Belong
  <2>2. alive[r]
    BY <1>2, <1>3, <1>5 DEF Sockets
  <2>3. sending[At.s] = At.id
    BY <1>1, <1>3, <1>5, <2>1, <2>2 DEF AtStep, Mine
  <2>4. Sent /\ alive[At.s]
    BY <1>2, <2>1, <2>2 DEF Sent
  <2>5. CASE At.left = 1
    BY <1>1, <2>4, <2>5, SentRest DEF PartTaken
  <2>6. CASE At.left # 1
    <3>1. OneLess /\ UNCHANGED <<sending, pass>>
      BY <1>1, <2>6 DEF PartTaken, OneLess
    <3>2. sending' = [sending EXCEPT ![At.s] = At.id]
      BY <1>3, <1>4, <2>3, <3>1 DEF FwdTypes
    <3> QED
      BY <1>1, <2>4, <2>6, <3>1, <3>2, SentFirst
  <2> QED
    BY <2>5, <2>6
<1>6. CASE put[At.id].on # conn[r]
  <2>1. ~ Mine(pass)
    <3>1. ASSUME Mine(pass) PROVE r = At.s /\ put[At.id].on = conn[At.s]
      BY <1>1, <1>2, <1>3, <3>1 DEF AtStep, Mine, Sockets
    <3> QED
      BY <1>6, <3>1
  <2>2. Strays(r)
    <3> DEFINE w == wire[conn[r]]
    <3> SUFFICES ASSUME Len(w) > 0, put[w[Len(w)][1]].on = conn[r], w[Len(w)][2] = 1
                 PROVE  FALSE
      BY <1>6 DEF Strays
    <3>1. r = At.s
      BY <1>1, <1>2, <1>3 DEF AtStep
    <3>2. CASE alive[r]
      BY <1>1, <2>1, <3>1, <3>2, AtHand
    <3>3. CASE r \in setup
      <4>1. conn[r] \in 1..Len(wire) /\ Len(w) \in 1..Len(w)
        <5>1. conn[r] \in 1..Len(wire) /\ Len(w) \in Nat
          BY <1>4, CsMessages DEF Connections
        <5> QED
          BY <5>1
      <4>2. w[Len(w)][1] \in 1..Len(put)
        BY <1>4, <4>1 DEF Written
      <4> QED
        BY <3>3, <4>2 DEF Sockets
    <3> QED
      BY <1>2, <3>2, <3>3 DEF Sockets
  <2> QED
    BY <1>1, <1>2, <2>1, <2>2, AstrayTaken
<1> QED
  BY <1>5, <1>6

LEMMA Astray == FwdInv /\ Sockets /\ AtStep /\ PassAstray => FwdInv'
<1> SUFFICES ASSUME FwdInv, Sockets, AtStep, PassAstray PROVE FwdInv'
  OBVIOUS
<1>1. /\ AtMessage /\ MaySend(At) /\ PartTaken /\ step = "write"
      /\ UNCHANGED <<conn, alive, wire, psends, put, failed, lastJob>>
      /\ \A s \in Structs : csfd[s] # target
  BY StepAt DEF PassAstray, wireVars, jobVars, historyVars
<1>2. ~ Mine(pass)
  <2>1. csq[pass].s \in Structs
    BY <1>1, AtTypes
  <2> QED
    BY <1>1, <2>1 DEF AtStep
<1> QED
  BY <1>1, <1>2, AstrayTaken

-----------------------------------------------------------------------------
(* Descriptors.                                                              *)

LEMMA SocketsInit == FwdInit => Sockets /\ AtStep
<1> SUFFICES ASSUME FwdInit PROVE Sockets /\ AtStep
  OBVIOUS
<1>1. csfd \in [Structs -> Nat] /\ \A s \in Structs : csfd[s] = s /\ alive[s]
  BY FwdSets DEF FwdInit
<1> QED
  BY <1>1 DEF FwdInit, Sockets, AtStep

\* At another step, nothing is claimed of the message at hand.
LEMMA AtTest == step' = "test" => AtStep'
BY DEF AtStep

\* Those that change none of it, or have done with the message at hand.
LEMMA SocketsQuiet ==
    ASSUME FwdInv, Sockets, UNCHANGED <<conn, alive, setup, csfd, put>>,
           step' \in {"test", "load", "write"}, target' \in Nat
    PROVE  Sockets'
BY DEF Sockets

LEMMA AtStepQuiet ==
    ASSUME AtStep, UNCHANGED <<conn, alive, csfd, sending, wire, csq, put, passVars>>
    PROVE  AtStep'
BY DEF AtStep, Mine, passVars

LEMMA SocketsElsewhere ==
    ASSUME FwdInv, Sockets, AtStep,
           \/ TwoMinutes \/ AgeShares \/ NewJob
           \/ \E m \in Miners, s \in Structs : Rebind(m, s)
           \/ \E s \in Structs, id \in shares : AnswerShare(s, id)
           \/ \E s, t \in Structs : ReplyLoad(s) \/ ReplyPiece(s, t) \/ ReplyEnd(s)
           \/ \E j \in jobs : AgeJob(j)
    PROVE  Sockets' /\ AtStep'
<1>1. UNCHANGED <<conn, alive, setup, csfd, sending, wire, csq, put, pass, step, target>>
  BY DEF TwoMinutes, AgeShares, NewJob, Rebind, AnswerShare, AgeJob, ReplyLoad, ReplyPiece,
         ReplyEnd, sessionVars, wireVars, queueVars, passVars, historyVars
<1> QED
  BY <1>1, SocketsQuiet, AtStepQuiet DEF Sockets, passVars

\* The pass is over, or not begun, or goes on to the next message.
LEMMA SocketsPass ==
    ASSUME FwdInv, Sockets, AtStep, PollPass \/ EndPass \/ PassSkip \/ PassBlocked \/ TakeShare
    PROVE  Sockets' /\ AtStep'
<1>1. UNCHANGED <<conn, alive, setup, csfd, put, target>> /\ step' = "test"
  <2>1. UNCHANGED <<conn, alive, setup, csfd, put, target>> /\ (step' = "test" \/ step' = step)
    BY DEF PollPass, EndPass, PassSkip, PassBlocked, TakeShare, sessionVars, historyVars
  <2>2. step # "test" => pass \in 1..Len(csq) /\ csq \in Seq(MsgOf)
    BY DEF AtStep, FwdInv, FwdTypes
  <2>3. PollPass \/ EndPass \/ PassSkip \/ TakeShare => step = "test"
    BY <2>2 DEF PollPass, EndPass, PassSkip, TakeShare
  <2> QED
    BY <2>1, <2>3 DEF PollPass, EndPass, PassSkip, PassBlocked, TakeShare
<1> QED
  BY <1>1, SocketsQuiet, AtTest DEF Sockets

\* The message at hand is dropped, or a part of it taken.
LEMMA SocketsDone ==
    ASSUME FwdInv, Sockets, AtStep, PassDead \/ PassSend \/ PassAstray \/ PassError
    PROVE  Sockets' /\ AtStep'
<1>1. step' = "test" /\ UNCHANGED <<conn, setup, put, target>>
  BY DEF PassDead, PassSend, PassAstray, PassError, PartTaken, Dispatched, historyVars
<1>2. CASE PassDead \/ PassSend \/ PassAstray
  <2>1. UNCHANGED <<alive, csfd>>
    BY <1>2 DEF PassDead, PassSend, PassAstray
  <2> QED
    BY <1>1, <2>1, SocketsQuiet, AtTest DEF Sockets
<1>3. CASE PassError
  <2>1. At.s \in Structs /\ alive \in [Structs -> BOOLEAN]
    BY <1>3, StepAt, AtTypes DEF PassError, FwdInv, FwdTypes
  <2>2. /\ csfd' \in [Structs -> Nat]
        /\ \A t \in Structs : alive'[t] = (alive[t] /\ t # At.s)
        /\ \A t \in Structs : csfd'[t] = IF t = At.s THEN 0 ELSE csfd[t]
    BY <1>3, <2>1 DEF PassError, Sockets
  <2>3. Sockets'
    BY <1>1, <2>2 DEF Sockets
  <2> QED
    BY <1>1, <2>3, AtTest
<1> QED
  BY <1>2, <1>3

LEMMA SocketsStep ==
    ASSUME FwdInv, Sockets, AtStep, PassTest \/ PassLoad
    PROVE  Sockets' /\ AtStep'
<1>1. AtMessage /\ MaySend(At)
  BY StepAt DEF PassTest, PassLoad
<1>2. /\ pass \in 1..Len(csq) /\ At = csq[pass] /\ At.s \in Structs /\ sending \in [Structs -> Nat]
  BY <1>1, AtTypes DEF FwdInv, FwdTypes
<1>3. UNCHANGED <<conn, alive, setup, csfd, wire, csq, put, pass>>
  BY DEF PassTest, PassLoad, sessionVars, wireVars, historyVars
<1>4. CASE PassTest
  <2>1. step' = "load" /\ target' = target /\ sending' = sending
    BY <1>4 DEF PassTest, sessionVars
  <2>2. Sockets'
    BY <1>3, <2>1, SocketsQuiet DEF Sockets
  <2>3. AtStep'
    BY <1>1, <1>2, <1>3, <2>1 DEF AtStep, MaySend
  <2> QED
    BY <2>2, <2>3
<1>5. CASE PassLoad
  <2>1. step' = "write" /\ target' = csfd[At.s] /\ sending'[At.s] = At.id
    BY <1>2, <1>5 DEF PassLoad
  <2>2. target' \in Nat
    BY <1>2, <2>1 DEF Sockets
  <2>3. Sockets'
    BY <1>3, <2>1, <2>2, SocketsQuiet
  <2>4. \A r \in Structs : ~ (r # At.s /\ csfd[r] = target' /\ target' # 0)
    BY <1>2, <2>1 DEF Sockets
  <2>5. AtStep'
    BY <1>2, <1>3, <2>1, <2>4 DEF AtStep
  <2> QED
    BY <2>3, <2>5
<1> QED
  BY <1>4, <1>5

\* A share is for a session that lives: none that is being set up.
LEMMA SocketsSubmit ==
    ASSUME FwdInv, Sockets, AtStep, NEW m \in Miners, NEW job, SubmitUpstream(m, job)
    PROVE  Sockets' /\ AtStep'
<1> DEFINE found == {s \in FoundBy(bound[m]) : alive[s]}
<1>1. UNCHANGED <<conn, alive, setup, csfd, sending, wire, csq, pass, step, target>>
  BY DEF SubmitUpstream, sessionVars, wireVars, passVars
<1>2. CASE found = {}
  <2>1. put' = put
    BY <1>2 DEF SubmitUpstream
  <2> QED
    BY <1>1, <2>1, SocketsQuiet, AtStepQuiet DEF Sockets, passVars
<1>3. CASE found # {}
  <2> DEFINE s == CHOOSE s \in found : TRUE
             h == [m |-> m, on |-> conn[s]]
  <2>1. s \in Structs /\ alive[s] /\ put' = Append(put, h)
    <3>1. s \in found
      BY <1>3
    <3> QED
      BY <1>3, <3>1 DEF SubmitUpstream, FoundBy
  <2>2. FwdTypes /\ Connections /\ Ids
    BY DEF FwdInv
  <2>3. h \in [m : Miners, on : Nat] /\ h.on = conn[s]
    BY <2>1, <2>2 DEF FwdTypes
  <2> HIDE DEF h, s
  <2>4. \A id \in 1..Len(put') :
          (id \in 1..Len(put) /\ put'[id] = put[id]) \/ put'[id] = h
    <3>1. put \in Seq([m : Miners, on : Nat])
      BY <2>2 DEF FwdTypes
    <3> QED
      BY <2>1, <2>3, <3>1
  <2>5. \A id \in 1..Len(put) : put'[id] = put[id]
    BY <2>1, <2>2, <2>3 DEF FwdTypes
  <2>6. Sockets'
    <3>1. ASSUME NEW t \in setup, NEW id \in 1..Len(put') PROVE put'[id].on # conn[t]
      <4>1. conn[s] # conn[t]
        BY <2>1, <2>2 DEF Sockets, Connections
      <4> QED
        BY <2>3, <2>4, <4>1 DEF Sockets
    <3> QED
      BY <1>1, <3>1 DEF Sockets
  <2>7. AtStep'
    <3>1. step # "test" => (Mine(pass)' <=> Mine(pass))
      <4> SUFFICES ASSUME step # "test" PROVE Mine(pass)' <=> Mine(pass)
        OBVIOUS
      <4>1. csq[pass].id \in 1..Len(put)
        BY <2>2 DEF AtStep, Ids
      <4> QED
        BY <1>1, <2>5, <4>1 DEF Mine
    <3> QED
      BY <1>1, <3>1 DEF AtStep
  <2> QED
    BY <2>6, <2>7
<1> QED
  BY <1>2, <1>3

LEMMA SocketsLost ==
    ASSUME FwdInv, Sockets, AtStep, NEW s \in Structs, LoseSession(s) \/ CutSession(s)
    PROVE  Sockets' /\ AtStep'
<1>1. UNCHANGED <<conn, wire, csq, pass, step, target, put>>
  BY DEF LoseSession, CutSession, DisabledSession, wireVars, queueVars, passVars, historyVars
<1>2. FwdTypes
  BY DEF FwdInv
<1>3. /\ csfd' \in [Structs -> Nat] /\ setup' \subseteq setup
      /\ \A t \in Structs : csfd'[t] = IF t = s THEN 0 ELSE csfd[t]
      /\ \A t \in Structs : alive'[t] => alive[t] /\ t # s
      /\ \A t \in Structs : t # s => /\ alive'[t] = alive[t] /\ (t \in setup' <=> t \in setup)
                                     /\ sending'[t] = sending[t]
      /\ \A t \in Structs : sending'[t] = sending[t] \/ sending'[t] = 0
  <2>1. CASE LoseSession(s)
    BY <1>2, <2>1 DEF LoseSession, DisabledSession, Sockets, FwdTypes
  <2>2. CASE CutSession(s)
    BY <1>2, <2>2 DEF CutSession, Sockets, FwdTypes
  <2> QED
    BY <2>1, <2>2
<1>4. Sockets'
  BY <1>1, <1>3 DEF Sockets
<1>5. AtStep'
  <2> SUFFICES ASSUME step # "test" PROVE AtStep'
    BY <1>1 DEF AtStep
  <2>1. pass \in 1..Len(csq) /\ csq[pass].s \in Structs
    BY <1>2, CsMessages DEF AtStep
  <2>2. sending'[csq[pass].s] \in {0, csq[pass].id}
    BY <1>3, <2>1 DEF AtStep
  <2>3. Mine(pass)' => Mine(pass) /\ csq[pass].s # s
    BY <1>1, <1>3, <2>1 DEF Mine
  <2>4. \A r \in Structs : csfd'[r] = target /\ target # 0 => csfd[r] = target
    BY <1>3
  <2> QED
    BY <1>1, <1>3, <2>1, <2>2, <2>3, <2>4 DEF AtStep
<1> QED
  BY <1>4, <1>5

LEMMA SocketsConnect ==
    ASSUME FwdInv, Sockets, AtStep, NEW s \in Structs, NEW d \in Nat, ConnectSession(s, d)
    PROVE  Sockets' /\ AtStep'
<1> DEFINE C == Len(wire) + 1
<1>1. UNCHANGED <<alive, sending, csq, pass, step, target, put>>
  BY DEF ConnectSession, queueVars, passVars, historyVars
<1>2. FwdTypes /\ Connections /\ Ids
  BY DEF FwdInv
<1>3. /\ C \in Nat /\ Len(wire) \in Nat /\ wire'[C] = <<>>
      /\ \A c \in 1..Len(wire) : wire'[c] = wire[c] /\ c # C
  BY <1>2 DEF ConnectSession, FwdTypes
<1>4. /\ csfd' \in [Structs -> Nat] /\ setup' = setup \union {s} /\ ~ alive[s]
      /\ \A t \in Structs : csfd'[t] = IF t = s THEN d ELSE csfd[t]
      /\ \A t \in Structs : csfd[t] # d
      /\ \A t \in Structs : conn'[t] = IF t = s THEN C ELSE conn[t]
  BY <1>2 DEF ConnectSession, Sockets, FwdTypes
<1> HIDE DEF C
<1>5. \A id \in 1..Len(put) : put[id].on # C
  BY <1>2, <1>3 DEF Connections
<1>6. Sockets'
  <2>1. \A t \in setup' : ~ alive[t] /\ \A id \in 1..Len(put) : put[id].on # conn'[t]
    BY <1>4, <1>5 DEF Sockets
  <2> QED
    BY <1>1, <1>4, <2>1 DEF Sockets
<1>7. AtStep'
  <2> SUFFICES ASSUME step # "test" PROVE AtStep'
    BY <1>1 DEF AtStep
  <2>1. pass \in 1..Len(csq) /\ csq[pass].s \in Structs /\ csq[pass].id \in 1..Len(put)
    BY <1>2, CsMessages DEF AtStep, Ids
  <2>2. Mine(pass)' => Mine(pass) /\ csq[pass].s # s
    BY <1>1, <1>4, <2>1 DEF Mine
  <2>3. \A r \in Structs : r # s => wire'[conn'[r]] = wire[conn[r]]
    BY <1>2, <1>3, <1>4 DEF Connections
  <2>4. wire'[conn'[s]] = <<>>
    BY <1>3, <1>4
  <2>5. step = "write" /\ target # 0 =>
          \A r \in Structs : r # csq[pass].s /\ csfd'[r] = target => wire'[conn'[r]] = <<>>
    BY <1>4, <2>3, <2>4 DEF AtStep
  <2> QED
    BY <1>1, <1>4, <2>1, <2>2, <2>5 DEF AtStep
<1> QED
  BY <1>6, <1>7

LEMMA SocketsUp ==
    ASSUME FwdInv, Sockets, AtStep, NEW s \in Structs, SessionUp(s)
    PROVE  Sockets' /\ AtStep'
<1>1. UNCHANGED <<conn, csfd, sending, wire, csq, pass, step, target, put>>
  BY DEF SessionUp, wireVars, queueVars, passVars, historyVars
<1>2. FwdTypes /\ Ids
  BY DEF FwdInv
<1>3. /\ setup' = setup \ {s} /\ s \in setup
      /\ \A t \in Structs : alive'[t] = (alive[t] \/ t = s)
  BY <1>2 DEF SessionUp, FwdTypes
<1>4. Sockets'
  BY <1>1, <1>3 DEF Sockets
<1>5. AtStep'
  <2> SUFFICES ASSUME step # "test" PROVE AtStep'
    BY <1>1 DEF AtStep
  <2>1. pass \in 1..Len(csq) /\ csq[pass].s \in Structs /\ csq[pass].id \in 1..Len(put)
    BY <1>2, CsMessages DEF AtStep, Ids
  <2>2. Mine(pass)' => Mine(pass)
    BY <1>1, <1>3, <2>1 DEF Mine, Sockets
  <2> QED
    BY <1>1, <2>1, <2>2 DEF AtStep
<1> QED
  BY <1>4, <1>5

FwdAll == FwdInv /\ Sockets /\ AtStep

LEMMA FwdInitAll == FwdInit => FwdAll
BY FwdInitInv, SocketsInit DEF FwdAll

LEMMA FwdNextAll == FwdAll /\ [FwdNext]_fwdVars => FwdAll'
<1> SUFFICES ASSUME FwdInv, Sockets, AtStep, [FwdNext]_fwdVars PROVE FwdInv' /\ Sockets' /\ AtStep'
  BY DEF FwdAll
<1>1. CASE UNCHANGED fwdVars
  <2>1. UNCHANGED <<conn, alive, setup, csfd, sending, wire, psends, csq, put, pass, step, target,
                    failed, lastJob>>
    BY <1>1 DEF fwdVars, sessionVars, wireVars, queueVars, passVars, historyVars, jobVars
  <2>2. lastJob' \in Nat
    BY <2>1 DEF FwdInv, FwdTypes
  <2>3. FwdInv'
    BY <2>1, <2>2, FwdQuiet DEF Core
  <2> QED
    BY <2>1, <2>3, SocketsQuiet, AtStepQuiet DEF Sockets, passVars
<1>2. CASE TakeShare
  BY <1>2, Taken, SocketsPass
<1>3. CASE PollPass \/ EndPass \/ PassSkip \/ PassBlocked
  BY <1>3, PassMoves, SocketsPass
<1>4. CASE PassDead \/ PassError
  BY <1>4, DeadOrError, SocketsDone
<1>5. CASE PassSend
  BY <1>5, PassSent, SocketsDone
<1>6. CASE PassAstray
  BY <1>6, Astray, SocketsDone
<1>7. CASE PassLoad
  BY <1>7, Loaded, SocketsStep
<1>8. CASE PassTest
  BY <1>8, Elsewhere, SocketsStep
<1>9. ASSUME NEW m \in Miners, NEW job \in 1..lastJob, SubmitUpstream(m, job)
      PROVE  FwdInv' /\ Sockets' /\ AtStep'
  BY <1>9, Submitted, SocketsSubmit
<1>10. CASE \/ TwoMinutes \/ AgeShares \/ NewJob
            \/ \E m \in Miners, s \in Structs : Rebind(m, s)
            \/ \E s \in Structs, id \in shares : AnswerShare(s, id)
            \/ \E s, t \in Structs : ReplyLoad(s) \/ ReplyPiece(s, t) \/ ReplyEnd(s)
            \/ \E j \in jobs : AgeJob(j)
  BY <1>10, Elsewhere, SocketsElsewhere, Zenon
<1>11. ASSUME NEW s \in Structs, LoseSession(s) PROVE FwdInv' /\ Sockets' /\ AtStep'
  BY <1>11, Lost, SocketsLost
<1>12. ASSUME NEW s \in Structs, CutSession(s) PROVE FwdInv' /\ Sockets' /\ AtStep'
  BY <1>12, Elsewhere, SocketsLost
<1>13. ASSUME NEW s \in Structs, NEW d \in 1..MaxFds, ConnectSession(s, d)
       PROVE  FwdInv' /\ Sockets' /\ AtStep'
  <2>1. d \in Nat
    BY ShareForwardingAssumption
  <2> QED
    BY <1>13, <2>1, Connecting, SocketsConnect
<1>14. ASSUME NEW s \in Structs, SessionUp(s) PROVE FwdInv' /\ Sockets' /\ AtStep'
  BY <1>14, Up, SocketsUp
<1>15. CASE FwdNext
  <2>1. CASE ProxySend
    BY <1>2, <1>3, <1>4, <1>5, <1>6, <1>7, <1>8, <2>1 DEF ProxySend
  <2>2. CASE \E m \in Miners : \/ \E job \in 1..lastJob : SubmitUpstream(m, job)
                               \/ \E s \in Structs : Rebind(m, s)
    BY <1>9, <1>10, <2>2, Zenon
  <2>3. CASE \E s \in Structs :
               \/ \E id \in shares : AnswerShare(s, id)
               \/ ReplyLoad(s) \/ ReplyEnd(s) \/ \E t \in Structs : ReplyPiece(s, t)
               \/ LoseSession(s) \/ CutSession(s) \/ SessionUp(s)
               \/ \E d \in 1..MaxFds : ConnectSession(s, d)
    BY <1>10, <1>11, <1>12, <1>13, <1>14, <2>3, Zenon
  <2>4. CASE TwoMinutes \/ AgeShares \/ NewJob \/ \E j \in jobs : AgeJob(j)
    BY <1>10, <2>4, Zenon
  <2> QED
    BY <1>15, <2>1, <2>2, <2>3, <2>4 DEF FwdNext
<1> QED
  BY <1>1, <1>15

\* proxy_send, generator_add_send, send_json_msgq: the shares that are meant for a
\* connection are written to it whole and in order, though each message goes
\* out in parts, in passes over the messages of every session; for any number
\* of sessions, miners and shares.
THEOREM WholeInOrderThm == FwdSpec => []WholeInOrder
<1>1. FwdSpec => []FwdAll
  BY FwdInitAll, FwdNextAll, PTL DEF FwdSpec
<1>2. FwdAll => WholeInOrder
  BY DEF FwdAll, FwdInv
<1> QED
  BY <1>1, <1>2, PTL

\* None of the queues a share goes through loses it while the session it was
\* handed over for lives: it is written whole, or its miner is told.
THEOREM ShareKeptThm == FwdSpec => []ShareKept
<1>1. FwdSpec => []FwdAll
  BY FwdInitAll, FwdNextAll, PTL DEF FwdSpec
<1>2. FwdAll => ShareKept
  BY DEF FwdAll, FwdInv
<1> QED
  BY <1>1, <1>2, PTL

-----------------------------------------------------------------------------
(* NothingLost and InOrder: the queue of a thread.                            *)

\* Only the first thread ever has a message, and it has one when it is busy.
OnlyFirst ==
    /\ \A t \in Threads \ {First} : msgs[t] = <<>> /\ msg[t] = 0 /\ pc[t] # "busy"
    /\ (msg[First] # 0) <=> (pc[First] = "busy")

\* The messages that are handled, the one at hand and those queued are as many.
Apart ==
    LET q == msgs[First]
    IN  /\ \A i \in 1..Len(handled) : handled[i] <= made
        /\ \A i, j \in 1..Len(handled) : handled[i] = handled[j] => i = j
        /\ msg[First] <= made /\ \A i \in 1..Len(handled) : handled[i] # msg[First]
        /\ \A j \in 1..Len(q) : q[j] <= made /\ q[j] # msg[First]
        /\ \A i, j \in 1..Len(q) : q[i] = q[j] => i = j
        /\ \A i \in 1..Len(handled) : \A j \in 1..Len(q) : handled[i] # q[j]

\* Every message made is among them.
AllThere ==
    \A n \in 1..made :
        \/ \E i \in 1..Len(handled) : handled[i] = n
        \/ msg[First] = n
        \/ \E j \in 1..Len(msgs[First]) : msgs[First][j] = n

\* No message stands before one that it must follow.
Turn ==
    LET q == msgs[First]
    IN  /\ must \subseteq (1..made) \X (1..made)
        /\ \A i, j \in 1..Len(handled) : i < j => <<handled[j], handled[i]>> \notin must
        /\ \A i \in 1..Len(handled) : <<msg[First], handled[i]>> \notin must
        /\ \A i \in 1..Len(handled) : \A j \in 1..Len(q) : <<q[j], handled[i]>> \notin must
        /\ \A j \in 1..Len(q) : <<q[j], msg[First]>> \notin must
        /\ \A i, j \in 1..Len(q) : i < j => <<q[j], q[i]>> \notin must

QueueInv == TypeOK /\ OnlyFirst /\ Apart /\ AllThere /\ Turn

LEMMA QueueTypes ==
    ASSUME TypeOK
    PROVE  /\ First \in Threads /\ made \in Nat /\ made <= MaxMsgs /\ MaxMsgs \in Nat
           /\ msgs[First] \in Seq(Msgs) /\ Len(msgs[First]) \in Nat
           /\ handled \in Seq(Msgs) /\ Len(handled) \in Nat
           /\ DOMAIN handled = 1..Len(handled)
           /\ msg[First] \in Nat
           /\ \A i \in 1..Len(handled) : handled[i] \in Nat /\ handled[i] > 0
           /\ \A i \in 1..Len(msgs[First]) : msgs[First][i] \in Nat /\ msgs[First][i] > 0
<1>1. First \in Threads /\ MaxMsgs \in Nat
  BY CkMsgQueueAssumption
<1>2. Msgs \subseteq Nat /\ \A x \in Msgs : x > 0 /\ x <= MaxMsgs
  BY <1>1 DEF Msgs
<1>3. /\ msgs[First] \in Seq(Msgs) /\ handled \in Seq(Msgs)
      /\ msg[First] \in Msgs \union {0} /\ made \in Msgs \union {0}
  BY <1>1 DEF TypeOK
<1>4. made \in Nat /\ made <= MaxMsgs
  BY <1>1, <1>2, <1>3
<1>5. \A i \in 1..Len(handled) : handled[i] \in Msgs
  BY <1>3
<1>6. \A i \in 1..Len(msgs[First]) : msgs[First][i] \in Msgs
  BY <1>3
<1>7. Len(msgs[First]) \in Nat /\ Len(handled) \in Nat /\ DOMAIN handled = 1..Len(handled)
  BY <1>3
<1>8. msg[First] \in Nat
  <2>1. msg[First] \in Msgs => msg[First] \in Nat
    BY <1>2
  <2>2. msg[First] = 0 => msg[First] \in Nat
    OBVIOUS
  <2> QED
    BY <1>3, <2>1, <2>2
<1> QED
  BY <1>1, <1>2, <1>3, <1>4, <1>5, <1>6, <1>7, <1>8

LEMMA QueueInit == Init => QueueInv
<1> SUFFICES ASSUME Init PROVE QueueInv
  OBVIOUS
<1>1. First \in Threads /\ MaxMsgs \in Nat
  BY CkMsgQueueAssumption
<1>2. TypeOK
  BY DEF Init, TypeOK
<1>3. made = 0 /\ handled = <<>> /\ must = {} /\ msgs[First] = <<>> /\ msg[First] = 0
      /\ pc[First] = "new"
  BY <1>1 DEF Init
<1>4. OnlyFirst
  BY <1>1 DEF Init, OnlyFirst
<1>5. 1..Len(<<>>) = {}
  OBVIOUS
<1>6. Apart
  BY <1>3, <1>5 DEF Apart
<1>7. AllThere /\ Turn
  BY <1>3, <1>5 DEF AllThere, Turn
<1> QED
  BY <1>2, <1>4, <1>6, <1>7 DEF QueueInv

\* Only where threads are changes.
LEMMA MovesOnly ==
    ASSUME QueueInv, UNCHANGED <<msgs, msg, made, handled, must>>,
           pc' \in [Threads -> {"new", "check", "waiting", "woken", "busy"}],
           \A t \in Threads : (pc'[t] = "busy") = (pc[t] = "busy")
    PROVE  QueueInv'
<1>1. First \in Threads
  BY CkMsgQueueAssumption
<1>2. TypeOK'
  BY DEF QueueInv, TypeOK
<1>3. OnlyFirst'
  BY <1>1 DEF QueueInv, OnlyFirst
<1>4. Apart'
  BY DEF QueueInv, Apart
<1>5. AllThere'
  BY DEF QueueInv, AllThere
<1>6. Turn'
  BY DEF QueueInv, Turn
<1> QED
  BY <1>2, <1>3, <1>4, <1>5, <1>6 DEF QueueInv

\* A thread takes a message: it is the first.
LEMMA TakeKeeps ==
    ASSUME QueueInv, NEW t \in Threads, Take(t), pc[t] # "busy", UNCHANGED <<made, handled, must>>
    PROVE  QueueInv'
<1> DEFINE q == msgs[First]
<1>1. TypeOK /\ OnlyFirst /\ Apart /\ AllThere /\ Turn
  BY DEF QueueInv
<1>2. t = First /\ q # <<>>
  BY <1>1 DEF Take, OnlyFirst
<1>3. /\ q \in Seq(Msgs) /\ Len(q) \in Nat /\ Len(q) > 0 /\ Head(q) = q[1] /\ q[1] \in Msgs
      /\ Tail(q) \in Seq(Msgs) /\ Len(Tail(q)) = Len(q) - 1
      /\ \A i \in 1..Len(Tail(q)) : Tail(q)[i] = q[i + 1]
  BY <1>1, <1>2, QueueTypes
<1>4. /\ msg' = [msg EXCEPT ![First] = q[1]] /\ msgs' = [msgs EXCEPT ![First] = Tail(q)]
      /\ pc' = [pc EXCEPT ![First] = "busy"]
  BY <1>2, <1>3 DEF Take
<1>5. /\ msg[First] = 0 /\ msg'[First] = q[1] /\ msgs'[First] = Tail(q) /\ pc'[First] = "busy"
      /\ \A u \in Threads \ {First} : msg'[u] = msg[u] /\ msgs'[u] = msgs[u] /\ pc'[u] = pc[u]
  BY <1>1, <1>2, <1>4 DEF TypeOK, OnlyFirst
<1>6. ASSUME NEW i \in 1..Len(Tail(q))
      PROVE  \E k \in 1..Len(q) : k = i + 1 /\ Tail(q)[i] = q[k] /\ 1 < k
  <2>1. PICK k \in 1..Len(q) : k = i + 1 /\ 1 < k
    BY <1>3
  <2> QED
    BY <1>3, <2>1
<1>7. 1 \in 1..Len(q)
  BY <1>3
<1>8. TypeOK'
  BY <1>1, <1>3, <1>4 DEF TypeOK
<1>9. OnlyFirst'
  <2>1. q[1] # 0
    BY <1>1, <1>7, QueueTypes
  <2> QED
    BY <1>1, <1>5, <2>1 DEF OnlyFirst
<1> DEFINE T == Tail(q)
<1> HIDE DEF T
<1>10. \A i \in 1..Len(T) : \E k \in 1..Len(q) : k = i + 1 /\ T[i] = q[k] /\ 1 < k
  BY <1>6 DEF T
<1>11. msgs'[First] = T /\ msg'[First] = q[1] /\ \A k \in 1..Len(q) : k = 1 \/ \E i \in 1..Len(T) : T[i] = q[k]
  <2>1. ASSUME NEW k \in 1..Len(q), k # 1 PROVE \E i \in 1..Len(T) : T[i] = q[k]
    <3>1. PICK i \in 1..Len(Tail(q)) : k = i + 1
      BY <1>3, <2>1
    <3> QED
      BY <1>3, <3>1 DEF T
  <2> QED
    BY <1>5, <2>1 DEF T
<1>12. Apart'
  <2>1. \A i \in 1..Len(T) : T[i] <= made /\ T[i] # q[1]
    BY <1>1, <1>7, <1>10 DEF Apart
  <2>2. \A i, j \in 1..Len(T) : T[i] = T[j] => i = j
    <3> TAKE i, j \in 1..Len(T)
    <3> HAVE T[i] = T[j]
    <3>1. PICK k \in 1..Len(q) : k = i + 1 /\ T[i] = q[k]
      BY <1>10
    <3>2. PICK l \in 1..Len(q) : l = j + 1 /\ T[j] = q[l]
      BY <1>10
    <3>3. k = l
      BY <1>1, <3>1, <3>2 DEF Apart
    <3> QED
      BY <3>1, <3>2, <3>3
  <2>3. q[1] <= made /\ \A i \in 1..Len(handled) : handled[i] # q[1]
    BY <1>1, <1>7 DEF Apart
  <2>4. \A i \in 1..Len(handled) : \A j \in 1..Len(T) : handled[i] # T[j]
    BY <1>1, <1>10 DEF Apart
  <2> QED
    BY <1>1, <1>11, <2>1, <2>2, <2>3, <2>4 DEF Apart
<1>13. AllThere'
  <2> SUFFICES ASSUME NEW n \in 1..made
               PROVE  \/ \E i \in 1..Len(handled) : handled[i] = n
                      \/ q[1] = n
                      \/ \E j \in 1..Len(T) : T[j] = n
    BY <1>11 DEF AllThere
  <2>1. CASE \E j \in 1..Len(q) : q[j] = n
    BY <1>11, <2>1
  <2>2. n # 0
    BY <1>1, QueueTypes
  <2> QED
    BY <1>1, <1>5, <2>1, <2>2 DEF AllThere
<1>14. Turn'
  <2>1. \A i \in 1..Len(T) : <<T[i], q[1]>> \notin must
    BY <1>1, <1>7, <1>10 DEF Turn
  <2>2. \A i, j \in 1..Len(T) : i < j => <<T[j], T[i]>> \notin must
    <3> TAKE i, j \in 1..Len(T)
    <3> HAVE i < j
    <3>1. PICK k \in 1..Len(q) : k = i + 1 /\ T[i] = q[k]
      BY <1>10
    <3>2. PICK l \in 1..Len(q) : l = j + 1 /\ T[j] = q[l]
      BY <1>10
    <3>3. k < l
      BY <3>1, <3>2
    <3> QED
      BY <1>1, <3>1, <3>2, <3>3 DEF Turn
  <2>3. \A i \in 1..Len(handled) : <<q[1], handled[i]>> \notin must
    BY <1>1, <1>7 DEF Turn
  <2>4. \A i \in 1..Len(handled) : \A j \in 1..Len(T) : <<T[j], handled[i]>> \notin must
    BY <1>1, <1>10 DEF Turn
  <2> QED
    BY <1>1, <1>11, <2>1, <2>2, <2>3, <2>4 DEF Turn
<1> QED
  BY <1>8, <1>9, <1>12, <1>13, <1>14 DEF QueueInv

LEMMA HandleKeeps ==
    ASSUME QueueInv, NEW t \in Threads, Handle(t)
    PROVE  QueueInv'
<1> DEFINE q == msgs[First]
           m == msg[First]
           L == Len(handled)
<1>1. TypeOK /\ OnlyFirst /\ Apart /\ AllThere /\ Turn
  BY DEF QueueInv
<1>2. t = First /\ m # 0
  BY <1>1 DEF Handle, OnlyFirst
<1>3. m \in Msgs
  BY <1>1, <1>2 DEF TypeOK
<1>4. handled' = Append(handled, m) /\ msg' = [msg EXCEPT ![First] = 0]
      /\ pc' = [pc EXCEPT ![First] = "check"] /\ UNCHANGED <<msgs, made, must>>
  BY <1>2 DEF Handle
<1>5. /\ handled' \in Seq(Msgs) /\ Len(handled') = L + 1 /\ L \in Nat /\ handled'[L + 1] = m
      /\ \A i \in 1..L : handled'[i] = handled[i]
  BY <1>1, <1>3, <1>4, QueueTypes
<1>6. /\ msg'[First] = 0 /\ pc'[First] = "check"
      /\ \A u \in Threads \ {First} : msg'[u] = msg[u] /\ pc'[u] = pc[u]
  BY <1>1, <1>2, <1>4 DEF TypeOK
<1>7. \A i \in 1..(L + 1) : i \in 1..L \/ i = L + 1
  BY <1>5
<1> HIDE DEF m, L
<1>8. TypeOK'
  BY <1>1, <1>4, <1>5 DEF TypeOK
<1>9. OnlyFirst'
  BY <1>1, <1>4, <1>6 DEF OnlyFirst
<1>10. Apart'
  <2>1. \A i \in 1..(L + 1) : handled'[i] <= made /\ handled'[i] # 0
    <3>1. m <= made /\ \A i \in 1..L : handled[i] <= made /\ handled[i] # 0
      BY <1>1, QueueTypes DEF Apart, m, L
    <3> QED
      BY <1>2, <1>5, <1>7, <3>1
  <2>2. \A i, j \in 1..(L + 1) : handled'[i] = handled'[j] => i = j
    <3>1. \A i \in 1..L : handled[i] # m
      BY <1>1 DEF Apart, m, L
    <3>2. \A i, j \in 1..L : handled[i] = handled[j] => i = j
      BY <1>1 DEF Apart, L
    <3> QED
      BY <1>5, <1>7, <3>1, <3>2
  <2>3. \A j \in 1..Len(q) : q[j] <= made /\ q[j] # 0
    BY <1>1, QueueTypes DEF Apart
  <2>4. \A i \in 1..(L + 1) : \A j \in 1..Len(q) : handled'[i] # q[j]
    <3>1. \A j \in 1..Len(q) : q[j] # m
      BY <1>1 DEF Apart, m
    <3>2. \A i \in 1..L : \A j \in 1..Len(q) : handled[i] # q[j]
      BY <1>1 DEF Apart, L
    <3> QED
      BY <1>5, <1>7, <3>1, <3>2
  <2>5. 0 <= made
    BY <1>1, QueueTypes
  <2>6. \A i, j \in 1..Len(q) : q[i] = q[j] => i = j
    BY <1>1 DEF Apart
  <2> QED
    BY <1>4, <1>5, <1>6, <2>1, <2>2, <2>3, <2>4, <2>5, <2>6 DEF Apart
<1>11. AllThere'
  <2> SUFFICES ASSUME NEW n \in 1..made
               PROVE  \/ \E i \in 1..(L + 1) : handled'[i] = n
                      \/ \E j \in 1..Len(q) : q[j] = n
    BY <1>4, <1>5 DEF AllThere
  <2>1. L + 1 \in 1..(L + 1) /\ \A i \in 1..L : i \in 1..(L + 1)
    BY <1>5
  <2>2. (\E i \in 1..L : handled[i] = n) \/ m = n \/ (\E j \in 1..Len(q) : q[j] = n)
    BY <1>1 DEF AllThere, m, L
  <2> QED
    BY <1>5, <2>1, <2>2
<1>12. Turn'
  <2>1. \A i, j \in 1..(L + 1) : i < j => <<handled'[j], handled'[i]>> \notin must
    <3> TAKE i, j \in 1..(L + 1)
    <3> HAVE i < j
    <3>1. i \in 1..L
      BY <1>5
    <3>2. CASE j = L + 1
      BY <1>1, <1>5, <3>1, <3>2 DEF Turn, m, L
    <3>3. CASE j \in 1..L
      BY <1>1, <1>5, <3>1, <3>3 DEF Turn, L
    <3> QED
      BY <1>7, <3>2, <3>3
  <2>2. \A x \in must : x[1] # 0 /\ x[2] # 0
    BY <1>1 DEF Turn
  <2>3. \A x : <<0, x>> \notin must /\ <<x, 0>> \notin must
    BY <2>2
  <2>4. \A i \in 1..(L + 1) : \A j \in 1..Len(q) : <<q[j], handled'[i]>> \notin must
    <3>1. \A j \in 1..Len(q) : <<q[j], m>> \notin must
      BY <1>1 DEF Turn, m
    <3>2. \A i \in 1..L : \A j \in 1..Len(q) : <<q[j], handled[i]>> \notin must
      BY <1>1 DEF Turn, L
    <3> QED
      BY <1>5, <1>7, <3>1, <3>2
  <2> QED
    BY <1>1, <1>4, <1>5, <1>6, <2>1, <2>3, <2>4 DEF Turn
<1> QED
  BY <1>8, <1>9, <1>10, <1>11, <1>12 DEF QueueInv

\* The n messages that are new, as a sequence.
LEMMA NewList ==
    ASSUME TypeOK, NEW n \in Nat, made + n <= MaxMsgs
    PROVE  /\ List(n) \in Seq(Msgs) /\ Len(List(n)) = n
           /\ \A k \in 1..n : List(n)[k] = made + k
<1>1. made \in Nat /\ MaxMsgs \in Nat
  BY QueueTypes
<1>2. \A k \in 1..n : made + k \in 1..MaxMsgs
  BY <1>1
<1>3. List(n) \in [1..n -> Msgs]
  BY <1>2 DEF List, Msgs
<1>4. List(n) \in Seq(Msgs) /\ Len(List(n)) = n
  BY <1>3, SeqDef, LenProperties
<1> QED
  BY <1>4 DEF List

\* Two sequences joined: each element is one of the first or of the second, and
\* those of the first come first.
LEMMA Joined ==
    ASSUME NEW S, NEW a \in Seq(S), NEW b \in Seq(S)
    PROVE  LET s == a \o b
           IN  /\ s \in Seq(S)
               /\ \A i \in 1..Len(s) :
                    \/ i \in 1..Len(a) /\ s[i] = a[i]
                    \/ ~ (i \in 1..Len(a)) /\ \E k \in 1..Len(b) : i = Len(a) + k /\ s[i] = b[k]
               /\ \A i \in 1..Len(a) : \E j \in 1..Len(s) : s[j] = a[i]
               /\ \A i \in 1..Len(b) : \E j \in 1..Len(s) : s[j] = b[i]
<1> DEFINE s == a \o b
<1>1. /\ s \in Seq(S) /\ Len(s) = Len(a) + Len(b)
      /\ \A i \in 1..(Len(a) + Len(b)) : s[i] = IF i <= Len(a) THEN a[i] ELSE b[i - Len(a)]
  BY ConcatProperties
<1>2. Len(a) \in Nat /\ Len(b) \in Nat
  OBVIOUS
<1> HIDE DEF s
<1>3. ASSUME NEW i \in 1..Len(s)
      PROVE  \/ i \in 1..Len(a) /\ s[i] = a[i]
             \/ ~ (i \in 1..Len(a)) /\ \E k \in 1..Len(b) : i = Len(a) + k /\ s[i] = b[k]
  <2>1. CASE i <= Len(a)
    BY <1>1, <1>2, <2>1
  <2>2. CASE ~ (i <= Len(a))
    <3>1. PICK k \in 1..Len(b) : i = Len(a) + k /\ k = i - Len(a)
      <4>1. i - Len(a) \in 1..Len(b) /\ i = Len(a) + (i - Len(a))
        BY <1>1, <1>2, <2>2
      <4> QED
        BY <4>1
    <3>2. s[i] = b[k]
      BY <1>1, <2>2, <3>1
    <3> QED
      BY <2>2, <3>1, <3>2
  <2> QED
    BY <2>1, <2>2
<1>4. ASSUME NEW i \in 1..Len(a) PROVE \E j \in 1..Len(s) : s[j] = a[i]
  <2>1. i \in 1..Len(s) /\ i <= Len(a)
    BY <1>1, <1>2
  <2> QED
    BY <1>1, <2>1
<1>5. ASSUME NEW i \in 1..Len(b) PROVE \E j \in 1..Len(s) : s[j] = b[i]
  <2>1. PICK j \in 1..Len(s) : j = Len(a) + i /\ ~ (j <= Len(a)) /\ j - Len(a) = i
    <3>1. Len(a) + i \in 1..Len(s) /\ ~ (Len(a) + i <= Len(a)) /\ (Len(a) + i) - Len(a) = i
      BY <1>1, <1>2
    <3> QED
      BY <3>1
  <2>2. s[j] = b[i]
    BY <1>1, <2>1
  <2> QED
    BY <2>1, <2>2
<1> QED
  BY <1>1, <1>3, <1>4, <1>5 DEF s

\* What a queue of old and new messages must be like for the invariant to hold of
\* it: an element is an old one, which stood before those old ones it stands
\* before now, or a new one.
LEMMA MessagesAdded ==
    ASSUME QueueInv, NEW n \in Nat, made + n <= MaxMsgs, made' = made + n,
           NEW q \in Seq(Msgs), msgs' = [msgs EXCEPT ![First] = q], UNCHANGED <<msg, handled>>,
           pc' \in [Threads -> {"new", "check", "waiting", "woken", "busy"}],
           \A t \in Threads : (pc'[t] = "busy") = (pc[t] = "busy"),
           \A i \in 1..Len(q) : \/ \E k \in 1..Len(msgs[First]) : q[i] = msgs[First][k]
                                \/ q[i] \in New(n),
           \A i, j \in 1..Len(q) : q[i] = q[j] => i = j,
           \A k \in 1..Len(msgs[First]) : \E i \in 1..Len(q) : q[i] = msgs[First][k],
           \A x \in New(n) : \E i \in 1..Len(q) : q[i] = x,
           NEW more \in SUBSET ((1..(made + n)) \X (1..(made + n))), must' = must \union more,
           \A p \in more : p[1] \in New(n) \/ p[2] \in New(n),
           \A p \in more : p[2] \notin New(n) => p[2] \in Queued(First),
           \A i, j \in 1..Len(q) : i < j => <<q[j], q[i]>> \notin must \union more
    PROVE  QueueInv'
<1>1. TypeOK /\ OnlyFirst /\ Apart /\ AllThere /\ Turn
  BY DEF QueueInv
<1>2. /\ First \in Threads /\ made \in Nat /\ MaxMsgs \in Nat /\ msg[First] \in Nat
      /\ \A i \in 1..Len(handled) : handled[i] \in Nat /\ handled[i] > 0
      /\ \A i \in 1..Len(msgs[First]) : msgs[First][i] \in Nat /\ msgs[First][i] > 0
      /\ DOMAIN msgs[First] = 1..Len(msgs[First])
  BY <1>1, QueueTypes
<1>3. msgs'[First] = q /\ \A u \in Threads \ {First} : msgs'[u] = msgs[u]
  BY <1>1, <1>2 DEF TypeOK
<1>4. \A x \in New(n) : x \in Nat /\ x > made /\ x <= made + n
  BY <1>2 DEF New
<1>5. TypeOK'
  <2>1. made' \in Msgs \union {0}
    BY <1>2 DEF Msgs
  <2>2. 1..(made + n) \subseteq Msgs
    BY <1>2 DEF Msgs
  <2>3. must' \subseteq Msgs \X Msgs
    BY <1>1, <2>2 DEF TypeOK
  <2> QED
    BY <1>1, <2>1, <2>3 DEF TypeOK
<1>6. OnlyFirst'
  BY <1>1, <1>2, <1>3 DEF OnlyFirst
<1>7. made <= made + n
  BY <1>2
<1>8. \A x \in Nat : x <= made => x <= made + n /\ x \notin New(n)
  BY <1>2, <1>4
<1>9. Apart'
  <2>1. \A i \in 1..Len(handled) : handled[i] <= made + n /\ handled[i] # msg[First]
    BY <1>1, <1>2, <1>8 DEF Apart
  <2>2. msg[First] <= made + n
    BY <1>1, <1>2, <1>8 DEF Apart
  <2>3. ASSUME NEW j \in 1..Len(q)
        PROVE  /\ q[j] <= made + n /\ q[j] # msg[First]
               /\ \A i \in 1..Len(handled) : handled[i] # q[j]
    <3>1. CASE \E k \in 1..Len(msgs[First]) : q[j] = msgs[First][k]
      BY <1>1, <1>2, <1>8, <3>1 DEF Apart
    <3>2. CASE q[j] \in New(n)
      BY <1>1, <1>2, <1>4, <1>8, <3>2 DEF Apart
    <3> QED
      BY <3>1, <3>2
  <2>4. \A i, j \in 1..Len(handled) : handled[i] = handled[j] => i = j
    BY <1>1 DEF Apart
  <2> QED
    BY SMTT(60), <1>3, <2>1, <2>2, <2>3, <2>4 DEF Apart
<1>10. AllThere'
  <2> SUFFICES ASSUME NEW x \in 1..(made + n)
               PROVE  \/ \E i \in 1..Len(handled) : handled[i] = x
                      \/ msg[First] = x
                      \/ \E j \in 1..Len(q) : q[j] = x
    BY SMTT(60), <1>3 DEF AllThere
  <2>1. x \in 1..made \/ x \in New(n)
    BY <1>2 DEF New
  <2>2. CASE x \in 1..made
    <3>1. \/ \E i \in 1..Len(handled) : handled[i] = x
          \/ msg[First] = x
          \/ \E j \in 1..Len(msgs[First]) : msgs[First][j] = x
      BY <1>1, <2>2 DEF AllThere
    <3>2. ASSUME NEW k \in 1..Len(msgs[First]), msgs[First][k] = x
          PROVE  \E i \in 1..Len(q) : q[i] = x
      <4>1. PICK i \in 1..Len(q) : q[i] = msgs[First][k]
        OBVIOUS
      <4> QED
        BY <3>2, <4>1
    <3> QED
      BY <3>1, <3>2
  <2> QED
    BY <2>1, <2>2
<1>11. Turn'
  <2>1. must' \subseteq (1..(made + n)) \X (1..(made + n))
    <3>1. 1..made \subseteq 1..(made + n)
      BY <1>2
    <3>2. must \subseteq (1..made) \X (1..made)
      BY <1>1 DEF Turn
    <3> QED
      BY <3>1, <3>2
  <2>2. \A i \in 1..Len(handled) : handled[i] \notin New(n) /\ handled[i] \notin Queued(First)
    <3> SUFFICES ASSUME NEW i \in 1..Len(handled)
                 PROVE  handled[i] \notin New(n) /\ handled[i] \notin Queued(First)
      OBVIOUS
    <3>1. handled[i] \in Nat /\ handled[i] <= made
      BY <1>1, <1>2 DEF Apart
    <3>2. \A j \in 1..Len(msgs[First]) : handled[i] # msgs[First][j]
      BY <1>1 DEF Apart
    <3> QED
      BY <1>2, <1>8, <3>1, <3>2 DEF Queued
  <2>3. msg[First] \notin New(n) /\ msg[First] \notin Queued(First)
    BY <1>1, <1>2, <1>8 DEF Apart, Queued
  <2>4. \A y : \A i \in 1..Len(handled) : <<y, handled[i]>> \notin more
    BY <2>2
  <2>5. \A y : <<y, msg[First]>> \notin more
    BY <2>3
  <2>6. \A x \in New(n) : \A y : <<x, y>> \notin must
    <3>1. \A p \in must : p[1] \in 1..made
      BY <1>1 DEF Turn
    <3> QED
      BY <1>2, <1>4, <3>1
  <2>7. \A i, j \in 1..Len(handled) : i < j => <<handled[j], handled[i]>> \notin must'
    BY <1>1, <2>4 DEF Turn
  <2>8. \A i \in 1..Len(handled) : <<msg[First], handled[i]>> \notin must'
    BY <1>1, <2>4 DEF Turn
  <2>9. ASSUME NEW j \in 1..Len(q)
        PROVE  /\ <<q[j], msg[First]>> \notin must'
               /\ \A i \in 1..Len(handled) : <<q[j], handled[i]>> \notin must'
    <3>1. CASE \E k \in 1..Len(msgs[First]) : q[j] = msgs[First][k]
      BY <1>1, <2>4, <2>5, <3>1 DEF Turn
    <3>2. CASE q[j] \in New(n)
      BY <2>4, <2>5, <2>6, <3>2
    <3> QED
      BY <3>1, <3>2
  <2>10. \A i, j \in 1..Len(q) : i < j => <<q[j], q[i]>> \notin must'
    OBVIOUS
  <2>11. UNCHANGED <<msg, handled>> /\ made' = made + n
    OBVIOUS
  <2> QED
    BY <1>3, <2>1, <2>7, <2>8, <2>9, <2>10, <2>11, Zenon DEF Turn
<1> QED
  BY <1>5, <1>6, <1>9, <1>10, <1>11 DEF QueueInv

\* The condition is signalled: no thread becomes busy.
LEMMA Woken ==
    ASSUME TypeOK, Broadcast \/ Signal
    PROVE  /\ pc' \in [Threads -> {"new", "check", "waiting", "woken", "busy"}]
           /\ \A t \in Threads : (pc'[t] = "busy") = (pc[t] = "busy")
<1>1. pc \in [Threads -> {"new", "check", "waiting", "woken", "busy"}]
  BY DEF TypeOK
<1>2. CASE Broadcast
  BY <1>1, <1>2 DEF Broadcast, Waiting
<1>3. CASE pc' = pc
  BY <1>1, <1>3
<1>4. ASSUME NEW t \in Waiting, pc' = [pc EXCEPT ![t] = "woken"]
      PROVE  /\ pc' \in [Threads -> {"new", "check", "waiting", "woken", "busy"}]
             /\ \A u \in Threads : (pc'[u] = "busy") = (pc[u] = "busy")
  BY <1>1, <1>4 DEF Waiting
<1> QED
  BY <1>2, <1>3, <1>4 DEF Signal

\* What is new and what is old, in a queue that has been added to.
LEMMA AtEndKeeps ==
    ASSUME QueueInv, NEW n \in Nat, Adds(n), AtEnd(n), Broadcast \/ Signal
    PROVE  QueueInv'
<1> DEFINE old == msgs[First]
           new == List(n)
           q == old \o new
           more == ((1..made) \X New(n)) \union InTurn(n)
<1>1. TypeOK /\ Apart /\ Turn /\ made + n <= MaxMsgs /\ made' = made + n
      /\ UNCHANGED <<msg, handled>>
  BY DEF QueueInv, Adds
<1>2. /\ old \in Seq(Msgs) /\ made \in Nat /\ DOMAIN old = 1..Len(old) /\ Len(old) \in Nat
      /\ \A i \in 1..Len(old) : old[i] \in 1..made
  BY <1>1, QueueTypes DEF Apart
<1>3. new \in Seq(Msgs) /\ Len(new) = n /\ \A k \in 1..n : new[k] = made + k
  BY <1>1, NewList
<1>4. /\ \A k \in 1..n : made + k \in New(n)
      /\ \A x \in New(n) : x \in Nat /\ x > made /\ x <= made + n /\ \E k \in 1..n : x = made + k
  <2>1. ASSUME NEW x \in New(n) PROVE \E k \in 1..n : x = made + k
    <3>1. x - made \in 1..n /\ x = made + (x - made)
      BY <1>2 DEF New
    <3> QED
      BY <3>1
  <2> QED
    BY <1>2, <2>1 DEF New
<1> HIDE DEF old, new
<1>5. /\ q \in Seq(Msgs)
      /\ \A i \in 1..Len(q) :
            \/ i \in 1..Len(old) /\ q[i] = old[i]
            \/ ~ (i \in 1..Len(old)) /\ \E k \in 1..Len(new) : i = Len(old) + k /\ q[i] = new[k]
      /\ \A i \in 1..Len(old) : \E j \in 1..Len(q) : q[j] = old[i]
      /\ \A i \in 1..Len(new) : \E j \in 1..Len(q) : q[j] = new[i]
  BY <1>2, <1>3, Joined
<1>6. msgs' = [msgs EXCEPT ![First] = q] /\ must' = must \union more
  BY DEF AtEnd, old, new
<1> HIDE DEF q
<1>7. \A i \in 1..Len(q) : \/ i \in 1..Len(old) /\ q[i] = old[i] /\ q[i] \in 1..made
                           \/ ~ (i \in 1..Len(old)) /\ q[i] \in New(n)
                              /\ \E k \in 1..n : i = Len(old) + k /\ q[i] = made + k
  <2> TAKE i \in 1..Len(q)
  <2>1. CASE i \in 1..Len(old)
    BY <1>2, <1>5, <2>1
  <2>2. CASE ~ (i \in 1..Len(old))
    <3>1. PICK k \in 1..n : i = Len(old) + k /\ q[i] = new[k]
      BY <1>3, <1>5, <2>2
    <3>2. q[i] = made + k
      BY <1>3, <3>1
    <3>3. q[i] \in New(n)
      BY <1>4, <3>2
    <3> QED
      BY <2>2, <3>1, <3>2, <3>3
  <2> QED
    BY <2>1, <2>2
<1>8. \A x \in 1..made : x \notin New(n)
  BY <1>2, <1>4
<1>9. \A i, j \in 1..Len(q) : q[i] = q[j] => i = j
  <2> TAKE i, j \in 1..Len(q)
  <2> HAVE q[i] = q[j]
  <2>1. CASE q[i] \in 1..made
    BY <1>1, <1>7, <1>8, <2>1 DEF Apart, old
  <2>2. CASE q[i] \in New(n)
    <3>1. PICK k \in 1..n : i = Len(old) + k /\ q[i] = made + k
      BY <1>7, <1>8, <2>2
    <3>2. PICK l \in 1..n : j = Len(old) + l /\ q[j] = made + l
      BY <1>7, <1>8, <2>2
    <3>3. k = l
      BY <1>2, <3>1, <3>2
    <3> QED
      BY <3>1, <3>2, <3>3
  <2> QED
    BY <1>7, <2>1, <2>2
<1>10. more \in SUBSET ((1..(made + n)) \X (1..(made + n)))
  <2>1. 1..made \subseteq 1..(made + n) /\ New(n) \subseteq 1..(made + n)
    BY <1>2 DEF New
  <2> QED
    BY <2>1 DEF InTurn
<1>11. \A p \in more : p[2] \in New(n)
  BY DEF InTurn
<1>12. \A p \in more : p[1] \in New(n) => p[2] \in New(n) /\ p[1] < p[2]
  BY <1>8 DEF InTurn
<1> HIDE DEF more
<1>13. ASSUME NEW i \in 1..Len(q), NEW j \in 1..Len(q), i < j
       PROVE  <<q[j], q[i]>> \notin must \union more
  <2>1. CASE q[i] \in 1..made /\ q[j] \in 1..made
    <3>1. <<q[j], q[i]>> \notin must
      BY <1>1, <1>7, <1>8, <1>13, <2>1 DEF Turn, old
    <3>2. <<q[j], q[i]>> \notin more
      BY <1>8, <1>11, <2>1
    <3> QED
      BY <3>1, <3>2
  <2>2. CASE q[j] \in New(n)
    <3>1. <<q[j], q[i]>> \notin must
      BY <1>1, <1>8, <2>2 DEF Turn
    <3>2. ASSUME <<q[j], q[i]>> \in more PROVE FALSE
      <4>1. q[i] \in New(n) /\ q[j] < q[i]
        BY <1>12, <2>2, <3>2
      <4>2. PICK k \in 1..n : i = Len(old) + k /\ q[i] = made + k
        BY <1>7, <1>8, <4>1
      <4>3. PICK l \in 1..n : j = Len(old) + l /\ q[j] = made + l
        BY <1>7, <1>8, <2>2
      <4> QED
        BY <1>2, <1>13, <4>1, <4>2, <4>3
    <3> QED
      BY <3>1, <3>2
  <2>3. CASE q[i] \in New(n) /\ q[j] \in 1..made
    <3>1. ~ (i \in 1..Len(old)) /\ j \in 1..Len(old)
      BY <1>7, <1>8, <2>3
    <3> QED
      BY <1>2, <1>13, <3>1
  <2> QED
    BY <1>7, <2>1, <2>2, <2>3
<1>14. \A i \in 1..Len(q) : \/ \E k \in 1..Len(old) : q[i] = old[k]
                            \/ q[i] \in New(n)
  BY <1>7
<1>15. \A x \in New(n) : \E i \in 1..Len(q) : q[i] = x
  <2> TAKE x \in New(n)
  <2>1. PICK k \in 1..n : x = made + k
    BY <1>4
  <2>2. PICK i \in 1..Len(q) : q[i] = new[k]
    BY <1>3, <1>5
  <2> QED
    BY <1>3, <2>1, <2>2
<1>16. \A p \in more : (p[1] \in New(n) \/ p[2] \in New(n))
                       /\ (p[2] \notin New(n) => p[2] \in Queued(First))
  BY <1>11
<1>17. \A k \in 1..Len(old) : \E i \in 1..Len(q) : q[i] = old[k]
  BY <1>5
<1>18. /\ pc' \in [Threads -> {"new", "check", "waiting", "woken", "busy"}]
       /\ \A t \in Threads : (pc'[t] = "busy") = (pc[t] = "busy")
  BY <1>1, Woken
<1>19. q \in Seq(Msgs)
  BY <1>5
<1> QED
  BY <1>1, <1>6, <1>9, <1>10, <1>13, <1>14, <1>15, <1>16, <1>17, <1>18, <1>19, MessagesAdded
     DEF old

\* ssend_bulk_prepend
PrependOf(n) ==
    must \union (((1..made) \ Queued(First)) \X New(n)) \union (New(n) \X Queued(First))
         \union InTurn(n)

LEMMA PrependKeeps ==
    ASSUME QueueInv, NEW n \in Nat, Adds(n), msgs' = [msgs EXCEPT ![First] = List(n) \o @],
           must' = PrependOf(n), Signal
    PROVE  QueueInv'
<1> DEFINE old == msgs[First]
           new == List(n)
           q == new \o old
           more == (((1..made) \ Queued(First)) \X New(n)) \union (New(n) \X Queued(First))
                   \union InTurn(n)
<1>1. TypeOK /\ Apart /\ Turn /\ made + n <= MaxMsgs /\ made' = made + n
      /\ UNCHANGED <<msg, handled>>
  BY DEF QueueInv, Adds
<1>2. /\ old \in Seq(Msgs) /\ made \in Nat /\ DOMAIN old = 1..Len(old) /\ Len(old) \in Nat
      /\ \A i \in 1..Len(old) : old[i] \in 1..made /\ old[i] \in Queued(First)
      /\ \A x \in Queued(First) : x \in 1..made
  <2>1. /\ old \in Seq(Msgs) /\ made \in Nat /\ DOMAIN old = 1..Len(old) /\ Len(old) \in Nat
        /\ \A i \in 1..Len(old) : old[i] \in 1..made
    BY <1>1, QueueTypes DEF Apart
  <2> QED
    BY <2>1 DEF Queued
<1>3. new \in Seq(Msgs) /\ Len(new) = n /\ \A k \in 1..n : new[k] = made + k
  BY <1>1, NewList
<1>4. /\ \A k \in 1..n : made + k \in New(n)
      /\ \A x \in New(n) : x \in Nat /\ x > made /\ x <= made + n /\ \E k \in 1..n : x = made + k
  <2>1. ASSUME NEW x \in New(n) PROVE \E k \in 1..n : x = made + k
    <3>1. x - made \in 1..n /\ x = made + (x - made)
      BY <1>2 DEF New
    <3> QED
      BY <3>1
  <2> QED
    BY <1>2, <2>1 DEF New
<1> HIDE DEF old, new
<1>5. /\ q \in Seq(Msgs)
      /\ \A i \in 1..Len(q) :
            \/ i \in 1..Len(new) /\ q[i] = new[i]
            \/ ~ (i \in 1..Len(new)) /\ \E k \in 1..Len(old) : i = Len(new) + k /\ q[i] = old[k]
      /\ \A i \in 1..Len(new) : \E j \in 1..Len(q) : q[j] = new[i]
      /\ \A i \in 1..Len(old) : \E j \in 1..Len(q) : q[j] = old[i]
  BY <1>2, <1>3, Joined
<1>6. msgs' = [msgs EXCEPT ![First] = q] /\ must' = must \union more
  BY DEF PrependOf, old, new
<1> HIDE DEF q
<1>7. \A i \in 1..Len(q) :
         \/ i \in 1..n /\ q[i] = made + i /\ q[i] \in New(n)
         \/ ~ (i \in 1..n) /\ q[i] \in 1..made /\ q[i] \in Queued(First)
            /\ \E k \in 1..Len(old) : i = n + k /\ q[i] = old[k]
  <2> TAKE i \in 1..Len(q)
  <2>1. CASE i \in 1..Len(new)
    BY <1>3, <1>4, <1>5, <2>1
  <2>2. CASE ~ (i \in 1..Len(new))
    <3>1. PICK k \in 1..Len(old) : i = n + k /\ q[i] = old[k]
      BY <1>3, <1>5, <2>2
    <3> QED
      BY <1>2, <1>3, <2>2, <3>1
  <2> QED
    BY <2>1, <2>2
<1>8. \A x \in 1..made : x \notin New(n)
  BY <1>2, <1>4
<1>9. \A i, j \in 1..Len(q) : q[i] = q[j] => i = j
  <2> TAKE i, j \in 1..Len(q)
  <2> HAVE q[i] = q[j]
  <2>1. CASE q[i] \in 1..made
    <3>1. PICK k \in 1..Len(old) : i = n + k /\ q[i] = old[k]
      BY <1>7, <1>8, <2>1
    <3>2. PICK l \in 1..Len(old) : j = n + l /\ q[j] = old[l]
      BY <1>7, <1>8, <2>1
    <3>3. k = l
      BY <1>1, <3>1, <3>2 DEF Apart, old
    <3> QED
      BY <3>1, <3>2, <3>3
  <2>2. CASE q[i] \in New(n)
    <3>1. q[i] = made + i /\ q[j] = made + j /\ i \in Nat /\ j \in Nat
      BY <1>7, <1>8, <2>2
    <3>2. made + i = made + j
      BY <3>1
    <3> QED
      BY <1>2, <3>1, <3>2
  <2> QED
    BY <1>7, <2>1, <2>2
<1>10. more \in SUBSET ((1..(made + n)) \X (1..(made + n)))
  <2>1. 1..made \subseteq 1..(made + n) /\ New(n) \subseteq 1..(made + n)
        /\ Queued(First) \subseteq 1..made
    BY <1>2 DEF New
  <2> QED
    BY <2>1 DEF InTurn
<1>11. \A p \in more : p[2] \in New(n) \/ (p[1] \in New(n) /\ p[2] \in Queued(First))
  BY DEF InTurn
<1>12. \A p \in more : p[1] \in New(n) /\ p[2] \in New(n) => p[1] < p[2]
  <2>1. \A x \in Queued(First) : x \notin New(n)
    BY <1>2, <1>8
  <2> QED
    BY <1>8, <2>1 DEF InTurn
<1>13. \A p \in more : p[1] \in 1..made => p[1] \notin Queued(First)
  BY <1>8 DEF InTurn
<1> HIDE DEF more
<1>14. ASSUME NEW i \in 1..Len(q), NEW j \in 1..Len(q), i < j
       PROVE  <<q[j], q[i]>> \notin must \union more
  <2>1. CASE q[i] \in 1..made /\ q[j] \in 1..made
    <3>1. PICK k \in 1..Len(old) : i = n + k /\ q[i] = old[k]
      BY <1>7, <1>8, <2>1
    <3>2. PICK l \in 1..Len(old) : j = n + l /\ q[j] = old[l]
      BY <1>7, <1>8, <2>1
    <3>3. k < l
      BY <1>14, <3>1, <3>2
    <3>4. <<q[j], q[i]>> \notin must
      BY <1>1, <3>1, <3>2, <3>3 DEF Turn, old
    <3>5. <<q[j], q[i]>> \notin more
      BY <1>8, <1>11, <2>1
    <3> QED
      BY <3>4, <3>5
  <2>2. CASE q[i] \in New(n)
    <3>1. <<q[j], q[i]>> \notin must
      BY <1>1, <1>8, <2>2 DEF Turn
    <3>2. ASSUME <<q[j], q[i]>> \in more, q[j] \in New(n) PROVE FALSE
      <4>1. q[j] < q[i] /\ q[i] = made + i /\ q[j] = made + j
        BY <1>7, <1>8, <1>12, <2>2, <3>2
      <4> QED
        BY <1>2, <1>14, <4>1
    <3>3. ASSUME <<q[j], q[i]>> \in more, q[j] \in 1..made PROVE FALSE
      BY <1>7, <1>8, <1>13, <3>3
    <3> QED
      BY <1>7, <3>1, <3>2, <3>3
  <2>3. CASE q[i] \in 1..made /\ q[j] \in New(n)
    <3>1. ~ (i \in 1..n) /\ j \in 1..n
      BY <1>7, <1>8, <2>3
    <3> QED
      BY <1>14, <3>1
  <2> QED
    BY <1>7, <2>1, <2>2, <2>3
<1>15. \A i \in 1..Len(q) : \/ \E k \in 1..Len(old) : q[i] = old[k]
                            \/ q[i] \in New(n)
  <2> TAKE i \in 1..Len(q)
  <2> QED
    BY <1>7
<1>16. \A x \in New(n) : \E i \in 1..Len(q) : q[i] = x
  <2> TAKE x \in New(n)
  <2>1. PICK k \in 1..n : x = made + k
    BY <1>4
  <2>2. PICK i \in 1..Len(q) : q[i] = new[k]
    BY <1>3, <1>5
  <2> QED
    BY <1>3, <2>1, <2>2
<1>17. \A p \in more : (p[1] \in New(n) \/ p[2] \in New(n))
                       /\ (p[2] \notin New(n) => p[2] \in Queued(First))
  BY <1>11
<1>18. \A k \in 1..Len(old) : \E i \in 1..Len(q) : q[i] = old[k]
  BY <1>5
<1>19. /\ pc' \in [Threads -> {"new", "check", "waiting", "woken", "busy"}]
       /\ \A t \in Threads : (pc'[t] = "busy") = (pc[t] = "busy")
  BY <1>1, Woken
<1>20. q \in Seq(Msgs)
  BY <1>5
<1> QED
  BY <1>1, <1>6, <1>9, <1>10, <1>14, <1>15, <1>16, <1>17, <1>18, <1>19, <1>20, MessagesAdded
     DEF old

LEMMA QueueNext == QueueInv /\ [Next]_vars => QueueInv'
<1> SUFFICES ASSUME QueueInv, [Next]_vars PROVE QueueInv'
  OBVIOUS
<1>0. TypeOK /\ OnlyFirst /\ pc \in [Threads -> {"new", "check", "waiting", "woken", "busy"}]
  BY DEF QueueInv, TypeOK
<1>1. CASE UNCHANGED vars
  BY <1>0, <1>1, MovesOnly DEF vars
<1>2. ASSUME NEW t \in Threads, ckmsg_queue(t) PROVE QueueInv'
  <2>1. CASE Start(t) \/ Timeout(t)
    <3>1. /\ UNCHANGED <<msgs, msg, made, handled, must>>
          /\ pc' \in [Threads -> {"new", "check", "waiting", "woken", "busy"}]
          /\ \A u \in Threads : (pc'[u] = "busy") = (pc[u] = "busy")
      BY <1>0, <2>1 DEF Start, Timeout
    <3> QED
      BY <3>1, MovesOnly
  <2>2. CASE Check(t) \/ Resume(t)
    <3>1. pc[t] # "busy" /\ UNCHANGED <<made, handled, must>>
      BY <2>2 DEF Check, Resume
    <3>2. CASE Take(t)
      BY <3>1, <3>2, TakeKeeps
    <3>3. CASE UNCHANGED <<msgs, msg>> /\ (\/ pc' = [pc EXCEPT ![t] = "waiting"]
                                           \/ pc' = [pc EXCEPT ![t] = "check"])
      <4>1. /\ pc' \in [Threads -> {"new", "check", "waiting", "woken", "busy"}]
            /\ \A u \in Threads : (pc'[u] = "busy") = (pc[u] = "busy")
        BY <1>0, <3>1, <3>3
      <4> QED
        BY <3>1, <3>3, <4>1, MovesOnly
    <3> QED
      BY <2>2, <3>2, <3>3 DEF Check, Resume
  <2>3. CASE Handle(t)
    BY <2>3, HandleKeeps
  <2> QED
    BY <1>2, <2>1, <2>2, <2>3 DEF ckmsg_queue
<1>3. CASE ckmsgq_add
  <2>1. 1 \in Nat /\ Adds(1) /\ AtEnd(1) /\ Broadcast
    BY <1>3 DEF ckmsgq_add
  <2> QED
    BY <2>1, AtEndKeeps
<1>4. CASE ssend_bulk_append
  <2>1. PICK n \in 1 .. 2 : Adds(n) /\ AtEnd(n) /\ Signal
    BY <1>4 DEF ssend_bulk_append
  <2>2. n \in Nat
    OBVIOUS
  <2> QED
    BY <2>1, <2>2, AtEndKeeps
<1>5. CASE ssend_bulk_prepend
  <2>1. PICK n \in 1 .. 2 : /\ Adds(n) /\ msgs' = [msgs EXCEPT ![First] = List(n) \o @]
                            /\ must' = PrependOf(n) /\ Signal
    BY <1>5 DEF ssend_bulk_prepend, PrependOf
  <2>2. n \in Nat
    OBVIOUS
  <2> QED
    BY <2>1, <2>2, PrependKeeps
<1> QED
  BY <1>1, <1>2, <1>3, <1>4, <1>5 DEF Next

\* ckmsgq_add, ssend_bulk_append, ssend_bulk_prepend, ckmsg_queue: messages are
\* done with in the order their additions ask for, for any number of threads and
\* messages.
THEOREM InOrderThm == Spec => []InOrder
<1>1. Spec => []QueueInv
  BY QueueInit, QueueNext, PTL DEF Spec
<1>2. QueueInv => InOrder
  <2> SUFFICES ASSUME QueueInv PROVE InOrder
    OBVIOUS
  <2>1. DOMAIN handled = 1..Len(handled)
    BY QueueTypes DEF QueueInv
  <2> QED
    BY <2>1 DEF QueueInv, Turn, InOrder
<1> QED
  BY <1>1, <1>2, PTL

\* There is one copy of each message made, and none of any other.
LEMMA OneCopy ==
    ASSUME QueueInv, NEW n \in Msgs
    PROVE  Copies(n) = IF n <= made THEN 1 ELSE 0
<1> DEFINE q == msgs[First]
           A == UNION {{<<t, i>> : i \in {j \in DOMAIN msgs[t] : msgs[t][j] = n}} : t \in Threads}
           B == {t \in Threads : msg[t] = n}
           C == {i \in DOMAIN handled : handled[i] = n}
           one == \E x : A = {x}
<1>1. TypeOK /\ OnlyFirst /\ Apart /\ AllThere
  BY DEF QueueInv
<1>2. /\ First \in Threads /\ made \in Nat /\ DOMAIN q = 1..Len(q)
      /\ DOMAIN handled = 1..Len(handled) /\ n \in Nat /\ n > 0
  BY <1>1, QueueTypes DEF Msgs
<1>3. A = {<<First, i>> : i \in {j \in 1..Len(q) : q[j] = n}}
  <2>1. \A t \in Threads : t # First => DOMAIN msgs[t] = {}
    BY <1>1 DEF OnlyFirst
  <2>2. A \subseteq {<<First, i>> : i \in {j \in 1..Len(q) : q[j] = n}}
    BY <1>2, <2>1
  <2>3. {<<First, i>> : i \in {j \in 1..Len(q) : q[j] = n}} \subseteq A
    BY <1>2
  <2> QED
    BY <2>2, <2>3, Zenon
<1>4. B = IF msg[First] = n THEN {First} ELSE {}
  <2>1. \A t \in Threads : msg[t] = n => t = First
    BY <1>1, <1>2 DEF OnlyFirst
  <2> QED
    BY <1>2, <2>1
<1>5. Copies(n) = Cardinality(A) + Cardinality(B) + Cardinality(C)
  BY DEF Copies
<1> HIDE DEF A, B, C
<1>6. Cardinality({}) = 0 /\ \A x : Cardinality({x}) = 1
  <2>1. Cardinality({}) = 0
    BY FS_EmptySet
  <2>2. \A x : Cardinality({x}) = 1
    BY FS_Singleton
  <2> QED
    BY <2>1, <2>2
<1>7. \A j \in 1..Len(q) : q[j] = n =>
         A = {<<First, j>>} /\ msg[First] # n /\ \A i \in 1..Len(handled) : handled[i] # n
  <2> TAKE j \in 1..Len(q)
  <2> HAVE q[j] = n
  <2>1. \A k \in 1..Len(q) : q[k] = n => k = j
    BY <1>1 DEF Apart
  <2>2. A = {<<First, j>>}
    BY <1>3, <2>1
  <2> QED
    BY <1>1, <2>2 DEF Apart
<1>8. (\A j \in 1..Len(q) : q[j] # n) => A = {}
  BY <1>3
<1>9. \A i \in 1..Len(handled) : handled[i] = n => C = {i} /\ msg[First] # n
  BY <1>1, <1>2 DEF Apart, C
<1>10. (\A i \in 1..Len(handled) : handled[i] # n) => C = {}
  BY <1>2 DEF C
<1>11. CASE n <= made
  <2>1. \/ \E i \in 1..Len(handled) : handled[i] = n
        \/ msg[First] = n
        \/ \E j \in 1..Len(q) : q[j] = n
    BY <1>1, <1>2, <1>11 DEF AllThere
  <2>2. CASE \E j \in 1..Len(q) : q[j] = n
    <3>1. PICK j \in 1..Len(q) : q[j] = n
      BY <2>2
    <3>2. A = {<<First, j>>} /\ B = {} /\ C = {}
      BY <1>4, <1>7, <1>10, <3>1
    <3>3. Cardinality(A) = 1 /\ Cardinality(B) = 0 /\ Cardinality(C) = 0
      BY <1>6, <3>2, Zenon
    <3> QED
      BY <1>5, <1>11, <3>3
  <2>3. CASE \A j \in 1..Len(q) : q[j] # n
    <3>1. A = {}
      BY <1>8, <2>3
    <3>2. CASE msg[First] = n
      <4>1. \A i \in 1..Len(handled) : handled[i] # n
        BY <1>9, <3>2
      <4>2. B = {First} /\ C = {}
        BY <1>4, <1>10, <3>2, <4>1
      <4>3. Cardinality(A) = 0 /\ Cardinality(B) = 1 /\ Cardinality(C) = 0
        BY <1>6, <3>1, <4>2, Zenon
      <4> QED
        BY <1>5, <1>11, <4>3
    <3>3. CASE msg[First] # n
      <4>1. PICK i \in 1..Len(handled) : handled[i] = n
        BY <2>1, <2>3, <3>3
      <4>2. B = {} /\ C = {i}
        BY <1>4, <1>9, <3>3, <4>1
      <4>3. Cardinality(A) = 0 /\ Cardinality(B) = 0 /\ Cardinality(C) = 1
        BY <1>6, <3>1, <4>2, Zenon
      <4> QED
        BY <1>5, <1>11, <4>3
    <3> QED
      BY <3>2, <3>3
  <2> QED
    BY <2>2, <2>3
<1>12. CASE ~ (n <= made)
  <2>1. (\A j \in 1..Len(q) : q[j] # n) /\ msg[First] # n
        /\ \A i \in 1..Len(handled) : handled[i] # n
    BY <1>1, <1>12 DEF Apart
  <2>2. A = {} /\ B = {} /\ C = {}
    BY <1>4, <1>8, <1>10, <2>1
  <2> QED
    BY <1>5, <1>6, <1>12, <2>2
<1> QED
  BY <1>11, <1>12

\* No interleaving of additions and threads loses a message or handles one twice.
THEOREM NothingLostThm == Spec => []NothingLost
<1>1. Spec => []QueueInv
  BY QueueInit, QueueNext, PTL DEF Spec
<1>2. QueueInv => NothingLost
  BY OneCopy DEF NothingLost
<1> QED
  BY <1>1, <1>2, PTL
=============================================================================
