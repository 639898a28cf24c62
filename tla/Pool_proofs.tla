------------------------------ MODULE Pool_proofs ------------------------------
(* Proofs about parts of the pool that share no state: lines read from a      *)
(* socket (LinesWhole), transaction tables (BlockToldOnce, NodesFollow), a    *)
(* client's difficulty (DiffTold), coinbases (CoinbaseRight), and the contract *)
(* of the tables of clients.                                                  *)
EXTENDS SocketLines, TransactionTables, ClientDifficulty, Coinbase, LazyReclaim,
        SequenceTheorems, FiniteSetTheorems, WellFoundedInduction, TLAPS

-----------------------------------------------------------------------------
(* LinesWhole: lines are cut out of the stream whole.                         *)

LinesSpec == LinesInit /\ [][LinesNext]_lineVars

Char == Nat \X Nat

\* What has been received and not returned, then what has not been received: of
\* a closed socket no more is.
Pending == IF fd THEN Kept \o stream ELSE Kept

LinesTypes ==
    /\ stream \in Seq(Char) /\ sent \in Seq(Nat) /\ fin \in BOOLEAN /\ fd \in BOOLEAN
    /\ buf \in Seq(Char) /\ bufofs \in Nat /\ buflen \in Nat
    /\ bufofs + buflen <= Len(buf) /\ inCall \in BOOLEAN
    /\ inCall => buflen = 0
    /\ opens \in Nat /\ (fd => opens > 0)

\* P is made of lines of the lengths snt, from line first on, the last of which
\* may be cut off.  A line begins with P, or after the end of another.
Begins(P, i) == i = 1 \/ P[i - 1][2] = 0

Framed(P, first, snt) ==
    /\ \A i \in 1..Len(P) : P[i][1] \in 1..Len(snt)
    /\ Len(P) > 0 => P[1][1] = first
    /\ \A i \in 1..(Len(P) - 1) : P[i][2] = 0 => P[i + 1][1] = P[i][1] + 1
    /\ \A i \in 1..Len(P) : Begins(P, i) =>
          \A n \in 0..snt[P[i][1]] : i + n <= Len(P) =>
              P[i + n] = <<P[i][1], IF n < snt[P[i][1]] THEN n + 1 ELSE 0>>

\* P goes on to the end of the last line sent.
Reaches(P, upto, snt) ==
    IF Len(P) = 0 THEN upto = Len(snt) ELSE P[Len(P)] = <<Len(snt), 0>>

\* What begins a framed sequence is framed.
LEMMA FramedPrefix ==
    ASSUME NEW P \in Seq(Char), NEW first \in Nat, NEW snt \in Seq(Nat),
           Framed(P, first, snt), NEW n \in 0..Len(P)
    PROVE  SubSeq(P, 1, n) \in Seq(Char) /\ Framed(SubSeq(P, 1, n), first, snt)
<1> DEFINE Q == SubSeq(P, 1, n)
<1>1. Q \in Seq(Char) /\ Len(Q) = n /\ \A i \in 1..n : Q[i] = P[i]
  BY SubSeqProperties
<1> HIDE DEF Q
<1>2. n <= Len(P) /\ n \in Nat /\ Len(P) \in Nat
  OBVIOUS
<1>3. \A i \in 1..n : Begins(Q, i) => Begins(P, i)
  BY <1>1, <1>2 DEF Begins
<1>4. \A i \in 1..n : P[i][1] \in 1..Len(snt)
  BY <1>2 DEF Framed
<1>5. n > 0 => Q[1][1] = first
  BY <1>1, <1>2 DEF Framed
<1>6. ASSUME NEW i \in 1..(n - 1), Q[i][2] = 0 PROVE Q[i + 1][1] = Q[i][1] + 1
  <2>1. Q[i] = P[i] /\ Q[i + 1] = P[i + 1] /\ i \in 1..(Len(P) - 1)
    BY SMTT(60), <1>1, <1>2
  <2> QED
    BY <2>1, <1>6 DEF Framed
<1>7. ASSUME NEW i \in 1..n, Begins(Q, i), NEW k \in 0..snt[Q[i][1]], i + k <= n
      PROVE  Q[i + k] = <<Q[i][1], IF k < snt[Q[i][1]] THEN k + 1 ELSE 0>>
  <2>1. Q[i] = P[i] /\ Begins(P, i) /\ i \in 1..Len(P) /\ i + k <= Len(P)
    BY SMTT(60), <1>1, <1>2, <1>3, <1>7
  <2>2. snt[P[i][1]] \in Nat
    BY <2>1, <1>4
  <2>3. i + k \in 1..n
    BY <2>1, <2>2, <1>7
  <2>4. Q[i + k] = P[i + k]
    BY <2>3, <1>1
  <2> QED
    BY <2>1, <2>4, <1>7 DEF Framed
<1> QED
  BY <1>1, <1>4, <1>5, <1>6, <1>7 DEF Framed, Q

\* With one more line at the end.
LEMMA FramedSends ==
    ASSUME NEW P \in Seq(Char), NEW upto \in Nat, NEW snt \in Seq(Nat), NEW m \in Nat,
           Framed(P, upto + 1, snt), Reaches(P, upto, snt)
    PROVE  LET n == Append(snt, m)
               Q == P \o Line(Len(snt) + 1, m)
           IN  Framed(Q, upto + 1, n) /\ Reaches(Q, upto, n)
<1> DEFINE n == Append(snt, m)
           L == Len(snt)
           W == Line(L + 1, m)
           Q == P \o W
<1>1. /\ W \in Seq(Char) /\ Len(W) = m + 1
      /\ \A i \in 1..(m + 1) : W[i] = <<L + 1, IF i <= m THEN i ELSE 0>>
  <2>1. Body(L + 1, m) \in Seq(Char) /\ Len(Body(L + 1, m)) = m
    BY DEF Body, Char
  <2>2. \A i \in 1..m : Body(L + 1, m)[i] = <<L + 1, i>>
    BY DEF Body
  <2>3. <<L + 1, 0>> \in Char
    BY DEF Char
  <2>4. W = Append(Body(L + 1, m), <<L + 1, 0>>)
    BY DEF Line
  <2> DEFINE B == Body(L + 1, m)
             z == <<L + 1, 0>>
  <2>5. /\ Append(B, z) \in Seq(Char) /\ Len(Append(B, z)) = Len(B) + 1
        /\ \A i \in 1..Len(B) : Append(B, z)[i] = B[i]
        /\ Append(B, z)[Len(B) + 1] = z
    <3> HIDE DEF B, z
    <3> QED
      BY <2>1, <2>3, AppendProperties DEF B, z
  <2>6. /\ W \in Seq(Char) /\ Len(W) = m + 1
        /\ \A i \in 1..m : W[i] = <<L + 1, i>>
        /\ W[m + 1] = <<L + 1, 0>>
    <3> HIDE DEF W
    <3> QED
      BY <2>1, <2>2, <2>4, <2>5
  <2>7. \A i \in 1..(m + 1) : i = m + 1 \/ i \in 1..m
    OBVIOUS
  <2>8. \A i \in 1..m : i <= m
    OBVIOUS
  <2>9. ~ (m + 1 <= m)
    OBVIOUS
  <2> HIDE DEF W
  <2> QED
    BY <2>6, <2>7, <2>8, <2>9
<1>2. /\ n \in Seq(Nat) /\ Len(n) = L + 1 /\ n[L + 1] = m
      /\ \A i \in 1..L : n[i] = snt[i]
  BY AppendProperties
<1> HIDE DEF n, W
<1>3. /\ Q \in Seq(Char) /\ Len(Q) = Len(P) + m + 1
      /\ \A i \in 1..Len(P) : Q[i] = P[i]
      /\ \A i \in 1..Len(Q) : ~ (i <= Len(P)) => Q[i] = W[i - Len(P)]
  <2>1. Q \in Seq(Char) /\ Len(Q) = Len(P) + Len(W)
    BY <1>1, ConcatProperties
  <2>2. \A i \in 1..(Len(P) + Len(W)) : Q[i] = IF i <= Len(P) THEN P[i] ELSE W[i - Len(P)]
    BY <1>1, ConcatProperties
  <2>3. \A i \in 1..Len(P) : i \in 1..(Len(P) + Len(W)) /\ i <= Len(P)
    BY <1>1
  <2> HIDE DEF Q
  <2> QED
    BY <2>1, <2>2, <2>3, <1>1
<1> HIDE DEF Q
<1>4. L \in Nat /\ Len(P) \in Nat
  BY DEF L
<1>5. \A i \in 1..Len(Q) : i \in 1..Len(P) \/ i - Len(P) \in 1..(m + 1)
  BY <1>3, <1>4
<1>6. ASSUME NEW i \in 1..Len(Q) PROVE Q[i][1] \in 1..Len(n)
  <2>1. CASE i \in 1..Len(P)
    <3>1. Q[i] = P[i] /\ P[i][1] \in 1..L
      BY <2>1, <1>3 DEF Framed
    <3> QED
      BY SMTT(60), <3>1, <1>2, <1>4
  <2>2. CASE i - Len(P) \in 1..(m + 1)
    <3>1. Q[i] = W[i - Len(P)]
      BY <2>2, <1>3, <1>4
    <3> QED
      BY SMTT(60), <3>1, <2>2, <1>1, <1>2, <1>4
  <2> QED
    BY <2>1, <2>2, <1>5
<1>7. Q[1][1] = upto + 1
  <2>1. CASE Len(P) = 0
    <3>1. Q[1] = W[1] /\ upto = L
      BY <2>1, <1>3 DEF Reaches
    <3> QED
      BY <3>1, <1>1
  <2>2. CASE Len(P) > 0
    BY SMTT(60), <2>2, <1>3, <1>4 DEF Framed
  <2> QED
    BY <2>1, <2>2, <1>4
<1>8. ASSUME NEW i \in 1..(Len(Q) - 1), Q[i][2] = 0 PROVE Q[i + 1][1] = Q[i][1] + 1
  <2>1. CASE i < Len(P)
    <3>1. Q[i] = P[i] /\ Q[i + 1] = P[i + 1] /\ i \in 1..(Len(P) - 1)
      BY SMTT(60), <2>1, <1>3, <1>4
    <3> QED
      BY <3>1, <1>8 DEF Framed
  <2>2. CASE i = Len(P)
    <3>0. i \in 1..Len(P) /\ i + 1 \in 1..Len(Q) /\ ~ (i + 1 <= Len(P)) /\ i + 1 - Len(P) = 1
      BY <2>2, <1>3, <1>4
    <3>1. Q[i] = P[i] /\ Q[i + 1] = W[1]
      BY <3>0, <1>3
    <3>2. P[i] = <<L, 0>>
      BY <2>2 DEF Reaches
    <3> QED
      BY <3>1, <3>2, <1>1
  <2>3. CASE i > Len(P)
    <3>1. i - Len(P) \in 1..m /\ ~ (i <= Len(P)) /\ i \in 1..Len(Q)
      BY <2>3, <1>3, <1>4
    <3>2. Q[i] = W[i - Len(P)]
      BY <3>1, <1>3
    <3>3. Q[i][2] = i - Len(P) /\ i - Len(P) # 0
      BY <3>1, <3>2, <1>1
    <3> QED
      BY <3>3, <1>8
  <2> QED
    BY <2>1, <2>2, <2>3, <1>4
<1>9. ASSUME NEW i \in 1..Len(Q), Begins(Q, i), NEW k \in 0..n[Q[i][1]], i + k <= Len(Q)
      PROVE  Q[i + k] = <<Q[i][1], IF k < n[Q[i][1]] THEN k + 1 ELSE 0>>
  <2>1. CASE i \in 1..Len(P)
    <3>a. i = 1 \/ i - 1 \in 1..Len(P)
      BY <2>1, <1>4
    <3>b. Q[i] = P[i] /\ (i # 1 => Q[i - 1] = P[i - 1])
      BY <2>1, <3>a, <1>3
    <3>c. Begins(P, i)
      BY <3>b, <1>9 DEF Begins
    <3>d. P[i][1] \in 1..L
      BY <2>1 DEF Framed
    <3>1. Q[i] = P[i] /\ P[i][1] \in 1..L
      BY <3>b, <3>d
    <3>2. n[Q[i][1]] = snt[P[i][1]] /\ snt[P[i][1]] \in Nat
      <4>1. \A l \in 1..L : n[l] = snt[l] /\ snt[l] \in Nat
        BY SMTT(60), <1>2
      <4> QED
        BY <4>1, <3>1
    <3> HIDE DEF L
    <3>3. CASE i + k <= Len(P)
      <4>1. Q[i + k] = P[i + k]
        BY SMTT(60), <2>1, <3>2, <3>3, <1>3, <1>9
      <4> QED
        BY <4>1, <3>c, <3>1, <3>2, <3>3, <1>9, <2>1 DEF Framed
    <3>4. CASE i + k > Len(P)
      \* the last character of P would be within the line
      <4>1. PICK j \in Nat : j = Len(P) - i
        BY <2>1, <1>4
      <4>2. j \in 0..snt[P[i][1]] /\ i + j = Len(P) /\ j < snt[P[i][1]] /\ j + 1 # 0
        BY SMTT(60), <4>1, <2>1, <3>2, <3>4, <1>4, <1>9
      <4>3. P[i + j] = <<P[i][1], IF j < snt[P[i][1]] THEN j + 1 ELSE 0>>
        <5>1. \A d \in 0..snt[P[i][1]] : i + d <= Len(P) =>
                P[i + d] = <<P[i][1], IF d < snt[P[i][1]] THEN d + 1 ELSE 0>>
          BY <3>c, <2>1 DEF Framed
        <5>2. i + j <= Len(P)
          BY <4>2, <1>4
        <5> QED
          BY <5>1, <5>2, <4>2, Zenon
      <4>4. P[Len(P)] = <<L, 0>>
        BY <2>1, <1>4 DEF Reaches, L
      <4>5. <<P[i][1], j + 1>> = <<L, 0>>
        BY <4>2, <4>3, <4>4, Zenon
      <4>6. j + 1 = 0
        BY <4>5
      <4> QED
        BY <4>2, <4>6
    <3> QED
      BY SMTT(60), <3>2, <3>3, <3>4, <1>4, <1>9
  <2>2. CASE i = Len(P) + 1
    <3>0. Q[i] = W[1] /\ W[1][1] = L + 1
      <4>1. i - Len(P) = 1 /\ ~ (i <= Len(P))
        BY <2>2, <1>4
      <4>2. Q[i] = W[i - Len(P)]
        BY <4>1, <1>3
      <4>3. 1 \in 1..(m + 1)
        OBVIOUS
      <4>4. W[1] = <<L + 1, IF 1 <= m THEN 1 ELSE 0>>
        BY <4>3, <1>1
      <4> QED
        BY <4>1, <4>2, <4>4
    <3>1. Q[i] = W[1] /\ Q[i][1] = L + 1 /\ n[Q[i][1]] = m
      BY <3>0, <1>2
    <3>2. /\ k + 1 \in 1..(m + 1) /\ i + k - Len(P) = k + 1
          /\ i + k \in 1..Len(Q) /\ ~ (i + k <= Len(P))
      BY <3>1, <2>2, <1>3, <1>4, <1>9
    <3>3. Q[i + k] = W[i + k - Len(P)]
      BY <3>2, <1>3
    <3> QED
      BY SMTT(60), <3>1, <3>2, <3>3, <1>1
  <2>3. CASE i > Len(P) + 1
    <3>1. i - 1 - Len(P) \in 1..m /\ ~ (i - 1 <= Len(P)) /\ i - 1 \in 1..Len(Q)
      BY <2>3, <1>3, <1>4, <1>5
    <3>2. Q[i - 1] = W[i - 1 - Len(P)]
      BY <3>1, <1>3
    <3>3. Q[i - 1][2] = i - 1 - Len(P) /\ i # 1
      <4>1. i - 1 - Len(P) \in 1..(m + 1) /\ i - 1 - Len(P) <= m /\ i # 1
        BY SMTT(60), <3>1, <2>3, <1>4
      <4> DEFINE d == i - 1 - Len(P)
      <4>2. W[d] = <<L + 1, IF d <= m THEN d ELSE 0>>
        BY SMTT(60), <4>1, <1>1
      <4> QED
        BY SMTT(60), <4>1, <4>2, <3>2
    <3> QED
      BY <3>1, <3>3, <1>9 DEF Begins
  <2> QED
    BY <2>1, <2>2, <2>3, <1>5, <1>4
<1>10. Reaches(Q, upto, n)
  <2>1. Len(Q) \in 1..Len(Q) /\ ~ (Len(Q) <= Len(P)) /\ Len(Q) - Len(P) = m + 1 /\ Len(Q) # 0
    BY <1>3, <1>4
  <2>2. Q[Len(Q)] = W[m + 1]
    BY <2>1, <1>3
  <2> QED
    BY <2>1, <2>2, <1>1, <1>2 DEF Reaches
<1>11. Framed(Q, upto + 1, n)
  BY <1>6, <1>7, <1>8, <1>9 DEF Framed
<1> QED
  BY <1>10, <1>11 DEF Q, W, n, L

\* Without its first line, which is whole.
LEMMA FramedTaken ==
    ASSUME NEW P \in Seq(Char), NEW upto \in Nat, NEW snt \in Seq(Nat),
           Framed(P, upto + 1, snt), NEW eom \in 1..Len(P),
           P[eom][2] = 0, \A j \in 1..(eom - 1) : P[j][2] # 0
    PROVE  LET Q == SubSeq(P, eom + 1, Len(P))
           IN  /\ upto + 1 \in 1..Len(snt)
               /\ SubSeq(P, 1, eom - 1) = Body(upto + 1, snt[upto + 1])
               /\ Framed(Q, upto + 2, snt)
               /\ Reaches(P, upto, snt) => Reaches(Q, upto + 1, snt)
<1> DEFINE Q == SubSeq(P, eom + 1, Len(P))
           h == snt[upto + 1]
<1>1. /\ Len(P) \in Nat /\ Len(snt) \in Nat /\ 1 \in 1..Len(P) /\ eom \in Nat
      /\ \A i \in 1..Len(P) : P[i] \in Char
  OBVIOUS
<1>2. P[1][1] = upto + 1 /\ upto + 1 \in 1..Len(snt)
  BY <1>1 DEF Framed
<1>3. h \in Nat
  BY <1>2
<1>4. \A n \in 0..h : 1 + n <= Len(P) => P[1 + n] = <<upto + 1, IF n < h THEN n + 1 ELSE 0>>
  <2>1. Begins(P, 1)
    BY DEF Begins
  <2> QED
    BY <2>1, <1>1, <1>2 DEF Framed
<1> HIDE DEF h
<1>5. \A i \in 1..Len(P) : i <= h + 1 => P[i] = <<upto + 1, IF i <= h THEN i ELSE 0>>
  <2> SUFFICES ASSUME NEW i \in 1..Len(P), i <= h + 1
               PROVE  P[i] = <<upto + 1, IF i <= h THEN i ELSE 0>>
    OBVIOUS
  <2>1. PICK n \in Nat : n = i - 1
    BY <1>1
  <2>2. n \in 0..h /\ 1 + n <= Len(P) /\ 1 + n = i /\ (n < h <=> i <= h) /\ n + 1 = i
    BY <2>1, <1>1, <1>3
  <2>3. P[1 + n] = <<upto + 1, IF n < h THEN n + 1 ELSE 0>>
    BY <1>4, <2>2, Zenon
  <2> QED
    BY <2>2, <2>3
<1>6. eom = h + 1
  <2>1. ~ (eom <= h)
    <3>1. eom <= h => P[eom] = <<upto + 1, eom>>
      BY <1>5, <1>1, <1>3
    <3> QED
      BY <3>1
  <2>2. ~ (h + 1 < eom)
    <3>1. h + 1 < eom => h + 1 \in 1..(eom - 1) /\ h + 1 \in 1..Len(P) /\ ~ (h + 1 <= h)
      BY <1>1, <1>3
    <3>2. h + 1 < eom => P[h + 1] = <<upto + 1, 0>>
      BY <3>1, <1>5, <1>3
    <3> QED
      BY <3>1, <3>2
  <2> QED
    BY <2>1, <2>2, <1>1, <1>3
<1>7. SubSeq(P, 1, eom - 1) = Body(upto + 1, h)
  <2>1. /\ SubSeq(P, 1, h) \in Seq(Char) /\ Len(SubSeq(P, 1, h)) = h
        /\ \A i \in 1..h : SubSeq(P, 1, h)[i] = P[i]
    <3>1. h \in Int /\ \A i \in 1..h : P[i] \in Char
      BY <1>1, <1>3, <1>6
    <3> QED
      BY <3>1, <1>3, SubSeqProperties
  <2>2. Body(upto + 1, h) \in Seq(Char) /\ Len(Body(upto + 1, h)) = h
    BY <1>3 DEF Body, Char
  <2>3. \A i \in 1..h : Body(upto + 1, h)[i] = P[i]
    BY <1>1, <1>3, <1>5, <1>6 DEF Body
  <2>4. SubSeq(P, 1, h) = Body(upto + 1, h)
    BY <2>1, <2>2, <2>3, SeqEqual
  <2>5. eom - 1 = h
    BY <1>3, <1>6
  <2> QED
    BY <2>4, <2>5
<1>8. /\ Q \in Seq(Char) /\ Len(Q) = Len(P) - eom
      /\ \A i \in 1..Len(Q) : Q[i] = P[eom + i]
  <2>1. \A i \in (eom + 1)..Len(P) : P[i] \in Char
    BY <1>1
  <2>2. /\ Q \in Seq(Char)
        /\ Len(Q) = IF eom + 1 <= Len(P) THEN Len(P) - (eom + 1) + 1 ELSE 0
        /\ \A i \in 1..(Len(P) - (eom + 1) + 1) : Q[i] = P[(eom + 1) + i - 1]
    BY <2>1, <1>1, SubSeqProperties
  <2> HIDE DEF Q
  <2>3. Len(Q) = Len(P) - eom
    BY <2>2, <1>1
  <2>4. ASSUME NEW i \in 1..Len(Q) PROVE Q[i] = P[eom + i]
    <3>1. i \in 1..(Len(P) - (eom + 1) + 1) /\ (eom + 1) + i - 1 = eom + i
      BY <2>3, <1>1
    <3>2. Q[i] = P[(eom + 1) + i - 1]
      BY <3>1, <2>2
    <3> QED
      BY <3>1, <3>2
  <2> QED
    BY <2>2, <2>3, <2>4
<1> HIDE DEF Q
<1>9. \A i \in 1..Len(Q) : eom + i \in 1..Len(P)
  BY <1>1, <1>8
<1>10. \A i \in 1..Len(Q) : Q[i][1] \in 1..Len(snt)
  BY <1>8, <1>9 DEF Framed
<1>11. Len(Q) > 0 => Q[1][1] = upto + 2
  <2>1. Len(Q) > 0 => eom \in 1..(Len(P) - 1) /\ 1 \in 1..Len(Q)
    BY <1>1, <1>8
  <2>2. P[eom][1] = upto + 1
    BY <1>1, <1>3, <1>5, <1>6
  <2>3. Len(Q) > 0 => P[eom + 1][1] = P[eom][1] + 1
    BY <2>1 DEF Framed
  <2> QED
    BY <2>1, <2>2, <2>3, <1>8
<1>12. ASSUME NEW i \in 1..(Len(Q) - 1), Q[i][2] = 0 PROVE Q[i + 1][1] = Q[i][1] + 1
  <2>1. PICK j \in Nat : j = eom + i
    BY <1>1
  <2>2. /\ j \in 1..(Len(P) - 1) /\ i \in 1..Len(Q) /\ i + 1 \in 1..Len(Q)
        /\ eom + (i + 1) = j + 1
    BY <2>1, <1>1, <1>8
  <2>3. Q[i] = P[j] /\ Q[i + 1] = P[j + 1]
    BY <2>1, <2>2, <1>8
  <2> QED
    BY <2>2, <2>3, <1>12 DEF Framed
<1>13. ASSUME NEW i \in 1..Len(Q), Begins(Q, i), NEW k \in 0..snt[Q[i][1]], i + k <= Len(Q)
       PROVE  Q[i + k] = <<Q[i][1], IF k < snt[Q[i][1]] THEN k + 1 ELSE 0>>
  <2>1. PICK j \in Nat : j = eom + i
    BY <1>1
  <2>2. j \in 1..Len(P) /\ Q[i] = P[j]
    BY <2>1, <1>8, <1>9
  <2>3. Begins(P, j)
    <3>1. CASE i = 1
      <4>1. j - 1 = eom
        BY <3>1, <2>1, <1>1
      <4> QED
        BY <4>1 DEF Begins
    <3>2. CASE i # 1
      <4>1. i - 1 \in 1..Len(Q) /\ eom + (i - 1) = j - 1
        BY <3>2, <2>1, <1>1, <1>8
      <4>2. Q[i - 1] = P[j - 1]
        BY <4>1, <1>8
      <4> QED
        BY <3>2, <4>2, <1>13 DEF Begins
    <3> QED
      BY <3>1, <3>2
  <2>4. P[j][1] \in 1..Len(snt) /\ snt[P[j][1]] \in Nat
    <3>1. P[j][1] \in 1..Len(snt)
      BY <2>2 DEF Framed
    <3>2. \A l \in 1..Len(snt) : snt[l] \in Nat
      BY SMTT(60)
    <3> QED
      BY <3>1, <3>2
  <2>5. \A d \in 0..snt[P[j][1]] : j + d <= Len(P) =>
           P[j + d] = <<P[j][1], IF d < snt[P[j][1]] THEN d + 1 ELSE 0>>
    BY <2>2, <2>3 DEF Framed
  <2>6. k \in Nat /\ i + k \in 1..Len(Q) /\ eom + (i + k) = j + k /\ j + k <= Len(P)
    <3>1. k \in Nat
      BY <2>2, <2>4
    <3> QED
      BY SMTT(60), <3>1, <2>1, <1>1, <1>8, <1>13
  <2>7. Q[i + k] = P[j + k]
    BY <2>6, <1>8
  <2>8. k \in 0..snt[P[j][1]]
    BY <2>2
  <2>9. P[j + k] = <<P[j][1], IF k < snt[P[j][1]] THEN k + 1 ELSE 0>>
    BY <2>5, <2>6, <2>8, Zenon
  <2> QED
    BY <2>2, <2>7, <2>9, Zenon
<1>14. ASSUME Reaches(P, upto, snt) PROVE Reaches(Q, upto + 1, snt)
  <2>1. P[Len(P)] = <<Len(snt), 0>>
    BY <1>1, <1>14 DEF Reaches
  <2>2. CASE Len(Q) = 0
    <3>1. Len(P) = eom
      BY <2>2, <1>1, <1>8
    <3>2. P[eom][1] = upto + 1
      BY <1>1, <1>3, <1>5, <1>6
    <3> QED
      BY <3>1, <3>2, <2>1, <2>2 DEF Reaches
  <2>3. CASE Len(Q) # 0
    <3>1. Len(Q) \in 1..Len(Q) /\ eom + Len(Q) = Len(P)
      <4>1. Len(Q) \in Nat /\ Len(Q) = Len(P) - eom
        BY <1>8
      <4>2. PICK l \in Nat : l = Len(Q)
        BY <4>1
      <4>3. l # 0 /\ l = Len(P) - eom
        BY <2>3, <4>1, <4>2
      <4>4. l \in 1..l /\ eom + l = Len(P)
        BY <1>1, <4>3
      <4> QED
        BY <4>2, <4>4
    <3>2. Q[Len(Q)] = P[Len(P)]
      BY <3>1, <1>8
    <3> QED
      BY <3>2, <2>1, <2>3 DEF Reaches
  <2> QED
    BY <2>2, <2>3
<1>15. Framed(Q, upto + 2, snt)
  BY <1>10, <1>11, <1>12, <1>13 DEF Framed
<1> QED
  BY <1>2, <1>7, <1>14, <1>15 DEF Q, h

\* A set of numbers has a least one.
LEMMA HasLeast ==
    ASSUME NEW T \in SUBSET Nat, T # {}
    PROVE  \E m \in T : \A n \in T : m <= n
<1> DEFINE R == OpToRel(<, Nat)
<1>1. IsWellFoundedOn(R, Nat)
  BY NatLessThanWellFounded
<1>2. \A a, b \in Nat : a < b => <<a, b>> \in R
  BY DEF OpToRel
<1> HIDE DEF R
<1>3. \E m \in T : \A n \in T : ~ (<<n, m>> \in R)
  BY <1>1, WFMin, Zenon
<1>4. \A a, b \in Nat : ~ (<<a, b>> \in R) => b <= a
  <2>1. \A a, b \in Nat : ~ (a < b) => b <= a
    OBVIOUS
  <2> QED
    BY <1>2, <2>1, Zenon
<1>5. \A a \in T : a \in Nat
  OBVIOUS
<1> QED
  BY <1>3, <1>4, <1>5, Zenon

\* Two parts of a sequence, put together.
LEMMA Cut ==
    ASSUME NEW S, NEW s \in Seq(S), NEW n \in 0..Len(s)
    PROVE  /\ SubSeq(s, 1, n) \in Seq(S) /\ Len(SubSeq(s, 1, n)) = n
           /\ \A i \in 1..n : SubSeq(s, 1, n)[i] = s[i]
           /\ SubSeq(s, n + 1, Len(s)) \in Seq(S)
           /\ SubSeq(s, 1, n) \o SubSeq(s, n + 1, Len(s)) = s
<1> DEFINE a == SubSeq(s, 1, n)
           b == SubSeq(s, n + 1, Len(s))
<1>1. n \in Int /\ Len(s) \in Nat /\ \A i \in 1..Len(s) : s[i] \in S
  OBVIOUS
<1>2. a \in Seq(S) /\ Len(a) = n /\ \A i \in 1..n : a[i] = s[i]
  BY <1>1, SubSeqProperties
<1>3. /\ b \in Seq(S) /\ Len(b) = Len(s) - n
      /\ \A i \in 1..(Len(s) - (n + 1) + 1) : b[i] = s[(n + 1) + i - 1]
  BY <1>1, SubSeqProperties
<1> HIDE DEF a, b
<1>4. /\ a \o b \in Seq(S) /\ Len(a \o b) = Len(s)
      /\ \A i \in 1..Len(s) : (a \o b)[i] = IF i <= Len(a) THEN a[i] ELSE b[i - Len(a)]
  <2>1. /\ a \o b \in Seq(S) /\ Len(a \o b) = Len(a) + Len(b)
        /\ \A i \in 1..(Len(a) + Len(b)) :
              (a \o b)[i] = IF i <= Len(a) THEN a[i] ELSE b[i - Len(a)]
    BY <1>2, <1>3, ConcatProperties
  <2>2. Len(a) + Len(b) = Len(s)
    BY <1>1, <1>2, <1>3
  <2> QED
    BY <2>1, <2>2
<1> DEFINE c == a \o b
<1> HIDE DEF c
<1>5. ASSUME NEW i \in 1..Len(s) PROVE c[i] = s[i]
  <2>1. CASE i <= n
    BY <2>1, <1>2, <1>4 DEF c
  <2>2. CASE ~ (i <= n)
    <3>1. i - n \in 1..(Len(s) - (n + 1) + 1) /\ (n + 1) + (i - n) - 1 = i
      BY <2>2, <1>1
    <3>2. c[i] = b[i - n]
      BY <2>2, <1>2, <1>4 DEF c
    <3>3. b[i - n] = s[(n + 1) + (i - n) - 1]
      BY <3>1, <1>3
    <3> QED
      BY <3>1, <3>2, <3>3
  <2> QED
    BY <2>1, <2>2
<1>6. c = s
  BY <1>4, <1>5, SeqEqual DEF c
<1> QED
  BY <1>2, <1>3, <1>6 DEF a, b, c

\* What is kept is part of the buffer.
LEMMA KeptSeq ==
    ASSUME LinesTypes
    PROVE  /\ Kept \in Seq(Char)
           /\ inCall => Kept = SubSeq(buf, 1, bufofs) /\ Len(Kept) = bufofs
           /\ inCall => \A i \in 1..bufofs : Kept[i] = buf[i]
<1>1. /\ buf \in Seq(Char) /\ bufofs \in 0..Len(buf) /\ buflen \in Nat /\ Len(buf) \in Nat
      /\ bufofs + buflen <= Len(buf) /\ (inCall => buflen = 0)
  BY DEF LinesTypes
<1>2. /\ SubSeq(buf, 1, bufofs) \in Seq(Char) /\ Len(SubSeq(buf, 1, bufofs)) = bufofs
      /\ \A i \in 1..bufofs : SubSeq(buf, 1, bufofs)[i] = buf[i]
  BY <1>1, Cut
<1>3. SubSeq(buf, bufofs + 1, bufofs + buflen) \in Seq(Char)
  <2>1. \A i \in (bufofs + 1)..(bufofs + buflen) : buf[i] \in Char
    BY <1>1
  <2> QED
    BY <2>1, <1>1, SubSeqProperties
<1> QED
  BY <1>1, <1>2, <1>3 DEF Kept

\* The buffer is filled: what it keeps is what was put into it.
LEMMA FilledKept ==
    ASSUME NEW kept \in Seq(Char), NEW data \in Seq(Char), Filled(kept, data)
    PROVE  /\ buf' \in Seq(Char) /\ bufofs' \in Nat /\ buflen' = 0 /\ bufofs' = Len(buf')
           /\ Kept' = kept \o data
<1>1. /\ buf' = kept \o data /\ buf' \in Seq(Char) /\ Len(buf') = Len(kept) + Len(data)
      /\ bufofs' = Len(buf') /\ buflen' = 0 /\ bufofs' \in Nat
  BY ConcatProperties DEF Filled
<1>2. Kept' = SubSeq(buf', 1, bufofs')
  BY <1>1 DEF Kept
<1>3. SubSeq(buf', 1, Len(buf')) = buf'
  BY <1>1, SubSeqFull
<1> QED
  BY <1>1, <1>2, <1>3

\* An empty buffer keeps nothing.
LEMMA EmptiedKept ==
    ASSUME Emptied
    PROVE  buf' = <<>> /\ bufofs' = 0 /\ buflen' = 0 /\ Kept' = <<>>
<1>1. Kept' = SubSeq(<<>>, 1, 0)
  BY DEF Emptied, Kept
<1>2. SubSeq(<<>>, 1, 0) = <<>>
  BY SubSeqEmpty
<1> QED
  BY <1>1, <1>2 DEF Emptied

\* The ends of lines of a call, and the first of them.
LEMMA FirstEnd ==
    ASSUME LinesTypes, inCall, Ends # {}
    PROVE  LET eom == CHOOSE i \in Ends : \A j \in Ends : i <= j
           IN  /\ eom \in 1..bufofs /\ buf[eom][2] = 0
               /\ \A j \in 1..(eom - 1) : buf[j][2] # 0
<1> DEFINE eom == CHOOSE i \in Ends : \A j \in Ends : i <= j
<1>1. bufofs \in Nat
  BY DEF LinesTypes
<1>2. Ends \in SUBSET Nat
  BY <1>1 DEF Ends
<1>3. \E i \in Ends : \A j \in Ends : i <= j
  BY <1>2, HasLeast
<1>4. eom \in Ends /\ \A j \in Ends : eom <= j
  BY <1>3, Zenon
<1> HIDE DEF eom
<1>5. eom \in 1..bufofs /\ buf[eom][2] = 0
  BY <1>4 DEF Ends
<1>6. ASSUME NEW j \in 1..(eom - 1) PROVE buf[j][2] # 0
  <2>1. j \in 1..bufofs /\ ~ (eom <= j)
    BY <1>1, <1>5
  <2>2. j \notin Ends
    BY <2>1, <1>4
  <2> QED
    BY <2>1, <2>2 DEF Ends
<1> QED
  BY <1>5, <1>6 DEF eom

\* What the invariant says of a connection that was made with an empty buffer.
LinesSound ==
    fresh =>
        /\ Len(lines) <= Len(sent)
        /\ \A l \in DOMAIN lines : lines[l] = Body(l, sent[l])
        /\ Framed(Pending, Len(lines) + 1, sent)
        /\ fd /\ ~ fin => Reaches(Pending, Len(lines), sent)

LEMMA FramedNone == \A first, snt : Framed(<<>>, first, snt)
BY DEF Framed

\* Nothing is changed that is pending, except that less of it may be.
LEMMA SoundKept ==
    ASSUME LinesTypes, LinesSound, UNCHANGED <<fresh, lines, sent>>,
           Pending \in Seq(Char), lines \in Seq(Seq(Char)),
           \E n \in 0..Len(Pending) : Pending' = SubSeq(Pending, 1, n),
           fd' /\ ~ fin' => fd /\ ~ fin /\ Pending' = Pending
    PROVE  LinesSound'
<1> SUFFICES ASSUME fresh PROVE LinesSound'
  BY DEF LinesSound
<1>1. /\ Len(lines) <= Len(sent)
      /\ \A l \in DOMAIN lines : lines[l] = Body(l, sent[l])
      /\ Framed(Pending, Len(lines) + 1, sent)
      /\ fd /\ ~ fin => Reaches(Pending, Len(lines), sent)
  BY DEF LinesSound
<1>2. PICK n \in 0..Len(Pending) : Pending' = SubSeq(Pending, 1, n)
  OBVIOUS
<1>3. Len(lines) + 1 \in Nat /\ sent \in Seq(Nat)
  BY DEF LinesTypes
<1> DEFINE P == Pending  P2 == Pending'
<1> HIDE DEF P, P2
<1>4. Framed(P2, Len(lines) + 1, sent)
  <2>1. P \in Seq(Char) /\ Framed(P, Len(lines) + 1, sent) /\ n \in 0..Len(P)
    BY <1>1 DEF P
  <2>2. Framed(SubSeq(P, 1, n), Len(lines) + 1, sent)
    BY <2>1, <1>3, FramedPrefix
  <2> QED
    BY <2>2, <1>2 DEF P, P2
<1>5. fd' /\ ~ fin' => Reaches(P2, Len(lines), sent)
  BY <1>1 DEF P2
<1> QED
  BY <1>1, <1>4, <1>5 DEF LinesSound, P2

LinesInvariant == LinesTypes /\ LinesSound /\ lines \in Seq(Seq(Char))

LEMMA LinesInitInv == LinesInit => LinesInvariant
<1> SUFFICES ASSUME LinesInit PROVE LinesInvariant
  OBVIOUS
<1>1. <<>> \in Seq(Char) /\ <<>> \in Seq(Nat) /\ <<>> \in Seq(Seq(Char)) /\ Len(<<>>) = 0
  OBVIOUS
<1>2. LinesTypes
  <2>1. stream \in Seq(Char) /\ sent \in Seq(Nat) /\ buf \in Seq(Char)
    BY <1>1 DEF LinesInit
  <2>2. bufofs \in Nat /\ buflen \in Nat /\ bufofs + buflen <= Len(buf) /\ opens \in Nat
        /\ buflen = 0
    BY <1>1 DEF LinesInit
  <2>3. fin \in BOOLEAN /\ fd \in BOOLEAN /\ inCall \in BOOLEAN /\ ~ fd
    BY DEF LinesInit
  <2> QED
    BY <2>1, <2>2, <2>3 DEF LinesTypes
<1>3. Pending = <<>>
  <2>1. Kept = SubSeq(<<>>, 1, 0)
    BY DEF LinesInit, Kept
  <2> QED
    BY <2>1, SubSeqEmpty DEF LinesInit, Pending
<1>4. LinesSound
  BY <1>1, <1>3, FramedNone DEF LinesInit, LinesSound
<1> QED
  BY <1>1, <1>2, <1>4 DEF LinesInvariant, LinesInit

LEMMA PendingSeq == LinesTypes => Pending \in Seq(Char)
<1> SUFFICES ASSUME LinesTypes PROVE Pending \in Seq(Char)
  OBVIOUS
<1>1. Kept \in Seq(Char) /\ stream \in Seq(Char)
  BY KeptSeq DEF LinesTypes
<1> QED
  BY <1>1, ConcatProperties DEF Pending

LEMMA SendsInv ==
    ASSUME LinesInvariant, NEW n \in Lengths, PeerSends(n)
    PROVE  LinesInvariant'
<1> USE DEF LinesInvariant
<1>1. n \in Nat /\ Len(sent) \in Nat /\ sent \in Seq(Nat) /\ stream \in Seq(Char)
  BY SocketLinesAssumption DEF LinesTypes
<1>2. /\ fd /\ ~ fin /\ sent' = Append(sent, n) /\ stream' = stream \o Line(Len(sent) + 1, n)
      /\ UNCHANGED <<fin, bufVars, connVars, inCall, lines>>
  BY DEF PeerSends
<1>3. Line(Len(sent) + 1, n) \in Seq(Char)
  <2>1. Body(Len(sent) + 1, n) \in Seq(Char)
    BY <1>1 DEF Body, Char
  <2>2. <<Len(sent) + 1, 0>> \in Char
    BY <1>1 DEF Char
  <2> QED
    BY <2>1, <2>2, AppendProperties DEF Line
<1>4. stream' \in Seq(Char) /\ sent' \in Seq(Nat)
  BY <1>1, <1>2, <1>3, ConcatProperties, AppendProperties
<1>5. LinesTypes'
  BY <1>2, <1>4 DEF LinesTypes, bufVars, connVars
<1>6. ASSUME fresh PROVE LinesSound'
  <2>1. Kept' = Kept /\ Kept \in Seq(Char)
    BY <1>2, KeptSeq DEF Kept, bufVars
  <2> DEFINE W == Line(Len(sent) + 1, n)  P == Pending
  <2>2. P = Kept \o stream /\ Pending' = Kept \o (stream \o W)
    BY <1>2, <2>1 DEF Pending, connVars
  <2> HIDE DEF W, P
  <2>3. Pending' = P \o W
    <3>1. W \in Seq(Char)
      BY <1>3 DEF W
    <3>2. (Kept \o stream) \o W = Kept \o (stream \o W)
      BY SMTT(60), <3>1, <2>1, <1>1, ConcatAssociative
    <3> QED
      BY <2>2, <3>2, Zenon
  <2>4. /\ P \in Seq(Char) /\ Framed(P, Len(lines) + 1, sent) /\ Reaches(P, Len(lines), sent)
        /\ Len(lines) \in Nat /\ Len(lines) <= Len(sent)
        /\ \A l \in DOMAIN lines : lines[l] = Body(l, sent[l])
    BY <1>2, <1>6, PendingSeq DEF LinesSound, P
  <2>5. Framed(P \o W, Len(lines) + 1, sent') /\ Reaches(P \o W, Len(lines), sent')
    BY <1>1, <1>2, <2>4, FramedSends DEF W
  <2>6. \A l \in DOMAIN lines : lines[l] = Body(l, sent'[l])
    <3>1. \A l \in DOMAIN lines : l \in 1..Len(sent)
      BY <1>1, <2>4
    <3>2. \A l \in 1..Len(sent) : sent'[l] = sent[l]
      BY <1>1, <1>2, AppendProperties
    <3> QED
      BY <2>4, <3>1, <3>2
  <2>7. Len(sent') = Len(sent) + 1
    BY <1>1, <1>2, AppendProperties
  <2> QED
    BY SMTT(60), <1>1, <1>2, <2>3, <2>4, <2>5, <2>6, <2>7 DEF LinesSound
<1>7. LinesSound'
  BY <1>2, <1>6 DEF LinesSound, connVars
<1> QED
  BY <1>2, <1>5, <1>7

LEMMA ClosesInv ==
    ASSUME LinesInvariant, PeerCloses
    PROVE  LinesInvariant'
<1> USE DEF LinesInvariant
<1>1. /\ fd /\ fin' = TRUE /\ UNCHANGED <<sent, bufVars, connVars, inCall, lines>>
  BY DEF PeerCloses
<1>2. PICK n \in 0..Len(stream) : stream' = SubSeq(stream, 1, n)
  BY DEF PeerCloses
<1>3. stream \in Seq(Char) /\ n \in Nat /\ Kept \in Seq(Char) /\ Kept' = Kept
  BY <1>1, KeptSeq DEF LinesTypes, Kept, bufVars
<1>4. stream' \in Seq(Char) /\ Len(stream') = n /\ \A i \in 1..n : stream'[i] = stream[i]
  BY <1>2, <1>3, Cut
<1>5. LinesTypes'
  BY <1>1, <1>4 DEF LinesTypes, bufVars, connVars
<1>6. Pending = Kept \o stream /\ Pending' = Kept \o stream' /\ Pending \in Seq(Char)
  BY <1>1, <1>3, PendingSeq DEF Pending, connVars
<1>7. Pending' = SubSeq(Pending, 1, Len(Kept) + n) /\ Len(Kept) + n \in 0..Len(Pending)
  <2> DEFINE K == Kept  s2 == stream'  P == Pending  m == Len(K) + n
             Q == SubSeq(P, 1, m)
  <2> HIDE DEF K, s2, P, m
  <2>1. /\ P = K \o stream /\ K \in Seq(Char) /\ s2 \in Seq(Char) /\ Len(s2) = n
        /\ \A i \in 1..n : s2[i] = stream[i]
    BY <1>3, <1>4, <1>6 DEF K, s2, P
  <2>2. /\ P \in Seq(Char) /\ Len(P) = Len(K) + Len(stream)
        /\ \A i \in 1..(Len(K) + Len(stream)) :
             P[i] = IF i <= Len(K) THEN K[i] ELSE stream[i - Len(K)]
    BY <2>1, <1>3, ConcatProperties
  <2>3. /\ K \o s2 \in Seq(Char) /\ Len(K \o s2) = Len(K) + n
        /\ \A i \in 1..(Len(K) + n) : (K \o s2)[i] = IF i <= Len(K) THEN K[i] ELSE s2[i - Len(K)]
    BY <2>1, ConcatProperties
  <2>4. Len(K) \in Nat /\ Len(stream) \in Nat /\ m \in 0..Len(P) /\ m = Len(K) + n
    BY <1>3, <2>1, <2>2 DEF m
  <2>5. Q \in Seq(Char) /\ Len(Q) = m /\ \A i \in 1..m : Q[i] = P[i]
    BY <2>2, <2>4, Cut
  <2> DEFINE R == K \o s2
  <2> HIDE DEF Q, R
  <2>6. ASSUME NEW i \in 1..m PROVE Q[i] = R[i]
    <3>1. i \in 1..(Len(K) + n) /\ i \in 1..(Len(K) + Len(stream))
      BY <2>4, <1>3
    <3>2. CASE i <= Len(K)
      BY <3>1, <3>2, <2>2, <2>3, <2>5 DEF R
    <3>3. CASE ~ (i <= Len(K))
      <4>1. i - Len(K) \in 1..n
        BY <3>1, <3>3, <2>4
      <4>2. P[i] = stream[i - Len(K)] /\ R[i] = s2[i - Len(K)]
        BY <3>1, <3>3, <2>2, <2>3 DEF R
      <4> QED
        BY <4>1, <4>2, <2>1, <2>5
    <3> QED
      BY <3>2, <3>3
  <2>7. Q = R
    BY <2>3, <2>4, <2>5, <2>6, SeqEqual DEF R
  <2> QED
    BY <2>7, <2>4, <1>6 DEF Q, R, K, s2, P, m
<1>8. LinesSound'
  BY <1>1, <1>6, <1>7, SoundKept DEF connVars
<1> QED
  BY <1>1, <1>5, <1>8

\* What has arrived and what has not.
LEMMA Receives ==
    ASSUME stream \in Seq(Char), NEW n \in 0..Len(stream)
    PROVE  /\ Arrived(n) \in Seq(Char)
           /\ Received(n) => stream' \in Seq(Char) /\ Arrived(n) \o stream' = stream
<1>1. /\ SubSeq(stream, 1, n) \in Seq(Char) /\ SubSeq(stream, n + 1, Len(stream)) \in Seq(Char)
      /\ SubSeq(stream, 1, n) \o SubSeq(stream, n + 1, Len(stream)) = stream
  BY Cut
<1> QED
  BY <1>1 DEF Arrived, Received

\* A call receives n characters more.
LEMMA ReceivesInv ==
    ASSUME LinesInvariant, NEW n \in 0..Len(stream), n = 0 \/ fd,
           Filled(Kept, Arrived(n)), Received(n), inCall' \in BOOLEAN, opens > 0,
           UNCHANGED <<sent, fin, connVars, lines>>
    PROVE  LinesInvariant'
<1> USE DEF LinesInvariant
<1>1. stream \in Seq(Char) /\ Kept \in Seq(Char)
  BY KeptSeq DEF LinesTypes
<1>2. Arrived(n) \in Seq(Char) /\ stream' \in Seq(Char) /\ Arrived(n) \o stream' = stream
  BY <1>1, Receives
<1>3. /\ buf' \in Seq(Char) /\ bufofs' \in Nat /\ buflen' = 0 /\ bufofs' = Len(buf')
      /\ Kept' = Kept \o Arrived(n)
  BY <1>1, <1>2, FilledKept
<1>4. LinesTypes'
  <2>1. bufofs' + buflen' <= Len(buf') /\ buflen' \in Nat
    BY <1>3
  <2>2. /\ stream' \in Seq(Char) /\ sent' \in Seq(Nat) /\ fin' \in BOOLEAN /\ fd' \in BOOLEAN
        /\ opens' \in Nat /\ (fd' => opens' > 0)
    BY <1>2 DEF LinesTypes, connVars
  <2> QED
    BY <1>3, <2>1, <2>2 DEF LinesTypes
<1>5. Pending' = Pending
  <2>1. CASE fd
    <3>1. Pending = Kept \o stream /\ Pending' = (Kept \o Arrived(n)) \o stream'
      BY <2>1, <1>3 DEF Pending, connVars
    <3> DEFINE a == Arrived(n)  s2 == stream'  K == Kept
    <3>2. K \in Seq(Char) /\ a \in Seq(Char) /\ s2 \in Seq(Char) /\ a \o s2 = stream
      BY <1>1, <1>2
    <3>3. Pending = K \o stream /\ Pending' = (K \o a) \o s2
      BY <3>1
    <3> HIDE DEF a, s2, K
    <3>4. (K \o a) \o s2 = K \o (a \o s2)
      <4>1. \A x, y, z \in Seq(Char) : (x \o y) \o z = x \o (y \o z)
        BY SMTT(60), ConcatAssociative
      <4> QED
        BY <3>2, <4>1, Zenon
    <3> QED
      BY <3>2, <3>3, <3>4
  <2>2. CASE ~ fd
    <3>1. Arrived(n) = <<>>
      BY <2>2, SubSeqEmpty DEF Arrived
    <3>2. Kept \o <<>> = Kept
      BY <1>1, ConcatEmptySeq
    <3> QED
      BY <2>2, <3>1, <3>2, <1>3 DEF Pending, connVars
  <2> QED
    BY <2>1, <2>2
<1>6. Pending \in Seq(Char)
  BY PendingSeq
<1>7. Len(Pending) \in 0..Len(Pending) /\ Pending' = SubSeq(Pending, 1, Len(Pending))
  BY <1>5, <1>6, SubSeqFull
<1>8. LinesSound'
  BY <1>5, <1>6, <1>7, SoundKept DEF connVars
<1> QED
  BY <1>4, <1>8

LEMMA BeginsInv ==
    ASSUME LinesInvariant, NEW n \in 0..Len(stream), ReadBegins(n)
    PROVE  LinesInvariant'
BY ReceivesInv DEF ReadBegins

LEMMA MoreInv ==
    ASSUME LinesInvariant, NEW n \in 0..Len(stream), ReadMore(n)
    PROVE  LinesInvariant'
<1>1. SubSeq(buf, 1, bufofs) = Kept /\ opens > 0 /\ inCall' \in BOOLEAN
  BY KeptSeq DEF ReadMore, LinesInvariant, LinesTypes
<1> QED
  BY <1>1, ReceivesInv DEF ReadMore

LEMMA LineInv ==
    ASSUME LinesInvariant, ReadLine
    PROVE  LinesInvariant'
<1> USE DEF LinesInvariant
<1> DEFINE eom == CHOOSE i \in Ends : \A j \in Ends : i <= j
<1>1. eom \in 1..bufofs /\ buf[eom][2] = 0 /\ \A j \in 1..(eom - 1) : buf[j][2] # 0
  BY FirstEnd DEF ReadLine
<1>2. /\ inCall /\ inCall' = FALSE
      /\ lines' = Append(lines, SubSeq(buf, 1, eom - 1))
      /\ buflen' = bufofs - eom /\ UNCHANGED buf
      /\ bufofs' = IF bufofs - eom > 0 THEN eom ELSE 0
      /\ UNCHANGED <<peerVars, connVars>>
  BY DEF ReadLine
<1> HIDE DEF eom
<1>3. /\ buf \in Seq(Char) /\ bufofs \in Nat /\ Len(buf) \in Nat /\ bufofs <= Len(buf)
      /\ eom \in Nat /\ sent \in Seq(Nat) /\ Len(lines) \in Nat
      /\ \A i \in 1..Len(buf) : buf[i] \in Char
  BY <1>1, <1>2 DEF LinesTypes
<1>4. SubSeq(buf, 1, eom - 1) \in Seq(Char) /\ Len(SubSeq(buf, 1, eom - 1)) = eom - 1
      /\ \A i \in 1..(eom - 1) : SubSeq(buf, 1, eom - 1)[i] = buf[i]
  <2>1. eom - 1 \in 0..Len(buf)
    BY <1>1, <1>3
  <2> QED
    BY <2>1, <1>3, Cut
<1>5. LinesTypes'
  <2>1. bufofs' \in Nat /\ buflen' \in Nat /\ bufofs' + buflen' <= Len(buf')
    BY <1>1, <1>2, <1>3
  <2>2. /\ stream' \in Seq(Char) /\ sent' \in Seq(Nat) /\ fin' \in BOOLEAN /\ fd' \in BOOLEAN
        /\ opens' \in Nat /\ (fd' => opens' > 0) /\ buf' \in Seq(Char)
    BY <1>2 DEF LinesTypes, peerVars, connVars
  <2> QED
    BY <1>2, <2>1, <2>2 DEF LinesTypes
<1>6. lines' \in Seq(Seq(Char)) /\ Len(lines') = Len(lines) + 1
      /\ lines'[Len(lines) + 1] = SubSeq(buf, 1, eom - 1)
      /\ \A l \in 1..Len(lines) : lines'[l] = lines[l]
  BY <1>2, <1>4, AppendProperties
<1> DEFINE K == Kept
<1>7. K \in Seq(Char) /\ Len(K) = bufofs /\ \A i \in 1..bufofs : K[i] = buf[i]
  BY <1>2, KeptSeq
\* What is left: the rest of what is kept.
<1>8. Kept' = SubSeq(K, eom + 1, bufofs)
  <2>1. CASE bufofs - eom > 0
    <3>1. buflen' = bufofs - eom /\ bufofs' = eom /\ eom + (bufofs - eom) = bufofs
      BY <2>1, <1>2, <1>3
    <3>2. Kept' = SubSeq(buf, eom + 1, bufofs)
      BY <2>1, <3>1, <1>2 DEF Kept
    <3>3. /\ SubSeq(buf, eom + 1, bufofs) \in Seq(Char)
          /\ Len(SubSeq(buf, eom + 1, bufofs)) = bufofs - eom
          /\ \A i \in 1..(bufofs - (eom + 1) + 1) : SubSeq(buf, eom + 1, bufofs)[i] = buf[(eom + 1) + i - 1]
      <4>1. \A i \in (eom + 1)..bufofs : buf[i] \in Char
        BY <1>3
      <4> QED
        BY <4>1, <2>1, <1>3, SubSeqProperties
    <3>4. /\ SubSeq(K, eom + 1, bufofs) \in Seq(Char)
          /\ Len(SubSeq(K, eom + 1, bufofs)) = bufofs - eom
          /\ \A i \in 1..(bufofs - (eom + 1) + 1) : SubSeq(K, eom + 1, bufofs)[i] = K[(eom + 1) + i - 1]
      <4>1. \A i \in (eom + 1)..bufofs : K[i] \in Char
        BY <1>3, <1>7
      <4> HIDE DEF K
      <4> QED
        BY <4>1, <2>1, <1>3, SubSeqProperties
    <3> DEFINE A == SubSeq(buf, eom + 1, bufofs)  B == SubSeq(K, eom + 1, bufofs)
    <3>5. ASSUME NEW i \in 1..(bufofs - eom) PROVE A[i] = B[i]
      <4>1. i \in 1..(bufofs - (eom + 1) + 1) /\ (eom + 1) + i - 1 \in 1..bufofs
        BY <1>3
      <4> QED
        BY <4>1, <3>3, <3>4, <1>7
    <3> HIDE DEF A, B
    <3>6. A = B
      BY <3>3, <3>4, <3>5, SeqEqual DEF A, B
    <3> QED
      BY <3>2, <3>6 DEF A, B
  <2>2. CASE ~ (bufofs - eom > 0)
    <3>1. bufofs < eom + 1 /\ buflen' = 0 /\ bufofs' = 0
      BY <2>2, <1>1, <1>2, <1>3
    <3>2. Kept' = SubSeq(buf, 1, 0)
      BY <3>1, <1>2 DEF Kept
    <3>3. SubSeq(buf, 1, 0) = <<>> /\ SubSeq(K, eom + 1, bufofs) = <<>>
      BY <3>1, <1>3, SubSeqEmpty
    <3> QED
      BY <3>2, <3>3
  <2> QED
    BY <2>1, <2>2
<1> HIDE DEF K
<1> DEFINE P == Pending
<1>9. P \in Seq(Char) /\ Len(P) >= bufofs /\ \A i \in 1..bufofs : P[i] = K[i]
  <2>1. CASE fd
    <3>1. P = K \o stream /\ stream \in Seq(Char)
      BY <2>1 DEF Pending, K, LinesTypes
    <3>2. /\ K \o stream \in Seq(Char) /\ Len(K \o stream) = Len(K) + Len(stream)
          /\ \A i \in 1..(Len(K) + Len(stream)) :
               (K \o stream)[i] = IF i <= Len(K) THEN K[i] ELSE stream[i - Len(K)]
      BY <3>1, <1>7, ConcatProperties
    <3>3. Len(stream) \in Nat /\ \A i \in 1..bufofs : i \in 1..(Len(K) + Len(stream)) /\ i <= Len(K)
      BY <3>1, <1>3, <1>7
    <3> HIDE DEF P
    <3> QED
      BY <3>1, <3>2, <3>3, <1>3, <1>7
  <2>2. CASE ~ fd
    <3>1. P = K
      BY <2>2 DEF Pending, K
    <3> QED
      BY <3>1, <1>3, <1>7
  <2> QED
    BY <2>1, <2>2
\* And so of what is pending.
<1>10. Pending' = SubSeq(P, eom + 1, Len(P))
  <2> DEFINE R == SubSeq(K, eom + 1, bufofs)  Q == SubSeq(P, eom + 1, Len(P))
  <2>1. /\ R \in Seq(Char) /\ Len(R) = bufofs - eom
        /\ \A i \in 1..(bufofs - (eom + 1) + 1) : R[i] = K[(eom + 1) + i - 1]
    <3>1. \A i \in (eom + 1)..bufofs : K[i] \in Char
      BY <1>3, <1>7
    <3> QED
      BY <3>1, <1>1, <1>3, SubSeqProperties
  <2>2. CASE fd
    <3>1. P = K \o stream /\ stream \in Seq(Char) /\ Len(stream) \in Nat
      BY <2>2 DEF Pending, K, LinesTypes
    <3>2. Pending' = R \o stream
      BY <2>2, <1>2, <1>8 DEF Pending, connVars, peerVars
    <3>3. /\ Len(P) = bufofs + Len(stream)
          /\ \A i \in 1..(bufofs + Len(stream)) :
               P[i] = IF i <= bufofs THEN K[i] ELSE stream[i - bufofs]
      BY <3>1, <1>7, ConcatProperties
    <3> HIDE DEF P, R
    <3>4. /\ R \o stream \in Seq(Char) /\ Len(R \o stream) = bufofs - eom + Len(stream)
          /\ \A i \in 1..(bufofs - eom + Len(stream)) :
               (R \o stream)[i] = IF i <= bufofs - eom THEN R[i] ELSE stream[i - (bufofs - eom)]
      BY <3>1, <2>1, ConcatProperties
    <3>5. /\ Q \in Seq(Char) /\ Len(Q) = Len(P) - eom
          /\ \A i \in 1..(Len(P) - (eom + 1) + 1) : Q[i] = P[(eom + 1) + i - 1]
      <4>1. \A i \in (eom + 1)..Len(P) : P[i] \in Char
        BY <1>3, <1>9
      <4>2. Len(P) \in Nat
        BY <1>9
      <4> QED
        BY <4>1, <4>2, <1>1, <1>3, <1>9, SubSeqProperties
    <3> DEFINE T == R \o stream
    <3>8. /\ T \in Seq(Char) /\ Len(T) = bufofs - eom + Len(stream)
          /\ \A i \in 1..(bufofs - eom + Len(stream)) :
               T[i] = IF i <= bufofs - eom THEN R[i] ELSE stream[i - (bufofs - eom)]
      BY <3>4
    <3> HIDE DEF Q, T
    <3>6. ASSUME NEW i \in 1..Len(Q) PROVE Q[i] = T[i]
      <4>0. eom <= bufofs /\ i \in Nat
        BY <1>1
      <4>1. /\ i \in 1..(Len(P) - (eom + 1) + 1) /\ i \in 1..(bufofs - eom + Len(stream))
            /\ (eom + 1) + i - 1 \in 1..(bufofs + Len(stream))
            /\ (eom + 1) + i - 1 <= bufofs <=> i <= bufofs - eom
            /\ (eom + 1) + i - 1 - bufofs = i - (bufofs - eom)
        BY <4>0, <1>3, <3>1, <3>3, <3>5
      <4>2. CASE i <= bufofs - eom
        <5>1. Q[i] = K[(eom + 1) + i - 1]
          BY <4>1, <4>2, <3>3, <3>5
        <5>2. T[i] = R[i]
          BY <4>1, <4>2, <3>8
        <5>3. i \in 1..(bufofs - (eom + 1) + 1)
          BY <4>0, <4>1, <4>2, <1>3
        <5>4. R[i] = K[(eom + 1) + i - 1]
          BY <5>3, <2>1
        <5> QED
          BY <5>1, <5>2, <5>4
      <4>3. CASE ~ (i <= bufofs - eom)
        <5>1. Q[i] = stream[(eom + 1) + i - 1 - bufofs]
          <6>1. PICK d \in Nat : d = (eom + 1) + i - 1
            BY <4>0, <1>3
          <6>2. d \in 1..(bufofs + Len(stream)) /\ ~ (d <= bufofs) /\ Q[i] = P[d]
            BY <6>1, <4>1, <4>3, <3>5
          <6>3. Q[i] = stream[d - bufofs]
            BY <6>2, <3>3
          <6> QED
            BY <6>1, <6>3, <4>0, <1>3
        <5>2. T[i] = stream[i - (bufofs - eom)]
          BY <4>1, <4>3, <3>8
        <5> QED
          BY <4>1, <5>1, <5>2
      <4> QED
        BY <4>2, <4>3
    <3>7. Q = T
      <4>1. Len(Q) = Len(T)
        BY <1>1, <1>3, <3>1, <3>3, <3>8, <3>5
      <4> QED
        BY <4>1, <3>8, <3>5, <3>6, SeqEqual
    <3> QED
      BY <3>2, <3>7 DEF Q, T
  <2>3. CASE ~ fd
    <3>1. P = K /\ Pending' = R /\ Len(P) = bufofs
      BY <2>3, <1>2, <1>7, <1>8 DEF Pending, K, connVars
    <3> QED
      BY <3>1
  <2> QED
    BY <2>2, <2>3
<1>11. ASSUME fresh PROVE LinesSound'
  <2>1. /\ Len(lines) <= Len(sent) /\ Framed(P, Len(lines) + 1, sent)
        /\ \A l \in DOMAIN lines : lines[l] = Body(l, sent[l])
        /\ fd /\ ~ fin => Reaches(P, Len(lines), sent)
    BY <1>11 DEF LinesSound
  <2> HIDE DEF P
  <2>2. eom \in 1..Len(P) /\ P[eom][2] = 0 /\ \A j \in 1..(eom - 1) : P[j][2] # 0
    <3>1. Len(P) \in Nat
      BY <1>9
    <3>2. eom \in 1..Len(P) /\ \A j \in 1..eom : j \in 1..bufofs
      BY <3>1, <1>1, <1>3, <1>9
    <3>3. \A j \in 1..eom : P[j] = buf[j]
      BY <3>2, <1>7, <1>9
    <3>4. eom \in 1..eom /\ \A j \in 1..(eom - 1) : j \in 1..eom
      BY <1>1, <1>3
    <3> QED
      BY <3>2, <3>3, <3>4, <1>1
  <2>3. /\ Len(lines) + 1 \in 1..Len(sent)
        /\ SubSeq(P, 1, eom - 1) = Body(Len(lines) + 1, sent[Len(lines) + 1])
        /\ Framed(SubSeq(P, eom + 1, Len(P)), Len(lines) + 2, sent)
        /\ Reaches(P, Len(lines), sent) =>
             Reaches(SubSeq(P, eom + 1, Len(P)), Len(lines) + 1, sent)
    BY <2>1, <2>2, <1>3, <1>9, FramedTaken
  <2>4. SubSeq(P, 1, eom - 1) = SubSeq(buf, 1, eom - 1)
    <3>1. eom - 1 \in 0..Len(P)
      BY <2>2, <1>3
    <3>2. /\ SubSeq(P, 1, eom - 1) \in Seq(Char) /\ Len(SubSeq(P, 1, eom - 1)) = eom - 1
          /\ \A i \in 1..(eom - 1) : SubSeq(P, 1, eom - 1)[i] = P[i]
      BY <3>1, <1>9, Cut
    <3>3. \A i \in 1..(eom - 1) : P[i] = buf[i]
      BY <1>1, <1>3, <1>7, <1>9
    <3> DEFINE A == SubSeq(P, 1, eom - 1)  B == SubSeq(buf, 1, eom - 1)
    <3>4. \A i \in 1..(eom - 1) : A[i] = B[i]
      BY <3>2, <3>3, <1>4
    <3> HIDE DEF A, B
    <3>5. A = B
      BY <3>2, <3>4, <1>4, SeqEqual DEF A, B
    <3> QED
      BY <3>5 DEF A, B
  <2>5. \A l \in DOMAIN lines' : lines'[l] = Body(l, sent[l])
    <3>1. DOMAIN lines' = 1..(Len(lines) + 1) /\ DOMAIN lines = 1..Len(lines)
      BY <1>6
    <3>2. \A l \in 1..(Len(lines) + 1) : l \in 1..Len(lines) \/ l = Len(lines) + 1
      BY <1>3
    <3> QED
      BY <3>1, <3>2, <2>1, <2>3, <2>4, <1>6
  <2>6. Len(lines') + 1 = Len(lines) + 2 /\ Len(lines') <= Len(sent)
    BY <1>3, <1>6, <2>3
  <2> QED
    BY <1>2, <1>6, <1>10, <2>1, <2>3, <2>5, <2>6 DEF LinesSound, peerVars, connVars
<1>12. LinesSound'
  BY <1>2, <1>11 DEF LinesSound, connVars
<1> QED
  BY <1>5, <1>6, <1>12

LEMMA QuietInv ==
    ASSUME LinesInvariant, UNCHANGED <<peerVars, bufVars, connVars, lines>>,
           inCall' \in BOOLEAN, inCall' => inCall
    PROVE  LinesInvariant'
<1> USE DEF LinesInvariant
<1>1. LinesTypes'
  BY DEF LinesTypes, peerVars, bufVars, connVars
<1>2. Pending' = Pending
  BY DEF Pending, Kept, peerVars, bufVars, connVars
<1>3. LinesSound'
  BY <1>2 DEF LinesSound, peerVars, connVars
<1> QED
  BY <1>1, <1>3

\* The buffer is freed, and what has not been received is given up.
LEMMA EmptiedInv ==
    ASSUME LinesInvariant, Emptied, UNCHANGED <<peerVars, opens, fresh, lines>>,
           inCall' \in BOOLEAN, fd' \in BOOLEAN, fd' => fd /\ fin /\ stream = <<>>
    PROVE  LinesInvariant'
<1> USE DEF LinesInvariant
<1>1. buf' = <<>> /\ bufofs' = 0 /\ buflen' = 0 /\ Kept' = <<>>
  BY EmptiedKept
<1>2. LinesTypes'
  <2>1. buf' \in Seq(Char) /\ bufofs' \in Nat /\ buflen' \in Nat /\ Len(buf') = 0
    BY <1>1
  <2>2. bufofs' + buflen' <= Len(buf')
    BY <1>1, <2>1
  <2>3. /\ stream' \in Seq(Char) /\ sent' \in Seq(Nat) /\ fin' \in BOOLEAN
        /\ opens' \in Nat /\ (fd' => opens' > 0)
    BY DEF LinesTypes, peerVars
  <2> QED
    BY <1>1, <2>1, <2>2, <2>3 DEF LinesTypes
<1>3. Pending' = <<>>
  BY <1>1 DEF Pending, peerVars
<1>4. fd' => fin'
  BY DEF peerVars
<1>5. LinesSound'
  BY <1>3, <1>4, FramedNone DEF LinesSound, peerVars
<1> QED
  BY <1>2, <1>5

LEMMA ConnectInv ==
    ASSUME LinesInvariant, Connect
    PROVE  LinesInvariant'
<1> USE DEF LinesInvariant
<1>1. /\ ~ inCall /\ fd' = TRUE /\ opens' = opens + 1 /\ fresh' = (Kept = <<>>)
      /\ stream' = <<>> /\ sent' = <<>> /\ fin' = FALSE /\ lines' = <<>>
      /\ UNCHANGED <<bufVars, inCall>>
  BY DEF Connect
<1>2. <<>> \in Seq(Char) /\ <<>> \in Seq(Nat) /\ <<>> \in Seq(Seq(Char)) /\ Len(<<>>) = 0
  OBVIOUS
<1>3. LinesTypes'
  <2>1. stream' \in Seq(Char) /\ sent' \in Seq(Nat)
    BY <1>1, <1>2
  <2>2. fin' \in BOOLEAN /\ fd' \in BOOLEAN
    BY <1>1
  <2>3. opens' \in Nat /\ opens' > 0
    BY <1>1 DEF LinesTypes
  <2> QED
    BY <1>1, <2>1, <2>2, <2>3 DEF LinesTypes, bufVars
<1>4. Kept = <<>> => Pending' = <<>>
  <2>1. Kept' = Kept /\ Kept \in Seq(Char)
    BY <1>1, KeptSeq DEF Kept, bufVars
  <2>2. Pending' = Kept \o <<>>
    BY <1>1, <2>1 DEF Pending
  <2> QED
    BY <2>1, <2>2, ConcatEmptySeq
<1>5. LinesSound'
  <2>1. Len(lines') = 0 /\ Len(sent') = 0 /\ DOMAIN lines' = {}
    BY <1>1, <1>2
  <2> DEFINE P == Pending'
  <2>2. ASSUME Kept = <<>> PROVE Framed(P, Len(lines') + 1, sent') /\ Reaches(P, Len(lines'), sent')
    <3>1. P = <<>>
      BY <2>2, <1>4
    <3> HIDE DEF P
    <3> QED
      BY <3>1, <2>1, <1>2, FramedNone DEF Reaches
  <2>3. fresh' => Kept = <<>>
    BY <1>1
  <2>4. Len(lines') <= Len(sent') /\ \A l \in DOMAIN lines' : lines'[l] = Body(l, sent'[l])
    BY <2>1
  <2> HIDE DEF P
  <2>5. Kept = <<>> => (Len(lines') <= Len(sent') /\ (\A l \in DOMAIN lines' : lines'[l] = Body(l, sent'[l]))
          /\ Framed(P, Len(lines') + 1, sent')
          /\ (fd' /\ ~ fin' => Reaches(P, Len(lines'), sent')))
    BY <2>2, <2>4
  <2> QED
    BY <2>3, <2>5 DEF LinesSound, P
<1> QED
  BY <1>1, <1>2, <1>3, <1>5

\* The socket is closed, and the buffer stays.
LEMMA ClosedInv ==
    ASSUME LinesInvariant, fd, fd' = FALSE,
           UNCHANGED <<bufVars, opens, fresh, peerVars, inCall, lines>>
    PROVE  LinesInvariant'
<1> USE DEF LinesInvariant
<1>1. LinesTypes'
  BY DEF LinesTypes, bufVars, peerVars
<1>2. Kept' = Kept /\ Kept \in Seq(Char) /\ stream \in Seq(Char)
  BY KeptSeq DEF Kept, bufVars, LinesTypes
<1>3. Pending = Kept \o stream /\ Pending' = Kept
  BY <1>2 DEF Pending
<1>4. Pending' = SubSeq(Pending, 1, Len(Kept)) /\ Len(Kept) \in 0..Len(Pending)
  <2> DEFINE K == Kept  P == Pending  Q == SubSeq(P, 1, Len(K))
  <2>1. P = K \o stream /\ K \in Seq(Char)
    BY <1>2, <1>3
  <2> HIDE DEF K, P
  <2>2. /\ P \in Seq(Char) /\ Len(P) = Len(K) + Len(stream)
        /\ \A i \in 1..(Len(K) + Len(stream)) :
             P[i] = IF i <= Len(K) THEN K[i] ELSE stream[i - Len(K)]
    BY <2>1, <1>2, ConcatProperties
  <2>3. Len(K) \in 0..Len(P) /\ \A i \in 1..Len(K) : i \in 1..(Len(K) + Len(stream)) /\ i <= Len(K)
    BY <2>1, <2>2, <1>2
  <2>4. Q \in Seq(Char) /\ Len(Q) = Len(K) /\ \A i \in 1..Len(K) : Q[i] = P[i]
    BY <2>2, <2>3, Cut
  <2> HIDE DEF Q
  <2>5. \A i \in 1..Len(K) : Q[i] = K[i]
    BY <2>2, <2>3, <2>4
  <2>6. Q = K
    BY <2>1, <2>4, <2>5, SeqEqual
  <2> QED
    BY <2>3, <2>6, <1>3 DEF K, P, Q
<1>5. Pending \in Seq(Char)
  BY PendingSeq
<1>6. LinesSound'
  BY <1>4, <1>5, SoundKept DEF peerVars
<1> QED
  BY <1>1, <1>6

LEMMA LinesNextInv == LinesInvariant /\ [LinesNext]_lineVars => LinesInvariant'
<1> SUFFICES ASSUME LinesInvariant, [LinesNext]_lineVars PROVE LinesInvariant'
  OBVIOUS
<1>1. ASSUME NEW n \in Lengths, PeerSends(n) PROVE LinesInvariant'
  BY <1>1, SendsInv
<1>2. CASE PeerCloses
  BY <1>2, ClosesInv
<1>3. ASSUME NEW n \in 0..Len(stream), ReadBegins(n) \/ ReadMore(n) PROVE LinesInvariant'
  BY <1>3, BeginsInv, MoreInv
<1>4. CASE ReadLine
  BY <1>4, LineInv
<1>5. CASE ReadTimesOut
  BY <1>5, QuietInv DEF ReadTimesOut, peerVars, bufVars, connVars
<1>6. CASE ReadFails
  <2>1. Emptied /\ UNCHANGED <<peerVars, opens, fresh, lines>> /\ inCall' \in BOOLEAN
    BY <1>6 DEF ReadFails, connVars
  <2>2. fd' \in BOOLEAN /\ (fd' => fd /\ fin /\ stream = <<>>)
    BY <1>6 DEF ReadFails, connVars, LinesInvariant, LinesTypes
  <2> QED
    BY <2>1, <2>2, EmptiedInv
<1>7. CASE Connect
  BY <1>7, ConnectInv
<1>8. ASSUME NEW empty \in BOOLEAN, CloseSocket(empty) PROVE LinesInvariant'
  <2>1. /\ fd /\ fd' = FALSE /\ UNCHANGED <<opens, fresh, peerVars, inCall, lines>>
        /\ Emptied \/ UNCHANGED bufVars
    BY <1>8 DEF CloseSocket
  <2>2. CASE Emptied
    <3>1. inCall' \in BOOLEAN
      BY <2>1 DEF LinesInvariant, LinesTypes
    <3> QED
      BY <2>1, <2>2, <3>1, EmptiedInv
  <2>3. CASE UNCHANGED bufVars
    BY <2>1, <2>3, ClosedInv
  <2> QED
    BY <2>1, <2>2, <2>3
<1>9. CASE UNCHANGED lineVars
  <2>1. inCall' \in BOOLEAN /\ (inCall' => inCall)
    BY <1>9 DEF lineVars, LinesInvariant, LinesTypes
  <2> QED
    BY <1>9, <2>1, QuietInv DEF lineVars, peerVars, bufVars, connVars
<1> QED
  BY <1>1, <1>2, <1>3, <1>4, <1>5, <1>6, <1>7, <1>8, <1>9 DEF LinesNext

\* read_socket_line: however the stream is cut and wherever calls time out, the
\* calls return the lines of a connection made with an empty buffer whole, each
\* once and in order (LinesWhole), whatever the lines, and however many there
\* are of them and of connections.
THEOREM LinesWholeThm == LinesSpec => []LinesWhole
<1>1. LinesInvariant => LinesWhole
  BY DEF LinesInvariant, LinesSound, LinesWhole
<1> QED
  BY <1>1, LinesInitInv, LinesNextInv, PTL DEF LinesSpec

-----------------------------------------------------------------------------
(* BlockToldOnce and NodesFollow.                                             *)

TxnSpec == TxnInit /\ [][TxnNext]_txnVars

Tables == UNION {[D -> Row] : D \in SUBSET Txns}
Work == [at : {Pool} \union Remotes, txns : SUBSET Txns]
Block == [id : 1..MaxWorks, at : {Pool} \union Remotes, via : Servers]

TxnTypes ==
    /\ table \in [Servers -> Tables]
    /\ adding \in [Servers -> [Threads -> SUBSET Txns]]
    /\ down \in [Servers -> Seq(NetMsg)] /\ upstream \in [Servers -> Seq(NetMsg)]
    /\ listed \in SUBSET (Servers \ {Pool}) /\ ready \in SUBSET listed
    /\ works \in Seq(Work) /\ Len(works) <= MaxWorks
    /\ solved \in SUBSET Block /\ heard \in [Servers -> Seq(1..MaxWorks)]

\* A server that is not listed has been sent nothing.  Only remote servers send to
\* the pool or make templates of their own, and they when they are listed.
Links ==
    /\ \A x \in Servers : upstream[x] # <<>> => x \in Remotes /\ x \in listed
    /\ \A x \in Servers : down[x] # <<>> => x \in listed
    /\ \A i \in DOMAIN works : works[i].at = Pool \/ works[i].at \in listed
    /\ \A x \in Nodes : adding[x]["gbt"] = {}
    /\ \A x \in Remotes : \A t \in Threads : adding[x][t] # {} => x \in listed
    /\ adding[Pool]["recv"] # {} => Remotes \intersect listed # {}

LEMMA Sets ==
    /\ Pool \in Servers /\ Nodes \subseteq Servers /\ Remotes \subseteq Servers
    /\ Pool \notin Nodes /\ Pool \notin Remotes /\ \A x \in Nodes : x \notin Remotes
    /\ RefReturned \in Nat /\ RefLocal \in Nat /\ RefRemote \in Nat
    /\ RefReturned < RefLocal /\ RefLocal < RefRemote /\ MaxWorks \in Nat
    /\ "gbt" \in Threads /\ "recv" \in Threads
BY TransactionTablesAssumption DEF Servers, Threads

LEMMA TableMade ==
    ASSUME NEW D \in SUBSET Txns, NEW f \in [D -> Row]
    PROVE  f \in Tables
BY DEF Tables

LEMMA TableRows ==
    ASSUME NEW tab \in Tables
    PROVE  DOMAIN tab \in SUBSET Txns /\ tab \in [DOMAIN tab -> Row]
BY DEF Tables

\* What add_txn does to a row.
LEMMA RefreshedRows ==
    ASSUME NEW tab \in Tables, NEW txns, NEW remote \in BOOLEAN
    PROVE  /\ Refreshed(tab, txns, remote) \in Tables
           /\ DOMAIN Refreshed(tab, txns, remote) = DOMAIN tab
           /\ \A h \in DOMAIN tab :
                Refreshed(tab, txns, remote)[h] =
                  IF h \notin txns THEN tab[h]
                  ELSE [ref |-> IF remote THEN RefRemote
                                ELSE IF tab[h].ref < RefLocal THEN RefLocal ELSE tab[h].ref,
                        seen |-> TRUE]
<1> DEFINE r == Refreshed(tab, txns, remote)
<1>1. DOMAIN tab \in SUBSET Txns /\ \A h \in DOMAIN tab : tab[h] \in Row
  BY TableRows
<1>2. ASSUME NEW h \in DOMAIN tab
      PROVE  (IF h \notin txns THEN tab[h]
              ELSE [ref |-> IF remote THEN RefRemote
                            ELSE IF tab[h].ref < RefLocal THEN RefLocal ELSE tab[h].ref,
                    seen |-> TRUE]) \in Row
  <2>1. tab[h] \in Row /\ tab[h].ref \in 0..RefRemote
    BY <1>1 DEF Row
  <2>2. (IF remote THEN RefRemote
         ELSE IF tab[h].ref < RefLocal THEN RefLocal ELSE tab[h].ref) \in 0..RefRemote
    BY <2>1, Sets
  <2> QED
    BY <2>1, <2>2 DEF Row
<1>3. r \in [DOMAIN tab -> Row]
  BY <1>2 DEF Refreshed
<1>4. r \in Tables
  BY <1>1, <1>3, TableMade
<1> QED
  BY <1>3, <1>4 DEF Refreshed

\* What update_txns leaves.
LEMMA PurgedRows ==
    ASSUME NEW tab \in Tables
    PROVE  /\ Purged(tab) \in Tables
           /\ DOMAIN Purged(tab) = {h \in DOMAIN tab : tab[h].seen \/ tab[h].ref > 0}
           /\ \A h \in DOMAIN Purged(tab) :
                Purged(tab)[h] = [ref |-> IF tab[h].seen THEN tab[h].ref ELSE tab[h].ref - 1,
                                  seen |-> FALSE]
<1> DEFINE kept == {h \in DOMAIN tab : tab[h].seen \/ tab[h].ref > 0}
<1>1. DOMAIN tab \in SUBSET Txns /\ \A h \in DOMAIN tab : tab[h] \in Row
  BY TableRows
<1>2. ASSUME NEW h \in kept
      PROVE  [ref |-> IF tab[h].seen THEN tab[h].ref ELSE tab[h].ref - 1, seen |-> FALSE] \in Row
  <2>1. tab[h].ref \in 0..RefRemote /\ (tab[h].seen \/ tab[h].ref > 0)
    BY <1>1 DEF Row
  <2>2. (IF tab[h].seen THEN tab[h].ref ELSE tab[h].ref - 1) \in 0..RefRemote
    BY <2>1, Sets
  <2> QED
    BY <2>2 DEF Row
<1>3. Purged(tab) \in [kept -> Row]
  BY <1>2 DEF Purged
<1>4. kept \in SUBSET Txns
  BY <1>1
<1>5. Purged(tab) \in Tables
  BY <1>3, <1>4, TableMade
<1> QED
  BY <1>3, <1>5 DEF Purged

LEMMA WithRows ==
    ASSUME NEW tab \in Tables, NEW txns \in SUBSET Txns, NEW ref \in 0..RefRemote
    PROVE  /\ With(tab, txns, ref) \in Tables
           /\ DOMAIN With(tab, txns, ref) = DOMAIN tab \union txns
           /\ \A h \in DOMAIN tab \union txns :
                With(tab, txns, ref)[h] = IF h \in DOMAIN tab THEN tab[h]
                                          ELSE [ref |-> ref, seen |-> TRUE]
<1>1. DOMAIN tab \in SUBSET Txns /\ \A h \in DOMAIN tab : tab[h] \in Row
  BY TableRows
<1>2. [ref |-> ref, seen |-> TRUE] \in Row
  BY DEF Row
<1>3. With(tab, txns, ref) \in [DOMAIN tab \union txns -> Row]
  BY <1>1, <1>2 DEF With
<1>4. DOMAIN tab \union txns \in SUBSET Txns
  BY <1>1
<1>5. With(tab, txns, ref) \in Tables
  BY <1>3, <1>4, TableMade
<1> QED
  BY <1>3, <1>5 DEF With

LEMMA NewAreTxns ==
    ASSUME NEW tab, NEW txns \in SUBSET Txns
    PROVE  NewTxns(tab, txns) \in SUBSET Txns /\ NewTxns(tab, txns) \subseteq txns
BY DEF NewTxns

LEMMA Messages ==
    /\ \A S \in SUBSET Txns : TxnsMsg(S) \in NetMsg /\ [t |-> "req", txns |-> S] \in NetMsg
    /\ \A id \in 1..MaxWorks : BlockMsg(id) \in NetMsg /\ [t |-> "work", id |-> id] \in NetMsg
BY DEF TxnsMsg, BlockMsg, NetMsg

Queues == [Servers -> Seq(NetMsg)]

LEMMA Grown ==
    ASSUME NEW q \in Queues, NEW msg \in NetMsg, NEW xs
    PROVE  [x \in Servers |-> IF x \in xs THEN Append(q[x], msg) ELSE q[x]] \in Queues
<1>1. \A x \in Servers : q[x] \in Seq(NetMsg) /\ Append(q[x], msg) \in Seq(NetMsg)
  BY AppendProperties DEF Queues
<1> QED
  BY <1>1 DEF Queues

LEMMA GrownAt ==
    ASSUME NEW q \in Queues, NEW s \in Seq(NetMsg), NEW x \in Servers
    PROVE  [q EXCEPT ![x] = @ \o s] \in Queues
<1>1. q[x] \o s \in Seq(NetMsg)
  BY ConcatProperties DEF Queues
<1> QED
  BY <1>1 DEF Queues

LEMMA AppendedAt ==
    ASSUME NEW q \in Queues, NEW msg \in NetMsg, NEW x \in Servers
    PROVE  [q EXCEPT ![x] = Append(@, msg)] \in Queues
<1>1. Append(q[x], msg) \in Seq(NetMsg)
  BY AppendProperties DEF Queues
<1> QED
  BY <1>1 DEF Queues

LEMMA ReadAt ==
    ASSUME NEW q \in Queues, NEW x \in Servers, q[x] # <<>>
    PROVE  [q EXCEPT ![x] = Tail(@)] \in Queues
<1>1. Tail(q[x]) \in Seq(NetMsg)
  BY HeadTailProperties DEF Queues
<1> QED
  BY <1>1 DEF Queues

LEMMA PublishTyped ==
    ASSUME TxnTypes, NEW x \in Servers, NEW msg \in NetMsg, Publish(x, msg)
    PROVE  down' \in Queues /\ upstream' \in Queues
<1>1. down \in Queues /\ upstream \in Queues
  BY DEF TxnTypes, Queues
<1>2. CASE x = Pool
  <2>1. [y \in Servers |-> IF y \in listed THEN Append(down[y], msg) ELSE down[y]] \in Queues
    BY <1>1, Grown
  <2> QED
    BY <1>1, <1>2, <2>1 DEF Publish, ToAll
<1>3. CASE x # Pool
  <2>1. [upstream EXCEPT ![x] = Append(@, msg)] \in Queues
    BY <1>1, AppendedAt
  <2> QED
    BY <1>1, <1>3, <2>1 DEF Publish
<1> QED
  BY <1>2, <1>3

LEMMA ReplyTyped ==
    ASSUME TxnTypes, NEW x \in Servers, NEW txns \in SUBSET Txns
    PROVE  Reply(x, txns) \in Seq(NetMsg)
<1>1. txns \intersect DOMAIN table[x] \in SUBSET Txns
  OBVIOUS
<1>2. <<>> \in Seq(NetMsg) /\ \A S \in SUBSET Txns : <<TxnsMsg(S)>> \in Seq(NetMsg)
  <2>1. \A m \in NetMsg : <<m>> \in Seq(NetMsg)
    OBVIOUS
  <2>2. <<>> \in Seq(NetMsg)
    BY EmptySeq
  <2>3. \A S \in SUBSET Txns : TxnsMsg(S) \in NetMsg
    BY Messages
  <2> QED
    BY <2>1, <2>2, <2>3, Zenon
<1> QED
  BY <1>1, <1>2 DEF Reply

\* The parts of the types that steps change.
NetTyped ==
    /\ down \in Queues /\ upstream \in Queues
    /\ listed \in SUBSET (Servers \ {Pool}) /\ ready \in SUBSET listed
TableTyped ==
    /\ table \in [Servers -> Tables] /\ adding \in [Servers -> [Threads -> SUBSET Txns]]
BlockTyped ==
    /\ works \in Seq(Work) /\ Len(works) <= MaxWorks
    /\ solved \in SUBSET Block /\ heard \in [Servers -> Seq(1..MaxWorks)]

LEMMA WorkTyped ==
    ASSUME TxnTypes, NEW id \in DOMAIN works
    PROVE  id \in 1..MaxWorks /\ works[id] \in Work /\ works[id].txns \in SUBSET Txns
<1>1. works \in Seq(Work) /\ Len(works) <= MaxWorks /\ Len(works) \in Nat
  BY DEF TxnTypes
<1>2. id \in 1..Len(works)
  BY <1>1
<1>3. works[id] \in Work
  BY <1>1, <1>2
<1> QED
  BY <1>1, <1>2, <1>3, Sets DEF Work

LEMMA NewTemplateTypes ==
    ASSUME TxnTypes, Links, NEW x \in Servers, NEW txns \in Templates, NewTemplate(x, txns)
    PROVE  TxnTypes'
<1>1. txns \in SUBSET Txns
  BY TransactionTablesAssumption
<1>2. works \in Seq(Work) /\ Len(works) \in Nat /\ Len(works) < MaxWorks
  BY DEF TxnTypes, NewTemplate
<1>3. /\ works' = Append(works, [at |-> x, txns |-> txns])
      /\ table' = [table EXCEPT ![x] = Refreshed(@, txns, FALSE)]
      /\ adding' = [adding EXCEPT ![x]["gbt"] = NewTxns(table[x], txns)]
      /\ Publish(x, [t |-> "work", id |-> Len(works) + 1])
      /\ UNCHANGED <<netVars, blockVars>>
      /\ x = Pool \/ x \in Remotes
  BY DEF NewTemplate
<1>4. BlockTyped'
  <2>1. [at |-> x, txns |-> txns] \in Work
    BY <1>1, <1>3 DEF Work
  <2>2. works' \in Seq(Work) /\ Len(works') = Len(works) + 1
    BY <1>2, <1>3, <2>1, AppendProperties
  <2>3. Len(works') <= MaxWorks
    BY <2>2, <1>2, Sets
  <2> QED
    BY <1>3, <2>2, <2>3 DEF BlockTyped, TxnTypes, blockVars
<1>5. TableTyped'
  <2>1. table[x] \in Tables
    BY DEF TxnTypes
  <2>2. Refreshed(table[x], txns, FALSE) \in Tables
    BY <2>1, RefreshedRows
  <2>3. NewTxns(table[x], txns) \in SUBSET Txns
    BY <1>1, NewAreTxns
  <2> QED
    BY <1>3, <2>2, <2>3 DEF TableTyped, TxnTypes
<1>6. NetTyped'
  <2>1. Len(works) + 1 \in 1..MaxWorks
    BY <1>2, Sets
  <2>2. [t |-> "work", id |-> Len(works) + 1] \in NetMsg
    BY <2>1, Messages
  <2>3. down' \in Queues /\ upstream' \in Queues
    BY <1>3, <2>2, PublishTyped
  <2> QED
    BY <1>3, <2>3 DEF NetTyped, TxnTypes, netVars
<1> QED
  BY <1>4, <1>5, <1>6 DEF TxnTypes, NetTyped, TableTyped, BlockTyped, Queues

LEMMA UpdateTableTypes ==
    ASSUME TxnTypes, NEW x \in Servers, NEW t \in Threads, UpdateTable(x, t)
    PROVE  TxnTypes'
<1> DEFINE new == adding[x][t]
           ref == IF t = "recv" \/ x \in Nodes THEN RefRemote ELSE RefLocal
<1>1. /\ adding' = [adding EXCEPT ![x][t] = {}]
      /\ table' = [table EXCEPT ![x] = With(Purged(@), new, ref)]
      /\ Publish(x, TxnsMsg(new)) \/ UNCHANGED <<down, upstream>>
      /\ UNCHANGED <<netVars, works, bases, blockVars>>
  BY DEF UpdateTable
<1>2. new \in SUBSET Txns /\ ref \in 0..RefRemote
  BY Sets DEF TxnTypes
<1> HIDE DEF new, ref
<1>3. TableTyped'
  <2>1. table[x] \in Tables
    BY DEF TxnTypes
  <2>2. Purged(table[x]) \in Tables
    BY <2>1, PurgedRows
  <2>3. With(Purged(table[x]), new, ref) \in Tables
    BY <2>2, <1>2, WithRows
  <2> QED
    BY <1>1, <2>3 DEF TableTyped, TxnTypes
<1>4. down' \in Queues /\ upstream' \in Queues
  <2>1. TxnsMsg(new) \in NetMsg
    BY <1>2, Messages
  <2>2. CASE Publish(x, TxnsMsg(new))
    BY <2>1, <2>2, PublishTyped
  <2>3. CASE UNCHANGED <<down, upstream>>
    BY <2>3 DEF TxnTypes, Queues
  <2> QED
    BY <1>1, <2>2, <2>3
<1>5. NetTyped' /\ BlockTyped'
  BY <1>1, <1>4 DEF NetTyped, BlockTyped, TxnTypes, netVars, blockVars
<1> QED
  BY <1>3, <1>5 DEF TxnTypes, NetTyped, TableTyped, BlockTyped, Queues

LEMMA JoinTypes ==
    ASSUME TxnTypes, NEW x \in Servers, Join(x)
    PROVE  TxnTypes'
<1>1. x # Pool
  BY Sets DEF Join
<1>2. TableTyped' /\ BlockTyped'
  BY DEF Join, TableTyped, BlockTyped, TxnTypes, blockVars
<1>3. NetTyped'
  BY <1>1 DEF Join, NetTyped, TxnTypes, Queues
<1> QED
  BY <1>2, <1>3 DEF TxnTypes, NetTyped, TableTyped, BlockTyped, Queues

LEMMA SendAllTypes ==
    ASSUME TxnTypes, NEW x \in Servers, SendAll(x)
    PROVE  TxnTypes'
<1>1. TableTyped' /\ BlockTyped'
  BY DEF SendAll, TableTyped, BlockTyped, TxnTypes, blockVars
<1>2. down' \in Queues
  <2>1. table[Pool] \in Tables
    BY Sets DEF TxnTypes
  <2>2. DOMAIN table[Pool] \in SUBSET Txns
    BY <2>1, TableRows
  <2>3. TxnsMsg(DOMAIN table[Pool]) \in NetMsg
    BY <2>2, Messages
  <2>4. down \in Queues
    BY DEF TxnTypes, Queues
  <2> QED
    BY <2>3, <2>4, AppendedAt DEF SendAll
<1>3. NetTyped'
  BY <1>2 DEF SendAll, NetTyped, TxnTypes, Queues
<1> QED
  BY <1>1, <1>3 DEF TxnTypes, NetTyped, TableTyped, BlockTyped, Queues

LEMMA NodeLostTypes ==
    ASSUME TxnTypes, NEW x \in Servers, NodeLost(x)
    PROVE  TxnTypes'
<1>1. TableTyped' /\ BlockTyped'
  BY DEF NodeLost, TableTyped, BlockTyped, TxnTypes, blockVars
<1>2. down' \in Queues
  <2>1. <<>> \in Seq(NetMsg)
    BY EmptySeq
  <2> QED
    BY <2>1 DEF NodeLost, TxnTypes, Queues
<1>3. listed' \in SUBSET (Servers \ {Pool}) /\ ready' \in SUBSET listed'
  BY DEF NodeLost, TxnTypes
<1>4. NetTyped'
  BY <1>2, <1>3 DEF NodeLost, NetTyped, TxnTypes, Queues
<1> QED
  BY <1>1, <1>4 DEF TxnTypes, NetTyped, TableTyped, BlockTyped, Queues

\* Reading a message takes it out.
LEMMA ReadTyped ==
    ASSUME TxnTypes, NEW x \in Servers
    PROVE  /\ down[x] # <<>> => ReadDown(x) \in Queues
           /\ upstream[x] # <<>> => ReadUp(x) \in Queues
<1>1. down \in Queues /\ upstream \in Queues
  BY DEF TxnTypes, Queues
<1> QED
  BY <1>1, ReadAt DEF ReadDown, ReadUp

LEMMA AddNodeTxnsTypes ==
    ASSUME TxnTypes, NEW x \in Servers, NEW txns \in SUBSET Txns, AddNodeTxns(x, txns),
           down' \in Queues, upstream' \in Queues
    PROVE  TxnTypes'
<1>1. TableTyped'
  <2>1. table[x] \in Tables
    BY DEF TxnTypes
  <2>2. Refreshed(table[x], txns, TRUE) \in Tables
    BY <2>1, RefreshedRows
  <2>3. NewTxns(table[x], txns) \in SUBSET Txns
    BY NewAreTxns
  <2> QED
    BY <2>2, <2>3 DEF AddNodeTxns, TableTyped, TxnTypes
<1>2. NetTyped' /\ BlockTyped'
  BY DEF AddNodeTxns, NetTyped, BlockTyped, TxnTypes, netVars, blockVars
<1> QED
  BY <1>1, <1>2 DEF TxnTypes, NetTyped, TableTyped, BlockTyped, Queues

LEMMA ReadTxnsTypes ==
    ASSUME TxnTypes, NEW x \in Servers, ReadTxns(x)
    PROVE  TxnTypes'
<1>1. ASSUME NEW txns \in SUBSET Txns, Reading(x, TxnsMsg(txns)), AddNodeTxns(x, txns),
             down' = ReadDown(x), UNCHANGED upstream
      PROVE  TxnTypes'
  <2>1. down' \in Queues /\ upstream' \in Queues
    BY <1>1, ReadTyped DEF Reading, TxnTypes, Queues
  <2> QED
    BY <1>1, <2>1, AddNodeTxnsTypes
<1>2. ASSUME NEW txns \in SUBSET Txns, PoolReading(x, TxnsMsg(txns)), AddNodeTxns(Pool, txns),
             upstream' = ReadUp(x), UNCHANGED down
      PROVE  TxnTypes'
  <2>1. down' \in Queues /\ upstream' \in Queues
    BY <1>2, ReadTyped DEF PoolReading, TxnTypes, Queues
  <2> QED
    BY <1>2, <2>1, Sets, AddNodeTxnsTypes
<1> QED
  BY <1>1, <1>2 DEF ReadTxns

LEMMA AddNodeBaseTypes ==
    ASSUME TxnTypes, NEW x \in Servers, NEW id \in DOMAIN works, NEW got \in Answered(x, id),
           AddNodeBase(x, id, got), down' \in Queues, upstream' \in Queues
    PROVE  TxnTypes'
<1>1. works[id].txns \in SUBSET Txns
  BY WorkTyped
<1>2. got \in SUBSET Txns
  BY <1>1 DEF Answered, Missing
<1>3. TableTyped'
  <2>1. table[x] \in Tables
    BY DEF TxnTypes
  <2>2. Refreshed(table[x], works[id].txns, TRUE) \in Tables
    BY <2>1, RefreshedRows
  <2>3. RefRemote \in 0..RefRemote
    BY Sets
  <2>4. Rebuilt(table[x], works[id].txns, got) \in Tables
    BY <1>2, <2>2, <2>3, WithRows DEF Rebuilt
  <2> QED
    BY <2>4 DEF AddNodeBase, TableTyped, TxnTypes
<1>4. NetTyped' /\ BlockTyped'
  BY DEF AddNodeBase, NetTyped, BlockTyped, TxnTypes, netVars, blockVars
<1> QED
  BY <1>3, <1>4 DEF TxnTypes, NetTyped, TableTyped, BlockTyped, Queues

LEMMA ReadWorkTypes ==
    ASSUME TxnTypes, NEW x \in Servers, NEW id \in DOMAIN works, NEW got \in Answered(x, id),
           ReadWork(x, id, got)
    PROVE  TxnTypes'
<1>1. down' \in Queues
  BY ReadTyped DEF ReadWork, Reading
<1>2. upstream' \in Queues
  <2>1. Missing(x, id) \in SUBSET Txns
    BY WorkTyped DEF Missing
  <2>2. [t |-> "req", txns |-> Missing(x, id)] \in NetMsg
    BY <2>1, Messages
  <2>3. upstream \in Queues
    BY DEF TxnTypes, Queues
  <2> QED
    BY <2>2, <2>3, AppendedAt DEF ReadWork
<1> QED
  BY <1>1, <1>2, AddNodeBaseTypes DEF ReadWork

LEMMA PoolReadWorkTypes ==
    ASSUME TxnTypes, NEW x \in Servers, NEW id \in DOMAIN works, NEW got \in Answered(Pool, id),
           PoolReadWork(x, id, got)
    PROVE  TxnTypes'
<1>1. upstream' \in Queues
  BY ReadTyped DEF PoolReadWork, PoolReading
<1>2. down' \in Queues
  <2> DEFINE asks == IF got # Missing(Pool, id) THEN Remotes \intersect listed ELSE {}
             Asked(y) == IF y \in asks THEN <<[t |-> "req", txns |-> Missing(Pool, id)]>> ELSE <<>>
             Given(y) == IF y \in listed \ {x} THEN <<[t |-> "work", id |-> id]>> ELSE <<>>
  <2>1. down' = [y \in Servers |-> down[y] \o Asked(y) \o Given(y)]
    BY DEF PoolReadWork
  <2>2. Missing(Pool, id) \in SUBSET Txns /\ id \in 1..MaxWorks
    BY WorkTyped DEF Missing
  <2>3. [t |-> "req", txns |-> Missing(Pool, id)] \in NetMsg /\ [t |-> "work", id |-> id] \in NetMsg
    BY <2>2, Messages
  <2>4. <<>> \in Seq(NetMsg) /\ \A m \in NetMsg : <<m>> \in Seq(NetMsg)
    BY EmptySeq
  <2>5. ASSUME NEW y \in Servers PROVE Asked(y) \in Seq(NetMsg) /\ Given(y) \in Seq(NetMsg)
    <3>1. <<[t |-> "req", txns |-> Missing(Pool, id)]>> \in Seq(NetMsg)
          /\ <<[t |-> "work", id |-> id]>> \in Seq(NetMsg)
      BY <2>3, <2>4, Zenon
    <3> QED
      BY <2>4, <3>1
  <2> HIDE DEF Asked, Given
  <2>6. ASSUME NEW y \in Servers PROVE down[y] \o Asked(y) \o Given(y) \in Seq(NetMsg)
    <3>1. down[y] \in Seq(NetMsg)
      BY DEF TxnTypes
    <3> QED
      BY <2>5, <3>1, ConcatProperties
  <2> QED
    BY <2>1, <2>6 DEF Queues
<1> QED
  BY <1>1, <1>2, Sets, AddNodeBaseTypes DEF PoolReadWork

LEMMA ReadRequestTypes ==
    ASSUME TxnTypes, NEW x \in Servers, ReadRequest(x)
    PROVE  TxnTypes'
<1>1. PICK txns \in SUBSET Txns :
        LET msg == [t |-> "req", txns |-> txns]
        IN  /\ \/ /\ Reading(x, msg) /\ x \in Remotes
                  /\ down' = ReadDown(x)
                  /\ upstream' = [upstream EXCEPT ![x] = @ \o Reply(x, txns)]
               \/ /\ PoolReading(x, msg)
                  /\ upstream' = ReadUp(x)
                  /\ down' = [down EXCEPT ![x] = @ \o Reply(Pool, txns)]
            /\ UNCHANGED <<table, adding, netVars, works, bases, blockVars>>
  BY DEF ReadRequest
<1>2. down \in Queues /\ upstream \in Queues
  BY DEF TxnTypes, Queues
<1>3. Reply(x, txns) \in Seq(NetMsg) /\ Reply(Pool, txns) \in Seq(NetMsg)
  BY Sets, ReplyTyped
<1>4. [upstream EXCEPT ![x] = @ \o Reply(x, txns)] \in Queues
      /\ [down EXCEPT ![x] = @ \o Reply(Pool, txns)] \in Queues
  BY <1>2, <1>3, GrownAt
<1>5. down' \in Queues /\ upstream' \in Queues
  BY <1>1, <1>4, ReadTyped DEF Reading, PoolReading
<1>6. NetTyped' /\ TableTyped' /\ BlockTyped'
  BY <1>1, <1>5 DEF NetTyped, TableTyped, BlockTyped, TxnTypes, netVars, blockVars
<1> QED
  BY <1>6 DEF TxnTypes, NetTyped, TableTyped, BlockTyped, Queues

\* A message in front or at the end.
LEMMA AheadTyped ==
    ASSUME TxnTypes, NEW id \in 1..MaxWorks, NEW first, NEW xs
    PROVE  [y \in Servers |-> IF y \in xs THEN Ahead(down[y], id, first) ELSE down[y]] \in Queues
<1>1. BlockMsg(id) \in NetMsg
  BY Messages
<1>2. <<BlockMsg(id)>> \in Seq(NetMsg)
  <2>1. \A m \in NetMsg : <<m>> \in Seq(NetMsg)
    OBVIOUS
  <2> QED
    BY <1>1, <2>1, Zenon
<1>3. ASSUME NEW y \in Servers PROVE Ahead(down[y], id, first) \in Seq(NetMsg) /\ down[y] \in Seq(NetMsg)
  <2>1. down[y] \in Seq(NetMsg)
    BY DEF TxnTypes
  <2>2. <<BlockMsg(id)>> \o down[y] \in Seq(NetMsg) /\ Append(down[y], BlockMsg(id)) \in Seq(NetMsg)
    BY <1>1, <1>2, <2>1, ConcatProperties, AppendProperties
  <2> QED
    BY <2>1, <2>2 DEF Ahead
<1> QED
  BY <1>3 DEF Queues

LEMMA ToldTyped ==
    ASSUME TxnTypes, NEW id \in 1..MaxWorks, NEW xs, Told(xs, id)
    PROVE  heard' \in [Servers -> Seq(1..MaxWorks)]
<1>1. \A x \in Servers : heard[x] \in Seq(1..MaxWorks) /\ Append(heard[x], id) \in Seq(1..MaxWorks)
  BY AppendProperties DEF TxnTypes
<1> QED
  BY <1>1 DEF Told

LEMMA SolveBlockTypes ==
    ASSUME TxnTypes, NEW x \in Servers, NEW id \in DOMAIN works, NEW via \in Servers,
           NEW first \in BOOLEAN, SolveBlock(x, via, id, first)
    PROVE  TxnTypes'
<1>1. id \in 1..MaxWorks /\ works[id] \in Work
  BY WorkTyped
<1>2. x \in {Pool} \union Remotes
  BY <1>1 DEF SolveBlock, Work
<1>3. [id |-> id, at |-> x, via |-> via] \in Block
  BY <1>1, <1>2 DEF Block
<1>4. heard' \in [Servers -> Seq(1..MaxWorks)]
  BY <1>1, ToldTyped DEF SolveBlock
<1>5. BlockTyped'
  BY <1>3, <1>4 DEF SolveBlock, BlockTyped, TxnTypes
<1>6. down' \in Queues /\ upstream' \in Queues
  <2>1. BlockMsg(id) \in NetMsg /\ down \in Queues /\ upstream \in Queues
    BY <1>1, Messages DEF TxnTypes, Queues
  <2>2. [upstream EXCEPT ![x] = Append(@, BlockMsg(id))] \in Queues
    BY <2>1, AppendedAt
  <2>3. CASE x = Pool
    <3>1. /\ UNCHANGED upstream
          /\ down' = [y \in Servers |-> IF y \in NodesBut(via) \union Others(x)
                                        THEN Ahead(down[y], id, first) ELSE down[y]]
      BY <2>3 DEF SolveBlock
    <3> QED
      BY <1>1, <2>1, <3>1, AheadTyped
  <2>4. CASE x # Pool
    BY <2>1, <2>2, <2>4 DEF SolveBlock
  <2> QED
    BY <2>3, <2>4
<1>7. NetTyped' /\ TableTyped'
  BY <1>6 DEF SolveBlock, NetTyped, TableTyped, TxnTypes, netVars
<1> QED
  BY <1>5, <1>7 DEF TxnTypes, NetTyped, TableTyped, BlockTyped, Queues

LEMMA PoolReadBlockTypes ==
    ASSUME TxnTypes, NEW x \in Servers, NEW id \in DOMAIN works, NEW first \in BOOLEAN,
           PoolReadBlock(x, id, first)
    PROVE  TxnTypes'
<1>1. id \in 1..MaxWorks
  BY WorkTyped
<1>2. down' \in Queues /\ upstream' \in Queues
  <2> DEFINE to == Others(x) \union IF HasWhole(Pool, id) THEN NodesBut(x) ELSE {}
  <2>1. down' = [y \in Servers |-> IF y \in to THEN Ahead(down[y], id, first) ELSE down[y]]
    BY DEF PoolReadBlock
  <2>2. upstream[x] # <<>> /\ upstream' = ReadUp(x)
    BY DEF PoolReadBlock, PoolReading
  <2> HIDE DEF to
  <2> QED
    BY <1>1, <2>1, <2>2, AheadTyped, ReadTyped
<1>3. heard' \in [Servers -> Seq(1..MaxWorks)]
  BY <1>1, ToldTyped DEF PoolReadBlock
<1>4. NetTyped' /\ TableTyped' /\ BlockTyped'
  BY <1>2, <1>3 DEF PoolReadBlock, NetTyped, TableTyped, BlockTyped, TxnTypes, netVars
<1> QED
  BY <1>4 DEF TxnTypes, NetTyped, TableTyped, BlockTyped, Queues

LEMMA ReadBlockTypes ==
    ASSUME TxnTypes, NEW x \in Servers, NEW id \in DOMAIN works, ReadBlock(x, id)
    PROVE  TxnTypes'
<1>1. down' \in Queues
  BY ReadTyped DEF ReadBlock, Reading
<1>2. NetTyped' /\ TableTyped' /\ BlockTyped'
  BY <1>1 DEF ReadBlock, NetTyped, TableTyped, BlockTyped, TxnTypes, netVars, blockVars, Queues
<1> QED
  BY <1>2 DEF TxnTypes, NetTyped, TableTyped, BlockTyped, Queues

LEMMA TypesInit == TxnInit => TxnTypes
<1> SUFFICES ASSUME TxnInit PROVE TxnTypes
  OBVIOUS
<1>1. <<>> \in Seq(NetMsg) /\ <<>> \in Seq(Work) /\ <<>> \in Seq(1..MaxWorks) /\ Len(<<>>) = 0
  OBVIOUS
<1>2. <<>> \in Tables
  <2>1. <<>> \in [{} -> Row]
    OBVIOUS
  <2> QED
    BY <2>1, TableMade
<1>3. Len(works) <= MaxWorks
  BY <1>1, Sets DEF TxnInit
<1>4. table \in [Servers -> Tables] /\ adding \in [Servers -> [Threads -> SUBSET Txns]]
  BY <1>2 DEF TxnInit
<1>5. down \in [Servers -> Seq(NetMsg)] /\ upstream \in [Servers -> Seq(NetMsg)]
  BY <1>1 DEF TxnInit
<1> QED
  BY <1>1, <1>3, <1>4, <1>5 DEF TxnInit, TxnTypes

LEMMA TypesNext == TxnTypes /\ Links /\ [TxnNext]_txnVars => TxnTypes'
<1> SUFFICES ASSUME TxnTypes, Links, [TxnNext]_txnVars PROVE TxnTypes'
  OBVIOUS
<1>1. CASE UNCHANGED txnVars
  BY <1>1 DEF txnVars, TxnTypes
<1>2. ASSUME NEW x \in Servers, NEW txns \in Templates, NewTemplate(x, txns) PROVE TxnTypes'
  BY <1>2, NewTemplateTypes
<1>3. ASSUME NEW x \in Servers, NEW t \in Threads, UpdateTable(x, t) PROVE TxnTypes'
  BY <1>3, UpdateTableTypes
<1>4. ASSUME NEW x \in Servers,
             Join(x) \/ SendAll(x) \/ NodeLost(x) \/ ReadTxns(x) \/ ReadRequest(x)
      PROVE  TxnTypes'
  BY <1>4, JoinTypes, SendAllTypes, NodeLostTypes, ReadTxnsTypes, ReadRequestTypes
<1>5. ASSUME NEW x \in Servers, NEW id \in DOMAIN works, NEW got \in Answered(x, id),
             ReadWork(x, id, got)
      PROVE  TxnTypes'
  BY <1>5, ReadWorkTypes
<1>6. ASSUME NEW x \in Servers, NEW id \in DOMAIN works, NEW got \in Answered(Pool, id),
             PoolReadWork(x, id, got)
      PROVE  TxnTypes'
  BY <1>6, PoolReadWorkTypes
<1>7. ASSUME NEW x \in Servers, NEW id \in DOMAIN works, NEW via \in Servers,
             NEW first \in BOOLEAN, SolveBlock(x, via, id, first)
      PROVE  TxnTypes'
  BY <1>7, SolveBlockTypes
<1>8. ASSUME NEW x \in Servers, NEW id \in DOMAIN works, NEW first \in BOOLEAN,
             PoolReadBlock(x, id, first)
      PROVE  TxnTypes'
  BY <1>8, PoolReadBlockTypes
<1>9. ASSUME NEW x \in Servers, NEW id \in DOMAIN works, ReadBlock(x, id) PROVE TxnTypes'
  BY <1>9, ReadBlockTypes
<1> QED
  BY <1>1, <1>2, <1>3, <1>4, <1>5, <1>6, <1>7, <1>8, <1>9 DEF TxnNext

LEMMA LinksInit == TxnInit => Links
BY Sets DEF TxnInit, Links

\* Links is kept when messages go only to those that are listed, and from those.
LEMMA LinksKept ==
    ASSUME Links, TxnTypes,
           \A y \in Servers : upstream'[y] # <<>> =>
              upstream[y] # <<>> \/ (y \in Remotes /\ y \in listed),
           \A y \in Servers : down'[y] # <<>> => (down[y] # <<>> /\ y \in listed') \/ y \in listed',
           \A y \in Remotes : y \in listed => y \in listed',
           \A y \in Remotes : \A t \in Threads :
              adding'[y][t] # {} => adding[y][t] # {} \/ y \in listed,
           \A y \in Nodes : adding'[y]["gbt"] # {} => adding[y]["gbt"] # {},
           adding'[Pool]["recv"] # {} =>
              adding[Pool]["recv"] # {} \/ \E y \in Remotes : y \in listed,
           \A i \in DOMAIN works' : works'[i].at = Pool
              \/ (works'[i].at \in Remotes /\ works'[i].at \in listed)
    PROVE  Links'
<1>1. \A y \in Servers : upstream'[y] # <<>> => y \in Remotes /\ y \in listed'
  BY DEF Links
<1>2. \A i \in DOMAIN works' : works'[i].at = Pool \/ works'[i].at \in listed'
  OBVIOUS
<1>3. \A y \in Nodes : adding'[y]["gbt"] = {}
  BY DEF Links
<1>4. \A y \in Remotes : \A t \in Threads : adding'[y][t] # {} => y \in listed'
  BY DEF Links
<1>5. adding'[Pool]["recv"] # {} => Remotes \intersect listed' # {}
  BY DEF Links
<1> QED
  BY <1>1, <1>2, <1>3, <1>4, <1>5 DEF Links

\* Where works come from.
LEMMA WorksFrom ==
    ASSUME TxnTypes, Links
    PROVE  \A i \in DOMAIN works : works[i].at = Pool \/ (works[i].at \in Remotes /\ works[i].at \in listed)
<1>1. \A i \in DOMAIN works : works[i].at \in {Pool} \union Remotes
  BY WorkTyped DEF Work
<1>2. Pool \notin listed
  BY DEF TxnTypes
<1> QED
  BY <1>1, <1>2 DEF Links

\* Publishing goes to those that are listed, or from a remote server that is.
LEMMA PublishLinks ==
    ASSUME TxnTypes, NEW x \in Servers, NEW msg, Publish(x, msg),
           x \in Remotes => x \in listed
    PROVE  /\ \A y \in Servers : upstream'[y] # <<>> =>
                upstream[y] # <<>> \/ (y \in Remotes /\ y \in listed)
           /\ \A y \in Servers : down'[y] # <<>> => down[y] # <<>> \/ y \in listed
<1>1. CASE x = Pool
  <2>1. UNCHANGED upstream /\ down' = [y \in Servers |-> IF y \in listed THEN Append(down[y], msg) ELSE down[y]]
    BY <1>1 DEF Publish, ToAll
  <2> QED
    BY <2>1
<1>2. CASE x # Pool
  <2>1. /\ UNCHANGED down
        /\ upstream' = IF x \in Remotes THEN [upstream EXCEPT ![x] = Append(@, msg)] ELSE upstream
    BY <1>2 DEF Publish
  <2> QED
    BY <2>1 DEF TxnTypes
<1> QED
  BY <1>1, <1>2

LEMMA LinksNext == TxnTypes /\ Links /\ [TxnNext]_txnVars => Links'
<1> SUFFICES ASSUME TxnTypes, Links, [TxnNext]_txnVars PROVE Links'
  OBVIOUS
<1> USE Sets
<1>20. /\ down \in [Servers -> Seq(NetMsg)] /\ upstream \in [Servers -> Seq(NetMsg)]
      /\ adding \in [Servers -> [Threads -> SUBSET Txns]]
      /\ \A y \in Servers : (down[y] # <<>> => y \in listed)
      /\ \A z \in Servers : (upstream[z] # <<>> => z \in Remotes /\ z \in listed)
  BY DEF TxnTypes, Links
<1>21. \A i \in DOMAIN works : works[i].at = Pool
                                \/ (works[i].at \in Remotes /\ works[i].at \in listed)
  BY WorksFrom
<1>1. CASE UNCHANGED txnVars
  BY <1>1 DEF txnVars, Links
<1>2. ASSUME NEW x \in Servers, NEW txns \in Templates, NewTemplate(x, txns) PROVE Links'
  <2> DEFINE msg == [t |-> "work", id |-> Len(works) + 1]
  <2>1. /\ works' = Append(works, [at |-> x, txns |-> txns])
        /\ adding' = [adding EXCEPT ![x]["gbt"] = NewTxns(table[x], txns)]
        /\ Publish(x, msg) /\ UNCHANGED listed
        /\ x = Pool \/ (x \in Remotes /\ x \in listed)
    BY <1>2 DEF NewTemplate, netVars
  <2> HIDE DEF msg
  <2>2. /\ \A y \in Servers : upstream'[y] # <<>> =>
             upstream[y] # <<>> \/ (y \in Remotes /\ y \in listed)
        /\ \A y \in Servers : down'[y] # <<>> => down[y] # <<>> \/ y \in listed
    BY <2>1, PublishLinks
  <2>3. \A i \in DOMAIN works' : works'[i].at = Pool
                                   \/ (works'[i].at \in Remotes /\ works'[i].at \in listed)
    <3>1. works \in Seq(Work)
      BY DEF TxnTypes
    <3>2. /\ \A i \in 1..Len(works) : works'[i] = works[i]
          /\ works'[Len(works) + 1] = [at |-> x, txns |-> txns]
          /\ DOMAIN works' = 1..(Len(works) + 1) /\ DOMAIN works = 1..Len(works) /\ Len(works) \in Nat
      BY <2>1, <3>1, AppendProperties
    <3>3. \A i \in 1..(Len(works) + 1) : i \in 1..Len(works) \/ i = Len(works) + 1
      BY <3>2
    <3> QED
      BY <3>2, <3>3, <2>1, <1>21
  <2>4. \A y \in Servers : \A t \in Threads :
          (y # x \/ t = "recv") => adding'[y][t] = adding[y][t]
    BY <2>1, <1>20
  <2> QED
    BY <2>1, <2>2, <2>3, <2>4, <1>20, LinksKept
<1>3. ASSUME NEW x \in Servers, NEW t \in Threads, UpdateTable(x, t) PROVE Links'
  <2> DEFINE msg == TxnsMsg(adding[x][t])
  <2>1. /\ adding[x][t] # {} /\ adding' = [adding EXCEPT ![x][t] = {}]
        /\ Publish(x, msg) \/ UNCHANGED <<down, upstream>>
        /\ UNCHANGED <<listed, works>>
    BY <1>3 DEF UpdateTable, netVars
  <2> HIDE DEF msg
  <2>2. x \in Remotes => x \in listed
    BY <2>1 DEF Links
  <2>3. /\ \A y \in Servers : upstream'[y] # <<>> =>
             upstream[y] # <<>> \/ (y \in Remotes /\ y \in listed)
        /\ \A y \in Servers : down'[y] # <<>> => down[y] # <<>> \/ y \in listed
    BY <2>1, <2>2, PublishLinks
  <2>4. \A y \in Servers : \A u \in Threads : adding'[y][u] # {} => adding[y][u] # {}
    BY <2>1, <1>20
  <2> QED
    BY <2>1, <2>3, <2>4, <1>20, <1>21, LinksKept
<1>4. ASSUME NEW x \in Servers, Join(x) PROVE Links'
  BY <1>4, <1>20, <1>21, LinksKept DEF Join
<1>5. ASSUME NEW x \in Servers, SendAll(x) PROVE Links'
  <2>1. /\ x \in listed /\ UNCHANGED <<adding, upstream, listed, works>>
        /\ \A y \in Servers : y # x => down'[y] = down[y]
    BY <1>5, <1>20 DEF SendAll
  <2> QED
    BY <2>1, <1>20, <1>21, LinksKept
<1>6. ASSUME NEW x \in Servers, NodeLost(x) PROVE Links'
  <2>1. /\ x \in Nodes /\ listed' = listed \ {x} /\ UNCHANGED <<adding, upstream, works>>
        /\ down'[x] = <<>> /\ \A y \in Servers : y # x => down'[y] = down[y]
    BY <1>6, <1>20 DEF NodeLost
  <2>2. \A y \in Remotes : y # x
    BY <2>1
  <2> QED
    BY <2>1, <2>2, <1>20, <1>21, LinksKept
<1>7. ASSUME NEW x \in Servers, ReadTxns(x) PROVE Links'
  <2>1. ASSUME NEW txns \in SUBSET Txns, Reading(x, TxnsMsg(txns)), AddNodeTxns(x, txns),
               down' = ReadDown(x), UNCHANGED upstream
        PROVE  Links'
    <3>1. /\ x # Pool /\ x \in listed /\ UNCHANGED <<listed, works>>
          /\ adding' = [adding EXCEPT ![x]["recv"] = NewTxns(table[x], txns)]
      BY <2>1, <1>20 DEF Reading, AddNodeTxns, netVars
    <3>2. \A y \in Servers : y # x => down'[y] = down[y]
      BY <2>1, <1>20 DEF ReadDown
    <3>3. \A y \in Servers : \A u \in Threads : (y # x \/ u = "gbt") => adding'[y][u] = adding[y][u]
      BY <3>1, <1>20
    <3> QED
      BY <2>1, <3>1, <3>2, <3>3, <1>20, <1>21, LinksKept
  <2>2. ASSUME NEW txns \in SUBSET Txns, PoolReading(x, TxnsMsg(txns)), AddNodeTxns(Pool, txns),
               upstream' = ReadUp(x), UNCHANGED down
        PROVE  Links'
    <3>1. /\ x \in Remotes /\ x \in listed /\ UNCHANGED <<listed, works>>
          /\ adding' = [adding EXCEPT ![Pool]["recv"] = NewTxns(table[Pool], txns)]
      BY <2>2, <1>20 DEF PoolReading, AddNodeTxns, netVars
    <3>2. \A y \in Servers : y # x => upstream'[y] = upstream[y]
      BY <2>2, <1>20 DEF ReadUp
    <3>3. \A y \in Servers : y # Pool => adding'[y] = adding[y]
      BY <3>1, <1>20
    <3> QED
      BY <2>2, <3>1, <3>2, <3>3, <1>20, <1>21, LinksKept
  <2> QED
    BY <1>7, <2>1, <2>2 DEF ReadTxns
<1>8. ASSUME NEW x \in Servers, ReadRequest(x) PROVE Links'
  <2>1. PICK txns \in SUBSET Txns :
        LET msg == [t |-> "req", txns |-> txns]
        IN  /\ \/ /\ Reading(x, msg) /\ x \in Remotes
                  /\ down' = ReadDown(x)
                  /\ upstream' = [upstream EXCEPT ![x] = @ \o Reply(x, txns)]
               \/ /\ PoolReading(x, msg)
                  /\ upstream' = ReadUp(x)
                  /\ down' = [down EXCEPT ![x] = @ \o Reply(Pool, txns)]
            /\ UNCHANGED <<table, adding, netVars, works, bases, blockVars>>
    BY <1>8 DEF ReadRequest
  <2>2. x \in Remotes /\ x \in listed
    BY <2>1, <1>20 DEF Reading, PoolReading
  <2>3. /\ \A y \in Servers : y # x => down'[y] = down[y] /\ upstream'[y] = upstream[y]
        /\ UNCHANGED <<listed, works, adding>>
    BY <2>1, <1>20 DEF ReadDown, ReadUp, netVars
  <2> QED
    BY <2>2, <2>3, <1>20, <1>21, LinksKept
<1>9. ASSUME NEW x \in Servers, NEW id \in DOMAIN works, NEW got \in Answered(x, id),
             ReadWork(x, id, got)
      PROVE  Links'
  <2>1. x \in listed /\ UNCHANGED <<listed, works, adding>>
    BY <1>9, <1>20 DEF ReadWork, Reading, AddNodeBase, netVars
  <2>2. /\ \A y \in Servers : y # x => down'[y] = down[y]
        /\ \A y \in Servers : y # x \/ x \notin Remotes => upstream'[y] = upstream[y]
    BY <1>9, <1>20 DEF ReadWork, ReadDown
  <2> QED
    BY <2>1, <2>2, <1>20, <1>21, LinksKept
<1>10. ASSUME NEW x \in Servers, NEW id \in DOMAIN works, NEW got \in Answered(Pool, id),
              PoolReadWork(x, id, got)
       PROVE  Links'
  <2>1. x \in Remotes /\ x \in listed /\ UNCHANGED <<listed, works, adding>>
    BY <1>10, <1>20 DEF PoolReadWork, PoolReading, AddNodeBase, netVars
  <2>2. \A y \in Servers : y # x => upstream'[y] = upstream[y]
    BY <1>10, <1>20 DEF PoolReadWork, ReadUp
  <2>3. ASSUME NEW y \in Servers, y \notin listed PROVE down'[y] = <<>>
    <3>1. down'[y] = down[y] \o <<>> \o <<>>
      BY <1>10, <2>3 DEF PoolReadWork
    <3>2. down[y] = <<>> /\ <<>> \o <<>> = <<>>
      BY <1>20, <2>3
    <3> QED
      BY <3>1, <3>2
  <2> QED
    BY <2>1, <2>2, <2>3, <1>20, <1>21, LinksKept
<1>11. ASSUME NEW x \in Servers, NEW id \in DOMAIN works, NEW via \in Servers,
              NEW first \in BOOLEAN, SolveBlock(x, via, id, first)
       PROVE  Links'
  <2>1. UNCHANGED <<listed, works, adding>> /\ works[id].at = x
    BY <1>11 DEF SolveBlock, netVars
  <2>2. CASE x = Pool
    <3>1. /\ UNCHANGED upstream
          /\ down' = [y \in Servers |-> IF y \in NodesBut(via) \union Others(x)
                                        THEN Ahead(down[y], id, first) ELSE down[y]]
      BY <1>11, <2>2 DEF SolveBlock
    <3>2. \A y \in Servers : y \notin listed => down'[y] = down[y]
      BY <3>1 DEF NodesBut, Others
    <3> QED
      BY <2>1, <3>1, <3>2, <1>20, <1>21, LinksKept
  <2>3. CASE x # Pool
    <3>1. UNCHANGED down /\ upstream' = [upstream EXCEPT ![x] = Append(@, BlockMsg(id))]
      BY <1>11, <2>3 DEF SolveBlock
    <3>2. x \in Remotes /\ x \in listed
      BY <2>1, <2>3, <1>21
    <3>3. \A y \in Servers : y # x => upstream'[y] = upstream[y]
      BY <3>1, <1>20
    <3> QED
      BY <2>1, <3>1, <3>2, <3>3, <1>20, <1>21, LinksKept
  <2> QED
    BY <2>2, <2>3
<1>12. ASSUME NEW x \in Servers, NEW id \in DOMAIN works, NEW first \in BOOLEAN,
              PoolReadBlock(x, id, first)
       PROVE  Links'
  <2> DEFINE to == Others(x) \union IF HasWhole(Pool, id) THEN NodesBut(x) ELSE {}
  <2>1. /\ UNCHANGED <<listed, works, adding>> /\ upstream' = ReadUp(x) /\ upstream[x] # <<>>
        /\ down' = [y \in Servers |-> IF y \in to THEN Ahead(down[y], id, first) ELSE down[y]]
    BY <1>12 DEF PoolReadBlock, PoolReading, netVars
  <2>2. \A y \in Servers : y \notin listed => down'[y] = down[y]
    BY <2>1 DEF NodesBut, Others
  <2>3. \A y \in Servers : y # x => upstream'[y] = upstream[y]
    BY <2>1, <1>20 DEF ReadUp
  <2> QED
    BY <2>1, <2>2, <2>3, <1>20, <1>21, LinksKept
<1>13. ASSUME NEW x \in Servers, NEW id \in DOMAIN works, ReadBlock(x, id) PROVE Links'
  <2>1. /\ UNCHANGED <<listed, works, adding, upstream>> /\ down[x] # <<>>
        /\ \A y \in Servers : y # x => down'[y] = down[y]
    BY <1>13, <1>20 DEF ReadBlock, Reading, ReadDown, netVars
  <2> QED
    BY <2>1, <1>20, <1>21, LinksKept
<1> QED
  BY <1>1, <1>2, <1>3, <1>4, <1>5, <1>6, <1>7, <1>8, <1>9, <1>10, <1>11, <1>12, <1>13 DEF TxnNext

-----------------------------------------------------------------------------
(* Blocks.                                                                   *)

\* A block is in a queue, and in it once.
InQueue(q, id) == \E i \in DOMAIN q : q[i].t = "block" /\ q[i].id = id
Once(q) ==
    \A i, j \in DOMAIN q :
        i # j /\ q[i].t = "block" /\ q[j].t = "block" => q[i].id # q[j].id

\* Told of a block, and not twice.
Knows(s, id) == \E i \in DOMAIN s : s[i] = id
NoneTwice(s) == \A i, j \in DOMAIN s : i # j => s[i] # s[j]

\* The pool alone has been told of a block that is on its way to it; nobody has
\* been told of one who has found it.
Blocks ==
    /\ \A b, c \in solved : b.id = c.id => b = c
    /\ \A b \in solved : b.via = b.at \/ (b.at = Pool /\ b.via \in Nodes)
    /\ \A x \in Servers : Once(upstream[x])
    /\ \A x \in Servers : \A id \in 1..MaxWorks : InQueue(upstream[x], id) =>
          /\ \E b \in solved : b.id = id /\ b.at = x
          /\ \A y \in Servers : y # Pool => ~ Knows(heard[y], id)
    /\ \A y \in Servers : NoneTwice(heard[y])
    /\ \A y \in Servers : \A id \in 1..MaxWorks : Knows(heard[y], id) =>
          \E b \in solved : b.id = id /\ y # b.at /\ y # b.via

\* Queue r has no block that q does not have.
NoNewBlock(q, r) ==
    /\ Once(q) => Once(r)
    /\ \A id \in 1..MaxWorks : InQueue(r, id) => InQueue(q, id)

LEMMA QueueAppend ==
    ASSUME NEW q \in Seq(NetMsg), NEW m \in NetMsg
    PROVE  /\ m.t # "block" => NoNewBlock(q, Append(q, m))
           /\ \A id : m.t = "block" /\ m.id = id =>
                /\ Once(q) /\ ~ InQueue(q, id) => Once(Append(q, m))
                /\ \A k \in 1..MaxWorks : InQueue(Append(q, m), k) => InQueue(q, k) \/ k = id
<1> DEFINE r == Append(q, m)
<1>1. /\ Len(q) \in Nat /\ DOMAIN q = 1..Len(q) /\ DOMAIN r = 1..(Len(q) + 1)
      /\ r[Len(q) + 1] = m /\ \A i \in 1..Len(q) : r[i] = q[i]
  BY AppendProperties
<1> HIDE DEF r
<1>2. \A i \in DOMAIN r : (i \in DOMAIN q /\ r[i] = q[i]) \/ (i = Len(q) + 1 /\ r[i] = m)
  BY <1>1
<1>3. m.t # "block" => NoNewBlock(q, r)
  BY <1>2 DEF NoNewBlock, Once, InQueue
<1>4. ASSUME NEW id, m.t = "block", m.id = id
      PROVE  /\ Once(q) /\ ~ InQueue(q, id) => Once(r)
             /\ \A k \in 1..MaxWorks : InQueue(r, k) => InQueue(q, k) \/ k = id
  BY <1>2, <1>4 DEF Once, InQueue
<1> QED
  BY <1>3, <1>4 DEF r

LEMMA QueueTail ==
    ASSUME NEW q \in Seq(NetMsg), q # <<>>
    PROVE  /\ NoNewBlock(q, Tail(q))
           /\ \A id : Once(q) /\ Head(q).t = "block" /\ Head(q).id = id => ~ InQueue(Tail(q), id)
           /\ \A id : Head(q).t = "block" /\ Head(q).id = id => InQueue(q, id)
<1> DEFINE r == Tail(q)
<1>1. /\ Len(q) \in Nat /\ Len(q) > 0 /\ DOMAIN q = 1..Len(q) /\ DOMAIN r = 1..(Len(q) - 1)
      /\ \A i \in 1..(Len(q) - 1) : r[i] = q[i + 1]
      /\ Head(q) = q[1]
  BY HeadTailProperties
<1> HIDE DEF r
<1>2. /\ \A i \in DOMAIN r : r[i] = q[i + 1] /\ i + 1 \in DOMAIN q /\ i + 1 # 1
      /\ \A i, j \in DOMAIN r : i # j => i + 1 # j + 1
      /\ 1 \in DOMAIN q
  BY <1>1
<1>3. Once(q) => Once(r)
  BY <1>2 DEF Once
<1>4. \A id : InQueue(r, id) => InQueue(q, id)
  BY <1>2 DEF InQueue
<1>5. \A id : Once(q) /\ q[1].t = "block" /\ q[1].id = id => ~ InQueue(r, id)
  BY <1>2 DEF Once, InQueue
<1>6. \A id : q[1].t = "block" /\ q[1].id = id => InQueue(q, id)
  BY <1>2 DEF InQueue
<1> QED
  BY <1>1, <1>3, <1>4, <1>5, <1>6 DEF NoNewBlock, r

LEMMA QueueReply ==
    ASSUME TxnTypes, NEW q \in Seq(NetMsg), NEW x \in Servers, NEW txns \in SUBSET Txns
    PROVE  NoNewBlock(q, q \o Reply(x, txns))
<1> DEFINE found == txns \intersect DOMAIN table[x]
<1>1. CASE found = {}
  <2>1. Reply(x, txns) = <<>>
    BY <1>1 DEF Reply
  <2>2. q \o <<>> = q
    BY ConcatEmptySeq
  <2> QED
    BY <2>1, <2>2 DEF NoNewBlock
<1>2. CASE found # {}
  <2>1. Reply(x, txns) = <<TxnsMsg(found)>>
    BY <1>2 DEF Reply
  <2>2. found \in SUBSET Txns
    OBVIOUS
  <2>3. TxnsMsg(found) \in NetMsg /\ TxnsMsg(found).t # "block"
    BY <2>2, Messages DEF TxnsMsg
  <2> DEFINE m == TxnsMsg(found)
  <2> HIDE DEF m, found
  <2>4. q \o <<m>> = Append(q, m)
    BY <2>3, AppendIsConcat DEF m
  <2> QED
    BY <2>1, <2>3, <2>4, QueueAppend DEF m
<1> QED
  BY <1>1, <1>2

LEMMA NoNewSame == \A q : NoNewBlock(q, q)
BY DEF NoNewBlock

LEMMA BlocksQuiet ==
    ASSUME Blocks, UNCHANGED blockVars,
           \A x \in Servers : NoNewBlock(upstream[x], upstream'[x])
    PROVE  Blocks'
<1>1. solved' = solved /\ heard' = heard
  BY DEF blockVars
<1>2. \A x \in Servers : Once(upstream'[x])
  BY DEF Blocks, NoNewBlock
<1>3. \A x \in Servers : \A id \in 1..MaxWorks : InQueue(upstream'[x], id) => InQueue(upstream[x], id)
  BY DEF NoNewBlock
<1> QED
  BY <1>1, <1>2, <1>3 DEF Blocks

\* Publishing, and reading, brings no new block to the pool.
LEMMA PublishQuiet ==
    ASSUME TxnTypes, NEW x \in Servers, NEW msg \in NetMsg, msg.t # "block", Publish(x, msg)
    PROVE  \A y \in Servers : NoNewBlock(upstream[y], upstream'[y])
<1>1. upstream \in [Servers -> Seq(NetMsg)]
  BY DEF TxnTypes
<1>2. NoNewBlock(upstream[x], Append(upstream[x], msg))
  BY <1>1, QueueAppend
<1>3. upstream' = upstream \/ upstream' = [upstream EXCEPT ![x] = Append(@, msg)]
  BY DEF Publish
<1> QED
  BY <1>1, <1>2, <1>3, NoNewSame

LEMMA ReadUpQuiet ==
    ASSUME TxnTypes, NEW x \in Servers, upstream[x] # <<>>, upstream' = ReadUp(x)
    PROVE  \A y \in Servers : NoNewBlock(upstream[y], upstream'[y])
<1>1. upstream \in [Servers -> Seq(NetMsg)]
  BY DEF TxnTypes
<1>2. NoNewBlock(upstream[x], Tail(upstream[x]))
  BY <1>1, QueueTail
<1> QED
  BY <1>1, <1>2, NoNewSame DEF ReadUp

LEMMA NoneTwiceMore ==
    ASSUME NEW s \in Seq(1..MaxWorks), NEW id \in 1..MaxWorks
    PROVE  /\ \A k \in 1..MaxWorks : Knows(Append(s, id), k) <=> Knows(s, k) \/ k = id
           /\ NoneTwice(s) /\ ~ Knows(s, id) => NoneTwice(Append(s, id))
<1> DEFINE r == Append(s, id)
<1>1. /\ Len(s) \in Nat /\ DOMAIN s = 1..Len(s) /\ DOMAIN r = 1..(Len(s) + 1)
      /\ r[Len(s) + 1] = id /\ \A i \in 1..Len(s) : r[i] = s[i]
  BY AppendProperties
<1> HIDE DEF r
<1>2. \A i \in DOMAIN r : (i \in DOMAIN s /\ r[i] = s[i]) \/ (i = Len(s) + 1 /\ r[i] = id)
  BY <1>1
<1>3. (\A i \in DOMAIN s : i \in DOMAIN r /\ r[i] = s[i]) /\ Len(s) + 1 \in DOMAIN r
  BY <1>1
<1>4. \A k \in 1..MaxWorks : Knows(r, k) <=> Knows(s, k) \/ k = id
  BY <1>1, <1>2, <1>3 DEF Knows
<1>5. NoneTwice(s) /\ ~ Knows(s, id) => NoneTwice(r)
  BY <1>2 DEF NoneTwice, Knows
<1> QED
  BY <1>4, <1>5 DEF r

LEMMA BlocksInit == TxnInit => Blocks
<1> SUFFICES ASSUME TxnInit PROVE Blocks
  OBVIOUS
<1>1. DOMAIN <<>> = {}
  OBVIOUS
<1>2. \A x \in Servers : upstream[x] = <<>> /\ heard[x] = <<>>
  BY DEF TxnInit
<1>3. solved = {}
  BY DEF TxnInit
<1>4. Once(<<>>) /\ NoneTwice(<<>>) /\ \A id : ~ InQueue(<<>>, id) /\ ~ Knows(<<>>, id)
  BY <1>1 DEF Once, NoneTwice, InQueue, Knows
<1> QED
  BY <1>2, <1>3, <1>4 DEF Blocks

\* Somebody who has not is told of block id.
LEMMA ToldOnce ==
    ASSUME TxnTypes, NEW id \in 1..MaxWorks, NEW xs, Told(xs, id),
           \A y \in Servers : NoneTwice(heard[y]),
           \A y \in Servers : y \in xs => ~ Knows(heard[y], id)
    PROVE  /\ \A y \in Servers : NoneTwice(heard'[y])
           /\ \A y \in Servers : \A k \in 1..MaxWorks :
                Knows(heard'[y], k) <=> Knows(heard[y], k) \/ (y \in xs /\ k = id)
<1> SUFFICES ASSUME NEW y \in Servers
             PROVE  /\ NoneTwice(heard'[y])
                    /\ \A k \in 1..MaxWorks :
                         Knows(heard'[y], k) <=> Knows(heard[y], k) \/ (y \in xs /\ k = id)
  OBVIOUS
<1>1. heard[y] \in Seq(1..MaxWorks)
  BY DEF TxnTypes
<1>2. heard'[y] = IF y \in xs THEN Append(heard[y], id) ELSE heard[y]
  BY DEF Told
<1>3. CASE y \in xs
  BY <1>1, <1>2, <1>3, NoneTwiceMore
<1>4. CASE y \notin xs
  BY <1>2, <1>4
<1> QED
  BY <1>3, <1>4

LEMMA SolveBlocks ==
    ASSUME TxnTypes, Links, Blocks, NEW x \in Servers, NEW id \in DOMAIN works,
           NEW via \in Servers, NEW first \in BOOLEAN, SolveBlock(x, via, id, first)
    PROVE  Blocks'
<1> USE Sets
<1> DEFINE new == [id |-> id, at |-> x, via |-> via]
           xs == IF x = Pool THEN NodesBut(via) \union Others(x) ELSE {Pool}
<1>1. /\ \A b \in solved : b.id # id
      /\ solved' = solved \union {new} /\ Told(xs, id)
      /\ via = x \/ (x = Pool /\ via \in Nodes)
      /\ x = Pool => UNCHANGED upstream
      /\ x # Pool => upstream' = [upstream EXCEPT ![x] = Append(@, BlockMsg(id))]
  BY DEF SolveBlock
<1>2. id \in 1..MaxWorks /\ (x = Pool \/ x \in Remotes)
  BY WorkTyped, WorksFrom DEF SolveBlock
<1>3. \A y \in Servers : ~ Knows(heard[y], id)
  BY <1>1, <1>2 DEF Blocks
<1>4. \A y \in Servers : ~ InQueue(upstream[y], id)
  BY <1>1, <1>2 DEF Blocks
<1>5. \A y \in Servers : y \in xs => y # x /\ y # via
  BY <1>1, <1>2 DEF NodesBut, Others
<1> HIDE DEF xs
<1>6. /\ \A y \in Servers : NoneTwice(heard'[y])
      /\ \A y \in Servers : \A k \in 1..MaxWorks :
           Knows(heard'[y], k) <=> (Knows(heard[y], k) \/ (y \in xs /\ k = id))
  BY <1>1, <1>2, <1>3, ToldOnce DEF Blocks
<1>7. /\ new \in solved' /\ new.id = id /\ new.at = x /\ new.via = via
      /\ \A b \in solved' : b \in solved \/ b = new
      /\ \A b \in solved : b \in solved'
  BY <1>1
<1> HIDE DEF new
<1>8. \A b, c \in solved' : b.id = c.id => b = c
  BY <1>1, <1>7 DEF Blocks
<1>9. \A b \in solved' : b.via = b.at \/ (b.at = Pool /\ b.via \in Nodes)
  BY <1>1, <1>7 DEF Blocks
<1>10. ASSUME NEW y \in Servers
       PROVE  /\ Once(upstream'[y])
              /\ \A k \in 1..MaxWorks : InQueue(upstream'[y], k) =>
                   InQueue(upstream[y], k) \/ (y = x /\ x # Pool /\ k = id)
  <2>1. upstream \in [Servers -> Seq(NetMsg)] /\ BlockMsg(id) \in NetMsg
        /\ BlockMsg(id).t = "block" /\ BlockMsg(id).id = id
    BY <1>2, Messages DEF TxnTypes, BlockMsg
  <2>2. /\ Once(upstream[x]) => Once(Append(upstream[x], BlockMsg(id)))
        /\ \A k \in 1..MaxWorks : InQueue(Append(upstream[x], BlockMsg(id)), k) =>
             InQueue(upstream[x], k) \/ k = id
    BY <2>1, <1>4, QueueAppend
  <2>3. Once(upstream[y])
    BY DEF Blocks
  <2>4. CASE y = x /\ x # Pool
    <3>1. upstream'[y] = Append(upstream[x], BlockMsg(id))
      BY <2>1, <2>4, <1>1
    <3> QED
      BY <3>1, <2>2, <2>3, <2>4
  <2>5. CASE ~ (y = x /\ x # Pool)
    <3>1. upstream'[y] = upstream[y]
      BY <2>1, <2>5, <1>1
    <3> QED
      BY <3>1, <2>3
  <2> QED
    BY <2>4, <2>5
<1>11. ASSUME NEW y \in Servers, NEW k \in 1..MaxWorks, InQueue(upstream'[y], k)
       PROVE  /\ \E b \in solved' : b.id = k /\ b.at = y
              /\ \A z \in Servers : z # Pool => ~ Knows(heard'[z], k)
  <2>1. CASE InQueue(upstream[y], k)
    <3>1. k # id
      BY <2>1, <1>4
    <3>2. /\ \E b \in solved : b.id = k /\ b.at = y
          /\ \A z \in Servers : z # Pool => ~ Knows(heard[z], k)
      BY <2>1 DEF Blocks
    <3> QED
      BY <3>1, <3>2, <1>6, <1>7
  <2>2. CASE y = x /\ x # Pool /\ k = id
    <3>1. \A z \in Servers : z # Pool => z \notin xs
      BY <2>2 DEF xs
    <3> QED
      BY <2>2, <3>1, <1>3, <1>6, <1>7
  <2> QED
    BY <2>1, <2>2, <1>10, <1>11
<1>12. ASSUME NEW y \in Servers, NEW k \in 1..MaxWorks, Knows(heard'[y], k)
       PROVE  \E b \in solved' : b.id = k /\ y # b.at /\ y # b.via
  BY <1>5, <1>6, <1>7, <1>12 DEF Blocks
<1> QED
  BY <1>6, <1>8, <1>9, <1>10, <1>11, <1>12 DEF Blocks

LEMMA PoolReadBlocks ==
    ASSUME TxnTypes, Links, Blocks, NEW x \in Servers, NEW id \in DOMAIN works,
           NEW first \in BOOLEAN, PoolReadBlock(x, id, first)
    PROVE  Blocks'
<1> USE Sets
<1> DEFINE xs == Others(x) \union IF HasWhole(Pool, id) THEN NodesBut(x) ELSE {}
<1>1. /\ upstream[x] # <<>> /\ Head(upstream[x]) = BlockMsg(id)
      /\ upstream' = ReadUp(x) /\ Told(xs, id) /\ solved' = solved
  BY DEF PoolReadBlock, PoolReading
<1>2. id \in 1..MaxWorks /\ x \in Remotes
  BY <1>1, WorkTyped DEF Links
<1>3. upstream \in [Servers -> Seq(NetMsg)]
      /\ BlockMsg(id).t = "block" /\ BlockMsg(id).id = id
  BY DEF TxnTypes, BlockMsg
<1>4. InQueue(upstream[x], id) /\ ~ InQueue(Tail(upstream[x]), id)
      /\ NoNewBlock(upstream[x], Tail(upstream[x]))
  BY <1>1, <1>3, QueueTail DEF Blocks
<1>5. /\ \E b \in solved : b.id = id /\ b.at = x
      /\ \A y \in Servers : y # Pool => ~ Knows(heard[y], id)
  BY <1>2, <1>4 DEF Blocks
<1>6. \A y \in Servers : y \in xs => y # Pool /\ y # x
  BY DEF NodesBut, Others
<1> HIDE DEF xs
<1>7. /\ \A y \in Servers : NoneTwice(heard'[y])
      /\ \A y \in Servers : \A k \in 1..MaxWorks :
           Knows(heard'[y], k) <=> (Knows(heard[y], k) \/ (y \in xs /\ k = id))
  BY <1>1, <1>2, <1>5, <1>6, ToldOnce DEF Blocks
\* Nobody else sends the same block.
<1>8. ASSUME NEW y \in Servers
      PROVE  /\ Once(upstream'[y])
             /\ \A k \in 1..MaxWorks : InQueue(upstream'[y], k) =>
                  InQueue(upstream[y], k) /\ k # id
  <2>1. CASE y = x
    <3>1. upstream'[y] = Tail(upstream[x])
      BY <2>1, <1>1, <1>3 DEF ReadUp
    <3> QED
      BY <3>1, <2>1, <1>4 DEF NoNewBlock, Blocks
  <2>2. CASE y # x
    <3>1. upstream'[y] = upstream[y]
      BY <2>2, <1>1, <1>3 DEF ReadUp
    <3>2. ~ InQueue(upstream[y], id)
      BY <2>2, <1>2, <1>5 DEF Blocks
    <3> QED
      BY <3>1, <3>2 DEF Blocks
  <2> QED
    BY <2>1, <2>2
<1>9. ASSUME NEW y \in Servers, NEW k \in 1..MaxWorks, InQueue(upstream'[y], k)
      PROVE  /\ \E b \in solved' : b.id = k /\ b.at = y
             /\ \A z \in Servers : z # Pool => ~ Knows(heard'[z], k)
  BY <1>1, <1>7, <1>8, <1>9 DEF Blocks
<1>10. \A y \in Servers : y \in xs => \E b \in solved : b.id = id /\ y # b.at /\ y # b.via
  BY <1>2, <1>5, <1>6 DEF Blocks
<1>11. ASSUME NEW y \in Servers, NEW k \in 1..MaxWorks, Knows(heard'[y], k)
       PROVE  \E b \in solved' : b.id = k /\ y # b.at /\ y # b.via
  BY <1>1, <1>7, <1>10, <1>11 DEF Blocks
<1>12. /\ \A b, c \in solved' : b.id = c.id => b = c
       /\ \A b \in solved' : b.via = b.at \/ (b.at = Pool /\ b.via \in Nodes)
  BY <1>1 DEF Blocks
<1> QED
  BY <1>7, <1>8, <1>9, <1>11, <1>12 DEF Blocks

LEMMA BlocksNext == TxnTypes /\ Links /\ Blocks /\ [TxnNext]_txnVars => Blocks'
<1> SUFFICES ASSUME TxnTypes, Links, Blocks, [TxnNext]_txnVars PROVE Blocks'
  OBVIOUS
<1> USE Sets
<1>1. upstream \in [Servers -> Seq(NetMsg)]
  BY DEF TxnTypes
<1>2. CASE UNCHANGED txnVars
  BY <1>2, NoNewSame, BlocksQuiet DEF txnVars, blockVars
<1>3. ASSUME NEW x \in Servers, NEW txns \in Templates, NewTemplate(x, txns) PROVE Blocks'
  <2> DEFINE msg == [t |-> "work", id |-> Len(works) + 1]
  <2>1. Publish(x, msg) /\ UNCHANGED blockVars /\ Len(works) < MaxWorks
    BY <1>3 DEF NewTemplate
  <2>2. Len(works) \in Nat
    BY DEF TxnTypes
  <2>3. Len(works) + 1 \in 1..MaxWorks
    BY <2>1, <2>2
  <2>4. msg \in NetMsg /\ msg.t # "block"
    BY <2>3, Messages
  <2> HIDE DEF msg
  <2> QED
    BY <2>1, <2>4, PublishQuiet, BlocksQuiet
<1>4. ASSUME NEW x \in Servers, NEW t \in Threads, UpdateTable(x, t) PROVE Blocks'
  <2> DEFINE msg == TxnsMsg(adding[x][t])
  <2>1. (Publish(x, msg) \/ UNCHANGED upstream) /\ UNCHANGED blockVars
    BY <1>4 DEF UpdateTable
  <2>2. adding[x][t] \in SUBSET Txns
    BY DEF TxnTypes
  <2>3. msg \in NetMsg /\ msg.t # "block"
    BY <2>2, Messages DEF TxnsMsg
  <2> HIDE DEF msg
  <2> QED
    BY <2>1, <2>3, PublishQuiet, NoNewSame, BlocksQuiet
<1>5. ASSUME NEW x \in Servers, Join(x) \/ SendAll(x) \/ NodeLost(x) PROVE Blocks'
  <2>1. UNCHANGED upstream /\ UNCHANGED blockVars
    BY <1>5 DEF Join, SendAll, NodeLost
  <2> QED
    BY <2>1, NoNewSame, BlocksQuiet
<1>6. ASSUME NEW x \in Servers, ReadTxns(x) PROVE Blocks'
  <2>1. UNCHANGED blockVars /\ (UNCHANGED upstream \/ (upstream[x] # <<>> /\ upstream' = ReadUp(x)))
    BY <1>6 DEF ReadTxns, AddNodeTxns, PoolReading
  <2> QED
    BY <2>1, NoNewSame, ReadUpQuiet, BlocksQuiet
<1>7. ASSUME NEW x \in Servers, ReadRequest(x) PROVE Blocks'
  <2>1. PICK txns \in SUBSET Txns :
          /\ UNCHANGED blockVars
          /\ \/ upstream' = [upstream EXCEPT ![x] = @ \o Reply(x, txns)]
             \/ upstream[x] # <<>> /\ upstream' = ReadUp(x)
    BY <1>7 DEF ReadRequest, PoolReading
  <2>2. NoNewBlock(upstream[x], upstream[x] \o Reply(x, txns))
    BY <1>1, QueueReply
  <2>3. upstream' = [upstream EXCEPT ![x] = @ \o Reply(x, txns)] =>
          \A y \in Servers : NoNewBlock(upstream[y], upstream'[y])
    BY <1>1, <2>2, NoNewSame
  <2> QED
    BY <2>1, <2>3, ReadUpQuiet, BlocksQuiet
<1>8. ASSUME NEW x \in Servers, NEW id \in DOMAIN works, NEW got \in Answered(x, id),
             ReadWork(x, id, got)
      PROVE  Blocks'
  <2> DEFINE msg == [t |-> "req", txns |-> Missing(x, id)]
  <2>1. UNCHANGED blockVars
        /\ (UNCHANGED upstream \/ upstream' = [upstream EXCEPT ![x] = Append(@, msg)])
    BY <1>8 DEF ReadWork, AddNodeBase
  <2>2. Missing(x, id) \in SUBSET Txns
    BY WorkTyped DEF Missing
  <2>3. msg \in NetMsg /\ msg.t # "block"
    BY <2>2, Messages
  <2> HIDE DEF msg
  <2>4. NoNewBlock(upstream[x], Append(upstream[x], msg))
    BY <1>1, <2>3, QueueAppend
  <2>5. \A y \in Servers : NoNewBlock(upstream[y], upstream'[y])
    BY <1>1, <2>1, <2>4, NoNewSame
  <2> QED
    BY <2>1, <2>5, BlocksQuiet
<1>9. ASSUME NEW x \in Servers, NEW id \in DOMAIN works, NEW got \in Answered(Pool, id),
             PoolReadWork(x, id, got)
      PROVE  Blocks'
  <2>1. UNCHANGED blockVars /\ upstream[x] # <<>> /\ upstream' = ReadUp(x)
    BY <1>9 DEF PoolReadWork, PoolReading, AddNodeBase
  <2> QED
    BY <2>1, ReadUpQuiet, BlocksQuiet
<1>10. ASSUME NEW x \in Servers, NEW id \in DOMAIN works, NEW via \in Servers,
              NEW first \in BOOLEAN, SolveBlock(x, via, id, first)
       PROVE  Blocks'
  BY <1>10, SolveBlocks
<1>11. ASSUME NEW x \in Servers, NEW id \in DOMAIN works, NEW first \in BOOLEAN,
              PoolReadBlock(x, id, first)
       PROVE  Blocks'
  BY <1>11, PoolReadBlocks
<1>12. ASSUME NEW x \in Servers, NEW id \in DOMAIN works, ReadBlock(x, id) PROVE Blocks'
  <2>1. UNCHANGED upstream /\ UNCHANGED blockVars
    BY <1>12 DEF ReadBlock
  <2> QED
    BY <2>1, NoNewSame, BlocksQuiet
<1> QED
  BY <1>2, <1>3, <1>4, <1>5, <1>6, <1>7, <1>8, <1>9, <1>10, <1>11, <1>12 DEF TxnNext

LEMMA BlocksSound == TxnTypes /\ Blocks => BlockToldOnce
<1> SUFFICES ASSUME TxnTypes, Blocks, NEW b \in solved, NEW x \in Servers
             PROVE  Cardinality({i \in DOMAIN heard[x] : heard[x][i] = b.id})
                      <= IF x \in {b.at, b.via} THEN 0 ELSE 1
  BY DEF BlockToldOnce
<1> DEFINE S == {i \in DOMAIN heard[x] : heard[x][i] = b.id}
<1>1. b.id \in 1..MaxWorks
  BY DEF TxnTypes, Block
<1>2. x \in {b.at, b.via} => S = {}
  <2>1. Knows(heard[x], b.id) => \E c \in solved : c.id = b.id /\ x # c.at /\ x # c.via
    BY <1>1 DEF Blocks
  <2>2. Knows(heard[x], b.id) => x # b.at /\ x # b.via
    BY <2>1 DEF Blocks
  <2> QED
    BY <2>2 DEF Knows
<1>3. S = {} \/ \E i \in S : S = {i}
  BY DEF Blocks, NoneTwice
<1>4. Cardinality(S) = 0 \/ Cardinality(S) = 1
  BY <1>3, FS_EmptySet, FS_Singleton
<1>5. x \in {b.at, b.via} => Cardinality(S) = 0
  BY <1>2, FS_EmptySet
<1> HIDE DEF S
<1>6. Cardinality(S) <= IF x \in {b.at, b.via} THEN 0 ELSE 1
  BY <1>4, <1>5
<1> QED
  BY <1>6 DEF S

\* submit_node_block and others: a server is told of a block at most once, whichever
\* way it goes, and nobody of one that is its own (BlockToldOnce), for any servers,
\* transactions and works.
THEOREM BlockToldOnceThm == TxnSpec => []BlockToldOnce
<1> DEFINE Inv == TxnTypes /\ Links /\ Blocks
<1>1. TxnInit => Inv
  BY TypesInit, LinksInit, BlocksInit
<1>2. Inv /\ [TxnNext]_txnVars => Inv'
  BY TypesNext, LinksNext, BlocksNext
<1>3. Inv => BlockToldOnce
  BY BlocksSound
<1> QED
  BY <1>1, <1>2, <1>3, PTL DEF TxnSpec

-----------------------------------------------------------------------------
(* NodesFollow: a node keeps a transaction for as long as the pool does.      *)

\* For how many rounds of update_txns table tab keeps h, and one more; none when
\* h is not in it.
Life(tab, h) ==
    IF h \notin DOMAIN tab THEN 0 ELSE tab[h].ref + (IF tab[h].seen THEN 2 ELSE 1)

\* The same of a node that is through with what it has found to be new.
Soon(tab, new, h) ==
    IF new = {} THEN Life(tab, h)
    ELSE IF h \in DOMAIN tab THEN Life(tab, h) - 1
    ELSE IF h \in new THEN RefRemote + 1 ELSE 0

\* ... and what a life of v is, at least, after message msg, if w are the works.
After(v, msg, w, h) ==
    CASE msg.t = "txns" -> IF h \in msg.txns THEN RefRemote + 1 ELSE IF v = 0 THEN 0 ELSE v - 1
      [] msg.t = "work" -> IF h \in w[msg.id].txns /\ v # 0 THEN RefRemote + 2 ELSE v
      [] OTHER -> v

\* f says what life is left, at least, after each message of queue q.
Chain(f, q, w, h) ==
    /\ f \in [0..Len(q) -> Nat]
    /\ \A i \in 1..Len(q) : f[i] <= After(f[i - 1], q[i], w, h)

\* With a life of m before the messages in q, h has one of n after them.
Lasts(q, w, h, m, n) == \E f : Chain(f, q, w, h) /\ f[0] <= m /\ n <= f[Len(q)]

\* Each use of h that the pool counts is counted at node x, or on its way there.
NodeFollows(x, h) ==
    Lasts(down[x], works, h, Soon(table[x], adding[x]["recv"], h), Life(table[Pool], h))

\* No remote server has joined so far.
Alone == Remotes \intersect listed = {}

\* What the pool counts, and what the nodes have yet to read.
PoolCounts == \A h \in DOMAIN table[Pool] : table[Pool][h].ref <= RefLocal
Known(q, w) == \A i \in DOMAIN q : q[i].t = "work" => q[i].id \in DOMAIN w
KnownWorks == \A x \in Nodes : Known(down[x], works)

Follows ==
    Alone => /\ PoolCounts /\ KnownWorks
             /\ \A x \in Nodes \intersect ready : \A h \in DOMAIN table[Pool] : NodeFollows(x, h)

\* A longer life before a message is a longer one after it.
LEMMA AfterGrows ==
    ASSUME NEW v \in Nat, NEW u \in Nat, v <= u, NEW msg \in NetMsg, NEW w, NEW h
    PROVE  /\ After(v, msg, w, h) \in Nat
           /\ After(v, msg, w, h) <= After(u, msg, w, h)
<1>1. RefRemote \in Nat
  BY Sets
<1>2. CASE msg.t = "txns"
  BY <1>1, <1>2 DEF After
<1>3. CASE msg.t = "work"
  BY <1>1, <1>3 DEF After
<1>4. CASE msg.t # "txns" /\ msg.t # "work"
  BY <1>4 DEF After
<1> QED
  BY <1>2, <1>3, <1>4

\* A message is put behind the queue.
LEMMA LastsAppend ==
    ASSUME NEW q \in Seq(NetMsg), NEW msg \in NetMsg, NEW w, NEW h, NEW m, NEW n \in Nat,
           NEW k \in Nat, Lasts(q, w, h, m, n), k <= After(n, msg, w, h)
    PROVE  Lasts(Append(q, msg), w, h, m, k)
<1>1. PICK f : Chain(f, q, w, h) /\ f[0] <= m /\ n <= f[Len(q)]
  BY DEF Lasts
<1> DEFINE r == Append(q, msg)
           L == Len(q)
           g == [i \in 0..(L + 1) |-> IF i = L + 1 THEN k ELSE f[i]]
<1>2. /\ L \in Nat /\ Len(r) = L + 1 /\ r[L + 1] = msg
      /\ \A i \in 1..L : r[i] = q[i]
  BY AppendProperties
<1>3. f \in [0..L -> Nat] /\ \A i \in 1..L : f[i] <= After(f[i - 1], q[i], w, h)
  BY <1>1 DEF Chain
<1> HIDE DEF r, L
<1>4. f[L] \in Nat /\ 0 \in 0..(L + 1) /\ L + 1 \in 0..(L + 1)
  BY <1>2, <1>3
<1>5. k <= After(f[L], msg, w, h)
  <2>1. /\ After(n, msg, w, h) \in Nat
        /\ After(n, msg, w, h) <= After(f[L], msg, w, h)
    BY <1>1, <1>4, AfterGrows DEF L
  <2>2. After(f[L], msg, w, h) \in Nat
    BY <1>4, AfterGrows
  <2> QED
    BY <2>1, <2>2
<1>6. g \in [0..(L + 1) -> Nat]
  BY <1>2, <1>3
<1>7. ASSUME NEW i \in 1..(L + 1)
      PROVE  g[i] <= After(g[i - 1], r[i], w, h)
  <2>1. i - 1 \in 0..(L + 1) /\ i \in 0..(L + 1) /\ i - 1 # L + 1
    BY <1>2
  <2>2. g[i - 1] = f[i - 1]
    BY <2>1
  <2>3. CASE i = L + 1
    <3>1. g[i] = k /\ i - 1 = L /\ r[i] = msg
      BY <1>2, <1>4, <2>3
    <3> HIDE DEF g
    <3> QED
      BY <1>5, <2>2, <3>1
  <2>4. CASE i # L + 1
    <3>1. g[i] = f[i] /\ i \in 1..L
      BY <1>2, <2>1, <2>4
    <3> HIDE DEF g
    <3> QED
      BY <1>2, <1>3, <2>2, <3>1
  <2> QED
    BY <2>3, <2>4
<1>8. g[0] = f[0] /\ g[L + 1] = k
  BY <1>2, <1>4
<1> HIDE DEF g
<1>9. Chain(g, r, w, h)
  BY <1>2, <1>6, <1>7 DEF Chain
<1>10. g[0] <= m /\ k <= g[Len(r)]
  BY <1>1, <1>2, <1>8
<1>11. Lasts(r, w, h, m, k)
  BY <1>9, <1>10, Zenon DEF Lasts
<1> QED
  BY <1>11 DEF r

\* The first message is read.
LEMMA LastsTail ==
    ASSUME NEW q \in Seq(NetMsg), q # <<>>, NEW w, NEW h, NEW m \in Nat, NEW k \in Nat, NEW n,
           Lasts(q, w, h, m, n), After(m, Head(q), w, h) <= k
    PROVE  Lasts(Tail(q), w, h, k, n)
<1>1. PICK f : Chain(f, q, w, h) /\ f[0] <= m /\ n <= f[Len(q)]
  BY DEF Lasts
<1> DEFINE r == Tail(q)
           L == Len(q)
           g == [i \in 0..(L - 1) |-> f[i + 1]]
<1>2. /\ L \in Nat /\ L # 0 /\ Len(r) = L - 1 /\ Head(q) = q[1] /\ q[1] \in NetMsg
      /\ \A i \in 1..(L - 1) : r[i] = q[i + 1]
  BY HeadTailProperties, EmptySeq
<1>3. f \in [0..L -> Nat] /\ \A i \in 1..L : f[i] <= After(f[i - 1], q[i], w, h)
  BY <1>1 DEF Chain
<1> HIDE DEF r, L
<1>4. f[0] \in Nat /\ f[1] \in Nat /\ f[1] <= After(f[0], q[1], w, h)
  <2>1. 1 \in 1..L /\ 0 \in 0..L /\ 1 \in 0..L
    BY <1>2
  <2>2. f[1] <= After(f[1 - 1], q[1], w, h)
    BY <1>3, <2>1
  <2> QED
    BY <1>3, <2>1, <2>2
<1>5. f[1] <= k
  <2>1. /\ After(f[0], q[1], w, h) \in Nat
        /\ After(f[0], q[1], w, h) <= After(m, q[1], w, h)
    BY <1>1, <1>2, <1>4, AfterGrows
  <2>2. After(m, q[1], w, h) \in Nat
    BY <1>2, AfterGrows
  <2> QED
    BY <1>2, <1>4, <2>1, <2>2
<1>6. g \in [0..(L - 1) -> Nat]
  BY <1>2, <1>3
<1>7. ASSUME NEW i \in 1..(L - 1)
      PROVE  g[i] <= After(g[i - 1], r[i], w, h)
  <2>1. i \in 0..(L - 1) /\ i - 1 \in 0..(L - 1) /\ i + 1 \in 1..L /\ (i - 1) + 1 = i
        /\ (i + 1) - 1 = i
    BY <1>2
  <2>2. g[i] = f[i + 1] /\ g[i - 1] = f[i]
    BY <2>1
  <2>3. f[i + 1] <= After(f[i], q[i + 1], w, h)
    BY <1>3, <2>1
  <2> HIDE DEF g
  <2> QED
    BY <1>2, <2>2, <2>3
<1>8. g[0] = f[1] /\ g[L - 1] = f[L]
  <2>1. 0 \in 0..(L - 1) /\ L - 1 \in 0..(L - 1) /\ (L - 1) + 1 = L /\ 0 + 1 = 1
    BY <1>2
  <2> QED
    BY <2>1
<1> HIDE DEF g
<1>9. Chain(g, r, w, h)
  BY <1>2, <1>6, <1>7 DEF Chain
<1>10. g[0] <= k /\ n <= g[Len(r)]
  BY <1>1, <1>2, <1>5, <1>8 DEF L
<1>11. Lasts(r, w, h, k, n)
  BY <1>9, <1>10, Zenon DEF Lasts
<1> QED
  BY <1>11 DEF r

\* The node keeps h for longer, or the pool for less long, and the works the
\* queue speaks of are the same.
LEMMA LastsMore ==
    ASSUME NEW q \in Seq(NetMsg), NEW w, NEW w2, NEW h, NEW m \in Nat, NEW k \in Nat,
           NEW n \in Nat, NEW j \in Nat, Lasts(q, w, h, m, n), m <= k, j <= n,
           \A i \in DOMAIN q : q[i].t = "work" => w2[q[i].id] = w[q[i].id]
    PROVE  Lasts(q, w2, h, k, j)
<1>1. PICK f : Chain(f, q, w, h) /\ f[0] <= m /\ n <= f[Len(q)]
  BY DEF Lasts
<1>2. Len(q) \in Nat /\ DOMAIN q = 1..Len(q)
  OBVIOUS
<1>3. f[0] \in Nat /\ f[Len(q)] \in Nat
  BY <1>1, <1>2 DEF Chain
<1>4. Chain(f, q, w2, h)
  <2> SUFFICES ASSUME NEW i \in 1..Len(q)
               PROVE  f[i] <= After(f[i - 1], q[i], w2, h)
    BY <1>1 DEF Chain
  <2>1. f[i] <= After(f[i - 1], q[i], w, h)
    BY <1>1 DEF Chain
  <2>2. After(f[i - 1], q[i], w2, h) = After(f[i - 1], q[i], w, h)
    BY <1>2 DEF After
  <2> QED
    BY <2>1, <2>2
<1>5. f[0] <= k /\ j <= f[Len(q)]
  BY <1>1, <1>3
<1> QED
  BY <1>4, <1>5 DEF Lasts

\* A block in front of the queue says nothing of transactions.
LEMMA LastsBlock ==
    ASSUME NEW q \in Seq(NetMsg), NEW id \in 1..MaxWorks, NEW w, NEW h, NEW m, NEW n,
           Lasts(q, w, h, m, n)
    PROVE  Lasts(<<BlockMsg(id)>> \o q, w, h, m, n)
<1>1. PICK f : Chain(f, q, w, h) /\ f[0] <= m /\ n <= f[Len(q)]
  BY DEF Lasts
<1> DEFINE b == <<BlockMsg(id)>>
           r == b \o q
           L == Len(q)
           g == [i \in 0..(L + 1) |-> IF i = 0 THEN f[0] ELSE f[i - 1]]
<1>2. b \in Seq(NetMsg) /\ Len(b) = 1 /\ b[1] = BlockMsg(id)
  <2>1. BlockMsg(id) \in NetMsg
    BY Messages
  <2>2. \A msg \in NetMsg : <<msg>> \in Seq(NetMsg) /\ Len(<<msg>>) = 1 /\ <<msg>>[1] = msg
    OBVIOUS
  <2> QED
    BY <2>1, <2>2, Zenon
<1>3. /\ L \in Nat /\ Len(r) = L + 1 /\ r[1] = BlockMsg(id)
      /\ \A i \in 2..(L + 1) : r[i] = q[i - 1]
  BY <1>2, ConcatProperties
<1>4. f \in [0..L -> Nat] /\ \A i \in 1..L : f[i] <= After(f[i - 1], q[i], w, h)
  BY <1>1 DEF Chain
<1> HIDE DEF r, L
<1>5. g \in [0..(L + 1) -> Nat]
  BY <1>3, <1>4
<1>6. ASSUME NEW i \in 1..(L + 1)
      PROVE  g[i] <= After(g[i - 1], r[i], w, h)
  <2>1. /\ i \in 0..(L + 1) /\ i # 0 /\ i - 1 \in 0..(L + 1) /\ i - 1 \in 0..L
        /\ g[i] = f[i - 1] /\ f[i - 1] \in Nat
    BY <1>3, <1>4
  <2>2. CASE i = 1
    <3>1. g[i - 1] = f[0] /\ g[i] = f[0] /\ r[i] = BlockMsg(id)
      BY <1>3, <2>1, <2>2
    <3>2. After(f[0], BlockMsg(id), w, h) = f[0]
      BY DEF After, BlockMsg
    <3> HIDE DEF g
    <3> QED
      BY <2>1, <2>2, <3>1, <3>2
  <2>3. CASE i # 1
    <3>1. i - 1 \in 1..L /\ i - 1 # 0 /\ i \in 2..(L + 1)
      BY <1>3, <2>1, <2>3
    <3>2. g[i - 1] = f[(i - 1) - 1] /\ r[i] = q[i - 1]
      BY <1>3, <2>1, <3>1
    <3>3. f[i - 1] <= After(f[(i - 1) - 1], q[i - 1], w, h)
      BY <1>4, <3>1
    <3> HIDE DEF g
    <3> QED
      BY <2>1, <3>2, <3>3
  <2> QED
    BY <2>2, <2>3
<1>7. g[0] = f[0] /\ g[L + 1] = f[L]
  <2>1. 0 \in 0..(L + 1) /\ L + 1 \in 0..(L + 1) /\ L + 1 # 0 /\ (L + 1) - 1 = L
    BY <1>3
  <2> QED
    BY <2>1
<1> HIDE DEF g
<1>8. Chain(g, r, w, h)
  BY <1>3, <1>5, <1>6 DEF Chain
<1>9. g[0] <= m /\ n <= g[Len(r)]
  BY <1>1, <1>3, <1>7 DEF L
<1>10. Lasts(r, w, h, m, n)
  BY <1>8, <1>9, Zenon DEF Lasts
<1> QED
  BY <1>10 DEF r

\* No life at all is left by any queue.
LEMMA LastsNone ==
    ASSUME NEW q \in Seq(NetMsg), NEW w, NEW h, NEW m \in Nat
    PROVE  Lasts(q, w, h, m, 0)
<1> DEFINE f == [i \in 0..Len(q) |-> 0]
<1>1. Len(q) \in Nat
  OBVIOUS
<1>2. f \in [0..Len(q) -> Nat] /\ f[0] = 0 /\ f[Len(q)] = 0
  BY <1>1
<1>3. ASSUME NEW i \in 1..Len(q)
      PROVE  f[i] <= After(f[i - 1], q[i], w, h)
  <2>1. f[i] = 0 /\ f[i - 1] = 0 /\ q[i] \in NetMsg
    BY <1>1
  <2>2. After(0, q[i], w, h) \in Nat
    BY <2>1, AfterGrows
  <2> HIDE DEF f
  <2> QED
    BY <2>1, <2>2
<1> HIDE DEF f
<1>4. Chain(f, q, w, h)
  BY <1>2, <1>3 DEF Chain
<1>5. f[0] <= m /\ 0 <= f[Len(q)]
  BY <1>2
<1> QED
  BY <1>4, <1>5, Zenon DEF Lasts

\* What has a life left after the queue has one before it, or is in it.
LEMMA LastsSound ==
    ASSUME NEW q \in Seq(NetMsg), NEW w, NEW h, NEW m \in Nat, NEW n \in Nat, n # 0,
           Lasts(q, w, h, m, n)
    PROVE  m # 0 \/ \E i \in DOMAIN q : q[i].t = "txns" /\ h \in q[i].txns
<1>1. PICK f : Chain(f, q, w, h) /\ f[0] <= m /\ n <= f[Len(q)]
  BY DEF Lasts
<1>2. Len(q) \in Nat /\ DOMAIN q = 1..Len(q) /\ f \in [0..Len(q) -> Nat]
  BY <1>1 DEF Chain
<1> DEFINE T == {i \in 0..Len(q) : f[i] # 0}
<1>3. T \in SUBSET Nat /\ Len(q) \in T
  <2>1. Len(q) \in 0..Len(q) /\ f[Len(q)] \in Nat
    BY <1>2
  <2> QED
    BY <1>1, <1>2, <2>1
<1>4. PICK i \in T : \A j \in T : ~ (j < i)
  <2>1. IsWellFoundedOn(OpToRel(<, Nat), Nat)
    BY NatLessThanWellFounded
  <2>2. \A a, b \in Nat : a < b => <<a, b>> \in OpToRel(<, Nat)
    BY DEF OpToRel
  <2> DEFINE R == OpToRel(<, Nat)
  <2> HIDE DEF R, T
  <2>3. PICK i \in T : \A j \in T : ~ (<<j, i>> \in R)
    BY <1>3, <2>1, WFMin, Zenon DEF R
  <2> QED
    BY <1>3, <2>2, <2>3 DEF R
<1>5. i \in 0..Len(q) /\ f[i] \in Nat /\ f[i] # 0
  BY <1>2
<1>6. CASE i = 0
  BY <1>1, <1>5, <1>6
<1>7. CASE i # 0
  <2>1. i \in 1..Len(q) /\ i - 1 \in 0..Len(q) /\ i - 1 < i
    BY <1>2, <1>5, <1>7
  <2>2. f[i - 1] = 0
    BY <1>4, <2>1
  <2>3. f[i] <= After(0, q[i], w, h) /\ q[i] \in NetMsg
    BY <1>1, <1>2, <2>1, <2>2 DEF Chain
  <2>4. q[i].t = "txns" /\ h \in q[i].txns
    <3>1. After(0, q[i], w, h) # 0
      BY <1>5, <2>3
    <3> QED
      BY <3>1 DEF After
  <2> QED
    BY <1>2, <2>1, <2>4
<1> QED
  BY <1>6, <1>7

\* A server's table and what it is in the midst of.
LEMMA ServerTyped ==
    ASSUME TxnTypes, NEW x \in Servers
    PROVE  /\ table[x] \in Tables /\ down[x] \in Seq(NetMsg)
           /\ adding[x]["recv"] \in SUBSET Txns /\ adding[x]["gbt"] \in SUBSET Txns
  BY Sets DEF TxnTypes

\* A life is a number, and there is none without an entry in the table.
LEMMA LifeTyped ==
    ASSUME NEW tab \in Tables, NEW new, NEW h
    PROVE  /\ Life(tab, h) \in Nat /\ Soon(tab, new, h) \in Nat
           /\ Life(tab, h) # 0 <=> h \in DOMAIN tab
           /\ h \in DOMAIN tab =>
                /\ tab[h].ref \in Nat /\ tab[h].seen \in BOOLEAN
                /\ Life(tab, h) = tab[h].ref + (IF tab[h].seen THEN 2 ELSE 1)
<1>1. h \in DOMAIN tab => tab[h].ref \in Nat /\ tab[h].seen \in BOOLEAN
  <2>1. \A r \in Row : r.ref \in Nat /\ r.seen \in BOOLEAN
    BY DEF Row
  <2> QED
    BY <2>1, TableRows
<1>2. h \in DOMAIN tab => Life(tab, h) = tab[h].ref + (IF tab[h].seen THEN 2 ELSE 1)
  BY DEF Life
<1>3. h \notin DOMAIN tab => Life(tab, h) = 0
  BY DEF Life
<1>4. Life(tab, h) \in Nat /\ (Life(tab, h) # 0 <=> h \in DOMAIN tab)
  BY <1>1, <1>2, <1>3
<1>5. Soon(tab, new, h) \in Nat
  BY <1>4, Sets DEF Soon
<1> QED
  BY <1>1, <1>2, <1>4, <1>5

\* Without remote servers the pool alone has work to tell of.
LEMMA AloneThen ==
    ASSUME TxnTypes, Links, Alone
    PROVE  /\ \A x \in Servers : upstream[x] = <<>>
           /\ \A x \in Servers : down[x] # <<>> => x \in Nodes
           /\ adding[Pool]["recv"] = {}
           /\ \A x \in Servers, t \in Threads :
                adding[x][t] # {} => (x = Pool /\ t = "gbt") \/ (x \in Nodes /\ t = "recv")
           /\ \A i \in DOMAIN works : works[i].at = Pool
<1>1. \A x \in Servers : x \in Remotes => x \notin listed
  BY DEF Alone
<1>2. Pool \notin listed
  BY DEF TxnTypes
<1>3. \A x \in Servers : x = Pool \/ x \in Nodes \/ x \in Remotes
  BY DEF Servers
<1>4. \A x \in Servers : upstream[x] = <<>>
  BY <1>1, Sets DEF Links
<1>5. \A x \in Servers : down[x] # <<>> => x \in Nodes
  BY <1>1, <1>2, <1>3 DEF Links
<1>6. adding[Pool]["recv"] = {}
  BY DEF Links, Alone
<1>7. ASSUME NEW x \in Servers, NEW t \in Threads, adding[x][t] # {}
      PROVE  (x = Pool /\ t = "gbt") \/ (x \in Nodes /\ t = "recv")
  <2>1. t = "gbt" \/ t = "recv"
    BY DEF Threads
  <2> QED
    BY <1>1, <1>3, <1>6, <1>7, <2>1, Sets DEF Links
<1>8. \A i \in DOMAIN works : works[i].at = Pool
  BY <1>1, WorksFrom, Sets
<1> QED
  BY <1>4, <1>5, <1>6, <1>7, <1>8

\* A step that does not touch what concerns node x.
LEMMA NodeSame ==
    ASSUME NEW x, NEW h, NodeFollows(x, h), works' = works, table'[Pool] = table[Pool],
           table'[x] = table[x], adding'[x] = adding[x], down'[x] = down[x]
    PROVE  NodeFollows(x, h)'
  BY DEF NodeFollows

\* Node x reads a message: what it does with it is what the queue foretold.
LEMMA NodeReads ==
    ASSUME TxnTypes, TxnTypes', NEW x \in Servers, NEW h, NodeFollows(x, h),
           down[x] # <<>>, down'[x] = Tail(down[x]), works' = works,
           table'[Pool] = table[Pool],
           After(Soon(table[x], adding[x]["recv"], h), Head(down[x]), works, h)
             <= Soon(table'[x], adding'[x]["recv"], h)
    PROVE  NodeFollows(x, h)'
<1>1. down[x] \in Seq(NetMsg) /\ table[x] \in Tables /\ table'[x] \in Tables
  BY DEF TxnTypes
<1>2. /\ Soon(table[x], adding[x]["recv"], h) \in Nat
      /\ Soon(table'[x], adding'[x]["recv"], h) \in Nat
  BY <1>1, LifeTyped
<1> QED
  BY <1>1, <1>2, LastsTail DEF NodeFollows

\* What may happen while no remote server has joined.
AloneNext ==
    \/ \E txns \in Templates : NewTemplate(Pool, txns)
    \/ UpdateTable(Pool, "gbt")
    \/ \E id \in DOMAIN works, via \in Servers, first \in BOOLEAN : SolveBlock(Pool, via, id, first)
    \/ \E x \in Servers : Join(x) \/ SendAll(x) \/ NodeLost(x)
    \/ \E x \in Nodes :
        \/ UpdateTable(x, "recv")
        \/ \E txns \in SUBSET Txns :
            Reading(x, TxnsMsg(txns)) /\ AddNodeTxns(x, txns) /\ down' = ReadDown(x)
        \/ \E id \in DOMAIN works :
            ReadBlock(x, id) \/ \E got \in Answered(x, id) : ReadWork(x, id, got)

LEMMA AloneSteps ==
    ASSUME TxnTypes, Links, Alone, TxnNext
    PROVE  AloneNext
<1>1. /\ \A x \in Servers : upstream[x] = <<>>
      /\ \A x \in Servers : down[x] # <<>> => x \in Nodes
      /\ \A x \in Servers, t \in Threads :
           adding[x][t] # {} => (x = Pool /\ t = "gbt") \/ (x \in Nodes /\ t = "recv")
      /\ \A i \in DOMAIN works : works[i].at = Pool
  BY AloneThen
<1>2. \A x \in Servers : x \in Remotes => x \notin listed
  BY DEF Alone
<1>3. Pool \in Servers /\ Nodes \subseteq Servers /\ \A x \in Nodes : x \notin Remotes
  BY Sets
<1>4. \A x \in Servers : \A msg : ~ PoolReading(x, msg)
  BY <1>1 DEF PoolReading
<1>5. \A x \in Servers : \A msg : Reading(x, msg) => x \in Nodes
  BY <1>1 DEF Reading
<1>6. ASSUME NEW x \in Servers, NEW txns \in Templates, NewTemplate(x, txns) PROVE AloneNext
  <2>1. x = Pool
    BY <1>2, <1>6 DEF NewTemplate
  <2> QED
    BY <1>6, <2>1 DEF AloneNext
<1>7. ASSUME NEW x \in Servers, NEW t \in Threads, UpdateTable(x, t) PROVE AloneNext
  <2>1. (x = Pool /\ t = "gbt") \/ (x \in Nodes /\ t = "recv")
    BY <1>1, <1>7 DEF UpdateTable
  <2> QED
    BY <1>7, <2>1 DEF AloneNext
<1>8. ASSUME NEW x \in Servers, Join(x) \/ SendAll(x) \/ NodeLost(x) PROVE AloneNext
  BY <1>8 DEF AloneNext
<1>9. ASSUME NEW x \in Servers, ReadTxns(x) PROVE AloneNext
  <2>1. PICK txns \in SUBSET Txns :
          Reading(x, TxnsMsg(txns)) /\ AddNodeTxns(x, txns) /\ down' = ReadDown(x)
    BY <1>4, <1>9 DEF ReadTxns
  <2> QED
    BY <1>5, <2>1 DEF AloneNext
<1>10. ASSUME NEW x \in Servers PROVE ~ ReadRequest(x)
  BY <1>3, <1>4, <1>5 DEF ReadRequest
<1>11. ASSUME NEW x \in Servers, NEW id \in DOMAIN works, NEW got \in Answered(x, id),
              ReadWork(x, id, got)
       PROVE  AloneNext
  <2>1. x \in Nodes
    BY <1>5, <1>11 DEF ReadWork
  <2> QED
    BY <1>11, <2>1 DEF AloneNext
<1>12. ASSUME NEW x \in Servers, NEW id \in DOMAIN works, NEW got \in Answered(Pool, id)
       PROVE  ~ PoolReadWork(x, id, got)
  BY <1>4 DEF PoolReadWork
<1>13. ASSUME NEW x \in Servers, NEW id \in DOMAIN works, NEW via \in Servers,
              NEW first \in BOOLEAN, SolveBlock(x, via, id, first)
       PROVE  AloneNext
  <2>1. x = Pool
    BY <1>1, <1>13 DEF SolveBlock
  <2> QED
    BY <1>13, <2>1 DEF AloneNext
<1>14. ASSUME NEW x \in Servers, NEW id \in DOMAIN works, NEW first \in BOOLEAN
       PROVE  ~ PoolReadBlock(x, id, first)
  BY <1>4 DEF PoolReadBlock
<1>15. ASSUME NEW x \in Servers, NEW id \in DOMAIN works, ReadBlock(x, id) PROVE AloneNext
  <2>1. x \in Nodes
    BY <1>5, <1>15 DEF ReadBlock
  <2> QED
    BY <1>15, <2>1 DEF AloneNext
<1> QED
  BY <1>6, <1>7, <1>8, <1>9, <1>10, <1>11, <1>12, <1>13, <1>14, <1>15 DEF TxnNext

\* Remote servers that have joined stay.
LEMMA AloneBefore ==
    ASSUME TxnTypes, [TxnNext]_txnVars, Alone'
    PROVE  Alone
<1>1. \A y \in Remotes : y \in listed => y \in listed'
  <2>1. CASE UNCHANGED txnVars
    BY <2>1 DEF txnVars
  <2>2. ASSUME NEW x \in Servers, Join(x) PROVE listed \subseteq listed'
    BY <2>2 DEF Join
  <2>3. ASSUME NEW x \in Servers, NodeLost(x)
        PROVE  \A y \in Remotes : y \in listed => y \in listed'
    BY <2>3, Sets DEF NodeLost
  <2>4. ASSUME NEW x \in Servers, SendAll(x) \/ ReadTxns(x) \/ ReadRequest(x)
        PROVE  listed' = listed
    BY <2>4 DEF SendAll, ReadTxns, ReadRequest, AddNodeTxns, netVars
  <2>5. ASSUME NEW x \in Servers, NEW txns \in Templates, NewTemplate(x, txns)
        PROVE  listed' = listed
    BY <2>5 DEF NewTemplate, netVars
  <2>6. ASSUME NEW x \in Servers, NEW t \in Threads, UpdateTable(x, t) PROVE listed' = listed
    BY <2>6 DEF UpdateTable, netVars
  <2>7. ASSUME NEW x \in Servers, NEW id \in DOMAIN works, NEW got,
               ReadWork(x, id, got) \/ PoolReadWork(x, id, got)
        PROVE  listed' = listed
    BY <2>7 DEF ReadWork, PoolReadWork, AddNodeBase, netVars
  <2>8. ASSUME NEW x \in Servers, NEW id \in DOMAIN works, NEW via, NEW first,
               SolveBlock(x, via, id, first) \/ PoolReadBlock(x, id, first) \/ ReadBlock(x, id)
        PROVE  listed' = listed
    BY <2>8 DEF SolveBlock, PoolReadBlock, ReadBlock, netVars
  <2> QED
    BY <2>1, <2>2, <2>3, <2>4, <2>5, <2>6, <2>7, <2>8 DEF TxnNext
<1> QED
  BY <1>1 DEF Alone

\* How long the pool keeps a transaction after a step.
LEMMA PoolRefreshes ==
    ASSUME TxnTypes, PoolCounts, NEW txns \in Templates, NewTemplate(Pool, txns),
           NEW h \in DOMAIN table'[Pool]
    PROVE  /\ h \in DOMAIN table[Pool] /\ table'[Pool][h].ref <= RefLocal
           /\ IF h \in txns THEN Life(table'[Pool], h) <= RefLocal + 2
              ELSE Life(table'[Pool], h) = Life(table[Pool], h)
<1> DEFINE tab == table[Pool]
           new == Refreshed(tab, txns, FALSE)
<1>1. tab \in Tables /\ table'[Pool] = new
  BY Sets DEF TxnTypes, NewTemplate
<1>2. /\ DOMAIN new = DOMAIN tab /\ new \in Tables
      /\ \A g \in DOMAIN tab :
           new[g] = IF g \notin txns THEN tab[g]
                    ELSE [ref |-> IF FALSE THEN RefRemote
                                  ELSE IF tab[g].ref < RefLocal THEN RefLocal ELSE tab[g].ref,
                          seen |-> TRUE]
  BY <1>1, RefreshedRows
<1>3. h \in DOMAIN tab /\ tab[h].ref \in Nat /\ tab[h].ref <= RefLocal /\ RefLocal \in Nat
  <2>1. h \in DOMAIN tab /\ tab[h].ref <= RefLocal
    BY <1>1, <1>2 DEF PoolCounts
  <2> QED
    BY <1>1, <2>1, LifeTyped, Sets
<1> HIDE DEF new, tab
<1>4. CASE h \in txns
  <2>1. new[h] = [ref |-> IF tab[h].ref < RefLocal THEN RefLocal ELSE tab[h].ref, seen |-> TRUE]
    BY <1>2, <1>3, <1>4
  <2>2. new[h].ref = RefLocal /\ new[h].seen
    BY <1>3, <2>1
  <2>3. Life(new, h) = RefLocal + 2
    BY <1>2, <1>3, <2>2 DEF Life
  <2> QED
    BY <1>1, <1>3, <1>4, <2>2, <2>3 DEF tab
<1>5. CASE h \notin txns
  <2>1. new[h] = tab[h]
    BY <1>2, <1>3, <1>5
  <2> QED
    BY <1>1, <1>2, <1>3, <1>5, <2>1 DEF Life, tab
<1> QED
  BY <1>4, <1>5

\* A table after update_txns: what was not in use for too long has gone.
Updated(tab, new, ref) == With(Purged(tab), new, ref)

LEMMA UpdatedLife ==
    ASSUME NEW tab \in Tables, NEW new \in SUBSET Txns, NEW ref \in 0..RefRemote, NEW h
    PROVE  LET up == Updated(tab, new, ref)
           IN  /\ up \in Tables
               /\ h \in DOMAIN Purged(tab) =>
                    /\ h \in DOMAIN tab /\ h \in DOMAIN up
                    /\ up[h].ref <= tab[h].ref
                    /\ Life(up, h) = Life(tab, h) - 1 /\ Life(tab, h) - 1 \in Nat \ {0}
               /\ h \notin DOMAIN Purged(tab) => Life(tab, h) <= 1
               /\ h \notin DOMAIN Purged(tab) /\ h \in new =>
                    h \in DOMAIN up /\ up[h].ref = ref /\ Life(up, h) = ref + 2
               /\ h \notin DOMAIN Purged(tab) /\ h \notin new => h \notin DOMAIN up
<1> DEFINE up == Updated(tab, new, ref)
           p == Purged(tab)
<1>1. /\ p \in Tables
      /\ DOMAIN p = {g \in DOMAIN tab : tab[g].seen \/ tab[g].ref > 0}
      /\ \A g \in DOMAIN p : p[g] = [ref |-> IF tab[g].seen THEN tab[g].ref ELSE tab[g].ref - 1,
                                     seen |-> FALSE]
  BY PurgedRows
<1> HIDE DEF p, up
<1>2. /\ With(p, new, ref) \in Tables
      /\ DOMAIN With(p, new, ref) = DOMAIN p \union new
  BY <1>1, WithRows
<1>3. /\ up \in Tables /\ DOMAIN up = DOMAIN p \union new
      /\ \A g \in DOMAIN p \union new :
           up[g] = IF g \in DOMAIN p THEN p[g] ELSE [ref |-> ref, seen |-> TRUE]
  <2>1. up = With(p, new, ref)
    BY DEF p, up, Updated
  <2> QED
    BY <1>2, <2>1 DEF With
<1>4. h \in DOMAIN tab =>
        /\ tab[h].ref \in Nat /\ tab[h].seen \in BOOLEAN
        /\ Life(tab, h) = tab[h].ref + (IF tab[h].seen THEN 2 ELSE 1)
  BY LifeTyped
<1>5. h \notin DOMAIN tab => Life(tab, h) = 0
  BY DEF Life
<1>6. ASSUME h \in DOMAIN p
      PROVE  /\ h \in DOMAIN tab /\ h \in DOMAIN up
             /\ up[h].ref <= tab[h].ref
             /\ Life(up, h) = Life(tab, h) - 1 /\ Life(tab, h) - 1 \in Nat \ {0}
  <2>1. h \in DOMAIN tab /\ (tab[h].seen \/ tab[h].ref > 0) /\ h \in DOMAIN up
    BY <1>1, <1>3, <1>6
  <2>2. up[h] = [ref |-> IF tab[h].seen THEN tab[h].ref ELSE tab[h].ref - 1, seen |-> FALSE]
    BY <1>1, <1>3, <1>6
  <2>3. /\ up[h].ref = IF tab[h].seen THEN tab[h].ref ELSE tab[h].ref - 1
        /\ ~ up[h].seen
    BY <2>2
  <2>4. Life(up, h) = up[h].ref + 1
    BY <2>1, <2>3 DEF Life
  <2> QED
    BY <1>4, <2>1, <2>3, <2>4
<1>7. h \notin DOMAIN p => Life(tab, h) <= 1
  <2>1. CASE h \in DOMAIN tab /\ h \notin DOMAIN p
    BY <1>1, <1>4, <2>1
  <2>2. CASE h \notin DOMAIN tab
    BY <1>5, <2>2
  <2> QED
    BY <2>1, <2>2
<1>8. ASSUME h \notin DOMAIN p, h \in new
      PROVE  h \in DOMAIN up /\ up[h].ref = ref /\ Life(up, h) = ref + 2
  <2>1. h \in DOMAIN up /\ up[h] = [ref |-> ref, seen |-> TRUE]
    BY <1>3, <1>8
  <2> QED
    BY <2>1 DEF Life
<1>9. h \notin DOMAIN p /\ h \notin new => h \notin DOMAIN up
  BY <1>3
<1> QED
  BY <1>3, <1>6, <1>7, <1>8, <1>9 DEF p, up

LEMMA PoolCountsKept ==
    ASSUME TxnTypes, PoolCounts, AloneNext
    PROVE  PoolCounts'
<1> USE Sets
<1>1. ASSUME NEW txns \in Templates, NewTemplate(Pool, txns) PROVE PoolCounts'
  BY <1>1, PoolRefreshes DEF PoolCounts
<1>2. ASSUME UpdateTable(Pool, "gbt") PROVE PoolCounts'
  <2> SUFFICES ASSUME NEW h \in DOMAIN table'[Pool] PROVE table'[Pool][h].ref <= RefLocal
    BY DEF PoolCounts
  <2> DEFINE tab == table[Pool]
             new == adding[Pool]["gbt"]
             up == table'[Pool]
  <2>1. tab \in Tables /\ new \in SUBSET Txns /\ up = Updated(tab, new, RefLocal)
    BY <1>2 DEF TxnTypes, UpdateTable, Updated
  <2>2. RefLocal \in 0..RefRemote
    OBVIOUS
  <2>3. h \in DOMAIN up
    OBVIOUS
  <2> HIDE DEF tab, new, up
  <2>4. /\ up \in Tables
        /\ h \in DOMAIN Purged(tab) => h \in DOMAIN tab /\ up[h].ref <= tab[h].ref
        /\ h \notin DOMAIN Purged(tab) /\ h \in new => up[h].ref = RefLocal
        /\ h \notin DOMAIN Purged(tab) /\ h \notin new => h \notin DOMAIN up
    BY <2>1, <2>2, UpdatedLife
  <2>5. up[h].ref \in Nat /\ (h \in DOMAIN tab => tab[h].ref \in Nat /\ tab[h].ref <= RefLocal)
    <3>1. h \in DOMAIN tab => tab[h].ref <= RefLocal
      BY DEF PoolCounts, tab
    <3> QED
      BY <2>1, <2>3, <2>4, <3>1, LifeTyped
  <2>6. up[h].ref <= RefLocal
    BY <2>3, <2>4, <2>5
  <2> QED
    BY <2>6 DEF up
<1>3. ASSUME table'[Pool] = table[Pool] PROVE PoolCounts'
  BY <1>3 DEF PoolCounts
<1>4. ASSUME NEW x \in Servers, x # Pool, NEW v, table' = [table EXCEPT ![x] = v]
      PROVE  PoolCounts'
  BY <1>3, <1>4 DEF TxnTypes
<1>5. ASSUME NEW id \in DOMAIN works, NEW via \in Servers, NEW first \in BOOLEAN,
             SolveBlock(Pool, via, id, first)
      PROVE  PoolCounts'
  BY <1>3, <1>5 DEF SolveBlock
<1>6. ASSUME NEW x \in Servers, Join(x) \/ SendAll(x) \/ NodeLost(x) PROVE PoolCounts'
  BY <1>3, <1>6 DEF Join, SendAll, NodeLost
<1>7. ASSUME NEW x \in Nodes, UpdateTable(x, "recv") PROVE PoolCounts'
  BY <1>4, <1>7 DEF UpdateTable
<1>8. ASSUME NEW x \in Nodes, NEW txns, AddNodeTxns(x, txns) PROVE PoolCounts'
  BY <1>4, <1>8 DEF AddNodeTxns
<1>9. ASSUME NEW x \in Nodes, NEW id \in DOMAIN works, ReadBlock(x, id) PROVE PoolCounts'
  BY <1>3, <1>9 DEF ReadBlock
<1>10. ASSUME NEW x \in Nodes, NEW id \in DOMAIN works, NEW got, ReadWork(x, id, got)
       PROVE  PoolCounts'
  BY <1>4, <1>10 DEF ReadWork, AddNodeBase
<1> QED
  BY <1>1, <1>2, <1>5, <1>6, <1>7, <1>8, <1>9, <1>10 DEF AloneNext

\* What the nodes have yet to read is of works that there are.
LEMMA KnownQueue ==
    ASSUME NEW q \in Seq(NetMsg), NEW w, Known(q, w)
    PROVE  /\ \A msg \in NetMsg :
                (msg.t = "work" => msg.id \in DOMAIN w) => Known(Append(q, msg), w)
           /\ q # <<>> => Known(Tail(q), w)
           /\ \A id \in 1..MaxWorks, first \in BOOLEAN : Known(Ahead(q, id, first), w)
<1>1. Len(q) \in Nat /\ DOMAIN q = 1..Len(q)
  OBVIOUS
<1>2. ASSUME NEW msg \in NetMsg, msg.t = "work" => msg.id \in DOMAIN w
      PROVE  Known(Append(q, msg), w)
  <2> DEFINE r == Append(q, msg)
  <2>1. /\ DOMAIN r = 1..(Len(q) + 1) /\ r[Len(q) + 1] = msg
        /\ \A i \in 1..Len(q) : r[i] = q[i]
    BY AppendProperties
  <2> HIDE DEF r
  <2>2. ASSUME NEW i \in DOMAIN r, r[i].t = "work" PROVE r[i].id \in DOMAIN w
    <3>1. i = Len(q) + 1 \/ i \in 1..Len(q)
      BY <1>1, <2>1
    <3> QED
      BY <1>1, <1>2, <2>1, <2>2, <3>1 DEF Known
  <2>3. Known(r, w)
    BY <2>2 DEF Known
  <2> QED
    BY <2>3 DEF r
<1>3. ASSUME q # <<>> PROVE Known(Tail(q), w)
  <2> DEFINE r == Tail(q)
  <2>1. /\ Len(q) # 0 /\ DOMAIN r = 1..(Len(q) - 1)
        /\ \A i \in 1..(Len(q) - 1) : r[i] = q[i + 1]
    BY <1>3, HeadTailProperties, EmptySeq
  <2> HIDE DEF r
  <2>2. \A i \in 1..(Len(q) - 1) : i + 1 \in DOMAIN q
    BY <1>1, <2>1
  <2>3. Known(r, w)
    BY <2>1, <2>2 DEF Known
  <2> QED
    BY <2>3 DEF r
<1>4. ASSUME NEW id \in 1..MaxWorks, NEW first \in BOOLEAN PROVE Known(Ahead(q, id, first), w)
  <2>1. BlockMsg(id) \in NetMsg /\ BlockMsg(id).t # "work"
    BY Messages DEF BlockMsg
  <2>2. Known(Append(q, BlockMsg(id)), w)
    BY <1>2, <2>1
  <2>3. Known(<<BlockMsg(id)>> \o q, w)
    <3> DEFINE r == <<BlockMsg(id)>> \o q
    <3>1. <<BlockMsg(id)>> \in Seq(NetMsg) /\ Len(<<BlockMsg(id)>>) = 1
      <4>1. \A msg \in NetMsg : <<msg>> \in Seq(NetMsg) /\ Len(<<msg>>) = 1
        OBVIOUS
      <4> QED
        BY <2>1, <4>1, Zenon
    <3>2. /\ DOMAIN r = 1..(Len(q) + 1) /\ r[1] = BlockMsg(id)
          /\ \A i \in 2..(Len(q) + 1) : r[i] = q[i - 1]
      BY <1>1, <3>1, ConcatProperties
    <3> HIDE DEF r
    <3>3. ASSUME NEW i \in DOMAIN r, r[i].t = "work" PROVE r[i].id \in DOMAIN w
      <4>1. i \in 2..(Len(q) + 1) /\ i - 1 \in DOMAIN q
        BY <1>1, <2>1, <3>2, <3>3
      <4> QED
        BY <3>2, <3>3, <4>1 DEF Known
    <3>4. Known(r, w)
      BY <3>3 DEF Known
    <3> QED
      BY <3>4 DEF r
  <2> QED
    BY <2>2, <2>3 DEF Ahead
<1> QED
  BY <1>2, <1>3, <1>4

LEMMA KnownWorksKept ==
    ASSUME TxnTypes, KnownWorks, AloneNext
    PROVE  KnownWorks'
<1> USE Sets
<1>1. \A y \in Nodes : down[y] \in Seq(NetMsg) /\ Known(down[y], works)
  BY DEF TxnTypes, KnownWorks
<1>2. ASSUME works' = works, NEW x \in Servers, NEW q, down' = [down EXCEPT ![x] = q],
             x \in Nodes => Known(q, works)
      PROVE  KnownWorks'
  BY <1>1, <1>2 DEF KnownWorks, TxnTypes
<1>3. ASSUME NEW msg \in NetMsg, ToAll(listed, msg), Len(works) <= Len(works'),
             \A i \in DOMAIN works : i \in DOMAIN works', msg.t = "work" => msg.id \in DOMAIN works'
      PROVE  KnownWorks'
  <2> SUFFICES ASSUME NEW y \in Nodes PROVE Known(down'[y], works')
    BY DEF KnownWorks
  <2>1. Known(down[y], works')
    BY <1>1, <1>3 DEF Known
  <2>2. Known(Append(down[y], msg), works')
    BY <1>1, <1>3, <2>1, KnownQueue
  <2> QED
    BY <1>3, <2>1, <2>2 DEF ToAll
<1>4. ASSUME NEW txns \in Templates, NewTemplate(Pool, txns) PROVE KnownWorks'
  <2> DEFINE msg == [t |-> "work", id |-> Len(works) + 1]
             work == [at |-> Pool, txns |-> txns]
  <2>1. /\ ToAll(listed, msg) /\ works' = Append(works, work) /\ Len(works) < MaxWorks
        /\ works \in Seq(Work)
    BY <1>4 DEF NewTemplate, Publish, TxnTypes
  <2>2. Len(works) \in Nat /\ Len(works) + 1 \in 1..MaxWorks
    BY <2>1
  <2>3. msg \in NetMsg /\ msg.id = Len(works) + 1
    BY <2>2, Messages
  <2>4. work \in Work
    BY TransactionTablesAssumption DEF Work
  <2> HIDE DEF msg, work
  <2>5. DOMAIN works = 1..Len(works) /\ DOMAIN works' = 1..(Len(works) + 1)
        /\ Len(works') = Len(works) + 1
    BY <2>1, <2>4, AppendProperties
  <2> QED
    BY <1>3, <2>1, <2>2, <2>3, <2>5
<1>5. ASSUME UpdateTable(Pool, "gbt") PROVE KnownWorks'
  <2> DEFINE new == adding[Pool]["gbt"]
  <2>1. /\ works' = works /\ new \in SUBSET Txns
        /\ ToAll(listed, TxnsMsg(new)) \/ UNCHANGED down
    BY <1>5 DEF UpdateTable, Publish, TxnTypes
  <2> HIDE DEF new
  <2>2. TxnsMsg(new) \in NetMsg /\ TxnsMsg(new).t # "work" /\ Len(works) \in Nat
    <3>1. TxnsMsg(new) \in NetMsg
      BY <2>1, Messages
    <3>2. TxnsMsg(new).t = "txns"
      BY DEF TxnsMsg
    <3> QED
      BY <3>1, <3>2 DEF TxnTypes
  <2>3. CASE ToAll(listed, TxnsMsg(new))
    BY <1>3, <2>1, <2>2, <2>3
  <2>4. CASE UNCHANGED down
    BY <2>1, <2>4 DEF KnownWorks
  <2> QED
    BY <2>1, <2>3, <2>4
<1>6. ASSUME NEW id \in DOMAIN works, NEW via \in Servers, NEW first \in BOOLEAN,
             SolveBlock(Pool, via, id, first)
      PROVE  KnownWorks'
  <2>1. id \in 1..MaxWorks
    BY WorkTyped
  <2>2. works' = works
    BY <1>6 DEF SolveBlock
  <2>3. \A y \in Nodes : down'[y] = Ahead(down[y], id, first) \/ down'[y] = down[y]
    BY <1>6 DEF SolveBlock
  <2>4. \A y \in Nodes : Known(Ahead(down[y], id, first), works)
    BY <1>1, <2>1, KnownQueue
  <2> QED
    BY <1>1, <2>2, <2>3, <2>4 DEF KnownWorks
<1>7. ASSUME NEW x \in Servers, Join(x) PROVE KnownWorks'
  BY <1>7 DEF Join, KnownWorks
<1>8. ASSUME NEW x \in Servers, SendAll(x) PROVE KnownWorks'
  <2> DEFINE msg == TxnsMsg(DOMAIN table[Pool])
  <2>1. DOMAIN table[Pool] \in SUBSET Txns
    BY TableRows DEF TxnTypes
  <2>2. msg \in NetMsg /\ msg.t # "work"
    BY <2>1, Messages DEF TxnsMsg
  <2>3. down' = [down EXCEPT ![x] = Append(@, msg)] /\ works' = works
    BY <1>8 DEF SendAll
  <2> HIDE DEF msg
  <2>4. x \in Nodes => Known(Append(down[x], msg), works)
    BY <1>1, <2>2, KnownQueue
  <2> QED
    BY <1>2, <2>3, <2>4
<1>9. ASSUME NEW x \in Servers, NodeLost(x) PROVE KnownWorks'
  <2>1. Known(<<>>, works)
    BY DEF Known
  <2> QED
    BY <1>2, <1>9, <2>1 DEF NodeLost
<1>10. ASSUME NEW x \in Nodes, down[x] # <<>>, down' = ReadDown(x), works' = works
       PROVE  KnownWorks'
  <2>1. Known(Tail(down[x]), works)
    BY <1>1, <1>10, KnownQueue
  <2> QED
    BY <1>2, <1>10, <2>1 DEF ReadDown
<1>11. ASSUME NEW x \in Nodes, UpdateTable(x, "recv") PROVE KnownWorks'
  <2>1. works' = works /\ down' = down
    BY <1>11 DEF UpdateTable, Publish
  <2> QED
    BY <2>1 DEF KnownWorks
<1>12. ASSUME NEW x \in Nodes, NEW msg, NEW txns, Reading(x, msg), AddNodeTxns(x, txns),
              down' = ReadDown(x)
       PROVE  KnownWorks'
  BY <1>10, <1>12 DEF Reading, AddNodeTxns
<1>13. ASSUME NEW x \in Nodes, NEW id, ReadBlock(x, id) PROVE KnownWorks'
  BY <1>10, <1>13 DEF ReadBlock, Reading
<1>14. ASSUME NEW x \in Nodes, NEW id, NEW got, ReadWork(x, id, got) PROVE KnownWorks'
  BY <1>10, <1>14 DEF ReadWork, Reading, AddNodeBase
<1> QED
  BY <1>4, <1>5, <1>6, <1>7, <1>8, <1>9, <1>11, <1>12, <1>13, <1>14 DEF AloneNext

\* The pool makes a template: it counts the transactions of it anew, and
\* sends work that makes the nodes do so.
LEMMA TemplateFollows ==
    ASSUME TxnTypes, TxnTypes', PoolCounts, NEW txns \in Templates, NewTemplate(Pool, txns),
           NEW x \in Nodes \intersect ready, Known(down[x], works),
           NEW h \in DOMAIN table'[Pool], NodeFollows(x, h)
    PROVE  NodeFollows(x, h)'
<1> USE Sets
<1> DEFINE msg == [t |-> "work", id |-> Len(works) + 1]
           work == [at |-> Pool, txns |-> txns]
           q == down[x]
           m == Soon(table[x], adding[x]["recv"], h)
           n == Life(table[Pool], h)
           k == Life(table'[Pool], h)
<1>1. /\ works \in Seq(Work) /\ Len(works) < MaxWorks /\ Len(works) \in Nat
      /\ q \in Seq(NetMsg) /\ table[Pool] \in Tables /\ table'[Pool] \in Tables
      /\ table[x] \in Tables /\ x \in listed /\ x # Pool
  <2>1. x \in Servers /\ x # Pool /\ x \in ready
    OBVIOUS
  <2>2. works \in Seq(Work) /\ Len(works) < MaxWorks /\ Len(works) \in Nat
    BY DEF TxnTypes, NewTemplate
  <2> QED
    BY <2>1, <2>2 DEF TxnTypes
<1>2. /\ down'[x] = Append(q, msg) /\ works' = Append(works, work)
      /\ table'[x] = table[x] /\ adding'[x]["recv"] = adding[x]["recv"]
  BY <1>1 DEF NewTemplate, Publish, ToAll, TxnTypes
<1>3. msg \in NetMsg /\ msg.t = "work" /\ msg.id = Len(works) + 1
  <2>1. Len(works) + 1 \in 1..MaxWorks
    BY <1>1
  <2> QED
    BY <2>1, Messages
<1>4. /\ \A i \in DOMAIN works : works'[i] = works[i]
      /\ works'[msg.id].txns = txns
  <2>1. work \in Work /\ work.txns = txns
    BY TransactionTablesAssumption DEF Work
  <2>2. DOMAIN works = 1..Len(works)
    BY <1>1
  <2> HIDE DEF work
  <2> QED
    BY <1>1, <1>2, <1>3, <2>1, <2>2, AppendProperties
<1>5. m \in Nat /\ n \in Nat /\ k \in Nat /\ n # 0
  <2>1. h \in DOMAIN table[Pool]
    BY PoolRefreshes
  <2> QED
    BY <1>1, <2>1, LifeTyped
<1>6. IF h \in txns THEN k <= RefLocal + 2 ELSE k = n
  BY PoolRefreshes
<1> HIDE DEF q, m, n, k
<1>7. Lasts(q, works', h, m, n)
  <2>1. Lasts(q, works, h, m, n)
    BY DEF NodeFollows, q, m, n
  <2>2. \A i \in DOMAIN q : q[i].t = "work" => works'[q[i].id] = works[q[i].id]
    BY <1>4 DEF Known, q
  <2>3. m <= m /\ n <= n
    BY <1>5
  <2> QED
    BY <1>1, <1>5, <2>1, <2>2, <2>3, LastsMore
<1>8. k <= After(n, msg, works', h)
  <2>1. After(n, msg, works', h) = IF h \in txns THEN RefRemote + 2 ELSE n
    BY <1>3, <1>4, <1>5 DEF After
  <2> QED
    BY <1>5, <1>6, <2>1
<1> HIDE DEF msg
<1>9. Lasts(Append(q, msg), works', h, m, k)
  BY <1>1, <1>3, <1>5, <1>7, <1>8, LastsAppend
<1> QED
  BY <1>2, <1>9 DEF NodeFollows, m, k

\* The pool brings its table up to date: it tells the nodes of what is new,
\* and they count down as it does; or it alone counts down.
LEMMA PublishFollows ==
    ASSUME TxnTypes, TxnTypes', PoolCounts, UpdateTable(Pool, "gbt"),
           NEW x \in Nodes \intersect ready, NEW h \in DOMAIN table'[Pool],
           h \in DOMAIN table[Pool] => NodeFollows(x, h)
    PROVE  NodeFollows(x, h)'
<1> USE Sets
<1> DEFINE tab == table[Pool]
           up == table'[Pool]
           new == adding[Pool]["gbt"]
           q == down[x]
           m == Soon(table[x], adding[x]["recv"], h)
           n == Life(tab, h)
           k == Life(up, h)
<1>1. /\ tab \in Tables /\ new \in SUBSET Txns /\ up = Updated(tab, new, RefLocal)
      /\ q \in Seq(NetMsg) /\ table[x] \in Tables /\ x \in listed /\ x # Pool
      /\ RefLocal \in 0..RefRemote
  BY DEF TxnTypes, UpdateTable, Updated
<1>2. /\ works' = works /\ table'[x] = table[x] /\ adding'[x]["recv"] = adding[x]["recv"]
      /\ IF new \ DOMAIN Purged(tab) # {} THEN down'[x] = Append(q, TxnsMsg(new))
         ELSE down'[x] = q
  BY <1>1 DEF UpdateTable, Publish, ToAll, TxnTypes
<1>3. h \in DOMAIN up
  OBVIOUS
<1>4. h \in DOMAIN tab => Lasts(q, works, h, m, n)
  BY DEF NodeFollows
<1>5. h \in DOMAIN tab => tab[h].ref <= RefLocal
  BY DEF PoolCounts
<1> HIDE DEF tab, up, new, q
<1>6. /\ up \in Tables
      /\ h \in DOMAIN Purged(tab) =>
           /\ h \in DOMAIN tab /\ h \in DOMAIN up /\ up[h].ref <= tab[h].ref
           /\ Life(up, h) = Life(tab, h) - 1 /\ Life(tab, h) - 1 \in Nat \ {0}
      /\ h \notin DOMAIN Purged(tab) /\ h \in new =>
           h \in DOMAIN up /\ up[h].ref = RefLocal /\ Life(up, h) = RefLocal + 2
      /\ h \notin DOMAIN Purged(tab) /\ h \notin new => h \notin DOMAIN up
  BY <1>1, UpdatedLife
<1>7. /\ m \in Nat /\ n \in Nat /\ k \in Nat
      /\ h \in DOMAIN tab =>
           /\ tab[h].ref \in Nat /\ tab[h].seen \in BOOLEAN
           /\ n = tab[h].ref + (IF tab[h].seen THEN 2 ELSE 1)
  BY <1>1, <1>6, LifeTyped
<1> HIDE DEF m, n, k
<1>8. h \in DOMAIN Purged(tab) => h \in DOMAIN tab /\ k = n - 1 /\ n # 0 /\ n <= RefLocal + 2
  BY <1>5, <1>6, <1>7 DEF k, n
<1>9. h \notin DOMAIN Purged(tab) => h \in new /\ k = RefLocal + 2
  BY <1>3, <1>6 DEF k
<1>10. CASE new \ DOMAIN Purged(tab) # {}
  <2> DEFINE msg == TxnsMsg(new)
  <2>1. msg \in NetMsg
    BY <1>1, Messages
  <2>2. \A v : After(v, msg, works, h)
                 = IF h \in new THEN RefRemote + 1 ELSE IF v = 0 THEN 0 ELSE v - 1
    BY DEF After, TxnsMsg
  <2>3. down'[x] = Append(q, msg)
    BY <1>2, <1>10
  <2> HIDE DEF msg
  <2>4. ASSUME h \in new PROVE Lasts(Append(q, msg), works, h, m, k)
    <3>1. Lasts(q, works, h, m, 0)
      BY <1>1, <1>7, LastsNone
    <3>2. After(0, msg, works, h) = RefRemote + 1
      BY <2>2, <2>4
    <3>3. k <= RefLocal + 2
      BY <1>7, <1>8, <1>9
    <3>4. k <= After(0, msg, works, h)
      BY <1>7, <3>2, <3>3
    <3> QED
      BY <1>1, <1>7, <2>1, <3>1, <3>4, LastsAppend
  <2>5. ASSUME h \notin new PROVE Lasts(Append(q, msg), works, h, m, k)
    <3>1. Lasts(q, works, h, m, n) /\ k = n - 1 /\ n # 0
      BY <1>4, <1>8, <1>9, <2>5
    <3>2. After(n, msg, works, h) = n - 1
      BY <2>2, <2>5, <3>1
    <3>3. k <= After(n, msg, works, h)
      BY <1>7, <3>1, <3>2
    <3> QED
      BY <1>1, <1>7, <2>1, <3>1, <3>3, LastsAppend
  <2>6. Lasts(Append(q, msg), works, h, m, k)
    BY <2>4, <2>5
  <2> QED
    BY <1>2, <2>3, <2>6 DEF NodeFollows, m, k, up
<1>11. CASE new \ DOMAIN Purged(tab) = {}
  <2>1. h \in DOMAIN Purged(tab)
    BY <1>9, <1>11
  <2>2. Lasts(q, works, h, m, n) /\ k <= n /\ m <= m
    BY <1>4, <1>7, <1>8, <2>1
  <2>3. Lasts(q, works, h, m, k)
    BY <1>1, <1>7, <2>2, LastsMore
  <2> QED
    BY <1>2, <1>11, <2>3 DEF NodeFollows, m, k, up
<1> QED
  BY <1>10, <1>11

\* The node brings its table up to date.
LEMMA UpdateFollows ==
    ASSUME TxnTypes, TxnTypes', NEW x \in Nodes, UpdateTable(x, "recv"),
           NEW h, h \in DOMAIN table[Pool], NodeFollows(x, h)
    PROVE  NodeFollows(x, h)'
<1> DEFINE tab == table[x]
           up == table'[x]
           new == adding[x]["recv"]
           q == down[x]
           m == Soon(tab, new, h)
           k == Soon(up, {}, h)
           n == Life(table[Pool], h)
<1>1. /\ tab \in Tables /\ new \in SUBSET Txns /\ new # {}
      /\ up = Updated(tab, new, RefRemote)
      /\ q \in Seq(NetMsg) /\ table[Pool] \in Tables /\ x # Pool /\ RefRemote \in 0..RefRemote
  BY Sets DEF TxnTypes, UpdateTable, Updated
<1>2. /\ works' = works /\ table'[Pool] = table[Pool] /\ adding'[x]["recv"] = {}
      /\ down'[x] = q
  BY <1>1, Sets DEF UpdateTable, Publish, TxnTypes
<1>3. Lasts(q, works, h, m, n)
  BY DEF NodeFollows
<1>4. h \in DOMAIN tab => Life(tab, h) \in Nat \ {0}
  BY <1>1, LifeTyped
<1> HIDE DEF tab, up, new, q
<1>5. /\ up \in Tables
      /\ h \in DOMAIN Purged(tab) => h \in DOMAIN tab /\ Life(up, h) = Life(tab, h) - 1
      /\ h \notin DOMAIN Purged(tab) => Life(tab, h) <= 1
      /\ h \notin DOMAIN Purged(tab) /\ h \in new => Life(up, h) = RefRemote + 2
  <2>1. /\ tab \in Tables /\ new \in SUBSET Txns /\ up = Updated(tab, new, RefRemote)
        /\ RefRemote \in 0..RefRemote
    BY <1>1
  <2>2. h \in DOMAIN Purged(tab) => h \in DOMAIN tab /\ Life(up, h) = Life(tab, h) - 1
    BY <2>1, UpdatedLife
  <2>3. h \notin DOMAIN Purged(tab) => Life(tab, h) <= 1
    BY <2>1, UpdatedLife
  <2>4. h \notin DOMAIN Purged(tab) /\ h \in new => Life(up, h) = RefRemote + 2
    BY <2>1, UpdatedLife
  <2>5. up \in Tables
    BY <2>1, UpdatedLife
  <2> QED
    BY <2>2, <2>3, <2>4, <2>5
<1>6. m \in Nat /\ k \in Nat /\ n \in Nat /\ Life(up, h) \in Nat
  BY <1>1, <1>5, LifeTyped
<1>7. m <= k
  <2>1. m = IF h \in DOMAIN tab THEN Life(tab, h) - 1
            ELSE IF h \in new THEN RefRemote + 1 ELSE 0
    BY <1>1 DEF Soon
  <2>2. k = Life(up, h)
    BY DEF Soon
  <2> HIDE DEF m, k
  <2>3. CASE h \in DOMAIN Purged(tab)
    BY <1>5, <1>6, <2>1, <2>2, <2>3, Sets
  <2>4. CASE h \notin DOMAIN Purged(tab) /\ h \in DOMAIN tab
    BY <1>4, <1>5, <1>6, <2>1, <2>2, <2>4, Sets
  <2>5. CASE h \notin DOMAIN Purged(tab) /\ h \notin DOMAIN tab
    BY <1>5, <1>6, <2>1, <2>2, <2>5, Sets
  <2> QED
    BY <2>3, <2>4, <2>5
<1> HIDE DEF m, n, k
<1>8. Lasts(q, works, h, k, n)
  <2>1. n <= n
    BY <1>6
  <2> QED
    BY <1>1, <1>3, <1>6, <1>7, <2>1, LastsMore
<1> QED
  BY <1>2, <1>8 DEF NodeFollows, n, k, up, q

\* All of the pool's table is sent to a node that has joined.
LEMMA SendAllFollows ==
    ASSUME TxnTypes, TxnTypes', PoolCounts, NEW x \in Nodes, SendAll(x),
           NEW h \in DOMAIN table[Pool]
    PROVE  NodeFollows(x, h)'
<1> USE Sets
<1> DEFINE msg == TxnsMsg(DOMAIN table[Pool])
           q == down[x]
           m == Soon(table[x], adding[x]["recv"], h)
           k == Life(table[Pool], h)
<1>1. /\ q \in Seq(NetMsg) /\ table[Pool] \in Tables /\ table[x] \in Tables
      /\ down'[x] = Append(q, msg) /\ UNCHANGED <<table, adding, works>>
  BY DEF TxnTypes, SendAll
<1>2. msg \in NetMsg
  <2>1. DOMAIN table[Pool] \in SUBSET Txns
    BY <1>1, TableRows
  <2> QED
    BY <2>1, Messages
<1>3. m \in Nat /\ k \in Nat /\ k <= RefLocal + 2
  <2>1. table[Pool][h].ref <= RefLocal
    BY DEF PoolCounts
  <2>2. /\ table[Pool][h].ref \in Nat /\ table[Pool][h].seen \in BOOLEAN
        /\ Life(table[Pool], h) = table[Pool][h].ref + (IF table[Pool][h].seen THEN 2 ELSE 1)
    BY <1>1, LifeTyped
  <2>3. m \in Nat
    BY <1>1, LifeTyped
  <2> QED
    BY <2>1, <2>2, <2>3
<1>4. After(0, msg, works, h) = RefRemote + 1
  BY DEF After, TxnsMsg
<1> HIDE DEF msg, q, m, k
<1>5. Lasts(q, works, h, m, 0)
  BY <1>1, <1>3, LastsNone
<1>6. k <= After(0, msg, works, h)
  BY <1>3, <1>4
<1>7. Lasts(Append(q, msg), works, h, m, k)
  BY <1>1, <1>2, <1>3, <1>5, <1>6, LastsAppend
<1> QED
  BY <1>1, <1>7 DEF NodeFollows, m, k

\* A block that the pool has found goes to a node.
LEMMA SolveFollows ==
    ASSUME TxnTypes, TxnTypes', NEW id \in DOMAIN works, NEW via \in Servers, NEW first \in BOOLEAN,
           SolveBlock(Pool, via, id, first), NEW x \in Nodes, NEW h, NodeFollows(x, h)
    PROVE  NodeFollows(x, h)'
<1> USE Sets
<1> DEFINE q == down[x]
           m == Soon(table[x], adding[x]["recv"], h)
           n == Life(table[Pool], h)
<1>1. /\ q \in Seq(NetMsg) /\ table[Pool] \in Tables /\ table[x] \in Tables
      /\ UNCHANGED <<table, adding, works>>
      /\ down'[x] = Ahead(q, id, first) \/ down'[x] = q
  BY DEF TxnTypes, SolveBlock
<1>2. id \in 1..MaxWorks /\ BlockMsg(id) \in NetMsg
  BY WorkTyped, Messages
<1>3. m \in Nat /\ n \in Nat
  BY <1>1, LifeTyped
<1>4. Lasts(q, works, h, m, n)
  BY DEF NodeFollows
<1>5. After(n, BlockMsg(id), works, h) = n
  BY DEF After, BlockMsg
<1> HIDE DEF q, m, n
<1>6. Lasts(<<BlockMsg(id)>> \o q, works, h, m, n)
  BY <1>1, <1>2, <1>4, LastsBlock
<1>7. Lasts(Append(q, BlockMsg(id)), works, h, m, n)
  <2>1. n <= After(n, BlockMsg(id), works, h)
    BY <1>3, <1>5
  <2> QED
    BY <1>1, <1>2, <1>3, <1>4, <2>1, LastsAppend
<1>8. Lasts(down'[x], works, h, m, n)
  BY <1>1, <1>4, <1>6, <1>7 DEF Ahead
<1> QED
  BY <1>1, <1>8 DEF NodeFollows, m, n

\* A node reads a list of transactions: it counts those anew, and will have
\* counted the others down when its table is up to date.
LEMMA ReadTxnsFollows ==
    ASSUME TxnTypes, TxnTypes', NEW x \in Nodes, NEW txns \in SUBSET Txns,
           Reading(x, TxnsMsg(txns)), AddNodeTxns(x, txns), down' = ReadDown(x),
           NEW h, NodeFollows(x, h)
    PROVE  NodeFollows(x, h)'
<1> USE Sets
<1> DEFINE tab == table[x]
           new == NewTxns(tab, txns)
           up == table'[x]
           v == Life(tab, h)
           k == Soon(up, adding'[x]["recv"], h)
<1>1. x \in Servers /\ tab \in Tables /\ x # Pool
  BY DEF TxnTypes
<1>2. /\ up = Refreshed(tab, txns, TRUE) /\ adding'[x]["recv"] = new
      /\ table'[Pool] = table[Pool] /\ works' = works
      /\ down[x] # <<>> /\ Head(down[x]) = TxnsMsg(txns) /\ adding[x]["recv"] = {}
      /\ down'[x] = Tail(down[x])
  BY <1>1 DEF Reading, AddNodeTxns, ReadDown, TxnTypes
<1>3. /\ up \in Tables /\ DOMAIN up = DOMAIN tab
      /\ \A g \in DOMAIN tab :
           up[g] = IF g \notin txns THEN tab[g] ELSE [ref |-> RefRemote, seen |-> TRUE]
  <2>1. up \in Tables
    BY DEF TxnTypes
  <2> QED
    BY <1>2, <2>1 DEF Refreshed
<1>4. new = {g \in txns : g \in DOMAIN tab => tab[g].ref <= RefReturned}
  BY DEF NewTxns
<1> HIDE DEF tab, new, up
<1>5. Soon(tab, {}, h) = v /\ v \in Nat /\ (v # 0 <=> h \in DOMAIN tab)
  BY <1>1, LifeTyped DEF Soon
<1>6. After(v, TxnsMsg(txns), works, h)
        = IF h \in txns THEN RefRemote + 1 ELSE IF v = 0 THEN 0 ELSE v - 1
  BY DEF After, TxnsMsg
<1>7. k = IF new = {} THEN Life(up, h)
          ELSE IF h \in DOMAIN up THEN Life(up, h) - 1
          ELSE IF h \in new THEN RefRemote + 1 ELSE 0
  BY <1>2 DEF Soon
<1>8. h \in DOMAIN tab /\ h \in txns => Life(up, h) = RefRemote + 2
  <2> SUFFICES ASSUME h \in DOMAIN tab, h \in txns PROVE Life(up, h) = RefRemote + 2
    OBVIOUS
  <2>1. up[h] = [ref |-> RefRemote, seen |-> TRUE] /\ h \in DOMAIN up
    BY <1>3
  <2> QED
    BY <2>1 DEF Life
<1>9. h \notin txns => Life(up, h) = v
  BY <1>3 DEF Life
<1> HIDE DEF v, k
<1>10. After(v, TxnsMsg(txns), works, h) <= k
  <2>1. CASE h \in txns /\ h \in DOMAIN tab
    BY <1>3, <1>6, <1>7, <1>8, <2>1
  <2>2. CASE h \in txns /\ h \notin DOMAIN tab
    <3>1. h \in new /\ new # {} /\ h \notin DOMAIN up
      BY <1>3, <1>4, <2>2
    <3> QED
      BY <1>6, <1>7, <2>2, <3>1
  <2>3. CASE h \notin txns
    <3>1. h \notin new
      BY <1>4, <2>3
    <3> QED
      BY <1>3, <1>5, <1>6, <1>7, <1>9, <2>3, <3>1
  <2> QED
    BY <2>1, <2>2, <2>3
<1>11. After(Soon(table[x], adding[x]["recv"], h), Head(down[x]), works, h)
         <= Soon(table'[x], adding'[x]["recv"], h)
  <2>1. /\ Soon(table[x], adding[x]["recv"], h) = v
        /\ Soon(table'[x], adding'[x]["recv"], h) = k
    BY <1>2, <1>5 DEF tab, up, k
  <2> QED
    BY <1>2, <1>10, <2>1
<1> QED
  BY <1>1, <1>2, <1>11, NodeReads

\* A node reads of work: it counts the transactions of it that it has anew.
LEMMA ReadWorkFollows ==
    ASSUME TxnTypes, TxnTypes', NEW x \in Nodes, NEW id \in DOMAIN works,
           NEW got \in Answered(x, id), ReadWork(x, id, got), NEW h, NodeFollows(x, h)
    PROVE  NodeFollows(x, h)'
<1> USE Sets
<1> DEFINE tab == table[x]
           txns == works[id].txns
           ref == Refreshed(tab, txns, TRUE)
           up == table'[x]
           msg == [t |-> "work", id |-> id]
           v == Life(tab, h)
<1>1. x \in Servers /\ tab \in Tables /\ x # Pool /\ txns \in SUBSET Txns
  BY WorkTyped DEF TxnTypes
<1>2. /\ up = With(ref, got, RefRemote)
      /\ table'[Pool] = table[Pool] /\ works' = works /\ adding' = adding
      /\ down[x] # <<>> /\ Head(down[x]) = msg /\ adding[x]["recv"] = {}
      /\ down'[x] = Tail(down[x])
  BY <1>1 DEF Reading, ReadWork, AddNodeBase, Rebuilt, ReadDown, TxnTypes
<1>3. got \in SUBSET Txns
  BY <1>1 DEF Answered, Missing
<1>4. /\ ref \in Tables /\ DOMAIN ref = DOMAIN tab
      /\ \A g \in DOMAIN tab :
           ref[g] = IF g \notin txns THEN tab[g] ELSE [ref |-> RefRemote, seen |-> TRUE]
  <2>1. ref \in Tables /\ DOMAIN ref = DOMAIN tab
    BY <1>1, RefreshedRows
  <2> QED
    BY <2>1 DEF Refreshed
<1>5. After(v, msg, works, h) = IF h \in txns /\ v # 0 THEN RefRemote + 2 ELSE v
  BY DEF After
<1> HIDE DEF tab, txns, ref, up, msg
<1>6. /\ h \in DOMAIN tab => h \in DOMAIN up /\ up[h] = ref[h]
      /\ up \in Tables
  <2>1. up \in Tables
    BY DEF TxnTypes, up
  <2> QED
    BY <1>2, <1>3, <1>4, <2>1 DEF With
<1>7. /\ v \in Nat /\ (v # 0 <=> h \in DOMAIN tab) /\ Life(up, h) \in Nat
      /\ Soon(tab, {}, h) = v /\ Soon(up, {}, h) = Life(up, h)
  BY <1>1, <1>6, LifeTyped DEF Soon
<1>8. h \in DOMAIN tab => Life(up, h) = IF h \in txns THEN RefRemote + 2 ELSE v
  <2>1. ASSUME h \in DOMAIN tab, h \in txns PROVE Life(up, h) = RefRemote + 2
    <3>1. up[h] = [ref |-> RefRemote, seen |-> TRUE] /\ h \in DOMAIN up
      BY <1>4, <1>6, <2>1
    <3> QED
      BY <3>1 DEF Life
  <2>2. ASSUME h \in DOMAIN tab, h \notin txns PROVE Life(up, h) = v
    BY <1>4, <1>6, <2>2 DEF Life
  <2> QED
    BY <2>1, <2>2
<1> HIDE DEF v
<1>9. After(v, msg, works, h) <= Life(up, h)
  BY <1>5, <1>7, <1>8
<1>10. After(Soon(table[x], adding[x]["recv"], h), Head(down[x]), works, h)
         <= Soon(table'[x], adding'[x]["recv"], h)
  <2>1. /\ Soon(table[x], adding[x]["recv"], h) = v
        /\ Soon(table'[x], adding'[x]["recv"], h) = Life(up, h)
    BY <1>2, <1>7 DEF tab, up
  <2> QED
    BY <1>2, <1>9, <2>1
<1> QED
  BY <1>1, <1>2, <1>10, NodeReads

\* A node reads of a block.
LEMMA ReadBlockFollows ==
    ASSUME TxnTypes, TxnTypes', NEW x \in Nodes, NEW id, ReadBlock(x, id),
           NEW h, NodeFollows(x, h)
    PROVE  NodeFollows(x, h)'
<1> USE Sets
<1> DEFINE m == Soon(table[x], adding[x]["recv"], h)
<1>1. x \in Servers /\ table[x] \in Tables /\ x # Pool
  BY DEF TxnTypes
<1>2. /\ UNCHANGED <<table, adding, works>>
      /\ down[x] # <<>> /\ Head(down[x]) = BlockMsg(id) /\ down'[x] = Tail(down[x])
  BY <1>1 DEF Reading, ReadBlock, ReadDown, TxnTypes
<1>3. m \in Nat /\ After(m, BlockMsg(id), works, h) = m
  BY <1>1, LifeTyped DEF After, BlockMsg
<1>4. After(m, Head(down[x]), works, h) <= Soon(table'[x], adding'[x]["recv"], h)
  BY <1>2, <1>3
<1> QED
  BY <1>1, <1>2, <1>4, NodeReads

LEMMA FollowsInit == TxnInit => Follows
<1> SUFFICES ASSUME TxnInit PROVE Follows
  OBVIOUS
<1>1. /\ table[Pool] = <<>> /\ ready = {}
      /\ \A x \in Nodes : down[x] = <<>>
  BY Sets DEF TxnInit
<1>2. PoolCounts
  BY <1>1 DEF PoolCounts
<1>3. KnownWorks
  BY <1>1 DEF KnownWorks, Known
<1> QED
  BY <1>1, <1>2, <1>3 DEF Follows

\* Each node keeps up with each step.
LEMMA NodeNext ==
    ASSUME TxnTypes, TxnTypes', PoolCounts, KnownWorks, AloneNext,
           \A x \in Nodes \intersect ready : \A h \in DOMAIN table[Pool] : NodeFollows(x, h),
           NEW y \in Nodes \intersect ready', NEW h \in DOMAIN table'[Pool]
    PROVE  NodeFollows(y, h)'
<1> USE Sets
<1>1. y \in Servers /\ y \in Nodes /\ y # Pool
  OBVIOUS
<1>2. ASSUME NEW txns \in Templates, NewTemplate(Pool, txns) PROVE NodeFollows(y, h)'
  <2>1. y \in ready /\ h \in DOMAIN table[Pool]
    BY <1>2, PoolRefreshes DEF NewTemplate, netVars
  <2>2. Known(down[y], works)
    BY DEF KnownWorks
  <2> QED
    BY <1>2, <2>1, <2>2, TemplateFollows
<1>3. ASSUME UpdateTable(Pool, "gbt") PROVE NodeFollows(y, h)'
  <2>1. y \in ready
    BY <1>3 DEF UpdateTable, netVars
  <2> QED
    BY <1>3, <2>1, PublishFollows
<1>4. ASSUME y \in ready, table'[Pool] = table[Pool], works' = works, table'[y] = table[y],
             adding'[y] = adding[y], down'[y] = down[y]
      PROVE  NodeFollows(y, h)'
  BY <1>4, NodeSame
<1>5. ASSUME NEW id \in DOMAIN works, NEW via \in Servers, NEW first \in BOOLEAN,
             SolveBlock(Pool, via, id, first)
      PROVE  NodeFollows(y, h)'
  <2>1. y \in ready /\ h \in DOMAIN table[Pool]
    BY <1>5 DEF SolveBlock, netVars
  <2> QED
    BY <1>1, <1>5, <2>1, SolveFollows
<1>6. ASSUME NEW x \in Servers, Join(x) PROVE NodeFollows(y, h)'
  BY <1>4, <1>6 DEF Join
<1>7. ASSUME NEW x \in Servers, SendAll(x) PROVE NodeFollows(y, h)'
  <2>1. UNCHANGED <<table, adding, works>> /\ ready' = ready \union {x}
    BY <1>7 DEF SendAll
  <2>2. CASE y = x
    BY <1>1, <1>7, <2>1, <2>2, SendAllFollows
  <2>3. CASE y # x
    <3>1. down'[y] = down[y]
      BY <1>1, <1>7, <2>3 DEF SendAll, TxnTypes
    <3> QED
      BY <1>4, <2>1, <2>3, <3>1
  <2> QED
    BY <2>2, <2>3
<1>8. ASSUME NEW x \in Servers, NodeLost(x) PROVE NodeFollows(y, h)'
  <2>1. UNCHANGED <<table, adding, works>> /\ y \in ready /\ y # x
    BY <1>8 DEF NodeLost
  <2>2. down'[y] = down[y]
    BY <1>1, <1>8, <2>1 DEF NodeLost, TxnTypes
  <2> QED
    BY <1>4, <2>1, <2>2
<1>9. ASSUME NEW x \in Nodes, UpdateTable(x, "recv") PROVE NodeFollows(y, h)'
  <2>1. /\ y \in ready /\ table'[Pool] = table[Pool] /\ UNCHANGED <<works, down>>
        /\ y # x => table'[y] = table[y] /\ adding'[y] = adding[y]
    BY <1>1, <1>9 DEF UpdateTable, Publish, TxnTypes, netVars
  <2> QED
    BY <1>4, <1>9, <2>1, UpdateFollows
<1>10. ASSUME NEW x \in Nodes, NEW txns \in SUBSET Txns, Reading(x, TxnsMsg(txns)),
              AddNodeTxns(x, txns), down' = ReadDown(x)
       PROVE  NodeFollows(y, h)'
  <2>1. /\ y \in ready /\ table'[Pool] = table[Pool] /\ UNCHANGED works
        /\ y # x => table'[y] = table[y] /\ adding'[y] = adding[y] /\ down'[y] = down[y]
    BY <1>1, <1>10 DEF AddNodeTxns, ReadDown, TxnTypes, netVars
  <2> QED
    BY <1>4, <1>10, <2>1, ReadTxnsFollows
<1>11. ASSUME NEW x \in Nodes, NEW id \in DOMAIN works, ReadBlock(x, id)
       PROVE  NodeFollows(y, h)'
  <2>1. /\ y \in ready /\ UNCHANGED <<table, adding, works>>
        /\ y # x => down'[y] = down[y]
    BY <1>1, <1>11 DEF ReadBlock, ReadDown, TxnTypes, netVars
  <2> QED
    BY <1>4, <1>11, <2>1, ReadBlockFollows
<1>12. ASSUME NEW x \in Nodes, NEW id \in DOMAIN works, NEW got \in Answered(x, id),
              ReadWork(x, id, got)
       PROVE  NodeFollows(y, h)'
  <2>1. /\ y \in ready /\ table'[Pool] = table[Pool] /\ UNCHANGED <<works, adding>>
        /\ y # x => table'[y] = table[y] /\ down'[y] = down[y]
    BY <1>1, <1>12 DEF ReadWork, AddNodeBase, ReadDown, TxnTypes, netVars
  <2> QED
    BY <1>4, <1>12, <2>1, ReadWorkFollows
<1> QED
  BY <1>2, <1>3, <1>5, <1>6, <1>7, <1>8, <1>9, <1>10, <1>11, <1>12 DEF AloneNext

LEMMA FollowsNext == TxnTypes /\ TxnTypes' /\ Links /\ Follows /\ [TxnNext]_txnVars => Follows'
<1> SUFFICES ASSUME TxnTypes, TxnTypes', Links, Follows, [TxnNext]_txnVars, Alone'
             PROVE  /\ PoolCounts' /\ KnownWorks'
                    /\ \A x \in Nodes \intersect ready' : \A h \in DOMAIN table'[Pool] :
                         NodeFollows(x, h)'
  BY DEF Follows
<1>1. /\ Alone /\ PoolCounts /\ KnownWorks
      /\ \A x \in Nodes \intersect ready : \A h \in DOMAIN table[Pool] : NodeFollows(x, h)
  BY AloneBefore DEF Follows
<1>2. CASE TxnNext
  <2>1. AloneNext
    BY <1>1, <1>2, AloneSteps
  <2>2. PoolCounts' /\ KnownWorks'
    BY <1>1, <2>1, PoolCountsKept, KnownWorksKept
  <2>3. \A x \in Nodes \intersect ready' : \A h \in DOMAIN table'[Pool] : NodeFollows(x, h)'
    BY <1>1, <2>1, NodeNext
  <2> QED
    BY <2>2, <2>3
<1>3. CASE UNCHANGED txnVars
  BY <1>1, <1>3 DEF txnVars, PoolCounts, KnownWorks, NodeFollows
<1> QED
  BY <1>2, <1>3

\* What lasts is in the node's table, or on its way there.
LEMMA FollowsSound == TxnTypes /\ Follows => NodesFollow
<1> SUFFICES ASSUME TxnTypes, Follows, Alone, NEW x \in Nodes \intersect ready,
                    NEW h \in DOMAIN table[Pool], h \notin DOMAIN table[x]
             PROVE  h \in UnderWay(x)
  BY DEF NodesFollow, Alone
<1> DEFINE q == down[x]
           new == adding[x]["recv"]
           m == Soon(table[x], new, h)
           n == Life(table[Pool], h)
<1>1. q \in Seq(NetMsg) /\ table[x] \in Tables /\ table[Pool] \in Tables
  BY Sets DEF TxnTypes
<1>2. m \in Nat /\ n \in Nat /\ n # 0
  BY <1>1, LifeTyped
<1>3. Lasts(q, works, h, m, n)
  BY DEF Follows, NodeFollows
<1> HIDE DEF q, n
<1>4. m # 0 \/ \E i \in DOMAIN q : q[i].t = "txns" /\ h \in q[i].txns
  BY <1>1, <1>2, <1>3, LastsSound
<1>5. m # 0 => h \in new
  BY DEF Soon, Life
<1> QED
  BY <1>4, <1>5 DEF UnderWay, q

\* add_txn, update_txns: without remote servers, whatever the pool has in its table
\* and will not send again, a node has too or has yet to read (NodesFollow), for any
\* servers, transactions and works: it counts as the pool does, and from more.
THEOREM NodesFollowThm == TxnSpec => []NodesFollow
<1>1. TxnInit => TxnTypes /\ Links /\ Follows
  BY TypesInit, LinksInit, FollowsInit
<1>2. TxnTypes /\ Links /\ Follows /\ [TxnNext]_txnVars => (TxnTypes /\ Links /\ Follows)'
  BY TypesNext, LinksNext, FollowsNext
<1>3. TxnTypes /\ Follows => NodesFollow
  BY FollowsSound
<1> QED
  BY <1>1, <1>2, <1>3, PTL DEF TxnSpec

-----------------------------------------------------------------------------
(* DiffTold, for any difficulties and any number of threads, looks at what has *)
(* been told only when no message is in hand.  Informed says what makes that  *)
(* come out right: the last message made, if it is in hand or was the last to *)
(* be queued, has the difficulty in it.                                       *)

DiffMsg == [by : Tellers, diff : Nat]

\* The types the proof needs.
DiffTypes ==
    /\ flight \in Seq(DiffMsg) /\ behind \in 0..Len(flight)
    /\ diff \in Nat /\ suggest \in Nat /\ limit \in Nat /\ workerMin \in Nat
    /\ reading \in [ShareThreads -> Nat]
    /\ auth = "upstream" => mode = "remote"

\* Who DiffTold does not speak of.
Excused ==
    \/ ~ subscribed \/ auth = "failed" \/ dropped
    \/ mode = "remote" /\ auth # "no"

\* The last message of flight is newer than all that were queued, and has the
\* difficulty in it; or none is newer, and the newest has been queued.
Newest ==
    \/ behind < Len(flight) /\ flight[Len(flight)].diff = diff
    \/ behind = Len(flight) /\ (late \/ told = diff)

Informed == Excused \/ telling # {} \/ Newest

DiffInv == DiffTypes /\ Informed

\* What remains when message i is taken out.
LEMMA Removed ==
    ASSUME NEW S, NEW s \in Seq(S), NEW i \in 1..Len(s)
    PROVE  /\ RemoveAt(s, i) \in Seq(S) /\ Len(RemoveAt(s, i)) = Len(s) - 1
           /\ i < Len(s) => RemoveAt(s, i)[Len(s) - 1] = s[Len(s)]
<1> DEFINE a == SubSeq(s, 1, i - 1)
           b == SubSeq(s, i + 1, Len(s))
<1>1. a \in Seq(S) /\ Len(a) = i - 1
  BY SubSeqProperties
<1>2. b \in Seq(S) /\ Len(b) = Len(s) - i
  BY SubSeqProperties
<1>3. i < Len(s) => b[Len(s) - i] = s[Len(s)]
  BY SubSeqProperties
<1> HIDE DEF a, b
<1>4. /\ a \o b \in Seq(S) /\ Len(a \o b) = Len(s) - 1
      /\ i < Len(s) => (a \o b)[Len(s) - 1] = b[Len(s) - i]
  <2>1. /\ a \o b \in Seq(S) /\ Len(a \o b) = Len(a) + Len(b)
        /\ \A j \in 1..(Len(a) + Len(b)) :
              (a \o b)[j] = IF j <= Len(a) THEN a[j] ELSE b[j - Len(a)]
    BY <1>1, <1>2, ConcatProperties
  <2>2. i < Len(s) => Len(s) - 1 \in 1..(Len(a) + Len(b)) /\ ~ (Len(s) - 1 <= Len(a))
                      /\ Len(s) - 1 - Len(a) = Len(s) - i
    BY <1>1, <1>2
  <2>3. Len(s) \in Nat /\ Len(a) + Len(b) = Len(s) - 1
    BY <1>1, <1>2
  <2>4. ASSUME i < Len(s) PROVE (a \o b)[Len(s) - 1] = b[Len(s) - i]
    <3>1. (a \o b)[Len(s) - 1] = b[Len(s) - 1 - Len(a)]
      BY <2>1, <2>2, <2>4
    <3> QED
      BY <3>1, <2>2, <2>4
  <2> QED
    BY <2>1, <2>3, <2>4
<1>5. RemoveAt(s, i) = a \o b
  BY DEF RemoveAt, a, b
<1> QED
  BY <1>3, <1>4, <1>5

\* The limits put on a difficulty.
LEMMA Bounded ==
    ASSUME NEW a \in Nat, NEW b \in Nat
    PROVE  Lowest(a, b) \in Nat /\ Highest(a, b) \in Nat /\ Capped(a) \in Nat
BY ClientDifficultyAssumption DEF Lowest, Highest, Capped

LEMMA InitInv == DiffInit => DiffInv
<1> SUFFICES ASSUME DiffInit PROVE DiffInv
  OBVIOUS
<1>1. Start \in Nat /\ HighDiff \in Nat /\ Diffs \subseteq Nat /\ WorkerMins \subseteq Nat
  BY ClientDifficultyAssumption
<1>2. suggest \in Nat /\ diff = Highest(Start, suggest)
  BY <1>1 DEF DiffInit
<1>3. diff \in Nat
  BY <1>1, <1>2, Bounded
<1>4. DiffTypes
  BY <1>1, <1>2, <1>3 DEF DiffInit, DiffTypes
<1> QED
  BY <1>4 DEF DiffInit, DiffInv, Informed, Excused

\* A message is queued, perhaps before an older one or after a newer.
LEMMA QueueMessageInv ==
    ASSUME DiffInv, NEW i \in DOMAIN flight, QueueMessage(i) PROVE DiffInv'
<1>1. flight \in Seq(DiffMsg) /\ behind \in 0..Len(flight) /\ i \in 1..Len(flight)
  BY DEF DiffInv, DiffTypes
<1>2. /\ flight' \in Seq(DiffMsg) /\ Len(flight') = Len(flight) - 1
      /\ i < Len(flight) => flight'[Len(flight')] = flight[Len(flight)]
  BY <1>1, Removed DEF QueueMessage
<1>3. /\ told' = flight[i].diff /\ (late' <=> i <= behind)
      /\ behind' = IF i <= behind THEN behind - 1 ELSE i - 1
  BY DEF QueueMessage
<1>4. UNCHANGED <<diff, suggest, limit, workerMin, reading, auth, mode, subscribed, dropped,
                  telling>>
  BY DEF QueueMessage, stateVars, wishVars
<1>5. DiffTypes'
  BY <1>1, <1>2, <1>3, <1>4 DEF DiffInv, DiffTypes
<1>6. Newest => Newest'
  <2>1. CASE i <= behind
    BY <1>1, <1>2, <1>3, <1>4, <2>1 DEF Newest
  <2>2. CASE i > behind /\ i < Len(flight)
    BY <1>1, <1>2, <1>3, <1>4, <2>2 DEF Newest
  <2>3. CASE i > behind /\ i = Len(flight)
    BY <1>1, <1>2, <1>3, <1>4, <2>3 DEF Newest
  <2> QED
    BY <1>1, <2>1, <2>2, <2>3
<1> QED
  BY <1>4, <1>5, <1>6 DEF DiffInv, Informed, Excused

\* A step that leaves the messages alone, and tells of a change if there is any.
LEMMA QuietDiff ==
    ASSUME DiffInv, DiffTypes', UNCHANGED tellVars,
           \/ telling' # {}
           \/ Excused'
           \/ /\ UNCHANGED <<diff, telling, mode, subscribed, auth>>
              /\ (dropped => dropped')
    PROVE  DiffInv'
BY DEF DiffInv, Informed, Newest, Excused, tellVars

\* What a name and a password ask for is a difficulty.
LEMMA AppliedTypes ==
    ASSUME DiffTypes, NEW override \in Overrides \union {0}, NEW password \in Diffs \union {0},
           Applied(override, password)
    PROVE  diff' \in Nat /\ suggest' \in Nat
<1>1. override \in Nat /\ password \in Nat /\ PoolMin \in Nat /\ diff \in Nat /\ suggest \in Nat
  BY ClientDifficultyAssumption DEF DiffTypes
<1>2. Capped(Highest(password, PoolMin)) \in Nat
  BY <1>1, Bounded
<1> QED
  BY <1>1, <1>2 DEF Applied

LEMMA NextInv == DiffInv /\ [DiffNext]_diffVars => DiffInv'
<1> SUFFICES ASSUME DiffInv, [DiffNext]_diffVars PROVE DiffInv'
  OBVIOUS
<1>1. CASE UNCHANGED diffVars
  BY <1>1 DEF diffVars, DiffInv, DiffTypes, Informed, Excused, Newest
<1>2. ASSUME NEW th \in Tellers, MakeMessage(th) PROVE DiffInv'
  <2>1. flight' = Append(flight, [by |-> th, diff |-> diff]) /\ diff \in Nat
        /\ flight \in Seq(DiffMsg)
    BY <1>2 DEF MakeMessage, DiffInv, DiffTypes
  <2>2. flight' \in Seq(DiffMsg) /\ Len(flight') = Len(flight) + 1
        /\ flight'[Len(flight')].diff = diff
    <3>1. [by |-> th, diff |-> diff] \in DiffMsg
      BY <1>2, <2>1 DEF DiffMsg
    <3> QED
      BY <2>1, <3>1
  <2>3. UNCHANGED <<behind, diff, suggest, limit, workerMin, reading, auth, mode>>
    BY <1>2 DEF MakeMessage, stateVars, wishVars
  <2> QED
    BY <2>2, <2>3 DEF DiffInv, DiffTypes, Informed, Newest
<1>3. ASSUME NEW i \in DOMAIN flight, QueueMessage(i) PROVE DiffInv'
  BY <1>3, QueueMessageInv
<1>4. ASSUME NEW th \in RecvThreads,
             \/ \E agent \in BOOLEAN : Subscribe(th, agent)
             \/ \E wish \in Diffs : Suggest(th, wish)
      PROVE DiffInv'
  <2>1. ASSUME NEW agent \in BOOLEAN, Subscribe(th, agent) PROVE DiffInv'
    <3>1. Rental \in Nat
      BY ClientDifficultyAssumption
    <3>2. DiffTypes'
      BY <2>1, <3>1 DEF Subscribe, Changed, DiffInv, DiffTypes, tellVars
    <3>3. telling' # {} /\ UNCHANGED tellVars
      BY <2>1 DEF Subscribe, Changed
    <3> QED
      BY <3>2, <3>3, QuietDiff
  <2>2. ASSUME NEW wish \in Diffs, Suggest(th, wish) PROVE DiffInv'
    <3>1. Highest(wish, PoolMin) \in Nat
      BY ClientDifficultyAssumption, Bounded
    <3>2. DiffTypes'
      BY <2>2, <3>1 DEF Suggest, Changed, DiffInv, DiffTypes, tellVars, stateVars
    <3>3. UNCHANGED tellVars /\ UNCHANGED <<mode, subscribed, auth, dropped>>
      BY <2>2 DEF Suggest, stateVars
    <3>4. telling' # {} \/ UNCHANGED <<diff, telling>>
      BY <2>2 DEF Suggest, Changed
    <3> QED
      BY <3>2, <3>3, <3>4, QuietDiff
  <2> QED
    BY <1>4, <2>1, <2>2
<1>5. ASSUME NEW override \in Overrides \union {0}, NEW password \in Diffs \union {0},
             \/ \E ok \in BOOLEAN : Authorise(override, password, ok)
             \/ Throttle(override, password)
      PROVE DiffInv'
  <2>1. ASSUME NEW ok \in BOOLEAN, Authorise(override, password, ok) PROVE DiffInv'
    <3>1. Applied(override, password) /\ UNCHANGED tellVars
          /\ UNCHANGED <<mode, subscribed, dropped, limit, workerMin, reading>>
      BY <2>1 DEF Authorise
    <3>2. diff' \in Nat /\ suggest' \in Nat
      BY <3>1, AppliedTypes DEF DiffInv
    <3>3. auth' = "upstream" => mode' = "remote"
      BY <2>1, <3>1 DEF Authorise, RefusedUser, AskedUpstream, AuthorisedUser
    <3>4. DiffTypes'
      BY <3>1, <3>2, <3>3 DEF DiffInv, DiffTypes, tellVars
    <3>5. telling' # {} \/ Excused'
      BY <2>1, <3>1 DEF Authorise, RefusedUser, AskedUpstream, AuthorisedUser, Excused
    <3> QED
      BY <3>1, <3>4, <3>5, QuietDiff
  <2>2. ASSUME Throttle(override, password) PROVE DiffInv'
    <3>1. Applied(override, password) /\ UNCHANGED tellVars /\ dropped'
          /\ UNCHANGED <<mode, auth, limit, workerMin, reading>>
      BY <2>2 DEF Throttle
    <3>2. diff' \in Nat /\ suggest' \in Nat
      BY <3>1, AppliedTypes DEF DiffInv
    <3>3. DiffTypes' /\ Excused'
      BY <3>1, <3>2 DEF DiffInv, DiffTypes, tellVars, Excused
    <3> QED
      BY <3>1, <3>3, QuietDiff
  <2> QED
    BY <1>5, <2>1, <2>2
<1>6. ASSUME (\E ok \in BOOLEAN : UpstreamAnswer(ok)) \/ Backoff \/ Leave PROVE DiffInv'
  <2>1. ASSUME NEW ok \in BOOLEAN, UpstreamAnswer(ok) PROVE DiffInv'
    <3>1. mode' = "remote" /\ auth' \in {"yes", "failed"}
          /\ UNCHANGED <<tellVars, diff, wishVars, limit, reading>>
      BY <2>1 DEF UpstreamAnswer, AnswerFor, AuthorisedUser, RefusedUser, DiffInv, DiffTypes
    <3>2. DiffTypes' /\ Excused'
      BY <3>1 DEF DiffInv, DiffTypes, Excused, tellVars, wishVars
    <3> QED
      BY <3>1, <3>2, QuietDiff
  <2>2. ASSUME Backoff \/ Leave PROVE DiffInv'
    <3>1. UNCHANGED <<tellVars, diff, wishVars, limit, reading, mode, subscribed, auth, telling>>
          /\ (dropped => dropped')
      BY <2>2 DEF Backoff, Leave, stateVars
    <3>2. DiffTypes'
      BY <3>1 DEF DiffInv, DiffTypes, tellVars, wishVars
    <3> QED
      BY <3>1, <3>2, QuietDiff
  <2> QED
    BY <1>6, <2>1, <2>2
<1>7. ASSUME NEW th \in ShareThreads,
             \/ TakeShareOf(th) \/ KeepDiff(th) \/ \E wanted \in Diffs : Retarget(th, wanted)
             \/ \E minutes \in 1..4 : InvalidShare(th, minutes)
      PROVE DiffInv'
  <2>1. UNCHANGED tellVars /\ UNCHANGED <<mode, subscribed, auth, dropped, suggest, workerMin, limit>>
    BY <1>7 DEF TakeShareOf, KeepDiff, Retarget, InvalidShare, stateVars, wishVars
  <2>2. reading' \in [ShareThreads -> Nat]
    BY <1>7 DEF TakeShareOf, KeepDiff, Retarget, InvalidShare, DiffInv, DiffTypes
  <2>3. diff' \in Nat
    <3>1. ASSUME NEW wanted \in Diffs, Retarget(th, wanted) PROVE diff' \in Nat
      <4>1. wanted \in Nat /\ PoolMin \in Nat /\ suggest \in Nat /\ workerMin \in Nat
            /\ reading[th] \in Nat
        BY ClientDifficultyAssumption DEF DiffInv, DiffTypes
      <4>2. \A m \in Nat : Lowest(Capped(Highest(wanted, Highest(PoolMin, m))), reading[th]) \in Nat
        BY <4>1, Bounded
      <4>3. (IF suggest # 0 THEN suggest ELSE workerMin) \in Nat
        BY <4>1
      <4> QED
        BY <1>7, <3>1, <4>2, <4>3 DEF Retarget, Changed
    <3> QED
      BY <1>7, <3>1 DEF TakeShareOf, KeepDiff, InvalidShare, DiffInv, DiffTypes
  <2>4. DiffTypes'
    BY <2>1, <2>2, <2>3 DEF DiffInv, DiffTypes, tellVars
  <2>5. telling' # {} \/ UNCHANGED <<diff, telling>>
    BY <1>7 DEF TakeShareOf, KeepDiff, Retarget, Changed, InvalidShare
  <2> QED
    BY <2>1, <2>4, <2>5, QuietDiff
<1>8. ASSUME NEW d \in Diffs, UpstreamDiff(d) PROVE DiffInv'
  <2>1. UNCHANGED tellVars /\ limit' = d /\ d \in Nat
        /\ UNCHANGED <<mode, subscribed, auth, dropped, suggest, workerMin, reading>>
    BY <1>8, ClientDifficultyAssumption DEF UpstreamDiff, stateVars, wishVars
  <2>2. (diff' = d /\ telling' # {}) \/ UNCHANGED <<diff, telling>>
    BY <1>8 DEF UpstreamDiff, Changed
  <2>3. DiffTypes'
    BY <2>1, <2>2 DEF DiffInv, DiffTypes, tellVars
  <2> QED
    BY <2>1, <2>2, <2>3, QuietDiff
<1> QED
  BY <1>1, <1>2, <1>3, <1>4, <1>5, <1>6, <1>7, <1>8 DEF DiffNext

(* Whichever threads change a miner's difficulty, and however their messages  *)
(* overlap (stratum_send_diff, stratum_add_send): once all have been queued   *)
(* the miner is told the difficulty it has, unless one was passed by another. *)
THEOREM DiffToldThm == DiffSpec => []DiffTold
<1>1. DiffInit => DiffInv
  BY InitInv
<1>2. DiffInv /\ [DiffNext]_diffVars => DiffInv'
  BY NextInv
<1>3. DiffInv => DiffTold
  BY DEF DiffInv, DiffTypes, Informed, Excused, Newest, DiffTold
<1> QED
  BY <1>1, <1>2, <1>3, PTL DEF DiffSpec

-----------------------------------------------------------------------------
(* CoinbaseRight, for any names, kinds of names, lengths, rewards and fees: a  *)
(* coinbase is followed field by field.  CoinInv says that the halves are      *)
(* those of the current template, the fee in them the one that is due, and     *)
(* that what a user has, was sent or hashed is made of them: of work he was    *)
(* not sent, his shares are hashed for the pool.                               *)

CoinSpec == CoinInit /\ [][CoinNext]_coinVars

\* What stands where in two sequences put together.
LEMMA Joined ==
    ASSUME NEW S, NEW s \in Seq(S), NEW t \in Seq(S), NEW c, c = s \o t
    PROVE  /\ c \in Seq(S) /\ Len(c) = Len(s) + Len(t)
           /\ \A i \in 1..Len(s) : c[i] = s[i]
           /\ \A i \in 1..Len(t) : c[Len(s) + i] = t[i]
<1>1. /\ c \in Seq(S) /\ Len(c) = Len(s) + Len(t)
      /\ \A i \in 1..(Len(s) + Len(t)) :
            c[i] = IF i <= Len(s) THEN s[i] ELSE t[i - Len(s)]
  BY ConcatProperties
<1>2. Len(t) \in Nat /\ Len(s) \in Nat
  OBVIOUS
<1>3. ASSUME NEW i \in 1..Len(s) PROVE c[i] = s[i]
  <2>1. i \in 1..(Len(s) + Len(t)) /\ i <= Len(s)
    BY <1>2
  <2> QED
    BY <1>1, <2>1
<1>4. ASSUME NEW i \in 1..Len(t) PROVE c[Len(s) + i] = t[i]
  <2>1. Len(s) + i \in 1..(Len(s) + Len(t)) /\ ~ Len(s) + i <= Len(s) /\ Len(s) + i - Len(s) = i
    BY <1>2
  <2> QED
    BY <1>1, <2>1
<1> QED
  BY <1>1, <1>3, <1>4

\* The parts of a coinbase behind btcsig, for a reward of v, a fee of d if paid.
Outs(v, d, paid) == <<<<"sequence", 0>>, <<"count", IF paid THEN 2 ELSE 1>>,
                      <<"value", IF paid THEN v - d ELSE v>>>>
Rest(d, paid) == (IF paid THEN <<<<"value", d>>>> \o Script("fee") ELSE <<>>) \o Lock
Second(v, d, paid, o) == SigField \o Outs(v, d, paid) \o Script(o) \o Rest(d, paid)

\* The fields of such a coinbase, with n bytes in front of the nonces.
Fields(n, v, d, paid, o) ==
    {Coinb1(n)[1], <<"bytes", n>>, <<"bytes", 1>>, <<"bytes", Enonce1Len>>,
     <<"bytes", Enonce2Len>>, <<"bytes", sig + 1>>, <<"sequence", 0>>,
     <<"count", IF paid THEN 2 ELSE 1>>, <<"value", IF paid THEN v - d ELSE v>>,
     <<"value", d>>, <<"lock", 0>>}
    \union {<<"len", ScriptLen[w]>> : w \in {o, "fee"}} \union {<<"script", w>> : w \in {o, "fee"}}

LEMMA ScriptParts ==
    ASSUME NEW n, NEW v, NEW d, NEW paid, NEW o, NEW w \in {o, "fee"}
    PROVE  /\ Script(w) \in Seq(Fields(n, v, d, paid, o)) /\ Len(Script(w)) = 2
           /\ Script(w)[1] = <<"len", ScriptLen[w]>> /\ Script(w)[2] = <<"script", w>>
<1> DEFINE S == Fields(n, v, d, paid, o)
<1>1. <<"len", ScriptLen[w]>> \in S /\ <<"script", w>> \in S
  BY Zenon DEF Fields
<1> HIDE DEF S
<1>2. Script(w) = <<<<"len", ScriptLen[w]>>, <<"script", w>>>>
  BY DEF Script
<1>3. <<<<"len", ScriptLen[w]>>, <<"script", w>>>> \in Seq(S)
  BY <1>1
<1>4. Script(w) \in Seq(S)
  BY <1>2, <1>3
<1> QED
  BY <1>2, <1>4 DEF S

\* Behind the outputs the fee, if it is paid, and the lock time.
LEMMA RestParts ==
    ASSUME NEW n, NEW v, NEW d, NEW paid \in BOOLEAN, NEW o
    PROVE  LET r == Rest(d, paid)
           IN  /\ r \in Seq(Fields(n, v, d, paid, o))
               /\ ~ paid => Len(r) = 1 /\ r[1] = <<"lock", 0>>
               /\ paid => /\ Len(r) = 4 /\ r[4] = <<"lock", 0>>
                          /\ r[1] = <<"value", d>> /\ r[2] = <<"len", ScriptLen["fee"]>>
                          /\ r[3] = <<"script", "fee">>
<1> DEFINE S == Fields(n, v, d, paid, o)
           r == Rest(d, paid)
           f == <<<<"value", d>>>>
           g == f \o Script("fee")
<1>1. <<"lock", 0>> \in S /\ <<"value", d>> \in S
  BY Zenon DEF Fields
<1>2. /\ Script("fee") \in Seq(S) /\ Len(Script("fee")) = 2
      /\ Script("fee")[1] = <<"len", ScriptLen["fee"]>> /\ Script("fee")[2] = <<"script", "fee">>
  BY ScriptParts, Zenon
<1> HIDE DEF S
<1>3. Lock \in Seq(S) /\ Len(Lock) = 1 /\ Lock[1] = <<"lock", 0>>
  BY <1>1 DEF Lock
<1>4. f \in Seq(S) /\ Len(f) = 1 /\ f[1] = <<"value", d>>
  BY <1>1
<1>5. CASE ~ paid
  <2>1. r = Lock
    BY <1>5 DEF Rest, Lock
  <2> QED
    BY <2>1, <1>3, <1>5 DEF S
<1>6. CASE paid
  <2>1. r = g \o Lock
    BY <1>6, Zenon DEF Rest
  <2> HIDE DEF r
  <2>2. /\ g \in Seq(S) /\ Len(g) = Len(f) + Len(Script("fee"))
        /\ \A i \in 1..Len(f) : g[i] = f[i]
        /\ \A i \in 1..Len(Script("fee")) : g[Len(f) + i] = Script("fee")[i]
    <3>1. f \in Seq(S) /\ Script("fee") \in Seq(S) /\ g = f \o Script("fee")
      BY <1>2, <1>4
    <3> HIDE DEF g, f
    <3> QED
      BY <3>1, Joined
  <2> HIDE DEF g
  <2>3. /\ r \in Seq(S) /\ Len(r) = Len(g) + Len(Lock)
        /\ \A i \in 1..Len(g) : r[i] = g[i]
        /\ \A i \in 1..Len(Lock) : r[Len(g) + i] = Lock[i]
    <3>1. Lock \in Seq(S) /\ g \in Seq(S)
      BY <1>3, <2>2
    <3> QED
      BY <2>1, <3>1, Joined
  <2> HIDE DEF f
  <2>4. Len(g) = 3 /\ g[1] = f[1] /\ g[1 + 1] = Script("fee")[1] /\ g[1 + 2] = Script("fee")[2]
    BY <1>2, <1>4, <2>2
  <2>5. Len(r) = 4 /\ r[1] = g[1] /\ r[2] = g[2] /\ r[3] = g[3] /\ r[3 + 1] = Lock[1]
    BY <1>3, <2>3, <2>4
  <2>6. /\ r[1] = <<"value", d>> /\ r[2] = <<"len", ScriptLen["fee"]>>
        /\ r[3] = <<"script", "fee">> /\ r[4] = <<"lock", 0>>
    <3>1. 1 + 1 = 2 /\ 1 + 2 = 3 /\ 3 + 1 = 4
      OBVIOUS
    <3> QED
      BY <1>2, <1>3, <1>4, <2>4, <2>5, <3>1
  <2> QED
    BY <1>6, <2>3, <2>5, <2>6 DEF S, r
<1> QED
  BY <1>5, <1>6 DEF S

\* Where the sequence number of the input stands: behind the length of the
\* script, the bytes and the nonces in it, and btcsig if there is one.
Seqno == IF sig > 0 THEN 7 ELSE 6

\* x ends, behind place b, in the sequence number, the outputs and the lock time.
EndsIn(x, b, v, d, paid, o) ==
    /\ Len(x) = b + 5 + (IF paid THEN 4 ELSE 1)
    /\ x[b + 1] = <<"sequence", 0>>
    /\ x[b + 2] = <<"count", IF paid THEN 2 ELSE 1>>
    /\ x[b + 3] = <<"value", IF paid THEN v - d ELSE v>>
    /\ x[b + 4] = <<"len", ScriptLen[o]>> /\ x[b + 5] = <<"script", o>>
    /\ ~ paid => x[b + 6] = <<"lock", 0>>
    /\ paid => /\ x[b + 6] = <<"value", d>>
               /\ x[b + 7] = <<"len", ScriptLen["fee"]>>
               /\ x[b + 8] = <<"script", "fee">> /\ x[b + 9] = <<"lock", 0>>

LEMMA SecondParts ==
    ASSUME sig \in Nat, NEW n, NEW v, NEW d, NEW paid \in BOOLEAN, NEW o
    PROVE  /\ Second(v, d, paid, o) \in Seq(Fields(n, v, d, paid, o))
           /\ Seqno - 6 = 1 => Second(v, d, paid, o)[1] = <<"bytes", sig + 1>>
           /\ EndsIn(Second(v, d, paid, o), Seqno - 6, v, d, paid, o)
<1> DEFINE S == Fields(n, v, d, paid, o)
           k == Seqno - 6
           q == Outs(v, d, paid)
           r == Script(o)
           e == Rest(d, paid)
           a == SigField \o q
           b == a \o r
           t == b \o e
<1>1. /\ <<"bytes", sig + 1>> \in S /\ <<"sequence", 0>> \in S
      /\ <<"count", IF paid THEN 2 ELSE 1>> \in S /\ <<"value", IF paid THEN v - d ELSE v>> \in S
  BY Zenon DEF Fields
<1>2. /\ r \in Seq(S) /\ Len(r) = 2
      /\ r[1] = <<"len", ScriptLen[o]>> /\ r[2] = <<"script", o>>
  BY ScriptParts, Zenon
<1>3. /\ e \in Seq(S)
      /\ ~ paid => Len(e) = 1 /\ e[1] = <<"lock", 0>>
      /\ paid => /\ Len(e) = 4 /\ e[4] = <<"lock", 0>>
                 /\ e[1] = <<"value", d>> /\ e[2] = <<"len", ScriptLen["fee"]>>
                 /\ e[3] = <<"script", "fee">>
  BY RestParts, Zenon
<1>4. k \in {0, 1} /\ (k = 1 <=> sig > 0)
  BY DEF Seqno
<1> HIDE DEF S
<1>5. SigField \in Seq(S) /\ Len(SigField) = k /\ (k = 1 => SigField[1] = <<"bytes", sig + 1>>)
  <2>1. CASE sig > 0
    <3>1. SigField = <<<<"bytes", sig + 1>>>> /\ k = 1
      BY <1>4, <2>1 DEF SigField
    <3> QED
      BY <1>1, <3>1
  <2>2. CASE ~ sig > 0
    <3>1. SigField = <<>> /\ k = 0
      BY <1>4, <2>2 DEF SigField
    <3> QED
      BY <3>1
  <2> QED
    BY <2>1, <2>2
<1>6. q \in Seq(S) /\ Len(q) = 3 /\ q[1] = <<"sequence", 0>>
      /\ q[2] = <<"count", IF paid THEN 2 ELSE 1>> /\ q[3] = <<"value", IF paid THEN v - d ELSE v>>
  <2>1. q = <<<<"sequence", 0>>, <<"count", IF paid THEN 2 ELSE 1>>,
              <<"value", IF paid THEN v - d ELSE v>>>>
    BY DEF Outs
  <2> HIDE DEF q
  <2> QED
    BY <1>1, <2>1
<1>7. Second(v, d, paid, o) = t
  BY DEF Second
<1>8. a = SigField \o q /\ b = a \o r /\ t = b \o e
  OBVIOUS
<1> HIDE DEF k, q, r, e, a, b, t
<1>9. /\ t \in Seq(S) /\ Len(t) = k + 5 + Len(e)
      /\ k = 1 => t[1] = SigField[1]
      /\ t[k + 1] = q[1] /\ t[k + 2] = q[2] /\ t[k + 3] = q[3]
      /\ t[k + 4] = r[1] /\ t[k + 5] = r[2]
      /\ \A i \in 1..Len(e) : t[k + 5 + i] = e[i]
  <2>1. SigField \in Seq(S) /\ q \in Seq(S) /\ r \in Seq(S) /\ e \in Seq(S)
    BY <1>2, <1>3, <1>5, <1>6
  <2>2. /\ a \in Seq(S) /\ Len(a) = Len(SigField) + Len(q)
        /\ \A i \in 1..Len(SigField) : a[i] = SigField[i]
        /\ \A i \in 1..Len(q) : a[Len(SigField) + i] = q[i]
    BY <2>1, <1>8, Joined
  <2>3. /\ b \in Seq(S) /\ Len(b) = Len(a) + Len(r)
        /\ \A i \in 1..Len(a) : b[i] = a[i]
        /\ \A i \in 1..Len(r) : b[Len(a) + i] = r[i]
    BY <2>1, <2>2, <1>8, Joined
  <2>4. /\ t \in Seq(S) /\ Len(t) = Len(b) + Len(e)
        /\ \A i \in 1..Len(b) : t[i] = b[i]
        /\ \A i \in 1..Len(e) : t[Len(b) + i] = e[i]
    BY <2>1, <2>3, <1>8, Joined
  <2>5. Len(SigField) = k /\ Len(q) = 3 /\ Len(r) = 2 /\ k \in {0, 1} /\ Len(e) \in Nat
    BY <1>2, <1>4, <1>5, <1>6, <2>1
  <2>6. /\ \A i \in 1..k : a[i] = SigField[i]
        /\ \A i \in 1..3 : a[k + i] = q[i]
        /\ Len(a) = k + 3
    BY <2>2, <2>5
  <2>7. Len(b) = k + 5
    BY <2>3, <2>5, <2>6
  <2>8. /\ \A i \in 1..(k + 3) : b[i] = a[i]
        /\ \A i \in 1..2 : b[k + 3 + i] = r[i]
    BY <2>3, <2>5, <2>6
  <2>9. /\ \A i \in 1..(k + 5) : t[i] = b[i]
        /\ \A i \in 1..Len(e) : t[k + 5 + i] = e[i]
        /\ Len(t) = k + 5 + Len(e)
    BY <2>4, <2>7
  <2>10. a[k + 1] = q[1] /\ a[k + 2] = q[2] /\ a[k + 3] = q[3]
    BY <2>6
  <2>11. b[k + 3 + 1] = r[1] /\ b[k + 3 + 2] = r[2] /\ k + 3 + 1 = k + 4 /\ k + 3 + 2 = k + 5
    BY <2>5, <2>8
  <2>12. /\ b[k + 1] = a[k + 1] /\ b[k + 2] = a[k + 2] /\ b[k + 3] = a[k + 3]
         /\ k = 1 => b[1] = a[1] /\ a[1] = SigField[1]
    BY <2>5, <2>6, <2>8
  <2>13. /\ t[k + 1] = b[k + 1] /\ t[k + 2] = b[k + 2] /\ t[k + 3] = b[k + 3]
         /\ t[k + 4] = b[k + 4] /\ t[k + 5] = b[k + 5]
         /\ k = 1 => t[1] = b[1]
    <3>1. /\ k + 1 \in 1..(k + 5) /\ k + 2 \in 1..(k + 5) /\ k + 3 \in 1..(k + 5)
          /\ k + 4 \in 1..(k + 5) /\ k + 5 \in 1..(k + 5) /\ 1 \in 1..(k + 5)
      BY <2>5
    <3> QED
      BY <2>9, <3>1
  <2> QED
    BY <2>4, <2>9, <2>10, <2>11, <2>12, <2>13
<1>10. /\ ~ paid => t[k + 6] = e[1]
       /\ paid => t[k + 6] = e[1] /\ t[k + 7] = e[2] /\ t[k + 8] = e[3] /\ t[k + 9] = e[4]
  <2>1. ASSUME NEW i \in {1, 2, 3, 4}, i <= Len(e) PROVE t[k + 5 + i] = e[i]
    <3>1. i \in 1..Len(e)
      BY <1>3, <2>1
    <3> QED
      BY <1>9, <3>1
  <2>2. k + 5 + 1 = k + 6 /\ k + 5 + 2 = k + 7 /\ k + 5 + 3 = k + 8 /\ k + 5 + 4 = k + 9
    BY <1>4
  <2>3. ~ paid => t[k + 5 + 1] = e[1]
    BY <1>3, <2>1
  <2>4. paid => /\ t[k + 5 + 1] = e[1] /\ t[k + 5 + 2] = e[2]
                /\ t[k + 5 + 3] = e[3] /\ t[k + 5 + 4] = e[4]
    <3>1. paid => Len(e) = 4
      BY <1>3
    <3> QED
      BY <3>1, <2>1
  <2> QED
    BY <2>2, <2>3, <2>4
<1>11. Len(t) = k + 5 + (IF paid THEN 4 ELSE 1)
  BY <1>3, <1>9
<1>12. t \in Seq(S) /\ (k = 1 => t[1] = <<"bytes", sig + 1>>)
  BY <1>5, <1>9, Zenon
<1>13. EndsIn(t, k, v, d, paid, o)
  BY <1>2, <1>3, <1>6, <1>9, <1>10, <1>11, Zenon DEF EndsIn
<1> QED
  BY <1>7, <1>12, <1>13, Zenon DEF S, k

\* A coinbase in full.
LEMMA CoinbaseParts ==
    ASSUME sig \in Nat, NEW n, NEW v, NEW d, NEW paid \in BOOLEAN, NEW o
    PROVE  LET tx == Coinb1(n) \o Nonces \o Second(v, d, paid, o)
               s == Seqno
           IN  /\ tx \in Seq(Fields(n, v, d, paid, o))
               /\ tx[1] = Coinb1(n)[1] /\ tx[2] = <<"bytes", n>> /\ tx[3] = <<"bytes", 1>>
               /\ tx[4] = <<"bytes", Enonce1Len>> /\ tx[5] = <<"bytes", Enonce2Len>>
               /\ s = 7 => tx[6] = <<"bytes", sig + 1>>
               /\ EndsIn(tx, s - 1, v, d, paid, o)
<1> DEFINE S == Fields(n, v, d, paid, o)
           k == Seqno - 6
           h == Coinb1(n)
           t == Second(v, d, paid, o)
           a == h \o Nonces
           tx == a \o t
<1>1. /\ h[1] \in S /\ <<"bytes", n>> \in S /\ <<"bytes", 1>> \in S
      /\ <<"bytes", Enonce1Len>> \in S /\ <<"bytes", Enonce2Len>> \in S
  BY Zenon DEF Fields
<1>2. /\ t \in Seq(S) /\ (k = 1 => t[1] = <<"bytes", sig + 1>>)
      /\ EndsIn(t, k, v, d, paid, o)
  BY SecondParts, Zenon
<1>3. k \in {0, 1} /\ Seqno = k + 6 /\ Seqno \in {6, 7}
  BY DEF Seqno
<1> HIDE DEF S
<1>4. h \in Seq(S) /\ Len(h) = 3 /\ h[2] = <<"bytes", n>> /\ h[3] = <<"bytes", 1>>
  <2>1. PICK f : h = <<f, <<"bytes", n>>, <<"bytes", 1>>>>
    BY Zenon DEF Coinb1
  <2> HIDE DEF h
  <2> QED
    BY <1>1, <2>1
<1>5. /\ Nonces \in Seq(S) /\ Len(Nonces) = 2
      /\ Nonces[1] = <<"bytes", Enonce1Len>> /\ Nonces[2] = <<"bytes", Enonce2Len>>
  BY <1>1 DEF Nonces
<1>6. a = h \o Nonces /\ tx = a \o t
  OBVIOUS
<1> HIDE DEF k, h, t, a, tx
<1>7. /\ a \in Seq(S) /\ Len(a) = Len(h) + Len(Nonces)
      /\ \A i \in 1..Len(h) : a[i] = h[i]
      /\ \A i \in 1..Len(Nonces) : a[Len(h) + i] = Nonces[i]
  <2>1. h \in Seq(S) /\ Nonces \in Seq(S)
    BY <1>4, <1>5
  <2> QED
    BY <2>1, <1>6, Joined
<1>8. /\ tx \in Seq(S) /\ Len(tx) = Len(a) + Len(t)
      /\ \A i \in 1..Len(a) : tx[i] = a[i]
      /\ \A i \in 1..Len(t) : tx[Len(a) + i] = t[i]
  <2>1. t \in Seq(S)
    BY <1>2
  <2> QED
    BY <2>1, <1>6, <1>7, Joined
<1>9. Len(a) = 5 /\ Len(t) \in Nat /\ Len(t) = k + 5 + (IF paid THEN 4 ELSE 1)
  BY <1>2, <1>3, <1>4, <1>5, <1>7 DEF EndsIn
<1>10. /\ a[1] = h[1] /\ a[2] = h[2] /\ a[3] = h[3]
       /\ a[3 + 1] = Nonces[1] /\ a[3 + 2] = Nonces[2] /\ 3 + 1 = 4 /\ 3 + 2 = 5
  BY <1>4, <1>5, <1>7
<1>11. tx[1] = a[1] /\ tx[2] = a[2] /\ tx[3] = a[3] /\ tx[4] = a[4] /\ tx[5] = a[5]
  BY <1>8, <1>9
<1>12. ASSUME NEW i \in 1..9, i <= 5 + (IF paid THEN 4 ELSE 1) PROVE tx[Seqno - 1 + i] = t[k + i]
  <2>1. k + i \in 1..Len(t) /\ 5 + (k + i) = Seqno - 1 + i
    BY <1>3, <1>9, <1>12
  <2> QED
    BY <1>8, <1>9, <2>1
<1>13. /\ tx[Seqno - 1 + 1] = t[k + 1] /\ tx[Seqno - 1 + 2] = t[k + 2]
       /\ tx[Seqno - 1 + 3] = t[k + 3] /\ tx[Seqno - 1 + 4] = t[k + 4]
       /\ tx[Seqno - 1 + 5] = t[k + 5] /\ tx[Seqno - 1 + 6] = t[k + 6]
  BY <1>12
<1>14. paid => /\ tx[Seqno - 1 + 7] = t[k + 7] /\ tx[Seqno - 1 + 8] = t[k + 8]
               /\ tx[Seqno - 1 + 9] = t[k + 9]
  BY <1>12
<1>15. Seqno = 7 => tx[6] = <<"bytes", sig + 1>>
  <2>1. Seqno = 7 => tx[5 + 1] = t[1] /\ k = 1 /\ 5 + 1 = 6
    BY <1>3, <1>8, <1>9
  <2> QED
    BY <1>2, <2>1, Zenon
<1>16. Len(tx) = Seqno - 1 + 5 + (IF paid THEN 4 ELSE 1)
  BY <1>3, <1>8, <1>9
<1>17. EndsIn(tx, Seqno - 1, v, d, paid, o)
  BY <1>2, <1>13, <1>14, <1>16, Zenon DEF EndsIn
<1>18. /\ tx[1] = h[1] /\ tx[2] = <<"bytes", n>> /\ tx[3] = <<"bytes", 1>>
       /\ tx[4] = <<"bytes", Enonce1Len>> /\ tx[5] = <<"bytes", Enonce2Len>>
  BY <1>4, <1>5, <1>10, <1>11, Zenon
<1> QED
  BY <1>8, <1>15, <1>16, <1>17, <1>18, Zenon DEF S, h, t, a, tx

\* What Bytes, a recursive function of the place, adds up over four or five fields.
LEMMA BytesAre ==
    ASSUME NEW fs, Len(fs) \in {4, 5}, \A i \in 1..Len(fs) : fs[i][2] \in Int
    PROVE  Bytes(fs) = fs[1][2] + fs[2][2] + fs[3][2] + fs[4][2]
                       + (IF Len(fs) = 5 THEN fs[5][2] ELSE 0)
<1> DEFINE m == Len(fs)
           b(i) == fs[i][2]
           W(f) == [i \in 0..m |-> IF i = 0 THEN 0 ELSE f[i - 1] + fs[i][2]]
           g == [i \in 0..m |-> IF i = 0 THEN 0 ELSE IF i = 1 THEN b(1)
                   ELSE IF i = 2 THEN b(1) + b(2) ELSE IF i = 3 THEN b(1) + b(2) + b(3)
                   ELSE IF i = 4 THEN b(1) + b(2) + b(3) + b(4)
                   ELSE b(1) + b(2) + b(3) + b(4) + b(5)]
           u == CHOOSE f : f = W(f)
<1>1. g = W(g)
  <2>1. ASSUME NEW i \in 0..m PROVE g[i] = IF i = 0 THEN 0 ELSE g[i - 1] + fs[i][2]
    <3>1. i \in {0, 1, 2, 3, 4, 5} /\ m \in {4, 5}
      OBVIOUS
    <3>2. /\ g[0] = 0 /\ g[1] = b(1) /\ g[2] = b(1) + b(2) /\ g[3] = b(1) + b(2) + b(3)
          /\ g[4] = b(1) + b(2) + b(3) + b(4)
          /\ m = 5 => g[5] = b(1) + b(2) + b(3) + b(4) + b(5)
      BY <3>1
    <3>3. b(1) \in Int /\ b(2) \in Int /\ b(3) \in Int /\ b(4) \in Int /\ (m = 5 => b(5) \in Int)
      BY <3>1
    <3> HIDE DEF g, m
    <3>4. g[i] = IF i = 0 THEN 0 ELSE g[i - 1] + b(i)
      <4> HIDE DEF b
      <4>1. CASE i = 0
        BY <3>2, <4>1
      <4>2. CASE i = 1
        BY <3>2, <3>3, <4>2
      <4>3. CASE i = 2
        BY <3>2, <3>3, <4>3
      <4>4. CASE i = 3
        BY <3>2, <3>3, <4>4
      <4>5. CASE i = 4
        BY <3>2, <3>3, <4>5
      <4>6. CASE i = 5
        <5>1. m = 5
          BY <3>1, <4>6
        <5> QED
          BY <3>2, <3>3, <4>6, <5>1
      <4> QED
        BY <3>1, <4>1, <4>2, <4>3, <4>4, <4>5, <4>6
    <3> QED
      BY <3>4
  <2> DEFINE w == W(g)
  <2>2. \A i \in 0..m : w[i] = IF i = 0 THEN 0 ELSE g[i - 1] + fs[i][2]
    OBVIOUS
  <2>3. g = [i \in 0..m |-> g[i]] /\ w = [i \in 0..m |-> w[i]]
    OBVIOUS
  <2> HIDE DEF g, w
  <2>4. g = w
    BY <2>1, <2>2, <2>3
  <2> QED
    BY <2>4 DEF w
<1>2. u = W(u)
  <2> HIDE DEF g, W
  <2> QED
    BY <1>1
<1>3. Bytes(fs) = u[m]
  BY DEF Bytes
<1> HIDE DEF u
<1>4. \A i \in 0..m : u[i] = IF i = 0 THEN 0 ELSE u[i - 1] + fs[i][2]
  BY <1>2
<1>5. /\ u[0] = 0 /\ u[1] = u[0] + b(1) /\ u[2] = u[1] + b(2)
      /\ u[3] = u[2] + b(3) /\ u[4] = u[3] + b(4)
  BY <1>4
<1>6. m = 5 => u[5] = u[4] + b(5)
  BY <1>4
<1>7. b(1) \in Int /\ b(2) \in Int /\ b(3) \in Int /\ b(4) \in Int /\ (m = 5 => b(5) \in Int)
  OBVIOUS
<1>8. m \in {4, 5}
  OBVIOUS
<1> HIDE DEF b, m
<1>9. u[m] = b(1) + b(2) + b(3) + b(4) + (IF m = 5 THEN b(5) ELSE 0)
  BY <1>5, <1>6, <1>7, <1>8
<1> QED
  BY <1>3, <1>9 DEF b, m

\* x begins with the length of the script and the bytes in it, n in front of the
\* nonces; behind them come the outputs.
Shaped(x, n, v, d, paid, o) ==
    /\ x \in Seq(Fields(n, v, d, paid, o))
    /\ x[1] = <<"scriptlen", n + 1 + Enonce1Len + Enonce2Len + (IF sig > 0 THEN sig + 1 ELSE 0)>>
    /\ x[2] = <<"bytes", n>> /\ x[3] = <<"bytes", 1>>
    /\ x[4] = <<"bytes", Enonce1Len>> /\ x[5] = <<"bytes", Enonce2Len>>
    /\ Seqno = 7 => x[6] = <<"bytes", sig + 1>>
    /\ EndsIn(x, Seqno - 1, v, d, paid, o)

LEMMA CoinbaseShaped ==
    ASSUME sig \in Nat, NEW n \in Nat, NEW v, NEW d, NEW paid \in BOOLEAN, NEW o
    PROVE  Shaped(Coinb1(n) \o Nonces \o Second(v, d, paid, o), n, v, d, paid, o)
<1>1. Enonce1Len \in Nat /\ Enonce2Len \in Nat
  BY CoinbaseAssumption
<1>2. Coinb1(n)[1] = <<"scriptlen", n + 1 + Enonce1Len + Enonce2Len
                                    + (IF sig > 0 THEN sig + 1 ELSE 0)>>
  BY <1>1 DEF Coinb1
<1> DEFINE x == Coinb1(n) \o Nonces \o Second(v, d, paid, o)
<1>3. /\ x \in Seq(Fields(n, v, d, paid, o))
      /\ x[1] = Coinb1(n)[1] /\ x[2] = <<"bytes", n>> /\ x[3] = <<"bytes", 1>>
      /\ x[4] = <<"bytes", Enonce1Len>> /\ x[5] = <<"bytes", Enonce2Len>>
      /\ Seqno = 7 => x[6] = <<"bytes", sig + 1>>
      /\ EndsIn(x, Seqno - 1, v, d, paid, o)
  BY CoinbaseParts, Zenon
<1> HIDE DEF x
<1>4. x[1] = <<"scriptlen", n + 1 + Enonce1Len + Enonce2Len + (IF sig > 0 THEN sig + 1 ELSE 0)>>
  BY <1>2, <1>3
<1>5. Shaped(x, n, v, d, paid, o)
  BY <1>3, <1>4, Zenon DEF Shaped
<1> QED
  BY <1>5 DEF x

\* The sequence number is where it is looked for.
LEMMA SeqnoFound ==
    ASSUME sig \in Nat, NEW n, NEW v, NEW d, NEW paid \in BOOLEAN, NEW o, NEW x,
           Shaped(x, n, v, d, paid, o)
    PROVE  /\ Seqno \in {6, 7} /\ Len(x) = Seqno + 4 + (IF paid THEN 4 ELSE 1)
           /\ FieldAt(x, "sequence") = Seqno
<1>1. Seqno \in {6, 7}
  BY DEF Seqno
<1>2. Len(x) = Seqno + 4 + (IF paid THEN 4 ELSE 1) /\ DOMAIN x = 1..Len(x)
  BY <1>1 DEF Shaped, EndsIn
<1> DEFINE s == Seqno
<1>3. /\ s - 1 + 1 = s /\ s - 1 + 2 = s + 1 /\ s - 1 + 3 = s + 2 /\ s - 1 + 4 = s + 3
      /\ s - 1 + 5 = s + 4 /\ s - 1 + 6 = s + 5 /\ s - 1 + 7 = s + 6 /\ s - 1 + 8 = s + 7
      /\ s - 1 + 9 = s + 8
  BY <1>1
<1>4. x[s][1] = "sequence"
  BY <1>3 DEF Shaped, EndsIn
<1>5. ASSUME NEW i \in 1..Len(x), i # s PROVE x[i][1] # "sequence"
  <2>1. i \in {1, 2, 3, 4, 5} \/ (i = 6 /\ s = 7) \/ i \in {s + 1, s + 2, s + 3, s + 4, s + 5}
        \/ (paid /\ i \in {s + 6, s + 7, s + 8})
    BY <1>1, <1>2, <1>5
  <2>2. CASE i \in {1, 2, 3, 4, 5}
    BY <2>2 DEF Shaped
  <2>3. CASE i = 6 /\ s = 7
    BY <2>3 DEF Shaped
  <2>4. CASE i \in {s + 1, s + 2, s + 3, s + 4, s + 5}
    <3>1. /\ x[s + 1] = <<"count", IF paid THEN 2 ELSE 1>>
          /\ x[s + 2] = <<"value", IF paid THEN v - d ELSE v>>
          /\ x[s + 3] = <<"len", ScriptLen[o]>> /\ x[s + 4] = <<"script", o>>
          /\ x[s + 5] = <<"lock", 0>> \/ x[s + 5] = <<"value", d>>
      BY <1>3, Zenon DEF Shaped, EndsIn
    <3>2. /\ x[s + 1][1] # "sequence" /\ x[s + 2][1] # "sequence" /\ x[s + 3][1] # "sequence"
          /\ x[s + 4][1] # "sequence" /\ x[s + 5][1] # "sequence"
      BY <3>1
    <3> QED
      BY <2>4, <3>2
  <2>5. CASE paid /\ i \in {s + 6, s + 7, s + 8}
    <3>1. /\ x[s + 6][1] # "sequence" /\ x[s + 7][1] # "sequence" /\ x[s + 8][1] # "sequence"
      BY <1>3, <2>5 DEF Shaped, EndsIn
    <3> QED
      BY <2>5, <3>1
  <2> QED
    BY <2>1, <2>2, <2>3, <2>4, <2>5
<1>6. s \in DOMAIN x
  BY <1>1, <1>2
<1>7. FieldAt(x, "sequence") = s
  BY <1>2, <1>4, <1>5, <1>6 DEF FieldAt
<1> QED
  BY <1>1, <1>2, <1>7

\* The script, which ends in front of place q, has the length stated.
LongScript(x, q) ==
    /\ x[1] = <<"scriptlen", Bytes(SubSeq(x, 2, q - 1))>>
    /\ \A i \in 2..(q - 1) : x[i][1] = "bytes"

LEMMA ScriptLong ==
    ASSUME sig \in Nat, NEW n \in Nat, NEW v, NEW d, NEW paid \in BOOLEAN, NEW o, NEW x,
           Shaped(x, n, v, d, paid, o)
    PROVE  LongScript(x, Seqno)
<1> DEFINE S == Fields(n, v, d, paid, o)
           s == Seqno
           fs == SubSeq(x, 2, s - 1)
<1>1. s \in {6, 7} /\ Len(x) = s + 4 + (IF paid THEN 4 ELSE 1) /\ (s = 7 <=> sig > 0)
  BY SeqnoFound DEF Seqno
<1>2. /\ x \in Seq(S)
      /\ x[1] = <<"scriptlen", n + 1 + Enonce1Len + Enonce2Len + (IF sig > 0 THEN sig + 1 ELSE 0)>>
      /\ x[2] = <<"bytes", n>> /\ x[3] = <<"bytes", 1>>
      /\ x[4] = <<"bytes", Enonce1Len>> /\ x[5] = <<"bytes", Enonce2Len>>
      /\ s = 7 => x[6] = <<"bytes", sig + 1>>
  BY DEF Shaped
<1>3. Enonce1Len \in Nat /\ Enonce2Len \in Nat
  BY CoinbaseAssumption
<1> HIDE DEF S, s
<1>4. Len(fs) = s - 2 /\ \A i \in 1..(s - 2) : fs[i] = x[i + 1]
  <2>1. 2 \in 1..Len(x) + 1 /\ s - 1 \in 1..Len(x) /\ 2 <= s - 1
    BY <1>1
  <2> QED
    BY <1>1, <1>2, <2>1, SubSeqProperties
<1> HIDE DEF fs
<1>5. /\ fs[1] = x[2] /\ fs[2] = x[3] /\ fs[3] = x[4] /\ fs[4] = x[5]
      /\ s = 7 => fs[5] = x[6]
  BY <1>1, <1>4
<1>6. /\ fs[1][2] = n /\ fs[2][2] = 1 /\ fs[3][2] = Enonce1Len /\ fs[4][2] = Enonce2Len
      /\ s = 7 => fs[5][2] = sig + 1
  BY <1>2, <1>5
<1>7. Len(fs) \in {4, 5} /\ (Len(fs) = 5 <=> s = 7)
  BY <1>1, <1>4
<1>8. \A i \in 1..Len(fs) : fs[i][2] \in Int
  BY <1>3, <1>6, <1>7
<1>9. Bytes(fs) = fs[1][2] + fs[2][2] + fs[3][2] + fs[4][2]
                  + (IF Len(fs) = 5 THEN fs[5][2] ELSE 0)
  BY <1>7, <1>8, BytesAre
<1>10. Bytes(fs) = n + 1 + Enonce1Len + Enonce2Len + (IF sig > 0 THEN sig + 1 ELSE 0)
  BY <1>1, <1>3, <1>6, <1>7, <1>9
<1>11. \A i \in 2..(s - 1) : x[i][1] = "bytes"
  <2> TAKE i \in 2..(s - 1)
  <2>1. i \in {2, 3, 4, 5} \/ (i = 6 /\ s = 7)
    BY <1>1
  <2> QED
    BY <1>2, <2>1
<1> QED
  BY <1>2, <1>10, <1>11 DEF fs, s, LongScript

\* What a bitcoind reads of it.
LEMMA ReadRight ==
    ASSUME sig \in Nat, NEW n \in Nat, NEW v \in Int, NEW d \in Int, NEW paid \in BOOLEAN,
           NEW o, NEW x, Shaped(x, n, v, d, paid, o)
    PROVE  /\ WellFormed(x)
           /\ Output(x, 1) = <<IF paid THEN v - d ELSE v, o>>
           /\ paid => Output(x, 2) = <<d, "fee">>
           /\ FieldAt(x, "sequence") + 4 < Len(x) - 1 <=> paid
<1> DEFINE s == Seqno
<1>1. /\ s \in {6, 7} /\ Len(x) = s + 4 + (IF paid THEN 4 ELSE 1)
      /\ FieldAt(x, "sequence") = s
  BY SeqnoFound
<1>2. /\ x[1] = <<"scriptlen", Bytes(SubSeq(x, 2, s - 1))>>
      /\ \A i \in 2..(s - 1) : x[i][1] = "bytes"
  <2>1. LongScript(x, Seqno)
    BY ScriptLong
  <2> QED
    BY <2>1, Zenon DEF LongScript
<1>3. /\ s - 1 + 1 = s /\ s - 1 + 2 = s + 1 /\ s - 1 + 3 = s + 2 /\ s - 1 + 4 = s + 3
      /\ s - 1 + 5 = s + 4 /\ s - 1 + 6 = s + 5 /\ s - 1 + 7 = s + 6 /\ s - 1 + 8 = s + 7
      /\ s - 1 + 9 = s + 8
  BY <1>1
<1>4. /\ x[s + 1] = <<"count", IF paid THEN 2 ELSE 1>>
      /\ x[s + 2] = <<"value", IF paid THEN v - d ELSE v>>
      /\ x[s + 3] = <<"len", ScriptLen[o]>> /\ x[s + 4] = <<"script", o>>
      /\ ~ paid => x[s + 5] = <<"lock", 0>>
      /\ paid => /\ x[s + 5] = <<"value", d>>
                 /\ x[s + 6] = <<"len", ScriptLen["fee"]>>
                 /\ x[s + 7] = <<"script", "fee">> /\ x[s + 8] = <<"lock", 0>>
  BY <1>3, Zenon DEF Shaped, EndsIn
<1>5. x[s + 1][2] = IF paid THEN 2 ELSE 1
  BY <1>4
<1> HIDE DEF s
<1>6. Len(x) = s + 1 + 3 * x[s + 1][2] + 1
  BY <1>1, <1>5
<1>7. x[Len(x)] = Lock[1]
  <2>1. CASE paid
    <3>1. Len(x) = s + 8
      BY <1>1, <2>1
    <3> QED
      BY <1>4, <2>1, <3>1 DEF Lock
  <2>2. CASE ~ paid
    <3>1. Len(x) = s + 5
      BY <1>1, <2>2
    <3> QED
      BY <1>4, <2>2, <3>1 DEF Lock
  <2> QED
    BY <2>1, <2>2
<1>8. s + 3 * 1 - 1 = s + 2 /\ s + 3 * 2 - 1 = s + 5 /\ s + 2 + 1 = s + 3 /\ s + 2 + 2 = s + 4
      /\ s + 5 + 1 = s + 6 /\ s + 5 + 2 = s + 7
  BY <1>1
<1>9. /\ x[s + 2][1] = "value" /\ x[s + 4][1] = "script"
      /\ x[s + 3] = <<"len", ScriptLen[x[s + 4][2]]>>
  BY <1>4
<1>10. paid => /\ x[s + 5][1] = "value" /\ x[s + 7][1] = "script"
               /\ x[s + 6] = <<"len", ScriptLen[x[s + 7][2]]>>
  BY <1>4
<1>11. \A i \in 1..x[s + 1][2] : LET p == s + 3 * i - 1 IN
          /\ x[p][1] = "value" /\ x[p + 2][1] = "script"
          /\ x[p + 1] = <<"len", ScriptLen[x[p + 2][2]]>>
  <2> TAKE i \in 1..x[s + 1][2]
  <2>1. i = 1 \/ (i = 2 /\ paid)
    BY <1>5
  <2> QED
    BY <1>8, <1>9, <1>10, <2>1
<1>12. WellFormed(x)
  <2> DEFINE At(q) ==
        /\ x[1] = <<"scriptlen", Bytes(SubSeq(x, 2, q - 1))>>
        /\ \A i \in 2..(q - 1) : x[i][1] = "bytes"
        /\ Len(x) = q + 1 + 3 * x[q + 1][2] + 1 /\ x[Len(x)] = Lock[1]
        /\ \A i \in 1..x[q + 1][2] : LET p == q + 3 * i - 1 IN
              /\ x[p][1] = "value" /\ x[p + 2][1] = "script"
              /\ x[p + 1] = <<"len", ScriptLen[x[p + 2][2]]>>
  <2>1. WellFormed(x) <=> At(FieldAt(x, "sequence"))
    BY Zenon DEF WellFormed
  <2>2. At(s)
    BY <1>2, <1>6, <1>7, <1>11, Zenon
  <2> HIDE DEF At
  <2> QED
    BY <1>1, <2>1, <2>2
<1>13. Output(x, 1) = <<IF paid THEN v - d ELSE v, o>>
  <2>1. Output(x, 1) = <<x[s + 2][2], x[s + 4][2]>>
    BY <1>1, <1>8 DEF Output
  <2>2. x[s + 2][2] = (IF paid THEN v - d ELSE v) /\ x[s + 4][2] = o
    BY <1>4
  <2> QED
    BY <2>1, <2>2
<1>14. paid => Output(x, 2) = <<d, "fee">>
  <2>1. Output(x, 2) = <<x[s + 5][2], x[s + 7][2]>>
    BY <1>1, <1>8 DEF Output
  <2>2. paid => x[s + 5][2] = d /\ x[s + 7][2] = "fee"
    BY <1>4
  <2> QED
    BY <2>1, <2>2
<1>15. FieldAt(x, "sequence") + 4 < Len(x) - 1 <=> paid
  BY <1>1
<1> QED
  BY <1>12, <1>13, <1>14, <1>15

\* The fee of the current template before it is known whether it is dust, and
\* what may be paid of it.
Due == IF poolvalid THEN (value * fee) \div 1000 ELSE 0
Charged(d, paid) ==
    (IF paid THEN d ELSE 0) \in IF Due > Dust THEN {Due, Due - 1}
                                ELSE IF Due = Dust THEN {0, Dust} ELSE {0}

\* The halves made of the current template.
HalvesOf(n, d, paid) ==
    /\ Charged(d, paid) /\ coinb1 = Coinb1(n)
    /\ IF solo THEN coinb2 = SigField \o Outs(value, d, paid) /\ coinb3 = Rest(d, paid)
       ELSE coinb2 = Second(value, d, paid, "pool") /\ coinb3 = <<>>
Halves == \E n \in HeadLens, d \in {Due, Due - 1}, paid \in BOOLEAN : HalvesOf(n, d, paid)

Payee(u) == IF Kind[u] = "address" THEN u ELSE "pool"

\* What a user has, was sent and hashed, all of it of the current template.
UserRight(u) ==
    /\ txn[u] \in {"", Payee(u)}
    /\ userwb[u] # <<>> => solo /\ txn[u] # "" /\ userwb[u] = Spliced(txn[u])
    /\ mined[u] # <<>> => IF solo THEN userwb[u] # <<>> /\ mined[u] = Whole(userwb[u])
                          ELSE mined[u] = Whole(coinb2)
    /\ hashed[u] # <<>> =>
          IF solo THEN \/ userwb[u] # <<>> /\ hashed[u] = Whole(userwb[u])
                       \/ mined[u] = <<>> /\ hashed[u] = Whole(Spliced("pool"))
          ELSE hashed[u] = Whole(coinb2)

ConfTypes ==
    /\ solo \in BOOLEAN /\ poolvalid \in BOOLEAN /\ sig \in Nat /\ fee \in Nat
    /\ poolvalid => fee > 0 /\ poolfee = fee
    /\ value \in Nat /\ made \in Nat

NoTemplate ==
    /\ cpc = "idle" /\ newcomer = "" /\ mining = {}
    /\ \A u \in Names : userwb[u] = <<>> /\ mined[u] = <<>> /\ hashed[u] = <<>>

CoinInv ==
    /\ ConfTypes
    /\ DOMAIN txn = Names /\ DOMAIN userwb = Names
    /\ DOMAIN mined = Names /\ DOMAIN hashed = Names
    /\ IF made = 0 THEN NoTemplate ELSE Halves
    /\ newcomer = "" \/ (newcomer \in Names /\ (solo => txn[newcomer] # ""))
    /\ cpc = "userwbs" => solo
    /\ \A u \in Names : UserRight(u)

\* What CoinbaseRight says of a coinbase that pays o.
Pays(x, o) ==
    LET two == FieldAt(x, "sequence") + 4 < Len(x) - 1
        first == Output(x, 1)
        second == IF two THEN Output(x, 2) ELSE <<0, "fee">>
    IN  /\ WellFormed(x) /\ first[1] + second[1] = value /\ second[2] = "fee"
        /\ second[1] \in IF Due > Dust THEN {Due, Due - 1}
                         ELSE IF Due = Dust THEN {0, Dust} ELSE {0}
        /\ first[2] = o

LEMMA DueInt == ConfTypes => Due \in Int /\ Due >= 0
<1>1. ASSUME ConfTypes PROVE Due \in Nat
  <2>1. value * fee \in Nat
    BY <1>1 DEF ConfTypes
  <2> QED
    BY <2>1 DEF Due
<1> QED
  BY <1>1

LEMMA ShapedPays ==
    ASSUME ConfTypes, NEW n \in Nat, NEW d \in {Due, Due - 1}, NEW paid \in BOOLEAN,
           Charged(d, paid), NEW o, NEW x, Shaped(x, n, value, d, paid, o)
    PROVE  Pays(x, o)
<1>1. sig \in Nat /\ value \in Int /\ d \in Int
  BY DueInt DEF ConfTypes
<1>2. /\ WellFormed(x)
      /\ Output(x, 1) = <<IF paid THEN value - d ELSE value, o>>
      /\ paid => Output(x, 2) = <<d, "fee">>
      /\ FieldAt(x, "sequence") + 4 < Len(x) - 1 <=> paid
  BY <1>1, ReadRight
<1> DEFINE two == FieldAt(x, "sequence") + 4 < Len(x) - 1
           first == Output(x, 1)
           second == IF two THEN Output(x, 2) ELSE <<0, "fee">>
<1>3. first[1] = (IF paid THEN value - d ELSE value) /\ first[2] = o
  BY <1>2
<1>4. second[1] = (IF paid THEN d ELSE 0) /\ second[2] = "fee"
  BY <1>2
<1>5. WellFormed(x)
  BY <1>2
<1> HIDE DEF first, second
<1>6. first[1] + second[1] = value
  BY <1>1, <1>3, <1>4
<1>7. second[1] \in IF Due > Dust THEN {Due, Due - 1}
                    ELSE IF Due = Dust THEN {0, Dust} ELSE {0}
  BY <1>4 DEF Charged
<1> QED
  BY <1>3, <1>4, <1>5, <1>6, <1>7, Zenon DEF Pays, first, second

\* A miner's coinbase is put together of the halves.
LEMMA WholePays ==
    ASSUME ConfTypes, Halves
    PROVE  /\ solo => \A o : Pays(Whole(Spliced(o)), o)
           /\ ~ solo => Pays(Whole(coinb2), "pool")
<1>1. PICK n \in HeadLens, d \in {Due, Due - 1}, paid \in BOOLEAN : HalvesOf(n, d, paid)
  BY DEF Halves
<1>2. n \in Nat /\ sig \in Nat /\ Charged(d, paid)
  BY <1>1, CoinbaseAssumption DEF ConfTypes, HalvesOf
<1>3. ASSUME NEW o PROVE Pays(Coinb1(n) \o Nonces \o Second(value, d, paid, o), o)
  <2>1. Shaped(Coinb1(n) \o Nonces \o Second(value, d, paid, o), n, value, d, paid, o)
    BY <1>2, CoinbaseShaped
  <2> QED
    BY <1>2, <2>1, ShapedPays
<1>4. ASSUME solo, NEW o
      PROVE  Whole(Spliced(o)) = Coinb1(n) \o Nonces \o Second(value, d, paid, o)
  BY <1>1, <1>4, Zenon DEF HalvesOf, Whole, Spliced, Second
<1>5. ASSUME ~ solo PROVE Whole(coinb2) = Coinb1(n) \o Nonces \o Second(value, d, paid, "pool")
  BY <1>1, <1>5, Zenon DEF HalvesOf, Whole
<1> QED
  BY <1>3, <1>4, <1>5, Zenon

\* A user's half is no empty one.
LEMMA SplicedFull ==
    ASSUME ConfTypes, Halves, solo, NEW o PROVE Spliced(o) # <<>>
<1>1. PICK n \in HeadLens, d \in {Due, Due - 1}, paid \in BOOLEAN : HalvesOf(n, d, paid)
  BY DEF Halves
<1>2. Spliced(o) = Second(value, d, paid, o)
  BY <1>1, Zenon DEF HalvesOf, Spliced, Second
<1>3. EndsIn(Second(value, d, paid, o), Seqno - 6, value, d, paid, o)
  BY SecondParts DEF ConfTypes
<1>4. Len(Second(value, d, paid, o)) # 0
  BY <1>3 DEF EndsIn, Seqno
<1> QED
  BY <1>2, <1>4

LEMMA CoinbaseFollows == CoinInv => CoinbaseRight
<1> SUFFICES ASSUME CoinInv PROVE CoinbaseRight
  OBVIOUS
<1> DEFINE Named(u, o) == \/ o = (IF solo /\ Kind[u] = "address" THEN u ELSE "pool")
                          \/ mined[u] = <<>> /\ o = "pool"
           Alike(u) == mined[u] # <<>> /\ hashed[u] # <<>> => mined[u] = hashed[u]
           R(u, tx) ==
              LET due == IF poolvalid THEN (value * fee) \div 1000 ELSE 0
                  two == FieldAt(tx, "sequence") + 4 < Len(tx) - 1
                  first == Output(tx, 1)
                  second == IF two THEN Output(tx, 2) ELSE <<0, "fee">>
              IN  /\ WellFormed(tx) /\ first[1] + second[1] = value /\ second[2] = "fee"
                  /\ second[1] \in IF due > Dust THEN {due, due - 1}
                                   ELSE IF due = Dust THEN {0, Dust} ELSE {0}
                  /\ \/ first[2] = (IF solo /\ Kind[u] = "address" THEN u ELSE "pool")
                     \/ mined[u] = <<>> /\ first[2] = "pool"
                  /\ Alike(u)
<1>1. (\A u \in Names : \A tx \in {mined[u], hashed[u]} \ {<<>>} : R(u, tx)) => CoinbaseRight
  BY Zenon DEF CoinbaseRight
<1>2. ASSUME NEW u, NEW tx, NEW o, Pays(tx, o), Named(u, o), Alike(u) PROVE R(u, tx)
  BY <1>2 DEF Pays, Due
<1> HIDE DEF R
<1>3. ASSUME NEW u \in Names
      PROVE  /\ Alike(u)
             /\ mined[u] # <<>> => \E o : Pays(mined[u], o) /\ Named(u, o)
             /\ hashed[u] # <<>> => \E o : Pays(hashed[u], o) /\ Named(u, o)
  <2>1. ConfTypes /\ UserRight(u)
    BY DEF CoinInv
  <2>2. CASE made = 0
    BY <2>2 DEF CoinInv, NoTemplate
  <2>3. CASE made # 0 /\ solo
    <3>1. \A o : Pays(Whole(Spliced(o)), o)
      BY <2>1, <2>3, WholePays DEF CoinInv
    <3>2. ASSUME userwb[u] # <<>> PROVE Pays(Whole(userwb[u]), Payee(u))
      BY <2>1, <3>1, <3>2 DEF UserRight
    <3>3. Named(u, Payee(u)) /\ (mined[u] = <<>> => Named(u, "pool"))
      BY <2>3 DEF Payee
    <3>4. mined[u] # <<>> => userwb[u] # <<>> /\ mined[u] = Whole(userwb[u])
      BY <2>1, <2>3, Zenon DEF UserRight
    <3>5. hashed[u] # <<>> =>
            \/ userwb[u] # <<>> /\ hashed[u] = Whole(userwb[u])
            \/ mined[u] = <<>> /\ hashed[u] = Whole(Spliced("pool"))
      BY <2>1, <2>3, Zenon DEF UserRight
    <3> HIDE DEF Named
    <3>6. Alike(u)
      BY <3>4, <3>5, Zenon
    <3>7. mined[u] # <<>> => \E o : Pays(mined[u], o) /\ Named(u, o)
      BY <3>2, <3>3, <3>4, Zenon
    <3>8. ASSUME hashed[u] # <<>> PROVE \E o : Pays(hashed[u], o) /\ Named(u, o)
      <4>1. CASE userwb[u] # <<>> /\ hashed[u] = Whole(userwb[u])
        BY <3>2, <3>3, <4>1, Zenon
      <4>2. CASE mined[u] = <<>> /\ hashed[u] = Whole(Spliced("pool"))
        BY <3>1, <3>3, <4>2, Zenon
      <4> QED
        BY <3>5, <3>8, <4>1, <4>2, Zenon
    <3> QED
      BY <3>6, <3>7, <3>8, Zenon
  <2>4. CASE made # 0 /\ ~ solo
    <3>1. Pays(Whole(coinb2), "pool") /\ Named(u, "pool")
      BY <2>1, <2>4, WholePays DEF CoinInv
    <3>2. /\ mined[u] # <<>> => mined[u] = Whole(coinb2)
          /\ hashed[u] # <<>> => hashed[u] = Whole(coinb2)
      BY <2>1, <2>4, Zenon DEF UserRight
    <3> HIDE DEF Named
    <3> QED
      BY <3>1, <3>2, Zenon
  <2> QED
    BY <2>2, <2>3, <2>4
<1> HIDE DEF Named, Alike
<1>4. ASSUME NEW u \in Names, NEW tx \in {mined[u], hashed[u]} \ {<<>>} PROVE R(u, tx)
  <2>1. /\ Alike(u)
        /\ mined[u] # <<>> => \E o : Pays(mined[u], o) /\ Named(u, o)
        /\ hashed[u] # <<>> => \E o : Pays(hashed[u], o) /\ Named(u, o)
    BY <1>3
  <2>2. (tx = mined[u] \/ tx = hashed[u]) /\ tx # <<>>
    OBVIOUS
  <2>3. PICK o : Pays(tx, o) /\ Named(u, o)
    BY <2>1, <2>2
  <2> QED
    BY <1>2, <2>1, <2>3
<1> QED
  BY <1>1, <1>4, Zenon

LEMMA CoinInvInit == CoinInit => CoinInv
<1> SUFFICES ASSUME CoinInit PROVE CoinInv
  OBVIOUS
<1>1. ConfTypes
  <2>1. /\ solo \in BOOLEAN /\ poolvalid \in BOOLEAN /\ sig \in SigLens /\ fee \in Fees
        /\ (fee = 0 => ~ poolvalid) /\ poolfee = fee /\ made = 0 /\ value = 0
    BY DEF CoinInit
  <2>2. SigLens \subseteq 0..38 /\ Fees \subseteq 0..500
    BY CoinbaseAssumption
  <2>3. sig \in Nat /\ fee \in Nat
    BY <2>1, <2>2
  <2> QED
    BY <2>1, <2>3 DEF ConfTypes
<1>2. \A u \in Names : UserRight(u)
  BY DEF CoinInit, UserRight
<1>3. NoTemplate
  BY DEF CoinInit, NoTemplate
<1> QED
  BY <1>1, <1>2, <1>3 DEF CoinInit, CoinInv

\* Steps that leave the templates alone.
LEMMA SameHalves ==
    ASSUME UNCHANGED <<confVars, workVars>>
    PROVE  /\ ConfTypes => ConfTypes'
           /\ Halves => Halves'
<1>1. /\ solo' = solo /\ sig' = sig /\ fee' = fee /\ poolvalid' = poolvalid
      /\ poolfee' = poolfee /\ made' = made /\ value' = value
      /\ coinb1' = coinb1 /\ coinb2' = coinb2 /\ coinb3' = coinb3
  BY DEF confVars, workVars
<1>2. Due' = Due
  BY <1>1 DEF Due
<1>3. ASSUME NEW n, NEW d, NEW paid PROVE HalvesOf(n, d, paid)' <=> HalvesOf(n, d, paid)
  <2>1. /\ Charged(d, paid)' = Charged(d, paid) /\ Coinb1(n)' = Coinb1(n)
        /\ SigField' = SigField
    BY <1>1, <1>2, Zenon DEF Charged, Coinb1, SigField
  <2>2. Second(value, d, paid, "pool")' = Second(value, d, paid, "pool")
    BY <1>1, <2>1, Zenon DEF Second
  <2> QED
    BY <1>1, <2>1, <2>2, Zenon DEF HalvesOf
<1>4. ConfTypes => ConfTypes'
  BY <1>1, Zenon DEF ConfTypes
<1>5. Halves => Halves'
  BY <1>2, <1>3 DEF Halves
<1> QED
  BY <1>4, <1>5

LEMMA TemplateKeeps ==
    ASSUME CoinInv, NEW v \in Rewards, NEW n \in HeadLens, Template(v, n) PROVE CoinInv'
<1>1. PICK d \in FeeOf(v) : GenerateCoinbase(v, n, d)
  BY DEF Template
<1>2. v \in Nat /\ n \in Nat
  BY CoinbaseAssumption
<1> PICK charged \in BOOLEAN : charged <=> poolvalid /\ poolfee > 0
  OBVIOUS
<1> PICK paid \in BOOLEAN : paid <=> charged /\ d >= Dust
  OBVIOUS
<1> PICK e : e = IF paid THEN d ELSE Due'
  OBVIOUS
<1>3. UNCHANGED <<solo, sig, fee, poolvalid, txn, newcomer, mining>> /\ value' = v
  BY <1>1 DEF Template, confVars, GenerateCoinbase
<1>4. /\ solo \in BOOLEAN /\ poolvalid \in BOOLEAN /\ sig \in Nat /\ fee \in Nat /\ made \in Nat
      /\ poolvalid => fee > 0 /\ poolfee = fee
  BY DEF CoinInv, ConfTypes
<1>5. charged <=> poolvalid
  BY <1>4
<1>6. /\ poolfee' = (IF charged THEN poolfee ELSE 0) /\ coinb1' = Coinb1(n)
      /\ IF solo THEN coinb2' = SigField \o Outs(v, d, paid) /\ coinb3' = Rest(d, paid)
         ELSE coinb2' = Second(v, d, paid, "pool") /\ coinb3' = <<>>
  BY <1>1, Zenon DEF GenerateCoinbase, KeptFee, Outs, Rest, Second
<1>7. ConfTypes'
  <2>1. made' \in Nat
    BY <1>4 DEF Template
  <2> QED
    BY <1>2, <1>3, <1>4, <1>5, <1>6, <2>1 DEF ConfTypes
<1>8. Due' \in Nat /\ (poolvalid => Due' = (v * fee) \div 1000)
  <2>1. v * fee \in Nat
    BY <1>2, <1>4
  <2>2. (v * fee) \div 1000 \in Nat
    BY <2>1
  <2>3. Due' = IF poolvalid THEN (v * fee) \div 1000 ELSE 0
    BY <1>3 DEF Due
  <2> QED
    BY <2>2, <2>3
<1>9. poolvalid => d \in {Due', Due' - 1}
  <2> DEFINE exact(f) == (v * f) \div 1000
             round == (v * poolfee) % 1000 = 0 /\ exact(poolfee) > 0
  <2>1. FeeOf(v) = IF round THEN {exact(poolfee), exact(poolfee) - 1} ELSE {exact(poolfee)}
    BY Zenon DEF FeeOf
  <2>2. poolvalid => Due' = exact(fee) /\ poolfee = fee
    BY <1>4, <1>8
  <2> HIDE DEF exact, round
  <2>3. d \in {exact(poolfee), exact(poolfee) - 1}
    BY <2>1
  <2> QED
    BY <2>2, <2>3, Zenon
<1>10. e \in {Due', Due' - 1}
  BY <1>5, <1>9
<1>11. Charged(e, paid)'
  <2>1. CASE ~ poolvalid
    <3>1. Due' = 0 /\ ~ paid
      BY <1>3, <1>5, <2>1 DEF Due
    <3> QED
      BY <3>1 DEF Dust, Charged
  <2>2. CASE poolvalid
    <3>1. paid <=> d >= Dust
      BY <1>5, <2>2
    <3>2. d \in {Due', Due' - 1} /\ (paid => e = d)
      BY <1>9, <2>2
    <3>3. PICK due \in Nat : due = Due'
      BY <1>8
    <3>4. d \in {due, due - 1} /\ Dust = 546
      BY <3>2, <3>3 DEF Dust
    <3>5. /\ d >= 546 => due >= 546
          /\ due > 546 => d >= 546
          /\ due = 546 => d = 546 \/ ~ d >= 546
      BY <3>4
    <3>6. CASE d >= 546
      <4>1. paid /\ e = d /\ (due > Dust \/ due = Dust)
        BY <3>1, <3>2, <3>4, <3>5, <3>6
      <4>2. due = Dust => ~ due > Dust /\ d = Dust
        BY <3>4, <3>6
      <4>3. CASE due > Dust
        <5>1. d \in IF due > Dust THEN {due, due - 1} ELSE IF due = Dust THEN {0, Dust} ELSE {0}
          BY <3>4, <4>3
        <5> QED
          BY <3>3, <4>1, <5>1, Zenon DEF Charged
      <4>4. CASE due = Dust
        <5>1. d \in IF due > Dust THEN {due, due - 1} ELSE IF due = Dust THEN {0, Dust} ELSE {0}
          BY <4>2, <4>4
        <5> QED
          BY <3>3, <4>1, <5>1, Zenon DEF Charged
      <4> QED
        BY <4>1, <4>3, <4>4
    <3>7. CASE ~ d >= 546
      <4>1. ~ paid /\ ~ due > Dust
        BY <3>1, <3>4, <3>5, <3>7
      <4> QED
        BY <3>3, <4>1, Zenon DEF Charged
    <3> QED
      BY <3>6, <3>7
  <2> QED
    BY <2>1, <2>2
<1>12. Rest(e, paid) = Rest(d, paid) /\ Outs(v, e, paid) = Outs(v, d, paid)
  <2>1. CASE paid
    <3>1. e = d
      BY <2>1
    <3> QED
      BY <3>1
  <2>2. CASE ~ paid
    <3> QED
      BY <2>2 DEF Rest, Outs
  <2> QED
    BY <2>1, <2>2
<1>13. HalvesOf(n, e, paid)'
  <2>1. Coinb1(n)' = Coinb1(n) /\ SigField' = SigField
    BY <1>3, Zenon DEF Coinb1, SigField
  <2>2. Second(value, e, paid, "pool")' = Second(v, d, paid, "pool")
    BY <1>3, <1>12, <2>1, Zenon DEF Second
  <2> QED
    BY <1>3, <1>6, <1>11, <1>12, <2>1, <2>2 DEF HalvesOf
<1>14. Halves'
  BY <1>5, <1>10, <1>13 DEF Halves
<1>15. made' # 0
  BY <1>4 DEF Template
<1>16. ASSUME NEW u \in Names PROVE UserRight(u)'
  BY <1>3 DEF Template, UserRight, CoinInv, Payee
<1>17. /\ DOMAIN txn' = Names /\ DOMAIN userwb' = Names
       /\ DOMAIN mined' = Names /\ DOMAIN hashed' = Names
  BY <1>3 DEF Template, CoinInv
<1>18. cpc' = "userwbs" => solo'
  BY <1>3 DEF Template
<1> QED
  BY <1>3, <1>7, <1>14, <1>15, <1>16, <1>17, <1>18 DEF CoinInv

\* The steps behind the template change what a user has, was sent or hashed.
LEMMA UsersKeep ==
    ASSUME CoinInv, made # 0, UNCHANGED <<confVars, workVars>>,
           DOMAIN txn' = Names, DOMAIN userwb' = Names,
           DOMAIN mined' = Names, DOMAIN hashed' = Names,
           newcomer' = "" \/ (newcomer' \in Names /\ (solo => txn'[newcomer'] # "")),
           cpc' \in {"idle", "send", cpc},
           \A u \in Names : UserRight(u)'
    PROVE  CoinInv'
<1>1. ConfTypes' /\ Halves' /\ made' = made /\ solo' = solo
  BY SameHalves DEF CoinInv, workVars, confVars
<1> QED
  BY <1>1 DEF CoinInv

\* A user's part of the invariant, as long as the template stays: behind a step
\* that changes what he has, and behind one that does not.
LEMMA UserNext ==
    ASSUME NEW u \in Names, UNCHANGED <<confVars, workVars>>,
           txn'[u] \in {"", Payee(u)},
           userwb'[u] # <<>> => solo /\ txn'[u] # "" /\ userwb'[u] = Spliced(txn'[u]),
           mined'[u] # <<>> => IF solo THEN userwb'[u] # <<>> /\ mined'[u] = Whole(userwb'[u])
                               ELSE mined'[u] = Whole(coinb2),
           hashed'[u] # <<>> =>
              IF solo THEN \/ userwb'[u] # <<>> /\ hashed'[u] = Whole(userwb'[u])
                           \/ mined'[u] = <<>> /\ hashed'[u] = Whole(Spliced("pool"))
              ELSE hashed'[u] = Whole(coinb2)
    PROVE  UserRight(u)'
<1>1. solo' = solo /\ coinb1' = coinb1 /\ coinb2' = coinb2 /\ coinb3' = coinb3
  BY DEF confVars, workVars
<1>2. /\ Payee(u)' = Payee(u) /\ Spliced(txn[u])' = Spliced(txn'[u])
      /\ Whole(userwb[u])' = Whole(userwb'[u]) /\ Whole(coinb2)' = Whole(coinb2)
      /\ Whole(Spliced("pool"))' = Whole(Spliced("pool"))
  BY <1>1, Zenon DEF Payee, Spliced, Script, Whole, Nonces
<1> QED
  BY <1>1, <1>2, Zenon DEF UserRight

LEMMA UserSame ==
    ASSUME NEW u \in Names, UserRight(u), UNCHANGED <<confVars, workVars>>,
           txn'[u] = txn[u], userwb'[u] = userwb[u], mined'[u] = mined[u], hashed'[u] = hashed[u]
    PROVE  UserRight(u)'
<1>1. /\ txn[u] \in {"", Payee(u)}
      /\ userwb[u] # <<>> => solo /\ txn[u] # "" /\ userwb[u] = Spliced(txn[u])
      /\ mined[u] # <<>> => IF solo THEN userwb[u] # <<>> /\ mined[u] = Whole(userwb[u])
                            ELSE mined[u] = Whole(coinb2)
      /\ hashed[u] # <<>> =>
            IF solo THEN \/ userwb[u] # <<>> /\ hashed[u] = Whole(userwb[u])
                         \/ mined[u] = <<>> /\ hashed[u] = Whole(Spliced("pool"))
            ELSE hashed[u] = Whole(coinb2)
  BY DEF UserRight
<1> QED
  BY <1>1, UserNext

LEMMA UserwbsKeep == ASSUME CoinInv, GenerateUserwbs PROVE CoinInv'
<1>1. UNCHANGED <<confVars, workVars>> /\ UNCHANGED <<txn, newcomer, mined, hashed>>
  BY DEF GenerateUserwbs
<1>2. made # 0 /\ ConfTypes /\ Halves /\ solo
  BY DEF GenerateUserwbs, CoinInv, NoTemplate
<1>3. \A o : Spliced(o) # <<>>
  BY <1>2, SplicedFull
<1>4. ASSUME NEW u \in Names PROVE UserRight(u)'
  <2>1. UserRight(u)
    BY DEF CoinInv
  <2>2. userwb'[u] = IF txn[u] = "" THEN userwb[u] ELSE Made(u)
    BY DEF GenerateUserwbs
  <2>3. userwb'[u] = userwb[u] \/ (userwb[u] = <<>> /\ txn[u] # "" /\ userwb'[u] = Spliced(txn[u]))
    BY <2>2 DEF Made
  <2>4. userwb'[u] # <<>> => txn[u] # "" /\ userwb'[u] = Spliced(txn[u])
    BY <2>1, <2>3 DEF UserRight
  <2>5. userwb[u] # <<>> => userwb'[u] = userwb[u]
    BY <2>3
  <2>6. /\ txn[u] \in {"", Payee(u)}
        /\ mined[u] # <<>> => userwb[u] # <<>> /\ mined[u] = Whole(userwb[u])
        /\ hashed[u] # <<>> => \/ userwb[u] # <<>> /\ hashed[u] = Whole(userwb[u])
                               \/ mined[u] = <<>> /\ hashed[u] = Whole(Spliced("pool"))
    BY <1>2, <2>1 DEF UserRight
  <2>7. txn'[u] = txn[u] /\ mined'[u] = mined[u] /\ hashed'[u] = hashed[u]
    BY <1>1
  <2> QED
    BY <1>1, <1>2, <2>4, <2>5, <2>6, <2>7, UserNext
<1> QED
  BY <1>1, <1>2, <1>4, UsersKeep DEF CoinInv, GenerateUserwbs

LEMMA BroadcastKeeps == ASSUME CoinInv, BroadcastWork PROVE CoinInv'
<1>1. UNCHANGED <<confVars, workVars>> /\ UNCHANGED <<txn, userwb, newcomer>>
  BY DEF BroadcastWork
<1>2. made # 0
  BY DEF BroadcastWork, CoinInv, NoTemplate
<1>3. ASSUME NEW u \in Names PROVE UserRight(u)'
  <2>1. UserRight(u)
    BY DEF CoinInv
  <2>2. \/ mined'[u] = mined[u]
        \/ solo /\ userwb[u] # <<>> /\ mined'[u] = Whole(userwb[u])
        \/ ~ solo /\ mined'[u] = Whole(coinb2)
    BY DEF BroadcastWork
  <2>3. hashed'[u] = (IF mined'[u] # <<>> THEN <<>> ELSE hashed[u])
    BY DEF BroadcastWork
  <2>4. mined'[u] # <<>> => IF solo THEN userwb[u] # <<>> /\ mined'[u] = Whole(userwb[u])
                            ELSE mined'[u] = Whole(coinb2)
    BY <2>1, <2>2, Zenon DEF UserRight
  <2>5. hashed'[u] # <<>> => mined'[u] = <<>> /\ hashed'[u] = hashed[u]
    BY <2>3
  <2>6. hashed'[u] # <<>> =>
          IF solo THEN \/ userwb[u] # <<>> /\ hashed'[u] = Whole(userwb[u])
                       \/ mined'[u] = <<>> /\ hashed'[u] = Whole(Spliced("pool"))
          ELSE hashed'[u] = Whole(coinb2)
    BY <2>1, <2>5, Zenon DEF UserRight
  <2>7. /\ txn[u] \in {"", Payee(u)}
        /\ userwb[u] # <<>> => solo /\ txn[u] # "" /\ userwb[u] = Spliced(txn[u])
    BY <2>1 DEF UserRight
  <2>8. txn'[u] = txn[u] /\ userwb'[u] = userwb[u]
    BY <1>1
  <2> QED
    BY <1>1, <2>4, <2>6, <2>7, <2>8, UserNext
<1> QED
  BY <1>1, <1>2, <1>3, UsersKeep DEF CoinInv, BroadcastWork

LEMMA GenerateUserKeeps ==
    ASSUME CoinInv, NEW v \in Names, NEW found \in BOOLEAN, GenerateUser(v, found) PROVE CoinInv'
<1>1. UNCHANGED <<confVars, workVars>> /\ UNCHANGED <<userwb, mined, hashed, cpc>>
  BY DEF GenerateUser
<1>2. made # 0 /\ DOMAIN txn = Names /\ DOMAIN txn' = Names
  <2>1. made > 0 /\ DOMAIN txn' = DOMAIN txn
    BY DEF GenerateUser
  <2>2. DOMAIN txn = Names
    BY DEF CoinInv
  <2> QED
    BY <2>1, <2>2
<1>3. ASSUME NEW u \in Names PROVE txn'[u] \in {"", Payee(u)} /\ (txn[u] # "" => txn'[u] = txn[u])
  <2>1. txn[u] \in {"", Payee(u)}
    BY DEF CoinInv, UserRight
  <2>2. CASE u # v
    BY <1>2, <2>1, <2>2 DEF GenerateUser
  <2>3. CASE u = v
    <3>1. txn'[u] = IF txn[u] = u THEN txn[u]
                    ELSE IF Kind[u] = "address" /\ found THEN u
                    ELSE IF solo /\ Kind[u] = "name" THEN "pool" ELSE txn[u]
      BY <1>2, <2>3 DEF GenerateUser
    <3> QED
      BY <2>1, <3>1 DEF Payee
  <2> QED
    BY <2>2, <2>3
<1>4. newcomer' = "" \/ (newcomer' = v /\ (solo => txn'[v] # ""))
  BY DEF GenerateUser
<1>5. ASSUME NEW u \in Names PROVE UserRight(u)'
  <2>1. UserRight(u)
    BY DEF CoinInv
  <2>2. /\ userwb[u] # <<>> => solo /\ txn[u] # "" /\ userwb[u] = Spliced(txn[u])
        /\ mined[u] # <<>> => IF solo THEN userwb[u] # <<>> /\ mined[u] = Whole(userwb[u])
                              ELSE mined[u] = Whole(coinb2)
        /\ hashed[u] # <<>> =>
              IF solo THEN \/ userwb[u] # <<>> /\ hashed[u] = Whole(userwb[u])
                           \/ mined[u] = <<>> /\ hashed[u] = Whole(Spliced("pool"))
              ELSE hashed[u] = Whole(coinb2)
    BY <2>1 DEF UserRight
  <2>3. userwb'[u] = userwb[u] /\ mined'[u] = mined[u] /\ hashed'[u] = hashed[u]
    BY <1>1
  <2>4. userwb'[u] # <<>> => solo /\ txn'[u] # "" /\ userwb'[u] = Spliced(txn'[u])
    BY <1>3, <2>2, <2>3
  <2> QED
    BY <1>1, <1>3, <2>2, <2>3, <2>4, UserNext
<1> QED
  BY <1>1, <1>2, <1>4, <1>5, UsersKeep DEF CoinInv

LEMMA AuthorisedKeeps == ASSUME CoinInv, NEW v \in Names, Authorised(v) PROVE CoinInv'
<1>1. UNCHANGED <<confVars, workVars>> /\ UNCHANGED <<txn, cpc>> /\ newcomer = v /\ newcomer' = ""
  BY DEF Authorised
<1>2. made # 0 /\ ConfTypes /\ Halves /\ (solo => txn[v] # "")
  BY <1>1, CoinbaseAssumption DEF CoinInv, NoTemplate
<1>3. solo => \A o : Spliced(o) # <<>>
  BY <1>2, SplicedFull
<1>4. /\ DOMAIN userwb' = Names /\ DOMAIN mined' = Names /\ DOMAIN hashed' = Names
      /\ mined'[v] = Whole(IF solo THEN Made(v) ELSE coinb2) /\ hashed'[v] = <<>>
      /\ userwb'[v] = (IF solo THEN Made(v) ELSE userwb[v])
      /\ \A u \in Names \ {v} : /\ userwb'[u] = userwb[u] /\ mined'[u] = mined[u]
                                /\ hashed'[u] = hashed[u]
  BY DEF Authorised, CoinInv
<1>5. ASSUME NEW u \in Names PROVE UserRight(u)'
  <2>1. UserRight(u)
    BY DEF CoinInv
  <2>2. CASE u # v
    BY <1>1, <1>4, <2>1, <2>2, UserSame
  <2>3. CASE u = v
    <3>1. solo => Made(v) = Spliced(txn[v])
      BY <2>1, <2>3 DEF Made, UserRight
    <3>2. solo => userwb'[v] # <<>> /\ userwb'[v] = Spliced(txn[v]) /\ mined'[v] = Whole(userwb'[v])
      BY <1>3, <1>4, <3>1
    <3>3. ~ solo => userwb'[v] = <<>> /\ mined'[v] = Whole(coinb2)
      BY <1>4, <2>1, <2>3 DEF UserRight
    <3>4. txn[u] \in {"", Payee(u)}
      BY <2>1 DEF UserRight
    <3> QED
      BY <1>1, <1>2, <1>4, <2>3, <3>2, <3>3, <3>4, UserNext
  <2> QED
    BY <2>2, <2>3
<1> QED
  BY <1>1, <1>2, <1>4, <1>5, UsersKeep DEF CoinInv

LEMMA SubmitKeeps == ASSUME CoinInv, NEW v \in Names, Submit(v) PROVE CoinInv'
<1>1. UNCHANGED <<confVars, workVars>> /\ UNCHANGED <<txn, userwb, mined, newcomer, cpc>>
  BY DEF Submit
<1>2. made # 0
  BY DEF Submit, CoinInv, NoTemplate
<1>3. /\ DOMAIN hashed' = Names
      /\ hashed'[v] = Whole(IF ~ solo THEN coinb2
                            ELSE IF userwb[v] # <<>> THEN userwb[v] ELSE Spliced("pool"))
      /\ \A u \in Names \ {v} : hashed'[u] = hashed[u]
  BY DEF Submit, CoinInv
<1>4. ASSUME NEW u \in Names PROVE UserRight(u)'
  <2>1. UserRight(u)
    BY DEF CoinInv
  <2>2. CASE u # v
    BY <1>1, <1>3, <2>1, <2>2, UserSame
  <2>3. CASE u = v
    <3>1. IF solo THEN \/ userwb[u] # <<>> /\ hashed'[u] = Whole(userwb[u])
                       \/ mined[u] = <<>> /\ hashed'[u] = Whole(Spliced("pool"))
          ELSE hashed'[u] = Whole(coinb2)
      BY <1>3, <2>1, <2>3 DEF UserRight
    <3>2. /\ txn[u] \in {"", Payee(u)}
          /\ userwb[u] # <<>> => solo /\ txn[u] # "" /\ userwb[u] = Spliced(txn[u])
          /\ mined[u] # <<>> => IF solo THEN userwb[u] # <<>> /\ mined[u] = Whole(userwb[u])
                                ELSE mined[u] = Whole(coinb2)
      BY <2>1 DEF UserRight
    <3>3. txn'[u] = txn[u] /\ userwb'[u] = userwb[u] /\ mined'[u] = mined[u]
      BY <1>1
    <3> QED
      BY <1>1, <3>1, <3>2, <3>3, UserNext
  <2> QED
    BY <2>2, <2>3
<1> QED
  BY <1>1, <1>2, <1>3, <1>4, UsersKeep DEF CoinInv

LEMMA CoinInvStep == CoinInv /\ [CoinNext]_coinVars => CoinInv'
<1> SUFFICES ASSUME CoinInv, [CoinNext]_coinVars PROVE CoinInv'
  OBVIOUS
<1>1. CASE \E v \in Rewards, n \in HeadLens : Template(v, n)
  BY <1>1, TemplateKeeps
<1>2. CASE GenerateUserwbs
  BY <1>2, UserwbsKeep
<1>3. CASE BroadcastWork
  BY <1>3, BroadcastKeeps
<1>4. CASE \E u \in Names, found \in BOOLEAN : GenerateUser(u, found)
  BY <1>4, GenerateUserKeeps
<1>5. CASE \E u \in Names : Authorised(u)
  BY <1>5, AuthorisedKeeps
<1>6. CASE \E u \in Names : Submit(u)
  BY <1>6, SubmitKeeps
<1>7. CASE UNCHANGED coinVars
  <2>1. CASE made = 0
    BY <1>7, <2>1 DEF coinVars, CoinInv, ConfTypes, NoTemplate, UserRight, Payee, Spliced, Whole,
       Nonces, Script
  <2>2. CASE made # 0
    <3>1. UNCHANGED <<confVars, workVars>>
      BY <1>7 DEF coinVars, confVars, workVars
    <3>2. UNCHANGED <<txn, userwb, mined, hashed, newcomer, cpc>>
      BY <1>7 DEF coinVars
    <3>3. \A u \in Names : UserRight(u)'
      BY <3>1, <3>2, UserSame DEF CoinInv
    <3> QED
      BY <2>2, <3>1, <3>2, <3>3, UsersKeep DEF CoinInv
  <2> QED
    BY <2>1, <2>2
<1> QED
  BY <1>1, <1>2, <1>3, <1>4, <1>5, <1>6, <1>7 DEF CoinNext

\* CoinbaseRight: every coinbase a miner is sent or hashes is a transaction of
\* the stated lengths that pays out the reward of its template, the fee with it
\* where there is one, to the pool or the miner's address.
THEOREM CoinbaseRightThm == CoinSpec => []CoinbaseRight
<1>1. CoinSpec => []CoinInv
  BY CoinInvInit, CoinInvStep, PTL DEF CoinSpec
<1> QED
  BY <1>1, CoinbaseFollows, PTL

-----------------------------------------------------------------------------
(* LazyReclaim: a reference-counted table with lazy removal.                  *)

(* The phases and the holders are what they should be.                       *)
LEMMA TypeCorrect == Spec => []TypeOK
<1>1. Init => TypeOK
  BY DEF Init, TypeOK, Phases
<1>2. TypeOK /\ [Next]_absVars => TypeOK'
  BY DEF TypeOK, Next, absVars
<1> QED
  BY <1>1, <1>2, PTL DEF Spec

(* One object's step keeps a held object in the table.                       *)
LEMMA StepKeepsHeld ==
    ASSUME NEW o \in Objs, held[o] # {} => phase[o] # "free", Step(o)
    PROVE  held'[o] # {} => phase'[o] # "free"
<1>1. CASE Same(o)
  BY <1>1 DEF Same
<1>2. CASE Admit(o)
  BY <1>2 DEF Admit
<1>3. CASE Acquire(o)
  BY <1>3 DEF Acquire
<1>4. CASE Release(o)
  BY <1>4 DEF Release
<1>5. CASE Retire(o)
  BY <1>5 DEF Retire
<1>6. CASE Reclaim(o)
  BY <1>6 DEF Reclaim
<1> QED
  BY <1>1, <1>2, <1>3, <1>4, <1>5, <1>6 DEF Step

(* Whatever a thread holds is in the table.                                  *)
THEOREM HeldStaysInTable == Spec => []HeldInTable
<1>1. Init => HeldInTable
  BY DEF Init, HeldInTable
<1>2. HeldInTable /\ [Next]_absVars => HeldInTable'
  <2> SUFFICES ASSUME HeldInTable, [Next]_absVars
               PROVE  HeldInTable'
    OBVIOUS
  <2>1. CASE Next
    <3> SUFFICES ASSUME NEW o \in Objs
                 PROVE  held'[o] # {} => phase'[o] # "free"
      BY DEF HeldInTable
    <3> QED
      BY <2>1, StepKeepsHeld DEF Next, HeldInTable
  <2>2. CASE UNCHANGED absVars
    BY <2>2 DEF absVars, HeldInTable
  <2> QED
    BY <2>1, <2>2
<1> QED
  BY <1>1, <1>2, PTL DEF Spec

(* One object's step takes it from nobody but its last holder, and never     *)
(* brings it back to service.                                                *)
LEMMA StepTakesNothingAway ==
    ASSUME NEW o \in Objs, held[o] # {} => phase[o] # "free", Step(o)
    PROVE  /\ (\E h, g \in held[o] : h # g) => phase'[o] # "free"
           /\ phase[o] = "dying" => phase'[o] # "live"
<1>1. CASE Same(o)
  BY <1>1 DEF Same
<1>2. CASE Admit(o)
  BY <1>2 DEF Admit
<1>3. CASE Acquire(o)
  BY <1>3 DEF Acquire
<1>4. CASE Release(o)
  BY <1>4 DEF Release
<1>5. CASE Retire(o)
  BY <1>5 DEF Retire
<1>6. CASE Reclaim(o)
  BY <1>6 DEF Reclaim
<1> QED
  BY <1>1, <1>2, <1>3, <1>4, <1>5, <1>6 DEF Step

(* An object in use by two threads is never recycled, and a dropped one      *)
(* never returns to service.                                                 *)
THEOREM ReclaimIsSafe == Spec => NeverTakenAway
<1> DEFINE Safe == \A o \in Objs :
                     /\ (\E h, g \in held[o] : h # g) => phase'[o] # "free"
                     /\ phase[o] = "dying" => phase'[o] # "live"
<1>1. HeldInTable /\ [Next]_absVars => [Safe]_absVars
  <2> SUFFICES ASSUME HeldInTable, Next
               PROVE  Safe
    OBVIOUS
  <2> SUFFICES ASSUME NEW o \in Objs
               PROVE  /\ (\E h, g \in held[o] : h # g) => phase'[o] # "free"
                      /\ phase[o] = "dying" => phase'[o] # "live"
    OBVIOUS
  <2> QED
    BY StepTakesNothingAway DEF Next, HeldInTable
<1> QED
  BY <1>1, HeldStaysInTable, PTL DEF Spec, NeverTakenAway
=============================================================================
