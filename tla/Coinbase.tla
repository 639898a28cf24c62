------------------------------ MODULE Coinbase ------------------------------
(* The coinbase transaction of each miner (src/src/stratifier.c): made once a *)
(* template by generate_coinbase, in solo mode completed for each user by     *)
(* __generate_userwb, sent in two halves around the miner's nonces, and put   *)
(* together again to hash his shares.  The bytes are a sequence of fields     *)
(* <<kind, value>>.  Only the current workbase is followed; no witness        *)
(* output is ever inserted here (gbt_merkle_bins clears insert_witness).      *)
EXTENDS Integers, Sequences, SequencesExt

CONSTANTS
    Names,       \* usernames
    Kind,        \* Kind[u]: "address", "typo" (looks like one), "name"
    ScriptLen,   \* ScriptLen[o]: bytes of the output script of o: a user, "pool", "fee"
    Rewards,     \* coinbasevalue of templates, in satoshi
    Fees,        \* poolfee as configured, in tenths of a percent
    HeadLens,    \* bytes of height, flags and times in the script
    SigLens,     \* bytes of btcsig, 0 if there is none
    Enonce1Len, Enonce2Len,
    MaxTemplates \* bound

ASSUME CoinbaseAssumption ==
    /\ Names \intersect {"pool", "fee", ""} = {}   \* parse_authorise: no empty name
    /\ Kind \in [Names -> {"address", "typo", "name"}]
    /\ ScriptLen \in [Names \union {"pool", "fee"} -> Nat \ {0}]
    /\ Rewards \subseteq Nat /\ Fees \subseteq 0..500   \* clamped by parse_config
    /\ HeadLens \subseteq Nat /\ SigLens \subseteq 0..38
    /\ Enonce1Len \in Nat /\ Enonce2Len \in Nat /\ MaxTemplates \in Nat

VARIABLES
    solo, sig, fee,   \* btcsolo, length of btcsig, poolfee as configured
    poolvalid, poolfee,
    made,             \* templates so far
    value,            \* coinbasevalue of the current workbase
    coinb1, coinb2, coinb3,
    txn,              \* txn[u]: whose script the user has, "" without any
    userwb,           \* userwb[u]: his coinb2, <<>> without any
    cpc,              \* the update thread in block_update
    newcomer,         \* the user the authoriser is at, "" when none
    mining,           \* users with a client that was authorised
    mined,            \* (history) mined[u]: the coinbase u was sent, <<>> if none
    hashed            \* (history) hashed[u]: that of his last share since

coinVars == <<solo, sig, fee, poolvalid, poolfee, made, value, coinb1, coinb2, coinb3,
              txn, userwb, cpc, newcomer, mining, mined, hashed>>
confVars == <<solo, sig, fee, poolvalid>>
workVars == <<poolfee, made, value, coinb1, coinb2, coinb3>>

CoinInit ==
    /\ solo \in BOOLEAN /\ sig \in SigLens /\ fee \in Fees /\ poolvalid \in BOOLEAN
    /\ fee = 0 => ~ poolvalid
    /\ poolfee = fee /\ made = 0 /\ value = 0
    /\ coinb1 = <<>> /\ coinb2 = <<>> /\ coinb3 = <<>>
    /\ txn = [u \in Names |-> ""] /\ userwb = [u \in Names |-> <<>>]
    /\ cpc = "idle" /\ newcomer = "" /\ mining = {}
    /\ mined = [u \in Names |-> <<>>] /\ hashed = [u \in Names |-> <<>>]

-----------------------------------------------------------------------------
(* generate_coinbase.                                                        *)

Dust == 546

\* The fee in double precision, truncated: rounding may lose one satoshi.
FeeOf(v) == LET exact == (v * poolfee) \div 1000
            IN  IF (v * poolfee) % 1000 = 0 /\ exact > 0 THEN {exact, exact - 1} ELSE {exact}

\* coinb1 up to the nonces: n bytes of height, flags and times.  The length of
\* the script counts them, the nonces behind a byte, and btcsig behind a byte.
SigField == IF sig > 0 THEN <<<<"bytes", sig + 1>>>> ELSE <<>>
Coinb1(n) ==
    LET coinb1len == 41 + 1 + n + 1
        siglen == IF sig > 0 THEN sig + 1 ELSE 0
        len == coinb1len - 41 + Enonce1Len + Enonce2Len + siglen
    IN  <<<<"scriptlen", len - 1>>, <<"bytes", n>>, <<"bytes", 1>>>>

Script(o) == <<<<"len", ScriptLen[o]>>, <<"script", o>>>>
Lock == <<<<"lock", 0>>>>

\* (mutant) a fee that is dust in this template is switched off for good
KeptFeeUnlessDust(charged, paid) == IF paid THEN poolfee ELSE 0

\* Without a fee poolfee becomes 0; a fee that is dust in this template stays.
KeptFee(charged, paid) == IF charged THEN poolfee ELSE 0

\* d is the fee in satoshi.  In pool mode coinb2 is complete.
GenerateCoinbase(v, n, d) ==
    LET charged == poolvalid /\ poolfee > 0
        paid == charged /\ d >= Dust
        outs == <<<<"sequence", 0>>, <<"count", IF paid THEN 2 ELSE 1>>,
                  <<"value", IF paid THEN v - d ELSE v>>>>
        tail == (IF paid THEN <<<<"value", d>>>> \o Script("fee") ELSE <<>>) \o Lock
    IN  /\ value' = v /\ coinb1' = Coinb1(n)
        /\ poolfee' = KeptFee(charged, paid)
        /\ IF solo THEN coinb2' = SigField \o outs /\ coinb3' = tail
           ELSE coinb2' = SigField \o outs \o Script("pool") \o tail /\ coinb3' = <<>>

\* block_update up to the new current_workbase.
Template(v, n) ==
    /\ cpc = "idle" /\ made < MaxTemplates /\ made' = made + 1
    /\ \E d \in FeeOf(v) : GenerateCoinbase(v, n, d)
    /\ userwb' = [u \in Names |-> <<>>]
    /\ mined' = [u \in Names |-> <<>>] /\ hashed' = [u \in Names |-> <<>>]
    /\ cpc' = IF solo THEN "userwbs" ELSE "send"
    /\ UNCHANGED <<confVars, txn, newcomer, mining>>

-----------------------------------------------------------------------------
(* Per-user halves, and what miners are sent.                                *)

\* __generate_userwb: the user's script between coinb2 and coinb3, once.
Spliced(o) == coinb2 \o Script(o) \o coinb3
Made(u) == IF userwb[u] = <<>> THEN Spliced(txn[u]) ELSE userwb[u]

\* generate_userwbs
GenerateUserwbs ==
    /\ cpc = "userwbs" /\ cpc' = "send"
    /\ userwb' = [u \in Names |-> IF txn[u] = "" THEN userwb[u] ELSE Made(u)]
    /\ UNCHANGED <<confVars, workVars, txn, newcomer, mining, mined, hashed>>

\* A miner's coinbase: coinb1, the nonces, the second half.
Nonces == <<<<"bytes", Enonce1Len>>, <<"bytes", Enonce2Len>>>>
Whole(second) == coinb1 \o Nonces \o second

\* stratum_broadcast_update or stratum_broadcast_updates (__user_notify).
BroadcastWork ==
    /\ cpc = "send" /\ cpc' = "idle"
    /\ mined' = [u \in Names |->
                   IF u \notin mining \/ (solo /\ userwb[u] = <<>>) THEN mined[u]
                   ELSE Whole(IF solo THEN userwb[u] ELSE coinb2)]
    /\ hashed' = [u \in Names |-> IF mined'[u] # <<>> THEN <<>> ELSE hashed[u]]
    /\ UNCHANGED <<confVars, workVars, txn, userwb, newcomer, mining>>

\* generate_user: an address that is found to be one has its own script, what
\* does not even look like one the pool's.  found is what the generator says;
\* it has no answer without a live bitcoind.
GenerateUser(u, found) ==
    LET own == Kind[u] = "address" /\ found
        fallback == solo /\ Kind[u] = "name"
    IN  /\ newcomer = "" /\ made > 0
        /\ txn' = [txn EXCEPT ![u] = IF @ = u THEN @ ELSE IF own THEN u
                                     ELSE IF fallback THEN "pool" ELSE @]
        \* parse_authorise: who has neither is turned away in solo mode
        /\ newcomer' = IF solo /\ txn'[u] = "" THEN "" ELSE u
        /\ UNCHANGED <<confVars, workVars, userwb, cpc, mining, mined, hashed>>

\* The rest of parse_authorise: in solo mode the user's half for the current
\* work, which he is sent.  In pool mode he has been sent it at mining.subscribe,
\* which is put here: nothing of it depends on the user.
Authorised(u) ==
    /\ newcomer = u /\ newcomer' = "" /\ mining' = mining \union {u}
    /\ userwb' = IF solo THEN [userwb EXCEPT ![u] = Made(u)] ELSE userwb
    /\ mined' = [mined EXCEPT ![u] = Whole(IF solo THEN Made(u) ELSE coinb2)]
    /\ hashed' = [hashed EXCEPT ![u] = <<>>]
    /\ UNCHANGED <<confVars, workVars, txn, cpc>>

\* __user_coinb2 and submission_diff: a share of the current work, which the
\* miner may not have been sent.
Submit(u) ==
    /\ u \in mining
    /\ hashed' = [hashed EXCEPT ![u] =
           Whole(IF ~ solo THEN coinb2
                 ELSE IF userwb[u] # <<>> THEN userwb[u] ELSE Spliced("pool"))]
    /\ UNCHANGED <<confVars, workVars, txn, userwb, cpc, newcomer, mining, mined>>

CoinNext ==
    \/ \E v \in Rewards, n \in HeadLens : Template(v, n)
    \/ GenerateUserwbs \/ BroadcastWork
    \/ \E u \in Names : (\E found \in BOOLEAN : GenerateUser(u, found))
                        \/ Authorised(u) \/ Submit(u)

-----------------------------------------------------------------------------
(* Property.                                                                 *)

\* What a bitcoind reads: a script of the stated length, then as many outputs as
\* stated, each a value and a script of the stated length, then the lock time.
FieldAt(tx, kind) == CHOOSE i \in DOMAIN tx : tx[i][1] = kind
Bytes(fs) ==
    LET upto[i \in 0..Len(fs)] == IF i = 0 THEN 0 ELSE upto[i - 1] + fs[i][2]
    IN  upto[Len(fs)]
WellFormed(tx) ==
    LET seqno == FieldAt(tx, "sequence")
        count == tx[seqno + 1][2]
    IN  /\ tx[1] = <<"scriptlen", Bytes(SubSeq(tx, 2, seqno - 1))>>
        /\ \A i \in 2..(seqno - 1) : tx[i][1] = "bytes"
        /\ Len(tx) = seqno + 1 + 3 * count + 1 /\ tx[Len(tx)] = Lock[1]
        /\ \A i \in 1..count :
              LET o == seqno + 3 * i - 1 IN
              /\ tx[o][1] = "value" /\ tx[o + 2][1] = "script"
              /\ tx[o + 1] = <<"len", ScriptLen[tx[o + 2][2]]>>

Output(tx, i) == LET o == FieldAt(tx, "sequence") + 3 * i - 1 IN <<tx[o][2], tx[o + 2][2]>>

\* Each coinbase a miner works on is a transaction a bitcoind can read, whose
\* outputs come to the template's reward; the miner's name says who is paid; the
\* configured fee is paid from every template where it is no dust, and nothing
\* below dust is paid to anyone; and his shares are hashed with what he was sent.
CoinbaseRight ==
    \A u \in Names : \A tx \in {mined[u], hashed[u]} \ {<<>>} :
        LET due == IF poolvalid THEN (value * fee) \div 1000 ELSE 0
            two == FieldAt(tx, "sequence") + 4 < Len(tx) - 1
            first == Output(tx, 1)
            second == IF two THEN Output(tx, 2) ELSE <<0, "fee">>
        IN  /\ WellFormed(tx) /\ first[1] + second[1] = value /\ second[2] = "fee"
            /\ second[1] \in IF due > Dust THEN {due, due - 1}
                             ELSE IF due = Dust THEN {0, Dust} ELSE {0}
            \* a share of work he was not sent may be hashed for the pool
            /\ \/ first[2] = (IF solo /\ Kind[u] = "address" THEN u ELSE "pool")
               \/ mined[u] = <<>> /\ first[2] = "pool"
            /\ mined[u] # <<>> /\ hashed[u] # <<>> => mined[u] = hashed[u]
=============================================================================
