-------------------------------- MODULE MCPool --------------------------------
(* Five parts of the pool that share no state, checked in one run: part is    *)
(* the one that moves, the others stay as they start.                         *)
EXTENDS ShareForwarding, TransactionTables, ClientDifficulty, SocketLines,
        Coinbase, FiniteSetsExt

CONSTANT m1

VARIABLE part
vars == <<part, fwdVars, txnVars, diffVars, lineVars, coinVars>>

\* What names are, and how long scripts.
Kinds == [u \in Names |-> CASE u = "addr" -> "address" [] u = "adr" -> "typo" [] OTHER -> "name"]
LengthsOf == [o \in Names \union {"pool", "fee"} |->
                CASE o = "pool" -> 25 [] o = "fee" -> 35 [] OTHER -> 23]

\* Each template holds one transaction; they are numbered as they appear.
Singles == {{h} : h \in Txns}
Numbered ==
    \A i \in DOMAIN works :
        \A h \in works[i].txns : h = 1 \/ \E j \in 1..(i - 1) : h - 1 \in works[j].txns

\* (bound) Once a pool has asked for a reply, no job comes, no share is outdated,
\* and there is one at most; once a session is set up again, no third job comes.
NothingElse ==
    /\ pings > 0 => lastJob = 1 /\ outdated = {} /\ Len(put) <= 1
    /\ Len(wire) > Cardinality(Structs) => lastJob < 3

\* (bound) With a remote server listed, and once a block is solved, there is room
\* for fewer templates.
Few == Remotes \intersect listed # {} \/ solved # {} =>
         Len(works) <= IF listed = Remotes THEN 2 ELSE 1

Init ==
    /\ part \in {"forward", "txns", "diff", "lines", "coinbase"}
    /\ FwdInit /\ TxnInit /\ DiffInit /\ LinesInit /\ CoinInit
    /\ part # "forward" => bound = [m \in Miners |-> Name(1)]
    /\ part # "diff" => /\ mode = "pool" /\ suggest = 0 /\ waiting = FALSE
                        /\ workerMin = Min(WorkerMins) /\ limit = Min(Diffs)
    /\ part # "coinbase" => sig = 0 /\ fee = 0 /\ ~ solo

Next ==
    \/ part = "forward" /\ FwdNext /\ NothingElse'
       /\ UNCHANGED <<part, txnVars, diffVars, lineVars, coinVars>>
    \/ part = "txns" /\ TxnNext /\ (Numbered /\ Few)'
       /\ UNCHANGED <<part, fwdVars, diffVars, lineVars, coinVars>>
    \/ part = "diff" /\ DiffNext /\ UNCHANGED <<part, fwdVars, txnVars, lineVars, coinVars>>
    \/ part = "lines" /\ LinesNext /\ UNCHANGED <<part, fwdVars, txnVars, diffVars, coinVars>>
    \/ part = "coinbase" /\ CoinNext
       /\ UNCHANGED <<part, fwdVars, txnVars, diffVars, lineVars>>

Spec == Init /\ [][Next]_vars
=============================================================================
