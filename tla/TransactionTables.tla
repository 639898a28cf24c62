-------------------------- MODULE TransactionTables --------------------------
(* A pool with its mining nodes and trusted remote servers                    *)
(* (src/src/stratifier.c).  Work is sent between them with the hashes of its  *)
(* transactions only; every server keeps a table of transactions from which   *)
(* it rebuilds the work of others, and tells the others of new ones.  Who     *)
(* solves a block tells the others, which submit it to their own bitcoind if  *)
(* they could rebuild the work it was found on.                               *)
(*                                                                           *)
(* Nodes take work from the pool alone; a remote server has a bitcoind and    *)
(* templates of its own.  Messages between two servers stay in order, but a   *)
(* block is put in front of what waits to be sent (SSEND_PREPEND).            *)
EXTENDS Integers, Sequences, FiniteSets, SequencesExt

CONSTANTS
    Txns,
    Templates,                       \* bound: sets of transactions in templates
    Pool, Nodes, Remotes,            \* servers
    RefRemote, RefLocal, RefReturned, \* REFCOUNT_REMOTE, _LOCAL, _RETURNED
    MaxWorks,                        \* bound: templates
    MaxUnread,                       \* bound: messages to a server when a template is made
    MaxBlocks                        \* bound: blocks solved

ASSUME TransactionTablesAssumption ==
    /\ RefReturned \in Nat /\ RefLocal \in Nat /\ RefRemote \in Nat
    /\ RefReturned < RefLocal /\ RefLocal < RefRemote
    /\ Pool \notin Nodes \union Remotes /\ Nodes \intersect Remotes = {}
    /\ Templates \subseteq SUBSET Txns
    /\ MaxWorks \in Nat /\ MaxUnread \in Nat /\ MaxBlocks \in Nat

VARIABLES
    table,    \* table[x]: transaction -> [ref, seen]
    adding,   \* adding[x][t]: what thread t of x has found to be new and will
              \* put in the table; "gbt" makes templates, "recv" reads messages
    down,     \* down[x]: messages from the pool to x
    upstream, \* upstream[x]: messages from the remote server x to the pool
    listed,   \* node_instances and remote_instances of the pool
    ready,    \* those that have been sent all transactions
    works,    \* works[i]: where work i was made, of which transactions
    bases,    \* bases[x]: work that x has: [id, whole]
    solved,   \* blocks: [id, at, via], via: the node of the miner, or the server
    heard     \* (history) heard[x]: the blocks of which x was told, each time

txnVars == <<table, adding, down, upstream, listed, ready, works, bases, solved, heard>>
netVars == <<listed, ready>>
blockVars == <<solved, heard>>

Servers == {Pool} \union Nodes \union Remotes
Threads == {"gbt", "recv"}
Row == [ref : 0..RefRemote, seen : BOOLEAN]
NetMsg == [t : {"txns", "req"}, txns : SUBSET Txns] \union [t : {"work", "block"}, id : 1..MaxWorks]

TxnTypeOK ==
    /\ \A x \in Servers :
        /\ DOMAIN table[x] \subseteq Txns /\ \A h \in DOMAIN table[x] : table[x][h] \in Row
        /\ \A i \in DOMAIN down[x] : down[x][i] \in NetMsg
        /\ \A i \in DOMAIN upstream[x] : upstream[x][i] \in NetMsg
    /\ adding \in [Servers -> [Threads -> SUBSET Txns]]
    /\ ready \subseteq listed /\ listed \subseteq Servers \ {Pool}

TxnInit ==
    /\ table = [x \in Servers |-> <<>>]
    /\ adding = [x \in Servers |-> [t \in Threads |-> {}]]
    /\ down = [x \in Servers |-> <<>>] /\ upstream = [x \in Servers |-> <<>>]
    /\ listed = {} /\ ready = {} /\ works = <<>> /\ bases = [x \in Servers |-> {}]
    /\ solved = {} /\ heard = [x \in Servers |-> <<>>]

-----------------------------------------------------------------------------
(* The table.                                                                *)

\* add_txn, for all of txns: those in the table are kept for longer.
Refreshed(tab, txns, remote) ==
    [h \in DOMAIN tab |->
        IF h \notin txns THEN tab[h]
        ELSE [ref |-> IF remote THEN RefRemote
                      ELSE IF tab[h].ref < RefLocal THEN RefLocal ELSE tab[h].ref,
              seen |-> TRUE]]

\* add_txn: those that are not in the table, or have not been used for long.
NewTxns(tab, txns) == {h \in txns : h \in DOMAIN tab => tab[h].ref <= RefReturned}

\* update_txns: the table without what was not seen for too long.
Purged(tab) ==
    LET kept == {h \in DOMAIN tab : tab[h].seen \/ tab[h].ref > 0}
    IN  [h \in kept |-> [ref |-> IF tab[h].seen THEN tab[h].ref ELSE tab[h].ref - 1,
                         seen |-> FALSE]]

\* With the rows of new transactions.
With(tab, txns, ref) ==
    [h \in DOMAIN tab \union txns |->
        IF h \in DOMAIN tab THEN tab[h] ELSE [ref |-> ref, seen |-> TRUE]]

-----------------------------------------------------------------------------
(* Messages.                                                                 *)

\* From the pool to every server of a set.
ToAll(xs, msg) == down' = [x \in Servers |-> IF x \in xs THEN Append(down[x], msg) ELSE down[x]]

\* To all that the server x is connected with (send_node_transactions,
\* send_node_workinfo).
Publish(x, msg) ==
    IF x = Pool THEN ToAll(listed, msg) /\ UNCHANGED upstream
    ELSE /\ upstream' = IF x \in Remotes
                        THEN [upstream EXCEPT ![x] = Append(@, msg)] ELSE upstream
         /\ UNCHANGED down

TxnsMsg(txns) == [t |-> "txns", txns |-> txns]

\* A message is read: by x from the pool, or by the pool from x.
Reading(x, msg) ==
    /\ x # Pool /\ adding[x]["recv"] = {} /\ down[x] # <<>> /\ Head(down[x]) = msg
PoolReading(x, msg) ==
    /\ adding[Pool]["recv"] = {} /\ upstream[x] # <<>> /\ Head(upstream[x]) = msg
ReadDown(x) == [down EXCEPT ![x] = Tail(@)]
ReadUp(x) == [upstream EXCEPT ![x] = Tail(@)]

-----------------------------------------------------------------------------
(* Templates.                                                                *)

\* block_update: wb_merkle_bin_txns looks the transactions up, add_base sends
\* the work.
NewTemplate(x, txns) ==
    /\ x = Pool \/ x \in Remotes \intersect listed
    /\ Len(works) < MaxWorks /\ adding[x]["gbt"] = {}
    /\ \A y \in Servers : Len(down[y]) <= MaxUnread
    /\ works' = Append(works, [at |-> x, txns |-> txns])
    /\ bases' = [bases EXCEPT ![x] = @ \union {[id |-> Len(works) + 1, whole |-> TRUE]}]
    /\ table' = [table EXCEPT ![x] = Refreshed(@, txns, FALSE)]
    /\ adding' = [adding EXCEPT ![x]["gbt"] = NewTxns(table[x], txns)]
    /\ Publish(x, [t |-> "work", id |-> Len(works) + 1])
    /\ UNCHANGED <<netVars, blockVars>>

\* update_txns: the others are told unless the new ones had all come to the
\* table by another way.
UpdateTable(x, thread) ==
    LET new == adding[x][thread]
        ref == IF thread = "recv" \/ x \in Nodes THEN RefRemote ELSE RefLocal
    IN  /\ new # {} /\ adding' = [adding EXCEPT ![x][thread] = {}]
        /\ table' = [table EXCEPT ![x] = With(Purged(@), new, ref)]
        /\ IF new \ DOMAIN Purged(table[x]) # {} THEN Publish(x, TxnsMsg(new))
           ELSE UNCHANGED <<down, upstream>>
        /\ UNCHANGED <<netVars, works, bases, blockVars>>

-----------------------------------------------------------------------------
(* Servers come and go.                                                      *)

\* add_mining_node, add_remote_server.
Join(x) ==
    /\ x \in (Nodes \union Remotes) \ listed /\ listed' = listed \union {x}
    /\ UNCHANGED <<table, adding, down, upstream, ready, works, bases, blockVars>>

\* (mutant) those of the latest work only
SendAllSeen(x) ==
    /\ x \in listed \ ready /\ ready' = ready \union {x}
    /\ down' = [down EXCEPT ![x] =
                  Append(@, TxnsMsg({h \in DOMAIN table[Pool] : table[Pool][h].seen}))]
    /\ UNCHANGED <<table, adding, upstream, listed, works, bases, blockVars>>

\* send_node_all_txns, for a node after its latency has been measured.
SendAll(x) ==
    /\ x \in listed \ ready /\ ready' = ready \union {x}
    /\ down' = [down EXCEPT ![x] = Append(@, TxnsMsg(DOMAIN table[Pool]))]
    /\ UNCHANGED <<table, adding, upstream, listed, works, bases, blockVars>>

\* The connection of a node breaks.
NodeLost(x) ==
    /\ x \in ready \intersect Nodes /\ listed' = listed \ {x} /\ ready' = ready \ {x}
    /\ down' = [down EXCEPT ![x] = <<>>]
    /\ UNCHANGED <<table, adding, upstream, works, bases, blockVars>>

-----------------------------------------------------------------------------
(* What the servers do with messages.                                        *)

\* add_node_txns at server x.
AddNodeTxns(x, txns) ==
    /\ table' = [table EXCEPT ![x] = Refreshed(@, txns, TRUE)]
    /\ adding' = [adding EXCEPT ![x]["recv"] = NewTxns(table[x], txns)]
    /\ UNCHANGED <<netVars, works, bases, blockVars>>

ReadTxns(x) ==
    \/ /\ \E txns \in SUBSET Txns : Reading(x, TxnsMsg(txns)) /\ AddNodeTxns(x, txns)
       /\ down' = ReadDown(x) /\ UNCHANGED upstream
    \/ /\ \E txns \in SUBSET Txns : PoolReading(x, TxnsMsg(txns)) /\ AddNodeTxns(Pool, txns)
       /\ upstream' = ReadUp(x) /\ UNCHANGED down

\* rebuild_txns: what is not in the table is asked of the local bitcoind, which
\* has got some of it; the others do not hear of those.
Rebuilt(tab, txns, got) == With(Refreshed(tab, txns, TRUE), got, RefRemote)

\* What x lacks of work id, and the answers of its bitcoind: all or nothing.
Missing(x, id) == works[id].txns \ DOMAIN table[x]
Answered(x, id) == {{}, Missing(x, id)}

\* add_node_base at x, whose bitcoind has got.  A node drops work it cannot
\* rebuild.
AddNodeBase(x, id, got) ==
    LET whole == got = Missing(x, id)
    IN  /\ table' = [table EXCEPT ![x] = Rebuilt(@, works[id].txns, got)]
        /\ bases' = IF whole \/ x \notin Nodes
                    THEN [bases EXCEPT ![x] = @ \union {[id |-> id, whole |-> whole]}]
                    ELSE bases
        /\ UNCHANGED <<adding, netVars, works, blockVars>>

\* request_txns: a remote server asks the pool, the pool all remote servers.
ReadWork(x, id, got) ==
    /\ Reading(x, [t |-> "work", id |-> id]) /\ got \in Answered(x, id)
    /\ AddNodeBase(x, id, got)
    /\ down' = ReadDown(x)
    /\ upstream' = IF x \in Remotes /\ got # Missing(x, id)
                   THEN [upstream EXCEPT ![x] =
                           Append(@, [t |-> "req", txns |-> Missing(x, id)])]
                   ELSE upstream

\* The pool gives the work to all others (add_remote_base).
PoolReadWork(x, id, got) ==
    LET asks == IF got # Missing(Pool, id) THEN Remotes \intersect listed ELSE {}
    IN  /\ PoolReading(x, [t |-> "work", id |-> id]) /\ got \in Answered(Pool, id)
        /\ AddNodeBase(Pool, id, got)
        /\ upstream' = ReadUp(x)
        /\ down' = [y \in Servers |->
                      down[y] \o (IF y \in asks
                                  THEN <<[t |-> "req", txns |-> Missing(Pool, id)]>> ELSE <<>>)
                              \o (IF y \in listed \ {x}
                                  THEN <<[t |-> "work", id |-> id]>> ELSE <<>>)]

\* get_reqtxns: what is in the table of x.
Reply(x, txns) ==
    LET found == txns \intersect DOMAIN table[x]
    IN  IF found = {} THEN <<>> ELSE <<TxnsMsg(found)>>

ReadRequest(x) == \E txns \in SUBSET Txns :
    LET msg == [t |-> "req", txns |-> txns]
    IN  /\ \/ /\ Reading(x, msg) /\ x \in Remotes
              /\ down' = ReadDown(x)
              /\ upstream' = [upstream EXCEPT ![x] = @ \o Reply(x, txns)]
           \/ /\ PoolReading(x, msg)
              /\ upstream' = ReadUp(x)
              /\ down' = [down EXCEPT ![x] = @ \o Reply(Pool, txns)]
        /\ UNCHANGED <<table, adding, netVars, works, bases, blockVars>>

-----------------------------------------------------------------------------
(* Blocks.                                                                   *)

BlockMsg(id) == [t |-> "block", id |-> id]
Told(xs, id) == heard' = [x \in Servers |-> IF x \in xs THEN Append(heard[x], id) ELSE heard[x]]

\* In front of what has not been sent yet (bound: ahead of all, or behind all).
Ahead(msgs, id, first) == IF first THEN <<BlockMsg(id)>> \o msgs ELSE Append(msgs, BlockMsg(id))

\* (mutant) a remote server is told of the blocks it has found
OthersAll(x) == Remotes \intersect listed

\* downstream_json: all remote servers but the one it comes from.
Others(x) == (Remotes \intersect listed) \ {x}

\* send_nodes_block: all nodes but the one whose miner has found it.
NodesBut(via) == (Nodes \intersect listed) \ {via}

\* get_workbase, get_remote_workbase: x has the work, and all of it.
HasWhole(x, id) == [id |-> id, whole |-> TRUE] \in bases[x]

\* test_blocksolve at x, the share of a miner that is connected to via.
SolveBlock(x, via, id, first) ==
    /\ HasWhole(x, id) /\ works[id].at = x
    /\ via = x \/ (x = Pool /\ via \in Nodes \intersect ready)
    /\ Cardinality(solved) < MaxBlocks /\ \A b \in solved : b.id # id
    /\ solved' = solved \union {[id |-> id, at |-> x, via |-> via]}
    /\ IF x = Pool
       THEN LET told == NodesBut(via) \union Others(x)
            IN  /\ Told(told, id)
                /\ down' = [y \in Servers |-> IF y \in told THEN Ahead(down[y], id, first)
                                              ELSE down[y]]
                /\ UNCHANGED upstream
       ELSE /\ upstream' = [upstream EXCEPT ![x] = Append(@, BlockMsg(id))]
            /\ Told({Pool}, id) /\ UNCHANGED down
    /\ UNCHANGED <<table, adding, netVars, works, bases>>

\* parse_remote_block at the pool: nodes hear of it if the work was rebuilt.
PoolReadBlock(x, id, first) ==
    LET told == Others(x)
                \union IF HasWhole(Pool, id) THEN NodesBut(x) ELSE {}
    IN  /\ PoolReading(x, BlockMsg(id))
        /\ upstream' = ReadUp(x)
        /\ down' = [y \in Servers |-> IF y \in told THEN Ahead(down[y], id, first) ELSE down[y]]
        /\ Told(told, id)
        /\ UNCHANGED <<table, adding, netVars, works, bases, solved>>

\* submit_node_block, parse_upstream_block: submitted if the work is there; a
\* remote server does not pass it on.
ReadBlock(x, id) ==
    /\ Reading(x, BlockMsg(id)) /\ down' = ReadDown(x)
    /\ UNCHANGED <<table, adding, upstream, netVars, works, bases, blockVars>>

-----------------------------------------------------------------------------

TxnNext ==
    \/ \E x \in Servers :
        \/ \E txns \in Templates : NewTemplate(x, txns)
        \/ \E t \in Threads : UpdateTable(x, t)
        \/ Join(x) \/ SendAll(x) \/ NodeLost(x) \/ ReadTxns(x) \/ ReadRequest(x)
        \/ \E id \in DOMAIN works :
            \/ \E got \in Answered(x, id) : ReadWork(x, id, got)
            \/ \E got \in Answered(Pool, id) : PoolReadWork(x, id, got)
            \/ \E via \in Servers, first \in BOOLEAN : SolveBlock(x, via, id, first)
            \/ \E first \in BOOLEAN : PoolReadBlock(x, id, first)
            \/ ReadBlock(x, id)

-----------------------------------------------------------------------------
(* Properties.                                                               *)

UnderWay(x) ==
    adding[x]["recv"]
    \union UNION {down[x][i].txns : i \in {i \in DOMAIN down[x] : down[x][i].t = "txns"}}

\* A node has every transaction that is in the pool's table, or will have it when
\* it has read what was sent: it counts the uses of a transaction for itself,
\* and keeps it for as long as the pool may use it again without sending it
\* again.  So it is with a pool that has no remote servers; what rebuild_txns
\* puts in the table, and what comes from a remote server, is not always told
\* to the nodes.
NodesFollow ==
    Remotes \intersect listed = {} =>
        \A x \in Nodes \intersect ready :
            DOMAIN table[Pool] \subseteq DOMAIN table[x] \union UnderWay(x)

\* A server is told of a block once at most, and never of its own, nor a node of
\* one that a miner of its has found, whichever way it goes.
BlockToldOnce ==
    \A b \in solved : \A x \in Servers :
        Cardinality({i \in DOMAIN heard[x] : heard[x][i] = b.id})
            <= IF x \in {b.at, b.via} THEN 0 ELSE 1
=============================================================================
