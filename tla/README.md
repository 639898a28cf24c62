# ckpool, specified in TLA+

TLA+ modules of ckpool, a Bitcoin Cash mining pool (`src/`): the life of a
miner's connection, work and shares, templates and blocks, difficulty,
coinbases, the upstream pools of proxy mode, nodes and remote servers, and the
queues, locks and buffers these are built on.  TLC checks the modules on small
instances; TLAPS proves most of the safety properties for every size of the
system, in eight proof modules.
`PROJECT.json` maps every definition to the lines it models, and lists runs,
findings, hazards and theorems.

    tlc -workers 2 -config Workbases.cfg MCWorkbasesShares.tla    # one run
    tlapm WorkbasesShares_proofs.tla

## 1. Inventory

ckpool is one process with many threads.  Components are process instances that
exchange text commands over unix sockets (`send_proc`), and queues (`ckmsgq`)
with threads of their own; they share structs under ck locks.

| Component | State | Operations | What is hard | What makes it correct |
|---|---|---|---|---|
| Connector (`connector.c`): threads receiver, `cevent` queue, sender, `connector_loop`, `cmpq` queue | client hashtable, dead and recycled lists, reference counts, descriptors, epoll list, send lists | accept, read and parse, send, drop, test, reject | clients used outside the lock; descriptors that the kernel hands out again; slow peers | references exact, descriptors neither lost nor shared, messages in order, stratifier told of drops |
| Stratifier, instances (`stratifier.c`): `stratum_loop`, `srecvs`, `sauthq`, `sshareq`, `ssends`, `statsupdate`, `updateq` | instance hashtable, sessions, users, workers, counters | create, subscribe, authorise, submit, drop, walk, broadcast, dropall, reconnect | an instance dropped while others use it; the lock given up in the middle of an operation | nobody's instance recycled, removed exactly once, nonce spaces distinct, counts right |
| Stratifier, workbases and shares | workbases with read counts, share table, per-user workbases, `blockchange_id` | new work, ageing, broadcast, authorisation's first work, share check, block submission | work aged out while in use; miners who come while a broadcast is under way; duplicates across a purge | no use after ageing, an update reaches everyone it should, no share counted twice, no block lost |
| Stratifier, template updates | `update_sem`, `updateq`, command queues | block notification, timer, retry, submission | a stalled bitcoind, lost answers, coalesced updates | the permission to update never lost, new work eventually after a block |
| Generator (`generator.c`), fail-over: `gen_loop`, `server_watchdog` | bitcoinds, alive flags, `current_si` | calls, `live_server`, reconnect | a server dying during a call, several threads looking for a live one | a live server is used when there is one, the first when it is back |
| Stratifier, difficulty and back-off | client's difficulty, wishes, limits, failure flags | subscribe, authorise, suggest, `add_submit`, upstream's difficulty | four threads change it, and make and queue their messages without a lock | the miner knows the difficulty he has |
| Stratifier, coinbase | fee, scripts, `coinb1` to `coinb3`, `userwb` | `generate_coinbase`, `__generate_userwb`, `submission_diff` | rounding, dust, a transaction put together in several places | a readable transaction that pays the right people the whole reward |
| Stratifier, transactions, nodes, remote servers | transaction tables with reference counts, copies of work at other servers | templates, joins, requests, rebuilt work, blocks | what another server has is never asked; blocks overtake the work they were found on | nodes have what is not sent again, a block told once |
| Generator, proxies: a thread per parent, recruiters | parents, subproxies, sessions, flags | subscribe, authorise, lose, recruit, disable, delete, reconnect | sessions lost and set up by different threads, messages that come late | both processes agree on which sessions there are |
| Stratifier, proxies | `proxy_t` with bound clients, priorities, current proxy | subscribe, notify, dead, select, bind, reap, reconnect | proxies reaped under clients, choices from late messages | counts exact, the best live proxy is used |
| Generator, shares upstream: `proxy_send` | share table, `psends`, `csq`, notify instances | add, send in parts, answer, age | partly sent messages, sessions ending in between | shares whole, in order, none forgotten |
| Message queues (`ckpool.c`) | list, mutex, condition per array | add, append, prepend | one condition for several lists | nothing lost, order kept, everything handled |
| Socket lines (`ckpool.c`) | buffer of a `connsock_t` | `read_socket_line` | lines cut anywhere, time-outs, several lines at once, reconnects | lines whole, once, in order |
| Locks (`libckpool.c`) | mutex and rwlock | read, write, downgrade | readers starve writers, gap in the downgrade | exclusion, writers get in |
| Statistics, user and pool files (`stratifier.c`) | decayed averages, files | periodic | floating point, I/O | |
| Process, commands, handover (`ckpool.c`, `libckpool.c`) | listeners, options | start, commands | I/O | |
| Hashes, addresses (`sha2.c`, `cashaddr_simple.c`, `bitcoin.c`) | none | pure functions | | test vectors in `src/test` |
| API server (`api/ckpool_api_server.go`), `ckpmsg`, `notifier` | none | read-only requests | | |
| Vendored: uthash, utlist, jansson | | | uthash's order of iteration | |

How they interact, for one connection: the receiver accepts, the event queue
reads messages and hands them to `srecvs`; that thread creates the instance and
passes authorisations to `sauthq` and shares to `sshareq`; answers go through
`ssends` and `cmpq` to the connector's sender.  When the connection ends the
connector sends `dropclient` to `stratum_loop`; when the stratifier wants rid
of a client it sends `dropclient` to `connector_loop`.  The two tables are never
locked together, so each sees the other's changes late.

For work: a bitcoind's notification, a timer or a solved block queues an update;
`updateq` asks the generator for a template, makes a workbase of it and
broadcasts it; shares come back by `sshareq` and may be blocks, which the
generator submits.  In proxy mode work comes from the generator's upstream
sessions instead, and shares go back by `generator_add_send`.  A pool may feed
nodes (which have no templates of their own) and trusted remote servers (which
have), with the hashes of transactions only.

## 2. Plan

The modules, most important first.  All are written; the proofs were made where
an inductive argument over many threads is what a test cannot give.

| | Module | Abstract specification or main question | Proved |
|---|---|---|---|
| 1 | `LazyReclaim` | the contract of both client tables | `ReclaimIsSafe` |
| 2 | `StratifierClients` | implements 1 | all that holds, and the refinement |
| 3 | `ConnectorClients` | implements 1 | all safety properties and the refinement |
| 4 | `CkMsgQueue` | order and progress of messages | `InOrder`, `NothingLost` |
| 5 | `CkLock` | why a critical section is one action | `MutualExclusion`, `Stable` |
| 6 | `WorkbasesShares` | no workbase is lost in use, no miner and no block forgotten | all |
| 7 | `TemplateUpdates` | the pool follows the chain (liveness) | `OneUpdate`, `SolvedAccepted` |
| 8 | `GeneratorProxies`, `StratifierProxies` composed | two processes agree on sessions | all |
| 9 | `ShareForwarding`, `TransactionTables` | messages to other pools and servers | all |
| 10 | `ClientDifficulty`, `Coinbase`, `SocketLines` | what a miner is told, paid, and read from | all |

Left, in this order: the credit of shares around a change of difficulty; users' proxies' commands; what remote servers report of
their workers; the redirector and passthrough modes.

## 3. Modules

### LazyReclaim

An object is free, live or dying.  `Admit` is the insertion into the table,
`Acquire` and `Release` are reference counting, `Retire` a drop while others
hold the object, `Reclaim` its removal, by nobody or by its last holder.
`Sweepers` are holders that may take hold of a dying object: the walks.  One
step of `Next` may take several objects on, as a critical section does.

### StratifierClients

One action is one critical section of `instance_lock`, or one use of an
instance outside it.  `inst` are the structs (recycled by `__kill_instance`),
`table` the hashtable, `before` uthash's order of insertion, `hold[t]` the
instance thread `t` holds a reference on.

| Thread of the code | Actions |
|---|---|
| connector (as the stratifier sees it) | `Parse` and `AddRecv` (a message, whose test of `client->invalid` is not locked), `Close`, `ConnectorLoop`, `SendClient` |
| srecv | `RecvRecruit`, `RecvAddInstance` (`__stratum_add_instance` gives the lock up in between), `RecvFound`, `RecvDropped`, one action per method, `RecvDone` |
| authoriser | `AuthTake`, `AuthError`, `AuthLink` (`generate_user`), `AuthThrottled`, `AuthSucceed`, `AuthFail`, `AuthDone` |
| share processor | `ShareTake`, `ShareSubmit`, `ShareDone` |
| stratum_loop | `LoopDrop`, `LoopDropAll`, `LoopReconnect` and `LoopTag`, `LoopGetClient` and `LoopPutClient` |
| statsupdate | `StatsStart`, `StatsVisit`, `StatsNext` |
| updater | `Broadcast` (pool), `BcastStart`, `BcastNext` (btcsolo) |

A message's contents are chosen when it is looked at: any method, at any time.
A session is its `enonce1`; which session a subscription names is any, so the
ten minutes they live are any time.  Each of the three arrays of threads
(`srecvs`, `sshareq`, `ssends`) is one thread here, since only the first thread
of an array ever has work (see `ThreadsShareWork` below).  Answers are a set of
ids: what they say and how many there are makes no difference to instances.
The history variable `todo` is what a walk has still to come to.

### ConnectorClients

`client` are the structs, with where they are (recycled, being accepted, in the
table, dead).  Only `ref` and the lists are protected by `cdata->lock`; `fd` is
read without one, so reading it (`EventLoad`, `EventRearm`, `SenderLoad`) and
using it (`EventRead`, `EventMod`, `SenderWritten`...) are two actions, with
the value in `fdv`.  The kernel is `open` and `epoll`: descriptors are handed
out lowest first, events are one-shot, closing one takes it off the epoll list.
`invalidate_client` is three actions of the calling thread: `Drop`, `Tell`,
`Cull`.  The sender goes round its list (`at`), and a message stays at its place
while its client blocks.

### CkMsgQueue and CkLock

Queues of an array, each with its list; one mutex and one condition.  Messages
are numbered; `must` is the order additions ask for.  A wait may end at any
time (one second, or no reason).

The lock is the calls of the pthread library one by one.  What it protects is
one bit every writer flips, `seen[t]` is what thread `t` read of it.  `rd_lock`
prefers readers, as pthread's rwlock does.

### WorkbasesShares

Three threads.  The update thread: `AddBase` (one critical section of
`workbase_lock`: publishes, starts ageing), `AgeShares`, `ClearWorkbase`,
`AgeMore` (the lock is given up for each workbase aged out, and HASH_ITER's
saved next one is `cursor`), `GenerateUserwbs`, `PurgeShares`, then the
broadcast: to everyone authorised (`client_active`) at once in pool mode, to one
client at a time in solo mode.  A miner comes in two steps of their own.  He
subscribes (`ParseSubscribe`), and in pool mode `init_client` sends him the work
it has read a moment ago (`SendUpdateRead`, `SendUpdate`: the lock covers the
first only).  He is authorised (`ClientAuth`), any time after his user agent is
known, which sends him nothing in pool mode; in solo mode the authoriser goes
through `AuthUser`, `AuthScript`, `ClientAuth`, `AuthTakeBase`, `AuthUserwb`,
`UpdateSoloClient` (his first work) and `AuthPutBase`.  The share thread:
`SubmitGet`/`SubmitUnknown`, `SubmitHash` (with `TestBlocksolve`), `SubmitPut`,
`NewShare`, and `ResendRead`, `Resend` for a miner whose shares were `Rejected` for
a minute.  A share is its job, user and difficulty; a hash is met twice when a
miner sends it twice.  `told` and `last` are what work a miner was sent and
which last, `due` those whom only the broadcast of the current work can have
sent it to; `credited` and `blocks` are what was accepted and submitted.

### TemplateUpdates

Threads are `pc`.  A call to a bitcoind is one action that answers or fails
(`Failed` flags it dead, then `Live`: one bitcoind a step, as `live_server` does,
several threads at once).  `sem`, `updateq`, `lq` and `zq` are the semaphore and
queues; `TakeSem` waits for it with high priority, `LoopTimer` only tries.
`Submit*` and `CheckHash` are `local_block_submit` with the retries of
`submit_block` and what is made of an answer that was lost.  A bitcoind is
whether it is `up` and the height it has `seen`; it learns of blocks late.

### GeneratorProxies and StratifierProxies

The generator's module has the sessions, keyed `<<proxy, subid>>`, and the two
queues of messages; the stratifier's EXTENDS it and adds `proxy` (the
`proxy_t`s), `client` and the steps of `stratum_loop`, one for each place where
it gives `proxy_lock` up (`loop.at`).  `ProxyNext` composes them.
`Subscribed`, `SetupFailed`, `SetupRefused`, `Authorised`, `Recruited` are the
ways a session comes to be; `HangUp`, `UpstreamReconnect`, `DisableProxy`,
`DeleteProxy` those it ends.  A pool is heard also while it authorises a session
(`Hears`), since `auth_stratum` parses every line it reads: a reconnect, or a
command that disables the proxy, then closes the descriptor of a session that may
be alive in the end (`closed`).  A miner is bound in two steps, `Select` and `Bind`,
since `select_sdata` gives the lock up before `new_enonce1` counts him.  Freed or null
pointers the code follows end the program: `crashed`.

### ShareForwarding

`SubmitUpstream` hands a share over, `TakeShare` makes a message of it, and
`proxy_send` passes over its messages (`pass`), each going out in `Parts`.  What
`send_json_msgq` does for a part is three steps, as none of it is locked: is the
session alive (`PassTest`), which descriptor has it (`PassLoad`), and the write, to
whatever has the descriptor by then: the session, another one (`PassSend`) or
something else of the process (`PassAstray`); or the socket is full (`PassBlocked`) or
broken (`PassError`).  Sessions are lost, cut while they are set up, and set up
again with any free descriptor.  The receiving threads write to the same sockets:
`ReplyLoad`, `ReplyPiece` and `ReplyEnd` are `send_pong` and `send_version`, and
`replies` records where in the stream of parts a piece of them came.  Further: the
table of shares that wait for answers, with ageing, and the notify instances that a
share's job is looked up in.

### TransactionTables

`table[x]` is the transaction table of server `x`, with counts; `down` and
`upstream` what is on its way to it and from it.  A template's new transactions
are added and sent in two steps (`NewTemplate`, `UpdateTable`); nodes are sent all when they
join (`SendAll`), ask for what is missing, and rebuild work or do without.
Blocks are put in front of what is queued (`Ahead`).

### ClientDifficulty

One miner.  Every thread that changes `diff` is then `telling`; it makes a
message of the difficulty it finds (`MakeMessage`) and queues it
(`QueueMessage`), two steps without a lock, between which another thread's may
pass.  `flight` are the messages in hand.  From the queue on the order stays, as
`CkMsgQueue` and `ConnectorClients` show.  `late` is history: the last message
queued was made before one queued earlier.  Modes: pool, proxy (upstream's
difficulty), trusted remote.  What the share rate asks for is any difficulty
(`Retarget`).

### SocketLines and Coinbase

`SocketLines` has a stream of characters `<<line, position>>` and the buffer
with its two offsets, `bufofs` and `buflen`; a call is begun, reads on, returns
a line, times out or fails.  `Coinbase` builds the transaction as a sequence of
fields `<<kind, value>>` in the order of the bytes, takes it apart where the code
does, and reads the result as a bitcoind would (`WellFormed`).

### MC modules

They name the model values.  `MCStratifierClients` also has states
that `Spec` leads to from `Init` with two messages of each client, so that the
bound on messages is left to what happens afterwards: `ServingSpec` starts with
every struct in service, some authorised; `ServingOrNewSpec` starts either
there, with silent miners, or with a first connection that may send
`MaxMsgs`.  `MCPool` puts five modules that share no state into one run: the
variable `part` says which of them moves, and the others stay as they start,
so its states are the sum of theirs, not the product.  `MCThreads` does the same
with `CkMsgQueue` and `CkLock`, and gives each its own fairness.

## 4. Runs

### What holds

| Run | Instance | Shows |
|---|---|---|
| `ClientsRefs` | pool mode: 1 new connection with 3 messages, or 2 clients in service; statistics walk, broadcasts, one of reconnect and getclient | exact reference counts, no struct recycled in use, exact worker and user counts, a walk that misses nobody who stays |
| `ClientsSolo` | btcsolo: 2 connections, 3 messages, broadcast walk, one dropall | one instance per connection, distinct nonce spaces with sessions resumed, refinement of `LazyReclaim` |
| `ClientsLive` | 1 connection, 4 messages, btcsolo, one dropall, no walk | a dropped instance is eventually removed |
| `Connector` | 3 connections, 2 structs, 2 descriptors, 2 messages, all commands | exact reference counts, descriptors owned, oldest message first, drops told, refinement of `LazyReclaim` |
| `ConnectorLive` | 2 connections, 2 messages, passthrough with rejects | every message is written or thrown away |
| `Threads` | queues: 3 threads, 5 messages; locks: 4 threads | nothing lost, order, everything handled; exclusion, stability of what was seen, both sides get in |
| `Workbases` | 3 workbases, 20 minutes, 1 block, 2 shares, pool and solo | work in use stays, also a miner's own coinbase; an update is the last work heard by who was authorised before it, unless something is sent to him alone; a share that can win is submitted; a share counts once unless its work is overtaken |
| `Updates` | 2 bitcoinds, 2 events (blocks, failures, lost answers) | one update at a time and the permission for the next not lost; a block is called solved only when accepted; the pool follows the chain and comes back to its first bitcoind |
| `Upstream` | 2 proxies (one with a subproxy), global or a user's, 1 miner, 2 events | generator and stratifier agree on sessions with an open socket once messages are read; clients counted and never reaped away; the best live proxy is in use |
| `Pool` | five parts, see below | shares reach upstream pools whole, in order, and none is forgotten; nodes keep every transaction that is not sent again; a block is told once to each server; a miner knows his difficulty; lines of a socket are whole; coinbases pay what they should |

`LazyReclaim` has no run of its own: its two properties are proved, and checked
of the modules that implement it.

### What does not

`ClientsBroadcast` shows that a client dropped during a solo broadcast ends it
early for the clients after it.  `PoolReplies` (the instance of `Pool`) shows that
`PartsTogether` does not hold: `send_json_msgq` keeps messages to one upstream pool
apart "to avoid sending parts of different messages" (generator.c:1894), but the
thread that receives from that pool writes its pongs and versions (1131-1166) to
the same socket without regard to `proxy->sending`, so one may stand between two
parts of a share.  Both are in `PROJECT.json` under "findings", with the comment
they contradict.

### Known divergences

The passing runs leave some commands and modes out, because the code breaks the
property there.  Each can be had from TLC by changing the constants as said:

- `DroppedReclaimed` (one connection, two messages, pool mode) fails with
  `Walkers = {"stats"}`: an instance that `statsupdate` tags as dropped
  (stratifier.c:8259, "drop them lazily") is removed by nobody, since the
  walk's `__dec_instance_ref` never removes, and `drop_client` passes over what
  is tagged.  It fails the same way with `AdminCmds = {"reconnect"}`
  (3618, "so they can be removed lazily").
- `WorkersCounted` fails with `AdminCmds = {"dropall"}`: `drop_allclients` zeroes
  counters (2389) of instances in use, which are counted down once more when
  they are released.
- `WorkersCounted` fails with `BtcSolo = TRUE` and three messages: an instance
  whose authorisation failed is linked to its user, and counted, a second time
  (5530) by a second `mining.authorize` already queued.
- `RefsCounted` of the connector fails with `Passthrough = TRUE` and the
  command "accept": a reject between two steps of `accept_client` (341) takes a
  reference that is not there yet.

Definitions that no run lists, each violated when it is given to TLC as an
invariant, the first as a property, of the run named:

- `ThreadsShareWork` (`Threads`), that a thread sleeps only when no message is
  queued: each thread of an array has a list of its own, and messages are only
  put on the first one's, so the others never have work.
- `Listened` (`Connector`), that a client in the table is listened to: a
  descriptor read from a client on which a reference is held belongs to another connection when `epoll_ctl` uses it, and
  that connection is never listened to again; "fd cannot be changed while a ref
  is held" (connector.c:38) does not hold.
- `SolvesSubmitted` (`Workbases`), that every share is submitted that meets the
  difficulty of its own work: "Test we haven't solved a block regardless of
  share status" (stratifier.c:6186), but the test is against the current
  workbase's difficulty (5993), and only for work since the last block change.
- `SolveReachesLive` (`Updates`), that a block reaches a bitcoind known to work:
  `submit_block` may give a block up for rejected
  with a live bitcoind at hand (stratifier.c:6434, "Make sure we always submit
  any possible block solve").
- `ProxyOrder` (`Upstream`), that the first live proxy of the configuration is
  used: priorities (stratifier.c:2914) are adjusted at every
  new subproxy, also against the proxy's own, so a later proxy of the
  configuration may be preferred to the first.

Behaviours of the models that no property is about, or that properties make
an exception for:

- An authorisation refused before `client_auth` (5633: no user agent, bad
  parameters) leaves `authorising` set, "In progress" by its comment (265), and
  every later one of that client is ignored (`AuthError`, then `AuthTake`).  So
  does an upstream server that never answers in remote mode.
- A message read just before its connection is dropped makes an instance for it
  when the old one is gone, where connector.c:573 expects the stratifier to
  filter it (`AddRecv` after `Close`).
- Difficulty: `parse_upstream_auth` sends no difficulty after a name or password
  has changed it (`DiffTold` excepts that); a message may be queued after one that
  was made later, and leave the miner with the older difficulty (`late`); `authorise`
  changes it without noting the job from which it counts; an override or an
  upstream's difficulty may be below `mindiff`; `add_submit` may use a limit
  read before `update_diff` lowered it.
- Work: a pool miner who has subscribed and is not authorised yet is passed over by
  a broadcast (`client_active`, stratifier.c:3496), and being authorised sends him
  nothing (5767), so he stays on the work of his subscription until the next update.
  `stratum_send_update` (6650) reads the current work under the lock and queues the
  message without it: if a broadcast is queued in between, the miner has the older
  work last, with the order to drop the newer one (`clean`), at his subscription or
  when his shares were rejected for a minute (`update_client`).  The same goes for a
  solo miner's first work (5781).  `NobodyMissed` begins with the first update that
  finds a miner authorised, and leaves out until the next one whom something was
  sent to alone.
- Proxies: `check_globalproxies` (stratifier.c:2750) and `select_sdata` follow a
  best proxy that may be null; the subproxy `select_sdata` chose may be freed
  before `new_enonce1` binds the client (`crashed`).  The limit of clients is
  tested outside the lock (4735).  `update_subscribe` zeroes `clients` with
  clients bound.  `proxy->authorised` is never reset, so a parent that is set
  up again may be read and disabled in the midst of it (generator.c:2601).  One
  that is disabled while it authorises, or told to reconnect by its pool before
  the pool answers (`auth_stratum` parses what it reads, 1558, and what is left in
  the buffer, 1606), has its socket closed and is reported dead, and `proxy_alive`
  then makes it alive without a word (2224).  `Agreement` says of such a session that
  the stratifier takes it for dead.  Nothing is read from it any more, and it stays
  "alive" for the generator until a late share fails on it, a command deletes it, or,
  if it is a parent's, `proxy_recv` has had no event for ten minutes (2490).
- A hang-up that `proxy_recv` has seen together with a line that makes it
  reconnect is processed after it (2549): `disable_subproxy` is called with a
  structure that may have been recycled and cleared.
- `send_json_msgq` sends messages of an earlier session of a recycled structure
  on the new one, perhaps the rest of one (generator.c:1894), and writes to a
  descriptor that may have been closed since it looked, and be another session's
  (1909): a part of a share may begin the stream of another connection.  When that
  fails it disables the session the structure has by then.  `WholeInOrder` is about
  the shares handed over for the connection itself, which none of this touches.
- `read_socket_line`: `connect_proxy` and `close_proxy_socket` do not empty the
  buffer, so a new session begins with what the last one left; an empty line is
  returned as length 0, which callers take for a failure.
- Transactions: `update_txns` sends a transaction that comes back after it was
  unused only together with a new one (about stratifier.c:1187); those
  `rebuild_txns` finds itself are never sent on (1173); transactions are sent
  after the work that needs them, and blocks before.
- Coinbase: without a live bitcoind `generator_checkaddr` says "invalid", and a
  solo miner's good address is turned away as a typo; a share for solo work
  whose `userwb` is not there yet is hashed with the pool's script.

Met while reading, outside what is modelled: `parse_share`
(generator.c:1823) frees a share, reads it and frees it again;
`proxy_recv` (about 2484 to 2530) reads from a null connection after ten minutes without an
event, with a time-out that is not initialised; connector.c:1240 releases an
upstream message without a method twice; `submit_node_block` uses `cblen` and the coinbase
uninitialised if the message has none; `add_remote_base` (stratifier.c:1715)
keeps HASH_ITER's next element across a released lock, which two remote
servers' messages make a use after free; a `nonce2len` of 1 or 2 makes
`clients_per_proxy` shift by a negative number; `accept_client` loses a struct
when `accept` fails recoverably; the test of `wb->proxy` after
`put_workbase` (about 6517) reads a workbase that may be gone.

### Bounds

`MaxMsgs`, `MaxSends`, `MaxId`, `MaxAdmin`, `MaxEvents`, `MaxBases`, `MaxShares`,
`MaxConns`, `MaxJobs`, `MaxWorks`, `MaxBlocks`, `MaxLines`, `MaxOpens` and
`MaxTemplates` count what the environment does; `MaxQueue` and `MaxUnread` limit
what is under way.  A full queue only delays a thread, which
real threads can also be, and adds no behaviour.

- Clients: two connections and two structs are enough for a struct to be
  recycled for another connection while a thread could still hold it; with one
  connection, the id itself comes back through a stale message.  Three clients
  are what `ClientsBroadcast` needs: one under the walk, the saved one, and one
  after it; for the statistics walk, which saves nothing, two are enough.  Three
  messages let an instance subscribe, authorise and be used, with each of them
  in a queue or in hand when the drop comes.  Three ids over two descriptors let
  a descriptor be used again twice.
- `Workbases`: three workbases and two units of ten minutes let one be
  aged out, with another before the current one, and the cursor of the loop pass
  both; a miner may be authorised before, between and during their broadcasts; one
  block makes work stale; two shares are the same one twice or one on
  each side of the block.  Network difficulty rises with the block, and shares
  meet the first or both.
- `Updates`: two bitcoinds, the first polled and the second notifying by zmq;
  two events are a failure and a block, or a block and a lost
  answer.  `Retries` and `SubmitTries` are 1 and 2 for the code's 5.
- `Upstream`: a proxy with one subproxy and one without, both global or the
  second a user's, a miner, one slot a session; two events on top of what the
  pools and the miner do.
- `Pool`: shares: a parent's structure and a recycled one, three connections over
  two descriptors, so a session can be replaced and its descriptor used again, and
  one reply (`MaxPings`); once a reply is asked for there is one share, and no new job
  (`NothingElse`).  Transactions: a pool, a node, a remote server, templates of one
  transaction, numbered as they appear (`Numbered`: only names of transactions
  are left out), counts of 20, 10 and 5 lowered to 2, 1 and 0, and fewer
  templates when a remote server is listed or a block solved (`Few`).
  Difficulty: values below, at and above the limits.  Lines: empty and of two
  characters, three a connection, two connections.  Coinbases: rewards
  whose 2 % and 50 % fees are just below, at and above the dust limit of 546, names that are
  an address, a misspelt one and none.

Symmetry is used in `ClientsSolo` only, where neither the initial states nor the
properties tell the connections or the structs apart.

Deadlock is checked in the runs of the stratifier's instances, of the queue and
of the lock (in `StratifierClients` the step `Quiescent` stands for having
nothing left to do).  In the other runs the system stops once the environment
has used up what the bounds allow it, and it is allowed.

### Fairness

Each thread's loop is weakly fair: it runs when it has something to do.
Nothing is assumed of the miners, the operator, the timers that start walks,
or whoever adds messages.  Additions: in `ConnectorClients`, a client that
blocks for ever is timed out (strong fairness of `TimesOut`: the minute passes
while the sender comes back to it every 10 ms); in `CkMsgQueue`, a wait ends
after its second; in `TemplateUpdates`, a thread that waits for `update_sem`
gets it if it is posted again and again (strong fairness of `TakeSem`: POSIX
semaphores wake a waiter at each post), and a bitcoind that is up learns of a block.  That bitcoinds come up again
is not assumed but a premise of `WorkFollows` and `FailsBack`.  `CkLock` has no
fairness of the mutex among those who wait for it, nor of the rwlock: what is
shown is that whoever is past the mutex needs none.

## 5. Proofs

Assumed are only the `ASSUME`s of the modules (types of the constants; finite
sets of structs, users, clients and proxies; of `Coinbase`, the bounds that
`parse_config` puts on the fee and the signature, and that no miner's name is
empty or one of the two the model has for the pool's addresses), which TLC evaluates in the runs.
Each theorem is `Spec => []Inv`, or an action property, for every value of the
constants; `PROJECT.json` names the properties they state.  Each rests on an
inductive invariant that TLC has checked on the run of its module first.

**`StratifierClients_proofs`**: first `TypeOK`, `RefsCounted` and `HeldInTable`.
None of them is inductive.  `IInv` has three parts:

- `Core`: the types of the table; `AllRefsCounted`, which says of *every*
  struct, recycled ones included, that its reference count is the number of
  its holders; and `HeldInTable`.  The recycled ones are needed since a struct
  enters the table with the count it has.
- `Busy`: a thread in the middle of a handler holds an instance; the struct
  that is being filled is not in the table and held by nobody; ids in the table
  are ids of connections.
- `OtherTypes`: the queues and counters.

The argument is in lemmas about the helpers, each proved once:
`DecInstanceRef` (the last holder removes), `Update`, `TakeRef`, `DropInstance`
and `MoveOn` keep `Core` and `Busy`; the handlers follow by threads.

Over `IInv` there is a second layer.  The steps of all threads are sorted, once
(`Sorted`), by what they do to the table: one that tags, takes, releases, drops
or walks is `Ordinary`, and six others are of their own.  Then

- `UniqueIds`, `EnonceUnique` and `StatsComplete` follow from `TInv`: the struct
  being filled is as new and its id is in nobody else (`AddingNew`: only srecv
  inserts, so the failed lookup still holds when the lock is taken again); every
  nonce was handed out, and the one taken from a session is in the instance
  srecv holds (`Nonces`); uthash's list is a strict order of the table
  (`TableOrder`); what the walk has still to come to is behind where it is
  (`WalkAhead`).  That whoever is not last in the list has a next (`HasNext`)
  is induction on the number of elements between two.
- `WorkersCounted` follows from `WInv`: the counts are those of the table
  (`Tallied`), and the instance being authorised has no user yet (`Linking`).
  The theorem is for pool mode without "dropall", since the property fails
  elsewhere (section 4).
- `ReclaimsLazily`: each sort of step is allowed by the contract for every
  struct (`Allowed`).  When a release recycles a struct, `AllRefsCounted` says
  that the count of one is of the thread that releases.

**`ConnectorClients_proofs`**: `RefsCounted`, `FdsOwned`, `OldestFirst`,
`DropsTold` and the refinement `ReclaimsLazily`, all under `~ Passthrough`: a
passthrough that loses its pool drops every client, one that `accept_client` has
not given its reference and its descriptor yet among them, and the properties
fail there (section 4).  In the plain pool the counts come out right because
nobody finds a client between the moment it is in the table and the moment
`accept_client` is through with it: no id that epoll, an event or the stratifier
has is that of the client being armed (`Heard`), and whoever holds a client holds
one in the table or dropped from it (`Sound`).  The order of a client's messages
rests on the counts: the client of a message cannot be recycled, so its `sending`
stays what the sender left there when it passed the message (`Passed`,
`HalfWritten`, `Writing`).  For the refinement every step is mapped to one of
the contract's or to a stutter.

**`WorkbasesShares_proofs`**, in both modes.  First `HeldAlive`, `UserwbKept` and
`NobodyMissed`: `IInv` adds to them `Counted`, a read count is the number of its
two possible readers; `Placed`, what has been aged out stays out of the table,
and the current workbase in; `Held`, who has a read count at which place; `Coming`,
that what was read to be sent to one miner is work there was, and in solo mode work
he has a `userwb` of; and `Served`, for each stage of the update thread who has a
`userwb` of the current work by then and who was sent it last.  The last is what
`NobodyMissed` rests on: of those who were authorised when the work was made, each
is still to be visited, has it as the last he was sent, or was sent something alone
since, and is not `due` any more.  In solo mode it needs that whoever is authorised has
a coinbase script, since the broadcast passes over a miner without a `userwb`.
Then, over `IInv`, `TipSolved` and the action
property `DupeOnlyOvertaken`: `SInv` says that all work since the last block
change has one previous hash (`OneBlock`), that the share in hand is on work its
miner was sent (`InHand`), that the update thread purges only for the current
work (`Purging`), and that a hash that was credited is in the table until its
work is stale or aged out (`Remembered`), which is why it can be credited twice
only then.

**`TemplateUpdates_proofs`**: `OneUpdate`, the permission to update is either
free, queued for or held by the one update under way; and `SolvedAccepted`.  Both
are inductive with `TypeOK` and the bound on heights; the proof goes through
the callers of `live_server` and the stages of the updater.

**`StratifierProxies_proofs`**, of the composition with `GeneratorProxies`:
`Agreement`, `BoundCounted` and `BestAlive`.  `ProxyInv` says of every session what
the stratifier will take it for once the last message about it has been handled
(`Taken`), and that it is alive exactly if the generator has it or is setting it
up, with an open descriptor (`Agreed`); that
subids and ids are given out once (`Fresh`); that the clients counted on a
session are those bound to it (`Counted`); and that the proxy in use is the best
one unless the stratifier is about to choose (`BestElse`).  One lemma for each
step of the generator says what it sends and so what becomes of `Taken`; the
stratifier's steps go through lemmas on one client or one proxy; `BestKept` says
which of them leave the best proxy what it is.

**`Queues_proofs`**: of `ShareForwarding`, `WholeInOrder` and `ShareKept`.  `FwdInv`:
shares are taken, and messages made of them, in the order of their ids (`Ids`); a
message that a pass has left behind keeps its session from sending any that comes
after it (`Turns`); one that is half written is what its session is sending and
the last thing on the wire (`PartsOf`, `RestNext`).  That stale descriptors do no
harm to these takes two more: no two sessions have one descriptor, and no share has
been handed over for one that is being set up (`Sockets`); and between the test and
the write, the descriptor loaded is the session's own as long as the connection the
share is for lives, while anybody else who has it has nothing on his wire yet
(`AtStep`), so that a stray part can only come before all others, and between
no two of one share.  Of `CkMsgQueue`, `InOrder` and
`NothingLost`: all messages go through the first thread's list (`OnlyFirst`), each
is in one place only (`Apart`) and in one at all (`AllThere`), and none stands
before one it must follow (`Turn`).

**`Pool_proofs`**, of small modules without a common state:

- `LazyReclaim`: an entry leaves the table only when nobody holds it, and a drop
  is final (`ReclaimIsSafe`), which every refinement inherits.
- `ClientDifficulty`: `DiffTold`.  It speaks only of moments when no message is in
  hand; `Informed` says of every other that somebody is about to make a message,
  or that the last one made, if it is in hand or was the last to be queued, has
  the difficulty in it.
- `SocketLines`: `LinesWhole`.  What is still to be returned, in the buffer and in
  the stream, is made of whole lines from the next one on (`Framed`), whatever
  `read_socket_line` has already cut off, and goes on to the last line sent
  (`Reaches`).  Lemmas say that a framed sequence stays so when a line is added
  to it or taken from it.
- `TransactionTables`: `BlockToldOnce`.  A block that is on its way to the pool has
  been told to nobody else, and nobody has been told of one who found it or
  passed it on (`Blocks`).  And `NodesFollow`.  It says where a transaction is; an
  inductive invariant must say for how long.  The `Life` of a transaction in a
  table is the number of rounds of `update_txns` it will be there for if it is not
  used again.  Each message a node has yet to read lengthens or shortens it
  (`After`).  `Follows` says that for every node and transaction there is a chain
  of such numbers through the queue, from what the node's table holds to no less
  than the life in the pool's (`Lasts`); since a message that is sent adds to the
  end of a chain and one that is read takes its first link, each of the pool's
  steps is a lemma on the last link and each of a node's on the first.  As long
  as no remote server has joined, no count in the pool's table is above the one it
  gives for a use of its own (`PoolCounts`), which is no more than a node gives.
- `Coinbase`: `CoinbaseRight`.  The halves of a coinbase are written out field by
  field, once for each of the two forms, with the fee paid and without
  (`CoinbaseParts`, `CoinbaseShaped`), and lemmas read them back: the position of
  the sequence number, the lengths and the outputs (`SeqnoFound`, `ScriptLong`,
  `ReadRight`).  `CoinInv` then says that the halves are those of the current
  template with what is due of its fee (`Halves`), and that what a user has, was
  sent and hashed is made of them (`UserRight`): no step leaves anybody with a
  part of an earlier template.  The length of a script is the sum over its fields,
  of which there are four or five; its recursion is unfolded that many times.

**`CkLock_proofs`**: `MutualExclusion` and `Stable`.  `IInv` says who owns the mutex
and the rwlock at every place of the code; `Stable` across `ck_dwlock` needs that
a thread in the gap between its two locks still owns the mutex, through which
every writer passes.

Left to TLC: liveness (`DroppedReclaimed`, `SendsDrain`, `EventuallyHandled`,
`WriterGetsIn`, `ReaderGetsIn`, `WorkFollows`, `FailsBack`), which the prover does
not reach.  Every invariant and every action property of a run that passes is a
theorem, though under the hypotheses named above where the code needs them:
`WorkersCounted` in pool mode without "dropall", the connector without
passthroughs.

## 6. Not modelled

- Redirector mode and passthrough subclients; clients are those of the plain
  pool and of btcsolo, and of proxies in `StratifierProxies`.
- The error returns of `accept_client`; allocation failures (the program exits).
- What a share is credited, shares and workers that remote servers report, the
  ageing of their workbases; best shares and their reset; hash rates (floating
  point); user and pool files.
- Of the upstream sessions: passthrough mode of the generator, the parsing of
  subscription results, proxy statistics and the commands that list proxies.
- Lock time-outs (the lock functions log after ten seconds and give up after
  a minute, by ending the program), `ck_dwilock` and `ckmsgq_empty` (no callers),
  semaphores other than `update_sem`.
- Start-up, options, the handover of sockets between processes.
- JSON, address and hash functions: pure, without shared state.
- The API server: a separate program that only reads.
