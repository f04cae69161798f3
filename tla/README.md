# A TLA+ model of the DigitalNote daemon and wallet

This directory holds TLA+ specifications of the daemon and of the wallet library
under `src/cryptonote/src`, TLC configurations that check them on small
instances, and TLAPS proofs of the results that matter most. Paths below are
relative to `src/cryptonote/src` unless they start with `src/src`.

## 1. The system and its parts

| Part | Code | Modelled by |
|---|---|---|
| Block storage: main chain, alternative blocks, reorganisation, rollback, restart | `CryptoNoteCore/Blockchain.cpp`, `.h` | `Blockchain`; what it promises: `HeaviestChain` |
| Transactions of the chain: key images, outputs by amount, multisignature outputs, caches | `CryptoNoteCore/Blockchain.cpp` | `TransactionStore` |
| Deposit index | `CryptoNoteCore/DepositIndex.cpp` | `DepositIndex`, `DepositHistory` |
| Checkpoints | `CryptoNoteCore/Checkpoints.cpp` | `Blockchain` |
| Transaction pool, block templates | `CryptoNoteCore/TransactionPool.cpp`, `.h` | `MemoryPool` |
| Core façade | `CryptoNoteCore/Core.cpp` | actions of `Blockchain` and `MemoryPool`, queries of `NodeRpcProxy` |
| Synchronisation protocol, connections, sparse chains | `CryptoNoteProtocol/`, `P2p/NetNode.cpp`, `CryptoNoteCore/BlockIndex.cpp` | `SyncProtocol` |
| Node proxy of a wallet | `NodeRpcProxy/` | `NodeRpcProxy` |
| Wallet synchroniser | `Transfers/BlockchainSynchronizer.cpp`, `SynchronizationState.cpp` | `BlockchainSynchronizer`, `SynchronizationState` |
| A wallet's outputs and their consumer | `Transfers/TransfersContainer.cpp`, `TransfersConsumer.cpp`, `TransfersSubscription.cpp` | `TransfersContainer`, `WalletLegacy` |
| Wallet: transactions, deposits, sending | `WalletLegacy/` | `WalletLegacy` |

What is not modelled, and why, is section 6. `PROJECT.json` lists all parts with
their files, and under `hazards` the places where they are most likely to go wrong
in a way a test would hardly reach; section 6 ends with further ones.

How they interact. `core::handle_incoming_block` and the protocol handler give
blocks to `Blockchain::addNewBlock`, which holds the pool's lock and then the
blockchain's. A block on the tail is pushed; any other becomes an alternative
block, and when its branch is heavier, or brings a checkpoint, the main chain is
popped to the fork and the branch pushed. A push takes the block's transactions
out of the pool, a pop or a refused push returns them, marked as kept by a
block. The miner asks the core for a template, which reads the chain under the
blockchain's lock and then the pool under the pool's. Listeners follow the chain
through messages. `m_blocks` is written to its file as it changes; the indices,
the pool and the deposit index are written at shutdown only. Daemons tell each
other about new blocks and compare their tops every minute; one that lacks blocks
downloads them from whichever peer has them. A wallet polls its daemon, fetches
blocks and pool differences on a thread of its own and turns them into outputs,
then into lists of transactions and deposits, which the user's own sends change
from a second thread and the answers to them from a third.

## 2. Modules

### Blockchain

State: `m_blocks`, `m_transactionMap`, `m_spent_keys`, `m_alternative_chains`,
`m_tx_pool` (as a set), the reorganisation in progress (`job`), a listener's
replica, the clock, and the files of the last clean shutdown. The tree of all
blocks that may be offered is constant data: ancestry, timestamps, cumulative
difficulties, transactions, and the reasons for which a block is refused
(`BadHeader`, `WeakPow`, `BadTx`, `BadReward`, `TooBig`). Only the order of
delivery, the pool, the clock and crashes are nondeterministic.

`addNewBlock` is one action with the whole of `pushBlock` or
`handle_alternative_block` in it. A reorganisation is a job that `SwitchStep`
advances by one `popBlock`, `pushBlock` or reinsertion (`Disconnect`, `Connect`,
`Reinsert`, `Finish`, and `Undo`, `Restore` for the rollback). In the code it
runs under both locks, so no other operation of the model interleaves with it;
it is cut into steps because a crash may fall between two writes of the block
file. `RelayTx`, `KeepTx` and `ExpireTx` are the pool's traffic, `Restart` is
`deinit` and `init`, `Crash` keeps the files and loses the rest.

### TransactionStore, DepositIndex, DepositHistory

`TransactionStore` is the detail `Blockchain` leaves out: `pushTransaction`,
`popTransaction`, `checkTransactionInputs`, `check_tx_input`, `validateInput`,
the global output indexes, and the cache files including one that is cut short.
Outputs are named as in the code, by amount and position, so one transaction can
mean different outputs on two branches. Blocks are pushed and popped in any
order the tree allows, which contains every reorganisation and rollback.

`DepositIndex` translates the sparse vector as operators. `DepositHistory` runs
them beside the full history of totals, which is their abstract specification,
and `TransactionStore` uses the same operators through `INSTANCE`.

### MemoryPool

State: the pool's containers (`m_transactions`, `m_spent_key_images`,
`m_spentOutputs`, `m_ttlIndex`, `m_timestampIndex`,
`m_recentlyDeletedTransactions`), the chain under it, the template being made,
the pool's file and the clock. `AddTx` is `add_new_tx` with the whole of
`add_tx`; `PushBlock` and `PopBlock` are what the blockchain does to the pool;
`TemplateHead` and `TemplateFill` are the two lock sections of
`get_block_template`; `OnIdle` is the expiry. What the validator remembers of a
transaction (`maxUsedBlock`, `lastFailedBlock`) is modelled exactly, since a
template depends on it. Loops that remove or save several transactions are
written for the whole set: in none of them does the order matter. In a release build `getBlockIdByHeight` above the chain
reads beyond its vector; the model lets it return the removed id or another one.
Every output has an amount of its own here, so a reference finds the output it
means or nothing; output positions belong to `TransactionStore`. Left out: the
payment id index, unlock times, and outputs that `check_tx_outputs` refuses.

### HeaviestChain

What the rest of the daemon may rely on: a set of known blocks and a tip that is
only ever replaced by a heavier block whose ancestors are all known. `Blockchain`
implements it under the mapping `CommittedTip`, `KnownBlocks`: while a
reorganisation is under way the tip is still the old one, and the blocks already
popped are still known. `SyncProtocol` is written against it, with one storage
per node.

### SyncProtocol

State per node: tip and known blocks, the pool, the counters of the protocol
handler, relays posted by other threads. State per end of a connection: the
context (`m_state`, the lists of needed and requested objects, heights), the
messages on the wire, and what a handler that yielded has left to do. There is
one action per message handler. All of them run on one dispatcher thread, so
that each is one step, except where the code gives way: `processObjects` yields
after every block (`ImportNext`), the handshake for its back ping
(`HandshakeReply`). `Dial`, `DialFails`, `interrupt`, `ReadEof` and `CloseEnd`
are the life of a connection; a closed one loses any part of what was on its
wire. Blocks and transactions that fail their checks are not in this model.

### NodeRpcProxy, SynchronizationState, BlockchainSynchronizer

`NodeRpcProxy` has the daemon as a wallet sees it (tip, pool, announced height),
the polling thread with what it remembers, and the two queries. Polls and
queries are separate steps and see different states of the daemon.
`SynchronizationState` translates the history of one consumer: the short history
it sends and the interval check. `BlockchainSynchronizer` is the state machine:
the worker's loop, the two synchronisations, each cut at its requests, the
owner's calls (`start`, `stop`, consumers, tasks) and the notifications, which
may arrive between any two steps. Any request may fail, and a consumer may
refuse blocks or pool transactions, after its detach.

### TransfersContainer, WalletLegacy

`TransfersContainer` translates the container as operators on a record: adding,
confirming, deleting, detaching, advancing, unlock jobs; a method that throws is
described by the condition under which it does. `WalletLegacy` runs it: the
worker turns an answer of the daemon into a list of operations, performs them
one by one and delivers their notifications one by one, so that the user's calls
(`SendOrDeposit`, `WithdrawDeposits`) and the callbacks of the proxy
(`RandomOutsCallback`, `RelayCallback`) fall between them. The daemon is
external here: its pool refuses conflicting transactions and forgets old ones; its
blocks, mined by it or by others, may carry transactions that never were in its
pool (`Elsewhere`) and that compete with some in it, which then stay there; and
it undoes several blocks at once. A transaction may turn out too large after it
was entered in the lists (`doSendFails`, `WithdrawDeposits`). `Reopen` is save,
close and load, also with requests under way: a relay may still arrive, but the
stopped sender ignores the answer. Which transaction spends what is constant
data; amounts are left out.

When the container throws (`Thrown`) the model ends, and `OnlyConflictsThrow` says
when that is. In the code a batch of blocks that throws is given up
(`BlockchainSynchronizer.cpp:363`): the history is not extended, what was added
before the exception stays in the container, and every later attempt meets the
same transaction as long as its rival is unconfirmed. What a later reorganisation
makes of such a container is not followed. An exception in a pool difference is
caught by nobody on the worker's thread.

The container's record has one field the code has not: `skipped`, the inputs
`addTransactionInputs` passed over. `ContainerMatchesHistory` uses it to say under
which of two competing withdrawals a deposit is filed.

## 3. Runs

| Run | Instance | Shows |
|---|---|---|
| `reorganise` | ten blocks, branches that compete for one key image, a double spend and a wrong reward among the heavier blocks, timestamps that pass on the main chain and not in a reinsertion, one expiry, one tick, every block offered again and again | chain, indices and pool agree after every step; every reorganisation ends, completes or is undone exactly; a listener's replica is the main chain; the storage implements `HeaviestChain`; unless a reinsertion fails, which happens here, it settles on the heaviest valid branch |
| `crash_restart` | a branch whose timestamps go up and down within the rule, a short heavy one, a checkpoint, two crashes or restarts | indices are exact after a rebuild or a load; a reorganisation that fails in the reinsertion of the old chain, after it connected everything, is undone; no transaction is lost; a checkpoint is never replaced or left |
| `deposit_history` | up to four blocks, positive and negative changes, interest | the sparse index answers every height like the full history |
| `deposits` | eleven blocks, deposits in opposite orders on two branches, early, valid and repeated withdrawals, refused blocks, restarts | indices equal what the chain implies, an output is used once, terms are served, pops undo pushes |
| `pool` | two branches, a conflict, a transaction spending another's output, expiry and re-relay over four time units, one restart or loss of the file | pool indices exact, conflicts only with transactions that came in blocks, an expired transaction stays out until forgotten, a template for the tail is a valid block |
| `sync` | three nodes, one with the genesis block only that dials the two others, which are at different heights and of which one mines a heavier branch meanwhile | no synchronisation stalls or runs twice, lists are clear when one starts, a peer is dropped only over blocks that a reorganisation took from its main chain after they were requested, all end with the same weight |
| `reconnect` | three nodes, a block to download, a transaction to relay, one broken or refused connection | peers are counted exactly; the transaction reaches every pool, unless at some time a connection is idle while the pools differ |
| `wallet_sync` | two consumers, two branches of which one is left, one failing request or consumer, two calls of the owner | consumers stay on one chain, no change is slept through, the worker comes to rest, every call returns |
| `wallet_transfers` | a send and a deposit that compete for an output with a spend by another copy of the keys, two copies that withdraw one deposit, rivals in the pool or in blocks that come unannounced, two that may expire, two of: blocks undone, lost relay answer, reopening | the container throws only over a real conflict about a key output; container, transaction list and deposit list agree with blocks and pool whenever the worker has no half-done job |
| `oversized_block`, `pool_deposit`, `closed_wallet` | violations | see section 5 |

Bounds. The trees are the smallest in which each interesting event happens: a
reorganisation back and forth needs two branches of two or three blocks, a
failing one an invalid heavier block that is not the first of its branch, the
reinsertion failure a branch of two blocks more than the timestamp window (2), whose
last block is then measured against all of it. One expiry is
enough to make a transaction missing at a push; two crashes give a crash within
what follows a crash. Four blocks of deposits contain every pattern of entry and
no entry around a cut. Four units of time let a transaction expire, be refused,
be forgotten and come back. In `sync` a request carries one block, so that a
download takes several and yields between them; a chain entry holds three ids,
enough for the forks of the instance (with two `NodesConverge` fails, as the
hazard at `CryptoNoteProtocolHandler.cpp:489` says). In
`wallet_sync` an answer has at most two blocks, so that catching up takes two
rounds, and one failure puts the consumers at different heights; two calls of
the owner are a stop and what follows it. In `wallet_transfers` the deposit has a
term of one block and outputs are spendable after one; blocks are mined up to
height four, and a reorganisation adds one. That lets a deposit be made and
unlocked, and a withdrawal, this wallet's or the other copy's, be mined, undone and
mined again; undoing two blocks takes the incoming output from under a spend that
is still unconfirmed. The withdrawals pay the wallet: one that pays it nothing, and
whose deposit a rival in the pool has taken, would not be filed at all
(`IsAdded`). The daemon changes again only after the worker has asked for the
previous change (`CaughtUp`), a reorganisation replaces blocks by one more, of
which the first holds the transactions, each transaction is asked for once, and a
pool transaction expires only after it was seen and when nothing is requested,
since its life time (a day) is far above both. All other bounds are
constants named `Max...`.

Deadlock is checked except for the wallet runs over `WalletLegacy`, where nothing
more happens once the chain has its height and every transaction was sent.

Fairness. `reorganise`: the reorganising thread runs on (`SwitchStep`, weak, as
it never waits), time passes (`Tick`, weak), and peers keep offering every block
together with its transactions (strong: the protocol handler requests what is
missing from every peer that announces a longer chain, though a single offer may
fall in a reorganisation). `sync` and `reconnect`: every connection loop, dialler
and posted relay is a context of the dispatcher, which serves them in turn
(weak); the timer of `timedSyncLoop` fires every minute whatever else goes on
(strong, because the model bounds the rounds in flight to one, and the guard of
that bound comes and goes); nobody is made to mine, send or break connections.
`wallet_sync`: the polling thread, the worker and the thread waiting in `stop`
are scheduled (weak), and a request is answered or fails. Nothing is assumed
about expiry, crashes, failures or which block comes first.

## 4. Proofs

`BlockchainProofs` proves, for every block tree, checkpoint table, delivery
order and number of crashes:

* `TypeCorrect`: `TypeOK`. The inductive invariant adds `JobOK`, which keeps the
  positions of a reorganisation within its lists.
* `ChainIsPath` and `KeyImagesSpentOnce`: `m_blocks` is the path to its tail, and
  no key image is spent twice in it, oversized blocks and crashes included. The
  strengthening `LedgerInv` says that `m_spent_keys` covers the images of the
  chain, that the images of a chain's blocks are disjoint, and that the same
  holds of the cache file, because a crash may load it. Equality would be false:
  a block that is too big leaves its images behind.
* `IndexesExact`: if no block is too big, the indices are exactly those of the
  chain; the invariant adds equality of the cache with the chain it was saved for.
* `CheckpointsRespected`: the main chain agrees with the checkpoints.
* `NothingLost`: `TransactionsConserved`. What a push takes from the pool and a
  pop from the chain is given back by every way out of `pushBlock`, `popBlock`
  and the reorganisation (`PushConserves`, `PopConserves`), exceptions included.

`BlockchainRefinement` builds on them, for every block tree, pool and clock,
under the assumption `Quiet`: no block is too big and the node does not crash.
Both are needed, as the run `oversized_block` and the pool after a crash show.

* `RollbackIsSafe`: `RollbackSucceeds`. Every block of the old chain can be
  pushed again, although its transactions went to the pool, other blocks were
  connected and disconnected and time passed.
* `ListenersFollow`: `ReplicaIsMainChain`.
* `PoolNeverOverlaps`: `PoolAndChainDisjoint`.
* `Refinement`: without checkpoints, `Spec => ImplementsHeaviestChain`. Every
  step of a reorganisation maps to a stutter but the last, which is one step to
  a heavier tip, or after a rollback a `Forget` of the invalid blocks.
* `CheckpointsStay`: `CheckpointsAreFinal`. A reorganisation starts only above
  every checkpoint the main chain has reached, since its block would have been
  refused otherwise. A rollback must not pop a checkpoint that the branch brought
  itself, and does not: `FinalInv` adds that a block at the height of a checkpoint
  is an alternative block only during the reorganisation it started, is its last,
  and is dropped when it fails. `Quiet` is needed here because a pop that throws
  leaves such a block behind.

The inductive invariant `SwitchInv` says what the chain in force is while it
cannot be seen in `m_blocks`. It is the listener's `replica`, and at every step
of a reorganisation it is what is left of the main chain below the fork followed
by the blocks popped so far (`Kept`, `Popped`). It can be pushed again
(`InForce`): each block passed its checks on the ones before it (`Sound`), at a
time that has only become later, and its transactions are in the main chain or
in the pool. `Progress` says for each phase of the job how far it is
(`Connected`), and `Branch` that the branch is a path from the fork whose end is
heavier. The argument then is that a push is nothing but a check of the block on
its ancestors (`PushIsCheck`), that checks passed once pass later
(`SoundLater`), and that a pop moves transactions to the pool and a push back
(`PopMoves`, `PushMoves`). TLC finds `SwitchInv` invariant on the
instance of `reorganise`, and on that of `crash_restart` without crashes and
checkpoint.

`MainIsHeaviest` is no theorem. A reorganisation may connect its whole branch and
then fail to put a block of the old chain among the alternative ones
(`Blockchain.cpp:796`), whose timestamp is measured against another chain there.
The rollback leaves the blocks reinserted so far in both containers, and a later
offer of the heavier block is no new one. `MainIsHeaviest` and
`ConvergesToHeaviest` are therefore stated for runs in which no block is in both
containers between two operations (`NothingInBoth`). In `reorganise` this happens:
without the condition TLC finds both violated. `HeaviestChain` does not promise
them.

Assumptions on constants: `BlocksAssumption` (the blocks form a tree rooted at
the genesis block in which difficulty grows), `DataAssumption` (types; every
transaction has a key image), `ParameterAssumption`. TLC evaluates them in every
run over `Blockchain`.

`DepositHistoryProofs` proves `TypeCorrect`, `EntriesExact` and `QueriesExact`:
for every history the vector holds exactly the changes of the totals and the
binary searches return the total at each height. The invariant `Fits` relates the
entries to the totals: heights strictly increase, an entry carries the total of
its height, and between two entries the totals stand still. The argument needs
what `upper_bound` returns as the last entry in force (`UpperBoundInForce`) and
that cutting the vector there fits the shortened history (`CutFits`).

`MemoryPoolProofs` proves for every block tree and every set of transactions
`IndicesAlwaysMatch` (`IndicesMatchPool`), `RelayedNeverConflict`
(`ConflictsCameWithBlocks`) and `ExpiredStayOut` (`DeletedStaysOut`). The
inductive invariant `PoolInv` says all three of the pool in memory and of the one
in the file, since a restart loads it without its indices. The three depend on
each other: an output leaves the index with the relayed transaction that uses
it, which is right only because no second relayed one does; and a relayed
transaction conflicts with nothing only because the index of key images is
complete. `DeletedStaysOut` is strengthened to `Late`: what the pool remembers
as deleted covers every expiry the ghost `banned` knows that is not yet to be
forgotten, and everything in the pool was received later. Assumptions:
`BlocksAssumption` (a transaction of a block may come with a block, and the
genesis block is one), `ForgetAssumption`.

`SyncProtocolProofs` and `SyncNetworkProofs` are about every finite network,
every block tree and every bound:

* `LinksAreInvariant`: `LinkInv`, the inductive invariant of the protocol. For
  either end of a link it relates the context to the two wires. The handshake
  comes first and only once in either direction; before it nothing else is sent;
  a request and its answer are never both on the wire; lists of needed and
  requested objects are filled only while the end synchronizes. It is proved
  handler by handler from lemmas about one pair of ends, which the network then
  uses for the link of the message and leaves all others as they are.
* `ListsAreClearInvariant`: `ListsAreClear`, from `LinkInv`.
* `AskedOnceInvariant`: no end has two requests or answers under way. This is the
  half of `SyncIsDriven` that can be a theorem: the other half, that a
  synchronizing end has one, is false when a peer moves to a heavier but shorter
  branch (section 5), and is checked where no heavier branch is shorter.
* `PeersCountedInvariant`: `PeersCounted`, if both ends of every link are of the
  same network (`SameNetwork`); section 5 says why. The count of a node changes
  with the one end that shakes hands or closes (`CountInv`).

The assumption `IsNetwork` says that links join two nodes and that nodes and
links are finite, which the cardinalities need.

`BlockchainSynchronizerProofs` proves `HistoriesAlwaysAgree`: for every block
tree, every batch size and every schedule of daemon, worker and owner,
`HistoriesAgree` holds of a wallet with at most two consumers. The invariant is
`Threads /\ Agreeing /\ Asked`: consumers come and go only while no worker runs;
every history is a path of the tree, the shorter a prefix of the longer; and the
request under way was made with ids that every consumer has, so that the answer
starts at a block they share. It rests on what `getShortHistory`,
`queryBlocksLite` and `checkInterval` compute (`ShortHistory`, `Interval`,
`CheckInterval`). With three consumers the property is false: an update that fails
at the second leaves the first on the new branch and the third on the old one.
The wallets of the repository register one consumer for each set of view keys;
`WalletLegacy` has one. `TreeAssumption` and `MaxBlocksAssumption` say that
`path` is the block tree and that an answer may hold a block,
`ConsumersAssumption` that the consumers of the start are consumers.

`NothingSleptThrough` proves `WaitingMeansSynchronized` of the same wallets. Four
invariants are added. `Older`: what the proxy and the consumers have seen are
chains the daemon has had, and since it only moves to a heavier tip
(`WeightAssumption`: cumulative difficulty does not fall along a chain), none of
them is its next one. `Lively`: a worker that has begun is registered with the
proxy. `Caught`: unless blocks were missed, every consumer's chain begins with the
chain of the block the pool request names; a consumer whose chain begins with the
daemon's present one, and was had by the daemon, has exactly that one (`HadAll`).
`Feeding`: as long as the proxy's view is the daemon's and there is nothing to
tell the worker, what the worker holds leads every consumer to the daemon's pool.
A step of the daemon ends that condition, and only a poll restores it, which tells
the worker (`SeenBefore`). The last argument uses two guards of the model's
daemon: a transaction enters the pool from outside once, and expires only after a
poll has seen it, as the poll interval of seconds against a life of a day has it.

Only model-checked, and why:

* liveness, which is out of the prover's reach: `SwitchEnds`,
  `ConvergesToHeaviest`, `NodesConverge`, `PoolsAgree`, `WorkerComesToRest`,
  `CallsReturn`;
* `TransactionStore` (`StoreMatchesChain` and the others): its indices are folds
  over the inputs and outputs of a chain, and that a pop undoes a push of any
  number of them needs induction over data;
* `TemplateMinable`: a template is a fold over the pool in the order of fees;
* `SyncIsDriven`, for the reason above, and `HonestPeersKept`, which would need
  the same invariant about the requests under way;
* `WalletLegacy` and `TransfersContainer`: jobs are lists of operations made and
  consumed by folds over blocks.

## 5. Findings

Three runs end in a violation, each a place where the code does not do what a
line of the repository says:

* `oversized_block`: `pushBlock` does not undo its transactions when the block
  is too big (`Blockchain.cpp:1890`), so they are in the index and in the pool.
* `pool_deposit`: the remembered check of a transaction does not cover its
  multisignature inputs, so a withdrawal whose output is used enters templates
  (`Blockchain.cpp:355`).
* `closed_wallet`: a transaction the wallet saw in the pool expires, and the wallet
  is saved and closed before it notices. After the reload the set of pool transactions the consumer
  knows is empty (`WalletLegacy.cpp:271`), no difference deletes it, and it stays
  active with its inputs spent.

Other places where the models show a weakness of the code that no passing run
includes; each is a hazard of `PROJECT.json` with a note:

* `rebuildCache` keeps what was read of the deposit index from a cut cache file
  and counts the chain on top (`Blockchain.cpp:471`): `StoreMatchesChain` fails
  when `MaxRead` is 0 or more.
* The height of a transaction's last failure is looked up without a test that the
  chain is that long (`Blockchain.cpp:357`).
* A peer of another network lowers `m_peersCount` without having raised it
  (`NetNode.cpp:1133`): `PeersCounted` fails when `Foreign` is not empty.
* A chain entry that does not reach beyond a fork is requested for ever
  (`CryptoNoteProtocolHandler.cpp:489`); the deployed limit of 10000 ids makes it
  a matter of very deep forks.
* A peer that moves to a heavier but shorter branch after its chain entry leaves
  the connection in `state_synchronizing` without a request
  (`CryptoNoteProtocolHandler.cpp:496`). `SyncProtocol` has the branch; in its
  instances no heavier branch is shorter, so that it is not taken.
* A connection in `state_idle` ignores transactions
  (`CryptoNoteProtocolHandler.cpp:276`), and the sync data that makes it normal
  again (`:147`) asks for no pool. `PoolsAgree` speaks of runs in which no
  connection is idle while the pools differ.
* A block that spends a key output which the container has filed under an
  unconfirmed transaction throws at every attempt (`TransfersContainer.cpp:330`), so
  that the wallet does not pass it; `OnlyConflictsThrow` allows that.
* The unlock of a deposit is not announced when its term ends and another copy's
  withdrawal arrives in one batch of blocks that is undone later
  (`WalletUserTransactionsCache.cpp:653`).

Behaviours the models reproduce and no property forbids, since the code promises
nothing else: after a failed reorganisation, side branches of the failing block
stay among the alternative blocks; after one that failed in the reinsertion, old
blocks are in both containers; the timestamp median of a long alternative chain
is taken over all of it; after a crash the pool may hold mined transactions; a
transaction that failed once is refused while the block of the failure is in the
chain; a wallet whose last request failed waits for the next change of the
daemon; a late error of a relay turns an active transaction into a failed one
until the next notification; two sends may choose the same outputs while one of
them waits for random outputs; a deposit that two copies withdrew is available
again when the withdrawal seen first leaves the pool, although the other is mined;
a deposit or withdrawal that turns out too large leaves its entry in the deposit
list; an unconfirmed transaction that was detached with the block it depends on is
not added again while it stays in the pool.

## 6. Not modelled

| Part | Code | Why |
|---|---|---|
| Upgrade voting | `CryptoNoteCore/UpgradeDetector.h` | every known network has the fixed upgrade height 0, so that no vote takes place |
| Difficulty, emission, size median | `CryptoNoteCore/Currency.cpp` | stateless arithmetic on wide integers over hundreds of blocks; difficulties, rewards and sizes are data |
| Block file and its paging cache | `CryptoNoteCore/SwappedVector.h` | a push or pop of `m_blocks` is one step; what a file system keeps of unflushed writes is outside |
| Message queues | `CryptoNoteCore/MessageQueue.h` | no program registers one; what is sent is checked by `ReplicaIsMainChain` |
| Secondary indices, explorer | `CryptoNoteCore/BlockchainIndices.cpp`, `BlockchainExplorer/` | queries that decide nothing |
| Miner threads, stand-alone miner | `CryptoNoteCore/Miner.cpp`, `Miner/` | only found blocks and templates reach the modelled state |
| Peer lists, framing, old P2P node | `P2p/PeerListManager.cpp`, `LevinProtocol.cpp`, `P2pNode.cpp` | the links of `SyncProtocol` are fixed; framing is I/O; `P2pNode` is not used by the daemon |
| Dispatcher, events, contexts | `System/`, `Platform/*/System/` | machine contexts per platform; taken as one context at a time |
| `WalletGreen`, `InProcessNode` | `Wallet/`, `InProcessNode/` | a second wallet and a second proxy over the same synchroniser, not started |
| Of `WalletLegacy`: balances, payment ids, messages, reset, failing saves | `WalletLegacy/` | amounts would multiply the states; the others touch no list that is modelled, or end the process |
| Of `TransfersConsumer`: the scan for own outputs and its threads, global indices | `Transfers/TransfersConsumer.cpp` | results are sorted before they are used; the scan is cryptography |
| Payment gate, RPC, HTTP, daemon, command-line wallet | `PaymentGate*/`, `Rpc/`, `HTTP/`, `JsonRpcServer/`, `Daemon/`, `SimpleWallet/` | request translation and I/O |
| Serialisers, strings, logging, cryptography | `Serialization/`, `Common/`, `Logging/`, `crypto/` | conversions; signatures and hashes are facts of the data |
| Desktop wallet | `src/src/` | Qt presentation over the wallet library |

Hazards that were read off the source, that no property covers, and that
`PROJECT.json` does not list:

* `Blockchain.cpp:2210`: an input that refers to an output of its own block
  throws in the middle of a push. `TransactionStore` has the step and claims
  nothing about the store after it.
* `Blockchain.cpp:1991`: `popBlock` leaves the size limit of the longer chain in
  force. Sizes are data here.
* `Blockchain.cpp:1719`: the pool's lock is taken before the blockchain's. The
  models take a section under both as one step.
* `TransactionPool.cpp:219`: the payment id index is given a transaction that was
  moved away; it takes part in no decision.
* `SwappedVector.h:341`, `385`: three writes for one push; references into a
  bounded cache.
* `Miner.cpp:362`, `MessageQueue.h:87`: a number read after its lock was given
  back; a queue changed without one.
* `CryptoNoteProtocolHandler.cpp:559`: a remote height that never enters the
  observed height, which is for display.
* `Core.cpp:452`: pool and tail are compared without one lock around both; the
  query is one step of `NodeRpcProxy`.
* `BlockchainSynchronizer.cpp:561`: two mutexes are taken in both orders, on paths
  that a check keeps apart while the worker runs.
* `TransfersConsumer.cpp:540`, `TransfersContainer.cpp:423`: errors of the
  global indices, which are not modelled.
* `WalletUserTransactionsCache.cpp:43`: files of old versions.
