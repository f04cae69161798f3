---------------------------- MODULE NodeRpcProxy ----------------------------
(***************************************************************************)
(* The wallet's view of its daemon (NodeRpcProxy.cpp), and the daemon as   *)
(* far as the wallet can see it: the tip of its main chain, the ids in its *)
(* pool and the height its peers have announced.  A thread of the proxy    *)
(* polls the daemon, keeps the last answers and tells its observer what    *)
(* differs from them; the queries of the wallet (queryBlocks,              *)
(* getPoolSymmetricDifference) are answered from the daemon directly, so   *)
(* that the two views drift apart between two polls.                       *)
(*                                                                         *)
(* Requests are serialised (m_httpEvent) and an answer is applied by the   *)
(* thread that received it before it waits again: one step per request.    *)
(***************************************************************************)
EXTENDS Naturals, Sequences, FiniteSets, FiniteSetsExt

CONSTANTS
  Blocks,       \* the block tree, the same for the daemon and the wallet
  genesis,
  path,         \* [Blocks -> Seq(Blocks)]: genesis .. block
  weight,       \* [Blocks -> Nat]: cumulative difficulty
  transactions, \* [Blocks -> SUBSET Txs]: confirmed by the block
  Txs,
  observedIndex, \* the height the daemon's peers have announced
  MaxBlocks,    \* BLOCKS_SYNCHRONIZING_DEFAULT_COUNT
  MaxFailures   \* bound: requests and calls that fail

\* Every block has one chain, from the genesis block up to it; what a chain holds
\* up to one of its blocks is that block's chain.
ASSUME TreeAssumption ==
  /\ genesis \in Blocks
  /\ \A b \in Blocks :
       /\ path[b] \in Seq(Blocks) /\ Len(path[b]) >= 1
       /\ path[b][1] = genesis /\ path[b][Len(path[b])] = b
       /\ \A i \in 1 .. Len(path[b]) : path[path[b][i]] = SubSeq(path[b], 1, i)

\* No block takes from the cumulative difficulty.
ASSUME WeightAssumption ==
  \A b \in Blocks :
    /\ weight[b] \in Nat
    /\ \A i \in 1 .. Len(path[b]) - 1 : weight[path[b][i]] <= weight[b]

ASSUME MaxBlocksAssumption == MaxBlocks \in Nat \ {0}

VARIABLES
  tip, pool,                                     \* the daemon
  arrived,                                       \* transactions it has received
  m_lastKnowHash, m_nodeHeight, m_networkHeight, \* the proxy
  m_knownTxs,
  polling,                                       \* next request of the polling thread
  failures                                       \* failed requests so far

daemonVars == <<tip, pool, arrived>>
proxyVars == <<m_lastKnowHash, m_nodeHeight, m_networkHeight, m_knownTxs, polling>>
nodeVars == <<daemonVars, proxyVars, failures>>

Height(b) == Len(path[b]) - 1
Confirmed(b) == UNION {transactions[c] : c \in Range(path[b])}

NodeInit ==
  /\ tip = genesis /\ pool = {} /\ arrived = Confirmed(genesis)
  /\ m_lastKnowHash = genesis /\ m_nodeHeight = 0 /\ m_networkHeight = 0
  /\ m_knownTxs = {}
  /\ polling = "header"
  /\ failures = 0

Fails == failures < MaxFailures /\ failures' = failures + 1

------------------------------------------------------------------------------
(* The daemon, as Blockchain and MemoryPool describe it.                     *)

\* The main chain becomes the one that ends in b: its transactions leave the
\* pool, those of the blocks that are popped return to it.
switchTo(b) ==
  /\ weight[tip] < weight[b]
  /\ tip' = b
  /\ pool' = (pool \cup Confirmed(tip)) \ Confirmed(b)
  /\ arrived' = arrived \cup Confirmed(b)
  /\ UNCHANGED <<proxyVars, failures>>

enterPool(t) ==
  /\ t \notin arrived
  /\ arrived' = arrived \cup {t}
  /\ pool' = pool \cup {t}
  /\ UNCHANGED <<tip, proxyVars, failures>>

\* A transaction is dropped from the pool after a day (mempoolTxLiveTime); the
\* proxy polls every few seconds and has seen it by then.
expire(t) ==
  /\ t \in pool \cap m_knownTxs
  /\ pool' = pool \ {t}
  /\ UNCHANGED <<tip, arrived, proxyVars, failures>>

------------------------------------------------------------------------------
(* What the daemon answers.                                                  *)

\* Core::queryBlocksLite: the blocks of the main chain from the last one the
\* wallet knows, at most MaxBlocks of them.
findBlockchainSupplement(known) ==
  LET common == CHOOSE i \in 1 .. Len(known) :
        /\ known[i] \in Range(path[tip])
        /\ \A j \in 1 .. i - 1 : known[j] \notin Range(path[tip])
  IN Height(known[common])

queryBlocksLite(known) ==
  LET startHeight == findBlockchainSupplement(known) IN
  [startHeight |-> startHeight,
   blocks |-> SubSeq(path[tip], startHeight + 1,
                     Min({startHeight + MaxBlocks, Len(path[tip])}))]

\* Core::getPoolChangesLite
getPoolChanges(tailBlockId, known) ==
  [isTailBlockActual |-> tailBlockId = tip,
   added |-> pool \ known,
   deleted |-> known \ pool]

------------------------------------------------------------------------------
(* The polling thread: getlastblockheader, getinfo, get_pool_changes_lite.   *)
(* blockchainUpdated, heightUpdated and poolUpdated say whether the step     *)
(* notifies the observer.                                                    *)

blockchainUpdated == polling = "header" /\ tip # m_lastKnowHash
lastKnownBlockIndex == Max({observedIndex, m_nodeHeight})
heightUpdated == polling = "info" /\ m_networkHeight # lastKnownBlockIndex
isBcActual == m_lastKnowHash = tip
poolUpdated == polling = "pool" /\ isBcActual /\ m_knownTxs # pool

\* updateBlockchainStatus, first request
pollHeader ==
  /\ polling = "header"
  /\ polling' = "info"
  /\ m_lastKnowHash' = tip
  /\ m_nodeHeight' = IF blockchainUpdated THEN Height(tip) ELSE m_nodeHeight
  /\ UNCHANGED <<daemonVars, m_networkHeight, m_knownTxs, failures>>

\* updateBlockchainStatus, second request
pollInfo ==
  /\ polling = "info"
  /\ polling' = "pool"
  /\ m_networkHeight' = lastKnownBlockIndex
  /\ UNCHANGED <<daemonVars, m_lastKnowHash, m_nodeHeight, m_knownTxs, failures>>

\* updatePoolStatus.  A chain that moved on is polled again at once, otherwise
\* the thread sleeps for m_pullInterval.
pollPool ==
  /\ polling = "pool"
  /\ polling' = "header"
  /\ m_knownTxs' = IF isBcActual THEN pool ELSE m_knownTxs
  /\ UNCHANGED <<daemonVars, m_lastKnowHash, m_nodeHeight, m_networkHeight, failures>>

\* Without an answer the thread goes on with its next request.
pollFails ==
  /\ Fails
  /\ polling' = CASE polling = "header" -> "info"
                  [] polling = "info" -> "pool"
                  [] polling = "pool" -> "header"
  /\ UNCHANGED <<daemonVars, m_lastKnowHash, m_nodeHeight, m_networkHeight, m_knownTxs>>
=============================================================================
