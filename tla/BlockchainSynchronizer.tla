----------------------- MODULE BlockchainSynchronizer -----------------------
(***************************************************************************)
(* How a wallet follows the daemon (BlockchainSynchronizer.cpp).  A worker *)
(* thread runs through prioritised states: it fetches blocks, then the     *)
(* pool, then waits.  The thread that owns the wallet starts and stops it, *)
(* changes the set of consumers while it is stopped and hands it           *)
(* transactions to announce or withdraw while it runs.  The polling thread *)
(* of the node proxy raises the state the worker is to take next.          *)
(*                                                                         *)
(* A consumer (TransfersConsumer) is kept as what it was given: the blocks *)
(* (received) and the pool ids it reports as known (poolTxs).  What it     *)
(* makes of them is the subject of WalletLegacy.                           *)
(***************************************************************************)
EXTENDS NodeRpcProxy, SynchronizationState

CONSTANTS
  NConsumers,      \* consumers, in the order of m_consumers
  FirstConsumers,  \* those registered at first
  MaxCalls,        \* bound: calls of the owner other than start
  NoBlock          \* what the uninitialised lastBlockId holds

Consumers == 1 .. NConsumers

ASSUME ConsumersAssumption == NConsumers \in Nat /\ FirstConsumers \subseteq Consumers

VARIABLES
  m_currentState, m_futureState,
  m_addTransactionTasks, m_removeTransactionTasks,  \* SUBSET Txs
  m_consumers,    \* [registered consumers -> Seq(Blocks)]: SynchronizationState
  received, poolTxs,  \* the consumers themselves
  lastBlockId,
  observing,      \* the worker's observer is registered with the proxy
  worker,         \* where the worker thread is
  answer,         \* the request or the answer it works on
  completed,      \* the last result reported: synchronizationCompleted
  blocksMissed,   \* history: the last attempt to fetch blocks failed
  owner,          \* the owner's thread: "free" or "joining" the worker
  calls           \* the count behind MaxCalls

syncState == <<m_currentState, m_futureState>>
taskQueues == <<m_addTransactionTasks, m_removeTransactionTasks>>
consumerVars == <<m_consumers, received, poolTxs>>
workerVars == <<worker, answer, lastBlockId, completed, blocksMissed>>
ownerVars == <<observing, owner, calls>>
vars == <<nodeVars, syncState, taskQueues, consumerVars, workerVars, ownerVars>>

\* enum State: prioritised
idle == 0
poolSync == 1
blockchainSync == 2
stopped == 3

Registered == DOMAIN m_consumers
NoAnswer == [known |-> << >>]

Init ==
  /\ NodeInit
  /\ m_currentState = stopped /\ m_futureState = stopped
  /\ m_addTransactionTasks = {} /\ m_removeTransactionTasks = {}
  /\ m_consumers = [c \in FirstConsumers |-> <<genesis>>]
  /\ received = [c \in Consumers |-> <<genesis>>]
  /\ poolTxs = [c \in Consumers |-> {}]
  /\ lastBlockId = NoBlock
  /\ observing = FALSE
  /\ worker = "none" /\ answer = NoAnswer /\ completed = "none"
  /\ blocksMissed = FALSE
  /\ owner = "free" /\ calls = 0

------------------------------------------------------------------------------
(* The state the worker is to take next.                                     *)

setFutureState(s) == m_futureState' = IF s > m_futureState THEN s ELSE m_futureState

\* After a failure: setFutureStateIf(idle, not stopped)
giveUp == m_futureState' = IF m_futureState = stopped THEN stopped ELSE idle

\* INodeObserver: localBlockchainUpdated, lastKnownBlockHeightUpdated, poolChanged
notify(happens, s) ==
  IF observing /\ happens THEN setFutureState(s) ELSE UNCHANGED m_futureState

Poll ==
  /\ \/ pollHeader /\ notify(blockchainUpdated, blockchainSync)
     \/ pollInfo /\ notify(heightUpdated, blockchainSync)
     \/ pollPool /\ notify(poolUpdated, poolSync)
  /\ UNCHANGED <<m_currentState, taskQueues, consumerVars, workerVars, ownerVars>>

PollFails ==
  /\ pollFails
  /\ UNCHANGED <<syncState, taskQueues, consumerVars, workerVars, ownerVars>>

Daemon ==
  /\ \/ \E b \in Blocks : switchTo(b)
     \/ \E t \in Txs : enterPool(t) \/ expire(t)
  /\ UNCHANGED <<syncState, taskQueues, consumerVars, workerVars, ownerVars>>

------------------------------------------------------------------------------
(* The owner's thread.                                                       *)

Called == calls < MaxCalls /\ calls' = calls + 1

start ==
  /\ owner = "free" /\ worker = "none" /\ Registered # {}
  /\ m_currentState = stopped /\ m_futureState = stopped
  /\ m_futureState' = blockchainSync
  /\ worker' = "loop"
  /\ UNCHANGED <<nodeVars, m_currentState, taskQueues, consumerVars, answer,
                 lastBlockId, completed, ownerVars, blocksMissed>>

stop ==
  /\ owner = "free" /\ worker # "none" /\ Called
  /\ setFutureState(stopped)
  /\ owner' = "joining"
  /\ UNCHANGED <<nodeVars, m_currentState, taskQueues, consumerVars, workerVars, observing>>

join ==
  /\ owner = "joining" /\ worker = "finished"
  /\ owner' = "free" /\ worker' = "none"
  /\ UNCHANGED <<nodeVars, syncState, taskQueues, consumerVars, answer, lastBlockId,
                 completed, observing, calls, blocksMissed>>

\* addConsumer and removeConsumer throw unless the synchronizer is stopped.
IsStopped == m_currentState = stopped /\ m_futureState = stopped

addConsumer(c) ==
  /\ owner = "free" /\ IsStopped /\ c \notin Registered /\ Called
  /\ m_consumers' = [d \in Registered \cup {c} |->
                       IF d = c THEN <<genesis>> ELSE m_consumers[d]]
  /\ UNCHANGED <<nodeVars, syncState, taskQueues, received, poolTxs,
                 workerVars, observing, owner>>

\* The consumer object is destroyed with its registration.
removeConsumer(c) ==
  /\ owner = "free" /\ IsStopped /\ c \in Registered /\ Called
  /\ m_consumers' = [d \in Registered \ {c} |-> m_consumers[d]]
  /\ received' = [received EXCEPT ![c] = <<genesis>>]
  /\ poolTxs' = [poolTxs EXCEPT ![c] = {}]
  /\ UNCHANGED <<nodeVars, syncState, taskQueues, workerVars, observing, owner>>

addUnconfirmedTransaction(t) ==
  /\ owner = "free" /\ m_currentState # stopped /\ m_futureState # stopped
  /\ Called
  /\ m_addTransactionTasks' = m_addTransactionTasks \cup {t}
  /\ UNCHANGED <<nodeVars, syncState, m_removeTransactionTasks, consumerVars,
                 workerVars, observing, owner>>

removeUnconfirmedTransaction(t) ==
  /\ owner = "free" /\ m_currentState # stopped /\ m_futureState # stopped
  /\ Called
  /\ m_removeTransactionTasks' = m_removeTransactionTasks \cup {t}
  /\ UNCHANGED <<nodeVars, syncState, m_addTransactionTasks, consumerVars,
                 workerVars, observing, owner>>

Owner ==
  \/ start \/ stop \/ join
  \/ \E c \in Consumers : addConsumer(c) \/ removeConsumer(c)
  \/ \E t \in Txs : addUnconfirmedTransaction(t) \/ removeUnconfirmedTransaction(t)

------------------------------------------------------------------------------
(* The worker thread: workingProcedure and actualizeFutureState.             *)

\* Fault: the thread ends as soon as it sees the request to stop.
LeavesAtOnce ==
  /\ worker = "loop"
  /\ worker' = IF m_futureState = stopped THEN "finished" ELSE "actualize"
  /\ UNCHANGED <<nodeVars, syncState, taskQueues, consumerVars, answer, lastBlockId,
                 completed, ownerVars, blocksMissed>>

\* The loop leaves through one last call of actualizeFutureState.
checkIfShouldStop ==
  /\ worker = "loop"
  /\ worker' = IF m_futureState = stopped THEN "last" ELSE "actualize"
  /\ UNCHANGED <<nodeVars, syncState, taskQueues, consumerVars, answer, lastBlockId,
                 completed, ownerVars, blocksMissed>>

\* Removals are done before additions.  Every promise is answered, with the error
\* of the consumer that refused the transaction if one did: the consumers before
\* it have taken the transaction back by then.
processTasks == m_removeTransactionTasks' = {} /\ m_addTransactionTasks' = {}

\* Fault: the request is made with the longest history.
Longest ==
  CHOOSE c \in Registered : \A d \in Registered :
    \/ Len(m_consumers[c]) > Len(m_consumers[d])
    \/ Len(m_consumers[c]) = Len(m_consumers[d]) /\ c <= d

shortest ==
  CHOOSE c \in Registered : \A d \in Registered :
    \/ Len(m_consumers[c]) < Len(m_consumers[d])
    \/ Len(m_consumers[c]) = Len(m_consumers[d]) /\ c <= d

getCommonHistory == getShortHistory(m_consumers[shortest], m_nodeHeight)

actualizeFutureState ==
  /\ worker \in {"actualize", "last"}
  /\ observing' = IF m_futureState = stopped THEN FALSE
                  ELSE observing \/ (m_currentState = stopped /\ m_futureState = blockchainSync)
  /\ processTasks
  /\ m_currentState' = m_futureState
  /\ \/ /\ m_futureState = stopped
        /\ worker' = IF worker = "last" THEN "finished" ELSE "loop"
        /\ UNCHANGED <<m_futureState, answer>>
     \/ /\ m_futureState = blockchainSync
        /\ m_futureState' = poolSync
        /\ worker' = "queryBlocks" /\ answer' = [known |-> getCommonHistory]
     \/ /\ m_futureState = poolSync
        /\ m_futureState' = idle
        /\ worker' = "queryUnion" /\ UNCHANGED answer
     \/ /\ m_futureState = idle
        /\ worker' = "waiting"
        /\ UNCHANGED <<m_futureState, answer>>
  /\ UNCHANGED <<nodeVars, consumerVars, lastBlockId, completed, blocksMissed, owner, calls>>

\* m_hasWork.wait
wakeUp ==
  /\ worker = "waiting"
  /\ m_futureState # idle \/ m_addTransactionTasks # {} \/ m_removeTransactionTasks # {}
  /\ worker' = "loop"
  /\ UNCHANGED <<nodeVars, syncState, taskQueues, consumerVars, answer, lastBlockId,
                 completed, ownerVars, blocksMissed>>

\* A step of the worker that ends the current state with a result to report.
Report(result) == worker' = "loop" /\ answer' = NoAnswer /\ completed' = result

------------------------------------------------------------------------------
(* State blockchainSync: startBlockchainSync, processBlocks, updateConsumers.*)

queryBlocksAnswered ==
  /\ worker = "queryBlocks"
  /\ answer' = queryBlocksLite(answer.known)
  /\ worker' = "processBlocks"
  /\ UNCHANGED <<nodeVars, syncState, taskQueues, consumerVars, lastBlockId,
                 completed, ownerVars, blocksMissed>>

queryFails ==
  /\ worker \in {"queryBlocks", "queryUnion", "queryIntersection"}
  /\ Fails
  /\ giveUp
  /\ Report("error")
  /\ blocksMissed' = (blocksMissed \/ worker = "queryBlocks")
  /\ UNCHANGED <<daemonVars, proxyVars, m_currentState, taskQueues, consumerVars,
                 lastBlockId, ownerVars>>

Check(c) == checkInterval(m_consumers[c], answer)

\* onBlockchainDetach, and the transactions of the detached blocks with it
DetachedTo(c) ==
  IF Check(c).detachRequired THEN detach(m_consumers[c], Check(c).detachHeight)
  ELSE m_consumers[c]

\* The ids consumer c has processed once the interval went through the consumers
\* up to failing, whose onNewBlocks failed after its detach.
UpdatedTo(c, failing) ==
  CASE c < failing /\ Check(c).hasNewBlocks ->
         DetachedTo(c) \o NewBlocks(answer, Check(c).newBlockHeight)
    [] c = failing -> DetachedTo(c)
    [] OTHER -> m_consumers[c]

updateConsumers(failing) ==
  /\ m_consumers' = [c \in Registered |-> UpdatedTo(c, failing)]
  /\ received' = [c \in Consumers |->
       IF c \notin Registered \/ c > failing THEN received[c]
       ELSE (IF Check(c).detachRequired THEN SubSeq(received[c], 1, Check(c).detachHeight)
             ELSE received[c])
            \o (IF c < failing /\ Check(c).hasNewBlocks
                THEN NewBlocks(answer, Check(c).newBlockHeight) ELSE << >>)]
  /\ UNCHANGED poolTxs

NoFailing == NConsumers + 1

\* Fault: the block the pool request names is not updated.
KeepsLastBlockId == UNCHANGED lastBlockId

back(s) == s[Len(s)]

RememberLastBlockId == lastBlockId' = back(answer.blocks)

\* The whole interval was applied.  Blocks may be missing still while the daemon
\* itself lags behind the network.
processBlocks ==
  /\ worker = "processBlocks" /\ m_futureState # stopped
  /\ updateConsumers(NoFailing)
  /\ IF \/ \E c \in Registered : Check(c).hasNewBlocks
        \/ m_networkHeight # m_nodeHeight
     THEN setFutureState(blockchainSync) ELSE UNCHANGED m_futureState
  /\ RememberLastBlockId
  /\ blocksMissed' = FALSE
  /\ worker' = "loop" /\ answer' = NoAnswer
  /\ UNCHANGED <<nodeVars, m_currentState, taskQueues, completed, ownerVars>>

\* A consumer's onNewBlocks returns an error, after which the interval still
\* counts as the last one seen, or throws, after which it does not.
processBlocksFails ==
  /\ worker = "processBlocks" /\ m_futureState # stopped
  /\ Fails
  /\ \E c \in Registered : Check(c).hasNewBlocks /\ updateConsumers(c)
  /\ giveUp
  /\ RememberLastBlockId \/ UNCHANGED lastBlockId
  /\ Report("error") /\ blocksMissed' = TRUE
  /\ UNCHANGED <<daemonVars, proxyVars, m_currentState, taskQueues, ownerVars>>

processBlocksInterrupted ==
  /\ worker = "processBlocks" /\ m_futureState = stopped
  /\ Report("interrupted")
  /\ UNCHANGED <<nodeVars, syncState, taskQueues, consumerVars, lastBlockId, ownerVars, blocksMissed>>

------------------------------------------------------------------------------
(* State poolSync: startPoolSync and processPoolTxs.                         *)

poolUnion == UNION {poolTxs[c] : c \in Registered}

\* Fault: what one consumer knows passes for known to all of them.
KnownToOne == poolUnion

poolIntersection == {t \in poolUnion : \A c \in Registered : t \in poolTxs[c]}

\* What onPoolUpdated is to be called with, consumer by consumer.
Feed(added, deleted) == [added |-> added, deleted |-> deleted, fed |-> {}]

blockchainOutdated ==
  /\ setFutureState(blockchainSync)
  /\ worker' = "loop" /\ answer' = NoAnswer

queryUnionAnswered ==
  /\ worker = "queryUnion"
  /\ LET changes == getPoolChanges(lastBlockId, poolUnion) IN
     \/ ~changes.isTailBlockActual /\ blockchainOutdated
     \/ /\ changes.isTailBlockActual
        /\ answer' = Feed(changes.added, changes.deleted)
        /\ worker' = IF poolUnion = poolIntersection THEN "processPoolTxs"
                     ELSE "queryIntersection"
        /\ UNCHANGED m_futureState
  /\ UNCHANGED <<nodeVars, m_currentState, taskQueues, consumerVars, lastBlockId,
                 completed, ownerVars, blocksMissed>>

\* The consumers know different transactions: what to add is asked for anew.
queryIntersectionAnswered ==
  /\ worker = "queryIntersection"
  /\ LET changes == getPoolChanges(lastBlockId, poolIntersection) IN
     \/ ~changes.isTailBlockActual /\ blockchainOutdated
     \/ /\ changes.isTailBlockActual
        /\ answer' = Feed(changes.added, answer.deleted)
        /\ worker' = "processPoolTxs"
        /\ UNCHANGED m_futureState
  /\ UNCHANGED <<nodeVars, m_currentState, taskQueues, consumerVars, lastBlockId,
                 completed, ownerVars, blocksMissed>>

NextToFeed == CHOOSE c \in Registered \ answer.fed :
                \A d \in Registered \ answer.fed : c <= d

\* onPoolUpdated of one consumer: additions first.
onPoolUpdated ==
  /\ worker = "processPoolTxs" /\ m_futureState # stopped
  /\ LET c == NextToFeed IN
     /\ poolTxs' = [poolTxs EXCEPT ![c] = (@ \cup answer.added) \ answer.deleted]
     /\ IF answer.fed \cup {c} = Registered THEN Report("ok")
        ELSE /\ answer' = [answer EXCEPT !.fed = @ \cup {c}]
             /\ UNCHANGED <<worker, completed>>
  /\ UNCHANGED <<nodeVars, syncState, taskQueues, m_consumers, received, lastBlockId,
                 ownerVars, blocksMissed>>

\* It fails at one of the transactions to add, which counts as known already.
onPoolUpdatedFails ==
  /\ worker = "processPoolTxs" /\ m_futureState # stopped
  /\ Fails
  /\ \E known \in SUBSET answer.added \ {{}} :
       poolTxs' = [poolTxs EXCEPT ![NextToFeed] = @ \cup known]
  /\ Report("error")
  /\ UNCHANGED <<daemonVars, proxyVars, syncState, taskQueues, m_consumers, received,
                 lastBlockId, ownerVars, blocksMissed>>

processPoolInterrupted ==
  /\ worker = "processPoolTxs" /\ m_futureState = stopped
  /\ Report("interrupted")
  /\ UNCHANGED <<nodeVars, syncState, taskQueues, consumerVars, lastBlockId, ownerVars, blocksMissed>>

Worker ==
  \/ checkIfShouldStop \/ actualizeFutureState \/ wakeUp
  \/ queryBlocksAnswered \/ queryFails
  \/ processBlocks \/ processBlocksFails \/ processBlocksInterrupted
  \/ queryUnionAnswered \/ queryIntersectionAnswered
  \/ onPoolUpdated \/ onPoolUpdatedFails \/ processPoolInterrupted

Next == Daemon \/ Poll \/ PollFails \/ Owner \/ Worker

\* The threads are scheduled and every request is answered or fails.
Fairness == WF_vars(Poll) /\ WF_vars(Worker) /\ WF_vars(join)

Spec == Init /\ [][Next]_vars /\ Fairness

------------------------------------------------------------------------------
(* Properties.                                                               *)

\* s is what t begins with.
Begins(s, t) == Len(s) <= Len(t) /\ \A k \in 1 .. Len(s) : s[k] = t[k]

\* The consumers are at different heights after a failure or a registration, but
\* always on one chain: what one has processed is a beginning of what the other
\* has, it is a chain of the block tree, and it is what the consumer was really
\* given.  That is what lets one request, made with the history of the shortest,
\* serve all of them: an answer never starts above a consumer's height (the
\* assertions in checkInterval, detach and addBlocks).
HistoriesAgree ==
  /\ \A c \in Registered :
       /\ m_consumers[c] = received[c]
       /\ m_consumers[c] = path[back(m_consumers[c])]
       /\ worker = "processBlocks" => answer.startHeight <= Len(m_consumers[c])
  /\ \A c, d \in Registered :
       Begins(m_consumers[c], m_consumers[d]) \/ Begins(m_consumers[d], m_consumers[c])

Waiting == worker = "waiting" /\ m_futureState = idle

\* No change is slept through: when the worker waits after a successful
\* synchronization and the proxy has seen the daemon's tip and pool, every
\* consumer has the daemon's main chain and knows its pool, whatever changed
\* between and during the queries.
WaitingMeansSynchronized ==
  (Waiting /\ completed = "ok" /\ ~blocksMissed /\ m_lastKnowHash = tip /\ m_knownTxs = pool) =>
    \A c \in Registered : m_consumers[c] = path[tip] /\ poolTxs[c] = pool

\* The daemon has caught up with its peers and the proxy with the daemon.
Settled == /\ m_lastKnowHash = tip /\ m_knownTxs = pool
           /\ m_nodeHeight = Height(tip) /\ m_networkHeight = m_nodeHeight

\* Fetching blocks and fetching the pool do not send each other back and forth
\* for ever: once the daemon stays as it is, a worker that is not stopped comes
\* to rest.
WorkerComesToRest == <>[](Settled /\ owner = "free" /\ worker # "none") => <>[]Waiting

CallsPending ==
  owner = "joining" \/ m_addTransactionTasks # {} \/ m_removeTransactionTasks # {}

\* stop() returns, and every task handed to a running worker is answered, also
\* when stop() overtakes it.
CallsReturn == CallsPending ~> ~CallsPending
=============================================================================
