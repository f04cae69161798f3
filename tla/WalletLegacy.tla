---------------------------- MODULE WalletLegacy ----------------------------
(***************************************************************************)
(* The wallet above its synchronizer: TransfersConsumer and               *)
(* TransfersSubscription feed a TransfersContainer from blocks and pool     *)
(* differences, WalletLegacy turns the notifications into the transaction   *)
(* and deposit lists of WalletUserTransactionsCache, and                    *)
(* WalletTransactionSender sends, deposits and withdraws.  Three threads     *)
(* meet: the synchronizer's worker (one container method or one handler     *)
(* under m_cacheMutex at a time), the user's calls, and the node proxy's    *)
(* callbacks.  The synchronizer is taken at the promise checked in          *)
(* BlockchainSynchronizer: intervals that fit the history, detach first,    *)
(* pool differences only when the history is the node's chain.             *)
(***************************************************************************)
EXTENDS TransfersContainer

CONSTANTS
  Sends,       \* transactions the user can ask for with sendTransaction
  Makes,       \* ... with deposit
  Withdraws,   \* ... with withdrawDeposits
  Mixed,       \* those of Sends and Makes with mixIn # 0
  Foreign,     \* transactions another copy of the wallet's keys sends
  Elsewhere,   \* transactions a block of another miner may bring unannounced
  Perishable,  \* transactions that may expire in the node's pool
  LongBreaks,  \* whether the wallet may be closed before it sees that one expired
  FirstChain,  \* the node's chain at the start
  MaxHeight,   \* bound: height of the blocks mined on top of the chain
  MaxFaults    \* bound: blocks undone by reorganisations, relays whose answer
               \* is lost, and times the wallet is closed and reopened

VARIABLES
  chain, pool,                   \* the node: blocks by height, pool
  faults,                        \* counts towards MaxFaults
  requests,                      \* node requests of the sender and their answers
  history, m_poolTxs,            \* blocks and pool transactions the consumer has
  job,                           \* what the worker still has to do, in order
  events,                        \* notifications of the running container method
  container,
  sent,                          \* bound: a transaction is asked for once
  m_transactions, m_deposits,    \* the cache's lists
  m_unconfirmedTxs, m_spentDeposits, m_usedOutputs

node == <<chain, pool, faults>>
worker == <<history, m_poolTxs, job, events>>
cache == <<m_transactions, m_deposits, m_unconfirmedTxs, m_spentDeposits, m_usedOutputs>>
vars == <<node, requests, worker, container, sent, cache>>

NoHash == "none"
InvalidId == 0

-----------------------------------------------------------------------------
(* The node, from how its answers are used: it takes a transaction whose    *)
(* inputs are in its chain and that competes with nothing it holds.  Its    *)
(* blocks are mined here or elsewhere: they carry transactions of the pool   *)
(* or others, and one of the pool that competes with them stays there.      *)

ChainTxs(ch) == UNION {ToSet(ch[i].txs) : i \in DOMAIN ch}
MinedAt(ch, t) == (CHOOSE i \in DOMAIN ch : t \in ToSet(ch[i].txs)) - 1
SpentBy(S) == UNION {inputs[t] : t \in S}

\* t can be in the block after ch.
Minable(ch, t) ==
  LET mined == ChainTxs(ch)
  IN  /\ t \notin mined
      /\ inputs[t] \cap SpentBy(mined) = {}
      /\ \A o \in inputs[t] : /\ creator[o] \in mined
                              /\ MinedAt(ch, creator[o]) + term[o] <= Len(ch)

\* The pool takes t.
Acceptable(t) ==
  t \notin pool /\ Minable(chain, t) /\ inputs[t] \cap SpentBy(pool) = {}

\* What the block after ch can hold, when the node's pool holds S.
BlockContents(ch, S) ==
  {B \in SUBSET {t \in S \cup Elsewhere : Minable(ch, t)} :
     \A t, u \in B : t # u => inputs[t] \cap inputs[u] = {}}

\* The daemon goes on when the worker has asked for the last change.
CaughtUp == job # <<>> \/ history = chain

MineBlock ==
  /\ CaughtUp /\ Len(chain) <= MaxHeight
  /\ \E B \in BlockContents(chain, pool) : \E txs \in SetToSeqs(B) :
       /\ chain' = Append(chain, [branch |-> Last(chain).branch, txs |-> txs])
       /\ pool' = pool \ B
       /\ sent' = sent \cup (B \cap Foreign)
  /\ UNCHANGED <<faults, requests, worker, container, cache>>

\* The last n blocks are replaced by n + 1; what they held is mined again or
\* pooled, whether or not it competes with what the new blocks hold.
Reorganise ==
  /\ CaughtUp
  /\ \E n \in 1 .. Len(chain) - 1 :
       /\ faults' = faults + n /\ faults' <= MaxFaults
       /\ LET kept == SubSeq(chain, 1, Len(chain) - n)
              back == pool \cup (ChainTxs(chain) \ ChainTxs(kept))
              empty == [branch |-> Last(chain).branch + 1, txs |-> <<>>]
          IN  \E B \in BlockContents(kept, back) : \E txs \in SetToSeqs(B) :
                /\ chain' = kept \o <<[empty EXCEPT !.txs = txs]>> \o [i \in 1 .. n |-> empty]
                /\ pool' = back \ B
                /\ sent' = sent \cup (B \cap Foreign)
  /\ UNCHANGED <<requests, worker, container, cache>>

ForeignSend(t) ==
  /\ t \notin sent /\ Acceptable(t)
  /\ pool' = pool \cup {t} /\ sent' = sent \cup {t}
  /\ UNCHANGED <<chain, faults, requests, worker, container, cache>>

\* A pool transaction lives far longer than a request or a poll takes.
Expire(t) ==
  /\ t \in pool \cap m_poolTxs /\ requests = {} /\ job = <<>>
  /\ pool' = pool \ {t}
  /\ UNCHANGED <<chain, faults, requests, worker, container, sent, cache>>

-----------------------------------------------------------------------------
(* WalletUserTransactionsCache and WalletUnconfirmedTransactions.          *)

findTransactionByHash(t) ==
  LET ids == {i \in DOMAIN m_transactions : m_transactions[i].hash = t}
  IN  IF ids = {} THEN InvalidId ELSE Min(ids)

\* m_transactionOutputToDepositIndex keeps the first deposit of an output.
getDepositId(o) ==
  LET ids == {i \in DOMAIN m_deposits : m_deposits[i].out = o}
  IN  IF ids = {} THEN InvalidId ELSE Min(ids)

eraseUnconfirmed(t) ==
  /\ m_unconfirmedTxs' = m_unconfirmedTxs \ {t}
  /\ m_usedOutputs' = IF t \in m_unconfirmedTxs THEN m_usedOutputs \ inputs[t] ELSE m_usedOutputs
  /\ m_spentDeposits' = IF t \in m_unconfirmedTxs THEN m_spentDeposits ELSE m_spentDeposits \ {t}

NewDeposit(o, id) == [out |-> o, creating |-> id, spending |-> InvalidId, locked |-> TRUE]

\* Deposits of a transaction this wallet did not send: created, then spent.
createNewDeposits(id, t) ==
  m_deposits \o SetToSeq({NewDeposit(o, id) : o \in {p \in OutputsOf(t) : IsDeposit(p)}})
processSpentDeposits(id, t, deposits) ==
  [i \in DOMAIN deposits |->
     LET out == deposits[i].out
     IN  IF out \in DOMAIN container.spent /\ container.spent[out].spender = t /\ i = getDepositId(out)
         THEN [deposits[i] EXCEPT !.spending = id] ELSE deposits[i]]

\* The id is found by hash: doSend has stored it before the relay.
onTransactionUpdated(t) ==
  LET id == findTransactionByHash(t)
      height == HeightOf(container, t)
  IN  /\ eraseUnconfirmed(t)
      /\ \/ /\ id = InvalidId
            /\ m_transactions' = Append(m_transactions, [hash |-> t, state |-> "Active",
                                                         blockHeight |-> height])
            /\ m_deposits' = processSpentDeposits(Len(m_transactions) + 1, t,
                                                  createNewDeposits(Len(m_transactions) + 1, t))
         \/ /\ id # InvalidId
            /\ m_transactions' = [m_transactions EXCEPT ![id].state = "Active",
                                                        ![id].blockHeight = height]
            /\ UNCHANGED m_deposits

\* Fault: the height the transaction had is kept.
DeletedKeepsHeight(t) ==
  LET id == findTransactionByHash(t)
  IN  /\ eraseUnconfirmed(t)
      /\ m_transactions' = [m_transactions EXCEPT ![id].state = "Deleted"]
      /\ m_deposits' = [i \in DOMAIN m_deposits |->
           IF m_deposits[i].spending = id
           THEN [m_deposits[i] EXCEPT !.spending = InvalidId] ELSE m_deposits[i]]
onTransactionDeleted(t) ==
  LET id == findTransactionByHash(t)
  IN  /\ eraseUnconfirmed(t)
      /\ m_transactions' = [m_transactions EXCEPT ![id].state = "Deleted",
                                                  ![id].blockHeight = UNCONFIRMED]
      /\ m_deposits' = [i \in DOMAIN m_deposits |->
           IF m_deposits[i].spending = id
           THEN [m_deposits[i] EXCEPT !.spending = InvalidId] ELSE m_deposits[i]]

\* unlockDeposits and lockDeposits.
SetLocked(S, locked) ==
  /\ m_deposits' = [i \in DOMAIN m_deposits |->
       IF m_deposits[i].out \in S /\ i = getDepositId(m_deposits[i].out)
       THEN [m_deposits[i] EXCEPT !.locked = locked] ELSE m_deposits[i]]
  /\ UNCHANGED <<m_transactions, m_unconfirmedTxs, m_spentDeposits, m_usedOutputs>>

\* deleteOutdatedTransactions: S are those whose live time is over.
deleteOutdatedTransactions(S) ==
  /\ m_unconfirmedTxs' = m_unconfirmedTxs \ S
  /\ m_usedOutputs' = m_usedOutputs \ SpentBy(S)
  /\ m_transactions' = [i \in DOMAIN m_transactions |->
       IF m_transactions[i].hash \in S
       THEN [m_transactions[i] EXCEPT !.state = "Deleted"] ELSE m_transactions[i]]
  /\ UNCHANGED <<m_deposits, m_spentDeposits>>

-----------------------------------------------------------------------------
(* The worker: an answer of the node becomes a job, a job is done one       *)
(* container method at a time, and its notifications follow one by one.     *)

CommonPrefix ==
  Max({n \in 0 .. Len(history) :
         n <= Len(chain) /\ SubSeq(history, 1, n) = SubSeq(chain, 1, n)})

BlockOps(h) ==
  [i \in DOMAIN chain[h + 1].txs |-> [op |-> "tx", tx |-> chain[h + 1].txs[i], height |-> h]]

QueryBlocks ==
  /\ job = <<>> /\ events = <<>> /\ history # chain
  /\ LET from == CommonPrefix
         top == Len(chain) - 1
     IN  job' = (IF from < Len(history) THEN <<[op |-> "detach", height |-> from]>> ELSE <<>>)
                  \o FlattenSeq([i \in 1 .. Len(chain) - from |-> BlockOps(from + i - 1)])
                  \o <<[op |-> "advance", height |-> top, blocks |-> chain],
                       [op |-> "completed"]>>
  /\ UNCHANGED <<node, requests, history, m_poolTxs, events, container, sent, cache>>

QueryPool ==
  /\ job = <<>> /\ events = <<>> /\ history = chain
  /\ pool # m_poolTxs \/ m_unconfirmedTxs # {}
  /\ \E added \in SetToSeqs(pool \ m_poolTxs) :
       job' = [i \in DOMAIN added |-> [op |-> "add", tx |-> added[i]]]
                \o SetToSeq({[op |-> "delete", tx |-> t] : t \in m_poolTxs \ pool})
                \o <<[op |-> "completed"]>>
  /\ UNCHANGED <<node, requests, history, m_poolTxs, events, container, sent, cache>>

\* TransfersConsumer::processTransaction and processOutputs.
Updated(t) == <<[event |-> "updated", tx |-> t]>>
Unlocked(S) == IF S = {} THEN <<>> ELSE <<[event |-> "unlocked", outs |-> S]>>

ProcessOutputs(c, t, h) ==
  IF ~Knows(c, t) THEN addTransaction(c, t, h)
  ELSE IF IsUnconfirmed(c, t) /\ h # UNCONFIRMED THEN markTransactionConfirmed(c, t, h)
  ELSE c

processTransaction(t, h) ==
  /\ container' = ProcessOutputs(container, t, h)
  /\ events' = (IF container'.transactions # container.transactions THEN Updated(t) ELSE <<>>)
       \o Unlocked(IF Knows(container, t) \/ h = UNCONFIRMED THEN {}
                   ELSE getUnlockingTransfers(AddedTransfers(container, t, h),
                                              container.height, h))

ProcessOutputsThrows(c, t, h) ==
  \/ ~Knows(c, t) /\ addTransactionThrows(c, t, h)
  \/ IsUnconfirmed(c, t) /\ h # UNCONFIRMED /\ markTransactionConfirmedThrows(c, t)

Throws(op) ==
  CASE op.op = "detach" -> detachThrows(container, op.height)
    [] op.op = "tx" -> ProcessOutputsThrows(container, op.tx, op.height)
    [] op.op = "add" -> ProcessOutputsThrows(container, op.tx, UNCONFIRMED)
    [] op.op = "advance" -> doAdvanceHeightThrows(container, op.height)
    [] OTHER -> FALSE

\* The worker's next step throws.  A batch of blocks is given up and asked for
\* again at every notification, to throw at the same transaction (startBlockchainSync
\* catches, the history is not extended); in a pool difference the exception
\* leaves the worker's thread (startPoolSync does not catch).
Thrown == job # <<>> /\ events = <<>> /\ Throws(job[1])
Doing(name) == job # <<>> /\ events = <<>> /\ job[1].op = name
Done == job' = Tail(job) /\ UNCHANGED <<node, requests, sent>>

onBlockchainDetach ==
  /\ Doing("detach") /\ Done
  /\ LET h == job[1].height
         locked == lockedTransfers(container, h)
         deleted == deletedTransactions(container, h)
     IN  /\ container' = detach(container, h)
         /\ history' = SubSeq(history, 1, h)
         /\ events' = [i \in DOMAIN deleted |-> [event |-> "deleted", tx |-> deleted[i]]]
                        \o (IF locked = {} THEN <<>> ELSE <<[event |-> "locked", outs |-> locked]>>)
  /\ UNCHANGED <<m_poolTxs, cache>>

onNewBlocksTransaction ==
  /\ Doing("tx") /\ Done
  /\ processTransaction(job[1].tx, job[1].height)
  /\ UNCHANGED <<history, m_poolTxs, cache>>

onNewBlocksAdvance ==
  /\ Doing("advance") /\ Done
  /\ container' = doAdvanceHeight(container, job[1].height)
  /\ events' = Unlocked(getUnlockingTransfers(container, container.height, job[1].height))
  /\ history' = job[1].blocks
  /\ UNCHANGED <<m_poolTxs, cache>>

onPoolUpdatedAdd ==
  /\ Doing("add") /\ Done
  /\ m_poolTxs' = m_poolTxs \cup {job[1].tx}
  /\ processTransaction(job[1].tx, UNCONFIRMED)
  /\ UNCHANGED <<history, cache>>

onPoolUpdatedDelete ==
  /\ Doing("delete") /\ Done
  /\ LET t == job[1].tx
     IN  /\ m_poolTxs' = m_poolTxs \ {t}
         /\ container' = deleteUnconfirmedTransaction(container, t)
         /\ events' = IF IsUnconfirmed(container, t)
                      THEN <<[event |-> "deleted", tx |-> t]>> ELSE <<>>
  /\ UNCHANGED <<history, cache>>

\* Live time is far above any request's: what is under way is not outdated.
synchronizationCompleted ==
  /\ Doing("completed") /\ Done
  /\ \E S \in SUBSET (m_unconfirmedTxs \ {r.tx : r \in requests}) : deleteOutdatedTransactions(S)
  /\ UNCHANGED <<history, m_poolTxs, events, container>>

Notify ==
  /\ events # <<>>
  /\ LET e == events[1]
     IN  \/ e.event = "updated" /\ onTransactionUpdated(e.tx)
         \/ e.event = "deleted" /\ onTransactionDeleted(e.tx)
         \/ e.event = "unlocked" /\ SetLocked(e.outs, FALSE)
         \/ e.event = "locked" /\ SetLocked(e.outs, TRUE)
  /\ events' = Tail(events)
  /\ UNCHANGED <<node, requests, history, m_poolTxs, job, container, sent>>

\* doSave, shutdown and doLoad: the container, the history and the cache come
\* back from the file; the consumer's pool set does not.  The sender is stopped:
\* a relay under way may still reach the node, but no answer changes the cache.
Reopen ==
  /\ faults < MaxFaults /\ faults' = faults + 1
  /\ job = <<>> /\ events = <<>>
  /\ LongBreaks \/ m_poolTxs \subseteq pool \cup ChainTxs(chain)
  /\ m_poolTxs' = {}
  /\ \E S \in SUBSET {r.tx : r \in {u \in requests : u.kind = "relay"}} :
       (\A t \in S : Acceptable(t)) /\ pool' = pool \cup S
  /\ requests' = {}
  /\ \E S \in SUBSET m_unconfirmedTxs : deleteOutdatedTransactions(S)
  /\ UNCHANGED <<chain, history, job, events, container, sent>>

Worker ==
  \/ QueryBlocks \/ QueryPool
  \/ onBlockchainDetach \/ onNewBlocksTransaction \/ onNewBlocksAdvance
  \/ onPoolUpdatedAdd \/ onPoolUpdatedDelete \/ synchronizationCompleted
  \/ Notify

-----------------------------------------------------------------------------
(* WalletTransactionSender: the user's calls and the proxy's callbacks.     *)

addNewTransaction ==
  Append(m_transactions, [hash |-> NoHash, state |-> "Sending", blockHeight |-> UNCONFIRMED])

\* The transaction is built: its hash, its outputs and its deposit are entered
\* in the cache, and its relay is requested.
doSend(transactions, id, t) ==
  /\ m_transactions' = [transactions EXCEPT ![id].hash = t]
  /\ m_unconfirmedTxs' = m_unconfirmedTxs \cup {t}
  /\ m_usedOutputs' = m_usedOutputs \cup inputs[t]
  /\ m_deposits' = createNewDeposits(id, t)
  /\ UNCHANGED m_spentDeposits

\* The transaction is too large.  constructTx finds that out before the hash is
\* known; for a deposit, convertTransaction does after its hash and its deposit
\* are entered.
doSendFails(transactions, id, t) ==
  /\ m_transactions' = [transactions EXCEPT ![id].state = "Failed",
                                           ![id].hash = IF t \in Makes THEN t ELSE NoHash]
  /\ m_deposits' = createNewDeposits(id, t)
  /\ UNCHANGED <<m_unconfirmedTxs, m_spentDeposits, m_usedOutputs>>

\* makeSendRequest and makeDepositRequest: selectTransfersToSend takes unlocked
\* key outputs that no unconfirmed transaction uses.
SendOrDeposit(t) ==
  /\ t \notin sent
  /\ \A o \in inputs[t] : IsUnlocked(container, o) /\ o \notin m_usedOutputs
  /\ sent' = sent \cup {t}
  /\ LET id == Len(m_transactions) + 1
     IN  \/ /\ t \in Mixed
            /\ m_transactions' = addNewTransaction
            /\ requests' = requests \cup {[kind |-> "outs", id |-> id, tx |-> t]}
            /\ UNCHANGED <<m_deposits, m_unconfirmedTxs, m_spentDeposits, m_usedOutputs>>
         \/ /\ t \notin Mixed
            /\ doSend(addNewTransaction, id, t)
            /\ requests' = requests \cup {[kind |-> "relay", id |-> id, tx |-> t]}
         \/ /\ t \notin Mixed
            /\ doSendFails(addNewTransaction, id, t)
            /\ UNCHANGED requests
  /\ UNCHANGED <<node, worker, container>>

\* makeWithdrawDepositRequest: selectDepositTransfers asks for available deposits.
\* They keep their spending transaction when that is found too large, which is
\* after its hash is entered.
WithdrawDeposits(t) ==
  /\ t \notin sent
  /\ \A o \in inputs[t] : IsUnlocked(container, o) /\ getDepositId(o) # InvalidId
  /\ sent' = sent \cup {t}
  /\ LET id == Len(m_transactions) + 1
     IN  /\ m_deposits' = [i \in DOMAIN m_deposits |->
              IF m_deposits[i].out \in inputs[t] /\ i = getDepositId(m_deposits[i].out)
              THEN [m_deposits[i] EXCEPT !.spending = id] ELSE m_deposits[i]]
         /\ \/ /\ m_transactions' = [addNewTransaction EXCEPT ![id].hash = t]
               /\ m_spentDeposits' = m_spentDeposits \cup {t}
               /\ requests' = requests \cup {[kind |-> "relay", id |-> id, tx |-> t]}
            \/ /\ m_transactions' = [addNewTransaction EXCEPT ![id].hash = t, ![id].state = "Failed"]
               /\ UNCHANGED <<m_spentDeposits, requests>>
  /\ UNCHANGED <<node, worker, container, m_unconfirmedTxs, m_usedOutputs>>

\* updateTransactionSendingState.
updateTransactionSendingState(r, failed) ==
  /\ m_transactions' = [m_transactions EXCEPT ![r.id].state = IF failed THEN "Failed" ELSE "Active"]
  /\ IF failed
     THEN eraseUnconfirmed(m_transactions[r.id].hash)
     ELSE UNCHANGED <<m_unconfirmedTxs, m_spentDeposits, m_usedOutputs>>
  /\ UNCHANGED m_deposits

\* sendTransactionRandomOutsByAmount: an error or too few outputs, or doSend.
RandomOutsCallback(r) ==
  /\ r \in requests /\ r.kind = "outs"
  /\ \/ /\ updateTransactionSendingState(r, TRUE) \/ doSendFails(m_transactions, r.id, r.tx)
        /\ requests' = requests \ {r}
     \/ /\ doSend(m_transactions, r.id, r.tx)
        /\ requests' = (requests \ {r}) \cup {[r EXCEPT !.kind = "relay"]}
  /\ UNCHANGED <<node, worker, container, sent>>

\* The node takes the transaction or refuses it; the answer can get lost.
RelayTransaction(r) ==
  /\ r \in requests /\ r.kind = "relay"
  /\ \/ /\ Acceptable(r.tx)
        /\ pool' = pool \cup {r.tx}
        /\ \/ /\ requests' = (requests \ {r}) \cup {[r EXCEPT !.kind = "accepted"]}
              /\ UNCHANGED faults
           \/ /\ faults < MaxFaults /\ faults' = faults + 1
              /\ requests' = (requests \ {r}) \cup {[r EXCEPT !.kind = "failed"]}
     \/ /\ ~Acceptable(r.tx)
        /\ requests' = (requests \ {r}) \cup {[r EXCEPT !.kind = "failed"]}
        /\ UNCHANGED <<pool, faults>>
  /\ UNCHANGED <<chain, worker, container, sent, cache>>

\* relayTransactionCallback and relayDepositTransactionCallback.
RelayCallback(r) ==
  /\ r \in requests /\ r.kind \in {"accepted", "failed"}
  /\ updateTransactionSendingState(r, r.kind = "failed")
  /\ requests' = requests \ {r}
  /\ UNCHANGED <<node, worker, container, sent>>

-----------------------------------------------------------------------------
Init ==
  /\ chain = FirstChain /\ pool = {} /\ faults = 0
  /\ requests = {} /\ history = SubSeq(FirstChain, 1, 1) /\ m_poolTxs = {}
  /\ job = <<>> /\ events = <<>>
  /\ container = EmptyContainer
  /\ sent = {} /\ m_transactions = <<>> /\ m_deposits = <<>>
  /\ m_unconfirmedTxs = {} /\ m_spentDeposits = {} /\ m_usedOutputs = {}

Proxy == \E r \in requests : RandomOutsCallback(r) \/ RelayTransaction(r) \/ RelayCallback(r)
User == \/ \E t \in Sends \cup Makes : SendOrDeposit(t)
        \/ \E t \in Withdraws : WithdrawDeposits(t)
Node == \/ MineBlock \/ Reorganise
        \/ \E t \in Foreign : ForeignSend(t)
        \/ \E t \in Perishable : Expire(t)

\* Behaviours are followed up to the first exception in the worker.
Next == ~Thrown /\ (Worker \/ Proxy \/ User \/ Node \/ Reopen)
Spec == Init /\ [][Next]_vars

-----------------------------------------------------------------------------
\* The worker holds no half-done job.
AtRest == job = <<>> /\ events = <<>>

\* The container's methods throw for nothing but a real conflict over a key output
\* (TransfersContainer.cpp:329-342): a block whose transaction spends what an
\* unconfirmed one, still in the consumer's or the node's pool, has spent before; a
\* pool transaction with such a rival, or with one in the blocks; or a pool
\* transaction that spends an output of a transaction whose block was undone.
\* Heights never go back, no output is made twice, and a height change, up or
\* down, meets unlock jobs of available outputs only (:441-445, :1073-1115).
OnlyConflictsThrow ==
  Thrown =>
    /\ job[1].op \in {"tx", "add"}
    /\ \E o \in {p \in inputs[job[1].tx] : ~IsDeposit(p)} :
         \/ \E rival \in Txs \ {job[1].tx} :
              /\ o \in inputs[rival]
              /\ \/ IsUnconfirmed(container, rival) /\ rival \in m_poolTxs \cup pool
                 \/ job[1].op = "add" /\ rival \in ChainTxs(history)
         \/ job[1].op = "add" /\ creator[o] \notin ChainTxs(history)

\* Between jobs the container is what its blocks and the pool make it, however
\* they came and went: every transaction of the history at its height and nothing
\* else confirmed; unconfirmed ones only if the consumer or the node still holds
\* them; every output in the one set its creator and its spender put it in, under
\* the one transaction that spends it; and an unlock job for just the available
\* ones.  The spender is the first transaction the container was given: the input of
\* a later one is passed over (:366-379) and is not filed when that one is mined, so
\* a deposit withdrawn in a block counts as available once the rival that was
\* seen first has left the pool.  Every transaction but those that spend a key output
\* has an output here, so that none is left out as IsAdded allows.
ContainerMatchesHistory ==
  job = <<>> =>
  LET known == {e.hash : e \in ToSet(container.transactions)}
      confirmed == ChainTxs(history)
      spenders(o) == {t \in known : o \in inputs[t] /\ <<t, o>> \notin container.skipped}
  IN  /\ {t \in known : ~IsUnconfirmed(container, t)} = confirmed
      /\ known \ confirmed \subseteq m_poolTxs \cup pool \cup ChainTxs(chain)
      /\ \A t \in confirmed : HeightOf(container, t) = MinedAt(history, t)
      /\ container.height = Len(history) - 1
      /\ container.unconfirmed = {o \in Outs : creator[o] \in known \ confirmed}
      /\ DOMAIN container.available = {o \in Outs : creator[o] \in confirmed /\ spenders(o) = {}}
      /\ DOMAIN container.spent = {o \in Outs : creator[o] \in confirmed /\ spenders(o) # {}}
      /\ \A o \in DOMAIN container.available : container.available[o] = MinedAt(history, creator[o])
      /\ \A o \in DOMAIN container.spent :
           /\ spenders(o) = {container.spent[o].spender}
           /\ container.spent[o].spendingHeight = HeightOf(container, container.spent[o].spender)
      /\ container.jobs = [o \in DOMAIN container.available |->
                             makeTransferUnlockJob(o, container.available[o])]

\* Between jobs the wallet's list and the container agree: a transaction the
\* container knows is listed once, at the container's height, neither deleted
\* nor still being sent, and holds no outputs as used; any other entry is at
\* no height.
ListMatchesContainer ==
  AtRest =>
    /\ \A t \in Txs : Knows(container, t) =>
         \E id \in DOMAIN m_transactions :
           /\ {i \in DOMAIN m_transactions : m_transactions[i].hash = t} = {id}
           /\ m_transactions[id].blockHeight = HeightOf(container, t)
           /\ m_transactions[id].state \in {"Active", "Failed"}
           /\ t \notin m_unconfirmedTxs \cup m_spentDeposits
    /\ \A i \in DOMAIN m_transactions :
         Knows(container, m_transactions[i].hash) \/ m_transactions[i].blockHeight = UNCONFIRMED

\* Between jobs every deposit output the container knows is one deposit of the
\* list, made by the listed creator; and one no withdrawal was ever listed for is
\* shown unlocked as soon as the container would let it be withdrawn, whatever
\* blocks came and went.
DepositsMatchContainer ==
  AtRest =>
    \A o \in {p \in Outs : IsDeposit(p) /\ Knows(container, creator[p])} :
      \E id \in DOMAIN m_deposits :
        /\ {i \in DOMAIN m_deposits : m_deposits[i].out = o} = {id}
        /\ m_transactions[m_deposits[id].creating].hash = creator[o]
        /\ \/ m_deposits[id].locked => ~IsUnlocked(container, o)
           \/ \E i \in DOMAIN m_transactions :
                m_transactions[i].hash # NoHash /\ o \in inputs[m_transactions[i].hash]

\* A synchronized wallet shows a transaction the node has lost as deleted, also
\* when the wallet was saved, closed and loaded again after the loss
\* (TestWalletLegacy.cpp, outdatedUnconfirmedTransactionDeletedOnLoad).
GoneMeansDeleted ==
  AtRest /\ requests = {} /\ history = chain /\ m_poolTxs = pool /\ m_unconfirmedTxs = {} =>
    \A i \in DOMAIN m_transactions :
      m_transactions[i].state = "Active" => m_transactions[i].hash \in pool \cup ChainTxs(chain)
=============================================================================
