----------------------------- MODULE MemoryPool -----------------------------
(***************************************************************************)
(* CryptoNoteCore/TransactionPool.cpp: the transactions that wait for a    *)
(* block, the indices that keep two of them from spending the same input,  *)
(* their expiry, and the block templates made of them, while the chain     *)
(* underneath grows and is reorganised.                                    *)
(*                                                                         *)
(* The chain is a path in a constant tree whose root stands for a prefix   *)
(* nobody reorganises.  Every transaction makes one output, of an amount   *)
(* of its own, and the output goes by the transaction's name; a reference  *)
(* therefore finds that output or none.  Unlock times are left out (module *)
(* TransactionStore has them).  Blocks are popped and pushed one by one;   *)
(* addNewBlock holds the pool's lock from the first pop of a               *)
(* reorganisation to its last push, so the pool's other operations only    *)
(* run when the chain is settled.                                          *)
(***************************************************************************)
EXTENDS Integers, Sequences, FiniteSets, SequencesExt

CONSTANTS
  Blocks, Genesis, NullHash, parent,
  difficulty,     \* [Blocks -> Nat], of the block alone
  transactions,   \* [Blocks -> Seq(AllTxs)], without the base transaction
  base,           \* [Blocks -> AllTxs], the base transaction
  Txs,            \* the transactions that may enter the pool
  inputs,         \* [Txs -> Seq of inputs]: an output, and the key image of a key input
  fee, blobSize,  \* [Txs -> Nat]
  ttl,            \* [Txs -> Nat], 0 for none
  Fusion,         \* the transactions that pass isFusionTransaction
  minimumFee, maxTxSize, fusionTxMaxSize, medianSize, maxTotalSize,
  mempoolTxLiveTime, mempoolTxFromAltBlockLiveTime, maxTtl, forgetTime,
  KeptTxs,        \* the transactions that also arrive with blocks
  MaxTime,        \* bound on the clock
  MaxRestarts     \* bound on restarts

ASSUME BlocksAssumption ==
  /\ Genesis \in Blocks
  /\ \A b \in Blocks : transactions[b] \in Seq(KeptTxs)

ASSUME ForgetAssumption == forgetTime \in Nat

VARIABLES
  m_blocks,
  rest,            \* the chain when it last was at rest
  pool,            \* the members of tx_memory_pool, as one record
  poolFile,        \* what deinit last wrote
  blockTemplate,   \* the last template handed out or being made
  now,
  banned,          \* when a transaction never kept by a block was last expired
  restarts

vars == <<m_blocks, rest, pool, poolFile, blockTemplate, now, banned, restarts>>

NoBlock == [height |-> 0, id |-> NullHash]
EmptyPool ==
  [m_transactions |-> << >>, m_spent_key_images |-> << >>, m_spentOutputs |-> {},
   m_ttlIndex |-> {}, m_timestampIndex |-> {}, m_recentlyDeletedTransactions |-> << >>]

-----------------------------------------------------------------------------
(* What the validator, the blockchain, says of a transaction.              *)

getTailId(c) == c[Len(c)]

TailInfo(c) == [height |-> Len(c) - 1, id |-> getTailId(c)]
Weight(c) == FoldLeft(LAMBDA w, b : w + difficulty[b], 0, c)

InputsOf(t, type) == {i \in DOMAIN inputs[t] : inputs[t][i].type = type}
KeyImagesOf(t) == {inputs[t][i].keyImage : i \in InputsOf(t, "key")}
OutputsUsedBy(t) == {inputs[t][i].output : i \in InputsOf(t, "multisig")}

TxsOf(c) == UNION {Range(transactions[b]) : b \in Range(c)}
MadeBy(c) == TxsOf(c) \cup {base[b] : b \in Range(c)}
SpentImages(c) == UNION {KeyImagesOf(t) : t \in TxsOf(c)}
UsedOutputs(c) == UNION {OutputsUsedBy(t) : t \in TxsOf(c)}

\* The height at which the chain holds transaction t.
HeightOf(c, t) ==
  (CHOOSE n \in DOMAIN c : t = base[c[n]] \/ t \in Range(transactions[c[n]])) - 1

InputOk(c, in) ==
  IF in.type = "key"
  THEN in.keyImage \notin SpentImages(c) /\ in.output \in MadeBy(c)
  ELSE in.output \in MadeBy(c) \ UsedOutputs(c)

\* The inputs are looked at in order; the height is the greatest any key
\* input before the first bad one refers to.
CheckInputs(c, t) ==
  LET bad == {i \in DOMAIN inputs[t] : ~InputOk(c, inputs[t][i])}
      fine == {i \in InputsOf(t, "key") : \A j \in bad : i < j}
      heights == {HeightOf(c, inputs[t][i].output) : i \in fine}
  IN  [ok |-> bad = {}, height |-> Max(heights \cup {0})]

\* Checks again: a failure leaves the id as it was, whatever the height says.
CheckAgain(c, t, info) ==
  LET r == CheckInputs(c, t)
  IN  [ok |-> r.ok,
       info |-> IF r.ok
                THEN [info EXCEPT !.maxUsedBlock = [height |-> r.height, id |-> c[r.height + 1]]]
                ELSE [info EXCEPT !.maxUsedBlock.height = r.height,
                                  !.lastFailedBlock = TailInfo(c)]]

\* Fault: a transaction once checked is not looked at again.
CheckedOnce(c, t, info, stale) ==
  IF info.maxUsedBlock.id = NullHash
  THEN CheckAgain(c, t, info)
  ELSE [ok |-> info.maxUsedBlock.height < Len(c), info |-> info]

\* checkTransactionInputs with the two blocks remembered for a transaction.
\* Nothing keeps the height of the last failure within the chain; above it,
\* getBlockIdByHeight asserts, and without assertions (a release build) reads
\* beyond the index: stale says that the removed id is still to be read there.
checkTransactionInputs(c, t, info, stale) ==
  LET used == info.maxUsedBlock
      failed == info.lastFailedBlock
      above == failed.height >= Len(c)
      same(x) == x.height < Len(c) /\ c[x.height + 1] = x.id
      refused == [ok |-> FALSE, info |-> info]
  IN  IF used.id = NullHash
      THEN IF failed.id # NullHash /\ same(failed) THEN refused
           ELSE CheckAgain(c, t, info)
      ELSE IF used.height >= Len(c) THEN refused
      ELSE IF same(used) THEN [refused EXCEPT !.ok = TRUE]
      ELSE IF same(failed) \/ (above /\ stale) THEN refused
      ELSE CheckAgain(c, t, info)

is_transaction_ready_to_go(c, t, info, stale) ==
  LET r == checkTransactionInputs(c, t, info, stale)
  IN  [r EXCEPT !.ok = @ /\ KeyImagesOf(t) \cap SpentImages(c) = {}]

-----------------------------------------------------------------------------
(* Adding and removing.                                                    *)

\* Fault: a relayed transaction is compared by outputs only.
HaveSpentOutputs(p, t) == OutputsUsedBy(t) \cap p.m_spentOutputs # {}

haveSpentInputs(p, t) ==
  \/ KeyImagesOf(t) \cap DOMAIN p.m_spent_key_images # {}
  \/ OutputsUsedBy(t) \cap p.m_spentOutputs # {}

\* emplace: the entries of f, and those of g under other keys.
Emplace(f, g) == [x \in DOMAIN f \cup DOMAIN g |-> IF x \in DOMAIN f THEN f[x] ELSE g[x]]

\* For each transaction of T.
addTransactionInputs(p, T, kept) ==
  [p EXCEPT
     !.m_spent_key_images =
        [k \in DOMAIN @ \cup UNION {KeyImagesOf(t) : t \in T} |->
           (IF k \in DOMAIN @ THEN @[k] ELSE {}) \cup {t \in T : k \in KeyImagesOf(t)}],
     !.m_spentOutputs = IF kept THEN @ ELSE @ \cup UNION {OutputsUsedBy(t) : t \in T}]

Relayed(p, T) == {t \in T : ~p.m_transactions[t].keptByBlock}

\* Fault: the image is forgotten although another transaction has it.
RemoveWholeImage(p, T) ==
  [p EXCEPT
     !.m_spent_key_images = Restrict(@, DOMAIN @ \ UNION {KeyImagesOf(t) : t \in T}),
     !.m_spentOutputs = @ \ UNION {OutputsUsedBy(t) : t \in Relayed(p, T)}]

\* For each transaction of T, which the pool has.
removeTransactionInputs(p, T) ==
  [p EXCEPT
     !.m_spent_key_images =
        [k \in {x \in DOMAIN @ : ~(@[x] \subseteq T)} |-> @[k] \ T],
     !.m_spentOutputs = @ \ UNION {OutputsUsedBy(t) : t \in Relayed(p, T)}]

removeTransaction(p, T) ==
  [removeTransactionInputs(p, T) EXCEPT
     !.m_timestampIndex = @ \ {<<p.m_transactions[t].receiveTime, t>> : t \in T},
     !.m_ttlIndex = @ \ T,
     !.m_transactions = Restrict(@, DOMAIN @ \ T)]

\* The reasons to refuse a relayed transaction.
Refused(p, c, t) ==
  \/ t \notin Fusion /\ ttl[t] = 0 /\ fee[t] < minimumFee
  \/ ttl[t] # 0 /\ (ttl[t] <= now \/ ttl[t] - now > maxTtl \/ fee[t] # 0)
  \/ haveSpentInputs(p, t)
  \/ ~CheckInputs(c, t).ok
  \/ blobSize[t] > maxTxSize
  \/ t \in DOMAIN p.m_recentlyDeletedTransactions

\* What add_tx remembers of t; c is the chain the inputs are checked against.
Details(c, t, kept) ==
  LET r == CheckInputs(c, t)
  IN  [keptByBlock |-> kept, receiveTime |-> now,
       maxUsedBlock |-> IF r.ok THEN [height |-> r.height, id |-> c[r.height + 1]] ELSE NoBlock,
       lastFailedBlock |-> NoBlock]

\* The pool with the transactions of T, which it does not have.
Insert(p, c, T, kept) ==
  addTransactionInputs(
    [p EXCEPT
       !.m_transactions = Emplace(@, [t \in T |-> Details(c, t, kept)]),
       !.m_timestampIndex = @ \cup {<<now, t>> : t \in T},
       !.m_ttlIndex = @ \cup {t \in T : ttl[t] # 0}], T, kept)

\* A transaction that is there already, like one refused, leaves the pool as
\* it is.
add_tx(p, c, t, kept) ==
  IF t \in DOMAIN p.m_transactions \/ (~kept /\ Refused(p, c, t)) THEN p
  ELSE Insert(p, c, {t}, kept)

Expired(p, t) ==
  LET txd == p.m_transactions[t]
  IN  \/ now - txd.receiveTime >
           (IF txd.keptByBlock THEN mempoolTxFromAltBlockLiveTime ELSE mempoolTxLiveTime)
      \/ t \in p.m_ttlIndex /\ ttl[t] <= now

\* Fault: deletions are forgotten one period too early.
ForgetEarly(p) ==
  LET gone == {t \in DOMAIN p.m_transactions : Expired(p, t)}
      kept == {t \in DOMAIN p.m_recentlyDeletedTransactions :
                 now - p.m_recentlyDeletedTransactions[t] < forgetTime}
      deleted == Emplace(Restrict(p.m_recentlyDeletedTransactions, kept), [t \in gone |-> now])
  IN  [removeTransaction(p, gone) EXCEPT !.m_recentlyDeletedTransactions = deleted]

\* emplace keeps the time of an earlier deletion.
removeExpiredTransactions(p) ==
  LET gone == {t \in DOMAIN p.m_transactions : Expired(p, t)}
      kept == {t \in DOMAIN p.m_recentlyDeletedTransactions :
                 now - p.m_recentlyDeletedTransactions[t] <= forgetTime}
      deleted == Emplace(Restrict(p.m_recentlyDeletedTransactions, kept), [t \in gone |-> now])
  IN  [removeTransaction(p, gone) EXCEPT !.m_recentlyDeletedTransactions = deleted]

-----------------------------------------------------------------------------
(* fill_block_template                                                     *)

canAdd(acc, t) ==
  KeyImagesOf(t) \cap acc.m_keyImages = {} /\ OutputsUsedBy(t) \cap acc.m_usedOutputs = {}

\* One transaction of the pool is considered.
Consider(p, c, acc, t, limit, stale) ==
  LET r == is_transaction_ready_to_go(c, t, p.m_transactions[t], stale)
      seen == [acc EXCEPT !.checked = @ \cup {t}]
  IN  IF t \in p.m_ttlIndex \/ acc.total_size + blobSize[t] > limit THEN acc
      ELSE IF ~r.ok \/ ~canAdd(acc, t) THEN seen
      ELSE [seen EXCEPT !.m_txHashes = Append(@, t), !.total_size = @ + blobSize[t],
                        !.m_keyImages = @ \cup KeyImagesOf(t),
                        !.m_usedOutputs = @ \cup OutputsUsedBy(t)]

\* TransactionPriorityComparator: by price, then the smaller, then the older.
Before(p, t, u) ==
  LET x == fee[t] * blobSize[u]
      y == fee[u] * blobSize[t]
  IN  \/ x > y
      \/ x = y /\ blobSize[t] < blobSize[u]
      \/ x = y /\ blobSize[t] = blobSize[u]
           /\ p.m_transactions[t].receiveTime < p.m_transactions[u].receiveTime

\* The fee index; equal elements are in any order.
FeeIndexes(p) ==
  {order \in SetToSeqs(DOMAIN p.m_transactions) :
     \A i, j \in DOMAIN order : i < j => ~Before(p, order[j], order[i])}

\* First the free transactions from the end, up to fusionTxMaxSize, then all.
\* What the second pass finds out about the ones it checks is remembered.
fill_block_template(p, c, order, stale) ==
  LET start == [m_txHashes |-> << >>, total_size |-> 0,
                m_keyImages |-> {}, m_usedOutputs |-> {}, checked |-> {}]
      free == SelectSeq(Reverse(order), LAMBDA t : fee[t] = 0)
      fused == FoldLeft(LAMBDA acc, t : Consider(p, c, acc, t, fusionTxMaxSize, stale), start, free)
  IN  FoldLeft(LAMBDA acc, t :
                 Consider(p, c, acc, t, IF fee[t] = 0 THEN medianSize ELSE maxTotalSize, stale),
               [fused EXCEPT !.checked = {}], order)

\* TransactionCheckInfo of the transactions checked.
Remember(p, c, checked, stale) ==
  [p EXCEPT !.m_transactions =
     [t \in DOMAIN @ |-> IF t \in checked THEN is_transaction_ready_to_go(c, t, @[t], stale).info
                         ELSE @[t]]]

-----------------------------------------------------------------------------
(* The chain under the pool.                                               *)

path[b \in Blocks] == IF b = Genesis THEN <<b>> ELSE Append(path[parent[b]], b)

\* At rest: no reorganisation, or its rollback, is under way.
Settled == m_blocks = rest

\* No output of the block itself can be used: it is not stored yet.
BlockValid(c, txs) ==
  /\ \A i \in DOMAIN txs : CheckInputs(c, txs[i]).ok
  /\ \A i, j \in DOMAIN txs : i # j =>
       /\ KeyImagesOf(txs[i]) \cap KeyImagesOf(txs[j]) = {}
       /\ OutputsUsedBy(txs[i]) \cap OutputsUsedBy(txs[j]) = {}

\* saveTransactions, and the end of loadTransactions.
saveTransactions(p, c, T) == Insert(p, c, T, TRUE)

\* The transactions take_tx yields: those of the block before the first one
\* that the pool does not have, or no longer has.
Taken(p, txs) ==
  {txs[i] : i \in {k \in DOMAIN txs : \A j \in 1 .. k :
                     /\ txs[j] \in DOMAIN p.m_transactions
                     /\ \A l \in 1 .. j - 1 : txs[l] # txs[j]}}

\* pushBlock: the transactions are taken from the pool; all come back, kept by
\* a block, when one is missing or the block is refused.
PushBlock(b) ==
  LET txs == transactions[b]
      taken == Taken(pool, txs)
      left == removeTransaction(pool, taken)
      accepted == Cardinality(taken) = Len(txs) /\ BlockValid(m_blocks, txs)
  IN  /\ b # Genesis /\ parent[b] = getTailId(m_blocks)
      /\ m_blocks' = IF accepted THEN Append(m_blocks, b) ELSE m_blocks
      /\ pool' = IF accepted THEN left ELSE saveTransactions(left, m_blocks, taken)
      /\ rest' = IF Weight(m_blocks') > Weight(rest) THEN m_blocks' ELSE rest
      /\ UNCHANGED <<poolFile, blockTemplate, now, banned, restarts>>

\* popBlock within a reorganisation to a heavier branch: the transactions come
\* back, last to first, before the block is gone.  One that the pool has
\* already makes saveTransactions throw, and the lock is given back.
PopBlock ==
  LET txs == transactions[getTailId(m_blocks)]
      saved == {i \in DOMAIN txs : \A j \in i .. Len(txs) :
                                     txs[j] \notin DOMAIN pool.m_transactions}
      popped == saved = DOMAIN txs
  IN  /\ Len(m_blocks) > 1
      /\ \E b \in Blocks : Weight(path[b]) > Weight(rest) /\ ~IsPrefix(m_blocks, path[b])
      /\ pool' = saveTransactions(pool, m_blocks, {txs[i] : i \in saved})
      /\ m_blocks' = IF popped THEN Front(m_blocks) ELSE m_blocks
      /\ rest' = IF popped THEN rest ELSE m_blocks
      /\ UNCHANGED <<poolFile, blockTemplate, now, banned, restarts>>

-----------------------------------------------------------------------------
(* The operations of the core on the pool.                                 *)

\* add_new_tx: relayed, or received with a block.
AddTx(t, kept) ==
  /\ Settled
  /\ t \notin TxsOf(m_blocks) \cup DOMAIN pool.m_transactions
  /\ kept => t \in KeptTxs
  /\ pool' = add_tx(pool, m_blocks, t, kept)
  /\ UNCHANGED <<m_blocks, rest, poolFile, blockTemplate, now, banned, restarts>>

Ban(p) == [t \in {u \in DOMAIN p.m_transactions : Expired(p, u)} |-> now]

OnIdle ==
  /\ Settled
  /\ pool' = removeExpiredTransactions(pool)
  /\ banned' = Emplace(Ban(pool), banned)
  /\ UNCHANGED <<m_blocks, rest, poolFile, blockTemplate, now, restarts>>

\* get_block_template reads the chain under its lock, gives it back, and then
\* fills the template under the pool's.
TemplateHead ==
  /\ Settled
  /\ blockTemplate' = [previousBlockHash |-> getTailId(m_blocks), txs |-> << >>, filled |-> FALSE]
  /\ UNCHANGED <<m_blocks, rest, pool, poolFile, now, banned, restarts>>

TemplateFill ==
  /\ Settled /\ ~blockTemplate.filled
  /\ \E order \in FeeIndexes(pool), stale \in BOOLEAN :
     \E r \in {fill_block_template(pool, m_blocks, order, stale)} :
       /\ pool' = Remember(pool, m_blocks, r.checked, stale)
       /\ blockTemplate' = [blockTemplate EXCEPT !.txs = r.m_txHashes, !.filled = TRUE]
  /\ UNCHANGED <<m_blocks, rest, poolFile, now, banned, restarts>>

Tick ==
  /\ now < MaxTime
  /\ now' = now + 1
  /\ UNCHANGED <<m_blocks, rest, pool, poolFile, blockTemplate, banned, restarts>>

NoTemplate == [previousBlockHash |-> NullHash, txs |-> << >>, filled |-> TRUE]
NoFile == [exists |-> FALSE, pool |-> EmptyPool, banned |-> << >>]
File(p, b) == [exists |-> TRUE, pool |-> p, banned |-> b]

\* buildIndices; the file holds neither index.
buildIndices(p) ==
  [p EXCEPT !.m_timestampIndex = {<<p.m_transactions[t].receiveTime, t>> : t \in DOMAIN p.m_transactions},
            !.m_ttlIndex = {t \in DOMAIN p.m_transactions : ttl[t] # 0}]

\* init with the file that is there.
Start(file) ==
  /\ restarts < MaxRestarts
  /\ restarts' = restarts + 1
  /\ poolFile' = file
  /\ \E p \in {buildIndices(file.pool)} :
       /\ pool' = IF file.exists THEN removeExpiredTransactions(p) ELSE EmptyPool
       /\ banned' = Emplace(Ban(p), file.banned)
  /\ blockTemplate' = NoTemplate
  /\ rest' = m_blocks
  /\ UNCHANGED <<m_blocks, now>>

\* deinit and init; a crash at any time loses what deinit did not write, and
\* one within deinit leaves a file that does not load, which init ignores.
Restart == Settled /\ Start(File(pool, banned))
Crash == Start(poolFile) \/ Start(NoFile)

Init ==
  /\ m_blocks = <<Genesis>> /\ rest = <<Genesis>>
  /\ pool = EmptyPool
  /\ poolFile = NoFile
  /\ blockTemplate = NoTemplate
  /\ now = 0
  /\ banned = << >>
  /\ restarts = 0

Next ==
  \/ \E b \in Blocks : PushBlock(b)
  \/ PopBlock
  \/ \E t \in Txs, kept \in BOOLEAN : AddTx(t, kept)
  \/ OnIdle
  \/ TemplateHead
  \/ TemplateFill
  \/ Tick
  \/ Restart
  \/ Crash

Spec == Init /\ [][Next]_vars

-----------------------------------------------------------------------------
(* Properties                                                              *)

\* m_spent_key_images, m_spentOutputs, m_ttlIndex and m_timestampIndex say
\* exactly what the transactions in the pool say, whatever was added, taken,
\* expired, put back by a refused block, or read from the file.
IndicesMatchPool ==
  LET txs == DOMAIN pool.m_transactions
      images == UNION {KeyImagesOf(t) : t \in txs}
  IN  /\ pool.m_spent_key_images = [k \in images |-> {t \in txs : k \in KeyImagesOf(t)}]
      /\ pool.m_spentOutputs =
           UNION {OutputsUsedBy(t) : t \in {u \in txs : ~pool.m_transactions[u].keptByBlock}}
      /\ pool.m_ttlIndex = {t \in txs : ttl[t] # 0}
      /\ pool.m_timestampIndex = {<<pool.m_transactions[t].receiveTime, t>> : t \in txs}

\* Two transactions of the pool that spend the same input did not both come
\* by relay: at least one was in a block.
ConflictsCameWithBlocks ==
  \A t, u \in DOMAIN pool.m_transactions :
    t # u /\ (\/ KeyImagesOf(t) \cap KeyImagesOf(u) # {}
              \/ OutputsUsedBy(t) \cap OutputsUsedBy(u) # {})
      => pool.m_transactions[t].keptByBlock \/ pool.m_transactions[u].keptByBlock

\* A block made of the template is valid on the chain it was made for: what
\* is_transaction_ready_to_go remembers of earlier checks never lets a
\* transaction through that a reorganisation has made invalid.
TemplateMinable ==
  Settled /\ blockTemplate.filled /\ blockTemplate.previousBlockHash = getTailId(m_blocks)
    => BlockValid(m_blocks, blockTemplate.txs)

\* A transaction that expired is not taken from the network again before
\* numberOfPeriodsToForgetTxDeletedFromPool periods have passed.
DeletedStaysOut ==
  \A t \in DOMAIN pool.m_transactions \cap DOMAIN banned :
    t \notin KeptTxs => pool.m_transactions[t].receiveTime > banned[t] + forgetTime

=============================================================================
