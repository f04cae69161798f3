-------------------------- MODULE TransactionStore --------------------------
(***************************************************************************)
(* What Blockchain.cpp keeps about the transactions of the main chain:     *)
(* where each one is, the key images spent, every output by amount, which  *)
(* multisignature outputs are used, and the deposit index.  Blocks are     *)
(* pushed and popped in any order the tree allows, so every reorganisation *)
(* and rollback is a behaviour of this module.                             *)
(*                                                                         *)
(* An output is named by its amount and its position among the outputs of  *)
(* that amount, so the same transaction may refer to different outputs on  *)
(* two branches.  Heights and positions count from 0, as in the code.      *)
(***************************************************************************)
EXTENDS Integers, Sequences, FiniteSets, SequencesExt

CONSTANTS
  Blocks, Txs, Genesis, Amounts,
  parent,         \* [Blocks \ {Genesis} -> Blocks]
  transactions,   \* [Blocks -> Seq(Txs)], the base transaction first
  inputs,         \* [Txs -> Seq of inputs]: type, amount, ...
  outputs,        \* [Txs -> Seq of outputs]: type, amount, key, term
  unlockTime,     \* [Txs -> Nat], as a height
  interest,       \* [Txs -> Nat]: calculateTotalTransactionInterest
  BadOutputs,     \* transactions that fail check_tx_outputs
  TooBig,         \* blocks that fail checkCumulativeBlockSize
  BadReward,      \* blocks that fail validate_miner_transaction
  lockedTxAllowedDeltaBlocks,
  MaxRestarts,    \* bound on restarts
  MaxRead         \* bound on the deposit entries read from a cut cache file

D == INSTANCE DepositIndex

ASSUME TreeAssumption ==
  /\ \A b \in Blocks \ {Genesis} : parent[b] \in Blocks
  /\ \A b \in Blocks : Len(transactions[b]) > 0 /\ Range(transactions[b]) \subseteq Txs
  /\ \A t \in Txs : \A o \in Range(outputs[t]) : o.amount \in Amounts

VARIABLES
  m_blocks,
  store,       \* the indices, as one record
  cacheFile,   \* what the last save left on disk
  restarts

vars == <<m_blocks, store, cacheFile, restarts>>

getTailId(c) == c[Len(c)]

\* The element of a singleton.  A set is evaluated where it is written, an
\* operator's argument only where it is used: folds nest less deeply in TLC.
Evaluated(singleton) == CHOOSE x \in singleton : TRUE
TxAt(c, ti) == transactions[c[ti.block + 1]][ti.transaction + 1]

\* The record of every index; broken is set where the code logs that the
\* blockchain's consistency is broken or that a double spend was pushed,
\* tainted when pushBlock is left without undoing its transactions.  The
\* global output indexes are stored with the blocks and survive a rebuild:
\* skewed says that a block was pushed onto a tainted store.
EmptyStore ==
  [m_transactionMap |-> << >>, m_spent_keys |-> {},
   m_outputs |-> [a \in Amounts |-> << >>],
   m_multisignatureOutputs |-> [a \in Amounts |-> << >>],
   m_global_output_indexes |-> << >>,
   m_depositIndex |-> D!NewDepositIndex,
   broken |-> FALSE, tainted |-> FALSE, skewed |-> FALSE]

-----------------------------------------------------------------------------
(* pushTransaction                                                         *)

KeyImagesOf(t) == {inputs[t][i].keyImage : i \in {k \in DOMAIN inputs[t] : inputs[t][k].type = "key"}}
MultisigInputs(t) == {i \in DOMAIN inputs[t] : inputs[t][i].type = "multisig"}
UsesOutput(t, a, n) ==
  \E i \in MultisigInputs(t) : inputs[t][i].amount = a /\ inputs[t][i].outputIndex = n

checkMultisignatureInputsDiff(t) ==
  \A i, j \in MultisigInputs(t) :
    i # j => <<inputs[t][i].amount, inputs[t][i].outputIndex>>
               # <<inputs[t][j].amount, inputs[t][j].outputIndex>>

KeyImagesNew(s, t) ==
  /\ KeyImagesOf(t) \cap s.m_spent_keys = {}
  /\ \A i, j \in DOMAIN inputs[t] :
       (i # j /\ inputs[t][i].type = "key" /\ inputs[t][j].type = "key")
         => inputs[t][i].keyImage # inputs[t][j].keyImage

\* Sets isUsed of every multisignature output that t spends.
SetUsed(s, t, used) ==
  [s EXCEPT !.m_multisignatureOutputs =
     [a \in Amounts |->
        [i \in DOMAIN s.m_multisignatureOutputs[a] |->
           IF UsesOutput(t, a, i - 1)
           THEN [s.m_multisignatureOutputs[a][i] EXCEPT !.isUsed = used]
           ELSE s.m_multisignatureOutputs[a][i]]]]

\* The outputs of t of one type and amount, in order.
OutputsOf(t, type, a) ==
  SelectSeq([o \in DOMAIN outputs[t] |-> o],
            LAMBDA o : outputs[t][o].type = type /\ outputs[t][o].amount = a)

\* Fault: only the outputs of earlier transactions are counted.
IndexIgnoringOwn(s, t, o) ==
  LET out == outputs[t][o]
  IN  Len(IF out.type = "key" THEN s.m_outputs[out.amount]
                              ELSE s.m_multisignatureOutputs[out.amount])

\* The position output o of t gets among the outputs of its amount.
GlobalIndex(s, t, o) ==
  LET out == outputs[t][o]
      earlier == {p \in 1 .. o - 1 : outputs[t][p].type = out.type /\ outputs[t][p].amount = out.amount}
  IN  Len(IF out.type = "key" THEN s.m_outputs[out.amount]
                              ELSE s.m_multisignatureOutputs[out.amount])
        + Cardinality(earlier)

\* Appends every output to the outputs of its type and amount.
AddOutputs(s, t, ti) ==
  [s EXCEPT
     !.m_outputs = [a \in Amounts |-> @[a] \o
        [n \in DOMAIN OutputsOf(t, "key", a) |->
           [ti |-> ti, output |-> OutputsOf(t, "key", a)[n] - 1]]],
     !.m_multisignatureOutputs = [a \in Amounts |-> @[a] \o
        [n \in DOMAIN OutputsOf(t, "multisig", a) |->
           [ti |-> ti, output |-> OutputsOf(t, "multisig", a)[n] - 1, isUsed |-> FALSE]]]]

\* The caller ignores the result, so a refusal leaves the store as it was.
pushTransaction(s, t, ti) ==
  IF \/ t \in DOMAIN s.m_transactionMap
     \/ ~checkMultisignatureInputsDiff(t)
     \/ ~KeyImagesNew(s, t)
  THEN [s EXCEPT !.broken = TRUE]
  ELSE AddOutputs(SetUsed([s EXCEPT !.m_transactionMap = (t :> ti) @@ @,
                                    !.m_spent_keys = @ \cup KeyImagesOf(t),
                                    !.m_global_output_indexes =
                                       (t :> [o \in DOMAIN outputs[t] |-> GlobalIndex(s, t, o)]) @@ @],
                          t, TRUE), t, ti)

-----------------------------------------------------------------------------
(* popTransaction                                                          *)

\* Takes the last output of the amount away, if it is the one expected.
RemoveOutput(s, t, ti, o) ==
  LET out  == outputs[t][o]
      list == IF out.type = "key" THEN s.m_outputs[out.amount]
                                  ELSE s.m_multisignatureOutputs[out.amount]
      last == list[Len(list)]
  IN  IF \/ list = << >>
         \/ out.type = "multisig" /\ last.isUsed
         \/ last.ti # ti
         \/ last.output # o - 1
      THEN [s EXCEPT !.broken = TRUE]
      ELSE IF out.type = "key"
      THEN [s EXCEPT !.m_outputs[out.amount] = Front(@)]
      ELSE [s EXCEPT !.m_multisignatureOutputs[out.amount] = Front(@)]

\* Fault: the outputs are removed first to last.
RemoveForwards(s, t) ==
  FoldLeft(LAMBDA x, o : RemoveOutput(x, t, s.m_transactionMap[t], o), s,
           [o \in 1 .. Len(outputs[t]) |-> o])

RemoveOutputs(s, t) ==
  FoldLeft(LAMBDA x, o : RemoveOutput(x, t, s.m_transactionMap[t], o), s,
           Reverse([o \in 1 .. Len(outputs[t]) |-> o]))

RemoveInputs(s, t) ==
  LET marked == \A i \in MultisigInputs(t) :
        s.m_multisignatureOutputs[inputs[t][i].amount][inputs[t][i].outputIndex + 1].isUsed
  IN  SetUsed([s EXCEPT !.m_spent_keys = @ \ KeyImagesOf(t),
                        !.broken = @ \/ ~(KeyImagesOf(t) \subseteq s.m_spent_keys) \/ ~marked],
              t, FALSE)

popTransaction(s, t) ==
  LET x == RemoveInputs(RemoveOutputs(s, t), t)
  IN  [x EXCEPT !.m_transactionMap = Restrict(@, DOMAIN @ \ {t}),
                !.m_global_output_indexes = Restrict(@, DOMAIN @ \ {t})]

\* Fault: the base transaction stays.
PopAllButBase(s, txs) == FoldLeft(popTransaction, s, Reverse(Tail(txs)))

\* Last to first, the base transaction at the end.
popTransactions(s, txs) ==
  FoldLeft(LAMBDA x, t : Evaluated({popTransaction(y, t) : y \in {x}}), s, Reverse(txs))

-----------------------------------------------------------------------------
(* checkTransactionInputs                                                  *)

is_tx_spendtime_unlocked(c, t) ==
  Len(c) - 1 + lockedTxAllowedDeltaBlocks >= unlockTime[t]

\* The verdict of the first element that is not fine.
FirstNotOk(status) ==
  LET notOk == {i \in DOMAIN status : status[i] # "ok"}
  IN  IF notOk = {} THEN "ok" ELSE status[Min(notOk)]

\* An output of a block that is not stored yet makes transactionByIndex throw.
check_tx_input(c, s, in) ==
  LET list == s.m_outputs[in.amount]
      scan(n) == IF n >= Len(list) THEN "bad"
                 ELSE IF list[n + 1].ti.block >= Len(c) THEN "throw"
                 ELSE IF is_tx_spendtime_unlocked(c, TxAt(c, list[n + 1].ti)) THEN "ok" ELSE "bad"
      keyAt(n) == outputs[TxAt(c, list[n + 1].ti)][list[n + 1].output + 1].key
      scanned == FirstNotOk([n \in DOMAIN in.ring |-> scan(n)])
  IN  IF in.keyImage \in s.m_spent_keys \/ DOMAIN in.ring = {} THEN "bad"
      ELSE IF scanned # "ok" THEN scanned
      ELSE IF in.ring = [n \in DOMAIN in.ring |-> keyAt(n)] THEN "ok" ELSE "bad"

\* Faults: the term is not awaited; a used output may be used again.
ValidateUnlocked(c, s, in) ==
  LET list == s.m_multisignatureOutputs[in.amount]
      u    == list[in.outputIndex + 1]
      out  == outputs[TxAt(c, u.ti)][u.output + 1]
  IN  IF in.outputIndex >= Len(list) \/ u.isUsed THEN "bad"
      ELSE IF u.ti.block >= Len(c) THEN "throw"
      ELSE IF in.term = out.term /\ in.key = out.key THEN "ok" ELSE "bad"

ValidateUsed(c, s, in) ==
  LET list == s.m_multisignatureOutputs[in.amount]
      u    == list[in.outputIndex + 1]
      out  == outputs[TxAt(c, u.ti)][u.output + 1]
  IN  IF in.outputIndex >= Len(list) THEN "bad"
      ELSE IF u.ti.block >= Len(c) THEN "throw"
      ELSE IF /\ is_tx_spendtime_unlocked(c, TxAt(c, u.ti))
              /\ in.term = out.term /\ in.key = out.key
              /\ out.term # 0 => u.ti.block + out.term <= Len(c)
      THEN "ok" ELSE "bad"

validateInput(c, s, in) ==
  LET list == s.m_multisignatureOutputs[in.amount]
      u    == list[in.outputIndex + 1]
      out  == outputs[TxAt(c, u.ti)][u.output + 1]
  IN  IF in.outputIndex >= Len(list) \/ u.isUsed THEN "bad"
      ELSE IF u.ti.block >= Len(c) THEN "throw"
      ELSE IF /\ is_tx_spendtime_unlocked(c, TxAt(c, u.ti))
              /\ in.term = out.term /\ in.key = out.key
              /\ out.term # 0 => u.ti.block + out.term <= Len(c)
      THEN "ok" ELSE "bad"

InputStatus(c, s, in) ==
  CASE in.type = "key"      -> check_tx_input(c, s, in)
    [] in.type = "multisig" -> validateInput(c, s, in)
    [] OTHER                -> "bad"

\* The outputs are looked at after the inputs.
checkTransactionInputs(c, s, t) ==
  LET checked == FirstNotOk([i \in DOMAIN inputs[t] |-> InputStatus(c, s, inputs[t][i])])
  IN  IF checked = "ok" /\ t \in BadOutputs THEN "bad" ELSE checked

-----------------------------------------------------------------------------
(* pushBlock, popBlock and the caches.                                     *)

SumOf(f) == FoldFunction(+, 0, f)

\* pushToDepositIndex: what one transaction adds to the deposits.
DepositOf(t) ==
  SumOf([o \in DOMAIN outputs[t] |->
           IF outputs[t][o].type = "multisig" /\ outputs[t][o].term > 0
           THEN outputs[t][o].amount ELSE 0])
  - SumOf([i \in DOMAIN inputs[t] |->
           IF inputs[t][i].type = "multisig" /\ inputs[t][i].term > 0
           THEN inputs[t][i].amount ELSE 0])

pushToDepositIndex(d, b) ==
  LET txs == transactions[b]
  IN  D!pushBlock(d, SumOf([i \in DOMAIN txs |-> DepositOf(txs[i])]),
                     SumOf([i \in DOMAIN txs |-> interest[txs[i]]]))

\* One transaction of a block: checked, then pushed; a bad one undoes the
\* transactions pushed before it.
PushNext(acc, i) ==
  LET t == acc.txs[i]
      status == checkTransactionInputs(m_blocks, acc.s, t)
  IN  IF acc.status # "ok" THEN acc
      ELSE IF status = "ok"
      THEN [acc EXCEPT !.s = pushTransaction(@, t, [block |-> Len(m_blocks), transaction |-> i - 1])]
      ELSE IF status = "bad"
      THEN [acc EXCEPT !.s = popTransactions(@, SubSeq(acc.txs, 1, i - 1)), !.status = "bad"]
      ELSE [acc EXCEPT !.status = "throw"]

PushAll(b) ==
  LET txs == transactions[b]
      base == pushTransaction(store, txs[1], [block |-> Len(m_blocks), transaction |-> 0])
  IN  FoldLeft(PushNext, [s |-> base, status |-> "ok", txs |-> txs],
               [i \in 1 .. Len(txs) - 1 |-> i + 1])

\* A block too big, like an exception, leaves its transactions in the indices.
pushBlock(b) ==
  /\ b # Genesis /\ parent[b] = getTailId(m_blocks)
  /\ \E all \in {PushAll(b)} :
       LET accepted == all.status = "ok" /\ b \notin TooBig \cup BadReward
       IN  /\ m_blocks' = IF accepted THEN Append(m_blocks, b) ELSE m_blocks
           /\ store' = IF accepted
                       THEN [all.s EXCEPT !.m_depositIndex = pushToDepositIndex(@, b),
                                          !.skewed = @ \/ store.tainted]
                       ELSE IF all.status = "bad" THEN all.s
                       ELSE IF all.status = "throw" \/ b \in TooBig
                       THEN [all.s EXCEPT !.tainted = TRUE]
                       ELSE popTransactions(all.s, transactions[b])
  /\ UNCHANGED <<cacheFile, restarts>>

popBlock ==
  /\ Len(m_blocks) > 1
  /\ m_blocks' = Front(m_blocks)
  /\ store' = [popTransactions(store, transactions[getTailId(m_blocks)])
                 EXCEPT !.m_depositIndex = D!popBlock(@)]
  /\ UNCHANGED <<cacheFile, restarts>>

RebuildTx(s, t, ti) ==
  AddOutputs(SetUsed([s EXCEPT !.m_transactionMap = @ @@ (t :> ti),
                               !.m_spent_keys = @ \cup KeyImagesOf(t)], t, TRUE), t, ti)

RebuildBlock(s, c, n) ==
  LET txs == transactions[c[n]]
      x == FoldLeft(LAMBDA y, i : RebuildTx(y, txs[i], [block |-> n - 1, transaction |-> i - 1]),
                    s, [i \in 1 .. Len(txs) |-> i])
  IN  [x EXCEPT !.m_depositIndex = pushToDepositIndex(@, c[n])]

\* Every index starts empty but the deposit index, which nothing clears.
rebuildCache(c, deposits) ==
  FoldLeft(LAMBDA s, n : Evaluated({RebuildBlock(x, c, n) : x \in {s}}),
           [EmptyStore EXCEPT !.m_depositIndex = deposits,
                              !.m_global_output_indexes = store.m_global_output_indexes,
                              !.skewed = store.skewed],
           [n \in 1 .. Len(c) |-> n])

\* init: a cache saved at this tail is read; when it ends early, what was
\* read of the deposit index stays and the rest is rebuilt.
Load(file) ==
  IF file.last_block = getTailId(m_blocks) /\ file.whole
  THEN [file.store EXCEPT !.m_global_output_indexes = store.m_global_output_indexes,
                          !.skewed = store.skewed]
  ELSE rebuildCache(m_blocks,
         IF file.last_block = getTailId(m_blocks) /\ file.read >= 0
         THEN D!load(D!NewDepositIndex, file.store.m_depositIndex, file.read)
         ELSE D!NewDepositIndex)

Saved(whole, n) ==
  [last_block |-> getTailId(m_blocks), store |-> store, whole |-> whole, read |-> n]

Start(file) ==
  /\ restarts < MaxRestarts
  /\ restarts' = restarts + 1
  /\ cacheFile' = file
  /\ store' = Load(file)
  /\ UNCHANGED m_blocks

\* A clean shutdown, a crash at any time, and a crash while the cache is
\* written: before the deposit index (-1), or after its count and n entries.
Restart == Start(Saved(TRUE, 0))
Crash == Start(cacheFile)
CrashInSave ==
  \E n \in -1 .. MaxRead :
    (n > 0 => n < Len(store.m_depositIndex.index)) /\ Start(Saved(FALSE, n))

Init ==
  /\ m_blocks = <<Genesis>>
  /\ store = [pushTransaction(EmptyStore, transactions[Genesis][1], [block |-> 0, transaction |-> 0])
               EXCEPT !.m_depositIndex = pushToDepositIndex(@, Genesis)]
  /\ cacheFile = [last_block |-> Genesis, store |-> EmptyStore, whole |-> FALSE, read |-> -1]
  /\ restarts = 0

Next ==
  \/ \E b \in Blocks : pushBlock(b)
  \/ popBlock
  \/ Restart
  \/ Crash
  \/ CrashInSave

Spec == Init /\ [][Next]_vars

-----------------------------------------------------------------------------
(* Properties of a store no push has tainted.                              *)

\* After any pushes, refused blocks, pops and restarts the indices are the ones
\* rebuildCache computes from the chain, the order of the outputs, the marks
\* of used ones and the deposit index included.
StoreMatchesChain ==
  ~store.tainted =>
    [store EXCEPT !.broken = FALSE] = rebuildCache(m_blocks, D!NewDepositIndex)

\* None of the branches that log "Blockchain consistency broken" in
\* popTransaction, or a double spend in pushTransaction, is ever taken.
ConsistencyNeverBroken == ~store.tainted => ~store.broken

\* The places in the chain where an output of an amount is spent.
Spenders(a, n) ==
  {<<k, i>> \in (1 .. Len(m_blocks)) \X (1 .. 8) :
     i <= Len(transactions[m_blocks[k]]) /\ UsesOutput(transactions[m_blocks[k]][i], a, n)}

\* A multisignature output is marked used exactly when one transaction of the
\* chain spends it, and no chain spends it twice.
UsedMeansSpentOnce ==
  ~store.tainted =>
    \A a \in Amounts : \A n \in DOMAIN store.m_multisignatureOutputs[a] :
      Cardinality(Spenders(a, n - 1)) =
        (IF store.m_multisignatureOutputs[a][n].isUsed THEN 1 ELSE 0)

\* The index noted with a transaction's output leads back to that output,
\* which is what wallets ask for through get_tx_outputs_gindexs.
GlobalIndexesPointBack ==
  ~store.tainted /\ ~store.skewed =>
    \A t \in DOMAIN store.m_transactionMap : \A o \in DOMAIN outputs[t] :
      LET list == IF outputs[t][o].type = "key" THEN store.m_outputs[outputs[t][o].amount]
                  ELSE store.m_multisignatureOutputs[outputs[t][o].amount]
          e == list[store.m_global_output_indexes[t][o] + 1]
      IN  e.ti = store.m_transactionMap[t] /\ e.output = o - 1

\* No chain holds a withdrawal of a deposit before its term has passed.
TermsAreServed ==
  ~store.tainted =>
    \A a \in Amounts : \A n \in DOMAIN store.m_multisignatureOutputs[a] :
      LET u == store.m_multisignatureOutputs[a][n]
          out == outputs[TxAt(m_blocks, u.ti)][u.output + 1]
      IN  \A x \in Spenders(a, n - 1) : out.term > 0 => x[1] - 1 >= u.ti.block + out.term

=============================================================================
