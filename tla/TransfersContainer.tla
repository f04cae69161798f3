------------------------- MODULE TransfersContainer -------------------------
(***************************************************************************)
(* TransfersContainer (src/Transfers/TransfersContainer.cpp): the outputs a *)
(* wallet address owns, and the transactions that made or spent them.  Every *)
(* method takes m_mutex for its whole body, so each is a function from a     *)
(* container to the container it leaves behind.  A method that throws is     *)
(* described by the condition under which it throws.                         *)
(*                                                                         *)
(* A container is a record:                                                *)
(*   transactions   m_transactions in the order of its height index         *)
(*   unconfirmed    m_unconfirmedTransfers                                  *)
(*   available      m_availableTransfers: output |-> blockHeight            *)
(*   spent          m_spentTransfers: output |-> blockHeight, spender, ...   *)
(*   jobs           m_transfersUnlockJobs: output |-> unlockHeight          *)
(*   height         m_currentHeight                                         *)
(* and, for the properties alone,                                          *)
(*   skipped        the inputs <<t, o>> that were passed over when t was     *)
(*                  added, o not being available                             *)
(***************************************************************************)
EXTENDS Integers, Sequences, SequencesExt, FiniteSetsExt, Functions, TLC

CONSTANTS
  Txs,                      \* transactions that touch the wallet
  Outs,                     \* outputs that belong to the wallet
  creator,                  \* [Outs -> Txs]
  inputs,                   \* [Txs -> SUBSET Outs], the wallet's outputs spent
  term,                     \* [Outs -> Nat], 0 for a key output
  transactionSpendableAge   \* SPEND_AGE

ASSUME ContainerConstants ==
  /\ creator \in [Outs -> Txs]
  /\ inputs \in [Txs -> SUBSET Outs]
  /\ term \in [Outs -> Nat]
  /\ transactionSpendableAge \in Nat

\* WALLET_LEGACY_UNCONFIRMED_TRANSACTION_HEIGHT: above every block height.
UNCONFIRMED == 1000000

EmptyContainer ==
  [transactions |-> <<>>, unconfirmed |-> {}, available |-> <<>>,
   spent |-> <<>>, jobs |-> <<>>, height |-> 0, skipped |-> {}]

OutputsOf(t) == {o \in Outs : creator[o] = t}
IsDeposit(o) == term[o] # 0
Without(f, S) == Restrict(f, DOMAIN f \ S)

Knows(c, t) == \E i \in DOMAIN c.transactions : c.transactions[i].hash = t
HeightOf(c, t) ==
  (CHOOSE e \in ToSet(c.transactions) : e.hash = t).blockHeight
IsUnconfirmed(c, t) == Knows(c, t) /\ HeightOf(c, t) = UNCONFIRMED

-----------------------------------------------------------------------------
(* Unlock jobs.                                                            *)

makeTransferUnlockJob(o, h) ==
  Max({h, h + term[o], h + transactionSpendableAge + 1})

addUnlockJob(c, o, h) ==
  [c EXCEPT !.jobs = (o :> makeTransferUnlockJob(o, h)) @@ @]

deleteUnlockJob(c, o) == [c EXCEPT !.jobs = Without(@, {o})]

\* The outputs whose jobs have from < unlockHeight <= to.
JobsBetween(c, from, to) ==
  {o \in DOMAIN c.jobs : from < c.jobs[o] /\ c.jobs[o] <= to}

\* Fault: the interval of heights is closed one block early.
UnlocksLate(c, prevHeight, currentHeight) ==
  JobsBetween(c, IF prevHeight = 0 THEN -1 ELSE prevHeight + 1, currentHeight)
getUnlockingTransfers(c, prevHeight, currentHeight) ==
  JobsBetween(c, IF prevHeight = 0 THEN -1 ELSE prevHeight + 1, currentHeight + 1)

getLockingTransfers(c, prevHeight, currentHeight) ==
  IF currentHeight > prevHeight
  THEN {} ELSE JobsBetween(c, currentHeight + 1, prevHeight + 1)

\* getAvailableOutput throws for a job whose output is not available.
getAvailableOutputThrows(c, S) == ~ S \subseteq DOMAIN c.available

isSpendTimeUnlocked(c, o) ==
  ~IsDeposit(o) \/ c.height + 1 >= c.available[o] + term[o]

\* IncludeStateUnlocked of isIncluded, and TransferAvailable of getTransfer.
IsUnlocked(c, o) ==
  /\ o \in DOMAIN c.available
  /\ isSpendTimeUnlocked(c, o)
  /\ c.height >= c.available[o] + transactionSpendableAge

-----------------------------------------------------------------------------
(* Adding, confirming and deleting one transaction.                        *)

\* The height index is ordered_non_unique: equal heights keep insertion order.
InsertByHeight(s, e) ==
  SelectSeq(s, LAMBDA x : x.blockHeight <= e.blockHeight) \o <<e>>
    \o SelectSeq(s, LAMBDA x : x.blockHeight > e.blockHeight)
EraseTransaction(s, t) == SelectSeq(s, LAMBDA x : x.hash # t)

addTransactionOutputs(c, t, h) ==
  IF h = UNCONFIRMED
  THEN [c EXCEPT !.unconfirmed = @ \cup OutputsOf(t)]
  ELSE FoldSet(LAMBDA o, acc : addUnlockJob([acc EXCEPT !.available = (o :> h) @@ @], o, h),
               c, OutputsOf(t))

copyToSpent(c, t, h, o) ==
  [c EXCEPT !.spent = (o :> [blockHeight |-> c.available[o], spender |-> t,
                             spendingHeight |-> h]) @@ @]

\* An input that spends no available output of the wallet is skipped.
addTransactionInputs(c, t, h) ==
  FoldSet(LAMBDA o, acc : [copyToSpent(deleteUnlockJob(acc, o), t, h, o)
                             EXCEPT !.available = Without(@, {o})],
          [c EXCEPT !.skipped = @ \cup ({t} \X (inputs[t] \ DOMAIN c.available))],
          inputs[t] \cap DOMAIN c.available)

addTransactionInputsThrows(c, t) ==
  \E o \in inputs[t] : ~IsDeposit(o) /\ (o \in DOMAIN c.spent \/ o \in c.unconfirmed)

doAdvanceHeight(c, h) == [c EXCEPT !.height = h]
doAdvanceHeightThrows(c, h) ==
  h < c.height \/ getAvailableOutputThrows(c, getUnlockingTransfers(c, c.height, h))

\* Outputs and inputs of t, before the height is advanced.
AddedTransfers(c, t, h) == addTransactionInputs(addTransactionOutputs(c, t, h), t, h)
IsAdded(c, t) == OutputsOf(t) # {} \/ inputs[t] \cap DOMAIN c.available # {}

addTransaction(c, t, h) ==
  LET filed == IF IsAdded(c, t)
               THEN [AddedTransfers(c, t, h) EXCEPT
                       !.transactions = InsertByHeight(@, [hash |-> t, blockHeight |-> h])]
               ELSE c
  IN  IF h = UNCONFIRMED THEN filed ELSE doAdvanceHeight(filed, h)

addTransactionThrows(c, t, h) ==
  \/ h < c.height
  \/ Knows(c, t)
  \/ h # UNCONFIRMED /\ \E o \in OutputsOf(t) :
       IsDeposit(o) /\ o \in DOMAIN c.available \cup DOMAIN c.spent
  \/ addTransactionInputsThrows(addTransactionOutputs(c, t, h), t)
  \/ h # UNCONFIRMED /\ doAdvanceHeightThrows(AddedTransfers(c, t, h), h)

\* Fault: the outputs the transaction spends keep the height they were spent at.
LeavesSpendingBlock(c, t, h) ==
  [addTransactionOutputs([c EXCEPT !.unconfirmed = @ \ OutputsOf(t)], t, h)
     EXCEPT !.transactions = InsertByHeight(EraseTransaction(@, t),
                                            [hash |-> t, blockHeight |-> h])]
markTransactionConfirmed(c, t, h) ==
  [addTransactionOutputs([c EXCEPT !.unconfirmed = @ \ OutputsOf(t)], t, h)
     EXCEPT !.transactions = InsertByHeight(EraseTransaction(@, t),
                                            [hash |-> t, blockHeight |-> h]),
            !.spent = [o \in DOMAIN @ |-> IF @[o].spender = t
                                          THEN [@[o] EXCEPT !.spendingHeight = h] ELSE @[o]]]

\* The deposit check of the confirmed outputs; globalIndices is left out.
markTransactionConfirmedThrows(c, t) ==
  \E o \in OutputsOf(t) \cap c.unconfirmed :
    IsDeposit(o) /\ o \in DOMAIN c.available \cup DOMAIN c.spent

\* What t spent is available again; what t made is forgotten.
deleteTransactionTransfers(c, t) ==
  LET unspent == {o \in DOMAIN c.spent : c.spent[o].spender = t}
      returned == FoldSet(LAMBDA o, acc : addUnlockJob(
                            [acc EXCEPT !.available = (o :> c.spent[o].blockHeight) @@ @],
                            o, c.spent[o].blockHeight),
                          [c EXCEPT !.spent = Without(@, unspent)], unspent)
      made == OutputsOf(t) \cap DOMAIN returned.available
  IN  FoldSet(LAMBDA o, acc : deleteUnlockJob(acc, o),
              [returned EXCEPT !.unconfirmed = @ \ OutputsOf(t),
                               !.skipped = {p \in @ : p[1] # t},
                               !.available = Without(@, made)], made)

DeleteTransaction(c, t) ==
  [deleteTransactionTransfers(c, t) EXCEPT !.transactions = EraseTransaction(@, t)]

deleteUnconfirmedTransaction(c, t) ==
  IF IsUnconfirmed(c, t) THEN DeleteTransaction(c, t) ELSE c

-----------------------------------------------------------------------------
(* Detaching the blocks from a height on: the height index is walked from   *)
(* its end; the walk stops at the first confirmed transaction below it.     *)

IsDetached(c, e, h) ==
  IF e.blockHeight = UNCONFIRMED
  THEN \E o \in DOMAIN c.spent : c.spent[o].spender = e.hash /\ c.spent[o].blockHeight >= h
  ELSE e.blockHeight >= h

\* Fault: the transfers of a detached transaction are left as they are.
DetachKeepsTransfers(c, h) ==
  LET detached == {e.hash : e \in {x \in ToSet(c.transactions) : IsDetached(c, x, h)}}
  IN  [container |-> [c EXCEPT !.transactions = SelectSeq(@, LAMBDA x : x.hash \notin detached)],
       deleted |-> SetToSeq(detached)]
DetachTransactions(c, h) ==
  FoldLeft(LAMBDA acc, e : IF IsDetached(acc.container, e, h)
                           THEN [container |-> DeleteTransaction(acc.container, e.hash),
                                 deleted |-> Append(acc.deleted, e.hash)]
                           ELSE acc,
           [container |-> c, deleted |-> <<>>], Reverse(c.transactions))

detach(c, h) ==
  [DetachTransactions(c, h).container EXCEPT !.height = IF h = 0 THEN 0 ELSE h - 1]
deletedTransactions(c, h) == DetachTransactions(c, h).deleted
lockedTransfers(c, h) == getLockingTransfers(detach(c, h), c.height, detach(c, h).height)
detachThrows(c, h) == getAvailableOutputThrows(detach(c, h), lockedTransfers(c, h))
=============================================================================
