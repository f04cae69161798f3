------------------------ MODULE SynchronizationState ------------------------
(***************************************************************************)
(* The block ids a consumer of the wallet has processed, from the genesis  *)
(* block on (SynchronizationState.cpp): m_blockchain.  Heights are block   *)
(* indexes, so m_blockchain[i] of the code is m_blockchain[i + 1] here.    *)
(***************************************************************************)
EXTENDS Integers, Sequences, FiniteSets, FiniteSetsExt

CONSTANT DenseHistory  \* 10: newest ids sent without a gap in a short history

\* The back offsets of a short history: the newest DenseHistory + 1 ids, then
\* gaps that double.
BackOffset[i \in Nat] ==
  IF i <= DenseHistory THEN i + 1 ELSE BackOffset[i - 1] + 2 ^ (i - DenseHistory)

\* Newest id first, the genesis block last.  Blocks above the height the daemon
\* reported last are left out.
getShortHistory(m_blockchain, localHeight) ==
  LET sz == Min({Len(m_blockchain), localHeight + 1})
      count == Max({n \in 0 .. sz : \A i \in 0 .. n - 1 : BackOffset[i] \in 1 .. sz - 1})
  IN [i \in 1 .. count |-> m_blockchain[sz - BackOffset[i - 1] + 1]]
       \o <<m_blockchain[1]>>

\* The first height at which the interval contradicts the consumer, if any, and
\* the first height from which it has blocks the consumer lacks.
checkInterval(m_blockchain, interval) ==
  LET intervalEnd == interval.startHeight + Len(interval.blocks)
      iterationEnd == Min({Len(m_blockchain), intervalEnd})
      differing == {i \in interval.startHeight .. iterationEnd - 1 :
                      m_blockchain[i + 1] # interval.blocks[i - interval.startHeight + 1]}
      detachRequired == differing # {}
      detachHeight == IF detachRequired THEN Min(differing) ELSE 0
  IN [detachRequired |-> detachRequired,
      detachHeight |-> detachHeight,
      hasNewBlocks |-> detachRequired \/ intervalEnd > Len(m_blockchain),
      newBlockHeight |-> IF detachRequired THEN detachHeight ELSE Len(m_blockchain)]

detach(m_blockchain, height) == SubSeq(m_blockchain, 1, height)

\* The blocks of the interval from newBlockHeight on.
NewBlocks(interval, newBlockHeight) ==
  SubSeq(interval.blocks, newBlockHeight - interval.startHeight + 1, Len(interval.blocks))
=============================================================================
