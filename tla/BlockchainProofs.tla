-------------------------- MODULE BlockchainProofs --------------------------
(***************************************************************************)
(* Proofs about Blockchain, for every block tree, every set of             *)
(* transactions and every checkpoint table.                                *)
(***************************************************************************)
EXTENDS Blockchain, TLAPS, WellFoundedInduction

USE DEF Range

\* A set of naturals that is not empty has a least member.
LEMMA LeastNatural ==
  ASSUME NEW T, T \subseteq Nat, T # {}
  PROVE  \E x \in T : \A y \in T : x <= y
<1>1. PICK x \in T : \A y \in T : ~(<<y, x>> \in OpToRel(<, Nat))
  BY Zenon, NatLessThanWellFounded, WFMin
<1>2. ASSUME NEW y \in T PROVE ~(y < x)
  BY Zenon, <1>1, <1>2 DEF OpToRel
<1>3. ASSUME NEW y \in T PROVE x <= y
  BY <1>2
<1>4. QED
  BY <1>3

-----------------------------------------------------------------------------
(* Facts about the block tree and about chains.                            *)

\* The parent of a block is a block, and its ancestry is one shorter.
LEMMA ParentInTree ==
  ASSUME NEW b \in Blocks, b # Genesis
  PROVE  /\ Parent(b) \in Blocks
         /\ ancestry[b] = Append(ancestry[Parent(b)], Parent(b))
         /\ ancestry[b] \in Seq(Blocks)
         /\ Len(ancestry[b]) > 0
BY BlocksAssumption DEF IsBlockTree, Parent

\* The transactions of a block are transactions.
LEMMA TxsOfType == ASSUME NEW b \in Blocks PROVE TxsOf(b) \subseteq Txs
BY DataAssumption DEF TxsOf

\* The key images of transactions are key images.
LEMMA ImagesType == ASSUME NEW T \in SUBSET Txs PROVE ImagesOf(T) \subseteq KeyImages
BY DataAssumption DEF ImagesOf

\* The transactions of a chain are transactions.
LEMMA ChainTxsType == ASSUME NEW c \in Seq(Blocks) PROVE ChainTxs(c) \subseteq Txs
BY TxsOfType DEF ChainTxs

\* A block adds its transactions to those of the chain.
LEMMA ChainTxsAppend ==
  ASSUME NEW c \in Seq(Blocks), NEW b \in Blocks
  PROVE  ChainTxs(Append(c, b)) = ChainTxs(c) \cup TxsOf(b)
<1>1. /\ Append(c, b) \in Seq(Blocks)
      /\ DOMAIN Append(c, b) = DOMAIN c \cup {Len(c) + 1}
      /\ \A i \in DOMAIN c : Append(c, b)[i] = c[i]
      /\ Append(c, b)[Len(c) + 1] = b
  OBVIOUS
<1>2. ASSUME NEW t PROVE t \in ChainTxs(Append(c, b)) <=> t \in ChainTxs(c) \cup TxsOf(b)
  BY <1>1, Zenon DEF ChainTxs
<1>3. QED
  BY <1>2

\* Images distribute over the union of two sets of transactions.
LEMMA ImagesUnion ==
  ASSUME NEW S, NEW T
  PROVE  ImagesOf(S \cup T) = ImagesOf(S) \cup ImagesOf(T)
BY DEF ImagesOf

-----------------------------------------------------------------------------
(* Type correctness.                                                       *)

\* The part of TypeOK that pushBlock and popBlock write.
ChainTypeOK ==
  /\ m_blocks \in Seq(Blocks) /\ Len(m_blocks) >= 1
  /\ m_transactionMap \subseteq Txs
  /\ m_spent_keys \subseteq KeyImages
  /\ m_tx_pool \subseteq Txs

\* Wherever a reorganisation reads the next block of a list, there is one.
JobOK ==
  /\ job.pc \in {"disconnect", "connect"} => job.next \in 1 .. Len(job.alt)
  /\ job.pc \in {"reinsert", "undo", "restore"} => job.next \in 1 .. Len(job.old)
  /\ job.pc = "connect" => job.old # << >>

\* The last block of the chain is a block.
LEMMA TailType == ASSUME ChainTypeOK PROVE getTailId \in Blocks
BY DEF ChainTypeOK, getTailId

\* pushBlock keeps the types, whether it succeeds, fails or leaks.
LEMMA PushType ==
  ASSUME ChainTypeOK, NEW b \in Blocks, pushBlock(b)
  PROVE  ChainTypeOK'
<1>1. TxsOf(b) \subseteq Txs /\ ImagesOf(TxsOf(b)) \subseteq KeyImages
  BY TxsOfType, ImagesType
<1>2. CASE PushSucceeds(b)
  BY <1>1, <1>2 DEF ChainTypeOK, pushBlock
<1>3. CASE ~PushSucceeds(b) /\ PushLeaks(b)
  BY <1>1, <1>3 DEF ChainTypeOK, pushBlock
<1>4. CASE ~PushSucceeds(b) /\ ~PushLeaks(b)
  BY <1>4 DEF ChainTypeOK, pushBlock, chainVars
<1>5. QED
  BY <1>2, <1>3, <1>4

\* popBlock keeps the types while a block is left below the tail.
LEMMA PopType ==
  ASSUME ChainTypeOK, Len(m_blocks) > 1, popBlock
  PROVE  ChainTypeOK' /\ Len(m_blocks') = Len(m_blocks) - 1
<1>1. TxsOf(getTailId) \subseteq Txs
  BY TailType, TxsOfType
<1>2. m_blocks' \in Seq(Blocks) /\ Len(m_blocks') = Len(m_blocks) - 1
  BY DEF ChainTypeOK, popBlock
<1>3. QED
  BY <1>1, <1>2 DEF ChainTypeOK, popBlock

\* AltChain is the end of the path to the block, from some height on, and its
\* blocks are members of the container.
LEMMA AltChainShape ==
  ASSUME NEW b \in Blocks
  PROVE  \E stop \in 0 .. Len(ancestry[b]) :
           /\ AltChain(b) \in Seq(Blocks) /\ Len(AltChain(b)) = Len(ancestry[b]) - stop
           /\ \A i \in 1 .. Len(AltChain(b)) : /\ AltChain(b)[i] = ancestry[b][stop + i]
                                                /\ AltChain(b)[i] \in m_alternative_chains
<1> DEFINE a == ancestry[b]
           P(k) == /\ k > 0 => a[k] \notin m_alternative_chains
                   /\ \A i \in k + 1 .. Len(a) : a[i] \in m_alternative_chains
           stop == CHOOSE k \in 0 .. Len(a) : P(k)
<1>1. a \in Seq(Blocks)
  BY BlocksAssumption DEF IsBlockTree
<1>2. \E k \in 0 .. Len(a) : P(k)
  <2> DEFINE T == {n \in 0 .. Len(a) : Len(a) - n > 0 => a[Len(a) - n] \notin m_alternative_chains}
  <2>1. Len(a) \in Nat
    BY <1>1
  <2>2. Len(a) \in T /\ T \subseteq Nat
    BY <2>1
  <2>3. PICK n \in T : \A y \in T : n <= y
    <3> HIDE DEF T
    <3> QED BY Zenon, <2>2, LeastNatural
  <2>4. n \in 0 .. Len(a)
    OBVIOUS
  <2>5. ASSUME NEW i \in Len(a) - n + 1 .. Len(a), a[i] \notin m_alternative_chains
        PROVE  FALSE
    <3>1. Len(a) - i \in 0 .. Len(a) /\ Len(a) - (Len(a) - i) = i /\ Len(a) - i < n
      BY <2>1, <2>4
    <3>2. Len(a) - i \in T
      BY <2>5, <3>1
    <3>3. QED
      BY <2>1, <2>3, <2>4, <3>1, <3>2
  <2>6. P(Len(a) - n) /\ Len(a) - n \in 0 .. Len(a)
    BY <2>1, <2>4, <2>5
  <2>7. QED
    BY <2>6
<1>3. stop \in 0 .. Len(a) /\ P(stop)
  BY Zenon, <1>2
<1>4. AltChain(b) = SubSeq(a, stop + 1, Len(a))
  BY DEF AltChain
<1> HIDE DEF stop
<1>5. /\ AltChain(b) \in Seq(Blocks)
      /\ Len(AltChain(b)) = Len(a) - stop
      /\ \A i \in 1 .. Len(a) - stop : AltChain(b)[i] = a[stop + i]
  BY <1>1, <1>3, <1>4
<1>6. \A i \in 1 .. Len(AltChain(b)) : stop + i \in stop + 1 .. Len(a)
  BY <1>1, <1>3, <1>5
<1> stop \in 0 .. Len(ancestry[b])
  BY <1>3
<1> WITNESS stop \in 0 .. Len(ancestry[b])
<1>7. QED
  BY <1>1, <1>3, <1>5, <1>6

\* The alternative ancestors of a block are blocks, and members of the container.
LEMMA AltChainType ==
  ASSUME NEW b \in Blocks
  PROVE  /\ AltChain(b) \in Seq(Blocks)
         /\ \A i \in 1 .. Len(AltChain(b)) : AltChain(b)[i] \in m_alternative_chains
BY AltChainShape

\* What type correctness needs to be inductive.
TypeInv == TypeOK /\ JobOK

\* NoJob is a job.
LEMMA NoJobType == NoJob \in Job
BY DEF NoJob, Job, Chain

\* A reorganisation starts at the first block of a list that is not empty.
LEMMA SwitchToType ==
  ASSUME NEW b \in Blocks, AltAccepted(b)
  PROVE  /\ SwitchTo(b) \in Job
         /\ SwitchTo(b).pc = "disconnect"
         /\ SwitchTo(b).next \in 1 .. Len(SwitchTo(b).alt)
<1>1. ForkHeight(b) \in Nat \ {0}
  BY DEF AltAccepted, ConnectedToMain
<1>2. Append(AltChain(b), b) \in Seq(Blocks) /\ Len(Append(AltChain(b), b)) >= 1
  BY AltChainType
<1>3. BringsCheckpoint(b) \in BOOLEAN
  BY DEF BringsCheckpoint, is_a_checkpoint
<1>4. QED
  BY <1>1, <1>2, <1>3 DEF SwitchTo, Job, Chain

\* Initially the types are right.
LEMMA TypeInit == Init => TypeInv
BY NoJobType, BlocksAssumption
DEF Init, TypeInv, TypeOK, JobOK, IsBlockTree, NoJob, Chain

\* Every step keeps the types.
LEMMA TypeStep == TypeInv /\ [Next]_vars => TypeInv'
<1> SUFFICES ASSUME TypeInv, [Next]_vars PROVE TypeInv'
  OBVIOUS
<1>a. ChainTypeOK
  BY DEF TypeInv, TypeOK, ChainTypeOK, Chain
<1>1. ASSUME NEW b \in Blocks, addNewBlock(b) PROVE TypeInv'
  <2>1. CASE ~haveBlock(b) /\ Parent(b) = getTailId
    <3>1. ChainTypeOK'
      BY <1>a, <1>1, <2>1, PushType DEF addNewBlock
    <3>2. replica' \in Chain
      <4>1. replica' \in {replica, Append(replica, b)}
        BY <1>1, <2>1 DEF addNewBlock
      <4>2. replica \in Seq(Blocks) /\ Append(replica, b) \in Seq(Blocks)
        BY DEF TypeInv, TypeOK, Chain
      <4>3. QED
        BY <4>1, <4>2 DEF Chain
    <3>2a. UNCHANGED <<m_alternative_chains, job, envVars>>
      BY <1>1, <2>1 DEF addNewBlock
    <3>3. QED
      BY <3>1, <3>2, <3>2a DEF TypeInv, TypeOK, JobOK, ChainTypeOK, Chain, envVars
  <2>2. CASE ~haveBlock(b) /\ Parent(b) # getTailId
    <3>1. UNCHANGED <<chainVars, replica, envVars>>
      BY <1>1, <2>2 DEF addNewBlock, handle_alternative_block
    <3>2. CASE AltAccepted(b)
      <4>1. m_alternative_chains' \subseteq Blocks \ {Genesis}
        BY <1>1, <2>2, <3>2
        DEF addNewBlock, handle_alternative_block, AltAccepted, TypeInv, TypeOK
      <4>2. job' \in {SwitchTo(b), NoJob}
        BY <1>1, <2>2, <3>2 DEF addNewBlock, handle_alternative_block
      <4>3. job' \in Job /\ JobOK'
        <5>1. CASE job' = SwitchTo(b)
          BY <3>2, <5>1, SwitchToType DEF JobOK
        <5>2. CASE job' = NoJob
          BY <5>2, NoJobType DEF JobOK, NoJob
        <5>3. QED
          BY <4>2, <5>1, <5>2
      <4>4. QED
        BY <3>1, <4>1, <4>3 DEF TypeInv, TypeOK, chainVars, envVars
    <3>3. CASE ~AltAccepted(b)
      <4>1. UNCHANGED <<m_alternative_chains, job>>
        BY <1>1, <2>2, <3>3 DEF addNewBlock, handle_alternative_block
      <4>2. QED
        BY <3>1, <4>1 DEF TypeInv, TypeOK, JobOK, chainVars, envVars
    <3>4. QED
      BY <3>2, <3>3
  <2>3. CASE haveBlock(b)
    BY <1>1, <2>3 DEF addNewBlock, TypeInv, TypeOK, JobOK, chainVars, envVars
  <2>4. QED
    BY <2>1, <2>2, <2>3
<1>2. CASE Disconnect
  <2>1. ChainTypeOK' /\ job.split \in Nat \ {0} /\ getTailId \in Blocks
    BY <1>a, <1>2, PopType, TailType DEF Disconnect, TypeInv, TypeOK, Job, ChainTypeOK
  <2>2. job' \in Job /\ JobOK'
    <3>1. <<getTailId>> \o job.old \in Seq(Blocks) /\ <<getTailId>> \o job.old # << >>
      BY <2>1 DEF TypeInv, TypeOK, Job, Chain
    <3>2. PICK c \in {"connect", "disconnect"} :
            job' = [job EXCEPT !.old = <<getTailId>> \o job.old, !.pc = c]
      BY Zenon, <1>2 DEF Disconnect
    <3>3. QED
      BY Zenon, <1>2, <3>1, <3>2 DEF Disconnect, TypeInv, TypeOK, JobOK, Job, Chain
  <2>3. QED
    BY <1>2, <2>1, <2>2 DEF Disconnect, TypeInv, TypeOK, ChainTypeOK, Chain, envVars
<1>3. CASE PopFails
  <2>1. SavedBeforeThrow \subseteq Txs
    BY <1>a, TailType, DataAssumption DEF SavedBeforeThrow
  <2>2. QED
    BY <1>3, <2>1, NoJobType DEF PopFails, TypeInv, TypeOK, JobOK, NoJob, envVars
<1>4. CASE Connect
  <2>0. job \in Job
    BY DEF TypeInv, TypeOK
  <2>1. /\ job.next \in 1 .. Len(job.alt) /\ job.alt \in Seq(Blocks)
        /\ job.old \in Seq(Blocks) /\ Len(job.old) >= 1
    BY <1>4 DEF Connect, TypeInv, TypeOK, JobOK, Job, Chain
  <2>2. ChainTypeOK'
    BY <1>a, <1>4, <2>1, PushType DEF Connect
  <2>3. job' \in Job /\ JobOK'
    <3>1. CASE ~PushSucceeds(job.alt[job.next])
      <4>1. {job.alt[i] : i \in job.next .. Len(job.alt)} \subseteq Blocks
        BY <2>1
      <4>2. job' = [job EXCEPT !.pc = "undo", !.next = 1,
                      !.drop = {job.alt[i] : i \in job.next .. Len(job.alt)}]
        BY <1>4, <3>1 DEF Connect
      <4>3. job' \in Job /\ job'.pc = "undo" /\ job'.next = 1 /\ job'.old = job.old
        BY Zenon, <2>0, <4>1, <4>2 DEF Job
      <4>4. QED
        BY <2>1, <4>3 DEF JobOK
    <3>2. CASE PushSucceeds(job.alt[job.next]) /\ job.next < Len(job.alt)
      <4>1. job' = [job EXCEPT !.next = job.next + 1] /\ job.pc = "connect"
        BY <1>4, <3>2 DEF Connect
      <4>2. job.next + 1 \in Nat
        BY <2>0 DEF Job
      <4>3. /\ job' \in Job /\ job'.pc = "connect" /\ job'.next = job.next + 1
            /\ job'.old = job.old /\ job'.alt = job.alt
        BY <2>0, <4>1, <4>2 DEF Job
      <4>4. QED
        BY <2>1, <3>2, <4>3 DEF JobOK
    <3>3. CASE PushSucceeds(job.alt[job.next]) /\ ~(job.next < Len(job.alt))
      <4>1. PICK c \in {"finish", "reinsert"} : job' = [job EXCEPT !.pc = c, !.next = 1]
        BY Zenon, <1>4, <3>3 DEF Connect, AfterConnect
      <4>2. job' \in Job /\ job'.pc = c /\ job'.next = 1 /\ job'.old = job.old
        BY Zenon, <2>0, <4>1 DEF Job
      <4>3. QED
        BY <2>1, <4>2 DEF JobOK
    <3>4. QED
      BY <3>1, <3>2, <3>3
  <2>4. QED
    BY <1>4, <2>2, <2>3 DEF Connect, TypeInv, TypeOK, ChainTypeOK, Chain, envVars
<1>5. CASE Reinsert
  <2>1. job.next \in 1 .. Len(job.old) /\ job.old \in Seq(Blocks)
    BY <1>5 DEF Reinsert, TypeInv, TypeOK, JobOK, Job, Chain
  <2>2. m_alternative_chains' \subseteq Blocks \ {Genesis}
    BY <1>5, <2>1 DEF Reinsert, AltAccepted, TypeInv, TypeOK
  <2>3. job' \in Job /\ JobOK'
    <3>1. job \in Job /\ job.pc = "reinsert"
      BY <1>5 DEF Reinsert, TypeInv, TypeOK
    <3>2. \/ job.next < Len(job.old) /\ job' = [job EXCEPT !.next = job.next + 1]
          \/ job' = [job EXCEPT !.pc = "finish"]
          \/ job' = [job EXCEPT !.pc = "undo", !.next = 1]
      BY <1>5 DEF Reinsert
    <3>3. /\ job' \in Job
          /\ job'.old = job.old
          /\ \/ job'.pc = "finish"
             \/ job'.pc \in {"reinsert", "undo"} /\ job'.next \in 1 .. Len(job.old)
      <4>1. CASE job.next < Len(job.old) /\ job' = [job EXCEPT !.next = job.next + 1]
        BY <2>1, <3>1, <4>1 DEF Job
      <4>2. CASE job' = [job EXCEPT !.pc = "finish"]
        BY <3>1, <4>2 DEF Job
      <4>3. CASE job' = [job EXCEPT !.pc = "undo", !.next = 1]
        <5>1. job' \in Job /\ job'.old = job.old /\ job'.pc = "undo" /\ job'.next = 1
          BY Zenon, <3>1, <4>3 DEF Job
        <5>2. QED
          BY <2>1, <5>1
      <4>4. QED
        BY <3>2, <4>1, <4>2, <4>3
    <3>4. QED
      BY <3>3 DEF JobOK
  <2>4. QED
    BY <1>5, <2>2, <2>3 DEF Reinsert, TypeInv, TypeOK, chainVars, envVars
<1>6. CASE Finish
  <2>1. replica' \in Chain
    BY <1>6 DEF Finish, FirstN, TypeInv, TypeOK, Job, Chain
  <2>2. QED
    BY <1>6, <2>1, NoJobType DEF Finish, TypeInv, TypeOK, JobOK, NoJob, chainVars, envVars
<1>7. CASE Undo
  <2>1. CASE Len(m_blocks) > job.split
    <3>1. ChainTypeOK'
      BY <1>a, <1>7, <2>1, PopType DEF Undo, TypeInv, TypeOK, Job, ChainTypeOK
    <3>2. QED
      BY <1>7, <2>1, <3>1 DEF Undo, TypeInv, TypeOK, JobOK, ChainTypeOK, Chain, envVars
  <2>2. CASE ~(Len(m_blocks) > job.split)
    <3>1. job' \in Job /\ JobOK'
      BY <1>7, <2>2 DEF Undo, TypeInv, TypeOK, JobOK, Job
    <3>2. QED
      BY <1>7, <2>2, <3>1 DEF Undo, TypeInv, TypeOK, chainVars, envVars
  <2>3. QED
    BY <2>1, <2>2
<1>8. CASE Restore
  <2>1. job.next \in 1 .. Len(job.old) /\ job.old \in Seq(Blocks)
    BY <1>8 DEF Restore, TypeInv, TypeOK, JobOK, Job, Chain
  <2>2. ChainTypeOK'
    BY <1>a, <1>8, <2>1, PushType DEF Restore
  <2>3. job' \in Job /\ JobOK'
    <3>1. CASE job' = NoJob
      BY <3>1, NoJobType DEF JobOK, NoJob
    <3>2. CASE job.next < Len(job.old) /\ job' = [job EXCEPT !.next = job.next + 1]
      <4>1. job \in Job /\ job.pc = "restore"
        BY <1>8 DEF Restore, TypeInv, TypeOK
      <4>2. /\ job' \in Job /\ job'.pc = "restore" /\ job'.next = job.next + 1
            /\ job'.old = job.old
        BY <2>1, <3>2, <4>1 DEF Job
      <4>3. QED
        BY <2>1, <3>2, <4>2 DEF JobOK
    <3>3. QED
      BY <1>8, <3>1, <3>2 DEF Restore
  <2>4. m_alternative_chains' \subseteq Blocks \ {Genesis}
    BY <1>8 DEF Restore, TypeInv, TypeOK
  <2>5. QED
    BY <1>8, <2>2, <2>3, <2>4 DEF Restore, TypeInv, TypeOK, ChainTypeOK, Chain, envVars
<1>9. ASSUME NEW t \in Txs, RelayTx(t) \/ KeepTx(t) \/ ExpireTx(t) PROVE TypeInv'
  BY <1>9 DEF RelayTx, KeepTx, ExpireTx, TypeInv, TypeOK, JobOK, envVars
<1>10. CASE Tick
  BY <1>10 DEF Tick, TypeInv, TypeOK, JobOK, chainVars
<1>11. CASE Restart
  BY <1>a, <1>11, TailType DEF Restart, TypeInv, TypeOK, JobOK, chainVars
<1>12. CASE Crash
  <2>1. ChainTxs(m_blocks) \subseteq Txs /\ ImagesOf(ChainTxs(m_blocks)) \subseteq KeyImages
    BY <1>a, ChainTxsType, ImagesType DEF ChainTypeOK
  <2>2. QED
    BY <1>12, <2>1, NoJobType DEF Crash, TypeInv, TypeOK, JobOK, NoJob
<1>13. CASE UNCHANGED vars
  BY <1>13 DEF vars, chainVars, envVars, TypeInv, TypeOK, JobOK
<1>14. QED
  BY <1>1, <1>2, <1>3, <1>4, <1>5, <1>6, <1>7, <1>8, <1>9, <1>10, <1>11, <1>12, <1>13
  DEF Next, SwitchStep

\* Every variable of the node keeps a value of its kind, and a reorganisation
\* never reads past the end of its lists, whatever is delivered and however
\* the node crashes.
THEOREM TypeCorrect == Spec => []TypeOK
<1>1. TypeInv => TypeOK
  BY DEF TypeInv
<1>2. QED
  BY TypeInit, TypeStep, <1>1, PTL DEF Spec

-----------------------------------------------------------------------------
(* The ledger: m_blocks is a path of the tree, m_spent_keys covers the key *)
(* images of its transactions, and no key image occurs twice.  A pop needs *)
(* the last to keep the second, a push needs the second to keep the last,  *)
(* and a crash needs the first to trust a saved cache.                     *)

SpentCovers == ImagesOf(ChainTxs(m_blocks)) \subseteq m_spent_keys

PathTo(b) == Append(ancestry[b], b)

CacheCovers ==
  ImagesOf(ChainTxs(PathTo(cacheFile.last_block))) \subseteq cacheFile.spent_keys

Ledger    == ChainLinked /\ SpentCovers /\ NoDoubleSpend
LedgerInv == TypeInv /\ Ledger /\ CacheCovers

\* The key images of a transaction of the chain belong to the chain.
LEMMA ImagesOfChain ==
  ASSUME NEW c \in Seq(Blocks), NEW i \in DOMAIN c,
         NEW k \in DOMAIN transactionHashes[c[i]]
  PROVE  keyImages[transactionHashes[c[i]][k]] \subseteq ImagesOf(ChainTxs(c))
<1>1. transactionHashes[c[i]][k] \in ChainTxs(c)
  BY DEF ChainTxs, TxsOf
<1>2. QED
  BY <1>1 DEF ImagesOf

\* A key image of the chain belongs to one of its transactions.
LEMMA ChainOfImage ==
  ASSUME NEW c \in Seq(Blocks), NEW x \in ImagesOf(ChainTxs(c))
  PROVE  \E i \in DOMAIN c : \E k \in DOMAIN transactionHashes[c[i]] :
           x \in keyImages[transactionHashes[c[i]][k]]
<1>1. PICK t \in ChainTxs(c) : x \in keyImages[t]
  BY DEF ImagesOf
<1>2. PICK i \in DOMAIN c : t \in TxsOf(c[i])
  BY DEF ChainTxs
<1>3. PICK k \in DOMAIN transactionHashes[c[i]] : t = transactionHashes[c[i]][k]
  BY <1>2 DEF TxsOf
<1>4. QED
  BY <1>1, <1>3

\* A block that passes the checks of pushBlock extends a ledger to a ledger.
LEMMA PushLedger ==
  ASSUME ChainTypeOK, Ledger, NEW b \in Blocks, pushBlock(b)
  PROVE  Ledger'
<1>1. CASE PushSucceeds(b)
  <2>1. b # Genesis /\ Parent(b) = getTailId /\ InputsUnspent(b)
    BY <1>1 DEF PushSucceeds, PassesChecks
  <2>2. /\ m_blocks \in Seq(Blocks) /\ m_blocks' = Append(m_blocks, b)
        /\ m_spent_keys' = m_spent_keys \cup ImagesOf(TxsOf(b))
    BY <1>1 DEF ChainTypeOK, pushBlock
  <2>3. ChainLinked'
    <3>1. getTailId' = b
      BY <2>2 DEF getTailId
    <3>2. ancestry[b] = m_blocks
      BY <2>1, ParentInTree DEF Ledger, ChainLinked
    <3>3. QED
      BY <2>2, <3>1, <3>2 DEF ChainLinked
  <2>4. SpentCovers'
    <3>1. ImagesOf(ChainTxs(m_blocks')) = ImagesOf(ChainTxs(m_blocks)) \cup ImagesOf(TxsOf(b))
      BY <2>2, ChainTxsAppend, ImagesUnion
    <3>2. QED
      BY <2>2, <3>1 DEF Ledger, SpentCovers
  <2>5. NoDoubleSpend'
    <3> DEFINE n == Len(m_blocks)
               tx(i, k) == transactionHashes[m_blocks'[i]][k]
    <3>1. /\ DOMAIN m_blocks' = DOMAIN m_blocks \cup {n + 1}
          /\ \A i \in DOMAIN m_blocks : m_blocks'[i] = m_blocks[i]
          /\ m_blocks'[n + 1] = b /\ n + 1 \notin DOMAIN m_blocks
      BY <2>2
    <3>2. ASSUME NEW i \in DOMAIN m_blocks, NEW k \in DOMAIN transactionHashes[m_blocks[i]],
                 NEW l \in DOMAIN transactionHashes[b]
          PROVE  keyImages[transactionHashes[m_blocks[i]][k]]
                   \cap keyImages[transactionHashes[b][l]] = {}
      <4>1. keyImages[transactionHashes[m_blocks[i]][k]] \subseteq m_spent_keys
        BY <2>2, ImagesOfChain DEF Ledger, SpentCovers
      <4>2. keyImages[transactionHashes[b][l]] \cap m_spent_keys = {}
        BY Zenon, <2>1 DEF InputsUnspent
      <4>3. QED
        BY <4>1, <4>2
    <3>3. ASSUME NEW k \in DOMAIN transactionHashes[b], NEW l \in DOMAIN transactionHashes[b],
                 k # l
          PROVE  keyImages[transactionHashes[b][k]] \cap keyImages[transactionHashes[b][l]] = {}
      <4>1. transactionHashes[b] \in Seq(Txs)
        BY DataAssumption
      <4>2. ASSUME NEW p \in DOMAIN transactionHashes[b], NEW q \in DOMAIN transactionHashes[b],
                   p < q
            PROVE  keyImages[transactionHashes[b][p]] \cap keyImages[transactionHashes[b][q]] = {}
        <5>1. p \in 1 .. q - 1
          BY <4>1, <4>2
        <5>2. keyImages[transactionHashes[b][p]]
                \subseteq ImagesOf({transactionHashes[b][j] : j \in 1 .. q - 1})
          BY <5>1 DEF ImagesOf
        <5>3. keyImages[transactionHashes[b][q]]
                \cap ImagesOf({transactionHashes[b][j] : j \in 1 .. q - 1}) = {}
          BY <2>1 DEF InputsUnspent
        <5>4. QED
          BY Zenon, <5>2, <5>3
      <4>3. k < l \/ l < k
        BY <3>3, <4>1
      <4>4. QED
        BY <4>2, <4>3
    <3>4. SUFFICES ASSUME NEW i \in DOMAIN m_blocks', NEW j \in DOMAIN m_blocks',
                          NEW k \in DOMAIN transactionHashes[m_blocks'[i]],
                          NEW l \in DOMAIN transactionHashes[m_blocks'[j]],
                          <<i, k>> # <<j, l>>
                   PROVE  keyImages[tx(i, k)] \cap keyImages[tx(j, l)] = {}
      BY DEF NoDoubleSpend
    <3>5. CASE i \in DOMAIN m_blocks /\ j \in DOMAIN m_blocks
      <4>1. m_blocks'[i] = m_blocks[i] /\ m_blocks'[j] = m_blocks[j]
        BY <3>1, <3>5
      <4>2. NoDoubleSpend
        BY DEF Ledger
      <4>3. QED
        BY <3>4, <3>5, <4>1, <4>2, Zenon DEF NoDoubleSpend
    <3>6. CASE i \in DOMAIN m_blocks /\ j = n + 1
      BY Zenon, <3>1, <3>2, <3>6
    <3>7. CASE i = n + 1 /\ j \in DOMAIN m_blocks
      BY Zenon, <3>1, <3>2, <3>7
    <3>8. CASE i = n + 1 /\ j = n + 1
      BY <3>1, <3>3, <3>4, <3>8
    <3>9. QED
      BY <3>1, <3>5, <3>6, <3>7, <3>8
  <2>6. QED
    BY <2>3, <2>4, <2>5 DEF Ledger
<1>2. CASE ~PushSucceeds(b)
  <2>1. m_blocks' = m_blocks /\ m_spent_keys \subseteq m_spent_keys'
    BY <1>2 DEF pushBlock, chainVars
  <2>2. QED
    BY <2>1 DEF Ledger, ChainLinked, SpentCovers, NoDoubleSpend, getTailId
<1>3. QED
  BY <1>1, <1>2

\* popBlock leaves the path to the parent, and takes back no key image that
\* the rest of the chain spends.
LEMMA PopLedger ==
  ASSUME ChainTypeOK, Ledger, Len(m_blocks) > 1, popBlock
  PROVE  Ledger'
<1> DEFINE n == Len(m_blocks)
<1>1. /\ m_blocks \in Seq(Blocks) /\ n \in Nat /\ getTailId \in Blocks
      /\ m_blocks' = SubSeq(m_blocks, 1, n - 1)
      /\ m_spent_keys' = m_spent_keys \ ImagesOf(TxsOf(getTailId))
  BY TailType DEF ChainTypeOK, popBlock
<1>2. /\ m_blocks' \in Seq(Blocks)
      /\ DOMAIN m_blocks' = 1 .. n - 1 /\ DOMAIN m_blocks = 1 .. n
      /\ \A i \in 1 .. n - 1 : m_blocks'[i] = m_blocks[i]
  BY <1>1
<1>3. ChainLinked'
  <2>1. ancestry[getTailId] \in Seq(Blocks) /\ m_blocks = Append(ancestry[getTailId], getTailId)
    BY <1>1, BlocksAssumption DEF IsBlockTree, Ledger, ChainLinked
  <2>2. m_blocks' = ancestry[getTailId]
    BY <1>1, <2>1
  <2>3. getTailId # Genesis
    BY <2>1, BlocksAssumption DEF IsBlockTree
  <2>4. /\ ancestry[getTailId] = Append(ancestry[Parent(getTailId)], Parent(getTailId))
        /\ Len(ancestry[getTailId]) > 0 /\ Parent(getTailId) \in Blocks
    BY <1>1, <2>3, ParentInTree
  <2>5. getTailId' = Parent(getTailId)
    BY <2>2 DEF getTailId, Parent
  <2>6. QED
    BY <2>2, <2>4, <2>5 DEF ChainLinked
<1>4. SpentCovers'
  <2>1. ASSUME NEW x \in ImagesOf(ChainTxs(m_blocks')) PROVE x \in m_spent_keys'
    <3>1. PICK i \in 1 .. n - 1 : \E k \in DOMAIN transactionHashes[m_blocks[i]] :
                                   x \in keyImages[transactionHashes[m_blocks[i]][k]]
      <4>1. PICK i \in DOMAIN m_blocks' : \E k \in DOMAIN transactionHashes[m_blocks'[i]] :
                                           x \in keyImages[transactionHashes[m_blocks'[i]][k]]
        BY Zenon, <1>2, ChainOfImage
      <4>2. QED
        BY Zenon, <1>2, <4>1
    <3>2. PICK k \in DOMAIN transactionHashes[m_blocks[i]] :
                 x \in keyImages[transactionHashes[m_blocks[i]][k]]
      BY <3>1
    <3>3. x \in m_spent_keys
      BY <1>1, <1>2, <3>2, ImagesOfChain DEF Ledger, SpentCovers
    <3>4. ASSUME x \in ImagesOf(TxsOf(getTailId)) PROVE FALSE
      <4>1. PICK l \in DOMAIN transactionHashes[getTailId] :
                   x \in keyImages[transactionHashes[getTailId][l]]
        BY <3>4 DEF ImagesOf, TxsOf
      <4>2. getTailId = m_blocks[n] /\ n \in DOMAIN m_blocks /\ i \in DOMAIN m_blocks /\ i # n
        <5>1. i # n /\ i \in 1 .. n /\ n \in 1 .. n
          BY <1>1
        <5>2. QED
          BY Zenon, <1>2, <5>1 DEF getTailId
      <4>3. QED
        BY <3>2, <4>1, <4>2 DEF Ledger, NoDoubleSpend
    <3>5. QED
      BY <1>1, <3>3, <3>4
  <2>2. QED
    BY <2>1 DEF SpentCovers
<1>5. NoDoubleSpend'
  <2>1. ASSUME NEW i \in DOMAIN m_blocks' PROVE i \in DOMAIN m_blocks /\ m_blocks'[i] = m_blocks[i]
    BY <1>1, <1>2
  <2>2. NoDoubleSpend
    BY DEF Ledger
  <2>3. QED
    BY <2>1, <2>2, Zenon DEF NoDoubleSpend
<1>6. QED
  BY <1>3, <1>4, <1>5 DEF Ledger

\* What a step can do to the chain: push, pop, nothing, or start the node again.
LEMMA StepOnChain ==
  ASSUME TypeInv, [Next]_vars
  PROVE  \/ \E b \in Blocks : pushBlock(b) /\ UNCHANGED cacheFile
         \/ Len(m_blocks) > 1 /\ popBlock /\ UNCHANGED cacheFile
         \/ UNCHANGED <<m_blocks, m_transactionMap, m_spent_keys, cacheFile>>
         \/ Restart
         \/ Crash
<1>1. ASSUME NEW b \in Blocks, addNewBlock(b)
      PROVE  \/ pushBlock(b) /\ UNCHANGED cacheFile
             \/ UNCHANGED <<m_blocks, m_transactionMap, m_spent_keys, cacheFile>>
  BY <1>1 DEF addNewBlock, handle_alternative_block, chainVars, envVars
<1>2. ASSUME Disconnect \/ (Undo /\ Len(m_blocks) > job.split)
      PROVE  Len(m_blocks) > 1 /\ popBlock /\ UNCHANGED cacheFile
  BY <1>2 DEF Disconnect, Undo, envVars, TypeInv, TypeOK, Job, Chain
<1>3. ASSUME PopFails \/ Reinsert \/ Finish \/ (Undo /\ ~(Len(m_blocks) > job.split))
      PROVE  UNCHANGED <<m_blocks, m_transactionMap, m_spent_keys, cacheFile>>
  BY Zenon, <1>3 DEF PopFails, Reinsert, Finish, Undo, chainVars, envVars
<1>4. ASSUME Connect PROVE \E b \in Blocks : pushBlock(b) /\ UNCHANGED cacheFile
  <2>1. job.alt[job.next] \in Blocks
    BY <1>4 DEF Connect, TypeInv, TypeOK, JobOK, Job, Chain
  <2>2. QED
    BY <1>4, <2>1 DEF Connect, envVars
<1>5. ASSUME Restore PROVE \E b \in Blocks : pushBlock(b) /\ UNCHANGED cacheFile
  <2>1. job.old[job.next] \in Blocks
    BY <1>5 DEF Restore, TypeInv, TypeOK, JobOK, Job, Chain
  <2>2. QED
    BY <1>5, <2>1 DEF Restore, envVars
<1>6. ASSUME Tick \/ \E t \in Txs : RelayTx(t) \/ KeepTx(t) \/ ExpireTx(t)
      PROVE  UNCHANGED <<m_blocks, m_transactionMap, m_spent_keys, cacheFile>>
  BY <1>6 DEF Tick, RelayTx, KeepTx, ExpireTx, chainVars, envVars
<1>7. ASSUME UNCHANGED vars
      PROVE  UNCHANGED <<m_blocks, m_transactionMap, m_spent_keys, cacheFile>>
  BY <1>7 DEF vars, chainVars, envVars
<1>8. QED
  BY <1>1, <1>2, <1>3, <1>4, <1>5, <1>6, <1>7 DEF Next, SwitchStep

\* Initially the chain is the genesis block, which has no transaction.
LEMMA LedgerInit == Init => LedgerInv
<1> SUFFICES ASSUME Init PROVE LedgerInv
  OBVIOUS
<1>1. m_blocks = <<Genesis>> /\ Genesis \in Blocks /\ transactionHashes[Genesis] = << >>
  BY BlocksAssumption, DataAssumption DEF Init, IsBlockTree
<1>2. getTailId = Genesis /\ PathTo(Genesis) = <<Genesis>>
  BY <1>1, BlocksAssumption DEF getTailId, PathTo, IsBlockTree
<1>3. ChainTxs(<<Genesis>>) = {} /\ ImagesOf(ChainTxs(<<Genesis>>)) = {}
  BY <1>1 DEF ChainTxs, TxsOf, ImagesOf
<1>4. ChainLinked /\ SpentCovers /\ CacheCovers
  BY Zenon, <1>1, <1>2, <1>3 DEF Init, ChainLinked, SpentCovers, CacheCovers, PathTo
<1>5. NoDoubleSpend
  BY <1>1 DEF NoDoubleSpend
<1>6. QED
  BY <1>4, <1>5, TypeInit DEF LedgerInv, Ledger

\* Every step keeps the ledger.
LEMMA LedgerStep == LedgerInv /\ [Next]_vars => LedgerInv'
<1> SUFFICES ASSUME LedgerInv, [Next]_vars PROVE LedgerInv'
  OBVIOUS
<1>1. TypeInv /\ TypeInv' /\ Ledger /\ CacheCovers /\ ChainTypeOK
  BY TypeStep DEF LedgerInv, TypeInv, TypeOK, ChainTypeOK, Chain
<1>2. CASE \E b \in Blocks : pushBlock(b) /\ UNCHANGED cacheFile
  BY <1>1, <1>2, PushLedger DEF LedgerInv, CacheCovers
<1>3. CASE Len(m_blocks) > 1 /\ popBlock /\ UNCHANGED cacheFile
  BY <1>1, <1>3, PopLedger DEF LedgerInv, CacheCovers
<1>4. CASE UNCHANGED <<m_blocks, m_transactionMap, m_spent_keys, cacheFile>>
  BY <1>1, <1>4
  DEF LedgerInv, CacheCovers, Ledger, ChainLinked, SpentCovers, NoDoubleSpend, getTailId
<1>5. CASE Restart
  <2>1. /\ UNCHANGED <<m_blocks, m_spent_keys>>
        /\ cacheFile'.last_block = getTailId /\ cacheFile'.spent_keys = m_spent_keys
    BY <1>5 DEF Restart, chainVars
  <2>2. CacheCovers'
    BY <1>1, <2>1 DEF CacheCovers, PathTo, Ledger, ChainLinked, SpentCovers
  <2>3. ChainLinked' /\ SpentCovers'
    BY <1>1, <2>1 DEF Ledger, ChainLinked, SpentCovers, getTailId
  <2>4. NoDoubleSpend'
    BY <1>1, <2>1 DEF Ledger, NoDoubleSpend
  <2>5. QED
    BY <1>1, <2>2, <2>3, <2>4 DEF LedgerInv, Ledger
<1>6. CASE Crash
  <2>1. SpentCovers'
    <3>1. CASE cacheFile.last_block = getTailId
      BY <1>1, <1>6, <3>1 DEF Crash, CacheCovers, PathTo, Ledger, ChainLinked, SpentCovers
    <3>2. CASE cacheFile.last_block # getTailId
      BY <1>6, <3>2 DEF Crash, SpentCovers
    <3>3. QED
      BY <3>1, <3>2
  <2>2. UNCHANGED <<m_blocks, cacheFile>>
    BY <1>6 DEF Crash
  <2>3. ChainLinked' /\ CacheCovers'
    BY <1>1, <2>2 DEF Ledger, ChainLinked, CacheCovers, getTailId
  <2>4. NoDoubleSpend'
    BY <1>1, <2>2 DEF Ledger, NoDoubleSpend
  <2>5. QED
    BY <1>1, <2>1, <2>3, <2>4 DEF LedgerInv, Ledger
<1>7. QED
  BY <1>1, <1>2, <1>3, <1>4, <1>5, <1>6, StepOnChain

\* m_blocks is at every moment the path from the genesis block to its last
\* block: no reorganisation, rollback, exception or crash tears it.
THEOREM ChainIsPath == Spec => []ChainLinked
<1>1. LedgerInv => ChainLinked
  BY DEF LedgerInv, Ledger
<1>2. QED
  BY LedgerInit, LedgerStep, <1>1, PTL DEF Spec

\* No key image is ever spent twice in the main chain, for any block tree,
\* any order of delivery and any crash: not even the transactions that an
\* oversized block leaves in the indices can bring that about.
THEOREM KeyImagesSpentOnce == Spec => []NoDoubleSpend
<1>1. LedgerInv => NoDoubleSpend
  BY DEF LedgerInv, Ledger
<1>2. QED
  BY LedgerInit, LedgerStep, <1>1, PTL DEF Spec

-----------------------------------------------------------------------------
(* The indices are exact while no block is found too big after its         *)
(* transactions were pushed.                                               *)

CacheExact ==
  LET c == ChainTxs(PathTo(cacheFile.last_block))
  IN  cacheFile.transactions = c /\ cacheFile.spent_keys = ImagesOf(c)

Exact    == TooBig = {} => IndexesMatchChain /\ CacheExact
ExactInv == LedgerInv /\ Exact

\* Taking back the last block takes back exactly what it added.
LEMMA PopExact ==
  ASSUME ChainTypeOK, Ledger, IndexesMatchChain, Len(m_blocks) > 1, popBlock
  PROVE  IndexesMatchChain'
<1> DEFINE c == m_blocks'
           b == getTailId
<1>1. /\ c \in Seq(Blocks) /\ b \in Blocks /\ m_blocks = Append(c, b)
      /\ DOMAIN c = 1 .. Len(m_blocks) - 1
      /\ \A i \in DOMAIN c : c[i] = m_blocks[i] /\ i \in DOMAIN m_blocks /\ i # Len(m_blocks)
      /\ b = m_blocks[Len(m_blocks)] /\ Len(m_blocks) \in DOMAIN m_blocks
  <2>1. /\ m_blocks \in Seq(Blocks) /\ Len(m_blocks) \in Nat
        /\ c = SubSeq(m_blocks, 1, Len(m_blocks) - 1)
    BY DEF ChainTypeOK, popBlock
  <2>2. QED
    BY <2>1, TailType DEF getTailId
<1>2. /\ ChainTxs(m_blocks) = ChainTxs(c) \cup TxsOf(b)
      /\ ImagesOf(ChainTxs(m_blocks)) = ImagesOf(ChainTxs(c)) \cup ImagesOf(TxsOf(b))
  BY <1>1, ChainTxsAppend, ImagesUnion
<1>3. ASSUME NEW x \in ImagesOf(ChainTxs(c)), x \in ImagesOf(TxsOf(b)) PROVE FALSE
  <2>1. PICK i \in DOMAIN c : \E k \in DOMAIN transactionHashes[c[i]] :
                               x \in keyImages[transactionHashes[c[i]][k]]
    BY Zenon, <1>1, ChainOfImage
  <2>2. PICK k \in DOMAIN transactionHashes[m_blocks[i]] :
               x \in keyImages[transactionHashes[m_blocks[i]][k]]
    BY <1>1, <2>1
  <2>3. PICK l \in DOMAIN transactionHashes[b] : x \in keyImages[transactionHashes[b][l]]
    BY <1>3 DEF ImagesOf, TxsOf
  <2>4. QED
    BY Zenon, <1>1, <2>2, <2>3 DEF Ledger, NoDoubleSpend
<1>4. ASSUME NEW t \in ChainTxs(c), t \in TxsOf(b) PROVE FALSE
  <2>1. t \in Txs /\ keyImages[t] # {}
    BY <1>1, ChainTxsType, DataAssumption
  <2>2. keyImages[t] \subseteq ImagesOf(ChainTxs(c)) /\ keyImages[t] \subseteq ImagesOf(TxsOf(b))
    BY <1>4 DEF ImagesOf
  <2>3. QED
    BY <1>3, <2>1, <2>2
<1>5. /\ m_transactionMap' = ChainTxs(m_blocks) \ TxsOf(b)
      /\ m_spent_keys' = ImagesOf(ChainTxs(m_blocks)) \ ImagesOf(TxsOf(b))
  BY DEF popBlock, IndexesMatchChain
<1> HIDE DEF c, b
<1>6. m_transactionMap' = ChainTxs(c) /\ m_spent_keys' = ImagesOf(ChainTxs(c))
  BY <1>2, <1>3, <1>4, <1>5
<1>7. QED
  BY <1>6 DEF IndexesMatchChain, c

\* A push adds exactly the transactions of the block, or nothing.
LEMMA PushExact ==
  ASSUME ChainTypeOK, TooBig = {}, IndexesMatchChain, NEW b \in Blocks, pushBlock(b)
  PROVE  IndexesMatchChain'
<1>1. CASE PushSucceeds(b)
  <2>1. /\ m_blocks \in Seq(Blocks) /\ m_blocks' = Append(m_blocks, b)
        /\ m_transactionMap' = m_transactionMap \cup TxsOf(b)
        /\ m_spent_keys' = m_spent_keys \cup ImagesOf(TxsOf(b))
    BY <1>1 DEF pushBlock, ChainTypeOK
  <2>2. QED
    BY <2>1, ChainTxsAppend, ImagesUnion DEF IndexesMatchChain
<1>2. CASE ~PushSucceeds(b)
  BY <1>2 DEF pushBlock, PushLeaks, chainVars, IndexesMatchChain
<1>3. QED
  BY <1>1, <1>2

\* Every step keeps the indices exact.
LEMMA ExactStep == ExactInv /\ [Next]_vars => ExactInv'
<1> SUFFICES ASSUME ExactInv, [Next]_vars, TooBig = {} PROVE IndexesMatchChain' /\ CacheExact'
  BY LedgerStep DEF ExactInv, Exact
<1>1. /\ TypeInv /\ Ledger /\ ChainTypeOK
      /\ IndexesMatchChain /\ CacheExact
      /\ m_blocks = PathTo(getTailId)
  BY DEF ExactInv, Exact, LedgerInv, Ledger, ChainLinked, PathTo, TypeInv, TypeOK,
         ChainTypeOK, Chain
<1>2. CASE \E b \in Blocks : pushBlock(b) /\ UNCHANGED cacheFile
  BY <1>1, <1>2, PushExact DEF CacheExact
<1>3. CASE Len(m_blocks) > 1 /\ popBlock /\ UNCHANGED cacheFile
  BY <1>1, <1>3, PopExact DEF CacheExact
<1>4. CASE UNCHANGED <<m_blocks, m_transactionMap, m_spent_keys, cacheFile>>
  BY <1>1, <1>4 DEF CacheExact, IndexesMatchChain
<1>5. CASE Restart
  BY <1>1, <1>5 DEF Restart, chainVars, CacheExact, IndexesMatchChain
<1>6. CASE Crash
  BY <1>1, <1>6 DEF Crash, CacheExact, IndexesMatchChain
<1>7. QED
  BY <1>1, <1>2, <1>3, <1>4, <1>5, <1>6, StepOnChain

\* Provided no block exceeds the cumulative size limit, m_transactionMap and
\* m_spent_keys are at every moment, and after every crash, what rebuildCache
\* would compute from m_blocks.
THEOREM IndexesExact == Spec => [](TooBig = {} => IndexesMatchChain)
<1>1. Init => ExactInv
  <2> SUFFICES ASSUME Init PROVE Exact
    BY LedgerInit DEF ExactInv
  <2>1. /\ m_blocks = <<Genesis>> /\ PathTo(Genesis) = <<Genesis>>
        /\ transactionHashes[Genesis] = << >>
    BY BlocksAssumption, DataAssumption DEF Init, PathTo, IsBlockTree
  <2>2. ChainTxs(<<Genesis>>) = {} /\ ImagesOf({}) = {}
    BY <2>1 DEF ChainTxs, TxsOf, ImagesOf
  <2>3. QED
    BY Zenon, <2>1, <2>2 DEF Init, Exact, IndexesMatchChain, CacheExact
<1>2. ExactInv => (TooBig = {} => IndexesMatchChain)
  BY DEF ExactInv, Exact
<1>3. QED
  BY <1>1, <1>2, ExactStep, PTL DEF Spec

-----------------------------------------------------------------------------
(* Checkpoints.                                                            *)

\* Every step leaves the right block at the height of every checkpoint.
LEMMA CheckpointStep ==
  TypeInv /\ CheckpointsHold /\ [Next]_vars => CheckpointsHold'
<1> SUFFICES ASSUME TypeInv, CheckpointsHold, [Next]_vars PROVE CheckpointsHold'
  OBVIOUS
<1>1. m_blocks \in Seq(Blocks)
  BY DEF TypeInv, TypeOK, Chain
<1>2. ASSUME NEW b \in Blocks, pushBlock(b) PROVE CheckpointsHold'
  <2>1. CASE PushSucceeds(b)
    <3>1. check_block(Len(m_blocks), b)
      <4>1. is_in_checkpoint_zone(Len(m_blocks)) => check_block(Len(m_blocks), b)
        BY <2>1 DEF PushSucceeds, PassesChecks
      <4>2. is_a_checkpoint(Len(m_blocks)) => is_in_checkpoint_zone(Len(m_blocks))
        BY <1>1 DEF is_a_checkpoint, is_in_checkpoint_zone
      <4>3. QED
        BY <4>1, <4>2 DEF check_block
    <3>2. /\ DOMAIN m_blocks' = DOMAIN m_blocks \cup {Len(m_blocks) + 1}
          /\ \A i \in DOMAIN m_blocks : m_blocks'[i] = m_blocks[i]
          /\ m_blocks'[Len(m_blocks) + 1] = b
          /\ Len(m_blocks) + 1 - 1 = Len(m_blocks)
      BY <1>1, <1>2, <2>1 DEF pushBlock
    <3>3. QED
      BY <3>1, <3>2 DEF CheckpointsHold
  <2>2. CASE ~PushSucceeds(b)
    BY <1>2, <2>2 DEF pushBlock, chainVars, CheckpointsHold
  <2>3. QED
    BY <2>1, <2>2
<1>3. ASSUME Len(m_blocks) > 1, popBlock PROVE CheckpointsHold'
  <2>1. \A i \in DOMAIN m_blocks' : i \in DOMAIN m_blocks /\ m_blocks'[i] = m_blocks[i]
    BY <1>1, <1>3 DEF popBlock
  <2>2. QED
    BY <2>1 DEF CheckpointsHold
<1>4. ASSUME UNCHANGED m_blocks PROVE CheckpointsHold'
  BY <1>4 DEF CheckpointsHold
<1>5. QED
  BY <1>2, <1>3, <1>4, StepOnChain DEF Restart, Crash, chainVars

\* The main chain never holds another block at the height of a checkpoint,
\* on any branch a reorganisation brings in.
THEOREM CheckpointsRespected == Spec => []CheckpointsHold
<1>1. Init => CheckpointsHold
  BY ParameterAssumption DEF Init, CheckpointsHold, check_block, is_a_checkpoint
<1>2. QED
  BY <1>1, TypeInit, TypeStep, CheckpointStep, PTL DEF Spec

-----------------------------------------------------------------------------
(* Transactions.                                                           *)

\* A block pushed keeps every transaction of the node, in the chain or in the
\* pool, and so does one that fails or leaks.
LEMMA PushConserves ==
  ASSUME ChainTypeOK, NEW b \in Blocks, pushBlock(b)
  PROVE  ChainTxs(m_blocks) \cup m_tx_pool \subseteq ChainTxs(m_blocks') \cup m_tx_pool'
<1>1. CASE PushSucceeds(b)
  <2>1. ChainTxs(m_blocks') = ChainTxs(m_blocks) \cup TxsOf(b)
    BY Zenon, <1>1, ChainTxsAppend DEF pushBlock, ChainTypeOK
  <2>2. QED
    BY <1>1, <2>1 DEF pushBlock
<1>2. CASE ~PushSucceeds(b)
  BY <1>2 DEF pushBlock, chainVars
<1>3. QED
  BY <1>1, <1>2

\* The transactions of a popped block are in the pool.
LEMMA PopConserves ==
  ASSUME ChainTypeOK, Len(m_blocks) > 1, popBlock
  PROVE  ChainTxs(m_blocks) \cup m_tx_pool \subseteq ChainTxs(m_blocks') \cup m_tx_pool'
<1>1. /\ \A i \in DOMAIN m_blocks : i # Len(m_blocks) =>
                                      i \in DOMAIN m_blocks' /\ m_blocks'[i] = m_blocks[i]
      /\ m_tx_pool' = m_tx_pool \cup TxsOf(m_blocks[Len(m_blocks)])
  BY DEF popBlock, ChainTypeOK, getTailId
<1>2. QED
  BY <1>1 DEF ChainTxs

\* No step but an expiry or a crash loses a transaction: addNewBlock, every
\* step of a reorganisation and of its rollback, a pop that throws and a clean
\* restart leave it in the main chain or in the pool.
THEOREM NothingLost == Spec => TransactionsConserved
<1> DEFINE Conserved == \/ ChainTxs(m_blocks) \cup m_tx_pool
                             \subseteq ChainTxs(m_blocks') \cup m_tx_pool'
                        \/ \E t \in Txs : ExpireTx(t)
                        \/ Crash
<1>1. TypeInv /\ [Next]_vars => [Conserved]_vars
  <2> SUFFICES ASSUME TypeInv, Next PROVE Conserved
    OBVIOUS
  <2>0. ChainTypeOK
    BY DEF TypeInv, TypeOK, ChainTypeOK, Chain
  <2>1. ASSUME NEW b \in Blocks, addNewBlock(b) PROVE Conserved
    BY <2>0, <2>1, PushConserves DEF addNewBlock, handle_alternative_block, chainVars
  <2>2. CASE Disconnect \/ (Undo /\ Len(m_blocks) > job.split)
    <3>1. Len(m_blocks) > 1 /\ popBlock
      BY <2>2 DEF Disconnect, Undo, TypeInv, TypeOK, Job, Chain
    <3>2. QED
      BY <2>0, <3>1, PopConserves
  <2>3. CASE PopFails \/ Reinsert \/ Finish \/ (Undo /\ ~(Len(m_blocks) > job.split))
    BY Zenon, <2>3 DEF PopFails, Reinsert, Finish, Undo, chainVars
  <2>4. CASE Connect
    <3>1. job.alt[job.next] \in Blocks
      BY <2>4 DEF Connect, TypeInv, TypeOK, JobOK, Job, Chain
    <3>2. QED
      BY <2>0, <2>4, <3>1, PushConserves DEF Connect
  <2>5. CASE Restore
    <3>1. job.old[job.next] \in Blocks
      BY <2>5 DEF Restore, TypeInv, TypeOK, JobOK, Job, Chain
    <3>2. QED
      BY <2>0, <2>5, <3>1, PushConserves DEF Restore
  <2>6. CASE Tick \/ Restart \/ \E t \in Txs : RelayTx(t) \/ KeepTx(t)
    BY <2>6 DEF Tick, Restart, RelayTx, KeepTx, chainVars
  <2>7. QED
    BY <2>1, <2>2, <2>3, <2>4, <2>5, <2>6 DEF Next, SwitchStep
<1>2. QED
  BY <1>1, TypeInit, TypeStep, PTL DEF Spec, TransactionsConserved
=============================================================================
