------------------------ MODULE BlockchainRefinement ------------------------
(***************************************************************************)
(* Blockchain implements HeaviestChain, and why: a reorganisation that is  *)
(* under way can always be taken back.  Checkpoints that were reached stay *)
(* in the main chain.  Proved for every block tree, for a node that        *)
(* neither crashes nor meets a block above the size limit.                 *)
(*                                                                         *)
(* The chain in force during a reorganisation is the one the listeners     *)
(* hold (replica): it is exchanged when the reorganisation is complete.    *)
(***************************************************************************)
EXTENDS BlockchainProofs

USE DEF Range

-----------------------------------------------------------------------------
(* What pushBlock found out about a block, as a fact about the chain below *)
(* it and the time, so that it can be used again in a rollback.            *)

UnspentOn(c, b) ==
  LET t == transactionHashes[b]
  IN  \A i \in DOMAIN t :
        keyImages[t[i]] \cap
          (ImagesOf(ChainTxs(c)) \cup ImagesOf({t[j] : j \in 1 .. i - 1})) = {}

CheckedOn(c, b, time) ==
  /\ b \notin Range(c) /\ b # Genesis /\ Parent(b) = c[Len(c)]
  /\ b \notin BadHeader /\ b \notin BadTx /\ b \notin BadReward
  /\ timestamp[b] <= time + futureTimeLimit
  /\ check_block_timestamp(LastN(c, timestampCheckWindow), b)
  /\ IF is_in_checkpoint_zone(Len(c)) THEN check_block(Len(c), b) ELSE b \notin WeakPow
  /\ UnspentOn(c, b)
  /\ IsInjective(transactionHashes[b])

\* Every block of the chain passes the checks on top of the ones before it.
Sound(c, time) == \A i \in 1 .. Len(c) - 1 : CheckedOn(SubSeq(c, 1, i), c[i + 1], time)

\* pushBlock succeeds when these checks do and the pool has the transactions.
LEMMA PushIsCheck ==
  ASSUME TooBig = {}, IndexesMatchChain, NEW b \in Blocks
  PROVE  PushSucceeds(b) <=> CheckedOn(m_blocks, b, now) /\ TxsOf(b) \subseteq m_tx_pool
BY Zenon DEF PushSucceeds, Loadable, PassesChecks, CheckedOn, UnspentOn, InputsUnspent,
       check_block_timestamp_main, IndexesMatchChain, getTailId

\* A block that passed once passes later.
LEMMA SoundLater ==
  ASSUME NEW c \in Seq(Blocks), NEW s \in Nat, NEW t \in Nat, s <= t, Sound(c, s)
  PROVE  Sound(c, t)
<1>1. ASSUME NEW d, NEW b \in Blocks, CheckedOn(d, b, s) PROVE CheckedOn(d, b, t)
  <2>1. timestamp[b] \in Nat /\ futureTimeLimit \in Nat
    BY DataAssumption, ParameterAssumption
  <2>2. timestamp[b] <= t + futureTimeLimit
    BY <1>1, <2>1 DEF CheckedOn
  <2>3. QED
    BY <1>1, <2>2 DEF CheckedOn
<1>2. \A i \in 1 .. Len(c) - 1 : c[i + 1] \in Blocks
  OBVIOUS
<1>3. QED
  BY <1>1, <1>2 DEF Sound

\* A block that passes the checks extends a sound chain.
LEMMA SoundAppend ==
  ASSUME NEW c \in Seq(Blocks), NEW b \in Blocks, NEW t, Sound(c, t), CheckedOn(c, b, t)
  PROVE  Sound(Append(c, b), t)
<1> DEFINE d == Append(c, b)
<1>1. d \in Seq(Blocks) /\ Len(d) = Len(c) + 1 /\ d[Len(c) + 1] = b
  OBVIOUS
<1>2. ASSUME NEW i \in 1 .. Len(c) PROVE SubSeq(d, 1, i) = SubSeq(c, 1, i) /\ d[i] = c[i]
  OBVIOUS
<1>3. SubSeq(c, 1, Len(c)) = c
  OBVIOUS
<1>4. ASSUME NEW i \in 1 .. Len(d) - 1 PROVE CheckedOn(SubSeq(d, 1, i), d[i + 1], t)
  <2>1. CASE i = Len(c)
    <3>1. SubSeq(d, 1, i) = c /\ d[i + 1] = b
      BY <1>1, <1>2, <1>3, <2>1
    <3>2. QED
      BY Zenon, <3>1
  <2>2. CASE i \in 1 .. Len(c) - 1
    <3>1. d[i + 1] = c[i + 1] /\ SubSeq(d, 1, i) = SubSeq(c, 1, i)
      BY <1>2, <2>2
    <3>2. CheckedOn(SubSeq(c, 1, i), c[i + 1], t)
      BY <2>2 DEF Sound
    <3>3. QED
      BY Zenon, <3>1, <3>2
  <2>3. QED
    BY <1>1, <2>1, <2>2
<1>5. QED
  BY <1>4 DEF Sound

\* What is below a block of a sound chain is sound.
LEMMA SoundPrefix ==
  ASSUME NEW c \in Seq(Blocks), NEW n \in 0 .. Len(c), NEW t, Sound(c, t)
  PROVE  Sound(SubSeq(c, 1, n), t)
<1> DEFINE d == SubSeq(c, 1, n)
<1>1. d \in Seq(Blocks) /\ Len(d) = n
  OBVIOUS
<1>2. ASSUME NEW i \in 1 .. n - 1 PROVE CheckedOn(SubSeq(d, 1, i), d[i + 1], t)
  <2>1. SubSeq(d, 1, i) = SubSeq(c, 1, i) /\ d[i + 1] = c[i + 1] /\ i \in 1 .. Len(c) - 1
    OBVIOUS
  <2>2. QED
    BY Zenon, <2>1 DEF Sound
<1>3. QED
  BY <1>1, <1>2 DEF Sound

-----------------------------------------------------------------------------
(* The inductive invariant.                                                *)

\* The chain, its indices and the pool agree at every step of a reorganisation.
Solid ==
  /\ LedgerInv /\ IndexesMatchChain /\ PoolAndChainDisjoint
  /\ Sound(m_blocks, now)
  /\ crashes = 0

\* The first n blocks of the main chain are the ones of the chain in force,
\* whose blocks above them are in job.old.
Kept(n) == \A i \in 1 .. n : m_blocks[i] = replica[i]
Popped(n) ==
  /\ Len(replica) = n + Len(job.old)
  /\ \A i \in 1 .. Len(job.old) : job.old[i] = replica[n + i]

\* The main chain is the part below the fork and n blocks of the branch.
Connected(n) ==
  /\ Len(m_blocks) = job.split + n
  /\ \A i \in 1 .. n : m_blocks[job.split + i] = job.alt[i]

\* The chain in force can be pushed again: it passed every check, and its
\* transactions are in the pool or in the main chain.
InForce ==
  /\ replica \in Seq(Blocks) /\ Len(replica) >= 1
  /\ replica = PathTo(replica[Len(replica)])
  /\ Sound(replica, now)
  /\ ChainTxs(replica) \subseteq m_tx_pool \cup m_transactionMap

Progress ==
  /\ job.pc = "disconnect" =>
       /\ job.next = 1 /\ Len(m_blocks) > job.split
       /\ Popped(Len(m_blocks)) /\ Kept(Len(m_blocks))
  /\ job.pc # "disconnect" => Popped(job.split)
  /\ job.pc = "connect" => Connected(job.next - 1)
  /\ job.pc \in {"reinsert", "finish"} => Connected(Len(job.alt))
  /\ job.pc = "reinsert" =>
       \A i \in 1 .. job.next - 1 : job.old[i] \in m_alternative_chains
  /\ job.pc = "finish" /\ ~job.discard => Range(job.old) \subseteq m_alternative_chains
  /\ job.pc = "undo" =>
       /\ job.next = 1
       /\ \A i \in job.split + 1 .. Len(m_blocks) : m_blocks[i] \in Range(job.alt)
  /\ job.pc = "restore" =>
       Len(m_blocks) = job.split + job.next - 1 /\ Kept(Len(m_blocks))

Branch ==
  /\ job.split < Len(replica) /\ job.split <= Len(m_blocks) /\ Kept(job.split)
  /\ Len(job.alt) >= 1 /\ Range(job.alt) \subseteq m_alternative_chains
  /\ job.discard => DOMAIN checkpoints # {}
  /\ ~job.discard =>
       cumulative_difficulty[replica[Len(replica)]]
         < cumulative_difficulty[job.alt[Len(job.alt)]]

Shape ==
  /\ job.pc = "idle" => job = NoJob /\ replica = m_blocks
  /\ job.pc # "idle" => InForce /\ Branch /\ Progress

SwitchInv == Solid /\ Shape

\* A node that neither crashes nor meets a block above the size limit.
Quiet == TooBig = {} /\ MaxCrashes = 0

-----------------------------------------------------------------------------
(* What a push and a pop do to the chain, the indices and the pool.        *)

\* pushBlock moves the block's transactions from the pool to the chain.
LEMMA PushMoves ==
  ASSUME TooBig = {}, ChainTypeOK, IndexesMatchChain, PoolAndChainDisjoint,
         Sound(m_blocks, now), NEW b \in Blocks, pushBlock(b), now' = now
  PROVE  /\ PoolAndChainDisjoint' /\ Sound(m_blocks, now)'
         /\ m_tx_pool' \cup m_transactionMap' = m_tx_pool \cup m_transactionMap
         /\ m_blocks' = IF PushSucceeds(b) THEN Append(m_blocks, b) ELSE m_blocks
<1>1. CASE PushSucceeds(b)
  <2>1. /\ m_blocks' = Append(m_blocks, b)
        /\ m_transactionMap' = m_transactionMap \cup TxsOf(b)
        /\ m_tx_pool' = m_tx_pool \ TxsOf(b)
    BY <1>1 DEF pushBlock
  <2>2. CheckedOn(m_blocks, b, now) /\ TxsOf(b) \subseteq m_tx_pool
    BY <1>1, PushIsCheck
  <2>3. Sound(Append(m_blocks, b), now)
    BY <2>2, SoundAppend DEF ChainTypeOK
  <2>4. QED
    BY <1>1, <2>1, <2>2, <2>3 DEF PoolAndChainDisjoint
<1>2. CASE ~PushSucceeds(b)
  <2>1. UNCHANGED chainVars
    BY <1>2 DEF pushBlock, PushLeaks
  <2>2. QED
    BY <1>2, <2>1 DEF chainVars, PoolAndChainDisjoint
<1>3. QED
  BY <1>1, <1>2

\* popBlock moves them back, and finds none of them in the pool.
LEMMA PopMoves ==
  ASSUME ChainTypeOK, IndexesMatchChain, PoolAndChainDisjoint, Sound(m_blocks, now),
         Len(m_blocks) > 1, popBlock, now' = now
  PROVE  /\ PoolAndChainDisjoint' /\ Sound(m_blocks, now)'
         /\ m_tx_pool' \cup m_transactionMap' = m_tx_pool \cup m_transactionMap
<1>1. TxsOf(getTailId) \subseteq m_transactionMap
  BY DEF ChainTypeOK, IndexesMatchChain, ChainTxs, getTailId
<1>2. Sound(SubSeq(m_blocks, 1, Len(m_blocks) - 1), now)
  BY SoundPrefix DEF ChainTypeOK
<1>3. QED
  BY <1>1, <1>2 DEF popBlock, PoolAndChainDisjoint

\* So popBlock never throws.
LEMMA PopWorks ==
  ASSUME ChainTypeOK, IndexesMatchChain, PoolAndChainDisjoint
  PROVE  ~PopThrows
<1>1. TxsOf(getTailId) \subseteq m_transactionMap
  BY DEF ChainTypeOK, IndexesMatchChain, ChainTxs, getTailId
<1>2. QED
  BY <1>1 DEF PopThrows, PoolAndChainDisjoint

\* A change of the pool between two reorganisations.
PoolStep ==
  /\ job.pc = "idle" /\ UNCHANGED <<m_blocks, m_transactionMap, m_spent_keys, job, replica, now>>
  /\ m_tx_pool' \cap m_transactionMap = {}

\* What a step of a quiet node does: a push, a pop, a change of the pool
\* between two reorganisations, or nothing but the passage of time.
LEMMA QuietStep ==
  ASSUME Quiet, Solid, [Next]_vars
  PROVE  /\ crashes' = 0
         /\ \/ \E b \in Blocks : pushBlock(b) /\ now' = now
            \/ Len(m_blocks) > 1 /\ popBlock /\ now' = now
            \/ PoolStep
            \/ UNCHANGED chainVars /\ now <= now'
<1>0. TypeInv /\ ChainTypeOK /\ now \in Nat /\ crashes = 0 /\ MaxCrashes = 0
  BY DEF Solid, LedgerInv, TypeInv, TypeOK, ChainTypeOK, Chain, Quiet
<1>1. ASSUME NEW b \in Blocks, addNewBlock(b)
      PROVE  /\ crashes' = crashes /\ now' = now
             /\ pushBlock(b) \/ UNCHANGED chainVars
  BY <1>1 DEF addNewBlock, handle_alternative_block, envVars
<1>2. ASSUME Disconnect \/ (Undo /\ Len(m_blocks) > job.split)
      PROVE  crashes' = crashes /\ now' = now /\ Len(m_blocks) > 1 /\ popBlock
  BY <1>0, <1>2 DEF Disconnect, Undo, envVars, TypeInv, TypeOK, Job, Chain
<1>3. ~PopFails
  BY <1>0, PopWorks DEF PopFails, Solid
<1>4. ASSUME Reinsert \/ Finish \/ (Undo /\ ~(Len(m_blocks) > job.split))
      PROVE  crashes' = crashes /\ now' = now /\ UNCHANGED chainVars
  BY Zenon, <1>4 DEF Reinsert, Finish, Undo, envVars
<1>5. ASSUME Connect
      PROVE  crashes' = crashes /\ now' = now /\ \E b \in Blocks : pushBlock(b)
  <2>1. job.alt[job.next] \in Blocks
    BY <1>0, <1>5 DEF Connect, TypeInv, TypeOK, JobOK, Job, Chain
  <2>2. QED
    BY <1>5, <2>1 DEF Connect, envVars
<1>6. ASSUME Restore
      PROVE  crashes' = crashes /\ now' = now /\ \E b \in Blocks : pushBlock(b)
  <2>1. job.old[job.next] \in Blocks
    BY <1>0, <1>6 DEF Restore, TypeInv, TypeOK, JobOK, Job, Chain
  <2>2. QED
    BY <1>6, <2>1 DEF Restore, envVars
<1>7. ASSUME NEW t \in Txs, RelayTx(t) \/ KeepTx(t) \/ ExpireTx(t)
      PROVE  crashes' = crashes /\ PoolStep
  BY <1>7 DEF RelayTx, KeepTx, ExpireTx, envVars, PoolStep, Solid, PoolAndChainDisjoint
<1>8. ASSUME Tick PROVE crashes' = crashes /\ UNCHANGED chainVars /\ now <= now'
  BY <1>0, <1>8 DEF Tick
<1>9. ~Restart /\ ~Crash
  BY <1>0 DEF Restart, Crash
<1>10. ASSUME UNCHANGED vars PROVE crashes' = crashes /\ UNCHANGED chainVars /\ now <= now'
  BY <1>0, <1>10 DEF vars, envVars
<1>11. now <= now
  BY <1>0
<1>12. CASE \E b \in Blocks : addNewBlock(b)
  BY <1>0, <1>1, <1>11, <1>12
<1>13. CASE SwitchStep
  BY <1>0, <1>2, <1>3, <1>4, <1>5, <1>6, <1>11, <1>13 DEF SwitchStep
<1>14. CASE \E t \in Txs : RelayTx(t) \/ KeepTx(t) \/ ExpireTx(t)
  BY <1>0, <1>7, <1>14
<1>15. QED
  BY <1>0, <1>8, <1>9, <1>10, <1>12, <1>13, <1>14 DEF Next

\* Every step leaves the chain sound and the indices and the pool in agreement.
LEMMA SolidStep ==
  ASSUME Quiet, Solid, [Next]_vars
  PROVE  Solid'
<1>0. /\ ChainTypeOK /\ Ledger /\ TooBig = {} /\ now \in Nat /\ now' \in Nat
      /\ LedgerInv' /\ crashes' = 0
  BY LedgerStep, QuietStep DEF Solid, LedgerInv, TypeInv, TypeOK, ChainTypeOK, Chain, Quiet
<1>1. ASSUME NEW b \in Blocks, pushBlock(b), now' = now PROVE Solid'
  BY <1>0, <1>1, PushExact, PushMoves DEF Solid
<1>2. ASSUME Len(m_blocks) > 1, popBlock, now' = now PROVE Solid'
  BY <1>0, <1>2, PopExact, PopMoves DEF Solid
<1>3. ASSUME PoolStep PROVE Solid'
  BY <1>0, <1>3 DEF PoolStep, Solid, IndexesMatchChain, PoolAndChainDisjoint
<1>4. ASSUME UNCHANGED chainVars, now <= now' PROVE Solid'
  <2>1. Sound(m_blocks, now')
    BY <1>0, <1>4, SoundLater DEF Solid, ChainTypeOK
  <2>2. QED
    BY <1>0, <1>4, <2>1 DEF chainVars, Solid, IndexesMatchChain, PoolAndChainDisjoint
<1>5. QED
  BY <1>1, <1>2, <1>3, <1>4, QuietStep

-----------------------------------------------------------------------------
(* The chain in force survives the steps of a reorganisation.              *)

\* Nothing a step does while a reorganisation is under way makes the chain in
\* force harder to push again.
LEMMA InForceStep ==
  ASSUME Quiet, Solid, [Next]_vars, InForce, UNCHANGED replica, job.pc # "idle"
  PROVE  InForce'
<1>0. /\ ChainTypeOK /\ TooBig = {} /\ now \in Nat /\ now' \in Nat
  BY LedgerStep DEF Solid, LedgerInv, TypeInv, TypeOK, ChainTypeOK, Chain, Quiet
<1>1. now <= now' /\ m_tx_pool' \cup m_transactionMap' = m_tx_pool \cup m_transactionMap
  <2>1. ASSUME NEW b \in Blocks, pushBlock(b), now' = now
        PROVE  m_tx_pool' \cup m_transactionMap' = m_tx_pool \cup m_transactionMap
    BY <1>0, <2>1, PushMoves DEF Solid
  <2>2. ASSUME Len(m_blocks) > 1, popBlock, now' = now
        PROVE  m_tx_pool' \cup m_transactionMap' = m_tx_pool \cup m_transactionMap
    BY <1>0, <2>2, PopMoves DEF Solid
  <2>3. ASSUME UNCHANGED chainVars
        PROVE  m_tx_pool' \cup m_transactionMap' = m_tx_pool \cup m_transactionMap
    BY <2>3 DEF chainVars
  <2>4. QED
    BY <1>0, <2>1, <2>2, <2>3, QuietStep DEF PoolStep
<1>2. Sound(replica, now')
  BY <1>0, <1>1, SoundLater DEF InForce
<1>3. QED
  BY <1>1, <1>2 DEF InForce, PathTo

\* The main chain itself, between two reorganisations, is a chain in force.
LEMMA InForceIdle ==
  ASSUME Solid, replica = m_blocks
  PROVE  InForce
BY DEF Solid, LedgerInv, Ledger, ChainLinked, PathTo, getTailId, TypeInv, TypeOK, Chain,
       IndexesMatchChain, InForce

\* A branch that is taken forks off below the tail, and is heavier unless it
\* brings a checkpoint.
LEMMA SwitchStarts ==
  ASSUME Solid, Shape, NEW b \in Blocks, addNewBlock(b), ~haveBlock(b),
         Parent(b) # getTailId, AltAccepted(b), BringsCheckpoint(b) \/ IsHeavier(b)
  PROVE  Branch' /\ Progress' /\ UNCHANGED replica
<1>0. /\ m_blocks \in Seq(Blocks) /\ Len(m_blocks) >= 1
      /\ job.pc = "idle" /\ job = NoJob /\ replica = m_blocks
  BY DEF Solid, LedgerInv, TypeInv, TypeOK, Chain, addNewBlock, Shape
<1>1. /\ m_blocks' = m_blocks /\ replica' = replica
      /\ m_alternative_chains' = m_alternative_chains \cup {b}
      /\ job' = SwitchTo(b)
  BY DEF addNewBlock, handle_alternative_block, chainVars
<1>2. /\ AltChain(b) \in Seq(Blocks)
      /\ \A i \in 1 .. Len(AltChain(b)) : AltChain(b)[i] \in m_alternative_chains
  BY AltChainType
<1> DEFINE a == AltChain(b)
           s == ForkHeight(b)
<1>3. /\ job'.pc = "disconnect" /\ job'.alt = Append(a, b) /\ job'.split = s
      /\ job'.old = << >> /\ job'.discard = BringsCheckpoint(b) /\ job'.next = 1
  BY <1>1 DEF SwitchTo
<1>4. s \in 1 .. Len(m_blocks) /\ s < Len(m_blocks)
  <2>1. s \in 1 .. Len(m_blocks) /\ m_blocks[s] = ancestry[b][s]
    BY DEF AltAccepted, ConnectedToMain
  <2>2. CASE a # << >>
    BY <1>0, <2>1, <2>2 DEF AltAccepted, ConnectedToMain
  <2>3. CASE a = << >>
    <3>1. s = Len(ancestry[b])
      BY <2>3 DEF ForkHeight, Height
    <3>2. m_blocks[s] # m_blocks[Len(m_blocks)]
      BY <2>1, <3>1 DEF Parent, getTailId
    <3>3. QED
      BY <1>0, <2>1, <3>2
  <2>4. QED
    BY <2>2, <2>3
<1> HIDE DEF a, s
<1>5. /\ Append(a, b) \in Seq(Blocks) /\ Len(Append(a, b)) = Len(a) + 1
      /\ Append(a, b)[Len(a) + 1] = b /\ Len(a) \in Nat
      /\ \A i \in 1 .. Len(a) : Append(a, b)[i] \in m_alternative_chains
  BY <1>2 DEF a
<1>6. Range(job'.alt) \subseteq m_alternative_chains'
  BY <1>1, <1>3, <1>5
<1>6a. job'.discard => DOMAIN checkpoints # {}
  BY Zenon, <1>3 DEF BringsCheckpoint, is_a_checkpoint
<1>7. ~job'.discard =>
        cumulative_difficulty[replica'[Len(replica')]]
          < cumulative_difficulty[job'.alt[Len(job'.alt)]]
  BY <1>0, <1>1, <1>3, <1>5 DEF IsHeavier, getTailId
<1>8. Kept(s)' /\ Kept(Len(m_blocks))'
  BY <1>0, <1>1 DEF Kept
<1>9. Branch'
  BY <1>0, <1>1, <1>3, <1>4, <1>5, <1>6, <1>6a, <1>7, <1>8 DEF Branch, Kept
<1>10. Popped(Len(m_blocks))'
  BY <1>0, <1>1, <1>3 DEF Popped
<1>11. QED
  BY <1>0, <1>1, <1>3, <1>4, <1>8, <1>9, <1>10 DEF Progress, Kept

\* A block that is popped joins the others in front.
LEMMA DisconnectShape ==
  ASSUME Solid, Shape, Disconnect
  PROVE  Branch' /\ Progress'
<1>0. /\ m_blocks \in Seq(Blocks) /\ Len(m_blocks) \in Nat
      /\ replica \in Seq(Blocks) /\ Len(replica) \in Nat
      /\ job \in Job /\ job.old \in Seq(Blocks) /\ job.split \in Nat \ {0}
      /\ job.pc = "disconnect" /\ Len(m_blocks) > job.split /\ Len(job.old) \in Nat
  BY DEF Solid, LedgerInv, TypeInv, TypeOK, Job, Chain, Disconnect
<1>1. job.next = 1 /\ Branch /\ Popped(Len(m_blocks)) /\ Kept(Len(m_blocks))
  BY <1>0 DEF Shape, Progress
<1>2. /\ m_blocks' = SubSeq(m_blocks, 1, Len(m_blocks) - 1)
      /\ replica' = replica /\ m_alternative_chains' = m_alternative_chains
      /\ job'.old = <<getTailId>> \o job.old
      /\ job'.pc = (IF Len(m_blocks) - 1 = job.split THEN "connect" ELSE "disconnect")
      /\ job'.alt = job.alt /\ job'.split = job.split /\ job'.discard = job.discard
      /\ job'.next = job.next
  BY <1>0 DEF Disconnect, popBlock, Job
<1>3. /\ Len(m_blocks') = Len(m_blocks) - 1
      /\ \A i \in 1 .. Len(m_blocks) - 1 : m_blocks'[i] = m_blocks[i]
  BY <1>0, <1>2
<1>4. getTailId = replica[Len(m_blocks)]
  BY <1>0, <1>1 DEF getTailId, Kept
<1>5. /\ Len(job'.old) = Len(job.old) + 1 /\ job'.old[1] = getTailId
      /\ \A i \in 1 .. Len(job.old) : job'.old[i + 1] = job.old[i]
  <2>1. getTailId \in Blocks
    BY <1>0 DEF getTailId
  <2>2. QED
    BY <1>0, <1>2, <2>1
<1>6. Popped(Len(m_blocks))'
  <2>0. Len(replica) = Len(m_blocks) + Len(job.old)
    BY <1>1 DEF Popped
  <2>0a. Len(replica) = (Len(m_blocks) - 1) + (Len(job.old) + 1)
    BY <1>0, <2>0
  <2>1. Len(replica') = Len(m_blocks') + Len(job'.old)
    <3>1. Len(replica') = Len(replica)
      BY <1>2
    <3>2. QED
      BY <1>3, <1>5, <2>0a, <3>1, Zenon
  <2>2. ASSUME NEW i \in 1 .. Len(job'.old) PROVE job'.old[i] = replica[Len(m_blocks) - 1 + i]
    <3>1. CASE i = 1
      BY <1>0, <1>4, <1>5, <3>1
    <3>2. CASE i # 1
      <4>1. i - 1 \in 1 .. Len(job.old) /\ (i - 1) + 1 = i
            /\ Len(m_blocks) + (i - 1) = Len(m_blocks) - 1 + i
        BY <1>0, <1>5, <3>2
      <4>2. job'.old[(i - 1) + 1] = job.old[i - 1]
        BY <1>5, <4>1
      <4>3. job.old[i - 1] = replica[Len(m_blocks) + (i - 1)]
        BY <1>1, <4>1 DEF Popped
      <4>4. QED
        BY <4>1, <4>2, <4>3
    <3>3. QED
      BY <3>1, <3>2
  <2>3. QED
    BY Zenon, <1>2, <1>3, <2>1, <2>2 DEF Popped
<1>7. Kept(Len(m_blocks))' /\ Kept(job.split)'
  BY SMTT(30), <1>0, <1>1, <1>2, <1>3 DEF Kept
<1>8. Branch'
  BY <1>0, <1>1, <1>2, <1>3, <1>7 DEF Branch
<1>9. CASE Len(m_blocks) - 1 = job.split
  BY <1>0, <1>1, <1>2, <1>3, <1>6, <1>8, <1>9 DEF Progress, Connected
<1>10. CASE Len(m_blocks) - 1 # job.split
  BY <1>0, <1>1, <1>2, <1>3, <1>6, <1>7, <1>8, <1>10 DEF Progress
<1>11. QED
  BY <1>9, <1>10

\* The next block of the branch goes on top of the ones before it, or the
\* rollback begins.
LEMMA ConnectShape ==
  ASSUME Quiet, Solid, Shape, Connect
  PROVE  Branch' /\ Progress'
<1> DEFINE b == job.alt[job.next]
<1>0. /\ ChainTypeOK /\ m_blocks \in Seq(Blocks) /\ Len(m_blocks) \in Nat
      /\ replica \in Seq(Blocks) /\ job.pc = "connect" /\ job \in Job
      /\ job.alt \in Seq(Blocks) /\ job.split \in Nat \ {0} /\ Len(job.alt) \in Nat
      /\ job.next \in 1 .. Len(job.alt) /\ TooBig = {}
  BY DEF Solid, LedgerInv, TypeInv, TypeOK, Job, Chain, Connect, JobOK, ChainTypeOK, Quiet
<1>1. Branch /\ Popped(job.split) /\ Connected(job.next - 1)
  BY <1>0 DEF Shape, Progress
<1>2. b \in Blocks
  BY <1>0
<1>3. /\ pushBlock(b) /\ now' = now
      /\ replica' = replica /\ m_alternative_chains' = m_alternative_chains
  BY DEF Connect, envVars
<1>4. m_blocks' = IF PushSucceeds(b) THEN Append(m_blocks, b) ELSE m_blocks
  BY <1>0, <1>2, <1>3, PushMoves DEF Solid
<1>5. /\ job'.alt = job.alt /\ job'.split = job.split /\ job'.discard = job.discard
      /\ job'.old = job.old
  BY <1>0 DEF Connect, Job
<1>6. Len(m_blocks) = job.split + (job.next - 1)
  BY <1>1 DEF Connected
<1>7. Len(m_blocks') >= Len(m_blocks) /\ \A i \in 1 .. Len(m_blocks) : m_blocks'[i] = m_blocks[i]
  BY <1>0, <1>2, <1>4
<1>8. Branch' /\ Popped(job.split)'
  <2>0. \A i \in 1 .. job.split : i \in 1 .. Len(m_blocks) /\ m_blocks[i] = replica[i]
    BY <1>0, <1>1, <1>6 DEF Branch, Kept
  <2>1. Kept(job.split)'
    BY <1>3, <1>5, <1>7, <2>0 DEF Kept
  <2>2. Popped(job.split)'
    BY <1>1, <1>3, <1>5 DEF Popped
  <2>3. job.split <= Len(m_blocks')
    BY <1>0, <1>6, <1>7
  <2>4. QED
    BY <1>1, <1>3, <1>5, <2>1, <2>2, <2>3 DEF Branch
<1>9. CASE ~PushSucceeds(b)
  <2>1. job'.pc = "undo" /\ job'.next = 1 /\ m_blocks' = m_blocks
    BY <1>0, <1>4, <1>9 DEF Connect, Job
  <2>2. ASSUME NEW i \in job.split + 1 .. Len(m_blocks) PROVE m_blocks[i] \in Range(job.alt)
    <3>1. i - job.split \in 1 .. job.next - 1 /\ job.split + (i - job.split) = i
      BY <1>0, <1>6
    <3>2. m_blocks[job.split + (i - job.split)] = job.alt[i - job.split]
      BY <1>1, <3>1 DEF Connected
    <3>3. i - job.split \in DOMAIN job.alt
      BY <1>0, <3>1
    <3>4. QED
      BY <3>1, <3>2, <3>3
  <2>3. QED
    BY <1>5, <1>8, <2>1, <2>2 DEF Progress
<1>10. CASE PushSucceeds(b)
  <2>1. /\ m_blocks' = Append(m_blocks, b)
        /\ Len(m_blocks') = job.split + job.next
        /\ m_blocks'[job.split + job.next] = b
    <3>1. m_blocks' = Append(m_blocks, b)
      BY <1>4, <1>10
    <3>2. Len(m_blocks') = Len(m_blocks) + 1 /\ m_blocks'[Len(m_blocks) + 1] = b
      BY <1>0, <1>2, <3>1
    <3>3. Len(m_blocks) + 1 = job.split + job.next
      BY <1>0, <1>6
    <3>4. QED
      BY <3>1, <3>2, <3>3
  <2>2. ASSUME NEW i \in 1 .. job.next PROVE m_blocks'[job.split + i] = job.alt[i]
    <3>1. CASE i = job.next
      BY <2>1, <3>1
    <3>2. CASE i # job.next
      <4>1. i \in 1 .. job.next - 1 /\ job.split + i \in 1 .. Len(m_blocks)
        BY <1>0, <1>6, <3>2
      <4>2. QED
        BY <1>1, <1>7, <4>1 DEF Connected
    <3>3. QED
      BY <3>1, <3>2
  <2>3. CASE job.next < Len(job.alt)
    <3>1. job'.pc = "connect" /\ job'.next = job.next + 1
      BY <1>0, <1>10, <2>3 DEF Connect, Job
    <3>2. job'.next - 1 = job.next
      BY <1>0, <3>1
    <3>3. Connected(job.next - 1)'
      BY Zenon, <1>5, <2>1, <2>2, <3>2 DEF Connected
    <3>4. QED
      BY <1>8, <3>1, <3>3, <1>5 DEF Progress
  <2>4. CASE ~(job.next < Len(job.alt))
    <3>1. /\ job'.pc = (IF job.discard THEN "finish" ELSE "reinsert")
          /\ job'.next = 1 /\ job.next = Len(job.alt)
      BY <1>0, <1>10, <2>4 DEF Connect, Job, AfterConnect
    <3>2. Connected(Len(job.alt))'
      BY Zenon, <1>5, <2>1, <2>2, <3>1 DEF Connected
    <3>3. QED
      BY <1>5, <1>8, <3>1, <3>2 DEF Progress
  <2>5. QED
    BY <2>3, <2>4
<1>11. QED
  BY <1>9, <1>10

\* The blocks of the old chain enter the container one by one, or the rollback
\* begins.
LEMMA ReinsertShape ==
  ASSUME Solid, Shape, Reinsert
  PROVE  Branch' /\ Progress'
<1>0. /\ job.pc = "reinsert" /\ job \in Job
      /\ job.alt \in Seq(Blocks) /\ job.old \in Seq(Blocks)
      /\ job.split \in Nat \ {0} /\ Len(job.alt) \in Nat /\ Len(job.old) \in Nat
      /\ job.next \in 1 .. Len(job.old) /\ Len(m_blocks) \in Nat
  BY DEF Solid, LedgerInv, TypeInv, TypeOK, Job, Chain, Reinsert, JobOK
<1>1. /\ Branch /\ Popped(job.split) /\ Connected(Len(job.alt))
      /\ \A i \in 1 .. job.next - 1 : job.old[i] \in m_alternative_chains
  BY <1>0 DEF Shape, Progress
<1>2. /\ replica' = replica /\ m_blocks' = m_blocks
      /\ m_alternative_chains \subseteq m_alternative_chains'
      /\ job'.alt = job.alt /\ job'.split = job.split /\ job'.discard = job.discard
      /\ job'.old = job.old
  BY Zenon, <1>0 DEF Reinsert, chainVars, Job
<1>3. Branch' /\ Popped(job.split)' /\ Connected(Len(job.alt))'
  BY Zenon, <1>1, <1>2 DEF Branch, Kept, Popped, Connected
<1>4. CASE job'.pc = "undo" /\ job'.next = 1
  <2>1. ASSUME NEW i \in job.split + 1 .. Len(m_blocks) PROVE m_blocks[i] \in Range(job.alt)
    <3>0. Len(m_blocks) = job.split + Len(job.alt)
      BY <1>1 DEF Connected
    <3>1. /\ i - job.split \in 1 .. Len(job.alt) /\ job.split + (i - job.split) = i
          /\ i - job.split \in DOMAIN job.alt
      BY SMTT(30), <1>0, <3>0
    <3>2. m_blocks[job.split + (i - job.split)] = job.alt[i - job.split]
      BY Zenon, <1>1, <3>1 DEF Connected
    <3>3. QED
      BY <3>1, <3>2
  <2>2. QED
    BY Zenon, <1>2, <1>3, <1>4, <2>1 DEF Progress
<1>5. CASE /\ job.old[job.next] \in m_alternative_chains'
           /\ IF job.next < Len(job.old)
              THEN job'.pc = "reinsert" /\ job'.next = job.next + 1
              ELSE job'.pc = "finish"
  <2>1. \A i \in 1 .. job.next : job.old[i] \in m_alternative_chains'
    BY <1>0, <1>1, <1>2, <1>5
  <2>2. CASE job.next < Len(job.old)
    BY <1>0, <1>2, <1>3, <1>5, <2>1, <2>2 DEF Progress
  <2>3. CASE ~(job.next < Len(job.old))
    <3>1. Range(job.old) \subseteq m_alternative_chains'
      BY <1>0, <2>1, <2>3
    <3>2. QED
      BY <1>2, <1>3, <1>5, <2>3, <3>1 DEF Progress
  <2>4. QED
    BY <2>2, <2>3
<1>6. QED
  BY Zenon, <1>0, <1>4, <1>5 DEF Reinsert, Job

\* What was connected is popped down to the fork.
LEMMA UndoShape ==
  ASSUME Solid, Shape, Undo
  PROVE  Branch' /\ Progress'
<1>0. /\ m_blocks \in Seq(Blocks) /\ Len(m_blocks) \in Nat
      /\ job.pc = "undo" /\ job \in Job /\ job.split \in Nat \ {0}
  BY DEF Solid, LedgerInv, TypeInv, TypeOK, Job, Chain, Undo
<1>1. /\ Branch /\ Popped(job.split) /\ job.next = 1
      /\ \A i \in job.split + 1 .. Len(m_blocks) : m_blocks[i] \in Range(job.alt)
  BY <1>0 DEF Shape, Progress
<1>2. replica' = replica /\ m_alternative_chains' = m_alternative_chains
  BY DEF Undo
<1>3. CASE Len(m_blocks) > job.split
  <2>1. job' = job /\ m_blocks' = SubSeq(m_blocks, 1, Len(m_blocks) - 1)
    BY <1>3 DEF Undo, popBlock
  <2>2. /\ Len(m_blocks') = Len(m_blocks) - 1
        /\ \A i \in 1 .. Len(m_blocks) - 1 : m_blocks'[i] = m_blocks[i]
    BY <1>0, <1>3, <2>1
  <2>3. job.split <= Len(m_blocks') /\ Kept(job.split)'
    BY <1>0, <1>1, <1>2, <1>3, <2>1, <2>2 DEF Branch, Kept
  <2>4. Branch' /\ Popped(job.split)'
    BY <1>1, <1>2, <2>1, <2>3 DEF Branch, Popped
  <2>5. \A i \in job.split + 1 .. Len(m_blocks') : m_blocks'[i] \in Range(job.alt)
    BY <1>0, <1>1, <2>2
  <2>6. QED
    BY Zenon, <1>0, <1>1, <2>1, <2>4, <2>5 DEF Progress
<1>4. CASE ~(Len(m_blocks) > job.split)
  <2>1. /\ m_blocks' = m_blocks /\ job'.pc = "restore" /\ job'.next = job.next
        /\ job'.alt = job.alt /\ job'.split = job.split /\ job'.discard = job.discard
        /\ job'.old = job.old
    BY <1>0, <1>4 DEF Undo, chainVars, Job
  <2>2. Branch' /\ Popped(job.split)'
    BY <1>1, <1>2, <2>1 DEF Branch, Popped, Kept
  <2>3. Len(m_blocks) = job.split
    BY <1>0, <1>1, <1>4 DEF Branch
  <2>4. Len(m_blocks') = job'.split + job'.next - 1 /\ Kept(Len(m_blocks))'
    BY SMTT(30), <1>0, <1>1, <1>2, <2>1, <2>3 DEF Branch, Kept
  <2>5. QED
    BY <2>1, <2>2, <2>4 DEF Progress
<1>5. QED
  BY <1>3, <1>4

\* The next block of the chain in force is the one above the main chain.
LEMMA NextToRestore ==
  ASSUME Solid, Shape, job.pc = "restore"
  PROVE  /\ job.next \in 1 .. Len(job.old)
         /\ Len(m_blocks) \in 1 .. Len(replica) - 1
         /\ job.old[job.next] = replica[Len(m_blocks) + 1]
         /\ m_blocks = SubSeq(replica, 1, Len(m_blocks))
         /\ job.next < Len(job.old) <=> Len(m_blocks) + 1 < Len(replica)
<1>0. /\ m_blocks \in Seq(Blocks) /\ Len(m_blocks) \in Nat /\ Len(m_blocks) >= 1
      /\ replica \in Seq(Blocks) /\ Len(replica) \in Nat
      /\ job.split \in Nat \ {0} /\ job.old \in Seq(Blocks) /\ Len(job.old) \in Nat
      /\ job.next \in 1 .. Len(job.old)
  BY DEF Solid, LedgerInv, TypeInv, TypeOK, Job, Chain, JobOK
<1>1. Popped(job.split) /\ Len(m_blocks) = job.split + job.next - 1 /\ Kept(Len(m_blocks))
  BY DEF Shape, Progress
<1>2. Len(replica) = job.split + Len(job.old)
  BY <1>1 DEF Popped
<1>3. /\ Len(m_blocks) \in 1 .. Len(replica) - 1 /\ job.split + job.next = Len(m_blocks) + 1
      /\ job.next < Len(job.old) <=> Len(m_blocks) + 1 < Len(replica)
  <2>1. \A m, l, s, k, o \in Nat :
          s >= 1 /\ k \in 1 .. o /\ m = s + k - 1 /\ l = s + o =>
            m \in 1 .. l - 1 /\ s + k = m + 1 /\ (k < o <=> m + 1 < l)
    OBVIOUS
  <2>2. job.next \in Nat /\ job.split \in Nat /\ job.split >= 1
    BY <1>0
  <2>3. QED
    BY <1>0, <1>1, <1>2, <2>1, <2>2
<1>4. job.old[job.next] = replica[job.split + job.next]
  BY Zenon, <1>0, <1>1 DEF Popped
<1>5. m_blocks = SubSeq(replica, 1, Len(m_blocks))
  <2> DEFINE n == Len(m_blocks)
  <2>1. n \in 1 .. Len(replica) /\ \A i \in 1 .. n : m_blocks[i] = replica[i]
    BY <1>0, <1>1, <1>3 DEF Kept
  <2>2. /\ SubSeq(replica, 1, n) \in Seq(Blocks) /\ Len(SubSeq(replica, 1, n)) = n
        /\ \A i \in 1 .. n : SubSeq(replica, 1, n)[i] = replica[i]
    BY <1>0, <2>1
  <2>3. QED
    BY <1>0, <2>1, <2>2
<1>6. QED
  BY <1>0, <1>3, <1>4, <1>5

\* It passed every check on top of those blocks when it was first pushed, no
\* chain transaction has its key images, so its transactions are in the pool.
LEMMA RestoreWorks ==
  ASSUME Quiet, Solid, Shape, job.pc = "restore"
  PROVE  PushSucceeds(job.old[job.next])
<1> DEFINE n == Len(m_blocks)
           b == job.old[job.next]
<1>0. InForce
  BY DEF Shape
<1>1. /\ n \in 1 .. Len(replica) - 1 /\ b = replica[n + 1]
      /\ m_blocks = SubSeq(replica, 1, n)
  BY NextToRestore
<1>2. replica \in Seq(Blocks) /\ m_blocks \in Seq(Blocks)
  BY <1>0 DEF InForce, Solid, LedgerInv, TypeInv, TypeOK, Chain
<1> HIDE DEF n, b
<1>3. CheckedOn(m_blocks, b, now)
  <2>1. CheckedOn(SubSeq(replica, 1, n), replica[n + 1], now)
    BY <1>0, <1>1 DEF InForce, Sound
  <2>2. QED
    BY <1>1, <2>1
<1>4. b \in Blocks /\ n + 1 \in DOMAIN replica
  BY <1>1, <1>2
<1>5. TxsOf(b) \subseteq m_tx_pool \cup m_transactionMap
  BY <1>0, <1>1, <1>4 DEF InForce, ChainTxs
<1>6. ASSUME NEW t \in TxsOf(b), t \in m_transactionMap PROVE FALSE
  <2>1. PICK k \in DOMAIN transactionHashes[b] : t = transactionHashes[b][k]
    BY DEF TxsOf
  <2>2. keyImages[t] \cap ImagesOf(ChainTxs(m_blocks)) = {}
    BY Zenon, <1>3, <2>1 DEF CheckedOn, UnspentOn
  <2>3. keyImages[t] \subseteq ImagesOf(ChainTxs(m_blocks))
    BY Zenon, <1>6 DEF Solid, IndexesMatchChain, ImagesOf
  <2>4. keyImages[t] # {}
    BY <1>4, TxsOfType, DataAssumption
  <2>5. QED
    BY <2>2, <2>3, <2>4
<1>7. TxsOf(b) \subseteq m_tx_pool
  BY <1>5, <1>6
<1>8. PushSucceeds(b)
  BY <1>3, <1>4, <1>7, PushIsCheck DEF Quiet, Solid
<1>9. QED
  BY <1>8 DEF b

\* The rollback gives back the chain in force, block by block.
LEMMA RestoreShape ==
  ASSUME Quiet, Solid, Shape, Restore
  PROVE  IF job.next < Len(job.old) THEN job'.pc = "restore" /\ Branch' /\ Progress'
                                    ELSE job' = NoJob /\ replica' = m_blocks'
<1> DEFINE n == Len(m_blocks)
           b == job.old[job.next]
<1>0. /\ ChainTypeOK /\ m_blocks \in Seq(Blocks) /\ Len(m_blocks) \in Nat
      /\ replica \in Seq(Blocks) /\ Len(replica) \in Nat
      /\ job \in Job /\ job.pc = "restore" /\ job.split \in Nat \ {0} /\ job.next \in Nat
  BY DEF Solid, LedgerInv, TypeInv, TypeOK, Job, Chain, ChainTypeOK, Restore
<1>1. /\ n \in 1 .. Len(replica) - 1 /\ b = replica[n + 1]
      /\ m_blocks = SubSeq(replica, 1, n)
      /\ job.next < Len(job.old) <=> n + 1 < Len(replica)
      /\ job.next >= 1
  BY <1>0, NextToRestore
<1>2. /\ Branch /\ Popped(job.split) /\ n = job.split + job.next - 1
      /\ \A i \in 1 .. n : m_blocks[i] = replica[i]
  BY Zenon, <1>0 DEF Shape, Progress, Kept
<1>3. PushSucceeds(b) /\ b \in Blocks /\ m_blocks' = Append(m_blocks, b) /\ replica' = replica
  BY <1>0, <1>1, RestoreWorks DEF Restore, pushBlock
<1>4. /\ Len(m_blocks') = n + 1 /\ m_blocks'[n + 1] = b
      /\ \A i \in 1 .. n : m_blocks'[i] = m_blocks[i]
  BY <1>0, <1>3
<1>5. ASSUME NEW i \in 1 .. n + 1 PROVE m_blocks'[i] = replica[i]
  <2>1. i = n + 1 \/ i \in 1 .. n
    BY <1>0
  <2>2. QED
    BY Zenon, <1>1, <1>2, <1>4, <2>1
<1>6. CASE job.next < Len(job.old)
  <2>1. /\ job'.pc = "restore" /\ job'.next = job.next + 1
        /\ job'.alt = job.alt /\ job'.split = job.split /\ job'.discard = job.discard
        /\ job'.old = job.old /\ m_alternative_chains' = m_alternative_chains
    BY <1>0, <1>3, <1>6 DEF Restore, Job
  <2>1a. job.split <= n /\ n + 1 = job.split + (job.next + 1) - 1
    <3>1. \A m, l, k \in Nat : k >= 1 /\ m = l + k - 1 => l <= m /\ m + 1 = l + (k + 1) - 1
      OBVIOUS
    <3>2. QED
      BY Zenon, <1>0, <1>1, <1>2, <3>1
  <2>2. Kept(job.split)' /\ Kept(Len(m_blocks))'
    <3>1. \A i \in 1 .. job.split : i \in 1 .. n + 1
      BY <1>0, <2>1a
    <3>2. Kept(job.split)'
      BY <1>3, <1>5, <2>1, <3>1 DEF Kept
    <3>3. Kept(Len(m_blocks))'
      BY <1>3, <1>4, <1>5 DEF Kept
    <3>4. QED
      BY <3>2, <3>3
  <2>3. job.split <= Len(m_blocks') /\ Len(m_blocks') = job'.split + job'.next - 1
    BY <1>0, <1>4, <2>1, <2>1a
  <2>4. Branch' /\ Popped(job.split)'
    BY <1>2, <1>3, <2>1, <2>2, <2>3 DEF Branch, Popped
  <2>5. QED
    BY Zenon, <1>6, <2>1, <2>2, <2>3, <2>4 DEF Progress
<1>7. CASE ~(job.next < Len(job.old))
  <2>1. job' = NoJob
    BY <1>0, <1>3, <1>7 DEF Restore
  <2>2. Len(replica) = n + 1
    BY <1>0, <1>1, <1>7
  <2>3. m_blocks' \in Seq(Blocks)
    BY <1>0, <1>3
  <2>4. replica = m_blocks'
    BY <1>0, <1>4, <1>5, <2>2, <2>3
  <2>5. QED
    BY <1>3, <1>7, <2>1, <2>4
<1>8. QED
  BY <1>6, <1>7

\* The elements of a concatenation.
LEMMA Concatenation ==
  \A p, q \in Seq(Blocks) :
    /\ p \o q \in Seq(Blocks) /\ Len(p \o q) = Len(p) + Len(q)
    /\ \A i \in 1 .. Len(p) : (p \o q)[i] = p[i]
    /\ \A i \in 1 .. Len(q) : (p \o q)[Len(p) + i] = q[i]
OBVIOUS

\* ChainSwitchMessage describes the main chain that Finish leaves.
LEMMA FinishAnnounces ==
  ASSUME Solid, Shape, Finish
  PROVE  job' = NoJob /\ m_blocks' = m_blocks /\ replica' = m_blocks
<1>0. /\ m_blocks \in Seq(Blocks) /\ Len(m_blocks) \in Nat
      /\ replica \in Seq(Blocks) /\ Len(replica) \in Nat
      /\ job.split \in Nat \ {0} /\ job.alt \in Seq(Blocks) /\ Len(job.alt) \in Nat
      /\ job.pc = "finish"
  BY DEF Solid, LedgerInv, TypeInv, TypeOK, Job, Chain, Finish
<1>1. Branch /\ Connected(Len(job.alt))
  BY <1>0 DEF Shape, Progress
<1> DEFINE p == FirstN(replica, job.split)
<1>2. p = SubSeq(replica, 1, job.split) /\ job.split < Len(replica)
  BY Zenon, <1>1 DEF FirstN, Branch
<1>3. /\ p \in Seq(Blocks) /\ Len(p) = job.split
      /\ \A i \in 1 .. job.split : p[i] = replica[i]
  BY <1>0, <1>2
<1> HIDE DEF p
<1>4. /\ p \o job.alt \in Seq(Blocks) /\ Len(p \o job.alt) = job.split + Len(job.alt)
      /\ \A i \in 1 .. job.split : (p \o job.alt)[i] = p[i]
      /\ \A i \in 1 .. Len(job.alt) : (p \o job.alt)[job.split + i] = job.alt[i]
  <2>1. /\ p \o job.alt \in Seq(Blocks) /\ Len(p \o job.alt) = Len(p) + Len(job.alt)
        /\ \A i \in 1 .. Len(p) : (p \o job.alt)[i] = p[i]
        /\ \A i \in 1 .. Len(job.alt) : (p \o job.alt)[Len(p) + i] = job.alt[i]
    BY <1>0, <1>3, Concatenation, Zenon
  <2>2. QED
    BY Zenon, <1>3, <2>1
<1>5. ASSUME NEW i \in 1 .. Len(m_blocks) PROVE (p \o job.alt)[i] = m_blocks[i]
  <2>1. CASE i \in 1 .. job.split
    BY Zenon, <1>1, <1>3, <1>4, <2>1 DEF Branch, Kept
  <2>2. CASE i \notin 1 .. job.split
    <3>0. Len(m_blocks) = job.split + Len(job.alt)
      BY <1>1 DEF Connected
    <3>1. /\ i - job.split \in 1 .. Len(job.alt) /\ job.split + (i - job.split) = i
      BY <1>0, <2>2, <3>0
    <3>2. m_blocks[job.split + (i - job.split)] = job.alt[i - job.split]
      BY <1>1, <3>1 DEF Connected
    <3>3. QED
      BY Zenon, <1>4, <3>1, <3>2
  <2>3. QED
    BY Zenon, <2>1, <2>2
<1>6. p \o job.alt = m_blocks
  <2>1. Len(m_blocks) = Len(p \o job.alt)
    BY <1>1, <1>4 DEF Connected
  <2>2. QED
    BY SMTT(30), <1>0, <1>4, <1>5, <2>1
<1>7. QED
  BY <1>6 DEF Finish, chainVars, p

-----------------------------------------------------------------------------
(* The invariant.                                                          *)

\* It holds initially.
LEMMA SwitchInit == Init => SwitchInv
<1> SUFFICES ASSUME Init PROVE SwitchInv
  OBVIOUS
<1>1. /\ m_blocks = <<Genesis>> /\ m_transactionMap = {} /\ m_spent_keys = {}
      /\ m_tx_pool = {} /\ transactionHashes[Genesis] = << >>
  BY Zenon, DataAssumption DEF Init
<1>2. ChainTxs(<<Genesis>>) = {} /\ ImagesOf({}) = {}
  BY <1>1 DEF ChainTxs, TxsOf, ImagesOf
<1>3. IndexesMatchChain /\ PoolAndChainDisjoint
  BY Zenon, <1>1, <1>2 DEF IndexesMatchChain, PoolAndChainDisjoint
<1>4. Sound(m_blocks, now)
  BY <1>1 DEF Sound
<1>5. QED
  BY Zenon, <1>3, <1>4, LedgerInit DEF SwitchInv, Solid, Shape, Init, NoJob

\* Every step keeps it.
LEMMA SwitchNext == ASSUME Quiet, SwitchInv, [Next]_vars PROVE SwitchInv'
<1>0. Solid /\ Shape /\ Solid' /\ job \in Job
  BY Zenon, SolidStep DEF SwitchInv, Solid, LedgerInv, TypeInv, TypeOK
<1> SUFFICES Shape'
  BY <1>0 DEF SwitchInv
<1>1. ASSUME UNCHANGED <<m_blocks, m_alternative_chains, job, replica>> PROVE Shape'
  <2>1. CASE job.pc = "idle"
    BY <1>0, <1>1, <2>1 DEF Shape
  <2>2. CASE job.pc # "idle"
    <3>1. InForce'
      BY <1>0, <1>1, <2>2, InForceStep DEF Shape
    <3>2. Branch'
      BY Zenon, <1>0, <1>1, <2>2 DEF Shape, Branch, Kept
    <3>2a. Progress'
      <4>1. Progress
        BY <1>0, <2>2 DEF Shape
      <4>2. /\ Popped(Len(m_blocks))' <=> Popped(Len(m_blocks))
            /\ Popped(job.split)' <=> Popped(job.split)
        BY <1>1 DEF Popped
      <4>3. Kept(Len(m_blocks))' <=> Kept(Len(m_blocks))
        BY <1>1 DEF Kept
      <4>4. /\ Connected(job.next - 1)' <=> Connected(job.next - 1)
            /\ Connected(Len(job.alt))' <=> Connected(Len(job.alt))
        BY <1>1 DEF Connected
      <4>5. QED
        BY <1>1, <4>1, <4>2, <4>3, <4>4 DEF Progress
    <3>3. QED
      BY <1>1, <2>2, <3>1, <3>2, <3>2a DEF Shape
  <2>3. QED
    BY <2>1, <2>2
<1>2. ASSUME job.pc # "idle", job'.pc # "idle", replica' = replica, Branch', Progress'
      PROVE  Shape'
  BY <1>0, <1>2, InForceStep DEF Shape
<1>3. ASSUME job' = NoJob, replica' = m_blocks' PROVE Shape'
  BY Zenon, <1>3 DEF Shape, NoJob
<1>4. ASSUME NEW b \in Blocks, addNewBlock(b) PROVE Shape'
  <2>0. job.pc = "idle" /\ job = NoJob /\ replica = m_blocks
    BY <1>0, <1>4 DEF addNewBlock, Shape
  <2>1. CASE haveBlock(b)
    BY <1>1, <1>4, <2>1 DEF addNewBlock, chainVars
  <2>2. CASE ~haveBlock(b) /\ Parent(b) = getTailId
    <3>1. /\ pushBlock(b) /\ now' = now /\ job' = job
          /\ replica' = IF PushSucceeds(b) THEN Append(replica, b) ELSE replica
      BY <1>4, <2>2 DEF addNewBlock, envVars
    <3>2. m_blocks' = IF PushSucceeds(b) THEN Append(m_blocks, b) ELSE m_blocks
      BY Zenon, <1>0, <3>1, PushMoves
      DEF Quiet, Solid, LedgerInv, TypeInv, TypeOK, ChainTypeOK, Chain
    <3>3. QED
      BY <1>3, <2>0, <3>1, <3>2
  <2>3. CASE ~haveBlock(b) /\ Parent(b) # getTailId
    <3>0. UNCHANGED <<m_blocks, replica>> /\ handle_alternative_block(b)
      BY Zenon, <1>4, <2>3 DEF addNewBlock, handle_alternative_block, chainVars
    <3>1. CASE AltAccepted(b) /\ (BringsCheckpoint(b) \/ IsHeavier(b))
      <4>1. Branch' /\ Progress' /\ replica' = replica
        BY <1>0, <1>4, <2>3, <3>1, SwitchStarts
      <4>2. InForce'
        <5>1. UNCHANGED <<m_tx_pool, m_transactionMap, now>>
          BY Zenon, <1>4, <3>0 DEF addNewBlock, handle_alternative_block, chainVars, envVars
        <5>2. QED
          BY <1>0, <2>0, <3>0, <5>1, InForceIdle DEF InForce, PathTo
      <4>3. job'.pc = "disconnect"
        BY <3>0, <3>1 DEF handle_alternative_block, SwitchTo
      <4>4. QED
        BY <4>1, <4>2, <4>3 DEF Shape
    <3>2. CASE ~(AltAccepted(b) /\ (BringsCheckpoint(b) \/ IsHeavier(b)))
      <4>1. job' = NoJob
        BY <2>0, <3>0, <3>2 DEF handle_alternative_block
      <4>2. QED
        BY <1>3, <2>0, <3>0, <4>1
    <3>3. QED
      BY <3>1, <3>2
  <2>4. QED
    BY <2>1, <2>2, <2>3
<1>5. CASE Disconnect
  <2>1. job.pc # "idle" /\ job'.pc # "idle" /\ replica' = replica
    BY <1>0, <1>5 DEF Disconnect, Job
  <2>2. QED
    BY <1>0, <1>2, <1>5, <2>1, DisconnectShape
<1>6. CASE Connect
  <2>1. job.pc # "idle" /\ job'.pc # "idle" /\ replica' = replica
    BY <1>0, <1>6 DEF Connect, Job, AfterConnect
  <2>2. QED
    BY <1>0, <1>2, <1>6, <2>1, ConnectShape
<1>7. CASE Reinsert
  <2>1. job.pc # "idle" /\ job'.pc # "idle" /\ replica' = replica
    BY Zenon, <1>0, <1>7 DEF Reinsert, Job
  <2>2. QED
    BY <1>0, <1>2, <1>7, <2>1, ReinsertShape
<1>8. CASE Undo
  <2>1. job.pc # "idle" /\ job'.pc # "idle" /\ replica' = replica
    BY <1>0, <1>8 DEF Undo, Job
  <2>2. QED
    BY <1>0, <1>2, <1>8, <2>1, UndoShape
<1>9. CASE Restore
  <2>1. job.pc # "idle" /\ replica' = replica
    BY <1>9 DEF Restore
  <2>2. QED
    BY <1>0, <1>2, <1>3, <1>9, <2>1, RestoreShape
<1>10. CASE Finish
  BY <1>0, <1>3, <1>10, FinishAnnounces
<1>11. ~PopFails
  BY <1>0, PopWorks DEF PopFails, Solid, LedgerInv, TypeInv, TypeOK, ChainTypeOK, Chain
<1>12. ASSUME NEW t \in Txs, RelayTx(t) \/ KeepTx(t) \/ ExpireTx(t) PROVE Shape'
  BY Zenon, <1>1, <1>12 DEF RelayTx, KeepTx, ExpireTx
<1>13. CASE Tick
  BY <1>1, <1>13 DEF Tick, chainVars
<1>14. ~Restart /\ ~Crash
  BY <1>0 DEF Restart, Crash, Solid, Quiet
<1>15. CASE UNCHANGED vars
  BY <1>1, <1>15 DEF vars, chainVars
<1>16. CASE SwitchStep
  BY <1>5, <1>6, <1>7, <1>8, <1>9, <1>10, <1>11, <1>16 DEF SwitchStep
<1>17. QED
  BY <1>4, <1>12, <1>13, <1>14, <1>15, <1>16 DEF Next

\* The invariant, for a node that neither crashes nor meets an oversized block.
LEMMA SwitchAlways == ASSUME Quiet PROVE Spec => []SwitchInv
<1>1. SwitchInv /\ [Next]_vars => SwitchInv'
  BY SwitchNext
<1>2. QED
  BY <1>1, SwitchInit, PTL DEF Spec

\* The rollback of a reorganisation always succeeds: whichever block of the
\* branch failed, every block of the old chain can be pushed again, so the
\* case the code calls PANIC is not reached.
THEOREM RollbackIsSafe == ASSUME Quiet PROVE Spec => []RollbackSucceeds
<1>1. SwitchInv => RollbackSucceeds
  BY RestoreWorks DEF SwitchInv, RollbackSucceeds
<1>2. QED
  BY <1>1, SwitchAlways, PTL

\* NewBlockMessage and ChainSwitchMessage let a listener rebuild the main
\* chain: whenever no reorganisation is under way its copy is m_blocks.
THEOREM ListenersFollow == ASSUME Quiet PROVE Spec => []ReplicaIsMainChain
<1>1. SwitchInv => ReplicaIsMainChain
  BY DEF SwitchInv, Shape, ReplicaIsMainChain
<1>2. QED
  BY <1>1, SwitchAlways, PTL

\* No transaction is at once in the pool and in the main chain, at any step of
\* a reorganisation or of its rollback.
THEOREM PoolNeverOverlaps == ASSUME Quiet PROVE Spec => []PoolAndChainDisjoint
<1>1. SwitchInv => PoolAndChainDisjoint
  BY DEF SwitchInv, Solid
<1>2. QED
  BY <1>1, SwitchAlways, PTL

-----------------------------------------------------------------------------
(* The refinement.  The tip and the known blocks of HeaviestChain are those *)
(* of the chain in force and the alternative blocks.                        *)

Tip == replica[Len(replica)]
Known == Range(replica) \cup m_alternative_chains

\* The mapping of Blockchain, restated with the chain in force.
LEMMA Mapping == SwitchInv => CommittedTip = Tip /\ KnownBlocks = Known
<1> SUFFICES ASSUME SwitchInv PROVE CommittedTip = Tip /\ KnownBlocks = Known
  OBVIOUS
<1>0. /\ m_blocks \in Seq(Blocks) /\ Len(m_blocks) \in Nat
      /\ replica \in Seq(Blocks) /\ Len(replica) \in Nat /\ Shape
      /\ job.split \in Nat \ {0} /\ job.old \in Seq(Blocks) /\ Len(job.old) \in Nat
      /\ job.alt \in Seq(Blocks) /\ Len(job.alt) \in Nat /\ job \in Job
  BY DEF SwitchInv, Solid, LedgerInv, TypeInv, TypeOK, Job, Chain
<1>1. CASE job.pc = "idle"
  <2>1. job.old = << >> /\ replica = m_blocks
    BY <1>0, <1>1 DEF Shape, NoJob
  <2>2. CommittedTip = Tip
    BY <2>1 DEF CommittedTip, Tip, getTailId
  <2>3. Range(job.old) = {}
    BY <2>1
  <2>4. KnownBlocks = Known
    <3> HIDE DEF Range
    <3>1. QED
      BY <2>1, <2>3 DEF KnownBlocks, Known
  <2>5. QED
    BY <2>2, <2>4
<1>2. CASE job.pc # "idle"
  <2>0. Branch /\ Progress
    BY <1>0, <1>2 DEF Shape
  <2>1. PICK n \in 1 .. Len(m_blocks) :
          /\ Kept(n) /\ Popped(n)
          /\ n = IF job.pc = "disconnect" THEN Len(m_blocks) ELSE job.split
    <3>1. CASE job.pc = "disconnect"
      BY <1>0, <2>0, <3>1 DEF Progress
    <3>2. CASE job.pc # "disconnect"
      BY <1>0, <2>0, <3>2 DEF Progress, Branch
    <3>3. QED
      BY <3>1, <3>2
  <2>2. Len(replica) = n + Len(job.old)
    BY <2>1 DEF Popped
  <2>3. CommittedTip = Tip
    <3>1. CASE job.old = << >>
      <4>1. Len(replica) = n
        BY <2>2, <3>1
      <4>2. n = Len(m_blocks)
        BY <2>0, <2>1, <4>1 DEF Branch
      <4>3. QED
        BY <1>0, <2>1, <3>1, <4>1, <4>2 DEF Kept, CommittedTip, Tip, getTailId
    <3>2. CASE job.old # << >>
      <4>1. Len(job.old) \in 1 .. Len(job.old)
        BY <1>0, <3>2
      <4>2. QED
        BY <2>1, <2>2, <3>2, <4>1 DEF Popped, CommittedTip, Tip
    <3>3. QED
      BY <3>1, <3>2
  <2>4. Range(job.old) \subseteq Range(replica)
    <3>1. ASSUME NEW i \in 1 .. Len(job.old) PROVE job.old[i] \in Range(replica)
      <4>1. n + i \in DOMAIN replica
        BY <1>0, <2>2
      <4>2. QED
        BY <2>1, <4>1 DEF Popped
    <3>2. DOMAIN job.old = 1 .. Len(job.old)
      BY <1>0
    <3>3. QED
      BY <3>1, <3>2
  <2>5. Range(replica) \subseteq Range(m_blocks) \cup Range(job.old)
    <3>1. ASSUME NEW i \in 1 .. Len(replica)
          PROVE  replica[i] \in Range(m_blocks) \cup Range(job.old)
      <4>1. CASE i <= n
        <5>1. i \in 1 .. n /\ i \in DOMAIN m_blocks
          BY <1>0, <4>1
        <5>2. QED
          BY <2>1, <5>1 DEF Kept
      <4>2. CASE ~(i <= n)
        <5>1. i - n \in 1 .. Len(job.old) /\ n + (i - n) = i /\ i - n \in DOMAIN job.old
          BY <1>0, <2>2, <4>2
        <5>2. job.old[i - n] = replica[n + (i - n)]
          BY Zenon, <2>1, <5>1 DEF Popped
        <5>3. QED
          BY <5>1, <5>2
      <4>3. QED
        BY <4>1, <4>2
    <3>2. QED
      BY <1>0, <3>1
  <2>6. Range(m_blocks) \subseteq Range(replica) \cup m_alternative_chains
    <3>1. ASSUME NEW i \in 1 .. Len(m_blocks)
          PROVE  m_blocks[i] \in Range(replica) \cup m_alternative_chains
      <4>0. Range(job.alt) \subseteq m_alternative_chains
        BY <2>0 DEF Branch
      <4>1. CASE i <= n
        <5>1. i \in 1 .. n /\ i \in DOMAIN replica
          BY <1>0, <2>2, <4>1
        <5>2. QED
          BY <2>1, <5>1 DEF Kept
      <4>2. CASE ~(i <= n) /\ job.pc = "restore"
        <5>1. Kept(Len(m_blocks)) /\ Len(m_blocks) \in 1 .. Len(replica) - 1
          BY <1>0, <2>0, <4>2, NextToRestore DEF Progress, SwitchInv
        <5>2. i \in DOMAIN replica
          BY <1>0, <5>1
        <5>3. QED
          BY <5>1, <5>2 DEF Kept
      <4>3. CASE ~(i <= n) /\ job.pc = "undo"
        <5>1. i \in job.split + 1 .. Len(m_blocks)
          BY <1>0, <2>1, <4>3
        <5>2. QED
          BY <2>0, <4>0, <4>3, <5>1 DEF Progress
      <4>4. CASE ~(i <= n) /\ job.pc \in {"connect", "reinsert", "finish"}
        <5>1. PICK k \in 0 .. Len(job.alt) : Connected(k)
          <6>1. CASE job.pc = "connect"
            <7>1. job.next \in 1 .. Len(job.alt)
              BY <6>1 DEF SwitchInv, Solid, LedgerInv, TypeInv, JobOK
            <7>2. job.next - 1 \in 0 .. Len(job.alt)
              BY <1>0, <7>1
            <7>3. QED
              BY <2>0, <6>1, <7>2 DEF Progress
          <6>2. CASE job.pc # "connect"
            BY <1>0, <2>0, <4>4, <6>2 DEF Progress
          <6>3. QED
            BY <6>1, <6>2
        <5>2. Len(m_blocks) = job.split + k
          BY <5>1 DEF Connected
        <5>3. /\ i - job.split \in 1 .. k /\ job.split + (i - job.split) = i
              /\ i - job.split \in DOMAIN job.alt
          BY SMTT(30), <1>0, <2>1, <4>4, <5>2
        <5>4. m_blocks[job.split + (i - job.split)] = job.alt[i - job.split]
          BY <5>1, <5>3 DEF Connected
        <5>5. QED
          BY <4>0, <5>3, <5>4
      <4>5. QED
        BY <1>0, <1>2, <2>1, <4>1, <4>2, <4>3, <4>4 DEF Job
    <3>2. QED
      BY <1>0, <3>1
  <2>7. QED
    BY <2>3, <2>4, <2>5, <2>6 DEF KnownBlocks, Known
<1>3. QED
  BY <1>1, <1>2

\* What a step does to the tip and the known blocks.
StepsTo(t, k) == Tip' = t /\ Known' = k

\* The chain in force is the path to its tip.
LEMMA TipPath ==
  ASSUME SwitchInv
  PROVE  /\ InForce /\ Tip \in Blocks /\ Promise!OnPath(Tip) = Range(replica)
<1>1. InForce
  BY InForceIdle DEF SwitchInv, Shape
<1>2. /\ replica \in Seq(Blocks) /\ Len(replica) >= 1 /\ Tip \in Blocks
      /\ replica = Append(ancestry[Tip], Tip) /\ DOMAIN replica = 1 .. Len(replica)
  BY <1>1 DEF InForce, PathTo, Tip
<1>3. QED
  BY <1>1, <1>2 DEF Promise!OnPath, Promise!Path

\* A block pushed on the tail, or stored beside the main chain, was unknown,
\* and its parent was known.
LEMMA RefineAdd ==
  ASSUME Quiet, SwitchInv, NEW b \in Blocks, addNewBlock(b)
  PROVE  \/ StepsTo(Tip, Known)
         \/ /\ b \notin Known /\ b # Genesis /\ Parent(b) \in Known
            /\ \/ StepsTo(Tip, Known \cup {b})
               \/ StepsTo(b, Known \cup {b})
                  /\ cumulative_difficulty[Tip] < cumulative_difficulty[b]
<1>0. /\ m_blocks \in Seq(Blocks) /\ Len(m_blocks) >= 1 /\ replica = m_blocks
      /\ ChainTypeOK
  BY DEF SwitchInv, Solid, LedgerInv, TypeInv, TypeOK, Chain, ChainTypeOK, Shape, addNewBlock
<1>1. Tip = getTailId /\ Tip \in Range(replica)
  BY <1>0 DEF Tip, getTailId
<1>2. CASE haveBlock(b)
  BY Zenon, <1>2 DEF addNewBlock, StepsTo, Tip, Known
<1>3. CASE ~haveBlock(b) /\ Parent(b) = getTailId
  <2>0. b \notin Known /\ Parent(b) \in Known
    BY <1>0, <1>1, <1>3 DEF haveBlock, Known
  <2>1. m_alternative_chains' = m_alternative_chains
    BY <1>3 DEF addNewBlock
  <2>2. CASE PushSucceeds(b)
    <3>1. replica' = Append(replica, b) /\ b # Genesis
      BY Zenon, <1>3, <2>2 DEF addNewBlock, PushSucceeds, PassesChecks
    <3>2. /\ Len(replica') = Len(replica) + 1 /\ replica'[Len(replica) + 1] = b
          /\ DOMAIN replica' = DOMAIN replica \cup {Len(replica) + 1}
          /\ \A i \in DOMAIN replica : replica'[i] = replica[i]
      <4>1. replica \in Seq(Blocks)
        BY <1>0
      <4>2. QED
        BY SMTT(30), <3>1, <4>1
    <3>3. Range(replica') = Range(replica) \cup {b}
      BY <3>2
    <3>4. cumulative_difficulty[Tip] < cumulative_difficulty[b]
      BY <1>1, <1>3, <3>1, BlocksAssumption DEF IsBlockTree, Parent
    <3>5. QED
      BY <2>0, <2>1, <3>1, <3>2, <3>3, <3>4 DEF StepsTo, Tip, Known
  <2>3. CASE ~PushSucceeds(b)
    BY Zenon, <1>3, <2>1, <2>3 DEF addNewBlock, StepsTo, Tip, Known
  <2>4. QED
    BY <2>2, <2>3
<1>4. CASE ~haveBlock(b) /\ Parent(b) # getTailId
  <2>1. replica' = replica /\ handle_alternative_block(b)
    BY <1>4 DEF addNewBlock, handle_alternative_block
  <2>2. CASE AltAccepted(b)
    BY Zenon, <1>0, <1>4, <2>1, <2>2
    DEF handle_alternative_block, AltAccepted, haveBlock, StepsTo, Tip, Known
  <2>3. CASE ~AltAccepted(b)
    BY Zenon, <2>1, <2>3 DEF handle_alternative_block, StepsTo, Tip, Known
  <2>4. QED
    BY <2>2, <2>3
<1>5. QED
  BY <1>2, <1>3, <1>4

\* A reorganisation is one step to a heavier tip, whose path is known.
LEMMA RefineFinish ==
  ASSUME Quiet, DOMAIN checkpoints = {}, SwitchInv, SwitchInv', Finish
  PROVE  /\ Known' = Known /\ Tip' \in Blocks
         /\ cumulative_difficulty[Tip] < cumulative_difficulty[Tip']
         /\ Range(replica') \subseteq Known
<1>0. /\ m_blocks \in Seq(Blocks) /\ Len(m_blocks) \in Nat
      /\ replica \in Seq(Blocks) /\ Len(replica) \in Nat
      /\ job.split \in Nat \ {0} /\ job.alt \in Seq(Blocks) /\ Len(job.alt) \in Nat
      /\ job.old \in Seq(Blocks) /\ Len(job.old) \in Nat
      /\ job.pc = "finish" /\ job.discard \in BOOLEAN
  <2>1. TypeOK /\ job.pc = "finish"
    BY DEF SwitchInv, Solid, LedgerInv, TypeInv, Finish
  <2>2. QED
    BY <2>1 DEF TypeOK, Job, Chain
<1>1. Branch /\ Progress
  BY <1>0 DEF SwitchInv, Shape
<1>2. replica' = m_blocks /\ m_alternative_chains' = m_alternative_chains \ Range(job.alt)
  BY Zenon, FinishAnnounces DEF SwitchInv, Finish
<1>3. /\ Connected(Len(job.alt)) /\ Popped(job.split) /\ ~job.discard
      /\ Range(job.old) \subseteq m_alternative_chains
  BY Zenon, <1>0, <1>1 DEF Progress, Branch
<1>4. /\ Len(m_blocks) = job.split + Len(job.alt) /\ Len(job.alt) >= 1
      /\ Len(replica) = job.split + Len(job.old)
      /\ Range(job.alt) \subseteq m_alternative_chains
      /\ job.split < Len(replica)
  BY <1>1, <1>3 DEF Connected, Popped, Branch
<1>5. Tip' = job.alt[Len(job.alt)] /\ Tip' \in Blocks
  <2>1. Len(job.alt) \in 1 .. Len(job.alt)
    BY <1>0, <1>4
  <2>2. m_blocks[job.split + Len(job.alt)] = job.alt[Len(job.alt)]
    BY <1>3, <2>1 DEF Connected
  <2>3. QED
    BY <1>0, <1>2, <1>4, <2>1, <2>2 DEF Tip
<1>6. cumulative_difficulty[Tip] < cumulative_difficulty[Tip']
  BY <1>1, <1>3, <1>5 DEF Branch, Tip
<1> DEFINE low == {replica[i] : i \in 1 .. job.split}
<1>7. Range(replica) = low \cup Range(job.old)
  <2>1. ASSUME NEW i \in 1 .. Len(replica) PROVE replica[i] \in low \cup Range(job.old)
    <3>1. CASE i <= job.split
      BY <1>0, <3>1
    <3>2. CASE ~(i <= job.split)
      <4>1. /\ i - job.split \in 1 .. Len(job.old) /\ job.split + (i - job.split) = i
            /\ i - job.split \in DOMAIN job.old
        BY <1>0, <1>4, <3>2
      <4>2. job.old[i - job.split] = replica[job.split + (i - job.split)]
        BY <1>3, <4>1 DEF Popped
      <4>3. QED
        BY <4>1, <4>2
    <3>3. QED
      BY <3>1, <3>2
  <2>2. ASSUME NEW i \in 1 .. Len(job.old) PROVE job.old[i] \in Range(replica)
    <3>1. job.split + i \in DOMAIN replica
      BY <1>0, <1>4
    <3>2. QED
      BY <1>3, <3>1 DEF Popped
  <2>3. /\ DOMAIN replica = 1 .. Len(replica) /\ DOMAIN job.old = 1 .. Len(job.old)
        /\ \A i \in 1 .. job.split : i \in DOMAIN replica
    BY <1>0, <1>4
  <2>4. QED
    BY <2>1, <2>2, <2>3
<1>8. Range(m_blocks) = low \cup Range(job.alt)
  <2>1. ASSUME NEW i \in 1 .. Len(m_blocks) PROVE m_blocks[i] \in low \cup Range(job.alt)
    <3>1. CASE i <= job.split
      <4>1. i \in 1 .. job.split
        BY <1>0, <3>1
      <4>2. QED
        BY <1>1, <4>1 DEF Branch, Kept
    <3>2. CASE ~(i <= job.split)
      <4>1. /\ i - job.split \in 1 .. Len(job.alt) /\ job.split + (i - job.split) = i
            /\ i - job.split \in DOMAIN job.alt
        BY <1>0, <1>4, <3>2
      <4>2. m_blocks[job.split + (i - job.split)] = job.alt[i - job.split]
        BY <1>3, <4>1 DEF Connected
      <4>3. QED
        BY <4>1, <4>2
    <3>3. QED
      BY <3>1, <3>2
  <2>2. ASSUME NEW i \in 1 .. Len(job.alt) PROVE job.alt[i] \in Range(m_blocks)
    <3>1. job.split + i \in DOMAIN m_blocks
      BY <1>0, <1>4
    <3>2. QED
      BY <1>3, <3>1 DEF Connected
  <2>3. ASSUME NEW i \in 1 .. job.split PROVE replica[i] \in Range(m_blocks)
    <3>1. i \in DOMAIN m_blocks
      BY <1>0, <1>4
    <3>2. QED
      BY <1>1, <3>1 DEF Branch, Kept
  <2>4. DOMAIN m_blocks = 1 .. Len(m_blocks) /\ DOMAIN job.alt = 1 .. Len(job.alt)
    BY <1>0
  <2>5. QED
    BY Zenon, <2>1, <2>2, <2>3, <2>4
<1> HIDE DEF low, Range
<1>9. Known' = Known /\ Range(replica') \subseteq Known
  <2>1. /\ Known = low \cup Range(job.old) \cup m_alternative_chains
        /\ Range(replica') = low \cup Range(job.alt)
        /\ Known' = Range(replica') \cup (m_alternative_chains \ Range(job.alt))
    BY <1>2, <1>7, <1>8 DEF Known
  <2>2. QED
    BY <1>3, <1>4, <2>1
<1>10. QED
  BY <1>5, <1>6, <1>9

\* A rollback costs alternative blocks at most.
LEMMA RefineRestore ==
  ASSUME SwitchInv, Restore
  PROVE  Tip' = Tip /\ Known' \subseteq Known /\ Range(replica) \subseteq Known'
BY DEF Restore, Tip, Known

\* Every other step leaves the tip and the known blocks alone: a block offered
\* again to the container belongs to the chain in force.
LEMMA RefineRest ==
  ASSUME SwitchInv, Disconnect \/ Connect \/ Reinsert \/ Undo
  PROVE  StepsTo(Tip, Known)
<1>1. CASE Disconnect \/ Connect \/ Undo
  BY <1>1 DEF Disconnect, Connect, Undo, StepsTo, Tip, Known
<1>2. CASE Reinsert
  <2>1. /\ job.pc = "reinsert" /\ job.old \in Seq(Blocks) /\ job.next \in 1 .. Len(job.old)
        /\ job.next \in DOMAIN job.old
    BY <1>2 DEF Reinsert, SwitchInv, Solid, LedgerInv, TypeInv, TypeOK, JobOK, Job, Chain
  <2>2. CommittedTip = Tip /\ KnownBlocks = Known
    BY Mapping
  <2>3. job.old[job.next] \in Known
    BY <2>1, <2>2 DEF KnownBlocks
  <2>4. replica' = replica
    BY <1>2 DEF Reinsert
  <2>5. \/ m_alternative_chains' = m_alternative_chains
        \/ m_alternative_chains' = m_alternative_chains \cup {job.old[job.next]}
    BY <1>2 DEF Reinsert
  <2>6. QED
    BY <2>3, <2>4, <2>5 DEF StepsTo, Tip, Known
<1>3. QED
  BY <1>1, <1>2

\* Every step is a step of HeaviestChain, or none.
LEMMA RefineStep ==
  ASSUME Quiet, DOMAIN checkpoints = {}, SwitchInv, SwitchInv', [Next]_vars,
         CommittedTip = Tip, KnownBlocks = Known, CommittedTip' = Tip', KnownBlocks' = Known'
  PROVE  [Promise!Next]_(Promise!vars)
<1>0. StepsTo(Tip, Known) => UNCHANGED Promise!vars
  BY DEF StepsTo, Promise!vars
<1>1. ASSUME NEW b \in Blocks, addNewBlock(b) PROVE [Promise!Next]_(Promise!vars)
  <2>1. CASE StepsTo(Tip, Known)
    BY <1>0, <2>1
  <2>2. CASE /\ b \notin Known /\ b # Genesis /\ Parent(b) \in Known
             /\ \/ StepsTo(Tip, Known \cup {b})
                \/ StepsTo(b, Known \cup {b})
                   /\ cumulative_difficulty[Tip] < cumulative_difficulty[b]
    <3>1. ancestry[b] # << >> /\ ancestry[b][Len(ancestry[b])] \in Known
      BY <2>2, ParentInTree DEF Parent
    <3>2. Promise!Accept(Genesis, b)
      BY Zenon, <2>2, <3>1 DEF StepsTo, Promise!Accept, Promise!IsHeavier
    <3>3. QED
      BY <3>2 DEF Promise!Next
  <2>3. QED
    BY <1>1, <2>1, <2>2, RefineAdd
<1>2. CASE Finish
  <2>1. /\ Known' = Known /\ Tip' \in Blocks
        /\ cumulative_difficulty[Tip] < cumulative_difficulty[Tip']
        /\ Range(replica') \subseteq Known
    BY <1>2, RefineFinish
  <2>2. Promise!OnPath(Tip') = Range(replica')
    <3>1. /\ replica' \in Seq(Blocks) /\ Len(replica') >= 1
          /\ replica' = Append(ancestry[Tip'], Tip') /\ DOMAIN replica' = 1 .. Len(replica')
      <4>1. job'.pc = "idle" /\ replica' = m_blocks'
        BY <1>2, FinishAnnounces DEF SwitchInv, NoJob
      <4>2. ChainLinked' /\ m_blocks' \in Seq(Blocks) /\ Len(m_blocks') >= 1
        BY DEF SwitchInv, Solid, LedgerInv, Ledger, TypeInv, TypeOK, Chain
      <4>3. QED
        BY <4>1, <4>2 DEF ChainLinked, getTailId, Tip
    <3>2. QED
      BY <3>1 DEF Promise!OnPath, Promise!Path
  <2>3. Promise!Reorganise(Genesis, Tip')
    BY <2>1, <2>2 DEF Promise!Reorganise, Promise!IsHeavier
  <2>4. QED
    BY Zenon, <2>1, <2>3 DEF Promise!Next
<1>3. CASE Restore
  <2> DEFINE D == Known \ Known'
  <2>1. /\ Tip' = Tip /\ D \subseteq Known /\ D \cap Range(replica) = {}
        /\ Known' = Known \ D
    BY <1>3, RefineRestore
  <2>2. Promise!OnPath(Tip) = Range(replica)
    BY TipPath
  <2> HIDE DEF D
  <2>3. Promise!Forget(Genesis, D)
    BY Zenon, <2>1, <2>2 DEF Promise!Forget
  <2>4. QED
    BY Zenon, <2>1, <2>3 DEF Promise!Next
<1>4. CASE Disconnect \/ Connect \/ Reinsert \/ Undo
  BY <1>0, <1>4, RefineRest
<1>5. ~PopFails
  BY PopWorks
  DEF PopFails, SwitchInv, Solid, LedgerInv, TypeInv, TypeOK, ChainTypeOK, Chain
<1>6. ASSUME UNCHANGED <<replica, m_alternative_chains>> PROVE [Promise!Next]_(Promise!vars)
  BY <1>0, <1>6 DEF StepsTo, Tip, Known
<1>7. ASSUME NEW t \in Txs, RelayTx(t) \/ KeepTx(t) \/ ExpireTx(t)
      PROVE  [Promise!Next]_(Promise!vars)
  BY Zenon, <1>6, <1>7 DEF RelayTx, KeepTx, ExpireTx
<1>8. CASE Tick \/ UNCHANGED vars
  BY <1>6, <1>8 DEF Tick, vars
<1>9. ~Restart /\ ~Crash
  BY DEF Restart, Crash, SwitchInv, Solid, Quiet
<1>10. CASE SwitchStep
  BY <1>2, <1>3, <1>4, <1>5, <1>10 DEF SwitchStep
<1>11. QED
  BY <1>1, <1>7, <1>8, <1>9, <1>10 DEF Next

\* Without checkpoints the block storage implements HeaviestChain: to anyone
\* outside its lock a reorganisation is one step to a heavier tip, however
\* many blocks it pops, pushes and offers again, and one that fails is no step
\* at all, but for the invalid blocks it drops.
THEOREM Refinement ==
  ASSUME Quiet, DOMAIN checkpoints = {} PROVE Spec => ImplementsHeaviestChain
<1>1. Init => Promise!Init
  <2> SUFFICES ASSUME Init PROVE Promise!Init
    OBVIOUS
  <2>1. /\ m_blocks = <<Genesis>> /\ m_alternative_chains = {} /\ job.old = << >>
        /\ ancestry[Genesis] = << >>
    BY BlocksAssumption DEF Init, NoJob, IsBlockTree
  <2>2. CommittedTip = Genesis /\ KnownBlocks = {Genesis}
    BY <2>1 DEF CommittedTip, KnownBlocks, getTailId
  <2>3. Promise!OnPath(Genesis) = {Genesis}
    BY <2>1 DEF Promise!OnPath, Promise!Path
  <2>4. QED
    BY <2>2, <2>3 DEF Promise!Init
<1>2. SwitchInv /\ [Next]_vars => SwitchInv'
  BY SwitchNext
<1>3. ASSUME SwitchInv, SwitchInv', [Next]_vars,
             CommittedTip = Tip /\ KnownBlocks = Known,
             (CommittedTip = Tip /\ KnownBlocks = Known)'
      PROVE  [Promise!Next]_(Promise!vars)
  BY <1>3, RefineStep
<1>4. QED
  BY <1>1, <1>2, <1>3, SwitchInit, Mapping, PTL
  DEF Spec, ImplementsHeaviestChain, Promise!Spec

-----------------------------------------------------------------------------
(* Checkpoints are final: a reorganisation that would remove the block of  *)
(* a checkpoint is never started, and one that brought such a block is     *)
(* never taken back.                                                       *)

\* The ancestor at position i of a path has height i - 1.
LEMMA AncestorHeight ==
  ASSUME NEW b \in Blocks, NEW i \in 1 .. Len(ancestry[b])
  PROVE  ancestry[b][i] \in Blocks /\ Height(ancestry[b][i]) = i - 1
<1> DEFINE Bad(x, j) == j \in 1 .. Len(ancestry[x]) /\ Height(ancestry[x][j]) # j - 1
           T == {n \in Nat : \E x \in Blocks : Len(ancestry[x]) = n /\ \E j : Bad(x, j)}
<1>0. \A x \in Blocks : ancestry[x] \in Seq(Blocks) /\ Len(ancestry[x]) \in Nat
  BY BlocksAssumption DEF IsBlockTree
<1>1. ASSUME T # {} PROVE FALSE
  <2>1. PICK n \in T : \A m \in T : n <= m
    <3>1. T \subseteq Nat
      OBVIOUS
    <3> HIDE DEF T
    <3> QED BY Zenon, <1>1, <3>1, LeastNatural
  <2>2. PICK x \in Blocks : Len(ancestry[x]) = n /\ \E j : Bad(x, j)
    OBVIOUS
  <2>2a. PICK j : Bad(x, j)
    BY <2>2
  <2>3. x # Genesis
    BY <2>2a, BlocksAssumption DEF IsBlockTree
  <2> DEFINE p == Parent(x)
  <2>4. p \in Blocks /\ ancestry[x] = Append(ancestry[p], p)
    BY <2>3, ParentInTree
  <2> HIDE DEF p
  <2>5. /\ Len(ancestry[p]) = n - 1 /\ ancestry[x][n] = p
        /\ \A k \in 1 .. n - 1 : ancestry[x][k] = ancestry[p][k]
    BY <1>0, <2>2, <2>4
  <2>6. CASE j = n
    BY <2>2, <2>2a, <2>5, <2>6 DEF Height
  <2>7. CASE j # n
    <3>1. Bad(p, j)
      BY <1>0, <2>2, <2>2a, <2>5, <2>7
    <3>2. n - 1 \in T
      BY <1>0, <2>4, <2>5, <3>1
    <3>3. QED
      BY <2>1, <3>2
  <2>8. QED
    BY <2>6, <2>7
<1>2. QED
  BY <1>0, <1>1

\* ForkHeight is the height the alternative ancestors start from: every block
\* of the path from there on is in the container.
LEMMA ForkShape ==
  ASSUME NEW b \in Blocks
  PROVE  /\ ForkHeight(b) \in 0 .. Height(b)
         /\ \A h \in ForkHeight(b) .. Height(b) - 1 :
              /\ ancestry[b][h + 1] \in m_alternative_chains
              /\ Height(ancestry[b][h + 1]) = h
<1>0. ancestry[b] \in Seq(Blocks) /\ Len(ancestry[b]) \in Nat /\ Height(b) = Len(ancestry[b])
  BY BlocksAssumption DEF IsBlockTree, Height
<1>1. PICK stop \in 0 .. Len(ancestry[b]) :
        /\ AltChain(b) \in Seq(Blocks) /\ Len(AltChain(b)) = Len(ancestry[b]) - stop
        /\ \A i \in 1 .. Len(AltChain(b)) : /\ AltChain(b)[i] = ancestry[b][stop + i]
                                             /\ AltChain(b)[i] \in m_alternative_chains
  BY AltChainShape
<1>2. ForkHeight(b) = stop
  <2>1. CASE AltChain(b) = << >>
    BY <1>0, <1>1, <2>1 DEF ForkHeight
  <2>2. CASE AltChain(b) # << >>
    <3>1. Len(AltChain(b)) >= 1 /\ stop + 1 \in 1 .. Len(ancestry[b])
      BY <1>0, <1>1, <2>2
    <3>2. AltChain(b)[1] = ancestry[b][stop + 1]
      BY <1>1, <3>1
    <3>3. Height(ancestry[b][stop + 1]) = stop
      BY <1>0, <3>1, AncestorHeight
    <3>4. QED
      BY <2>2, <3>2, <3>3 DEF ForkHeight
  <2>3. QED
    BY <2>1, <2>2
<1>3. ASSUME NEW h \in stop .. Height(b) - 1
      PROVE  ancestry[b][h + 1] \in m_alternative_chains /\ Height(ancestry[b][h + 1]) = h
  <2>1. h + 1 \in 1 .. Len(ancestry[b]) /\ h + 1 - 1 = h
    BY <1>0, <1>1
  <2>2. h + 1 - stop \in 1 .. Len(AltChain(b)) /\ stop + (h + 1 - stop) = h + 1
    BY SMTT(30), <1>0, <1>1
  <2>3. ancestry[b][h + 1] \in m_alternative_chains
    BY Zenon, <1>1, <2>2
  <2>4. QED
    BY <2>1, <2>3, AncestorHeight
<1>4. QED
  BY Zenon, <1>0, <1>1, <1>2, <1>3

\* A block at the height of a checkpoint is in the container only during the
\* reorganisation it started, which removes no block of a checkpoint, ends
\* with that block, and drops it when it fails.
FinalInv ==
  /\ \A x \in m_alternative_chains : BringsCheckpoint(x) =>
       /\ job.pc # "idle" /\ job.discard /\ x \in Range(job.alt)
       /\ job.pc \in {"undo", "restore"} => x \in job.drop
  /\ job.pc # "idle" =>
       /\ \A h \in DOMAIN checkpoints : h < job.split \/ h >= Len(replica)
       /\ \A i \in 1 .. Len(job.alt) - 1 : ~BringsCheckpoint(job.alt[i])
  /\ job.pc = "undo" =>
       \A i \in job.split + 1 .. Len(m_blocks) : ~BringsCheckpoint(m_blocks[i])
  /\ job.pc = "reinsert" => ~job.discard

\* handle_alternative_block starts a reorganisation only above every
\* checkpoint the main chain has reached.
LEMMA FinalStarts ==
  ASSUME SwitchInv, FinalInv, NEW b \in Blocks, addNewBlock(b), ~haveBlock(b),
         Parent(b) # getTailId
  PROVE  FinalInv'
<1>0. /\ m_blocks \in Seq(Blocks) /\ Len(m_blocks) \in Nat /\ job = NoJob
      /\ replica = m_blocks /\ job.pc = "idle"
  BY DEF SwitchInv, Solid, LedgerInv, TypeInv, TypeOK, Chain, Shape, addNewBlock
<1>1. UNCHANGED <<m_blocks, replica>> /\ handle_alternative_block(b)
  BY DEF addNewBlock, handle_alternative_block, chainVars
<1>2. \A x \in m_alternative_chains : ~BringsCheckpoint(x)
  BY Zenon, <1>0 DEF FinalInv
<1>3. CASE ~AltAccepted(b)
  <2>1. UNCHANGED <<m_alternative_chains, job>>
    BY <1>1, <1>3 DEF handle_alternative_block
  <2>2. QED
    BY Zenon, <1>0, <1>2, <2>1 DEF FinalInv, BringsCheckpoint
<1>4. CASE AltAccepted(b) /\ ~(BringsCheckpoint(b) \/ IsHeavier(b))
  <2>1. m_alternative_chains' = m_alternative_chains \cup {b} /\ job' = NoJob
    BY <1>1, <1>4 DEF handle_alternative_block
  <2>2. QED
    BY Zenon, <1>2, <1>4, <2>1 DEF FinalInv, NoJob
<1>5. CASE AltAccepted(b) /\ (BringsCheckpoint(b) \/ IsHeavier(b))
  <2>1. m_alternative_chains' = m_alternative_chains \cup {b} /\ job' = SwitchTo(b)
    BY <1>1, <1>5 DEF handle_alternative_block
  <2>2. /\ job'.pc = "disconnect" /\ job'.alt = Append(AltChain(b), b)
        /\ job'.split = ForkHeight(b) /\ job'.discard = BringsCheckpoint(b)
    BY <2>1 DEF SwitchTo
  <2>3. /\ AltChain(b) \in Seq(Blocks)
        /\ \A i \in 1 .. Len(AltChain(b)) : AltChain(b)[i] \in m_alternative_chains
    BY AltChainType
  <2>4. /\ Len(job'.alt) = Len(AltChain(b)) + 1 /\ job'.alt[Len(job'.alt)] = b
        /\ Len(job'.alt) \in DOMAIN job'.alt
        /\ \A i \in 1 .. Len(AltChain(b)) : job'.alt[i] \in m_alternative_chains
    BY <2>2, <2>3
  <2>5. ASSUME NEW h \in DOMAIN checkpoints, ~(h < job'.split), ~(h >= Len(replica'))
        PROVE  FALSE
    <3>1. h \in Nat /\ h < Len(m_blocks) /\ h < Height(b)
      <4>1. \A c \in DOMAIN checkpoints : c <= Len(m_blocks) => c < Height(b)
        BY Zenon, <1>5 DEF AltAccepted, is_alternative_block_allowed
      <4>2. h \in Nat
        BY <2>5, ParameterAssumption
      <4>3. h < Len(m_blocks)
        BY <1>0, <1>1, <2>5, <4>2
      <4>4. QED
        BY <1>0, <2>5, <4>1, <4>2, <4>3
    <3>2. ForkHeight(b) \in 0 .. Height(b) /\ Height(b) \in Nat
      BY ForkShape, BlocksAssumption DEF IsBlockTree, Height
    <3>3. h \in ForkHeight(b) .. Height(b) - 1
      BY <2>2, <2>5, <3>1, <3>2
    <3>4. ancestry[b][h + 1] \in m_alternative_chains /\ BringsCheckpoint(ancestry[b][h + 1])
      BY <3>3, ForkShape DEF BringsCheckpoint, is_a_checkpoint
    <3>5. QED
      BY <1>2, <3>4
  <2>6. \A i \in 1 .. Len(job'.alt) - 1 : ~BringsCheckpoint(job'.alt[i])
    BY <1>2, <2>3, <2>4
  <2>7. \A x \in m_alternative_chains' : BringsCheckpoint(x) => job'.discard /\ x \in Range(job'.alt)
    BY Zenon, <1>2, <2>1, <2>2, <2>4
  <2>8. QED
    BY Zenon, <2>2, <2>5, <2>6, <2>7 DEF FinalInv, BringsCheckpoint
<1>6. QED
  BY <1>3, <1>4, <1>5

\* The tail has the height of its place in the main chain.
LEMMA TailHeight ==
  ASSUME SwitchInv
  PROVE  Height(getTailId) = Len(m_blocks) - 1
<1>1. m_blocks \in Seq(Blocks) /\ Len(m_blocks) >= 1 /\ ChainLinked
  BY DEF SwitchInv, Solid, LedgerInv, Ledger, TypeInv, TypeOK, Chain
<1>2. getTailId \in Blocks
  BY <1>1 DEF getTailId
<1>3. ancestry[getTailId] \in Seq(Blocks)
  BY <1>2, BlocksAssumption DEF IsBlockTree
<1>4. QED
  BY <1>1, <1>3 DEF ChainLinked, Height

\* The steps of a reorganisation keep FinalInv.
LEMMA FinalSwitch ==
  ASSUME Quiet, SwitchInv, FinalInv, Disconnect \/ Connect \/ Reinsert \/ Undo
  PROVE  FinalInv'
<1>0. /\ m_blocks \in Seq(Blocks) /\ Len(m_blocks) \in Nat /\ job \in Job
      /\ job.alt \in Seq(Blocks) /\ Len(job.alt) \in Nat /\ job.split \in Nat
      /\ job.pc # "idle" /\ Branch /\ Progress /\ ChainTypeOK
  BY DEF SwitchInv, Solid, LedgerInv, TypeInv, TypeOK, Chain, ChainTypeOK, Job, Shape,
         Disconnect, Connect, Reinsert, Undo
<1>1. replica' = replica /\ job'.alt = job.alt /\ job'.split = job.split
      /\ job'.discard = job.discard
  BY Zenon, <1>0 DEF Disconnect, Connect, Reinsert, Undo, Job
<1>2. CASE Disconnect
  <2>1. /\ m_alternative_chains' = m_alternative_chains
        /\ job'.pc \in {"disconnect", "connect"} /\ job.pc = "disconnect"
    BY <1>0, <1>2 DEF Disconnect, Job
  <2>2. QED
    BY Zenon, <1>0, <1>1, <2>1 DEF FinalInv, BringsCheckpoint
<1>3. CASE Connect
  <2> DEFINE b == job.alt[job.next]
  <2>0. /\ m_alternative_chains' = m_alternative_chains /\ job.pc = "connect"
        /\ job.next \in 1 .. Len(job.alt) /\ Connected(job.next - 1)
    BY <1>0, <1>3 DEF Connect, SwitchInv, Solid, LedgerInv, TypeInv, JobOK, Progress
  <2>1. CASE PushSucceeds(b)
    <3>1. /\ job'.pc \in {"connect", "finish", "reinsert"}
          /\ job'.pc = "reinsert" => ~job.discard
      BY <1>0, <1>3, <2>0, <2>1 DEF Connect, AfterConnect, Job
    <3>2. QED
      BY Zenon, <1>0, <1>1, <2>0, <3>1 DEF FinalInv, BringsCheckpoint
  <2>2. CASE ~PushSucceeds(b)
    <3>1. /\ job'.pc = "undo" /\ m_blocks' = m_blocks
          /\ job'.drop = {job.alt[i] : i \in job.next .. Len(job.alt)}
      <4>1. pushBlock(b) /\ b \in Blocks
        BY <1>0, <1>3, <2>0 DEF Connect
      <4>2. ~PushLeaks(b)
        BY DEF PushLeaks, Quiet
      <4>3. m_blocks' = m_blocks
        BY Zenon, <2>2, <4>1, <4>2 DEF pushBlock, chainVars
      <4>4. job' = [job EXCEPT !.pc = "undo", !.next = 1,
                               !.drop = {job.alt[i] : i \in job.next .. Len(job.alt)}]
        BY <1>3, <2>2 DEF Connect
      <4>5. QED
        BY <1>0, <4>3, <4>4 DEF Job
    <3>2. ASSUME NEW x \in m_alternative_chains, BringsCheckpoint(x)
          PROVE  job.discard /\ x \in Range(job.alt) /\ x \in job'.drop
      <4>1. job.discard /\ x \in Range(job.alt)
        BY <3>2 DEF FinalInv
      <4>2. PICK i \in 1 .. Len(job.alt) : x = job.alt[i]
        BY <1>0, <4>1
      <4>3. i = Len(job.alt)
        BY <1>0, <3>2, <4>2 DEF FinalInv
      <4>4. QED
        BY SMTT(30), <2>0, <3>1, <4>1, <4>2, <4>3
    <3>3. ASSUME NEW i \in job.split + 1 .. Len(m_blocks) PROVE ~BringsCheckpoint(m_blocks[i])
      <4>1. i - job.split \in 1 .. job.next - 1 /\ job.split + (i - job.split) = i
        BY <1>0, <2>0 DEF Connected
      <4>2. m_blocks[i] = job.alt[i - job.split]
        BY <2>0, <4>1 DEF Connected
      <4>3. i - job.split \in 1 .. Len(job.alt) - 1
        BY <1>0, <2>0, <4>1
      <4>4. QED
        BY Zenon, <1>0, <4>2, <4>3 DEF FinalInv
    <3>4. QED
      BY Zenon, <1>0, <1>1, <2>0, <3>1, <3>2, <3>3 DEF FinalInv, BringsCheckpoint
  <2>3. QED
    BY <2>1, <2>2
<1>4. CASE Reinsert
  <2>0. job.pc = "reinsert" /\ ~job.discard /\ UNCHANGED m_blocks /\ Connected(Len(job.alt))
    BY <1>0, <1>4 DEF Reinsert, FinalInv, chainVars, Progress
  <2>1. \A x \in m_alternative_chains : ~BringsCheckpoint(x)
    BY Zenon, <2>0 DEF FinalInv
  <2>2. \A x \in m_alternative_chains' : ~BringsCheckpoint(x)
    BY <1>4, <2>1 DEF Reinsert
  <2>3. ASSUME NEW i \in job.split + 1 .. Len(m_blocks) PROVE ~BringsCheckpoint(m_blocks[i])
    <3>1. i - job.split \in 1 .. Len(job.alt) /\ job.split + (i - job.split) = i
      BY <1>0, <2>0 DEF Connected
    <3>2. m_blocks[i] = job.alt[i - job.split]
      BY <2>0, <3>1 DEF Connected
    <3>3. QED
      BY <1>0, <2>1, <3>1, <3>2 DEF Branch
  <2>4. QED
    BY Zenon, <1>0, <1>1, <2>0, <2>2, <2>3 DEF FinalInv, BringsCheckpoint
<1>5. CASE Undo
  <2>0. /\ job.pc = "undo" /\ m_alternative_chains' = m_alternative_chains
        /\ job'.pc \in {"undo", "restore"} /\ job'.drop = job.drop
    BY <1>0, <1>5 DEF Undo, Job
  <2>1. \A i \in job.split + 1 .. Len(m_blocks') :
          i \in job.split + 1 .. Len(m_blocks) /\ m_blocks'[i] = m_blocks[i]
    BY <1>0, <1>5 DEF Undo, popBlock, chainVars
  <2>2. \A i \in job.split + 1 .. Len(m_blocks') : ~BringsCheckpoint(m_blocks'[i])
    BY Zenon, <2>0, <2>1 DEF FinalInv
  <2>3. QED
    BY Zenon, <1>0, <1>1, <2>0, <2>2 DEF FinalInv, BringsCheckpoint
<1>6. QED
  BY <1>2, <1>3, <1>4, <1>5

\* Every step keeps it.
LEMMA FinalNext == ASSUME Quiet, SwitchInv, FinalInv, [Next]_vars PROVE FinalInv'
<1>0. Solid /\ Shape /\ job \in Job
  BY DEF SwitchInv, Solid, LedgerInv, TypeInv, TypeOK
<1>1. ASSUME UNCHANGED <<m_blocks, m_alternative_chains, job, replica>> PROVE FinalInv'
  BY Zenon, <1>1 DEF FinalInv, BringsCheckpoint
<1>2. ASSUME NEW b \in Blocks, addNewBlock(b) PROVE FinalInv'
  <2>1. CASE haveBlock(b)
    BY <1>1, <1>2, <2>1 DEF addNewBlock, chainVars
  <2>2. CASE ~haveBlock(b) /\ Parent(b) = getTailId
    BY Zenon, <1>0, <1>2, <2>2 DEF addNewBlock, FinalInv, BringsCheckpoint
  <2>3. CASE ~haveBlock(b) /\ Parent(b) # getTailId
    BY <1>2, <2>3, FinalStarts
  <2>4. QED
    BY <2>1, <2>2, <2>3
<1>3. CASE Disconnect \/ Connect \/ Reinsert \/ Undo
  BY <1>3, FinalSwitch
<1>4. CASE Finish
  BY Zenon, <1>4 DEF Finish, FinalInv, NoJob, BringsCheckpoint
<1>5. CASE Restore
  <2>1. job.pc = "restore" /\ replica' = replica
    BY <1>5 DEF Restore
  <2>2. CASE job' = NoJob
    BY <1>5, <2>1, <2>2 DEF Restore, FinalInv, NoJob, BringsCheckpoint
  <2>3. CASE job' # NoJob
    BY <1>0, <1>5, <2>1, <2>3 DEF Restore, FinalInv, Job, BringsCheckpoint
  <2>4. QED
    BY <2>2, <2>3
<1>6. ~PopFails /\ ~Restart /\ ~Crash
  BY <1>0, PopWorks
  DEF PopFails, Solid, LedgerInv, TypeInv, TypeOK, ChainTypeOK, Chain, Restart, Crash, Quiet
<1>7. CASE Tick \/ (\E t \in Txs : RelayTx(t) \/ KeepTx(t) \/ ExpireTx(t)) \/ UNCHANGED vars
  BY Zenon, <1>1, <1>7 DEF Tick, RelayTx, KeepTx, ExpireTx, chainVars, vars
<1>8. QED
  BY <1>2, <1>3, <1>4, <1>5, <1>6, <1>7 DEF Next, SwitchStep

\* The block of a checkpoint that the main chain has reached stays in it at
\* every step: pops of a reorganisation stop above it, and the pops of a
\* rollback never meet it.  (For a node that neither crashes nor meets an
\* oversized block: otherwise popBlock may throw half-way and leave the block
\* of a checkpoint in the container.)
THEOREM CheckpointsStay == ASSUME Quiet PROVE Spec => CheckpointsAreFinal
<1> DEFINE Stays == \A h \in DOMAIN checkpoints :
                      (h < Len(m_blocks) /\ m_blocks[h + 1] = checkpoints[h]) =>
                        (h < Len(m_blocks') /\ m_blocks'[h + 1] = checkpoints[h])
<1>1. SwitchInv /\ FinalInv /\ [Next]_vars => SwitchInv' /\ FinalInv'
  BY SwitchNext, FinalNext
<1>2. Init => FinalInv
  BY DEF Init, FinalInv, NoJob
<1>3. SwitchInv /\ FinalInv /\ [Next]_vars => [Stays]_vars
  <2> SUFFICES ASSUME SwitchInv, FinalInv, Next, NEW h \in DOMAIN checkpoints,
                      h < Len(m_blocks), m_blocks[h + 1] = checkpoints[h]
               PROVE  h < Len(m_blocks') /\ m_blocks'[h + 1] = checkpoints[h]
    OBVIOUS
  <2>0. /\ m_blocks \in Seq(Blocks) /\ Len(m_blocks) \in Nat /\ h \in Nat /\ TypeInv
        /\ ChainTypeOK /\ Shape /\ job.split \in Nat
    <3>1. TypeInv /\ TypeOK /\ Shape
      BY Zenon DEF SwitchInv, Solid, LedgerInv, TypeInv
    <3>2. m_blocks \in Seq(Blocks) /\ Len(m_blocks) \in Nat /\ ChainTypeOK
      BY <3>1 DEF TypeOK, Chain, ChainTypeOK
    <3>3. job \in Job
      BY <3>1 DEF TypeOK
    <3>4. job.split \in Nat
      BY <3>3 DEF Job
    <3>5. h \in Nat
      BY ParameterAssumption
    <3>6. QED
      BY <3>1, <3>2, <3>4, <3>5
  <2>1. ASSUME NEW b \in Blocks, pushBlock(b)
        PROVE  h < Len(m_blocks') /\ m_blocks'[h + 1] = checkpoints[h]
    <3>1. m_blocks' = Append(m_blocks, b) \/ m_blocks' = m_blocks
      BY <2>1 DEF pushBlock, chainVars
    <3>2. QED
      BY <2>0, <3>1
  <2>2. ASSUME popBlock, h # Len(m_blocks) - 1
        PROVE  h < Len(m_blocks') /\ m_blocks'[h + 1] = checkpoints[h]
    BY <2>0, <2>2 DEF popBlock
  <2>3. CASE Disconnect
    <3>1. Len(m_blocks) > job.split /\ Len(m_blocks) <= Len(replica) /\ popBlock
      <4>1. job.pc = "disconnect" /\ Popped(Len(m_blocks)) /\ job.old \in Seq(Blocks)
        BY <2>0, <2>3 DEF Disconnect, Shape, Progress, TypeInv, TypeOK, Job, Chain
      <4>2. QED
        BY <2>0, <2>3, <4>1 DEF Disconnect, Popped
    <3>2. h < job.split \/ h >= Len(replica)
      BY <2>3 DEF Disconnect, FinalInv
    <3>3. Len(replica) \in Nat
      BY <2>0 DEF TypeInv, TypeOK, Chain
    <3>4. QED
      BY <2>0, <2>2, <3>1, <3>2, <3>3
  <2>4. CASE Undo /\ Len(m_blocks) > job.split
    <3>1. popBlock /\ job.pc = "undo"
      BY <2>4 DEF Undo
    <3>2. ~BringsCheckpoint(m_blocks[Len(m_blocks)])
      BY <2>0, <2>4, <3>1 DEF FinalInv
    <3>3. Height(m_blocks[Len(m_blocks)]) = Len(m_blocks) - 1
      BY TailHeight DEF getTailId
    <3>4. h # Len(m_blocks) - 1
      BY <3>2, <3>3 DEF BringsCheckpoint, is_a_checkpoint
    <3>5. QED
      BY <2>2, <3>1, <3>4
  <2>5. CASE UNCHANGED m_blocks
    BY <2>5
  <2>6. \/ \E b \in Blocks : pushBlock(b)
        \/ Disconnect \/ (Undo /\ Len(m_blocks) > job.split) \/ UNCHANGED m_blocks
    <3>1. CASE Connect \/ Restore
      BY <2>0, <3>1 DEF Connect, Restore, TypeInv, TypeOK, JobOK, Job, Chain
    <3>2. ASSUME NEW b \in Blocks, addNewBlock(b) PROVE pushBlock(b) \/ UNCHANGED m_blocks
      BY Zenon, <3>2 DEF addNewBlock, handle_alternative_block, chainVars
    <3>3. CASE PopFails \/ Reinsert \/ Finish \/ (Undo /\ ~(Len(m_blocks) > job.split))
      BY Zenon, <3>3 DEF PopFails, Reinsert, Finish, Undo, chainVars
    <3>4. CASE Tick \/ Restart \/ Crash \/ \E t \in Txs : RelayTx(t) \/ KeepTx(t) \/ ExpireTx(t)
      BY Zenon, <3>4 DEF Tick, Restart, Crash, RelayTx, KeepTx, ExpireTx, chainVars
    <3>5. QED
      BY Zenon, <3>1, <3>2, <3>3, <3>4 DEF Next, SwitchStep
  <2>7. QED
    BY <2>1, <2>3, <2>4, <2>5, <2>6
<1>4. QED
  BY <1>1, <1>2, <1>3, SwitchInit, PTL DEF Spec, CheckpointsAreFinal
=============================================================================
