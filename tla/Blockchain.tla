----------------------------- MODULE Blockchain -----------------------------
(***************************************************************************)
(* The block storage of the daemon (CryptoNoteCore/Blockchain.cpp): the    *)
(* main chain, the container of alternative blocks, the reorganisation     *)
(* that exchanges them, and the part of the transaction pool they use.     *)
(*                                                                         *)
(* A block or a transaction is identified by its hash, so what a block     *)
(* holds is constant data.  The tree of all blocks that may ever be        *)
(* offered is a parameter; only its delivery order, the pool's contents,   *)
(* the clock and the node's crashes are nondeterministic.                  *)
(*                                                                         *)
(* addNewBlock runs under the pool lock and the blockchain lock, so no     *)
(* other operation interleaves with it.  A reorganisation is still a       *)
(* sequence of steps here, one per block popped, pushed or reinserted,     *)
(* because m_blocks lives in a file: a crash may fall between two of them. *)
(***************************************************************************)
EXTENDS Integers, Sequences, FiniteSets, Functions

CONSTANTS
  Blocks,                 \* block hashes
  Txs,                    \* hashes of the non-coinbase transactions
  KeyImages,
  Genesis,
  ancestry,               \* [Blocks -> Seq(Blocks)]: Genesis .. parent
  timestamp,              \* [Blocks -> Nat]
  cumulative_difficulty,  \* [Blocks -> Nat]
  transactionHashes,      \* [Blocks -> Seq(Txs)]
  keyImages,              \* [Txs -> SUBSET KeyImages]
  BadHeader,              \* wrong version or wrong coinbase height/unlock time
  WeakPow,                \* proof of work below the branch's difficulty
  BadTx,                  \* a transaction with a bad ring or output
  BadReward,              \* validate_miner_transaction fails
  TooBig,                 \* above maxBlockCumulativeSize once every
                          \* transaction is counted
  checkpoints,            \* m_points: partial function from heights to blocks
  timestampCheckWindow,
  futureTimeLimit,
  MaxTime,                \* bound: the clock stops here
  MaxExpiries,            \* bound: transactions lost by the pool
  MaxCrashes              \* bound: crashes and restarts

IsBlockTree ==
  /\ Genesis \in Blocks
  /\ ancestry \in [Blocks -> Seq(Blocks)]
  /\ ancestry[Genesis] = << >>
  /\ \A b \in Blocks \ {Genesis} :
       /\ Len(ancestry[b]) > 0
       /\ LET p == ancestry[b][Len(ancestry[b])]
          IN  /\ ancestry[b] = Append(ancestry[p], p)
              /\ cumulative_difficulty[p] < cumulative_difficulty[b]

ASSUME BlocksAssumption == IsBlockTree

ASSUME DataAssumption ==
  /\ timestamp \in [Blocks -> Nat]
  /\ cumulative_difficulty \in [Blocks -> Nat]
  /\ transactionHashes \in [Blocks -> Seq(Txs)]
  /\ transactionHashes[Genesis] = << >>
  /\ keyImages \in [Txs -> SUBSET KeyImages]
  /\ \A t \in Txs : keyImages[t] # {}

ASSUME ParameterAssumption ==
  /\ BadHeader \subseteq Blocks /\ WeakPow \subseteq Blocks
  /\ BadTx \subseteq Blocks     /\ BadReward \subseteq Blocks
  /\ TooBig \subseteq Blocks
  /\ DOMAIN checkpoints \subseteq Nat
  /\ 0 \in DOMAIN checkpoints => checkpoints[0] = Genesis
  /\ timestampCheckWindow \in Nat \ {0}
  /\ futureTimeLimit \in Nat /\ MaxTime \in Nat
  /\ MaxExpiries \in Nat     /\ MaxCrashes \in Nat

VARIABLES
  m_blocks,              \* the main chain, oldest first (a file)
  m_transactionMap,      \* keys of m_transactionMap
  m_spent_keys,
  m_alternative_chains,  \* keys of m_alternative_chains
  m_tx_pool,             \* keys of m_transactions of the pool
  job,                   \* the reorganisation in progress
  replica,               \* the chain a message-queue listener rebuilds
  now,                   \* get_adjusted_time()
  poolFile, cacheFile,   \* what the last clean shutdown saved
  expiries, crashes      \* counters of the bounded environment steps

chainVars == <<m_blocks, m_transactionMap, m_spent_keys, m_tx_pool>>
envVars   == <<now, poolFile, cacheFile, expiries, crashes>>
vars      == <<chainVars, m_alternative_chains, job, replica, envVars>>

-----------------------------------------------------------------------------
(* Data of blocks and of chains.                                           *)

Parent(b)  == ancestry[b][Len(ancestry[b])]
Height(b)  == Len(ancestry[b])
TxsOf(b)   == Range(transactionHashes[b])
ImagesOf(T) == UNION {keyImages[t] : t \in T}

getTailId       == m_blocks[Len(m_blocks)]
ChainTxs(c) == UNION {TxsOf(c[i]) : i \in DOMAIN c}

\* The first, and the last, n elements of s, or all of them.
FirstN(s, n) == SubSeq(s, 1, IF n < Len(s) THEN n ELSE Len(s))
LastN(s, n) == SubSeq(s, IF Len(s) > n THEN Len(s) - n + 1 ELSE 1, Len(s))

Timestamps(s) == [i \in DOMAIN s |-> timestamp[s[i]]]

\* The k-th smallest element of a sequence of numbers.
Ranked(s, k) ==
  CHOOSE x \in Range(s) :
    /\ Cardinality({i \in DOMAIN s : s[i] < x}) < k
    /\ Cardinality({i \in DOMAIN s : s[i] <= x}) >= k

medianValue(s) ==
  LET n == Len(s) \div 2
  IN  IF Len(s) % 2 = 1 THEN Ranked(s, n + 1)
                        ELSE (Ranked(s, n) + Ranked(s, n + 1)) \div 2

check_block_timestamp(s, b) ==
  Len(s) >= timestampCheckWindow => timestamp[b] >= medianValue(Timestamps(s))

check_block_timestamp_main(b) ==
  /\ timestamp[b] <= now + futureTimeLimit
  /\ check_block_timestamp(LastN(m_blocks, timestampCheckWindow), b)

\* Blocks of the main chain that complete_timestamps_vector adds below an
\* alternative chain of `have` blocks that forks off after height `top`: the
\* loop stops before it takes the block at stop_offset, so the genesis block
\* is taken only when it is the starting point.
complete_timestamps_vector(have, top) ==
  LET need == timestampCheckWindow - have
      stop == IF top > need THEN top - need ELSE 0
  IN  IF have >= timestampCheckWindow THEN << >>
      ELSE IF top = 0 THEN SubSeq(m_blocks, 1, 1)
      ELSE SubSeq(m_blocks, stop + 2, top + 1)

-----------------------------------------------------------------------------
(* Checkpoints.cpp                                                         *)

is_a_checkpoint(h) == h \in DOMAIN checkpoints
check_block(h, b)  == is_a_checkpoint(h) => checkpoints[h] = b
is_in_checkpoint_zone(h) == \E c \in DOMAIN checkpoints : h <= c

\* Fault: checkpoints below the tail are forgotten.
AllowedIgnoringCheckpoints(blockchain_height, block_height) == block_height # 0

\* block_height lies above every checkpoint the main chain has reached.
is_alternative_block_allowed(blockchain_height, block_height) ==
  /\ block_height # 0
  /\ \A c \in DOMAIN checkpoints : c <= blockchain_height => c < block_height

-----------------------------------------------------------------------------
(* pushBlock and popBlock.                                                 *)

\* loadTransactions: every transaction is taken out of the pool in turn, so a
\* repeated hash is as fatal as a missing one.
Loadable(b) ==
  /\ TxsOf(b) \subseteq m_tx_pool
  /\ IsInjective(transactionHashes[b])

\* Fault: only the transactions of the same block are compared.
UnspentInBlockOnly(b) ==
  LET t == transactionHashes[b]
  IN  \A i \in DOMAIN t :
        keyImages[t[i]] \cap ImagesOf({t[j] : j \in 1 .. i - 1}) = {}

\* checkTransactionInputs for each transaction, after the key images of the
\* ones before it were added to m_spent_keys.
InputsUnspent(b) ==
  LET t == transactionHashes[b]
  IN  \A i \in DOMAIN t :
        keyImages[t[i]] \cap
          (m_spent_keys \cup ImagesOf({t[j] : j \in 1 .. i - 1})) = {}

\* Fault: no checkpoint is looked up on the main chain.
ChecksWithoutCheckpoint(b) ==
  /\ b \notin Range(m_blocks) \cup BadHeader \cup {Genesis}
  /\ Parent(b) = getTailId
  /\ check_block_timestamp_main(b)
  /\ b \notin WeakPow
  /\ InputsUnspent(b)
  /\ b \notin BadTx

\* The checks of pushBlock up to the end of the transaction loop.
PassesChecks(b) ==
  /\ b \notin Range(m_blocks)
  /\ b \notin BadHeader
  /\ b # Genesis
  /\ Parent(b) = getTailId
  /\ check_block_timestamp_main(b)
  /\ IF is_in_checkpoint_zone(Len(m_blocks))
       THEN check_block(Len(m_blocks), b)
       ELSE b \notin WeakPow
  /\ InputsUnspent(b)
  /\ b \notin BadTx

PushSucceeds(b) ==
  Loadable(b) /\ PassesChecks(b) /\ b \notin TooBig \cup BadReward

\* The size check comes after every transaction was pushed, and it alone
\* returns without popTransactions.
PushLeaks(b) == Loadable(b) /\ PassesChecks(b) /\ b \in TooBig

\* Fault: the transactions of a pushed block stay in the pool.
PushKeepsPool(b) ==
  IF PushSucceeds(b)
  THEN /\ m_blocks' = Append(m_blocks, b)
       /\ m_transactionMap' = m_transactionMap \cup TxsOf(b)
       /\ m_spent_keys' = m_spent_keys \cup ImagesOf(TxsOf(b))
       /\ UNCHANGED m_tx_pool
  ELSE UNCHANGED chainVars

\* pushBlock: the transactions move from the pool to the chain, or go back.
pushBlock(b) ==
  IF PushSucceeds(b)
  THEN /\ m_blocks' = Append(m_blocks, b)
       /\ m_transactionMap' = m_transactionMap \cup TxsOf(b)
       /\ m_spent_keys' = m_spent_keys \cup ImagesOf(TxsOf(b))
       /\ m_tx_pool' = m_tx_pool \ TxsOf(b)
  ELSE IF PushLeaks(b)
  THEN /\ m_transactionMap' = m_transactionMap \cup TxsOf(b)
       /\ m_spent_keys' = m_spent_keys \cup ImagesOf(TxsOf(b))
       /\ UNCHANGED <<m_blocks, m_tx_pool>>
  ELSE UNCHANGED chainVars

\* saveTransactions throws on a transaction the pool already has.
PopThrows == TxsOf(getTailId) \cap m_tx_pool # {}

\* The transactions saveTransactions, which runs backwards, added before that.
SavedBeforeThrow ==
  LET t == transactionHashes[getTailId]
  IN  {t[i] : i \in {k \in DOMAIN t : \A j \in k .. Len(t) : t[j] \notin m_tx_pool}}

\* Faults: the front is popped instead of the back; the transactions are not
\* saved.
PopFront ==
  /\ ~PopThrows
  /\ m_blocks' = SubSeq(m_blocks, 2, Len(m_blocks))
  /\ m_transactionMap' = m_transactionMap \ TxsOf(getTailId)
  /\ m_spent_keys' = m_spent_keys \ ImagesOf(TxsOf(getTailId))
  /\ m_tx_pool' = m_tx_pool \cup TxsOf(getTailId)

PopLosesTxs ==
  /\ m_blocks' = SubSeq(m_blocks, 1, Len(m_blocks) - 1)
  /\ m_transactionMap' = m_transactionMap \ TxsOf(getTailId)
  /\ m_spent_keys' = m_spent_keys \ ImagesOf(TxsOf(getTailId))
  /\ UNCHANGED m_tx_pool

popBlock ==
  /\ ~PopThrows
  /\ m_blocks' = SubSeq(m_blocks, 1, Len(m_blocks) - 1)
  /\ m_transactionMap' = m_transactionMap \ TxsOf(getTailId)
  /\ m_spent_keys' = m_spent_keys \ ImagesOf(TxsOf(getTailId))
  /\ m_tx_pool' = m_tx_pool \cup TxsOf(getTailId)

-----------------------------------------------------------------------------
(* Alternative blocks.                                                     *)

haveBlock(b) == b \in Range(m_blocks) \/ b \in m_alternative_chains

\* The alternative ancestors of b, oldest first, found by walking
\* previousBlockHash while it leads to a member of m_alternative_chains.
AltChain(b) ==
  LET a == ancestry[b]
      stop == CHOOSE k \in 0 .. Len(a) :
                /\ k > 0 => a[k] \notin m_alternative_chains
                /\ \A i \in k + 1 .. Len(a) : a[i] \in m_alternative_chains
  IN  SubSeq(a, stop + 1, Len(a))

ForkHeight(b) == IF AltChain(b) = << >> THEN Height(b) ELSE Height(AltChain(b)[1])

\* The alternative chain hangs off a block of the main chain.
ConnectedToMain(b) ==
  LET h == ForkHeight(b)
  IN  /\ AltChain(b) # << >> => Len(m_blocks) > h
      /\ h \in 1 .. Len(m_blocks)
      /\ m_blocks[h] = ancestry[b][h]

AltTimestampOk(b) ==
  LET alt == AltChain(b)
  IN  check_block_timestamp(
        complete_timestamps_vector(Len(alt), ForkHeight(b) - 1) \o alt, b)

\* Every check of handle_alternative_block.  (A block whose transactions are
\* not all known is measured without them, so only a fully known one is
\* found too big.)
AltAccepted(b) ==
  /\ b # Genesis
  /\ is_alternative_block_allowed(Len(m_blocks), Height(b))
  /\ b \notin BadHeader
  /\ ~(b \in TooBig /\ TxsOf(b) \subseteq m_tx_pool \cup m_transactionMap)
  /\ Parent(b) \in m_alternative_chains \cup Range(m_blocks)
  /\ ConnectedToMain(b)
  /\ AltTimestampOk(b)
  /\ check_block(Height(b), b)
  /\ b \notin WeakPow

BringsCheckpoint(b) == is_a_checkpoint(Height(b))

IsHeavier(b) == cumulative_difficulty[getTailId] < cumulative_difficulty[b]

NoJob == [pc |-> "idle", alt |-> << >>, next |-> 0, split |-> 1,
          old |-> << >>, discard |-> FALSE, drop |-> {}]

SwitchTo(b) ==
  [pc |-> "disconnect", alt |-> Append(AltChain(b), b), next |-> 1,
   split |-> ForkHeight(b), old |-> << >>, discard |-> BringsCheckpoint(b), drop |-> {}]

\* Fault: the longer chain wins, not the heavier one.
SwitchToLonger(b) ==
  /\ UNCHANGED <<chainVars, replica>>
  /\ IF AltAccepted(b)
     THEN /\ m_alternative_chains' = m_alternative_chains \cup {b}
          /\ job' = IF Height(b) >= Len(m_blocks) THEN SwitchTo(b) ELSE NoJob
     ELSE UNCHANGED <<m_alternative_chains, job>>

\* Fault: a branch of the same weight wins.
SwitchToEqual(b) ==
  /\ UNCHANGED <<chainVars, replica>>
  /\ IF AltAccepted(b)
     THEN /\ m_alternative_chains' = m_alternative_chains \cup {b}
          /\ job' = IF cumulative_difficulty[getTailId] <= cumulative_difficulty[b]
                    THEN SwitchTo(b) ELSE NoJob
     ELSE UNCHANGED <<m_alternative_chains, job>>

handle_alternative_block(b) ==
  /\ UNCHANGED <<chainVars, replica>>
  /\ IF AltAccepted(b)
     THEN /\ m_alternative_chains' = m_alternative_chains \cup {b}
          /\ job' = IF BringsCheckpoint(b) \/ IsHeavier(b) THEN SwitchTo(b) ELSE NoJob
     ELSE UNCHANGED <<m_alternative_chains, job>>

\* addNewBlock: a block already known is refused, one on top of the tail is
\* pushed, and a listener of the message queues hears NewBlockMessage(b); any
\* other is an alternative block.
addNewBlock(b) ==
  /\ job.pc = "idle"
  /\ IF haveBlock(b)
     THEN UNCHANGED <<chainVars, m_alternative_chains, job, replica>>
     ELSE IF Parent(b) = getTailId
     THEN /\ pushBlock(b)
          /\ replica' = IF PushSucceeds(b) THEN Append(replica, b) ELSE replica
          /\ UNCHANGED <<m_alternative_chains, job>>
     ELSE handle_alternative_block(b)
  /\ UNCHANGED envVars

-----------------------------------------------------------------------------
(* switch_to_alternative_blockchain, one block at a time.                  *)

\* Faults: one block too many is popped, the blocks are kept in reverse.
DisconnectTooMuch ==
  /\ job.pc = "disconnect"
  /\ popBlock
  /\ job' = [job EXCEPT !.old = <<getTailId>> \o @,
                        !.pc = IF Len(m_blocks) = job.split THEN "connect" ELSE @]
  /\ UNCHANGED <<m_alternative_chains, replica, envVars>>

DisconnectReversed ==
  /\ job.pc = "disconnect"
  /\ Len(m_blocks) > job.split
  /\ popBlock
  /\ job' = [job EXCEPT !.old = Append(@, getTailId),
                        !.pc = IF Len(m_blocks) - 1 = job.split THEN "connect" ELSE @]
  /\ UNCHANGED <<m_alternative_chains, replica, envVars>>

\* Pop the main chain down to the fork, keeping the blocks popped.
Disconnect ==
  /\ job.pc = "disconnect"
  /\ Len(m_blocks) > job.split
  /\ popBlock
  /\ job' = [job EXCEPT !.old = <<getTailId>> \o @,
                        !.pc = IF Len(m_blocks) - 1 = job.split THEN "connect" ELSE @]
  /\ UNCHANGED <<m_alternative_chains, replica, envVars>>

\* An exception leaves the reorganisation where it stands.
PopFails ==
  /\ job.pc \in {"disconnect", "undo"}
  /\ Len(m_blocks) > job.split
  /\ PopThrows
  /\ m_tx_pool' = m_tx_pool \cup SavedBeforeThrow
  /\ job' = NoJob
  /\ UNCHANGED <<m_blocks, m_transactionMap, m_spent_keys, m_alternative_chains,
                 replica, envVars>>

AfterConnect == IF job.discard THEN "finish" ELSE "reinsert"

\* Push the alternative chain; a block that fails sends the job to undo, to
\* drop that block and the rest from the container once the old chain is back.
Connect ==
  LET b == job.alt[job.next]
  IN  /\ job.pc = "connect"
      /\ pushBlock(b)
      /\ job' = IF ~PushSucceeds(b)
                THEN [job EXCEPT !.pc = "undo", !.next = 1,
                                 !.drop = {job.alt[i] : i \in job.next .. Len(job.alt)}]
                ELSE IF job.next < Len(job.alt)
                THEN [job EXCEPT !.next = @ + 1]
                ELSE [job EXCEPT !.pc = AfterConnect, !.next = 1]
      /\ UNCHANGED <<m_alternative_chains, replica, envVars>>

\* Offer a block of the old chain to handle_alternative_block.  Were it to
\* start a reorganisation of its own, no step would be possible here.
Reinsert ==
  LET b == job.old[job.next]
  IN  /\ job.pc = "reinsert"
      /\ IF AltAccepted(b) /\ b \notin m_alternative_chains
         THEN /\ ~BringsCheckpoint(b) /\ ~IsHeavier(b)
              /\ m_alternative_chains' = m_alternative_chains \cup {b}
              /\ job' = IF job.next < Len(job.old)
                        THEN [job EXCEPT !.next = @ + 1]
                        ELSE [job EXCEPT !.pc = "finish"]
         ELSE /\ job' = [job EXCEPT !.pc = "undo", !.next = 1]
              /\ UNCHANGED m_alternative_chains
      /\ UNCHANGED <<chainVars, replica, envVars>>

\* Fault: the listeners are not told.
FinishSilently ==
  /\ job.pc = "finish"
  /\ m_alternative_chains' = m_alternative_chains \ Range(job.alt)
  /\ job' = NoJob
  /\ UNCHANGED <<replica, chainVars, envVars>>

\* The alternative chain is the main chain now: a listener hears
\* ChainSwitchMessage with the common root and the new blocks.
Finish ==
  /\ job.pc = "finish"
  /\ m_alternative_chains' = m_alternative_chains \ Range(job.alt)
  /\ replica' = FirstN(replica, job.split) \o job.alt
  /\ job' = NoJob
  /\ UNCHANGED <<chainVars, envVars>>

\* Fault: the branch that failed is tried again.
UndoRetries ==
  /\ job.pc = "undo"
  /\ IF Len(m_blocks) > job.split
     THEN popBlock /\ UNCHANGED job
     ELSE /\ job' = [job EXCEPT !.pc = "connect"]
          /\ UNCHANGED chainVars
  /\ UNCHANGED <<m_alternative_chains, replica, envVars>>

\* rollback_blockchain_switching: pop what was connected ...
Undo ==
  /\ job.pc = "undo"
  /\ IF Len(m_blocks) > job.split
     THEN popBlock /\ UNCHANGED job
     ELSE /\ job' = [job EXCEPT !.pc = "restore"]
          /\ UNCHANGED chainVars
  /\ UNCHANGED <<m_alternative_chains, replica, envVars>>

\* Fault: the blocks that failed stay in the container.
RestoreKeepsFailed ==
  /\ job.pc = "restore"
  /\ pushBlock(job.old[job.next])
  /\ job' = IF PushSucceeds(job.old[job.next]) /\ job.next < Len(job.old)
            THEN [job EXCEPT !.next = @ + 1] ELSE NoJob
  /\ UNCHANGED <<m_alternative_chains, replica, envVars>>

\* ... and push the old chain again.  After the last block, or after one that
\* cannot be pushed, the blocks to drop leave the container.
Restore ==
  LET b == job.old[job.next]
  IN  /\ job.pc = "restore"
      /\ pushBlock(b)
      /\ IF PushSucceeds(b) /\ job.next < Len(job.old)
         THEN /\ job' = [job EXCEPT !.next = @ + 1]
              /\ UNCHANGED m_alternative_chains
         ELSE /\ m_alternative_chains' = m_alternative_chains \ job.drop
              /\ job' = NoJob
      /\ UNCHANGED <<replica, envVars>>

SwitchStep == Disconnect \/ PopFails \/ Connect \/ Reinsert \/ Finish \/ Undo \/ Restore

-----------------------------------------------------------------------------
(* The pool's own operations, the clock, and restarts.                     *)

\* core::add_new_tx for a transaction relayed on its own: its key images may
\* be spent neither in the chain nor by another transaction of the pool.
RelayTx(t) ==
  /\ job.pc = "idle"
  /\ t \notin m_transactionMap \cup m_tx_pool
  /\ keyImages[t] \cap (m_spent_keys \cup ImagesOf(m_tx_pool)) = {}
  /\ m_tx_pool' = m_tx_pool \cup {t}
  /\ UNCHANGED <<m_blocks, m_transactionMap, m_spent_keys, m_alternative_chains,
                 job, replica, envVars>>

\* The same for a transaction that came with a block (keptByBlock).
KeepTx(t) ==
  /\ job.pc = "idle"
  /\ t \notin m_transactionMap \cup m_tx_pool
  /\ m_tx_pool' = m_tx_pool \cup {t}
  /\ UNCHANGED <<m_blocks, m_transactionMap, m_spent_keys, m_alternative_chains,
                 job, replica, envVars>>

\* removeExpiredTransactions
ExpireTx(t) ==
  /\ job.pc = "idle"
  /\ t \in m_tx_pool
  /\ expiries < MaxExpiries
  /\ expiries' = expiries + 1
  /\ m_tx_pool' = m_tx_pool \ {t}
  /\ UNCHANGED <<m_blocks, m_transactionMap, m_spent_keys, m_alternative_chains,
                 job, replica, now, poolFile, cacheFile, crashes>>

Tick ==
  /\ now < MaxTime
  /\ now' = now + 1
  /\ UNCHANGED <<chainVars, m_alternative_chains, job, replica, poolFile, cacheFile,
                 expiries, crashes>>

\* deinit, then init: the pool and the cache are saved and loaded again, the
\* alternative blocks are not.
Restart ==
  /\ job.pc = "idle"
  /\ crashes < MaxCrashes
  /\ crashes' = crashes + 1
  /\ poolFile' = m_tx_pool
  /\ cacheFile' = [last_block |-> getTailId, transactions |-> m_transactionMap,
                   spent_keys |-> m_spent_keys]
  /\ m_alternative_chains' = {}
  /\ replica' = m_blocks
  /\ UNCHANGED <<chainVars, job, now, expiries>>

\* Fault: a cache saved at another tail is used.
CrashTrustsCache ==
  /\ crashes < MaxCrashes
  /\ crashes' = crashes + 1
  /\ m_tx_pool' = poolFile
  /\ m_transactionMap' = cacheFile.transactions
  /\ m_spent_keys' = cacheFile.spent_keys
  /\ m_alternative_chains' = {}
  /\ job' = NoJob
  /\ replica' = m_blocks
  /\ UNCHANGED <<m_blocks, now, poolFile, cacheFile, expiries>>

\* A crash at any point: the chain is what m_blocks holds, the cache is used
\* when it was saved at this very tail and rebuilt otherwise, the pool is the
\* one of the last clean shutdown.
Crash ==
  /\ crashes < MaxCrashes
  /\ crashes' = crashes + 1
  /\ m_tx_pool' = poolFile
  /\ IF cacheFile.last_block = getTailId
     THEN /\ m_transactionMap' = cacheFile.transactions
          /\ m_spent_keys' = cacheFile.spent_keys
     ELSE /\ m_transactionMap' = ChainTxs(m_blocks)
          /\ m_spent_keys' = ImagesOf(ChainTxs(m_blocks))
  /\ m_alternative_chains' = {}
  /\ job' = NoJob
  /\ replica' = m_blocks
  /\ UNCHANGED <<m_blocks, now, poolFile, cacheFile, expiries>>

-----------------------------------------------------------------------------
Init ==
  /\ m_blocks = <<Genesis>>
  /\ m_transactionMap = {} /\ m_spent_keys = {}
  /\ m_alternative_chains = {}
  /\ m_tx_pool = {}
  /\ job = NoJob
  /\ replica = <<Genesis>>
  /\ now = 0
  /\ poolFile = {}
  /\ cacheFile = [last_block |-> Genesis, transactions |-> {}, spent_keys |-> {}]
  /\ expiries = 0 /\ crashes = 0

Next ==
  \/ \E b \in Blocks : addNewBlock(b)
  \/ SwitchStep
  \/ \E t \in Txs : RelayTx(t) \/ KeepTx(t) \/ ExpireTx(t)
  \/ Tick
  \/ Restart
  \/ Crash

Spec == Init /\ [][Next]_vars

\* Peers keep offering every block together with its transactions.
DeliverBlock(b) ==
  addNewBlock(b) /\ TxsOf(b) \subseteq m_tx_pool \cup m_transactionMap

\* The thread that reorganises runs on, time passes, and peers keep offering.
Fairness ==
  /\ WF_vars(SwitchStep)
  /\ WF_vars(Tick)
  /\ \A t \in Txs : SF_vars(KeepTx(t))
  /\ \A b \in Blocks : SF_vars(DeliverBlock(b))

FairSpec == Spec /\ Fairness

-----------------------------------------------------------------------------
(* Properties.                                                             *)

Chain == Seq(Blocks)

Job == [pc : {"idle", "disconnect", "connect", "reinsert", "finish", "undo", "restore"},
        alt : Chain, next : Nat, split : Nat \ {0}, old : Chain,
        discard : BOOLEAN, drop : SUBSET Blocks]

\* Every variable holds a value of its kind.
TypeOK ==
  /\ m_blocks \in Chain /\ Len(m_blocks) >= 1
  /\ m_transactionMap \subseteq Txs
  /\ m_spent_keys \subseteq KeyImages
  /\ m_alternative_chains \subseteq Blocks \ {Genesis}
  /\ m_tx_pool \subseteq Txs
  /\ job \in Job
  /\ replica \in Chain
  /\ now \in Nat
  /\ poolFile \subseteq Txs
  /\ cacheFile \in [last_block : Blocks, transactions : SUBSET Txs,
                    spent_keys : SUBSET KeyImages]
  /\ expiries \in Nat /\ crashes \in Nat

\* At every moment, in the middle of a reorganisation or after a crash too,
\* m_blocks is the path from the genesis block to its last block: pushBlock
\* compares previousBlockHash with the tail, popBlock only takes the tail.
ChainLinked == m_blocks = Append(ancestry[getTailId], getTailId)

\* No key image is spent by two transactions of the main chain, whatever was
\* pushed, popped, rolled back, leaked or reloaded before.
NoDoubleSpend ==
  \A i, j \in DOMAIN m_blocks :
    \A k \in DOMAIN transactionHashes[m_blocks[i]],
       l \in DOMAIN transactionHashes[m_blocks[j]] :
      <<i, k>> # <<j, l>> =>
        keyImages[transactionHashes[m_blocks[i]][k]]
          \cap keyImages[transactionHashes[m_blocks[j]][l]] = {}

\* m_transactionMap and m_spent_keys are what rebuildCache would compute from
\* m_blocks: pushes, pops and rollbacks keep the indices exact.
IndexesMatchChain ==
  /\ m_transactionMap = ChainTxs(m_blocks)
  /\ m_spent_keys = ImagesOf(ChainTxs(m_blocks))

\* No transaction of the pool is already in the blockchain, which is what the
\* locking in core::add_new_tx is said to ensure.
PoolAndChainDisjoint == m_tx_pool \cap m_transactionMap = {}

\* Between two blocks no block is both in the main chain and an alternative
\* one.  A reinsertion that fails breaks this for good: rollback_blockchain_-
\* switching pushes the old chain again and leaves the blocks handled before
\* the failure in m_alternative_chains.
NothingInBoth ==
  job.pc = "idle" => m_alternative_chains \cap Range(m_blocks) = {}

\* Without checkpoints no known block is heavier than the main chain: what
\* handle_alternative_block stores without switching never overtakes it, and
\* a branch that failed leaves the container.  The only way to a heavier
\* block in the container is a failed reinsertion, which keeps the branch.
MainIsHeaviest ==
  (job.pc = "idle" /\ NothingInBoth) => \A b \in m_alternative_chains : ~IsHeavier(b)

\* A listener that replays NewBlockMessage and ChainSwitchMessage holds the
\* main chain: a reorganisation either completes and is announced, or leaves
\* the chain exactly as it was and is not.
ReplicaIsMainChain == job.pc = "idle" => replica = m_blocks

\* The rollback never meets the case the code calls PANIC: every block of the
\* old chain can be pushed again.
RollbackSucceeds ==
  job.pc = "restore" => PushSucceeds(job.old[job.next])

\* The main chain never holds another block at the height of a checkpoint.
CheckpointsHold ==
  \A i \in DOMAIN m_blocks : check_block(i - 1, m_blocks[i])

\* Once the block of a checkpoint is in the main chain, no step removes it.
CheckpointsAreFinal ==
  [][\A h \in DOMAIN checkpoints :
       (h < Len(m_blocks) /\ m_blocks[h + 1] = checkpoints[h]) =>
         (h < Len(m_blocks') /\ m_blocks'[h + 1] = checkpoints[h])]_vars

\* No step but expiry or a crash loses a transaction: a transaction popped
\* with its block, or taken for a block that fails, is back in the pool.
TransactionsConserved ==
  [][\/ ChainTxs(m_blocks) \cup m_tx_pool \subseteq ChainTxs(m_blocks') \cup m_tx_pool'
     \/ \E t \in Txs : ExpireTx(t)
     \/ Crash]_vars

\* A reorganisation ends.
SwitchEnds == (job.pc # "idle") ~> (job.pc = "idle")

\* The blocks a node must be able to adopt: the whole path is well formed and
\* spends no key image twice.
ValidBlock(b) ==
  LET c == Append(ancestry[b], b)
      all == {x \in (DOMAIN c) \X (1 .. Cardinality(Txs)) :
                x[2] \in DOMAIN transactionHashes[c[x[1]]]}
      img(x) == keyImages[transactionHashes[c[x[1]]][x[2]]]
  IN  /\ Range(c) \cap (BadHeader \cup WeakPow \cup BadTx \cup BadReward \cup TooBig) = {}
      /\ \A x, y \in all : x # y => img(x) \cap img(y) = {}
      /\ \A i \in DOMAIN c :
           /\ timestamp[c[i]] <= MaxTime + futureTimeLimit
           /\ check_block_timestamp(LastN(SubSeq(c, 1, i - 1), timestampCheckWindow), c[i])

\* If every block keeps being offered, the node settles on a chain of the
\* greatest cumulative difficulty among the valid ones, whatever the order
\* of arrival, the branches that failed to connect and the transactions lost,
\* as long as no reinsertion of an old chain fails.  After one that did, the
\* blocks in both containers make every later switch fail in turn (b is
\* already an alternative block), and the heavier branch is never adopted.
ConvergesToHeaviest ==
  []NothingInBoth =>
    <>[](job.pc = "idle" =>
           \A b \in Blocks : ValidBlock(b) => ~IsHeavier(b))

\* The tip and the blocks an observer outside the locks is entitled to: a
\* reorganisation is visible once it has finished.
CommittedTip == IF job.old = << >> THEN getTailId ELSE job.old[Len(job.old)]
KnownBlocks == Range(m_blocks) \cup m_alternative_chains \cup Range(job.old)

Promise == INSTANCE HeaviestChain WITH
             Nodes <- {Genesis},
             start <- [n \in {Genesis} |-> Genesis],
             tip   <- [n \in {Genesis} |-> CommittedTip],
             known <- [n \in {Genesis} |-> KnownBlocks]

\* Without checkpoints and crashes the block storage implements HeaviestChain:
\* the steps of switch_to_alternative_blockchain and of its rollback amount to
\* one step to a heavier tip, or to none and the loss of the invalid blocks.
ImplementsHeaviestChain == Promise!Spec

=============================================================================
