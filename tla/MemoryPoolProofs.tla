-------------------------- MODULE MemoryPoolProofs --------------------------
(***************************************************************************)
(* Proofs about MemoryPool, for every block tree and every set of          *)
(* transactions: the indices of tx_memory_pool say what its transactions   *)
(* say, relayed transactions never conflict with each other, and a         *)
(* transaction that expired is not relayed again before it is forgotten.   *)
(*                                                                         *)
(* Nothing is known of the inputs of a transaction, so the proofs only     *)
(* use KeyImagesOf and OutputsUsedBy as functions of the transaction.      *)
(***************************************************************************)
EXTENDS MemoryPool, TLAPS

-----------------------------------------------------------------------------
(* A pool as a value: the pool of the node, and the one in the file.       *)

IsDetails(d) ==
  /\ d = [keptByBlock |-> d.keptByBlock, receiveTime |-> d.receiveTime,
          maxUsedBlock |-> d.maxUsedBlock, lastFailedBlock |-> d.lastFailedBlock]
  /\ d.keptByBlock \in BOOLEAN /\ d.receiveTime \in Nat

IsRecord(p) ==
  p = [m_transactions |-> p.m_transactions, m_spent_key_images |-> p.m_spent_key_images,
       m_spentOutputs |-> p.m_spentOutputs, m_ttlIndex |-> p.m_ttlIndex,
       m_timestampIndex |-> p.m_timestampIndex,
       m_recentlyDeletedTransactions |-> p.m_recentlyDeletedTransactions]

IsFcn(f) == f = [x \in DOMAIN f |-> f[x]]

IsPool(p) ==
  /\ IsRecord(p)
  /\ IsFcn(p.m_transactions)
  /\ \A t \in DOMAIN p.m_transactions : IsDetails(p.m_transactions[t])

Images(T) == UNION {KeyImagesOf(t) : t \in T}
Outputs(T) == UNION {OutputsUsedBy(t) : t \in T}
Unkept(f) == {t \in DOMAIN f : ~f[t].keptByBlock}

\* IndicesMatchPool and ConflictsCameWithBlocks of a pool p.
Matches(p) ==
  LET txs == DOMAIN p.m_transactions
  IN  /\ p.m_spent_key_images = [k \in Images(txs) |-> {t \in txs : k \in KeyImagesOf(t)}]
      /\ p.m_spentOutputs = Outputs(Unkept(p.m_transactions))
      /\ p.m_ttlIndex = {t \in txs : ttl[t] # 0}
      /\ p.m_timestampIndex = {<<p.m_transactions[t].receiveTime, t>> : t \in txs}

Apart(p) ==
  \A t, u \in Unkept(p.m_transactions) :
    t # u => /\ KeyImagesOf(t) \cap KeyImagesOf(u) = {}
             /\ OutputsUsedBy(t) \cap OutputsUsedBy(u) = {}

\* The two together are kept by every operation; neither is alone: a relayed
\* transaction gives its outputs back, which no other one may hold.
Good(p) == IsPool(p) /\ Matches(p) /\ Apart(p)

-----------------------------------------------------------------------------
(* The operations on a pool.                                               *)

LEMMA EmptyGood == Good(EmptyPool)
<1>1. IsPool(EmptyPool)
  BY DEF IsPool, IsRecord, IsFcn, EmptyPool
<1>2. Matches(EmptyPool) /\ Apart(EmptyPool)
  BY DEF EmptyPool, Matches, Apart, Unkept, Images, Outputs
<1>3. QED
  BY <1>1, <1>2 DEF Good

\* removeTransaction, field by field.
Removed(p, T, r) ==
  /\ IsRecord(r)
  /\ r.m_transactions = [t \in DOMAIN p.m_transactions \ T |-> p.m_transactions[t]]
  /\ r.m_spent_key_images =
       [k \in {x \in DOMAIN p.m_spent_key_images : ~(p.m_spent_key_images[x] \subseteq T)} |->
          p.m_spent_key_images[k] \ T]
  /\ r.m_spentOutputs = p.m_spentOutputs \ Outputs(Relayed(p, T))
  /\ r.m_ttlIndex = p.m_ttlIndex \ T
  /\ r.m_timestampIndex =
       p.m_timestampIndex \ {<<p.m_transactions[t].receiveTime, t>> : t \in T}
  /\ r.m_recentlyDeletedTransactions = p.m_recentlyDeletedTransactions

LEMMA RemoveFields ==
  ASSUME NEW p, IsPool(p), NEW T
  PROVE  Removed(p, T, removeTransaction(p, T))
<1> DEFINE img == p.m_spent_key_images
           i == [k \in {x \in DOMAIN img : ~(img[x] \subseteq T)} |-> img[k] \ T]
           o == p.m_spentOutputs \ UNION {OutputsUsedBy(t) : t \in Relayed(p, T)}
           d == p.m_timestampIndex \ {<<p.m_transactions[t].receiveTime, t>> : t \in T}
           l == p.m_ttlIndex \ T
           m == [t \in DOMAIN p.m_transactions \ T |-> p.m_transactions[t]]
           q == removeTransactionInputs(p, T)
           r == removeTransaction(p, T)
<1>1. q = [p EXCEPT !.m_spent_key_images = i, !.m_spentOutputs = o]
  BY DEF removeTransactionInputs
<1>2. q.m_timestampIndex = p.m_timestampIndex /\ q.m_ttlIndex = p.m_ttlIndex
      /\ q.m_transactions = p.m_transactions
      /\ q = [m_transactions |-> p.m_transactions, m_spent_key_images |-> i,
              m_spentOutputs |-> o, m_ttlIndex |-> p.m_ttlIndex,
              m_timestampIndex |-> p.m_timestampIndex,
              m_recentlyDeletedTransactions |-> p.m_recentlyDeletedTransactions]
  <2> HIDE DEF i, o, q
  <2> QED BY Zenon, <1>1 DEF IsPool, IsRecord
<1>3. r =
        [q EXCEPT !.m_timestampIndex = q.m_timestampIndex
                                         \ {<<p.m_transactions[t].receiveTime, t>> : t \in T},
                  !.m_ttlIndex = q.m_ttlIndex \ T,
                  !.m_transactions = [t \in DOMAIN q.m_transactions \ T |-> q.m_transactions[t]]]
  BY DEF removeTransaction, Restrict
<1>4. r =
        [q EXCEPT !.m_timestampIndex = d, !.m_ttlIndex = l, !.m_transactions = m]
  <2> HIDE DEF q, r
  <2> QED BY <1>2, <1>3
<1>5. r =
        [m_transactions |-> m, m_spent_key_images |-> i, m_spentOutputs |-> o,
         m_ttlIndex |-> l, m_timestampIndex |-> d,
         m_recentlyDeletedTransactions |-> p.m_recentlyDeletedTransactions]
  <2> HIDE DEF i, o, q, d, l, m, r
  <2> QED BY Zenon, <1>2, <1>4
<1>6. /\ IsRecord(r) /\ r.m_transactions = m /\ r.m_spent_key_images = i /\ r.m_spentOutputs = o
      /\ r.m_ttlIndex = l /\ r.m_timestampIndex = d
      /\ r.m_recentlyDeletedTransactions = p.m_recentlyDeletedTransactions
  <2> HIDE DEF i, o, q, d, l, m, r
  <2> QED BY <1>5 DEF IsRecord
<1> HIDE DEF r
<1>7. Removed(p, T, r)
  BY <1>6 DEF Outputs, Removed
<1>8. QED
  BY <1>7 DEF r

\* Insert, field by field.
Inserted(p, c, T, kept, r) ==
  /\ IsRecord(r)
  /\ IsFcn(r.m_transactions) /\ DOMAIN r.m_transactions = DOMAIN p.m_transactions \cup T
  /\ \A t \in DOMAIN p.m_transactions : r.m_transactions[t] = p.m_transactions[t]
  /\ \A t \in T \ DOMAIN p.m_transactions : r.m_transactions[t] = Details(c, t, kept)
  /\ r.m_spent_key_images =
       [k \in DOMAIN p.m_spent_key_images \cup Images(T) |->
          (IF k \in DOMAIN p.m_spent_key_images THEN p.m_spent_key_images[k] ELSE {})
            \cup {t \in T : k \in KeyImagesOf(t)}]
  /\ kept => r.m_spentOutputs = p.m_spentOutputs
  /\ ~kept => r.m_spentOutputs = p.m_spentOutputs \cup Outputs(T)
  /\ r.m_ttlIndex = p.m_ttlIndex \cup {t \in T : ttl[t] # 0}
  /\ r.m_timestampIndex = p.m_timestampIndex \cup {<<now, t>> : t \in T}
  /\ r.m_recentlyDeletedTransactions = p.m_recentlyDeletedTransactions

LEMMA InsertFields ==
  ASSUME NEW p, IsPool(p), NEW c, NEW T, NEW kept \in BOOLEAN
  PROVE  Inserted(p, c, T, kept, Insert(p, c, T, kept))
<1> DEFINE r == Insert(p, c, T, kept)
           m == Emplace(p.m_transactions, [t \in T |-> Details(c, t, kept)])
           d == p.m_timestampIndex \cup {<<now, t>> : t \in T}
           l == p.m_ttlIndex \cup {t \in T : ttl[t] # 0}
           q == [p EXCEPT !.m_transactions = m, !.m_timestampIndex = d, !.m_ttlIndex = l]
           img == p.m_spent_key_images
           i == [k \in DOMAIN img \cup UNION {KeyImagesOf(t) : t \in T} |->
                   (IF k \in DOMAIN img THEN img[k] ELSE {}) \cup {t \in T : k \in KeyImagesOf(t)}]
           o == IF kept THEN p.m_spentOutputs
                ELSE p.m_spentOutputs \cup UNION {OutputsUsedBy(t) : t \in T}
<1>1. r = addTransactionInputs(q, T, kept)
  BY DEF Insert
<1>1a. q = [p EXCEPT !.m_transactions = m, !.m_timestampIndex = d, !.m_ttlIndex = l]
  OBVIOUS
<1>2. q.m_spent_key_images = img /\ q.m_spentOutputs = p.m_spentOutputs
      /\ q = [m_transactions |-> m, m_spent_key_images |-> img,
              m_spentOutputs |-> p.m_spentOutputs, m_ttlIndex |-> l, m_timestampIndex |-> d,
              m_recentlyDeletedTransactions |-> p.m_recentlyDeletedTransactions]
  <2> HIDE DEF m, d, l, q
  <2> QED BY Zenon, <1>1a DEF IsPool, IsRecord
<1> HIDE DEF q, m, d, l
<1>3. addTransactionInputs(q, T, kept) = [q EXCEPT !.m_spent_key_images = i, !.m_spentOutputs = o]
  BY <1>2 DEF addTransactionInputs
<1>4. r =
        [m_transactions |-> m, m_spent_key_images |-> i, m_spentOutputs |-> o,
         m_ttlIndex |-> l, m_timestampIndex |-> d,
         m_recentlyDeletedTransactions |-> p.m_recentlyDeletedTransactions]
  <2> HIDE DEF i, o, r
  <2> QED BY Zenon, <1>1, <1>2, <1>3
<1>5. /\ IsRecord(r) /\ r.m_transactions = m /\ r.m_spent_key_images = i /\ r.m_spentOutputs = o
      /\ r.m_ttlIndex = l /\ r.m_timestampIndex = d
      /\ r.m_recentlyDeletedTransactions = p.m_recentlyDeletedTransactions
  <2> HIDE DEF i, o, r
  <2> QED BY <1>4 DEF IsRecord
<1>6. /\ IsFcn(m) /\ DOMAIN m = DOMAIN p.m_transactions \cup T
      /\ \A t \in DOMAIN p.m_transactions : m[t] = p.m_transactions[t]
      /\ \A t \in T \ DOMAIN p.m_transactions : m[t] = Details(c, t, kept)
  BY DEF m, Emplace, IsFcn
<1> HIDE DEF r
<1>7. Inserted(p, c, T, kept, r)
  BY <1>5, <1>6 DEF Outputs, Images, d, l, Inserted
<1>8. QED
  BY <1>7 DEF r

\* Transactions of the pool leave it.
LEMMA RemoveGood ==
  ASSUME NEW p, Good(p), NEW T, T \subseteq DOMAIN p.m_transactions
  PROVE  Good(removeTransaction(p, T))
<1> DEFINE q == removeTransaction(p, T)
           f == p.m_transactions
           rem == DOMAIN f \ T
<1>0. Removed(p, T, q)
  BY RemoveFields DEF Good
<1>1. /\ q.m_transactions = [t \in rem |-> f[t]]
      /\ q.m_spent_key_images =
           [k \in {x \in DOMAIN p.m_spent_key_images : ~(p.m_spent_key_images[x] \subseteq T)} |->
              p.m_spent_key_images[k] \ T]
      /\ q.m_spentOutputs = p.m_spentOutputs \ Outputs(Relayed(p, T))
      /\ q.m_ttlIndex = p.m_ttlIndex \ T
      /\ q.m_timestampIndex = p.m_timestampIndex \ {<<f[t].receiveTime, t>> : t \in T}
  <2> HIDE DEF q
  <2> QED BY <1>0 DEF Removed
<1>2. IsPool(q)
  <2> HIDE DEF q
  <2>1. IsRecord(q)
    BY <1>0 DEF Removed
  <2>2. \A t \in DOMAIN q.m_transactions : IsDetails(q.m_transactions[t])
    BY <1>1 DEF Good, IsPool
  <2>3. IsFcn(q.m_transactions)
    BY <1>1 DEF IsFcn
  <2>4. QED
    BY <2>1, <2>2, <2>3 DEF IsPool
<1> HIDE DEF q
<1>3. DOMAIN q.m_transactions = rem /\ \A t \in rem : q.m_transactions[t] = f[t]
  BY <1>1
<1>4. q.m_spent_key_images = [k \in Images(rem) |-> {t \in rem : k \in KeyImagesOf(t)}]
  <2> DEFINE img == p.m_spent_key_images
  <2>1. img = [k \in Images(DOMAIN f) |-> {t \in DOMAIN f : k \in KeyImagesOf(t)}]
    BY DEF Good, Matches
  <2>2. {x \in DOMAIN img : ~(img[x] \subseteq T)} = Images(rem)
    <3>1. DOMAIN img = Images(DOMAIN f)
      BY <2>1
    <3>2. \A x \in DOMAIN img : img[x] = {t \in DOMAIN f : x \in KeyImagesOf(t)}
      BY <2>1
    <3> HIDE DEF img
    <3>3. QED
      BY <3>1, <3>2 DEF Images
  <2>3. \A k \in Images(rem) : img[k] \ T = {t \in rem : k \in KeyImagesOf(t)}
    BY <2>1 DEF Images
  <2> HIDE DEF img
  <2>4. q.m_spent_key_images = [k \in Images(rem) |-> img[k] \ T]
    BY Zenon, <1>1, <2>2 DEF img
  <2>5. QED
    BY Zenon, <2>3, <2>4
<1>5. q.m_spentOutputs = Outputs(Unkept(q.m_transactions))
  <2>1. Unkept(q.m_transactions) = Unkept(f) \ T
    BY <1>3 DEF Unkept
  <2>2. Relayed(p, T) = Unkept(f) \cap T
    BY DEF Relayed, Unkept
  <2>3. Outputs(Unkept(f)) \ Outputs(Unkept(f) \cap T) = Outputs(Unkept(f) \ T)
    BY DEF Good, Apart, Outputs
  <2>4. QED
    BY Zenon, <1>1, <2>1, <2>2, <2>3 DEF Good, Matches
<1>6. q.m_ttlIndex = {t \in rem : ttl[t] # 0}
  BY <1>1 DEF Good, Matches
<1>7. q.m_timestampIndex = {<<q.m_transactions[t].receiveTime, t>> : t \in rem}
  <2>1. q.m_timestampIndex = {<<f[t].receiveTime, t>> : t \in DOMAIN f}
                               \ {<<f[t].receiveTime, t>> : t \in T}
    BY <1>1 DEF Good, Matches
  <2>2. QED
    BY <1>3, <2>1
<1>8. Matches(q)
  BY <1>3, <1>4, <1>5, <1>6, <1>7 DEF Matches
<1>9. Apart(q)
  BY <1>3 DEF Good, Apart, Unkept
<1>10. QED
  BY <1>2, <1>8, <1>9 DEF Good, q

\* Transactions enter the pool, kept by a block or without any conflict.
LEMMA InsertGood ==
  ASSUME NEW p, Good(p), now \in Nat, NEW c, NEW T, T \cap DOMAIN p.m_transactions = {},
         NEW kept \in BOOLEAN,
         ~kept => \E t : T = {t} /\ ~haveSpentInputs(p, t)
  PROVE  Good(Insert(p, c, T, kept))
<1> DEFINE q == Insert(p, c, T, kept)
           f == p.m_transactions
           all == DOMAIN f \cup T
<1>0. Inserted(p, c, T, kept, q)
  BY InsertFields DEF Good
<1> HIDE DEF q
<1>1. /\ IsRecord(q)
      /\ q.m_spent_key_images =
           [k \in DOMAIN p.m_spent_key_images \cup Images(T) |->
              (IF k \in DOMAIN p.m_spent_key_images THEN p.m_spent_key_images[k] ELSE {})
                \cup {t \in T : k \in KeyImagesOf(t)}]
      /\ kept => q.m_spentOutputs = p.m_spentOutputs
      /\ ~kept => q.m_spentOutputs = p.m_spentOutputs \cup Outputs(T)
      /\ q.m_ttlIndex = p.m_ttlIndex \cup {t \in T : ttl[t] # 0}
      /\ q.m_timestampIndex = p.m_timestampIndex \cup {<<now, t>> : t \in T}
  BY <1>0 DEF Inserted
<1>2. /\ DOMAIN q.m_transactions = all
      /\ \A t \in DOMAIN f : q.m_transactions[t] = f[t]
      /\ \A t \in T : q.m_transactions[t] = Details(c, t, kept)
      /\ IsFcn(q.m_transactions)
  BY <1>0 DEF Inserted
<1>3. \A t \in T : /\ IsDetails(Details(c, t, kept)) /\ Details(c, t, kept).keptByBlock = kept
                   /\ Details(c, t, kept).receiveTime = now
  BY DEF IsDetails, Details
<1>6. IsPool(q)
  <2>1. \A t \in all : IsDetails(q.m_transactions[t])
    BY <1>2, <1>3 DEF Good, IsPool
  <2>2. QED
    BY <1>1, <1>2, <2>1 DEF IsPool
<1>7. q.m_spent_key_images = [k \in Images(all) |-> {t \in all : k \in KeyImagesOf(t)}]
  <2> DEFINE img == p.m_spent_key_images
  <2>1. img = [k \in Images(DOMAIN f) |-> {t \in DOMAIN f : k \in KeyImagesOf(t)}]
    BY DEF Good, Matches
  <2>2. DOMAIN img \cup Images(T) = Images(all)
    BY <2>1 DEF Images
  <2>3. \A k \in Images(all) :
          (IF k \in DOMAIN img THEN img[k] ELSE {}) \cup {t \in T : k \in KeyImagesOf(t)}
            = {t \in all : k \in KeyImagesOf(t)}
    <3>1. ASSUME NEW k, k \in DOMAIN img PROVE img[k] = {t \in DOMAIN f : k \in KeyImagesOf(t)}
      BY <2>1, <3>1
    <3>2. ASSUME NEW k, k \notin DOMAIN img PROVE {t \in DOMAIN f : k \in KeyImagesOf(t)} = {}
      BY <2>1, <3>2 DEF Images
    <3>3. QED
      BY <3>1, <3>2
  <2> HIDE DEF img
  <2>4. q.m_spent_key_images =
          [k \in Images(all) |->
             (IF k \in DOMAIN img THEN img[k] ELSE {}) \cup {t \in T : k \in KeyImagesOf(t)}]
    BY Zenon, <1>1, <2>2 DEF img
  <2>5. QED
    BY Zenon, <2>3, <2>4
<1>8. Unkept(q.m_transactions) = IF kept THEN Unkept(f) ELSE Unkept(f) \cup T
  BY <1>2, <1>3 DEF Unkept
<1>9. q.m_spentOutputs = Outputs(Unkept(q.m_transactions))
  BY <1>1, <1>8 DEF Good, Matches, Outputs
<1>10. q.m_ttlIndex = {t \in all : ttl[t] # 0}
  BY <1>1 DEF Good, Matches
<1>11. q.m_timestampIndex = {<<q.m_transactions[t].receiveTime, t>> : t \in all}
  <2>1. p.m_timestampIndex = {<<f[t].receiveTime, t>> : t \in DOMAIN f}
    BY DEF Good, Matches
  <2>2. QED
    BY <1>1, <1>2, <1>3, <2>1
<1>12. Matches(q)
  BY <1>2, <1>7, <1>9, <1>10, <1>11 DEF Matches
<1>13. Apart(q)
  <2>1. CASE kept
    BY <1>8, <2>1 DEF Good, Apart
  <2>2. CASE ~kept
    <3>1. PICK t : T = {t} /\ ~haveSpentInputs(p, t)
      BY <2>2
    <3>2. ASSUME NEW u \in Unkept(f)
          PROVE  /\ KeyImagesOf(t) \cap KeyImagesOf(u) = {}
                 /\ OutputsUsedBy(t) \cap OutputsUsedBy(u) = {}
      <4>1. KeyImagesOf(u) \subseteq DOMAIN p.m_spent_key_images
        BY DEF Good, Matches, Images, Unkept
      <4>2. OutputsUsedBy(u) \subseteq p.m_spentOutputs
        BY DEF Good, Matches, Outputs
      <4>3. QED
        BY <3>1, <4>1, <4>2 DEF haveSpentInputs
    <3>3. QED
      BY <1>8, <2>2, <3>1, <3>2 DEF Good, Apart
  <2>3. QED
    BY <2>1, <2>2
<1>14. QED
  BY <1>6, <1>12, <1>13 DEF Good, q

\* What a check remembers leaves alone when and how the transaction came.
Same(d, e) ==
  IsDetails(e) /\ e.keptByBlock = d.keptByBlock /\ e.receiveTime = d.receiveTime

LEMMA CheckAgainSame ==
  ASSUME NEW c, NEW t, NEW d, IsDetails(d)
  PROVE  Same(d, CheckAgain(c, t, d).info)
<1> DEFINE r == CheckInputs(c, t)
           x == [height |-> r.height, id |-> c[r.height + 1]]
           y == [d.maxUsedBlock EXCEPT !.height = r.height]
           z == TailInfo(c)
<1>1. CheckAgain(c, t, d).info = IF r.ok THEN [d EXCEPT !.maxUsedBlock = x]
                                 ELSE [d EXCEPT !.maxUsedBlock = y, !.lastFailedBlock = z]
  BY DEF CheckAgain
<1> HIDE DEF r, x, y, z
<1>2. Same(d, [d EXCEPT !.maxUsedBlock = x])
  <2>1. PICK e : e = [d EXCEPT !.maxUsedBlock = x]
    BY Zenon
  <2>2. e = [keptByBlock |-> d.keptByBlock, receiveTime |-> d.receiveTime,
             maxUsedBlock |-> x, lastFailedBlock |-> d.lastFailedBlock]
    BY <2>1 DEF IsDetails
  <2>3. QED
    BY <2>1, <2>2 DEF Same, IsDetails
<1>3. Same(d, [d EXCEPT !.maxUsedBlock = y, !.lastFailedBlock = z])
  <2>1. PICK e : e = [d EXCEPT !.maxUsedBlock = y, !.lastFailedBlock = z]
    OBVIOUS
  <2>2. e = [keptByBlock |-> d.keptByBlock, receiveTime |-> d.receiveTime,
             maxUsedBlock |-> y, lastFailedBlock |-> z]
    BY Zenon, <2>1 DEF IsDetails
  <2>3. QED
    BY Zenon, <2>1, <2>2 DEF Same, IsDetails
<1>4. QED
  BY <1>1, <1>2, <1>3

LEMMA ReadySame ==
  ASSUME NEW c, NEW t, NEW d, IsDetails(d), NEW stale
  PROVE  Same(d, is_transaction_ready_to_go(c, t, d, stale).info)
<1>1. Same(d, d)
  BY DEF Same
<1>2. Same(d, checkTransactionInputs(c, t, d, stale).info)
  <2>1. \/ checkTransactionInputs(c, t, d, stale) = [ok |-> FALSE, info |-> d]
        \/ checkTransactionInputs(c, t, d, stale) = [ok |-> TRUE, info |-> d]
        \/ checkTransactionInputs(c, t, d, stale) = CheckAgain(c, t, d)
    BY Zenon DEF checkTransactionInputs
  <2>2. QED
    BY <1>1, <2>1, CheckAgainSame
<1>3. DOMAIN checkTransactionInputs(c, t, d, stale) = {"ok", "info"}
  BY DEF checkTransactionInputs, CheckAgain
<1>4. is_transaction_ready_to_go(c, t, d, stale).info = checkTransactionInputs(c, t, d, stale).info
  BY <1>3 DEF is_transaction_ready_to_go
<1>5. QED
  BY <1>2, <1>4

\* What fill_block_template remembers changes no index.
LEMMA RememberGood ==
  ASSUME NEW p, Good(p), NEW c, NEW checked, NEW stale
  PROVE  /\ Good(Remember(p, c, checked, stale))
         /\ DOMAIN Remember(p, c, checked, stale).m_transactions = DOMAIN p.m_transactions
         /\ \A t \in DOMAIN p.m_transactions :
              Remember(p, c, checked, stale).m_transactions[t].receiveTime =
                p.m_transactions[t].receiveTime
         /\ Remember(p, c, checked, stale).m_recentlyDeletedTransactions =
              p.m_recentlyDeletedTransactions
<1> DEFINE q == Remember(p, c, checked, stale)
           f == p.m_transactions
           m == [t \in DOMAIN f |-> IF t \in checked
                                    THEN is_transaction_ready_to_go(c, t, f[t], stale).info
                                    ELSE f[t]]
<1>1. \A t \in DOMAIN f : Same(f[t], m[t])
  BY ReadySame DEF Good, IsPool, Same
<1>2. DOMAIN m = DOMAIN f /\ IsFcn(m)
  BY DEF IsFcn
<1>3. q = [p EXCEPT !.m_transactions = m]
  BY DEF Remember
<1> HIDE DEF m, q
<1>4. q = [m_transactions |-> m, m_spent_key_images |-> p.m_spent_key_images,
           m_spentOutputs |-> p.m_spentOutputs, m_ttlIndex |-> p.m_ttlIndex,
           m_timestampIndex |-> p.m_timestampIndex,
           m_recentlyDeletedTransactions |-> p.m_recentlyDeletedTransactions]
  BY <1>3 DEF Good, IsPool, IsRecord
<1>5. /\ q.m_transactions = m /\ q.m_spent_key_images = p.m_spent_key_images
      /\ q.m_spentOutputs = p.m_spentOutputs /\ q.m_ttlIndex = p.m_ttlIndex
      /\ q.m_timestampIndex = p.m_timestampIndex /\ IsRecord(q)
      /\ q.m_recentlyDeletedTransactions = p.m_recentlyDeletedTransactions
  BY <1>4 DEF IsRecord
<1>6. IsPool(q)
  BY <1>1, <1>2, <1>5 DEF IsPool, Same
<1>7. Unkept(m) = Unkept(f)
  BY <1>1, <1>2 DEF Unkept, Same
<1>8. {<<m[t].receiveTime, t>> : t \in DOMAIN m} = {<<f[t].receiveTime, t>> : t \in DOMAIN f}
  BY <1>1, <1>2 DEF Same
<1>9. Matches(q)
  BY <1>2, <1>5, <1>7, <1>8 DEF Good, Matches
<1>10. Apart(q)
  BY <1>5, <1>7 DEF Good, Apart
<1>11. Good(q)
  BY <1>6, <1>9, <1>10 DEF Good
<1>12. QED
  BY <1>1, <1>2, <1>5, <1>11 DEF Same, q

\* m_recentlyDeletedTransactions is no part of it.
LEMMA DeletedGood ==
  ASSUME NEW p, Good(p), NEW x
  PROVE  /\ Good([p EXCEPT !.m_recentlyDeletedTransactions = x])
         /\ [p EXCEPT !.m_recentlyDeletedTransactions = x].m_transactions = p.m_transactions
         /\ [p EXCEPT !.m_recentlyDeletedTransactions = x].m_recentlyDeletedTransactions = x
<1>1. PICK q : q = [p EXCEPT !.m_recentlyDeletedTransactions = x]
  BY Zenon
<1>2. q = [m_transactions |-> p.m_transactions, m_spent_key_images |-> p.m_spent_key_images,
           m_spentOutputs |-> p.m_spentOutputs, m_ttlIndex |-> p.m_ttlIndex,
           m_timestampIndex |-> p.m_timestampIndex, m_recentlyDeletedTransactions |-> x]
  BY <1>1 DEF Good, IsPool, IsRecord
<1>3. /\ q.m_transactions = p.m_transactions /\ q.m_spent_key_images = p.m_spent_key_images
      /\ q.m_spentOutputs = p.m_spentOutputs /\ q.m_ttlIndex = p.m_ttlIndex
      /\ q.m_timestampIndex = p.m_timestampIndex /\ IsRecord(q)
      /\ q.m_recentlyDeletedTransactions = x
  BY <1>2 DEF IsRecord
<1>4. Good(q)
  BY <1>3 DEF Good, IsPool, Matches, Apart
<1>5. QED
  BY <1>1, <1>3, <1>4

\* The indices the file lacks are built again as they were.
LEMMA BuildSame ==
  ASSUME NEW p, Good(p)
  PROVE  buildIndices(p) = p
<1> DEFINE d == {<<p.m_transactions[t].receiveTime, t>> : t \in DOMAIN p.m_transactions}
           l == {t \in DOMAIN p.m_transactions : ttl[t] # 0}
<1>1. buildIndices(p) = [p EXCEPT !.m_timestampIndex = d, !.m_ttlIndex = l]
  BY DEF buildIndices
<1>2. d = p.m_timestampIndex /\ l = p.m_ttlIndex
  BY DEF Good, Matches
<1> HIDE DEF d, l
<1>3. QED
  BY Zenon, <1>1, <1>2 DEF Good, IsPool, IsRecord

-----------------------------------------------------------------------------
(* The steps of MemoryPool.                                                *)

\* add_tx: refused, there already, or inserted.
LEMMA AddGood ==
  ASSUME NEW p, Good(p), now \in Nat, NEW c, NEW t, NEW kept \in BOOLEAN
  PROVE  Good(add_tx(p, c, t, kept))
<1>1. CASE t \in DOMAIN p.m_transactions \/ (~kept /\ Refused(p, c, t))
  BY <1>1 DEF add_tx
<1>2. CASE ~(t \in DOMAIN p.m_transactions \/ (~kept /\ Refused(p, c, t)))
  <2>1. add_tx(p, c, t, kept) = Insert(p, c, {t}, kept)
    BY <1>2 DEF add_tx
  <2>2. {t} \cap DOMAIN p.m_transactions = {}
    BY <1>2
  <2>3. ~kept => ~haveSpentInputs(p, t)
    BY <1>2 DEF Refused
  <2>4. ~kept => \E u : {t} = {u} /\ ~haveSpentInputs(p, u)
    BY <2>3
  <2>5. Good(Insert(p, c, {t}, kept))
    BY <2>2, <2>4, InsertGood
  <2>6. QED
    BY <2>1, <2>5
<1>3. QED
  BY <1>1, <1>2

\* saveTransactions: what comes from a block needs no comparison.
LEMMA SaveGood ==
  ASSUME NEW p, Good(p), now \in Nat, NEW c, NEW T, T \cap DOMAIN p.m_transactions = {}
  PROVE  Good(saveTransactions(p, c, T))
<1>1. TRUE \in BOOLEAN
  OBVIOUS
<1>2. Good(Insert(p, c, T, TRUE))
  BY Zenon, <1>1, InsertGood
<1>3. QED
  BY Zenon, <1>2 DEF saveTransactions

\* take_tx yields transactions of the pool.
LEMMA TakenInPool ==
  ASSUME NEW p, NEW txs \in Seq(KeptTxs)
  PROVE  Taken(p, txs) \subseteq DOMAIN p.m_transactions /\ Taken(p, txs) \subseteq KeptTxs
BY DEF Taken

\* removeExpiredTransactions, seen from outside.
LEMMA ExpireShape ==
  ASSUME NEW p, Good(p)
  PROVE  LET gone == {t \in DOMAIN p.m_transactions : Expired(p, t)}
             rd == p.m_recentlyDeletedTransactions
             q == removeExpiredTransactions(p)
         IN  /\ Good(q)
             /\ DOMAIN q.m_transactions = DOMAIN p.m_transactions \ gone
             /\ \A t \in DOMAIN q.m_transactions : q.m_transactions[t] = p.m_transactions[t]
             /\ DOMAIN q.m_recentlyDeletedTransactions =
                  {t \in DOMAIN rd : now - rd[t] <= forgetTime} \cup gone
             /\ \A t \in DOMAIN rd : now - rd[t] <= forgetTime =>
                  q.m_recentlyDeletedTransactions[t] = rd[t]
             /\ \A t \in gone \ DOMAIN rd : q.m_recentlyDeletedTransactions[t] = now
<1> DEFINE gone == {t \in DOMAIN p.m_transactions : Expired(p, t)}
           rd == p.m_recentlyDeletedTransactions
           keep == {t \in DOMAIN rd : now - rd[t] <= forgetTime}
           deleted == Emplace(Restrict(rd, keep), [t \in gone |-> now])
           r == removeTransaction(p, gone)
           q == removeExpiredTransactions(p)
<1>1. q = [r EXCEPT !.m_recentlyDeletedTransactions = deleted]
  BY DEF removeExpiredTransactions
<1>2. /\ DOMAIN deleted = keep \cup gone
      /\ \A t \in keep : deleted[t] = rd[t]
      /\ \A t \in gone \ keep : deleted[t] = now
  BY Zenon DEF Emplace, Restrict
<1>3. gone \subseteq DOMAIN p.m_transactions
  OBVIOUS
<1>4. r = removeTransaction(p, gone)
  OBVIOUS
<1> HIDE DEF gone, deleted, r, q
<1>5. Good(r)
  BY <1>3, <1>4, RemoveGood
<1>6. r.m_transactions = [t \in DOMAIN p.m_transactions \ gone |-> p.m_transactions[t]]
  <2>1. Removed(p, gone, r)
    BY <1>4, RemoveFields DEF Good
  <2>2. QED
    BY <2>1 DEF Removed
<1>7. Good(q) /\ q.m_transactions = r.m_transactions /\ q.m_recentlyDeletedTransactions = deleted
  BY <1>1, <1>5, DeletedGood
<1>8. /\ DOMAIN q.m_transactions = DOMAIN p.m_transactions \ gone
      /\ \A t \in DOMAIN q.m_transactions : q.m_transactions[t] = p.m_transactions[t]
  BY <1>6, <1>7
<1>9. /\ DOMAIN q.m_recentlyDeletedTransactions = keep \cup gone
      /\ \A t \in keep : q.m_recentlyDeletedTransactions[t] = rd[t]
      /\ \A t \in gone \ DOMAIN rd : q.m_recentlyDeletedTransactions[t] = now
  BY <1>2, <1>7
<1>10. QED
  BY <1>7, <1>8, <1>9 DEF q, gone

-----------------------------------------------------------------------------
(* Expired transactions.  banned is when each one last expired.            *)

\* A transaction that never comes with a block and expired is either among
\* the recently deleted, with the time of its last expiry, or forgotten; it is
\* in the pool only when it came after that, and never while it is among the
\* recently deleted.
LateAt(n, p, bn) ==
  LET tx == p.m_transactions
      rd == p.m_recentlyDeletedTransactions
  IN  /\ \A t \in DOMAIN tx : tx[t].receiveTime <= n
      /\ \A t \in DOMAIN bn : bn[t] \in Nat /\ bn[t] <= n
      /\ \A t \in DOMAIN bn \ KeptTxs :
           bn[t] + forgetTime < n \/ (t \in DOMAIN rd /\ rd[t] = bn[t])
      /\ \A t \in (DOMAIN tx \cap DOMAIN bn) \ KeptTxs : tx[t].receiveTime > bn[t] + forgetTime
      /\ DOMAIN tx \cap DOMAIN rd \subseteq KeptTxs

Late(p, bn) == LateAt(now, p, bn)

LEMMA EmptyLate == Late(EmptyPool, << >>)
BY DEF Late, LateAt, EmptyPool

\* Taking transactions out, or what a template remembers, disturbs nothing.
LEMMA LateFewer ==
  ASSUME NEW p, NEW q, NEW bn, Late(p, bn),
         DOMAIN q.m_transactions \subseteq DOMAIN p.m_transactions,
         \A t \in DOMAIN q.m_transactions :
           q.m_transactions[t].receiveTime = p.m_transactions[t].receiveTime,
         q.m_recentlyDeletedTransactions = p.m_recentlyDeletedTransactions
  PROVE  Late(q, bn)
BY DEF Late, LateAt

\* A transaction comes with a block, or is not among the recently deleted.
LEMMA LateInsert ==
  ASSUME now \in Nat, NEW p, Good(p), NEW bn, Late(p, bn), NEW c, NEW T,
         T \cap DOMAIN p.m_transactions = {}, NEW kept \in BOOLEAN,
         \A t \in T : t \in KeptTxs \/ t \notin DOMAIN p.m_recentlyDeletedTransactions
  PROVE  Late(Insert(p, c, T, kept), bn)
<1> DEFINE q == Insert(p, c, T, kept)
<1>1. Inserted(p, c, T, kept, q)
  BY InsertFields DEF Good
<1> HIDE DEF q
<1>2. /\ DOMAIN q.m_transactions = DOMAIN p.m_transactions \cup T
      /\ \A t \in DOMAIN p.m_transactions : q.m_transactions[t] = p.m_transactions[t]
      /\ \A t \in T : q.m_transactions[t] = Details(c, t, kept)
      /\ q.m_recentlyDeletedTransactions = p.m_recentlyDeletedTransactions
  BY <1>1 DEF Inserted
<1>3. \A t \in T : q.m_transactions[t].receiveTime = now
  <2>1. \A t : Details(c, t, kept).receiveTime = now
    BY DEF Details
  <2>2. QED
    BY <1>2, <2>1
<1>4. QED
  BY <1>2, <1>3 DEF Late, LateAt, q

\* emplace keeps the time of an earlier deletion, but there is none: what is
\* in the pool is not among the recently deleted.
LEMMA LateExpire ==
  ASSUME now \in Nat, NEW p, Good(p), NEW bn, Late(p, bn)
  PROVE  Late(removeExpiredTransactions(p), Emplace(Ban(p), bn))
<1> DEFINE gone == {t \in DOMAIN p.m_transactions : Expired(p, t)}
           tx == p.m_transactions
           rd == p.m_recentlyDeletedTransactions
           q == removeExpiredTransactions(p)
           rd2 == q.m_recentlyDeletedTransactions
           bn2 == Emplace(Ban(p), bn)
<1>1. /\ DOMAIN q.m_transactions = DOMAIN tx \ gone
      /\ \A t \in DOMAIN q.m_transactions : q.m_transactions[t] = tx[t]
      /\ DOMAIN rd2 = {t \in DOMAIN rd : now - rd[t] <= forgetTime} \cup gone
      /\ \A t \in DOMAIN rd : now - rd[t] <= forgetTime => rd2[t] = rd[t]
      /\ \A t \in gone \ DOMAIN rd : rd2[t] = now
  BY ExpireShape
<1>2. /\ DOMAIN bn2 = gone \cup DOMAIN bn
      /\ \A t \in gone : bn2[t] = now
      /\ \A t \in DOMAIN bn \ gone : bn2[t] = bn[t]
  BY DEF Ban, Emplace
<1>3. gone \subseteq DOMAIN tx
  OBVIOUS
<1> HIDE DEF gone, q, bn2
<1>4. forgetTime \in Nat
  BY ForgetAssumption
<1>5. \A t \in DOMAIN q.m_transactions : q.m_transactions[t].receiveTime <= now
  BY <1>1 DEF Late, LateAt
<1>6. \A t \in DOMAIN bn2 : bn2[t] \in Nat /\ bn2[t] <= now
  BY <1>2 DEF Late, LateAt
<1>7. ASSUME NEW t \in DOMAIN bn2 \ KeptTxs
      PROVE  bn2[t] + forgetTime < now \/ (t \in DOMAIN rd2 /\ rd2[t] = bn2[t])
  <2>1. CASE t \in gone
    <3>1. t \notin DOMAIN rd
      BY <1>3, <2>1 DEF Late, LateAt
    <3>2. QED
      BY <1>1, <1>2, <2>1, <3>1
  <2>2. CASE t \notin gone
    <3>1. t \in DOMAIN bn /\ bn2[t] = bn[t] /\ bn[t] \in Nat
      BY <1>2, <2>2 DEF Late, LateAt
    <3>2. CASE t \in DOMAIN rd /\ rd[t] = bn[t]
      BY <1>1, <1>4, <3>1, <3>2
    <3>3. CASE ~(t \in DOMAIN rd /\ rd[t] = bn[t])
      BY <3>1, <3>3 DEF Late, LateAt
    <3>4. QED
      BY <3>2, <3>3
  <2>3. QED
    BY <2>1, <2>2
<1>8. ASSUME NEW t \in (DOMAIN q.m_transactions \cap DOMAIN bn2) \ KeptTxs
      PROVE  q.m_transactions[t].receiveTime > bn2[t] + forgetTime
  BY <1>1, <1>2 DEF Late, LateAt
<1>9. DOMAIN q.m_transactions \cap DOMAIN rd2 \subseteq KeptTxs
  BY <1>1 DEF Late, LateAt
<1>10. Late(q, bn2)
  BY <1>5, <1>6, <1>7, <1>8, <1>9 DEF Late, LateAt
<1>11. QED
  BY <1>10 DEF q, bn2

-----------------------------------------------------------------------------
(* The invariant, of the pool and of the file.                             *)

PoolInv ==
  /\ now \in Nat
  /\ m_blocks \in Seq(Blocks) /\ Len(m_blocks) >= 1
  /\ Good(pool) /\ Late(pool, banned)
  /\ Good(poolFile.pool) /\ Late(poolFile.pool, poolFile.banned)
  /\ ~poolFile.exists => poolFile = NoFile

LEMMA PoolInit == Init => PoolInv
<1> SUFFICES ASSUME Init PROVE PoolInv
  OBVIOUS
<1>1. m_blocks \in Seq(Blocks) /\ Len(m_blocks) >= 1 /\ now \in Nat
  BY BlocksAssumption DEF Init
<1>2. pool = EmptyPool /\ poolFile.pool = EmptyPool /\ poolFile.banned = << >> /\ banned = << >>
      /\ poolFile = NoFile
  BY DEF Init, NoFile
<1>3. QED
  BY <1>1, <1>2, EmptyGood, EmptyLate DEF PoolInv

\* A step that leaves the clock and the file alone.
LEMMA PoolChange ==
  ASSUME PoolInv, UNCHANGED <<now, poolFile>>, Good(pool'), Late(pool', banned'),
         m_blocks' \in Seq(Blocks), Len(m_blocks') >= 1
  PROVE  PoolInv'
<1>1. Late(pool, banned)' /\ Late(poolFile.pool, poolFile.banned)'
  BY DEF PoolInv, Late, LateAt
<1>2. QED
  BY <1>1 DEF PoolInv

LEMMA PoolPush ==
  ASSUME PoolInv, NEW b \in Blocks, PushBlock(b)
  PROVE  PoolInv'
<1> DEFINE txs == transactions[b]
           T == Taken(pool, txs)
           left == removeTransaction(pool, T)
           back == saveTransactions(left, m_blocks, T)
<1>1. /\ pool' = left \/ pool' = back
      /\ m_blocks' = m_blocks \/ m_blocks' = Append(m_blocks, b)
      /\ UNCHANGED <<poolFile, now, banned>>
  BY DEF PushBlock
<1>2. T \subseteq DOMAIN pool.m_transactions /\ T \subseteq KeptTxs
  BY BlocksAssumption, TakenInPool
<1>3. Good(left)
  BY <1>2, RemoveGood DEF PoolInv
<1>4. Removed(pool, T, left)
  BY RemoveFields DEF PoolInv, Good
<1> HIDE DEF T, left
<1>5. /\ DOMAIN left.m_transactions = DOMAIN pool.m_transactions \ T
      /\ \A t \in DOMAIN left.m_transactions : left.m_transactions[t] = pool.m_transactions[t]
      /\ left.m_recentlyDeletedTransactions = pool.m_recentlyDeletedTransactions
  BY <1>4 DEF Removed
<1>6. Late(left, banned)
  BY <1>5, LateFewer DEF PoolInv
<1>7. T \cap DOMAIN left.m_transactions = {}
  BY <1>5
<1>8. Good(back)
  BY <1>3, <1>7, SaveGood DEF PoolInv
<1>9. Late(back, banned)
  <2>1. TRUE \in BOOLEAN /\ now \in Nat
    BY DEF PoolInv
  <2>2. Late(Insert(left, m_blocks, T, TRUE), banned)
    BY Zenon, <1>2, <1>3, <1>6, <1>7, <2>1, LateInsert
  <2>3. QED
    BY Zenon, <2>2 DEF saveTransactions
<1> HIDE DEF back
<1>10. m_blocks' \in Seq(Blocks) /\ Len(m_blocks') >= 1
  BY <1>1 DEF PoolInv
<1>11. Good(pool') /\ Late(pool', banned')
  <2>1. Late(pool', banned)
    BY <1>1, <1>6, <1>9
  <2>2. QED
    BY <1>1, <1>3, <1>8, <2>1
<1>12. QED
  BY <1>1, <1>10, <1>11, PoolChange

LEMMA PoolPop ==
  ASSUME PoolInv, PopBlock
  PROVE  PoolInv'
<1> DEFINE txs == transactions[getTailId(m_blocks)]
           saved == {i \in DOMAIN txs : \A j \in i .. Len(txs) :
                                          txs[j] \notin DOMAIN pool.m_transactions}
           T == {txs[i] : i \in saved}
           back == saveTransactions(pool, m_blocks, T)
<1>1. /\ pool' = back
      /\ m_blocks' = m_blocks \/ m_blocks' = Front(m_blocks)
      /\ Len(m_blocks) > 1
      /\ UNCHANGED <<poolFile, now, banned>>
  BY DEF PopBlock
<1>2. getTailId(m_blocks) \in Blocks
  BY DEF PoolInv, getTailId
<1>3. txs \in Seq(KeptTxs)
  BY <1>2, BlocksAssumption
<1> HIDE DEF txs
<1>4. T \subseteq KeptTxs /\ T \cap DOMAIN pool.m_transactions = {}
  <2>1. \A i \in DOMAIN txs : i \in Nat /\ i >= 1 /\ i <= Len(txs) /\ txs[i] \in KeptTxs
    BY <1>3
  <2>2. \A i \in saved : txs[i] \notin DOMAIN pool.m_transactions
    BY <1>3, <2>1
  <2>3. QED
    BY <2>1, <2>2
<1> HIDE DEF T
<1>5. Good(back)
  BY <1>4, SaveGood DEF PoolInv
<1>6. Late(back, banned)
  <2>1. TRUE \in BOOLEAN /\ now \in Nat /\ Good(pool) /\ Late(pool, banned)
    BY DEF PoolInv
  <2>2. Late(Insert(pool, m_blocks, T, TRUE), banned)
    BY Zenon, <1>4, <2>1, LateInsert
  <2>3. QED
    BY Zenon, <2>2 DEF saveTransactions
<1> HIDE DEF back
<1>7. m_blocks' \in Seq(Blocks) /\ Len(m_blocks') >= 1
  BY <1>1 DEF PoolInv, Front
<1>8. QED
  BY <1>1, <1>5, <1>6, <1>7, PoolChange

LEMMA PoolAdd ==
  ASSUME PoolInv, NEW t, NEW kept \in BOOLEAN, AddTx(t, kept)
  PROVE  PoolInv'
<1> DEFINE q == add_tx(pool, m_blocks, t, kept)
<1>1. pool' = q /\ (kept => t \in KeptTxs) /\ UNCHANGED <<m_blocks, poolFile, now, banned>>
  BY DEF AddTx
<1>2. Good(q)
  BY AddGood DEF PoolInv
<1>3. Late(q, banned)
  <2>1. CASE t \in DOMAIN pool.m_transactions \/ (~kept /\ Refused(pool, m_blocks, t))
    BY <2>1 DEF add_tx, PoolInv
  <2>2. CASE ~(t \in DOMAIN pool.m_transactions \/ (~kept /\ Refused(pool, m_blocks, t)))
    <3>1. q = Insert(pool, m_blocks, {t}, kept)
      BY <2>2 DEF add_tx
    <3>2. t \in KeptTxs \/ t \notin DOMAIN pool.m_recentlyDeletedTransactions
      BY <1>1, <2>2 DEF Refused
    <3>3. {t} \cap DOMAIN pool.m_transactions = {}
      BY <2>2
    <3>4. Late(Insert(pool, m_blocks, {t}, kept), banned)
      BY <3>2, <3>3, LateInsert DEF PoolInv
    <3>5. QED
      BY <3>1, <3>4
  <2>3. QED
    BY <2>1, <2>2
<1> HIDE DEF q
<1>4. QED
  BY <1>1, <1>2, <1>3, PoolChange DEF PoolInv

LEMMA PoolIdle ==
  ASSUME PoolInv, OnIdle
  PROVE  PoolInv'
<1>1. /\ pool' = removeExpiredTransactions(pool)
      /\ banned' = Emplace(Ban(pool), banned)
      /\ UNCHANGED <<m_blocks, poolFile, now>>
  BY DEF OnIdle
<1>2. Good(pool')
  BY <1>1, ExpireShape DEF PoolInv
<1>3. Late(removeExpiredTransactions(pool), Emplace(Ban(pool), banned))
  BY LateExpire DEF PoolInv
<1>4. Late(pool', banned')
  BY <1>1, <1>3
<1>5. QED
  BY <1>1, <1>2, <1>4, PoolChange DEF PoolInv

LEMMA PoolTemplate ==
  ASSUME PoolInv, TemplateFill
  PROVE  PoolInv'
<1>1. PICK stale, checked : pool' = Remember(pool, m_blocks, checked, stale)
  BY DEF TemplateFill
<1>2. UNCHANGED <<m_blocks, poolFile, now, banned>>
  BY DEF TemplateFill
<1> DEFINE q == Remember(pool, m_blocks, checked, stale)
<1>3. /\ Good(q) /\ DOMAIN q.m_transactions = DOMAIN pool.m_transactions
      /\ \A t \in DOMAIN pool.m_transactions :
           q.m_transactions[t].receiveTime = pool.m_transactions[t].receiveTime
      /\ q.m_recentlyDeletedTransactions = pool.m_recentlyDeletedTransactions
  BY RememberGood DEF PoolInv
<1>4. pool' = q
  BY <1>1
<1> HIDE DEF q
<1>5. Late(q, banned)
  BY <1>3, LateFewer DEF PoolInv
<1>6. QED
  BY <1>2, <1>3, <1>4, <1>5, PoolChange DEF PoolInv

LEMMA PoolTick ==
  ASSUME PoolInv, Tick
  PROVE  PoolInv'
<1>1. now \in Nat /\ now' = now + 1 /\ UNCHANGED <<m_blocks, pool, poolFile, banned>>
  BY DEF Tick, PoolInv
<1>2. ASSUME NEW p, NEW bn, Good(p), LateAt(now, p, bn)
      PROVE  LateAt(now + 1, p, bn)
  <2>1. \A t \in DOMAIN p.m_transactions : p.m_transactions[t].receiveTime \in Nat
    BY Zenon, <1>2 DEF Good, IsPool, IsDetails
  <2>2. QED
    BY <1>1, <1>2, <2>1, ForgetAssumption DEF LateAt
<1>3. LateAt(now', pool', banned') /\ LateAt(now', poolFile'.pool, poolFile'.banned)
  BY <1>1, <1>2 DEF PoolInv, Late
<1>4. Late(pool, banned)' /\ Late(poolFile.pool, poolFile.banned)'
  BY <1>3 DEF Late
<1>5. Good(pool)' /\ Good(poolFile.pool)'
  BY <1>1 DEF PoolInv
<1>6. QED
  BY <1>1, <1>3, <1>4, <1>5 DEF PoolInv

\* init reads a good pool, builds the two indices it had, and expires it.
LEMMA PoolStart ==
  ASSUME PoolInv, NEW file, Good(file.pool), Late(file.pool, file.banned),
         ~file.exists => file = NoFile, Start(file)
  PROVE  PoolInv'
<1> DEFINE p == file.pool
           q == removeExpiredTransactions(p)
<1>1. /\ pool' = IF file.exists THEN removeExpiredTransactions(buildIndices(p)) ELSE EmptyPool
      /\ banned' = Emplace(Ban(buildIndices(p)), file.banned)
      /\ poolFile' = file
      /\ UNCHANGED <<m_blocks, now>>
  BY DEF Start
<1>2. buildIndices(p) = p
  BY BuildSame
<1>3. Good(q) /\ Late(q, Emplace(Ban(p), file.banned))
  BY Zenon, ExpireShape, LateExpire DEF PoolInv
<1>4. Good(pool') /\ Late(pool', banned')
  <2>1. CASE file.exists
    BY <1>1, <1>2, <1>3, <2>1
  <2>2. CASE ~file.exists
    <3>1. Emplace(Ban(EmptyPool), << >>) = << >>
      BY DEF Emplace, Ban, EmptyPool
    <3>2. banned' = << >> /\ pool' = EmptyPool
      BY <1>1, <1>2, <2>2, <3>1 DEF NoFile
    <3>3. QED
      BY <3>2, EmptyGood, EmptyLate
  <2>3. QED
    BY <2>1, <2>2
<1>5. Late(pool, banned)' /\ Late(poolFile.pool, poolFile.banned)'
  BY Zenon, <1>1, <1>4 DEF Late, LateAt
<1>6. Good(poolFile.pool)'
  BY <1>1
<1>7. QED
  BY <1>1, <1>4, <1>5, <1>6 DEF PoolInv

LEMMA PoolNext == PoolInv /\ [Next]_vars => PoolInv'
<1> SUFFICES ASSUME PoolInv, [Next]_vars PROVE PoolInv'
  OBVIOUS
<1>1. ASSUME NEW b \in Blocks, PushBlock(b) PROVE PoolInv'
  BY <1>1, PoolPush
<1>2. CASE PopBlock
  BY <1>2, PoolPop
<1>3. ASSUME NEW t \in Txs, NEW kept \in BOOLEAN, AddTx(t, kept) PROVE PoolInv'
  BY <1>3, PoolAdd
<1>4. CASE OnIdle
  BY <1>4, PoolIdle
<1>5. CASE TemplateHead
  BY Zenon, <1>5 DEF TemplateHead, PoolInv, Late, LateAt
<1>6. CASE TemplateFill
  BY <1>6, PoolTemplate
<1>7. CASE Tick
  BY <1>7, PoolTick
<1>8. CASE Restart
  <2>1. PICK file : file = File(pool, banned)
    OBVIOUS
  <2>2. file.exists /\ file.pool = pool /\ file.banned = banned
    BY <2>1 DEF File
  <2>3. Start(file)
    BY <1>8, <2>1 DEF Restart
  <2>4. Good(file.pool) /\ Late(file.pool, file.banned)
    BY <2>2 DEF PoolInv
  <2>5. QED
    BY <2>2, <2>3, <2>4, PoolStart
<1>9. CASE Crash
  <2>1. CASE Start(poolFile)
    BY <2>1, PoolStart DEF PoolInv
  <2>2. CASE Start(NoFile)
    <3>1. NoFile.pool = EmptyPool /\ NoFile.banned = << >>
      BY DEF NoFile
    <3>2. Good(NoFile.pool) /\ Late(NoFile.pool, NoFile.banned)
      BY <3>1, EmptyGood, EmptyLate
    <3>3. QED
      BY <2>2, <3>2, PoolStart
  <2>3. QED
    BY <1>9, <2>1, <2>2 DEF Crash
<1>10. CASE UNCHANGED vars
  BY Zenon, <1>10 DEF vars, PoolInv, Late, LateAt
<1>11. QED
  BY <1>1, <1>2, <1>3, <1>4, <1>5, <1>6, <1>7, <1>8, <1>9, <1>10 DEF Next

-----------------------------------------------------------------------------
(* The theorems.                                                           *)

\* The key images, the used outputs, the ttl and the timestamp index are those
\* of the transactions in the pool, for every history of add_tx, take_tx,
\* expiry, refused and popped blocks, templates, restarts and crashes.
THEOREM IndicesAlwaysMatch == Spec => []IndicesMatchPool
<1>1. PoolInv => IndicesMatchPool
  BY DEF PoolInv, Good, Matches, Images, Outputs, Unkept, IndicesMatchPool
<1>2. QED
  BY <1>1, PoolInit, PoolNext, PTL DEF Spec

\* haveSpentInputs keeps two relayed transactions of the pool from spending
\* the same input, although a block's transactions come in unasked.
THEOREM RelayedNeverConflict == Spec => []ConflictsCameWithBlocks
<1>1. PoolInv => ConflictsCameWithBlocks
  BY Zenon DEF PoolInv, Good, Apart, Unkept, ConflictsCameWithBlocks
<1>2. QED
  BY <1>1, PoolInit, PoolNext, PTL DEF Spec

\* A transaction that expired comes back by relay only after forgetTime,
\* across restarts (m_recentlyDeletedTransactions is written to the file) and
\* crashes (which lose the deletion and the time of it alike).
THEOREM ExpiredStayOut == Spec => []DeletedStaysOut
<1>1. PoolInv => DeletedStaysOut
  BY DEF PoolInv, Late, LateAt, DeletedStaysOut
<1>2. QED
  BY <1>1, PoolInit, PoolNext, PTL DEF Spec
=============================================================================
