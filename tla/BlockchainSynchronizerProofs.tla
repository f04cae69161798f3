-------------------- MODULE BlockchainSynchronizerProofs --------------------
(***************************************************************************)
(* Proofs about BlockchainSynchronizer, for every block tree, every limit  *)
(* on the blocks of one answer, every density of a short history and every *)
(* number of failures: two consumers of a wallet always are on one chain,  *)
(* have been given what their SynchronizationState says, and no answer     *)
(* starts above one of them; and a worker that waits has slept through     *)
(* nothing the proxy has seen.                                             *)
(*                                                                         *)
(* What getShortHistory sends is only used through two facts: the ids are  *)
(* ids of the consumer's chain, and the genesis block is the last.         *)
(***************************************************************************)
EXTENDS BlockchainSynchronizer, SequenceTheorems, WellFoundedInduction, TLAPS

\* A set of naturals has a least element, a bounded one a greatest.
LEMMA LeastOf ==
  ASSUME NEW T, T \subseteq Nat, T # {}
  PROVE  Min(T) \in T /\ \A y \in T : Min(T) <= y
<1>1. PICK x \in T : \A y \in T : ~(<<y, x>> \in OpToRel(<, Nat))
  BY Zenon, NatLessThanWellFounded, WFMin
<1>2. ASSUME NEW y \in T PROVE x <= y
  <2>1. ~(y < x)
    BY Zenon, <1>1 DEF OpToRel
  <2>2. QED
    BY <2>1
<1>3. \E z \in T : \A y \in T : z <= y
  BY <1>2
<1>4. QED
  BY Zenon, <1>3 DEF Min

LEMMA GreatestOf ==
  ASSUME NEW T, T \subseteq Nat, T # {}, NEW n \in Nat, \A y \in T : y <= n
  PROVE  Max(T) \in T /\ \A y \in T : Max(T) >= y
<1> DEFINE U == {n - y : y \in T}
<1>1. U \subseteq Nat /\ U # {}
  <2>1. \A y \in T : n - y \in Nat
    OBVIOUS
  <2>2. QED
    BY Zenon, <2>1
<1>2. Min(U) \in U /\ \A u \in U : Min(U) <= u
  BY Zenon, <1>1, LeastOf
<1>3. PICK x \in T : Min(U) = n - x
  BY Zenon, <1>2
<1>4. ASSUME NEW y \in T PROVE x >= y
  <2>1. n - y \in U
    OBVIOUS
  <2>2. n - x <= n - y
    BY Zenon, <1>2, <1>3, <2>1
  <2>3. QED
    BY <2>2
<1>5. \E z \in T : \A y \in T : z >= y
  BY <1>4
<1>6. QED
  BY Zenon, <1>5 DEF Max

LEMMA LessOf ==
  ASSUME NEW a \in Nat, NEW b \in Nat
  PROVE  Min({a, b}) = IF a <= b THEN a ELSE b
<1>1. {a, b} \subseteq Nat /\ {a, b} # {}
  OBVIOUS
<1>2. Min({a, b}) \in {a, b} /\ \A y \in {a, b} : Min({a, b}) <= y
  BY <1>1, LeastOf
<1>3. QED
  BY <1>2

-----------------------------------------------------------------------------
(* Chains of the block tree.                                               *)

IsChain(s) == s \in Seq(Blocks) /\ Len(s) >= 1 /\ s = path[s[Len(s)]]

LEMMA Sub ==
  ASSUME NEW s \in Seq(Blocks), NEW n \in 0 .. Len(s)
  PROVE  /\ SubSeq(s, 1, n) \in Seq(Blocks) /\ Len(SubSeq(s, 1, n)) = n
         /\ \A k \in 1 .. n : SubSeq(s, 1, n)[k] = s[k]
<1>1. 1 \in Int /\ n \in Int /\ \A i \in 1 .. n : s[i] \in Blocks
  OBVIOUS
<1>2. QED
  BY <1>1, SubSeqProperties

LEMMA Part ==
  ASSUME NEW s \in Seq(Blocks), NEW m \in Nat, NEW n \in Nat, 1 <= m, m <= n + 1, n <= Len(s)
  PROVE  /\ SubSeq(s, m, n) \in Seq(Blocks) /\ Len(SubSeq(s, m, n)) = n - m + 1
         /\ \A k \in 1 .. n - m + 1 : SubSeq(s, m, n)[k] = s[m + k - 1]
<1>1. m \in Int /\ n \in Int /\ \A i \in m .. n : s[i] \in Blocks
  OBVIOUS
<1>2. /\ SubSeq(s, m, n) \in Seq(Blocks)
      /\ Len(SubSeq(s, m, n)) = IF m <= n THEN n - m + 1 ELSE 0
      /\ \A i \in 1 .. n - m + 1 : SubSeq(s, m, n)[i] = s[m + i - 1]
  BY <1>1, SubSeqProperties
<1>3. QED
  BY <1>2

LEMMA Join ==
  ASSUME NEW s \in Seq(Blocks), NEW t \in Seq(Blocks)
  PROVE  /\ s \o t \in Seq(Blocks) /\ Len(s \o t) = Len(s) + Len(t)
         /\ \A i \in 1 .. Len(s) : (s \o t)[i] = s[i]
         /\ \A i \in 1 .. Len(t) : (s \o t)[Len(s) + i] = t[i]
<1>1. /\ s \o t \in Seq(Blocks)
      /\ Len(s \o t) = Len(s) + Len(t)
      /\ \A i \in 1 .. Len(s) + Len(t) :
           (s \o t)[i] = IF i <= Len(s) THEN s[i] ELSE t[i - Len(s)]
  BY ConcatProperties
<1>2. ASSUME NEW i \in 1 .. Len(t) PROVE (s \o t)[Len(s) + i] = t[i]
  <2>1. Len(s) + i \in 1 .. Len(s) + Len(t) /\ ~(Len(s) + i <= Len(s))
        /\ Len(s) + i - Len(s) = i
    OBVIOUS
  <2>2. QED
    BY <1>1, <2>1
<1>3. QED
  BY <1>1, <1>2

LEMMA Equal ==
  ASSUME NEW s \in Seq(Blocks), NEW t \in Seq(Blocks), Len(s) = Len(t),
         \A k \in 1 .. Len(s) : s[k] = t[k]
  PROVE  s = t
BY SeqEqual

LEMMA PathChain == ASSUME NEW b \in Blocks PROVE IsChain(path[b]) /\ path[b][1] = genesis
BY TreeAssumption DEF IsChain

\* The beginning of a chain is the chain of the block it ends in.
LEMMA ChainUpTo ==
  ASSUME NEW s, IsChain(s), NEW i \in 1 .. Len(s)
  PROVE  /\ s[i] \in Blocks /\ s[1] = genesis
         /\ path[s[i]] = SubSeq(s, 1, i) /\ IsChain(SubSeq(s, 1, i))
<1>1. s \in Seq(Blocks) /\ Len(s) \in Nat /\ s[Len(s)] \in Blocks /\ s = path[s[Len(s)]]
  BY DEF IsChain
<1>2. s[i] \in Blocks /\ i \in 1 .. Len(path[s[Len(s)]])
  BY <1>1
<1>3. path[s[i]] = SubSeq(s, 1, i) /\ s[1] = genesis
  BY <1>1, <1>2, TreeAssumption
<1>4. QED
  BY Zenon, <1>2, <1>3, PathChain

\* Two chains with a block in common agree up to it.
LEMMA Meet ==
  ASSUME NEW s, IsChain(s), NEW t, IsChain(t),
         NEW i \in 1 .. Len(s), NEW j \in 1 .. Len(t), s[i] = t[j]
  PROVE  i = j /\ \A k \in 1 .. i : s[k] = t[k]
<1>1. SubSeq(s, 1, i) = SubSeq(t, 1, j)
  BY ChainUpTo
<1>2. s \in Seq(Blocks) /\ t \in Seq(Blocks)
  BY DEF IsChain
<1>3. /\ Len(SubSeq(s, 1, i)) = i /\ \A k \in 1 .. i : SubSeq(s, 1, i)[k] = s[k]
      /\ Len(SubSeq(t, 1, j)) = j /\ \A k \in 1 .. j : SubSeq(t, 1, j)[k] = t[k]
  BY <1>2, Sub
<1>4. QED
  BY <1>1, <1>3

-----------------------------------------------------------------------------
(* The request and the answer.                                             *)

\* Ids of the chain h, the genesis block last.
IsHistory(known, h) ==
  /\ known \in Seq(Blocks) /\ Len(known) >= 1 /\ known[Len(known)] = genesis
  /\ \A i \in 1 .. Len(known) : \E j \in 1 .. Len(h) : known[i] = h[j]

LEMMA ShortHistory ==
  ASSUME NEW h, IsChain(h), NEW n \in Nat
  PROVE  IsHistory(getShortHistory(h, n), h)
<1> DEFINE sz == Min({Len(h), n + 1})
           C == {m \in 0 .. sz : \A i \in 0 .. m - 1 : BackOffset[i] \in 1 .. sz - 1}
           count == Max(C)
           front == [i \in 1 .. count |-> h[sz - BackOffset[i - 1] + 1]]
           known == front \o <<h[1]>>
<1>1. h \in Seq(Blocks) /\ Len(h) \in Nat /\ Len(h) >= 1
  BY DEF IsChain
<1>2. sz \in Nat /\ sz >= 1 /\ sz <= Len(h)
  BY <1>1, LessOf
<1>3. getShortHistory(h, n) = known
  BY DEF getShortHistory
<1> HIDE DEF sz
<1>4. C \subseteq Nat /\ 0 \in C /\ \A y \in C : y <= sz
  BY <1>2
<1>5. count \in C
  <2> HIDE DEF C
  <2>1. QED
    BY Zenon, <1>2, <1>4, GreatestOf
<1> HIDE DEF count
<1>6. count \in Nat /\ \A i \in 0 .. count - 1 : BackOffset[i] \in 1 .. sz - 1
  BY <1>2, <1>5
<1>7. \A i \in 1 .. count : sz - BackOffset[i - 1] + 1 \in 1 .. Len(h)
  <2> TAKE i \in 1 .. count
  <2>1. i - 1 \in 0 .. count - 1
    BY <1>6
  <2>2. BackOffset[i - 1] \in 1 .. sz - 1
    BY <1>6, <2>1
  <2>3. QED
    BY <1>1, <1>2, <2>2
<1>8. /\ front \in Seq(Blocks) /\ Len(front) = count
      /\ \A i \in 1 .. count : front[i] = h[sz - BackOffset[i - 1] + 1]
  <2>1. \A i \in 1 .. count : h[sz - BackOffset[i - 1] + 1] \in Blocks
    BY <1>1, <1>7
  <2>2. front \in [1 .. count -> Blocks]
    BY <2>1
  <2>3. front \in Seq(Blocks)
    BY <1>6, <2>2, IsASeq
  <2>4. QED
    BY <1>6, <2>2, <2>3
<1>9. h[1] = genesis /\ h[1] \in Blocks /\ <<h[1]>> \in Seq(Blocks) /\ Len(<<h[1]>>) = 1
  <2>1. 1 \in 1 .. Len(h)
    BY <1>1
  <2>2. QED
    BY <2>1, ChainUpTo
<1> HIDE DEF front
<1>10. /\ known \in Seq(Blocks) /\ Len(known) = count + 1
       /\ \A i \in 1 .. count + 1 :
            known[i] = IF i <= count THEN front[i] ELSE <<h[1]>>[i - count]
  BY <1>6, <1>8, <1>9, ConcatProperties
<1>11. known[count + 1] = h[1]
  BY <1>6, <1>10
<1> HIDE DEF known
<1>12. ASSUME NEW i \in 1 .. Len(known) PROVE \E j \in 1 .. Len(h) : known[i] = h[j]
  <2>1. CASE i <= count
    <3>1. i \in 1 .. count
      BY <1>6, <1>10, <2>1
    <3>2. known[i] = h[sz - BackOffset[i - 1] + 1]
      BY <1>8, <1>10, <3>1
    <3>3. QED
      BY <1>7, <3>1, <3>2
  <2>2. CASE ~(i <= count)
    <3>1. i = count + 1 /\ 1 \in 1 .. Len(h)
      BY <1>1, <1>6, <1>10, <2>2
    <3>2. QED
      BY <1>11, <3>1
  <2>3. QED
    BY <2>1, <2>2
<1>13. QED
  BY <1>3, <1>6, <1>9, <1>10, <1>11, <1>12 DEF IsHistory

\* The interval a answers with blocks s + 1 .. e of the chain P.
IsInterval(a, P, s, e) ==
  /\ IsChain(P) /\ s \in Nat /\ e \in Nat /\ s < e /\ e <= Len(P)
  /\ a.startHeight = s /\ a.blocks \in Seq(Blocks) /\ Len(a.blocks) = e - s
  /\ \A k \in 1 .. e - s : a.blocks[k] = P[s + k]

\* queryBlocksLite starts at a block that h has, or lower.
LEMMA Interval ==
  ASSUME tip \in Blocks, NEW h, IsChain(h), NEW known, IsHistory(known, h)
  PROVE  \E s, e : /\ IsInterval(queryBlocksLite(known), path[tip], s, e)
                   /\ s + 1 <= Len(h) /\ h[s + 1] = path[tip][s + 1]
<1> DEFINE P == path[tip]
           K == {i \in 1 .. Len(known) : known[i] \in Range(P)}
           First(i) == known[i] \in Range(P) /\ \A j \in 1 .. i - 1 : known[j] \notin Range(P)
           common == CHOOSE i \in 1 .. Len(known) : First(i)
           s == Height(known[common])
           e == Min({s + MaxBlocks, Len(P)})
           a == queryBlocksLite(known)
<1>1. /\ IsChain(P) /\ P[1] = genesis /\ P \in Seq(Blocks) /\ Len(P) \in Nat /\ Len(P) >= 1
      /\ known \in Seq(Blocks) /\ Len(known) \in Nat /\ Len(known) >= 1
      /\ known[Len(known)] = genesis
  BY PathChain DEF IsChain, IsHistory
<1>2. Range(P) = {P[i] : i \in 1 .. Len(P)}
  BY <1>1 DEF Range
<1> HIDE DEF P
<1>3. K \subseteq Nat /\ Len(known) \in K
  BY <1>1, <1>2
<1>4. Min(K) \in K /\ \A y \in K : Min(K) <= y
  BY Zenon, <1>3, LeastOf
<1>5. \E i \in 1 .. Len(known) : First(i)
  <2>1. PICK i \in K : \A y \in K : i <= y
    BY <1>4
  <2>2. ASSUME NEW j \in 1 .. i - 1 PROVE known[j] \notin Range(P)
    <3>1. j \in 1 .. Len(known) /\ ~(i <= j)
      BY <2>1, <1>1
    <3>2. QED
      BY <2>1, <3>1
  <2>3. QED
    BY <2>1, <2>2
<1>6. common \in 1 .. Len(known) /\ known[common] \in Range(P)
  BY <1>5
<1>7. findBlockchainSupplement(known) = s
  BY DEF findBlockchainSupplement, P
<1> HIDE DEF common, First, K
<1>8. PICK m \in 1 .. Len(P) : known[common] = P[m]
  BY <1>2, <1>6
<1>9. PICK j \in 1 .. Len(h) : known[common] = h[j]
  BY <1>6 DEF IsHistory
<1>10. m = j
  <2>1. P[m] = h[j] /\ IsChain(P)
    BY <1>1, <1>8, <1>9
  <2> HIDE DEF common
  <2>2. QED
    BY <2>1, Meet
<1>11. s = m - 1 /\ s \in Nat /\ m \in Nat
  <2>1. path[P[m]] = SubSeq(P, 1, m) /\ Len(SubSeq(P, 1, m)) = m
    BY <1>1, ChainUpTo, Sub
  <2>2. QED
    BY <1>1, <1>8, <2>1 DEF Height
<1> HIDE DEF s
<1>12. e \in Nat /\ s < e /\ e <= Len(P)
  <2>1. s + MaxBlocks \in Nat /\ s + MaxBlocks > s
    BY <1>11, MaxBlocksAssumption
  <2>2. QED
    BY <1>1, <1>11, <2>1, LessOf
<1>13. a = [startHeight |-> s, blocks |-> SubSeq(P, s + 1, e)]
  BY <1>7 DEF queryBlocksLite, P
<1> HIDE DEF e, a
<1>14. /\ SubSeq(P, s + 1, e) \in Seq(Blocks) /\ Len(SubSeq(P, s + 1, e)) = e - s
       /\ \A k \in 1 .. e - s : SubSeq(P, s + 1, e)[k] = P[s + k]
  <2>1. s + 1 \in Int /\ e \in Int /\ \A i \in s + 1 .. e : P[i] \in Blocks
    BY <1>1, <1>11, <1>12
  <2>2. /\ SubSeq(P, s + 1, e) \in Seq(Blocks)
        /\ Len(SubSeq(P, s + 1, e)) = IF s + 1 <= e THEN e - (s + 1) + 1 ELSE 0
        /\ \A i \in 1 .. e - (s + 1) + 1 : SubSeq(P, s + 1, e)[i] = P[s + 1 + i - 1]
    BY SMTT(30), <1>1, <2>1, SubSeqProperties
  <2>3. QED
    BY <1>11, <1>12, <2>2
<1>15. IsInterval(a, P, s, e)
  BY <1>1, <1>11, <1>12, <1>13, <1>14 DEF IsInterval
<1>16. s + 1 <= Len(h) /\ h[s + 1] = P[s + 1]
  <2>1. s + 1 = m /\ h[m] = P[m] /\ m <= Len(h)
    BY <1>8, <1>9, <1>10, <1>11
  <2>2. QED
    BY <2>1
<1>17. QED
  BY <1>15, <1>16 DEF P, a

\* What checkInterval finds out about the consumer that has h, where X is the
\* daemon's chain up to the end of the interval.
Checked(h, a, X, r) ==
  LET D == IF r.detachRequired THEN SubSeq(h, 1, r.detachHeight) ELSE h
  IN  /\ r.detachRequired \in BOOLEAN /\ r.hasNewBlocks \in BOOLEAN
      /\ r.detachRequired => r.hasNewBlocks
      /\ r.hasNewBlocks => /\ IsChain(D) /\ Begins(D, h) /\ Begins(D, X)
                           /\ D \o NewBlocks(a, r.newBlockHeight) = X
      /\ ~r.hasNewBlocks => Begins(X, h)

LEMMA CheckInterval ==
  ASSUME NEW h, IsChain(h), NEW a, NEW P, NEW s, NEW e, IsInterval(a, P, s, e),
         s + 1 <= Len(h), h[s + 1] = P[s + 1]
  PROVE  /\ IsChain(SubSeq(P, 1, e))
         /\ Checked(h, a, SubSeq(P, 1, e), checkInterval(h, a))
<1> DEFINE X == SubSeq(P, 1, e)
           end == Min({Len(h), e})
           differing == {i \in s .. end - 1 : h[i + 1] # a.blocks[i - s + 1]}
           r == checkInterval(h, a)
<1>1. /\ h \in Seq(Blocks) /\ Len(h) \in Nat /\ P \in Seq(Blocks) /\ Len(P) \in Nat
      /\ s \in Nat /\ e \in Nat /\ s < e /\ e <= Len(P) /\ IsChain(P)
      /\ a.startHeight = s /\ a.blocks \in Seq(Blocks) /\ Len(a.blocks) = e - s
      /\ \A k \in 1 .. e - s : a.blocks[k] = P[s + k]
  BY DEF IsChain, IsInterval
<1>2. IsChain(X) /\ X \in Seq(Blocks) /\ Len(X) = e /\ \A k \in 1 .. e : X[k] = P[k]
  BY <1>1, ChainUpTo, Sub
<1> HIDE DEF X
<1>3. \A k \in 1 .. s + 1 : h[k] = X[k]
  <2>1. s + 1 \in 1 .. Len(h) /\ s + 1 \in 1 .. Len(X) /\ h[s + 1] = X[s + 1]
    BY <1>1, <1>2
  <2>2. QED
    BY <1>2, <2>1, Meet
<1>4. end = (IF Len(h) <= e THEN Len(h) ELSE e) /\ end \in Nat /\ end <= Len(h) /\ end <= e
  <2>1. end = IF Len(h) <= e THEN Len(h) ELSE e
    BY <1>1, LessOf
  <2> HIDE DEF end
  <2>2. QED
    BY <1>1, <2>1
<1>4a. s \in Nat /\ e \in Nat /\ s < e /\ Len(h) \in Nat /\ s + 1 <= Len(h)
  BY <1>1
<1>5. s + Len(a.blocks) = e
  BY <1>1
<1>6. r = [detachRequired |-> differing # {},
           detachHeight |-> IF differing # {} THEN Min(differing) ELSE 0,
           hasNewBlocks |-> differing # {} \/ e > Len(h),
           newBlockHeight |-> IF differing # {} THEN (IF differing # {} THEN Min(differing) ELSE 0)
                              ELSE Len(h)]
  BY <1>1, <1>5 DEF checkInterval
<1> HIDE DEF end, r
<1>7. \A i \in s .. end - 1 : a.blocks[i - s + 1] = X[i + 1]
  <2> TAKE i \in s .. end - 1
  <2>1. i - s + 1 \in 1 .. e - s /\ s + (i - s + 1) = i + 1 /\ i + 1 \in 1 .. e
    BY <1>4, <1>4a
  <2>2. QED
    BY Zenon, <1>1, <1>2, <2>1
<1>8. differing = {i \in s .. end - 1 : h[i + 1] # X[i + 1]}
  BY <1>7
<1>9. ASSUME NEW n \in Nat, s < n, n <= e, n <= Len(h), \A k \in 1 .. n : h[k] = X[k]
      PROVE  /\ IsChain(SubSeq(h, 1, n)) /\ Begins(SubSeq(h, 1, n), h)
             /\ Begins(SubSeq(h, 1, n), X)
             /\ SubSeq(h, 1, n) \o NewBlocks(a, n) = X
  <2> DEFINE D == SubSeq(h, 1, n)
             N == NewBlocks(a, n)
  <2>1. IsChain(D) /\ D \in Seq(Blocks) /\ Len(D) = n /\ \A k \in 1 .. n : D[k] = h[k]
    BY <1>1, <1>9, ChainUpTo, Sub
  <2> HIDE DEF D
  <2>2. Begins(D, h) /\ Begins(D, X)
    BY Zenon, <1>1, <1>2, <1>9, <2>1 DEF Begins
  <2>3. N \in Seq(Blocks) /\ Len(N) = e - n /\ \A k \in 1 .. e - n : N[k] = X[n + k]
    <3>1. N = SubSeq(a.blocks, n - s + 1, e - s)
      BY <1>1 DEF NewBlocks
    <3>2. n - s + 1 \in Nat /\ e - s \in Nat /\ 1 <= n - s + 1 /\ n - s + 1 <= e - s + 1
          /\ e - s - (n - s + 1) + 1 = e - n
      BY <1>1, <1>9
    <3>3. /\ N \in Seq(Blocks) /\ Len(N) = e - s - (n - s + 1) + 1
          /\ \A k \in 1 .. e - s - (n - s + 1) + 1 : N[k] = a.blocks[n - s + 1 + k - 1]
      <4> DEFINE x == n - s + 1
                 y == e - s
                 B == a.blocks
      <4>1. B \in Seq(Blocks) /\ x \in Nat /\ y \in Nat /\ 1 <= x /\ x <= y + 1 /\ y <= Len(B)
        BY <1>1, <3>2
      <4>2. N = SubSeq(B, x, y)
        BY <3>1
      <4> HIDE DEF x, y, B, N
      <4>3. N \in Seq(Blocks) /\ Len(N) = y - x + 1 /\ \A k \in 1 .. y - x + 1 : N[k] = B[x + k - 1]
        BY <4>1, <4>2, Part
      <4>4. QED
        BY <4>3 DEF x, y, B
    <3>4. ASSUME NEW k \in 1 .. e - n PROVE N[k] = X[n + k]
      <4>1. n - s + 1 + k - 1 = n - s + k /\ n - s + k \in 1 .. e - s
            /\ s + (n - s + k) = n + k /\ n + k \in 1 .. e
        BY <1>1, <1>9
      <4>2. N[k] = a.blocks[n - s + k]
        BY <3>2, <3>3, <4>1
      <4>3. a.blocks[n - s + k] = P[n + k] /\ X[n + k] = P[n + k]
        BY Zenon, <1>1, <1>2, <4>1
      <4>4. QED
        BY <4>2, <4>3
    <3>5. QED
      BY <3>2, <3>3, <3>4
  <2> HIDE DEF N
  <2>4. /\ D \o N \in Seq(Blocks) /\ Len(D \o N) = n + (e - n)
        /\ \A i \in 1 .. n : (D \o N)[i] = D[i]
        /\ \A i \in 1 .. e - n : (D \o N)[n + i] = N[i]
    <3>1. /\ D \o N \in Seq(Blocks) /\ Len(D \o N) = Len(D) + Len(N)
          /\ \A i \in 1 .. Len(D) : (D \o N)[i] = D[i]
          /\ \A i \in 1 .. Len(N) : (D \o N)[Len(D) + i] = N[i]
      BY Zenon, <2>1, <2>3, Join
    <3>2. QED
      BY <2>1, <2>3, <3>1
  <2>5. Len(D \o N) = e
    BY <1>1, <1>9, <2>4
  <2>6. ASSUME NEW i \in 1 .. e PROVE (D \o N)[i] = X[i]
    <3>1. CASE i <= n
      <4>1. i \in 1 .. n
        BY <1>1, <1>9, <3>1
      <4>2. QED
        BY <1>9, <2>1, <2>4, <4>1
    <3>2. CASE ~(i <= n)
      <4>1. i - n \in 1 .. e - n /\ n + (i - n) = i
        BY <1>1, <1>9, <3>2
      <4>2. QED
        BY <2>3, <2>4, <4>1
    <3>3. QED
      BY Zenon, <3>1, <3>2
  <2>7. D \o N = X
    BY <1>2, <2>4, <2>5, <2>6, Equal
  <2>8. QED
    BY <2>1, <2>2, <2>7 DEF D, N
<1>10. CASE differing # {}
  <2> DEFINE m == Min(differing)
  <2>1. differing \subseteq Nat
    BY <1>4, <1>4a
  <2>2. m \in differing /\ \A y \in differing : m <= y
    BY Zenon, <1>10, <2>1, LeastOf
  <2>3. r.detachRequired = TRUE /\ r.hasNewBlocks = TRUE /\ r.detachHeight = m
        /\ r.newBlockHeight = m
    BY Zenon, <1>6, <1>10
  <2> HIDE DEF m
  <2>4. m \in Nat /\ s <= m /\ m <= end - 1 /\ h[m + 1] # X[m + 1]
    <3>1. m \in s .. end - 1 /\ h[m + 1] # X[m + 1]
      BY Zenon, <1>8, <2>2
    <3>2. QED
      BY <1>4, <1>4a, <3>1
  <2>5. s < m
    <3>1. s + 1 \in 1 .. s + 1
      BY <1>4a
    <3>2. m # s
      BY Zenon, <1>3, <2>4, <3>1
    <3>3. QED
      BY <1>4a, <2>4, <3>2
  <2>6. \A k \in 1 .. m : h[k] = X[k]
    <3> TAKE k \in 1 .. m
    <3>1. CASE k <= s + 1
      <4>1. k \in 1 .. s + 1
        BY <1>4a, <3>1
      <4>2. QED
        BY Zenon, <1>3, <4>1
    <3>2. CASE k > s + 1
      <4>1. k - 1 \in s .. end - 1 /\ ~(m <= k - 1) /\ k - 1 + 1 = k
        BY <1>4, <1>4a, <2>4, <3>2
      <4>2. k - 1 \notin differing
        BY <2>2, <4>1
      <4>3. QED
        BY <1>8, <4>1, <4>2
    <3>3. QED
      BY <1>4a, <3>1, <3>2
  <2>7. m <= e /\ m <= Len(h)
    BY <1>4, <1>4a, <2>4
  <2>8. /\ IsChain(SubSeq(h, 1, m)) /\ Begins(SubSeq(h, 1, m), h)
        /\ Begins(SubSeq(h, 1, m), X)
        /\ SubSeq(h, 1, m) \o NewBlocks(a, m) = X
    BY <1>9, <2>4, <2>5, <2>6, <2>7
  <2>9. QED
    BY Zenon, <1>2, <2>3, <2>8 DEF Checked, X, r
<1>11. CASE differing = {}
  <2>1. /\ r.detachRequired = FALSE /\ r.hasNewBlocks \in BOOLEAN
        /\ r.hasNewBlocks <=> e > Len(h)
        /\ r.newBlockHeight = Len(h)
    BY Zenon, <1>6, <1>11
  <2>2. \A k \in 1 .. end : h[k] = X[k]
    <3> TAKE k \in 1 .. end
    <3>1. CASE k <= s + 1
      <4>1. k \in 1 .. s + 1
        BY <1>4a, <3>1
      <4>2. QED
        BY Zenon, <1>3, <4>1
    <3>2. CASE k > s + 1
      <4>1. k - 1 \in s .. end - 1 /\ k - 1 + 1 = k
        BY <1>4, <1>4a, <3>2
      <4>2. QED
        BY <1>8, <1>11, <4>1
    <3>3. QED
      BY <1>4a, <3>1, <3>2
  <2>3. CASE e > Len(h)
    <3>1. end = Len(h) /\ SubSeq(h, 1, Len(h)) = h
      <4>1. Len(h) \in 0 .. Len(h)
        BY <1>1
      <4>2. QED
        BY <1>1, <1>4, <2>3, <4>1, Sub, Equal
    <3>2. /\ IsChain(h) /\ Begins(h, h) /\ Begins(h, X) /\ h \o NewBlocks(a, Len(h)) = X
      <4>1. s < Len(h) /\ Len(h) <= e /\ Len(h) <= Len(h) /\ \A k \in 1 .. Len(h) : h[k] = X[k]
        <5>1. s < Len(h) /\ Len(h) <= e /\ Len(h) <= Len(h)
          BY <1>1, <2>3
        <5>2. \A k \in 1 .. Len(h) : h[k] = X[k]
          BY Zenon, <2>2, <3>1
        <5>3. QED
          BY <5>1, <5>2
      <4>2. /\ IsChain(SubSeq(h, 1, Len(h))) /\ Begins(SubSeq(h, 1, Len(h)), h)
            /\ Begins(SubSeq(h, 1, Len(h)), X)
            /\ SubSeq(h, 1, Len(h)) \o NewBlocks(a, Len(h)) = X
        BY Zenon, <1>1, <1>9, <4>1
      <4>3. QED
        BY Zenon, <3>1, <4>2
    <3>3. QED
      BY Zenon, <1>2, <2>1, <2>3, <3>2 DEF Checked, X, r
  <2>4. CASE ~(e > Len(h))
    <3>1. Begins(X, h)
      BY <1>1, <1>2, <1>4, <2>2, <2>4 DEF Begins
    <3>2. QED
      BY Zenon, <1>2, <2>1, <2>4, <3>1 DEF Checked, X, r
  <2>5. QED
    BY <2>3, <2>4
<1>12. QED
  BY <1>10, <1>11

-----------------------------------------------------------------------------
(* The threads: the set of consumers only changes while no worker runs.    *)

Threads ==
  /\ m_futureState \in 0 .. 3
  /\ owner \in {"free", "joining"}
  /\ owner = "joining" => m_futureState = stopped
  /\ owner = "free" /\ worker # "none" => m_futureState # stopped
  /\ worker # "none" => Registered # {}
  /\ tip \in Blocks /\ m_nodeHeight \in Nat

LEMMA ThreadsInit == Init => Threads
BY TreeAssumption DEF Init, NodeInit, Threads, stopped

LEMMA HeightNat == ASSUME NEW b \in Blocks PROVE Height(b) \in Nat
BY TreeAssumption DEF Height

LEMMA ThreadsNext ==
  ASSUME Threads, [Next]_vars
  PROVE  Threads'
<1> USE DEF idle, poolSync, blockchainSync, stopped
<1>1. CASE Daemon
  <2>1. tip' \in Blocks /\ m_nodeHeight' = m_nodeHeight
    BY <1>1 DEF Daemon, switchTo, enterPool, expire, Threads, proxyVars
  <2>2. UNCHANGED <<m_futureState, owner, worker, m_consumers>>
    BY <1>1 DEF Daemon, syncState, consumerVars, workerVars, ownerVars
  <2>3. QED
    BY <2>1, <2>2 DEF Threads, Registered
<1>2. CASE Poll
  <2>1. tip' = tip /\ m_nodeHeight' \in Nat
    BY <1>2, HeightNat DEF Poll, pollHeader, pollInfo, pollPool, Threads, daemonVars
  <2>2. UNCHANGED <<owner, worker, m_consumers>>
    BY <1>2 DEF Poll, consumerVars, workerVars, ownerVars
  <2>3. /\ m_futureState' \in 0 .. 3
        /\ m_futureState = stopped => m_futureState' = stopped
        /\ m_futureState # stopped => m_futureState' # stopped
    BY <1>2 DEF Poll, notify, setFutureState, Threads
  <2>4. QED
    BY <2>1, <2>2, <2>3 DEF Threads, Registered
<1>3. CASE PollFails
  BY <1>3 DEF PollFails, pollFails, daemonVars, syncState, consumerVars, workerVars, ownerVars,
              Threads, Registered
<1>4. CASE Owner
  <2> SUFFICES ASSUME Owner PROVE Threads'
    BY <1>4
  <2>1. CASE start
    BY <2>1 DEF start, Threads, Registered, nodeVars, daemonVars, proxyVars, consumerVars, ownerVars
  <2>2. CASE stop
    BY <2>2 DEF stop, Called, setFutureState, Threads, Registered, nodeVars, daemonVars, proxyVars,
                consumerVars, workerVars
  <2>3. CASE join
    BY <2>3 DEF join, Threads, Registered, nodeVars, daemonVars, proxyVars, syncState, consumerVars
  <2>4. ASSUME NEW c \in Consumers, addConsumer(c) \/ removeConsumer(c) PROVE Threads'
    <3>1. owner = "free" /\ m_futureState = stopped
      BY SMTT(30), <2>4 DEF addConsumer, removeConsumer, IsStopped
    <3>2. UNCHANGED <<tip, m_nodeHeight, m_futureState, owner, worker>>
      BY <2>4 DEF addConsumer, removeConsumer, nodeVars, daemonVars, proxyVars, syncState, workerVars
    <3>3. QED
      BY <3>1, <3>2 DEF Threads
  <2>5. ASSUME NEW t \in Txs, addUnconfirmedTransaction(t) \/ removeUnconfirmedTransaction(t)
        PROVE  Threads'
    BY <2>5 DEF addUnconfirmedTransaction, removeUnconfirmedTransaction, Threads, Registered,
                nodeVars, daemonVars, proxyVars, syncState, consumerVars, workerVars
  <2>6. QED
    BY <2>1, <2>2, <2>3, <2>4, <2>5 DEF Owner
<1>5. CASE Worker
  <2>1. UNCHANGED <<tip, m_nodeHeight, owner>>
    BY Zenon, <1>5 DEF Worker, checkIfShouldStop, actualizeFutureState, wakeUp, queryBlocksAnswered,
                queryFails, processBlocks, processBlocksFails, processBlocksInterrupted,
                queryUnionAnswered, queryIntersectionAnswered, onPoolUpdated, onPoolUpdatedFails,
                processPoolInterrupted, nodeVars, daemonVars, proxyVars, ownerVars
  <2>2. worker # "none" /\ worker' # "none"
    BY Zenon, <1>5 DEF Worker, checkIfShouldStop, actualizeFutureState, wakeUp, queryBlocksAnswered,
                queryFails, processBlocks, processBlocksFails, processBlocksInterrupted,
                queryUnionAnswered, queryIntersectionAnswered, onPoolUpdated, onPoolUpdatedFails,
                processPoolInterrupted, Report, blockchainOutdated
  <2>3. DOMAIN m_consumers' = DOMAIN m_consumers
    BY Zenon, <1>5 DEF Worker, checkIfShouldStop, actualizeFutureState, wakeUp, queryBlocksAnswered,
                queryFails, processBlocks, processBlocksFails, processBlocksInterrupted,
                queryUnionAnswered, queryIntersectionAnswered, onPoolUpdated, onPoolUpdatedFails,
                processPoolInterrupted, consumerVars, updateConsumers, Registered
  <2>4. /\ m_futureState' \in 0 .. 3
        /\ m_futureState = stopped => m_futureState' = stopped
        /\ m_futureState # stopped => m_futureState' # stopped
    <3>1. CASE m_futureState' = m_futureState \/ setFutureState(blockchainSync) \/ giveUp
      BY <3>1 DEF setFutureState, giveUp, Threads
    <3>2. CASE actualizeFutureState
      BY <3>2 DEF actualizeFutureState, Threads
    <3>3. CASE checkIfShouldStop \/ wakeUp \/ queryBlocksAnswered \/ queryFails
      BY <3>1, <3>3 DEF checkIfShouldStop, wakeUp, queryBlocksAnswered, queryFails, syncState
    <3>4. CASE processBlocks \/ processBlocksFails \/ processBlocksInterrupted
      BY <3>1, <3>4 DEF processBlocks, processBlocksFails, processBlocksInterrupted, syncState
    <3>5. CASE queryUnionAnswered \/ queryIntersectionAnswered
      BY <3>1, <3>5 DEF queryUnionAnswered, queryIntersectionAnswered, blockchainOutdated, syncState
    <3>6. CASE onPoolUpdated \/ onPoolUpdatedFails \/ processPoolInterrupted
      BY <3>1, <3>6 DEF onPoolUpdated, onPoolUpdatedFails, processPoolInterrupted, syncState
    <3>7. QED
      BY <1>5, <3>2, <3>3, <3>4, <3>5, <3>6 DEF Worker
  <2>5. QED
    BY <2>1, <2>2, <2>3, <2>4 DEF Threads, Registered
<1>6. CASE UNCHANGED vars
  BY <1>6 DEF vars, nodeVars, daemonVars, proxyVars, syncState, consumerVars, workerVars, ownerVars,
              Threads, Registered
<1>7. QED
  BY <1>1, <1>2, <1>3, <1>4, <1>5, <1>6 DEF Next

-----------------------------------------------------------------------------
(* The consumers.                                                          *)

Comparable(s, t) == Begins(s, t) \/ Begins(t, s)

LEMMA ChainLength == ASSUME NEW s, IsChain(s) PROVE Len(s) \in Nat /\ Len(s) >= 1
BY DEF IsChain

LEMMA BeginsTwice ==
  ASSUME NEW s, IsChain(s), NEW t, IsChain(t), NEW u, IsChain(u), Begins(s, t), Begins(t, u)
  PROVE  Begins(s, u)
BY DEF Begins, IsChain

LEMMA BeginsItself == ASSUME NEW s, IsChain(s) PROVE Begins(s, s)
BY DEF Begins, IsChain

LEMMA Shorter ==
  ASSUME NEW s, IsChain(s), NEW t, IsChain(t), Comparable(s, t), Len(s) <= Len(t)
  PROVE  Begins(s, t)
BY DEF Comparable, Begins, IsChain

\* What s begins with is comparable to what s is comparable to.
LEMMA StaysComparable ==
  ASSUME NEW r, IsChain(r), NEW s, IsChain(s), NEW t, IsChain(t), Begins(r, s), Comparable(s, t)
  PROVE  Comparable(r, t)
<1>1. Len(r) \in Nat /\ Len(s) \in Nat /\ Len(t) \in Nat
  BY DEF IsChain
<1>2. CASE Begins(s, t)
  BY <1>2, BeginsTwice DEF Comparable
<1>3. CASE Begins(t, s)
  BY <1>1, <1>3 DEF Comparable, Begins
<1>4. QED
  BY <1>2, <1>3 DEF Comparable

Agreeing ==
  /\ Registered \subseteq Consumers /\ DOMAIN received = Consumers
  /\ \A c \in Consumers \ Registered : received[c] = <<genesis>>
  /\ \A c \in Registered : IsChain(m_consumers[c]) /\ m_consumers[c] = received[c]
  /\ \A c, d \in Registered : Comparable(m_consumers[c], m_consumers[d])

\* The answer the worker holds was asked for with ids that every consumer has.
Fitting(a) ==
  \E P, s, e : /\ IsInterval(a, P, s, e)
               /\ \A c \in Registered : /\ s + 1 <= Len(m_consumers[c])
                                        /\ m_consumers[c][s + 1] = P[s + 1]

Asked ==
  /\ worker = "queryBlocks" => \A c \in Registered : IsHistory(answer.known, m_consumers[c])
  /\ worker = "processBlocks" => Fitting(answer)

LEMMA ConsumerNumbers ==
  ASSUME Agreeing PROVE \A c \in Registered : c \in Nat /\ 1 <= c /\ c <= NConsumers
<1>1. Registered \subseteq 1 .. NConsumers
  BY Zenon DEF Agreeing, Consumers
<1>2. QED
  BY <1>1, ConsumersAssumption

LEMMA GenesisChain ==
  /\ IsChain(<<genesis>>)
  /\ \A s : IsChain(s) => Begins(<<genesis>>, s)
<1>1. genesis \in Blocks /\ path[genesis] \in Seq(Blocks) /\ Len(path[genesis]) >= 1
      /\ path[genesis][1] = genesis /\ path[genesis][Len(path[genesis])] = genesis
  BY TreeAssumption
<1> DEFINE p == path[genesis]
<1>2. IsChain(p) /\ 1 \in 1 .. Len(p) /\ Len(p) \in 1 .. Len(p)
  BY <1>1 DEF IsChain
<1>3. Len(p) = 1
  <2>1. p[Len(p)] = p[1]
    BY <1>1
  <2> HIDE DEF p
  <2>2. \A i, j \in 1 .. Len(p) : p[i] = p[j] => i = j
    BY <1>2, Meet
  <2>3. QED
    BY <1>2, <2>1, <2>2
<1>4. p = <<genesis>>
  <2>1. <<genesis>> \in Seq(Blocks) /\ Len(<<genesis>>) = 1 /\ <<genesis>>[1] = genesis
    BY <1>1
  <2>2. \A k \in 1 .. Len(p) : p[k] = <<genesis>>[k]
    BY <1>1, <1>3, <2>1
  <2>3. QED
    BY <1>1, <1>3, <2>1, <2>2, Equal
<1>5. ASSUME NEW s, IsChain(s) PROVE Begins(<<genesis>>, s)
  <2>1. Len(s) \in Nat /\ Len(s) >= 1 /\ 1 \in 1 .. Len(s)
    BY <1>5 DEF IsChain
  <2>2. s[1] = genesis
    BY <1>5, <2>1, ChainUpTo
  <2>3. QED
    BY <2>1, <2>2 DEF Begins
<1>6. QED
  BY <1>2, <1>4, <1>5

LEMMA AgreeingInit == Init => Agreeing /\ Asked
<1> SUFFICES ASSUME Init PROVE Agreeing /\ Asked
  OBVIOUS
<1>1. /\ m_consumers = [c \in FirstConsumers |-> <<genesis>>]
      /\ received = [c \in Consumers |-> <<genesis>>] /\ worker = "none"
  BY DEF Init
<1>2. \A c \in Registered : m_consumers[c] = <<genesis>>
  BY <1>1 DEF Registered
<1>3. Comparable(<<genesis>>, <<genesis>>)
  BY GenesisChain DEF Comparable
<1>4. QED
  BY <1>1, <1>2, <1>3, GenesisChain, ConsumersAssumption DEF Agreeing, Asked, Registered

\* The history of the shortest is one of every consumer.
LEMMA CommonHistory ==
  ASSUME Agreeing, Threads, Registered # {}
  PROVE  \A c \in Registered : IsHistory(getCommonHistory, m_consumers[c])
<1> DEFINE L == {Len(m_consumers[c]) : c \in Registered}
           S == {c \in Registered : Len(m_consumers[c]) = Min(L)}
           Best(c) == \A d \in Registered :
                        \/ Len(m_consumers[c]) < Len(m_consumers[d])
                        \/ Len(m_consumers[c]) = Len(m_consumers[d]) /\ c <= d
<1>1. \A c \in Registered : c \in Nat /\ Len(m_consumers[c]) \in Nat /\ IsChain(m_consumers[c])
  <2>1. \A c \in Registered : c \in Nat /\ IsChain(m_consumers[c])
    BY Zenon, ConsumerNumbers DEF Agreeing
  <2>2. QED
    BY <2>1, ChainLength
<1>2. L \subseteq Nat /\ L # {}
  BY Zenon, <1>1
<1>3. Min(L) \in L /\ \A y \in L : Min(L) <= y
  BY <1>2, LeastOf
<1>4. S \subseteq Nat /\ S # {}
  BY Zenon, <1>1, <1>3
<1>5. Min(S) \in S /\ \A y \in S : Min(S) <= y
  BY Zenon, <1>4, LeastOf
<1>6. \E c \in Registered : Best(c)
  <2>1. PICK c \in S : \A y \in S : c <= y
    BY <1>5
  <2>2. ASSUME NEW d \in Registered
        PROVE  \/ Len(m_consumers[c]) < Len(m_consumers[d])
               \/ Len(m_consumers[c]) = Len(m_consumers[d]) /\ c <= d
    <3>1. Min(L) <= Len(m_consumers[d]) /\ Len(m_consumers[c]) = Min(L)
      BY <1>3, <2>1
    <3>2. CASE Len(m_consumers[d]) = Min(L)
      BY <2>1, <3>1, <3>2
    <3>3. CASE Len(m_consumers[d]) # Min(L)
      <4>1. Min(L) \in Nat
        BY <1>2, <1>3
      <4> HIDE DEF L
      <4>2. QED
        BY <1>1, <3>1, <3>3, <4>1
    <3>4. QED
      BY <3>2, <3>3
  <2>3. QED
    BY <2>1, <2>2
<1>7. shortest \in Registered /\ Best(shortest)
  BY <1>6 DEF shortest
<1> DEFINE h == m_consumers[shortest]
<1>8. IsChain(h) /\ IsHistory(getCommonHistory, h)
  <2>1. IsChain(h) /\ m_nodeHeight \in Nat
    BY <1>1, <1>7 DEF Threads
  <2>2. QED
    BY <2>1, ShortHistory DEF getCommonHistory
<1>9. \A c \in Registered : Len(h) <= Len(m_consumers[c]) /\ Comparable(h, m_consumers[c])
  BY <1>1, <1>7 DEF Agreeing
<1> HIDE DEF h
<1>10. ASSUME NEW c \in Registered PROVE IsHistory(getCommonHistory, m_consumers[c])
  <2>1. Begins(h, m_consumers[c])
    BY <1>1, <1>8, <1>9, Shorter
  <2>2. Len(h) \in Nat /\ Len(m_consumers[c]) \in Nat
    BY <1>1, <1>8 DEF IsChain
  <2>3. \A j \in 1 .. Len(h) : j \in 1 .. Len(m_consumers[c]) /\ h[j] = m_consumers[c][j]
    BY <2>1, <2>2 DEF Begins
  <2>4. QED
    BY <1>8, <2>3 DEF IsHistory
<1>11. QED
  BY <1>10

\* An answer to such a request fits every consumer.
LEMMA AnswerFits ==
  ASSUME Agreeing, Threads, Registered # {}, NEW known,
         \A c \in Registered : IsHistory(known, m_consumers[c])
  PROVE  Fitting(queryBlocksLite(known))
<1> DEFINE a == queryBlocksLite(known)
<1>1. \A c \in Registered :
        \E s, e : /\ IsInterval(a, path[tip], s, e)
                  /\ s + 1 <= Len(m_consumers[c]) /\ m_consumers[c][s + 1] = path[tip][s + 1]
  BY Interval DEF Agreeing, Threads
<1> HIDE DEF a
<1>2. PICK c0 \in Registered : TRUE
  OBVIOUS
<1>3. PICK s, e : IsInterval(a, path[tip], s, e)
  BY <1>1, <1>2
<1>4. ASSUME NEW c \in Registered
      PROVE  s + 1 <= Len(m_consumers[c]) /\ m_consumers[c][s + 1] = path[tip][s + 1]
  <2>1. PICK s1, e1 : /\ IsInterval(a, path[tip], s1, e1)
                      /\ s1 + 1 <= Len(m_consumers[c])
                      /\ m_consumers[c][s1 + 1] = path[tip][s1 + 1]
    BY <1>1
  <2>2. s1 = s
    BY <1>3, <2>1 DEF IsInterval
  <2>3. QED
    BY <2>1, <2>2
<1>5. Fitting(a)
  BY <1>3, <1>4 DEF Fitting
<1>6. QED
  BY <1>5 DEF a

\* How far the interval went when it failed at the consumer f: those before f
\* have all of it, f is somewhere before its end, those after f are as they
\* were.
LEMMA Updates ==
  ASSUME Agreeing, Fitting(answer), NEW f \in Nat,
         f \in Registered => Check(f).hasNewBlocks,
         \A c, d \in Registered : ~(c < f /\ f < d)
  PROVE  /\ \A c \in Registered : IsChain(UpdatedTo(c, f))
         /\ \A c, d \in Registered : Comparable(UpdatedTo(c, f), UpdatedTo(d, f))
<1>1. PICK P, s, e :
        /\ IsInterval(answer, P, s, e)
        /\ \A c \in Registered : s + 1 <= Len(m_consumers[c]) /\ m_consumers[c][s + 1] = P[s + 1]
  BY DEF Fitting
<1> DEFINE X == SubSeq(P, 1, e)
           m(c) == m_consumers[c]
           U(c) == UpdatedTo(c, f)
<1>2. \A c \in Registered : c \in Nat /\ IsChain(m(c))
  BY ConsumersAssumption DEF Agreeing, Consumers
<1>3. \A c \in Registered : IsChain(X) /\ Checked(m(c), answer, X, Check(c))
  BY Zenon, <1>1, <1>2, CheckInterval DEF Check
<1> HIDE DEF X
<1>4. \A c \in Registered :
        /\ Check(c).hasNewBlocks \in BOOLEAN
        /\ Check(c).hasNewBlocks =>
             /\ IsChain(DetachedTo(c)) /\ Begins(DetachedTo(c), m(c)) /\ Begins(DetachedTo(c), X)
             /\ DetachedTo(c) \o NewBlocks(answer, Check(c).newBlockHeight) = X
        /\ ~Check(c).hasNewBlocks => Begins(X, m(c))
  BY Zenon, <1>3 DEF Checked, DetachedTo, detach
<1>5. ASSUME NEW c \in Registered, c < f
      PROVE  (U(c) = X \/ (U(c) = m(c) /\ Begins(X, m(c)))) /\ IsChain(U(c)) /\ Begins(X, U(c))
  <2>1. c # f
    BY <1>2, <1>5
  <2>2. CASE Check(c).hasNewBlocks
    <3>1. U(c) = X
      BY <1>4, <1>5, <2>1, <2>2 DEF UpdatedTo
    <3>2. QED
      BY <1>3, <3>1, BeginsItself
  <2>3. CASE ~Check(c).hasNewBlocks
    <3>1. U(c) = m(c) /\ Begins(X, m(c))
      BY <1>4, <1>5, <2>1, <2>3 DEF UpdatedTo
    <3>2. QED
      BY <1>2, <3>1
  <2>4. QED
    BY <1>4, <2>2, <2>3
<1>6. ASSUME NEW c \in Registered, c = f
      PROVE  IsChain(U(c)) /\ Begins(U(c), m(c)) /\ Begins(U(c), X)
  <2>1. ~(c < f)
    BY <1>2, <1>6
  <2>2. U(c) = DetachedTo(c)
    BY <1>6, <2>1 DEF UpdatedTo
  <2>3. QED
    BY <1>4, <1>6, <2>2
<1>7. ASSUME NEW c \in Registered, ~(c < f), c # f
      PROVE  U(c) = m(c) /\ IsChain(U(c))
  BY <1>2, <1>7 DEF UpdatedTo
<1>8. ASSUME NEW c \in Registered PROVE IsChain(U(c))
  BY <1>5, <1>6, <1>7
<1>9. \A c, d \in Registered : Comparable(m(c), m(d))
  BY DEF Agreeing
<1> HIDE DEF m, U
<1>10. ASSUME NEW c \in Registered, NEW d \in Registered, c < f
       PROVE  Comparable(U(c), U(d))
  <2>1. CASE d < f
    <3>1. Begins(X, U(c)) /\ Begins(X, U(d))
      BY <1>5, <1>10, <2>1
    <3>2. CASE U(c) = X \/ U(d) = X
      BY <3>1, <3>2 DEF Comparable
    <3>3. CASE U(c) # X /\ U(d) # X
      BY <1>5, <1>9, <1>10, <2>1, <3>3
    <3>4. QED
      BY <3>2, <3>3
  <2>2. CASE d = f
    <3>1. Begins(U(d), X) /\ Begins(X, U(c)) /\ IsChain(X)
      BY <1>3, <1>5, <1>6, <1>10, <2>2
    <3>2. QED
      BY <1>8, <3>1, BeginsTwice DEF Comparable
  <2>3. CASE ~(d < f) /\ d # f
    BY <1>2, <1>10, <2>3
  <2>4. QED
    BY <2>1, <2>2, <2>3
<1>11. ASSUME NEW c \in Registered, NEW d \in Registered, ~(c < f), ~(d < f)
       PROVE  Comparable(U(c), U(d))
  <2>1. CASE c = f /\ d = f
    <3>1. Begins(U(c), U(c))
      BY <1>8, BeginsItself
    <3>2. QED
      BY <2>1, <3>1 DEF Comparable
  <2>2. CASE c = f /\ d # f
    <3>1. Begins(U(c), m(c)) /\ U(d) = m(d) /\ IsChain(U(c))
      BY <1>6, <1>7, <1>11, <2>2
    <3>2. QED
      BY <1>2, <1>9, <3>1, StaysComparable
  <2>3. CASE c # f /\ d = f
    <3>1. Begins(U(d), m(d)) /\ U(c) = m(c) /\ IsChain(U(d))
      BY <1>6, <1>7, <1>11, <2>3
    <3>2. Comparable(U(d), m(c))
      BY <1>2, <1>9, <3>1, StaysComparable
    <3>3. QED
      BY <3>1, <3>2 DEF Comparable
  <2>4. CASE c # f /\ d # f
    BY <1>7, <1>9, <1>11, <2>4
  <2>5. QED
    BY <2>1, <2>2, <2>3, <2>4
<1>12. ASSUME NEW c \in Registered, NEW d \in Registered PROVE Comparable(U(c), U(d))
  <2>1. CASE c < f
    BY <1>10, <2>1
  <2>2. CASE d < f
    BY <1>10, <2>2 DEF Comparable
  <2>3. CASE ~(c < f) /\ ~(d < f)
    BY <1>11, <2>3
  <2>4. QED
    BY <2>1, <2>2, <2>3
<1>13. QED
  BY <1>8, <1>12 DEF U

\* The consumers are given what their SynchronizationState is given.
LEMMA Given ==
  ASSUME Agreeing, NEW f \in Nat, updateConsumers(f), Fitting(answer)
  PROVE  /\ Registered' = Registered /\ DOMAIN received' = Consumers
         /\ \A c \in Registered : m_consumers'[c] = UpdatedTo(c, f) /\ received'[c] = m_consumers'[c]
         /\ \A c \in Consumers \ Registered : received'[c] = received[c]
<1>1. /\ DOMAIN m_consumers' = Registered
      /\ \A c \in Registered : m_consumers'[c] = UpdatedTo(c, f)
      /\ DOMAIN received' = Consumers
      /\ \A c \in Consumers \ Registered : received'[c] = received[c]
  BY DEF updateConsumers
<1>2. ASSUME NEW c \in Registered PROVE received'[c] = UpdatedTo(c, f)
  <2> DEFINE D == DetachedTo(c)
             N == NewBlocks(answer, Check(c).newBlockHeight)
             r == Check(c)
  <2>1. c \in Consumers /\ c \in Nat /\ received[c] = m_consumers[c] /\ IsChain(m_consumers[c])
    <3>1. c \in Consumers /\ m_consumers[c] = received[c] /\ IsChain(m_consumers[c])
      BY DEF Agreeing
    <3>2. QED
      BY <3>1, ConsumersAssumption DEF Consumers
  <2>2. (r.detachRequired => r.hasNewBlocks) /\ (r.hasNewBlocks => IsChain(D))
        /\ r.hasNewBlocks \in BOOLEAN
    <3>1. PICK P, s, e :
            /\ IsInterval(answer, P, s, e)
            /\ s + 1 <= Len(m_consumers[c]) /\ m_consumers[c][s + 1] = P[s + 1]
      BY SMTT(30) DEF Fitting
    <3>2. Checked(m_consumers[c], answer, SubSeq(P, 1, e), r)
      BY <2>1, <3>1, CheckInterval DEF Check
    <3>3. QED
      BY <3>2 DEF Checked, DetachedTo, detach
  <2>3. received'[c] = IF c > f THEN m_consumers[c]
                       ELSE D \o (IF c < f /\ r.hasNewBlocks THEN N ELSE << >>)
    BY <2>1 DEF updateConsumers, DetachedTo, detach
  <2>4. (~r.hasNewBlocks => D = m_consumers[c]) /\ D \in Seq(Blocks)
    BY Zenon, <2>1, <2>2 DEF DetachedTo, IsChain
  <2>5. D \o << >> = D
    BY <2>4, ConcatEmptySeq
  <2>6. UpdatedTo(c, f) = IF c < f /\ r.hasNewBlocks THEN D \o N
                          ELSE IF c = f THEN D ELSE m_consumers[c]
    BY DEF UpdatedTo
  <2> HIDE DEF D, N, r
  <2>7. CASE c < f
    <3>1. ~(c > f) /\ c # f
      BY <2>1, <2>7
    <3>2. CASE r.hasNewBlocks
      BY <2>3, <2>6, <2>7, <3>1, <3>2
    <3>3. CASE ~r.hasNewBlocks
      BY <2>3, <2>4, <2>5, <2>6, <3>1, <3>3
    <3>4. QED
      BY <3>2, <3>3
  <2>8. CASE c = f
    BY <2>1, <2>3, <2>5, <2>6, <2>8
  <2>9. CASE c > f
    BY <2>1, <2>3, <2>6, <2>9
  <2>10. QED
    BY <2>1, <2>7, <2>8, <2>9
<1>3. QED
  BY <1>1, <1>2 DEF Registered

\* Nothing changes for the consumers.
LEMMA SameConsumers ==
  ASSUME Agreeing, UNCHANGED <<m_consumers, received>>
  PROVE  Agreeing'
BY DEF Agreeing, Registered

LEMMA UpdatedAgree ==
  ASSUME NConsumers <= 2, Agreeing, NEW f \in Nat, updateConsumers(f), Fitting(answer),
         f \in Registered => Check(f).hasNewBlocks, f \in 1 .. NConsumers + 1
  PROVE  Agreeing'
<1>1. \A c, d \in Registered : ~(c < f /\ f < d)
  <2>1. \A c \in Registered : c \in Nat /\ 1 <= c /\ c <= 2
    BY ConsumerNumbers, ConsumersAssumption
  <2>2. QED
    BY <2>1
<1>2. /\ \A c \in Registered : IsChain(UpdatedTo(c, f))
      /\ \A c, d \in Registered : Comparable(UpdatedTo(c, f), UpdatedTo(d, f))
  BY <1>1, Updates
<1>3. /\ Registered' = Registered /\ DOMAIN received' = Consumers
      /\ \A c \in Registered : m_consumers'[c] = UpdatedTo(c, f) /\ received'[c] = m_consumers'[c]
      /\ \A c \in Consumers \ Registered : received'[c] = received[c]
  BY Given
<1>4. /\ Registered \subseteq Consumers
      /\ \A c \in Consumers \ Registered : received[c] = <<genesis>>
  BY DEF Agreeing
<1>5. QED
  <2>1. /\ Registered' \subseteq Consumers
        /\ \A c \in Consumers \ Registered' : received'[c] = <<genesis>>
    BY <1>3, <1>4
  <2>2. \A c \in Registered' : IsChain(m_consumers'[c]) /\ m_consumers'[c] = received'[c]
    BY Zenon, <1>2, <1>3
  <2>3. \A c, d \in Registered' : Comparable(m_consumers'[c], m_consumers'[d])
    BY Zenon, <1>2, <1>3
  <2>4. QED
    BY Zenon, <1>3, <2>1, <2>2, <2>3 DEF Agreeing

LEMMA AgreeingNext ==
  ASSUME NConsumers <= 2, Agreeing, Asked, Threads, [Next]_vars
  PROVE  Agreeing'
<1>1. CASE Daemon \/ Poll \/ PollFails
  BY <1>1, SameConsumers DEF Daemon, Poll, PollFails, consumerVars
<1>2. CASE Owner
  <2>1. CASE start \/ stop \/ join
    BY <2>1, SameConsumers DEF start, stop, join, consumerVars
  <2>2. ASSUME NEW c \in Consumers, addConsumer(c) PROVE Agreeing'
    <3>1. /\ c \notin Registered /\ DOMAIN m_consumers' = Registered \cup {c}
          /\ m_consumers'[c] = <<genesis>> /\ received' = received
          /\ \A d \in Registered : m_consumers'[d] = m_consumers[d]
      BY SMTT(30), <2>2 DEF addConsumer
    <3>2. \A d \in Registered : Begins(<<genesis>>, m_consumers[d])
      BY GenesisChain DEF Agreeing
    <3>3. Begins(<<genesis>>, <<genesis>>)
      BY GenesisChain
    <3>4. \A d, e \in Registered \cup {c} : Comparable(m_consumers'[d], m_consumers'[e])
      BY <3>1, <3>2, <3>3 DEF Agreeing, Comparable
    <3>5. \A d \in Registered \cup {c} : IsChain(m_consumers'[d]) /\ m_consumers'[d] = received[d]
      BY <3>1, GenesisChain DEF Agreeing
    <3>6. Registered' = Registered \cup {c}
      BY <3>1 DEF Registered
    <3>7. QED
      BY <3>1, <3>4, <3>5, <3>6 DEF Agreeing
  <2>3. ASSUME NEW c \in Consumers, removeConsumer(c) PROVE Agreeing'
    <3>1. /\ DOMAIN m_consumers' = Registered \ {c}
          /\ \A d \in Registered \ {c} : m_consumers'[d] = m_consumers[d]
          /\ received' = [received EXCEPT ![c] = <<genesis>>]
      BY <2>3 DEF removeConsumer
    <3>2. /\ DOMAIN received' = Consumers /\ received'[c] = <<genesis>>
          /\ \A d \in Consumers \ {c} : received'[d] = received[d]
      BY <3>1 DEF Agreeing
    <3>3. Registered' = Registered \ {c}
      BY <3>1 DEF Registered
    <3>4. QED
      BY <3>1, <3>2, <3>3 DEF Agreeing
  <2>4. ASSUME NEW t \in Txs, addUnconfirmedTransaction(t) \/ removeUnconfirmedTransaction(t)
        PROVE  Agreeing'
    BY <2>4, SameConsumers DEF addUnconfirmedTransaction, removeUnconfirmedTransaction, consumerVars
  <2>5. QED
    BY <1>2, <2>1, <2>2, <2>3, <2>4 DEF Owner
<1>3. CASE Worker
  <2>1. CASE processBlocks
    <3>1. worker = "processBlocks" /\ updateConsumers(NoFailing)
      BY <2>1 DEF processBlocks
    <3>2. NoFailing \in Nat /\ NoFailing \in 1 .. NConsumers + 1 /\ NoFailing \notin Registered
      BY ConsumersAssumption DEF NoFailing, Agreeing, Consumers
    <3>3. QED
      BY <3>1, <3>2, UpdatedAgree DEF Asked
  <2>2. CASE processBlocksFails
    <3>1. PICK f \in Registered : Check(f).hasNewBlocks /\ updateConsumers(f)
      BY <2>2 DEF processBlocksFails
    <3>2. worker = "processBlocks" /\ f \in Nat /\ f \in 1 .. NConsumers + 1
      BY <2>2, ConsumersAssumption DEF processBlocksFails, Agreeing, Consumers
    <3>3. QED
      BY <3>1, <3>2, UpdatedAgree DEF Asked
  <2>3. CASE \/ checkIfShouldStop \/ actualizeFutureState \/ wakeUp \/ queryBlocksAnswered
             \/ queryFails \/ processBlocksInterrupted
             \/ queryUnionAnswered \/ queryIntersectionAnswered
             \/ onPoolUpdated \/ onPoolUpdatedFails \/ processPoolInterrupted
    <3>1. UNCHANGED <<m_consumers, received>>
      BY Zenon, <2>3 DEF checkIfShouldStop, actualizeFutureState, wakeUp, queryBlocksAnswered,
                  queryFails, processBlocksInterrupted, queryUnionAnswered,
                  queryIntersectionAnswered, onPoolUpdated, onPoolUpdatedFails,
                  processPoolInterrupted, consumerVars
    <3>2. QED
      BY <3>1, SameConsumers
  <2>4. QED
    BY <1>3, <2>1, <2>2, <2>3 DEF Worker
<1>4. CASE UNCHANGED vars
  BY <1>4, SameConsumers DEF vars, consumerVars
<1>5. QED
  BY <1>1, <1>2, <1>3, <1>4 DEF Next

LEMMA AskedNext ==
  ASSUME Agreeing, Asked, Threads, [Next]_vars
  PROVE  Asked'
<1>1. CASE UNCHANGED <<worker, answer, m_consumers>>
  BY SMTT(30), <1>1 DEF Asked, Fitting, Registered
<1>2. CASE worker' \notin {"queryBlocks", "processBlocks"}
  BY <1>2 DEF Asked
<1>3. CASE Daemon \/ Poll \/ PollFails \/ UNCHANGED vars
  BY <1>1, <1>3 DEF Daemon, Poll, PollFails, vars, workerVars, consumerVars
<1>4. CASE Owner
  <2>1. CASE start \/ join
    BY <1>2, <2>1 DEF start, join
  <2>2. CASE stop
    BY <1>1, <2>2 DEF stop, workerVars, consumerVars
  <2>3. ASSUME NEW c \in Consumers, addConsumer(c) \/ removeConsumer(c) PROVE Asked'
    <3>1. owner = "free" /\ m_futureState = stopped /\ worker' = worker
      BY Zenon, <2>3 DEF addConsumer, removeConsumer, IsStopped, workerVars
    <3>2. worker = "none"
      BY <3>1 DEF Threads
    <3>3. QED
      BY <1>2, <3>1, <3>2
  <2>4. ASSUME NEW t \in Txs, addUnconfirmedTransaction(t) \/ removeUnconfirmedTransaction(t)
        PROVE  Asked'
    BY <1>1, <2>4 DEF addUnconfirmedTransaction, removeUnconfirmedTransaction, workerVars,
                      consumerVars
  <2>5. QED
    BY <1>4, <2>1, <2>2, <2>3, <2>4 DEF Owner
<1>5. CASE Worker
  <2>1. CASE actualizeFutureState
    <3>1. CASE worker' = "queryBlocks" /\ answer' = [known |-> getCommonHistory]
      <4>1. worker # "none" /\ m_consumers' = m_consumers
        BY <2>1 DEF actualizeFutureState, consumerVars
      <4>2. \A c \in Registered : IsHistory(getCommonHistory, m_consumers[c])
        BY <4>1, CommonHistory DEF Threads
      <4>3. answer'.known = getCommonHistory
        BY <3>1
      <4>4. QED
        BY <3>1, <4>1, <4>2, <4>3 DEF Asked, Registered
    <3>2. CASE worker' # "queryBlocks"
      BY <1>2, <2>1, <3>2 DEF actualizeFutureState
    <3>3. QED
      BY <2>1, <3>1, <3>2 DEF actualizeFutureState
  <2>2. CASE queryBlocksAnswered
    <3>1. /\ worker = "queryBlocks" /\ worker' = "processBlocks"
          /\ answer' = queryBlocksLite(answer.known) /\ m_consumers' = m_consumers
      BY <2>2 DEF queryBlocksAnswered, consumerVars
    <3>2. Fitting(queryBlocksLite(answer.known))
      BY <3>1, AnswerFits DEF Asked, Threads
    <3>3. QED
      BY SMTT(30), <3>1, <3>2 DEF Asked, Fitting, Registered
  <2>3. CASE \/ checkIfShouldStop \/ wakeUp \/ queryFails \/ processBlocks
             \/ processBlocksFails \/ processBlocksInterrupted
             \/ queryUnionAnswered \/ queryIntersectionAnswered
             \/ onPoolUpdated \/ onPoolUpdatedFails \/ processPoolInterrupted
    <3>1. worker' \notin {"queryBlocks", "processBlocks"}
      BY <2>3 DEF checkIfShouldStop, wakeUp, queryFails, processBlocks, processBlocksFails,
                  processBlocksInterrupted, queryUnionAnswered, queryIntersectionAnswered,
                  onPoolUpdated, onPoolUpdatedFails, processPoolInterrupted, Report,
                  blockchainOutdated
    <3>2. QED
      BY <1>2, <3>1
  <2>4. QED
    BY <1>5, <2>1, <2>2, <2>3 DEF Worker
<1>6. QED
  BY <1>3, <1>4, <1>5 DEF Next

-----------------------------------------------------------------------------
(* The theorem.                                                            *)

\* A wallet with at most two consumers (a third may be left behind on another
\* branch by a failure at the second): each consumer was given exactly what
\* its SynchronizationState holds, which is a chain of the block tree, the two
\* are on one chain, and no answer starts above either of them, whatever the
\* daemon does between the query and the update, wherever an update fails, and
\* whenever consumers come and go.
THEOREM HistoriesAlwaysAgree ==
  ASSUME NConsumers <= 2
  PROVE  Spec => []HistoriesAgree
<1> DEFINE Inv == Threads /\ Agreeing /\ Asked
<1>1. Init => Inv
  BY ThreadsInit, AgreeingInit
<1>2. Inv /\ [Next]_vars => Inv'
  BY ThreadsNext, AgreeingNext, AskedNext
<1>3. Inv => HistoriesAgree
  <2> SUFFICES ASSUME Inv PROVE HistoriesAgree
    BY SMTT(30)
  <2>1. \A c \in Registered : IsChain(m_consumers[c]) /\ m_consumers[c] = received[c]
    BY DEF Agreeing
  <2>2. \A c \in Registered : m_consumers[c] = path[back(m_consumers[c])]
    BY <2>1 DEF IsChain, back
  <2>3. ASSUME NEW c \in Registered, worker = "processBlocks"
        PROVE  answer.startHeight <= Len(m_consumers[c])
    <3>1. PICK P, s, e : IsInterval(answer, P, s, e) /\ s + 1 <= Len(m_consumers[c])
      BY <2>3 DEF Asked, Fitting
    <3>2. Len(m_consumers[c]) \in Nat
      BY <2>1, ChainLength
    <3>3. QED
      BY <3>1, <3>2 DEF IsInterval
  <2>4. \A c, d \in Registered :
          Begins(m_consumers[c], m_consumers[d]) \/ Begins(m_consumers[d], m_consumers[c])
    BY DEF Agreeing, Comparable
  <2>5. QED
    BY <2>1, <2>2, <2>3, <2>4 DEF HistoriesAgree
<1>4. QED
  BY <1>1, <1>2, <1>3, PTL DEF Spec

-----------------------------------------------------------------------------
(* The chains the daemon has had while t was its tip.                      *)

PastAt(t, b) == b = t \/ weight[b] < weight[t]
HadAt(t, s) == \E b \in Blocks : PastAt(t, b) /\ Begins(s, path[b])

LEMMA PastLater ==
  ASSUME NEW t \in Blocks, NEW u \in Blocks, weight[t] < weight[u], NEW b \in Blocks, PastAt(t, b)
  PROVE  PastAt(u, b) /\ b # u
BY WeightAssumption DEF PastAt

LEMMA HadLater ==
  ASSUME NEW t \in Blocks, NEW u \in Blocks, weight[t] < weight[u], NEW s, HadAt(t, s)
  PROVE  HadAt(u, s)
BY PastLater DEF HadAt

LEMMA HadPart ==
  ASSUME NEW t, NEW r, IsChain(r), NEW s, IsChain(s), Begins(r, s), HadAt(t, s)
  PROVE  HadAt(t, r)
BY PathChain, BeginsTwice DEF HadAt

\* A chain of the past that has all of the daemon's chain is the daemon's chain.
LEMMA HadAll ==
  ASSUME NEW t \in Blocks, NEW s, IsChain(s), HadAt(t, s), Begins(path[t], s)
  PROVE  s = path[t]
<1>1. PICK b \in Blocks : PastAt(t, b) /\ Begins(s, path[b])
  BY DEF HadAt
<1> DEFINE p == path[t]
           q == path[b]
<1>2. IsChain(p) /\ IsChain(q)
  BY PathChain
<1>3. Begins(p, q)
  BY <1>1, <1>2, BeginsTwice
<1>4. /\ p \in Seq(Blocks) /\ Len(p) \in Nat /\ Len(p) >= 1 /\ p[Len(p)] = t
      /\ q \in Seq(Blocks) /\ Len(q) \in Nat /\ Len(q) >= 1 /\ q[Len(q)] = b
  BY TreeAssumption
<1>5. Len(p) \in 1 .. Len(q) /\ q[Len(p)] = t
  BY <1>3, <1>4 DEF Begins
<1>6. weight[t] \in Nat /\ weight[b] \in Nat /\ weight[t] <= weight[b]
  <2>1. weight[t] \in Nat /\ weight[b] \in Nat
    BY WeightAssumption
  <2>2. CASE Len(p) = Len(q)
    BY <1>4, <1>5, <2>1, <2>2
  <2>3. CASE Len(p) # Len(q)
    <3>1. Len(p) \in 1 .. Len(q) - 1
      BY <1>4, <1>5, <2>3
    <3>2. weight[q[Len(p)]] <= weight[b]
      BY Zenon, <3>1, WeightAssumption
    <3>3. QED
      BY <1>5, <2>1, <3>2
  <2>4. QED
    BY <2>2, <2>3
<1>7. b = t
  BY <1>1, <1>6 DEF PastAt
<1>8. s \in Seq(Blocks) /\ Len(s) \in Nat
  BY DEF IsChain
<1>9. Len(s) = Len(p) /\ \A k \in 1 .. Len(s) : s[k] = p[k]
  <2>1. Begins(s, p) /\ Begins(p, s)
    BY <1>1, <1>7
  <2>2. Len(s) <= Len(p) /\ Len(p) <= Len(s) /\ \A k \in 1 .. Len(s) : s[k] = p[k]
    BY Zenon, <2>1 DEF Begins
  <2>3. QED
    BY <1>4, <1>8, <2>2
<1>10. QED
  BY <1>4, <1>8, <1>9, Equal

\* The last block of an answer: where the interval ends.
LEMMA EndOfInterval ==
  ASSUME NEW a, NEW P, NEW s, NEW e, IsInterval(a, P, s, e)
  PROVE  /\ back(a.blocks) \in Blocks /\ path[back(a.blocks)] = SubSeq(P, 1, e)
         /\ Begins(SubSeq(P, 1, e), P)
<1>1. /\ IsChain(P) /\ s \in Nat /\ e \in Nat /\ s < e /\ e <= Len(P)
      /\ Len(a.blocks) = e - s /\ \A k \in 1 .. e - s : a.blocks[k] = P[s + k]
      /\ P \in Seq(Blocks) /\ Len(P) \in Nat
  BY DEF IsInterval, IsChain
<1>2. e - s \in 1 .. e - s /\ s + (e - s) = e /\ e \in 1 .. Len(P)
  BY <1>1
<1>3. back(a.blocks) = P[e]
  BY <1>1, <1>2 DEF back
<1>4. path[P[e]] = SubSeq(P, 1, e) /\ P[e] \in Blocks
  BY <1>1, <1>2, ChainUpTo
<1>5. Begins(SubSeq(P, 1, e), P)
  <2>1. Len(SubSeq(P, 1, e)) = e /\ \A k \in 1 .. e : SubSeq(P, 1, e)[k] = P[k]
    BY <1>1, <1>2, Sub
  <2>2. QED
    BY <1>1, <2>1 DEF Begins
<1>6. QED
  BY Zenon, <1>3, <1>4, <1>5

LEMMA AnswerHad ==
  ASSUME Agreeing, Threads, Registered # {}, NEW known,
         \A c \in Registered : IsHistory(known, m_consumers[c])
  PROVE  HadAt(tip, path[back(queryBlocksLite(known).blocks)])
<1>1. PICK c \in Registered : IsChain(m_consumers[c]) /\ IsHistory(known, m_consumers[c])
  BY DEF Agreeing
<1>2. tip \in Blocks
  BY DEF Threads
<1>3. PICK s, e : IsInterval(queryBlocksLite(known), path[tip], s, e)
  BY Zenon, <1>1, <1>2, Interval
<1>4. Begins(path[back(queryBlocksLite(known).blocks)], path[tip])
  BY Zenon, <1>3, EndOfInterval
<1>5. QED
  BY SMTT(30), <1>2, <1>4 DEF HadAt, PastAt

\* Where an update leaves the consumers: those it reached have all of the
\* interval, the others what they had or a part of it.
LEMMA Reached ==
  ASSUME Agreeing, Fitting(answer), NEW f \in Nat, f \in Registered => Check(f).hasNewBlocks
  PROVE  LET l == back(answer.blocks) IN
         /\ l \in Blocks
         /\ \A c \in Registered :
              /\ UpdatedTo(c, f) = path[l] \/ Begins(UpdatedTo(c, f), m_consumers[c])
              /\ c < f => Begins(path[l], UpdatedTo(c, f))
<1> DEFINE l == back(answer.blocks)
           X == path[l]
           m(c) == m_consumers[c]
           U(c) == UpdatedTo(c, f)
<1>1. PICK P, s, e :
        /\ IsInterval(answer, P, s, e)
        /\ \A c \in Registered : s + 1 <= Len(m(c)) /\ m(c)[s + 1] = P[s + 1]
  BY Zenon DEF Fitting
<1>2. l \in Blocks /\ X = SubSeq(P, 1, e)
  BY Zenon, <1>1, EndOfInterval
<1>3. \A c \in Registered : c \in Nat /\ IsChain(m(c))
  <2>1. \A c \in Registered : c \in Consumers /\ IsChain(m(c))
    BY Zenon DEF Agreeing
  <2>2. Consumers \subseteq Nat
    BY ConsumersAssumption DEF Consumers
  <2>3. QED
    BY Zenon, <2>1, <2>2
<1>4. \A c \in Registered : IsChain(X) /\ Checked(m(c), answer, X, Check(c))
  BY Zenon, <1>1, <1>2, <1>3, CheckInterval DEF Check
<1> HIDE DEF X
<1>5. \A c \in Registered :
        /\ Check(c).hasNewBlocks \in BOOLEAN
        /\ Check(c).hasNewBlocks =>
             /\ Begins(DetachedTo(c), m(c))
             /\ DetachedTo(c) \o NewBlocks(answer, Check(c).newBlockHeight) = X
        /\ ~Check(c).hasNewBlocks => Begins(X, m(c))
  BY Zenon, <1>4 DEF Checked, DetachedTo, detach
<1>6. ASSUME NEW c \in Registered
      PROVE  (U(c) = X \/ Begins(U(c), m(c))) /\ (c < f => Begins(X, U(c)))
  <2>1. Begins(m(c), m(c)) /\ Begins(X, X)
    BY <1>3, <1>4, BeginsItself
  <2>2. CASE c < f /\ Check(c).hasNewBlocks
    <3>1. U(c) = X
      BY <1>5, <2>2 DEF UpdatedTo
    <3>2. QED
      BY <2>1, <3>1
  <2>3. CASE c < f /\ ~Check(c).hasNewBlocks
    <3>1. c # f
      BY <1>3, <2>3
    <3>2. U(c) = m(c) /\ Begins(X, m(c))
      BY <1>5, <2>3, <3>1 DEF UpdatedTo
    <3>3. QED
      BY <2>1, <3>2
  <2>4. CASE c = f
    <3>1. ~(c < f)
      BY <1>3, <2>4
    <3>2. U(c) = DetachedTo(c)
      BY <2>4, <3>1 DEF UpdatedTo
    <3>3. QED
      BY <1>5, <2>4, <3>1, <3>2
  <2>5. CASE ~(c < f) /\ c # f
    <3>1. U(c) = m(c)
      BY <2>5 DEF UpdatedTo
    <3>2. QED
      BY <2>1, <2>5, <3>1
  <2>6. QED
    BY Zenon, <1>5, <2>2, <2>3, <2>4, <2>5
<1>7. QED
  BY Zenon, <1>2, <1>6 DEF X

-----------------------------------------------------------------------------
(* What the daemon, its proxy and the consumers have had.                  *)

Older ==
  /\ m_lastKnowHash \in Blocks /\ PastAt(tip, m_lastKnowHash)
  /\ pool \subseteq arrived /\ Confirmed(tip) \subseteq arrived /\ m_knownTxs \subseteq arrived
  /\ \A c \in Registered : HadAt(tip, m_consumers[c])
  /\ worker = "processBlocks" => HadAt(tip, path[back(answer.blocks)])

LEMMA GenesisHad == ASSUME NEW t \in Blocks PROVE HadAt(t, <<genesis>>)
<1>1. Begins(<<genesis>>, path[t])
  BY GenesisChain, PathChain
<1>2. QED
  BY <1>1 DEF HadAt, PastAt

LEMMA OlderInit == Init => Older
<1> SUFFICES ASSUME Init PROVE Older
  OBVIOUS
<1>1. /\ tip = genesis /\ m_lastKnowHash = genesis /\ genesis \in Blocks
      /\ pool = {} /\ arrived = Confirmed(genesis) /\ m_knownTxs = {} /\ worker = "none"
  BY Zenon, TreeAssumption DEF Init, NodeInit
<1>2. \A c \in Registered : m_consumers[c] = <<genesis>>
  BY DEF Init, Registered
<1>3. HadAt(tip, <<genesis>>)
  BY <1>1, GenesisHad
<1>4. QED
  BY Zenon, <1>1, <1>2, <1>3 DEF Older, PastAt

\* An update hands out blocks of chains the daemon has had.
LEMMA UpdatedHad ==
  ASSUME Agreeing, Asked, Older, worker = "processBlocks", NEW f \in Nat, updateConsumers(f),
         f \in Registered => Check(f).hasNewBlocks, tip' = tip, Agreeing'
  PROVE  \A c \in Registered' : HadAt(tip', m_consumers'[c])
<1> DEFINE l == back(answer.blocks)
<1>1. Fitting(answer) /\ HadAt(tip, path[l])
  BY Zenon DEF Asked, Older
<1>2. /\ l \in Blocks
      /\ \A c \in Registered : UpdatedTo(c, f) = path[l] \/ Begins(UpdatedTo(c, f), m_consumers[c])
  BY Zenon, <1>1, Reached
<1>3. Registered' = Registered /\ \A c \in Registered : m_consumers'[c] = UpdatedTo(c, f)
  BY <1>1, Given
<1>4. \A c \in Registered : IsChain(m_consumers[c]) /\ HadAt(tip, m_consumers[c])
  BY Zenon DEF Agreeing, Older
<1>5. \A c \in Registered : IsChain(m_consumers'[c])
  BY <1>3 DEF Agreeing
<1> HIDE DEF l
<1>6. ASSUME NEW c \in Registered PROVE HadAt(tip, m_consumers'[c])
  <2>1. CASE m_consumers'[c] = path[l]
    BY <1>1, <2>1
  <2>2. CASE Begins(m_consumers'[c], m_consumers[c])
    BY <1>4, <1>5, <2>2, HadPart
  <2>3. QED
    BY ZenonT(30), <1>2, <1>3, <2>1, <2>2
<1>7. QED
  BY <1>3, <1>6

LEMMA OlderNext ==
  ASSUME Agreeing, Asked, Threads, Older, [Next]_vars, Agreeing'
  PROVE  Older'
<1>1. CASE Daemon
  <2>1. UNCHANGED <<m_consumers, worker, answer, m_lastKnowHash, m_knownTxs>>
    BY <1>1 DEF Daemon, switchTo, enterPool, expire, proxyVars, consumerVars, workerVars
  <2>2. ASSUME NEW b \in Blocks, switchTo(b) PROVE Older'
    <3>1. /\ tip \in Blocks /\ weight[tip] < weight[b] /\ tip' = b
          /\ pool' = (pool \cup Confirmed(tip)) \ Confirmed(b) /\ arrived' = arrived \cup Confirmed(b)
      BY <2>2 DEF switchTo, Threads
    <3>2. PastAt(b, m_lastKnowHash) /\ m_lastKnowHash \in Blocks
      BY Zenon, <3>1, PastLater DEF Older
    <3>3. pool' \subseteq arrived' /\ Confirmed(tip') \subseteq arrived' /\ m_knownTxs \subseteq arrived'
      BY Zenon, <3>1 DEF Older
    <3>4. \A c \in Registered : HadAt(b, m_consumers[c])
      BY Zenon, <3>1, HadLater DEF Older
    <3>5. worker = "processBlocks" => HadAt(b, path[back(answer.blocks)])
      <4>1. worker = "processBlocks" => HadAt(tip, path[back(answer.blocks)])
        BY Zenon DEF Older
      <4>2. QED
        BY Zenon, <3>1, <4>1, HadLater
    <3>6. QED
      BY Zenon, <2>1, <3>1, <3>2, <3>3, <3>4, <3>5 DEF Older, Registered
  <2>3. ASSUME NEW t \in Txs, enterPool(t) \/ expire(t) PROVE Older'
    <3>1. tip' = tip /\ pool' \subseteq arrived' /\ arrived \subseteq arrived'
      BY Zenon, <2>3 DEF enterPool, expire, Older
    <3>2. QED
      BY Zenon, <2>1, <3>1 DEF Older, Registered
  <2>4. QED
    BY <1>1, <2>2, <2>3 DEF Daemon
<1>2. CASE Poll
  <2>1. UNCHANGED <<tip, pool, arrived, m_consumers, worker, answer>>
    BY <1>2 DEF Poll, pollHeader, pollInfo, pollPool, daemonVars, consumerVars, workerVars
  <2>2. m_lastKnowHash' \in {m_lastKnowHash, tip} /\ m_knownTxs' \in {m_knownTxs, pool}
    BY <1>2 DEF Poll, pollHeader, pollInfo, pollPool
  <2>3. QED
    BY Zenon, <2>1, <2>2 DEF Older, Registered, PastAt, Threads
<1>3. ASSUME UNCHANGED <<tip, pool, arrived, m_lastKnowHash, m_knownTxs>>,
             \A c \in Registered' : HadAt(tip, m_consumers'[c]),
             worker' = "processBlocks" => HadAt(tip, path[back(answer'.blocks)])
      PROVE  Older'
  BY Zenon, <1>3 DEF Older
<1>4. ASSUME UNCHANGED <<tip, pool, arrived, m_lastKnowHash, m_knownTxs, m_consumers>>,
             worker' = "processBlocks" => UNCHANGED <<worker, answer>>
      PROVE  Older'
  BY Zenon, <1>4 DEF Older, Registered
<1>5. CASE PollFails \/ UNCHANGED vars
  BY <1>4, <1>5 DEF PollFails, pollFails, vars, nodeVars, daemonVars, proxyVars, consumerVars, workerVars
<1>6. CASE Owner
  <2>1. UNCHANGED <<tip, pool, arrived, m_lastKnowHash, m_knownTxs>>
    BY Zenon, <1>6 DEF Owner, start, stop, join, addConsumer, removeConsumer, addUnconfirmedTransaction,
                removeUnconfirmedTransaction, nodeVars, daemonVars, proxyVars
  <2>2. CASE start \/ stop \/ join
    BY <1>4, <2>1, <2>2 DEF start, stop, join, consumerVars, workerVars
  <2>3. ASSUME NEW c \in Consumers, addConsumer(c) \/ removeConsumer(c) PROVE Older'
    <3>1. worker' = worker /\ answer' = answer
      BY Zenon, <2>3 DEF addConsumer, removeConsumer, workerVars
    <3>2. HadAt(tip, <<genesis>>)
      BY SMTT(30), GenesisHad DEF Threads
    <3>3. \A d \in Registered' :
            m_consumers'[d] = <<genesis>> \/ (d \in Registered /\ m_consumers'[d] = m_consumers[d])
      BY <2>3 DEF addConsumer, removeConsumer, Registered
    <3>4. \A d \in Registered' : HadAt(tip, m_consumers'[d])
      BY ZenonT(30), <3>2, <3>3 DEF Older
    <3>5. worker' = "processBlocks" => HadAt(tip, path[back(answer'.blocks)])
      BY <3>1 DEF Older
    <3>6. QED
      BY Zenon, <1>3, <2>1, <3>4, <3>5
  <2>4. ASSUME NEW t \in Txs, addUnconfirmedTransaction(t) \/ removeUnconfirmedTransaction(t)
        PROVE  Older'
    BY <1>4, <2>1, <2>4 DEF addUnconfirmedTransaction, removeUnconfirmedTransaction, consumerVars,
                            workerVars
  <2>5. QED
    BY <1>6, <2>2, <2>3, <2>4 DEF Owner
<1>7. CASE Worker
  <2>1. UNCHANGED <<tip, pool, arrived, m_lastKnowHash, m_knownTxs>>
    BY Zenon, <1>7 DEF Worker, checkIfShouldStop, actualizeFutureState, wakeUp, queryBlocksAnswered,
                queryFails, processBlocks, processBlocksFails, processBlocksInterrupted,
                queryUnionAnswered, queryIntersectionAnswered, onPoolUpdated, onPoolUpdatedFails,
                processPoolInterrupted, nodeVars, daemonVars, proxyVars
  <2>2. CASE queryBlocksAnswered
    <3>1. /\ worker = "queryBlocks" /\ answer' = queryBlocksLite(answer.known)
          /\ m_consumers' = m_consumers
      BY <2>2 DEF queryBlocksAnswered, consumerVars
    <3>2. HadAt(tip, path[back(queryBlocksLite(answer.known).blocks)])
      BY <3>1, AnswerHad DEF Asked, Threads
    <3>3. \A c \in Registered' : HadAt(tip, m_consumers'[c])
      BY Zenon, <3>1 DEF Older, Registered
    <3>4. QED
      BY Zenon, <1>3, <2>1, <3>1, <3>2, <3>3
  <2>3. ASSUME worker = "processBlocks", NEW f \in Nat, updateConsumers(f),
               f \in Registered => Check(f).hasNewBlocks, worker' # "processBlocks"
        PROVE  Older'
    BY Zenon, <1>3, <2>1, <2>3, UpdatedHad
  <2>4. CASE processBlocks
    <3>1. worker = "processBlocks" /\ updateConsumers(NoFailing) /\ worker' # "processBlocks"
      BY <2>4 DEF processBlocks
    <3>2. NoFailing \in Nat /\ NoFailing \notin Registered
      BY ConsumersAssumption DEF NoFailing, Agreeing, Consumers
    <3>3. QED
      BY <2>3, <3>1, <3>2
  <2>5. CASE processBlocksFails
    <3>1. PICK f \in Registered : Check(f).hasNewBlocks /\ updateConsumers(f)
      BY <2>5 DEF processBlocksFails
    <3>2. worker = "processBlocks" /\ worker' # "processBlocks" /\ f \in Nat
      BY <2>5, ConsumerNumbers DEF processBlocksFails, Report
    <3>3. QED
      BY <2>3, <3>1, <3>2
  <2>6. CASE \/ checkIfShouldStop \/ actualizeFutureState \/ wakeUp \/ queryFails
             \/ processBlocksInterrupted \/ queryUnionAnswered \/ queryIntersectionAnswered
             \/ onPoolUpdated \/ onPoolUpdatedFails \/ processPoolInterrupted
    <3>1. m_consumers' = m_consumers
      BY Zenon, <2>6 DEF checkIfShouldStop, actualizeFutureState, wakeUp, queryFails,
                  processBlocksInterrupted, queryUnionAnswered, queryIntersectionAnswered,
                  onPoolUpdated, onPoolUpdatedFails, processPoolInterrupted, consumerVars
    <3>2. worker' # "processBlocks"
      BY Zenon, <2>6 DEF checkIfShouldStop, actualizeFutureState, wakeUp, queryFails,
                  processBlocksInterrupted, queryUnionAnswered, queryIntersectionAnswered,
                  onPoolUpdated, onPoolUpdatedFails, processPoolInterrupted, Report,
                  blockchainOutdated
    <3>3. QED
      BY <1>4, <2>1, <3>1, <3>2
  <2>7. QED
    BY <1>7, <2>2, <2>4, <2>5, <2>6 DEF Worker
<1>8. QED
  BY <1>1, <1>2, <1>5, <1>6, <1>7 DEF Next

-----------------------------------------------------------------------------
(* A worker that has begun observes the daemon, and begins with its blocks. *)

Lively ==
  /\ m_currentState \in 0 .. 3
  /\ m_currentState # stopped => observing
  /\ m_currentState = stopped =>
       /\ worker \in {"none", "loop", "actualize", "last", "finished"}
       /\ m_futureState \in {blockchainSync, stopped}
  /\ worker \in {"none", "finished"} => m_futureState = stopped /\ m_currentState = stopped
  /\ worker = "last" => m_futureState = stopped
  /\ worker \in {"queryBlocks", "processBlocks"} => m_futureState # idle

LEMMA LivelyInit == Init => Lively
BY DEF Init, Lively, idle, poolSync, blockchainSync, stopped

LEMMA LivelyNext ==
  ASSUME Threads, Lively, [Next]_vars
  PROVE  Lively'
<1> USE DEF idle, poolSync, blockchainSync, stopped
<1>0. m_futureState \in 0 .. 3 /\ m_currentState \in 0 .. 3
  BY DEF Threads, Lively
<1>1. ASSUME UNCHANGED <<m_currentState, observing, worker>>, setFutureState(blockchainSync)
      PROVE  Lively'
  BY <1>0, <1>1 DEF Lively, setFutureState
<1>2. ASSUME UNCHANGED <<m_currentState, observing, worker>>, setFutureState(poolSync)
      PROVE  Lively'
  BY <1>0, <1>2 DEF Lively, setFutureState
<1>3. ASSUME UNCHANGED <<m_currentState, m_futureState, observing, worker>> PROVE Lively'
  BY <1>3 DEF Lively
<1>4. CASE Poll
  <2>1. UNCHANGED <<m_currentState, observing, worker>>
    BY <1>4 DEF Poll, workerVars, ownerVars
  <2>2. setFutureState(blockchainSync) \/ setFutureState(poolSync) \/ UNCHANGED m_futureState
    BY <1>4 DEF Poll, notify
  <2>3. QED
    BY <1>1, <1>2, <1>3, <2>1, <2>2
<1>5. CASE Daemon \/ PollFails \/ UNCHANGED vars
  BY <1>3, <1>5 DEF Daemon, PollFails, vars, syncState, workerVars, ownerVars
<1>6. CASE Owner
  <2>1. CASE start
    BY <2>1 DEF start, ownerVars, Lively
  <2>2. CASE stop
    <3>1. UNCHANGED <<m_currentState, observing, worker>> /\ m_futureState' = stopped
      BY <1>0, <2>2 DEF stop, setFutureState, workerVars
    <3>2. QED
      BY <3>1 DEF Lively
  <2>3. CASE join
    BY SMTT(30), <2>3 DEF join, syncState, Lively
  <2>4. ASSUME NEW c \in Consumers, addConsumer(c) \/ removeConsumer(c) PROVE Lively'
    BY <1>3, <2>4 DEF addConsumer, removeConsumer, syncState, workerVars
  <2>5. ASSUME NEW t \in Txs, addUnconfirmedTransaction(t) \/ removeUnconfirmedTransaction(t)
        PROVE  Lively'
    BY <1>3, <2>5 DEF addUnconfirmedTransaction, removeUnconfirmedTransaction, syncState, workerVars
  <2>6. QED
    BY <1>6, <2>1, <2>2, <2>3, <2>4, <2>5 DEF Owner
<1>7. CASE Worker
  <2>1. CASE checkIfShouldStop \/ wakeUp
    BY <2>1 DEF checkIfShouldStop, wakeUp, syncState, ownerVars, Lively
  <2>2. CASE actualizeFutureState
    <3>1. /\ worker \in {"actualize", "last"} /\ m_currentState' = m_futureState
          /\ observing' = IF m_futureState = stopped THEN FALSE
                          ELSE observing \/ (m_currentState = stopped /\ m_futureState = blockchainSync)
      BY <2>2 DEF actualizeFutureState
    <3>2. m_currentState' # stopped => observing'
      BY Zenon, <3>1 DEF Lively
    <3>3. CASE m_futureState = stopped
      <4>1. m_futureState' = stopped /\ worker' = IF worker = "last" THEN "finished" ELSE "loop"
        BY <2>2, <3>3 DEF actualizeFutureState
      <4>2. QED
        BY <3>1, <3>3, <4>1 DEF Lively
    <3>4. CASE m_futureState # stopped
      <4>1. /\ worker' \in {"queryBlocks", "queryUnion", "waiting"}
            /\ worker' = "queryBlocks" => m_futureState' = poolSync
        BY <2>2, <3>4 DEF actualizeFutureState
      <4>2. QED
        BY <1>0, <3>1, <3>2, <3>4, <4>1 DEF Lively
    <3>5. QED
      BY <3>3, <3>4
  <2>3. CASE queryFails \/ processBlocks \/ processBlocksFails \/ processBlocksInterrupted
    <3>1. /\ worker \in {"queryBlocks", "queryUnion", "queryIntersection", "processBlocks"}
          /\ worker' = "loop" /\ UNCHANGED <<m_currentState, observing>>
      BY Zenon, <2>3 DEF queryFails, processBlocks, processBlocksFails, processBlocksInterrupted, Report,
                  syncState, ownerVars
    <3>2. QED
      BY <3>1 DEF Lively
  <2>4. CASE queryBlocksAnswered
    BY <2>4 DEF queryBlocksAnswered, syncState, ownerVars, Lively
  <2>5. CASE \/ queryUnionAnswered \/ queryIntersectionAnswered
             \/ onPoolUpdated \/ onPoolUpdatedFails \/ processPoolInterrupted
    <3>1. /\ worker \in {"queryUnion", "queryIntersection", "processPoolTxs"}
          /\ worker' \in {"queryIntersection", "processPoolTxs", "loop"}
          /\ UNCHANGED <<m_currentState, observing>>
      BY <2>5 DEF queryUnionAnswered, queryIntersectionAnswered, onPoolUpdated, onPoolUpdatedFails,
                  processPoolInterrupted, Report, blockchainOutdated, syncState, ownerVars
    <3>2. QED
      BY <3>1 DEF Lively
  <2>6. QED
    BY <1>7, <2>1, <2>2, <2>3, <2>4, <2>5 DEF Worker
<1>8. QED
  BY <1>4, <1>5, <1>6, <1>7 DEF Next

-----------------------------------------------------------------------------
(* The block the pool request names is one that every consumer has.        *)

Fetched == /\ m_futureState # stopped /\ m_currentState # stopped /\ ~blocksMissed
           /\ worker \notin {"queryBlocks", "processBlocks"}

Caught ==
  Fetched => /\ lastBlockId \in Blocks
             /\ \A c \in Registered : Begins(path[lastBlockId], m_consumers[c])

LEMMA CaughtInit == Init => Caught
BY DEF Init, Caught, Fetched

LEMMA CaughtNext ==
  ASSUME Threads, Lively, Agreeing, Asked, Caught, [Next]_vars
  PROVE  Caught'
<1> USE DEF idle, poolSync, blockchainSync, stopped
<1>0. m_futureState \in 0 .. 3 /\ m_currentState \in 0 .. 3
  BY DEF Threads, Lively
<1>1. ASSUME UNCHANGED <<m_consumers, lastBlockId>>, Fetched' => Fetched PROVE Caught'
  BY <1>1 DEF Caught, Registered
<1>2. CASE Daemon \/ PollFails \/ UNCHANGED vars
  BY <1>1, <1>2 DEF Daemon, PollFails, vars, syncState, consumerVars, workerVars, Fetched
<1>3. CASE Poll
  <2>1. UNCHANGED <<m_consumers, lastBlockId, m_currentState, worker, blocksMissed>>
    BY <1>3 DEF Poll, consumerVars, workerVars
  <2>2. m_futureState = stopped => m_futureState' = stopped
    BY <1>3 DEF Poll, notify, setFutureState
  <2>3. QED
    BY <1>1, <2>1, <2>2 DEF Fetched
<1>4. CASE Owner
  <2>1. CASE start \/ stop \/ join
    <3>1. UNCHANGED <<m_consumers, lastBlockId>>
      BY <2>1 DEF start, stop, join, consumerVars, workerVars
    <3>2. m_futureState' = stopped \/ m_currentState' = stopped
      BY <1>0, <2>1 DEF start, stop, join, setFutureState, syncState, Lively
    <3>3. QED
      BY <1>1, <3>1, <3>2 DEF Fetched
  <2>2. ASSUME NEW c \in Consumers, addConsumer(c) \/ removeConsumer(c) PROVE Caught'
    BY Zenon, <2>2 DEF addConsumer, removeConsumer, IsStopped, syncState, Caught, Fetched
  <2>3. ASSUME NEW t \in Txs, addUnconfirmedTransaction(t) \/ removeUnconfirmedTransaction(t)
        PROVE  Caught'
    BY <1>1, <2>3 DEF addUnconfirmedTransaction, removeUnconfirmedTransaction, syncState,
                      consumerVars, workerVars, Fetched
  <2>4. QED
    BY <1>4, <2>1, <2>2, <2>3 DEF Owner
<1>5. CASE Worker
  <2>1. CASE processBlocks
    <3> DEFINE l == back(answer.blocks)
    <3>1. worker = "processBlocks" /\ updateConsumers(NoFailing) /\ lastBlockId' = l
      BY <2>1 DEF processBlocks, RememberLastBlockId
    <3>2. NoFailing \in Nat /\ \A c \in Registered : c \in Nat /\ c < NoFailing
      <4>1. Consumers = 1 .. NConsumers /\ NConsumers \in Nat /\ Registered \subseteq Consumers
        BY ConsumersAssumption DEF Agreeing, Consumers
      <4>2. QED
        BY <4>1 DEF NoFailing
    <3>3. Fitting(answer) /\ (NoFailing \in Registered => Check(NoFailing).hasNewBlocks)
      BY <3>1, <3>2 DEF Asked
    <3>4. l \in Blocks /\ \A c \in Registered : Begins(path[l], UpdatedTo(c, NoFailing))
      BY Zenon, <3>2, <3>3, Reached
    <3>5. /\ Registered' = Registered
          /\ \A c \in Registered : m_consumers'[c] = UpdatedTo(c, NoFailing)
      BY Zenon, <3>1, <3>2, <3>3, Given
    <3> HIDE DEF l
    <3>6. QED
      BY Zenon, <3>1, <3>4, <3>5 DEF Caught
  <2>2. CASE processBlocksFails \/ (queryFails /\ worker = "queryBlocks")
    BY Zenon, <2>2 DEF processBlocksFails, queryFails, Caught, Fetched
  <2>3. CASE processBlocksInterrupted
    BY Zenon, <2>3 DEF processBlocksInterrupted, syncState, Caught, Fetched
  <2>4. CASE \/ checkIfShouldStop \/ actualizeFutureState \/ wakeUp \/ queryBlocksAnswered
             \/ (queryFails /\ worker # "queryBlocks")
             \/ queryUnionAnswered \/ queryIntersectionAnswered
             \/ onPoolUpdated \/ onPoolUpdatedFails \/ processPoolInterrupted
    <3>1. UNCHANGED <<m_consumers, lastBlockId>>
      BY Zenon, <2>4 DEF checkIfShouldStop, actualizeFutureState, wakeUp, queryBlocksAnswered, queryFails,
                  queryUnionAnswered, queryIntersectionAnswered, onPoolUpdated,
                  onPoolUpdatedFails, processPoolInterrupted, consumerVars, workerVars
    <3>2. blocksMissed => blocksMissed'
      BY Zenon, <2>4 DEF checkIfShouldStop, actualizeFutureState, wakeUp, queryBlocksAnswered, queryFails,
                  queryUnionAnswered, queryIntersectionAnswered, onPoolUpdated,
                  onPoolUpdatedFails, processPoolInterrupted, workerVars
    <3>3. CASE queryBlocksAnswered
      BY Zenon, <3>3 DEF queryBlocksAnswered, Caught, Fetched
    <3>4. CASE actualizeFutureState
      <4>1. worker \notin {"queryBlocks", "processBlocks"} /\ m_currentState' = m_futureState
        BY SMTT(30), <3>4 DEF actualizeFutureState
      <4>2. CASE m_currentState = stopped
        <5>1. m_futureState = stopped \/ worker' = "queryBlocks"
          BY <3>4, <4>2 DEF actualizeFutureState, Lively
        <5>2. QED
          BY <4>1, <5>1 DEF Caught, Fetched
      <4>3. CASE m_currentState # stopped
        BY <1>1, <3>1, <3>2, <4>1, <4>3 DEF Fetched
      <4>4. QED
        BY <4>2, <4>3
    <3>5. CASE ~queryBlocksAnswered /\ ~actualizeFutureState
      <4>1. worker \notin {"queryBlocks", "processBlocks"} /\ m_currentState' = m_currentState
        BY <2>4, <3>5 DEF checkIfShouldStop, wakeUp, queryFails, queryUnionAnswered,
                   queryIntersectionAnswered, onPoolUpdated, onPoolUpdatedFails,
                   processPoolInterrupted, syncState
      <4>2. m_futureState = stopped => m_futureState' = stopped
        BY <2>4, <3>5 DEF checkIfShouldStop, wakeUp, queryFails, queryUnionAnswered,
                   queryIntersectionAnswered, onPoolUpdated, onPoolUpdatedFails,
                   processPoolInterrupted, blockchainOutdated, setFutureState, giveUp, syncState
      <4>3. QED
        BY <1>1, <3>1, <3>2, <4>1, <4>2 DEF Fetched
    <3>6. QED
      BY <3>3, <3>4, <3>5
  <2>5. QED
    BY <1>5, <2>1, <2>2, <2>3, <2>4 DEF Worker
<1>6. QED
  BY <1>2, <1>3, <1>4, <1>5 DEF Next

-----------------------------------------------------------------------------
(* The pool.  As long as the proxy has seen what the daemon has, and has   *)
(* nothing to tell the worker, what the worker holds is up to date.        *)

Seen == m_lastKnowHash = tip /\ m_knownTxs = pool /\ m_futureState = idle

\* What is left to do makes of the consumer's pool the daemon's.
Fed(a, S) ==
  \A c \in Registered : IF c \in a.fed THEN poolTxs[c] = S
                        ELSE (poolTxs[c] \cup a.added) \ a.deleted = S

UpToDate ==
  /\ worker = "queryIntersection" => lastBlockId = tip /\ answer.deleted = poolUnion \ pool
  /\ worker = "processPoolTxs" => lastBlockId = tip /\ Fed(answer, pool)
  /\ worker \in {"loop", "actualize", "waiting"} /\ completed = "ok" =>
       lastBlockId = tip /\ \A c \in Registered : poolTxs[c] = pool

IsFeed(a) == a = [added |-> a.added, deleted |-> a.deleted, fed |-> a.fed]

Feeding ==
  /\ DOMAIN poolTxs = Consumers
  /\ worker = "processPoolTxs" =>
       IsFeed(answer) /\ answer.fed \subseteq Registered /\ answer.fed # Registered
  /\ Seen => UpToDate

LEMMA FeedingInit == Init => Feeding
<1> SUFFICES ASSUME Init PROVE Feeding
  OBVIOUS
<1>1. m_futureState = stopped /\ worker = "none" /\ DOMAIN poolTxs = Consumers
  BY DEF Init
<1>2. QED
  BY <1>1 DEF Feeding, Seen, idle, stopped

\* A change of the daemon is not seen before the next poll, and a poll that
\* sees one tells the worker.
LEMMA SeenBefore ==
  ASSUME Threads, Lively, Older, Daemon \/ Poll, Seen', worker \notin {"none", "finished", "last"},
         m_currentState # stopped
  PROVE  Seen /\ UNCHANGED <<tip, pool>>
<1> USE DEF idle, poolSync, blockchainSync, stopped
<1>0. m_futureState \in 0 .. 3 /\ observing
  BY DEF Threads, Lively
<1>1. CASE Daemon
  <2>1. m_futureState' = m_futureState /\ m_lastKnowHash' = m_lastKnowHash /\ m_knownTxs' = m_knownTxs
    BY Zenon, <1>1 DEF Daemon, switchTo, enterPool, expire, syncState, proxyVars
  <2>2. ASSUME NEW b \in Blocks, switchTo(b) PROVE FALSE
    <3>1. tip \in Blocks /\ weight[tip] < weight[b] /\ tip' = b
      BY <2>2 DEF switchTo, Threads
    <3>2. m_lastKnowHash # b
      BY Zenon, <3>1, PastLater DEF Older
    <3>3. QED
      BY Zenon, <2>1, <3>1, <3>2 DEF Seen
  <2>3. ASSUME NEW t \in Txs, enterPool(t) PROVE FALSE
    <3>1. t \notin arrived /\ t \in pool'
      BY <2>3 DEF enterPool
    <3>2. QED
      BY Zenon, <2>1, <3>1 DEF Older, Seen
  <2>4. ASSUME NEW t \in Txs, expire(t) PROVE FALSE
    <3>1. t \in m_knownTxs /\ t \notin pool'
      BY <2>4 DEF expire
    <3>2. QED
      BY <2>1, <3>1 DEF Seen
  <2>5. QED
    BY <1>1, <2>2, <2>3, <2>4 DEF Daemon
<1>2. CASE Poll
  <2>1. tip' = tip /\ pool' = pool /\ m_futureState' = idle
    BY <1>2 DEF Poll, pollHeader, pollInfo, pollPool, daemonVars, Seen
  <2>2. CASE pollHeader /\ notify(blockchainUpdated, blockchainSync)
    <3>1. ~blockchainUpdated /\ m_futureState = idle
      BY <1>0, <2>1, <2>2 DEF notify, setFutureState
    <3>2. m_lastKnowHash = tip /\ m_knownTxs' = m_knownTxs
      BY <2>2, <3>1 DEF blockchainUpdated, pollHeader
    <3>3. QED
      BY <2>1, <3>1, <3>2 DEF Seen
  <2>3. CASE pollInfo /\ notify(heightUpdated, blockchainSync)
    <3>1. m_futureState = idle
      BY <1>0, <2>1, <2>3 DEF notify, setFutureState
    <3>2. QED
      BY <2>1, <2>3, <3>1 DEF pollInfo, Seen
  <2>4. CASE pollPool /\ notify(poolUpdated, poolSync)
    <3>1. ~poolUpdated /\ m_futureState = idle
      BY <1>0, <2>1, <2>4 DEF notify, setFutureState
    <3>2. m_lastKnowHash' = m_lastKnowHash /\ polling = "pool"
      BY <2>4 DEF pollPool
    <3>3. m_lastKnowHash = tip /\ m_knownTxs = pool
      BY <2>1, <3>1, <3>2 DEF poolUpdated, isBcActual, Seen
    <3>4. QED
      BY <2>1, <3>1, <3>3 DEF Seen
  <2>5. QED
    BY <1>2, <2>2, <2>3, <2>4 DEF Poll
<1>3. QED
  BY <1>1, <1>2

\* What onPoolUpdated makes of the pool of the consumer it is called for.
LEMMA FedOne ==
  ASSUME Threads, Agreeing, Feeding, worker = "processPoolTxs"
  PROVE  NextToFeed \in Registered \ answer.fed
<1> DEFINE T == Registered \ answer.fed
<1>1. T \subseteq Nat /\ T # {}
  <2>1. Registered \subseteq Consumers /\ answer.fed \subseteq Registered /\ answer.fed # Registered
    BY DEF Agreeing, Feeding
  <2>2. Consumers \subseteq Nat
    BY ConsumersAssumption DEF Consumers
  <2>3. QED
    BY Zenon, <2>1, <2>2
<1>2. Min(T) \in T /\ \A d \in T : Min(T) <= d
  BY <1>1, LeastOf
<1>3. \E c \in T : \A d \in T : c <= d
  BY <1>2
<1>4. QED
  BY <1>3 DEF NextToFeed

LEMMA Fill ==
  ASSUME NEW U, NEW I, NEW D, NEW S, NEW K, I \subseteq K, K \subseteq U, D = U \ S
  PROVE  (K \cup (S \ I)) \ D = S
OBVIOUS

LEMMA PoolsBetween ==
  ASSUME NEW c \in Registered PROVE poolIntersection \subseteq poolTxs[c] /\ poolTxs[c] \subseteq poolUnion
BY DEF poolIntersection, poolUnion

LEMMA FeedingNext ==
  ASSUME Threads, Lively, Older, Agreeing, Feeding, [Next]_vars
  PROVE  Feeding'
<1> USE DEF idle, poolSync, blockchainSync, stopped
<1>0. m_futureState \in 0 .. 3 /\ m_currentState \in 0 .. 3
  BY DEF Threads, Lively
<1>1. ASSUME UNCHANGED <<worker, answer, lastBlockId, completed, m_consumers, poolTxs>>,
             Seen' => Seen /\ UNCHANGED <<tip, pool>>
      PROVE  Feeding'
  BY Zenon, <1>1 DEF Feeding, UpToDate, Fed, IsFeed, poolUnion, Registered
<1>2. CASE Daemon \/ Poll
  <2>1. UNCHANGED <<worker, answer, lastBlockId, completed, m_consumers, poolTxs>>
    BY <1>2 DEF Daemon, Poll, workerVars, consumerVars
  <2>2. ASSUME Seen' PROVE worker \notin {"none", "finished", "last"} /\ m_currentState # stopped
    <3>1. m_futureState' = idle
      BY <2>2 DEF Seen
    <3>2. m_futureState \in {blockchainSync, stopped} => m_futureState' # idle
      BY <1>2 DEF Daemon, Poll, notify, setFutureState, syncState
    <3>3. QED
      BY <3>1, <3>2 DEF Lively
  <2>3. Seen' => Seen /\ UNCHANGED <<tip, pool>>
    BY <1>2, <2>2, SeenBefore
  <2>4. QED
    BY <1>1, <2>1, <2>3
<1>3. CASE PollFails \/ UNCHANGED vars
  <2>1. UNCHANGED <<worker, answer, lastBlockId, completed, m_consumers, poolTxs>>
    BY <1>3 DEF PollFails, vars, workerVars, consumerVars
  <2>2. UNCHANGED <<tip, pool, m_lastKnowHash, m_knownTxs, m_futureState>>
    BY <1>3 DEF PollFails, pollFails, vars, nodeVars, daemonVars, proxyVars, syncState
  <2>3. QED
    BY <1>1, <2>1, <2>2 DEF Seen
<1>4. CASE Owner
  <2>1. CASE start \/ stop \/ join
    <3>1. (DOMAIN poolTxs' = Consumers /\ worker' # "processPoolTxs") \/ stop
      BY <2>1 DEF start, join, consumerVars, Feeding
    <3>2. m_futureState' # idle
      BY <1>0, <2>1 DEF start, stop, join, setFutureState, syncState, Lively
    <3>3. stop => UNCHANGED <<worker, answer, lastBlockId, completed, m_consumers, poolTxs>>
      BY DEF stop, workerVars, consumerVars
    <3>4. CASE stop
      BY <1>1, <3>2, <3>3, <3>4 DEF Seen
    <3>5. CASE ~stop
      BY <3>1, <3>2, <3>5 DEF Feeding, Seen
    <3>6. QED
      BY <3>4, <3>5
  <2>2. ASSUME NEW c \in Consumers, addConsumer(c) \/ removeConsumer(c) PROVE Feeding'
    <3>1. m_futureState' = stopped /\ m_currentState = stopped /\ worker' = worker
      BY Zenon, <2>2 DEF addConsumer, removeConsumer, IsStopped, syncState, workerVars
    <3>2. worker' # "processPoolTxs"
      BY SMTT(30), <3>1 DEF Lively
    <3>3. DOMAIN poolTxs' = Consumers
      BY <2>2 DEF addConsumer, removeConsumer, Feeding
    <3>4. QED
      BY <3>1, <3>2, <3>3 DEF Feeding, Seen
  <2>3. ASSUME NEW t \in Txs, addUnconfirmedTransaction(t) \/ removeUnconfirmedTransaction(t)
        PROVE  Feeding'
    <3>1. UNCHANGED <<worker, answer, lastBlockId, completed, m_consumers, poolTxs>>
      BY <2>3 DEF addUnconfirmedTransaction, removeUnconfirmedTransaction, workerVars, consumerVars
    <3>2. UNCHANGED <<tip, pool, m_lastKnowHash, m_knownTxs, m_futureState>>
      BY <2>3 DEF addUnconfirmedTransaction, removeUnconfirmedTransaction, nodeVars, daemonVars,
                  proxyVars, syncState
    <3>3. QED
      BY <1>1, <3>1, <3>2 DEF Seen
  <2>4. QED
    BY <1>4, <2>1, <2>2, <2>3 DEF Owner
<1>5. CASE Worker
  <2>1. UNCHANGED <<tip, pool, m_lastKnowHash, m_knownTxs>>
    BY Zenon, <1>5 DEF Worker, checkIfShouldStop, actualizeFutureState, wakeUp, queryBlocksAnswered,
                queryFails, processBlocks, processBlocksFails, processBlocksInterrupted,
                queryUnionAnswered, queryIntersectionAnswered, onPoolUpdated, onPoolUpdatedFails,
                processPoolInterrupted, nodeVars, daemonVars, proxyVars
  <2>2. UNCHANGED m_futureState => (Seen' <=> Seen)
    BY <2>1 DEF Seen
  <2>3. Registered # {} /\ worker # "none"
    BY ZenonT(30), <1>5 DEF Worker, checkIfShouldStop, actualizeFutureState, wakeUp, queryBlocksAnswered,
                queryFails, processBlocks, processBlocksFails, processBlocksInterrupted,
                queryUnionAnswered, queryIntersectionAnswered, onPoolUpdated, onPoolUpdatedFails,
                processPoolInterrupted, Threads
  <2>4. CASE checkIfShouldStop \/ wakeUp
    <3>1. /\ UNCHANGED <<answer, lastBlockId, completed, m_consumers, poolTxs, m_futureState>>
          /\ worker \in {"loop", "waiting"} /\ worker' \in {"loop", "actualize", "last"}
      BY <2>4 DEF checkIfShouldStop, wakeUp, syncState, consumerVars
    <3>2. QED
      BY <2>1, <2>2, <3>1 DEF Feeding, UpToDate, Registered
  <2>5. CASE actualizeFutureState
    <3>1. UNCHANGED <<lastBlockId, completed, m_consumers, poolTxs>> /\ worker \in {"actualize", "last"}
      BY <2>5 DEF actualizeFutureState, consumerVars
    <3>2. worker' \in {"finished", "loop", "queryBlocks", "queryUnion", "waiting"}
      BY <2>5 DEF actualizeFutureState
    <3>3. worker' \in {"loop", "waiting"} => m_futureState' = m_futureState
      BY <2>5 DEF actualizeFutureState
    <3>4. worker = "last" => m_futureState = stopped
      BY DEF Lively
    <3>5. ASSUME Seen' PROVE UpToDate'
      <4>1. CASE worker' \in {"loop", "waiting"}
        <5>1. Seen /\ worker = "actualize"
          BY <2>2, <3>1, <3>3, <3>4, <3>5, <4>1 DEF Seen
        <5>2. QED
          BY <2>1, <3>1, <4>1, <5>1 DEF Feeding, UpToDate, Registered
      <4>2. CASE worker' \notin {"loop", "waiting"}
        BY <3>2, <4>2 DEF UpToDate
      <4>3. QED
        BY SMTT(30), <4>1, <4>2
    <3>6. QED
      BY Zenon, <3>1, <3>2, <3>5 DEF Feeding
  <2>6. CASE queryBlocksAnswered
    BY Zenon, <2>6 DEF queryBlocksAnswered, consumerVars, Feeding, UpToDate
  <2>7. CASE processBlocks
    <3>1. worker = "processBlocks" /\ worker' = "loop" /\ poolTxs' = poolTxs
      BY <2>7 DEF processBlocks, updateConsumers
    <3>2. m_futureState' # idle
      BY <1>0, <2>7, <3>1 DEF processBlocks, setFutureState, Lively
    <3>3. QED
      BY <3>1, <3>2 DEF Feeding, Seen
  <2>8. CASE \/ queryFails \/ processBlocksFails \/ processBlocksInterrupted
             \/ onPoolUpdatedFails \/ processPoolInterrupted
    <3>1. worker' = "loop" /\ completed' \in {"error", "interrupted"}
      BY Zenon, <2>8 DEF queryFails, processBlocksFails, processBlocksInterrupted, onPoolUpdatedFails,
                  processPoolInterrupted, Report
    <3>2. DOMAIN poolTxs' = Consumers
      BY Zenon, <2>8 DEF queryFails, processBlocksFails, processBlocksInterrupted, onPoolUpdatedFails,
                  processPoolInterrupted, updateConsumers, consumerVars, Feeding
    <3>3. QED
      BY Zenon, <3>1, <3>2 DEF Feeding, UpToDate
  <2>9. CASE queryUnionAnswered
    <3>1. UNCHANGED <<lastBlockId, completed, m_consumers, poolTxs>> /\ worker = "queryUnion"
      BY <2>9 DEF queryUnionAnswered, consumerVars
    <3>2. CASE lastBlockId # tip
      <4>1. ~getPoolChanges(lastBlockId, poolUnion).isTailBlockActual
        BY <3>2, Zenon DEF getPoolChanges
      <4>2. blockchainOutdated
        BY <2>9, <4>1 DEF queryUnionAnswered
      <4>3. worker' = "loop" /\ m_futureState' # idle
        BY <1>0, <4>2 DEF blockchainOutdated, setFutureState
      <4>4. QED
        BY Zenon, <3>1, <4>3 DEF Feeding, Seen
    <3>3. CASE lastBlockId = tip
      <4>1. /\ answer' = [added |-> pool \ poolUnion, deleted |-> poolUnion \ pool, fed |-> {}]
            /\ worker' = IF poolUnion = poolIntersection THEN "processPoolTxs"
                         ELSE "queryIntersection"
        BY Zenon, <2>9, <3>3 DEF queryUnionAnswered, getPoolChanges, Feed
      <4>2. poolUnion' = poolUnion /\ Registered' = Registered
        BY <3>1 DEF poolUnion, Registered
      <4>3. ASSUME poolUnion = poolIntersection, NEW c \in Registered
            PROVE  (poolTxs[c] \cup (pool \ poolUnion)) \ (poolUnion \ pool) = pool
        BY <4>3, PoolsBetween, Fill
      <4>4. IsFeed(answer') /\ answer'.fed = {}
        BY <4>1 DEF IsFeed
      <4>5. UpToDate'
        BY Zenon, <2>1, <3>1, <3>3, <4>1, <4>2, <4>3 DEF UpToDate, Fed
      <4>6. QED
        BY <2>3, <3>1, <4>2, <4>4, <4>5 DEF Feeding, IsFeed
    <3>4. QED
      BY <3>2, <3>3

<2>10. CASE queryIntersectionAnswered
    <3>1. /\ UNCHANGED <<lastBlockId, completed, m_consumers, poolTxs>>
          /\ worker = "queryIntersection"
      BY <2>10 DEF queryIntersectionAnswered, consumerVars
    <3>2. CASE lastBlockId # tip
      <4>1. ~getPoolChanges(lastBlockId, poolIntersection).isTailBlockActual
        BY <3>2, Zenon DEF getPoolChanges
      <4>2. blockchainOutdated
        BY <2>10, <4>1 DEF queryIntersectionAnswered
      <4>3. worker' = "loop" /\ m_futureState' # idle
        BY <1>0, <4>2 DEF blockchainOutdated, setFutureState
      <4>4. QED
        BY <3>1, <4>3 DEF Feeding, Seen
    <3>3. CASE lastBlockId = tip
      <4>1. /\ answer' = [added |-> pool \ poolIntersection, deleted |-> answer.deleted, fed |-> {}]
            /\ worker' = "processPoolTxs" /\ UNCHANGED m_futureState
        BY Zenon, <2>10, <3>3 DEF queryIntersectionAnswered, getPoolChanges, Feed
      <4>2. Registered' = Registered
        BY <3>1 DEF Registered
      <4>3. ASSUME Seen, NEW c \in Registered
            PROVE  (poolTxs[c] \cup (pool \ poolIntersection)) \ answer.deleted = pool
        <5>1. answer.deleted = poolUnion \ pool
          BY Zenon, <3>1, <4>3 DEF Feeding, UpToDate
        <5>2. QED
          BY <5>1, PoolsBetween, Fill
      <4>4. IsFeed(answer') /\ answer'.fed = {}
        BY <4>1 DEF IsFeed
      <4>5. Seen' => UpToDate'
        BY Zenon, <2>1, <2>2, <3>1, <3>3, <4>1, <4>2, <4>3 DEF UpToDate, Fed
      <4>6. QED
        BY <2>3, <3>1, <4>2, <4>4, <4>5 DEF Feeding, IsFeed
    <3>4. QED
      BY <3>2, <3>3
  <2>11. CASE onPoolUpdated
    <3> DEFINE c == NextToFeed
    <3>1. /\ worker = "processPoolTxs"
          /\ UNCHANGED <<m_consumers, lastBlockId, m_futureState>>
          /\ poolTxs' = [poolTxs EXCEPT ![c] = (@ \cup answer.added) \ answer.deleted]
      BY <2>11 DEF onPoolUpdated, syncState
    <3>2. c \in Registered /\ c \notin answer.fed
      BY <3>1, FedOne
    <3>3. Registered' = Registered /\ Registered \subseteq Consumers
      BY Zenon, <3>1 DEF Registered, Agreeing
    <3>4. IF answer.fed \cup {c} = Registered THEN worker' = "loop"
          ELSE worker' = "processPoolTxs" /\ answer' = [answer EXCEPT !.fed = @ \cup {c}]
      BY <2>11, <3>1 DEF onPoolUpdated, Report
    <3> HIDE DEF c
    <3>5. DOMAIN poolTxs = Consumers /\ IsFeed(answer) /\ answer.fed \subseteq Registered
      BY <3>1 DEF Feeding
    <3>6. /\ DOMAIN poolTxs' = Consumers
          /\ poolTxs'[c] = (poolTxs[c] \cup answer.added) \ answer.deleted
          /\ \A d \in Registered : d # c => poolTxs'[d] = poolTxs[d]
      BY <3>1, <3>2, <3>3, <3>5
    <3>7. ASSUME Seen'
          PROVE  /\ lastBlockId = tip /\ poolTxs'[c] = pool
                 /\ \A d \in answer.fed : poolTxs'[d] = pool
                 /\ \A d \in Registered \ (answer.fed \cup {c}) :
                      (poolTxs'[d] \cup answer.added) \ answer.deleted = pool
      <4>1. lastBlockId = tip /\ Fed(answer, pool)
        BY <2>2, <3>1, <3>7 DEF Feeding, UpToDate
      <4>2. QED
        BY <3>2, <3>5, <3>6, <4>1 DEF Fed
    <3>8. CASE answer.fed \cup {c} = Registered
      <4>1. Seen' => UpToDate'
        BY <2>1, <3>1, <3>3, <3>4, <3>7, <3>8 DEF UpToDate
      <4>2. QED
        BY <3>4, <3>6, <3>8, <4>1 DEF Feeding
    <3>9. CASE answer.fed \cup {c} # Registered
      <4>1. answer' = [added |-> answer.added, deleted |-> answer.deleted, fed |-> answer.fed \cup {c}]
        BY <3>4, <3>5, <3>9 DEF IsFeed
      <4>2. Seen' => Fed(answer, pool)'
        BY Zenon, <2>1, <3>3, <3>7, <4>1 DEF Fed
      <4>3. Seen' => UpToDate'
        BY <2>1, <3>1, <3>4, <3>7, <3>9, <4>2 DEF UpToDate
      <4>4. IsFeed(answer') /\ answer'.fed = answer.fed \cup {c}
        BY Zenon, <4>1 DEF IsFeed
      <4>5. QED
        BY <3>2, <3>3, <3>5, <3>6, <3>9, <4>3, <4>4 DEF Feeding, IsFeed
    <3>10. QED
      BY <3>8, <3>9
  <2>12. QED
    BY <1>5, <2>4, <2>5, <2>6, <2>7, <2>8, <2>9, <2>10, <2>11 DEF Worker
<1>6. QED
  BY <1>2, <1>3, <1>4, <1>5 DEF Next

\* When the worker waits after a successful synchronization and the proxy has seen
\* the daemon's tip and pool, every consumer has the daemon's main chain and knows
\* its pool: a notification of the proxy (localBlockchainUpdated, poolChanged) that
\* comes at any time during the queries leads the worker back to them.  As for the
\* histories, for at most two consumers.
THEOREM NothingSleptThrough ==
  ASSUME NConsumers <= 2
  PROVE  Spec => []WaitingMeansSynchronized
<1> DEFINE Inv == /\ Threads /\ Agreeing /\ Asked
                  /\ Older /\ Lively /\ Caught /\ Feeding
<1>1. Init => Inv
  BY ThreadsInit, AgreeingInit, OlderInit, LivelyInit, CaughtInit, FeedingInit
<1>2. Inv /\ [Next]_vars => Inv'
  BY ThreadsNext, AgreeingNext, AskedNext, OlderNext, LivelyNext, CaughtNext, FeedingNext
<1>3. Inv => WaitingMeansSynchronized
  <2> SUFFICES ASSUME Inv, Waiting, completed = "ok", ~blocksMissed, m_lastKnowHash = tip,
                      m_knownTxs = pool, NEW c \in Registered
               PROVE  m_consumers[c] = path[tip] /\ poolTxs[c] = pool
    BY Zenon DEF WaitingMeansSynchronized
  <2>1. lastBlockId = tip /\ poolTxs[c] = pool
    BY DEF Feeding, Seen, UpToDate, Waiting
  <2>2. Fetched
    BY DEF Fetched, Waiting, Lively, idle, stopped
  <2>3. Begins(path[tip], m_consumers[c])
    BY <2>1, <2>2 DEF Caught
  <2>4. IsChain(m_consumers[c]) /\ HadAt(tip, m_consumers[c]) /\ tip \in Blocks
    BY Zenon DEF Agreeing, Older, Threads
  <2>5. QED
    BY Zenon, <2>1, <2>3, <2>4, HadAll
<1>4. QED
  BY <1>1, <1>2, <1>3, PTL DEF Spec
=============================================================================
