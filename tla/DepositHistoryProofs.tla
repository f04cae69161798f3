------------------------ MODULE DepositHistoryProofs ------------------------
(***************************************************************************)
(* The deposit index answers every query with the history of the chain,    *)
(* for any amounts, any number of blocks, and any order of pushes and      *)
(* pops.  The lemmas are about a vector of entries d and a history t.      *)
(***************************************************************************)
EXTENDS DepositHistory, TLAPS

Zero == [amount |-> 0, interest |-> 0]
ValueOf(e) == [amount |-> e.amount, interest |-> e.interest]
Value(d, i) == IF i = 0 THEN Zero ELSE ValueOf(d[i])
Prior(t, h) == IF h = 0 THEN Zero ELSE t[h]

\* Entry i is the one in force at height h; 0 stands for no entry.
InForce(d, i, h) ==
  /\ i > 0 => d[i].height <= h
  /\ i < Len(d) => d[i + 1].height > h

Ordered(d) == \A i, j \in 1 .. Len(d) : i < j => d[i].height < d[j].height
Agree(d, t) ==
  \A i \in 1 .. Len(d) :
    d[i].height < Len(t) /\ t[d[i].height + 1] = ValueOf(d[i])
Changes(d, t) ==
  \A h \in 0 .. Len(t) - 1 :
    (t[h + 1] # Prior(t, h)) <=> \E i \in 1 .. Len(d) : d[i].height = h

\* The strengthening: every height has an entry in force, with its total.
Covers(d, t) ==
  \A h \in 0 .. Len(t) - 1 :
    \E i \in 0 .. Len(d) : InForce(d, i, h) /\ t[h + 1] = Value(d, i)

Fits(d, t) == Ordered(d) /\ Agree(d, t) /\ Changes(d, t) /\ Covers(d, t)

IInv == TypeOK /\ Fits(m_depositIndex.index, totals)

-----------------------------------------------------------------------------
LEMMA EntryShape ==
  ASSUME NEW d \in Seq(DepositIndexEntry)
  PROVE  /\ Len(d) \in Nat /\ DOMAIN d = 1 .. Len(d)
         /\ \A i \in 1 .. Len(d) : /\ d[i] \in DepositIndexEntry /\ d[i].height \in Nat
                                   /\ ValueOf(d[i]) \in Total
<1>1. Len(d) \in Nat /\ DOMAIN d = 1 .. Len(d)
  OBVIOUS
<1>2. \A i \in 1 .. Len(d) : d[i] \in DepositIndexEntry
  OBVIOUS
<1>3. \A e \in DepositIndexEntry : e.height \in Nat /\ ValueOf(e) \in Total
  BY DEF DepositIndexEntry, ValueOf, Total
<1> QED BY <1>1, <1>2, <1>3

\* What the vector and the history are, as far as TypeOK tells.
LEMMA Shape ==
  ASSUME TypeOK
  PROVE  /\ m_depositIndex.index \in Seq(DepositIndexEntry)
         /\ totals \in Seq(Total)
         /\ Len(totals) \in Nat /\ m_depositIndex.blockCount = Len(totals)
BY DEF TypeOK

\* upperBound returns the position after the entry in force.
LEMMA UpperBoundInForce ==
  ASSUME NEW x, x.index \in Seq(DepositIndexEntry), Ordered(x.index), NEW h \in Nat,
         NEW i \in 0 .. Len(x.index), InForce(x.index, i, h)
  PROVE  upperBound(x, h) = i + 1
<1>1. PICK d : d = x.index
  OBVIOUS
<1> DEFINE P(k) == /\ \A j \in 1 .. k - 1 : d[j].height <= h
                   /\ k <= Len(d) => d[k].height > h
<1>2. Len(d) \in Nat /\ (\A j \in 1 .. Len(d) : d[j].height \in Nat) /\ i \in 0 .. Len(d)
  BY <1>1, EntryShape
<1>3. i + 1 \in 1 .. Len(d) + 1 /\ P(i + 1)
  <2>1. \A j \in 1 .. i : d[j].height <= h
    <3> TAKE j \in 1 .. i
    <3>1. i \in 1 .. Len(d) /\ j \in 1 .. Len(d) /\ d[i].height <= h
      BY <1>1, <1>2 DEF InForce
    <3>2. j = i \/ d[j].height < d[i].height
      BY <3>1, <1>1, <1>2 DEF Ordered
    <3> QED BY <3>1, <3>2, <1>2
  <2>2. i + 1 <= Len(d) => d[i + 1].height > h
    BY <1>1, <1>2 DEF InForce
  <2> QED BY <1>2, <2>1, <2>2
<1>4. \A k \in 1 .. Len(d) + 1 : P(k) => k = i + 1
  <2> SUFFICES ASSUME NEW k \in 1 .. Len(d) + 1, P(k) PROVE k = i + 1
    OBVIOUS
  <2>1. ~(k < i + 1)
    <3> SUFFICES ASSUME k < i + 1 PROVE FALSE
      OBVIOUS
    <3>1. k \in 1 .. Len(d) /\ i \in 1 .. Len(d) /\ d[k].height > h /\ d[i].height <= h
      BY <1>1, <1>2 DEF InForce
    <3>2. k = i \/ d[k].height < d[i].height
      BY <3>1, <1>1, <1>2 DEF Ordered
    <3> QED BY <3>1, <3>2, <1>2
  <2>2. ~(k > i + 1)
    <3> SUFFICES ASSUME k > i + 1 PROVE FALSE
      OBVIOUS
    <3>1. i + 1 \in 1 .. k - 1 /\ i < Len(d)
      BY <1>2
    <3>2. d[i + 1].height <= h /\ d[i + 1].height > h
      BY <3>1, <1>1 DEF InForce
    <3> QED BY SMTT(30), <3>1, <3>2, <1>2
  <2> QED BY <1>2, <2>1, <2>2
<1>5. upperBound(x, h) = CHOOSE k \in 1 .. Len(d) + 1 : P(k)
  BY <1>1 DEF upperBound
<1> HIDE DEF P
<1> QED BY <1>3, <1>4, <1>5

\* Above the chain the last entry is in force.
LEMMA LastInForce ==
  ASSUME NEW d \in Seq(DepositIndexEntry), NEW t \in Seq(Total), Agree(d, t),
         NEW h \in Nat, h >= Len(t) - 1
  PROVE  InForce(d, Len(d), h)
<1>1. Len(d) \in Nat /\ Len(t) \in Nat /\ \A j \in 1 .. Len(d) : d[j].height \in Nat
  BY EntryShape
<1> QED BY <1>1 DEF InForce, Agree

\* The last entry holds the last total.
LEMMA LastValue ==
  ASSUME NEW d \in Seq(DepositIndexEntry), NEW t \in Seq(Total), Fits(d, t)
  PROVE  Prior(t, Len(t)) = Value(d, Len(d))
<1>1. Len(d) \in Nat /\ Len(t) \in Nat /\ \A j \in 1 .. Len(d) : d[j].height \in Nat
  BY EntryShape
<1>2. CASE Len(t) = 0
  <2>1. Len(d) = 0
    <3> SUFFICES ASSUME Len(d) > 0 PROVE FALSE
      BY <1>1
    <3>1. d[1].height < 0 /\ d[1].height \in Nat
      BY <1>1, <1>2 DEF Fits, Agree
    <3> QED BY <3>1
  <2> QED BY <1>2, <2>1 DEF Prior, Value
<1>3. CASE Len(t) > 0
  <2>1. PICK i \in 0 .. Len(d) : InForce(d, i, Len(t) - 1) /\ t[Len(t)] = Value(d, i)
    <3>1. Len(t) - 1 \in 0 .. Len(t) - 1 /\ (Len(t) - 1) + 1 = Len(t)
      BY <1>1, <1>3
    <3>2. \E i \in 0 .. Len(d) : /\ InForce(d, i, Len(t) - 1)
                                 /\ t[(Len(t) - 1) + 1] = Value(d, i)
      BY <3>1, Zenon DEF Fits, Covers
    <3> QED BY <3>1, <3>2
  <2>2. i = Len(d)
    <3> SUFFICES ASSUME i < Len(d) PROVE FALSE
      BY <1>1
    <3>1. d[i + 1].height > Len(t) - 1 /\ d[i + 1].height < Len(t) /\ d[i + 1].height \in Nat
      BY <2>1, <1>1 DEF InForce, Fits, Agree
    <3> QED BY <3>1, <1>1
  <2> QED BY <2>1, <2>2, <1>3, <1>1 DEF Prior
<1> QED BY <1>1, <1>2, <1>3

-----------------------------------------------------------------------------
\* Dropping the blocks from height n on together with their entries.
LEMMA CutFits ==
  ASSUME NEW d \in Seq(DepositIndexEntry), NEW t \in Seq(Total), Fits(d, t),
         NEW n \in 0 .. Len(t), NEW k \in 0 .. Len(d),
         \A i \in 1 .. k : d[i].height < n,
         \A i \in k + 1 .. Len(d) : d[i].height >= n
  PROVE  Fits(SubSeq(d, 1, k), SubSeq(t, 1, n))
<1>1. PICK e, u : e = SubSeq(d, 1, k) /\ u = SubSeq(t, 1, n)
  BY Zenon
<1>2. Len(d) \in Nat /\ Len(t) \in Nat /\ \A j \in 1 .. Len(d) : d[j].height \in Nat
  BY EntryShape
<1>3. Len(e) = k /\ \A i \in 1 .. k : e[i] = d[i]
  BY <1>1, <1>2
<1>4. Len(u) = n /\ \A h \in 1 .. n : u[h] = t[h]
  BY <1>1, <1>2
<1>5. Ordered(e)
  BY SMTT(30), <1>2, <1>3 DEF Fits, Ordered
<1>6. Agree(e, u)
  <2> SUFFICES ASSUME NEW i \in 1 .. k PROVE d[i].height < n /\ u[d[i].height + 1] = ValueOf(d[i])
    BY <1>3, <1>4 DEF Agree
  <2>1. i \in 1 .. Len(d) /\ d[i].height \in Nat /\ d[i].height + 1 \in 1 .. n
    BY <1>2
  <2> QED BY <2>1, <1>4, <1>2 DEF Fits, Agree
<1>7. Changes(e, u)
  <2> SUFFICES ASSUME NEW h \in 0 .. n - 1
               PROVE  (u[h + 1] # Prior(u, h)) <=> \E i \in 1 .. k : e[i].height = h
    BY <1>3, <1>4 DEF Changes
  <2>1. u[h + 1] = t[h + 1] /\ Prior(u, h) = Prior(t, h)
    BY <1>4 DEF Prior
  <2>2. (t[h + 1] # Prior(t, h)) <=> \E i \in 1 .. Len(d) : d[i].height = h
    BY <1>2 DEF Fits, Changes
  <2>3. (\E i \in 1 .. Len(d) : d[i].height = h) <=> \E i \in 1 .. k : e[i].height = h
    BY SMTT(30), <1>2, <1>3
  <2> QED BY <2>1, <2>2, <2>3
<1>8. Covers(e, u)
  <2> SUFFICES ASSUME NEW h \in 0 .. n - 1
               PROVE  \E i \in 0 .. k : InForce(e, i, h) /\ u[h + 1] = Value(e, i)
    BY <1>3, <1>4 DEF Covers
  <2>1. PICK i \in 0 .. Len(d) : InForce(d, i, h) /\ t[h + 1] = Value(d, i)
    <3>1. h \in 0 .. Len(t) - 1
      BY <1>2
    <3> QED BY <3>1, Zenon DEF Fits, Covers
  <2>2. i \in 0 .. k
    <3> SUFFICES ASSUME i > k PROVE FALSE
      BY <1>2
    <3>1. d[i].height >= n /\ d[i].height <= h /\ d[i].height \in Nat
      BY <2>1, <1>2 DEF InForce
    <3> QED BY <3>1, <1>2
  <2>3. InForce(e, i, h)
    BY <2>1, <2>2, <1>2, <1>3 DEF InForce
  <2>4. u[h + 1] = Value(e, i)
    BY <2>1, <2>2, <1>3, <1>4 DEF Value
  <2> QED BY <2>2, <2>3, <2>4
<1> QED BY <1>1, <1>5, <1>6, <1>7, <1>8 DEF Fits

\* A block that changes nothing adds no entry.
LEMMA IdleFits ==
  ASSUME NEW d \in Seq(DepositIndexEntry), NEW t \in Seq(Total), Fits(d, t)
  PROVE  Fits(d, Append(t, Prior(t, Len(t))))
<1>1. PICK u, n : u = Append(t, Prior(t, Len(t))) /\ n = Len(t)
  BY Zenon
<1>2. Len(d) \in Nat /\ n \in Nat /\ \A j \in 1 .. Len(d) : d[j].height \in Nat
  BY <1>1, EntryShape
<1>3. Len(u) = n + 1 /\ (\A h \in 1 .. n : u[h] = t[h]) /\ u[n + 1] = Prior(t, n)
  BY <1>1
<1>4. \A h \in 0 .. n : Prior(u, h) = Prior(t, h)
  BY <1>3 DEF Prior
<1>5. Agree(d, u)
  <2> SUFFICES ASSUME NEW i \in 1 .. Len(d)
               PROVE  d[i].height < n + 1 /\ u[d[i].height + 1] = ValueOf(d[i])
    BY <1>3 DEF Agree
  <2>1. d[i].height < n /\ t[d[i].height + 1] = ValueOf(d[i]) /\ d[i].height \in Nat
    BY <1>1, <1>2 DEF Fits, Agree
  <2> QED BY SMTT(30), <2>1, <1>2, <1>3
<1>6. Changes(d, u)
  <2> SUFFICES ASSUME NEW h \in 0 .. n
               PROVE  (u[h + 1] # Prior(u, h)) <=> \E i \in 1 .. Len(d) : d[i].height = h
    BY <1>2, <1>3 DEF Changes
  <2>1. CASE h = n
    BY <2>1, <1>1, <1>2, <1>3, <1>4 DEF Fits, Agree
  <2>2. CASE h < n
    <3>1. (t[h + 1] # Prior(t, h)) <=> \E i \in 1 .. Len(d) : d[i].height = h
      BY <2>2, <1>1, <1>2 DEF Fits, Changes
    <3>2. u[h + 1] = t[h + 1] /\ Prior(u, h) = Prior(t, h)
      BY <2>2, <1>2, <1>3, <1>4
    <3> QED BY <3>1, <3>2
  <2> QED BY <2>1, <2>2, <1>2
<1>7. Covers(d, u)
  <2>0. 0 .. Len(u) - 1 = 0 .. n
    BY <1>2, <1>3
  <2> SUFFICES ASSUME NEW h \in 0 .. n
               PROVE  \E i \in 0 .. Len(d) : InForce(d, i, h) /\ u[h + 1] = Value(d, i)
    BY <2>0, Zenon DEF Covers
  <2>1. CASE h = n
    <3>1. InForce(d, Len(d), n)
      BY <1>1, <1>2, LastInForce DEF Fits
    <3>2. u[h + 1] = Value(d, Len(d))
      BY <2>1, <1>1, <1>3, LastValue
    <3> QED BY <3>1, <3>2, <2>1, <1>2
  <2>2. CASE h < n
    <3>1. PICK i \in 0 .. Len(d) : InForce(d, i, h) /\ t[h + 1] = Value(d, i)
      <4>1. h \in 0 .. Len(t) - 1
        BY <2>2, <1>1, <1>2
      <4> QED BY <4>1, Zenon DEF Fits, Covers
    <3> QED BY <3>1, <2>2, <1>2, <1>3
  <2> QED BY <2>1, <2>2, <1>2
<1> QED BY <1>1, <1>5, <1>6, <1>7 DEF Fits

\* A block that changes a total adds one entry, at the top.
LEMMA EntryFits ==
  ASSUME NEW d \in Seq(DepositIndexEntry), NEW t \in Seq(Total), Fits(d, t),
         NEW new \in DepositIndexEntry, new.height = Len(t),
         ValueOf(new) # Prior(t, Len(t))
  PROVE  Fits(Append(d, new), Append(t, ValueOf(new)))
<1>1. PICK e, u, m, n : /\ e = Append(d, new) /\ u = Append(t, ValueOf(new))
                        /\ m = Len(d) /\ n = Len(t)
  BY Zenon
<1>2. m \in Nat /\ n \in Nat /\ \A j \in 1 .. m : d[j].height \in Nat
  BY <1>1, EntryShape
<1>3. Len(u) = n + 1 /\ (\A h \in 1 .. n : u[h] = t[h]) /\ u[n + 1] = ValueOf(new)
  BY <1>1, <1>2
<1>4. Len(e) = m + 1 /\ (\A i \in 1 .. m : e[i] = d[i]) /\ e[m + 1] = new
  BY <1>1, <1>2
<1>5. \A h \in 0 .. n : Prior(u, h) = Prior(t, h)
  BY <1>3 DEF Prior
<1>6. \A i \in 1 .. m : d[i].height < n /\ t[d[i].height + 1] = ValueOf(d[i])
  BY <1>1 DEF Fits, Agree
<1>7. Ordered(e)
  <2> SUFFICES ASSUME NEW i \in 1 .. m + 1, NEW j \in 1 .. m + 1, i < j
               PROVE  e[i].height < e[j].height
    BY <1>4 DEF Ordered
  <2>1. i \in 1 .. m
    BY <1>2
  <2>2. CASE j = m + 1
    BY <2>1, <2>2, <1>1, <1>4, <1>6
  <2>3. CASE j \in 1 .. m
    BY <2>1, <2>3, <1>1, <1>4 DEF Fits, Ordered
  <2> QED BY <2>2, <2>3, <1>2
<1>8. Agree(e, u)
  <2> SUFFICES ASSUME NEW i \in 1 .. m + 1
               PROVE  e[i].height < n + 1 /\ u[e[i].height + 1] = ValueOf(e[i])
    BY <1>3, <1>4 DEF Agree
  <2>1. CASE i = m + 1
    BY <2>1, <1>1, <1>2, <1>3, <1>4
  <2>2. CASE i \in 1 .. m
    <3>1. /\ e[i] = d[i] /\ d[i].height \in Nat /\ d[i].height < n
          /\ t[d[i].height + 1] = ValueOf(d[i])
      BY <2>2, <1>2, <1>4, <1>6
    <3>2. d[i].height + 1 \in 1 .. n
      BY <3>1, <1>2
    <3> QED BY SMTT(30), <3>1, <3>2, <1>2, <1>3
  <2> QED BY <2>1, <2>2, <1>2
<1>9. Changes(e, u)
  <2> SUFFICES ASSUME NEW h \in 0 .. n
               PROVE  (u[h + 1] # Prior(u, h)) <=> \E i \in 1 .. m + 1 : e[i].height = h
    BY <1>2, <1>3, <1>4 DEF Changes
  <2>1. CASE h = n
    <3>1. u[h + 1] # Prior(u, h)
      BY <2>1, <1>1, <1>2, <1>3, <1>5
    <3>2. m + 1 \in 1 .. m + 1 /\ e[m + 1].height = h
      BY <2>1, <1>1, <1>2, <1>4
    <3> QED BY <3>1, <3>2
  <2>2. CASE h < n
    <3>1. (t[h + 1] # Prior(t, h)) <=> \E i \in 1 .. m : d[i].height = h
      BY <2>2, <1>1, <1>2 DEF Fits, Changes
    <3>2. (\E i \in 1 .. m : d[i].height = h) <=> \E i \in 1 .. m + 1 : e[i].height = h
      BY <2>2, <1>1, <1>2, <1>4
    <3> QED BY <3>1, <3>2, <2>2, <1>2, <1>3, <1>5
  <2> QED BY <2>1, <2>2, <1>2
<1>10. Covers(e, u)
  <2> SUFFICES ASSUME NEW h \in 0 .. n
               PROVE  \E i \in 0 .. m + 1 : InForce(e, i, h) /\ u[h + 1] = Value(e, i)
    <3>1. Len(e) = m + 1 /\ Len(u) - 1 = n
      BY <1>2, <1>3, <1>4
    <3> QED BY <3>1, Zenon DEF Covers
  <2>1. CASE h = n
    <3>1. InForce(e, m + 1, h)
      BY <2>1, <1>1, <1>2, <1>4 DEF InForce
    <3>2. u[h + 1] = Value(e, m + 1)
      BY <2>1, <1>2, <1>3, <1>4 DEF Value
    <3> QED BY <3>1, <3>2, <1>2
  <2>2. CASE h < n
    <3>1. PICK i \in 0 .. m : InForce(d, i, h) /\ t[h + 1] = Value(d, i)
      <4>1. h \in 0 .. Len(t) - 1
        BY <2>2, <1>1, <1>2
      <4> QED BY <4>1, <1>1, Zenon DEF Fits, Covers
    <3>2. InForce(e, i, h)
      <4>1. i > 0 => e[i].height <= h
        BY <3>1, <1>2, <1>4 DEF InForce
      <4>2. CASE i = m
        BY <4>1, <4>2, <2>2, <1>1, <1>2, <1>4 DEF InForce
      <4>3. CASE i < m
        BY <4>1, <4>3, <3>1, <1>1, <1>2, <1>4 DEF InForce
      <4> QED BY <4>2, <4>3, <1>2
    <3>3. u[h + 1] = Value(e, i)
      BY <3>1, <2>2, <1>2, <1>3, <1>4 DEF Value
    <3> QED BY <3>2, <3>3, <1>2
  <2> QED BY <2>1, <2>2, <1>2
<1> QED BY <1>1, <1>7, <1>8, <1>9, <1>10 DEF Fits

-----------------------------------------------------------------------------
LEMMA FullIsLast ==
  ASSUME IInv
  PROVE  /\ LastTotal = Prior(totals, Len(totals)) /\ LastTotal \in Total
         /\ LastTotal = [amount |-> fullDepositAmount(m_depositIndex),
                         interest |-> fullInterestAmount(m_depositIndex)]
<1>1. PICK d, t : d = m_depositIndex.index /\ t = totals
  OBVIOUS
<1>2. d \in Seq(DepositIndexEntry) /\ t \in Seq(Total) /\ Len(d) \in Nat /\ Len(t) \in Nat
  BY <1>1, Shape, EntryShape DEF IInv
<1>3. Prior(t, Len(t)) = Value(d, Len(d))
  BY <1>1, <1>2, LastValue DEF IInv
<1>4. LastTotal = Prior(t, Len(t))
  BY <1>1, <1>2 DEF LastTotal, Prior, Zero
<1>5. Value(d, Len(d)) = [amount |-> fullDepositAmount(m_depositIndex),
                          interest |-> fullInterestAmount(m_depositIndex)]
  BY <1>1, <1>2 DEF Value, ValueOf, Zero, fullDepositAmount, fullInterestAmount
<1>6. LastTotal \in Total
  <2>1. CASE t = << >>
    BY <1>1, <2>1 DEF LastTotal, Total
  <2>2. CASE t # << >>
    <3>1. Len(t) \in 1 .. Len(t)
      BY <1>2, <2>2
    <3> QED BY <1>1, <1>2, <2>2, <3>1 DEF LastTotal
  <2> QED BY <2>1, <2>2
<1> QED BY <1>1, <1>3, <1>4, <1>5, <1>6

LEMMA InitIInv == Init => IInv
BY DEF Init, IInv, TypeOK, NewDepositIndex, Fits, Ordered, Agree, Changes, Covers

LEMMA PushPreserves ==
  ASSUME IInv, NEW a \in Amounts, NEW c \in Interests, Push(a, c)
  PROVE  IInv'
<1>1. PICK d, t, n : d = m_depositIndex.index /\ t = totals /\ n = Len(totals)
  BY Zenon
<1>2. /\ d \in Seq(DepositIndexEntry) /\ t \in Seq(Total) /\ n \in Nat
      /\ m_depositIndex.blockCount = n /\ Fits(d, t)
  BY <1>1, Shape DEF IInv
<1>3. PICK x, y : x = LastTotal.amount /\ y = LastTotal.interest
  OBVIOUS
<1>4. /\ x \in Int /\ y \in Nat /\ a \in Int /\ c \in Nat
      /\ Prior(t, n) = [amount |-> x, interest |-> y]
      /\ fullDepositAmount(m_depositIndex) = x
      /\ fullInterestAmount(m_depositIndex) = y
  <2>1. LastTotal \in Total /\ LastTotal = Prior(t, n)
    BY FullIsLast, <1>1
  <2>2. /\ fullDepositAmount(m_depositIndex) = x
        /\ fullInterestAmount(m_depositIndex) = y
    BY FullIsLast, <1>3
  <2>3. x \in Int /\ y \in Nat /\ LastTotal = [amount |-> x, interest |-> y]
    BY <2>1, <1>3 DEF Total
  <2> QED BY <2>1, <2>2, <2>3, AmountsAssumption
<1>5. PICK new : new = [height |-> n, amount |-> a + x, interest |-> c + y]
  BY Zenon
<1>6. /\ new \in DepositIndexEntry /\ new.height = n
      /\ ValueOf(new) = [amount |-> x + a, interest |-> y + c]
      /\ ValueOf(new) \in Total
  BY <1>2, <1>4, <1>5 DEF DepositIndexEntry, ValueOf, Total
<1>7. totals' = Append(t, ValueOf(new))
  BY <1>1, <1>3, <1>6 DEF Push
<1>8. CASE a # 0 \/ c > 0
  <2>1. m_depositIndex' = [index |-> Append(d, new), blockCount |-> n + 1]
    BY Zenon, <1>1, <1>2, <1>4, <1>5, <1>8 DEF Push, pushBlock
  <2>2. ValueOf(new) # Prior(t, n)
    BY <1>4, <1>6, <1>8
  <2>3. Fits(Append(d, new), Append(t, ValueOf(new)))
    BY <1>1, <1>2, <1>6, <2>2, EntryFits
  <2>4. TypeOK'
    BY <1>1, <1>2, <1>6, <1>7, <2>1 DEF TypeOK
  <2> QED BY <1>7, <2>1, <2>3, <2>4 DEF IInv
<1>9. CASE ~(a # 0 \/ c > 0)
  <2>1. m_depositIndex' = [index |-> d, blockCount |-> n + 1]
    BY <1>1, <1>2, <1>9 DEF Push, pushBlock
  <2>2. ValueOf(new) = Prior(t, n)
    BY <1>4, <1>6, <1>9
  <2>3. Fits(d, Append(t, ValueOf(new)))
    BY <1>1, <1>2, <2>2, IdleFits
  <2>4. TypeOK'
    BY <1>1, <1>2, <1>6, <1>7, <2>1 DEF TypeOK
  <2> QED BY <1>7, <2>1, <2>3, <2>4 DEF IInv
<1> QED BY <1>8, <1>9

\* What Pop and PopBlocks have in common.
LEMMA CutPreserves ==
  ASSUME IInv, NEW n \in 0 .. Len(totals), NEW k \in 0 .. Len(m_depositIndex.index),
         \A i \in 1 .. k : m_depositIndex.index[i].height < n,
         \A i \in k + 1 .. Len(m_depositIndex.index) : m_depositIndex.index[i].height >= n,
         m_depositIndex' = [index |-> SubSeq(m_depositIndex.index, 1, k), blockCount |-> n],
         totals' = SubSeq(totals, 1, n)
  PROVE  IInv'
<1>1. PICK d, t : d = m_depositIndex.index /\ t = totals
  OBVIOUS
<1>2. /\ d \in Seq(DepositIndexEntry) /\ t \in Seq(Total) /\ Fits(d, t)
      /\ Len(d) \in Nat /\ Len(t) \in Nat
  BY <1>1, Shape, EntryShape DEF IInv
<1>3. Fits(SubSeq(d, 1, k), SubSeq(t, 1, n))
  BY Zenon, <1>1, <1>2, CutFits
<1>4. /\ SubSeq(d, 1, k) \in Seq(DepositIndexEntry) /\ SubSeq(t, 1, n) \in Seq(Total)
      /\ Len(SubSeq(t, 1, n)) = n /\ n \in Nat
  BY <1>1, <1>2
<1>5. TypeOK'
  BY <1>1, <1>4 DEF TypeOK
<1> QED BY <1>1, <1>3, <1>5 DEF IInv

LEMMA PopPreserves == ASSUME IInv, Pop PROVE IInv'
<1>1. PICK d, n, m : d = m_depositIndex.index /\ n = Len(totals) /\ m = Len(d)
  BY Zenon
<1>2. /\ d \in Seq(DepositIndexEntry) /\ n \in Nat /\ m \in Nat /\ n > 0
      /\ m_depositIndex.blockCount = n /\ Fits(d, totals)
      /\ \A i \in 1 .. m : d[i].height \in Nat /\ d[i].height < n
      /\ \A i, j \in 1 .. m : i < j => d[i].height < d[j].height
  <2>1. /\ d \in Seq(DepositIndexEntry) /\ n \in Nat /\ n > 0
        /\ m_depositIndex.blockCount = n /\ Fits(d, totals)
    BY <1>1, Shape DEF IInv, Pop
  <2>2. m \in Nat /\ \A i \in 1 .. m : d[i].height \in Nat
    BY <2>1, <1>1, EntryShape
  <2> QED BY <2>1, <2>2, <1>1 DEF Fits, Agree, Ordered
<1>3. totals' = SubSeq(totals, 1, n - 1)
  BY <1>1 DEF Pop
<1>4. CASE d # << >> /\ d[m].height = n - 1
  <2>1. m_depositIndex' = [index |-> SubSeq(d, 1, m - 1), blockCount |-> n - 1]
    BY <1>1, <1>2, <1>4 DEF Pop, popBlock
  <2>2. m > 0
    BY <1>1, <1>2, <1>4
  <2>3. n - 1 \in 0 .. n /\ m - 1 \in 0 .. m
    BY <1>2, <2>2
  <2>4. \A i \in 1 .. m - 1 : d[i].height < n - 1
    BY <1>2, <1>4, <2>2
  <2>5. \A i \in (m - 1) + 1 .. m : d[i].height >= n - 1
    <3> TAKE i \in (m - 1) + 1 .. m
    <3>1. i = m
      BY <1>2
    <3> QED BY <3>1, <1>4, <1>2, <2>2
  <2> QED BY Zenon, <1>1, <1>3, <2>1, <2>3, <2>4, <2>5, CutPreserves
<1>5. CASE ~(d # << >> /\ d[m].height = n - 1)
  <2>1. m_depositIndex' = [index |-> d, blockCount |-> n - 1]
    BY <1>1, <1>2, <1>5 DEF Pop, popBlock
  <2>2. d = SubSeq(d, 1, m)
    BY <1>1, <1>2
  <2>3. \A i \in 1 .. m : d[i].height < n - 1
    <3> TAKE i \in 1 .. m
    <3>1. m > 0 /\ d # << >>
      BY <1>1, <1>2
    <3>2. m \in 1 .. m /\ d[m].height < n - 1
      BY <3>1, <1>2, <1>5
    <3>3. i = m \/ d[i].height < d[m].height
      BY <3>2, <1>2
    <3> QED BY <3>2, <3>3, <1>2
  <2>4. \A i \in m + 1 .. m : d[i].height >= n - 1
    BY <1>2
  <2>5. n - 1 \in 0 .. n /\ m \in 0 .. m
    BY <1>2
  <2> QED BY Zenon, <1>1, <1>3, <2>1, <2>2, <2>3, <2>4, <2>5, CutPreserves
<1> QED BY <1>4, <1>5

LEMMA PopBlocksPreserves ==
  ASSUME IInv, NEW from \in Nat, PopBlocks(from)
  PROVE  IInv'
<1>1. PICK d, n, m : d = m_depositIndex.index /\ n = Len(totals) /\ m = Len(d)
  BY Zenon
<1>2. /\ d \in Seq(DepositIndexEntry) /\ n \in Nat /\ m \in Nat
      /\ m_depositIndex.blockCount = n /\ Fits(d, totals)
      /\ \A i \in 1 .. m : d[i].height \in Nat
  BY <1>1, Shape, EntryShape DEF IInv
<1>3. CASE from >= n
  <2>1. m_depositIndex' = m_depositIndex /\ totals' = totals
    BY <1>1, <1>2, <1>3 DEF PopBlocks, popBlocks
  <2> QED BY <2>1 DEF IInv, TypeOK
<1>4. CASE from < n
  <2>1. PICK i \in 0 .. m : InForce(d, i, from)
    BY <1>1, <1>2, <1>4 DEF Fits, Covers
  <2>2. upperBound(m_depositIndex, from) = i + 1
    BY <1>1, <1>2, <2>1, UpperBoundInForce DEF Fits
  <2>3. PICK k : k = IF i > 0 /\ d[i].height = from THEN i - 1 ELSE i
    OBVIOUS
  <2>4. k \in 0 .. m /\ from \in 0 .. n
    BY <2>3, <1>2, <1>4
  <2>5. m_depositIndex' = [index |-> SubSeq(d, 1, k), blockCount |-> from]
    BY <1>1, <1>2, <1>4, <2>2, <2>3 DEF PopBlocks, popBlocks
  <2>6. totals' = SubSeq(totals, 1, from)
    BY <1>1, <1>4 DEF PopBlocks
  <2>7. \A x \in 1 .. k : d[x].height < from
    <3> TAKE x \in 1 .. k
    <3>1. i \in 1 .. m /\ x \in 1 .. m /\ d[i].height <= from
      BY <2>1, <2>3, <1>2 DEF InForce
    <3>2. x = i \/ d[x].height < d[i].height
      BY <3>1, <2>3, <1>1, <1>2 DEF Fits, Ordered
    <3> QED BY SMTT(30), <3>1, <3>2, <2>3, <1>2
  <2>8. \A x \in k + 1 .. m : d[x].height >= from
    <3> TAKE x \in k + 1 .. m
    <3>1. CASE x = i
      BY <3>1, <2>3, <1>2
    <3>2. CASE x > i
      <4>1. i + 1 \in 1 .. m /\ d[i + 1].height > from
        BY <3>2, <2>1, <1>1, <1>2 DEF InForce
      <4>2. x = i + 1 \/ d[i + 1].height < d[x].height
        BY <3>2, <4>1, <1>1, <1>2 DEF Fits, Ordered
      <4>3. d[i + 1].height \in Nat /\ d[x].height \in Nat
        BY <4>1, <2>4, <1>2
      <4> QED BY <4>1, <4>2, <4>3
    <3>3. x >= i
      BY <2>1, <2>3, <1>2
    <3> QED BY <3>1, <3>2, <3>3, <2>1, <1>2
  <2> QED BY Zenon, <1>1, <2>4, <2>5, <2>6, <2>7, <2>8, CutPreserves
<1> QED BY <1>2, <1>3, <1>4

-----------------------------------------------------------------------------
LEMMA Inductive == Spec => []IInv
<1>1. IInv /\ [Next]_vars => IInv'
  <2> SUFFICES ASSUME IInv, [Next]_vars PROVE IInv'
    OBVIOUS
  <2>1. ASSUME NEW a \in Amounts, NEW c \in Interests, Push(a, c) PROVE IInv'
    BY <2>1, PushPreserves
  <2>2. CASE Pop
    BY <2>2, PopPreserves
  <2>3. ASSUME NEW from \in 0 .. MaxBlocks, PopBlocks(from) PROVE IInv'
    BY <2>3, PopBlocksPreserves, AmountsAssumption
  <2>4. CASE UNCHANGED vars
    BY <2>4 DEF vars, IInv, TypeOK
  <2> QED BY <2>1, <2>2, <2>3, <2>4 DEF Next
<1> QED BY InitIInv, <1>1, PTL DEF Spec

\* Under every sequence of pushBlock, popBlock and popBlocks the index is a
\* vector of entries, and its block count is the length of the chain.
THEOREM TypeCorrect == Spec => []TypeOK
<1>1. IInv => TypeOK
  BY DEF IInv
<1> QED BY Inductive, <1>1, PTL

\* Under every sequence of pushes and pops the stored entries are exactly the
\* heights at which a total changed, in order (DepositIndex::pushBlock,
\* popBlock and popBlocks).
THEOREM EntriesExact == Spec => []EntriesAreChanges
<1>1. IInv => EntriesAreChanges
  <2> SUFFICES ASSUME IInv PROVE EntriesAreChanges
    OBVIOUS
  <2>1. PICK d, t : d = m_depositIndex.index /\ t = totals
    OBVIOUS
  <2>2. d \in Seq(DepositIndexEntry) /\ DOMAIN d = 1 .. Len(d) /\ Fits(d, t)
    BY <2>1, Shape, EntryShape DEF IInv
  <2>3. \A h : Before(h) = Prior(t, h)
    BY <2>1 DEF Before, Prior, Zero
  <2> QED BY Zenon, <2>1, <2>2, <2>3 DEF EntriesAreChanges, Fits, Ordered, Agree, Changes, ValueOf
<1> QED BY Inductive, <1>1, PTL

\* depositAmountAtHeight and depositInterestAtHeight return the totals of the
\* chain at every height.
THEOREM QueriesExact == Spec => []QueriesMatchHistory
<1>1. IInv => QueriesMatchHistory
  <2> SUFFICES ASSUME IInv PROVE QueriesMatchHistory
    OBVIOUS
  <2>1. PICK d, t, n : d = m_depositIndex.index /\ t = totals /\ n = Len(totals)
    BY Zenon
  <2>2. /\ d \in Seq(DepositIndexEntry) /\ t \in Seq(Total) /\ n \in Nat
        /\ m_depositIndex.blockCount = n /\ Fits(d, t) /\ Len(d) \in Nat
    BY <2>1, Shape, EntryShape DEF IInv
  <2> DEFINE at(h) == IF t = << >> THEN Zero ELSE t[IF h < n THEN h + 1 ELSE n]
  <2>3. \A h \in 0 .. MaxBlocks :
          /\ depositAmountAtHeight(m_depositIndex, h) = at(h).amount
          /\ depositInterestAtHeight(m_depositIndex, h) = at(h).interest
    <3> TAKE h \in 0 .. MaxBlocks
    <3>1. h \in Nat
      BY AmountsAssumption
    <3>2. CASE n = 0
      <4>1. t = << >>
        <5>1. t \in Seq(Total) /\ Len(t) = 0
          BY <2>1, <2>2, <3>2
        <5> HIDE DEF at
        <5> QED BY <5>1
      <4>2. at(h).amount = 0 /\ at(h).interest = 0
        BY <4>1 DEF Zero
      <4>3. /\ depositAmountAtHeight(m_depositIndex, h) = 0
            /\ depositInterestAtHeight(m_depositIndex, h) = 0
        BY <2>2, <3>2 DEF depositAmountAtHeight, depositInterestAtHeight
      <4> QED BY <4>2, <4>3
    <3>3. CASE n > 0
      <4>1. \E i \in 0 .. Len(d) : InForce(d, i, h) /\ at(h) = Value(d, i)
        <5>1. CASE h < n
          BY <5>1, <2>1, <2>2, <3>1, <3>3 DEF Fits, Covers
        <5>2. CASE h >= n
          <6>1. InForce(d, Len(d), h)
            BY <5>2, <2>1, <2>2, <3>1, LastInForce DEF Fits
          <6>2. at(h) = Value(d, Len(d))
            BY <5>2, <2>1, <2>2, <3>1, <3>3, LastValue DEF Prior
          <6> QED BY <6>1, <6>2, <2>2
        <5> QED BY <5>1, <5>2, <2>2, <3>1
      <4>2. PICK i \in 0 .. Len(d) : InForce(d, i, h) /\ at(h) = Value(d, i)
        BY <4>1
      <4>3. upperBound(m_depositIndex, h) = i + 1
        BY <2>1, <2>2, <3>1, <4>2, UpperBoundInForce DEF Fits
      <4>4. depositAmountAtHeight(m_depositIndex, h) = Value(d, i).amount
        BY <2>1, <2>2, <3>3, <4>2, <4>3 DEF depositAmountAtHeight, Value, ValueOf, Zero
      <4>5. depositInterestAtHeight(m_depositIndex, h) = Value(d, i).interest
        BY <2>1, <2>2, <3>3, <4>2, <4>3 DEF depositInterestAtHeight, Value, ValueOf, Zero
      <4> QED BY <4>2, <4>4, <4>5
    <3> QED BY <3>2, <3>3, <2>2
  <2> QED BY <2>1, <2>3 DEF QueriesMatchHistory, Zero
<1> QED BY Inductive, <1>1, PTL

=============================================================================
