--------------------------- MODULE DepositHistory ---------------------------
(***************************************************************************)
(* A DepositIndex under any sequence of pushBlock, popBlock and popBlocks, *)
(* beside the full history it stands for.                                  *)
(***************************************************************************)
EXTENDS DepositIndex

CONSTANTS Amounts,     \* what one block may add to the deposits (Int)
          Interests,   \* what one block may pay in interest (Nat)
          MaxBlocks    \* bound on the height

ASSUME AmountsAssumption ==
  /\ Amounts \subseteq Int /\ Interests \subseteq Nat
  /\ MaxBlocks \in Nat

VARIABLES m_depositIndex,
          totals   \* the amount and the interest after each block

vars == <<m_depositIndex, totals>>

Total == [amount : Int, interest : Nat]

LastTotal ==
  IF totals = << >> THEN [amount |-> 0, interest |-> 0] ELSE totals[Len(totals)]

\* The three assertions of pushBlock are its precondition.
Push(amount, interest) ==
  /\ Len(totals) < MaxBlocks
  /\ amount + fullDepositAmount(m_depositIndex) >= 0
  /\ m_depositIndex' = pushBlock(m_depositIndex, amount, interest)
  /\ totals' = Append(totals, [amount |-> LastTotal.amount + amount,
                               interest |-> LastTotal.interest + interest])

Pop ==
  /\ m_depositIndex.blockCount > 0
  /\ m_depositIndex' = popBlock(m_depositIndex)
  /\ totals' = SubSeq(totals, 1, Len(totals) - 1)

PopBlocks(from) ==
  /\ m_depositIndex' = popBlocks(m_depositIndex, from)
  /\ totals' = IF from < Len(totals) THEN SubSeq(totals, 1, from) ELSE totals

Init == m_depositIndex = NewDepositIndex /\ totals = << >>

Next ==
  \/ \E a \in Amounts, i \in Interests : Push(a, i)
  \/ Pop
  \/ \E from \in 0 .. MaxBlocks : PopBlocks(from)

Spec == Init /\ [][Next]_vars

\* Every variable holds a value of its kind.
TypeOK ==
  /\ m_depositIndex \in [index : Seq(DepositIndexEntry), blockCount : Nat]
  /\ totals \in Seq(Total)
  /\ Len(totals) = m_depositIndex.blockCount

Before(h) == IF h = 0 THEN [amount |-> 0, interest |-> 0] ELSE totals[h]

\* The vector has an entry for a height exactly when the block there changed
\* a total, in increasing order: what is stored depends on the chain alone,
\* not on the pushes and pops that led to it.
EntriesAreChanges ==
  LET d == m_depositIndex.index
  IN  /\ \A i, j \in DOMAIN d : i < j => d[i].height < d[j].height
      /\ \A i \in DOMAIN d :
           /\ d[i].height < Len(totals)
           /\ totals[d[i].height + 1] = [amount |-> d[i].amount, interest |-> d[i].interest]
      /\ \A h \in 0 .. Len(totals) - 1 :
           (totals[h + 1] # Before(h)) <=> \E i \in DOMAIN d : d[i].height = h

\* depositAmountAtHeight and depositInterestAtHeight, by their binary search
\* over the entries, answer every height with the totals of that block, and a
\* height above the chain with the last ones.
QueriesMatchHistory ==
  LET at(h) == IF totals = << >> THEN [amount |-> 0, interest |-> 0]
               ELSE totals[IF h < Len(totals) THEN h + 1 ELSE Len(totals)]
  IN  \A h \in 0 .. MaxBlocks :
        /\ depositAmountAtHeight(m_depositIndex, h) = at(h).amount
        /\ depositInterestAtHeight(m_depositIndex, h) = at(h).interest

=============================================================================
