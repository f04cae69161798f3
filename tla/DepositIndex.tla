---------------------------- MODULE DepositIndex ----------------------------
(***************************************************************************)
(* CryptoNoteCore/DepositIndex.cpp: the amount held in deposits and the    *)
(* interest paid, at every height, as a vector with one entry per block    *)
(* that changes them.  The object is a record of its two fields; heights   *)
(* count from 0, positions in the vector from 1.                           *)
(***************************************************************************)
EXTENDS Integers, Sequences

DepositIndexEntry == [height : Nat, amount : Int, interest : Nat]

NewDepositIndex == [index |-> << >>, blockCount |-> 0]

fullDepositAmount(d) ==
  IF d.index = << >> THEN 0 ELSE d.index[Len(d.index)].amount

fullInterestAmount(d) ==
  IF d.index = << >> THEN 0 ELSE d.index[Len(d.index)].interest

\* Faults: an entry is written only for a change of the amount; a block
\* without an entry is not counted down.
PushIgnoresInterest(d, amount, interest) ==
  [index |-> IF amount # 0
             THEN Append(d.index,
                    [height |-> d.blockCount,
                     amount |-> amount + fullDepositAmount(d),
                     interest |-> interest + fullInterestAmount(d)])
             ELSE d.index,
   blockCount |-> d.blockCount + 1]

PopOnlyEntries(d) ==
  IF d.index # << >> /\ d.index[Len(d.index)].height = d.blockCount - 1
  THEN [index |-> SubSeq(d.index, 1, Len(d.index) - 1), blockCount |-> d.blockCount - 1]
  ELSE d

pushBlock(d, amount, interest) ==
  [index |-> IF amount # 0 \/ interest > 0
             THEN Append(d.index,
                    [height |-> d.blockCount,
                     amount |-> amount + fullDepositAmount(d),
                     interest |-> interest + fullInterestAmount(d)])
             ELSE d.index,
   blockCount |-> d.blockCount + 1]

popBlock(d) ==
  [index |-> IF d.index # << >> /\ d.index[Len(d.index)].height = d.blockCount - 1
             THEN SubSeq(d.index, 1, Len(d.index) - 1)
             ELSE d.index,
   blockCount |-> d.blockCount - 1]

\* Fault: lower_bound instead of upper_bound.
LowerBound(d, h) ==
  CHOOSE k \in 1 .. Len(d.index) + 1 :
    /\ \A i \in 1 .. k - 1 : d.index[i].height < h
    /\ k <= Len(d.index) => d.index[k].height >= h

\* Position of the first entry above height h, or one past the end.
upperBound(d, h) ==
  CHOOSE k \in 1 .. Len(d.index) + 1 :
    /\ \A i \in 1 .. k - 1 : d.index[i].height <= h
    /\ k <= Len(d.index) => d.index[k].height > h

\* Drops the blocks from height `from` on: everything above it, and the entry
\* before that when it belongs to `from` itself.
popBlocks(d, from) ==
  IF from >= d.blockCount THEN d
  ELSE LET up == upperBound(d, from)
           it == IF up > 1 /\ d.index[up - 1].height = from THEN up - 1 ELSE up
       IN  [index |-> SubSeq(d.index, 1, it - 1), blockCount |-> from]

depositAmountAtHeight(d, h) ==
  IF d.blockCount = 0 \/ upperBound(d, h) = 1 THEN 0
  ELSE d.index[upperBound(d, h) - 1].amount

depositInterestAtHeight(d, h) ==
  IF d.blockCount = 0 \/ upperBound(d, h) = 1 THEN 0
  ELSE d.index[upperBound(d, h) - 1].interest

\* serialize on input: the count is replaced, the entries are appended.  n of
\* them are read before the input ends.
load(d, saved, n) ==
  [index |-> d.index \o SubSeq(saved.index, 1, n), blockCount |-> saved.blockCount]

=============================================================================
