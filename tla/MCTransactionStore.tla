------------------------- MODULE MCTransactionStore -------------------------
(***************************************************************************)
(* Two branches whose first blocks hold the same two deposits in opposite  *)
(* orders, withdrawals that are early, in time, and valid on one branch    *)
(* only, a second withdrawal of the same deposit, a block with a wrong     *)
(* reward, and one that is too big.                                        *)
(***************************************************************************)
EXTENDS TransactionStore

MCAmounts == {5, 7}
NoneRead == -1

MCParent == [a1 |-> "g", b1 |-> "g", a2 |-> "a1", x2 |-> "a1", a3 |-> "a2", r3 |-> "a2",
             b2 |-> "b1", b3 |-> "b2", y2 |-> "b1", o2 |-> "b1"]

MCBlocks == DOMAIN MCParent \cup {"g"}

MCTransactions ==
  [g  |-> <<"cg">>,
   a1 |-> <<"ca1", "dep1", "dep2">>,
   b1 |-> <<"cb1", "dep2", "dep1">>,
   a2 |-> <<"ca2">>,
   x2 |-> <<"cx2", "wd2a", "wd1">>,
   a3 |-> <<"ca3", "wd1", "wd2a">>,
   r3 |-> <<"cr3", "wd1">>,
   b2 |-> <<"cb2", "wd2b">>,
   b3 |-> <<"cb3", "again">>,
   y2 |-> <<"cy2", "wd1">>,
   o2 |-> <<"co2", "wd2b">>]

Bases == {MCTransactions[b][1] : b \in MCBlocks}
MCTxs == Bases \cup {"dep1", "dep2", "wd1", "wd2a", "wd2b", "again"}

Withdraw(n, term, key) ==
  [type |-> "multisig", amount |-> 5, outputIndex |-> n, term |-> term, key |-> key]
Spend(n, key, image) ==
  [type |-> "key", amount |-> 7, ring |-> (n :> key), keyImage |-> image]
KeyOut(a, key) == [type |-> "key", amount |-> a, key |-> key]
Deposit(term, key) == [type |-> "multisig", amount |-> 5, key |-> key, term |-> term]

MCInputs ==
  [t \in MCTxs |->
     CASE t = "dep1" -> <<Spend(0, "k1", "i1")>>
       [] t = "dep2" -> <<Spend(1, "k2", "i2")>>
       [] t = "wd1"  -> <<Withdraw(0, 2, "A")>>
       [] t = "wd2a" -> <<Withdraw(1, 1, "B")>>
       [] t \in {"wd2b", "again"} -> <<Withdraw(0, 1, "B")>>
       [] OTHER      -> <<[type |-> "base"]>>]

MCOutputs ==
  [t \in MCTxs |->
     CASE t = "cg"   -> <<KeyOut(7, "k1"), KeyOut(7, "k2")>>
       [] t = "dep1" -> <<Deposit(2, "A"), KeyOut(5, "k3")>>
       [] t = "dep2" -> <<KeyOut(5, "k4"), KeyOut(5, "k5"), Deposit(1, "B")>>
       [] t = "wd1"  -> <<KeyOut(5, "k6")>>
       [] OTHER      -> <<KeyOut(7, "k7")>>]

MCUnlockTime == [t \in MCTxs |-> IF t = "cg" THEN 1 ELSE 0]
MCInterest == [t \in MCTxs |-> IF t = "wd1" THEN 2 ELSE IF t \in {"wd2a", "wd2b"} THEN 1 ELSE 0]

=============================================================================
