---------------------------- MODULE MCMemoryPool ----------------------------
(***************************************************************************)
(* Two branches: on a, p is mined first and c spends what it made; on b,   *)
(* p is mined in the third.  q spends the key image of p.  w and v use the *)
(* same multisignature output; f is a fusion transaction; l has a time to  *)
(* live.                                                                   *)
(***************************************************************************)
EXTENDS MemoryPool

MCParent == [a1 |-> "g", a2 |-> "a1", b1 |-> "g", b2 |-> "b1", b3 |-> "b2",
             e1 |-> "g", e2 |-> "e1", d1 |-> "g"]

AllBlocks == DOMAIN MCParent \cup {"g"}
Fork == {"g", "a1", "b1", "b2"}
Deposited == {"g", "a1", "d1", "e1", "e2"}

MCDifficulty == [b \in AllBlocks |-> 1]
MCTransactions ==
  [b \in AllBlocks |-> CASE b \in {"a1", "b3"} -> <<"p">>
                         [] b = "a2" -> <<"c">>
                         [] b = "d1" -> <<"w">>
                         [] OTHER -> << >>]
MCBase == [b \in AllBlocks |-> IF b = "g" THEN "cg" ELSE "cb"]

Key(output, image) == [type |-> "key", output |-> output, keyImage |-> image]
Multisig(output) == [type |-> "multisig", output |-> output]

MCInputs ==
  [p |-> <<Key("cg", "i1")>>, q |-> <<Key("cg", "i1")>>, c |-> <<Key("p", "i2")>>,
   f |-> <<Key("cg", "i3")>>, l |-> <<Key("cg", "i3")>>,
   w |-> <<Multisig("cg")>>, v |-> <<Multisig("cg"), Key("cg", "i1")>>]

MCFee == [t \in DOMAIN MCInputs |-> IF t \in {"f", "l"} THEN 0 ELSE IF t = "p" THEN 2 ELSE 1]
MCSize == [t \in DOMAIN MCInputs |-> IF t = "q" THEN 2 ELSE 1]
MCTtl == [t \in DOMAIN MCInputs |-> IF t = "l" THEN 2 ELSE 0]
=============================================================================
