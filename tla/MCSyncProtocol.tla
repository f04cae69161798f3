--------------------------- MODULE MCSyncProtocol ---------------------------
(* Small networks for SyncProtocol.                                         *)
EXTENDS SyncProtocol

CONSTANTS n1, n2, n3, t

\* g - a1 - a2 and a1 - b2 - b3.  b2 has twice the work of another block, so
\* that a node leaves a2 for it.
MCBlocks == {"g", "a1", "a2", "b2", "b3"}
MCAncestry == [b \in MCBlocks |->
  CASE b = "g" -> << >> [] b = "a1" -> <<"g">>
    [] b = "b3" -> <<"g", "a1", "b2">> [] OTHER -> <<"g", "a1">>]
MCWork == [b \in MCBlocks |-> Len(MCAncestry[b]) + (IF b \in {"b2", "b3"} THEN 2 ELSE 1)]

\* n2 dials the others and starts with nothing.  n3 is a block behind n1, or
\* level with it.
MCLinks == {<<n2, n>> : n \in Nodes \ {n2}}
Behind == [n \in Nodes |-> CASE n = n1 -> "a2" [] n = n2 -> "g" [] n = n3 -> "a1"]
Level == [n \in Nodes |-> IF n = n2 THEN "g" ELSE "a1"]

\* n3 mines b2 at some time, or sends a transaction.
MineOne == {<<n3, "b2">>}
SendOne == {<<n3, t>>}
=============================================================================
