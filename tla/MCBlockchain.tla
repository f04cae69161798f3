---------------------------- MODULE MCBlockchain ----------------------------
(***************************************************************************)
(* Small block trees for Blockchain.  A tree is given by the parent of     *)
(* each block but "g", the genesis block; ancestry and cumulative          *)
(* difficulty follow from it.                                              *)
(***************************************************************************)
EXTENDS Blockchain, TLC

AncestryOf(parent) ==
  LET up[b \in DOMAIN parent \cup {"g"}] ==
        IF b = "g" THEN << >> ELSE Append(up[parent[b]], parent[b])
  IN  up

\* Every block weighs 1, the ones of `heavy` 3.
DifficultyOf(parent, heavy) ==
  LET sum[b \in DOMAIN parent \cup {"g"}] ==
        IF b = "g" THEN 1 ELSE sum[parent[b]] + (IF b \in heavy THEN 3 ELSE 1)
  IN  sum

Nothing == << >>

\* t1 and t2 spend the same key image.
AllTxs    == {"t1", "t2", "t3"}
AllImages == {"k1", "k2"}
Images    == "t1" :> {"k1"} @@ "t2" :> {"k1"} @@ "t3" :> {"k2"}

(* Two branches that compete for k1 and share t3, long enough for the main *)
(* chain to leave the first, come back to it, or stop at c2 or d3, which   *)
(* are heavy but spend k1 a second time, or pay a wrong reward where the   *)
(* cfg says so.  b3, the heaviest valid block, comes from the future.  a4  *)
(* can be pushed on a3, whose window is a2 and a3, but not stored as an    *)
(* alternative block after a1, a2 and a3.                                  *)
ForkParent == "a1" :> "g" @@ "a2" :> "a1" @@ "a3" :> "a2" @@ "a4" :> "a3" @@
              "b1" :> "g" @@ "b2" :> "b1" @@ "b3" :> "b2" @@
              "c2" :> "b1" @@ "d3" :> "b2"
ForkBlocks == DOMAIN ForkParent \cup {"g"}
ForkAncestry == AncestryOf(ForkParent)
ForkDifficulty == DifficultyOf(ForkParent, {"c2", "a3", "d3", "b2", "b3"})
ForkTimestamp == "g" :> 0 @@ "a1" :> 10 @@ "a2" :> 5 @@ "a3" :> 8 @@ "a4" :> 6 @@
                 "b1" :> 10 @@ "b2" :> 10 @@ "b3" :> 11 @@ "c2" :> 10 @@ "d3" :> 10
ForkTxs == [b \in ForkBlocks |->
              CASE b \in {"a1", "c2"} -> <<"t1">>
                [] b = "b1" -> <<"t2">>
                [] b \in {"a2", "b2"} -> <<"t3">>
                [] OTHER -> << >>]

(* Two branches, one of which meets a block that is too big for its own   *)
(* size, and a double spend on the other.                                  *)
BigParent == "b1" :> "g" @@ "a2" :> "b1" @@ "c1" :> "g" @@ "c2" :> "c1" @@ "d2" :> "c1"
BigBlocks == DOMAIN BigParent \cup {"g"}
BigAncestry == AncestryOf(BigParent)
BigDifficulty == DifficultyOf(BigParent, {})
BigTimestamp == [b \in BigBlocks |-> 0]
BigTxs == [b \in BigBlocks |->
             CASE b \in {"b1", "d2"} -> <<"t1">>
               [] b = "c1" -> <<"t2">>
               [] b \in {"a2", "c2"} -> <<"t3">>
               [] OTHER -> << >>]

(* A branch whose timestamps go up and down within the rule, and a short   *)
(* heavy one.  a4 can be pushed on a3, whose window is a2 and a3, but not   *)
(* stored as an alternative block after a1, a2 and a3.                      *)
JitterParent == "a1" :> "g" @@ "a2" :> "a1" @@ "a3" :> "a2" @@ "a4" :> "a3" @@
                "c4" :> "a3" @@ "c5" :> "c4" @@ "e5" :> "c4" @@
                "b1" :> "g" @@ "b2" :> "b1" @@ "b3" :> "b2"
JitterBlocks == DOMAIN JitterParent \cup {"g"}
JitterAncestry == AncestryOf(JitterParent)
JitterDifficulty == DifficultyOf(JitterParent, {"b1", "b2"})
JitterTimestamp == "g" :> 0 @@ "a1" :> 10 @@ "a2" :> 5 @@ "a3" :> 8 @@ "a4" :> 6 @@
                   "c4" :> 8 @@ "c5" :> 8 @@ "e5" :> 8 @@
                   "b1" :> 10 @@ "b2" :> 10 @@ "b3" :> 10
\* c5 is a checkpoint, its sibling e5 is not.
JitterCheckpoint == 5 :> "c5"
JitterTxs == [b \in JitterBlocks |->
                IF b = "a1" THEN <<"t1">> ELSE IF b = "b2" THEN <<"t3">> ELSE << >>]
=============================================================================
