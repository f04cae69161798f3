---------------------------- MODULE HeaviestChain ----------------------------
(***************************************************************************)
(* What the block storage of a node promises to the rest of the daemon: a  *)
(* set of known blocks and one of them, the tip of the main chain, that is *)
(* replaced by heavier blocks only.  Blockchain implements it, whatever    *)
(* happens between the first and the last step of a reorganisation, and    *)
(* SyncProtocol is written against it.                                     *)
(***************************************************************************)
EXTENDS Naturals, Sequences

CONSTANTS
  Nodes,
  Blocks,
  ancestry,               \* [Blocks -> Seq(Blocks)]: genesis block .. parent
  cumulative_difficulty,  \* [Blocks -> Nat]
  start                   \* [Nodes -> Blocks]: the tip of the stored chain

VARIABLES
  tip,     \* [Nodes -> Blocks]
  known    \* [Nodes -> SUBSET Blocks]: main chain and alternative blocks

vars == <<tip, known>>

\* The path from the genesis block to b, as a sequence and as a set.
Path(b) == Append(ancestry[b], b)
OnPath(b) == {Path(b)[i] : i \in 1 .. Len(Path(b))}

IsHeavier(b, c) == cumulative_difficulty[c] < cumulative_difficulty[b]

\* A block is accepted on top of a known block.  It becomes the tip at once or
\* is stored as an alternative block.
Accept(n, b) ==
  /\ b \notin known[n]
  /\ ancestry[b] # << >>
  /\ ancestry[b][Len(ancestry[b])] \in known[n]
  /\ known' = [known EXCEPT ![n] = @ \cup {b}]
  /\ \/ tip' = tip
     \/ IsHeavier(b, tip[n]) /\ tip' = [tip EXCEPT ![n] = b]

\* The main chain is left for a heavier one that is known completely.
Reorganise(n, b) ==
  /\ OnPath(b) \subseteq known[n]
  /\ IsHeavier(b, tip[n])
  /\ tip' = [tip EXCEPT ![n] = b]
  /\ UNCHANGED known

\* Alternative blocks that turned out to be invalid are dropped.
Forget(n, D) ==
  /\ D \subseteq known[n]
  /\ D \cap OnPath(tip[n]) = {}
  /\ known' = [known EXCEPT ![n] = @ \ D]
  /\ UNCHANGED tip

Init ==
  /\ tip = start
  /\ known = [n \in Nodes |-> OnPath(start[n])]

Next ==
  \E n \in Nodes :
    \/ \E b \in Blocks : Accept(n, b) \/ Reorganise(n, b)
    \/ \E D \in SUBSET known[n] : Forget(n, D)

Spec == Init /\ [][Next]_vars
=============================================================================
