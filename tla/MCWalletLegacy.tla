--------------------------- MODULE MCWalletLegacy ---------------------------
(***************************************************************************)
(* An incoming output o is sent (s, after asking for random outputs) or     *)
(* deposited (d); the deposit q is withdrawn by this wallet (w).  Another    *)
(* copy of its keys competes: y spends o, x withdraws q.                    *)
(***************************************************************************)
EXTENDS WalletLegacy

CONSTANTS r, s, d, w, x, y, o, c, q, k, l

MCCreator == (o :> r) @@ (c :> s) @@ (q :> d) @@ (k :> w) @@ (l :> x)
MCInputs == (r :> {}) @@ (s :> {o}) @@ (d :> {o}) @@ (w :> {q}) @@ (x :> {q}) @@ (y :> {o})
MCTerm == (o :> 0) @@ (c :> 0) @@ (q :> 1) @@ (k :> 0) @@ (l :> 0)
MCFirstChain == <<[branch |-> 0, txs |-> <<>>], [branch |-> 0, txs |-> <<r>>],
                  [branch |-> 0, txs |-> <<>>]>>
=============================================================================
