---------------------- MODULE MCBlockchainSynchronizer ----------------------
(***************************************************************************)
(* Two branches: g - a1 and g - b1 - b2; a transaction is confirmed by a1   *)
(* and by b2, so that it moves between chain and pool.                     *)
(***************************************************************************)
EXTENDS BlockchainSynchronizer, TLC

CONSTANTS g, a1, b1, b2, t1

MCPath == (g :> <<g>>) @@ (a1 :> <<g, a1>>) @@ (b1 :> <<g, b1>>) @@ (b2 :> <<g, b1, b2>>)
MCWeight == (g :> 0) @@ (a1 :> 2) @@ (b1 :> 0) @@ (b2 :> 4)
MCTransactions == (g :> {}) @@ (a1 :> {t1}) @@ (b1 :> {}) @@ (b2 :> {t1})
MCFirstConsumers == {1}
=============================================================================
