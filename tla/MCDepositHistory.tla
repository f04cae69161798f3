-------------------------- MODULE MCDepositHistory --------------------------
(* Deposits and withdrawals of one or two units over four blocks.          *)
EXTENDS DepositHistory

MCAmounts == {-2, -1, 0, 1, 2}

=============================================================================
