------------------------------ MODULE OperatorMC ------------------------------
EXTENDS OperatorWithdraw
CONSTANTS w1, w2

Interchangeable == Permutations(Withdrawals)
=============================================================================
