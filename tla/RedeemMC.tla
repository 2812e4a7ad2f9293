------------------------------- MODULE RedeemMC -------------------------------
EXTENDS Redeem
CONSTANTS r1, r2, k1, k2, v1, v2

Plain  == [single |-> FALSE, absolute |-> FALSE, transfersOnly |-> FALSE, maxRedeem |-> 0]
Once   == [Plain EXCEPT !.single = TRUE, !.absolute = TRUE]
Closed == [Plain EXCEPT !.transfersOnly = TRUE]

AllTerms    == {Plain, Once, Closed}
PlainOrOnce == {Plain, Once}
AtFirstOnce  == [v \in Vouchers |-> Once]
AtFirstPlain == [v \in Vouchers |-> Plain]
\* The Spark fee is above what a redeem holds back for a fee.
LightningAndSpark == {[fee |-> 0, spark |-> FALSE], [fee |-> 2, spark |-> TRUE]}
Interchangeable == Permutations(Requests) \cup Permutations(Sessions)
=============================================================================
