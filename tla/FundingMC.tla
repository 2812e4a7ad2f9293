------------------------------ MODULE FundingMC ------------------------------
EXTENDS Funding
CONSTANTS v1, v2, b

\* Open to transfers only; or once, and until a day that is fixed.
Closed == [single |-> FALSE, absolute |-> FALSE, transfersOnly |-> TRUE, maxRedeem |-> 0]
Once   == [single |-> TRUE, absolute |-> TRUE, transfersOnly |-> FALSE, maxRedeem |-> 0]

AllTerms      == {Closed, Once}
ClosedAndOnce == [v \in Vouchers |-> IF v = v1 THEN Closed ELSE Once]
AllOnce       == [v \in Vouchers |-> Once]

OneBatch == [v \in Vouchers |-> b]
OneToTwo == [v \in Vouchers |-> <<1, 2>>]
Withheld == {-1, 2}
=============================================================================
