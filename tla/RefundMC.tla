------------------------------- MODULE RefundMC -------------------------------
EXTENDS Refund
CONSTANTS v1, v2

Plain == [single |-> FALSE, absolute |-> FALSE, transfersOnly |-> FALSE, maxRedeem |-> 0]

OnlyPlain == {Plain}
AllPlain  == [v \in Vouchers |-> Plain]
OneToFive == [v \in Vouchers |-> <<1, 5>>]
=============================================================================
