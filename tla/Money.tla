-------------------------------- MODULE Money --------------------------------
(***************************************************************************)
(* The arithmetic of satoshi-note, in msat.  Go's / and % on the           *)
(* non-negative amounts used here are \div and %.                          *)
(***************************************************************************)
EXTENDS Integers, Sequences, SequencesExt

CONSTANTS
    Sat,                  \* msat in one satoshi: 1000 in the code
    RedeemFeeBPS,         \* REDEEM_FEE_BPS
    MinRedeemFeeMsat,     \* MIN_REDEEM_FEE_MSAT
    InternalFeeBPS,       \* INTERNAL_FEE_BPS
    MinInternalFeeMsat    \* MIN_INTERNAL_FEE_MSAT

ASSUME MoneyAssumption ==
    /\ Sat \in Nat \ {0}
    /\ RedeemFeeBPS \in Nat /\ MinRedeemFeeMsat \in Nat
    /\ InternalFeeBPS \in Nat /\ MinInternalFeeMsat \in Nat

\* Go's x / 1000 * 1000.
SatRound(msat) == (msat \div Sat) * Sat

\* What is left of an amount once a fee of bps on the net has been taken, in
\* whole satoshis.
NetOfBPS(amount, bps) == (((amount * 10000) \div (10000 + bps)) \div Sat) * Sat

FeeOf(amount, bps, min) ==
    LET bpsFee == amount - NetOfBPS(amount, bps)
    IN  IF bpsFee > SatRound(min) THEN bpsFee ELSE SatRound(min)

calculateRedeemFee(balance)  == FeeOf(balance, RedeemFeeBPS, MinRedeemFeeMsat)
calculateInternalFee(amount) == FeeOf(amount, InternalFeeBPS, MinInternalFeeMsat)

Total(shares) == SumFunction(shares)

\* splitBalance: in proportion to the shares, the remainder to the last code.
Portion(balance, shares, i) == (balance * shares[i]) \div Total(shares)

\* Mutant: the remainder of the division is lost.
splitPortions(balance, shares) ==
    [i \in DOMAIN shares |-> Portion(balance, shares, i)]

\* Each part goes to a code of its own: parts of one code listed twice would be added up
\* before the minimum is applied to them (refund.go:69-78), which no voucher here has.
splitBalance(balance, shares) ==
    [i \in DOMAIN shares |->
        IF i < Len(shares)
        THEN Portion(balance, shares, i)
        ELSE balance - Total([j \in 1 .. Len(shares) - 1 |-> Portion(balance, shares, j)])]

\* Mutant: only an empty share is left out.
BelowNothing(gross, fee) == gross <= 0

\* A payout of gross msat under a fee: below the minimum it is not made, else it
\* is in whole satoshis and the rest is dust.
BelowMin(gross, fee) == gross - fee < Sat

Priced(gross, fee) ==
    [amount |-> SatRound(gross - fee), fee |-> fee, dust |-> (gross - fee) % Sat]

\* Go's integer division rounds towards zero.
Quo(a, b) == IF a >= 0 THEN a \div b ELSE -((-a) \div b)

\* What each of n vouchers of a batch gets, in whole satoshis; the rest is dust.
BatchShare(net, n) == Quo(Quo(net, n), Sat) * Sat

\* satRound
satRound(msat) == IF msat < 0 THEN 0 ELSE SatRound(msat)

\* Mutant: a wallet short of the holds makes the cap negative.
withdrawCapUnclamped(wallet, held, available) ==
    IF wallet - held < available THEN wallet - held ELSE available

\* withdrawCapMsat: booked equity, as far as the wallet covers the holds.
withdrawCapMsat(wallet, held, available) ==
    LET cap == IF wallet - held < available THEN wallet - held ELSE available
    IN  IF cap < 0 THEN 0 ELSE cap

\* resolveWithdrawAmount: 0 asks for all there is.
WithdrawAmount(requested, cap, quote) ==
    satRound(IF requested = 0 THEN cap - quote ELSE requested)

\* Mutant: the routing fee is not checked against the cap.
FitsWithoutFee(amount, cap, quote) == amount >= Sat /\ amount <= cap

WithdrawFits(amount, cap, quote) == amount >= Sat /\ amount + quote <= cap
=============================================================================
