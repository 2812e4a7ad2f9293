-------------------------------- MODULE Payout --------------------------------
(***************************************************************************)
(* What the redeem callback and the refund worker promise of one payout.   *)
(* The amount is taken from the voucher before any money moves.  Money     *)
(* leaves the wallet once at most, and comes back only if the SDK's        *)
(* payment fails.  The debit is given back once at most, and not while the *)
(* money is out.  The table says that it was paid only of money that was   *)
(* sent, and that it failed only of money that is here; and what the table *)
(* has said of a payout is its last word.                                  *)
(***************************************************************************)

VARIABLES
    debit,   \* of the voucher: "none", "taken", or "returned"
    money,   \* of the wallet: "kept", "out", or "back" after a failure
    said,    \* by the table: "open", or "paid", "failed" or "retained"
    row      \* whatever else the table says of it

payout == <<debit, money, said, row>>

Init == debit = "none" /\ money = "kept" /\ said = "open"

\* A part that is not worth paying is retained at once.
Take ==
    /\ debit = "none" /\ said = "open"
    /\ debit' = "taken" /\ said' \in {"open", "retained"}
    /\ UNCHANGED money

PayOut ==
    /\ debit = "taken" /\ said = "open" /\ money = "kept"
    /\ money' = "out"
    /\ UNCHANGED <<debit, said, row>>

Bounce ==
    /\ money = "out"
    /\ money' = "back"
    /\ UNCHANGED <<debit, said, row>>

Return ==
    /\ debit = "taken" /\ said \in {"open", "failed"} /\ money # "out"
    /\ debit' = "returned"
    /\ UNCHANGED <<money, said, row>>

Say(what) == said = "open" /\ said' = what /\ UNCHANGED <<debit, money>>

SayPaid == debit = "taken" /\ money # "kept" /\ Say("paid")

SayFailed == debit # "none" /\ money # "out" /\ Say("failed")

\* The operator keeps it: nothing is promised of a payment made before.
Retain == debit = "taken" /\ Say("retained")

\* The table learns the payment id, a retry or a new price.
Revise == debit = "taken" /\ said = "open" /\ UNCHANGED <<debit, money, said>>

Next == Take \/ PayOut \/ Bounce \/ Return \/ SayPaid \/ SayFailed \/ Retain \/ Revise

Spec == Init /\ [][Next]_payout
=============================================================================
