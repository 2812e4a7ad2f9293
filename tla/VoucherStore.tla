----------------------------- MODULE VoucherStore -----------------------------
(***************************************************************************)
(* The row of a voucher and the statements of db.go that read and change   *)
(* it.  Time is abstracted to what it decides: the expiry clock of a       *)
(* voucher runs, has passed, or was renewed after it had passed.  An       *)
(* absolute expiry counts from created_at, a relative one from updated_at, *)
(* so a write of updated_at renews the relative clock only.                *)
(***************************************************************************)
EXTENDS Money, FiniteSets

CONSTANTS
    Vouchers,
    Terms,       \* what parseVoucherParams may make of a create or an edit
    InitTerms    \* the terms that each voucher was created with

\* max_redeem_msat = 0 is no limit, and a single-use voucher has none (handlers.go:89-91).
ASSUME VoucherAssumption ==
    /\ IsFiniteSet(Vouchers)
    /\ Terms \subseteq [single : BOOLEAN, absolute : BOOLEAN, transfersOnly : BOOLEAN,
                        maxRedeem : Nat]
    /\ \A p \in Terms : p.single => p.maxRedeem = 0
    /\ InitTerms \in [Vouchers -> Terms]

VoucherRow == [bal : Nat, active : BOOLEAN, clock : {"running", "passed", "renewed"},
               terms : Terms]

Created(v, balance) ==
    [bal |-> balance, active |-> TRUE, clock |-> "running", terms |-> InitTerms[v]]

\* updated_at = now
Touched(row) ==
    IF ~row.terms.absolute /\ row.clock = "passed" THEN "renewed" ELSE row.clock

\* getVoucherByPubKey finds it: active, and not expired.
Live(row) == row.active /\ row.clock # "passed"

\* Mutant: a single-use voucher stays active.
DebitKeepsActive(row, msat) ==
    [bal |-> row.bal - msat, active |-> row.active, clock |-> Touched(row),
     terms |-> row.terms]

\* updateVoucherBalance with a negative amount; it needs row.bal >= msat.
Debit(row, msat) ==
    [bal    |-> row.bal - msat,
     active |-> IF row.terms.single THEN FALSE ELSE row.active,
     clock  |-> Touched(row),
     terms  |-> row.terms]

\* updateVoucherBalance with an amount that is not negative, or by mistake is; it
\* then needs row.bal >= -msat.
Credit(row, msat) ==
    IF msat < 0 THEN Debit(row, -msat)
    ELSE [bal |-> row.bal + msat, active |-> row.active, clock |-> Touched(row),
          terms |-> row.terms]

\* addVoucherBalance: back with the money, whatever has become of the voucher.
AddBalance(row, msat) ==
    [bal |-> row.bal + msat, active |-> TRUE, clock |-> Touched(row), terms |-> row.terms]

\* getExpiredVouchersWithBalance selects it, active or not.
ExpiredWithBalance(row) == row.bal > 0 /\ row.clock = "passed"

\* markVouchersRefunded
Refunded(row) == [bal |-> 0, active |-> FALSE, clock |-> Touched(row), terms |-> row.terms]

\* updateVoucher: new terms, active again, updated_at = now.
Edited(row, terms, clock) ==
    [bal |-> row.bal, active |-> TRUE, clock |-> clock, terms |-> terms]

\* What the new refund_after_seconds makes of a clock: it counts from now, or if it is
\* absolute from created_at, and may then have passed still.
Reclocked(row, terms) ==
    IF row.clock = "running" THEN {"running"}
    ELSE IF terms.absolute THEN {"renewed", "passed"} ELSE {"renewed"}
=============================================================================
