-------------------------------- MODULE Funding --------------------------------
(***************************************************************************)
(* Money that comes into vouchers: invoices (handlers.go:420-488), whose   *)
(* payments an event of the SDK (breez.go:50-97) or the next start-up      *)
(* (start-up.go:87-190) books, and transfers between vouchers              *)
(* (handlers.go:491-654).  Operator deposits are paid and booked the same  *)
(* way, but credit nobody.                                                 *)
(*                                                                         *)
(* A step is one transaction, or the reads that go before one.  Between    *)
(* them vouchers expire, are redeemed and refunded, and the process stops. *)
(* No voucher is edited: Redeem and Schedule have the edits.               *)
(***************************************************************************)
EXTENDS VoucherStore, FiniteSets, Functions

CONSTANTS
    Batches,
    BatchOf,           \* batch_id of each voucher
    Immediate,         \* vouchers with regular_refund_immediate = 1
    Unique,            \* vouchers with unique_redemptions = 1
    Shares,            \* of each voucher: the shares of its refund codes
    Invoices,          \* invoices made by ReceivePayment, numbering their rows
    Transfers,         \* calls of handleTransfer
    Fingerprints,
    Amounts,           \* msat asked for by callers
    Estimates,         \* receive fees the SDK may estimate, of the smallest invoice too
    ReceiveFees,       \* what the SDK keeps of a payment; negative if overpaid
    MaxFund,           \* MAX_FUND_AMOUNT_MSAT
    InitBalance,       \* what each voucher holds at first
    MaxCrashes         \* bound on crashes and on failures of the SDK at start-up

Deposit == "deposit"

ASSUME FundingAssumption ==
    /\ BatchOf \in [Vouchers -> Batches]
    /\ Batches \cap Vouchers = {}
    /\ Immediate \subseteq Vouchers /\ Unique \subseteq Vouchers
    /\ Shares \in [Vouchers -> Seq(Nat \ {0})]
    /\ \A v \in Vouchers : Shares[v] # <<>>
    /\ IsFiniteSet(Invoices)
    /\ Deposit \notin Vouchers \cup Batches /\ "none" \notin Vouchers \cup Batches
    /\ Amounts \subseteq Nat \ {0}
    /\ Estimates \subseteq 0 .. Sat /\ ReceiveFees \subseteq Int
    /\ MaxFund \in Nat /\ InitBalance \in Nat /\ MaxCrashes \in Nat

VARIABLES
    voucher,     \* the vouchers table
    tx,          \* fund_txs and the deposits of operator_txs, by invoice
    payment,     \* the SDK's payment of each invoice, net of its fee
    event,       \* what has become of the event of each payment
    transfer,    \* the calls of handleTransfer
    used,        \* redemption_fingerprints
    wallet,      \* balance of the Spark wallet
    elsewhere,   \* what the other tables explain: refunds held, dust, fees
    boot,        \* where start-up is and the rows still to visit
    crashes,     \* history: crashes and failures of start-up so far
    dropped      \* history: shares below the minimum that no row was made for

vars == <<voucher, tx, payment, event, transfer, used, wallet, elsewhere, boot, crashes,
          dropped>>

NoTx       == [st |-> "none", to |-> "none", msat |-> 0, fee |-> 0]
NoPayment  == [done |-> FALSE, net |-> 0]
NoTransfer == [pc |-> "idle", src |-> "none", dst |-> {}, batch |-> FALSE, msat |-> 0,
               fp |-> "none"]

TypeOK ==
    /\ voucher \in [Vouchers -> VoucherRow]
    /\ tx \in [Invoices -> [st : {"none", "pending", "confirmed"},
                            to : Vouchers \cup Batches \cup {Deposit, "none"},
                            msat : Nat, fee : Nat]]
    /\ payment \in [Invoices -> [done : BOOLEAN, net : Nat]]
    /\ event \in [Invoices -> {"none", "read", "told"}]
    /\ transfer \in [Transfers -> [pc : {"idle", "begin", "done", "refused"},
                                   src : Vouchers \cup {"none"}, dst : SUBSET Vouchers,
                                   batch : BOOLEAN, msat : Nat,
                                   fp : Fingerprints \cup {"none"}]]
    /\ used \subseteq Vouchers \X Fingerprints
    /\ wallet \in Nat
    /\ elsewhere \in Nat
    /\ boot \in [pc : {"down", "sync", "list", "confirm", "deposits", "deposit", "served"},
                 todo : SUBSET Invoices]
    /\ crashes \in Nat
    /\ dropped \in Nat

Init ==
    /\ voucher = [v \in Vouchers |-> Created(v, InitBalance)]
    /\ tx = [i \in Invoices |-> NoTx]
    /\ payment = [i \in Invoices |-> NoPayment]
    /\ event = [i \in Invoices |-> "none"]
    /\ transfer = [t \in Transfers |-> NoTransfer]
    /\ used = {}
    /\ wallet = SumFunction([v \in Vouchers |-> InitBalance])
    /\ elsewhere = 0
    /\ boot = [pc |-> "down", todo |-> {}]
    /\ crashes = 0
    /\ dropped = 0

Serving == boot.pc = "served"

Members(to) == IF to \in Vouchers THEN {to} ELSE {v \in Vouchers : BatchOf[v] = to}

\* getVoucherByPubKey, getVoucherByFundKey and getVouchersByBatchID find these.
Living(to) == {v \in Members(to) : Live(voucher[v])}

-----------------------------------------------------------------------------
(* The rest of the world                                                   *)

VoucherExpires(v) ==
    /\ voucher[v].clock # "passed"
    /\ voucher' = [voucher EXCEPT ![v].clock = "passed"]
    /\ UNCHANGED <<tx, payment, event, transfer, used, wallet, elsewhere, boot, crashes, dropped>>

\* A redeem takes all there is; its fee, and its failure, are left to Redeem.
Redeemed(v) ==
    /\ Serving
    /\ voucher[v].active /\ voucher[v].bal > 0 /\ ~voucher[v].terms.transfersOnly
    /\ wallet >= voucher[v].bal
    /\ wallet' = wallet - voucher[v].bal
    /\ voucher' = [voucher EXCEPT ![v] = Debit(@, @.bal)]
    /\ UNCHANGED <<tx, payment, event, transfer, used, elsewhere, boot, crashes, dropped>>

\* The refund worker takes the balance of a voucher that it found expired.
RefundExpired(v) ==
    /\ Serving
    /\ voucher[v].bal > 0 /\ voucher[v].clock # "running"
    /\ elsewhere' = elsewhere + voucher[v].bal
    /\ voucher' = [voucher EXCEPT ![v] = Refunded(@)]
    /\ UNCHANGED <<tx, payment, event, transfer, used, wallet, boot, crashes, dropped>>

\* Somebody pays an invoice, whether the server is up or down.
Pay(i) ==
    \E fee \in ReceiveFees :
        /\ tx[i].st = "pending" /\ ~payment[i].done
        /\ fee <= tx[i].msat
        /\ payment' = [payment EXCEPT ![i] = [done |-> TRUE, net |-> tx[i].msat - fee]]
        /\ wallet' = wallet + tx[i].msat - fee
        /\ UNCHANGED <<voucher, tx, event, transfer, used, elsewhere, boot, crashes, dropped>>

-----------------------------------------------------------------------------
(* Invoices                                                                *)

\* handleLNURLPayCallbackVoucher and handleAdminDeposit: the row is inserted before
\* the invoice is shown.
NewInvoice(i, to, msat) ==
    \E estimate \in Estimates :
        /\ Serving
        /\ tx[i] = NoTx
        /\ tx' = [tx EXCEPT ![i] = [st |-> "pending", to |-> to, msat |-> SatRound(msat),
                                    fee |-> estimate]]
        /\ UNCHANGED <<voucher, payment, event, transfer, used, wallet, elsewhere, boot,
                       crashes, dropped>>

\* What the fullest of them has room for, times their number.
Room(vs) ==
    Cardinality(vs) * (MaxFund - Max({voucher[v].bal : v \in vs}))

FundInvoice(i, to, msat) ==
    LET vs == Living(to)
    IN  /\ vs # {}
        /\ msat >= Sat * Cardinality(vs) /\ msat <= Room(vs)
        /\ NewInvoice(i, to, msat)

DepositInvoice(i, msat) ==
    /\ msat >= Sat /\ msat % Sat = 0
    /\ NewInvoice(i, Deposit, msat)

-----------------------------------------------------------------------------
(* updateFundTxConfirmed: one transaction                                  *)

\* Mutant: the fee of a payment that brought more than was asked for.
FeeUnclamped(i) == tx[i].msat - payment[i].net

\* What the payment shows was kept of it, or the estimate: if it brought more than was
\* asked for, and likewise if it does not say what it brought (breez.go:65).
ActualFee(i) ==
    IF payment[i].net <= tx[i].msat THEN tx[i].msat - payment[i].net ELSE tx[i].fee

Net(i) == tx[i].msat - ActualFee(i)

\* Mutant: AND status = pending is missing.
PendingOrNot(i) == tx[i].st # "none"

Pending(i) == tx[i].st = "pending"

\* Mutant: a batch is all its vouchers.
CreditedAll(i) == Members(tx[i].to)

Credited(i) == Living(tx[i].to)

ShareOf(i) ==
    IF tx[i].to \in Vouchers THEN Net(i) ELSE BatchShare(Net(i), Cardinality(Credited(i)))

Splits(v, bal) == splitBalance(bal, Shares[v])
Paid(gross)    == ~BelowMin(gross, calculateRedeemFee(gross))
PaidOf(v, bal) ==
    LET gross == Splits(v, bal)
    IN  Total([k \in DOMAIN gross |-> IF Paid(gross[k]) THEN gross[k] ELSE 0])

\* Mutant: only a batch has its immediate refunds made.
SweptInBatch(i) ==
    {v \in Credited(i) \cap Immediate :
        tx[i].to \in Batches /\ PaidOf(v, voucher[v].bal + ShareOf(i)) > 0}

\* insertImmediateRegularRefunds: all that the voucher now has goes into refund_txs,
\* if a part of it is worth paying; parts that are not are dropped.
Swept(i) ==
    {v \in Credited(i) \cap Immediate : PaidOf(v, voucher[v].bal + ShareOf(i)) > 0}

Dust(i) == Net(i) - Cardinality(Credited(i)) * ShareOf(i)

UpdateFundTxConfirmed(i) ==
    LET credited == Credited(i)
        swept   == Swept(i)
        bal(v)  == voucher[v].bal + ShareOf(i)
        paid(v) == PaidOf(v, bal(v))
    IN  /\ Pending(i)
        /\ credited # {}
        /\ tx' = [tx EXCEPT ![i].st = "confirmed", ![i].fee = ActualFee(i)]
        /\ voucher' = [v \in Vouchers |->
             IF v \notin credited THEN voucher[v]
             ELSE [Credit(voucher[v], ShareOf(i)) EXCEPT
                     !.bal = IF v \in swept THEN 0 ELSE @]]
        /\ elsewhere' = elsewhere + Dust(i) + SumFunction([v \in swept |-> paid(v)])
        /\ dropped' = dropped + SumFunction([v \in swept |-> bal(v) - paid(v)])

\* errFundTxNotPending: seen before, which is no error.
AlreadyConfirmed(i) ==
    /\ ~Pending(i)
    /\ UNCHANGED <<voucher, tx, elsewhere, dropped>>

\* The voucher has expired or is inactive: an error, and nothing is booked.
TargetGone(i) == Pending(i) /\ Credited(i) = {}

\* confirmOperatorDepositByPR, guarded in the same way.
ConfirmDeposit(i) ==
    /\ tx' = IF Pending(i)
             THEN [tx EXCEPT ![i].st = "confirmed", ![i].msat = payment[i].net] ELSE tx
    /\ UNCHANGED <<voucher, elsewhere, dropped>>

-----------------------------------------------------------------------------
(* onPaymentSucceeded: the event of a payment, once                        *)

EventGoes(i, from, to) ==
    /\ payment[i].done
    /\ boot.pc \notin {"down", "sync"}
    /\ event[i] = from
    /\ event' = [event EXCEPT ![i] = to]
    /\ UNCHANGED <<payment, transfer, used, wallet, boot, crashes>>

\* getFundTxByPR finds it while it is pending ...
EventRead(i) ==
    /\ tx[i].to # Deposit
    /\ EventGoes(i, "none", IF Pending(i) THEN "read" ELSE "told")
    /\ UNCHANGED <<voucher, tx, elsewhere, dropped>>

\* ... and the transaction looks again.  An error is only logged.
EventConfirm(i) ==
    /\ EventGoes(i, "read", "told")
    /\ \/ UpdateFundTxConfirmed(i)
       \/ AlreadyConfirmed(i)
       \/ TargetGone(i) /\ UNCHANGED <<voucher, tx, elsewhere, dropped>>

EventDeposit(i) ==
    /\ tx[i].to = Deposit
    /\ EventGoes(i, "none", "told")
    /\ ConfirmDeposit(i)

EventStep(i) == EventRead(i) \/ EventConfirm(i) \/ EventDeposit(i)

-----------------------------------------------------------------------------
(* handleTransfer                                                          *)

\* The vouchers are looked up, the amount is checked ...
TransferLookup(t, src, to, msat, fp) ==
    LET dst == Living(to)
    IN  /\ Serving
        /\ transfer[t] = NoTransfer
        /\ Live(voucher[src]) /\ ~voucher[src].terms.single
        /\ dst # {} /\ to # src
        /\ msat >= Sat * Cardinality(dst) /\ msat <= MaxFund * Cardinality(dst)
        /\ msat <= voucher[src].bal
        /\ LET max == voucher[src].terms.maxRedeem
           IN  max > 0 => msat <= max
        /\ transfer' = [transfer EXCEPT
             ![t] = [pc |-> "begin", src |-> src, dst |-> dst, batch |-> to \in Batches,
                     msat |-> msat, fp |-> fp]]
        /\ UNCHANGED <<voucher, tx, payment, event, used, wallet, elsewhere, boot, crashes,
                       dropped>>

Fee(t) == calculateInternalFee(transfer[t].msat)

\* Each destination gets this: less than nothing, if the fee is above the amount.
TransferShare(t) ==
    LET net == transfer[t].msat - Fee(t)
    IN  IF transfer[t].batch THEN BatchShare(net, Cardinality(transfer[t].dst)) ELSE net

Enough(t) == voucher[transfer[t].src].bal >= transfer[t].msat

\* Mutant: INSERT OR IGNORE, and nobody counts the rows.
FreshIgnored(t) == TRUE

Fresh(t) == transfer[t].src \in Unique => <<transfer[t].src, transfer[t].fp>> \notin used

\* The source once it is debited; it may be a voucher of the batch itself.
Debited(t) ==
    [voucher EXCEPT ![transfer[t].src] = Debit(@, transfer[t].msat)]

Committable(t) ==
    /\ Enough(t)
    /\ \A v \in transfer[t].dst : Debited(t)[v].bal >= -TransferShare(t)
    /\ Fresh(t)

\* A call that has ended: which it was is history, the rest is forgotten.
Ended(t, to) ==
    [NoTransfer EXCEPT !.pc = to, !.src = transfer[t].src, !.fp = transfer[t].fp]

EndTransfer(t, to) ==
    /\ Serving
    /\ transfer[t].pc = "begin"
    /\ transfer' = [transfer EXCEPT ![t] = Ended(t, to)]
    /\ UNCHANGED <<tx, payment, event, wallet, boot, crashes, dropped>>

\* ... and the transaction tests the balance and the fingerprint, nothing else.
TransferCommit(t) ==
    LET src == transfer[t].src
        dst == transfer[t].dst
    IN  /\ EndTransfer(t, "done")
        /\ Committable(t)
        /\ voucher' = [v \in Vouchers |->
             IF v \in dst THEN Credit(Debited(t)[v], TransferShare(t)) ELSE Debited(t)[v]]
        /\ elsewhere' = elsewhere + transfer[t].msat - Cardinality(dst) * TransferShare(t)
        /\ used' = IF src \in Unique THEN used \cup {<<src, transfer[t].fp>>} ELSE used

TransferRollback(t) ==
    /\ EndTransfer(t, "refused")
    /\ ~Committable(t)
    /\ UNCHANGED <<voucher, elsewhere, used>>

-----------------------------------------------------------------------------
(* Crash and start-up (main, checkPendingFundTXs and                       *)
(* checkPendingOperatorDeposits)                                           *)

\* Handlers end where they are.  An event that nobody has listened to is lost.
Stop ==
    /\ boot' = [pc |-> "down", todo |-> {}]
    /\ event' = [i \in Invoices |-> IF payment[i].done THEN "told" ELSE event[i]]
    /\ transfer' = [t \in Transfers |->
         IF transfer[t].pc = "begin" THEN Ended(t, "refused") ELSE transfer[t]]
    /\ UNCHANGED <<voucher, tx, payment, used, wallet, elsewhere, dropped>>

Crash ==
    /\ boot.pc # "down"
    /\ crashes < MaxCrashes
    /\ crashes' = crashes + 1
    /\ Stop

\* The listener is there before the database is: an event of a payment that the
\* sync finds dereferences a nil *sql.DB.
EventCrashes(i) ==
    /\ boot.pc = "sync"
    /\ payment[i].done /\ event[i] = "none"
    /\ Stop
    /\ UNCHANGED crashes

BootGoto(from, to, todo) ==
    /\ boot.pc = from
    /\ boot' = [pc |-> to, todo |-> todo]
    /\ UNCHANGED <<payment, event, transfer, used, wallet, crashes>>

Rows == <<voucher, tx, elsewhere, dropped>>

Start == BootGoto("down", "sync", {}) /\ UNCHANGED Rows

OpenDB == BootGoto("sync", "list", {}) /\ UNCHANGED Rows

\* SyncWallet or ListPayments fails: os.Exit(1).
BootFails ==
    /\ \/ boot.pc = "sync"
       \/ boot.pc = "list" /\ \E i \in Invoices : Pending(i) /\ tx[i].to # Deposit
    /\ crashes < MaxCrashes
    /\ crashes' = crashes + 1
    /\ Stop

PaidPending(deposits) ==
    {i \in Invoices : Pending(i) /\ payment[i].done /\ (tx[i].to = Deposit) = deposits}

\* Mutant: the payments of the last run are not asked for.
BootListNone == BootGoto("list", "confirm", {}) /\ UNCHANGED Rows

BootList == BootGoto("list", "confirm", PaidPending(FALSE)) /\ UNCHANGED Rows

BootConfirm(i) ==
    /\ i \in boot.todo
    /\ BootGoto("confirm", "confirm", boot.todo \ {i})
    /\ UpdateFundTxConfirmed(i) \/ AlreadyConfirmed(i)

\* An error of updateFundTxConfirmed ends checkPendingFundTXs and with it main.
BootRefuses(i) ==
    /\ boot.pc = "confirm" /\ i \in boot.todo
    /\ TargetGone(i)
    /\ Stop
    /\ UNCHANGED crashes

BootCaughtUp ==
    /\ boot.todo = {}
    /\ BootGoto("confirm", "deposits", {})
    /\ UNCHANGED Rows

BootListDeposits == BootGoto("deposits", "deposit", PaidPending(TRUE)) /\ UNCHANGED Rows

\* ListPayments fails, which for deposits is only logged.
BootSkipsDeposits == BootGoto("deposits", "deposit", {}) /\ UNCHANGED Rows

BootDeposit(i) ==
    /\ i \in boot.todo
    /\ BootGoto("deposit", "deposit", boot.todo \ {i})
    /\ ConfirmDeposit(i)

BootServes ==
    /\ boot.todo = {}
    /\ BootGoto("deposit", "served", {})
    /\ UNCHANGED Rows

BootStep ==
    \/ Start \/ OpenDB \/ BootList \/ BootCaughtUp \/ BootListDeposits
    \/ BootSkipsDeposits \/ BootServes
    \/ \E i \in Invoices : BootConfirm(i) \/ BootRefuses(i) \/ BootDeposit(i)

-----------------------------------------------------------------------------
World ==
    \/ \E v \in Vouchers : VoucherExpires(v) \/ Redeemed(v) \/ RefundExpired(v)
    \/ \E i \in Invoices : Pay(i)

Callers ==
    \/ \E i \in Invoices, msat \in Amounts :
        DepositInvoice(i, msat) \/ \E to \in Vouchers \cup Batches : FundInvoice(i, to, msat)
    \/ \E t \in Transfers, src \in Vouchers, to \in Vouchers \cup Batches, msat \in Amounts,
          fp \in Fingerprints : TransferLookup(t, src, to, msat, fp)

TransferEnds(t) == TransferCommit(t) \/ TransferRollback(t)

Next ==
    \/ World
    \/ Callers
    \/ \E t \in Transfers : TransferEnds(t)
    \/ \E i \in Invoices : EventStep(i) \/ EventCrashes(i)
    \/ BootStep
    \/ BootFails
    \/ Crash

(* The server is started again and gets on with it, and while it is up the *)
(* SDK tells it of every payment.  Nobody has to pay.                      *)
Fairness ==
    /\ WF_vars(BootStep)
    /\ \A i \in Invoices : WF_vars(EventStep(i))

Spec == Init /\ [][Next]_vars /\ Fairness

-----------------------------------------------------------------------------
(* Properties                                                              *)

Explained == SumFunction([v \in Vouchers |-> voucher[v].bal]) + elsewhere

\* What an invoice has brought into the wallet beyond what is booked for it.
Unbooked(i) ==
    IF ~payment[i].done THEN 0
    ELSE payment[i].net - (IF tx[i].to # Deposit /\ tx[i].st = "confirmed" THEN Net(i) ELSE 0)

\* Whichever of the event and start-up books a payment, and however they race with
\* transfers, redeems and refunds: it is booked once, to the last msat, and what is
\* unexplained in the wallet is deposits, overpayment, payments not booked yet, and
\* shares that were dropped (handlers.go:962-1044, 596-628).
BooksClose ==
    wallet = Explained + dropped + SumFunction([i \in Invoices |-> Unbooked(i)])

\* A payment touches only vouchers that are live when it is booked, whatever they
\* were when it was asked for: nobody's money goes where only the refund worker finds
\* it (handlers.go:1013-1026).
FundsReachTheLiving ==
    [][\A i \in Invoices, v \in Vouchers :
        /\ tx[i].st = "pending" /\ tx'[i].st = "confirmed"
        /\ voucher'[v].bal # voucher[v].bal
        => Live(voucher[v])]_vars

\* "draining balance in the same transaction as funding" (refund.go:85): a voucher
\* with immediate refunds is never left with a share that is worth paying.
ImmediateIsSwept ==
    [][\A i \in Invoices, v \in Immediate :
        /\ tx[i].st = "pending" /\ tx'[i].st = "confirmed"
        /\ v \in Members(tx[i].to) /\ Live(voucher[v])
        => PaidOf(v, voucher'[v].bal) = 0]_vars

\* A fingerprint takes money once from a voucher that has unique_redemptions and is not
\* edited, however many transfers with it are under way (handlers.go:627-640); while an
\* edit has it off (db.go:1142), fingerprints are neither tested nor kept.
OnePerFingerprint ==
    \A s, t \in {u \in Transfers : transfer[u].pc = "done" /\ transfer[u].src \in Unique} :
        s # t => \/ transfer[s].src # transfer[t].src
                 \/ transfer[s].fp # transfer[t].fp

Orphan(i) == payment[i].done /\ tx[i].to # Deposit /\ TargetGone(i)

\* A payment that comes is credited, even if the server is down by then or crashes
\* before it is booked, unless all vouchers of some payment are gone for a while
\* (start-up.go:87-137).
PaidIsCreditedOrOrphaned ==
    \A i \in Invoices :
        payment[i].done /\ event[i] # "told" /\ tx[i].to # Deposit
            ~> (tx[i].st = "confirmed" \/ \E j \in Invoices : Orphan(j))

\* "onPaymentSucceeded credits a voucher for a paid fund invoice" (breez.go:50)
PaidIsCredited ==
    \A i \in Invoices :
        payment[i].done /\ tx[i].to # Deposit ~> tx[i].st = "confirmed"
=============================================================================
