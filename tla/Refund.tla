-------------------------------- MODULE Refund --------------------------------
(***************************************************************************)
(* The refund worker (refund.go): it turns the balances of expired         *)
(* vouchers, and on a schedule those of live ones, into refund_txs and     *)
(* pays these over LNURL, up to three times, with an idempotency key for   *)
(* each row.  After a crash it takes up the rows that were in flight.      *)
(*                                                                         *)
(* A step is one statement, one transaction or one call of the SDK.  One   *)
(* redeem goes on beside the worker, reduced to the debit, the payment and *)
(* the restoration that Redeem details; and a deposit may fund a voucher.  *)
(* No voucher is edited here: Schedule has the edits beside the worker.    *)
(***************************************************************************)
EXTENDS VoucherStore, FiniteSets, Functions

CONSTANTS
    Shares,            \* of each voucher: the shares of its refund codes
    Regular,           \* vouchers with a regular refund, not immediate
    MinFees,           \* values MIN_REDEEM_FEE_MSAT may have, from one run to the next
    Quotes,            \* routing fees the SDK may quote
    InitBalance,       \* what each voucher holds at first
    Redeemed,          \* what the redeem takes
    Funded,            \* what the deposit brings
    Surplus,           \* what the wallet holds at first beyond the books
    MaxRetries,        \* retry_count of an abandoned row: 3 in the code
    RetryAbandoned,    \* RETRY_ABANDONED_REFUNDS
    MaxCrashes         \* bound on crashes

ASSUME RefundAssumption ==
    /\ Shares \in [Vouchers -> Seq(Nat \ {0})]
    /\ \A v \in Vouchers : Shares[v] # <<>>
    /\ Regular \subseteq Vouchers
    /\ MinFees \subseteq Nat /\ MinFees # {}
    /\ Quotes \subseteq Nat
    /\ InitBalance \in Nat /\ Redeemed \in Nat /\ Funded \in Nat /\ Surplus \in Nat
    /\ MaxRetries \in Nat \ {0}
    /\ RetryAbandoned \in BOOLEAN
    /\ MaxCrashes \in Nat

VARIABLES
    voucher,    \* the vouchers table
    due,        \* vouchers whose regular refund is due
    rows,       \* refund_txs, by id
    payment,    \* the SDK's payment for the idempotency key of each row
    wallet,     \* balance of the Spark wallet
    redeem,     \* the redeem beside the worker: its state and its voucher
    funded,     \* whether the deposit has come
    worker,     \* where the worker is and what it has read
    minFee,     \* MIN_REDEEM_FEE_MSAT of this run
    owner,      \* the payment lock, see PaymentLock
    crashes,    \* history: crashes so far
    dropped     \* history: shares below the minimum that no row was made for

world == <<redeem, funded>>
books == <<voucher, due, rows>>
sdk   == <<payment, wallet>>
vars  == <<books, sdk, world, worker, minFee, owner, crashes, dropped>>

Lock == INSTANCE PaymentLock
    WITH Withdrawals <- {"redeem"}, Refund <- "worker", Nobody <- "nobody",
         Cooldown <- "cooldown", Broken <- "broken"

NoPayment == [st |-> "none", amount |-> 0, fee |-> 0]

Boot == [pc |-> "boot", pass |-> "expired", seen |-> 0, list |-> {}, todo |-> {}, at |-> 0]

WorkerPC == {"boot", "query", "split", "gate", "books", "requeue", "reprice", "pending",
             "pay", "parse", "mark", "send", "sent", "failed", "release", "sleep"}

\* refund_txs; keyed: it has an idempotency key.
RefundTx == [voucher : Vouchers, amount : Nat, fee : Int, dust : Nat,
             refunded : BOOLEAN, inFlight : BOOLEAN, keyed : BOOLEAN,
             retries : 0 .. MaxRetries, actual : Nat]

Payment == [st : {"none", "pending", "completed", "failed"}, amount : Nat, fee : Nat]

\* The fee of a row may fall below zero: a row that was repriced after its payment
\* had been made is booked with what that payment cost.
TypeOK ==
    /\ voucher \in [Vouchers -> VoucherRow]
    /\ due \subseteq Vouchers
    /\ rows \in Seq(RefundTx)
    /\ payment \in Seq(Payment)
    /\ Len(payment) = Len(rows)
    /\ wallet \in Nat
    /\ redeem \in [st : {"none", "debited", "done", "lost"}, voucher : Vouchers \cup {"none"}]
    /\ funded \in BOOLEAN
    /\ worker \in [pc : WorkerPC, pass : {"expired", "regular"}, seen : Nat,
                   list : SUBSET Vouchers, todo : SUBSET DOMAIN rows,
                   at : {0} \cup DOMAIN rows]
    /\ minFee \in MinFees
    /\ owner \in {"worker", "redeem", "cooldown", "nobody"}
    /\ crashes \in Nat
    /\ dropped \in Nat

Init ==
    /\ voucher = [v \in Vouchers |-> Created(v, InitBalance)]
    /\ due = {}
    /\ rows = <<>>
    /\ payment = <<>>
    /\ wallet = SumFunction([v \in Vouchers |-> InitBalance]) + Surplus
    /\ redeem = [st |-> "none", voucher |-> "none"]
    /\ funded = FALSE
    /\ worker = Boot
    /\ minFee \in MinFees
    /\ owner = "nobody"
    /\ crashes = 0
    /\ dropped = 0

-----------------------------------------------------------------------------
(* The books (getLedgerStats and finalize)                                 *)

Fee(gross) == FeeOf(gross, RedeemFeeBPS, minFee)

RowExplains(r) == r.dust + r.fee + (IF r.refunded THEN 0 ELSE r.amount)

Held == IF redeem.st \in {"debited", "lost"} THEN Redeemed ELSE 0

Explained ==
    SumFunction([v \in Vouchers |-> voucher[v].bal])
        + SumFunction([i \in DOMAIN rows |-> RowExplains(rows[i])]) + Held

-----------------------------------------------------------------------------
(* The rest of the world                                                   *)

VoucherExpires(v) ==
    /\ voucher[v].clock # "passed"
    /\ voucher' = [voucher EXCEPT ![v].clock = "passed"]
    /\ UNCHANGED <<due, rows, sdk, world, worker, minFee, owner, crashes, dropped>>

RegularComesDue(v) ==
    /\ v \in Regular \ due
    /\ due' = due \cup {v}
    /\ UNCHANGED <<voucher, rows, sdk, world, worker, minFee, owner, crashes, dropped>>

\* updateFundTxConfirmed credits a voucher that is live.
Fund(v) ==
    /\ ~funded /\ Live(voucher[v])
    /\ funded' = TRUE
    /\ wallet' = wallet + Funded
    /\ voucher' = [voucher EXCEPT ![v] = Credit(@, Funded)]
    /\ UNCHANGED <<due, rows, payment, redeem, worker, minFee, owner, crashes, dropped>>

\* A redeem has the lock and takes the amount from the voucher ...
RedeemDebits(v) ==
    /\ redeem.st = "none"
    /\ Lock!Acquire("redeem")
    /\ voucher[v].active /\ voucher[v].bal >= Redeemed
    /\ redeem' = [st |-> "debited", voucher |-> v]
    /\ voucher' = [voucher EXCEPT ![v] = Debit(@, Redeemed)]
    /\ UNCHANGED <<due, rows, sdk, funded, worker, minFee, crashes, dropped>>

\* ... and pays it, or gives it back.
RedeemEnds ==
    /\ redeem.st = "debited"
    /\ Lock!Pay("redeem")
    /\ redeem' = [redeem EXCEPT !.st = "done"]
    /\ UNCHANGED <<due, rows, payment, funded, worker, minFee, crashes, dropped>>

RedeemPays ==
    /\ RedeemEnds
    /\ wallet >= Redeemed
    /\ wallet' = wallet - Redeemed
    /\ UNCHANGED voucher

RedeemFails ==
    /\ RedeemEnds
    /\ voucher' = [voucher EXCEPT ![redeem.voucher] = AddBalance(@, Redeemed)]
    /\ UNCHANGED wallet

\* A payment reported as pending ends; if it fails, the money comes back.
PaymentSettles(i) ==
    /\ payment[i].st = "pending"
    /\ \/ /\ payment' = [payment EXCEPT ![i].st = "completed"]
          /\ UNCHANGED wallet
       \/ /\ payment' = [payment EXCEPT ![i].st = "failed"]
          /\ wallet' = wallet + payment[i].amount + payment[i].fee
    /\ UNCHANGED <<books, world, worker, minFee, owner, crashes, dropped>>

CooldownEnds ==
    /\ Lock!Release
    /\ UNCHANGED <<books, sdk, world, worker, minFee, crashes, dropped>>

-----------------------------------------------------------------------------
(* From balances to refund_txs: processExpiredRefunds and                  *)
(* processRegularRefunds                                                   *)

Goto(from, to) ==
    /\ worker.pc = from
    /\ worker' = [worker EXCEPT !.pc = to]

\* resetKeyedInFlightRefunds
ResetKeyedInFlight ==
    /\ Goto("boot", "query")
    /\ rows' = [i \in DOMAIN rows |->
                  [rows[i] EXCEPT !.inFlight = @ /\ (rows[i].refunded \/ ~rows[i].keyed)]]
    /\ UNCHANGED <<voucher, due, sdk, world, minFee, owner, crashes, dropped>>

RegularDue(v) == v \in due /\ Live(voucher[v])

\* The list of vouchers is read once; each has a transaction of its own later.
Query ==
    /\ worker.pc = "query"
    /\ worker' = [worker EXCEPT
         !.pc = "split",
         !.list = {v \in Vouchers : IF worker.pass = "expired"
                                    THEN ExpiredWithBalance(voucher[v])
                                    ELSE RegularDue(v)}]
    /\ UNCHANGED <<books, sdk, world, minFee, owner, crashes, dropped>>

NewRow(v, gross) ==
    LET priced == Priced(gross, Fee(gross))
    IN  [voucher |-> v, amount |-> priced.amount, fee |-> priced.fee, dust |-> priced.dust,
         refunded |-> FALSE, inFlight |-> FALSE, keyed |-> FALSE, retries |-> 0, actual |-> 0]

RetainedDust(v, gross) ==
    [voucher |-> v, amount |-> 0, fee |-> 0, dust |-> gross, refunded |-> TRUE,
     inFlight |-> FALSE, keyed |-> FALSE, retries |-> 0, actual |-> 0]

Splits(v) == splitBalance(voucher[v].bal, Shares[v])
Paid(gross) == ~BelowMin(gross, Fee(gross))
PaidSplits(v) == {k \in DOMAIN Splits(v) : Paid(Splits(v)[k])}
Dropped(v) ==
    LET gross == Splits(v)
    IN  Total([k \in DOMAIN gross |-> IF Paid(gross[k]) THEN 0 ELSE gross[k]])

NextVoucher(v) ==
    /\ worker.pc = "split" /\ v \in worker.list
    /\ worker' = [worker EXCEPT !.list = @ \ {v}]

Insert(new) ==
    /\ rows' = rows \o new
    /\ payment' = payment \o [i \in DOMAIN new |-> NoPayment]
    /\ UNCHANGED <<wallet, world, minFee, owner, crashes>>

\* The parts that are worth paying, in the order of the refund codes.
Orders(parts) ==
    {order \in Bijection(1 .. Cardinality(parts), parts) :
        \A i, j \in DOMAIN order : i < j => order[i] < order[j]}

\* One row for each part that is worth paying; a part that is not is dropped.
InsertSplits(v) ==
    /\ PaidSplits(v) # {}
    /\ \E order \in Orders(PaidSplits(v)) :
          Insert([i \in DOMAIN order |-> NewRow(v, Splits(v)[order[i]])])
    /\ dropped' = dropped + Dropped(v)

SplitExpired(v) ==
    /\ worker.pass = "expired"
    /\ voucher[v].bal > 0
    /\ NextVoucher(v)
    /\ \/ InsertSplits(v)
       \/ /\ PaidSplits(v) = {}
          /\ Insert(<<RetainedDust(v, voucher[v].bal)>>)
          /\ UNCHANGED dropped
    /\ voucher' = [voucher EXCEPT ![v] = Refunded(@)]
    /\ UNCHANGED due

SplitRegular(v) ==
    /\ worker.pass = "regular"
    /\ voucher[v].bal > 0
    /\ NextVoucher(v)
    /\ InsertSplits(v)
    /\ voucher' = [voucher EXCEPT ![v].bal = 0]
    /\ due' = due \ {v}

\* Nothing left by now, or in a regular refund nothing worth paying.
SkipVoucher(v) ==
    /\ NextVoucher(v)
    /\ voucher[v].bal = 0 \/ (worker.pass = "regular" /\ PaidSplits(v) = {})
    /\ due' = IF worker.pass = "regular" THEN due \ {v} ELSE due
    /\ UNCHANGED <<voucher, rows, sdk, world, minFee, owner, crashes, dropped>>

SplitsDone ==
    /\ worker.list = {}
    /\ Goto("split", "gate")
    /\ UNCHANGED <<books, sdk, world, minFee, owner, crashes, dropped>>

-----------------------------------------------------------------------------
(* doPendingRefunds, which either pass ends with                           *)

\* payoutsPaused reads the wallet first ...
Gate ==
    /\ worker.pc = "gate"
    /\ worker' = [worker EXCEPT !.pc = "books", !.seen = wallet]
    /\ UNCHANGED <<books, sdk, world, minFee, owner, crashes, dropped>>

PassDone == [worker EXCEPT
    !.pc   = IF worker.pass = "expired" THEN "query" ELSE "sleep",
    !.pass = IF worker.pass = "expired" THEN "regular" ELSE "expired",
    !.seen = 0]

\* ... and then the books, once for all the payments that follow.
GateOpens ==
    /\ worker.pc = "books" /\ worker.seen >= Explained
    /\ worker' = [worker EXCEPT !.pc = IF RetryAbandoned THEN "requeue" ELSE "pending",
                                !.seen = 0]
    /\ UNCHANGED <<books, sdk, world, minFee, owner, crashes, dropped>>

GateStaysShut ==
    /\ worker.pc = "books" /\ worker.seen < Explained
    /\ worker' = PassDone
    /\ UNCHANGED <<books, sdk, world, minFee, owner, crashes, dropped>>

Abandoned(r) == ~r.refunded /\ ~r.inFlight /\ r.retries >= MaxRetries
\* Mutant: refunded = 0 is missing.
PendingPaidToo(r)  == ~r.inFlight /\ r.retries < MaxRetries

Pending(r)   == ~r.refunded /\ ~r.inFlight /\ r.retries < MaxRetries

QueryAbandoned ==
    /\ worker.pc = "requeue"
    /\ worker' = [worker EXCEPT !.pc = "reprice",
                                !.todo = {i \in DOMAIN rows : Abandoned(rows[i])}]
    /\ UNCHANGED <<books, sdk, world, minFee, owner, crashes, dropped>>

\* repriceAbandonedRefund: today's fee on all that the row stands for.
Repriced(r) ==
    LET gross == r.amount + r.fee + r.dust
    IN  IF BelowMin(gross, Fee(gross))
        THEN [RetainedDust(r.voucher, gross) EXCEPT !.keyed = r.keyed]
        ELSE LET priced == Priced(gross, Fee(gross))
             IN  [r EXCEPT !.amount = priced.amount, !.fee = priced.fee,
                           !.dust = priced.dust, !.retries = 0]

Reprice(i) ==
    /\ worker.pc = "reprice" /\ i \in worker.todo
    /\ worker' = [worker EXCEPT !.todo = @ \ {i}]
    /\ rows' = [rows EXCEPT ![i] = Repriced(@)]
    /\ UNCHANGED <<voucher, due, sdk, world, minFee, owner, crashes, dropped>>

RepriceDone ==
    /\ worker.todo = {}
    /\ Goto("reprice", "pending")
    /\ UNCHANGED <<books, sdk, world, minFee, owner, crashes, dropped>>

QueryPending ==
    /\ worker.pc = "pending"
    /\ worker' = [worker EXCEPT !.pc = "pay",
                                !.todo = {i \in DOMAIN rows : Pending(rows[i])}]
    /\ UNCHANGED <<books, sdk, world, minFee, owner, crashes, dropped>>

PaysDone ==
    /\ worker.pc = "pay" /\ worker.todo = {}
    /\ worker' = PassDone
    /\ UNCHANGED <<books, sdk, world, minFee, owner, crashes, dropped>>

\* runRefundWorker wakes up by its timer or by refundWake.
Wake ==
    /\ Goto("sleep", "query")
    /\ UNCHANGED <<books, sdk, world, minFee, owner, crashes, dropped>>

-----------------------------------------------------------------------------
(* payRefund                                                               *)

Row == rows[worker.at]

Acquire(i) ==
    /\ worker.pc = "pay" /\ i \in worker.todo
    /\ Lock!Acquire("worker")
    /\ worker' = [worker EXCEPT !.pc = "parse", !.todo = @ \ {i}, !.at = i]
    /\ UNCHANGED <<books, sdk, world, minFee, crashes, dropped>>

\* Mutant: this return comes before the deferred release.
ParseFailsLocked ==
    /\ Goto("parse", "pay")
    /\ UNCHANGED <<books, sdk, world, minFee, owner, crashes, dropped>>

\* The refund code cannot be resolved: the row stays as it is.
ParseFails ==
    /\ Goto("parse", "release")
    /\ UNCHANGED <<books, sdk, world, minFee, owner, crashes, dropped>>

\* Mutant: in_flight is not reset.
MarkFailedInFlight ==
    /\ rows' = [rows EXCEPT ![worker.at].retries = @ + 1]
    /\ UNCHANGED <<voucher, due, sdk, world, minFee, owner, crashes, dropped>>

\* markRefundTxFailed
MarkFailed ==
    /\ rows' = [rows EXCEPT ![worker.at].inFlight = FALSE, ![worker.at].retries = @ + 1]
    /\ UNCHANGED <<voucher, due, sdk, world, minFee, owner, crashes, dropped>>

\* PrepareLnurlPay fails, or quotes more than the fee of the row.
PrepareFails ==
    /\ Goto("parse", "release")
    /\ MarkFailed

\* Mutant: the quote is not compared with the fee.
QuoteAlwaysFits ==
    \E quote \in Quotes :
        /\ worker.pc = "parse"
        /\ worker' = [worker EXCEPT !.pc = "mark", !.seen = quote]
        /\ UNCHANGED <<books, sdk, world, minFee, owner, crashes, dropped>>

QuoteFits ==
    \E quote \in Quotes :
        /\ worker.pc = "parse"
        /\ quote <= Row.fee
        /\ worker' = [worker EXCEPT !.pc = "mark", !.seen = quote]
        /\ UNCHANGED <<books, sdk, world, minFee, owner, crashes, dropped>>

MarkInFlight ==
    /\ Goto("mark", "send")
    /\ rows' = [rows EXCEPT ![worker.at].inFlight = TRUE, ![worker.at].keyed = TRUE]
    /\ UNCHANGED <<voucher, due, sdk, world, minFee, owner, crashes, dropped>>

\* LnurlPay: the money leaves, and the call has yet to return.  The SDK takes what it
\* quoted at most.
Send ==
    \E st \in {"pending", "completed"}, fee \in Quotes :
        /\ Goto("send", "sent")
        /\ payment[worker.at].st = "none"
        /\ fee <= worker.seen /\ wallet >= Row.amount + fee
        /\ payment' = [payment EXCEPT ![worker.at] =
                         [st |-> st, amount |-> Row.amount, fee |-> fee]]
        /\ wallet' = wallet - Row.amount - fee
        /\ UNCHANGED <<books, world, minFee, owner, crashes, dropped>>

\* The key was used before: the SDK returns the payment it made then.
SendAgain ==
    /\ Goto("send", "sent")
    /\ payment[worker.at].st # "none"
    /\ UNCHANGED <<books, sdk, world, minFee, owner, crashes, dropped>>

\* Mutant: the error of LnurlPay is not looked at.
SendFailsUnseen ==
    /\ Goto("send", "sent")
    /\ payment[worker.at].st = "none"
    /\ UNCHANGED <<books, sdk, world, minFee, owner, crashes, dropped>>

\* It returns an error, and no money has left.
SendFails ==
    /\ Goto("send", "failed")
    /\ payment[worker.at].st = "none"
    /\ UNCHANGED <<books, sdk, world, minFee, owner, crashes, dropped>>

MarkSendFailed ==
    /\ Goto("failed", "release")
    /\ MarkFailed

\* markRefundTxPaid, whatever the status of the payment: that is only logged.
MarkPaid ==
    LET actual == payment[worker.at].fee
    IN  /\ Goto("sent", "release")
        /\ rows' = [rows EXCEPT ![worker.at] =
             [Row EXCEPT !.refunded = TRUE, !.inFlight = FALSE,
                         !.actual = actual, !.fee = Row.fee - actual]]
        /\ UNCHANGED <<voucher, due, sdk, world, minFee, owner, crashes, dropped>>

\* The deferred releaseAfter
Release ==
    /\ worker.pc = "release"
    /\ Lock!Pay("worker")
    /\ worker' = [worker EXCEPT !.pc = "pay", !.at = 0, !.seen = 0]
    /\ UNCHANGED <<books, sdk, world, minFee, crashes, dropped>>

-----------------------------------------------------------------------------
\* The process stops; it is started again, perhaps with another configuration.
Crash ==
    /\ crashes < MaxCrashes
    /\ crashes' = crashes + 1
    /\ worker' = Boot
    /\ minFee' \in MinFees
    /\ owner' = "nobody"
    /\ redeem' = [redeem EXCEPT !.st = IF @ = "debited" THEN "lost" ELSE @]
    /\ UNCHANGED <<books, sdk, funded, dropped>>

Split ==
    \/ Query \/ SplitsDone
    \/ \E v \in Vouchers : SplitExpired(v) \/ SplitRegular(v) \/ SkipVoucher(v)

PayRefund ==
    \/ \E i \in DOMAIN rows : Acquire(i)
    \/ ParseFails \/ PrepareFails \/ QuoteFits \/ MarkInFlight \/ Send \/ SendAgain
    \/ SendFails \/ MarkSendFailed \/ MarkPaid \/ Release

Batch ==
    \/ Gate \/ GateOpens \/ GateStaysShut
    \/ QueryAbandoned \/ RepriceDone \/ (\E i \in DOMAIN rows : Reprice(i))
    \/ QueryPending \/ PaysDone

WorkerStep == ResetKeyedInFlight \/ Split \/ Batch \/ PayRefund \/ Wake

World ==
    \/ \E v \in Vouchers :
        VoucherExpires(v) \/ RegularComesDue(v) \/ Fund(v) \/ RedeemDebits(v)
    \/ \E i \in DOMAIN rows : PaymentSettles(i)

RedeemStep == RedeemPays \/ RedeemFails

Next == World \/ RedeemStep \/ CooldownEnds \/ WorkerStep \/ Crash

(* The worker runs on and is woken, the SDK answers, and whoever else has  *)
(* the lock gives it back.                                                 *)
Fairness == WF_vars(WorkerStep) /\ WF_vars(RedeemStep) /\ WF_vars(CooldownEnds)

Spec == Init /\ [][Next]_vars /\ Fairness

-----------------------------------------------------------------------------
(* Properties                                                              *)

\* What has left the wallet for a row, and what the books say has.
Out(i) ==
    IF payment[i].st \in {"pending", "completed"}
    THEN payment[i].amount + payment[i].fee ELSE 0

BookedOut(i) == IF rows[i].refunded THEN rows[i].amount + rows[i].actual ELSE 0

\* No interleaving of the worker with redeems and deposits, no crash and no retry
\* makes or loses money: the wallet is what the books explain, but for payments
\* that are not booked yet, or that failed after they were booked, and for the
\* shares that were dropped (refund.go:217-224, 229-275).
BooksClose ==
    wallet = Explained + Surplus + dropped
               + SumFunction([i \in DOMAIN rows |-> BookedOut(i) - Out(i)])

\* One row at most is in flight, and it is the one that the worker is paying: no
\* way out of payRefund, and no crash, leaves a row where nobody retries it
\* (refund.go:16-24, 554-579).
InFlightIsCurrent ==
    worker.pc # "boot" => \A i \in DOMAIN rows : rows[i].inFlight => i = worker.at

\* The books say that a refund was paid only if the SDK has a payment for it.
PaidWasSent ==
    \A i \in DOMAIN rows :
        rows[i].refunded /\ rows[i].amount > 0 => payment[i].st # "none"

\* Without a crash, no refund costs more than the fee that was kept for it: payRefund
\* pays with the quote that it has compared with the row, and with no later one; that
\* the SDK takes no more than it quoted is assumed (refund.go:545-552, 581-601).
MarginsCover ==
    crashes = 0 => \A i \in DOMAIN rows : rows[i].fee >= 0

\* A refund that is booked as paid, or as dust, stays as it is (db.go:975, 1089).
RefundedFinal ==
    [][\A i \in DOMAIN rows : rows[i].refunded => rows'[i] = rows[i]]_vars

MoneyOf(i) ==
    CASE payment[i].st = "none"   -> "kept"
      [] payment[i].st = "failed" -> "back"
      [] OTHER                    -> "out"

SaidOf(i) ==
    IF ~rows[i].refunded THEN "open" ELSE IF rows[i].amount > 0 THEN "paid" ELSE "retained"

PayoutOf(i) == INSTANCE Payout
    WITH debit <- IF i \in DOMAIN rows THEN "taken" ELSE "none",
         money <- IF i \in DOMAIN rows THEN MoneyOf(i) ELSE "kept",
         said  <- IF i \in DOMAIN rows THEN SaidOf(i) ELSE "open",
         row   <- IF i \in DOMAIN rows THEN <<rows[i]>> ELSE <<>>

\* Each row is a payout: it starts with the debit of its voucher, its money leaves
\* once at most however often the row is retried, repriced or taken up after a crash,
\* it is booked as paid only if money was sent for it, and what is booked as paid or
\* as dust stays (refund.go:581-623, db.go:975, 1089).
ImplementsPayout ==
    [][\A i \in DOMAIN rows' : [PayoutOf(i)!Next]_(PayoutOf(i)!payout)]_vars

\* The worker comes back to its sleep, whatever fails (refund.go:499-501); and unless
\* the server has stopped between a payment and its booking, it gets past payoutsPaused
\* again and again, whatever redeems, deposits and failures do to the wallet and the
\* books between the two reads (refund.go:434-440).
WorkerGoesOn ==
    /\ []<>(worker.pc = "sleep")
    /\ [](crashes = 0) => []<>(worker.pc = "pending")

\* "Only call this when the SDK returned a definitive error (no money sent)."
\* (db.go:1074-1076)
FailedMeansNotSent ==
    [][\A i \in DOMAIN rows :
        rows'[i].retries > rows[i].retries => payment[i].st \in {"none", "failed"}]_vars
=============================================================================
