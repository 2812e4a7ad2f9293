--------------------------- MODULE OperatorWithdraw ---------------------------
(***************************************************************************)
(* The operator withdraws booked equity (admin.go:186-427), and start-up   *)
(* settles the withdrawals that a crash left pending (start-up.go:193-240).*)
(*                                                                         *)
(* A withdrawal goes to a bolt11 invoice, which carries its own amount, or *)
(* to an LNURL, where 0 asks for all the equity.  It goes on whether it    *)
(* got the payment lock or not (admin.go:251).  The vouchers, refunds and  *)
(* redeems beside it are reduced to what they hold and what they earn.     *)
(***************************************************************************)
EXTENDS Money, FiniteSets, Functions

CONSTANTS
    Withdrawals,   \* calls of handleAdminWithdraw
    Invoices,      \* msat of the bolt11 invoices presented
    Requests,      \* amount_msat asked of an LNURL, 0 = all
    Quotes,        \* routing fees the SDK may quote, or report of a payment
    Step,          \* msat that vouchers are funded with, redeem or earn at a time
    MaxHeld,       \* bound on what vouchers, refunds and redeems hold
    MaxEarned,     \* bound on the equity earned
    Surplus,       \* what the wallet holds at first beyond the books
    MaxCrashes     \* bound on crashes

ASSUME OperatorAssumption ==
    /\ IsFiniteSet(Withdrawals)
    /\ Withdrawals \cap {"redeem", "worker", "nobody", "cooldown", "broken"} = {}
    /\ Invoices \subseteq Nat \ {0} /\ Requests \subseteq Nat
    /\ Quotes \subseteq Nat
    /\ Step \in Nat /\ MaxHeld \in Nat /\ MaxEarned \in Nat /\ Surplus \in Nat
    /\ MaxCrashes \in Nat

VARIABLES
    row,        \* operator_txs of kind withdraw, by request
    payment,    \* the SDK's payment, by the idempotency key made from the row
    wallet,     \* balance of the Spark wallet
    held,       \* liabilities: voucher balances, refunds and pending redeems
    earned,     \* fees and dust booked so far
    pc,         \* where each request is
    seen,       \* what each request has read: the wallet, the cap, the quote it checks
    asked,      \* what each request sends
    sparkFee,   \* what a Spark transfer would cost each request (sparkFeeMsat, finalFeeMsat)
    owner,      \* the payment lock, see PaymentLock
    redeeming,  \* whether a redeem is under way
    boot,       \* start-up: whether it has listed the rows, and which it has to visit
    crashes,    \* history: crashes so far
    shared,     \* history: whether two withdrawals have paid at once
    over        \* history: what payments have cost beyond the quotes checked

books == <<row, held, earned>>
sdk   == <<payment, wallet>>
proc  == <<pc, seen, asked, sparkFee>>
vars  == <<books, sdk, proc, owner, redeeming, boot, crashes, shared, over>>

Lock == INSTANCE PaymentLock
    WITH Withdrawals <- Withdrawals \cup {"redeem"}, Refund <- "worker",
         Nobody <- "nobody", Cooldown <- "cooldown", Broken <- "broken"

NoRow     == [st |-> "none", amount |-> 0, fee |-> 0, keyed |-> FALSE, pid |-> FALSE]
NoPayment == [st |-> "none", fee |-> 0, spark |-> FALSE]

PC == {"idle", "gate", "acquire", "wallet", "cap", "bolt11", "lnurl", "insert", "key",
       "send", "sent", "failed", "confirm", "release", "done", "lost"}

TypeOK ==
    /\ row \in [Withdrawals -> [st : {"none", "pending", "confirmed", "failed"},
                                amount : Nat, fee : Nat, keyed : BOOLEAN, pid : BOOLEAN]]
    /\ payment \in [Withdrawals -> [st : {"none", "pending", "completed", "failed"},
                                    fee : Nat, spark : BOOLEAN]]
    /\ wallet \in Nat /\ held \in 0 .. MaxHeld /\ earned \in 0 .. MaxEarned
    /\ pc \in [Withdrawals -> PC]
    /\ seen \in [Withdrawals -> Nat]
    /\ asked \in [Withdrawals -> Nat]
    /\ sparkFee \in [Withdrawals -> Nat]
    /\ owner \in Withdrawals \cup {"redeem", "nobody", "cooldown", "broken"}
    /\ boot \in [pc : {"list", "visit", "served"}, todo : SUBSET Withdrawals]
    /\ redeeming \in BOOLEAN
    /\ crashes \in Nat
    /\ shared \in BOOLEAN
    /\ over \in Nat

Init ==
    /\ row = [w \in Withdrawals |-> NoRow]
    /\ payment = [w \in Withdrawals |-> NoPayment]
    /\ held = 0 /\ earned = 0
    /\ wallet = Surplus
    /\ pc = [w \in Withdrawals |-> "idle"]
    /\ seen = [w \in Withdrawals |-> 0]
    /\ asked = [w \in Withdrawals |-> 0]
    /\ sparkFee = [w \in Withdrawals |-> 0]
    /\ owner = "nobody" /\ redeeming = FALSE
    /\ boot = [pc |-> "list", todo |-> {}]
    /\ crashes = 0
    /\ shared = FALSE
    /\ over = 0

Serving == boot.pc = "served"

-----------------------------------------------------------------------------
(* The books: a withdrawal counts once it is confirmed (db.go:1544, 1423)  *)

Withdrawn(w) == IF row[w].st = "confirmed" THEN row[w].amount + row[w].fee ELSE 0

Available == earned - SumFunction([w \in Withdrawals |-> Withdrawn(w)])

Explained == held + Available

-----------------------------------------------------------------------------
(* The rest of the world                                                   *)

\* A voucher is funded.
Fund ==
    /\ held + Step <= MaxHeld
    /\ held' = held + Step /\ wallet' = wallet + Step
    /\ UNCHANGED <<row, earned, payment, proc, owner, redeeming, boot, crashes, shared, over>>

\* A transfer leaves its fee.
Earn ==
    /\ Serving
    /\ held >= Step /\ earned + Step <= MaxEarned
    /\ held' = held - Step /\ earned' = earned + Step
    /\ UNCHANGED <<row, sdk, proc, owner, redeeming, boot, crashes, shared, over>>

\* A redeem takes the lock, or the place that a broken lock leaves it ...
RedeemAcquires ==
    /\ Serving /\ ~redeeming
    /\ \/ Lock!Acquire("redeem")
       \/ owner = "broken" /\ UNCHANGED owner
    /\ redeeming' = TRUE
    /\ UNCHANGED <<books, sdk, proc, boot, crashes, shared, over>>

\* ... moves the money and leaves the cooldown, also if a withdrawal has gone past it.
RedeemPays ==
    /\ redeeming /\ redeeming' = FALSE
    /\ \/ Lock!Pay("redeem")
       \/ owner = "broken" /\ UNCHANGED owner
    /\ \/ /\ held >= Step /\ wallet >= Step
          /\ held' = held - Step /\ wallet' = wallet - Step
       \/ UNCHANGED <<held, wallet>>
    /\ UNCHANGED <<row, earned, payment, proc, boot, crashes, shared, over>>

\* A payment reported as pending ends; if it fails, the money comes back.
PaymentSettles(w) ==
    /\ payment[w].st = "pending"
    /\ \/ /\ payment' = [payment EXCEPT ![w].st = "completed"]
          /\ UNCHANGED wallet
       \/ /\ payment' = [payment EXCEPT ![w].st = "failed"]
          /\ wallet' = wallet + row[w].amount + payment[w].fee
    /\ UNCHANGED <<books, proc, owner, redeeming, boot, crashes, shared, over>>

CooldownEnds ==
    /\ Lock!Release
    /\ UNCHANGED <<books, sdk, proc, redeeming, boot, crashes, shared, over>>

-----------------------------------------------------------------------------
(* handleAdminWithdraw and payAdminWithdraw                                *)

Goto(w, from, to) ==
    /\ Serving
    /\ pc[w] = from
    /\ pc' = [pc EXCEPT ![w] = to]
    /\ UNCHANGED <<boot, crashes, redeeming>>

\* payoutsPaused reads the wallet first ...
Arrive(w) ==
    /\ Goto(w, "idle", "gate")
    /\ seen' = [seen EXCEPT ![w] = wallet]
    /\ UNCHANGED <<books, sdk, asked, sparkFee, owner, shared, over>>

\* ... and then the books.
Gate(w) ==
    /\ Goto(w, "gate", IF seen[w] >= Explained THEN "acquire" ELSE "done")
    /\ seen' = [seen EXCEPT ![w] = 0]
    /\ UNCHANGED <<books, sdk, asked, sparkFee, owner, shared, over>>

Paying == {"wallet", "cap", "bolt11", "lnurl", "insert", "key", "send", "sent", "failed",
           "confirm", "release"}

Enter(w) ==
    /\ Goto(w, "acquire", "wallet")
    /\ shared' = (shared \/ \E u \in Withdrawals : pc[u] \in Paying)
    /\ UNCHANGED <<books, sdk, seen, asked, sparkFee, over>>

Acquire(w) == Enter(w) /\ Lock!Acquire(w)

\* The lock was not to be had within the timeout: the result is not looked at.
EnterAnyway(w) == Enter(w) /\ owner # "nobody" /\ owner' = "broken"

\* Parse fails.
ParseFails(w) ==
    /\ Goto(w, "wallet", "release")
    /\ UNCHANGED <<books, sdk, seen, asked, sparkFee, owner, shared, over>>

\* The second ledgerStatement reads the wallet ...
ReadWallet(w) ==
    /\ Goto(w, "wallet", "cap")
    /\ seen' = [seen EXCEPT ![w] = wallet]
    /\ UNCHANGED <<books, sdk, asked, sparkFee, owner, shared, over>>

Cap(w) == withdrawCapMsat(seen[w], held, Available)

\* ... and the books.
ReadBooks(w) ==
    /\ IF Cap(w) < Sat
       THEN Goto(w, "cap", "release")
       ELSE Goto(w, "cap", "bolt11") \/ Goto(w, "cap", "lnurl")
    /\ seen' = [seen EXCEPT ![w] = Cap(w)]
    /\ UNCHANGED <<books, sdk, asked, sparkFee, owner, shared, over>>

Ask(w, amount, quote, spark) ==
    /\ seen' = [seen EXCEPT ![w] = quote]
    /\ asked' = [asked EXCEPT ![w] = amount]
    /\ sparkFee' = [sparkFee EXCEPT ![w] = spark]
    /\ UNCHANGED <<books, sdk, owner, shared, over>>

\* The amount is checked in whole satoshis, and sent as the invoice has it.  What is
\* checked with it is the fee by Lightning; a Spark transfer's is only kept (315-318).
PrepareBolt11(w) ==
    \E amount \in Invoices, quote \in Quotes, spark \in Quotes :
        /\ Goto(w, "bolt11", "insert")
        /\ WithdrawFits(WithdrawAmount(amount, seen[w], quote), seen[w], quote)
        /\ Ask(w, amount, quote, spark)

\* The fee is quoted at the amount asked for, and again at the amount sent; the second
\* quote stands for a Spark transfer too.
PrepareLnurl(w) ==
    \E requested \in Requests, estimate \in Quotes, quote \in Quotes :
        LET amount == WithdrawAmount(requested, seen[w], estimate)
        IN  /\ Goto(w, "lnurl", "insert")
            /\ WithdrawFits(amount, seen[w], estimate)
            /\ amount + quote <= seen[w]
            /\ Ask(w, amount, quote, quote)

\* A prepare fails, or the amount and its fee do not fit.
PrepareFails(w) ==
    /\ Goto(w, "bolt11", "release") \/ Goto(w, "lnurl", "release")
    /\ UNCHANGED <<books, sdk, seen, asked, sparkFee, owner, shared, over>>

SetRow(w, value) ==
    /\ row' = [row EXCEPT ![w] = value]
    /\ UNCHANGED <<held, earned>>

InsertOperatorTx(w) ==
    /\ Goto(w, "insert", "key")
    /\ SetRow(w, [NoRow EXCEPT !.st = "pending", !.amount = asked[w]])
    /\ UNCHANGED <<sdk, seen, asked, sparkFee, owner, shared, over>>

SetIdempotencyKey(w) ==
    /\ Goto(w, "key", "send")
    /\ SetRow(w, [row[w] EXCEPT !.keyed = TRUE])
    /\ UNCHANGED <<sdk, seen, asked, sparkFee, owner, shared, over>>

\* SendPayment or LnurlPay: the money leaves, and the call has yet to return.  A Spark
\* transfer costs what was quoted for it; a Lightning payment what it turns out to cost.
Send(w) ==
    \E st \in {"pending", "completed"}, spark \in BOOLEAN, fee \in Quotes :
        /\ Goto(w, "send", "sent")
        /\ spark => fee = sparkFee[w]
        /\ wallet >= asked[w] + fee
        /\ payment' = [payment EXCEPT ![w] = [st |-> st, fee |-> fee, spark |-> spark]]
        /\ wallet' = wallet - asked[w] - fee
        /\ over' = over + IF fee > seen[w] THEN fee - seen[w] ELSE 0
        /\ UNCHANGED <<books, seen, asked, sparkFee, owner, shared>>

\* It returns an error, and no money has left.
SendFails(w) ==
    /\ Goto(w, "send", "failed")
    /\ UNCHANGED <<books, sdk, seen, asked, sparkFee, owner, shared, over>>

\* failOperatorTx
MarkFailed(w) ==
    /\ Goto(w, "failed", "release")
    /\ SetRow(w, [row[w] EXCEPT !.st = "failed"])
    /\ UNCHANGED <<sdk, seen, asked, sparkFee, owner, shared, over>>

SetPaymentID(w) ==
    /\ Goto(w, "sent", "confirm")
    /\ SetRow(w, [row[w] EXCEPT !.pid = TRUE])
    /\ UNCHANGED <<sdk, seen, asked, sparkFee, owner, shared, over>>

\* Mutant: the routing fee is left at what the row was inserted with.
ConfirmedFree(w, fee) == IF row[w].st = "pending" THEN [row[w] EXCEPT !.st = "confirmed"] ELSE row[w]

\* markOperatorTxConfirmed flips a pending row only.
Confirmed(w, fee) ==
    IF row[w].st = "pending" THEN [row[w] EXCEPT !.st = "confirmed", !.fee = fee] ELSE row[w]

\* actualSendFeeMsat: what the payment says, or the quote of a Spark transfer.
ActualFee(w) == IF payment[w].spark THEN sparkFee[w] ELSE payment[w].fee

Confirm(w) ==
    /\ Goto(w, "confirm", "release")
    /\ SetRow(w, Confirmed(w, ActualFee(w)))
    /\ UNCHANGED <<sdk, seen, asked, sparkFee, owner, shared, over>>

\* The deferred releaseAfter: of the lock, if it is this request that has it.
Release(w) ==
    /\ Goto(w, "release", "done")
    /\ \/ Lock!Pay(w)
       \/ owner # w /\ UNCHANGED owner
    /\ seen' = [seen EXCEPT ![w] = 0]
    /\ sparkFee' = [sparkFee EXCEPT ![w] = 0]
    /\ UNCHANGED <<books, sdk, asked, shared, over>>

-----------------------------------------------------------------------------
(* Crash and start-up (resolvePendingOperatorWithdraws)                    *)

Crash ==
    /\ crashes < MaxCrashes
    /\ crashes' = crashes + 1
    /\ pc' = [w \in Withdrawals |-> IF pc[w] \in {"idle", "done"} THEN pc[w] ELSE "lost"]
    /\ seen' = [w \in Withdrawals |-> 0]
    /\ sparkFee' = [w \in Withdrawals |-> 0]
    /\ owner' = "nobody" /\ redeeming' = FALSE
    /\ boot' = [pc |-> "list", todo |-> {}]
    /\ UNCHANGED <<books, sdk, asked, shared, over>>

\* Mutant: rows that are settled are listed too.
BootListAll ==
    /\ boot.pc = "list"
    /\ boot' = [pc |-> "visit", todo |-> {w \in Withdrawals : row[w].st # "none"}]
    /\ UNCHANGED <<books, sdk, proc, owner, redeeming, crashes, shared, over>>

\* The rows are read to the end before any of them is changed.
BootList ==
    /\ boot.pc = "list"
    /\ boot' = [pc |-> "visit", todo |-> {w \in Withdrawals : row[w].st = "pending"}]
    /\ UNCHANGED <<books, sdk, proc, owner, redeeming, crashes, shared, over>>

BootVisit(w, value) ==
    /\ boot.pc = "visit" /\ w \in boot.todo
    /\ boot' = [boot EXCEPT !.todo = @ \ {w}]
    /\ SetRow(w, value)
    /\ UNCHANGED <<sdk, proc, owner, redeeming, crashes, shared, over>>

\* "interrupted before payment was sent"
BootFailsUnsent(w) ==
    /\ ~row[w].pid
    /\ BootVisit(w, [row[w] EXCEPT !.st = "failed"])

\* There is no quote any more for what a Spark transfer cost: it is booked as 0.
BootConfirms(w) ==
    /\ row[w].pid /\ payment[w].st = "completed"
    /\ BootVisit(w, Confirmed(w, IF payment[w].spark THEN 0 ELSE payment[w].fee))

BootFails(w) ==
    /\ row[w].pid /\ payment[w].st = "failed"
    /\ BootVisit(w, [row[w] EXCEPT !.st = "failed"])

\* No answer from the SDK, or a payment still pending.
BootSkips(w) ==
    /\ row[w].pid
    /\ BootVisit(w, row[w])

BootServes ==
    /\ boot.pc = "visit" /\ boot.todo = {}
    /\ boot' = [boot EXCEPT !.pc = "served"]
    /\ UNCHANGED <<books, sdk, proc, owner, redeeming, crashes, shared, over>>

-----------------------------------------------------------------------------
Withdraw(w) ==
    \/ Arrive(w) \/ Gate(w) \/ Acquire(w) \/ EnterAnyway(w) \/ ParseFails(w)
    \/ ReadWallet(w) \/ ReadBooks(w) \/ PrepareBolt11(w) \/ PrepareLnurl(w)
    \/ PrepareFails(w) \/ InsertOperatorTx(w) \/ SetIdempotencyKey(w) \/ Send(w)
    \/ SendFails(w) \/ MarkFailed(w) \/ SetPaymentID(w) \/ Confirm(w) \/ Release(w)

StartUp ==
    \/ BootList \/ BootServes
    \/ \E w \in Withdrawals :
        BootFailsUnsent(w) \/ BootConfirms(w) \/ BootFails(w) \/ BootSkips(w)

World ==
    \/ Fund \/ Earn \/ RedeemAcquires \/ RedeemPays \/ CooldownEnds
    \/ \E w \in Withdrawals : PaymentSettles(w)

Next == World \/ (\E w \in Withdrawals : Withdraw(w)) \/ StartUp \/ Crash

Spec == Init /\ [][Next]_vars

-----------------------------------------------------------------------------
(* Properties                                                              *)

\* What has left the wallet for a withdrawal.
Out(w) ==
    IF payment[w].st \in {"pending", "completed"} THEN row[w].amount + payment[w].fee ELSE 0

\* A withdrawal that ought to be booked at what it took: one that is neither between
\* its send and its confirmation nor cut off by a crash, and whose payment has not
\* failed after it was booked; one that start-up confirmed, unless it was a Spark
\* transfer; one that start-up failed because its payment had.
Exact(w) ==
    \/ pc[w] \notin {"sent", "confirm", "lost"} /\ payment[w].st # "failed"
    \/ row[w].st = "confirmed" /\ payment[w].st = "completed" /\ ~payment[w].spark
    \/ row[w].st = "failed" /\ row[w].pid

\* The wallet is what the books explain, but for withdrawals that are not exact:
\* whatever runs beside a withdrawal, its row ends at the amount and fee that left
\* the wallet (admin.go:326-362, db.go:1544).
BooksClose ==
    wallet = Explained + Surplus
      + SumFunction([w \in Withdrawals |-> IF Exact(w) THEN 0 ELSE Withdrawn(w) - Out(w)])

\* "Voucher/refund/redeem holds stay covered by the wallet" (admin.go:218-220), but for
\* what payments cost beyond the quotes that were checked -- the fee of a Spark transfer
\* is compared with nothing (admin.go:315-328), and a Lightning payment may cost more
\* than its quote (184-185) -- and for less than a satoshi, for the check of a bolt11
\* amount leaves the rest of it out: as long as no two withdrawals pay at once and no
\* crash hides one.
HoldsCovered ==
    ~shared /\ crashes = 0 => wallet + Sat + over > held /\ Available + Sat + over > 0

\* What is decided stays decided, although markOperatorTxFailed does not ask for a
\* pending row (admin.go:533-538).
RowFinal ==
    [][\A w \in Withdrawals : row[w].st \in {"confirmed", "failed"} => row'[w] = row[w]]_vars

\* "A row without one never reached the SDK send, so it is marked failed (no sats
\* left; equity is not stuck)." (start-up.go:195-196)
FailedMeansNotSent ==
    \A w \in Withdrawals :
        row[w].st = "failed" /\ ~row[w].pid => payment[w].st \in {"none", "failed"}
=============================================================================
