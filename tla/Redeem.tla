-------------------------------- MODULE Redeem --------------------------------
(***************************************************************************)
(* Redeeming a voucher: the LNURL-withdraw callback (handlers.go:756-960), *)
(* its rows in redeem_txs and redeem_sessions, the SDK payment it makes,   *)
(* and what start-up makes of the rows that a crash left pending           *)
(* (start-up.go:13-85).                                                    *)
(*                                                                         *)
(* A request is one call of the callback, and numbers the redeem_tx row    *)
(* that it may insert.  A step is one database statement or transaction,   *)
(* or one call of the SDK: between two of them other requests, transfers,  *)
(* the refund worker and time go on, and the process may crash.            *)
(***************************************************************************)
EXTENDS VoucherStore, FiniteSets, Functions

CONSTANTS
    Requests,      \* calls of the redeem callback
    Sessions,      \* k1 sessions
    Amounts,       \* msat of the invoices presented
    Quotes,        \* routing fees the SDK may quote
    Routes,        \* how the SDK may send: [fee, spark] records
    InitBalance,   \* what each voucher holds at first
    InitWallet,    \* what the wallet holds at first
    PoolSize,      \* database connections: SetMaxOpenConns(1), db.go:41
    MaxCrashes     \* bound on crashes

ASSUME RedeemAssumption ==
    /\ IsFiniteSet(Requests)
    /\ "nobody" \notin Requests /\ "cooldown" \notin Requests
    /\ Amounts \subseteq Nat \ {0}
    /\ Quotes \subseteq Nat
    /\ Routes \subseteq [fee : Nat, spark : BOOLEAN]
    /\ InitBalance \in Nat
    /\ InitWallet \in Nat
    /\ PoolSize \in Nat \ {0}
    /\ MaxCrashes \in Nat

VARIABLES
    voucher,    \* the vouchers table
    session,    \* redeem_sessions: the voucher of a k1, whether used, whether expired
    row,        \* redeem_txs, by request
    payment,    \* the SDK's payments, by the idempotency key made from the row
    wallet,     \* balance of the Spark wallet
    elsewhere,  \* what the other tables explain: refunds held, transfer income
    pc,         \* where each request is
    call,       \* the session and the amount of each request
    seen,       \* the wallet balance, then the quote, that a request has read
    owner,      \* the payment lock, see PaymentLock
    boot,       \* start-up: where it is, the rows still to visit, the row visited
    crashes,    \* history: crashes so far
    restored,   \* history: how often the debit of each row was given back
    edited,     \* history: vouchers that have been edited
    spent       \* history: redeems of each voucher since it was last edited, less those
                \* given back since

dbVars   == <<voucher, session, row, elsewhere>>
sdkVars  == <<payment, wallet>>
procVars == <<pc, call, seen>>
history  == <<restored, edited, spent>>
vars     == <<dbVars, sdkVars, procVars, owner, boot, crashes, history>>

Nobody == "nobody"
Lock == INSTANCE PaymentLock
    WITH Withdrawals <- Requests, Refund <- "worker", Cooldown <- "cooldown",
         Broken <- "broken"

NoSession == [voucher |-> "none", used |-> FALSE, expired |-> FALSE]
NoRow     == [st |-> "none", voucher |-> "none", msat |-> 0, fee |-> 0,
              pid |-> FALSE, actual |-> 0]
NoPayment == [st |-> "none", fee |-> 0, spark |-> FALSE]
NoCall    == [session |-> "none", msat |-> 0]

PC == {"idle", "gate", "check", "acquire", "mark", "prepare", "lookup", "insert",
       "undoRestore", "undoMark", "send", "sent", "failed", "restore", "setpid",
       "confirm", "release", "done", "lost"}

BootPC == {"query", "next", "confirm", "failed", "restore", "served"}

SessionRow == [voucher : Vouchers \cup {"none"}, used : BOOLEAN, expired : BOOLEAN]
RedeemRow  == [st : {"none", "pending", "confirmed", "failed"},
               voucher : Vouchers \cup {"none"}, msat : Nat, fee : Nat,
               pid : BOOLEAN, actual : Nat]
PaymentRow == [st : {"none", "pending", "completed", "failed"}, fee : Nat, spark : BOOLEAN]

TypeOK ==
    /\ voucher \in [Vouchers -> VoucherRow]
    /\ session \in [Sessions -> SessionRow]
    /\ row \in [Requests -> RedeemRow]
    /\ payment \in [Requests -> PaymentRow]
    /\ wallet \in Nat
    /\ elsewhere \in Nat
    /\ pc \in [Requests -> PC]
    /\ call \in [Requests -> [session : Sessions \cup {"none"}, msat : Nat]]
    /\ seen \in [Requests -> Nat]
    /\ owner \in Requests \cup {"nobody", "cooldown"}
    /\ boot \in [pc : BootPC, todo : SUBSET Requests, at : Requests \cup {"none"}]
    /\ crashes \in Nat
    /\ restored \in [Requests -> Nat]
    /\ edited \subseteq Vouchers
    /\ spent \in [Vouchers -> Int]

Init ==
    /\ voucher = [v \in Vouchers |-> Created(v, InitBalance)]
    /\ session = [s \in Sessions |-> NoSession]
    /\ row = [r \in Requests |-> NoRow]
    /\ payment = [r \in Requests |-> NoPayment]
    /\ wallet = InitWallet
    /\ elsewhere = 0
    /\ pc = [r \in Requests |-> "idle"]
    /\ call = [r \in Requests |-> NoCall]
    /\ seen = [r \in Requests |-> 0]
    /\ owner = Nobody
    /\ boot = [pc |-> "query", todo |-> {}, at |-> "none"]
    /\ crashes = 0
    /\ restored = [r \in Requests |-> 0]
    /\ edited = {}
    /\ spent = [v \in Vouchers |-> 0]

Serving == boot.pc = "served"

-----------------------------------------------------------------------------
(* The books (getLedgerStats and finalize)                                 *)

Held(r) == row[r].msat + row[r].fee

RowExplains(r) ==
    CASE row[r].st = "pending"   -> Held(r)
      [] row[r].st = "confirmed" -> row[r].fee - row[r].actual
      [] OTHER                   -> 0

Explained ==
    SumFunction([v \in Vouchers |-> voucher[v].bal])
        + SumFunction([r \in Requests |-> RowExplains(r)]) + elsewhere

-----------------------------------------------------------------------------
(* The rest of the world                                                   *)

\* handleLNURLWithdraw: a k1 is bound to a voucher that can be redeemed.  The row
\* is inserted before the balance is looked at, but then the k1 is not shown.
OpenSession(s, v) ==
    /\ Serving
    /\ session[s] = NoSession
    /\ wallet >= Explained   \* payoutsPaused, as one step: only a session depends on it
    /\ Live(voucher[v]) /\ ~voucher[v].terms.transfersOnly
    /\ voucher[v].bal - calculateRedeemFee(voucher[v].bal) >= Sat
    /\ voucher[v].terms.maxRedeem > 0 => voucher[v].terms.maxRedeem >= Sat
    /\ session' = [session EXCEPT ![s].voucher = v]
    /\ UNCHANGED <<voucher, row, elsewhere, sdkVars, procVars, owner, boot, crashes, history>>

\* Half an hour passes; that of a used session is never read.
SessionExpires(s) ==
    /\ session[s] # NoSession /\ ~session[s].used /\ ~session[s].expired
    /\ session' = [session EXCEPT ![s].expired = TRUE]
    /\ UNCHANGED <<voucher, row, elsewhere, sdkVars, procVars, owner, boot, crashes, history>>

\* The expiry of a voucher passes.
VoucherExpires(v) ==
    /\ voucher[v].clock # "passed"
    /\ voucher' = [voucher EXCEPT ![v].clock = "passed"]
    /\ UNCHANGED <<session, row, elsewhere, sdkVars, procVars, owner, boot, crashes, history>>

\* handleEditVoucher: one transaction, that finds a voucher whatever has become of it.
Edit(v) ==
    /\ Serving
    /\ \E terms \in Terms : \E clock \in Reclocked(voucher[v], terms) :
        voucher' = [voucher EXCEPT ![v] = Edited(@, terms, clock)]
    /\ edited' = edited \cup {v}
    /\ spent' = [spent EXCEPT ![v] = 0]
    /\ UNCHANGED <<session, row, elsewhere, sdkVars, procVars, owner, boot, crashes, restored>>

\* handleTransfer and processExpiredRefunds take money out of the voucher and
\* book it elsewhere.  Both act on a voucher that they looked up earlier: a
\* transfer on one that has expired, was refunded or became single-use since, the
\* worker on one whose expiry was renewed since.
Leaves(v, msat, after) ==
    /\ Serving
    /\ voucher' = [voucher EXCEPT ![v] = after]
    /\ elsewhere' = elsewhere + msat
    /\ UNCHANGED <<session, row, sdkVars, procVars, owner, boot, crashes, history>>

TransferOut(v) ==
    \E msat \in Amounts :
        /\ voucher[v].terms.single => v \in edited
        /\ msat <= voucher[v].bal
        /\ Leaves(v, msat, Debit(voucher[v], msat))

RefundExpired(v) ==
    /\ voucher[v].bal > 0 /\ voucher[v].clock # "running"
    /\ Leaves(v, voucher[v].bal, Refunded(voucher[v]))

\* A payment that the SDK had reported as pending ends; if it fails, the money
\* comes back.
PaymentSettles(r) ==
    /\ payment[r].st = "pending"
    /\ \/ /\ payment' = [payment EXCEPT ![r].st = "completed"]
          /\ UNCHANGED wallet
       \/ /\ payment' = [payment EXCEPT ![r].st = "failed"]
          /\ wallet' = wallet + row[r].msat + payment[r].fee
    /\ UNCHANGED <<dbVars, procVars, owner, boot, crashes, history>>

-----------------------------------------------------------------------------
(* handleLNURLWithdrawCallback                                             *)

Goto(r, from, to) ==
    /\ Serving
    /\ pc[r] = from
    /\ pc' = [pc EXCEPT ![r] = to]
    /\ UNCHANGED <<boot, crashes>>

\* payoutsPaused reads the wallet first ...
Arrive(r, s, msat) ==
    /\ Goto(r, "idle", "gate")
    /\ session[s] # NoSession
    /\ call' = [call EXCEPT ![r] = [session |-> s, msat |-> msat]]
    /\ seen' = [seen EXCEPT ![r] = wallet]
    /\ UNCHANGED <<dbVars, sdkVars, owner, history>>

\* ... and then the books.
Gate(r) ==
    /\ Goto(r, "gate", IF seen[r] >= Explained THEN "check" ELSE "done")
    /\ seen' = [seen EXCEPT ![r] = 0]
    /\ UNCHANGED <<dbVars, sdkVars, call, owner, history>>

Session(r) == session[call[r].session]
Usable(r)  == ~Session(r).used /\ ~Session(r).expired

CheckSession(r) ==
    /\ Goto(r, "check", IF Usable(r) THEN "acquire" ELSE "done")
    /\ UNCHANGED <<dbVars, sdkVars, call, seen, owner, history>>

Acquire(r) ==
    /\ Goto(r, "acquire", "mark")
    /\ Lock!Acquire(r)
    /\ UNCHANGED <<dbVars, sdkVars, call, seen, history>>

\* "server busy, please retry"
AcquireTimesOut(r) ==
    /\ Goto(r, "acquire", "done")
    /\ UNCHANGED <<dbVars, sdkVars, call, seen, owner, history>>

\* Mutant: the session is trusted as it was before the wait for the lock.
MarkUsedUnchecked(r) ==
    /\ Goto(r, "mark", "prepare")
    /\ session' = [session EXCEPT ![call[r].session].used = TRUE]
    /\ UNCHANGED <<voucher, row, elsewhere, sdkVars, call, seen, owner, history>>

MarkUsed(r) ==
    /\ Goto(r, "mark", IF Usable(r) THEN "prepare" ELSE "release")
    /\ session' = [session EXCEPT ![call[r].session].used = @ \/ Usable(r)]
    /\ UNCHANGED <<voucher, row, elsewhere, sdkVars, call, seen, owner, history>>

Prepare(r) ==
    /\ \E quote \in Quotes :
        /\ Goto(r, "prepare", "lookup")
        /\ seen' = [seen EXCEPT ![r] = quote]
    /\ UNCHANGED <<dbVars, sdkVars, call, owner, history>>

\* Mutant: this return comes before the deferred release.
PrepareFailsLocked(r) ==
    /\ Goto(r, "prepare", "done")
    /\ UNCHANGED <<dbVars, sdkVars, call, seen, owner, history>>

PrepareFails(r) ==
    /\ Goto(r, "prepare", "release")
    /\ UNCHANGED <<dbVars, sdkVars, call, seen, owner, history>>

Voucher(r) == Session(r).voucher

WithinLimit(r) ==
    LET max == voucher[Voucher(r)].terms.maxRedeem
    IN  max > 0 => call[r].msat <= max

Lookup(r) ==
    /\ Goto(r, "lookup",
            IF /\ Live(voucher[Voucher(r)])
               /\ ~voucher[Voucher(r)].terms.transfersOnly
               /\ WithinLimit(r)
            THEN "insert" ELSE "release")
    /\ UNCHANGED <<dbVars, sdkVars, call, seen, owner, history>>

\* Mutant: the fee is left out of what the voucher must hold.
PayableWithoutFee(r) ==
    /\ voucher[Voucher(r)].active
    /\ call[r].msat <= voucher[Voucher(r)].bal

\* The transaction of insertRedeemAndBalance reads the voucher again: it must be
\* active, may have expired since, and must hold the amount and today's fee.
Payable(r) ==
    LET v == voucher[Voucher(r)]
    IN  v.active /\ call[r].msat + calculateRedeemFee(v.bal) <= v.bal

InsertRedeemAndBalance(r) ==
    LET v   == Voucher(r)
        fee == calculateRedeemFee(voucher[v].bal)
    IN  /\ Goto(r, "insert", IF seen[r] > fee THEN "undoRestore" ELSE "send")
        /\ Payable(r)
        /\ voucher' = [voucher EXCEPT ![v] = Debit(@, call[r].msat + fee)]
        /\ row' = [row EXCEPT ![r] = [NoRow EXCEPT !.st = "pending", !.voucher = v,
                                                   !.msat = call[r].msat, !.fee = fee]]
        /\ spent' = [spent EXCEPT ![v] = @ + 1]
        /\ UNCHANGED <<session, elsewhere, sdkVars, call, seen, owner, restored, edited>>

InsertRefused(r) ==
    /\ Goto(r, "insert", "release")
    /\ ~Payable(r)
    /\ UNCHANGED <<dbVars, sdkVars, call, seen, owner, history>>

\* Mutant: addVoucherBalance(amount).
GiveBackAmount(r) ==
    /\ voucher' = [voucher EXCEPT ![row[r].voucher] = AddBalance(@, row[r].msat)]
    /\ restored' = [restored EXCEPT ![r] = @ + 1]
    /\ spent' = [spent EXCEPT ![row[r].voucher] = @ - 1]
    /\ UNCHANGED <<session, row, elsewhere, edited>>

\* addVoucherBalance(amount + fee)
GiveBack(r) ==
    /\ voucher' = [voucher EXCEPT ![row[r].voucher] = AddBalance(@, Held(r))]
    /\ restored' = [restored EXCEPT ![r] = @ + 1]
    /\ spent' = [spent EXCEPT ![row[r].voucher] = @ - 1]
    /\ UNCHANGED <<session, row, elsewhere, edited>>

\* updateRedeemTx
SetStatus(r, st, actual) ==
    /\ row' = [row EXCEPT ![r].st = st, ![r].actual = actual]
    /\ UNCHANGED <<voucher, session, elsewhere, history>>

\* The quote was above the fee: the balance goes back first, then the status.
UndoRestore(r) ==
    /\ Goto(r, "undoRestore", "undoMark")
    /\ GiveBack(r)
    /\ UNCHANGED <<sdkVars, call, seen, owner>>

UndoMark(r) ==
    /\ Goto(r, "undoMark", "release")
    /\ SetStatus(r, "failed", 0)
    /\ UNCHANGED <<sdkVars, call, seen, owner>>

\* SendPayment: the money leaves, and the call has yet to return.  What it costs may be
\* more than was looked at: a Spark fee is compared with nothing (829-832, 869), and a
\* Lightning quote is no more than that.
Send(r) ==
    \E route \in Routes, st \in {"pending", "completed"} :
        /\ Goto(r, "send", "sent")
        /\ wallet >= row[r].msat + route.fee
        /\ payment' = [payment EXCEPT
             ![r] = [st |-> st, fee |-> route.fee, spark |-> route.spark]]
        /\ wallet' = wallet - row[r].msat - route.fee
        /\ UNCHANGED <<dbVars, call, seen, owner, history>>

\* It returns the payment, in whatever state the payment is by then.
SendReturns(r) ==
    /\ Goto(r, "sent", "setpid")
    /\ UNCHANGED <<dbVars, sdkVars, call, seen, owner, history>>

\* It returns an error, and no money has left.
SendFails(r) ==
    /\ Goto(r, "send", "failed")
    /\ UNCHANGED <<dbVars, sdkVars, call, seen, owner, history>>

MarkFailed(r) ==
    /\ Goto(r, "failed", "restore")
    /\ SetStatus(r, "failed", 0)
    /\ UNCHANGED <<sdkVars, call, seen, owner>>

Restore(r) ==
    /\ Goto(r, "restore", "release")
    /\ GiveBack(r)
    /\ UNCHANGED <<sdkVars, call, seen, owner>>

SetPaymentID(r) ==
    /\ Goto(r, "setpid", "confirm")
    /\ row' = [row EXCEPT ![r].pid = TRUE]
    /\ UNCHANGED <<voucher, session, elsewhere, sdkVars, call, seen, owner, history>>

\* Mutant: the margin is booked as if the send had been free.
ConfirmFree(r) ==
    /\ Goto(r, "confirm", "release")
    /\ SetStatus(r, "confirmed", 0)
    /\ UNCHANGED <<sdkVars, call, seen, owner>>

\* Confirmed whatever the status of the payment: that is only logged.
Confirm(r) ==
    /\ Goto(r, "confirm", "release")
    /\ SetStatus(r, "confirmed", payment[r].fee)
    /\ UNCHANGED <<sdkVars, call, seen, owner>>

\* The deferred releaseAfter; the cooldown ends later.
Release(r) ==
    /\ Goto(r, "release", "done")
    /\ Lock!Pay(r)
    /\ seen' = [seen EXCEPT ![r] = 0]
    /\ UNCHANGED <<dbVars, sdkVars, call, history>>

CooldownEnds ==
    /\ Lock!Release
    /\ UNCHANGED <<dbVars, sdkVars, procVars, boot, crashes, history>>

-----------------------------------------------------------------------------
(* Crash and start-up (resolvePendingRedeemTxs)                            *)

Crash ==
    /\ crashes < MaxCrashes
    /\ crashes' = crashes + 1
    /\ pc' = [r \in Requests |-> IF pc[r] \in {"idle", "done"} THEN pc[r] ELSE "lost"]
    /\ seen' = [r \in Requests |-> 0]
    /\ owner' = Nobody
    /\ boot' = [pc |-> "query", todo |-> {}, at |-> "none"]
    /\ UNCHANGED <<dbVars, sdkVars, call, history>>

BootGoto(from, to, todo, at) ==
    /\ boot.pc = from
    /\ boot' = [pc |-> to, todo |-> todo, at |-> at]
    /\ UNCHANGED <<sdkVars, procVars, owner, crashes>>

\* Mutant: WHERE status = pending is missing.
BootQueryAll ==
    /\ BootGoto("query", "next", {r \in Requests : row[r].st # "none"}, "none")
    /\ UNCHANGED <<dbVars, history>>

\* The query takes a connection and keeps it while its rows are visited.
BootQuery ==
    /\ BootGoto("query", "next", {r \in Requests : row[r].st = "pending"}, "none")
    /\ UNCHANGED <<dbVars, history>>

\* No payment id, no answer from the SDK, or a payment still pending: next row.
BootSkip(r) ==
    /\ r \in boot.todo
    /\ BootGoto("next", "next", boot.todo \ {r}, "none")
    /\ UNCHANGED <<dbVars, history>>

\* Mutant: what has not completed is taken to have failed.
BootVisitEager(r) ==
    /\ r \in boot.todo
    /\ row[r].pid
    /\ \/ payment[r].st = "completed" /\ BootGoto("next", "confirm", boot.todo \ {r}, r)
       \/ payment[r].st # "completed" /\ BootGoto("next", "failed", boot.todo \ {r}, r)
    /\ UNCHANGED <<dbVars, history>>

BootVisit(r) ==
    /\ r \in boot.todo
    /\ row[r].pid
    /\ \/ payment[r].st = "completed" /\ BootGoto("next", "confirm", boot.todo \ {r}, r)
       \/ payment[r].st = "failed"    /\ BootGoto("next", "failed", boot.todo \ {r}, r)
    /\ UNCHANGED <<dbVars, history>>

\* A statement of its own needs a second connection.
Connection == PoolSize > 1

\* There is no quote any more for what a Spark transfer cost: it is booked as 0.
BootConfirm ==
    /\ Connection
    /\ BootGoto("confirm", "next", boot.todo, "none")
    /\ SetStatus(boot.at, "confirmed",
                 IF payment[boot.at].spark THEN 0 ELSE payment[boot.at].fee)

BootMarkFailed ==
    /\ Connection
    /\ BootGoto("failed", "restore", boot.todo, boot.at)
    /\ SetStatus(boot.at, "failed", 0)

BootRestore ==
    /\ Connection
    /\ BootGoto("restore", "next", boot.todo, "none")
    /\ GiveBack(boot.at)

BootServes ==
    /\ boot.todo = {}
    /\ BootGoto("next", "served", {}, "none")
    /\ UNCHANGED <<dbVars, history>>

-----------------------------------------------------------------------------
RequestStep(r) ==
    \/ Gate(r) \/ CheckSession(r) \/ Acquire(r) \/ AcquireTimesOut(r) \/ MarkUsed(r)
    \/ Prepare(r) \/ PrepareFails(r) \/ Lookup(r) \/ InsertRedeemAndBalance(r)
    \/ InsertRefused(r) \/ UndoRestore(r) \/ UndoMark(r) \/ Send(r) \/ SendReturns(r)
    \/ SendFails(r) \/ MarkFailed(r) \/ Restore(r) \/ SetPaymentID(r) \/ Confirm(r)
    \/ Release(r)

BootStep ==
    \/ BootQuery \/ BootConfirm \/ BootMarkFailed \/ BootRestore \/ BootServes
    \/ \E r \in Requests : BootVisit(r) \/ BootSkip(r)

World ==
    \/ \E s \in Sessions : SessionExpires(s) \/ \E v \in Vouchers : OpenSession(s, v)
    \/ \E v \in Vouchers : VoucherExpires(v) \/ Edit(v) \/ TransferOut(v) \/ RefundExpired(v)
    \/ \E r \in Requests : PaymentSettles(r)
    \/ \E r \in Requests, s \in Sessions, msat \in Amounts : Arrive(r, s, msat)

Next ==
    \/ World
    \/ \E r \in Requests : RequestStep(r)
    \/ CooldownEnds
    \/ BootStep
    \/ Crash

(* A handler runs on, the SDK answers it, the timer of the lock and the    *)
(* cooldown run out, and start-up goes on.  Nobody has to call, a pending  *)
(* payment may stay pending, and the SDK may not answer start-up.          *)
Fairness ==
    /\ \A r \in Requests : WF_vars(RequestStep(r))
    /\ WF_vars(CooldownEnds)
    /\ WF_vars(BootStep)

Spec == Init /\ [][Next]_vars /\ Fairness

-----------------------------------------------------------------------------
(* Properties                                                              *)

\* A debit is given back at most once, and never once the SDK has made the
\* payment: whatever crashes, fails or is resolved at start-up, a voucher is not
\* both paid out and restored (handlers.go:869-921, start-up.go:57-77).
NeverPaidAndRestored ==
    \A r \in Requests :
        /\ restored[r] <= 1
        /\ restored[r] = 1 => payment[r].st \in {"none", "failed"}

\* A k1 buys at most one redeem, however many callbacks present it and however
\* they interleave with the wait for the lock (handlers.go:793 against 805).
OneRowPerSession ==
    \A q, r \in {p \in Requests : row[p].st # "none"} :
        q # r => call[q].session # call[r].session

\* A voucher that is single-use is redeemed at most once since it was created or last
\* edited, but for as many redeems as have been given back since: whatever callbacks,
\* crashes and start-up do, and whatever transfers that were looked up before the edit
\* take of it.  An edit finds a spent voucher too and makes it active again
\* (db.go:504-507, 530, 1132, 1147).
SingleUseOnce ==
    \A v \in Vouchers : voucher[v].terms.single => spent[v] <= 1

\* What the books say of a redeem beyond, or short of, what it did to the wallet.
Out(r) ==
    IF payment[r].st \in {"pending", "completed"} THEN row[r].msat + payment[r].fee ELSE 0

Gap(r) ==
    CASE row[r].st = "pending"   -> -Out(r) - (IF restored[r] > 0 THEN Held(r) ELSE 0)
      [] row[r].st = "failed"    -> IF restored[r] > 0 THEN 0 ELSE Held(r)
      [] row[r].st = "confirmed" -> row[r].msat + row[r].actual - Out(r)
      [] OTHER                   -> 0

\* What the wallet holds at first beyond the books, or short of them.
Surplus == InitWallet - SumFunction([v \in Vouchers |-> InitBalance])

\* The wallet is what the books explain, but for the gaps of redeems that are
\* under way or that a crash cut short: no interleaving of redeems, transfers and
\* refunds loses or makes money (finalize, db.go:1397-1432).
BooksClose ==
    wallet = Explained + SumFunction([r \in Requests |-> Gap(r)]) + Surplus

\* Without a crash, and with every send booked with its fee, no redeem leaves the
\* wallet short of the books, so none makes payoutsPaused stop the next one.
NeverShortAtRest ==
    crashes = 0 /\ (\A r \in Requests : pc[r] \in {"idle", "gate", "check", "acquire", "done"})
        => wallet >= Explained

\* What is decided stays decided: a row that is confirmed or failed is never
\* changed again, neither by its request nor at start-up (start-up.go:24-26).
RowFinal ==
    [][\A r \in Requests : row[r].st \in {"confirmed", "failed"} => row'[r] = row[r]]_vars

DebitOf(r) ==
    IF row[r].st = "none" THEN "none" ELSE IF restored[r] > 0 THEN "returned" ELSE "taken"

MoneyOf(r) ==
    CASE payment[r].st = "none"   -> "kept"
      [] payment[r].st = "failed" -> "back"
      [] OTHER                    -> "out"

SaidOf(r) ==
    CASE row[r].st = "confirmed" -> "paid"
      [] row[r].st = "failed"    -> "failed"
      [] OTHER                   -> "open"

PayoutOf(r) == INSTANCE Payout
    WITH debit <- DebitOf(r), money <- MoneyOf(r), said <- SaidOf(r), row <- row[r]

\* Each request is a payout: its debit comes before its payment, no money leaves
\* twice or once the debit is back, the row says confirmed only of a payment that was
\* made and failed only of one that was not or that bounced, and then says nothing
\* else: through every crash, and whoever marks the row (handlers.go:867-921,
\* start-up.go:57-79).
ImplementsPayout ==
    /\ \A r \in Requests : PayoutOf(r)!Init
    /\ [][\A r \in Requests : [PayoutOf(r)!Next]_(PayoutOf(r)!payout)]_vars

\* Whoever has the lock can go on: no way out of the callback leaves it behind, and
\* none of its steps waits for something that never comes, not even for a connection.
\* The callback has no loop, so by its fairness the lock is given back (handlers.go:802).
HolderGoesOn ==
    \A r \in Requests : owner = r => ENABLED RequestStep(r)

\* However often it crashes, the server serves again: start-up gets past the pending
\* redeems.  "a completed payment is marked
\* confirmed; a failed payment is marked failed and the deducted balance is
\* restored" (start-up.go:17-19).
StartupServes ==
    []<>Serving

\* "Rows without a payment id (crash before SendPayment returned) are NOT resolved
\* automatically - the balance stays deducted pending manual review"
\* (start-up.go:19-20).
PendingMeansDeducted ==
    \A r \in Requests :
        row[r].st = "pending" /\ pc[r] = "lost" => restored[r] = 0
=============================================================================
