# Formal models of satoshi-note

satoshi-note issues bearer vouchers whose balances live in one SQLite file, takes money in
over Lightning invoices, pays it out over LNURL-withdraw, and sends what nobody collected
back to refund addresses. One wallet, reached through the Breez Spark SDK, holds everybody's
money; the tables only say whose it is. What can go wrong is therefore mostly one of three things: a
statement and an SDK call that belong together are cut apart by a crash, two handlers act on
what was true a moment ago, or a row says something else than the wallet did.

The modules here translate that part of the Go code: what each handler reads and writes,
in which order, under which guards. TLC checks them on small instances, TLAPS proves the
central properties for every size.

## 1. Inventory

| Component | State | Operations | Talks to |
|---|---|---|---|
| payment semaphore (`payment_mutex.go`) | one-slot channel, `withdrawWaiters`, `releasedCh` under a mutex | `acquireForWithdrawal` (5 s), `acquireForRefund` (yields), `releaseAfter` | held by redeem callback, operator withdrawal, refund worker |
| redeem (`handlers.go` 681-960, `start-up.go` 13-85) | `redeem_sessions`, `redeem_txs`, balances | LNURL step 1, callback, resolution of pending rows at start-up | semaphore, SDK, ledger gate |
| funding (`handlers.go` 346-488, 962-1044, `breez.go`, `start-up.go` 87-138) | `fund_txs`, balances | invoice, event of a payment, catch-up at start-up, immediate refunds | SDK events; `refund_txs` |
| transfers (`handlers.go` 491-654) | `transfer_txs`, `redemption_fingerprints`, balances | one request | - |
| refund worker (`refund.go`) | `refund_txs`, balances, `last_at` of regular refunds | expired pass, regular pass, requeue, pay, retry, reset after a crash, sleep until what is due next | semaphore, SDK, ledger gate, `refundWake` |
| operator withdrawals and deposits (`admin.go`, `start-up.go` 139-240) | `operator_txs` | withdraw, deposit, resolution at start-up | semaphore, SDK, ledger |
| ledger (`db.go` 1206-1620, `admin.go` 22-105) | none, sums over all tables | `payoutsPaused`, `/ledger` | `GetInfo`, then one query |
| vouchers (`models.go`, `db.go`) | `vouchers`, `voucher_refund_codes` | create, edit, debit, credit, restore, clear; expiry | all of the above |
| amounts (`helpers.go`, `refund.go`, `admin.go`) | none | fees, splits, shares, rounding, cap | - |
| start-up (`main.go`) | - | sync, open the database, catch up, serve | all of the above |
| read-only endpoints, rate limiter, routing, admin page, configuration, schema | - | - | - |

What is hard about each, and what makes it correct:

- **Semaphore.** Token, counter and broadcast channel are three objects that no lock covers
  together. One payment per cooldown, refunds behind withdrawals, nobody left asleep.
- **Redeem.** Debit, send and booking are three steps of which a crash may leave one or two;
  the send may fail, stay pending, or succeed and fail later. A debit is either paid or
  given back, never both; a k1 buys one redeem; the books explain the wallet.
- **Funding.** The same payment reaches the code twice or never; the voucher that was to get
  it may be gone. It is booked once, completely, on a voucher that is live.
- **Refund worker.** It acts on lists read earlier, retries across crashes with an
  idempotency key, reprices under another configuration. Nothing is paid twice, nothing
  stays in flight, it always comes back to its sleep.
- **When to refund.** The worker sleeps for as long as the database said a moment ago, and
  handlers change the database meanwhile; it reads its clock, its list and the refund codes
  at three times, and acts on each voucher at a fourth. Nothing is slept through but what came
  due during the pass, each time of a schedule is served once, a refund goes where it was last
  asked to go.
- **Operator.** It may spend equity and nothing else, while equity and holds move, and while
  it may not even have the lock.

## 2. Modules

| Module | What it is |
|---|---|
| `Money` | fees, splits, shares, cap (operators only) |
| `Sums` | lemmas: what `SumFunction` of the community modules adds up to, and splits with it |
| `VoucherStore` | a row of `vouchers` and the statements on it |
| `PaymentLock` | abstract: who may pay |
| `Payout` | abstract: what one payout promises, from the debit to its last word |
| `PaymentSemaphore` (+`MC`, `Proofs`) | `payment_mutex.go`; implements `PaymentLock` |
| `Redeem` (+`MC`, `Proofs`, `RedeemBooks`) | callback, crash, start-up |
| `Refund` (+`MC`, `Proofs`) | refund worker: what it pays, and how |
| `Schedule` (+`MC`, `Proofs`) | creation and edit of vouchers, and when the refund worker refunds which |
| `Funding` (+`MC`, `Proofs`) | invoices, events, catch-up, transfers, deposits |
| `OperatorWithdraw` (`OperatorMC`, `OperatorProofs`) | operator withdrawals and their resolution |

`Payout` is what the redeem callback and the refund worker have in common: the amount leaves
the voucher before any money moves, the money leaves the wallet once at most and is back only
if the SDK's payment failed, the debit is given back once at most and not while the money is
out, and the table says "paid" or "failed" of what is so, once. `Redeem` shows that each request
implements it, and `Refund` each row of `refund_txs`, from the split that makes it; the mapping
(`PayoutOf`) reads the debit and the word from the row and the money from the SDK's payment.
Both check it as an action property (`ImplementsPayout`) and prove it. An operator withdrawal
does not implement it: what it takes is not debited before the send, and what start-up fails
may have been sent (finding 5).

`Redeem` and `Refund` use the lock through `INSTANCE PaymentLock`: they rely on what
`ImplementsLock` shows of the semaphore, not on its channels. Each of the four modules that
move money has its own tables in detail and the others' as one number (`elsewhere`, `held`,
or a reduced redeem): the effect of another component on a voucher is there, its phases are
not. `OperatorWithdraw` has the two phases of a redeem that matter to it (`redeeming`): one that
has the lock goes on even if an operator, whose wait has timed out, pays beside it.

The refund worker is in two modules, since what it pays and when it looks do not need each
other's detail. `Refund` has the rows, shares, prices and payments, and a worker that may wake
at any time and find anything due. `Schedule` has the clock, the deadlines, the schedules of
regular refunds, the signal and the sleep, with a refund as one number; every wake-up of its
worker is one that `Refund` allows. Vouchers are created and edited in `Schedule`, where
`parseVoucherParams` decides what a row may say.

What a voucher allows (`single`, `absolute`, `transfersOnly`, `maxRedeem`) is part of its row in
`VoucherStore`: `InitTerms` is what it was created with, and `Terms` what an edit may make of it.
`Redeem` has the edit as an action of the world (`Edit`), between any two steps of a callback: it
finds a voucher whatever has become of it (`db.go:1132`) and makes it active again (`db.go:1147`).

**How code becomes steps.** The database has one connection, so a statement or a
transaction is atomic and is one action; so is one SDK call, except that a send is two, the
money leaving and the call returning, since the process may stop between them. Everything
that happens between two such steps of a handler is an interleaving. A handler is a program
counter (`pc`, `worker.pc`, `boot.pc`, `transfer[t].pc`) plus what it has read (`seen`,
`call`, `worker.list`, the `dst` of a transfer). An early return is a step to `release` or
`done`. Reads that go before a transaction and only decide whether to enter it are one step
(`TransferLookup`); the reads inside the transaction are part of it.

**Time** is what it decides. The expiry clock of a voucher runs, has passed, or was renewed:
an absolute expiry counts from `created_at`, a relative one from `updated_at`, so whoever
writes `updated_at` revives an expired relative voucher (`Touched`). Invoices
and sessions expire as events, waits end as actions of their own. In `Schedule` time is a
number of seconds, as in the database. A second that ends is a step like any other, so a pass
may take any time, and the clock may tick between the worker's own reading of it
(`refund.go:283`) and the database's (`db.go:835`).

**The SDK** is external. A send either moves the money or returns an error without having
moved it; a payment reported as pending completes or fails later, and a failed one returns
the money; a second send with the same key returns the first payment; the event of a payment
is delivered at most once and is lost if the process stops first.

**Correspondence.** `PROJECT.json` maps every definition that stands for code to its lines.
Names are the code's where it has one (`InsertRedeemAndBalance`, `ResetKeyedInFlight`,
`UpdateFundTxConfirmed`). Operators whose comment starts with "Mutant:" are not part of the
model: they are what a plausible slip would look like, and each property has one that breaks
it.

## 3. Runs

| Run | Question | Instance |
|---|---|---|
| `lock` | Is `payment_mutex.go` a lock with cooldown, and does everybody return? | 1 redeem, 1 operator withdrawal that ignores its timeout once, the worker, 2 releases under way |
| `lost_wakeup` | Can the worker sleep with the token free? **Yes.** | 2 redeems, the worker |
| `redeem` | Is each request a `Payout`? Paid or restored, once per k1, once per single-use voucher, books close, whoever has the lock can go on | 2 callbacks, 2 sessions, 1 voucher, at first single-use and absolute, which any number of edits make plain, open to transfers only, or single-use again; a Lightning route, and a Spark route that costs more than is held back; quotes below and above the fee; 1 crash |
| `startup_deadlock` | Does start-up get past a pending redeem? **No.** | 1 callback, 1 crash, one connection |
| `restored_while_pending` | Is the balance of a pending row deducted? **Not always.** | 1 callback, 1 crash |
| `refund` | Is each row a `Payout`? Books, in-flight rows, margins, the worker's progress | 1 voucher with two codes (1:5, so that one share can be below the minimum), regular and expired, a redeem, a deposit, 2 fee levels, 2 retries, 1 crash |
| `schedule` | Is what is due refunded, once, when and where it was asked? | 1 voucher; requests with a schedule of every second, with one of every third that starts before it, with immediate refunds, absolute and single-use, and two that are not valid; a cap below what is asked for; 2 edits, deposits or transfers, any number of redeems, 1 failure or crash; 3 s in which all happens, 4 more in which the worker gets to it |
| `refund_failed` | Is a refund counted as failed only if nothing was sent? **No.** | the same without requeueing |
| `funding` | Is a payment booked once, completely, on the living? | a batch of two (one single-use, absolute, with immediate refunds), 1 invoice or deposit, 2 transfers with one fingerprint, of an amount above and one below the fee, over- and underpayment, 2 crashes or failures of the SDK at start-up, the first start-up included |
| `paid_never_credited` | Is every paid invoice credited? **No.** | 1 voucher, 1 invoice |
| `operator` | What left is booked, holds stay covered but for what was not checked | 2 withdrawals, with or without the lock, by Lightning or Spark, at fees up to a satoshi above what was checked, moving holds and equity, 1 crash |
| `operator_failed` | Is a failed withdrawal unsent? **No.** | 1 withdrawal, 1 crash |

**Why the bounds are enough.** The properties relate at most two requests (two callbacks
with a k1, two debits of a voucher, two owners of the lock, two transfers with a
fingerprint), so two of each is the smallest instance in which each can fail; the mutants
show that each does. One crash is the smallest number that cuts a handler apart, two (in
`funding`) the smallest that cut the start-up that follows; `NeverPaidAndRestored` and its
companions are proved for any number. Amounts are a few
units of a satoshi of 1 or 2 msat: large enough for a remainder, a share below the minimum,
a fee above a quote, a fee above an amount. The `redeem` run has one voucher: what its
properties relate are the redeems of one, nothing but a sum relates two, and the proofs are for
any number. `MaxRetries` is 2 where the code has 3, so that
abandonment and repricing are within reach. `MaxOverdrawn`, `MaxHeld` and `MaxEarned` stop
counters that the code does not bound.

`schedule` has one voucher: the worker deals with its list voucher by voucher, nothing relates
two of them but the order in which it does, and two are beyond what TLC can enumerate. The
proofs are for any number. `Horizon` is when callers and failures stop; after it the worker's
passes take no time, so that `MaxNow` is late enough for it to wake (after `MaxSleep`, 3 s in
place of an hour) and for the last deadline to pass. A safety property needs none of these
bounds: the proofs do not use them.

The largest instances have 0.9 million distinct states (`schedule`, two minutes), 0.8 million
(`funding`), 1.2 million (`operator`, symmetry of the withdrawals used), 0.5 million (`redeem`,
symmetry of the callbacks and of the sessions) and 0.3 million (`refund`).

The `redeem` run has `PoolSize = 2` where the code has one connection. The pool is only a
guard (`Connection`) on three steps of start-up, so the instance has every behaviour of the
code and those that it would have if start-up got on; with one connection the resolution of
pending rows would never be checked at all. The `startup_deadlock` run has 1.

`CHECK_DEADLOCK FALSE` stands where a model can come to rest: all calls are made, all
vouchers have expired, all payments have settled, the clock is at its end. `lock` and `refund` never rest and check
deadlock.

**Fairness.** A goroutine that can go on does (weak fairness of each handler, of the worker,
of each release, of start-up): that is the Go scheduler. `acquireForWithdrawal` has strong
fairness on its timeout, because the timer of a `select` fires although the token may come
and go. The SDK answers: every call has a step that returns. Cooldowns end. The worker is
woken, at the latest after an hour (`refund.go:34`). In `Schedule` that is not assumed but part
of the model: time passes, the loop goes on, whoever has committed signals, and a worker whose
time has come or who has a signal wakes before the next second ends (`Tick`), as a timer and a
channel would have it. In `Funding` the process is started
again whenever it stops, and events are delivered while it is up. Nothing makes anybody
call, pay, or settle a pending payment, and no fairness makes a send succeed. The operator
module states no liveness and assumes no fairness.

## 4. What the runs show

Holding in the instances:

- one payment per cooldown and refunds behind withdrawals, as long as no caller ignores a
  timeout (`OnePaymentPerCooldown`, `TokenHeld`, `RefundYields`, `ImplementsLock`);
- in every interleaving the wallet is what the books explain, up to terms that are spelled
  out in each `BooksClose`: rows between send and booking, rows that a crash left there,
  payments that failed after they were booked, Spark fees that start-up books as 0, shares
  below the minimum that are dropped. This is the property that most mutants break;
- each redeem and each refund is a `Payout`, whatever crashes, retries, repricings and late
  failures come between its steps (`ImplementsPayout`);
- no redeem is paid and restored; no k1 buys two; a single-use voucher is redeemed once since it
  was created or last edited, but for redeems given back (`SingleUseOnce`). An edit starts it
  anew: `handleEditVoucher` finds a voucher that is spent (`db.go:1132`) and makes it active
  (`db.go:1147`), and whatever it still holds can be redeemed;
- without a crash no redeem leaves the wallet short of the books (`NeverShortAtRest`), so
  none makes `payoutsPaused` stop the next. The fee of a Spark transfer is compared with nothing
  (`handlers.go:829-832`, `:869`) and may be more than was held back; it is booked as it was, and
  the loss is equity's;
- whoever has the lock in a redeem can take its next step (`HolderGoesOn`): none of the
  ways out leaves it behind;
- the refund worker leaves nothing in flight, pays nothing twice, and always sleeps again; and
  while there is no crash, it gets past `payoutsPaused` again and again (`WorkerGoesOn`),
  although that reads the wallet before the books. After a crash it need not: with the surplus
  of `Refund.cfg` a payment that is not booked can leave the wallet short for good;
- of the times that creates, edits and deposits have set, it sleeps only past those that came due
  in the course of its last pass (`NothingOverslept`, see below); it refunds every expired
  balance that nobody renews and serves every time of a schedule, once, through crashes and
  failing statements;
- wherever there is money there is a deadline, `MAX_VOUCHER_EXPIRE_SECONDS` away at most;
- a payment is credited once, to vouchers live at that moment, wherever it is booked, and a
  crash before that is made good at start-up, unless some paid voucher is gone;
- one operator withdrawal at a time stays within equity and leaves holds covered
  (`HoldsCovered`), but for two things: less than a satoshi, since `admin.go:289` floors the
  amount for the check and the invoice is paid in full; and what payments cost beyond the quotes
  that were checked (`over`). Only the Lightning quote of an invoice is compared with the cap.
  `SparkTransferFeeSats` is kept, paid and booked (`admin.go:315-318`, `:348`) but compared with
  nothing, and a Lightning payment may cost more than its quote (`:184-185`): by that much the
  holds are not covered.

Violated, each listed under `findings` with the sentence it contradicts:

1. **Lost wake-up** (`payment_mutex.go:73`). The worker can fetch the released channel after
   the only release has replaced it and sleep although the token is free, until somebody
   else pays.
2. **Start-up blocks** (`start-up.go:61`). Resolving a pending redeem that has a payment id
   needs a second connection while the query holds the only one.
3. **Restored while pending** (`handlers.go:870`). Balance first, status second.
4. **Refund failed but sent** (`refund.go:537`). After a crash a row whose payment went out
   can collect failures in `PrepareLnurlPay`, be abandoned and repriced.
5. **Operator withdrawal failed but sent** (`start-up.go:204`). No payment id does not mean no
   payment.
6. **Paid, never credited** (`handlers.go:1015`). A voucher that expires between invoice and
   payment leaves a row that is pending and paid; the event's error is logged, and from then
   on `checkPendingFundTXs` returns it at every start and `main` exits.

`Schedule` shows some things that no document speaks of, each in a property as the case that
it leaves out:

- An edit between the worker's list and its transaction (`refund.go:308`, `db.go:888`): the
  anchor of the old schedule is written over the `last_at` that the edit had reset
  (`adrift`). If it comes after the refund codes were read (`refund.go:201`), the refund goes
  to the old ones (`"codes"` in `touched`). A voucher that is funded, renewed or edited in that
  window is refunded in full and closed all the same (`"row"`).
- A second that ends between the clock of a regular pass (`refund.go:283`) and its list
  (`db.go:835`): the time that is due is refunded, but the anchor is the one before, so the
  voucher is still due, and what is deposited next may be refunded for the same time
  (`early`). For a first time the anchor is `first_at - interval`; if the interval is longer
  than `first_at` that is below zero, and `getRegularRefundDueVouchers` never lists the voucher
  again.
- `nextRefundAt` asks for times after its own (`db.go:919`). What comes due after the pass has
  listed what had expired (`refund.go:186`), or has taken the time for its regular refunds (283),
  and before that query, is slept past, an hour at most, also if a create, an edit or a deposit
  set it: its signal may be what this pass, or an earlier one, has started with.
  `NothingOverslept` says that nothing else is: what is due and still there was not due when the
  pass looked (`looked`), and what is yet to come ends the sleep.
- Transfers, redeems and restored balances send no signal (`quiet`), and what a failing statement
  has kept the worker from it does not take up before it wakes again (`missed`).
- A voucher that had no balance when it was listed is passed over although it was funded
  since (`refund.go:312`): it loses that time of its schedule, not the money.
- An edit may give an absolute voucher a deadline that has passed already, and a transfer into
  a voucher with immediate refunds is not swept (`handlers.go:600`) until the next deposit.

The models also have `EventCrashes`: the SDK's listener is registered before the database is
opened (`main.go:29`, `:42`), and an event in between dereferences a nil `*sql.DB`. Start-up
makes good what that loses, which `PaidIsCreditedOrOrphaned` includes.

## 5. Proofs

`PaymentSemaphoreProofs`, for any set of redeems, impatient callers and releases. The only
assumptions are that the withdrawals are a finite set and that the names are distinct. The inductive
invariant adds to `TypeOK` that the waiter counter counts exactly the withdrawals inside
`acquireForWithdrawal` (`Counted`; otherwise a decrement could take it below zero) and
`TokenHeld` (otherwise a second caller could take the token of a first). From it:
`TypeCorrect`, `Exclusion`, `ReleaseNeverBlocks`, and `Refinement`: every initial state and
step is one of `PaymentLock`, a crash of the promise (`Disregard`) included. `RefundsYield`
follows from `Counted`: the worker starts to pay only where it reads 0, and then nobody is
inside.

`RefundWoken` is liveness; `WakeUpComes` is what of it needs no fairness, and holds whether
timeouts are respected or not. A channel that has been swapped out is with a release that has yet
to close it (`WillBeClosed`). Once somebody is to wake the waiting worker (a withdrawal that has
the lock, or the release that has swapped out the worker's channel), every own step of it
brings the close nearer (`WakeSteps`), and no step of another, an overlapping release or a second
swap included, takes it back. Of these steps only the drain can block, which is what
`ReleaseNeverBlocks` excludes.

`RedeemProofs`, for any number of requests, sessions, vouchers and crashes, any fees, quotes
and routes, and any pool size. `IInv` has seven parts:

- `TypeOK`, of which the hard part is that no balance falls below zero;
- `Bound`: what a session, call or row refers to exists;
- `Phase`: where a request is decides what its row, its payment and its restoration look
  like. This is the heart: "restored" is only reachable where no payment is;
- `BootOK`: start-up runs alone, and the payment on which it decided is still what it was,
  since completed and failed payments do not change;
- `SessionClaimed`: whoever got past `markRedeemSessionUsed` is the only one of its session;
- `SpentInactive`: a single-use voucher that has been redeemed since it was created or last
  edited, and not given that back, is inactive, so nobody passes `insertRedeemAndBalance` on it
  again;
- `NeverPaidAndRestored` itself.

One lemma per part shows that every step keeps it, with one case per action that can touch
it. `TypeCorrect`, `PaidOrRestored`, `OneRedeemPerSession`, `SingleUseDebitedOnce` and
`DecidedStays` follow, and `EveryRequestIsAPayout`: `Phase` says in which of the states of
`Payout` a request is, and each action is one of its steps or leaves it alone.

`HolderGoesOn` speaks of `ENABLED`, and that the lock comes back needs fairness; what can be
proved is what they rest on. `HolderIsReady`: whoever has the lock is in the callback of a
server that serves, not lost in a crash and not before a start-up that has yet to end.
`LockFollowsCallback`: the lock is with a request exactly while that is between its
`acquireForWithdrawal` and its release, so none leaves without giving it back. `CallbackEnds`:
every step of a request lowers `Left`, the steps that it has yet to take, and nothing but its
arrival and a crash changes its place otherwise. A holder that goes on is through after nine
steps at most. `Ready`, the condition under which it has a step, is proved; that such a step is
then `ENABLED` is what TLC checks.

Start-up has its own: it has 3n + 2 steps at most for n rows, none is taken back, and only a
crash begins it anew (`StartupEnds`). With the pool of one connection that `openDB` asks for it
does not come so far: at the first payment that has completed or failed it stays where it is,
and no row that a crash left behind is resolved by any start-up
(`OneConnectionResolvesNothing`). `startup_deadlock` shows that on one request and one crash,
the theorem for any number of either.

The names of the requests must not be those of the lock's other states (`RedeemAssumption`).

`RedeemBooks` adds the money to that, for any finite sets of vouchers and requests. `Kept`
(what the wallet has kept for each request is what its row, its payment and its restoration
say) makes `BooksClose` inductive together with `Balanced`: each step moves one balance, one
request or one payment, and `SumChange` says by how much the sums move. `NeverShortAtRest`
follows where no crash has left a gap: `ExplainedWithGap` rewrites the books as one number per
request, `Decided` and `Booked` say that a request at rest has none below zero, whatever it
cost: it is booked with that. The only new assumption is that the wallet covers the books at
first (`Surplus >= 0`).

`Sums` is what all books rest on (`RedeemBooks`, `OperatorProofs`, `FundingProofs`,
`RefundProofs`). `SumFunction` is defined by recursion over sets, each time without the element
that `CHOOSE` takes, and the induction theorems of the library take an operator as a parameter,
which no installed prover instantiates. The least-element principle `WFMin` is about sets, so
`SetInduction` and `FiniteInduction` are stated for a set in the place of the predicate, and all
that follows is proved by them: the sum does not depend on the order (`SumOnRemove`, `SumImage`),
changes with one summand by the difference (`SumChange`), is that of two parts (`SumParts`, and
`SumAppend` for a list), and is natural if the summands are (`SumNat`). At its end is
`SplitsAddUp`: `splitBalance` rounds every portion down and gives the last code the rest, so
that the parts are never negative and come to the balance, for any list of shares. And
`FeeIsItsRate`, for any amounts, rate and minimum, although the code divides twice and rounds
up in between: a fee is not below its minimum, its rate on what is left to within a
satoshi and in favour of the server, what is left is whole satoshis where the rate decides, and
whoever pays in more never gets less out, also where the minimum ends and the rate begins.

`OperatorProofs`, for any finite set of withdrawals, and any holds and equity. `Phase` and
`BootAlone` give the types and `RowFinal` (a row once completed or failed stays so, and start-up
decides alone). `Balanced` and `ExactMatches` give `BooksClose`. `HoldsCovered` needs that a
withdrawal that has passed the check still fits: `Calm` (nobody else has the lock) and `Fits`
(the equity it was checked against has not shrunk since, but for the msat that the
floor of `admin.go:289` leaves, and for `over`). Why `HoldsCovered` has to except withdrawals that pay at once
is proved too: as long as nobody has gone on without the lock, it is with the one that pays
(`LockHolds`), so that two pay at once only by a step of one whose wait has timed out
(`OnlyTheTimeoutShares`); no crash, redeem or release that comes late does it.

What `releaseAfter` needs to come is proved up to fairness: twelve own steps end any request,
whatever fails (`WithdrawEnds`), and the lock is never with one that is past its release
(`LockComesBack`). Start-up passes over what it cannot settle and lists nothing twice, so that it
serves after two steps more than there are withdrawals (`StartupEnds`).

`FundingProofs`, for any number of vouchers, batches, invoices, transfers and crashes.
`OnePerFingerprint` is not inductive: it says nothing of a transfer that is under way.
`Recorded` adds that what a finished transfer used is in `redemption_fingerprints`, where
the commit of the next one finds it (`PaidOncePerFingerprint`). `BookedToTheLiving` needs
nearly no invariant: the proof goes through every step that touches `fund_txs` or an
operator deposit (`TxStep`) and shows that only `UpdateFundTxConfirmed` books one and
changes a balance.

Types are the next part, and they are about money: a net amount below zero would be no balance.
`MoneyInv` adds to `TypeOK` that the fee of a pending invoice is not above its amount
(`InvoiceOK`), that a transfer under way has a source and somewhere to go (`CallOK`) and that
what start-up still has to visit is paid, or a deposit (`BootTodo`). `BatchShareBounds` says what Go's division leaves of a batch, negative
nets included. With them `BookingMoves` and `TransferMoves` show what each of the two
transactions moves between balances, other tables and what is dropped, from which `BooksClose`
follows (`Closes`). For `ImmediateIsSwept` (`SweptOnBooking`) only the booking matters.

`PaidIsCreditedOrOrphaned` is liveness, but what makes it true is an invariant: somebody has yet
to look. A payment that is not booked is `Awaited` by its event, or by the list that start-up
has made or will make. `OnlyOrphansAreForgotten` says that it stops being so only in a state in
which all of its vouchers are gone (`Orphan`), wherever the process stops: between the
payment and its event, between the event's read and its transaction, before, during or after
the catch-up. `NothingIsForgotten` is the same for a whole behaviour without orphans. The
invariant behind both is `MoneyInv` and that no event comes before its payment (`Untold`).

An orphan is not just lost. `StartupEnds` says that start-up is through after 2n + 6 steps at
most, or refuses to go on at an orphan. `OrphanBarsStartup` says that the second is for good: if
the process stops while there is one, start-up never gets past it, and as nothing but a
start-up runs until then, nothing brings its voucher back (`Ahead` is where the row still lies
before start-up). This is the finding of `paid_never_credited` for every number of vouchers,
payments and restarts.

What is
assumed: finitely many vouchers and invoices, and that no estimate of a receive fee exceeds one
satoshi (`FundingAssumption`: the smallest invoice; otherwise a net would be negative).

`RefundProofs`, for any vouchers, lists of refund codes, minimum fees, quotes and crashes. All
safety properties of `Refund` are proved. The worker acts on lists that it read earlier, so the
invariant says what is still true of them: `ListOK` (what is to be repriced is still abandoned,
what is to be paid still pending, and neither is the current row), `CurrentOK` (the row in
its hands is not booked, and before it is booked the SDK has a payment for it) and `RowOK` (a row
that is in flight has its key, and is the current one unless the server has just started). They
hold because the worker alone writes rows, one at a time (`Writes`), and appends new ones behind
those on its list (`InsertKeeps`). `MarginOK` adds that until the first crash every payment is
booked or about to be, for the quote that was compared with the fee. `TypeCorrect`,
`OnlyTheCurrentInFlight`, `BookedWasSent`, `FeeCoversRouting` and `BookedStays` follow, and
`EveryRefundIsAPayout`: a split adds payouts that are just taken, of the others only the row in
the worker's hands or a payment that settles takes a step, and the start-up's reset and a
repricing revise rows that have not had their last word.

Of `WorkerGoesOn`, `PassEnds` is what holds without fairness: every step of the worker but its
wake-up lowers a rank, first the phase of its pass (`StageOf`, 19 to 0), then what is left of
that phase's list and of the current `payRefund` (`LeftOf`, a natural number since the lists
are finite), and only a crash raises it. Whatever fails, and however many vouchers and rows
there are, a pass takes finitely many steps. `LockFollowsPayment` says that the lock is the
worker's exactly during `payRefund`, on each way out of it, and the redeem's from its
debit to its end.

Its books have one number for each row (`RowNet`): what it explains, and what the books say has
left for it but has not. A failed, repriced or booked row stands for what it stood for
(`RowBalances`), a payment moves its number and the wallet together (`SdkBalances`), and a
split takes from a balance what its new rows explain and what it drops (`SplitBalances`). The
last needs a sum over the parts that are worth paying in the order of the rows: `Orders`
numbers them, `SumImage` says that numbering changes nothing, `SumAppend` adds them to the sum
over the rows there were. `Closes` follows for any number of crashes, repricings under another
fee and late failures.

`ScheduleProofs`, for any number of vouchers, requests, deposits, failures and crashes, and any
times. All six safety properties of `Schedule` are proved, in four parts; a fifth is about its
leads-to properties. Types need that a row
with a schedule has an interval (`Planned`), as `Valid` sees to: without it an anchor is no
number. `RowSteps` then says what a step may do to a row, from which `Dated` (money has an
`updated_at`, nothing lies in the future, no expiry is above the cap) is inductive, and
`ParkedAtMost` follows. What the worker has read is right unless the voucher has been touched
since: `StillExpired` and `CodesRead` give `RefundAsAsked`. `NothingOverslept` has two parts. What
is yet to come ends the sleep by `Rested` (it adds the moment between `nextRefundAt` and the
sleep). What is due came due after the pass had looked by `Settled`: what was due when it looked
is ahead of the worker in its pass until it has had its turn (`ExpiryStep`, `DueStep`), and its
turn takes it past the time of the pass (`TurnServes`). The arithmetic of
`nextRegularRefundAnchor` is `AnchorFit`: from a time of the schedule it gets to a time of the
schedule, past what was due and not past the clock. `SchedulePinned` is inductive together with
`AnchorFits` (what is on the list fits) and `ClockRead` (the clock of a pass is not behind what
was served before it). `OneRefundPerTime` compares two counts of which neither bounds the
other: `OncePerServed` goes between them, refunds ≤ times served ≤ times passed.

`ExpiredIsRefunded` and `RegularIsServed` need three things beside fairness, and these are proved.
A pass has an end: it has 2n + 9 steps at most (`PassEnds`; for that the vouchers are finitely
many, `FinitelyMany`), and no handler, signal or fault adds to them. A sleep has an end, within
the hour (`SleepEnds`). And a voucher is not passed over: what has expired with a balance, or has
a refund due, keeps its place in the pass until it has had its turn or is not due any
more, and only a failing statement leaves it for the next pass (`ExpiredHasItsTurn`,
`DueHasItsTurn`). The second says besides that with its turn the next time lies after the clock of the
pass, so that a late pass serves all that it missed at once.

Only model-checked: the liveness properties (`WithdrawalReturns`, `RefundWoken`, `WorkerGoesOn`,
`PaidIsCreditedOrOrphaned`, `ExpiredIsRefunded`, `RegularIsServed`) and `HolderGoesOn`, since fairness
and `ENABLED` are out of the prover's reach; and that `Refinement` carries over to the fairness of
`PaymentLock`. What is proved of them is how far they hold without fairness:

| model-checked | proved |
|---|---|
| `RefundWoken` | `WakeUpComes` |
| `HolderGoesOn` | `HolderIsReady`, `LockFollowsCallback`, `CallbackEnds` |
| `WorkerGoesOn` | `PassEnds` of `RefundProofs` |
| `PaidIsCreditedOrOrphaned` | `NothingIsForgotten`, `OnlyOrphansAreForgotten`, `StartupEnds` of `FundingProofs` |
| `ExpiredIsRefunded` | `ExpiredHasItsTurn`, `PassEnds` and `SleepEnds` of `ScheduleProofs` |
| `RegularIsServed` | `DueHasItsTurn`, `PassEnds` and `SleepEnds` of `ScheduleProofs` |
| `WithdrawalReturns` | nothing: that its wait ends is its timeout, which is fairness |

## 6. Not modelled, and why

- Errors of SQLite itself. The code logs most of them and goes on; the properties would have
  to say "unless a statement failed" throughout.
- A stale balance from `GetInfo`, which reads a cache: the gate is modelled on the true
  balance, read before the books.
- An SDK that reports an error although the money went out.
- An edit of a voucher in `Funding` and `Refund`. In `Funding` an edit could turn
  `unique_redemptions` off (`db.go:1142`) and with it what `OnePerFingerprint` says, and change
  what a payment finds; in `Refund` it would change codes and schedules, which `Schedule` has.
- A payment of a refund that costs more than its quote. `MarginsCover` and the fee that
  `Refund` books assume that the SDK takes what it quoted at most (`refund.go:584` books what the
  payment says). `Redeem` and `OperatorWithdraw` do not assume it.
- A refund code that a voucher lists twice: `splitBalance` adds its parts up (`refund.go:69-78`)
  before the minimum is applied, `Money` has one part for each.
- `int64`: amounts are bounded by `MAX_FUND_AMOUNT_MSAT`, far from overflow.
- Keys, names and the other columns of a voucher that no guard reads; the default amount of
  an operator deposit.
- The limit `MAX_FUND_AMOUNT_MSAT` as a bound on a balance. It is checked when the invoice
  is made and not when it is paid, and two invoices at once take a voucher above it.
- Routing, authentication, rate limiting, bech32, schema and migrations.

## 7. Plan

Done, in the order of importance: lock, redeem, refund, operator, funding, schedule; and
proofs of what the runs check of each that is a safety property, the books of all four modules
that move money and the refinements of `PaymentLock` and `Payout` among them, and of what every
liveness property but `WithdrawalReturns` rests on.

Next, extending the models:

1. Operator deposits with their default amount: does the deposit end the deficit?
2. The fund limit with two invoices and a batch that shrinks.
3. Start-up as one sequence over all tables.
