------------------------------- MODULE Schedule -------------------------------
(***************************************************************************)
(* When vouchers are refunded: their creation and edit (handlers.go), the  *)
(* times kept in their rows (db.go), and the refund worker's choice of     *)
(* what is due and how long it may sleep (refund.go).  Time is a clock in  *)
(* whole seconds, as the database has it; 0 is "never".                    *)
(*                                                                         *)
(* A handler that compares time.Now() with a deadline in nanoseconds calls *)
(* a voucher expired from the first instant of the second of its deadline, *)
(* as the worker does with its seconds.                                    *)
(*                                                                         *)
(* What a refund is split into and how it is paid is in Refund: here it    *)
(* is all of the balance and the refund codes it goes to.                  *)
(***************************************************************************)
EXTENDS Integers, FiniteSets

CONSTANTS
    Vouchers,
    Codes,                     \* lists of refund codes with their shares
    NoCodes,                   \* none given, or a malformed list
    Requests,                  \* what a client may ask of a voucher, see Request
    MaxVoucherExpireSeconds,   \* MAX_VOUCHER_EXPIRE_SECONDS
    MinPayout,                 \* smallest balance that is worth paying
    Deposits,                  \* what a deposit or a transfer may bring
    Amounts,                   \* what a redeem may take, with its fee
    MaxSleep,                  \* maxSleep of runRefundWorker: an hour
    MaxBalance,                \* bound on a balance
    MaxChanges,                \* bound on edits, deposits and transfers
    MaxFaults,                 \* bound on failing statements and crashes
    Horizon,                   \* bound: nothing is asked of the server after it, and
                               \*   the worker's passes then take no time
    MaxNow                     \* bound on the clock

\* The fields of a request that parseVoucherParams looks at.
Request ==
    [codes : Codes \cup {NoCodes}, after : Int, single : BOOLEAN, limited : BOOLEAN,
     unique : BOOLEAN, transfersOnly : BOOLEAN, absolute : BOOLEAN,
     regular : BOOLEAN, immediate : BOOLEAN, first : Int, interval : Int]

ASSUME ScheduleAssumption ==
    /\ NoCodes \notin Codes
    /\ Requests \subseteq Request
    /\ MaxVoucherExpireSeconds \in Nat \ {0}
    /\ MinPayout \in Nat \ {0} /\ Deposits \subseteq Nat \ {0}
    /\ Amounts \subseteq Nat \ {0}
    /\ MaxSleep \in Nat \ {0} /\ MaxBalance \in Nat
    /\ MaxChanges \in Nat
    /\ MaxFaults \in Nat
    /\ Horizon \in Nat /\ MaxNow \in Nat

\* The table has rows for the vouchers that were asked for, and no more: a pass has an end.
ASSUME FinitelyMany == IsFiniteSet(Vouchers)

VARIABLES
    now,        \* the clock
    voucher,    \* the vouchers table, with voucher_refund_codes
    taken,      \* what redeems have debited and may still give back
    unsent,     \* vouchers committed by a handler that has yet to signal the worker
    wake,       \* refundWake: a channel that holds one signal
    worker,     \* where the worker is and what it has read
    changes,    \* edits, deposits and transfers so far
    faults,     \* failing statements and crashes so far
    wanted,     \* history: the refund codes last asked for
    refund,     \* history: refunds of each voucher, and where the last one went
    touched,    \* history: what was changed since the worker listed it, and how
    adrift,     \* history: vouchers whose last_at does not come from their first_at
    quiet,      \* history: vouchers changed without a signal while the worker slept
    missed,     \* history: vouchers changed without a signal since the worker listed
                \*   what has expired, and those the pass has failed to deal with
    looked      \* history: when the pass listed what has expired and when it took the time
                \*   for the regular refunds, 0 for a voucher that was changed since

count == <<changes, faults>>
pass  == <<quiet, missed, looked>>
hist  == <<wanted, refund, touched, adrift, pass>>
vars  == <<now, voucher, taken, unsent, wake, worker, count, hist>>

Row ==
    [created : Nat, updated : Nat, bal : Nat, active : BOOLEAN, codes : Codes \cup {NoCodes},
     after : Nat, absolute : BOOLEAN, single : BOOLEAN,
     immediate : BOOLEAN, first : Nat, interval : Nat, last : Int]

NoVoucher ==
    [created |-> 0, updated |-> 0, bal |-> 0, active |-> FALSE, codes |-> NoCodes,
     after |-> 0, absolute |-> FALSE, single |-> FALSE,
     immediate |-> FALSE, first |-> 0, interval |-> 0, last |-> 0]

Exists(v) == voucher[v].created > 0

\* What the worker has read of a voucher it has listed.
NoRead == [empty |-> FALSE, anchor |-> 0, early |-> FALSE, codes |-> NoCodes]

NoRefund == [all |-> 0, regular |-> 0, codes |-> NoCodes, expiry |-> FALSE]

WorkerPC == {"list", "codes", "split", "pay", "clock", "next", "doze", "asleep"}

Boot == [pc |-> "list", pass |-> "expired", at |-> 0, list |-> {},
         read |-> [v \in Vouchers |-> NoRead], until |-> 0]

Reading == [empty : BOOLEAN, anchor : Int, early : BOOLEAN, codes : Codes \cup {NoCodes}]

Working ==
    [pc : WorkerPC, pass : {"expired", "regular"}, at : Nat, list : SUBSET Vouchers,
     read : [Vouchers -> Reading], until : Nat]

Looks == [expired : Nat, regular : Nat]

NoLook == [expired |-> 0, regular |-> 0]

Refunds == [all : Nat, regular : Nat, codes : Codes \cup {NoCodes}, expiry : BOOLEAN]

TypeOK ==
    /\ now \in Nat
    /\ voucher \in [Vouchers -> Row]
    /\ taken \in [Vouchers -> Nat]
    /\ unsent \subseteq SUBSET Vouchers
    /\ wake \in BOOLEAN
    /\ worker \in Working
    /\ changes \in Nat /\ faults \in Nat
    /\ wanted \in [Vouchers -> Codes \cup {NoCodes}]
    /\ refund \in [Vouchers -> Refunds]
    /\ touched \in [Vouchers -> SUBSET {"row", "plan", "codes"}]
    /\ adrift \subseteq Vouchers
    /\ quiet \subseteq Vouchers /\ missed \subseteq Vouchers
    /\ looked \in [Vouchers -> Looks]

Init ==
    /\ now = 1
    /\ voucher = [v \in Vouchers |-> NoVoucher]
    /\ taken = [v \in Vouchers |-> 0]
    /\ unsent = {}
    /\ wake = FALSE
    /\ worker = Boot
    /\ changes = 0 /\ faults = 0
    /\ wanted = [v \in Vouchers |-> NoCodes]
    /\ refund = [v \in Vouchers |-> NoRefund]
    /\ touched = [v \in Vouchers |-> {}]
    /\ adrift = {}
    /\ quiet = {} /\ missed = {}
    /\ looked = [v \in Vouchers |-> NoLook]

-----------------------------------------------------------------------------
(* Times                                                                   *)

HasDeadline(r) == r.absolute \/ r.updated > 0

Deadline(r) == (IF r.absolute THEN r.created ELSE r.updated) + r.after

Expired(r) == HasDeadline(r) /\ Deadline(r) <= now

\* getVoucherByPubKey and getVoucherByFundKey find it.
Live(r) == r.active /\ ~Expired(r)

HasRegular(r) == r.active /\ r.first > 0 /\ ~r.immediate

\* getExpiredVouchersWithBalance selects it, active or not.
ExpiredWithBalance(r) == r.bal > 0 /\ Expired(r)

\* When the next regular refund is due.
NextAt(r) == IF r.last > 0 THEN r.last + r.interval ELSE r.first

\* getRegularRefundDueVouchers selects it.
RegularDue(r) ==
    /\ HasRegular(r) /\ ~Expired(r)
    /\ r.last >= 0 /\ NextAt(r) <= now

\* Where nextRegularRefundAnchor counts from.
Base(first, last) == IF last > 0 THEN last ELSE first

\* The last time of the schedule that is not after "at", or the one before the first:
\* the loop adds intervals until it is past "at" and takes the last one back.
nextRegularRefundAnchor(first, last, interval, at) ==
    LET base == Base(first, last)
    IN  IF base > at THEN base - interval
                     ELSE base + ((at - base) \div interval) * interval

\* The times at which nextRefundAt would have the worker look at a voucher.
NextTimes(r) ==
    {t \in {Deadline(r)} : r.bal > 0 /\ HasDeadline(r)}
        \cup {t \in {NextAt(r)} : HasRegular(r)}

-----------------------------------------------------------------------------
(* parseVoucherParams                                                      *)

Valid(p) ==
    /\ p.codes # NoCodes
    /\ p.after > 0
    /\ p.single => ~p.limited /\ ~p.unique
    /\ p.unique => p.transfersOnly
    /\ p.regular => IF p.immediate THEN p.first = 0 /\ p.interval = 0
                                   ELSE p.first > 0 /\ p.interval > 0

\* Mutant: the longest expiry is not applied.
ParsedUncapped(p) ==
    [codes |-> p.codes, after |-> p.after, absolute |-> p.absolute, single |-> p.single,
     immediate |-> p.regular /\ p.immediate,
     first |-> IF p.regular THEN p.first ELSE 0,
     interval |-> IF p.regular THEN p.interval ELSE 0]

Parsed(p) ==
    [codes     |-> p.codes,
     after     |-> IF p.after > MaxVoucherExpireSeconds THEN MaxVoucherExpireSeconds
                                                        ELSE p.after,
     absolute  |-> p.absolute,
     single    |-> p.single,
     immediate |-> p.regular /\ p.immediate,
     first     |-> IF p.regular THEN p.first ELSE 0,
     interval  |-> IF p.regular THEN p.interval ELSE 0]

-----------------------------------------------------------------------------
(* Handlers.  One that signals the worker does so after it has committed.  *)

Asked == now <= Horizon

\* What the worker has listed and not yet dealt with is no longer what it has read, nor
\* what it has looked at.
Touch(v, how) ==
    /\ touched' = IF v \in worker.list THEN [touched EXCEPT ![v] = @ \cup how] ELSE touched
    /\ looked' = [looked EXCEPT ![v] = NoLook]

\* Changed behind the back of the pass, or of a worker that knows until when it will sleep.
Quietly(v) ==
    /\ quiet' = IF worker.pc \in {"doze", "asleep"} THEN quiet \cup {v} ELSE quiet
    /\ missed' = missed \cup {v}

\* The row of a voucher as it was asked for: active, and with no regular refund yet.
Configured(plan, codes, created, updated, bal) ==
    [created |-> created, updated |-> updated, bal |-> bal, active |-> TRUE,
     codes |-> codes, after |-> plan.after, absolute |-> plan.absolute,
     single |-> plan.single, immediate |-> plan.immediate, first |-> plan.first,
     interval |-> plan.interval, last |-> 0]

\* handleCreateVouchers: all of a batch, or none when one of its keys is taken.
Create(batch, p) ==
    LET row == Configured(Parsed(p), Parsed(p).codes, now, 0, 0)
    IN  /\ Asked
        /\ batch # {} /\ \A v \in batch : ~Exists(v)
        /\ Valid(p)
        /\ voucher' = [v \in Vouchers |-> IF v \in batch THEN row ELSE voucher[v]]
        /\ wanted' = [v \in Vouchers |-> IF v \in batch THEN p.codes ELSE wanted[v]]
        /\ unsent' = unsent \cup {batch}
        /\ looked' = [v \in Vouchers |-> IF v \in batch THEN NoLook ELSE looked[v]]
        /\ UNCHANGED <<now, taken, wake, worker, count, refund, touched, adrift, quiet, missed>>

\* Mutant: the new refund codes are not written.
EditedKeepsCodes(r, plan) == Configured(plan, r.codes, r.created, now, r.bal)

\* updateVoucher, with the refund codes replaced.
Edited(r, plan) == Configured(plan, plan.codes, r.created, now, r.bal)

\* handleEditVoucher, whatever has become of the voucher.
Edit(v, p) ==
    /\ Asked /\ changes < MaxChanges
    /\ Exists(v)
    /\ Valid(p)
    /\ voucher' = [voucher EXCEPT ![v] = Edited(voucher[v], Parsed(p))]
    /\ wanted' = [wanted EXCEPT ![v] = p.codes]
    /\ unsent' = unsent \cup {{v}}
    /\ changes' = changes + 1
    /\ Touch(v, {"row", "plan"} \cup (IF worker.pc = "split" THEN {"codes"} ELSE {}))
    /\ adrift' = adrift \ {v}
    /\ refund' = [refund EXCEPT ![v].regular = 0]
    /\ UNCHANGED <<now, taken, wake, worker, faults, quiet, missed>>

\* Mutant: the channel holds nothing, so a worker that is busy gets no signal.
SignalUnbuffered(batch) ==
    /\ batch \in unsent
    /\ unsent' = unsent \ {batch}
    /\ wake' = (wake \/ worker.pc = "asleep")
    /\ UNCHANGED <<now, voucher, taken, worker, count, hist>>

\* A handler that has committed signals the worker, unless a signal is waiting.
Signal(batch) ==
    /\ batch \in unsent
    /\ unsent' = unsent \ {batch}
    /\ wake' = TRUE
    /\ UNCHANGED <<now, voucher, taken, worker, count, hist>>

\* The statements on a row: updateVoucherBalance with an amount that is not negative, and
\* with one that is; addVoucherBalance; markVouchersRefunded; markVouchersRegularRefunded;
\* advanceRegularRefundTime.
Credited(r, msat) == [r EXCEPT !.bal = r.bal + msat, !.updated = now]
Debited(r, msat) ==
    [r EXCEPT !.bal = r.bal - msat, !.active = r.active /\ ~r.single, !.updated = now]
GivenBack(r, msat) == [r EXCEPT !.bal = r.bal + msat, !.active = TRUE, !.updated = now]
Closed(r) == [r EXCEPT !.bal = 0, !.active = FALSE, !.updated = now]
RegularRefunded(r, last) == [r EXCEPT !.bal = 0, !.last = last]
Advanced(r, last) == [r EXCEPT !.last = last]

Payable(msat) == msat >= MinPayout

Deposit(v, msat) ==
    /\ Asked /\ changes < MaxChanges
    /\ Exists(v) /\ voucher[v].bal + msat <= MaxBalance
    /\ changes' = changes + 1
    /\ Touch(v, {"row"})
    /\ UNCHANGED <<now, taken, wake, worker, faults, wanted, adrift>>

Refunded(v, codes, regular, expiry) ==
    refund' = [refund EXCEPT ![v] = [all |-> @.all + 1, codes |-> codes, expiry |-> expiry,
                                     regular |-> IF regular THEN @.regular + 1 ELSE @.regular]]

\* updateFundTxConfirmed credits the voucher, and sweeps it if its refund is immediate
\* (insertImmediateRegularRefunds), with the refund codes of the moment.
Fund(v, msat) ==
    LET r == Credited(voucher[v], msat)
    IN  /\ Deposit(v, msat)
        /\ Live(voucher[v])
        /\ \/ /\ r.immediate /\ Payable(r.bal)
              /\ voucher' = [voucher EXCEPT ![v] = RegularRefunded(r, now)]
              /\ Refunded(v, r.codes, FALSE, FALSE)
           \/ /\ ~(r.immediate /\ Payable(r.bal))
              /\ voucher' = [voucher EXCEPT ![v] = r]
              /\ UNCHANGED refund
        /\ unsent' = unsent \cup {{v}}
        /\ UNCHANGED <<quiet, missed>>

\* handleTransfer credits its destination, which it looked up before and which may have
\* expired or been refunded since, and signals nobody.
TransferIn(v, msat) ==
    /\ Deposit(v, msat)
    /\ voucher' = [voucher EXCEPT ![v] = Credited(voucher[v], msat)]
    /\ Quietly(v)
    /\ UNCHANGED <<unsent, refund>>

\* Mutant: balance_msat >= ? is missing.
DebitUnchecked(v, msat) ==
    /\ Asked
    /\ Exists(v)
    /\ voucher' = [voucher EXCEPT ![v] = Debited(voucher[v], msat)]
    /\ Touch(v, {"row"})
    /\ Quietly(v)
    /\ UNCHANGED <<now, unsent, wake, worker, count, wanted, refund, adrift>>

\* updateVoucherBalance with a negative amount; nobody is signalled.
Debit(v, msat) ==
    /\ Asked
    /\ msat <= voucher[v].bal
    /\ voucher' = [voucher EXCEPT ![v] = Debited(voucher[v], msat)]
    /\ Touch(v, {"row"})
    /\ Quietly(v)
    /\ UNCHANGED <<now, unsent, wake, worker, count, wanted, refund, adrift>>

\* insertRedeemAndBalance: amount and fee leave an active voucher.
Redeem(v, msat) ==
    /\ taken[v] = 0
    /\ voucher[v].active
    /\ Debit(v, msat)
    /\ taken' = [taken EXCEPT ![v] = msat]

\* handleTransfer debits its source, which it looked up before and which may have
\* expired, been closed or been edited since.
TransferOut(v, msat) ==
    /\ Debit(v, msat)
    /\ UNCHANGED taken

\* It fails, and addVoucherBalance gives the amount back, whatever has become of
\* the voucher; nobody is signalled.
Restore(v) ==
    /\ Asked
    /\ taken[v] > 0
    /\ voucher' = [voucher EXCEPT ![v] = GivenBack(voucher[v], taken[v])]
    /\ taken' = [taken EXCEPT ![v] = 0]
    /\ Touch(v, {"row"})
    /\ Quietly(v)
    /\ UNCHANGED <<now, unsent, wake, worker, count, wanted, refund, adrift>>

\* It is paid.
Pays(v) ==
    /\ Asked
    /\ taken[v] > 0
    /\ taken' = [taken EXCEPT ![v] = 0]
    /\ UNCHANGED <<now, voucher, unsent, wake, worker, count, hist>>

-----------------------------------------------------------------------------
(* The refund worker: processExpiredRefunds, processRegularRefunds, and    *)
(* the sleep between them                                                  *)

Listed(chosen, read) ==
    /\ worker' = [worker EXCEPT !.pc = IF chosen = {} THEN "pay" ELSE "codes",
                                !.list = chosen, !.read = read]
    /\ touched' = [v \in Vouchers |-> {}]
    /\ UNCHANGED <<now, voucher, taken, unsent, wake, count, wanted, refund, adrift, quiet>>

\* A pass begins.
Begun == missed' = {} /\ looked' = [v \in Vouchers |-> [NoLook EXCEPT !.expired = now]]

\* Mutant: only active vouchers expire.
ListExpiredActive ==
    /\ worker.pc = "list" /\ worker.pass = "expired"
    /\ Listed({v \in Vouchers : voucher[v].active /\ ExpiredWithBalance(voucher[v])},
              [v \in Vouchers |-> NoRead])
    /\ Begun

ListExpired ==
    /\ worker.pc = "list" /\ worker.pass = "expired"
    /\ Listed({v \in Vouchers : ExpiredWithBalance(voucher[v])},
              [v \in Vouchers |-> NoRead])
    /\ Begun

\* processRegularRefunds takes the time before it asks for what is due.
ReadClock ==
    /\ worker.pc = "clock"
    /\ worker' = [worker EXCEPT !.pc = "list", !.at = now]
    /\ looked' = [v \in Vouchers |-> IF looked[v] = NoLook THEN NoLook
                                      ELSE [looked[v] EXCEPT !.regular = now]]
    /\ UNCHANGED <<now, voucher, taken, unsent, wake, count, wanted, refund, touched, adrift,
                   quiet, missed>>

\* Mutant: the schedule goes on from the time of the pass.
ReadRegularNow(r) ==
    [empty  |-> r.bal = 0,
     anchor |-> worker.at,
     early  |-> worker.at < NextAt(r),
     codes  |-> NoCodes]

\* What nextRegularRefundAnchor will have of the row, with the clock of the pass.
ReadRegular(r) ==
    [empty  |-> r.bal = 0,
     anchor |-> nextRegularRefundAnchor(r.first, r.last, r.interval, worker.at),
     early  |-> worker.at < NextAt(r),
     codes  |-> NoCodes]

ListRegular ==
    /\ worker.pc = "list" /\ worker.pass = "regular"
    /\ LET due == {v \in Vouchers : RegularDue(voucher[v])}
       IN  Listed(due, [v \in Vouchers |->
                          IF v \in due THEN ReadRegular(voucher[v]) ELSE NoRead])
    /\ UNCHANGED <<missed, looked>>

\* getRefundCodesForVouchers, once for all that is listed
ReadCodes ==
    /\ worker.pc = "codes"
    /\ worker' = [worker EXCEPT !.pc = "split",
         !.read = [v \in Vouchers |-> IF v \in worker.list
                                      THEN [@[v] EXCEPT !.codes = voucher[v].codes]
                                      ELSE NoRead]]
    /\ UNCHANGED <<now, voucher, taken, unsent, wake, count, hist>>

NextVoucher(v) ==
    /\ worker.pc = "split" /\ v \in worker.list
    /\ worker' = [worker EXCEPT !.list = @ \ {v}, !.read[v] = NoRead,
                                !.pc = IF worker.list = {v} THEN "pay" ELSE "split"]
    /\ touched' = [touched EXCEPT ![v] = {}]
    /\ UNCHANGED <<now, taken, unsent, wake, wanted, quiet, looked>>

\* The whole balance, as it is by now, be it worth paying or dust, and to the refund
\* codes that were read for the list; markVouchersRefunded.
SplitExpired(v) ==
    /\ worker.pass = "expired"
    /\ voucher[v].bal > 0
    /\ NextVoucher(v)
    /\ voucher' = [voucher EXCEPT ![v] = Closed(voucher[v])]
    /\ Refunded(v, worker.read[v].codes, FALSE, TRUE)
    /\ UNCHANGED <<count, adrift, missed>>

\* "Balance is 0 - nothing to refund."
SkipExpired(v) ==
    /\ worker.pass = "expired"
    /\ voucher[v].bal = 0
    /\ NextVoucher(v)
    /\ UNCHANGED <<voucher, count, refund, adrift, missed>>

Worth(v) == ~worker.read[v].empty /\ Payable(voucher[v].bal)

\* The anchor comes from what was listed: it does not fit a voucher that was edited.
Anchored(v) ==
    adrift' = IF "plan" \in touched[v] THEN adrift \cup {v} ELSE adrift

\* Mutant: last_at stays as it was.
SplitRegularUnmoved(v) ==
    /\ worker.pass = "regular"
    /\ Worth(v)
    /\ NextVoucher(v)
    /\ voucher' = [voucher EXCEPT ![v] = RegularRefunded(voucher[v], voucher[v].last)]
    /\ Refunded(v, worker.read[v].codes, ~worker.read[v].early, FALSE)
    /\ Anchored(v)
    /\ UNCHANGED <<count, missed>>

\* markVouchersRegularRefunded
SplitRegular(v) ==
    /\ worker.pass = "regular"
    /\ Worth(v)
    /\ NextVoucher(v)
    /\ voucher' = [voucher EXCEPT ![v] =
                        RegularRefunded(voucher[v], worker.read[v].anchor)]
    /\ Refunded(v, worker.read[v].codes, ~worker.read[v].early, FALSE)
    /\ Anchored(v)
    /\ UNCHANGED <<count, missed>>

\* Mutant: a voucher that is not worth a refund keeps its place in the schedule.
SkipRegularOnly(v) ==
    /\ worker.pass = "regular"
    /\ ~Worth(v)
    /\ NextVoucher(v)
    /\ UNCHANGED <<voucher, refund, count, adrift, missed>>

\* advanceRegularRefundTime: empty when it was listed, empty now, or below the minimum.
SkipRegular(v) ==
    /\ worker.pass = "regular"
    /\ ~Worth(v)
    /\ NextVoucher(v)
    /\ voucher' = [voucher EXCEPT ![v] = Advanced(voucher[v], worker.read[v].anchor)]
    /\ Anchored(v)
    /\ UNCHANGED <<refund, count, missed>>

\* doPendingRefunds, at the end of either pass
Pay ==
    /\ worker.pc = "pay"
    /\ worker' = IF worker.pass = "expired"
                 THEN [worker EXCEPT !.pc = "clock", !.pass = "regular"]
                 ELSE [worker EXCEPT !.pc = "next", !.pass = "expired", !.at = 0]
    /\ UNCHANGED <<now, voucher, taken, unsent, wake, count, hist>>

Coming == {t \in UNION {NextTimes(voucher[v]) : v \in Vouchers} : t > now}

\* The next time at which anything comes due, 0 if nothing will; what is due by now is
\* not looked at.
NextRefundAt ==
    /\ worker.pc = "next"
    /\ \/ /\ Coming = {}
          /\ worker' = [worker EXCEPT !.pc = "doze", !.until = 0]
       \/ \E t \in Coming :
            /\ \A u \in Coming : t <= u
            /\ worker' = [worker EXCEPT !.pc = "doze", !.until = t]
    /\ UNCHANGED <<now, voucher, taken, unsent, wake, count, hist>>

\* What the histories of a pass are about is over.
Forgotten == quiet' = {} /\ missed' = {} /\ looked' = [v \in Vouchers |-> NoLook]

\* It may have become time since.
NoSleep ==
    /\ worker.pc = "doze"
    /\ worker.until # 0 /\ worker.until <= now
    /\ worker' = [worker EXCEPT !.pc = "list", !.until = 0]
    /\ Forgotten
    /\ UNCHANGED <<now, voucher, taken, unsent, wake, count, wanted, refund, touched, adrift>>

Sleep ==
    /\ worker.pc = "doze"
    /\ worker.until = 0 \/ worker.until > now
    /\ worker' = [worker EXCEPT !.pc = "asleep",
         !.until = IF @ = 0 \/ @ > now + MaxSleep THEN now + MaxSleep ELSE @]
    /\ UNCHANGED <<now, voucher, taken, unsent, wake, count, hist>>

WakeUp ==
    /\ worker.pc = "asleep"
    /\ \/ wake /\ wake' = FALSE
       \/ worker.until <= now /\ UNCHANGED wake
    /\ worker' = [worker EXCEPT !.pc = "list", !.until = 0]
    /\ Forgotten
    /\ UNCHANGED <<now, voucher, taken, unsent, count, wanted, refund, touched, adrift>>

-----------------------------------------------------------------------------
(* Failures, crashes, and the clock                                        *)

Fault ==
    /\ Asked /\ faults < MaxFaults
    /\ faults' = faults + 1
    /\ UNCHANGED changes

\* A pass whose list or refund codes cannot be read goes on to the payments.
ListFails ==
    /\ Fault
    /\ worker.pc \in {"list", "codes"}
    /\ worker' = [worker EXCEPT !.pc = "pay", !.list = {},
                                !.read = [v \in Vouchers |-> NoRead]]
    /\ touched' = [v \in Vouchers |-> {}]
    /\ missed' = Vouchers
    /\ looked' = [v \in Vouchers |-> NoLook]
    /\ UNCHANGED <<now, voucher, taken, unsent, wake, wanted, refund, adrift, quiet>>

\* A voucher whose transaction fails is passed over.
SplitFails(v) ==
    /\ Fault
    /\ NextVoucher(v)
    /\ missed' = missed \cup {v}
    /\ UNCHANGED <<voucher, refund, adrift>>

\* The longest sleep, knowing of nothing.
NextRefundAtFails ==
    /\ Fault
    /\ worker.pc = "next"
    /\ worker' = [worker EXCEPT !.pc = "doze", !.until = 0]
    /\ quiet' = Vouchers
    /\ UNCHANGED <<now, voucher, taken, unsent, wake, wanted, refund, touched, adrift, missed,
                   looked>>

\* The process stops, and starts again: the worker begins with a pass.
Crash ==
    /\ Fault
    /\ unsent' = {}
    /\ wake' = FALSE
    /\ worker' = Boot
    /\ touched' = [v \in Vouchers |-> {}]
    /\ Forgotten
    /\ UNCHANGED <<now, voucher, taken, wanted, refund, adrift>>

\* A worker that may wake up does so within the second.
Tick ==
    /\ now < MaxNow
    /\ IF worker.pc = "asleep" THEN ~wake /\ now < worker.until ELSE now < Horizon
    /\ now >= Horizon => unsent = {}
    /\ now' = now + 1
    /\ UNCHANGED <<voucher, taken, unsent, wake, worker, count, hist>>

-----------------------------------------------------------------------------
Handler ==
    \/ \E p \in Requests :
        \/ \E batch \in SUBSET Vouchers : Create(batch, p)
        \/ \E v \in Vouchers : Edit(v, p)
    \/ \E v \in Vouchers, msat \in Deposits : Fund(v, msat) \/ TransferIn(v, msat)
    \/ \E v \in Vouchers, msat \in Amounts : Redeem(v, msat) \/ TransferOut(v, msat)
    \/ \E v \in Vouchers : Restore(v) \/ Pays(v)

Signals == \E batch \in unsent : Signal(batch)

WorkerStep ==
    \/ ListExpired \/ ReadClock \/ ListRegular \/ ReadCodes
    \/ \E v \in Vouchers :
        SplitExpired(v) \/ SkipExpired(v) \/ SplitRegular(v) \/ SkipRegular(v)
    \/ Pay \/ NextRefundAt \/ NoSleep \/ Sleep \/ WakeUp

Failure ==
    \/ ListFails \/ NextRefundAtFails
    \/ \E v \in Vouchers : SplitFails(v)

Next == Handler \/ Signals \/ WorkerStep \/ Failure \/ Crash \/ Tick

\* The worker's loop goes on, a handler signals when it has committed, and time
\* passes.  Nobody has to call, and nothing has to fail.
Fairness == WF_vars(Signals) /\ WF_vars(WorkerStep) /\ WF_vars(Tick)

Spec == Init /\ [][Next]_vars /\ Fairness

-----------------------------------------------------------------------------
(* Properties                                                              *)

\* What the worker sleeps past.  Of the times that creates, edits and deposits have set,
\* whatever they interleave with, it oversleeps only those that came due in the course
\* of its last pass.  While it sleeps with no signal waiting or on its way, it will be up
\* by every time that is yet to come, and what is due and still there was not due yet
\* when the pass listed what had expired, or took the time for the regular refunds:
\* nextRefundAt asks for times after its own (db.go:919), so what came due since then
\* waits for the end of the sleep, an hour at most.  Left out is what a transfer, a
\* redeem or its undoing has changed without a signal, and what a failing statement has
\* kept the worker from (handlers.go:240-245, refund.go:34-57, 184-386).
NothingOverslept ==
    worker.pc = "asleep" /\ ~wake =>
        \A v \in Vouchers \ UNION unsent :
            /\ v \notin quiet =>
                  \A t \in NextTimes(voucher[v]) : t > now => worker.until <= t
            /\ v \notin missed =>
                  /\ ExpiredWithBalance(voucher[v]) => Deadline(voucher[v]) > looked[v].expired
                  /\ RegularDue(voucher[v]) => NextAt(voucher[v]) > looked[v].regular

\* Money is never parked for longer than MAX_VOUCHER_EXPIRE_SECONDS without anybody
\* touching it: wherever there is a balance there is a deadline (handlers.go:84-87,
\* db.go:797-810).
ParkedAtMost ==
    \A v \in Vouchers :
        voucher[v].bal > 0 =>
            /\ HasDeadline(voucher[v])
            /\ Deadline(voucher[v]) <= now + MaxVoucherExpireSeconds

\* The last time that was served is one of the schedule, or the one before its first.
OnSchedule(r) ==
    /\ r.interval > 0
    /\ r.last # 0 => /\ r.first - r.interval <= r.last /\ r.last <= now
                     /\ (r.last - r.first) % r.interval = 0

\* "This pins the refund schedule to firstAt regardless of processing delays"
\* (refund.go:170): also past failures, crashes, slow passes and ticks of the clock in
\* the middle of one.  It does unless the voucher was edited while it was listed.
SchedulePinned ==
    \A v \in Vouchers \ adrift : voucher[v].first > 0 => OnSchedule(voucher[v])

TimesPassed(r) == IF r.first > now THEN 0 ELSE (now - r.first) \div r.interval + 1

\* However often the worker is woken, or starts again, each time of a schedule is good
\* for one refund (refund.go:307-384).  A refund whose time came after its pass had read
\* the clock (refund.go:283, db.go:835) is not counted: it leaves last_at where it was,
\* and what is deposited next may be refunded for the same time again.
OneRefundPerTime ==
    \A v \in Vouchers \ adrift :
        voucher[v].first > 0 => refund[v].regular <= TimesPassed(voucher[v])

\* A voucher that is left alone from when it is listed until its turn is refunded to
\* the codes its holder asked for last, and as expired only if it is; an edit may only
\* miss a refund whose codes were read before it (refund.go:184-268).
RefundAsAsked ==
    [][\A v \in Vouchers :
         refund'[v].all # refund[v].all =>
             /\ refund'[v].codes = wanted[v] \/ "codes" \in touched[v]
             /\ refund'[v].expiry => Expired(voucher[v]) \/ "row" \in touched[v]]_vars

\* A balance that has expired is refunded, unless somebody touches it first: no signal
\* and no wake-up is lost for good, and what the worker overslept or failed at, it
\* takes up after an hour at most (refund.go:34-61, db.go:894-930).
ExpiredIsRefunded ==
    \A v \in Vouchers :
        ExpiredWithBalance(voucher[v]) ~> ~ExpiredWithBalance(voucher[v])

\* A regular refund that is due is made, or its time is passed over because there is
\* nothing worth paying (refund.go:281-386).
RegularIsServed ==
    \A v \in Vouchers : RegularDue(voucher[v]) ~> ~RegularDue(voucher[v])
=============================================================================
