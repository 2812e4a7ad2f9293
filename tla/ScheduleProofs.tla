---------------------------- MODULE ScheduleProofs ----------------------------
(***************************************************************************)
(* The safety properties of Schedule, for any number of vouchers, edits,   *)
(* deposits and faults, and any times: the bounds of the model are not     *)
(* used.  The argument is in five parts.                                   *)
(*   - Types, and that a row with a schedule has an interval and is not    *)
(*     swept at once (TypeInv).                                            *)
(*   - What a step may do to a row: it is asked for anew, money moves, or  *)
(*     the worker refunds it (RowSteps); from it, that money has a date,   *)
(*     that what does not exist has nothing (Dated, Unborn), and           *)
(*     ParkedAtMost.                                                       *)
(*   - What the worker has read is right unless it has been touched since  *)
(*     (StillExpired, CodesRead, Rested), and so RefundAsAsked and         *)
(*     NothingOverslept.                                                   *)
(*   - The arithmetic of nextRegularRefundAnchor (AnchorFit), and with it  *)
(*     SchedulePinned and OneRefundPerTime.                                *)
(*   - A pass and a sleep come to an end, and what has expired or is due   *)
(*     keeps its place until it has had its turn (PassEnds, SleepEnds,     *)
(*     ExpiredHasItsTurn, DueHasItsTurn): what of the two leads-to         *)
(*     properties needs no fairness.                                       *)
(***************************************************************************)
EXTENDS Schedule, TLAPS, FiniteSetTheorems

\* What parseVoucherParams makes of a request.
Plan == [codes : Codes, after : Nat, absolute : BOOLEAN, single : BOOLEAN,
         immediate : BOOLEAN, first : Nat, interval : Nat]

\* A schedule has an interval, and is not of a voucher that is swept at once.
PlanOK(r) == r.first > 0 => r.interval > 0 /\ ~r.immediate

Planned == \A v \in Vouchers : PlanOK(voucher[v])

\* Type correctness is inductive with it: an anchor is a number if there is an interval.
TypeInv == TypeOK /\ Planned

\* nextRegularRefundAnchor gives a number.
LEMMA AnchorType ==
    ASSUME NEW first \in Nat, NEW last \in Int, NEW interval \in Nat \ {0}, NEW at \in Int
    PROVE  nextRegularRefundAnchor(first, last, interval, at) \in Int
<1> DEFINE base == Base(first, last)
<1>1. base \in Int BY DEF Base
<1>2. (at - base) \div interval \in Int BY <1>1
<1>3. ((at - base) \div interval) * interval \in Int BY <1>2
<1> QED BY <1>1, <1>3 DEF nextRegularRefundAnchor

\* A request that parseVoucherParams lets through makes a plan, with its codes and a
\* capped expiry.
LEMMA ParsedType ==
    ASSUME NEW p \in Requests, Valid(p)
    PROVE  /\ Parsed(p) \in Plan
           /\ Parsed(p).codes = p.codes
           /\ Parsed(p).after > 0 /\ Parsed(p).after <= MaxVoucherExpireSeconds
           /\ PlanOK(Parsed(p))
BY ScheduleAssumption DEF Request, Valid, Parsed, Plan, PlanOK

\* A plan makes a row.
LEMMA ConfiguredType ==
    ASSUME NEW plan \in Plan, PlanOK(plan), NEW created \in Nat, NEW updated \in Nat, NEW bal \in Nat
    PROVE  /\ Configured(plan, plan.codes, created, updated, bal) \in Row
           /\ PlanOK(Configured(plan, plan.codes, created, updated, bal))
BY DEF Plan, PlanOK, Configured, Row

\* The types hold at first; and after each action, in what follows.
LEMMA InitType == Init => TypeInv
<1> SUFFICES ASSUME Init PROVE TypeInv
  OBVIOUS
<1>1. NoVoucher \in Row /\ PlanOK(NoVoucher)
  BY DEF NoVoucher, Row, PlanOK
<1>2. NoRefund \in Refunds
  BY DEF NoRefund, Refunds
<1>3. NoRead \in Reading
  BY DEF NoRead, Reading
<1>4. Boot \in Working
  BY <1>3 DEF Boot, Working, WorkerPC
<1>5. NoLook \in Looks
  BY DEF NoLook, Looks
<1> QED BY <1>1, <1>2, <1>4, <1>5 DEF Init, TypeInv, TypeOK, Planned

\* Create keeps the types.
LEMMA CreateType ==
    ASSUME TypeInv, NEW batch \in SUBSET Vouchers, NEW p \in Requests, Create(batch, p)
    PROVE  TypeInv'
<1> DEFINE row == Configured(Parsed(p), Parsed(p).codes, now, 0, 0)
<1>1. Parsed(p) \in Plan /\ Parsed(p).codes = p.codes /\ PlanOK(Parsed(p))
  BY ParsedType DEF Create
<1>2. row \in Row /\ PlanOK(row)
  BY <1>1, ConfiguredType DEF TypeInv, TypeOK
<1>3. voucher' = [v \in Vouchers |-> IF v \in batch THEN row ELSE voucher[v]]
  BY DEF Create
<1>4. p.codes \in Codes
  BY <1>1 DEF Plan
<1>5. looked' \in [Vouchers -> Looks]
  BY DEF Create, NoLook, Looks, TypeInv, TypeOK
<1> HIDE DEF row
<1> QED BY <1>2, <1>3, <1>4, <1>5 DEF Create, count, TypeInv, TypeOK, Planned

\* Edit keeps the types.
LEMMA EditType ==
    ASSUME TypeInv, NEW v \in Vouchers, NEW p \in Requests, Edit(v, p)
    PROVE  TypeInv'
<1> DEFINE row == Edited(voucher[v], Parsed(p))
           log == [refund[v] EXCEPT !.regular = 0]
<1>1. Parsed(p) \in Plan /\ Parsed(p).codes = p.codes /\ PlanOK(Parsed(p))
  BY ParsedType DEF Edit
<1>2. row \in Row /\ PlanOK(row)
  <2>1. voucher[v].created \in Nat /\ voucher[v].bal \in Nat /\ now \in Nat
    BY DEF TypeInv, TypeOK, Row
  <2> QED BY <1>1, <2>1, ConfiguredType DEF Edited
<1>3. p.codes \in Codes
  BY <1>1 DEF Plan
<1>4. log \in Refunds
  BY DEF Refunds, TypeInv, TypeOK
<1>5. refund' = [refund EXCEPT ![v] = log] /\ voucher' = [voucher EXCEPT ![v] = row]
  BY DEF Edit
<1>6. touched' \in [Vouchers -> SUBSET {"row", "plan", "codes"}] /\ looked' \in [Vouchers -> Looks]
  BY DEF Edit, Touch, NoLook, Looks, TypeInv, TypeOK
<1> HIDE DEF row, log
<1>7. voucher' \in [Vouchers -> Row] /\ Planned'
  BY <1>2, <1>5 DEF TypeInv, TypeOK, Planned
<1>8. refund' \in [Vouchers -> Refunds]
  BY <1>4, <1>5 DEF TypeInv, TypeOK
<1>9. /\ wanted' \in [Vouchers -> Codes \cup {NoCodes}]
      /\ unsent' \subseteq SUBSET Vouchers
      /\ changes' \in Nat
      /\ adrift' \subseteq Vouchers
  BY <1>3 DEF Edit, TypeInv, TypeOK
<1> QED BY <1>6, <1>7, <1>8, <1>9 DEF Edit, TypeInv, TypeOK

\* What the statements leave of a row: its plan, and when it was created.
SamePlan(r, q) ==
    /\ q.created = r.created /\ q.codes = r.codes /\ q.after = r.after
    /\ q.absolute = r.absolute /\ q.single = r.single /\ q.immediate = r.immediate
    /\ q.first = r.first /\ q.interval = r.interval

\* What each statement does to a row.
LEMMA CreditedRow ==
    ASSUME NEW r \in Row, NEW msat \in Nat, now \in Nat
    PROVE  /\ Credited(r, msat) \in Row /\ SamePlan(r, Credited(r, msat))
           /\ Credited(r, msat).bal = r.bal + msat /\ Credited(r, msat).updated = now
           /\ Credited(r, msat).active = r.active /\ Credited(r, msat).last = r.last
<1> DEFINE sum == r.bal + msat
<1>1. sum \in Nat
  BY DEF Row
<1>2. Credited(r, msat) = [r EXCEPT !.bal = sum, !.updated = now]
  BY DEF Credited
<1> HIDE DEF sum
<1>3. Credited(r, msat) \in Row /\ SamePlan(r, Credited(r, msat))
  BY <1>1, <1>2 DEF Row, SamePlan
<1>4. /\ Credited(r, msat).bal = sum /\ Credited(r, msat).updated = now
      /\ Credited(r, msat).active = r.active /\ Credited(r, msat).last = r.last
  BY <1>1, <1>2 DEF Row
<1> QED BY <1>3, <1>4 DEF sum

\* updateVoucherBalance with a negative amount.
LEMMA DebitedRow ==
    ASSUME NEW r \in Row, NEW msat \in Nat, msat <= r.bal, now \in Nat
    PROVE  /\ Debited(r, msat) \in Row /\ SamePlan(r, Debited(r, msat))
           /\ Debited(r, msat).bal = r.bal - msat /\ Debited(r, msat).updated = now
           /\ Debited(r, msat).last = r.last
<1> DEFINE act == r.active /\ ~r.single
           rest == r.bal - msat
<1>1. act \in BOOLEAN /\ rest \in Nat
  BY DEF Row
<1>2. Debited(r, msat) = [r EXCEPT !.bal = rest, !.active = act, !.updated = now]
  BY DEF Debited
<1> HIDE DEF act, rest
<1>3. Debited(r, msat) \in Row /\ SamePlan(r, Debited(r, msat))
  BY <1>1, <1>2 DEF Row, SamePlan
<1>4. /\ Debited(r, msat).bal = rest /\ Debited(r, msat).updated = now
      /\ Debited(r, msat).last = r.last
  BY <1>1, <1>2 DEF Row
<1> QED BY <1>3, <1>4 DEF rest

\* addVoucherBalance.
LEMMA GivenBackRow ==
    ASSUME NEW r \in Row, NEW msat \in Nat, now \in Nat
    PROVE  /\ GivenBack(r, msat) \in Row /\ SamePlan(r, GivenBack(r, msat))
           /\ GivenBack(r, msat).bal = r.bal + msat /\ GivenBack(r, msat).updated = now
           /\ GivenBack(r, msat).active = TRUE /\ GivenBack(r, msat).last = r.last
<1> DEFINE sum == r.bal + msat
<1>1. sum \in Nat
  BY DEF Row
<1>2. GivenBack(r, msat) = [r EXCEPT !.bal = sum, !.active = TRUE, !.updated = now]
  BY DEF GivenBack
<1> HIDE DEF sum
<1>3. GivenBack(r, msat) \in Row /\ SamePlan(r, GivenBack(r, msat))
  BY <1>1, <1>2 DEF Row, SamePlan
<1>4. /\ GivenBack(r, msat).bal = sum /\ GivenBack(r, msat).updated = now
      /\ GivenBack(r, msat).active = TRUE /\ GivenBack(r, msat).last = r.last
  BY <1>1, <1>2 DEF Row
<1> QED BY <1>3, <1>4 DEF sum

\* markVouchersRefunded.
LEMMA ClosedRow ==
    ASSUME NEW r \in Row, now \in Nat
    PROVE  /\ Closed(r) \in Row /\ SamePlan(r, Closed(r))
           /\ Closed(r).bal = 0 /\ Closed(r).updated = now
           /\ Closed(r).active = FALSE /\ Closed(r).last = r.last
BY DEF Row, Closed, SamePlan

\* markVouchersRegularRefunded.
LEMMA RegularRefundedRow ==
    ASSUME NEW r \in Row, NEW last \in Int
    PROVE  /\ RegularRefunded(r, last) \in Row /\ SamePlan(r, RegularRefunded(r, last))
           /\ RegularRefunded(r, last).bal = 0 /\ RegularRefunded(r, last).updated = r.updated
           /\ RegularRefunded(r, last).active = r.active /\ RegularRefunded(r, last).last = last
BY DEF Row, RegularRefunded, SamePlan

\* advanceRegularRefundTime.
LEMMA AdvancedRow ==
    ASSUME NEW r \in Row, NEW last \in Int
    PROVE  /\ Advanced(r, last) \in Row /\ SamePlan(r, Advanced(r, last))
           /\ Advanced(r, last).bal = r.bal /\ Advanced(r, last).updated = r.updated
           /\ Advanced(r, last).active = r.active /\ Advanced(r, last).last = last
BY DEF Row, Advanced, SamePlan

\* A statement that keeps the plan keeps the types.
LEMMA RowChange ==
    ASSUME TypeInv, NEW v \in Vouchers, NEW r \in Row, SamePlan(voucher[v], r),
           voucher' = [voucher EXCEPT ![v] = r]
    PROVE  voucher' \in [Vouchers -> Row] /\ Planned'
BY DEF TypeInv, TypeOK, Planned, SamePlan, PlanOK

\* The histories keep their types.
LEMMA TouchType ==
    ASSUME TypeInv, NEW v \in Vouchers, NEW how \in SUBSET {"row", "plan", "codes"}, Touch(v, how)
    PROVE  /\ touched' \in [Vouchers -> SUBSET {"row", "plan", "codes"}]
           /\ looked' \in [Vouchers -> Looks]
BY DEF TypeInv, TypeOK, Touch, NoLook, Looks

\* So do the sets of those changed in silence.
LEMMA QuietType ==
    ASSUME TypeInv, NEW v \in Vouchers, Quietly(v)
    PROVE  quiet' \subseteq Vouchers /\ missed' \subseteq Vouchers
BY DEF Quietly, TypeInv, TypeOK

\* So does the log of refunds.
LEMMA RefundedType ==
    ASSUME TypeInv, NEW v \in Vouchers, NEW codes \in Codes \cup {NoCodes},
           NEW regular \in BOOLEAN, NEW expiry \in BOOLEAN, Refunded(v, codes, regular, expiry)
    PROVE  refund' \in [Vouchers -> Refunds]
<1> DEFINE log == [all |-> refund[v].all + 1, codes |-> codes, expiry |-> expiry,
                   regular |-> IF regular THEN refund[v].regular + 1 ELSE refund[v].regular]
<1>1. refund[v].all \in Nat /\ refund[v].regular \in Nat
  BY DEF TypeInv, TypeOK, Refunds
<1>2. log \in Refunds
  BY <1>1 DEF Refunds
<1>3. refund' = [refund EXCEPT ![v] = log]
  BY DEF Refunded
<1> HIDE DEF log
<1> QED BY <1>2, <1>3 DEF TypeInv, TypeOK

\* Fund keeps the types.
LEMMA FundType ==
    ASSUME TypeInv, NEW v \in Vouchers, NEW msat \in Deposits, Fund(v, msat)
    PROVE  TypeInv'
<1> DEFINE r == Credited(voucher[v], msat)
<1>1. voucher[v] \in Row /\ now \in Nat /\ now \in Int /\ msat \in Nat
  BY ScheduleAssumption DEF TypeInv, TypeOK
<1>2. r \in Row /\ SamePlan(voucher[v], r)
  BY <1>1, CreditedRow
<1>3. RegularRefunded(r, now) \in Row /\ SamePlan(r, RegularRefunded(r, now))
  BY <1>1, <1>2, RegularRefundedRow
<1>4. SamePlan(voucher[v], RegularRefunded(r, now))
  BY <1>2, <1>3 DEF SamePlan
<1>5. voucher' = [voucher EXCEPT ![v] = r]
        \/ voucher' = [voucher EXCEPT ![v] = RegularRefunded(r, now)]
  BY DEF Fund
<1>6. voucher' \in [Vouchers -> Row] /\ Planned'
  BY <1>2, <1>3, <1>4, <1>5, RowChange
<1>7. refund' \in [Vouchers -> Refunds]
  <2>1. r.codes \in Codes \cup {NoCodes}
    BY <1>2 DEF Row
  <2> QED BY <2>1, RefundedType DEF Fund, TypeInv, TypeOK
<1>8. touched' \in [Vouchers -> SUBSET {"row", "plan", "codes"}] /\ looked' \in [Vouchers -> Looks]
  BY TouchType DEF Fund, Deposit
<1>9. unsent' \subseteq SUBSET Vouchers /\ changes' \in Nat
  BY DEF Fund, Deposit, TypeInv, TypeOK
<1> QED BY <1>6, <1>7, <1>8, <1>9 DEF Fund, Deposit, TypeInv, TypeOK

\* TransferIn keeps the types.
LEMMA TransferInType ==
    ASSUME TypeInv, NEW v \in Vouchers, NEW msat \in Deposits, TransferIn(v, msat)
    PROVE  TypeInv'
<1>1. voucher[v] \in Row /\ now \in Nat /\ msat \in Nat
  BY ScheduleAssumption DEF TypeInv, TypeOK
<1>2. voucher' \in [Vouchers -> Row] /\ Planned'
  BY <1>1, CreditedRow, RowChange DEF TransferIn
<1>3. touched' \in [Vouchers -> SUBSET {"row", "plan", "codes"}] /\ quiet' \subseteq Vouchers
       /\ looked' \in [Vouchers -> Looks] /\ missed' \subseteq Vouchers
  BY TouchType, QuietType DEF TransferIn, Deposit
<1>4. changes' \in Nat
  BY DEF TransferIn, Deposit, TypeInv, TypeOK
<1> QED BY <1>2, <1>3, <1>4 DEF TransferIn, Deposit, TypeInv, TypeOK

\* Redeem and TransferOut keep the types.
LEMMA DebitType ==
    ASSUME TypeInv, NEW v \in Vouchers, NEW msat \in Amounts, Debit(v, msat),
           taken' \in [Vouchers -> Nat]
    PROVE  TypeInv'
<1>1. voucher[v] \in Row /\ now \in Nat /\ msat \in Nat
  BY ScheduleAssumption DEF TypeInv, TypeOK
<1>2. voucher' \in [Vouchers -> Row] /\ Planned'
  BY <1>1, DebitedRow, RowChange DEF Debit
<1>3. touched' \in [Vouchers -> SUBSET {"row", "plan", "codes"}] /\ quiet' \subseteq Vouchers
       /\ looked' \in [Vouchers -> Looks] /\ missed' \subseteq Vouchers
  BY TouchType, QuietType DEF Debit
<1> QED BY <1>2, <1>3 DEF Debit, count, TypeInv, TypeOK

\* Restore keeps the types.
LEMMA RestoreType ==
    ASSUME TypeInv, NEW v \in Vouchers, Restore(v)
    PROVE  TypeInv'
<1>1. voucher[v] \in Row /\ now \in Nat /\ taken[v] \in Nat
  BY ScheduleAssumption DEF TypeInv, TypeOK
<1>2. voucher' \in [Vouchers -> Row] /\ Planned'
  BY <1>1, GivenBackRow, RowChange DEF Restore
<1>3. touched' \in [Vouchers -> SUBSET {"row", "plan", "codes"}] /\ quiet' \subseteq Vouchers
       /\ looked' \in [Vouchers -> Looks] /\ missed' \subseteq Vouchers
  BY TouchType, QuietType DEF Restore
<1> QED BY <1>2, <1>3 DEF Restore, count, TypeInv, TypeOK

\* Every handler keeps the types.
LEMMA HandlerType ==
    ASSUME TypeInv, Handler \/ Signals
    PROVE  TypeInv'
<1>1. ASSUME NEW v \in Vouchers, NEW msat \in Amounts, Redeem(v, msat) \/ TransferOut(v, msat)
      PROVE  TypeInv'
  <2>1. taken' \in [Vouchers -> Nat] /\ Debit(v, msat)
    BY <1>1, ScheduleAssumption DEF Redeem, TransferOut, TypeInv, TypeOK
  <2> QED BY <2>1, DebitType
<1>2. ASSUME NEW v \in Vouchers, Pays(v)
      PROVE  TypeInv'
  BY <1>2 DEF Pays, count, hist, pass, TypeInv, TypeOK, Planned
<1>3. ASSUME NEW batch \in unsent, Signal(batch)
      PROVE  TypeInv'
  BY <1>3 DEF Signal, count, hist, pass, TypeInv, TypeOK, Planned
<1> QED BY <1>1, <1>2, <1>3, CreateType, EditType, FundType, TransferInType, RestoreType
        DEF Handler, Signals

-----------------------------------------------------------------------------
\* The types of what the worker has.
LEMMA WorkerFields ==
    ASSUME TypeInv
    PROVE  /\ worker.pc \in WorkerPC /\ worker.pass \in {"expired", "regular"}
           /\ worker.at \in Nat /\ worker.list \in SUBSET Vouchers
           /\ worker.read \in [Vouchers -> Reading] /\ worker.until \in Nat
BY DEF TypeInv, TypeOK, Working

\* What a pass has looked at keeps its type.
LEMMA LookType ==
    ASSUME TypeInv,
           \/ Begun \/ Forgotten \/ ReadClock \/ ListFails \/ UNCHANGED <<missed, looked>>
    PROVE  looked' \in [Vouchers -> Looks] /\ missed' \subseteq Vouchers
<1>1. now \in Nat /\ NoLook \in Looks /\ [expired |-> now, regular |-> 0] \in Looks
  BY DEF TypeInv, TypeOK, NoLook, Looks
<1>2. CASE Begun
  BY <1>1, <1>2 DEF Begun, NoLook
<1>3. CASE ReadClock
  <2>1. \A v \in Vouchers : [looked[v] EXCEPT !.regular = now] \in Looks
    BY <1>1 DEF TypeInv, TypeOK, Looks
  <2> QED BY <1>1, <1>3, <2>1 DEF ReadClock, TypeInv, TypeOK
<1>4. CASE Forgotten \/ ListFails \/ UNCHANGED <<missed, looked>>
  BY <1>1, <1>4 DEF Forgotten, ListFails, TypeInv, TypeOK
<1> QED BY <1>2, <1>3, <1>4

\* NoRead is a reading.
LEMMA NoReadType == NoRead \in Reading
BY DEF NoRead, Reading

\* A listing keeps the types.
LEMMA ListedType ==
    ASSUME TypeInv, NEW chosen \in SUBSET Vouchers, NEW read \in [Vouchers -> Reading],
           Listed(chosen, read), Begun \/ UNCHANGED <<missed, looked>>
    PROVE  TypeInv'
<1>1. worker' = [worker EXCEPT !.pc = IF chosen = {} THEN "pay" ELSE "codes",
                               !.list = chosen, !.read = read]
  BY DEF Listed
<1>2. worker' \in Working
  BY <1>1 DEF TypeInv, TypeOK, Working, WorkerPC
<1>3. touched' \in [Vouchers -> SUBSET {"row", "plan", "codes"}]
  BY DEF Listed
<1> QED BY <1>2, <1>3, LookType DEF Listed, count, TypeInv, TypeOK, Planned

\* ListExpired keeps the types.
LEMMA ListExpiredType ==
    ASSUME TypeInv, ListExpired
    PROVE  TypeInv'
BY ListedType, NoReadType DEF ListExpired

\* ListRegular keeps the types: every due row has an interval.
LEMMA ListRegularType ==
    ASSUME TypeInv, ListRegular
    PROVE  TypeInv'
<1> DEFINE due == {v \in Vouchers : RegularDue(voucher[v])}
           read == [v \in Vouchers |-> IF v \in due THEN ReadRegular(voucher[v]) ELSE NoRead]
<1>1. ASSUME NEW v \in due
      PROVE  ReadRegular(voucher[v]) \in Reading
  <2>1. /\ voucher[v].first \in Nat /\ voucher[v].last \in Int
        /\ voucher[v].interval \in Nat \ {0} /\ worker.at \in Int
    BY WorkerFields DEF RegularDue, HasRegular, TypeInv, TypeOK, Row, Planned, PlanOK
  <2>2. nextRegularRefundAnchor(voucher[v].first, voucher[v].last, voucher[v].interval,
                                worker.at) \in Int
    BY <2>1, AnchorType
  <2> QED BY <2>2 DEF ReadRegular, Reading
<1>2. read \in [Vouchers -> Reading]
  BY <1>1, NoReadType
<1>3. Listed(due, read)
  BY DEF ListRegular
<1>4. UNCHANGED <<missed, looked>>
  BY DEF ListRegular
<1> QED BY <1>2, <1>3, <1>4, ListedType

\* ReadCodes keeps the types.
LEMMA ReadCodesType ==
    ASSUME TypeInv, ReadCodes
    PROVE  TypeInv'
<1> DEFINE read == [v \in Vouchers |-> IF v \in worker.list
                      THEN [worker.read[v] EXCEPT !.codes = voucher[v].codes] ELSE NoRead]
<1>1. ASSUME NEW v \in Vouchers
      PROVE  [worker.read[v] EXCEPT !.codes = voucher[v].codes] \in Reading
  <2>1. worker.read[v] \in Reading /\ voucher[v].codes \in Codes \cup {NoCodes}
    BY WorkerFields DEF TypeInv, TypeOK, Row
  <2> QED BY <2>1 DEF Reading
<1>2. read \in [Vouchers -> Reading]
  BY <1>1, NoReadType
<1>3. worker' = [worker EXCEPT !.pc = "split", !.read = read]
  BY DEF ReadCodes
<1> HIDE DEF read
<1>4. worker' \in Working
  BY <1>2, <1>3 DEF TypeInv, TypeOK, Working, WorkerPC
<1> QED BY <1>4 DEF ReadCodes, count, hist, pass, TypeInv, TypeOK, Planned

\* The end with a voucher keeps the types of the worker.
LEMMA NextVoucherType ==
    ASSUME TypeInv, NEW v \in Vouchers, NextVoucher(v)
    PROVE  worker' \in Working /\ touched' \in [Vouchers -> SUBSET {"row", "plan", "codes"}]
<1> DEFINE read == [worker.read EXCEPT ![v] = NoRead]
           list == worker.list \ {v}
           pc == IF worker.list = {v} THEN "pay" ELSE "split"
<1>1. read \in [Vouchers -> Reading] /\ list \in SUBSET Vouchers /\ pc \in WorkerPC
  BY WorkerFields, NoReadType DEF WorkerPC
<1>2. worker' = [worker EXCEPT !.list = list, !.read = read, !.pc = pc]
  BY DEF NextVoucher
<1> HIDE DEF read, list, pc
<1>3. worker' \in Working
  BY <1>1, <1>2 DEF TypeInv, TypeOK, Working
<1> QED BY <1>3 DEF NextVoucher, TypeInv, TypeOK

\* A step that ends with one voucher of the list.
LEMMA VoucherDealtType ==
    ASSUME TypeInv, NEW v \in Vouchers, NextVoucher(v),
           voucher' = voucher \/ \E r \in Row : SamePlan(voucher[v], r)
                                    /\ voucher' = [voucher EXCEPT ![v] = r],
           refund' \in [Vouchers -> Refunds], adrift' \subseteq Vouchers,
           changes' = changes, faults' \in Nat, missed' \subseteq Vouchers
    PROVE  TypeInv'
<1>1. voucher' \in [Vouchers -> Row] /\ Planned'
  BY RowChange DEF TypeInv, TypeOK, Planned
<1> QED BY <1>1, NextVoucherType DEF NextVoucher, TypeInv, TypeOK

\* The steps with one voucher keep the types.
LEMMA SplitType ==
    ASSUME TypeInv, NEW v \in Vouchers,
           \/ SplitExpired(v) \/ SkipExpired(v) \/ SplitRegular(v) \/ SkipRegular(v)
           \/ SplitFails(v)
    PROVE  TypeInv'
<1>1. /\ voucher[v] \in Row /\ now \in Nat /\ worker.read[v].anchor \in Int
      /\ worker.read[v].codes \in Codes \cup {NoCodes} /\ worker.read[v].early \in BOOLEAN
  BY WorkerFields DEF TypeInv, TypeOK, Reading
<1>2. (~worker.read[v].early) \in BOOLEAN
  OBVIOUS
<1>3. /\ NextVoucher(v) /\ changes' = changes /\ faults' \in {faults, faults + 1}
      /\ adrift' = adrift \/ Anchored(v)
  BY DEF SplitExpired, SkipExpired, SplitRegular, SkipRegular, SplitFails, Fault, count
<1>6. faults' \in Nat /\ adrift' \subseteq Vouchers
  BY <1>3 DEF Anchored, TypeInv, TypeOK
<1>4. voucher' = voucher \/ \E r \in Row : SamePlan(voucher[v], r)
                               /\ voucher' = [voucher EXCEPT ![v] = r]
  BY <1>1, ClosedRow, RegularRefundedRow, AdvancedRow
     DEF SplitExpired, SkipExpired, SplitRegular, SkipRegular, SplitFails
<1>5. refund' \in [Vouchers -> Refunds]
  <2>1. CASE SplitExpired(v)
    BY <1>1, <2>1, RefundedType DEF SplitExpired
  <2>2. CASE SplitRegular(v)
    BY <1>1, <1>2, <2>2, RefundedType DEF SplitRegular
  <2>3. CASE SkipExpired(v) \/ SkipRegular(v) \/ SplitFails(v)
    BY <2>3 DEF SkipExpired, SkipRegular, SplitFails, TypeInv, TypeOK
  <2> QED BY <2>1, <2>2, <2>3
<1>7. missed' \subseteq Vouchers
  BY DEF SplitExpired, SkipExpired, SplitRegular, SkipRegular, SplitFails, TypeInv, TypeOK
<1> QED BY <1>3, <1>4, <1>5, <1>6, <1>7, VoucherDealtType

\* The steps around the sleep keep the types.
LEMMA NapType ==
    ASSUME TypeInv, ReadClock \/ Pay \/ NextRefundAt \/ NoSleep \/ Sleep \/ WakeUp
    PROVE  TypeInv'
<1>1. now \in Nat /\ worker \in Working
  BY DEF TypeInv, TypeOK
<1>2. \A v \in Vouchers : Deadline(voucher[v]) \in Int /\ NextAt(voucher[v]) \in Int
  BY DEF TypeInv, TypeOK, Row, Deadline, NextAt
<1>3. \A t \in Coming : t \in Nat
  BY <1>1, <1>2 DEF Coming, NextTimes
<1>4. worker' \in Working
  <2>1. CASE ReadClock
    BY <1>1, <2>1 DEF ReadClock, Working, WorkerPC
  <2>2. CASE Pay
    <3>1. worker' = [worker EXCEPT !.pc = "clock", !.pass = "regular"]
            \/ worker' = [worker EXCEPT !.pc = "next", !.pass = "expired", !.at = 0]
      BY <2>2 DEF Pay
    <3>2. CASE worker' = [worker EXCEPT !.pc = "clock", !.pass = "regular"]
      BY <1>1, <3>2 DEF Working, WorkerPC
    <3>3. CASE worker' = [worker EXCEPT !.pc = "next", !.pass = "expired", !.at = 0]
      BY <1>1, <3>3 DEF Working, WorkerPC
    <3> QED BY <3>1, <3>2, <3>3
  <2>3. CASE NextRefundAt
    <3>1. \E t \in Nat : worker' = [worker EXCEPT !.pc = "doze", !.until = t]
      BY <1>3, <2>3 DEF NextRefundAt
    <3> QED BY <1>1, <3>1 DEF Working, WorkerPC
  <2>4. CASE NoSleep \/ WakeUp
    <3>1. worker' = [worker EXCEPT !.pc = "list", !.until = 0]
      BY <2>4 DEF NoSleep, WakeUp
    <3> QED BY <1>1, <3>1 DEF Working, WorkerPC
  <2>5. CASE Sleep
    <3> DEFINE until == IF worker.until = 0 \/ worker.until > now + MaxSleep
                        THEN now + MaxSleep ELSE worker.until
    <3>1. until \in Nat
      BY <1>1, ScheduleAssumption DEF Working
    <3>2. worker' = [worker EXCEPT !.pc = "asleep", !.until = until]
      BY <2>5 DEF Sleep
    <3> HIDE DEF until
    <3> QED BY <1>1, <3>1, <3>2 DEF Working, WorkerPC
  <2> QED BY <2>1, <2>2, <2>3, <2>4, <2>5
<1>5. looked' \in [Vouchers -> Looks] /\ missed' \subseteq Vouchers
  BY LookType DEF Pay, NextRefundAt, NoSleep, Sleep, WakeUp, hist, pass
<1> QED BY <1>4, <1>5 DEF ReadClock, Pay, NextRefundAt, NoSleep, Sleep, WakeUp, Forgotten,
                    count, hist, pass, TypeInv, TypeOK, Planned

\* Failures, crashes and the clock keep the types.
LEMMA FailureType ==
    ASSUME TypeInv, ListFails \/ NextRefundAtFails \/ Crash \/ Tick
    PROVE  TypeInv'
<1>1. worker \in Working /\ now \in Nat /\ faults \in Nat
  BY DEF TypeInv, TypeOK
<1>2. CASE ListFails
  <2> DEFINE none == [v \in Vouchers |-> NoRead]
  <2>1. none \in [Vouchers -> Reading] /\ {} \in SUBSET Vouchers
    BY NoReadType
  <2>2. worker' = [worker EXCEPT !.pc = "pay", !.list = {}, !.read = none]
    BY <1>2 DEF ListFails
  <2> HIDE DEF none
  <2>3. worker' \in Working
    BY <1>1, <2>1, <2>2 DEF Working, WorkerPC
  <2>4. looked' \in [Vouchers -> Looks] /\ missed' \subseteq Vouchers
    BY <1>2, LookType
  <2> QED BY <1>1, <1>2, <2>3, <2>4 DEF ListFails, Fault, TypeInv, TypeOK, Planned
<1>3. CASE NextRefundAtFails
  <2>1. worker' \in Working
    BY <1>1, <1>3 DEF NextRefundAtFails, Working, WorkerPC
  <2> QED BY <1>1, <1>3, <2>1 DEF NextRefundAtFails, Fault, TypeInv, TypeOK, Planned
<1>4. CASE Crash
  <2>1. worker' \in Working
    BY <1>4, NoReadType DEF Crash, Boot, Working, WorkerPC
  <2>2. touched' \in [Vouchers -> SUBSET {"row", "plan", "codes"}] /\ unsent' = {}
    BY <1>4 DEF Crash
  <2>3. faults' \in Nat
    BY <1>1, <1>4 DEF Crash, Fault
  <2>4. Planned' /\ quiet' = {}
    BY <1>4 DEF Crash, Forgotten, TypeInv, Planned
  <2>5. looked' \in [Vouchers -> Looks] /\ missed' \subseteq Vouchers
    BY <1>4, LookType DEF Crash
  <2> QED BY <1>4, <2>1, <2>2, <2>3, <2>4, <2>5 DEF Crash, Fault, TypeInv, TypeOK
<1>5. CASE Tick
  BY <1>1, <1>5 DEF Tick, count, hist, pass, TypeInv, TypeOK, Planned
<1> QED BY <1>2, <1>3, <1>4, <1>5

\* Every step keeps the types.
LEMMA StepType == TypeInv /\ [Next]_vars => TypeInv'
<1> SUFFICES ASSUME TypeInv, [Next]_vars PROVE TypeInv'
  OBVIOUS
<1>1. CASE Handler \/ Signals
  BY <1>1, HandlerType
<1>2. CASE WorkerStep
  BY <1>2, ListExpiredType, ListRegularType, ReadCodesType, SplitType, NapType DEF WorkerStep
<1>3. CASE Failure \/ Crash \/ Tick
  BY <1>3, SplitType, FailureType DEF Failure
<1>4. CASE UNCHANGED vars
  BY <1>4 DEF vars, count, hist, pass, TypeInv, TypeOK, Planned
<1> QED BY <1>1, <1>2, <1>3, <1>4 DEF Next

\* Every variable keeps its type: in particular no balance is ever below zero, because
\* updateVoucherBalance has "balance_msat >= ?" and the worker refunds what is there
\* (db.go:499-523).
THEOREM TypeCorrect == Spec => []TypeOK
<1>1. TypeInv => TypeOK
  BY DEF TypeInv
<1> QED BY <1>1, InitType, StepType, PTL DEF Spec

-----------------------------------------------------------------------------
\* Nothing is set in the future, and money has the time at which it came.
Dated ==
    /\ now >= 1
    /\ \A v \in Vouchers :
        /\ voucher[v].created <= now /\ voucher[v].updated <= now
        /\ voucher[v].after <= MaxVoucherExpireSeconds
        /\ voucher[v].bal > 0 => voucher[v].updated > 0

\* A worker that knows how long it may sleep knows of all that has been signalled.
Rested ==
    worker.pc \in {"doze", "asleep"} /\ ~wake =>
        \A v \in Vouchers \ (quiet \cup UNION unsent) :
            \A t \in NextTimes(voucher[v]) :
                t > now => worker.until # 0 /\ worker.until <= t

\* The worker has a list.
Listing == worker.pc \in {"codes", "split"}

\* What does not exist has nothing, and is not listed.
Unborn ==
    \A v \in Vouchers :
        voucher[v].created = 0 =>
            /\ voucher[v].bal = 0 /\ ~voucher[v].active /\ taken[v] = 0
            /\ voucher[v].first = 0 /\ refund[v].regular = 0
            /\ ~voucher[v].absolute /\ voucher[v].updated = 0
            /\ v \notin worker.list

\* What was listed as expired still is, unless it was touched.
StillExpired ==
    Listing /\ worker.pass = "expired" =>
        \A v \in worker.list : "row" \in touched[v] \/ Expired(voucher[v])

\* The codes that were read are those asked for, unless they were changed since.
CodesRead ==
    /\ \A v \in Vouchers : voucher[v].codes = wanted[v]
    /\ worker.pc = "split" =>
        \A v \in worker.list : "codes" \in touched[v] \/ worker.read[v].codes = wanted[v]

\* A time of the schedule by now, or the one before its first.
OnTime(r, at) ==
    /\ r.first - r.interval <= at /\ at <= now
    /\ (at - r.first) % r.interval = 0

\* The clock of a pass is not behind what was served before it.
ClockRead ==
    /\ worker.at <= now
    /\ worker.pc \in {"next", "doze", "asleep"} => worker.pass = "expired"
    /\ worker.pc = "list" /\ worker.pass = "regular" =>
        \A v \in Vouchers \ adrift : voucher[v].first > 0 => voucher[v].last <= worker.at

\* What the worker has made of a listed voucher fits its schedule, unless that was
\* changed since.
Fits(r, read) ==
    /\ r.first > 0 /\ OnTime(r, read.anchor)
    /\ r.last > 0 => r.last <= read.anchor
    /\ ~read.early => /\ r.first <= read.anchor
                      /\ r.last > 0 => r.last + r.interval <= read.anchor

AnchorFits ==
    Listing /\ worker.pass = "regular" =>
        \A v \in worker.list \ adrift :
            "plan" \in touched[v] \/ Fits(voucher[v], worker.read[v])

\* How many times of the schedule were served by last_at.
Served(r) == IF r.last < r.first THEN 0 ELSE (r.last - r.first) \div r.interval + 1

\* There was one refund for each at most.
OncePerServed ==
    \A v \in Vouchers \ adrift :
        voucher[v].first > 0 => refund[v].regular <= Served(voucher[v])

-----------------------------------------------------------------------------
\* Amounts that move.
Positive == Nat \ {0}

\* What a step may make of a row.  It is created, or edited.
Asking(v) ==
    \E p \in Requests :
        /\ Valid(p)
        /\ \/ /\ ~Exists(v)
              /\ voucher'[v] = Configured(Parsed(p), Parsed(p).codes, now, 0, 0)
           \/ Exists(v) /\ voucher'[v] = Edited(voucher[v], Parsed(p))

\* Money moves.
Moving(v) ==
    \E msat \in Positive :
        \/ Exists(v) /\ voucher'[v] = Credited(voucher[v], msat)
        \/ /\ Exists(v) /\ voucher[v].immediate
           /\ voucher'[v] = RegularRefunded(Credited(voucher[v], msat), now)
        \/ msat <= voucher[v].bal /\ voucher'[v] = Debited(voucher[v], msat)
        \/ msat = taken[v] /\ voucher'[v] = GivenBack(voucher[v], msat)

\* The worker refunds it, or passes it over.
Refunding(v) ==
    /\ worker.pc = "split" /\ v \in worker.list
    /\ \/ voucher'[v] = Closed(voucher[v])
       \/ /\ worker.pass = "regular"
          /\ \/ voucher'[v] = RegularRefunded(voucher[v], worker.read[v].anchor)
             \/ voucher'[v] = Advanced(voucher[v], worker.read[v].anchor)

\* A change of one row leaves the others.
LEMMA OneRow ==
    ASSUME TypeInv, NEW v \in Vouchers, NEW r, voucher' = [voucher EXCEPT ![v] = r]
    PROVE  \A u \in Vouchers : voucher'[u] = IF u = v THEN r ELSE voucher[u]
BY DEF TypeInv, TypeOK

\* What a handler does to the rows.
LEMMA HandlerRows ==
    ASSUME TypeInv, Handler
    PROVE  /\ now' = now
           /\ \A u \in Vouchers : voucher'[u] = voucher[u] \/ Asking(u) \/ Moving(u)
<1>1. ASSUME NEW p \in Requests, NEW batch \in SUBSET Vouchers, Create(batch, p)
      PROVE  now' = now /\ \A u \in Vouchers : voucher'[u] = voucher[u] \/ Asking(u)
  BY <1>1 DEF Create, Asking
<1>2. ASSUME NEW p \in Requests, NEW v \in Vouchers, Edit(v, p)
      PROVE  now' = now /\ \A u \in Vouchers : voucher'[u] = voucher[u] \/ Asking(u)
  BY <1>2, OneRow DEF Edit, Asking
<1>3. ASSUME NEW v \in Vouchers, NEW msat \in Deposits, Fund(v, msat) \/ TransferIn(v, msat)
      PROVE  now' = now /\ \A u \in Vouchers : voucher'[u] = voucher[u] \/ Moving(u)
  <2>1. msat \in Positive
    BY ScheduleAssumption DEF Positive
  <2>2. Credited(voucher[v], msat).immediate = voucher[v].immediate
    BY CreditedRow, <2>1 DEF SamePlan, Positive, TypeInv, TypeOK
  <2>3. now' = now /\ Exists(v)
    BY <1>3 DEF Fund, TransferIn, Deposit
  <2>4. CASE voucher' = [voucher EXCEPT ![v] = Credited(voucher[v], msat)]
    <3>1. \A u \in Vouchers : voucher'[u] = IF u = v THEN Credited(voucher[v], msat)
                                                   ELSE voucher[u]
      BY <2>4, OneRow
    <3>2. Moving(v)
      BY <2>1, <2>3, <3>1 DEF Moving
    <3> QED BY <2>3, <3>1, <3>2
  <2>5. CASE /\ voucher[v].immediate
             /\ voucher' = [voucher EXCEPT ![v] =
                              RegularRefunded(Credited(voucher[v], msat), now)]
    <3>1. \A u \in Vouchers :
            voucher'[u] = IF u = v THEN RegularRefunded(Credited(voucher[v], msat), now)
                                   ELSE voucher[u]
      BY <2>5, OneRow
    <3>2. Moving(v)
      BY <2>1, <2>3, <2>5, <3>1 DEF Moving
    <3> QED BY <2>3, <3>1, <3>2
  <2> QED BY <1>3, <2>2, <2>4, <2>5 DEF Fund, TransferIn
<1>4. ASSUME NEW v \in Vouchers, NEW msat \in Amounts, Redeem(v, msat) \/ TransferOut(v, msat)
      PROVE  now' = now /\ \A u \in Vouchers : voucher'[u] = voucher[u] \/ Moving(u)
  <2>1. msat \in Positive
    BY ScheduleAssumption DEF Positive
  <2> QED BY <1>4, <2>1, OneRow DEF Redeem, TransferOut, Debit, Moving
<1>5. ASSUME NEW v \in Vouchers, Restore(v) \/ Pays(v)
      PROVE  now' = now /\ \A u \in Vouchers : voucher'[u] = voucher[u] \/ Moving(u)
  <2>1. taken[v] \in Positive
    BY <1>5 DEF Restore, Pays, Positive, TypeInv, TypeOK
  <2> QED BY <1>5, <2>1, OneRow DEF Restore, Pays, Moving
<1> QED BY <1>1, <1>2, <1>3, <1>4, <1>5 DEF Handler

\* What the worker does to them.
LEMMA SplitRows ==
    ASSUME TypeInv, NEW v \in Vouchers,
           \/ SplitExpired(v) \/ SkipExpired(v) \/ SplitRegular(v) \/ SkipRegular(v)
           \/ SplitFails(v)
    PROVE  now' = now /\ \A u \in Vouchers : voucher'[u] = voucher[u] \/ Refunding(u)
<1>1. NextVoucher(v)
  BY DEF SplitExpired, SkipExpired, SplitRegular, SkipRegular, SplitFails
<1>2. now' = now /\ worker.pc = "split" /\ v \in worker.list
  BY <1>1 DEF NextVoucher
<1>3. CASE SplitExpired(v)
  <2>1. \A u \in Vouchers : voucher'[u] = IF u = v THEN Closed(voucher[v]) ELSE voucher[u]
    BY <1>3, OneRow DEF SplitExpired
  <2> QED BY <1>2, <2>1 DEF Refunding
<1>4. CASE SplitRegular(v)
  <2>1. \A u \in Vouchers :
          voucher'[u] = IF u = v THEN RegularRefunded(voucher[v], worker.read[v].anchor)
                                 ELSE voucher[u]
    BY <1>4, OneRow DEF SplitRegular
  <2> QED BY <1>2, <1>4, <2>1 DEF SplitRegular, Refunding
<1>5. CASE SkipRegular(v)
  <2>1. \A u \in Vouchers :
          voucher'[u] = IF u = v THEN Advanced(voucher[v], worker.read[v].anchor)
                                 ELSE voucher[u]
    BY <1>5, OneRow DEF SkipRegular
  <2> QED BY <1>2, <1>5, <2>1 DEF SkipRegular, Refunding
<1>6. CASE SkipExpired(v) \/ SplitFails(v)
  BY <1>2, <1>6 DEF SkipExpired, SplitFails
<1> QED BY <1>3, <1>4, <1>5, <1>6

\* The steps that leave the vouchers alone.
Resting ==
    \/ Signals \/ ListExpired \/ ReadClock \/ ListRegular \/ ReadCodes \/ Pay
    \/ NextRefundAt \/ NoSleep \/ Sleep \/ WakeUp
    \/ ListFails \/ NextRefundAtFails \/ Crash \/ Tick \/ UNCHANGED vars

\* They leave the rows, and what was asked for.
LEMMA RestingRows ==
    ASSUME TypeInv, Resting
    PROVE  /\ voucher' = voucher /\ now' \in {now, now + 1} /\ refund' = refund
           /\ wanted' = wanted /\ adrift' = adrift
BY DEF Resting, Signals, Signal, ListExpired, Listed, ReadClock, ListRegular, ReadCodes, Pay,
       NextRefundAt, NoSleep, Sleep, WakeUp, ListFails, NextRefundAtFails, Crash, Tick, vars, hist, pass

\* Every step is one of a handler, of the worker with a voucher of its list, or none of
\* a row at all.
LEMMA Steps ==
    ASSUME [Next]_vars
    PROVE  \/ Handler \/ Resting
           \/ \E v \in Vouchers : \/ SplitExpired(v) \/ SkipExpired(v) \/ SplitRegular(v)
                                  \/ SkipRegular(v) \/ SplitFails(v)
BY DEF Next, WorkerStep, Failure, Resting

\* So a row stays, is asked for anew, has money moved, or is refunded.
LEMMA RowSteps ==
    ASSUME TypeInv, [Next]_vars
    PROVE  /\ now' \in {now, now + 1}
           /\ \A u \in Vouchers :
                \/ voucher'[u] = voucher[u]
                \/ now' = now /\ (Asking(u) \/ Moving(u) \/ Refunding(u))
BY Steps, HandlerRows, SplitRows, RestingRows

\* What each of them leaves.
LEMMA AskedRow ==
    ASSUME TypeInv, NEW v \in Vouchers, Asking(v)
    PROVE  /\ voucher'[v].updated \in {0, now} /\ voucher'[v].after <= MaxVoucherExpireSeconds
           /\ voucher'[v].created \in {now, voucher[v].created}
           /\ voucher'[v].bal \in {0, voucher[v].bal}
           /\ voucher'[v].bal # 0 => voucher'[v].updated = now
           /\ voucher'[v].last = 0
<1> PICK p \in Requests :
        /\ Valid(p)
        /\ \/ /\ ~Exists(v)
              /\ voucher'[v] = Configured(Parsed(p), Parsed(p).codes, now, 0, 0)
           \/ Exists(v) /\ voucher'[v] = Edited(voucher[v], Parsed(p))
  BY DEF Asking
<1> QED BY ParsedType DEF Edited, Configured

\* A movement of money is dated, and keeps the plan.
LEMMA MovedRow ==
    ASSUME TypeInv, NEW v \in Vouchers, Moving(v)
    PROVE  /\ SamePlan(voucher[v], voucher'[v])
           /\ voucher'[v].updated = now
           /\ voucher'[v].last = voucher[v].last \/ voucher[v].immediate
<1>1. voucher[v] \in Row /\ now \in Nat /\ now \in Int
  BY DEF TypeInv, TypeOK
<1>2. PICK msat \in Positive :
        \/ Exists(v) /\ voucher'[v] = Credited(voucher[v], msat)
        \/ /\ Exists(v) /\ voucher[v].immediate
           /\ voucher'[v] = RegularRefunded(Credited(voucher[v], msat), now)
        \/ msat <= voucher[v].bal /\ voucher'[v] = Debited(voucher[v], msat)
        \/ msat = taken[v] /\ voucher'[v] = GivenBack(voucher[v], msat)
  BY DEF Moving
<1>3. msat \in Nat
  BY DEF Positive
<1>4. CASE voucher'[v] = Credited(voucher[v], msat)
  BY <1>1, <1>3, <1>4, CreditedRow
<1>5. CASE /\ voucher[v].immediate
           /\ voucher'[v] = RegularRefunded(Credited(voucher[v], msat), now)
  <2>1. /\ Credited(voucher[v], msat) \in Row
        /\ SamePlan(voucher[v], Credited(voucher[v], msat))
        /\ Credited(voucher[v], msat).updated = now
    BY <1>1, <1>3, CreditedRow
  <2>2. /\ SamePlan(Credited(voucher[v], msat), voucher'[v])
        /\ voucher'[v].updated = now
    BY <1>1, <1>5, <2>1, RegularRefundedRow
  <2> QED BY <1>5, <2>1, <2>2 DEF SamePlan
<1>6. CASE msat <= voucher[v].bal /\ voucher'[v] = Debited(voucher[v], msat)
  BY <1>1, <1>3, <1>6, DebitedRow
<1>7. CASE voucher'[v] = GivenBack(voucher[v], msat)
  <2>1. /\ SamePlan(voucher[v], GivenBack(voucher[v], msat))
        /\ GivenBack(voucher[v], msat).updated = now
        /\ GivenBack(voucher[v], msat).last = voucher[v].last
    BY <1>1, <1>3, GivenBackRow
  <2> QED BY <1>7, <2>1
<1> QED BY <1>2, <1>4, <1>5, <1>6, <1>7

\* A refund keeps the plan, and leaves nothing undated.
LEMMA RefundedRow ==
    ASSUME TypeInv, NEW v \in Vouchers, Refunding(v)
    PROVE  /\ SamePlan(voucher[v], voucher'[v])
           /\ \/ voucher'[v].updated = now
              \/ /\ voucher'[v].updated = voucher[v].updated
                 /\ voucher'[v].bal \in {0, voucher[v].bal}
<1>1. voucher[v] \in Row /\ now \in Nat /\ worker.read[v].anchor \in Int
  BY WorkerFields DEF TypeInv, TypeOK, Reading
<1>2. CASE voucher'[v] = Closed(voucher[v])
  BY <1>1, <1>2, ClosedRow
<1>3. CASE voucher'[v] = RegularRefunded(voucher[v], worker.read[v].anchor)
  BY <1>1, <1>3, RegularRefundedRow
<1>4. CASE voucher'[v] = Advanced(voucher[v], worker.read[v].anchor)
  BY <1>1, <1>4, AdvancedRow
<1> QED BY <1>2, <1>3, <1>4 DEF Refunding

\* Dated is inductive.
LEMMA DatedKept == TypeInv /\ Dated /\ [Next]_vars => Dated'
<1> SUFFICES ASSUME TypeInv, Dated, [Next]_vars PROVE Dated'
  OBVIOUS
<1>1. now \in Nat /\ now' \in {now, now + 1} /\ \A v \in Vouchers : voucher[v] \in Row
  BY RowSteps DEF TypeInv, TypeOK
<1>2. ASSUME NEW v \in Vouchers
      PROVE  /\ voucher'[v].created <= now' /\ voucher'[v].updated <= now'
             /\ voucher'[v].after <= MaxVoucherExpireSeconds
             /\ voucher'[v].bal > 0 => voucher'[v].updated > 0
  <2>1. CASE voucher'[v] = voucher[v]
    BY <1>1, <2>1 DEF Dated, Row
  <2>2. CASE now' = now /\ Asking(v)
    BY <1>1, <2>2, AskedRow DEF Dated, Row
  <2>3. CASE now' = now /\ (Moving(v) \/ Refunding(v))
    <3>1. /\ voucher'[v].created = voucher[v].created
          /\ voucher'[v].after = voucher[v].after
          /\ voucher'[v].updated = now
               \/ /\ voucher'[v].updated = voucher[v].updated
                  /\ voucher'[v].bal \in {0, voucher[v].bal}
      BY <2>3, MovedRow, RefundedRow DEF SamePlan
    <3> QED BY <1>1, <2>3, <3>1 DEF Dated, Row
  <2> QED BY <2>1, <2>2, <2>3, RowSteps
<1> QED BY <1>1, <1>2 DEF Dated

\* Wherever there is a balance there is a deadline, MAX_VOUCHER_EXPIRE_SECONDS away at
\* most: every movement of money sets updated_at, and every request is capped
\* (handlers.go:84-87, db.go:797-810).
THEOREM Parked == Spec => []ParkedAtMost
<1>1. Init => Dated
  BY ScheduleAssumption DEF Init, NoVoucher, Dated
<1>2. TypeInv /\ Dated => ParkedAtMost
  <2> SUFFICES ASSUME TypeInv, Dated, NEW v \in Vouchers, voucher[v].bal > 0
               PROVE  /\ HasDeadline(voucher[v])
                      /\ Deadline(voucher[v]) <= now + MaxVoucherExpireSeconds
    BY DEF ParkedAtMost
  <2>1. /\ voucher[v].created \in Nat /\ voucher[v].updated \in Nat /\ voucher[v].after \in Nat
        /\ now \in Nat /\ MaxVoucherExpireSeconds \in Nat
    BY ScheduleAssumption DEF TypeInv, TypeOK, Row
  <2>2. /\ voucher[v].created <= now /\ voucher[v].updated <= now
        /\ voucher[v].after <= MaxVoucherExpireSeconds /\ voucher[v].updated > 0
    BY DEF Dated
  <2> QED BY <2>1, <2>2 DEF HasDeadline, Deadline
<1> QED BY <1>1, <1>2, InitType, StepType, DatedKept, PTL DEF Spec

-----------------------------------------------------------------------------
(* What a step that is not a handler's leaves of the list                  *)

\* A mark stays until the worker is done with the voucher.
LEMMA TouchKept ==
    ASSUME TypeInv, NEW v \in Vouchers, NEW how \in SUBSET {"row", "plan", "codes"}, Touch(v, how)
    PROVE  \A u \in worker.list : /\ touched[u] \subseteq touched'[u]
                                  /\ u = v => how \subseteq touched'[u]
<1>1. touched \in [Vouchers -> SUBSET {"row", "plan", "codes"}] /\ worker.list \subseteq Vouchers
  BY WorkerFields DEF TypeInv, TypeOK
<1>2. CASE v \in worker.list
  <2>1. touched' = [touched EXCEPT ![v] = touched[v] \cup how]
    BY <1>2 DEF Touch
  <2>2. \A u \in Vouchers : touched'[u] = IF u = v THEN touched[v] \cup how ELSE touched[u]
    BY <1>1, <2>1
  <2> QED BY <1>1, <2>2
<1>3. CASE v \notin worker.list
  BY <1>3 DEF Touch
<1> QED BY <1>2, <1>3

\* A handler that changes a row the worker has listed leaves a mark.
Marked(u) ==
    /\ touched[u] \subseteq touched'[u]
    /\ voucher'[u] = voucher[u] \/ "row" \in touched'[u]
    /\ voucher'[u].codes = voucher[u].codes \/ worker.pc # "split" \/ "codes" \in touched'[u]

\* It leaves the vouchers other than v alone, and the plan of v.
LEMMA OneMarked ==
    ASSUME TypeInv, NEW v \in Vouchers, NEW how \in SUBSET {"row", "plan", "codes"}, Touch(v, how),
           "row" \in how, NEW r, SamePlan(voucher[v], r),
           voucher' = [voucher EXCEPT ![v] = r]
    PROVE  \A u \in worker.list : Marked(u)
<1>1. worker.list \subseteq Vouchers
  BY WorkerFields
<1>2. \A u \in Vouchers : voucher'[u] = IF u = v THEN r ELSE voucher[u]
  BY OneRow
<1> QED BY <1>1, <1>2, TouchKept DEF Marked, SamePlan

\* A refund is logged for one voucher.
LEMMA RefundedOne ==
    ASSUME TypeInv, NEW v \in Vouchers, NEW codes, NEW regular, NEW expiry,
           Refunded(v, codes, regular, expiry)
    PROVE  /\ refund'[v].codes = codes /\ refund'[v].expiry = expiry
           /\ refund'[v].regular = IF regular THEN refund[v].regular + 1 ELSE refund[v].regular
           /\ \A u \in Vouchers \ {v} : refund'[u] = refund[u]
<1> DEFINE log == [all |-> refund[v].all + 1, codes |-> codes, expiry |-> expiry,
                     regular |-> IF regular THEN refund[v].regular + 1 ELSE refund[v].regular]
<1>2. refund' = [refund EXCEPT ![v] = log]
  BY DEF Refunded
<1>3. /\ log.codes = codes /\ log.expiry = expiry
      /\ log.regular = IF regular THEN refund[v].regular + 1 ELSE refund[v].regular
  OBVIOUS
<1> HIDE DEF log
<1> QED BY <1>2, <1>3 DEF TypeInv, TypeOK

\* Nor what was served last, but for a voucher that is swept at once.
SameTimes(r, q) == SamePlan(r, q) /\ (q.last = r.last \/ r.immediate)

\* The handlers that move money change one row, and not what it is planned to do.
Moves(v) ==
    /\ Touch(v, {"row"}) /\ now' = now /\ worker' = worker
    /\ wanted' = wanted /\ adrift' = adrift
    /\ \A u \in Vouchers : refund'[u].regular = refund[u].regular
    /\ \E r \in Row : SameTimes(voucher[v], r) /\ voucher' = [voucher EXCEPT ![v] = r]

\* A handler creates, edits, moves money, or has paid.
LEMMA HandlerMoves ==
    ASSUME TypeInv, Handler
    PROVE  \/ \E p \in Requests : \/ \E batch \in SUBSET Vouchers : Create(batch, p)
                                 \/ \E v \in Vouchers : Edit(v, p)
           \/ \E v \in Vouchers : Moves(v) \/ Pays(v)
<1>0. now \in Nat /\ now \in Int
  BY DEF TypeInv, TypeOK
<1>1. ASSUME NEW v \in Vouchers, NEW msat \in Deposits, Fund(v, msat) \/ TransferIn(v, msat)
      PROVE  Moves(v)
  <2> DEFINE r == Credited(voucher[v], msat)
  <2>1. r \in Row /\ SamePlan(voucher[v], r) /\ r.last = voucher[v].last
    BY <1>0, CreditedRow, ScheduleAssumption DEF TypeInv, TypeOK
  <2>2. RegularRefunded(r, now) \in Row /\ SamePlan(r, RegularRefunded(r, now))
    BY <1>0, <2>1, RegularRefundedRow
  <2>3. SamePlan(voucher[v], RegularRefunded(r, now))
    BY <2>1, <2>2 DEF SamePlan
  <2>4. \/ voucher' = [voucher EXCEPT ![v] = r]
        \/ r.immediate /\ voucher' = [voucher EXCEPT ![v] = RegularRefunded(r, now)]
    BY <1>1 DEF Fund, TransferIn
  <2>5. /\ Touch(v, {"row"}) /\ now' = now /\ worker' = worker
        /\ wanted' = wanted /\ adrift' = adrift
    BY <1>1 DEF Fund, TransferIn, Deposit
  <2>6. refund' = refund \/ Refunded(v, r.codes, FALSE, FALSE)
    BY <1>1 DEF Fund, TransferIn
  <2>7. \A u \in Vouchers : refund'[u].regular = refund[u].regular
    BY <2>6, RefundedOne
  <2>8. SameTimes(voucher[v], r)
    BY <2>1 DEF SameTimes
  <2>9. r.immediate => SameTimes(voucher[v], RegularRefunded(r, now))
    BY <2>1, <2>3 DEF SameTimes, SamePlan
  <2> HIDE DEF r
  <2> QED BY <2>1, <2>2, <2>4, <2>5, <2>7, <2>8, <2>9 DEF Moves
<1>2. ASSUME NEW v \in Vouchers, NEW msat \in Amounts, Redeem(v, msat) \/ TransferOut(v, msat)
      PROVE  Moves(v)
  <2>1. Debit(v, msat) /\ msat <= voucher[v].bal
    BY <1>2 DEF Redeem, TransferOut, Debit
  <2>2. /\ Debited(voucher[v], msat) \in Row
        /\ SameTimes(voucher[v], Debited(voucher[v], msat))
    BY <1>0, <2>1, DebitedRow, ScheduleAssumption DEF SameTimes, TypeInv, TypeOK
  <2>3. /\ Touch(v, {"row"}) /\ now' = now /\ worker' = worker
        /\ wanted' = wanted /\ adrift' = adrift /\ refund' = refund
        /\ voucher' = [voucher EXCEPT ![v] = Debited(voucher[v], msat)]
    BY <2>1 DEF Debit
  <2> QED BY <2>2, <2>3 DEF Moves
<1>3. ASSUME NEW v \in Vouchers, Restore(v)
      PROVE  Moves(v)
  <2>1. /\ GivenBack(voucher[v], taken[v]) \in Row
        /\ SamePlan(voucher[v], GivenBack(voucher[v], taken[v]))
        /\ GivenBack(voucher[v], taken[v]).last = voucher[v].last
    BY <1>0, GivenBackRow DEF TypeInv, TypeOK
  <2>2. /\ Touch(v, {"row"}) /\ now' = now /\ worker' = worker
        /\ wanted' = wanted /\ adrift' = adrift /\ refund' = refund
        /\ voucher' = [voucher EXCEPT ![v] = GivenBack(voucher[v], taken[v])]
    BY <1>3 DEF Restore
  <2> QED BY <2>1, <2>2 DEF SameTimes, Moves
<1> QED BY <1>1, <1>2, <1>3 DEF Handler

\* So every change of what is listed is marked.
LEMMA HandlerMarks ==
    ASSUME TypeInv, Unborn, Handler
    PROVE  worker' = worker /\ \A u \in worker.list : Marked(u)
<1> DEFINE Goal == worker' = worker /\ \A u \in worker.list : Marked(u)
<1>0. worker.list \subseteq Vouchers
  BY WorkerFields
<1>1. ASSUME NEW p \in Requests, NEW batch \in SUBSET Vouchers, Create(batch, p)
      PROVE  Goal
  <2>1. \A u \in batch : u \notin worker.list
    BY <1>1 DEF Create, Exists, Unborn, TypeInv, TypeOK, Row
  <2>2. worker' = worker /\ touched' = touched
          /\ \A u \in Vouchers \ batch : voucher'[u] = voucher[u]
    BY <1>1 DEF Create
  <2> QED BY <1>0, <2>1, <2>2 DEF Marked
<1>2. ASSUME NEW p \in Requests, NEW v \in Vouchers, Edit(v, p)
      PROVE  Goal
  <2> DEFINE how == {"row", "plan"} \cup (IF worker.pc = "split" THEN {"codes"} ELSE {})
  <2>1. how \in SUBSET {"row", "plan", "codes"} /\ Touch(v, how) /\ worker' = worker
    BY <1>2 DEF Edit
  <2>2. "row" \in how /\ (worker.pc = "split" => "codes" \in how)
    OBVIOUS
  <2>3. \A u \in Vouchers : u # v => voucher'[u] = voucher[u]
    BY <1>2 DEF Edit, TypeInv, TypeOK
  <2> HIDE DEF how
  <2> QED BY <1>0, <2>1, <2>2, <2>3, TouchKept DEF Marked
<1>3. ASSUME NEW v \in Vouchers, Moves(v)
      PROVE  Goal
  BY <1>3, OneMarked DEF Moves, SameTimes
<1>4. ASSUME NEW v \in Vouchers, Pays(v)
      PROVE  Goal
  BY <1>4 DEF Pays, hist, pass, Marked
<1> QED BY <1>1, <1>2, <1>3, <1>4, HandlerMoves

\* A step of the worker with one voucher leaves the others.
LEMMA SplitLeaves ==
    ASSUME TypeInv, NEW v \in Vouchers,
           \/ SplitExpired(v) \/ SkipExpired(v) \/ SplitRegular(v) \/ SkipRegular(v)
           \/ SplitFails(v)
    PROVE  /\ worker.pc = "split" /\ v \in worker.list
           /\ worker'.list = worker.list \ {v} /\ worker'.pass = worker.pass
           /\ worker'.at = worker.at /\ worker'.pc \in {"pay", "split"}
           /\ now' = now /\ wanted' = wanted
           /\ \A u \in Vouchers \ {v} :
                /\ voucher'[u] = voucher[u] /\ refund'[u] = refund[u]
                /\ worker'.read[u] = worker.read[u] /\ touched'[u] = touched[u]
                /\ (u \in adrift') <=> (u \in adrift)
<1>1. NextVoucher(v)
  BY DEF SplitExpired, SkipExpired, SplitRegular, SkipRegular, SplitFails
<1>2. /\ worker.pc = "split" /\ v \in worker.list
      /\ worker'.list = worker.list \ {v} /\ worker'.pass = worker.pass
      /\ worker'.at = worker.at /\ worker'.pc \in {"pay", "split"}
      /\ now' = now /\ wanted' = wanted
  BY <1>1 DEF NextVoucher, TypeInv, TypeOK, Working
<1>3. worker'.read = [worker.read EXCEPT ![v] = NoRead]
  BY <1>1 DEF NextVoucher, TypeInv, TypeOK, Working
<1>4. touched' = [touched EXCEPT ![v] = {}]
  BY <1>1 DEF NextVoucher
<1>5. \A u \in Vouchers \ {v} :
        worker'.read[u] = worker.read[u] /\ touched'[u] = touched[u]
  BY <1>3, <1>4, WorkerFields DEF TypeInv, TypeOK
<1>6. \A u \in Vouchers \ {v} : voucher'[u] = voucher[u]
  BY DEF SplitExpired, SkipExpired, SplitRegular, SkipRegular, SplitFails, TypeInv, TypeOK
<1>7. \A u \in Vouchers \ {v} : refund'[u] = refund[u]
  BY DEF SplitExpired, SkipExpired, SplitRegular, SkipRegular, SplitFails, Refunded,
         TypeInv, TypeOK
<1>8. \A u \in Vouchers \ {v} : (u \in adrift') <=> (u \in adrift)
  BY DEF SplitExpired, SkipExpired, SplitRegular, SkipRegular, SplitFails, Anchored
<1> QED BY <1>2, <1>5, <1>6, <1>7, <1>8

-----------------------------------------------------------------------------
\* What does not exist stays as it is.
LEMMA UnbornRow ==
    ASSUME TypeInv, Dated, Unborn, [Next]_vars, NEW v \in Vouchers, voucher'[v].created = 0
    PROVE  voucher'[v] = voucher[v]
<1>1. voucher[v] \in Row /\ now \in Nat /\ now >= 1
  BY DEF TypeInv, TypeOK, Dated
<1>2. ASSUME Asking(v)
      PROVE  FALSE
  BY <1>1, <1>2 DEF Asking, Exists, Edited, Configured
<1>3. ASSUME Moving(v) \/ Refunding(v)
      PROVE  FALSE
  <2>1. voucher[v].created = 0
    BY <1>3, MovedRow, RefundedRow DEF SamePlan
  <2>2. voucher[v].bal = 0 /\ taken[v] = 0 /\ v \notin worker.list /\ ~Exists(v)
    BY <2>1 DEF Unborn, Exists
  <2> QED BY <1>3, <2>2 DEF Moving, Refunding, Positive
<1> QED BY <1>2, <1>3, RowSteps

\* No handler takes from it or refunds it.
LEMMA HandlerUnborn ==
    ASSUME TypeInv, Unborn, Handler, NEW v \in Vouchers, voucher[v].created = 0
    PROVE  taken'[v] = taken[v] /\ refund'[v] = refund[v]
<1>1. /\ voucher[v].bal = 0 /\ taken[v] = 0 /\ ~Exists(v)
  BY DEF Unborn, Exists
<1>2. ASSUME NEW p \in Requests, NEW batch \in SUBSET Vouchers, Create(batch, p)
      PROVE  taken' = taken /\ refund' = refund
  BY <1>2 DEF Create
<1>3. ASSUME NEW p \in Requests, NEW u \in Vouchers, Edit(u, p)
      PROVE  taken' = taken /\ refund'[v] = refund[v]
  BY <1>1, <1>3 DEF Edit, TypeInv, TypeOK
<1>4. ASSUME NEW u \in Vouchers, NEW msat \in Deposits, Fund(u, msat) \/ TransferIn(u, msat)
      PROVE  taken' = taken /\ refund'[v] = refund[v]
  BY <1>1, <1>4 DEF Fund, TransferIn, Deposit, Refunded, TypeInv, TypeOK
<1>5. ASSUME NEW u \in Vouchers, NEW msat \in Amounts, Redeem(u, msat) \/ TransferOut(u, msat)
      PROVE  taken'[v] = taken[v] /\ refund' = refund
  BY <1>1, <1>5, ScheduleAssumption DEF Redeem, TransferOut, Debit, TypeInv, TypeOK
<1>6. ASSUME NEW u \in Vouchers, Restore(u) \/ Pays(u)
      PROVE  taken'[v] = taken[v] /\ refund' = refund
  BY <1>1, <1>6 DEF Restore, Pays, hist, pass, TypeInv, TypeOK
<1> QED BY <1>2, <1>3, <1>4, <1>5, <1>6 DEF Handler

\* Where a new list comes from.
LEMMA RestingList ==
    ASSUME TypeInv, Resting
    PROVE  /\ worker'.list \in {worker.list, {},
                                {v \in Vouchers : ExpiredWithBalance(voucher[v])},
                                {v \in Vouchers : RegularDue(voucher[v])}}
           /\ taken' = taken
<1>1. CASE ListExpired
  BY <1>1 DEF ListExpired, Listed, TypeInv, TypeOK, Working
<1>2. CASE ListRegular
  BY <1>2 DEF ListRegular, Listed, TypeInv, TypeOK, Working
<1>3. CASE Crash
  BY <1>3 DEF Crash, Boot
<1>6. CASE ListFails
  <2>1. worker' = [worker EXCEPT !.pc = "pay", !.list = {}, !.read = worker'.read]
    BY <1>6 DEF ListFails, TypeInv, TypeOK, Working
  <2>2. taken' = taken
    BY <1>6 DEF ListFails
  <2> QED BY <2>1, <2>2 DEF TypeInv, TypeOK, Working
<1>4. CASE \/ ReadClock \/ ReadCodes \/ Pay \/ NextRefundAt \/ NoSleep \/ Sleep \/ WakeUp
           \/ NextRefundAtFails
  BY <1>4 DEF ReadClock, ReadCodes, Pay, NextRefundAt, NoSleep, Sleep, WakeUp,
              NextRefundAtFails, TypeInv, TypeOK, Working
<1>5. CASE Signals \/ Tick \/ UNCHANGED vars
  BY <1>5 DEF Signals, Signal, Tick, vars
<1> QED BY <1>1, <1>2, <1>3, <1>4, <1>5, <1>6 DEF Resting

\* Unborn is inductive.
LEMMA UnbornKept == TypeInv /\ Dated /\ Unborn /\ [Next]_vars => Unborn'
<1> SUFFICES ASSUME TypeInv, Dated, Unborn, [Next]_vars,
                    NEW v \in Vouchers, voucher'[v].created = 0
             PROVE  /\ voucher'[v].bal = 0 /\ ~voucher'[v].active /\ taken'[v] = 0
                    /\ voucher'[v].first = 0 /\ refund'[v].regular = 0
                    /\ ~voucher'[v].absolute /\ voucher'[v].updated = 0
                    /\ v \notin worker'.list
  BY DEF Unborn
<1>1. voucher'[v] = voucher[v] /\ voucher[v].created = 0
  BY UnbornRow
<1>2. /\ voucher[v].bal = 0 /\ ~voucher[v].active /\ taken[v] = 0
      /\ voucher[v].first = 0 /\ refund[v].regular = 0
      /\ ~voucher[v].absolute /\ voucher[v].updated = 0
      /\ v \notin worker.list
  BY <1>1 DEF Unborn
<1>3. taken'[v] = taken[v] /\ refund'[v] = refund[v] /\ v \notin worker'.list
  <2>1. CASE Handler
    BY <1>1, <1>2, <2>1, HandlerUnborn, HandlerMarks
  <2>2. CASE Resting
    <3>1. ~ExpiredWithBalance(voucher[v]) /\ ~RegularDue(voucher[v])
      BY <1>2 DEF ExpiredWithBalance, RegularDue, HasRegular
    <3> QED BY <1>2, <2>2, <3>1, RestingList, RestingRows
  <2>3. CASE \E u \in Vouchers : \/ SplitExpired(u) \/ SkipExpired(u) \/ SplitRegular(u)
                                 \/ SkipRegular(u) \/ SplitFails(u)
    <3>1. PICK u \in Vouchers : \/ SplitExpired(u) \/ SkipExpired(u) \/ SplitRegular(u)
                                \/ SkipRegular(u) \/ SplitFails(u)
      BY <2>3
    <3>2. u # v /\ refund'[v] = refund[v] /\ v \notin worker'.list
      BY <1>2, <3>1, SplitLeaves
    <3>3. taken' = taken
      BY <3>1 DEF SplitExpired, SkipExpired, SplitRegular, SkipRegular, SplitFails, NextVoucher
    <3> QED BY <3>2, <3>3
  <2> QED BY <2>1, <2>2, <2>3, Steps
<1> QED BY <1>1, <1>2, <1>3

\* How the worker comes to have a list.
LEMMA RestingListing ==
    ASSUME TypeInv, Resting, worker'.pc \in {"codes", "split"}
    PROVE  \/ worker' = worker /\ touched' = touched
           \/ ReadCodes \/ ListExpired \/ ListRegular
<1>1. worker \in Working
  BY DEF TypeInv, TypeOK
<1>2. CASE \/ ReadClock \/ NextRefundAt \/ NoSleep \/ Sleep \/ WakeUp \/ NextRefundAtFails
  BY <1>1, <1>2 DEF ReadClock, NextRefundAt, NoSleep, Sleep, WakeUp, NextRefundAtFails, Working
<1>3. CASE Pay
  BY <1>1, <1>3 DEF Pay, Working
<1>4. CASE Crash
  BY <1>4 DEF Crash, Boot
<1>5. CASE ListFails
  <2>1. worker'.pc = "pay"
    BY <1>1, <1>5 DEF ListFails, Working
  <2> QED BY <2>1
<1>6. CASE Signals \/ Tick \/ UNCHANGED vars
  BY <1>6 DEF Signals, Signal, Tick, vars, hist, pass
<1> QED BY <1>2, <1>3, <1>4, <1>5, <1>6 DEF Resting

\* What has expired stays expired while nobody touches it.
LEMMA ExpiredStays ==
    ASSUME TypeInv, NEW v \in Vouchers, Expired(voucher[v]), voucher'[v] = voucher[v],
           now' \in {now, now + 1}
    PROVE  Expired(voucher[v])'
BY DEF TypeInv, TypeOK, Row, Expired, HasDeadline, Deadline

\* StillExpired is inductive.
LEMMA StillExpiredKept == TypeInv /\ Unborn /\ StillExpired /\ [Next]_vars => StillExpired'
<1> SUFFICES ASSUME TypeInv, Unborn, StillExpired, [Next]_vars,
                    worker'.pc \in {"codes", "split"}, worker'.pass = "expired",
                    NEW v \in worker'.list
             PROVE  "row" \in touched'[v] \/ Expired(voucher[v])'
  BY DEF StillExpired, Listing
<1>1. worker.list \subseteq Vouchers /\ worker \in Working
  BY WorkerFields DEF TypeInv, TypeOK
<1>2. CASE Handler
  <2>1. worker' = worker /\ Marked(v) /\ v \in worker.list /\ now' = now
    BY <1>2, HandlerMarks, HandlerRows
  <2>2. "row" \in touched[v] \/ Expired(voucher[v])
    BY <2>1 DEF StillExpired, Listing
  <2> QED BY <1>1, <2>1, <2>2, ExpiredStays DEF Marked
<1>3. CASE Resting
  <2>1. voucher' = voucher /\ now' \in {now, now + 1}
    BY <1>3, RestingRows
  <2>2. CASE worker' = worker /\ touched' = touched
    <3>1. "row" \in touched[v] \/ Expired(voucher[v])
      BY <2>2 DEF StillExpired, Listing
    <3> QED BY <1>1, <2>1, <2>2, <3>1, ExpiredStays
  <2>3. CASE ReadCodes
    <3>1. /\ worker'.list = worker.list /\ worker'.pass = worker.pass /\ worker.pc = "codes"
          /\ touched' = touched
      BY <1>1, <2>3 DEF ReadCodes, Working, hist, pass
    <3>2. "row" \in touched[v] \/ Expired(voucher[v])
      BY <3>1 DEF StillExpired, Listing
    <3> QED BY <1>1, <2>1, <3>1, <3>2, ExpiredStays
  <2>4. CASE ListExpired
    <3>1. worker'.list = {u \in Vouchers : ExpiredWithBalance(voucher[u])}
      BY <1>1, <2>4 DEF ListExpired, Listed, Working
    <3>2. v \in Vouchers /\ Expired(voucher[v])
      BY <3>1 DEF ExpiredWithBalance
    <3> QED BY <2>1, <3>2, ExpiredStays
  <2>5. CASE ListRegular
    BY <1>1, <2>5 DEF ListRegular, Listed, Working
  <2> QED BY <1>3, <2>2, <2>3, <2>4, <2>5, RestingListing
<1>4. ASSUME NEW u \in Vouchers,
             \/ SplitExpired(u) \/ SkipExpired(u) \/ SplitRegular(u) \/ SkipRegular(u)
             \/ SplitFails(u)
      PROVE  "row" \in touched'[v] \/ Expired(voucher[v])'
  <2>1. /\ worker.pc = "split" /\ worker.pass = "expired" /\ now' = now
        /\ v \in worker.list /\ v \in Vouchers \ {u}
        /\ touched'[v] = touched[v] /\ voucher'[v] = voucher[v]
    BY <1>1, <1>4, SplitLeaves
  <2>2. "row" \in touched[v] \/ Expired(voucher[v])
    BY <2>1 DEF StillExpired, Listing
  <2> QED BY <2>1, <2>2, ExpiredStays
<1> QED BY <1>2, <1>3, <1>4, Steps

\* The codes in the row are those last asked for.
LEMMA HandlerCodes ==
    ASSUME TypeInv, Handler, NEW v \in Vouchers, voucher[v].codes = wanted[v]
    PROVE  voucher'[v].codes = wanted'[v]
<1>1. ASSUME NEW p \in Requests, NEW batch \in SUBSET Vouchers, Create(batch, p)
      PROVE  voucher'[v].codes = wanted'[v]
  <2>1. Parsed(p).codes = p.codes
    BY <1>1, ParsedType DEF Create
  <2>2. voucher'[v] = IF v \in batch
                      THEN Configured(Parsed(p), Parsed(p).codes, now, 0, 0) ELSE voucher[v]
    BY <1>1 DEF Create
  <2>3. wanted'[v] = IF v \in batch THEN p.codes ELSE wanted[v]
    BY <1>1 DEF Create
  <2> QED BY <2>1, <2>2, <2>3 DEF Configured
<1>2. ASSUME NEW p \in Requests, NEW u \in Vouchers, Edit(u, p)
      PROVE  voucher'[v].codes = wanted'[v]
  <2>1. Parsed(p).codes = p.codes
    BY <1>2, ParsedType DEF Edit
  <2>2. voucher'[v] = IF v = u THEN Edited(voucher[u], Parsed(p)) ELSE voucher[v]
    BY <1>2 DEF Edit, TypeInv, TypeOK
  <2>3. wanted'[v] = IF v = u THEN p.codes ELSE wanted[v]
    BY <1>2 DEF Edit, TypeInv, TypeOK
  <2> QED BY <2>1, <2>2, <2>3 DEF Edited, Configured
<1>3. ASSUME NEW u \in Vouchers, Moves(u)
      PROVE  voucher'[v].codes = wanted'[v]
  <2>1. PICK r \in Row : SamePlan(voucher[u], r) /\ voucher' = [voucher EXCEPT ![u] = r]
    BY <1>3 DEF Moves, SameTimes
  <2>2. voucher'[v].codes = voucher[v].codes
    BY <2>1, OneRow DEF SamePlan
  <2> QED BY <1>3, <2>2 DEF Moves
<1>4. ASSUME NEW u \in Vouchers, Pays(u)
      PROVE  voucher'[v].codes = wanted'[v]
  BY <1>4 DEF Pays, hist, pass
<1> QED BY <1>1, <1>2, <1>3, <1>4, HandlerMoves

\* CodesRead is inductive.
LEMMA CodesReadKept == TypeInv /\ Unborn /\ CodesRead /\ [Next]_vars => CodesRead'
<1> SUFFICES ASSUME TypeInv, Unborn, CodesRead, [Next]_vars PROVE CodesRead'
  OBVIOUS
<1>1. worker.list \subseteq Vouchers /\ worker \in Working
  BY WorkerFields DEF TypeInv, TypeOK
<1>2. CASE Handler
  <2>1. \A v \in Vouchers : voucher'[v].codes = wanted'[v]
    BY <1>2, HandlerCodes DEF CodesRead
  <2>2. ASSUME worker'.pc = "split", NEW v \in worker'.list
        PROVE  "codes" \in touched'[v] \/ worker'.read[v].codes = wanted'[v]
    <3>1. worker' = worker /\ Marked(v) /\ v \in Vouchers
      BY <1>1, <1>2, <2>2, HandlerMarks
    <3>2. "codes" \in touched[v] \/ worker.read[v].codes = wanted[v]
      BY <2>2, <3>1 DEF CodesRead
    <3>3. wanted[v] = voucher[v].codes /\ wanted'[v] = voucher'[v].codes
      BY <2>1, <3>1 DEF CodesRead
    <3> QED BY <2>2, <3>1, <3>2, <3>3 DEF Marked
  <2> QED BY <2>1, <2>2 DEF CodesRead
<1>3. CASE Resting
  <2>1. voucher' = voucher /\ wanted' = wanted
    BY <1>3, RestingRows
  <2>2. ASSUME worker'.pc = "split", NEW v \in worker'.list
        PROVE  "codes" \in touched'[v] \/ worker'.read[v].codes = wanted'[v]
    <3>1. CASE worker' = worker /\ touched' = touched
      BY <2>1, <2>2, <3>1 DEF CodesRead
    <3>2. CASE ReadCodes
      <4>1. /\ worker'.list = worker.list
            /\ worker'.read = [u \in Vouchers |->
                  IF u \in worker.list THEN [worker.read[u] EXCEPT !.codes = voucher[u].codes]
                                       ELSE NoRead]
        BY <1>1, <3>2 DEF ReadCodes, Working
      <4>2. v \in worker.list /\ v \in Vouchers /\ worker.read[v] \in Reading
        BY <1>1, <2>2, <4>1, WorkerFields
      <4>3. worker'.read[v].codes = voucher[v].codes
        BY <4>1, <4>2 DEF Reading
      <4> QED BY <2>1, <4>2, <4>3 DEF CodesRead
    <3>3. CASE ListExpired \/ ListRegular
      <4>1. worker'.pc \in {"pay", "codes"}
        BY <1>1, <3>3 DEF ListExpired, ListRegular, Listed, Working
      <4> QED BY <2>2, <4>1
    <3> QED BY <1>3, <2>2, <3>1, <3>2, <3>3, RestingListing
  <2> QED BY <2>1, <2>2 DEF CodesRead
<1>4. ASSUME NEW u \in Vouchers,
             \/ SplitExpired(u) \/ SkipExpired(u) \/ SplitRegular(u) \/ SkipRegular(u)
             \/ SplitFails(u)
      PROVE  CodesRead'
  <2>1. \A v \in Vouchers : voucher'[v] = voucher[v] \/ Refunding(v)
    BY <1>4, SplitRows
  <2>2. \A v \in Vouchers : voucher'[v].codes = voucher[v].codes
    BY <2>1, RefundedRow DEF SamePlan
  <2>3. wanted' = wanted /\ worker'.list = worker.list \ {u} /\ worker.pc = "split"
    BY <1>4, SplitLeaves
  <2>4. ASSUME NEW v \in worker'.list
        PROVE  "codes" \in touched'[v] \/ worker'.read[v].codes = wanted'[v]
    <3>1. v \in worker.list /\ v \in Vouchers \ {u}
      BY <1>1, <2>3, <2>4
    <3>2. touched'[v] = touched[v] /\ worker'.read[v] = worker.read[v]
      BY <1>4, <3>1, SplitLeaves
    <3> QED BY <2>3, <3>1, <3>2 DEF CodesRead
  <2> QED BY <2>2, <2>3, <2>4 DEF CodesRead
<1> QED BY <1>2, <1>3, <1>4, Steps

\* The step that RefundAsAsked asks for.
AsAsked ==
    \A v \in Vouchers :
        refund'[v].all # refund[v].all =>
            /\ refund'[v].codes = wanted[v] \/ "codes" \in touched[v]
            /\ refund'[v].expiry => Expired(voucher[v]) \/ "row" \in touched[v]

\* A refund goes where it was asked to go, or the voucher has the mark.
LEMMA StepAsAsked ==
    ASSUME TypeInv, StillExpired, CodesRead, [Next]_vars
    PROVE  AsAsked
<1> SUFFICES ASSUME NEW v \in Vouchers, refund'[v].all # refund[v].all
             PROVE  /\ refund'[v].codes = wanted[v] \/ "codes" \in touched[v]
                    /\ refund'[v].expiry => Expired(voucher[v]) \/ "row" \in touched[v]
  BY DEF AsAsked
<1>1. CASE Handler
  <2>1. ASSUME NEW p \in Requests, NEW batch \in SUBSET Vouchers, Create(batch, p)
        PROVE  FALSE
    BY <2>1 DEF Create
  <2>2. ASSUME NEW p \in Requests, NEW u \in Vouchers, Edit(u, p)
        PROVE  FALSE
    BY <2>2 DEF Edit, TypeInv, TypeOK, Refunds
  <2>3. PICK u \in Vouchers, msat \in Deposits : Fund(u, msat) /\ refund' # refund
    BY <1>1, <2>1, <2>2 DEF Handler, TransferIn, Redeem, TransferOut, Debit, Restore, Pays, hist, pass
  <2>4. Refunded(u, Credited(voucher[u], msat).codes, FALSE, FALSE)
    BY <2>3 DEF Fund
  <2>5. u = v
    BY <2>4, RefundedOne
  <2>6. Credited(voucher[u], msat).codes = wanted[u]
    <3>1. voucher[u] \in Row /\ msat \in Nat /\ now \in Nat
      BY ScheduleAssumption DEF TypeInv, TypeOK
    <3> QED BY <3>1, CreditedRow DEF SamePlan, CodesRead
  <2> QED BY <2>4, <2>5, <2>6, RefundedOne
<1>2. CASE Resting
  BY <1>2, RestingRows
<1>3. ASSUME NEW u \in Vouchers,
             \/ SplitExpired(u) \/ SkipExpired(u) \/ SplitRegular(u) \/ SkipRegular(u)
             \/ SplitFails(u)
      PROVE  /\ refund'[v].codes = wanted[v] \/ "codes" \in touched[v]
             /\ refund'[v].expiry => Expired(voucher[v]) \/ "row" \in touched[v]
  <2>1. u = v /\ worker.pc = "split" /\ v \in worker.list
    BY <1>3, SplitLeaves
  <2>2. "codes" \in touched[v] \/ worker.read[v].codes = wanted[v]
    BY <2>1 DEF CodesRead
  <2>3. CASE SplitExpired(v)
    <3>1. worker.pass = "expired" /\ Refunded(v, worker.read[v].codes, FALSE, TRUE)
      BY <2>3 DEF SplitExpired
    <3>2. "row" \in touched[v] \/ Expired(voucher[v])
      BY <2>1, <3>1 DEF StillExpired, Listing
    <3> QED BY <2>2, <3>1, <3>2, RefundedOne
  <2>4. CASE SplitRegular(v)
    BY <2>2, <2>4, RefundedOne DEF SplitRegular
  <2> QED BY <1>3, <2>1, <2>3, <2>4 DEF SkipExpired, SkipRegular, SplitFails
<1> QED BY <1>1, <1>2, <1>3, Steps

\* A refund goes to the codes last asked for, and is one of an expired voucher only if it
\* has expired, unless the voucher was touched between the list and its turn
\* (refund.go:184-268).
THEOREM AsAskedFor == Spec => RefundAsAsked
<1> DEFINE Inv == TypeInv /\ Dated /\ Unborn /\ StillExpired /\ CodesRead
<1>1. Init => Inv
  <2> SUFFICES ASSUME Init PROVE Inv
    OBVIOUS
  <2>1. Dated
    BY ScheduleAssumption DEF Init, NoVoucher, Dated
  <2>2. Unborn
    BY DEF Init, NoVoucher, NoRefund, Boot, Unborn
  <2>3. StillExpired /\ CodesRead
    BY DEF Init, NoVoucher, Boot, StillExpired, Listing, CodesRead
  <2> QED BY <2>1, <2>2, <2>3, InitType
<1>2. Inv /\ [Next]_vars => Inv'
  BY StepType, DatedKept, UnbornKept, StillExpiredKept, CodesReadKept
<1>3. Inv /\ [Next]_vars => [AsAsked]_vars
  BY StepAsAsked
<1>4. RefundAsAsked <=> [][AsAsked]_vars
  BY DEF RefundAsAsked, AsAsked
<1> HIDE DEF Inv
<1> QED BY <1>1, <1>2, <1>3, <1>4, PTL DEF Spec

-----------------------------------------------------------------------------
\* A handler that changes a voucher while the worker sleeps owes a signal or is quiet.
LEMMA HandlerTells ==
    ASSUME TypeInv, Handler, worker.pc \in {"doze", "asleep"}
    PROVE  /\ wake' = wake /\ worker' = worker /\ now' = now
           /\ quiet \subseteq quiet' /\ unsent \subseteq unsent'
           /\ \A v \in Vouchers \ (quiet' \cup UNION unsent') : voucher'[v] = voucher[v]
<1>1. ASSUME NEW p \in Requests, NEW batch \in SUBSET Vouchers, Create(batch, p)
      PROVE  /\ wake' = wake /\ worker' = worker /\ now' = now
             /\ quiet \subseteq quiet' /\ unsent' = unsent \cup {batch}
             /\ \A v \in Vouchers \ batch : voucher'[v] = voucher[v]
  BY <1>1 DEF Create
<1>2. ASSUME NEW p \in Requests, NEW u \in Vouchers, Edit(u, p)
      PROVE  /\ wake' = wake /\ worker' = worker /\ now' = now
             /\ quiet \subseteq quiet' /\ unsent' = unsent \cup {{u}}
             /\ \A v \in Vouchers \ {u} : voucher'[v] = voucher[v]
  BY <1>2 DEF Edit, TypeInv, TypeOK
<1>3. ASSUME NEW u \in Vouchers, NEW msat \in Deposits, Fund(u, msat)
      PROVE  /\ wake' = wake /\ worker' = worker /\ now' = now
             /\ quiet \subseteq quiet' /\ unsent' = unsent \cup {{u}}
             /\ \A v \in Vouchers \ {u} : voucher'[v] = voucher[v]
  BY <1>3 DEF Fund, Deposit, TypeInv, TypeOK
<1>4. ASSUME NEW u \in Vouchers, Quietly(u), wake' = wake, worker' = worker, now' = now,
             unsent' = unsent, NEW r, voucher' = [voucher EXCEPT ![u] = r]
      PROVE  /\ wake' = wake /\ worker' = worker /\ now' = now
             /\ quiet' = quiet \cup {u} /\ unsent' = unsent
             /\ \A v \in Vouchers \ {u} : voucher'[v] = voucher[v]
  BY <1>4 DEF Quietly, TypeInv, TypeOK
<1>5. ASSUME NEW u \in Vouchers, NEW msat \in Deposits, TransferIn(u, msat)
      PROVE  /\ wake' = wake /\ worker' = worker /\ now' = now
             /\ quiet' = quiet \cup {u} /\ unsent' = unsent
             /\ \A v \in Vouchers \ {u} : voucher'[v] = voucher[v]
  BY <1>4, <1>5 DEF TransferIn, Deposit
<1>6. ASSUME NEW u \in Vouchers, NEW msat \in Amounts, Redeem(u, msat) \/ TransferOut(u, msat)
      PROVE  /\ wake' = wake /\ worker' = worker /\ now' = now
             /\ quiet' = quiet \cup {u} /\ unsent' = unsent
             /\ \A v \in Vouchers \ {u} : voucher'[v] = voucher[v]
  BY <1>4, <1>6 DEF Redeem, TransferOut, Debit
<1>7. ASSUME NEW u \in Vouchers, Restore(u)
      PROVE  /\ wake' = wake /\ worker' = worker /\ now' = now
             /\ quiet' = quiet \cup {u} /\ unsent' = unsent
             /\ \A v \in Vouchers \ {u} : voucher'[v] = voucher[v]
  BY <1>4, <1>7 DEF Restore
<1>8. ASSUME NEW u \in Vouchers, Pays(u)
      PROVE  /\ wake' = wake /\ worker' = worker /\ now' = now
             /\ quiet' = quiet /\ unsent' = unsent /\ voucher' = voucher
  BY <1>8 DEF Pays, hist, pass
<1>9. CASE \E p \in Requests : \E batch \in SUBSET Vouchers : Create(batch, p)
  BY <1>1, <1>9
<1>10. CASE \/ \E p \in Requests : \E u \in Vouchers : Edit(u, p)
            \/ \E u \in Vouchers, msat \in Deposits : Fund(u, msat)
  BY <1>2, <1>3, <1>10
<1>11. CASE \/ \E u \in Vouchers, msat \in Deposits : TransferIn(u, msat)
            \/ \E u \in Vouchers, msat \in Amounts : Redeem(u, msat) \/ TransferOut(u, msat)
            \/ \E u \in Vouchers : Restore(u)
  BY <1>5, <1>6, <1>7, <1>11
<1>12. CASE \E u \in Vouchers : Pays(u)
  BY <1>8, <1>12
<1> QED BY <1>9, <1>10, <1>11, <1>12 DEF Handler

\* The sleep ends by the times of a voucher.
SleepsUntil(v) ==
    \A t \in NextTimes(voucher[v]) : t > now => worker.until # 0 /\ worker.until <= t

\* Rested is inductive: NextRefundAt finds the least time, and Sleep only shortens it.
LEMMA RestedKept == TypeInv /\ Rested /\ [Next]_vars => Rested'
<1> SUFFICES ASSUME TypeInv, Rested, [Next]_vars, worker'.pc \in {"doze", "asleep"}, ~wake',
                    NEW v \in Vouchers, v \notin quiet' \cup UNION unsent'
             PROVE  SleepsUntil(v)'
  BY DEF Rested, SleepsUntil
<1>1. now \in Nat /\ worker \in Working /\ voucher[v] \in Row
  BY DEF TypeInv, TypeOK
<1>2. \A t \in NextTimes(voucher[v]) : t \in Int
  BY <1>1 DEF NextTimes, Deadline, NextAt, Row
<1>3. ASSUME worker.pc \in {"doze", "asleep"}, ~wake, v \notin quiet \cup UNION unsent
      PROVE  SleepsUntil(v)
  BY <1>3 DEF Rested, SleepsUntil
<1>4. CASE Handler
  <2>1. worker' = worker
    BY <1>4, HandlerMoves DEF Create, Edit, Moves, Pays
  <2>2. /\ wake' = wake /\ now' = now /\ quiet \subseteq quiet' /\ unsent \subseteq unsent'
        /\ voucher'[v] = voucher[v]
    BY <1>4, <2>1, HandlerTells
  <2>3. SleepsUntil(v)
    BY <1>3, <2>1, <2>2
  <2> QED BY <2>1, <2>2, <2>3 DEF SleepsUntil, NextTimes, Deadline, HasDeadline, NextAt, HasRegular
<1>5. CASE NextRefundAt
  <2>1. \A t \in NextTimes(voucher[v]) : t > now => t \in Coming
    BY DEF Coming
  <2>2. voucher' = voucher /\ now' = now
    BY <1>5 DEF NextRefundAt
  <2>3. ASSUME NEW t \in NextTimes(voucher[v]), t > now
        PROVE  worker'.until # 0 /\ worker'.until <= t
    <3>1. PICK u \in Coming : (\A w \in Coming : u <= w)
                                /\ worker' = [worker EXCEPT !.pc = "doze", !.until = u]
      BY <1>5, <2>1, <2>3 DEF NextRefundAt
    <3>2. u > now /\ u <= t
      BY <2>1, <2>3, <3>1 DEF Coming
    <3>3. worker'.until = u
      BY <1>1, <3>1 DEF Working
    <3>4. u \in Int
      BY DEF Coming, NextTimes, Deadline, NextAt, Row, TypeInv, TypeOK
    <3> QED BY <1>1, <3>2, <3>3, <3>4
  <2> QED BY <2>2, <2>3 DEF SleepsUntil, NextTimes, Deadline, HasDeadline, NextAt, HasRegular
<1>6. CASE Sleep
  <2>1. /\ worker.pc = "doze" /\ wake' = wake /\ quiet' = quiet /\ unsent' = unsent
        /\ voucher' = voucher /\ now' = now
    BY <1>6 DEF Sleep, hist, pass
  <2>2. SleepsUntil(v)
    BY <1>3, <2>1
  <2>3. worker'.until = IF worker.until = 0 \/ worker.until > now + MaxSleep
                        THEN now + MaxSleep ELSE worker.until
    BY <1>1, <1>6 DEF Sleep, Working
  <2>4. worker.until \in Nat /\ MaxSleep \in Nat /\ MaxSleep > 0
    BY <1>1, ScheduleAssumption DEF Working
  <2>5. ASSUME NEW t \in NextTimes(voucher[v]), t > now
        PROVE  worker'.until # 0 /\ worker'.until <= t
    <3>1. worker.until # 0 /\ worker.until <= t
      BY <2>2, <2>5 DEF SleepsUntil
    <3> QED BY <1>1, <1>2, <2>3, <2>4, <3>1
  <2> QED BY <2>1, <2>5 DEF SleepsUntil, NextTimes, Deadline, HasDeadline, NextAt, HasRegular
<1>7. CASE Tick \/ UNCHANGED vars
  <2>1. /\ worker' = worker /\ wake' = wake /\ quiet' = quiet /\ unsent' = unsent
        /\ voucher' = voucher /\ now' \in {now, now + 1}
    BY <1>7 DEF Tick, vars, hist, pass
  <2>2. SleepsUntil(v)
    BY <1>3, <2>1
  <2>3. \A t \in NextTimes(voucher[v]) : t > now' => worker.until # 0 /\ worker.until <= t
    BY <1>1, <1>2, <2>1, <2>2 DEF SleepsUntil
  <2> QED BY <2>1, <2>3 DEF SleepsUntil, NextTimes, Deadline, HasDeadline, NextAt, HasRegular
<1>8. CASE Signals \/ NextRefundAtFails
  BY <1>8 DEF Signals, Signal, NextRefundAtFails
<1>9. CASE \/ ListExpired \/ ListRegular \/ ReadClock \/ ReadCodes \/ NoSleep \/ WakeUp
  BY <1>1, <1>9 DEF ListExpired, ListRegular, Listed, ReadClock, ReadCodes, NoSleep, WakeUp, Working
<1>10. CASE Pay
  BY <1>1, <1>10 DEF Pay, Working
<1>11. CASE Crash
  BY <1>11 DEF Crash, Boot
<1>12. CASE ListFails
  <2>1. worker'.pc = "pay"
    BY <1>1, <1>12 DEF ListFails, Working
  <2> QED BY <2>1
<1>13. CASE \E u \in Vouchers : \/ SplitExpired(u) \/ SkipExpired(u) \/ SplitRegular(u)
                                \/ SkipRegular(u) \/ SplitFails(u)
  BY <1>13, SplitLeaves
<1> QED BY <1>4, <1>5, <1>6, <1>7, <1>8, <1>9, <1>10, <1>11, <1>12, <1>13, Steps DEF Resting

-----------------------------------------------------------------------------
(* The arithmetic of a schedule                                            *)

\* Division rounds down.
LEMMA DivBounds ==
    ASSUME NEW a \in Nat, NEW n \in Nat \ {0}
    PROVE  a \div n \in Nat /\ (a \div n) * n <= a /\ a < (a \div n) * n + n
OBVIOUS

\* A multiple leaves no remainder.
LEMMA MultipleMod ==
    ASSUME NEW k \in Int, NEW n \in Nat \ {0}
    PROVE  (k * n) % n = 0
OBVIOUS

\* What leaves no remainder is a multiple.
LEMMA ModMultiple ==
    ASSUME NEW a \in Int, NEW n \in Nat \ {0}, a % n = 0
    PROVE  \E k \in Int : a = k * n
<1>1. a \div n \in Int /\ a = (a \div n) * n
  OBVIOUS
<1> QED BY <1>1

\* Whole intervals do not change the remainder.
LEMMA ModSum ==
    ASSUME NEW a \in Int, NEW k \in Int, NEW n \in Nat \ {0}, a % n = 0
    PROVE  (a + k * n) % n = 0
<1>1. PICK j \in Int : a = j * n
  BY ModMultiple
<1>2. j + k \in Int /\ a + k * n = (j + k) * n
  BY <1>1
<1>3. ((j + k) * n) % n = 0
  BY <1>2, MultipleMod
<1> QED BY <1>2, <1>3

\* What was served last is one of the times, or the one before the first.
Started(first, last, interval) ==
    last > 0 => first - interval <= last /\ (last - first) % interval = 0

DueAt(first, last, interval) == IF last > 0 THEN last + interval ELSE first

\* And so is the anchor; it goes past what was due by then.
AnchorRight(anchor, first, last, interval, at) ==
    /\ anchor \in Int /\ first - interval <= anchor /\ (anchor - first) % interval = 0
    /\ anchor <= at \/ anchor < DueAt(first, last, interval)
    /\ last > 0 => last <= anchor
    /\ DueAt(first, last, interval) <= at =>
        DueAt(first, last, interval) <= anchor /\ first <= anchor

\* The anchor is right, if what was served before it was.
LEMMA AnchorFit ==
    ASSUME NEW first \in Nat \ {0}, NEW last \in Nat, NEW interval \in Nat \ {0}, NEW at \in Nat,
           last <= at, Started(first, last, interval)
    PROVE  AnchorRight(nextRegularRefundAnchor(first, last, interval, at),
                       first, last, interval, at)
<1> DEFINE anchor == nextRegularRefundAnchor(first, last, interval, at)
           due == DueAt(first, last, interval)
<1> SUFFICES /\ anchor \in Int /\ first - interval <= anchor /\ (anchor - first) % interval = 0
             /\ anchor <= at \/ anchor < due
             /\ last > 0 => last <= anchor
             /\ due <= at => due <= anchor /\ first <= anchor
  BY DEF AnchorRight
<1>0. due = IF last > 0 THEN last + interval ELSE first
  BY DEF DueAt
<1> DEFINE base == Base(first, last)
<1>1. base \in Nat /\ base > 0 /\ first - interval <= base /\ (base - first) % interval = 0
  BY DEF Base, Started
<1>2. CASE base > at
  <2>1. last = 0 /\ base = first /\ anchor = first - interval /\ due = first
    BY <1>0, <1>2 DEF Base, nextRegularRefundAnchor
  <2>2. (anchor - first) % interval = 0
    <3>1. anchor - first = (0 - 1) * interval
      BY <2>1
    <3> QED BY <3>1, MultipleMod
  <2> QED BY <1>2, <2>1, <2>2
<1>3. CASE base <= at
  <2> DEFINE k == (at - base) \div interval
             step == k * interval
  <2>1. /\ k \in Nat /\ step \in Nat /\ step <= at - base /\ at - base < step + interval
    <3>1. at - base \in Nat
      BY <1>1, <1>3
    <3>2. k \in Nat /\ k * interval <= at - base /\ at - base < k * interval + interval
      BY <3>1, DivBounds
    <3>3. k * interval \in Nat
      BY <3>2
    <3> QED BY <3>2, <3>3
  <2>2. anchor = base + step
    BY <1>1, <1>3 DEF nextRegularRefundAnchor
  <2>3. (anchor - first) % interval = 0
    <3>1. anchor - first = (base - first) + k * interval
      BY <1>1, <2>1, <2>2
    <3>2. ((base - first) + k * interval) % interval = 0
      <4> DEFINE d == base - first
      <4>1. d \in Int /\ d % interval = 0 /\ k \in Int
        BY <1>1, <2>1
      <4> HIDE DEF d, k
      <4>2. (d + k * interval) % interval = 0
        BY <4>1, ModSum
      <4> QED BY <4>2 DEF d
    <3> QED BY <3>1, <3>2
  <2> HIDE DEF k, step, base, anchor, due
  <2>4. /\ anchor \in Int /\ first - interval <= anchor /\ base <= anchor /\ anchor <= at
    BY <1>1, <2>1, <2>2
  <2>5. base = IF last > 0 THEN last ELSE first
    BY DEF base, Base
  <2>6. ASSUME due <= at
        PROVE  due <= anchor /\ first <= anchor
    <3>1. CASE last = 0
      BY <1>0, <2>4, <2>5, <3>1
    <3>2. CASE last > 0
      <4>1. due = base + interval /\ at - base >= interval
        BY <1>0, <1>1, <2>5, <2>6, <3>2
      <4>2. k >= 1
        <5>1. k = 0 => step = 0
          BY DEF step
        <5> QED BY <1>1, <2>1, <4>1, <5>1
      <4>3. step >= interval
        <5>1. PICK j \in Nat : k = j + 1
          BY <2>1, <4>2
        <5>2. step = j * interval + interval /\ j * interval \in Nat
          BY <5>1 DEF step
        <5> QED BY <5>2
      <4> QED BY <1>1, <2>1, <2>2, <4>1, <4>3
    <3> QED BY <3>1, <3>2
  <2> QED BY <1>3, <2>3, <2>4, <2>5, <2>6
<1> QED BY <1>1, <1>2, <1>3

\* Division is monotone.
LEMMA DivLess ==
    ASSUME NEW a \in Nat, NEW b \in Nat, NEW n \in Nat \ {0}, a <= b
    PROVE  a \div n <= b \div n
OBVIOUS

\* One more interval, one more time.
LEMMA DivStep ==
    ASSUME NEW a \in Nat, NEW b \in Nat, NEW n \in Nat \ {0}, a + n <= b
    PROVE  a \div n + 1 <= b \div n
OBVIOUS

-----------------------------------------------------------------------------
(* The times of a schedule, step by step                                   *)

\* A handler takes no voucher from those that went adrift but by an edit, which starts
\* its schedule again; what it does otherwise leaves the times.
LEMMA HandlerTimes ==
    ASSUME TypeInv, Unborn, Handler, NEW v \in Vouchers, v \notin adrift', voucher'[v].first > 0
    PROVE  \/ voucher'[v].last = 0 /\ refund'[v].regular = 0
           \/ /\ v \notin adrift /\ SamePlan(voucher[v], voucher'[v])
              /\ voucher'[v].last = voucher[v].last
              /\ refund'[v].regular = refund[v].regular
<1> DEFINE New == voucher'[v].last = 0 /\ refund'[v].regular = 0
           Old == /\ v \notin adrift /\ SamePlan(voucher[v], voucher'[v])
                  /\ voucher'[v].last = voucher[v].last
                  /\ refund'[v].regular = refund[v].regular
<1>0. SamePlan(voucher[v], voucher[v])
  BY DEF SamePlan
<1>1. ASSUME NEW p \in Requests, NEW batch \in SUBSET Vouchers, Create(batch, p)
      PROVE  New \/ Old
  <2>1. refund' = refund /\ adrift' = adrift
    BY <1>1 DEF Create
  <2>2. CASE v \in batch
    <3>1. voucher'[v] = Configured(Parsed(p), Parsed(p).codes, now, 0, 0)
      BY <1>1, <2>2 DEF Create
    <3>2. refund[v].regular = 0
      <4>1. voucher[v].created \in Nat /\ ~Exists(v)
        BY <1>1, <2>2 DEF Create, TypeInv, TypeOK, Row
      <4> QED BY <4>1 DEF Exists, Unborn
    <3> QED BY <2>1, <3>1, <3>2 DEF Configured
  <2>3. CASE v \notin batch
    BY <1>0, <1>1, <2>1, <2>3 DEF Create
  <2> QED BY <2>2, <2>3
<1>2. ASSUME NEW p \in Requests, NEW u \in Vouchers, Edit(u, p)
      PROVE  New \/ Old
  <2>1. CASE u = v
    <3>1. voucher'[v] = Edited(voucher[v], Parsed(p))
      BY <1>2, <2>1 DEF Edit, TypeInv, TypeOK
    <3>2. refund'[v].regular = 0
      BY <1>2, <2>1 DEF Edit, TypeInv, TypeOK, Refunds
    <3> QED BY <3>1, <3>2 DEF Edited, Configured
  <2>2. CASE u # v
    BY <1>0, <1>2, <2>2 DEF Edit, TypeInv, TypeOK
  <2> QED BY <2>1, <2>2
<1>3. ASSUME NEW u \in Vouchers, Moves(u)
      PROVE  New \/ Old
  <2>1. PICK r \in Row : SameTimes(voucher[u], r) /\ voucher' = [voucher EXCEPT ![u] = r]
    BY <1>3 DEF Moves
  <2>2. voucher'[v] = IF v = u THEN r ELSE voucher[v]
    BY <2>1, OneRow
  <2>3. SamePlan(voucher[v], voucher'[v]) /\ voucher'[v].last = voucher[v].last
    <3>1. CASE v = u
      <4>1. voucher[v].first > 0 => ~voucher[v].immediate
        BY DEF TypeInv, Planned, PlanOK
      <4> QED BY <2>1, <2>2, <3>1, <4>1 DEF SameTimes, SamePlan
    <3>2. CASE v # u
      BY <1>0, <2>2, <3>2
    <3> QED BY <3>1, <3>2
  <2> QED BY <1>3, <2>3 DEF Moves
<1>4. ASSUME NEW u \in Vouchers, Pays(u)
      PROVE  New \/ Old
  BY <1>0, <1>4 DEF Pays, hist, pass
<1> QED BY <1>1, <1>2, <1>3, <1>4, HandlerMoves

\* And of what the worker has listed.
LEMMA HandlerPlans ==
    ASSUME TypeInv, Unborn, Handler, NEW v \in worker.list
    PROVE  \/ "plan" \in touched'[v]
           \/ /\ ((v \in adrift') <=> (v \in adrift)) /\ touched[v] \subseteq touched'[v]
              /\ SameTimes(voucher[v], voucher'[v])
<1>0. SameTimes(voucher[v], voucher[v]) /\ v \in Vouchers /\ touched[v] \subseteq touched'[v]
  BY WorkerFields, HandlerMarks DEF SameTimes, SamePlan, Marked
<1>1. ASSUME NEW p \in Requests, NEW batch \in SUBSET Vouchers, Create(batch, p)
      PROVE  ((v \in adrift') <=> (v \in adrift)) /\ SameTimes(voucher[v], voucher'[v])
  <2>1. v \notin batch
    <3>1. voucher[v].created # 0 /\ voucher[v].created \in Nat
      BY <1>0 DEF Unborn, TypeInv, TypeOK, Row
    <3> QED BY <1>1, <3>1 DEF Create, Exists
  <2> QED BY <1>0, <1>1, <2>1 DEF Create
<1>2. ASSUME NEW p \in Requests, NEW u \in Vouchers, Edit(u, p)
      PROVE  \/ "plan" \in touched'[v]
             \/ ((v \in adrift') <=> (v \in adrift)) /\ SameTimes(voucher[v], voucher'[v])
  <2> DEFINE how == {"row", "plan"} \cup (IF worker.pc = "split" THEN {"codes"} ELSE {})
  <2>1. CASE u = v
    <3>1. how \in SUBSET {"row", "plan", "codes"} /\ Touch(u, how) /\ "plan" \in how
      BY <1>2 DEF Edit
    <3> HIDE DEF how
    <3> QED BY <1>0, <2>1, <3>1, TouchKept
  <2>2. CASE u # v
    BY <1>0, <1>2, <2>2 DEF Edit, TypeInv, TypeOK
  <2> QED BY <2>1, <2>2
<1>3. ASSUME NEW u \in Vouchers, Moves(u)
      PROVE  ((v \in adrift') <=> (v \in adrift)) /\ SameTimes(voucher[v], voucher'[v])
  <2>1. PICK r \in Row : SameTimes(voucher[u], r) /\ voucher' = [voucher EXCEPT ![u] = r]
    BY <1>3 DEF Moves
  <2>2. voucher'[v] = IF v = u THEN r ELSE voucher[v]
    BY <1>0, <2>1, OneRow
  <2> QED BY <1>0, <1>3, <2>1, <2>2 DEF Moves
<1>4. ASSUME NEW u \in Vouchers, Pays(u)
      PROVE  ((v \in adrift') <=> (v \in adrift)) /\ SameTimes(voucher[v], voucher'[v])
  BY <1>0, <1>4 DEF Pays, hist, pass
<1> QED BY <1>0, <1>1, <1>2, <1>3, <1>4, HandlerMoves

\* What the worker does with a voucher of its list leaves its times, or serves one of
\* them, or takes it adrift.
LEMMA SplitTimes ==
    ASSUME TypeInv, NEW v \in Vouchers, v \notin adrift',
           \/ SplitExpired(v) \/ SkipExpired(v) \/ SplitRegular(v) \/ SkipRegular(v)
           \/ SplitFails(v)
    PROVE  /\ v \notin adrift /\ SamePlan(voucher[v], voucher'[v])
           /\ \/ /\ voucher'[v].last = voucher[v].last
                 /\ refund'[v].regular = refund[v].regular
              \/ /\ worker.pass = "regular" /\ "plan" \notin touched[v]
                 /\ voucher'[v].last = worker.read[v].anchor
                 /\ refund'[v].regular = IF worker.read[v].early THEN refund[v].regular
                                                                 ELSE refund[v].regular + 1
              \/ /\ worker.pass = "regular" /\ "plan" \notin touched[v]
                 /\ voucher'[v].last = worker.read[v].anchor
                 /\ refund'[v].regular = refund[v].regular
<1>1. /\ voucher[v] \in Row /\ now \in Nat /\ worker.read[v].anchor \in Int
      /\ worker.read[v].early \in BOOLEAN
  BY WorkerFields DEF TypeInv, TypeOK, Reading
<1>2. CASE SplitExpired(v)
  <2>1. voucher' = [voucher EXCEPT ![v] = Closed(voucher[v])] /\ v \notin adrift
    BY <1>2 DEF SplitExpired
  <2>2. refund'[v].regular = refund[v].regular
    BY <1>2, RefundedOne DEF SplitExpired
  <2>3. voucher'[v] = Closed(voucher[v])
    BY <2>1 DEF TypeInv, TypeOK
  <2>4. SamePlan(voucher[v], Closed(voucher[v])) /\ Closed(voucher[v]).last = voucher[v].last
    BY <1>1, ClosedRow
  <2> QED BY <2>1, <2>2, <2>3, <2>4
<1>3. CASE SplitRegular(v)
  <2>1. voucher' = [voucher EXCEPT ![v] =
                      RegularRefunded(voucher[v], worker.read[v].anchor)]
    BY <1>3 DEF SplitRegular
  <2>4. worker.pass = "regular" /\ "plan" \notin touched[v] /\ v \notin adrift
    BY <1>3 DEF SplitRegular, Anchored
  <2>2. Refunded(v, worker.read[v].codes, ~worker.read[v].early, FALSE)
    BY <1>3 DEF SplitRegular
  <2>3. refund'[v].regular = IF worker.read[v].early THEN refund[v].regular
                                                     ELSE refund[v].regular + 1
    BY <2>2, RefundedOne
  <2>5. voucher'[v] = RegularRefunded(voucher[v], worker.read[v].anchor)
    BY <2>1 DEF TypeInv, TypeOK
  <2>6. SamePlan(voucher[v], voucher'[v]) /\ voucher'[v].last = worker.read[v].anchor
    BY <1>1, <2>5, RegularRefundedRow
  <2> QED BY <2>3, <2>4, <2>6
<1>4. CASE SkipRegular(v)
  <2>1. voucher' = [voucher EXCEPT ![v] = Advanced(voucher[v], worker.read[v].anchor)]
    BY <1>4 DEF SkipRegular
  <2>2. /\ worker.pass = "regular" /\ "plan" \notin touched[v] /\ v \notin adrift
        /\ refund' = refund
    BY <1>4 DEF SkipRegular, Anchored
  <2>3. voucher'[v] = Advanced(voucher[v], worker.read[v].anchor)
    BY <2>1 DEF TypeInv, TypeOK
  <2>4. SamePlan(voucher[v], voucher'[v]) /\ voucher'[v].last = worker.read[v].anchor
    BY <1>1, <2>3, AdvancedRow
  <2> QED BY <2>2, <2>4
<1>5. CASE SkipExpired(v) \/ SplitFails(v)
  BY <1>5 DEF SkipExpired, SplitFails, SamePlan
<1> QED BY <1>2, <1>3, <1>4, <1>5

\* SchedulePinned is kept, if the anchors of the list fit.
LEMMA PinnedKept ==
    TypeInv /\ Unborn /\ AnchorFits /\ SchedulePinned /\ [Next]_vars => SchedulePinned'
<1> SUFFICES ASSUME TypeInv, Unborn, AnchorFits, SchedulePinned, [Next]_vars,
                    NEW v \in Vouchers, v \notin adrift', voucher'[v].first > 0
             PROVE  OnSchedule(voucher[v])'
  BY DEF SchedulePinned
<1>1. now \in Nat /\ now' \in {now, now + 1} /\ voucher[v] \in Row
  BY RowSteps DEF TypeInv, TypeOK
<1>2. voucher'[v].interval > 0
  BY StepType DEF TypeInv, Planned, PlanOK
<1>3. ASSUME v \notin adrift, SamePlan(voucher[v], voucher'[v]),
             voucher'[v].last = voucher[v].last
      PROVE  OnSchedule(voucher[v])'
  <2>1. OnSchedule(voucher[v]) /\ voucher'[v].first = voucher[v].first
          /\ voucher'[v].interval = voucher[v].interval
    BY <1>3 DEF SchedulePinned, SamePlan
  <2> QED BY <1>1, <1>2, <1>3, <2>1 DEF OnSchedule, Row
<1>4. CASE Handler
  BY <1>2, <1>3, <1>4, HandlerTimes DEF OnSchedule
<1>5. CASE Resting
  <2>1. voucher' = voucher /\ adrift' = adrift
    BY <1>5, RestingRows
  <2> QED BY <1>3, <2>1 DEF SamePlan
<1>6. ASSUME NEW u \in Vouchers,
             \/ SplitExpired(u) \/ SkipExpired(u) \/ SplitRegular(u) \/ SkipRegular(u)
             \/ SplitFails(u)
      PROVE  OnSchedule(voucher[v])'
  <2>1. CASE u # v
    <3>1. v \notin adrift /\ voucher'[v] = voucher[v]
      BY <1>6, <2>1, SplitLeaves
    <3> QED BY <1>3, <3>1 DEF SamePlan
  <2>2. CASE u = v
    <3>1. worker.pc = "split" /\ v \in worker.list /\ now' = now
      BY <1>6, <2>2, SplitLeaves
    <3>2. v \notin adrift /\ SamePlan(voucher[v], voucher'[v])
      BY <1>6, <2>2, SplitTimes
    <3>3. CASE voucher'[v].last = voucher[v].last
      BY <1>3, <3>2, <3>3
    <3>4. CASE /\ worker.pass = "regular" /\ "plan" \notin touched[v]
               /\ voucher'[v].last = worker.read[v].anchor
      <4>1. Fits(voucher[v], worker.read[v])
        BY <3>1, <3>2, <3>4 DEF AnchorFits, Listing
      <4>2. /\ voucher'[v].first = voucher[v].first
            /\ voucher'[v].interval = voucher[v].interval
        BY <3>2 DEF SamePlan
      <4> QED BY <1>2, <3>1, <3>4, <4>1, <4>2 DEF Fits, OnTime, OnSchedule
    <3> QED BY <1>6, <2>2, <3>3, <3>4, SplitTimes
  <2> QED BY <2>1, <2>2
<1> QED BY <1>4, <1>5, <1>6, Steps

\* An anchor that fits goes on to fit.
LEMMA FitsStays ==
    ASSUME TypeInv, NEW v \in Vouchers, SameTimes(voucher[v], voucher'[v]),
           worker'.read[v].anchor = worker.read[v].anchor,
           worker'.read[v].early = worker.read[v].early,
           now' \in {now, now + 1}, Fits(voucher[v], worker.read[v])
    PROVE  Fits(voucher[v], worker.read[v])'
<1>1. ~voucher[v].immediate
  BY DEF TypeInv, Planned, PlanOK, Fits, TypeOK, Row
<1>2. /\ voucher'[v].first = voucher[v].first /\ voucher'[v].interval = voucher[v].interval
      /\ voucher'[v].last = voucher[v].last
  BY <1>1 DEF SameTimes, SamePlan
<1>3. now \in Nat /\ worker.read[v].anchor \in Int
  BY WorkerFields DEF TypeInv, TypeOK, Reading
<1> QED BY <1>2, <1>3 DEF Fits, OnTime

\* AnchorFits is inductive with SchedulePinned and the clock of the pass.
LEMMA AnchorFitsKept ==
    TypeInv /\ Unborn /\ ClockRead /\ SchedulePinned /\ AnchorFits /\ [Next]_vars => AnchorFits'
<1> SUFFICES ASSUME TypeInv, Unborn, ClockRead, SchedulePinned, AnchorFits, [Next]_vars,
                    worker'.pc \in {"codes", "split"}, worker'.pass = "regular",
                    NEW v \in worker'.list, v \notin adrift', "plan" \notin touched'[v]
             PROVE  Fits(voucher[v], worker.read[v])'
  BY DEF AnchorFits, Listing
<1>1. /\ worker.list \subseteq Vouchers /\ worker \in Working /\ now \in Nat
      /\ worker.read \in [Vouchers -> Reading] /\ worker.at \in Nat
  BY WorkerFields DEF TypeInv, TypeOK
<1>2. ASSUME worker.pc \in {"codes", "split"}, worker.pass = "regular", v \in worker.list,
             v \notin adrift, "plan" \notin touched[v],
             SameTimes(voucher[v], voucher'[v]), now' \in {now, now + 1},
             worker'.read[v].anchor = worker.read[v].anchor,
             worker'.read[v].early = worker.read[v].early
      PROVE  Fits(voucher[v], worker.read[v])'
  <2>1. Fits(voucher[v], worker.read[v])
    BY <1>2 DEF AnchorFits, Listing
  <2> QED BY <1>1, <1>2, <2>1, FitsStays
<1>3. CASE Handler
  <2>1. worker' = worker /\ now' = now /\ v \in worker.list
    BY <1>3, HandlerMarks, HandlerRows
  <2>2. /\ v \notin adrift /\ touched[v] \subseteq touched'[v]
        /\ SameTimes(voucher[v], voucher'[v])
    BY <1>3, <2>1, HandlerPlans
  <2> QED BY <1>2, <2>1, <2>2
<1>4. CASE Resting
  <2>1. /\ voucher' = voucher /\ adrift' = adrift /\ now' \in {now, now + 1}
        /\ SameTimes(voucher[v], voucher[v])
    BY <1>4, RestingRows DEF SameTimes, SamePlan
  <2>2. CASE worker' = worker /\ touched' = touched
    BY <1>2, <2>1, <2>2
  <2>3. CASE ReadCodes
    <3>1. /\ worker'.list = worker.list /\ worker'.pass = worker.pass /\ worker.pc = "codes"
          /\ worker'.read = [u \in Vouchers |->
                IF u \in worker.list THEN [worker.read[u] EXCEPT !.codes = voucher[u].codes]
                                     ELSE NoRead]
      BY <1>1, <2>3 DEF ReadCodes, Working
    <3>2. touched' = touched
      BY <2>3 DEF ReadCodes, hist, pass
    <3>3. v \in worker.list /\ v \in Vouchers /\ worker.read[v] \in Reading
      BY <1>1, <3>1
    <3>4. /\ worker'.read[v].anchor = worker.read[v].anchor
          /\ worker'.read[v].early = worker.read[v].early
      BY <3>1, <3>3 DEF Reading
    <3> QED BY <1>2, <2>1, <3>1, <3>2, <3>3, <3>4
  <2>4. CASE ListExpired
    BY <1>1, <2>4 DEF ListExpired, Listed, Working
  <2>5. CASE ListRegular
    <3> DEFINE due == {u \in Vouchers : RegularDue(voucher[u])}
               read == [u \in Vouchers |-> IF u \in due THEN ReadRegular(voucher[u]) ELSE NoRead]
    <3>1. /\ worker.pc = "list" /\ worker.pass = "regular"
          /\ worker' = [worker EXCEPT !.pc = IF due = {} THEN "pay" ELSE "codes",
                                      !.list = due, !.read = read]
          /\ now' = now
      BY <2>5 DEF ListRegular, Listed
    <3>2. worker'.list = due /\ worker'.read = read
      BY <1>1, <3>1 DEF Working
    <3>3. v \in Vouchers /\ RegularDue(voucher[v])
      BY <3>2
    <3>4. worker'.read[v] = ReadRegular(voucher[v])
      BY <3>2, <3>3
    <3> HIDE DEF due, read
    <3> DEFINE r == voucher[v]
               anchor == worker'.read[v].anchor
    <3>5. /\ anchor = nextRegularRefundAnchor(r.first, r.last, r.interval, worker.at)
          /\ worker'.read[v].early = (worker.at < NextAt(r))
      BY <3>4 DEF ReadRegular
    <3>6. /\ r.first \in Nat \ {0} /\ r.interval \in Nat \ {0} /\ r.last \in Nat
          /\ NextAt(r) <= now
      BY <3>3 DEF RegularDue, HasRegular, TypeInv, TypeOK, Row, Planned, PlanOK
    <3>7. r.last <= worker.at /\ worker.at <= now
      BY <2>1, <3>1, <3>3, <3>6 DEF ClockRead
    <3>8. r.last > 0 => r.first - r.interval <= r.last /\ (r.last - r.first) % r.interval = 0
      BY <2>1, <3>3, <3>6 DEF SchedulePinned, OnSchedule
    <3>9. NextAt(r) = DueAt(r.first, r.last, r.interval)
      BY DEF NextAt, DueAt
    <3> HIDE DEF r, anchor
    <3>10. /\ anchor \in Int /\ r.first - r.interval <= anchor
           /\ (anchor - r.first) % r.interval = 0
           /\ anchor <= worker.at \/ anchor < NextAt(r)
           /\ r.last > 0 => r.last <= anchor
           /\ NextAt(r) <= worker.at => NextAt(r) <= anchor /\ r.first <= anchor
      <4>1. Started(r.first, r.last, r.interval)
        BY <3>8 DEF Started
      <4>2. AnchorRight(anchor, r.first, r.last, r.interval, worker.at)
        BY <1>1, <3>5, <3>6, <3>7, <4>1, AnchorFit
      <4> QED BY <3>9, <4>2 DEF AnchorRight
    <3>11. NextAt(r) \in Int
      BY <3>6, <3>9 DEF DueAt
    <3>12. anchor <= now
      BY <1>1, <3>6, <3>7, <3>10, <3>11
    <3>13. ~worker'.read[v].early => NextAt(r) <= worker.at
      <4>1. ~(worker.at < NextAt(r)) => NextAt(r) <= worker.at
        BY <1>1, <3>11
      <4> QED BY <3>5, <4>1
    <3>14. ~worker'.read[v].early => /\ r.first <= anchor
                                     /\ r.last > 0 => r.last + r.interval <= anchor
      BY <3>6, <3>9, <3>10, <3>13 DEF DueAt
    <3>15. voucher'[v] = r
      BY <2>1 DEF r
    <3> QED BY <3>1, <3>6, <3>10, <3>12, <3>14, <3>15 DEF Fits, OnTime, anchor
  <2> QED BY <1>4, <2>2, <2>3, <2>4, <2>5, RestingListing
<1>5. ASSUME NEW u \in Vouchers,
             \/ SplitExpired(u) \/ SkipExpired(u) \/ SplitRegular(u) \/ SkipRegular(u)
             \/ SplitFails(u)
      PROVE  Fits(voucher[v], worker.read[v])'
  <2>1. /\ worker.pc = "split" /\ worker.pass = "regular" /\ now' = now
        /\ v \in worker.list /\ v \in Vouchers \ {u}
    BY <1>1, <1>5, SplitLeaves
  <2>2. /\ touched'[v] = touched[v] /\ voucher'[v] = voucher[v] /\ v \notin adrift
        /\ worker'.read[v] = worker.read[v]
    BY <1>5, <2>1, SplitLeaves
  <2>3. SameTimes(voucher[v], voucher'[v])
    BY <2>2 DEF SameTimes, SamePlan
  <2> QED BY <1>2, <2>1, <2>2, <2>3
<1> QED BY <1>3, <1>4, <1>5, Steps

\* Where the worker may be when it is about to list the vouchers of a regular pass.
LEMMA RestingClock ==
    ASSUME TypeInv, ClockRead, Resting
    PROVE  /\ worker'.at \in {0, worker.at, now}
           /\ worker'.pc \in {"next", "doze", "asleep"} => worker'.pass = "expired"
           /\ worker'.pc = "list" /\ worker'.pass = "regular" =>
                worker'.at = now \/ worker' = worker
<1>1. worker \in Working
  BY DEF TypeInv, TypeOK
<1>2. CASE ListExpired \/ ListRegular
  BY <1>1, <1>2 DEF ListExpired, ListRegular, Listed, Working, ClockRead
<1>3. CASE ReadClock
  BY <1>1, <1>3 DEF ReadClock, Working
<1>4. CASE ReadCodes
  BY <1>1, <1>4 DEF ReadCodes, Working
<1>5. CASE Pay
  <2>1. \/ worker' = [worker EXCEPT !.pc = "clock", !.pass = "regular"]
        \/ worker' = [worker EXCEPT !.pc = "next", !.pass = "expired", !.at = 0]
    BY <1>5 DEF Pay
  <2> QED BY <1>1, <2>1 DEF Working
<1>6. CASE NextRefundAt \/ NextRefundAtFails
  <2>1. worker.pc = "next" /\ \E t : worker' = [worker EXCEPT !.pc = "doze", !.until = t]
    BY <1>6 DEF NextRefundAt, NextRefundAtFails
  <2> QED BY <1>1, <2>1 DEF Working, ClockRead
<1>7. CASE NoSleep \/ WakeUp
  <2>1. /\ worker.pc \in {"doze", "asleep"}
        /\ worker' = [worker EXCEPT !.pc = "list", !.until = 0]
    BY <1>7 DEF NoSleep, WakeUp
  <2> QED BY <1>1, <2>1 DEF Working, ClockRead
<1>8. CASE Sleep
  <2>1. worker.pc = "doze" /\ \E t : worker' = [worker EXCEPT !.pc = "asleep", !.until = t]
    BY <1>8 DEF Sleep
  <2> QED BY <1>1, <2>1 DEF Working, ClockRead
<1>9. CASE Crash
  BY <1>9 DEF Crash, Boot
<1>10. CASE ListFails
  <2>1. worker' = [worker EXCEPT !.pc = "pay", !.list = {}, !.read = worker'.read]
    BY <1>1, <1>10 DEF ListFails, Working
  <2> QED BY <1>1, <2>1 DEF Working
<1>11. CASE Signals \/ Tick \/ UNCHANGED vars
  BY <1>11 DEF Signals, Signal, Tick, vars, ClockRead
<1> QED BY <1>2, <1>3, <1>4, <1>5, <1>6, <1>7, <1>8, <1>9, <1>10, <1>11 DEF Resting

\* ClockRead is inductive.
LEMMA ClockReadKept ==
    TypeInv /\ Dated /\ Unborn /\ SchedulePinned /\ ClockRead /\ [Next]_vars => ClockRead'
<1> SUFFICES ASSUME TypeInv, Dated, Unborn, SchedulePinned, ClockRead, [Next]_vars
             PROVE  ClockRead'
  OBVIOUS
<1>1. now \in Nat /\ worker.at \in Nat /\ worker.at <= now /\ now' \in {now, now + 1}
  BY WorkerFields, RowSteps DEF TypeInv, TypeOK, ClockRead
<1>2. \A v \in Vouchers \ adrift : voucher[v].first > 0 => voucher[v].last <= now
  BY <1>1 DEF SchedulePinned, OnSchedule, TypeInv, TypeOK, Row
<1>3. CASE Handler
  <2>1. worker' = worker
    BY <1>3, HandlerMarks
  <2>2. ASSUME worker.pc = "list", worker.pass = "regular",
               NEW v \in Vouchers, v \notin adrift', voucher'[v].first > 0
        PROVE  voucher'[v].last <= worker.at
    <3>1. \/ voucher'[v].last = 0
          \/ /\ v \notin adrift /\ voucher'[v].first = voucher[v].first
             /\ voucher'[v].last = voucher[v].last
      BY <1>3, <2>2, HandlerTimes DEF SamePlan
    <3> QED BY <1>1, <2>2, <3>1 DEF ClockRead
  <2> QED BY <1>1, <1>3, <2>1, <2>2, HandlerRows DEF ClockRead
<1>4. CASE Resting
  <2>1. voucher' = voucher /\ adrift' = adrift
    BY <1>4, RestingRows
  <2>2. worker'.at <= now'
    BY <1>1, <1>4, RestingClock
  <2>3. ASSUME worker'.pc = "list", worker'.pass = "regular",
               NEW v \in Vouchers, v \notin adrift', voucher'[v].first > 0
        PROVE  voucher'[v].last <= worker'.at
    BY <1>2, <1>4, <2>1, <2>3, RestingClock DEF ClockRead
  <2> QED BY <1>4, <2>2, <2>3, RestingClock DEF ClockRead
<1>5. ASSUME NEW u \in Vouchers,
             \/ SplitExpired(u) \/ SkipExpired(u) \/ SplitRegular(u) \/ SkipRegular(u)
             \/ SplitFails(u)
      PROVE  ClockRead'
  BY <1>1, <1>5, SplitLeaves DEF ClockRead
<1> QED BY <1>3, <1>4, <1>5, Steps

-----------------------------------------------------------------------------
\* A later time serves no fewer times, and one more if it is an interval later.
LEMMA ServedGrows ==
    ASSUME NEW first \in Nat \ {0}, NEW interval \in Nat \ {0}, NEW last \in Int, NEW r, NEW q,
           r.first = first, r.interval = interval, r.last = last,
           q.first = first, q.interval = interval, q.last \in Int,
           last > 0 => last <= q.last
    PROVE  /\ Served(r) \in Nat /\ Served(q) \in Nat /\ Served(r) <= Served(q)
           /\ first <= q.last /\ (last > 0 => last + interval <= q.last) =>
                Served(r) + 1 <= Served(q)
<1>1. \A x \in Int : x >= first => (x - first) \div interval \in Nat
  <2> TAKE x \in Int
  <2> HAVE x >= first
  <2>1. x - first \in Nat
    OBVIOUS
  <2> QED BY <2>1, DivBounds
<1>2. Served(r) \in Nat /\ Served(q) \in Nat
  BY <1>1 DEF Served
<1>3. CASE last < first
  <2>1. Served(r) = 0
    BY <1>3 DEF Served
  <2>2. first <= q.last => Served(q) >= 1
    BY <1>1 DEF Served
  <2> QED BY <1>2, <2>1, <2>2
<1>4. CASE last >= first
  <2> DEFINE a == last - first
             b == q.last - first
  <2>1. a \in Nat /\ b \in Nat /\ a <= b
    BY <1>4
  <2>2. Served(r) = a \div interval + 1 /\ Served(q) = b \div interval + 1
    BY <1>4, <2>1 DEF Served
  <2>3. last + interval <= q.last => a + interval <= b
    BY <1>4
  <2>4. last > 0
    BY <1>4
  <2> HIDE DEF a, b
  <2>5. a \div interval <= b \div interval
    BY <2>1, DivLess
  <2>6. a + interval <= b => a \div interval + 1 <= b \div interval
    BY <2>1, DivStep
  <2>7. a \div interval \in Nat /\ b \div interval \in Nat
    BY <2>1, DivBounds
  <2> QED BY <1>2, <2>2, <2>3, <2>4, <2>5, <2>6, <2>7
<1> QED BY <1>3, <1>4

\* OncePerServed is kept.
LEMMA OnceKept ==
    TypeInv /\ Unborn /\ AnchorFits /\ OncePerServed /\ [Next]_vars => OncePerServed'
<1> SUFFICES ASSUME TypeInv, Unborn, AnchorFits, OncePerServed, [Next]_vars,
                    NEW v \in Vouchers, v \notin adrift', voucher'[v].first > 0
             PROVE  refund'[v].regular <= Served(voucher'[v])
  BY DEF OncePerServed, Served
<1>1. /\ voucher'[v].first \in Nat \ {0} /\ voucher'[v].interval \in Nat \ {0}
      /\ voucher'[v].last \in Int /\ voucher[v].last \in Int
      /\ refund[v].regular \in Nat
  <2>1. voucher'[v] \in Row /\ PlanOK(voucher'[v])
    BY StepType DEF TypeInv, TypeOK, Planned, PlanOK
  <2> QED BY <2>1 DEF PlanOK, Row, TypeInv, TypeOK, Refunds
<1>2. ASSUME v \notin adrift, SamePlan(voucher[v], voucher'[v])
      PROVE  /\ refund[v].regular <= Served(voucher[v])
             /\ voucher[v].first = voucher'[v].first /\ voucher[v].interval = voucher'[v].interval
  BY <1>2 DEF OncePerServed, SamePlan
<1>3. ASSUME v \notin adrift, SamePlan(voucher[v], voucher'[v]),
             voucher'[v].last = voucher[v].last, refund'[v].regular = refund[v].regular
      PROVE  refund'[v].regular <= Served(voucher'[v])
  BY <1>2, <1>3 DEF Served
<1>4. CASE Handler
  <2>1. CASE voucher'[v].last = 0 /\ refund'[v].regular = 0
    BY <1>1, <2>1 DEF Served
  <2> QED BY <1>3, <1>4, <2>1, HandlerTimes
<1>5. CASE Resting
  BY <1>3, <1>5, RestingRows DEF SamePlan
<1>6. ASSUME NEW u \in Vouchers,
             \/ SplitExpired(u) \/ SkipExpired(u) \/ SplitRegular(u) \/ SkipRegular(u)
             \/ SplitFails(u)
      PROVE  refund'[v].regular <= Served(voucher'[v])
  <2>1. CASE u # v
    BY <1>3, <1>6, <2>1, SplitLeaves DEF SamePlan
  <2>2. CASE u = v
    <3>1. /\ worker.pc = "split" /\ v \in worker.list
          /\ v \notin adrift /\ SamePlan(voucher[v], voucher'[v])
      BY <1>6, <2>2, SplitLeaves, SplitTimes
    <3>2. CASE /\ worker.pass = "regular" /\ "plan" \notin touched[v]
               /\ voucher'[v].last = worker.read[v].anchor
               /\ \/ refund'[v].regular = refund[v].regular
                  \/ /\ ~worker.read[v].early
                     /\ refund'[v].regular = refund[v].regular + 1
      <4>1. Fits(voucher[v], worker.read[v])
        BY <3>1, <3>2 DEF AnchorFits, Listing
      <4>2. /\ refund[v].regular <= Served(voucher[v])
            /\ voucher[v].first = voucher'[v].first
            /\ voucher[v].interval = voucher'[v].interval
        BY <1>2, <3>1
      <4>3. /\ voucher[v].last > 0 => voucher[v].last <= voucher'[v].last
            /\ ~worker.read[v].early =>
                  /\ voucher'[v].first <= voucher'[v].last
                  /\ voucher[v].last > 0 =>
                       voucher[v].last + voucher'[v].interval <= voucher'[v].last
        BY <3>2, <4>1, <4>2 DEF Fits
      <4>4. /\ Served(voucher[v]) \in Nat /\ Served(voucher'[v]) \in Nat
            /\ Served(voucher[v]) <= Served(voucher'[v])
            /\ ~worker.read[v].early => Served(voucher[v]) + 1 <= Served(voucher'[v])
        BY <1>1, <4>2, <4>3, ServedGrows
      <4>5. CASE refund'[v].regular = refund[v].regular
        BY <1>1, <4>2, <4>4, <4>5
      <4>6. CASE ~worker.read[v].early /\ refund'[v].regular = refund[v].regular + 1
        BY <1>1, <4>2, <4>4, <4>6
      <4> QED BY <3>2, <4>5, <4>6
    <3>3. CASE voucher'[v].last = voucher[v].last /\ refund'[v].regular = refund[v].regular
      BY <1>3, <3>1, <3>3
    <3> QED BY <1>6, <2>2, <3>2, <3>3, SplitTimes
  <2> QED BY <2>1, <2>2
<1> QED BY <1>4, <1>5, <1>6, Steps

\* The inductive invariant of the times.
TimesInv ==
    TypeInv /\ Dated /\ Unborn /\ ClockRead /\ SchedulePinned /\ AnchorFits /\ OncePerServed

\* The invariant of the times holds at first.
LEMMA TimesInit == Init => TimesInv
<1> SUFFICES ASSUME Init PROVE TimesInv
  OBVIOUS
<1>1. Dated
  BY ScheduleAssumption DEF Init, NoVoucher, Dated
<1>2. Unborn
  BY DEF Init, NoVoucher, NoRefund, Boot, Unborn
<1>3. ClockRead
  BY DEF Init, Boot, ClockRead
<1>4. SchedulePinned /\ OncePerServed
  BY DEF Init, NoVoucher, SchedulePinned, OncePerServed
<1>5. AnchorFits
  BY DEF Init, Boot, AnchorFits, Listing
<1> QED BY <1>1, <1>2, <1>3, <1>4, <1>5, InitType DEF TimesInv

\* It is inductive.
LEMMA TimesStep == TimesInv /\ [Next]_vars => TimesInv'
BY StepType, DatedKept, UnbornKept, ClockReadKept, PinnedKept, AnchorFitsKept, OnceKept DEF TimesInv

\* last_at is always one of the times of the schedule, or the one before its first, as long
\* as no edit comes between the list and the refund (refund.go:166-182, 307-384).
THEOREM Pinned == Spec => []SchedulePinned
<1>1. TimesInv => SchedulePinned
  BY DEF TimesInv
<1> QED BY <1>1, TimesInit, TimesStep, PTL DEF Spec

\* No more times were served than have passed.
LEMMA ServedByNow ==
    ASSUME TimesInv, NEW v \in Vouchers, v \notin adrift, voucher[v].first > 0
    PROVE  Served(voucher[v]) <= TimesPassed(voucher[v])
<1>1. /\ voucher[v].first \in Nat \ {0} /\ voucher[v].interval \in Nat \ {0}
      /\ voucher[v].last \in Int /\ now \in Nat
  BY DEF TimesInv, TypeInv, TypeOK, Row, Planned, PlanOK
<1>2. voucher[v].last <= now
  BY <1>1 DEF TimesInv, SchedulePinned, OnSchedule
<1>3. \A x \in Nat : x \div voucher[v].interval \in Nat
  BY <1>1, DivBounds
<1>4. CASE voucher[v].last < voucher[v].first
  <2>1. voucher[v].first <= now => now - voucher[v].first \in Nat
    BY <1>1
  <2>2. Served(voucher[v]) = 0 /\ TimesPassed(voucher[v]) \in Nat
    BY <1>1, <1>3, <1>4, <2>1 DEF Served, TimesPassed
  <2> QED BY <2>2
<1>5. CASE voucher[v].last >= voucher[v].first
  <2> DEFINE a == voucher[v].last - voucher[v].first
             b == now - voucher[v].first
             n == voucher[v].interval
  <2>1. a \in Nat /\ b \in Nat /\ a <= b /\ n \in Nat \ {0}
    BY <1>1, <1>2, <1>5
  <2>2. Served(voucher[v]) = a \div n + 1 /\ TimesPassed(voucher[v]) = b \div n + 1
    BY <1>1, <1>2, <1>5 DEF Served, TimesPassed
  <2> HIDE DEF a, b, n
  <2>3. a \div n <= b \div n /\ a \div n \in Nat /\ b \div n \in Nat
    BY <2>1, DivLess, DivBounds
  <2> QED BY <2>2, <2>3
<1> QED BY <1>1, <1>4, <1>5

\* No time of a schedule is refunded twice, however often the worker starts again: the
\* refund and last_at are written together (refund.go:307-384).
THEOREM OncePerTime == Spec => []OneRefundPerTime
<1>1. TimesInv => OneRefundPerTime
  <2> SUFFICES ASSUME TimesInv, NEW v \in Vouchers, v \notin adrift, voucher[v].first > 0
               PROVE  refund[v].regular <= TimesPassed(voucher[v])
    BY DEF OneRefundPerTime
  <2>1. refund[v].regular <= Served(voucher[v]) /\ refund[v].regular \in Nat
    BY DEF TimesInv, OncePerServed, TypeInv, TypeOK, Refunds
  <2>2. Served(voucher[v]) <= TimesPassed(voucher[v])
    BY ServedByNow
  <2>3. Served(voucher[v]) \in Int /\ TimesPassed(voucher[v]) \in Int
    <3>1. /\ voucher[v].first \in Nat \ {0} /\ voucher[v].interval \in Nat \ {0}
          /\ voucher[v].last \in Int /\ now \in Nat
      BY DEF TimesInv, TypeInv, TypeOK, Row, Planned, PlanOK
    <3> QED BY <3>1 DEF Served, TimesPassed
  <2> QED BY <2>1, <2>2, <2>3
<1> QED BY <1>1, TimesInit, TimesStep, PTL DEF Spec

-----------------------------------------------------------------------------
(* A pass has an end, and everything that is due has its turn in it        *)

\* How many of its steps the worker has before it, at the most, until it sleeps or looks
\* at the clock again: a pass lists, reads the codes, deals with one voucher after the
\* other, and pays; the expired one comes first (refund.go:26-61).
StepsAhead(pc, turn, listed, all) ==
    LET ofPass == CASE pc = "list"  -> 3 + all
                    [] pc = "codes" -> 2 + listed
                    [] pc = "split" -> 1 + listed
                    [] OTHER        -> 1
    IN  CASE pc = "asleep" -> 0
          [] pc = "doze"   -> 1
          [] pc = "next"   -> 2
          [] pc = "clock"  -> 6 + all
          [] OTHER         -> ofPass + (IF turn = "expired" THEN 6 + all ELSE 2)

StepsLeft ==
    StepsAhead(worker.pc, worker.pass, Cardinality(worker.list), Cardinality(Vouchers))

\* A list is no longer than the table.
LEMMA ListSize ==
    /\ Cardinality(Vouchers) \in Nat /\ Cardinality({}) = 0
    /\ \A list \in SUBSET Vouchers :
        /\ Cardinality(list) \in Nat /\ Cardinality(list) <= Cardinality(Vouchers)
        /\ \A v \in list : Cardinality(list \ {v}) = Cardinality(list) - 1
<1>1. Cardinality(Vouchers) \in Nat /\ Cardinality({}) = 0
  BY FinitelyMany, FS_CardinalityType, FS_EmptySet
<1>2. ASSUME NEW list \in SUBSET Vouchers
      PROVE  /\ Cardinality(list) \in Nat /\ Cardinality(list) <= Cardinality(Vouchers)
             /\ \A v \in list : Cardinality(list \ {v}) = Cardinality(list) - 1
  <2>1. IsFiniteSet(list) /\ Cardinality(list) <= Cardinality(Vouchers)
    BY FinitelyMany, FS_Subset
  <2>2. Cardinality(list) \in Nat
    BY <2>1, FS_CardinalityType
  <2>3. \A v \in list : Cardinality(list \ {v}) = Cardinality(list) - 1
    BY <2>1, FS_RemoveElement
  <2> QED BY <2>1, <2>2, <2>3
<1> QED BY <1>1, <1>2

\* The steps that are left are a number, and no more than a whole pass has.
LEMMA StepsBounded ==
    ASSUME TypeInv
    PROVE  StepsLeft \in 0 .. 2 * Cardinality(Vouchers) + 9
<1> DEFINE all == Cardinality(Vouchers)
           listed == Cardinality(worker.list)
<1>1. /\ worker.pc \in WorkerPC /\ worker.pass \in {"expired", "regular"}
      /\ all \in Nat /\ listed \in Nat /\ listed <= all
  BY WorkerFields, ListSize
<1> HIDE DEF all, listed
<1>2. StepsAhead(worker.pc, worker.pass, listed, all) \in 0 .. 2 * all + 9
  BY <1>1 DEF StepsAhead, WorkerPC
<1> QED BY <1>2 DEF StepsLeft, listed, all

\* A new list takes fewer steps than to make it.
LEMMA ListedSteps ==
    ASSUME TypeInv, NEW chosen \in SUBSET Vouchers, NEW read, worker.pc = "list",
           Listed(chosen, read)
    PROVE  StepsLeft' < StepsLeft
<1> DEFINE all == Cardinality(Vouchers)
           listed == Cardinality(worker.list)
           next == Cardinality(chosen)
<1>1. /\ worker \in Working /\ worker.pass \in {"expired", "regular"}
      /\ all \in Nat /\ next \in Nat /\ next <= all
  BY WorkerFields, ListSize DEF TypeInv, TypeOK
<1>2. /\ worker'.pc = (IF chosen = {} THEN "pay" ELSE "codes")
      /\ worker'.pass = worker.pass /\ worker'.list = chosen
  BY <1>1 DEF Listed, Working
<1> HIDE DEF all, listed, next
<1>3. StepsAhead(worker'.pc, worker.pass, next, all) < StepsAhead("list", worker.pass, listed, all)
  BY <1>1, <1>2 DEF StepsAhead
<1> QED BY <1>2, <1>3 DEF StepsLeft, listed, next, all

\* Each voucher of the list is dealt with once.
LEMMA NextVoucherSteps ==
    ASSUME TypeInv, NEW v \in Vouchers, NextVoucher(v)
    PROVE  StepsLeft' < StepsLeft
<1> DEFINE all == Cardinality(Vouchers)
           listed == Cardinality(worker.list)
<1>1. /\ worker \in Working /\ worker.pass \in {"expired", "regular"}
      /\ all \in Nat /\ listed \in Nat
  BY WorkerFields, ListSize DEF TypeInv, TypeOK
<1>2. /\ worker.pc = "split" /\ v \in worker.list
      /\ worker'.pc = (IF worker.list = {v} THEN "pay" ELSE "split")
      /\ worker'.pass = worker.pass /\ worker'.list = worker.list \ {v}
  BY <1>1 DEF NextVoucher, Working
<1>3. Cardinality(worker'.list) = listed - 1 /\ Cardinality(worker'.list) \in Nat
  BY <1>2, WorkerFields, ListSize
<1> HIDE DEF all, listed
<1>4. StepsAhead(worker'.pc, worker.pass, listed - 1, all)
        < StepsAhead("split", worker.pass, listed, all)
  BY <1>1, <1>2, <1>3 DEF StepsAhead
<1> QED BY <1>2, <1>3, <1>4 DEF StepsLeft, listed, all

\* Where the worker is, and how long it may sleep.
Rounds ==
    /\ worker.pc = "clock" => worker.pass = "regular"
    /\ worker.pc \in {"next", "doze", "asleep"} => worker.pass = "expired"
    /\ worker.pc = "asleep" => now <= worker.until /\ worker.until <= now + MaxSleep

\* Rounds is inductive.
LEMMA RoundsKept == TypeInv /\ Rounds /\ [Next]_vars => Rounds'
<1> SUFFICES ASSUME TypeInv, Rounds, [Next]_vars PROVE Rounds'
  OBVIOUS
<1>1. worker \in Working /\ now \in Nat /\ worker.until \in Nat /\ MaxSleep \in Nat
  BY WorkerFields, ScheduleAssumption DEF TypeInv, TypeOK
<1>2. ASSUME worker' = worker, now' = now PROVE Rounds'
  BY <1>2 DEF Rounds
<1>3. CASE Handler
  BY <1>2, <1>3, HandlerRows, HandlerMoves DEF Create, Edit, Moves, Pays
<1>4. CASE Signals \/ UNCHANGED vars
  BY <1>2, <1>4 DEF Signals, Signal, vars
<1>5. CASE Tick
  BY <1>1, <1>5 DEF Tick, Rounds
<1>6. CASE ListExpired \/ ListRegular
  BY <1>1, <1>6 DEF ListExpired, ListRegular, Listed, Working, Rounds
<1>7. CASE ReadClock \/ ReadCodes \/ NoSleep \/ WakeUp
  BY <1>1, <1>7 DEF ReadClock, ReadCodes, NoSleep, WakeUp, Working, Rounds
<1>8. CASE Pay
  <2>1. \/ worker' = [worker EXCEPT !.pc = "clock", !.pass = "regular"]
        \/ worker' = [worker EXCEPT !.pc = "next", !.pass = "expired", !.at = 0]
    BY <1>8 DEF Pay
  <2> QED BY <1>1, <2>1 DEF Working, Rounds
<1>9. CASE NextRefundAt \/ NextRefundAtFails
  <2>1. worker.pc = "next" /\ \E t : worker' = [worker EXCEPT !.pc = "doze", !.until = t]
    BY <1>9 DEF NextRefundAt, NextRefundAtFails
  <2> QED BY <1>1, <2>1 DEF Working, Rounds
<1>10. CASE Sleep
  <2>1. /\ worker.pc = "doze" /\ worker'.pc = "asleep" /\ worker'.pass = worker.pass /\ now' = now
        /\ worker'.until = IF worker.until = 0 \/ worker.until > now + MaxSleep
                           THEN now + MaxSleep ELSE worker.until
        /\ worker.until = 0 \/ worker.until > now
    BY <1>1, <1>10 DEF Sleep, Working
  <2> QED BY <1>1, <2>1 DEF Rounds
<1>11. CASE Crash
  BY <1>11 DEF Crash, Boot, Rounds
<1>12. CASE ListFails
  <2>1. worker' = [worker EXCEPT !.pc = "pay", !.list = {}, !.read = worker'.read]
    BY <1>1, <1>12 DEF ListFails, Working
  <2> QED BY <1>1, <2>1 DEF Working, Rounds
<1>13. CASE \E u \in Vouchers : \/ SplitExpired(u) \/ SkipExpired(u) \/ SplitRegular(u)
                                \/ SkipRegular(u) \/ SplitFails(u)
  BY <1>13, SplitLeaves DEF Rounds
<1> QED BY <1>3, <1>4, <1>5, <1>6, <1>7, <1>8, <1>9, <1>10, <1>11, <1>12, <1>13, Steps DEF Resting

\* What a worker takes of its steps when it neither wakes up nor finds it is time.
OnWithThePass ==
    \/ ListExpired \/ ReadClock \/ ListRegular \/ ReadCodes
    \/ \E v \in Vouchers :
        SplitExpired(v) \/ SkipExpired(v) \/ SplitRegular(v) \/ SkipRegular(v)
    \/ Pay \/ NextRefundAt \/ Sleep
    \/ Failure

\* Each of them takes it nearer to its sleep: also those that fail.
LEMMA OnWithIt ==
    ASSUME TypeInv, Rounds, OnWithThePass
    PROVE  StepsLeft' < StepsLeft
<1> DEFINE all == Cardinality(Vouchers)
<1>1. /\ worker \in Working /\ worker.pass \in {"expired", "regular"}
      /\ all \in Nat /\ Cardinality(worker.list) \in Nat /\ Cardinality({}) = 0
  BY WorkerFields, ListSize DEF TypeInv, TypeOK
<1>2. CASE ListExpired
  BY <1>2, ListedSteps DEF ListExpired
<1>3. CASE ListRegular
  BY <1>3, ListedSteps DEF ListRegular
<1>4. ASSUME NEW v \in Vouchers,
             \/ SplitExpired(v) \/ SkipExpired(v) \/ SplitRegular(v) \/ SkipRegular(v)
             \/ SplitFails(v)
      PROVE  StepsLeft' < StepsLeft
  BY <1>4, NextVoucherSteps DEF SplitExpired, SkipExpired, SplitRegular, SkipRegular, SplitFails
<1>5. CASE ReadCodes
  <2>1. /\ worker.pc = "codes" /\ worker'.pc = "split"
        /\ worker'.pass = worker.pass /\ worker'.list = worker.list
    BY <1>1, <1>5 DEF ReadCodes, Working
  <2> HIDE DEF all
  <2>2. StepsAhead("split", worker.pass, Cardinality(worker.list), all)
          < StepsAhead("codes", worker.pass, Cardinality(worker.list), all)
    BY <1>1 DEF StepsAhead
  <2> QED BY <2>1, <2>2 DEF StepsLeft, all
<1>6. CASE ListFails
  <2>1. worker' = [worker EXCEPT !.pc = "pay", !.list = {}, !.read = worker'.read]
    BY <1>1, <1>6 DEF ListFails, Working
  <2>2. /\ worker.pc \in {"list", "codes"} /\ worker'.pc = "pay"
        /\ worker'.pass = worker.pass /\ worker'.list = {}
    BY <1>1, <1>6, <2>1 DEF ListFails, Working
  <2> HIDE DEF all
  <2>3. StepsAhead("pay", worker.pass, 0, all)
          < StepsAhead(worker.pc, worker.pass, Cardinality(worker.list), all)
    BY <1>1, <2>2 DEF StepsAhead
  <2> QED BY <1>1, <2>2, <2>3 DEF StepsLeft, all
<1>7. CASE ReadClock \/ Pay \/ NextRefundAt \/ NextRefundAtFails \/ Sleep
  <2>1. worker'.list = worker.list
    BY <1>1, <1>7 DEF ReadClock, Pay, NextRefundAt, NextRefundAtFails, Sleep, Working
  <2>2. \/ worker.pc = "clock" /\ worker'.pc = "list" /\ worker'.pass = worker.pass
        \/ /\ worker.pc = "pay" /\ worker.pass = "expired" /\ worker'.pc = "clock"
        \/ /\ worker.pc = "pay" /\ worker.pass = "regular" /\ worker'.pc = "next"
        \/ worker.pc = "next" /\ worker'.pc = "doze"
        \/ worker.pc = "doze" /\ worker'.pc = "asleep"
    BY <1>1, <1>7 DEF ReadClock, Pay, NextRefundAt, NextRefundAtFails, Sleep, Working
  <2>3. worker.pc = "clock" => worker.pass = "regular"
    BY DEF Rounds
  <2> HIDE DEF all
  <2>4. StepsAhead(worker'.pc, worker'.pass, Cardinality(worker.list), all)
          < StepsAhead(worker.pc, worker.pass, Cardinality(worker.list), all)
    BY <1>1, <2>2, <2>3 DEF StepsAhead
  <2> QED BY <2>1, <2>4 DEF StepsLeft, all
<1> QED BY <1>2, <1>3, <1>4, <1>5, <1>6, <1>7 DEF OnWithThePass, Failure

\* The worker's pass: it has at most 2n + 9 steps before it with n vouchers in the table,
\* every one of its steps, failing or not, takes some of them off, and nothing that a
\* handler does, no signal and no time that passes adds to them: the worker cannot be
\* kept from its sleep, nor from what comes later in the pass.  Only the end of a sleep
\* (or a time that has come before it began) and a restart begin a new pass
\* (refund.go:26-61, 184-268, 281-386).
THEOREM PassEnds ==
    Spec => /\ [](StepsLeft \in 0 .. 2 * Cardinality(Vouchers) + 9)
            /\ [][ /\ WorkerStep \/ Failure => StepsLeft' < StepsLeft \/ NoSleep \/ WakeUp
                   /\ Handler \/ Signals \/ Tick => StepsLeft' = StepsLeft ]_vars
<1> DEFINE A == /\ WorkerStep \/ Failure => StepsLeft' < StepsLeft \/ NoSleep \/ WakeUp
                /\ Handler \/ Signals \/ Tick => StepsLeft' = StepsLeft
<1>1. Init => Rounds
  BY DEF Init, Boot, Rounds
<1>2. TypeInv => StepsLeft \in 0 .. 2 * Cardinality(Vouchers) + 9
  BY StepsBounded
<1>3. ASSUME TypeInv, Rounds, [Next]_vars
      PROVE  [A]_vars
  <2>1. WorkerStep \/ Failure => StepsLeft' < StepsLeft \/ NoSleep \/ WakeUp
    <3>1. WorkerStep \/ Failure => OnWithThePass \/ NoSleep \/ WakeUp
      BY DEF WorkerStep, OnWithThePass
    <3> QED BY <1>3, <3>1, OnWithIt
  <2>2. Handler \/ Signals \/ Tick => worker' = worker
    BY <1>3, HandlerMoves DEF Create, Edit, Moves, Pays, Signals, Signal, Tick
  <2> QED BY <2>1, <2>2 DEF StepsLeft
<1> QED BY <1>1, <1>2, <1>3, InitType, StepType, RoundsKept, PTL DEF Spec

\* A worker that sleeps has an hour before it at the most, whatever nextRefundAt told it
\* or failed to tell it: what it overslept, it takes up by then (refund.go:34-57).
SleepsAnHour ==
    worker.pc = "asleep" => now <= worker.until /\ worker.until <= now + MaxSleep

\* SleepsAnHour holds in every state.
THEOREM SleepEnds == Spec => []SleepsAnHour
<1>1. Init => Rounds
  BY DEF Init, Boot, Rounds
<1>2. Rounds => SleepsAnHour
  BY DEF Rounds, SleepsAnHour
<1> QED BY <1>1, <1>2, InitType, StepType, RoundsKept, PTL DEF Spec

-----------------------------------------------------------------------------
\* The worker has yet to list what has expired, or has v on its list.
ExpiryAhead(v) ==
    /\ worker.pass = "expired"
    /\ \/ worker.pc = "list"
       \/ worker.pc \in {"codes", "split"} /\ v \in worker.list

\* The pass is not over with a voucher while there are others on the list.
LEMMA OthersRemain ==
    ASSUME TypeInv, NEW u \in Vouchers, NEW v \in worker.list, u # v, NextVoucher(u)
    PROVE  worker'.pc = "split"
<1>1. worker \in Working /\ worker.list # {u}
  BY DEF TypeInv, TypeOK
<1> QED BY <1>1 DEF NextVoucher, Working

\* A voucher that has expired with a balance is not left out and not forgotten.
LEMMA ExpiryStep ==
    ASSUME TypeInv, Unborn, [Next]_vars, NEW v \in Vouchers,
           ExpiredWithBalance(voucher[v]), ExpiryAhead(v)
    PROVE  ~ExpiredWithBalance(voucher[v])' \/ ExpiryAhead(v)' \/ ListFails \/ SplitFails(v)
<1>1. worker \in Working /\ worker.list \subseteq Vouchers
  BY WorkerFields DEF TypeInv, TypeOK
<1>2. CASE Handler \/ Signals \/ Tick \/ UNCHANGED vars
  <2>1. worker' = worker
    BY <1>2, HandlerMarks DEF Signals, Signal, Tick, vars
  <2> QED BY <2>1 DEF ExpiryAhead
<1>3. CASE ListExpired
  <2>1. LET due == {u \in Vouchers : ExpiredWithBalance(voucher[u])}
        IN  worker' = [worker EXCEPT !.pc = IF due = {} THEN "pay" ELSE "codes", !.list = due,
                                     !.read = [u \in Vouchers |-> NoRead]]
    BY <1>3 DEF ListExpired, Listed
  <2>2. worker'.list = {u \in Vouchers : ExpiredWithBalance(voucher[u])}
    BY <1>1, <2>1 DEF Working
  <2>3. v \in worker'.list
    BY <2>2
  <2>4. worker'.pc = "codes" /\ worker'.pass = worker.pass
    BY <1>1, <2>1, <2>2, <2>3 DEF Working
  <2> QED BY <2>3, <2>4 DEF ExpiryAhead
<1>4. CASE ReadCodes
  BY <1>1, <1>4 DEF ReadCodes, Working, ExpiryAhead
<1>5. CASE Crash
  BY <1>5 DEF Crash, Boot, ExpiryAhead
<1>6. CASE \/ ListRegular \/ ReadClock \/ Pay \/ NextRefundAt \/ NextRefundAtFails
           \/ NoSleep \/ Sleep \/ WakeUp
  BY <1>6 DEF ListRegular, ReadClock, Pay, NextRefundAt, NextRefundAtFails, NoSleep, Sleep,
              WakeUp, ExpiryAhead
<1>7. ASSUME NEW u \in Vouchers,
             \/ SplitExpired(u) \/ SkipExpired(u) \/ SplitRegular(u) \/ SkipRegular(u)
             \/ SplitFails(u)
      PROVE  ~ExpiredWithBalance(voucher[v])' \/ ExpiryAhead(v)' \/ SplitFails(v)
  <2>1. CASE u # v
    <3>1. /\ worker.pc = "split" /\ worker'.list = worker.list \ {u}
          /\ worker'.pass = worker.pass
      BY <1>7, SplitLeaves
    <3>2. v \in worker.list
      BY <3>1 DEF ExpiryAhead
    <3>3. worker'.pc = "split"
      BY <1>1, <1>7, <2>1, <3>2, OthersRemain
         DEF SplitExpired, SkipExpired, SplitRegular, SkipRegular, SplitFails
    <3> QED BY <2>1, <3>1, <3>2, <3>3 DEF ExpiryAhead
  <2>2. CASE u = v
    <3>1. CASE SplitExpired(v)
      <4>1. voucher'[v] = Closed(voucher[v])
        BY <3>1 DEF SplitExpired, TypeInv, TypeOK
      <4>2. voucher'[v].bal = 0
        BY <4>1 DEF Closed, TypeInv, TypeOK, Row
      <4> QED BY <4>2 DEF ExpiredWithBalance
    <3>2. CASE SkipExpired(v)
      BY <3>2 DEF SkipExpired, ExpiredWithBalance
    <3>3. CASE SplitRegular(v) \/ SkipRegular(v)
      BY <3>3 DEF SplitRegular, SkipRegular, ExpiryAhead
    <3> QED BY <1>7, <2>2, <3>1, <3>2, <3>3
  <2> QED BY <2>1, <2>2
<1> QED BY <1>2, <1>3, <1>4, <1>5, <1>6, <1>7, Steps DEF Resting

\* The half of ExpiredIsRefunded that is about safety.  Once a pass is about to list what
\* has expired, a voucher that has expired with a balance keeps its place in that pass
\* until the balance is gone or the deadline is another one: it is listed whether it is
\* active or not, no handler takes it from the list, no other voucher's turn ends the
\* pass before its own, and a restart comes back to where it will be listed.  Only a
\* failing statement passes it over, and then until the next pass
\* (refund.go:184-268, db.go:894-930).
THEOREM ExpiredHasItsTurn ==
    Spec => [][\A v \in Vouchers :
                 ExpiredWithBalance(voucher[v]) /\ ExpiryAhead(v) =>
                    ~ExpiredWithBalance(voucher[v])' \/ ExpiryAhead(v)'
                        \/ ListFails \/ SplitFails(v)]_vars
<1>1. TimesInv => TypeInv /\ Unborn
  BY DEF TimesInv
<1>2. ASSUME TypeInv, Unborn, [Next]_vars
      PROVE  \A v \in Vouchers :
                 ExpiredWithBalance(voucher[v]) /\ ExpiryAhead(v) =>
                    ~ExpiredWithBalance(voucher[v])' \/ ExpiryAhead(v)'
                        \/ ListFails \/ SplitFails(v)
  BY <1>2, ExpiryStep
<1> QED BY <1>1, <1>2, TimesInit, TimesStep, PTL DEF Spec

-----------------------------------------------------------------------------
\* The worker has yet to list what is due, or has v on its list.
DueAhead(v) ==
    \/ worker.pass = "expired" /\ worker.pc \in {"list", "codes", "split", "pay"}
    \/ worker.pc \in {"clock", "list"}
    \/ worker.pc \in {"codes", "split"} /\ v \in worker.list

\* The worker passes v over for something that fails.
PassedOver(v) == worker.pass = "regular" /\ (ListFails \/ SplitFails(v))

\* A voucher whose regular refund is due is not left out and not forgotten.
LEMMA DueStep ==
    ASSUME TypeInv, Unborn, [Next]_vars, NEW v \in Vouchers,
           RegularDue(voucher[v]), DueAhead(v)
    PROVE  ~RegularDue(voucher[v])' \/ DueAhead(v)' \/ SplitRegular(v) \/ SkipRegular(v)
             \/ PassedOver(v)
<1>1. /\ worker \in Working /\ worker.list \subseteq Vouchers
      /\ worker.pass \in {"expired", "regular"}
  BY WorkerFields DEF TypeInv, TypeOK
<1>2. CASE Handler \/ Signals \/ Tick \/ UNCHANGED vars
  <2>1. worker' = worker
    BY <1>2, HandlerMarks DEF Signals, Signal, Tick, vars
  <2> QED BY <2>1 DEF DueAhead
<1>3. CASE ListRegular
  <2>1. LET due == {u \in Vouchers : RegularDue(voucher[u])}
        IN  /\ worker'.list = due
            /\ worker'.pc = IF due = {} THEN "pay" ELSE "codes"
    BY <1>1, <1>3 DEF ListRegular, Listed, Working
  <2>2. worker'.list = {u \in Vouchers : RegularDue(voucher[u])}
    BY <2>1
  <2>3. v \in worker'.list
    BY <2>2
  <2>4. worker'.pc = "codes"
    BY <2>1, <2>2, <2>3
  <2> QED BY <2>3, <2>4 DEF DueAhead
<1>4. CASE ListExpired
  <2>1. worker.pass = "expired" /\ worker'.pass = worker.pass /\ worker'.pc \in {"pay", "codes"}
    BY <1>1, <1>4 DEF ListExpired, Listed, Working
  <2> QED BY <2>1 DEF DueAhead
<1>5. CASE ReadCodes \/ ReadClock
  BY <1>1, <1>5 DEF ReadCodes, ReadClock, Working, DueAhead
<1>6. CASE Pay
  <2>1. worker.pc = "pay" /\ worker.pass = "expired"
    BY <1>6 DEF Pay, DueAhead
  <2>2. worker'.pc = "clock"
    BY <1>1, <1>6, <2>1 DEF Pay, Working
  <2> QED BY <2>2 DEF DueAhead
<1>7. CASE Crash
  BY <1>7 DEF Crash, Boot, DueAhead
<1>8. CASE ListFails
  <2>1. worker' = [worker EXCEPT !.pc = "pay", !.list = {}, !.read = worker'.read]
    BY <1>1, <1>8 DEF ListFails, Working
  <2>2. worker'.pc = "pay" /\ worker'.pass = worker.pass
    BY <1>1, <2>1 DEF Working
  <2> QED BY <1>1, <1>8, <2>2 DEF PassedOver, DueAhead
<1>9. CASE NextRefundAt \/ NextRefundAtFails \/ NoSleep \/ Sleep \/ WakeUp
  BY <1>9 DEF NextRefundAt, NextRefundAtFails, NoSleep, Sleep, WakeUp, DueAhead
<1>10. ASSUME NEW u \in Vouchers,
              \/ SplitExpired(u) \/ SkipExpired(u) \/ SplitRegular(u) \/ SkipRegular(u)
              \/ SplitFails(u)
       PROVE  DueAhead(v)' \/ SplitRegular(v) \/ SkipRegular(v) \/ PassedOver(v)
  <2>1. /\ worker.pc = "split" /\ worker'.list = worker.list \ {u}
        /\ worker'.pass = worker.pass /\ worker'.pc \in {"pay", "split"}
    BY <1>10, SplitLeaves
  <2>2. CASE worker.pass = "expired"
    BY <2>1, <2>2 DEF DueAhead
  <2>3. CASE worker.pass = "regular" /\ u # v
    <3>1. v \in worker.list
      BY <2>1, <2>3 DEF DueAhead
    <3>2. worker'.pc = "split"
      BY <1>1, <1>10, <2>3, <3>1, OthersRemain
         DEF SplitExpired, SkipExpired, SplitRegular, SkipRegular, SplitFails
    <3> QED BY <2>1, <2>3, <3>1, <3>2 DEF DueAhead
  <2>4. CASE worker.pass = "regular" /\ u = v
    BY <1>10, <2>4 DEF SplitExpired, SkipExpired, PassedOver
  <2> QED BY <1>1, <2>2, <2>3, <2>4
<1> QED BY <1>2, <1>3, <1>4, <1>5, <1>6, <1>7, <1>8, <1>9, <1>10, Steps DEF Resting

\* When the next refund will be due, once the anchor that was read is last_at.
NextAfter(r, read) == IF read.anchor > 0 THEN read.anchor + r.interval ELSE r.first

\* The anchors of the list lead past the clock of the pass.
AnchorsPast ==
    Listing /\ worker.pass = "regular" =>
        \A v \in worker.list :
            "plan" \in touched[v] \/ NextAfter(voucher[v], worker.read[v]) > worker.at

\* last_at is never in the future, nor ahead of a pass that is about to make its list, be
\* it of a voucher that was edited while it was listed.
Behind ==
    /\ \A v \in Vouchers : voucher[v].first > 0 => voucher[v].last <= now
    /\ Listing /\ worker.pass = "regular" =>
        \A v \in worker.list : worker.read[v].anchor <= now
    /\ worker.pc = "list" /\ worker.pass = "regular" =>
        \A v \in Vouchers : voucher[v].first > 0 => voucher[v].last <= worker.at

\* nextRegularRefundAnchor goes on until it is past the time it was given: the loop takes
\* back one interval and no more (refund.go:166-182).
LEMMA AnchorPast ==
    ASSUME NEW first \in Nat \ {0}, NEW last \in Nat, NEW interval \in Nat \ {0}, NEW at \in Nat,
           last <= at, NEW anchor,
           anchor = nextRegularRefundAnchor(first, last, interval, at)
    PROVE  (IF anchor > 0 THEN anchor + interval ELSE first) > at
<1> DEFINE base == Base(first, last)
<1>1. base \in Nat /\ base > 0 /\ (base > at => base = first)
  BY DEF Base
<1>2. CASE base > at
  BY <1>1, <1>2 DEF nextRegularRefundAnchor
<1>3. CASE base <= at
  <2> DEFINE step == ((at - base) \div interval) * interval
  <2>1. at - base \in Nat
    BY <1>1, <1>3
  <2>2. step \in Nat /\ at - base < step + interval
    <3>1. /\ (at - base) \div interval \in Nat
          /\ at - base < ((at - base) \div interval) * interval + interval
      BY <2>1, DivBounds
    <3> QED BY <3>1
  <2>3. anchor = base + step
    BY <1>1, <1>3 DEF nextRegularRefundAnchor
  <2> HIDE DEF base, step
  <2> QED BY <1>1, <2>2, <2>3
<1> QED BY <1>1, <1>2, <1>3

\* The anchor of a refund that is due is not in the future.
LEMMA AnchorBehind ==
    ASSUME NEW first \in Nat \ {0}, NEW last \in Nat, NEW interval \in Nat \ {0}, NEW at \in Nat,
           NEW time \in Nat, at <= time, last <= time,
           (IF last > 0 THEN last + interval ELSE first) <= time
    PROVE  nextRegularRefundAnchor(first, last, interval, at) <= time
<1> DEFINE base == Base(first, last)
<1>1. base \in Nat /\ base <= time
  BY DEF Base
<1>2. CASE base > at
  BY <1>1, <1>2 DEF nextRegularRefundAnchor
<1>3. CASE base <= at
  <2> DEFINE step == ((at - base) \div interval) * interval
  <2>1. at - base \in Nat
    BY <1>1, <1>3
  <2>2. step \in Nat /\ step <= at - base
    <3>1. /\ (at - base) \div interval \in Nat
          /\ ((at - base) \div interval) * interval <= at - base
      BY <2>1, DivBounds
    <3> QED BY <3>1
  <2>3. nextRegularRefundAnchor(first, last, interval, at) = base + step
    BY <1>1, <1>3 DEF nextRegularRefundAnchor
  <2> HIDE DEF base, step
  <2> QED BY <1>1, <2>1, <2>2, <2>3
<1> QED BY <1>1, <1>2, <1>3

\* What a step makes of last_at: it starts again, stays, or becomes the anchor.
LEMMA LastSteps ==
    ASSUME TypeInv, [Next]_vars, NEW v \in Vouchers, voucher'[v].first > 0
    PROVE  \/ voucher'[v].last = 0
           \/ voucher[v].first > 0 /\ voucher'[v].last = voucher[v].last
           \/ /\ worker.pc = "split" /\ v \in worker.list /\ worker.pass = "regular"
              /\ voucher'[v].last = worker.read[v].anchor
<1>1. CASE voucher'[v] = voucher[v]
  BY <1>1
<1>2. CASE Asking(v)
  BY <1>2, AskedRow
<1>3. CASE Moving(v)
  <2>1. voucher[v].first > 0 => ~voucher[v].immediate
    BY DEF TypeInv, Planned, PlanOK
  <2> QED BY <1>3, <2>1, MovedRow DEF SamePlan
<1>4. CASE Refunding(v)
  <2>1. SamePlan(voucher[v], voucher'[v])
    BY <1>4, RefundedRow
  <2>2. voucher[v] \in Row
    BY DEF TypeInv, TypeOK
  <2>3. CASE voucher'[v] = Closed(voucher[v])
    BY <2>1, <2>2, <2>3 DEF Closed, SamePlan, Row
  <2>4. CASE /\ worker.pass = "regular"
             /\ \/ voucher'[v] = RegularRefunded(voucher[v], worker.read[v].anchor)
                \/ voucher'[v] = Advanced(voucher[v], worker.read[v].anchor)
    BY <1>4, <2>2, <2>4 DEF Refunding, RegularRefunded, Advanced, Row
  <2> QED BY <1>4, <2>3, <2>4 DEF Refunding
<1> QED BY <1>1, <1>2, <1>3, <1>4, RowSteps

\* Behind is inductive with the invariant of the times.
LEMMA BehindKept == TimesInv /\ Behind /\ [Next]_vars => Behind'
<1> SUFFICES ASSUME TimesInv, Behind, [Next]_vars PROVE Behind'
  OBVIOUS
<1>0. TypeInv /\ Unborn /\ ClockRead /\ worker \in Working /\ worker.list \subseteq Vouchers
  BY WorkerFields DEF TimesInv, TypeInv, TypeOK
<1>1. /\ now \in Nat /\ now' \in {now, now + 1} /\ worker.at \in Nat /\ worker.at <= now
      /\ worker.read \in [Vouchers -> Reading]
  BY <1>0, WorkerFields, RowSteps DEF TypeInv, TypeOK, ClockRead
<1>2. ASSUME NEW v \in Vouchers, voucher'[v].first > 0
      PROVE  voucher'[v].last <= now'
  <2>1. voucher[v].last \in Int /\ worker.read[v].anchor \in Int
    BY <1>0, <1>1 DEF TypeInv, TypeOK, Row, Reading
  <2> QED BY <1>0, <1>1, <1>2, <2>1, LastSteps DEF Behind, Listing
<1>3. ASSUME worker'.pc \in {"codes", "split"}, worker'.pass = "regular", NEW v \in worker'.list
      PROVE  worker'.read[v].anchor <= now'
  <2>1. ASSUME Listing, worker.pass = "regular", v \in worker.list,
               worker'.read[v].anchor = worker.read[v].anchor
        PROVE  worker'.read[v].anchor <= now'
    <3>1. worker.read[v].anchor <= now /\ worker.read[v].anchor \in Int
      BY <1>0, <1>1, <2>1 DEF Behind, Reading
    <3> QED BY <1>1, <2>1, <3>1
  <2>2. CASE Handler
    BY <1>0, <1>3, <2>1, <2>2, HandlerMarks DEF Listing
  <2>3. CASE Resting
    <3>1. CASE worker' = worker
      BY <1>3, <2>1, <3>1 DEF Listing
    <3>2. CASE ReadCodes
      <4>1. /\ worker'.list = worker.list /\ worker'.pass = worker.pass /\ worker.pc = "codes"
            /\ worker'.read = [u \in Vouchers |->
                IF u \in worker.list THEN [worker.read[u] EXCEPT !.codes = voucher[u].codes]
                                     ELSE NoRead]
        BY <1>0, <3>2 DEF ReadCodes, Working
      <4>2. worker'.read[v].anchor = worker.read[v].anchor
        BY <1>0, <1>1, <1>3, <4>1 DEF Reading
      <4> QED BY <1>3, <2>1, <4>1, <4>2 DEF Listing
    <3>3. CASE ListExpired
      BY <1>0, <1>3, <3>3 DEF ListExpired, Listed, Working
    <3>4. CASE ListRegular
      <4> DEFINE due == {u \in Vouchers : RegularDue(voucher[u])}
                 read == [u \in Vouchers |->
                            IF u \in due THEN ReadRegular(voucher[u]) ELSE NoRead]
                 r == voucher[v]
      <4>1. worker' = [worker EXCEPT !.pc = IF due = {} THEN "pay" ELSE "codes",
                                     !.list = due, !.read = read]
        BY <3>4 DEF ListRegular, Listed
      <4>2. worker'.list = due /\ worker'.read = read
        BY <1>0, <4>1 DEF Working
      <4>3. v \in Vouchers /\ RegularDue(r)
        BY <1>3, <4>2
      <4>4. worker'.read[v] = ReadRegular(r)
        BY <1>3, <4>2, <4>3
      <4> HIDE DEF due, read
      <4>5. worker'.read[v].anchor = nextRegularRefundAnchor(r.first, r.last, r.interval, worker.at)
        BY <4>4 DEF ReadRegular
      <4>6. /\ r.first \in Nat \ {0} /\ r.interval \in Nat \ {0} /\ r.last \in Nat
            /\ NextAt(r) <= now
        BY <1>0, <4>3 DEF RegularDue, HasRegular, TypeInv, TypeOK, Row, Planned, PlanOK
      <4>7. r.last <= now
        BY <4>3, <4>6 DEF Behind
      <4> HIDE DEF r
      <4>8. nextRegularRefundAnchor(r.first, r.last, r.interval, worker.at) <= now
        BY <1>1, <4>6, <4>7, AnchorBehind DEF NextAt
      <4>9. now' = now
        BY <3>4 DEF ListRegular, Listed
      <4> QED BY <4>5, <4>8, <4>9
    <3> QED BY <1>0, <1>3, <2>3, <3>1, <3>2, <3>3, <3>4, RestingListing
  <2>4. ASSUME NEW u \in Vouchers,
               \/ SplitExpired(u) \/ SkipExpired(u) \/ SplitRegular(u) \/ SkipRegular(u)
               \/ SplitFails(u)
        PROVE  worker'.read[v].anchor <= now'
    <3>1. /\ worker.pc = "split" /\ worker.pass = "regular"
          /\ v \in worker.list /\ v \in Vouchers \ {u}
      BY <1>0, <1>3, <2>4, SplitLeaves
    <3>2. worker'.read[v] = worker.read[v]
      BY <1>0, <2>4, <3>1, SplitLeaves
    <3> QED BY <2>1, <3>1, <3>2 DEF Listing
  <2> QED BY <2>2, <2>3, <2>4, Steps
<1>4. ASSUME worker'.pc = "list", worker'.pass = "regular", NEW v \in Vouchers,
             voucher'[v].first > 0
      PROVE  voucher'[v].last <= worker'.at
  <2>1. CASE Handler
    <3>1. worker' = worker
      BY <1>0, <2>1, HandlerMarks
    <3>2. \/ voucher'[v].last = 0
          \/ voucher[v].first > 0 /\ voucher'[v].last = voucher[v].last
      BY <1>0, <1>4, <3>1, LastSteps
    <3> QED BY <1>1, <1>4, <3>1, <3>2 DEF Behind
  <2>2. CASE Resting
    <3>1. voucher' = voucher
      BY <1>0, <2>2, RestingRows
    <3>2. worker'.at = now \/ worker' = worker
      BY <1>0, <1>4, <2>2, RestingClock
    <3> QED BY <1>4, <3>1, <3>2 DEF Behind
  <2>3. CASE \E u \in Vouchers : \/ SplitExpired(u) \/ SkipExpired(u) \/ SplitRegular(u)
                                 \/ SkipRegular(u) \/ SplitFails(u)
    BY <1>0, <1>4, <2>3, SplitLeaves
  <2> QED BY <2>1, <2>2, <2>3, Steps
<1> QED BY <1>2, <1>3, <1>4 DEF Behind, Listing

\* AnchorsPast is inductive with the invariant of the times.
LEMMA AnchorsPastKept == TimesInv /\ Behind /\ AnchorsPast /\ [Next]_vars => AnchorsPast'
<1> SUFFICES ASSUME TimesInv, Behind, AnchorsPast, [Next]_vars,
                    worker'.pc \in {"codes", "split"}, worker'.pass = "regular",
                    NEW v \in worker'.list, "plan" \notin touched'[v]
             PROVE  NextAfter(voucher[v], worker.read[v])' > worker'.at
  BY DEF AnchorsPast, Listing
<1>0. TypeInv /\ Unborn /\ ClockRead
  BY DEF TimesInv
<1>1. /\ worker.list \subseteq Vouchers /\ worker \in Working
      /\ worker.read \in [Vouchers -> Reading] /\ worker.at \in Nat
  BY <1>0, WorkerFields DEF TypeInv, TypeOK
<1>2. ASSUME worker.pc \in {"codes", "split"}, worker.pass = "regular", v \in worker.list,
             "plan" \notin touched[v],
             SamePlan(voucher[v], voucher'[v]), worker'.at = worker.at,
             worker'.read[v].anchor = worker.read[v].anchor
      PROVE  NextAfter(voucher[v], worker.read[v])' > worker'.at
  <2>1. NextAfter(voucher[v], worker.read[v]) > worker.at
    BY <1>2 DEF AnchorsPast, Listing
  <2> QED BY <1>2, <2>1 DEF NextAfter, SamePlan
<1>3. CASE Handler
  <2>1. worker' = worker /\ v \in worker.list
    BY <1>0, <1>3, HandlerMarks
  <2>2. /\ touched[v] \subseteq touched'[v] /\ SamePlan(voucher[v], voucher'[v])
    BY <1>0, <1>3, <2>1, HandlerPlans DEF SameTimes
  <2> QED BY <1>2, <2>1, <2>2
<1>4. CASE Resting
  <2>1. /\ voucher' = voucher /\ SamePlan(voucher[v], voucher[v])
    BY <1>0, <1>4, RestingRows DEF SamePlan
  <2>2. CASE worker' = worker /\ touched' = touched
    BY <1>2, <2>1, <2>2
  <2>3. CASE ReadCodes
    <3>1. /\ worker'.list = worker.list /\ worker'.pass = worker.pass /\ worker.pc = "codes"
          /\ worker'.at = worker.at /\ touched' = touched
          /\ worker'.read = [u \in Vouchers |->
                IF u \in worker.list THEN [worker.read[u] EXCEPT !.codes = voucher[u].codes]
                                     ELSE NoRead]
      BY <1>1, <2>3 DEF ReadCodes, Working, hist, pass
    <3>2. v \in worker.list /\ v \in Vouchers /\ worker.read[v] \in Reading
      BY <1>1, <3>1
    <3>3. worker'.read[v].anchor = worker.read[v].anchor
      BY <3>1, <3>2 DEF Reading
    <3> QED BY <1>2, <2>1, <3>1, <3>2, <3>3
  <2>4. CASE ListExpired
    BY <1>1, <2>4 DEF ListExpired, Listed, Working
  <2>5. CASE ListRegular
    <3> DEFINE due == {u \in Vouchers : RegularDue(voucher[u])}
               read == [u \in Vouchers |-> IF u \in due THEN ReadRegular(voucher[u]) ELSE NoRead]
    <3>1. /\ worker.pc = "list" /\ worker.pass = "regular"
          /\ worker' = [worker EXCEPT !.pc = IF due = {} THEN "pay" ELSE "codes",
                                      !.list = due, !.read = read]
      BY <2>5 DEF ListRegular, Listed
    <3>2. worker'.list = due /\ worker'.read = read /\ worker'.at = worker.at
      BY <1>1, <3>1 DEF Working
    <3>3. v \in Vouchers /\ RegularDue(voucher[v])
      BY <3>2
    <3>4. worker'.read[v] = ReadRegular(voucher[v])
      BY <3>2, <3>3
    <3> HIDE DEF due, read
    <3> DEFINE r == voucher[v]
    <3>5. worker'.read[v].anchor = nextRegularRefundAnchor(r.first, r.last, r.interval, worker.at)
      BY <3>4 DEF ReadRegular
    <3>6. r.first \in Nat \ {0} /\ r.interval \in Nat \ {0} /\ r.last \in Nat
      BY <1>0, <3>3 DEF RegularDue, HasRegular, TypeInv, TypeOK, Row, Planned, PlanOK
    <3>7. r.last <= worker.at
      BY <2>1, <3>1, <3>3, <3>6 DEF Behind
    <3> HIDE DEF r
    <3>8. NextAfter(r, worker'.read[v]) > worker.at
      BY <1>1, <3>5, <3>6, <3>7, AnchorPast DEF NextAfter
    <3> QED BY <2>1, <3>2, <3>8 DEF NextAfter, r
  <2> QED BY <1>0, <1>4, <2>2, <2>3, <2>4, <2>5, RestingListing
<1>5. ASSUME NEW u \in Vouchers,
             \/ SplitExpired(u) \/ SkipExpired(u) \/ SplitRegular(u) \/ SkipRegular(u)
             \/ SplitFails(u)
      PROVE  NextAfter(voucher[v], worker.read[v])' > worker'.at
  <2>1. /\ worker.pc = "split" /\ worker.pass = "regular" /\ worker'.at = worker.at
        /\ v \in worker.list /\ v \in Vouchers \ {u}
    BY <1>0, <1>1, <1>5, SplitLeaves
  <2>2. /\ touched'[v] = touched[v] /\ voucher'[v] = voucher[v]
        /\ worker'.read[v] = worker.read[v]
    BY <1>0, <1>5, <2>1, SplitLeaves
  <2>3. SamePlan(voucher[v], voucher'[v])
    BY <2>2 DEF SamePlan
  <2> QED BY <1>2, <2>1, <2>2, <2>3
<1> QED BY <1>3, <1>4, <1>5, Steps

\* With its turn the time of a voucher is over, if its plan was left alone.
LEMMA TurnServes ==
    ASSUME TypeInv, AnchorsPast, NEW v \in Vouchers,
           SplitRegular(v) \/ SkipRegular(v), "plan" \notin touched[v]
    PROVE  NextAt(voucher[v])' > worker.at
<1>1. worker.pc = "split" /\ v \in worker.list /\ worker.pass = "regular"
  BY SplitLeaves DEF SplitRegular, SkipRegular
<1>2. NextAfter(voucher[v], worker.read[v]) > worker.at
  BY <1>1 DEF AnchorsPast, Listing
<1>3. voucher[v] \in Row /\ voucher \in [Vouchers -> Row]
  BY DEF TypeInv, TypeOK
<1>4. \/ voucher'[v] = RegularRefunded(voucher[v], worker.read[v].anchor)
      \/ voucher'[v] = Advanced(voucher[v], worker.read[v].anchor)
  BY <1>3 DEF SplitRegular, SkipRegular
<1>5. /\ voucher'[v].last = worker.read[v].anchor /\ voucher'[v].first = voucher[v].first
      /\ voucher'[v].interval = voucher[v].interval
  BY <1>3, <1>4 DEF RegularRefunded, Advanced, Row
<1> QED BY <1>2, <1>5 DEF NextAt, NextAfter

\* The half of RegularIsServed that is about safety: from the clock of its pass, or from
\* the pass over what has expired that comes before it, a refund that is due keeps its
\* place until the worker makes it or passes its time over, or until it is not due any
\* more, because the voucher was edited or closed; only a failing statement leaves it for
\* the next pass.  And with its turn its time is over: whether it was paid or not, the
\* next one is after the clock of the pass, so that a pass which comes late serves all
\* the times it missed at once, and the worker cannot go round in the same time for ever.
\* That does not hold of a voucher that was edited while it was listed
\* (refund.go:166-182, 281-386).
THEOREM DueHasItsTurn ==
    Spec => [][\A v \in Vouchers :
                 /\ RegularDue(voucher[v]) /\ DueAhead(v) =>
                       ~RegularDue(voucher[v])' \/ DueAhead(v)' \/ SplitRegular(v)
                         \/ SkipRegular(v) \/ PassedOver(v)
                 /\ (SplitRegular(v) \/ SkipRegular(v)) /\ "plan" \notin touched[v] =>
                       NextAt(voucher[v])' > worker.at]_vars
<1> DEFINE A == \A v \in Vouchers :
                 /\ RegularDue(voucher[v]) /\ DueAhead(v) =>
                       ~RegularDue(voucher[v])' \/ DueAhead(v)' \/ SplitRegular(v)
                         \/ SkipRegular(v) \/ PassedOver(v)
                 /\ (SplitRegular(v) \/ SkipRegular(v)) /\ "plan" \notin touched[v] =>
                       NextAt(voucher[v])' > worker.at
<1>1. Init => Behind /\ AnchorsPast
  BY DEF Init, NoVoucher, Boot, Behind, AnchorsPast, Listing
<1>2. ASSUME TimesInv, AnchorsPast, [Next]_vars PROVE A
  <2>1. TypeInv /\ Unborn
    BY <1>2 DEF TimesInv
  <2>2. ASSUME NEW v \in Vouchers, SplitRegular(v) \/ SkipRegular(v), "plan" \notin touched[v]
        PROVE  NextAt(voucher[v])' > worker.at
    BY <1>2, <2>1, <2>2, TurnServes
  <2> QED BY <1>2, <2>1, <2>2, DueStep
<1> QED BY <1>1, <1>2, TimesInit, TimesStep, BehindKept, AnchorsPastKept, PTL DEF Spec

-----------------------------------------------------------------------------
(* What the worker sleeps past                                             *)

\* What the pass has looked at is not in the future, nor after the clock of a pass that
\* has taken it.
LooksBack ==
    \A v \in Vouchers :
        /\ looked[v].expired <= now /\ looked[v].regular <= now
        /\ worker.pass = "regular" /\ worker.pc # "clock" => looked[v].regular <= worker.at

\* The plan of a listed voucher was not changed without a signal that waits or is on
\* its way.
PlanTold ==
    Listing => \A v \in worker.list :
                  "plan" \in touched[v] => wake \/ v \in UNION unsent

\* Nothing has become of v since the pass began that the worker would not be told of.
Known(v) == ~wake /\ v \notin missed /\ v \notin UNION unsent

\* What was due when the pass looked at it has its turn ahead, or is dealt with.
Settled ==
    \A v \in Vouchers : Known(v) =>
        /\ ExpiredWithBalance(voucher[v]) =>
              ExpiryAhead(v) \/ Deadline(voucher[v]) > looked[v].expired
        /\ RegularDue(voucher[v]) =>
              DueAhead(v) \/ NextAt(voucher[v]) > looked[v].regular

\* A handler leaves what is known, of everything but what it changes.
Telling(u) ==
    /\ wake' = wake /\ now' = now
    /\ \/ missed' = missed \cup {u} /\ unsent' = unsent
       \/ missed' = missed /\ unsent' = unsent \cup {{u}}
    /\ \A v \in Vouchers \ {u} :
          voucher'[v] = voucher[v] /\ looked'[v] = looked[v] /\ touched'[v] = touched[v]
    /\ looked'[u] = NoLook
    /\ "plan" \in touched'[u] => "plan" \in touched[u] \/ u \in UNION unsent'

\* Each handler does so: with a signal, or without one.
LEMMA HandlerTelling ==
    ASSUME TypeInv, Handler
    PROVE  \/ \E p \in Requests : \E batch \in SUBSET Vouchers : Create(batch, p)
           \/ \E u \in Vouchers : Telling(u) \/ Pays(u)
<1>1. ASSUME NEW u \in Vouchers, NEW how, Touch(u, how), "plan" \notin how \/ {u} \in unsent',
             NEW r, voucher' = [voucher EXCEPT ![u] = r]
      PROVE  /\ \A v \in Vouchers \ {u} : /\ voucher'[v] = voucher[v]
                                           /\ looked'[v] = looked[v]
                                           /\ touched'[v] = touched[v]
             /\ looked'[u] = NoLook
             /\ "plan" \in touched'[u] => "plan" \in touched[u] \/ u \in UNION unsent'
  BY <1>1 DEF Touch, TypeInv, TypeOK
<1>2. ASSUME NEW p \in Requests, NEW u \in Vouchers, Edit(u, p)
      PROVE  Telling(u)
  BY <1>1, <1>2 DEF Edit, Telling
<1>3. ASSUME NEW u \in Vouchers, NEW msat \in Deposits, Fund(u, msat)
      PROVE  Telling(u)
  BY <1>1, <1>3 DEF Fund, Deposit, Telling
<1>4. ASSUME NEW u \in Vouchers, NEW msat \in Deposits, TransferIn(u, msat)
      PROVE  Telling(u)
  BY <1>1, <1>4 DEF TransferIn, Deposit, Quietly, Telling
<1>5. ASSUME NEW u \in Vouchers, NEW msat \in Amounts, Redeem(u, msat) \/ TransferOut(u, msat)
      PROVE  Telling(u)
  BY <1>1, <1>5 DEF Redeem, TransferOut, Debit, Quietly, Telling
<1>6. ASSUME NEW u \in Vouchers, Restore(u)
      PROVE  Telling(u)
  BY <1>1, <1>6 DEF Restore, Quietly, Telling
<1> QED BY <1>2, <1>3, <1>4, <1>5, <1>6 DEF Handler

\* What is known of a voucher after a handler was known before, and has not changed.
LEMMA HandlerKnown ==
    ASSUME TypeInv, Handler, NEW v \in Vouchers, Known(v)'
    PROVE  /\ Known(v) /\ voucher'[v] = voucher[v] /\ looked'[v] = looked[v]
           /\ "plan" \in touched'[v] => "plan" \in touched[v]
<1>1. ASSUME NEW p \in Requests, NEW batch \in SUBSET Vouchers, Create(batch, p)
      PROVE  /\ Known(v) /\ voucher'[v] = voucher[v] /\ looked'[v] = looked[v]
             /\ touched' = touched
  <2>1. /\ wake' = wake /\ missed' = missed /\ unsent' = unsent \cup {batch}
        /\ touched' = touched
    BY <1>1 DEF Create
  <2>2. v \notin batch
    BY <2>1 DEF Known
  <2> QED BY <1>1, <2>1, <2>2 DEF Create, Known
<1>2. ASSUME NEW u \in Vouchers, Telling(u)
      PROVE  /\ Known(v) /\ voucher'[v] = voucher[v] /\ looked'[v] = looked[v]
             /\ touched'[v] = touched[v]
  <2>1. u # v
    BY <1>2 DEF Telling, Known
  <2> QED BY <1>2, <2>1 DEF Telling, Known
<1>3. ASSUME NEW u \in Vouchers, Pays(u)
      PROVE  /\ Known(v) /\ voucher'[v] = voucher[v] /\ looked'[v] = looked[v]
             /\ touched' = touched
  BY <1>3 DEF Pays, hist, pass, Known
<1> QED BY <1>1, <1>2, <1>3, HandlerTelling

\* Nothing becomes known but by a pass that begins anew.
LEMMA KnownBefore ==
    ASSUME TypeInv, ClockRead, [Next]_vars, NEW v \in Vouchers, Known(v)', ~ListExpired
    PROVE  Known(v) \/ (ExpiryAhead(v)' /\ DueAhead(v)')
<1>1. worker \in Working
  BY DEF TypeInv, TypeOK
<1>2. CASE Handler
  BY <1>2, HandlerKnown
<1>3. CASE NoSleep \/ WakeUp
  <2>1. worker' = [worker EXCEPT !.pc = "list", !.until = 0] /\ worker.pass = "expired"
    BY <1>3 DEF NoSleep, WakeUp, ClockRead
  <2> QED BY <1>1, <2>1 DEF Working, ExpiryAhead, DueAhead
<1>4. CASE Crash
  BY <1>4 DEF Crash, Boot, ExpiryAhead, DueAhead
<1>5. CASE Signals
  BY <1>5 DEF Signals, Signal, Known
<1>6. CASE \/ ReadClock \/ ListRegular \/ ReadCodes \/ Pay \/ NextRefundAt \/ Sleep
           \/ Tick \/ UNCHANGED vars
  BY <1>6 DEF ReadClock, ListRegular, Listed, ReadCodes, Pay, NextRefundAt, Sleep, Tick, vars,
              hist, pass, Known
<1>7. CASE ListFails \/ NextRefundAtFails
  BY <1>7 DEF ListFails, NextRefundAtFails, Known
<1>8. CASE \E u \in Vouchers : \/ SplitExpired(u) \/ SkipExpired(u) \/ SplitRegular(u)
                               \/ SkipRegular(u) \/ SplitFails(u)
  BY <1>8 DEF SplitExpired, SkipExpired, SplitRegular, SkipRegular, SplitFails, NextVoucher, Known
<1> QED BY <1>2, <1>3, <1>4, <1>5, <1>6, <1>7, <1>8, Steps DEF Resting

\* What the worker has looked at stays, but for what a new look, a failure or a new pass
\* makes of it.
LEMMA LookedStays ==
    ASSUME TypeInv, [Next]_vars, NEW v \in Vouchers, ~ListExpired, ~ReadClock
    PROVE  looked'[v] \in {looked[v], NoLook}
<1>1. CASE Handler
  <2>1. ASSUME NEW p \in Requests, NEW batch \in SUBSET Vouchers, Create(batch, p)
        PROVE  looked'[v] \in {looked[v], NoLook}
    BY <2>1 DEF Create
  <2>2. ASSUME NEW u \in Vouchers, Telling(u)
        PROVE  looked'[v] \in {looked[v], NoLook}
    BY <2>2 DEF Telling
  <2>3. ASSUME NEW u \in Vouchers, Pays(u)
        PROVE  looked' = looked
    BY <2>3 DEF Pays, hist, pass
  <2> QED BY <1>1, <2>1, <2>2, <2>3, HandlerTelling
<1>2. CASE \/ Signals \/ ListRegular \/ ReadCodes \/ Pay \/ NextRefundAt \/ NoSleep \/ Sleep
           \/ WakeUp \/ ListFails \/ NextRefundAtFails \/ Crash \/ Tick \/ UNCHANGED vars
  BY <1>2 DEF Signals, Signal, ListRegular, ReadCodes, Pay, NextRefundAt, NoSleep, Sleep, WakeUp,
              Forgotten, ListFails, NextRefundAtFails, Crash, Tick, vars, hist, pass
<1>3. CASE \E u \in Vouchers : \/ SplitExpired(u) \/ SkipExpired(u) \/ SplitRegular(u)
                               \/ SkipRegular(u) \/ SplitFails(u)
  BY <1>3 DEF SplitExpired, SkipExpired, SplitRegular, SkipRegular, SplitFails, NextVoucher
<1> QED BY <1>1, <1>2, <1>3, Steps DEF Resting

\* LooksBack is inductive: what is looked at has the time of the look.
LEMMA LooksBackKept == TypeInv /\ ClockRead /\ LooksBack /\ [Next]_vars => LooksBack'
<1> SUFFICES ASSUME TypeInv, ClockRead, LooksBack, [Next]_vars, NEW v \in Vouchers
             PROVE  /\ looked'[v].expired <= now' /\ looked'[v].regular <= now'
                    /\ worker'.pass = "regular" /\ worker'.pc # "clock" =>
                          looked'[v].regular <= worker'.at
  BY DEF LooksBack
<1>1. /\ worker \in Working /\ now \in Nat /\ now' \in {now, now + 1} /\ worker.at \in Nat
      /\ looked[v].expired \in Nat /\ looked[v].regular \in Nat
  BY WorkerFields, RowSteps DEF TypeInv, TypeOK, Looks
<1>2. CASE ListExpired
  <2>1. looked'[v] = [NoLook EXCEPT !.expired = now] /\ now' = now
    BY <1>2 DEF ListExpired, Listed, Begun
  <2>2. looked'[v].expired = now /\ looked'[v].regular = 0
    BY <2>1 DEF NoLook
  <2>3. worker'.pass = "expired"
    BY <1>1, <1>2 DEF ListExpired, Listed, Working
  <2> QED BY <1>1, <2>1, <2>2, <2>3
<1>3. CASE ReadClock
  <2>1. worker'.at = now /\ now' = now
    BY <1>1, <1>3 DEF ReadClock, Working
  <2>2. looked'[v] = NoLook \/ looked'[v] = [looked[v] EXCEPT !.regular = now]
    BY <1>3 DEF ReadClock
  <2>3. looked'[v].expired <= now /\ looked'[v].regular <= now
    BY <1>1, <2>2 DEF NoLook, LooksBack, Looks, TypeInv, TypeOK
  <2> QED BY <2>1, <2>3
<1>4. CASE ~ListExpired /\ ~ReadClock
  <2>1. looked'[v] \in {looked[v], NoLook}
    BY <1>4, LookedStays
  <2>2. looked'[v].expired <= now' /\ looked'[v].regular <= now'
    BY <1>1, <2>1 DEF NoLook, LooksBack
  <2>3. ASSUME worker'.pass = "regular", worker'.pc # "clock"
        PROVE  /\ worker'.at = worker.at \/ looked'[v] = NoLook
               /\ (worker.pass = "regular" /\ worker.pc # "clock") \/ looked'[v] = NoLook
    <3>1. CASE Handler
      BY <2>3, <3>1, HandlerMoves DEF Create, Edit, Moves, Pays
    <3>2. CASE Pay
      <4>1. worker.pass = "regular" \/ worker' = [worker EXCEPT !.pc = "clock", !.pass = "regular"]
        BY <1>1, <3>2 DEF Pay, Working
      <4>2. worker' = [worker EXCEPT !.pc = "clock", !.pass = "regular"]
              \/ worker' = [worker EXCEPT !.pc = "next", !.pass = "expired", !.at = 0]
        BY <3>2 DEF Pay
      <4> QED BY <1>1, <2>3, <4>2 DEF Working
    <3>3. CASE ListFails
      BY <3>3 DEF ListFails
    <3>4. CASE ListRegular
      BY <1>1, <3>4 DEF ListRegular, Listed, Working
    <3>5. CASE ReadCodes
      BY <1>1, <2>3, <3>5 DEF ReadCodes, Working
    <3>6. CASE NextRefundAt \/ NextRefundAtFails
      <4>1. worker.pc = "next" /\ \E t : worker' = [worker EXCEPT !.pc = "doze", !.until = t]
        BY <3>6 DEF NextRefundAt, NextRefundAtFails
      <4> QED BY <1>1, <2>3, <4>1 DEF Working
    <3>7. CASE NoSleep \/ WakeUp \/ Crash
      BY <3>7 DEF NoSleep, WakeUp, Crash, Forgotten
    <3>8. CASE Sleep
      <4>1. worker.pc = "doze" /\ \E t : worker' = [worker EXCEPT !.pc = "asleep", !.until = t]
        BY <3>8 DEF Sleep
      <4> QED BY <1>1, <2>3, <4>1 DEF Working
    <3>9. CASE Signals \/ Tick \/ UNCHANGED vars
      BY <2>3, <3>9 DEF Signals, Signal, Tick, vars
    <3>10. CASE \E u \in Vouchers : \/ SplitExpired(u) \/ SkipExpired(u) \/ SplitRegular(u)
                                    \/ SkipRegular(u) \/ SplitFails(u)
      BY <2>3, <3>10, SplitLeaves
    <3> QED BY <1>4, <3>1, <3>2, <3>3, <3>4, <3>5, <3>6, <3>7, <3>8, <3>9, <3>10, Steps DEF Resting
  <2>4. worker'.at \in Nat
    BY StepType, WorkerFields DEF TypeInv, TypeOK, Working
  <2> QED BY <1>1, <2>1, <2>2, <2>3, <2>4 DEF NoLook, LooksBack
<1> QED BY <1>2, <1>3, <1>4

\* PlanTold is inductive: an edit is to be signalled, and a signal waits for the sleep.
LEMMA PlanToldKept == TypeInv /\ Unborn /\ PlanTold /\ [Next]_vars => PlanTold'
<1> SUFFICES ASSUME TypeInv, Unborn, PlanTold, [Next]_vars,
                    worker'.pc \in {"codes", "split"}, NEW v \in worker'.list,
                    "plan" \in touched'[v]
             PROVE  wake' \/ v \in UNION unsent'
  BY DEF PlanTold, Listing
<1>1. worker.list \subseteq Vouchers /\ worker \in Working
  BY WorkerFields DEF TypeInv, TypeOK
<1>2. ASSUME Listing, v \in worker.list, "plan" \in touched[v]
      PROVE  wake \/ v \in UNION unsent
  BY <1>2 DEF PlanTold
<1>3. CASE Handler
  <2>1. worker' = worker /\ v \in worker.list /\ Listing
    BY <1>3, HandlerMarks DEF Listing
  <2>2. ASSUME NEW p \in Requests, NEW batch \in SUBSET Vouchers, Create(batch, p)
        PROVE  wake' \/ v \in UNION unsent'
    BY <1>2, <2>1, <2>2 DEF Create
  <2>3. ASSUME NEW u \in Vouchers, Telling(u)
        PROVE  wake' \/ v \in UNION unsent'
    BY <1>1, <1>2, <2>1, <2>3 DEF Telling
  <2>4. ASSUME NEW u \in Vouchers, Pays(u)
        PROVE  wake' \/ v \in UNION unsent'
    BY <1>2, <2>1, <2>4 DEF Pays, hist
  <2> QED BY <1>3, <2>2, <2>3, <2>4, HandlerTelling
<1>4. CASE Resting
  <2>1. CASE Signals
    BY <2>1 DEF Signals, Signal
  <2>2. CASE worker' = worker /\ touched' = touched /\ ~Signals
    <3>1. worker.pc \in {"codes", "split"} /\ v \in worker.list
      BY <2>2
    <3>2. ~WakeUp /\ ~Crash
      BY <3>1, <2>2 DEF WakeUp, Crash, Boot
    <3>3. wake' = wake /\ unsent' = unsent
      BY <1>4, <2>2, <3>2 DEF Resting, ListExpired, Listed, ReadClock, ListRegular, ReadCodes, Pay,
         NextRefundAt, NoSleep, Sleep, ListFails, NextRefundAtFails, Tick, vars
    <3> QED BY <1>2, <2>2, <3>1, <3>3 DEF Listing
  <2>3. CASE ReadCodes
    <3>1. /\ worker'.list = worker.list /\ worker.pc = "codes" /\ touched' = touched
          /\ wake' = wake /\ unsent' = unsent
      BY <1>1, <2>3 DEF ReadCodes, Working, hist
    <3> QED BY <1>2, <3>1 DEF Listing
  <2>4. CASE ListExpired \/ ListRegular
    <3>1. touched' = [u \in Vouchers |-> {}]
      BY <2>4 DEF ListExpired, ListRegular, Listed
    <3>2. v \in Vouchers
      BY StepType, WorkerFields DEF TypeInv, TypeOK, Working
    <3> QED BY <3>1, <3>2
  <2> QED BY <1>4, <2>1, <2>2, <2>3, <2>4, RestingListing
<1>5. ASSUME NEW u \in Vouchers,
             \/ SplitExpired(u) \/ SkipExpired(u) \/ SplitRegular(u) \/ SkipRegular(u)
             \/ SplitFails(u)
      PROVE  wake' \/ v \in UNION unsent'
  <2>1. worker.pc = "split" /\ v \in worker.list /\ v \in Vouchers \ {u}
    BY <1>1, <1>5, SplitLeaves
  <2>2. touched'[v] = touched[v]
    BY <1>5, <2>1, SplitLeaves
  <2>3. wake' = wake /\ unsent' = unsent
    BY <1>5 DEF SplitExpired, SkipExpired, SplitRegular, SkipRegular, SplitFails, NextVoucher
  <2> QED BY <1>2, <2>1, <2>2, <2>3 DEF Listing
<1> QED BY <1>3, <1>4, <1>5, Steps

\* Settled is inductive.
LEMMA SettledKept ==
    /\ TimesInv /\ AnchorsPast /\ LooksBack /\ PlanTold /\ Settled
    /\ [Next]_vars
    => Settled'
<1> SUFFICES ASSUME TimesInv, AnchorsPast, LooksBack, PlanTold, Settled, [Next]_vars,
                    NEW v \in Vouchers, Known(v)'
             PROVE  /\ ExpiredWithBalance(voucher[v])' =>
                          ExpiryAhead(v)' \/ Deadline(voucher[v])' > looked'[v].expired
                    /\ RegularDue(voucher[v])' =>
                          DueAhead(v)' \/ NextAt(voucher[v])' > looked'[v].regular
  BY DEF Settled, ExpiredWithBalance, RegularDue, HasRegular, Expired, HasDeadline, Deadline, NextAt
<1>0. TypeInv /\ Unborn /\ ClockRead /\ TypeInv'
  BY StepType DEF TimesInv
<1>1. /\ now \in Nat /\ now' \in {now, now + 1} /\ worker.at \in Nat
      /\ voucher[v] \in Row /\ voucher'[v] \in Row
      /\ looked[v].expired \in Nat /\ looked[v].regular \in Nat
      /\ looked[v].expired <= now /\ looked[v].regular <= now
  BY <1>0, WorkerFields, RowSteps DEF TypeInv, TypeOK, Looks, LooksBack
<1>2. /\ Deadline(voucher[v]) \in Int /\ NextAt(voucher[v]) \in Int
      /\ Deadline(voucher'[v]) \in Int /\ NextAt(voucher'[v]) \in Int
  BY <1>1 DEF Deadline, NextAt, Row
<1>3. ~ListFails /\ ~SplitFails(v)
  BY DEF ListFails, SplitFails, Known
<1>4. /\ looked'[v].expired \in {looked[v].expired, 0} \/ ListExpired
      /\ looked'[v].regular \in {looked[v].regular, 0} \/ ReadClock
  <2>1. CASE ListExpired
    BY <2>1 DEF ListExpired, Begun, NoLook
  <2>2. CASE ReadClock
    BY <1>0, <2>2 DEF ReadClock, NoLook, TypeInv, TypeOK, Looks
  <2>3. CASE ~ListExpired /\ ~ReadClock
    BY <1>0, <2>3, LookedStays DEF NoLook
  <2> QED BY <2>1, <2>2, <2>3
\* What of the row a step that v is known after may change.
<1>5. \/ voucher'[v] = voucher[v]
      \/ voucher'[v].bal = 0 /\ ~voucher'[v].active
      \/ /\ SplitRegular(v) \/ SkipRegular(v)
         /\ now' = now /\ SamePlan(voucher[v], voucher'[v])
         /\ \/ voucher'[v].bal = 0
            \/ /\ voucher'[v].bal = voucher[v].bal
               /\ voucher'[v].updated = voucher[v].updated
               /\ voucher'[v].created = voucher[v].created
  <2>1. CASE Handler
    BY <1>0, <2>1, HandlerKnown
  <2>2. CASE Resting
    BY <1>0, <2>2, RestingRows
  <2>3. ASSUME NEW u \in Vouchers, u # v,
               \/ SplitExpired(u) \/ SkipExpired(u) \/ SplitRegular(u) \/ SkipRegular(u)
               \/ SplitFails(u)
        PROVE  voucher'[v] = voucher[v]
    BY <1>0, <2>3, SplitLeaves
  <2>4. CASE SplitExpired(v)
    <3>1. voucher'[v] = Closed(voucher[v])
      BY <1>0, <2>4 DEF SplitExpired, TypeInv, TypeOK
    <3> QED BY <1>1, <3>1 DEF Closed, Row
  <2>5. CASE SkipExpired(v)
    BY <2>5 DEF SkipExpired
  <2>6. CASE SplitRegular(v)
    <3>1. voucher'[v] = RegularRefunded(voucher[v], worker.read[v].anchor)
      BY <1>0, <2>6 DEF SplitRegular, TypeInv, TypeOK
    <3>2. now' = now
      BY <2>6 DEF SplitRegular, NextVoucher
    <3> QED BY <1>1, <2>6, <3>1, <3>2 DEF RegularRefunded, SamePlan, Row
  <2>7. CASE SkipRegular(v)
    <3>1. voucher'[v] = Advanced(voucher[v], worker.read[v].anchor)
      BY <1>0, <2>7 DEF SkipRegular, TypeInv, TypeOK
    <3>2. now' = now
      BY <2>7 DEF SkipRegular, NextVoucher
    <3> QED BY <1>1, <2>7, <3>1, <3>2 DEF Advanced, SamePlan, Row
  <2> QED BY <1>3, <2>1, <2>2, <2>3, <2>4, <2>5, <2>6, <2>7, Steps
<1>6. ASSUME ExpiredWithBalance(voucher[v])', ~ExpiryAhead(v)'
      PROVE  Deadline(voucher[v])' > looked'[v].expired
  <2>1. /\ voucher'[v].bal > 0 /\ HasDeadline(voucher'[v]) /\ Deadline(voucher'[v]) <= now'
    BY <1>6 DEF ExpiredWithBalance, Expired, HasDeadline, Deadline
  <2>2. /\ Deadline(voucher'[v]) = Deadline(voucher[v])
        /\ HasDeadline(voucher[v]) /\ voucher[v].bal > 0
    <3>1. CASE voucher'[v] = voucher[v]
      BY <2>1, <3>1
    <3>2. CASE /\ SamePlan(voucher[v], voucher'[v])
               /\ voucher'[v].bal = voucher[v].bal
               /\ voucher'[v].updated = voucher[v].updated
               /\ voucher'[v].created = voucher[v].created
      BY <2>1, <3>2 DEF SamePlan, HasDeadline, Deadline
    <3> QED BY <1>5, <2>1, <3>1, <3>2
  <2>3. CASE ExpiredWithBalance(voucher[v])
    <3>1. ~ExpiryAhead(v)
      BY <1>0, <1>3, <1>6, <2>3, ExpiryStep
    <3>2. ~ListExpired
      BY <3>1 DEF ListExpired, ExpiryAhead
    <3>3. Deadline(voucher[v]) > looked[v].expired
      BY <1>0, <1>6, <2>3, <3>1, <3>2, KnownBefore DEF Settled
    <3>4. looked'[v].expired <= looked[v].expired
      BY <1>1, <1>4, <3>2
    <3>5. looked'[v].expired \in Nat
      BY <1>1, <1>4, <3>2
    <3>6. Deadline(voucher'[v]) > looked'[v].expired
      BY <1>1, <1>2, <2>2, <3>3, <3>4, <3>5
    <3> QED BY <3>6 DEF Deadline
  <2>4. CASE ~ExpiredWithBalance(voucher[v])
    <3>1. Deadline(voucher[v]) > now /\ now' = now + 1
      BY <1>1, <1>2, <2>1, <2>2, <2>4 DEF ExpiredWithBalance, Expired
    <3>2. ~ListExpired
      BY <1>1, <3>1 DEF ListExpired, Listed
    <3>3. looked'[v].expired <= now /\ looked'[v].expired \in Nat
      BY <1>1, <1>4, <3>2
    <3>4. Deadline(voucher'[v]) > looked'[v].expired
      BY <1>1, <1>2, <2>2, <3>1, <3>3
    <3> QED BY <3>4 DEF Deadline
  <2> QED BY <2>3, <2>4
<1>7. ASSUME RegularDue(voucher[v])', ~DueAhead(v)'
      PROVE  NextAt(voucher[v])' > looked'[v].regular
  <2>1. /\ HasRegular(voucher'[v]) /\ voucher'[v].last >= 0 /\ NextAt(voucher'[v]) <= now'
        /\ ~(HasDeadline(voucher'[v]) /\ Deadline(voucher'[v]) <= now')
    BY <1>7 DEF RegularDue, HasRegular, Expired, HasDeadline, Deadline, NextAt
  <2>2. CASE SplitRegular(v) \/ SkipRegular(v)
    <3>1. /\ worker.pc = "split" /\ worker.pass = "regular" /\ v \in worker.list
      BY <1>0, <2>2, SplitLeaves DEF SplitRegular, SkipRegular
    <3>2. wake' = wake /\ unsent' = unsent /\ looked' = looked
      BY <2>2 DEF SplitRegular, SkipRegular, NextVoucher
    <3>3. "plan" \notin touched[v]
      BY <3>1, <3>2 DEF PlanTold, Listing, Known
    <3>4. NextAt(voucher[v])' > worker.at
      BY <1>0, <2>2, <3>3, TurnServes
    <3>5. looked[v].regular <= worker.at
      BY <3>1 DEF LooksBack
    <3>6. NextAt(voucher'[v]) > worker.at
      BY <3>4 DEF NextAt
    <3>7. NextAt(voucher'[v]) > looked'[v].regular
      BY <1>1, <1>2, <3>2, <3>5, <3>6
    <3> QED BY <3>7 DEF NextAt
  <2>3. CASE ~SplitRegular(v) /\ ~SkipRegular(v)
    <3>1. voucher'[v] = voucher[v]
      BY <1>5, <2>1, <2>3 DEF HasRegular
    <3>2. CASE RegularDue(voucher[v])
      <4>1. ~DueAhead(v)
        BY <1>0, <1>3, <1>7, <2>3, <3>2, DueStep DEF PassedOver
      <4>2. ~ListExpired /\ ~ReadClock
        BY <4>1 DEF ListExpired, ReadClock, DueAhead
      <4>3. NextAt(voucher[v]) > looked[v].regular
        BY <1>0, <1>7, <3>2, <4>1, <4>2, KnownBefore DEF Settled
      <4>4. looked'[v].regular <= looked[v].regular /\ looked'[v].regular \in Nat
        BY <1>1, <1>4, <4>2
      <4>5. NextAt(voucher'[v]) > looked'[v].regular
        BY <1>1, <1>2, <3>1, <4>3, <4>4
      <4> QED BY <4>5 DEF NextAt
    <3>3. CASE ~RegularDue(voucher[v])
      <4>1. NextAt(voucher[v]) > now /\ now' = now + 1
        BY <1>1, <1>2, <2>1, <3>1, <3>3 DEF RegularDue, Expired
      <4>2. ~ReadClock
        BY <1>1, <4>1 DEF ReadClock
      <4>3. looked'[v].regular <= now /\ looked'[v].regular \in Nat
        BY <1>1, <1>4, <4>2
      <4>4. NextAt(voucher'[v]) > looked'[v].regular
        BY <1>1, <1>2, <3>1, <4>1, <4>3
      <4> QED BY <4>4 DEF NextAt
    <3> QED BY <3>2, <3>3
  <2> QED BY <2>2, <2>3
<1> QED BY <1>6, <1>7

\* What the worker oversleeps came due in the course of its pass: what was due when it
\* looked had its turn, what comes due later ends the sleep, and a create, an edit or a
\* deposit in between has its signal, which is buffered and sent after the commit
\* (handlers.go:240-245, refund.go:34-57, db.go:919).
THEOREM Overslept == Spec => []NothingOverslept
<1> DEFINE Inv == TimesInv /\ Rested /\ Behind /\ AnchorsPast /\ LooksBack /\ PlanTold /\ Settled
<1>1. Init => Inv
  <2> SUFFICES ASSUME Init PROVE Inv
    OBVIOUS
  <2>1. Rested /\ Behind /\ AnchorsPast /\ PlanTold
    BY DEF Init, NoVoucher, Boot, Rested, Behind, AnchorsPast, PlanTold, Listing
  <2>2. LooksBack
    BY DEF Init, Boot, NoLook, LooksBack
  <2>3. \A v \in Vouchers : ~ExpiredWithBalance(voucher[v]) /\ ~RegularDue(voucher[v])
    BY DEF Init, NoVoucher, ExpiredWithBalance, RegularDue, HasRegular
  <2> QED BY <2>1, <2>2, <2>3, TimesInit DEF Settled
<1>2. Inv /\ [Next]_vars => Inv'
  <2>1. TimesInv => TypeInv /\ ClockRead /\ Unborn
    BY DEF TimesInv
  <2> QED BY <2>1, TimesStep, RestedKept, BehindKept, AnchorsPastKept, LooksBackKept,
             PlanToldKept, SettledKept
<1>3. Inv => NothingOverslept
  <2> SUFFICES ASSUME Inv, worker.pc = "asleep", ~wake, NEW v \in Vouchers \ UNION unsent
               PROVE  /\ v \notin quiet =>
                            \A t \in NextTimes(voucher[v]) : t > now => worker.until <= t
                      /\ v \notin missed =>
                            /\ ExpiredWithBalance(voucher[v]) =>
                                  Deadline(voucher[v]) > looked[v].expired
                            /\ RegularDue(voucher[v]) => NextAt(voucher[v]) > looked[v].regular
    BY DEF NothingOverslept
  <2>1. ~ExpiryAhead(v) /\ ~DueAhead(v)
    BY DEF ExpiryAhead, DueAhead
  <2> QED BY <2>1 DEF Rested, Settled, Known
<1> HIDE DEF Inv
<1> QED BY <1>1, <1>2, <1>3, PTL DEF Spec
=============================================================================
