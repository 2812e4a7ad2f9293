----------------------------- MODULE RefundProofs -----------------------------
(***************************************************************************)
(* The refund worker, for any vouchers, refund codes, fees, quotes and     *)
(* crashes.  What makes the invariant inductive is that a row is changed   *)
(* only by the worker, which knows what it has on its list (ListOK) and in *)
(* its hands (CurrentOK): a list that was read once stays right until its  *)
(* rows have been paid, one after the other.  Up to the first crash every  *)
(* payment is booked or about to be, for no more than its fee (MarginOK).  *)
(* Then the books: one number for each row (RowNet), and for each step     *)
(* what it changes of the sums of these and of the balances.  Then that a  *)
(* row is a payout as Payout has it, for every step; and last, that the    *)
(* lock follows payRefund and that a pass comes to its end.                *)
(***************************************************************************)
EXTENDS Refund, Sums

Workers(ids) == [pc : WorkerPC, pass : {"expired", "regular"}, seen : Nat,
                 list : SUBSET Vouchers, todo : SUBSET ids, at : {0} \cup ids]

\* payRefund has marked its row, has a row that is not settled, or has yet to let go
\* of the lock.
Sending == {"send", "sent", "failed"}
Paying == {"parse", "mark"} \cup Sending
Busy == Paying \cup {"release"}

RowOK(i) ==
    /\ ~rows[i].refunded => rows[i].fee >= 0
    /\ rows[i].refunded /\ rows[i].amount > 0 => payment[i].st # "none"
    /\ rows[i].inFlight =>
         /\ ~rows[i].refunded /\ rows[i].keyed
         /\ worker.pc = "boot" \/ (i = worker.at /\ worker.pc \in Sending)

\* What the worker has read of the rows on its list is still so.
ListOK ==
    /\ worker.pc = "reprice" => \A i \in worker.todo : Abandoned(rows[i])
    /\ worker.pc \in {"pay"} \cup Busy =>
         \A i \in worker.todo : i # worker.at /\ Pending(rows[i])

CurrentOK ==
    /\ worker.pc \in Busy <=> worker.at # 0
    /\ worker.pc \in Paying =>
         ~rows[worker.at].refunded /\ rows[worker.at].retries < MaxRetries
    /\ worker.pc = "sent" => payment[worker.at].st # "none"

RedeemOK == redeem.st = "debited" => redeem.voucher \in Vouchers

\* Until the server first stops, whatever has been paid is booked or about to be.
MarginOK ==
    crashes = 0 =>
        /\ \A i \in DOMAIN rows :
             /\ rows[i].fee >= 0
             /\ payment[i].st # "none" =>
                  rows[i].refunded \/ (worker.pc = "sent" /\ i = worker.at)
        /\ worker.pc \in {"mark", "send"} => worker.seen <= rows[worker.at].fee
        /\ worker.pc = "sent" => payment[worker.at].fee <= rows[worker.at].fee

IInv ==
    /\ TypeOK
    /\ \A i \in DOMAIN rows : RowOK(i)
    /\ ListOK
    /\ CurrentOK
    /\ RedeemOK
    /\ MarginOK

-----------------------------------------------------------------------------
(* Rows and their types                                                    *)

\* The parts of TypeOK, each for itself.
LEMMA TypeParts ==
    ASSUME TypeOK
    PROVE  /\ voucher \in [Vouchers -> VoucherRow]
           /\ rows \in Seq(RefundTx) /\ payment \in Seq(Payment)
           /\ Len(rows) \in Nat /\ DOMAIN rows = 1 .. Len(rows) /\ DOMAIN payment = DOMAIN rows
           /\ \A i \in DOMAIN rows : rows[i] \in RefundTx /\ payment[i] \in Payment
           /\ wallet \in Nat /\ crashes \in Nat /\ dropped \in Nat /\ minFee \in Nat
           /\ worker \in Workers(DOMAIN rows)
BY RefundAssumption DEF TypeOK, Workers

\* A change of one row leaves the list of rows as long as it is.
LEMMA OneRow ==
    ASSUME NEW S, NEW s, s \in Seq(S), NEW t, NEW i, NEW r, i \in DOMAIN s, r \in S,
           t = [s EXCEPT ![i] = r]
    PROVE  /\ t \in Seq(S) /\ Len(t) = Len(s) /\ DOMAIN t = DOMAIN s
           /\ t[i] = r /\ \A j \in DOMAIN s : j # i => t[j] = s[j]
OBVIOUS

\* Nor does one of each row.
LEMMA EachRow ==
    ASSUME NEW S, NEW s, s \in Seq(S), NEW t, t \in [DOMAIN s -> S]
    PROVE  t \in Seq(S) /\ Len(t) = Len(s) /\ DOMAIN t = DOMAIN s
OBVIOUS

\* The fee of a refund, today.
LEMMA RefundFee ==
    ASSUME TypeOK, NEW gross \in Nat
    PROVE  Fee(gross) \in Nat
<1>1. minFee \in Nat /\ RedeemFeeBPS \in Nat
  BY TypeParts, MoneyAssumption
<1> QED BY <1>1, FeeNat DEF Fee

\* A number is what division rounds it to, and the remainder.
LEMMA DivMod ==
    ASSUME NEW a \in Nat, NEW n \in Nat \ {0}
    PROVE  a % n \in Nat /\ (a \div n) * n \in Nat /\ (a \div n) * n + (a % n) = a
<1>1. a \div n \in Nat /\ a % n \in Nat /\ n * (a \div n) + (a % n) = a
  OBVIOUS
<1> DEFINE q == a \div n
<1>2. q * n = n * q /\ n * q \in Nat
  <2>1. q \in Nat
    BY <1>1
  <2> HIDE DEF q
  <2> QED BY <2>1
<1> QED BY <1>1, <1>2

\* What is not below the minimum falls into an amount, a fee and dust.
LEMMA PricedOK ==
    ASSUME NEW gross \in Nat, NEW fee \in Nat, ~BelowMin(gross, fee)
    PROVE  /\ Priced(gross, fee).amount \in Nat /\ Priced(gross, fee).dust \in Nat
           /\ Priced(gross, fee).fee = fee
           /\ Priced(gross, fee).amount + Priced(gross, fee).dust + fee = gross
<1> DEFINE net == gross - fee
<1>1. net \in Nat /\ Sat \in Nat \ {0}
  BY MoneyAssumption DEF BelowMin
<1>2. net % Sat \in Nat /\ (net \div Sat) * Sat \in Nat /\ (net \div Sat) * Sat + (net % Sat) = net
  <2> HIDE DEF net
  <2> QED BY <1>1, DivMod
<1>3. /\ Priced(gross, fee).amount = (net \div Sat) * Sat
      /\ Priced(gross, fee).dust = net % Sat /\ Priced(gross, fee).fee = fee
  BY DEF Priced, SatRound
<1>4. net + fee = gross
  OBVIOUS
<1> HIDE DEF net
<1> QED BY <1>1, <1>2, <1>3, <1>4

\* A new row explains what it was made for.
LEMMA NewRowOK ==
    ASSUME TypeOK, NEW v \in Vouchers, NEW gross \in Nat, Paid(gross)
    PROVE  LET r == NewRow(v, gross)
           IN  /\ r \in RefundTx /\ r.fee >= 0
               /\ ~r.refunded /\ ~r.inFlight /\ RowExplains(r) = gross
<1> DEFINE p == Priced(gross, Fee(gross))
<1>1. Fee(gross) \in Nat
  BY RefundFee
<1>2. p.amount \in Nat /\ p.dust \in Nat /\ p.fee = Fee(gross) /\ p.amount + p.dust + p.fee = gross
  BY <1>1, PricedOK DEF Paid
<1>3. NewRow(v, gross) =
        [voucher |-> v, amount |-> p.amount, fee |-> p.fee, dust |-> p.dust, refunded |-> FALSE,
         inFlight |-> FALSE, keyed |-> FALSE, retries |-> 0, actual |-> 0]
  BY DEF NewRow
<1>4. 0 \in 0 .. MaxRetries
  BY RefundAssumption
<1> HIDE DEF p
<1> QED BY <1>1, <1>2, <1>3, <1>4 DEF RefundTx, RowExplains

\* So does the row of a balance that is kept as dust ...
LEMMA DustRowOK ==
    ASSUME NEW v \in Vouchers, NEW gross \in Nat
    PROVE  LET r == RetainedDust(v, gross)
           IN  /\ r \in RefundTx /\ r.fee >= 0 /\ r.amount = 0 /\ r.actual = 0
               /\ r.refunded /\ ~r.inFlight /\ RowExplains(r) = gross
BY RefundAssumption DEF RetainedDust, RefundTx, RowExplains

\* ... and one that is repriced still explains what it did.
LEMMA RepricedOK ==
    ASSUME TypeOK, NEW r \in RefundTx, Abandoned(r), r.fee >= 0
    PROVE  /\ Repriced(r) \in RefundTx /\ Repriced(r).fee >= 0 /\ ~Repriced(r).inFlight
           /\ Repriced(r).refunded => Repriced(r).amount = 0 /\ Repriced(r).actual = 0
           /\ RowExplains(Repriced(r)) = RowExplains(r)
<1> DEFINE gross == r.amount + r.fee + r.dust
           p == Priced(gross, Fee(gross))
<1>1. gross \in Nat /\ RowExplains(r) = gross /\ r.voucher \in Vouchers /\ r.keyed \in BOOLEAN
  BY DEF RefundTx, RowExplains, Abandoned
<1>2. Fee(gross) \in Nat
  <2> HIDE DEF gross
  <2> QED BY <1>1, RefundFee
<1>3. CASE BelowMin(gross, Fee(gross))
  <2>1. Repriced(r) = [RetainedDust(r.voucher, gross) EXCEPT !.keyed = r.keyed]
    BY <1>3 DEF Repriced
  <2> HIDE DEF gross
  <2>2. Repriced(r) = [voucher |-> r.voucher, amount |-> 0, fee |-> 0, dust |-> gross,
                       refunded |-> TRUE, inFlight |-> FALSE, keyed |-> r.keyed,
                       retries |-> 0, actual |-> 0]
    BY <2>1 DEF RetainedDust
  <2>3. 0 \in 0 .. MaxRetries
    BY RefundAssumption
  <2> QED BY <1>1, <2>2, <2>3 DEF RefundTx, RowExplains
<1>4. CASE ~BelowMin(gross, Fee(gross))
  <2>1. p.amount \in Nat /\ p.dust \in Nat /\ p.fee = Fee(gross) /\ p.amount + p.dust + p.fee = gross
    <3> HIDE DEF gross
    <3> QED BY <1>1, <1>2, <1>4, PricedOK
  <2>2. Repriced(r) = [r EXCEPT !.amount = p.amount, !.fee = p.fee, !.dust = p.dust, !.retries = 0]
    BY <1>4 DEF Repriced
  <2> HIDE DEF gross, p
  <2>3. /\ r.voucher \in Vouchers /\ r.keyed \in BOOLEAN /\ r.actual \in Nat
        /\ r.refunded = FALSE /\ r.inFlight = FALSE
    BY DEF RefundTx, Abandoned
  <2>4. Repriced(r) = [voucher |-> r.voucher, amount |-> p.amount, fee |-> p.fee, dust |-> p.dust,
                       refunded |-> FALSE, inFlight |-> FALSE, keyed |-> r.keyed,
                       retries |-> 0, actual |-> r.actual]
    BY <2>2, <2>3 DEF RefundTx
  <2>5. 0 \in 0 .. MaxRetries
    BY RefundAssumption
  <2> QED BY <1>1, <1>2, <2>1, <2>3, <2>4, <2>5 DEF RefundTx, RowExplains
<1> QED BY <1>3, <1>4

-----------------------------------------------------------------------------
(* The steps that leave the rows alone                                     *)

\* What TypeOK says of the rows and of the worker, and of all else.
RowsTyped == rows \in Seq(RefundTx) /\ payment \in Seq(Payment) /\ Len(payment) = Len(rows)
WorkerTyped == worker \in Workers(DOMAIN rows)
RestTyped ==
    /\ voucher \in [Vouchers -> VoucherRow]
    /\ due \subseteq Vouchers
    /\ wallet \in Nat
    /\ redeem \in [st : {"none", "debited", "done", "lost"}, voucher : Vouchers \cup {"none"}]
    /\ funded \in BOOLEAN
    /\ minFee \in MinFees
    /\ owner \in {"worker", "redeem", "cooldown", "nobody"}
    /\ crashes \in Nat
    /\ dropped \in Nat

\* Together they are TypeOK, in this state ...
LEMMA TypeSplit == TypeOK <=> RowsTyped /\ WorkerTyped /\ RestTyped
BY DEF TypeOK, RowsTyped, WorkerTyped, RestTyped, Workers

\* ... and in the next.
LEMMA TypeSplitNext == TypeOK' <=> RowsTyped' /\ WorkerTyped' /\ RestTyped'
BY DEF TypeOK, RowsTyped, WorkerTyped, RestTyped, Workers

\* A voucher row stays one.
LEMMA VoucherTypes ==
    ASSUME NEW v, NEW line \in VoucherRow
    PROVE  /\ Touched(line) \in {"running", "passed", "renewed"}
           /\ \A msat \in Nat :
                /\ msat <= line.bal => Debit(line, msat) \in VoucherRow
                                       /\ Debit(line, msat).bal = line.bal - msat
                /\ AddBalance(line, msat) \in VoucherRow
                /\ AddBalance(line, msat).bal = line.bal + msat
                /\ Credit(line, msat) \in VoucherRow
                /\ Credit(line, msat).bal = line.bal + msat
           /\ Refunded(line) \in VoucherRow /\ Refunded(line).bal = 0
<1>1. /\ line.bal \in Nat /\ line.active \in BOOLEAN /\ line.terms \in Terms
      /\ Touched(line) \in {"running", "passed", "renewed"}
  BY DEF VoucherRow, Touched
<1>2. ASSUME NEW msat \in Nat
      PROVE  /\ msat <= line.bal => Debit(line, msat) \in VoucherRow
                                     /\ Debit(line, msat).bal = line.bal - msat
             /\ AddBalance(line, msat) \in VoucherRow
             /\ AddBalance(line, msat).bal = line.bal + msat
             /\ Credit(line, msat) \in VoucherRow
             /\ Credit(line, msat).bal = line.bal + msat
  <2>1. msat <= line.bal => line.bal - msat \in Nat
    BY <1>1
  <2>2. line.bal + msat \in Nat
    BY <1>1
  <2>3. (IF line.terms.single THEN FALSE ELSE line.active) \in BOOLEAN
    BY <1>1
  <2>4. Credit(line, msat) = [bal |-> line.bal + msat, active |-> line.active,
                              clock |-> Touched(line), terms |-> line.terms]
    BY <1>2 DEF Credit
  <2>5. msat <= line.bal => Debit(line, msat) \in VoucherRow
                             /\ Debit(line, msat).bal = line.bal - msat
    BY <1>1, <2>1, <2>3 DEF Debit, VoucherRow
  <2>6. AddBalance(line, msat) \in VoucherRow /\ AddBalance(line, msat).bal = line.bal + msat
    BY <1>1, <2>2 DEF AddBalance, VoucherRow
  <2>7. Credit(line, msat) \in VoucherRow /\ Credit(line, msat).bal = line.bal + msat
    BY <1>1, <2>2, <2>4 DEF VoucherRow
  <2> QED BY <2>5, <2>6, <2>7
<1>3. Refunded(line) \in VoucherRow /\ Refunded(line).bal = 0
  BY <1>1 DEF Refunded, VoucherRow
<1> QED BY <1>1, <1>2, <1>3

\* Nothing that the invariant says of rows and of the worker depends on anything else.
LEMMA Untouched ==
    ASSUME IInv, UNCHANGED <<rows, payment, worker, crashes>>, RestTyped', RedeemOK'
    PROVE  IInv'
<1>1. RowsTyped' /\ WorkerTyped'
  BY TypeSplit DEF IInv, RowsTyped, WorkerTyped, Workers
<1>2. TypeOK'
  BY <1>1, TypeSplitNext
<1>3. (\A i \in DOMAIN rows : RowOK(i))' /\ ListOK' /\ CurrentOK' /\ MarginOK'
  BY DEF IInv, RowOK, ListOK, CurrentOK, MarginOK, Abandoned, Pending
<1> QED BY <1>2, <1>3 DEF IInv

\* The rest of the world, the redeem beside the worker, and the cooldown.
LEMMA WorldKeeps ==
    ASSUME IInv,
           (\E v \in Vouchers : VoucherExpires(v) \/ RegularComesDue(v) \/ Fund(v) \/ RedeemDebits(v))
             \/ RedeemStep \/ CooldownEnds
    PROVE  IInv' /\ UNCHANGED rows
<1> USE DEF Lock!Acquire, Lock!Pay, Lock!Release
<1>1. RestTyped /\ RedeemOK /\ \A v \in Vouchers : voucher[v] \in VoucherRow
  BY TypeSplit DEF IInv, RestTyped
<1>2. ASSUME NEW v \in Vouchers, NEW line \in VoucherRow
      PROVE  [voucher EXCEPT ![v] = line] \in [Vouchers -> VoucherRow]
  BY <1>1, <1>2 DEF RestTyped
<1>3. ASSUME NEW v \in Vouchers, VoucherExpires(v) PROVE IInv' /\ UNCHANGED rows
  <2>1. [voucher[v] EXCEPT !.clock = "passed"] \in VoucherRow
    BY <1>1 DEF VoucherRow
  <2>2. voucher' = [voucher EXCEPT ![v] = [voucher[v] EXCEPT !.clock = "passed"]]
    BY <1>3 DEF VoucherExpires
  <2>3. RestTyped' /\ RedeemOK'
    BY <1>1, <1>2, <1>3, <2>1, <2>2 DEF VoucherExpires, RestTyped, RedeemOK, world, sdk
  <2> QED BY <1>3, <2>3, Untouched DEF VoucherExpires, sdk
<1>4. ASSUME NEW v \in Vouchers, RegularComesDue(v) PROVE IInv' /\ UNCHANGED rows
  <2>1. RestTyped' /\ RedeemOK'
    BY <1>1, <1>4 DEF RegularComesDue, RestTyped, RedeemOK, world, sdk
  <2> QED BY <1>4, <2>1, Untouched DEF RegularComesDue, sdk
<1>5. ASSUME NEW v \in Vouchers, Fund(v) PROVE IInv' /\ UNCHANGED rows
  <2> DEFINE line == Credit(voucher[v], Funded)
  <2>1. line \in VoucherRow /\ wallet + Funded \in Nat
    <3>1. Funded \in Nat /\ wallet \in Nat /\ voucher[v] \in VoucherRow
      BY <1>1, RefundAssumption DEF RestTyped
    <3>2. line \in VoucherRow
      BY <3>1, VoucherTypes
    <3> QED BY <3>1, <3>2
  <2>2. voucher' = [voucher EXCEPT ![v] = line]
    BY <1>5 DEF Fund
  <2> HIDE DEF line
  <2>3. RestTyped' /\ RedeemOK'
    BY <1>1, <1>2, <1>5, <2>1, <2>2 DEF Fund, RestTyped, RedeemOK
  <2> QED BY <1>5, <2>3, Untouched DEF Fund
<1>6. ASSUME NEW v \in Vouchers, RedeemDebits(v) PROVE IInv' /\ UNCHANGED rows
  <2>1. Debit(voucher[v], Redeemed) \in VoucherRow
    BY <1>1, <1>6, VoucherTypes, RefundAssumption DEF RedeemDebits, VoucherRow
  <2>2. voucher' = [voucher EXCEPT ![v] = Debit(voucher[v], Redeemed)]
    BY <1>6 DEF RedeemDebits
  <2>3. voucher' \in [Vouchers -> VoucherRow]
    BY <1>2, <2>1, <2>2
  <2>4. RestTyped' /\ RedeemOK'
    BY <1>1, <1>6, <2>3 DEF RedeemDebits, RestTyped, RedeemOK, sdk
  <2> QED BY <1>6, <2>4, Untouched DEF RedeemDebits, sdk
<1>7. CASE RedeemPays
  <2>1. wallet' \in Nat
    BY <1>1, <1>7, RefundAssumption DEF RedeemPays, RestTyped
  <2>2. RestTyped' /\ RedeemOK'
    BY <1>1, <1>7, <2>1 DEF RedeemPays, RedeemEnds, RestTyped, RedeemOK
  <2> QED BY <1>7, <2>2, Untouched DEF RedeemPays, RedeemEnds
<1>8. CASE RedeemFails
  <2> DEFINE u == redeem.voucher
  <2>1. u \in Vouchers
    BY <1>1, <1>8 DEF RedeemFails, RedeemEnds, RedeemOK
  <2>2. AddBalance(voucher[u], Redeemed) \in VoucherRow
    BY <1>1, <2>1, VoucherTypes, RefundAssumption DEF RestTyped
  <2>3. voucher' = [voucher EXCEPT ![u] = AddBalance(voucher[u], Redeemed)]
    BY <1>8 DEF RedeemFails
  <2>4. voucher' \in [Vouchers -> VoucherRow]
    <3> HIDE DEF u
    <3> QED BY <1>1, <2>1, <2>2, <2>3 DEF RestTyped
  <2>5. RestTyped' /\ RedeemOK'
    BY <1>1, <1>8, <2>4 DEF RedeemFails, RedeemEnds, RestTyped, RedeemOK
  <2> QED BY <1>8, <2>5, Untouched DEF RedeemFails, RedeemEnds
<1>9. CASE CooldownEnds
  <2>1. RestTyped' /\ RedeemOK'
    BY <1>1, <1>9 DEF CooldownEnds, RestTyped, RedeemOK, books, world, sdk
  <2> QED BY <1>9, <2>1, Untouched DEF CooldownEnds, books, sdk
<1> QED BY <1>3, <1>4, <1>5, <1>6, <1>7, <1>8, <1>9 DEF RedeemStep

\* The worker goes on, whatever is on its list, with nothing in its hands.
LEMMA Moves ==
    ASSUME IInv, UNCHANGED <<rows, payment, redeem, crashes>>, RestTyped', WorkerTyped',
           worker.pc \notin Sending, worker'.pc \notin Sending, worker'.pc # "boot",
           worker'.pc \in Busy <=> worker'.at # 0,
           worker'.pc \in Paying =>
             ~rows[worker'.at].refunded /\ rows[worker'.at].retries < MaxRetries,
           worker'.pc = "mark" => worker'.seen <= rows[worker'.at].fee,
           worker'.pc = "reprice" => \A i \in worker'.todo : Abandoned(rows[i]),
           worker'.pc \in {"pay"} \cup Busy =>
             \A i \in worker'.todo : i # worker'.at /\ Pending(rows[i]),
           worker.pc = "boot" => \A i \in DOMAIN rows : ~rows[i].inFlight
    PROVE  IInv'
<1>1. RowsTyped'
  BY TypeSplit DEF IInv, RowsTyped
<1>2. TypeOK'
  BY <1>1, TypeSplitNext
<1>3. (\A i \in DOMAIN rows : RowOK(i))'
  <2>1. \A i \in DOMAIN rows : ~rows[i].inFlight
    BY DEF IInv, RowOK
  <2> QED BY <2>1 DEF IInv, RowOK
<1>4. ListOK' /\ CurrentOK' /\ RedeemOK'
  BY DEF IInv, ListOK, CurrentOK, RedeemOK, Abandoned, Pending, Busy, Paying, Sending
<1>5. MarginOK'
  BY DEF IInv, MarginOK, Busy, Paying, Sending
<1> QED BY <1>2, <1>3, <1>4, <1>5 DEF IInv

\* The worker reads its lists, and pauses.
LEMMA BatchKeeps ==
    ASSUME IInv,
           Query \/ SplitsDone \/ Gate \/ GateOpens \/ GateStaysShut \/ QueryAbandoned
             \/ RepriceDone \/ QueryPending \/ PaysDone \/ Wake
    PROVE  IInv' /\ UNCHANGED rows
<1>1. WorkerTyped /\ RestTyped /\ RowsTyped
  BY TypeSplit DEF IInv
<1>2. worker.pc \in Busy <=> worker.at # 0
  BY DEF IInv, CurrentOK
<1>3. UNCHANGED <<books, sdk, world, minFee, owner, crashes, dropped>>
  BY DEF Query, SplitsDone, Gate, GateOpens, GateStaysShut, QueryAbandoned, RepriceDone,
         QueryPending, PaysDone, Wake
<1>4. UNCHANGED <<rows, payment, redeem, crashes>> /\ RestTyped'
  BY <1>1, <1>3 DEF books, sdk, world, RestTyped
<1>5. /\ worker.pc \in {"query", "split", "gate", "books", "requeue", "reprice", "pending",
                        "pay", "sleep"}
      /\ worker.at = 0
  BY <1>2 DEF Query, SplitsDone, Gate, GateOpens, GateStaysShut, QueryAbandoned, RepriceDone,
              QueryPending, PaysDone, Wake, Goto, Busy, Paying, Sending
<1>6. /\ WorkerTyped'
      /\ worker'.pc \in {"query", "split", "gate", "books", "requeue", "reprice", "pending",
                         "pay", "sleep"}
      /\ worker'.at = 0
      /\ worker'.pc = "reprice" => \A i \in worker'.todo : Abandoned(rows[i])
      /\ worker'.pc = "pay" => \A i \in worker'.todo : i # 0 /\ Pending(rows[i])
  <2> USE DEF WorkerTyped, Workers, WorkerPC
  <2>0. 0 \notin DOMAIN rows /\ wallet \in Nat
    BY <1>1 DEF RowsTyped, RestTyped
  <2>1. CASE Query
    <3> DEFINE found == {v \in Vouchers : IF worker.pass = "expired"
                                          THEN ExpiredWithBalance(voucher[v])
                                          ELSE RegularDue(v)}
    <3>1. worker' = [worker EXCEPT !.pc = "split", !.list = found] /\ found \subseteq Vouchers
      BY <2>1 DEF Query
    <3> HIDE DEF found
    <3> QED BY <1>1, <1>4, <1>5, <3>1
  <2>2. CASE SplitsDone
    BY <1>1, <1>4, <1>5, <2>2 DEF SplitsDone, Goto
  <2>3. CASE Gate
    BY <1>1, <1>4, <1>5, <2>0, <2>3 DEF Gate
  <2>4. CASE GateOpens
    BY <1>1, <1>4, <1>5, <2>4 DEF GateOpens
  <2>5. CASE GateStaysShut
    BY <1>1, <1>4, <1>5, <2>5 DEF GateStaysShut, PassDone
  <2>6. CASE QueryAbandoned
    <3> DEFINE found == {i \in DOMAIN rows : Abandoned(rows[i])}
    <3>1. worker' = [worker EXCEPT !.pc = "reprice", !.todo = found] /\ found \subseteq DOMAIN rows
          /\ \A i \in found : Abandoned(rows[i])
      BY <2>6 DEF QueryAbandoned
    <3> HIDE DEF found
    <3> QED BY <1>1, <1>4, <1>5, <3>1
  <2>7. CASE RepriceDone
    BY <1>1, <1>4, <1>5, <2>7 DEF RepriceDone, Goto
  <2>8. CASE QueryPending
    <3> DEFINE found == {i \in DOMAIN rows : Pending(rows[i])}
    <3>1. worker' = [worker EXCEPT !.pc = "pay", !.todo = found] /\ found \subseteq DOMAIN rows
          /\ \A i \in found : Pending(rows[i])
      BY <2>8 DEF QueryPending
    <3> HIDE DEF found
    <3> QED BY <1>1, <1>4, <1>5, <2>0, <3>1
  <2>9. CASE PaysDone
    BY <1>1, <1>4, <1>5, <2>9 DEF PaysDone, PassDone
  <2>10. CASE Wake
    BY <1>1, <1>4, <1>5, <2>10 DEF Wake, Goto
  <2> QED BY <2>1, <2>2, <2>3, <2>4, <2>5, <2>6, <2>7, <2>8, <2>9, <2>10
<1>7. /\ worker.pc \notin Sending /\ worker.pc # "boot"
      /\ worker'.pc \notin Busy /\ worker'.pc # "boot"
  BY <1>5, <1>6 DEF Busy, Paying, Sending
<1>8. IInv'
  BY <1>4, <1>6, <1>7, Moves DEF Busy, Paying
<1> QED BY <1>4, <1>8

\* payRefund takes a row from the list, and lets go of it.
LEMMA HandlingKeeps ==
    ASSUME IInv, (\E i \in DOMAIN rows : Acquire(i)) \/ ParseFails \/ QuoteFits \/ Release
    PROVE  IInv' /\ UNCHANGED rows
<1> USE DEF Lock!Acquire, Lock!Pay
<1>1. WorkerTyped /\ RestTyped /\ RowsTyped
  BY TypeSplit DEF IInv
<1>2. (worker.pc \in Busy <=> worker.at # 0) /\ 0 \notin DOMAIN rows /\ ListOK /\ CurrentOK
  BY <1>1 DEF IInv, CurrentOK, RowsTyped
<1>3. UNCHANGED <<books, sdk, world, minFee, crashes, dropped>> /\ RestTyped'
  BY <1>1 DEF Acquire, ParseFails, QuoteFits, Release, RestTyped, books, sdk, world
<1>4. UNCHANGED <<rows, payment, redeem, crashes>>
  BY <1>3 DEF books, sdk, world
<1> USE DEF WorkerTyped, Workers, WorkerPC
<1>5. ASSUME NEW i \in DOMAIN rows, Acquire(i) PROVE IInv'
  <2>1. /\ worker.pc = "pay" /\ i \in worker.todo
        /\ worker' = [worker EXCEPT !.pc = "parse", !.todo = worker.todo \ {i}, !.at = i]
    BY <1>5 DEF Acquire
  <2>2. /\ worker'.pc = "parse" /\ worker'.at = i /\ worker'.todo = worker.todo \ {i}
        /\ WorkerTyped'
    BY <1>1, <1>4, <2>1
  <2>3. \A j \in worker.todo : Pending(rows[j])
    BY <1>2, <2>1 DEF ListOK
  <2>4. ~rows[i].refunded /\ rows[i].retries < MaxRetries
    BY <2>1, <2>3 DEF Pending
  <2> QED BY <1>2, <1>3, <1>4, <2>1, <2>2, <2>3, <2>4, Moves DEF Busy, Paying, Sending
<1>6. CASE ParseFails
  <2>1. worker.pc = "parse" /\ worker' = [worker EXCEPT !.pc = "release"]
    BY <1>6 DEF ParseFails, Goto
  <2>2. /\ worker'.pc = "release" /\ worker'.at = worker.at /\ worker'.todo = worker.todo
        /\ WorkerTyped'
    BY <1>1, <1>4, <2>1
  <2> QED BY <1>2, <1>3, <1>4, <2>1, <2>2, Moves DEF Busy, Paying, Sending, ListOK
<1>7. CASE QuoteFits
  <2>1. PICK quote \in Quotes :
          /\ worker.pc = "parse" /\ quote <= Row.fee
          /\ worker' = [worker EXCEPT !.pc = "mark", !.seen = quote]
    BY <1>7 DEF QuoteFits
  <2>2. /\ worker'.pc = "mark" /\ worker'.at = worker.at /\ worker'.todo = worker.todo
        /\ worker'.seen = quote /\ WorkerTyped'
    BY <1>1, <1>4, <2>1, RefundAssumption
  <2>3. worker'.seen <= rows[worker'.at].fee
    BY <2>1, <2>2 DEF Row
  <2>4. ~rows[worker.at].refunded /\ rows[worker.at].retries < MaxRetries
    BY <1>2, <2>1 DEF CurrentOK, Paying
  <2> QED BY <1>2, <1>3, <1>4, <2>1, <2>2, <2>3, <2>4, Moves DEF Busy, Paying, Sending, ListOK
<1>8. CASE Release
  <2>1. worker.pc = "release" /\ worker' = [worker EXCEPT !.pc = "pay", !.at = 0, !.seen = 0]
    BY <1>8 DEF Release
  <2>2. /\ worker'.pc = "pay" /\ worker'.at = 0 /\ worker'.todo = worker.todo
        /\ WorkerTyped'
    BY <1>1, <1>4, <2>1
  <2>3. \A i \in worker.todo : i # 0 /\ Pending(rows[i])
    BY <1>1, <1>2, <2>1 DEF ListOK, Busy
  <2> QED BY <1>2, <1>3, <1>4, <2>1, <2>2, <2>3, Moves DEF Busy, Paying, Sending
<1> QED BY <1>4, <1>5, <1>6, <1>7, <1>8

\* The SDK answers, or reports how a payment has ended.
LEMMA SdkKeeps ==
    ASSUME IInv, (\E i \in DOMAIN rows : PaymentSettles(i)) \/ Send \/ SendAgain \/ SendFails
    PROVE  IInv' /\ UNCHANGED rows
<1>1. WorkerTyped /\ RestTyped /\ RowsTyped /\ DOMAIN payment = DOMAIN rows
  BY TypeSplit, TypeParts DEF IInv
<1>2. \A i \in DOMAIN rows : payment[i] \in Payment /\ rows[i] \in RefundTx
  BY TypeParts DEF IInv
<1> USE DEF WorkerTyped, Workers, WorkerPC, Goto
<1>3. ASSUME NEW i \in DOMAIN rows, PaymentSettles(i) PROVE IInv'
  <2>1. /\ payment[i].st = "pending"
        /\ \E st \in {"completed", "failed"} : payment' = [payment EXCEPT ![i] = [payment[i] EXCEPT !.st = st]]
        /\ wallet' \in Nat
    BY <1>1, <1>2, <1>3 DEF PaymentSettles, RestTyped, Payment
  <2>2. PICK st \in {"completed", "failed"} : payment' = [payment EXCEPT ![i] = [payment[i] EXCEPT !.st = st]]
    BY <2>1
  <2>3. /\ [payment[i] EXCEPT !.st = st] \in Payment
        /\ [payment[i] EXCEPT !.st = st].st # "none"
        /\ [payment[i] EXCEPT !.st = st].fee = payment[i].fee
    BY <1>2, <2>2 DEF Payment
  <2>4. /\ payment' \in Seq(Payment) /\ Len(payment') = Len(payment)
        /\ payment'[i].st # "none" /\ payment'[i].fee = payment[i].fee
        /\ \A j \in DOMAIN rows : j # i => payment'[j] = payment[j]
    BY <1>1, <2>2, <2>3, OneRow DEF RowsTyped
  <2>5. UNCHANGED <<rows, worker, redeem, crashes>> /\ RestTyped'
    BY <1>1, <1>3, <2>1 DEF PaymentSettles, RestTyped, books, world
  <2>6. RowsTyped' /\ WorkerTyped' /\ TypeOK'
    BY <1>1, <2>4, <2>5, TypeSplitNext DEF RowsTyped
  <2>7. \A j \in DOMAIN rows : (payment'[j].st = "none" <=> payment[j].st = "none")
                               /\ payment'[j].fee = payment[j].fee
    BY <2>1, <2>4
  <2>8. (\A j \in DOMAIN rows : RowOK(j))' /\ ListOK' /\ RedeemOK'
    BY <2>5, <2>7 DEF IInv, RowOK, ListOK, RedeemOK, Abandoned, Pending
  <2>9. CurrentOK' /\ MarginOK'
    <3>1. worker.at # 0 => worker.at \in DOMAIN rows
      BY <1>1
    <3> QED BY <2>5, <2>7, <3>1 DEF IInv, CurrentOK, MarginOK, Busy, Paying, Sending
  <2> QED BY <2>6, <2>8, <2>9 DEF IInv
<1>4. CASE Send
  <2> DEFINE a == worker.at
  <2>1. PICK st \in {"pending", "completed"}, fee \in Quotes :
          /\ fee <= worker.seen /\ wallet >= Row.amount + fee
          /\ payment' = [payment EXCEPT ![a] = [st |-> st, amount |-> Row.amount, fee |-> fee]]
          /\ wallet' = wallet - Row.amount - fee
    BY <1>4 DEF Send
  <2>2. /\ worker.pc = "send" /\ worker' = [worker EXCEPT !.pc = "sent"]
        /\ payment[a].st = "none"
        /\ UNCHANGED <<books, world, minFee, owner, crashes, dropped>>
    BY <1>4 DEF Send, Goto
  <2>3. /\ a \in DOMAIN rows /\ rows[a].amount \in Nat /\ worker.seen \in Nat
        /\ fee \in Nat /\ ~rows[a].refunded /\ rows[a].fee \in Int
    BY <1>1, <1>2, <2>2, RefundAssumption DEF IInv, CurrentOK, RefundTx, Busy, Paying, Sending
  <2>4. [st |-> st, amount |-> Row.amount, fee |-> fee] \in Payment
    BY <2>3 DEF Payment, Row
  <2>5. /\ payment' \in Seq(Payment) /\ Len(payment') = Len(payment)
        /\ payment'[a].st # "none" /\ payment'[a].fee = fee
        /\ \A j \in DOMAIN rows : j # a => payment'[j] = payment[j]
    <3> HIDE DEF a
    <3> QED BY <1>1, <2>1, <2>3, <2>4, OneRow DEF RowsTyped
  <2>6. wallet' \in Nat
    BY <1>1, <2>1, <2>3 DEF RestTyped, Row
  <2>7. /\ worker'.pc = "sent" /\ worker'.at = a /\ worker'.todo = worker.todo
        /\ worker'.seen = worker.seen
        /\ WorkerTyped' /\ UNCHANGED <<rows, redeem, crashes>>
    BY <1>1, <2>2 DEF books, world
  <2>8. TypeOK'
    BY <1>1, <2>2, <2>5, <2>6, <2>7, TypeSplitNext DEF RowsTyped, RestTyped, books, world
  <2>9. (\A j \in DOMAIN rows : RowOK(j))'
    BY <2>2, <2>3, <2>5, <2>7 DEF IInv, RowOK, Sending
  <2>10. ListOK' /\ RedeemOK' /\ CurrentOK'
    BY <2>2, <2>3, <2>5, <2>7 DEF IInv, ListOK, RedeemOK, CurrentOK, Abandoned, Pending, Busy, Paying, Sending
  <2>11. MarginOK'
    BY <2>1, <2>2, <2>3, <2>5, <2>7 DEF IInv, MarginOK
  <2> QED BY <2>7, <2>8, <2>9, <2>10, <2>11 DEF IInv
<1>5. CASE SendAgain \/ SendFails
  <2>1. PICK pc \in {"sent", "failed"} :
          /\ worker.pc = "send" /\ worker' = [worker EXCEPT !.pc = pc]
          /\ pc = "sent" => payment[worker.at].st # "none"
          /\ UNCHANGED <<books, sdk, world, minFee, owner, crashes, dropped>>
    BY <1>5 DEF SendAgain, SendFails
  <2>2. /\ worker'.pc = pc /\ worker'.at = worker.at /\ worker'.todo = worker.todo
        /\ worker'.seen = worker.seen
        /\ WorkerTyped' /\ UNCHANGED <<rows, payment, redeem, crashes>>
    BY <1>1, <2>1 DEF books, world, sdk
  <2>3. TypeOK'
    BY <1>1, <2>1, <2>2, TypeSplitNext DEF RowsTyped, RestTyped, books, world, sdk
  <2>4. worker.at \in DOMAIN rows /\ ~rows[worker.at].refunded
    BY <1>1, <2>1 DEF IInv, CurrentOK, Busy, Paying, Sending
  <2>5. (\A j \in DOMAIN rows : RowOK(j))'
    BY <2>1, <2>2, <2>4 DEF IInv, RowOK, Sending
  <2>6. ListOK' /\ RedeemOK' /\ CurrentOK'
    BY <2>1, <2>2, <2>4 DEF IInv, ListOK, RedeemOK, CurrentOK, Abandoned, Pending, Busy, Paying, Sending
  <2>7. MarginOK'
    BY <2>1, <2>2, <2>4 DEF IInv, MarginOK
  <2> QED BY <2>2, <2>3, <2>5, <2>6, <2>7 DEF IInv
<1>6. UNCHANGED rows
  BY DEF PaymentSettles, Send, SendAgain, SendFails, books
<1> QED BY <1>3, <1>4, <1>5, <1>6

-----------------------------------------------------------------------------
(* The steps that change a row                                             *)

RefundedStay == \A i \in DOMAIN rows : rows[i].refunded => rows'[i] = rows[i]

\* The worker writes one row, which is not booked yet.
LEMMA Writes ==
    ASSUME IInv, NEW i \in DOMAIN rows, NEW r \in RefundTx, rows' = [rows EXCEPT ![i] = r],
           ~rows[i].refunded,
           UNCHANGED <<payment, redeem, crashes>>, RestTyped', WorkerTyped',
           ~r.refunded => r.fee >= 0,
           r.refunded /\ r.amount > 0 => payment[i].st # "none",
           r.inFlight => ~r.refunded /\ r.keyed /\ i = worker'.at /\ worker'.pc \in Sending,
           worker.pc # "boot", worker.pc \in Sending => i = worker.at,
           worker'.pc \in Busy <=> worker'.at # 0,
           worker'.pc \in Paying =>
             worker'.at = i /\ ~r.refunded /\ r.retries < MaxRetries,
           worker'.pc \notin {"mark", "sent"},
           crashes = 0 /\ worker'.pc = "send" => worker'.seen <= r.fee,
           worker'.pc = "reprice" => \A j \in worker'.todo : j # i /\ Abandoned(rows[j]),
           worker'.pc \in {"pay"} \cup Busy =>
             \A j \in worker'.todo : j # i /\ j # worker'.at /\ Pending(rows[j]),
           crashes = 0 => r.fee >= 0 /\ (payment[i].st # "none" => r.refunded),
           worker.pc = "sent" => r.refunded
    PROVE  IInv' /\ RefundedStay
<1>1. RowsTyped /\ DOMAIN payment = DOMAIN rows
  BY TypeSplit, TypeParts DEF IInv
<1>2. /\ rows' \in Seq(RefundTx) /\ Len(rows') = Len(rows) /\ DOMAIN rows' = DOMAIN rows
      /\ rows'[i] = r /\ \A j \in DOMAIN rows : j # i => rows'[j] = rows[j]
  BY <1>1, OneRow DEF RowsTyped
<1>3. TypeOK'
  <2>1. RowsTyped'
    BY <1>1, <1>2 DEF RowsTyped
  <2> QED BY <2>1, TypeSplitNext
<1>4. (\A j \in DOMAIN rows : RowOK(j))'
  <2>1. ASSUME NEW j \in DOMAIN rows, j # i PROVE ~rows[j].inFlight
    BY <2>1 DEF IInv, RowOK
  <2> QED BY <1>2, <2>1 DEF IInv, RowOK
<1>5. worker'.at # 0 => worker'.at \in DOMAIN rows'
  BY DEF WorkerTyped, Workers
<1>6. worker'.todo \subseteq DOMAIN rows'
  BY DEF WorkerTyped, Workers
<1>7. ListOK' /\ CurrentOK' /\ RedeemOK'
  BY <1>2, <1>5, <1>6 DEF IInv, ListOK, CurrentOK, RedeemOK, Abandoned, Pending, Busy, Paying, Sending
<1>8. MarginOK'
  <2>1. ASSUME NEW j \in DOMAIN rows, crashes = 0, payment[j].st # "none", j # i
        PROVE  rows[j].refunded
    BY <2>1 DEF IInv, MarginOK, Sending
  <2> QED BY <1>2, <1>5, <2>1 DEF IInv, MarginOK, Paying, Busy, Sending
<1>9. RefundedStay
  BY <1>2 DEF RefundedStay
<1> QED BY <1>3, <1>4, <1>7, <1>8, <1>9 DEF IInv

\* An abandoned row is priced anew, or kept as dust.
LEMMA RepriceKeeps ==
    ASSUME IInv, NEW i \in DOMAIN rows, Reprice(i)
    PROVE  IInv' /\ RefundedStay
<1>1. WorkerTyped /\ RestTyped /\ RowsTyped /\ rows[i] \in RefundTx
  BY TypeSplit, TypeParts DEF IInv
<1>2. /\ worker.pc = "reprice" /\ i \in worker.todo
      /\ worker' = [worker EXCEPT !.todo = worker.todo \ {i}]
      /\ rows' = [rows EXCEPT ![i] = Repriced(rows[i])]
      /\ UNCHANGED <<payment, redeem, crashes>> /\ RestTyped'
  BY <1>1 DEF Reprice, RestTyped, sdk, world
<1>3. Abandoned(rows[i]) /\ ~rows[i].refunded /\ rows[i].fee >= 0
  BY <1>2 DEF IInv, ListOK, RowOK, Abandoned
<1>4. /\ Repriced(rows[i]) \in RefundTx /\ Repriced(rows[i]).fee >= 0
      /\ ~Repriced(rows[i]).inFlight
      /\ Repriced(rows[i]).refunded => Repriced(rows[i]).amount = 0
  BY <1>1, <1>3, RepricedOK DEF IInv
<1>5. /\ worker'.pc = "reprice" /\ worker'.todo = worker.todo \ {i} /\ worker'.at = worker.at
      /\ WorkerTyped'
  <2>1. DOMAIN rows' = DOMAIN rows
    BY <1>2
  <2> QED BY <1>1, <1>2, <2>1 DEF WorkerTyped, Workers
<1>6. worker.at = 0 /\ \A j \in worker'.todo : j # i /\ Abandoned(rows[j])
  BY <1>2, <1>5 DEF IInv, CurrentOK, ListOK, Busy, Paying, Sending
<1>7. crashes = 0 => payment[i].st = "none"
  BY <1>2, <1>3 DEF IInv, MarginOK
<1>8. /\ worker.pc \notin Sending /\ worker.pc # "boot" /\ worker.pc # "sent"
      /\ worker'.pc \notin Busy /\ worker'.pc \notin Paying /\ worker'.at = 0
      /\ worker'.pc \notin {"mark", "sent", "send", "pay"}
  BY <1>2, <1>5, <1>6 DEF Busy, Paying, Sending
<1>9. ~(Repriced(rows[i]).refunded /\ Repriced(rows[i]).amount > 0)
  BY <1>4
<1> QED BY <1>2, <1>3, <1>4, <1>5, <1>6, <1>7, <1>8, <1>9, Writes

\* What payRefund writes, it writes to the row it has in its hands.
LEMMA PayKeeps ==
    ASSUME IInv, PrepareFails \/ MarkSendFailed \/ MarkInFlight \/ MarkPaid
    PROVE  IInv' /\ RefundedStay
<1> DEFINE a == worker.at
           row == rows[a]
<1>1. WorkerTyped /\ RestTyped /\ RowsTyped
  BY TypeSplit DEF IInv
<1>2. /\ worker.pc \in Paying /\ UNCHANGED <<payment, redeem, crashes>> /\ RestTyped'
      /\ worker.pc # "boot"
  BY <1>1 DEF PrepareFails, MarkSendFailed, MarkInFlight, MarkPaid, MarkFailed, Goto, Paying,
              Sending, RestTyped, sdk, world
<1>3. /\ a \in DOMAIN rows /\ a # 0
      /\ ~row.refunded /\ row.retries < MaxRetries /\ row.fee >= 0
  BY <1>1, <1>2 DEF IInv, CurrentOK, RowOK, Busy, WorkerTyped, Workers
<1>4. row \in RefundTx /\ payment[a] \in Payment
  BY <1>3, TypeParts DEF IInv
<1>5. \A j \in worker.todo : j # a /\ Pending(rows[j])
  BY <1>2 DEF IInv, ListOK, Busy
<1>6. crashes = 0 /\ payment[a].st # "none" => worker.pc = "sent"
  BY <1>3 DEF IInv, MarginOK
<1>7. CASE PrepareFails \/ MarkSendFailed
  <2> DEFINE r == [row EXCEPT !.inFlight = FALSE, !.retries = row.retries + 1]
  <2>1. /\ worker' = [worker EXCEPT !.pc = "release"] /\ worker.pc # "sent"
        /\ rows' = [rows EXCEPT ![a] = [row EXCEPT !.inFlight = FALSE, !.retries = @ + 1]]
    BY <1>3, <1>7 DEF PrepareFails, MarkSendFailed, MarkFailed, Goto, RowsTyped
  <2>2. rows' = [rows EXCEPT ![a] = r]
    BY <1>4, <2>1 DEF RefundTx
  <2>3. r \in RefundTx /\ ~r.refunded /\ ~r.inFlight /\ r.fee = row.fee
    <3>1. row.retries + 1 \in 0 .. MaxRetries
      <4>1. row.retries \in 0 .. MaxRetries /\ row.retries < MaxRetries
        BY <1>3, <1>4 DEF RefundTx
      <4>2. MaxRetries \in Nat
        BY RefundAssumption
      <4> HIDE DEF row
      <4> QED BY <4>1, <4>2
    <3> QED BY <1>3, <1>4, <3>1 DEF RefundTx
  <2>4. /\ worker'.pc = "release" /\ worker'.at = a /\ worker'.todo = worker.todo
        /\ WorkerTyped'
    <3>1. DOMAIN rows' = DOMAIN rows
      BY <2>2
    <3> QED BY <1>1, <2>1, <3>1 DEF WorkerTyped, Workers, WorkerPC
  <2> HIDE DEF r
  <2> QED BY <1>2, <1>3, <1>5, <1>6, <2>1, <2>2, <2>3, <2>4, Writes DEF Busy, Paying, Sending
<1>8. CASE MarkInFlight
  <2> DEFINE r == [row EXCEPT !.inFlight = TRUE, !.keyed = TRUE]
  <2>1. /\ worker.pc = "mark" /\ worker' = [worker EXCEPT !.pc = "send"]
        /\ rows' = [rows EXCEPT ![a] = [row EXCEPT !.inFlight = TRUE, !.keyed = TRUE]]
    BY <1>3, <1>8 DEF MarkInFlight, Goto
  <2>2. rows' = [rows EXCEPT ![a] = r]
    BY <2>1
  <2>3. r \in RefundTx /\ ~r.refunded /\ r.keyed /\ r.fee = row.fee /\ r.retries = row.retries
    BY <1>3, <1>4 DEF RefundTx
  <2>4. /\ worker'.pc = "send" /\ worker'.at = a /\ worker'.todo = worker.todo
        /\ worker'.seen = worker.seen /\ WorkerTyped'
    <3>1. DOMAIN rows' = DOMAIN rows
      BY <2>2
    <3> QED BY <1>1, <2>1, <3>1 DEF WorkerTyped, Workers, WorkerPC
  <2>5. crashes = 0 => worker.seen <= row.fee
    BY <2>1 DEF IInv, MarginOK
  <2> HIDE DEF r
  <2> QED BY ZenonT(60), <1>2, <1>3, <1>5, <1>6, <2>1, <2>2, <2>3, <2>4, <2>5, Writes
         DEF Busy, Paying, Sending
<1>9. CASE MarkPaid
  <2> DEFINE actual == payment[a].fee
             r == [row EXCEPT !.refunded = TRUE, !.inFlight = FALSE,
                              !.actual = actual, !.fee = row.fee - actual]
  <2>1. worker.pc = "sent" /\ worker' = [worker EXCEPT !.pc = "release"]
    BY <1>9 DEF MarkPaid, Goto
  <2>2. rows' = [rows EXCEPT ![a] = r]
    BY <1>9 DEF MarkPaid, Row
  <2>3. r \in RefundTx /\ r.refunded /\ ~r.inFlight /\ r.fee = row.fee - actual
    <3>1. actual \in Nat /\ row.fee \in Int
      BY <1>4 DEF RefundTx, Payment
    <3>2. row.fee - actual \in Int
      BY <3>1
    <3> HIDE DEF actual
    <3> QED BY <1>4, <3>1, <3>2 DEF RefundTx
  <2>4. /\ worker'.pc = "release" /\ worker'.at = a /\ worker'.todo = worker.todo
        /\ WorkerTyped'
    <3>1. DOMAIN rows' = DOMAIN rows
      BY <2>2
    <3> QED BY <1>1, <2>1, <3>1 DEF WorkerTyped, Workers, WorkerPC
  <2>5. payment[a].st # "none" /\ (crashes = 0 => actual <= row.fee)
    BY <2>1 DEF IInv, CurrentOK, MarginOK
  <2>6. crashes = 0 => r.fee >= 0
    BY <1>4, <2>3, <2>5 DEF RefundTx, Payment
  <2> HIDE DEF r
  <2> QED BY <1>2, <1>3, <1>5, <2>1, <2>2, <2>3, <2>4, <2>5, <2>6, Writes DEF Busy, Paying, Sending
<1> QED BY <1>7, <1>8, <1>9

\* After a stop nothing is in the worker's hands; what was in flight has its key.
LEMMA CrashKeeps ==
    ASSUME IInv, Crash
    PROVE  IInv' /\ RefundedStay
<1>1. WorkerTyped /\ RestTyped /\ RowsTyped
  BY TypeSplit DEF IInv
<1>2. /\ UNCHANGED <<rows, payment>> /\ worker' = Boot /\ crashes' = crashes + 1
      /\ redeem' = [redeem EXCEPT !.st = IF redeem.st = "debited" THEN "lost" ELSE redeem.st]
  BY DEF Crash, books, sdk
<1>3. /\ worker'.pc = "boot" /\ worker'.at = 0 /\ worker'.todo = {} /\ WorkerTyped'
  BY <1>2 DEF Boot, WorkerTyped, Workers, WorkerPC
<1>4. RestTyped' /\ RedeemOK'
  <2>1. redeem' \in [st : {"none", "debited", "done", "lost"}, voucher : Vouchers \cup {"none"}]
        /\ redeem'.st # "debited"
    BY <1>1, <1>2 DEF RestTyped
  <2>2. crashes' \in Nat /\ minFee' \in MinFees /\ owner' = "nobody"
        /\ UNCHANGED <<voucher, due, wallet, funded, dropped>>
    BY <1>1, <1>2 DEF Crash, books, sdk, RestTyped
  <2> QED BY <1>1, <2>1, <2>2 DEF RestTyped, RedeemOK
<1>5. TypeOK'
  BY <1>1, <1>2, <1>3, <1>4, TypeSplitNext DEF RowsTyped
<1>6. (\A i \in DOMAIN rows : RowOK(i))' /\ ListOK' /\ CurrentOK' /\ RefundedStay
  BY <1>2, <1>3 DEF IInv, RowOK, ListOK, CurrentOK, Busy, Paying, Sending, RefundedStay
<1>7. MarginOK'
  BY <1>1, <1>2 DEF MarginOK, RestTyped
<1> QED BY <1>4, <1>5, <1>6, <1>7 DEF IInv

\* Start-up takes what was in flight back on the list: all of it has a key.
LEMMA ResetKeeps ==
    ASSUME IInv, ResetKeyedInFlight
    PROVE  IInv' /\ RefundedStay
<1> DEFINE reset(i) == [rows[i] EXCEPT !.inFlight = FALSE]
<1>1. WorkerTyped /\ RestTyped /\ RowsTyped /\ \A i \in DOMAIN rows : rows[i] \in RefundTx
  BY TypeSplit, TypeParts DEF IInv
<1>2. /\ worker.pc = "boot" /\ worker' = [worker EXCEPT !.pc = "query"]
      /\ UNCHANGED <<payment, redeem, crashes>> /\ RestTyped' /\ RedeemOK'
  BY <1>1 DEF ResetKeyedInFlight, Goto, RestTyped, sdk, world, IInv, RedeemOK
<1>3. ASSUME NEW i \in DOMAIN rows
      PROVE  /\ [rows[i] EXCEPT !.inFlight = @ /\ (rows[i].refunded \/ ~rows[i].keyed)] = reset(i)
             /\ reset(i) \in RefundTx /\ ~reset(i).inFlight
             /\ reset(i).refunded = rows[i].refunded /\ reset(i).fee = rows[i].fee
             /\ reset(i).amount = rows[i].amount
             /\ rows[i].refunded => reset(i) = rows[i]
  <2>1. rows[i].inFlight => ~rows[i].refunded /\ rows[i].keyed
    BY DEF IInv, RowOK
  <2>2. (rows[i].inFlight /\ (rows[i].refunded \/ ~rows[i].keyed)) = FALSE
    BY <2>1
  <2>3. reset(i) \in RefundTx
    BY <1>1 DEF RefundTx
  <2>4. ~rows[i].inFlight => rows[i] = reset(i)
    BY <1>1 DEF RefundTx
  <2> QED BY <1>1, <2>1, <2>2, <2>3, <2>4 DEF RefundTx
<1>4. rows' = [i \in DOMAIN rows |-> reset(i)]
  BY <1>3 DEF ResetKeyedInFlight
<1> HIDE DEF reset
<1>5. /\ rows' \in Seq(RefundTx) /\ Len(rows') = Len(rows) /\ DOMAIN rows' = DOMAIN rows
      /\ \A i \in DOMAIN rows : rows'[i] = reset(i)
  <2>1. rows' \in [DOMAIN rows -> RefundTx]
    BY <1>3, <1>4
  <2> QED BY <1>1, <1>4, <2>1, EachRow DEF RowsTyped
<1>6. worker'.pc = "query" /\ worker'.at = worker.at /\ WorkerTyped'
  BY <1>1, <1>2, <1>5 DEF WorkerTyped, Workers, WorkerPC
<1>7. TypeOK'
  <2>1. RowsTyped'
    BY <1>1, <1>2, <1>5 DEF RowsTyped
  <2> QED BY <1>2, <1>6, <2>1, TypeSplitNext
<1>8. (\A i \in DOMAIN rows : RowOK(i))' /\ RefundedStay
  BY <1>2, <1>3, <1>5 DEF IInv, RowOK, RefundedStay
<1>9. ListOK' /\ CurrentOK'
  BY <1>2, <1>6 DEF IInv, ListOK, CurrentOK, Busy, Paying, Sending
<1>10. MarginOK'
  BY <1>2, <1>3, <1>5, <1>6 DEF IInv, MarginOK
<1> QED BY <1>2, <1>7, <1>8, <1>9, <1>10 DEF IInv

-----------------------------------------------------------------------------
(* The steps that make rows                                                *)

\* A list and what is appended to it.
LEMMA Appended ==
    ASSUME NEW S, NEW s, NEW t, s \in Seq(S), t \in Seq(S)
    PROVE  /\ s \o t \in Seq(S) /\ Len(s \o t) = Len(s) + Len(t)
           /\ Len(s) \in Nat /\ Len(t) \in Nat
           /\ DOMAIN s = 1 .. Len(s) /\ DOMAIN t = 1 .. Len(t)
           /\ DOMAIN (s \o t) = 1 .. Len(s) + Len(t)
           /\ \A i \in DOMAIN s : (s \o t)[i] = s[i]
           /\ \A j \in DOMAIN t : (s \o t)[Len(s) + j] = t[j]
OBVIOUS

\* A new row has no payment, and is not in flight.
LEMMA InsertKeeps ==
    ASSUME IInv, NEW new, new \in Seq(RefundTx), Insert(new),
           \A j \in DOMAIN new : new[j].fee >= 0 /\ ~new[j].inFlight
                                 /\ (new[j].refunded => new[j].amount = 0),
           worker.pc = "split", worker'.pc = "split", worker'.at = worker.at,
           worker' \in Workers(DOMAIN rows), RestTyped'
    PROVE  IInv' /\ RefundedStay
<1> DEFINE none == [i \in DOMAIN new |-> NoPayment]
           m == Len(rows)
<1>1. RowsTyped /\ DOMAIN rows = 1 .. m /\ m \in Nat /\ Len(payment) = m /\ DOMAIN payment = DOMAIN rows
  BY TypeSplit, TypeParts DEF IInv, RowsTyped
<1>2. none \in Seq(Payment) /\ Len(none) = Len(new) /\ DOMAIN none = DOMAIN new
      /\ \A j \in DOMAIN new : none[j] = NoPayment
  <2>1. NoPayment \in Payment
    BY DEF NoPayment, Payment
  <2>2. none \in [DOMAIN new -> Payment]
    BY <2>1
  <2> HIDE DEF none
  <2>3. none \in Seq(Payment) /\ Len(none) = Len(new) /\ DOMAIN none = DOMAIN new
    BY <2>2
  <2> QED BY <2>3 DEF none
<1>3. rows' = rows \o new /\ payment' = payment \o none /\ UNCHANGED <<redeem, crashes>>
  BY DEF Insert, world
<1> HIDE DEF none
<1>4. /\ rows' \in Seq(RefundTx) /\ Len(rows') = m + Len(new) /\ DOMAIN rows' = 1 .. m + Len(new)
      /\ DOMAIN new = 1 .. Len(new) /\ Len(new) \in Nat
      /\ \A i \in DOMAIN rows : rows'[i] = rows[i]
      /\ \A j \in DOMAIN new : rows'[m + j] = new[j]
  BY <1>1, <1>3, Appended DEF RowsTyped
<1>5. /\ payment' \in Seq(Payment) /\ Len(payment') = m + Len(new)
      /\ \A i \in DOMAIN rows : payment'[i] = payment[i]
      /\ \A j \in DOMAIN new : payment'[m + j] = NoPayment
  <2>1. payment \in Seq(Payment)
    BY <1>1 DEF RowsTyped
  <2>2. none \in Seq(Payment) /\ payment' = payment \o none
    BY <1>2, <1>3
  <2>3. /\ payment \o none \in Seq(Payment) /\ Len(payment \o none) = Len(payment) + Len(none)
        /\ \A i \in DOMAIN payment : (payment \o none)[i] = payment[i]
        /\ \A j \in DOMAIN none : (payment \o none)[Len(payment) + j] = none[j]
    BY ONLY <2>1, <2>2, Appended
  <2> HIDE DEF m
  <2> QED BY <1>1, <1>2, <2>2, <2>3
<1> HIDE DEF m
<1>6. DOMAIN rows \subseteq DOMAIN rows'
  BY <1>1, <1>4
<1>7. TypeOK'
  <2>1. RowsTyped'
    BY <1>4, <1>5 DEF RowsTyped
  <2>2. WorkerTyped'
    BY <1>6 DEF WorkerTyped, Workers
  <2> QED BY <2>1, <2>2, TypeSplitNext
<1>8. ASSUME NEW i \in DOMAIN rows'
      PROVE  i \in DOMAIN rows \/ \E j \in DOMAIN new : i = m + j
  <2>1. CASE i <= m
    BY <1>1, <1>4, <2>1
  <2>2. CASE ~(i <= m)
    <3>1. i - m \in 1 .. Len(new) /\ m + (i - m) = i
      BY <1>1, <1>4, <2>2
    <3> QED BY <1>4, <3>1
  <2> QED BY <2>1, <2>2
<1>9. ASSUME NEW i \in DOMAIN rows'
      PROVE  /\ RowOK(i)'
             /\ crashes = 0 => rows'[i].fee >= 0 /\ (payment'[i].st # "none" => rows'[i].refunded)
  <2>1. CASE i \in DOMAIN rows
    BY <1>3, <1>4, <1>5, <2>1 DEF IInv, RowOK, MarginOK, Sending
  <2>2. ASSUME NEW j \in DOMAIN new, i = m + j PROVE rows'[i] = new[j] /\ payment'[i] = NoPayment
    BY <1>4, <1>5, <2>2
  <2>3. CASE \E j \in DOMAIN new : i = m + j
    <3>1. PICK j \in DOMAIN new : i = m + j
      BY <2>3
    <3>2. rows'[i] = new[j] /\ payment'[i].st = "none"
      BY <2>2, <3>1 DEF NoPayment
    <3>3. ~(new[j].refunded /\ new[j].amount > 0)
      OBVIOUS
    <3> QED BY <3>2, <3>3 DEF RowOK
  <2> QED BY <1>8, <2>1, <2>3
<1>10. ListOK' /\ CurrentOK' /\ RedeemOK'
  BY <1>3 DEF IInv, ListOK, CurrentOK, RedeemOK, Busy, Paying, Sending
<1>11. MarginOK'
  BY <1>3, <1>9 DEF MarginOK
<1>12. RefundedStay
  BY <1>4 DEF RefundedStay
<1> QED BY <1>7, <1>9, <1>10, <1>11, <1>12 DEF IInv

\* What the parts that are worth paying explain, with what is dropped, is the balance.
LEMMA NewRows ==
    ASSUME TypeOK, NEW v \in Vouchers, NEW order \in Orders(PaidSplits(v)),
           NEW new, new = [i \in DOMAIN order |-> NewRow(v, Splits(v)[order[i]])]
    PROVE  /\ new \in Seq(RefundTx)
           /\ \A j \in DOMAIN new : /\ new[j].fee >= 0 /\ ~new[j].inFlight /\ ~new[j].refunded
           /\ Dropped(v) \in Nat
           /\ SumFunction([j \in DOMAIN new |-> RowExplains(new[j])]) + Dropped(v) = voucher[v].bal
<1> DEFINE gross == Splits(v)
           D == DOMAIN gross
           paid == PaidSplits(v)
           n == Cardinality(paid)
           T == 1 .. n
           kept == [k \in paid |-> gross[k]]
           all == [k \in D |-> IF k \in paid THEN kept[k] ELSE 0]
           lost == [k \in D |-> IF Paid(gross[k]) THEN 0 ELSE gross[k]]
           explained == [j \in DOMAIN new |-> RowExplains(new[j])]
<1>1. voucher[v].bal \in Nat /\ Shares[v] \in Seq(Nat \ {0}) /\ Shares[v] # <<>>
  BY TypeParts, RefundAssumption DEF VoucherRow
<1>2. /\ gross \in [1 .. Len(Shares[v]) -> Nat] /\ SumFunction(gross) = voucher[v].bal
      /\ D = 1 .. Len(Shares[v])
  <2>1. gross = splitBalance(voucher[v].bal, Shares[v])
    BY DEF Splits
  <2>2. gross \in [1 .. Len(Shares[v]) -> Nat] /\ SumFunction(gross) = voucher[v].bal
    <3> HIDE DEF gross
    <3> QED BY <1>1, <2>1, SplitsAddUp
  <2> HIDE DEF gross
  <2> QED BY <2>2
<1>3. IsFiniteSet(D) /\ gross \in [D -> Nat] /\ \A k \in D : gross[k] \in Nat /\ gross[k] \in Int
  <2>1. Len(Shares[v]) \in Nat
    BY <1>1
  <2>2. IsFiniteSet(1 .. Len(Shares[v]))
    BY <2>1, FS_Interval
  <2> HIDE DEF gross
  <2> QED BY <1>2, <2>2
<1>4. paid \subseteq D /\ \A k \in D : k \in paid <=> Paid(gross[k])
  BY DEF PaidSplits
<1>5. IsFiniteSet(paid) /\ n \in Nat
  <2> HIDE DEF paid, D
  <2>1. IsFiniteSet(paid)
    BY <1>3, <1>4, FS_Subset
  <2> QED BY <2>1, FS_CardinalityType
<1>6. order \in Bijection(T, paid) /\ order \in [T -> paid] /\ DOMAIN order = T
  BY DEF Orders, Bijection, Injection
<1> HIDE DEF gross, paid, n
<1>7. ASSUME NEW i \in T
      PROVE  /\ NewRow(v, gross[order[i]]) \in RefundTx
             /\ NewRow(v, gross[order[i]]).fee >= 0
             /\ ~NewRow(v, gross[order[i]]).inFlight /\ ~NewRow(v, gross[order[i]]).refunded
             /\ RowExplains(NewRow(v, gross[order[i]])) = gross[order[i]]
  <2>1. order[i] \in paid
    BY <1>6
  <2>2. gross[order[i]] \in Nat /\ Paid(gross[order[i]])
    BY <1>3, <1>4, <2>1
  <2> QED BY <2>2, NewRowOK
<1>8. /\ new = [i \in T |-> NewRow(v, gross[order[i]])] /\ DOMAIN new = T
      /\ \A i \in T : new[i] = NewRow(v, gross[order[i]])
  BY <1>6 DEF gross
<1>9. new \in Seq(RefundTx)
  <2>1. new \in [T -> RefundTx]
    BY <1>7, <1>8
  <2> QED BY <1>5, <2>1
<1>10. lost \in [D -> Nat] /\ Dropped(v) = SumFunction(lost) /\ Dropped(v) \in Nat
  <2>1. lost \in [D -> Nat]
    <3>1. ASSUME NEW k \in D PROVE (IF Paid(gross[k]) THEN 0 ELSE gross[k]) \in Nat
      BY <1>3
    <3> HIDE DEF D
    <3> QED BY <3>1
  <2>2. Dropped(v) = SumFunction(lost)
    BY DEF Dropped, Total, gross
  <2>3. SumFunction(lost) \in Nat
    <3> HIDE DEF lost, D
    <3> QED BY <1>3, <2>1, SumNat
  <2> QED BY <2>1, <2>2, <2>3
<1>11. SumFunction(explained) = SumFunction(kept)
  <2>1. kept \in [paid -> Int] /\ explained \in [T -> Int]
        /\ \A x \in T : explained[x] = kept[order[x]]
    <3>1. ASSUME NEW x \in T PROVE explained[x] = kept[order[x]] /\ kept[order[x]] \in Int
      <4>1. order[x] \in paid /\ gross[order[x]] \in Int
        BY <1>3, <1>4, <1>6
      <4>2. explained[x] = RowExplains(new[x])
        BY <1>8
      <4> QED BY <1>7, <1>8, <4>1, <4>2
    <3>2. DOMAIN explained = T
      BY <1>8
    <3>3. kept \in [paid -> Int]
      <4>1. \A k \in paid : gross[k] \in Int
        BY <1>3, <1>4
      <4> QED BY <4>1
    <3>4. explained \in [T -> Int]
      <4>1. explained = [x \in T |-> explained[x]]
        BY <1>8
      <4> HIDE DEF explained, kept, T
      <4> QED BY <3>1, <4>1
    <3> HIDE DEF explained, kept, T
    <3> QED BY <3>1, <3>3, <3>4
  <2>2. IsFiniteSet(T)
    BY <1>5, FS_Interval
  <2> HIDE DEF explained, kept, T
  <2> QED BY <1>5, <1>6, <2>1, <2>2, SumImage
<1>12. all \in [D -> Int] /\ SumFunction(all) = SumFunction(kept)
  <2>1. kept \in [paid -> Int] /\ all \in [D -> Int]
    BY <1>3, <1>4
  <2> HIDE DEF kept, D
  <2> QED BY <1>3, <1>4, <2>1, SumPart
<1>13. gross = [k \in D |-> all[k] + lost[k]]
  <2>1. ASSUME NEW k \in D PROVE gross[k] = all[k] + lost[k]
    BY <1>3, <1>4
  <2> HIDE DEF all, lost, D
  <2> QED BY <1>3, <2>1
<1>14. SumFunction([k \in D |-> all[k] + lost[k]]) = SumFunction(all) + SumFunction(lost)
  <2>1. lost \in [D -> Int]
    <3> HIDE DEF lost, D
    <3> QED BY <1>10
  <2> HIDE DEF all, lost, D
  <2> QED BY <1>3, <1>12, <2>1, SumPlus
<1>15. SumFunction(explained) + Dropped(v) = voucher[v].bal
  <2> HIDE DEF all, lost, D, kept, explained
  <2> QED BY <1>2, <1>10, <1>11, <1>12, <1>13, <1>14
<1>16. \A j \in DOMAIN new : new[j].fee >= 0 /\ ~new[j].inFlight /\ ~new[j].refunded
  <2> HIDE DEF T
  <2> QED BY <1>7, <1>8
<1> QED BY <1>9, <1>10, <1>15, <1>16

\* Which rows a step makes for a voucher.
Making(v, new) ==
    /\ Insert(new)
    /\ \/ /\ dropped' = dropped + Dropped(v)
          /\ \E order \in Orders(PaidSplits(v)) :
                new = [i \in DOMAIN order |-> NewRow(v, Splits(v)[order[i]])]
       \/ dropped' = dropped /\ new = <<RetainedDust(v, voucher[v].bal)>>

\* However a balance is split: the rows explain it, with what is dropped.
LEMMA Makes ==
    ASSUME TypeOK, NEW v \in Vouchers, NEW new, Making(v, new)
    PROVE  /\ new \in Seq(RefundTx)
           /\ \A j \in DOMAIN new : /\ new[j].fee >= 0 /\ ~new[j].inFlight
                                    /\ (new[j].refunded => new[j].amount = 0 /\ new[j].actual = 0)
           /\ dropped' \in Nat
           /\ SumFunction([j \in DOMAIN new |-> RowExplains(new[j])]) + dropped'
                = voucher[v].bal + dropped
<1>1. dropped \in Nat /\ voucher[v].bal \in Nat
  BY TypeParts DEF VoucherRow
<1>2. CASE /\ dropped' = dropped + Dropped(v)
           /\ \E order \in Orders(PaidSplits(v)) :
                 new = [i \in DOMAIN order |-> NewRow(v, Splits(v)[order[i]])]
  <2>1. PICK order \in Orders(PaidSplits(v)) :
          new = [i \in DOMAIN order |-> NewRow(v, Splits(v)[order[i]])]
    BY <1>2
  <2> DEFINE sum == SumFunction([j \in DOMAIN new |-> RowExplains(new[j])])
  <2>2. /\ new \in Seq(RefundTx) /\ Dropped(v) \in Nat /\ sum + Dropped(v) = voucher[v].bal
        /\ \A j \in DOMAIN new : new[j].fee >= 0 /\ ~new[j].inFlight /\ ~new[j].refunded
    BY <2>1, NewRows
  <2>3. sum \in Int
    <3> DEFINE f == [j \in DOMAIN new |-> RowExplains(new[j])]
    <3>1. DOMAIN new = 1 .. Len(new) /\ Len(new) \in Nat /\ \A j \in DOMAIN new : new[j] \in RefundTx
      BY <2>2
    <3>2. f \in [DOMAIN new -> Int]
      BY <3>1 DEF RowExplains, RefundTx
    <3>3. IsFiniteSet(DOMAIN new)
      BY <3>1, FS_Interval
    <3> HIDE DEF f
    <3>4. SumFunction(f) \in Int
      BY <3>2, <3>3, SumType
    <3> QED BY <3>4 DEF f
  <2> HIDE DEF sum
  <2>4. sum + dropped' = voucher[v].bal + dropped /\ dropped' \in Nat
    BY <1>1, <1>2, <2>2, <2>3
  <2> QED BY <2>2, <2>4 DEF sum
<1>3. CASE dropped' = dropped /\ new = <<RetainedDust(v, voucher[v].bal)>>
  <2> DEFINE r == RetainedDust(v, voucher[v].bal)
             f == [j \in DOMAIN new |-> RowExplains(new[j])]
  <2>1. /\ r \in RefundTx /\ r.fee >= 0 /\ r.amount = 0 /\ r.actual = 0
        /\ ~r.inFlight /\ RowExplains(r) = voucher[v].bal
    BY <1>1, DustRowOK
  <2> HIDE DEF r
  <2>2. new = <<r>> /\ new \in Seq(RefundTx) /\ DOMAIN new = {1} /\ new[1] = r
    <3>1. new = <<r>>
      BY <1>3 DEF r
    <3> QED BY <2>1, <3>1
  <2>3. f \in [{1} -> Int] /\ f[1] = voucher[v].bal
    BY <1>1, <2>1, <2>2
  <2>4. SumFunction(f) = f[1]
    <3> DEFINE zero == [x \in {1} |-> 0]
    <3>0. IsFiniteSet({1})
      BY FS_Singleton
    <3>1. IsFiniteSet({1}) /\ zero \in [{1} -> Int]
      BY <3>0
    <3>2. SumFunction(zero) = 0
      <4>1. \A x \in {1} : zero[x] = 0
        OBVIOUS
      <4> HIDE DEF zero
      <4> QED BY <3>1, <4>1, SumZero
    <3>3. SumFunction(f) = SumFunction(zero) + (f[1] - zero[1]) /\ zero[1] = 0
      <4>1. zero[1] = 0 /\ 1 \in {1} /\ \A y \in {1} \ {1} : f[y] = zero[y]
        OBVIOUS
      <4> HIDE DEF zero, f
      <4> QED BY <2>3, <3>1, <4>1, SumChange
    <3> HIDE DEF zero, f
    <3> QED BY <1>1, <2>3, <3>2, <3>3
  <2> HIDE DEF f
  <2>5. SumFunction(f) + dropped' = voucher[v].bal + dropped
    BY <1>3, <2>3, <2>4
  <2> QED BY <1>1, <1>3, <2>1, <2>2, <2>5 DEF f
<1> QED BY <1>2, <1>3 DEF Making

\* Each step that splits makes rows for one voucher, whose balance it takes.
LEMMA SplitMakes ==
    ASSUME IInv, NEW v \in Vouchers, SplitExpired(v) \/ SplitRegular(v)
    PROVE  /\ \E new : Making(v, new)
           /\ worker.pc = "split" /\ worker' = [worker EXCEPT !.list = worker.list \ {v}]
           /\ \E line \in VoucherRow : voucher' = [voucher EXCEPT ![v] = line] /\ line.bal = 0
           /\ due' \subseteq due
           /\ UNCHANGED <<wallet, world, minFee, owner, crashes>>
<1>1. voucher[v] \in VoucherRow
  BY TypeParts DEF IInv
<1>2. ASSUME InsertSplits(v) PROVE \E new : Making(v, new)
  BY <1>2 DEF InsertSplits, Making
<1>3. CASE SplitExpired(v)
  <2>1. \E new : Making(v, new)
    BY <1>2, <1>3 DEF SplitExpired, Making
  <2>2. Refunded(voucher[v]) \in VoucherRow /\ Refunded(voucher[v]).bal = 0
    BY <1>1, VoucherTypes
  <2>3. voucher' = [voucher EXCEPT ![v] = Refunded(voucher[v])]
    BY <1>3 DEF SplitExpired
  <2>4. UNCHANGED <<wallet, world, minFee, owner, crashes>>
    BY <2>1 DEF Making, Insert
  <2> QED BY <1>3, <2>1, <2>2, <2>3, <2>4 DEF SplitExpired, NextVoucher
<1>4. CASE SplitRegular(v)
  <2> DEFINE line == [voucher[v] EXCEPT !.bal = 0]
  <2>1. \E new : Making(v, new)
    BY <1>2, <1>4 DEF SplitRegular
  <2>2. line \in VoucherRow /\ line.bal = 0
    BY <1>1 DEF VoucherRow
  <2>3. voucher' = [voucher EXCEPT ![v] = line]
    BY <1>4 DEF SplitRegular
  <2>4. UNCHANGED <<wallet, world, minFee, owner, crashes>>
    BY <2>1 DEF Making, Insert
  <2> HIDE DEF line
  <2> QED BY <1>4, <2>1, <2>2, <2>3, <2>4 DEF SplitRegular, NextVoucher
<1> QED BY <1>3, <1>4

\* A voucher is split, or passed over.
LEMMA SplitKeeps ==
    ASSUME IInv, NEW v \in Vouchers, SplitExpired(v) \/ SplitRegular(v) \/ SkipVoucher(v)
    PROVE  IInv' /\ RefundedStay
<1>1. WorkerTyped /\ RestTyped /\ TypeOK
  BY TypeSplit DEF IInv
<1>2. CASE SplitExpired(v) \/ SplitRegular(v)
  <2>1. PICK new : Making(v, new)
    BY <1>2, SplitMakes
  <2>2. /\ worker.pc = "split" /\ worker' = [worker EXCEPT !.list = worker.list \ {v}]
        /\ due' \subseteq due /\ UNCHANGED <<wallet, world, minFee, owner, crashes>>
    BY <1>2, SplitMakes
  <2>3. voucher' \in [Vouchers -> VoucherRow]
    BY <1>1, <1>2, SplitMakes DEF RestTyped
  <2>4. /\ new \in Seq(RefundTx) /\ dropped' \in Nat
        /\ \A j \in DOMAIN new : /\ new[j].fee >= 0 /\ ~new[j].inFlight
                                 /\ (new[j].refunded => new[j].amount = 0)
    BY <1>1, <2>1, Makes
  <2>5. RestTyped'
    BY <1>1, <2>2, <2>3, <2>4 DEF RestTyped, world
  <2>6. worker'.pc = "split" /\ worker'.at = worker.at /\ worker' \in Workers(DOMAIN rows)
    BY <1>1, <2>2 DEF WorkerTyped, Workers
  <2> QED BY <2>1, <2>2, <2>4, <2>5, <2>6, InsertKeeps DEF Making
<1>3. CASE SkipVoucher(v)
  <2>1. /\ worker.pc = "split" /\ worker' = [worker EXCEPT !.list = worker.list \ {v}]
        /\ due' \subseteq due
        /\ UNCHANGED <<voucher, rows, sdk, world, minFee, owner, crashes, dropped>>
    BY <1>3 DEF SkipVoucher, NextVoucher
  <2>2. /\ UNCHANGED <<rows, payment, redeem, crashes>> /\ RestTyped'
    BY <1>1, <2>1 DEF RestTyped, sdk, world
  <2>3. /\ worker'.pc = "split" /\ worker'.at = worker.at /\ worker.at = 0 /\ WorkerTyped'
    BY <1>1, <2>1, <2>2 DEF WorkerTyped, Workers, IInv, CurrentOK, Busy, Paying, Sending
  <2>4. IInv'
    BY <2>1, <2>2, <2>3, Moves DEF Busy, Paying, Sending
  <2> QED BY <2>2, <2>4 DEF RefundedStay
<1> QED BY <1>2, <1>3

-----------------------------------------------------------------------------
(* The theorems                                                            *)

\* The invariant holds of the empty table.
LEMMA InitIInv == Init => IInv
<1> SUFFICES ASSUME Init PROVE IInv
  OBVIOUS
<1>1. rows = <<>> /\ payment = <<>> /\ worker = Boot /\ redeem = [st |-> "none", voucher |-> "none"]
  BY DEF Init
<1>2. RowsTyped /\ DOMAIN rows = {}
  BY <1>1 DEF RowsTyped
<1>3. WorkerTyped
  BY <1>1 DEF WorkerTyped, Workers, WorkerPC, Boot
<1>4. wallet \in Nat
  <2> DEFINE f == [v \in Vouchers |-> InitBalance]
  <2>1. f \in [Vouchers -> Nat] /\ IsFiniteSet(Vouchers)
    BY RefundAssumption, VoucherAssumption
  <2>2. wallet = SumFunction(f) + Surplus
    BY DEF Init
  <2> HIDE DEF f
  <2>3. SumFunction(f) \in Nat
    BY <2>1, SumNat
  <2> QED BY <2>2, <2>3, RefundAssumption
<1>5. voucher \in [Vouchers -> VoucherRow]
  <2>1. ASSUME NEW v \in Vouchers PROVE Created(v, InitBalance) \in VoucherRow
    BY RefundAssumption, VoucherAssumption DEF Created, VoucherRow
  <2> QED BY <2>1 DEF Init
<1>6. RestTyped
  <2>1. redeem \in [st : {"none", "debited", "done", "lost"}, voucher : Vouchers \cup {"none"}]
    BY <1>1
  <2>2. due \subseteq Vouchers /\ funded \in BOOLEAN /\ minFee \in MinFees
        /\ owner = "nobody" /\ crashes \in Nat /\ dropped \in Nat
    BY DEF Init
  <2> QED BY <1>4, <1>5, <2>1, <2>2 DEF RestTyped
<1>7. TypeOK
  BY <1>2, <1>3, <1>6, TypeSplit
<1>8. ListOK /\ CurrentOK /\ RedeemOK /\ MarginOK
  BY <1>1, <1>2 DEF ListOK, CurrentOK, RedeemOK, MarginOK, Boot, Busy, Paying, Sending
<1> QED BY <1>2, <1>7, <1>8 DEF IInv

\* Every step keeps it, and leaves alone what is booked.
LEMMA StepIInv == IInv /\ [Next]_vars => IInv' /\ RefundedStay
<1> SUFFICES ASSUME IInv, [Next]_vars PROVE IInv' /\ RefundedStay
  OBVIOUS
<1>1. ASSUME UNCHANGED rows PROVE RefundedStay
  BY <1>1 DEF RefundedStay
<1>2. CASE UNCHANGED vars
  <2>1. UNCHANGED <<rows, payment, worker, crashes, redeem>> /\ RestTyped /\ RedeemOK
    BY <1>2, TypeSplit DEF vars, books, sdk, world, IInv
  <2>2. RestTyped' /\ RedeemOK'
    BY <1>2, <2>1 DEF vars, books, sdk, world, RestTyped, RedeemOK
  <2> QED BY <1>1, <2>1, <2>2, Untouched
<1>3. CASE World
  BY <1>1, <1>3, WorldKeeps, SdkKeeps DEF World
<1>4. CASE RedeemStep \/ CooldownEnds
  BY <1>1, <1>4, WorldKeeps
<1>5. CASE WorkerStep
  <2>1. CASE ResetKeyedInFlight
    BY <2>1, ResetKeeps
  <2>2. CASE Split
    BY <1>1, <2>2, BatchKeeps, SplitKeeps DEF Split
  <2>3. CASE Batch
    BY <1>1, <2>3, BatchKeeps, RepriceKeeps DEF Batch
  <2>4. CASE PayRefund
    BY <1>1, <2>4, HandlingKeeps, SdkKeeps, PayKeeps DEF PayRefund
  <2>5. CASE Wake
    BY <1>1, <2>5, BatchKeeps
  <2> QED BY <1>5, <2>1, <2>2, <2>3, <2>4, <2>5 DEF WorkerStep
<1>6. CASE Crash
  BY <1>6, CrashKeeps
<1> QED BY <1>2, <1>3, <1>4, <1>5, <1>6 DEF Next

\* However the worker, a redeem, a deposit, failures and crashes interleave, every table
\* has its type: no balance is below zero, and no row is tried more often than allowed.
THEOREM TypeCorrect == Spec => []TypeOK
<1>1. IInv => TypeOK
  BY DEF IInv
<1> QED BY <1>1, InitIInv, StepIInv, PTL DEF Spec

\* No way out of payRefund and no crash leaves a row in flight that nobody will take up
\* again (refund.go:16-24, 554-579).
THEOREM OnlyTheCurrentInFlight == Spec => []InFlightIsCurrent
<1>1. IInv => InFlightIsCurrent
  BY DEF IInv, RowOK, InFlightIsCurrent
<1> QED BY <1>1, InitIInv, StepIInv, PTL DEF Spec

\* No refund is booked as paid for which the SDK has no payment (refund.go:554-605).
THEOREM BookedWasSent == Spec => []PaidWasSent
<1>1. IInv => PaidWasSent
  BY DEF IInv, RowOK, PaidWasSent
<1> QED BY <1>1, InitIInv, StepIInv, PTL DEF Spec

\* Until the server first stops, the fee that was kept for a refund covers what its
\* payment costs (refund.go:545-552).
THEOREM FeeCoversRouting == Spec => []MarginsCover
<1>1. IInv => MarginsCover
  BY DEF IInv, MarginOK, MarginsCover
<1> QED BY <1>1, InitIInv, StepIInv, PTL DEF Spec

\* Neither a retry nor a repricing, nor a crash, touches a row that has been booked
\* (db.go:975, 1089).
THEOREM BookedStays == Spec => RefundedFinal
<1>1. IInv /\ [Next]_vars => [RefundedStay]_vars
  BY StepIInv
<1>2. Init /\ [][Next]_vars => [][RefundedStay]_vars
  BY <1>1, InitIInv, StepIInv, PTL
<1>3. Spec => [][RefundedStay]_vars
  BY <1>2, PTL DEF Spec
<1> QED BY <1>3 DEF RefundedFinal, RefundedStay

-----------------------------------------------------------------------------
(* Every msat accounted for                                                *)

TotalBal == SumFunction([v \in Vouchers |-> voucher[v].bal])

\* What the wallet keeps for a row: what the row explains, and what the books say has
\* left the wallet for it but has not, or the other way round.
RowNet(i) == RowExplains(rows[i]) + (BookedOut(i) - Out(i))
TotalNet == SumFunction([i \in DOMAIN rows |-> RowNet(i)])

Balanced == wallet = TotalBal + TotalNet + Held + Surplus + dropped

\* The summands and sums are numbers ...
LEMMA NetTypes ==
    ASSUME TypeOK
    PROVE  /\ IsFiniteSet(DOMAIN rows)
           /\ \A i \in DOMAIN rows : /\ RowExplains(rows[i]) \in Int /\ BookedOut(i) - Out(i) \in Int
                                     /\ RowNet(i) \in Int
           /\ [v \in Vouchers |-> voucher[v].bal] \in [Vouchers -> Int]
           /\ TotalBal \in Int /\ TotalNet \in Int /\ Held \in Int
<1>1. /\ DOMAIN rows = 1 .. Len(rows) /\ Len(rows) \in Nat
      /\ voucher \in [Vouchers -> VoucherRow]
      /\ \A i \in DOMAIN rows : rows[i] \in RefundTx /\ payment[i] \in Payment
  BY TypeParts
<1>2. IsFiniteSet(DOMAIN rows)
  BY <1>1, FS_Interval
<1>3. ASSUME NEW i \in DOMAIN rows
      PROVE  RowExplains(rows[i]) \in Int /\ BookedOut(i) \in Int /\ Out(i) \in Int
  BY <1>1, <1>3 DEF RowExplains, BookedOut, Out, RefundTx, Payment
<1>4. \A i \in DOMAIN rows : BookedOut(i) - Out(i) \in Int /\ RowNet(i) \in Int
  BY <1>3 DEF RowNet
<1>5. [v \in Vouchers |-> voucher[v].bal] \in [Vouchers -> Int]
  BY <1>1 DEF VoucherRow
<1>6. TotalBal \in Int
  BY <1>5, VoucherAssumption, SumType DEF TotalBal
<1>7. TotalNet \in Int
  <2> DEFINE f == [i \in DOMAIN rows |-> RowNet(i)]
  <2>1. f \in [DOMAIN rows -> Int]
    BY <1>4
  <2> HIDE DEF f
  <2>2. SumFunction(f) \in Int
    BY <1>2, <2>1, SumType
  <2> QED BY <2>2 DEF f, TotalNet
<1>8. Held \in Int
  BY RefundAssumption DEF Held
<1> QED BY <1>2, <1>3, <1>4, <1>5, <1>6, <1>7, <1>8

\* ... in the next state, too.
LEMMA NetTypesNext ==
    ASSUME TypeOK'
    PROVE  /\ \A i \in DOMAIN rows' : RowNet(i)' \in Int
           /\ [v \in Vouchers |-> voucher'[v].bal] \in [Vouchers -> Int]
<1>1. /\ rows' \in Seq(RefundTx) /\ payment' \in Seq(Payment) /\ Len(payment') = Len(rows')
      /\ voucher' \in [Vouchers -> VoucherRow]
  BY TypeSplitNext DEF RowsTyped, RestTyped
<1>2. \A i \in DOMAIN rows' : rows'[i] \in RefundTx /\ payment'[i] \in Payment
  BY <1>1
<1>3. ASSUME NEW i \in DOMAIN rows' PROVE RowNet(i)' \in Int
  BY <1>2, <1>3 DEF RowNet, RowExplains, BookedOut, Out, RefundTx, Payment
<1>4. [v \in Vouchers |-> voucher'[v].bal] \in [Vouchers -> Int]
  BY <1>1 DEF VoucherRow
<1> QED BY <1>3, <1>4

\* The books, with one number for each row.
LEMMA BalancedIsBooks == TypeOK => (BooksClose <=> Balanced)
<1> SUFFICES ASSUME TypeOK PROVE BooksClose <=> Balanced
  OBVIOUS
<1> DEFINE D == DOMAIN rows
           f == [i \in D |-> RowExplains(rows[i])]
           g == [i \in D |-> BookedOut(i) - Out(i)]
           h == [i \in D |-> f[i] + g[i]]
<1>1. f \in [D -> Int] /\ g \in [D -> Int] /\ IsFiniteSet(D)
  BY NetTypes
<1>2. h = [i \in D |-> RowNet(i)]
  BY DEF RowNet
<1>3. SumFunction(h) = SumFunction(f) + SumFunction(g) /\ SumFunction(f) \in Int /\ SumFunction(g) \in Int
  <2>1. SumFunction(f) \in Int /\ SumFunction(g) \in Int
    <3> HIDE DEF f, g, D
    <3> QED BY <1>1, SumType
  <2>2. SumFunction([i \in D |-> f[i] + g[i]]) = SumFunction(f) + SumFunction(g)
    <3> HIDE DEF f, g, D
    <3> QED BY <1>1, SumPlus
  <2> QED BY <2>1, <2>2
<1>4. TotalNet = SumFunction(f) + SumFunction(g)
  <2> HIDE DEF f, g, h, D
  <2> QED BY <1>2, <1>3 DEF TotalNet, D
<1>5. Explained = TotalBal + SumFunction(f) + Held
  BY DEF Explained, TotalBal
<1>6. BooksClose <=> wallet = Explained + Surplus + dropped + SumFunction(g)
  BY DEF BooksClose
<1>7. /\ TotalBal \in Int /\ Held \in Int /\ Surplus \in Int /\ dropped \in Int
      /\ SumFunction(f) \in Int /\ SumFunction(g) \in Int
  <2>1. SumFunction(f) \in Int /\ SumFunction(g) \in Int
    BY <1>3
  <2> HIDE DEF f, g
  <2> QED BY <2>1, NetTypes, TypeParts, RefundAssumption
<1> HIDE DEF f, g
<1> QED BY <1>4, <1>5, <1>6, <1>7 DEF Balanced

\* What a step changes of the balances is what it changes of one.
LEMMA BalChange ==
    ASSUME TypeOK, TypeOK', NEW v \in Vouchers,
           \A u \in Vouchers \ {v} : voucher'[u].bal = voucher[u].bal
    PROVE  TotalBal' = TotalBal + (voucher'[v].bal - voucher[v].bal)
<1> DEFINE f == [u \in Vouchers |-> voucher[u].bal]
           g == [u \in Vouchers |-> voucher'[u].bal]
<1>1. f \in [Vouchers -> Int] /\ g \in [Vouchers -> Int]
  BY NetTypes, NetTypesNext
<1>2. \A u \in Vouchers \ {v} : g[u] = f[u]
  OBVIOUS
<1>3. SumFunction(g) = SumFunction(f) + (g[v] - f[v])
  <2> HIDE DEF f, g
  <2> QED BY <1>1, <1>2, VoucherAssumption, SumChange
<1> QED BY <1>3 DEF TotalBal

\* The same for the rows.
LEMMA NetChange ==
    ASSUME TypeOK, TypeOK', DOMAIN rows' = DOMAIN rows, NEW i \in DOMAIN rows,
           \A j \in DOMAIN rows \ {i} : RowNet(j)' = RowNet(j)
    PROVE  TotalNet' = TotalNet + (RowNet(i)' - RowNet(i))
<1> DEFINE D == DOMAIN rows
           f == [j \in D |-> RowNet(j)]
           g == [j \in D |-> RowNet(j)']
<1>1. f \in [D -> Int] /\ g \in [D -> Int] /\ IsFiniteSet(D)
  BY NetTypes, NetTypesNext
<1>2. \A j \in D \ {i} : g[j] = f[j]
  OBVIOUS
<1>3. SumFunction(g) = SumFunction(f) + (g[i] - f[i])
  <2> HIDE DEF f, g, D
  <2>1. i \in D
    BY DEF D
  <2> QED BY <1>1, <1>2, <2>1, SumChange
<1>4. TotalNet' = SumFunction(g)
  BY DEF TotalNet
<1> QED BY <1>3, <1>4 DEF TotalNet

\* A row that is new has cost nothing yet ...
LEMMA NewNet ==
    ASSUME NEW i, NEW r, r \in RefundTx, rows'[i] = r, payment'[i].st = "none",
           r.refunded => r.amount = 0 /\ r.actual = 0
    PROVE  RowNet(i)' = RowExplains(r) /\ RowExplains(r) \in Int
<1>1. RowExplains(r) \in Int
  BY DEF RowExplains, RefundTx
<1>2. BookedOut(i)' = 0 /\ Out(i)' = 0 /\ RowExplains(rows[i])' = RowExplains(r)
  BY DEF BookedOut, Out, RowExplains
<1>3. RowNet(i)' = RowExplains(rows[i])' + (BookedOut(i)' - Out(i)')
  BY DEF RowNet
<1> QED BY <1>1, <1>2, <1>3

\* ... so that those that a step makes count as what they explain.
LEMMA NetAppend ==
    ASSUME TypeOK, TypeOK', NEW new, new \in Seq(RefundTx), Insert(new),
           \A j \in DOMAIN new : new[j].refunded => new[j].amount = 0 /\ new[j].actual = 0
    PROVE  TotalNet' = TotalNet + SumFunction([j \in DOMAIN new |-> RowExplains(new[j])])
<1> DEFINE m == Len(rows)
           n == Len(new)
           none == [i \in DOMAIN new |-> NoPayment]
           f == [i \in DOMAIN rows |-> RowNet(i)]
           g == [j \in DOMAIN new |-> RowExplains(new[j])]
           h == [i \in DOMAIN rows' |-> RowNet(i)']
<1>1. /\ rows \in Seq(RefundTx) /\ payment \in Seq(Payment) /\ Len(payment) = m
      /\ m \in Nat /\ n \in Nat /\ DOMAIN new = 1 .. n /\ DOMAIN rows = 1 .. m
      /\ \A j \in DOMAIN new : new[j] \in RefundTx
  BY TypeParts DEF TypeOK
<1>2. /\ rows' = rows \o new /\ payment' = payment \o none
      /\ none \in Seq(Payment) /\ DOMAIN none = DOMAIN new
      /\ \A j \in DOMAIN new : none[j] = NoPayment
  <2>1. NoPayment \in Payment
    BY DEF NoPayment, Payment
  <2>2. none \in [1 .. n -> Payment]
    BY <1>1, <2>1
  <2>3. none \in Seq(Payment)
    <3> HIDE DEF none, n
    <3> QED BY <1>1, <2>2
  <2> QED BY <2>3 DEF Insert
<1> HIDE DEF none
<1>3. /\ DOMAIN rows' = 1 .. m + n
      /\ \A i \in 1 .. m : rows'[i] = rows[i]
      /\ \A j \in 1 .. n : rows'[m + j] = new[j]
  BY <1>1, <1>2, Appended
<1>4. /\ \A i \in 1 .. m : payment'[i] = payment[i]
      /\ \A j \in 1 .. n : payment'[m + j] = NoPayment
  <2>1. /\ \A i \in DOMAIN payment : (payment \o none)[i] = payment[i]
        /\ \A j \in DOMAIN none : (payment \o none)[Len(payment) + j] = none[j]
        /\ DOMAIN payment = 1 .. Len(payment)
    BY ONLY <1>1, <1>2, Appended
  <2> HIDE DEF m, n
  <2> QED BY <1>1, <1>2, <2>1
<1>5. f \in [1 .. m -> Int] /\ h \in [1 .. m + n -> Int]
  <2>1. f \in [DOMAIN rows -> Int] /\ h \in [DOMAIN rows' -> Int]
    BY NetTypes, NetTypesNext
  <2> HIDE DEF f, h, m, n
  <2> QED BY <1>1, <1>3, <2>1
<1>6. \A i \in 1 .. m : h[i] = f[i]
  <2>1. ASSUME NEW i \in 1 .. m PROVE RowNet(i)' = RowNet(i) /\ i \in DOMAIN rows'
    <3>1. rows'[i] = rows[i] /\ payment'[i] = payment[i]
      BY <1>3, <1>4
    <3>2. i \in 1 .. m + n
      BY <1>1
    <3> QED BY <1>3, <3>1, <3>2 DEF RowNet, RowExplains, BookedOut, Out
  <2> HIDE DEF m, n
  <2> QED BY <1>1, <2>1
<1>7. \A j \in 1 .. n : h[m + j] = g[j] /\ g[j] \in Int
  <2>1. ASSUME NEW j \in 1 .. n, NEW i, i = m + j
        PROVE  RowNet(i)' = RowExplains(new[j]) /\ RowExplains(new[j]) \in Int
               /\ i \in DOMAIN rows'
    <3>1. rows'[i] = new[j] /\ payment'[i].st = "none" /\ new[j] \in RefundTx
      BY <1>1, <1>3, <1>4, <2>1 DEF NoPayment
    <3>2. i \in 1 .. m + n
      BY <1>1, <2>1
    <3>3. new[j].refunded => new[j].amount = 0 /\ new[j].actual = 0
      BY <1>1
    <3>4. RowNet(i)' = RowExplains(new[j]) /\ RowExplains(new[j]) \in Int
      BY ONLY <3>1, <3>3, NewNet
    <3> QED BY <1>3, <3>2, <3>4
  <2>2. ASSUME NEW j \in 1 .. n, NEW i, i = m + j PROVE h[i] = g[j] /\ g[j] \in Int
    <3>1. j \in DOMAIN new
      BY <1>1
    <3>2. /\ RowNet(i)' = RowExplains(new[j]) /\ RowExplains(new[j]) \in Int
          /\ i \in DOMAIN rows'
      BY ONLY <2>1, <2>2
    <3> QED BY ONLY <3>1, <3>2
  <2>3. \A j \in 1 .. n : \A i : i = m + j => h[i] = g[j] /\ g[j] \in Int
    BY ONLY <2>2
  <2> HIDE DEF h, g, m, n
  <2> QED BY ONLY <2>3
<1>8. g \in [1 .. n -> Int]
  <2>1. DOMAIN g = 1 .. n /\ g = [j \in DOMAIN new |-> g[j]]
    BY <1>1
  <2> HIDE DEF g, n
  <2> QED BY <1>1, <1>7, <2>1
<1>9. SumFunction(h) = SumFunction(f) + SumFunction(g)
  <2> HIDE DEF f, g, h, m, n
  <2>1. m \in Nat /\ n \in Nat
    BY <1>1
  <2>2. \A j \in 1 .. n : h[m + j] = g[j]
    BY <1>7
  <2>3. IsAppended(h, f, m, g, n)
    BY ONLY <1>5, <1>6, <1>8, <2>1, <2>2 DEF IsAppended
  <2> QED BY ONLY <2>3, SumAppend
<1>10. TotalNet' = SumFunction(h) /\ TotalNet = SumFunction(f)
  BY DEF TotalNet
<1> QED BY <1>9, <1>10

\* Nothing that the books are made of has changed ...
LEMMA QuietBalances ==
    ASSUME IInv, IInv', Balanced, UNCHANGED <<rows, payment, wallet, dropped>>,
           \A v \in Vouchers : voucher'[v].bal = voucher[v].bal, Held' = Held
    PROVE  Balanced'
<1>1. TotalNet' = TotalNet
  BY DEF TotalNet, RowNet, RowExplains, BookedOut, Out
<1>2. TotalBal' = TotalBal
  <2>1. [v \in Vouchers |-> voucher'[v].bal] = [v \in Vouchers |-> voucher[v].bal]
    OBVIOUS
  <2> QED BY <2>1 DEF TotalBal
<1> QED BY <1>1, <1>2 DEF Balanced

\* ... or only rows, and what the wallet keeps for each has not.
LEMMA RowsBalance ==
    ASSUME IInv, IInv', Balanced, UNCHANGED <<voucher, redeem, wallet, dropped>>,
           DOMAIN rows' = DOMAIN rows, \A i \in DOMAIN rows : RowNet(i)' = RowNet(i)
    PROVE  Balanced'
<1>1. TotalNet' = TotalNet
  <2>1. [i \in DOMAIN rows' |-> RowNet(i)'] = [i \in DOMAIN rows |-> RowNet(i)]
    OBVIOUS
  <2>2. TotalNet' = SumFunction([i \in DOMAIN rows' |-> RowNet(i)'])
    BY DEF TotalNet
  <2> QED BY <2>1, <2>2 DEF TotalNet
<1>2. TotalBal' = TotalBal /\ Held' = Held
  BY DEF TotalBal, Held
<1> QED BY <1>1, <1>2 DEF Balanced

\* The rest of the world: money comes and goes with a balance.
LEMMA WorldBalances ==
    ASSUME IInv, IInv', Balanced,
           (\E v \in Vouchers : VoucherExpires(v) \/ RegularComesDue(v) \/ Fund(v) \/ RedeemDebits(v))
             \/ RedeemStep \/ CooldownEnds
    PROVE  Balanced'
<1> USE DEF Lock!Acquire, Lock!Pay, Lock!Release
<1>1. /\ TypeOK /\ TypeOK' /\ RedeemOK /\ voucher \in [Vouchers -> VoucherRow]
      /\ \A v \in Vouchers : voucher[v] \in VoucherRow /\ voucher[v].bal \in Nat
  BY TypeSplit DEF IInv, RestTyped, VoucherRow
<1>2. /\ TotalBal \in Int /\ TotalNet \in Int /\ Held \in Int /\ wallet \in Int
      /\ dropped \in Int /\ Surplus \in Nat /\ Redeemed \in Nat /\ Funded \in Nat
  BY <1>1, NetTypes, TypeParts, RefundAssumption
<1>3. ASSUME NEW v \in Vouchers, NEW msat \in Int, UNCHANGED <<rows, payment, dropped>>,
             \A u \in Vouchers \ {v} : voucher'[u].bal = voucher[u].bal,
             voucher'[v].bal = voucher[v].bal + msat,
             wallet' = wallet + msat + (Held' - Held), Held' \in Int
      PROVE  Balanced'
  <2>1. TotalNet' = TotalNet
    BY <1>3 DEF TotalNet, RowNet, RowExplains, BookedOut, Out
  <2>2. TotalBal' = TotalBal + (voucher'[v].bal - voucher[v].bal)
    BY <1>1, <1>3, BalChange
  <2>3. voucher'[v].bal - voucher[v].bal = msat
    BY <1>1, <1>3
  <2> QED BY <1>2, <1>3, <2>1, <2>2, <2>3 DEF Balanced
<1>4. ASSUME NEW v \in Vouchers, VoucherExpires(v) PROVE Balanced'
  <2>1. voucher' = [voucher EXCEPT ![v] = [voucher[v] EXCEPT !.clock = "passed"]]
    BY <1>4 DEF VoucherExpires
  <2>2. \A u \in Vouchers : voucher'[u].bal = voucher[u].bal
    BY <1>1, <2>1 DEF VoucherRow
  <2> QED BY <1>4, <2>2, QuietBalances DEF VoucherExpires, sdk, world, Held
<1>5. ASSUME NEW v \in Vouchers, RegularComesDue(v) PROVE Balanced'
  BY <1>5, QuietBalances DEF RegularComesDue, sdk, world, Held
<1>6. ASSUME NEW v \in Vouchers, Fund(v) PROVE Balanced'
  <2>1. voucher' = [voucher EXCEPT ![v] = Credit(voucher[v], Funded)]
    BY <1>6 DEF Fund
  <2>2. Credit(voucher[v], Funded).bal = voucher[v].bal + Funded
    BY <1>1, VoucherTypes, RefundAssumption
  <2>3. /\ \A u \in Vouchers \ {v} : voucher'[u].bal = voucher[u].bal
        /\ voucher'[v].bal = voucher[v].bal + Funded
    BY <1>1, <2>1, <2>2
  <2>4. wallet' = wallet + Funded /\ Held' = Held /\ UNCHANGED <<rows, payment, dropped>>
    BY <1>6 DEF Fund, Held
  <2> QED BY <1>2, <1>3, <2>3, <2>4
<1>7. ASSUME NEW v \in Vouchers, RedeemDebits(v) PROVE Balanced'
  <2>1. voucher' = [voucher EXCEPT ![v] = Debit(voucher[v], Redeemed)]
    BY <1>7 DEF RedeemDebits
  <2>2. /\ \A u \in Vouchers \ {v} : voucher'[u].bal = voucher[u].bal
        /\ voucher'[v].bal = voucher[v].bal - Redeemed
    BY <1>1, <2>1 DEF Debit
  <2>3. wallet' = wallet /\ Held = 0 /\ Held' = Redeemed /\ UNCHANGED <<rows, payment, dropped>>
    BY <1>7 DEF RedeemDebits, Held, sdk
  <2> DEFINE msat == -Redeemed
  <2>4. msat \in Int /\ voucher[v].bal - Redeemed = voucher[v].bal + msat
        /\ wallet = wallet + msat + (Redeemed - 0)
    BY <1>1, <1>2
  <2> HIDE DEF msat
  <2> QED BY <1>2, <1>3, <2>2, <2>3, <2>4
<1>8. ASSUME RedeemStep PROVE Balanced'
  <2>1. /\ redeem.st = "debited" /\ Held = Redeemed /\ Held' = 0 /\ redeem.voucher \in Vouchers
        /\ UNCHANGED <<rows, payment, dropped>>
    <3>1. redeem.st = "debited" /\ redeem' = [redeem EXCEPT !.st = "done"]
      BY <1>8 DEF RedeemStep, RedeemPays, RedeemFails, RedeemEnds
    <3>2. redeem'.st = "done"
      BY <1>1, <3>1 DEF TypeOK
    <3> QED BY <1>1, <1>8, <3>1, <3>2
            DEF RedeemStep, RedeemPays, RedeemFails, RedeemEnds, Held, RedeemOK
  <2>2. CASE RedeemPays
    <3>1. wallet' = wallet - Redeemed /\ voucher' = voucher
      BY <2>2 DEF RedeemPays
    <3>2. voucher'[redeem.voucher].bal = voucher[redeem.voucher].bal + 0
          /\ \A u \in Vouchers : voucher'[u].bal = voucher[u].bal
      BY <1>1, <2>1, <3>1
    <3>3. wallet' = wallet + 0 + (Held' - Held) /\ Held' \in Int
      BY <1>2, <2>1, <3>1
    <3> QED BY <1>3, <2>1, <3>2, <3>3
  <2>3. CASE RedeemFails
    <3> DEFINE v == redeem.voucher
    <3>1. wallet' = wallet /\ voucher' = [voucher EXCEPT ![v] = AddBalance(voucher[v], Redeemed)]
      BY <2>3 DEF RedeemFails
    <3>2. voucher'[v].bal = voucher[v].bal + Redeemed
          /\ \A u \in Vouchers \ {v} : voucher'[u].bal = voucher[u].bal
      BY <1>1, <2>1, <3>1 DEF AddBalance
    <3>3. wallet' = wallet + Redeemed + (Held' - Held) /\ Held' \in Int
      BY <1>2, <2>1, <3>1
    <3> QED BY <1>2, <1>3, <2>1, <3>2, <3>3
  <2> QED BY <1>8, <2>2, <2>3 DEF RedeemStep
<1>9. ASSUME CooldownEnds PROVE Balanced'
  BY <1>9, QuietBalances DEF CooldownEnds, books, sdk, world, Held
<1> QED BY <1>4, <1>5, <1>6, <1>7, <1>8, <1>9

\* The worker reads, goes on, or finds a payment that was made before.
LEMMA WorkerQuiet ==
    ASSUME IInv, IInv', Balanced,
           Query \/ SplitsDone \/ Gate \/ GateOpens \/ GateStaysShut \/ QueryAbandoned
             \/ RepriceDone \/ QueryPending \/ PaysDone \/ Wake
             \/ (\E i \in DOMAIN rows : Acquire(i)) \/ ParseFails \/ QuoteFits \/ Release
             \/ SendAgain \/ SendFails \/ (\E v \in Vouchers : SkipVoucher(v))
    PROVE  Balanced'
<1>1. UNCHANGED <<rows, payment, wallet, dropped, voucher, redeem>>
  BY DEF Query, SplitsDone, Gate, GateOpens, GateStaysShut, QueryAbandoned, RepriceDone,
         QueryPending, PaysDone, Wake, Acquire, ParseFails, QuoteFits, Release, SendAgain,
         SendFails, SkipVoucher, books, sdk, world
<1> QED BY <1>1, QuietBalances DEF Held

\* Money leaves with a payment, and comes back when one fails.
LEMMA SdkBalances ==
    ASSUME IInv, IInv', Balanced, (\E i \in DOMAIN rows : PaymentSettles(i)) \/ Send
    PROVE  Balanced'
<1>1. /\ TypeOK /\ TypeOK' /\ payment \in Seq(Payment) /\ DOMAIN payment = DOMAIN rows
      /\ \A i \in DOMAIN rows : rows[i] \in RefundTx /\ payment[i] \in Payment
      /\ wallet \in Nat /\ worker.seen \in Nat
  BY TypeParts DEF IInv, Workers
<1>2. /\ TotalBal \in Int /\ TotalNet \in Int /\ Held \in Int /\ dropped \in Int /\ Surplus \in Int
      /\ \A i \in DOMAIN rows : RowExplains(rows[i]) \in Int /\ BookedOut(i) \in Int
  <2>1. \A i \in DOMAIN rows : BookedOut(i) \in Int
    BY <1>1 DEF BookedOut, RefundTx
  <2> QED BY <1>1, <2>1, NetTypes, TypeParts, RefundAssumption
\* What is out for one row changes, and the wallet with it.
<1>3. ASSUME NEW i \in DOMAIN rows, NEW p \in Payment, payment' = [payment EXCEPT ![i] = p],
             NEW before \in Int, NEW after \in Int, before = Out(i),
             after = IF p.st \in {"pending", "completed"} THEN p.amount + p.fee ELSE 0,
             wallet' = wallet + before - after, UNCHANGED <<rows, voucher, redeem, dropped>>
      PROVE  Balanced'
  <2>1. \A j \in DOMAIN rows \ {i} : RowNet(j)' = RowNet(j)
    BY <1>1, <1>3 DEF RowNet, RowExplains, BookedOut, Out
  <2>2. RowNet(i)' = RowExplains(rows[i]) + (BookedOut(i) - after)
    <3>1. payment'[i] = p
      BY <1>1, <1>3
    <3>2. Out(i)' = after /\ BookedOut(i)' = BookedOut(i) /\ RowExplains(rows[i])' = RowExplains(rows[i])
      BY <1>3, <3>1 DEF Out, BookedOut, RowExplains
    <3> QED BY <3>2 DEF RowNet
  <2>3. TotalNet' = TotalNet + (RowNet(i)' - RowNet(i))
    BY <1>1, <1>3, <2>1, NetChange
  <2>4. RowNet(i) = RowExplains(rows[i]) + (BookedOut(i) - before)
    BY <1>3 DEF RowNet
  <2>5. TotalBal' = TotalBal /\ Held' = Held
    BY <1>3 DEF TotalBal, Held
  <2>6. RowNet(i)' - RowNet(i) = before - after
    BY <1>2, <1>3, <2>2, <2>4
  <2>7. Balanced' <=> wallet' = TotalBal' + TotalNet' + Held' + Surplus + dropped
    BY <1>3 DEF Balanced
  <2>8. TotalNet' = TotalNet + (before - after)
    BY ONLY <2>3, <2>6
  <2>9. wallet = TotalBal + TotalNet + Held + Surplus + dropped
    BY DEF Balanced
  <2>10. wallet' = wallet + before - after
    BY <1>3
  <2>11. wallet' = TotalBal + (TotalNet + (before - after)) + Held + Surplus + dropped
    <3>1. /\ TotalBal \in Int /\ TotalNet \in Int /\ Held \in Int /\ dropped \in Int
          /\ Surplus \in Int /\ before \in Int /\ after \in Int
      BY <1>2, <1>3
    <3> QED BY ONLY <2>9, <2>10, <3>1
  <2> QED BY <2>5, <2>7, <2>8, <2>11
<1>4. ASSUME NEW i \in DOMAIN rows, PaymentSettles(i) PROVE Balanced'
  <2>1. payment[i].st = "pending" /\ Out(i) = payment[i].amount + payment[i].fee /\ Out(i) \in Int
    BY <1>1, <1>4 DEF PaymentSettles, Out, Payment
  <2>2. UNCHANGED <<rows, voucher, redeem, dropped>>
    BY <1>4 DEF PaymentSettles, books, world
  <2>3. CASE payment' = [payment EXCEPT ![i].st = "completed"] /\ UNCHANGED wallet
    <3> DEFINE p == [payment[i] EXCEPT !.st = "completed"]
    <3>1. /\ p \in Payment /\ p.st = "completed" /\ p.amount = payment[i].amount
          /\ p.fee = payment[i].fee /\ payment' = [payment EXCEPT ![i] = p]
      BY <1>1, <2>3 DEF Payment
    <3>2. wallet' = wallet + Out(i) - Out(i)
      BY <1>1, <2>1, <2>3
    <3> HIDE DEF p
    <3>3. Out(i) = IF p.st \in {"pending", "completed"} THEN p.amount + p.fee ELSE 0
      BY <2>1, <3>1
    <3> QED BY <1>3, <2>1, <2>2, <3>1, <3>2, <3>3
  <2>4. CASE /\ payment' = [payment EXCEPT ![i].st = "failed"]
             /\ wallet' = wallet + payment[i].amount + payment[i].fee
    <3> DEFINE p == [payment[i] EXCEPT !.st = "failed"]
    <3>1. p \in Payment /\ p.st = "failed" /\ payment' = [payment EXCEPT ![i] = p]
      BY <1>1, <2>4 DEF Payment
    <3> DEFINE after == 0
    <3>2. wallet' = wallet + Out(i) - after /\ after \in Int
      BY <1>1, <2>1, <2>4 DEF Payment
    <3> HIDE DEF p
    <3>3. after = IF p.st \in {"pending", "completed"} THEN p.amount + p.fee ELSE 0
      BY <3>1
    <3> HIDE DEF after
    <3> QED BY <1>3, <2>1, <2>2, <3>1, <3>2, <3>3
  <2> QED BY <1>4, <2>3, <2>4 DEF PaymentSettles
<1>5. ASSUME Send PROVE Balanced'
  <2> DEFINE a == worker.at
  <2>1. PICK st \in {"pending", "completed"}, fee \in Quotes :
          /\ worker.pc = "send" /\ payment[a].st = "none"
          /\ payment' = [payment EXCEPT ![a] =
                           [st |-> st, amount |-> rows[a].amount, fee |-> fee]]
          /\ wallet' = wallet - rows[a].amount - fee
          /\ UNCHANGED <<rows, voucher, redeem, dropped>>
    BY <1>5 DEF Send, Goto, Row, books, world
  <2>2. a \in DOMAIN rows
    BY <2>1, TypeParts DEF IInv, CurrentOK, Busy, Paying, Sending, Workers
  <2> DEFINE p == [st |-> st, amount |-> rows[a].amount, fee |-> fee]
             after == rows[a].amount + fee
  <2>3. p \in Payment /\ rows[a].amount \in Nat /\ fee \in Nat /\ after \in Int
    BY <1>1, <2>2, RefundAssumption DEF Payment, RefundTx
  <2>4. Out(a) = 0 /\ Out(a) \in Int
    BY <2>1 DEF Out
  <2>5. after = IF p.st \in {"pending", "completed"} THEN p.amount + p.fee ELSE 0
    OBVIOUS
  <2>6. wallet' = wallet + Out(a) - after
    BY SMTT(30), <1>1, <2>1, <2>3, <2>4
  <2>7. payment' = [payment EXCEPT ![a] = p]
    BY <2>1
  <2> HIDE DEF p, a, after
  <2> QED BY ZenonT(60), <1>3, <2>1, <2>2, <2>3, <2>4, <2>5, <2>6, <2>7
<1> QED BY <1>4, <1>5

\* What a row explains, and what the books say has left the wallet for it.
Stands(r) == RowExplains(r) + (IF r.refunded THEN r.amount + r.actual ELSE 0)

\* One row is written, and stands for what it stood for.
LEMMA WriteBalances ==
    ASSUME IInv, IInv', Balanced, NEW i \in DOMAIN rows, NEW r \in RefundTx,
           rows' = [rows EXCEPT ![i] = r], Stands(r) = Stands(rows[i]),
           UNCHANGED <<payment, voucher, redeem, wallet, dropped>>
    PROVE  Balanced'
<1>1. /\ rows \in Seq(RefundTx) /\ rows[i] \in RefundTx /\ payment[i] \in Payment
      /\ \A j \in DOMAIN rows : RowNet(j) \in Int
  BY TypeParts, NetTypes DEF IInv
<1>2. DOMAIN rows' = DOMAIN rows /\ rows'[i] = r /\ \A j \in DOMAIN rows : j # i => rows'[j] = rows[j]
  BY <1>1, OneRow
<1>3. RowNet(i)' = RowNet(i)
  <2>1. /\ RowExplains(r) \in Int /\ RowExplains(rows[i]) \in Int /\ Out(i) \in Int
        /\ (IF r.refunded THEN r.amount + r.actual ELSE 0) \in Int /\ BookedOut(i) \in Int
    <3>1. ASSUME NEW x \in RefundTx
          PROVE  RowExplains(x) \in Int /\ (IF x.refunded THEN x.amount + x.actual ELSE 0) \in Int
      BY <3>1 DEF RowExplains, RefundTx
    <3>2. Out(i) \in Int
      BY <1>1 DEF Out, Payment
    <3> QED BY <1>1, <3>1, <3>2 DEF BookedOut
  <2>2. RowNet(i)' = RowExplains(r) + ((IF r.refunded THEN r.amount + r.actual ELSE 0) - Out(i))
    BY <1>2 DEF RowNet, RowExplains, BookedOut, Out
  <2>3. RowNet(i) = RowExplains(rows[i]) + (BookedOut(i) - Out(i))
    BY DEF RowNet
  <2>4. Stands(r) = RowExplains(r) + (IF r.refunded THEN r.amount + r.actual ELSE 0)
        /\ Stands(rows[i]) = RowExplains(rows[i]) + BookedOut(i)
    BY DEF Stands, BookedOut
  <2> QED BY ONLY <2>1, <2>2, <2>3, <2>4, Stands(r) = Stands(rows[i])
<1>4. \A j \in DOMAIN rows : j # i => RowNet(j)' = RowNet(j)
  BY <1>2 DEF RowNet, RowExplains, BookedOut, Out
<1> QED BY <1>2, <1>3, <1>4, RowsBalance

\* A repriced row, a failed one and a booked one stand for what they stood for.
LEMMA RowBalances ==
    ASSUME IInv, IInv', Balanced,
           (\E i \in DOMAIN rows : Reprice(i))
             \/ PrepareFails \/ MarkSendFailed \/ MarkInFlight \/ MarkPaid
    PROVE  Balanced'
<1>1. ASSUME NEW i \in DOMAIN rows, Reprice(i) PROVE Balanced'
  <2>1. rows[i] \in RefundTx /\ TypeOK
    BY TypeParts DEF IInv
  <2>2. Abandoned(rows[i]) /\ ~rows[i].refunded /\ rows[i].fee >= 0
    BY <1>1 DEF IInv, ListOK, RowOK, Abandoned, Reprice
  <2> DEFINE r == Repriced(rows[i])
  <2>3. /\ r \in RefundTx /\ RowExplains(r) = RowExplains(rows[i])
        /\ r.refunded => r.amount = 0 /\ r.actual = 0
    BY <2>1, <2>2, RepricedOK
  <2>4. /\ rows' = [rows EXCEPT ![i] = r]
        /\ UNCHANGED <<payment, voucher, redeem, wallet, dropped>>
    BY <1>1 DEF Reprice, sdk, world
  <2> HIDE DEF r
  <2>5. Stands(r) = Stands(rows[i])
    BY <2>2, <2>3 DEF Stands
  <2> QED BY <2>3, <2>4, <2>5, WriteBalances
<1>2. ASSUME PrepareFails \/ MarkSendFailed \/ MarkInFlight \/ MarkPaid PROVE Balanced'
  <2> DEFINE a == worker.at
             row == rows[a]
  <2>1. worker.pc \in Paying /\ UNCHANGED <<payment, voucher, redeem, wallet, dropped>>
    BY <1>2 DEF PrepareFails, MarkSendFailed, MarkInFlight, MarkPaid, MarkFailed, Goto, Paying,
                Sending, sdk, world
  <2>2. a \in DOMAIN rows /\ ~row.refunded /\ row.retries < MaxRetries
    BY <2>1, TypeParts DEF IInv, CurrentOK, Busy, Workers
  <2>3. row \in RefundTx /\ payment[a] \in Payment
    BY <2>2, TypeParts DEF IInv
  <2>4. CASE PrepareFails \/ MarkSendFailed
    <3> DEFINE r == [row EXCEPT !.inFlight = FALSE, !.retries = row.retries + 1]
    <3>1. rows' = [rows EXCEPT ![a] = [row EXCEPT !.inFlight = FALSE, !.retries = @ + 1]]
      BY <2>2, <2>4 DEF PrepareFails, MarkSendFailed, MarkFailed
    <3>2. rows' = [rows EXCEPT ![a] = r]
      BY <2>3, <3>1 DEF RefundTx
    <3>3. /\ r \in RefundTx /\ r.refunded = row.refunded /\ r.amount = row.amount
          /\ r.fee = row.fee /\ r.dust = row.dust /\ r.actual = row.actual
      <4>1. row.retries + 1 \in 0 .. MaxRetries
        BY <2>2, <2>3, RefundAssumption DEF RefundTx
      <4> QED BY <2>3, <4>1 DEF RefundTx
    <3> HIDE DEF r
    <3>4. Stands(r) = Stands(row)
      BY <3>3 DEF Stands, RowExplains
    <3> HIDE DEF row
    <3> QED BY <2>1, <2>2, <3>2, <3>3, <3>4, WriteBalances DEF row
  <2>5. CASE MarkInFlight
    <3> DEFINE r == [row EXCEPT !.inFlight = TRUE, !.keyed = TRUE]
    <3>1. rows' = [rows EXCEPT ![a] = r]
      BY <2>2, <2>5 DEF MarkInFlight
    <3>2. /\ r \in RefundTx /\ r.refunded = row.refunded /\ r.amount = row.amount
          /\ r.fee = row.fee /\ r.dust = row.dust /\ r.actual = row.actual
      BY <2>3 DEF RefundTx
    <3> HIDE DEF r
    <3>3. Stands(r) = Stands(row)
      BY <3>2 DEF Stands, RowExplains
    <3> QED BY <2>1, <2>2, <3>1, <3>2, <3>3, WriteBalances
  <2>6. CASE MarkPaid
    <3> DEFINE actual == payment[a].fee
               r == [row EXCEPT !.refunded = TRUE, !.inFlight = FALSE,
                                !.actual = actual, !.fee = row.fee - actual]
    <3>1. rows' = [rows EXCEPT ![a] = r]
      BY <2>6 DEF MarkPaid, Row
    <3>2. actual \in Nat /\ row.fee \in Int /\ row.dust \in Int /\ row.amount \in Int
      BY <2>3 DEF RefundTx, Payment
    <3>3. /\ r \in RefundTx /\ r.refunded /\ r.amount = row.amount
          /\ r.fee = row.fee - actual /\ r.dust = row.dust /\ r.actual = actual
      <4>1. row.fee - actual \in Int
        BY <3>2
      <4> HIDE DEF actual
      <4> QED BY <2>3, <3>2, <4>1 DEF RefundTx
    <3> HIDE DEF r, actual
    <3>4. Stands(r) = Stands(row)
      BY <2>2, <3>2, <3>3 DEF Stands, RowExplains
    <3> QED BY <2>1, <2>2, <3>1, <3>3, <3>4, WriteBalances
  <2> QED BY <1>2, <2>4, <2>5, <2>6
<1> QED BY <1>1, <1>2

\* At the start no flag that is lifted counts.
LEMMA ResetBalances ==
    ASSUME IInv, IInv', Balanced, ResetKeyedInFlight
    PROVE  Balanced'
<1>1. /\ rows' = [i \in DOMAIN rows |->
                    [rows[i] EXCEPT !.inFlight = @ /\ (rows[i].refunded \/ ~rows[i].keyed)]]
      /\ UNCHANGED <<payment, voucher, redeem, wallet, dropped>>
  BY DEF ResetKeyedInFlight, sdk, world
<1>2. DOMAIN rows' = DOMAIN rows
  BY <1>1
<1>3. ASSUME NEW i \in DOMAIN rows PROVE RowNet(i)' = RowNet(i)
  <2>1. rows[i] \in RefundTx
    BY TypeParts DEF IInv
  <2>2. /\ rows'[i].refunded = rows[i].refunded /\ rows'[i].amount = rows[i].amount
        /\ rows'[i].fee = rows[i].fee /\ rows'[i].dust = rows[i].dust
        /\ rows'[i].actual = rows[i].actual
    BY <1>1, <2>1 DEF RefundTx
  <2> QED BY <1>1, <2>2 DEF RowNet, RowExplains, BookedOut, Out
<1> QED BY <1>1, <1>2, <1>3, RowsBalance

\* What a split takes from a voucher, its rows explain, but for what is dropped.
LEMMA SplitBalances ==
    ASSUME IInv, IInv', Balanced, NEW v \in Vouchers, SplitExpired(v) \/ SplitRegular(v)
    PROVE  Balanced'
<1>1. PICK new : Making(v, new)
  BY SplitMakes
<1>2. PICK line \in VoucherRow : voucher' = [voucher EXCEPT ![v] = line] /\ line.bal = 0
  BY SplitMakes
<1>3. UNCHANGED <<wallet, redeem>>
  BY SplitMakes DEF world
<1>4. TypeOK /\ TypeOK' /\ voucher \in [Vouchers -> VoucherRow] /\ voucher[v].bal \in Int
  BY TypeParts DEF IInv, VoucherRow
<1> DEFINE made == SumFunction([j \in DOMAIN new |-> RowExplains(new[j])])
<1>5. TotalNet' = TotalNet + made /\ made + dropped' = voucher[v].bal + dropped
  <2>1. /\ new \in Seq(RefundTx) /\ made + dropped' = voucher[v].bal + dropped
        /\ \A j \in DOMAIN new : new[j].refunded => new[j].amount = 0 /\ new[j].actual = 0
    BY <1>1, <1>4, Makes
  <2>2. Insert(new)
    BY <1>1 DEF Making
  <2> QED BY <1>4, <2>1, <2>2, NetAppend
<1>6. TotalBal' = TotalBal + (0 - voucher[v].bal)
  <2>1. voucher'[v].bal = 0 /\ \A u \in Vouchers \ {v} : voucher'[u].bal = voucher[u].bal
    BY <1>2, <1>4
  <2> QED BY <1>4, <2>1, BalChange
<1>7. Held' = Held
  BY <1>3 DEF Held
<1>8. made \in Int
  <2>0. new \in Seq(RefundTx)
    BY <1>1, <1>4, Makes
  <2>1. \A j \in DOMAIN new : RowExplains(new[j]) \in Int
    <3>1. \A x \in RefundTx : RowExplains(x) \in Int
      BY DEF RowExplains, RefundTx
    <3>2. \A j \in DOMAIN new : new[j] \in RefundTx
      BY <2>0
    <3> QED BY <3>1, <3>2
  <2>2. IsFiniteSet(DOMAIN new)
    <3>1. DOMAIN new = 1 .. Len(new) /\ Len(new) \in Nat
      BY <2>0
    <3> QED BY <3>1, FS_Interval
  <2> DEFINE f == [j \in DOMAIN new |-> RowExplains(new[j])]
  <2>3. f \in [DOMAIN new -> Int]
    BY <2>1
  <2> HIDE DEF f
  <2>4. SumFunction(f) \in Int
    BY <2>2, <2>3, SumType
  <2> QED BY <2>4 DEF f
<1>9. /\ TotalBal \in Int /\ TotalNet \in Int /\ Held \in Int /\ wallet \in Int
      /\ dropped \in Int /\ dropped' \in Int /\ Surplus \in Int
  <2>1. dropped' \in Nat
    BY <1>1, <1>4, Makes
  <2> QED BY <1>4, <2>1, NetTypes, TypeParts, RefundAssumption
<1> HIDE DEF made
<1> QED BY <1>3, <1>4, <1>5, <1>6, <1>7, <1>8, <1>9 DEF Balanced

\* A crash loses nothing: what the redeem had taken is held until it is given back.
LEMMA CrashBalances ==
    ASSUME IInv, IInv', Balanced, Crash
    PROVE  Balanced'
<1>1. redeem' = [redeem EXCEPT !.st = IF redeem.st = "debited" THEN "lost" ELSE redeem.st]
      /\ redeem \in [st : {"none", "debited", "done", "lost"}, voucher : Vouchers \cup {"none"}]
  BY DEF IInv, TypeOK, Crash
<1>2. Held' = Held
  BY <1>1 DEF Held
<1>3. UNCHANGED <<rows, payment, wallet, dropped, voucher>>
  BY DEF Crash, books, sdk
<1> QED BY <1>2, <1>3, QuietBalances

\* At first there is no row, and the wallet has what the vouchers hold and the surplus.
LEMMA InitBalanced == Init => Balanced
<1> SUFFICES ASSUME Init PROVE Balanced
  OBVIOUS
<1>1. rows = <<>> /\ DOMAIN rows = {} /\ dropped = 0 /\ Held = 0
  BY DEF Init, Held
<1>2. TotalNet = 0
  <2> DEFINE f == [i \in DOMAIN rows |-> RowNet(i)]
  <2>1. SumFunction(f) = SumFunctionOnSet(f, {})
    <3>1. DOMAIN f = {}
      BY <1>1
    <3> HIDE DEF f
    <3> QED BY <3>1 DEF SumFunction
  <2> QED BY <2>1, SumOnEmpty DEF TotalNet
<1>3. TotalBal = SumFunction([v \in Vouchers |-> InitBalance])
  <2>1. [v \in Vouchers |-> voucher[v].bal] = [v \in Vouchers |-> InitBalance]
    BY DEF Init, Created
  <2> QED BY <2>1 DEF TotalBal
<1>4. wallet = TotalBal + Surplus
  BY <1>3 DEF Init
<1>5. TotalBal \in Int /\ Surplus \in Int
  BY InitIInv, NetTypes, RefundAssumption DEF IInv
<1> QED BY <1>1, <1>2, <1>4, <1>5 DEF Balanced

\* Each step keeps the books.
LEMMA StepBalanced == IInv /\ Balanced /\ [Next]_vars => Balanced'
<1> SUFFICES ASSUME IInv, Balanced, [Next]_vars PROVE Balanced'
  OBVIOUS
<1>1. IInv'
  BY StepIInv
<1>2. CASE UNCHANGED vars
  BY <1>1, <1>2, QuietBalances DEF vars, books, sdk, world, Held
<1>3. CASE World \/ RedeemStep \/ CooldownEnds
  BY <1>1, <1>3, WorldBalances, SdkBalances DEF World
<1>4. CASE WorkerStep
  BY <1>1, <1>4, WorkerQuiet, SdkBalances, RowBalances, ResetBalances, SplitBalances
     DEF WorkerStep, Split, Batch, PayRefund
<1>5. CASE Crash
  BY <1>1, <1>5, CrashBalances
<1> QED BY <1>2, <1>3, <1>4, <1>5 DEF Next

\* Whatever the worker, redeems, deposits and crashes do between each other's steps, and
\* however often a payout is tried, the wallet has what the books explain, but for what
\* is paid and not booked yet, or booked and failed, or was dropped (refund.go:217-275).
THEOREM Closes == Spec => []BooksClose
<1>1. Init => IInv /\ Balanced
  BY InitIInv, InitBalanced
<1>2. IInv /\ Balanced /\ [Next]_vars => (IInv /\ Balanced)'
  BY StepIInv, StepBalanced
<1>3. IInv /\ Balanced => BooksClose
  BY BalancedIsBooks DEF IInv
<1> QED BY <1>1, <1>2, <1>3, PTL DEF Spec
-----------------------------------------------------------------------------
(* Each row is a payout                                                    *)

PayoutSteps == \A q \in DOMAIN rows' : [PayoutOf(q)!Next]_(PayoutOf(q)!payout)

\* A row of which neither the table nor the SDK learns anything makes no step
\* (refund.go:434-480).
LEMMA PayoutStands ==
    ASSUME NEW q \in DOMAIN rows, q \in DOMAIN rows',
           rows'[q] = rows[q], payment'[q] = payment[q]
    PROVE  UNCHANGED PayoutOf(q)!payout
BY DEF PayoutOf!payout, MoneyOf, SaidOf

\* A row that is written before it is booked learns something, is booked as paid, or is
\* kept as dust (refund.go:529-605, db.go:1040-1095).
LEMMA RowRevised ==
    ASSUME NEW q \in DOMAIN rows, q \in DOMAIN rows', ~rows[q].refunded,
           payment'[q] = payment[q],
           rows'[q].refunded /\ rows'[q].amount > 0 => payment[q].st # "none"
    PROVE  PayoutOf(q)!Next
<1> DEFINE said == SaidOf(q)
<1>1. said = "open" /\ MoneyOf(q)' = MoneyOf(q)
  BY DEF SaidOf, MoneyOf
<1>2. CASE ~rows'[q].refunded
  <2>1. said' = "open"
    BY <1>2 DEF SaidOf
  <2> QED BY <1>1, <2>1 DEF PayoutOf!Next, PayoutOf!Revise
<1>3. CASE rows'[q].refunded /\ rows'[q].amount > 0
  <2>1. said' = "paid" /\ MoneyOf(q) # "kept"
    BY <1>3 DEF SaidOf, MoneyOf
  <2> QED BY <1>1, <2>1 DEF PayoutOf!Next, PayoutOf!SayPaid, PayoutOf!Say
<1>4. CASE rows'[q].refunded /\ ~(rows'[q].amount > 0)
  <2>1. said' = "retained"
    BY <1>4 DEF SaidOf
  <2> QED BY <1>1, <2>1 DEF PayoutOf!Next, PayoutOf!Retain, PayoutOf!Say
<1> QED BY <1>2, <1>3, <1>4

\* One row is written, and every other payout stands.
LEMMA WritePayouts ==
    ASSUME TypeOK, NEW i \in DOMAIN rows, NEW r, rows' = [rows EXCEPT ![i] = r],
           ~rows[i].refunded, UNCHANGED payment,
           r.refunded /\ r.amount > 0 => payment[i].st # "none"
    PROVE  PayoutSteps
<1>1. /\ DOMAIN rows' = DOMAIN rows /\ rows'[i] = r
      /\ \A j \in DOMAIN rows : j # i => rows'[j] = rows[j]
  BY TypeParts
<1> SUFFICES ASSUME NEW q \in DOMAIN rows
             PROVE  [PayoutOf(q)!Next]_(PayoutOf(q)!payout)
  BY <1>1 DEF PayoutSteps
<1>2. CASE q = i
  BY <1>1, <1>2, RowRevised
<1>3. CASE q # i
  BY <1>1, <1>3, PayoutStands
<1> QED BY <1>2, <1>3

\* The SDK pays a row that is not booked and has no payment, and a payment that had
\* been reported as pending ends (refund.go:581-601).
LEMMA SdkPayouts ==
    ASSUME IInv, (\E i \in DOMAIN rows : PaymentSettles(i)) \/ Send
    PROVE  PayoutSteps
<1>1. /\ UNCHANGED rows /\ DOMAIN payment = DOMAIN rows
      /\ \A i \in DOMAIN rows : payment[i] \in Payment
  BY TypeParts DEF IInv, PaymentSettles, Send, books
<1> SUFFICES ASSUME NEW q \in DOMAIN rows
             PROVE  [PayoutOf(q)!Next]_(PayoutOf(q)!payout)
  BY <1>1 DEF PayoutSteps
<1>2. SaidOf(q)' = SaidOf(q)
  BY <1>1 DEF SaidOf
<1>3. CASE payment'[q] = payment[q]
  BY <1>1, <1>3, PayoutStands
<1>4. ASSUME NEW i \in DOMAIN rows, PaymentSettles(i), payment'[q] # payment[q]
      PROVE  [PayoutOf(q)!Next]_(PayoutOf(q)!payout)
  <2>1. q = i /\ payment[q].st = "pending" /\ payment'[q].st \in {"completed", "failed"}
    BY <1>1, <1>4 DEF PaymentSettles, Payment
  <2>2. MoneyOf(q) = "out" /\ MoneyOf(q)' \in {"out", "back"}
    BY <2>1 DEF MoneyOf
  <2> QED BY <1>1, <1>2, <2>2 DEF PayoutOf!Next, PayoutOf!Bounce, PayoutOf!payout
<1>5. CASE Send /\ payment'[q] # payment[q]
  <2>1. worker.at \in DOMAIN rows /\ worker.pc = "send"
    <3>1. worker.pc = "send" /\ worker.at # 0
      BY <1>5 DEF Send, Goto, IInv, CurrentOK, Busy, Paying, Sending
    <3> QED BY <3>1, TypeParts DEF IInv, Workers
  <2>2. q = worker.at /\ payment[q].st = "none" /\ payment'[q].st \in {"pending", "completed"}
    BY <1>1, <1>5, <2>1 DEF Send
  <2>3. MoneyOf(q) = "kept" /\ MoneyOf(q)' = "out"
    BY <2>2 DEF MoneyOf
  <2>4. SaidOf(q) = "open"
    BY <2>1, <2>2 DEF IInv, CurrentOK, Paying, Sending, SaidOf
  <2> QED BY <1>1, <1>2, <2>3, <2>4 DEF PayoutOf!Next, PayoutOf!PayOut
<1> QED BY <1>3, <1>4, <1>5

\* The rows that are made of a balance are payouts that start, with the debit of that
\* balance (refund.go:217-275, 330-380).
LEMMA InsertPayouts ==
    ASSUME TypeOK, NEW new \in Seq(RefundTx), Insert(new),
           \A j \in DOMAIN new : new[j].refunded => new[j].amount = 0
    PROVE  PayoutSteps
<1> DEFINE none == [i \in DOMAIN new |-> NoPayment]
           m == Len(rows)
<1>1. /\ rows \in Seq(RefundTx) /\ payment \in Seq(Payment) /\ Len(payment) = m
      /\ DOMAIN rows = 1 .. m /\ m \in Nat
  BY TypeParts DEF TypeOK
<1>2. none \in Seq(Payment) /\ Len(none) = Len(new) /\ DOMAIN none = DOMAIN new
  <2>1. none \in [DOMAIN new -> Payment]
    BY DEF NoPayment, Payment
  <2> HIDE DEF none
  <2> QED BY <2>1
<1>3. rows' = rows \o new /\ payment' = payment \o none
  BY DEF Insert
<1> HIDE DEF none
<1>4. /\ DOMAIN rows' = 1 .. m + Len(new) /\ Len(new) \in Nat /\ DOMAIN new = 1 .. Len(new)
      /\ \A j \in DOMAIN rows : rows'[j] = rows[j]
      /\ \A j \in DOMAIN new : rows'[m + j] = new[j]
  BY <1>1, <1>3, Appended
<1>5. /\ \A j \in DOMAIN rows : payment'[j] = payment[j]
      /\ \A j \in DOMAIN new : payment'[m + j] = none[j]
  <2>1. DOMAIN payment = DOMAIN rows
    BY TypeParts
  <2> QED BY <1>1, <1>2, <1>3, <2>1, Appended
<1> SUFFICES ASSUME NEW q \in DOMAIN rows'
             PROVE  [PayoutOf(q)!Next]_(PayoutOf(q)!payout)
  BY DEF PayoutSteps
<1>6. CASE q \in DOMAIN rows
  BY <1>4, <1>5, <1>6, PayoutStands
<1>7. CASE q \notin DOMAIN rows
  <2>1. PICK j \in DOMAIN new : q = m + j
    <3>1. q \in 1 .. m + Len(new) /\ ~(q \in 1 .. m)
      BY <1>1, <1>4, <1>7
    <3>2. q - m \in 1 .. Len(new) /\ q = m + (q - m)
      BY <1>1, <1>4, <3>1
    <3> QED BY <1>4, <3>2
  <2>2. rows'[q] = new[j] /\ payment'[q].st = "none"
    BY <1>4, <1>5, <2>1 DEF none, NoPayment
  <2>3. MoneyOf(q)' = "kept"
    BY <2>2 DEF MoneyOf
  <2>4. SaidOf(q)' \in {"open", "retained"}
    <3>1. new[j].refunded => new[j].amount = 0
      BY <2>1
    <3> QED BY <2>2, <3>1 DEF SaidOf
  <2> QED BY <1>7, <2>3, <2>4 DEF PayoutOf!Next, PayoutOf!Take
<1> QED BY <1>6, <1>7

\* The worker writes to a row that is not booked yet: a price, a mark, a failure, or
\* that it was paid (refund.go:529-605, db.go:1040-1095).
LEMMA RowPayouts ==
    ASSUME IInv, (\E i \in DOMAIN rows : Reprice(i))
                   \/ PrepareFails \/ MarkSendFailed \/ MarkInFlight \/ MarkPaid
    PROVE  PayoutSteps
<1>1. ASSUME NEW i \in DOMAIN rows, Reprice(i) PROVE PayoutSteps
  <2>1. rows[i] \in RefundTx /\ TypeOK
    BY TypeParts DEF IInv
  <2>2. Abandoned(rows[i]) /\ ~rows[i].refunded /\ rows[i].fee >= 0
    BY <1>1 DEF IInv, ListOK, RowOK, Abandoned, Reprice
  <2> DEFINE r == Repriced(rows[i])
  <2>3. ~(r.refunded /\ r.amount > 0)
    BY <2>1, <2>2, RepricedOK
  <2>4. rows' = [rows EXCEPT ![i] = r] /\ UNCHANGED payment
    BY <1>1 DEF Reprice, sdk
  <2> HIDE DEF r
  <2> QED BY <2>1, <2>2, <2>3, <2>4, WritePayouts
<1>2. ASSUME PrepareFails \/ MarkSendFailed \/ MarkInFlight \/ MarkPaid PROVE PayoutSteps
  <2> DEFINE a == worker.at
             row == rows[a]
  <2>1. worker.pc \in Paying /\ UNCHANGED payment
    BY <1>2 DEF PrepareFails, MarkSendFailed, MarkInFlight, MarkPaid, MarkFailed, Goto, Paying,
                Sending, sdk
  <2>2. a \in DOMAIN rows /\ ~row.refunded /\ row \in RefundTx /\ TypeOK
    BY <2>1, TypeParts DEF IInv, CurrentOK, Busy, Workers
  <2>3. CASE PrepareFails \/ MarkSendFailed
    <3> DEFINE r == [row EXCEPT !.inFlight = FALSE, !.retries = row.retries + 1]
    <3>1. rows' = [rows EXCEPT ![a] = [row EXCEPT !.inFlight = FALSE, !.retries = @ + 1]]
      BY <2>2, <2>3 DEF PrepareFails, MarkSendFailed, MarkFailed
    <3>2. rows' = [rows EXCEPT ![a] = r] /\ ~r.refunded
      BY <2>2, <3>1 DEF RefundTx
    <3> HIDE DEF r
    <3> QED BY <2>1, <2>2, <3>2, WritePayouts
  <2>4. CASE MarkInFlight
    <3> DEFINE r == [row EXCEPT !.inFlight = TRUE, !.keyed = TRUE]
    <3>1. rows' = [rows EXCEPT ![a] = r]
      BY <2>2, <2>4 DEF MarkInFlight
    <3>2. ~r.refunded
      BY <2>2 DEF RefundTx
    <3> HIDE DEF r
    <3> QED BY <2>1, <2>2, <3>1, <3>2, WritePayouts
  <2>5. CASE MarkPaid
    <3> DEFINE actual == payment[a].fee
               r == [row EXCEPT !.refunded = TRUE, !.inFlight = FALSE,
                                !.actual = actual, !.fee = row.fee - actual]
    <3>1. rows' = [rows EXCEPT ![a] = r]
      BY <2>5 DEF MarkPaid, Row
    <3>2. payment[a].st # "none"
      BY <2>5 DEF MarkPaid, Goto, IInv, CurrentOK
    <3> HIDE DEF r
    <3> QED BY <2>1, <2>2, <3>1, <3>2, WritePayouts
  <2> QED BY <1>2, <2>3, <2>4, <2>5
<1> QED BY <1>1, <1>2

\* At the start only the flag of a row that is not booked is lifted (refund.go:16-24).
LEMMA ResetPayouts ==
    ASSUME IInv, ResetKeyedInFlight
    PROVE  PayoutSteps
<1>1. /\ rows' = [i \in DOMAIN rows |->
                    [rows[i] EXCEPT !.inFlight = @ /\ (rows[i].refunded \/ ~rows[i].keyed)]]
      /\ UNCHANGED payment
  BY DEF ResetKeyedInFlight, sdk
<1>2. DOMAIN rows' = DOMAIN rows
  BY <1>1
<1> SUFFICES ASSUME NEW q \in DOMAIN rows
             PROVE  [PayoutOf(q)!Next]_(PayoutOf(q)!payout)
  BY <1>2 DEF PayoutSteps
<1>3. CASE rows[q].refunded
  <2>1. rows'[q] = rows[q]
    BY <1>3, ResetKeeps DEF RefundedStay
  <2> QED BY <1>1, <1>2, <2>1, PayoutStands
<1>4. CASE ~rows[q].refunded
  <2>1. rows'[q].refunded = rows[q].refunded
    <3>1. rows[q] \in RefundTx
      BY TypeParts DEF IInv
    <3> QED BY <1>1, <3>1 DEF RefundTx
  <2> QED BY <1>1, <1>2, <1>4, <2>1, RowRevised
<1> QED BY <1>3, <1>4

\* Every step is a step of each payout, or leaves it alone (refund.go:16-623).
LEMMA PayoutStep == IInv /\ [Next]_vars => PayoutSteps
<1> SUFFICES ASSUME IInv, [Next]_vars PROVE PayoutSteps
  OBVIOUS
<1>1. ASSUME UNCHANGED <<rows, payment>> PROVE PayoutSteps
  BY <1>1, PayoutStands DEF PayoutSteps
<1>2. ASSUME NEW v \in Vouchers, SplitExpired(v) \/ SplitRegular(v) PROVE PayoutSteps
  <2>1. PICK new : Making(v, new)
    BY <1>2, SplitMakes
  <2>2. /\ new \in Seq(RefundTx) /\ TypeOK
        /\ \A j \in DOMAIN new : new[j].refunded => new[j].amount = 0
    BY <2>1, Makes DEF IInv
  <2> QED BY <2>1, <2>2, InsertPayouts DEF Making
<1>3. ASSUME Query \/ SplitsDone \/ Gate \/ GateOpens \/ GateStaysShut \/ QueryAbandoned
               \/ RepriceDone \/ QueryPending \/ PaysDone \/ Wake
               \/ (\E i \in DOMAIN rows : Acquire(i)) \/ ParseFails \/ QuoteFits \/ Release
               \/ SendAgain \/ SendFails \/ (\E v \in Vouchers : SkipVoucher(v))
      PROVE  UNCHANGED <<rows, payment>>
  BY <1>3 DEF Query, SplitsDone, Gate, GateOpens, GateStaysShut, QueryAbandoned, RepriceDone,
       QueryPending, PaysDone, Wake, Acquire, ParseFails, QuoteFits, Release, SendAgain,
       SendFails, SkipVoucher, books, sdk
<1>4. ASSUME NEW v \in Vouchers,
             VoucherExpires(v) \/ RegularComesDue(v) \/ Fund(v) \/ RedeemDebits(v)
      PROVE  UNCHANGED <<rows, payment>>
  BY <1>4 DEF VoucherExpires, RegularComesDue, Fund, RedeemDebits, sdk
<1>5. ASSUME RedeemPays \/ RedeemFails \/ CooldownEnds \/ Crash
      PROVE  UNCHANGED <<rows, payment>>
  BY <1>5 DEF RedeemPays, RedeemFails, RedeemEnds, CooldownEnds, Crash, books, sdk
<1>6. CASE World
  BY <1>1, <1>4, <1>6, SdkPayouts DEF World
<1>7. CASE WorkerStep
  BY <1>1, <1>2, <1>3, <1>7, ResetPayouts, RowPayouts, SdkPayouts
     DEF WorkerStep, Split, Batch, PayRefund
<1>8. CASE UNCHANGED vars
  BY <1>1, <1>8 DEF vars, books, sdk
<1> QED BY <1>1, <1>5, <1>6, <1>7, <1>8 DEF Next, RedeemStep

\* Every row of refund_txs is a payout as Payout specifies it, from the split that makes
\* it, for any number of rows, retries and crashes (refund.go:16-623).
THEOREM EveryRefundIsAPayout == Spec => ImplementsPayout
<1> DEFINE Steps == \A i \in DOMAIN rows' : [PayoutOf(i)!Next]_(PayoutOf(i)!payout)
<1>1. IInv /\ [Next]_vars => [Steps]_vars
  BY PayoutStep DEF PayoutSteps
<1>2. ImplementsPayout <=> [][Steps]_vars
  BY DEF ImplementsPayout
<1> QED BY <1>1, <1>2, InitIInv, StepIInv, PTL DEF Spec
-----------------------------------------------------------------------------
(* One payment at a time, and a pass that ends                             *)

\* The lock is the worker's while it is in payRefund, and the redeem's from its debit
\* until it is settled.
LockIsHeld ==
    /\ owner = "worker" <=> worker.pc \in Busy
    /\ owner = "redeem" <=> redeem.st = "debited"

\* How far the worker has come: the phases of a pass are behind each other, the regular
\* pass is behind the expired one, and the sleep is behind both.
StageOf(w) ==
    (IF w.pass = "expired" /\ w.pc # "sleep" THEN 10 ELSE 0)
      + (CASE w.pc = "boot"    -> 9
           [] w.pc = "query"   -> 8
           [] w.pc = "split"   -> 7
           [] w.pc = "gate"    -> 6
           [] w.pc = "books"   -> 5
           [] w.pc = "requeue" -> 4
           [] w.pc = "reprice" -> 3
           [] w.pc = "pending" -> 2
           [] w.pc = "sleep"   -> 0
           [] OTHER            -> 1)

\* Steps that one payRefund has yet to take.
StepsOf(w) ==
    CASE w.pc = "parse"             -> 5
      [] w.pc = "mark"              -> 4
      [] w.pc = "send"              -> 3
      [] w.pc \in {"sent", "failed"} -> 2
      [] w.pc = "release"           -> 1
      [] OTHER                      -> 0

\* What is left of the list of the phase that the worker is in.
LeftOf(w) ==
    CASE w.pc = "split"              -> Cardinality(w.list)
      [] w.pc = "reprice"            -> Cardinality(w.todo)
      [] w.pc \in {"pay"} \cup Busy  -> 6 * Cardinality(w.todo) + StepsOf(w)
      [] OTHER                       -> 0

Lower(w, than) ==
    \/ StageOf(w) < StageOf(than)
    \/ StageOf(w) = StageOf(than) /\ LeftOf(w) < LeftOf(than)

WorkerType ==
    /\ worker \in [pc : WorkerPC, pass : {"expired", "regular"}, seen : Nat,
                   list : SUBSET Vouchers, todo : SUBSET DOMAIN rows,
                   at : {0} \cup DOMAIN rows]
    /\ IsFiniteSet(worker.list) /\ Cardinality(worker.list) \in Nat
    /\ IsFiniteSet(worker.todo) /\ Cardinality(worker.todo) \in Nat

\* The lists of the worker are finite: vouchers, and rows (refund.go:56-77, 403-476).
LEMMA ListsEnd == TypeOK => WorkerType
<1> SUFFICES ASSUME TypeOK PROVE WorkerType
  OBVIOUS
<1>1. /\ worker \in [pc : WorkerPC, pass : {"expired", "regular"}, seen : Nat,
                     list : SUBSET Vouchers, todo : SUBSET DOMAIN rows,
                     at : {0} \cup DOMAIN rows]
      /\ rows \in Seq(RefundTx)
  BY DEF TypeOK
<1>2. IsFiniteSet(DOMAIN rows)
  <2>1. DOMAIN rows = 1 .. Len(rows) /\ Len(rows) \in Nat
    BY <1>1
  <2> QED BY <2>1, FS_Interval
<1>3. worker.list \in SUBSET Vouchers /\ worker.todo \in SUBSET DOMAIN rows
  BY <1>1
<1>4. IsFiniteSet(worker.list) /\ IsFiniteSet(worker.todo)
  BY <1>2, <1>3, VoucherAssumption, FS_Subset
<1> QED BY <1>1, <1>4, FS_CardinalityType DEF WorkerType

\* A number that only falls, in a phase, is one that cannot fall for ever.
LEMMA RankType ==
    ASSUME WorkerType PROVE StageOf(worker) \in 0 .. 19 /\ LeftOf(worker) \in Nat
<1>1. StepsOf(worker) \in Nat
  BY DEF StepsOf
<1>2. 6 * Cardinality(worker.todo) + StepsOf(worker) \in Nat
  BY <1>1 DEF WorkerType
<1>3. LeftOf(worker) \in Nat
  BY <1>2 DEF WorkerType, LeftOf
<1> QED BY <1>3 DEF StageOf

PhaseStep ==
    \/ ResetKeyedInFlight \/ Query \/ SplitsDone \/ Gate \/ GateOpens \/ GateStaysShut
    \/ QueryAbandoned \/ RepriceDone \/ QueryPending \/ PaysDone

\* Between two sleeps the worker goes from phase to phase (refund.go:403-476).
LEMMA PhaseEnds ==
    ASSUME WorkerType, PhaseStep
    PROVE  /\ StageOf(worker') < StageOf(worker)
           /\ UNCHANGED <<owner, redeem>> /\ worker.pc \notin Busy /\ worker'.pc \notin Busy
<1> USE DEF Busy, Paying, Sending
<1>0. worker \in [pc : WorkerPC, pass : {"expired", "regular"}, seen : Nat,
                  list : SUBSET Vouchers, todo : SUBSET DOMAIN rows,
                  at : {0} \cup DOMAIN rows]
  BY DEF WorkerType
<1>1. UNCHANGED <<owner, redeem>>
  BY DEF PhaseStep, ResetKeyedInFlight, Query, SplitsDone, Gate, GateOpens, GateStaysShut,
         QueryAbandoned, RepriceDone, QueryPending, PaysDone, world
<1>2. ASSUME ~(GateStaysShut \/ PaysDone)
      PROVE  /\ \/ worker.pc = "boot" /\ worker'.pc = "query"
                \/ worker.pc = "query" /\ worker'.pc = "split"
                \/ worker.pc = "split" /\ worker'.pc = "gate"
                \/ worker.pc = "gate" /\ worker'.pc = "books"
                \/ worker.pc = "books" /\ worker'.pc \in {"requeue", "pending"}
                \/ worker.pc = "requeue" /\ worker'.pc = "reprice"
                \/ worker.pc = "reprice" /\ worker'.pc = "pending"
                \/ worker.pc = "pending" /\ worker'.pc = "pay"
             /\ worker'.pass = worker.pass
  <2>1. CASE ResetKeyedInFlight \/ SplitsDone \/ RepriceDone
    BY <1>0, <2>1 DEF ResetKeyedInFlight, SplitsDone, RepriceDone, Goto
  <2>2. CASE Query
    BY <1>0, <2>2 DEF Query
  <2>3. CASE QueryAbandoned
    BY <1>0, <2>3 DEF QueryAbandoned
  <2>4. CASE QueryPending
    BY <1>0, <2>4 DEF QueryPending
  <2>5. CASE Gate \/ GateOpens
    BY <1>0, <2>5 DEF Gate, GateOpens
  <2> QED BY <1>2, <2>1, <2>2, <2>3, <2>4, <2>5 DEF PhaseStep
<1>3. CASE GateStaysShut \/ PaysDone
  <2>1. worker.pc \in {"books", "pay"} /\ worker' = PassDone
    BY <1>3 DEF GateStaysShut, PaysDone
  <2>2. /\ worker.pass = "expired" => worker'.pc = "query" /\ worker'.pass = "regular"
        /\ worker.pass = "regular" => worker'.pc = "sleep"
    BY <1>0, <2>1 DEF PassDone
  <2> QED BY <1>0, <1>1, <2>1, <2>2 DEF StageOf
<1>4. CASE ~(GateStaysShut \/ PaysDone)
  BY <1>0, <1>1, <1>2, <1>4 DEF StageOf
<1> QED BY <1>3, <1>4

\* Each phase goes through its list once (refund.go:79-83, 277-300, 442-472).
LEMMA ListGoesDown ==
    ASSUME WorkerType,
           \/ \E v \in Vouchers : SplitExpired(v) \/ SplitRegular(v) \/ SkipVoucher(v)
           \/ \E i \in DOMAIN rows : Reprice(i)
    PROVE  /\ StageOf(worker') = StageOf(worker) /\ LeftOf(worker') < LeftOf(worker)
           /\ UNCHANGED <<owner, redeem>> /\ worker.pc \notin Busy /\ worker'.pc \notin Busy
<1> USE DEF WorkerType, Busy, Paying, Sending
<1>1. ASSUME NEW v \in Vouchers, SplitExpired(v) \/ SplitRegular(v) \/ SkipVoucher(v)
      PROVE  /\ worker.pc = "split" /\ v \in worker.list
             /\ worker' = [worker EXCEPT !.list = @ \ {v}]
             /\ UNCHANGED <<owner, redeem>>
  BY <1>1 DEF SplitExpired, SplitRegular, SkipVoucher, NextVoucher, InsertSplits, Insert, world
<1>2. ASSUME NEW v \in Vouchers, SplitExpired(v) \/ SplitRegular(v) \/ SkipVoucher(v)
      PROVE  /\ StageOf(worker') = StageOf(worker) /\ LeftOf(worker') < LeftOf(worker)
             /\ worker.pc = "split" /\ worker'.pc = "split"
  <2>1. Cardinality(worker.list \ {v}) = Cardinality(worker.list) - 1
    BY <1>1, <1>2, FS_RemoveElement
  <2>2. /\ worker'.list = worker.list \ {v} /\ worker'.pc = "split" /\ worker.pc = "split"
        /\ worker'.pass = worker.pass
    BY <1>1, <1>2
  <2> QED BY <2>1, <2>2 DEF StageOf, LeftOf
<1>3. ASSUME NEW i \in DOMAIN rows, Reprice(i)
      PROVE  /\ StageOf(worker') = StageOf(worker) /\ LeftOf(worker') < LeftOf(worker)
             /\ worker.pc = "reprice" /\ worker'.pc = "reprice" /\ UNCHANGED <<owner, redeem>>
  <2>1. /\ worker.pc = "reprice" /\ i \in worker.todo /\ UNCHANGED <<owner, redeem>>
        /\ worker' = [worker EXCEPT !.todo = @ \ {i}]
    BY <1>3 DEF Reprice, world
  <2>2. Cardinality(worker.todo \ {i}) = Cardinality(worker.todo) - 1
    BY <2>1, FS_RemoveElement
  <2>3. /\ worker'.todo = worker.todo \ {i} /\ worker'.pc = "reprice"
        /\ worker'.pass = worker.pass
    BY <2>1
  <2> QED BY <2>1, <2>2, <2>3 DEF StageOf, LeftOf
<1> QED BY <1>1, <1>2, <1>3

\* payRefund is entered with the lock and left without it, on every way through it, and
\* each of its steps is one fewer (refund.go:509-623).
LEMMA PaymentEnds ==
    ASSUME WorkerType, PayRefund
    PROVE  /\ StageOf(worker') = StageOf(worker) /\ LeftOf(worker') < LeftOf(worker)
           /\ UNCHANGED redeem
           /\ \/ /\ worker.pc \notin Busy /\ worker'.pc \in Busy
                 /\ owner = "nobody" /\ owner' = "worker"
              \/ /\ worker.pc \in Busy /\ worker'.pc \in Busy /\ UNCHANGED owner
              \/ /\ worker.pc \in Busy /\ worker'.pc \notin Busy
                 /\ owner = "worker" /\ owner' = "cooldown"
<1> USE DEF Busy, Paying, Sending
<1>0. /\ worker \in [pc : WorkerPC, pass : {"expired", "regular"}, seen : Nat,
                     list : SUBSET Vouchers, todo : SUBSET DOMAIN rows,
                     at : {0} \cup DOMAIN rows]
      /\ Cardinality(worker.todo) \in Nat /\ IsFiniteSet(worker.todo)
  BY DEF WorkerType
<1>1. ASSUME NEW i \in DOMAIN rows, Acquire(i)
      PROVE  /\ StageOf(worker') = StageOf(worker) /\ LeftOf(worker') < LeftOf(worker)
             /\ worker.pc = "pay" /\ worker'.pc = "parse" /\ UNCHANGED redeem
             /\ owner = "nobody" /\ owner' = "worker"
  <2>1. /\ worker.pc = "pay" /\ i \in worker.todo /\ UNCHANGED redeem
        /\ owner = "nobody" /\ owner' = "worker"
        /\ worker' = [worker EXCEPT !.pc = "parse", !.todo = @ \ {i}, !.at = i]
    BY <1>1 DEF Acquire, Lock!Acquire, world
  <2>2. Cardinality(worker.todo \ {i}) = Cardinality(worker.todo) - 1
    BY <1>0, <2>1, FS_RemoveElement
  <2>3. /\ worker'.todo = worker.todo \ {i} /\ worker'.pc = "parse"
        /\ worker'.pass = worker.pass
    BY <1>0, <2>1
  <2> QED BY <1>0, <2>1, <2>2, <2>3 DEF StageOf, LeftOf, StepsOf
<1>2. CASE ~\E i \in DOMAIN rows : Acquire(i)
  <2>1. UNCHANGED redeem
    BY <1>2 DEF PayRefund, ParseFails, PrepareFails, QuoteFits, MarkInFlight, Send, SendAgain,
         SendFails, MarkSendFailed, MarkPaid, Release, MarkFailed, world
  <2>2. /\ worker'.pass = worker.pass /\ worker'.todo = worker.todo
        /\ \/ /\ \/ worker.pc = "parse" /\ worker'.pc \in {"mark", "release"}
                 \/ worker.pc = "mark" /\ worker'.pc = "send"
                 \/ worker.pc = "send" /\ worker'.pc \in {"sent", "failed"}
                 \/ worker.pc \in {"sent", "failed"} /\ worker'.pc = "release"
              /\ UNCHANGED owner
           \/ /\ worker.pc = "release" /\ worker'.pc = "pay"
              /\ owner = "worker" /\ owner' = "cooldown"
    <3>1. CASE ParseFails \/ PrepareFails \/ MarkInFlight \/ SendAgain \/ SendFails
               \/ MarkSendFailed
      BY <1>0, <3>1 DEF ParseFails, PrepareFails, MarkInFlight, SendAgain, SendFails,
           MarkSendFailed, MarkFailed, Goto
    <3>2. CASE QuoteFits
      BY <1>0, <3>2 DEF QuoteFits
    <3>3. CASE Send
      BY <1>0, <3>3 DEF Send, Goto
    <3>4. CASE MarkPaid
      BY <1>0, <3>4 DEF MarkPaid, Goto
    <3>5. CASE Release
      BY <1>0, <3>5 DEF Release, Lock!Pay
    <3> QED BY <1>2, <3>1, <3>2, <3>3, <3>4, <3>5 DEF PayRefund
  <2> QED BY <1>0, <2>1, <2>2 DEF StageOf, LeftOf, StepsOf
<1> QED BY <1>1, <1>2

\* The lock follows the one who pays: nobody else takes it or gives it back
\* (refund.go:509-521, handlers.go:798-802).
LEMMA LockStep ==
    ASSUME TypeOK, LockIsHeld, [Next]_vars PROVE LockIsHeld'
<1> USE DEF LockIsHeld, Busy, Paying, Sending
<1>0. /\ WorkerType
      /\ redeem \in [st : {"none", "debited", "done", "lost"}, voucher : Vouchers \cup {"none"}]
  BY ListsEnd DEF TypeOK
<1>1. CASE World
  <2>1. ASSUME NEW v \in Vouchers, VoucherExpires(v) \/ RegularComesDue(v) \/ Fund(v)
        PROVE  UNCHANGED <<owner, worker, redeem>>
    BY <2>1 DEF VoucherExpires, RegularComesDue, Fund, world
  <2>2. ASSUME NEW v \in Vouchers, RedeemDebits(v)
        PROVE  /\ owner = "nobody" /\ owner' = "redeem"
               /\ redeem.st = "none" /\ redeem'.st = "debited" /\ UNCHANGED worker
    BY <2>2 DEF RedeemDebits, Lock!Acquire
  <2>3. ASSUME NEW i \in DOMAIN rows, PaymentSettles(i)
        PROVE  UNCHANGED <<owner, worker, redeem>>
    BY <2>3 DEF PaymentSettles, world
  <2> QED BY <1>1, <2>1, <2>2, <2>3 DEF World
<1>2. CASE RedeemPays \/ RedeemFails
  <2>1. /\ owner = "redeem" /\ owner' = "cooldown"
        /\ redeem'.st = "done" /\ UNCHANGED worker
    BY <1>0, <1>2 DEF RedeemPays, RedeemFails, RedeemEnds, Lock!Pay
  <2> QED BY <2>1
<1>3. CASE CooldownEnds
  <2>1. owner = "cooldown" /\ owner' = "nobody" /\ UNCHANGED <<worker, redeem>>
    BY <1>3 DEF CooldownEnds, Lock!Release, world
  <2> QED BY <2>1
<1>4. CASE Wake
  <2>1. worker.pc = "sleep" /\ worker'.pc = "query" /\ UNCHANGED <<owner, redeem>>
    BY <1>0, <1>4 DEF Wake, Goto, world, WorkerType
  <2> QED BY <2>1
<1>5. CASE PhaseStep
  BY <1>0, <1>5, PhaseEnds
<1>6. CASE \/ \E v \in Vouchers : SplitExpired(v) \/ SplitRegular(v) \/ SkipVoucher(v)
           \/ \E i \in DOMAIN rows : Reprice(i)
  BY <1>0, <1>6, ListGoesDown
<1>7. CASE PayRefund
  BY <1>0, <1>7, PaymentEnds
<1>8. CASE Crash
  <2>1. owner' = "nobody" /\ worker'.pc = "boot" /\ redeem'.st # "debited"
    BY <1>0, <1>8 DEF Crash, Boot
  <2> QED BY <2>1
<1>9. CASE UNCHANGED vars
  BY <1>9 DEF vars, world
<1> QED
  BY <1>1, <1>2, <1>3, <1>4, <1>5, <1>6, <1>7, <1>8, <1>9
     DEF Next, RedeemStep, WorkerStep, Split, Batch, PhaseStep

\* The worker pays one refund at a time, under the lock, and while it does no redeem is
\* between its debit and its end: what it reads of the row and of the quote still holds
\* when it sends (refund.go:509-623, handlers.go:798-922).
THEOREM LockFollowsPayment == Spec => []LockIsHeld
<1>1. Init => LockIsHeld
  BY DEF Init, LockIsHeld, Boot, Busy, Paying, Sending
<1>2. IInv /\ LockIsHeld /\ [Next]_vars => LockIsHeld'
  BY LockStep DEF IInv
<1> QED BY <1>1, <1>2, InitIInv, StepIInv, PTL DEF Spec

\* Every step of the worker but its wake-up has it further on, and nothing but a crash
\* sends it back.
PassRunsOut ==
    /\ WorkerStep => Wake \/ Lower(worker', worker)
    /\ WorkerStep \/ worker' = worker \/ crashes' = crashes + 1

\* A pass of the worker ends: whatever fails, and whatever goes on beside it, only so
\* many steps bring it from its wake-up to its sleep, for a phase and what is left of
\* its list are natural numbers of which the first, or else the second, falls
\* (refund.go:403-623).
THEOREM PassEnds ==
    Spec => /\ [](StageOf(worker) \in 0 .. 19 /\ LeftOf(worker) \in Nat)
            /\ [][PassRunsOut]_vars
<1>1. IInv => StageOf(worker) \in 0 .. 19 /\ LeftOf(worker) \in Nat
  BY ListsEnd, RankType DEF IInv
<1>2. ASSUME IInv, Next PROVE PassRunsOut
  <2>0. WorkerType
    BY <1>2, ListsEnd DEF IInv
  <2>1. CASE WorkerStep
    <3>1. CASE Wake
      BY <2>1, <3>1 DEF PassRunsOut
    <3>2. CASE PhaseStep
      BY <2>0, <2>1, <3>2, PhaseEnds DEF PassRunsOut, Lower
    <3>3. CASE \/ \E v \in Vouchers : SplitExpired(v) \/ SplitRegular(v) \/ SkipVoucher(v)
               \/ \E i \in DOMAIN rows : Reprice(i)
      BY <2>0, <2>1, <3>3, ListGoesDown DEF PassRunsOut, Lower
    <3>4. CASE PayRefund
      BY <2>0, <2>1, <3>4, PaymentEnds DEF PassRunsOut, Lower
    <3> QED BY <2>1, <3>1, <3>2, <3>3, <3>4 DEF WorkerStep, Split, Batch, PhaseStep
  <2>2. CASE ~WorkerStep
    <3>1. CASE World \/ RedeemStep \/ CooldownEnds
      <4>1. worker' = worker
        BY <3>1 DEF World, RedeemStep, VoucherExpires, RegularComesDue, Fund, RedeemDebits,
             PaymentSettles, RedeemPays, RedeemFails, RedeemEnds, CooldownEnds
      <4> QED BY <2>2, <4>1 DEF PassRunsOut
    <3>2. CASE Crash
      BY <2>2, <3>2 DEF Crash, PassRunsOut
    <3> QED BY <1>2, <2>2, <3>1, <3>2 DEF Next
  <2> QED BY <2>1, <2>2
<1>3. IInv /\ [Next]_vars => [PassRunsOut]_vars
  BY <1>2
<1> QED BY <1>1, <1>3, InitIInv, StepIInv, PTL DEF Spec
=============================================================================
