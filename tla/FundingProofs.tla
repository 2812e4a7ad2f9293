----------------------------- MODULE FundingProofs -----------------------------
(***************************************************************************)
(* Funding and transfers, for any number of vouchers, invoices, transfers  *)
(* and crashes: first that a fingerprint pays once.  The table             *)
(* redemption_fingerprints is what makes that inductive: a transfer that   *)
(* is done has its fingerprint there (Recorded), and none commits whose    *)
(* fingerprint is there already (handlers.go:627-640).  Then what a        *)
(* booking may change; then the types, for which no estimate and no fee    *)
(* may be above its invoice (MoneyInv); the books; immediate refunds; and  *)
(* that nothing but the loss of its vouchers has a payment forgotten; and  *)
(* that start-up has an end (BootMoves) but for such a payment, which      *)
(* keeps the server down for good (Ahead).                                 *)
(***************************************************************************)
EXTENDS Funding, Sums

Calls == [pc : {"idle", "begin", "done", "refused"},
          src : Vouchers \cup {"none"}, dst : SUBSET Vouchers,
          batch : BOOLEAN, msat : Nat,
          fp : Fingerprints \cup {"none"}]

\* Each call of handleTransfer is a record of the type that TypeOK gives it.
CallsOK == transfer \in [Transfers -> Calls]

DoneOnce(t) == transfer[t].pc = "done" /\ transfer[t].src \in Unique

\* What a transfer from a voucher with unique_redemptions has done is in the table.
Recorded ==
    \A t \in Transfers : DoneOnce(t) => <<transfer[t].src, transfer[t].fp>> \in used

IInv == CallsOK /\ Recorded /\ OnePerFingerprint

-----------------------------------------------------------------------------
\* A call that ends keeps its source and its fingerprint.
LEMMA EndedType ==
    ASSUME CallsOK, NEW t \in Transfers, NEW to \in {"done", "refused"}
    PROVE  /\ Ended(t, to) \in Calls
           /\ Ended(t, to).pc = to
           /\ Ended(t, to).src = transfer[t].src
           /\ Ended(t, to).fp = transfer[t].fp
<1>1. transfer[t].src \in Vouchers \cup {"none"} /\ transfer[t].fp \in Fingerprints \cup {"none"}
  BY DEF CallsOK, Calls
<1> QED BY <1>1 DEF Ended, NoTransfer, Calls

\* Nothing to show for a step that leaves the table alone and lets no transfer
\* become done.
LEMMA NoneDone ==
    ASSUME IInv, CallsOK', UNCHANGED used,
           \A t \in Transfers : transfer'[t].pc = "done" => transfer'[t] = transfer[t]
    PROVE  IInv'
BY DEF IInv, Recorded, OnePerFingerprint, DoneOnce

\* The steps of the rest of the world, of invoices and of their payments.
LEMMA OthersKeep ==
    ASSUME World \/ (\E i \in Invoices, msat \in Amounts :
                       DepositInvoice(i, msat) \/ \E to \in Vouchers \cup Batches :
                                                    FundInvoice(i, to, msat))
                 \/ \E i \in Invoices : EventStep(i)
    PROVE  UNCHANGED <<transfer, used>>
BY DEF World, VoucherExpires, Redeemed, RefundExpired, Pay, DepositInvoice, FundInvoice,
       NewInvoice, EventStep, EventRead, EventConfirm, EventDeposit, EventGoes

\* The steps of start-up.
LEMMA BootKeeps ==
    ASSUME BootStep
    PROVE  (UNCHANGED <<transfer, used>>) \/ Stop
BY DEF BootStep, Start, OpenDB, BootList, BootCaughtUp, BootListDeposits, BootSkipsDeposits,
       BootServes, BootConfirm, BootRefuses, BootDeposit, BootGoto

\* A stop ends every call that is under way, and undoes what it had not committed.
LEMMA StopKeeps ==
    ASSUME IInv, Stop
    PROVE  IInv'
<1>1. \A t \in Transfers : Ended(t, "refused") \in Calls /\ Ended(t, "refused").pc = "refused"
  BY EndedType DEF IInv
<1>2. /\ used' = used
      /\ transfer' = [t \in Transfers |->
           IF transfer[t].pc = "begin" THEN Ended(t, "refused") ELSE transfer[t]]
  BY DEF Stop
<1>3. CallsOK'
  BY <1>1, <1>2 DEF IInv, CallsOK
<1>4. \A t \in Transfers : transfer'[t].pc = "done" => transfer'[t] = transfer[t]
  BY <1>1, <1>2
<1> QED BY <1>2, <1>3, <1>4, NoneDone

\* A transfer commits: its fingerprint was not in the table, and is now.
LEMMA CommitKeeps ==
    ASSUME IInv, NEW t \in Transfers, TransferCommit(t)
    PROVE  IInv'
<1> DEFINE key(c) == <<transfer[c].src, transfer[c].fp>>
<1>1. /\ transfer[t].pc = "begin"
      /\ transfer' = [transfer EXCEPT ![t] = Ended(t, "done")]
      /\ transfer[t].src \in Unique => key(t) \notin used
      /\ used' = IF transfer[t].src \in Unique THEN used \cup {key(t)} ELSE used
  BY DEF TransferCommit, EndTransfer, Committable, Fresh
<1>2. /\ Ended(t, "done") \in Calls
      /\ Ended(t, "done").src = transfer[t].src
      /\ Ended(t, "done").fp = transfer[t].fp
  BY EndedType DEF IInv
<1>3. CallsOK'
  BY <1>1, <1>2 DEF IInv, CallsOK
<1>4. /\ transfer'[t].src = transfer[t].src /\ transfer'[t].fp = transfer[t].fp
      /\ \A q \in Transfers \ {t} : transfer'[q] = transfer[q]
  BY <1>1, <1>2 DEF IInv, CallsOK
<1>5. Recorded'
  BY <1>1, <1>4 DEF IInv, Recorded, DoneOnce
<1>6. ASSUME NEW q \in Transfers \ {t}, DoneOnce(q)', transfer[t].src \in Unique
      PROVE  key(q) # key(t)
  <2>1. key(q) \in used
    BY <1>4, <1>6 DEF IInv, Recorded, DoneOnce
  <2> QED BY <1>1, <1>6, <2>1
<1>7. OnePerFingerprint'
  BY <1>4, <1>6 DEF IInv, OnePerFingerprint, DoneOnce
<1> QED BY <1>3, <1>5, <1>7 DEF IInv

\* The invariant holds of empty tables.
LEMMA InitIInv == Init => IInv
<1> SUFFICES ASSUME Init PROVE IInv
  OBVIOUS
<1>1. NoTransfer \in Calls /\ NoTransfer.pc = "idle"
  BY DEF NoTransfer, Calls
<1> QED BY <1>1 DEF Init, IInv, CallsOK, Recorded, OnePerFingerprint, DoneOnce

\* Every step keeps it.
LEMMA StepIInv == IInv /\ [Next]_vars => IInv'
<1> SUFFICES ASSUME IInv, [Next]_vars PROVE IInv'
  OBVIOUS
<1>1. CASE UNCHANGED <<transfer, used>>
  BY <1>1 DEF IInv, CallsOK, Recorded, OnePerFingerprint, DoneOnce
<1>2. CASE Stop
  BY <1>2, StopKeeps
<1>3. CASE World \/ \E i \in Invoices : EventStep(i)
  BY <1>1, <1>3, OthersKeep
<1>4. CASE BootStep
  BY <1>1, <1>2, <1>4, BootKeeps
<1>5. ASSUME NEW t \in Transfers, NEW src \in Vouchers, NEW to \in Vouchers \cup Batches,
             NEW msat \in Amounts, NEW fp \in Fingerprints,
             TransferLookup(t, src, to, msat, fp)
      PROVE  IInv'
  <2>1. PICK call \in Calls :
          call.pc = "begin" /\ transfer' = [transfer EXCEPT ![t] = call] /\ used' = used
    <3> DEFINE call == [pc |-> "begin", src |-> src, dst |-> Living(to),
                        batch |-> to \in Batches, msat |-> msat, fp |-> fp]
    <3>1. Living(to) \subseteq Vouchers /\ msat \in Nat /\ (to \in Batches) \in BOOLEAN
      BY FundingAssumption DEF Living, Members
    <3>2. call \in Calls
      BY <3>1 DEF Calls
    <3>3. transfer' = [transfer EXCEPT ![t] = call] /\ used' = used
      BY <1>5 DEF TransferLookup
    <3> QED BY <3>2, <3>3
  <2>2. CallsOK'
    BY <2>1 DEF IInv, CallsOK
  <2>3. \A q \in Transfers : transfer'[q].pc = "done" => transfer'[q] = transfer[q]
    BY <2>1 DEF IInv, CallsOK
  <2> QED BY <2>1, <2>2, <2>3, NoneDone
<1>6. CASE Callers
  BY <1>1, <1>5, <1>6, OthersKeep DEF Callers
<1>7. ASSUME NEW t \in Transfers, TransferRollback(t) PROVE IInv'
  <2>1. used' = used /\ transfer' = [transfer EXCEPT ![t] = Ended(t, "refused")]
    BY <1>7 DEF TransferRollback, EndTransfer
  <2>2. Ended(t, "refused") \in Calls /\ Ended(t, "refused").pc = "refused"
    BY EndedType DEF IInv
  <2>3. CallsOK'
    BY <2>1, <2>2 DEF IInv, CallsOK
  <2>4. \A q \in Transfers : transfer'[q].pc = "done" => transfer'[q] = transfer[q]
    BY <2>1, <2>2 DEF IInv, CallsOK
  <2> QED BY <2>1, <2>3, <2>4, NoneDone
<1>8. ASSUME NEW t \in Transfers, TransferEnds(t) PROVE IInv'
  BY <1>7, <1>8, CommitKeeps DEF TransferEnds
<1>9. CASE BootFails \/ Crash \/ \E i \in Invoices : EventCrashes(i)
  BY <1>2, <1>9 DEF BootFails, Crash, EventCrashes
<1> QED
  BY <1>1, <1>3, <1>4, <1>6, <1>8, <1>9 DEF Next, vars

\* However many transfers with one fingerprint run at once, and wherever the server
\* stops: at most one of them has debited the voucher (handlers.go:627-640).
THEOREM PaidOncePerFingerprint == Spec => []OnePerFingerprint
<1>1. IInv => OnePerFingerprint
  BY DEF IInv
<1> QED BY <1>1, InitIInv, StepIInv, PTL DEF Spec

-----------------------------------------------------------------------------
(* The fund_txs rows are a function of the invoices, which is all that     *)
(* FundsReachTheLiving needs of the states.                                *)
Rowed == tx = [i \in Invoices |-> tx[i]]

\* What a step may do to the fund_txs: nothing, a new pending row, or one booked.
TxStep ==
    \/ UNCHANGED tx
    \/ \E i \in Invoices : \E new : tx' = [tx EXCEPT ![i] = new] /\ tx[i] = NoTx
    \/ (\E i \in Invoices : \E new : tx' = [tx EXCEPT ![i] = new]) /\ UNCHANGED voucher
    \/ \E i \in Invoices : UpdateFundTxConfirmed(i)

\* Every step is one of these.
LEMMA TxSteps == [Next]_vars => TxStep
<1> SUFFICES ASSUME [Next]_vars PROVE TxStep
  OBVIOUS
<1>1. ASSUME NEW i \in Invoices, ConfirmDeposit(i) PROVE TxStep
  <2>1. UNCHANGED voucher /\ \/ UNCHANGED tx
                             \/ \E new : tx' = [tx EXCEPT ![i] = new]
    BY <1>1 DEF ConfirmDeposit
  <2> QED BY <2>1 DEF TxStep
<1>2. CASE World
  BY <1>2 DEF World, VoucherExpires, Redeemed, RefundExpired, Pay, TxStep
<1>3. CASE Callers
  <2>1. ASSUME NEW i \in Invoices, NEW to, NEW msat, NewInvoice(i, to, msat)
        PROVE  TxStep
    BY <2>1 DEF NewInvoice, TxStep
  <2> QED BY <1>3, <2>1 DEF Callers, DepositInvoice, FundInvoice, TransferLookup, TxStep
<1>4. CASE \E t \in Transfers : TransferEnds(t)
  BY <1>4 DEF TransferEnds, TransferCommit, TransferRollback, EndTransfer, TxStep
<1>5. ASSUME NEW i \in Invoices, EventStep(i) PROVE TxStep
  <2>1. CASE EventRead(i)
    BY <2>1 DEF EventRead, TxStep
  <2>2. CASE EventConfirm(i)
    BY <2>2 DEF EventConfirm, AlreadyConfirmed, TxStep
  <2>3. CASE EventDeposit(i)
    BY <1>1, <2>3 DEF EventDeposit
  <2> QED BY <1>5, <2>1, <2>2, <2>3 DEF EventStep
<1>6. CASE Stop
  BY <1>6 DEF Stop, TxStep
<1>7. ASSUME NEW i \in Invoices, BootConfirm(i) \/ BootRefuses(i) \/ BootDeposit(i)
      PROVE  TxStep
  <2>1. CASE BootConfirm(i)
    BY <2>1 DEF BootConfirm, AlreadyConfirmed, TxStep
  <2>2. CASE BootRefuses(i)
    BY <1>6, <2>2 DEF BootRefuses
  <2>3. CASE BootDeposit(i)
    BY <1>1, <2>3 DEF BootDeposit
  <2> QED BY <1>7, <2>1, <2>2, <2>3
<1>8. CASE BootStep
  BY <1>7, <1>8 DEF BootStep, Start, OpenDB, BootList, BootCaughtUp, BootListDeposits,
       BootSkipsDeposits, BootServes, Rows, TxStep
<1>9. CASE BootFails \/ Crash \/ \E i \in Invoices : EventCrashes(i)
  BY <1>6, <1>9 DEF BootFails, Crash, EventCrashes
<1>10. CASE UNCHANGED vars
  BY <1>10 DEF vars, TxStep
<1> QED
  BY <1>2, <1>3, <1>4, <1>5, <1>8, <1>9, <1>10 DEF Next

\* The rows stay a function of the invoices.
LEMMA RowedStep == Rowed /\ [Next]_vars => Rowed'
<1>1. ASSUME Rowed, TxStep PROVE Rowed'
  BY <1>1 DEF TxStep, UpdateFundTxConfirmed, Rowed
<1> QED BY <1>1, TxSteps

\* What a booking changes is live, whichever of the event and start-up makes it.
LEMMA LivingStep ==
    ASSUME Rowed, TxStep, NEW i \in Invoices, NEW v \in Vouchers,
           tx[i].st = "pending", tx'[i].st = "confirmed", voucher'[v].bal # voucher[v].bal
    PROVE  Live(voucher[v])
<1>1. CASE UNCHANGED tx
  BY <1>1
<1>2. ASSUME NEW j \in Invoices, NEW new, tx' = [tx EXCEPT ![j] = new], tx[j] = NoTx
      PROVE  FALSE
  <2>1. i # j
    BY <1>2 DEF NoTx
  <2>2. tx'[i] = tx[i]
    BY <1>2, <2>1 DEF Rowed
  <2> QED BY <2>2
<1>3. CASE UNCHANGED voucher
  BY <1>3
<1>4. ASSUME NEW j \in Invoices, UpdateFundTxConfirmed(j) PROVE Live(voucher[v])
  <2>1. v \notin Credited(j) => voucher'[v] = voucher[v]
    BY <1>4 DEF UpdateFundTxConfirmed
  <2>2. v \in Credited(j)
    BY <2>1
  <2> QED BY <2>2 DEF Credited, Living
<1> QED BY <1>1, <1>2, <1>3, <1>4 DEF TxStep

\* Whenever an invoice is booked, by its event or by start-up, and whatever happened
\* since it was made, the balances that change are those of vouchers that are live
\* (handlers.go:1013-1026).
THEOREM BookedToTheLiving == Spec => FundsReachTheLiving
<1>1. Init => Rowed
  BY DEF Init, Rowed
<1>2. Rowed /\ [Next]_vars =>
        [\A i \in Invoices, v \in Vouchers :
           /\ tx[i].st = "pending" /\ tx'[i].st = "confirmed"
           /\ voucher'[v].bal # voucher[v].bal
           => Live(voucher[v])]_vars
  BY TxSteps, LivingStep
<1> QED BY <1>1, <1>2, RowedStep, PTL DEF Spec, FundsReachTheLiving

-----------------------------------------------------------------------------
(* What is handed out is what there was                                    *)

\* The parts that are worth paying come to no more than the whole.
LEMMA PaidBounds ==
    ASSUME NEW v \in Vouchers, NEW bal \in Nat
    PROVE  PaidOf(v, bal) \in Nat /\ PaidOf(v, bal) <= bal
<1> DEFINE gross == Splits(v, bal)
           D == 1 .. Len(Shares[v])
           paid == [k \in D |-> IF Paid(gross[k]) THEN gross[k] ELSE 0]
<1>1. Shares[v] \in Seq(Nat \ {0}) /\ Shares[v] # <<>>
  BY FundingAssumption
<1>2. gross \in [D -> Nat] /\ SumFunction(gross) = bal
  BY <1>1, SplitsAddUp DEF Splits
<1>3. IsFiniteSet(D)
  <2>1. Len(Shares[v]) \in Nat
    BY <1>1
  <2> QED BY <2>1, FS_Interval
<1>4. PaidOf(v, bal) = SumFunction(paid)
  <2>1. DOMAIN gross = D
    <3> HIDE DEF gross, D
    <3> QED BY <1>2
  <2> HIDE DEF D
  <2> QED BY <2>1 DEF PaidOf, Total
<1>5. /\ paid \in [D -> Nat] /\ paid \in [D -> Int] /\ gross \in [D -> Int]
      /\ \A k \in D : paid[k] <= gross[k]
  <2> HIDE DEF gross, D
  <2> QED BY <1>2
<1>6. SumFunction(paid) \in Nat /\ SumFunction(paid) <= SumFunction(gross)
  <2> HIDE DEF paid, gross, D
  <2> QED BY <1>3, <1>5, SumNat, SumMonotone
<1> HIDE DEF paid, gross, D
<1> QED BY <1>2, <1>4, <1>6

\* The vouchers of a batch get no more than there is, and none of them anything if
\* there is less than nothing, since Go's division rounds towards zero.
LEMMA BatchShareBounds ==
    ASSUME NEW net \in Int, NEW n \in Nat \ {0}
    PROVE  /\ BatchShare(net, n) \in Int
           /\ net >= 0 => BatchShare(net, n) >= 0 /\ n * BatchShare(net, n) <= net
           /\ net < 0 => n * BatchShare(net, n) <= 0
<1>0. Sat \in Nat \ {0}
  BY MoneyAssumption
<1>1. ASSUME NEW a \in Nat
      PROVE  \E k \in Nat : k = ((a \div n) \div Sat) * Sat /\ n * k <= a
  <2> DEFINE q == a \div n
             k == (q \div Sat) * Sat
  <2>1. q \in Nat /\ n * q <= a
    BY DivBounds
  <2>2. k \in Nat /\ k <= q
    <3> HIDE DEF q
    <3>1. q \div Sat \in Nat /\ Sat * (q \div Sat) <= q
      BY <1>0, <2>1, DivBounds
    <3> DEFINE m == q \div Sat
    <3>2. m \in Nat
      BY <3>1
    <3>3. m * Sat = Sat * m /\ m * Sat \in Nat
      <4> HIDE DEF m
      <4> QED BY <1>0, <3>2
    <3> QED BY <3>1, <3>3
  <2>3. n * k <= n * q /\ n * k \in Int /\ n * q \in Int
    <3> HIDE DEF k, q
    <3> QED BY <2>1, <2>2, ProductMonotone
  <2>4. n * k <= a
    <3> HIDE DEF k, q
    <3> QED BY <2>1, <2>3
  <2> QED BY <2>2, <2>4
<1>2. CASE net >= 0
  <2>1. PICK k \in Nat : k = ((net \div n) \div Sat) * Sat /\ n * k <= net
    BY <1>1, <1>2
  <2>2. net \div n >= 0
    BY <1>2
  <2>3. BatchShare(net, n) = k
    BY <1>2, <2>1, <2>2 DEF BatchShare, Quo
  <2> QED BY <1>2, <2>1, <2>3
<1>3. CASE net < 0
  <2> DEFINE a == -net
             q == a \div n
  <2>0. a \in Nat /\ ~(net >= 0)
    BY <1>3
  <2>1. PICK k \in Nat : k = (q \div Sat) * Sat /\ n * k <= a
    BY <1>1, <2>0
  <2>2. q \in Nat
    BY <2>0, DivBounds
  <2>3. Quo(net, n) = -q
    BY <2>0 DEF Quo
  <2>4. Quo(-q, Sat) * Sat = -k
    <3> HIDE DEF q
    <3>1. CASE q = 0
      <4>0. 0 \div Sat = 0
        BY <1>0, ZeroDiv
      <4>1. -q = 0
        <5>1. -q \in Int /\ -q + q = 0
          BY <2>2
        <5> DEFINE x == -q
        <5>2. x \in Int /\ x + 0 = 0
          BY <3>1, <5>1
        <5>3. x = 0
          <6> HIDE DEF x
          <6> QED BY <5>2
        <5> QED BY <5>3
      <4>2. k = 0
        BY <1>0, <2>1, <3>1, <4>0
      <4>3. Quo(0, Sat) * Sat = 0
        <5>1. 0 >= 0 /\ 0 * Sat = 0
          BY <1>0
        <5> QED BY <4>0, <5>1 DEF Quo
      <4> QED BY <4>1, <4>2, <4>3
    <3>2. CASE q # 0
      <4>1. ~(-q >= 0) /\ -(-q) = q /\ q \div Sat \in Nat
        BY <1>0, <2>2, <3>2, DivBounds
      <4>2. Quo(-q, Sat) = -(q \div Sat)
        BY <4>1 DEF Quo
      <4> DEFINE m == q \div Sat
      <4>3. m \in Nat
        BY <4>1
      <4>4. (-m) * Sat = -(m * Sat)
        <5> HIDE DEF m
        <5> QED BY <1>0, <4>3
      <4> QED BY <2>1, <4>2, <4>4
    <3> QED BY <3>1, <3>2
  <2>5. BatchShare(net, n) = -k
    BY <2>3, <2>4 DEF BatchShare
  <2>6. n * (-k) <= 0
    <3>1. n * (-k) = -(n * k) /\ n * k \in Nat
      OBVIOUS
    <3> QED BY <3>1
  <2> QED BY <1>3, <2>1, <2>5, <2>6
<1> QED BY <1>2, <1>3

\* The fee of a transfer is never negative (helpers.go:46-54).
LEMMA InternalFeeType ==
    ASSUME NEW amount \in Nat PROVE calculateInternalFee(amount) \in Nat
BY MoneyAssumption, FeeNat DEF calculateInternalFee

-----------------------------------------------------------------------------
(* No balance below zero, and every msat accounted for                     *)

TotalBal == SumFunction([v \in Vouchers |-> voucher[v].bal])
TotalUnbooked == SumFunction([i \in Invoices |-> Unbooked(i)])

\* Nobody pays what was not asked for, and an invoice covers the fee estimated for it.
InvoiceOK(i) ==
    /\ payment[i].done => tx[i].st # "none"
    /\ tx[i].st = "pending" => tx[i].fee <= tx[i].msat

\* A transfer under way has somewhere to go.
CallOK(t) ==
    transfer[t].pc = "begin" =>
        /\ transfer[t].src \in Vouchers
        /\ transfer[t].fp \in Fingerprints
        /\ transfer[t].dst # {}
        /\ ~transfer[t].batch => Cardinality(transfer[t].dst) = 1

\* What start-up still has to visit is paid, or a deposit.
BootTodo ==
    /\ boot.pc = "confirm" => \A i \in boot.todo : payment[i].done
    /\ boot.pc = "deposit" => \A i \in boot.todo : tx[i].to = Deposit

MoneyInv ==
    /\ TypeOK
    /\ \A i \in Invoices : InvoiceOK(i)
    /\ \A t \in Transfers : CallOK(t)
    /\ BootTodo

\* What is booked for a payment is what came, or the estimate if more came than was
\* asked for (start-up.go:122-126, breez.go:71-73).
LEMMA NetType ==
    ASSUME TypeOK, NEW i \in Invoices, InvoiceOK(i), Pending(i)
    PROVE  ActualFee(i) \in Nat /\ Net(i) \in Nat /\ ActualFee(i) <= tx[i].msat
<1>1. tx[i].msat \in Nat /\ tx[i].fee \in Nat /\ payment[i].net \in Nat
  BY DEF TypeOK
<1>2. tx[i].fee <= tx[i].msat
  BY DEF InvoiceOK, Pending
<1>3. ActualFee(i) \in Nat /\ ActualFee(i) <= tx[i].msat
  BY <1>1, <1>2 DEF ActualFee
<1> QED BY <1>1, <1>3 DEF Net

\* The vouchers of an invoice that is booked, and what each of them gets.
LEMMA ShareType ==
    ASSUME TypeOK, NEW i \in Invoices, InvoiceOK(i), Pending(i), Credited(i) # {}
    PROVE  /\ tx[i].to \in Vouchers \cup Batches
           /\ Credited(i) \subseteq Vouchers /\ IsFiniteSet(Credited(i))
           /\ Cardinality(Credited(i)) \in Nat
           /\ ShareOf(i) \in Nat
           /\ Cardinality(Credited(i)) * ShareOf(i) \in Int
           /\ Dust(i) \in Nat
<1> DEFINE n == Cardinality(Credited(i))
<1>1. Credited(i) \subseteq Members(tx[i].to) /\ Members(tx[i].to) \subseteq Vouchers
  BY DEF Credited, Living, Members
<1>2. IsFiniteSet(Credited(i)) /\ n \in Nat \ {0}
  <2>1. IsFiniteSet(Credited(i))
    BY <1>1, VoucherAssumption, FS_Subset
  <2> QED BY <2>1, FS_CardinalityType, FS_EmptySet
<1>3. tx[i].to \in Vouchers \cup Batches
  <2>1. PICK v \in Vouchers : v \in Members(tx[i].to)
    BY <1>1
  <2> QED BY <2>1, FundingAssumption DEF Members
<1>4. Net(i) \in Nat
  BY NetType
<1>5. ShareOf(i) \in Nat /\ n * ShareOf(i) <= Net(i) /\ n * ShareOf(i) \in Int
  <2>1. CASE tx[i].to \in Vouchers
    <3>1. Credited(i) = {tx[i].to}
      BY <1>1, <2>1 DEF Members
    <3>2. n = 1
      BY <3>1, FS_Singleton
    <3>3. ShareOf(i) = Net(i)
      BY <2>1 DEF ShareOf
    <3> HIDE DEF n
    <3> QED BY <1>4, <3>2, <3>3
  <2>2. CASE tx[i].to \notin Vouchers
    <3>1. ShareOf(i) = BatchShare(Net(i), n)
      BY <2>2 DEF ShareOf
    <3> HIDE DEF n
    <3>2. BatchShare(Net(i), n) \in Nat /\ n * BatchShare(Net(i), n) <= Net(i)
      BY <1>2, <1>4, BatchShareBounds
    <3> QED BY <1>2, <3>1, <3>2
  <2> QED BY <2>1, <2>2
<1>6. Dust(i) \in Nat
  <2>1. Dust(i) = Net(i) - n * ShareOf(i)
    BY DEF Dust
  <2> HIDE DEF n
  <2> QED BY <1>4, <1>5, <2>1
<1> QED BY <1>1, <1>2, <1>3, <1>5, <1>6

\* What a booking sweeps: a part of it goes into refund_txs, the rest is dropped.
LEMMA SweptType ==
    ASSUME TypeOK, NEW i \in Invoices, InvoiceOK(i), Pending(i), Credited(i) # {}
    PROVE  LET bal(v)  == voucher[v].bal + ShareOf(i)
               paid(v) == PaidOf(v, bal(v))
           IN  /\ Swept(i) \subseteq Credited(i) /\ Swept(i) \subseteq Vouchers
               /\ IsFiniteSet(Swept(i))
               /\ [v \in Swept(i) |-> paid(v)] \in [Swept(i) -> Nat]
               /\ [v \in Swept(i) |-> bal(v) - paid(v)] \in [Swept(i) -> Nat]
               /\ [v \in Swept(i) |-> -bal(v)] \in [Swept(i) -> Int]
<1>1. Swept(i) \subseteq Credited(i) /\ Credited(i) \subseteq Vouchers /\ ShareOf(i) \in Nat
  BY ShareType DEF Swept
<1>2. IsFiniteSet(Swept(i))
  BY <1>1, VoucherAssumption, FS_Subset
<1>3. \A v \in Swept(i) : voucher[v].bal + ShareOf(i) \in Nat
  BY <1>1 DEF TypeOK, VoucherRow
<1>4. \A v \in Swept(i) : /\ PaidOf(v, voucher[v].bal + ShareOf(i)) \in Nat
                          /\ PaidOf(v, voucher[v].bal + ShareOf(i)) <= voucher[v].bal + ShareOf(i)
  BY <1>1, <1>3, PaidBounds
<1> QED BY <1>1, <1>2, <1>3, <1>4

\* A booking leaves tables of their type, and its invoice as it should be.
LEMMA BookingType ==
    ASSUME TypeOK, NEW i \in Invoices, InvoiceOK(i), UpdateFundTxConfirmed(i)
    PROVE  /\ voucher' \in [Vouchers -> VoucherRow]
           /\ tx' \in [Invoices -> [st : {"none", "pending", "confirmed"},
                                    to : Vouchers \cup Batches \cup {Deposit, "none"},
                                    msat : Nat, fee : Nat]]
           /\ elsewhere' \in Nat /\ dropped' \in Nat
           /\ \A j \in Invoices \ {i} : tx'[j] = tx[j]
           /\ tx'[i] = [tx[i] EXCEPT !.st = "confirmed", !.fee = ActualFee(i)]
<1>1. Pending(i) /\ Credited(i) # {}
  BY DEF UpdateFundTxConfirmed
<1>2. ActualFee(i) \in Nat /\ ShareOf(i) \in Nat /\ Dust(i) \in Nat /\ Credited(i) \subseteq Vouchers
  BY <1>1, NetType, ShareType
<1>3. tx' = [tx EXCEPT ![i].st = "confirmed", ![i].fee = ActualFee(i)]
  BY DEF UpdateFundTxConfirmed
<1>4. voucher' \in [Vouchers -> VoucherRow]
  <2>1. voucher' = [v \in Vouchers |->
             IF v \notin Credited(i) THEN voucher[v]
             ELSE [Credit(voucher[v], ShareOf(i)) EXCEPT
                     !.bal = IF v \in Swept(i) THEN 0 ELSE @]]
    BY DEF UpdateFundTxConfirmed
  <2>2. ASSUME NEW v \in Vouchers
        PROVE  [Credit(voucher[v], ShareOf(i)) EXCEPT
                  !.bal = IF v \in Swept(i) THEN 0 ELSE @] \in VoucherRow
    <3>1. voucher[v] \in VoucherRow
      BY DEF TypeOK
    <3>2. Credit(voucher[v], ShareOf(i)) =
            [bal |-> voucher[v].bal + ShareOf(i), active |-> voucher[v].active,
             clock |-> Touched(voucher[v]), terms |-> voucher[v].terms]
      BY <1>2 DEF Credit
    <3> QED BY <1>2, <3>1, <3>2 DEF VoucherRow, Touched
  <2>3. \A v \in Vouchers : voucher[v] \in VoucherRow
    BY DEF TypeOK
  <2> QED BY <2>1, <2>2, <2>3
<1>5. elsewhere' \in Nat /\ dropped' \in Nat
  <2> DEFINE bal(v) == voucher[v].bal + ShareOf(i)
             paid == [v \in Swept(i) |-> PaidOf(v, bal(v))]
             left == [v \in Swept(i) |-> bal(v) - PaidOf(v, bal(v))]
  <2>1. paid \in [Swept(i) -> Nat] /\ left \in [Swept(i) -> Nat] /\ IsFiniteSet(Swept(i))
    BY <1>1, SweptType
  <2>2. SumFunction(paid) \in Nat /\ SumFunction(left) \in Nat
    <3> HIDE DEF paid, left
    <3> QED BY <2>1, SumNat
  <2>3. /\ elsewhere' = elsewhere + Dust(i) + SumFunction(paid)
        /\ dropped' = dropped + SumFunction(left)
    BY DEF UpdateFundTxConfirmed
  <2>4. elsewhere \in Nat /\ dropped \in Nat
    BY DEF TypeOK
  <2> HIDE DEF paid, left
  <2> QED BY <1>2, <2>2, <2>3, <2>4
<1>6. /\ \A j \in Invoices \ {i} : tx'[j] = tx[j]
      /\ tx'[i] = [tx[i] EXCEPT !.st = "confirmed", !.fee = ActualFee(i)]
  BY <1>3 DEF TypeOK
<1>7. tx' \in [Invoices -> [st : {"none", "pending", "confirmed"},
                            to : Vouchers \cup Batches \cup {Deposit, "none"},
                            msat : Nat, fee : Nat]]
  <2> DEFINE Row == [st : {"none", "pending", "confirmed"},
                     to : Vouchers \cup Batches \cup {Deposit, "none"},
                     msat : Nat, fee : Nat]
  <2>1. tx'[i] \in Row
    <3>1. tx[i] \in Row
      BY DEF TypeOK
    <3> QED BY <1>2, <1>6, <3>1
  <2>2. tx' = [j \in Invoices |-> tx'[j]]
    BY <1>3 DEF TypeOK
  <2>3. \A j \in Invoices : tx[j] \in Row
    BY DEF TypeOK
  <2> HIDE DEF Row
  <2>4. tx' \in [Invoices -> Row]
    BY <1>6, <2>1, <2>2, <2>3
  <2> QED BY <2>4 DEF Row
<1> QED BY <1>4, <1>5, <1>6, <1>7

\* What a booking credits, sweeps, drops and leaves as dust is what came, to the last
\* msat (handlers.go:962-1044, refund.go:85-130).
LEMMA BookingMoves ==
    ASSUME TypeOK, NEW i \in Invoices, InvoiceOK(i), UpdateFundTxConfirmed(i)
    PROVE  TotalBal' + elsewhere' + dropped' = TotalBal + elsewhere + dropped + Net(i)
<1> DEFINE C == Credited(i)
           W == Swept(i)
           n == Cardinality(C)
           share == ShareOf(i)
           bal(v) == voucher[v].bal + share
           old == [v \in Vouchers |-> voucher[v].bal]
           new == [v \in Vouchers |-> voucher'[v].bal]
           each == [v \in C |-> share]
           paid == [v \in W |-> PaidOf(v, bal(v))]
           left == [v \in W |-> bal(v) - PaidOf(v, bal(v))]
           out == [v \in W |-> -bal(v)]
           in1 == [v \in Vouchers |-> IF v \in C THEN each[v] ELSE 0]
           in2 == [v \in Vouchers |-> IF v \in W THEN out[v] ELSE 0]
           plus == [v \in Vouchers |-> in1[v] + in2[v]]
<1>1. Pending(i) /\ C # {}
  BY DEF UpdateFundTxConfirmed
<1>2. /\ C \subseteq Vouchers /\ IsFiniteSet(C) /\ n \in Nat /\ share \in Nat
      /\ n * share \in Int /\ Dust(i) \in Nat
  BY <1>1, ShareType
<1>3. /\ W \subseteq C /\ W \subseteq Vouchers /\ IsFiniteSet(W)
      /\ paid \in [W -> Nat] /\ left \in [W -> Nat] /\ out \in [W -> Int]
  BY <1>1, SweptType
<1>4. \A v \in Vouchers : voucher[v] \in VoucherRow /\ voucher[v].bal \in Nat
  BY DEF TypeOK, VoucherRow
<1>5. old \in [Vouchers -> Int]
  BY <1>4
<1>6. ASSUME NEW v \in Vouchers PROVE new[v] = old[v] + (in1[v] + in2[v])
  <2>1. voucher'[v] = IF v \notin C THEN voucher[v]
                      ELSE [Credit(voucher[v], share) EXCEPT !.bal = IF v \in W THEN 0 ELSE @]
    BY DEF UpdateFundTxConfirmed
  <2>2. Credit(voucher[v], share).bal = bal(v)
    BY <1>2 DEF Credit
  <2>3. voucher'[v].bal = IF v \notin C THEN voucher[v].bal ELSE IF v \in W THEN 0 ELSE bal(v)
    BY <1>2, <2>1, <2>2 DEF Credit
  <2>4. bal(v) \in Nat /\ share \in Nat /\ voucher[v].bal \in Nat
    BY <1>2, <1>4
  <2>5. /\ in1[v] = IF v \in C THEN share ELSE 0
        /\ in2[v] = IF v \in W THEN -bal(v) ELSE 0
        /\ v \in W => v \in C
    BY <1>3
  <2> QED BY <2>3, <2>4, <2>5
<1>7. in1 \in [Vouchers -> Int] /\ in2 \in [Vouchers -> Int] /\ each \in [C -> Int]
  <2>1. each \in [C -> Int]
    BY <1>2
  <2> HIDE DEF each, out
  <2> QED BY <1>3, <2>1
<1>8. plus \in [Vouchers -> Int]
  <2> HIDE DEF in1, in2
  <2> QED BY <1>7
<1>9. SumFunction(new) = SumFunction(old) + SumFunction(plus)
  <2>1. new = [v \in Vouchers |-> old[v] + plus[v]]
    <3>1. \A v \in Vouchers : plus[v] = in1[v] + in2[v]
      OBVIOUS
    <3>2. new = [v \in Vouchers |-> new[v]]
      OBVIOUS
    <3> HIDE DEF new, old, plus, in1, in2
    <3> QED BY <1>6, <3>1, <3>2
  <2> HIDE DEF new, old, plus
  <2> QED BY <1>5, <1>8, <2>1, VoucherAssumption, SumPlus
<1>10. SumFunction(plus) = SumFunction(in1) + SumFunction(in2)
  <2> HIDE DEF in1, in2
  <2> QED BY <1>7, VoucherAssumption, SumPlus
<1>11. SumFunction(in1) = n * share
  <2>1. SumFunction(in1) = SumFunction(each)
    <3> HIDE DEF each, C
    <3> QED BY <1>2, <1>7, VoucherAssumption, SumPart
  <2>2. SumFunction(each) = n * share
    <3>1. share \in Int
      BY <1>2
    <3> HIDE DEF C, share
    <3> QED BY <1>2, <3>1, SumConst
  <2> QED BY <2>1, <2>2
<1>12. SumFunction(in2) = SumFunction(out)
  <2>1. IsFiniteSet(Vouchers)
    BY VoucherAssumption
  <2> HIDE DEF out, W
  <2> QED BY <1>3, <2>1, SumPart
<1>13. /\ SumFunction(paid) \in Int /\ SumFunction(left) \in Int /\ SumFunction(out) \in Int
       /\ SumFunction(paid) + SumFunction(left) + SumFunction(out) = 0
  <2> DEFINE whole == [v \in W |-> paid[v] + left[v]]
             none == [v \in W |-> whole[v] + out[v]]
  <2>1. paid \in [W -> Int] /\ left \in [W -> Int]
    <3> HIDE DEF paid, left, W
    <3> QED BY <1>3
  <2>2. whole \in [W -> Int]
    <3> HIDE DEF paid, left, W
    <3> QED BY <2>1
  <2>3. SumFunction(whole) = SumFunction(paid) + SumFunction(left)
    <3> HIDE DEF paid, left, W
    <3> QED BY <1>3, <2>1, SumPlus
  <2>4. SumFunction(none) = SumFunction(whole) + SumFunction(out)
    <3> HIDE DEF whole, out, W
    <3> QED BY <1>3, <2>2, SumPlus
  <2>5. \A v \in W : none[v] = 0
    <3> SUFFICES ASSUME NEW v \in W PROVE none[v] = 0
      OBVIOUS
    <3>1. /\ paid[v] = PaidOf(v, bal(v)) /\ left[v] = bal(v) - PaidOf(v, bal(v))
          /\ out[v] = -bal(v) /\ none[v] = (paid[v] + left[v]) + out[v]
      OBVIOUS
    <3>2. bal(v) \in Nat
      BY <1>2, <1>3, <1>4
    <3>3. paid[v] \in Int
      <4> HIDE DEF paid, W
      <4> QED BY <2>1
    <3> DEFINE p == PaidOf(v, bal(v))
               b == bal(v)
    <3>4. p \in Int /\ none[v] = (p + (b - p)) + (-b)
      BY <3>1, <3>3
    <3>5. b \in Nat
      BY <3>2
    <3> HIDE DEF none, p, b
    <3> QED BY <3>4, <3>5
  <2>6. SumFunction(none) = 0
    <3>1. none \in [W -> Int]
      <4> HIDE DEF whole, out, W
      <4> QED BY <1>3, <2>2
    <3> HIDE DEF none, W
    <3> QED BY <1>3, <2>5, <3>1, SumZero
  <2>7. SumFunction(paid) \in Int /\ SumFunction(left) \in Int /\ SumFunction(out) \in Int
    <3> HIDE DEF paid, left, out, W
    <3> QED BY <1>3, <2>1, SumType
  <2> HIDE DEF none, whole, paid, left, out
  <2> QED BY <2>3, <2>4, <2>6, <2>7
<1>14. SumFunction(old) \in Int
  <2> HIDE DEF old
  <2> QED BY <1>5, VoucherAssumption, SumType
<1>15. /\ elsewhere' = elsewhere + Dust(i) + SumFunction(paid)
       /\ dropped' = dropped + SumFunction(left)
  BY DEF UpdateFundTxConfirmed
<1>16. Dust(i) = Net(i) - n * share /\ Net(i) \in Nat
  BY <1>1, NetType DEF Dust
<1>17. TotalBal = SumFunction(old) /\ TotalBal' = SumFunction(new)
  BY DEF TotalBal
<1>18. elsewhere \in Nat /\ dropped \in Nat
  BY DEF TypeOK
<1> DEFINE moved == n * share
<1>19. moved \in Int /\ Dust(i) = Net(i) - moved /\ SumFunction(in1) = moved
  BY <1>2, <1>11, <1>16
<1> HIDE DEF n, share, old, new, paid, left, out, in1, in2, plus, moved
<1> QED BY <1>9, <1>10, <1>12, <1>13, <1>14, <1>15, <1>16, <1>17, <1>18, <1>19

\* What the destinations of a transfer get together is not above the amount; if the fee
\* is, each of them pays for it (handlers.go:596-626).
LEMMA TransferShareType ==
    ASSUME TypeOK, NEW t \in Transfers, CallOK(t), transfer[t].pc = "begin"
    PROVE  /\ transfer[t].src \in Vouchers /\ transfer[t].msat \in Nat
           /\ transfer[t].dst \subseteq Vouchers /\ IsFiniteSet(transfer[t].dst)
           /\ Cardinality(transfer[t].dst) \in Nat
           /\ TransferShare(t) \in Int
           /\ Cardinality(transfer[t].dst) * TransferShare(t) \in Int
           /\ Cardinality(transfer[t].dst) * TransferShare(t) <= transfer[t].msat
<1> DEFINE msat == transfer[t].msat
           n == Cardinality(transfer[t].dst)
           net == msat - Fee(t)
<1>1. /\ transfer[t].src \in Vouchers /\ msat \in Nat /\ transfer[t].batch \in BOOLEAN
      /\ transfer[t].dst \subseteq Vouchers
  BY DEF TypeOK, CallOK
<1>2. IsFiniteSet(transfer[t].dst) /\ n \in Nat \ {0}
  <2>1. IsFiniteSet(transfer[t].dst)
    BY <1>1, VoucherAssumption, FS_Subset
  <2> QED BY <2>1, FS_CardinalityType, FS_EmptySet DEF CallOK
<1>3. net \in Int /\ net <= msat
  <2>1. Fee(t) \in Nat
    BY <1>1, InternalFeeType DEF Fee
  <2> QED BY <1>1, <2>1
<1>4. TransferShare(t) \in Int /\ n * TransferShare(t) \in Int /\ n * TransferShare(t) <= msat
  <2>1. CASE transfer[t].batch
    <3>1. TransferShare(t) = BatchShare(net, n)
      BY <2>1 DEF TransferShare
    <3>2. /\ BatchShare(net, n) \in Int
          /\ net >= 0 => n * BatchShare(net, n) <= net
          /\ net < 0 => n * BatchShare(net, n) <= 0
      <4> HIDE DEF net, n
      <4> QED BY <1>2, <1>3, BatchShareBounds
    <3> HIDE DEF net, n, msat
    <3> DEFINE moved == n * BatchShare(net, n)
    <3>3. moved \in Int
      BY <1>2, <3>2
    <3>4. moved <= msat
      <4>1. (net >= 0 => moved <= net) /\ (net < 0 => moved <= 0)
        BY <3>2
      <4> HIDE DEF moved
      <4> QED BY <1>1, <1>3, <3>3, <4>1
    <3> QED BY <3>1, <3>2, <3>3, <3>4
  <2>2. CASE ~transfer[t].batch
    <3>1. TransferShare(t) = net /\ n = 1
      BY <2>2 DEF TransferShare, CallOK
    <3> HIDE DEF net, n, msat
    <3> QED BY <1>3, <3>1
  <2> QED BY <2>1, <2>2
<1> QED BY <1>1, <1>2, <1>4

\* A debit leaves a row of the vouchers table, and so does a credit.
LEMMA RowTypes ==
    ASSUME NEW v, NEW line \in VoucherRow
    PROVE  /\ \A msat \in Nat : msat <= line.bal =>
                Debit(line, msat) \in VoucherRow /\ Debit(line, msat).bal = line.bal - msat
           /\ \A msat \in Int : line.bal >= -msat =>
                Credit(line, msat) \in VoucherRow /\ Credit(line, msat).bal = line.bal + msat
<1>1. /\ line.bal \in Nat /\ line.active \in BOOLEAN /\ line.terms \in Terms
      /\ Touched(line) \in {"running", "passed", "renewed"}
  BY DEF VoucherRow, Touched
<1>2. ASSUME NEW msat \in Nat, msat <= line.bal
      PROVE  Debit(line, msat) \in VoucherRow /\ Debit(line, msat).bal = line.bal - msat
  <2>1. line.bal - msat \in Nat
    BY <1>1, <1>2
  <2>2. (IF line.terms.single THEN FALSE ELSE line.active) \in BOOLEAN
    BY <1>1
  <2> QED BY <1>1, <2>1, <2>2 DEF Debit, VoucherRow
<1>3. ASSUME NEW msat \in Int, line.bal >= -msat
      PROVE  Credit(line, msat) \in VoucherRow /\ Credit(line, msat).bal = line.bal + msat
  <2>1. CASE msat < 0
    <3>1. -msat \in Nat /\ -msat <= line.bal /\ line.bal - (-msat) = line.bal + msat
      BY <1>1, <1>3, <2>1
    <3> QED BY <1>2, <2>1, <3>1 DEF Credit
  <2>2. CASE ~(msat < 0)
    <3>1. line.bal + msat \in Nat
      BY <1>1, <2>2
    <3> QED BY <1>1, <2>2, <3>1 DEF Credit, VoucherRow
  <2> QED BY <2>1, <2>2
<1> QED BY <1>2, <1>3

\* A transfer takes as much as it gives, with its fee and what was rounded off.
LEMMA TransferMoves ==
    ASSUME TypeOK, NEW t \in Transfers, CallOK(t), TransferCommit(t)
    PROVE  /\ voucher' \in [Vouchers -> VoucherRow] /\ elsewhere' \in Nat
           /\ TotalBal' + elsewhere' = TotalBal + elsewhere
<1> DEFINE src == transfer[t].src
           dst == transfer[t].dst
           msat == transfer[t].msat
           n == Cardinality(dst)
           share == TransferShare(t)
           old == [v \in Vouchers |-> voucher[v].bal]
           mid == [v \in Vouchers |-> Debited(t)[v].bal]
           new == [v \in Vouchers |-> voucher'[v].bal]
           each == [v \in dst |-> share]
           in1 == [v \in Vouchers |-> IF v \in dst THEN each[v] ELSE 0]
<1>1. /\ transfer[t].pc = "begin" /\ Enough(t)
      /\ \A v \in dst : Debited(t)[v].bal >= -share
      /\ voucher' = [v \in Vouchers |->
           IF v \in dst THEN Credit(Debited(t)[v], share) ELSE Debited(t)[v]]
      /\ elsewhere' = elsewhere + msat - n * share
  BY DEF TransferCommit, EndTransfer, Committable
<1>2. /\ src \in Vouchers /\ msat \in Nat /\ dst \subseteq Vouchers /\ IsFiniteSet(dst)
      /\ n \in Nat /\ share \in Int /\ n * share \in Int /\ n * share <= msat
  BY <1>1, TransferShareType
<1>3. \A v \in Vouchers : voucher[v] \in VoucherRow /\ voucher[v].bal \in Nat
  BY DEF TypeOK, VoucherRow
<1>4. /\ \A v \in Vouchers \ {src} : Debited(t)[v] = voucher[v]
      /\ Debited(t)[src] = Debit(voucher[src], msat)
  BY <1>2 DEF Debited, TypeOK
<1>5. Debited(t)[src] \in VoucherRow /\ Debited(t)[src].bal = voucher[src].bal - msat
  <2>1. msat <= voucher[src].bal
    BY <1>1, <1>2, <1>3 DEF Enough
  <2>2. voucher[src] \in VoucherRow
    BY <1>2, <1>3
  <2> HIDE DEF src, msat
  <2>3. /\ Debit(voucher[src], msat) \in VoucherRow
        /\ Debit(voucher[src], msat).bal = voucher[src].bal - msat
    BY <1>2, <2>1, <2>2, RowTypes
  <2> QED BY <1>4, <2>3
<1>6. \A v \in Vouchers : Debited(t)[v] \in VoucherRow /\ Debited(t)[v].bal \in Nat
  <2>1. \A v \in Vouchers : Debited(t)[v] \in VoucherRow
    BY <1>3, <1>4, <1>5
  <2> QED BY <2>1 DEF VoucherRow
<1>7. ASSUME NEW v \in Vouchers
      PROVE  voucher'[v] \in VoucherRow /\ new[v] = mid[v] + in1[v]
  <2>1. CASE v \in dst
    <3>1. voucher'[v] = Credit(Debited(t)[v], share)
      BY <1>1, <2>1
    <3>2. voucher'[v] \in VoucherRow /\ voucher'[v].bal = Debited(t)[v].bal + share
      BY ZenonT(60), <1>1, <1>2, <1>6, <2>1, <3>1, RowTypes
    <3> QED BY <2>1, <3>2
  <2>2. CASE v \notin dst
    BY <1>1, <1>6, <2>2
  <2> QED BY <2>1, <2>2
<1>8. voucher' \in [Vouchers -> VoucherRow]
  BY <1>1, <1>7
<1>9. /\ old \in [Vouchers -> Int] /\ mid \in [Vouchers -> Int] /\ each \in [dst -> Int]
      /\ in1 \in [Vouchers -> Int]
  <2>1. old \in [Vouchers -> Int] /\ mid \in [Vouchers -> Int] /\ each \in [dst -> Int]
    BY <1>2, <1>3, <1>6
  <2> HIDE DEF each
  <2> QED BY <2>1
<1>10. SumFunction(mid) = SumFunction(old) - msat
  <2>1. \A v \in Vouchers \ {src} : mid[v] = old[v]
    BY <1>4
  <2>2. mid[src] - old[src] = -msat
    <3>1. mid[src] = voucher[src].bal - msat /\ old[src] = voucher[src].bal
      BY <1>2, <1>5
    <3> HIDE DEF mid, old
    <3> QED BY <1>2, <1>3, <3>1
  <2>3. SumFunction(mid) = SumFunction(old) + (mid[src] - old[src])
    <3> HIDE DEF mid, old, src
    <3> QED BY <1>2, <1>9, <2>1, VoucherAssumption, SumChange
  <2>4. SumFunction(old) \in Int
    <3> HIDE DEF old
    <3> QED BY <1>9, VoucherAssumption, SumType
  <2> HIDE DEF mid, old, msat, src
  <2> QED BY <1>2, <2>2, <2>3, <2>4
<1>11. SumFunction(new) = SumFunction(mid) + SumFunction(in1)
  <2>1. new = [v \in Vouchers |-> mid[v] + in1[v]]
    <3>1. new = [v \in Vouchers |-> new[v]]
      OBVIOUS
    <3> HIDE DEF new, mid, in1
    <3> QED BY <1>7, <3>1
  <2> HIDE DEF new, mid, in1
  <2> QED BY <1>9, <2>1, VoucherAssumption, SumPlus
<1>12. SumFunction(in1) = n * share
  <2>1. SumFunction(in1) = SumFunction(each)
    <3>1. IsFiniteSet(Vouchers) /\ dst \subseteq Vouchers /\ each \in [dst -> Int]
      BY <1>2, <1>9, VoucherAssumption
    <3> HIDE DEF each, dst, n, share, msat, src
    <3> QED BY <3>1, SumPart
  <2>2. SumFunction(each) = n * share
    <3> HIDE DEF dst, share
    <3> QED BY <1>2, SumConst
  <2> QED BY <2>1, <2>2
<1>13. SumFunction(old) \in Int
  <2> HIDE DEF old
  <2> QED BY <1>9, VoucherAssumption, SumType
<1>14. TotalBal = SumFunction(old) /\ TotalBal' = SumFunction(new)
  BY DEF TotalBal
<1> DEFINE moved == n * share
<1>15. moved \in Int /\ moved <= msat /\ SumFunction(in1) = moved
       /\ elsewhere' = elsewhere + msat - moved
  BY <1>1, <1>2, <1>12
<1>16. elsewhere \in Nat
  BY DEF TypeOK
<1> HIDE DEF n, share, msat, old, mid, new, in1, moved
<1>17. elsewhere' \in Nat
  BY <1>2, <1>15, <1>16
<1> QED BY <1>2, <1>8, <1>10, <1>11, <1>13, <1>14, <1>15, <1>16, <1>17

-----------------------------------------------------------------------------
(* The invariant, step by step                                             *)

FundTx == [st : {"none", "pending", "confirmed"},
           to : Vouchers \cup Batches \cup {Deposit, "none"},
           msat : Nat, fee : Nat]

\* The parts of TypeOK, each for itself.
LEMMA TypeParts ==
    TypeOK <=> /\ voucher \in [Vouchers -> VoucherRow]
               /\ tx \in [Invoices -> FundTx]
               /\ payment \in [Invoices -> [done : BOOLEAN, net : Nat]]
               /\ event \in [Invoices -> {"none", "read", "told"}]
               /\ CallsOK
               /\ used \subseteq Vouchers \X Fingerprints
               /\ wallet \in Nat /\ elsewhere \in Nat /\ crashes \in Nat /\ dropped \in Nat
               /\ boot \in [pc : {"down", "sync", "list", "confirm", "deposits", "deposit",
                                  "served"},
                            todo : SUBSET Invoices]
BY DEF TypeOK, FundTx, CallsOK, Calls

\* The parts of TypeOK make it up, in the next state.
LEMMA TypePartsNext ==
    ASSUME voucher' \in [Vouchers -> VoucherRow],
           tx' \in [Invoices -> FundTx],
           payment' \in [Invoices -> [done : BOOLEAN, net : Nat]],
           event' \in [Invoices -> {"none", "read", "told"}],
           CallsOK',
           used' \subseteq Vouchers \X Fingerprints,
           wallet' \in Nat, elsewhere' \in Nat, crashes' \in Nat, dropped' \in Nat,
           boot' \in [pc : {"down", "sync", "list", "confirm", "deposits", "deposit",
                            "served"},
                      todo : SUBSET Invoices]
    PROVE  TypeOK'
BY DEF TypeOK, FundTx, CallsOK, Calls

\* Start-up goes on with what it has listed, whatever else happens.
LEMMA BootTodoKept ==
    ASSUME TypeOK, BootTodo, UNCHANGED boot,
           \A i \in Invoices : payment[i].done => payment'[i].done,
           \A i \in Invoices : tx[i].to = Deposit => tx'[i].to = Deposit
    PROVE  BootTodo'
BY DEF TypeOK, BootTodo

\* The rest of the world takes what a voucher has, and pays what was asked for.
LEMMA WorldKeeps ==
    ASSUME MoneyInv, World
    PROVE  MoneyInv'
<1> USE DEF MoneyInv
<1>0. \A v \in Vouchers : voucher[v] \in VoucherRow /\ voucher[v].bal \in Nat
  BY DEF TypeOK, VoucherRow
<1>1. ASSUME voucher' \in [Vouchers -> VoucherRow], wallet' \in Nat, elsewhere' \in Nat,
             UNCHANGED <<tx, payment, event, transfer, used, boot, crashes, dropped>>
      PROVE  MoneyInv'
  BY <1>1 DEF TypeOK, InvoiceOK, CallOK, BootTodo
<1>2. ASSUME NEW v \in Vouchers, VoucherExpires(v) PROVE MoneyInv'
  <2>1. voucher' \in [Vouchers -> VoucherRow]
    BY <1>2, <1>0 DEF VoucherExpires, TypeOK, VoucherRow
  <2> QED BY <1>1, <1>2, <2>1 DEF VoucherExpires, TypeOK
<1>3. ASSUME NEW v \in Vouchers, Redeemed(v) PROVE MoneyInv'
  <2>1. Debit(voucher[v], voucher[v].bal) \in VoucherRow
    BY <1>0, RowTypes
  <2>2. voucher' = [voucher EXCEPT ![v] = Debit(voucher[v], voucher[v].bal)]
    BY <1>3 DEF Redeemed
  <2>3. voucher' \in [Vouchers -> VoucherRow]
    BY <2>1, <2>2 DEF TypeOK
  <2>4. wallet' \in Nat
    BY <1>0, <1>3 DEF Redeemed, TypeOK
  <2> QED BY <1>1, <1>3, <2>3, <2>4 DEF Redeemed, TypeOK
<1>4. ASSUME NEW v \in Vouchers, RefundExpired(v) PROVE MoneyInv'
  <2>1. Refunded(voucher[v]) \in VoucherRow
    BY <1>0 DEF Refunded, Touched, VoucherRow
  <2>2. voucher' = [voucher EXCEPT ![v] = Refunded(voucher[v])]
    BY <1>4 DEF RefundExpired
  <2>3. voucher' \in [Vouchers -> VoucherRow]
    BY <2>1, <2>2 DEF TypeOK
  <2>4. elsewhere' \in Nat
    BY <1>0, <1>4 DEF RefundExpired, TypeOK
  <2> QED BY <1>1, <1>4, <2>3, <2>4 DEF RefundExpired, TypeOK
<1>5. ASSUME NEW i \in Invoices, Pay(i) PROVE MoneyInv'
  <2>1. PICK fee \in ReceiveFees :
          /\ tx[i].st = "pending" /\ fee <= tx[i].msat
          /\ payment' = [payment EXCEPT ![i] = [done |-> TRUE, net |-> tx[i].msat - fee]]
          /\ wallet' = wallet + tx[i].msat - fee
          /\ UNCHANGED <<voucher, tx, event, transfer, used, elsewhere, boot, crashes, dropped>>
    BY <1>5 DEF Pay
  <2>2. fee \in Int /\ tx[i].msat \in Nat
    BY FundingAssumption DEF TypeOK
  <2>3. tx[i].msat - fee \in Nat
    BY <2>1, <2>2
  <2>4. wallet' \in Nat
    BY <2>1, <2>2, <2>3 DEF TypeOK
  <2>5. payment' \in [Invoices -> [done : BOOLEAN, net : Nat]]
    BY <2>1, <2>3 DEF TypeOK
  <2>6. TypeOK'
    BY <2>1, <2>4, <2>5 DEF TypeOK
  <2>7. \A j \in Invoices : j # i => payment'[j] = payment[j]
    BY <2>1 DEF TypeOK
  <2>8. \A j \in Invoices : InvoiceOK(j)'
    BY <2>1, <2>7 DEF InvoiceOK
  <2>9. \A j \in Invoices : payment[j].done => payment'[j].done
    BY <2>1 DEF TypeOK
  <2>10. BootTodo'
    BY <2>1, <2>9, BootTodoKept
  <2> QED BY <2>1, <2>6, <2>8, <2>10 DEF CallOK
<1> QED BY <1>2, <1>3, <1>4, <1>5 DEF World

\* An invoice is for a satoshi at least, which covers the fee that is estimated for it.
LEMMA InvoiceKeeps ==
    ASSUME MoneyInv, NEW i \in Invoices, NEW to \in Vouchers \cup Batches \cup {Deposit},
           NEW msat \in Nat, msat >= Sat, NewInvoice(i, to, msat)
    PROVE  MoneyInv'
<1> USE DEF MoneyInv
<1>1. PICK estimate \in Estimates :
        /\ Serving /\ tx[i] = NoTx
        /\ tx' = [tx EXCEPT ![i] = [st |-> "pending", to |-> to, msat |-> SatRound(msat),
                                    fee |-> estimate]]
        /\ UNCHANGED <<voucher, payment, event, transfer, used, wallet, elsewhere, boot,
                       crashes, dropped>>
  BY DEF NewInvoice
<1>2. Sat \in Nat \ {0} /\ estimate \in Nat /\ estimate <= Sat
  BY MoneyAssumption, FundingAssumption
<1>3. SatRound(msat) \in Nat /\ Sat <= SatRound(msat)
  <2> DEFINE m == msat \div Sat
  <2>1. m \in Nat /\ m >= 1
    BY <1>2
  <2>2. SatRound(msat) = m * Sat
    BY DEF SatRound
  <2> HIDE DEF m
  <2>3. Sat * 1 <= Sat * m /\ m * Sat = Sat * m /\ m * Sat \in Nat
    BY <1>2, <2>1, ProductMonotone
  <2> QED BY <1>2, <2>2, <2>3
<1>4. tx' \in [Invoices -> FundTx]
  BY <1>1, <1>2, <1>3 DEF TypeOK, FundTx
<1>5. TypeOK'
  BY <1>1, <1>4 DEF TypeOK, FundTx
<1>6. ASSUME NEW j \in Invoices PROVE InvoiceOK(j)'
  <2>1. CASE j = i
    BY <1>1, <1>2, <1>3, <2>1 DEF InvoiceOK, NoTx, TypeOK
  <2>2. CASE j # i
    BY <1>1, <2>2 DEF InvoiceOK, TypeOK
  <2> QED BY <2>1, <2>2
<1>7. BootTodo'
  BY <1>1 DEF BootTodo, Serving
<1> QED BY <1>1, <1>5, <1>6, <1>7 DEF CallOK

\* Whoever makes an invoice asks for a satoshi for each voucher that is to get it.
LEMMA AskedAtLeast ==
    ASSUME NEW i \in Invoices, NEW msat \in Amounts,
           DepositInvoice(i, msat) \/ \E to \in Vouchers \cup Batches : FundInvoice(i, to, msat)
    PROVE  /\ msat \in Nat /\ msat >= Sat
           /\ \E to \in Vouchers \cup Batches \cup {Deposit} : NewInvoice(i, to, msat)
<1>1. msat \in Nat /\ Sat \in Nat \ {0}
  BY FundingAssumption, MoneyAssumption
<1>2. CASE DepositInvoice(i, msat)
  BY <1>1, <1>2 DEF DepositInvoice
<1>3. ASSUME NEW to \in Vouchers \cup Batches, FundInvoice(i, to, msat)
      PROVE  msat >= Sat /\ NewInvoice(i, to, msat)
  <2> DEFINE n == Cardinality(Living(to))
  <2>1. Living(to) # {} /\ msat >= Sat * n /\ NewInvoice(i, to, msat)
    BY <1>3 DEF FundInvoice
  <2>2. IsFiniteSet(Living(to))
    <3>1. Living(to) \subseteq Vouchers
      BY DEF Living, Members
    <3> QED BY <3>1, VoucherAssumption, FS_Subset
  <2>3. n \in Nat /\ n >= 1
    <3>1. n \in Nat /\ n # 0
      BY <2>1, <2>2, FS_CardinalityType, FS_EmptySet
    <3> HIDE DEF n
    <3> QED BY <3>1
  <2> HIDE DEF n
  <2>4. Sat * 1 <= Sat * n /\ Sat * n \in Int
    BY <1>1, <2>3, ProductMonotone
  <2> QED BY <1>1, <2>1, <2>4
<1> QED BY <1>1, <1>2, <1>3

\* What a transfer looked up is what it will debit and credit, and there is some.
LEMMA LookupKeeps ==
    ASSUME MoneyInv, CallsOK', NEW t \in Transfers, NEW src \in Vouchers,
           NEW to \in Vouchers \cup Batches, NEW msat \in Amounts, NEW fp \in Fingerprints,
           TransferLookup(t, src, to, msat, fp)
    PROVE  MoneyInv'
<1> USE DEF MoneyInv
<1> DEFINE call == [pc |-> "begin", src |-> src, dst |-> Living(to), batch |-> to \in Batches,
                    msat |-> msat, fp |-> fp]
<1>1. /\ Living(to) # {} /\ transfer' = [transfer EXCEPT ![t] = call]
      /\ UNCHANGED <<voucher, tx, payment, event, used, wallet, elsewhere, boot, crashes,
                     dropped>>
  BY DEF TransferLookup
<1>2. to \notin Batches => Cardinality(Living(to)) = 1
  <2> SUFFICES ASSUME to \notin Batches PROVE Cardinality(Living(to)) = 1
    OBVIOUS
  <2>1. Living(to) = {to}
    BY <1>1 DEF Living, Members
  <2> QED BY <2>1, FS_Singleton
<1>3. transfer'[t] = call /\ \A q \in Transfers \ {t} : transfer'[q] = transfer[q]
  BY <1>1 DEF TypeOK
<1>4. \A q \in Transfers : CallOK(q)'
  <2>1. CallOK(t)'
    <3>1. /\ transfer'[t].src = src /\ transfer'[t].fp = fp /\ transfer'[t].dst = Living(to)
          /\ transfer'[t].batch = (to \in Batches)
      BY <1>3
    <3>2. ~transfer'[t].batch => Cardinality(transfer'[t].dst) = 1
      BY <1>2, <3>1
    <3> QED BY <1>1, <3>1, <3>2 DEF CallOK
  <2>2. \A q \in Transfers \ {t} : CallOK(q)'
    BY <1>3 DEF CallOK
  <2> QED BY <2>1, <2>2
<1>5. TypeOK'
  <2>1. UNCHANGED <<voucher, tx, payment, event, used, wallet, elsewhere, boot, crashes,
                    dropped>>
    BY <1>1
  <2> QED BY <2>1, TypeParts, TypePartsNext
<1>6. BootTodo' /\ \A i \in Invoices : InvoiceOK(i)'
  BY <1>1 DEF BootTodo, InvoiceOK
<1> QED BY <1>4, <1>5, <1>6

\* A transfer that ends moves money between vouchers, or nothing.
LEMMA TransferKeeps ==
    ASSUME MoneyInv, CallsOK', NEW t \in Transfers, TransferEnds(t)
    PROVE  MoneyInv'
<1> USE DEF MoneyInv
<1>1. PICK to \in {"done", "refused"} : EndTransfer(t, to)
  BY DEF TransferEnds, TransferCommit, TransferRollback
<1>2. /\ transfer[t].pc = "begin" /\ transfer' = [transfer EXCEPT ![t] = Ended(t, to)]
      /\ UNCHANGED <<tx, payment, event, wallet, boot, crashes, dropped>>
  BY <1>1 DEF EndTransfer
<1>3. CallsOK /\ Ended(t, to).pc = to
  BY TypeParts, EndedType
<1>4. \A q \in Transfers : CallOK(q)'
  <2>1. transfer'[t].pc # "begin" /\ \A q \in Transfers \ {t} : transfer'[q] = transfer[q]
    BY <1>2, <1>3 DEF TypeOK
  <2> QED BY <2>1 DEF CallOK
<1>5. /\ voucher' \in [Vouchers -> VoucherRow] /\ elsewhere' \in Nat
      /\ used' \subseteq Vouchers \X Fingerprints
  <2>1. CASE TransferCommit(t)
    <3>1. voucher' \in [Vouchers -> VoucherRow] /\ elsewhere' \in Nat
      BY <2>1, TransferMoves
    <3>2. used' \subseteq Vouchers \X Fingerprints
      BY <1>2, <2>1 DEF TransferCommit, CallOK, TypeOK
    <3> QED BY <3>1, <3>2
  <2>2. CASE TransferRollback(t)
    BY <2>2 DEF TransferRollback, TypeOK
  <2> QED BY <2>1, <2>2 DEF TransferEnds
<1>6. TypeOK'
  <2>1. UNCHANGED <<tx, payment, event, wallet, boot, crashes, dropped>>
    BY <1>2
  <2> QED BY <1>5, <2>1, TypeParts, TypePartsNext
<1>7. BootTodo' /\ \A i \in Invoices : InvoiceOK(i)'
  BY <1>2 DEF BootTodo, InvoiceOK
<1> QED BY <1>4, <1>6, <1>7

\* What the booking of an invoice or a deposit leaves of the tables.
BookedOK ==
    /\ voucher' \in [Vouchers -> VoucherRow] /\ tx' \in [Invoices -> FundTx]
    /\ elsewhere' \in Nat /\ dropped' \in Nat
    /\ \A i \in Invoices : InvoiceOK(i)'
    /\ \A i \in Invoices : tx'[i].to = tx[i].to

\* updateFundTxConfirmed books the invoice with the fee that the payment has cost ...
LEMMA UpdateOK ==
    ASSUME MoneyInv, NEW i \in Invoices, UpdateFundTxConfirmed(i), UNCHANGED payment
    PROVE  BookedOK
<1> USE DEF MoneyInv
<1>1. /\ voucher' \in [Vouchers -> VoucherRow] /\ tx' \in [Invoices -> FundTx]
      /\ elsewhere' \in Nat /\ dropped' \in Nat
      /\ \A j \in Invoices \ {i} : tx'[j] = tx[j]
      /\ tx'[i] = [tx[i] EXCEPT !.st = "confirmed", !.fee = ActualFee(i)]
  BY BookingType DEF FundTx
<1>2. tx'[i].st = "confirmed" /\ tx'[i].to = tx[i].to
  BY <1>1 DEF TypeOK
<1>3. \A j \in Invoices : InvoiceOK(j)'
  BY <1>1, <1>2 DEF InvoiceOK
<1> QED BY <1>1, <1>2, <1>3 DEF BookedOK

\* ... confirmOperatorDeposit books a deposit with what has come of it ...
LEMMA DepositOK ==
    ASSUME MoneyInv, NEW i \in Invoices, ConfirmDeposit(i), UNCHANGED payment
    PROVE  BookedOK
<1> USE DEF MoneyInv
<1>1. UNCHANGED <<voucher, elsewhere, dropped>>
  BY DEF ConfirmDeposit
<1>2. CASE Pending(i)
  <2>1. tx' = [tx EXCEPT ![i].st = "confirmed", ![i].msat = payment[i].net]
    BY <1>2 DEF ConfirmDeposit
  <2>2. tx[i] \in FundTx /\ payment[i].net \in Nat
    BY DEF TypeOK, FundTx
  <2>3. /\ tx'[i] = [tx[i] EXCEPT !.st = "confirmed", !.msat = payment[i].net]
        /\ \A j \in Invoices \ {i} : tx'[j] = tx[j]
        /\ tx' = [j \in Invoices |-> tx'[j]]
    BY <2>1 DEF TypeOK
  <2>4. tx'[i] \in FundTx /\ tx'[i].st = "confirmed" /\ tx'[i].to = tx[i].to
    BY <2>2, <2>3 DEF FundTx
  <2>5. \A j \in Invoices : tx[j] \in FundTx
    BY DEF TypeOK, FundTx
  <2>6. tx' \in [Invoices -> FundTx]
    BY <2>3, <2>4, <2>5
  <2>7. \A j \in Invoices : InvoiceOK(j)'
    BY <2>3, <2>4 DEF InvoiceOK
  <2> QED BY <1>1, <2>3, <2>4, <2>6, <2>7, TypeParts DEF BookedOK
<1>3. CASE ~Pending(i)
  <2>1. tx' = tx
    BY <1>3 DEF ConfirmDeposit
  <2> QED BY <1>1, <2>1, TypeParts DEF BookedOK, InvoiceOK
<1> QED BY <1>2, <1>3

\* ... and a booking that finds nothing to do leaves all as it was.
LEMMA SameOK ==
    ASSUME MoneyInv, UNCHANGED <<voucher, tx, elsewhere, dropped, payment>>
    PROVE  BookedOK
BY TypeParts DEF MoneyInv, BookedOK, InvoiceOK

\* An event books its invoice, or does nothing.
LEMMA EventKeeps ==
    ASSUME MoneyInv, NEW i \in Invoices, EventStep(i)
    PROVE  MoneyInv'
<1> USE DEF MoneyInv
<1>1. PICK from \in {"none", "read"}, to \in {"read", "told"} : EventGoes(i, from, to)
  BY DEF EventStep, EventRead, EventConfirm, EventDeposit
<1>2. /\ event' = [event EXCEPT ![i] = to]
      /\ UNCHANGED <<payment, transfer, used, wallet, boot, crashes>>
  BY <1>1 DEF EventGoes
<1>3. BookedOK
  <2>1. CASE EventRead(i)
    BY <1>2, <2>1, SameOK DEF EventRead
  <2>2. CASE EventConfirm(i)
    BY <1>2, <2>2, SameOK, UpdateOK DEF EventConfirm, AlreadyConfirmed
  <2>3. CASE EventDeposit(i)
    BY <1>2, <2>3, DepositOK DEF EventDeposit
  <2> QED BY <2>1, <2>2, <2>3 DEF EventStep
<1>4. event' \in [Invoices -> {"none", "read", "told"}]
  BY <1>2 DEF TypeOK
<1>5. TypeOK'
  <2>1. UNCHANGED <<payment, transfer, used, wallet, boot, crashes>> /\ CallsOK
    BY <1>2, TypeParts
  <2>2. CallsOK'
    BY <2>1 DEF CallsOK
  <2> QED BY <1>3, <1>4, <2>1, <2>2, TypeParts, TypePartsNext DEF BookedOK
<1>6. BootTodo'
  BY <1>2, <1>3, BootTodoKept DEF BookedOK
<1> QED BY <1>2, <1>3, <1>5, <1>6 DEF BookedOK, CallOK

\* A stop leaves the tables, and no call under way.
LEMMA StopKeepsMoney ==
    ASSUME MoneyInv, CallsOK', Stop, crashes' \in Nat
    PROVE  MoneyInv'
<1> USE DEF MoneyInv
<1>1. /\ boot' = [pc |-> "down", todo |-> {}]
      /\ event' = [i \in Invoices |-> IF payment[i].done THEN "told" ELSE event[i]]
      /\ transfer' = [t \in Transfers |->
           IF transfer[t].pc = "begin" THEN Ended(t, "refused") ELSE transfer[t]]
      /\ UNCHANGED <<voucher, tx, payment, used, wallet, elsewhere, dropped>>
  BY DEF Stop
<1>2. \A t \in Transfers : Ended(t, "refused").pc = "refused"
  BY TypeParts, EndedType
<1>3. \A t \in Transfers : CallOK(t)'
  BY <1>1, <1>2 DEF CallOK
<1>4. TypeOK'
  <2>1. event' \in [Invoices -> {"none", "read", "told"}]
    BY <1>1 DEF TypeOK
  <2>2. boot' \in [pc : {"down", "sync", "list", "confirm", "deposits", "deposit", "served"},
                   todo : SUBSET Invoices]
    BY <1>1
  <2> QED BY <1>1, <2>1, <2>2, TypeParts, TypePartsNext
<1>5. BootTodo' /\ \A i \in Invoices : InvoiceOK(i)'
  BY <1>1 DEF BootTodo, InvoiceOK
<1> QED BY <1>3, <1>4, <1>5

\* Start-up books what is paid, and nothing else.
LEMMA BootKeepsMoney ==
    ASSUME MoneyInv, CallsOK', BootStep
    PROVE  MoneyInv'
<1> USE DEF MoneyInv
<1>1. ASSUME NEW i \in Invoices, BootRefuses(i) PROVE MoneyInv'
  <2>1. Stop /\ crashes' \in Nat
    BY <1>1 DEF BootRefuses, TypeOK
  <2> QED BY <2>1, StopKeepsMoney
<1>2. ASSUME NEW from, NEW to, NEW todo, BootGoto(from, to, todo), BookedOK,
             boot' \in [pc : {"down", "sync", "list", "confirm", "deposits", "deposit",
                              "served"},
                        todo : SUBSET Invoices],
             BootTodo'
      PROVE  MoneyInv'
  <2>1. UNCHANGED <<payment, event, transfer, used, wallet, crashes>>
    BY <1>2 DEF BootGoto
  <2>2. TypeOK'
    BY <1>2, <2>1, TypeParts, TypePartsNext DEF BookedOK
  <2> QED BY <1>2, <2>1, <2>2 DEF BookedOK, CallOK
<1>3. ASSUME NEW i \in Invoices, BootConfirm(i) \/ BootDeposit(i) PROVE MoneyInv'
  <2>1. PICK pc \in {"confirm", "deposit"} :
          boot.pc = pc /\ i \in boot.todo /\ BootGoto(pc, pc, boot.todo \ {i})
    BY <1>3 DEF BootConfirm, BootDeposit, BootGoto
  <2>2. boot' = [pc |-> pc, todo |-> boot.todo \ {i}] /\ UNCHANGED payment
    BY <2>1 DEF BootGoto
  <2>3. BookedOK
    <3>1. CASE BootConfirm(i)
      BY <2>2, <3>1, SameOK, UpdateOK DEF BootConfirm, AlreadyConfirmed
    <3>2. CASE BootDeposit(i)
      BY <2>2, <3>2, DepositOK DEF BootDeposit
    <3> QED BY <1>3, <3>1, <3>2
  <2>4. BootTodo'
    BY <2>1, <2>2, <2>3 DEF BootTodo, BookedOK, TypeOK
  <2>5. boot' \in [pc : {"down", "sync", "list", "confirm", "deposits", "deposit", "served"},
                   todo : SUBSET Invoices]
    BY <2>2 DEF TypeOK
  <2> QED BY <1>2, <2>1, <2>3, <2>4, <2>5
<1>4. CASE Start \/ OpenDB \/ BootCaughtUp \/ BootSkipsDeposits \/ BootServes
  <2>1. PICK from \in {"down", "sync", "confirm", "deposits", "deposit"},
             to \in {"sync", "list", "deposits", "deposit", "served"} : BootGoto(from, to, {})
    BY <1>4 DEF Start, OpenDB, BootCaughtUp, BootSkipsDeposits, BootServes
  <2>2. boot' = [pc |-> to, todo |-> {}] /\ UNCHANGED payment
    BY <2>1 DEF BootGoto
  <2>3. BookedOK
    BY <1>4, <2>2, SameOK DEF Start, OpenDB, BootCaughtUp, BootSkipsDeposits, BootServes, Rows
  <2>4. BootTodo' /\ boot' \in [pc : {"down", "sync", "list", "confirm", "deposits", "deposit",
                                      "served"},
                                todo : SUBSET Invoices]
    BY <2>2 DEF BootTodo
  <2> QED BY <1>2, <2>1, <2>3, <2>4
<1>5. CASE BootList \/ BootListDeposits
  <2>1. PICK from \in {"list", "deposits"}, to \in {"confirm", "deposit"} :
          BootGoto(from, to, PaidPending(to = "deposit"))
    <3>1. BootList => BootGoto("list", "confirm", PaidPending(FALSE))
      BY DEF BootList
    <3>2. BootListDeposits => BootGoto("deposits", "deposit", PaidPending(TRUE))
      BY DEF BootListDeposits
    <3>3. ("confirm" = "deposit") = FALSE /\ ("deposit" = "deposit") = TRUE
      OBVIOUS
    <3> QED BY <1>5, <3>1, <3>2, <3>3
  <2>2. boot' = [pc |-> to, todo |-> PaidPending(to = "deposit")] /\ UNCHANGED payment
    BY <2>1 DEF BootGoto
  <2>3. UNCHANGED <<voucher, tx, elsewhere, dropped>>
    BY <1>5 DEF BootList, BootListDeposits, Rows
  <2>4. BookedOK
    BY <2>2, <2>3, SameOK
  <2>5. PaidPending(to = "deposit") \subseteq Invoices
    BY DEF PaidPending
  <2>6. \A j \in PaidPending(to = "deposit") :
          payment[j].done /\ (to = "deposit" => tx[j].to = Deposit)
    BY DEF PaidPending
  <2>7. BootTodo'
    BY <2>2, <2>3, <2>6 DEF BootTodo
  <2>8. boot' \in [pc : {"down", "sync", "list", "confirm", "deposits", "deposit", "served"},
                   todo : SUBSET Invoices]
    BY <2>2, <2>5
  <2> QED BY <1>2, <2>1, <2>4, <2>7, <2>8
<1> QED BY <1>1, <1>3, <1>4, <1>5 DEF BootStep

\* Tables are empty at first.
LEMMA InitMoney == Init => MoneyInv
<1> SUFFICES ASSUME Init PROVE MoneyInv
  OBVIOUS
<1>1. InitBalance \in Nat /\ SumFunction([v \in Vouchers |-> InitBalance]) \in Nat
  <2> DEFINE b == [v \in Vouchers |-> InitBalance]
  <2>1. InitBalance \in Nat /\ b \in [Vouchers -> Nat]
    BY FundingAssumption
  <2>2. SumFunction(b) \in Nat
    <3> HIDE DEF b
    <3> QED BY <2>1, VoucherAssumption, SumNat
  <2> QED BY <2>1, <2>2
<1>2. CallsOK
  BY InitIInv DEF IInv
<1>3. TypeOK
  <2>1. /\ voucher = [v \in Vouchers |-> Created(v, InitBalance)]
        /\ tx = [i \in Invoices |-> NoTx] /\ payment = [i \in Invoices |-> NoPayment]
        /\ event = [i \in Invoices |-> "none"] /\ used = {}
        /\ wallet = SumFunction([v \in Vouchers |-> InitBalance])
        /\ elsewhere = 0 /\ boot = [pc |-> "down", todo |-> {}] /\ crashes = 0 /\ dropped = 0
    BY DEF Init
  <2>2. voucher \in [Vouchers -> VoucherRow]
    <3>1. ASSUME NEW v \in Vouchers PROVE Created(v, InitBalance) \in VoucherRow
      BY <1>1, VoucherAssumption DEF Created, VoucherRow
    <3> QED BY <2>1, <3>1
  <2>3. tx \in [Invoices -> FundTx] /\ payment \in [Invoices -> [done : BOOLEAN, net : Nat]]
    BY <2>1 DEF NoTx, NoPayment, FundTx
  <2>4. wallet \in Nat
    BY <1>1, <2>1
  <2>5. boot \in [pc : {"down", "sync", "list", "confirm", "deposits", "deposit", "served"},
                  todo : SUBSET Invoices]
    BY <2>1
  <2> QED BY <1>2, <2>1, <2>2, <2>3, <2>4, <2>5, TypeParts
<1>4. \A i \in Invoices : InvoiceOK(i)
  BY DEF Init, InvoiceOK, NoTx, NoPayment
<1>5. \A t \in Transfers : CallOK(t)
  BY DEF Init, CallOK, NoTransfer
<1>6. BootTodo
  BY DEF Init, BootTodo
<1> QED BY <1>3, <1>4, <1>5, <1>6 DEF MoneyInv

\* Every step keeps it.
LEMMA StepMoney == MoneyInv /\ IInv' /\ [Next]_vars => MoneyInv'
<1> SUFFICES ASSUME MoneyInv, IInv', [Next]_vars PROVE MoneyInv'
  OBVIOUS
<1>0. CallsOK' /\ TypeOK
  BY DEF IInv, MoneyInv
<1>1. CASE World
  BY <1>1, WorldKeeps
<1>2. CASE Callers
  <2>1. ASSUME NEW i \in Invoices, NEW msat \in Amounts,
               DepositInvoice(i, msat) \/ \E to \in Vouchers \cup Batches : FundInvoice(i, to, msat)
        PROVE  MoneyInv'
    <3>1. msat \in Nat /\ msat >= Sat
      BY <2>1, AskedAtLeast
    <3>2. PICK to \in Vouchers \cup Batches \cup {Deposit} : NewInvoice(i, to, msat)
      BY <2>1, AskedAtLeast
    <3> QED BY <3>1, <3>2, InvoiceKeeps
  <2> QED BY <1>0, <1>2, <2>1, LookupKeeps DEF Callers
<1>3. CASE \E t \in Transfers : TransferEnds(t)
  BY <1>0, <1>3, TransferKeeps
<1>4. CASE \E i \in Invoices : EventStep(i)
  BY <1>4, EventKeeps
<1>5. CASE BootStep
  BY <1>0, <1>5, BootKeepsMoney
<1>6. CASE BootFails \/ Crash \/ \E i \in Invoices : EventCrashes(i)
  <2>1. Stop /\ crashes' \in Nat
    BY <1>0, <1>6 DEF BootFails, Crash, EventCrashes, TypeOK
  <2> QED BY <1>0, <2>1, StopKeepsMoney
<1>7. CASE UNCHANGED vars
  BY <1>7 DEF vars, MoneyInv, TypeOK, InvoiceOK, CallOK, BootTodo
<1> QED BY <1>1, <1>2, <1>3, <1>4, <1>5, <1>6, <1>7 DEF Next

\* However payments, transfers, redeems, refunds and crashes interleave, every table has
\* its type: no balance is below zero, and no fee is above its invoice.
THEOREM TypeCorrect == Spec => []TypeOK
<1>1. MoneyInv => TypeOK
  BY DEF MoneyInv
<1> QED BY <1>1, InitIInv, StepIInv, InitMoney, StepMoney, PTL DEF Spec

-----------------------------------------------------------------------------
(* The books                                                               *)

Balanced == wallet = TotalBal + elsewhere + dropped + TotalUnbooked

\* The books, with one number for each kind of row.
LEMMA BalancedIsBooks == BooksClose <=> Balanced
BY DEF BooksClose, Balanced, Explained, TotalBal, TotalUnbooked

\* The summands and sums are numbers, in this state ...
LEMMA SumTypes ==
    ASSUME TypeOK
    PROVE  /\ [v \in Vouchers |-> voucher[v].bal] \in [Vouchers -> Int]
           /\ \A i \in Invoices : Unbooked(i) \in Int
           /\ [i \in Invoices |-> Unbooked(i)] \in [Invoices -> Int]
           /\ TotalBal \in Int /\ TotalUnbooked \in Int
<1>1. [v \in Vouchers |-> voucher[v].bal] \in [Vouchers -> Int]
  BY DEF TypeOK, VoucherRow
<1>2. ASSUME NEW i \in Invoices PROVE Unbooked(i) \in Int
  <2>1. tx[i].msat \in Nat /\ tx[i].fee \in Nat /\ payment[i].net \in Nat
    BY DEF TypeOK
  <2> QED BY <2>1 DEF Unbooked, Net, ActualFee
<1>3. [i \in Invoices |-> Unbooked(i)] \in [Invoices -> Int]
  BY <1>2
<1>4. TotalBal \in Int
  BY <1>1, VoucherAssumption, SumType DEF TotalBal
<1>5. TotalUnbooked \in Int
  BY <1>3, FundingAssumption, SumType DEF TotalUnbooked
<1> QED BY <1>1, <1>2, <1>3, <1>4, <1>5

\* ... and in the next.
LEMMA SumTypesNext ==
    ASSUME TypeOK'
    PROVE  /\ [v \in Vouchers |-> voucher'[v].bal] \in [Vouchers -> Int]
           /\ \A i \in Invoices : Unbooked(i)' \in Int
           /\ [i \in Invoices |-> Unbooked(i)'] \in [Invoices -> Int]
<1>1. [v \in Vouchers |-> voucher'[v].bal] \in [Vouchers -> Int]
  BY DEF TypeOK, VoucherRow
<1>2. ASSUME NEW i \in Invoices PROVE Unbooked(i)' \in Int
  <2>1. tx'[i].msat \in Nat /\ tx'[i].fee \in Nat /\ payment'[i].net \in Nat
    BY DEF TypeOK
  <2> QED BY <2>1 DEF Unbooked, Net, ActualFee
<1> QED BY <1>1, <1>2

\* What a step that concerns one voucher or one invoice changes of the totals.
LEMMA BalChange ==
    ASSUME TypeOK, TypeOK', NEW v \in Vouchers,
           \A u \in Vouchers \ {v} : voucher'[u].bal = voucher[u].bal
    PROVE  TotalBal' = TotalBal + (voucher'[v].bal - voucher[v].bal)
<1> DEFINE f == [u \in Vouchers |-> voucher[u].bal]
           g == [u \in Vouchers |-> voucher'[u].bal]
<1>1. f \in [Vouchers -> Int] /\ g \in [Vouchers -> Int]
  BY SumTypes, SumTypesNext
<1>2. \A u \in Vouchers \ {v} : g[u] = f[u]
  OBVIOUS
<1>3. SumFunction(g) = SumFunction(f) + (g[v] - f[v])
  <2> HIDE DEF f, g
  <2> QED BY <1>1, <1>2, VoucherAssumption, SumChange
<1> QED BY <1>3 DEF TotalBal

\* The same for what is not booked yet.
LEMMA UnbookedChange ==
    ASSUME TypeOK, TypeOK', NEW i \in Invoices,
           \A j \in Invoices \ {i} : tx'[j] = tx[j] /\ payment'[j] = payment[j]
    PROVE  TotalUnbooked' = TotalUnbooked + (Unbooked(i)' - Unbooked(i))
<1> DEFINE f == [j \in Invoices |-> Unbooked(j)]
           g == [j \in Invoices |-> Unbooked(j)']
<1>1. f \in [Invoices -> Int] /\ g \in [Invoices -> Int]
  BY SumTypes, SumTypesNext
<1>2. \A j \in Invoices \ {i} : g[j] = f[j]
  BY DEF Unbooked, Net, ActualFee
<1>3. SumFunction(g) = SumFunction(f) + (g[i] - f[i])
  <2> HIDE DEF f, g
  <2> QED BY <1>1, <1>2, FundingAssumption, SumChange
<1> QED BY <1>3 DEF TotalUnbooked

\* A total stays if every part of it does.
LEMMA TotalSame ==
    /\ (\A v \in Vouchers : voucher'[v].bal = voucher[v].bal) => TotalBal' = TotalBal
    /\ UNCHANGED <<tx, payment>> => TotalUnbooked' = TotalUnbooked
BY DEF TotalBal, TotalUnbooked, Unbooked, Net, ActualFee

\* Steps of the rest of the world: money leaves with a balance, or comes with a payment.
LEMMA WorldBalanced ==
    ASSUME MoneyInv, MoneyInv', Balanced, World
    PROVE  Balanced'
<1>0. /\ TypeOK /\ TypeOK' /\ TotalBal \in Int /\ TotalUnbooked \in Int
      /\ wallet \in Nat /\ elsewhere \in Nat /\ dropped \in Nat
  BY SumTypes DEF MoneyInv, TypeOK
<1>1. ASSUME NEW v \in Vouchers, VoucherExpires(v) PROVE Balanced'
  <2>1. \A u \in Vouchers : voucher'[u].bal = voucher[u].bal
    BY <1>0, <1>1 DEF VoucherExpires, TypeOK, VoucherRow
  <2> QED BY <1>1, <2>1, TotalSame DEF VoucherExpires, Balanced
<1>2. ASSUME NEW v \in Vouchers, Redeemed(v) \/ RefundExpired(v) PROVE Balanced'
  <2>1. voucher[v].bal \in Nat /\ voucher[v] \in VoucherRow
    BY <1>0 DEF TypeOK, VoucherRow
  <2>2. Debit(voucher[v], voucher[v].bal).bal = 0 /\ Refunded(voucher[v]).bal = 0
    <3>1. Debit(voucher[v], voucher[v].bal).bal = voucher[v].bal - voucher[v].bal
      BY DEF Debit
    <3> QED BY <2>1, <3>1 DEF Refunded
  <2>3. voucher'[v].bal = 0 /\ \A u \in Vouchers \ {v} : voucher'[u].bal = voucher[u].bal
    BY <1>0, <1>2, <2>2 DEF Redeemed, RefundExpired, TypeOK
  <2>4. UNCHANGED <<tx, payment, dropped>> /\ wallet' + elsewhere = wallet + elsewhere' - voucher[v].bal
    BY <1>0, <1>2, <2>1 DEF Redeemed, RefundExpired
  <2>5. TotalBal' = TotalBal - voucher[v].bal
    BY <1>0, <2>1, <2>3, BalChange
  <2>6. TotalUnbooked' = TotalUnbooked /\ wallet' \in Nat /\ elsewhere' \in Nat
    BY <1>0, <2>4, TotalSame DEF TypeOK
  <2> QED BY <1>0, <2>1, <2>4, <2>5, <2>6 DEF Balanced
<1>3. ASSUME NEW i \in Invoices, Pay(i) PROVE Balanced'
  <2>1. PICK fee \in ReceiveFees :
          /\ tx[i].st = "pending" /\ ~payment[i].done
          /\ payment' = [payment EXCEPT ![i] = [done |-> TRUE, net |-> tx[i].msat - fee]]
          /\ wallet' = wallet + tx[i].msat - fee
          /\ UNCHANGED <<voucher, tx, elsewhere, dropped>>
    BY <1>3 DEF Pay
  <2>2. fee \in Int /\ tx[i].msat \in Nat
    BY <1>0, FundingAssumption DEF TypeOK
  <2>3. /\ payment'[i] = [done |-> TRUE, net |-> tx[i].msat - fee]
        /\ \A j \in Invoices \ {i} : payment'[j] = payment[j]
    BY <1>0, <2>1 DEF TypeOK
  <2>4. Unbooked(i) = 0 /\ Unbooked(i)' = tx[i].msat - fee
    <3>1. Unbooked(i) = 0
      BY <2>1 DEF Unbooked
    <3>2. Unbooked(i)' = (tx[i].msat - fee) - 0
      BY <2>1, <2>3 DEF Unbooked
    <3> QED BY <2>2, <3>1, <3>2
  <2>5. TotalUnbooked' = TotalUnbooked + (Unbooked(i)' - Unbooked(i))
    BY <1>0, <2>1, <2>3, UnbookedChange
  <2>6. TotalBal' = TotalBal
    BY <2>1, TotalSame
  <2> QED BY <1>0, <2>1, <2>2, <2>4, <2>5, <2>6 DEF Balanced
<1> QED BY <1>1, <1>2, <1>3 DEF World

\* What is booked for a payment is no longer unbooked.
LEMMA UpdateBalanced ==
    ASSUME MoneyInv, MoneyInv', Balanced, NEW i \in Invoices, payment[i].done,
           UpdateFundTxConfirmed(i), UNCHANGED <<payment, wallet>>
    PROVE  Balanced'
<1>0. /\ TypeOK /\ TypeOK' /\ InvoiceOK(i) /\ TotalBal \in Int /\ TotalUnbooked \in Int
      /\ wallet \in Nat /\ elsewhere \in Nat /\ dropped \in Nat
  BY SumTypes DEF MoneyInv, TypeOK
<1>1. /\ \A j \in Invoices \ {i} : tx'[j] = tx[j]
      /\ tx'[i] = [tx[i] EXCEPT !.st = "confirmed", !.fee = ActualFee(i)]
      /\ elsewhere' \in Nat /\ dropped' \in Nat
  BY <1>0, BookingType
<1>2. /\ tx'[i].st = "confirmed" /\ tx'[i].to = tx[i].to /\ tx'[i].msat = tx[i].msat
      /\ tx'[i].fee = ActualFee(i)
  BY <1>0, <1>1 DEF TypeOK
<1>3. Pending(i) /\ Credited(i) # {}
  BY DEF UpdateFundTxConfirmed
<1>4. tx[i].to # Deposit
  <2>1. tx[i].to \in Vouchers \cup Batches
    BY <1>0, <1>3, ShareType
  <2> QED BY <2>1, FundingAssumption
<1>5. Net(i)' = Net(i)
  <2>1. ActualFee(i)' = ActualFee(i)
    BY <1>2 DEF ActualFee
  <2> QED BY <1>2, <2>1 DEF Net
<1>6. payment[i].net \in Nat /\ Net(i) \in Nat
  BY <1>0, <1>3, NetType DEF TypeOK
<1>7. Unbooked(i) = payment[i].net /\ Unbooked(i)' = payment[i].net - Net(i)
  <2>1. Unbooked(i) = payment[i].net - 0
    BY <1>3 DEF Unbooked, Pending
  <2>2. Unbooked(i)' = payment[i].net - Net(i)'
    BY <1>2, <1>4 DEF Unbooked
  <2> QED BY <1>5, <1>6, <2>1, <2>2
<1>8. TotalUnbooked' = TotalUnbooked + (Unbooked(i)' - Unbooked(i))
  BY <1>0, <1>1, UnbookedChange
<1>9. TotalBal' + elsewhere' + dropped' = TotalBal + elsewhere + dropped + Net(i)
  BY <1>0, BookingMoves
<1>10. TotalBal' \in Int
  BY <1>0, SumTypesNext, VoucherAssumption, SumType DEF TotalBal
<1> QED BY <1>0, <1>1, <1>6, <1>7, <1>8, <1>9, <1>10 DEF Balanced

\* A deposit credits nobody: what it brought stays what it is.
LEMMA DepositBalanced ==
    ASSUME MoneyInv, MoneyInv', Balanced, NEW i \in Invoices, tx[i].to = Deposit,
           ConfirmDeposit(i), UNCHANGED <<payment, wallet>>
    PROVE  Balanced'
<1>0. TypeOK /\ TypeOK' /\ TotalBal \in Int /\ TotalUnbooked \in Int
  BY SumTypes DEF MoneyInv
<1>1. UNCHANGED <<voucher, elsewhere, dropped>>
  BY DEF ConfirmDeposit
<1>2. tx'[i].to = Deposit /\ \A j \in Invoices \ {i} : tx'[j] = tx[j]
  BY <1>0 DEF ConfirmDeposit, TypeOK
<1>3. Unbooked(i)' = Unbooked(i) /\ Unbooked(i) \in Int
  <2>1. Unbooked(i)' = Unbooked(i)
    BY <1>2 DEF Unbooked
  <2> QED BY <1>0, <2>1, SumTypes
<1>4. TotalUnbooked' = TotalUnbooked
  <2>1. TotalUnbooked' = TotalUnbooked + (Unbooked(i)' - Unbooked(i))
    BY <1>0, <1>2, UnbookedChange
  <2> QED BY <1>0, <1>3, <2>1
<1> QED BY <1>1, <1>4, TotalSame DEF Balanced

\* An invoice brings nothing until it is paid.
LEMMA InvoiceBalanced ==
    ASSUME MoneyInv, MoneyInv', Balanced, NEW i \in Invoices, NEW to, NEW msat,
           NewInvoice(i, to, msat)
    PROVE  Balanced'
<1>0. TypeOK /\ TypeOK' /\ InvoiceOK(i) /\ TotalUnbooked \in Int
  BY SumTypes DEF MoneyInv
<1>1. /\ tx[i] = NoTx /\ \A j \in Invoices \ {i} : tx'[j] = tx[j]
      /\ UNCHANGED <<voucher, payment, wallet, elsewhere, dropped>>
  BY <1>0 DEF NewInvoice, TypeOK
<1>2. ~payment[i].done
  BY <1>0, <1>1 DEF InvoiceOK, NoTx
<1>3. Unbooked(i)' = 0 /\ Unbooked(i) = 0
  BY <1>1, <1>2 DEF Unbooked
<1>4. TotalUnbooked' = TotalUnbooked
  <2>1. TotalUnbooked' = TotalUnbooked + (Unbooked(i)' - Unbooked(i))
    BY <1>0, <1>1, UnbookedChange
  <2> QED BY <1>0, <1>3, <2>1
<1> QED BY <1>1, <1>4, TotalSame DEF Balanced

\* Where no table and no payment changes, nothing does.
LEMMA NothingMoves ==
    ASSUME Balanced, UNCHANGED <<voucher, tx, payment, wallet, elsewhere, dropped>>
    PROVE  Balanced'
BY TotalSame DEF Balanced

\* Every step that takes money from one place puts it into another.
LEMMA StepBalanced == MoneyInv /\ MoneyInv' /\ Balanced /\ [Next]_vars => Balanced'
<1> SUFFICES ASSUME MoneyInv, MoneyInv', Balanced, [Next]_vars PROVE Balanced'
  OBVIOUS
<1>1. CASE World
  BY <1>1, WorldBalanced
<1>2. CASE Callers
  <2>1. ASSUME NEW i \in Invoices, NEW msat \in Amounts,
               DepositInvoice(i, msat) \/ \E to \in Vouchers \cup Batches : FundInvoice(i, to, msat)
        PROVE  Balanced'
    <3>1. PICK to \in Vouchers \cup Batches \cup {Deposit} : NewInvoice(i, to, msat)
      BY <2>1, AskedAtLeast
    <3> QED BY <3>1, InvoiceBalanced
  <2>2. ASSUME NEW t \in Transfers, NEW src, NEW to, NEW msat, NEW fp,
               TransferLookup(t, src, to, msat, fp)
        PROVE  Balanced'
    BY <2>2, NothingMoves DEF TransferLookup
  <2> QED BY <1>2, <2>1, <2>2 DEF Callers
<1>3. ASSUME NEW t \in Transfers, TransferEnds(t) PROVE Balanced'
  <2>1. UNCHANGED <<tx, payment, wallet, dropped>>
    BY <1>3 DEF TransferEnds, TransferCommit, TransferRollback, EndTransfer
  <2>2. CASE TransferCommit(t)
    <3>1. TypeOK /\ TypeOK' /\ CallOK(t)
      BY DEF MoneyInv
    <3>2. TotalBal' + elsewhere' = TotalBal + elsewhere
      BY <2>2, <3>1, TransferMoves
    <3>3. TotalUnbooked' = TotalUnbooked
      BY <2>1, TotalSame
    <3> QED BY <2>1, <3>2, <3>3 DEF Balanced
  <2>3. CASE TransferRollback(t)
    BY <2>1, <2>3, NothingMoves DEF TransferRollback
  <2> QED BY <1>3, <2>2, <2>3 DEF TransferEnds
<1>4. ASSUME NEW i \in Invoices, EventStep(i) PROVE Balanced'
  <2>1. payment[i].done /\ UNCHANGED <<payment, wallet>>
    BY <1>4 DEF EventStep, EventRead, EventConfirm, EventDeposit, EventGoes
  <2>2. CASE EventRead(i)
    BY <2>1, <2>2, NothingMoves DEF EventRead
  <2>3. CASE EventConfirm(i)
    BY <2>1, <2>3, NothingMoves, UpdateBalanced DEF EventConfirm, AlreadyConfirmed
  <2>4. CASE EventDeposit(i)
    BY <2>1, <2>4, DepositBalanced DEF EventDeposit
  <2> QED BY <1>4, <2>2, <2>3, <2>4 DEF EventStep
<1>5. CASE Stop
  BY <1>5, NothingMoves DEF Stop
<1>6. ASSUME NEW i \in Invoices, BootConfirm(i) \/ BootRefuses(i) \/ BootDeposit(i)
      PROVE  Balanced'
  <2>1. CASE BootConfirm(i)
    <3>1. payment[i].done /\ UNCHANGED <<payment, wallet>>
      BY <2>1 DEF BootConfirm, BootGoto, MoneyInv, BootTodo
    <3> QED BY <2>1, <3>1, NothingMoves, UpdateBalanced DEF BootConfirm, AlreadyConfirmed
  <2>2. CASE BootRefuses(i)
    BY <1>5, <2>2 DEF BootRefuses
  <2>3. CASE BootDeposit(i)
    <3>1. tx[i].to = Deposit /\ UNCHANGED <<payment, wallet>>
      BY <2>3 DEF BootDeposit, BootGoto, MoneyInv, BootTodo
    <3> QED BY <2>3, <3>1, DepositBalanced DEF BootDeposit
  <2> QED BY <1>6, <2>1, <2>2, <2>3
<1>7. CASE BootStep
  <2>1. CASE \/ Start \/ OpenDB \/ BootList \/ BootCaughtUp \/ BootListDeposits
             \/ BootSkipsDeposits \/ BootServes
    BY <2>1, NothingMoves DEF Start, OpenDB, BootList, BootCaughtUp, BootListDeposits,
       BootSkipsDeposits, BootServes, BootGoto, Rows
  <2> QED BY <1>6, <1>7, <2>1 DEF BootStep
<1>8. CASE BootFails \/ Crash \/ \E i \in Invoices : EventCrashes(i)
  BY <1>5, <1>8 DEF BootFails, Crash, EventCrashes
<1>9. CASE UNCHANGED vars
  BY <1>9, NothingMoves DEF vars
<1> QED BY <1>1, <1>2, <1>3, <1>4, <1>7, <1>8, <1>9 DEF Next

\* At first the wallet is what the vouchers hold.
LEMMA InitBalanced == Init => Balanced
<1> SUFFICES ASSUME Init PROVE Balanced
  OBVIOUS
<1>1. TypeOK
  BY InitMoney DEF MoneyInv
<1>2. TotalBal = wallet
  <2>1. \A v \in Vouchers : voucher[v].bal = InitBalance
    BY DEF Init, Created
  <2>2. [v \in Vouchers |-> voucher[v].bal] = [v \in Vouchers |-> InitBalance]
    BY <2>1
  <2> QED BY <2>2 DEF TotalBal, Init
<1>3. TotalUnbooked = 0
  <2> DEFINE f == [i \in Invoices |-> Unbooked(i)]
  <2>1. f \in [Invoices -> Int]
    BY <1>1, SumTypes
  <2>2. \A i \in Invoices : f[i] = 0
    BY DEF Init, NoPayment, Unbooked
  <2>3. SumFunction(f) = 0
    <3> HIDE DEF f
    <3> QED BY <2>1, <2>2, FundingAssumption, SumZero
  <2> QED BY <2>3 DEF TotalUnbooked
<1>4. elsewhere = 0 /\ dropped = 0 /\ wallet \in Nat
  BY <1>1 DEF Init, TypeOK
<1> QED BY <1>2, <1>3, <1>4 DEF Balanced

\* Whichever of the event and start-up books a payment, however often the server stops,
\* and however transfers, redeems and refunds go on beside it: what is in the wallet
\* is what the books say, with what is not booked yet and the shares that were dropped,
\* to the last msat (handlers.go:596-654, 962-1044; start-up.go:87-190).
THEOREM Closes == Spec => []BooksClose
<1>1. Init => Balanced
  BY InitBalanced
<1>2. MoneyInv /\ MoneyInv' /\ Balanced /\ [Next]_vars => Balanced'
  BY StepBalanced
<1>3. BooksClose <=> Balanced
  BY BalancedIsBooks
<1> QED BY <1>1, <1>2, <1>3, InitIInv, StepIInv, InitMoney, StepMoney, PTL DEF Spec

-----------------------------------------------------------------------------
\* An invoice for vouchers is booked by updateFundTxConfirmed and by nothing else.
LEMMA BookedByUpdate ==
    ASSUME MoneyInv, [Next]_vars, NEW i \in Invoices, tx[i].to # Deposit,
           tx[i].st = "pending", tx'[i].st = "confirmed"
    PROVE  UpdateFundTxConfirmed(i)
<1>0. TypeOK /\ BootTodo
  BY DEF MoneyInv
<1>1. CASE UNCHANGED tx
  BY <1>1
<1>2. ASSUME NEW j \in Invoices, UpdateFundTxConfirmed(j) PROVE UpdateFundTxConfirmed(i)
  <2>1. i # j => tx'[i] = tx[i]
    BY <1>0, <1>2 DEF UpdateFundTxConfirmed, TypeOK
  <2> QED BY <1>2, <2>1
<1>3. ASSUME NEW j \in Invoices, tx[j].to = Deposit, ConfirmDeposit(j) PROVE FALSE
  <2>1. i # j
    BY <1>3
  <2>2. tx'[i] = tx[i]
    BY <1>0, <1>3, <2>1 DEF ConfirmDeposit, TypeOK
  <2> QED BY <2>2
<1>4. CASE Callers
  <2>1. ASSUME NEW j \in Invoices, NEW to, NEW msat, NewInvoice(j, to, msat) PROVE FALSE
    <3>1. tx[j] = NoTx /\ (i # j => tx'[i] = tx[i])
      BY <1>0, <2>1 DEF NewInvoice, TypeOK
    <3> QED BY <3>1 DEF NoTx
  <2>2. UNCHANGED tx
    BY <1>4, <2>1 DEF Callers, DepositInvoice, FundInvoice, TransferLookup
  <2> QED BY <1>1, <2>2
<1>5. ASSUME NEW j \in Invoices, EventStep(j) PROVE UpdateFundTxConfirmed(i)
  BY <1>1, <1>2, <1>3, <1>5 DEF EventStep, EventRead, EventConfirm, EventDeposit,
     AlreadyConfirmed
<1>6. ASSUME NEW j \in Invoices, BootConfirm(j) \/ BootDeposit(j)
      PROVE  UpdateFundTxConfirmed(i)
  <2>1. CASE BootConfirm(j)
    BY <1>1, <1>2, <2>1 DEF BootConfirm, AlreadyConfirmed
  <2>2. CASE BootDeposit(j)
    <3>1. tx[j].to = Deposit /\ ConfirmDeposit(j)
      BY <1>0, <2>2 DEF BootDeposit, BootGoto, BootTodo
    <3> QED BY <1>3, <3>1
  <2> QED BY <1>6, <2>1, <2>2
<1>7. CASE BootStep
  <2>1. ASSUME NEW j \in Invoices, BootRefuses(j) PROVE UNCHANGED tx
    BY <2>1 DEF BootRefuses, Stop
  <2>2. CASE \/ Start \/ OpenDB \/ BootList \/ BootCaughtUp \/ BootListDeposits
             \/ BootSkipsDeposits \/ BootServes
    BY <1>1, <2>2 DEF Start, OpenDB, BootList, BootCaughtUp, BootListDeposits,
       BootSkipsDeposits, BootServes, Rows
  <2> QED BY <1>1, <1>6, <1>7, <2>1, <2>2 DEF BootStep
<1>8. CASE World \/ \E t \in Transfers : TransferEnds(t)
  <2>1. UNCHANGED tx
    BY <1>8 DEF World, VoucherExpires, Redeemed, RefundExpired, Pay, TransferEnds,
       TransferCommit, TransferRollback, EndTransfer
  <2> QED BY <1>1, <2>1
<1>9. CASE BootFails \/ Crash \/ (\E j \in Invoices : EventCrashes(j)) \/ UNCHANGED vars
  <2>1. UNCHANGED tx
    BY <1>9 DEF BootFails, Crash, EventCrashes, Stop, vars
  <2> QED BY <1>1, <2>1
<1> QED BY <1>4, <1>5, <1>7, <1>8, <1>9 DEF Next

\* A booking leaves a voucher with immediate refunds nothing that is worth paying.
LEMMA SweptStep ==
    ASSUME MoneyInv, [Next]_vars, NEW i \in Invoices, NEW v \in Immediate,
           tx[i].st = "pending", tx'[i].st = "confirmed",
           v \in Members(tx[i].to), Live(voucher[v])
    PROVE  PaidOf(v, voucher'[v].bal) = 0
<1>1. v \in Vouchers /\ TypeOK /\ InvoiceOK(i)
  BY FundingAssumption DEF MoneyInv
<1>2. tx[i].to # Deposit
  BY <1>1, FundingAssumption DEF Members
<1>3. UpdateFundTxConfirmed(i)
  BY <1>2, BookedByUpdate
<1>4. v \in Credited(i) /\ Pending(i)
  BY <1>3 DEF Credited, Living, UpdateFundTxConfirmed
<1> DEFINE bal == voucher[v].bal + ShareOf(i)
<1>5. voucher[v].bal \in Nat /\ ShareOf(i) \in Nat /\ bal \in Nat
  BY <1>1, <1>4, ShareType DEF TypeOK, VoucherRow
<1>6. voucher'[v] = [Credit(voucher[v], ShareOf(i)) EXCEPT
                       !.bal = IF v \in Swept(i) THEN 0 ELSE @]
  BY <1>1, <1>3, <1>4 DEF UpdateFundTxConfirmed
<1>7. voucher'[v].bal = IF v \in Swept(i) THEN 0 ELSE bal
  BY <1>5, <1>6 DEF Credit
<1>8. PaidOf(v, bal) \in Nat /\ PaidOf(v, 0) = 0
  <2>1. PaidOf(v, 0) \in Nat /\ PaidOf(v, 0) <= 0
    BY <1>1, PaidBounds
  <2>2. PaidOf(v, bal) \in Nat
    <3> HIDE DEF bal
    <3> QED BY <1>1, <1>5, PaidBounds
  <2> QED BY <2>1, <2>2
<1>9. v \notin Swept(i) => ~(PaidOf(v, bal) > 0)
  BY <1>4 DEF Swept
<1> HIDE DEF bal
<1> QED BY <1>7, <1>8, <1>9

\* A voucher with immediate refunds is left with no share that is worth paying whenever
\* an invoice is booked on it, whatever came into it in between (refund.go:85-130).
THEOREM SweptOnBooking == Spec => ImmediateIsSwept
<1>1. MoneyInv /\ [Next]_vars =>
        [\A i \in Invoices, v \in Immediate :
           /\ tx[i].st = "pending" /\ tx'[i].st = "confirmed"
           /\ v \in Members(tx[i].to) /\ Live(voucher[v])
           => PaidOf(v, voucher'[v].bal) = 0]_vars
  BY SweptStep
<1> QED BY <1>1, InitIInv, StepIInv, InitMoney, StepMoney, PTL DEF Spec, ImmediateIsSwept
-----------------------------------------------------------------------------
(* No payment is forgotten                                                 *)

\* It was paid, and its voucher or its batch has yet to see it.
Owed(i) == payment[i].done /\ Pending(i) /\ tx[i].to # Deposit

\* Somebody has yet to look: the event, or start-up on a list that it has or will make.
Awaited(i) ==
    \/ event[i] # "told"
    \/ boot.pc \in {"down", "sync", "list"}
    \/ boot.pc = "confirm" /\ i \in boot.todo

Forgotten(i) == Owed(i) /\ ~Awaited(i)

\* There is no event before there is a payment.
Untold == \A i \in Invoices : ~payment[i].done => event[i] = "none"

\* A booking decides the row of its own invoice, whoever it is for, and leaves the others
\* alone (db.go: updateFundTxConfirmed, confirmOperatorDepositByPR).
LEMMA BookingKeepsTo ==
    ASSUME TypeOK, NEW i \in Invoices,
           UpdateFundTxConfirmed(i) \/ ConfirmDeposit(i) \/ AlreadyConfirmed(i)
    PROVE  /\ \A j \in Invoices : tx'[j].to = tx[j].to
           /\ \A j \in Invoices : j # i => tx'[j] = tx[j]
           /\ tx'[i].st # "pending"
<1> DEFINE fee == ActualFee(i)
<1>1. tx \in [Invoices -> FundTx]
  BY TypeParts
<1>2. CASE UpdateFundTxConfirmed(i)
  <2>1. tx' = [tx EXCEPT ![i].st = "confirmed", ![i].fee = fee]
    BY <1>2 DEF UpdateFundTxConfirmed
  <2> HIDE DEF fee
  <2> QED BY <1>1, <2>1 DEF FundTx
<1>3. CASE ConfirmDeposit(i)
  <2>1. CASE Pending(i)
    <3>1. tx' = [tx EXCEPT ![i].st = "confirmed", ![i].msat = payment[i].net]
      BY <1>3, <2>1 DEF ConfirmDeposit
    <3> QED BY <1>1, <3>1 DEF FundTx
  <2>2. CASE ~Pending(i)
    BY <1>3, <2>2 DEF ConfirmDeposit, Pending
  <2> QED BY <2>1, <2>2
<1>4. CASE AlreadyConfirmed(i)
  BY <1>4 DEF AlreadyConfirmed, Pending
<1> QED BY <1>2, <1>3, <1>4

\* The event of a payment comes after it, and is told to nobody twice (breez.go:50-97).
LEMMA UntoldStep ==
    ASSUME TypeOK, Untold, [Next]_vars PROVE Untold'
<1>1. CASE UNCHANGED <<payment, event>>
  BY <1>1 DEF Untold
<1>2. ASSUME NEW i \in Invoices, Pay(i) PROVE Untold'
  <2>1. UNCHANGED event /\ \A j \in Invoices : payment[j].done => payment'[j].done
    BY <1>2 DEF Pay, TypeOK
  <2> QED BY <2>1 DEF Untold
<1>3. ASSUME NEW i \in Invoices, EventStep(i) PROVE Untold'
  <2>1. payment[i].done /\ UNCHANGED payment /\ \A j \in Invoices : j # i => event'[j] = event[j]
    BY <1>3 DEF EventStep, EventRead, EventConfirm, EventDeposit, EventGoes, TypeOK
  <2> QED BY <2>1 DEF Untold
<1>4. CASE Stop
  BY <1>4 DEF Stop, Untold
<1>5. CASE \E v \in Vouchers : VoucherExpires(v) \/ Redeemed(v) \/ RefundExpired(v)
  BY <1>1, <1>5 DEF VoucherExpires, Redeemed, RefundExpired
<1>6. CASE Callers
  BY <1>1, <1>6 DEF Callers, DepositInvoice, FundInvoice, NewInvoice, TransferLookup
<1>7. CASE \E t \in Transfers : TransferEnds(t)
  BY <1>1, <1>7 DEF TransferEnds, TransferCommit, TransferRollback, EndTransfer
<1>8. CASE BootStep
  BY <1>1, <1>4, <1>8 DEF BootStep, Start, OpenDB, BootList, BootCaughtUp, BootListDeposits,
       BootSkipsDeposits, BootServes, BootConfirm, BootRefuses, BootDeposit, BootGoto
<1>9. CASE BootFails \/ Crash \/ \E i \in Invoices : EventCrashes(i)
  BY <1>4, <1>9 DEF BootFails, Crash, EventCrashes
<1> QED BY <1>1, <1>2, <1>3, <1>4, <1>5, <1>6, <1>7, <1>8, <1>9 DEF Next, World, vars

\* A payment that has somebody to book it is booked, keeps somebody to, or has nobody to
\* be credited to (breez.go:50-97, start-up.go:87-137).
LEMMA KeptStep ==
    ASSUME MoneyInv, Untold, [Next]_vars, NEW i \in Invoices, ~Forgotten(i), ~Orphan(i)
    PROVE  ~Forgotten(i)'
<1>0. TypeOK /\ InvoiceOK(i)
  BY DEF MoneyInv
<1>1. CASE UNCHANGED <<tx, payment, event, boot>>
  BY <1>1 DEF Forgotten, Owed, Awaited, Pending
<1>2. ASSUME NEW j \in Invoices, Pay(j) PROVE ~Forgotten(i)'
  <2>1. UNCHANGED <<tx, event, boot>> /\ ~payment[j].done
        /\ \A k \in Invoices : k # j => payment'[k] = payment[k]
    BY <1>0, <1>2 DEF Pay, TypeOK
  <2>2. CASE i = j
    <3>1. event'[i] = "none"
      BY <2>1, <2>2 DEF Untold
    <3> QED BY <3>1 DEF Forgotten, Awaited
  <2>3. CASE i # j
    BY <2>1, <2>3 DEF Forgotten, Owed, Awaited, Pending
  <2> QED BY <2>2, <2>3
<1>3. ASSUME NEW j \in Invoices, NEW to, NEW msat, NewInvoice(j, to, msat) PROVE ~Forgotten(i)'
  <2>1. tx[j] = NoTx /\ UNCHANGED <<payment, event, boot>>
        /\ \A k \in Invoices : k # j => tx'[k] = tx[k]
    BY <1>0, <1>3 DEF NewInvoice, TypeOK
  <2>2. CASE i = j
    BY <1>0, <2>1, <2>2 DEF InvoiceOK, NoTx, Forgotten, Owed
  <2>3. CASE i # j
    BY <2>1, <2>3 DEF Forgotten, Owed, Awaited, Pending
  <2> QED BY <2>2, <2>3
<1>4. CASE Callers
  BY <1>1, <1>3, <1>4 DEF Callers, DepositInvoice, FundInvoice, TransferLookup
<1>5. CASE \E t \in Transfers : TransferEnds(t)
  BY <1>1, <1>5 DEF TransferEnds, TransferCommit, TransferRollback, EndTransfer
<1>6. ASSUME NEW j \in Invoices, EventStep(j), j # i PROVE ~Forgotten(i)'
  <2>1. UNCHANGED <<payment, boot>> /\ event'[i] = event[i]
    BY <1>0, <1>6 DEF EventStep, EventRead, EventConfirm, EventDeposit, EventGoes, TypeOK
  <2>2. tx'[i] = tx[i]
    <3>1. \/ UNCHANGED tx
          \/ UpdateFundTxConfirmed(j) \/ ConfirmDeposit(j) \/ AlreadyConfirmed(j)
      BY <1>6 DEF EventStep, EventRead, EventConfirm, EventDeposit
    <3> QED BY <1>0, <1>6, <3>1, BookingKeepsTo
  <2> QED BY <2>1, <2>2 DEF Forgotten, Owed, Awaited, Pending
<1>7. CASE EventRead(i)
  <2>1. UNCHANGED <<payment, tx>> /\ event'[i] = IF Pending(i) THEN "read" ELSE "told"
    BY <1>0, <1>7 DEF EventRead, EventGoes, TypeOK
  <2> QED BY <2>1 DEF Forgotten, Owed, Awaited, Pending
<1>8. CASE EventConfirm(i) \/ EventDeposit(i)
  <2>1. CASE TargetGone(i) /\ UNCHANGED tx /\ UNCHANGED payment
    BY <2>1 DEF Forgotten, Owed, Orphan, Pending
  <2>2. CASE UpdateFundTxConfirmed(i) \/ ConfirmDeposit(i) \/ AlreadyConfirmed(i)
    <3>1. tx'[i].st # "pending"
      BY <1>0, <2>2, BookingKeepsTo
    <3> QED BY <3>1 DEF Forgotten, Owed, Pending
  <2> QED BY <1>8, <2>1, <2>2 DEF EventConfirm, EventDeposit, EventGoes
<1>9. CASE Stop
  BY <1>9 DEF Stop, Forgotten, Awaited
<1>10. CASE Start \/ OpenDB
  BY <1>10 DEF Start, OpenDB, BootGoto, Forgotten, Awaited
<1>11. CASE BootList
  <2>1. boot'.pc = "confirm" /\ boot'.todo = PaidPending(FALSE) /\ UNCHANGED <<tx, payment>>
    BY <1>11 DEF BootList, BootGoto, Rows
  <2> QED BY <1>0, <2>1 DEF PaidPending, Forgotten, Owed, Awaited, Pending
<1>12. CASE BootCaughtUp \/ BootListDeposits \/ BootSkipsDeposits \/ BootServes
  <2>1. UNCHANGED <<tx, payment, event>>
        /\ boot.pc \notin {"down", "sync", "list"} /\ ~(boot.pc = "confirm" /\ i \in boot.todo)
    BY <1>12 DEF BootCaughtUp, BootListDeposits, BootSkipsDeposits, BootServes, BootGoto, Rows
  <2> QED BY <2>1 DEF Forgotten, Owed, Awaited, Pending
<1>13. ASSUME NEW j \in Invoices, BootConfirm(j) PROVE ~Forgotten(i)'
  <2>1. /\ boot.pc = "confirm" /\ boot'.pc = "confirm" /\ boot'.todo = boot.todo \ {j}
        /\ UNCHANGED <<payment, event>>
    BY <1>13 DEF BootConfirm, BootGoto
  <2>2. tx'[j].st # "pending" /\ (i # j => tx'[i] = tx[i])
    BY <1>0, <1>13, BookingKeepsTo DEF BootConfirm
  <2> QED BY <2>1, <2>2 DEF Forgotten, Owed, Awaited, Pending
<1>14. ASSUME NEW j \in Invoices, BootDeposit(j) PROVE ~Forgotten(i)'
  <2>1. boot.pc = "deposit" /\ UNCHANGED <<payment, event>>
    BY <1>14 DEF BootDeposit, BootGoto
  <2>2. tx'[j].st # "pending" /\ (i # j => tx'[i] = tx[i])
    BY <1>0, <1>14, BookingKeepsTo DEF BootDeposit
  <2> QED BY <2>1, <2>2 DEF Forgotten, Owed, Awaited, Pending
<1>15. CASE BootFails \/ Crash \/ \E j \in Invoices : EventCrashes(j) \/ BootRefuses(j)
  BY <1>9, <1>15 DEF BootFails, Crash, EventCrashes, BootRefuses
<1>16. CASE World
  BY <1>1, <1>2, <1>16 DEF World, VoucherExpires, Redeemed, RefundExpired
<1>17. CASE UNCHANGED vars
  BY <1>1, <1>17 DEF vars
<1> QED
  BY <1>4, <1>5, <1>6, <1>7, <1>8, <1>10, <1>11, <1>12, <1>13, <1>14, <1>15, <1>16, <1>17
     DEF Next, EventStep, BootStep

\* What makes a payment forgotten, so that only a restart can find it again, is that all
\* of its vouchers were gone at that moment: no crash between the payment and its event,
\* between the event's read and its transaction, or during start-up does, however they
\* interleave (breez.go:60-84, start-up.go:87-137).
THEOREM OnlyOrphansAreForgotten ==
    Spec => [][\A i \in Invoices : ~Forgotten(i) /\ Forgotten(i)' => Orphan(i)]_vars
<1> DEFINE Lost == \A i \in Invoices : ~Forgotten(i) /\ Forgotten(i)' => Orphan(i)
           Inv == MoneyInv /\ IInv /\ Untold
<1>1. Init => Inv
  <2>1. Init => Untold
    BY DEF Init, Untold
  <2> QED BY <2>1, InitMoney, InitIInv
<1>2. Inv /\ [Next]_vars => Inv'
  <2>1. Inv /\ [Next]_vars => Untold'
    BY UntoldStep DEF MoneyInv
  <2> QED BY <2>1, StepMoney, StepIInv
<1>3. Inv /\ [Next]_vars => [Lost]_vars
  BY KeptStep
<1> QED BY <1>1, <1>2, <1>3, PTL DEF Spec

\* As long as no payment is without a live voucher, every payment that is not booked has
\* somebody who will: its event, or the catch-up of a start-up that is under way.  With
\* the fairness that the runs assume, it is credited (breez.go:50-97, start-up.go:87-137).
THEOREM NothingIsForgotten ==
    Spec /\ [](\A i \in Invoices : ~Orphan(i)) => [](\A i \in Invoices : ~Forgotten(i))
<1> DEFINE Known == \A i \in Invoices : ~Forgotten(i)
           Homes == \A i \in Invoices : ~Orphan(i)
           Inv == MoneyInv /\ IInv /\ Untold
<1>1. Init => Inv /\ Known
  <2>1. Init => Untold /\ Known
    BY DEF Init, Untold, Forgotten, Owed, NoPayment
  <2> QED BY <2>1, InitMoney, InitIInv
<1>2. Inv /\ [Next]_vars => Inv'
  <2>1. Inv /\ [Next]_vars => Untold'
    BY UntoldStep DEF MoneyInv
  <2> QED BY <2>1, StepMoney, StepIInv
<1>3. Inv /\ Known /\ Homes /\ [Next]_vars => Known'
  BY KeptStep
<1> QED BY <1>1, <1>2, <1>3, PTL DEF Spec
-----------------------------------------------------------------------------
(* Start-up ends, but for a payment without a voucher                      *)

\* The steps that start-up has left at most: each row that it has listed once, the
\* invoices of vouchers first and the deposits after them (main.go:46-67).
BootStepsLeft(where, rows, all) ==
    CASE where = "down"     -> 2 * all + 6
      [] where = "sync"     -> 2 * all + 5
      [] where = "list"     -> 2 * all + 4
      [] where = "confirm"  -> rows + all + 3
      [] where = "deposits" -> all + 2
      [] where = "deposit"  -> rows + 1
      [] OTHER              -> 0

BootLeft == BootStepsLeft(boot.pc, Cardinality(boot.todo), Cardinality(Invoices))

BootMoves ==
    /\ BootStep => BootLeft' < BootLeft \/ \E i \in Invoices : BootRefuses(i) /\ Orphan(i)
    /\ BootStep \/ Stop \/ boot' = boot

\* The rows that start-up has yet to visit are so many, and one less after each visit.
LEMMA TodoSize ==
    ASSUME NEW todo \in SUBSET Invoices
    PROVE  /\ Cardinality(todo) \in Nat /\ Cardinality(Invoices) \in Nat
           /\ Cardinality(todo) <= Cardinality(Invoices)
           /\ \A i \in todo : Cardinality(todo \ {i}) = Cardinality(todo) - 1
<1>1. IsFiniteSet(Invoices) /\ IsFiniteSet(todo) /\ Cardinality(todo) <= Cardinality(Invoices)
  BY FundingAssumption, FS_Subset
<1> QED BY <1>1, FS_CardinalityType, FS_RemoveElement

\* Where the steps of start-up lead, and with which rows.
LEMMA BootGoesTo ==
    ASSUME TypeOK, BootStep, \A i \in Invoices : ~BootRefuses(i)
    PROVE  \/ boot.pc = "down" /\ boot'.pc = "sync"
           \/ boot.pc = "sync" /\ boot'.pc = "list"
           \/ boot.pc = "list" /\ boot'.pc = "confirm" /\ boot'.todo \in SUBSET Invoices
           \/ boot.pc = "confirm" /\ boot'.pc = "deposits"
           \/ boot.pc = "deposits" /\ boot'.pc = "deposit" /\ boot'.todo \in SUBSET Invoices
           \/ boot.pc = "deposit" /\ boot'.pc = "served"
           \/ /\ boot.pc \in {"confirm", "deposit"} /\ boot'.pc = boot.pc
              /\ \E i \in boot.todo : boot'.todo = boot.todo \ {i}
<1>1. ASSUME NEW from, NEW to, NEW todo, BootGoto(from, to, todo)
      PROVE  boot.pc = from /\ boot'.pc = to /\ boot'.todo = todo
  BY <1>1 DEF BootGoto
<1>2. CASE Start \/ OpenDB \/ BootCaughtUp \/ BootServes
  BY <1>1, <1>2 DEF Start, OpenDB, BootCaughtUp, BootServes
<1>3. CASE BootList \/ BootListDeposits \/ BootSkipsDeposits
  <2>1. PaidPending(FALSE) \in SUBSET Invoices /\ PaidPending(TRUE) \in SUBSET Invoices
    BY DEF PaidPending
  <2>2. /\ BootList => BootGoto("list", "confirm", PaidPending(FALSE))
        /\ BootListDeposits => BootGoto("deposits", "deposit", PaidPending(TRUE))
        /\ BootSkipsDeposits => BootGoto("deposits", "deposit", {})
    BY DEF BootList, BootListDeposits, BootSkipsDeposits
  <2> QED BY <1>1, <1>3, <2>1, <2>2
<1>4. CASE \E i \in Invoices : BootConfirm(i) \/ BootDeposit(i)
  BY <1>1, <1>4 DEF BootConfirm, BootDeposit
<1> QED BY <1>2, <1>3, <1>4 DEF BootStep

\* Only a step of start-up, or the end of the process, moves start-up.
LEMMA WhoBoots == [Next]_vars => BootStep \/ Stop \/ boot' = boot
<1> SUFFICES ASSUME [Next]_vars PROVE BootStep \/ Stop \/ boot' = boot
  OBVIOUS
<1>1. World \/ Callers \/ UNCHANGED vars => boot' = boot
  BY DEF World, VoucherExpires, Redeemed, RefundExpired, Pay, Callers, DepositInvoice,
         FundInvoice, NewInvoice, TransferLookup, vars
<1>2. ASSUME NEW t \in Transfers, TransferEnds(t) PROVE boot' = boot
  BY <1>2 DEF TransferEnds, TransferCommit, TransferRollback, EndTransfer
<1>3. ASSUME NEW i \in Invoices, EventStep(i) PROVE boot' = boot
  BY <1>3 DEF EventStep, EventRead, EventConfirm, EventDeposit, EventGoes
<1>4. BootFails \/ Crash \/ (\E i \in Invoices : EventCrashes(i)) => Stop
  BY DEF BootFails, Crash, EventCrashes
<1> QED BY <1>1, <1>2, <1>3, <1>4 DEF Next

\* What start-up catches up on first are invoices of vouchers (start-up.go:87-137).
VouchersFirst == boot.pc = "confirm" => \A i \in boot.todo : tx[i].to # Deposit

\* While start-up runs no invoice is made, and none changes what it is for.
LEMMA ToStays ==
    ASSUME TypeOK, [Next]_vars, ~Serving, NEW i \in Invoices
    PROVE  tx'[i].to = tx[i].to
<1>1. ASSUME NEW j \in Invoices,
             UpdateFundTxConfirmed(j) \/ ConfirmDeposit(j) \/ AlreadyConfirmed(j)
      PROVE  tx'[i].to = tx[i].to
  BY <1>1, BookingKeepsTo
<1>2. CASE \E j \in Invoices : EventStep(j)
  BY <1>1, <1>2 DEF EventStep, EventRead, EventConfirm, EventDeposit
<1>3. CASE BootStep
  BY <1>1, <1>3 DEF BootStep, Start, OpenDB, BootList, BootCaughtUp, BootListDeposits,
       BootSkipsDeposits, BootServes, BootConfirm, BootRefuses, BootDeposit, Rows, Stop
<1>4. CASE World \/ Callers \/ UNCHANGED vars
  BY <1>4 DEF World, VoucherExpires, Redeemed, RefundExpired, Pay, Callers, DepositInvoice,
       FundInvoice, NewInvoice, TransferLookup, vars
<1>5. CASE \E t \in Transfers : TransferEnds(t)
  BY <1>5 DEF TransferEnds, TransferCommit, TransferRollback, EndTransfer
<1>6. CASE BootFails \/ Crash \/ \E j \in Invoices : EventCrashes(j)
  BY <1>6 DEF BootFails, Crash, EventCrashes, Stop
<1> QED BY <1>2, <1>3, <1>4, <1>5, <1>6 DEF Next

\* So what is on that list stays an invoice of a voucher.
LEMMA VouchersFirstStep == TypeOK /\ VouchersFirst /\ [Next]_vars => VouchersFirst'
<1> SUFFICES ASSUME TypeOK, VouchersFirst, [Next]_vars, boot'.pc = "confirm",
                    NEW i \in boot'.todo
             PROVE  tx'[i].to # Deposit
  BY DEF VouchersFirst
<1>t. boot.todo \in SUBSET Invoices
  BY DEF TypeOK
<1>1. CASE boot' = boot
  <2>1. ~Serving /\ i \in Invoices
    BY <1>t, <1>1 DEF Serving
  <2> QED BY <1>1, <2>1, ToStays DEF VouchersFirst
<1>2. CASE Stop
  BY <1>2 DEF Stop
<1>3. CASE BootList
  BY <1>3 DEF BootList, BootGoto, PaidPending, Rows
<1>4. ASSUME NEW j \in Invoices, BootConfirm(j) PROVE tx'[i].to # Deposit
  <2>1. boot.pc = "confirm" /\ boot'.todo = boot.todo \ {j} /\ ~Serving
    BY <1>4 DEF BootConfirm, BootGoto, Serving
  <2> QED BY <1>t, <2>1, ToStays DEF VouchersFirst
<1>5. CASE \/ Start \/ OpenDB \/ BootCaughtUp \/ BootListDeposits \/ BootSkipsDeposits
           \/ BootServes \/ \E j \in Invoices : BootDeposit(j)
  <2>1. ASSUME NEW from, NEW to, NEW todo, BootGoto(from, to, todo) PROVE to = "confirm"
    BY <2>1 DEF BootGoto
  <2> QED BY <1>5, <2>1 DEF Start, OpenDB, BootCaughtUp, BootListDeposits, BootSkipsDeposits,
                            BootServes, BootDeposit
<1>6. CASE \E j \in Invoices : BootRefuses(j)
  BY <1>2, <1>6 DEF BootRefuses
<1> QED BY <1>1, <1>2, <1>3, <1>4, <1>5, <1>6, WhoBoots DEF BootStep

\* What start-up goes by: the rows on its list are paid, and first those of vouchers.
BootInv == MoneyInv /\ IInv /\ VouchersFirst

\* It always does.
LEMMA BootInvariance == Spec => []BootInv
<1>1. Init => VouchersFirst
  BY DEF Init, VouchersFirst
<1>2. MoneyInv => TypeOK
  BY DEF MoneyInv
<1> QED BY <1>1, <1>2, InitIInv, StepIInv, InitMoney, StepMoney, VouchersFirstStep, PTL
        DEF Spec, BootInv

\* Only a refusal keeps start-up from coming nearer to serving, and only start-up or the
\* end of the process moves it.
LEMMA StepBoots == BootInv /\ [Next]_vars => BootMoves
<1> SUFFICES ASSUME TypeOK, BootTodo, VouchersFirst, [Next]_vars PROVE BootMoves
  BY DEF BootInv, MoneyInv
<1>t. boot.todo \in SUBSET Invoices
  BY DEF TypeOK
<1>1. ASSUME NEW i \in Invoices, BootRefuses(i) PROVE Orphan(i)
  BY <1>1 DEF BootRefuses, BootTodo, VouchersFirst, Orphan
<1>2. ASSUME BootStep, \A i \in Invoices : ~BootRefuses(i) PROVE BootLeft' < BootLeft
  <2>1. CASE /\ boot.pc \in {"confirm", "deposit"} /\ boot'.pc = boot.pc
             /\ \E i \in boot.todo : boot'.todo = boot.todo \ {i}
    <3>1. /\ Cardinality(boot'.todo) = Cardinality(boot.todo) - 1
          /\ Cardinality(boot.todo) \in Nat /\ Cardinality(Invoices) \in Nat
      BY <1>t, <2>1, TodoSize
    <3> QED BY <2>1, <3>1 DEF BootLeft, BootStepsLeft
  <2>2. CASE \/ boot.pc = "down" /\ boot'.pc = "sync"
             \/ boot.pc = "sync" /\ boot'.pc = "list"
             \/ boot.pc = "confirm" /\ boot'.pc = "deposits"
             \/ boot.pc = "deposit" /\ boot'.pc = "served"
    <3>1. Cardinality(boot.todo) \in Nat /\ Cardinality(Invoices) \in Nat
      BY <1>t, TodoSize
    <3> QED BY <2>2, <3>1 DEF BootLeft, BootStepsLeft
  <2>3. CASE /\ \/ boot.pc = "list" /\ boot'.pc = "confirm"
                \/ boot.pc = "deposits" /\ boot'.pc = "deposit"
             /\ boot'.todo \in SUBSET Invoices
    <3>1. /\ Cardinality(boot'.todo) \in Nat /\ Cardinality(Invoices) \in Nat
          /\ Cardinality(boot'.todo) <= Cardinality(Invoices)
      BY <2>3, TodoSize
    <3> QED BY <2>3, <3>1 DEF BootLeft, BootStepsLeft
  <2> QED BY <1>2, <2>1, <2>2, <2>3, BootGoesTo
<1> QED BY <1>1, <1>2, WhoBoots DEF BootMoves

\* Start-up comes to serving in so many steps at most, or it refuses to go on at a payment
\* without a live voucher: no other row holds it up (start-up.go:87-137, main.go:46-67).
THEOREM StartupEnds == Spec => [][BootMoves]_vars
BY BootInvariance, StepBoots, PTL DEF Spec

\* Start-up has yet to come past the payment of this invoice.
Ahead(i) ==
    \/ boot.pc \in {"down", "sync", "list"}
    \/ boot.pc = "confirm" /\ i \in boot.todo

StartupBarred == \E i \in Invoices : Orphan(i) /\ Ahead(i)

\* While start-up runs nobody brings a voucher back: bookings credit the living.
LEMMA GoneStays ==
    ASSUME TypeOK, [Next]_vars, ~Serving, NEW v \in Vouchers, ~Live(voucher[v])
    PROVE  ~Live(voucher'[v])
<1>0. voucher \in [Vouchers -> VoucherRow]
  BY DEF TypeOK, VoucherRow
<1>1. ASSUME NEW i \in Invoices, UpdateFundTxConfirmed(i) PROVE voucher'[v] = voucher[v]
  <2>1. v \notin Credited(i)
    BY DEF Credited, Living
  <2> DEFINE credited == Credited(i)
             put(u) == [Credit(voucher[u], ShareOf(i)) EXCEPT
                          !.bal = IF u \in Swept(i) THEN 0 ELSE @]
  <2>2. voucher' = [u \in Vouchers |-> IF u \notin credited THEN voucher[u] ELSE put(u)]
    BY <1>1 DEF UpdateFundTxConfirmed
  <2> HIDE DEF put
  <2> QED BY <2>1, <2>2
<1>2. CASE World
  <2>1. PICK u \in Vouchers : VoucherExpires(u) \/ UNCHANGED voucher
    BY <1>2 DEF World, Redeemed, RefundExpired, Pay
  <2>2. CASE VoucherExpires(u)
    <3>1. voucher' = [voucher EXCEPT ![u].clock = "passed"]
      BY <2>2 DEF VoucherExpires
    <3>2. CASE u = v
      BY <1>0, <3>1, <3>2 DEF Live, VoucherRow
    <3>3. CASE u # v
      BY <1>0, <3>1, <3>3
    <3> QED BY <3>2, <3>3
  <2> QED BY <2>1, <2>2
<1>3. CASE Callers
  BY <1>3 DEF Callers, DepositInvoice, FundInvoice, NewInvoice, TransferLookup
<1>4. CASE \E t \in Transfers : TransferEnds(t)
  BY <1>4 DEF TransferEnds, TransferCommit, TransferRollback, EndTransfer
<1>5. CASE \E i \in Invoices : EventStep(i)
  BY <1>1, <1>5 DEF EventStep, EventRead, EventConfirm, EventDeposit, AlreadyConfirmed,
                    ConfirmDeposit
<1>6. CASE BootFails \/ Crash \/ \E i \in Invoices : EventCrashes(i)
  BY <1>6 DEF BootFails, Crash, EventCrashes, Stop
<1>7. CASE BootStep
  BY <1>1, <1>7 DEF BootStep, Start, OpenDB, BootList, BootCaughtUp, BootListDeposits,
       BootSkipsDeposits, BootServes, BootConfirm, BootRefuses, BootDeposit, AlreadyConfirmed,
       ConfirmDeposit, Rows, Stop
<1>8. CASE UNCHANGED vars
  BY <1>8 DEF vars
<1> QED BY <1>2, <1>3, <1>4, <1>5, <1>6, <1>7, <1>8 DEF Next

\* A payment that has come stays.
LEMMA PaymentStays ==
    ASSUME TypeOK, [Next]_vars, NEW i \in Invoices, payment[i].done
    PROVE  payment'[i].done
<1>1. ASSUME NEW j \in Invoices, Pay(j) PROVE payment'[i].done
  BY <1>1 DEF Pay, TypeOK
<1>2. CASE World
  BY <1>1, <1>2 DEF World, VoucherExpires, Redeemed, RefundExpired
<1>3. CASE Callers
  BY <1>3 DEF Callers, DepositInvoice, FundInvoice, NewInvoice, TransferLookup
<1>4. CASE \E t \in Transfers : TransferEnds(t)
  BY <1>4 DEF TransferEnds, TransferCommit, TransferRollback, EndTransfer
<1>5. CASE \E j \in Invoices : EventStep(j)
  BY <1>5 DEF EventStep, EventRead, EventConfirm, EventDeposit, EventGoes
<1>6. CASE BootStep
  BY <1>6 DEF BootStep, Start, OpenDB, BootList, BootCaughtUp, BootListDeposits,
       BootSkipsDeposits, BootServes, BootConfirm, BootRefuses, BootDeposit, BootGoto, Stop
<1>7. CASE BootFails \/ Crash \/ \E j \in Invoices : EventCrashes(j)
  BY <1>7 DEF BootFails, Crash, EventCrashes, Stop
<1>8. CASE UNCHANGED vars
  BY <1>8 DEF vars
<1> QED BY <1>2, <1>3, <1>4, <1>5, <1>6, <1>7, <1>8 DEF Next

\* A payment without a voucher that start-up has yet to come past stays one, and start-up
\* does not come past it: its row cannot be booked, and is not taken off the list.
LEMMA BarredStep ==
    ASSUME BootInv, [Next]_vars, NEW i \in Invoices, Orphan(i), Ahead(i)
    PROVE  Orphan(i)' /\ Ahead(i)'
<1>t. TypeOK
  BY DEF BootInv, MoneyInv
<1>0. ~Serving /\ payment[i].done /\ tx[i].to # Deposit /\ Pending(i) /\ Credited(i) = {}
  BY DEF Ahead, Serving, Orphan, TargetGone
<1>1. tx'[i].to = tx[i].to
  BY <1>t, <1>0, ToStays
<1>2. Members(tx'[i].to) = Members(tx[i].to) /\ Members(tx[i].to) \subseteq Vouchers
  BY <1>1 DEF Members
<1>3. \A v \in Members(tx[i].to) : ~Live(voucher'[v])
  <2>1. \A v \in Members(tx[i].to) : ~Live(voucher[v])
    BY <1>0 DEF Credited, Living
  <2> QED BY <1>t, <1>0, <1>2, <2>1, GoneStays
<1>4. Credited(i)' = {}
  BY <1>2, <1>3 DEF Credited, Living
<1>5. tx'[i].st = "pending"
  <2>0. ~UpdateFundTxConfirmed(i) /\ ~AlreadyConfirmed(i)
    BY <1>0 DEF UpdateFundTxConfirmed, AlreadyConfirmed
  <2>1. ASSUME NEW j \in Invoices, j # i,
               UpdateFundTxConfirmed(j) \/ ConfirmDeposit(j) \/ AlreadyConfirmed(j)
        PROVE  tx'[i] = tx[i]
    BY <1>t, <2>1, BookingKeepsTo
  <2>2. UNCHANGED tx => tx'[i].st = "pending"
    BY <1>0 DEF Pending
  <2>3. ASSUME NEW j \in Invoices, EventStep(j) PROVE tx'[i].st = "pending"
    <3>1. CASE j = i
      BY <1>0, <2>0, <2>2, <2>3, <3>1 DEF EventStep, EventRead, EventConfirm, EventDeposit
    <3>2. CASE j # i
      BY <1>0, <2>1, <2>2, <2>3, <3>2 DEF EventStep, EventRead, EventConfirm, EventDeposit, Pending
    <3> QED BY <3>1, <3>2
  <2>4. ASSUME NEW j \in Invoices, BootConfirm(j) PROVE tx'[i].st = "pending"
    <3>1. j # i
      BY <2>0, <2>4 DEF BootConfirm
    <3> QED BY <1>0, <2>1, <2>4, <3>1 DEF BootConfirm, Pending
  <2>5. ASSUME NEW j \in Invoices, BootDeposit(j) PROVE tx'[i].st = "pending"
    <3>1. boot.pc = "deposit"
      BY <2>5 DEF BootDeposit, BootGoto
    <3> QED BY <3>1 DEF Ahead
  <2>6. CASE BootStep
    BY <2>2, <2>4, <2>5, <2>6 DEF BootStep, Start, OpenDB, BootList, BootCaughtUp,
       BootListDeposits, BootSkipsDeposits, BootServes, BootRefuses, Rows, Stop
  <2>7. CASE World \/ Callers \/ UNCHANGED vars
    BY <1>0, <2>2, <2>7 DEF World, VoucherExpires, Redeemed, RefundExpired, Pay, Callers,
       DepositInvoice, FundInvoice, NewInvoice, TransferLookup, vars
  <2>8. CASE \E t \in Transfers : TransferEnds(t)
    BY <1>0, <2>8 DEF TransferEnds, TransferCommit, TransferRollback, EndTransfer
  <2>9. CASE BootFails \/ Crash \/ \E j \in Invoices : EventCrashes(j)
    BY <2>2, <2>9 DEF BootFails, Crash, EventCrashes, Stop
  <2> QED BY <2>3, <2>6, <2>7, <2>8, <2>9 DEF Next
<1>6. payment'[i].done
  BY <1>t, <1>0, PaymentStays
<1>7. Ahead(i)'
  <2>1. CASE boot' = boot
    BY <2>1 DEF Ahead
  <2>2. CASE Stop
    BY <2>2 DEF Stop, Ahead
  <2>3. CASE BootList
    BY <1>0, <2>3 DEF BootList, BootGoto, PaidPending, Ahead
  <2>4. ASSUME NEW j \in Invoices, BootConfirm(j) PROVE Ahead(i)'
    <3>1. j # i
      BY <1>0, <2>4 DEF BootConfirm, UpdateFundTxConfirmed, AlreadyConfirmed
    <3>2. boot.pc = "confirm" /\ boot'.pc = "confirm" /\ boot'.todo = boot.todo \ {j}
      BY <2>4 DEF BootConfirm, BootGoto
    <3> QED BY <3>1, <3>2 DEF Ahead
  <2>5. CASE Start \/ OpenDB \/ BootCaughtUp
    BY <2>5 DEF Start, OpenDB, BootCaughtUp, BootGoto, Ahead
  <2>6. CASE \/ BootListDeposits \/ BootSkipsDeposits \/ BootServes
             \/ \E j \in Invoices : BootDeposit(j)
    BY <2>6 DEF BootListDeposits, BootSkipsDeposits, BootServes, BootDeposit, BootGoto, Ahead
  <2>7. CASE \E j \in Invoices : BootRefuses(j)
    BY <2>2, <2>7 DEF BootRefuses
  <2> QED BY <2>1, <2>2, <2>3, <2>4, <2>5, <2>6, <2>7, WhoBoots DEF BootStep
<1> QED BY <1>0, <1>1, <1>4, <1>5, <1>6, <1>7 DEF Orphan, TargetGone, Pending

\* If the process ends while a payment is without a live voucher, the server never serves
\* again: every start-up comes upon it and refuses, and while none gets past it nothing can
\* bring the voucher back (handlers.go:1013-1026, start-up.go:129-131, main.go:50-54).
THEOREM OrphanBarsStartup ==
    Spec => /\ [][(\E i \in Invoices : Orphan(i)) /\ Stop => StartupBarred']_vars
            /\ [](StartupBarred => []~Serving)
<1>1. StartupBarred => ~Serving
  BY DEF StartupBarred, Ahead, Serving
<1>2. BootInv /\ StartupBarred /\ [Next]_vars => StartupBarred'
  BY BarredStep DEF StartupBarred
<1>3. (\E i \in Invoices : Orphan(i)) /\ Stop => StartupBarred'
  <2> SUFFICES ASSUME NEW i \in Invoices, Orphan(i), Stop PROVE StartupBarred'
    OBVIOUS
  <2>1. UNCHANGED <<voucher, tx, payment>> /\ boot'.pc = "down"
    BY DEF Stop
  <2>2. Orphan(i)'
    BY <2>1 DEF Orphan, TargetGone, Pending, Credited, Living, Members
  <2> QED BY <2>1, <2>2 DEF StartupBarred, Ahead
<1> QED BY <1>1, <1>2, <1>3, BootInvariance, PTL DEF Spec
================================================================================
