------------------------------ MODULE RedeemBooks ------------------------------
(***************************************************************************)
(* The books of Redeem close, for any number of requests, vouchers and     *)
(* crashes.                                                                *)
(*                                                                         *)
(*   - A row says what it says only together with its payment and what     *)
(*     was given back of it (Decided).                                     *)
(*   - What a redeem has taken out of its voucher and not out of the       *)
(*     wallet (Kept) is in the wallet (Balanced); row and gap come to the  *)
(*     same: BooksClose.                                                   *)
(*   - Without a crash no row stays pending, and what is booked for a      *)
(*     payment is its fee (Booked): NeverShortAtRest.                      *)
(***************************************************************************)
EXTENDS RedeemProofs, Sums

\* What the status of a row says of its payment and of what was given back.
DecidedOf(r) ==
    /\ row[r].st = "none" => Held(r) = 0 /\ restored[r] = 0 /\ payment[r].st = "none"
    /\ row[r].st = "confirmed" => restored[r] = 0
    /\ row[r].st = "failed" => payment[r].st \in {"none", "failed"}

Decided == \A r \in Requests : DecidedOf(r)

\* What is in the wallet of a redeem: its debit, unless it has left or was given back.
Kept(r) == Held(r) - Out(r) - (IF restored[r] > 0 THEN Held(r) ELSE 0)

TotalBal  == SumFunction([v \in Vouchers |-> voucher[v].bal])
TotalKept == SumFunction([r \in Requests |-> Kept(r)])

\* No money is made or lost: it is in a voucher, kept of a redeem, or elsewhere.
Balanced == wallet = TotalBal + TotalKept + elsewhere + Surplus

-----------------------------------------------------------------------------
(* Totals                                                                  *)

\* Amounts and totals are integers.
LEMMA KeptType ==
    ASSUME TypeOK
    PROVE  /\ \A r \in Requests : Held(r) \in Nat /\ Out(r) \in Nat /\ Kept(r) \in Int
           /\ [r \in Requests |-> Kept(r)] \in [Requests -> Int]
           /\ [v \in Vouchers |-> voucher[v].bal] \in [Vouchers -> Int]
           /\ TotalBal \in Int /\ TotalKept \in Int
<1> DEFINE f == [r \in Requests |-> Kept(r)]
           b == [v \in Vouchers |-> voucher[v].bal]
<1>1. \A r \in Requests : Held(r) \in Nat /\ Out(r) \in Nat
  BY DEF TypeOK, RedeemRow, PaymentRow, Held, Out
<1>2. \A r \in Requests : Kept(r) \in Int
  BY <1>1 DEF Kept
<1>3. f \in [Requests -> Int]
  BY <1>2
<1>4. b \in [Vouchers -> Int]
  BY DEF TypeOK, VoucherRow
<1>5. SumFunction(f) \in Int /\ SumFunction(b) \in Int
  <2> HIDE DEF f, b
  <2> QED BY <1>3, <1>4, RedeemAssumption, VoucherAssumption, SumType
<1> QED BY <1>1, <1>2, <1>3, <1>4, <1>5 DEF TotalBal, TotalKept

\* And after a step.
LEMMA KeptTypeNext ==
    ASSUME TypeOK'
    PROVE  /\ \A r \in Requests : Held(r)' \in Nat /\ Out(r)' \in Nat /\ Kept(r)' \in Int
           /\ [r \in Requests |-> Kept(r)'] \in [Requests -> Int]
           /\ [v \in Vouchers |-> voucher'[v].bal] \in [Vouchers -> Int]
<1>1. \A r \in Requests : Held(r)' \in Nat /\ Out(r)' \in Nat
  BY DEF TypeOK, RedeemRow, PaymentRow, Held, Out
<1>2. \A r \in Requests : Kept(r)' \in Int
  BY <1>1 DEF Kept
<1>3. [r \in Requests |-> Kept(r)'] \in [Requests -> Int]
  BY <1>2
<1>4. [v \in Vouchers |-> voucher'[v].bal] \in [Vouchers -> Int]
  BY DEF TypeOK, VoucherRow
<1> QED BY <1>1, <1>2, <1>3, <1>4

\* What a step that concerns one request changes of the total.
LEMMA KeptChange ==
    ASSUME TypeOK, TypeOK', NEW r \in Requests,
           \A q \in Requests \ {r} : Kept(q)' = Kept(q)
    PROVE  TotalKept' = TotalKept + (Kept(r)' - Kept(r))
<1> DEFINE f == [q \in Requests |-> Kept(q)]
           g == [q \in Requests |-> Kept(q)']
<1>1. f \in [Requests -> Int] /\ g \in [Requests -> Int]
  BY KeptType, KeptTypeNext
<1>2. \A q \in Requests \ {r} : g[q] = f[q]
  OBVIOUS
<1>3. SumFunction(g) = SumFunction(f) + (g[r] - f[r])
  <2> HIDE DEF f, g
  <2> QED BY <1>1, <1>2, RedeemAssumption, SumChange
<1> QED BY <1>3 DEF TotalKept

\* What a step that concerns one voucher changes of the total.
LEMMA BalChange ==
    ASSUME TypeOK, TypeOK', NEW v \in Vouchers,
           \A u \in Vouchers \ {v} : voucher'[u].bal = voucher[u].bal
    PROVE  TotalBal' = TotalBal + (voucher'[v].bal - voucher[v].bal)
<1> DEFINE f == [u \in Vouchers |-> voucher[u].bal]
           g == [u \in Vouchers |-> voucher'[u].bal]
<1>1. f \in [Vouchers -> Int] /\ g \in [Vouchers -> Int]
  BY KeptType, KeptTypeNext
<1>2. \A u \in Vouchers \ {v} : g[u] = f[u]
  OBVIOUS
<1>3. SumFunction(g) = SumFunction(f) + (g[v] - f[v])
  <2> HIDE DEF f, g
  <2> QED BY <1>1, <1>2, VoucherAssumption, SumChange
<1> QED BY <1>3 DEF TotalBal

\* A total stays if every part of it does.
LEMMA TotalSame ==
    /\ (\A r \in Requests : Kept(r)' = Kept(r)) => TotalKept' = TotalKept
    /\ (\A v \in Vouchers : voucher'[v].bal = voucher[v].bal) => TotalBal' = TotalBal
BY DEF TotalKept, TotalBal

-----------------------------------------------------------------------------
(* The steps                                                               *)

\* The steps that touch no row, payment or restoration, and move no money.
Still ==
    UNCHANGED <<row, payment, restored, wallet, elsewhere>>
        /\ \A v \in Vouchers : voucher'[v].bal = voucher[v].bal

\* What a step can do to rows, payments and money.
LEMMA Moves ==
    ASSUME IInv, [Next]_vars
    PROVE  \/ Still
           \/ \E v \in Vouchers : TransferOut(v) \/ RefundExpired(v)
           \/ \E r \in Requests :
                 \/ PaymentSettles(r) \/ InsertRedeemAndBalance(r) \/ UndoRestore(r)
                 \/ UndoMark(r) \/ Send(r) \/ MarkFailed(r) \/ Restore(r)
                 \/ SetPaymentID(r) \/ Confirm(r)
           \/ BootConfirm \/ BootMarkFailed \/ BootRestore
<1> USE DEF dbVars, sdkVars, procVars, history, Still
<1>1. CASE UNCHANGED vars
  BY <1>1 DEF vars
<1>2. ASSUME NEW v \in Vouchers, VoucherExpires(v) \/ Edit(v) PROVE Still
  BY <1>2 DEF VoucherExpires, Edit, Edited, IInv, TypeOK, VoucherRow
<1>3. ASSUME NEW s \in Sessions, SessionExpires(s) \/ \E v \in Vouchers : OpenSession(s, v)
      PROVE  Still
  BY <1>3 DEF SessionExpires, OpenSession
<1>4. ASSUME NEW r \in Requests,
             \/ \E s \in Sessions, msat \in Amounts : Arrive(r, s, msat)
             \/ Gate(r) \/ CheckSession(r) \/ Acquire(r) \/ AcquireTimesOut(r) \/ MarkUsed(r)
             \/ Prepare(r) \/ PrepareFails(r) \/ Lookup(r)
             \/ InsertRefused(r) \/ SendReturns(r) \/ SendFails(r) \/ Release(r)
      PROVE  Still
  BY <1>4 DEF Arrive, Gate, CheckSession, Acquire, AcquireTimesOut, MarkUsed, Prepare,
       PrepareFails, Lookup, InsertRefused, SendReturns, SendFails, Release
<1>5. CASE CooldownEnds \/ Crash \/ BootQuery \/ BootServes
  BY <1>5 DEF CooldownEnds, Crash, BootQuery, BootServes, BootGoto
<1>6. ASSUME NEW r \in Requests, BootVisit(r) \/ BootSkip(r) PROVE Still
  BY <1>6 DEF BootVisit, BootSkip, BootGoto
<1> HIDE DEF Still
<1> QED BY <1>1, <1>2, <1>3, <1>4, <1>5, <1>6 DEF Next, World, RequestStep, BootStep

\* addVoucherBalance puts the debit back, once, and changes nothing else of the row.
LEMMA GiveBackMoves ==
    ASSUME IInv, IInv', NEW r \in Requests, row[r].st # "none", restored[r] = 0, GiveBack(r),
           UNCHANGED payment
    PROVE  /\ TotalBal' = TotalBal + Held(r)
           /\ TotalKept' = TotalKept - Held(r)
           /\ row' = row /\ elsewhere' = elsewhere
           /\ restored'[r] = 1 /\ \A q \in Requests \ {r} : restored'[q] = restored[q]
<1> DEFINE v == row[r].voucher
<1>0. TypeOK /\ TypeOK' /\ v \in Vouchers
  BY DEF IInv, Bound
<1>1. /\ row' = row /\ elsewhere' = elsewhere
      /\ restored'[r] = 1 /\ \A q \in Requests \ {r} : restored'[q] = restored[q]
  BY <1>0 DEF GiveBack, TypeOK
<1>2. voucher'[v].bal = voucher[v].bal + Held(r)
  BY <1>0 DEF GiveBack, TypeOK, AddBalance
<1>3. \A u \in Vouchers \ {v} : voucher'[u] = voucher[u]
  BY <1>0 DEF GiveBack, TypeOK
<1>4. TotalBal' = TotalBal + (voucher'[v].bal - voucher[v].bal)
  BY <1>0, <1>3, BalChange
<1>5. \A q \in Requests \ {r} : Kept(q)' = Kept(q)
  BY <1>1 DEF Kept, Held, Out
<1>6. TotalKept' = TotalKept + (Kept(r)' - Kept(r))
  BY <1>0, <1>5, KeptChange
<1>7. /\ Held(r) \in Nat /\ Out(r) \in Nat /\ TotalBal \in Int /\ TotalKept \in Int
      /\ voucher[v].bal \in Nat
  BY <1>0, KeptType DEF TypeOK, VoucherRow
<1>8. Kept(r) = Held(r) - Out(r) /\ Kept(r)' = Held(r) - Out(r) - Held(r)
  <2>1. Held(r)' = Held(r) /\ Out(r)' = Out(r)
    BY <1>1 DEF Held, Out
  <2> QED BY <1>1, <1>7, <2>1 DEF Kept
<1> HIDE DEF v
<1> QED BY <1>1, <1>2, <1>4, <1>6, <1>7, <1>8

\* A status, a payment id and a booked fee move no money.
LEMMA WritesMoveNothing ==
    ASSUME IInv, NEW r \in Requests,
           \/ \E st, actual : SetStatus(r, st, actual)
           \/ SetPaymentID(r),
           UNCHANGED <<payment, wallet>>
    PROVE  /\ TotalBal' = TotalBal /\ TotalKept' = TotalKept
           /\ UNCHANGED <<wallet, elsewhere, restored>>
<1>1. row \in [Requests -> RedeemRow]
  BY DEF IInv, TypeOK
<1>2. UNCHANGED <<voucher, elsewhere, restored>>
  BY DEF SetStatus, SetPaymentID, history
<1>3. \A q \in Requests : row'[q].msat = row[q].msat /\ row'[q].fee = row[q].fee
  <2>1. ASSUME NEW st, NEW actual, SetStatus(r, st, actual)
        PROVE  \A q \in Requests : row'[q].msat = row[q].msat /\ row'[q].fee = row[q].fee
    BY <1>1, <2>1 DEF SetStatus, RedeemRow
  <2>2. CASE SetPaymentID(r)
    BY <1>1, <2>2 DEF SetPaymentID, RedeemRow
  <2> QED BY <2>1, <2>2
<1>4. \A q \in Requests : Kept(q)' = Kept(q)
  BY <1>2, <1>3 DEF Kept, Held, Out
<1> QED BY <1>2, <1>4, TotalSame

-----------------------------------------------------------------------------
\* Only a decided row has what its status says, whatever comes next.
LEMMA DecidedStep ==
    ASSUME IInv, IInv', Decided, [Next]_vars
    PROVE  Decided'
<1> USE DEF dbVars, sdkVars, procVars, history
<1>0. /\ TypeOK /\ Phase /\ BootOK
      /\ row \in [Requests -> RedeemRow]
  BY DEF IInv, TypeOK
<1> SUFFICES ASSUME NEW q \in Requests PROVE DecidedOf(q)'
  BY DEF Decided
<1>i. DecidedOf(q) /\ PhaseOf(q)
  BY <1>0 DEF Decided, Phase
<1>1. CASE UNCHANGED <<row, payment, restored>>
  BY <1>i, <1>1 DEF DecidedOf, Held
<1>2. ASSUME NEW v \in Vouchers, TransferOut(v) \/ RefundExpired(v)
      PROVE  UNCHANGED <<row, payment, restored>>
  BY <1>2 DEF TransferOut, RefundExpired, Leaves
<1>3. ASSUME NEW r \in Requests, PaymentSettles(r) PROVE DecidedOf(q)'
  <2>1. row' = row /\ restored' = restored /\ payment[r].st = "pending"
    BY <1>3 DEF PaymentSettles
  <2>2. q # r => payment'[q] = payment[q]
    BY <1>0, <1>3 DEF PaymentSettles, TypeOK
  <2> QED BY <1>i, <2>1, <2>2 DEF DecidedOf, Held
<1>4. ASSUME NEW r \in Requests, InsertRedeemAndBalance(r) PROVE DecidedOf(q)'
  <2>1. payment' = payment /\ restored' = restored
    BY <1>4 DEF InsertRedeemAndBalance
  <2>2. row'[r].st = "pending" /\ (q # r => row'[q] = row[q])
    BY <1>0, <1>4 DEF InsertRedeemAndBalance, NoRow
  <2> QED BY <1>i, <2>1, <2>2 DEF DecidedOf, Held
<1>5. ASSUME NEW r \in Requests, UndoRestore(r) \/ Restore(r) PROVE DecidedOf(q)'
  <2>1. row' = row /\ payment' = payment /\ (q # r => restored'[q] = restored[q])
    BY <1>0, <1>5 DEF UndoRestore, Restore, GiveBack, TypeOK
  <2>2. row[r].st \in {"pending", "failed"}
    BY <1>0, <1>5 DEF UndoRestore, Restore, Goto, Phase, PhaseOf
  <2> QED BY <1>i, <2>1, <2>2 DEF DecidedOf, Held
<1>6. ASSUME NEW r \in Requests, UndoMark(r) \/ MarkFailed(r) \/ Confirm(r) PROVE DecidedOf(q)'
  <2>1. PICK st, actual : SetStatus(r, st, actual)
    BY <1>6 DEF UndoMark, MarkFailed, Confirm
  <2>2. payment' = payment /\ (q # r => row'[q] = row[q]) /\ restored' = restored
    BY <1>0, <1>6, <2>1, SetStatusKeeps DEF UndoMark, MarkFailed, Confirm
  <2>3. \/ row'[r].st = "failed" /\ payment[r].st = "none"
        \/ row'[r].st = "confirmed" /\ restored[r] = 0
    <3>1. CASE UndoMark(r) \/ MarkFailed(r)
      <4>1. SetStatus(r, "failed", 0) /\ pc[r] \in {"undoMark", "failed"}
        BY <3>1 DEF UndoMark, MarkFailed, Goto
      <4>2. row'[r].st = "failed"
        BY <1>0, <4>1, SetStatusKeeps
      <4>3. PhaseOf(r)
        BY <1>0 DEF Phase
      <4> QED BY <4>1, <4>2, <4>3 DEF PhaseOf
    <3>2. CASE Confirm(r)
      BY <1>0, <3>2, SetStatusKeeps DEF Confirm, Goto, Phase, PhaseOf
    <3> QED BY <1>6, <3>1, <3>2
  <2> QED BY <1>i, <2>2, <2>3 DEF DecidedOf, Held
<1>7. ASSUME NEW r \in Requests, Send(r) PROVE DecidedOf(q)'
  <2>1. row' = row /\ restored' = restored /\ (q # r => payment'[q] = payment[q])
    BY <1>0, <1>7 DEF Send, TypeOK
  <2>2. row[r].st = "pending"
    BY <1>0, <1>7 DEF Send, Goto, Phase, PhaseOf
  <2> QED BY <1>i, <2>1, <2>2 DEF DecidedOf, Held
<1>8. ASSUME NEW r \in Requests, SetPaymentID(r) PROVE DecidedOf(q)'
  <2>1. payment' = payment /\ restored' = restored /\ (q # r => row'[q] = row[q])
    BY <1>0, <1>8 DEF SetPaymentID
  <2>2. row'[r].st = "pending"
    BY <1>0, <1>8 DEF SetPaymentID, Goto, Phase, PhaseOf, RedeemRow
  <2> QED BY <1>i, <2>1, <2>2 DEF DecidedOf, Held
<1>9. CASE BootConfirm \/ BootMarkFailed
  <2>1. boot.at \in Requests /\ row[boot.at].st = "pending" /\ row[boot.at].pid
    BY <1>0, <1>9 DEF BootConfirm, BootMarkFailed, BootGoto, BootOK
  <2>2. PICK st, actual : SetStatus(boot.at, st, actual)
    BY <1>9 DEF BootConfirm, BootMarkFailed
  <2>3. payment' = payment /\ (q # boot.at => row'[q] = row[q]) /\ restored' = restored
    BY <1>0, <1>9, <2>1, <2>2, SetStatusKeeps DEF BootConfirm, BootMarkFailed, BootGoto
  <2>4. restored[boot.at] = 0
    BY <1>0, <2>1 DEF Phase, PhaseOf
  <2>5. \/ row'[boot.at].st = "failed" /\ payment[boot.at].st = "failed"
        \/ row'[boot.at].st = "confirmed"
    <3>1. CASE BootMarkFailed
      BY <1>0, <2>1, <3>1, SetStatusKeeps DEF BootMarkFailed, BootGoto, BootOK
    <3>2. CASE BootConfirm
      BY <1>0, <2>1, <3>2, SetStatusKeeps DEF BootConfirm
    <3> QED BY <1>9, <3>1, <3>2
  <2> QED BY <1>i, <2>3, <2>4, <2>5 DEF DecidedOf, Held
<1>10. CASE BootRestore
  <2>1. boot.at \in Requests /\ row[boot.at].st = "failed"
    BY <1>0, <1>10 DEF BootRestore, BootGoto, BootOK
  <2>2. row' = row /\ payment' = payment /\ (q # boot.at => restored'[q] = restored[q])
    BY <1>0, <1>10 DEF BootRestore, BootGoto, GiveBack, TypeOK
  <2> QED BY <1>i, <2>1, <2>2 DEF DecidedOf, Held
<1> QED
  BY <1>1, <1>2, <1>3, <1>4, <1>5, <1>6, <1>7, <1>8, <1>9, <1>10, Moves DEF Still

\* At first nothing is under way.
LEMMA InitBalanced == Init => Decided /\ Balanced
<1> SUFFICES ASSUME Init PROVE Decided /\ Balanced
  OBVIOUS
<1>1. Decided
  BY DEF Init, Decided, DecidedOf, NoRow, NoPayment, Held
<1> DEFINE f == [r \in Requests |-> Kept(r)]
<1>2. f \in [Requests -> Int] /\ \A r \in Requests : f[r] = 0
  BY DEF Init, Kept, Held, Out, NoRow, NoPayment
<1>3. TotalKept = 0
  <2>1. SumFunction(f) = 0
    <3> HIDE DEF f
    <3> QED BY <1>2, RedeemAssumption, SumZero
  <2> QED BY <2>1 DEF TotalKept
<1> DEFINE b == [v \in Vouchers |-> InitBalance]
<1>4. TotalBal = SumFunction(b)
  BY DEF Init, Created, TotalBal
<1>5. SumFunction(b) \in Int
  <2>1. b \in [Vouchers -> Int]
    BY RedeemAssumption
  <2> HIDE DEF b
  <2> QED BY <2>1, VoucherAssumption, SumType
<1>6. Surplus = InitWallet - SumFunction(b) /\ wallet = InitWallet /\ elsewhere = 0
  BY DEF Surplus, Init
<1> HIDE DEF b
<1> QED BY <1>1, <1>3, <1>4, <1>5, <1>6, RedeemAssumption DEF Balanced

\* Surplus is a constant of the instance.
LEMMA SurplusType == Surplus \in Int
<1> DEFINE b == [v \in Vouchers |-> InitBalance]
<1>1. b \in [Vouchers -> Int]
  BY RedeemAssumption
<1>2. SumFunction(b) \in Int
  <2> HIDE DEF b
  <2> QED BY <1>1, VoucherAssumption, SumType
<1> HIDE DEF b
<1> QED BY <1>2, RedeemAssumption DEF Surplus, b

\* Every step that takes money from one place puts it into another.
LEMMA BalancedStep ==
    ASSUME IInv, IInv', Decided, Balanced, [Next]_vars
    PROVE  Balanced'
<1> USE DEF dbVars, sdkVars, procVars, history
<1>0. TypeOK /\ TypeOK' /\ Phase /\ BootOK /\ Bound
  BY DEF IInv
<1>t. /\ TotalBal \in Int /\ TotalKept \in Int /\ Surplus \in Int
      /\ wallet \in Int /\ elsewhere \in Int
  BY <1>0, KeptType, SurplusType DEF TypeOK
<1>1. CASE Still
  BY <1>1, TotalSame DEF Still, Balanced, Kept, Held, Out
<1>2. ASSUME NEW v \in Vouchers, TransferOut(v) \/ RefundExpired(v) PROVE Balanced'
  <2>1. UNCHANGED <<row, payment, restored, wallet>>
    BY <1>2 DEF TransferOut, RefundExpired, Leaves
  <2>2. TotalKept' = TotalKept
    BY <2>1, TotalSame DEF Kept, Held, Out
  <2>3. PICK msat, after :
          /\ msat \in Nat
          /\ Leaves(v, msat, after) /\ after.bal = voucher[v].bal - msat
    <3>1. voucher[v].bal \in Nat
      BY <1>0 DEF TypeOK, VoucherRow
    <3>2. CASE TransferOut(v)
      BY <3>2, RedeemAssumption DEF TransferOut, Debit
    <3>3. CASE RefundExpired(v)
      BY <3>1, <3>3 DEF RefundExpired, Refunded
    <3> QED BY <1>2, <3>2, <3>3
  <2>4. voucher'[v].bal = voucher[v].bal - msat /\ elsewhere' = elsewhere + msat
    BY <1>0, <2>3 DEF Leaves, TypeOK
  <2>5. \A u \in Vouchers \ {v} : voucher'[u] = voucher[u]
    BY <1>0, <2>3 DEF Leaves, TypeOK
  <2>6. TotalBal' = TotalBal + (voucher'[v].bal - voucher[v].bal)
    BY <1>0, <2>5, BalChange
  <2>7. voucher[v].bal \in Int
    BY <1>0 DEF TypeOK, VoucherRow
  <2> QED BY <1>t, <2>1, <2>2, <2>3, <2>4, <2>6, <2>7 DEF Balanced
<1>3. ASSUME NEW r \in Requests, PaymentSettles(r) PROVE Balanced'
  <2>1. UNCHANGED <<voucher, row, elsewhere, restored>> /\ payment[r].st = "pending"
    BY <1>3 DEF PaymentSettles
  <2>2. \A q \in Requests \ {r} : payment'[q] = payment[q]
    BY <1>0, <1>3 DEF PaymentSettles, TypeOK
  <2>3. TotalBal' = TotalBal
    BY <2>1, TotalSame
  <2>4. TotalKept' = TotalKept + (Kept(r)' - Kept(r))
    BY <1>0, <2>1, <2>2, KeptChange DEF Kept, Held, Out
  <2>5. wallet' - wallet = Out(r) - Out(r)'
    <3>1. row[r].msat \in Nat /\ payment[r].fee \in Nat
      BY <1>0 DEF TypeOK, RedeemRow, PaymentRow
    <3>2. Out(r) = row[r].msat + payment[r].fee
      BY <2>1 DEF Out
    <3>3. CASE payment' = [payment EXCEPT ![r].st = "completed"] /\ wallet' = wallet
      <4>1. payment'[r].st = "completed" /\ payment'[r].fee = payment[r].fee
        BY <1>0, <3>3 DEF TypeOK, PaymentRow
      <4> QED BY <1>t, <2>1, <3>1, <3>2, <3>3, <4>1 DEF Out
    <3>4. CASE /\ payment' = [payment EXCEPT ![r].st = "failed"]
               /\ wallet' = wallet + row[r].msat + payment[r].fee
      <4>1. Out(r)' = 0
        BY <1>0, <3>4 DEF TypeOK, PaymentRow, Out
      <4> QED BY <1>t, <3>1, <3>2, <3>4, <4>1
    <3> QED BY <1>3, <3>3, <3>4 DEF PaymentSettles
  <2>6. Held(r)' = Held(r) /\ Held(r) \in Nat /\ Out(r) \in Nat /\ Out(r)' \in Nat
    BY <1>0, <2>1, KeptType, KeptTypeNext DEF Held
  <2>7. Kept(r)' - Kept(r) = Out(r) - Out(r)'
    BY <2>1, <2>6 DEF Kept
  <2>8. wallet' \in Int
    BY <1>0 DEF TypeOK
  <2> QED BY <1>t, <2>1, <2>3, <2>4, <2>5, <2>6, <2>7, <2>8 DEF Balanced
<1>4. ASSUME NEW r \in Requests, InsertRedeemAndBalance(r) PROVE Balanced'
  <2> DEFINE v == Voucher(r)
             fee == calculateRedeemFee(voucher[v].bal)
  <2>1. v \in Vouchers /\ PhaseOf(r) /\ pc[r] = "insert"
    BY <1>0, <1>4 DEF InsertRedeemAndBalance, Goto, Bound, Voucher, Session, Phase
  <2>2. voucher[v].bal \in Nat /\ call[r].msat \in Nat /\ fee \in Nat
    BY <1>0, <2>1, FeeType DEF TypeOK, VoucherRow
  <2>3. UNCHANGED <<payment, restored, wallet, elsewhere>>
    BY <1>4 DEF InsertRedeemAndBalance
  <2>4. voucher'[v].bal = voucher[v].bal - (call[r].msat + fee)
    BY <1>0, <1>4, <2>1 DEF InsertRedeemAndBalance, TypeOK, Debit
  <2>5. \A u \in Vouchers \ {v} : voucher'[u] = voucher[u]
    BY <1>0, <1>4, <2>1 DEF InsertRedeemAndBalance, TypeOK
  <2>6. TotalBal' = TotalBal + (voucher'[v].bal - voucher[v].bal)
    BY <1>0, <2>1, <2>5, BalChange
  <2>7. \A q \in Requests \ {r} : row'[q] = row[q]
    BY <1>0, <1>4 DEF InsertRedeemAndBalance, TypeOK
  <2>8. row'[r].msat = call[r].msat /\ row'[r].fee = fee
    BY <1>0, <1>4 DEF InsertRedeemAndBalance, TypeOK, NoRow
  <2>9. TotalKept' = TotalKept + (Kept(r)' - Kept(r))
    BY <1>0, <2>3, <2>7, KeptChange DEF Kept, Held, Out
  <2>10. Held(r) = 0 /\ restored[r] = 0 /\ payment[r].st = "none"
    BY <2>1 DEF Decided, DecidedOf, PhaseOf, Early
  <2>11. Kept(r) = 0
    BY <2>10 DEF Kept, Out
  <2>12. Kept(r)' = call[r].msat + fee
    BY <2>2, <2>3, <2>8, <2>10 DEF Kept, Held, Out
  <2> HIDE DEF v, fee
  <2> QED BY <1>t, <2>2, <2>3, <2>4, <2>6, <2>9, <2>11, <2>12 DEF Balanced
<1>5. ASSUME NEW r \in Requests, UndoRestore(r) \/ Restore(r) PROVE Balanced'
  <2>1. /\ row[r].st # "none" /\ restored[r] = 0 /\ GiveBack(r)
        /\ UNCHANGED <<payment, wallet>>
    BY <1>0, <1>5 DEF UndoRestore, Restore, Goto, Phase, PhaseOf
  <2>2. TotalBal' = TotalBal + Held(r) /\ TotalKept' = TotalKept - Held(r) /\ elsewhere' = elsewhere
    BY <2>1, GiveBackMoves
  <2>3. Held(r) \in Nat
    BY <1>0, KeptType
  <2> QED BY <1>t, <2>1, <2>2, <2>3 DEF Balanced
<1>6. ASSUME NEW r \in Requests, UndoMark(r) \/ MarkFailed(r) \/ Confirm(r) \/ SetPaymentID(r)
      PROVE  Balanced'
  <2>1. UNCHANGED <<payment, wallet>>
    BY <1>6 DEF UndoMark, MarkFailed, Confirm, SetPaymentID
  <2>2. (\E st, actual : SetStatus(r, st, actual)) \/ SetPaymentID(r)
    BY <1>6 DEF UndoMark, MarkFailed, Confirm
  <2> QED BY <2>1, <2>2, WritesMoveNothing DEF Balanced
<1>7. ASSUME NEW r \in Requests, Send(r) PROVE Balanced'
  <2>1. PICK route \in Routes, st \in {"pending", "completed"} :
          /\ pc[r] = "send"
          /\ payment' = [payment EXCEPT
               ![r] = [st |-> st, fee |-> route.fee, spark |-> route.spark]]
          /\ wallet' = wallet - row[r].msat - route.fee
          /\ UNCHANGED <<voucher, row, elsewhere, restored>>
    BY <1>7 DEF Send, Goto
  <2>2. payment[r].st = "none" /\ route.fee \in Nat /\ row[r].msat \in Nat
    BY <1>0, <2>1, RedeemAssumption DEF Phase, PhaseOf, TypeOK, RedeemRow
  <2>3. \A q \in Requests \ {r} : payment'[q] = payment[q]
    BY <1>0, <2>1 DEF TypeOK
  <2>4. Out(r) = 0 /\ Out(r)' = row[r].msat + route.fee
    BY <1>0, <2>1, <2>2 DEF Out, TypeOK
  <2>5. TotalBal' = TotalBal
    BY <2>1, TotalSame
  <2>6. TotalKept' = TotalKept + (Kept(r)' - Kept(r))
    BY <1>0, <2>1, <2>3, KeptChange DEF Kept, Held, Out
  <2>7. Held(r)' = Held(r) /\ Held(r) \in Nat /\ restored' = restored
    BY <1>0, <2>1, KeptType DEF Held
  <2>8. Kept(r)' - Kept(r) = -(row[r].msat + route.fee)
    BY <2>2, <2>4, <2>7 DEF Kept
  <2>9. Kept(r)' \in Int /\ Kept(r) \in Int
    BY <1>0, KeptType, KeptTypeNext
  <2> QED BY <1>t, <2>1, <2>2, <2>5, <2>6, <2>8, <2>9 DEF Balanced
<1>8. CASE BootConfirm \/ BootMarkFailed
  <2>1. boot.at \in Requests /\ UNCHANGED <<payment, wallet>>
    BY <1>0, <1>8 DEF BootConfirm, BootMarkFailed, BootGoto, BootOK
  <2>2. \E st, actual : SetStatus(boot.at, st, actual)
    BY <1>8 DEF BootConfirm, BootMarkFailed
  <2> QED BY <2>1, <2>2, WritesMoveNothing DEF Balanced
<1>9. CASE BootRestore
  <2>1. /\ boot.at \in Requests /\ row[boot.at].st # "none" /\ restored[boot.at] = 0
        /\ GiveBack(boot.at) /\ UNCHANGED <<payment, wallet>>
    BY <1>0, <1>9 DEF BootRestore, BootGoto, BootOK
  <2>2. /\ TotalBal' = TotalBal + Held(boot.at) /\ TotalKept' = TotalKept - Held(boot.at)
        /\ elsewhere' = elsewhere
    BY <2>1, GiveBackMoves
  <2>3. Held(boot.at) \in Nat
    BY <1>0, <2>1, KeptType
  <2> QED BY <1>t, <2>1, <2>2, <2>3 DEF Balanced
<1> QED
  BY <1>1, <1>2, <1>3, <1>4, <1>5, <1>6, <1>7, <1>8, <1>9, Moves

-----------------------------------------------------------------------------
\* What the books say of a redeem and its gap come to what is kept of it.
LEMMA ExplainedWithGap ==
    ASSUME TypeOK, Decided, NEW r \in Requests
    PROVE  /\ RowExplains(r) \in Int /\ Gap(r) \in Int
           /\ RowExplains(r) + Gap(r) = Kept(r)
<1>0. /\ row[r].st \in {"none", "pending", "confirmed", "failed"}
      /\ row[r].msat \in Nat /\ row[r].fee \in Nat /\ row[r].actual \in Nat
      /\ restored[r] \in Nat /\ payment[r].fee \in Nat
  BY DEF TypeOK, RedeemRow, PaymentRow
<1>1. Held(r) \in Nat /\ Out(r) \in Nat /\ DecidedOf(r)
  BY KeptType DEF Decided
<1>2. CASE row[r].st = "pending"
  BY <1>0, <1>1, <1>2 DEF RowExplains, Gap, Kept
<1>3. CASE row[r].st = "confirmed"
  BY <1>0, <1>1, <1>3 DEF RowExplains, Gap, Kept, Held, DecidedOf
<1>4. CASE row[r].st = "failed"
  BY <1>0, <1>1, <1>4 DEF RowExplains, Gap, Kept, DecidedOf, Out
<1>5. CASE row[r].st = "none"
  BY <1>0, <1>1, <1>5 DEF RowExplains, Gap, Kept, DecidedOf, Out
<1> QED BY <1>0, <1>2, <1>3, <1>4, <1>5

\* So the total of what the books and the gaps say is what is kept.
LEMMA GapsClose ==
    ASSUME TypeOK, Decided
    PROVE  /\ SumFunction([r \in Requests |-> Gap(r)]) \in Int
           /\ Explained \in Int
           /\ Explained + SumFunction([r \in Requests |-> Gap(r)])
                = TotalBal + TotalKept + elsewhere
<1> DEFINE e == [r \in Requests |-> RowExplains(r)]
           g == [r \in Requests |-> Gap(r)]
           s == [r \in Requests |-> e[r] + g[r]]
<1>1. e \in [Requests -> Int] /\ g \in [Requests -> Int]
  BY ExplainedWithGap
<1>2. s = [r \in Requests |-> Kept(r)]
  BY ExplainedWithGap
<1>3. SumFunction(s) = SumFunction(e) + SumFunction(g)
  <2> HIDE DEF e, g
  <2> QED BY <1>1, RedeemAssumption, SumPlus
<1>4. SumFunction(e) \in Int /\ SumFunction(g) \in Int
  <2> HIDE DEF e, g
  <2> QED BY <1>1, RedeemAssumption, SumType
<1>5. TotalKept = SumFunction(e) + SumFunction(g)
  BY <1>2, <1>3 DEF TotalKept
<1>6. Explained = TotalBal + SumFunction(e) + elsewhere
  BY DEF Explained, TotalBal
<1>7. TotalBal \in Int /\ elsewhere \in Int
  BY KeptType DEF TypeOK
<1> HIDE DEF e, g
<1>8. SumFunction(g) \in Int /\ Explained \in Int
      /\ Explained + SumFunction(g) = TotalBal + TotalKept + elsewhere
  BY <1>4, <1>5, <1>6, <1>7
<1> QED BY <1>8 DEF g

\* The books and the types are invariants together.
THEOREM BooksInvariance == Spec => [](IInv /\ Decided /\ Balanced)
<1>1. Init => IInv /\ Decided /\ Balanced
  BY InitIInv, InitBalanced
<1>2. IInv /\ Decided /\ Balanced /\ [Next]_vars => (IInv /\ Decided /\ Balanced)'
  BY StepIInv, DecidedStep, BalancedStep
<1> QED BY <1>1, <1>2, PTL DEF Spec

\* The wallet is what the books explain, but for the gaps of redeems under way or cut
\* short: no interleaving, failure or crash loses or makes money, for any number of
\* requests and vouchers (handlers.go:840-921, db.go:1397-1432).
THEOREM Closes == Spec => []BooksClose
<1>1. IInv /\ Decided /\ Balanced => BooksClose
  <2> SUFFICES ASSUME IInv, Decided, Balanced PROVE BooksClose
    OBVIOUS
  <2> DEFINE gaps == SumFunction([r \in Requests |-> Gap(r)])
  <2>1. gaps \in Int /\ Explained \in Int /\ Explained + gaps = TotalBal + TotalKept + elsewhere
    BY GapsClose DEF IInv
  <2>2. wallet = TotalBal + TotalKept + elsewhere + Surplus
    BY DEF Balanced
  <2>3. BooksClose <=> wallet = Explained + gaps + Surplus
    BY DEF BooksClose
  <2> HIDE DEF gaps
  <2> QED BY <2>1, <2>2, <2>3, SurplusType
<1> QED BY <1>1, BooksInvariance, PTL

-----------------------------------------------------------------------------
(* Without a crash                                                         *)

\* No request is lost, and what is booked for a payment is what it cost.
Booked ==
    crashes = 0 => \A r \in Requests :
        /\ pc[r] # "lost"
        /\ row[r].st = "confirmed" => row[r].actual = payment[r].fee

\* Only start-up books anything else, and it finds no row if there was no crash.
LEMMA BookedStep ==
    ASSUME IInv, Booked, [Next]_vars
    PROVE  Booked'
<1> USE DEF dbVars, sdkVars, procVars, history
<1>0. TypeOK /\ Phase /\ BootOK /\ row \in [Requests -> RedeemRow] /\ pc \in [Requests -> PC]
  BY DEF IInv, TypeOK
<1> SUFFICES ASSUME crashes' = 0, NEW q \in Requests
             PROVE  /\ pc'[q] # "lost"
                    /\ row'[q].st = "confirmed" => row'[q].actual = payment'[q].fee
  BY DEF Booked
<1>1. crashes = 0 /\ ~Crash
  <2>1. CASE Crash
    BY <1>0, <2>1 DEF Crash, TypeOK
  <2>2. CASE ~Crash
    BY <2>2 DEF Next, World, RequestStep, BootStep, vars, SessionExpires, OpenSession,
         VoucherExpires, Edit, TransferOut, RefundExpired, Leaves, PaymentSettles, Arrive, Gate,
         CheckSession, Acquire, AcquireTimesOut, MarkUsed, Prepare, PrepareFails, Lookup,
         InsertRedeemAndBalance, InsertRefused, UndoRestore, UndoMark, Send, SendReturns,
         SendFails, MarkFailed, Restore, SetPaymentID, Confirm, Release, Goto, CooldownEnds,
         BootQuery, BootConfirm, BootMarkFailed, BootRestore, BootServes, BootVisit, BootSkip,
         BootGoto
  <2> QED BY <2>1, <2>2
<1>i. /\ pc[q] # "lost"
      /\ row[q].st = "confirmed" => row[q].actual = payment[q].fee
  BY <1>1 DEF Booked
<1>2. pc'[q] # "lost"
  <2>1. ASSUME NEW r \in Requests, NEW from, NEW to, Goto(r, from, to), to # "lost"
        PROVE  pc'[q] # "lost"
    BY <1>0, <1>i, <2>1 DEF Goto
  <2>2. ASSUME NEW r \in Requests,
               RequestStep(r) \/ \E s \in Sessions, msat \in Amounts : Arrive(r, s, msat)
        PROVE  \E from, to : Goto(r, from, to) /\ to # "lost"
    BY <2>2 DEF RequestStep, Arrive, Gate,
         CheckSession, Acquire, AcquireTimesOut, MarkUsed, Prepare, PrepareFails, Lookup,
         InsertRedeemAndBalance, InsertRefused, UndoRestore, UndoMark, Send, SendReturns,
         SendFails, MarkFailed, Restore, SetPaymentID, Confirm, Release
  <2>3. CASE pc' = pc
    BY <1>i, <2>3
  <2>4. CASE BootStep \/ CooldownEnds
    BY <1>i, <2>4 DEF BootStep, CooldownEnds, BootQuery, BootConfirm, BootMarkFailed,
         BootRestore, BootServes, BootVisit, BootSkip, BootGoto
  <2>5. CASE UNCHANGED vars \/ (World /\ ~\E r \in Requests, s \in Sessions, msat \in Amounts :
                                              Arrive(r, s, msat))
    BY <1>i, <2>5 DEF World, vars, SessionExpires, OpenSession, VoucherExpires, Edit, TransferOut,
         RefundExpired, Leaves, PaymentSettles
  <2> QED BY <1>1, <2>1, <2>2, <2>3, <2>4, <2>5 DEF Next, World
<1>3. row'[q].st = "confirmed" => row'[q].actual = payment'[q].fee
  <2>1. CASE UNCHANGED <<row, payment>>
    BY <1>i, <2>1
  <2>2. ASSUME NEW v \in Vouchers, TransferOut(v) \/ RefundExpired(v)
        PROVE  UNCHANGED <<row, payment>>
    BY <2>2 DEF TransferOut, RefundExpired, Leaves
  <2>3. ASSUME NEW r \in Requests, UndoRestore(r) \/ Restore(r)
        PROVE  UNCHANGED <<row, payment>>
    BY <2>3 DEF UndoRestore, Restore, GiveBack
  <2>4. CASE BootRestore
    BY <2>1, <2>4 DEF BootRestore, GiveBack, BootGoto
  <2>5. ASSUME NEW r \in Requests, PaymentSettles(r)
        PROVE  row' = row /\ payment'[q].fee = payment[q].fee
    <3>1. payment \in [Requests -> PaymentRow] /\ row' = row
      BY <1>0, <2>5 DEF PaymentSettles, TypeOK
    <3>2. PICK st : payment' = [payment EXCEPT ![r].st = st]
      BY <2>5 DEF PaymentSettles
    <3> QED BY <3>1, <3>2 DEF PaymentRow
  <2>6. ASSUME NEW r \in Requests, Send(r) PROVE row'[q].st = "confirmed" => q # r /\ row' = row
    <3>1. row' = row /\ row[r].st = "pending"
      BY <1>0, <2>6 DEF Send, Goto, Phase, PhaseOf
    <3> QED BY <3>1
  <2>7. ASSUME NEW r \in Requests, Send(r), q # r PROVE payment'[q] = payment[q]
    BY <1>0, <2>7 DEF Send, TypeOK
  <2>8. ASSUME NEW r \in Requests, InsertRedeemAndBalance(r) \/ SetPaymentID(r)
        PROVE  /\ payment' = payment
               /\ row'[q].st = "confirmed" => row'[q] = row[q]
    <3>1. CASE InsertRedeemAndBalance(r)
      BY <1>0, <3>1 DEF InsertRedeemAndBalance, NoRow
    <3>2. CASE SetPaymentID(r)
      <4>1. row[r].st = "pending" /\ payment' = payment
        BY <1>0, <3>2 DEF SetPaymentID, Goto, Phase, PhaseOf
      <4>2. row'[r].st = "pending" /\ (q # r => row'[q] = row[q])
        BY <1>0, <3>2, <4>1 DEF SetPaymentID, RedeemRow
      <4> QED BY <4>1, <4>2
    <3> QED BY <2>8, <3>1, <3>2
  <2>9. ASSUME NEW r \in Requests, UndoMark(r) \/ MarkFailed(r)
        PROVE  /\ payment' = payment
               /\ row'[q].st = "confirmed" => row'[q] = row[q]
    <3>1. SetStatus(r, "failed", 0) /\ payment' = payment
      BY <2>9 DEF UndoMark, MarkFailed
    <3> QED BY <1>0, <3>1, SetStatusKeeps
  <2>10. ASSUME NEW r \in Requests, Confirm(r)
         PROVE  /\ payment' = payment
                /\ row'[q] = row[q] \/ row'[q].actual = payment[q].fee
    BY <1>0, <2>10 DEF Confirm, SetStatus, RedeemRow
  <2>11. ~BootConfirm
    <3> SUFFICES ASSUME BootConfirm PROVE FALSE
      OBVIOUS
    <3>1. boot.at \in Requests /\ row[boot.at].st = "pending" /\ ~Serving
      BY <1>0 DEF BootConfirm, BootGoto, BootOK, Serving
    <3>2. pc[boot.at] \in {"idle", "done"}
      BY <1>0, <1>1, <3>1 DEF BootOK, Booked
    <3>3. PhaseOf(boot.at)
      BY <1>0, <3>1 DEF Phase
    <3> QED BY <3>1, <3>2, <3>3 DEF PhaseOf, Early
  <2>12. CASE BootMarkFailed
    <3>1. SetStatus(boot.at, "failed", 0) /\ payment' = payment /\ boot.at \in Requests
      BY <1>0, <2>12 DEF BootMarkFailed, BootGoto, BootOK
    <3>2. row'[q].st = "confirmed" => row'[q] = row[q]
      BY <1>0, <3>1, SetStatusKeeps
    <3> QED BY <1>i, <3>1, <3>2
  <2> QED BY <1>i, <2>1, <2>2, <2>3, <2>4, <2>5, <2>6, <2>7, <2>8, <2>9, <2>10, <2>11, <2>12,
             Moves DEF Still
<1> QED BY <1>2, <1>3

\* A request at rest has no row that takes more than was booked.
LEMMA RestGap ==
    ASSUME IInv, Booked, crashes = 0, NEW r \in Requests,
           pc[r] \in {"idle", "gate", "check", "acquire", "done"}
    PROVE  Gap(r) \in Nat
<1>0. /\ row[r].st \in {"none", "pending", "confirmed", "failed"}
      /\ row[r].msat \in Nat /\ row[r].fee \in Nat /\ payment[r].fee \in Nat
      /\ Held(r) \in Nat
  BY KeptType DEF IInv, TypeOK, RedeemRow, PaymentRow
<1>1. row[r].st # "pending" /\ (row[r].st = "confirmed" => row[r].actual = payment[r].fee)
  BY DEF IInv, Phase, PhaseOf, Early, Booked
<1>2. CASE row[r].st = "confirmed"
  BY <1>0, <1>1, <1>2 DEF Gap, Out
<1>3. CASE row[r].st = "failed"
  BY <1>0, <1>3 DEF Gap
<1>4. CASE row[r].st = "none"
  BY <1>4 DEF Gap
<1> QED BY <1>0, <1>1, <1>2, <1>3, <1>4

\* If the wallet covers the books at first, no redeem leaves it short of them unless the
\* process crashes, so that no redeem makes payoutsPaused refuse the next
\* (handlers.go:761, 853-921).
THEOREM NeverShort == Surplus >= 0 => (Spec => []NeverShortAtRest)
<1> SUFFICES ASSUME Surplus >= 0 PROVE Spec => []NeverShortAtRest
  OBVIOUS
<1>1. Init => Booked
  BY DEF Init, Booked, NoRow
<1>2. IInv /\ Booked /\ [Next]_vars => Booked'
  BY BookedStep
<1>3. IInv /\ Decided /\ Balanced /\ Booked => NeverShortAtRest
  <2> SUFFICES ASSUME IInv, Decided, Balanced, Booked, crashes = 0,
                      \A r \in Requests : pc[r] \in {"idle", "gate", "check", "acquire", "done"}
               PROVE  wallet >= Explained
    BY DEF NeverShortAtRest
  <2> DEFINE gap == [r \in Requests |-> Gap(r)]
  <2>1. gap \in [Requests -> Nat]
    BY RestGap
  <2>2. SumFunction(gap) \in Nat
    <3> HIDE DEF gap
    <3> QED BY <2>1, RedeemAssumption, SumNat
  <2>3. Explained \in Int /\ Explained + SumFunction(gap) = TotalBal + TotalKept + elsewhere
    BY GapsClose DEF IInv
  <2>4. wallet = TotalBal + TotalKept + elsewhere + Surplus
    BY DEF Balanced
  <2> HIDE DEF gap
  <2> QED BY <2>2, <2>3, <2>4, SurplusType
<1> QED BY <1>1, <1>2, <1>3, BooksInvariance, PTL DEF Spec
================================================================================
