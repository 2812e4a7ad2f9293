----------------------------- MODULE RedeemProofs -----------------------------
(***************************************************************************)
(* For any number of requests, sessions and vouchers, any fees and any     *)
(* number of crashes: the state has its type, no debit is given back twice *)
(* or for a payment that was made, a session buys one redeem, a single-use *)
(* voucher is redeemed once between two edits, a decided row is never      *)
(* changed, a request is a payout as Payout has it, and the lock follows a *)
(* callback, which is ready for its next step and ends.  So does start-up, *)
(* but for the one that has a pool of one connection: that resolves        *)
(* nothing.                                                                *)
(***************************************************************************)
EXTENDS Redeem, TLAPS, FiniteSetTheorems

\* What a session, a call and a row refer to is there.
Bound ==
    /\ \A s \in Sessions : session[s] # NoSession => session[s].voucher \in Vouchers
    /\ \A r \in Requests : pc[r] # "idle" =>
          call[r].session \in Sessions /\ session[call[r].session].voucher \in Vouchers
    /\ \A r \in Requests : row[r].st # "none" => row[r].voucher \in Vouchers

Early == {"idle", "gate", "check", "acquire", "mark", "prepare", "lookup", "insert"}

\* Where a request is says what its row, its payment and its debit look like.
PhaseOf(r) ==
    /\ pc[r] \in Early =>
          row[r].st = "none" /\ payment[r].st = "none" /\ restored[r] = 0
    /\ pc[r] \in {"undoRestore", "undoMark", "send", "failed", "sent", "setpid"} =>
          row[r].st = "pending" /\ ~row[r].pid
    /\ pc[r] \in {"undoRestore", "undoMark", "send", "failed", "restore"} =>
          payment[r].st = "none"
    /\ pc[r] \in {"undoRestore", "send", "failed", "restore", "sent", "setpid", "confirm"} =>
          restored[r] = 0
    /\ pc[r] = "undoMark" => restored[r] = 1
    /\ pc[r] = "restore" => row[r].st = "failed"
    /\ pc[r] = "confirm" => row[r].st = "pending"
    /\ pc[r] \in {"sent", "setpid", "confirm"} => payment[r].st # "none"
    /\ pc[r] \in {"release", "done"} => row[r].st # "pending"
    /\ row[r].st = "pending" /\ row[r].pid => restored[r] = 0

Phase == \A r \in Requests : PhaseOf(r)

\* Nobody runs while start-up does, and the row that it is at can be resolved.
BootOK ==
    /\ ~Serving => \A r \in Requests : pc[r] \in {"idle", "done", "lost"}
    /\ \A r \in boot.todo : row[r].st = "pending"
    /\ boot.pc \in {"query", "served"} => boot.todo = {}
    /\ boot.pc \in {"confirm", "failed"} =>
          /\ boot.at \in Requests \ boot.todo
          /\ row[boot.at].st = "pending" /\ row[boot.at].pid
    /\ boot.pc = "confirm" => payment[boot.at].st = "completed"
    /\ boot.pc \in {"failed", "restore"} => payment[boot.at].st = "failed"
    /\ boot.pc = "restore" =>
          /\ boot.at \in Requests
          /\ row[boot.at].st = "failed" /\ restored[boot.at] = 0

\* A request that has used its session, or has a row to show for it.
Claimed(r) == pc[r] \in {"prepare", "lookup", "insert"} \/ row[r].st # "none"

SessionClaimed ==
    /\ \A r \in Requests : Claimed(r) => session[call[r].session].used
    /\ \A q, r \in Requests :
          Claimed(q) /\ Claimed(r) /\ q # r => call[q].session # call[r].session

\* Once a single-use voucher is redeemed it stays inactive, until the redeem is given
\* back or it is edited.
SpentInactive ==
    \A v \in Vouchers : voucher[v].terms.single =>
        spent[v] <= 1 /\ (voucher[v].active => spent[v] <= 0)

\* The inductive invariant.
IInv ==
    /\ TypeOK /\ Bound /\ Phase /\ BootOK /\ SessionClaimed /\ SpentInactive
    /\ NeverPaidAndRestored

-----------------------------------------------------------------------------
\* Fees are whole numbers of msat, never negative (helpers.go:46-54).
LEMMA FeeType ==
    ASSUME NEW b \in Nat PROVE calculateRedeemFee(b) \in Nat
<1> DEFINE net == NetOfBPS(b, RedeemFeeBPS)
<1>1. SatRound(MinRedeemFeeMsat) \in Nat
  BY MoneyAssumption DEF SatRound
<1>2. net \in Int
  <2>1. (b * 10000) \div (10000 + RedeemFeeBPS) \in Nat
    BY MoneyAssumption
  <2> QED BY <2>1, MoneyAssumption DEF NetOfBPS
<1>3. FeeOf(b, RedeemFeeBPS, MinRedeemFeeMsat) \in Nat
  <2> HIDE DEF net
  <2> QED BY <1>1, <1>2 DEF FeeOf, net
<1> QED BY <1>3 DEF calculateRedeemFee

\* A debit leaves a row of the vouchers table.
LEMMA DebitType ==
    ASSUME NEW line \in VoucherRow, NEW msat \in Nat, msat <= line.bal
    PROVE  Debit(line, msat) \in VoucherRow
<1>1. /\ line.bal - msat \in Nat
      /\ line.active \in BOOLEAN /\ line.terms \in Terms
      /\ Touched(line) \in {"running", "passed", "renewed"}
  BY DEF VoucherRow, Touched
<1>2. (IF line.terms.single THEN FALSE ELSE line.active) \in BOOLEAN
  BY <1>1
<1> QED BY <1>1, <1>2 DEF Debit, VoucherRow

\* Giving money back leaves a row of the vouchers table.
LEMMA AddBalanceType ==
    ASSUME NEW line \in VoucherRow, NEW msat \in Nat
    PROVE  AddBalance(line, msat) \in VoucherRow
BY DEF AddBalance, VoucherRow, Touched

\* Taking an expired balance leaves a row of the vouchers table.
LEMMA RefundedType ==
    ASSUME NEW line \in VoucherRow
    PROVE  Refunded(line) \in VoucherRow
BY DEF Refunded, VoucherRow, Touched

\* updateRedeemTx leaves rows of redeem_txs.
LEMMA SetStatusType ==
    ASSUME row \in [Requests -> RedeemRow], NEW r \in Requests, NEW actual \in Nat,
           NEW st \in {"confirmed", "failed"}, SetStatus(r, st, actual)
    PROVE  row' \in [Requests -> RedeemRow]
<1>1. row[r] \in RedeemRow
  OBVIOUS
<1>2. [row[r] EXCEPT !.st = st, !.actual = actual] \in RedeemRow
  BY <1>1 DEF RedeemRow
<1>3. row' = [row EXCEPT ![r] = [row[r] EXCEPT !.st = st, !.actual = actual]]
  BY DEF SetStatus
<1> QED BY <1>2, <1>3

\* updateRedeemTx changes the one row, and neither its voucher nor its payment id.
LEMMA SetStatusKeeps ==
    ASSUME row \in [Requests -> RedeemRow], NEW r \in Requests, NEW st, NEW actual,
           SetStatus(r, st, actual)
    PROVE  /\ row'[r].st = st /\ row'[r].pid = row[r].pid
           /\ \A q \in Requests : row'[q].voucher = row[q].voucher
           /\ \A q \in Requests \ {r} : row'[q] = row[q]
           /\ UNCHANGED history
BY DEF SetStatus, RedeemRow

\* setRedeemTxPaymentID leaves a row of the redeem_txs table (db.go:423).
LEMMA MarkPaidType ==
    ASSUME NEW rw \in RedeemRow
    PROVE  [rw EXCEPT !.pid = TRUE] \in RedeemRow
BY DEF RedeemRow

\* addVoucherBalance, for a debit that was made, leaves rows of the vouchers table.
LEMMA GiveBackType ==
    ASSUME TypeOK, Bound, NEW r \in Requests, row[r].st # "none", GiveBack(r)
    PROVE  /\ voucher' \in [Vouchers -> VoucherRow]
           /\ restored' \in [Requests -> Nat]
           /\ spent' \in [Vouchers -> Int]
<1>1. row[r].voucher \in Vouchers
  BY DEF Bound
<1>2. Held(r) \in Nat
  BY DEF TypeOK, RedeemRow, Held
<1>3. voucher[row[r].voucher] \in VoucherRow
  BY <1>1 DEF TypeOK
<1>4. AddBalance(voucher[row[r].voucher], Held(r)) \in VoucherRow
  BY <1>2, <1>3, AddBalanceType
<1> QED BY <1>1, <1>4 DEF TypeOK, GiveBack

\* Every step keeps the types: no balance goes below zero (handlers.go:946,
\* db.go:503-513), and nothing is looked up that is not there.
LEMMA TypeStep ==
    ASSUME TypeOK, Bound, Phase, BootOK, [Next]_vars PROVE TypeOK'
<1> USE DEF dbVars, sdkVars, procVars, history
<1>1. CASE UNCHANGED vars
  BY <1>1 DEF TypeOK, vars
<1>2. ASSUME NEW s \in Sessions, SessionExpires(s) PROVE TypeOK'
  <2>1. session' \in [Sessions -> SessionRow]
    BY ZenonT(60), <1>2 DEF SessionExpires, TypeOK, SessionRow
  <2> QED BY <1>2, <2>1 DEF SessionExpires, TypeOK
<1>3. ASSUME NEW s \in Sessions, NEW v \in Vouchers, OpenSession(s, v) PROVE TypeOK'
  <2>1. session' \in [Sessions -> SessionRow]
    BY <1>3 DEF OpenSession, TypeOK, SessionRow
  <2> QED BY <1>3, <2>1 DEF OpenSession, TypeOK
<1>4. ASSUME NEW v \in Vouchers, VoucherExpires(v) PROVE TypeOK'
  <2>1. voucher' \in [Vouchers -> VoucherRow]
    BY <1>4 DEF VoucherExpires, TypeOK, VoucherRow
  <2> QED BY <1>4, <2>1 DEF VoucherExpires, TypeOK
<1>5. ASSUME NEW v \in Vouchers, TransferOut(v) PROVE TypeOK'
  <2>1. PICK msat \in Amounts :
          msat <= voucher[v].bal /\ Leaves(v, msat, Debit(voucher[v], msat))
    BY <1>5 DEF TransferOut
  <2>2. msat \in Nat /\ voucher[v] \in VoucherRow
    BY RedeemAssumption DEF TypeOK
  <2>3. Debit(voucher[v], msat) \in VoucherRow
    BY <2>1, <2>2, DebitType
  <2> QED BY <2>1, <2>2, <2>3 DEF Leaves, TypeOK
<1>6. ASSUME NEW v \in Vouchers, RefundExpired(v) PROVE TypeOK'
  <2>1. voucher[v] \in VoucherRow
    BY DEF TypeOK
  <2>2. voucher[v].bal \in Nat /\ Refunded(voucher[v]) \in VoucherRow
    BY <2>1, RefundedType DEF VoucherRow
  <2> QED BY <1>6, <2>2 DEF RefundExpired, Leaves, TypeOK
<1>26. ASSUME NEW v \in Vouchers, Edit(v) PROVE TypeOK'
  <2> PICK terms \in Terms : \E clock \in Reclocked(voucher[v], terms) :
          voucher' = [voucher EXCEPT ![v] = Edited(voucher[v], terms, clock)]
    BY <1>26 DEF Edit
  <2>1. PICK clock \in Reclocked(voucher[v], terms) :
          voucher' = [voucher EXCEPT ![v] = Edited(voucher[v], terms, clock)]
    OBVIOUS
  <2>2. Edited(voucher[v], terms, clock) \in VoucherRow
    BY DEF TypeOK, VoucherRow, Edited, Reclocked
  <2>3. voucher' \in [Vouchers -> VoucherRow]
    BY <2>1, <2>2 DEF TypeOK
  <2> QED BY <1>26, <2>3 DEF Edit, TypeOK
<1>7. ASSUME NEW r \in Requests, PaymentSettles(r) PROVE TypeOK'
  <2>1. row[r].msat \in Nat /\ payment[r].fee \in Nat
    BY DEF TypeOK, PaymentRow, RedeemRow
  <2>2. wallet' \in Nat
    BY <1>7, <2>1 DEF PaymentSettles, TypeOK
  <2>3. \A st \in {"completed", "failed"} :
          [payment EXCEPT ![r].st = st] \in [Requests -> PaymentRow]
    BY DEF TypeOK, PaymentRow
  <2>4. payment' \in [Requests -> PaymentRow]
    BY <1>7, <2>3 DEF PaymentSettles
  <2> QED BY <1>7, <2>2, <2>4 DEF PaymentSettles, TypeOK
<1>8. ASSUME NEW r \in Requests, NEW s \in Sessions, NEW msat \in Amounts, Arrive(r, s, msat)
      PROVE TypeOK'
  BY <1>8, RedeemAssumption DEF Arrive, Goto, PC, TypeOK
<1>9. ASSUME NEW r \in Requests,
             \/ Gate(r) \/ CheckSession(r) \/ AcquireTimesOut(r) \/ PrepareFails(r)
             \/ Lookup(r) \/ InsertRefused(r) \/ SendReturns(r) \/ SendFails(r)
      PROVE TypeOK'
  BY SMTT(30), <1>9 DEF Gate, CheckSession, AcquireTimesOut, PrepareFails, Lookup, InsertRefused,
              SendReturns, SendFails, Goto, PC, TypeOK
<1>10. ASSUME NEW r \in Requests, Acquire(r) \/ Release(r) PROVE TypeOK'
  BY SMTT(30), <1>10 DEF Acquire, Release, Lock!Acquire, Lock!Pay, Goto, PC, TypeOK
<1>11. ASSUME NEW r \in Requests, MarkUsed(r) PROVE TypeOK'
  <2>1. call[r].session \in Sessions
    BY <1>11 DEF MarkUsed, Goto, Bound
  <2>2. Usable(r) \in BOOLEAN /\ session[call[r].session].used \in BOOLEAN
    BY <2>1 DEF Usable, Session, TypeOK, SessionRow
  <2>3. \A used \in BOOLEAN :
          [session EXCEPT ![call[r].session].used = used] \in [Sessions -> SessionRow]
    BY ZenonT(60), <2>1 DEF TypeOK, SessionRow
  <2>4. session' \in [Sessions -> SessionRow]
    BY <1>11, <2>2, <2>3 DEF MarkUsed
  <2> QED BY <1>11, <2>4 DEF MarkUsed, Goto, PC, TypeOK
<1>12. ASSUME NEW r \in Requests, Prepare(r) PROVE TypeOK'
  <2>1. PICK quote \in Quotes : Goto(r, "prepare", "lookup") /\ seen' = [seen EXCEPT ![r] = quote]
    BY <1>12 DEF Prepare
  <2> QED BY <1>12, <2>1, RedeemAssumption DEF Prepare, Goto, PC, TypeOK
<1>13. ASSUME NEW r \in Requests, InsertRedeemAndBalance(r) PROVE TypeOK'
  <2> DEFINE v == Voucher(r)  fee == calculateRedeemFee(voucher[v].bal)
  <2>1. v \in Vouchers
    BY <1>13 DEF InsertRedeemAndBalance, Goto, Bound, Voucher, Session
  <2>2. voucher[v] \in VoucherRow /\ voucher[v].bal \in Nat /\ call[r].msat \in Nat
    BY <2>1 DEF TypeOK, VoucherRow
  <2>3. fee \in Nat
    BY <2>2, FeeType
  <2>4. call[r].msat + fee \in Nat /\ call[r].msat + fee <= voucher[v].bal
    BY <1>13, <2>2, <2>3 DEF InsertRedeemAndBalance, Payable
  <2>5. Debit(voucher[v], call[r].msat + fee) \in VoucherRow
    BY <2>2, <2>4, DebitType
  <2>6. voucher' \in [Vouchers -> VoucherRow]
    BY <1>13, <2>5 DEF InsertRedeemAndBalance, TypeOK
  <2>7. row' \in [Requests -> RedeemRow]
    BY <1>13, <2>1, <2>2, <2>3 DEF InsertRedeemAndBalance, TypeOK, RedeemRow, NoRow
  <2>8. spent' \in [Vouchers -> Int]
    <3> DEFINE n == spent[v] + 1
    <3>1. n \in Int /\ spent' = [spent EXCEPT ![v] = n]
      BY <1>13, <2>1 DEF InsertRedeemAndBalance, TypeOK
    <3> HIDE DEF n, v
    <3> QED BY <3>1 DEF TypeOK
  <2> HIDE DEF v, fee
  <2> QED BY <1>13, <2>6, <2>7, <2>8 DEF InsertRedeemAndBalance, Goto, PC, TypeOK
<1>14. ASSUME NEW r \in Requests, UndoRestore(r) \/ Restore(r) PROVE TypeOK'
  <2>1. row[r].st # "none" /\ GiveBack(r)
    BY <1>14 DEF UndoRestore, Restore, Goto, Phase, PhaseOf
  <2> QED BY <1>14, <2>1, GiveBackType DEF UndoRestore, Restore, GiveBack, Goto, PC, TypeOK
<1>15. ASSUME NEW r \in Requests, UndoMark(r) \/ MarkFailed(r) PROVE TypeOK'
  <2>1. row' \in [Requests -> RedeemRow]
    BY <1>15, SetStatusType DEF UndoMark, MarkFailed, TypeOK
  <2> QED BY <1>15, <2>1 DEF UndoMark, MarkFailed, SetStatus, Goto, PC, TypeOK
<1>16. ASSUME NEW r \in Requests, Send(r) PROVE TypeOK'
  <2>1. PICK route \in Routes, st \in {"pending", "completed"} :
          /\ Goto(r, "send", "sent")
          /\ wallet >= row[r].msat + route.fee
          /\ payment' = [payment EXCEPT
               ![r] = [st |-> st, fee |-> route.fee, spark |-> route.spark]]
          /\ wallet' = wallet - row[r].msat - route.fee
          /\ UNCHANGED <<dbVars, call, seen, owner, history>>
    BY <1>16 DEF Send
  <2>2. route.fee \in Nat /\ route.spark \in BOOLEAN /\ row[r].msat \in Nat
    BY RedeemAssumption DEF TypeOK, RedeemRow
  <2>3. wallet' \in Nat
    BY <2>1, <2>2 DEF TypeOK
  <2>4. payment' \in [Requests -> PaymentRow]
    BY <2>1, <2>2 DEF TypeOK, PaymentRow
  <2> QED BY <2>1, <2>3, <2>4 DEF Goto, PC, TypeOK
<1>17. ASSUME NEW r \in Requests, SetPaymentID(r) PROVE TypeOK'
  <2>1. row' \in [Requests -> RedeemRow]
    BY <1>17, MarkPaidType DEF SetPaymentID, TypeOK
  <2> QED BY <1>17, <2>1 DEF SetPaymentID, Goto, PC, TypeOK
<1>18. ASSUME NEW r \in Requests, Confirm(r) PROVE TypeOK'
  <2>1. payment[r].fee \in Nat
    BY DEF TypeOK, PaymentRow
  <2>2. row' \in [Requests -> RedeemRow]
    BY <1>18, <2>1, SetStatusType DEF Confirm, TypeOK
  <2> QED BY <1>18, <2>2 DEF Confirm, SetStatus, Goto, PC, TypeOK
<1>19. CASE CooldownEnds
  BY <1>19 DEF CooldownEnds, Lock!Release, Nobody, TypeOK
<1>20. CASE BootQuery \/ BootServes
  BY <1>20 DEF BootQuery, BootServes, BootGoto, BootPC, TypeOK
<1>21. ASSUME NEW r \in Requests, BootVisit(r) \/ BootSkip(r) PROVE TypeOK'
  BY <1>21 DEF BootVisit, BootSkip, BootGoto, BootPC, TypeOK
<1>22. CASE BootConfirm
  <2>1. boot.at \in Requests
    BY <1>22 DEF BootConfirm, BootGoto, BootOK
  <2>2. (IF payment[boot.at].spark THEN 0 ELSE payment[boot.at].fee) \in Nat
    BY <2>1 DEF TypeOK, PaymentRow
  <2>3. row' \in [Requests -> RedeemRow]
    BY <1>22, <2>1, <2>2, SetStatusType DEF BootConfirm, TypeOK
  <2> QED BY <1>22, <2>3 DEF BootConfirm, SetStatus, BootGoto, BootPC, TypeOK
<1>23. CASE BootMarkFailed
  <2>1. boot.at \in Requests
    BY <1>23 DEF BootMarkFailed, BootGoto, BootOK
  <2>2. row' \in [Requests -> RedeemRow]
    BY <1>23, <2>1, SetStatusType DEF BootMarkFailed, TypeOK
  <2> QED BY <1>23, <2>1, <2>2 DEF BootMarkFailed, SetStatus, BootGoto, BootPC, TypeOK
<1>24. CASE BootRestore
  <2>1. boot.at \in Requests /\ row[boot.at].st # "none" /\ GiveBack(boot.at)
    BY <1>24 DEF BootRestore, BootGoto, BootOK
  <2> QED BY <1>24, <2>1, GiveBackType DEF BootRestore, GiveBack, BootGoto, BootPC, TypeOK
<1>25. CASE Crash
  BY <1>25 DEF Crash, Nobody, PC, BootPC, TypeOK
<1> QED
  BY <1>1, <1>2, <1>3, <1>4, <1>5, <1>6, <1>7, <1>8, <1>9, <1>10, <1>11, <1>12, <1>13,
     <1>14, <1>15, <1>16, <1>17, <1>18, <1>19, <1>20, <1>21, <1>22, <1>23, <1>24, <1>25, <1>26
     DEF Next, World, RequestStep, BootStep

\* The steps that touch no request, no row and no payment.
SparesRows ==
    \/ \E s \in Sessions : SessionExpires(s) \/ \E v \in Vouchers : OpenSession(s, v)
    \/ \E v \in Vouchers : VoucherExpires(v) \/ Edit(v) \/ TransferOut(v) \/ RefundExpired(v)
    \/ CooldownEnds \/ BootQuery \/ BootServes
    \/ \E r \in Requests : BootVisit(r) \/ BootSkip(r)

\* Every request goes through its phases in order, whatever the others do.
LEMMA PhaseStep ==
    ASSUME TypeOK, Phase, BootOK, [Next]_vars PROVE Phase'
<1> USE DEF dbVars, sdkVars, procVars, history
<1> SUFFICES ASSUME NEW q \in Requests PROVE PhaseOf(q)'
  BY DEF Phase
<1>0. PhaseOf(q)
  BY DEF Phase
<1>1. CASE UNCHANGED <<row, payment, restored, pc>>
  BY <1>0, <1>1 DEF PhaseOf
<1>2. ASSUME NEW r \in Requests, PaymentSettles(r) PROVE PhaseOf(q)'
  <2>1. \/ payment'[q].st = payment[q].st
        \/ payment[q].st = "pending" /\ payment'[q].st \in {"completed", "failed"}
    BY <1>2 DEF PaymentSettles, TypeOK, PaymentRow
  <2> QED BY <1>0, <1>2, <2>1 DEF PaymentSettles, PhaseOf, Early
<1>3. ASSUME NEW r \in Requests, NEW s \in Sessions, NEW msat \in Amounts, Arrive(r, s, msat)
      PROVE PhaseOf(q)'
  BY <1>0, <1>3 DEF Arrive, Goto, PhaseOf, Early, TypeOK
<1>4. ASSUME NEW r \in Requests,
             \/ Gate(r) \/ CheckSession(r) \/ Acquire(r) \/ AcquireTimesOut(r) \/ MarkUsed(r)
             \/ Prepare(r) \/ PrepareFails(r) \/ Lookup(r) \/ InsertRefused(r)
             \/ SendReturns(r) \/ SendFails(r) \/ Release(r)
      PROVE PhaseOf(q)'
  BY <1>0, <1>4 DEF Gate, CheckSession, Acquire, AcquireTimesOut, MarkUsed, Prepare,
       PrepareFails, Lookup, InsertRefused, SendReturns, SendFails, Release, Goto,
       PhaseOf, Early, TypeOK
<1>5. ASSUME NEW r \in Requests, InsertRedeemAndBalance(r) PROVE PhaseOf(q)'
  <2>1. CASE q # r
    BY <1>0, <1>5, <2>1 DEF InsertRedeemAndBalance, Goto, PhaseOf, Early, TypeOK
  <2>2. CASE q = r
    <3>1. row'[r].st = "pending" /\ row'[r].pid = FALSE
      BY <1>5 DEF InsertRedeemAndBalance, NoRow, TypeOK
    <3>2. pc[r] = "insert" /\ pc'[r] \in {"undoRestore", "send"}
      BY <1>5 DEF InsertRedeemAndBalance, Goto, TypeOK
    <3>3. UNCHANGED <<payment, restored>>
      BY <1>5 DEF InsertRedeemAndBalance
    <3> QED BY <1>0, <2>2, <3>1, <3>2, <3>3 DEF PhaseOf, Early
  <2> QED BY <2>1, <2>2
<1>6. ASSUME NEW r \in Requests, UndoRestore(r) \/ Restore(r) PROVE PhaseOf(q)'
  BY <1>0, <1>6 DEF UndoRestore, Restore, GiveBack, Goto, PhaseOf, Early, TypeOK
<1>7. ASSUME NEW r \in Requests, UndoMark(r) \/ MarkFailed(r) PROVE PhaseOf(q)'
  <2>1. CASE q # r
    BY <1>0, <1>7, <2>1 DEF UndoMark, MarkFailed, SetStatus, Goto, PhaseOf, TypeOK
  <2>2. CASE q = r
    <3>1. row'[r].st = "failed"
      BY <1>7 DEF UndoMark, MarkFailed, SetStatus, TypeOK, RedeemRow
    <3> QED BY <1>0, <1>7, <2>2, <3>1
          DEF UndoMark, MarkFailed, SetStatus, Goto, PhaseOf, Early, TypeOK
  <2> QED BY <2>1, <2>2
<1>8. ASSUME NEW r \in Requests, Send(r) PROVE PhaseOf(q)'
  <2>1. CASE q # r
    BY <1>0, <1>8, <2>1 DEF Send, Goto, PhaseOf, Early, TypeOK
  <2>2. CASE q = r
    <3>1. payment'[r].st # "none"
      BY <1>8 DEF Send, TypeOK
    <3> QED BY <1>0, <1>8, <2>2, <3>1 DEF Send, Goto, PhaseOf, Early, TypeOK
  <2> QED BY <2>1, <2>2
<1>9. ASSUME NEW r \in Requests, SetPaymentID(r) PROVE PhaseOf(q)'
  <2>1. CASE q # r
    BY <1>0, <1>9, <2>1 DEF SetPaymentID, Goto, PhaseOf, Early, TypeOK
  <2>2. CASE q = r
    <3>1. row'[r].st = row[r].st
      BY <1>9 DEF SetPaymentID, TypeOK, RedeemRow
    <3> QED BY <1>0, <1>9, <2>2, <3>1 DEF SetPaymentID, Goto, PhaseOf, Early, TypeOK
  <2> QED BY <2>1, <2>2
<1>10. ASSUME NEW r \in Requests, Confirm(r) PROVE PhaseOf(q)'
  <2>1. CASE q # r
    BY <1>0, <1>10, <2>1 DEF Confirm, SetStatus, Goto, PhaseOf, Early, TypeOK
  <2>2. CASE q = r
    <3>1. row'[r].st = "confirmed"
      BY <1>10 DEF Confirm, SetStatus, TypeOK, RedeemRow
    <3> QED BY <1>0, <1>10, <2>2, <3>1 DEF Confirm, SetStatus, Goto, PhaseOf, Early, TypeOK
  <2> QED BY <2>1, <2>2
<1>11. CASE BootConfirm \/ BootMarkFailed
  <2>1. boot.at \in Requests /\ row[boot.at].st = "pending" /\ pc[boot.at] = "lost"
    <3>1. boot.at \in Requests /\ row[boot.at].st = "pending" /\ ~Serving
      BY <1>11 DEF BootConfirm, BootMarkFailed, BootGoto, BootOK, Serving
    <3>2. PhaseOf(boot.at) /\ pc[boot.at] \in {"idle", "done", "lost"}
      BY <3>1 DEF Phase, BootOK
    <3> QED BY <3>1, <3>2 DEF PhaseOf, Early
  <2>2. row'[boot.at].st \in {"confirmed", "failed"}
    BY <1>11, <2>1 DEF BootConfirm, BootMarkFailed, SetStatus, TypeOK, RedeemRow
  <2>3. \A r \in Requests \ {boot.at} : row'[r] = row[r]
    BY <1>11 DEF BootConfirm, BootMarkFailed, SetStatus, TypeOK
  <2>4. UNCHANGED <<pc, payment, restored>>
    BY <1>11 DEF BootConfirm, BootMarkFailed, BootGoto, SetStatus
  <2>5. CASE q = boot.at
    BY <1>0, <2>1, <2>2, <2>4, <2>5 DEF PhaseOf, Early
  <2>6. CASE q # boot.at
    BY <1>0, <2>3, <2>4, <2>6 DEF PhaseOf
  <2> QED BY <2>5, <2>6
<1>12. CASE BootRestore
  <2>1. boot.at \in Requests /\ row[boot.at].st = "failed" /\ pc[boot.at] \in {"idle", "done", "lost"}
    BY <1>12 DEF BootRestore, BootGoto, BootOK, Serving
  <2>2. \A r \in Requests \ {boot.at} : restored'[r] = restored[r]
    BY <1>12 DEF BootRestore, GiveBack, TypeOK
  <2>3. UNCHANGED <<pc, payment, row>>
    BY <1>12 DEF BootRestore, BootGoto, GiveBack
  <2>4. CASE q = boot.at
    BY <1>0, <2>1, <2>3, <2>4 DEF PhaseOf, Early
  <2>5. CASE q # boot.at
    BY <1>0, <2>2, <2>3, <2>5 DEF PhaseOf
  <2> QED BY <2>4, <2>5
<1>13. CASE Crash
  BY <1>0, <1>13 DEF Crash, PhaseOf, Early, TypeOK
<1>14. CASE SparesRows
  <2>1. UNCHANGED <<row, payment, restored, pc>>
    BY <1>14 DEF SparesRows, SessionExpires, OpenSession, VoucherExpires, Edit, TransferOut,
         RefundExpired, Leaves, CooldownEnds, BootQuery, BootServes, BootVisit, BootSkip,
         BootGoto
  <2> QED BY <1>1, <2>1
<1> QED
  BY <1>1, <1>2, <1>3, <1>4, <1>5, <1>6, <1>7, <1>8, <1>9, <1>10, <1>11, <1>12, <1>13, <1>14
     DEF Next, World, RequestStep, BootStep, SparesRows, vars

\* The debit of a redeem that was paid is not given back, and none is twice.
LEMMA RestoredStep ==
    ASSUME TypeOK, Phase, BootOK, NeverPaidAndRestored, [Next]_vars
    PROVE  NeverPaidAndRestored'
<1> USE DEF dbVars, sdkVars, procVars, history
<1> DEFINE Fine(q) == /\ restored[q] <= 1
                      /\ restored[q] = 1 => payment[q].st \in {"none", "failed"}
<1> SUFFICES ASSUME NEW q \in Requests PROVE Fine(q)'
  BY DEF NeverPaidAndRestored
<1>0. Fine(q) /\ PhaseOf(q) /\ restored[q] \in Nat
  BY DEF NeverPaidAndRestored, Phase, TypeOK
<1>1. CASE UNCHANGED <<payment, restored>>
  BY <1>0, <1>1
<1>2. ASSUME NEW r \in Requests, PaymentSettles(r) PROVE Fine(q)'
  <2>1. \/ payment'[q] = payment[q]
        \/ payment[q].st = "pending"
    BY <1>2 DEF PaymentSettles, TypeOK
  <2> QED BY <1>0, <1>2, <2>1 DEF PaymentSettles
<1>3. ASSUME NEW r \in Requests, Send(r) PROVE Fine(q)'
  <2>1. \/ payment'[q] = payment[q]
        \/ q = r
    BY <1>3 DEF Send, TypeOK
  <2> QED BY <1>0, <1>3, <2>1 DEF Send, Goto, PhaseOf
<1>4. ASSUME NEW r \in Requests, UndoRestore(r) \/ Restore(r) PROVE Fine(q)'
  <2>1. restored'[q] = IF q = r THEN restored[r] + 1 ELSE restored[q]
    BY <1>4 DEF UndoRestore, Restore, GiveBack, TypeOK
  <2> QED BY <1>0, <1>4, <2>1 DEF UndoRestore, Restore, Goto, PhaseOf
<1>5. CASE BootRestore
  <2>1. restored'[q] = IF q = boot.at THEN restored[q] + 1 ELSE restored[q]
    BY <1>5 DEF BootRestore, GiveBack, TypeOK
  <2>2. q = boot.at => restored[q] = 0 /\ payment[q].st = "failed"
    BY <1>5 DEF BootRestore, BootGoto, BootOK
  <2>3. payment' = payment
    BY <1>5 DEF BootRestore, BootGoto
  <2> QED BY <1>0, <2>1, <2>2, <2>3
<1>6. CASE SparesRows
  <2>1. UNCHANGED <<payment, restored>>
    BY <1>6 DEF SparesRows, SessionExpires, OpenSession, VoucherExpires, Edit, TransferOut,
         RefundExpired, Leaves, CooldownEnds, BootQuery, BootServes, BootVisit, BootSkip,
         BootGoto
  <2> QED BY <1>1, <2>1
<1>7. ASSUME NEW r \in Requests,
             \/ \E s \in Sessions, msat \in Amounts : Arrive(r, s, msat)
             \/ Gate(r) \/ CheckSession(r) \/ Acquire(r) \/ AcquireTimesOut(r) \/ MarkUsed(r)
             \/ Prepare(r) \/ PrepareFails(r) \/ Lookup(r) \/ InsertRedeemAndBalance(r)
             \/ InsertRefused(r) \/ UndoMark(r) \/ SendReturns(r) \/ SendFails(r)
             \/ MarkFailed(r) \/ SetPaymentID(r) \/ Confirm(r) \/ Release(r)
      PROVE UNCHANGED <<payment, restored>>
  BY <1>7 DEF Arrive, Gate, CheckSession, Acquire, AcquireTimesOut, MarkUsed, Prepare,
       PrepareFails, Lookup, InsertRedeemAndBalance, InsertRefused, UndoMark, SendReturns,
       SendFails, MarkFailed, SetPaymentID, Confirm, Release, SetStatus
<1>8. CASE BootConfirm \/ BootMarkFailed \/ Crash
  <2>1. UNCHANGED <<payment, restored>>
    BY <1>8 DEF BootConfirm, BootMarkFailed, Crash, SetStatus, BootGoto
  <2> QED BY <1>1, <2>1
<1> HIDE DEF Fine
<1> QED
  BY <1>1, <1>2, <1>3, <1>4, <1>5, <1>6, <1>7, <1>8
     DEF Next, World, RequestStep, BootStep, SparesRows, vars

\* What is referred to stays there: no session, call or row loses its voucher.
LEMMA BoundStep ==
    ASSUME TypeOK, Bound, Phase, BootOK, [Next]_vars PROVE Bound'
<1> USE DEF dbVars, sdkVars, procVars, history
<1>1. CASE UNCHANGED <<session, call, row, pc>>
  BY <1>1 DEF Bound
<1>2. ASSUME NEW s \in Sessions, SessionExpires(s) PROVE Bound'
  <2>1. \A t \in Sessions : session'[t].voucher = session[t].voucher
                         /\ (session[t] = NoSession => session'[t] = NoSession)
    BY <1>2 DEF SessionExpires, TypeOK, SessionRow
  <2> QED BY <1>2, <2>1 DEF SessionExpires, Bound
<1>3. ASSUME NEW s \in Sessions, NEW v \in Vouchers, OpenSession(s, v) PROVE Bound'
  <2>1. session'[s].voucher = v /\ \A t \in Sessions \ {s} : session'[t] = session[t]
    BY <1>3 DEF OpenSession, TypeOK, SessionRow
  <2> QED BY <1>3, <2>1 DEF OpenSession, Bound
<1>4. ASSUME NEW r \in Requests, NEW s \in Sessions, NEW msat \in Amounts, Arrive(r, s, msat)
      PROVE Bound'
  BY <1>4 DEF Arrive, Goto, Bound, TypeOK
<1>5. ASSUME NEW r \in Requests, MarkUsed(r) PROVE Bound'
  <2>1. call[r].session \in Sessions /\ session[call[r].session].voucher \in Vouchers
    BY <1>5 DEF MarkUsed, Goto, Bound
  <2>2. \A t \in Sessions : session'[t].voucher = session[t].voucher
    BY <1>5 DEF MarkUsed, TypeOK, SessionRow
  <2>3. \A t \in Sessions \ {call[r].session} : session'[t] = session[t]
    BY <1>5 DEF MarkUsed, TypeOK
  <2> QED BY <1>5, <2>1, <2>2, <2>3 DEF MarkUsed, Goto, Bound, TypeOK
<1>6. ASSUME NEW r \in Requests, InsertRedeemAndBalance(r) PROVE Bound'
  <2>1. session[call[r].session].voucher \in Vouchers /\ pc[r] = "insert"
    BY <1>6 DEF InsertRedeemAndBalance, Goto, Bound
  <2>2. row'[r].voucher \in Vouchers /\ \A q \in Requests \ {r} : row'[q] = row[q]
    BY <1>6, <2>1 DEF InsertRedeemAndBalance, Voucher, Session, NoRow, TypeOK
  <2> QED BY <1>6, <2>1, <2>2 DEF InsertRedeemAndBalance, Goto, Bound, TypeOK
<1>7. ASSUME NEW r \in Requests,
             \/ Gate(r) \/ CheckSession(r) \/ Acquire(r) \/ AcquireTimesOut(r)
             \/ Prepare(r) \/ PrepareFails(r) \/ Lookup(r) \/ InsertRefused(r)
             \/ UndoRestore(r) \/ Send(r) \/ SendReturns(r) \/ SendFails(r) \/ Restore(r)
             \/ Release(r)
      PROVE Bound'
  BY <1>7 DEF Gate, CheckSession, Acquire, AcquireTimesOut, Prepare, PrepareFails, Lookup,
       InsertRefused, UndoRestore, GiveBack, Send, SendReturns, SendFails, Restore, Release,
       Goto, Bound, TypeOK
<1>8. ASSUME NEW r \in Requests, UndoMark(r) \/ MarkFailed(r) \/ Confirm(r) \/ SetPaymentID(r)
      PROVE Bound'
  <2>1. \A q \in Requests : row'[q].voucher = row[q].voucher
    <3>1. CASE SetPaymentID(r)
      BY <3>1 DEF SetPaymentID, TypeOK, RedeemRow
    <3>2. CASE UndoMark(r) \/ MarkFailed(r) \/ Confirm(r)
      BY <3>2, SetStatusKeeps DEF UndoMark, MarkFailed, Confirm, TypeOK
    <3> QED BY <1>8, <3>1, <3>2
  <2>2. row[r].st # "none" /\ \A q \in Requests \ {r} : row'[q] = row[q]
    BY <1>8 DEF UndoMark, MarkFailed, Confirm, SetPaymentID, SetStatus, Goto, TypeOK,
         Phase, PhaseOf
  <2>3. UNCHANGED <<session, call>> /\ \A q \in Requests : pc'[q] # "idle" => pc[q] # "idle"
    BY <1>8 DEF UndoMark, MarkFailed, Confirm, SetPaymentID, SetStatus, Goto, TypeOK
  <2> QED BY <2>1, <2>2, <2>3 DEF Bound
<1>9. CASE BootConfirm \/ BootMarkFailed
  <2>0. boot.at \in Requests /\ row[boot.at].st # "none"
    BY <1>9 DEF BootConfirm, BootMarkFailed, BootGoto, BootOK
  <2>1. \A q \in Requests : row'[q].voucher = row[q].voucher
    BY <1>9, <2>0, SetStatusKeeps DEF BootConfirm, BootMarkFailed, TypeOK
  <2>2. \A q \in Requests \ {boot.at} : row'[q] = row[q]
    BY <1>9, <2>0, SetStatusKeeps DEF BootConfirm, BootMarkFailed, TypeOK
  <2> QED BY <1>9, <2>0, <2>1, <2>2 DEF BootConfirm, BootMarkFailed, BootGoto, SetStatus, Bound
<1>10. CASE Crash
  BY <1>10 DEF Crash, Bound, TypeOK
<1>11. ASSUME NEW r \in Requests, PaymentSettles(r) \/ BootVisit(r) \/ BootSkip(r)
       PROVE  UNCHANGED <<session, call, row, pc>>
  BY <1>11 DEF PaymentSettles, BootVisit, BootSkip, BootGoto
<1>12. ASSUME NEW v \in Vouchers, VoucherExpires(v) \/ Edit(v) \/ TransferOut(v) \/ RefundExpired(v)
       PROVE  UNCHANGED <<session, call, row, pc>>
  BY <1>12 DEF VoucherExpires, Edit, TransferOut, RefundExpired, Leaves
<1>13. CASE CooldownEnds \/ BootQuery \/ BootRestore \/ BootServes
  BY <1>1, <1>13 DEF CooldownEnds, BootQuery, BootRestore, BootServes, BootGoto, GiveBack
<1> QED
  BY <1>1, <1>2, <1>3, <1>4, <1>5, <1>6, <1>7, <1>8, <1>9, <1>10, <1>11, <1>12, <1>13
     DEF Next, World, RequestStep, BootStep, vars

\* Start-up runs alone, and what it read of a row and a payment stays so.
LEMMA BootStepOK ==
    ASSUME TypeOK, Phase, BootOK, [Next]_vars PROVE BootOK'
<1> USE DEF dbVars, sdkVars, procVars, history
<1>1. CASE UNCHANGED <<boot, row, payment, restored, pc>>
  BY <1>1 DEF BootOK, Serving
<1>2. CASE Serving /\ UNCHANGED boot
  BY <1>2 DEF BootOK, Serving
<1>3. ASSUME NEW r \in Requests, PaymentSettles(r) PROVE BootOK'
  <2>1. payment[r].st = "pending" /\ \A q \in Requests \ {r} : payment'[q] = payment[q]
    BY <1>3 DEF PaymentSettles, TypeOK
  <2>2. UNCHANGED <<boot, row, restored, pc>>
    BY <1>3 DEF PaymentSettles
  <2> QED BY <2>1, <2>2 DEF BootOK, Serving
<1>4. CASE BootQuery
  <2>1. /\ boot'.pc = "next"
        /\ boot'.todo = {r \in Requests : row[r].st = "pending"}
    BY <1>4 DEF BootQuery, BootGoto
  <2>2. ~Serving /\ UNCHANGED <<row, payment, restored, pc>>
    BY <1>4 DEF BootQuery, BootGoto, Serving
  <2> QED BY <2>1, <2>2 DEF BootOK, Serving
<1>5. ASSUME NEW r \in Requests, BootVisit(r) PROVE BootOK'
  <2>1. /\ r \in boot.todo /\ row[r].pid /\ row[r].st = "pending"
        /\ boot' \in [pc : {"confirm", "failed"}, todo : {boot.todo \ {r}}, at : {r}]
        /\ boot'.pc = "confirm" => payment[r].st = "completed"
        /\ boot'.pc = "failed" => payment[r].st = "failed"
    BY <1>5 DEF BootVisit, BootGoto, BootOK
  <2>2. ~Serving /\ UNCHANGED <<row, payment, restored, pc>>
    BY <1>5 DEF BootVisit, BootGoto, Serving
  <2> QED BY <2>1, <2>2 DEF BootOK, Serving
<1>6. ASSUME NEW r \in Requests, BootSkip(r) PROVE BootOK'
  <2>1. boot'.pc = "next" /\ boot'.todo \subseteq boot.todo
    BY <1>6 DEF BootSkip, BootGoto
  <2>2. ~Serving /\ UNCHANGED <<row, payment, restored, pc>>
    BY <1>6 DEF BootSkip, BootGoto, Serving
  <2> QED BY <2>1, <2>2 DEF BootOK, Serving
<1>7. CASE BootConfirm \/ BootMarkFailed
  <2>1. /\ boot.at \in Requests \ boot.todo /\ boot.todo \subseteq Requests
        /\ row[boot.at].pid /\ row[boot.at].st = "pending" /\ ~Serving
        /\ boot'.todo = boot.todo
        /\ UNCHANGED <<payment, restored, pc>>
    BY <1>7 DEF BootConfirm, BootMarkFailed, BootGoto, SetStatus, BootOK, Serving, TypeOK
  <2>2. \A q \in Requests \ {boot.at} : row'[q] = row[q]
    BY <1>7, <2>1, SetStatusKeeps DEF BootConfirm, BootMarkFailed, TypeOK
  <2>3. CASE BootConfirm
    <3>1. boot'.pc = "next"
      BY <2>3 DEF BootConfirm, BootGoto
    <3> QED BY <2>1, <2>2, <3>1 DEF BootOK, Serving
  <2>4. CASE BootMarkFailed
    <3>1. boot'.pc = "restore" /\ boot'.at = boot.at /\ payment[boot.at].st = "failed"
      BY <2>4 DEF BootMarkFailed, BootGoto, BootOK
    <3>2. row'[boot.at].st = "failed"
      BY <2>1, <2>4, SetStatusKeeps DEF BootMarkFailed, TypeOK
    <3>3. restored[boot.at] = 0
      BY <2>1 DEF Phase, PhaseOf
    <3> QED BY <2>1, <2>2, <3>1, <3>2, <3>3 DEF BootOK, Serving
  <2> QED BY <1>7, <2>3, <2>4
<1>8. CASE BootRestore
  <2>1. boot'.pc = "next" /\ boot'.todo = boot.todo /\ ~Serving /\ UNCHANGED <<row, payment, pc>>
    BY <1>8 DEF BootRestore, BootGoto, GiveBack, Serving
  <2> QED BY <2>1 DEF BootOK, Serving
<1>9. CASE BootServes
  <2>1. boot'.pc = "served" /\ boot'.todo = {}
    BY <1>9 DEF BootServes, BootGoto
  <2> QED BY <2>1 DEF BootOK, Serving
<1>10. CASE Crash
  <2>1. boot'.pc = "query" /\ boot'.todo = {}
    BY <1>10 DEF Crash
  <2>2. \A q \in Requests : pc'[q] \in {"idle", "done", "lost"}
    BY <1>10 DEF Crash
  <2> QED BY <2>1, <2>2 DEF BootOK, Serving
<1>11. ASSUME NEW r \in Requests,
              RequestStep(r) \/ \E s \in Sessions, msat \in Amounts : Arrive(r, s, msat)
       PROVE Serving /\ UNCHANGED boot
  BY <1>11 DEF RequestStep, Arrive, Gate, CheckSession, Acquire, AcquireTimesOut, MarkUsed,
       Prepare, PrepareFails, Lookup, InsertRedeemAndBalance, InsertRefused, UndoRestore,
       UndoMark, Send, SendReturns, SendFails, MarkFailed, Restore, SetPaymentID, Confirm,
       Release, Goto
<1>12. CASE SparesRows /\ UNCHANGED boot
  BY <1>1, <1>12 DEF SparesRows, SessionExpires, OpenSession, VoucherExpires, Edit, TransferOut,
       RefundExpired, Leaves, CooldownEnds, BootQuery, BootServes, BootVisit, BootSkip, BootGoto
<1>13. ASSUME SparesRows
       PROVE  \/ UNCHANGED boot
              \/ BootQuery \/ BootServes \/ \E r \in Requests : BootVisit(r) \/ BootSkip(r)
  BY <1>13 DEF SparesRows, SessionExpires, OpenSession, VoucherExpires, Edit, TransferOut,
       RefundExpired, Leaves, CooldownEnds
<1> QED
  BY <1>1, <1>2, <1>3, <1>4, <1>5, <1>6, <1>7, <1>8, <1>9, <1>10, <1>11, <1>12, <1>13
     DEF Next, World, BootStep, SparesRows, vars

\* A session is claimed by the request that marks it used, and by no other.
LEMMA ClaimStep ==
    ASSUME TypeOK, Bound, Phase, BootOK, SessionClaimed, [Next]_vars
    PROVE  SessionClaimed'
<1> USE DEF dbVars, sdkVars, procVars, history
<1>1. ASSUME \A q \in Requests : Claimed(q)' => Claimed(q) /\ call'[q] = call[q],
             \A q \in Requests :
                Claimed(q) /\ session[call[q].session].used => session'[call[q].session].used
      PROVE  SessionClaimed'
  BY <1>1 DEF SessionClaimed
<1>2. CASE UNCHANGED <<session, row, call, pc>>
  BY <1>2 DEF SessionClaimed, Claimed
<1>3. ASSUME NEW s \in Sessions, SessionExpires(s) PROVE SessionClaimed'
  <2>1. \A t \in Sessions : session'[t].used = session[t].used
    BY <1>3 DEF SessionExpires, TypeOK, SessionRow
  <2>2. \A q \in Requests : Claimed(q) => call[q].session \in Sessions
    BY DEF Claimed, Bound, Phase, PhaseOf, Early
  <2>3. UNCHANGED <<row, call, pc>>
    BY <1>3 DEF SessionExpires
  <2> QED BY <1>1, <2>1, <2>2, <2>3 DEF Claimed
<1>4. ASSUME NEW s \in Sessions, NEW v \in Vouchers, OpenSession(s, v) PROVE SessionClaimed'
  <2>1. session[s].used = FALSE /\ \A t \in Sessions \ {s} : session'[t] = session[t]
    BY <1>4 DEF OpenSession, NoSession, TypeOK
  <2>2. \A q \in Requests : Claimed(q) => call[q].session \in Sessions
    BY DEF Claimed, Bound, Phase, PhaseOf, Early
  <2>3. UNCHANGED <<row, call, pc>>
    BY <1>4 DEF OpenSession
  <2> QED BY <1>1, <2>1, <2>2, <2>3 DEF Claimed
<1>5. ASSUME NEW r \in Requests, NEW s \in Sessions, NEW msat \in Amounts, Arrive(r, s, msat)
      PROVE SessionClaimed'
  <2>1. ~Claimed(r)'
    BY <1>5 DEF Arrive, Goto, Claimed, Phase, PhaseOf, Early, TypeOK
  <2>2. \A q \in Requests \ {r} : call'[q] = call[q] /\ (Claimed(q)' => Claimed(q))
    BY <1>5 DEF Arrive, Goto, Claimed, TypeOK
  <2> QED BY <1>1, <1>5, <2>1, <2>2 DEF Arrive
<1>6. ASSUME NEW r \in Requests, MarkUsed(r) PROVE SessionClaimed'
  <2> DEFINE k == call[r].session
  <2>1. k \in Sessions /\ UNCHANGED <<row, call>>
    BY <1>6 DEF MarkUsed, Goto, Bound
  <2>2. /\ session[k].used \in BOOLEAN /\ session[k].expired \in BOOLEAN
        /\ Usable(r) = (~session[k].used /\ ~session[k].expired)
    BY <2>1 DEF Usable, Session, TypeOK, SessionRow
  <2>3. /\ session'[k].used = (session[k].used \/ Usable(r))
        /\ \A t \in Sessions \ {k} : session'[t] = session[t]
    BY <1>6, <2>1, <2>2 DEF MarkUsed, TypeOK, SessionRow
  <2>4. \A q \in Requests \ {r} : Claimed(q)' => Claimed(q)
    BY <1>6, <2>1 DEF MarkUsed, Goto, Claimed, TypeOK
  <2>5. \A q \in Requests : Claimed(q) => call[q].session \in Sessions
    BY DEF Claimed, Bound, Phase, PhaseOf, Early
  <2>6. \A q \in Requests : Claimed(q) => session'[call[q].session].used
    BY <2>2, <2>3, <2>5 DEF SessionClaimed
  <2>7. CASE Usable(r)
    <3>1. \A q \in Requests : Claimed(q) => call[q].session # k
      BY <2>2, <2>7 DEF SessionClaimed
    <3>2. session'[k].used
      BY <2>3, <2>7
    <3>3. \A q \in Requests \ {r} : Claimed(q)' => Claimed(q) /\ call'[q] = call[q]
      BY <2>1, <2>4
    <3> QED BY <2>1, <2>6, <3>1, <3>2, <3>3 DEF SessionClaimed
  <2>8. CASE ~Usable(r)
    <3>1. ~Claimed(r)'
      BY <1>6, <2>8 DEF MarkUsed, Goto, Claimed, Phase, PhaseOf, Early, TypeOK
    <3> QED BY <1>1, <2>1, <2>4, <2>6, <3>1
  <2> QED BY <2>7, <2>8
<1>7. ASSUME NEW r \in Requests, InsertRedeemAndBalance(r) PROVE SessionClaimed'
  <2>1. UNCHANGED <<session, call>> /\ Claimed(r)
    BY <1>7 DEF InsertRedeemAndBalance, Goto, Claimed
  <2>2. \A q \in Requests \ {r} : Claimed(q)' => Claimed(q)
    BY <1>7 DEF InsertRedeemAndBalance, Goto, Claimed, TypeOK
  <2> QED BY <1>1, <2>1, <2>2
<1>8. ASSUME NEW r \in Requests,
             \/ Gate(r) \/ CheckSession(r) \/ Acquire(r) \/ AcquireTimesOut(r)
             \/ Prepare(r) \/ PrepareFails(r) \/ Lookup(r) \/ InsertRefused(r)
             \/ UndoRestore(r) \/ Send(r) \/ SendReturns(r) \/ SendFails(r) \/ Restore(r)
             \/ Release(r)
      PROVE SessionClaimed'
  <2>1. UNCHANGED <<session, call, row>>
    BY <1>8 DEF Gate, CheckSession, Acquire, AcquireTimesOut, Prepare, PrepareFails, Lookup,
         InsertRefused, UndoRestore, GiveBack, Send, SendReturns, SendFails, Restore, Release
  <2>2. \A q \in Requests : Claimed(q)' => Claimed(q)
    BY <1>8, <2>1 DEF Gate, CheckSession, Acquire, AcquireTimesOut, Prepare, PrepareFails,
         Lookup, InsertRefused, UndoRestore, Send, SendReturns, SendFails, Restore, Release,
         Goto, Claimed, TypeOK
  <2> QED BY <1>1, <2>1, <2>2
<1>9. ASSUME NEW r \in Requests, UndoMark(r) \/ MarkFailed(r) \/ Confirm(r) \/ SetPaymentID(r)
      PROVE SessionClaimed'
  <2>1. UNCHANGED <<session, call>>
    BY <1>9 DEF UndoMark, MarkFailed, Confirm, SetPaymentID, SetStatus
  <2>2. row[r].st # "none" /\ \A q \in Requests \ {r} : row'[q] = row[q]
    BY <1>9 DEF UndoMark, MarkFailed, Confirm, SetPaymentID, SetStatus, Goto, TypeOK,
         Phase, PhaseOf
  <2>3. \A q \in Requests : Claimed(q)' => Claimed(q)
    BY <1>9, <2>2 DEF UndoMark, MarkFailed, Confirm, SetPaymentID, Goto, Claimed, TypeOK
  <2> QED BY <1>1, <2>1, <2>3
<1>10. CASE BootConfirm \/ BootMarkFailed
  <2>1. boot.at \in Requests /\ row[boot.at].st # "none" /\ UNCHANGED <<session, call, pc>>
    BY <1>10 DEF BootConfirm, BootMarkFailed, BootGoto, SetStatus, BootOK
  <2>2. \A q \in Requests \ {boot.at} : row'[q] = row[q]
    BY <1>10, <2>1, SetStatusKeeps DEF BootConfirm, BootMarkFailed, TypeOK
  <2>3. \A q \in Requests : Claimed(q)' => Claimed(q)
    BY <2>1, <2>2 DEF Claimed
  <2> QED BY <1>1, <2>1, <2>3
<1>11. CASE Crash
  <2>1. UNCHANGED <<session, call, row>>
    BY <1>11 DEF Crash
  <2>2. \A q \in Requests : Claimed(q)' => Claimed(q)
    BY <1>11, <2>1 DEF Crash, Claimed
  <2> QED BY <1>1, <2>1, <2>2
<1>12. ASSUME NEW r \in Requests, PaymentSettles(r) \/ BootVisit(r) \/ BootSkip(r)
       PROVE  UNCHANGED <<session, row, call, pc>>
  BY <1>12 DEF PaymentSettles, BootVisit, BootSkip, BootGoto
<1>13. ASSUME NEW v \in Vouchers,
              VoucherExpires(v) \/ Edit(v) \/ TransferOut(v) \/ RefundExpired(v)
       PROVE  UNCHANGED <<session, row, call, pc>>
  BY <1>13 DEF VoucherExpires, Edit, TransferOut, RefundExpired, Leaves
<1>14. CASE CooldownEnds \/ BootQuery \/ BootRestore \/ BootServes
  BY <1>2, <1>14 DEF CooldownEnds, BootQuery, BootRestore, BootServes, BootGoto, GiveBack
<1> QED
  BY <1>2, <1>3, <1>4, <1>5, <1>6, <1>7, <1>8, <1>9, <1>10, <1>11, <1>12, <1>13, <1>14
     DEF Next, World, RequestStep, BootStep, vars

\* A single-use voucher stays inactive from a redeem until that is given back, or the
\* voucher edited.
LEMMA SpentStep ==
    ASSUME TypeOK, Bound, Phase, BootOK, SpentInactive, [Next]_vars
    PROVE  SpentInactive'
<1> USE DEF dbVars, sdkVars, procVars, history
<1>1. CASE UNCHANGED <<voucher, spent>>
  BY <1>1 DEF SpentInactive
<1>2. ASSUME NEW v \in Vouchers, voucher'[v].terms = voucher[v].terms,
             voucher'[v].active => voucher[v].active, spent' = spent,
             \A w \in Vouchers \ {v} : voucher'[w] = voucher[w]
      PROVE  SpentInactive'
  BY <1>2 DEF SpentInactive
<1>3. \A v \in Vouchers : voucher[v] \in VoucherRow /\ spent[v] \in Int
  BY DEF TypeOK
<1>4. ASSUME NEW v \in Vouchers, VoucherExpires(v) \/ TransferOut(v) \/ RefundExpired(v)
      PROVE SpentInactive'
  <2>1. CASE VoucherExpires(v)
    BY <1>2, <1>3, <2>1 DEF VoucherExpires, TypeOK, VoucherRow
  <2>2. CASE TransferOut(v)
    <3>1. PICK msat \in Amounts : Leaves(v, msat, Debit(voucher[v], msat))
      BY <2>2 DEF TransferOut
    <3>2. /\ voucher'[v] = Debit(voucher[v], msat) /\ spent' = spent
          /\ \A w \in Vouchers \ {v} : voucher'[w] = voucher[w]
      BY <3>1 DEF Leaves, TypeOK
    <3>3. /\ voucher'[v].terms = voucher[v].terms
          /\ voucher'[v].active = IF voucher[v].terms.single THEN FALSE ELSE voucher[v].active
      BY <3>2 DEF Debit
    <3>4. voucher'[v].active => voucher[v].active
      BY <3>3
    <3> QED BY <1>2, <3>2, <3>3, <3>4
  <2>3. CASE RefundExpired(v)
    <3>1. /\ voucher'[v] = Refunded(voucher[v]) /\ spent' = spent
          /\ \A w \in Vouchers \ {v} : voucher'[w] = voucher[w]
      BY <2>3 DEF RefundExpired, Leaves, TypeOK
    <3> QED BY <1>2, <3>1 DEF Refunded
  <2> QED BY <1>4, <2>1, <2>2, <2>3
<1>5. ASSUME NEW v \in Vouchers, Edit(v) PROVE SpentInactive'
  <2>1. spent'[v] = 0 /\ \A w \in Vouchers \ {v} : voucher'[w] = voucher[w] /\ spent'[w] = spent[w]
    BY <1>5 DEF Edit, TypeOK
  <2> QED BY <2>1 DEF SpentInactive
<1>6. ASSUME NEW r \in Requests, InsertRedeemAndBalance(r) PROVE SpentInactive'
  <2> DEFINE v == Voucher(r)
  <2>1. v \in Vouchers /\ voucher[v].active
    BY <1>6 DEF InsertRedeemAndBalance, Payable, Goto, Bound, Voucher, Session
  <2>2. /\ spent'[v] = spent[v] + 1
        /\ \A w \in Vouchers \ {v} : voucher'[w] = voucher[w] /\ spent'[w] = spent[w]
    BY <1>6, <2>1 DEF InsertRedeemAndBalance, TypeOK
  <2>3. /\ voucher'[v].terms = voucher[v].terms
        /\ voucher[v].terms.single => ~voucher'[v].active
    BY <1>6, <2>1 DEF InsertRedeemAndBalance, Debit, TypeOK
  <2> HIDE DEF v
  <2> QED BY <1>3, <2>1, <2>2, <2>3 DEF SpentInactive
<1>7. ASSUME NEW r \in Requests, row[r].st # "none", GiveBack(r) PROVE SpentInactive'
  <2> DEFINE v == row[r].voucher
  <2>1. v \in Vouchers
    BY <1>7 DEF Bound
  <2>2. /\ spent'[v] = spent[v] - 1 /\ voucher'[v].terms = voucher[v].terms
        /\ \A w \in Vouchers \ {v} : voucher'[w] = voucher[w] /\ spent'[w] = spent[w]
    BY <1>7, <2>1 DEF GiveBack, AddBalance, TypeOK
  <2> HIDE DEF v
  <2> QED BY <1>3, <2>1, <2>2 DEF SpentInactive
<1>8. ASSUME NEW r \in Requests, UndoRestore(r) \/ Restore(r) PROVE SpentInactive'
  BY <1>7, <1>8 DEF UndoRestore, Restore, Goto, Phase, PhaseOf
<1>9. CASE BootRestore
  BY <1>7, <1>9 DEF BootRestore, BootGoto, BootOK
<1>10. ASSUME NEW r \in Requests, UndoMark(r) \/ MarkFailed(r) \/ Confirm(r) \/ SetPaymentID(r)
       PROVE UNCHANGED <<voucher, spent>>
  BY <1>10 DEF UndoMark, MarkFailed, Confirm, SetPaymentID, SetStatus
<1>11. CASE BootConfirm \/ BootMarkFailed
  BY <1>1, <1>11 DEF BootConfirm, BootMarkFailed, SetStatus
<1>12. ASSUME NEW r \in Requests,
             \/ \E s \in Sessions, msat \in Amounts : Arrive(r, s, msat)
             \/ Gate(r) \/ CheckSession(r) \/ Acquire(r) \/ AcquireTimesOut(r) \/ MarkUsed(r)
             \/ Prepare(r) \/ PrepareFails(r) \/ Lookup(r) \/ InsertRefused(r)
             \/ Send(r) \/ SendReturns(r) \/ SendFails(r) \/ Release(r)
             \/ PaymentSettles(r) \/ BootVisit(r) \/ BootSkip(r)
      PROVE UNCHANGED <<voucher, spent>>
  BY <1>12 DEF Arrive, Gate, CheckSession, Acquire, AcquireTimesOut, MarkUsed, Prepare,
       PrepareFails, Lookup, InsertRefused, Send, SendReturns, SendFails, Release,
       PaymentSettles, BootVisit, BootSkip, BootGoto
<1>13. CASE (\E s \in Sessions : SessionExpires(s) \/ \E v \in Vouchers : OpenSession(s, v))
            \/ CooldownEnds \/ BootQuery \/ BootServes \/ Crash
  BY <1>1, <1>13 DEF SessionExpires, OpenSession, CooldownEnds, BootQuery, BootServes, BootGoto,
       Crash
<1> QED
  BY <1>1, <1>4, <1>5, <1>6, <1>8, <1>9, <1>10, <1>11, <1>12, <1>13
     DEF Next, World, RequestStep, BootStep, vars

-----------------------------------------------------------------------------
\* At first no row, no payment and no session is there.
LEMMA InitIInv == Init => IInv
<1> SUFFICES ASSUME Init PROVE IInv
  OBVIOUS
<1> USE DEF Init
<1>1. TypeOK
  <2>1. ASSUME NEW v \in Vouchers PROVE Created(v, InitBalance) \in VoucherRow
    BY RedeemAssumption, VoucherAssumption DEF Created, VoucherRow
  <2>2. voucher \in [Vouchers -> VoucherRow]
    BY <2>1
  <2> QED BY <2>2, RedeemAssumption
     DEF TypeOK, SessionRow, RedeemRow, PaymentRow, NoSession, NoRow, NoPayment,
         NoCall, PC, BootPC, Nobody
<1>2. Bound /\ Phase /\ BootOK
  BY DEF Bound, Phase, PhaseOf, Early, BootOK, Serving, NoRow, NoPayment
<1>3. SessionClaimed /\ SpentInactive /\ NeverPaidAndRestored
  BY DEF SessionClaimed, Claimed, SpentInactive, NeverPaidAndRestored, NoRow
<1> QED BY <1>1, <1>2, <1>3 DEF IInv

\* Every step, a crash included, keeps the inductive invariant.
LEMMA StepIInv == IInv /\ [Next]_vars => IInv'
BY TypeStep, PhaseStep, RestoredStep, BoundStep, BootStepOK, ClaimStep, SpentStep DEF IInv

\* The inductive invariant holds of every reachable state.
THEOREM Invariance == Spec => []IInv
<1>1. Init => IInv
  BY InitIInv
<1>2. IInv /\ [Next]_vars => IInv'
  BY StepIInv
<1> QED BY <1>1, <1>2, PTL DEF Spec

\* No balance, no wallet and no booked fee goes below zero, whatever the fees are
\* set to: the transaction of insertRedeemAndBalance leaves no other way
\* (handlers.go:944-952).
THEOREM TypeCorrect == Spec => []TypeOK
<1>1. IInv => TypeOK
  BY DEF IInv
<1> QED BY <1>1, Invariance, PTL

\* However many redeems, crashes and start-ups there are, a debit is given back at
\* most once, and never once the payment was made (handlers.go:869-921).
THEOREM PaidOrRestored == Spec => []NeverPaidAndRestored
<1>1. IInv => NeverPaidAndRestored
  BY DEF IInv
<1> QED BY <1>1, Invariance, PTL

\* A session buys at most one redeem, however many callbacks present it
\* (db.go:431-449).
THEOREM OneRedeemPerSession == Spec => []OneRowPerSession
<1>1. IInv => OneRowPerSession
  BY DEF IInv, SessionClaimed, Claimed, OneRowPerSession
<1> QED BY <1>1, Invariance, PTL

\* A single-use voucher is redeemed once since it was created or last edited, but for
\* redeems that are given back: neither a race of callbacks, nor a crash, nor a transfer
\* of what is left takes a second one (db.go:504-507, 530, 1147).
THEOREM SingleUseDebitedOnce == Spec => []SingleUseOnce
<1>1. IInv => SingleUseOnce
  BY DEF IInv, SpentInactive, SingleUseOnce
<1> QED BY <1>1, Invariance, PTL

\* A row that is confirmed or failed stays as it is, through every crash and
\* start-up (start-up.go:24-26).
THEOREM DecidedStays == Spec => RowFinal
<1> DEFINE Final == \A r \in Requests : row[r].st \in {"confirmed", "failed"} => row'[r] = row[r]
<1>1. IInv /\ [Next]_vars => [Final]_vars
  <2> SUFFICES ASSUME IInv, Next, NEW q \in Requests, row[q].st \in {"confirmed", "failed"}
               PROVE  row'[q] = row[q]
    OBVIOUS
  <2> USE DEF dbVars, sdkVars, procVars, history
  <2>0. TypeOK /\ PhaseOf(q) /\ BootOK
    BY DEF IInv, Phase
  <2>1. CASE UNCHANGED row
    BY <2>1
  <2>2. ASSUME NEW r \in Requests,
               \/ InsertRedeemAndBalance(r) \/ UndoMark(r) \/ MarkFailed(r)
               \/ SetPaymentID(r) \/ Confirm(r)
        PROVE  row'[q] = row[q]
    <3>1. q # r
      BY <2>0, <2>2 DEF InsertRedeemAndBalance, UndoMark, MarkFailed, SetPaymentID, Confirm,
           Goto, PhaseOf, Early
    <3> QED BY <2>0, <2>2, <3>1 DEF InsertRedeemAndBalance, UndoMark, MarkFailed,
             SetPaymentID, Confirm, SetStatus, TypeOK
  <2>3. CASE BootConfirm \/ BootMarkFailed
    <3>1. q # boot.at
      BY <2>0, <2>3 DEF BootConfirm, BootMarkFailed, BootGoto, BootOK
    <3> QED BY <2>0, <2>3, <3>1 DEF BootConfirm, BootMarkFailed, SetStatus, TypeOK
  <2>4. ASSUME NEW r \in Requests,
               \/ \E s \in Sessions, msat \in Amounts : Arrive(r, s, msat)
               \/ Gate(r) \/ CheckSession(r) \/ Acquire(r) \/ AcquireTimesOut(r) \/ MarkUsed(r)
               \/ Prepare(r) \/ PrepareFails(r) \/ Lookup(r) \/ InsertRefused(r)
               \/ UndoRestore(r) \/ Send(r) \/ SendReturns(r) \/ SendFails(r) \/ Restore(r)
               \/ Release(r) \/ PaymentSettles(r)
        PROVE  UNCHANGED row
    BY <2>4 DEF Arrive, Gate, CheckSession, Acquire, AcquireTimesOut, MarkUsed, Prepare,
         PrepareFails, Lookup, InsertRefused, UndoRestore, Send, SendReturns, SendFails,
         Restore, Release, PaymentSettles, GiveBack
  <2>5. CASE SparesRows
    BY <2>5 DEF SparesRows, SessionExpires, OpenSession, VoucherExpires, Edit, TransferOut,
         RefundExpired, Leaves, CooldownEnds, BootQuery, BootServes, BootVisit, BootSkip,
         BootGoto
  <2>6. CASE BootRestore \/ Crash
    BY <2>6 DEF BootRestore, Crash, GiveBack
  <2> QED BY <2>1, <2>2, <2>3, <2>4, <2>5, <2>6
          DEF Next, World, RequestStep, BootStep, SparesRows
<1>2. [][Final]_vars <=> RowFinal
  BY DEF RowFinal
<1> QED BY <1>1, <1>2, Invariance, PTL DEF Spec
-----------------------------------------------------------------------------
\* A payout of which nothing changes makes no step (handlers.go:756-922).
LEMMA PayoutStands ==
    ASSUME NEW q \in Requests,
           row'[q] = row[q], restored'[q] = restored[q], payment'[q] = payment[q]
    PROVE  UNCHANGED PayoutOf(q)!payout
BY DEF PayoutOf!payout, DebitOf, MoneyOf, SaidOf

\* insertRedeemAndBalance takes the debit of a payout (handlers.go:929-960).
LEMMA InsertTakes ==
    ASSUME IInv, NEW q \in Requests, InsertRedeemAndBalance(q)
    PROVE  PayoutOf(q)!Take
<1>1. row[q].st = "none" /\ restored[q] = 0
  BY DEF IInv, Phase, PhaseOf, Early, InsertRedeemAndBalance, Goto
<1>2. row'[q].st = "pending"
  <2>1. row \in [Requests -> RedeemRow]
    BY DEF IInv, TypeOK
  <2> QED BY <2>1 DEF InsertRedeemAndBalance, NoRow
<1>3. UNCHANGED <<payment, restored>>
  BY DEF InsertRedeemAndBalance, sdkVars
<1> QED BY <1>1, <1>2, <1>3 DEF PayoutOf!Take, DebitOf, MoneyOf, SaidOf

\* SendPayment pays a payout out that has its debit and no payment yet
\* (handlers.go:880-888).
LEMMA SendPaysOut ==
    ASSUME IInv, NEW q \in Requests, Send(q)
    PROVE  PayoutOf(q)!PayOut
<1>1. row[q].st = "pending" /\ restored[q] = 0 /\ payment[q].st = "none"
  BY DEF IInv, Phase, PhaseOf, Early, Send, Goto
<1>2. payment'[q].st \in {"pending", "completed"} /\ UNCHANGED <<row, restored>>
  BY DEF IInv, TypeOK, Send, dbVars, history
<1> QED BY <1>1, <1>2 DEF PayoutOf!PayOut, DebitOf, MoneyOf, SaidOf

\* A payment that ends leaves its money out, or bounces.
LEMMA SettlesOrBounces ==
    ASSUME IInv, NEW q \in Requests, PaymentSettles(q)
    PROVE  UNCHANGED PayoutOf(q)!payout \/ PayoutOf(q)!Bounce
<1>1. payment[q].st = "pending" /\ payment'[q].st \in {"completed", "failed"}
  BY DEF IInv, TypeOK, PaymentRow, PaymentSettles
<1>2. UNCHANGED <<row, restored>>
  BY DEF PaymentSettles, dbVars, history
<1> QED BY <1>1, <1>2
        DEF PayoutOf!payout, PayoutOf!Bounce, DebitOf, MoneyOf, SaidOf

\* addVoucherBalance returns a debit that stands, of a payout that is open or has
\* failed, and whose money is here (handlers.go:870, 894, start-up.go:73).
LEMMA GiveBackReturns ==
    ASSUME IInv, NEW q \in Requests, GiveBack(q), UNCHANGED payment,
           row[q].st \in {"pending", "failed"}, restored[q] = 0,
           payment[q].st \in {"none", "failed"}
    PROVE  PayoutOf(q)!Return
<1>1. restored'[q] = 1 /\ row' = row
  BY DEF GiveBack, IInv, TypeOK
<1> QED BY <1>1 DEF PayoutOf!Return, DebitOf, MoneyOf, SaidOf

\* updateRedeemTx says of an open payout that it failed, when no money is out
\* (handlers.go:873, 891, start-up.go:69).
LEMMA FailedSays ==
    ASSUME IInv, NEW q \in Requests, NEW actual, SetStatus(q, "failed", actual),
           UNCHANGED payment, row[q].st = "pending", payment[q].st \in {"none", "failed"}
    PROVE  PayoutOf(q)!SayFailed
<1>1. row'[q].st = "failed" /\ restored' = restored
  BY SetStatusKeeps DEF IInv, TypeOK, history
<1> QED BY <1>1 DEF PayoutOf!SayFailed, PayoutOf!Say, DebitOf, MoneyOf, SaidOf

\* updateRedeemTx says of an open payout that it was paid, when money was sent and the
\* debit stands (handlers.go:916, start-up.go:61).
LEMMA ConfirmedSays ==
    ASSUME IInv, NEW q \in Requests, NEW actual, SetStatus(q, "confirmed", actual),
           UNCHANGED payment, row[q].st = "pending", restored[q] = 0, payment[q].st # "none"
    PROVE  PayoutOf(q)!SayPaid
<1>1. row'[q].st = "confirmed" /\ restored' = restored
  BY SetStatusKeeps DEF IInv, TypeOK, history
<1> QED BY <1>1 DEF PayoutOf!SayPaid, PayoutOf!Say, DebitOf, MoneyOf, SaidOf

\* A step of a request, of start-up or of the world is a step of each payout, or
\* leaves it alone (handlers.go:756-960, start-up.go:24-85).
LEMMA PayoutStep ==
    ASSUME IInv, Next, NEW q \in Requests
    PROVE  [PayoutOf(q)!Next]_(PayoutOf(q)!payout)
<1> USE DEF dbVars, sdkVars, procVars, history
<1>0. TypeOK /\ PhaseOf(q) /\ BootOK
  BY DEF IInv, Phase
<1>1. CASE UNCHANGED <<row, restored, payment>>
  BY <1>1, PayoutStands
<1>2. ASSUME NEW r \in Requests, r # q,
             \/ InsertRedeemAndBalance(r) \/ UndoRestore(r) \/ UndoMark(r) \/ Send(r)
             \/ MarkFailed(r) \/ Restore(r) \/ SetPaymentID(r) \/ Confirm(r)
             \/ PaymentSettles(r)
      PROVE  UNCHANGED PayoutOf(q)!payout
  <2>1. row'[q] = row[q] /\ restored'[q] = restored[q] /\ payment'[q] = payment[q]
    BY <1>0, <1>2 DEF InsertRedeemAndBalance, UndoRestore, UndoMark, Send, MarkFailed, Restore,
         SetPaymentID, Confirm, PaymentSettles, SetStatus, GiveBack, TypeOK
  <2> QED BY <2>1, PayoutStands
<1>3. CASE InsertRedeemAndBalance(q)
  BY <1>3, InsertTakes DEF PayoutOf!Next
<1>4. CASE Send(q)
  BY <1>4, SendPaysOut DEF PayoutOf!Next
<1>5. CASE PaymentSettles(q)
  BY <1>5, SettlesOrBounces DEF PayoutOf!Next
<1>6. CASE UndoRestore(q) \/ Restore(q)
  <2>1. /\ GiveBack(q) /\ UNCHANGED payment
        /\ row[q].st \in {"pending", "failed"} /\ restored[q] = 0 /\ payment[q].st = "none"
    BY <1>0, <1>6 DEF UndoRestore, Restore, Goto, PhaseOf
  <2> QED BY <2>1, GiveBackReturns DEF PayoutOf!Next
<1>7. CASE UndoMark(q) \/ MarkFailed(q)
  <2>1. /\ SetStatus(q, "failed", 0) /\ UNCHANGED payment
        /\ row[q].st = "pending" /\ payment[q].st = "none"
    BY <1>0, <1>7 DEF UndoMark, MarkFailed, Goto, PhaseOf
  <2> QED BY <2>1, FailedSays DEF PayoutOf!Next
<1>8. CASE SetPaymentID(q)
  <2>1. row[q].st = "pending" /\ restored[q] = 0 /\ UNCHANGED <<payment, restored>>
    BY <1>0, <1>8 DEF SetPaymentID, Goto, PhaseOf
  <2>2. row'[q].st = "pending"
    BY <1>0, <1>8, <2>1 DEF SetPaymentID, TypeOK, RedeemRow
  <2> QED BY <2>1, <2>2 DEF PayoutOf!Next, PayoutOf!Revise, DebitOf, MoneyOf, SaidOf
<1>9. CASE Confirm(q)
  <2>1. /\ SetStatus(q, "confirmed", payment[q].fee) /\ UNCHANGED payment
        /\ row[q].st = "pending" /\ restored[q] = 0 /\ payment[q].st # "none"
    BY <1>0, <1>9 DEF Confirm, Goto, PhaseOf
  <2> QED BY <2>1, ConfirmedSays DEF PayoutOf!Next
<1>10. CASE BootConfirm \/ BootMarkFailed \/ BootRestore
  <2>1. boot.at \in Requests /\ UNCHANGED payment
    BY <1>0, <1>10 DEF BootConfirm, BootMarkFailed, BootRestore, BootGoto, BootOK
  <2>2. CASE boot.at # q
    <3>1. row'[q] = row[q] /\ restored'[q] = restored[q] /\ payment'[q] = payment[q]
      BY <1>0, <1>10, <2>1, <2>2
         DEF BootConfirm, BootMarkFailed, BootRestore, SetStatus, GiveBack, TypeOK
    <3> QED BY <3>1, PayoutStands
  <2>3. CASE boot.at = q /\ BootConfirm
    <3>1. /\ row[q].st = "pending" /\ row[q].pid /\ restored[q] = 0
          /\ payment[q].st = "completed"
      BY <1>0, <2>3 DEF BootConfirm, BootGoto, BootOK, PhaseOf
    <3>2. \E actual : SetStatus(q, "confirmed", actual)
      BY <2>3 DEF BootConfirm
    <3> QED BY <2>1, <3>1, <3>2, ConfirmedSays DEF PayoutOf!Next
  <2>4. CASE boot.at = q /\ BootMarkFailed
    <3>1. row[q].st = "pending" /\ payment[q].st = "failed"
      BY <1>0, <2>4 DEF BootMarkFailed, BootGoto, BootOK
    <3>2. SetStatus(q, "failed", 0)
      BY <2>4 DEF BootMarkFailed
    <3> QED BY <2>1, <3>1, <3>2, FailedSays DEF PayoutOf!Next
  <2>5. CASE boot.at = q /\ BootRestore
    <3>1. row[q].st = "failed" /\ restored[q] = 0 /\ payment[q].st = "failed"
      BY <1>0, <2>5 DEF BootRestore, BootGoto, BootOK
    <3>2. GiveBack(q)
      BY <2>5 DEF BootRestore
    <3> QED BY <2>1, <3>1, <3>2, GiveBackReturns DEF PayoutOf!Next
  <2> QED BY <1>10, <2>2, <2>3, <2>4, <2>5
<1>11. ASSUME NEW r \in Requests,
              \/ \E s \in Sessions, msat \in Amounts : Arrive(r, s, msat)
              \/ Gate(r) \/ CheckSession(r) \/ Acquire(r) \/ AcquireTimesOut(r) \/ MarkUsed(r)
              \/ Prepare(r) \/ PrepareFails(r) \/ Lookup(r) \/ InsertRefused(r)
              \/ SendReturns(r) \/ SendFails(r) \/ Release(r)
       PROVE  UNCHANGED <<row, restored, payment>>
  BY <1>11 DEF Arrive, Gate, CheckSession, Acquire, AcquireTimesOut, MarkUsed, Prepare,
       PrepareFails, Lookup, InsertRefused, SendReturns, SendFails, Release
<1>12. CASE SparesRows \/ Crash
  <2>1. UNCHANGED <<row, restored, payment>>
    BY <1>12 DEF SparesRows, SessionExpires, OpenSession, VoucherExpires, Edit, TransferOut,
         RefundExpired, Leaves, CooldownEnds, BootQuery, BootServes, BootVisit, BootSkip,
         BootGoto, Crash
  <2> QED BY <1>1, <2>1
<1>13. ASSUME NEW r \in Requests, RequestStep(r) \/ PaymentSettles(r)
       PROVE  [PayoutOf(q)!Next]_(PayoutOf(q)!payout)
  BY <1>1, <1>2, <1>3, <1>4, <1>5, <1>6, <1>7, <1>8, <1>9, <1>11, <1>13 DEF RequestStep
<1> QED BY <1>1, <1>10, <1>11, <1>12, <1>13 DEF Next, World, BootStep, SparesRows

\* Every request is a payout as Payout specifies it, for any number of them, through
\* every crash and start-up (handlers.go:867-921, start-up.go:57-79).
THEOREM EveryRequestIsAPayout == Spec => ImplementsPayout
<1> DEFINE Steps == \A r \in Requests : [PayoutOf(r)!Next]_(PayoutOf(r)!payout)
           Starts == \A r \in Requests : PayoutOf(r)!Init
<1>1. Init => Starts
  BY DEF Init, PayoutOf!Init, DebitOf, MoneyOf, SaidOf, NoRow, NoPayment
<1>2. IInv /\ [Next]_vars => [Steps]_vars
  BY PayoutStep
<1>3. ImplementsPayout <=> Starts /\ [][Steps]_vars
  BY DEF ImplementsPayout
<1> QED BY <1>1, <1>2, <1>3, Invariance, PTL DEF Spec
-----------------------------------------------------------------------------
(* The payment lock, among the callbacks                                   *)

\* From acquireForWithdrawal to the deferred releaseAfter.
Holding == {"mark", "prepare", "lookup", "insert", "undoRestore", "undoMark", "send", "sent",
            "failed", "restore", "setpid", "confirm", "release"}

\* The lock is the request's exactly from when it is acquired to when it is released.
LockIsHeld == \A r \in Requests : owner = r <=> pc[r] \in Holding

\* The steps that a callback has left at most.
Left(where) ==
    CASE where = "idle"    -> 13
      [] where = "gate"    -> 12
      [] where = "check"   -> 11
      [] where = "acquire" -> 10
      [] where = "mark"    -> 9
      [] where = "prepare" -> 8
      [] where = "lookup"  -> 7
      [] where = "insert"  -> 6
      [] where = "send"    -> 5
      [] where = "sent"    -> 4
      [] where \in {"setpid", "failed", "undoRestore"} -> 3
      [] where \in {"confirm", "restore", "undoMark"}  -> 2
      [] where = "release" -> 1
      [] OTHER             -> 0

\* A step takes a callback along one edge, and the lock with it (handlers.go:756-922).
LEMMA GotoMoves ==
    ASSUME TypeOK, NEW r \in Requests, NEW from, NEW to, Goto(r, from, to)
    PROVE  /\ pc[r] = from /\ pc'[r] = to
           /\ \A q \in Requests : q # r => pc'[q] = pc[q]
BY DEF Goto, TypeOK

\* What each step of a callback does to its place and to the lock (handlers.go:756-922).
LEMMA RequestMoves ==
    ASSUME TypeOK, NEW r \in Requests, RequestStep(r)
    PROVE  /\ \A q \in Requests : q # r => pc'[q] = pc[q]
           /\ Left(pc'[r]) < Left(pc[r])
           /\ \/ /\ pc[r] = "acquire" /\ pc'[r] = "mark"
                 /\ owner = Nobody /\ owner' = r
              \/ /\ pc[r] = "release" /\ pc'[r] = "done"
                 /\ owner = r /\ owner' = "cooldown"
              \/ /\ pc[r] \in Holding \ {"release"} /\ pc'[r] \in Holding
                 /\ owner' = owner
              \/ /\ pc[r] \in {"gate", "check", "acquire"} /\ pc'[r] \notin Holding
                 /\ owner' = owner
<1> DEFINE P == /\ \A q \in Requests : q # r => pc'[q] = pc[q]
                /\ Left(pc'[r]) < Left(pc[r])
                /\ \/ /\ pc[r] = "acquire" /\ pc'[r] = "mark"
                      /\ owner = Nobody /\ owner' = r
                   \/ /\ pc[r] = "release" /\ pc'[r] = "done"
                      /\ owner = r /\ owner' = "cooldown"
                   \/ /\ pc[r] \in Holding \ {"release"} /\ pc'[r] \in Holding
                      /\ owner' = owner
                   \/ /\ pc[r] \in {"gate", "check", "acquire"} /\ pc'[r] \notin Holding
                      /\ owner' = owner
<1>1. CASE Acquire(r)
  BY <1>1, GotoMoves DEF Acquire, Lock!Acquire, Left
<1>2. CASE Release(r)
  BY <1>2, GotoMoves DEF Release, Lock!Pay, Left
<1>3. ASSUME NEW from, NEW to, Goto(r, from, to), owner' = owner,
             \/ from \in Holding \ {"release"} /\ to \in Holding
             \/ from \in {"gate", "check", "acquire"} /\ to \notin Holding,
             Left(to) < Left(from)
      PROVE  P
  BY <1>3, GotoMoves
<1>4. CASE Gate(r) \/ CheckSession(r) \/ AcquireTimesOut(r)
  <2>1. PICK from \in {"gate", "check", "acquire"}, to \in {"check", "acquire", "done"} :
          Goto(r, from, to) /\ Left(to) < Left(from)
    BY <1>4 DEF Gate, CheckSession, AcquireTimesOut, Left
  <2> QED BY <1>3, <1>4, <2>1 DEF Gate, CheckSession, AcquireTimesOut, Holding
<1>5. CASE MarkUsed(r) \/ Prepare(r) \/ PrepareFails(r) \/ Lookup(r) \/ InsertRedeemAndBalance(r)
           \/ InsertRefused(r)
  <2>1. owner' = owner
    BY <1>5 DEF MarkUsed, Prepare, PrepareFails, Lookup, InsertRedeemAndBalance, InsertRefused
  <2>2. PICK from \in {"mark", "prepare", "lookup", "insert"},
             to \in {"prepare", "lookup", "insert", "undoRestore", "send", "release"} :
          Goto(r, from, to) /\ Left(to) < Left(from)
    BY <1>5 DEF MarkUsed, Prepare, PrepareFails, Lookup, InsertRedeemAndBalance, InsertRefused,
         Left
  <2> QED BY <1>3, <2>1, <2>2 DEF Holding
<1>6. CASE UndoRestore(r) \/ UndoMark(r) \/ Send(r) \/ SendReturns(r) \/ SendFails(r)
           \/ MarkFailed(r) \/ Restore(r) \/ SetPaymentID(r) \/ Confirm(r)
  <2>1. owner' = owner
    BY <1>6 DEF UndoRestore, UndoMark, Send, SendReturns, SendFails, MarkFailed, Restore,
         SetPaymentID, Confirm
  <2>2. PICK from \in {"undoRestore", "undoMark", "send", "sent", "failed", "restore", "setpid",
                       "confirm"},
             to \in {"undoMark", "sent", "failed", "restore", "setpid", "confirm", "release"} :
          Goto(r, from, to) /\ Left(to) < Left(from)
    BY <1>6 DEF UndoRestore, UndoMark, Send, SendReturns, SendFails, MarkFailed, Restore,
         SetPaymentID, Confirm, Left
  <2> QED BY <1>3, <2>1, <2>2 DEF Holding
<1> QED BY <1>1, <1>2, <1>4, <1>5, <1>6 DEF RequestStep

\* Nobody else moves a callback on: it arrives, or it is lost in a crash
\* (handlers.go:756, main.go:70-78).
LEMMA OthersLeave ==
    ASSUME TypeOK, [Next]_vars, \A r \in Requests : ~RequestStep(r)
    PROVE  \/ UNCHANGED <<pc, owner>>
           \/ UNCHANGED pc /\ owner = "cooldown" /\ owner' = Nobody
           \/ /\ UNCHANGED owner
              /\ \E r \in Requests : /\ pc[r] = "idle" /\ pc'[r] = "gate"
                                     /\ \A q \in Requests : q # r => pc'[q] = pc[q]
           \/ /\ owner' = Nobody
              /\ \A r \in Requests : pc'[r] = IF pc[r] \in {"idle", "done"} THEN pc[r] ELSE "lost"
<1> USE DEF dbVars, sdkVars, procVars, history
<1>1. CASE World
  <2>1. ASSUME NEW r \in Requests, NEW s \in Sessions, NEW msat \in Amounts, Arrive(r, s, msat)
        PROVE  /\ UNCHANGED owner
               /\ pc[r] = "idle" /\ pc'[r] = "gate"
               /\ \A q \in Requests : q # r => pc'[q] = pc[q]
    BY <2>1, GotoMoves DEF Arrive
  <2>2. ASSUME NEW s \in Sessions, SessionExpires(s) \/ \E v \in Vouchers : OpenSession(s, v)
        PROVE  UNCHANGED <<pc, owner>>
    BY <2>2 DEF SessionExpires, OpenSession
  <2>3. ASSUME NEW v \in Vouchers, VoucherExpires(v) \/ Edit(v) \/ TransferOut(v) \/ RefundExpired(v)
        PROVE  UNCHANGED <<pc, owner>>
    BY <2>3 DEF VoucherExpires, Edit, TransferOut, RefundExpired, Leaves
  <2>4. ASSUME NEW r \in Requests, PaymentSettles(r)
        PROVE  UNCHANGED <<pc, owner>>
    BY <2>4 DEF PaymentSettles
  <2> QED BY <1>1, <2>1, <2>2, <2>3, <2>4 DEF World
<1>2. CASE CooldownEnds
  BY <1>2 DEF CooldownEnds, Lock!Release
<1>3. CASE BootStep
  BY <1>3 DEF BootStep, BootQuery, BootConfirm, BootMarkFailed, BootRestore, BootServes,
       BootVisit, BootSkip, BootGoto
<1>4. CASE Crash
  BY <1>4 DEF Crash
<1>5. CASE UNCHANGED vars
  BY <1>5 DEF vars
<1> QED BY <1>1, <1>2, <1>3, <1>4, <1>5 DEF Next

\* The lock goes to one request at a time, and comes back with it (handlers.go:798-802).
LEMMA LockStep ==
    ASSUME TypeOK, LockIsHeld, [Next]_vars PROVE LockIsHeld'
<1>1. \A r \in Requests : r # Nobody /\ r # "cooldown"
  BY RedeemAssumption DEF Nobody
<1>2. ASSUME NEW r \in Requests, RequestStep(r) PROVE LockIsHeld'
  BY <1>1, <1>2, RequestMoves DEF LockIsHeld, Holding
<1>3. CASE \A r \in Requests : ~RequestStep(r)
  BY <1>1, <1>3, OthersLeave DEF LockIsHeld, Holding
<1> QED BY <1>2, <1>3

\* While one callback is between its acquireForWithdrawal and its release, no other is:
\* what it reads of a session, a voucher and its row it reads alone among callbacks; and
\* a callback that is through has given the lock back, whichever way out it took
\* (handlers.go:798-922).
THEOREM LockFollowsCallback == Spec => []LockIsHeld
<1>1. Init => LockIsHeld
  BY RedeemAssumption DEF Init, LockIsHeld, Holding, Nobody
<1>2. IInv /\ LockIsHeld /\ [Next]_vars => LockIsHeld'
  BY LockStep DEF IInv
<1> QED BY <1>1, <1>2, Invariance, PTL DEF Spec

\* The callback has no loop: every step of a request leaves it fewer to take, and
\* nothing else brings it back (handlers.go:756-922).
StepsRunOut ==
    \A r \in Requests : /\ RequestStep(r) => Left(pc'[r]) < Left(pc[r])
                        /\ pc'[r] = pc[r] \/ Left(pc'[r]) < Left(pc[r])

\* Whoever has the lock is at most nine steps of its own from giving it back, whatever
\* else happens in between (handlers.go:802-922).
THEOREM CallbackEnds == Spec => [][StepsRunOut]_vars
<1>1. ASSUME IInv, Next PROVE StepsRunOut
  <2>0. TypeOK
    BY <1>1 DEF IInv
  <2>1. ASSUME NEW r \in Requests, RequestStep(r) PROVE StepsRunOut
    <3>1. /\ Left(pc'[r]) < Left(pc[r])
          /\ \A q \in Requests : q # r => pc'[q] = pc[q]
      BY <2>0, <2>1, RequestMoves
    <3>2. ASSUME NEW q \in Requests, q # r PROVE ~RequestStep(q)
      <4> SUFFICES ASSUME RequestStep(q) PROVE FALSE
        OBVIOUS
      <4>1. pc'[r] = pc[r]
        BY <2>0, <3>2, RequestMoves
      <4>2. Left(pc[r]) \in Nat
        BY DEF Left
      <4> QED BY <3>1, <4>1, <4>2
    <3> QED BY <3>1, <3>2 DEF StepsRunOut
  <2>2. CASE \A r \in Requests : ~RequestStep(r)
    <3> SUFFICES ASSUME NEW r \in Requests
                 PROVE  pc'[r] = pc[r] \/ Left(pc'[r]) < Left(pc[r])
      BY <2>2 DEF StepsRunOut
    <3>1. \/ pc'[r] = pc[r]
          \/ pc[r] = "idle" /\ pc'[r] = "gate"
          \/ pc[r] \notin {"idle", "done"} /\ pc'[r] = "lost"
      BY <1>1, <2>0, <2>2, OthersLeave
    <3>2. pc[r] \in PC
      BY <2>0 DEF TypeOK
    <3> QED BY <3>1, <3>2 DEF Left, PC
  <2> QED BY <2>1, <2>2
<1>2. IInv /\ [Next]_vars => [StepsRunOut]_vars
  BY <1>1
<1> QED BY <1>2, Invariance, PTL DEF Spec

\* What a request needs for its next step, all of which is in the guards of its actions:
\* a server that serves, a place in the callback, and for the release the lock.  A wait
\* for the lock can end by its timeout, and whether a voucher can pay or not there is a
\* way on.
Ready(r) ==
    /\ Serving
    /\ pc[r] \in PC \ {"idle", "done", "lost"}
    /\ pc[r] = "release" => owner = r

\* It needs no less (handlers.go:756-922).
LEMMA StepsWhenReady ==
    ASSUME TypeOK, NEW r \in Requests, RequestStep(r)
    PROVE  Ready(r)
<1>1. /\ pc[r] \in Holding \cup {"gate", "check", "acquire"}
      /\ pc[r] = "release" => owner = r
  BY RequestMoves DEF Holding
<1>2. Serving
  BY DEF RequestStep, Gate, CheckSession, Acquire, AcquireTimesOut, MarkUsed, Prepare,
         PrepareFails, Lookup, InsertRedeemAndBalance, InsertRefused, UndoRestore, UndoMark,
         Send, SendReturns, SendFails, MarkFailed, Restore, SetPaymentID, Confirm, Release, Goto
<1> QED BY <1>1, <1>2 DEF Ready, Holding, PC

\* What HolderGoesOn has with ENABLED: whoever has the lock is in the callback of a server
\* that serves, before its release, and has all that its next step needs.  The lock is
\* never left with a request that has returned or was lost in a crash, nor with one that
\* must wait for start-up (handlers.go:798-802, main.go:60-78).
THEOREM HolderIsReady == Spec => [](\A r \in Requests : owner = r => Ready(r))
<1>1. IInv /\ LockIsHeld => \A r \in Requests : owner = r => Ready(r)
  <2> SUFFICES ASSUME IInv, LockIsHeld, NEW r \in Requests, owner = r
               PROVE  Ready(r)
    OBVIOUS
  <2>1. pc[r] \in Holding
    BY DEF LockIsHeld
  <2>2. Serving
    BY <2>1 DEF IInv, BootOK, Holding
  <2> QED BY <2>1, <2>2 DEF Ready, Holding, PC
<1> QED BY <1>1, Invariance, LockFollowsCallback, PTL

-----------------------------------------------------------------------------
(* Start-up                                                                *)

\* The steps that start-up has left at most: three for a row that it visits.
BootStepsLeft(where, rows, all) ==
    CASE where = "query"   -> 3 * all + 2
      [] where = "failed"  -> 3 * rows + 3
      [] where \in {"confirm", "restore"} -> 3 * rows + 2
      [] where = "next"    -> 3 * rows + 1
      [] OTHER             -> 0

BootLeft == BootStepsLeft(boot.pc, Cardinality(boot.todo), Cardinality(Requests))

\* The rows that start-up has yet to visit are so many, and one less after each visit.
LEMMA TodoSize ==
    ASSUME NEW todo \in SUBSET Requests
    PROVE  /\ Cardinality(todo) \in Nat /\ Cardinality(Requests) \in Nat
           /\ Cardinality(todo) <= Cardinality(Requests)
           /\ \A r \in todo : Cardinality(todo \ {r}) = Cardinality(todo) - 1
<1>1. IsFiniteSet(Requests) /\ IsFiniteSet(todo) /\ Cardinality(todo) <= Cardinality(Requests)
  BY RedeemAssumption, FS_Subset
<1> QED BY <1>1, FS_CardinalityType, FS_RemoveElement

\* Every step of start-up brings it nearer to serving, and nothing else does anything to
\* it but a crash (start-up.go:22-85).
LEMMA BootMoves ==
    ASSUME TypeOK, [Next]_vars
    PROVE  /\ BootStep => BootLeft' < BootLeft
           /\ BootStep \/ Crash \/ boot' = boot
<1>1. /\ boot \in [pc : BootPC, todo : SUBSET Requests, at : Requests \cup {"none"}]
      /\ boot.todo \in SUBSET Requests
  BY DEF TypeOK
<1>2. ASSUME NEW from, NEW to, NEW todo, NEW at, BootGoto(from, to, todo, at)
      PROVE  boot.pc = from /\ boot'.pc = to /\ boot'.todo = todo
  BY <1>2 DEF BootGoto
<1>3. ASSUME NEW rows \in Nat, NEW all \in Nat, rows <= all
      PROVE  /\ BootStepsLeft("next", rows, all) < BootStepsLeft("query", 0, all)
             /\ BootStepsLeft("next", rows, all) < BootStepsLeft("confirm", rows, all)
             /\ BootStepsLeft("next", rows, all) < BootStepsLeft("restore", rows, all)
             /\ BootStepsLeft("restore", rows, all) < BootStepsLeft("failed", rows, all)
             /\ BootStepsLeft("served", 0, all) < BootStepsLeft("next", rows, all)
             /\ \A to \in {"next", "confirm", "failed"} :
                   BootStepsLeft(to, rows, all) < BootStepsLeft("next", rows + 1, all)
  BY <1>3 DEF BootStepsLeft
<1>4. CASE BootQuery
  <2>1. PICK todo \in SUBSET Requests : boot.pc = "query" /\ boot'.pc = "next" /\ boot'.todo = todo
    BY <1>2, <1>4 DEF BootQuery
  <2>2. BootStepsLeft("query", 0, Cardinality(Requests)) = BootLeft
    BY <2>1 DEF BootLeft, BootStepsLeft
  <2> QED BY <1>3, <2>1, <2>2, TodoSize, <1>4 DEF BootLeft, BootStep
<1>5. CASE BootConfirm \/ BootMarkFailed \/ BootRestore
  <2>1. /\ boot'.todo = boot.todo
        /\ \/ boot.pc = "confirm" /\ boot'.pc = "next"
           \/ boot.pc = "failed" /\ boot'.pc = "restore"
           \/ boot.pc = "restore" /\ boot'.pc = "next"
    BY <1>2, <1>5 DEF BootConfirm, BootMarkFailed, BootRestore
  <2> QED BY <1>1, <1>3, <1>5, <2>1, TodoSize DEF BootLeft, BootStep
<1>6. CASE BootServes
  <2>1. boot.pc = "next" /\ boot'.pc = "served"
    BY <1>2, <1>6 DEF BootServes
  <2>2. BootLeft' = BootStepsLeft("served", 0, Cardinality(Requests))
    BY <2>1 DEF BootLeft, BootStepsLeft
  <2> QED BY <1>1, <1>3, <1>6, <2>1, <2>2, TodoSize DEF BootLeft, BootStep
<1>7. ASSUME NEW r \in Requests, BootVisit(r) \/ BootSkip(r)
      PROVE  BootLeft' < BootLeft
  <2>1. /\ r \in boot.todo /\ boot'.todo = boot.todo \ {r} /\ boot.pc = "next"
        /\ boot'.pc \in {"next", "confirm", "failed"}
    BY <1>2, <1>7 DEF BootVisit, BootSkip
  <2> DEFINE rows == Cardinality(boot'.todo)
  <2>2. rows \in Nat /\ rows <= Cardinality(Requests) /\ Cardinality(boot.todo) = rows + 1
        /\ Cardinality(Requests) \in Nat
    BY <1>1, <2>1, TodoSize
  <2> HIDE DEF rows
  <2>3. BootStepsLeft(boot'.pc, rows, Cardinality(Requests))
          < BootStepsLeft("next", rows + 1, Cardinality(Requests))
    BY <1>3, <2>1, <2>2
  <2> QED BY <2>1, <2>2, <2>3 DEF BootLeft, rows
<1>8. BootStep => BootLeft' < BootLeft
  BY <1>4, <1>5, <1>6, <1>7 DEF BootStep
<1>9. ASSUME NEW r \in Requests, RequestStep(r)
      PROVE  boot' = boot
  BY <1>9 DEF RequestStep, Gate, CheckSession, Acquire, AcquireTimesOut, MarkUsed, Prepare,
         PrepareFails, Lookup, InsertRedeemAndBalance, InsertRefused, UndoRestore, UndoMark,
         Send, SendReturns, SendFails, MarkFailed, Restore, SetPaymentID, Confirm, Release, Goto
<1>10. CASE World \/ CooldownEnds \/ UNCHANGED vars
  <2>1. World => boot' = boot
    BY DEF World, SessionExpires, OpenSession, VoucherExpires, Edit, TransferOut, RefundExpired,
           Leaves, PaymentSettles, Arrive, Goto
  <2>2. CooldownEnds \/ UNCHANGED vars => boot' = boot
    BY DEF CooldownEnds, vars
  <2> QED BY <1>8, <1>10, <2>1, <2>2
<1> QED BY <1>8, <1>9, <1>10 DEF Next

\* Start-up has an end, if nothing but its own steps is waited for: however many rows a
\* crash left pending, it has at most 3n + 2 steps for n of them, each brings it nearer to
\* serving, and only a crash begins it anew (start-up.go:22-85, main.go:42-67).
THEOREM StartupEnds ==
    Spec => [][ /\ BootStep => BootLeft' < BootLeft
                /\ BootStep \/ Crash \/ boot' = boot ]_vars
<1>1. IInv /\ [Next]_vars => /\ BootStep => BootLeft' < BootLeft
                             /\ BootStep \/ Crash \/ boot' = boot
  BY BootMoves DEF IInv
<1> QED BY <1>1, Invariance, PTL DEF Spec

\* With the one connection that openDB allows it does not get that far: once it has found
\* a pending row whose payment has completed or failed, it stays where it is until the
\* process is stopped, and no row that a crash left behind is ever resolved, nor its debit
\* given back, by any start-up (start-up.go:24-77, db.go:41).
THEOREM OneConnectionResolvesNothing ==
    Spec => [][ PoolSize = 1 =>
                  /\ boot.pc \in {"confirm", "failed"} => Crash \/ boot' = boot
                  /\ \A r \in Requests :
                       pc[r] = "lost" => row'[r] = row[r] /\ restored'[r] = restored[r] ]_vars
<1> DEFINE A == /\ boot.pc \in {"confirm", "failed"} => Crash \/ boot' = boot
                /\ \A r \in Requests :
                     pc[r] = "lost" => row'[r] = row[r] /\ restored'[r] = restored[r]
<1>1. ASSUME IInv, [Next]_vars, PoolSize = 1 PROVE A
  <2>1. TypeOK /\ ~Connection
    BY <1>1 DEF IInv, Connection
  <2>2. BootStep => boot.pc \in {"query", "next"} /\ row' = row /\ restored' = restored
    BY <2>1 DEF BootStep, BootQuery, BootConfirm, BootMarkFailed, BootRestore, BootServes,
                BootVisit, BootSkip, BootGoto, dbVars, history
  <2>3. boot.pc \in {"confirm", "failed"} => Crash \/ boot' = boot
    BY <1>1, <2>1, <2>2, BootMoves
  <2>4. CASE \E q \in Requests : RequestStep(q)
    <3>1. PICK q \in Requests : RequestStep(q)
      BY <2>4
    <3>2. \A r \in Requests : pc[r] = "lost" => r # q
      BY <2>1, <3>1, StepsWhenReady DEF Ready
    <3>3. \A r \in Requests : r # q => row'[r] = row[r] /\ restored'[r] = restored[r]
      BY <2>1, <3>1 DEF RequestStep, Gate, CheckSession, Acquire, AcquireTimesOut, MarkUsed,
         Prepare, PrepareFails, Lookup, InsertRedeemAndBalance, InsertRefused, UndoRestore,
         UndoMark, Send, SendReturns, SendFails, MarkFailed, Restore, SetPaymentID, Confirm,
         Release, GiveBack, SetStatus, dbVars, history, TypeOK
    <3> QED BY <2>3, <3>2, <3>3
  <2>5. CASE World \/ CooldownEnds \/ Crash \/ UNCHANGED vars
    <3>1. row' = row /\ restored' = restored
      BY <2>5 DEF World, SessionExpires, OpenSession, VoucherExpires, Edit, TransferOut, RefundExpired,
         Leaves, PaymentSettles, Arrive, CooldownEnds, Crash, dbVars, history, vars
    <3> QED BY <2>3, <3>1
  <2> QED BY <1>1, <2>2, <2>3, <2>4, <2>5 DEF Next
<1>2. IInv /\ [Next]_vars => (PoolSize = 1 => A)
  BY <1>1
<1> QED BY <1>2, Invariance, PTL DEF Spec
=============================================================================
