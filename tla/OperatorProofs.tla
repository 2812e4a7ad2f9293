----------------------------- MODULE OperatorProofs -----------------------------
(***************************************************************************)
(* The properties of OperatorWithdraw, for any number of withdrawals and   *)
(* of crashes, and any invoices, quotes, holds and equity.                 *)
(*   - Where a request is says what its row and its payment look like      *)
(*     (Phase), and start-up runs alone (BootAlone): types and RowFinal.   *)
(*   - What is not in the wallet has left it for a withdrawal (Balanced),  *)
(*     and a row that ought to say what left does so (ExactMatches):       *)
(*     BooksClose.                                                         *)
(*   - Without a crash, and as long as one request pays at a time, what it *)
(*     is about to take is within the equity but for less than a satoshi   *)
(*     (Fits): HoldsCovered.                                               *)
(*   - As long as nobody goes on without the lock, it is with the one that *)
(*     pays (HeldUnlessBroken): only a timeout makes two pay at once.      *)
(*   - Every request has an end and the lock is not left behind by one     *)
(*     (CallMoves, OwnerPays), and start-up has one too (BootMoves).       *)
(***************************************************************************)
EXTENDS OperatorWithdraw, Sums

\* A request between the row it inserts and the row it decides.
Withdrawing == {"key", "send", "sent", "failed", "confirm"}

\* What the place of a request says of its row and its payment.
PhaseOf(w) ==
    /\ pc[w] \notin Withdrawing \cup {"release", "done", "lost"} => row[w].st = "none"
    /\ pc[w] \in Withdrawing => row[w].st = "pending" /\ row[w].amount = asked[w]
    /\ pc[w] \in {"key", "send", "failed"} => payment[w].st = "none" /\ ~row[w].pid
    /\ pc[w] \in {"sent", "confirm"} => payment[w].st # "none"
    /\ pc[w] \in {"sent", "confirm"} /\ payment[w].spark => payment[w].fee = sparkFee[w]
    /\ pc[w] = "sent" => ~row[w].pid
    /\ pc[w] \in {"release", "done"} => row[w].st # "pending"
    /\ row[w].st = "none" => payment[w].st = "none"
    /\ row[w].st = "failed" /\ pc[w] # "lost" => payment[w].st = "none"
    /\ row[w].st = "failed" /\ row[w].pid => payment[w].st \in {"none", "failed"}
    /\ row[w].st = "confirmed" =>
          /\ payment[w].st # "none"
          /\ row[w].fee = payment[w].fee \/ (payment[w].spark /\ pc[w] = "lost")

Phase == \A w \in Withdrawals : PhaseOf(w)

\* Start-up runs alone, and visits the rows that are pending.
BootAlone ==
    /\ ~Serving => \A w \in Withdrawals : pc[w] \in {"idle", "done", "lost"}
    /\ \A w \in boot.todo : row[w].st = "pending"
    /\ Serving => boot.todo = {}

\* Type correctness is inductive with what the phases say.
PhaseInv == TypeOK /\ Phase /\ BootAlone

-----------------------------------------------------------------------------
\* The equity is an integer: confirmed withdrawals are.
LEMMA AvailableType ==
    ASSUME TypeOK
    PROVE  /\ [w \in Withdrawals |-> Withdrawn(w)] \in [Withdrawals -> Int]
           /\ Available \in Int
<1>1. \A w \in Withdrawals : Withdrawn(w) \in Int
  BY DEF TypeOK, Withdrawn
<1> DEFINE f == [w \in Withdrawals |-> Withdrawn(w)]
<1>2. f \in [Withdrawals -> Int]
  BY <1>1
<1>3. SumFunction(f) \in Int
  <2> HIDE DEF f
  <2> QED BY <1>2, OperatorAssumption, SumType
<1>4. earned \in Int
  BY DEF TypeOK
<1> QED BY <1>2, <1>3, <1>4 DEF Available

\* The cap is never below zero, whatever the wallet is short of (admin.go:230-233).
LEMMA CapType ==
    ASSUME TypeOK, NEW w \in Withdrawals
    PROVE  Cap(w) \in Nat
<1>1. Available \in Int /\ seen[w] \in Int /\ held \in Int
  BY AvailableType DEF TypeOK
<1> HIDE DEF Available
<1> QED BY <1>1 DEF Cap, withdrawCapMsat

\* Division rounds down.
LEMMA RoundsDown ==
    ASSUME NEW m \in Nat, NEW n \in Nat \ {0}
    PROVE  (m \div n) * n \in Nat /\ (m \div n) * n <= m /\ m < (m \div n) * n + n
OBVIOUS

\* An amount that fits is a natural number, and is not far below what is asked.
LEMMA FitsType ==
    ASSUME NEW requested \in Nat, NEW cap \in Nat, NEW quote \in Nat,
           WithdrawFits(WithdrawAmount(requested, cap, quote), cap, quote)
    PROVE  /\ WithdrawAmount(requested, cap, quote) \in Nat
           /\ requested # 0 => requested < WithdrawAmount(requested, cap, quote) + Sat
<1> DEFINE m == IF requested = 0 THEN cap - quote ELSE requested
<1>1. Sat \in Nat \ {0} /\ m \in Int
  BY MoneyAssumption
<1>2. satRound(m) >= Sat /\ WithdrawAmount(requested, cap, quote) = satRound(m)
  BY DEF WithdrawFits, WithdrawAmount
<1> HIDE DEF m
<1>3. m \in Nat
  BY <1>1, <1>2 DEF satRound
<1>4. satRound(m) = (m \div Sat) * Sat
  BY <1>3 DEF satRound, SatRound
<1>5. satRound(m) \in Nat /\ m < satRound(m) + Sat
  BY <1>1, <1>3, <1>4, RoundsDown
<1> QED BY <1>2, <1>5 DEF m

\* At first nobody withdraws.
LEMMA InitPhase == Init => PhaseInv
<1> SUFFICES ASSUME Init PROVE PhaseInv
  OBVIOUS
<1>1. TypeOK
  <2>1. /\ NoRow \in [st : {"none", "pending", "confirmed", "failed"},
                     amount : Nat, fee : Nat, keyed : BOOLEAN, pid : BOOLEAN]
        /\ NoPayment \in [st : {"none", "pending", "completed", "failed"},
                         fee : Nat, spark : BOOLEAN]
    BY DEF NoRow, NoPayment
  <2>2. "idle" \in PC
    BY DEF PC
  <2>3. row \in [Withdrawals -> [st : {"none", "pending", "confirmed", "failed"},
                     amount : Nat, fee : Nat, keyed : BOOLEAN, pid : BOOLEAN]]
        /\ payment \in [Withdrawals -> [st : {"none", "pending", "completed", "failed"},
                         fee : Nat, spark : BOOLEAN]]
    BY <2>1 DEF Init
  <2>4. boot \in [pc : {"list", "visit", "served"}, todo : SUBSET Withdrawals]
    BY DEF Init
  <2>5. /\ pc \in [Withdrawals -> PC]
        /\ seen \in [Withdrawals -> Nat] /\ asked \in [Withdrawals -> Nat]
        /\ sparkFee \in [Withdrawals -> Nat]
    BY <2>2 DEF Init
  <2>6. /\ wallet \in Nat /\ held \in 0 .. MaxHeld /\ earned \in 0 .. MaxEarned
        /\ crashes \in Nat /\ over \in Nat
    BY OperatorAssumption DEF Init
  <2>7. /\ owner \in Withdrawals \cup {"redeem", "nobody", "cooldown", "broken"}
        /\ redeeming \in BOOLEAN /\ shared \in BOOLEAN
    BY DEF Init
  <2> QED BY <2>3, <2>4, <2>5, <2>6, <2>7 DEF TypeOK
<1>2. Phase
  BY DEF Init, Phase, PhaseOf, NoRow, NoPayment, Withdrawing
<1>3. BootAlone
  BY DEF Init, BootAlone, Serving
<1> QED BY <1>1, <1>2, <1>3 DEF PhaseInv

\* The rest of the world touches no row, and of a payment its status only.
LEMMA WorldPhase ==
    ASSUME PhaseInv, World
    PROVE  PhaseInv'
<1> USE DEF books, sdk, proc, PhaseInv, TypeOK, Phase, PhaseOf, BootAlone, Serving
<1>1. CASE Fund
  BY <1>1, OperatorAssumption DEF Fund
<1>2. CASE Earn
  BY <1>2, OperatorAssumption DEF Earn
<1>3. CASE RedeemAcquires
  BY <1>3, Zenon DEF RedeemAcquires, Lock!Acquire
<1>4. CASE RedeemPays
  <2>1. owner' \in {owner, "cooldown"}
    BY <1>4 DEF RedeemPays, Lock!Pay
  <2>2. held' \in 0 .. MaxHeld /\ wallet' \in Nat
    BY <1>4, OperatorAssumption DEF RedeemPays
  <2> QED BY <1>4, <2>1, <2>2 DEF RedeemPays
<1>5. CASE CooldownEnds
  BY <1>5 DEF CooldownEnds, Lock!Release
<1>6. ASSUME NEW w \in Withdrawals, PaymentSettles(w) PROVE PhaseInv'
  <2>1. UNCHANGED <<books, proc, owner, redeeming, boot, crashes, shared, over>>
    BY <1>6 DEF PaymentSettles
  <2>2. PICK st \in {"completed", "failed"} : payment' = [payment EXCEPT ![w].st = st]
    BY <1>6 DEF PaymentSettles
  <2>3. /\ payment[w].st = "pending"
        /\ \A u \in Withdrawals : /\ payment'[u].fee = payment[u].fee
                                  /\ payment'[u].spark = payment[u].spark
                                  /\ u # w => payment'[u] = payment[u]
    BY <1>6, <2>2 DEF PaymentSettles
  <2>4. payment'[w].st = st
    BY <2>2
  <2>5. ASSUME NEW u \in Withdrawals PROVE PhaseOf(u)'
    BY <2>1, <2>2, <2>3, <2>4 DEF Withdrawing
  <2>6. wallet' \in Nat
    BY <1>6 DEF PaymentSettles
  <2>7. payment' \in [Withdrawals -> [st : {"none", "pending", "completed", "failed"},
                                     fee : Nat, spark : BOOLEAN]]
    BY <2>2
  <2>8. TypeOK'
    BY <2>1, <2>6, <2>7
  <2> QED BY <2>1, <2>5, <2>8
<1> QED BY <1>1, <1>2, <1>3, <1>4, <1>5, <1>6 DEF World

\* What the steps of a request do to its place.
LEMMA GotoType ==
    ASSUME PhaseInv, NEW w \in Withdrawals, NEW from, NEW to \in PC, Goto(w, from, to)
    PROVE  /\ pc' \in [Withdrawals -> PC]
           /\ pc[w] = from /\ pc'[w] = to
           /\ \A u \in Withdrawals \ {w} : pc'[u] = pc[u]
           /\ Serving /\ boot' = boot /\ boot.todo = {} /\ crashes' = crashes
           /\ redeeming' = redeeming
BY DEF Goto, PhaseInv, TypeOK, BootAlone, Serving

\* A step of a request says something new of that request only.
LEMMA RequestPhase ==
    ASSUME PhaseInv, NEW w \in Withdrawals, NEW from, NEW to \in PC, Goto(w, from, to),
           \A u \in Withdrawals \ {w} : row'[u] = row[u] /\ payment'[u] = payment[u]
                                          /\ asked'[u] = asked[u]
                                          /\ sparkFee'[u] = sparkFee[u],
           PhaseOf(w)'
    PROVE  Phase' /\ BootAlone'
<1>1. /\ \A u \in Withdrawals \ {w} : pc'[u] = pc[u]
      /\ Serving /\ boot' = boot /\ boot.todo = {}
  BY GotoType
<1>2. ASSUME NEW u \in Withdrawals PROVE PhaseOf(u)'
  BY <1>1 DEF PhaseInv, Phase, PhaseOf
<1> QED BY <1>1, <1>2 DEF Phase, BootAlone, Serving

\* The steps of a request that change neither its row nor its payment.
Quiet(w) ==
    \/ Arrive(w) \/ Gate(w) \/ Acquire(w) \/ EnterAnyway(w) \/ ParseFails(w)
    \/ ReadWallet(w) \/ ReadBooks(w) \/ PrepareBolt11(w) \/ PrepareLnurl(w)
    \/ PrepareFails(w) \/ SendFails(w) \/ Release(w)

\* They leave row, payment and money as they are; and of the places, only that of the
\* request changes, outside the part where it has a pending row.
LEMMA QuietSteps ==
    ASSUME PhaseInv, NEW w \in Withdrawals, Quiet(w)
    PROVE  /\ UNCHANGED <<books, sdk>>
           /\ owner' \in Withdrawals \cup {"redeem", "nobody", "cooldown", "broken"}
           /\ shared' \in BOOLEAN
           /\ seen' \in [Withdrawals -> Nat]
           /\ asked' \in [Withdrawals -> Nat]
           /\ sparkFee' \in [Withdrawals -> Nat]
           /\ over' = over
           /\ \A u \in Withdrawals \ {w} :
                asked'[u] = asked[u] /\ seen'[u] = seen[u] /\ sparkFee'[u] = sparkFee[u]
           /\ \E from, to \in PC : Goto(w, from, to) /\
                \/ /\ from \notin Withdrawing /\ to \notin Withdrawing
                   /\ from \notin {"done", "lost"} /\ to # "lost"
                   /\ from = "release" => to = "done"
                \/ from = "send" /\ to = "failed" /\ UNCHANGED asked
<1> USE DEF PC, Withdrawing
<1>1. CASE Arrive(w)
  <2>1. Goto(w, "idle", "gate")
    BY <1>1 DEF Arrive
  <2> QED BY <1>1, <2>1 DEF Arrive, PhaseInv, TypeOK, books, sdk
<1>2. CASE Gate(w)
  <2>1. Goto(w, "gate", "acquire") \/ Goto(w, "gate", "done")
    BY <1>2 DEF Gate
  <2> QED BY <1>2, <2>1 DEF Gate, PhaseInv, TypeOK, books, sdk
<1>3. CASE Acquire(w) \/ EnterAnyway(w)
  <2>1. Goto(w, "acquire", "wallet")
    BY <1>3 DEF Acquire, EnterAnyway, Enter
  <2>2. owner' \in {w, "broken"} /\ shared' \in BOOLEAN /\ UNCHANGED <<seen, asked, sparkFee, over>>
    BY <1>3 DEF Acquire, EnterAnyway, Enter, Lock!Acquire, PhaseInv, TypeOK
  <2> QED BY <1>3, <2>1, <2>2 DEF Acquire, EnterAnyway, Enter, PhaseInv, TypeOK, books, sdk
<1>4. CASE ParseFails(w)
  <2>1. Goto(w, "wallet", "release")
    BY <1>4 DEF ParseFails
  <2> QED BY <1>4, <2>1 DEF ParseFails, PhaseInv, TypeOK, books, sdk
<1>5. CASE ReadWallet(w)
  <2>1. Goto(w, "wallet", "cap")
    BY <1>5 DEF ReadWallet
  <2> QED BY <1>5, <2>1 DEF ReadWallet, PhaseInv, TypeOK, books, sdk
<1>6. CASE ReadBooks(w)
  <2>1. Goto(w, "cap", "release") \/ Goto(w, "cap", "bolt11") \/ Goto(w, "cap", "lnurl")
    BY <1>6 DEF ReadBooks
  <2>2. Cap(w) \in Nat
    BY CapType DEF PhaseInv
  <2> QED BY <1>6, <2>1, <2>2 DEF ReadBooks, PhaseInv, TypeOK, books, sdk
<1>7. CASE PrepareBolt11(w)
  <2>1. PICK amount \in Invoices, quote \in Quotes, spark \in Quotes :
           /\ Goto(w, "bolt11", "insert")
           /\ WithdrawFits(WithdrawAmount(amount, seen[w], quote), seen[w], quote)
           /\ Ask(w, amount, quote, spark)
    BY <1>7 DEF PrepareBolt11
  <2>2. amount \in Nat /\ quote \in Nat /\ spark \in Nat
    BY OperatorAssumption
  <2> QED BY <2>1, <2>2 DEF Ask, PhaseInv, TypeOK, books, sdk
<1>8. CASE PrepareLnurl(w)
  <2>1. PICK requested \in Requests, estimate \in Quotes, quote \in Quotes :
           LET amount == WithdrawAmount(requested, seen[w], estimate)
           IN  /\ Goto(w, "lnurl", "insert")
               /\ WithdrawFits(amount, seen[w], estimate)
               /\ Ask(w, amount, quote, quote)
    BY <1>8 DEF PrepareLnurl
  <2> DEFINE amount == WithdrawAmount(requested, seen[w], estimate)
  <2>2. requested \in Nat /\ estimate \in Nat /\ quote \in Nat /\ seen[w] \in Nat
    BY OperatorAssumption DEF PhaseInv, TypeOK
  <2>3. amount \in Nat
    BY <2>1, <2>2, FitsType
  <2>4. Goto(w, "lnurl", "insert") /\ Ask(w, amount, quote, quote)
    BY <2>1
  <2> HIDE DEF amount
  <2> QED BY <2>2, <2>3, <2>4 DEF Ask, PhaseInv, TypeOK, books, sdk
<1>9. CASE PrepareFails(w)
  <2>1. Goto(w, "bolt11", "release") \/ Goto(w, "lnurl", "release")
    BY <1>9 DEF PrepareFails
  <2> QED BY <1>9, <2>1 DEF PrepareFails, PhaseInv, TypeOK, books, sdk
<1>10. CASE SendFails(w)
  <2>1. Goto(w, "send", "failed")
    BY <1>10 DEF SendFails
  <2> QED BY <1>10, <2>1 DEF SendFails, PhaseInv, TypeOK, books, sdk
<1>11. CASE Release(w)
  <2>1. Goto(w, "release", "done")
    BY <1>11 DEF Release
  <2>2. owner' \in {owner, "cooldown"}
    BY <1>11 DEF Release, Lock!Pay
  <2> QED BY <1>11, <2>1, <2>2 DEF Release, PhaseInv, TypeOK, books, sdk
<1> QED BY <1>1, <1>2, <1>3, <1>4, <1>5, <1>6, <1>7, <1>8, <1>9, <1>10, <1>11 DEF Quiet

\* The steps before the row is inserted, the error of a send, and the release.
LEMMA QuietPhase ==
    ASSUME PhaseInv, NEW w \in Withdrawals, Quiet(w)
    PROVE  PhaseInv'
<1>1. PICK from \in PC, to \in PC : Goto(w, from, to) /\
         \/ /\ from \notin Withdrawing /\ to \notin Withdrawing
            /\ from \notin {"done", "lost"} /\ to # "lost"
            /\ from = "release" => to = "done"
         \/ from = "send" /\ to = "failed" /\ UNCHANGED asked
  BY QuietSteps
<1>2. UNCHANGED <<books, sdk>> /\ \A u \in Withdrawals \ {w} :
         asked'[u] = asked[u] /\ sparkFee'[u] = sparkFee[u]
  BY QuietSteps
<1>3. pc[w] = from /\ pc'[w] = to /\ pc' \in [Withdrawals -> PC]
      /\ boot' = boot /\ crashes' = crashes /\ redeeming' = redeeming
  BY <1>1, GotoType
<1>4. PhaseOf(w)'
  BY <1>1, <1>2, <1>3 DEF PhaseInv, Phase, PhaseOf, Withdrawing, books, sdk
<1>5. Phase' /\ BootAlone'
  BY <1>1, <1>2, <1>4, RequestPhase DEF books, sdk
<1>6. TypeOK'
  BY <1>2, <1>3, QuietSteps DEF PhaseInv, TypeOK, books, sdk
<1> QED BY <1>5, <1>6 DEF PhaseInv

\* A row is written for one request.
LEMMA SetRowType ==
    ASSUME PhaseInv, NEW w \in Withdrawals,
           NEW value \in [st : {"none", "pending", "confirmed", "failed"},
                          amount : Nat, fee : Nat, keyed : BOOLEAN, pid : BOOLEAN],
           SetRow(w, value)
    PROVE  /\ row' \in [Withdrawals -> [st : {"none", "pending", "confirmed", "failed"},
                                        amount : Nat, fee : Nat, keyed : BOOLEAN, pid : BOOLEAN]]
           /\ row'[w] = value
           /\ \A u \in Withdrawals \ {w} : row'[u] = row[u]
           /\ held' = held /\ earned' = earned
BY DEF SetRow, PhaseInv, TypeOK

\* The steps of a request that write its row.
Writes(w) ==
    InsertOperatorTx(w) \/ SetIdempotencyKey(w) \/ MarkFailed(w) \/ SetPaymentID(w) \/ Confirm(w)

\* The rows of operator_txs, as TypeOK has them.
RowType == [st : {"none", "pending", "confirmed", "failed"},
            amount : Nat, fee : Nat, keyed : BOOLEAN, pid : BOOLEAN]

\* What they write: a pending row, with all of the amount; or the decision.
LEMMA WriteSteps ==
    ASSUME PhaseInv, NEW w \in Withdrawals, Writes(w)
    PROVE  /\ UNCHANGED <<sdk, seen, asked, sparkFee, owner, shared, over>>
           /\ \E from, to \in PC, value \in RowType :
                /\ Goto(w, from, to) /\ SetRow(w, value)
                /\ \/ /\ from = "insert" /\ to = "key" /\ value.st = "pending"
                      /\ value.amount = asked[w] /\ ~value.pid
                   \/ /\ <<from, to>> \in {<<"key", "send">>, <<"sent", "confirm">>}
                      /\ value.st = row[w].st /\ value.amount = row[w].amount
                      /\ value.fee = row[w].fee
                      /\ from = "key" => value.pid = row[w].pid
                   \/ /\ from = "failed" /\ to = "release" /\ value.st = "failed"
                      /\ value.pid = row[w].pid
                   \/ /\ from = "confirm" /\ to = "release" /\ value.st = "confirmed"
                      /\ value.amount = row[w].amount /\ value.fee = payment[w].fee
<1> USE DEF PC, RowType, PhaseInv, TypeOK
<1>1. CASE InsertOperatorTx(w)
  <2> DEFINE value == [NoRow EXCEPT !.st = "pending", !.amount = asked[w]]
  <2>1. Goto(w, "insert", "key") /\ SetRow(w, value)
    BY <1>1 DEF InsertOperatorTx
  <2>2. value \in RowType /\ value.st = "pending" /\ value.amount = asked[w] /\ ~value.pid
    BY DEF NoRow
  <2> HIDE DEF value
  <2> QED BY <1>1, <2>1, <2>2 DEF InsertOperatorTx
<1>2. CASE SetIdempotencyKey(w)
  <2> DEFINE value == [row[w] EXCEPT !.keyed = TRUE]
  <2>1. Goto(w, "key", "send") /\ SetRow(w, value)
    BY <1>2 DEF SetIdempotencyKey
  <2>2. /\ value \in RowType /\ value.st = row[w].st /\ value.amount = row[w].amount
        /\ value.fee = row[w].fee /\ value.pid = row[w].pid
    BY ZenonT(60)
  <2> HIDE DEF value
  <2> QED BY <1>2, <2>1, <2>2 DEF SetIdempotencyKey
<1>3. CASE MarkFailed(w)
  <2> DEFINE value == [row[w] EXCEPT !.st = "failed"]
  <2>1. Goto(w, "failed", "release") /\ SetRow(w, value)
    BY <1>3 DEF MarkFailed
  <2>2. value \in RowType /\ value.st = "failed" /\ value.pid = row[w].pid
    OBVIOUS
  <2> HIDE DEF value
  <2> QED BY <1>3, <2>1, <2>2 DEF MarkFailed
<1>4. CASE SetPaymentID(w)
  <2> DEFINE value == [row[w] EXCEPT !.pid = TRUE]
  <2>1. Goto(w, "sent", "confirm") /\ SetRow(w, value)
    BY <1>4 DEF SetPaymentID
  <2>2. /\ value \in RowType /\ value.st = row[w].st /\ value.amount = row[w].amount
        /\ value.fee = row[w].fee
    BY ZenonT(60)
  <2> HIDE DEF value
  <2> QED BY <1>4, <2>1, <2>2 DEF SetPaymentID
<1>5. CASE Confirm(w)
  <2> DEFINE value == [row[w] EXCEPT !.st = "confirmed", !.fee = payment[w].fee]
  <2>1. pc[w] = "confirm"
    BY <1>5 DEF Confirm, Goto
  <2>2. row[w].st = "pending"
    BY <2>1 DEF Phase, PhaseOf, Withdrawing
  <2>3. Goto(w, "confirm", "release") /\ SetRow(w, value)
    <3>1. payment[w].spark => payment[w].fee = sparkFee[w]
      BY <2>1 DEF Phase, PhaseOf
    <3>2. ActualFee(w) = payment[w].fee
      BY <3>1 DEF ActualFee
    <3> QED BY <1>5, <2>2, <3>2 DEF Confirm, Confirmed
  <2>4. /\ value \in RowType /\ value.st = "confirmed" /\ value.amount = row[w].amount
        /\ value.fee = payment[w].fee
    BY ZenonT(60)
  <2> HIDE DEF value
  <2> QED BY <1>5, <2>3, <2>4 DEF Confirm
<1> QED BY <1>1, <1>2, <1>3, <1>4, <1>5 DEF Writes

\* The steps that write the row.
LEMMA WritePhase ==
    ASSUME PhaseInv, NEW w \in Withdrawals, Writes(w)
    PROVE  PhaseInv'
<1>1. UNCHANGED <<sdk, seen, asked, sparkFee, owner, shared, over>>
  BY WriteSteps
<1>2. PICK from \in PC, to \in PC, value \in RowType :
        /\ Goto(w, from, to) /\ SetRow(w, value)
        /\ \/ /\ from = "insert" /\ to = "key" /\ value.st = "pending"
              /\ value.amount = asked[w] /\ ~value.pid
           \/ /\ <<from, to>> \in {<<"key", "send">>, <<"sent", "confirm">>}
              /\ value.st = row[w].st /\ value.amount = row[w].amount
              /\ value.fee = row[w].fee
              /\ from = "key" => value.pid = row[w].pid
           \/ /\ from = "failed" /\ to = "release" /\ value.st = "failed"
              /\ value.pid = row[w].pid
           \/ /\ from = "confirm" /\ to = "release" /\ value.st = "confirmed"
              /\ value.amount = row[w].amount /\ value.fee = payment[w].fee
  BY WriteSteps
<1>3. pc[w] = from /\ pc'[w] = to /\ pc' \in [Withdrawals -> PC]
      /\ boot' = boot /\ crashes' = crashes /\ redeeming' = redeeming
  BY <1>2, GotoType
<1>4. /\ row' \in [Withdrawals -> RowType]
      /\ row'[w] = value /\ held' = held /\ earned' = earned
      /\ \A u \in Withdrawals \ {w} : row'[u] = row[u]
  BY <1>2, SetRowType DEF RowType
<1>5. PhaseOf(w)'
  <2>1. PhaseOf(w)
    BY DEF PhaseInv, Phase
  <2>2. payment'[w] = payment[w] /\ asked'[w] = asked[w] /\ sparkFee'[w] = sparkFee[w]
    BY <1>1 DEF sdk
  <2> QED BY <1>2, <1>3, <1>4, <2>1, <2>2 DEF PhaseOf, Withdrawing
<1>6. Phase' /\ BootAlone'
  BY <1>1, <1>2, <1>4, <1>5, RequestPhase DEF sdk
<1>7. TypeOK'
  BY <1>1, <1>3, <1>4 DEF PhaseInv, TypeOK, RowType, sdk
<1> QED BY <1>6, <1>7 DEF PhaseInv

\* The payment is made.
LEMMA SendPhase ==
    ASSUME PhaseInv, NEW w \in Withdrawals, Send(w)
    PROVE  PhaseInv'
<1>1. PICK st \in {"pending", "completed"}, spark \in BOOLEAN, fee \in Quotes :
        /\ Goto(w, "send", "sent")
        /\ spark => fee = sparkFee[w]
        /\ wallet >= asked[w] + fee
        /\ payment' = [payment EXCEPT ![w] = [st |-> st, fee |-> fee, spark |-> spark]]
        /\ wallet' = wallet - asked[w] - fee
        /\ over' = over + IF fee > seen[w] THEN fee - seen[w] ELSE 0
        /\ UNCHANGED <<books, seen, asked, sparkFee, owner, shared>>
  BY DEF Send
<1>0. fee \in Nat
  BY OperatorAssumption
<1>2. "sent" \in PC
  BY DEF PC
<1>3. pc[w] = "send" /\ pc'[w] = "sent" /\ pc' \in [Withdrawals -> PC]
      /\ boot' = boot /\ crashes' = crashes /\ redeeming' = redeeming
  BY <1>1, <1>2, GotoType
<1>4. PhaseOf(w)'
  BY <1>1, <1>3 DEF PhaseInv, TypeOK, Phase, PhaseOf, Withdrawing, books
<1>5. Phase' /\ BootAlone'
  BY <1>1, <1>2, <1>4, RequestPhase DEF books, PhaseInv, TypeOK
<1>6. TypeOK'
  <2>1. wallet' \in Nat /\ over' \in Nat
    BY <1>0, <1>1 DEF PhaseInv, TypeOK
  <2>2. payment' \in [Withdrawals -> [st : {"none", "pending", "completed", "failed"},
                                     fee : Nat, spark : BOOLEAN]]
    BY <1>0, <1>1 DEF PhaseInv, TypeOK
  <2> QED BY <1>1, <1>3, <2>1, <2>2 DEF PhaseInv, TypeOK, books
<1> QED BY <1>5, <1>6 DEF PhaseInv

\* A crash ends every request that is under way.
LEMMA CrashPhase ==
    ASSUME PhaseInv, Crash
    PROVE  PhaseInv'
<1>1. /\ \A w \in Withdrawals : (pc'[w] = pc[w] /\ pc[w] \in {"idle", "done"}) \/ pc'[w] = "lost"
      /\ pc' \in [Withdrawals -> PC] /\ boot' = [pc |-> "list", todo |-> {}]
      /\ seen' \in [Withdrawals -> Nat] /\ owner' = "nobody" /\ crashes' \in Nat
      /\ sparkFee' \in [Withdrawals -> Nat] /\ redeeming' = FALSE
      /\ UNCHANGED <<books, sdk, asked, shared, over>>
  BY DEF Crash, PhaseInv, TypeOK, PC
<1>2. TypeOK'
  BY <1>1 DEF PhaseInv, TypeOK, books, sdk
<1>3. BootAlone'
  BY <1>1 DEF BootAlone, Serving
<1>4. ASSUME NEW w \in Withdrawals PROVE PhaseOf(w)'
  BY <1>1 DEF PhaseInv, Phase, PhaseOf, Withdrawing, books, sdk
<1> QED BY <1>2, <1>3, <1>4 DEF PhaseInv, Phase

\* Start-up decides a row that is pending, whose request is no more.
LEMMA VisitSteps ==
    ASSUME PhaseInv, NEW w \in Withdrawals,
           BootFailsUnsent(w) \/ BootConfirms(w) \/ BootFails(w) \/ BootSkips(w)
    PROVE  \E value \in RowType :
             /\ BootVisit(w, value)
             /\ row[w].st = "pending" /\ pc[w] = "lost" /\ ~Serving
             /\ value.amount = row[w].amount /\ value.pid = row[w].pid
             /\ \/ value = row[w]
                \/ value.st = "failed" /\ (value.pid => payment[w].st = "failed")
                \/ /\ value.st = "confirmed" /\ payment[w].st = "completed"
                   /\ value.fee = payment[w].fee \/ payment[w].spark
<1> USE DEF RowType, PhaseInv, TypeOK
<1>1. row[w].st = "pending" /\ pc[w] = "lost" /\ ~Serving
  <2>1. boot.pc = "visit" /\ w \in boot.todo
    BY DEF BootFailsUnsent, BootConfirms, BootFails, BootSkips, BootVisit
  <2> QED BY <2>1 DEF BootAlone, Serving, Phase, PhaseOf, Withdrawing
<1>2. CASE BootFailsUnsent(w)
  <2> DEFINE value == [row[w] EXCEPT !.st = "failed"]
  <2>1. BootVisit(w, value) /\ ~row[w].pid
    BY <1>2 DEF BootFailsUnsent
  <2>2. value \in RowType /\ value.st = "failed" /\ ~value.pid /\ value.amount = row[w].amount
    BY <2>1
  <2> HIDE DEF value
  <2> QED BY <1>1, <2>1, <2>2
<1>3. CASE BootConfirms(w)
  <2> DEFINE fee == IF payment[w].spark THEN 0 ELSE payment[w].fee
             value == [row[w] EXCEPT !.st = "confirmed", !.fee = fee]
  <2>1. BootVisit(w, value) /\ payment[w].st = "completed"
    BY <1>1, <1>3 DEF BootConfirms, Confirmed
  <2>2. /\ value \in RowType /\ value.st = "confirmed" /\ value.fee = fee
        /\ value.amount = row[w].amount /\ value.pid = row[w].pid
    BY ZenonT(60)
  <2> HIDE DEF value
  <2> QED BY <1>1, <2>1, <2>2
<1>4. CASE BootFails(w)
  <2> DEFINE value == [row[w] EXCEPT !.st = "failed"]
  <2>1. BootVisit(w, value) /\ payment[w].st = "failed"
    BY <1>4 DEF BootFails
  <2>2. value \in RowType /\ value.st = "failed" /\ value.amount = row[w].amount
        /\ value.pid = row[w].pid
    BY <2>1
  <2> HIDE DEF value
  <2> QED BY <1>1, <2>1, <2>2
<1>5. CASE BootSkips(w)
  <2>1. BootVisit(w, row[w])
    BY <1>5 DEF BootSkips
  <2> QED BY <1>1, <2>1
<1> QED BY <1>2, <1>3, <1>4, <1>5

\* Start-up decides pending rows of requests that are no more.
LEMMA StartUpPhase ==
    ASSUME PhaseInv, StartUp
    PROVE  PhaseInv'
<1>1. CASE BootList
  BY <1>1 DEF BootList, PhaseInv, TypeOK, Phase, PhaseOf, BootAlone, Serving, books, sdk, proc
<1>2. CASE BootServes
  BY <1>2 DEF BootServes, PhaseInv, TypeOK, Phase, PhaseOf, BootAlone, Serving, books, sdk, proc
<1>3. ASSUME NEW w \in Withdrawals,
             BootFailsUnsent(w) \/ BootConfirms(w) \/ BootFails(w) \/ BootSkips(w)
      PROVE  PhaseInv'
  <2>1. PICK value \in RowType :
             /\ BootVisit(w, value)
             /\ row[w].st = "pending" /\ pc[w] = "lost" /\ ~Serving
             /\ value.amount = row[w].amount /\ value.pid = row[w].pid
             /\ \/ value = row[w]
                \/ value.st = "failed" /\ (value.pid => payment[w].st = "failed")
                \/ /\ value.st = "confirmed" /\ payment[w].st = "completed"
                   /\ value.fee = payment[w].fee \/ payment[w].spark
    BY <1>3, VisitSteps
  <2>2. /\ row' \in [Withdrawals -> RowType]
        /\ row'[w] = value /\ held' = held /\ earned' = earned
        /\ \A u \in Withdrawals \ {w} : row'[u] = row[u]
    BY <2>1, SetRowType DEF BootVisit, RowType
  <2>3. UNCHANGED <<sdk, proc, owner, redeeming, crashes, shared, over>>
        /\ boot.pc = "visit" /\ w \in boot.todo /\ boot' = [boot EXCEPT !.todo = @ \ {w}]
    BY <2>1 DEF BootVisit
  <2>4. boot'.pc = "visit" /\ boot'.todo = boot.todo \ {w}
        /\ boot' \in [pc : {"list", "visit", "served"}, todo : SUBSET Withdrawals]
    BY <2>3 DEF PhaseInv, TypeOK
  <2>5. TypeOK'
    BY <2>2, <2>3, <2>4 DEF PhaseInv, TypeOK, RowType, sdk, proc
  <2>6. BootAlone'
    BY <2>1, <2>2, <2>3, <2>4 DEF PhaseInv, BootAlone, Serving, proc
  <2>7. ASSUME NEW u \in Withdrawals PROVE PhaseOf(u)'
    <3>1. PhaseOf(u)
      BY DEF PhaseInv, Phase
    <3>2. CASE u = w
      BY <2>1, <2>2, <2>3, <3>1, <3>2 DEF PhaseOf, Withdrawing, sdk, proc
    <3>3. CASE u # w
      BY <2>2, <2>3, <3>1, <3>3 DEF PhaseOf, Withdrawing, sdk, proc
    <3> QED BY <3>2, <3>3
  <2> QED BY <2>5, <2>6, <2>7 DEF PhaseInv, Phase
<1> QED BY <1>1, <1>2, <1>3 DEF StartUp

\* Every step keeps it.
LEMMA StepPhase == PhaseInv /\ [Next]_vars => PhaseInv'
<1> SUFFICES ASSUME PhaseInv, [Next]_vars PROVE PhaseInv'
  OBVIOUS
<1>1. CASE World
  BY <1>1, WorldPhase
<1>2. ASSUME NEW w \in Withdrawals, Withdraw(w) PROVE PhaseInv'
  BY <1>2, QuietPhase, WritePhase, SendPhase DEF Withdraw, Quiet, Writes
<1>3. CASE StartUp
  BY <1>3, StartUpPhase
<1>4. CASE Crash
  BY <1>4, CrashPhase
<1>5. CASE UNCHANGED vars
  BY <1>5 DEF vars, books, sdk, proc, PhaseInv, TypeOK, Phase, PhaseOf, BootAlone, Serving
<1> QED BY <1>1, <1>2, <1>3, <1>4, <1>5 DEF Next

\* Every variable keeps its type: in particular the cap of a withdrawal is never negative,
\* and the wallet never below zero (admin.go:218-235).
THEOREM TypeCorrect == Spec => []TypeOK
<1>1. PhaseInv => TypeOK
  BY DEF PhaseInv
<1> QED BY <1>1, InitPhase, StepPhase, PTL DEF Spec

-----------------------------------------------------------------------------
\* A row that is decided is not written again, by any step.
LEMMA RowStep == PhaseInv /\ [Next]_vars =>
    \A w \in Withdrawals : row[w].st \in {"confirmed", "failed"} => row'[w] = row[w]
<1> SUFFICES ASSUME PhaseInv, [Next]_vars, NEW w \in Withdrawals,
                    row[w].st \in {"confirmed", "failed"}
             PROVE  row'[w] = row[w]
  OBVIOUS
<1>1. CASE World
  BY <1>1 DEF World, Fund, Earn, RedeemAcquires, RedeemPays, PaymentSettles, CooldownEnds, books
<1>2. ASSUME NEW u \in Withdrawals, Withdraw(u) PROVE row'[w] = row[w]
  <2>1. CASE Quiet(u)
    BY <2>1, QuietSteps DEF books
  <2>2. CASE Writes(u)
    <3>1. PICK from \in {"insert", "key", "sent", "failed", "confirm"}, to \in PC,
               value \in RowType : Goto(u, from, to) /\ SetRow(u, value)
      <4>1. PICK from \in PC, to \in PC, value \in RowType :
              /\ Goto(u, from, to) /\ SetRow(u, value)
              /\ from \in {"insert", "key", "sent", "failed", "confirm"}
        BY <2>2, WriteSteps
      <4> QED BY <4>1
    <3>2. pc[u] = from
      BY <3>1 DEF Goto
    <3>3. row[u].st \in {"none", "pending"}
      BY <3>1, <3>2 DEF PhaseInv, Phase, PhaseOf, Withdrawing
    <3>4. \A q \in Withdrawals \ {u} : row'[q] = row[q]
      BY <3>1, SetRowType DEF RowType
    <3> QED BY <3>3, <3>4
  <2>3. CASE Send(u)
    BY <2>3 DEF Send, books
  <2> QED BY <1>2, <2>1, <2>2, <2>3 DEF Withdraw, Quiet, Writes
<1>3. CASE StartUp
  <2>1. CASE BootList \/ BootServes
    BY <2>1 DEF BootList, BootServes, books
  <2>2. ASSUME NEW u \in Withdrawals,
               BootFailsUnsent(u) \/ BootConfirms(u) \/ BootFails(u) \/ BootSkips(u)
        PROVE  row'[w] = row[w]
    <3>1. PICK value \in RowType : BootVisit(u, value) /\ row[u].st = "pending"
      BY <2>2, VisitSteps
    <3>2. \A q \in Withdrawals \ {u} : row'[q] = row[q]
      BY <3>1, SetRowType DEF BootVisit, RowType
    <3> QED BY <3>1, <3>2
  <2> QED BY <1>3, <2>1, <2>2 DEF StartUp
<1>4. CASE Crash \/ UNCHANGED vars
  BY <1>4 DEF Crash, vars, books
<1> QED BY <1>1, <1>2, <1>3, <1>4 DEF Next

\* What is decided stays decided: no request and no start-up changes a row that is
\* confirmed or failed (admin.go:516-538, start-up.go:197-239).
THEOREM Final == Spec => RowFinal
<1>1. PhaseInv /\ [Next]_vars =>
        [\A w \in Withdrawals : row[w].st \in {"confirmed", "failed"} => row'[w] = row[w]]_vars
  BY RowStep
<1> QED BY <1>1, InitPhase, StepPhase, PTL DEF Spec, RowFinal

-----------------------------------------------------------------------------
(* The books                                                               *)

\* What has left the wallet for withdrawals.
TotalOut == SumFunction([w \in Withdrawals |-> Out(w)])

\* No money is made or lost: what is not in the wallet has left it for a withdrawal.
Balanced == wallet + TotalOut = held + earned + Surplus

\* Amounts and totals are integers.
LEMMA OutType ==
    ASSUME TypeOK
    PROVE  /\ \A w \in Withdrawals : Out(w) \in Nat /\ Withdrawn(w) \in Nat
           /\ [w \in Withdrawals |-> Out(w)] \in [Withdrawals -> Int]
           /\ TotalOut \in Int
<1> DEFINE f == [w \in Withdrawals |-> Out(w)]
<1>1. \A w \in Withdrawals : Out(w) \in Nat /\ Withdrawn(w) \in Nat
  BY DEF TypeOK, Out, Withdrawn
<1>2. f \in [Withdrawals -> Int]
  BY <1>1
<1>3. SumFunction(f) \in Int
  <2> HIDE DEF f
  <2> QED BY <1>2, OperatorAssumption, SumType
<1> QED BY <1>1, <1>2, <1>3 DEF TotalOut

\* And after a step.
LEMMA OutTypeNext ==
    ASSUME TypeOK'
    PROVE  \A w \in Withdrawals : Out(w)' \in Nat
BY DEF TypeOK, Out

\* What one step changes of the total, if it changes it for one request.
LEMMA OutChange ==
    ASSUME TypeOK, TypeOK', NEW w \in Withdrawals,
           \A u \in Withdrawals \ {w} : row'[u].amount = row[u].amount /\ payment'[u] = payment[u]
    PROVE  TotalOut' = TotalOut + (Out(w)' - Out(w))
<1> DEFINE f == [u \in Withdrawals |-> Out(u)]
           g == [u \in Withdrawals |-> Out(u)']
<1>1. f \in [Withdrawals -> Int] /\ g \in [Withdrawals -> Int]
  BY OutType, OutTypeNext
<1>2. \A u \in Withdrawals \ {w} : g[u] = f[u]
  BY DEF Out
<1>3. SumFunction(g) = SumFunction(f) + (g[w] - f[w])
  <2> HIDE DEF f, g
  <2> QED BY <1>1, <1>2, OperatorAssumption, SumChange
<1> QED BY <1>3 DEF TotalOut

\* The total stays if every part of it does.
LEMMA OutSame ==
    ASSUME \A u \in Withdrawals : Out(u)' = Out(u)
    PROVE  TotalOut' = TotalOut
BY DEF TotalOut

\* At first nothing has left.
LEMMA InitBalanced == Init => Balanced
<1> SUFFICES ASSUME Init PROVE Balanced
  OBVIOUS
<1> DEFINE f == [w \in Withdrawals |-> Out(w)]
<1>1. f \in [Withdrawals -> Int] /\ \A w \in Withdrawals : f[w] = 0
  BY DEF Init, Out, NoPayment
<1>2. SumFunction(f) = 0
  <2> HIDE DEF f
  <2> QED BY <1>1, OperatorAssumption, SumZero
<1> QED BY <1>2, OperatorAssumption DEF Init, Balanced, TotalOut

\* Money leaves the wallet for a withdrawal or with a redeem, and comes back if a payment
\* fails; no other step moves any.
LEMMA StepBalanced == PhaseInv /\ Balanced /\ [Next]_vars => Balanced'
<1> SUFFICES ASSUME PhaseInv, Balanced, [Next]_vars PROVE Balanced'
  OBVIOUS
<1>0. TypeOK /\ TypeOK' /\ TotalOut \in Int /\ PhaseInv'
  BY StepPhase, OutType DEF PhaseInv
<1> DEFINE Quietly == (\A u \in Withdrawals : Out(u)' = Out(u)) /\ UNCHANGED <<wallet, held, earned>>
<1>q. Quietly => Balanced'
  BY OutSame DEF Balanced
<1>1. CASE World
  <2>1. CASE Fund \/ Earn \/ RedeemPays
    <3>1. UNCHANGED <<row, payment>>
      BY <2>1 DEF Fund, Earn, RedeemPays, sdk
    <3>2. TotalOut' = TotalOut
      BY <3>1, OutSame DEF Out
    <3>3. /\ wallet \in Int /\ held \in Int /\ earned \in Int
          /\ Step \in Int /\ Surplus \in Int
      BY <1>0, OperatorAssumption DEF TypeOK
    <3>4. CASE Fund
      BY <1>0, <3>2, <3>3, <3>4 DEF Fund, Balanced
    <3>5. CASE Earn
      BY <1>0, <3>2, <3>3, <3>5 DEF Earn, Balanced, sdk
    <3>6. CASE RedeemPays
      BY <1>0, <3>2, <3>3, <3>6 DEF RedeemPays, Balanced
    <3> QED BY <2>1, <3>4, <3>5, <3>6
  <2>2. CASE RedeemAcquires \/ CooldownEnds
    BY <1>q, <2>2 DEF RedeemAcquires, CooldownEnds, books, sdk, Out
  <2>3. ASSUME NEW w \in Withdrawals, PaymentSettles(w) PROVE Balanced'
    <3>1. row' = row /\ UNCHANGED <<held, earned>> /\ payment[w].st = "pending"
      BY <2>3 DEF PaymentSettles, books
    <3>2. \A u \in Withdrawals \ {w} : payment'[u] = payment[u]
      BY <1>0, <2>3 DEF PaymentSettles, TypeOK
    <3>3. TotalOut' = TotalOut + (Out(w)' - Out(w))
      BY <1>0, <3>1, <3>2, OutChange
    <3>4. wallet' - wallet = Out(w) - Out(w)'
      BY <1>0, <2>3, <3>1 DEF PaymentSettles, TypeOK, Out
    <3>5. Out(w) \in Nat /\ Out(w)' \in Nat
      BY <1>0, OutType, OutTypeNext
    <3> QED BY <1>0, <3>1, <3>3, <3>4, <3>5, OperatorAssumption DEF Balanced, TypeOK
  <2> QED BY <1>1, <2>1, <2>2, <2>3 DEF World
<1>2. ASSUME NEW w \in Withdrawals, Withdraw(w) PROVE Balanced'
  <2>1. CASE Quiet(w)
    BY <1>q, <2>1, QuietSteps DEF books, sdk, Out
  <2>2. CASE Writes(w)
    <3>1. UNCHANGED sdk
      BY <2>2, WriteSteps
    <3>2. PICK value \in RowType : SetRow(w, value)
            /\ (value.amount = row[w].amount \/ payment[w].st = "none")
      <4>1. PICK from \in PC, to \in PC, value \in RowType :
              /\ Goto(w, from, to) /\ SetRow(w, value)
              /\ from \in {"insert", "failed"} \/ value.amount = row[w].amount
        BY <2>2, WriteSteps
      <4>2. pc[w] = from
        BY <4>1 DEF Goto
      <4>3. from \in {"insert", "failed"} => payment[w].st = "none"
        BY <4>2 DEF PhaseInv, Phase, PhaseOf, Withdrawing
      <4> QED BY <4>1, <4>3
    <3>3. /\ row'[w] = value /\ UNCHANGED <<held, earned>>
          /\ \A u \in Withdrawals \ {w} : row'[u] = row[u]
      BY <3>2, SetRowType DEF RowType
    <3>4. \A u \in Withdrawals : Out(u)' = Out(u)
      BY <3>1, <3>2, <3>3 DEF Out, sdk
    <3> QED BY <1>q, <3>1, <3>3, <3>4 DEF sdk
  <2>3. CASE Send(w)
    <3>1. PICK st \in {"pending", "completed"}, spark \in BOOLEAN, fee \in Quotes :
            /\ pc[w] = "send"
            /\ payment' = [payment EXCEPT ![w] = [st |-> st, fee |-> fee, spark |-> spark]]
            /\ wallet' = wallet - asked[w] - fee
            /\ UNCHANGED books
      BY <2>3 DEF Send, Goto
    <3>2. row[w].amount = asked[w] /\ payment[w].st = "none"
      BY <3>1 DEF PhaseInv, Phase, PhaseOf, Withdrawing
    <3>3. TotalOut' = TotalOut + (Out(w)' - Out(w))
      BY <1>0, <3>1, OutChange DEF TypeOK, books
    <3>4. Out(w)' = asked[w] + fee /\ Out(w) = 0
      BY <1>0, <3>1, <3>2 DEF Out, TypeOK, books
    <3>5. asked[w] \in Nat /\ fee \in Nat
      BY <1>0, OperatorAssumption DEF TypeOK
    <3>6. wallet + TotalOut = held + earned + Surplus
      BY DEF Balanced
    <3>7. held' = held /\ earned' = earned
      BY <3>1 DEF books
    <3>8. TotalOut' = TotalOut + (asked[w] + fee)
      BY <3>3, <3>4, <3>5
    <3>9. wallet \in Int /\ held \in Int /\ earned \in Int /\ Surplus \in Int /\ TotalOut \in Int
      BY <1>0, OperatorAssumption DEF TypeOK
    <3> QED BY <3>1, <3>5, <3>6, <3>7, <3>8, <3>9 DEF Balanced
  <2> QED BY <1>2, <2>1, <2>2, <2>3 DEF Withdraw, Quiet, Writes
<1>3. CASE StartUp
  <2>1. CASE BootList \/ BootServes
    BY <1>q, <2>1 DEF BootList, BootServes, books, sdk, Out
  <2>2. ASSUME NEW w \in Withdrawals,
               BootFailsUnsent(w) \/ BootConfirms(w) \/ BootFails(w) \/ BootSkips(w)
        PROVE  Balanced'
    <3>1. PICK value \in RowType : BootVisit(w, value) /\ value.amount = row[w].amount
      BY <2>2, VisitSteps
    <3>2. /\ row'[w] = value /\ UNCHANGED <<held, earned>>
          /\ \A u \in Withdrawals \ {w} : row'[u] = row[u]
      BY <3>1, SetRowType DEF BootVisit, RowType
    <3>3. UNCHANGED sdk
      BY <3>1 DEF BootVisit
    <3>4. \A u \in Withdrawals : Out(u)' = Out(u)
      BY <3>1, <3>2, <3>3 DEF Out, sdk
    <3> QED BY <1>q, <3>2, <3>3, <3>4 DEF sdk
  <2> QED BY <1>3, <2>1, <2>2 DEF StartUp
<1>4. CASE Crash \/ UNCHANGED vars
  BY <1>q, <1>4 DEF Crash, vars, books, sdk, Out
<1> QED BY <1>1, <1>2, <1>3, <1>4 DEF Next

\* A withdrawal that ought to be booked at what it took is.
LEMMA ExactMatches ==
    ASSUME PhaseInv, NEW w \in Withdrawals, Exact(w)
    PROVE  Withdrawn(w) = Out(w)
BY DEF Exact, PhaseInv, TypeOK, Phase, PhaseOf, Withdrawing, Withdrawn, Out

\* So the books close: where a row is exact, what it says is what left.
LEMMA BalancedCloses == PhaseInv /\ Balanced => BooksClose
<1> SUFFICES ASSUME PhaseInv, Balanced PROVE BooksClose
  OBVIOUS
<1> DEFINE out == [w \in Withdrawals |-> Out(w)]
           gap == [w \in Withdrawals |-> IF Exact(w) THEN 0 ELSE Withdrawn(w) - Out(w)]
           sum == [w \in Withdrawals |-> gap[w] + out[w]]
<1>1. \A w \in Withdrawals : Out(w) \in Int /\ Withdrawn(w) \in Int
  BY OutType DEF PhaseInv
<1>2. out \in [Withdrawals -> Int] /\ gap \in [Withdrawals -> Int]
  BY <1>1
<1>3. \A w \in Withdrawals : gap[w] + out[w] = Withdrawn(w)
  BY <1>1, ExactMatches
<1>4. sum = [w \in Withdrawals |-> Withdrawn(w)]
  BY <1>3
<1>5. SumFunction(sum) = SumFunction(gap) + SumFunction(out)
  <2> HIDE DEF out, gap
  <2> QED BY <1>2, OperatorAssumption, SumPlus
<1>6. SumFunction(gap) \in Int /\ SumFunction(out) \in Int
  <2> HIDE DEF out, gap
  <2> QED BY <1>2, OperatorAssumption, SumType
<1>7. Available = earned - (SumFunction(gap) + SumFunction(out)) /\ TotalOut = SumFunction(out)
  BY <1>4, <1>5 DEF Available, TotalOut
<1>8. BooksClose <=> wallet = held + Available + Surplus + SumFunction(gap)
  BY DEF BooksClose, Explained
<1> HIDE DEF gap, out
<1> QED BY <1>6, <1>7, <1>8, OperatorAssumption DEF Balanced, PhaseInv, TypeOK

\* The books close: for any number of withdrawals, any interleaving and any crashes, a row
\* that ought to say what a withdrawal took does so, and nothing else explains the wallet
\* (admin.go:326-362, db.go:1397-1432).
THEOREM Closes == Spec => []BooksClose
<1>1. Init => PhaseInv /\ Balanced
  BY InitPhase, InitBalanced
<1>2. PhaseInv /\ Balanced /\ [Next]_vars => PhaseInv' /\ Balanced'
  BY StepPhase, StepBalanced
<1> QED BY <1>1, <1>2, BalancedCloses, PTL DEF Spec

-----------------------------------------------------------------------------
(* The holds                                                               *)

\* No crash, and never two withdrawals that pay at once.
Calm == crashes = 0 /\ ~shared

\* What a request is about to take, or has taken and not booked yet.
Owe(w) ==
    IF pc[w] \in {"insert", "key", "send"} THEN asked[w] + seen[w]
    ELSE IF pc[w] \in {"sent", "confirm"} THEN row[w].amount + payment[w].fee
    ELSE 0

\* As long as nothing has gone wrong, one request at most pays, and what it takes is
\* there, but for less than a satoshi and for what payments cost beyond their quotes.
Fits ==
    /\ \A w \in Withdrawals : pc[w] # "lost"
    /\ \A u, w \in Withdrawals : pc[u] \in Paying /\ pc[w] \in Paying => u = w
    /\ Available + Sat + over > 0
    /\ \A w \in Withdrawals : pc[w] \in {"bolt11", "lnurl"} => seen[w] <= Available
    /\ \A w \in Withdrawals : Owe(w) < Available + Sat + over

\* What is inductive of it.
FitsInv == Calm => Fits

\* What a row counts for is a natural number, after a step too.
LEMMA WithdrawnNext ==
    ASSUME TypeOK'
    PROVE  \A w \in Withdrawals : Withdrawn(w)' \in Nat
BY DEF TypeOK, Withdrawn

\* What a request owes is a natural number.
LEMMA OweType ==
    ASSUME TypeOK
    PROVE  \A w \in Withdrawals : Owe(w) \in Nat
BY DEF TypeOK, Owe

\* What one step changes of the equity.
LEMMA AvailableChange ==
    ASSUME TypeOK, TypeOK', NEW w \in Withdrawals,
           \A u \in Withdrawals \ {w} : row'[u] = row[u]
    PROVE  Available' = Available + (earned' - earned) - (Withdrawn(w)' - Withdrawn(w))
<1> DEFINE f == [u \in Withdrawals |-> Withdrawn(u)]
           g == [u \in Withdrawals |-> Withdrawn(u)']
<1>1. \A u \in Withdrawals : Withdrawn(u) \in Nat /\ Withdrawn(u)' \in Nat
  BY OutType, WithdrawnNext
<1>2. f \in [Withdrawals -> Int] /\ g \in [Withdrawals -> Int]
  BY <1>1
<1>3. \A u \in Withdrawals \ {w} : g[u] = f[u]
  BY DEF Withdrawn
<1>4. SumFunction(g) = SumFunction(f) + (g[w] - f[w]) /\ SumFunction(f) \in Int
  <2> HIDE DEF f, g
  <2> QED BY <1>2, <1>3, OperatorAssumption, SumChange, SumType
<1>5. Available = earned - SumFunction(f) /\ Available' = earned' - SumFunction(g)
  BY DEF Available
<1>6. earned \in Int /\ earned' \in Int
  BY DEF TypeOK
<1>7. g[w] = Withdrawn(w)' /\ f[w] = Withdrawn(w)
  OBVIOUS
<1> HIDE DEF f, g
<1> QED BY <1>1, <1>4, <1>5, <1>6, <1>7

\* The equity stays if its rows do.
LEMMA AvailableSame ==
    ASSUME row' = row, earned' = earned
    PROVE  Available' = Available
BY DEF Available, Withdrawn

\* At first nobody owes anything.
LEMMA InitFits == Init => FitsInv
<1> SUFFICES ASSUME Init PROVE Fits
  BY DEF FitsInv
<1> DEFINE f == [w \in Withdrawals |-> Withdrawn(w)]
<1>1. f \in [Withdrawals -> Int] /\ \A w \in Withdrawals : f[w] = 0
  BY DEF Init, Withdrawn, NoRow
<1>2. SumFunction(f) = 0
  <2> HIDE DEF f
  <2> QED BY <1>1, OperatorAssumption, SumZero
<1>3. Available = 0
  BY <1>2 DEF Available, Init
<1>4. Sat \in Nat \ {0}
  BY MoneyAssumption
<1> QED BY <1>3, <1>4 DEF Init, Fits, Owe, Paying

\* The cap is within the equity, if there is any.
LEMMA CapFits ==
    ASSUME TypeOK, NEW w \in Withdrawals, Cap(w) >= Sat
    PROVE  Cap(w) <= Available
<1>1. Available \in Int /\ seen[w] \in Int /\ held \in Int /\ Sat \in Nat \ {0}
  BY AvailableType, MoneyAssumption DEF TypeOK
<1> HIDE DEF Available
<1> QED BY <1>1 DEF Cap, withdrawCapMsat

\* A step that changes no row and no payment, and the place of one request: it fits if
\* the new place of that request does.
LEMMA QuietFits ==
    ASSUME PhaseInv, Fits, NEW w \in Withdrawals, NEW from, NEW to \in PC, Goto(w, from, to),
           UNCHANGED <<books, sdk>>, over' = over,
           \A u \in Withdrawals \ {w} : asked'[u] = asked[u] /\ seen'[u] = seen[u],
           to # "lost",
           to \in Paying =>
              from \in Paying \/ \A u \in Withdrawals : pc[u] \notin Paying,
           to \in {"bolt11", "lnurl"} => seen'[w] <= Available,
           Owe(w)' < Available + Sat + over
    PROVE  Fits'
<1>1. /\ pc[w] = from /\ pc'[w] = to
      /\ \A u \in Withdrawals \ {w} : pc'[u] = pc[u]
  BY GotoType
<1>2. Available' = Available
  BY AvailableSame DEF books
<1>3. \A u \in Withdrawals \ {w} : Owe(u)' = Owe(u)
  BY <1>1 DEF Owe, books, sdk
<1> HIDE DEF Available, Owe
<1> QED BY <1>1, <1>2, <1>3 DEF Fits

\* The cap is read, and the amount and its fee are found to be within it.
LEMMA QuietStepsFit ==
    ASSUME PhaseInv, Fits, NEW w \in Withdrawals, Quiet(w), ~shared'
    PROVE  Fits'
<1>0. /\ UNCHANGED <<books, sdk>> /\ over' = over
      /\ \A u \in Withdrawals \ {w} : asked'[u] = asked[u] /\ seen'[u] = seen[u]
  BY QuietSteps
<1>a. Available \in Int /\ Available + Sat + over > 0 /\ Sat \in Nat \ {0} /\ over \in Nat
  BY AvailableType, MoneyAssumption DEF Fits, PhaseInv, TypeOK
<1> HIDE DEF Available
<1> DEFINE Free(from, to) ==
             /\ from \in Paying \/ to \notin Paying
             /\ to \notin {"lost", "bolt11", "lnurl", "insert", "key", "send", "sent", "confirm"}
<1>b. ASSUME NEW from, NEW to \in PC, Goto(w, from, to), Free(from, to) PROVE Fits'
  <2>1. pc'[w] = to
    BY <1>b, GotoType
  <2>2. Owe(w)' = 0
    BY <1>b, <2>1 DEF Owe
  <2> QED BY <1>0, <1>a, <1>b, <2>2, QuietFits
<1> USE DEF PC, Paying
<1>1. CASE Arrive(w) \/ Gate(w) \/ ParseFails(w) \/ ReadWallet(w) \/ PrepareFails(w)
           \/ SendFails(w) \/ Release(w)
  <2>1. \E from, to \in PC : Goto(w, from, to) /\ Free(from, to)
    BY <1>1 DEF Arrive, Gate, ParseFails, ReadWallet, PrepareFails, SendFails, Release
  <2> HIDE DEF Free
  <2> QED BY <2>1, <1>b
<1>2. CASE Acquire(w) \/ EnterAnyway(w)
  <2>1. Goto(w, "acquire", "wallet") /\ \A u \in Withdrawals : pc[u] \notin Paying
    BY <1>2 DEF Acquire, EnterAnyway, Enter
  <2>2. Owe(w)' = 0
    BY <2>1, GotoType DEF Owe
  <2> QED BY <1>0, <1>a, <2>1, <2>2, QuietFits
<1>3. CASE ReadBooks(w)
  <2>1. CASE Cap(w) < Sat
    <3>1. Goto(w, "cap", "release") /\ Free("cap", "release")
      BY <1>3, <2>1 DEF ReadBooks
    <3> HIDE DEF Free
    <3> QED BY <3>1, <1>b
  <2>2. CASE ~(Cap(w) < Sat)
    <3>1. PICK to \in {"bolt11", "lnurl"} : Goto(w, "cap", to)
      BY <1>3, <2>2 DEF ReadBooks
    <3>2. seen'[w] = Cap(w)
      BY <1>3 DEF ReadBooks, PhaseInv, TypeOK
    <3>3. Cap(w) \in Nat
      BY CapType DEF PhaseInv
    <3>4. Cap(w) <= Available
      BY <1>a, <2>2, <3>3, CapFits DEF PhaseInv
    <3>5. Owe(w)' = 0
      BY <3>1, GotoType DEF Owe
    <3> HIDE DEF Paying
    <3>6. "cap" \in Paying
      BY DEF Paying
    <3> QED BY <1>0, <1>a, <3>1, <3>2, <3>4, <3>5, <3>6, QuietFits
  <2> QED BY <2>1, <2>2
<1>4. CASE PrepareBolt11(w)
  <2>1. PICK amount \in Invoices, quote \in Quotes, spark \in Quotes :
           /\ Goto(w, "bolt11", "insert")
           /\ WithdrawFits(WithdrawAmount(amount, seen[w], quote), seen[w], quote)
           /\ Ask(w, amount, quote, spark)
    BY <1>4 DEF PrepareBolt11
  <2> DEFINE fitting == WithdrawAmount(amount, seen[w], quote)
  <2>2. amount \in Nat \ {0} /\ quote \in Nat /\ seen[w] \in Nat
    BY OperatorAssumption DEF PhaseInv, TypeOK
  <2>3. fitting \in Nat /\ amount < fitting + Sat
    BY <2>1, <2>2, FitsType
  <2>4. fitting + quote <= seen[w]
    BY <2>1 DEF WithdrawFits
  <2>5. pc[w] = "bolt11" /\ pc'[w] = "insert"
    BY <2>1, GotoType
  <2>6. seen[w] <= Available
    BY <2>5 DEF Fits
  <2>7. Owe(w)' = amount + quote
    BY <2>1, <2>5 DEF Owe, Ask, PhaseInv, TypeOK
  <2> HIDE DEF fitting
  <2>8. Owe(w)' < Available + Sat + over
    BY <1>a, <2>2, <2>3, <2>4, <2>6, <2>7
  <2> QED BY <1>0, <2>1, <2>8, QuietFits
<1>5. CASE PrepareLnurl(w)
  <2>1. PICK amount \in Nat, quote \in Quotes :
           /\ Goto(w, "lnurl", "insert") /\ amount + quote <= seen[w]
           /\ Ask(w, amount, quote, quote)
    <3>1. PICK requested \in Requests, estimate \in Quotes, quote \in Quotes :
             LET amount == WithdrawAmount(requested, seen[w], estimate)
             IN  /\ Goto(w, "lnurl", "insert")
                 /\ WithdrawFits(amount, seen[w], estimate)
                 /\ amount + quote <= seen[w]
                 /\ Ask(w, amount, quote, quote)
      BY <1>5 DEF PrepareLnurl
    <3>2. requested \in Nat /\ estimate \in Nat /\ quote \in Nat /\ seen[w] \in Nat
      BY OperatorAssumption DEF PhaseInv, TypeOK
    <3>3. WithdrawAmount(requested, seen[w], estimate) \in Nat
      BY <3>1, <3>2, FitsType
    <3> QED BY <3>1, <3>3
  <2>2. quote \in Nat /\ seen[w] \in Nat
    BY OperatorAssumption DEF PhaseInv, TypeOK
  <2>3. pc[w] = "lnurl" /\ pc'[w] = "insert"
    BY <2>1, GotoType
  <2>4. seen[w] <= Available
    BY <2>3 DEF Fits
  <2>5. Owe(w)' = amount + quote
    BY <2>1, <2>3 DEF Owe, Ask, PhaseInv, TypeOK
  <2>6. Owe(w)' < Available + Sat + over
    BY <1>a, <2>1, <2>2, <2>4, <2>5
  <2> QED BY <1>0, <2>1, <2>6, QuietFits
<1> QED BY <1>1, <1>2, <1>3, <1>4, <1>5 DEF Quiet

\* The row is confirmed: what was owed leaves the equity, and nobody else owes.
LEMMA WritesFit ==
    ASSUME PhaseInv, Fits, NEW w \in Withdrawals, Writes(w), PhaseInv'
    PROVE  Fits'
<1>0. TypeOK /\ TypeOK' /\ UNCHANGED <<sdk, seen, asked, over>>
  BY WriteSteps DEF PhaseInv
<1>a. Available \in Int /\ Available + Sat + over > 0 /\ Sat \in Nat \ {0} /\ over \in Nat
  BY <1>0, AvailableType, MoneyAssumption DEF Fits, TypeOK
<1>1. PICK from \in PC, to \in PC, value \in RowType :
        /\ Goto(w, from, to) /\ SetRow(w, value)
        /\ \/ from = "insert" /\ to = "key" /\ value.st = "pending"
           \/ /\ <<from, to>> \in {<<"key", "send">>, <<"sent", "confirm">>}
              /\ value.st = row[w].st /\ value.amount = row[w].amount
           \/ from = "failed" /\ to = "release" /\ value.st = "failed"
           \/ /\ from = "confirm" /\ to = "release" /\ value.st = "confirmed"
              /\ value.amount = row[w].amount /\ value.fee = payment[w].fee
  BY WriteSteps
<1>2. /\ row'[w] = value /\ earned' = earned
      /\ \A u \in Withdrawals \ {w} : row'[u] = row[u]
  BY <1>1, SetRowType DEF RowType
<1>3. /\ pc[w] = from /\ pc'[w] = to
      /\ \A u \in Withdrawals \ {w} : pc'[u] = pc[u]
  BY <1>1, GotoType
<1>4. \A u \in Withdrawals \ {w} : Owe(u)' = Owe(u)
  BY <1>0, <1>2, <1>3 DEF Owe, sdk
<1>5. Available' = Available - (Withdrawn(w)' - Withdrawn(w))
  <2>1. Available' = Available + (earned' - earned) - (Withdrawn(w)' - Withdrawn(w))
    BY <1>0, <1>2, AvailableChange
  <2>2. earned' - earned = 0
    BY <1>0, <1>2 DEF TypeOK
  <2>3. Withdrawn(w) \in Nat /\ Withdrawn(w)' \in Nat
    BY <1>0, OutType, WithdrawnNext
  <2> QED BY <1>a, <2>1, <2>2, <2>3
<1>6. from \in Paying /\ to \notin {"lost", "bolt11", "lnurl"} /\ row[w].st \in {"none", "pending"}
  BY <1>1, <1>3 DEF Paying, PhaseInv, Phase, PhaseOf, Withdrawing
<1>7. Withdrawn(w) = 0
  BY <1>6 DEF Withdrawn
<1>8. CASE value.st # "confirmed"
  <2>1. Withdrawn(w)' = 0
    BY <1>2, <1>8 DEF Withdrawn
  <2>2. Available' = Available
    BY <1>a, <1>5, <1>7, <2>1
  <2>3. Owe(w)' = Owe(w) \/ Owe(w)' = 0
    BY <1>0, <1>1, <1>2, <1>3, <1>8 DEF Owe, sdk
  <2> HIDE DEF Available, Owe
  <2> QED BY <1>0, <1>a, <1>3, <1>4, <1>6, <2>2, <2>3 DEF Fits
<1>9. CASE value.st = "confirmed"
  <2>1. from = "confirm" /\ to = "release" /\ value.amount = row[w].amount /\ value.fee = payment[w].fee
    BY <1>1, <1>3, <1>6, <1>9
  <2>2. Withdrawn(w)' = Owe(w)
    BY <1>2, <1>3, <1>9, <2>1 DEF Withdrawn, Owe
  <2>3. Available' = Available - Owe(w) /\ Owe(w) \in Nat
    BY <1>0, <1>a, <1>5, <1>7, <2>2, OweType
  <2>4. Available' + Sat + over' > 0
    BY <1>0, <1>a, <2>3 DEF Fits
  <2>5. \A u \in Withdrawals \ {w} : pc[u] \notin Paying
    BY <1>3, <1>6 DEF Fits
  <2>6. \A u \in Withdrawals : Owe(u)' = 0 /\ pc'[u] \notin {"bolt11", "lnurl", "lost"}
    BY <1>3, <2>1, <2>5 DEF Owe, Paying, Fits
  <2>7. \A u, q \in Withdrawals : pc'[u] \in Paying /\ pc'[q] \in Paying => u = q
    BY <1>3, <2>5
  <2> HIDE DEF Available, Owe
  <2> QED BY <2>4, <2>6, <2>7 DEF Fits
<1> QED BY <1>8, <1>9

\* The payment takes what was owed, and what it costs beyond its quote; and it is owed
\* until it is booked.
LEMMA SendFits ==
    ASSUME PhaseInv, Fits, NEW w \in Withdrawals, Send(w), PhaseInv'
    PROVE  Fits'
<1>1. PICK st \in {"pending", "completed"}, spark \in BOOLEAN, fee \in Quotes :
        /\ Goto(w, "send", "sent")
        /\ payment' = [payment EXCEPT ![w] = [st |-> st, fee |-> fee, spark |-> spark]]
        /\ over' = over + IF fee > seen[w] THEN fee - seen[w] ELSE 0
        /\ UNCHANGED <<books, seen, asked>>
  BY DEF Send
<1>2. /\ pc[w] = "send" /\ pc'[w] = "sent"
      /\ \A u \in Withdrawals \ {w} : pc'[u] = pc[u]
  BY <1>1, GotoType DEF PC
<1>3. row[w].amount = asked[w] /\ payment'[w].fee = fee
  BY <1>1, <1>2 DEF PhaseInv, TypeOK, Phase, PhaseOf, Withdrawing
<1>4. /\ fee \in Nat /\ seen[w] \in Nat /\ asked[w] \in Nat /\ over \in Nat
      /\ Available \in Int /\ Sat \in Nat
  BY AvailableType, MoneyAssumption, OperatorAssumption DEF PhaseInv, TypeOK
<1>5. Available' = Available
  BY <1>1, AvailableSame DEF books
<1>6. \A u \in Withdrawals : Owe(u) \in Nat
  BY OweType DEF PhaseInv
<1>7. \A u \in Withdrawals \ {w} : Owe(u)' = Owe(u)
  BY <1>1, <1>2 DEF Owe, books, PhaseInv, TypeOK
<1>8. Owe(w) = asked[w] + seen[w] /\ Owe(w)' = asked[w] + fee
  BY <1>1, <1>2, <1>3 DEF Owe, books
<1>9. "send" \in Paying /\ \A u \in Withdrawals : pc'[u] \in {"bolt11", "lnurl"} => pc[u] = pc'[u]
  BY <1>2 DEF Paying
<1>10. PICK d \in Nat : over' = over + d /\ asked[w] + fee <= asked[w] + seen[w] + d
  <2>1. CASE fee > seen[w]
    BY <1>1, <1>4, <2>1
  <2>2. CASE ~(fee > seen[w])
    BY <1>1, <1>4, <2>2
  <2> QED BY <2>1, <2>2
<1> HIDE DEF Available, Owe
<1>11. \A u \in Withdrawals : Owe(u)' <= Owe(u) + d
  BY <1>6, <1>7, <1>8, <1>10
<1>12. \A u \in Withdrawals : Owe(u)' < Available' + Sat + over'
  <2> SUFFICES ASSUME NEW u \in Withdrawals PROVE Owe(u)' < Available' + Sat + over'
    OBVIOUS
  <2>1. Owe(u) < Available + Sat + over /\ Owe(u) \in Nat /\ Owe(u)' <= Owe(u) + d
    BY <1>6, <1>11 DEF Fits
  <2>2. Owe(u)' \in Nat
    BY <1>4, <1>6, <1>7, <1>8
  <2> QED BY <1>4, <1>5, <1>10, <2>1, <2>2
<1>13. Available' + Sat + over' > 0
  BY <1>4, <1>5, <1>10 DEF Fits
<1> QED BY <1>1, <1>2, <1>5, <1>9, <1>12, <1>13 DEF Fits

\* The equity only grows by what the world does.
LEMMA WorldFits ==
    ASSUME PhaseInv, Fits, World, PhaseInv'
    PROVE  Fits'
<1>0. /\ TypeOK /\ TypeOK' /\ Available \in Int /\ Sat \in Int /\ over \in Nat
      /\ \A w \in Withdrawals : Owe(w) \in Int
  BY AvailableType, OweType, MoneyAssumption DEF PhaseInv, TypeOK
<1>1. UNCHANGED <<row, proc>>
  BY DEF World, Fund, Earn, RedeemAcquires, RedeemPays, PaymentSettles, CooldownEnds, books
<1>2. \A w \in Withdrawals : Owe(w)' = Owe(w)
  <2>1. \A w \in Withdrawals : payment'[w].fee = payment[w].fee
    <3>1. CASE UNCHANGED payment
      BY <3>1
    <3>2. ASSUME NEW u \in Withdrawals, PaymentSettles(u)
          PROVE  \A w \in Withdrawals : payment'[w].fee = payment[w].fee
      <4>1. payment \in [Withdrawals -> [st : {"none", "pending", "completed", "failed"},
                                        fee : Nat, spark : BOOLEAN]]
        BY <1>0 DEF TypeOK
      <4>2. \E st : payment' = [payment EXCEPT ![u].st = st]
        BY <3>2 DEF PaymentSettles
      <4> QED BY <4>1, <4>2
    <3> QED BY <3>1, <3>2 DEF World, Fund, Earn, RedeemAcquires, RedeemPays, CooldownEnds, sdk
  <2> QED BY <1>1, <2>1 DEF Owe, proc
<1>3. PICK d \in Nat : Available' = Available + d
  <2>1. earned \in Int /\ Step \in Nat
    BY <1>0, OperatorAssumption DEF TypeOK
  <2> DEFINE total == SumFunction([w \in Withdrawals |-> Withdrawn(w)])
  <2>2. total' = total
    BY <1>1 DEF Withdrawn
  <2>3. Available = earned - total /\ Available' = earned' - total'
    BY DEF Available
  <2>4. total \in Int
    <3> DEFINE f == [w \in Withdrawals |-> Withdrawn(w)]
    <3>1. f \in [Withdrawals -> Int]
      BY <1>0, AvailableType
    <3>2. SumFunction(f) \in Int
      <4> HIDE DEF f
      <4> QED BY <3>1, OperatorAssumption, SumType
    <3> QED BY <3>2
  <2> HIDE DEF total
  <2>5. PICK d \in Nat : earned' = earned + d
    <3>1. earned' = earned + Step \/ earned' = earned
      BY DEF World, Fund, Earn, RedeemAcquires, RedeemPays, PaymentSettles, CooldownEnds, books
    <3>2. earned = earned + 0
      BY <2>1
    <3> QED BY <2>1, <3>1, <3>2
  <2>6. (earned + d) - total = (earned - total) + d
    BY <2>1, <2>4
  <2> QED BY <2>2, <2>3, <2>5, <2>6
<1>4. UNCHANGED <<pc, seen, over>>
  BY <1>1 DEF proc, World, Fund, Earn, RedeemAcquires, RedeemPays, PaymentSettles, CooldownEnds
<1> HIDE DEF Available, Owe
<1>5. Available' + Sat + over' > 0
  BY <1>0, <1>3, <1>4 DEF Fits
<1>6. \A w \in Withdrawals : pc'[w] \in {"bolt11", "lnurl"} => seen'[w] <= Available'
  BY <1>0, <1>3, <1>4 DEF Fits, TypeOK
<1>7. \A w \in Withdrawals : Owe(w)' < Available' + Sat + over'
  BY <1>0, <1>2, <1>3, <1>4 DEF Fits
<1> QED BY <1>4, <1>5, <1>6, <1>7 DEF Fits

\* Every step keeps it.
LEMMA StepFits == PhaseInv /\ FitsInv /\ [Next]_vars => FitsInv'
<1> SUFFICES ASSUME PhaseInv, FitsInv, [Next]_vars, Calm' PROVE Fits'
  BY DEF FitsInv
<1>0. PhaseInv'
  BY StepPhase
<1>1. Calm
  <2>1. crashes \in Nat
    BY DEF PhaseInv, TypeOK
  <2>2. crashes' = crashes \/ crashes' = crashes + 1
    <3>1. ASSUME NEW w \in Withdrawals, Withdraw(w) PROVE crashes' = crashes
      BY <3>1 DEF Withdraw, Arrive, Gate, Acquire, EnterAnyway, Enter, ParseFails, ReadWallet,
         ReadBooks, PrepareBolt11, PrepareLnurl, PrepareFails, InsertOperatorTx,
         SetIdempotencyKey, Send, SendFails, MarkFailed, SetPaymentID, Confirm, Release, Goto
    <3>2. World \/ StartUp => crashes' = crashes
      BY DEF World, Fund, Earn, RedeemAcquires, RedeemPays, PaymentSettles, CooldownEnds, StartUp,
         BootList, BootServes, BootFailsUnsent, BootConfirms, BootFails, BootSkips, BootVisit
    <3> QED BY <3>1, <3>2 DEF Next, Crash, vars
  <2>3. shared => shared'
    <3>1. ASSUME NEW w \in Withdrawals, Withdraw(w) PROVE shared => shared'
      BY <3>1 DEF Withdraw, Arrive, Gate, Acquire, EnterAnyway, Enter, ParseFails, ReadWallet,
         ReadBooks, PrepareBolt11, PrepareLnurl, PrepareFails, InsertOperatorTx, Ask,
         SetIdempotencyKey, Send, SendFails, MarkFailed, SetPaymentID, Confirm, Release
    <3>2. World \/ StartUp \/ Crash => shared' = shared
      BY DEF World, Fund, Earn, RedeemAcquires, RedeemPays, PaymentSettles, CooldownEnds, StartUp,
         BootList, BootServes, BootFailsUnsent, BootConfirms, BootFails, BootSkips, BootVisit, Crash
    <3> QED BY <3>1, <3>2 DEF Next, vars
  <2> QED BY <2>1, <2>2, <2>3 DEF Calm
<1>2. Fits
  BY <1>1 DEF FitsInv
<1>3. CASE World
  BY <1>0, <1>2, <1>3, WorldFits
<1>4. ASSUME NEW w \in Withdrawals, Withdraw(w) PROVE Fits'
  <2>1. ~shared'
    BY DEF Calm
  <2> QED BY <1>0, <1>2, <1>4, <2>1, QuietStepsFit, WritesFit, SendFits DEF Withdraw, Quiet, Writes
<1>5. CASE StartUp
  <2>1. BootList \/ BootServes
    BY <1>2, <1>5, VisitSteps DEF StartUp, Fits
  <2>2. UNCHANGED <<books, sdk, proc, over>>
    BY <2>1 DEF BootList, BootServes
  <2> QED BY <1>2, <2>2, AvailableSame DEF Fits, Owe, books, sdk, proc
<1>6. CASE Crash
  <2>1. crashes \in Nat /\ crashes' = crashes + 1 /\ crashes' = 0
    BY <1>6 DEF Crash, Calm, PhaseInv, TypeOK
  <2> QED BY <2>1
<1>7. CASE UNCHANGED vars
  BY <1>2, <1>7, AvailableSame DEF Fits, Owe, vars, books, sdk, proc
<1> QED BY <1>3, <1>4, <1>5, <1>6, <1>7 DEF Next

\* What has left and is not booked is what the one that pays owes.
LEMMA HoldsFollow ==
    ASSUME PhaseInv, Balanced, FitsInv
    PROVE  HoldsCovered
<1> SUFFICES ASSUME Fits PROVE wallet + Sat + over > held /\ Available + Sat + over > 0
  BY DEF FitsInv, HoldsCovered, Calm
<1> DEFINE out == [w \in Withdrawals |-> Out(w)]
           gap == [w \in Withdrawals |-> Withdrawn(w) - Out(w)]
           net == [w \in Withdrawals |-> Withdrawn(w) + Owe(w) - Out(w)]
           sum == [w \in Withdrawals |-> gap[w] + out[w]]
<1>1. \A w \in Withdrawals : Out(w) \in Nat /\ Withdrawn(w) \in Nat /\ Owe(w) \in Nat
  BY OutType, OweType DEF PhaseInv
<1>2. \A w \in Withdrawals : Out(w) <= Withdrawn(w) + Owe(w)
  <2> SUFFICES ASSUME NEW w \in Withdrawals PROVE Out(w) <= Withdrawn(w) + Owe(w)
    OBVIOUS
  <2>1. pc[w] # "lost"
    BY DEF Fits
  <2>2. CASE payment[w].st = "failed"
    BY <1>1, <2>2 DEF Out
  <2>3. CASE pc[w] \in {"sent", "confirm"}
    BY <1>1, <2>3 DEF Out, Owe, PhaseInv, Phase, PhaseOf, Withdrawing, Withdrawn
  <2>4. CASE payment[w].st # "failed" /\ pc[w] \notin {"sent", "confirm"}
    <3>1. Withdrawn(w) = Out(w)
      BY <2>1, <2>4, ExactMatches DEF Exact
    <3> QED BY <1>1, <3>1
  <2> QED BY <2>2, <2>3, <2>4
<1>3. /\ out \in [Withdrawals -> Int] /\ gap \in [Withdrawals -> Int]
      /\ net \in [Withdrawals -> Nat]
  BY <1>1, <1>2
<1>4. sum = [w \in Withdrawals |-> Withdrawn(w)]
  BY <1>1
<1>5. SumFunction(sum) = SumFunction(gap) + SumFunction(out)
  <2> HIDE DEF out, gap
  <2> QED BY <1>3, OperatorAssumption, SumPlus
<1>6. SumFunction(gap) \in Int /\ SumFunction(out) \in Int /\ SumFunction(net) \in Nat
  <2> HIDE DEF out, gap, net
  <2> QED BY <1>3, OperatorAssumption, SumType, SumNat
<1>7. Available = earned - (SumFunction(gap) + SumFunction(out)) /\ TotalOut = SumFunction(out)
  BY <1>4, <1>5 DEF Available, TotalOut
<1>8. /\ wallet \in Int /\ held \in Int /\ earned \in Int
      /\ Surplus \in Nat /\ Sat \in Nat \ {0} /\ over \in Nat
  BY OperatorAssumption, MoneyAssumption DEF PhaseInv, TypeOK
<1>9. Available + Sat + over > 0
  BY DEF Fits
<1>10. SumFunction(gap) + Available + Sat + over > 0
  <2>1. CASE \A w \in Withdrawals : Owe(w) = 0
    <3>1. gap = net
      BY <1>1, <2>1
    <3> HIDE DEF gap, out, net
    <3> QED BY <1>6, <1>7, <1>8, <1>9, <3>1
  <2>2. ASSUME NEW w \in Withdrawals, Owe(w) # 0
        PROVE  SumFunction(gap) + Available + Sat + over > 0
    <3>1. \A u \in Withdrawals \ {w} : Owe(u) = 0
      BY <2>2 DEF Fits, Owe, Paying
    <3>2. \A u \in Withdrawals \ {w} : gap[u] = net[u]
      BY <1>1, <3>1
    <3>3. gap[w] - net[w] = - Owe(w)
      BY <1>1
    <3>4. SumFunction(gap) = SumFunction(net) + (gap[w] - net[w])
      <4>1. net \in [Withdrawals -> Int]
        BY <1>3
      <4> HIDE DEF gap, net
      <4> QED BY <1>3, <3>2, <4>1, OperatorAssumption, SumChange
    <3>5. Owe(w) < Available + Sat + over /\ Owe(w) \in Nat
      BY <1>1 DEF Fits
    <3> HIDE DEF gap, out, net
    <3>6. Available \in Int
      BY <1>6, <1>7, <1>8
    <3> QED BY <1>6, <1>8, <3>3, <3>4, <3>5, <3>6
  <2> QED BY <2>1, <2>2
<1> HIDE DEF gap, out, net
<1>11. wallet = held + Surplus + SumFunction(gap) + Available
  BY <1>6, <1>7, <1>8 DEF Balanced
<1>12. Available \in Int
  BY <1>6, <1>7, <1>8
<1> QED BY <1>6, <1>8, <1>9, <1>10, <1>11, <1>12

\* One withdrawal at a time, and no crash: holds stay covered by the wallet and equity is
\* not overdrawn, but for less than a satoshi and for what payments cost beyond the quotes
\* that were checked (a Spark transfer's is not, admin.go:315-328), whatever redeems and
\* deposits go on beside it (admin.go:218-235, 281-324).
THEOREM Covered == Spec => []HoldsCovered
<1>1. Init => PhaseInv /\ Balanced /\ FitsInv
  BY InitPhase, InitBalanced, InitFits
<1>2. PhaseInv /\ Balanced /\ FitsInv /\ [Next]_vars => PhaseInv' /\ Balanced' /\ FitsInv'
  BY StepPhase, StepBalanced, StepFits
<1> QED BY <1>1, <1>2, HoldsFollow, PTL DEF Spec
-----------------------------------------------------------------------------
(* One payment at a time, but for the timeout                              *)

\* Unless somebody has gone past the lock, it is with the one that pays.
HeldUnlessBroken ==
    owner # "broken" => /\ \A w \in Withdrawals : pc[w] \in Paying => owner = w
                        /\ redeeming => owner = "redeem"

\* Only the place of the request changes, and the lock is had first and given back last.
LEMMA RequestHolds ==
    ASSUME PhaseInv, NEW w \in Withdrawals, Withdraw(w)
    PROVE  /\ \A u \in Withdrawals \ {w} : pc'[u] = pc[u]
           /\ redeeming' = redeeming
           /\ \/ Acquire(w) /\ pc'[w] \in Paying /\ owner = "nobody" /\ owner' = w
              \/ EnterAnyway(w) /\ pc'[w] \in Paying /\ owner' = "broken"
              \/ /\ pc[w] = "release" /\ pc'[w] = "done"
                 /\ \/ owner = w /\ owner' = "cooldown"
                    \/ owner # w /\ UNCHANGED owner
              \/ /\ pc'[w] \in Paying => pc[w] \in Paying
                 /\ UNCHANGED owner
           /\ shared' = (shared \/ ((Acquire(w) \/ EnterAnyway(w))
                                       /\ \E u \in Withdrawals : pc[u] \in Paying))
<1> USE DEF Paying, PC
<1>0. shared \in BOOLEAN
  BY DEF PhaseInv, TypeOK
<1>1. CASE Acquire(w) \/ EnterAnyway(w)
  BY <1>1, GotoType DEF Acquire, EnterAnyway, Enter, Lock!Acquire
<1>2. CASE Release(w)
  <2>1. /\ Goto(w, "release", "done") /\ UNCHANGED shared
        /\ \/ owner = w /\ owner' = "cooldown"
           \/ owner # w /\ UNCHANGED owner
    BY <1>2 DEF Release, Lock!Pay
  <2>2. ~Acquire(w) /\ ~EnterAnyway(w)
    <3>1. pc[w] = "release"
      BY <2>1 DEF Goto
    <3>2. Acquire(w) \/ EnterAnyway(w) => pc[w] = "acquire"
      BY DEF Acquire, EnterAnyway, Enter, Goto
    <3> QED BY <3>1, <3>2
  <2>3. /\ \A u \in Withdrawals \ {w} : pc'[u] = pc[u]
        /\ redeeming' = redeeming /\ pc[w] = "release" /\ pc'[w] = "done"
    BY <2>1, GotoType
  <2> QED BY <1>0, <2>1, <2>2, <2>3
<1>3. CASE ~(Acquire(w) \/ EnterAnyway(w) \/ Release(w))
  <2>1. PICK from \in PC, to \in PC :
             /\ Goto(w, from, to) /\ UNCHANGED <<owner, shared>>
             /\ to \in Paying => from \in Paying
    BY <1>3 DEF Withdraw, Arrive, Gate, ParseFails, ReadWallet, ReadBooks, PrepareBolt11,
         PrepareLnurl, PrepareFails, InsertOperatorTx, SetIdempotencyKey, Send, SendFails,
         MarkFailed, SetPaymentID, Confirm, Ask
  <2>2. /\ \A u \in Withdrawals \ {w} : pc'[u] = pc[u]
        /\ redeeming' = redeeming /\ pc[w] = from /\ pc'[w] = to
    BY <2>1, GotoType
  <2>3. shared' = (shared \/ ((Acquire(w) \/ EnterAnyway(w))
                                 /\ \E u \in Withdrawals : pc[u] \in Paying))
    BY <1>0, <1>3, <2>1
  <2>4. (pc'[w] \in Paying => pc[w] \in Paying) /\ UNCHANGED owner
    BY <2>1, <2>2
  <2> QED BY <2>2, <2>3, <2>4
<1> QED BY <1>1, <1>2, <1>3

\* The same of what goes on beside the requests (admin.go:237-251, handlers.go:798-802).
LEMMA OthersHold ==
    ASSUME World \/ StartUp \/ UNCHANGED vars
    PROVE  /\ UNCHANGED <<pc, shared>>
           /\ \/ UNCHANGED <<owner, redeeming>>
              \/ owner = "nobody" /\ owner' = "redeem" /\ redeeming'
              \/ owner = "redeem" /\ owner' = "cooldown" /\ ~redeeming'
              \/ owner = "broken" /\ owner' = "broken"
              \/ owner = "cooldown" /\ owner' = "nobody" /\ UNCHANGED redeeming
<1>1. CASE World
  BY <1>1 DEF World, Fund, Earn, RedeemAcquires, RedeemPays, PaymentSettles, CooldownEnds,
       Lock!Acquire, Lock!Pay, Lock!Release, proc
<1>2. CASE StartUp
  BY <1>2 DEF StartUp, BootList, BootServes, BootFailsUnsent, BootConfirms, BootFails,
       BootSkips, BootVisit, proc
<1>3. CASE UNCHANGED vars
  BY <1>3 DEF vars, proc
<1> QED BY <1>1, <1>2, <1>3

\* Whoever waits for its turn gets a lock that nobody pays under (admin.go:251-253).
LEMMA StepHolds ==
    ASSUME PhaseInv, HeldUnlessBroken, [Next]_vars
    PROVE  /\ HeldUnlessBroken'
           /\ ~shared /\ shared' => \E w \in Withdrawals : EnterAnyway(w)
<1>0. \A w \in Withdrawals : w \notin {"redeem", "nobody", "cooldown", "broken"}
  BY OperatorAssumption
<1>1. ASSUME NEW w \in Withdrawals, Withdraw(w)
      PROVE  /\ HeldUnlessBroken'
             /\ ~shared /\ shared' => EnterAnyway(w)
  <2>1. HeldUnlessBroken'
    BY <1>0, <1>1, RequestHolds DEF HeldUnlessBroken, Paying
  <2>2. Acquire(w) => ~\E u \in Withdrawals : pc[u] \in Paying
    BY <1>0 DEF Acquire, Lock!Acquire, HeldUnlessBroken
  <2> QED BY <1>1, <2>1, <2>2, RequestHolds
<1>2. CASE World \/ StartUp \/ UNCHANGED vars
  BY <1>0, <1>2, OthersHold DEF HeldUnlessBroken
<1>3. CASE Crash
  BY <1>3 DEF Crash, HeldUnlessBroken, PhaseInv, TypeOK, Paying
<1> QED BY <1>1, <1>2, <1>3 DEF Next

\* The lock keeps withdrawals and redeems apart, until a request goes on without it
\* (admin.go:251-253, handlers.go:798-802).
THEOREM LockHolds == Spec => []HeldUnlessBroken
<1>1. Init => PhaseInv /\ HeldUnlessBroken
  BY InitPhase DEF Init, HeldUnlessBroken, Paying
<1>2. PhaseInv /\ HeldUnlessBroken /\ [Next]_vars => PhaseInv' /\ HeldUnlessBroken'
  BY StepPhase, StepHolds
<1> QED BY <1>1, <1>2, PTL DEF Spec

\* Two withdrawals pay at once only because one of them goes on after a timeout at the
\* lock: nothing else that happens can bring it about, a redeem, a crash or the release
\* of a lock that is not the caller's included (admin.go:251-253).
THEOREM OnlyTheTimeoutShares ==
    Spec => [][~shared /\ shared' => \E w \in Withdrawals : EnterAnyway(w)]_vars
<1> DEFINE Blame == ~shared /\ shared' => \E w \in Withdrawals : EnterAnyway(w)
<1>1. Init => PhaseInv /\ HeldUnlessBroken
  BY InitPhase DEF Init, HeldUnlessBroken, Paying
<1>2. PhaseInv /\ HeldUnlessBroken /\ [Next]_vars => PhaseInv' /\ HeldUnlessBroken'
  BY StepPhase, StepHolds
<1>3. PhaseInv /\ HeldUnlessBroken /\ [Next]_vars => [Blame]_vars
  BY StepHolds
<1> QED BY <1>1, <1>2, <1>3, PTL DEF Spec
-----------------------------------------------------------------------------
(* Every call ends, with the lock, and so does start-up                    *)

\* The steps that a withdrawal has left at most (admin.go:244-362).
StepsFrom(where) ==
    CASE where = "idle" -> 12
      [] where = "gate" -> 11
      [] where = "acquire" -> 10
      [] where = "wallet" -> 9
      [] where = "cap" -> 8
      [] where \in {"bolt11", "lnurl"} -> 7
      [] where = "insert" -> 6
      [] where = "key" -> 5
      [] where = "send" -> 4
      [] where = "sent" -> 3
      [] where \in {"failed", "confirm"} -> 2
      [] where = "release" -> 1
      [] OTHER -> 0

CallLeft(w) == StepsFrom(pc[w])

\* Whoever has the lock is on the way to give it back.
OwnerPays ==
    /\ \A w \in Withdrawals : owner = w => pc[w] \in Paying
    /\ owner = "redeem" => redeeming

\* A step of a withdrawal goes on: none goes back, or round in a loop.
LEMMA GoesOn ==
    ASSUME NEW w \in Withdrawals, Withdraw(w)
    PROVE  \E from, to \in PC : Goto(w, from, to) /\ StepsFrom(to) < StepsFrom(from)
<1> DEFINE Onward(from, to) ==
             from \in PC /\ to \in PC /\ Goto(w, from, to) /\ StepsFrom(to) < StepsFrom(from)
<1>1. CASE Arrive(w) \/ Gate(w) \/ Acquire(w) \/ EnterAnyway(w)
  <2>1. \/ Goto(w, "idle", "gate") \/ Goto(w, "gate", "acquire") \/ Goto(w, "gate", "done")
        \/ Goto(w, "acquire", "wallet")
    BY <1>1 DEF Arrive, Gate, Acquire, EnterAnyway, Enter
  <2> QED BY <2>1 DEF StepsFrom, PC
<1>2. CASE ParseFails(w) \/ ReadWallet(w) \/ ReadBooks(w)
  <2>1. \/ Goto(w, "wallet", "release") \/ Goto(w, "wallet", "cap") \/ Goto(w, "cap", "release")
        \/ Goto(w, "cap", "bolt11") \/ Goto(w, "cap", "lnurl")
    BY <1>2 DEF ParseFails, ReadWallet, ReadBooks
  <2> QED BY <2>1 DEF StepsFrom, PC
<1>3. CASE PrepareBolt11(w) \/ PrepareLnurl(w) \/ PrepareFails(w)
  <2>1. \/ Goto(w, "bolt11", "insert") \/ Goto(w, "lnurl", "insert")
        \/ Goto(w, "bolt11", "release") \/ Goto(w, "lnurl", "release")
    BY <1>3 DEF PrepareBolt11, PrepareLnurl, PrepareFails
  <2> QED BY <2>1 DEF StepsFrom, PC
<1>4. CASE InsertOperatorTx(w) \/ SetIdempotencyKey(w) \/ Send(w) \/ SendFails(w)
  <2>1. \/ Goto(w, "insert", "key") \/ Goto(w, "key", "send") \/ Goto(w, "send", "sent")
        \/ Goto(w, "send", "failed")
    BY <1>4 DEF InsertOperatorTx, SetIdempotencyKey, Send, SendFails
  <2> QED BY <2>1 DEF StepsFrom, PC
<1>5. CASE MarkFailed(w) \/ SetPaymentID(w) \/ Confirm(w) \/ Release(w)
  <2>1. \/ Goto(w, "failed", "release") \/ Goto(w, "sent", "confirm")
        \/ Goto(w, "confirm", "release") \/ Goto(w, "release", "done")
    BY <1>5 DEF MarkFailed, SetPaymentID, Confirm, Release
  <2> QED BY <2>1 DEF StepsFrom, PC
<1> QED BY <1>1, <1>2, <1>3, <1>4, <1>5 DEF Withdraw

\* What moves a withdrawal, and how far it has to go then.
CallMoves ==
    \A w \in Withdrawals :
        /\ CallLeft(w)' <= CallLeft(w)
        /\ Withdraw(w) => CallLeft(w)' < CallLeft(w)
        /\ pc'[w] # pc[w] => Withdraw(w) \/ Crash

\* Only a step of the withdrawal itself, or a crash, changes where it is.
LEMMA StepMoves == PhaseInv /\ [Next]_vars => CallMoves
<1> SUFFICES ASSUME PhaseInv, [Next]_vars PROVE CallMoves
  OBVIOUS
<1>0. /\ \A where : StepsFrom(where) \in Nat
      /\ pc \in [Withdrawals -> PC]
  BY DEF StepsFrom, PhaseInv, TypeOK
<1>1. ASSUME NEW u \in Withdrawals, Withdraw(u) PROVE CallMoves
  <2>1. PICK from \in PC, to \in PC : Goto(u, from, to) /\ StepsFrom(to) < StepsFrom(from)
    BY <1>1, GoesOn
  <2>2. pc[u] = from /\ pc'[u] = to /\ \A w \in Withdrawals \ {u} : pc'[w] = pc[w]
    BY <2>1, GotoType
  <2>3. \A w \in Withdrawals \ {u} : ~Withdraw(w) \/ CallLeft(w)' < CallLeft(w)
    <3>1. ASSUME NEW w \in Withdrawals \ {u}, Withdraw(w) PROVE FALSE
      <4>1. PICK f \in PC, t \in PC : Goto(w, f, t) /\ StepsFrom(t) < StepsFrom(f)
        BY <3>1, GoesOn
      <4>2. pc[w] = f /\ pc'[w] = t
        BY <4>1, GotoType
      <4> QED BY <1>0, <2>2, <4>1, <4>2
    <3> QED BY <3>1
  <2>4. CallLeft(u)' < CallLeft(u)
    BY <2>1, <2>2 DEF CallLeft
  <2>5. \A w \in Withdrawals \ {u} : CallLeft(w)' = CallLeft(w)
    BY <2>2 DEF CallLeft
  <2>6. \A w \in Withdrawals : CallLeft(w) \in Nat /\ CallLeft(w)' \in Nat
    BY <1>0 DEF CallLeft
  <2> QED BY <1>1, <2>2, <2>3, <2>4, <2>5, <2>6 DEF CallMoves
<1>2. ASSUME pc' = pc, NEW w \in Withdrawals PROVE ~Withdraw(w)
  <2>1. SUFFICES ASSUME Withdraw(w) PROVE FALSE
    OBVIOUS
  <2>2. PICK f \in PC, t \in PC : Goto(w, f, t) /\ StepsFrom(t) < StepsFrom(f)
    BY <2>1, GoesOn
  <2> QED BY <1>0, <1>2, <2>2, GotoType
<1>3. CASE World \/ StartUp \/ UNCHANGED vars
  <2>1. pc' = pc
    BY <1>3, OthersHold
  <2> QED BY <1>0, <1>2, <2>1 DEF CallMoves, CallLeft
<1>4. CASE Crash
  <2>1. pc' = [w \in Withdrawals |-> IF pc[w] \in {"idle", "done"} THEN pc[w] ELSE "lost"]
    BY <1>4 DEF Crash
  <2>2. StepsFrom("lost") = 0
    BY DEF StepsFrom
  <2>3. \A w \in Withdrawals : CallLeft(w)' \in {CallLeft(w), 0} /\ CallLeft(w) \in Nat
    BY <1>0, <2>1, <2>2 DEF CallLeft
  <2>4. ASSUME NEW w \in Withdrawals PROVE ~Withdraw(w)
    <3>1. SUFFICES ASSUME Withdraw(w) PROVE FALSE
      OBVIOUS
    <3>2. PICK f \in PC, t \in PC : Goto(w, f, t)
      BY <3>1, GoesOn
    <3>3. Serving /\ boot' = boot
      BY <3>2, GotoType
    <3> QED BY <1>4, <3>3 DEF Crash, Serving
  <2> QED BY <1>4, <2>3, <2>4 DEF CallMoves
<1> QED BY <1>1, <1>3, <1>4 DEF Next

\* A withdrawal that has the lock keeps it to its last step, which gives it back
\* (admin.go:251-252).
LEMMA CallKeepsOwner ==
    ASSUME PhaseInv, OwnerPays, NEW w \in Withdrawals, Withdraw(w)
    PROVE  OwnerPays'
<1> USE DEF Paying, PC
<1>0. w \notin {"redeem", "nobody", "cooldown", "broken"}
  BY OperatorAssumption
<1>1. CASE Acquire(w) \/ EnterAnyway(w)
  <2>1. owner' \in {w, "broken"} /\ pc'[w] = "wallet"
    BY <1>1, GotoType DEF Acquire, EnterAnyway, Enter, Lock!Acquire
  <2>2. \A u \in Withdrawals : u # "broken"
    BY OperatorAssumption
  <2> QED BY <1>0, <2>1, <2>2 DEF OwnerPays
<1>2. CASE Release(w)
  <2>1. /\ \A u \in Withdrawals \ {w} : pc'[u] = pc[u]
        /\ redeeming' = redeeming
    BY <1>2, GotoType DEF Release
  <2>2. owner' # w /\ owner' \in {owner, "cooldown"}
    BY <1>0, <1>2 DEF Release, Lock!Pay
  <2>3. \A u \in Withdrawals : u # "cooldown"
    BY OperatorAssumption
  <2> QED BY <2>1, <2>2, <2>3 DEF OwnerPays
<1>3. CASE ~(Acquire(w) \/ EnterAnyway(w) \/ Release(w))
  <2>1. PICK from \in PC, to \in PC :
             /\ Goto(w, from, to) /\ UNCHANGED owner
             /\ from \in Paying => to \in Paying
    BY <1>3 DEF Withdraw, Arrive, Gate, ParseFails, ReadWallet, ReadBooks, PrepareBolt11,
         PrepareLnurl, PrepareFails, InsertOperatorTx, SetIdempotencyKey, Send, SendFails,
         MarkFailed, SetPaymentID, Confirm, Ask
  <2>2. /\ \A u \in Withdrawals \ {w} : pc'[u] = pc[u]
        /\ redeeming' = redeeming /\ pc[w] = from /\ pc'[w] = to
    BY <2>1, GotoType
  <2> QED BY <2>1, <2>2 DEF OwnerPays
<1> QED BY <1>1, <1>2, <1>3

\* So does every other step: a redeem has it while it runs, and a crash takes it away.
LEMMA StepKeepsOwner == PhaseInv /\ OwnerPays /\ [Next]_vars => OwnerPays'
<1> SUFFICES ASSUME PhaseInv, OwnerPays, [Next]_vars PROVE OwnerPays'
  OBVIOUS
<1>0. \A w \in Withdrawals : w \notin {"redeem", "nobody", "cooldown", "broken"}
  BY OperatorAssumption
<1>1. CASE World \/ StartUp \/ UNCHANGED vars
  BY <1>0, <1>1, OthersHold DEF OwnerPays
<1>2. CASE Crash
  BY <1>0, <1>2 DEF Crash, OwnerPays
<1> QED BY <1>1, <1>2, CallKeepsOwner DEF Next

\* Whatever fails on the way, a withdrawal comes to its end in twelve steps of its own at
\* most: nothing but a crash takes it from where it is, and nothing sends it back
\* (admin.go:27-53, 250-362).
THEOREM WithdrawEnds == Spec => [][CallMoves]_vars
BY InitPhase, StepPhase, StepMoves, PTL DEF Spec

\* The lock is never left with a withdrawal or a redeem that is over: whoever has it is
\* before its deferred releaseAfter, which, with WithdrawEnds, comes (admin.go:251-252).
THEOREM LockComesBack == Spec => []OwnerPays
<1>1. Init => PhaseInv /\ OwnerPays
  <2>1. Init => OwnerPays
    BY OperatorAssumption DEF Init, OwnerPays
  <2> QED BY <2>1, InitPhase
<1>2. PhaseInv /\ OwnerPays /\ [Next]_vars => PhaseInv' /\ OwnerPays'
  BY StepPhase, StepKeepsOwner
<1> QED BY <1>1, <1>2, PTL DEF Spec

\* The steps that start-up has left: the rows are listed once and each is visited once,
\* settled or not (start-up.go:197-239).
BootLeft ==
    CASE boot.pc = "list"  -> Cardinality(Withdrawals) + 2
      [] boot.pc = "visit" -> Cardinality(boot.todo) + 1
      [] OTHER             -> 0

BootMoves ==
    /\ StartUp => BootLeft' < BootLeft
    /\ StartUp \/ Crash \/ boot' = boot

\* Every step of start-up brings it nearer to serving, and nothing else moves it.
LEMMA StepBoots == PhaseInv /\ [Next]_vars => BootMoves
<1> SUFFICES ASSUME PhaseInv, [Next]_vars PROVE BootMoves
  OBVIOUS
<1>t. boot \in [pc : {"list", "visit", "served"}, todo : SUBSET Withdrawals]
  BY DEF PhaseInv, TypeOK
<1>f. \A S \in SUBSET Withdrawals :
         /\ Cardinality(S) \in Nat /\ Cardinality(S) <= Cardinality(Withdrawals)
         /\ \A w \in S : Cardinality(S \ {w}) = Cardinality(S) - 1
  BY OperatorAssumption, FS_Subset, FS_CardinalityType, FS_RemoveElement
<1>1. CASE BootList
  <2>1. boot.pc = "list" /\ boot'.pc = "visit" /\ boot'.todo \in SUBSET Withdrawals
    BY <1>1 DEF BootList
  <2> QED BY <1>f, <1>1, <2>1 DEF BootMoves, BootLeft, StartUp
<1>2. CASE BootServes
  <2>1. boot.pc = "visit" /\ boot'.pc = "served"
    BY <1>t, <1>2 DEF BootServes
  <2> QED BY <1>f, <1>t, <1>2, <2>1 DEF BootMoves, BootLeft, StartUp
<1>3. ASSUME NEW w \in Withdrawals,
             BootFailsUnsent(w) \/ BootConfirms(w) \/ BootFails(w) \/ BootSkips(w)
      PROVE  BootMoves
  <2>1. PICK value : BootVisit(w, value)
    BY <1>3 DEF BootFailsUnsent, BootConfirms, BootFails, BootSkips
  <2>2. boot.pc = "visit" /\ boot'.pc = "visit" /\ w \in boot.todo /\ boot'.todo = boot.todo \ {w}
    BY <1>t, <2>1 DEF BootVisit
  <2>3. Cardinality(boot'.todo) = Cardinality(boot.todo) - 1
    BY <1>f, <1>t, <2>2
  <2>4. Cardinality(boot.todo) \in Nat
    BY <1>f, <1>t
  <2>5. BootLeft' < BootLeft
    BY <2>2, <2>3, <2>4 DEF BootLeft
  <2> QED BY <1>3, <2>5 DEF BootMoves, StartUp
<1>4. CASE ~StartUp
  <2>1. World \/ UNCHANGED vars => boot' = boot
    BY DEF World, Fund, Earn, RedeemAcquires, RedeemPays, PaymentSettles, CooldownEnds, vars
  <2>2. ASSUME NEW w \in Withdrawals, Withdraw(w) PROVE boot' = boot
    BY <2>2, GoesOn, GotoType
  <2> QED BY <1>4, <2>1, <2>2 DEF BootMoves, Next
<1> QED BY <1>1, <1>2, <1>3, <1>4 DEF StartUp

\* Start-up comes to serving in two steps more than there are withdrawals, at most: a row
\* that cannot be settled is passed over, and none is listed twice (start-up.go:197-239).
THEOREM StartupEnds == Spec => [][BootMoves]_vars
BY InitPhase, StepPhase, StepBoots, PTL DEF Spec
================================================================================
