------------------------ MODULE PaymentSemaphoreProofs ------------------------
(***************************************************************************)
(* For any number of withdrawals, impatient callers and releases under way:*)
(* the state has its type, and while every caller has respected a timeout  *)
(* the semaphore is exclusive and implements the steps of PaymentLock.     *)
(* Timeouts respected or not, the worker yields to withdrawals, and once   *)
(* somebody is to wake it, that comes nearer and is never undone.          *)
(***************************************************************************)
EXTENDS PaymentSemaphore, FiniteSetTheorems, TLAPS

\* The withdrawals that the counter counts.
Inside == {w \in Withdrawals : pc[w] \in {"get", "select", "taken", "late"}}

Counted == waiters = Cardinality(Inside)

\* The inductive invariant.  Without TokenHeld a second caller could take the
\* token while another one holds it; without Counted the decrement of a
\* withdrawal that leaves could take the counter below zero.
IInv == TypeOK /\ Counted /\ TokenHeld /\ OnePaymentPerCooldown

\* A withdrawal that enters is one more in the set that the counter counts
\* (payment_mutex.go:50).
LEMMA OneMoreInside ==
    ASSUME TypeOK, NEW w \in Withdrawals, pc[w] = "idle",
           pc' = [pc EXCEPT ![w] = "get"]
    PROVE  Cardinality(Inside') = Cardinality(Inside) + 1
<1>1. IsFiniteSet(Inside)
  BY CallersAssumption, FS_Subset DEF Inside
<1>2. w \notin Inside
  BY DEF Inside
<1>3. Inside' = Inside \cup {w}
  BY DEF Inside, TypeOK, PcTypeOK, Goroutines, Callers
<1> QED BY <1>1, <1>2, <1>3, FS_AddElement

\* One that leaves is one less (payment_mutex.go:51).
LEMMA OneLessInside ==
    ASSUME TypeOK, NEW w \in Withdrawals, pc[w] \in {"taken", "late"},
           NEW to \in {"idle", "pay"}, pc' = [pc EXCEPT ![w] = to]
    PROVE  /\ Cardinality(Inside') = Cardinality(Inside) - 1
           /\ Cardinality(Inside') \in Nat
<1>1. IsFiniteSet(Inside)
  BY CallersAssumption, FS_Subset DEF Inside
<1>2. w \in Inside
  BY DEF Inside
<1>3. Inside' = Inside \ {w}
  BY DEF Inside, TypeOK, PcTypeOK, Goroutines, Callers
<1>4. IsFiniteSet(Inside')
  BY <1>1, <1>3, FS_Subset
<1> QED BY <1>1, <1>2, <1>3, <1>4, FS_RemoveElement, FS_CardinalityType

\* Every other step leaves the set, and the counter, alone.
LEMMA SameInside ==
    ASSUME Counted, waiters' = waiters,
           \A w \in Withdrawals : pc'[w] \in {"get", "select", "taken", "late"}
                              <=> pc[w] \in {"get", "select", "taken", "late"}
    PROVE  Counted'
BY DEF Counted, Inside

\* The initial state satisfies the invariant.
LEMMA InitIInv == Init => IInv
<1> SUFFICES ASSUME Init PROVE IInv
  OBVIOUS
<1> USE DEF Init
<1>1. TypeOK
  BY CallersAssumption DEF TypeOK, PcTypeOK, Goroutines, Callers, WithdrawalPC, RefundPC, ReleaserPC,
     Channel
<1>2. Inside = {}
  BY DEF Inside, Goroutines, Callers
<1>3. Counted
  BY <1>2, FS_EmptySet DEF Counted
<1>4. TokenHeld /\ OnePaymentPerCooldown
  BY CallersAssumption DEF TokenHeld, OnePaymentPerCooldown, Holding, Goroutines, Callers
<1> QED BY <1>1, <1>3, <1>4 DEF IInv

-----------------------------------------------------------------------------
(* Steps that change one program counter keep the counters typed.          *)

\* A withdrawal goes on ...
LEMMA WithdrawalMoves ==
    ASSUME PcTypeOK, NEW w \in Withdrawals, NEW to \in WithdrawalPC,
           pc' = [pc EXCEPT ![w] = to]
    PROVE  PcTypeOK'
BY CallersAssumption DEF PcTypeOK, Goroutines, Callers

\* ... or the refund worker ...
LEMMA RefundMoves ==
    ASSUME PcTypeOK, NEW to \in RefundPC, pc' = [pc EXCEPT ![Refund] = to]
    PROVE  PcTypeOK'
BY CallersAssumption DEF PcTypeOK, Goroutines, Callers

\* ... or the goroutine of a releaseAfter.
LEMMA ReleaserMoves ==
    ASSUME PcTypeOK, NEW r \in Releasers, NEW to \in ReleaserPC,
           pc' = [pc EXCEPT ![r] = to]
    PROVE  PcTypeOK'
BY CallersAssumption DEF PcTypeOK, Goroutines, Callers

-----------------------------------------------------------------------------
(* What the steps of acquireForWithdrawal keep                             *)

\* Who enters is counted and who leaves was, by timeout or with the token.
LEMMA WithdrawalKeepsType ==
    ASSUME IInv, NEW w \in Withdrawals, WEnter(w) \/ AcquireForWithdrawal(w)
    PROVE  TypeOK' /\ Counted'
<1> USE DEF Goto, GetReleasedCh, Leave
<1>t. TypeOK /\ PcTypeOK /\ Counted /\ w \in Callers
  BY DEF IInv, TypeOK, Callers
<1>1. CASE WEnter(w)
  <2>1. PcTypeOK'
    BY <1>t, <1>1, WithdrawalMoves DEF WEnter, WithdrawalPC
  <2>2. Counted'
    BY <1>t, <1>1, OneMoreInside DEF WEnter, Counted
  <2> QED BY <1>t, <1>1, <2>1, <2>2 DEF WEnter, TypeOK
<1>2. CASE WGetReleased(w) \/ WTake(w) \/ WTimeout(w) \/ WWake(w)
  <2>1. PcTypeOK'
    BY <1>t, <1>2, WithdrawalMoves DEF WGetReleased, WTake, WTimeout, WWake, WithdrawalPC
  <2>2. relCh' \in [Callers -> Channel] /\ token' \in BOOLEAN
    BY <1>t, <1>2 DEF WGetReleased, WTake, WTimeout, WWake, TypeOK, Channel
  <2>3. UNCHANGED <<waiters, overdrawn>>
    BY <1>2 DEF WGetReleased, WTake, WTimeout, WWake
  <2>4. \A v \in Withdrawals : pc'[v] \in {"get", "select", "taken", "late"}
                           <=> pc[v] \in {"get", "select", "taken", "late"}
    BY <1>t, <1>2 DEF WGetReleased, WTake, WTimeout, WWake, PcTypeOK, Goroutines, Callers
  <2> QED BY <1>t, <2>1, <2>2, <2>3, <2>4, SameInside DEF TypeOK
<1>3. CASE WReturnTrue(w) \/ WReturnFalse(w) \/ WDisregard(w)
  <2>1. PICK to \in {"idle", "pay"} : pc' = [pc EXCEPT ![w] = to]
    BY <1>3 DEF WReturnTrue, WReturnFalse, WDisregard
  <2>2. /\ pc[w] \in {"taken", "late"} /\ waiters' = waiters - 1 /\ UNCHANGED token
        /\ relCh' = [relCh EXCEPT ![w] = "none"]
        /\ overdrawn' \in {overdrawn, overdrawn + 1}
    BY <1>3 DEF WReturnTrue, WReturnFalse, WDisregard
  <2>3. Counted' /\ waiters' \in Nat
    BY <1>t, <2>1, <2>2, OneLessInside DEF Counted
  <2>4. PcTypeOK'
    BY <1>t, <2>1, WithdrawalMoves DEF WithdrawalPC
  <2>5. relCh' \in [Callers -> Channel]
    BY <1>t, <2>2 DEF TypeOK, Channel
  <2> QED BY <1>t, <2>2, <2>3, <2>4, <2>5 DEF TypeOK
<1> QED BY <1>1, <1>2, <1>3 DEF AcquireForWithdrawal

-----------------------------------------------------------------------------
(* What doRelease and releaseAfter keep                                    *)

\* No step of a release or of the worker counts or uncounts a withdrawal.
LEMMA OthersKeepCount ==
    ASSUME IInv, waiters' = waiters,
           \A w \in Withdrawals : pc'[w] # pc[w] => pc[w] = "pay" /\ pc'[w] = "idle"
    PROVE  Counted'
BY SameInside DEF IInv

\* A release counts nobody.
LEMMA DoReleaseKeepsType ==
    ASSUME IInv, NEW g \in Releasers \cup {Refund}, NEW done \in {"idle", "check"},
           g = Refund <=> done = "check", DoRelease(g, done)
    PROVE  TypeOK' /\ Counted'
<1> USE CallersAssumption DEF Goto
<1>t. PcTypeOK /\ TypeOK /\ g \in Goroutines /\ g \notin Withdrawals
  BY DEF IInv, TypeOK, Goroutines, Callers
<1>0. PICK to \in {"drain", "close", done} : pc' = [pc EXCEPT ![g] = to]
  BY DEF DoRelease, Swap, Drain, Close
<1>1. PcTypeOK'
  <2>1. CASE g = Refund
    BY <1>t, <1>0, <2>1, RefundMoves DEF RefundPC
  <2>2. CASE g # Refund
    BY <1>t, <1>0, <2>2, ReleaserMoves DEF ReleaserPC
  <2> QED BY <2>1, <2>2
<1>2. UNCHANGED <<waiters, overdrawn>> /\ token' \in BOOLEAN
  BY <1>t DEF DoRelease, Swap, Drain, Close, TypeOK
<1>3. relCh' \in [Callers -> Channel]
  BY <1>t DEF DoRelease, Swap, Drain, Close, TypeOK, Channel
<1>4. Counted'
  BY <1>t, <1>0, <1>2, OthersKeepCount DEF PcTypeOK, Goroutines, Callers
<1> QED BY <1>t, <1>1, <1>2, <1>3, <1>4 DEF TypeOK

\* Nor does the start of its goroutine.
LEMMA ReleaseAfterKeepsType ==
    ASSUME IInv, NEW c \in Callers, ReleaseAfter(c)
    PROVE  TypeOK' /\ Counted'
<1> USE CallersAssumption
<1>t. PcTypeOK /\ TypeOK /\ c \notin Releasers
  BY DEF IInv, TypeOK, Goroutines, Callers
<1>1. PICK r \in Releasers : /\ pc[r] = "idle"
                             /\ pc' = [pc EXCEPT ![c] = "idle", ![r] = "swap"]
  BY DEF ReleaseAfter
<1>2. pc[c] = "pay" /\ UNCHANGED <<token, waiters, relCh, overdrawn>>
  BY DEF ReleaseAfter
<1>3. PcTypeOK'
  BY <1>t, <1>1, <1>2 DEF PcTypeOK, Goroutines, Callers, WithdrawalPC, RefundPC, ReleaserPC
<1>4. Counted'
  <2>1. \A w \in Withdrawals : pc'[w] # pc[w] => w = c
    BY <1>t, <1>1 DEF PcTypeOK, Goroutines, Callers
  <2>2. pc'[c] = "idle"
    BY <1>t, <1>1 DEF PcTypeOK, Goroutines, Callers
  <2> QED BY <1>2, <2>1, <2>2, OthersKeepCount
<1> QED BY <1>t, <1>2, <1>3, <1>4 DEF TypeOK

\* The worker reads the counter and leaves it.
LEMMA RefundKeepsType ==
    ASSUME IInv, REnter \/ AcquireForRefund
    PROVE  TypeOK' /\ Counted'
<1> USE CallersAssumption DEF Goto, GetReleasedCh
<1>t. PcTypeOK /\ TypeOK /\ token \in BOOLEAN /\ Refund \in Callers /\ Refund \notin Withdrawals
  BY DEF IInv, TypeOK, Callers
<1>1. CASE DoRelease(Refund, "check")
  BY <1>1, DoReleaseKeepsType
<1>2. CASE REnter \/ RCheckWaiters \/ RGetReleased \/ RTake \/ RDefault \/ RWake
           \/ RRecheckWaiters
  <2> USE DEF REnter, RCheckWaiters, RGetReleased, RTake, RDefault, RWake, RRecheckWaiters
  <2>1. PICK to \in RefundPC : pc' = [pc EXCEPT ![Refund] = to]
    BY <1>2 DEF RefundPC
  <2>2. PcTypeOK'
    BY <1>t, <2>1, RefundMoves
  <2>3. UNCHANGED <<waiters, overdrawn>> /\ token' \in BOOLEAN
    BY <1>t, <1>2
  <2>4. relCh' \in [Callers -> Channel]
    BY <1>t, <1>2 DEF TypeOK, Channel
  <2>5. Counted'
    BY <1>t, <2>1, <2>3, OthersKeepCount DEF PcTypeOK, Goroutines, Callers
  <2> QED BY <1>t, <2>2, <2>3, <2>4, <2>5 DEF TypeOK
<1> QED BY <1>1, <1>2 DEF AcquireForRefund

-----------------------------------------------------------------------------
(* What a step does to the token and to those that have it to give back:   *)
(* the only five things that can happen.                                   *)

NothingHeld ==
    /\ UNCHANGED <<token, overdrawn>>
    /\ \A g \in Goroutines : Holding(g)' <=> Holding(g)

TakenBy(c) ==
    /\ ~token /\ token' = TRUE /\ UNCHANGED overdrawn
    /\ \A g \in Goroutines : Holding(g)' <=> Holding(g) \/ g = c

GivenBack(h) ==
    /\ token /\ token' = FALSE /\ UNCHANGED overdrawn
    /\ Holding(h)
    /\ \A g \in Goroutines : Holding(g)' <=> Holding(g) /\ g # h

PassedOn(c, r) ==
    /\ UNCHANGED <<token, overdrawn>>
    /\ Holding(c) /\ c # r
    /\ \A g \in Goroutines : Holding(g)' <=> (Holding(g) /\ g # c) \/ g = r

Disregarded == overdrawn' = overdrawn + 1

Effect ==
    \/ NothingHeld
    \/ \E c \in Callers : TakenBy(c)
    \/ \E h \in Releasers \cup {Refund} : GivenBack(h)
    \/ \E c \in Callers, r \in Releasers : PassedOn(c, r)
    \/ Disregarded

\* A withdrawal takes the token, changes nothing, or has timed out ...
LEMMA WithdrawalEffect ==
    ASSUME TypeOK, NEW w \in Withdrawals, WEnter(w) \/ AcquireForWithdrawal(w)
    PROVE  Effect
<1> USE CallersAssumption DEF Goto, GetReleasedCh, Leave
<1>t. PcTypeOK /\ w \in Callers
  BY DEF TypeOK, Callers
<1>1. CASE WTake(w)
  <2>1. TakenBy(w)
    BY <1>t, <1>1 DEF WTake, TakenBy, Holding, PcTypeOK, Goroutines, Callers
  <2> QED BY <1>t, <2>1 DEF Effect
<1>2. CASE WDisregard(w)
  BY <1>2 DEF WDisregard, Effect, Disregarded
<1>3. CASE \/ WEnter(w) \/ WGetReleased(w) \/ WTimeout(w) \/ WWake(w)
           \/ WReturnTrue(w) \/ WReturnFalse(w)
  <2>1. UNCHANGED <<token, overdrawn>>
    BY <1>3 DEF WEnter, WGetReleased, WTimeout, WWake, WReturnTrue, WReturnFalse
  <2>2. \A g \in Goroutines : Holding(g)' <=> Holding(g)
    BY <1>t, <1>3 DEF WEnter, WGetReleased, WTimeout, WWake, WReturnTrue, WReturnFalse,
       Holding, PcTypeOK, Goroutines, Callers
  <2> QED BY <2>1, <2>2 DEF NothingHeld, Effect
<1> QED BY <1>1, <1>2, <1>3 DEF AcquireForWithdrawal

\* ... a release gives it back, or has only closed the channel ...
LEMMA DoReleaseEffect ==
    ASSUME TypeOK, NEW g \in Releasers \cup {Refund}, NEW done \in {"idle", "check"},
           DoRelease(g, done)
    PROVE  Effect
<1> USE CallersAssumption DEF Goto
<1>t. PcTypeOK /\ g \in Goroutines /\ g \notin Withdrawals
  BY DEF TypeOK, Goroutines, Callers
<1>1. CASE Drain(g, "close")
  <2>1. GivenBack(g)
    BY <1>t, <1>1 DEF Drain, GivenBack, Holding, PcTypeOK, Goroutines, Callers
  <2> QED BY <2>1 DEF Effect
<1>2. CASE Swap(g, "drain") \/ Close(g, done)
  <2>1. NothingHeld
    BY <1>t, <1>2 DEF Swap, Close, NothingHeld, Holding, PcTypeOK, Goroutines, Callers
  <2> QED BY <2>1 DEF Effect
<1> QED BY <1>1, <1>2 DEF DoRelease

\* ... a caller that has paid passes it on ...
LEMMA ReleaseAfterEffect ==
    ASSUME TypeOK, NEW c \in Callers, ReleaseAfter(c)
    PROVE  Effect
<1> USE CallersAssumption
<1>1. PICK r \in Releasers : /\ pc[r] = "idle"
                             /\ pc' = [pc EXCEPT ![c] = "idle", ![r] = "swap"]
  BY DEF ReleaseAfter
<1>2. pc[c] = "pay" /\ UNCHANGED <<token, overdrawn>>
  BY DEF ReleaseAfter
<1>3. \A g \in Goroutines : Holding(g)' <=> (Holding(g) /\ g # c) \/ g = r
  BY <1>1 DEF Holding, TypeOK, PcTypeOK, Goroutines, Callers
<1>4. Holding(c) /\ c # r
  BY <1>1, <1>2 DEF Holding, Goroutines, Callers
<1> QED BY <1>2, <1>3, <1>4 DEF PassedOn, Effect

\* ... and the worker takes it, gives it back, or waits.
LEMMA RefundEffect ==
    ASSUME TypeOK, REnter \/ AcquireForRefund
    PROVE  Effect
<1> USE CallersAssumption DEF Goto, GetReleasedCh
<1>t. PcTypeOK /\ Refund \in Callers
  BY DEF TypeOK, Callers
<1>1. CASE DoRelease(Refund, "check")
  BY <1>1, DoReleaseEffect
<1>2. CASE RTake
  <2>1. TakenBy(Refund)
    BY <1>t, <1>2 DEF RTake, TakenBy, Holding, PcTypeOK, Goroutines, Callers
  <2> QED BY <1>t, <2>1 DEF Effect
<1>3. CASE REnter \/ RCheckWaiters \/ RGetReleased \/ RDefault \/ RWake \/ RRecheckWaiters
  <2>1. \A g \in Goroutines : Holding(g)' <=> Holding(g)
    BY <1>t, <1>3 DEF REnter, RCheckWaiters, RGetReleased, RDefault, RWake, RRecheckWaiters,
       Holding, PcTypeOK, Goroutines, Callers
  <2>2. UNCHANGED <<token, overdrawn>>
    BY <1>3 DEF REnter, RCheckWaiters, RGetReleased, RDefault, RWake, RRecheckWaiters
  <2> QED BY <2>1, <2>2 DEF NothingHeld, Effect
<1> QED BY <1>1, <1>2, <1>3 DEF AcquireForRefund

\* So every step has one of these effects.
LEMMA NextEffect == TypeOK /\ [Next]_vars => Effect
<1> SUFFICES ASSUME TypeOK, [Next]_vars PROVE Effect
  OBVIOUS
<1>1. CASE UNCHANGED vars
  BY <1>1 DEF vars, Effect, NothingHeld, Holding
<1>2. CASE Next
  BY <1>2, WithdrawalEffect, RefundEffect, ReleaseAfterEffect, DoReleaseEffect DEF Next
<1> QED BY <1>1, <1>2

-----------------------------------------------------------------------------
(* The theorems                                                            *)

\* Each of the five effects keeps the token with exactly one holder.
LEMMA EffectKeepsLock ==
    TypeOK /\ TokenHeld /\ OnePaymentPerCooldown /\ Effect
        => TokenHeld' /\ OnePaymentPerCooldown'
<1> SUFFICES ASSUME overdrawn \in Nat, token \in BOOLEAN, TokenHeld, OnePaymentPerCooldown,
                    Effect
             PROVE  TokenHeld' /\ OnePaymentPerCooldown'
  BY DEF TypeOK
<1> USE DEF TokenHeld, OnePaymentPerCooldown
<1>1. CASE NothingHeld
  BY <1>1 DEF NothingHeld
<1>2. ASSUME NEW c \in Callers, TakenBy(c) PROVE TokenHeld' /\ OnePaymentPerCooldown'
  BY <1>2 DEF TakenBy, Goroutines
<1>3. ASSUME NEW h \in Releasers \cup {Refund}, GivenBack(h)
      PROVE  TokenHeld' /\ OnePaymentPerCooldown'
  BY <1>3 DEF GivenBack, Goroutines, Callers
<1>4. ASSUME NEW c \in Callers, NEW r \in Releasers, PassedOn(c, r)
      PROVE  TokenHeld' /\ OnePaymentPerCooldown'
  BY <1>4 DEF PassedOn, Goroutines
<1>5. CASE Disregarded
  BY <1>5 DEF Disregarded
<1> QED BY <1>1, <1>2, <1>3, <1>4, <1>5 DEF Effect

\* The invariant is inductive.
LEMMA NextIInv == IInv /\ [Next]_vars => IInv'
<1> SUFFICES ASSUME IInv, [Next]_vars PROVE IInv'
  OBVIOUS
<1>1. TokenHeld' /\ OnePaymentPerCooldown'
  BY NextEffect, EffectKeepsLock DEF IInv
<1>2. TypeOK' /\ Counted'
  <2>1. CASE \E w \in Withdrawals : WEnter(w) \/ AcquireForWithdrawal(w)
    BY <2>1, WithdrawalKeepsType
  <2>2. CASE REnter \/ AcquireForRefund
    BY <2>2, RefundKeepsType
  <2>3. CASE \E c \in Callers : ReleaseAfter(c)
    BY <2>3, ReleaseAfterKeepsType
  <2>4. CASE \E r \in Releasers : DoRelease(r, "idle")
    BY <2>4, DoReleaseKeepsType, CallersAssumption
  <2>5. CASE UNCHANGED vars
    BY <2>5 DEF vars, IInv, TypeOK, PcTypeOK, Counted, Inside
  <2> QED BY <2>1, <2>2, <2>3, <2>4, <2>5 DEF Next
<1> QED BY <1>1, <1>2 DEF IInv

\* The invariant holds in every reachable state of payment_mutex.go.
THEOREM Invariance == Spec => []IInv
BY InitIInv, NextIInv, PTL DEF Spec

\* Every variable keeps its type; in particular withdrawWaiters, the sum of the
\* Add(1) and Add(-1) of payment_mutex.go:50-51, never goes below zero.
THEOREM TypeCorrect == Spec => []TypeOK
<1>1. IInv => TypeOK
  BY DEF IInv
<1> QED BY <1>1, Invariance, PTL

\* While every caller has respected a timeout, at most one goroutine pays or
\* cools down (payment_mutex.go:49-88).
THEOREM Exclusion == Spec => []OnePaymentPerCooldown
<1>1. IInv => OnePaymentPerCooldown
  BY DEF IInv
<1> QED BY <1>1, Invariance, PTL

\* While every caller has respected a timeout, the receive in doRelease
\* (payment_mutex.go:37) finds the token of the goroutine that releases.
THEOREM ReleaseNeverBlocks == Spec => []TokenHeld
<1>1. IInv => TokenHeld
  BY DEF IInv
<1> QED BY <1>1, Invariance, PTL

\* The worker goes on to pay where it has the token and sees no withdrawal, and then
\* there is none: the counter is not behind.
Yields == pc[Refund] # "pay" /\ pc'[Refund] = "pay"
            => \A w \in Withdrawals : pc[w] \notin {"get", "select"}

\* The worker starts to pay by its second look at the counter, and in no other way
\* (payment_mutex.go:79).
LEMMA RefundSteps ==
    ASSUME TypeOK, [Next]_vars, pc[Refund] # "pay", pc'[Refund] = "pay"
    PROVE  pc[Refund] = "recheck" /\ waiters = 0
<1> USE CallersAssumption DEF Goto
<1>1. PcTypeOK /\ Refund \in Goroutines /\ waiters \in Nat
  BY DEF TypeOK, Goroutines, Callers
<1>2. ASSUME NEW g \in Goroutines, g # Refund, NEW to, pc' = [pc EXCEPT ![g] = to] PROVE FALSE
  BY <1>1, <1>2 DEF PcTypeOK
<1>3. CASE \E w \in Withdrawals : WEnter(w) \/ AcquireForWithdrawal(w)
  <2>1. PICK w \in Withdrawals : \E to : pc' = [pc EXCEPT ![w] = to]
    BY <1>3 DEF WEnter, AcquireForWithdrawal, WGetReleased, WTake, WTimeout, WWake,
                WReturnTrue, WReturnFalse, WDisregard
  <2> QED BY <1>2, <2>1 DEF Goroutines, Callers
<1>4. CASE REnter \/ AcquireForRefund
  <2>1. /\ pc[Refund] = "recheck"
        /\ pc' = [pc EXCEPT ![Refund] = IF waiters > 0 THEN "swap" ELSE "pay"]
    <3>1. CASE RRecheckWaiters
      BY <3>1 DEF RRecheckWaiters
    <3>2. CASE ~RRecheckWaiters
      <4>1. \E to \in {"check", "getwait", "getrel", "wait", "try", "recheck", "drain", "close"} :
              pc' = [pc EXCEPT ![Refund] = to]
        BY <1>4, <3>2 DEF REnter, AcquireForRefund, RCheckWaiters, RGetReleased, RTake, RDefault,
             RWake, DoRelease, Swap, Drain, Close
      <4>2. PICK to \in {"check", "getwait", "getrel", "wait", "try", "recheck", "drain", "close"} :
              pc'[Refund] = to
        BY <1>1, <4>1 DEF PcTypeOK
      <4> QED BY <4>2
    <3> QED BY <3>1, <3>2
  <2>2. pc'[Refund] = IF waiters > 0 THEN "swap" ELSE "pay"
    BY <1>1, <2>1 DEF PcTypeOK
  <2> QED BY <1>1, <2>1, <2>2
<1>5. CASE \E c \in Callers : ReleaseAfter(c)
  <2>1. PICK c \in Callers, r \in Releasers : pc' = [pc EXCEPT ![c] = "idle", ![r] = "swap"]
    BY <1>5 DEF ReleaseAfter
  <2>2. Refund \notin Releasers /\ r # Refund
    BY DEF Callers
  <2>3. pc'[Refund] = IF c = Refund THEN "idle" ELSE pc[Refund]
    BY <1>1, <2>1, <2>2 DEF PcTypeOK
  <2> QED BY <2>3
<1>6. CASE \E r \in Releasers : DoRelease(r, "idle")
  <2>1. PICK r \in Releasers : \E to : pc' = [pc EXCEPT ![r] = to]
    BY <1>6 DEF DoRelease, Swap, Drain, Close
  <2> QED BY <1>2, <2>1 DEF Goroutines, Callers
<1>7. CASE UNCHANGED vars
  BY <1>7 DEF vars
<1> QED BY <1>3, <1>4, <1>5, <1>6, <1>7 DEF Next

\* A step that starts a payment finds no withdrawal inside.
LEMMA StepYields == IInv /\ [Next]_vars => Yields
<1> SUFFICES ASSUME IInv, [Next]_vars, pc[Refund] # "pay", pc'[Refund] = "pay"
             PROVE  \A w \in Withdrawals : pc[w] \notin {"get", "select"}
  BY DEF Yields
<1>1. Cardinality(Inside) = 0
  BY RefundSteps DEF IInv, Counted
<1>2. Inside = {}
  <2>1. IsFiniteSet(Inside)
    BY CallersAssumption, FS_Subset DEF Inside
  <2> QED BY <1>1, <2>1, FS_EmptySet
<1> QED BY <1>2 DEF Inside

\* The refund worker never starts to pay while a redeem or an operator withdrawal waits for the
\* lock, however many come and however they time out (payment_mutex.go:69-88).
THEOREM RefundsYield == Spec => RefundYields
<1>1. Spec => [][Yields]_vars
  BY Invariance, StepYields, PTL DEF Spec
<1> QED BY <1>1, PTL DEF RefundYields, Yields

-----------------------------------------------------------------------------
(* Refinement                                                              *)

\* What Owner is in each of the cases that the invariant leaves.
OwnerValues ==
    /\ overdrawn > 0 => Owner = "broken"
    /\ \A c \in Callers : overdrawn = 0 /\ Holding(c) => Owner = c
    /\ \A r \in Releasers : overdrawn = 0 /\ Holding(r) => Owner = "cooldown"
    /\ overdrawn = 0 /\ (\A g \in Goroutines : ~Holding(g)) => Owner = "nobody"

\* Who owns the lock, read off the goroutines.
LEMMA OwnerValue == IInv => OwnerValues
<1> SUFFICES ASSUME OnePaymentPerCooldown, overdrawn \in Nat PROVE OwnerValues
  BY DEF IInv, TypeOK
<1>1. overdrawn > 0 => Owner = "broken"
  BY DEF Owner
<1>2. ASSUME NEW c \in Callers, overdrawn = 0, Holding(c) PROVE Owner = c
  BY <1>2 DEF Owner, OnePaymentPerCooldown, Goroutines
<1>3. ASSUME NEW r \in Releasers, overdrawn = 0, Holding(r) PROVE Owner = "cooldown"
  <2>1. \A c \in Callers : ~Holding(c)
    BY <1>3, CallersAssumption DEF OnePaymentPerCooldown, Goroutines, Callers
  <2> QED BY <1>3, <2>1 DEF Owner
<1>4. ASSUME overdrawn = 0, \A g \in Goroutines : ~Holding(g) PROVE Owner = "nobody"
  BY <1>4 DEF Owner, Goroutines
<1> QED BY <1>1, <1>2, <1>3, <1>4 DEF OwnerValues

\* The same of the next state.
LEMMA OwnerValueNext == IInv' => OwnerValues'
BY OwnerValue, PTL

\* Who holds the lock, and whether it is broken, decides the owner: when these
\* do not change, neither does the owner.
LEMMA OwnerKept ==
    ASSUME NothingHeld PROVE Owner' = Owner
<1>1. \A c \in Callers : Holding(c)' <=> Holding(c)
  BY DEF NothingHeld, Goroutines
<1>2. \A r \in Releasers : Holding(r)' <=> Holding(r)
  BY DEF NothingHeld, Goroutines
<1> QED BY <1>1, <1>2 DEF NothingHeld, Owner

\* Every step of the semaphore is a step of the abstract lock, or none.
LEMMA StepSimulation == IInv /\ IInv' /\ [Next]_vars => [Lock!Next]_Owner
<1> SUFFICES ASSUME IInv, IInv', Effect PROVE [Lock!Next]_Owner
  BY NextEffect DEF IInv
<1>v. OwnerValues /\ OwnerValues' /\ overdrawn \in Nat /\ overdrawn' \in Nat
  BY OwnerValue, OwnerValueNext DEF IInv, TypeOK
<1>0. CASE overdrawn > 0 /\ overdrawn' > 0
  BY <1>0, <1>v DEF OwnerValues
<1>1. CASE overdrawn = 0 /\ overdrawn' > 0
  <2>1. Owner' = "broken"
    BY <1>1, <1>v DEF OwnerValues
  <2>2. Owner # "broken"
    <3>1. CASE \E g \in Goroutines : Holding(g)
      BY <1>1, <1>v, <3>1, CallersAssumption DEF OwnerValues, Goroutines
    <3>2. CASE \A g \in Goroutines : ~Holding(g)
      BY <1>1, <1>v, <3>2 DEF OwnerValues
    <3> QED BY <3>1, <3>2
  <2> QED BY <2>1, <2>2 DEF Lock!Next, Lock!Disregard
<1>2. CASE overdrawn = 0 /\ overdrawn' = 0
  <2>1. CASE NothingHeld
    BY <2>1, OwnerKept
  <2>2. ASSUME NEW c \in Callers, TakenBy(c) PROVE Lock!Next
    <3>1. Owner = "nobody"
      BY <1>2, <1>v, <2>2 DEF IInv, TokenHeld, TakenBy, OwnerValues
    <3>2. Owner' = c
      BY <1>2, <1>v, <2>2 DEF TakenBy, OwnerValues, Goroutines
    <3> QED BY <3>1, <3>2 DEF Lock!Next, Lock!Acquire, Lock!Callers, Callers
  <2>3. ASSUME NEW h \in Releasers \cup {Refund}, GivenBack(h) PROVE Lock!Next
    <3>1. Owner' = "nobody"
      BY <1>2, <1>v, <2>3 DEF GivenBack, OwnerValues, IInv, TokenHeld
    <3>2. Owner = (IF h = Refund THEN Refund ELSE "cooldown")
      BY <1>2, <1>v, <2>3 DEF GivenBack, OwnerValues, Callers
    <3> QED BY <3>1, <3>2 DEF Lock!Next, Lock!Yield, Lock!Release
  <2>4. ASSUME NEW c \in Callers, NEW r \in Releasers, PassedOn(c, r) PROVE Lock!Next
    <3>1. Owner = c
      BY <1>2, <1>v, <2>4 DEF PassedOn, OwnerValues
    <3>2. Owner' = "cooldown"
      BY <1>2, <1>v, <2>4 DEF PassedOn, OwnerValues, Goroutines
    <3> QED BY <3>1, <3>2 DEF Lock!Next, Lock!Pay, Lock!Callers, Callers
  <2>5. CASE Disregarded
    BY <1>2, <2>5 DEF Disregarded
  <2> QED BY <2>1, <2>2, <2>3, <2>4, <2>5 DEF Effect
<1>3. ~(overdrawn > 0 /\ overdrawn' = 0)
  BY <1>v DEF Effect, NothingHeld, TakenBy, GivenBack, PassedOn, Disregarded
<1> QED BY <1>v, <1>0, <1>1, <1>2, <1>3

\* The semaphore implements the safety part of the abstract lock: Owner starts
\* free and changes as PaymentLock lets it, for every number of goroutines.
THEOREM Refinement == Spec => Lock!Init /\ [][Lock!Next]_Owner
<1>1. Init => Lock!Init
  <2> SUFFICES ASSUME Init PROVE Owner = "nobody"
    BY DEF Lock!Init
  <2>1. OwnerValues
    BY InitIInv, OwnerValue
  <2>2. overdrawn = 0 /\ \A g \in Goroutines : ~Holding(g)
    BY CallersAssumption DEF Init, Holding, Goroutines, Callers
  <2> QED BY <2>1, <2>2 DEF OwnerValues
<1> QED BY <1>1, Invariance, StepSimulation, PTL DEF Spec
-----------------------------------------------------------------------------
(* The safety half of RefundWoken: nothing takes the wake-up away          *)

\* A channel that has been replaced still has its replacer before the close
\* (payment_mutex.go:30-38): no copy of one is forgotten open.
WillBeClosed ==
    \A c \in Callers : relCh[c] \in Goroutines => pc[relCh[c]] \in {"drain", "close"}

\* How many steps of the waking goroutine are left until it closes the channel that the
\* worker waits on, from the send of a withdrawal to the close of its release.
WakeSteps == [taken |-> 5, pay |-> 4, swap |-> 3, drain |-> 2, close |-> 1]

\* Who is to wake a waiting worker: whoever has replaced the worker's channel or, while
\* nobody has, whoever holds the lock and has yet to.
Waker(g) ==
    IF relCh[Refund] = "current"
    THEN Holding(g) /\ pc[g] \in {"taken", "pay", "swap"}
    ELSE relCh[Refund] = g

Nearer(g) == \E h \in Goroutines : Waker(h)' /\ WakeSteps[pc'[h]] < WakeSteps[pc[g]]

WakeUpNearer ==
    pc[Refund] = "wait" /\ pc'[Refund] = "wait" =>
        /\ relCh[Refund] = "closed" => relCh'[Refund] = "closed"
        /\ \A g \in Goroutines : Waker(g) =>
              relCh'[Refund] = "closed" \/ Nearer(g) \/ (Waker(g)' /\ pc'[g] = pc[g])

\* A replaced channel stays with its replacer through the steps of doRelease, and loses
\* its copies only when these are closed (payment_mutex.go:30-38).
LEMMA DoReleaseWillClose ==
    ASSUME TypeOK, WillBeClosed, NEW g \in Releasers \cup {Refund},
           NEW done \in {"idle", "check"}, DoRelease(g, done)
    PROVE  WillBeClosed'
<1> USE CallersAssumption DEF Goto
<1>t. pc \in [Goroutines -> WithdrawalPC \cup RefundPC \cup ReleaserPC] /\ g \in Goroutines
  BY DEF TypeOK, PcTypeOK, Goroutines, Callers
<1>r. relCh \in [Callers -> Channel]
  BY DEF TypeOK
<1> SUFFICES ASSUME NEW c \in Callers, relCh'[c] \in Goroutines
             PROVE  pc'[relCh'[c]] \in {"drain", "close"}
  BY DEF WillBeClosed
<1>1. CASE Swap(g, "drain")
  <2>1. relCh'[c] = IF relCh[c] = "current" THEN g ELSE relCh[c]
    BY <1>1 DEF Swap
  <2>2. pc[g] = "swap" /\ pc' = [pc EXCEPT ![g] = "drain"]
    BY <1>1 DEF Swap
  <2>3. CASE relCh[c] = "current"
    BY <1>t, <2>1, <2>2, <2>3
  <2>4. CASE relCh[c] # "current"
    BY <1>t, <2>1, <2>2, <2>4 DEF WillBeClosed
  <2> QED BY <2>3, <2>4
<1>2. CASE Drain(g, "close")
  <2>1. relCh' = relCh /\ pc' = [pc EXCEPT ![g] = "close"]
    BY <1>2 DEF Drain
  <2> QED BY <1>t, <2>1 DEF WillBeClosed
<1>3. CASE Close(g, done)
  <2>1. relCh'[c] = IF relCh[c] = g THEN "closed" ELSE relCh[c]
    BY <1>3 DEF Close
  <2>2. relCh'[c] = relCh[c] /\ relCh[c] # g
    BY <2>1
  <2>3. pc' = [pc EXCEPT ![g] = done]
    BY <1>3 DEF Close
  <2> QED BY <1>t, <2>2, <2>3 DEF WillBeClosed
<1> QED BY <1>1, <1>2, <1>3 DEF DoRelease

\* The other steps of a caller leave every replacer where it is, and take only the
\* current channel or none (payment_mutex.go:56, 73, 77).
LEMMA CallerWillClose ==
    ASSUME TypeOK, WillBeClosed, NEW c \in Callers, NEW to, pc[c] \notin {"drain", "close"},
           pc' = [pc EXCEPT ![c] = to],
           NEW copy \in {"current", "none", relCh[c]}, relCh' = [relCh EXCEPT ![c] = copy]
    PROVE  WillBeClosed'
<1> USE CallersAssumption
<1>t. pc \in [Goroutines -> WithdrawalPC \cup RefundPC \cup ReleaserPC]
  BY DEF TypeOK, PcTypeOK
<1>r. relCh \in [Callers -> Channel]
  BY DEF TypeOK
<1> SUFFICES ASSUME NEW d \in Callers, relCh'[d] \in Goroutines
             PROVE  pc'[relCh'[d]] \in {"drain", "close"}
  BY DEF WillBeClosed
<1>1. relCh'[d] = relCh[d]
  <2>1. CASE d = c
    BY <1>r, <2>1
  <2>2. CASE d # c
    BY <1>r, <2>2
  <2> QED BY <2>1, <2>2
<1>2. pc[relCh[d]] \in {"drain", "close"} /\ relCh[d] # c
  BY <1>1 DEF WillBeClosed
<1> QED BY <1>t, <1>1, <1>2

\* So does the payment that hands the token to a releaseAfter (payment_mutex.go:42).
LEMMA ReleaseAfterWillClose ==
    ASSUME TypeOK, WillBeClosed, NEW c \in Callers, ReleaseAfter(c)
    PROVE  WillBeClosed'
<1>t. pc \in [Goroutines -> WithdrawalPC \cup RefundPC \cup ReleaserPC]
  BY DEF TypeOK, PcTypeOK
<1>1. PICK r \in Releasers : pc[r] = "idle" /\ pc' = [pc EXCEPT ![c] = "idle", ![r] = "swap"]
  BY DEF ReleaseAfter
<1>2. pc[c] = "pay" /\ relCh' = relCh
  BY DEF ReleaseAfter
<1> SUFFICES ASSUME NEW d \in Callers, relCh[d] \in Goroutines
             PROVE  pc'[relCh[d]] \in {"drain", "close"}
  BY <1>2 DEF WillBeClosed
<1>3. pc[relCh[d]] \in {"drain", "close"} /\ relCh[d] # c /\ relCh[d] # r
  BY <1>1, <1>2 DEF WillBeClosed
<1> QED BY <1>t, <1>1, <1>3

\* So every step keeps it.
LEMMA NextWillClose == TypeOK /\ WillBeClosed /\ [Next]_vars => WillBeClosed'
<1> SUFFICES ASSUME TypeOK, WillBeClosed, [Next]_vars PROVE WillBeClosed'
  OBVIOUS
<1> USE CallersAssumption DEF Goto, GetReleasedCh, Leave
<1>r. relCh \in [Callers -> Channel]
  BY DEF TypeOK
<1>s. \A c \in Callers : relCh = [relCh EXCEPT ![c] = relCh[c]]
  BY <1>r
<1>1. ASSUME NEW w \in Withdrawals, WEnter(w) \/ AcquireForWithdrawal(w) PROVE WillBeClosed'
  <2>1. w \in Callers
    BY DEF Callers
  <2>2. \E to : pc' = [pc EXCEPT ![w] = to]
    BY <1>1 DEF WEnter, AcquireForWithdrawal, WGetReleased, WTake, WTimeout, WWake, WReturnTrue,
                WReturnFalse, WDisregard
  <2>c. \E copy \in {"current", "none", relCh[w]} : relCh' = [relCh EXCEPT ![w] = copy]
    BY <1>1, <1>s, <2>1 DEF WEnter, AcquireForWithdrawal, WGetReleased, WTake, WTimeout, WWake,
                WReturnTrue, WReturnFalse, WDisregard
  <2>3. pc[w] \notin {"drain", "close"}
    BY DEF TypeOK, PcTypeOK, WithdrawalPC
  <2> QED BY <2>1, <2>2, <2>c, <2>3, CallerWillClose
<1>2. CASE REnter \/ AcquireForRefund
  <2>1. CASE DoRelease(Refund, "check")
    BY <2>1, DoReleaseWillClose
  <2>2. CASE \/ REnter \/ RCheckWaiters \/ RGetReleased \/ RTake \/ RDefault \/ RWake
             \/ RRecheckWaiters
    <3>1. Refund \in Callers
      BY DEF Callers
    <3>2. pc[Refund] \notin {"drain", "close"}
      BY <2>2 DEF REnter, RCheckWaiters, RGetReleased, RTake, RDefault, RWake, RRecheckWaiters
    <3>3. \E to : pc' = [pc EXCEPT ![Refund] = to]
      BY <2>2 DEF REnter, RCheckWaiters, RGetReleased, RTake, RDefault, RWake, RRecheckWaiters
    <3>4. \E copy \in {"current", "none", relCh[Refund]} : relCh' = [relCh EXCEPT ![Refund] = copy]
      BY <1>s, <2>2, <3>1
      DEF REnter, RCheckWaiters, RGetReleased, RTake, RDefault, RWake, RRecheckWaiters
    <3> QED BY <3>1, <3>2, <3>3, <3>4, CallerWillClose
  <2> QED BY <1>2, <2>1, <2>2 DEF AcquireForRefund
<1>3. CASE \E c \in Callers : ReleaseAfter(c)
  BY <1>3, ReleaseAfterWillClose
<1>4. CASE \E r \in Releasers : DoRelease(r, "idle")
  BY <1>4, DoReleaseWillClose
<1>5. CASE UNCHANGED vars
  BY <1>5 DEF vars, WillBeClosed
<1> QED BY <1>1, <1>2, <1>3, <1>4, <1>5 DEF Next

\* A waiting worker and a step of acquireForWithdrawal: only the return with the token
\* moves a waker, from the send to the payment (payment_mutex.go:49-67).
LEMMA WithdrawalWakes ==
    ASSUME TypeOK, NEW w \in Withdrawals, WEnter(w) \/ AcquireForWithdrawal(w),
           pc[Refund] = "wait"
    PROVE  WakeUpNearer
<1> USE CallersAssumption DEF Goto, GetReleasedCh, Leave
<1>t. pc \in [Goroutines -> WithdrawalPC \cup RefundPC \cup ReleaserPC] /\ w \in Goroutines
  BY DEF TypeOK, PcTypeOK, Goroutines, Callers
<1>r. relCh \in [Callers -> Channel] /\ w \in Callers /\ Refund \in Callers /\ w # Refund
  BY DEF TypeOK, Callers
<1>n. relCh[Refund] # w
  BY <1>t, <1>r DEF Channel
<1>c. relCh'[Refund] = relCh[Refund]
  <2>1. UNCHANGED relCh \/ \E x : relCh' = [relCh EXCEPT ![w] = x]
    BY DEF WEnter, AcquireForWithdrawal, WGetReleased, WTake, WTimeout, WWake, WReturnTrue,
           WReturnFalse, WDisregard
  <2> QED BY <1>r, <2>1
<1>p. \E to : pc' = [pc EXCEPT ![w] = to]
  BY DEF WEnter, AcquireForWithdrawal, WGetReleased, WTake, WTimeout, WWake, WReturnTrue,
         WReturnFalse, WDisregard
<1>o. \A g \in Goroutines : g # w => pc'[g] = pc[g]
  BY <1>t, <1>p
<1>k. \A g \in Goroutines : g # w /\ Waker(g) => Waker(g)' /\ pc'[g] = pc[g]
  BY <1>c, <1>o DEF Waker, Holding
<1>1. ASSUME Waker(w) PROVE Nearer(w)
  <2>1. pc[w] \in {"taken", "pay"} /\ relCh[Refund] = "current"
    BY <1>1, <1>n DEF Waker, Holding, Goroutines, Callers
  <2>2. WReturnTrue(w)
    BY <2>1 DEF WEnter, AcquireForWithdrawal, WGetReleased, WTake, WTimeout, WWake,
                WReturnTrue, WReturnFalse, WDisregard
  <2>3. pc[w] = "taken" /\ pc'[w] = "pay"
    BY <1>t, <2>2 DEF WReturnTrue
  <2>4. Waker(w)'
    BY <1>c, <2>1, <2>3 DEF Waker, Holding
  <2>5. WakeSteps[pc'[w]] < WakeSteps[pc[w]]
    BY <2>3 DEF WakeSteps
  <2> QED BY <1>t, <2>4, <2>5 DEF Nearer
<1> QED BY <1>c, <1>k, <1>1 DEF WakeUpNearer

\* A payment that ends passes the duty to wake the worker to its release
\* (payment_mutex.go:42-47).
LEMMA ReleaseAfterWakes ==
    ASSUME TypeOK, WillBeClosed, NEW c \in Callers, ReleaseAfter(c), pc[Refund] = "wait"
    PROVE  WakeUpNearer
<1> USE CallersAssumption
<1>t. pc \in [Goroutines -> WithdrawalPC \cup RefundPC \cup ReleaserPC]
  BY DEF TypeOK, PcTypeOK
<1>1. PICK r \in Releasers : pc[r] = "idle" /\ pc' = [pc EXCEPT ![c] = "idle", ![r] = "swap"]
  BY DEF ReleaseAfter
<1>2. pc[c] = "pay" /\ relCh' = relCh /\ c \in Withdrawals /\ r # c
  BY <1>1 DEF ReleaseAfter, Callers
<1>g. c \in Goroutines /\ r \in Goroutines /\ Refund \in Callers /\ r # Refund /\ r \notin Withdrawals
  BY DEF Goroutines, Callers
<1>o. \A g \in Goroutines : g # c /\ g # r => pc'[g] = pc[g]
  BY <1>t, <1>1
<1>n. relCh[Refund] # r /\ relCh[Refund] # c
  BY <1>1, <1>2, <1>g DEF WillBeClosed
<1>3. ~Waker(r)
  BY <1>1, <1>n DEF Waker
<1>k. \A g \in Goroutines : g # c /\ Waker(g) => Waker(g)' /\ pc'[g] = pc[g]
  BY <1>2, <1>3, <1>o DEF Waker, Holding
<1>4. ASSUME Waker(c) PROVE Nearer(c)
  <2>1. relCh'[Refund] = "current"
    BY <1>2, <1>4, <1>n DEF Waker
  <2>2. pc'[r] = "swap"
    BY <1>t, <1>1, <1>g
  <2>3. Waker(r)'
    BY <2>1, <2>2, <1>g DEF Waker, Holding
  <2>4. WakeSteps[pc'[r]] < WakeSteps[pc[c]]
    BY <1>2, <2>2 DEF WakeSteps
  <2> QED BY <1>g, <2>3, <2>4 DEF Nearer
<1> QED BY <1>2, <1>k, <1>4 DEF WakeUpNearer

\* A release that swaps takes the duty over, one that drains or closes brings the
\* wake-up nearer, and the others leave it alone (payment_mutex.go:30-38).
LEMMA DoReleaseWakes ==
    ASSUME TypeOK, WillBeClosed, NEW r \in Releasers, DoRelease(r, "idle"), pc[Refund] = "wait"
    PROVE  WakeUpNearer
<1> USE CallersAssumption DEF Goto
<1>t. pc \in [Goroutines -> WithdrawalPC \cup RefundPC \cup ReleaserPC] /\ r \in Goroutines
  BY DEF TypeOK, PcTypeOK, Goroutines
<1>g. Refund \in Callers /\ r \notin Withdrawals /\ r # Refund
  BY DEF Callers
<1>o. \A g \in Goroutines : g # r => pc'[g] = pc[g]
  <2>1. \E to : pc' = [pc EXCEPT ![r] = to]
    BY DEF DoRelease, Swap, Drain, Close
  <2> QED BY <1>t, <2>1
<1>1. CASE Swap(r, "drain")
  <2>1. pc[r] = "swap" /\ pc'[r] = "drain"
    BY <1>t, <1>1 DEF Swap
  <2>2. relCh'[Refund] = IF relCh[Refund] = "current" THEN r ELSE relCh[Refund]
    BY <1>1, <1>g DEF Swap
  <2>3. CASE relCh[Refund] = "current"
    <3>1. Waker(r)'
      BY <1>t, <2>2, <2>3 DEF Waker, Goroutines
    <3>2. \A g \in Goroutines : Waker(g) => pc[g] \in {"taken", "pay", "swap"}
      BY <2>3 DEF Waker
    <3>3. \A g \in Goroutines : Waker(g) => WakeSteps[pc'[r]] < WakeSteps[pc[g]]
      BY <2>1, <3>2 DEF WakeSteps
    <3> QED BY <1>t, <2>3, <3>1, <3>3 DEF WakeUpNearer, Nearer
  <2>4. CASE relCh[Refund] # "current"
    <3>1. relCh'[Refund] = relCh[Refund] /\ relCh[Refund] # r
      BY <1>t, <1>g, <2>1, <2>2, <2>4 DEF WillBeClosed
    <3>2. \A g \in Goroutines : Waker(g) => Waker(g)' /\ pc'[g] = pc[g]
      BY <1>o, <2>4, <3>1 DEF Waker
    <3> QED BY <3>1, <3>2 DEF WakeUpNearer
  <2> QED BY <2>3, <2>4
<1>2. CASE Drain(r, "close")
  <2>1. pc[r] = "drain" /\ pc'[r] = "close" /\ relCh' = relCh
    BY <1>t, <1>2 DEF Drain
  <2>2. \A g \in Goroutines : g # r /\ Waker(g) => Waker(g)' /\ pc'[g] = pc[g]
    BY <1>o, <2>1 DEF Waker, Holding
  <2>3. ASSUME Waker(r) PROVE Nearer(r)
    <3>1. Waker(r)'
      BY <2>1, <2>3 DEF Waker
    <3> QED BY <1>t, <2>1, <3>1 DEF Nearer, WakeSteps
  <2> QED BY <2>1, <2>2, <2>3 DEF WakeUpNearer
<1>3. CASE Close(r, "idle")
  <2>1. pc[r] = "close" /\ relCh'[Refund] = IF relCh[Refund] = r THEN "closed" ELSE relCh[Refund]
    BY <1>3, <1>g DEF Close
  <2>2. CASE relCh[Refund] = r
    BY <2>1, <2>2 DEF WakeUpNearer
  <2>3. CASE relCh[Refund] # r
    <3>1. ~Waker(r)
      BY <2>1, <2>3 DEF Waker
    <3>2. \A g \in Goroutines : Waker(g) => Waker(g)' /\ pc'[g] = pc[g]
      BY <1>o, <2>1, <2>3, <3>1 DEF Waker, Holding
    <3> QED BY <2>1, <2>3, <3>2 DEF WakeUpNearer
  <2> QED BY <2>2, <2>3
<1> QED BY <1>1, <1>2, <1>3 DEF DoRelease

\* Of the worker itself only the wake-up is possible while it waits.
LEMMA StepWakes == TypeOK /\ WillBeClosed /\ [Next]_vars => WakeUpNearer
<1> SUFFICES ASSUME TypeOK, WillBeClosed, [Next]_vars, pc[Refund] = "wait", pc'[Refund] = "wait"
             PROVE  WakeUpNearer
  BY DEF WakeUpNearer
<1>1. CASE REnter \/ AcquireForRefund
  <2>1. RWake
    BY <1>1 DEF Goto, REnter, AcquireForRefund, RCheckWaiters, RGetReleased, RTake, RDefault,
                RRecheckWaiters, DoRelease, Swap, Drain, Close
  <2> QED BY <2>1 DEF RWake, Goto, TypeOK, PcTypeOK, Goroutines, Callers
<1>2. CASE UNCHANGED vars
  BY <1>2 DEF vars, WakeUpNearer, Waker, Holding
<1> QED BY <1>1, <1>2, WithdrawalWakes, ReleaseAfterWakes, DoReleaseWakes DEF Next

\* A waiting refund worker that somebody is to wake stays so until it is woken: the duty
\* passes from the withdrawal that holds the lock to its release and from there to the
\* close, each step of whoever has it brings the wake-up nearer and no step of another
\* takes it back, however many withdrawals time out and releases overlap, and an operator's
\* that ignores its timeout among them.  Of these steps only the drain can block, and by
\* ReleaseNeverBlocks it does not while every timeout is respected
\* (payment_mutex.go:73, 85 against :30-38).
THEOREM WakeUpComes == Spec => []WillBeClosed /\ [][WakeUpNearer]_vars
<1>1. Init => WillBeClosed
  BY CallersAssumption DEF Init, WillBeClosed, Goroutines
<1>2. IInv => TypeOK
  BY DEF IInv
<1> QED BY <1>1, <1>2, Invariance, NextWillClose, StepWakes, PTL DEF Spec
=============================================================================
