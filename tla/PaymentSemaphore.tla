--------------------------- MODULE PaymentSemaphore ---------------------------
(***************************************************************************)
(* payment_mutex.go, one step per operation on shared memory.              *)
(*                                                                         *)
(* The semaphore is a channel of capacity one (a token in it = taken), a   *)
(* counter of waiting withdrawals, and the channel `released`, which every *)
(* release replaces and then closes to wake whoever waits on it.           *)
(*                                                                         *)
(* A `released` channel is never named.  A goroutine's copy of it is       *)
(* "current" while it is still the one in the struct, the identity of the  *)
(* goroutine whose doRelease has replaced it and will close it, or         *)
(* "closed"; "none" if the goroutine holds no copy.                        *)
(***************************************************************************)
EXTENDS Integers, FiniteSets

CONSTANTS
    Withdrawals,   \* request goroutines that call acquireForWithdrawal
    Impatient,     \* those that ignore its result: payAdminWithdraw
    Refund,        \* the refund worker, the only caller of acquireForRefund
    Releasers,     \* goroutines started by releaseAfter; their number bounds
                   \* how many releases are under way at once
    MaxOverdrawn   \* bound: no impatient request comes after this many
                   \* payments made against a FALSE

Callers    == Withdrawals \cup {Refund}
Goroutines == Callers \cup Releasers

ASSUME CallersAssumption ==
    /\ Impatient \subseteq Withdrawals
    /\ Refund \notin Withdrawals \cup Releasers
    /\ Withdrawals \cap Releasers = {}
    /\ {"none", "current", "closed", "nobody", "cooldown", "broken"} \cap Goroutines = {}
    /\ IsFiniteSet(Withdrawals)
    /\ MaxOverdrawn \in Nat

VARIABLES
    pc,         \* where each goroutine is
    token,      \* TRUE iff the channel ch holds its one element
    waiters,    \* withdrawWaiters
    relCh,      \* each caller's copy of a released channel
    overdrawn   \* history: payments made after being told FALSE

vars == <<pc, token, waiters, relCh, overdrawn>>

WithdrawalPC == {"idle", "get", "select", "taken", "late", "pay"}
RefundPC     == {"idle", "check", "getwait", "getrel", "try", "wait",
                 "recheck", "pay", "swap", "drain", "close"}
ReleaserPC   == {"idle", "swap", "drain", "close"}
Channel      == {"none", "current", "closed"} \cup Releasers \cup {Refund}

PcTypeOK ==
    /\ pc \in [Goroutines -> WithdrawalPC \cup RefundPC \cup ReleaserPC]
    /\ \A w \in Withdrawals : pc[w] \in WithdrawalPC
    /\ pc[Refund] \in RefundPC
    /\ \A r \in Releasers : pc[r] \in ReleaserPC

TypeOK ==
    /\ PcTypeOK
    /\ token \in BOOLEAN
    /\ waiters \in Nat
    /\ relCh \in [Callers -> Channel]
    /\ overdrawn \in Nat

Init ==
    /\ pc = [g \in Goroutines |-> "idle"]
    /\ token = FALSE
    /\ waiters = 0
    /\ relCh = [c \in Callers |-> "none"]
    /\ overdrawn = 0

Goto(g, from, to) == pc[g] = from /\ pc' = [pc EXCEPT ![g] = to]

GetReleasedCh(c) == relCh' = [relCh EXCEPT ![c] = "current"]

-----------------------------------------------------------------------------
(* acquireForWithdrawal                                                    *)

WEnter(w) ==
    /\ w \in Impatient => overdrawn < MaxOverdrawn
    /\ Goto(w, "idle", "get")
    /\ waiters' = waiters + 1
    /\ UNCHANGED <<token, relCh, overdrawn>>

WGetReleased(w) ==
    /\ Goto(w, "get", "select")
    /\ GetReleasedCh(w)
    /\ UNCHANGED <<token, waiters, overdrawn>>

\* The select takes any ready branch: the send, the timer or the wake-up.
WTake(w) ==
    /\ Goto(w, "select", "taken")
    /\ ~token
    /\ token' = TRUE
    /\ UNCHANGED <<waiters, relCh, overdrawn>>

\* Mutants: a timeout that also counts the withdrawal out, one that returns
\* TRUE, and one that only goes round the loop.
WTimeoutCountsDown(w) ==
    /\ Goto(w, "select", "late")
    /\ waiters' = waiters - 1
    /\ UNCHANGED <<token, relCh, overdrawn>>

WTimeoutReturnsTrue(w) ==
    /\ Goto(w, "select", "taken")
    /\ UNCHANGED <<token, waiters, relCh, overdrawn>>

WTimeoutRetries(w) ==
    /\ Goto(w, "select", "get")
    /\ UNCHANGED <<token, waiters, relCh, overdrawn>>

WTimeout(w) ==
    /\ Goto(w, "select", "late")
    /\ UNCHANGED <<token, waiters, relCh, overdrawn>>

WWake(w) ==
    /\ relCh[w] = "closed"
    /\ Goto(w, "select", "get")
    /\ UNCHANGED <<token, waiters, relCh, overdrawn>>

Leave(w) ==
    /\ waiters' = waiters - 1
    /\ relCh' = [relCh EXCEPT ![w] = "none"]
    /\ UNCHANGED token

\* The deferred decrement runs after the send, in a step of its own.
WReturnTrue(w) ==
    /\ Goto(w, "taken", "pay")
    /\ Leave(w)
    /\ UNCHANGED overdrawn

WReturnFalse(w) ==
    /\ w \notin Impatient
    /\ Goto(w, "late", "idle")
    /\ Leave(w)
    /\ UNCHANGED overdrawn

\* payAdminWithdraw does not look at the result.
WDisregard(w) ==
    /\ w \in Impatient
    /\ Goto(w, "late", "pay")
    /\ Leave(w)
    /\ overdrawn' = overdrawn + 1

-----------------------------------------------------------------------------
(* doRelease, by a goroutine of releaseAfter or, to yield, by the worker.  *)

Swap(g, next) ==
    /\ Goto(g, "swap", next)
    /\ relCh' = [c \in Callers |-> IF relCh[c] = "current" THEN g ELSE relCh[c]]
    /\ UNCHANGED <<token, waiters, overdrawn>>

\* The receive blocks while the channel is empty.
Drain(g, next) ==
    /\ token
    /\ Goto(g, "drain", next)
    /\ token' = FALSE
    /\ UNCHANGED <<waiters, relCh, overdrawn>>

\* Mutant: the old channel is dropped without being closed.
CloseNothing(g, next) ==
    /\ Goto(g, "close", next)
    /\ UNCHANGED <<token, waiters, relCh, overdrawn>>

Close(g, next) ==
    /\ Goto(g, "close", next)
    /\ relCh' = [c \in Callers |-> IF relCh[c] = g THEN "closed" ELSE relCh[c]]
    /\ UNCHANGED <<token, waiters, overdrawn>>

DoRelease(g, done) == Swap(g, "drain") \/ Drain(g, "close") \/ Close(g, done)

\* Mutant: the payment gives the token back at once, without the cooldown.
ReleaseNow(c) ==
    /\ token
    /\ Goto(c, "pay", "idle")
    /\ token' = FALSE
    /\ UNCHANGED <<waiters, relCh, overdrawn>>

\* A payment ends, whatever its outcome, with the deferred releaseAfter.  The
\* new goroutine sleeps the cooldown and stands before the swap until it wakes.
ReleaseAfter(c) ==
    /\ pc[c] = "pay"
    /\ \E r \in Releasers :
        /\ pc[r] = "idle"
        /\ pc' = [pc EXCEPT ![c] = "idle", ![r] = "swap"]
    /\ UNCHANGED <<token, waiters, relCh, overdrawn>>

-----------------------------------------------------------------------------
(* acquireForRefund                                                        *)

REnter ==
    /\ Goto(Refund, "idle", "check")
    /\ UNCHANGED <<token, waiters, relCh, overdrawn>>

RCheckWaiters ==
    /\ Goto(Refund, "check", IF waiters > 0 THEN "getwait" ELSE "getrel")
    /\ UNCHANGED <<token, waiters, relCh, overdrawn>>

RGetReleased ==
    /\ Goto(Refund, "getwait", "wait") \/ Goto(Refund, "getrel", "try")
    /\ GetReleasedCh(Refund)
    /\ UNCHANGED <<token, waiters, overdrawn>>

RTake ==
    /\ ~token
    /\ Goto(Refund, "try", "recheck")
    /\ token' = TRUE
    /\ UNCHANGED <<waiters, relCh, overdrawn>>

RDefault ==
    /\ token
    /\ Goto(Refund, "try", "wait")
    /\ UNCHANGED <<token, waiters, relCh, overdrawn>>

RWake ==
    /\ relCh[Refund] = "closed"
    /\ Goto(Refund, "wait", "check")
    /\ relCh' = [relCh EXCEPT ![Refund] = "none"]
    /\ UNCHANGED <<token, waiters, overdrawn>>

\* Mutants: the worker does not look again, or it goes back to the loop without
\* giving the token back.
RRecheckNot ==
    /\ Goto(Refund, "recheck", "pay")
    /\ relCh' = [relCh EXCEPT ![Refund] = "none"]
    /\ UNCHANGED <<token, waiters, overdrawn>>

RRecheckKeepsToken ==
    /\ Goto(Refund, "recheck", IF waiters > 0 THEN "check" ELSE "pay")
    /\ relCh' = [relCh EXCEPT ![Refund] = "none"]
    /\ UNCHANGED <<token, waiters, overdrawn>>

\* A withdrawal that came in meanwhile goes first.
RRecheckWaiters ==
    /\ Goto(Refund, "recheck", IF waiters > 0 THEN "swap" ELSE "pay")
    /\ relCh' = [relCh EXCEPT ![Refund] = "none"]
    /\ UNCHANGED <<token, waiters, overdrawn>>

-----------------------------------------------------------------------------
AcquireForWithdrawal(w) ==
    \/ WGetReleased(w) \/ WTake(w) \/ WTimeout(w) \/ WWake(w)
    \/ WReturnTrue(w) \/ WReturnFalse(w) \/ WDisregard(w)

AcquireForRefund ==
    \/ RCheckWaiters \/ RGetReleased \/ RTake \/ RDefault \/ RWake
    \/ RRecheckWaiters \/ DoRelease(Refund, "check")

Next ==
    \/ \E w \in Withdrawals : WEnter(w) \/ AcquireForWithdrawal(w)
    \/ REnter \/ AcquireForRefund
    \/ \E c \in Callers : ReleaseAfter(c)
    \/ \E r \in Releasers : DoRelease(r, "idle")

(* Every goroutine that can run does run: the Go scheduler is fair, a      *)
(* payment call returns and a cooldown ends.  The timer of a withdrawal    *)
(* fires once and stays ready, and a select draws at random among the      *)
(* branches that are ready, so it cannot miss it forever.  Nothing says    *)
(* that a request ever comes, nor that the worker finds a refund to pay.   *)
Fairness ==
    /\ \A w \in Withdrawals : WF_vars(AcquireForWithdrawal(w)) /\ SF_vars(WTimeout(w))
    /\ WF_vars(AcquireForRefund)
    /\ \A c \in Callers : WF_vars(ReleaseAfter(c))
    /\ \A r \in Releasers : WF_vars(DoRelease(r, "idle"))

Spec == Init /\ [][Next]_vars /\ Fairness

-----------------------------------------------------------------------------
(* Properties                                                              *)

\* The goroutines that are to give a token back: callers between the send and
\* the end of their payment, and the releases that have not drained yet.
Holding(g) ==
    \/ g \in Withdrawals /\ pc[g] \in {"taken", "pay"}
    \/ g = Refund /\ pc[g] \in {"recheck", "pay", "swap", "drain"}
    \/ g \in Releasers /\ pc[g] \in {"swap", "drain"}

\* As long as every caller has respected a timeout, nobody pays while another
\* one pays or while the cooldown of an earlier payment runs
\* (payment_mutex.go:49-67, 69-88 with the deferred releaseAfter of the callers).
OnePaymentPerCooldown ==
    overdrawn = 0 => \A g, h \in Goroutines : Holding(g) /\ Holding(h) => g = h

\* As long as every caller has respected a timeout, the token is in the channel
\* exactly while somebody has it to give back, so the receive of doRelease
\* (payment_mutex.go:37) neither blocks nor takes the token of somebody else.
TokenHeld ==
    overdrawn = 0 => (token <=> \E g \in Goroutines : Holding(g))

\* The worker never starts to pay while a withdrawal stands in its select: not
\* even one that came in while the worker took the token (payment_mutex.go:79-82).
RefundYields ==
    [][pc[Refund] # "pay" /\ pc'[Refund] = "pay"
        => \A w \in Withdrawals : pc[w] \notin {"get", "select"}]_vars

\* The semaphore keeps the promise of PaymentLock.
Owner ==
    IF overdrawn > 0 THEN "broken"
    ELSE IF \E c \in Callers : Holding(c) THEN CHOOSE c \in Callers : Holding(c)
    ELSE IF \E r \in Releasers : Holding(r) THEN "cooldown"
    ELSE "nobody"

Lock == INSTANCE PaymentLock
    WITH owner <- Owner, Nobody <- "nobody", Cooldown <- "cooldown", Broken <- "broken"

\* Every history of the semaphore, seen through Owner, is one of the abstract
\* lock, which frees itself after each payment (all of payment_mutex.go).
ImplementsLock == Lock!Spec

\* A withdrawal gets the lock or is told that it did not (payment_mutex.go:49).
WithdrawalReturns ==
    \A w \in Withdrawals : pc[w] = "get" ~> pc[w] \in {"pay", "idle"}

\* A refund worker that waits while somebody holds the lock is woken when that
\* holder gives it back (payment_mutex.go:73, 85 against :38).
RefundWoken ==
    (pc[Refund] = "wait" /\ overdrawn = 0 /\ \E w \in Withdrawals : pc[w] = "pay")
        ~> (pc[Refund] # "wait" \/ overdrawn > 0)

\* "acquireForRefund blocks indefinitely, yielding to any waiting withdrawal"
\* (payment_mutex.go:69): the worker sleeps only behind a withdrawal, a taken
\* token, or a release that will still wake it.
RefundNeverStranded ==
    pc[Refund] = "wait" /\ relCh[Refund] = "current" => token \/ waiters > 0
=============================================================================
