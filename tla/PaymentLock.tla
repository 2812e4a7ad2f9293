------------------------------ MODULE PaymentLock ------------------------------
(***************************************************************************)
(* What the payment semaphore promises its callers.  One caller at a time  *)
(* pays, and after a payment nobody pays until the cooldown has passed.    *)
(* The refund worker may give the lock back without having paid.  The      *)
(* promise is made to callers that respect it: once a caller that was told *)
(* FALSE pays all the same, the lock is broken for good, for the release   *)
(* that follows the payment takes away a token that is not the caller's.   *)
(***************************************************************************)
EXTENDS Naturals

CONSTANTS
    Withdrawals,   \* the redeem and operator-withdraw requests
    Refund         \* the refund worker

Callers == Withdrawals \cup {Refund}

CONSTANTS Nobody, Cooldown, Broken

\* Who keeps everybody else from paying: a caller, the cooldown, or nobody.
VARIABLE owner

Owners == Callers \cup {Nobody, Cooldown, Broken}

TypeOK == owner \in Owners

Init == owner = Nobody

Acquire(c) == owner = Nobody /\ owner' = c

\* The refund worker found a withdrawal waiting: no payment, no cooldown.
Yield == owner = Refund /\ owner' = Nobody

Pay(c) == owner = c /\ owner' = Cooldown

Release == owner = Cooldown /\ owner' = Nobody

\* A caller ignores that it did not get the lock.
Disregard == owner # Broken /\ owner' = Broken

Next == (\E c \in Callers : Acquire(c) \/ Pay(c)) \/ Yield \/ Release \/ Disregard

\* Whoever owns the lock gives it back in the end.
Spec == Init /\ [][Next]_owner /\ WF_owner(Release)
=============================================================================
