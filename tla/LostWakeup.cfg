SPECIFICATION Spec
CONSTANTS
    w1 = w1
    w2 = w2
    adm = adm
    worker = worker
    r1 = r1
    r2 = r2
    r3 = r3
    Withdrawals <- TwoWithdrawals
    Impatient <- NoImpatient
    Refund = worker
    Releasers <- TwoReleasers
    MaxOverdrawn = 1
INVARIANTS
    RefundNeverStranded
