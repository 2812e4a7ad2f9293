SPECIFICATION Spec
CONSTANTS
    v1 = v1
    v2 = v2
    b = b
    Sat = 2
    RedeemFeeBPS = 0
    MinRedeemFeeMsat = 0
    InternalFeeBPS = 0
    MinInternalFeeMsat = 6
    Vouchers = {v1, v2}
    Terms <- AllTerms
    InitTerms <- ClosedAndOnce
    Batches = {b}
    BatchOf <- OneBatch
    Immediate = {v2}
    Unique = {v1}
    Shares <- OneToTwo
    Invoices = {i1}
    Transfers = {t1, t2}
    Fingerprints = {f1}
    Amounts = {4, 8}
    Estimates = {0}
    ReceiveFees <- Withheld
    MaxFund = 12
    InitBalance = 8
    MaxCrashes = 2
INVARIANTS
    TypeOK
    BooksClose
    OnePerFingerprint
PROPERTIES
    FundsReachTheLiving
    ImmediateIsSwept
    PaidIsCreditedOrOrphaned
CHECK_DEADLOCK FALSE
