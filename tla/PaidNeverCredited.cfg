SPECIFICATION Spec
CONSTANTS
    v1 = v1
    v2 = v2
    b = b
    Sat = 2
    RedeemFeeBPS = 0
    MinRedeemFeeMsat = 0
    InternalFeeBPS = 0
    MinInternalFeeMsat = 0
    Vouchers = {v1}
    Terms <- AllTerms
    InitTerms <- AllOnce
    Batches = {b}
    BatchOf <- OneBatch
    Immediate = {}
    Unique = {}
    Shares <- OneToTwo
    Invoices = {i1}
    Transfers = {}
    Fingerprints = {}
    Amounts = {4}
    Estimates = {0}
    ReceiveFees = {0}
    MaxFund = 12
    InitBalance = 0
    MaxCrashes = 1
PROPERTIES
    PaidIsCredited
CHECK_DEADLOCK FALSE
