SPECIFICATION Spec
CONSTANTS
    v1 = v1
    v2 = v2
    Sat = 2
    RedeemFeeBPS = 1000
    MinRedeemFeeMsat = 2
    InternalFeeBPS = 0
    MinInternalFeeMsat = 0
    Vouchers = {v1}
    Terms <- OnlyPlain
    InitTerms <- AllPlain
    Shares <- OneToFive
    Regular = {v1}
    MinFees = {2, 6}
    Quotes = {0, 4}
    InitBalance = 0
    Redeemed = 3
    Funded = 12
    Surplus = 5
    MaxRetries = 2
    RetryAbandoned = TRUE
    MaxCrashes = 1
INVARIANTS
    TypeOK
    BooksClose
    InFlightIsCurrent
    PaidWasSent
    MarginsCover
PROPERTIES
    ImplementsPayout
    WorkerGoesOn
