SPECIFICATION Spec
CONSTANTS
    r1 = r1
    r2 = r2
    k1 = k1
    k2 = k2
    v1 = v1
    v2 = v2
    Sat = 1
    RedeemFeeBPS = 1000
    MinRedeemFeeMsat = 1
    InternalFeeBPS = 0
    MinInternalFeeMsat = 0
    Vouchers = {v1}
    Terms <- AllTerms
    InitTerms <- AtFirstOnce
    Requests = {r1, r2}
    Sessions = {k1, k2}
    Amounts = {1}
    Quotes = {1, 2}
    Routes <- LightningAndSpark
    InitBalance = 4
    InitWallet = 4
    PoolSize = 2
    MaxCrashes = 1
INVARIANTS
    TypeOK
    NeverPaidAndRestored
    OneRowPerSession
    SingleUseOnce
    BooksClose
    NeverShortAtRest
    HolderGoesOn
PROPERTIES
    ImplementsPayout
CHECK_DEADLOCK FALSE
SYMMETRY Interchangeable
