SPECIFICATION Spec
CONSTANTS
    r1 = r1
    r2 = r2
    k1 = k1
    k2 = k2
    v1 = v1
    v2 = v2
    Sat = 1
    RedeemFeeBPS = 1000
    MinRedeemFeeMsat = 1
    InternalFeeBPS = 0
    MinInternalFeeMsat = 0
    Vouchers = {v1}
    Terms <- PlainOrOnce
    InitTerms <- AtFirstPlain
    Requests = {r1}
    Sessions = {k1}
    Amounts = {1}
    Quotes = {1, 2}
    Routes <- LightningAndSpark
    InitBalance = 4
    InitWallet = 4
    PoolSize = 1
    MaxCrashes = 1
PROPERTIES
    StartupServes
CHECK_DEADLOCK FALSE
