SPECIFICATION Spec
CONSTANTS
    w1 = w1
    w2 = w2
    Sat = 2
    RedeemFeeBPS = 0
    MinRedeemFeeMsat = 0
    InternalFeeBPS = 0
    MinInternalFeeMsat = 0
    Withdrawals = {w1, w2}
    Invoices = {3, 4}
    Requests = {0}
    Quotes = {0, 2}
    Step = 2
    MaxHeld = 4
    MaxEarned = 4
    Surplus = 0
    MaxCrashes = 1
INVARIANTS
    TypeOK
    BooksClose
    
PROPERTIES
    RowFinal
CHECK_DEADLOCK FALSE
SYMMETRY Interchangeable
