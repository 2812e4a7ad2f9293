SPECIFICATION Spec
CONSTANTS
    v1 = v1
    v2 = v2
    c1 = c1
    c2 = c2
    none = none
    Vouchers = {v1}
    Codes = {c1, c2}
    NoCodes = none
    Requests <- Asking
    MaxVoucherExpireSeconds = 3
    MinPayout = 2
    Deposits = {2}
    Amounts = {1}
    MaxSleep = 3
    MaxBalance = 2
    MaxChanges = 2
    MaxFaults = 1
    Horizon = 3
    MaxNow = 7
INVARIANTS
    TypeOK
    NothingOverslept
    ParkedAtMost
    SchedulePinned
    OneRefundPerTime
PROPERTIES
    RefundAsAsked
    ExpiredIsRefunded
    RegularIsServed
CHECK_DEADLOCK FALSE
