CONSTANTS
    a = a
    b = b
    m = m
    None = None
    Staff = {a, b, m}
    Grants <- TakeoverGrants
    Drawers = {d1}
    Transfers = {}
    Obligations = {}
    MaxShifts = 2
    MaxCash = 0
    Amounts = {}
    Counts = {0}
    MayLock = TRUE
SPECIFICATION FairSpec
INVARIANTS TakenOverByAnother
PROPERTIES BlockedShiftEnds
