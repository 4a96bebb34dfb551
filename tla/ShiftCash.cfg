CONSTANTS
    a = a
    b = b
    m = m
    None = None
    Staff = {a, b, m}
    Grants <- HandoverGrants
    Drawers = {d1}
    Transfers = {}
    Obligations = {o1}
    MaxShifts = 2
    MaxCash = 1
    Amounts = {1}
    Counts = {0, 1}
    MayLock = TRUE
SPECIFICATION Spec
INVARIANTS TypeOK WorkersMayWork HandoverFreezesDrawer CashHasKeeper
PROPERTIES EndsOnCountedCash BlockedEndsByTakeover
