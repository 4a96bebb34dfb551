CONSTANTS
    a = a
    b = b
    m = m
    None = None
    Staff = {a, b}
    Grants <- TransferGrants
    Drawers = {d1, d2}
    Transfers = {t1}
    Obligations = {}
    MaxShifts = 3
    MaxCash = 1
    Amounts = {1}
    Counts = {1}
    MayLock = FALSE
SPECIFICATION Spec
SYMMETRY DrawerSymmetry
INVARIANTS LiveShiftsApart PromisesAreCovered ClosedOwesNothing
PROPERTIES SuspendedTakesNothingNew
