SPECIFICATION OnboardingSpec
CONSTANTS
  a1 = a1
  a2 = a2
  e1 = e1
  Applications = {a1, a2}
  EmailOf <- MCEmailOf
  MaxInvoices = 2
  Provisioners = {w1, w2}
  MaxTries = 2
  Nobody = Nobody
INVARIANT PendingIsInReach
CHECK_DEADLOCK FALSE
