SPECIFICATION OnboardingSpec
CONSTANTS
  a1 = a1
  a2 = a2
  e1 = e1
  Applications = {a1, a2}
  EmailOf <- MCEmailOf
  MaxInvoices = 2
  Provisioners = {w1}
  MaxTries = 1
  Nobody = Nobody
PROPERTY EveryCaptureIsSeen
CHECK_DEADLOCK FALSE
