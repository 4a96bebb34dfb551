SPECIFICATION MCSpec
CONSTANTS
  Intents = {i1}
  Refunds = {r1, r2}
  Corrections = {c1}
  Deposit = 1
  RoomCharge = 1
  DepositBy = "QPAY"
  Channels = {"CASH", "QPAY"}
  DrawerFloat = 0
  MaxSlips = 3
  Fundings = {f1, f2}
  ByTerminal = {f2}
  Requirements = {1, 2}
  Holds = {h1}
  Price = 4
  Retentions = {1, 4}
  Chargebacks = {0, 3, 4}
  Rate = 5000
  Accounts = {x}
  NoAccount = NoAccount
  MaxRevisions = 1
  MaxAdjustments = 2
  MaxBatches = 2
  MaxPayouts = 2
  MaxLinks = 2
  MaxResets = 2
  MaxSessions = 1
  MaxRevision = 2
  MaxEpoch = 2
  Codes = {g1, g2, g3}
  LastStay = 2
  LastQr = 2
  Places = 2
  MaxFailures = 2
  a1 = a1
  a2 = a2
  e1 = e1
  Applications = {a1, a2}
  EmailOf <- MCEmailOf
  MaxInvoices = 2
  Provisioners = {w1, w2}
  MaxTries = 1
  Nobody = Nobody
INVARIANTS HotelTypeOK GuestMoneyAgrees GuestMoneyIsSettled FundingMoneyIsKept PayoutsAreOwed SecretsEndInTime PaidHotelsOpen
CHECK_DEADLOCK FALSE
SYMMETRY MCSymmetry
