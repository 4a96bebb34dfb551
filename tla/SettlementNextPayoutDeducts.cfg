CONSTANTS
    Holds = {h1}
    Price = 3
    Retentions = {3}
    Chargebacks = {0, 2}
    Rate = 1000
    Accounts = {x}
    NoAccount = NoAccount
    MaxRevisions = 1
    MaxAdjustments = 2
    MaxBatches = 2
    MaxPayouts = 1
SPECIFICATION SettlementSpec
PROPERTY NextPayoutDeducts
CHECK_DEADLOCK FALSE
