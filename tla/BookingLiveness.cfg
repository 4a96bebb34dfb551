CONSTANTS
    MaxAttempts = 2
    Amount = 3
    FirstNight = 1
    Deadline = 1
    FreeCancelUntil = 0
    Arrival = 2
    NoShowCutoff = 3
    Checkout = 5
    MaxTime = 3
SPECIFICATION LiveSpec
PROPERTIES ElapsedHoldSettles PaymentIsRecorded OwedIsReturned
