CONSTANTS
    MaxAttempts = 2
    Amount = 3
    FirstNight = 1
    Deadline = 1
    FreeCancelUntil = 2
    Arrival = 3
    NoShowCutoff = 3
    Checkout = 5
    MaxTime = 5
SPECIFICATION Spec
PROPERTY NoInvoiceOfExpiredBooking
