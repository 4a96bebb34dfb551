SPECIFICATION MCSpec
CONSTANTS
  Orders = {o1, o2}
  Broken = {o2}
  TickLimit = 1
  a1 = a1
  a2 = a2
  e1 = e1
  Applications = {a1, a2}
  EmailOf <- MCEmailOf
  MaxInvoices = 2
  Provisioners = {w1}
  MaxTries = 1
  Nobody = Nobody
  Renewals = 2
  Packages = {1, 2}
  Terms = {1}
  LastCapture = 2
  Horizon = 3
  Letters = {i1}
  Postmen = {w1, w2}
  NoPostman = NoPostman
  MaxAttempts = 2
  Carriers = {w1, w2}
  MaxSends = 3
INVARIANTS ServicesTypeOK MealsReachWhoPaid SubscriptionIsKept OneReminderArrives
PROPERTIES WhatIsFinalStays NothingWaitsForever
CHECK_DEADLOCK FALSE
