\* One healthy receiver, one that may refuse, two runs of the process.
SPECIFICATION FairSpec
CONSTANTS
  u1 = u1
  u2 = u2
  Url <- MCUrl
  EventName <- MCEventName
  Subscriptions <- TwoSubscriptions
  RetryDelays <- ShortDelays
  MaxAttempts = 2
  BatchLimit = 2
  Healthy = {u2}
  MaxDeliveries = 2
  MaxRegistrations = 2
  MaxRuns = 2
INVARIANT OutboxInv
PROPERTIES
  ImplementsOrderedDelivery
  HealthyReceiverGetsAll
CHECK_DEADLOCK FALSE
