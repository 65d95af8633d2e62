CONSTANTS
  MaxAttempts = 2
  Budgets <- FaultsOrRetry
SPECIFICATION FairSpec
INVARIANTS NoForeignResult
PROPERTIES  AliveNotFailed CancelDelivered LossNoticed TrackingCleared
