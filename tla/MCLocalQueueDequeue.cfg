SPECIFICATION Spec
CONSTANTS
  Runs = 1
  Procs = 2
  MaxConcurrency = 1
  Budgets <- RetryThenDequeue
PROPERTY DequeuedIsNotQueued
CHECK_DEADLOCK FALSE
