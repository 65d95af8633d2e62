CONSTANTS
  MaxAttempts = 1
  Budgets <- OneFault
SPECIFICATION FairSpec
PROPERTY TerminalStays
