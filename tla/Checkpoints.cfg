SPECIFICATION FairSpec
CONSTANTS
  N = 2
  KeepLast = 1
  Budgets <- AllBudgets
INVARIANTS
  CommittedIsSaved
PROPERTIES
  ScanRepairs
  DeletingEnds
  SavesArePublished
