SPECIFICATION FairSpec
CONSTANTS
  N = 1
  KeepLast = 1
  Budgets <- FirstSave
PROPERTIES
  FinishedSavesArePublished
