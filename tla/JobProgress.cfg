SPECIFICATION FairSpec
CONSTANTS
  j1 = j1
  j2 = j2
  j3 = j3
  owner = owner
  NoJob = NoJob
  Jobs = {j1, j2}
  Watchers = {w1}
  Backfill = {j2}
  Owner <- OneOwner
  Need <- UnitNeed
  Limit <- OneSlot
  Covers <- CoverAll
  Preempts <- Evicts
  BackfillEnabled = TRUE
  QuotaModes = {TRUE}
  UniformTolerance = FALSE
  RoundLimit = 2
  Deletable = {}
  Removable = {j2}
  Faults <- LateFaults
  MaxFaults = 1
PROPERTIES PrequeueIsLeft
