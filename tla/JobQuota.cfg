SPECIFICATION Spec
CONSTANTS
  j1 = j1
  j2 = j2
  j3 = j3
  owner = owner
  NoJob = NoJob
  Jobs = {j1, j2, j3}
  Watchers = {w1}
  Backfill = {}
  Owner <- OneOwner
  Need <- UnitNeed
  Limit <- OneSlot
  Covers <- CoverAll
  Preempts <- Nobody
  BackfillEnabled = TRUE
  QuotaModes = {TRUE, FALSE}
  UniformTolerance = TRUE
  RoundLimit = 2
  Deletable = {}
  Removable = {}
  Faults <- Nobody
  MaxFaults = 0
INVARIANTS ActivatedWithinQuota
PROPERTIES FirstComeFirstServed
SYMMETRY AnyJob
