SPECIFICATION Spec
CONSTANTS
  j1 = j1
  j2 = j2
  j3 = j3
  owner = owner
  NoJob = NoJob
  Jobs = {j1, j2}
  Watchers = {w1, w2}
  Backfill = {}
  Owner <- OneOwner
  Need <- UnitNeed
  Limit <- OneSlot
  Covers <- CoverAll
  Preempts <- Nobody
  BackfillEnabled = TRUE
  QuotaModes = {TRUE}
  UniformTolerance = FALSE
  RoundLimit = 1
  Deletable = {}
  Removable = {}
  Faults <- ClaimFaults
  MaxFaults = 1
INVARIANTS TypeOK ClaimedOnce
SYMMETRY AnyJobReplica
