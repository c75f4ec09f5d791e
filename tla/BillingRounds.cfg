SPECIFICATION Spec
CONSTANTS
  j1 = j1
  j2 = j2
  u1 = u1
  l1 = l1
  l2 = l2
  Jobs = {j1, j2}
  NoJob = NoJob
  Users = {u1}
  NoUser = NoUser
  OwnerOf <- OneOwner
  Rate <- TwoPoints
  Loops = {l1, l2}
  Reconciler = Reconciler
  NoProc = NoProc
  NoCopy = NoCopy
  Deletable = {j1}
  FreeMinutes = 1
  IssueAmount = 1
  Period = 2
  Interval = 1
  Deltas <- Grants
  MaxTime = 3
  Events <- AnyEvent
  MaxEvents = 1
INVARIANTS TypeOK ChargedOnce FreeMinutesOnce BalancesAddUp
PROPERTIES RefinesLedger IssuedOncePerPeriod
CONSTRAINT OneComplication
