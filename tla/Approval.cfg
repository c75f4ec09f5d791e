SPECIFICATION FairSpec
CONSTANTS
  s1 = s1
  s2 = s2
  l1 = l1
  l2 = l2
  tab = tab
  detail = detail
  user = user
  job = job
  c1 = c1
  c2 = c2
  NoOrder = NoOrder
  Orders = {s1, s2, l1, l2}
  Jobs = {job}
  Users = {user}
  Admins = {tab, detail}
  Slots = {c1, c2}
  JobOf <- OneJob
  Creator <- OneUser
  Short = {s1, s2}
  Page <- Pages
  Shows <- Lists
  Deletable = {s1, s2}
  Changing = {job}
  CheckIsUsed = TRUE
  Window = 1
  MaxTime = 1
  MaxFaults = 1
INVARIANTS AutoOncePerWindow
PROPERTIES ApprovedAfterLock RunningJobsKeepOrders LockIsFollowedUp EndedJobsOrdersSettle
CONSTRAINT OneStory
