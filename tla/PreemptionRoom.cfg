SPECIFICATION PRFairSpec
CONSTANTS
  Victims = {1, 2}
  Nodes = {1, 2}
  Resource = {"gpu"}
  MaxQuantity = 2
  MaxFailures = 1
INVARIANTS PRTypeOK PlanHoldsSmallest
PROPERTIES PlanMakesRoom PendingIsBound
CHECK_DEADLOCK FALSE
