SPECIFICATION FairSpec
CONSTANTS
    u1 = u1
    u2 = u2
    r1 = r1
    r2 = r2
    Users <- OneUser
    Slots <- TwoSlots
    MaxNames = 3
    MaxEvents = 4
INVARIANTS OnlyOrphansRemoved ReadyHasDataset
PROPERTIES StatusFollowsJob OrphansAreCleared
CHECK_DEADLOCK FALSE
