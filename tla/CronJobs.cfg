SPECIFICATION Spec
CONSTANTS
    j1 = j1
    j2 = j2
    k1 = k1
    k2 = k2
    hourly = hourly
    broken = broken
    Jobs = {j1, j2}
    Plans = {hourly, broken}
    Bad = {broken}
    Slots = {k1, k2}
    Faults = {"load", "write", "commit"}
    MaxEntries = 3
    MaxCrashes = 1
INVARIANTS ScheduleFollowsRows RunningIsAttended
PROPERTIES OthersStayScheduled
CONSTRAINT OneStory
