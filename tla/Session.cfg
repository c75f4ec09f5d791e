SPECIFICATION FairSpec
CONSTANTS
    r1 = r1
    r2 = r2
    r3 = r3
    a1 = a1
    a2 = a2
    NoAccount = NoAccount
    NoToken = NoToken
    Requests <- MCRequests
    Accounts <- MCAccounts
    AccessLife = 1
    RefreshLife = 2
    MaxTime = 2
INVARIANTS ShownAccountIsUsed CallsRunWhereShown ReplaysAreValid
PROPERTIES EveryRequestSettles
