SPECIFICATION SessionSpec
CONSTANTS
    C1 = C1
    C2 = C2
    Alice = Alice
    NoUser = NoUser
    Calls <- MCCalls
    Users <- MCUsers
    MaxTokens = 3
INVARIANTS RefreshServesItsWaiters AppNeedsSession
PROPERTIES ForcedOutOnlyAfterRefresh EveryCallSettles
