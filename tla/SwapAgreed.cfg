SPECIFICATION SwapSpec
CONSTANTS
    A = A
    B = B
    C = C
    S1 = S1
    S2 = S2
    X1 = X1
    X2 = X2
    NoDoc = NoDoc
    NoShift = NoShift
    NoPerson = NoPerson
    People <- MCOperators
    Engaged <- MCEngaged
    Shifts <- MCShifts
    Baseline <- MCBaseline
    DutyDay <- MCDutyDay
    DutyMonth <- MCDutyMonth
    Changeable <- MCChangeable
    Docs <- MCSwaps
    Swaps <- MCSwaps
    Approvers <- MCApprovers
    Accounts <- MCOperators
    LastDay = 1
    MaxVersion = 5
    Payloads <- MCPayloads
INVARIANT AgreedSwapReachesDirector
\* The bounded supply of documents, versions and days runs out.
CHECK_DEADLOCK FALSE
