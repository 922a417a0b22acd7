SPECIFICATION FlowSpec
CONSTANTS
    A = A
    B = B
    C = C
    M = M
    S1 = S1
    S2 = S2
    L1 = L1
    L2 = L2
    X1 = X1
    Swaps <- MCSwaps
    NoDoc = NoDoc
    NoShift = NoShift
    NoPerson = NoPerson
    People <- MCPeople
    Engaged <- MCEngaged
    Shifts <- MCShifts
    Baseline <- MCBaseline
    DutyDay <- MCDutyDay
    DutyMonth <- MCDutyMonth
    Changeable <- MCChangeable
    Docs <- MCDocs
    Leaves <- MCLeaves
    Holidays <- MCHolidays
    Approvers <- MCApprovers
    Accounts <- MCAccounts
    LastDay = 1
    MaxVersion = 4
    Payloads <- MCPayloads
INVARIANTS TypeOK JournalsAgree LedgerExplainsStaff
INVARIANTS NobodyServesForVoidDocument
INVARIANTS LeaveAgreesWithCover OneOpenLeavePerDuty LeaveHasTaskWhileWaiting CoverLedgerFollowsStatus
PROPERTIES WorkflowsMakeNoStray HistoryIsFrozen LeaveLifecycle CoverLifecycle
SYMMETRY MCSymmetry
\* The bounded supply of documents, versions and days runs out.
CHECK_DEADLOCK FALSE
