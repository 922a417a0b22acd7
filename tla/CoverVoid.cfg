SPECIFICATION LeaveSpec
CONSTANTS
    A = A
    B = B
    C = C
    M = M
    D = D
    S1 = S1
    S2 = S2
    L1 = L1
    L2 = L2
    NoDoc = NoDoc
    NoShift = NoShift
    NoPerson = NoPerson
    People <- MCPeople
    Engaged <- MCEngaged
    Shifts <- MCShifts
    Baseline <- MCBaseline
    DutyDay <- MCDutyDay
    DutyMonth <- MCDutyMonth
    Changeable = {}
    Docs <- MCLeaves
    Leaves <- MCLeaves
    Holidays <- MCHolidays
    Approvers <- MCApprovers
    Accounts <- MCAccounts
    LastDay = 1
    MaxVersion = 4
    Payloads <- MCPayloads
INVARIANT EffectiveCoverCanBeVoided
\* The bounded supply of documents, versions and days runs out.
CHECK_DEADLOCK FALSE
