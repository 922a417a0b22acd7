SPECIFICATION TxnSpec
CONSTANTS
    R1 = R1
    R2 = R2
    R3 = R3
    R4 = R4
    R5 = R5
    R6 = R6
    S = S
    T = T
    A = A
    B = B
    C = C
    None = None
    Requests <- MCRequests
    Loads <- MCLoads
    Source = S
    Target = T
    Applicant = A
    Partner = B
INVARIANTS RosterFollowsDecision LeavesExcludeEachOther CorrectedMonthHasOneFlag DeadlocksNeedAnEdit
PROPERTIES AnsweredOnce BegunRequestsEnd
\* Every request is made once; then nothing is left to do.
CHECK_DEADLOCK FALSE
