SPECIFICATION RulesSpec
CONSTANTS
    A = A
    B = B
    D1 = D1
    Keep = Keep
    NoSchedule = NoSchedule
    Teams <- MCTeams
    Leavers <- MCLeavers
    Defs <- MCDefs
    Horizon = 1
    LastDay = 2
    Edits <- MCEdits
    Throughs <- MCThroughs
    MaxRules = 2
    MaxVersions = 3
    MaxMarks = 1
INVARIANT EditedRuleCanBeRepublished
