SPECIFICATION RulesSpec
CONSTANTS
    A = A
    B = B
    D1 = D1
    Keep = Keep
    NoSchedule = NoSchedule
    Teams <- MCTeams
    Leavers <- MCLeavers
    Defs <- MCDefs
    Horizon = 2
    LastDay = 3
    Edits <- MCEdits
    Throughs <- MCThroughs
    MaxRules = 2
    MaxVersions = 3
    MaxMarks = 1
INVARIANTS RulesTypeOK RuleMatchesLatestVersion ScheduleFollowsPublishedRule DaysFollowRotation
PROPERTIES GenerationCoversHorizon ReferencedDaysSurvive OnlyTheNewRangeIsReplaced
