----------------------------- MODULE ShiftRules -----------------------------
(***************************************************************************)
(* The shift rules of one room, their versions, and the days they are      *)
(* materialised into (services/auth.py, generate_schedule_from_rule).      *)
(*                                                                         *)
(* A day of the cycle is planned for a team: the persons of all its cells. *)
(* Dates are day numbers.  A rule's number is its id, given in the order   *)
(* of creation; a version's number is its place in its rule's sequence.    *)
(***************************************************************************)
EXTENDS Naturals, Sequences, FiniteSets

CONSTANTS
    Teams,        \* what a day of the cycle can be planned for
    Leavers,      \* the teams a member of which may be disabled or come back
    Defs,         \* shift definitions
    Horizon,      \* SCHEDULE_MATERIALIZATION_DAYS
    LastDay,      \* bound on the passing of days
    Edits,        \* bound: what an editor sends as start, cycle and plan
    Throughs,     \* the dates to generate through, 0 for none
    MaxRules,     \* bound on the rules ever created
    MaxVersions,  \* bound on the versions kept at a time
    MaxMarks,     \* bound on the days edited or referred to
    Keep,         \* a field the editor does not send
    NoSchedule

ASSUME RulesAssumption ==
    /\ Leavers \subseteq Teams /\ Throughs \subseteq Nat
    /\ \A e \in Edits : /\ e.start \in Nat \cup {Keep} /\ e.cycle \in (Nat \ {0}) \cup {Keep}
                        /\ e.plan \in Seq(Teams) \cup {Keep}
    /\ {Horizon, LastDay, MaxRules, MaxVersions, MaxMarks} \subseteq Nat
    /\ Keep \notin Nat /\ Keep \notin Seq(Teams)
    /\ NoSchedule \notin [rule : Nat, version : Nat]

VARIABLES
    today,
    eligible,     \* the teams all of whose members may be rostered
    enabledDefs,  \* the room's enabled shift definitions
    rules,        \* sequence of rules, a deleted one staying as a tombstone
    schedule,     \* the room's schedule: its rule and version
    days          \* the materialised dates

ruleVars == <<today, eligible, enabledDefs, rules, schedule, days>>

RuleStatus == {"draft", "published", "superseded", "deleted"}
Versions == [start : Nat, cycle : Nat \ {0}, plan : Seq(Teams),
             defs : SUBSET Defs, status : {"draft", "published"}]

Latest(r) == rules[r].versions[Len(rules[r].versions)]
Later(a, b) == IF a > b THEN a ELSE b
Live(r) == r \in DOMAIN rules /\ rules[r].status # "deleted"
MayGrow == Cardinality(UNION { {r} \X DOMAIN rules[r].versions : r \in DOMAIN rules }) < MaxVersions

-----------------------------------------------------------------------------
(***************************************************************************)
(* Saving rules.                                                           *)
(***************************************************************************)
\* Variant: a plan with days left out is accepted.
ValidCellsAnyLength(cycle, plan, defs) ==
    /\ enabledDefs # {}
    /\ plan # <<>> => defs = enabledDefs /\ \A i \in DOMAIN plan : plan[i] \in eligible

\* _validate_cells: only shortage is refused, a plan may exceed its cycle.
ValidCells(cycle, plan, defs) ==
    /\ enabledDefs # {}
    /\ plan # <<>> => /\ defs = enabledDefs
                      /\ \A i \in DOMAIN plan : plan[i] \in eligible
                      /\ cycle <= Len(plan)

Draft(start, cycle, plan, defs) ==
    [start |-> start, cycle |-> cycle, plan |-> plan, defs |-> defs, status |-> "draft"]

CreateRule(start, cycle, plan) ==
    /\ Len(rules) < MaxRules /\ MayGrow
    /\ start > today
    /\ ValidCells(cycle, plan, enabledDefs)
    /\ rules' = Append(rules,
         [status |-> "draft", start |-> start, cycle |-> cycle,
          versions |-> IF plan = <<>> THEN <<>> ELSE <<Draft(start, cycle, plan, enabledDefs)>>])
    /\ UNCHANGED <<today, eligible, enabledDefs, schedule, days>>

\* The value a field has after an update.
Sent(new, old) == IF new = Keep THEN old ELSE new

\* Variant: a new start date alone does not make a version.
SavesVersionWithoutStart(r, start, cycle, plan) ==
    plan # Keep \/ (rules[r].versions # <<>> /\ cycle # Keep)

\* update_shift_rule saves a version when days are sent, or when a parameter
\* changes and there are days to carry over.
SavesVersion(r, start, cycle, plan) ==
    plan # Keep \/ (rules[r].versions # <<>> /\ ~(start = Keep /\ cycle = Keep))

SaveParameters(r, start, cycle, plan) ==
    /\ Live(r) /\ ~SavesVersion(r, start, cycle, plan)
    /\ enabledDefs # {}
    /\ rules' = [rules EXCEPT ![r].start = Sent(start, @), ![r].cycle = Sent(cycle, @)]
    /\ UNCHANGED <<today, eligible, enabledDefs, schedule, days>>

SaveVersion(r, start, cycle, plan) ==
    LET s  == Sent(start, rules[r].start)
        c  == Sent(cycle, rules[r].cycle)
        p  == IF plan # Keep THEN plan ELSE Latest(r).plan
        ds == IF plan # Keep THEN enabledDefs ELSE Latest(r).defs
    IN  /\ Live(r) /\ SavesVersion(r, start, cycle, plan)
        /\ MayGrow
        /\ s > today
        /\ ValidCells(c, p, ds)
        /\ rules' = [rules EXCEPT ![r] =
              [status   |-> IF @.status = "superseded" THEN "draft" ELSE @.status,
               start    |-> s,
               cycle    |-> c,
               versions |-> Append(@.versions, Draft(s, c, p, ds))]]
        /\ UNCHANGED <<today, eligible, enabledDefs, schedule, days>>

Tombstone == [status |-> "deleted", start |-> 0, cycle |-> 1, versions |-> <<>>]

\* Variant: only a reference to the rule's latest version protects it.
ReferencedLatest(r) ==
    schedule # NoSchedule /\ schedule = [rule |-> r, version |-> Len(rules[r].versions)]

Referenced(r) == schedule # NoSchedule /\ schedule.rule = r

DeleteRule(r) ==
    /\ Live(r)
    /\ enabledDefs # {}
    /\ ~Referenced(r)
    /\ rules' = [rules EXCEPT ![r] = Tombstone]
    /\ UNCHANGED <<today, eligible, enabledDefs, schedule, days>>

-----------------------------------------------------------------------------
(***************************************************************************)
(* generate_schedule_from_rule                                             *)
(***************************************************************************)
\* The refusals of the generation itself.
Generable(v) == Len(v.plan) = v.cycle /\ v.defs \subseteq enabledDefs

\* Variant: the cycle starts again with the first day that is generated.
TeamFromToday(v, d) ==
    v.plan[((d - (IF today + 1 > v.start THEN today + 1 ELSE v.start)) % v.cycle) + 1]

TeamOn(v, d) == v.plan[((d - v.start) % v.cycle) + 1]

\* Variant: the range is counted from the start of the rule alone.
EndFromStart(v, through) == Later(v.start + Horizon, through)

GenerationEnd(v, through) == Later(Later(v.start, today + 1) + Horizon, through)

SameVersion(r, k) == schedule # NoSchedule /\ schedule.rule = r /\ schedule.version = k

\* Variant: the days are made anew by every generation.
KeptDaysBeforeStart(r, k) == { d \in DOMAIN days : d < rules[r].versions[k].start }

\* Days of another version from the start date on are deleted first.
KeptDays(r, k) ==
    IF SameVersion(r, k) THEN DOMAIN days
    ELSE { d \in DOMAIN days : d < rules[r].versions[k].start }

\* Variant: references from swaps and leaves are deleted with the day.
DeletableAlways(r, k) == TRUE

\* shift_swap and leave_request refer to shifts with ON DELETE RESTRICT.
Deletable(r, k) == \A d \in DOMAIN days \ KeptDays(r, k) : days[d].use # "referenced"

Materialize(r, k, through) ==
    LET v    == rules[r].versions[k]
        kept == KeptDays(r, k)
    IN  /\ Deletable(r, k)
        /\ schedule' = [rule |-> r, version |-> k]
        /\ days' = [d \in kept \cup v.start..GenerationEnd(v, through) |->
                      IF d \in kept THEN days[d]
                      ELSE [team |-> TeamOn(v, d), use |-> "planned"]]

-----------------------------------------------------------------------------
(***************************************************************************)
(* Publishing.                                                             *)
(***************************************************************************)
\* The checks of publish_shift_rule and of the generation it ends with.
Publishable(r) ==
    /\ Live(r) /\ rules[r].versions # <<>>
    /\ Latest(r).status = "draft"
    /\ ValidCells(rules[r].cycle, Latest(r).plan, Latest(r).defs)
    /\ Generable(Latest(r))

\* One flush writes the statuses in the order of ids under an index that allows
\* one published rule per room: the active rule has to be the older one.
FlushAccepted(r) ==
    \A a \in DOMAIN rules \ {r} : rules[a].status = "published" => a < r

PublishRule(r) ==
    /\ Publishable(r)
    /\ FlushAccepted(r)
    /\ Materialize(r, Len(rules[r].versions), 0)
    /\ rules' = [q \in DOMAIN rules |->
          IF q = r THEN [rules[r] EXCEPT !.status = "published",
                                         !.versions[Len(rules[r].versions)].status = "published"]
          ELSE IF rules[q].status = "published" THEN [rules[q] EXCEPT !.status = "superseded"]
          ELSE rules[q]]
    /\ UNCHANGED <<today, eligible, enabledDefs>>

\* k is r's latest published version.
PublishedVersion(r, k) ==
    /\ k \in DOMAIN rules[r].versions
    /\ rules[r].versions[k].status = "published"
    /\ \A j \in (k + 1)..Len(rules[r].versions) : rules[r].versions[j].status # "published"

\* generate_schedule_endpoint extends the coverage.
GenerateDays(through) ==
    /\ schedule # NoSchedule
    /\ rules[schedule.rule].status = "published"
    /\ \E k \in DOMAIN rules[schedule.rule].versions :
         /\ PublishedVersion(schedule.rule, k)
         /\ Generable(rules[schedule.rule].versions[k])
         /\ Materialize(schedule.rule, k, through)
    /\ UNCHANGED <<today, eligible, enabledDefs, rules>>

-----------------------------------------------------------------------------
(***************************************************************************)
(* What happens around the rules.                                          *)
(***************************************************************************)
Used(use) == { d \in DOMAIN days : days[d].use = use }

MayMark == Cardinality(Used("edited") \cup Used("referenced")) < MaxMarks

\* update_schedule_shift_persons on a shift of the day.
EditDay(d) ==
    /\ days[d].use = "planned" /\ MayMark
    /\ days' = [days EXCEPT ![d].use = "edited"]
    /\ UNCHANGED <<today, eligible, enabledDefs, rules, schedule>>

\* create_swap or create_leave on a shift of the day; documents are never deleted.
FileDocument(d) ==
    /\ d >= today
    /\ days[d].use = "edited" \/ (days[d].use = "planned" /\ MayMark)
    /\ days' = [days EXCEPT ![d].use = "referenced"]
    /\ UNCHANGED <<today, eligible, enabledDefs, rules, schedule>>

\* update_person
ChangeTeam(t) ==
    /\ eligible' = IF t \in eligible THEN eligible \ {t} ELSE eligible \cup {t}
    /\ UNCHANGED <<today, enabledDefs, rules, schedule, days>>

\* create_shift_def, update_shift_def
ChangeDefinition(f) ==
    /\ enabledDefs' = IF f \in enabledDefs THEN enabledDefs \ {f} ELSE enabledDefs \cup {f}
    /\ UNCHANGED <<today, eligible, rules, schedule, days>>

Midnight ==
    /\ today < LastDay
    /\ today' = today + 1
    /\ UNCHANGED <<eligible, enabledDefs, rules, schedule, days>>

RulesInit ==
    /\ today = 0
    /\ eligible = Teams
    /\ enabledDefs \in SUBSET Defs
    /\ rules = <<>>
    /\ schedule = NoSchedule
    /\ days = <<>>

RulesNext ==
    \/ \E e \in Edits : /\ Keep \notin {e.start, e.cycle}
                        /\ e.plan # Keep
                        /\ CreateRule(e.start, e.cycle, e.plan)
    \/ \E r \in DOMAIN rules, e \in Edits :
          SaveParameters(r, e.start, e.cycle, e.plan) \/ SaveVersion(r, e.start, e.cycle, e.plan)
    \/ \E r \in DOMAIN rules : DeleteRule(r) \/ PublishRule(r)
    \/ \E through \in Throughs : GenerateDays(through)
    \/ \E d \in DOMAIN days : EditDay(d) \/ FileDocument(d)
    \/ \E t \in Leavers : ChangeTeam(t)
    \/ \E f \in Defs : ChangeDefinition(f)
    \/ Midnight

RulesSpec == RulesInit /\ [][RulesNext]_ruleVars

-----------------------------------------------------------------------------
RuleRecord == [status : RuleStatus, start : Nat, cycle : Nat \ {0}, versions : Seq(Versions)]
ScheduleRecord == [rule : Nat, version : Nat]
DayRecord == [team : Teams, use : {"planned", "edited", "referenced"}]

\* A saved plan is never shorter than its cycle unless it is empty, so that
\* generate_schedule_from_rule finds a team for every day it writes.
RulesTypeOK ==
    /\ today \in 0..LastDay /\ eligible \subseteq Teams /\ enabledDefs \subseteq Defs
    /\ rules \in Seq(RuleRecord)
    /\ schedule \in ScheduleRecord \cup {NoSchedule}
    /\ schedule # NoSchedule => schedule.rule \in DOMAIN rules
    /\ DOMAIN days \subseteq Nat /\ days \in [DOMAIN days -> DayRecord]
    /\ \A r \in DOMAIN rules : \A k \in DOMAIN rules[r].versions :
         LET v == rules[r].versions[k] IN v.plan = <<>> \/ v.cycle <= Len(v.plan)

\* The screen shows the rule, publishing takes its latest version: they must not
\* disagree, however the rule was edited.
RuleMatchesLatestVersion ==
    \A r \in DOMAIN rules : rules[r].versions # <<>> =>
        rules[r].start = Latest(r).start /\ rules[r].cycle = Latest(r).cycle

\* The schedule is driven by the one published rule, and by its latest published
\* version.
ScheduleFollowsPublishedRule ==
    /\ \A r \in DOMAIN rules : rules[r].status = "published" =>
            schedule # NoSchedule /\ schedule.rule = r
    /\ schedule # NoSchedule => /\ rules[schedule.rule].status = "published"
                               /\ PublishedVersion(schedule.rule, schedule.version)

\* From its start date on a version repeats its cycle without a gap, in however
\* many pieces the days were generated.
DaysFollowRotation ==
    schedule # NoSchedule =>
        LET v == rules[schedule.rule].versions[schedule.version]
            covered == { d \in DOMAIN days : d >= v.start }
        IN  /\ v.start \in covered
            /\ \A d \in covered : v.start..d \subseteq covered /\ days[d].team = TeamOn(v, d)

\* When days were written, the coming Horizon days are covered.
GenerationCoversHorizon ==
    [][ DOMAIN days' # DOMAIN days =>
          \A d \in (today + 1)..(today + 1 + Horizon) :
              d >= rules'[schedule'.rule].versions[schedule'.version].start => d \in DOMAIN days' ]_ruleVars

\* A day d keeps its plan and what has been done to it.
Survives(d) ==
    /\ d \in DOMAIN days' /\ days'[d].team = days[d].team
    /\ days[d].use # "planned" => days'[d].use # "planned"

\* A day that a swap or a leave refers to is never dropped or replanned.
ReferencedDaysSurvive == [][ \A d \in Used("referenced") : Survives(d) ]_ruleVars

\* Publishing replaces the days from the start of the new version on; nothing
\* else, and no extension of the coverage, touches a day that is there.
OnlyTheNewRangeIsReplaced ==
    [][ \A d \in DOMAIN days :
          schedule' = schedule \/ d < rules'[schedule'.rule].versions[schedule'.version].start
            => Survives(d) ]_ruleVars

-----------------------------------------------------------------------------
(***************************************************************************)
(* A statement of the documents that does not hold of the code.            *)
(***************************************************************************)
\* A superseded rule that was edited and is a draft again can be published again
\* (docs/design/06, s.8).
EditedRuleCanBeRepublished ==
    \A r \in DOMAIN rules :
        /\ Publishable(r) /\ rules[r].status = "draft"
        /\ \E k \in DOMAIN rules[r].versions : rules[r].versions[k].status = "published"
        => FlushAccepted(r)
=============================================================================
