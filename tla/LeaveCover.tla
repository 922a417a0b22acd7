----------------------------- MODULE LeaveCover -----------------------------
(***************************************************************************)
(* Leave requests and the cover assignments they lead to: services/leave.py *)
(* and the part of the approval centre that decides a leave.  Approval     *)
(* creates at most one cover assignment of a leave, so covers[l] is the    *)
(* cover of leave l and l also stands for the cover's number.              *)
(***************************************************************************)
EXTENDS Roster, ApprovalTasks

CONSTANTS Leaves,   \* identities of leave requests, also a bound on their number
          Holidays  \* shifts on enabled legal holidays

ASSUME LeaveAssumption ==
    /\ Leaves \subseteq Docs /\ NoDoc \notin Docs
    /\ Accounts \subseteq People
    /\ NoShift \notin Shifts /\ NoPerson \notin People

VARIABLES leaves, covers

leaveVars == <<rosterVars, tasks, leaves, covers>>

OpenLeaveStatuses == {"wait_director_approval", "approved",
                      "pending_arrangement", "wait_cover_confirm"}
LeaveStatuses == {"none", "wait_director_approval", "pending_arrangement",
                  "wait_cover_confirm", "completed", "rejected", "withdrawn"}
CoverStatuses == {"none", "pending_arrangement", "wait_cover_confirm",
                  "rearrange", "effective", "cancelled"}

NoLeave == [applicant |-> NoPerson, shift |-> NoShift, status |-> "none"]
NoCover == [person |-> NoPerson, status |-> "none"]

NotHoliday(s) == s \notin Holidays

\* Variant: a leave already under cover arrangement does not block another.
OpenUndecidedLeaves(a, s) ==
    { l \in Leaves : /\ leaves[l].applicant = a /\ leaves[l].shift = s
                     /\ leaves[l].status = "wait_director_approval" }

OpenLeaves(a, s) ==
    { l \in Leaves : /\ leaves[l].applicant = a /\ leaves[l].shift = s
                     /\ leaves[l].status \in OpenLeaveStatuses }

\* Variant: an approved leave may still be withdrawn.
WithdrawableApproved == {"wait_director_approval", "pending_arrangement"}

WithdrawableLeave == {"wait_director_approval"}

\* Variant: a cover that was refused may still be confirmed.
AnswerableRefused == {"wait_cover_confirm", "rearrange"}

Answerable == {"wait_cover_confirm"}

SetLeave(l, status) == leaves' = [leaves EXCEPT ![l].status = status]
SetCover(l, status) == covers' = [covers EXCEPT ![l].status = status]

-----------------------------------------------------------------------------
\* create_leave by the account of person a for a's shift s
CreateLeave(l, a, s) ==
    /\ leaves[l].status = "none"
    /\ a \in Accounts \cap DutyOperators
    /\ ~Past(s)
    /\ NotHoliday(s)
    /\ OnShift(a, s)
    /\ OpenLeaves(a, s) = {}
    /\ ApproverFound
    /\ leaves' = [leaves EXCEPT ![l] = [applicant |-> a, shift |-> s,
                                        status |-> "wait_director_approval"]]
    /\ tasks' = CreateTask(tasks, l, "director_approval")
    /\ UNCHANGED <<rosterVars, covers>>

WithdrawLeave(l) ==
    /\ leaves[l].status \in WithdrawableLeave
    /\ SetLeave(l, "withdrawn")
    /\ tasks' = CancelPendingTasks(tasks, l)
    /\ UNCHANGED <<rosterVars, covers>>

\* The approval centre completes the director's task, then decide_leave.
LeaveApproved(l) ==
    /\ \E i \in DOMAIN tasks[l] :
         /\ IsPending(l, i, "director_approval")
         /\ tasks' = CompleteTask(tasks, l, i, TRUE)
    /\ leaves[l].status = "wait_director_approval"
    /\ ~Past(leaves[l].shift)
    /\ SetLeave(l, "pending_arrangement")
    /\ SetCover(l, "pending_arrangement")
    /\ UNCHANGED rosterVars

LeaveRejected(l) ==
    /\ \E i \in DOMAIN tasks[l] :
         /\ IsPending(l, i, "director_approval")
         /\ tasks' = CompleteTask(tasks, l, i, FALSE)
    /\ leaves[l].status = "wait_director_approval"
    /\ SetLeave(l, "rejected")
    /\ UNCHANGED <<rosterVars, covers>>

\* arrange_cover, which looks at no date
ArrangeCover(l, p) ==
    /\ covers[l].status \in {"pending_arrangement", "rearrange"}
    /\ leaves[l].status \in {"pending_arrangement", "wait_cover_confirm"}
    /\ p \in CoverStaff \cap Accounts
    /\ p # leaves[l].applicant
    /\ covers' = [covers EXCEPT ![l] = [person |-> p, status |-> "wait_cover_confirm"]]
    /\ SetLeave(l, "wait_cover_confirm")
    /\ UNCHANGED <<rosterVars, tasks>>

\* confirm_cover, approve = True: the roster is read again.
CoverConfirms(l) ==
    LET s == leaves[l].shift
        ids == Replace(Staff(s), leaves[l].applicant, covers[l].person)
    IN  /\ covers[l].status \in Answerable
        /\ ~Past(s)
        /\ OnShift(leaves[l].applicant, s)
        /\ MayUpdate(roster, s, ids, DutyOperators \cup CoverStaff)
        /\ SetRoster(Update(roster, s, ids, "leave_cover", l))
        /\ SetCover(l, "effective")
        /\ SetLeave(l, "completed")
        /\ UNCHANGED <<flagged, eligible, today, tasks>>

\* Variant: the leave keeps waiting for the confirmation that was refused.
CoverRejectsAlone(l) ==
    /\ covers[l].status \in Answerable
    /\ ~Past(leaves[l].shift)
    /\ SetCover(l, "rearrange")
    /\ UNCHANGED <<rosterVars, tasks, leaves>>

\* confirm_cover, approve = False
CoverRejects(l) ==
    /\ covers[l].status \in Answerable
    /\ ~Past(leaves[l].shift)
    /\ SetCover(l, "rearrange")
    /\ SetLeave(l, "pending_arrangement")
    /\ UNCHANGED <<rosterVars, tasks>>

\* Variant: a cancelled cover leaves the planned persons on the shift.
RestoredFromPlan(l) == Baseline[leaves[l].shift]

\* The staff of the shift with the applicant back in the cover's place.
Restored(l) ==
    Replace(Staff(leaves[l].shift), covers[l].person, leaves[l].applicant)

\* cancel_cover: only duty operators may be on the shift afterwards.
CancelCover(l) ==
    LET s == leaves[l].shift
    IN  /\ covers[l].status = "effective"
        /\ ~Past(s)
        /\ OnShift(covers[l].person, s)
        /\ MayUpdate(roster, s, Restored(l), DutyOperators)
        /\ SetRoster(Update(roster, s, Restored(l), "leave_cover_cancel", l))
        /\ SetCover(l, "cancelled")
        /\ UNCHANGED <<flagged, eligible, today, tasks, leaves>>

LeaveInit ==
    /\ RosterInit /\ TasksInit
    /\ leaves = [l \in Leaves |-> NoLeave]
    /\ covers = [l \in Leaves |-> NoCover]

LeaveStep ==
    \E l \in Leaves :
      \/ \E a \in People, s \in Shifts : CreateLeave(l, a, s)
      \/ WithdrawLeave(l)
      \/ LeaveApproved(l) \/ LeaveRejected(l)
      \/ \E p \in People : ArrangeCover(l, p)
      \/ CoverConfirms(l) \/ CoverRejects(l)
      \/ CancelCover(l)

LeaveNext == LeaveStep \/ (RosterNext /\ UNCHANGED <<leaves, covers, tasks>>)

LeaveSpec == LeaveInit /\ [][LeaveNext]_leaveVars

-----------------------------------------------------------------------------
LeaveTypeOK ==
    /\ tasks \in TasksType
    /\ \A l \in Leaves :
         /\ leaves[l].status \in LeaveStatuses
         /\ covers[l].status \in CoverStatuses
         /\ covers[l].person \in People \cup {NoPerson}
         /\ leaves[l].status = "none" => leaves[l] = NoLeave /\ tasks[l] = <<>>
         /\ leaves[l].status # "none" =>
              leaves[l].applicant \in People /\ leaves[l].shift \in Shifts \ Holidays

\* A leave and its cover, written by separate assignments in every handler, tell
\* the same story: the pairs of statuses a reader of the two tables can meet.
LeaveAgreesWithCover ==
    \A l \in Leaves :
        <<leaves[l].status, covers[l].status>> \in
            ({"none", "wait_director_approval", "rejected", "withdrawn"} \X {"none"})
            \cup ({"pending_arrangement"} \X {"pending_arrangement", "rearrange"})
            \cup ({"wait_cover_confirm"} \X {"wait_cover_confirm"})
            \cup ({"completed"} \X {"effective", "cancelled"})

\* An operator never has two unfinished leaves for one shift, from the request
\* until the cover is confirmed (leave.py:64).
OneOpenLeavePerDuty ==
    \A a \in People, s \in Shifts :
        Cardinality({ l \in Leaves : /\ leaves[l].applicant = a /\ leaves[l].shift = s
                                     /\ leaves[l].status \notin
                                          {"completed", "rejected", "withdrawn"} }) <= 1

\* A leave has a todo exactly while it waits for the director, and then one.
LeaveHasTaskWhileWaiting ==
    \A l \in Leaves :
        Cardinality(PendingNodes(l)) =
            IF leaves[l].status = "wait_director_approval" THEN 1 ELSE 0

\* The ledger tells what a cover did to the roster, once and no more: a cover
\* that took effect replaced the applicant by the person who confirmed, and a
\* cancelled one put the applicant back in that person's place.
CoverLedgerFollowsStatus ==
    \A l \in Leaves :
      LET s == leaves[l].shift  a == leaves[l].applicant  p == covers[l].person
          Given(type) == { <<e.shift, e.before, e.after>> : e \in RowsOf(l, type) }
      IN  /\ Given("leave_cover") =
               IF covers[l].status \in {"effective", "cancelled"} THEN {<<s, a, p>>} ELSE {}
          /\ Given("leave_cover_cancel") =
               IF covers[l].status = "cancelled" THEN {<<s, p, a>>} ELSE {}

Covered(p, s) ==
    \E l \in Leaves : /\ leaves[l].shift = s
                      /\ covers[l] = [person |-> p, status |-> "effective"]

\* The duties of persons who are not, or no longer, participating duty operators
\* and stand on the shift for no cover.
Strays == { d \in People \X Shifts : /\ OnShift(d[1], d[2]) /\ ~Covered(d[1], d[2])
                                     /\ d[1] \notin DutyOperators }

\* Only a change of master data makes strays.  No edit, correction, swap, cover
\* or voided cover leaves anybody on a shift who is not a duty operator at that
\* moment, unless as the cover in effect of a leave of that shift or as one who
\* stood there already (the allowed_person_types of
\* update_schedule_shift_persons, whose callers each pass their own).
WorkflowsMakeNoStray == [][eligible' = eligible => Strays' \subseteq Strays]_leaveVars

\* The lives of a leave and of a cover are those of docs/design/06 s.8 (the
\* draft and approved states of the diagrams are never entered by the code).
LeaveLife == INSTANCE Lifecycle WITH
    Items <- Leaves,
    status <- [l \in Leaves |-> leaves[l].status],
    Moves <- {<<"none", "wait_director_approval">>,
              <<"wait_director_approval", "rejected">>,
              <<"wait_director_approval", "withdrawn">>,
              <<"wait_director_approval", "pending_arrangement">>,
              <<"pending_arrangement", "wait_cover_confirm">>,
              <<"wait_cover_confirm", "pending_arrangement">>,
              <<"wait_cover_confirm", "completed">>}
LeaveLifecycle == LeaveLife!Spec

CoverLife == INSTANCE Lifecycle WITH
    Items <- Leaves,
    status <- [l \in Leaves |-> covers[l].status],
    Moves <- {<<"none", "pending_arrangement">>,
              <<"pending_arrangement", "wait_cover_confirm">>,
              <<"wait_cover_confirm", "rearrange">>,
              <<"rearrange", "wait_cover_confirm">>,
              <<"wait_cover_confirm", "effective">>,
              <<"effective", "cancelled">>}
CoverLifecycle == CoverLife!Spec

-----------------------------------------------------------------------------
(***************************************************************************)
(* A statement about covers that the code does not keep.                   *)
(***************************************************************************)
\* An effective cover whose persons are as it left them can be voided before its
\* duty date (the docstring of cancel_cover, leave.py:173).
EffectiveCoverCanBeVoided ==
    \A l \in Leaves :
        LET s == leaves[l].shift  a == leaves[l].applicant
        IN  /\ covers[l].status = "effective" /\ ~Past(s)
            /\ OnShift(covers[l].person, s) /\ ~OnShift(a, s) /\ a \in DutyOperators
            => MayUpdate(roster, s, Restored(l), DutyOperators)
=============================================================================
