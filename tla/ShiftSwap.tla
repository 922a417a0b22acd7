------------------------------ MODULE ShiftSwap ------------------------------
(***************************************************************************)
(* Shift swaps: services/shift_swap.py, and the part of the approval       *)
(* centre (routes/approvals.py, _act) that decides them.  One request is   *)
(* one action.  A swap without a target shift is a single_cover, one with  *)
(* a target shift a mutual swap.                                           *)
(***************************************************************************)
EXTENDS Roster, ApprovalTasks

CONSTANT Swaps  \* identities of swap documents, also a bound on their number

ASSUME SwapAssumption ==
    /\ Swaps \subseteq Docs /\ NoDoc \notin Docs
    /\ Accounts \subseteq People
    /\ NoShift \notin Shifts /\ NoPerson \notin People
    /\ IsFiniteSet(Shifts)

VARIABLE swaps

swapVars == <<rosterVars, tasks, swaps>>

OpenStatuses == {"draft", "wait_target_confirm", "wait_director_approval"}
SwapStatuses == {"none", "wait_target_confirm", "wait_director_approval",
                 "effective", "rejected", "withdrawn", "cancelled"}

NoSwap == [applicant |-> NoPerson, source |-> NoShift,
           target |-> NoPerson, tshift |-> NoShift, status |-> "none"]

Touches(k) == {swaps[k].source, swaps[k].tshift} \ {NoShift}

OpenOn(s) == { k \in Swaps : swaps[k].status \in OpenStatuses /\ s \in Touches(k) }

\* Variant: only open swaps whose source is the shift block a new one.
AvailableBySource(s, p) ==
    /\ ~Past(s)
    /\ OnShift(p, s)
    /\ \A k \in OpenOn(s) : swaps[k].source # s

\* _assert_available
Available(s, p) ==
    /\ ~Past(s)
    /\ OnShift(p, s)
    /\ OpenOn(s) = {}

\* Variant: of a mutual swap only the source shift's day is looked at.
NotHistoricalSource(k) == ~Past(swaps[k].source)

NotHistorical(k) == \A s \in Touches(k) : ~Past(s)

EligibleTarget(a, b) == b \in DutyOperators \ {a}

\* Variant: a swap that took effect may still be withdrawn.
WithdrawableLate == OpenStatuses \cup {"effective"}

Withdrawable == OpenStatuses

\* Variant: a swap nobody has approved may be cancelled.
CancellableEarly == {"wait_director_approval", "approved", "effective"}

Cancellable == {"approved", "effective"}

SetStatus(k, status) == swaps' = [swaps EXCEPT ![k].status = status]

-----------------------------------------------------------------------------
\* create_swap by the account of person a, for a's shift s, with person b and,
\* when mutual, b's shift t.
CreateSwap(k, a, s, b, t) ==
    /\ swaps[k].status = "none"
    /\ a \in Accounts \cap DutyOperators
    /\ Available(s, a)
    /\ EligibleTarget(a, b)
    /\ t # NoShift => t # s /\ Available(t, b)
    /\ b \in Accounts
    /\ swaps' = [swaps EXCEPT ![k] = [applicant |-> a, source |-> s, target |-> b,
                                      tshift |-> t, status |-> "wait_target_confirm"]]
    /\ tasks' = CreateTask(tasks, k, "target_confirm")
    /\ UNCHANGED rosterVars

\* target_confirm by the target person, from the swap page.
TargetApproves(k) ==
    /\ swaps[k].status = "wait_target_confirm"
    /\ NotHistorical(k)
    /\ \E i \in DOMAIN tasks[k] :
         /\ IsPending(k, i, "target_confirm")
         /\ tasks' = CreateTask(CompleteTask(tasks, k, i, TRUE), k, "director_approval")
    /\ ApproverFound
    /\ SetStatus(k, "wait_director_approval")
    /\ UNCHANGED rosterVars

TargetRejects(k) ==
    /\ swaps[k].status = "wait_target_confirm"
    /\ \E i \in DOMAIN tasks[k] :
         /\ IsPending(k, i, "target_confirm")
         /\ tasks' = CompleteTask(tasks, k, i, FALSE)
    /\ SetStatus(k, "rejected")
    /\ UNCHANGED rosterVars

\* The target person, when an approver too, acts on the confirmation task in
\* the approval centre: _act completes the task and calls no state machine.
CentreAnswersConfirm(k, approve) ==
    /\ swaps[k].target \in Approvers
    /\ \E i \in DOMAIN tasks[k] :
         /\ IsPending(k, i, "target_confirm")
         /\ tasks' = CompleteTask(tasks, k, i, approve)
    /\ UNCHANGED <<rosterVars, swaps>>

\* Swap k puts person x, found on its source shift, out and person y in, and the
\* other way round on the target shift of a mutual swap.
MayExchange(k, x, y) ==
    LET s == swaps[k].source  t == swaps[k].tshift
    IN  /\ MayUpdate(roster, s, Replace(Staff(s), x, y), DutyOperators)
        /\ t # NoShift => MayUpdate(roster, t, Replace(Staff(t), y, x), DutyOperators)

\* Variant: the second half of a mutual exchange is forgotten.
ExchangeSourceOnly(k, x, y, type) ==
    Update(roster, swaps[k].source, Replace(Staff(swaps[k].source), x, y), type, k)

Exchange(k, x, y, type) ==
    LET s == swaps[k].source  t == swaps[k].tshift
        r == Update(roster, s, Replace(Staff(s), x, y), type, k)
    IN  IF t = NoShift THEN r ELSE Update(r, t, Replace(Staff(t), y, x), type, k)

\* The approval centre completes the director's task, then director_decide.
DirectorApproves(k) ==
    LET a == swaps[k].applicant  b == swaps[k].target  t == swaps[k].tshift
    IN  /\ \E i \in DOMAIN tasks[k] :
             /\ IsPending(k, i, "director_approval")
             /\ tasks' = CompleteTask(tasks, k, i, TRUE)
        /\ swaps[k].status = "wait_director_approval"
        /\ NotHistorical(k)
        /\ OnShift(a, swaps[k].source)
        /\ t # NoShift => OnShift(b, t)
        /\ MayExchange(k, a, b)
        /\ SetRoster(Exchange(k, a, b, "swap"))
        /\ SetStatus(k, "effective")
        /\ UNCHANGED <<flagged, eligible, today>>

DirectorRejects(k) ==
    /\ \E i \in DOMAIN tasks[k] :
         /\ IsPending(k, i, "director_approval")
         /\ tasks' = CompleteTask(tasks, k, i, FALSE)
    /\ swaps[k].status = "wait_director_approval"
    /\ SetStatus(k, "rejected")
    /\ UNCHANGED rosterVars

\* withdraw_or_cancel, cancel = False
WithdrawSwap(k) ==
    /\ swaps[k].status \in Withdrawable
    /\ SetStatus(k, "withdrawn")
    /\ tasks' = CancelPendingTasks(tasks, k)
    /\ UNCHANGED rosterVars

\* Variant: a cancelled mutual swap gives back the applicant's shift only.
UndoSourceOnly(k) ==
    ExchangeSourceOnly(k, swaps[k].target, swaps[k].applicant, "swap_cancel")

\* The exchange is undone where the persons are still on the shifts and left
\* alone where they are not.
Undo(k) == Exchange(k, swaps[k].target, swaps[k].applicant, "swap_cancel")

\* withdraw_or_cancel, cancel = True
CancelSwap(k) ==
    /\ swaps[k].status \in Cancellable
    /\ NotHistorical(k)
    /\ MayExchange(k, swaps[k].target, swaps[k].applicant)
    /\ SetRoster(Undo(k))
    /\ SetStatus(k, "cancelled")
    /\ tasks' = CancelPendingTasks(tasks, k)
    /\ UNCHANGED <<flagged, eligible, today>>

SwapInit ==
    /\ RosterInit /\ TasksInit
    /\ swaps = [k \in Swaps |-> NoSwap]

SwapStep ==
    \E k \in Swaps :
      \/ \E a, b \in People, s \in Shifts, t \in Shifts \cup {NoShift} :
            CreateSwap(k, a, s, b, t)
      \/ TargetApproves(k) \/ TargetRejects(k)
      \/ \E approve \in BOOLEAN : CentreAnswersConfirm(k, approve)
      \/ DirectorApproves(k) \/ DirectorRejects(k)
      \/ WithdrawSwap(k) \/ CancelSwap(k)

SwapNext == SwapStep \/ (RosterNext /\ UNCHANGED <<swaps, tasks>>)

SwapSpec == SwapInit /\ [][SwapNext]_swapVars

-----------------------------------------------------------------------------
SwapTypeOK ==
    /\ tasks \in TasksType
    /\ \A k \in Swaps :
         /\ swaps[k].status \in SwapStatuses
         /\ IF swaps[k].status = "none" THEN swaps[k] = NoSwap /\ tasks[k] = <<>>
            ELSE /\ swaps[k].applicant \in People /\ swaps[k].target \in People
                 /\ swaps[k].applicant # swaps[k].target
                 /\ swaps[k].source \in Shifts
                 /\ swaps[k].tshift \in (Shifts \cup {NoShift}) \ {swaps[k].source}

\* Two swaps that are still open never concern the same shift, whichever side
\* of either it is ("the shift already has an unfinished swap", shift_swap.py:47).
OneOpenSwapPerShift == \A s \in Shifts : Cardinality(OpenOn(s)) <= 1

\* A todo of the approval centre is always live: a swap has at most one pending
\* task, and its node is the one the swap's status waits for, so no closed swap
\* keeps a task and nobody is asked twice (approval.py, cancel_pending_tasks).
PendingTaskFollowsSwap ==
    \A k \in Swaps :
        /\ Cardinality(PendingNodes(k)) <= 1
        /\ \A i \in PendingNodes(k) : <<tasks[k][i].node, swaps[k].status>> \in
              {<<"target_confirm", "wait_target_confirm">>,
               <<"director_approval", "wait_director_approval">>}

\* Who caused a change can be told from the ledger: an approved swap put exactly
\* its two persons in each other's place on each of its shifts, and no swap that
\* was rejected, withdrawn or is still open left any trace (docs/design/03 s.6.2).
SwapLedgerFollowsStatus ==
    \A k \in Swaps :
      LET a == swaps[k].applicant  b == swaps[k].target
          given == { <<e.shift, e.before, e.after>> : e \in RowsOf(k, "swap") }
          back == { <<e.shift, e.before, e.after>> : e \in RowsOf(k, "swap_cancel") }
          exchange == { <<s, a, b>> : s \in {swaps[k].source} }
                        \cup { <<t, b, a>> : t \in {swaps[k].tshift} \ {NoShift} }
      IN  /\ given = IF swaps[k].status \in {"effective", "cancelled"} THEN exchange ELSE {}
          /\ swaps[k].status # "cancelled" => back = {}
          /\ \A e \in back : <<e[1], e[3], e[2]>> \in exchange

\* A mutual swap moves two duties and neither adds nor drops one: everybody has
\* as many duties after the approval as before.
DutiesOf(p) == { s \in Shifts : OnShift(p, s) }
MutualSwapKeepsDutyCounts ==
    [][ \A k \in Swaps :
          /\ swaps[k].tshift # NoShift
          /\ swaps[k].status = "wait_director_approval" /\ swaps'[k].status = "effective"
          => \A p \in People : Cardinality(DutiesOf(p)') = Cardinality(DutiesOf(p)) ]_swapVars

\* Cancelling an effective swap restores each of its shifts to the staff it had
\* before the swap, whenever nothing else changed that shift in between.
CancelUndoesUntouchedSwap ==
    [][ \A k \in Swaps : \A s \in Touches(k) :
          swaps[k].status = "effective" /\ swaps'[k].status = "cancelled" =>
            \A e \in LogOf(roster, s) :
               /\ Latest(LogOf(roster, s), e)
               /\ \E f \in RowsOf(k, "swap") : f.version = e.version
               => Staff(s)' = e.before ]_swapVars

\* The life of a swap is that of docs/design/06 s.8 (its states before and after
\* approval, draft and approved, are never entered by the code).
Life == INSTANCE Lifecycle WITH
    Items <- Swaps,
    status <- [k \in Swaps |-> swaps[k].status],
    Moves <- {<<"none", "wait_target_confirm">>,
              <<"wait_target_confirm", "wait_director_approval">>,
              <<"wait_target_confirm", "rejected">>,
              <<"wait_director_approval", "effective">>,
              <<"wait_director_approval", "rejected">>,
              <<"wait_target_confirm", "withdrawn">>,
              <<"wait_director_approval", "withdrawn">>,
              <<"effective", "cancelled">>}
SwapLifecycle == Life!Spec

-----------------------------------------------------------------------------
(***************************************************************************)
(* A statement about swaps that the code does not keep.                    *)
(***************************************************************************)
\* Once the target person has agreed there is a todo for the director
\* (docs/design/04, M4-P2-T3: "after agreement the director's todo is made").
AgreedSwapReachesDirector ==
    \A k \in Swaps : \A i \in DOMAIN tasks[k] :
        tasks[k][i].node = "target_confirm" /\ tasks[k][i].status = "approved" =>
            \E j \in DOMAIN tasks[k] : tasks[k][j].node = "director_approval"
=============================================================================
