------------------------------ MODULE DutyFlow ------------------------------
(***************************************************************************)
(* The whole room: direct edits, historical corrections, swaps and leaves  *)
(* with their covers, all writing one final roster and one duty ledger     *)
(* through update_schedule_shift_persons.                                  *)
(***************************************************************************)
EXTENDS ShiftSwap, LeaveCover

\* Swaps and leaves keep their tasks under different biz_type.
ASSUME DutyFlowAssumption == Swaps \cap Leaves = {}

flowVars == <<rosterVars, tasks, swaps, leaves, covers>>

FlowInit == SwapInit /\ LeaveInit

FlowNext ==
    \/ SwapStep /\ UNCHANGED <<leaves, covers>>
    \/ LeaveStep /\ UNCHANGED swaps
    \/ RosterNext /\ UNCHANGED <<tasks, swaps, leaves, covers>>

FlowSpec == FlowInit /\ [][FlowNext]_flowVars

-----------------------------------------------------------------------------
\* What must be true of the document behind a ledger row for the row's effect to
\* be in force.
InForce(e) ==
    CASE e.type = "swap"               -> swaps[e.doc].status = "effective"
      [] e.type = "swap_cancel"        -> swaps[e.doc].status = "cancelled"
      [] e.type = "leave_cover"        -> covers[e.doc].status = "effective"
      [] e.type = "leave_cover_cancel" -> covers[e.doc].status = "cancelled"
      [] OTHER                         -> e.doc = NoDoc

\* Whoever is on duty is there by the plan, by a manual change, or by a document
\* still in force: voiding a swap or a cover takes its person off every position
\* that person owes to it, however many other changes came before.
NobodyServesForVoidDocument ==
    \A s \in Shifts : \A i \in DOMAIN Baseline[s] :
        \A e \in LedgerOf(roster, s, i) :
            Latest(LedgerOf(roster, s, i), e) => InForce(e)

=============================================================================
