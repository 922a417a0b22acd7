---------------------------- MODULE MCShiftRules ----------------------------
(***************************************************************************)
(* Two rules and three versions; cycles of one and two days, a plan that   *)
(* fits, one that is too long and none; edits of single fields; one shift  *)
(* definition that can be disabled and one team whose members can leave.   *)
(***************************************************************************)
EXTENDS ShiftRules

CONSTANTS A, B, D1

MCTeams == {A, B}
MCLeavers == {B}
MCDefs == {D1}
MCThroughs == {0, 4}
Edit(start, cycle, plan) == [start |-> start, cycle |-> cycle, plan |-> plan]
MCEdits == { Edit(1, 2, <<A, B>>), Edit(2, 1, <<>>), Edit(2, 1, <<A, B>>),
             Edit(2, Keep, Keep), Edit(Keep, Keep, <<B, A>>), Edit(Keep, 3, Keep) }
=============================================================================
