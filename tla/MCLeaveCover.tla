---------------------------- MODULE MCLeaveCover ----------------------------
(***************************************************************************)
(* One shift of two positions and one holiday shift; three operators, of   *)
(* whom C has no account; two cover persons; two leave requests, so that   *)
(* both positions of a shift can be covered.  Nobody's record changes.     *)
(***************************************************************************)
EXTENDS LeaveCover, TLC

CONSTANTS A, B, C, M, D, S1, S2, L1, L2

MCOperators == {A, B, C}
MCCoverStaff == {M, D}
MCPeople == MCOperators \cup MCCoverStaff
MCEngaged == [p \in MCPeople |-> IF p \in MCOperators THEN "duty" ELSE "cover"]
MCShifts == {S1, S2}
MCBaseline == (S1 :> <<A, B>>) @@ (S2 :> <<A>>)
MCDutyDay == (S1 :> 0) @@ (S2 :> 0)
MCDutyMonth == (S1 :> "July") @@ (S2 :> "July")
MCPayloads == {<<C, B>>, <<A, M>>}
MCLeaves == {L1, L2}
MCHolidays == {S2}
MCAccounts == {A, B, M, D}
MCApprovers == {D}
=============================================================================
