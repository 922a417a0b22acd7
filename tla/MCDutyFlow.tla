----------------------------- MODULE MCDutyFlow -----------------------------
(***************************************************************************)
(* Two shifts on days 0 and 1, the first with two positions, the second on *)
(* a holiday; three duty operators, of whom C has no account, and a        *)
(* maintenance person, who may become a duty operator, be disabled and     *)
(* come back, and apply and swap as long as the type allows; one swap and  *)
(* two leaves, so that swaps, covers, edits and corrections meet on one    *)
(* shift.  The two leaves are interchangeable.                             *)
(***************************************************************************)
EXTENDS DutyFlow, TLC

CONSTANTS A, B, C, M, S1, S2, X1, L1, L2

MCOperators == {A, B, C}
MCCoverStaff == {M}
MCPeople == MCOperators \cup MCCoverStaff
MCEngaged == [p \in MCPeople |-> IF p \in MCOperators THEN "duty" ELSE "cover"]
MCShifts == {S1, S2}
MCBaseline == (S1 :> <<A, C>>) @@ (S2 :> <<B>>)
MCDutyDay == (S1 :> 0) @@ (S2 :> 1)
MCDutyMonth == (S1 :> "July") @@ (S2 :> "July")
MCPayloads == {<<B, C>>, <<B, B>>, <<M>>}
MCChangeable == {M}
MCSwaps == {X1}
MCLeaves == {L1, L2}
MCDocs == {X1, L1, L2}
MCHolidays == {S2}
MCAccounts == {A, B, M}
MCApprovers == {M}
MCSymmetry == Permutations(MCLeaves)
=============================================================================
