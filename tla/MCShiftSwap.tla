----------------------------- MODULE MCShiftSwap -----------------------------
(***************************************************************************)
(* Three operators, two shifts of one position on days 0 and 1, two swap   *)
(* documents, one of the operators an approver as well.                    *)
(***************************************************************************)
EXTENDS ShiftSwap, TLC

CONSTANTS A, B, C, S1, S2, X1, X2

MCOperators == {A, B, C}
MCEngaged == [p \in MCOperators |-> "duty"]
MCShifts == {S1, S2}
MCBaseline == (S1 :> <<A>>) @@ (S2 :> <<B>>)
MCDutyDay == (S1 :> 0) @@ (S2 :> 1)
MCDutyMonth == (S1 :> "July") @@ (S2 :> "July")
MCPayloads == {<<C>>}
MCChangeable == {}
MCSwaps == {X1, X2}
MCApprovers == {B}
=============================================================================
