------------------------------ MODULE Lifecycle ------------------------------
(***************************************************************************)
(* What the design document promises of every kind of business document:   *)
(* it begins unborn, one document moves at a time, and only along the      *)
(* arrows of its status diagram (docs/design/06, section 8).               *)
(***************************************************************************)
CONSTANTS Items,  \* the documents of one kind
          Moves   \* the arrows: pairs of a status and the next

VARIABLE status

Init == status = [d \in Items |-> "none"]

Move(d) ==
    \E m \in Moves :
        /\ status[d] = m[1]
        /\ status' = [status EXCEPT ![d] = m[2]]

Next == \E d \in Items : Move(d)

Spec == Init /\ [][Next]_status
=============================================================================
