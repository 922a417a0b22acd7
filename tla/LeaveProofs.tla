----------------------------- MODULE LeaveProofs -----------------------------
(***************************************************************************)
(* Proofs about LeaveCover: a leave and its cover tell one story, live the *)
(* lives of the design document, exclude each other and leave no todo.     *)
(***************************************************************************)
EXTENDS LeaveCover, FiniteSetTheorems, TLAPS

-----------------------------------------------------------------------------
LeaveRecord == [applicant : People \cup {NoPerson}, shift : Shifts \cup {NoShift},
                status : LeaveStatuses]
CoverRecord == [person : People \cup {NoPerson}, status : CoverStatuses]

LeaveShape ==
    /\ leaves \in [Leaves -> LeaveRecord]
    /\ covers \in [Leaves -> CoverRecord]
    /\ \A l \in Leaves :
         IF leaves[l].status = "none" THEN leaves[l].applicant = NoPerson
         ELSE leaves[l].applicant \in People /\ leaves[l].shift \in Shifts

\* The inductive invariant of the two tables.
LeaveInv == LeaveShape /\ LeaveAgreesWithCover

\* The pairs of statuses of LeaveAgreesWithCover, by name.
AgreeingPairs ==
    ({"none", "wait_director_approval", "rejected", "withdrawn"} \X {"none"})
    \cup ({"pending_arrangement"} \X {"pending_arrangement", "rearrange"})
    \cup ({"wait_cover_confirm"} \X {"wait_cover_confirm"})
    \cup ({"completed"} \X {"effective", "cancelled"})

LEMMA PairsAgree ==
    LeaveAgreesWithCover <=>
        \A l \in Leaves : <<leaves[l].status, covers[l].status>> \in AgreeingPairs
BY DEF LeaveAgreesWithCover, AgreeingPairs

LEMMA InitLeaveInv ==
    leaves = [l \in Leaves |-> NoLeave] /\ covers = [l \in Leaves |-> NoCover] => LeaveInv
BY DEF NoLeave, NoCover, LeaveRecord, CoverRecord, LeaveStatuses, CoverStatuses,
       LeaveShape, LeaveAgreesWithCover, LeaveInv

\* What a step does to leave l and its cover: create the leave, move it alone,
\* or move both.
LeaveCreated(l, a, s) ==
    /\ leaves[l].status = "none" /\ OpenLeaves(a, s) = {}
    /\ leaves' = [leaves EXCEPT ![l] = [applicant |-> a, shift |-> s,
                                        status |-> "wait_director_approval"]]
    /\ UNCHANGED covers

LeaveMoves == {<<"wait_director_approval", "rejected">>,
               <<"wait_director_approval", "withdrawn">>}

LeaveMoved(l, status) ==
    /\ <<leaves[l].status, status>> \in LeaveMoves
    /\ SetLeave(l, status) /\ UNCHANGED covers

\* The status of a leave and of its cover, before and after.
PairMoves ==
    {<<"wait_director_approval", "none", "pending_arrangement", "pending_arrangement">>,
     <<"pending_arrangement", "pending_arrangement", "wait_cover_confirm", "wait_cover_confirm">>,
     <<"pending_arrangement", "rearrange", "wait_cover_confirm", "wait_cover_confirm">>,
     <<"wait_cover_confirm", "wait_cover_confirm", "completed", "effective">>,
     <<"wait_cover_confirm", "wait_cover_confirm", "pending_arrangement", "rearrange">>}

PairMoved(l, status, p, cover) ==
    /\ <<leaves[l].status, covers[l].status, status, cover>> \in PairMoves
    /\ SetLeave(l, status)
    /\ covers' = [covers EXCEPT ![l] = [person |-> p, status |-> cover]]

CoverCancelled(l) ==
    /\ covers[l].status = "effective"
    /\ SetCover(l, "cancelled") /\ UNCHANGED leaves

\* Setting a status keeps the rest of the record.
LEMMA LeaveKeepsRest ==
    ASSUME LeaveShape, NEW l \in Leaves, NEW status, SetLeave(l, status)
    PROVE  leaves' = [leaves EXCEPT ![l] = [applicant |-> leaves[l].applicant,
                                            shift |-> leaves[l].shift, status |-> status]]
<1>1. leaves[l] \in LeaveRecord
  BY DEF LeaveShape
<1>2. [leaves[l] EXCEPT !.status = status] =
        [applicant |-> leaves[l].applicant, shift |-> leaves[l].shift, status |-> status]
  BY <1>1 DEF LeaveRecord
<1>3. leaves' = [leaves EXCEPT ![l] = [leaves[l] EXCEPT !.status = status]]
  BY DEF SetLeave
<1> QED
  BY <1>2, <1>3

LEMMA CoverKeepsPerson ==
    ASSUME LeaveShape, NEW l \in Leaves, NEW status, SetCover(l, status)
    PROVE  covers' = [covers EXCEPT ![l] = [person |-> covers[l].person, status |-> status]]
<1>1. covers[l] \in CoverRecord
  BY DEF LeaveShape
<1>2. [covers[l] EXCEPT !.status = status] = [person |-> covers[l].person, status |-> status]
  BY <1>1 DEF CoverRecord
<1>3. covers' = [covers EXCEPT ![l] = [covers[l] EXCEPT !.status = status]]
  BY DEF SetCover
<1> QED
  BY <1>2, <1>3

LEMMA StepsOfLeaves ==
    ASSUME LeaveInv, LeaveStep
    PROVE  \/ \E l \in Leaves : \E a \in People, s \in Shifts : LeaveCreated(l, a, s)
           \/ \E l \in Leaves : \E status \in LeaveStatuses : LeaveMoved(l, status)
           \/ \E l \in Leaves : \E p \in People \cup {NoPerson} :
              \E status \in LeaveStatuses, cover \in CoverStatuses : PairMoved(l, status, p, cover)
           \/ \E l \in Leaves : CoverCancelled(l)
<1>a. LeaveShape /\ \A l \in Leaves : covers[l].person \in People \cup {NoPerson}
  BY DEF LeaveInv, LeaveShape, CoverRecord
<1> USE DEF LeaveMoves, PairMoves
<1>1. ASSUME NEW l \in Leaves, NEW a \in People, NEW s \in Shifts, CreateLeave(l, a, s)
      PROVE  LeaveCreated(l, a, s)
  BY <1>1 DEF CreateLeave, LeaveCreated
<1>2. ASSUME NEW l \in Leaves, WithdrawLeave(l) PROVE LeaveMoved(l, "withdrawn")
  BY <1>2 DEF WithdrawLeave, WithdrawableLeave, LeaveMoved
<1>3. ASSUME NEW l \in Leaves, LeaveRejected(l) PROVE LeaveMoved(l, "rejected")
  BY <1>3 DEF LeaveRejected, LeaveMoved
<1>4. ASSUME NEW l \in Leaves, LeaveApproved(l)
      PROVE  PairMoved(l, "pending_arrangement", covers[l].person, "pending_arrangement")
  <2>1. leaves[l].status = "wait_director_approval" /\ covers[l].status = "none"
    BY <1>4 DEF LeaveApproved, LeaveInv, LeaveAgreesWithCover
  <2> QED
    BY <1>a, <1>4, <2>1, CoverKeepsPerson DEF LeaveApproved, PairMoved
<1>5. ASSUME NEW l \in Leaves, NEW p \in People, ArrangeCover(l, p)
      PROVE  PairMoved(l, "wait_cover_confirm", p, "wait_cover_confirm")
  <2>1. /\ leaves[l].status = "pending_arrangement"
        /\ covers[l].status \in {"pending_arrangement", "rearrange"}
    BY <1>5 DEF ArrangeCover, LeaveInv, LeaveAgreesWithCover
  <2> QED
    BY <1>5, <2>1 DEF ArrangeCover, PairMoved
<1>6. ASSUME NEW l \in Leaves, CoverConfirms(l)
      PROVE  PairMoved(l, "completed", covers[l].person, "effective")
  <2>1. leaves[l].status = "wait_cover_confirm" /\ covers[l].status = "wait_cover_confirm"
    BY <1>6 DEF CoverConfirms, Answerable, LeaveInv, LeaveAgreesWithCover
  <2> QED
    BY <1>a, <1>6, <2>1, CoverKeepsPerson DEF CoverConfirms, PairMoved
<1>7. ASSUME NEW l \in Leaves, CoverRejects(l)
      PROVE  PairMoved(l, "pending_arrangement", covers[l].person, "rearrange")
  <2>1. leaves[l].status = "wait_cover_confirm" /\ covers[l].status = "wait_cover_confirm"
    BY <1>7 DEF CoverRejects, Answerable, LeaveInv, LeaveAgreesWithCover
  <2> QED
    BY <1>a, <1>7, <2>1, CoverKeepsPerson DEF CoverRejects, PairMoved
<1>8. ASSUME NEW l \in Leaves, CancelCover(l) PROVE CoverCancelled(l)
  BY <1>8 DEF CancelCover, CoverCancelled
<1>9. /\ {"withdrawn", "rejected", "pending_arrangement", "wait_cover_confirm", "completed"}
           \subseteq LeaveStatuses
      /\ {"pending_arrangement", "wait_cover_confirm", "effective", "rearrange"}
           \subseteq CoverStatuses
  BY DEF LeaveStatuses, CoverStatuses
<1> HIDE DEF LeaveMoves, PairMoves
<1>10. CASE \E l \in Leaves, p \in People : ArrangeCover(l, p)
  BY <1>5, <1>9, <1>10
<1>11. CASE \E l \in Leaves : LeaveApproved(l) \/ CoverConfirms(l) \/ CoverRejects(l)
  BY <1>a, <1>4, <1>6, <1>7, <1>9, <1>11
<1>12. CASE \E l \in Leaves : WithdrawLeave(l) \/ LeaveRejected(l) \/ CancelCover(l)
  BY <1>2, <1>3, <1>8, <1>9, <1>12
<1>13. CASE \E l \in Leaves : \E a \in People, s \in Shifts : CreateLeave(l, a, s)
  BY <1>1, <1>13
<1> QED
  BY <1>10, <1>11, <1>12, <1>13 DEF LeaveStep

\* Whatever one leave and its cover become, the tables keep their shape and
\* agree if the two new records do.
LEMMA RowsReplaced ==
    ASSUME LeaveInv, NEW l \in Leaves, NEW leave \in LeaveRecord, NEW cover \in CoverRecord,
           leave.status # "none", leave.applicant \in People, leave.shift \in Shifts,
           <<leave.status, cover.status>> \in AgreeingPairs,
           leaves' = [leaves EXCEPT ![l] = leave], covers' = [covers EXCEPT ![l] = cover]
    PROVE  LeaveInv'
<1>1. /\ leaves' \in [Leaves -> LeaveRecord] /\ covers' \in [Leaves -> CoverRecord]
      /\ leaves'[l] = leave /\ covers'[l] = cover
      /\ \A m \in Leaves \ {l} : leaves'[m] = leaves[m] /\ covers'[m] = covers[m]
  BY DEF LeaveInv, LeaveShape
<1>2. LeaveShape'
  BY <1>1 DEF LeaveInv, LeaveShape
<1>3. \A m \in Leaves : <<leaves'[m].status, covers'[m].status>> \in AgreeingPairs
  <2> SUFFICES ASSUME NEW m \in Leaves
               PROVE  <<leaves'[m].status, covers'[m].status>> \in AgreeingPairs
    OBVIOUS
  <2>1. CASE m = l
    BY <1>1, <2>1
  <2>2. CASE m # l
    BY <1>1, <2>2, PairsAgree DEF LeaveInv
  <2> QED
    BY <2>1, <2>2
<1> QED
  BY <1>2, <1>3, PairsAgree DEF LeaveInv, LeaveAgreesWithCover, AgreeingPairs

LEMMA StepLeaveInv ==
    ASSUME LeaveInv, LeaveStep \/ UNCHANGED <<leaves, covers>>
    PROVE  LeaveInv'
<1>a. \A l \in Leaves :
        /\ leaves[l] \in LeaveRecord /\ covers[l] \in CoverRecord
        /\ covers[l].person \in People \cup {NoPerson}
        /\ leaves[l].status # "none" =>
             leaves[l].applicant \in People /\ leaves[l].shift \in Shifts
        /\ <<leaves[l].status, covers[l].status>> \in AgreeingPairs
  BY PairsAgree DEF LeaveInv, LeaveShape, CoverRecord
<1>b. leaves \in [Leaves -> LeaveRecord] /\ covers \in [Leaves -> CoverRecord] /\ LeaveShape
  BY DEF LeaveInv, LeaveShape
<1>c. \A l \in Leaves : /\ leaves = [leaves EXCEPT ![l] = leaves[l]]
                        /\ covers = [covers EXCEPT ![l] = covers[l]]
  BY <1>b
<1>1. ASSUME NEW l \in Leaves, NEW a \in People, NEW s \in Shifts, LeaveCreated(l, a, s)
      PROVE  LeaveInv'
  <2> DEFINE leave == [applicant |-> a, shift |-> s, status |-> "wait_director_approval"]
  <2>1. leave \in LeaveRecord /\ <<leave.status, covers[l].status>> \in AgreeingPairs
    BY <1>a, <1>1 DEF LeaveCreated, LeaveRecord, LeaveStatuses, AgreeingPairs
  <2>2. leaves' = [leaves EXCEPT ![l] = leave] /\ covers' = [covers EXCEPT ![l] = covers[l]]
    BY <1>c, <1>1 DEF LeaveCreated
  <2> QED
    BY <1>a, <2>1, <2>2, RowsReplaced
<1>2. ASSUME NEW l \in Leaves, NEW status \in LeaveStatuses, LeaveMoved(l, status)
      PROVE  LeaveInv'
  <2> DEFINE leave == [applicant |-> leaves[l].applicant, shift |-> leaves[l].shift,
                       status |-> status]
  <2>1. /\ leaves[l].status # "none" /\ status # "none"
        /\ <<status, covers[l].status>> \in AgreeingPairs
    BY <1>a, <1>2 DEF LeaveMoved, LeaveMoves, AgreeingPairs
  <2>2. leave \in LeaveRecord
    BY <1>a, <2>1 DEF LeaveRecord
  <2>3. leaves' = [leaves EXCEPT ![l] = leave] /\ covers' = [covers EXCEPT ![l] = covers[l]]
    BY <1>b, <1>c, <1>2, LeaveKeepsRest DEF LeaveMoved
  <2> QED
    BY <1>a, <2>1, <2>2, <2>3, RowsReplaced
<1>3. ASSUME NEW l \in Leaves, NEW status \in LeaveStatuses, NEW p \in People \cup {NoPerson},
             NEW cover \in CoverStatuses, PairMoved(l, status, p, cover)
      PROVE  LeaveInv'
  <2> DEFINE leave == [applicant |-> leaves[l].applicant, shift |-> leaves[l].shift,
                       status |-> status]
  <2>1. /\ leaves[l].status # "none" /\ status # "none"
        /\ <<status, cover>> \in AgreeingPairs
    BY <1>3 DEF PairMoved, PairMoves, AgreeingPairs
  <2>2. leave \in LeaveRecord /\ [person |-> p, status |-> cover] \in CoverRecord
    BY <1>a, <2>1 DEF LeaveRecord, CoverRecord
  <2>3. leaves' = [leaves EXCEPT ![l] = leave]
    BY <1>b, <1>3, LeaveKeepsRest DEF PairMoved
  <2> QED
    BY <1>3, <1>a, <2>1, <2>2, <2>3, RowsReplaced DEF PairMoved
<1>4. ASSUME NEW l \in Leaves, CoverCancelled(l)
      PROVE  LeaveInv'
  <2> DEFINE cover == [person |-> covers[l].person, status |-> "cancelled"]
  <2>1. leaves[l].status = "completed" /\ <<leaves[l].status, cover.status>> \in AgreeingPairs
    BY <1>a, <1>4 DEF CoverCancelled, AgreeingPairs
  <2>2. cover \in CoverRecord
    BY <1>a DEF CoverRecord, CoverStatuses
  <2>3. covers' = [covers EXCEPT ![l] = cover] /\ leaves' = [leaves EXCEPT ![l] = leaves[l]]
    BY <1>b, <1>c, <1>4, CoverKeepsPerson DEF CoverCancelled
  <2> QED
    BY <1>a, <2>1, <2>2, <2>3, RowsReplaced
<1>5. CASE UNCHANGED <<leaves, covers>>
  BY <1>5 DEF LeaveInv, LeaveShape, LeaveAgreesWithCover
<1> QED
  BY <1>1, <1>2, <1>3, <1>4, <1>5, StepsOfLeaves

LEMMA LeaveInvariant == LeaveSpec => []LeaveInv
<1>1. LeaveInit => LeaveInv
  BY InitLeaveInv DEF LeaveInit
<1>2. LeaveInv /\ [LeaveNext]_leaveVars => LeaveInv'
  BY StepLeaveInv DEF LeaveNext, leaveVars
<1> QED
  BY <1>1, <1>2, PTL DEF LeaveSpec

\* Whatever order the handlers run in, the two tables never contradict each other.
THEOREM LeaveAlwaysAgrees == LeaveSpec => []LeaveAgreesWithCover
<1>1. LeaveInv => LeaveAgreesWithCover
  BY DEF LeaveInv
<1> QED
  BY <1>1, LeaveInvariant, PTL

-----------------------------------------------------------------------------
(***************************************************************************)
(* The lives of a leave and of a cover.                                    *)
(***************************************************************************)
\* One leave and its cover at a time change their statuses.
LEMMA StatusesMoved ==
    ASSUME LeaveInv, LeaveStep \/ UNCHANGED <<leaves, covers>>
    PROVE  LET life == [l \in Leaves |-> leaves[l].status]
               cover == [l \in Leaves |-> covers[l].status]
           IN  /\ LeaveLife!Next \/ life' = life
               /\ CoverLife!Next \/ cover' = cover
<1> DEFINE life == [l \in Leaves |-> leaves[l].status]
           cover == [l \in Leaves |-> covers[l].status]
<1>b. leaves \in [Leaves -> LeaveRecord] /\ covers \in [Leaves -> CoverRecord] /\ LeaveShape
  BY DEF LeaveInv, LeaveShape
<1>c. ASSUME NEW l \in Leaves, NEW status, SetLeave(l, status)
      PROVE  life[l] = leaves[l].status /\ life' = [life EXCEPT ![l] = status]
  <2>1. leaves' = [leaves EXCEPT ![l] = [applicant |-> leaves[l].applicant,
                                         shift |-> leaves[l].shift, status |-> status]]
    BY <1>b, <1>c, LeaveKeepsRest
  <2>2. \A m \in Leaves : leaves'[m].status = IF m = l THEN status ELSE leaves[m].status
    BY <1>b, <2>1
  <2> QED
    BY <2>2
<1>d. ASSUME NEW l \in Leaves, NEW p, NEW c,
             covers' = [covers EXCEPT ![l] = [person |-> p, status |-> c]]
      PROVE  cover[l] = covers[l].status /\ cover' = [cover EXCEPT ![l] = c]
  <2>1. \A m \in Leaves : covers'[m].status = IF m = l THEN c ELSE covers[m].status
    BY <1>b, <1>d
  <2> QED
    BY <2>1
<1>1. ASSUME NEW l \in Leaves, NEW a \in People, NEW s \in Shifts, LeaveCreated(l, a, s)
      PROVE  LeaveLife!Next /\ cover' = cover
  <2>1. /\ life[l] = "none" /\ life' = [life EXCEPT ![l] = "wait_director_approval"]
        /\ cover' = cover
    BY <1>1, <1>b DEF LeaveCreated
  <2> HIDE DEF life
  <2>2. LeaveLife!Move(l)
    BY <2>1 DEF LeaveLife!Move, life
  <2> QED
    BY <2>1, <2>2 DEF LeaveLife!Next
<1>2. ASSUME NEW l \in Leaves, NEW status \in LeaveStatuses, LeaveMoved(l, status)
      PROVE  LeaveLife!Next /\ cover' = cover
  <2>1. /\ <<life[l], status>> \in LeaveMoves /\ life' = [life EXCEPT ![l] = status]
        /\ cover' = cover
    BY <1>2, <1>c DEF LeaveMoved
  <2> HIDE DEF life
  <2>2. LeaveLife!Move(l)
    BY <2>1 DEF LeaveLife!Move, LeaveMoves, life
  <2> QED
    BY <2>1, <2>2 DEF LeaveLife!Next
<1>3. ASSUME NEW l \in Leaves, NEW status \in LeaveStatuses, NEW p \in People \cup {NoPerson},
             NEW c \in CoverStatuses, PairMoved(l, status, p, c)
      PROVE  LeaveLife!Next /\ CoverLife!Next
  <2>1. /\ <<life[l], cover[l], status, c>> \in PairMoves
        /\ life' = [life EXCEPT ![l] = status] /\ cover' = [cover EXCEPT ![l] = c]
    <3>1. /\ <<leaves[l].status, covers[l].status, status, c>> \in PairMoves
          /\ SetLeave(l, status)
          /\ covers' = [covers EXCEPT ![l] = [person |-> p, status |-> c]]
      BY <1>3 DEF PairMoved
    <3>2. life[l] = leaves[l].status /\ life' = [life EXCEPT ![l] = status]
      BY <1>c, <3>1
    <3>3. cover[l] = covers[l].status /\ cover' = [cover EXCEPT ![l] = c]
      BY <1>d, <3>1
    <3> QED
      BY <3>1, <3>2, <3>3
  <2> HIDE DEF life, cover
  <2>2. LeaveLife!Move(l)
    BY <2>1 DEF LeaveLife!Move, PairMoves, life
  <2>3. CoverLife!Move(l)
    BY <2>1 DEF CoverLife!Move, PairMoves, cover
  <2> QED
    BY <2>2, <2>3 DEF LeaveLife!Next, CoverLife!Next
<1>4. ASSUME NEW l \in Leaves, CoverCancelled(l)
      PROVE  life' = life /\ CoverLife!Next
  <2>1. /\ cover[l] = "effective" /\ cover' = [cover EXCEPT ![l] = "cancelled"]
        /\ life' = life
    BY <1>4, <1>b, <1>d, CoverKeepsPerson DEF CoverCancelled
  <2> HIDE DEF cover
  <2>2. CoverLife!Move(l)
    BY <2>1 DEF CoverLife!Move, cover
  <2> QED
    BY <2>1, <2>2 DEF CoverLife!Next
<1>5. CASE UNCHANGED <<leaves, covers>>
  BY <1>5
<1>6. /\ LeaveLife!Next \/ life' = life
      /\ CoverLife!Next \/ cover' = cover
  <2>1. CASE \E l \in Leaves : \E a \in People, s \in Shifts : LeaveCreated(l, a, s)
    <3> HIDE DEF life, cover
    <3> QED
      BY <1>1, <2>1
  <2>2. CASE \E l \in Leaves : \E status \in LeaveStatuses : LeaveMoved(l, status)
    <3> HIDE DEF life, cover
    <3> QED
      BY <1>2, <2>2
  <2>3. CASE \E l \in Leaves : \E p \in People \cup {NoPerson} :
             \E status \in LeaveStatuses, c \in CoverStatuses : PairMoved(l, status, p, c)
    <3> HIDE DEF life, cover
    <3> QED
      BY <1>3, <2>3
  <2>4. CASE \E l \in Leaves : CoverCancelled(l)
    <3> HIDE DEF life, cover
    <3> QED
      BY <1>4, <2>4
  <2> QED
    BY <1>5, <2>1, <2>2, <2>3, <2>4, StepsOfLeaves
<1> QED
  BY <1>6

\* The handlers of services/leave.py move a leave only along the arrows of its
\* diagram in the design, one leave at a time.
THEOREM LeavesLiveByDesign == LeaveSpec => LeaveLifecycle
<1> DEFINE life == [l \in Leaves |-> leaves[l].status]
<1>1. LeaveInit => LeaveLife!Init
  BY DEF LeaveInit, NoLeave, LeaveLife!Init
<1>2. LeaveInv /\ [LeaveNext]_leaveVars => [LeaveLife!Next]_life
  BY StatusesMoved DEF LeaveNext, leaveVars
<1> QED
  BY <1>1, <1>2, LeaveInvariant, PTL DEF LeaveSpec, LeaveLifecycle, LeaveLife!Spec

\* And a cover along those of its own diagram.
THEOREM CoversLiveByDesign == LeaveSpec => CoverLifecycle
<1> DEFINE cover == [l \in Leaves |-> covers[l].status]
<1>1. LeaveInit => CoverLife!Init
  BY DEF LeaveInit, NoCover, CoverLife!Init
<1>2. LeaveInv /\ [LeaveNext]_leaveVars => [CoverLife!Next]_cover
  BY StatusesMoved DEF LeaveNext, leaveVars
<1> QED
  BY <1>1, <1>2, LeaveInvariant, PTL DEF LeaveSpec, CoverLifecycle, CoverLife!Spec

-----------------------------------------------------------------------------
(***************************************************************************)
(* Exclusion.                                                              *)
(***************************************************************************)
ExclusiveLeaves ==
    \A a \in People, s \in Shifts : \A j, k \in OpenLeaves(a, s) : j = k

LEMMA StepExclusiveLeaves ==
    ASSUME LeaveInv, ExclusiveLeaves, LeaveStep \/ UNCHANGED <<leaves, covers>>
    PROVE  ExclusiveLeaves'
<1>b. leaves \in [Leaves -> LeaveRecord] /\ LeaveShape
  BY DEF LeaveInv, LeaveShape
<1>1. ASSUME NEW l \in Leaves, NEW a \in People, NEW s \in Shifts, LeaveCreated(l, a, s)
      PROVE  ExclusiveLeaves'
  <2>1. /\ OpenLeaves(a, s) = {}
        /\ \A j \in Leaves : j # l => leaves'[j] = leaves[j]
        /\ leaves'[l].applicant = a /\ leaves'[l].shift = s
    BY <1>1, <1>b DEF LeaveCreated
  <2>2. \A b \in People, u \in Shifts : \A j \in OpenLeaves(b, u)' :
            j \in OpenLeaves(b, u) \/ (j = l /\ b = a /\ u = s)
    BY <2>1 DEF OpenLeaves
  <2> QED
    BY <2>1, <2>2 DEF ExclusiveLeaves
<1>2. ASSUME NEW l \in Leaves, NEW status,
             leaves[l].status \in OpenLeaveStatuses,
             SetLeave(l, status)
      PROVE  ExclusiveLeaves'
  <2>1. leaves' = [leaves EXCEPT ![l] = [applicant |-> leaves[l].applicant,
                                         shift |-> leaves[l].shift, status |-> status]]
    BY <1>b, <1>2, LeaveKeepsRest
  <2>2. \A j \in Leaves : /\ leaves'[j].applicant = leaves[j].applicant
                          /\ leaves'[j].shift = leaves[j].shift
                          /\ j # l => leaves'[j].status = leaves[j].status
    BY <2>1, <1>b
  <2>3. \A b \in People, u \in Shifts : OpenLeaves(b, u)' \subseteq OpenLeaves(b, u)
    BY <1>2, <2>2 DEF OpenLeaves
  <2> QED
    BY <2>3 DEF ExclusiveLeaves
<1>3. ASSUME NEW l \in Leaves, NEW status \in LeaveStatuses, LeaveMoved(l, status)
      PROVE  ExclusiveLeaves'
  BY <1>2, <1>3 DEF LeaveMoved, LeaveMoves, OpenLeaveStatuses
<1>4. ASSUME NEW l \in Leaves, NEW status \in LeaveStatuses, NEW p \in People \cup {NoPerson},
             NEW c \in CoverStatuses, PairMoved(l, status, p, c)
      PROVE  ExclusiveLeaves'
  BY <1>2, <1>4 DEF PairMoved, PairMoves, OpenLeaveStatuses
<1>5. CASE UNCHANGED leaves
  BY <1>5 DEF ExclusiveLeaves, OpenLeaves
<1> QED
  BY <1>1, <1>3, <1>4, <1>5, StepsOfLeaves DEF CoverCancelled

\* Until a leave is settled its applicant gets no second one for that shift, for
\* any number of leaves.
THEOREM LeavesExcludeEachOther == LeaveSpec => []OneOpenLeavePerDuty
<1>1. LeaveInit => ExclusiveLeaves
  BY DEF LeaveInit, NoLeave, ExclusiveLeaves, OpenLeaves, OpenLeaveStatuses
<1>2. LeaveInv /\ ExclusiveLeaves /\ [LeaveNext]_leaveVars => ExclusiveLeaves'
  BY StepExclusiveLeaves DEF LeaveNext, leaveVars
<1>3. LeaveInv /\ ExclusiveLeaves => OneOpenLeavePerDuty
  <2> DEFINE Unsettled(a, s) ==
          { l \in Leaves : /\ leaves[l].applicant = a /\ leaves[l].shift = s
                           /\ leaves[l].status \notin {"completed", "rejected", "withdrawn"} }
  <2> SUFFICES ASSUME LeaveInv, ExclusiveLeaves, NEW a \in People, NEW s \in Shifts
               PROVE  Cardinality(Unsettled(a, s)) <= 1
    BY DEF OneOpenLeavePerDuty
  <2>1. a # NoPerson
    BY LeaveAssumption
  <2>2. \A l \in Unsettled(a, s) : l \in OpenLeaves(a, s)
    BY <2>1 DEF OpenLeaves, OpenLeaveStatuses, LeaveInv, LeaveShape, LeaveRecord, LeaveStatuses
  <2>3. CASE Unsettled(a, s) = {}
    <3> HIDE DEF Unsettled
    <3>1. Cardinality(Unsettled(a, s)) = 0
      BY <2>3, FS_EmptySet
    <3> QED
      BY <3>1
  <2>4. CASE Unsettled(a, s) # {}
    <3>1. PICK k \in Unsettled(a, s) : TRUE
      BY <2>4
    <3>2. Unsettled(a, s) = {k}
      BY <2>2, <3>1 DEF ExclusiveLeaves
    <3> HIDE DEF Unsettled
    <3>3. Cardinality(Unsettled(a, s)) = 1
      BY <3>2, FS_Singleton
    <3> QED
      BY <3>3
  <2> QED
    BY <2>3, <2>4
<1> QED
  BY <1>1, <1>2, <1>3, LeaveInvariant, PTL DEF LeaveSpec
=============================================================================
