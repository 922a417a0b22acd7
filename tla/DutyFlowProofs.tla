--------------------------- MODULE DutyFlowProofs ---------------------------
(***************************************************************************)
(* Proofs about the whole room: the swaps and leaves of DutyFlow keep what *)
(* RosterProofs shows of the room without documents, only a cover in       *)
(* effect brings somebody else than a duty operator on duty, and the       *)
(* ledger and the staff follow what the documents decided.                 *)
(***************************************************************************)
EXTENDS DutyFlow, RosterProofs, SwapProofs

-----------------------------------------------------------------------------
(***************************************************************************)
(* The leaves and covers, as far as the roster depends on them.            *)
(***************************************************************************)
LeaveRecord == [applicant : People \cup {NoPerson}, shift : Shifts \cup {NoShift},
                status : LeaveStatuses]
CoverRecord == [person : People \cup {NoPerson}, status : CoverStatuses]

LeaveShape ==
    /\ leaves \in [Leaves -> LeaveRecord]
    /\ covers \in [Leaves -> CoverRecord]
    /\ \A l \in Leaves :
         /\ leaves[l].status # "none" =>
              leaves[l].applicant \in People /\ leaves[l].shift \in Shifts
         /\ covers[l].status # "none" =>
              leaves[l].status \notin {"none", "wait_director_approval"}
         /\ covers[l].status \notin {"none", "pending_arrangement"} =>
              covers[l].person \in People /\ covers[l].person # leaves[l].applicant

LEMMA InitShapes == FlowInit => SwapShape /\ LeaveShape
<1> SUFFICES ASSUME FlowInit PROVE SwapShape /\ LeaveShape
  OBVIOUS
<1>1. SwapShape
  BY InitSwapShape DEF FlowInit, SwapInit
<1>2. NoLeave \in LeaveRecord /\ NoLeave.status = "none"
  BY DEF NoLeave, LeaveRecord, LeaveStatuses
<1>3. NoCover \in CoverRecord /\ NoCover.status = "none"
  BY DEF NoCover, CoverRecord, CoverStatuses
<1> QED
  BY <1>1, <1>2, <1>3 DEF FlowInit, LeaveInit, LeaveShape

LEMMA StepLeaveShape == LeaveShape /\ [FlowNext]_flowVars => LeaveShape'
<1> SUFFICES ASSUME LeaveShape, [FlowNext]_flowVars PROVE LeaveShape'
  OBVIOUS
<1> USE DEF LeaveShape, LeaveRecord, CoverRecord, LeaveStatuses, CoverStatuses
<1>1. ASSUME NEW l \in Leaves, NEW a \in People, NEW s \in Shifts, CreateLeave(l, a, s)
      PROVE  LeaveShape'
  BY <1>1 DEF CreateLeave
<1>2. ASSUME NEW l \in Leaves, WithdrawLeave(l) PROVE LeaveShape'
  BY <1>2 DEF WithdrawLeave, WithdrawableLeave, SetLeave
<1>3. ASSUME NEW l \in Leaves, LeaveApproved(l) PROVE LeaveShape'
  BY <1>3 DEF LeaveApproved, SetLeave, SetCover
<1>4. ASSUME NEW l \in Leaves, LeaveRejected(l) PROVE LeaveShape'
  BY <1>4 DEF LeaveRejected, SetLeave
<1>5. ASSUME NEW l \in Leaves, NEW p \in People, ArrangeCover(l, p) PROVE LeaveShape'
  BY <1>5 DEF ArrangeCover, SetLeave
<1>6. ASSUME NEW l \in Leaves, CoverConfirms(l) PROVE LeaveShape'
  BY <1>6 DEF CoverConfirms, Answerable, SetLeave, SetCover
<1>7. ASSUME NEW l \in Leaves, CoverRejects(l) PROVE LeaveShape'
  BY <1>7 DEF CoverRejects, Answerable, SetLeave, SetCover
<1>8. ASSUME NEW l \in Leaves, CancelCover(l) PROVE LeaveShape'
  BY <1>8 DEF CancelCover, SetCover
<1>9. CASE UNCHANGED <<leaves, covers>>
  BY <1>9
<1> QED
  BY <1>1, <1>2, <1>3, <1>4, <1>5, <1>6, <1>7, <1>8, <1>9 DEF FlowNext, LeaveStep, flowVars

-----------------------------------------------------------------------------
(***************************************************************************)
(* What the documents do to the roster.                                    *)
(***************************************************************************)
LEMMA ReplacedIsPeople ==
    ASSUME TypeOK, NEW s \in Shifts, NEW x, NEW y, NEW allowed \in SUBSET People,
           MayUpdate(roster, s, Replace(Staff(s), x, y), allowed)
    PROVE  Replace(Staff(s), x, y) \in Seq(People)
<1> DEFINE ids == Replace(Staff(s), x, y)
<1>1. Staff(s) \in Seq(People)
  BY DEF TypeOK, RosterTypeOK, Staff
<1>2. PICK n \in Nat : Staff(s) \in [1..n -> People]
  BY <1>1, SeqDef
<1>3. ids = [i \in 1..n |-> IF Staff(s)[i] = x THEN y ELSE Staff(s)[i]]
  BY <1>2 DEF Replace
<1>4. CASE ids = roster.persons[s]
  BY <1>1, <1>4 DEF Staff
<1>5. CASE ids # roster.persons[s]
  <2>1. \A i \in DOMAIN ids : ids[i] \in People
    BY <1>5 DEF MayUpdate, TypeOK
  <2>2. ids \in [1..n -> People]
    <3>1. DOMAIN ids = 1..n
      BY <1>3
    <3> QED
      BY <1>3, <2>1, <3>1
  <2> QED
    BY <2>2, SeqDef
<1> QED
  BY <1>4, <1>5

\* One accepted update of a day to come, for a document.
Updated(s, ids, allowed, type, doc) ==
    /\ ~Past(s)
    /\ ids \in Seq(People)
    /\ allowed \in {DutyOperators, DutyOperators \cup CoverStaff} /\ type # "historical_correction"
    /\ MayUpdate(roster, s, ids, allowed)
    /\ roster' = Update(roster, s, ids, type, doc)

\* Two accepted updates of different shifts in one request.
UpdatedTwice(s, t, ids, jds, type, doc) ==
    /\ s # t
    /\ ~Past(s) /\ ~Past(t)
    /\ ids \in Seq(People) /\ jds \in Seq(People)
    /\ type # "historical_correction"
    /\ MayUpdate(roster, s, ids, DutyOperators)
    /\ MayUpdate(roster, t, jds, DutyOperators)
    /\ roster' = Update(Update(roster, s, ids, type, doc), t, jds, type, doc)

LEMMA ExchangeUpdates ==
    ASSUME TypeOK, SwapShape, NEW k \in Swaps, swaps[k].status # "none",
           NEW x, NEW y, NEW type, type # "historical_correction",
           NotHistorical(k), MayExchange(k, x, y), roster' = Exchange(k, x, y, type)
    PROVE  \/ \E s \in Shifts : \E ids : Updated(s, ids, DutyOperators, type, k)
           \/ \E s, t \in Shifts : \E ids, jds : UpdatedTwice(s, t, ids, jds, type, k)
<1> DEFINE s == swaps[k].source
           t == swaps[k].tshift
           ids == Replace(Staff(s), x, y)
           jds == Replace(Staff(t), y, x)
<1>1. s \in Shifts /\ t \in Shifts \cup {NoShift} /\ t # s
  BY DEF SwapShape, SwapRecord
<1>2. ~Past(s) /\ (t # NoShift => ~Past(t))
  BY <1>1, SwapAssumption DEF NotHistorical, Touches
<1>3. MayUpdate(roster, s, ids, DutyOperators) /\ ids \in Seq(People)
  <2>1. MayUpdate(roster, s, ids, DutyOperators)
    BY DEF MayExchange
  <2> HIDE DEF s
  <2> QED
    BY <1>1, <2>1, ReplacedIsPeople DEF DutyOperators
<1>4. CASE t = NoShift
  <2>1. roster' = Update(roster, s, ids, type, k)
    BY <1>4 DEF Exchange
  <2> HIDE DEF s, ids
  <2>2. Updated(s, ids, DutyOperators, type, k)
    BY <1>2, <1>3, <2>1 DEF Updated
  <2> QED
    BY <1>1, <2>2
<1>5. CASE t # NoShift
  <2>1. roster' = Update(Update(roster, s, ids, type, k), t, jds, type, k)
    BY <1>5 DEF Exchange
  <2>2. MayUpdate(roster, t, jds, DutyOperators)
    BY <1>5 DEF MayExchange
  <2> HIDE DEF s, t, ids
  <2>3. t \in Shifts
    BY <1>1, <1>5
  <2>4. jds \in Seq(People)
    BY <2>2, <2>3, ReplacedIsPeople DEF DutyOperators
  <2> HIDE DEF jds
  <2>5. UpdatedTwice(s, t, ids, jds, type, k)
    BY <1>1, <1>2, <1>3, <1>5, <2>1, <2>2, <2>4 DEF UpdatedTwice
  <2> QED
    BY <1>1, <2>3, <2>5
<1> QED
  BY <1>4, <1>5

\* Of the documents' steps only an approval or cancellation of a swap, and a
\* confirmation or cancellation of a cover, touch the roster; all of them leave
\* the past alone.
LEMMA DocumentSteps ==
    ASSUME TypeOK, SwapShape, LeaveShape, SwapStep \/ LeaveStep
    PROVE  /\ UNCHANGED <<flagged, eligible, today>>
           /\ \/ UNCHANGED roster
              \/ \E s \in Shifts : \E ids, allowed, type, doc : Updated(s, ids, allowed, type, doc)
              \/ \E s, t \in Shifts : \E ids, jds, type, doc :
                    UpdatedTwice(s, t, ids, jds, type, doc)
<1>1. ASSUME NEW k \in Swaps, DirectorApproves(k)
      PROVE  \/ \E s \in Shifts : \E ids, allowed, type, doc : Updated(s, ids, allowed, type, doc)
             \/ \E s, t \in Shifts : \E ids, jds, type, doc :
                    UpdatedTwice(s, t, ids, jds, type, doc)
  <2>1. /\ swaps[k].status # "none" /\ NotHistorical(k)
        /\ MayExchange(k, swaps[k].applicant, swaps[k].target)
        /\ roster' = Exchange(k, swaps[k].applicant, swaps[k].target, "swap")
    BY <1>1 DEF DirectorApproves, SetRoster
  <2> QED
    BY <2>1, ExchangeUpdates
<1>2. ASSUME NEW k \in Swaps, CancelSwap(k)
      PROVE  \/ \E s \in Shifts : \E ids, allowed, type, doc : Updated(s, ids, allowed, type, doc)
             \/ \E s, t \in Shifts : \E ids, jds, type, doc :
                    UpdatedTwice(s, t, ids, jds, type, doc)
  <2>1. /\ swaps[k].status # "none" /\ NotHistorical(k)
        /\ MayExchange(k, swaps[k].target, swaps[k].applicant)
        /\ roster' = Exchange(k, swaps[k].target, swaps[k].applicant, "swap_cancel")
    BY <1>2 DEF CancelSwap, Cancellable, SetRoster, Undo
  <2> QED
    BY <2>1, ExchangeUpdates
<1>3. ASSUME NEW l \in Leaves, CoverConfirms(l)
      PROVE  \E s \in Shifts : \E ids, allowed, type, doc : Updated(s, ids, allowed, type, doc)
  <2> DEFINE s == leaves[l].shift
             ids == Replace(Staff(s), leaves[l].applicant, covers[l].person)
  <2>1. s \in Shifts
    BY <1>3 DEF CoverConfirms, Answerable, LeaveShape
  <2>2. /\ ~Past(s) /\ MayUpdate(roster, s, ids, DutyOperators \cup CoverStaff)
        /\ roster' = Update(roster, s, ids, "leave_cover", l)
    BY <1>3 DEF CoverConfirms, SetRoster
  <2>3. ids \in Seq(People)
    BY <2>1, <2>2, ReplacedIsPeople DEF DutyOperators, CoverStaff
  <2> HIDE DEF s, ids
  <2>4. Updated(s, ids, DutyOperators \cup CoverStaff, "leave_cover", l)
    BY <2>2, <2>3 DEF Updated
  <2> QED
    BY <2>1, <2>4
<1>4. ASSUME NEW l \in Leaves, CancelCover(l)
      PROVE  \E s \in Shifts : \E ids, allowed, type, doc : Updated(s, ids, allowed, type, doc)
  <2> DEFINE s == leaves[l].shift
             ids == Restored(l)
  <2>1. s \in Shifts
    BY <1>4 DEF CancelCover, LeaveShape
  <2>2. /\ ~Past(s) /\ MayUpdate(roster, s, ids, DutyOperators)
        /\ roster' = Update(roster, s, ids, "leave_cover_cancel", l)
    BY <1>4 DEF CancelCover, SetRoster
  <2>3. ids \in Seq(People)
    BY <2>1, <2>2, ReplacedIsPeople DEF Restored, DutyOperators
  <2> HIDE DEF s, ids
  <2>4. Updated(s, ids, DutyOperators, "leave_cover_cancel", l)
    BY <2>2, <2>3 DEF Updated
  <2> QED
    BY <2>1, <2>4
<1>5. ASSUME SwapStep,
             ~ \E k \in Swaps : DirectorApproves(k) \/ CancelSwap(k)
      PROVE  UNCHANGED rosterVars
  BY <1>5, ZenonT(40) DEF SwapStep, CreateSwap, TargetApproves, TargetRejects, CentreAnswersConfirm,
              DirectorRejects, WithdrawSwap
<1>6. ASSUME LeaveStep,
             ~ \E l \in Leaves : CoverConfirms(l) \/ CancelCover(l)
      PROVE  UNCHANGED rosterVars
  BY <1>6 DEF LeaveStep, CreateLeave, WithdrawLeave, LeaveApproved, LeaveRejected,
              ArrangeCover, CoverRejects
<1>7. \A k \in Swaps : DirectorApproves(k) \/ CancelSwap(k) => UNCHANGED <<flagged, eligible, today>>
  BY DEF DirectorApproves, CancelSwap
<1>8. \A l \in Leaves : CoverConfirms(l) \/ CancelCover(l) => UNCHANGED <<flagged, eligible, today>>
  BY DEF CoverConfirms, CancelCover
<1>9. UNCHANGED <<flagged, eligible, today>>
  BY <1>5, <1>6, <1>7, <1>8 DEF rosterVars
<1>10. CASE UNCHANGED roster
  BY <1>9, <1>10
<1>11. CASE \E k \in Swaps : DirectorApproves(k) \/ CancelSwap(k)
  BY <1>1, <1>2, <1>9, <1>11
<1>12. CASE \E l \in Leaves : CoverConfirms(l) \/ CancelCover(l)
  BY <1>3, <1>4, <1>9, <1>12
<1> QED
  BY <1>5, <1>6, <1>9, <1>10, <1>11, <1>12 DEF rosterVars

-----------------------------------------------------------------------------
(***************************************************************************)
(* Types and journals.                                                     *)
(***************************************************************************)
\* One update after another keeps what each of them keeps.
LEMMA TwoUpdatesKeep ==
    ASSUME TypeOK, Journals(roster), NEW s \in Shifts, NEW t \in Shifts,
           NEW ids, NEW jds, NEW type, NEW doc, UpdatedTwice(s, t, ids, jds, type, doc)
    PROVE  RosterTypeOK(roster') /\ Journals(roster')
<1> DEFINE r == Update(roster, s, ids, type, doc)
<1>1. RosterTypeOK(r) /\ Journals(r)
  BY UpdateTypeOK, UpdateJournals DEF UpdatedTwice, TypeOK
<1>2. r.persons[t] = roster.persons[t]
  BY DEF UpdatedTwice, Update, TypeOK, RosterTypeOK
<1>3. MayUpdate(r, t, jds, DutyOperators)
  BY <1>2 DEF UpdatedTwice, MayUpdate
<1>4. jds \in Seq(People) /\ roster' = Update(r, t, jds, type, doc)
  BY DEF UpdatedTwice
<1> HIDE DEF r
<1> QED
  BY <1>1, <1>3, <1>4, UpdateTypeOK, UpdateJournals

FlowInv == JournalInv /\ SwapShape /\ LeaveShape

LEMMA DocumentsKeepJournals ==
    ASSUME FlowInv, SwapStep \/ LeaveStep
    PROVE  JournalInv'
<1>1. /\ TypeOK /\ Journals(roster) /\ SwapShape /\ LeaveShape
      /\ RosterTypeOK(roster)
  BY DEF FlowInv, JournalInv, TypeOK
<1>2. UNCHANGED <<flagged, eligible, today>>
  BY <1>1, DocumentSteps
<1>3. RosterTypeOK(roster') /\ Journals(roster')
  <2>1. CASE UNCHANGED roster
    BY <1>1, <2>1
  <2>2. ASSUME NEW s \in Shifts, NEW ids, NEW allowed, NEW type, NEW doc,
               Updated(s, ids, allowed, type, doc)
        PROVE  RosterTypeOK(roster') /\ Journals(roster')
    BY <1>1, <2>2, UpdateTypeOK, UpdateJournals DEF Updated
  <2>3. ASSUME NEW s \in Shifts, NEW t \in Shifts, NEW ids, NEW jds, NEW type, NEW doc,
               UpdatedTwice(s, t, ids, jds, type, doc)
        PROVE  RosterTypeOK(roster') /\ Journals(roster')
    BY <1>1, <2>3, TwoUpdatesKeep
  <2> QED
    BY <1>1, <2>1, <2>2, <2>3, DocumentSteps
<1>4. TypeOK'
  BY <1>1, <1>2, <1>3 DEF TypeOK
<1> QED
  BY <1>3, <1>4 DEF JournalInv

LEMMA FlowInvariant == FlowSpec => []FlowInv
<1>1. FlowInit => FlowInv
  <2> SUFFICES ASSUME FlowInit PROVE FlowInv
    OBVIOUS
  <2>1. RosterInit
    BY DEF FlowInit, SwapInit
  <2> QED
    BY <2>1, InitTypeOK, InitJournals, InitShapes DEF FlowInv, JournalInv
<1>2. FlowInv /\ [FlowNext]_flowVars => FlowInv'
  <2> SUFFICES ASSUME FlowInv, [FlowNext]_flowVars PROVE FlowInv'
    OBVIOUS
  <2>1. SwapShape' /\ LeaveShape'
    BY StepSwapShape, StepLeaveShape DEF FlowInv, FlowNext, flowVars
  <2>2. ASSUME SwapStep \/ LeaveStep PROVE JournalInv'
    BY <2>2, DocumentsKeepJournals
  <2>3. ASSUME RosterNext \/ UNCHANGED rosterVars PROVE JournalInv'
    <3>1. JournalInv /\ TypeOK
      BY DEF FlowInv, JournalInv
    <3>2. TypeOK'
      BY <2>3, <3>1, StepTypeOK
    <3>3. Journals(roster')
      BY <2>3, <3>1, StepJournals
    <3> QED
      BY <3>2, <3>3 DEF JournalInv
  <2>4. JournalInv'
    BY <2>2, <2>3 DEF FlowNext, flowVars
  <2> QED
    BY <2>1, <2>4 DEF FlowInv
<1> QED
  BY <1>1, <1>2, PTL DEF FlowSpec

\* With swaps and covers at work the ledger alone still reconstructs the roster.
THEOREM FlowLedgerReconstructs == FlowSpec => []LedgerExplainsStaff
<1>1. FlowInv => LedgerExplainsStaff
  BY DEF FlowInv, JournalInv, Journals, LedgerExplainsStaff
<1> QED
  BY <1>1, FlowInvariant, PTL

\* And so does the change log, version by version the same changes.
THEOREM FlowJournalsAgree == FlowSpec => []JournalsAgree
<1>1. FlowInv => JournalsAgree
  BY DEF FlowInv, JournalInv, Journals, JournalsAgree
<1> QED
  BY <1>1, FlowInvariant, PTL

\* No shift gains, loses or doubles a person through any document.
THEOREM FlowTypeCorrect == FlowSpec => []TypeOK
<1>1. FlowInv => TypeOK
  BY DEF FlowInv, JournalInv
<1> QED
  BY <1>1, FlowInvariant, PTL

-----------------------------------------------------------------------------
(***************************************************************************)
(* History.                                                                *)
(***************************************************************************)
\* After an update of shift s: the new rows have its type, and the other shifts
\* are as they were.
UpdatesOnly(old, new, s, type) ==
    /\ \A e \in new.ledger : e \in old.ledger \/ e.type = type
    /\ \A t \in Shifts : t # s => new.persons[t] = old.persons[t]
    /\ new.persons \in [Shifts -> Seq(People)]

LEMMA UpdateIsLocal ==
    ASSUME NEW r, NEW s \in Shifts, NEW ids \in Seq(People), NEW type, NEW doc,
           r.persons \in [Shifts -> Seq(People)]
    PROVE  UpdatesOnly(r, Update(r, s, ids, type, doc), s, type)
BY NewLedgerRows DEF Update, UpdatesOnly

LEMMA DocumentsKeepHistory ==
    ASSUME FlowInv, CorrectionsAreFlagged, SwapStep \/ LeaveStep
    PROVE  /\ \A s \in Shifts : Past(s) => Staff(s)' = Staff(s)
           /\ CorrectionsAreFlagged'
<1>1. /\ TypeOK /\ SwapShape /\ LeaveShape
      /\ roster.persons \in [Shifts -> Seq(People)]
  BY DEF FlowInv, JournalInv, TypeOK, RosterTypeOK
<1>2. flagged' = flagged
  BY <1>1, DocumentSteps
<1>a. ASSUME \A e \in roster'.ledger : e \in roster.ledger \/ e.type # "historical_correction"
      PROVE  CorrectionsAreFlagged'
  BY <1>2, <1>a DEF CorrectionsAreFlagged
<1>3. CASE UNCHANGED roster
  BY <1>a, <1>3 DEF Staff
<1>4. ASSUME NEW s \in Shifts, NEW ids, NEW allowed, NEW type, NEW doc,
             Updated(s, ids, allowed, type, doc)
      PROVE  /\ \A t \in Shifts : Past(t) => Staff(t)' = Staff(t)
             /\ CorrectionsAreFlagged'
  <2>1. /\ UpdatesOnly(roster, roster', s, type)
        /\ ~Past(s) /\ type # "historical_correction"
    BY <1>1, <1>4, UpdateIsLocal DEF Updated
  <2> QED
    BY <1>a, <2>1 DEF UpdatesOnly, Staff
<1>5. ASSUME NEW s \in Shifts, NEW t \in Shifts, NEW ids, NEW jds, NEW type, NEW doc,
             UpdatedTwice(s, t, ids, jds, type, doc)
      PROVE  /\ \A u \in Shifts : Past(u) => Staff(u)' = Staff(u)
             /\ CorrectionsAreFlagged'
  <2> DEFINE r == Update(roster, s, ids, type, doc)
  <2>1. UpdatesOnly(roster, r, s, type)
    BY <1>1, <1>5, UpdateIsLocal DEF UpdatedTwice
  <2>2. roster' = Update(r, t, jds, type, doc) /\ jds \in Seq(People)
    BY <1>5 DEF UpdatedTwice
  <2> HIDE DEF r
  <2>3. UpdatesOnly(r, roster', t, type)
    <3>1. r.persons \in [Shifts -> Seq(People)]
      BY <2>1 DEF UpdatesOnly
    <3> QED
      BY <2>2, <3>1, UpdateIsLocal
  <2>4. ~Past(s) /\ ~Past(t) /\ type # "historical_correction"
    BY <1>5 DEF UpdatedTwice
  <2>5. \A e \in roster'.ledger : e \in roster.ledger \/ e.type = type
    BY <2>1, <2>3 DEF UpdatesOnly
  <2>6. \A u \in Shifts : u # s /\ u # t => roster'.persons[u] = roster.persons[u]
    BY <2>1, <2>3 DEF UpdatesOnly
  <2>7. \A u \in Shifts : Past(u) => u # s /\ u # t
    BY <2>4
  <2> QED
    BY <1>a, <2>4, <2>5, <2>6, <2>7 DEF Staff
<1> QED
  BY <1>1, <1>3, <1>4, <1>5, DocumentSteps

\* No swap and no cover changes the staff of a day gone by, whenever it was
\* requested, agreed or approved.
THEOREM FlowHistoryFrozen == FlowSpec => HistoryIsFrozen
<1> DEFINE Frozen ==
        /\ \A s \in Shifts : Past(s) /\ Staff(s)' # Staff(s) =>
              \E e \in roster'.ledger \ roster.ledger :
                  e.shift = s /\ e.type = "historical_correction"
        /\ \A e \in roster'.ledger :
              e.type = "historical_correction" => DutyMonth[e.shift] \in flagged'
<1>1. FlowInit => CorrectionsAreFlagged
  BY DEF FlowInit, SwapInit, RosterInit, CorrectionsAreFlagged
<1>2. FlowInv /\ CorrectionsAreFlagged /\ [FlowNext]_flowVars =>
         CorrectionsAreFlagged' /\ [Frozen]_rosterVars
  <2> SUFFICES ASSUME FlowInv, CorrectionsAreFlagged, [FlowNext]_flowVars
               PROVE  CorrectionsAreFlagged' /\ [Frozen]_rosterVars
    OBVIOUS
  <2>1. CASE SwapStep \/ LeaveStep
    BY <2>1, DocumentsKeepHistory DEF CorrectionsAreFlagged
  <2>2. CASE RosterNext
    <3>1. HistoryInv
      BY DEF FlowInv, JournalInv, HistoryInv
    <3> QED
      BY <2>2, <3>1, StepHistory DEF CorrectionsAreFlagged
  <2>3. CASE UNCHANGED rosterVars
    BY <2>3 DEF CorrectionsAreFlagged, rosterVars
  <2> QED
    BY <2>1, <2>2, <2>3 DEF FlowNext, flowVars
<1> QED
  BY <1>1, <1>2, FlowInvariant, PTL DEF FlowSpec, HistoryIsFrozen

-----------------------------------------------------------------------------
(***************************************************************************)
(* Who may be on duty.                                                     *)
(***************************************************************************)
Serves(r, p, s) == \E i \in DOMAIN r.persons[s] : r.persons[s][i] = p

\* An update that allows duty operators only brings nobody else on a shift.
LEMMA OperatorsOnly ==
    ASSUME NEW r, r.persons \in [Shifts -> Seq(People)],
           NEW s \in Shifts, NEW ids, NEW type, NEW doc, MayUpdate(r, s, ids, DutyOperators),
           NEW t \in Shifts, NEW p, p \notin DutyOperators, Serves(Update(r, s, ids, type, doc), p, t)
    PROVE  Serves(r, p, t)
<1>1. CASE ids = r.persons[s]
  BY <1>1 DEF Update
<1>2. CASE ids # r.persons[s]
  <2>1. Update(r, s, ids, type, doc).persons = [r.persons EXCEPT ![s] = ids]
    BY <1>2 DEF Update
  <2>2. \A i \in DOMAIN ids : ids[i] # p
    BY <1>2 DEF MayUpdate
  <2>3. CASE t = s
    BY <2>1, <2>2, <2>3 DEF Serves
  <2>4. CASE t # s
    BY <2>1, <2>4 DEF Serves
  <2> QED
    BY <2>3, <2>4
<1> QED
  BY <1>1, <1>2

LEMMA SwapsAddNoStaff ==
    ASSUME TypeOK, SwapShape, SwapStep, NEW p, p \notin DutyOperators, NEW t \in Shifts,
           Serves(roster', p, t)
    PROVE  Serves(roster, p, t)
<1>1. roster.persons \in [Shifts -> Seq(People)]
  BY DEF TypeOK, RosterTypeOK
<1>2. ASSUME NEW s \in Shifts, NEW ids, NEW type, NEW doc, Updated(s, ids, DutyOperators, type, doc)
      PROVE  Serves(roster, p, t)
  BY <1>1, <1>2, OperatorsOnly DEF Updated
<1>3. ASSUME NEW s \in Shifts, NEW u \in Shifts, NEW ids, NEW jds, NEW type, NEW doc,
             UpdatedTwice(s, u, ids, jds, type, doc)
      PROVE  Serves(roster, p, t)
  <2> DEFINE r == Update(roster, s, ids, type, doc)
  <2>1. /\ ids \in Seq(People) /\ MayUpdate(roster, s, ids, DutyOperators)
        /\ roster' = Update(r, u, jds, type, doc)
        /\ MayUpdate(roster, u, jds, DutyOperators) /\ s # u
    BY <1>3 DEF UpdatedTwice
  <2>2. r.persons \in [Shifts -> Seq(People)] /\ r.persons[u] = roster.persons[u]
    BY <1>1, <2>1 DEF Update
  <2>3. MayUpdate(r, u, jds, DutyOperators)
    BY <2>1, <2>2 DEF MayUpdate
  <2>4. Serves(r, p, t) => Serves(roster, p, t)
    BY <1>1, <2>1, OperatorsOnly
  <2> HIDE DEF r
  <2>5. Serves(r, p, t)
    BY <2>1, <2>2, <2>3, OperatorsOnly
  <2> QED
    BY <2>4, <2>5
<1>4. ASSUME NEW k \in Swaps, DirectorApproves(k) PROVE Serves(roster, p, t)
  <2>1. /\ swaps[k].status # "none" /\ NotHistorical(k)
        /\ MayExchange(k, swaps[k].applicant, swaps[k].target)
        /\ roster' = Exchange(k, swaps[k].applicant, swaps[k].target, "swap")
    BY <1>4 DEF DirectorApproves, SetRoster
  <2> QED
    BY <1>2, <1>3, <2>1, ExchangeUpdates
<1>5. ASSUME NEW k \in Swaps, CancelSwap(k) PROVE Serves(roster, p, t)
  <2>1. /\ swaps[k].status # "none" /\ NotHistorical(k)
        /\ MayExchange(k, swaps[k].target, swaps[k].applicant)
        /\ roster' = Exchange(k, swaps[k].target, swaps[k].applicant, "swap_cancel")
    BY <1>5 DEF CancelSwap, Cancellable, SetRoster, Undo
  <2> QED
    BY <1>2, <1>3, <2>1, ExchangeUpdates
<1>6. CASE UNCHANGED roster
  BY <1>6
<1> QED
  BY <1>4, <1>5, <1>6, ZenonT(40) DEF SwapStep, CreateSwap, TargetApproves, TargetRejects,
     CentreAnswersConfirm, DirectorRejects, WithdrawSwap, rosterVars

LEMMA RosterAddsNoStaff ==
    ASSUME TypeOK, RosterNext, NEW p, p \notin DutyOperators, NEW t \in Shifts, Serves(roster', p, t)
    PROVE  Serves(roster, p, t)
<1>1. roster.persons \in [Shifts -> Seq(People)]
  BY DEF TypeOK, RosterTypeOK
<1>2. ASSUME NEW s \in Shifts, NEW ids \in Payloads, EditShift(s, ids)
      PROVE  Serves(roster, p, t)
  BY <1>1, <1>2, OperatorsOnly DEF EditShift, SetRoster
<1>3. ASSUME NEW s \in Shifts, NEW ids \in Payloads, CorrectHistory(s, ids)
      PROVE  Serves(roster, p, t)
  BY <1>1, <1>3, OperatorsOnly DEF CorrectHistory, SetRoster
<1>4. CASE UNCHANGED roster
  BY <1>4
<1> QED
  BY <1>2, <1>3, <1>4 DEF RosterNext, ChangePerson, Midnight

\* Cover l is in effect for person p on shift s.
Covering(l, p, s) == leaves[l].shift = s /\ covers[l] = [person |-> p, status |-> "effective"]

\* A leave step other than the cancellation of cover l leaves it in effect.
LEMMA EffectiveCoverStays ==
    ASSUME LeaveShape, LeaveStep, NEW l \in Leaves, NEW p, NEW s,
           Covering(l, p, s), ~CancelCover(l)
    PROVE  Covering(l, p, s)'
<1> USE DEF Covering, LeaveShape
<1>1. covers[l].status = "effective" /\ leaves[l].status # "none"
  OBVIOUS
<1>2. ASSUME NEW m \in Leaves, NEW a \in People, NEW u \in Shifts, CreateLeave(m, a, u)
      PROVE  Covering(l, p, s)'
  BY <1>1, <1>2 DEF CreateLeave
<1>3. ASSUME NEW m \in Leaves, WithdrawLeave(m) PROVE Covering(l, p, s)'
  BY <1>3 DEF WithdrawLeave, SetLeave, LeaveRecord
<1>4. ASSUME NEW m \in Leaves, LeaveApproved(m) PROVE Covering(l, p, s)'
  <2>1. m # l
    BY <1>1, <1>4 DEF LeaveApproved
  <2> QED
    BY <1>4, <2>1 DEF LeaveApproved, SetLeave, SetCover, LeaveRecord
<1>5. ASSUME NEW m \in Leaves, LeaveRejected(m) PROVE Covering(l, p, s)'
  BY <1>5 DEF LeaveRejected, SetLeave, LeaveRecord
<1>6. ASSUME NEW m \in Leaves, NEW q \in People, ArrangeCover(m, q) PROVE Covering(l, p, s)'
  BY <1>1, <1>6 DEF ArrangeCover, SetLeave, LeaveRecord
<1>7. ASSUME NEW m \in Leaves, CoverConfirms(m) PROVE Covering(l, p, s)'
  BY <1>1, <1>7 DEF CoverConfirms, Answerable, SetLeave, SetCover, LeaveRecord
<1>8. ASSUME NEW m \in Leaves, CoverRejects(m) PROVE Covering(l, p, s)'
  BY <1>1, <1>8 DEF CoverRejects, Answerable, SetLeave, SetCover, LeaveRecord
<1>9. ASSUME NEW m \in Leaves, CancelCover(m) PROVE Covering(l, p, s)'
  BY <1>9 DEF CancelCover, SetCover
<1> QED
  BY <1>2, <1>3, <1>4, <1>5, <1>6, <1>7, <1>8, <1>9 DEF LeaveStep

LEMMA StepMakesNoStray ==
    ASSUME FlowInv, [FlowNext]_flowVars, eligible' = eligible,
           NEW s \in Shifts, NEW p \in People, p \notin DutyOperators, Serves(roster', p, s),
           Serves(roster, p, s) => \E l \in Leaves : Covering(l, p, s)
    PROVE  \E l \in Leaves : Covering(l, p, s)'
<1>1. /\ TypeOK /\ SwapShape /\ LeaveShape
      /\ roster.persons \in [Shifts -> Seq(People)]
  BY DEF FlowInv, JournalInv, TypeOK, RosterTypeOK
<1>2. ASSUME Serves(roster, p, s) PROVE \E l \in Leaves : Covering(l, p, s)
  BY <1>2
<1>3. ASSUME SwapStep \/ RosterNext \/ UNCHANGED roster, UNCHANGED <<leaves, covers>>
      PROVE  \E l \in Leaves : Covering(l, p, s)'
  <2>1. Serves(roster, p, s)
    BY <1>1, <1>3, SwapsAddNoStaff, RosterAddsNoStaff
  <2> QED
    BY <1>2, <1>3, <2>1 DEF Covering
<1>4. ASSUME NEW l \in Leaves, CoverConfirms(l)
      PROVE  \E m \in Leaves : Covering(m, p, s)'
  <2> DEFINE u == leaves[l].shift
             ids == Replace(Staff(u), leaves[l].applicant, covers[l].person)
  <2>1. /\ covers[l].status = "wait_cover_confirm"
        /\ roster' = Update(roster, u, ids, "leave_cover", l)
        /\ covers' = [covers EXCEPT ![l].status = "effective"]
        /\ leaves' = [leaves EXCEPT ![l].status = "completed"]
    BY <1>4 DEF CoverConfirms, Answerable, SetRoster, SetCover, SetLeave
  <2>2. u \in Shifts
    BY <1>1, <2>1 DEF LeaveShape
  <2>3. Serves(roster, p, s) \/ (s = u /\ p = covers[l].person)
    <3>1. CASE s # u \/ ids = roster.persons[u]
      BY <1>1, <2>1, <2>2, <3>1 DEF Serves, Update
    <3>2. CASE s = u /\ ids # roster.persons[u]
      <4>1. roster'.persons[s] = ids
        BY <1>1, <2>1, <2>2, <3>2 DEF Update
      <4> QED
        BY <3>2, <4>1 DEF Serves, Replace, Staff
    <3> QED
      BY <3>1, <3>2
  <2>4. CASE Serves(roster, p, s)
    <3>1. PICK m \in Leaves : Covering(m, p, s)
      BY <1>2, <2>4
    <3>2. ~CancelCover(m)
      <4>1. m # l
        BY <2>1, <3>1 DEF Covering
      <4>2. covers'[l].status = "effective"
        BY <1>1, <2>1 DEF LeaveShape, CoverRecord
      <4>3. CancelCover(m) => covers'[l].status = covers[l].status
        BY <1>1, <4>1 DEF CancelCover, SetCover, LeaveShape
      <4> QED
        BY <2>1, <4>2, <4>3
    <3> QED
      BY <1>1, <1>4, <3>1, <3>2, EffectiveCoverStays DEF LeaveStep
  <2>5. CASE s = u /\ p = covers[l].person
    BY <1>1, <2>1, <2>5 DEF Covering, LeaveShape, LeaveRecord, CoverRecord
  <2> QED
    BY <2>3, <2>4, <2>5
<1>5. ASSUME NEW l \in Leaves, CancelCover(l)
      PROVE  \E m \in Leaves : Covering(m, p, s)'
  <2> DEFINE u == leaves[l].shift
  <2>1. /\ covers[l].status = "effective"
        /\ MayUpdate(roster, u, Restored(l), DutyOperators)
        /\ roster' = Update(roster, u, Restored(l), "leave_cover_cancel", l)
        /\ covers' = [covers EXCEPT ![l].status = "cancelled"]
        /\ leaves' = leaves
    BY <1>5 DEF CancelCover, SetRoster, SetCover
  <2>2. u \in Shifts /\ leaves[l].applicant \in People
    BY <1>1, <2>1 DEF LeaveShape
  <2>3. Serves(roster, p, s)
    BY <1>1, <2>1, <2>2, OperatorsOnly
  <2>4. PICK m \in Leaves : Covering(m, p, s)
    BY <1>2, <2>3
  <2>5. m # l
    <3> SUFFICES ASSUME m = l PROVE FALSE
      OBVIOUS
    <3>1. s = u /\ covers[l].person = p
      BY <2>4 DEF Covering
    <3>2. roster'.persons[u] = Restored(l)
      BY <1>1, <2>1, <2>2 DEF Update
    <3>3. \A i \in DOMAIN Restored(l) : Restored(l)[i] # p
      BY <1>1, <2>1, <3>1 DEF Restored, Replace, LeaveShape
    <3> QED
      BY <3>1, <3>2, <3>3 DEF Serves
  <2> QED
    BY <1>1, <2>1, <2>4, <2>5 DEF Covering, LeaveShape
<1>6. ASSUME LeaveStep, ~ \E l \in Leaves : CoverConfirms(l) \/ CancelCover(l)
      PROVE  \E l \in Leaves : Covering(l, p, s)'
  <2>1. roster' = roster
    BY <1>6 DEF LeaveStep, CreateLeave, WithdrawLeave, LeaveApproved, LeaveRejected,
                ArrangeCover, CoverRejects, rosterVars
  <2>2. PICK l \in Leaves : Covering(l, p, s)
    BY <1>2, <2>1
  <2> QED
    BY <1>1, <1>6, <2>2, EffectiveCoverStays
<1> QED
  BY <1>3, <1>4, <1>5, <1>6 DEF FlowNext, flowVars, rosterVars

\* Whatever swaps, leaves, edits and corrections do, only a change of master data
\* leaves anybody on a shift who is neither a duty operator of that moment nor the
\* cover in effect of a leave of that very shift.
THEOREM WorkflowsMakeNoStrayAlways == FlowSpec => WorkflowsMakeNoStray
<1>1. ASSUME FlowInv, [FlowNext]_flowVars, eligible' = eligible
      PROVE  Strays' \subseteq Strays
  <2>1. \A p, s : OnShift(p, s) <=> Serves(roster, p, s)
    BY DEF OnShift, Staff, Serves
  <2>2. \A p, s : OnShift(p, s)' <=> Serves(roster', p, s)
    BY DEF OnShift, Staff, Serves
  <2>3. \A p, s : Covered(p, s) <=> \E l \in Leaves : Covering(l, p, s)
    BY DEF Covered, Covering
  <2>4. \A p, s : Covered(p, s)' <=> \E l \in Leaves : Covering(l, p, s)'
    BY DEF Covered, Covering
  <2>5. DutyOperators' = DutyOperators
    BY <1>1 DEF DutyOperators
  <2> SUFFICES ASSUME NEW p \in People, NEW s \in Shifts,
                      Serves(roster', p, s), p \notin DutyOperators,
                      ~ \E l \in Leaves : Covering(l, p, s)'
               PROVE  Serves(roster, p, s) /\ ~ \E l \in Leaves : Covering(l, p, s)
    BY <2>1, <2>2, <2>3, <2>4, <2>5 DEF Strays
  <2>6. Serves(roster, p, s) /\ ~ \E l \in Leaves : Covering(l, p, s)
    BY <1>1, StepMakesNoStray
  <2> QED
    BY <2>6
<1>2. FlowInv /\ [FlowNext]_flowVars =>
         [eligible' = eligible => Strays' \subseteq Strays]_leaveVars
  BY <1>1
<1> QED
  BY <1>2, FlowInvariant, PTL DEF FlowSpec, WorkflowsMakeNoStray

-----------------------------------------------------------------------------
(***************************************************************************)
(* The todos of leaves, beside those of swaps.                             *)
(***************************************************************************)
LeaveTodoOf(l) ==
    /\ \A i, j \in Todo(tasks, l) : i = j
    /\ Todo(tasks, l) # {} <=> leaves[l].status = "wait_director_approval"

FlowTodos == SwapTodos /\ \A l \in Leaves : LeaveTodoOf(l)

\* A swap never touches the task of a leave.
LEMMA SwapsKeepLeaveTodos ==
    ASSUME SwapShape, FlowTodos, SwapStep, UNCHANGED leaves
    PROVE  FlowTodos'
<1>1. tasks \in [Docs -> Seq([node : Nodes, status : TaskStatuses])]
  BY DEF FlowTodos, SwapTodos, TasksType
<1>2. PICK k \in Swaps : OnlyOf(k, tasks, tasks')
  <2>1. ASSUME NEW k \in Swaps, NEW i, NEW approve \in BOOLEAN
        PROVE  OnlyOf(k, tasks, CompleteTask(tasks, k, i, approve))
    BY <1>1, SwapAssumption DEF CompleteTask, OnlyOf
  <2>2. ASSUME NEW k \in Swaps, NEW i, NEW node
        PROVE  OnlyOf(k, tasks, CreateTask(CompleteTask(tasks, k, i, TRUE), k, node))
    BY <1>1, SwapAssumption DEF CompleteTask, CreateTask, OnlyOf
  <2>3. ASSUME NEW k \in Swaps, NEW node
        PROVE  /\ OnlyOf(k, tasks, CreateTask(tasks, k, node))
               /\ OnlyOf(k, tasks, CancelPendingTasks(tasks, k))
    BY <1>1, SwapAssumption DEF CreateTask, CancelPendingTasks, OnlyOf
  <2>4. ASSUME NEW k \in Swaps, TargetApproves(k) PROVE OnlyOf(k, tasks, tasks')
    BY <2>2, <2>4 DEF TargetApproves
  <2>5. ASSUME NEW k \in Swaps,
               TargetRejects(k) \/ DirectorApproves(k) \/ DirectorRejects(k)
               \/ \E approve \in BOOLEAN : CentreAnswersConfirm(k, approve)
        PROVE  OnlyOf(k, tasks, tasks')
    BY <2>1, <2>5 DEF TargetRejects, DirectorApproves, DirectorRejects, CentreAnswersConfirm
  <2>6. ASSUME NEW k \in Swaps,
               WithdrawSwap(k) \/ CancelSwap(k)
               \/ \E a, b \in People, s \in Shifts, t \in Shifts \cup {NoShift} :
                     CreateSwap(k, a, s, b, t)
        PROVE  OnlyOf(k, tasks, tasks')
    BY <2>3, <2>6 DEF WithdrawSwap, CancelSwap, CreateSwap
  <2> QED
    BY <2>4, <2>5, <2>6 DEF SwapStep
<1>3. ASSUME NEW l \in Leaves PROVE LeaveTodoOf(l)'
  <2>1. tasks'[l] = tasks[l] /\ leaves' = leaves
    BY <1>2, DutyFlowAssumption, LeaveAssumption DEF OnlyOf
  <2> QED
    BY <2>1 DEF FlowTodos, LeaveTodoOf, Todo
<1> QED
  BY <1>3, StepSwapTodos DEF FlowTodos

\* A step of leave l touches no other task.
LEMMA StepTodosOfLeave ==
    ASSUME FlowTodos, NEW l \in Leaves, UNCHANGED swaps,
           tasks' \in TasksType, OnlyOf(l, tasks, tasks'), LeaveTodoOf(l)',
           \A m \in Leaves : m # l => leaves'[m] = leaves[m]
    PROVE  FlowTodos'
<1>1. ASSUME NEW k \in Swaps PROVE TodosOf(k)'
  <2>1. tasks'[k] = tasks[k]
    BY DutyFlowAssumption, SwapAssumption DEF OnlyOf
  <2> QED
    BY <2>1 DEF FlowTodos, SwapTodos, TodosOf, Todo
<1>2. ASSUME NEW m \in Leaves, m # l PROVE LeaveTodoOf(m)'
  <2>1. tasks'[m] = tasks[m] /\ leaves'[m] = leaves[m]
    BY <1>2, LeaveAssumption DEF OnlyOf
  <2> QED
    BY <2>1 DEF FlowTodos, LeaveTodoOf, Todo
<1> QED
  BY <1>1, <1>2 DEF FlowTodos, SwapTodos

LEMMA LeavesKeepTodos ==
    ASSUME LeaveShape, FlowTodos, LeaveStep, UNCHANGED swaps
    PROVE  FlowTodos'
<1>1. tasks \in TasksType /\ \A l \in Leaves : l \in Docs /\ LeaveTodoOf(l)
  BY LeaveAssumption DEF FlowTodos, SwapTodos
<1>2. ASSUME NEW l \in Leaves, NEW status, SetLeave(l, status)
      PROVE  leaves'[l].status = status /\ \A m \in Leaves : m # l => leaves'[m] = leaves[m]
  BY <1>2 DEF SetLeave, LeaveShape, LeaveRecord
<1>3. ASSUME NEW l \in Leaves, NEW a \in People, NEW s \in Shifts, CreateLeave(l, a, s)
      PROVE  FlowTodos'
  <2>1. tasks' = CreateTask(tasks, l, "director_approval") /\ "director_approval" \in Nodes
    BY <1>3 DEF CreateLeave, Nodes
  <2>2. /\ leaves'[l].status = "wait_director_approval"
        /\ \A m \in Leaves : m # l => leaves'[m] = leaves[m]
    BY <1>3 DEF CreateLeave, LeaveShape
  <2>3. Todo(tasks, l) = {}
    BY <1>1, <1>3 DEF CreateLeave, LeaveTodoOf
  <2>4. tasks' \in TasksType /\ OnlyOf(l, tasks, tasks') /\ LeaveTodoOf(l)'
    BY <1>1, <2>1, <2>2, <2>3, CreateTodo DEF LeaveTodoOf, Todo
  <2> QED
    BY <2>2, <2>4, StepTodosOfLeave
<1>4. ASSUME NEW l \in Leaves, WithdrawLeave(l) PROVE FlowTodos'
  <2>1. tasks' = CancelPendingTasks(tasks, l) /\ SetLeave(l, "withdrawn")
    BY <1>4 DEF WithdrawLeave
  <2>2. tasks' \in TasksType /\ OnlyOf(l, tasks, tasks') /\ Todo(tasks', l) = {}
    BY <1>1, <2>1, CancelTodo
  <2>3. LeaveTodoOf(l)'
    BY <1>2, <2>1, <2>2 DEF LeaveTodoOf, Todo
  <2> QED
    BY <1>2, <2>1, <2>2, <2>3, StepTodosOfLeave
<1>5. ASSUME NEW l \in Leaves, LeaveApproved(l) \/ LeaveRejected(l) PROVE FlowTodos'
  <2>1. PICK approve \in BOOLEAN, i \in DOMAIN tasks[l] :
           /\ IsPending(l, i, "director_approval")
           /\ tasks' = CompleteTask(tasks, l, i, approve)
    BY <1>5 DEF LeaveApproved, LeaveRejected
  <2>2. PICK status \in {"pending_arrangement", "rejected"} : SetLeave(l, status)
    BY <1>5 DEF LeaveApproved, LeaveRejected
  <2>3. Todo(tasks, l) = {i}
    BY <1>1, <2>1 DEF IsPending, LeaveTodoOf, Todo
  <2>4. tasks' \in TasksType /\ OnlyOf(l, tasks, tasks') /\ Todo(tasks', l) = {}
    <3>1. /\ tasks' \in TasksType /\ OnlyOf(l, tasks, tasks')
          /\ Todo(tasks', l) = Todo(tasks, l) \ {i}
      BY <1>1, <2>1, CompleteTodo
    <3> QED
      BY <2>3, <3>1
  <2>5. LeaveTodoOf(l)'
    BY <1>2, <2>2, <2>4 DEF LeaveTodoOf, Todo
  <2> QED
    BY <1>2, <2>2, <2>4, <2>5, StepTodosOfLeave
<1>6. ASSUME NEW l \in Leaves, NEW status, status # "wait_director_approval",
             leaves[l].status # "wait_director_approval",
             UNCHANGED tasks, UNCHANGED leaves \/ SetLeave(l, status)
      PROVE  FlowTodos'
  <2>1. /\ leaves'[l].status # "wait_director_approval"
        /\ \A m \in Leaves : m # l => leaves'[m] = leaves[m]
    BY <1>2, <1>6
  <2>2. LeaveTodoOf(l)'
    BY <1>1, <1>6, <2>1 DEF LeaveTodoOf, Todo
  <2>3. tasks' \in TasksType /\ OnlyOf(l, tasks, tasks')
    BY <1>1, <1>6 DEF OnlyOf
  <2> QED
    BY <2>1, <2>2, <2>3, StepTodosOfLeave
<1>7. ASSUME NEW l \in Leaves, NEW p \in People, ArrangeCover(l, p) PROVE FlowTodos'
  BY <1>6, <1>7 DEF ArrangeCover
<1>8. ASSUME NEW l \in Leaves, CoverConfirms(l) \/ CoverRejects(l) \/ CancelCover(l)
      PROVE  FlowTodos'
  <2>1. leaves[l].status # "wait_director_approval"
    BY <1>8 DEF CoverConfirms, CoverRejects, CancelCover, Answerable, LeaveShape
  <2> QED
    BY <1>6, <1>8, <2>1 DEF CoverConfirms, CoverRejects, CancelCover
<1> QED
  BY <1>3, <1>4, <1>5, <1>7, <1>8 DEF LeaveStep

LEMMA FlowTodosInvariant == FlowSpec => []FlowTodos
<1>1. FlowInit => FlowTodos
  BY InitSwapTodos, SwapAssumption, LeaveAssumption
     DEF FlowInit, SwapInit, TasksInit, LeaveInit, NoLeave,
         FlowTodos, SwapTodos, TodosOf, LeaveTodoOf
<1>2. FlowInv /\ FlowTodos /\ [FlowNext]_flowVars => FlowTodos'
  <2>1. FlowTodos /\ UNCHANGED <<tasks, swaps, leaves>> => FlowTodos'
    BY DEF FlowTodos, SwapTodos, TodosOf, LeaveTodoOf, Todo
  <2> QED
    BY <2>1, SwapsKeepLeaveTodos, LeavesKeepTodos DEF FlowInv, FlowNext, flowVars
<1> QED
  BY <1>1, <1>2, FlowInvariant, PTL DEF FlowSpec

\* Beside swaps that come and go, a leave has a todo exactly while it waits for
\* the director, and then one.
THEOREM TodosFollowLeaves == FlowSpec => []LeaveHasTaskWhileWaiting
<1>1. FlowTodos => LeaveHasTaskWhileWaiting
  <2> SUFFICES ASSUME FlowTodos, NEW l \in Leaves
               PROVE  Cardinality(PendingNodes(l)) =
                        IF leaves[l].status = "wait_director_approval" THEN 1 ELSE 0
    BY DEF LeaveHasTaskWhileWaiting
  <2>1. LeaveTodoOf(l) /\ PendingNodes(l) = Todo(tasks, l)
    BY DEF FlowTodos, PendingNodes, Todo
  <2>2. CASE Todo(tasks, l) = {}
    BY <2>1, <2>2, FS_EmptySet DEF LeaveTodoOf
  <2>3. CASE Todo(tasks, l) # {}
    <3>1. PICK i \in Todo(tasks, l) : TRUE
      BY <2>3
    <3>2. Todo(tasks, l) = {i}
      BY <2>1, <3>1 DEF LeaveTodoOf
    <3> QED
      BY <2>1, <2>3, <3>2, FS_Singleton DEF LeaveTodoOf
  <2> QED
    BY <2>2, <2>3
<1> QED
  BY <1>1, FlowTodosInvariant, PTL

-----------------------------------------------------------------------------
(***************************************************************************)
(* The ledger and the documents.                                           *)
(***************************************************************************)
Triple(e) == <<e.shift, e.before, e.after>>
Reversed(e) == <<e.shift, e.after, e.before>>

\* What putting y for x on the source shift of swap k, and x for y on the target
\* shift, writes into the ledger.
ExchangeFor(k, x, y) ==
    { <<s, x, y>> : s \in {swaps[k].source} }
    \cup { <<t, y, x>> : t \in {swaps[k].tshift} \ {NoShift} }

\* What one update that replaces x by y on shift s makes of roster r: its rows,
\* and who is on the shift afterwards.
Replaced(r, u, s, x, y, type, doc) ==
    /\ u.persons \in [Shifts -> Seq(People)]
    /\ \A t \in Shifts : t # s => u.persons[t] = r.persons[t]
    /\ x # y => ~Serves(u, x, s)
    /\ r.ledger \subseteq u.ledger
    /\ \A e \in u.ledger : e \in r.ledger
          \/ (e.type = type /\ e.doc = doc /\ Triple(e) = <<s, x, y>>)
    /\ x # y /\ Serves(r, x, s) =>
          \E e \in u.ledger : e.type = type /\ e.doc = doc /\ Triple(e) = <<s, x, y>>

LEMMA ReplaceRows ==
    ASSUME NEW r, r.persons \in [Shifts -> Seq(People)],
           NEW s \in Shifts, NEW x, NEW y \in People, NEW type, NEW doc
    PROVE  Replaced(r, Update(r, s, Replace(r.persons[s], x, y), type, doc),
                    s, x, y, type, doc)
<1> DEFINE ids == Replace(r.persons[s], x, y)
           u == Update(r, s, ids, type, doc)
<1>1. PICK n \in Nat : r.persons[s] \in [1..n -> People]
  BY SeqDef
<1>2. ids = [i \in 1..n |-> IF r.persons[s][i] = x THEN y ELSE r.persons[s][i]]
  BY <1>1 DEF Replace
<1>3. ids \in [1..n -> People]
  BY <1>1, <1>2
<1>4. ids \in Seq(People)
  BY <1>3, SeqDef
<1>5. \A i \in 1..n : r.persons[s][i] # ids[i] => r.persons[s][i] = x /\ ids[i] = y
  BY <1>2
<1>6. x # y => \A i \in 1..n : ids[i] # x
  BY <1>2
<1>7. DOMAIN ids = 1..n /\ DOMAIN r.persons[s] = 1..n
  BY <1>1, <1>2
<1> HIDE DEF ids
<1>8. CASE ids = r.persons[s]
  <2>1. u = r
    BY <1>8 DEF Update
  <2>2. x # y => ~Serves(r, x, s)
    BY <1>6, <1>7, <1>8 DEF Serves
  <2> QED
    BY <2>1, <2>2 DEF ids, Replaced
<1>9. CASE ids # r.persons[s]
  <2>1. /\ u.persons = [r.persons EXCEPT ![s] = ids]
        /\ u.ledger = r.ledger \cup LedgerRows(r, s, ids, type, doc)
    BY <1>9 DEF Update
  <2>2. \A e \in LedgerRows(r, s, ids, type, doc) :
           e.type = type /\ e.doc = doc /\ Triple(e) = <<s, x, y>>
    BY <1>5, <1>7 DEF LedgerRows, LedgerRow, Changed, Triple
  <2>3. \A i \in 1..n : r.persons[s][i] = x /\ x # y =>
           LedgerRow(r, s, ids, i, type, doc) \in LedgerRows(r, s, ids, type, doc)
    BY <1>6, <1>7 DEF LedgerRows, Changed
  <2>4. u.persons \in [Shifts -> Seq(People)] /\ u.persons[s] = ids
        /\ \A t \in Shifts : t # s => u.persons[t] = r.persons[t]
    BY <1>4, <2>1
  <2>5. x # y => ~Serves(u, x, s)
    BY <1>6, <1>7, <2>4 DEF Serves
  <2>6. x # y /\ Serves(r, x, s) =>
           \E e \in u.ledger : e.type = type /\ e.doc = doc /\ Triple(e) = <<s, x, y>>
    BY <1>7, <2>1, <2>2, <2>3 DEF Serves
  <2> HIDE DEF u
  <2>7. r.ledger \subseteq u.ledger
        /\ \A e \in u.ledger : e \in r.ledger
              \/ (e.type = type /\ e.doc = doc /\ Triple(e) = <<s, x, y>>)
    BY <2>1, <2>2
  <2> QED
    BY <2>4, <2>5, <2>6, <2>7 DEF ids, u, Replaced
<1> QED
  BY <1>8, <1>9

\* The one or two updates of a swap.
LEMMA ExchangeRows ==
    ASSUME TypeOK, SwapShape, NEW k \in Swaps, swaps[k].status # "none",
           NEW x \in People, NEW y \in People, x # y, NEW type,
           roster' = Exchange(k, x, y, type)
    PROVE  /\ roster.ledger \subseteq roster'.ledger
           /\ \A e \in roster'.ledger : e \in roster.ledger
                 \/ (e.type = type /\ e.doc = k /\ Triple(e) \in ExchangeFor(k, x, y))
           /\ OnShift(x, swaps[k].source)
              /\ (swaps[k].tshift # NoShift => OnShift(y, swaps[k].tshift)) =>
                 \A z \in ExchangeFor(k, x, y) :
                    \E e \in roster'.ledger : e.type = type /\ e.doc = k /\ Triple(e) = z
           /\ ~Serves(roster', x, swaps[k].source)
           /\ swaps[k].tshift # NoShift => ~Serves(roster', y, swaps[k].tshift)
<1> DEFINE s == swaps[k].source
           t == swaps[k].tshift
           r == Update(roster, s, Replace(roster.persons[s], x, y), type, k)
           u == Update(r, t, Replace(r.persons[t], y, x), type, k)
<1>1. s \in Shifts /\ t \in Shifts \cup {NoShift} /\ t # s
  BY DEF SwapShape, SwapRecord
<1>2. roster.persons \in [Shifts -> Seq(People)]
  BY DEF TypeOK, RosterTypeOK
<1>3. ExchangeFor(k, x, y) = {<<s, x, y>>} \cup (IF t = NoShift THEN {} ELSE {<<t, y, x>>})
  BY DEF ExchangeFor
<1>4. \A p, v : OnShift(p, v) <=> Serves(roster, p, v)
  BY DEF OnShift, Serves, Staff
<1>5. roster' = IF t = NoShift THEN r ELSE Update(r, t, Replace(roster.persons[t], y, x), type, k)
  BY DEF Exchange, Staff
<1> HIDE DEF s, t
<1>6. Replaced(roster, r, s, x, y, type, k)
  BY <1>1, <1>2, ReplaceRows
<1> HIDE DEF r
<1>7. CASE t = NoShift
  <2>1. roster' = r /\ ExchangeFor(k, x, y) = {<<s, x, y>>}
    BY <1>3, <1>5, <1>7
  <2> QED
    BY <1>4, <1>6, <1>7, <2>1 DEF s, t, Replaced
<1>8. CASE t # NoShift
  <2>1. t \in Shifts /\ t # s /\ r.persons[t] = roster.persons[t]
    BY <1>1, <1>6, <1>8 DEF Replaced
  <2>2. roster' = u /\ ExchangeFor(k, x, y) = {<<s, x, y>>, <<t, y, x>>}
    BY <1>3, <1>5, <1>8, <2>1
  <2>3. Replaced(r, u, t, y, x, type, k)
    <3>1. r.persons \in [Shifts -> Seq(People)]
      BY <1>6 DEF Replaced
    <3> QED
      BY <2>1, <3>1, ReplaceRows
  <2> HIDE DEF u
  <2>4. ~Serves(u, x, s)
    BY <1>1, <1>6, <2>1, <2>3 DEF Serves, Replaced
  <2>5. Serves(roster, y, t) <=> Serves(r, y, t)
    BY <2>1 DEF Serves
  <2>6. roster.ledger \subseteq u.ledger
        /\ \A e \in u.ledger : e \in roster.ledger
              \/ (e.type = type /\ e.doc = k /\ Triple(e) \in ExchangeFor(k, x, y))
    BY <1>6, <2>2, <2>3 DEF Replaced
  <2>7. Serves(roster, x, s) /\ Serves(roster, y, t) =>
           \A z \in ExchangeFor(k, x, y) :
              \E e \in u.ledger : e.type = type /\ e.doc = k /\ Triple(e) = z
    BY <1>6, <2>2, <2>3, <2>5 DEF Replaced
  <2> QED
    BY <1>4, <1>8, <2>2, <2>3, <2>4, <2>6, <2>7 DEF s, t, Replaced
<1> QED
  BY <1>7, <1>8

-----------------------------------------------------------------------------
Settled == {"effective", "cancelled"}

Exchanged(k) == ExchangeFor(k, swaps[k].applicant, swaps[k].target)
CoverChange(l) == <<leaves[l].shift, leaves[l].applicant, covers[l].person>>
CoverUndone(l) == <<leaves[l].shift, covers[l].person, leaves[l].applicant>>

\* Who the swaps are between.
Partners ==
    \A k \in Swaps : swaps[k].status # "none" =>
        /\ swaps[k].applicant \in People /\ swaps[k].target \in People
        /\ swaps[k].applicant # swaps[k].target

LEMMA StepPartners ==
    ASSUME SwapShape, Partners, [FlowNext]_flowVars
    PROVE  Partners'
<1>1. ASSUME SwapStep
      PROVE  Partners'
  <2> USE DEF SwapShape, SwapRecord, Partners
  <2>1. ASSUME NEW k \in Swaps, NEW a \in People, NEW b \in People, NEW s \in Shifts,
               NEW t \in Shifts \cup {NoShift}, CreateSwap(k, a, s, b, t)
        PROVE  Partners'
    BY <2>1 DEF CreateSwap, EligibleTarget
  <2>2. ASSUME NEW k \in Swaps, NEW status, swaps[k].status # "none", SetStatus(k, status)
        PROVE  Partners'
    BY <2>2 DEF SetStatus
  <2>3. ASSUME NEW k \in Swaps, \E approve \in BOOLEAN : CentreAnswersConfirm(k, approve)
        PROVE  Partners'
    BY <2>3 DEF CentreAnswersConfirm
  <2>4. ASSUME NEW k \in Swaps,
               TargetApproves(k) \/ TargetRejects(k) \/ DirectorApproves(k) \/ DirectorRejects(k)
               \/ WithdrawSwap(k) \/ CancelSwap(k)
        PROVE  swaps[k].status # "none" /\ \E status : SetStatus(k, status)
    BY <2>4 DEF TargetApproves, TargetRejects, DirectorApproves, DirectorRejects,
                WithdrawSwap, Withdrawable, OpenStatuses, CancelSwap, Cancellable
  <2> QED
    BY <1>1, <2>1, <2>2, <2>3, <2>4 DEF SwapStep
<1> QED
  BY <1>1 DEF FlowNext, flowVars, Partners

\* A document that took effect keeps its parties, and only its own approval or
\* confirmation, and its own cancellation, move it.
SameParties(k) ==
    /\ swaps'[k].applicant = swaps[k].applicant /\ swaps'[k].target = swaps[k].target
    /\ swaps'[k].source = swaps[k].source /\ swaps'[k].tshift = swaps[k].tshift

KeepsSwap(k) ==
    \/ swaps'[k] = swaps[k]
    \/ swaps[k].status \notin Settled /\ swaps'[k].status \notin Settled
    \/ /\ DirectorApproves(k) /\ SameParties(k)
       /\ swaps[k].status \notin Settled /\ swaps'[k].status = "effective"
    \/ /\ CancelSwap(k) /\ SameParties(k)
       /\ swaps[k].status = "effective" /\ swaps'[k].status = "cancelled"

LEMMA SettledSwaps ==
    ASSUME SwapShape, SwapStep \/ UNCHANGED swaps, NEW k \in Swaps
    PROVE  KeepsSwap(k)
<1> USE DEF SwapShape, SwapRecord, Settled
<1>1. ASSUME NEW j \in Swaps, NEW a \in People, NEW b \in People, NEW s \in Shifts,
             NEW t \in Shifts \cup {NoShift}, CreateSwap(j, a, s, b, t)
      PROVE  KeepsSwap(k)
  BY <1>1 DEF CreateSwap, KeepsSwap
<1>2. ASSUME NEW j \in Swaps, NEW status, SetStatus(j, status)
      PROVE  /\ j # k => swaps'[k] = swaps[k]
             /\ j = k => SameParties(k) /\ swaps'[k].status = status
  BY <1>2 DEF SetStatus, SameParties
<1>3. ASSUME NEW j \in Swaps, TargetApproves(j) \/ TargetRejects(j) \/ DirectorRejects(j) \/ WithdrawSwap(j)
      PROVE  KeepsSwap(k)
  <2>1. /\ swaps[j].status \notin Settled
        /\ \E status : status \notin Settled /\ SetStatus(j, status)
    BY <1>3 DEF TargetApproves, TargetRejects, DirectorRejects,
                WithdrawSwap, Withdrawable, OpenStatuses
  <2> QED
    BY <1>2, <2>1 DEF KeepsSwap
<1>4. ASSUME NEW j \in Swaps, DirectorApproves(j) PROVE KeepsSwap(k)
  <2>1. SetStatus(j, "effective") /\ swaps[j].status \notin Settled
    BY <1>4 DEF DirectorApproves
  <2> QED
    BY <1>2, <1>4, <2>1 DEF KeepsSwap
<1>5. ASSUME NEW j \in Swaps, CancelSwap(j) PROVE KeepsSwap(k)
  <2>1. SetStatus(j, "cancelled") /\ swaps[j].status = "effective"
    BY <1>5 DEF CancelSwap, Cancellable, SwapStatuses
  <2> QED
    BY <1>2, <1>5, <2>1 DEF KeepsSwap
<1>6. ASSUME NEW j \in Swaps, NEW approve \in BOOLEAN, CentreAnswersConfirm(j, approve)
      PROVE  KeepsSwap(k)
  BY <1>6 DEF CentreAnswersConfirm, KeepsSwap
<1>7. CASE UNCHANGED swaps
  BY <1>7 DEF KeepsSwap
<1> HIDE DEF SwapShape
<1> QED
  BY <1>1, <1>3, <1>4, <1>5, <1>6, <1>7 DEF SwapStep

KeepsCover(l) ==
    \/ covers'[l] = covers[l] /\ covers[l].status \notin Settled
    \/ covers'[l] = covers[l] /\ UNCHANGED <<leaves[l].applicant, leaves[l].shift>>
    \/ covers[l].status \notin Settled /\ covers'[l].status \notin Settled
    \/ /\ CoverConfirms(l) /\ covers'[l].person = covers[l].person
       /\ UNCHANGED <<leaves[l].applicant, leaves[l].shift>>
       /\ covers[l].status \notin Settled /\ covers'[l].status = "effective"
    \/ /\ CancelCover(l) /\ covers'[l].person = covers[l].person
       /\ UNCHANGED <<leaves[l].applicant, leaves[l].shift>>
       /\ covers[l].status = "effective" /\ covers'[l].status = "cancelled"

LEMMA SettledCovers ==
    ASSUME LeaveShape, LeaveStep \/ UNCHANGED <<leaves, covers>>, NEW l \in Leaves
    PROVE  KeepsCover(l)
<1> USE DEF LeaveShape, LeaveRecord, CoverRecord, Settled
<1>1. ASSUME NEW m \in Leaves, NEW a \in People, NEW s \in Shifts, CreateLeave(m, a, s)
      PROVE  KeepsCover(l)
  BY <1>1 DEF CreateLeave, KeepsCover
<1>2. ASSUME NEW m \in Leaves, NEW status, SetLeave(m, status)
      PROVE  UNCHANGED <<leaves[l].applicant, leaves[l].shift>>
  BY <1>2 DEF SetLeave
<1>3. ASSUME NEW m \in Leaves, NEW status, SetCover(m, status)
      PROVE  /\ m # l => covers'[l] = covers[l]
             /\ m = l => covers'[l].person = covers[l].person /\ covers'[l].status = status
  BY <1>3 DEF SetCover
<1>4. ASSUME NEW m \in Leaves, WithdrawLeave(m) \/ LeaveRejected(m) PROVE KeepsCover(l)
  BY <1>2, <1>4 DEF WithdrawLeave, LeaveRejected, KeepsCover
<1>5. ASSUME NEW m \in Leaves, LeaveApproved(m) PROVE KeepsCover(l)
  <2>1. /\ covers[m].status = "none"
        /\ SetLeave(m, "pending_arrangement") /\ SetCover(m, "pending_arrangement")
    BY <1>5 DEF LeaveApproved, CoverStatuses
  <2> QED
    BY <1>2, <1>3, <2>1 DEF KeepsCover
<1>6. ASSUME NEW m \in Leaves, NEW p \in People, ArrangeCover(m, p) PROVE KeepsCover(l)
  <2>1. /\ covers[m].status \notin Settled
        /\ SetLeave(m, "wait_cover_confirm")
        /\ covers' = [covers EXCEPT ![m] = [person |-> p, status |-> "wait_cover_confirm"]]
    BY <1>6 DEF ArrangeCover
  <2>2. m # l => covers'[l] = covers[l]
    BY <2>1
  <2>3. m = l => covers'[l].status \notin Settled
    BY <2>1
  <2> QED
    BY <1>2, <2>1, <2>2, <2>3 DEF KeepsCover
<1>7. ASSUME NEW m \in Leaves, CoverConfirms(m) PROVE KeepsCover(l)
  <2>1. /\ covers[m].status \notin Settled
        /\ SetLeave(m, "completed") /\ SetCover(m, "effective")
    BY <1>7 DEF CoverConfirms, Answerable
  <2> QED
    BY <1>2, <1>3, <1>7, <2>1 DEF KeepsCover
<1>8. ASSUME NEW m \in Leaves, CoverRejects(m) PROVE KeepsCover(l)
  <2>1. /\ covers[m].status \notin Settled
        /\ SetLeave(m, "pending_arrangement") /\ SetCover(m, "rearrange")
    BY <1>8 DEF CoverRejects, Answerable
  <2> QED
    BY <1>2, <1>3, <2>1 DEF KeepsCover
<1>9. ASSUME NEW m \in Leaves, CancelCover(m) PROVE KeepsCover(l)
  <2>1. /\ covers[m].status = "effective" /\ leaves' = leaves /\ SetCover(m, "cancelled")
    BY <1>9 DEF CancelCover
  <2> QED
    BY <1>3, <1>9, <2>1 DEF KeepsCover
<1>10. CASE UNCHANGED <<leaves, covers>>
  BY <1>10 DEF KeepsCover
<1> HIDE DEF LeaveShape
<1> QED
  BY <1>1, <1>4, <1>5, <1>6, <1>7, <1>8, <1>9, <1>10 DEF LeaveStep

\* Every new ledger row has its cause in the step that writes it.
ByHand(e) == e.type \in {"manual", "historical_correction"} /\ e.doc = NoDoc
Caused(e) ==
    \/ ByHand(e)
    \/ /\ e.type = "swap" /\ e.doc \in Swaps
       /\ DirectorApproves(e.doc) /\ Triple(e) \in Exchanged(e.doc)
    \/ /\ e.type = "swap_cancel" /\ e.doc \in Swaps
       /\ CancelSwap(e.doc) /\ Reversed(e) \in Exchanged(e.doc)
    \/ /\ e.type = "leave_cover" /\ e.doc \in Leaves
       /\ CoverConfirms(e.doc) /\ Triple(e) = CoverChange(e.doc)
    \/ /\ e.type = "leave_cover_cancel" /\ e.doc \in Leaves
       /\ CancelCover(e.doc) /\ Triple(e) = CoverUndone(e.doc)

\* The rows a document leaves, and whom it takes off its shifts.
HasRow(r, doc, type, z) == \E e \in r.ledger : e.type = type /\ e.doc = doc /\ Triple(e) = z

LEMMA ApprovalRows ==
    ASSUME FlowInv, Partners, NEW k \in Swaps, DirectorApproves(k)
    PROVE  /\ roster.ledger \subseteq roster'.ledger
           /\ \A e \in roster'.ledger : e \in roster.ledger \/ Caused(e)
           /\ \A z \in Exchanged(k) : HasRow(roster', k, "swap", z)
<1> DEFINE a == swaps[k].applicant
           b == swaps[k].target
<1>1. /\ TypeOK /\ SwapShape /\ swaps[k].status # "none"
      /\ roster' = Exchange(k, a, b, "swap")
      /\ OnShift(a, swaps[k].source)
      /\ swaps[k].tshift # NoShift => OnShift(b, swaps[k].tshift)
  BY DEF FlowInv, JournalInv, DirectorApproves, SetRoster
<1>2. a \in People /\ b \in People /\ a # b
  BY <1>1 DEF Partners
<1>3. Exchanged(k) = ExchangeFor(k, a, b)
  BY DEF Exchanged
<1> HIDE DEF a, b
<1>4. /\ roster.ledger \subseteq roster'.ledger
      /\ \A e \in roster'.ledger : e \in roster.ledger
            \/ (e.type = "swap" /\ e.doc = k /\ Triple(e) \in ExchangeFor(k, a, b))
      /\ \A z \in ExchangeFor(k, a, b) :
            \E e \in roster'.ledger : e.type = "swap" /\ e.doc = k /\ Triple(e) = z
  BY <1>1, <1>2, ExchangeRows
<1> QED
  BY <1>3, <1>4 DEF Caused, HasRow

LEMMA CancellationRows ==
    ASSUME FlowInv, Partners, NEW k \in Swaps, CancelSwap(k)
    PROVE  /\ roster.ledger \subseteq roster'.ledger
           /\ \A e \in roster'.ledger : e \in roster.ledger \/ Caused(e)
           /\ ~Serves(roster', swaps[k].target, swaps[k].source)
           /\ swaps[k].tshift # NoShift => ~Serves(roster', swaps[k].applicant, swaps[k].tshift)
<1> DEFINE a == swaps[k].applicant
           b == swaps[k].target
<1>1. /\ TypeOK /\ SwapShape /\ swaps[k].status # "none"
      /\ roster' = Exchange(k, b, a, "swap_cancel")
  BY DEF FlowInv, JournalInv, CancelSwap, Cancellable, SetRoster, Undo
<1>2. a \in People /\ b \in People /\ a # b
  BY <1>1 DEF Partners
<1>3. \A e : Triple(e) \in ExchangeFor(k, b, a) => Reversed(e) \in Exchanged(k)
  BY DEF Exchanged, ExchangeFor, Triple, Reversed
<1> HIDE DEF a, b
<1>4. /\ roster.ledger \subseteq roster'.ledger
      /\ \A e \in roster'.ledger : e \in roster.ledger
            \/ (e.type = "swap_cancel" /\ e.doc = k /\ Triple(e) \in ExchangeFor(k, b, a))
      /\ ~Serves(roster', b, swaps[k].source)
      /\ swaps[k].tshift # NoShift => ~Serves(roster', a, swaps[k].tshift)
  BY <1>1, <1>2, ExchangeRows
<1> QED
  BY <1>3, <1>4 DEF Caused, a, b

LEMMA CoverRows ==
    ASSUME FlowInv, NEW l \in Leaves, CoverConfirms(l)
    PROVE  /\ roster.ledger \subseteq roster'.ledger
           /\ \A e \in roster'.ledger : e \in roster.ledger \/ Caused(e)
           /\ HasRow(roster', l, "leave_cover", CoverChange(l))
<1> DEFINE s == leaves[l].shift
           a == leaves[l].applicant
           p == covers[l].person
<1>1. /\ covers[l].status = "wait_cover_confirm" /\ OnShift(a, s)
      /\ roster' = Update(roster, s, Replace(roster.persons[s], a, p), "leave_cover", l)
  BY DEF CoverConfirms, Answerable, SetRoster, Staff
<1>2. s \in Shifts /\ a \in People /\ p \in People /\ a # p
  BY <1>1 DEF FlowInv, LeaveShape
<1>3. roster.persons \in [Shifts -> Seq(People)] /\ Serves(roster, a, s)
  BY <1>1 DEF FlowInv, JournalInv, TypeOK, RosterTypeOK, OnShift, Staff, Serves
<1>4. CoverChange(l) = <<s, a, p>>
  BY DEF CoverChange
<1> HIDE DEF s, a, p
<1>5. Replaced(roster, roster', s, a, p, "leave_cover", l)
  BY <1>1, <1>2, <1>3, ReplaceRows
<1> QED
  BY <1>2, <1>3, <1>4, <1>5 DEF Replaced, Caused, HasRow

LEMMA UncoverRows ==
    ASSUME FlowInv, NEW l \in Leaves, CancelCover(l)
    PROVE  /\ roster.ledger \subseteq roster'.ledger
           /\ \A e \in roster'.ledger : e \in roster.ledger \/ Caused(e)
           /\ HasRow(roster', l, "leave_cover_cancel", CoverUndone(l))
           /\ ~Serves(roster', covers[l].person, leaves[l].shift)
<1> DEFINE s == leaves[l].shift
           a == leaves[l].applicant
           p == covers[l].person
<1>1. /\ covers[l].status = "effective" /\ OnShift(p, s)
      /\ roster' = Update(roster, s, Replace(roster.persons[s], p, a), "leave_cover_cancel", l)
  BY DEF CancelCover, Restored, SetRoster, Staff
<1>2. s \in Shifts /\ a \in People /\ p \in People /\ a # p
  BY <1>1 DEF FlowInv, LeaveShape
<1>3. roster.persons \in [Shifts -> Seq(People)] /\ Serves(roster, p, s)
  BY <1>1 DEF FlowInv, JournalInv, TypeOK, RosterTypeOK, OnShift, Staff, Serves
<1>4. CoverUndone(l) = <<s, p, a>>
  BY DEF CoverUndone
<1>5. ~Serves(roster', p, s) => ~Serves(roster', covers[l].person, leaves[l].shift)
  OBVIOUS
<1> HIDE DEF s, a, p
<1>6. Replaced(roster, roster', s, p, a, "leave_cover_cancel", l)
  BY <1>1, <1>2, <1>3, ReplaceRows
<1> QED
  BY <1>2, <1>3, <1>4, <1>5, <1>6 DEF Replaced, Caused, HasRow

LEMMA NewRows ==
    ASSUME FlowInv, Partners, [FlowNext]_flowVars
    PROVE  /\ roster.ledger \subseteq roster'.ledger
           /\ \A e \in roster'.ledger : e \in roster.ledger \/ Caused(e)
<1>1. ASSUME NEW s \in Shifts, NEW ids \in Payloads, EditShift(s, ids) \/ CorrectHistory(s, ids)
      PROVE  /\ roster.ledger \subseteq roster'.ledger
             /\ \A e \in roster'.ledger : e \in roster.ledger \/ ByHand(e)
  <2>1. PICK type \in {"manual", "historical_correction"} :
           roster' = Update(roster, s, ids, type, NoDoc)
    BY <1>1 DEF EditShift, CorrectHistory, SetRoster
  <2> QED
    BY <2>1 DEF Update, LedgerRows, LedgerRow, ByHand
<1>2. ASSUME RosterNext
      PROVE  /\ roster.ledger \subseteq roster'.ledger
             /\ \A e \in roster'.ledger : e \in roster.ledger \/ Caused(e)
  <2>1. CASE UNCHANGED roster
    BY <2>1
  <2> QED
    BY <1>1, <1>2, <2>1 DEF RosterNext, ChangePerson, Midnight, Caused
<1>3. ASSUME SwapStep, ~ \E k \in Swaps : DirectorApproves(k) \/ CancelSwap(k)
      PROVE  UNCHANGED roster
  BY <1>3, ZenonT(40) DEF SwapStep, CreateSwap, TargetApproves, TargetRejects, CentreAnswersConfirm,
              DirectorRejects, WithdrawSwap, rosterVars
<1>4. ASSUME LeaveStep, ~ \E l \in Leaves : CoverConfirms(l) \/ CancelCover(l)
      PROVE  UNCHANGED roster
  BY <1>4 DEF LeaveStep, CreateLeave, WithdrawLeave, LeaveApproved, LeaveRejected,
              ArrangeCover, CoverRejects, rosterVars
<1>5. CASE UNCHANGED roster
  BY <1>5
<1> QED
  BY <1>2, <1>3, <1>4, <1>5, ApprovalRows, CancellationRows, CoverRows, UncoverRows
     DEF FlowNext, flowVars, rosterVars

\* What a ledger row says of the document it names, and the rows a document that
\* took effect has left.
Fits(e) ==
    \/ ByHand(e)
    \/ /\ e.type = "swap" /\ e.doc \in Swaps
       /\ swaps[e.doc].status \in Settled /\ Triple(e) \in Exchanged(e.doc)
    \/ /\ e.type = "swap_cancel" /\ e.doc \in Swaps
       /\ swaps[e.doc].status = "cancelled" /\ Reversed(e) \in Exchanged(e.doc)
    \/ /\ e.type = "leave_cover" /\ e.doc \in Leaves
       /\ covers[e.doc].status \in Settled /\ Triple(e) = CoverChange(e.doc)
    \/ /\ e.type = "leave_cover_cancel" /\ e.doc \in Leaves
       /\ covers[e.doc].status = "cancelled" /\ Triple(e) = CoverUndone(e.doc)

LedgerInv ==
    /\ \A e \in roster.ledger : Fits(e)
    /\ \A k \in Swaps : swaps[k].status \in Settled =>
          \A z \in Exchanged(k) : HasRow(roster, k, "swap", z)
    /\ \A l \in Leaves : covers[l].status \in Settled =>
          HasRow(roster, l, "leave_cover", CoverChange(l))
    /\ \A l \in Leaves : covers[l].status = "cancelled" =>
          HasRow(roster, l, "leave_cover_cancel", CoverUndone(l))

LEMMA StepKeepsDocuments ==
    ASSUME FlowInv, [FlowNext]_flowVars
    PROVE  /\ \A k \in Swaps : KeepsSwap(k)
           /\ \A l \in Leaves : KeepsCover(l)
BY SettledSwaps, SettledCovers DEF FlowInv, FlowNext, flowVars

LEMMA StepFits ==
    ASSUME FlowInv, [FlowNext]_flowVars, NEW e, Fits(e) \/ Caused(e)
    PROVE  Fits(e)'
<1>1. ASSUME NEW k \in Swaps, swaps[k].status \in Settled \/ DirectorApproves(k)
      PROVE  swaps'[k].status \in Settled /\ Exchanged(k)' = Exchanged(k)
  <2>1. KeepsSwap(k) /\ (DirectorApproves(k) => swaps[k].status \notin Settled
                                               /\ swaps'[k].status \in Settled)
    BY StepKeepsDocuments DEF DirectorApproves, SetStatus, Settled, FlowInv, SwapShape, SwapRecord
  <2>2. swaps'[k].status \in Settled /\ (swaps'[k] = swaps[k] \/ SameParties(k))
    BY <1>1, <2>1 DEF KeepsSwap, Settled
  <2> QED
    BY <2>2 DEF SameParties, Exchanged, ExchangeFor
<1>2. ASSUME NEW k \in Swaps, swaps[k].status = "cancelled" \/ CancelSwap(k)
      PROVE  swaps'[k].status = "cancelled" /\ Exchanged(k)' = Exchanged(k)
  <2>1. KeepsSwap(k) /\ (CancelSwap(k) => swaps[k].status = "effective"
                                         /\ swaps'[k].status = "cancelled")
    BY StepKeepsDocuments DEF CancelSwap, Cancellable, SetStatus, SwapStatuses,
                              FlowInv, SwapShape, SwapRecord
  <2>2. swaps'[k].status = "cancelled" /\ (swaps'[k] = swaps[k] \/ SameParties(k))
    BY <1>2, <2>1 DEF KeepsSwap, Settled
  <2> QED
    BY <2>2 DEF SameParties, Exchanged, ExchangeFor
<1>3. ASSUME NEW l \in Leaves, covers[l].status \in Settled \/ CoverConfirms(l)
      PROVE  covers'[l].status \in Settled /\ CoverChange(l)' = CoverChange(l)
  <2>1. KeepsCover(l) /\ (CoverConfirms(l) => covers[l].status \notin Settled
                                            /\ covers'[l].status \in Settled)
    BY StepKeepsDocuments DEF CoverConfirms, Answerable, SetCover, Settled,
                              FlowInv, LeaveShape, CoverRecord
  <2> QED
    BY <1>3, <2>1 DEF KeepsCover, Settled, CoverChange
<1>4. ASSUME NEW l \in Leaves, covers[l].status = "cancelled" \/ CancelCover(l)
      PROVE  covers'[l].status = "cancelled" /\ CoverUndone(l)' = CoverUndone(l)
  <2>1. KeepsCover(l) /\ (CancelCover(l) => covers[l].status = "effective"
                                          /\ covers'[l].status = "cancelled")
    BY StepKeepsDocuments DEF CancelCover, SetCover, FlowInv, LeaveShape, CoverRecord
  <2> QED
    BY <1>4, <2>1 DEF KeepsCover, Settled, CoverUndone
<1>5. Triple(e)' = Triple(e) /\ Reversed(e)' = Reversed(e) /\ (ByHand(e) => ByHand(e)')
  BY DEF Triple, Reversed, ByHand
<1> QED
  BY <1>1, <1>2, <1>3, <1>4, <1>5 DEF Fits, Caused

LEMMA StepLedger ==
    ASSUME FlowInv, Partners, LedgerInv, [FlowNext]_flowVars
    PROVE  LedgerInv'
<1>1. /\ roster.ledger \subseteq roster'.ledger
      /\ \A e \in roster'.ledger : e \in roster.ledger \/ Caused(e)
  BY NewRows
<1>2. \A e \in roster'.ledger : Fits(e)'
  BY <1>1, StepFits DEF LedgerInv
<1>3. \A doc, type, z : HasRow(roster, doc, type, z) => HasRow(roster', doc, type, z)
  BY <1>1 DEF HasRow
<1>4. ASSUME NEW k \in Swaps, swaps'[k].status \in Settled
      PROVE  \A z \in Exchanged(k)' : HasRow(roster', k, "swap", z)
  <2>1. KeepsSwap(k)
    BY StepKeepsDocuments
  <2>2. Exchanged(k)' = Exchanged(k) /\ (swaps[k].status \in Settled \/ DirectorApproves(k))
    BY <1>4, <2>1 DEF KeepsSwap, SameParties, Exchanged, ExchangeFor, Settled
  <2> QED
    BY <1>3, <2>2, ApprovalRows DEF LedgerInv
<1>5. ASSUME NEW l \in Leaves, covers'[l].status \in Settled
      PROVE  HasRow(roster', l, "leave_cover", CoverChange(l)')
  <2>1. KeepsCover(l)
    BY StepKeepsDocuments
  <2>2. CoverChange(l)' = CoverChange(l) /\ (covers[l].status \in Settled \/ CoverConfirms(l))
    BY <1>5, <2>1 DEF KeepsCover, CoverChange, Settled
  <2> QED
    BY <1>3, <2>2, CoverRows DEF LedgerInv
<1>6. ASSUME NEW l \in Leaves, covers'[l].status = "cancelled"
      PROVE  HasRow(roster', l, "leave_cover_cancel", CoverUndone(l)')
  <2>1. KeepsCover(l)
    BY StepKeepsDocuments
  <2>2. CoverUndone(l)' = CoverUndone(l) /\ (covers[l].status = "cancelled" \/ CancelCover(l))
    BY <1>6, <2>1 DEF KeepsCover, CoverUndone, Settled
  <2> QED
    BY <1>3, <2>2, UncoverRows DEF LedgerInv
<1> QED
  BY <1>2, <1>4, <1>5, <1>6 DEF LedgerInv, HasRow

DocumentInv == FlowInv /\ Partners /\ LedgerInv

LEMMA DocumentInvariant == FlowSpec => []DocumentInv
<1>1. FlowInit => Partners /\ LedgerInv
  <2> SUFFICES ASSUME FlowInit PROVE Partners /\ LedgerInv
    OBVIOUS
  <2>1. /\ roster.ledger = {}
        /\ \A k \in Swaps : swaps[k].status = "none"
        /\ \A l \in Leaves : covers[l].status = "none"
    BY DEF FlowInit, SwapInit, RosterInit, LeaveInit, NoSwap, NoCover
  <2> QED
    BY <2>1 DEF Partners, LedgerInv, Settled
<1>2. DocumentInv /\ FlowInv' /\ [FlowNext]_flowVars => (Partners /\ LedgerInv)'
  BY StepPartners, StepLedger DEF DocumentInv, FlowInv
<1> QED
  BY <1>1, <1>2, FlowInvariant, PTL DEF FlowSpec, DocumentInv

\* Whatever else happens in the room, the ledger tells of every swap what it did:
\* an approved one put its two persons in each other's place on each of its
\* shifts, and no other swap left a trace.
THEOREM LedgerFollowsSwaps == FlowSpec => []SwapLedgerFollowsStatus
<1>1. DocumentInv => SwapLedgerFollowsStatus
  <2> SUFFICES ASSUME DocumentInv, NEW k \in Swaps
               PROVE  LET given == { <<e.shift, e.before, e.after>> : e \in RowsOf(k, "swap") }
                          back == { <<e.shift, e.before, e.after>> : e \in RowsOf(k, "swap_cancel") }
                      IN  /\ given = IF swaps[k].status \in Settled THEN Exchanged(k) ELSE {}
                          /\ swaps[k].status # "cancelled" => back = {}
                          /\ \A e \in back : <<e[1], e[3], e[2]>> \in Exchanged(k)
    BY DEF SwapLedgerFollowsStatus, Settled, Exchanged, ExchangeFor
  <2>1. \A e \in RowsOf(k, "swap") :
           swaps[k].status \in Settled /\ <<e.shift, e.before, e.after>> \in Exchanged(k)
    BY DEF DocumentInv, LedgerInv, Fits, ByHand, RowsOf, Triple
  <2>2. \A e \in RowsOf(k, "swap_cancel") :
           swaps[k].status = "cancelled" /\ <<e.shift, e.after, e.before>> \in Exchanged(k)
    BY DEF DocumentInv, LedgerInv, Fits, ByHand, RowsOf, Reversed
  <2>3. swaps[k].status \in Settled =>
           \A z \in Exchanged(k) : \E e \in RowsOf(k, "swap") : <<e.shift, e.before, e.after>> = z
    BY DEF DocumentInv, LedgerInv, HasRow, RowsOf, Triple
  <2> DEFINE given == { <<e.shift, e.before, e.after>> : e \in RowsOf(k, "swap") }
             back == { <<e.shift, e.before, e.after>> : e \in RowsOf(k, "swap_cancel") }
  <2>4. given = IF swaps[k].status \in Settled THEN Exchanged(k) ELSE {}
    <3>1. given \subseteq Exchanged(k) /\ (given # {} => swaps[k].status \in Settled)
      BY <2>1
    <3>2. swaps[k].status \in Settled => Exchanged(k) \subseteq given
      BY <2>3
    <3> QED
      BY <3>1, <3>2
  <2>5. swaps[k].status # "cancelled" => back = {}
    BY <2>2
  <2>6. \A z \in back : <<z[1], z[3], z[2]>> \in Exchanged(k)
    BY <2>2
  <2> QED
    BY <2>4, <2>5, <2>6
<1> QED
  BY <1>1, DocumentInvariant, PTL

\* And of every cover: one that took effect put its person in the applicant's
\* place, once, and a cancelled one undid exactly that.
THEOREM LedgerFollowsCovers == FlowSpec => []CoverLedgerFollowsStatus
<1>1. DocumentInv => CoverLedgerFollowsStatus
  <2> SUFFICES ASSUME DocumentInv, NEW l \in Leaves
               PROVE  LET Given(type) == { <<e.shift, e.before, e.after>> : e \in RowsOf(l, type) }
                      IN  /\ Given("leave_cover") =
                               IF covers[l].status \in Settled THEN {CoverChange(l)} ELSE {}
                          /\ Given("leave_cover_cancel") =
                               IF covers[l].status = "cancelled" THEN {CoverUndone(l)} ELSE {}
    BY DEF CoverLedgerFollowsStatus, Settled, CoverChange, CoverUndone
  <2>1. \A e \in RowsOf(l, "leave_cover") :
           covers[l].status \in Settled /\ <<e.shift, e.before, e.after>> = CoverChange(l)
    BY DEF DocumentInv, LedgerInv, Fits, ByHand, RowsOf, Triple
  <2>2. \A e \in RowsOf(l, "leave_cover_cancel") :
           covers[l].status = "cancelled" /\ <<e.shift, e.before, e.after>> = CoverUndone(l)
    BY DEF DocumentInv, LedgerInv, Fits, ByHand, RowsOf, Triple
  <2>3. /\ covers[l].status \in Settled =>
              \E e \in RowsOf(l, "leave_cover") : <<e.shift, e.before, e.after>> = CoverChange(l)
        /\ covers[l].status = "cancelled" =>
              \E e \in RowsOf(l, "leave_cover_cancel") :
                 <<e.shift, e.before, e.after>> = CoverUndone(l)
    BY DEF DocumentInv, LedgerInv, HasRow, RowsOf, Triple
  <2> QED
    BY <2>1, <2>2, <2>3
<1> QED
  BY <1>1, DocumentInvariant, PTL

\* The last row of a position names the person now on duty there.
LEMMA LatestRowIsOnDuty ==
    ASSUME NEW r, RosterTypeOK(r), LedgerExplains(r), NEW s \in Shifts, NEW i \in DOMAIN Baseline[s],
           NEW e, Latest(LedgerOf(r, s, i), e)
    PROVE  e \in r.ledger /\ e.shift = s /\ Serves(r, e.after, s)
<1> DEFINE rows == LedgerOf(r, s, i)
<1>1. e \in rows /\ \A f \in rows : f.version <= e.version
  BY DEF Latest
<1>2. rows # {} /\ Chain(Baseline[s][i], rows, r.persons[s][i])
  BY <1>1 DEF LedgerExplains
<1>3. PICK f \in rows : Latest(rows, f) /\ f.after = r.persons[s][i]
  BY <1>2 DEF Chain
<1>4. e.version \in Nat /\ f.version \in Nat
  BY <1>1 DEF RosterTypeOK, LedgerOf
<1>5. e = f
  BY <1>1, <1>2, <1>3, <1>4 DEF Chain, Latest
<1>6. i \in DOMAIN r.persons[s]
  <2>1. /\ r.persons[s] \in Seq(People) /\ Baseline[s] \in Seq(People)
        /\ Len(r.persons[s]) = Len(Baseline[s])
    BY RosterAssumption DEF RosterTypeOK
  <2> QED
    BY <2>1
<1> QED
  BY <1>1, <1>3, <1>5, <1>6 DEF Serves, LedgerOf

LEMMA StepInForce ==
    ASSUME DocumentInv, FlowInv', LedgerInv', NobodyServesForVoidDocument, [FlowNext]_flowVars
    PROVE  NobodyServesForVoidDocument'
<1> SUFFICES ASSUME NEW s \in Shifts, NEW i \in DOMAIN Baseline[s], NEW e,
                    Latest(LedgerOf(roster', s, i), e)
             PROVE  InForce(e)'
  BY DEF NobodyServesForVoidDocument, Latest
<1>1. e \in roster'.ledger /\ e.shift = s /\ Serves(roster', e.after, s)
  <2>1. RosterTypeOK(roster') /\ LedgerExplains(roster')
    BY DEF FlowInv, JournalInv, Journals, TypeOK
  <2> QED
    BY <2>1, LatestRowIsOnDuty
<1>2. Fits(e)'
  BY <1>1 DEF LedgerInv
<1>3. e \in roster.ledger => InForce(e)
  <2>1. roster.ledger \subseteq roster'.ledger
    BY NewRows DEF DocumentInv
  <2>2. e \in roster.ledger => Latest(LedgerOf(roster, s, i), e)
    BY <2>1 DEF Latest, LedgerOf
  <2> QED
    BY <2>2 DEF NobodyServesForVoidDocument, Latest
<1>4. e \in roster.ledger \/ Caused(e)
  BY <1>1, NewRows DEF DocumentInv
<1>5. CASE e.type = "swap"
  <2>1. /\ e.doc \in Swaps /\ swaps'[e.doc].status \in Settled
        /\ Triple(e) \in Exchanged(e.doc)'
    BY <1>2, <1>5 DEF Fits, ByHand, Triple
  <2> DEFINE k == e.doc
  <2>2. KeepsSwap(k)
    BY <2>1, StepKeepsDocuments DEF DocumentInv
  <2>3. SUFFICES ASSUME swaps'[k].status = "cancelled" PROVE FALSE
    BY <1>5, <2>1 DEF InForce, Settled
  <2>4. ~DirectorApproves(k)
    BY <2>1, <2>3, ZenonT(40) DEF DirectorApproves, SetStatus, DocumentInv, FlowInv, SwapShape, SwapRecord
  <2>5. CancelSwap(k) /\ SameParties(k)
    <3>1. swaps[k].status # "cancelled"
      <4>1. e \in roster.ledger
        BY <1>4, <1>5, <2>4 DEF Caused, ByHand
      <4> QED
        BY <1>3, <1>5, <4>1 DEF InForce
    <3> QED
      BY <2>2, <2>3, <3>1 DEF KeepsSwap, Settled
  <2>6. \/ e.shift = swaps[k].source /\ e.after = swaps[k].target
        \/ /\ swaps[k].tshift # NoShift
           /\ e.shift = swaps[k].tshift /\ e.after = swaps[k].applicant
    BY <2>1, <2>5 DEF Triple, Exchanged, ExchangeFor, SameParties
  <2> QED
    BY <1>1, <2>1, <2>5, <2>6, CancellationRows DEF DocumentInv
<1>6. CASE e.type = "leave_cover"
  <2>1. /\ e.doc \in Leaves /\ covers'[e.doc].status \in Settled
        /\ Triple(e) = CoverChange(e.doc)'
    BY <1>2, <1>6 DEF Fits, ByHand, Triple
  <2> DEFINE l == e.doc
  <2>2. KeepsCover(l)
    BY <2>1, StepKeepsDocuments DEF DocumentInv
  <2>3. SUFFICES ASSUME covers'[l].status = "cancelled" PROVE FALSE
    BY <1>6, <2>1 DEF InForce, Settled
  <2>4. ~CoverConfirms(l)
    BY <2>1, <2>3 DEF CoverConfirms, SetCover, DocumentInv, FlowInv, LeaveShape, CoverRecord
  <2>5. /\ CancelCover(l) /\ covers'[l].person = covers[l].person
        /\ leaves'[l].shift = leaves[l].shift
    <3>1. covers[l].status # "cancelled"
      <4>1. e \in roster.ledger
        BY <1>4, <1>6, <2>4 DEF Caused, ByHand
      <4> QED
        BY <1>3, <1>6, <4>1 DEF InForce
    <3> QED
      BY <2>2, <2>3, <3>1 DEF KeepsCover, Settled
  <2>6. e.shift = leaves[l].shift /\ e.after = covers[l].person
    BY <2>1, <2>5 DEF Triple, CoverChange
  <2> QED
    BY <1>1, <2>1, <2>5, <2>6, UncoverRows DEF DocumentInv
<1>7. CASE e.type \notin {"swap", "leave_cover"}
  BY <1>2, <1>7 DEF Fits, ByHand, InForce
<1> QED
  BY <1>5, <1>6, <1>7

\* Whoever is on duty is there by the plan, by hand, or by a document still in
\* force, however many swaps, covers, edits and cancellations came before.
THEOREM NobodyServesForVoidDocumentAlways == FlowSpec => []NobodyServesForVoidDocument
<1>1. FlowInit => NobodyServesForVoidDocument
  BY DEF FlowInit, SwapInit, RosterInit, NobodyServesForVoidDocument, LedgerOf
<1>2. DocumentInv /\ DocumentInv' /\ NobodyServesForVoidDocument /\ [FlowNext]_flowVars
        => NobodyServesForVoidDocument'
  BY StepInForce DEF DocumentInv
<1> QED
  BY <1>1, <1>2, DocumentInvariant, PTL DEF FlowSpec

-----------------------------------------------------------------------------
(***************************************************************************)
(* What an approval and a cancellation do to the two shifts of a swap.     *)
(***************************************************************************)
\* Putting y for a serving x moves one place from x to y and leaves the others;
\* that the result has nobody twice shows that y did not serve.
LEMMA ReplaceServes ==
    ASSUME NEW r, NEW u, NEW s, NEW x, NEW y, x # y, r.persons[s] \in Seq(People),
           Serves(r, x, s), u.persons[s] = Replace(r.persons[s], x, y),
           Distinct(u.persons[s])
    PROVE  /\ ~Serves(r, y, s)
           /\ \A p : Serves(u, p, s) <=> p = y \/ (p # x /\ Serves(r, p, s))
<1>1. PICK ids \in Seq(People) : ids = r.persons[s]
  OBVIOUS
<1>2. PICK jds : jds = u.persons[s]
  OBVIOUS
<1>3. DOMAIN jds = DOMAIN ids
      /\ \A i \in DOMAIN ids : jds[i] = IF ids[i] = x THEN y ELSE ids[i]
  BY <1>1, <1>2 DEF Replace
<1>4. PICK n \in DOMAIN ids : ids[n] = x
  BY <1>1 DEF Serves
<1>5. \A i \in DOMAIN ids : ids[i] # y
  BY <1>2, <1>3, <1>4 DEF Distinct
<1>6. \A p : (\E i \in DOMAIN jds : jds[i] = p)
               <=> p = y \/ (p # x /\ \E i \in DOMAIN ids : ids[i] = p)
  BY <1>3, <1>4
<1> QED
  BY <1>1, <1>2, <1>5, <1>6 DEF Serves

\* The staff after an exchange, shift by shift.
LEMMA ExchangeStaff ==
    ASSUME TypeOK, SwapShape, NEW k \in Swaps, swaps[k].status # "none",
           NEW x, NEW y, NEW type, roster' = Exchange(k, x, y, type)
    PROVE  LET s == swaps[k].source  t == swaps[k].tshift
           IN  /\ s \in Shifts /\ t \in Shifts \cup {NoShift} /\ t # s
               /\ roster'.persons[s] = Replace(roster.persons[s], x, y)
               /\ t # NoShift => roster'.persons[t] = Replace(roster.persons[t], y, x)
               /\ \A u \in Shifts : u \notin {s, t} => roster'.persons[u] = roster.persons[u]
<1> DEFINE s == swaps[k].source
           t == swaps[k].tshift
           ids == Replace(roster.persons[s], x, y)
           jds == Replace(roster.persons[t], y, x)
           r == Update(roster, s, ids, type, k)
<1>1. s \in Shifts /\ t \in Shifts \cup {NoShift} /\ t # s
  BY DEF SwapShape, SwapRecord
<1>2. roster' = IF t = NoShift THEN r ELSE Update(r, t, jds, type, k)
  BY DEF Exchange, Staff
<1>3. roster.persons \in [Shifts -> Seq(People)]
  BY DEF TypeOK, RosterTypeOK
<1> HIDE DEF s, t, ids, jds
<1>4. r.persons = [roster.persons EXCEPT ![s] = ids]
  BY <1>1, <1>3 DEF Update
<1> HIDE DEF r
<1>5. t # NoShift => roster'.persons = [r.persons EXCEPT ![t] = jds]
  BY <1>1, <1>2, <1>3, <1>4 DEF Update
<1>6. /\ roster'.persons[s] = ids
      /\ t # NoShift => roster'.persons[t] = jds
      /\ \A u \in Shifts : u \notin {s, t} => roster'.persons[u] = roster.persons[u]
  BY <1>1, <1>2, <1>3, <1>4, <1>5
<1> QED
  BY <1>1, <1>6 DEF s, t, ids, jds

\* Whoever gives one duty for another has as many as before.
LEMMA DutyForDuty ==
    ASSUME NEW D \in SUBSET Shifts, NEW s \in D, NEW t \in Shifts \ D
    PROVE  Cardinality((D \ {s}) \cup {t}) = Cardinality(D)
<1>1. IsFiniteSet(D)
  BY FS_Subset, SwapAssumption
<1>2. IsFiniteSet(D \ {s}) /\ Cardinality(D \ {s}) = Cardinality(D) - 1
  BY <1>1, FS_RemoveElement
<1>3. Cardinality((D \ {s}) \cup {t}) = Cardinality(D \ {s}) + 1
  BY <1>2, FS_AddElement
<1>4. Cardinality(D) \in Nat
  BY <1>1, FS_CardinalityType
<1> QED
  BY <1>2, <1>3, <1>4

LEMMA ApprovalKeepsDuties ==
    ASSUME FlowInv, Partners, NEW k \in Swaps, DirectorApproves(k),
           swaps[k].tshift # NoShift, NEW p \in People
    PROVE  Cardinality(DutiesOf(p)') = Cardinality(DutiesOf(p))
<1> DEFINE a == swaps[k].applicant
           b == swaps[k].target
           s == swaps[k].source
           t == swaps[k].tshift
           S == roster.persons[s]
           T == roster.persons[t]
           D == DutiesOf(p)
           E == { u \in Shifts : Serves(roster', p, u) }
<1>1. /\ TypeOK /\ SwapShape /\ swaps[k].status # "none"
      /\ roster' = Exchange(k, a, b, "swap")
      /\ Serves(roster, a, s) /\ Serves(roster, b, t)
      /\ Distinct(Replace(S, a, b)) /\ Distinct(Replace(T, b, a))
  BY DEF FlowInv, JournalInv, DirectorApproves, SetRoster, MayExchange, MayUpdate,
         OnShift, Serves, Staff
<1>2. a # b
  BY <1>1 DEF Partners
<1>3. /\ s \in Shifts /\ t \in Shifts /\ t # s
      /\ roster'.persons[s] = Replace(S, a, b) /\ roster'.persons[t] = Replace(T, b, a)
      /\ \A u \in Shifts : u \notin {s, t} => roster'.persons[u] = roster.persons[u]
  BY <1>1, ExchangeStaff
<1>4. DutiesOf(p)' = E /\ D = { u \in Shifts : Serves(roster, p, u) }
  BY DEF DutiesOf, OnShift, Serves, Staff
<1>5. S \in Seq(People) /\ T \in Seq(People)
  BY <1>1, <1>3 DEF TypeOK, RosterTypeOK
<1> HIDE DEF a, b, s, t
<1>6. ~Serves(roster, b, s)
      /\ (Serves(roster', p, s) <=> p = b \/ (p # a /\ Serves(roster, p, s)))
  <2>1. /\ roster.persons[s] \in Seq(People) /\ Serves(roster, a, s) /\ a # b
        /\ roster'.persons[s] = Replace(roster.persons[s], a, b)
        /\ Distinct(roster'.persons[s])
    BY <1>1, <1>2, <1>3, <1>5
  <2> QED
    BY <2>1, ReplaceServes
<1>7. ~Serves(roster, a, t)
      /\ (Serves(roster', p, t) <=> p = a \/ (p # b /\ Serves(roster, p, t)))
  <2>1. /\ roster.persons[t] \in Seq(People) /\ Serves(roster, b, t) /\ b # a
        /\ roster'.persons[t] = Replace(roster.persons[t], b, a)
        /\ Distinct(roster'.persons[t])
    BY <1>1, <1>2, <1>3, <1>5
  <2> QED
    BY <2>1, ReplaceServes
<1>8. \A u \in Shifts : u \notin {s, t} => (Serves(roster', p, u) <=> Serves(roster, p, u))
  BY <1>3 DEF Serves
<1>9. D \in SUBSET Shifts
  BY <1>4
<1>10. CASE p = a
  <2>1. s \in D /\ t \in Shifts \ D /\ E = (D \ {s}) \cup {t}
    BY <1>1, <1>2, <1>3, <1>4, <1>6, <1>7, <1>8, <1>10
  <2> QED
    BY <1>4, <1>9, <2>1, DutyForDuty
<1>11. CASE p = b
  <2>1. t \in D /\ s \in Shifts \ D /\ E = (D \ {t}) \cup {s}
    BY <1>1, <1>2, <1>3, <1>4, <1>6, <1>7, <1>8, <1>11
  <2> QED
    BY <1>4, <1>9, <2>1, DutyForDuty
<1>12. CASE p # a /\ p # b
  BY <1>3, <1>4, <1>6, <1>7, <1>8, <1>12
<1> QED
  BY <1>10, <1>11, <1>12

\* A mutual swap moves two duties and neither adds nor drops one, for rosters of
\* any size and whatever has changed the two shifts since it was requested.
THEOREM MutualSwapsKeepCounts == FlowSpec => MutualSwapKeepsDutyCounts
<1>1. DocumentInv /\ [FlowNext]_flowVars =>
        [ \A k \in Swaps :
            /\ swaps[k].tshift # NoShift
            /\ swaps[k].status = "wait_director_approval" /\ swaps'[k].status = "effective"
            => \A p \in People : Cardinality(DutiesOf(p)') = Cardinality(DutiesOf(p)) ]_swapVars
  <2> SUFFICES ASSUME DocumentInv, [FlowNext]_flowVars, NEW k \in Swaps,
                      swaps[k].tshift # NoShift, swaps[k].status = "wait_director_approval",
                      swaps'[k].status = "effective", NEW p \in People
               PROVE  Cardinality(DutiesOf(p)') = Cardinality(DutiesOf(p))
    OBVIOUS
  <2>1. FlowInv /\ Partners
    BY DEF DocumentInv
  <2>2. KeepsSwap(k)
    BY <2>1, StepKeepsDocuments
  <2>3. DirectorApproves(k)
    BY <2>2 DEF KeepsSwap, Settled
  <2> QED
    BY <2>1, <2>3, ApprovalKeepsDuties
<1> QED
  BY <1>1, DocumentInvariant, PTL DEF FlowSpec, MutualSwapKeepsDutyCounts

\* Every log row lists two staffs of one size, and the ledger rows of one version
\* have one cause.
Attributed(r) ==
    /\ \A e \in r.log : e.before \in Seq(People) /\ e.after \in Seq(People)
                        /\ Len(e.before) = Len(e.after)
    /\ \A f, g \in r.ledger : f.version = g.version => f.type = g.type /\ f.doc = g.doc

LEMMA UpdateAttributed ==
    ASSUME NEW r, RosterTypeOK(r), Attributed(r), NEW s \in Shifts, NEW ids \in Seq(People),
           Len(ids) = Len(r.persons[s]), NEW type, NEW doc
    PROVE  Attributed(Update(r, s, ids, type, doc))
<1> DEFINE u == Update(r, s, ids, type, doc)
<1>1. CASE ids = r.persons[s]
  BY <1>1 DEF Update
<1>2. CASE ids # r.persons[s]
  <2>1. /\ u.log = r.log \cup {LogRow(r, s, ids)}
        /\ u.ledger = r.ledger \cup LedgerRows(r, s, ids, type, doc)
    BY <1>2 DEF Update
  <2>2. r.version \in Nat /\ \A f \in r.ledger : f.version \in 2..r.version
    BY DEF RosterTypeOK
  <2>3. \A f \in LedgerRows(r, s, ids, type, doc) :
           f.version = r.version + 1 /\ f.type = type /\ f.doc = doc
    BY DEF LedgerRows, LedgerRow
  <2>4. /\ LogRow(r, s, ids).before \in Seq(People) /\ LogRow(r, s, ids).after = ids
        /\ Len(LogRow(r, s, ids).before) = Len(ids)
    BY DEF LogRow, RosterTypeOK
  <2> HIDE DEF u
  <2>5. \A e \in u.log : e.before \in Seq(People) /\ e.after \in Seq(People)
                         /\ Len(e.before) = Len(e.after)
    BY <2>1, <2>4 DEF Attributed
  <2>6. \A f, g \in u.ledger : f.version = g.version => f.type = g.type /\ f.doc = g.doc
    BY <2>1, <2>2, <2>3 DEF Attributed
  <2> QED
    BY <2>5, <2>6 DEF Attributed, u
<1> QED
  BY <1>1, <1>2

LEMMA StepAttributed ==
    ASSUME FlowInv, Attributed(roster), [FlowNext]_flowVars
    PROVE  Attributed(roster')
<1>1. TypeOK /\ RosterTypeOK(roster) /\ SwapShape /\ LeaveShape
  BY DEF FlowInv, JournalInv, TypeOK
<1>2. CASE UNCHANGED roster
  BY <1>2
<1>3. ASSUME NEW s \in Shifts, NEW ids \in Payloads, EditShift(s, ids) \/ CorrectHistory(s, ids)
      PROVE  Attributed(roster')
  <2>1. /\ \E type : roster' = Update(roster, s, ids, type, NoDoc)
        /\ Len(ids) = Len(roster.persons[s])
    BY <1>3 DEF EditShift, CorrectHistory, SetRoster, MayUpdate
  <2>2. ids \in Seq(People)
    BY RosterAssumption
  <2> QED
    BY <1>1, <2>1, <2>2, UpdateAttributed
<1>4. ASSUME NEW s \in Shifts, NEW ids, NEW allowed, NEW type, NEW doc,
             Updated(s, ids, allowed, type, doc)
      PROVE  Attributed(roster')
  BY <1>1, <1>4, UpdateAttributed DEF Updated, MayUpdate
<1>5. ASSUME NEW s \in Shifts, NEW t \in Shifts, NEW ids, NEW jds, NEW type, NEW doc,
             UpdatedTwice(s, t, ids, jds, type, doc)
      PROVE  Attributed(roster')
  <2> DEFINE r == Update(roster, s, ids, type, doc)
  <2>1. /\ ids \in Seq(People) /\ jds \in Seq(People) /\ s # t
        /\ MayUpdate(roster, s, ids, DutyOperators) /\ Len(jds) = Len(roster.persons[t])
        /\ roster' = Update(r, t, jds, type, doc)
    BY <1>5 DEF UpdatedTwice, MayUpdate
  <2>2. Attributed(r)
    BY <1>1, <2>1, UpdateAttributed DEF MayUpdate
  <2>3. RosterTypeOK(r)
    BY <1>1, <2>1, UpdateTypeOK
  <2>4. r.persons[t] = roster.persons[t]
    BY <1>1, <2>1 DEF Update, RosterTypeOK
  <2> HIDE DEF r
  <2> QED
    BY <2>1, <2>2, <2>3, <2>4, UpdateAttributed
<1>6. CASE SwapStep \/ LeaveStep
  BY <1>1, <1>2, <1>4, <1>5, <1>6, DocumentSteps
<1>7. CASE RosterNext
  BY <1>2, <1>3, <1>7 DEF RosterNext, ChangePerson, Midnight
<1> QED
  BY <1>2, <1>6, <1>7 DEF FlowNext, flowVars, rosterVars

\* If the last change of a shift was swap k's, which put y in the place of x there,
\* then putting x for y gives the staff before that change.
LEMMA LastChangeUndone ==
    ASSUME DocumentInv, Attributed(roster), NEW k \in Swaps, NEW s \in Shifts,
           NEW x, NEW y, x # y,
           \A z \in Exchanged(k) : z[1] = s => z = <<s, x, y>>,
           NEW e \in LogOf(roster, s), Latest(LogOf(roster, s), e),
           NEW f \in RowsOf(k, "swap"), f.version = e.version
    PROVE  Replace(roster.persons[s], y, x) = e.before
<1>1. e \in roster.log /\ e.shift = s /\ f \in roster.ledger /\ f.doc = k /\ f.type = "swap"
  BY DEF LogOf, RowsOf
<1>2. /\ RosterTypeOK(roster) /\ LogExplains(roster) /\ LogMatchesLedger(roster)
      /\ \A g \in roster.ledger : Fits(g)
  BY DEF DocumentInv, FlowInv, JournalInv, Journals, TypeOK, LedgerInv
<1>3. e.after = roster.persons[s]
  <2>1. /\ \A g, h \in LogOf(roster, s) : g.version = h.version => g = h
        /\ \E g \in LogOf(roster, s) : Latest(LogOf(roster, s), g) /\ g.after = roster.persons[s]
    BY <1>2 DEF LogExplains, Chain
  <2>2. PICK g \in LogOf(roster, s) : Latest(LogOf(roster, s), g) /\ g.after = roster.persons[s]
    BY <2>1
  <2>3. g.version <= e.version /\ e.version <= g.version /\ g.version \in Nat /\ e.version \in Nat
    BY <1>2, <2>2 DEF Latest, LogOf, RosterTypeOK
  <2> QED
    BY <2>1, <2>2, <2>3
<1>4. /\ e.before \in Seq(People) /\ e.after \in Seq(People)
      /\ DOMAIN e.before = DOMAIN e.after
  <2>1. e.before \in Seq(People) /\ e.after \in Seq(People) /\ Len(e.before) = Len(e.after)
    BY <1>1 DEF Attributed
  <2> QED
    BY <2>1
<1>5. Distinct(e.after)
  BY <1>2, <1>3 DEF RosterTypeOK
<1> DEFINE W == { <<g.shift, g.before, g.after>> : g \in { h \in roster.ledger : h.version = e.version } }
           C == { i \in DOMAIN e.after : e.before[i] # e.after[i] }
<1>6. W = { <<e.shift, e.before[i], e.after[i]>> : i \in C }
  BY <1>1, <1>2 DEF LogMatchesLedger
<1>7. \A z \in W : z = <<s, x, y>>
  <2> SUFFICES ASSUME NEW g \in roster.ledger, g.version = e.version
               PROVE  <<g.shift, g.before, g.after>> = <<s, x, y>>
    OBVIOUS
  <2>1. g.type = "swap" /\ g.doc = k
    BY <1>1 DEF Attributed
  <2>2. <<g.shift, g.before, g.after>> \in Exchanged(k)
    <3>1. Fits(g)
      BY <1>2
    <3> QED
      BY <2>1, <3>1 DEF Fits, ByHand, Triple
  <2>3. <<g.shift, g.before, g.after>> \in W
    OBVIOUS
  <2> HIDE DEF W
  <2>4. PICK i \in C : <<g.shift, g.before, g.after>> = <<e.shift, e.before[i], e.after[i]>>
    BY <1>6, <2>3
  <2>5. g.shift = s
    BY <1>1, <2>4
  <2> QED
    BY <2>2, <2>5
<1>8. W # {}
  BY <1>1
<1> HIDE DEF W
<1>9. \A i \in C : e.before[i] = x /\ e.after[i] = y
  BY <1>6, <1>7
<1>10. PICK n \in C : TRUE
  BY <1>6, <1>8
<1>11. \A i \in DOMAIN e.after : e.before[i] = IF e.after[i] = y THEN x ELSE e.after[i]
  <2> SUFFICES ASSUME NEW i \in DOMAIN e.after
               PROVE  e.before[i] = IF e.after[i] = y THEN x ELSE e.after[i]
    OBVIOUS
  <2>1. CASE i \in C
    BY <1>9, <2>1
  <2>2. CASE i \notin C
    <3>1. e.after[i] # y
      BY <1>5, <1>9, <1>10, <2>2 DEF Distinct
    <3> QED
      BY <2>2, <3>1
  <2> QED
    BY <2>1, <2>2
<1> QED
  <2>1. Replace(e.after, y, x) = [i \in DOMAIN e.after |-> IF e.after[i] = y THEN x ELSE e.after[i]]
    BY DEF Replace
  <2>2. e.before = [i \in DOMAIN e.before |-> e.before[i]]
    BY <1>4
  <2> QED
    BY <1>3, <1>4, <1>11, <2>1, <2>2

\* Cancelling an effective swap restores each of its shifts to the staff it had
\* before the swap, whenever nothing else changed that shift in between.
THEOREM CancelUndoesUntouched == FlowSpec => CancelUndoesUntouchedSwap
<1>1. FlowSpec => []Attributed(roster)
  <2>1. FlowInit => Attributed(roster)
    BY DEF FlowInit, SwapInit, RosterInit, Attributed
  <2>2. FlowInv /\ Attributed(roster) /\ [FlowNext]_flowVars => Attributed(roster)'
    BY StepAttributed
  <2> QED
    BY <2>1, <2>2, FlowInvariant, PTL DEF FlowSpec
<1>2. DocumentInv /\ Attributed(roster) /\ [FlowNext]_flowVars =>
        [ \A k \in Swaps : \A s \in Touches(k) :
            swaps[k].status = "effective" /\ swaps'[k].status = "cancelled" =>
              \A e \in LogOf(roster, s) :
                 /\ Latest(LogOf(roster, s), e)
                 /\ \E f \in RowsOf(k, "swap") : f.version = e.version
                 => Staff(s)' = e.before ]_swapVars
  <2> SUFFICES ASSUME DocumentInv, Attributed(roster), [FlowNext]_flowVars,
                      NEW k \in Swaps, NEW s \in Touches(k),
                      swaps[k].status = "effective", swaps'[k].status = "cancelled",
                      NEW e \in LogOf(roster, s), Latest(LogOf(roster, s), e),
                      NEW f \in RowsOf(k, "swap"), f.version = e.version
               PROVE  roster'.persons[s] = e.before
    BY DEF Staff
  <2> DEFINE a == swaps[k].applicant
             b == swaps[k].target
  <2>1. TypeOK /\ SwapShape /\ FlowInv
    BY DEF DocumentInv, FlowInv, JournalInv
  <2>2. CancelSwap(k)
    <3>1. KeepsSwap(k)
      BY <2>1, StepKeepsDocuments
    <3> QED
      BY <3>1 DEF KeepsSwap, Settled
  <2>3. roster' = Exchange(k, b, a, "swap_cancel")
    BY <2>2 DEF CancelSwap, SetRoster, Undo
  <2>4. /\ swaps[k].source \in Shifts /\ swaps[k].tshift # swaps[k].source
        /\ swaps[k].tshift \in Shifts \cup {NoShift}
        /\ roster'.persons[swaps[k].source] = Replace(roster.persons[swaps[k].source], b, a)
        /\ swaps[k].tshift # NoShift =>
             roster'.persons[swaps[k].tshift] = Replace(roster.persons[swaps[k].tshift], a, b)
    BY <2>1, <2>3, ExchangeStaff
  <2>5. a # b
    BY DEF DocumentInv, Partners
  <2>6. Exchanged(k) = { <<u, a, b>> : u \in {swaps[k].source} }
                       \cup { <<u, b, a>> : u \in {swaps[k].tshift} \ {NoShift} }
    BY DEF Exchanged, ExchangeFor
  <2>7. CASE s = swaps[k].source
    <3>1. \A z \in Exchanged(k) : z[1] = s => z = <<s, a, b>>
      BY <2>4, <2>6, <2>7
    <3>2. s \in Shifts /\ roster'.persons[s] = Replace(roster.persons[s], b, a)
      BY <2>4, <2>7
    <3> HIDE DEF a, b
    <3>3. Replace(roster.persons[s], b, a) = e.before
      BY <2>5, <3>1, <3>2, LastChangeUndone
    <3> QED
      BY <3>2, <3>3
  <2>8. CASE s = swaps[k].tshift /\ s # NoShift
    <3>1. \A z \in Exchanged(k) : z[1] = s => z = <<s, b, a>>
      BY <2>4, <2>6, <2>8
    <3>2. s \in Shifts /\ roster'.persons[s] = Replace(roster.persons[s], a, b)
      BY <2>4, <2>8
    <3> HIDE DEF a, b
    <3>3. Replace(roster.persons[s], a, b) = e.before
      BY <2>5, <3>1, <3>2, LastChangeUndone
    <3> QED
      BY <3>2, <3>3
  <2> QED
    BY <2>7, <2>8 DEF Touches
<1> QED
  BY <1>1, <1>2, DocumentInvariant, PTL DEF FlowSpec, CancelUndoesUntouchedSwap
=============================================================================
