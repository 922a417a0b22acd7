---------------------------- MODULE RosterProofs ----------------------------
(***************************************************************************)
(* Proofs about Roster.  The lemmas say what one call of                   *)
(* update_schedule_shift_persons preserves, whoever calls it; the theorems *)
(* apply them to the room without documents.                               *)
(***************************************************************************)
EXTENDS Roster, SequenceTheorems, TLAPS

-----------------------------------------------------------------------------
\* The plan is a legal roster.
LEMMA BaselineIsStaff ==
    ASSUME NEW s \in Shifts
    PROVE  /\ Baseline[s] \in Seq(People)
           /\ Distinct(Baseline[s])
<1>1. Baseline[s] \in Seq(People)
  BY RosterAssumption
<1>2. Distinct(Baseline[s])
  BY RosterAssumption DEF Distinct
<1> QED
  BY <1>1, <1>2

\* The new rows of an update carry its shift and the version it moves to.
LEMMA NewLedgerRows ==
    ASSUME NEW r, NEW s, NEW ids, NEW type, NEW doc,
           NEW e \in LedgerRows(r, s, ids, type, doc)
    PROVE  e.shift = s /\ e.version = r.version + 1 /\ e.type = type
BY DEF LedgerRows, LedgerRow

\* Any accepted update keeps the roster well formed.
LEMMA UpdateTypeOK ==
    ASSUME NEW r, RosterTypeOK(r),
           NEW s \in Shifts, NEW ids \in Seq(People), NEW allowed, NEW type, NEW doc,
           MayUpdate(r, s, ids, allowed)
    PROVE  RosterTypeOK(Update(r, s, ids, type, doc))
<1> DEFINE u == Update(r, s, ids, type, doc)
<1>1. CASE ids = r.persons[s]
  BY <1>1 DEF Update
<1>2. CASE ids # r.persons[s]
  <2>1. /\ u.persons = [r.persons EXCEPT ![s] = ids]
        /\ u.log = r.log \cup {LogRow(r, s, ids)}
        /\ u.ledger = r.ledger \cup LedgerRows(r, s, ids, type, doc)
        /\ u.version = r.version + 1
    BY <1>2 DEF Update
  <2>2. u.persons \in [Shifts -> Seq(People)]
    BY <2>1 DEF RosterTypeOK
  <2>3. \A t \in Shifts : Len(u.persons[t]) = Len(Baseline[t]) /\ Distinct(u.persons[t])
    BY <2>1 DEF RosterTypeOK, MayUpdate
  <2>4. u.version \in Nat /\ u.version >= 2 /\ r.version \in Nat
    BY <2>1 DEF RosterTypeOK
  <2>5. \A e \in u.log : e.version \in 2..u.version /\ e.shift \in Shifts
    BY <2>1, <2>4 DEF RosterTypeOK, LogRow
  <2>6. \A e \in u.ledger : e.version \in 2..u.version /\ e.shift \in Shifts
    <3>1. \A e \in r.ledger : e.version \in 2..u.version /\ e.shift \in Shifts
      BY <2>1, <2>4 DEF RosterTypeOK
    <3>2. \A e \in LedgerRows(r, s, ids, type, doc) :
             e.version \in 2..u.version /\ e.shift \in Shifts
      BY <2>1, <2>4, NewLedgerRows
    <3> QED
      BY <2>1, <3>1, <3>2
  <2> QED
    BY <2>2, <2>3, <2>4, <2>5, <2>6 DEF RosterTypeOK
<1> QED
  BY <1>1, <1>2

-----------------------------------------------------------------------------
(***************************************************************************)
(* Type correctness.                                                       *)
(***************************************************************************)
LEMMA InitTypeOK == RosterInit => TypeOK
<1> SUFFICES ASSUME RosterInit PROVE TypeOK
  OBVIOUS
<1>1. \A s \in Shifts : Len(Baseline[s]) = Len(Baseline[s]) /\ Distinct(Baseline[s])
  BY BaselineIsStaff
<1>2. Baseline \in [Shifts -> Seq(People)]
  BY BaselineIsStaff, RosterAssumption
<1>3. RosterTypeOK(roster)
  BY <1>1, <1>2 DEF RosterInit, RosterTypeOK
<1> QED
  BY <1>3, RosterAssumption DEF RosterInit, TypeOK

LEMMA StepTypeOK == TypeOK /\ [RosterNext]_rosterVars => TypeOK'
<1> SUFFICES ASSUME TypeOK, [RosterNext]_rosterVars PROVE TypeOK'
  OBVIOUS
<1> USE DEF TypeOK
<1>1. ASSUME NEW s \in Shifts, NEW ids \in Payloads, EditShift(s, ids)
      PROVE  TypeOK'
  <2>1. ids \in Seq(People)
    BY RosterAssumption
  <2>2. RosterTypeOK(roster')
    BY <1>1, <2>1, UpdateTypeOK DEF EditShift, SetRoster
  <2> QED
    BY <1>1, <2>2 DEF EditShift, RosterTypeOK
<1>2. ASSUME NEW s \in Shifts, NEW ids \in Payloads, CorrectHistory(s, ids)
      PROVE  TypeOK'
  <2>1. ids \in Seq(People)
    BY RosterAssumption
  <2>2. RosterTypeOK(roster')
    BY <1>2, <2>1, UpdateTypeOK DEF CorrectHistory, SetRoster
  <2>3. flagged' \subseteq { DutyMonth[t] : t \in Shifts }
    BY <1>2 DEF CorrectHistory
  <2> QED
    BY <1>2, <2>2, <2>3 DEF CorrectHistory, RosterTypeOK
<1>3. ASSUME NEW p \in People, NEW standing \in Standings, ChangePerson(p, standing)
      PROVE  TypeOK'
  BY <1>3 DEF ChangePerson, RosterTypeOK
<1>4. CASE Midnight
  <2>1. today' \in 0..LastDay
    BY <1>4, RosterAssumption DEF Midnight
  <2> QED
    BY <1>4, <2>1 DEF Midnight, RosterTypeOK
<1>5. CASE UNCHANGED rosterVars
  BY <1>5 DEF rosterVars, RosterTypeOK
<1> QED
  BY <1>1, <1>2, <1>3, <1>4, <1>5 DEF RosterNext

\* Every shift keeps the head count of its plan, without a duplicate, whatever
\* sequence of edits and corrections update_schedule_shift_persons accepts.
THEOREM RosterTypeCorrect == RosterSpec => []TypeOK
<1>1. RosterInit => TypeOK
  BY InitTypeOK
<1>2. TypeOK /\ [RosterNext]_rosterVars => TypeOK'
  BY StepTypeOK
<1> QED
  BY <1>1, <1>2, PTL DEF RosterSpec

-----------------------------------------------------------------------------
(***************************************************************************)
(* The two journals explain the roster.                                    *)
(***************************************************************************)
\* A chain of rows is continued by a row of a higher version that starts where
\* the chain ends.
LEMMA ChainGrows ==
    ASSUME NEW first, NEW rows, NEW last, NEW e,
           Chain(first, rows, last),
           e.version \in Nat,
           \A f \in rows : f.version \in Nat /\ f.version < e.version,
           e.before = last
    PROVE  Chain(first, rows \cup {e}, e.after)
<1> DEFINE more == rows \cup {e}
<1>1. Latest(more, e)
  BY DEF Latest
<1>2. Earlier(more, e) = rows
  BY DEF Earlier
<1>3. \A f \in rows : Earlier(more, f) = Earlier(rows, f)
  BY DEF Earlier
<1>4. \/ Earlier(more, e) = {} /\ e.before = first
      \/ \E f \in more : Latest(Earlier(more, e), f) /\ f.after = e.before
  BY <1>2 DEF Chain
<1>5. \A f \in rows :
         \/ Earlier(more, f) = {} /\ f.before = first
         \/ \E g \in more : Latest(Earlier(more, f), g) /\ g.after = f.before
  BY <1>3 DEF Chain
<1>6. \A f, g \in more : f.version = g.version => f = g
  BY DEF Chain
<1> QED
  BY <1>1, <1>4, <1>5, <1>6 DEF Chain

\* The ledger rows of one position after an update: one more, when the person
\* of that position changed.
LEMMA LedgerOfUpdate ==
    ASSUME NEW r, RosterTypeOK(r),
           NEW s \in Shifts, NEW ids \in Seq(People), NEW allowed, NEW type, NEW doc,
           MayUpdate(r, s, ids, allowed), ids # r.persons[s],
           NEW t \in Shifts, NEW i \in DOMAIN Baseline[t]
    PROVE  LedgerOf(Update(r, s, ids, type, doc), t, i) =
             IF t = s /\ i \in Changed(r, s, ids)
             THEN LedgerOf(r, t, i) \cup {LedgerRow(r, s, ids, i, type, doc)}
             ELSE LedgerOf(r, t, i)
<1> DEFINE u == Update(r, s, ids, type, doc)
           new == LedgerRow(r, s, ids, i, type, doc)
           rows == LedgerRows(r, s, ids, type, doc)
           mine == { e \in rows : e.shift = t /\ e.original = Baseline[t][i] }
<1>1. LedgerOf(u, t, i) = LedgerOf(r, t, i) \cup mine
  BY DEF LedgerOf, Update
<1>2. DOMAIN ids = DOMAIN Baseline[s]
  <2>1. Len(ids) = Len(Baseline[s])
    BY DEF MayUpdate, RosterTypeOK
  <2>2. ids \in Seq(People) /\ Baseline[s] \in Seq(People)
    BY BaselineIsStaff
  <2> QED
    BY <2>1, <2>2
<1>3. ASSUME t # s
      PROVE  mine = {}
  BY <1>3, NewLedgerRows
<1>4. ASSUME t = s, NEW e \in mine
      PROVE  e = new /\ i \in Changed(r, s, ids)
  <2>1. PICK k \in Changed(r, s, ids) : e = LedgerRow(r, s, ids, k, type, doc)
    BY <1>4 DEF LedgerRows
  <2>2. Baseline[s][k] = Baseline[s][i]
    BY <1>4, <2>1 DEF LedgerRow
  <2>3. k = i
    BY <1>2, <1>4, <2>2, RosterAssumption DEF Changed
  <2> QED
    BY <2>1, <2>3
<1>5. ASSUME t = s, i \in Changed(r, s, ids)
      PROVE  new \in mine
  BY <1>5 DEF LedgerRows, LedgerRow
<1> QED
  BY <1>1, <1>3, <1>4, <1>5

LEMMA UpdateLedgerExplains ==
    ASSUME NEW r, RosterTypeOK(r), LedgerExplains(r),
           NEW s \in Shifts, NEW ids \in Seq(People), NEW allowed, NEW type, NEW doc,
           MayUpdate(r, s, ids, allowed)
    PROVE  LedgerExplains(Update(r, s, ids, type, doc))
<1> DEFINE u == Update(r, s, ids, type, doc)
<1>1. CASE ids = r.persons[s]
  BY <1>1 DEF Update
<1>2. CASE ids # r.persons[s]
  <2> SUFFICES ASSUME NEW t \in Shifts, NEW i \in DOMAIN Baseline[t]
               PROVE  Chain(Baseline[t][i], LedgerOf(u, t, i), u.persons[t][i])
    BY DEF LedgerExplains
  <2> DEFINE new == LedgerRow(r, s, ids, i, type, doc)
  <2>1. u.persons = [r.persons EXCEPT ![s] = ids] /\ r.persons \in [Shifts -> Seq(People)]
    BY <1>2 DEF Update, RosterTypeOK
  <2>2. Chain(Baseline[t][i], LedgerOf(r, t, i), r.persons[t][i])
    BY DEF LedgerExplains
  <2>3. CASE t = s /\ i \in Changed(r, s, ids)
    <3>1. LedgerOf(u, t, i) = LedgerOf(r, t, i) \cup {new}
      BY <1>2, <2>3, LedgerOfUpdate
    <3>2. new.version = r.version + 1 /\ r.version \in Nat /\ new.version \in Nat
      BY DEF RosterTypeOK, LedgerRow
    <3>3. \A f \in LedgerOf(r, t, i) : f.version \in Nat /\ f.version < new.version
      BY <3>2 DEF RosterTypeOK, LedgerOf
    <3>4. new.before = r.persons[t][i] /\ new.after = u.persons[t][i]
      BY <2>1, <2>3 DEF LedgerRow
    <3> HIDE DEF new
    <3>5. Chain(Baseline[t][i], LedgerOf(r, t, i) \cup {new}, new.after)
      BY <2>2, <3>2, <3>3, <3>4, ChainGrows
    <3> QED
      BY <3>1, <3>4, <3>5
  <2>4. CASE ~(t = s /\ i \in Changed(r, s, ids))
    <3>1. LedgerOf(u, t, i) = LedgerOf(r, t, i)
      BY <1>2, <2>4, LedgerOfUpdate
    <3>2. u.persons[t][i] = r.persons[t][i]
      <4>1. CASE t # s
        BY <2>1, <4>1
      <4>2. CASE t = s
        <5>1. Len(ids) = Len(Baseline[s]) /\ Baseline[s] \in Seq(People)
          BY BaselineIsStaff DEF MayUpdate, RosterTypeOK
        <5>2. i \in DOMAIN ids
          BY <4>2, <5>1
        <5> QED
          BY <2>1, <2>4, <4>2, <5>2 DEF Changed
      <4> QED
        BY <4>1, <4>2
    <3> QED
      BY <2>2, <3>1, <3>2
  <2> QED
    BY <2>3, <2>4
<1> QED
  BY <1>1, <1>2

LEMMA UpdateLogExplains ==
    ASSUME NEW r, RosterTypeOK(r), LogExplains(r),
           NEW s \in Shifts, NEW ids, NEW type, NEW doc
    PROVE  LogExplains(Update(r, s, ids, type, doc))
<1> DEFINE u == Update(r, s, ids, type, doc)
           new == LogRow(r, s, ids)
<1>1. CASE ids = r.persons[s]
  BY <1>1 DEF Update
<1>2. CASE ids # r.persons[s]
  <2> SUFFICES ASSUME NEW t \in Shifts
               PROVE  Chain(Baseline[t], LogOf(u, t), u.persons[t])
    BY DEF LogExplains
  <2>1. /\ u.persons = [r.persons EXCEPT ![s] = ids] /\ r.persons \in [Shifts -> Seq(People)]
        /\ u.log = r.log \cup {new}
    BY <1>2 DEF Update, RosterTypeOK
  <2>2. Chain(Baseline[t], LogOf(r, t), r.persons[t])
    BY DEF LogExplains
  <2>3. /\ new.version = r.version + 1 /\ r.version \in Nat /\ new.version \in Nat
        /\ new.shift = s /\ new.before = r.persons[s] /\ new.after = ids
    BY DEF RosterTypeOK, LogRow
  <2> HIDE DEF new
  <2>4. CASE t = s
    <3>1. LogOf(u, t) = LogOf(r, t) \cup {new}
      BY <2>1, <2>3, <2>4 DEF LogOf
    <3>2. \A f \in LogOf(r, t) : f.version \in Nat /\ f.version < new.version
      BY <2>3 DEF RosterTypeOK, LogOf
    <3>3. Chain(Baseline[t], LogOf(r, t) \cup {new}, new.after)
      BY <2>2, <2>3, <2>4, <3>2, ChainGrows
    <3>4. u.persons[t] = new.after
      BY <2>1, <2>3, <2>4
    <3> QED
      BY <3>1, <3>3, <3>4
  <2>5. CASE t # s
    <3>1. LogOf(u, t) = LogOf(r, t)
      BY <2>1, <2>3, <2>5 DEF LogOf
    <3>2. u.persons[t] = r.persons[t]
      BY <2>1, <2>5
    <3> QED
      BY <2>2, <3>1, <3>2
  <2> QED
    BY <2>4, <2>5
<1> QED
  BY <1>1, <1>2

LEMMA UpdateLogMatchesLedger ==
    ASSUME NEW r, RosterTypeOK(r), LogMatchesLedger(r),
           NEW s \in Shifts, NEW ids, NEW type, NEW doc
    PROVE  LogMatchesLedger(Update(r, s, ids, type, doc))
<1> DEFINE u == Update(r, s, ids, type, doc)
           new == LogRow(r, s, ids)
           rows == LedgerRows(r, s, ids, type, doc)
           LedgerAt(l, v) == { <<f.shift, f.before, f.after>> : f \in { g \in l : g.version = v } }
           Changes(e) == { <<e.shift, e.before[i], e.after[i]>> :
                              i \in { k \in DOMAIN e.after : e.before[k] # e.after[k] } }
<1>1. CASE ids = r.persons[s]
  BY <1>1 DEF Update
<1>2. CASE ids # r.persons[s]
  <2>1. /\ u.log = r.log \cup {new} /\ u.ledger = r.ledger \cup rows
        /\ u.version = r.version + 1
    BY <1>2 DEF Update
  <2>2. /\ new.version = r.version + 1 /\ new.shift = s
        /\ new.before = r.persons[s] /\ new.after = ids
    BY DEF LogRow
  <2>3. r.version \in Nat \ {0} /\ \A e \in r.log \cup r.ledger : e.version \in 2..r.version
    BY DEF RosterTypeOK
  <2>4. \A f \in rows : f.version = r.version + 1
    BY NewLedgerRows
  <2>5. { e.version : e \in u.log } = 2..u.version
    <3>1. { e.version : e \in u.log } = { e.version : e \in r.log } \cup {new.version}
      BY <2>1
    <3>2. { e.version : e \in r.log } = 2..r.version
      BY DEF LogMatchesLedger
    <3>3. 2..u.version = (2..r.version) \cup {r.version + 1}
      BY <2>1, <2>3
    <3> QED
      BY <2>2, <3>1, <3>2, <3>3
  <2>6. \A e, f \in u.log : e.version = f.version => e = f
    <3>1. \A e \in r.log : e.version # new.version
      BY <2>2, <2>3
    <3> QED
      BY <2>1, <3>1 DEF LogMatchesLedger
  <2>7. \A e \in u.log : LedgerAt(u.ledger, e.version) = Changes(e)
    <3>1. ASSUME NEW e \in r.log
          PROVE  LedgerAt(u.ledger, e.version) = Changes(e)
      <4>1. { g \in u.ledger : g.version = e.version } = { g \in r.ledger : g.version = e.version }
        BY <2>1, <2>3, <2>4
      <4>2. LedgerAt(r.ledger, e.version) = Changes(e)
        BY DEF LogMatchesLedger
      <4> QED
        BY <4>1, <4>2
    <3>2. LedgerAt(u.ledger, new.version) = Changes(new)
      <4>1. { g \in u.ledger : g.version = new.version } = rows
        BY <2>1, <2>2, <2>3, <2>4
      <4>2. { <<f.shift, f.before, f.after>> : f \in rows }
              = { <<s, r.persons[s][i], ids[i]>> :
                     i \in { k \in DOMAIN ids : r.persons[s][k] # ids[k] } }
        <5> DEFINE D == Changed(r, s, ids)
        <5>1. rows = { LedgerRow(r, s, ids, i, type, doc) : i \in D }
          BY DEF LedgerRows
        <5>2. \A i \in D : LET f == LedgerRow(r, s, ids, i, type, doc)
                           IN  f.shift = s /\ f.before = r.persons[s][i] /\ f.after = ids[i]
          BY DEF LedgerRow
        <5>3. D = { k \in DOMAIN ids : r.persons[s][k] # ids[k] }
          BY DEF Changed
        <5> HIDE DEF D, rows
        <5> QED
          BY <5>1, <5>2, <5>3
      <4> QED
        BY <2>2, <4>1, <4>2
    <3> QED
      BY <2>1, <3>1, <3>2
  <2> QED
    BY <2>5, <2>6, <2>7 DEF LogMatchesLedger
<1> QED
  BY <1>1, <1>2

\* The inductive invariant: the journals explain the roster as long as no row is
\* ahead of the schedule's version, which TypeOK says.
Journals(r) == LedgerExplains(r) /\ LogExplains(r) /\ LogMatchesLedger(r)
JournalInv == TypeOK /\ Journals(roster)

LEMMA InitJournals == RosterInit => Journals(roster)
<1> SUFFICES ASSUME RosterInit PROVE Journals(roster)
  OBVIOUS
<1>1. /\ roster.persons = Baseline /\ roster.log = {} /\ roster.ledger = {}
      /\ roster.version = 1
  BY DEF RosterInit
<1>2. \A first : Chain(first, {}, first)
  BY DEF Chain
<1>3. LedgerExplains(roster)
  BY <1>1, <1>2 DEF LedgerExplains, LedgerOf
<1>4. LogExplains(roster)
  BY <1>1, <1>2 DEF LogExplains, LogOf
<1>5. LogMatchesLedger(roster)
  BY <1>1 DEF LogMatchesLedger
<1> QED
  BY <1>3, <1>4, <1>5 DEF Journals

\* Any accepted update keeps the two journals in agreement with the roster.
LEMMA UpdateJournals ==
    ASSUME NEW r, RosterTypeOK(r), Journals(r),
           NEW s \in Shifts, NEW ids \in Seq(People), NEW allowed, NEW type, NEW doc,
           MayUpdate(r, s, ids, allowed)
    PROVE  Journals(Update(r, s, ids, type, doc))
BY UpdateLedgerExplains, UpdateLogExplains, UpdateLogMatchesLedger DEF Journals

LEMMA StepJournals == JournalInv /\ [RosterNext]_rosterVars => Journals(roster')
<1> SUFFICES ASSUME JournalInv, [RosterNext]_rosterVars PROVE Journals(roster')
  OBVIOUS
<1>1. RosterTypeOK(roster) /\ Journals(roster)
  BY DEF JournalInv, TypeOK
<1>2. ASSUME NEW s \in Shifts, NEW ids \in Payloads,
             EditShift(s, ids) \/ CorrectHistory(s, ids)
      PROVE  Journals(roster')
  <2>1. ids \in Seq(People)
    BY RosterAssumption
  <2>2. CASE EditShift(s, ids)
    BY <1>1, <2>1, <2>2, UpdateJournals DEF EditShift, SetRoster
  <2>3. CASE CorrectHistory(s, ids)
    BY <1>1, <2>1, <2>3, UpdateJournals DEF CorrectHistory, SetRoster
  <2> QED
    BY <1>2, <2>2, <2>3
<1>3. ASSUME UNCHANGED roster
      PROVE  Journals(roster')
  BY <1>1, <1>3
<1> QED
  BY <1>2, <1>3 DEF RosterNext, ChangePerson, Midnight, rosterVars

LEMMA JournalsInvariant == RosterSpec => []JournalInv
<1>1. RosterInit => JournalInv
  BY InitTypeOK, InitJournals DEF JournalInv
<1>2. JournalInv /\ [RosterNext]_rosterVars => JournalInv'
  <2> SUFFICES ASSUME JournalInv, [RosterNext]_rosterVars PROVE JournalInv'
    OBVIOUS
  <2>1. TypeOK'
    BY StepTypeOK DEF JournalInv
  <2>2. Journals(roster')
    BY StepJournals
  <2> QED
    BY <2>1, <2>2 DEF JournalInv, Journals, LedgerExplains, LogExplains, LogMatchesLedger,
                      LedgerOf, LogOf, Chain, Latest, Earlier
<1> QED
  BY <1>1, <1>2, PTL DEF RosterSpec

\* The duty ledger alone reconstructs the final roster from the plan, position
\* by position, for any number of edits and corrections of any room.
THEOREM LedgerReconstructsRoster == RosterSpec => []LedgerExplainsStaff
<1>1. JournalInv => LedgerExplainsStaff
  BY DEF JournalInv, Journals, LedgerExplainsStaff
<1> QED
  BY <1>1, JournalsInvariant, PTL

\* The change log reconstructs it too, its versions are 2, 3, ... without a gap,
\* and each of its rows records the same changes as the ledger rows beside it.
THEOREM JournalsAlwaysAgree == RosterSpec => []JournalsAgree
<1>1. JournalInv => JournalsAgree
  BY DEF JournalInv, Journals, JournalsAgree
<1> QED
  BY <1>1, JournalsInvariant, PTL

-----------------------------------------------------------------------------
(***************************************************************************)
(* History.                                                                *)
(***************************************************************************)
\* The inductive part of HistoryIsFrozen: flags are never taken back.
CorrectionsAreFlagged ==
    \A e \in roster.ledger :
        e.type = "historical_correction" => DutyMonth[e.shift] \in flagged
HistoryInv == TypeOK /\ CorrectionsAreFlagged

\* What a step does to the ledger: nothing, a manual change of a day to come, or
\* a correction of a day gone by together with its flag.
LEMMA LedgerSteps ==
    ASSUME TypeOK, RosterNext
    PROVE  \/ UNCHANGED roster /\ flagged \subseteq flagged'
           \/ \E s \in Shifts : \E ids :
                 /\ ~Past(s)
                 /\ roster' = Update(roster, s, ids, "manual", NoDoc)
                 /\ flagged' = flagged
           \/ \E s \in Shifts : \E ids \in Seq(People) :
                 /\ Len(ids) = Len(Staff(s)) /\ ids # Staff(s)
                 /\ roster' = Update(roster, s, ids, "historical_correction", NoDoc)
                 /\ flagged' = flagged \cup {DutyMonth[s]}
<1>1. ASSUME NEW s \in Shifts, NEW ids \in Payloads, EditShift(s, ids)
      PROVE  /\ ~Past(s)
             /\ roster' = Update(roster, s, ids, "manual", NoDoc)
             /\ flagged' = flagged
  BY <1>1 DEF EditShift, SetRoster
<1>2. ASSUME NEW s \in Shifts, NEW ids \in Payloads, CorrectHistory(s, ids)
      PROVE  /\ ids \in Seq(People) /\ Len(ids) = Len(Staff(s)) /\ ids # Staff(s)
             /\ roster' = Update(roster, s, ids, "historical_correction", NoDoc)
             /\ flagged' = flagged \cup {DutyMonth[s]}
  BY <1>2, RosterAssumption DEF CorrectHistory, SetRoster, MayUpdate, Staff
<1> QED
  BY <1>1, <1>2 DEF RosterNext, ChangePerson, Midnight

LEMMA StepHistory ==
    ASSUME HistoryInv, RosterNext
    PROVE  /\ \A s \in Shifts : Past(s) /\ Staff(s)' # Staff(s) =>
                \E e \in roster'.ledger \ roster.ledger :
                    e.shift = s /\ e.type = "historical_correction"
           /\ CorrectionsAreFlagged'
<1> DEFINE Frozen == \A s \in Shifts : Past(s) /\ Staff(s)' # Staff(s) =>
                        \E e \in roster'.ledger \ roster.ledger :
                            e.shift = s /\ e.type = "historical_correction"
<1>1. /\ TypeOK /\ CorrectionsAreFlagged
      /\ roster.persons \in [Shifts -> Seq(People)]
  BY DEF HistoryInv, TypeOK, RosterTypeOK
<1>2. CASE UNCHANGED roster /\ flagged \subseteq flagged'
  BY <1>1, <1>2 DEF CorrectionsAreFlagged, Staff
<1>3. ASSUME NEW s \in Shifts, NEW ids, ~Past(s), flagged' = flagged,
             roster' = Update(roster, s, ids, "manual", NoDoc)
      PROVE  Frozen /\ CorrectionsAreFlagged'
  <2>1. \A e \in roster'.ledger : e \in roster.ledger \/ e.type = "manual"
    BY <1>3, NewLedgerRows DEF Update
  <2>2. \A t \in Shifts : t # s => roster'.persons[t] = roster.persons[t]
    BY <1>1, <1>3 DEF Update
  <2>3. Frozen
    BY <1>3, <2>2 DEF Staff
  <2>4. CorrectionsAreFlagged'
    BY <1>1, <1>3, <2>1 DEF CorrectionsAreFlagged
  <2> QED
    BY <2>3, <2>4
<1>4. ASSUME NEW s \in Shifts, NEW ids \in Seq(People),
             Len(ids) = Len(Staff(s)), ids # Staff(s),
             roster' = Update(roster, s, ids, "historical_correction", NoDoc),
             flagged' = flagged \cup {DutyMonth[s]}
      PROVE  Frozen /\ CorrectionsAreFlagged'
  <2> DEFINE rows == LedgerRows(roster, s, ids, "historical_correction", NoDoc)
  <2>1. /\ roster'.ledger = roster.ledger \cup rows
        /\ roster'.persons = [roster.persons EXCEPT ![s] = ids]
    BY <1>4 DEF Update, Staff
  <2>2. \A t \in Shifts : t # s => roster'.persons[t] = roster.persons[t]
    BY <1>1, <2>1
  <2>3. PICK k \in DOMAIN ids : roster.persons[s][k] # ids[k]
    <3>1. Staff(s) \in Seq(People)
      BY <1>1 DEF Staff
    <3> QED
      BY <1>4, <3>1 DEF Staff
  <2>4. LedgerRow(roster, s, ids, k, "historical_correction", NoDoc) \in rows
    BY <2>3 DEF LedgerRows, Changed
  <2>5. PICK e \in rows : TRUE
    BY <2>4
  <2>6. e.version = roster.version + 1 /\ e.shift = s /\ e.type = "historical_correction"
    BY NewLedgerRows
  <2>7. e \notin roster.ledger
    BY <1>1, <2>6 DEF TypeOK, RosterTypeOK
  <2>8. Frozen
    BY <2>1, <2>2, <2>6, <2>7 DEF Staff
  <2>9. CorrectionsAreFlagged'
    BY <1>1, <1>4, <2>1, NewLedgerRows DEF CorrectionsAreFlagged
  <2> QED
    BY <2>8, <2>9
<1> QED
  BY <1>1, <1>2, <1>3, <1>4, LedgerSteps

\* The staff of a day gone by is changed by a historical correction only, and
\* every corrected month stays flagged for recalculation.
THEOREM HistoryStaysFrozen == RosterSpec => HistoryIsFrozen
<1>1. RosterInit => HistoryInv
  BY InitTypeOK DEF RosterInit, HistoryInv, CorrectionsAreFlagged
<1>2. HistoryInv /\ [RosterNext]_rosterVars => HistoryInv'
  <2> SUFFICES ASSUME HistoryInv, [RosterNext]_rosterVars PROVE HistoryInv'
    OBVIOUS
  <2>1. TypeOK'
    BY StepTypeOK DEF HistoryInv
  <2>2. CASE RosterNext
    BY <2>1, <2>2, StepHistory DEF HistoryInv
  <2>3. CASE UNCHANGED rosterVars
    BY <2>1, <2>3 DEF HistoryInv, CorrectionsAreFlagged, rosterVars
  <2> QED
    BY <2>2, <2>3
<1>3. HistoryInv /\ [RosterNext]_rosterVars =>
         [ /\ \A s \in Shifts : Past(s) /\ Staff(s)' # Staff(s) =>
                  \E e \in roster'.ledger \ roster.ledger :
                      e.shift = s /\ e.type = "historical_correction"
           /\ \A e \in roster'.ledger :
                  e.type = "historical_correction" => DutyMonth[e.shift] \in flagged' ]_rosterVars
  BY StepHistory DEF CorrectionsAreFlagged
<1> QED
  BY <1>1, <1>2, <1>3, PTL DEF RosterSpec, HistoryIsFrozen
=============================================================================
