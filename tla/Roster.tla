------------------------------- MODULE Roster -------------------------------
(***************************************************************************)
(* The final roster of one machine room: the staff of every shift, the     *)
(* change log and the duty ledger written beside it, and the two requests  *)
(* that edit it directly (services/schedule.py, routes/schedules.py).      *)
(*                                                                         *)
(* A request is one database transaction and one action here; what two     *)
(* overlapping transactions can do is the subject of other modules.        *)
(***************************************************************************)
EXTENDS Naturals, Sequences, FiniteSets

CONSTANTS People,      \* the persons of the room
          Engaged,     \* Engaged[p]: p's master record when the schedule appears
          Shifts,      \* the shifts of the room's published schedule
          Baseline,    \* Baseline[s]: the planned staff, one person per position
          DutyDay,     \* DutyDay[s]: the day on which s is worked
          DutyMonth,   \* DutyMonth[s]: the calendar month of that day
          NoDoc,       \* the source_biz_no of a change that no document caused
          Changeable,  \* bound: the persons whose master record may change
          LastDay,     \* bound: the last day the clock reaches
          MaxVersion,  \* bound: the highest schedule version
          Payloads     \* bound: the lists of persons a client sends

\* What a person's type, status and participation allow at present: "duty" of an
\* enabled duty operator who participates; "cover" of an enabled maintenance,
\* room_director or deputy_director person; "none" of anybody else.
Standings == {"duty", "cover", "none"}

\* A rule cell holds distinct persons (auth.py, _validate_cells), and generation
\* copies it into the baseline and into the first final roster.
ASSUME RosterAssumption ==
    /\ Engaged \in [People -> Standings]
    /\ Baseline \in [Shifts -> Seq(People)]
    /\ \A s \in Shifts : \A i, j \in DOMAIN Baseline[s] :
            Baseline[s][i] = Baseline[s][j] => i = j
    /\ DutyDay \in [Shifts -> Nat]
    /\ LastDay \in Nat /\ MaxVersion \in Nat \ {0}
    /\ Changeable \subseteq People /\ Payloads \subseteq Seq(People)

VARIABLES
    roster,    \* the rows of one schedule, see RosterType
    flagged,   \* months whose recalculation flag is "required"
    eligible,  \* eligible[p]: the present standing of person p
    today      \* the server's date

rosterVars == <<roster, flagged, eligible, today>>

-----------------------------------------------------------------------------
Past(s) == DutyDay[s] < today

Staff(s) == roster.persons[s]

OnShift(p, s) == \E i \in DOMAIN Staff(s) : Staff(s)[i] = p

\* [new if pid == old else pid for pid in people]
Replace(people, old, new) ==
    [i \in DOMAIN people |-> IF people[i] = old THEN new ELSE people[i]]

Distinct(ids) == \A i, j \in DOMAIN ids : ids[i] = ids[j] => i = j

DutyOperators == { p \in People : eligible[p] = "duty" }

CoverStaff == { p \in People : eligible[p] = "cover" }

(***************************************************************************)
(* update_schedule_shift_persons is split into its checks and its effect,  *)
(* both on a roster r, so that one request can update several shifts.      *)
(***************************************************************************)
\* Variant: a person may be listed twice.
MayUpdateWithRepeats(r, s, ids, allowed) ==
    /\ Len(ids) = Len(r.persons[s])
    /\ ids # r.persons[s] => \A i \in DOMAIN ids : ids[i] \in allowed

MayUpdate(r, s, ids, allowed) ==
    /\ ids # <<>> /\ Distinct(ids)
    /\ Len(ids) = Len(r.persons[s])
    /\ ids # r.persons[s] => \A i \in DOMAIN ids : ids[i] \in allowed

Changed(r, s, ids) == { k \in DOMAIN ids : r.persons[s][k] # ids[k] }

\* The table has no version column: "version" stands for the row's place in
\* the order of insertion.
LedgerRow(r, s, ids, i, type, doc) ==
    [version |-> r.version + 1, shift |-> s, original |-> Baseline[s][i],
     before |-> r.persons[s][i], after |-> ids[i], type |-> type, doc |-> doc]

\* Variant: the ledger takes the person before the change from the plan.
LedgerRowsFromPlan(r, s, ids, type, doc) ==
    { [LedgerRow(r, s, ids, i, type, doc) EXCEPT !.before = Baseline[s][i]] :
         i \in Changed(r, s, ids) }

\* One ledger row per position whose person changed.
LedgerRows(r, s, ids, type, doc) ==
    { LedgerRow(r, s, ids, i, type, doc) : i \in Changed(r, s, ids) }

LogRow(r, s, ids) ==
    [version |-> r.version + 1, shift |-> s, before |-> r.persons[s], after |-> ids]

\* Variant: the schedule's version is not moved on.
UpdateKeepingVersion(r, s, ids, type, doc) ==
    IF ids = r.persons[s] THEN r
    ELSE [persons |-> [r.persons EXCEPT ![s] = ids],
          log     |-> r.log \cup {LogRow(r, s, ids)},
          ledger  |-> r.ledger \cup LedgerRows(r, s, ids, type, doc),
          version |-> r.version]

Update(r, s, ids, type, doc) ==
    IF ids = r.persons[s] THEN r
    ELSE [persons |-> [r.persons EXCEPT ![s] = ids],
          log     |-> r.log \cup {LogRow(r, s, ids)},
          ledger  |-> r.ledger \cup LedgerRows(r, s, ids, type, doc),
          version |-> r.version + 1]

\* Every update of the roster goes through here: the bound on versions.
SetRoster(r) == r.version <= MaxVersion /\ roster' = r

-----------------------------------------------------------------------------
\* Variant: cover staff may be put on a shift by hand.
EditWithAnyStaff(s, ids) ==
    /\ ~Past(s)
    /\ MayUpdate(roster, s, ids, DutyOperators \cup CoverStaff)
    /\ SetRoster(Update(roster, s, ids, "manual", NoDoc))
    /\ UNCHANGED <<flagged, eligible, today>>

\* PUT /schedules/{id}/shifts/{shift_id}/persons
EditShift(s, ids) ==
    /\ ~Past(s)
    /\ MayUpdate(roster, s, ids, DutyOperators)
    /\ SetRoster(Update(roster, s, ids, "manual", NoDoc))
    /\ UNCHANGED <<flagged, eligible, today>>

\* POST /schedules/{id}/shifts/{shift_id}/history-corrections
CorrectHistory(s, ids) ==
    /\ Past(s)
    /\ ids # Staff(s)
    /\ MayUpdate(roster, s, ids, DutyOperators)
    /\ SetRoster(Update(roster, s, ids, "historical_correction", NoDoc))
    /\ flagged' = flagged \cup {DutyMonth[s]}
    /\ UNCHANGED <<eligible, today>>

\* update_person: type, status and participation of a person are set in one
\* request, which looks at no roster and at no open document.
ChangePerson(p, standing) ==
    /\ p \in Changeable
    /\ eligible' = [eligible EXCEPT ![p] = standing]
    /\ UNCHANGED <<roster, flagged, today>>

Midnight ==
    /\ today < LastDay
    /\ today' = today + 1
    /\ UNCHANGED <<roster, flagged, eligible>>

RosterInit ==
    /\ roster = [persons |-> Baseline, log |-> {}, ledger |-> {}, version |-> 1]
    /\ flagged = {}
    /\ eligible = Engaged
    /\ today = 0

RosterNext ==
    \/ \E s \in Shifts, ids \in Payloads : EditShift(s, ids) \/ CorrectHistory(s, ids)
    \/ \E p \in People, standing \in Standings : ChangePerson(p, standing)
    \/ Midnight

RosterSpec == RosterInit /\ [][RosterNext]_rosterVars

-----------------------------------------------------------------------------
(***************************************************************************)
(* Properties.  They are stated of a roster r, for the proofs about Update. *)
(***************************************************************************)
Latest(rows, e) == e \in rows /\ \A f \in rows : f.version <= e.version
Earlier(rows, e) == { f \in rows : f.version < e.version }

\* The rows, in order of version, lead from "first" to "last" without a gap.
Chain(first, rows, last) ==
    /\ rows = {} => last = first
    /\ rows # {} => \E e \in rows : Latest(rows, e) /\ e.after = last
    /\ \A e \in rows :
          \/ Earlier(rows, e) = {} /\ e.before = first
          \/ \E f \in rows : Latest(Earlier(rows, e), f) /\ f.after = e.before
    /\ \A e, f \in rows : e.version = f.version => e = f

LogOf(r, s) == { e \in r.log : e.shift = s }
LedgerOf(r, s, i) == { e \in r.ledger : e.shift = s /\ e.original = Baseline[s][i] }

RowsOf(doc, type) == { e \in roster.ledger : e.doc = doc /\ e.type = type }

RosterTypeOK(r) ==
    /\ r.persons \in [Shifts -> Seq(People)]
    /\ \A s \in Shifts : Len(r.persons[s]) = Len(Baseline[s]) /\ Distinct(r.persons[s])
    /\ r.version \in Nat \ {0}
    /\ \A e \in r.log : e.version \in 2..r.version /\ e.shift \in Shifts
    /\ \A e \in r.ledger : e.version \in 2..r.version /\ e.shift \in Shifts

\* Every shift keeps the head count of its plan, without a duplicate, through
\* every edit ("the number of staff must stay N", schedule.py:199), and no row
\* of the two journals is ahead of the schedule's version.
TypeOK ==
    /\ RosterTypeOK(roster)
    /\ flagged \subseteq { DutyMonth[s] : s \in Shifts }
    /\ eligible \in [People -> Standings]
    /\ today \in 0..LastDay

\* The duty ledger alone reconstructs the final roster: from the planned person
\* of a position, each row starts at the person the row before it left, and the
\* last row ends at the person on duty (docs/design/07 s.3: the person before
\* the change is the final person up to then).
LedgerExplains(r) ==
    \A s \in Shifts : \A i \in DOMAIN Baseline[s] :
        Chain(Baseline[s][i], LedgerOf(r, s, i), r.persons[s][i])
LedgerExplainsStaff == LedgerExplains(roster)

\* So does the change log, shift by shift; its versions have no gap and no
\* repetition, and it records at each version exactly the ledger's changes.
LogExplains(r) == \A s \in Shifts : Chain(Baseline[s], LogOf(r, s), r.persons[s])
LogMatchesLedger(r) ==
    /\ { e.version : e \in r.log } = 2..r.version
    /\ \A e, f \in r.log : e.version = f.version => e = f
    /\ \A e \in r.log :
          { <<f.shift, f.before, f.after>> : f \in { g \in r.ledger : g.version = e.version } }
            = { <<e.shift, e.before[i], e.after[i]>> :
                   i \in { k \in DOMAIN e.after : e.before[k] # e.after[k] } }
JournalsAgree == LogExplains(roster) /\ LogMatchesLedger(roster)

\* The staff of a day gone by is changed by a historical correction only, and
\* every month a correction touched stays flagged for recalculation.
HistoryIsFrozen ==
    [][ /\ \A s \in Shifts : Past(s) /\ Staff(s)' # Staff(s) =>
              \E e \in roster'.ledger \ roster.ledger :
                  e.shift = s /\ e.type = "historical_correction"
        /\ \A e \in roster'.ledger :
              e.type = "historical_correction" => DutyMonth[e.shift] \in flagged' ]_rosterVars
=============================================================================
