# Verification of the duty management system

TLA+ models of the duty management system of this repository, the TLC runs that
check them on small instances and the TLAPS proofs of their main properties for
every value of the constants. The models are translated from the source code; the
documents under `docs/` are quoted only where a property states what they promise.

1. [The system](#1-the-system)
2. [Modules](#2-modules)
3. [Runs](#3-runs)
4. [Disagreements between code and documents](#4-disagreements-between-code-and-documents)
5. [Proofs](#5-proofs)
6. [What is abstracted and what is left out](#6-what-is-abstracted-and-what-is-left-out)
7. [Plan](#7-plan)

## 1. The system

A room (machine room, an organisation unit) has duty operators who work shifts in a
rotation. The backend is FastAPI over SQLAlchemy and PostgreSQL, the frontend Vue and
TypeScript. Every endpoint is a synchronous function run in a worker thread with a
session of its own (`db/session.py`: `autocommit=False, autoflush=False`): a request is
one transaction in READ COMMITTED, committed by the endpoint, rolled back when an
exception leaves it. The `version` columns are counters, not optimistic locks.

| Component | State | Operations | Talks to |
|---|---|---|---|
| Shift rules (`services/auth.py` 640-950, `routes/shift_rules.py`) | rules with status, start date and cycle; numbered versions with their cells | create, update (which may save a version), publish, delete | persons and shift definitions it plans with; generation, which publishing ends with |
| Schedule generation (`services/schedule.py` 282-460) | the room's schedule: days, shifts, baseline persons, final persons | generate from a rule version, extend the coverage | rule versions; documents that refer to shifts |
| Final roster (`services/schedule.py` 186-279) | persons of every shift, change log, duty ledger, schedule version, recalculation flags | edit a shift, correct history | called by swaps and covers |
| Shift swaps (`services/shift_swap.py`) | swap documents | create, confirm, reject, decide, withdraw, cancel | tasks; the common update of the roster |
| Leaves and covers (`services/leave.py`) | leave requests, cover assignments | create, withdraw, decide, arrange, confirm, reject, void | tasks; holidays; the common update of the roster |
| Approval centre (`services/approval.py`, `routes/approvals.py`) | approval tasks and records | create, complete, cancel; act on a task and dispatch to its document | swaps, leaves |
| Persons, organisation units, shift definitions (`services/auth.py` 332-640) | master data | create, update, enable, disable | checked by everything that rosters a person |
| Accounts, roles, permissions, tokens (`services/auth.py` 50-330, `core/`, `api/deps.py`) | users, roles, direct permissions; tokens are not stored | log in, refresh, log out, grant, change | decides who may call the others and for which room |
| Holidays and standards (`services/holiday.py`) | calendar, subsidy standards | create, update, import | leaves refuse holiday shifts |
| Exports (`services/export.py`) | export tasks, workbooks on disk | create, download | reads the roster |
| Dashboard and listings | none | read | everything |
| HTTP client, stores, route guard (`frontend/src/services/http.ts`, `stores/`, `router/`) | tokens, the shared refresh, profile and permissions, the selected room | request, refresh and retry, log in, log out | the backend |
| Views (`frontend/src/views`) | forms | present | the client |

### Where it is hard

* **One roster, five writers.** Manual edits, historical corrections, approved swaps,
  effective covers and their cancellations all go through
  `update_schedule_shift_persons`, which writes the final persons, a change log row and
  one ledger row per changed position. Settlement and display read the ledger, so it has
  to explain the roster after any sequence of writers.
* **Documents outlive the state they were checked against.** A swap or leave is
  requested on the roster of one day and decided on the roster of another. Dates pass,
  other documents and edits change the same shifts, persons are disabled or change their
  type.
* **Two tables moved by separate assignments.** Leave and cover, swap and tasks, rule
  and version, schedule and rule have statuses that must agree.
* **Overlapping requests.** A status is read without a lock, a task row is locked later,
  and the ORM writes by primary key whatever the row holds by then.
* **Destructive regeneration.** Publishing deletes days and everything that hangs on
  them, except what foreign keys with `ON DELETE RESTRICT` protect.
* **One tab, many calls.** Calls meet a 401 in any order, share one refresh, and are
  answered after the user has logged out, logged in again or reloaded.
* **Permissions computed twice.** The server admits requests by one SQL query and tells the
  browser what to show by a walk over loaded roles; roles can be disabled, persons leave
  and releases bring new codes.
* **Hours around midnight.** Shifts are compared by text times, cross midnight, end at
  "24:00" and stay in the table while they are disabled.
* **Dates and cycles.** The place in the rotation depends on a start date that may be
  past or future and on days generated in several pieces.

`PROJECT.json` lists the hazards with their lines and the properties that cover them.
The properties that make each component correct:

* *roster*: the head count stays, nobody is on a shift twice; log and ledger each
  reconstruct the roster; a day gone by changes by correction only, which flags the month;
* *swaps*: one open swap per shift; one live todo, of the right kind; the ledger holds
  the exchange of an approved swap and nothing of any other; cancelling undoes it;
* *leaves*: leave and cover agree; one unsettled leave per duty; the ledger holds what a
  cover did and its undoing;
* *together*: nobody is on duty for a document that is no longer in force; no workflow puts
  anybody on a shift who is not a duty operator, except as a cover;
* *requests under concurrency*: a task is answered once; roster and decision are committed
  together; a leave sent twice is filed once; overlapping corrections leave one flag;
  requests do not wait for each other for ever;
* *rules*: the one published rule drives the schedule; the rotation has no gap; no day
  that a document refers to is dropped; nothing outside the new range is touched;
* *organisation*: a closed room has no enabled person, only duty operators participate in the
  rota; the enabled shifts of a room never share a minute;
* *access*: what the browser is told is what the server admits; a later release grants
  nothing by being installed; superusers answer to superusers only;
* *session*: every call ends; nobody waits for a refresh that is not under way; a session
  ends only by logout or after a refresh was tried; a tab without a token shows no page.

## 2. Modules

```
  Roster      ApprovalTasks      Lifecycle (abstract)     ShiftDefs
     |  \        /   |                |                       |
     |   ShiftSwap --+-- implements --+                 Organization <-- implements --+
     |   LeaveCover -+-- implements --+                       |                       |
     |      \  /                                            Access -------------------+
     +---- DutyFlow           RoomTxn    ShiftRules    SessionClient
```

**`Roster`** is the final roster of one published schedule. `roster` is a record of
`persons` (per shift, the sequence of its positions: `schedule_shift_person` in
`sort_order`), `log` (change log), `ledger` (duty change ledger) and `version`.
`flagged` holds the months with a recalculation flag; `eligible` is the standing of every
person, that is, what the present type, status and participation allow: `duty`, `cover` or
`none`; `today` is the server's date.
`MayUpdate` is the refusals of `update_schedule_shift_persons` and `Update` its effect,
both functions of a roster, so that a swap can update two shifts in one step, the second
on the result of the first. `EditShift` and `CorrectHistory` are the two direct
endpoints. `ChangePerson` is `update_person`: one request gives a person any standing, a
person on coming shifts or in open documents too. `Midnight` is the passing of a day.

**`ApprovalTasks`** has the tasks per document and the three operations of
`services/approval.py`. `IsPending` is the condition of the conditional update of
`complete_task`.

**`ShiftSwap`** is every operation of `services/shift_swap.py`, one request per action,
and the branch of the approval centre (`_act`) that completes a confirmation task without
telling the swap. The centre completes a task and then calls the document's decision in
one transaction, so a refusal of the decision also undoes the completion: both are one
action whose guard has the conditions of both. An approval writes first the source and
then the target shift (`Exchange`).

**`LeaveCover`** is every operation of `services/leave.py`. A leave has at most one cover
(its approval creates it and is possible once), so `covers` is indexed by leaves.

**`DutyFlow`** composes the three over one roster, one ledger and one task table.

**`Lifecycle`** is the abstract specification: documents move one at a time along the
arrows of a diagram. `ShiftSwap` and `LeaveCover` instantiate it with the diagrams of
`docs/design/06` section 8 and with refinement mappings that keep only the status.

**`RoomTxn`** looks inside the requests about one room: the six endpoints of a mutual swap,
the edit of a shift, the correction of a past one and the request of a leave. `Programs`
lists the statements of each; `pc[r]` is where request `r` is. `db` and `rows` are what is
committed (statuses of the swap and its tasks; rows of staff, change log, leaves and flags,
each with the request that wrote it), `staged[r]` what `r` has written, `held[r]` the rows
it has locked. A statement reads what is committed and what the request wrote itself;
`UPDATE`, `DELETE` and `SELECT FOR UPDATE` wait for their rows (`Free`) and then look at
them again, so a `DELETE` is two steps, what it saw (`DeleteStaff`) and what of that is
still there (`LockStaff`); a flush by primary key waits and does not look. An insertion
that refers to a shift takes the key-share lock of its row, which only the
`SELECT FOR UPDATE` of `create_leave` excludes. `Abort` is PostgreSQL's answer to a
deadlock, `Crash` the death of a worker or connection. An approval loads both shifts and
makes its two lists of persons before it rewrites either (`shift_swap.py:186-196`), a
cancellation loads each shift just before it rewrites it. The code reads some rows twice in
a row (the status of a swap, the persons of a shift); the model takes them as one read.

**`ShiftRules`** is the rules of a room, their versions and the days. `rules` is a
sequence in the order of ids with tombstones, `versions` a sequence per rule, `days` a
function from dates to the planned team and to what has happened to the day (`use`).
`SaveParameters` and `SaveVersion` are the two branches of `update_shift_rule`;
`PublishRule` ends with `Materialize`, as the code's publication ends with
`generate_schedule_from_rule`, and `FlushAccepted` is what the partial unique index makes
of the one flush of several statuses. `GenerateDays` is the extension endpoint.

**`ShiftDefs`** is the shift definitions of the rooms and `_times_overlap`, which the code
applies to minutes of a day; `Day` is their number. `ListShiftDefs` is the first visit of a
room, which writes the default definitions without comparing them.
**`Organization`** adds units and persons: rooms are units, requests about persons and
shifts act in an enabled room. **`Access`** adds accounts, roles and permissions and lets
every request of `Organization` be sent by an account that is admitted: `Admitted` is the
SQL of `check_user_permission`, `EffectivePermissions` the walk of
`effective_permission_sources`, `ActsInRoom` is `resolve_current_room_id`. The migration
seeds the first release (`AccessInit`); `CreateAdmin` seeds the running one, perhaps after
`Upgrade`.

**`SessionClient`** is one browser tab and what the server does to its tokens. Pairs of
tokens are numbered as they are issued; the lifetimes are fixed, so they expire in that
order and an access token before its refresh token. `calls[c]` is a request: `sent`, or
`waiting` for the shared refresh (`refreshing` is the pair it has sent). `held`, `profile`
and `notified` are the stores and the client's flag. Everything that runs between two
answers of the server is one step, as in the event loop of a browser: `RefreshAnswered`
stores the new pair and resends every waiting call, `RefreshFails` ends them and forces the
logout, `LoginAnswered` stores the pair and asks for the profile. `Failed` is any outcome
that is neither success nor 401. `page` is `loading` until `main.ts` has mounted the
application, `login`, or `app` for whatever is behind the route guard.

The `MC...` modules give the constants their values. In the component modules, an operator
introduced by "Variant:" is a plausible mistake in the definition that follows it; each
property is violated by at least one of them (`mutants` in `PROJECT.json`), which shows
that the property watches that code.

## 3. Runs

`tlc -workers 2 -config <cfg> <module>` in this directory.

| Run | Instance | States | Shows |
|---|---|---|---|
| `shift_swap` (`MCShiftSwap`) | two swaps over two shifts on days 0 and 1, three operators, one of them an approver too, an edit that puts the third on a shift, seven versions | 182 033 | exclusion, todos, traces in the ledger, mutual exchange, undoing, the life cycle |
| `duty_flow` (`MCDutyFlow`) | one swap and two leaves meeting on two shifts of two and one positions, the second on a holiday, edits and corrections, a cover person who is disabled and becomes a duty operator with an account, two days, four versions; the two leaves are interchangeable and declared symmetric | 314 988 | the roster and its journals whichever workflow wrote it; leaves and covers |
| `room_txn` (`MCRoomTxn`) | four loads of up to six overlapping requests: six about one swap; an approval, edits of both shifts and a leave sent twice; an edit that does what the swap asks for beside its approval and two cancellations; three corrections | 25 759 | answers, roster and decision, leaves, flags, deadlocks, every begun request ends |
| `shift_rules` (`MCShiftRules`) | two rules, three versions, cycles of one, two and three days, plans that fit, are too long or empty, edits of single fields, a definition and a team that come and go, one marked day, four days of time, a horizon of two | 478 272 | the rotation and what publishing may touch |
| `organization` (`MCOrganization`) | a station and a room, a person of every type, three definitions over a day of three periods | 316 377 | closed rooms, disjoint shifts |
| `access` (`MCAccess`) | the first superuser, an ordinary account, a later superuser, the administrator role and a common role of the later release, two permissions, one room and person | 305 376 | profile and server, seeding, superusers |
| `session` (`MCSessionClient`) | two calls in flight, one account that is disabled and enabled, three pairs of tokens | 45 590 | the shared refresh, why sessions end, every call ends |

`swap_agreed`, `cover_void`, `rule_republish`, `txn_withdraw` and `roster_doubled` check one
statement of a document, docstring or error message each and end in a counterexample
(section 4).

### What the properties say

* `LedgerExplainsStaff`: per position, the ledger rows in order of insertion lead from the
  planned to the final person, each starting where the one before ended.
  `JournalsAgree`: the same of the change log per shift, its versions without gap, and
  each log row records exactly the ledger rows of its version.
* `HistoryIsFrozen`: an action property; a change of a past day's staff adds a ledger row
  of a historical correction, and a month with such a row stays flagged.
* `PendingTaskFollowsSwap`, `LeaveHasTaskWhileWaiting`: todos and statuses, after
  withdrawals and answers in the centre as well.
* `SwapLedgerFollowsStatus`, `CoverLedgerFollowsStatus`: the ledger rows that name a
  document are exactly those its status accounts for.
* `CancelUndoesUntouchedSwap`: if the last change of a shift was the swap's own, cancelling
  the swap restores that shift's staff. It says nothing when other changes came between,
  where the code restores what it finds.
* `NobodyServesForVoidDocument`: the last ledger row of every position belongs to a
  document in force or to a manual change. This is the property that several workflows on
  one shift could break without any of them being wrong alone.
* `WorkflowsMakeNoStray`: an action property; only `ChangePerson` leaves persons on a shift
  who are no duty operators and cover nobody there. Every caller of
  `update_schedule_shift_persons` passes the types it allows, and a cancellation or a void
  puts persons back who may have changed since. That such persons never exist is false:
  see the changes of type in section 4.
* `DaysFollowRotation`: from the start of the driving version on, the days form a gapless
  range and day *d* has the team of its place in the cycle.
* `RosterFollowsDecision`: at every commit, an effective swap has changed both its shifts and
  an open or rejected one none. It is violated when the decision is committed before the
  roster (`ApproveCommitEarly`). A shift may be left out where an edit or correction had
  already put the swap's person (`Forestalled`): the approval compares its list with the
  rows as they are by then and skips an equal one (`schedule.py:205`). The attempt to prove
  the property without this case found it. A withdrawn swap is left out: see `txn_withdraw`.
* `LeavesExcludeEachOther`: of overlapping leave requests for one duty one is filed; it is
  the lock of the shift's row that does it (`LeaveUnlocked`).
* `CorrectedMonthHasOneFlag`: the code looks for the flag and inserts it later, in one
  request behind the lock of the schedule. The unique key of the month is not modelled: what
  it would refuse is what the property excludes.
* `DeadlocksNeedAnEdit`: which requests PostgreSQL may have to abort. An approval changes the
  schedule and then its second shift, an edit of that shift takes its rows and then the
  schedule; whenever requests wait in a circle, of whatever length, two such requests wait
  for each other.
* `BegunRequestsEnd`: a leads-to property, violated when a rolled back request keeps its
  locks (`RollBackUnclosed`).
* `EnabledShiftsDisjoint`: stated of minutes on the clock (`OnDutyAt`), which the code does
  not compute; it compares interval ends. Hours that end when they start last a day.
* `ParticipantsWorkInOpenRooms`: no enabled person in a room that is disabled or deleted.
* `ProfileMatchesServer`: both computations of permissions agree for every registered code,
  and a request is admitted only to the room that `/me` shows or by an account that
  switches rooms.
* `SeedingGrantsNothing`, `SuperusersNeedPeers`: action properties over every step.
* `ForcedOutOnlyAfterRefresh`: an action property; a session is lost only with the user's
  logout, the end of a refresh, or a second refusal of a call that was resent.
* `EveryCallSettles`: a leads-to property, violated when the request for a refresh, refused
  itself, joins the refresh it is (the variant `RefreshEndsUnguarded`).

### Bounds

Every bound is a constant. `MaxVersion` bounds updates of the roster, `LastDay` the clock,
`Payloads` what editors send, `Swaps` and `Leaves` the documents, `MaxRules`,
`MaxVersions` and `MaxMarks` rules, versions and marked days, `MaxTokens` pairs of tokens,
`Edits` and `Throughs` what rule editors and extensions send, `Loads` which requests
overlap, `Starts` and `Ends` the times typed in, `Managed`, `RoleSets` and `Grants` whose
account is changed and what is assigned. They are large enough for the cases that matter:
two swaps that compete for a shift and one that is cancelled and repeated; two covers on
one shift; a swap, a cover and an edit of the same position in every order, each undone
after the others; a document that is decided before, on and after the day of its shift; a
rule that replaces another, is replaced and comes back, with a version saved in between;
generations on different days over one version; a login, a refresh and a second login
while an old answer is under way (one account is enough: the properties of `SessionClient`
do not compare accounts); hours that touch, cross midnight, end at 24:00 and last a day,
for which three periods of a day suffice; an approval of a mutual swap against an edit of
either of its shifts, in every order of their statements, also an edit that does what the
approval was about to do. Where a property was expected to need a
particular case, its variant was run to see that the case is reached. All actions and
disjuncts are taken in the passing runs. `CHECK_DEADLOCK FALSE` is used where the supply
of documents, versions and days runs out.

`Horizon` (365 days in the code, `SCHEDULE_MATERIALIZATION_DAYS`) is two days in the run and
`Day` (1 440 minutes) is three; the proofs about both hold for every value.

### Fairness

`RoomTxn` has `WF(Begun(r) /\ Step(r))` for every request: a worker thread goes on with a
request it has begun, unless it crashes, and PostgreSQL looks for deadlocks
(`deadlock_timeout`). `SessionClient` has weak fairness of the end of each call and of
the refresh: a browser settles every `fetch`, with an answer or an error. A request need
not begin, and no person need answer, decide or confirm: nothing in the code makes people
act, so the other specifications state no fairness and no liveness.

## 4. Disagreements between code and documents

Found while modelling; each with a run, its counterexample and the quoted statement under
`findings` in `PROJECT.json`.

* **`rule_republish`** (code). `publish_shift_rule` sets the active rule to superseded and
  the new one to published and flushes once. The unit of work writes updates in the order
  of primary keys, so a rule older than the active one is written first and meets the
  unique index of one published rule per room. `docs/design/06` section 8 promises that a
  superseded rule can be edited and published again.
* **`txn_withdraw`** (code). A withdrawal that waits for the task locked by the director's
  approval goes on with the status it read before and writes `withdrawn` over `effective`;
  the roster stays exchanged.
* **`swap_agreed`** (document). A target person who is an approver too and agrees in the
  approval centre closes the confirmation task without moving the swap: it waits for ever.
* **`cover_void`** (code). With two effective covers on one shift neither can be voided,
  because `cancel_cover` demands that everyone left on the shift be a duty operator.
* **`roster_doubled`** (code). `update_schedule_shift_persons` counts, deletes and inserts the
  persons of a shift without locking it. The second of two requests waits for the rows that
  the first deletes, finds them gone, deletes nothing and inserts its list beside the other:
  the shift has the staff of both, though `schedule.py:199` refuses any other head count.

Met while reading or modelling, and not given a run:

* `update_person` (`auth.py:485`) gives another type to a person who stands on coming shifts
  and looks at no roster. Somebody who is no duty operator is then on duty without a leave,
  though `docs/design/08` section 1 has only duty operators in the rota and covers only after
  a leave was approved: in the model one `ChangePerson` from the initial state.
* The type of a cover person is tested when the cover is arranged (`leave.py:132`), not when
  it is confirmed: `confirm_cover` (`leave.py:166`) allows duty operators in the whole list,
  since the others on the shift are. Who becomes a participating duty operator in between
  takes the cover as one, though `docs/design/08` section 1 excludes duty operators as
  covers: `ArrangeCover`, `ChangePerson`, `CoverConfirms`. `duty_flow` passes through it.
* Two `create_swap` for one shift that overlap both find no open swap: unlike `create_leave`
  it locks nothing, although `docs/design/04-开发实施计划.md:203` wants repeated requests
  stopped. The same
  window is open between two `create_shift_def` of overlapping hours, and two saves of a
  rule compute one version number, of which the unique key refuses one.
* `schedule.version` is read and written back: of two overlapping changes of different
  shifts one number is lost, and two rows of the change log carry the same.
* A wrong password is a 401 and sets `hasNotifiedUnauthorized` (`http.ts:186`); the login that
  follows does not reset it. When the refresh of that session fails later, no forced logout
  happens: the page stays, with dead tokens, until it is reloaded.
* An organisation unit may become a child of its own descendant (`auth.py:365` refuses only
  the unit itself), although `docs/development/M2-P2-Phase验收说明.md:187` calls the check of
  the levels complete. The tree of the units page then shows neither unit.
* `docs/design/02-原型设计.md:527` checks persons, schedules and unfinished business before a
  unit is disabled; the code looks for enabled persons only.
* `docs/design/02-原型设计.md:550` names, among the exceptions of the persons page, a person
  with coming duties who is disabled; the code disables the person and looks at no roster.
* Times of a shift beyond 24:00 (such as "25:10") pass the pattern of the request.
* The start date of a rule is checked when a version is saved, not when it is published: a
  draft published late replaces past days, which `docs/development/M3-P0-开发说明.md:111`
  says are kept.
* In the window of `txn_withdraw`, a withdrawal that selected the tasks before a confirmation
  committed never sees the director's task, which outlives the withdrawn swap (against the
  docstring of `cancel_pending_tasks`).
* A refresh that is answered after a logout stores its tokens all the same
  (`RefreshAnswered` does not look at `held`), even over the tokens of the next login; a
  profile that is answered after a logout sets the permissions. A refresh that fails for
  the network ends the session as a refused one does.

Also, a swap cancelled after other edits does not give
the applicant's duty back, though `ShiftSwapView.vue:40` announces it (the code restores
what it finds, which `SwapLedgerFollowsStatus` and `NobodyServesForVoidDocument` describe);
any swap or leave on a day from the start date on, even a withdrawn one, blocks a
publication, since its row restricts the deletion of the day
(`docs/design/03-总体设计.md:1249` and `05` section 4.2 do not know of it); manual edits and
ledger rows of replaced days are deleted with them; a plan longer than its cycle is saved
and can never be generated.

## 5. Proofs

All by TLAPS; for any sets of persons, shifts, documents, teams and definitions, any
baseline, and any bounds that satisfy the assumptions below. `tlapm <module>`.

| Module | Theorem | Property |
|---|---|---|
| `RosterProofs` | `RosterTypeCorrect` | `[]TypeOK` |
| | `LedgerReconstructsRoster` | `[]LedgerExplainsStaff` |
| | `JournalsAlwaysAgree` | `[]JournalsAgree` |
| | `HistoryStaysFrozen` | `HistoryIsFrozen` |
| `SwapProofs` | `SwapsLiveByDesign` | `SwapLifecycle` (refinement of `Lifecycle`) |
| | `SwapsExcludeEachOther` | `[]OneOpenSwapPerShift` |
| | `TodosFollowSwaps` | `[]PendingTaskFollowsSwap` |
| `LeaveProofs` | `LeaveAlwaysAgrees` | `[]LeaveAgreesWithCover` |
| | `LeavesLiveByDesign`, `CoversLiveByDesign` | `LeaveLifecycle`, `CoverLifecycle` (refinements) |
| | `LeavesExcludeEachOther` | `[]OneOpenLeavePerDuty` |
| `DutyFlowProofs` | `FlowTypeCorrect`, `FlowLedgerReconstructs`, `FlowJournalsAgree`, `FlowHistoryFrozen` | the four roster properties of the whole room |
| | `WorkflowsMakeNoStrayAlways` | `WorkflowsMakeNoStray` |
| | `TodosFollowLeaves` | `[]LeaveHasTaskWhileWaiting` |
| | `LedgerFollowsSwaps`, `LedgerFollowsCovers` | `[]SwapLedgerFollowsStatus`, `[]CoverLedgerFollowsStatus` |
| | `NobodyServesForVoidDocumentAlways` | `[]NobodyServesForVoidDocument` |
| | `MutualSwapsKeepCounts`, `CancelUndoesUntouched` | `MutualSwapKeepsDutyCounts`, `CancelUndoesUntouchedSwap` |
| `RoomTxnProofs` | `TxnInvariant` | the inductive invariant `[]TxnInv` of the transactions |
| | `TxnRoster` | `[]RosterFollowsDecision` |
| | `TxnAnswers` | `AnsweredOnce` |
| | `TxnLeaves`, `TxnFlags` | `[]LeavesExcludeEachOther`, `[]CorrectedMonthHasOneFlag` |
| | `TxnDeadlocks` | `[]DeadlocksNeedAnEdit` |
| `AccessProofs` | `OverlapIsExact` | `TimesOverlap` is "some minute belongs to both" |
| | `OrganizationKeepsTypes`, `ParticipantsWorkInOpenRoomsAlways` | `[]OrgTypeOK`, `[]ParticipantsWorkInOpenRooms` |
| | `EnabledShiftsStayDisjoint` | `[]EnabledShiftsDisjoint` |
| | `AccessImplementsOrganization` | `OrgSpec`: accounts and releases are stutters of the organisation |
| | `OnePersonOneAccount`, `ProfileAlwaysMatchesServer` | `[]OneAccountPerPerson`, `[]ProfileMatchesServer` |
| | `SuperusersAlwaysNeedPeers`, `SeedingAlwaysGrantsNothing` | the two action properties |
| `SessionProofs` | `SessionKeepsTypes`, `NobodyWaitsForNothing`, `SignedOutTabShowsLogin` | `[]SessionTypeOK`, `[]RefreshServesItsWaiters`, `[]AppNeedsSession` |
| | `RefreshComesFirst` | `ForcedOutOnlyAfterRefresh` |
| `ShiftRulesProofs` | `RulesTypeCorrect` | `[]RulesTypeOK` |
| | `RuleAlwaysMatches` | `[]RuleMatchesLatestVersion` |
| | `ScheduleAlwaysFollows` | `[]ScheduleFollowsPublishedRule` |
| | `DaysAlwaysFollow` | `[]DaysFollowRotation` |
| | `ReferencedDaysAlwaysSurvive`, `OnlyNewRangeReplaced`, `GenerationAlwaysCovers` | the three action properties |

### Assumptions

* `RosterAssumption`: the baseline of a shift has distinct persons (`_validate_cells`), of any
  standing, since standings change between the saving of a rule and its publication; dates
  and bounds are numbers, payloads sequences of persons.
* `SwapAssumption`, `LeaveAssumption`: documents are among those of the task table, null
  values are no shifts, persons or documents, accounts belong to persons, and a schedule has
  finitely many shifts (duties are counted).
* `DutyFlowAssumption`: swaps and leaves have different identities (tasks carry their
  `biz_type`).
* `TxnAssumption`: a request is of one of the ten kinds, and an edit, correction or leave
  names one of the swap's shifts; the two shifts differ, and the two persons; `None` is no
  request and no shift. `Requests` is any set, finite or not, and the loads are any.
* `RulesAssumption`: what editors send has the types of the request schemas, with a
  positive cycle; `Keep` and `NoSchedule` are no values of their fields.
* `ShiftDefsAssumption`, `DefaultsAssumption`: times are minutes of a day, an end may be its
  last; the default definitions do not overlap.
* `OrganizationAssumption`, `AccessAssumption`: rooms are units, null values none of their
  fields; the roles and permissions of the first release are among those of the later, a
  common role's template among the permissions of its release.
* `SessionAssumption`: `NoUser` is no account, `MaxTokens` a number.

### The arguments

*Roster.* Neither journal property is inductive. `JournalInv` joins `TypeOK`, both chains
and the agreement of log and ledger: a new row has version `version + 1`, above all others
(`TypeOK`), so it is the latest of its chain; its `before` is the present person, which the
chain's end gives; and within a shift the positions have different planned persons, so a
row belongs to exactly one chain, which is where the distinct baseline is needed. The
lemma about one `Update` is stated of an arbitrary roster record and used once per update
of a step, so that mutual swaps need it twice. `HistoryInv` adds the flags.

*Whole room.* `FlowInv` is `JournalInv /\ SwapShape /\ LeaveShape`. The documents
are needed to know that the two shifts of a mutual swap are different and that what is put
on a shift is a person. `WorkflowsMakeNoStray` is proved by following one person who is no
duty operator (`StepMakesNoStray`): only `CoverConfirms` may bring one in (the other updates
allow operators only, and an update that changes nothing adds nobody), as the cover it
makes effective; and whoever loses the cover of a shift leaves that shift in the same step,
because the cover is another person than the applicant (`LeaveShape`).

*Documents and ledger.* `DocumentInv` adds to `FlowInv` who the documents are between
(`Partners`) and `LedgerInv`: every row of the ledger was made by hand or fits the status of
the document it names, and every document that took effect has left its rows. Three facts
about a step carry it: a document that took effect keeps its parties and only its own
approval and cancellation move it (`SettledSwaps`, `SettledCovers`); every new row has its
cause in the step that writes it (`NewRows`); an approval writes all the rows it owes
(`ApprovalRows`, `CoverRows`), since the persons to replace were found on the shifts.
`NobodyServesForVoidDocument` needs the journals too: the last row of a position names the
person on duty there (`LatestRowIsOnDuty`, from `LedgerExplains`), and a cancellation leaves
the person it removes on none of the document's shifts (`CancellationRows`,
`UncoverRows`), so the last row of a position cannot be one of the document just voided.

*Approvals and cancellations.* `ReplaceServes` and `ExchangeStaff` say who is on which shift
after an exchange: the new list has nobody twice (`MayUpdate`), so the person put on a shift
was not on it, and each of the two gives one duty for another (`DutyForDuty`). To undo the
last change of a shift it must be known that all rows of that change are the swap's:
`Attributed`, invariant beside `DocumentInv`, says that the ledger rows of one version have
one cause. The log row and the ledger agree (`LogMatchesLedger`), so every position that
changed went from the one person to the other, the last log row lists the present staff
(`LogExplains`), and replacing back gives its `before` (`LastChangeUndone`).

*Transactions.* `TxnInv` is `Shapes /\ LockInv /\ DocInv /\ RosterInv /\ LeaveInv /\ FlagInv`.
Each part says of every request what it has locked, found and staged at each place of its
program (`Places` lists the places, `StepPlaces` says which step is taken where), and
relates that to what is committed. A step undoes the transaction, commits it or moves
within it (`StepKinds`), and each part has a lemma for each of the three; requests other
than the one that steps keep their places, locks and writes (`Apart`).
`LockInv`: no row is locked twice, and who has reached which place holds which rows.
`DocInv`: an answer that is staged is of a task that is pending, and whose row is locked, so
that no other request can commit an answer to it; and the director's task is approved if
the swap is effective or cancelled, which then can only be withdrawn besides
(`txn_withdraw`).
`RosterInv`: the log has the change of whoever brought a person on a shift, an approval that
passed a shift has staged its change or found it forestalled, and a committed change of an
approval means an approved task, which by `DocInv` no open or rejected swap has.
`LeaveInv` and `FlagInv`: what was looked for behind a lock is still absent while the lock is
held. For the deadlocks, `CircleEntangled` shows that whoever waits in a circle is at one of
nine places; two decisions cannot be at them at once (`OneDecides`), two edits cannot wait
for each other there (`OneEdits`), and the places of the first shift are no part of a circle
(`SecondShift`). `AnsweredOnce` follows from what a commit may write.

*Swaps.* `StepsOfSwaps` reduces the actions to "one swap is created on free shifts" and
"one swap moves along an arrow", over the shape of the table `SwapShape`. The refinement
and the exclusion (`Exclusive`: any two open swaps of a shift are equal, then
cardinality) follow from this alone.

*Todos.* What creating, completing and cancelling do to the set of pending tasks of one
document is stated once each (`CreateTodo`, `CompleteTodo`, `CancelTodo`); the invariants
say that two pending tasks are one and which node it has, without cardinality.

*Leaves.* The same with four kinds of steps, of which one moves a leave and its cover
together. `LeaveInv` is the shape and the agreement itself: `CancelCover` looks at the
cover and `ArrangeCover` at both, so their steps are arrows of both diagrams only because
the two agreed before.

*Rules.* `ScheduleFollowsPublishedRule` and `RulesTypeOK` are inductive together: deleting a
rule is safe because a referenced one is refused, saving a version because it is a draft
at the end. `DaysFollowRotation` needs both, to know that the version that drives the
schedule keeps its place and that an extension continues the same version; publishing
starts a new range, extending prolongs the old one from a day that the range already
contains. The action properties follow from the invariants and the definition of
`KeptDays`.

*Organisation.* `OverlapIsExact`: the pieces of hours are exactly the minutes on duty
(`IntervalsAreMinutes`), and two pieces share a minute, the later start, if and only if each
starts before the other ends. With it `EnabledShiftsDisjoint`
follows from "enabled definitions do not overlap", which every step keeps because the
changed definition is compared with all other enabled ones even while it is disabled.

*Access.* `AccessInv` joins the invariant of the organisation, which every step of `Access`
keeps because it is a step or a stutter of `Organization` (`AccessStepIsOrgStep`), the types
(every role that is assigned exists and every grant is registered, so seeding can only add
codes that nobody has) and `OneAccountPerPerson`. Seeding leaves the permissions of existing
roles alone, and a role it creates is assigned to nobody yet.

*Session.* `Inv` joins the types, `RefreshServesItsWaiters` and `AppNeedsSession`. Its type
part contains that a waiting call was never resent, so the end of a refresh settles or
resends all who wait and none begins to wait again with it. Lemmas say what each way of
changing `calls` does to the set of waiters; the forced logout is treated once for both
actions that contain it. `ForcedOutOnlyAfterRefresh` needs the types to know that a login
stores a pair.

### Only model-checked

Liveness (`BegunRequestsEnd`, `EveryCallSettles`), out of the prover's reach as `ENABLED` is.
Every other property of a passing run is a theorem.

## 6. What is abstracted and what is left out

* One room, except in `Organization` and `Access`. Requests act in the room of their
  documents, so rooms do not meet except through accounts and permissions; in the
  workflows `Approvers` and `Accounts` are constants.
* In every module but `RoomTxn` and `SessionClient` a request is one step.
* `RoomTxn` has one swap and shifts of one person; requests about covers, and the creation
  of swaps, run the same statements and are left to the sequential modules.
* Names, telephone numbers, codes, sort orders and managers of units and persons,
  passwords, and the audit of logins are left out.
* `eligible` merges type, status and participation: why a person has no standing, and which
  of the three other types a cover person has, no request distinguishes. A disabled person
  may keep an account that acts (`Accounts` is constant).
* In `Roster` the schedule is published and its baseline complete. In `ShiftRules` the
  cells of a cycle day are one team, a version's shift definitions a set, a swap or leave a
  mark on its day.
* The ledger has no version column; the model's `version` is the order of insertion. Its
  subsidy fields, remarks, reasons, operators, approval records and timestamps are left
  out.
* `draft` and `approved` statuses exist in constants of the code, and in the models
  wherever the code tests for them, but no operation of the code enters them.
* In `SessionClient` one tab alone uses `localStorage`; a reload happens once the application
  is mounted, at an address behind the guard; the list of rooms that follows the profile
  of a switching account is left out; a token may expire at any moment, whatever its
  lifetime.

### Not modelled

* *Holiday calendar and subsidy standards* (`services/holiday.py`): record keeping under
  unique keys. What the workflows read of it is the constant `Holidays`.
* *Monthly export*: one transaction reads, writes a file and a row; the only step that
  matters is the file that stays when a later step fails, which nothing reads again.
* *Dashboard and listings*: queries without state.
* *Views*: presentation; every rule they apply is applied again by the backend.
* *Shell, configuration, migrations, deployment*: wiring; of the migration what it seeds is
  in `Access`.

## 7. Plan

Done: the roster and its journals, swaps, leaves and covers, their composition, the
transactions of one room, rules and generation, organisation, shift definitions, accounts
and permissions, the session of a tab, and the proofs of section 5.

Next, in this order:

1. `RoomTxn`: the creation of swaps and the requests about covers beside the others, and
   the part of `TxnInv` that their locks need.
2. A leave whose applicant was moved off the shift: which statuses it can still reach, as an
   invariant of `DutyFlow`.
3. The days of several schedules: a new version that replaces the days of a swap or leave.
4. Several tabs over one `localStorage`; the selected room of the client.
5. Exports as far as they have behaviour.
