------------------------------ MODULE RoomTxn -------------------------------
(***************************************************************************)
(* Requests about one room as database transactions.  Each endpoint runs   *)
(* in a worker thread with a session of its own (db/session.py), in        *)
(* PostgreSQL's READ COMMITTED: a statement sees what was committed when   *)
(* it began, an UPDATE, DELETE or SELECT FOR UPDATE waits for the locks of *)
(* its rows and then looks at them again, an ORM write is flushed by id    *)
(* whatever the row holds by then, and of transactions that wait for each  *)
(* other one is rolled back.  There is one mutual swap, as create_swap     *)
(* left it, of two shifts with one person each.                            *)
(***************************************************************************)
EXTENDS Naturals, Sequences, FiniteSets

CONSTANTS
    Requests,            \* the requests that may be made, bounding their number
    Loads,               \* bound: what they ask for when they meet
    Source, Target,      \* the shifts of the swap
    Applicant, Partner,  \* and their persons
    None

Shifts == {Source, Target}
Tasks == {"target", "director"}

Kinds == {"none", "agree", "refuse", "approve", "reject", "withdraw", "cancel",
          "edit", "correct", "leave"}

\* What a request asks for: the shift of an edit, correction or leave, and the
\* person an edit or correction puts there or who sends the leave.
Ask(kind, on, person) == [kind |-> kind, on |-> on, person |-> person]

OneShift == {"edit", "correct", "leave"}

ASSUME TxnAssumption ==
    /\ \A load \in Loads : \A r \in Requests :
          /\ load[r].kind \in Kinds
          /\ load[r].on \in IF load[r].kind \in OneShift THEN Shifts ELSE {None}
    /\ Source # Target /\ Applicant # Partner /\ None \notin Requests \cup Shifts

VARIABLES
    asks,    \* asks[r]: what request r asks for
    db,      \* the committed statuses of the swap and of its two tasks
    rows,    \* the committed rows of the tables that are inserted into
    staged,  \* staged[r]: what r has written and not committed
    held,    \* held[r]: the rows r has locked
    pc,      \* pc[r]: position in r's program
    todo,    \* todo[r]: the rows the statement under way saw and has to lock
    wants    \* wants[r][s]: the persons r is going to put on shift s

txnVars == <<asks, db, rows, staged, held, pc, todo, wants>>

KindOf(r) == asks[r].kind

\* A row, which is also the name of its lock; "by" is the request that wrote it.
Row(table, shift, person, by) == [table |-> table, shift |-> shift, person |-> person, by |-> by]
DocRow(name) == Row(name, None, None, None)
ScheduleRow == DocRow("schedule")

\* The lock that an insertion referring to shift s takes on its row; SELECT FOR
\* UPDATE takes all of them.
KeyShare(s, r) == Row("shift", s, None, r)
ForUpdate(s) == { KeyShare(s, r) : r \in Requests }

(***************************************************************************)
(* The statements of each endpoint, in order.                              *)
(***************************************************************************)
Do(op, s) == [op |-> op, on |-> s]

\* update_schedule_shift_persons, in four steps
Rewrite(s) == <<Do("look", s), Do("delete", s), Do("lock", s), Do("insert", s)>>

\* Variant: the confirmation writes the swap before it completes its task.
ConfirmSwapFirst ==
    <<Do("read", None), Do("find", None), Do("write", None), Do("complete", None), Do("commit", None)>>

Confirm ==
    <<Do("read", None), Do("find", None), Do("complete", None), Do("write", None), Do("commit", None)>>

\* Variant: the decision is committed before the roster is changed.
ApproveCommitEarly ==
    <<Do("complete", None), Do("read", None), Do("write", None), Do("commit", None),
      Do("load", Source), Do("load", Target)>>
    \o Rewrite(Source) \o Rewrite(Target) \o <<Do("commit", None)>>

Approve ==
    <<Do("complete", None), Do("read", None), Do("load", Source), Do("load", Target)>>
    \o Rewrite(Source) \o Rewrite(Target) \o <<Do("write", None), Do("commit", None)>>

Reject == <<Do("complete", None), Do("read", None), Do("write", None), Do("commit", None)>>

CloseTasks == <<Do("select", None), Do("lock", None), Do("write", None)>>

Cancel ==
    <<Do("read", None), Do("load", Source)>> \o CloseTasks
    \o Rewrite(Source) \o <<Do("load", Target)>> \o Rewrite(Target) \o <<Do("commit", None)>>

\* Variant: the flag of the month is looked up before the staff is corrected.
CorrectFlagFirst(s) ==
    <<Do("seek", s)>> \o Rewrite(s) \o <<Do("flag", s), Do("commit", s)>>

Correct(s) == Rewrite(s) \o <<Do("seek", s), Do("flag", s), Do("commit", s)>>

\* Variant: the leave is filed without locking its shift.
LeaveUnlocked(s) == <<Do("check", s), Do("file", s), Do("commit", s)>>

Leave(s) == <<Do("reserve", s), Do("check", s), Do("file", s), Do("commit", s)>>

Programs == [call \in [kind : Kinds, on : Shifts \cup {None}] |->
    CASE call.kind \in {"agree", "refuse"} -> Confirm
      [] call.kind = "approve"  -> Approve
      [] call.kind = "reject"   -> Reject
      [] call.kind = "withdraw" -> <<Do("read", None)>> \o CloseTasks \o <<Do("commit", None)>>
      [] call.kind = "cancel"   -> Cancel
      [] call.kind = "edit"     -> Rewrite(call.on) \o <<Do("commit", call.on)>>
      [] call.kind = "correct"  -> Correct(call.on)
      [] call.kind = "leave"    -> Leave(call.on)
      [] OTHER -> <<>>]

Program(r) == Programs[[kind |-> KindOf(r), on |-> asks[r].on]]

\* The statuses in which the endpoint accepts the swap it has read.
Expected(kind) ==
    CASE kind \in {"agree", "refuse"}   -> {"wait_target_confirm"}
      [] kind \in {"approve", "reject"} -> {"wait_director_approval"}
      [] kind = "withdraw" -> {"draft", "wait_target_confirm", "wait_director_approval"}
      [] kind = "cancel"   -> {"approved", "effective"}

\* The status the endpoint writes.
Outcome(kind) ==
    CASE kind = "agree"    -> "wait_director_approval"
      [] kind = "approve"  -> "effective"
      [] kind \in {"refuse", "reject"} -> "rejected"
      [] kind = "withdraw" -> "withdrawn"
      [] kind = "cancel"   -> "cancelled"

\* The task the endpoint completes, and how.
TaskOf(kind) == IF kind \in {"agree", "refuse"} THEN "target" ELSE "director"
Answer(kind) == IF kind \in {"agree", "approve"} THEN "approved" ELSE "rejected"

-----------------------------------------------------------------------------
Over(r) == pc[r] = 0 \/ pc[r] > Len(Program(r))
Begun(r) == pc[r] > 1 /\ ~Over(r)
Statement(r) == Program(r)[pc[r]]
At(r, op) == ~Over(r) /\ Statement(r).op = op

\* The rows that r's next statement locks.
Wanted(r) ==
    CASE Over(r) -> {}
      [] At(r, "complete") -> {DocRow(TaskOf(KindOf(r)))}
      [] At(r, "lock")     -> todo[r]
      [] At(r, "write")    -> {DocRow("swap")}
      [] At(r, "insert")   -> {ScheduleRow, KeyShare(Statement(r).on, r)}
      [] At(r, "reserve")  -> ForUpdate(Statement(r).on)
      [] At(r, "file")     -> {KeyShare(Statement(r).on, r)}
      [] OTHER -> {}

WaitsFor(r, q) == q # r /\ held[q] # {} /\ Wanted(r) \cap held[q] # {}
Free(r) == \A q \in Requests : ~WaitsFor(r, q)
Lock(r) == Free(r) /\ held' = [held EXCEPT ![r] = @ \cup Wanted(r)]

Nothing == [set |-> <<>>, gone |-> {}, new |-> {}]
NoStaff == [s \in Shifts |-> {}]

Advance(r) == pc' = [pc EXCEPT ![r] = @ + 1]

\* r sees its own writes and those committed.
Seen(r) == (rows \ staged[r].gone) \cup staged[r].new
StaffRows(r, s) == { x \in Seen(r) : x.table = "staff" /\ x.shift = s }

Stage(r, gone, new) ==
    staged' = [staged EXCEPT ![r] =
                  [set |-> @.set, gone |-> @.gone \cup gone, new |-> @.new \cup new]]

StageStatus(r, values) ==
    staged' = [staged EXCEPT ![r].set =
        [x \in DOMAIN values \cup DOMAIN @ |-> IF x \in DOMAIN values THEN values[x] ELSE @[x]]]

\* Variant: the session is not closed when the endpoint raised.
RollBackUnclosed(r) ==
    /\ staged' = [staged EXCEPT ![r] = Nothing]
    /\ pc' = [pc EXCEPT ![r] = 0]
    /\ UNCHANGED <<asks, db, rows, held, todo, wants>>

\* The transaction is undone: the endpoint raised, or the database aborted it,
\* and get_db closes the session.
RollBack(r) ==
    /\ staged' = [staged EXCEPT ![r] = Nothing]
    /\ held' = [held EXCEPT ![r] = {}]
    /\ todo' = [todo EXCEPT ![r] = {}]
    /\ wants' = [wants EXCEPT ![r] = NoStaff]
    /\ pc' = [pc EXCEPT ![r] = 0]
    /\ UNCHANGED <<asks, db, rows>>

\* A statement that only reads, after which the endpoint goes on or raises.
Proceed(r, accepted) ==
    \/ accepted /\ Advance(r) /\ UNCHANGED <<asks, db, rows, staged, held, todo, wants>>
    \/ ~accepted /\ RollBack(r)

-----------------------------------------------------------------------------
\* get_swap and the check of the status
ReadSwap(r) == At(r, "read") /\ Proceed(r, db.swap \in Expected(KindOf(r)))

\* target_confirm looks its pending task up, without a lock.
FindTask(r) == At(r, "find") /\ Proceed(r, db.target = "pending")

\* Variant: the completion does not look at the status again.
CompleteTaskBlindly(r) ==
    /\ At(r, "complete")
    /\ db[TaskOf(KindOf(r))] # "none"
    /\ Lock(r)
    /\ StageStatus(r, [x \in {TaskOf(KindOf(r))} |-> Answer(KindOf(r))])
    /\ Advance(r) /\ UNCHANGED <<asks, db, rows, todo, wants>>

\* complete_task: UPDATE ... WHERE status = 'pending'.  A director has a task to
\* answer only once it was made.
CompleteTask(r) ==
    LET task == TaskOf(KindOf(r))
    IN  /\ At(r, "complete")
        /\ db[task] # "none" /\ Free(r)
        /\ \/ /\ db[task] = "pending" /\ Lock(r)
              /\ StageStatus(r, [x \in {task} |-> Answer(KindOf(r))])
              /\ Advance(r) /\ UNCHANGED <<asks, db, rows, todo, wants>>
           \/ db[task] # "pending" /\ RollBack(r)

\* cancel_pending_tasks: the SELECT FOR UPDATE begins ...
SelectTasks(r) ==
    /\ At(r, "select")
    /\ todo' = [todo EXCEPT ![r] = { DocRow(t) : t \in { x \in Tasks : db[x] = "pending" } }]
    /\ Advance(r) /\ UNCHANGED <<asks, db, rows, staged, held, wants>>

\* ... and goes on with the rows that are still pending when it has their locks.
LockTasks(r) ==
    /\ At(r, "lock") /\ Statement(r).on = None
    /\ Lock(r)
    /\ StageStatus(r, [t \in { x \in Tasks : DocRow(x) \in todo[r] /\ db[x] = "pending" } |->
                          "cancelled"])
    /\ todo' = [todo EXCEPT ![r] = {}]
    /\ Advance(r) /\ UNCHANGED <<asks, db, rows, wants>>

\* The flush of the swap's status; target_confirm makes the director's task in
\* the same flush.
WriteSwap(r) ==
    /\ At(r, "write")
    /\ Lock(r)
    /\ StageStatus(r, IF KindOf(r) = "agree"
                      THEN [x \in {"swap", "director"} |->
                              IF x = "swap" THEN Outcome("agree") ELSE "pending"]
                      ELSE [x \in {"swap"} |-> Outcome(KindOf(r))])
    /\ Advance(r) /\ UNCHANGED <<asks, db, rows, todo, wants>>

-----------------------------------------------------------------------------
(***************************************************************************)
(* update_schedule_shift_persons, called with a list of persons.  Two      *)
(* reads of the same rows in a row are taken as one.                       *)
(***************************************************************************)
\* Who serves on shift s before the swap and after it: an approval replaces the one
\* by the other, a cancellation the other by the one.
Before(s) == IF s = Source THEN Applicant ELSE Partner
After(s) == IF s = Source THEN Partner ELSE Applicant

Leaver(r, s) == IF KindOf(r) = "approve" THEN Before(s) ELSE After(s)
Joiner(r, s) == IF KindOf(r) = "approve" THEN After(s) ELSE Before(s)

\* The list of persons that the caller makes of those it has loaded.
Replaced(r, s, staff) ==
    IF Leaver(r, s) \in staff THEN (staff \ {Leaver(r, s)}) \cup {Joiner(r, s)} ELSE staff

\* The shift is loaded with its persons; an approval is refused if the person to
\* replace is not among them.
Load(r) ==
    LET s     == Statement(r).on
        staff == { x.person : x \in StaffRows(r, s) }
    IN  /\ At(r, "load")
        /\ \/ KindOf(r) = "approve" /\ Leaver(r, s) \notin staff /\ RollBack(r)
           \/ /\ KindOf(r) = "approve" => Leaver(r, s) \in staff
              /\ wants' = [wants EXCEPT ![r][s] = Replaced(r, s, staff)]
              /\ Advance(r) /\ UNCHANGED <<asks, db, rows, staged, held, todo>>

\* The persons are read and compared: a list of another length or with a person
\* twice is refused, a correction also if it changes nothing; other lists that
\* change nothing are skipped.
Look(r) ==
    LET s     == Statement(r).on
        found == StaffRows(r, s)
        staff == { x.person : x \in found }
        new   == IF KindOf(r) \in {"edit", "correct"} THEN {asks[r].person} ELSE wants[r][s]
    IN  /\ At(r, "look")
        /\ \/ /\ \/ Cardinality(new) # Cardinality(found)
                 \/ KindOf(r) = "correct" /\ new = staff
              /\ RollBack(r)
           \/ /\ Cardinality(new) = Cardinality(found) /\ new # staff
              /\ wants' = [wants EXCEPT ![r][s] = new]
              /\ Advance(r) /\ UNCHANGED <<asks, db, rows, staged, held, todo>>
           \/ /\ Cardinality(new) = Cardinality(found) /\ new = staff
              /\ KindOf(r) # "correct"
              /\ wants' = [wants EXCEPT ![r][s] = {}]
              /\ pc' = [pc EXCEPT ![r] = @ + Len(Rewrite(s))]
              /\ UNCHANGED <<asks, db, rows, staged, held, todo>>

\* DELETE FROM schedule_shift_person: the rows it sees ...
DeleteStaff(r) ==
    /\ At(r, "delete")
    /\ todo' = [todo EXCEPT ![r] = StaffRows(r, Statement(r).on)]
    /\ Advance(r) /\ UNCHANGED <<asks, db, rows, staged, held, wants>>

\* ... are deleted when it has their locks, unless another request did so first.
LockStaff(r) ==
    /\ At(r, "lock") /\ Statement(r).on # None
    /\ Lock(r)
    /\ Stage(r, todo[r] \cap rows, {})
    /\ todo' = [todo EXCEPT ![r] = {}]
    /\ Advance(r) /\ UNCHANGED <<asks, db, rows, wants>>

\* The flush: the schedule's version is moved on, the staff and the change log
\* are inserted.
InsertStaff(r) ==
    LET s == Statement(r).on
    IN  /\ At(r, "insert")
        /\ Lock(r)
        /\ Stage(r, {}, { Row("staff", s, p, r) : p \in wants[r][s] } \cup {Row("log", s, None, r)})
        /\ wants' = [wants EXCEPT ![r][s] = {}]
        /\ Advance(r) /\ UNCHANGED <<asks, db, rows, todo>>

\* apply_historical_correction looks the flag of the month up ...
SeekFlag(r) ==
    /\ At(r, "seek")
    /\ todo' = [todo EXCEPT ![r] = { x \in Seen(r) : x.table = "flag" }]
    /\ Advance(r) /\ UNCHANGED <<asks, db, rows, staged, held, wants>>

\* ... and sets it again, or inserts it.
WriteFlag(r) ==
    /\ At(r, "flag")
    /\ Stage(r, {}, IF todo[r] = {} THEN {Row("flag", None, None, r)} ELSE {})
    /\ todo' = [todo EXCEPT ![r] = {}]
    /\ Advance(r) /\ UNCHANGED <<asks, db, rows, held, wants>>

\* create_leave locks the shift, then checks and files the request.
ReserveShift(r) ==
    /\ At(r, "reserve")
    /\ Lock(r)
    /\ Advance(r) /\ UNCHANGED <<asks, db, rows, staged, todo, wants>>

CheckLeave(r) ==
    LET s == Statement(r).on
    IN  /\ At(r, "check")
        /\ Proceed(r, /\ \E x \in StaffRows(r, s) : x.person = asks[r].person
                      /\ ~\E x \in Seen(r) :
                            x.table = "leave" /\ x.shift = s /\ x.person = asks[r].person)

FileLeave(r) ==
    /\ At(r, "file")
    /\ Lock(r)
    /\ Stage(r, {}, {Row("leave", Statement(r).on, asks[r].person, r)})
    /\ Advance(r) /\ UNCHANGED <<asks, db, rows, todo, wants>>

-----------------------------------------------------------------------------
Commit(r) ==
    /\ At(r, "commit")
    /\ db' = [x \in DOMAIN db |->
                IF x \in DOMAIN staged[r].set THEN staged[r].set[x] ELSE db[x]]
    /\ rows' = Seen(r)
    /\ staged' = [staged EXCEPT ![r] = Nothing]
    /\ held' = [held EXCEPT ![r] = {}]
    /\ Advance(r) /\ UNCHANGED <<asks, todo, wants>>

\* The worker or its connection dies after the request began.
Crash(r) == Begun(r) /\ RollBack(r)

\* The database finds r among requests that wait for each other.
Waiting == { q \in Requests : ~Free(q) }
Deadlocked(r) ==
    /\ ~Free(r)
    /\ \E circle \in SUBSET Waiting :
          /\ r \in circle
          /\ \A q \in circle : /\ \E p \in circle : WaitsFor(q, p)
                               /\ \E p \in circle : WaitsFor(p, q)

Abort(r) == Deadlocked(r) /\ RollBack(r)

TxnInit ==
    /\ asks \in Loads
    /\ db = [swap |-> "wait_target_confirm", target |-> "pending", director |-> "none"]
    /\ rows = {Row("staff", Source, Applicant, None), Row("staff", Target, Partner, None)}
    /\ staged = [r \in Requests |-> Nothing]
    /\ held = [r \in Requests |-> {}]
    /\ pc = [r \in Requests |-> 1]
    /\ todo = [r \in Requests |-> {}]
    /\ wants = [r \in Requests |-> NoStaff]

Step(r) ==
    \/ ReadSwap(r) \/ FindTask(r) \/ CompleteTask(r) \/ SelectTasks(r) \/ LockTasks(r)
    \/ WriteSwap(r)
    \/ Load(r) \/ Look(r) \/ DeleteStaff(r) \/ LockStaff(r) \/ InsertStaff(r)
    \/ SeekFlag(r) \/ WriteFlag(r)
    \/ ReserveShift(r) \/ CheckLeave(r) \/ FileLeave(r)
    \/ Commit(r) \/ Abort(r)

TxnNext == \E r \in Requests : Step(r) \/ Crash(r)

\* A worker thread goes on with the request it has begun, and PostgreSQL looks
\* for deadlocks.
TxnFairness == \A r \in Requests : WF_txnVars(Begun(r) /\ Step(r))

TxnSpec == TxnInit /\ [][TxnNext]_txnVars /\ TxnFairness

-----------------------------------------------------------------------------
Committed(table) == { x \in rows : x.table = table }
ChangedBy(kind) == { x \in Committed("log") : KindOf(x.by) = kind }

\* An answered or cancelled task is never answered again, however the requests
\* of the target person, the applicant and the directors overlap.
AnsweredOnce ==
    [][ \A t \in Tasks : db[t] \notin {"none", "pending"} => db'[t] = db[t] ]_txnVars

\* Somebody else has already put on shift s the person whom the swap brings there:
\* an approval that finds so changes nothing (schedule.py:205).
Forestalled(s) ==
    \E x \in Committed("log") :
        x.shift = s /\ KindOf(x.by) \in {"edit", "correct"} /\ asks[x.by].person = After(s)

\* The roster and the swap are changed by one transaction: nobody ever sees an
\* effective swap without its change of each shift, an open or rejected one with a
\* change, or one in effect whose cancellation has changed the roster, whatever
\* edits and leaves of the same shifts run beside it.
RosterFollowsDecision ==
    /\ db.swap \in {"effective", "cancelled"} =>
          \A s \in Shifts : s \in { x.shift : x \in ChangedBy("approve") } \/ Forestalled(s)
    /\ db.swap \in {"wait_target_confirm", "wait_director_approval", "rejected"} =>
          ChangedBy("approve") = {}
    /\ ChangedBy("cancel") # {} => db.swap \notin Expected("approve") \cup Expected("cancel")

\* A double submission of a leave, or two windows, leave one request for the
\* duty: create_leave locks the shift's row before it looks (leave.py:52-53).
LeavesExcludeEachOther ==
    \A x, y \in Committed("leave") : x.shift = y.shift /\ x.person = y.person => x = y

\* Corrections of one month that overlap insert one flag, and a correction that is
\* committed leaves it: the flag is looked up behind the lock of the schedule. (Of
\* two insertions the unique key of the month would refuse one, with its correction.)
CorrectedMonthHasOneFlag ==
    /\ \A x, y \in Committed("flag") : x = y
    /\ ChangedBy("correct") # {} => Committed("flag") # {}

\* Confirmations, decisions, withdrawals, cancellations and leaves never have to be
\* aborted because they wait for each other, and neither have edits and corrections:
\* all take the task's row before the swap's, and a shift's rows before the
\* schedule's.  Only a request that changes two shifts and an edit or correction of
\* the second, which it reaches with the schedule locked, take them in opposite orders.
DeadlocksNeedAnEdit ==
    \A r \in Requests : Deadlocked(r) =>
        \E q, e \in Requests :
            /\ WaitsFor(q, e) /\ KindOf(q) \in {"approve", "cancel"}
            /\ WaitsFor(e, q) /\ KindOf(e) \in {"edit", "correct"} /\ asks[e].on = Target

\* A request that has begun comes to its end, whoever else was refused, aborted or
\* died while it waited: nobody keeps a lock when his request is over.
BegunRequestsEnd == \A r \in Requests : Begun(r) ~> Over(r)

-----------------------------------------------------------------------------
(***************************************************************************)
(* Statements that hold one request at a time and not of transactions.     *)
(***************************************************************************)
\* A withdrawn swap leaves the roster as it was (docs/design/03, s.6.2: on
\* rejection or withdrawal the duty does not change).
WithdrawnSwapChangesNothing == db.swap = "withdrawn" => ChangedBy("approve") = {}

\* The number of persons of a shift stays as it is (schedule.py:199, "the number
\* of persons on duty must remain").
HeadCountStays ==
    \A s \in Shifts : Cardinality({ x \in Committed("staff") : x.shift = s }) = 1
=============================================================================
