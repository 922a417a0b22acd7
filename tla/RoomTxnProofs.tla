--------------------------- MODULE RoomTxnProofs ---------------------------
(***************************************************************************)
(* Proofs about RoomTxn, for any number of requests at once: the roster    *)
(* follows the decision on the swap, an answer is given once, a duty has   *)
(* one leave and a month one flag, and only edits make deadlocks.          *)
(*                                                                         *)
(* A step of a request is at one of the places of its program.  There it   *)
(* undoes the transaction, commits it, or moves within it; the invariant   *)
(* says of each request what it has locked, found and staged at each       *)
(* place, so each layer (locks, documents, roster, leaves, flags) has one  *)
(* lemma for each of the three.                                            *)
(***************************************************************************)
EXTENDS RoomTxn, TLAPS

-----------------------------------------------------------------------------
(***************************************************************************)
(* The places of a program.                                                *)
(***************************************************************************)
Editors == {"edit", "correct"}

\* What the assumption says of the requests, as a state predicate.
Asked == \A r \in Requests :
    /\ KindOf(r) \in Kinds
    /\ asks[r].on \in IF KindOf(r) \in OneShift THEN Shifts ELSE {None}

\* Where a request reads and writes the swap and its tasks, ...
DocumentPlace(r, op) ==
    \/ op = "read" /\ KindOf(r) \in {"agree", "refuse", "withdraw", "cancel"} /\ pc[r] = 1
    \/ op = "read" /\ KindOf(r) \in {"approve", "reject"} /\ pc[r] = 2
    \/ op = "find" /\ KindOf(r) \in {"agree", "refuse"} /\ pc[r] = 2
    \/ op = "complete" /\ KindOf(r) \in {"agree", "refuse"} /\ pc[r] = 3
    \/ op = "complete" /\ KindOf(r) \in {"approve", "reject"} /\ pc[r] = 1
    \/ op = "select" /\ KindOf(r) = "withdraw" /\ pc[r] = 2
    \/ op = "select" /\ KindOf(r) = "cancel" /\ pc[r] = 3
    \/ op = "lock" /\ KindOf(r) = "withdraw" /\ pc[r] = 3 /\ Statement(r).on = None
    \/ op = "lock" /\ KindOf(r) = "cancel" /\ pc[r] = 4 /\ Statement(r).on = None
    \/ op = "write" /\ KindOf(r) \in {"agree", "refuse", "withdraw"} /\ pc[r] = 4
    \/ op = "write" /\ KindOf(r) = "approve" /\ pc[r] = 13
    \/ op = "write" /\ KindOf(r) = "reject" /\ pc[r] = 3
    \/ op = "write" /\ KindOf(r) = "cancel" /\ pc[r] = 5

\* ... where it deals with the staff of a shift, ...
StaffPlace(r, op) ==
    \/ /\ KindOf(r) = "approve" /\ Statement(r).on = Source
       /\ <<op, pc[r]>> \in {<<"load", 3>>, <<"look", 5>>, <<"delete", 6>>,
                               <<"lock", 7>>, <<"insert", 8>>}
    \/ /\ KindOf(r) = "approve" /\ Statement(r).on = Target
       /\ <<op, pc[r]>> \in {<<"load", 4>>, <<"look", 9>>, <<"delete", 10>>,
                               <<"lock", 11>>, <<"insert", 12>>}
    \/ /\ KindOf(r) = "cancel" /\ Statement(r).on = Source
       /\ <<op, pc[r]>> \in {<<"load", 2>>, <<"look", 6>>, <<"delete", 7>>,
                               <<"lock", 8>>, <<"insert", 9>>}
    \/ /\ KindOf(r) = "cancel" /\ Statement(r).on = Target
       /\ <<op, pc[r]>> \in {<<"load", 10>>, <<"look", 11>>, <<"delete", 12>>,
                               <<"lock", 13>>, <<"insert", 14>>}
    \/ /\ KindOf(r) \in Editors /\ Statement(r).on = asks[r].on
       /\ <<op, pc[r]>> \in {<<"look", 1>>, <<"delete", 2>>, <<"lock", 3>>, <<"insert", 4>>}

\* ... where a correction deals with the flag and a leave with its shift, ...
OnePlace(r, op) ==
    \/ /\ KindOf(r) = "correct" /\ Statement(r).on = asks[r].on
       /\ <<op, pc[r]>> \in {<<"seek", 5>>, <<"flag", 6>>}
    \/ /\ KindOf(r) = "leave" /\ Statement(r).on = asks[r].on
       /\ <<op, pc[r]>> \in {<<"reserve", 1>>, <<"check", 2>>, <<"file", 3>>}

\* ... and where it commits.
Ends(r) ==
    \/ KindOf(r) \in {"agree", "refuse", "withdraw", "edit"} /\ pc[r] = 5
    \/ KindOf(r) = "approve" /\ pc[r] = 14
    \/ KindOf(r) \in {"reject", "leave"} /\ pc[r] = 4
    \/ KindOf(r) = "cancel" /\ pc[r] = 15
    \/ KindOf(r) = "correct" /\ pc[r] = 7

\* These are all the places of a program.
LEMMA Places ==
    ASSUME Asked, NEW r \in Requests, pc[r] \in Nat, NEW op, At(r, op)
    PROVE  DocumentPlace(r, op) \/ StaffPlace(r, op) \/ OnePlace(r, op) \/ (op = "commit" /\ Ends(r))
<1> USE DEF Over, Do, DocumentPlace, StaffPlace, OnePlace, Ends, Editors
<1>1. ~Over(r) /\ Statement(r) = Program(r)[pc[r]] /\ Statement(r).op = op
  BY DEF At, Statement
<1>2. CASE KindOf(r) \in {"agree", "refuse"}
  <2>1. Program(r) = Confirm
    BY <1>2 DEF Asked, Program, Programs, Kinds, OneShift
  <2> QED
    BY <1>1, <1>2, <2>1 DEF Confirm
<1>3. CASE KindOf(r) = "approve"
  <2>1. Program(r) = Approve
    BY <1>3 DEF Asked, Program, Programs, Kinds, OneShift
  <2> DEFINE steps ==
                  <<Do("complete", None), Do("read", None), Do("load", Source), Do("load", Target),
                    Do("look", Source), Do("delete", Source), Do("lock", Source), Do("insert", Source),
                    Do("look", Target), Do("delete", Target), Do("lock", Target), Do("insert", Target),
                    Do("write", None), Do("commit", None)>>
  <2>2. Len(Approve) = 14 /\ \A i \in 1..14 : Approve[i] = steps[i]
    BY DEF Approve, Rewrite
  <2> QED
    BY <1>1, <1>3, <2>1, <2>2
<1>4. CASE KindOf(r) = "reject"
  <2>1. Program(r) = Reject
    BY <1>4 DEF Asked, Program, Programs, Kinds, OneShift
  <2> QED
    BY <1>1, <1>4, <2>1 DEF Reject
<1>5. CASE KindOf(r) = "withdraw"
  <2>1. Program(r) = <<Do("read", None)>> \o CloseTasks \o <<Do("commit", None)>>
    BY <1>5 DEF Asked, Program, Programs, Kinds, OneShift
  <2> QED
    BY <1>1, <1>5, <2>1 DEF CloseTasks
<1>6. CASE KindOf(r) = "cancel"
  <2>1. Program(r) = Cancel
    BY <1>6 DEF Asked, Program, Programs, Kinds, OneShift
  <2> DEFINE steps ==
                 <<Do("read", None), Do("load", Source),
                   Do("select", None), Do("lock", None), Do("write", None),
                   Do("look", Source), Do("delete", Source), Do("lock", Source), Do("insert", Source),
                   Do("load", Target),
                   Do("look", Target), Do("delete", Target), Do("lock", Target), Do("insert", Target),
                   Do("commit", None)>>
  <2>2. Len(Cancel) = 15 /\ \A i \in 1..15 : Cancel[i] = steps[i]
    BY DEF Cancel, CloseTasks, Rewrite
  <2> QED
    BY <1>1, <1>6, <2>1, <2>2
<1>7. CASE KindOf(r) = "edit"
  <2>1. Program(r) = Rewrite(asks[r].on) \o <<Do("commit", asks[r].on)>>
    BY <1>7 DEF Asked, Program, Programs, Kinds, OneShift
  <2> QED
    BY <1>1, <1>7, <2>1 DEF Rewrite
<1>8. CASE KindOf(r) = "correct"
  <2>1. Program(r) = Correct(asks[r].on)
    BY <1>8 DEF Asked, Program, Programs, Kinds, OneShift
  <2> QED
    BY <1>1, <1>8, <2>1 DEF Correct, Rewrite
<1>9. CASE KindOf(r) = "leave"
  <2>1. Program(r) = Leave(asks[r].on)
    BY <1>9 DEF Asked, Program, Programs, Kinds, OneShift
  <2> QED
    BY <1>1, <1>9, <2>1 DEF Leave
<1>10. CASE KindOf(r) = "none"
  <2>1. Program(r) = <<>>
    BY <1>10 DEF Asked, Program, Programs, Kinds, OneShift
  <2> QED
    BY <1>1, <2>1
<1> QED
  BY <1>2, <1>3, <1>4, <1>5, <1>6, <1>7, <1>8, <1>9, <1>10 DEF Asked, Kinds

\* The place of each step.
LEMMA StepPlaces ==
    ASSUME Asked, NEW r \in Requests, pc[r] \in Nat
    PROVE  /\ ReadSwap(r) => DocumentPlace(r, "read")
           /\ FindTask(r) => DocumentPlace(r, "find")
           /\ CompleteTask(r) => DocumentPlace(r, "complete")
           /\ SelectTasks(r) => DocumentPlace(r, "select")
           /\ LockTasks(r) => DocumentPlace(r, "lock")
           /\ WriteSwap(r) => DocumentPlace(r, "write")
           /\ Load(r) => StaffPlace(r, "load")
           /\ Look(r) => StaffPlace(r, "look")
           /\ DeleteStaff(r) => StaffPlace(r, "delete")
           /\ LockStaff(r) => StaffPlace(r, "lock")
           /\ InsertStaff(r) => StaffPlace(r, "insert")
           /\ SeekFlag(r) => OnePlace(r, "seek")
           /\ WriteFlag(r) => OnePlace(r, "flag")
           /\ ReserveShift(r) => OnePlace(r, "reserve")
           /\ CheckLeave(r) => OnePlace(r, "check")
           /\ FileLeave(r) => OnePlace(r, "file")
           /\ Commit(r) => Ends(r)
           /\ \A op : StaffPlace(r, op) => Statement(r).on \in Shifts
<1>1. /\ None \notin Shifts /\ Source \in Shifts /\ Target \in Shifts
      /\ KindOf(r) \in Editors => asks[r].on \in Shifts
  BY TxnAssumption DEF Asked, Editors, OneShift, Shifts
<1>2. \A op : StaffPlace(r, op) => Statement(r).on \in Shifts
  BY <1>1 DEF StaffPlace
<1>3. \A op : DocumentPlace(r, op) =>
          /\ op \in {"read", "find", "complete", "select", "lock", "write"}
          /\ op = "lock" => Statement(r).on = None
  BY DEF DocumentPlace
<1>4. \A op : StaffPlace(r, op) => op \in {"load", "look", "delete", "lock", "insert"}
  BY DEF StaffPlace
<1>5. \A op : OnePlace(r, op) => op \in {"seek", "flag", "reserve", "check", "file"}
  BY DEF OnePlace
<1>6. \A op : At(r, op) =>
          DocumentPlace(r, op) \/ StaffPlace(r, op) \/ OnePlace(r, op) \/ (op = "commit" /\ Ends(r))
  BY Places
<1>7. /\ ReadSwap(r) => At(r, "read")
      /\ FindTask(r) => At(r, "find")
      /\ CompleteTask(r) => At(r, "complete")
      /\ SelectTasks(r) => At(r, "select")
      /\ LockTasks(r) => At(r, "lock") /\ Statement(r).on = None
      /\ WriteSwap(r) => At(r, "write")
  BY DEF ReadSwap, FindTask, CompleteTask, SelectTasks, LockTasks, WriteSwap
<1>8. /\ Load(r) => At(r, "load")
      /\ Look(r) => At(r, "look")
      /\ DeleteStaff(r) => At(r, "delete")
      /\ LockStaff(r) => At(r, "lock") /\ Statement(r).on # None
      /\ InsertStaff(r) => At(r, "insert")
  BY DEF Load, Look, DeleteStaff, LockStaff, InsertStaff
<1>9. /\ SeekFlag(r) => At(r, "seek")
      /\ WriteFlag(r) => At(r, "flag")
      /\ ReserveShift(r) => At(r, "reserve")
      /\ CheckLeave(r) => At(r, "check")
      /\ FileLeave(r) => At(r, "file")
      /\ Commit(r) => At(r, "commit")
  BY DEF SeekFlag, WriteFlag, ReserveShift, CheckLeave, FileLeave, Commit
<1> QED
  BY <1>1, <1>2, <1>3, <1>4, <1>5, <1>6, <1>7, <1>8, <1>9
-----------------------------------------------------------------------------
(***************************************************************************)
(* What each step does to the state.                                       *)
(***************************************************************************)
Shapes ==
    /\ Asked
    /\ DOMAIN db = {"swap", "target", "director"}
    /\ DOMAIN staged = Requests /\ DOMAIN held = Requests /\ DOMAIN pc = Requests
    /\ DOMAIN todo = Requests /\ DOMAIN wants = Requests
    /\ \A r \in Requests : /\ DOMAIN staged[r] = {"set", "gone", "new"}
                           /\ DOMAIN wants[r] = Shifts
                           /\ pc[r] \in Nat

\* The other requests stay where they are.
Apart(r) ==
    \A q \in Requests : q # r =>
        /\ staged'[q] = staged[q] /\ held'[q] = held[q] /\ pc'[q] = pc[q]
        /\ todo'[q] = todo[q] /\ wants'[q] = wants[q]

\* r ends without its commit.
Undone(r) ==
    /\ Shapes' /\ Apart(r) /\ UNCHANGED <<asks, db, rows>>
    /\ staged'[r] = Nothing /\ held'[r] = {} /\ todo'[r] = {} /\ wants'[r] = NoStaff
    /\ pc'[r] = 0

\* r goes on to its next statement, without a commit.
Goes(r) ==
    /\ Shapes' /\ Apart(r) /\ UNCHANGED <<asks, db, rows>>
    /\ pc'[r] = pc[r] + 1

\* A rollback undoes the transaction.
LEMMA RollBackEffect ==
    ASSUME Shapes, NEW r \in Requests, RollBack(r)
    PROVE  Undone(r)
<1>1. /\ staged' = [staged EXCEPT ![r] = Nothing] /\ held' = [held EXCEPT ![r] = {}]
      /\ todo' = [todo EXCEPT ![r] = {}] /\ wants' = [wants EXCEPT ![r] = NoStaff]
      /\ pc' = [pc EXCEPT ![r] = 0] /\ UNCHANGED <<asks, db, rows>>
  BY DEF RollBack
<1>2. /\ Apart(r) /\ staged'[r] = Nothing /\ held'[r] = {} /\ todo'[r] = {}
      /\ wants'[r] = NoStaff /\ pc'[r] = 0
  BY <1>1 DEF Shapes, Apart
<1>3. Asked'
  BY <1>1 DEF Shapes, Asked, KindOf
<1>4. Shapes'
  BY <1>1, <1>2, <1>3 DEF Shapes, Apart, Nothing, NoStaff
<1> QED
  BY <1>1, <1>2, <1>4 DEF Undone

\* What the parts of a step do: the next statement, ...
LEMMA AdvanceEffect ==
    ASSUME Shapes, NEW r \in Requests, Advance(r)
    PROVE  /\ DOMAIN pc' = Requests /\ pc'[r] = pc[r] + 1
           /\ \A q \in Requests : pc'[q] \in Nat /\ (q # r => pc'[q] = pc[q])
BY DEF Shapes, Advance

\* ... rows staged, ...
LEMMA StageEffect ==
    ASSUME Shapes, NEW r \in Requests, NEW gone, NEW new, Stage(r, gone, new)
    PROVE  /\ DOMAIN staged' = Requests /\ DOMAIN staged'[r] = {"set", "gone", "new"}
           /\ staged'[r].set = staged[r].set
           /\ staged'[r].gone = staged[r].gone \cup gone
           /\ staged'[r].new = staged[r].new \cup new
           /\ \A q \in Requests : q # r => staged'[q] = staged[q]
BY DEF Shapes, Stage

\* ... statuses staged, ...
LEMMA StageStatusEffect ==
    ASSUME Shapes, NEW r \in Requests, NEW values, StageStatus(r, values)
    PROVE  /\ DOMAIN staged' = Requests /\ DOMAIN staged'[r] = {"set", "gone", "new"}
           /\ staged'[r].gone = staged[r].gone /\ staged'[r].new = staged[r].new
           /\ staged'[r].set = [x \in DOMAIN values \cup DOMAIN staged[r].set |->
                  IF x \in DOMAIN values THEN values[x] ELSE staged[r].set[x]]
           /\ \A q \in Requests : q # r => staged'[q] = staged[q]
BY DEF Shapes, StageStatus

\* ... and locks, which nobody else had.
LEMMA LockEffect ==
    ASSUME Shapes, NEW r \in Requests, Lock(r)
    PROVE  /\ DOMAIN held' = Requests /\ held'[r] = held[r] \cup Wanted(r)
           /\ \A q \in Requests : q # r => held'[q] = held[q] /\ Wanted(r) \cap held[q] = {}
<1>1. \A q \in Requests : q # r => Wanted(r) \cap held[q] = {}
  BY DEF Lock, Free, WaitsFor
<1>2. held' = [held EXCEPT ![r] = held[r] \cup Wanted(r)]
  BY DEF Lock
<1> QED
  BY <1>1, <1>2 DEF Shapes

\* The rows that each kind of statement locks.
LEMMA WantedAt ==
    ASSUME NEW r, NEW op, At(r, op)
    PROVE  /\ op = "complete" => Wanted(r) = {DocRow(TaskOf(KindOf(r)))}
           /\ op = "lock" => Wanted(r) = todo[r]
           /\ op = "write" => Wanted(r) = {DocRow("swap")}
           /\ op = "insert" => Wanted(r) = {ScheduleRow, KeyShare(Statement(r).on, r)}
           /\ op = "reserve" => Wanted(r) = ForUpdate(Statement(r).on)
           /\ op = "file" => Wanted(r) = {KeyShare(Statement(r).on, r)}
           /\ op \notin {"complete", "lock", "write", "insert", "reserve", "file"} => Wanted(r) = {}
BY DEF Wanted, At

\* A step that goes on.
LEMMA GoesOn ==
    ASSUME Shapes, NEW r \in Requests, Advance(r), UNCHANGED <<asks, db, rows>>,
           \/ UNCHANGED staged
           \/ \E gone, new : Stage(r, gone, new)
           \/ \E values : StageStatus(r, values),
           UNCHANGED held \/ Lock(r),
           UNCHANGED todo \/ \E X : todo' = [todo EXCEPT ![r] = X],
           UNCHANGED wants \/ \E s \in Shifts : \E X : wants' = [wants EXCEPT ![r][s] = X]
    PROVE  Goes(r)
<1>1. /\ DOMAIN pc' = Requests /\ pc'[r] = pc[r] + 1
      /\ \A q \in Requests : pc'[q] \in Nat /\ (q # r => pc'[q] = pc[q])
  BY AdvanceEffect
<1> DEFINE Staging == /\ DOMAIN staged' = Requests
                      /\ \A q \in Requests : /\ DOMAIN staged'[q] = {"set", "gone", "new"}
                                             /\ q # r => staged'[q] = staged[q]
<1>2. Staging
  <2>1. CASE UNCHANGED staged
    BY <2>1 DEF Shapes
  <2>2. ASSUME NEW gone, NEW new, Stage(r, gone, new) PROVE Staging
    <3>1. /\ DOMAIN staged' = Requests /\ DOMAIN staged'[r] = {"set", "gone", "new"}
          /\ \A q \in Requests : q # r => staged'[q] = staged[q]
      BY <2>2, StageEffect
    <3> QED
      BY <3>1 DEF Shapes
  <2>3. ASSUME NEW values, StageStatus(r, values) PROVE Staging
    <3>1. /\ DOMAIN staged' = Requests /\ DOMAIN staged'[r] = {"set", "gone", "new"}
          /\ \A q \in Requests : q # r => staged'[q] = staged[q]
      BY <2>3, StageStatusEffect
    <3> QED
      BY <3>1 DEF Shapes
  <2> HIDE DEF Staging
  <2>4. \/ UNCHANGED staged
        \/ \E gone, new : Stage(r, gone, new)
        \/ \E values : StageStatus(r, values)
    OBVIOUS
  <2> QED
    BY <2>1, <2>2, <2>3, <2>4
<1>3. DOMAIN held' = Requests /\ \A q \in Requests : q # r => held'[q] = held[q]
  BY LockEffect DEF Shapes
<1>4. DOMAIN todo' = Requests /\ \A q \in Requests : q # r => todo'[q] = todo[q]
  BY DEF Shapes
<1>5. /\ DOMAIN wants' = Requests
      /\ \A q \in Requests : DOMAIN wants'[q] = Shifts /\ (q # r => wants'[q] = wants[q])
  BY DEF Shapes
<1>6. Asked' /\ DOMAIN db' = {"swap", "target", "director"}
  BY DEF Shapes, Asked, KindOf
<1> QED
  BY <1>1, <1>2, <1>3, <1>4, <1>5, <1>6 DEF Goes, Shapes, Apart

\* A statement that only reads.
LEMMA ProceedEffect ==
    ASSUME Shapes, NEW r \in Requests, NEW accepted, Proceed(r, accepted)
    PROVE  Undone(r) \/ (accepted /\ Goes(r) /\ UNCHANGED <<staged, held, todo, wants>>)
<1>1. CASE RollBack(r)
  BY <1>1, RollBackEffect
<1>2. CASE accepted /\ Advance(r) /\ UNCHANGED <<asks, db, rows, staged, held, todo, wants>>
  BY <1>2, GoesOn
<1> QED
  BY <1>1, <1>2 DEF Proceed

\* The completion of a task stages its answer and locks its row, unless it is refused.
LEMMA CompleteTaskEffect ==
    ASSUME Shapes, NEW r \in Requests, CompleteTask(r)
    PROVE  \/ Undone(r)
           \/ /\ Goes(r) /\ db[TaskOf(KindOf(r))] = "pending"
              /\ staged'[r].gone = staged[r].gone /\ staged'[r].new = staged[r].new
              /\ staged'[r].set = [x \in {TaskOf(KindOf(r))} \cup DOMAIN staged[r].set |->
                     IF x = TaskOf(KindOf(r)) THEN Answer(KindOf(r)) ELSE staged[r].set[x]]
              /\ held'[r] = held[r] \cup {DocRow(TaskOf(KindOf(r)))}
              /\ \A q \in Requests : q # r => DocRow(TaskOf(KindOf(r))) \notin held[q]
              /\ UNCHANGED <<todo, wants>>
<1> DEFINE task == TaskOf(KindOf(r))
           values == [x \in {task} |-> Answer(KindOf(r))]
<1>1. CASE RollBack(r)
  BY <1>1, RollBackEffect
<1>2. CASE /\ db[task] = "pending" /\ Lock(r) /\ StageStatus(r, values)
           /\ Advance(r) /\ UNCHANGED <<asks, db, rows, todo, wants>>
  <2>1. Goes(r)
    BY <1>2, GoesOn
  <2>2. Wanted(r) = {DocRow(task)}
    BY WantedAt DEF CompleteTask
  <2>3. /\ staged'[r].gone = staged[r].gone /\ staged'[r].new = staged[r].new
        /\ staged'[r].set = [x \in DOMAIN values \cup DOMAIN staged[r].set |->
               IF x \in DOMAIN values THEN values[x] ELSE staged[r].set[x]]
    BY <1>2, StageStatusEffect
  <2>4. /\ held'[r] = held[r] \cup {DocRow(task)}
        /\ \A q \in Requests : q # r => DocRow(task) \notin held[q]
    BY <1>2, <2>2, LockEffect
  <2> HIDE DEF task
  <2>5. staged'[r].set = [x \in {task} \cup DOMAIN staged[r].set |->
               IF x = task THEN Answer(KindOf(r)) ELSE staged[r].set[x]]
    BY <2>3
  <2> QED
    BY <1>2, <2>1, <2>3, <2>4, <2>5 DEF task
<1> QED
  BY <1>1, <1>2 DEF CompleteTask

\* The tasks to cancel are those that are pending, ...
LEMMA SelectTasksEffect ==
    ASSUME Shapes, NEW r \in Requests, SelectTasks(r)
    PROVE  /\ Goes(r) /\ UNCHANGED <<staged, held, wants>>
           /\ todo'[r] = { DocRow(t) : t \in { x \in Tasks : db[x] = "pending" } }
BY GoesOn DEF SelectTasks, Shapes

\* ... and those that still are when they are locked are staged as cancelled.
LEMMA LockTasksEffect ==
    ASSUME Shapes, NEW r \in Requests, LockTasks(r)
    PROVE  LET open == { x \in Tasks : DocRow(x) \in todo[r] /\ db[x] = "pending" }
           IN  /\ Goes(r) /\ UNCHANGED wants /\ todo'[r] = {}
               /\ staged'[r].gone = staged[r].gone /\ staged'[r].new = staged[r].new
               /\ staged'[r].set = [x \in open \cup DOMAIN staged[r].set |->
                      IF x \in open THEN "cancelled" ELSE staged[r].set[x]]
               /\ held'[r] = held[r] \cup todo[r]
               /\ \A q \in Requests : q # r => todo[r] \cap held[q] = {}
<1> DEFINE open == { x \in Tasks : DocRow(x) \in todo[r] /\ db[x] = "pending" }
           values == [x \in open |-> "cancelled"]
<1>1. Lock(r) /\ StageStatus(r, values) /\ Advance(r) /\ UNCHANGED <<asks, db, rows, wants>>
  BY DEF LockTasks
<1>2. Goes(r)
  BY <1>1, GoesOn DEF LockTasks
<1>3. Wanted(r) = todo[r]
  BY WantedAt DEF LockTasks
<1>4. /\ staged'[r].gone = staged[r].gone /\ staged'[r].new = staged[r].new
      /\ staged'[r].set = [x \in DOMAIN values \cup DOMAIN staged[r].set |->
             IF x \in DOMAIN values THEN values[x] ELSE staged[r].set[x]]
  BY <1>1, StageStatusEffect
<1>5. held'[r] = held[r] \cup todo[r] /\ \A q \in Requests : q # r => todo[r] \cap held[q] = {}
  BY <1>1, <1>3, LockEffect
<1>6. todo'[r] = {}
  BY DEF LockTasks, Shapes
<1> HIDE DEF open
<1>7. staged'[r].set = [x \in open \cup DOMAIN staged[r].set |->
             IF x \in open THEN "cancelled" ELSE staged[r].set[x]]
  BY <1>4
<1> QED
  BY <1>1, <1>2, <1>4, <1>5, <1>6, <1>7 DEF open

\* What the endpoint writes of the swap and of its next task.
Written(r) ==
    IF KindOf(r) = "agree"
    THEN [x \in {"swap", "director"} |-> IF x = "swap" THEN Outcome("agree") ELSE "pending"]
    ELSE [x \in {"swap"} |-> Outcome(KindOf(r))]

\* The write stages the status and locks the swap.
LEMMA WriteSwapEffect ==
    ASSUME Shapes, NEW r \in Requests, WriteSwap(r)
    PROVE  /\ Goes(r) /\ UNCHANGED <<todo, wants>>
           /\ staged'[r].gone = staged[r].gone /\ staged'[r].new = staged[r].new
           /\ staged'[r].set = [x \in DOMAIN Written(r) \cup DOMAIN staged[r].set |->
                  IF x \in DOMAIN Written(r) THEN Written(r)[x] ELSE staged[r].set[x]]
           /\ held'[r] = held[r] \cup {DocRow("swap")}
           /\ \A q \in Requests : q # r => DocRow("swap") \notin held[q]
<1>1. Lock(r) /\ StageStatus(r, Written(r)) /\ Advance(r) /\ UNCHANGED <<asks, db, rows, todo, wants>>
  BY DEF WriteSwap, Written
<1>2. Goes(r)
  BY <1>1, GoesOn
<1>3. Wanted(r) = {DocRow("swap")}
  BY WantedAt DEF WriteSwap
<1> QED
  BY <1>1, <1>2, <1>3, LockEffect, StageStatusEffect

\* A loaded shift puts its list on wants; an approval finds the person to replace.
LEMMA LoadEffect ==
    ASSUME Shapes, NEW r \in Requests, Load(r), Statement(r).on \in Shifts
    PROVE  LET s     == Statement(r).on
               staff == { x.person : x \in StaffRows(r, s) }
           IN  \/ Undone(r)
               \/ /\ Goes(r) /\ UNCHANGED <<staged, held, todo>>
                  /\ KindOf(r) = "approve" => Leaver(r, s) \in staff
                  /\ wants'[r] = [wants[r] EXCEPT ![s] = Replaced(r, s, staff)]
<1> DEFINE s     == Statement(r).on
           staff == { x.person : x \in StaffRows(r, s) }
<1>1. CASE RollBack(r)
  BY <1>1, RollBackEffect
<1>2. CASE /\ KindOf(r) = "approve" => Leaver(r, s) \in staff
           /\ wants' = [wants EXCEPT ![r][s] = Replaced(r, s, staff)]
           /\ Advance(r) /\ UNCHANGED <<asks, db, rows, staged, held, todo>>
  <2> HIDE DEF s, staff
  <2>1. s \in Shifts
    BY DEF s
  <2>2. Goes(r)
    BY <1>2, <2>1, GoesOn
  <2>3. wants'[r] = [wants[r] EXCEPT ![s] = Replaced(r, s, staff)]
    BY <1>2 DEF Shapes
  <2> QED
    BY <1>2, <2>2, <2>3 DEF s, staff
<1> QED
  BY <1>1, <1>2 DEF Load

\* The list of persons that r is to put on the shift it looks at.
Listed(r) ==
    IF KindOf(r) \in {"edit", "correct"} THEN {asks[r].person} ELSE wants[r][Statement(r).on]

\* The list is compared with the staff: refused, to be written, or there already.
LEMMA LookEffect ==
    ASSUME Shapes, NEW r \in Requests, Look(r), Statement(r).on \in Shifts
    PROVE  LET s     == Statement(r).on
               staff == { x.person : x \in StaffRows(r, s) }
           IN  \/ Undone(r)
               \/ /\ Goes(r) /\ UNCHANGED <<staged, held, todo>>
                  /\ wants'[r] = [wants[r] EXCEPT ![s] = Listed(r)]
               \/ /\ Shapes' /\ Apart(r) /\ UNCHANGED <<asks, db, rows, staged, held, todo>>
                  /\ pc'[r] = pc[r] + 4
                  /\ Listed(r) = staff /\ KindOf(r) # "correct"
                  /\ wants'[r] = [wants[r] EXCEPT ![s] = {}]
<1> DEFINE s     == Statement(r).on
           found == StaffRows(r, s)
           staff == { x.person : x \in found }
<1>1. CASE RollBack(r)
  BY <1>1, RollBackEffect
<1>2. CASE /\ wants' = [wants EXCEPT ![r][s] = Listed(r)]
           /\ Advance(r) /\ UNCHANGED <<asks, db, rows, staged, held, todo>>
  <2> HIDE DEF s
  <2>1. s \in Shifts
    BY DEF s
  <2>2. Goes(r)
    BY <1>2, <2>1, GoesOn
  <2>3. wants'[r] = [wants[r] EXCEPT ![s] = Listed(r)]
    BY <1>2 DEF Shapes
  <2> QED
    BY <1>2, <2>2, <2>3 DEF s
<1>3. CASE /\ Listed(r) = staff /\ KindOf(r) # "correct"
           /\ wants' = [wants EXCEPT ![r][s] = {}]
           /\ pc' = [pc EXCEPT ![r] = @ + Len(Rewrite(s))]
           /\ UNCHANGED <<asks, db, rows, staged, held, todo>>
  <2> HIDE DEF s
  <2>1. Len(Rewrite(s)) = 4
    BY DEF Rewrite
  <2>2. /\ DOMAIN pc' = Requests /\ pc'[r] = pc[r] + 4
        /\ \A q \in Requests : pc'[q] \in Nat /\ (q # r => pc'[q] = pc[q])
    BY <1>3, <2>1 DEF Shapes
  <2>3. /\ DOMAIN wants' = Requests /\ wants'[r] = [wants[r] EXCEPT ![s] = {}]
        /\ \A q \in Requests : DOMAIN wants'[q] = Shifts /\ (q # r => wants'[q] = wants[q])
    BY <1>3 DEF Shapes
  <2>4. Asked'
    BY <1>3 DEF Shapes, Asked, KindOf
  <2>5. Shapes' /\ Apart(r)
    BY <1>3, <2>2, <2>3, <2>4 DEF Shapes, Apart
  <2> QED
    BY <1>3, <2>2, <2>3, <2>5 DEF s
<1> QED
  BY <1>1, <1>2, <1>3 DEF Look, Listed

\* The rows to delete are those of the shift that r sees, ...
LEMMA DeleteStaffEffect ==
    ASSUME Shapes, NEW r \in Requests, DeleteStaff(r)
    PROVE  /\ Goes(r) /\ UNCHANGED <<staged, held, wants>>
           /\ todo'[r] = StaffRows(r, Statement(r).on)
BY GoesOn DEF DeleteStaff, Shapes

\* ... and those that are left when they are locked are staged as gone.
LEMMA LockStaffEffect ==
    ASSUME Shapes, NEW r \in Requests, LockStaff(r)
    PROVE  /\ Goes(r) /\ UNCHANGED wants /\ todo'[r] = {}
           /\ staged'[r].set = staged[r].set /\ staged'[r].new = staged[r].new
           /\ staged'[r].gone = staged[r].gone \cup (todo[r] \cap rows)
           /\ held'[r] = held[r] \cup todo[r]
           /\ \A q \in Requests : q # r => todo[r] \cap held[q] = {}
<1>1. Goes(r)
  BY GoesOn DEF LockStaff
<1>2. Wanted(r) = todo[r]
  BY WantedAt DEF LockStaff
<1>3. todo'[r] = {}
  BY DEF LockStaff, Shapes
<1>4. /\ staged'[r].set = staged[r].set /\ staged'[r].new = staged[r].new \cup {}
      /\ staged'[r].gone = staged[r].gone \cup (todo[r] \cap rows)
  BY StageEffect DEF LockStaff
<1>5. held'[r] = held[r] \cup todo[r] /\ \A q \in Requests : q # r => todo[r] \cap held[q] = {}
  BY <1>2, LockEffect DEF LockStaff
<1> QED
  BY <1>1, <1>3, <1>4, <1>5 DEF LockStaff

\* The insertion stages the list and the change, and locks the schedule and the shift.
LEMMA InsertStaffEffect ==
    ASSUME Shapes, NEW r \in Requests, InsertStaff(r), Statement(r).on \in Shifts
    PROVE  LET s == Statement(r).on
           IN  /\ Goes(r) /\ UNCHANGED todo /\ wants'[r] = [wants[r] EXCEPT ![s] = {}]
               /\ staged'[r].set = staged[r].set /\ staged'[r].gone = staged[r].gone
               /\ staged'[r].new = staged[r].new \cup { Row("staff", s, p, r) : p \in wants[r][s] }
                                                 \cup {Row("log", s, None, r)}
               /\ held'[r] = held[r] \cup {ScheduleRow, KeyShare(s, r)}
               /\ \A q \in Requests : q # r =>
                     ScheduleRow \notin held[q] /\ KeyShare(s, r) \notin held[q]
<1> DEFINE s == Statement(r).on
           new == { Row("staff", s, p, r) : p \in wants[r][s] } \cup {Row("log", s, None, r)}
<1>1. /\ Lock(r) /\ Stage(r, {}, new) /\ wants' = [wants EXCEPT ![r][s] = {}]
      /\ Advance(r) /\ UNCHANGED <<asks, db, rows, todo>> /\ At(r, "insert") /\ s \in Shifts
  BY DEF InsertStaff
<1>2. Wanted(r) = {ScheduleRow, KeyShare(s, r)}
  BY <1>1, WantedAt
<1> HIDE DEF s, new
<1>3. Goes(r)
  BY <1>1, GoesOn
<1>4. wants'[r] = [wants[r] EXCEPT ![s] = {}]
  BY <1>1 DEF Shapes
<1>5. /\ staged'[r].set = staged[r].set /\ staged'[r].gone = staged[r].gone \cup {}
      /\ staged'[r].new = staged[r].new \cup new
  BY <1>1, StageEffect
<1>6. /\ held'[r] = held[r] \cup {ScheduleRow, KeyShare(s, r)}
      /\ \A q \in Requests : q # r => {ScheduleRow, KeyShare(s, r)} \cap held[q] = {}
  BY <1>1, <1>2, LockEffect
<1> QED
  BY <1>1, <1>3, <1>4, <1>5, <1>6 DEF s, new

\* The flags that r sees; ...
LEMMA SeekFlagEffect ==
    ASSUME Shapes, NEW r \in Requests, SeekFlag(r)
    PROVE  /\ Goes(r) /\ UNCHANGED <<staged, held, wants>>
           /\ todo'[r] = { x \in Seen(r) : x.table = "flag" }
BY GoesOn DEF SeekFlag, Shapes

\* ... without one it stages its own.
LEMMA WriteFlagEffect ==
    ASSUME Shapes, NEW r \in Requests, WriteFlag(r)
    PROVE  /\ Goes(r) /\ UNCHANGED <<held, wants>> /\ todo'[r] = {}
           /\ staged'[r].set = staged[r].set /\ staged'[r].gone = staged[r].gone
           /\ staged'[r].new = staged[r].new \cup
                  IF todo[r] = {} THEN {Row("flag", None, None, r)} ELSE {}
<1> DEFINE new == IF todo[r] = {} THEN {Row("flag", None, None, r)} ELSE {}
<1>1. Stage(r, {}, new) /\ Advance(r) /\ UNCHANGED <<asks, db, rows, held, wants>>
  BY DEF WriteFlag
<1>2. todo' = [todo EXCEPT ![r] = {}]
  BY DEF WriteFlag
<1> HIDE DEF new
<1>3. Goes(r)
  BY <1>1, <1>2, GoesOn
<1>4. /\ staged'[r].set = staged[r].set /\ staged'[r].gone = staged[r].gone \cup {}
      /\ staged'[r].new = staged[r].new \cup new
  BY <1>1, StageEffect
<1> QED
  BY <1>1, <1>2, <1>3, <1>4 DEF new, Shapes

\* A leave locks its shift, ...
LEMMA ReserveShiftEffect ==
    ASSUME Shapes, NEW r \in Requests, ReserveShift(r)
    PROVE  /\ Goes(r) /\ UNCHANGED <<staged, todo, wants>>
           /\ held'[r] = held[r] \cup ForUpdate(Statement(r).on)
           /\ \A q \in Requests : q # r => ForUpdate(Statement(r).on) \cap held[q] = {}
<1>1. Goes(r)
  BY GoesOn DEF ReserveShift
<1>2. Wanted(r) = ForUpdate(Statement(r).on)
  BY WantedAt DEF ReserveShift
<1> QED
  BY <1>1, <1>2, LockEffect DEF ReserveShift

\* ... and stages its request.
LEMMA FileLeaveEffect ==
    ASSUME Shapes, NEW r \in Requests, FileLeave(r)
    PROVE  /\ Goes(r) /\ UNCHANGED <<todo, wants>>
           /\ staged'[r].set = staged[r].set /\ staged'[r].gone = staged[r].gone
           /\ staged'[r].new = staged[r].new \cup {Row("leave", Statement(r).on, asks[r].person, r)}
           /\ held'[r] = held[r] \cup {KeyShare(Statement(r).on, r)}
           /\ \A q \in Requests : q # r => KeyShare(Statement(r).on, r) \notin held[q]
<1> DEFINE new == {Row("leave", Statement(r).on, asks[r].person, r)}
<1>1. Stage(r, {}, new) /\ Lock(r) /\ UNCHANGED <<todo, wants>>
  BY DEF FileLeave
<1>2. Goes(r)
  BY GoesOn DEF FileLeave
<1>3. Wanted(r) = {KeyShare(Statement(r).on, r)}
  BY WantedAt DEF FileLeave
<1> HIDE DEF new
<1>4. /\ staged'[r].set = staged[r].set /\ staged'[r].gone = staged[r].gone \cup {}
      /\ staged'[r].new = staged[r].new \cup new
  BY <1>1, StageEffect
<1>5. /\ held'[r] = held[r] \cup {KeyShare(Statement(r).on, r)}
      /\ \A q \in Requests : q # r => KeyShare(Statement(r).on, r) \notin held[q]
  BY <1>1, <1>3, LockEffect
<1> QED
  BY <1>1, <1>2, <1>4, <1>5 DEF new

\* A commit writes what was staged, and unlocks.
LEMMA CommitEffect ==
    ASSUME Shapes, NEW r \in Requests, Commit(r)
    PROVE  /\ Shapes' /\ Apart(r) /\ UNCHANGED <<asks, todo, wants>>
           /\ pc'[r] = pc[r] + 1 /\ staged'[r] = Nothing /\ held'[r] = {}
           /\ rows' = (rows \ staged[r].gone) \cup staged[r].new
           /\ \A x \in {"swap", "target", "director"} :
                 db'[x] = IF x \in DOMAIN staged[r].set THEN staged[r].set[x] ELSE db[x]
<1>1. /\ DOMAIN pc' = Requests /\ pc'[r] = pc[r] + 1
      /\ \A q \in Requests : pc'[q] \in Nat /\ (q # r => pc'[q] = pc[q])
  BY AdvanceEffect DEF Commit
<1>2. /\ staged' = [staged EXCEPT ![r] = Nothing] /\ held' = [held EXCEPT ![r] = {}]
      /\ UNCHANGED <<asks, todo, wants>> /\ rows' = Seen(r)
      /\ db' = [x \in DOMAIN db |->
                   IF x \in DOMAIN staged[r].set THEN staged[r].set[x] ELSE db[x]]
  BY DEF Commit
<1>3. Asked'
  BY <1>2 DEF Shapes, Asked, KindOf
<1>4. Shapes' /\ Apart(r)
  BY <1>1, <1>2, <1>3 DEF Shapes, Apart, Nothing
<1> QED
  BY <1>1, <1>2, <1>4 DEF Shapes, Seen

-----------------------------------------------------------------------------
(***************************************************************************)
(* A step within the transaction, which is neither undone nor committed.   *)
(***************************************************************************)
\* The steps that lock, and those that write a document.
Locking(r) ==
    \/ CompleteTask(r) \/ LockTasks(r) \/ WriteSwap(r)
    \/ LockStaff(r) \/ InsertStaff(r) \/ ReserveShift(r) \/ FileLeave(r)

Answering(r) == CompleteTask(r) \/ LockTasks(r) \/ WriteSwap(r)

WorkingStep(r) ==
    \/ ReadSwap(r) \/ FindTask(r) \/ CompleteTask(r) \/ SelectTasks(r) \/ LockTasks(r)
    \/ WriteSwap(r)
    \/ Load(r) \/ Look(r) \/ DeleteStaff(r) \/ LockStaff(r) \/ InsertStaff(r)
    \/ SeekFlag(r) \/ WriteFlag(r)
    \/ ReserveShift(r) \/ CheckLeave(r) \/ FileLeave(r)

\* The rows that a step stages.
Adds(r, x) ==
    \/ InsertStaff(r) /\ x.table \in {"staff", "log"}
    \/ WriteFlag(r) /\ x.table = "flag"
    \/ FileLeave(r) /\ x.table = "leave"

Moves(r) ==
    /\ Shapes' /\ Apart(r) /\ UNCHANGED <<asks, db, rows>>
    /\ pc'[r] = pc[r] + 1 \/ (Look(r) /\ KindOf(r) # "correct" /\ pc'[r] = pc[r] + 4)
    /\ UNCHANGED held \/ (Locking(r) /\ Lock(r))
    /\ staged'[r].set = staged[r].set \/ Answering(r)
    /\ \A x \in staged'[r].gone : x \in staged[r].gone \/ (LockStaff(r) /\ x \in todo[r])
    /\ staged[r].new \subseteq staged'[r].new
    /\ \A x \in staged'[r].new : x \in staged[r].new \/ (x.by = r /\ Adds(r, x))
    /\ wants'[r] = wants[r] \/ Load(r) \/ Look(r) \/ InsertStaff(r)
    /\ todo'[r] = todo[r] \/ todo'[r] = {} \/ SelectTasks(r) \/ DeleteStaff(r) \/ SeekFlag(r)

\* Each step within a transaction moves it, or undoes it.
LEMMA WorkingStepMoves ==
    ASSUME Shapes, NEW r \in Requests, WorkingStep(r)
    PROVE  Undone(r) \/ Moves(r)
<1>1. Asked /\ pc[r] \in Nat
  BY DEF Shapes
<1>2. ASSUME Goes(r), UNCHANGED <<staged, held, todo, wants>> PROVE Moves(r)
  BY <1>2 DEF Moves, Goes
<1>3. CASE ReadSwap(r) \/ FindTask(r) \/ CheckLeave(r)
  BY <1>2, <1>3, ProceedEffect DEF ReadSwap, FindTask, CheckLeave
<1>4. CASE CompleteTask(r)
  <2>1. \/ Undone(r)
        \/ /\ Goes(r) /\ UNCHANGED <<todo, wants>>
           /\ staged'[r].gone = staged[r].gone /\ staged'[r].new = staged[r].new
    BY <1>4, CompleteTaskEffect
  <2>2. Undone(r) \/ Lock(r)
    BY <1>4, RollBackEffect DEF CompleteTask
  <2> QED
    BY <1>4, <2>1, <2>2 DEF Moves, Goes, Locking, Answering
<1>5. CASE SelectTasks(r)
  BY <1>5, SelectTasksEffect DEF Moves, Goes
<1>6. CASE LockTasks(r)
  <2>1. /\ Goes(r) /\ UNCHANGED wants /\ todo'[r] = {}
        /\ staged'[r].gone = staged[r].gone /\ staged'[r].new = staged[r].new
    BY <1>6, LockTasksEffect
  <2>2. Lock(r)
    BY <1>6 DEF LockTasks
  <2> QED
    BY <1>6, <2>1, <2>2 DEF Moves, Goes, Locking, Answering
<1>7. CASE WriteSwap(r)
  <2>1. /\ Goes(r) /\ UNCHANGED <<todo, wants>>
        /\ staged'[r].gone = staged[r].gone /\ staged'[r].new = staged[r].new
    BY <1>7, WriteSwapEffect
  <2>2. Lock(r)
    BY <1>7 DEF WriteSwap
  <2> QED
    BY <1>7, <2>1, <2>2 DEF Moves, Goes, Locking, Answering
<1>8. CASE Load(r)
  <2>1. Statement(r).on \in Shifts
    BY <1>1, <1>8, StepPlaces
  <2> QED
    BY <1>8, <2>1, LoadEffect DEF Moves, Goes
<1>9. CASE Look(r)
  <2>1. Statement(r).on \in Shifts
    BY <1>1, <1>9, StepPlaces
  <2> QED
    BY <1>9, <2>1, LookEffect DEF Moves, Goes
<1>10. CASE DeleteStaff(r)
  BY <1>10, DeleteStaffEffect DEF Moves, Goes
<1>11. CASE LockStaff(r)
  <2>1. /\ Goes(r) /\ UNCHANGED wants /\ todo'[r] = {}
        /\ staged'[r].set = staged[r].set /\ staged'[r].new = staged[r].new
        /\ staged'[r].gone = staged[r].gone \cup (todo[r] \cap rows)
    BY <1>11, LockStaffEffect
  <2>2. Lock(r)
    BY <1>11 DEF LockStaff
  <2> QED
    BY <1>11, <2>1, <2>2 DEF Moves, Goes, Locking
<1>12. CASE InsertStaff(r)
  <2> DEFINE s == Statement(r).on
             new == { Row("staff", s, p, r) : p \in wants[r][s] } \cup {Row("log", s, None, r)}
  <2>1. Statement(r).on \in Shifts
    BY <1>1, <1>12, StepPlaces
  <2>2. /\ Goes(r) /\ UNCHANGED todo
        /\ staged'[r].set = staged[r].set /\ staged'[r].gone = staged[r].gone
        /\ staged'[r].new = staged[r].new \cup new
    BY <1>12, <2>1, InsertStaffEffect
  <2>3. \A x \in new : x.by = r /\ x.table \in {"staff", "log"}
    BY DEF Row
  <2>4. Lock(r)
    BY <1>12 DEF InsertStaff
  <2> QED
    BY <1>12, <2>2, <2>3, <2>4 DEF Moves, Goes, Locking, Adds
<1>13. CASE SeekFlag(r)
  BY <1>13, SeekFlagEffect DEF Moves, Goes
<1>14. CASE WriteFlag(r)
  <2>1. /\ Goes(r) /\ UNCHANGED <<held, wants>> /\ todo'[r] = {}
        /\ staged'[r].set = staged[r].set /\ staged'[r].gone = staged[r].gone
        /\ staged'[r].new = staged[r].new \cup
               IF todo[r] = {} THEN {Row("flag", None, None, r)} ELSE {}
    BY <1>14, WriteFlagEffect
  <2> QED
    BY <1>14, <2>1 DEF Moves, Goes, Adds, Row
<1>15. CASE ReserveShift(r)
  <2>1. Goes(r) /\ UNCHANGED <<staged, todo, wants>>
    BY <1>15, ReserveShiftEffect
  <2>2. Lock(r)
    BY <1>15 DEF ReserveShift
  <2> QED
    BY <1>15, <2>1, <2>2 DEF Moves, Goes, Locking
<1>16. CASE FileLeave(r)
  <2>1. /\ Goes(r) /\ UNCHANGED <<todo, wants>>
        /\ staged'[r].set = staged[r].set /\ staged'[r].gone = staged[r].gone
        /\ staged'[r].new = staged[r].new \cup {Row("leave", Statement(r).on, asks[r].person, r)}
    BY <1>16, FileLeaveEffect
  <2>2. Lock(r)
    BY <1>16 DEF FileLeave
  <2> QED
    BY <1>16, <2>1, <2>2 DEF Moves, Goes, Locking, Adds, Row
<1> QED
  BY <1>3, <1>4, <1>5, <1>6, <1>7, <1>8, <1>9, <1>10, <1>11, <1>12, <1>13, <1>14, <1>15, <1>16
     DEF WorkingStep

\* A step of a request moves, undoes or commits its transaction.
LEMMA StepKinds ==
    ASSUME Shapes, NEW r \in Requests, Step(r) \/ Crash(r)
    PROVE  Undone(r) \/ (WorkingStep(r) /\ Moves(r)) \/ Commit(r)
<1>1. CASE WorkingStep(r)
  BY <1>1, WorkingStepMoves
<1>2. CASE Abort(r) \/ Crash(r)
  BY <1>2, RollBackEffect DEF Abort, Crash
<1> QED
  BY <1>1, <1>2 DEF Step, WorkingStep

\* Every step keeps the shapes.
LEMMA ShapesStep ==
    ASSUME Shapes, NEW r \in Requests, Step(r) \/ Crash(r)
    PROVE  Shapes'
BY StepKinds, CommitEffect DEF Moves, Undone
-----------------------------------------------------------------------------
(***************************************************************************)
(* The locks.                                                              *)
(***************************************************************************)
TaskRows == { DocRow(t) : t \in Tasks }

\* The places at which a request has no lock yet, only those of tasks, or only
\* those of the staff of a shift.
Unlocked(r) ==
    \/ KindOf(r) \in {"agree", "refuse", "withdraw", "edit", "correct"} /\ pc[r] < 4
    \/ KindOf(r) \in {"approve", "reject", "leave"} /\ pc[r] < 2
    \/ KindOf(r) = "cancel" /\ pc[r] < 5

LocksTasks(r) ==
    \/ KindOf(r) \in {"agree", "refuse", "withdraw"} /\ pc[r] = 4
    \/ KindOf(r) = "approve" /\ pc[r] \in 2..7
    \/ KindOf(r) = "reject" /\ pc[r] \in 2..3
    \/ KindOf(r) = "cancel" /\ pc[r] = 5

LocksStaff(r) == KindOf(r) \in {"edit", "correct"} /\ pc[r] = 4

LocksOf(r) ==
    /\ Unlocked(r) => held[r] = {}
    /\ LocksTasks(r) => held[r] \subseteq TaskRows
    /\ LocksStaff(r) => \A x \in held[r] : x.table = "staff" /\ x.shift = asks[r].on
    /\ KindOf(r) = "cancel" /\ pc[r] \in 6..8 =>
          \A x \in held[r] : x.table \notin {"schedule", "shift"}
    /\ KindOf(r) = "cancel" /\ pc[r] \in 6..15 => DocRow("swap") \in held[r]
    /\ KindOf(r) = "correct" /\ pc[r] \in 5..7 => ScheduleRow \in held[r]
    /\ KindOf(r) = "leave" /\ pc[r] \in 2..4 => ForUpdate(asks[r].on) \subseteq held[r]

\* The shift whose staff a request has found.
FoundShift(r) ==
    IF KindOf(r) \in {"edit", "correct"} THEN asks[r].on
    ELSE IF <<KindOf(r), pc[r]>> \in {<<"approve", 7>>, <<"cancel", 8>>} THEN Source ELSE Target

\* What a request found that it is going to lock.
FoundOf(r) ==
    /\ \/ KindOf(r) = "withdraw" /\ pc[r] = 3
       \/ KindOf(r) = "cancel" /\ pc[r] = 4
       => todo[r] \subseteq TaskRows
    /\ \/ KindOf(r) \in {"edit", "correct"} /\ pc[r] = 3
       \/ KindOf(r) = "approve" /\ pc[r] \in {7, 11}
       \/ KindOf(r) = "cancel" /\ pc[r] \in {8, 13}
       => \A x \in todo[r] : x.table = "staff" /\ x.shift = FoundShift(r)

\* No row is locked by two requests.
LocksExclude == \A q, r \in Requests : q # r => held[q] \cap held[r] = {}

LockInv == LocksExclude /\ \A r \in Requests : LocksOf(r) /\ FoundOf(r)

\* What a step has to show of r alone for all requests to keep their locks.
LEMMA LocksKept ==
    ASSUME LockInv, NEW r \in Requests, Apart(r), UNCHANGED asks, LocksOf(r)', FoundOf(r)',
           \A q \in Requests : q # r => held'[r] \cap held[q] = {}
    PROVE  LockInv'
<1>1. ASSUME NEW q \in Requests PROVE LocksOf(q)' /\ FoundOf(q)'
  <2>1. CASE q = r
    BY <2>1
  <2>2. CASE q # r
    <3>1. /\ held'[q] = held[q] /\ pc'[q] = pc[q] /\ todo'[q] = todo[q]
          /\ asks' = asks /\ KindOf(q)' = KindOf(q) /\ FoundShift(q)' = FoundShift(q)
      BY <2>2 DEF Apart, KindOf, FoundShift
    <3>2. LocksOf(q) /\ FoundOf(q)
      BY DEF LockInv
    <3>3. LocksOf(q)'
      BY <3>1, <3>2 DEF LocksOf, Unlocked, LocksTasks, LocksStaff
    <3>4. FoundOf(q)'
      BY <3>1, <3>2 DEF FoundOf
    <3> QED
      BY <3>3, <3>4
  <2> QED
    BY <2>1, <2>2
<1>2. LocksExclude'
  BY DEF LockInv, LocksExclude, Apart
<1> QED
  BY <1>1, <1>2 DEF LockInv

\* Rows of the documents are none of the schedule or of a shift.
LEMMA DocumentRows ==
    \A x \in TaskRows \cup {DocRow("swap")} : x.table \notin {"schedule", "shift", "staff"}
BY DEF TaskRows, Tasks, DocRow, Row

\* A step that moves r takes its locks where LocksOf says, and finds the rows it is
\* going to lock where FoundOf says.
LEMMA MoveKeepsLocks ==
    ASSUME Shapes, NEW r \in Requests, LocksOf(r), FoundOf(r), WorkingStep(r),
           KindOf(r)' = KindOf(r), asks'[r] = asks[r],
           pc'[r] = pc[r] + 1 \/ (Look(r) /\ KindOf(r) # "correct" /\ pc'[r] = pc[r] + 4),
           todo'[r] = todo[r] \/ todo'[r] = {} \/ SelectTasks(r) \/ DeleteStaff(r) \/ SeekFlag(r),
           held'[r] = held[r] \/ (Locking(r) /\ held'[r] = held[r] \cup Wanted(r))
    PROVE  LocksOf(r)' /\ FoundOf(r)'
<1> USE DEF Unlocked, LocksTasks, LocksStaff
<1>1. Asked /\ pc[r] \in Nat
  BY DEF Shapes
<1>2. ASSUME ~Locking(r)
      PROVE  LocksOf(r)' /\ FoundOf(r)'
  <2>1. held'[r] = held[r]
    BY <1>2
  <2>2. CASE ReadSwap(r) \/ FindTask(r) \/ SelectTasks(r)
    <3>1. \/ DocumentPlace(r, "read") \/ DocumentPlace(r, "find")
          \/ DocumentPlace(r, "select") /\ todo'[r] \subseteq TaskRows
      BY <1>1, <2>2, StepPlaces, SelectTasksEffect DEF TaskRows
    <3>2. pc'[r] = pc[r] + 1
      BY <2>2 DEF ReadSwap, FindTask, SelectTasks, Look, At
    <3> QED
      BY <1>1, <2>1, <3>1, <3>2 DEF LocksOf, FoundOf, DocumentPlace
  <2>3. CASE Load(r) \/ Look(r) \/ DeleteStaff(r)
    <3>1. \/ StaffPlace(r, "load") /\ pc'[r] = pc[r] + 1
          \/ StaffPlace(r, "look") /\ (pc'[r] = pc[r] + 1 \/ (KindOf(r) # "correct" /\ pc'[r] = pc[r] + 4))
          \/ /\ StaffPlace(r, "delete") /\ pc'[r] = pc[r] + 1
             /\ \A x \in todo'[r] : x.table = "staff" /\ x.shift = Statement(r).on
      <4>1. Load(r) => pc'[r] = pc[r] + 1
        BY DEF Load, Look, At
      <4>2. DeleteStaff(r) =>
               pc'[r] = pc[r] + 1 /\ \A x \in todo'[r] : x.table = "staff" /\ x.shift = Statement(r).on
        BY DeleteStaffEffect DEF StaffRows, Goes
      <4> QED
        BY <1>1, <2>3, <4>1, <4>2, StepPlaces
    <3> QED
      BY <1>1, <2>1, <3>1 DEF LocksOf, FoundOf, FoundShift, StaffPlace, Editors
  <2>4. CASE SeekFlag(r) \/ WriteFlag(r) \/ CheckLeave(r)
    <3>1. OnePlace(r, "seek") \/ OnePlace(r, "flag") \/ OnePlace(r, "check")
      BY <1>1, <2>4, StepPlaces
    <3>2. pc'[r] = pc[r] + 1
      BY <2>4 DEF SeekFlag, WriteFlag, CheckLeave, Look, At
    <3> QED
      BY <1>1, <2>1, <3>1, <3>2 DEF LocksOf, FoundOf, OnePlace
  <2> QED
    BY <1>2, <2>2, <2>3, <2>4 DEF WorkingStep, Locking
<1>3. ASSUME Locking(r)
      PROVE  LocksOf(r)' /\ FoundOf(r)'
  <2>1. PICK op : At(r, op) /\ op \in {"complete", "lock", "write", "insert", "reserve", "file"}
    BY <1>3 DEF Locking, CompleteTask, LockTasks, WriteSwap, LockStaff, InsertStaff, ReserveShift,
        FileLeave
  <2>2. pc'[r] = pc[r] + 1
    BY <2>1 DEF Look, At
  <2>3. held[r] \subseteq held'[r] /\ held'[r] \subseteq held[r] \cup Wanted(r)
    OBVIOUS
  <2>4. CASE CompleteTask(r) \/ LockTasks(r)
    <3>1. Wanted(r) \subseteq TaskRows
      <4>1. LockTasks(r) => DocumentPlace(r, "lock")
        BY <1>1, StepPlaces
      <4>2. LockTasks(r) => Wanted(r) = todo[r] /\ todo[r] \subseteq TaskRows
        BY <4>1, WantedAt DEF LockTasks, FoundOf, DocumentPlace
      <4>3. CompleteTask(r) => Wanted(r) = {DocRow(TaskOf(KindOf(r)))}
        BY WantedAt DEF CompleteTask
      <4> QED
        BY <2>4, <4>2, <4>3 DEF TaskRows, TaskOf, Tasks
    <3>2. DocumentPlace(r, "complete") \/ DocumentPlace(r, "lock")
      BY <1>1, <2>4, StepPlaces
    <3> QED
      BY <1>1, <2>2, <2>3, <3>1, <3>2 DEF LocksOf, FoundOf, DocumentPlace
  <2>5. CASE WriteSwap(r)
    <3>1. DocRow("swap") \in held'[r] /\ held'[r] \subseteq held[r] \cup {DocRow("swap")}
      BY <2>5, WriteSwapEffect
    <3>2. DocumentPlace(r, "write")
      BY <1>1, <2>5, StepPlaces
    <3> QED
      BY <1>1, <2>2, <2>3, <3>1, <3>2, DocumentRows DEF LocksOf, FoundOf, DocumentPlace
  <2>6. CASE LockStaff(r)
    <3>1. StaffPlace(r, "lock")
      BY <1>1, <2>6, StepPlaces
    <3>2. held'[r] \subseteq held[r] \cup todo[r]
      BY <2>6, LockStaffEffect
    <3>3. \A x \in todo[r] :
             x.table = "staff" /\ (KindOf(r) \in Editors => x.shift = asks[r].on)
      BY <3>1 DEF StaffPlace, FoundOf, FoundShift, Editors
    <3> QED
      BY <1>1, <2>2, <2>3, <3>1, <3>2, <3>3 DEF LocksOf, FoundOf, StaffPlace, Editors
  <2>7. CASE InsertStaff(r)
    <3>1. StaffPlace(r, "insert") /\ Statement(r).on \in Shifts
      BY <1>1, <2>7, StepPlaces
    <3>2. ScheduleRow \in held'[r]
      BY <2>7, <3>1, InsertStaffEffect
    <3> QED
      BY <1>1, <2>2, <2>3, <3>1, <3>2 DEF LocksOf, FoundOf, StaffPlace, Editors
  <2>8. CASE ReserveShift(r) \/ FileLeave(r)
    <3>1. OnePlace(r, "reserve") \/ OnePlace(r, "file")
      BY <1>1, <2>8, StepPlaces
    <3>2. ReserveShift(r) => ForUpdate(Statement(r).on) \subseteq held'[r] /\ OnePlace(r, "reserve")
      BY <1>1, ReserveShiftEffect, StepPlaces
    <3>3. FileLeave(r) => OnePlace(r, "file")
      BY <1>1, StepPlaces
    <3>4. KindOf(r) = "leave" /\ (pc[r] = 3 \/ (pc[r] = 1 /\ ForUpdate(asks[r].on) \subseteq held'[r]))
      BY <2>8, <3>2, <3>3 DEF OnePlace
    <3> QED
      BY <1>1, <2>2, <2>3, <3>4 DEF LocksOf, FoundOf, ForUpdate, KeyShare
  <2> QED
    BY <1>3, <2>4, <2>5, <2>6, <2>7, <2>8 DEF Locking
<1> QED
  BY <1>2, <1>3

\* Every step keeps the discipline.
LEMMA LockInvStep ==
    ASSUME Shapes, LockInv, NEW r \in Requests, Step(r) \/ Crash(r)
    PROVE  LockInv'
<1> USE DEF Unlocked, LocksTasks, LocksStaff
<1>1. /\ LocksOf(r) /\ FoundOf(r) /\ pc[r] \in Nat /\ Asked
      /\ \A q \in Requests : q # r => held[r] \cap held[q] = {}
  BY DEF LockInv, LocksExclude, Shapes
<1>2. CASE Undone(r)
  <2>1. held'[r] = {} /\ todo'[r] = {} /\ pc'[r] = 0 /\ Apart(r) /\ UNCHANGED asks
    BY <1>2 DEF Undone
  <2>2. LocksOf(r)' /\ FoundOf(r)'
    BY <2>1 DEF LocksOf, FoundOf
  <2> QED
    BY <2>1, <2>2, LocksKept
<1>3. CASE Commit(r)
  <2>1. Apart(r) /\ UNCHANGED <<asks, todo>> /\ held'[r] = {} /\ pc'[r] = pc[r] + 1
    BY <1>3, CommitEffect
  <2>2. Ends(r) /\ KindOf(r)' = KindOf(r)
    BY <1>1, <1>3, <2>1, StepPlaces DEF KindOf
  <2>3. LocksOf(r)' /\ FoundOf(r)'
    BY <2>1, <2>2 DEF LocksOf, FoundOf, Ends
  <2> QED
    BY <2>1, <2>3, LocksKept
<1>4. CASE WorkingStep(r) /\ Moves(r)
  <2>1. /\ Apart(r) /\ UNCHANGED asks /\ KindOf(r)' = KindOf(r) /\ asks'[r] = asks[r]
        /\ pc'[r] = pc[r] + 1 \/ (Look(r) /\ KindOf(r) # "correct" /\ pc'[r] = pc[r] + 4)
        /\ todo'[r] = todo[r] \/ todo'[r] = {} \/ SelectTasks(r) \/ DeleteStaff(r) \/ SeekFlag(r)
        /\ UNCHANGED held \/ (Locking(r) /\ Lock(r))
    BY <1>4 DEF Moves, KindOf
  <2>2. /\ held'[r] = held[r] \/ (Locking(r) /\ held'[r] = held[r] \cup Wanted(r))
        /\ \A q \in Requests : q # r => held'[r] \cap held[q] = {}
    BY <1>1, <2>1, LockEffect
  <2>3. LocksOf(r)' /\ FoundOf(r)'
    BY <1>1, <1>4, <2>1, <2>2, MoveKeepsLocks
  <2> QED
    BY <2>1, <2>2, <2>3, LocksKept
<1> QED
  BY <1>2, <1>3, <1>4, StepKinds
-----------------------------------------------------------------------------
(***************************************************************************)
(* The swap's documents.                                                   *)
(***************************************************************************)
\* The answers of a task.
Answers == {"approved", "rejected", "cancelled"}

\* r is going to answer task t, which is open, and has its row.
AnswersTask(r, t) ==
    /\ t \in DOMAIN staged[r].set
    /\ staged[r].set[t] \in Answers /\ db[t] = "pending" /\ DocRow(t) \in held[r]

TasksOf(r) ==
    /\ "target" \in DOMAIN staged[r].set => AnswersTask(r, "target")
    /\ "director" \in DOMAIN staged[r].set =>
          AnswersTask(r, "director") \/ (AnswersTask(r, "target") /\ db["director"] = "none")
    /\ KindOf(r) \in {"agree", "refuse"} /\ pc[r] \in {4, 5} => AnswersTask(r, "target")
    /\ (KindOf(r) = "approve" /\ pc[r] \in 2..14) \/ (KindOf(r) = "reject" /\ pc[r] \in 2..4)
       => AnswersTask(r, "director")

Decisions == {"agree", "refuse", "approve", "reject", "withdraw", "cancel"}

StatusOf(r) ==
    /\ "swap" \in DOMAIN staged[r].set =>
          KindOf(r) \in Decisions /\ staged[r].set["swap"] = Outcome(KindOf(r))
    /\ "director" \in DOMAIN staged[r].set =>
          (staged[r].set["director"] = "approved" <=> KindOf(r) = "approve")
    /\ (KindOf(r) = "approve" /\ pc[r] = 14) \/ (KindOf(r) = "cancel" /\ pc[r] \in 6..15)
       => "swap" \in DOMAIN staged[r].set
    /\ KindOf(r) = "cancel" /\ pc[r] \in 2..15 => db["director"] = "approved"

DocInv ==
    /\ \A r \in Requests : TasksOf(r) /\ StatusOf(r)
    /\ db["target"] = "pending" => db["director"] = "none"
    /\ db["swap"] \in {"approved", "effective", "cancelled"} => db["director"] = "approved"
    /\ db["director"] = "approved" => db["swap"] \in {"effective", "withdrawn", "cancelled"}

\* No step but a commit changes a committed status.
LEMMA DocsKept ==
    ASSUME DocInv, NEW r \in Requests, Apart(r), UNCHANGED <<asks, db>>, TasksOf(r)', StatusOf(r)'
    PROVE  DocInv'
<1>1. ASSUME NEW q \in Requests PROVE TasksOf(q)' /\ StatusOf(q)'
  <2>1. CASE q = r
    BY <2>1
  <2>2. CASE q # r
    <3>1. staged'[q] = staged[q] /\ held'[q] = held[q] /\ pc'[q] = pc[q] /\ KindOf(q)' = KindOf(q)
      BY <2>2 DEF Apart, KindOf
    <3>2. TasksOf(q) /\ StatusOf(q)
      BY DEF DocInv
    <3>3. TasksOf(q)'
      BY <3>1, <3>2 DEF TasksOf, AnswersTask
    <3>4. StatusOf(q)'
      BY <3>1, <3>2 DEF StatusOf
    <3> QED
      BY <3>3, <3>4
  <2> QED
    BY <2>1, <2>2
<1> QED
  BY <1>1 DEF DocInv

\* A transaction that is undone leaves the documents alone.
LEMMA DocsUndone ==
    ASSUME DocInv, NEW r \in Requests, Undone(r)
    PROVE  DocInv'
<1>1. staged'[r].set = <<>> /\ pc'[r] = 0 /\ Apart(r) /\ UNCHANGED <<asks, db>>
  BY DEF Undone, Nothing
<1>2. TasksOf(r)'
  BY <1>1 DEF TasksOf
<1>3. StatusOf(r)'
  BY <1>1 DEF StatusOf
<1> QED
  BY <1>1, <1>2, <1>3, DocsKept

\* Where a step that writes no document is.
QuietAt(r) ==
    \/ KindOf(r) \in {"agree", "refuse", "withdraw"} /\ pc[r] \in 1..2 /\ pc'[r] = pc[r] + 1
    \/ KindOf(r) = "reject" /\ pc[r] = 2 /\ pc'[r] = 3
    \/ KindOf(r) = "approve" /\ pc[r] \in 2..12 /\ pc'[r] \in 3..13
    \/ KindOf(r) = "cancel" /\ pc[r] = 1 /\ pc'[r] = 2 /\ db.swap \in {"approved", "effective"}
    \/ KindOf(r) = "cancel" /\ pc[r] \in 2..3 /\ pc'[r] = pc[r] + 1
    \/ KindOf(r) = "cancel" /\ pc[r] \in 6..14 /\ pc'[r] \in 7..15
    \/ KindOf(r) \in {"edit", "correct", "leave"}

\* A step that writes no document is at one of these places.
LEMMA QuietPlaces ==
    ASSUME Shapes, NEW r \in Requests, WorkingStep(r), Moves(r), ~Answering(r)
    PROVE  QuietAt(r)
<1>1. /\ Asked /\ pc[r] \in Nat
      /\ pc'[r] = pc[r] + 1 \/ (Look(r) /\ pc'[r] = pc[r] + 4)
  BY DEF Shapes, Moves
<1>2. CASE ReadSwap(r) \/ FindTask(r) \/ SelectTasks(r)
  <2>1. \/ DocumentPlace(r, "read") /\ (KindOf(r) = "cancel" => db.swap \in {"approved", "effective"})
        \/ DocumentPlace(r, "find") \/ DocumentPlace(r, "select")
    <3>1. ASSUME ReadSwap(r) PROVE db.swap \in Expected(KindOf(r))
      <4>1. ~RollBack(r)
        BY <1>1, RollBackEffect DEF Undone
      <4> QED
        BY <3>1, <4>1 DEF ReadSwap, Proceed
    <3>2. Expected("cancel") = {"approved", "effective"}
      BY DEF Expected
    <3> QED
      BY <1>1, <1>2, <3>1, <3>2, StepPlaces
  <2>2. pc'[r] = pc[r] + 1
    BY <1>1, <1>2 DEF ReadSwap, FindTask, SelectTasks, Look, At
  <2> QED
    BY <1>1, <2>1, <2>2 DEF DocumentPlace, QuietAt
<1>3. CASE Load(r) \/ Look(r) \/ DeleteStaff(r) \/ LockStaff(r) \/ InsertStaff(r)
  <2>1. \/ StaffPlace(r, "look")
        \/ /\ StaffPlace(r, "load") \/ StaffPlace(r, "delete") \/ StaffPlace(r, "lock")
              \/ StaffPlace(r, "insert")
           /\ pc'[r] = pc[r] + 1
    <3>1. ~Look(r) => pc'[r] = pc[r] + 1
      BY <1>1
    <3> QED
      BY <1>1, <1>3, <3>1, StepPlaces
  <2> QED
    BY <1>1, <2>1 DEF StaffPlace, QuietAt, Editors
<1>4. CASE SeekFlag(r) \/ WriteFlag(r) \/ ReserveShift(r) \/ CheckLeave(r) \/ FileLeave(r)
  BY <1>1, <1>4, StepPlaces DEF OnePlace, QuietAt
<1> QED
  BY <1>2, <1>3, <1>4 DEF WorkingStep, Answering

\* It keeps what is written of the documents.
LEMMA DocsQuiet ==
    ASSUME Shapes, DocInv, NEW r \in Requests, WorkingStep(r), Moves(r), ~Answering(r)
    PROVE  DocInv'
<1>1. /\ Apart(r) /\ UNCHANGED <<asks, db>> /\ KindOf(r)' = KindOf(r)
      /\ staged'[r].set = staged[r].set /\ held[r] \subseteq held'[r] /\ QuietAt(r)
  BY QuietPlaces, LockEffect DEF Moves, KindOf
<1>2. /\ TasksOf(r) /\ StatusOf(r)
      /\ db.swap \in {"approved", "effective", "cancelled"} => db.director = "approved"
  BY DEF DocInv
<1>3. \A t : AnswersTask(r, t) => AnswersTask(r, t)'
  BY <1>1 DEF AnswersTask
<1>4. TasksOf(r)'
  BY <1>1, <1>2, <1>3 DEF TasksOf, QuietAt
<1>5. StatusOf(r)'
  BY <1>1, <1>2 DEF StatusOf, QuietAt
<1> QED
  BY <1>1, <1>4, <1>5, DocsKept

\* The completion answers a task that is open.
LEMMA DocsComplete ==
    ASSUME Shapes, DocInv, NEW r \in Requests, CompleteTask(r)
    PROVE  DocInv'
<1> PICK t : t = TaskOf(KindOf(r))
  OBVIOUS
<1>1. SUFFICES ASSUME ~Undone(r) PROVE DocInv'
  BY DocsUndone
<1>2. /\ Goes(r) /\ db[t] = "pending"
      /\ staged'[r].set = [x \in {t} \cup DOMAIN staged[r].set |->
                     IF x = t THEN Answer(KindOf(r)) ELSE staged[r].set[x]]
      /\ held'[r] = held[r] \cup {DocRow(t)}
  BY <1>1, CompleteTaskEffect
<1>3. \/ KindOf(r) \in {"agree", "refuse"} /\ pc[r] = 3 /\ t = "target"
      \/ KindOf(r) \in {"approve", "reject"} /\ pc[r] = 1 /\ t = "director"
  BY StepPlaces DEF Shapes, DocumentPlace, TaskOf
<1>4. /\ Answer(KindOf(r)) \in Answers
      /\ KindOf(r) = "approve" => Answer(KindOf(r)) = "approved"
      /\ KindOf(r) = "reject" => Answer(KindOf(r)) = "rejected"
  BY DEF Answer, Answers
<1>5. /\ Apart(r) /\ UNCHANGED <<asks, db>> /\ KindOf(r)' = KindOf(r) /\ pc'[r] = pc[r] + 1
  BY <1>2 DEF Goes, KindOf
<1>6. TasksOf(r) /\ StatusOf(r)
  BY DEF DocInv
<1>7. AnswersTask(r, t)'
  BY <1>2, <1>4, <1>5 DEF AnswersTask
<1>8. \A u : u # t /\ AnswersTask(r, u) => AnswersTask(r, u)'
  BY <1>2, <1>5 DEF AnswersTask
<1>9. TasksOf(r)'
  BY <1>2, <1>3, <1>5, <1>6, <1>7, <1>8 DEF TasksOf
<1>10. StatusOf(r)'
  BY <1>2, <1>3, <1>4, <1>5, <1>6 DEF StatusOf
<1> QED
  BY <1>5, <1>9, <1>10, DocsKept

\* The tasks that are cancelled are open too.
LEMMA DocsLocked ==
    ASSUME Shapes, DocInv, NEW r \in Requests, LockTasks(r)
    PROVE  DocInv'
<1> DEFINE open == { x \in Tasks : DocRow(x) \in todo[r] /\ db[x] = "pending" }
<1>1. /\ Goes(r)
      /\ staged'[r].set = [x \in open \cup DOMAIN staged[r].set |->
                      IF x \in open THEN "cancelled" ELSE staged[r].set[x]]
      /\ held'[r] = held[r] \cup todo[r]
  BY LockTasksEffect
<1>2. (KindOf(r) = "withdraw" /\ pc[r] = 3) \/ (KindOf(r) = "cancel" /\ pc[r] = 4)
  BY StepPlaces DEF Shapes, DocumentPlace
<1>3. \A x \in open : db[x] = "pending" /\ DocRow(x) \in todo[r] /\ x \in Tasks
  OBVIOUS
<1> HIDE DEF open
<1>4. Apart(r) /\ UNCHANGED <<asks, db>> /\ KindOf(r)' = KindOf(r) /\ pc'[r] = pc[r] + 1
  BY <1>1 DEF Goes, KindOf
<1>5. TasksOf(r) /\ StatusOf(r)
  BY DEF DocInv
<1>6. \A x \in open : AnswersTask(r, x)'
  BY <1>1, <1>3, <1>4 DEF AnswersTask, Answers
<1>7. \A x : AnswersTask(r, x) => AnswersTask(r, x)'
  BY <1>1, <1>4, <1>6 DEF AnswersTask
<1>8. TasksOf(r)'
  BY <1>1, <1>2, <1>4, <1>5, <1>6, <1>7 DEF TasksOf
<1>9. StatusOf(r)'
  BY <1>1, <1>2, <1>3, <1>4, <1>5 DEF StatusOf, Tasks
<1> QED
  BY <1>4, <1>8, <1>9, DocsKept

\* The write follows the answer of the task.
LEMMA DocsWritten ==
    ASSUME Shapes, DocInv, NEW r \in Requests, WriteSwap(r)
    PROVE  DocInv'
<1>1. /\ Goes(r)
      /\ staged'[r].set = [x \in DOMAIN Written(r) \cup DOMAIN staged[r].set |->
                  IF x \in DOMAIN Written(r) THEN Written(r)[x] ELSE staged[r].set[x]]
      /\ held'[r] = held[r] \cup {DocRow("swap")}
  BY WriteSwapEffect
<1>2. \/ KindOf(r) \in {"agree", "refuse", "withdraw"} /\ pc[r] = 4
      \/ KindOf(r) = "approve" /\ pc[r] = 13
      \/ KindOf(r) = "reject" /\ pc[r] = 3
      \/ KindOf(r) = "cancel" /\ pc[r] = 5
  BY StepPlaces DEF Shapes, DocumentPlace
<1>3. /\ "swap" \in DOMAIN Written(r) /\ Written(r)["swap"] = Outcome(KindOf(r))
      /\ "target" \notin DOMAIN Written(r)
      /\ "director" \in DOMAIN Written(r) => KindOf(r) = "agree" /\ Written(r)["director"] = "pending"
  BY DEF Written
<1>4. Apart(r) /\ UNCHANGED <<asks, db>> /\ KindOf(r)' = KindOf(r) /\ pc'[r] = pc[r] + 1
  BY <1>1 DEF Goes, KindOf
<1>5. TasksOf(r) /\ StatusOf(r) /\ (db["target"] = "pending" => db["director"] = "none")
  BY DEF DocInv
<1>6. \A x : x \notin DOMAIN Written(r) /\ AnswersTask(r, x) => AnswersTask(r, x)'
  BY <1>1, <1>4 DEF AnswersTask
<1>7. KindOf(r) = "agree" => AnswersTask(r, "target")' /\ db'["director"] = "none"
  <2>1. KindOf(r) = "agree" => AnswersTask(r, "target") /\ db["target"] = "pending"
    BY <1>2, <1>5 DEF TasksOf, AnswersTask
  <2> QED
    BY <2>1, <1>3, <1>4, <1>5, <1>6
<1>8. TasksOf(r)'
  BY <1>1, <1>2, <1>3, <1>4, <1>5, <1>6, <1>7 DEF TasksOf
<1>9. StatusOf(r)'
  BY <1>1, <1>2, <1>3, <1>4, <1>5 DEF StatusOf, Decisions
<1> QED
  BY <1>4, <1>8, <1>9, DocsKept

\* What a commit may do to a task that another request is going to answer, or that
\* is answered: nothing.
LEMMA CommittedTasks ==
    ASSUME Shapes, LockInv, DocInv, NEW r \in Requests, Commit(r)
    PROVE  /\ \A t \in Tasks : db[t] \notin {"none", "pending"} => db'[t] = db[t]
           /\ \A q \in Requests : q # r =>
                 /\ \A t \in Tasks : AnswersTask(q, t) => db'[t] = db[t]
                 /\ AnswersTask(q, "target") /\ db["director"] = "none" => db'["director"] = "none"
<1>1. \A x \in {"swap", "target", "director"} :
          db'[x] = IF x \in DOMAIN staged[r].set THEN staged[r].set[x] ELSE db[x]
  BY CommitEffect
<1>2. /\ "target" \in DOMAIN staged[r].set => AnswersTask(r, "target")
      /\ "director" \in DOMAIN staged[r].set =>
             AnswersTask(r, "director") \/ (AnswersTask(r, "target") /\ db["director"] = "none")
  BY DEF DocInv, TasksOf
<1>3. \A q \in Requests : \A t \in Tasks : q # r => ~(AnswersTask(q, t) /\ AnswersTask(r, t))
  BY DEF AnswersTask, LockInv, LocksExclude
<1>4. \A q \in Requests : \A t \in Tasks : AnswersTask(q, t) => db[t] = "pending"
  BY DEF AnswersTask
<1> QED
  BY <1>1, <1>2, <1>3, <1>4 DEF Tasks

\* What is committed of the swap agrees with its tasks.
LEMMA DocsCommitted ==
    ASSUME Shapes, LockInv, DocInv, NEW r \in Requests, Commit(r)
    PROVE  DocInv'
<1>1. /\ Apart(r) /\ UNCHANGED asks /\ pc'[r] = pc[r] + 1 /\ staged'[r].set = <<>>
      /\ \A x \in {"swap", "target", "director"} :
            db'[x] = IF x \in DOMAIN staged[r].set THEN staged[r].set[x] ELSE db[x]
  BY CommitEffect DEF Nothing
<1>2. Ends(r)
  BY StepPlaces DEF Shapes
<1>3. \A q : KindOf(q)' = KindOf(q)
  BY <1>1 DEF KindOf
<1>4. TasksOf(r) /\ StatusOf(r)
  BY DEF DocInv
<1>5. ASSUME NEW q \in Requests PROVE TasksOf(q)' /\ StatusOf(q)'
  <2>1. CASE q = r
    <3>1. TasksOf(r)'
      BY <1>1, <1>2, <1>3 DEF TasksOf, Ends
    <3>2. StatusOf(r)'
      BY <1>1, <1>2, <1>3 DEF StatusOf, Ends
    <3> QED
      BY <2>1, <3>1, <3>2
  <2>2. CASE q # r
    <3>1. staged'[q] = staged[q] /\ held'[q] = held[q] /\ pc'[q] = pc[q] /\ KindOf(q)' = KindOf(q)
      BY <1>1, <1>3, <2>2 DEF Apart
    <3>2. TasksOf(q) /\ StatusOf(q)
      BY DEF DocInv
    <3>3. /\ \A t \in Tasks : db[t] = "approved" => db'[t] = db[t]
          /\ \A t \in Tasks : AnswersTask(q, t) => db'[t] = db[t]
          /\ AnswersTask(q, "target") /\ db["director"] = "none" => db'["director"] = "none"
      BY <2>2, CommittedTasks
    <3>4. \A t \in Tasks : AnswersTask(q, t) => AnswersTask(q, t)'
      BY <3>1, <3>3 DEF AnswersTask
    <3>5. TasksOf(q)'
      BY <3>1, <3>2, <3>3, <3>4 DEF TasksOf, Tasks
    <3>6. StatusOf(q)'
      BY <3>1, <3>2, <3>3 DEF StatusOf, Tasks
    <3> QED
      BY <3>5, <3>6
  <2> QED
    BY <2>1, <2>2
<1>6. /\ "target" \in DOMAIN staged[r].set => db["target"] = "pending" /\ db'["target"] \in Answers
      /\ "director" \in DOMAIN staged[r].set =>
             db["director"] \in {"pending", "none"}
             /\ (db["director"] = "none" => "target" \in DOMAIN staged[r].set)
      /\ KindOf(r) \in {"agree", "refuse"} => db["target"] = "pending"
      /\ KindOf(r) = "approve" => "director" \in DOMAIN staged[r].set
      /\ KindOf(r) = "reject" => db["director"] = "pending"
  BY <1>1, <1>2, <1>4 DEF TasksOf, AnswersTask, Ends
<1>7. /\ "swap" \in DOMAIN staged[r].set => KindOf(r) \in Decisions /\ db'["swap"] = Outcome(KindOf(r))
      /\ "director" \in DOMAIN staged[r].set => (db'["director"] = "approved" <=> KindOf(r) = "approve")
      /\ KindOf(r) = "approve" => "swap" \in DOMAIN staged[r].set
      /\ KindOf(r) = "cancel" => db["director"] = "approved"
  BY <1>1, <1>2, <1>4 DEF StatusOf, Ends
<1>8. /\ db["target"] = "pending" => db["director"] = "none"
      /\ db["swap"] \in {"approved", "effective", "cancelled"} => db["director"] = "approved"
      /\ db["director"] = "approved" => db["swap"] \in {"effective", "withdrawn", "cancelled"}
  BY DEF DocInv
<1>9. db'["target"] = "pending" => db'["director"] = "none"
  BY <1>1, <1>6, <1>8 DEF Answers
<1>10. /\ KindOf(r) = "agree" => Outcome(KindOf(r)) = "wait_director_approval"
       /\ KindOf(r) = "approve" => Outcome(KindOf(r)) = "effective"
       /\ KindOf(r) \in {"refuse", "reject"} => Outcome(KindOf(r)) = "rejected"
       /\ KindOf(r) = "withdraw" => Outcome(KindOf(r)) = "withdrawn"
       /\ KindOf(r) = "cancel" => Outcome(KindOf(r)) = "cancelled"
  BY DEF Outcome
<1>11. db'["swap"] \in {"approved", "effective", "cancelled"} => db'["director"] = "approved"
  BY <1>1, <1>6, <1>7, <1>8, <1>10 DEF Decisions
<1>12. db'["director"] = "approved" => db'["swap"] \in {"effective", "withdrawn", "cancelled"}
  BY <1>1, <1>6, <1>7, <1>8, <1>10 DEF Decisions
<1> QED
  BY <1>5, <1>9, <1>11, <1>12 DEF DocInv

\* Every step keeps the documents.
LEMMA DocInvStep ==
    ASSUME Shapes, LockInv, DocInv, NEW r \in Requests, Step(r) \/ Crash(r)
    PROVE  DocInv'
BY StepKinds, DocsUndone, DocsQuiet, DocsComplete, DocsLocked, DocsWritten, DocsCommitted
   DEF Answering
-----------------------------------------------------------------------------
(***************************************************************************)
(* The roster.                                                             *)
(***************************************************************************)
Writers == {"edit", "correct", "approve", "cancel"}

\* The request that put x there has its change of the shift among X; an editor put
\* there whom it was asked to.
Logged(x, X) ==
    /\ x.by \in Requests /\ Row("log", x.shift, None, x.by) \in X
    /\ KindOf(x.by) \in Writers
    /\ KindOf(x.by) \in Editors => x.person = asks[x.by].person

\* The approval r has changed shift s, or found that an edit had done so.
Changed(r, s) == Row("log", s, None, r) \in staged[r].new \/ Forestalled(s)

StagedOf(r) ==
    /\ \A x \in staged[r].gone : x.table = "staff"
    /\ \A x \in staged[r].new : x.by = r
    /\ \A x \in staged[r].new : x.table = "staff" => Logged(x, staged[r].new)
    /\ \A x \in staged[r].new : x.table = "log" => KindOf(r) \in Writers
    /\ KindOf(r) \in Editors /\ pc[r] \in 2..4 => wants[r][asks[r].on] = {asks[r].person}

ApprovalOf(r) ==
    KindOf(r) = "approve" =>
        /\ pc[r] < 9 => staged[r].new = {}
        /\ pc[r] < 13 => \A x \in staged[r].new : x.shift = Source
        /\ pc[r] \in 4..5 => After(Source) \in wants[r][Source]
        /\ pc[r] \in 5..9 => After(Target) \in wants[r][Target]
        /\ pc[r] \in 9..14 => Changed(r, Source)
        /\ pc[r] \in 13..14 => Changed(r, Target)

RosterInv ==
    /\ \A r \in Requests : StagedOf(r) /\ ApprovalOf(r)
    /\ \A x \in Committed("staff") :
          (x.shift \in Shifts /\ x.person = Before(x.shift)) \/ Logged(x, rows)
    /\ ChangedBy("approve") # {} => db["director"] = "approved"
    /\ ChangedBy("cancel") # {} =>
          db["director"] = "approved" /\ db["swap"] \in {"withdrawn", "cancelled"}
    /\ db["director"] = "approved" =>
          \A s \in Shifts : s \in { x.shift : x \in ChangedBy("approve") } \/ Forestalled(s)

\* What a step other than a commit has to show of r alone.
LEMMA RosterKept ==
    ASSUME RosterInv, NEW r \in Requests, Apart(r), UNCHANGED <<asks, db, rows>>,
           StagedOf(r)', ApprovalOf(r)'
    PROVE  RosterInv'
<1>1. /\ \A q : KindOf(q)' = KindOf(q) /\ asks' = asks
      /\ \A s : Forestalled(s)' = Forestalled(s)
      /\ \A t : Committed(t)' = Committed(t)
      /\ \A k : ChangedBy(k)' = ChangedBy(k)
      /\ \A x, X : Logged(x, X)' = Logged(x, X)
  BY DEF KindOf, Forestalled, Committed, ChangedBy, Logged, After
<1>2. ASSUME NEW q \in Requests PROVE StagedOf(q)' /\ ApprovalOf(q)'
  <2>1. CASE q = r
    BY <2>1
  <2>2. CASE q # r
    <3>1. staged'[q] = staged[q] /\ wants'[q] = wants[q] /\ pc'[q] = pc[q]
      BY <2>2 DEF Apart
    <3>2. StagedOf(q) /\ ApprovalOf(q)
      BY DEF RosterInv
    <3>3. StagedOf(q)'
      BY <1>1, <3>1, <3>2 DEF StagedOf, Logged
    <3>4. ApprovalOf(q)'
      BY <1>1, <3>1, <3>2 DEF ApprovalOf, Changed, After
    <3> QED
      BY <3>3, <3>4
  <2> QED
    BY <2>1, <2>2
<1> QED
  BY <1>1, <1>2 DEF RosterInv, Before, Logged, Committed

\* A transaction that is undone leaves the roster alone.
LEMMA RosterUndone ==
    ASSUME RosterInv, NEW r \in Requests, Undone(r)
    PROVE  RosterInv'
<1>1. /\ staged'[r].gone = {} /\ staged'[r].new = {} /\ pc'[r] = 0
      /\ Apart(r) /\ UNCHANGED <<asks, db, rows>>
  BY DEF Undone, Nothing
<1>2. StagedOf(r)'
  BY <1>1 DEF StagedOf
<1>3. ApprovalOf(r)'
  BY <1>1 DEF ApprovalOf
<1> QED
  BY <1>1, <1>2, <1>3, RosterKept

\* Any other step within the transaction leaves alone what r is going to put on the
\* shifts, and stages none of it.
LEMMA SteadyPlaces ==
    ASSUME Shapes, NEW r \in Requests, WorkingStep(r), ~Load(r), ~Look(r), ~InsertStaff(r)
    PROVE  /\ KindOf(r) = "approve" => pc[r] \in {1, 2, 6, 7, 10, 11, 13}
           /\ KindOf(r) \in Editors => pc[r] > 1
           /\ WriteFlag(r) \/ FileLeave(r) => KindOf(r) # "approve"
<1>1. PICK op : \/ DocumentPlace(r, op) \/ OnePlace(r, op)
                \/ StaffPlace(r, op) /\ op \in {"delete", "lock"}
  BY StepPlaces DEF Shapes, WorkingStep
<1>2. WriteFlag(r) \/ FileLeave(r) => KindOf(r) # "approve"
  BY StepPlaces DEF Shapes, OnePlace
<1> QED
  BY <1>1, <1>2 DEF DocumentPlace, OnePlace, StaffPlace, Editors

\* So what r is going to put there stays true.
LEMMA RosterSteady ==
    ASSUME Shapes, LockInv, RosterInv, NEW r \in Requests, WorkingStep(r), Moves(r),
           ~Load(r), ~Look(r), ~InsertStaff(r)
    PROVE  RosterInv'
<1>1. LockStaff(r) => \A x \in todo[r] : x.table = "staff"
  <2>1. LockStaff(r) => StaffPlace(r, "lock")
    BY StepPlaces DEF Shapes
  <2> QED
    BY <2>1 DEF StaffPlace, LockInv, FoundOf, Editors
<1>2. /\ Apart(r) /\ UNCHANGED <<asks, db, rows>>
      /\ \A x \in staged'[r].gone : x \in staged[r].gone \/ x.table = "staff"
      /\ staged[r].new \subseteq staged'[r].new
      /\ \A x \in staged'[r].new :
            x \in staged[r].new \/ (x.by = r /\ x.table \in {"flag", "leave"} /\ KindOf(r) # "approve")
      /\ wants'[r] = wants[r] /\ pc'[r] = pc[r] + 1
      /\ KindOf(r) = "approve" => pc[r] \in {1, 2, 6, 7, 10, 11, 13}
      /\ KindOf(r) \in Editors => pc[r] > 1
  BY <1>1, SteadyPlaces DEF Moves, Adds
<1>3. /\ \A q : KindOf(q)' = KindOf(q)
      /\ \A s : Forestalled(s)' = Forestalled(s)
      /\ \A x, X : Logged(x, X)' = Logged(x, X)
  BY <1>2 DEF KindOf, Forestalled, Committed, Logged, After
<1>4. StagedOf(r) /\ ApprovalOf(r) /\ pc[r] \in Nat
  BY DEF RosterInv, Shapes
<1>5. \A x \in staged[r].new : Logged(x, staged[r].new) => Logged(x, staged'[r].new)
  BY <1>2 DEF Logged
<1>6. StagedOf(r)'
  <2>1. \A x \in staged'[r].new : x.table = "staff" => Logged(x, staged'[r].new)
    BY <1>2, <1>4, <1>5 DEF StagedOf
  <2>2. \A x \in staged'[r].new : x.table = "staff" => Logged(x, staged[r].new)'
    BY <1>2, <2>1 DEF Logged, KindOf
  <2> QED
    BY <1>2, <1>3, <1>4, <2>2 DEF StagedOf
<1>7. ApprovalOf(r)'
  <2>1. KindOf(r) = "approve" => staged'[r].new = staged[r].new
    BY <1>2
  <2> QED
    BY <1>2, <1>3, <1>4, <2>1 DEF ApprovalOf, Changed, After
<1> QED
  BY <1>2, <1>6, <1>7, RosterKept

\* An approval puts the person the swap brings on its list.
LEMMA RosterLoaded ==
    ASSUME Shapes, RosterInv, NEW r \in Requests, Load(r)
    PROVE  RosterInv'
<1>1. SUFFICES ASSUME ~Undone(r) PROVE RosterInv'
  BY RosterUndone
<1>2. StaffPlace(r, "load") /\ Statement(r).on \in Shifts
  BY <1>1, StepPlaces DEF Shapes
<1> DEFINE s     == Statement(r).on
           staff == { x.person : x \in StaffRows(r, s) }
<1>3. /\ Goes(r) /\ UNCHANGED staged
      /\ KindOf(r) = "approve" => Leaver(r, s) \in staff
      /\ wants'[r] = [wants[r] EXCEPT ![s] = Replaced(r, s, staff)]
  BY <1>1, <1>2, LoadEffect
<1>4. KindOf(r) = "approve" => After(s) \in Replaced(r, s, staff)
  BY <1>3 DEF Replaced, Joiner
<1> HIDE DEF staff
<1>5. /\ Apart(r) /\ UNCHANGED <<asks, db, rows>> /\ pc'[r] = pc[r] + 1
      /\ pc[r] \in Nat /\ DOMAIN wants[r] = Shifts
  BY <1>3 DEF Goes, Shapes
<1>6. \/ KindOf(r) = "approve" /\ pc[r] = 3 /\ s = Source
      \/ KindOf(r) = "approve" /\ pc[r] = 4 /\ s = Target
      \/ KindOf(r) \notin Editors \cup {"approve"}
  BY <1>2 DEF StaffPlace, Editors
<1>7. /\ KindOf(r) = "approve" => After(s) \in wants'[r][s]
      /\ \A x \in Shifts : x # s => wants'[r][x] = wants[r][x]
  BY <1>2, <1>3, <1>4, <1>5
<1>8. Source \in Shifts /\ Target \in Shifts /\ Source # Target
  BY TxnAssumption DEF Shifts
<1>9. /\ KindOf(r)' = KindOf(r)
      /\ \A x, X : Logged(x, X)' = Logged(x, X)
  BY <1>5 DEF KindOf, Logged
<1>10. StagedOf(r) /\ ApprovalOf(r)
  BY DEF RosterInv
<1> HIDE DEF s
<1>11. StagedOf(r)'
  <2>1. KindOf(r) \notin Editors
    BY <1>6 DEF Editors
  <2> QED
    BY <1>3, <1>9, <1>10, <2>1 DEF StagedOf, Logged
<1>12. ApprovalOf(r)'
  BY <1>3, <1>5, <1>6, <1>7, <1>8, <1>9, <1>10 DEF ApprovalOf, After
<1> QED
  BY <1>5, <1>11, <1>12, RosterKept

\* An approval that finds the swap's person on the shift finds an edit that put him there.
LEMMA SkipForestalled ==
    ASSUME Shapes, DocInv, RosterInv, NEW r \in Requests, NEW s \in Shifts,
           KindOf(r) = "approve", pc[r] \in 2..14,
           \A x \in staged[r].new : x.shift # s,
           After(s) \in { x.person : x \in StaffRows(r, s) }
    PROVE  Forestalled(s)
<1>1. PICK x \in StaffRows(r, s) : x.person = After(s)
  OBVIOUS
<1>2. x \in Committed("staff") /\ x.shift = s
  BY DEF StaffRows, Seen, Committed
<1>3. After(s) # Before(s)
  BY TxnAssumption DEF After, Before
<1>4. Logged(x, rows)
  BY <1>1, <1>2, <1>3 DEF RosterInv
<1>5. db["director"] = "pending"
  BY DEF DocInv, TasksOf, AnswersTask
<1>6. ChangedBy("approve") = {} /\ ChangedBy("cancel") = {}
  BY <1>5 DEF RosterInv
<1> DEFINE log == Row("log", s, None, x.by)
<1>7. log \in Committed("log") /\ log.by = x.by /\ log.shift = s
  BY <1>2, <1>4 DEF Logged, Committed, Row
<1>8. KindOf(x.by) \notin {"approve", "cancel"}
  BY <1>6, <1>7 DEF ChangedBy
<1>9. KindOf(x.by) \in Editors /\ asks[x.by].person = After(s)
  BY <1>1, <1>4, <1>8 DEF Logged, Writers, Editors
<1> QED
  BY <1>7, <1>9 DEF Forestalled, Editors

\* The look takes the list over, or skips the shift of a forestalled approval.
LEMMA RosterLooked ==
    ASSUME Shapes, DocInv, RosterInv, NEW r \in Requests, Look(r)
    PROVE  RosterInv'
<1>1. SUFFICES ASSUME ~Undone(r) PROVE RosterInv'
  BY RosterUndone
<1>2. StaffPlace(r, "look") /\ Statement(r).on \in Shifts
  BY <1>1, StepPlaces DEF Shapes
<1> PICK s \in Shifts : s = Statement(r).on
  BY <1>2
<1> PICK staff : staff = { x.person : x \in StaffRows(r, s) }
  OBVIOUS
<1>3. /\ Apart(r) /\ UNCHANGED <<asks, db, rows, staged>>
      /\ \/ pc'[r] = pc[r] + 1 /\ wants'[r] = [wants[r] EXCEPT ![s] = Listed(r)]
         \/ /\ pc'[r] = pc[r] + 4 /\ wants'[r] = [wants[r] EXCEPT ![s] = {}]
            /\ Listed(r) = staff /\ KindOf(r) # "correct"
  BY <1>1, <1>2, LookEffect DEF Goes
<1>4. pc[r] \in Nat /\ DOMAIN wants[r] = Shifts
  BY DEF Shapes
<1>5. \/ KindOf(r) = "approve" /\ pc[r] = 5 /\ s = Source
      \/ KindOf(r) = "approve" /\ pc[r] = 9 /\ s = Target
      \/ KindOf(r) \in Editors /\ pc[r] = 1 /\ s = asks[r].on
      \/ KindOf(r) \notin Editors \cup {"approve"}
  BY <1>2 DEF StaffPlace, Editors
<1>6. /\ KindOf(r) \in Editors => Listed(r) = {asks[r].person}
      /\ KindOf(r) = "approve" => Listed(r) = wants[r][s]
  BY DEF Listed, Editors
<1>7. Source \in Shifts /\ Target \in Shifts /\ Source # Target
  BY TxnAssumption DEF Shifts
<1>8. /\ KindOf(r)' = KindOf(r) /\ asks'[r] = asks[r]
      /\ \A x, X : Logged(x, X)' = Logged(x, X)
      /\ \A x : Changed(r, x)' = Changed(r, x)
  BY <1>3 DEF KindOf, Logged, Changed, Forestalled, Committed, After
<1>9. StagedOf(r) /\ ApprovalOf(r)
  BY DEF RosterInv
<1>10. \A x \in Shifts : x # s => wants'[r][x] = wants[r][x]
  BY <1>3, <1>4
<1>11. StagedOf(r)'
  <2>1. KindOf(r) \in Editors /\ pc'[r] \in 2..4 => wants'[r][asks[r].on] = {asks[r].person}
    BY <1>3, <1>4, <1>5, <1>6, <1>9 DEF Editors, StagedOf
  <2> QED
    BY <1>3, <1>8, <1>9, <2>1 DEF StagedOf, Logged
<1>12. ASSUME KindOf(r) = "approve", pc'[r] = pc[r] + 4 PROVE Changed(r, s)
  <2>1. After(s) \in staff
    BY <1>3, <1>5, <1>6, <1>9, <1>12 DEF ApprovalOf, Editors
  <2>2. \A x \in staged[r].new : x.shift # s
    BY <1>5, <1>7, <1>9, <1>12 DEF ApprovalOf, Editors
  <2>3. pc[r] \in 2..14
    BY <1>5, <1>12 DEF Editors
  <2>4. Forestalled(s)
    BY <2>1, <2>2, <2>3, <1>12, SkipForestalled
  <2> QED
    BY <2>4 DEF Changed
<1>13. ApprovalOf(r)'
  <2>1. CASE KindOf(r) = "approve" /\ pc[r] = 5 /\ s = Source
    <3>1. /\ staged'[r].new = {} /\ pc'[r] \in {6, 9} /\ wants'[r][Target] = wants[r][Target]
          /\ After(Target) \in wants[r][Target] /\ After(Target)' = After(Target)
          /\ pc'[r] = 9 => Changed(r, Source)'
      BY <1>3, <1>7, <1>8, <1>9, <1>10, <1>12, <2>1 DEF ApprovalOf, After
    <3> QED
      BY <1>8, <2>1, <3>1 DEF ApprovalOf
  <2>2. CASE KindOf(r) = "approve" /\ pc[r] = 9 /\ s = Target
    <3>1. /\ \A x \in staged'[r].new : x.shift = Source
          /\ pc'[r] \in {10, 13} /\ Changed(r, Source)'
          /\ pc'[r] = 13 => Changed(r, Target)'
      BY <1>3, <1>7, <1>8, <1>9, <1>12, <2>2 DEF ApprovalOf
    <3> QED
      BY <1>8, <2>2, <3>1 DEF ApprovalOf
  <2>3. CASE KindOf(r) # "approve"
    BY <1>8, <2>3 DEF ApprovalOf
  <2> QED
    BY <1>5, <2>1, <2>2, <2>3 DEF Editors
<1> QED
  BY <1>3, <1>11, <1>13, RosterKept

\* The flush puts the persons there together with their change log.
LEMMA RosterInserted ==
    ASSUME Shapes, RosterInv, NEW r \in Requests, InsertStaff(r)
    PROVE  RosterInv'
<1>2. StaffPlace(r, "insert") /\ Statement(r).on \in Shifts
  BY StepPlaces DEF Shapes
<1> PICK s \in Shifts : s = Statement(r).on
  BY <1>2
<1> DEFINE staff == { Row("staff", s, p, r) : p \in wants[r][s] }
           log   == Row("log", s, None, r)
<1>3. /\ Goes(r) /\ wants'[r] = [wants[r] EXCEPT ![s] = {}]
      /\ staged'[r].gone = staged[r].gone
      /\ staged'[r].new = staged[r].new \cup staff \cup {log}
  BY <1>2, InsertStaffEffect
<1>4. /\ Apart(r) /\ UNCHANGED <<asks, db, rows>> /\ pc'[r] = pc[r] + 1
      /\ pc[r] \in Nat /\ DOMAIN wants[r] = Shifts
  BY <1>3 DEF Goes, Shapes
<1>5. \/ KindOf(r) = "approve" /\ pc[r] = 8 /\ s = Source
      \/ KindOf(r) = "approve" /\ pc[r] = 12 /\ s = Target
      \/ KindOf(r) \in Editors /\ pc[r] = 4 /\ s = asks[r].on
      \/ KindOf(r) = "cancel"
  BY <1>2 DEF StaffPlace, Editors
<1>6. Source \in Shifts /\ Target \in Shifts /\ Source # Target
  BY TxnAssumption DEF Shifts
<1>7. /\ \A q : KindOf(q)' = KindOf(q)
      /\ \A x, X : Logged(x, X)' = Logged(x, X)
      /\ \A x : Forestalled(x)' = Forestalled(x)
  BY <1>4 DEF KindOf, Logged, Forestalled, Committed, After
<1>8. StagedOf(r) /\ ApprovalOf(r)
  BY DEF RosterInv
<1>9. /\ log.by = r /\ log.table = "log" /\ log.shift = s
      /\ \A x \in staff : x.by = r /\ x.table = "staff" /\ x.shift = s /\ x.person \in wants[r][s]
  BY DEF Row
<1>10. \A x \in staff : Logged(x, staged'[r].new)
  BY <1>3, <1>5, <1>8, <1>9 DEF Logged, StagedOf, Writers, Editors
<1>11. \A x \in staged[r].new : Logged(x, staged[r].new) => Logged(x, staged'[r].new)
  BY <1>3 DEF Logged
<1> HIDE DEF staff, log
<1>12. StagedOf(r)'
  <2>1. \A x \in staged'[r].new : x.table = "staff" => Logged(x, staged'[r].new)
    BY <1>3, <1>8, <1>9, <1>10, <1>11 DEF StagedOf
  <2>2. \A x \in staged'[r].new : x.table = "staff" => Logged(x, staged[r].new)'
    BY <1>4, <2>1 DEF Logged, KindOf
  <2>3. \A x \in staged'[r].new : x.by = r
    BY <1>3, <1>8, <1>9 DEF StagedOf
  <2>4. KindOf(r) \in Writers /\ (KindOf(r) \in Editors => pc'[r] = 5)
    BY <1>4, <1>5 DEF Writers, Editors
  <2>5. KindOf(r)' = KindOf(r) /\ \A x \in staged'[r].gone : x.table = "staff"
    BY <1>3, <1>7, <1>8 DEF StagedOf
  <2> QED
    BY <2>2, <2>3, <2>4, <2>5 DEF StagedOf
<1>13. ApprovalOf(r)'
  <2>1. \A x : Changed(r, x) => Changed(r, x)'
    BY <1>3, <1>7 DEF Changed
  <2>2. Changed(r, s)'
    BY <1>3 DEF Changed, log
  <2>3. CASE KindOf(r) = "approve" /\ pc[r] = 8 /\ s = Source
    <3>1. /\ \A x \in staged'[r].new : x.shift = Source
          /\ pc'[r] = 9 /\ wants'[r][Target] = wants[r][Target]
          /\ After(Target) \in wants[r][Target] /\ After(Target)' = After(Target)
      BY <1>3, <1>4, <1>6, <1>8, <1>9, <2>3 DEF ApprovalOf, After
    <3> QED
      BY <1>7, <2>2, <2>3, <3>1 DEF ApprovalOf
  <2>4. CASE KindOf(r) = "approve" /\ pc[r] = 12 /\ s = Target
    <3>1. pc'[r] = 13 /\ Changed(r, Source)'
      BY <1>4, <1>8, <2>1, <2>4 DEF ApprovalOf
    <3> QED
      BY <1>7, <2>2, <2>4, <3>1 DEF ApprovalOf
  <2>5. CASE KindOf(r) # "approve"
    BY <1>7, <2>5 DEF ApprovalOf
  <2> QED
    BY <1>5, <2>3, <2>4, <2>5 DEF Editors
<1> QED
  BY <1>4, <1>12, <1>13, RosterKept

\* What a commit does to the swap: only an approval makes the director's answer an
\* approval, and once there is one only a withdrawal and a cancellation write the swap.
LEMMA CommittedSwap ==
    ASSUME Shapes, LockInv, DocInv, NEW r \in Requests, Commit(r)
    PROVE  /\ KindOf(r) = "approve" => db["director"] = "pending" /\ db'["director"] = "approved"
           /\ db'["director"] = "approved" /\ db["director"] # "approved" => KindOf(r) = "approve"
           /\ db["director"] = "approved" =>
                 db'["director"] = "approved" /\ db'["swap"] \in {db["swap"], "withdrawn", "cancelled"}
           /\ KindOf(r) = "cancel" => db["director"] = "approved" /\ db'["swap"] = "cancelled"
<1>1. \A x \in {"swap", "target", "director"} :
          db'[x] = IF x \in DOMAIN staged[r].set THEN staged[r].set[x] ELSE db[x]
  BY CommitEffect
<1>2. Ends(r)
  BY StepPlaces DEF Shapes
<1>3. TasksOf(r) /\ StatusOf(r)
  BY DEF DocInv
<1>4. /\ "director" \in DOMAIN staged[r].set => db["director"] \in {"pending", "none"}
      /\ KindOf(r) \in {"agree", "refuse"} => db["target"] = "pending"
      /\ KindOf(r) \in {"approve", "reject"} =>
             db["director"] = "pending" /\ "director" \in DOMAIN staged[r].set
  BY <1>2, <1>3 DEF TasksOf, AnswersTask, Ends
<1>5. /\ "swap" \in DOMAIN staged[r].set => KindOf(r) \in Decisions /\ db'["swap"] = Outcome(KindOf(r))
      /\ "director" \in DOMAIN staged[r].set => (db'["director"] = "approved" <=> KindOf(r) = "approve")
      /\ KindOf(r) = "cancel" => db["director"] = "approved" /\ "swap" \in DOMAIN staged[r].set
  BY <1>1, <1>2, <1>3 DEF StatusOf, Ends
<1>6. db["target"] = "pending" => db["director"] = "none"
  BY DEF DocInv
<1>7. /\ KindOf(r) = "withdraw" => Outcome(KindOf(r)) = "withdrawn"
      /\ KindOf(r) = "cancel" => Outcome(KindOf(r)) = "cancelled"
  BY DEF Outcome
<1> QED
  BY <1>1, <1>4, <1>5, <1>6, <1>7 DEF Decisions

\* A commit keeps the committed changes of the roster and adds r's.
LEMMA CommittedRows ==
    ASSUME Shapes, RosterInv, NEW r \in Requests, Commit(r)
    PROVE  /\ \A t : t # "staff" =>
                 Committed(t)' = Committed(t) \cup { x \in staged[r].new : x.table = t }
           /\ \A x \in rows' : x \in rows \/ (x \in staged[r].new /\ x.by = r)
           /\ \A x : Logged(x, rows) => Logged(x, rows)'
           /\ \A x : Logged(x, staged[r].new) => Logged(x, rows)'
           /\ \A s : Forestalled(s) => Forestalled(s)'
           /\ \A k : ChangedBy(k)' = ChangedBy(k)
                 \cup { x \in staged[r].new : x.table = "log" /\ KindOf(r) = k }
<1>1. rows' = (rows \ staged[r].gone) \cup staged[r].new /\ UNCHANGED asks
  BY CommitEffect
<1>2. /\ \A x \in staged[r].gone : x.table = "staff"
      /\ \A x \in staged[r].new : x.by = r
  BY DEF RosterInv, StagedOf
<1>3. \A q : KindOf(q)' = KindOf(q)
  BY <1>1 DEF KindOf
<1>4. ASSUME NEW t, t # "staff"
      PROVE  Committed(t)' = Committed(t) \cup { x \in staged[r].new : x.table = t }
  BY <1>1, <1>2, <1>4 DEF Committed
<1>5. \A s, p, q : Row("log", s, p, q) \in rows \cup staged[r].new => Row("log", s, p, q) \in rows'
  BY <1>1, <1>2 DEF Row
<1>6. \A x : Logged(x, rows) => Logged(x, rows)'
  BY <1>1, <1>3, <1>5 DEF Logged
<1>7. \A x : Logged(x, staged[r].new) => Logged(x, rows)'
  BY <1>1, <1>3, <1>5 DEF Logged
<1>8. Committed("log")' = Committed("log") \cup { x \in staged[r].new : x.table = "log" }
  BY <1>4
<1>9. \A s : Forestalled(s) => Forestalled(s)'
  BY <1>1, <1>3, <1>8 DEF Forestalled, After
<1>10. \A k : ChangedBy(k)' = ChangedBy(k)
                 \cup { x \in staged[r].new : x.table = "log" /\ KindOf(r) = k }
  BY <1>2, <1>3, <1>8 DEF ChangedBy
<1> QED
  BY <1>1, <1>2, <1>4, <1>6, <1>7, <1>9, <1>10

\* What is committed of the roster agrees with the director's answer.
LEMMA RosterCommitted ==
    ASSUME Shapes, LockInv, DocInv, RosterInv, NEW r \in Requests, Commit(r)
    PROVE  RosterInv'
<1>1. /\ Apart(r) /\ UNCHANGED asks /\ pc'[r] = pc[r] + 1
      /\ staged'[r].gone = {} /\ staged'[r].new = {}
  BY CommitEffect DEF Nothing
<1>2. Ends(r)
  BY StepPlaces DEF Shapes
<1>3. \A q : KindOf(q)' = KindOf(q)
  BY <1>1 DEF KindOf
<1>4. /\ \A x \in rows' : x \in rows \/ (x \in staged[r].new /\ x.by = r)
      /\ \A x : Logged(x, rows) => Logged(x, rows)'
      /\ \A x : Logged(x, staged[r].new) => Logged(x, rows)'
      /\ \A s : Forestalled(s) => Forestalled(s)'
  BY CommittedRows
<1>5. \A k : ChangedBy(k)' = ChangedBy(k)
                 \cup { x \in staged[r].new : x.table = "log" /\ KindOf(r) = k }
  BY CommittedRows
<1>6. ASSUME NEW q \in Requests PROVE StagedOf(q)' /\ ApprovalOf(q)'
  <2>1. CASE q = r
    <3>1. StagedOf(r)'
      BY <1>1, <1>2, <1>3 DEF StagedOf, Editors, Ends
    <3>2. ApprovalOf(r)'
      BY <1>1, <1>2, <1>3 DEF ApprovalOf, Ends
    <3> QED
      BY <2>1, <3>1, <3>2
  <2>2. CASE q # r
    <3>1. staged'[q] = staged[q] /\ wants'[q] = wants[q] /\ pc'[q] = pc[q]
      BY <1>1, <2>2 DEF Apart
    <3>2. StagedOf(q) /\ ApprovalOf(q)
      BY DEF RosterInv
    <3>3. StagedOf(q)'
      BY <1>1, <1>3, <3>1, <3>2 DEF StagedOf, Logged
    <3>4. \A s : Changed(q, s) => Changed(q, s)'
      BY <1>4, <3>1 DEF Changed
    <3>5. ApprovalOf(q)'
      BY <1>3, <3>1, <3>2, <3>4 DEF ApprovalOf, After
    <3> QED
      BY <3>3, <3>5
  <2> QED
    BY <2>1, <2>2
<1>7. StagedOf(r) /\ ApprovalOf(r)
  BY DEF RosterInv
<1>8. ASSUME NEW x \in rows', x.table = "staff"
      PROVE  (x.shift \in Shifts /\ x.person = Before(x.shift)) \/ Logged(x, rows)'
  <2>1. CASE x \in rows
    BY <1>4, <1>8, <2>1 DEF RosterInv, Committed
  <2>2. CASE x \in staged[r].new
    BY <1>4, <1>7, <1>8, <2>2 DEF StagedOf
  <2> QED
    BY <1>4, <2>1, <2>2
<1>9. /\ KindOf(r) = "approve" => db["director"] = "pending" /\ db'["director"] = "approved"
      /\ db'["director"] = "approved" /\ db["director"] # "approved" => KindOf(r) = "approve"
      /\ db["director"] = "approved" =>
             db'["director"] = "approved" /\ db'["swap"] \in {db["swap"], "withdrawn", "cancelled"}
      /\ KindOf(r) = "cancel" => db["director"] = "approved" /\ db'["swap"] = "cancelled"
  BY CommittedSwap
<1>10. ChangedBy("approve")' # {} => db'["director"] = "approved"
  BY <1>5, <1>9 DEF RosterInv
<1>11. ChangedBy("cancel")' # {} =>
           db'["director"] = "approved" /\ db'["swap"] \in {"withdrawn", "cancelled"}
  BY <1>5, <1>9 DEF RosterInv
<1>12. ASSUME db'["director"] = "approved", NEW s \in Shifts
       PROVE  s \in { x.shift : x \in ChangedBy("approve")' } \/ Forestalled(s)'
  <2>1. CASE db["director"] = "approved"
    BY <1>4, <1>5, <2>1 DEF RosterInv
  <2>2. CASE db["director"] # "approved"
    <3>1. KindOf(r) = "approve" /\ pc[r] = 14
      BY <1>2, <1>9, <1>12, <2>2 DEF Ends
    <3>2. Changed(r, s)
      BY <1>7, <3>1 DEF ApprovalOf, Shifts
    <3>3. Row("log", s, None, r).shift = s /\ Row("log", s, None, r).table = "log"
      BY DEF Row
    <3>4. Row("log", s, None, r) \in staged[r].new => Row("log", s, None, r) \in ChangedBy("approve")'
      BY <1>5, <3>1, <3>3
    <3> QED
      BY <1>4, <3>2, <3>3, <3>4 DEF Changed
  <2> QED
    BY <2>1, <2>2
<1>13. \A x \in Committed("staff")' :
          (x.shift \in Shifts /\ x.person = Before(x.shift)) \/ Logged(x, rows)'
  BY <1>8 DEF Committed
<1>14. RosterInv!1' /\ RosterInv!3' /\ RosterInv!4' /\ RosterInv!5'
  BY <1>6, <1>10, <1>11, <1>12
<1> QED
  BY <1>13, <1>14 DEF RosterInv, Before

\* Every step keeps the roster.
LEMMA RosterInvStep ==
    ASSUME Shapes, LockInv, DocInv, RosterInv, NEW r \in Requests, Step(r) \/ Crash(r)
    PROVE  RosterInv'
BY StepKinds, RosterUndone, RosterLoaded, RosterLooked, RosterInserted, RosterSteady, RosterCommitted

\* The roster follows the decision, as its task does.
LEMMA RosterInvFollows ==
    ASSUME DocInv, RosterInv
    PROVE  RosterFollowsDecision
<1>1. Expected("approve") \cup Expected("cancel") = {"wait_director_approval", "approved", "effective"}
  BY DEF Expected
<1> QED
  BY <1>1 DEF DocInv, RosterInv, RosterFollowsDecision
-----------------------------------------------------------------------------
(***************************************************************************)
(* The leaves.                                                             *)
(***************************************************************************)
\* There is a leave for the duty that r asks for.
Taken(r) == \E y \in Committed("leave") : y.shift = asks[r].on /\ y.person = asks[r].person

LeaveOf(r) ==
    /\ \A x \in staged[r].new : x.table = "leave" =>
          KindOf(r) = "leave" /\ pc[r] = 4 /\ x = Row("leave", asks[r].on, asks[r].person, r)
    /\ KindOf(r) = "leave" /\ pc[r] \in 3..4 => ~Taken(r)

LeaveInv == LeavesExcludeEachOther /\ \A r \in Requests : LeaveOf(r)

\* What a step other than a commit has to show of r alone.
LEMMA LeavesKept ==
    ASSUME LeaveInv, NEW r \in Requests, Apart(r), UNCHANGED <<asks, db, rows>>, LeaveOf(r)'
    PROVE  LeaveInv'
<1>1. ASSUME NEW q \in Requests PROVE LeaveOf(q)'
  <2>1. CASE q = r
    BY <2>1
  <2>2. CASE q # r
    BY <2>2 DEF LeaveInv, LeaveOf, Apart, KindOf, Taken, Committed
  <2> QED
    BY <2>1, <2>2
<1>2. LeavesExcludeEachOther'
  BY DEF LeaveInv, LeavesExcludeEachOther, Committed
<1> QED
  BY <1>1, <1>2 DEF LeaveInv

\* A request files its leave after it saw that there is none.
LEMMA LeaveInvMoves ==
    ASSUME Shapes, RosterInv, LeaveInv, NEW r \in Requests,
           Undone(r) \/ (WorkingStep(r) /\ Moves(r))
    PROVE  LeaveInv'
<1>1. /\ Apart(r) /\ UNCHANGED <<asks, db, rows>>
  BY DEF Undone, Moves
<1>2. /\ KindOf(r)' = KindOf(r) /\ (Taken(r)' <=> Taken(r)) /\ asks'[r] = asks[r]
      /\ pc[r] \in Nat
  BY <1>1 DEF KindOf, Taken, Committed, Shapes
<1>3. LeaveOf(r)
  BY DEF LeaveInv
<1> SUFFICES ASSUME TRUE PROVE LeaveOf(r)'
  BY <1>1, LeavesKept
<1>4. CASE Undone(r)
  BY <1>4 DEF Undone, Nothing, LeaveOf
<1>5. CASE Moves(r) /\ KindOf(r) # "leave"
  <2>1. ~FileLeave(r)
    BY <1>5, StepPlaces DEF Shapes, OnePlace
  <2>2. \A x \in staged'[r].new : x.table = "leave" => x \in staged[r].new
    BY <1>5, <2>1 DEF Moves, Adds
  <2> QED
    BY <1>2, <1>3, <1>5, <2>2 DEF LeaveOf
<1>6. CASE Moves(r) /\ ReserveShift(r)
  <2>1. pc[r] = 1 /\ staged'[r] = staged[r] /\ pc'[r] = 2
    BY <1>2, <1>6, StepPlaces, ReserveShiftEffect DEF Shapes, OnePlace, Goes
  <2> QED
    BY <1>2, <1>3, <2>1 DEF LeaveOf
<1>7. CASE ~Undone(r) /\ CheckLeave(r)
  <2>1. KindOf(r) = "leave" /\ pc[r] = 2 /\ Statement(r).on = asks[r].on
    BY <1>7, StepPlaces DEF Shapes, OnePlace
  <2>2. /\ ~\E x \in Seen(r) : x.table = "leave" /\ x.shift = asks[r].on /\ x.person = asks[r].person
        /\ Goes(r) /\ UNCHANGED staged
    BY <1>7, <2>1, ProceedEffect DEF CheckLeave
  <2>3. \A x \in Committed("leave") : x \in Seen(r)
    BY DEF Committed, Seen, RosterInv, StagedOf
  <2>4. ~Taken(r)
    BY <2>2, <2>3 DEF Taken, Committed
  <2> QED
    BY <1>2, <1>3, <2>1, <2>2, <2>4 DEF LeaveOf, Goes
<1>8. CASE Moves(r) /\ FileLeave(r)
  <2>1. KindOf(r) = "leave" /\ pc[r] = 3 /\ Statement(r).on = asks[r].on
    BY <1>8, StepPlaces DEF Shapes, OnePlace
  <2>2. /\ staged'[r].new = staged[r].new \cup {Row("leave", asks[r].on, asks[r].person, r)}
        /\ Goes(r)
    BY <1>8, <2>1, FileLeaveEffect
  <2> QED
    BY <1>2, <1>3, <2>1, <2>2 DEF LeaveOf, Goes
<1>9. ASSUME KindOf(r) = "leave", WorkingStep(r)
      PROVE  ReserveShift(r) \/ CheckLeave(r) \/ FileLeave(r)
  <2>1. \A op : /\ ~DocumentPlace(r, op) /\ ~StaffPlace(r, op)
                /\ OnePlace(r, op) => op \notin {"seek", "flag"}
    BY <1>9 DEF DocumentPlace, StaffPlace, OnePlace, Editors
  <2> QED
    BY <1>9, <2>1, StepPlaces DEF Shapes, WorkingStep
<1> QED
  BY <1>4, <1>5, <1>6, <1>7, <1>8, <1>9

\* Who is about to file a leave, or has filed it, has locked the shift's row.
LEMMA LeaveInvCommitted ==
    ASSUME Shapes, LockInv, RosterInv, LeaveInv, NEW r \in Requests, Commit(r)
    PROVE  LeaveInv'
<1>1. /\ Apart(r) /\ UNCHANGED asks /\ pc'[r] = pc[r] + 1 /\ staged'[r].new = {}
  BY CommitEffect DEF Nothing
<1>2. Committed("leave")' = Committed("leave") \cup { x \in staged[r].new : x.table = "leave" }
  BY CommittedRows
<1>3. \A x \in staged[r].new : x.table = "leave" =>
          /\ KindOf(r) = "leave" /\ pc[r] = 4 /\ ~Taken(r)
          /\ x = Row("leave", asks[r].on, asks[r].person, r)
  BY DEF LeaveInv, LeaveOf
<1>4. \A x \in staged[r].new : x.table = "leave" => x.shift = asks[r].on /\ x.person = asks[r].person
  BY <1>3 DEF Row
<1>5. ASSUME NEW q \in Requests, q # r, KindOf(q) = "leave", pc[q] \in 3..4,
             KindOf(r) = "leave", pc[r] = 4
      PROVE  asks[q].on # asks[r].on
  <2>1. ForUpdate(asks[q].on) \subseteq held[q] /\ ForUpdate(asks[r].on) \subseteq held[r]
    BY <1>5 DEF LockInv, LocksOf
  <2>2. KeyShare(asks[r].on, r) \in ForUpdate(asks[r].on)
    BY DEF ForUpdate
  <2> QED
    BY <1>5, <2>1, <2>2 DEF LockInv, LocksExclude
<1>6. ASSUME NEW q \in Requests PROVE LeaveOf(q)'
  <2>1. CASE q = r
    <3>1. ~(KindOf(r) = "leave" /\ pc'[r] \in 3..4)
      BY <1>1, StepPlaces DEF Ends, Shapes
    <3> QED
      BY <1>1, <2>1, <3>1 DEF LeaveOf, KindOf
  <2>2. CASE q # r
    <3>1. /\ staged'[q] = staged[q] /\ pc'[q] = pc[q] /\ KindOf(q)' = KindOf(q) /\ asks'[q] = asks[q]
          /\ LeaveOf(q)
      BY <1>1, <2>2 DEF Apart, KindOf, LeaveInv
    <3>2. ASSUME KindOf(q) = "leave", pc[q] \in 3..4 PROVE ~Taken(q)'
      BY <1>2, <1>3, <1>4, <1>5, <2>2, <3>1, <3>2 DEF Taken, LeaveOf
    <3> QED
      BY <3>1, <3>2 DEF LeaveOf
  <2> QED
    BY <2>1, <2>2
<1>7. LeavesExcludeEachOther'
  BY <1>2, <1>3, <1>4 DEF LeavesExcludeEachOther, LeaveInv, Taken
<1> QED
  BY <1>6, <1>7 DEF LeaveInv

\* Every step keeps the leaves.
LEMMA LeaveInvStep ==
    ASSUME Shapes, LockInv, RosterInv, LeaveInv, NEW r \in Requests, Step(r) \/ Crash(r)
    PROVE  LeaveInv'
BY StepKinds, LeaveInvMoves, LeaveInvCommitted

-----------------------------------------------------------------------------
(***************************************************************************)
(* The flags of the month.                                                 *)
(***************************************************************************)
Flag(r) == Row("flag", None, None, r)

FlagOf(r) ==
    /\ \A x \in staged[r].new : x.table = "flag" =>
          KindOf(r) = "correct" /\ pc[r] = 7 /\ x = Flag(r) /\ Committed("flag") = {}
    /\ KindOf(r) = "correct" /\ pc[r] = 6 => todo[r] = Committed("flag")
    /\ KindOf(r) = "correct" /\ pc[r] = 7 => Committed("flag") # {} \/ Flag(r) \in staged[r].new

FlagInv == CorrectedMonthHasOneFlag /\ \A r \in Requests : FlagOf(r)

\* What a step other than a commit has to show of r alone.
LEMMA FlagsKept ==
    ASSUME FlagInv, NEW r \in Requests, Apart(r), UNCHANGED <<asks, db, rows>>, FlagOf(r)'
    PROVE  FlagInv'
<1>1. ASSUME NEW q \in Requests PROVE FlagOf(q)'
  <2>1. CASE q = r
    BY <2>1
  <2>2. CASE q # r
    BY <2>2 DEF FlagInv, FlagOf, Apart, KindOf, Committed, Flag
  <2> QED
    BY <2>1, <2>2
<1>2. CorrectedMonthHasOneFlag'
  BY DEF FlagInv, CorrectedMonthHasOneFlag, Committed, ChangedBy, KindOf
<1> QED
  BY <1>1, <1>2 DEF FlagInv

\* A correction stages a flag after it saw that there is none.
LEMMA FlagInvMoves ==
    ASSUME Shapes, RosterInv, FlagInv, NEW r \in Requests,
           Undone(r) \/ (WorkingStep(r) /\ Moves(r))
    PROVE  FlagInv'
<1>1. /\ Apart(r) /\ UNCHANGED <<asks, db, rows>>
  BY DEF Undone, Moves
<1>2. /\ KindOf(r)' = KindOf(r) /\ Committed("flag")' = Committed("flag") /\ Flag(r)' = Flag(r)
      /\ pc[r] \in Nat
  BY <1>1 DEF KindOf, Committed, Shapes, Flag
<1>3. FlagOf(r)
  BY DEF FlagInv
<1> SUFFICES ASSUME TRUE PROVE FlagOf(r)'
  BY <1>1, FlagsKept
<1>4. CASE Undone(r)
  BY <1>4 DEF Undone, Nothing, FlagOf
<1>5. CASE WorkingStep(r) /\ Moves(r) /\ ~SeekFlag(r) /\ ~WriteFlag(r)
  <2>1. \A x \in staged'[r].new : x.table = "flag" => x \in staged[r].new
    BY <1>5 DEF Moves, Adds
  <2>2. KindOf(r) = "correct" => pc[r] < 5 /\ pc'[r] = pc[r] + 1
    <3>1. KindOf(r) = "correct" => pc[r] < 5
      <4>1. (~ReserveShift(r) /\ ~CheckLeave(r) /\ ~FileLeave(r)) \/ KindOf(r) = "leave"
        BY StepPlaces DEF Shapes, OnePlace
      <4>2. KindOf(r) = "correct" => \A op : ~DocumentPlace(r, op) /\ (StaffPlace(r, op) => pc[r] < 5)
        BY DEF DocumentPlace, StaffPlace, Editors
      <4> QED
        BY <1>5, <4>1, <4>2, StepPlaces DEF Shapes, WorkingStep
    <3> QED
      BY <1>5, <3>1 DEF Moves
  <2> QED
    BY <1>2, <1>3, <2>1, <2>2 DEF FlagOf
<1>6. CASE SeekFlag(r)
  <2>1. KindOf(r) = "correct" /\ pc[r] = 5
    BY <1>6, StepPlaces DEF Shapes, OnePlace
  <2>2. Goes(r) /\ UNCHANGED staged /\ todo'[r] = { x \in Seen(r) : x.table = "flag" }
    BY <1>6, SeekFlagEffect
  <2>3. { x \in Seen(r) : x.table = "flag" } = Committed("flag")
    BY <1>3, <2>1 DEF Committed, Seen, RosterInv, StagedOf, FlagOf
  <2> QED
    BY <1>2, <1>3, <2>1, <2>2, <2>3 DEF FlagOf, Goes
<1>7. CASE WriteFlag(r)
  <2>1. KindOf(r) = "correct" /\ pc[r] = 6
    BY <1>7, StepPlaces DEF Shapes, OnePlace
  <2>2. /\ Goes(r)
        /\ staged'[r].new = staged[r].new \cup IF todo[r] = {} THEN {Flag(r)} ELSE {}
    BY <1>7, WriteFlagEffect DEF Flag
  <2>3. todo[r] = Committed("flag") /\ \A x \in staged[r].new : x.table # "flag"
    BY <1>3, <2>1 DEF FlagOf
  <2> QED
    BY <1>2, <1>3, <2>1, <2>2, <2>3 DEF FlagOf, Goes
<1> QED
  BY <1>4, <1>5, <1>6, <1>7

\* Who looks the flag up has locked the schedule's row.
LEMMA FlagInvCommitted ==
    ASSUME Shapes, LockInv, RosterInv, FlagInv, NEW r \in Requests, Commit(r)
    PROVE  FlagInv'
<1>1. /\ Apart(r) /\ UNCHANGED asks /\ pc'[r] = pc[r] + 1 /\ staged'[r].new = {}
  BY CommitEffect DEF Nothing
<1> DEFINE new == { x \in staged[r].new : x.table = "flag" }
<1>2. /\ Committed("flag")' = Committed("flag") \cup new
      /\ ChangedBy("correct")' = ChangedBy("correct")
             \cup { x \in staged[r].new : x.table = "log" /\ KindOf(r) = "correct" }
  BY CommittedRows
<1>3. \A x \in new : KindOf(r) = "correct" /\ pc[r] = 7 /\ x = Flag(r) /\ Committed("flag") = {}
  BY DEF FlagInv, FlagOf
<1>4. KindOf(r) = "correct" => pc[r] = 7
  BY StepPlaces DEF Ends, Shapes
<1>5. KindOf(r) = "correct" => Committed("flag") # {} \/ Flag(r) \in new
  BY <1>4 DEF FlagInv, FlagOf, Flag, Row
<1> HIDE DEF new
<1>6. ASSUME NEW q \in Requests, q # r, KindOf(q) = "correct", pc[q] \in 5..7 PROVE new = {}
  <2>1. ScheduleRow \in held[q] /\ (KindOf(r) = "correct" => ScheduleRow \in held[r])
    BY <1>4, <1>6 DEF LockInv, LocksOf
  <2> QED
    BY <1>3, <1>6, <2>1 DEF LockInv, LocksExclude
<1>7. ASSUME NEW q \in Requests PROVE FlagOf(q)'
  <2>1. CASE q = r
    <3>1. ~(KindOf(r) = "correct" /\ pc'[r] \in 6..7)
      BY <1>1, <1>4
    <3> QED
      BY <1>1, <2>1, <3>1 DEF FlagOf, KindOf
  <2>2. CASE q # r
    <3>1. /\ staged'[q] = staged[q] /\ pc'[q] = pc[q] /\ KindOf(q)' = KindOf(q) /\ todo'[q] = todo[q]
          /\ FlagOf(q) /\ Flag(q)' = Flag(q)
      BY <1>1, <2>2 DEF Apart, KindOf, FlagInv, Flag
    <3>2. CASE KindOf(q) = "correct" /\ pc[q] \in 5..7
      <4>1. Committed("flag")' = Committed("flag")
        BY <1>2, <1>6, <2>2, <3>2
      <4> QED
        BY <3>1, <4>1 DEF FlagOf
    <3>3. CASE ~(KindOf(q) = "correct" /\ pc[q] \in 5..7)
      BY <3>1, <3>3 DEF FlagOf
    <3> QED
      BY <3>2, <3>3
  <2> QED
    BY <2>1, <2>2
<1>8. CorrectedMonthHasOneFlag'
  BY <1>2, <1>3, <1>5 DEF CorrectedMonthHasOneFlag, FlagInv
<1> QED
  BY <1>7, <1>8 DEF FlagInv

\* Every step keeps the flags.
LEMMA FlagInvStep ==
    ASSUME Shapes, LockInv, RosterInv, FlagInv, NEW r \in Requests, Step(r) \/ Crash(r)
    PROVE  FlagInv'
BY StepKinds, FlagInvMoves, FlagInvCommitted

-----------------------------------------------------------------------------
(***************************************************************************)
(* The deadlocks.                                                          *)
(***************************************************************************)
\* The places at which a request that holds a lock others may wait for can wait itself.
Entangled(q) ==
    \/ KindOf(q) = "approve" /\ pc[q] \in {8, 11, 12, 13}
    \/ KindOf(q) = "cancel" /\ pc[q] \in {8, 9, 13, 14}
    \/ KindOf(q) \in Editors /\ pc[q] = 4

\* A request that waits and holds a lock waits for no row of a task: it holds only such
\* rows, or is entangled.
LEMMA HoldsAndWaits ==
    ASSUME Shapes, LockInv, NEW q \in Requests, NEW p \in Requests, WaitsFor(q, p), held[q] # {}
    PROVE  /\ Wanted(q) \cap TaskRows = {} /\ (LocksTasks(q) \/ Entangled(q))
           /\ KindOf(q) \in Editors => Wanted(q) = {ScheduleRow, KeyShare(Statement(q).on, q)}
           /\ ~Over(q)
<1>1. Asked /\ pc[q] \in Nat /\ LocksOf(q) /\ FoundOf(q) /\ ~Unlocked(q)
  BY DEF Shapes, LockInv, LocksOf
<1>2. Wanted(q) \cap held[p] # {} /\ p # q
  BY DEF WaitsFor
<1>3. ~Over(q)
  <2>1. Over(q) => Wanted(q) = {}
    BY DEF Wanted, At
  <2> QED
    BY <1>2, <2>1
<1>4. PICK op : At(q, op)
  BY <1>3 DEF At
<1>5. op \in {"complete", "lock", "write", "insert", "reserve", "file"}
  BY <1>2, <1>4, WantedAt
<1>6. DocumentPlace(q, op) \/ StaffPlace(q, op) \/ OnePlace(q, op)
  BY <1>1, <1>4, <1>5, Places
<1>7. \A x \in TaskRows : x.table \in {"target", "director"}
  BY DEF TaskRows, Tasks, DocRow, Row
<1>8. op \notin {"complete", "reserve"}
  BY <1>1, <1>6 DEF Unlocked, DocumentPlace, StaffPlace, OnePlace
<1>9. op # "file"
  <2>1. SUFFICES ASSUME op = "file" PROVE FALSE
    OBVIOUS
  <2>2. KindOf(q) = "leave" /\ pc[q] = 3 /\ Statement(q).on = asks[q].on
    BY <1>6, <2>1 DEF DocumentPlace, StaffPlace, OnePlace
  <2>3. Wanted(q) = {KeyShare(asks[q].on, q)}
    BY <1>4, <2>1, <2>2, WantedAt
  <2>4. KeyShare(asks[q].on, q) \in held[q]
    BY <1>1, <2>2 DEF LocksOf, ForUpdate
  <2> QED
    BY <1>2, <2>3, <2>4 DEF LockInv, LocksExclude
<1>10. CASE op = "write"
  <2>1. Wanted(q) = {DocRow("swap")}
    BY <1>4, <1>10, WantedAt
  <2>2. \/ KindOf(q) \in {"agree", "refuse", "withdraw"} /\ pc[q] = 4
        \/ KindOf(q) = "approve" /\ pc[q] = 13
        \/ KindOf(q) = "reject" /\ pc[q] = 3
        \/ KindOf(q) = "cancel" /\ pc[q] = 5
    BY <1>6, <1>10 DEF DocumentPlace, StaffPlace, OnePlace
  <2>3. DocRow("swap").table = "swap"
    BY DEF DocRow, Row
  <2> QED
    BY <1>3, <1>7, <2>1, <2>2, <2>3 DEF LocksTasks, Entangled, Editors
<1>11. CASE op = "lock"
  <2>1. Wanted(q) = todo[q]
    BY <1>4, <1>11, WantedAt
  <2>2. \/ KindOf(q) = "approve" /\ pc[q] \in {7, 11}
        \/ KindOf(q) = "cancel" /\ pc[q] \in {8, 13}
        \/ Unlocked(q)
    BY <1>6, <1>11 DEF DocumentPlace, StaffPlace, OnePlace, Unlocked, Editors
  <2>3. \A x \in todo[q] : x.table = "staff"
    BY <1>1, <2>2 DEF FoundOf
  <2> QED
    BY <1>1, <1>3, <1>7, <2>1, <2>2, <2>3 DEF LocksTasks, Entangled, Editors
<1>12. CASE op = "insert"
  <2>1. Wanted(q) = {ScheduleRow, KeyShare(Statement(q).on, q)}
    BY <1>4, <1>12, WantedAt
  <2>2. \/ KindOf(q) = "approve" /\ pc[q] \in {8, 12}
        \/ KindOf(q) = "cancel" /\ pc[q] \in {9, 14}
        \/ KindOf(q) \in Editors /\ pc[q] = 4
    BY <1>6, <1>12 DEF DocumentPlace, StaffPlace, OnePlace, Editors
  <2>3. ScheduleRow.table = "schedule" /\ KeyShare(Statement(q).on, q).table = "shift"
    BY DEF ScheduleRow, DocRow, KeyShare, Row
  <2> QED
    BY <1>3, <1>7, <2>1, <2>2, <2>3 DEF Entangled, Editors
<1> QED
  BY <1>5, <1>8, <1>9, <1>10, <1>11, <1>12

\* Whoever waits and is waited for in a circle is entangled.
LEMMA CircleEntangled ==
    ASSUME Shapes, LockInv, NEW q \in Requests, NEW p \in Requests, NEW b \in Requests,
           WaitsFor(q, p), WaitsFor(b, q), held[b] # {}
    PROVE  Entangled(q)
<1>1. held[q] # {} /\ Wanted(b) \cap held[q] # {}
  BY DEF WaitsFor
<1>2. Wanted(b) \cap TaskRows = {}
  BY HoldsAndWaits
<1>3. LocksTasks(q) => held[q] \subseteq TaskRows
  BY DEF LockInv, LocksOf
<1> QED
  BY <1>1, <1>2, <1>3, HoldsAndWaits

\* Two decisions or cancellations of the swap are never entangled at once ...
LEMMA OneDecides ==
    ASSUME LockInv, DocInv, NEW q \in Requests, NEW p \in Requests, p # q,
           Entangled(q), Entangled(p)
    PROVE  KindOf(q) \in Editors \/ KindOf(p) \in Editors
<1>1. SUFFICES ASSUME KindOf(q) \notin Editors, KindOf(p) \notin Editors PROVE FALSE
  OBVIOUS
<1>2. ASSUME NEW x \in Requests, KindOf(x) = "approve", Entangled(x)
      PROVE  db["director"] = "pending" /\ DocRow("director") \in held[x]
  BY <1>2 DEF Entangled, Editors, DocInv, TasksOf, AnswersTask
<1>3. ASSUME NEW x \in Requests, KindOf(x) = "cancel", Entangled(x)
      PROVE  db["director"] = "approved" /\ DocRow("swap") \in held[x]
  BY <1>3 DEF Entangled, Editors, DocInv, StatusOf, LockInv, LocksOf
<1>4. held[p] \cap held[q] = {}
  BY DEF LockInv, LocksExclude
<1>5. KindOf(q) \in {"approve", "cancel"} /\ KindOf(p) \in {"approve", "cancel"}
  BY <1>1 DEF Entangled
<1> QED
  BY <1>2, <1>3, <1>4, <1>5

\* ... and neither do two edits wait for each other there: they hold rows of the staff,
\* and wait for the schedule and the shift.
LEMMA OneEdits ==
    ASSUME Shapes, LockInv, NEW q \in Requests, NEW p \in Requests, WaitsFor(q, p),
           held[q] # {}, Entangled(q), Entangled(p)
    PROVE  KindOf(q) \notin Editors \/ KindOf(p) \notin Editors
<1>1. SUFFICES ASSUME KindOf(q) \in Editors, KindOf(p) \in Editors PROVE FALSE
  OBVIOUS
<1>2. Wanted(q) = {ScheduleRow, KeyShare(Statement(q).on, q)}
  BY <1>1, HoldsAndWaits
<1>3. \A x \in held[p] : x.table = "staff"
  BY <1>1 DEF Entangled, Editors, LockInv, LocksOf, LocksStaff
<1>4. ScheduleRow.table = "schedule" /\ KeyShare(Statement(q).on, q).table = "shift"
  BY DEF ScheduleRow, DocRow, KeyShare, Row
<1>5. Wanted(q) \cap held[p] # {}
  BY DEF WaitsFor
<1> QED
  BY <1>2, <1>3, <1>4, <1>5

\* A decision or cancellation and an edit that wait for each other meet at the second
\* shift: the edit wants the schedule, which the other locks with the first.
LEMMA SecondShift ==
    ASSUME Shapes, LockInv, NEW q \in Requests, NEW e \in Requests,
           WaitsFor(q, e), WaitsFor(e, q), Entangled(q), Entangled(e),
           KindOf(q) \in {"approve", "cancel"}, KindOf(e) \in Editors
    PROVE  asks[e].on = Target
<1>1. /\ Asked /\ pc[q] \in Nat /\ LocksOf(q) /\ FoundOf(q)
      /\ \A x \in held[e] : x.table = "staff" /\ x.shift = asks[e].on
  BY DEF Shapes, LockInv, LocksOf, LocksStaff, Entangled, Editors
<1>2. PICK x \in Wanted(q) : x \in held[e]
  BY DEF WaitsFor
<1>3. ~(KindOf(q) = "cancel" /\ pc[q] = 8)
  <2>1. held[e] # {} /\ Wanted(e) \cap held[q] # {}
    BY DEF WaitsFor
  <2>2. Wanted(e) = {ScheduleRow, KeyShare(Statement(e).on, e)}
    BY <2>1, HoldsAndWaits
  <2>3. ScheduleRow.table = "schedule" /\ KeyShare(Statement(e).on, e).table = "shift"
    BY DEF ScheduleRow, DocRow, KeyShare, Row
  <2>4. PICK y \in held[q] : y.table \in {"schedule", "shift"}
    BY <2>1, <2>2, <2>3
  <2> QED
    BY <1>1, <2>4 DEF LocksOf
<1>4. PICK op : At(q, op)
  BY <1>2 DEF Wanted, At
<1>5. op \in {"complete", "lock", "write", "insert", "reserve", "file"}
  BY <1>2, <1>4, WantedAt
<1>6. DocumentPlace(q, op) \/ StaffPlace(q, op) \/ OnePlace(q, op)
  BY <1>1, <1>4, <1>5, Places
<1>7. op \in {"lock", "write", "insert"}
  BY <1>5, <1>6 DEF Entangled, Editors, DocumentPlace, StaffPlace, OnePlace
<1>8. op \notin {"write", "insert"}
  <2>1. /\ op = "write" => Wanted(q) = {DocRow("swap")}
        /\ op = "insert" => Wanted(q) = {ScheduleRow, KeyShare(Statement(q).on, q)}
    BY <1>4, WantedAt
  <2>2. /\ DocRow("swap").table = "swap" /\ ScheduleRow.table = "schedule"
        /\ KeyShare(Statement(q).on, q).table = "shift"
    BY DEF ScheduleRow, DocRow, KeyShare, Row
  <2> QED
    BY <1>1, <1>2, <2>1, <2>2
<1>9. <<KindOf(q), pc[q]>> \in {<<"approve", 11>>, <<"cancel", 13>>} /\ x \in todo[q]
  <2>1. op = "lock" /\ Wanted(q) = todo[q]
    BY <1>4, <1>7, <1>8, WantedAt
  <2> QED
    BY <1>2, <1>3, <1>6, <2>1 DEF Entangled, Editors, DocumentPlace, StaffPlace, OnePlace
<1>10. x.shift = Target
  BY <1>1, <1>9 DEF FoundOf, FoundShift
<1> QED
  BY <1>1, <1>2, <1>10

\* So in every circle a decision or cancellation and an edit wait for each other.
LEMMA InvDeadlocks ==
    ASSUME Shapes, LockInv, DocInv
    PROVE  DeadlocksNeedAnEdit
<1>1. SUFFICES ASSUME NEW r \in Requests, Deadlocked(r)
               PROVE  \E q, e \in Requests :
                         /\ WaitsFor(q, e) /\ KindOf(q) \in {"approve", "cancel"}
                         /\ WaitsFor(e, q) /\ KindOf(e) \in Editors /\ asks[e].on = Target
  BY DEF DeadlocksNeedAnEdit, Editors
<1>2. PICK circle \in SUBSET Requests :
          /\ r \in circle
          /\ \A q \in circle : /\ \E p \in circle : WaitsFor(q, p)
                               /\ \E p \in circle : WaitsFor(p, q)
  BY <1>1 DEF Deadlocked, Waiting
<1>3. \A q \in circle : held[q] # {}
  BY <1>2 DEF WaitsFor
<1>4. \A q \in circle : Entangled(q)
  BY <1>2, <1>3, CircleEntangled
<1>5. \A q \in circle : KindOf(q) \in {"approve", "cancel"} \/ KindOf(q) \in Editors
  BY <1>4 DEF Entangled
<1>6. \A p, q \in circle :
         KindOf(p) \in {"approve", "cancel"} /\ KindOf(q) \in {"approve", "cancel"} => p = q
  BY <1>4, OneDecides DEF Editors
<1>7. \A e \in circle : KindOf(e) \in Editors =>
         \E q \in circle : WaitsFor(e, q) /\ KindOf(q) \in {"approve", "cancel"}
  BY <1>2, <1>3, <1>4, <1>5, OneEdits
<1>8. \A q \in circle : KindOf(q) \in {"approve", "cancel"} =>
         \E e \in circle : WaitsFor(q, e) /\ KindOf(e) \in Editors
  <2>1. \A q, p \in circle : WaitsFor(q, p) => q # p
    BY DEF WaitsFor
  <2> QED
    BY <1>2, <1>5, <1>6, <2>1
<1>9. PICK q \in circle : KindOf(q) \in {"approve", "cancel"}
  BY <1>2, <1>5, <1>7
<1>10. PICK e \in circle : WaitsFor(q, e) /\ KindOf(e) \in Editors
  BY <1>8, <1>9
<1>11. WaitsFor(e, q)
  BY <1>6, <1>7, <1>9, <1>10
<1>12. asks[e].on = Target
  BY <1>4, <1>9, <1>10, <1>11, SecondShift
<1> QED
  BY <1>9, <1>10, <1>11, <1>12

-----------------------------------------------------------------------------
(***************************************************************************)
(* The theorems.                                                           *)
(***************************************************************************)
TxnInv == Shapes /\ LockInv /\ DocInv /\ RosterInv /\ LeaveInv /\ FlagInv

\* The invariant holds of the first state ...
LEMMA TxnInvInit == TxnInit => TxnInv
<1> SUFFICES ASSUME TxnInit PROVE TxnInv
  OBVIOUS
<1>1. \A r \in Requests : /\ pc[r] = 1 /\ held[r] = {} /\ todo[r] = {} /\ wants[r] = NoStaff
                          /\ staged[r] = Nothing
  BY DEF TxnInit
<1>2. \A r \in Requests : staged[r].set = <<>> /\ staged[r].gone = {} /\ staged[r].new = {}
  BY <1>1 DEF Nothing
<1>3. Asked
  BY TxnAssumption DEF TxnInit, Asked, KindOf
<1>4. Shapes
  <2>1. DOMAIN NoStaff = Shifts /\ DOMAIN Nothing = {"set", "gone", "new"}
    BY DEF NoStaff, Nothing
  <2>2. /\ DOMAIN db = {"swap", "target", "director"}
        /\ DOMAIN staged = Requests /\ DOMAIN held = Requests /\ DOMAIN pc = Requests
        /\ DOMAIN todo = Requests /\ DOMAIN wants = Requests
    BY DEF TxnInit
  <2> QED
    BY <1>1, <1>3, <2>1, <2>2 DEF Shapes
<1>5. LockInv
  BY <1>1 DEF LockInv, LocksExclude, LocksOf, FoundOf, Unlocked, LocksTasks, LocksStaff
<1>6. DocInv
  <2>1. db["target"] = "pending" /\ db["director"] = "none" /\ db["swap"] = "wait_target_confirm"
    BY DEF TxnInit
  <2>2. \A r \in Requests : TasksOf(r)
    BY <1>1, <1>2 DEF TasksOf
  <2>3. \A r \in Requests : StatusOf(r)
    BY <1>1, <1>2 DEF StatusOf
  <2> QED
    BY <2>1, <2>2, <2>3 DEF DocInv
<1>7. /\ rows = {Row("staff", Source, Applicant, None), Row("staff", Target, Partner, None)}
      /\ \A x \in rows : /\ x.table = "staff" /\ x.shift \in Shifts
                         /\ x.person = Before(x.shift)
  <2>1. rows = {Row("staff", Source, Applicant, None), Row("staff", Target, Partner, None)}
    BY DEF TxnInit
  <2> QED
    BY <2>1, TxnAssumption DEF Row, Shifts, Before
<1>8. RosterInv
  <2>1. \A r \in Requests : StagedOf(r) /\ ApprovalOf(r)
    BY <1>1, <1>2 DEF StagedOf, ApprovalOf
  <2>2. \A k : ChangedBy(k) = {}
    BY <1>7 DEF ChangedBy, Committed
  <2>3. db["director"] # "approved"
    BY DEF TxnInit
  <2> QED
    BY <1>7, <2>1, <2>2, <2>3 DEF RosterInv, Committed
<1>9. LeaveInv
  BY <1>1, <1>2, <1>7 DEF LeaveInv, LeaveOf, LeavesExcludeEachOther, Committed
<1>10. FlagInv
  BY <1>1, <1>2, <1>7 DEF FlagInv, FlagOf, CorrectedMonthHasOneFlag, Committed, ChangedBy
<1> QED
  BY <1>4, <1>5, <1>6, <1>8, <1>9, <1>10 DEF TxnInv

\* ... and is kept by every step.
LEMMA TxnInvNext == TxnInv /\ [TxnNext]_txnVars => TxnInv'
<1> SUFFICES ASSUME TxnInv, [TxnNext]_txnVars PROVE TxnInv'
  OBVIOUS
<1>1. Shapes /\ LockInv /\ DocInv /\ RosterInv /\ LeaveInv /\ FlagInv
  BY DEF TxnInv
<1>2. ASSUME NEW r \in Requests, Step(r) \/ Crash(r) PROVE TxnInv'
  BY <1>1, <1>2, ShapesStep, LockInvStep, DocInvStep, RosterInvStep, LeaveInvStep, FlagInvStep
     DEF TxnInv
<1>3. CASE UNCHANGED txnVars
  <2> USE <1>3 DEF txnVars, KindOf
  <2>1. Shapes'
    BY <1>1 DEF Shapes, Asked
  <2>2. LockInv'
    BY <1>1 DEF LockInv, LocksExclude, LocksOf, FoundOf, FoundShift, Unlocked,
                LocksTasks, LocksStaff
  <2>3. DocInv'
    BY <1>1 DEF DocInv, TasksOf, StatusOf, AnswersTask
  <2>4. RosterInv'
    BY <1>1 DEF RosterInv, StagedOf, ApprovalOf, Logged, Changed, Forestalled, Committed,
                ChangedBy, Before, After
  <2>5. LeaveInv'
    BY <1>1 DEF LeaveInv, LeaveOf, Taken, LeavesExcludeEachOther, Committed
  <2>6. FlagInv'
    BY <1>1 DEF FlagInv, FlagOf, Flag, CorrectedMonthHasOneFlag, Committed, ChangedBy
  <2> QED
    BY <2>1, <2>2, <2>3, <2>4, <2>5, <2>6 DEF TxnInv
<1> QED
  BY <1>2, <1>3 DEF TxnNext

\* The invariant the other theorems rest on, for every set of requests: the locks
\* exclude each other, a staged answer is of a task that is open and locked, every
\* staged or committed person of a shift has its change log, and leaves and flags are
\* staged only behind the lock under which they were looked for.
THEOREM TxnInvariant == TxnSpec => []TxnInv
<1> QED
  BY TxnInvInit, TxnInvNext, PTL DEF TxnSpec

\* Nobody ever sees an effective swap without its changes of both shifts, an open or
\* rejected one with a change, or one in effect whose cancellation changed the roster,
\* whatever requests overlap, are aborted or die (shift_swap.py:177-272).
THEOREM TxnRoster == TxnSpec => []RosterFollowsDecision
<1>1. TxnInv => RosterFollowsDecision
  BY RosterInvFollows DEF TxnInv
<1> QED
  BY <1>1, TxnInvariant, PTL

\* However many windows ask at once, one leave is filed for a duty: create_leave locks
\* the shift's row before it looks (leave.py:52-53).
THEOREM TxnLeaves == TxnSpec => []LeavesExcludeEachOther
<1>1. TxnInv => LeavesExcludeEachOther
  BY DEF TxnInv, LeaveInv
<1> QED
  BY <1>1, TxnInvariant, PTL

\* Overlapping corrections leave exactly one flag of the month (schedule.py:265-277).
THEOREM TxnFlags == TxnSpec => []CorrectedMonthHasOneFlag
<1>1. TxnInv => CorrectedMonthHasOneFlag
  BY DEF TxnInv, FlagInv
<1> QED
  BY <1>1, TxnInvariant, PTL

\* The database aborts a request only when a decision or cancellation of the swap and
\* an edit or correction of its second shift wait for each other: all take the task's
\* row before the swap's and a shift's rows before the schedule's.
THEOREM TxnDeadlocks == TxnSpec => []DeadlocksNeedAnEdit
<1>1. TxnInv => DeadlocksNeedAnEdit
  BY InvDeadlocks DEF TxnInv
<1> QED
  BY <1>1, TxnInvariant, PTL

\* A committed answer is not changed by any step.
LEMMA TasksStay ==
    TxnInv /\ [TxnNext]_txnVars =>
        [ \A t \in Tasks : db[t] \notin {"none", "pending"} => db'[t] = db[t] ]_txnVars
<1> SUFFICES ASSUME TxnInv, [TxnNext]_txnVars
             PROVE  \A t \in Tasks : db[t] \notin {"none", "pending"} => db'[t] = db[t]
  OBVIOUS
<1>1. Shapes /\ LockInv /\ DocInv
  BY DEF TxnInv
<1>2. ASSUME NEW r \in Requests, Step(r) \/ Crash(r)
      PROVE  \A t \in Tasks : db[t] \notin {"none", "pending"} => db'[t] = db[t]
  BY <1>1, <1>2, StepKinds, CommittedTasks DEF Moves, Undone
<1>3. CASE UNCHANGED txnVars
  BY <1>3 DEF txnVars
<1> QED
  BY <1>2, <1>3 DEF TxnNext

\* A task that is answered or cancelled is never answered again, although the request
\* that looked at it did so without a lock (approval.py, complete_task).
THEOREM TxnAnswers == TxnSpec => AnsweredOnce
<1> QED
  BY TxnInvariant, TasksStay, PTL DEF TxnSpec, AnsweredOnce

=============================================================================
