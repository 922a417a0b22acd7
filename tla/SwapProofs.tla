----------------------------- MODULE SwapProofs -----------------------------
(***************************************************************************)
(* Proofs about ShiftSwap: swaps exclude each other, every swap lives the  *)
(* life of the design document, and its todos follow it.                   *)
(***************************************************************************)
EXTENDS ShiftSwap, FiniteSetTheorems, SequenceTheorems, TLAPS

-----------------------------------------------------------------------------
(***************************************************************************)
(* The shape of the swap table.                                            *)
(***************************************************************************)
SwapRecord == [applicant : People \cup {NoPerson}, source : Shifts \cup {NoShift},
               target : People \cup {NoPerson}, tshift : Shifts \cup {NoShift},
               status : SwapStatuses]

SwapShape ==
    /\ swaps \in [Swaps -> SwapRecord]
    /\ \A k \in Swaps : swaps[k].status # "none" =>
          swaps[k].source \in Shifts /\ swaps[k].tshift # swaps[k].source

LEMMA InitSwapShape == swaps = [k \in Swaps |-> NoSwap] => SwapShape
BY DEF NoSwap, SwapRecord, SwapStatuses, SwapShape

\* What happens to the swaps in one step: one is created, or one changes its
\* status along an arrow, or none moves.
Created(k, a, s, b, t) ==
    /\ swaps[k].status = "none"
    /\ Available(s, a)
    /\ t # NoShift => t # s /\ Available(t, b)
    /\ swaps' = [swaps EXCEPT ![k] = [applicant |-> a, source |-> s, target |-> b,
                                      tshift |-> t, status |-> "wait_target_confirm"]]

Arrows == {<<"wait_target_confirm", "wait_director_approval">>,
           <<"wait_target_confirm", "rejected">>,
           <<"wait_director_approval", "effective">>,
           <<"wait_director_approval", "rejected">>,
           <<"wait_target_confirm", "withdrawn">>,
           <<"wait_director_approval", "withdrawn">>,
           <<"effective", "cancelled">>}

Moved(k, status) == <<swaps[k].status, status>> \in Arrows /\ SetStatus(k, status)

LEMMA StepsOfSwaps ==
    ASSUME SwapShape, SwapStep
    PROVE  \/ \E k \in Swaps : \E a, b \in People, s \in Shifts, t \in Shifts \cup {NoShift} :
                 Created(k, a, s, b, t)
           \/ \E k \in Swaps : \E status \in SwapStatuses : Moved(k, status)
           \/ UNCHANGED swaps
<1> USE DEF Moved, Arrows, SwapStatuses
<1>1. ASSUME NEW k \in Swaps, NEW a \in People, NEW b \in People, NEW s \in Shifts,
             NEW t \in Shifts \cup {NoShift}, CreateSwap(k, a, s, b, t)
      PROVE  Created(k, a, s, b, t)
  BY <1>1 DEF CreateSwap, Created
<1>2. ASSUME NEW k \in Swaps, TargetApproves(k) PROVE Moved(k, "wait_director_approval")
  BY <1>2 DEF TargetApproves
<1>3. ASSUME NEW k \in Swaps, TargetRejects(k) \/ DirectorRejects(k) PROVE Moved(k, "rejected")
  BY <1>3 DEF TargetRejects, DirectorRejects
<1>4. ASSUME NEW k \in Swaps, DirectorApproves(k) PROVE Moved(k, "effective")
  BY <1>4 DEF DirectorApproves
<1>5. ASSUME NEW k \in Swaps, WithdrawSwap(k) PROVE Moved(k, "withdrawn")
  <2>1. swaps[k].status \in {"wait_target_confirm", "wait_director_approval"}
    BY <1>5 DEF WithdrawSwap, Withdrawable, OpenStatuses, SwapShape, SwapRecord
  <2> QED
    BY <1>5, <2>1 DEF WithdrawSwap
<1>6. ASSUME NEW k \in Swaps, CancelSwap(k) PROVE Moved(k, "cancelled")
  <2>1. swaps[k].status = "effective"
    BY <1>6 DEF CancelSwap, Cancellable, SwapShape, SwapRecord
  <2> QED
    BY <1>6, <2>1 DEF CancelSwap
<1>7. ASSUME NEW k \in Swaps, NEW approve \in BOOLEAN, CentreAnswersConfirm(k, approve)
      PROVE  UNCHANGED swaps
  BY <1>7 DEF CentreAnswersConfirm
<1> HIDE DEF Moved, Arrows
<1> QED
  BY <1>1, <1>2, <1>3, <1>4, <1>5, <1>6, <1>7 DEF SwapStep

LEMMA StepSwapShape ==
    ASSUME SwapShape, SwapStep \/ UNCHANGED swaps
    PROVE  SwapShape'
<1>1. ASSUME NEW k \in Swaps, NEW a \in People, NEW b \in People, NEW s \in Shifts,
             NEW t \in Shifts \cup {NoShift}, Created(k, a, s, b, t)
      PROVE  SwapShape'
  <2> DEFINE new == [applicant |-> a, source |-> s, target |-> b,
                     tshift |-> t, status |-> "wait_target_confirm"]
  <2>1. new \in SwapRecord
    BY DEF SwapRecord, SwapStatuses
  <2>2. t # s
    BY <1>1, SwapAssumption DEF Created
  <2>3. swaps' = [swaps EXCEPT ![k] = new]
    BY <1>1 DEF Created
  <2> QED
    BY <2>1, <2>2, <2>3 DEF SwapShape
<1>2. ASSUME NEW k \in Swaps, NEW status \in SwapStatuses, Moved(k, status)
      PROVE  SwapShape'
  BY <1>2 DEF Moved, Arrows, SetStatus, SwapShape, SwapRecord
<1>3. CASE UNCHANGED swaps
  BY <1>3 DEF SwapShape
<1> QED
  BY <1>1, <1>2, <1>3, StepsOfSwaps

LEMMA SwapShapeInvariant == SwapSpec => []SwapShape
<1>1. SwapInit => SwapShape
  BY InitSwapShape DEF SwapInit
<1>2. SwapShape /\ [SwapNext]_swapVars => SwapShape'
  BY StepSwapShape DEF SwapNext, swapVars
<1> QED
  BY <1>1, <1>2, PTL DEF SwapSpec

-----------------------------------------------------------------------------
(***************************************************************************)
(* The life of a swap.                                                     *)
(***************************************************************************)
\* The code implements the status diagram of the design: one swap at a time,
\* along its arrows, whatever the roster and the tasks do meanwhile.
THEOREM SwapsLiveByDesign == SwapSpec => SwapLifecycle
<1> DEFINE bar == [k \in Swaps |-> swaps[k].status]
<1>1. SwapInit => Life!Init
  BY DEF SwapInit, NoSwap, Life!Init
<1>2. SwapShape /\ [SwapNext]_swapVars => [Life!Next]_bar
  <2> SUFFICES ASSUME SwapShape, [SwapNext]_swapVars PROVE Life!Next \/ bar' = bar
    OBVIOUS
  <2>1. ASSUME NEW k \in Swaps, NEW a, NEW b, NEW s, NEW t, Created(k, a, s, b, t)
        PROVE  Life!Next
    <3>1. /\ bar[k] = "none"
          /\ bar' = [bar EXCEPT ![k] = "wait_target_confirm"]
      BY <2>1 DEF Created, SwapShape
    <3> QED
      BY <3>1 DEF Life!Next, Life!Move
  <2>2. ASSUME NEW k \in Swaps, NEW status \in SwapStatuses, Moved(k, status)
        PROVE  Life!Next
    <3>1. <<bar[k], status>> \in Arrows /\ bar' = [bar EXCEPT ![k] = status]
      BY <2>2 DEF Moved, SetStatus, SwapShape, SwapRecord
    <3> HIDE DEF bar
    <3>2. Life!Move(k)
      BY <3>1 DEF Arrows, Life!Move, bar
    <3> QED
      BY <3>2 DEF Life!Next
  <2>3. CASE UNCHANGED swaps
    BY <2>3
  <2> QED
    BY <2>1, <2>2, <2>3, StepsOfSwaps DEF SwapNext, swapVars
<1> QED
  BY <1>1, <1>2, SwapShapeInvariant, PTL DEF SwapSpec, SwapLifecycle, Life!Spec

-----------------------------------------------------------------------------
(***************************************************************************)
(* Exclusion.                                                              *)
(***************************************************************************)
Exclusive == \A s \in Shifts : \A j, k \in OpenOn(s) : j = k

LEMMA StepExclusive ==
    ASSUME SwapShape, Exclusive, SwapStep \/ UNCHANGED swaps
    PROVE  Exclusive'
<1>1. ASSUME NEW k \in Swaps, NEW a \in People, NEW b \in People, NEW s \in Shifts,
             NEW t \in Shifts \cup {NoShift}, Created(k, a, s, b, t)
      PROVE  Exclusive'
  <2>1. OpenOn(s) = {} /\ (t # NoShift => OpenOn(t) = {})
    BY <1>1 DEF Created, Available
  <2>2. \A j \in Swaps : j # k => swaps'[j] = swaps[j]
    BY <1>1 DEF Created, SwapShape
  <2>3. swaps'[k].source = s /\ swaps'[k].tshift = t
    BY <1>1 DEF Created, SwapShape
  <2>4. \A u \in Shifts : \A j \in OpenOn(u)' : j \in OpenOn(u) \/ (j = k /\ u \in {s, t})
    BY <2>2, <2>3 DEF OpenOn, Touches
  <2>5. \A u \in Shifts : u \in {s, t} => OpenOn(u) = {}
    BY <2>1, SwapAssumption
  <2> QED
    BY <2>4, <2>5 DEF Exclusive
<1>2. ASSUME NEW k \in Swaps, NEW status \in SwapStatuses, Moved(k, status)
      PROVE  Exclusive'
  <2>1. \A j \in Swaps : /\ swaps'[j].source = swaps[j].source
                         /\ swaps'[j].tshift = swaps[j].tshift
                         /\ j # k => swaps'[j].status = swaps[j].status
    BY <1>2 DEF Moved, SetStatus, SwapShape, SwapRecord
  <2>2. swaps'[k].status \in OpenStatuses => swaps[k].status \in OpenStatuses
    BY <1>2 DEF Moved, SetStatus, Arrows, SwapShape, SwapRecord, OpenStatuses
  <2>3. \A u \in Shifts : OpenOn(u)' \subseteq OpenOn(u)
    BY <2>1, <2>2 DEF OpenOn, Touches
  <2> QED
    BY <2>3 DEF Exclusive
<1>3. CASE UNCHANGED swaps
  BY <1>3 DEF Exclusive, OpenOn, Touches
<1> QED
  BY <1>1, <1>2, <1>3, StepsOfSwaps

\* Of the swaps that are still open no two concern the same shift, on whichever
\* side, for any number of swaps and shifts.
THEOREM SwapsExcludeEachOther == SwapSpec => []OneOpenSwapPerShift
<1>1. SwapInit => Exclusive
  BY DEF SwapInit, NoSwap, Exclusive, OpenOn, OpenStatuses
<1>2. SwapShape /\ Exclusive /\ [SwapNext]_swapVars => Exclusive'
  BY StepExclusive DEF SwapNext, swapVars
<1>3. Exclusive => OneOpenSwapPerShift
  <2> SUFFICES ASSUME Exclusive, NEW s \in Shifts PROVE Cardinality(OpenOn(s)) <= 1
    BY DEF OneOpenSwapPerShift
  <2>1. CASE OpenOn(s) = {}
    BY <2>1, FS_EmptySet
  <2>2. CASE OpenOn(s) # {}
    <3>1. PICK k \in OpenOn(s) : TRUE
      BY <2>2
    <3>2. OpenOn(s) = {k}
      BY <3>1 DEF Exclusive
    <3> QED
      BY <3>2, FS_Singleton
  <2> QED
    BY <2>1, <2>2
<1> QED
  BY <1>1, <1>2, <1>3, SwapShapeInvariant, PTL DEF SwapSpec

-----------------------------------------------------------------------------
(***************************************************************************)
(* Todos.  The three operations on tasks are followed by what they do to   *)
(* the pending ones, for any table t of tasks.                             *)
(***************************************************************************)
Task == [node : Nodes, status : TaskStatuses]
Todo(t, d) == { i \in DOMAIN t[d] : t[d][i].status = "pending" }

\* Tables t and u differ in the tasks of document d only.
OnlyOf(d, t, u) == \A e \in Docs : e # d => u[e] = t[e]

LEMMA TableOfFunction ==
    ASSUME NEW t \in TasksType, NEW d \in Docs
    PROVE  \E n \in Nat : t[d] \in [1..n -> Task] /\ n = Len(t[d]) /\ DOMAIN t[d] = 1..n
<1>1. t[d] \in Seq(Task)
  BY DEF TasksType, Task
<1>2. PICK n \in Nat : t[d] \in [1..n -> Task]
  BY <1>1, SeqDef
<1>3. DOMAIN t[d] = 1..n
  BY <1>2
<1>4. Len(t[d]) = n
  BY <1>1, <1>2, <1>3
<1> QED
  BY <1>2, <1>3, <1>4

LEMMA CreateTodo ==
    ASSUME NEW t \in TasksType, NEW d \in Docs, NEW node \in Nodes
    PROVE  LET u == CreateTask(t, d, node)
               last == Len(t[d]) + 1
           IN  /\ u \in TasksType /\ OnlyOf(d, t, u)
               /\ Todo(u, d) = Todo(t, d) \cup {last}
               /\ u[d][last].node = node
               /\ \A i \in Todo(t, d) : u[d][i] = t[d][i]
<1> DEFINE new == [node |-> node, status |-> "pending"]
           u == CreateTask(t, d, node)
<1>1. new \in Task
  BY DEF Task, TaskStatuses
<1>2. t[d] \in Seq(Task)
  BY DEF TasksType, Task
<1>3. u = [t EXCEPT ![d] = Append(t[d], new)]
  BY DEF CreateTask
<1>4. PICK n \in Nat : t[d] \in [1..n -> Task] /\ n = Len(t[d]) /\ DOMAIN t[d] = 1..n
  BY TableOfFunction
<1>5. t \in [Docs -> Seq(Task)]
  BY DEF TasksType, Task
<1> HIDE DEF new, u
<1>6. /\ Append(t[d], new) \in Seq(Task)
      /\ DOMAIN Append(t[d], new) = 1..n+1
      /\ \A i \in 1..n : Append(t[d], new)[i] = t[d][i]
      /\ Append(t[d], new)[n+1] = new
  BY <1>1, <1>2, <1>4
<1>7. u[d] = Append(t[d], new) /\ OnlyOf(d, t, u) /\ u \in TasksType
  BY <1>3, <1>5, <1>6 DEF OnlyOf, TasksType, Task
<1>8. Todo(u, d) = Todo(t, d) \cup {n + 1}
  BY <1>4, <1>6, <1>7 DEF Todo, new
<1> QED
  BY <1>4, <1>6, <1>7, <1>8 DEF Todo, new, u

LEMMA CompleteTodo ==
    ASSUME NEW t \in TasksType, NEW d \in Docs, NEW i \in DOMAIN t[d], NEW approve \in BOOLEAN
    PROVE  LET u == CompleteTask(t, d, i, approve)
           IN  /\ u \in TasksType /\ OnlyOf(d, t, u)
               /\ Todo(u, d) = Todo(t, d) \ {i}
               /\ \A j \in Todo(u, d) : u[d][j] = t[d][j]
<1> DEFINE answer == IF approve THEN "approved" ELSE "rejected"
           s == [t[d] EXCEPT ![i] = [t[d][i] EXCEPT !.status = answer]]
           u == CompleteTask(t, d, i, approve)
<1>1. PICK n \in Nat : t[d] \in [1..n -> Task] /\ n = Len(t[d]) /\ DOMAIN t[d] = 1..n
  BY TableOfFunction
<1>2. u = [t EXCEPT ![d] = s]
  BY DEF CompleteTask
<1>3. answer \in TaskStatuses /\ answer # "pending"
  BY DEF TaskStatuses
<1> HIDE DEF answer
<1>4. [t[d][i] EXCEPT !.status = answer] \in Task /\ [t[d][i] EXCEPT !.status = answer].status = answer
  BY <1>1, <1>3 DEF Task
<1>5. /\ s \in [1..n -> Task] /\ DOMAIN s = 1..n
      /\ s[i].status = answer /\ \A j \in 1..n : j # i => s[j] = t[d][j]
  BY <1>1, <1>4
<1> HIDE DEF s, u
<1>6. s \in Seq(Task)
  BY <1>5, SeqDef
<1>7. t \in [Docs -> Seq(Task)]
  BY DEF TasksType, Task
<1>8. u[d] = s /\ OnlyOf(d, t, u) /\ u \in TasksType
  BY <1>2, <1>6, <1>7 DEF OnlyOf, TasksType, Task
<1>9. Todo(u, d) = Todo(t, d) \ {i} /\ \A j \in Todo(u, d) : u[d][j] = t[d][j]
  BY <1>1, <1>3, <1>5, <1>8 DEF Todo
<1> QED
  BY <1>8, <1>9 DEF u

LEMMA CancelTodo ==
    ASSUME NEW t \in TasksType, NEW d \in Docs
    PROVE  LET u == CancelPendingTasks(t, d)
           IN  u \in TasksType /\ OnlyOf(d, t, u) /\ Todo(u, d) = {}
<1> DEFINE s == [i \in DOMAIN t[d] |->
                    IF t[d][i].status = "pending" THEN [t[d][i] EXCEPT !.status = "cancelled"]
                    ELSE t[d][i]]
           u == CancelPendingTasks(t, d)
<1>1. PICK n \in Nat : t[d] \in [1..n -> Task] /\ n = Len(t[d]) /\ DOMAIN t[d] = 1..n
  BY TableOfFunction
<1>2. u = [t EXCEPT ![d] = s]
  BY DEF CancelPendingTasks
<1>3. \A x \in Task : [x EXCEPT !.status = "cancelled"] \in Task
                      /\ [x EXCEPT !.status = "cancelled"].status = "cancelled"
  BY DEF Task, TaskStatuses
<1>4. /\ s \in [1..n -> Task] /\ DOMAIN s = 1..n
      /\ \A i \in 1..n : s[i].status # "pending"
  BY <1>1, <1>3
<1> HIDE DEF s, u
<1>5. s \in Seq(Task)
  BY <1>4, SeqDef
<1>6. t \in [Docs -> Seq(Task)]
  BY DEF TasksType, Task
<1>7. u[d] = s /\ OnlyOf(d, t, u) /\ u \in TasksType
  BY <1>2, <1>5, <1>6 DEF OnlyOf, TasksType, Task
<1> QED
  BY <1>4, <1>7 DEF Todo, u

\* A pending task and the status of its swap.
Awaited == {<<"target_confirm", "wait_target_confirm">>,
            <<"director_approval", "wait_director_approval">>}

TodosOf(k) ==
    /\ \A i, j \in Todo(tasks, k) : i = j
    /\ \A i \in Todo(tasks, k) : <<tasks[k][i].node, swaps[k].status>> \in Awaited

SwapTodos == tasks \in TasksType /\ \A k \in Swaps : TodosOf(k)

\* A step that answers or cancels what was pending of swap k leaves nothing behind.
LEMMA StepTodosOfOne ==
    ASSUME SwapShape, SwapTodos, NEW k \in Swaps,
           tasks' \in TasksType, OnlyOf(k, tasks, tasks'), TodosOf(k)',
           \A j \in Swaps : j # k => swaps'[j] = swaps[j]
    PROVE  SwapTodos'
<1> SUFFICES ASSUME NEW j \in Swaps, j # k PROVE TodosOf(j)'
  BY DEF SwapTodos
<1>1. tasks'[j] = tasks[j] /\ swaps'[j] = swaps[j]
  BY SwapAssumption DEF OnlyOf
<1> QED
  BY <1>1 DEF SwapTodos, TodosOf, Todo

LEMMA StepSwapTodos ==
    ASSUME SwapShape, SwapTodos, SwapStep
    PROVE  SwapTodos'
<1>1. tasks \in TasksType /\ \A k \in Swaps : k \in Docs /\ TodosOf(k)
  BY SwapAssumption DEF SwapTodos
<1>2. ASSUME NEW k \in Swaps, NEW status, SetStatus(k, status)
      PROVE  swaps'[k].status = status /\ \A j \in Swaps : j # k => swaps'[j] = swaps[j]
  BY <1>2 DEF SetStatus, SwapShape, SwapRecord
<1>3. ASSUME NEW k \in Swaps, NEW node, NEW i, IsPending(k, i, node)
      PROVE  i \in DOMAIN tasks[k] /\ Todo(tasks, k) = {i} /\ tasks[k][i].node = node
  BY <1>1, <1>3 DEF IsPending, Todo, TodosOf
<1>4. ASSUME NEW k \in Swaps, NEW a \in People, NEW b \in People, NEW s \in Shifts,
             NEW t \in Shifts \cup {NoShift}, CreateSwap(k, a, s, b, t)
      PROVE  SwapTodos'
  <2>1. tasks' = CreateTask(tasks, k, "target_confirm") /\ "target_confirm" \in Nodes
    BY <1>4 DEF CreateSwap, Nodes
  <2>2. swaps'[k].status = "wait_target_confirm" /\ \A j \in Swaps : j # k => swaps'[j] = swaps[j]
    BY <1>4 DEF CreateSwap, SwapShape
  <2>3. Todo(tasks, k) = {}
    BY <1>1, <1>4 DEF CreateSwap, TodosOf, Awaited
  <2>4. tasks' \in TasksType /\ OnlyOf(k, tasks, tasks') /\ TodosOf(k)'
    BY <1>1, <2>1, <2>2, <2>3, CreateTodo DEF TodosOf, Awaited, Todo
  <2> QED
    BY <2>2, <2>4, StepTodosOfOne
<1>5. ASSUME NEW k \in Swaps, TargetApproves(k) PROVE SwapTodos'
  <2>1. PICK i : /\ IsPending(k, i, "target_confirm")
                 /\ tasks' = CreateTask(CompleteTask(tasks, k, i, TRUE), k, "director_approval")
    BY <1>5 DEF TargetApproves
  <2> DEFINE t == CompleteTask(tasks, k, i, TRUE)
  <2>2. swaps'[k].status = "wait_director_approval"
        /\ \A j \in Swaps : j # k => swaps'[j] = swaps[j]
    BY <1>2, <1>5 DEF TargetApproves
  <2>3. t \in TasksType /\ OnlyOf(k, tasks, t) /\ Todo(t, k) = {}
    <3>1. k \in Docs /\ i \in DOMAIN tasks[k] /\ Todo(tasks, k) = {i} /\ TRUE \in BOOLEAN
      BY <1>1, <1>3, <2>1
    <3>2. t \in TasksType /\ OnlyOf(k, tasks, t) /\ Todo(t, k) = Todo(tasks, k) \ {i}
      BY <1>1, <3>1, CompleteTodo
    <3> QED
      BY <3>1, <3>2
  <2>4. tasks' = CreateTask(t, k, "director_approval") /\ "director_approval" \in Nodes
    BY <2>1 DEF Nodes
  <2> HIDE DEF t
  <2>5. tasks' \in TasksType /\ OnlyOf(k, t, tasks') /\ TodosOf(k)'
    BY <1>1, <2>2, <2>3, <2>4, CreateTodo DEF TodosOf, Awaited, Todo
  <2>6. OnlyOf(k, tasks, tasks')
    BY <2>3, <2>5 DEF OnlyOf
  <2> QED
    BY <2>2, <2>5, <2>6, StepTodosOfOne
<1>6. ASSUME NEW k \in Swaps, NEW node \in Nodes, NEW approve \in BOOLEAN, NEW i,
             IsPending(k, i, node), tasks' = CompleteTask(tasks, k, i, approve),
             \A j \in Swaps : j # k => swaps'[j] = swaps[j]
      PROVE  SwapTodos'
  <2>1. tasks' \in TasksType /\ OnlyOf(k, tasks, tasks') /\ Todo(tasks', k) = {}
    BY <1>1, <1>3, <1>6, CompleteTodo
  <2>2. TodosOf(k)'
    BY <2>1 DEF TodosOf, Todo
  <2> QED
    BY <1>6, <2>1, <2>2, StepTodosOfOne
<1>7. ASSUME NEW k \in Swaps, tasks' = CancelPendingTasks(tasks, k),
             \A j \in Swaps : j # k => swaps'[j] = swaps[j]
      PROVE  SwapTodos'
  <2>1. tasks' \in TasksType /\ OnlyOf(k, tasks, tasks') /\ Todo(tasks', k) = {}
    BY <1>1, <1>7, CancelTodo
  <2>2. TodosOf(k)'
    BY <2>1 DEF TodosOf, Todo
  <2> QED
    BY <1>7, <2>1, <2>2, StepTodosOfOne
<1>8. ASSUME NEW k \in Swaps, TargetRejects(k) \/ DirectorApproves(k) \/ DirectorRejects(k)
      PROVE  SwapTodos'
  <2>1. \A j \in Swaps : j # k => swaps'[j] = swaps[j]
    BY <1>2, <1>8 DEF TargetRejects, DirectorApproves, DirectorRejects
  <2>2. \E node \in Nodes, approve \in BOOLEAN : \E i :
           IsPending(k, i, node) /\ tasks' = CompleteTask(tasks, k, i, approve)
    BY <1>8 DEF TargetRejects, DirectorApproves, DirectorRejects, Nodes
  <2> QED
    BY <1>6, <2>1, <2>2
<1>9. ASSUME NEW k \in Swaps, NEW approve \in BOOLEAN, CentreAnswersConfirm(k, approve)
      PROVE  SwapTodos'
  <2>1. swaps' = swaps /\ "target_confirm" \in Nodes
    BY <1>9 DEF CentreAnswersConfirm, Nodes
  <2>2. \E i : IsPending(k, i, "target_confirm") /\ tasks' = CompleteTask(tasks, k, i, approve)
    BY <1>9 DEF CentreAnswersConfirm
  <2> QED
    BY <1>6, <2>1, <2>2
<1>10. ASSUME NEW k \in Swaps, WithdrawSwap(k) \/ CancelSwap(k) PROVE SwapTodos'
  <2>1. /\ tasks' = CancelPendingTasks(tasks, k)
        /\ \A j \in Swaps : j # k => swaps'[j] = swaps[j]
    BY <1>2, <1>10 DEF WithdrawSwap, CancelSwap
  <2> QED
    BY <1>7, <2>1
<1> QED
  BY <1>4, <1>5, <1>8, <1>9, <1>10 DEF SwapStep

LEMMA InitSwapTodos ==
    tasks = [d \in Docs |-> <<>>] => tasks \in TasksType /\ \A d \in Docs : Todo(tasks, d) = {}
BY DEF TasksType, Todo

\* Whatever is created, answered on either page, withdrawn or cancelled: a swap
\* has at most one pending task, and it is the one its status waits for.
THEOREM TodosFollowSwaps == SwapSpec => []PendingTaskFollowsSwap
<1>1. SwapInit => SwapTodos
  BY InitSwapTodos, SwapAssumption DEF SwapInit, TasksInit, SwapTodos, TodosOf
<1>2. SwapShape /\ SwapTodos /\ [SwapNext]_swapVars => SwapTodos'
  <2>1. SwapTodos /\ UNCHANGED <<swaps, tasks>> => SwapTodos'
    BY DEF SwapTodos, TodosOf, Todo
  <2> QED
    BY <2>1, StepSwapTodos DEF SwapNext, swapVars
<1>3. SwapTodos => PendingTaskFollowsSwap
  <2> SUFFICES ASSUME SwapTodos, NEW k \in Swaps
               PROVE  /\ Cardinality(PendingNodes(k)) <= 1
                      /\ \A i \in PendingNodes(k) : <<tasks[k][i].node, swaps[k].status>> \in Awaited
    BY DEF PendingTaskFollowsSwap, Awaited
  <2>1. TodosOf(k) /\ PendingNodes(k) = Todo(tasks, k)
    BY DEF SwapTodos, PendingNodes, Todo
  <2>2. CASE Todo(tasks, k) = {}
    BY <2>1, <2>2, FS_EmptySet
  <2>3. CASE Todo(tasks, k) # {}
    <3>1. PICK i \in Todo(tasks, k) : TRUE
      BY <2>3
    <3>2. Todo(tasks, k) = {i}
      BY <2>1, <3>1 DEF TodosOf
    <3> QED
      BY <2>1, <3>2, FS_Singleton DEF TodosOf
  <2> QED
    BY <2>2, <2>3
<1> QED
  BY <1>1, <1>2, <1>3, SwapShapeInvariant, PTL DEF SwapSpec
=============================================================================
