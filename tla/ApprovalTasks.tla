---------------------------- MODULE ApprovalTasks ----------------------------
(***************************************************************************)
(* The generic approval tasks of services/approval.py.  tasks[d] lists the *)
(* tasks of business document d in order of creation.  The approval        *)
(* records written beside every step only repeat it and are left out.      *)
(***************************************************************************)
EXTENDS Naturals, Sequences

CONSTANTS Docs,      \* business documents: shift swaps and leave requests
          Approvers, \* who holds approval:task:view_todo in the room
          Accounts,  \* persons bound to an enabled account
          NoShift, NoPerson  \* the null of a document's columns

VARIABLE tasks

Nodes == {"target_confirm", "director_approval"}
TaskStatuses == {"pending", "approved", "rejected", "cancelled"}

TasksType == [Docs -> Seq([node : Nodes, status : TaskStatuses])]

TasksInit == tasks = [d \in Docs |-> <<>>]

CreateTask(t, d, node) ==
    [t EXCEPT ![d] = Append(@, [node |-> node, status |-> "pending"])]

IsPending(d, i, node) ==
    i \in DOMAIN tasks[d] /\ tasks[d][i] = [node |-> node, status |-> "pending"]

\* complete_task: UPDATE ... WHERE status = 'pending', guarded by IsPending.
CompleteTask(t, d, i, approve) ==
    [t EXCEPT ![d][i].status = IF approve THEN "approved" ELSE "rejected"]

\* Variant: the tasks of a withdrawn document stay in the todo list.
CancelNoTasks(t, d) == t

CancelPendingTasks(t, d) ==
    [t EXCEPT ![d] = [i \in DOMAIN t[d] |->
        IF t[d][i].status = "pending" THEN [t[d][i] EXCEPT !.status = "cancelled"]
        ELSE t[d][i]]]

\* _find_approval_assignee finds an account.
ApproverFound == Approvers # {}

PendingNodes(d) ==
    { i \in DOMAIN tasks[d] : tasks[d][i].status = "pending" }
=============================================================================
