----------------------------- MODULE TaskTable -----------------------------
(***************************************************************************)
(* The task table (src/models.py) and the statements that                  *)
(* src/services/tasks.py runs on it.  A row is found at the index that is  *)
(* its id: SQLite gives a new row the largest id plus one, and no code     *)
(* deletes rows.  Every helper of services/tasks.py commits at once, so    *)
(* each definition below is one transaction of SQLite, except enqueue: its *)
(* SELECT opens no transaction and its INSERT is another statement, so it  *)
(* is IdenticalPending in one step and Insert in a later one.              *)
(***************************************************************************)
EXTENDS Naturals, Sequences

CONSTANT Item       \* what a task asks for: records [type, payload]

VARIABLE tasks      \* the rows, in order of id

TaskStatus == {"pending", "running", "success", "error"}

\* The terminal states: nothing in the code leaves them.
Settled == {"success", "error"}

Task == [item: Item, status: TaskStatus, attempts: Nat, created: Nat]

TaskIds == DOMAIN tasks

WithStatus(status) == {id \in TaskIds : tasks[id].status = status}

-----------------------------------------------------------------------------
\* Mutant: deduplication also against a task that is already running.
IdenticalUnsettled(item) ==
    {id \in WithStatus("pending") \cup WithStatus("running") : tasks[id].item = item}

\* enqueue, first statement: the pending tasks a request may be folded into.
IdenticalPending(item) == {id \in WithStatus("pending") : tasks[id].item = item}

\* enqueue, second statement.  created_at is the time at which the Task object
\* was made, not the time of the commit.
Insert(item, created) ==
    tasks' = Append(tasks, [item |-> item, status |-> "pending",
                            attempts |-> 0, created |-> created])

\* ORDER BY created_at, id.
Precedes(i, j) ==
    \/ tasks[i].created < tasks[j].created
    \/ tasks[i].created = tasks[j].created /\ i <= j

OldestPending ==
    {id \in WithStatus("pending") : \A other \in WithStatus("pending") : Precedes(id, other)}

\* claim_next: UPDATE ... RETURNING on the oldest pending row.
ClaimNext(id) ==
    /\ id \in OldestPending
    /\ tasks' = [tasks EXCEPT ![id].status = "running"]

\* mark_running_attempt
MarkRunningAttempt(id) == tasks' = [tasks EXCEPT ![id].attempts = @ + 1]

\* complete
Complete(id) == tasks' = [tasks EXCEPT ![id].status = "success"]

\* fail
Fail(id) == tasks' = [tasks EXCEPT ![id].status = "error"]

\* Mutants: the startup does not requeue, or requeues failed tasks too.
RequeueNothing == UNCHANGED tasks
RequeueUnfinished ==
    tasks' = [id \in TaskIds |->
                IF tasks[id].status = "success" THEN tasks[id]
                ELSE [tasks[id] EXCEPT !.status = "pending"]]

\* requeue_orphans.  The attempts of a row survive.
RequeueOrphans ==
    tasks' = [id \in TaskIds |->
                IF tasks[id].status = "running"
                THEN [tasks[id] EXCEPT !.status = "pending"]
                ELSE tasks[id]]
=============================================================================
