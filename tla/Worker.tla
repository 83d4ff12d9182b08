------------------------------- MODULE Worker -------------------------------
(***************************************************************************)
(* The task queue of Monohelper: the request threads of the web process    *)
(* that enqueue syncs (src/routers/sync.py), the one background worker     *)
(* that runs them with retries (src/worker.py) and, in the worker's idle   *)
(* polls, the scheduler that enqueues the daily syncs (src/scheduler.py).  *)
(* They meet only in the task table.  The two processes interleave at      *)
(* every statement; the worker may be killed at any point, is started      *)
(* again by systemd, and is told to stop by a signal that its code reads   *)
(* only at some points.                                                    *)
(***************************************************************************)
EXTENDS TaskTable, LocalTime, FiniteSets

CONSTANTS
    Client,         \* request threads of the web process
    Request,        \* the items that clients ask for
    Leftover,       \* items left pending by an earlier release, in id order
    Registry,       \* task types with a handler (JOB_REGISTRY)
    Malformed,      \* items whose handler raises ValidationError
    Jobs,           \* the schedule: a sequence of records [type, time]
    NoPayload,      \* the payload {} of a scheduled task
    MaxAttempts,    \* WORKER_MAX_ATTEMPTS
    Backoff,        \* WORKER_RETRY_BACKOFF_SEC, in ticks
    Deadline,       \* WORKER_TASK_DEADLINE_SEC, in ticks
    MaxTasks,       \* bound: rows in the table
    MaxTime,        \* bound: the last instant of the clock
    MaxCrashes,     \* bound: kills of the worker
    MaxSignals      \* bound: stop signals to the worker

Scheduled(type) == [type |-> type, payload |-> NoPayload]

ASSUME WorkerAssumption ==
    /\ MaxAttempts \in Nat \ {0}
    /\ Backoff \in Nat /\ Deadline \in Nat
    /\ MaxTasks \in Nat /\ MaxTime \in Nat
    /\ MaxCrashes \in Nat /\ MaxSignals \in Nat
    /\ IsFiniteSet(Client)
    /\ Request \subseteq Item /\ Malformed \subseteq Item
    /\ Leftover \in Seq(Item)
    /\ \A j \in DOMAIN Jobs : Scheduled(Jobs[j].type) \in Item
    /\ Jobs \in Seq([type : {item.type : item \in Item}, time : Nat])
    /\ \A i, j \in DOMAIN Jobs : Jobs[i].type = Jobs[j].type => i = j

Scheduler == "scheduler"

ASSUME SchedulerAssumption == Scheduler \notin Client

\* The callers of services.tasks.enqueue.
Enqueuer == Client \cup {Scheduler}

VARIABLES
    now,        \* the clock, in ticks since the start
    enq,        \* per caller of enqueue: where the call stands
    pc,         \* the worker process: the statement it is about to execute
    cur,        \* id of the claimed task; 0: none
    tries,      \* attempts made in this call of run_one
    left,       \* ticks from now to deadline; 0: at it or past it
    nap,        \* ticks of backoff still to sleep
    shutdown,   \* _shutdown.is_set()
    late,       \* attempts begun since the signal (history)
    job,        \* index of the job that check_and_enqueue looks at
    asOf,       \* the `now` of that call
    booked,     \* scheduled inserts: [task, type, day] (history)
    crashes,    \* kills so far
    signals     \* stop signals so far

runVars   == <<cur, tries, left, nap>>
schedVars == <<job, asOf, booked>>
envVars   == <<now, crashes, signals>>
vars == <<tasks, enq, pc, runVars, shutdown, late, schedVars, envVars>>

\* Where a call of enqueue stands: not under way, between its SELECT and its
\* INSERT, or returned (a client's 202 with the id of a task).
IdleCall == [step |-> "idle"]
InsertCall(item, since) == [step |-> "insert", item |-> item, since |-> since]
AnsweredCall(id, seen) == [step |-> "answered", task |-> id, seen |-> seen]

\* The worker: killed; stopped by a signal; before requeue_orphans; at the
\* top of the loop; in run_one; in check_and_enqueue; in the poll interval.
Dead == {"killed", "stopped"}
InRun == {"attempt", "handling", "sleeping", "completing", "failing"}
InSchedule == {"check", "sched", "enqueue", "insert"}
WorkerPC == Dead \cup {"boot", "poll", "wait"} \cup InRun \cup InSchedule

Init ==
    /\ tasks = [i \in DOMAIN Leftover |->
                  [item |-> Leftover[i], status |-> "pending",
                   attempts |-> 0, created |-> 0]]
    /\ now = 0
    /\ enq = [e \in Enqueuer |-> IdleCall]
    /\ pc = "boot"
    /\ cur = 0 /\ tries = 0 /\ left = 0 /\ nap = 0
    /\ shutdown = FALSE /\ late = 0
    /\ job = 0 /\ asOf = 0 /\ booked = {}
    /\ crashes = 0 /\ signals = 0

-----------------------------------------------------------------------------
(* services.tasks.enqueue, called by a request thread or by the scheduler. *)

Inserting == {e \in Enqueuer : enq[e].step = "insert"}

\* Bound: a call that would not fit in the table is not made.
Room == Len(tasks) + Cardinality(Inserting) < MaxTasks

(* The web process. *)

\* POST /sync/accounts or /sync/transactions, up to enqueue's SELECT: it finds
\* an identical pending task, and the 202 names that, or it goes on to INSERT.
PostSync(c, item) ==
    /\ enq[c].step # "insert"
    /\ \/ \E id \in IdenticalPending(item) :
            enq' = [enq EXCEPT ![c] = AnsweredCall(id, tasks[id].attempts)]
       \/ /\ IdenticalPending(item) = {} /\ Room
          /\ enq' = [enq EXCEPT ![c] = InsertCall(item, now)]
    /\ UNCHANGED <<tasks, pc, runVars, shutdown, late, schedVars, envVars>>

\* The INSERT, stamped with a time since the SELECT, and the 202.
PostSyncInsert(c) ==
    /\ enq[c].step = "insert"
    /\ \E created \in enq[c].since .. now : Insert(enq[c].item, created)
    /\ enq' = [enq EXCEPT ![c] = AnsweredCall(Len(tasks) + 1, 0)]
    /\ UNCHANGED <<pc, runVars, shutdown, late, schedVars, envVars>>

\* The request dies before its INSERT commits (an error answer, a restart).
PostSyncLost(c) ==
    /\ enq[c].step = "insert"
    /\ enq' = [enq EXCEPT ![c] = IdleCall]
    /\ UNCHANGED <<tasks, pc, runVars, shutdown, late, schedVars, envVars>>

-----------------------------------------------------------------------------
(* The worker: run_loop. *)

\* systemd starts the process (Restart=always, or an operator).
Boot ==
    /\ pc \in Dead
    /\ pc' = "boot"
    /\ UNCHANGED <<tasks, enq, runVars, shutdown, late, schedVars, envVars>>

Requeue ==
    /\ pc = "boot"
    /\ RequeueOrphans
    /\ pc' = "poll"
    /\ UNCHANGED <<enq, runVars, shutdown, late, schedVars, envVars>>

\* while not _shutdown.is_set(): ... the process ends.
Stop ==
    /\ pc = "poll" /\ shutdown
    /\ pc' = "stopped"
    /\ shutdown' = FALSE /\ late' = 0
    /\ UNCHANGED <<tasks, enq, runVars, schedVars, envVars>>

\* A task is claimed.  run_one looks its handler up, and takes the deadline.
Claim ==
    /\ pc = "poll" /\ ~shutdown
    /\ \E id \in TaskIds :
         /\ ClaimNext(id)
         /\ cur' = id
         /\ IF tasks[id].item.type \in Registry
            THEN pc' = "attempt" /\ left' = Deadline
            ELSE pc' = "failing" /\ UNCHANGED left
    /\ UNCHANGED <<enq, tries, nap, shutdown, late, schedVars, envVars>>

\* Nothing is pending.
Idle ==
    /\ pc = "poll" /\ ~shutdown
    /\ WithStatus("pending") = {}
    /\ pc' = IF Jobs = <<>> THEN "wait" ELSE "check"
    /\ UNCHANGED <<tasks, enq, runVars, shutdown, late, schedVars, envVars>>

\* Mutant: the wait clears the event it waited for.
WaitClearing ==
    /\ pc = "wait"
    /\ pc' = "poll" /\ shutdown' = FALSE /\ late' = 0
    /\ asOf' = 0
    /\ UNCHANGED <<tasks, enq, runVars, job, booked, envVars>>

\* _shutdown.wait(POLL_INTERVAL) returns.
Wait ==
    /\ pc = "wait"
    /\ pc' = "poll"
    /\ asOf' = 0
    /\ UNCHANGED <<tasks, enq, runVars, shutdown, late, job, booked, envVars>>

-----------------------------------------------------------------------------
(* The worker: run_one. *)

\* Mutant: the deadline is taken inside the loop, anew for every attempt.
AttemptRenewing ==
    /\ pc = "attempt"
    /\ MarkRunningAttempt(cur)
    /\ tries' = tries + 1
    /\ left' = Deadline
    /\ late' = IF shutdown THEN late + 1 ELSE late
    /\ pc' = "handling"
    /\ UNCHANGED <<enq, cur, nap, shutdown, schedVars, envVars>>

\* while True: attempt = mark_running_attempt(...)
Attempt ==
    /\ pc = "attempt"
    /\ MarkRunningAttempt(cur)
    /\ tries' = tries + 1
    /\ late' = IF shutdown THEN late + 1 ELSE late
    /\ pc' = "handling"
    /\ UNCHANGED <<enq, cur, left, nap, shutdown, schedVars, envVars>>

\* The handler returns a result.
HandlerReturns ==
    /\ pc = "handling"
    /\ tasks[cur].item \notin Malformed
    /\ pc' = "completing"
    /\ UNCHANGED <<tasks, enq, runVars, shutdown, late, schedVars, envVars>>

\* except ValidationError: terminal at once.
HandlerRejects ==
    /\ pc = "handling"
    /\ tasks[cur].item \in Malformed
    /\ pc' = "failing"
    /\ UNCHANGED <<tasks, enq, runVars, shutdown, late, schedVars, envVars>>

\* Mutants of the retry decision: off by one, and deaf to the signal.
ExhaustedLate == tasks[cur].attempts > MaxAttempts
GivesUpDeaf   == tasks[cur].attempts >= MaxAttempts \/ Backoff >= left

\* The retry decision of except Exception.
Exhausted    == tasks[cur].attempts >= MaxAttempts
PastDeadline == Backoff >= left
GivesUp      == Exhausted \/ PastDeadline \/ shutdown

\* except Exception: the handler raises anything else (the network, the
\* database), or complete does, which stands in the same try: the work is done
\* and its end is not recorded.
HandlerRaises ==
    /\ pc \in {"handling", "completing"}
    /\ tasks[cur].item \notin Malformed
    /\ IF GivesUp
       THEN pc' = "failing" /\ UNCHANGED nap
       ELSE pc' = "sleeping" /\ nap' = Backoff
    /\ UNCHANGED <<tasks, enq, cur, tries, left, shutdown, late, schedVars, envVars>>

\* _shutdown.wait(backoff_sec) returns: it has slept enough, or was told to stop.
Wake ==
    /\ pc = "sleeping"
    /\ nap = 0 \/ shutdown
    /\ pc' = "attempt" /\ nap' = 0
    /\ UNCHANGED <<tasks, enq, cur, tries, left, shutdown, late, schedVars, envVars>>

\* run_one returns: its locals are gone.
LeaveRun == pc' = "poll" /\ cur' = 0 /\ tries' = 0 /\ left' = 0 /\ nap' = 0

CompleteTask ==
    /\ pc = "completing"
    /\ Complete(cur)
    /\ LeaveRun
    /\ UNCHANGED <<enq, shutdown, late, schedVars, envVars>>

FailTask ==
    /\ pc = "failing"
    /\ Fail(cur)
    /\ LeaveRun
    /\ UNCHANGED <<enq, shutdown, late, schedVars, envVars>>

-----------------------------------------------------------------------------
(* The worker: check_and_enqueue. *)

CheckStart ==
    /\ pc = "check"
    /\ asOf' = now /\ job' = 1
    /\ pc' = "sched"
    /\ UNCHANGED <<tasks, enq, runVars, shutdown, late, booked, envVars>>

\* Mutant: a failed task makes the scheduler skip its job, too.
RunSinceAny(j) ==
    {id \in TaskIds :
        /\ tasks[id].item.type = Jobs[j].type
        /\ tasks[id].created >= ScheduledSince(Jobs[j].time, asOf)}

\* Tasks that make the scheduler skip a job: not failed, of its type, and
\* created since its time of today.
RunSince(j) ==
    {id \in TaskIds :
        /\ tasks[id].item.type = Jobs[j].type
        /\ tasks[id].status # "error"
        /\ tasks[id].created >= ScheduledSince(Jobs[j].time, asOf)}

Wanted(j) == Due(Jobs[j].time, asOf) /\ RunSince(j) = {}

\* Mutant: off by one at the last job.
NextJobPastEnd ==
    IF job <= Len(Jobs)
    THEN pc' = "sched" /\ job' = job + 1
    ELSE pc' = "wait" /\ job' = 0

\* The for loop goes on to the next job, or ends.
NextJob ==
    IF job < Len(Jobs)
    THEN pc' = "sched" /\ job' = job + 1
    ELSE pc' = "wait" /\ job' = 0

SchedulerSkip ==
    /\ pc = "sched"
    /\ ~ Wanted(job)
    /\ NextJob
    /\ UNCHANGED <<tasks, enq, runVars, shutdown, late, asOf, booked, envVars>>

SchedulerWants ==
    /\ pc = "sched"
    /\ Wanted(job)
    /\ pc' = "enqueue"
    /\ UNCHANGED <<tasks, enq, runVars, shutdown, late, schedVars, envVars>>

\* enqueue's SELECT, for the scheduler: it goes on to the INSERT, or is done.
\* With the table at its bound the job is passed over.
SchedulerRead ==
    /\ pc = "enqueue"
    /\ LET item == Scheduled(Jobs[job].type)
       IN  IF IdenticalPending(item) = {} /\ Room
           THEN /\ enq' = [enq EXCEPT ![Scheduler] = InsertCall(item, now)]
                /\ pc' = "insert" /\ UNCHANGED job
           ELSE NextJob /\ UNCHANGED enq
    /\ UNCHANGED <<tasks, runVars, shutdown, late, asOf, booked, envVars>>

SchedulerInsert ==
    /\ pc = "insert"
    /\ \E created \in enq[Scheduler].since .. now : Insert(enq[Scheduler].item, created)
    /\ enq' = [enq EXCEPT ![Scheduler] = IdleCall]
    /\ booked' = booked \cup {[task |-> Len(tasks) + 1, type |-> Jobs[job].type,
                               day |-> LocalDay(asOf)]}
    /\ NextJob
    /\ UNCHANGED <<runVars, shutdown, late, asOf, envVars>>

-----------------------------------------------------------------------------
(* The environment of the worker. *)

\* SIGKILL, a power cut, or an exception that leaves the loop: whatever was
\* not committed is gone, and with it the locals and the flag.
Crash ==
    /\ pc \notin Dead
    /\ crashes < MaxCrashes
    /\ crashes' = crashes + 1
    /\ pc' = "killed"
    /\ cur' = 0 /\ tries' = 0 /\ left' = 0 /\ nap' = 0
    /\ shutdown' = FALSE /\ late' = 0
    /\ job' = 0 /\ asOf' = 0
    /\ enq' = [enq EXCEPT ![Scheduler] = IdleCall]
    /\ UNCHANGED <<tasks, booked, now, signals>>

\* SIGTERM or SIGINT, once the handlers are installed.
Signal ==
    /\ pc \notin Dead /\ ~shutdown
    /\ signals < MaxSignals
    /\ signals' = signals + 1
    /\ shutdown' = TRUE
    /\ UNCHANGED <<tasks, enq, pc, runVars, late, schedVars, now, crashes>>

Pred(n) == IF n = 0 THEN 0 ELSE n - 1

\* Time passes.  At the bound of the clock only the countdowns go on.
Tick ==
    /\ now < MaxTime \/ left > 0 \/ nap > 0
    /\ now' = IF now < MaxTime THEN now + 1 ELSE now
    /\ left' = Pred(left) /\ nap' = Pred(nap)
    /\ UNCHANGED <<tasks, enq, pc, cur, tries, shutdown, late, schedVars, crashes, signals>>

-----------------------------------------------------------------------------
WebStep ==
    \E c \in Client :
        \/ \E item \in Request : PostSync(c, item)
        \/ PostSyncInsert(c)
        \/ PostSyncLost(c)

HandlerOutcome == HandlerReturns \/ HandlerRejects \/ HandlerRaises

RunStep == Attempt \/ HandlerOutcome \/ Wake \/ CompleteTask \/ FailTask

ScheduleStep ==
    CheckStart \/ SchedulerSkip \/ SchedulerWants \/ SchedulerRead \/ SchedulerInsert

WorkerStep == Boot \/ Requeue \/ Stop \/ Claim \/ Idle \/ Wait \/ RunStep \/ ScheduleStep

Next == WebStep \/ WorkerStep \/ Crash \/ Signal \/ Tick

Spec == Init /\ [][Next]_vars

\* The worker is a process that the system runs and that systemd restarts, its
\* handlers return (every HTTP call they make has a timeout), and time passes.
\* Nothing is assumed of requests, signals or crashes.
FairSpec == Spec /\ WF_vars(WorkerStep) /\ WF_vars(Tick)

-----------------------------------------------------------------------------
(* Properties. *)

Call ==
    {IdleCall}
    \cup [step : {"insert"}, item : Item, since : Nat]
    \cup [step : {"answered"}, task : Nat, seen : Nat]

\* A scheduled insert, as the properties remember it.
Booking == [task : Nat \ {0}, type : {item.type : item \in Item}, day : Nat]

\* Every variable has its type: the rows of the table, the calls of enqueue, the
\* worker's program counter, its locals and its counters.
TypeOK ==
    /\ tasks \in Seq(Task)
    /\ now \in Nat
    /\ enq \in [Enqueuer -> Call]
    /\ pc \in WorkerPC
    /\ cur \in Nat /\ tries \in Nat /\ left \in Nat /\ nap \in Nat
    /\ shutdown \in BOOLEAN /\ late \in Nat
    /\ job \in 0 .. Len(Jobs) /\ asOf \in Nat /\ booked \subseteq Booking
    /\ crashes \in Nat /\ signals \in Nat

\* While the worker is in run_one, the task it runs is the only row marked
\* running; between tasks no row is.  So requeue_orphans (services/tasks.py),
\* which takes every running row for an orphan, never takes a task from a
\* worker that is at it, and no crash can leave more than one orphan.
RunningIsClaimed ==
    /\ pc \in InRun => WithStatus("running") = {cur}
    /\ pc \notin InRun \cup {"killed", "boot"} => WithStatus("running") = {}
    /\ \A i, j \in WithStatus("running") : i = j

\* Retries are capped by MAX_ATTEMPTS, except that a kill of the worker during
\* an attempt may each time grant the task one attempt more, because the cap is
\* looked at only after an attempt has failed (run_one), never at a claim.
AttemptsBounded ==
    \A id \in TaskIds : tasks[id].attempts <= MaxAttempts + crashes

\* A signal lets at most one more handler call begin, wherever it arrives: in a
\* claim, in a backoff that it cuts short, or between two checks of the flag.
AtMostOneLateAttempt == late <= 1

\* The deadline bounds the retries of one run_one whatever MAX_ATTEMPTS says:
\* the backoffs slept through fit in the time the deadline gave, for as long
\* as no signal has cut one of them short.
BackoffsFitDeadline ==
    pc \in InRun /\ late = 0 /\ tries > 0 => (tries - 1) * Backoff <= Deadline

\* A client whose 202 named a task (an old one, by the deduplication of enqueue,
\* or a new one) gets a sync that began after its request: the task
\* does not succeed on the strength of an attempt made before.
RequestServed ==
    \A c \in Client :
        enq[c].step = "answered" /\ tasks[enq[c].task].status = "success"
            => tasks[enq[c].task].attempts > enq[c].seen

\* The scheduler inserts a task of a type once in a local day, unless the
\* earlier one has failed (scheduler.py: "once per day", "a non-error task").
OncePerDay ==
    \A a, b \in booked :
        /\ a.type = b.type /\ a.day = b.day
        /\ tasks[a.task].status # "error" /\ tasks[b.task].status # "error"
        => a = b

\* Instant u is at or after the given time of the local day of instant v.
SinceTimeOfDay(u, time, v) ==
    \/ LocalDay(u) > LocalDay(v)
    \/ LocalDay(u) = LocalDay(v) /\ TimeOfDay(u) >= time

\* After a pass of check_and_enqueue, every job that was due has its work in the
\* table: a task of its type that has not failed and was created since the job's
\* time of that local day, or its own task still pending.  The zone's clock is
\* assumed not to skip or repeat that time.  (Or the table is at its bound.)
ScheduledWorkPresent ==
    pc = "wait" =>
        \A j \in DOMAIN Jobs : TimeOfDay(asOf) >= Jobs[j].time =>
            \/ \E id \in TaskIds :
                  /\ tasks[id].item.type = Jobs[j].type /\ tasks[id].status # "error"
                  /\ SinceTimeOfDay(tasks[id].created, Jobs[j].time, asOf)
            \/ IdenticalPending(Scheduled(Jobs[j].type)) # {}
            \/ Len(tasks) + Cardinality(Client) >= MaxTasks

\* Every task that is enqueued is run to an end: crashes, restarts, stops and
\* later requests do not make the worker lose or starve it.
EveryTaskSettles ==
    \A id \in 1 .. MaxTasks :
        id \in TaskIds ~> id \in TaskIds /\ tasks[id].status \in Settled

\* A signal ends the process, whatever the worker was doing.
ShutdownEnds == shutdown ~> pc \in Dead

-----------------------------------------------------------------------------
(* The abstract specification.  A row's status is its task's, and work counts *)
(* while the worker that did it is still in run_one.                          *)

LifecycleStatus == [id \in TaskIds |-> tasks[id].status]

Lifecycle == INSTANCE TaskLifecycle WITH status <- LifecycleStatus, worked <- tries > 0

\* The web process, the worker, the scheduler and every crash between them keep
\* what TaskLifecycle promises: one task at a time, an end that is final, and
\* success only after an attempt of the same run that nothing interrupted.
ImplementsLifecycle == Lifecycle!Spec

-----------------------------------------------------------------------------
(* What the documentation says of the queue, and the code does not do. *)

\* worker.py, run_one: a task that can run is dead-lettered when its attempts or
\* its time are spent, and a shutdown leaves it running for the next start.
DeadLetterOnlyWhenSpent ==
    pc = "failing" /\ tasks[cur].item.type \in Registry /\ tasks[cur].item \notin Malformed
        => Exhausted \/ PastDeadline
=============================================================================
