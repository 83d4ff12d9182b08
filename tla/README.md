# Monohelper: formal models, checks and proofs

Monohelper syncs Monobank accounts and transactions into SQLite and reports on them month by
month. This directory holds TLA+ models of its two concurrent cores, the task queue with its
worker and the deploy service; of the sync that the worker's tasks run and of the report made
from what it stores; and of the page that shows deploys. With them come the TLC configurations
that check them, and TLAPS proofs of their main properties.
Paths below are those of the repository (`src/` is its Python code).

## 1. The system

| Component | State | Operations | Modelled in |
|---|---|---|---|
| Task table (`src/models.py`, `src/services/tasks.py`) | rows `task`: type, payload, status, attempts, created_at | `enqueue`, `claim_next`, `mark_running_attempt`, `complete`, `fail`, `requeue_orphans` | `TaskTable` |
| Sync endpoints (`src/routers/sync.py`) | none of their own; a thread per request | `POST /sync/accounts`, `POST /sync/transactions` | `Worker` |
| Worker (`src/worker.py`) | the claimed task, its deadline, the shutdown flag | `run_loop`, `run_one`, signal handlers | `Worker` |
| Scheduler (`src/scheduler.py`), called in the worker's idle polls | none: it asks the task table and the clock | `check_and_enqueue` | `LocalTime`, `Worker` |
| Deploy service (`src/deploy/`) | `_deploy_lock`, rows `deployrun`, a thread per deploy | `start_deploy`, `run_deploy`, `recover_orphans` | `DeployRunner`, `DeployLifecycle` |
| Sync service (`src/services/sync_service.py`, `src/jobs/`) | rows `account`, `transaction` | `sync_accounts`, `sync_transactions` | `SyncService`; window and columns in `JarLedger`; outcomes in `Worker` |
| Monthly report (`src/routers/reports.py`) | none | a computation over a month of transactions | `MonthlyReport` |
| Admin page (`src/admin.py`) | the column `is_budget` of `account` | `toggle_budget` | `JarLedger` |
| Deploy dashboard (`src/deploy/static/index.html`) | `currentId`, `pollTimer`, what is shown | trigger, refresh, poll, open a run | `DeployDashboard` |
| React front end, data endpoints, other admin views, application shell | none, or rows one at a time | | not modelled (section 7) |

How they interact. The web process and the worker are two operating system processes that
share nothing but the SQLite file: the web process only inserts tasks, the worker does
everything else to them. The scheduler runs inside the worker. The deploy service is a third
process with a database of its own; it restarts the other two, which the worker model sees
as a signal or a kill followed by a start. Its dashboard knows it through three requests only:
start a deploy, list the runs, read a run. The admin page lives in the web process and writes
rows of `account` that the worker's sync writes as well; the report reads both tables.

Where it is hard:

- the statements of two processes interleave; `enqueue` reads and inserts in two statements;
- the worker may be killed between any two commits, and its shutdown flag is read at a few
  places only;
- retries are bounded by a count that survives a crash and by a deadline that does not;
- the scheduler decides from the wall clock of a time zone whose offset changes;
- a deploy is a chain of commands, any of which may fail half way, in a thread that may die,
  under a lock that passes from the request thread to it;
- Monobank limits the rate of requests per token, so a sync sleeps, and what it had committed
  before it was cut off stays;
- the balance of an account and its transactions are brought up to date by two handlers, at two
  times, and a report uses both; a toggle of the admin page may fall between the reads of a
  sync and its commit;
- answers to the dashboard fail and overtake each other while the user turns to other runs.

What makes each component correct:

- queue: one task at a time; an end is final; success means a whole attempt; no task is lost;
  a request that was answered gets work that began after it;
- retries: bounded in number and in time; a signal stops them;
- scheduler: a job once a local day, and not missing once it was due;
- deploys: one at a time; the record of a run tells the truth, whenever the service dies;
  a success means that everything was installed; the lock comes back;
- sync: a result accounts for every user or account; the waits are long enough for the rate
  limit; every call ends;
- reports: a month is reported once; what one report starts from and moves is what the next one
  starts from, whenever the syncs ran; a toggle is not lost to a sync;
- dashboard: it does not come to rest on anything but the end of the run it is to show.

## 2. The modules

    LocalTime   TaskTable  TaskLifecycle        MonthlyReport        SyncService
          \       |          : refines              |               /          \
           +--- Worker --------+                  JarLedger   MCSyncService  SyncProofs
                /     \                           /       \
          MCWorker  WorkerProofs          MCJarLedger  LedgerProofs
                                                            |
                                                      ReportProofs

               DeployLifecycle
             : refines      : its service is an instance
        DeployRunner          DeployDashboard
          /      \                   |
    MCDeployRunner  DeployProofs   DashboardProofs

`TaskLifecycle` and `DeployLifecycle` are the abstract specifications.

- `LocalTime`: UTC instants and the wall clock of a zone with one transition, converted by
  the rules of zoneinfo, gap and fold included; and `check_and_enqueue`'s cutoff.
- `TaskTable`: the rows and one definition per statement of `services/tasks.py`. A row's index
  is its id. Statements are atomic: each is one SQLite transaction, writers wait for each
  other (`busy_timeout`), readers see the last commit (WAL).
- `Worker`: the request threads, the worker with its program counter, the scheduler inside
  it, kills, signals and the clock.
- `TaskLifecycle`: what the queue promises, without processes: tasks arrive, one at a time is
  started, work is done on it, it succeeds, is given up, or is interrupted and goes back.
- `SyncService`: one handler call after another, the bank with its rate limit, other programs at
  the same tokens, calls that are cut off. `MCSyncService` and `SyncProofs` go with it.
- `MonthlyReport`: `_month_unix_range` and the numbers that `get_monthly_report` computes for
  one jar, as operators on a set of rows.
- `JarLedger`: the bank, the two syncs as far as they write what a report reads, and the
  admin page's toggle.
- `DeployRunner`: callers racing for the lock, deploy threads, the process, pushes.
- `DeployLifecycle`: what the service promises to a reader of its runs: a list in which only the
  newest goes forward, restarts interrupt, and ends are for good. `DeployRunner` implements it.
- `DeployDashboard`: one browser tab against a service that behaves as `DeployLifecycle` says;
  so what is shown of it holds with `DeployRunner` in its place.
- `MCWorker`, `MCSyncService`, `MCJarLedger`, `MCDeployRunner`: values of the constants for TLC,
  nothing else. The values of `DeployDashboard` fit in its configurations.
- `WorkerProofs`, `SyncProofs`, `LedgerProofs`, `ReportProofs`, `DeployProofs`, `DashboardProofs`:
  the theorems. `ReportProofs` has those about the sums in a report.

### Worker and the code

`pc` names the statement the worker is about to execute:

| pc | in the code |
|---|---|
| `boot` | before `requeue_orphans` in `run_loop` |
| `poll` | `while not _shutdown.is_set()` and `claim_next` |
| `attempt`, `handling`, `completing`, `failing`, `sleeping` | in `run_one`: `mark_running_attempt`, the handler, `complete`, `fail`, the backoff |
| `check`, `sched`, `enqueue`, `insert` | in `check_and_enqueue`: reading the clock, one job's decision, `enqueue`'s SELECT, its INSERT |
| `wait` | `_shutdown.wait(POLL_INTERVAL)` |
| `killed`, `stopped` | the process is gone, by a kill or by the end of the loop |

`cur`, `left`, `nap` are `task_id`, the time to `deadline`, and the backoff still to sleep;
`tries` counts the attempts of this call of `run_one`. `asOf` is the scheduler's `now`. Three
variables record history and guide nothing: `late` (attempts begun since the signal),
`booked` (the scheduler's inserts) and the task id and attempt count that an answered caller
keeps in `enq`.

Choices that matter:

- A handler returns, raises `ValidationError` (for items in `Malformed`, which the API
  refuses but an earlier release may have left in the table) or raises something else, at
  any time. `complete` stands in the same `try` as the handler, so it may raise as well.
- An exception that leaves the loop (from `fail`, from `mark_running_attempt`, from the
  scheduler) ends the process, and systemd starts it again: it is `Crash`.
- `created_at` is stamped when the `Task` object is made and becomes visible with the INSERT
  later: `PostSyncInsert` picks a time between the two statements.
- Ids come from SQLite's rowid without AUTOINCREMENT; no code deletes tasks, so an id is the
  index of its row.

### DeployRunner and the code

`lock` is `_deploy_lock`, `caller` a thread inside `start_deploy`, `exec` a thread inside
`_run_and_release`, `runs` the rows. What the commands deploy is a version number: `git pull`
brings the checkout to the head of the branch, every other command brings its part
(dependencies, bundle, server, worker) to what is checked out. A command that fails or is
killed by its timeout may have done its work all the same. Any transaction may fail, and a
command may raise although `_run_command` says "Never raises" (its output is decoded as
text); the step counts as failed then. `faulty` remembers that something raised since the
last recovery, `wanted` what the branch head was when the run was asked for. `git_after` is what
`_git_sha` says at the end of a run; git may fail there or take too long, and then the column stays
null (`NoCommit`), after a success as well as after an error.

### SyncService and the code

`pc` stands at the `for` loop (`loop`), at `requests.get` (`ask`), in `time.sleep(60)` (`backoff`),
before the commit (`commit`) or in the `time.sleep(1)` after a statement (`pacing`). Both sleeps are
counts of ticks, `RateWait` and `Pace`, that `pause` counts down; a request and a commit may take any
number of ticks. `slept` is history: the ticks slept in this call while no other program used the
tokens. `todo`, `at`, `tries` are what the loop has left, the user or
account of this round, and `range(2)`; `processed` and `failed` are the counts and `errors`, and
`skipped` the accounts that are in neither. A user's data at the bank is the number of operations
made so far. A statement reaches up to `to_time`, which was read at the start of the call (`asOf`);
the answer to `client-info` is as of the request. `session.merge` never removes a row, so a
statement only grows. The bank answers 429 for `Cooldown` ticks after a request of the same kind
with the same token; that number is Monobank's, and `Cooldown <= RateWait` says that the 60
seconds slept are enough for it. Any request may be refused with another error. What the worker
does with an exception is in `Worker`; here it is `Abort`, and the retry is a new `Call`. A
`user_id` that no row has is `Stranger`, for which the handler returns at once.

### JarLedger, MonthlyReport and the code

A jar at the bank is the sequence of its operations, each with its second, its amount and the
balance after it, which is what a row of `transaction` has. `upsert` is `sync_accounts` between
`session.get` and `session.commit`, `toggle` is `toggle_budget` between the same two. SQLAlchemy
writes the columns that were set, and that is what `CommitAccounts` and `CommitFlags` do: each
takes the other columns from the row as it is, not as it was read. `toggle_budget` is a coroutine
without an `await`, so two toggles do not overlap; the worker is another process, so a sync and a
toggle do. A statement holds the operations from `to_time - days` to `to_time`; `to_time` may be
a tick old when the bank answers. `covered` is history: the span of the last statements that
followed each other without a gap. Rows of a month are ordered by their second alone, so
`StartBalances` is a set, with a member for each row that may come first. `toggled` is history.
Months are days of the calendar in `FirstDay`, and times are seconds of UTC as in the code;
`ZoneOffset` appears in the property of `report_tz` only. Rows are not deleted: the admin page's
delete button, and changes of an operation after it was stored (`hold`), are not modelled.

### DeployDashboard and the code

`currentId` and `polling` (`pollTimer`) are the page's variables, `panel` what `renderCurrent` has
shown last, `polls` the requests `GET /deploys/{id}` in flight: `read` is `Unread` until the
service has looked up the row, and then what it found. Each may be read, answered and fail in any
order; `load` marks the one of the initial load, whose continuation differs. `refreshing` is the
request for the history; several in flight count as one whose answer may be any moment's, since
they only set `listed`, and `currentId` while it is still null. `accepted` is the run of a 202 that has not
arrived: the button is disabled until then. `overtaken` is history: a question was read before an older
one, answered before an older one, or answered for a run that is no longer the current one. The answers
401 and 503 and the token prompt change nothing that is modelled. The history shows 15 runs;
the instance has fewer.

## 3. Runs

| Run | Shows |
|---|---|
| `worker` | `RunningIsClaimed`, `AtMostOneLateAttempt`, `BackoffsFitDeadline`, `RequestServed`, the refinement of `TaskLifecycle`, and that every task settles and a signal ends the process (`EveryTaskSettles`, `ShutdownEnds`), with two request threads, left-over tasks of an unknown type and with a malformed payload, a kill and a signal |
| `worker_schedule` | `TypeOK`, `AttemptsBounded`, `OncePerDay`, `ScheduledWorkPresent` with two jobs, a local midnight, the hour that the zone's clock repeats in the day after it, a client that syncs by hand, and a kill |
| `worker_dead_letter`, `worker_gap` | one counterexample each to a sentence of the documentation (section 4) |
| `sync_jobs` | `TypeOK`, `ResultIsComplete`, `NothingSkippedAlone`, `SleepBounded`, `CallsEnd` with two accounts of one token, a user without accounts, every kind of answer, another program, and calls cut off |
| `sync_errors` | a counterexample (section 4) |
| `jar_reports` | `TypeOK`, `TogglesAreKept`, `NothingIsMissed`, `ReportsChain` with a jar, three operations, three months, and syncs and toggles at any time |
| `report_tz` | a counterexample (section 4) |
| `deploy` | `TypeOK`, `OneDeployAtATime`, `ActiveRunsAttended`, `SuccessIsInstalled`, `EndedIsFinal`, `RunsSettle`, `LockIsReleased` and the refinement of `DeployLifecycle` with two callers, two runs, a push, a kill, a failing transaction, a thread that does not start |
| `deploy_lock_leak` | a counterexample (section 4) |
| `dashboard` | `TypeOK`, `RestsOnTheEnd`, `EndIsShown` with two runs, two questions in flight, a failed answer |
| `dashboard_race` | a counterexample (section 4) |

Bounds, and why they are enough. `MaxTasks` 3 or 4: besides what is left over, two rows to compete for the
order of the queue and for the scheduler's decision, so that one arrives late. `MaxAttempts` 1 to 3 and a
`Deadline` of one or two backoffs: either limit is reached first in some behaviour.
`MaxCrashes` 1: the row that a crash leaves is all that survives it, and the theorems take any number. `MaxSignals` 1 per run. `MaxTime` 4 with
`DayLength` 3: the last tick of one local day and the whole of the next, which has four, for the clock goes back
by one within it; both jobs are due at the first and again on the next day, one before and one after the change. At the bound of the
clock the countdowns go on, so that a backoff always ends. A request that would not fit in the table is not
made (`Room`), which is a limit of the instance and not of the code. For deploys, two runs allow one
to end or to be cut off and one to follow, with `MaxFaults` and `MaxThreadFaults` 1. For the sync, two
accounts of one token are what the rate limit needs, two users what an error in one round may do
to the next, and two operations tell old data from new. `Cooldown` and `RateWait` are 2 and `Pace` is 1, the
least numbers for which the second after a statement is shorter than the cooldown, so that the next account of the
token is limited, and the sleep after a 429 is not. For the reports, months of one, two and one days of two
ticks have a first and a last second each and one that is neither; three operations are enough for two in a month and one in
another, with a month in between; a window of three ticks makes both a sync that reaches back into the last month and
one that comes too late. For the dashboard two runs are one to turn from and one to turn
to, and two questions in flight are what it takes to overtake.

Deadlock is checked in the worker's runs, in those of the sync and in those of the ledger, where something
can always go on. In those of the deploy service and the dashboard it is not: they wait for
requests, and at the bounds no request is left; a leaked lock stops every deploy as well,
and that is the subject of a run of its own.

Fairness. `WorkerStep` is weakly fair: the worker is a process that runs, that systemd starts
again whatever ended it (`Restart=always`), and whose handlers return, for every HTTP call
they make has a timeout (30 and 60 seconds) and their loops are over finite lists. `Tick` is weakly fair: time
passes. The deploy service's threads and its startup are weakly fair: commands have a timeout
of 600 seconds, the health check 20 tries. So is a sync handler, whose requests have timeouts and
whose sleeps are finite. The dashboard's timer is weakly fair, and so are the service that
reads a row and the network that answers, as long as `MaxFailures` answers at most are lost; without a bound on
lost answers no page shows anything. Nothing is assumed of requests, signals, pushes,
kills or failures, and which outcome a handler or a command has is left open. An operator who
stops the worker for good is not modelled: a stopped worker is started again.

## 4. What the code does that its documentation does not say

- `worker_dead_letter`: a signal during an attempt that fails dead-letters the task
  (`src/worker.py:126`), while the docstring says that it stays running and is requeued.
- `worker_gap`: a job timed in the hour that a change of the clock skips is enqueued more than
  once that day (and so is one in the hour that the change back repeats, for the same
  `now.replace`: set `Transition = 2`, `OffsetBefore = 3`, `OffsetAfter = 1` in the run). The shipped times, 22:00 and 23:00 in
  Europe/Kyiv, are far from its changes; a zone that changes at midnight is not.
- `sync_errors`: an error of Monobank, or two answers 429, end in a result that the worker records
  as a success; only exceptions are retried. What holds instead is `ResultIsComplete`.
- `deploy_lock_leak`: if the deploy thread cannot be started, the lock is never released.
- `dashboard_race`: the answer about a run that has ended arrives after the user has turned to a
  run that goes on; it takes the other's place and stops the timer (`src/deploy/static/index.html:218`).
  What holds instead is `RestsOnTheEnd`, for answers that arrive in order.
- `report_tz`: the months of a report are those of UTC (`src/routers/reports.py:41`);
  `REPORT_TIMEZONE` is read into a setting (`src/config.py:16`) that nothing uses. What holds instead is `ReportsChain`: no operation is lost between two reports.

Three more that follow from properties which hold, and have no run of their own:

- A kill during the last attempt gives the task one more than `WORKER_MAX_ATTEMPTS`, "max handler
  attempts" (`.env.example:22`): `AttemptsBounded` has the cap plus the kills.
- Two requests that overlap may leave two identical pending tasks, which `enqueue`'s docstring
  (`src/services/tasks.py:25`) excludes: `RequestServed` says that each gets its sync all the same.
- `systemd/cloudapi-worker.service` has `TimeoutStopSec=300`, "long enough for one in-flight sync
  pass". `SleepBounded` is the bound of the code, a minute for each account and a second for each that
  was stored; and every account but the first of a token comes too early for a bank that wants a minute between
  requests and answers at once. So a pass over six accounts of one token sleeps for 306 seconds. This
  counts sleeps only: each request may take up to its own timeout of 60 seconds on top, which makes a pass
  over fewer accounts as long. A stop in the middle is then a kill, which the queue survives.

## 5. What is proved

TLAPS checks the following for every value of the constants that the assumptions admit:
any set of clients, any table of items, any schedule, any cap, backoff and deadline,
any number of kills, signals, runs, jars and pushes, and any calendar.

| Theorem | Property |
|---|---|
| `TypeCorrect` | `TypeOK` of Worker, with what the ids and positions point at (`ClaimFits`, `ScheduleFits`, `CallsFit`) |
| `OneTaskAtATime` | `RunningIsClaimed` |
| `AttemptsAreBounded` | `AttemptsBounded` |
| `OneLateAttempt` | `AtMostOneLateAttempt` |
| `DeadlineBoundsBackoffs` | `BackoffsFitDeadline` |
| `EveryAnswerIsServed` | `RequestServed` |
| `WorkerImplementsLifecycle` | `ImplementsLifecycle` (initial states and every step) |
| `ScheduledOncePerDay` | `OncePerDay`, in a zone that does not skip or repeat the time of a job |
| `ScheduledWorkIsPresent` | `ScheduledWorkPresent`, in such a zone |
| `ScheduledSinceIsExact` | `scheduled_since` is the instant at which the wall clock shows the job's time |
| `DeployTypes` | `TypeOK` of DeployRunner |
| `DeploysAreExclusive` | `OneDeployAtATime` |
| `EndedRunsAreFinal` | `EndedIsFinal` |
| `NoRunIsForgotten` | `ActiveRunsAttended` |
| `SuccessesAreInstalled` | `SuccessIsInstalled` |
| `DeployImplementsLifecycle` | `ImplementsDeployLifecycle` (initial states and every step) |
| `SyncTypes` | `TypeOK` of SyncService |
| `NothingIsSkippedAlone` | `NothingSkippedAlone` |
| `ResultsAreComplete` | `ResultIsComplete` |
| `SleepsAreBounded` | `SleepBounded` |
| `LedgerTypes` | `TypeOK` of JarLedger |
| `TogglesAreNeverLost` | `TogglesAreKept` |
| `NothingIsEverMissed` | `NothingIsMissed` |
| `ReportsFollow` | `ReportsChain` |
| `DashboardTypes` | `TypeOK` of DeployDashboard |
| `RestsOnlyOnTheEnd` | `RestsOnTheEnd` |
| `ReportsAreDisjoint` | no row is in the reports of two months |

Assumptions: `LocalTimeAssumption`, `WorkerAssumption`, `SchedulerAssumption`,
`DeployAssumption`, `SyncAssumption`, `CalendarAssumption`, `LedgerAssumption`,
`DashboardAssumption`, all evaluated by TLC for each instance. The longest is
`WorkerAssumption`; it says that what clients ask for and what the schedule makes are items,
that the numbers are natural, and that no two jobs have the same type, which `_parse_schedule`
guarantees. It says besides that there are finitely many clients, for `Room` counts those in
the middle of a request.
The theorems about the schedule have a hypothesis besides, `JobsShownOnce`: the change of the zone's
clock does not skip or repeat a wall time at which a job is set. Jobs at other times of that day are not restricted,
nor is the size or the direction of the change. The shipped schedule in Europe/Kyiv satisfies it, so
does the instance of `worker_schedule`, and without it `OncePerDay` is false, as `worker_gap` shows.
`SyncAssumption` says that the cooldown is no longer than the sleep, which only
`NothingIsSkippedAlone` and `SleepsAreBounded` need. `CalendarAssumption` says that months follow each other.

The arguments. None of the properties is inductive alone.

- Worker types need to know that the claimed id, the scheduler's job and the answered ids
  point at something (`ClaimFits`, `ScheduleFits`, `CallsFit`).
- `AttemptsBounded` needs a strict bound wherever an attempt may still begin: a pending row, or
  one that a kill left, is *below* cap plus kills, for a kill that interrupts an attempt raises
  the bound by the one attempt that it costs.
- `AtMostOneLateAttempt` follows from where the program counter may be once an attempt has
  begun after the signal: on its way out.
- `BackoffsFitDeadline` carries the budget: backoffs slept so far, plus what is left of the
  deadline, plus what is left of the nap, never exceed the deadline.
- `RequestServed` needs that a row promised to a client has either not been attempted more
  than the client saw and is not yet successful, or has; and `RunningIsClaimed`, to know that
  the attempt counted is that of the row which is completed.
- The refinement maps `worked` to `tries > 0`, so it needs that an end in success is reached
  with `tries > 0`.
- `OncePerDay` needs that the cutoff of a job depends on the local day only (`ScheduledSinceIsExact`:
  the instants from it on are those at which the clock has reached the job's time of that day, on either side
  of the zone's change), that every booked row was created at or after the cutoff of its day, and
  that the scheduler, once it has decided, is the only one that books.
- `ScheduledWorkPresent` speaks of the end of a pass; `PassInv` says the same, during the pass, of the
  jobs that the loop has left behind. It stays true because rows are only added while the worker is in
  its scheduler: what could fail, no one is running. A job that is passed over has a row since
  `scheduled_since`, and that this row is of today, on the clock, is `ScheduledSinceIsExact` once more.
- `SuccessIsInstalled` carries the progress of the thread: after `n` successful steps the
  first `n` parts have at least the wanted version, and every part at least the version of
  any success before, because versions only rise. What was installed is said of the parts, and of
  `git_after` only where git could tell it.
- `NothingSkippedAlone` carries the race of the two clocks: during the sleep after a first 429
  the cooldown that is left is at most the sleep that is left, and a second request finds it 0.
- `ResultIsComplete` accounts for each target at every moment of a call: still to be visited,
  being visited, done, or given up; and an answer that waits for its commit is as new as the call.
- `SleepBounded` rests on the same race: a second request is not limited, so a round waits once,
  and the budget grows by one wait with each round that begins and by one `Pace` with each statement
  stored, which happens once for an account.
- The refinement of `DeployLifecycle` needs that the row which a thread or a request is at is the
  newest one: rows that a failure left active lie behind it, and nothing writes them but a restart.
- `TogglesAreKept` needs that the toggle in progress has read flags that are still those of the
  rows, and that the row which a sync is about to insert is not there yet: only then are
  columns the unit of writing.
- `NothingIsMissed` needs that no span ends after the present: then an operation, which is made now, is
  outside of it until a statement brings it in.
- `ReportsChain` needs `BankInv`, that each operation's balance is the one before it plus its amount and
  that seconds only rise. Then the rows of a month of which it is clear what comes first are a run of the bank's operations, from `a` to
  `b`; their sum telescopes to the difference of two balances (`SegmentTotal`), and the next report starts
  from what `b` left, be it by its own first row or, without rows, by the balance of the account.
  A sum is a fold over a finite set, and that it does not depend on the order (`TotalAnyOrder`) is the one induction of the project.
- `RestsOnTheEnd` needs that the questions which were read are the oldest ones, and that after the end
  of a run was read or shown no question about it is read as active; so the answer that stops the
  timer is not followed by one that would have to start it again. `PageInv` says so only of behaviours in
  which no answer has overtaken another; the rest of it holds of all.

Induction. The library's induction theorems take a predicate as a parameter, which the provers cannot
instantiate. `ReportProofs` states the principles it needs with a set in the predicate's place: `SubsetInduction`, from
the library's fact that strict inclusion is well-founded on the subsets of a finite set, and
`IntervalInduction` over `a .. b`.

Only model-checked: the liveness properties (`EveryTaskSettles`, `ShutdownEnds`, `RunsSettle`,
`LockIsReleased`, `CallsEnd`, `EndIsShown`), which rest on fairness and ENABLED. Every invariant
and every action property of a passing run is a theorem. That the sums of a report do not
depend on the order is proved; how a report splits what moved into its budget and what was spent of it
is not, for the two cancel in `ReportsChain`; that `StartBalances` has one member when months begin with two operations
of one second is not claimed (section 2).

## 6. Plan

Done: the queue, the worker, the scheduler, the deploy runner, the sync service, the ledger with its
reports, and the dashboard, each with its safety properties proved. Next, in this order:

1. The composition of a deploy with the worker: the step "restart worker" as a signal and, after
   `TimeoutStopSec`, a kill; no task that a deploy interrupts is lost.
2. The composition of the worker with the sync: a sync of one user, asked for by hand, suppresses
   the scheduled one of everyone.

## 7. Not modelled, and why

- The data endpoints (`src/routers/users.py`, `accounts.py`, `transactions.py`, `tasks.py`): reads
  and single-row writes; the race in `create_user` ends in an error answer and no bad state.
- Admin views but for `toggle_budget`, static files, prefix handling, API key and deploy token checks, configuration,
  logging: stateless. The edit and delete forms of the admin page are the SQLAdmin library's.
- The React front end: it renders what the API says, through a library that is not part of
  the repository.
- The Monobank API, SQLite, systemd, git, npm: external; they appear as the outcomes that the
  code can see.
