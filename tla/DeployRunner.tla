---------------------------- MODULE DeployRunner ----------------------------
(***************************************************************************)
(* The deploy service (src/deploy): requests for a deploy race for one     *)
(* lock (start_deploy), the winner makes a row and starts a thread that    *)
(* walks the deploy steps (run_deploy), and a restart marks the rows of    *)
(* the process before it as interrupted (recover_orphans).  Each database  *)
(* transaction, each command and each use of the lock is a step.  Any      *)
(* transaction may fail, any command may exit with an error, and the       *)
(* service may be killed at any point.                                     *)
(*                                                                         *)
(* What the steps deploy is a number, the version: `branch` is the head of *)
(* the remote branch, and each part of the installation has the version    *)
(* that it was last brought to.                                            *)
(***************************************************************************)
EXTENDS Naturals, Sequences

CONSTANTS
    Caller,             \* threads that serve POST /deploy and the webhook
    MaxRuns,            \* bound: rows of deployrun
    MaxPushes,          \* bound: commits pushed to the branch
    MaxRestarts,        \* bound: kills of the service
    MaxFaults,          \* bound: failed transactions and commands that raise
    MaxThreadFaults,    \* bound: threads that cannot be started
    NoCommit            \* git_after is null

ASSUME DeployAssumption ==
    /\ MaxRuns \in Nat /\ MaxPushes \in Nat /\ MaxRestarts \in Nat
    /\ MaxFaults \in Nat /\ MaxThreadFaults \in Nat
    /\ NoCommit \notin Nat

RunId == 1 .. MaxRuns

VARIABLES
    runs,           \* the rows, in order of id
    lock,           \* _deploy_lock.locked()
    caller,         \* per request: where start_deploy stands, and its run
    exec,           \* per run: where its thread stands in run_deploy
    service,        \* the process: "down", "boot" (before recover_orphans), "up"
    branch,         \* the version at the head of the remote branch
    installed,      \* per part: its version
    faulty,         \* something failed or raised since the last recovery (history)
    restarts, faults, threadFaults      \* events so far

faultVars == <<faulty, faults, threadFaults>>
vars == <<runs, lock, caller, exec, service, branch, installed, restarts, faultVars>>

\* _steps(): each step brings one part of the installation up to date.  The
\* health check comes after them.
Parts == <<"checkout", "python deps", "node modules", "bundle", "server", "worker">>
HealthCheck == Len(Parts) + 1
Part == {Parts[k] : k \in DOMAIN Parts}

Active == {"pending", "running"}
Ended  == {"success", "error", "interrupted"}

\* A row of deployrun: the results of its steps, without their logs, and the commit
\* it ended on, if known; `wanted` is the head of the branch when it was made (history).
StepStatus == {"success", "error"}
DeployRun == [status : Active \cup Ended, steps : Seq(StepStatus),
              git_after : Nat \cup {NoCommit}, wanted : Nat]

IdleCaller == [at |-> "idle", run |-> 0]
NoThread   == [pc |-> "none", step |-> 0, ok |-> TRUE]

Init ==
    /\ runs = <<>>
    /\ lock = FALSE
    /\ caller = [c \in Caller |-> IdleCaller]
    /\ exec = [r \in RunId |-> NoThread]
    /\ service = "boot"
    /\ branch = 1
    /\ installed = [p \in Part |-> 0]
    /\ faulty = FALSE
    /\ restarts = 0 /\ faults = 0 /\ threadFaults = 0

-----------------------------------------------------------------------------
(* start_deploy. *)

Fault ==
    /\ faults < MaxFaults
    /\ faults' = faults + 1 /\ faulty' = TRUE
    /\ UNCHANGED threadFaults

\* The lock is acquired without waiting.  A request that finds it held is
\* answered 409 and changes nothing.
Request(c) ==
    /\ service = "up" /\ caller[c].at = "idle"
    /\ ~lock
    /\ Len(runs) < MaxRuns
    /\ lock' = TRUE
    /\ caller' = [caller EXCEPT ![c].at = "creating"]
    /\ UNCHANGED <<runs, exec, service, branch, installed, restarts, faultVars>>

NewRun == [status |-> "pending", steps |-> <<>>, git_after |-> NoCommit, wanted |-> branch]

CreateRun(c) ==
    /\ caller[c].at = "creating"
    /\ runs' = Append(runs, NewRun)
    /\ caller' = [caller EXCEPT ![c] = [at |-> "starting", run |-> Len(runs) + 1]]
    /\ UNCHANGED <<lock, exec, service, branch, installed, restarts, faultVars>>

\* except Exception: the INSERT fails, or the refresh after it does.
CreateFault(c) ==
    /\ caller[c].at = "creating"
    /\ Fault
    /\ runs' \in {runs, Append(runs, NewRun)}
    /\ lock' = FALSE
    /\ caller' = [caller EXCEPT ![c] = IdleCaller]
    /\ UNCHANGED <<exec, service, branch, installed, restarts>>

\* Mutant: the lock guards start_deploy only.
StartThreadReleasing(c) ==
    /\ caller[c].at = "starting"
    /\ exec' = [exec EXCEPT ![caller[c].run] = [pc |-> "begin", step |-> 1, ok |-> TRUE]]
    /\ lock' = FALSE
    /\ caller' = [caller EXCEPT ![c] = IdleCaller]
    /\ UNCHANGED <<runs, service, branch, installed, restarts, faultVars>>

\* thread.start(), and the 202.
StartThread(c) ==
    /\ caller[c].at = "starting"
    /\ exec' = [exec EXCEPT ![caller[c].run] = [pc |-> "begin", step |-> 1, ok |-> TRUE]]
    /\ caller' = [caller EXCEPT ![c] = IdleCaller]
    /\ UNCHANGED <<runs, lock, service, branch, installed, restarts, faultVars>>

\* thread.start() raises RuntimeError (no more threads), outside of any try.
ThreadFault(c) ==
    /\ caller[c].at = "starting"
    /\ threadFaults < MaxThreadFaults
    /\ threadFaults' = threadFaults + 1 /\ faulty' = TRUE
    /\ caller' = [caller EXCEPT ![c] = IdleCaller]
    /\ UNCHANGED <<runs, lock, exec, service, branch, installed, restarts, faults>>

-----------------------------------------------------------------------------
(* run_deploy, in the thread of run r. *)

\* The row is marked running.
Begin(r) ==
    /\ exec[r].pc = "begin"
    /\ runs' = [runs EXCEPT ![r].status = "running"]
    /\ exec' = [exec EXCEPT ![r].pc = "command"]
    /\ UNCHANGED <<lock, caller, service, branch, installed, restarts, faultVars>>

\* What a step leaves behind when it succeeds.
After(k) ==
    IF k = HealthCheck THEN installed
    ELSE [installed EXCEPT ![Parts[k]] = IF k = 1 THEN branch ELSE installed["checkout"]]

\* _run_command or _run_healthcheck.  A step that fails, or that its timeout
\* kills, may have done its work all the same.
Command(r) ==
    /\ exec[r].pc = "command"
    /\ \E ok \in BOOLEAN :
         /\ installed' \in {After(exec[r].step)} \cup IF ok THEN {} ELSE {installed}
         /\ exec' = [exec EXCEPT ![r].ok = ok, ![r].pc = "append"]
    /\ UNCHANGED <<runs, lock, caller, service, branch, restarts, faultVars>>

Outcome(r) == IF exec[r].ok THEN "success" ELSE "error"

AppendedStep(r) == runs' = [runs EXCEPT ![r].steps = Append(@, Outcome(r))]

\* Mutant: a failed step does not stop the deploy.
AppendGoingOn(r) ==
    /\ exec[r].pc = "append"
    /\ AppendedStep(r)
    /\ exec' = IF exec[r].step < HealthCheck
               THEN [exec EXCEPT ![r].step = @ + 1, ![r].pc = "command"]
               ELSE [exec EXCEPT ![r].pc = "finish"]
    /\ UNCHANGED <<lock, caller, service, branch, installed, restarts, faultVars>>

\* Mutant: the health check counted among the steps that another one follows.
AppendPastEnd(r) ==
    /\ exec[r].pc = "append"
    /\ AppendedStep(r)
    /\ exec' = IF exec[r].ok /\ exec[r].step <= HealthCheck
               THEN [exec EXCEPT ![r].step = @ + 1, ![r].pc = "command"]
               ELSE [exec EXCEPT ![r].pc = "finish"]
    /\ UNCHANGED <<lock, caller, service, branch, installed, restarts, faultVars>>

\* _append_step, and on to the next step or to _finish.
AppendStep(r) ==
    /\ exec[r].pc = "append"
    /\ AppendedStep(r)
    /\ exec' = IF exec[r].ok /\ exec[r].step < HealthCheck
               THEN [exec EXCEPT ![r].step = @ + 1, ![r].pc = "command"]
               ELSE [exec EXCEPT ![r].pc = "finish"]
    /\ UNCHANGED <<lock, caller, service, branch, installed, restarts, faultVars>>

\* _git_sha: the commit checked out, or None if git exits with an error, cannot be
\* started or takes too long.
GitSha == {installed["checkout"], NoCommit}

\* _finish, with the outcome of the last step and what _git_sha says.  (None leaves
\* the column as it is, which is null.)
Finish(r) ==
    /\ exec[r].pc = "finish"
    /\ \E sha \in GitSha :
         runs' = [runs EXCEPT ![r].status = Outcome(r), ![r].git_after = sha]
    /\ exec' = [exec EXCEPT ![r].pc = "release"]
    /\ UNCHANGED <<lock, caller, service, branch, installed, restarts, faultVars>>

\* finally: _deploy_lock.release(), and the thread ends.
Release(r) ==
    /\ exec[r].pc = "release"
    /\ lock' = FALSE
    /\ exec' = [exec EXCEPT ![r] = NoThread]
    /\ UNCHANGED <<runs, caller, service, branch, installed, restarts, faultVars>>

\* Mutant: no finally, an exception ends the thread with the lock held.
RaiseLeaking(r) ==
    /\ exec[r].pc \in {"begin", "command", "append", "finish"}
    /\ Fault
    /\ exec' = [exec EXCEPT ![r] = NoThread]
    /\ UNCHANGED <<runs, lock, caller, service, branch, installed, restarts>>

\* A transaction of the thread fails and is rolled back, or a command raises
\* what _run_command does not catch (output that does not decode).
Raise(r) ==
    /\ exec[r].pc \in {"begin", "command", "append", "finish"}
    /\ Fault
    /\ installed' \in {installed} \cup IF exec[r].pc = "command" THEN {After(exec[r].step)} ELSE {}
    /\ exec' = [exec EXCEPT ![r].pc = "release"]
    /\ UNCHANGED <<runs, lock, caller, service, branch, restarts>>

-----------------------------------------------------------------------------
(* The process. *)

\* systemd starts it: the lock is new, and no thread runs.
Start ==
    /\ service = "down"
    /\ service' = "boot"
    /\ UNCHANGED <<runs, lock, caller, exec, branch, installed, restarts, faultVars>>

\* Mutants of recover_orphans: only started runs, failed runs too, none.
InterruptRunning ==
    runs' = [r \in DOMAIN runs |->
               IF runs[r].status = "running" THEN [runs[r] EXCEPT !.status = "interrupted"]
               ELSE runs[r]]
InterruptUnsuccessful ==
    runs' = [r \in DOMAIN runs |->
               IF runs[r].status # "success" THEN [runs[r] EXCEPT !.status = "interrupted"]
               ELSE runs[r]]
InterruptNone == UNCHANGED runs

InterruptActive ==
    runs' = [r \in DOMAIN runs |->
               IF runs[r].status \in Active THEN [runs[r] EXCEPT !.status = "interrupted"]
               ELSE runs[r]]

\* lifespan: recover_orphans, before the first request is served.
RecoverOrphans ==
    /\ service = "boot"
    /\ InterruptActive
    /\ service' = "up" /\ faulty' = FALSE
    /\ UNCHANGED <<lock, caller, exec, branch, installed, restarts, faults, threadFaults>>

\* The process is killed (or fails in its startup): its threads go with it.
Kill ==
    /\ service # "down"
    /\ restarts < MaxRestarts
    /\ restarts' = restarts + 1
    /\ service' = "down"
    /\ lock' = FALSE
    /\ caller' = [c \in Caller |-> IdleCaller]
    /\ exec' = [r \in RunId |-> NoThread]
    /\ UNCHANGED <<runs, branch, installed, faultVars>>

\* A commit is pushed to the branch.
Push ==
    /\ branch <= MaxPushes
    /\ branch' = branch + 1
    /\ UNCHANGED <<runs, lock, caller, exec, service, installed, restarts, faultVars>>

-----------------------------------------------------------------------------
CallerStep(c) == CreateRun(c) \/ StartThread(c)
CallerFault(c) == CreateFault(c) \/ ThreadFault(c)
ThreadStep(r) == Begin(r) \/ Command(r) \/ AppendStep(r) \/ Finish(r) \/ Release(r)
Serve == Start \/ RecoverOrphans

Next ==
    \/ \E c \in Caller : Request(c) \/ CallerStep(c) \/ CallerFault(c)
    \/ \E r \in RunId : ThreadStep(r) \/ Raise(r)
    \/ Serve \/ Kill \/ Push

Spec == Init /\ [][Next]_vars

\* The service is a process that systemd restarts; its threads run, and their
\* commands return, for each has a timeout.  Whether a step succeeds is open.
FairSpec ==
    /\ Spec
    /\ WF_vars(Serve)
    /\ \A c \in Caller : WF_vars(CallerStep(c))
    /\ \A r \in RunId : WF_vars(ThreadStep(r))

-----------------------------------------------------------------------------
(* Properties. *)

\* Every variable has its type.
TypeOK ==
    /\ runs \in Seq(DeployRun) /\ Len(runs) <= MaxRuns
    /\ lock \in BOOLEAN /\ faulty \in BOOLEAN
    /\ caller \in [Caller -> [at : {"idle", "creating", "starting"}, run : 0 .. MaxRuns]]
    /\ exec \in [RunId -> [pc : {"none", "begin", "command", "append", "finish", "release"},
                           step : 0 .. HealthCheck, ok : BOOLEAN]]
    /\ service \in {"down", "boot", "up"}
    /\ branch \in Nat /\ installed \in [Part -> Nat]
    /\ restarts \in Nat /\ faults \in Nat /\ threadFaults \in Nat

Alive(r) == exec[r].pc # "none"
Requesting(c) == caller[c].at # "idle"

\* One deploy at a time (runner.py): of all request threads past the lock and
\* all deploy threads there is at most one, and it holds the lock.
OneDeployAtATime ==
    /\ \A c \in Caller : Requesting(c) => lock /\ \A r \in RunId : ~Alive(r)
    /\ \A r \in RunId : Alive(r) => lock
    /\ \A c, d \in Caller : Requesting(c) /\ Requesting(d) => c = d
    /\ \A r, s \in RunId : Alive(r) /\ Alive(s) => r = s

\* A thread is at run r: its own, or the one that is about to start that.
Attended(r) == Alive(r) \/ \E c \in Caller : caller[c].at = "starting" /\ caller[c].run = r

\* A run that the dashboard shows as pending or running is being worked on, for
\* as long as nothing has raised since the service started: a restart leaves no
\* row of the process before it active.
ActiveRunsAttended ==
    service = "up" /\ ~faulty =>
        \A r \in DOMAIN runs : runs[r].status \in Active => Attended(r)

\* A run that ended in success recorded every step as successful, and left each
\* part of the installation at the head that the branch had when the deploy was
\* asked for, or a later one; and git_after, if it is known, tells no less than was
\* asked for and no more than is installed.
SuccessIsInstalled ==
    \A r \in DOMAIN runs : runs[r].status = "success" =>
        /\ runs[r].steps = [k \in 1 .. HealthCheck |-> "success"]
        /\ \A p \in Part : runs[r].wanted <= installed[p]
        /\ runs[r].git_after # NoCommit =>
              /\ runs[r].wanted <= runs[r].git_after
              /\ \A p \in Part : runs[r].git_after <= installed[p]

\* The record of a run that has ended is never changed again, by a thread that
\* outlives it or by a recovery.
EndedIsFinal ==
    [][\A r \in DOMAIN runs : runs[r].status \in Ended => runs'[r] = runs[r]]_vars

\* Every run ends, or is marked interrupted after the restart that cut it off,
\* unless something raised.
RunsSettle ==
    \A r \in RunId :
        r \in DOMAIN runs /\ runs[r].status \in Active
            ~> faulty \/ (r \in DOMAIN runs /\ runs[r].status \in Ended)

\* However a deploy ends, and also when it raises, the next one can start, unless
\* a thread could not be started.
LockIsReleased == lock ~> ~lock \/ threadFaults > 0

\* The statuses of the runs behave as whoever reads them may expect: whatever was
\* killed or has raised, only the newest run goes forward, step by step.
Lifecycle == INSTANCE DeployLifecycle WITH
    Results <- StepStatus, status <- [r \in DOMAIN runs |-> runs[r].status]
ImplementsDeployLifecycle == Lifecycle!Spec

-----------------------------------------------------------------------------
(* runner.py: the lock is "held for the lifetime of the executor thread", and *)
(* a 409 tells the caller that "a deploy is already running".                 *)

\* Whenever a request would be refused, some thread is at a deploy.
RefusedOnlyDuringDeploy ==
    lock => (\E c \in Caller : Requesting(c)) \/ (\E r \in RunId : Alive(r))
=============================================================================
