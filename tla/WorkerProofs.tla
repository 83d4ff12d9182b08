---------------------------- MODULE WorkerProofs ----------------------------
(***************************************************************************)
(* Proofs about Worker, for every number of clients, tasks, crashes and    *)
(* signals, every schedule and every length of time.  Each invariant is    *)
(* proved from an inductive one, stated just before its theorem.           *)
(***************************************************************************)
EXTENDS Worker, SequenceTheorems, FiniteSetTheorems, TLAPS

-----------------------------------------------------------------------------
(* What the statements of the task table do to it. *)

\* claim_next, complete and fail change the status of one row and nothing else.
LEMMA SetStatus ==
    ASSUME NEW t \in Seq(Task), NEW id \in DOMAIN t, NEW s \in TaskStatus,
           NEW u, u = [t EXCEPT ![id].status = s]
    PROVE  /\ u \in Seq(Task) /\ Len(u) = Len(t) /\ DOMAIN u = DOMAIN t
           /\ u[id] = [t[id] EXCEPT !.status = s]
           /\ \A i \in DOMAIN t \ {id} : u[i] = t[i]
<1>1. t[id] \in Task
  BY ElementOfSeq, LenProperties
<1>2. [t[id] EXCEPT !.status = s] \in Task
  BY <1>1 DEF Task
<1>3. u = [t EXCEPT ![id] = [t[id] EXCEPT !.status = s]]
  OBVIOUS
<1> QED
  BY <1>2, <1>3, ExceptSeq, LenProperties

\* mark_running_attempt adds one to the attempts of one row.
LEMMA AddAttempt ==
    ASSUME NEW t \in Seq(Task), NEW id \in DOMAIN t,
           NEW u, u = [t EXCEPT ![id].attempts = @ + 1]
    PROVE  /\ u \in Seq(Task) /\ Len(u) = Len(t) /\ DOMAIN u = DOMAIN t
           /\ u[id] = [t[id] EXCEPT !.attempts = t[id].attempts + 1]
           /\ \A i \in DOMAIN t \ {id} : u[i] = t[i]
<1>1. t[id] \in Task
  BY ElementOfSeq, LenProperties
<1>2. [t[id] EXCEPT !.attempts = t[id].attempts + 1] \in Task
  <2>1. t[id].attempts + 1 \in Nat
    BY <1>1 DEF Task
  <2> QED
    BY <1>1, <2>1 DEF Task
<1>3. u = [t EXCEPT ![id] = [t[id] EXCEPT !.attempts = t[id].attempts + 1]]
  OBVIOUS
<1> QED
  BY <1>2, <1>3, ExceptSeq, LenProperties

\* The INSERT of enqueue leaves the rows that are there as they are.
LEMMA AddRow ==
    ASSUME NEW t \in Seq(Task), NEW row \in Task, NEW u, u = Append(t, row)
    PROVE  /\ u \in Seq(Task) /\ Len(u) = Len(t) + 1
           /\ DOMAIN u = DOMAIN t \cup {Len(t) + 1} /\ Len(t) + 1 \notin DOMAIN t
           /\ u[Len(t) + 1] = row
           /\ \A i \in DOMAIN t : u[i] = t[i]
BY AppendProperties, LenProperties

\* Its row is a pending task, at the next id.
LEMMA NewRow ==
    ASSUME tasks \in Seq(Task), NEW item \in Item, NEW created \in Nat, Insert(item, created)
    PROVE  /\ tasks' \in Seq(Task) /\ Len(tasks') = Len(tasks) + 1
           /\ TaskIds' = TaskIds \cup {Len(tasks) + 1} /\ Len(tasks) + 1 \notin TaskIds
           /\ tasks'[Len(tasks) + 1] = [item |-> item, status |-> "pending",
                                        attempts |-> 0, created |-> created]
           /\ \A i \in TaskIds : tasks'[i] = tasks[i]
<1>1. [item |-> item, status |-> "pending", attempts |-> 0, created |-> created] \in Task
  BY DEF Task, TaskStatus
<1> QED
  BY <1>1, AddRow DEF Insert, TaskIds

\* requeue_orphans keeps the rows, and changes only the status of running ones.
LEMMA RequeueRows ==
    ASSUME NEW t \in Seq(Task), NEW u,
           u = [id \in DOMAIN t |-> IF t[id].status = "running"
                                    THEN [t[id] EXCEPT !.status = "pending"]
                                    ELSE t[id]]
    PROVE  /\ u \in Seq(Task) /\ Len(u) = Len(t) /\ DOMAIN u = DOMAIN t
           /\ \A i \in DOMAIN t :
                u[i] = IF t[i].status = "running"
                       THEN [t[i] EXCEPT !.status = "pending"] ELSE t[i]
<1>1. ASSUME NEW i \in 1 .. Len(t)
      PROVE  (IF t[i].status = "running" THEN [t[i] EXCEPT !.status = "pending"] ELSE t[i]) \in Task
  <2>1. t[i] \in Task
    BY ElementOfSeq
  <2>2. [t[i] EXCEPT !.status = "pending"] \in Task
    BY <2>1 DEF Task, TaskStatus
  <2> QED
    BY <2>1, <2>2
<1>2. u \in [1 .. Len(t) -> Task]
  BY <1>1, LenProperties
<1>3. u \in Seq(Task) /\ Len(u) = Len(t)
  BY <1>2, LenProperties, SeqDef
<1> QED
  BY <1>3, LenProperties

-----------------------------------------------------------------------------
(* Types.  What makes TypeOK inductive: the claimed task and the task of every *)
(* answer are rows, the scheduler looks at a job of the schedule, its call of  *)
(* enqueue is under way only at its INSERT, and no stamp is ahead of the clock.*)

ClaimFits ==
    /\ pc \in InRun => cur \in TaskIds
    /\ pc \notin InRun => cur = 0 /\ tries = 0

ScheduleFits ==
    /\ pc = "check" => Jobs # <<>>
    /\ pc \in {"sched", "enqueue", "insert"} => job \in DOMAIN Jobs
    /\ pc = "insert" <=> enq[Scheduler].step = "insert"
    /\ enq[Scheduler].step # "answered"
    /\ asOf <= now

CallsFit ==
    \A e \in Enqueuer :
        /\ enq[e].step = "insert" => enq[e].since <= now
        /\ enq[e].step = "answered" => enq[e].task \in TaskIds

TypeInv == TypeOK /\ ClaimFits /\ ScheduleFits /\ CallsFit

\* The schedule has finitely many jobs, their tasks are items, and no two have a type.
LEMMA JobsSchedule ==
    /\ Len(Jobs) \in Nat /\ DOMAIN Jobs = 1 .. Len(Jobs)
    /\ Jobs # <<>> => 1 \in DOMAIN Jobs
    /\ \A j \in DOMAIN Jobs : Jobs[j].time \in Nat /\ Scheduled(Jobs[j].type) \in Item
    /\ \A j \in DOMAIN Jobs : Jobs[j].type \in {item.type : item \in Item}
    /\ \A i, j \in DOMAIN Jobs : Jobs[i].type = Jobs[j].type => i = j
<1> DEFINE Job == [type : {item.type : item \in Item}, time : Nat]
<1>1. Jobs \in Seq(Job)
  BY WorkerAssumption
<1>2. \A j \in 1 .. Len(Jobs) : Jobs[j] \in Job
  BY <1>1, ElementOfSeq
<1>3. \A j \in 1 .. Len(Jobs) : Jobs[j].time \in Nat
  BY <1>2
<1>4. Len(Jobs) \in Nat /\ DOMAIN Jobs = 1 .. Len(Jobs)
  BY <1>1, LenProperties
<1>5. Jobs # <<>> => Len(Jobs) # 0
  BY <1>1, EmptySeq
<1>6. \A j \in DOMAIN Jobs : Jobs[j].type \in {item.type : item \in Item}
  BY <1>2, <1>4
<1> QED
  BY <1>3, <1>4, <1>5, <1>6, WorkerAssumption

\* A day of the wall clock and a time in it.
LEMMA WallClock ==
    ASSUME NEW u \in Nat
    PROVE  /\ LocalDay(u) \in Nat /\ TimeOfDay(u) \in 0 .. (DayLength - 1)
           /\ Wall(u) \in Nat /\ Wall(u) = LocalDay(u) * DayLength + TimeOfDay(u)
<1>1. DayLength \in Nat \ {0} /\ OffsetBefore \in Nat /\ OffsetAfter \in Nat
  BY LocalTimeAssumption
<1>2. Wall(u) \in Nat
  BY <1>1 DEF Wall
<1>3. /\ LocalDay(u) \in Nat /\ TimeOfDay(u) \in 0 .. (DayLength - 1)
      /\ Wall(u) = DayLength * LocalDay(u) + TimeOfDay(u)
  <2>0. /\ LocalDay(u) \in Int /\ TimeOfDay(u) \in Int
        /\ Wall(u) = DayLength * LocalDay(u) + TimeOfDay(u)
    BY <1>1, <1>2 DEF LocalDay, TimeOfDay
  <2>1. 0 <= TimeOfDay(u) /\ TimeOfDay(u) < DayLength
    BY <1>1, <1>2 DEF TimeOfDay
  <2>2. \A q \in Int, d \in Nat \ {0} : q < 0 => d * q <= -d
    OBVIOUS
  <2>3. LocalDay(u) >= 0
    BY <1>1, <1>2, <2>0, <2>1, <2>2
  <2> QED
    BY <1>1, <2>0, <2>1, <2>3
<1>4. \A a, b \in Nat : a * b = b * a
  OBVIOUS
<1> QED
  BY <1>1, <1>2, <1>3, <1>4

\* The rows left by an earlier release, and the process before its first step.
LEMMA TypeInit == Init => TypeInv
<1> SUFFICES ASSUME Init PROVE TypeInv
  OBVIOUS
<1>1. tasks \in Seq(Task)
  <2>1. Leftover \in Seq(Item) /\ Len(Leftover) \in Nat /\ DOMAIN Leftover = 1 .. Len(Leftover)
    BY LenProperties, WorkerAssumption
  <2>2. \A i \in 1 .. Len(Leftover) : Leftover[i] \in Item
    BY <2>1, ElementOfSeq
  <2>3. tasks \in [1 .. Len(Leftover) -> Task]
    BY <2>1, <2>2 DEF Init, Task, TaskStatus
  <2> QED
    BY <2>1, <2>3, SeqDef
<1>2. enq \in [Enqueuer -> Call]
  BY DEF Init, Call, IdleCall
<1>3. \A e \in Enqueuer : enq[e].step = "idle"
  BY DEF Init, IdleCall
<1>4. TypeOK
  <2>1. job \in 0 .. Len(Jobs)
    BY JobsSchedule DEF Init
  <2>2. pc \in WorkerPC
    BY DEF Init, WorkerPC
  <2> QED
    BY <1>1, <1>2, <2>1, <2>2 DEF Init, TypeOK
<1>5. ClaimFits
  BY DEF Init, ClaimFits, InRun
<1>6. ScheduleFits /\ CallsFit
  BY <1>3 DEF Init, ScheduleFits, CallsFit, Enqueuer
<1> QED
  BY <1>4, <1>5, <1>6 DEF TypeInv

\* What a call between its SELECT and its INSERT will insert is of the right type,
\* and the stamps it may choose from are a range of past instants.
LEMMA InsertTypes ==
    ASSUME TypeOK, NEW e \in Enqueuer, enq[e].step = "insert"
    PROVE  enq[e].item \in Item /\ enq[e].since \in Nat /\ enq[e].since .. now \subseteq Nat
BY DEF TypeOK, Call, IdleCall

\* An attempt changes one counter, by one.
LEMMA AttemptRows ==
    ASSUME TypeInv, Attempt
    PROVE  /\ tasks' \in Seq(Task) /\ TaskIds' = TaskIds /\ cur \in TaskIds
           /\ tasks'[cur].attempts = tasks[cur].attempts + 1
           /\ \A i \in TaskIds :
                /\ tasks'[i].status = tasks[i].status
                /\ tasks'[i].item = tasks[i].item
                /\ tasks'[i].created = tasks[i].created
                /\ i # cur => tasks'[i] = tasks[i]
<1>1. tasks \in Seq(Task) /\ cur \in TaskIds
  BY DEF TypeInv, TypeOK, ClaimFits, InRun, Attempt
<1>2. tasks' = [tasks EXCEPT ![cur].attempts = @ + 1]
  BY DEF Attempt, MarkRunningAttempt
<1>3. /\ tasks' \in Seq(Task) /\ TaskIds' = TaskIds
      /\ tasks'[cur] = [tasks[cur] EXCEPT !.attempts = tasks[cur].attempts + 1]
      /\ \A i \in TaskIds \ {cur} : tasks'[i] = tasks[i]
  BY <1>1, <1>2, AddAttempt DEF TaskIds
<1>4. tasks[cur] \in Task
  BY <1>1, ElementOfSeq, LenProperties DEF TaskIds
<1> QED
  BY <1>1, <1>3, <1>4 DEF Task

\* Every step of the web process, the worker and the environment keeps the types.
LEMMA TypeStep == TypeInv /\ [Next]_vars => TypeInv'
<1> SUFFICES ASSUME TypeInv, [Next]_vars PROVE TypeInv'
  OBVIOUS
<1> USE DEF TypeInv, TypeOK, ClaimFits, ScheduleFits, CallsFit, runVars, schedVars, envVars
<1> USE DEF WorkerPC, Dead, InRun, InSchedule, TaskIds
<1>0. Len(tasks) \in Nat /\ TaskIds = 1 .. Len(tasks)
  BY LenProperties
<1>1. CASE Boot
  BY <1>0, <1>1 DEF Boot
<1>2. CASE Stop
  BY <1>0, <1>2 DEF Stop
<1>3. CASE Idle
  BY <1>0, <1>3 DEF Idle
<1>4. CASE Wait
  BY <1>0, <1>4 DEF Wait
<1>5. CASE HandlerReturns
  BY <1>0, <1>5 DEF HandlerReturns
<1>6. CASE HandlerRejects
  BY <1>0, <1>6 DEF HandlerRejects
<1>7. CASE HandlerRaises
  BY <1>0, <1>7, WorkerAssumption DEF HandlerRaises
<1>8. CASE Wake
  BY <1>0, <1>8 DEF Wake
<1>9. CASE CheckStart
  BY <1>0, <1>9, JobsSchedule DEF CheckStart
<1>10. CASE SchedulerSkip
  BY <1>0, <1>10, JobsSchedule DEF SchedulerSkip, NextJob
<1>11. CASE SchedulerWants
  BY <1>0, <1>11 DEF SchedulerWants
<1>12. CASE Signal
  BY <1>0, <1>12 DEF Signal
<1>13. CASE Tick
  <2>1. now' \in Nat /\ now <= now'
    BY <1>13, WorkerAssumption DEF Tick
  <2>2. left' \in Nat /\ nap' \in Nat
    BY <1>13 DEF Tick, Pred
  <2>3. \A e \in Enqueuer : enq[e].step = "insert" => enq[e].since \in Nat
    BY DEF Call, IdleCall
  <2> QED
    BY <1>13, <2>1, <2>2, <2>3 DEF Tick
<1>14. ASSUME NEW c \in Client, NEW item \in Request, PostSync(c, item) PROVE TypeInv'
  <2>1. c \in Enqueuer /\ c # Scheduler /\ item \in Item
    BY WorkerAssumption, SchedulerAssumption DEF Enqueuer
  <2>2. CASE \E id \in IdenticalPending(item) :
               enq' = [enq EXCEPT ![c] = AnsweredCall(id, tasks[id].attempts)]
    <3>1. PICK id \in IdenticalPending(item) :
            enq' = [enq EXCEPT ![c] = AnsweredCall(id, tasks[id].attempts)]
      BY <2>2
    <3>2. id \in TaskIds /\ tasks[id] \in Task
      BY <1>0, ElementOfSeq DEF IdenticalPending, WithStatus
    <3>3. AnsweredCall(id, tasks[id].attempts) \in Call
      BY <1>0, <3>2 DEF AnsweredCall, Call, Task
    <3> QED
      BY <1>0, <1>14, <2>1, <3>1, <3>2, <3>3 DEF PostSync, AnsweredCall
  <2>3. CASE enq' = [enq EXCEPT ![c] = InsertCall(item, now)]
    <3>1. InsertCall(item, now) \in Call
      BY <2>1 DEF InsertCall, Call
    <3> QED
      BY <1>0, <1>14, <2>1, <2>3, <3>1 DEF PostSync, InsertCall
  <2> QED
    BY <1>14, <2>2, <2>3 DEF PostSync
<1>15. ASSUME NEW c \in Client, PostSyncInsert(c) PROVE TypeInv'
  <2>1. c \in Enqueuer /\ c # Scheduler
    BY SchedulerAssumption DEF Enqueuer
  <2>2. PICK created \in enq[c].since .. now : Insert(enq[c].item, created)
    BY <1>15 DEF PostSyncInsert
  <2>3. enq[c].item \in Item /\ created \in Nat
    BY <1>15, <2>1 DEF PostSyncInsert, Call, IdleCall
  <2>4. tasks' \in Seq(Task) /\ TaskIds' = TaskIds \cup {Len(tasks) + 1}
    BY <2>2, <2>3, NewRow
  <2>5. AnsweredCall(Len(tasks) + 1, 0) \in Call
    BY <1>0 DEF AnsweredCall, Call
  <2> QED
    BY <1>15, <2>1, <2>4, <2>5 DEF PostSyncInsert, AnsweredCall
<1>16. ASSUME NEW c \in Client, PostSyncLost(c) PROVE TypeInv'
  <2>1. c \in Enqueuer /\ c # Scheduler
    BY SchedulerAssumption DEF Enqueuer
  <2> QED
    BY <1>16, <2>1 DEF PostSyncLost, IdleCall, Call
<1>17. CASE Requeue
  BY <1>17, RequeueRows DEF Requeue, RequeueOrphans
<1>18. CASE Claim
  <2>1. PICK id \in TaskIds : ClaimNext(id) /\ cur' = id
    BY <1>18 DEF Claim
  <2>2. tasks' \in Seq(Task) /\ TaskIds' = TaskIds
    BY <2>1, SetStatus DEF ClaimNext, TaskStatus
  <2> QED
    BY <1>0, <1>18, <2>1, <2>2, WorkerAssumption DEF Claim
<1>19. CASE Attempt
  <2>1. tasks' \in Seq(Task) /\ TaskIds' = TaskIds
    BY <1>19, AddAttempt DEF Attempt, MarkRunningAttempt
  <2> QED
    BY <1>19, <2>1 DEF Attempt
<1>20. CASE CompleteTask \/ FailTask
  <2>1. PICK s \in TaskStatus : tasks' = [tasks EXCEPT ![cur].status = s]
    BY <1>20 DEF CompleteTask, FailTask, Complete, Fail, TaskStatus
  <2>2. cur \in TaskIds
    BY <1>20 DEF CompleteTask, FailTask
  <2>3. tasks' \in Seq(Task) /\ TaskIds' = TaskIds
    BY <2>1, <2>2, SetStatus
  <2> QED
    BY SMTT(30), <1>20, <2>3 DEF CompleteTask, FailTask, LeaveRun
<1>21. CASE SchedulerRead
  <2> DEFINE item == Scheduled(Jobs[job].type)
  <2>1. item \in Item /\ Scheduler \in Enqueuer
    BY <1>21, JobsSchedule DEF SchedulerRead, Enqueuer
  <2>2. InsertCall(item, now) \in Call
    BY <2>1 DEF InsertCall, Call
  <2>3. CASE enq' = [enq EXCEPT ![Scheduler] = InsertCall(item, now)] /\ pc' = "insert" /\ UNCHANGED job
    BY <1>21, <2>1, <2>2, <2>3 DEF SchedulerRead, InsertCall
  <2>4. CASE NextJob /\ UNCHANGED enq
    BY <1>21, <2>4, JobsSchedule DEF SchedulerRead, NextJob
  <2> QED
    BY <1>21, <2>3, <2>4 DEF SchedulerRead
<1>22. CASE SchedulerInsert
  <2>1. PICK created \in enq[Scheduler].since .. now : Insert(enq[Scheduler].item, created)
    BY <1>22 DEF SchedulerInsert
  <2>2. enq[Scheduler].item \in Item /\ created \in Nat /\ Scheduler \in Enqueuer
    BY <1>22 DEF SchedulerInsert, Call, IdleCall, Enqueuer
  <2>3. tasks' \in Seq(Task) /\ TaskIds' = TaskIds \cup {Len(tasks) + 1}
    BY <2>1, <2>2, NewRow
  <2>4. IdleCall \in Call /\ IdleCall.step = "idle"
    BY DEF IdleCall, Call
  <2>5. booked' \subseteq Booking
    <3>1. Jobs[job].type \in {item.type : item \in Item}
      BY <1>22, JobsSchedule DEF SchedulerInsert
    <3>2. Len(tasks) + 1 \in Nat \ {0} /\ LocalDay(asOf) \in Nat
      <4>1. Len(tasks) + 1 \in Nat \ {0}
        BY <1>0
      <4>2. asOf \in Nat
        OBVIOUS
      <4>3. LocalDay(asOf) \in Nat
        BY <4>2, WallClock, Zenon
      <4> QED
        BY <4>1, <4>3
    <3>3. [task |-> Len(tasks) + 1, type |-> Jobs[job].type, day |-> LocalDay(asOf)] \in Booking
      <4>1. \A id \in Nat \ {0}, day \in Nat, t \in {item.type : item \in Item} :
              [task |-> id, type |-> t, day |-> day] \in Booking
        BY Zenon DEF Booking
      <4> QED
        BY <3>1, <3>2, <4>1, Zenon
    <3> QED
      BY <1>22, <3>3 DEF SchedulerInsert
  <2> QED
    BY <1>22, <2>2, <2>3, <2>4, <2>5, JobsSchedule DEF SchedulerInsert, NextJob
<1>23. CASE Crash
  <2>1. IdleCall \in Call /\ IdleCall.step = "idle" /\ Scheduler \in Enqueuer
    BY DEF IdleCall, Call, Enqueuer
  <2>2. TypeOK' /\ ClaimFits'
    <3>1. job' \in 0 .. Len(Jobs) /\ enq' \in [Enqueuer -> Call]
      BY <1>23, <2>1, JobsSchedule DEF Crash
    <3>2. ClaimFits' /\ pc' \in WorkerPC
      BY <1>23 DEF Crash
    <3>3. crashes' \in Nat /\ asOf' \in Nat /\ late' \in Nat
      BY <1>23, WorkerAssumption DEF Crash
    <3>4. shutdown' \in BOOLEAN
      BY <1>23 DEF Crash
    <3>5. cur' \in Nat /\ tries' \in Nat /\ left' \in Nat /\ nap' \in Nat
      BY <1>23 DEF Crash
    <3>6. tasks' \in Seq(Task) /\ now' \in Nat /\ signals' \in Nat /\ booked' \subseteq Booking
      BY <1>23 DEF Crash
    <3> QED
      BY <3>1, <3>2, <3>3, <3>4, <3>5, <3>6
  <2>3. enq' = [enq EXCEPT ![Scheduler] = IdleCall] /\ tasks' = tasks /\ now' = now
    BY <1>23 DEF Crash
  <2>4. CallsFit'
    BY <2>1, <2>3
  <2>5. ScheduleFits'
    BY <1>23, <2>1, <2>3 DEF Crash
  <2> QED
    BY <2>2, <2>4, <2>5
<1>24. CASE UNCHANGED vars
  BY <1>24 DEF vars
<1> QED
  BY <1>1, <1>2, <1>3, <1>4, <1>5, <1>6, <1>7, <1>8, <1>9, <1>10, <1>11, <1>12, <1>13, <1>14,
     <1>15, <1>16, <1>17, <1>18, <1>19, <1>20, <1>21, <1>22, <1>23, <1>24
  DEF Next, WebStep, WorkerStep, RunStep, HandlerOutcome, ScheduleStep

\* Every variable keeps its type; the claimed task and the task of every answer are
\* rows, and the scheduler is at a job of the schedule.
THEOREM TypeCorrect == Spec => [](TypeOK /\ ClaimFits /\ ScheduleFits /\ CallsFit)
<1>1. TypeInv /\ [Next]_vars => TypeInv'
  BY TypeStep
<1>2. TypeInv => TypeOK /\ ClaimFits /\ ScheduleFits /\ CallsFit
  BY DEF TypeInv
<1> QED
  BY TypeInit, <1>1, <1>2, PTL DEF Spec

-----------------------------------------------------------------------------
(* One task at a time.  RunningIsClaimed is inductive beside TypeInv: a claim  *)
(* needs the poll, where no row is running; a crash freezes the one that is,   *)
(* and requeue_orphans runs before the next claim.                             *)

\* The rows with a status other than pending after an INSERT.
LEMMA NewRowStatus ==
    ASSUME tasks \in Seq(Task), NEW item \in Item, NEW created \in Nat, Insert(item, created),
           NEW s, s # "pending"
    PROVE  WithStatus(s)' = WithStatus(s)
<1>1. /\ TaskIds' = TaskIds \cup {Len(tasks) + 1}
      /\ \A i \in TaskIds : tasks'[i] = tasks[i]
  BY NewRow
<1>2. tasks'[Len(tasks) + 1] = [item |-> item, status |-> "pending",
                               attempts |-> 0, created |-> created]
  BY NewRow
<1>3. tasks'[Len(tasks) + 1].status = "pending"
  BY <1>2
<1> QED
  BY <1>1, <1>3 DEF WithStatus

\* The running rows after the status of one row was set.
LEMMA RunningAfterSet ==
    ASSUME tasks \in Seq(Task), NEW id \in TaskIds, NEW s \in TaskStatus,
           tasks' = [tasks EXCEPT ![id].status = s]
    PROVE  WithStatus("running")' = (WithStatus("running") \ {id})
                                      \cup (IF s = "running" THEN {id} ELSE {})
<1>1. /\ TaskIds' = TaskIds
      /\ tasks'[id] = [tasks[id] EXCEPT !.status = s]
      /\ \A i \in TaskIds \ {id} : tasks'[i] = tasks[i]
  BY SetStatus DEF TaskIds
<1>2. tasks[id] \in Task
  BY ElementOfSeq, LenProperties DEF TaskIds
<1>3. tasks'[id].status = s
  BY <1>1, <1>2 DEF Task
<1> QED
  BY <1>1, <1>3 DEF WithStatus

\* Only a claim marks a row running, and only when none is; the claimed task stays
\* marked until run_one completes or fails it.
LEMMA RunningStep == TypeInv /\ RunningIsClaimed /\ [Next]_vars => RunningIsClaimed'
<1> SUFFICES ASSUME TypeInv, RunningIsClaimed, [Next]_vars PROVE RunningIsClaimed'
  OBVIOUS
<1> DEFINE R == WithStatus("running")
<1>0. tasks \in Seq(Task) /\ (tasks' = tasks => R' = R)
  BY DEF TypeInv, TypeOK, WithStatus, TaskIds
<1>1. ASSUME NEW c \in Client, NEW item \in Request, PostSync(c, item)
      PROVE  RunningIsClaimed'
  BY <1>0, <1>1 DEF PostSync, RunningIsClaimed, runVars
<1>2. ASSUME NEW c \in Client, PostSyncLost(c) PROVE RunningIsClaimed'
  BY <1>0, <1>2 DEF PostSyncLost, RunningIsClaimed, runVars
<1>3. ASSUME NEW c \in Client, PostSyncInsert(c) PROVE RunningIsClaimed'
  <2>1. PICK created \in enq[c].since .. now : Insert(enq[c].item, created)
    BY <1>3 DEF PostSyncInsert
  <2>2. enq[c].item \in Item /\ created \in Nat
    BY <1>3, InsertTypes DEF PostSyncInsert, Enqueuer, TypeInv
  <2>3. R' = R
    BY <1>0, <2>1, <2>2, NewRowStatus
  <2> QED
    BY <1>3, <2>3 DEF PostSyncInsert, RunningIsClaimed, runVars
<1>4. CASE Boot \/ Stop \/ Idle \/ Wait \/ CheckStart
  BY <1>0, <1>4 DEF Boot, Stop, Idle, Wait, CheckStart, RunningIsClaimed, InRun, Dead, runVars
<1>5. CASE SchedulerSkip \/ SchedulerWants \/ SchedulerRead
  BY <1>0, <1>5 DEF SchedulerSkip, SchedulerWants, SchedulerRead, NextJob,
                    RunningIsClaimed, InRun, runVars
<1>6. CASE HandlerReturns \/ HandlerRejects \/ HandlerRaises \/ Wake
  BY <1>0, <1>6 DEF HandlerReturns, HandlerRejects, HandlerRaises, Wake,
                    RunningIsClaimed, InRun, runVars
<1>7. CASE Signal \/ Tick
  BY <1>0, <1>7 DEF Signal, Tick, RunningIsClaimed, runVars
<1>8. CASE Crash
  BY <1>0, <1>8 DEF Crash, RunningIsClaimed, InRun
<1>9. CASE Requeue
  <2>1. R' = {}
    BY <1>0, <1>9, RequeueRows DEF Requeue, RequeueOrphans, WithStatus, TaskIds, Task
  <2> QED
    BY <1>9, <2>1 DEF Requeue, RunningIsClaimed, InRun
<1>10. CASE Claim
  <2>1. PICK id \in TaskIds : ClaimNext(id) /\ cur' = id
    BY <1>10 DEF Claim
  <2>2. R = {}
    BY <1>10 DEF Claim, RunningIsClaimed, InRun
  <2>3. R' = {id}
    BY <1>0, <2>1, <2>2, RunningAfterSet DEF ClaimNext, TaskStatus
  <2>4. pc' \in InRun
    BY <1>10 DEF Claim, InRun
  <2> QED
    BY <2>1, <2>3, <2>4 DEF RunningIsClaimed
<1>11. CASE Attempt
  <2>1. R' = R
    BY <1>0, <1>11, AttemptRows DEF WithStatus
  <2> QED
    BY <1>11, <2>1 DEF Attempt, RunningIsClaimed, InRun
<1>12. CASE CompleteTask \/ FailTask
  <2>1. PICK s \in TaskStatus \ {"running"} : tasks' = [tasks EXCEPT ![cur].status = s]
    BY <1>12 DEF CompleteTask, FailTask, Complete, Fail, TaskStatus
  <2>2. cur \in TaskIds /\ R = {cur}
    BY <1>12 DEF CompleteTask, FailTask, TypeInv, ClaimFits, RunningIsClaimed, InRun
  <2>3. R' = {}
    BY <1>0, <2>1, <2>2, RunningAfterSet
  <2> QED
    BY <1>12, <2>3 DEF CompleteTask, FailTask, LeaveRun, RunningIsClaimed, InRun
<1>13. CASE SchedulerInsert
  <2>1. PICK created \in enq[Scheduler].since .. now : Insert(enq[Scheduler].item, created)
    BY <1>13 DEF SchedulerInsert
  <2>2. enq[Scheduler].item \in Item /\ created \in Nat
    BY <1>13, InsertTypes DEF SchedulerInsert, Enqueuer, TypeInv, ScheduleFits
  <2>3. R' = R
    BY <1>0, <2>1, <2>2, NewRowStatus
  <2> QED
    BY <1>13, <2>3 DEF SchedulerInsert, NextJob, RunningIsClaimed, InRun, runVars
<1>14. CASE UNCHANGED vars
  BY <1>0, <1>14 DEF vars, runVars, RunningIsClaimed
<1> QED
  BY <1>1, <1>2, <1>3, <1>4, <1>5, <1>6, <1>7, <1>8, <1>9, <1>10, <1>11, <1>12, <1>13, <1>14
  DEF Next, WebStep, WorkerStep, RunStep, HandlerOutcome, ScheduleStep

\* While the worker runs a task that row is the only running one; between tasks
\* there is none; a crash leaves at most one for requeue_orphans.
THEOREM OneTaskAtATime == Spec => []RunningIsClaimed
<1>1. Init => RunningIsClaimed
  BY DEF Init, RunningIsClaimed, WithStatus, TaskIds, InRun
<1> QED
  BY <1>1, TypeInit, TypeStep, RunningStep, PTL DEF Spec

-----------------------------------------------------------------------------
(* What each statement does to the rows, field by field. *)

\* claim_next, complete, fail.
LEMMA SetRows ==
    ASSUME TypeInv, NEW id \in TaskIds, NEW s \in TaskStatus,
           tasks' = [tasks EXCEPT ![id].status = s]
    PROVE  /\ TaskIds' = TaskIds
           /\ tasks'[id].status = s
           /\ \A i \in TaskIds :
                /\ tasks'[i].attempts = tasks[i].attempts
                /\ tasks'[i].item = tasks[i].item
                /\ tasks'[i].created = tasks[i].created
                /\ i # id => tasks'[i].status = tasks[i].status
<1>1. /\ TaskIds' = TaskIds
      /\ tasks'[id] = [tasks[id] EXCEPT !.status = s]
      /\ \A i \in TaskIds \ {id} : tasks'[i] = tasks[i]
  BY SetStatus DEF TaskIds, TypeInv, TypeOK
<1>2. tasks[id] \in Task
  BY ElementOfSeq, LenProperties DEF TaskIds, TypeInv, TypeOK
<1> QED
  BY <1>1, <1>2 DEF Task

\* requeue_orphans.
LEMMA RequeuedRows ==
    ASSUME TypeInv, RequeueOrphans
    PROVE  /\ TaskIds' = TaskIds
           /\ \A i \in TaskIds :
                /\ tasks'[i].attempts = tasks[i].attempts
                /\ tasks'[i].item = tasks[i].item
                /\ tasks'[i].created = tasks[i].created
                /\ tasks'[i].status = IF tasks[i].status = "running" THEN "pending"
                                                                     ELSE tasks[i].status
<1>1. /\ TaskIds' = TaskIds
      /\ \A i \in TaskIds :
           tasks'[i] = IF tasks[i].status = "running"
                       THEN [tasks[i] EXCEPT !.status = "pending"] ELSE tasks[i]
  BY RequeueRows DEF RequeueOrphans, TaskIds, TypeInv, TypeOK
<1>2. \A i \in TaskIds : tasks[i] \in Task
  BY ElementOfSeq, LenProperties DEF TaskIds, TypeInv, TypeOK
<1> QED
  BY <1>1, <1>2 DEF Task

\* The INSERT of a call of enqueue that is under way.
LEMMA InsertedRow ==
    ASSUME TypeInv, NEW e \in Enqueuer, enq[e].step = "insert",
           NEW created \in enq[e].since .. now, Insert(enq[e].item, created)
    PROVE  /\ Len(tasks) + 1 \in Nat /\ Len(tasks) + 1 \notin TaskIds
           /\ TaskIds' = TaskIds \cup {Len(tasks) + 1}
           /\ tasks'[Len(tasks) + 1].status = "pending"
           /\ tasks'[Len(tasks) + 1].attempts = 0
           /\ tasks'[Len(tasks) + 1].item = enq[e].item
           /\ tasks'[Len(tasks) + 1].created = created
           /\ \A i \in TaskIds : tasks'[i] = tasks[i]
<1>1. enq[e].item \in Item /\ created \in Nat /\ tasks \in Seq(Task)
  BY InsertTypes DEF TypeInv, TypeOK
<1>2. /\ TaskIds' = TaskIds \cup {Len(tasks) + 1} /\ Len(tasks) + 1 \notin TaskIds
      /\ \A i \in TaskIds : tasks'[i] = tasks[i]
  BY <1>1, NewRow
<1>3. tasks'[Len(tasks) + 1] = [item |-> enq[e].item, status |-> "pending",
                               attempts |-> 0, created |-> created]
  BY <1>1, NewRow
<1> QED
  BY <1>1, <1>2, <1>3, LenProperties

\* Every attempts counter is a number.
LEMMA RowTypes ==
    ASSUME TypeInv, NEW i \in TaskIds
    PROVE  /\ tasks[i].attempts \in Nat /\ tasks[i].created \in Nat
           /\ tasks[i].status \in TaskStatus /\ tasks[i].item \in Item
<1>1. tasks[i] \in Task
  BY ElementOfSeq, LenProperties DEF TaskIds, TypeInv, TypeOK
<1> QED
  BY <1>1 DEF Task

-----------------------------------------------------------------------------
(* The cap on attempts.  A task that will be claimed, or whose next step is an *)
(* attempt, is below the bound; a crash raises the bound by one, which pays    *)
(* for the attempt it interrupted.                                             *)

BelowBound(id) == tasks[id].attempts < MaxAttempts + crashes

AttemptsInv ==
    \A id \in TaskIds :
        /\ tasks[id].attempts <= MaxAttempts + crashes
        /\ tasks[id].status = "pending" => BelowBound(id)
        /\ tasks[id].status = "running" /\ pc \in Dead \cup {"boot", "attempt", "sleeping"}
               => BelowBound(id)

\* An attempt is made below the bound: a failure that spends the cap ends the run,
\* and a kill during an attempt pays for the one it may add.
LEMMA AttemptsStep ==
    TypeInv /\ RunningIsClaimed /\ AttemptsInv /\ [Next]_vars => AttemptsInv'
<1> SUFFICES ASSUME TypeInv, RunningIsClaimed, AttemptsInv, [Next]_vars PROVE AttemptsInv'
  OBVIOUS
<1> DEFINE R == WithStatus("running")
<1>0. /\ MaxAttempts \in Nat \ {0} /\ crashes \in Nat
      /\ \A i \in TaskIds : tasks[i].attempts \in Nat
  BY RowTypes, WorkerAssumption DEF TypeInv, TypeOK
<1>18. tasks' = tasks => TaskIds' = TaskIds
  BY DEF TaskIds
<1>1. ASSUME NEW c \in Client, NEW item \in Request, PostSync(c, item) PROVE AttemptsInv'
  BY <1>18, <1>1 DEF PostSync, AttemptsInv, BelowBound, envVars
<1>2. ASSUME NEW c \in Client, PostSyncLost(c) PROVE AttemptsInv'
  BY <1>18, <1>2 DEF PostSyncLost, AttemptsInv, BelowBound, envVars
<1>3. ASSUME NEW e \in Enqueuer, enq[e].step = "insert",
             NEW created \in enq[e].since .. now, Insert(enq[e].item, created),
             pc' \notin Dead \cup {"boot", "attempt", "sleeping"} \/ pc' = pc, UNCHANGED crashes
      PROVE  AttemptsInv'
  BY <1>0, <1>3, InsertedRow DEF AttemptsInv, BelowBound
<1>4. ASSUME NEW c \in Client, PostSyncInsert(c) PROVE AttemptsInv'
  BY <1>3, <1>4 DEF PostSyncInsert, Enqueuer, envVars
<1>5. CASE SchedulerInsert
  BY <1>3, <1>5 DEF SchedulerInsert, NextJob, TypeInv, ScheduleFits, Enqueuer, Dead, envVars
<1>6. CASE Boot \/ Signal \/ Tick
  BY <1>18, <1>6 DEF Boot, Signal, Tick, AttemptsInv, BelowBound, Dead, envVars
<1>7. CASE Stop
  <2>1. R = {}
    BY <1>7 DEF Stop, RunningIsClaimed, InRun
  <2> QED
    BY <1>18, <1>7, <2>1 DEF Stop, AttemptsInv, BelowBound, WithStatus, envVars
<1>8. CASE Idle \/ Wait \/ CheckStart \/ SchedulerSkip \/ SchedulerWants \/ SchedulerRead
  BY <1>18, <1>8 DEF Idle, Wait, CheckStart, SchedulerSkip, SchedulerWants, SchedulerRead,
                    NextJob, AttemptsInv, BelowBound, Dead, envVars
<1>9. CASE HandlerReturns \/ HandlerRejects
  BY <1>18, <1>9 DEF HandlerReturns, HandlerRejects, AttemptsInv, BelowBound, Dead, envVars
<1>10. CASE HandlerRaises
  <2>1. CASE pc' = "failing"
    BY <1>18, <1>10, <2>1 DEF HandlerRaises, AttemptsInv, BelowBound, Dead, envVars
  <2>2. CASE pc' = "sleeping" /\ ~Exhausted
    <3>1. R = {cur} /\ cur \in TaskIds /\ tasks[cur].attempts < MaxAttempts
      BY <1>0, <1>10, <2>2 DEF HandlerRaises, Exhausted, RunningIsClaimed, InRun,
                               TypeInv, ClaimFits
    <3>2. tasks[cur].attempts < MaxAttempts + crashes
      BY <1>0, <3>1
    <3> QED
      BY <1>18, <1>10, <3>1, <3>2 DEF HandlerRaises, AttemptsInv, BelowBound, WithStatus, envVars
  <2> QED
    BY <1>10, <2>1, <2>2 DEF HandlerRaises, GivesUp
<1>11. CASE Wake
  BY <1>18, <1>11 DEF Wake, AttemptsInv, BelowBound, envVars
<1>12. CASE Requeue
  <2>1. \A i \in TaskIds : tasks[i].status = "running" => BelowBound(i)
    BY <1>12 DEF Requeue, AttemptsInv
  <2> QED
    BY <1>12, <2>1, RequeuedRows DEF Requeue, AttemptsInv, BelowBound, Dead, envVars
<1>13. CASE Claim
  <2>1. PICK id \in TaskIds : ClaimNext(id)
    BY <1>13 DEF Claim
  <2>2. R = {} /\ tasks[id].status = "pending"
    BY <1>13, <2>1 DEF Claim, RunningIsClaimed, InRun, ClaimNext, OldestPending, WithStatus
  <2>3. tasks' = [tasks EXCEPT ![id].status = "running"] /\ UNCHANGED crashes
    BY <1>13, <2>1 DEF ClaimNext, Claim, envVars
  <2>4. /\ TaskIds' = TaskIds /\ tasks'[id].status = "running"
        /\ \A i \in TaskIds : tasks'[i].attempts = tasks[i].attempts
        /\ \A i \in TaskIds \ {id} : tasks'[i].status = tasks[i].status
    BY ZenonT(60), <2>3, SetRows DEF TaskStatus
  <2>5. \A i \in TaskIds : tasks[i].status # "running"
    BY <2>2 DEF WithStatus
  <2> QED
    BY <2>2, <2>3, <2>4, <2>5 DEF AttemptsInv, BelowBound
<1>14. CASE Attempt
  <2>1. R = {cur} /\ cur \in TaskIds /\ BelowBound(cur)
    BY <1>14 DEF Attempt, RunningIsClaimed, InRun, WithStatus, AttemptsInv
  <2>2. tasks[cur].status = "running" /\ pc' = "handling" /\ UNCHANGED crashes
    BY <1>14, <2>1 DEF Attempt, WithStatus, envVars
  <2> QED
    BY <1>0, <1>14, <2>1, <2>2, AttemptRows DEF AttemptsInv, BelowBound, Dead
<1>15. CASE CompleteTask \/ FailTask
  <2>1. PICK s \in Settled : tasks' = [tasks EXCEPT ![cur].status = s]
    BY <1>15 DEF CompleteTask, FailTask, Complete, Fail, Settled
  <2>2. cur \in TaskIds /\ s \in TaskStatus /\ s \notin {"pending", "running"}
    BY <1>15 DEF CompleteTask, FailTask, TypeInv, ClaimFits, InRun, Settled, TaskStatus
  <2>3. pc' = "poll" /\ UNCHANGED crashes
    BY <1>15 DEF CompleteTask, FailTask, LeaveRun, envVars
  <2>4. /\ TaskIds' = TaskIds /\ tasks'[cur].status = s
        /\ \A i \in TaskIds : tasks'[i].attempts = tasks[i].attempts
        /\ \A i \in TaskIds \ {cur} : tasks'[i].status = tasks[i].status
    BY <2>1, <2>2, SetRows
  <2>5. pc' \notin Dead \cup {"boot", "attempt", "sleeping"}
    BY <2>3 DEF Dead
  <2>6. ASSUME NEW i \in TaskIds, tasks'[i].status = "pending"
        PROVE  tasks[i].status = "pending"
    BY <2>2, <2>4, <2>6
  <2> QED
    BY <2>3, <2>4, <2>5, <2>6 DEF AttemptsInv, BelowBound
<1>16. CASE Crash
  <2>1. tasks' = tasks /\ crashes' = crashes + 1
    BY <1>16 DEF Crash
  <2> QED
    BY <1>0, <1>18, <2>1 DEF AttemptsInv, BelowBound
<1>17. CASE UNCHANGED vars
  BY <1>18, <1>17 DEF vars, envVars, AttemptsInv, BelowBound
<1> QED
  BY <1>1, <1>2, <1>4, <1>5, <1>6, <1>7, <1>8, <1>9, <1>10, <1>11, <1>12, <1>13, <1>14, <1>15,
     <1>16, <1>17
  DEF Next, WebStep, WorkerStep, RunStep, HandlerOutcome, ScheduleStep

\* However the worker is killed and restarted, a task makes at most MaxAttempts
\* attempts and one for each kill.
THEOREM AttemptsAreBounded == Spec => []AttemptsBounded
<1>1. Init => AttemptsInv
  BY WorkerAssumption DEF Init, AttemptsInv, BelowBound, TaskIds
<1>2. Init => RunningIsClaimed
  BY DEF Init, RunningIsClaimed, WithStatus, TaskIds, InRun
<1>3. AttemptsInv => AttemptsBounded
  BY DEF AttemptsInv, AttemptsBounded
<1> QED
  BY <1>1, <1>2, <1>3, TypeInit, TypeStep, RunningStep, AttemptsStep, PTL DEF Spec

-----------------------------------------------------------------------------
(* Shutdown.  The attempt that a signal lets through is the last thing of its  *)
(* run: run_one gives up after it, and the loop does not claim another task.   *)

LateInv ==
    /\ late <= 1
    /\ late = 1 => shutdown /\ pc \in {"handling", "completing", "failing", "poll"}

\* After a signal the only way to another attempt is the one backoff, or the one
\* claim, that was under way.
LEMMA LateStep == TypeInv /\ LateInv /\ [Next]_vars => LateInv'
<1> SUFFICES ASSUME TypeInv, LateInv, [Next]_vars PROVE LateInv'
  OBVIOUS
<1> USE DEF LateInv
<1>0. late \in Nat /\ shutdown \in BOOLEAN
  BY DEF TypeInv, TypeOK
<1>1. CASE WebStep
  BY <1>1 DEF WebStep, PostSync, PostSyncInsert, PostSyncLost
<1>2. CASE Boot \/ Requeue \/ Idle \/ Wait
  BY <1>2 DEF Boot, Requeue, Idle, Wait, Dead
<1>3. CASE Stop \/ Crash
  BY <1>3 DEF Stop, Crash
<1>4. CASE Claim
  BY <1>0, <1>4 DEF Claim
<1>5. CASE Attempt
  BY <1>0, <1>5 DEF Attempt
<1>6. CASE HandlerReturns \/ HandlerRejects \/ CompleteTask \/ FailTask
  BY <1>6 DEF HandlerReturns, HandlerRejects, CompleteTask, FailTask, LeaveRun
<1>7. CASE HandlerRaises
  BY <1>7 DEF HandlerRaises, GivesUp
<1>8. CASE Wake
  BY <1>8 DEF Wake
<1>9. CASE ScheduleStep
  BY <1>9 DEF ScheduleStep, CheckStart, SchedulerSkip, SchedulerWants, SchedulerRead,
              SchedulerInsert, NextJob
<1>10. CASE Signal \/ Tick
  BY <1>10 DEF Signal, Tick
<1>11. CASE UNCHANGED vars
  BY <1>11 DEF vars
<1> QED
  BY <1>1, <1>2, <1>3, <1>4, <1>5, <1>6, <1>7, <1>8, <1>9, <1>10, <1>11
  DEF Next, WorkerStep, RunStep, HandlerOutcome

\* Wherever a signal arrives, at most one more handler call begins.
THEOREM OneLateAttempt == Spec => []AtMostOneLateAttempt
<1>1. Init => LateInv
  BY DEF Init, LateInv
<1>2. LateInv => AtMostOneLateAttempt
  BY DEF LateInv, AtMostOneLateAttempt
<1> QED
  BY <1>1, <1>2, TypeInit, TypeStep, LateStep, PTL DEF Spec

-----------------------------------------------------------------------------
(* The deadline.  Until a signal cuts a backoff short, the backoffs slept      *)
(* through and the time that is left add up to no more than the deadline.      *)

Slept(n) == n * Backoff

BudgetInv ==
    /\ pc = "attempt" /\ ~shutdown => Slept(tries) + left <= Deadline
    /\ pc = "attempt" /\ tries > 0 => Slept(tries - 1) <= Deadline
    /\ pc \in {"handling", "completing"} /\ late = 0 =>
          tries > 0 /\ Slept(tries - 1) + left <= Deadline
    /\ pc = "sleeping" /\ late = 0 =>
          /\ Slept(tries) + left <= Deadline + nap /\ (nap < left \/ nap = 0)
          /\ tries > 0 /\ Slept(tries - 1) <= Deadline
    /\ pc = "failing" /\ late = 0 /\ tries > 0 => Slept(tries - 1) <= Deadline

\* A backoff is slept only when it is less than the time that is left.
LEMMA BudgetStep == TypeInv /\ LateInv /\ BudgetInv /\ [Next]_vars => BudgetInv'
<1> SUFFICES ASSUME TypeInv, LateInv, BudgetInv, [Next]_vars PROVE BudgetInv'
  OBVIOUS
<1> USE DEF BudgetInv
<1>0. /\ late \in Nat /\ shutdown \in BOOLEAN /\ tries \in Nat /\ left \in Nat /\ nap \in Nat
      /\ Backoff \in Nat /\ Deadline \in Nat
  BY WorkerAssumption DEF TypeInv, TypeOK
<1>13. \A n \in Nat : Slept(n) \in Nat /\ Slept(n + 1) = Slept(n) + Backoff
  BY <1>0 DEF Slept
<1>14. Slept(0) = 0
  BY <1>0 DEF Slept
<1>1. CASE WebStep
  BY <1>1 DEF WebStep, PostSync, PostSyncInsert, PostSyncLost, runVars
<1>2. CASE Boot \/ Requeue \/ Idle \/ Wait \/ Stop \/ Crash
  BY <1>2 DEF Boot, Requeue, Idle, Wait, Stop, Crash
<1>3. CASE ScheduleStep
  BY <1>3 DEF ScheduleStep, CheckStart, SchedulerSkip, SchedulerWants, SchedulerRead,
              SchedulerInsert, NextJob
<1>4. CASE CompleteTask \/ FailTask
  BY <1>4 DEF CompleteTask, FailTask, LeaveRun
<1>5. CASE Claim
  <2>1. tries' = 0 /\ late' = late /\ shutdown' = shutdown
    BY <1>5 DEF Claim, TypeInv, ClaimFits, InRun
  <2>2. \/ pc' = "attempt" /\ left' = Deadline
        \/ pc' = "failing"
    BY <1>5 DEF Claim
  <2> QED
    BY <1>0, <1>14, <2>1, <2>2
<1>6. CASE Attempt
  <2>1. /\ pc = "attempt" /\ pc' = "handling" /\ tries' = tries + 1 /\ left' = left
        /\ late' = IF shutdown THEN late + 1 ELSE late
    BY <1>6 DEF Attempt, runVars
  <2>2. late' = 0 => ~shutdown
    BY <1>0, <2>1
  <2>3. tries' - 1 = tries
    BY <1>0, <2>1
  <2> QED
    BY <1>0, <2>1, <2>2, <2>3
<1>7. CASE HandlerReturns \/ HandlerRejects
  <2>1. /\ pc = "handling" /\ pc' \in {"completing", "failing"}
        /\ tries' = tries /\ left' = left /\ nap' = nap /\ late' = late
    BY <1>7 DEF HandlerReturns, HandlerRejects, runVars
  <2>2. tries > 0 => Slept(tries - 1) \in Nat
    BY <1>0, <1>13
  <2> QED
    BY <1>0, <2>1, <2>2
<1>8. CASE HandlerRaises
  <2>1. /\ pc \in {"handling", "completing"} /\ tries' = tries /\ left' = left /\ late' = late
        /\ \/ pc' = "failing"
           \/ pc' = "sleeping" /\ nap' = Backoff /\ Backoff < left
    BY <1>0, <1>8 DEF HandlerRaises, GivesUp, PastDeadline
  <2>2. tries > 0 => Slept(tries - 1) \in Nat /\ Slept(tries) = Slept(tries - 1) + Backoff
    <3>1. tries > 0 => tries - 1 \in Nat /\ (tries - 1) + 1 = tries
      BY <1>0
    <3> QED
      BY <1>13, <3>1
  <2> QED
    BY <1>0, <2>1, <2>2
<1>9. CASE Wake
  <2>1. /\ pc = "sleeping" /\ pc' = "attempt" /\ tries' = tries /\ left' = left
        /\ late' = late /\ shutdown' = shutdown /\ (nap = 0 \/ shutdown)
    BY <1>9 DEF Wake
  <2>2. late = 0
    BY <1>0, <2>1 DEF LateInv
  <2> QED
    BY <1>0, <1>13, <2>1, <2>2
<1>10. CASE Signal
  BY <1>10 DEF Signal, runVars
<1>11. CASE Tick
  <2>1. /\ pc' = pc /\ tries' = tries /\ late' = late /\ shutdown' = shutdown
        /\ left' = Pred(left) /\ nap' = Pred(nap)
    BY <1>11 DEF Tick
  <2>2. /\ left' \in Nat /\ left' <= left /\ nap' \in Nat
        /\ left > 0 => left' = left - 1
        /\ nap > 0 => nap' = nap - 1
        /\ nap = 0 => nap' = 0
    BY <1>0, <2>1 DEF Pred
  <2>3. tries > 0 => Slept(tries - 1) \in Nat
    BY <1>0, <1>13
  <2>4. Slept(tries) \in Nat
    BY <1>0, <1>13
  <2> QED
    BY <1>0, <2>1, <2>2, <2>3, <2>4
<1>12. CASE UNCHANGED vars
  BY <1>12 DEF vars, runVars
<1> QED
  BY <1>1, <1>2, <1>3, <1>4, <1>5, <1>6, <1>7, <1>8, <1>9, <1>10, <1>11, <1>12
  DEF Next, WorkerStep, RunStep, HandlerOutcome

\* The deadline bounds the retries of a run for every backoff and every cap.
THEOREM DeadlineBoundsBackoffs == Spec => []BackoffsFitDeadline
<1>1. Init => LateInv /\ BudgetInv
  BY DEF Init, LateInv, BudgetInv
<1>2. TypeInv /\ BudgetInv => BackoffsFitDeadline
  <2> SUFFICES ASSUME TypeInv, BudgetInv, pc \in InRun, late = 0, tries > 0
               PROVE  Slept(tries - 1) <= Deadline
    BY DEF BackoffsFitDeadline, Slept
  <2>1. tries - 1 \in Nat /\ left \in Nat /\ Backoff \in Nat /\ Deadline \in Nat
    BY WorkerAssumption DEF TypeInv, TypeOK
  <2>2. Slept(tries - 1) \in Nat
    BY <2>1 DEF Slept
  <2> QED
    BY <2>1, <2>2 DEF BudgetInv, InRun
<1> QED
  BY <1>1, <1>2, TypeInit, TypeStep, LateStep, BudgetStep, PTL DEF Spec

-----------------------------------------------------------------------------
(* Deduplication.  A client's answer names a row that was pending; from then   *)
(* on the row's attempts only grow, and past an attempt of the run that        *)
(* completes it they have grown.                                               *)

Answered(c) == enq[c].step = "answered"

ServedInv ==
    \A c \in Client : Answered(c) =>
        LET id == enq[c].task IN
        /\ tasks[id].attempts >= enq[c].seen
        /\ tasks[id].status = "success" => tasks[id].attempts > enq[c].seen
        /\ id = cur /\ pc \in {"handling", "sleeping", "completing"}
              => tasks[id].attempts > enq[c].seen

\* A client's task is pending when the client is answered, and an attempt is made
\* between any claim and any success.
LEMMA ServedStep == TypeInv /\ RunningIsClaimed /\ ServedInv /\ [Next]_vars => ServedInv'
<1> SUFFICES ASSUME TypeInv, RunningIsClaimed, ServedInv, [Next]_vars PROVE ServedInv'
  OBVIOUS
<1>0. /\ Client \subseteq Enqueuer /\ enq \in [Enqueuer -> Call]
      /\ \A c \in Client : Answered(c) =>
           enq[c].task \in TaskIds /\ enq[c].seen \in Nat
           /\ tasks[enq[c].task].attempts \in Nat
  <2>1. ASSUME NEW c \in Client, Answered(c)
        PROVE  enq[c].task \in TaskIds /\ enq[c].seen \in Nat
    BY <2>1 DEF TypeInv, TypeOK, CallsFit, Enqueuer, Answered, Call, IdleCall
  <2> QED
    BY <2>1, RowTypes DEF TypeInv, TypeOK, Enqueuer
<1>1. ASSUME NEW c \in Client, NEW item \in Request, PostSync(c, item) PROVE ServedInv'
  <2>1. tasks' = tasks /\ pc' = pc /\ cur' = cur
    BY <1>1 DEF PostSync, runVars
  <2>2. CASE enq' = [enq EXCEPT ![c] = InsertCall(item, now)]
    BY <1>0, <2>1, <2>2 DEF ServedInv, Answered, InsertCall
  <2>3. CASE \E id \in IdenticalPending(item) :
               enq' = [enq EXCEPT ![c] = AnsweredCall(id, tasks[id].attempts)]
    <3>1. PICK id \in IdenticalPending(item) :
            enq' = [enq EXCEPT ![c] = AnsweredCall(id, tasks[id].attempts)]
      BY <2>3
    <3>2. id \in TaskIds /\ tasks[id].status = "pending" /\ tasks[id].attempts \in Nat
      BY RowTypes DEF IdenticalPending, WithStatus
    <3>3. pc \in InRun => id # cur
      BY <3>2 DEF RunningIsClaimed, WithStatus
    <3>4. enq'[c].task = id /\ enq'[c].seen = tasks[id].attempts
      BY <1>0, <3>1 DEF AnsweredCall
    <3>5. \A d \in Client \ {c} : enq'[d] = enq[d]
      BY <1>0, <3>1
    <3> QED
      BY <1>0, <2>1, <3>2, <3>3, <3>4, <3>5 DEF ServedInv, Answered, InRun
  <2> QED
    BY <1>1, <2>2, <2>3 DEF PostSync
<1>2. ASSUME NEW c \in Client, PostSyncLost(c) PROVE ServedInv'
  BY <1>0, <1>2 DEF PostSyncLost, ServedInv, Answered, IdleCall, runVars
<1>3. ASSUME NEW c \in Client, PostSyncInsert(c) PROVE ServedInv'
  <2>1. PICK created \in enq[c].since .. now : Insert(enq[c].item, created)
    BY <1>3 DEF PostSyncInsert
  <2>2. /\ Len(tasks) + 1 \notin TaskIds /\ tasks'[Len(tasks) + 1].status = "pending"
        /\ tasks'[Len(tasks) + 1].attempts = 0
        /\ \A i \in TaskIds : tasks'[i] = tasks[i]
    BY <1>0, <1>3, <2>1, InsertedRow DEF PostSyncInsert
  <2>3. pc' = pc /\ cur' = cur /\ (pc \in InRun => cur # Len(tasks) + 1)
    BY <1>3, <2>2 DEF PostSyncInsert, runVars, TypeInv, ClaimFits
  <2>4. enq'[c].task = Len(tasks) + 1 /\ enq'[c].seen = 0
    BY <1>0, <1>3 DEF PostSyncInsert, AnsweredCall
  <2>5. \A d \in Client \ {c} : enq'[d] = enq[d]
    BY <1>0, <1>3 DEF PostSyncInsert
  <2> QED
    BY <1>0, <2>2, <2>3, <2>4, <2>5 DEF ServedInv, Answered, InRun
<1>4. ASSUME \A c \in Client : enq'[c] = enq[c],
             tasks' = tasks,
             pc' \in {"handling", "sleeping", "completing"}
                => cur' = cur /\ pc \in {"handling", "sleeping", "completing"}
      PROVE  ServedInv'
  BY <1>4 DEF ServedInv, Answered
<1>5. CASE Boot \/ Stop \/ Idle \/ Wait \/ CheckStart \/ SchedulerSkip \/ SchedulerWants
  BY <1>4, <1>5 DEF Boot, Stop, Idle, Wait, CheckStart, SchedulerSkip, SchedulerWants, NextJob,
                    runVars
<1>6. CASE HandlerReturns \/ HandlerRejects \/ HandlerRaises \/ Wake
  BY <1>4, <1>6 DEF HandlerReturns, HandlerRejects, HandlerRaises, Wake, runVars
<1>7. CASE Signal \/ Tick
  BY <1>4, <1>7 DEF Signal, Tick, runVars
<1>8. CASE SchedulerRead
  <2>1. \A c \in Client : enq'[c] = enq[c]
    BY <1>0, <1>8, SchedulerAssumption DEF SchedulerRead
  <2> QED
    BY <1>4, <1>8, <2>1 DEF SchedulerRead, NextJob, runVars
<1>9. CASE Crash
  <2>1. \A c \in Client : enq'[c] = enq[c]
    BY <1>0, <1>9, SchedulerAssumption DEF Crash
  <2> QED
    BY <1>4, <1>9, <2>1 DEF Crash, InRun
<1>10. CASE UNCHANGED vars
  BY <1>4, <1>10 DEF vars, runVars
<1>11. CASE Requeue
  <2>1. pc' = "poll" /\ enq' = enq
    BY <1>11 DEF Requeue
  <2>2. \A i \in TaskIds : /\ tasks'[i].attempts = tasks[i].attempts
                           /\ tasks'[i].status = "success" => tasks[i].status = "success"
    BY <1>11, RequeuedRows DEF Requeue
  <2> QED
    BY <1>0, <2>1, <2>2 DEF ServedInv, Answered
<1>12. CASE Claim
  <2>1. PICK id \in TaskIds : ClaimNext(id)
    BY <1>12 DEF Claim
  <2>2. pc' \in {"attempt", "failing"} /\ enq' = enq
    BY <1>12 DEF Claim
  <2>3. \A i \in TaskIds : /\ tasks'[i].attempts = tasks[i].attempts
                           /\ tasks'[i].status = "success" => tasks[i].status = "success"
    BY <2>1, SetRows DEF ClaimNext, TaskStatus
  <2> QED
    BY <1>0, <2>2, <2>3 DEF ServedInv, Answered
<1>13. CASE Attempt
  <2>1. enq' = enq /\ cur' = cur
    BY <1>13 DEF Attempt
  <2>2. /\ tasks'[cur].attempts = tasks[cur].attempts + 1
        /\ \A i \in TaskIds : i # cur => tasks'[i] = tasks[i]
    BY <1>13, AttemptRows
  <2> QED
    BY <1>0, <2>1, <2>2 DEF ServedInv, Answered
<1>14. CASE CompleteTask
  <2>1. cur \in TaskIds /\ pc = "completing" /\ pc' = "poll" /\ enq' = enq
    BY <1>14 DEF CompleteTask, LeaveRun, TypeInv, ClaimFits, InRun
  <2>2. \A i \in TaskIds : /\ tasks'[i].attempts = tasks[i].attempts
                           /\ i # cur => tasks'[i].status = tasks[i].status
    BY <1>14, <2>1, SetRows DEF CompleteTask, Complete, TaskStatus
  <2> QED
    BY <1>0, <2>1, <2>2 DEF ServedInv, Answered
<1>15. CASE FailTask
  <2>1. cur \in TaskIds /\ pc' = "poll" /\ enq' = enq
    BY <1>15 DEF FailTask, LeaveRun, TypeInv, ClaimFits, InRun
  <2>2. \A i \in TaskIds : /\ tasks'[i].attempts = tasks[i].attempts
                           /\ tasks'[i].status = "success" => tasks[i].status = "success"
    BY <1>15, <2>1, SetRows DEF FailTask, Fail, TaskStatus
  <2> QED
    BY <1>0, <2>1, <2>2 DEF ServedInv, Answered
<1>16. CASE SchedulerInsert
  <2>1. PICK created \in enq[Scheduler].since .. now : Insert(enq[Scheduler].item, created)
    BY <1>16 DEF SchedulerInsert
  <2>2. \A i \in TaskIds : tasks'[i] = tasks[i]
    BY <1>16, <2>1, InsertedRow DEF SchedulerInsert, TypeInv, ScheduleFits, Enqueuer
  <2>3. \A c \in Client : enq'[c] = enq[c]
    BY <1>0, <1>16, SchedulerAssumption DEF SchedulerInsert
  <2>4. pc' \in {"sched", "wait"}
    BY <1>16 DEF SchedulerInsert, NextJob
  <2> QED
    BY <1>0, <2>2, <2>3, <2>4 DEF ServedInv, Answered
<1> QED
  BY <1>1, <1>2, <1>3, <1>5, <1>6, <1>7, <1>8, <1>9, <1>10, <1>11, <1>12, <1>13, <1>14,
     <1>15, <1>16
  DEF Next, WebStep, WorkerStep, RunStep, HandlerOutcome, ScheduleStep

\* A task that answered a request succeeds only by an attempt begun after it.
THEOREM EveryAnswerIsServed == Spec => []RequestServed
<1>1. Init => RunningIsClaimed /\ ServedInv
  BY DEF Init, RunningIsClaimed, WithStatus, TaskIds, InRun, ServedInv, Answered, IdleCall, Enqueuer
<1>2. ServedInv => RequestServed
  BY DEF ServedInv, RequestServed, Answered
<1> QED
  BY <1>1, <1>2, TypeInit, TypeStep, RunningStep, ServedStep, PTL DEF Spec

-----------------------------------------------------------------------------
(* Refinement.  Every step of Worker is a step of TaskLifecycle or leaves its  *)
(* two variables alone.                                                        *)

\* Past mark_running_attempt an attempt has been made in this run.
TriesInv == pc \in {"handling", "sleeping", "completing"} => tries > 0

\* A handler is called only after an attempt was counted.
LEMMA TriesStep == TypeInv /\ TriesInv /\ [Next]_vars => TriesInv'
<1> SUFFICES ASSUME TypeInv, TriesInv, [Next]_vars PROVE TriesInv'
  OBVIOUS
<1> USE DEF TriesInv
<1>1. CASE WebStep \/ Signal \/ Tick
  BY <1>1 DEF WebStep, PostSync, PostSyncInsert, PostSyncLost, Signal, Tick, runVars
<1>2. CASE Boot \/ Requeue \/ Idle \/ Wait \/ Stop \/ Crash \/ Claim \/ Wake
  BY <1>2 DEF Boot, Requeue, Idle, Wait, Stop, Crash, Claim, Wake
<1>3. CASE ScheduleStep
  BY <1>3 DEF ScheduleStep, CheckStart, SchedulerSkip, SchedulerWants, SchedulerRead,
              SchedulerInsert, NextJob
<1>4. CASE CompleteTask \/ FailTask
  BY <1>4 DEF CompleteTask, FailTask, LeaveRun
<1>5. CASE Attempt
  BY <1>5 DEF Attempt, TypeInv, TypeOK
<1>6. CASE HandlerOutcome
  BY <1>6 DEF HandlerOutcome, HandlerReturns, HandlerRejects, HandlerRaises, runVars
<1>7. CASE UNCHANGED vars
  BY <1>7 DEF vars, runVars
<1> QED
  BY <1>1, <1>2, <1>3, <1>4, <1>5, <1>6, <1>7 DEF Next, WorkerStep, RunStep

\* The statuses are a sequence, and an INSERT appends to it.
LEMMA StatusSeq ==
    ASSUME NEW t \in Seq(Task), NEW s, s = [id \in DOMAIN t |-> t[id].status]
    PROVE  /\ s \in Seq(TaskStatus) /\ Len(s) = Len(t)
           /\ Len(t) \in Nat /\ DOMAIN t = 1 .. Len(t)
           /\ \A i \in 1 .. Len(t) : s[i] = t[i].status
<1>1. Len(t) \in Nat /\ DOMAIN t = 1 .. Len(t)
  BY LenProperties
<1>2. \A i \in 1 .. Len(t) : t[i].status \in TaskStatus
  <2>1. \A i \in 1 .. Len(t) : t[i] \in Task
    BY ElementOfSeq
  <2> QED
    BY <2>1 DEF Task
<1>3. s \in [1 .. Len(t) -> TaskStatus]
  BY <1>1, <1>2
<1>4. s \in Seq(TaskStatus) /\ Len(s) = Len(t)
  BY <1>1, <1>3, LenProperties, SeqDef
<1> QED
  BY <1>1, <1>4

\* The INSERT of enqueue is an arrival of the abstract specification.
LEMMA InsertArrives ==
    ASSUME TypeInv, TypeInv', UNCHANGED tries, NEW e \in Enqueuer, enq[e].step = "insert",
           NEW created \in enq[e].since .. now, Insert(enq[e].item, created)
    PROVE  Lifecycle!Arrive
<1> DEFINE L == LifecycleStatus
<1>1. /\ Len(tasks) + 1 \notin TaskIds /\ TaskIds' = TaskIds \cup {Len(tasks) + 1}
      /\ tasks'[Len(tasks) + 1].status = "pending"
      /\ \A i \in TaskIds : tasks'[i] = tasks[i]
  BY InsertedRow
<1>2. Len(tasks') = Len(tasks) + 1
  <2>1. enq[e].item \in Item /\ created \in Nat
    BY InsertTypes DEF TypeInv
  <2> QED
    BY <2>1, NewRow DEF TypeInv, TypeOK
<1>3. /\ L \in Seq(TaskStatus) /\ Len(L) = Len(tasks) /\ Len(tasks) \in Nat
      /\ TaskIds = 1 .. Len(tasks)
      /\ \A i \in 1 .. Len(tasks) : L[i] = tasks[i].status
  BY StatusSeq DEF TypeInv, TypeOK, LifecycleStatus, TaskIds
<1>4. /\ L' \in Seq(TaskStatus) /\ Len(L') = Len(tasks) + 1
      /\ \A i \in 1 .. Len(tasks) + 1 : L'[i] = tasks'[i].status
  BY <1>2, StatusSeq DEF TypeInv, TypeOK, LifecycleStatus, TaskIds
<1>5. /\ Append(L, "pending") \in Seq(TaskStatus) /\ Len(Append(L, "pending")) = Len(tasks) + 1
      /\ \A i \in 1 .. Len(tasks) : Append(L, "pending")[i] = tasks[i].status
      /\ Append(L, "pending")[Len(tasks) + 1] = "pending"
  BY <1>3, AppendProperties DEF TaskStatus
<1>6. \A i \in 1 .. Len(tasks) + 1 : L'[i] = Append(L, "pending")[i]
  BY <1>1, <1>3, <1>4, <1>5
<1>7. L' = Append(L, "pending")
  BY <1>4, <1>5, <1>6, SeqEqual
<1> QED
  BY <1>7 DEF Lifecycle!Arrive

\* A change of one row's status is that change of the task's.
LEMMA StatusSet ==
    ASSUME TypeInv, NEW id \in TaskIds, NEW s \in TaskStatus,
           tasks' = [tasks EXCEPT ![id].status = s]
    PROVE  LifecycleStatus' = [LifecycleStatus EXCEPT ![id] = s]
<1>1. /\ TaskIds' = TaskIds /\ tasks'[id].status = s
      /\ \A i \in TaskIds \ {id} : tasks'[i].status = tasks[i].status
  BY SetRows
<1>2. LifecycleStatus' = [i \in TaskIds |-> IF i = id THEN s ELSE tasks[i].status]
  BY <1>1 DEF LifecycleStatus
<1> QED
  BY <1>2 DEF LifecycleStatus

\* Every step of the queue is a step of its abstract specification or a stutter.
LEMMA LifecycleStep ==
    TypeInv /\ TypeInv' /\ RunningIsClaimed /\ TriesInv /\ [Next]_vars
        => [Lifecycle!Next]_<<LifecycleStatus, tries > 0>>
<1> SUFFICES ASSUME TypeInv, TypeInv', RunningIsClaimed, TriesInv, [Next]_vars
             PROVE  Lifecycle!Next \/ UNCHANGED <<LifecycleStatus, tries > 0>>
  OBVIOUS
<1> DEFINE L == LifecycleStatus
           Stutter == UNCHANGED <<LifecycleStatus, tries > 0>>
<1>0. /\ tries \in Nat
      /\ Lifecycle!Running = WithStatus("running")
      /\ \A i \in TaskIds : L[i] = tasks[i].status
      /\ DOMAIN L = TaskIds
  BY DEF TypeInv, TypeOK, Lifecycle!Running, WithStatus, LifecycleStatus
<1>1. ASSUME UNCHANGED <<tasks, tries>> PROVE Stutter
  BY <1>1 DEF LifecycleStatus, TaskIds
<1>2. ASSUME NEW c \in Client, NEW item \in Request, PostSync(c, item) PROVE Stutter
  BY <1>1, <1>2 DEF PostSync, runVars
<1>3. ASSUME NEW c \in Client, PostSyncLost(c) PROVE Stutter
  BY <1>1, <1>3 DEF PostSyncLost, runVars
<1>4. CASE Boot \/ Stop \/ Idle \/ Wait \/ CheckStart \/ SchedulerSkip \/ SchedulerWants
             \/ SchedulerRead
  BY <1>1, <1>4 DEF Boot, Stop, Idle, Wait, CheckStart, SchedulerSkip, SchedulerWants,
                    SchedulerRead, runVars
<1>5. CASE HandlerReturns \/ HandlerRejects \/ HandlerRaises \/ Wake \/ Signal \/ Tick
  BY <1>1, <1>5 DEF HandlerReturns, HandlerRejects, HandlerRaises, Wake, Signal, Tick, runVars
<1>6. CASE UNCHANGED vars
  BY <1>1, <1>6 DEF vars, runVars
<1>7. ASSUME NEW c \in Client, PostSyncInsert(c) PROVE Lifecycle!Arrive
  <2>1. PICK created \in enq[c].since .. now : Insert(enq[c].item, created)
    BY <1>7 DEF PostSyncInsert
  <2>2. c \in Enqueuer /\ enq[c].step = "insert" /\ UNCHANGED tries
    BY <1>7 DEF PostSyncInsert, Enqueuer, runVars
  <2> QED
    BY <2>1, <2>2, InsertArrives
<1>8. CASE SchedulerInsert
  <2>1. PICK created \in enq[Scheduler].since .. now : Insert(enq[Scheduler].item, created)
    BY <1>8 DEF SchedulerInsert
  <2>2. Scheduler \in Enqueuer /\ enq[Scheduler].step = "insert" /\ UNCHANGED tries
    BY <1>8 DEF SchedulerInsert, Enqueuer, runVars, TypeInv, ScheduleFits
  <2>3. Lifecycle!Arrive
    BY <2>1, <2>2, InsertArrives
  <2> QED
    BY <2>3 DEF Lifecycle!Next
<1>9. CASE Claim
  <2>1. PICK id \in TaskIds : ClaimNext(id)
    BY <1>9 DEF Claim
  <2>2. tasks[id].status = "pending" /\ L' = [L EXCEPT ![id] = "running"]
    BY <2>1, StatusSet DEF ClaimNext, OldestPending, WithStatus, TaskStatus
  <2>3. WithStatus("running") = {} /\ tries' = 0
    BY <1>9 DEF Claim, RunningIsClaimed, TypeInv, ClaimFits, InRun
  <2>4. Lifecycle!Start
    <3>1. Lifecycle!Running = {} /\ id \in DOMAIN L /\ L[id] = "pending"
      BY <1>0, <2>2, <2>3
    <3>2. (tries > 0)' = FALSE
      BY <2>3
    <3> QED
      BY <2>2, <3>1, <3>2, Zenon DEF Lifecycle!Start
  <2> QED
    BY <2>4 DEF Lifecycle!Next
<1>10. CASE Attempt
  <2>1. WithStatus("running") = {cur} /\ tries' > 0
    BY <1>0, <1>10 DEF Attempt, RunningIsClaimed, InRun
  <2>2. L' = L
    BY <1>10, AttemptRows DEF LifecycleStatus
  <2>3. Lifecycle!Work
    BY <1>0, <2>1, <2>2 DEF Lifecycle!Work
  <2> QED
    BY <2>3 DEF Lifecycle!Next
<1>11. CASE CompleteTask
  <2>1. cur \in TaskIds /\ WithStatus("running") = {cur} /\ tries > 0 /\ tries' = 0
    BY <1>11 DEF CompleteTask, LeaveRun, RunningIsClaimed, TypeInv, ClaimFits, InRun, TriesInv
  <2>2. L' = [L EXCEPT ![cur] = "success"]
    BY <1>11, <2>1, StatusSet DEF CompleteTask, Complete, TaskStatus
  <2>3. Lifecycle!Succeed
    <3>1. cur \in Lifecycle!Running
      BY <1>0, <2>1
    <3>2. (tries > 0)' = FALSE
      BY <2>1
    <3> QED
      BY <2>1, <2>2, <3>1, <3>2, Zenon DEF Lifecycle!Succeed
  <2> QED
    BY <2>3 DEF Lifecycle!Next
<1>12. CASE FailTask
  <2>1. cur \in TaskIds /\ WithStatus("running") = {cur} /\ tries' = 0
    BY <1>12 DEF FailTask, LeaveRun, RunningIsClaimed, TypeInv, ClaimFits, InRun
  <2>2. L' = [L EXCEPT ![cur] = "error"]
    BY <1>12, <2>1, StatusSet DEF FailTask, Fail, TaskStatus
  <2>3. Lifecycle!GiveUp
    <3>1. cur \in Lifecycle!Running
      BY <1>0, <2>1
    <3>2. (tries > 0)' = FALSE
      BY <2>1
    <3> QED
      BY <2>1, <2>2, <3>1, <3>2, Zenon DEF Lifecycle!GiveUp
  <2> QED
    BY <2>3 DEF Lifecycle!Next
<1>13. CASE Crash
  <2>1. L' = L /\ tries' = 0
    BY <1>13 DEF Crash, LifecycleStatus, TaskIds
  <2>2. Lifecycle!Interrupt
    BY <2>1 DEF Lifecycle!Interrupt
  <2> QED
    BY <2>2 DEF Lifecycle!Next
<1>14. CASE Requeue
  <2>1. tries = 0 /\ tries' = 0
    BY <1>14 DEF Requeue, TypeInv, ClaimFits, InRun, runVars
  <2>2. L' = [i \in TaskIds |-> IF L[i] = "running" THEN "pending" ELSE L[i]]
    BY <1>0, <1>14, RequeuedRows DEF Requeue, LifecycleStatus
  <2>3. CASE WithStatus("running") = {}
    <3>1. \A i \in TaskIds : L[i] # "running"
      BY <1>0, <2>3 DEF WithStatus
    <3>2. L' = L
      BY <1>0, <2>2, <3>1 DEF LifecycleStatus
    <3> QED
      BY <2>1, <3>2
  <2>4. CASE WithStatus("running") # {}
    <3>1. PICK i \in WithStatus("running") : TRUE
      BY <2>4
    <3>2. i \in TaskIds /\ \A j \in TaskIds : L[j] = "running" <=> j = i
      BY <1>0, <3>1 DEF RunningIsClaimed, WithStatus
    <3>3. L' = [L EXCEPT ![i] = "pending"]
      BY <1>0, <2>2, <3>2 DEF LifecycleStatus
    <3>4. i \in Lifecycle!Running /\ ~(tries > 0)
      BY <1>0, <2>1, <3>1
    <3>5. UNCHANGED (tries > 0)
      BY <2>1
    <3>6. Lifecycle!GoBack
      BY <3>3, <3>4, <3>5, Zenon DEF Lifecycle!GoBack
    <3> QED
      BY <3>6 DEF Lifecycle!Next
  <2> QED
    BY <2>3, <2>4
<1> QED
  BY <1>2, <1>3, <1>4, <1>5, <1>6, <1>7, <1>8, <1>9, <1>10, <1>11, <1>12, <1>13, <1>14
  DEF Next, WebStep, WorkerStep, RunStep, HandlerOutcome, ScheduleStep, Lifecycle!Next

\* The queue implements its abstract specification.
THEOREM WorkerImplementsLifecycle == Spec => ImplementsLifecycle
<1>1. Init => Lifecycle!Init
  <2> SUFFICES ASSUME Init PROVE Lifecycle!Init
    OBVIOUS
  <2>1. Leftover \in Seq(Item) /\ Len(Leftover) \in Nat /\ DOMAIN Leftover = 1 .. Len(Leftover)
    BY LenProperties, WorkerAssumption
  <2>2. LifecycleStatus \in [1 .. Len(Leftover) -> {"pending"}]
    BY <2>1 DEF Init, LifecycleStatus, TaskIds
  <2>3. LifecycleStatus \in Seq({"pending"})
    BY <2>1, <2>2, SeqDef
  <2> QED
    BY <2>3 DEF Init, Lifecycle!Init
<1>2. Init => RunningIsClaimed /\ TriesInv
  BY DEF Init, RunningIsClaimed, WithStatus, TaskIds, InRun, TriesInv
<1> QED
  BY <1>1, <1>2, TypeInit, TypeStep, RunningStep, TriesStep, LifecycleStep, PTL
  DEF Spec, ImplementsLifecycle, Lifecycle!Spec

-----------------------------------------------------------------------------
(* The schedule.  A change of offset skips some wall times, or repeats them.   *)
(* At any other wall time of a day, the cutoff of a job is one instant for the *)
(* whole of that day, and exactly the instants from it on read that time or a  *)
(* later one on the wall clock.  So the row of a scheduled insert lies past    *)
(* the cutoff, and hides the job for the rest of the day unless it fails.      *)

\* The zone's clock shows a wall time once: it is neither skipped nor repeated.
ShownOnce(wall) ==
    \/ wall < Transition + OffsetBefore /\ wall < Transition + OffsetAfter
    \/ wall >= Transition + OffsetBefore /\ wall >= Transition + OffsetAfter

\* The instant at which it does.
InstantOf(wall) ==
    wall - (IF wall < Transition + OffsetBefore THEN OffsetBefore ELSE OffsetAfter)

\* A wall time that is shown once has passed just when the instant of it has.
LEMMA InstantIsExact ==
    ASSUME NEW wall \in Nat, ShownOnce(wall), NEW u \in Nat
    PROVE  /\ InstantOf(wall) \in Int
           /\ Wall(u) >= wall <=> u >= InstantOf(wall)
BY LocalTimeAssumption DEF ShownOnce, InstantOf, Wall

\* What check_and_enqueue compares created_at with is right in every zone: a task was
\* made at or after scheduled_since if and only if the wall clock then read the job's
\* time, or a later one, of the day on which the scheduler looks.  The job's time must
\* be one that the clock shows once on that day.
THEOREM ScheduledSinceIsExact ==
    ASSUME NEW time \in Nat, NEW u \in Nat, NEW v \in Nat, ShownOnce(Today(time, v))
    PROVE  /\ ScheduledSince(time, v) = InstantOf(Today(time, v))
           /\ u >= ScheduledSince(time, v) <=> Wall(u) >= Today(time, v)
           /\ time < DayLength =>
                (u >= ScheduledSince(time, v) <=> SinceTimeOfDay(u, time, v))
<1>1. Today(time, v) \in Nat
  BY WallClock, LocalTimeAssumption DEF Today
<1>2. ScheduledSince(time, v) = InstantOf(Today(time, v))
  <2> DEFINE wall == Today(time, v)
  <2>1. WallOffset(wall, Fold(v)) =
          IF wall < Transition + OffsetBefore THEN OffsetBefore ELSE OffsetAfter
    <3> HIDE DEF wall
    <3> QED
      BY <1>1, LocalTimeAssumption DEF WallOffset, ShownOnce, wall
  <2> QED
    BY <2>1 DEF ScheduledSince, InstantOf
<1>3. u >= ScheduledSince(time, v) <=> Wall(u) >= Today(time, v)
  BY <1>1, <1>2, InstantIsExact
<1>4. ASSUME time < DayLength
      PROVE  Wall(u) >= Today(time, v) <=> SinceTimeOfDay(u, time, v)
  <2> DEFINE a == LocalDay(u)
             b == LocalDay(v)
             s == TimeOfDay(u)
  <2>1. /\ a \in Nat /\ b \in Nat /\ s \in Nat /\ s < DayLength
        /\ Wall(u) = a * DayLength + s /\ Today(time, v) = b * DayLength + time
        /\ DayLength \in Nat
    BY WallClock, LocalTimeAssumption DEF Today
  <2>2. SinceTimeOfDay(u, time, v) <=> a > b \/ (a = b /\ s >= time)
    BY DEF SinceTimeOfDay
  <2> HIDE DEF a, b, s
  <2>3. \A x, y, d \in Nat : x < y => x * d + d <= y * d
    OBVIOUS
  <2>4. a * DayLength \in Nat /\ b * DayLength \in Nat
    BY <2>1
  <2>5. CASE a > b
    BY <1>4, <2>1, <2>2, <2>3, <2>4, <2>5
  <2>6. CASE a < b
    BY <2>1, <2>2, <2>3, <2>4, <2>6
  <2>7. CASE a = b
    BY <2>1, <2>2, <2>4, <2>7
  <2> QED
    BY <2>1, <2>5, <2>6, <2>7
<1> QED
  BY <1>2, <1>3, <1>4

\* The time of every job is one that the zone's clock shows once on every day.
JobsShownOnce ==
    \A j \in DOMAIN Jobs : \A day \in Nat : ShownOnce(day * DayLength + Jobs[j].time)

\* The instant of a job's time in a local day.
Cutoff(j, day) == InstantOf(day * DayLength + Jobs[j].time)

\* The clock arithmetic of check_and_enqueue for one instant.
LEMMA CutoffOfDay ==
    ASSUME JobsShownOnce, NEW j \in DOMAIN Jobs, NEW u \in Nat
    PROVE  /\ LocalDay(u) \in Int
           /\ Cutoff(j, LocalDay(u)) \in Int
           /\ ScheduledSince(Jobs[j].time, u) = Cutoff(j, LocalDay(u))
           /\ Due(Jobs[j].time, u) => Cutoff(j, LocalDay(u)) <= u
<1>1. Jobs[j].time \in Nat /\ LocalDay(u) \in Nat
  BY JobsSchedule, WallClock
<1>2. Today(Jobs[j].time, u) = LocalDay(u) * DayLength + Jobs[j].time
  BY DEF Today
<1>3. Today(Jobs[j].time, u) \in Nat
  BY <1>1, <1>2, LocalTimeAssumption
<1>4. ShownOnce(Today(Jobs[j].time, u))
  BY <1>1, <1>2 DEF JobsShownOnce
<1>5. ScheduledSince(Jobs[j].time, u) = Cutoff(j, LocalDay(u))
  BY <1>1, <1>2, <1>4, ScheduledSinceIsExact DEF Cutoff
<1>6. Cutoff(j, LocalDay(u)) \in Int
  BY <1>2, <1>3, <1>4, InstantIsExact DEF Cutoff
<1>7. Due(Jobs[j].time, u) => Wall(u) >= Today(Jobs[j].time, u)
  BY <1>1, <1>2, <1>3, WallClock, LocalTimeAssumption DEF Due
<1> QED
  BY <1>1, <1>3, <1>4, <1>5, <1>6, <1>7, ScheduledSinceIsExact

\* No step takes a row away, changes what it asks for or when it was made, or
\* lets it leave a terminal state.
LEMMA RowsKept ==
    ASSUME TypeInv, RunningIsClaimed, [Next]_vars, NEW i \in TaskIds
    PROVE  /\ i \in TaskIds'
           /\ tasks'[i].item = tasks[i].item
           /\ tasks'[i].created = tasks[i].created
           /\ tasks[i].status \in Settled => tasks'[i].status = tasks[i].status
<1> DEFINE Kept == /\ i \in TaskIds'
                   /\ tasks'[i].item = tasks[i].item
                   /\ tasks'[i].created = tasks[i].created
                   /\ tasks[i].status \in Settled => tasks'[i].status = tasks[i].status
<1>1. CASE tasks' = tasks
  BY <1>1 DEF TaskIds
<1>2. ASSUME NEW e \in Enqueuer, enq[e].step = "insert",
             NEW created \in enq[e].since .. now, Insert(enq[e].item, created)
      PROVE  Kept
  BY <1>2, InsertedRow
<1>3. ASSUME NEW c \in Client, PostSyncInsert(c) PROVE Kept
  BY <1>2, <1>3 DEF PostSyncInsert, Enqueuer
<1>4. CASE SchedulerInsert
  BY <1>2, <1>4 DEF SchedulerInsert, Enqueuer, TypeInv, ScheduleFits
<1>5. CASE Requeue
  BY <1>5, RequeuedRows DEF Requeue, Settled
<1>6. CASE Claim
  <2>1. PICK id \in TaskIds : ClaimNext(id)
    BY <1>6 DEF Claim
  <2>2. tasks[id].status = "pending" /\ tasks' = [tasks EXCEPT ![id].status = "running"]
    BY <2>1 DEF ClaimNext, OldestPending, WithStatus
  <2>3. "running" \in TaskStatus
    BY DEF TaskStatus
  <2>4. /\ TaskIds' = TaskIds
        /\ \A k \in TaskIds : /\ tasks'[k].item = tasks[k].item
                              /\ tasks'[k].created = tasks[k].created
                              /\ k # id => tasks'[k].status = tasks[k].status
    BY ZenonT(60), <2>2, <2>3, SetRows
  <2> QED
    BY <2>2, <2>4 DEF Settled
<1>7. CASE Attempt
  BY <1>7, AttemptRows
<1>8. CASE CompleteTask \/ FailTask
  <2>1. PICK s \in TaskStatus : tasks' = [tasks EXCEPT ![cur].status = s]
    BY <1>8 DEF CompleteTask, FailTask, Complete, Fail, TaskStatus
  <2>2. cur \in TaskIds /\ tasks[cur].status = "running"
    BY <1>8 DEF CompleteTask, FailTask, RunningIsClaimed, InRun, WithStatus
  <2> QED
    BY <2>1, <2>2, SetRows DEF Settled
<1> QED
  BY <1>1, <1>3, <1>4, <1>5, <1>6, <1>7, <1>8
  DEF Next, WebStep, WorkerStep, RunStep, HandlerOutcome, ScheduleStep, vars, PostSync,
      PostSyncLost, Boot, Stop, Idle, Wait, HandlerReturns, HandlerRejects, HandlerRaises, Wake,
      CheckStart, SchedulerSkip, SchedulerWants, SchedulerRead, Crash, Signal, Tick

\* A scheduled insert's row is of its job's type and lies past the cutoff.
BookedRow(b) ==
    /\ b.task \in TaskIds
    /\ \E j \in DOMAIN Jobs :
         /\ b.type = Jobs[j].type /\ tasks[b.task].item.type = b.type
         /\ b.day \in Int /\ tasks[b.task].created >= Cutoff(j, b.day)

\* What the scheduler knows between its query for `existing` and its INSERT.
Deciding ==
    /\ pc \in {"enqueue", "insert"} =>
         /\ Due(Jobs[job].time, asOf)
         /\ \A b \in booked : b.type = Jobs[job].type /\ b.day = LocalDay(asOf)
                                 => tasks[b.task].status = "error"
    /\ pc = "insert" =>
         /\ enq[Scheduler].item = Scheduled(Jobs[job].type)
         /\ enq[Scheduler].since >= asOf

OnceInv == (\A b \in booked : BookedRow(b)) /\ Deciding /\ OncePerDay

\* A query that finds nothing past the cutoff finds no booked row of that day that
\* has not failed, and nobody but the scheduler books one before its INSERT.
LEMMA OnceStep ==
    ASSUME JobsShownOnce
    PROVE  TypeInv /\ RunningIsClaimed /\ OnceInv /\ [Next]_vars => OnceInv'
<1> SUFFICES ASSUME TypeInv, RunningIsClaimed, OnceInv, [Next]_vars PROVE OnceInv'
  OBVIOUS
<1>1. \A i \in TaskIds :
        /\ i \in TaskIds'
        /\ tasks'[i].item = tasks[i].item
        /\ tasks'[i].created = tasks[i].created
        /\ tasks[i].status = "error" => tasks'[i].status = "error"
  BY RowsKept DEF Settled
<1>2. asOf \in Nat /\ now \in Nat
  BY DEF TypeInv, TypeOK
<1>3. \A b \in booked : BookedRow(b)'
  BY <1>1 DEF OnceInv, BookedRow, Cutoff
<1>4. ASSUME booked' = booked PROVE OncePerDay'
  BY <1>1, <1>4 DEF OnceInv, OncePerDay, BookedRow
<1>5. ASSUME booked' = booked,
             pc' \in {"enqueue", "insert"} =>
                pc' = pc /\ job' = job /\ asOf' = asOf /\ enq'[Scheduler] = enq[Scheduler]
      PROVE  OnceInv'
  <2>1. Deciding'
    BY <1>1, <1>5 DEF OnceInv, Deciding, BookedRow
  <2> QED
    BY <1>3, <1>4, <1>5, <2>1 DEF OnceInv
<1>6. ASSUME NEW c \in Client,
             PostSyncInsert(c) \/ PostSyncLost(c) \/ \E item \in Request : PostSync(c, item)
      PROVE  OnceInv'
  <2>1. PICK call : enq' = [enq EXCEPT ![c] = call]
    BY <1>6 DEF PostSync, PostSyncInsert, PostSyncLost
  <2>2. enq'[Scheduler] = enq[Scheduler]
    BY <2>1, SchedulerAssumption DEF TypeInv, TypeOK, Enqueuer
  <2> QED
    BY <1>5, <1>6, <2>2 DEF PostSync, PostSyncInsert, PostSyncLost, schedVars
<1>7. CASE Boot \/ Requeue \/ Stop \/ Claim \/ Idle \/ Wait \/ RunStep \/ CheckStart
  BY <1>5, <1>7 DEF Boot, Requeue, Stop, Claim, Idle, Wait, RunStep, HandlerOutcome, Attempt,
     HandlerReturns, HandlerRejects, HandlerRaises, Wake, CompleteTask, FailTask, LeaveRun,
     CheckStart, schedVars
<1>8. CASE SchedulerSkip \/ Crash
  BY <1>5, <1>8 DEF SchedulerSkip, NextJob, Crash
<1>9. CASE Signal \/ Tick \/ UNCHANGED vars
  BY <1>5, <1>9 DEF Signal, Tick, vars, schedVars
<1>10. CASE SchedulerWants
  <2>1. /\ job \in DOMAIN Jobs /\ RunSince(job) = {} /\ Due(Jobs[job].time, asOf)
        /\ pc' = "enqueue" /\ job' = job /\ asOf' = asOf /\ booked' = booked
    BY <1>10 DEF SchedulerWants, Wanted, TypeInv, ScheduleFits, schedVars
  <2>2. ASSUME NEW b \in booked, b.type = Jobs[job].type, b.day = LocalDay(asOf)
        PROVE  tasks[b.task].status = "error"
    <3>1. /\ b.task \in TaskIds /\ tasks[b.task].item.type = Jobs[job].type
          /\ tasks[b.task].created >= Cutoff(job, LocalDay(asOf))
      BY <2>1, <2>2, JobsSchedule DEF OnceInv, BookedRow
    <3>2. b.task \notin RunSince(job)
      BY <2>1
    <3> QED
      BY <1>2, <2>1, <3>1, <3>2, CutoffOfDay DEF RunSince
  <2>3. Deciding'
    BY <1>1, <2>1, <2>2 DEF Deciding, OnceInv, BookedRow
  <2> QED
    BY <1>3, <1>4, <2>1, <2>3 DEF OnceInv
<1>11. CASE SchedulerRead
  <2>1. pc = "enqueue" /\ asOf' = asOf /\ booked' = booked /\ asOf <= now
    BY <1>11 DEF SchedulerRead, TypeInv, ScheduleFits
  <2>2. CASE pc' = "insert"
    <3>1. /\ job' = job
          /\ enq' = [enq EXCEPT ![Scheduler] = InsertCall(Scheduled(Jobs[job].type), now)]
      BY <1>11, <2>2 DEF SchedulerRead, NextJob
    <3>2. /\ enq'[Scheduler].item = Scheduled(Jobs[job].type)
          /\ enq'[Scheduler].since = now
      BY <3>1 DEF InsertCall, TypeInv, TypeOK, Enqueuer
    <3>3. Deciding'
      BY <1>1, <1>2, <2>1, <2>2, <3>1, <3>2 DEF Deciding, OnceInv, BookedRow
    <3> QED
      BY <1>3, <1>4, <2>1, <3>3 DEF OnceInv
  <2>3. CASE pc' # "insert"
    <3>1. pc' \in {"sched", "wait"}
      BY <1>11, <2>3 DEF SchedulerRead, NextJob
    <3> QED
      BY <1>5, <2>1, <3>1
  <2> QED
    BY <2>2, <2>3
<1>12. CASE SchedulerInsert
  <2>0. PICK new : new = [task |-> Len(tasks) + 1, type |-> Jobs[job].type,
                          day |-> LocalDay(asOf)]
    OBVIOUS
  <2>1. PICK created \in enq[Scheduler].since .. now : Insert(enq[Scheduler].item, created)
    BY <1>12 DEF SchedulerInsert
  <2>2. /\ pc = "insert" /\ booked' = booked \cup {new} /\ asOf' = asOf
        /\ job \in DOMAIN Jobs /\ pc' \in {"sched", "wait"}
    BY <1>12, <2>0 DEF SchedulerInsert, NextJob, TypeInv, ScheduleFits
  <2>3. Scheduler \in Enqueuer /\ enq[Scheduler].step = "insert" /\ enq[Scheduler].since \in Nat
    BY <2>2, InsertTypes DEF Enqueuer, TypeInv, ScheduleFits
  <2>4. /\ new.task \in TaskIds' /\ tasks'[new.task].created = created
        /\ tasks'[new.task].item = enq[Scheduler].item
    BY <2>0, <2>1, <2>3, InsertedRow
  <2>5. created \in Nat /\ created >= asOf /\ Due(Jobs[job].time, asOf)
        /\ enq[Scheduler].item = Scheduled(Jobs[job].type)
    BY <1>2, <2>2, <2>3 DEF OnceInv, Deciding
  <2>6. created >= Cutoff(job, LocalDay(asOf)) /\ LocalDay(asOf) \in Int
    BY <1>2, <2>2, <2>5, CutoffOfDay
  <2>7. BookedRow(new)'
    <3>1. tasks'[new.task].item.type = new.type
      BY <2>0, <2>4, <2>5 DEF Scheduled
    <3> QED
      BY <2>0, <2>2, <2>4, <2>6, <3>1 DEF BookedRow, Cutoff
  <2>8. \A b \in booked : b.type = new.type /\ b.day = new.day => tasks'[b.task].status = "error"
    BY <1>1, <2>0, <2>2 DEF OnceInv, Deciding, BookedRow
  <2>9. OncePerDay'
    BY <1>1, <2>2, <2>8 DEF OnceInv, OncePerDay, BookedRow
  <2> QED
    BY <1>3, <2>2, <2>7, <2>9 DEF OnceInv, Deciding
<1> QED
  BY <1>6, <1>7, <1>8, <1>9, <1>10, <1>11, <1>12 DEF Next, WebStep, WorkerStep, ScheduleStep

\* In a zone whose changes of offset do not skip or repeat the time of a job, the
\* scheduler books a type of task at most once in a local day as long as the booked
\* task has not failed.
THEOREM ScheduledOncePerDay ==
    ASSUME JobsShownOnce
    PROVE  Spec => []OncePerDay
<1>1. Init => RunningIsClaimed /\ OnceInv
  BY DEF Init, RunningIsClaimed, WithStatus, TaskIds, InRun, OnceInv, Deciding, OncePerDay
<1>2. OnceInv => OncePerDay
  BY DEF OnceInv
<1> QED
  BY <1>1, <1>2, TypeInit, TypeStep, RunningStep, OnceStep, PTL DEF Spec

-----------------------------------------------------------------------------
(* A pass of the scheduler.  Behind the job that it looks at, every job that   *)
(* was due has its work; while the pass is under way no task is being run, so  *)
(* none of that work can fail before the pass is over.                         *)

HasWork(j) ==
    TimeOfDay(asOf) >= Jobs[j].time =>
        \/ \E id \in TaskIds :
              /\ tasks[id].item.type = Jobs[j].type /\ tasks[id].status # "error"
              /\ SinceTimeOfDay(tasks[id].created, Jobs[j].time, asOf)
        \/ IdenticalPending(Scheduled(Jobs[j].type)) # {}
        \/ Len(tasks) + Cardinality(Client) >= MaxTasks

Passing == {"sched", "enqueue", "insert"}

PassInv ==
    /\ pc \in Passing => \A j \in 1 .. job - 1 : HasWork(j)
    /\ pc = "wait" => \A j \in DOMAIN Jobs : HasWork(j)

\* The rows that are there stay as they are.
RowsSame ==
    /\ \A i \in TaskIds : i \in TaskIds' /\ tasks'[i] = tasks[i]
    /\ Len(tasks) <= Len(tasks')

LEMMA WorkKept ==
    ASSUME TypeInv, RowsSame, Len(tasks') \in Nat, asOf' = asOf, NEW j, HasWork(j)
    PROVE  HasWork(j)'
<1>1. Len(tasks) \in Nat /\ MaxTasks \in Nat /\ Cardinality(Client) \in Nat
  BY LenProperties, FS_CardinalityType, WorkerAssumption DEF TypeInv, TypeOK
<1>2. \A item : IdenticalPending(item) # {} => IdenticalPending(item)' # {}
  BY DEF RowsSame, IdenticalPending, WithStatus
<1>3. Len(tasks) + Cardinality(Client) >= MaxTasks => Len(tasks') + Cardinality(Client) >= MaxTasks
  BY <1>1 DEF RowsSame
<1> QED
  BY <1>2, <1>3 DEF HasWork, RowsSame, Scheduled

\* A job that the scheduler passes over without a wish has its work, or was not due.
LEMMA SkippedHasWork ==
    ASSUME JobsShownOnce, TypeInv, job \in DOMAIN Jobs, ~ Wanted(job)
    PROVE  HasWork(job)
<1> SUFFICES ASSUME TimeOfDay(asOf) >= Jobs[job].time
             PROVE  \E id \in TaskIds :
                      /\ tasks[id].item.type = Jobs[job].type /\ tasks[id].status # "error"
                      /\ SinceTimeOfDay(tasks[id].created, Jobs[job].time, asOf)
  BY DEF HasWork
<1>1. PICK id \in TaskIds : /\ tasks[id].item.type = Jobs[job].type
                            /\ tasks[id].status # "error"
                            /\ tasks[id].created >= ScheduledSince(Jobs[job].time, asOf)
  BY DEF Wanted, Due, RunSince
<1>2. asOf \in Nat /\ Jobs[job].time \in Nat /\ tasks[id].created \in Nat
  <2>1. tasks[id] \in Task
    BY <1>1, ElementOfSeq, LenProperties DEF TypeInv, TypeOK, TaskIds
  <2> QED
    BY <2>1, JobsSchedule DEF TypeInv, TypeOK, Task
<1>3. Jobs[job].time < DayLength
  BY <1>2, WallClock, LocalTimeAssumption
<1>4. ShownOnce(Today(Jobs[job].time, asOf))
  BY <1>2, WallClock DEF JobsShownOnce, Today
<1> QED
  BY <1>1, <1>2, <1>3, <1>4, ScheduledSinceIsExact

\* The for loop leaves a job behind that has its work.
LEMMA PassGoesOn ==
    ASSUME TypeInv, pc \in Passing, PassInv, NextJob,
           NEW k, k = job, HasWork(k)',
           \A j : HasWork(j) => HasWork(j)'
    PROVE  PassInv'
<1>1. job \in DOMAIN Jobs /\ Len(Jobs) \in Nat /\ DOMAIN Jobs = 1 .. Len(Jobs)
  BY JobsSchedule DEF TypeInv, ScheduleFits, Passing
<1>2. \A j \in 1 .. job : HasWork(j)'
  <2>1. \A j \in 1 .. job : j = k \/ j \in 1 .. job - 1
    BY <1>1
  <2>2. \A j \in 1 .. job - 1 : HasWork(j)
    BY DEF PassInv
  <2> QED
    BY <2>1, <2>2
<1>3. CASE job < Len(Jobs)
  <2>1. pc' = "sched" /\ job' = job + 1
    BY <1>3 DEF NextJob
  <2>2. 1 .. job' - 1 = 1 .. job
    BY <1>1, <2>1
  <2> QED
    BY <1>2, <2>1, <2>2 DEF PassInv
<1>4. CASE ~ (job < Len(Jobs))
  <2>1. pc' = "wait" /\ DOMAIN Jobs = 1 .. job
    BY <1>1, <1>4 DEF NextJob
  <2> QED
    BY <1>2, <2>1 DEF PassInv, Passing
<1> QED
  BY <1>3, <1>4

LEMMA PassStep ==
    ASSUME JobsShownOnce
    PROVE  TypeInv /\ OnceInv /\ PassInv /\ [Next]_vars => PassInv'
<1> SUFFICES ASSUME TypeInv, OnceInv, PassInv, [Next]_vars PROVE PassInv'
  OBVIOUS
<1>0. Len(tasks) \in Nat /\ Len(tasks') \in Nat
  BY TypeStep, LenProperties DEF TypeInv, TypeOK
<1>1. ASSUME tasks' = tasks PROVE RowsSame
  BY <1>0, <1>1 DEF RowsSame, TaskIds
<1>2. ASSUME RowsSame, asOf' = asOf PROVE \A j : HasWork(j) => HasWork(j)'
  BY <1>0, <1>2, WorkKept
<1>3. ASSUME RowsSame, asOf' = asOf, pc' = pc, job' = job PROVE PassInv'
  BY <1>2, <1>3 DEF PassInv
<1>4. ASSUME pc \in Passing, pc' \in Passing, job' = job,
              \A j : HasWork(j) => HasWork(j)'
       PROVE  PassInv'
  <2>1. \A j \in 1 .. job - 1 : HasWork(j)'
    BY <1>4 DEF PassInv
  <2>2. pc' # "wait"
    BY <1>4 DEF Passing
  <2> QED
    BY <1>4, <2>1, <2>2 DEF PassInv
<1>5. ASSUME NEW e \in Enqueuer, enq[e].step = "insert",
             NEW created \in enq[e].since .. now, Insert(enq[e].item, created)
      PROVE  RowsSame
  <2>1. \A i \in TaskIds : i \in TaskIds' /\ tasks'[i] = tasks[i]
    BY <1>5, InsertedRow
  <2>2. TaskIds' = TaskIds \cup {Len(tasks) + 1} /\ tasks \in Seq(Task) /\ tasks' \in Seq(Task)
    BY <1>5, InsertedRow, TypeStep DEF TypeInv, TypeOK
  <2>3. 1 .. Len(tasks') = 1 .. Len(tasks) \cup {Len(tasks) + 1}
    BY <2>2, LenProperties DEF TaskIds
  <2>4. Len(tasks) + 1 \in 1 .. Len(tasks')
    BY <2>3
  <2> QED
    BY <1>0, <2>1, <2>4 DEF RowsSame
<1>6. ASSUME NEW c \in Client,
             PostSyncLost(c) \/ \E item \in Request : PostSync(c, item)
      PROVE  PassInv'
  BY <1>1, <1>3, <1>6 DEF PostSync, PostSyncLost, schedVars
<1>7. ASSUME NEW c \in Client, PostSyncInsert(c) PROVE PassInv'
  BY <1>3, <1>5, <1>7 DEF PostSyncInsert, Enqueuer, schedVars
<1>8. CASE Signal \/ Tick \/ UNCHANGED vars
  BY <1>1, <1>3, <1>8 DEF Signal, Tick, vars, schedVars
<1>9. CASE Boot \/ Requeue \/ Stop \/ Claim \/ Wait \/ RunStep \/ Crash
  BY <1>9 DEF PassInv, Passing, Boot, Requeue, Stop, Claim, Wait, RunStep, HandlerOutcome,
     Attempt, HandlerReturns, HandlerRejects, HandlerRaises, Wake, CompleteTask, FailTask,
     LeaveRun, Crash
<1>10. CASE Idle
  <2>1. pc' = "wait" => Jobs = <<>>
    BY <1>10 DEF Idle
  <2>2. Jobs = <<>> => DOMAIN Jobs = {}
    OBVIOUS
  <2>3. pc' \notin Passing
    BY <1>10 DEF Idle, Passing
  <2> QED
    BY <2>1, <2>2, <2>3 DEF PassInv
<1>11. CASE CheckStart
  <2>1. pc' = "sched" /\ job' = 1 /\ 1 .. job' - 1 = {}
    BY <1>11 DEF CheckStart
  <2> QED
    BY <2>1 DEF PassInv
<1>12. CASE SchedulerSkip
  <2>1. RowsSame /\ asOf' = asOf /\ pc \in Passing /\ NextJob /\ ~ Wanted(job)
    BY <1>1, <1>12 DEF SchedulerSkip, Passing
  <2>2. HasWork(job)
    BY <2>1, SkippedHasWork DEF TypeInv, ScheduleFits, Passing
  <2>3. PICK k : k = job
    OBVIOUS
  <2>4. \A j : HasWork(j) => HasWork(j)'
    BY <1>2, <2>1
  <2>5. HasWork(k)'
    <3>1. HasWork(k)
      BY <2>2, <2>3
    <3> QED
      BY <2>4, <3>1
  <2> QED
    BY <2>1, <2>3, <2>4, <2>5, PassGoesOn
<1>13. CASE SchedulerWants
  <2>1. RowsSame /\ asOf' = asOf /\ job' = job /\ pc = "sched" /\ pc' = "enqueue"
    BY <1>1, <1>13 DEF SchedulerWants, schedVars
  <2>2. \A j : HasWork(j) => HasWork(j)'
    BY <1>2, <2>1
  <2> QED
    BY <1>4, <2>1, <2>2 DEF Passing
<1>14. CASE SchedulerRead
  <2> DEFINE item == Scheduled(Jobs[job].type)
  <2>1. RowsSame /\ asOf' = asOf /\ pc = "enqueue"
    BY <1>1, <1>14 DEF SchedulerRead
  <2>2. \A j : HasWork(j) => HasWork(j)'
    BY <1>2, <2>1
  <2>3. CASE IdenticalPending(item) = {} /\ Room
    <3>1. pc' = "insert" /\ job' = job
      BY <1>14, <2>3 DEF SchedulerRead
    <3> QED
      BY <1>4, <2>1, <2>2, <3>1 DEF Passing
  <2>4. CASE ~ (IdenticalPending(item) = {} /\ Room)
    <3>1. NextJob
      BY <1>14, <2>4 DEF SchedulerRead
    <3>2. ~ Room => Len(tasks) + Cardinality(Client) >= MaxTasks
      <4>1. Inserting \in SUBSET Client
        BY <2>1 DEF Inserting, Enqueuer, TypeInv, ScheduleFits
      <4>2. /\ Cardinality(Inserting) <= Cardinality(Client)
            /\ Cardinality(Inserting) \in Nat /\ Cardinality(Client) \in Nat
        BY <4>1, FS_Subset, FS_CardinalityType, WorkerAssumption
      <4> QED
        BY <1>0, <4>2, WorkerAssumption DEF Room
    <3>3. PICK k : k = job
      OBVIOUS
    <3>4. HasWork(k)'
      <4>1. HasWork(k)
        BY <2>4, <3>2, <3>3 DEF HasWork
      <4> QED
        BY <2>2, <4>1
    <3> QED
      BY <2>1, <2>2, <3>1, <3>3, <3>4, PassGoesOn DEF Passing
  <2> QED
    BY <2>3, <2>4
<1>15. CASE SchedulerInsert
  <2>1. PICK created \in enq[Scheduler].since .. now : Insert(enq[Scheduler].item, created)
    BY <1>15 DEF SchedulerInsert
  <2>2. /\ Scheduler \in Enqueuer /\ enq[Scheduler].step = "insert" /\ pc = "insert"
        /\ asOf' = asOf /\ NextJob /\ enq[Scheduler].item = Scheduled(Jobs[job].type)
    BY <1>15 DEF SchedulerInsert, Enqueuer, TypeInv, ScheduleFits, OnceInv, Deciding
  <2>3. RowsSame
    BY <1>5, <2>1, <2>2
  <2>4. PICK k : k = job
    OBVIOUS
  <2>5. HasWork(k)'
    <3> DEFINE id == Len(tasks) + 1
    <3>1. /\ id \in TaskIds' /\ tasks'[id].status = "pending"
          /\ tasks'[id].item = Scheduled(Jobs[k].type)
      BY <2>1, <2>2, <2>4, InsertedRow
    <3>2. id \in IdenticalPending(Scheduled(Jobs[k].type))'
      BY <3>1 DEF IdenticalPending, WithStatus, Scheduled
    <3> QED
      BY <3>2 DEF HasWork, Scheduled
  <2>6. \A j : HasWork(j) => HasWork(j)'
    BY <1>2, <2>2, <2>3
  <2> QED
    BY <2>2, <2>5, <2>6, <2>4, PassGoesOn DEF Passing
<1> QED
  BY <1>6, <1>7, <1>8, <1>9, <1>10, <1>11, <1>12, <1>13, <1>14, <1>15
  DEF Next, WebStep, WorkerStep, ScheduleStep

\* In such a zone, a pass of the scheduler leaves no job that was due without work,
\* whatever clients ask for in the meantime and wherever kills and signals fall.
THEOREM ScheduledWorkIsPresent ==
    ASSUME JobsShownOnce
    PROVE  Spec => []ScheduledWorkPresent
<1>1. Init => RunningIsClaimed /\ OnceInv /\ PassInv
  BY DEF Init, RunningIsClaimed, WithStatus, TaskIds, InRun, OnceInv, Deciding, OncePerDay,
     PassInv, Passing
<1>2. PassInv => ScheduledWorkPresent
  BY DEF PassInv, HasWork, ScheduledWorkPresent
<1> QED
  BY <1>1, <1>2, TypeInit, TypeStep, RunningStep, OnceStep, PassStep, PTL DEF Spec
=============================================================================
