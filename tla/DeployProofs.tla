---------------------------- MODULE DeployProofs ----------------------------
(***************************************************************************)
(* Proofs about DeployRunner, for every number of requests, runs, pushes,  *)
(* restarts and faults.                                                    *)
(***************************************************************************)
EXTENDS DeployRunner, SequenceTheorems, TLAPS

-----------------------------------------------------------------------------
(* The steps and the rows. *)

\* The steps bring up all parts of the installation, the checkout first.
LEMMA PartsOfSteps ==
    /\ HealthCheck = 7
    /\ \A k \in 1 .. 6 : Parts[k] \in Part
    /\ \A p \in Part : \E k \in 1 .. 6 : p = Parts[k]
    /\ Parts[1] = "checkout" /\ "checkout" \in Part
<1>1. DOMAIN Parts = 1 .. 6 /\ Len(Parts) = 6
  BY DEF Parts
<1>2. HealthCheck = 7
  BY <1>1 DEF HealthCheck
<1>3. Parts[1] = "checkout"
  BY DEF Parts
<1> QED
  BY <1>1, <1>2, <1>3 DEF Part

\* A step brings parts of the installation to numbered versions.
LEMMA AfterTypes ==
    ASSUME TypeOK, NEW k \in 1 .. HealthCheck
    PROVE  After(k) \in [Part -> Nat]
BY PartsOfSteps DEF After, TypeOK

\* A change of one row keeps the rows rows.
LEMMA SetRow ==
    ASSUME runs \in Seq(DeployRun), NEW r \in DOMAIN runs, NEW row \in DeployRun,
           runs' = [runs EXCEPT ![r] = row]
    PROVE  /\ runs' \in Seq(DeployRun) /\ Len(runs') = Len(runs)
           /\ DOMAIN runs' = DOMAIN runs /\ runs'[r] = row
           /\ \A s \in DOMAIN runs : s # r => runs'[s] = runs[s]
BY ExceptSeq, LenProperties

\* The INSERT of start_deploy adds a pending row and keeps the others.
LEMMA AddRun ==
    ASSUME TypeOK, runs' = Append(runs, NewRun)
    PROVE  /\ runs' \in Seq(DeployRun) /\ Len(runs') = Len(runs) + 1
           /\ DOMAIN runs' = DOMAIN runs \cup {Len(runs) + 1} /\ Len(runs) + 1 \notin DOMAIN runs
           /\ runs'[Len(runs) + 1] = NewRun
           /\ \A s \in DOMAIN runs : runs'[s] = runs[s]
<1>1. NewRun \in DeployRun
  <2>1. <<>> \in Seq(StepStatus) /\ branch \in Nat /\ NoCommit \in Nat \cup {NoCommit}
    BY EmptySeq DEF TypeOK
  <2> QED
    BY <2>1 DEF NewRun, DeployRun, Active, Ended
<1> QED
  BY <1>1, AppendProperties, LenProperties DEF TypeOK

\* recover_orphans keeps the rows, ends the active ones and leaves the others alone.
LEMMA InterruptRows ==
    ASSUME TypeOK, InterruptActive
    PROVE  /\ runs' \in Seq(DeployRun) /\ Len(runs') = Len(runs)
           /\ DOMAIN runs' = DOMAIN runs
           /\ \A s \in DOMAIN runs :
                /\ runs'[s].status \in Ended
                /\ runs'[s].status = "success" => runs[s].status = "success"
                /\ runs[s].status \in Ended => runs'[s] = runs[s]
                /\ runs'[s].wanted = runs[s].wanted
<1>1. DOMAIN runs = 1 .. Len(runs) /\ Len(runs) \in Nat
  BY LenProperties DEF TypeOK
<1>2. \A s \in DOMAIN runs : runs[s] \in DeployRun
  BY ElementOfSeq, <1>1 DEF TypeOK
<1>3. \A s \in DOMAIN runs :
        /\ runs'[s] \in DeployRun
        /\ runs'[s].status \in Ended
        /\ runs'[s].status = "success" => runs[s].status = "success"
        /\ runs[s].status \in Ended => runs'[s] = runs[s]
        /\ runs'[s].wanted = runs[s].wanted
  BY <1>2 DEF InterruptActive, DeployRun, Active, Ended
<1>4. DOMAIN runs' = DOMAIN runs /\ runs' = [s \in 1 .. Len(runs) |-> runs'[s]]
  BY <1>1 DEF InterruptActive
<1>5. runs' \in [1 .. Len(runs) -> DeployRun]
  BY <1>1, <1>3, <1>4
<1>6. runs' \in Seq(DeployRun)
  BY <1>1, <1>5, SeqDef
<1> QED
  BY <1>1, <1>3, <1>4, <1>6, LenProperties

-----------------------------------------------------------------------------
(* Types and mutual exclusion.  Whoever holds the lock (a request thread, or    *)
(* the thread it has started) is alone, so that the row it is about to make     *)
(* still fits and the row it works on is there.                                 *)

HolderFits ==
    /\ \A c \in Caller : caller[c].at = "creating" => Len(runs) < MaxRuns
    /\ \A c \in Caller : caller[c].at = "starting" => caller[c].run \in DOMAIN runs
    /\ \A r \in RunId : Alive(r) => r \in DOMAIN runs /\ exec[r].step \in 1 .. HealthCheck
    /\ service # "up" => (\A c \in Caller : ~Requesting(c)) /\ (\A r \in RunId : ~Alive(r))

CoreInv == TypeOK /\ OneDeployAtATime /\ HolderFits

\* A request that is not served and a run without a thread.
LEMMA IdleTypes ==
    /\ IdleCaller \in [at : {"idle", "creating", "starting"}, run : 0 .. MaxRuns]
    /\ IdleCaller.at = "idle"
    /\ NoThread \in [pc : {"none", "begin", "command", "append", "finish", "release"},
                     step : 0 .. HealthCheck, ok : BOOLEAN]
    /\ NoThread.pc = "none"
<1>1. 0 \in 0 .. MaxRuns /\ 0 \in 0 .. HealthCheck
  BY DeployAssumption, PartsOfSteps
<1>2. NoThread.pc = "none" /\ IdleCaller.at = "idle"
  BY DEF NoThread, IdleCaller
<1>3. IdleCaller \in [at : {"idle", "creating", "starting"}, run : 0 .. MaxRuns]
  BY <1>1 DEF IdleCaller
<1>4. TRUE \in BOOLEAN
  OBVIOUS
<1>5. NoThread \in [pc : {"none", "begin", "command", "append", "finish", "release"},
                    step : 0 .. HealthCheck, ok : BOOLEAN]
  BY <1>1, <1>4 DEF NoThread
<1> QED
  BY <1>2, <1>3, <1>5

\* The service starts with an empty table and nobody at work.
LEMMA CoreInit == Init => CoreInv
<1> SUFFICES ASSUME Init PROVE CoreInv
  OBVIOUS
<1>1. runs \in Seq(DeployRun) /\ Len(runs) = 0 /\ HealthCheck = 7
  BY EmptySeq, PartsOfSteps DEF Init
<1> QED
  <2>1. \A c \in Caller : caller[c].at = "idle"
    BY IdleTypes DEF Init
  <2>2. \A r \in RunId : exec[r].pc = "none"
    BY IdleTypes DEF Init
  <2>3. TypeOK
    <3>1. caller \in [Caller -> [at : {"idle", "creating", "starting"}, run : 0 .. MaxRuns]]
      BY IdleTypes DEF Init
    <3>2. exec \in [RunId -> [pc : {"none", "begin", "command", "append", "finish", "release"},
                               step : 0 .. HealthCheck, ok : BOOLEAN]]
      BY IdleTypes DEF Init
    <3>3. installed \in [Part -> Nat] /\ lock \in BOOLEAN /\ faulty \in BOOLEAN
      BY DEF Init
    <3> QED
      BY <1>1, <3>1, <3>2, <3>3, DeployAssumption DEF Init, TypeOK
  <2> QED
    BY <2>1, <2>2, <2>3 DEF CoreInv, OneDeployAtATime, HolderFits, Requesting, Alive

\* What the thread of a run does to the rows: nothing but to its own.
LEMMA ThreadRow ==
    ASSUME CoreInv, NEW r \in RunId,
           \/ runs' = [runs EXCEPT ![r].status = "running"]
           \/ AppendedStep(r)
           \/ \E sha \in GitSha :
                runs' = [runs EXCEPT ![r].status = Outcome(r), ![r].git_after = sha],
           Alive(r)
    PROVE  /\ runs' \in Seq(DeployRun) /\ Len(runs') = Len(runs) /\ DOMAIN runs' = DOMAIN runs
           /\ \A s \in DOMAIN runs : s # r => runs'[s] = runs[s]
           /\ r \in DOMAIN runs /\ runs[r] \in DeployRun
<1>1. r \in DOMAIN runs /\ runs \in Seq(DeployRun)
  BY DEF CoreInv, HolderFits, TypeOK
<1>2. runs[r] \in DeployRun /\ Outcome(r) \in StepStatus /\ installed["checkout"] \in Nat
  <2>1. runs[r] \in DeployRun
    BY <1>1, ElementOfSeq, LenProperties
  <2> QED
    BY <2>1, PartsOfSteps DEF CoreInv, TypeOK, Outcome, StepStatus
<1>3. CASE runs' = [runs EXCEPT ![r].status = "running"]
  <2>1. [runs[r] EXCEPT !.status = "running"] \in DeployRun
    BY <1>2 DEF DeployRun, Active
  <2> QED
    BY <1>1, <1>2, <1>3, <2>1, SetRow
<1>4. CASE AppendedStep(r)
  <2>1. Append(runs[r].steps, Outcome(r)) \in Seq(StepStatus)
    BY <1>2, AppendProperties DEF DeployRun
  <2>2. [runs[r] EXCEPT !.steps = Append(runs[r].steps, Outcome(r))] \in DeployRun
    BY <1>2, <2>1 DEF DeployRun
  <2> QED
    BY <1>1, <1>2, <1>4, <2>2, SetRow DEF AppendedStep
<1>5. ASSUME NEW sha \in GitSha,
             runs' = [runs EXCEPT ![r].status = Outcome(r), ![r].git_after = sha]
      PROVE  /\ runs' \in Seq(DeployRun) /\ Len(runs') = Len(runs) /\ DOMAIN runs' = DOMAIN runs
             /\ \A s \in DOMAIN runs : s # r => runs'[s] = runs[s]
  <2> DEFINE row == [runs[r] EXCEPT !.status = Outcome(r), !.git_after = sha]
  <2>0. sha \in Nat \cup {NoCommit}
    BY <1>2 DEF GitSha
  <2>1. row \in DeployRun
    BY <1>2, <2>0 DEF DeployRun, Ended, StepStatus
  <2>2. runs' = [runs EXCEPT ![r] = row]
    BY <1>1, <1>2, <1>5 DEF DeployRun
  <2> HIDE DEF row
  <2> QED
    BY <1>1, <2>1, <2>2, SetRow
<1> QED
  BY <1>1, <1>2, <1>3, <1>4, <1>5

\* Every step keeps the types, and leaves at most one thread at a deploy.
LEMMA CoreStep == CoreInv /\ [Next]_vars => CoreInv'
<1> SUFFICES ASSUME CoreInv, [Next]_vars PROVE CoreInv'
  OBVIOUS
<1> USE DEF CoreInv, TypeOK, OneDeployAtATime, HolderFits, Requesting, Alive, faultVars
<1>0. DOMAIN runs = 1 .. Len(runs) /\ Len(runs) \in Nat /\ HealthCheck = 7
  BY LenProperties, PartsOfSteps
<1> USE IdleTypes
<1>1. ASSUME NEW c \in Caller, Request(c) PROVE CoreInv'
  BY <1>0, <1>1 DEF Request
<1>2. ASSUME NEW c \in Caller, CreateRun(c) PROVE CoreInv'
  <2>1. /\ runs' \in Seq(DeployRun) /\ Len(runs') = Len(runs) + 1
        /\ DOMAIN runs' = DOMAIN runs \cup {Len(runs) + 1}
    BY <1>2, AddRun DEF CreateRun
  <2>2. Len(runs) + 1 \in 0 .. MaxRuns
    BY <1>0, <1>2, DeployAssumption DEF CreateRun
  <2> QED
    BY <1>0, <1>2, <2>1, <2>2, DeployAssumption DEF CreateRun
<1>3. ASSUME NEW c \in Caller, CreateFault(c) PROVE CoreInv'
  <2>1. /\ runs' \in Seq(DeployRun) /\ Len(runs') \in Nat /\ Len(runs') <= MaxRuns
        /\ DOMAIN runs \subseteq DOMAIN runs'
    BY <1>0, <1>3, AddRun, DeployAssumption DEF CreateFault
  <2> QED
    <3>1. TypeOK'
      <4>1. caller' \in [Caller -> [at : {"idle", "creating", "starting"}, run : 0 .. MaxRuns]]
        BY <1>3 DEF CreateFault
      <4>2. lock' \in BOOLEAN /\ faulty' \in BOOLEAN
        BY <1>3, Zenon DEF CreateFault, Fault
      <4>3. faults' \in Nat
        BY <1>3 DEF CreateFault, Fault
      <4> QED
        BY <1>3, <2>1, <4>1, <4>2, <4>3 DEF CreateFault, Fault
    <3>2. OneDeployAtATime' /\ HolderFits'
      BY <1>0, <1>3, <2>1 DEF CreateFault
    <3> QED
      BY <3>1, <3>2
<1>4. ASSUME NEW c \in Caller, StartThread(c) PROVE CoreInv'
  <2>1. caller[c].run \in RunId
    BY <1>0, <1>4, DeployAssumption DEF StartThread, RunId
  <2> QED
    BY <1>0, <1>4, <2>1 DEF StartThread
<1>5. ASSUME NEW c \in Caller, ThreadFault(c) PROVE CoreInv'
  BY <1>0, <1>5 DEF ThreadFault
<1>6. ASSUME NEW r \in RunId, Begin(r) PROVE CoreInv'
  <2>1. runs' \in Seq(DeployRun) /\ Len(runs') = Len(runs) /\ DOMAIN runs' = DOMAIN runs
    BY <1>6, ThreadRow DEF Begin
  <2> QED
    <3>1. exec' \in [RunId -> [pc : {"none", "begin", "command", "append", "finish", "release"},
                               step : 0 .. HealthCheck, ok : BOOLEAN]]
      BY ZenonT(60), <1>6 DEF Begin
    <3>2. TypeOK'
      BY <1>6, <2>1, <3>1 DEF Begin
    <3>3. OneDeployAtATime'
      BY <1>6 DEF Begin
    <3>4. HolderFits'
      BY <1>0, <1>6, <2>1 DEF Begin
    <3> QED
      BY <3>2, <3>3, <3>4
<1>7. ASSUME NEW r \in RunId, Command(r) \/ Raise(r) PROVE CoreInv'
  <2>1. exec[r].pc = "command" => After(exec[r].step) \in [Part -> Nat]
    BY AfterTypes
  <2>2. installed' \in [Part -> Nat]
    BY <1>7, <2>1 DEF Command, Raise
  <2>3. CASE Command(r)
    BY <1>0, <2>2, <2>3 DEF Command
  <2>4. CASE Raise(r)
    <3>1. exec' \in [RunId -> [pc : {"none", "begin", "command", "append", "finish", "release"},
                               step : 0 .. HealthCheck, ok : BOOLEAN]]
      BY ZenonT(60), <2>4 DEF Raise
    <3>2. TypeOK'
      BY <2>2, <2>4, <3>1 DEF Raise, Fault
    <3>3. OneDeployAtATime' /\ HolderFits'
      BY <1>0, <2>4 DEF Raise
    <3> QED
      BY <3>2, <3>3
  <2> QED
    BY <1>7, <2>3, <2>4
<1>8. ASSUME NEW r \in RunId, AppendStep(r) PROVE CoreInv'
  <2>1. runs' \in Seq(DeployRun) /\ Len(runs') = Len(runs) /\ DOMAIN runs' = DOMAIN runs
    BY <1>8, ThreadRow DEF AppendStep
  <2>2. exec[r].step \in 1 .. HealthCheck
    BY <1>8 DEF AppendStep
  <2> QED
    <3>1. exec' \in [RunId -> [pc : {"none", "begin", "command", "append", "finish", "release"},
                               step : 0 .. HealthCheck, ok : BOOLEAN]]
      BY SMTT(30), <1>0, <1>8, <2>2 DEF AppendStep
    <3>2. TypeOK'
      BY <1>8, <2>1, <3>1 DEF AppendStep
    <3>3. OneDeployAtATime'
      BY <1>8 DEF AppendStep
    <3>4. HolderFits'
      BY <1>0, <1>8, <2>1, <2>2 DEF AppendStep
    <3> QED
      BY <3>2, <3>3, <3>4
<1>9. ASSUME NEW r \in RunId, Finish(r) PROVE CoreInv'
  <2>1. runs' \in Seq(DeployRun) /\ Len(runs') = Len(runs) /\ DOMAIN runs' = DOMAIN runs
    BY <1>9, ThreadRow DEF Finish
  <2> QED
    <3>1. exec' \in [RunId -> [pc : {"none", "begin", "command", "append", "finish", "release"},
                               step : 0 .. HealthCheck, ok : BOOLEAN]]
      BY ZenonT(60), <1>9 DEF Finish
    <3>2. TypeOK'
      BY <1>9, <2>1, <3>1 DEF Finish
    <3>3. OneDeployAtATime'
      BY <1>9 DEF Finish
    <3>4. HolderFits'
      BY <1>0, <1>9, <2>1 DEF Finish
    <3> QED
      BY <3>2, <3>3, <3>4
<1>10. ASSUME NEW r \in RunId, Release(r) PROVE CoreInv'
  BY <1>0, <1>10 DEF Release
<1>11. CASE Start \/ Push
  BY SMTT(30), <1>0, <1>11 DEF Start, Push
<1>12. CASE RecoverOrphans
  <2>1. runs' \in Seq(DeployRun) /\ Len(runs') = Len(runs) /\ DOMAIN runs' = DOMAIN runs
    BY <1>12, InterruptRows DEF RecoverOrphans
  <2> QED
    BY <1>0, <1>12, <2>1 DEF RecoverOrphans
<1>13. CASE Kill
  <2>1. \A c \in Caller : caller'[c].at = "idle"
    BY <1>13 DEF Kill
  <2>2. \A r \in RunId : exec'[r].pc = "none"
    BY <1>13 DEF Kill
  <2>3. TypeOK'
    <3>1. caller' \in [Caller -> [at : {"idle", "creating", "starting"}, run : 0 .. MaxRuns]]
      BY <1>13 DEF Kill
    <3>2. exec' \in [RunId -> [pc : {"none", "begin", "command", "append", "finish", "release"},
                               step : 0 .. HealthCheck, ok : BOOLEAN]]
      BY <1>13 DEF Kill
    <3>3. restarts' \in Nat /\ service' \in {"down", "boot", "up"}
      BY <1>13 DEF Kill
    <3>4. lock' \in BOOLEAN
      BY <1>13, Zenon DEF Kill
    <3> QED
      BY <1>13, <3>1, <3>2, <3>3, <3>4 DEF Kill
  <2> QED
    BY <2>1, <2>2, <2>3
<1>14. CASE UNCHANGED vars
  BY <1>14 DEF vars
<1> QED
  BY <1>1, <1>2, <1>3, <1>4, <1>5, <1>6, <1>7, <1>8, <1>9, <1>10, <1>11, <1>12, <1>13, <1>14
  DEF Next, CallerStep, CallerFault, ThreadStep, Serve

\* Every variable keeps its type.
THEOREM DeployTypes == Spec => []TypeOK
<1>1. CoreInv => TypeOK
  BY DEF CoreInv
<1> QED
  BY <1>1, CoreInit, CoreStep, PTL DEF Spec

\* Whatever requests race, steps fail and restarts intervene, at most one thread
\* is between the lock's acquisition and its release, and it holds the lock.
THEOREM DeploysAreExclusive == Spec => []OneDeployAtATime
<1>1. CoreInv => OneDeployAtATime
  BY DEF CoreInv
<1> QED
  BY <1>1, CoreInit, CoreStep, PTL DEF Spec

-----------------------------------------------------------------------------
(* The rows.  The status of a row agrees with the place of the thread that     *)
(* works on it, so that no thread writes to a row that has ended.              *)

RowInv ==
    /\ \A c \in Caller : caller[c].at = "starting" => runs[caller[c].run].status = "pending"
    /\ \A r \in RunId : exec[r].pc = "begin" => runs[r].status = "pending"
    /\ \A r \in RunId : exec[r].pc \in {"command", "append", "finish"} => runs[r].status = "running"

\* Every step keeps the agreement of rows and threads.
LEMMA RowStep == CoreInv /\ RowInv /\ [Next]_vars => RowInv'
<1> SUFFICES ASSUME CoreInv, RowInv, [Next]_vars PROVE RowInv'
  OBVIOUS
<1> USE DEF RowInv, Alive, Requesting, faultVars
<1>0. /\ \A r \in RunId : exec[r] \in [pc : {"none", "begin", "command", "append", "finish", "release"},
                                       step : 0 .. HealthCheck, ok : BOOLEAN]
      /\ exec = [r \in RunId |-> exec[r]] /\ caller = [c \in Caller |-> caller[c]]
      /\ \A r \in RunId : Alive(r) => r \in DOMAIN runs
      /\ \A c \in Caller : caller[c].at = "starting" => caller[c].run \in DOMAIN runs
      /\ \A c \in Caller : caller[c] \in [at : {"idle", "creating", "starting"}, run : 0 .. MaxRuns]
  BY DEF CoreInv, TypeOK, HolderFits
<1>1. \A c, d \in Caller : Requesting(c) /\ Requesting(d) => c = d
  BY DEF CoreInv, OneDeployAtATime
<1>2. \A c \in Caller, r \in RunId : Requesting(c) => ~Alive(r)
  BY DEF CoreInv, OneDeployAtATime
<1>3. \A r, s \in RunId : Alive(r) /\ Alive(s) => r = s
  BY DEF CoreInv, OneDeployAtATime
<1>4. ASSUME NEW c \in Caller, Request(c) PROVE RowInv'
  BY <1>0, <1>4 DEF Request
<1>5. ASSUME NEW c \in Caller, CreateRun(c) PROVE RowInv'
  <2>1. runs'[Len(runs) + 1].status = "pending"
    BY <1>5, AddRun DEF CreateRun, CoreInv, NewRun
  <2>2. caller'[c] = [at |-> "starting", run |-> Len(runs) + 1]
    BY <1>0, <1>5 DEF CreateRun
  <2>3. \A d \in Caller : d # c => caller'[d].at = "idle"
    BY <1>0, <1>1, <1>5 DEF CreateRun
  <2>4. \A r \in RunId : exec'[r].pc = "none"
    BY <1>0, <1>2, <1>5 DEF CreateRun
  <2> QED
    BY <2>1, <2>2, <2>3, <2>4
<1>6. ASSUME NEW c \in Caller, CreateFault(c) \/ StartThread(c) \/ ThreadFault(c) PROVE RowInv'
  <2>1. \A d \in Caller : caller'[d].at = "idle"
    <3>1. Requesting(c) /\ caller' = [caller EXCEPT ![c] = IdleCaller]
      BY <1>6 DEF CreateFault, StartThread, ThreadFault
    <3> QED
      BY <1>0, <1>1, <3>1, IdleTypes
  <2>2. CASE CreateFault(c) \/ ThreadFault(c)
    <3>1. \A r \in RunId : exec'[r].pc = "none"
      BY <1>0, <1>2, <1>6, <2>2 DEF CreateFault, ThreadFault, StartThread
    <3> QED
      BY <2>1, <3>1
  <2>3. CASE StartThread(c)
    <3>1. runs[caller[c].run].status = "pending" /\ runs' = runs
      BY <2>3 DEF StartThread
    <3>2. \A r \in RunId : exec'[r].pc = IF r = caller[c].run THEN "begin" ELSE "none"
      BY <1>0, <1>2, <2>3 DEF StartThread
    <3> QED
      BY <2>1, <3>1, <3>2
  <2> QED
    BY <1>6, <2>2, <2>3
<1>7. ASSUME NEW r \in RunId, ThreadStep(r) \/ Raise(r) PROVE RowInv'
  <2>1. Alive(r) /\ caller' = caller /\ \A s \in RunId : s # r => exec'[s].pc = "none"
    BY ZenonT(60), <1>0, <1>3, <1>7, IdleTypes
    DEF ThreadStep, Begin, Command, AppendStep, Finish, Release, Raise
  <2>2. \A c \in Caller : caller'[c].at # "starting"
    BY <1>2, <2>1
  <2>3. CASE Begin(r)
    <3>1. exec'[r].pc = "command"
      BY <1>0, <2>3 DEF Begin
    <3>2. runs'[r].status = "running"
      BY <1>0, <2>1, <2>3, ThreadRow DEF Begin, DeployRun
    <3> QED
      BY <2>1, <2>2, <3>1, <3>2
  <2>4. CASE Command(r)
    BY <1>0, <2>1, <2>2, <2>4 DEF Command
  <2>5. CASE AppendStep(r)
    <3>1. exec'[r].pc \in {"command", "finish"} /\ runs[r].status = "running"
      BY <1>0, <2>5 DEF AppendStep
    <3>2. runs'[r].status = runs[r].status
      BY <1>0, <2>1, <2>5, ThreadRow DEF AppendStep, AppendedStep, DeployRun
    <3> QED
      BY <2>1, <2>2, <3>1, <3>2
  <2>6. CASE Finish(r) \/ Release(r) \/ Raise(r)
    <3>1. exec'[r].pc \in {"release", "none"}
      BY <1>0, <2>6, IdleTypes DEF Finish, Release, Raise
    <3> QED
      BY <2>1, <2>2, <3>1
  <2> QED
    BY <1>7, <2>3, <2>4, <2>5, <2>6 DEF ThreadStep
<1>8. CASE Start \/ Push
  BY <1>8 DEF Start, Push
<1>9. CASE RecoverOrphans
  <2>1. (\A c \in Caller : ~Requesting(c)) /\ (\A r \in RunId : ~Alive(r))
    BY <1>9 DEF RecoverOrphans, CoreInv, HolderFits
  <2> QED
    BY <1>9, <2>1 DEF RecoverOrphans
<1>10. CASE Kill
  BY <1>10, IdleTypes DEF Kill
<1>11. CASE UNCHANGED vars
  BY <1>11 DEF vars
<1> QED
  BY <1>4, <1>5, <1>6, <1>7, <1>8, <1>9, <1>10, <1>11 DEF Next, CallerStep, CallerFault, Serve

\* No step takes a row away or writes to one that has ended.
LEMMA RowsStay ==
    ASSUME CoreInv, RowInv, [Next]_vars, NEW s \in DOMAIN runs
    PROVE  s \in DOMAIN runs' /\ (runs[s].status \in Ended => runs'[s] = runs[s])
<1> DEFINE Stays == s \in DOMAIN runs' /\ (runs[s].status \in Ended => runs'[s] = runs[s])
<1>1. ASSUME NEW c \in Caller, CreateRun(c) \/ CreateFault(c) PROVE Stays
  <2>1. runs' = runs \/ runs' = Append(runs, NewRun)
    BY <1>1 DEF CreateRun, CreateFault
  <2> QED
    BY <2>1, AddRun DEF CoreInv
<1>2. ASSUME NEW r \in RunId, Begin(r) \/ AppendStep(r) \/ Finish(r) PROVE Stays
  <2>1. Alive(r) /\ runs[r].status \notin Ended
    BY <1>2 DEF RowInv, Begin, AppendStep, Finish, Alive, Ended
  <2>2. DOMAIN runs' = DOMAIN runs /\ (s # r => runs'[s] = runs[s])
    BY <1>2, <2>1, ThreadRow DEF Begin, AppendStep, Finish
  <2> QED
    BY <2>1, <2>2
<1>3. CASE RecoverOrphans
  BY <1>3, InterruptRows DEF RecoverOrphans, CoreInv
<1>4. CASE runs' = runs
  BY <1>4
<1> QED
  BY <1>1, <1>2, <1>3, <1>4
  DEF Next, CallerStep, CallerFault, ThreadStep, Serve, Request, StartThread, ThreadFault,
      Command, Release, Raise, Start, Kill, Push, vars

\* A run's record is final once it has ended.
THEOREM EndedRunsAreFinal == Spec => EndedIsFinal
<1>1. Init => RowInv
  BY IdleTypes DEF Init, RowInv
<1>2. CoreInv /\ RowInv /\ [Next]_vars
        => [\A r \in DOMAIN runs : runs[r].status \in Ended => runs'[r] = runs[r]]_vars
  BY RowsStay
<1> QED
  BY <1>1, <1>2, CoreInit, CoreStep, RowStep, PTL DEF Spec, EndedIsFinal

-----------------------------------------------------------------------------
(* Refinement.  Whoever is at a run is at the newest one, so that its steps     *)
(* are those of DeployLifecycle.                                                *)

NewestInv ==
    /\ \A c \in Caller : caller[c].at = "starting" => caller[c].run = Len(runs)
    /\ \A r \in RunId : Alive(r) => r = Len(runs)

\* No row is made while a thread is at a run or about to start.
LEMMA NewestStep == CoreInv /\ NewestInv /\ [Next]_vars => NewestInv'
<1> SUFFICES ASSUME CoreInv, NewestInv, [Next]_vars PROVE NewestInv'
  OBVIOUS
<1> USE DEF NewestInv, Alive, Requesting, faultVars
<1>0. /\ \A r \in RunId : exec[r] \in [pc : {"none", "begin", "command", "append", "finish", "release"},
                                       step : 0 .. HealthCheck, ok : BOOLEAN]
      /\ exec = [r \in RunId |-> exec[r]] /\ caller = [c \in Caller |-> caller[c]]
      /\ \A c \in Caller : caller[c] \in [at : {"idle", "creating", "starting"}, run : 0 .. MaxRuns]
  BY DEF CoreInv, TypeOK
<1>1. \A c, d \in Caller : Requesting(c) /\ Requesting(d) => c = d
  BY DEF CoreInv, OneDeployAtATime
<1>2. \A c \in Caller, r \in RunId : Requesting(c) => ~Alive(r)
  BY DEF CoreInv, OneDeployAtATime
<1>3. \A r, s \in RunId : Alive(r) /\ Alive(s) => r = s
  BY DEF CoreInv, OneDeployAtATime
<1>4. ASSUME NEW c \in Caller, Request(c) PROVE NewestInv'
  BY <1>0, <1>4 DEF Request
<1>5. ASSUME NEW c \in Caller, CreateRun(c) PROVE NewestInv'
  <2>1. Len(runs') = Len(runs) + 1
    BY <1>5, AddRun DEF CreateRun, CoreInv
  <2>2. caller'[c] = [at |-> "starting", run |-> Len(runs) + 1]
    BY <1>0, <1>5 DEF CreateRun
  <2>3. \A d \in Caller : d # c => caller'[d].at = "idle"
    BY <1>0, <1>1, <1>5 DEF CreateRun
  <2>4. \A r \in RunId : exec'[r].pc = "none"
    BY <1>0, <1>2, <1>5 DEF CreateRun
  <2> QED
    BY <2>1, <2>2, <2>3, <2>4
<1>6. ASSUME NEW c \in Caller, CreateFault(c) \/ StartThread(c) \/ ThreadFault(c) PROVE NewestInv'
  <2>1. \A d \in Caller : caller'[d].at = "idle"
    <3>1. Requesting(c) /\ caller' = [caller EXCEPT ![c] = IdleCaller]
      BY <1>6 DEF CreateFault, StartThread, ThreadFault
    <3> QED
      BY <1>0, <1>1, <3>1, IdleTypes
  <2>2. CASE CreateFault(c) \/ ThreadFault(c)
    <3>1. \A r \in RunId : exec'[r].pc = "none"
      BY <1>0, <1>2, <1>6, <2>2 DEF CreateFault, ThreadFault, StartThread
    <3> QED
      BY <2>1, <3>1
  <2>3. CASE StartThread(c)
    <3>1. caller[c].run = Len(runs) /\ runs' = runs
      BY <2>3 DEF StartThread
    <3>2. \A r \in RunId : r # caller[c].run => exec'[r].pc = "none"
      BY <1>0, <1>2, <2>3 DEF StartThread
    <3> QED
      BY <2>1, <3>1, <3>2
  <2> QED
    BY <1>6, <2>2, <2>3
<1>7. ASSUME NEW r \in RunId, ThreadStep(r) \/ Raise(r) PROVE NewestInv'
  <2>1. Alive(r) /\ caller' = caller /\ \A s \in RunId : s # r => exec'[s].pc = "none"
    BY ZenonT(60), <1>0, <1>3, <1>7, IdleTypes
    DEF ThreadStep, Begin, Command, AppendStep, Finish, Release, Raise
  <2>2. \A c \in Caller : caller'[c].at # "starting"
    BY <1>2, <2>1
  <2>3. Len(runs') = Len(runs)
    BY <1>7, <2>1, ThreadRow
    DEF ThreadStep, Begin, Command, AppendStep, Finish, Release, Raise
  <2> QED
    BY <2>1, <2>2, <2>3
<1>8. CASE Start \/ Push \/ UNCHANGED vars
  BY <1>8 DEF Start, Push, vars
<1>9. CASE RecoverOrphans
  <2>1. (\A c \in Caller : ~Requesting(c)) /\ (\A r \in RunId : ~Alive(r))
    BY <1>9 DEF RecoverOrphans, CoreInv, HolderFits
  <2> QED
    BY <1>9, <2>1 DEF RecoverOrphans
<1>10. CASE Kill
  BY <1>10, IdleTypes DEF Kill
<1> QED
  BY <1>4, <1>5, <1>6, <1>7, <1>8, <1>9, <1>10 DEF Next, CallerStep, CallerFault, Serve

Statuses == [r \in DOMAIN runs |-> runs[r].status]

\* The statuses are a sequence as long as the rows.
LEMMA StatusesTyped ==
    ASSUME runs \in Seq(DeployRun)
    PROVE  /\ Statuses \in Seq(Active \cup Ended) /\ Len(Statuses) = Len(runs)
           /\ DOMAIN Statuses = DOMAIN runs /\ DOMAIN runs = 1 .. Len(runs) /\ Len(runs) \in Nat
<1>1. DOMAIN runs = 1 .. Len(runs) /\ Len(runs) \in Nat
  BY LenProperties
<1>2. \A r \in DOMAIN runs : runs[r].status \in Active \cup Ended
  <2>1. \A r \in DOMAIN runs : runs[r] \in DeployRun
    BY <1>1, ElementOfSeq
  <2> QED
    BY <2>1 DEF DeployRun
<1>3. Statuses \in [1 .. Len(runs) -> Active \cup Ended]
  BY <1>1, <1>2 DEF Statuses
<1>4. Statuses \in Seq(Active \cup Ended)
  BY <1>1, <1>3, SeqDef
<1> QED
  BY <1>1, <1>3, <1>4, LenProperties

\* A new row is a run that was accepted.
LEMMA RunAccepted ==
    ASSUME TypeOK, runs' = Append(runs, NewRun)
    PROVE  Lifecycle!Accept
<1> DEFINE after == Append(Statuses, "pending")
<1>1. /\ runs' \in Seq(DeployRun) /\ Len(runs') = Len(runs) + 1
      /\ runs'[Len(runs) + 1].status = "pending"
      /\ \A s \in DOMAIN runs : runs'[s] = runs[s]
  BY AddRun DEF NewRun
<1>2. /\ Statuses \in Seq(Active \cup Ended) /\ Len(Statuses) = Len(runs)
      /\ DOMAIN runs = 1 .. Len(runs) /\ Len(runs) \in Nat
  BY StatusesTyped DEF TypeOK
<1>3. /\ Statuses' \in Seq(Active \cup Ended) /\ Len(Statuses') = Len(runs) + 1
      /\ DOMAIN runs' = 1 .. Len(runs) + 1
  <2>1. DOMAIN runs' = 1 .. Len(runs')
    BY <1>1, LenProperties
  <2>2. \A r \in DOMAIN runs' : runs'[r].status \in Active \cup Ended
    <3>1. \A r \in DOMAIN runs' : runs'[r] \in DeployRun
      BY <1>1, <2>1, ElementOfSeq
    <3> QED
      BY <3>1 DEF DeployRun
  <2>3. Statuses' \in [1 .. Len(runs) + 1 -> Active \cup Ended]
    BY <1>1, <2>1, <2>2 DEF Statuses
  <2>4. Statuses' \in Seq(Active \cup Ended)
    BY <1>2, <2>3, SeqDef
  <2> QED
    BY <1>1, <1>2, <2>1, <2>3, <2>4, LenProperties
<1>4. /\ after \in Seq(Active \cup Ended) /\ Len(after) = Len(runs) + 1
      /\ \A i \in 1 .. Len(runs) : after[i] = Statuses[i]
      /\ after[Len(runs) + 1] = "pending"
  BY <1>2, AppendProperties DEF Active
<1>5. \A i \in 1 .. Len(runs) + 1 : Statuses'[i] = after[i]
  <2>1. \A i \in 1 .. Len(runs) : Statuses'[i] = Statuses[i]
    BY <1>1, <1>2, <1>3 DEF Statuses
  <2>2. Statuses'[Len(runs) + 1] = "pending"
    BY <1>1, <1>2, <1>3 DEF Statuses
  <2> QED
    BY <1>2, <1>4, <2>1, <2>2
<1>6. Statuses' = after
  BY <1>3, <1>4, <1>5, SeqEqual
<1> QED
  BY <1>6 DEF Lifecycle!Accept, Statuses

\* A write to a row shows in its status, and in no other.
LEMMA StatusWritten ==
    ASSUME CoreInv, NEW r \in DOMAIN runs, DOMAIN runs' = DOMAIN runs,
           \A s \in DOMAIN runs : s # r => runs'[s] = runs[s]
    PROVE  Statuses' = [Statuses EXCEPT ![r] = runs'[r].status]
BY DEF Statuses

LEMMA LifecycleStep ==
    CoreInv /\ RowInv /\ NewestInv /\ [Next]_vars => [Lifecycle!Next]_Statuses
<1> SUFFICES ASSUME CoreInv, RowInv, NewestInv, [Next]_vars
             PROVE  Lifecycle!Next \/ UNCHANGED Statuses
  OBVIOUS
<1>1. CASE runs' = runs
  BY <1>1 DEF Statuses
<1>2. CASE runs' = Append(runs, NewRun)
  BY <1>2, RunAccepted DEF CoreInv, Lifecycle!Next
<1>3. ASSUME NEW r \in RunId, Begin(r) \/ AppendStep(r) \/ Finish(r)
      PROVE  Lifecycle!Next \/ UNCHANGED Statuses
  <2>1. /\ DOMAIN runs' = DOMAIN runs /\ r \in DOMAIN runs /\ runs[r] \in DeployRun
        /\ \A s \in DOMAIN runs : s # r => runs'[s] = runs[s]
        /\ runs \in Seq(DeployRun)
    BY <1>3, ThreadRow DEF Begin, AppendStep, Finish, Alive, CoreInv, TypeOK
  <2>2. r = Len(runs) /\ r = Len(Statuses) /\ DOMAIN Statuses = DOMAIN runs
    BY <1>3, <2>1, StatusesTyped DEF NewestInv, Begin, AppendStep, Finish, Alive
  <2>3. Statuses' = [Statuses EXCEPT ![r] = runs'[r].status] /\ Statuses[r] = runs[r].status
    BY <2>1, StatusWritten DEF Statuses
  <2>4. Statuses # <<>>
    BY <2>1, <2>2, EmptySeq
  <2>5. CASE Begin(r)
    <3>1. Statuses[r] = "pending" /\ Statuses' = [Statuses EXCEPT ![r] = "running"]
      BY <2>1, <2>3, <2>5 DEF Begin, RowInv, DeployRun
    <3>2. Lifecycle!Begin
      BY <2>2, <2>4, <3>1 DEF Lifecycle!Begin, Lifecycle!Advance, Statuses
    <3> QED
      BY <3>2 DEF Lifecycle!Next
  <2>6. CASE AppendStep(r)
    <3>1. runs'[r].status = runs[r].status
      BY <2>1, <2>6 DEF AppendStep, AppendedStep, DeployRun
    <3> QED
      BY <2>1, <2>3, <3>1 DEF Statuses
  <2>7. CASE Finish(r)
    <3>1. Statuses[r] = "running" /\ Statuses' = [Statuses EXCEPT ![r] = Outcome(r)]
      <4>1. runs[r].status = "running"
        BY <2>7 DEF Finish, RowInv
      <4>2. runs'[r].status = Outcome(r)
        BY <2>1, <2>7 DEF Finish, DeployRun
      <4> QED
        BY <2>3, <4>1, <4>2
    <3>2. Outcome(r) \in StepStatus
      BY DEF Outcome, StepStatus
    <3>3. Lifecycle!End
      BY <2>2, <2>4, <3>1, <3>2 DEF Lifecycle!End, Lifecycle!Advance, Statuses
    <3> QED
      BY <3>3 DEF Lifecycle!Next
  <2> QED
    BY <1>3, <2>5, <2>6, <2>7
<1>4. CASE InterruptActive
  <2>1. \A s \in DOMAIN runs : runs[s] \in DeployRun
    BY ElementOfSeq, LenProperties DEF CoreInv, TypeOK
  <2>2. Statuses' = [s \in DOMAIN Statuses |->
                       IF Statuses[s] \in Active THEN "interrupted" ELSE Statuses[s]]
    BY <1>4, <2>1 DEF InterruptActive, Statuses, DeployRun
  <2>3. Lifecycle!Interrupt
    BY <2>2 DEF Lifecycle!Interrupt, Lifecycle!Active, Active, Statuses
  <2> QED
    BY <2>3 DEF Lifecycle!Next
<1> QED
  BY <1>1, <1>2, <1>3, <1>4
  DEF Next, CallerStep, CallerFault, ThreadStep, Serve, Request, CreateRun, CreateFault,
      StartThread, ThreadFault, Command, Release, Raise, Start, RecoverOrphans, Kill, Push, vars

\* The deploy service, killed and failing anywhere, implements what its readers see.
THEOREM DeployImplementsLifecycle == Spec => ImplementsDeployLifecycle
<1>1. Init => RowInv /\ NewestInv
  BY IdleTypes DEF Init, RowInv, NewestInv, Alive
<1>2. Init => Lifecycle!Init
  <2> SUFFICES ASSUME Init PROVE Lifecycle!Init
    OBVIOUS
  <2>1. runs \in Seq(DeployRun) /\ Len(runs) = 0
    BY EmptySeq DEF Init
  <2>2. Statuses = <<>>
    BY <2>1, StatusesTyped, EmptySeq
  <2> QED
    BY <2>2 DEF Lifecycle!Init, Statuses
<1>3. [Lifecycle!Next]_Statuses => [Lifecycle!Next]_[r \in DOMAIN runs |-> runs[r].status]
  BY DEF Statuses
<1> QED
  BY <1>1, <1>2, <1>3, CoreInit, CoreStep, RowStep, NewestStep, LifecycleStep, PTL
  DEF Spec, ImplementsDeployLifecycle, Lifecycle!Spec

-----------------------------------------------------------------------------
(* No run is forgotten.  A thread that ends without having ended its run has    *)
(* raised.                                                                      *)

AttendedInv ==
    /\ \A r \in RunId : exec[r].pc = "release" /\ runs[r].status \in Active => faulty
    /\ ActiveRunsAttended

\* A run is handed from its request to its thread, and by its thread to its end.
LEMMA AttendedStep == CoreInv /\ RowInv /\ AttendedInv /\ [Next]_vars => AttendedInv'
<1> SUFFICES ASSUME CoreInv, RowInv, AttendedInv, [Next]_vars PROVE AttendedInv'
  OBVIOUS
<1> USE DEF AttendedInv, ActiveRunsAttended, Attended, faultVars
<1>0. /\ \A r \in RunId : exec[r] \in [pc : {"none", "begin", "command", "append", "finish", "release"},
                                       step : 0 .. HealthCheck, ok : BOOLEAN]
      /\ exec = [r \in RunId |-> exec[r]] /\ caller = [c \in Caller |-> caller[c]]
      /\ \A c \in Caller : caller[c] \in [at : {"idle", "creating", "starting"}, run : 0 .. MaxRuns]
      /\ Active \cap Ended = {}
      /\ DOMAIN runs \subseteq RunId
  <2>1. DOMAIN runs \subseteq RunId
    BY LenProperties, DeployAssumption DEF CoreInv, TypeOK, RunId
  <2> QED
    BY <2>1 DEF CoreInv, TypeOK, Active, Ended
<1>1. ASSUME NEW c \in Caller, Request(c) PROVE AttendedInv'
  BY <1>0, <1>1 DEF Request, Alive
<1>2. ASSUME NEW c \in Caller, CreateRun(c) PROVE AttendedInv'
  <2>1. /\ DOMAIN runs' = DOMAIN runs \cup {Len(runs) + 1}
        /\ \A s \in DOMAIN runs : runs'[s] = runs[s]
    BY <1>2, AddRun DEF CreateRun, CoreInv
  <2>2. /\ exec' = exec /\ service' = service /\ faulty' = faulty
        /\ caller' = [caller EXCEPT ![c] = [at |-> "starting", run |-> Len(runs) + 1]]
        /\ caller[c].at = "creating"
    BY <1>2 DEF CreateRun
  <2>3. \A r \in RunId : exec[r].pc = "none"
    BY <2>2 DEF CoreInv, OneDeployAtATime, Requesting, Alive
  <2> QED
    BY <1>0, <2>1, <2>2, <2>3 DEF Alive
<1>3. ASSUME NEW c \in Caller, CreateFault(c) \/ ThreadFault(c) PROVE AttendedInv'
  <2>1. faulty' = TRUE
    BY <1>3 DEF CreateFault, ThreadFault, Fault
  <2> QED
    BY <2>1
<1>4. ASSUME NEW c \in Caller, StartThread(c) PROVE AttendedInv'
  <2>1. /\ caller' = [caller EXCEPT ![c] = IdleCaller]
        /\ exec' = [exec EXCEPT ![caller[c].run] = [pc |-> "begin", step |-> 1, ok |-> TRUE]]
        /\ runs' = runs /\ service' = service /\ faulty' = faulty
    BY <1>4 DEF StartThread
  <2>2. \A r \in RunId : exec[r].pc = "none"
    BY <1>4 DEF StartThread, CoreInv, OneDeployAtATime, Requesting, Alive
  <2>3. caller[c].run \in RunId
    BY <1>4, LenProperties DEF StartThread, CoreInv, HolderFits, TypeOK, RunId
  <2>4. \A d \in Caller : caller[d].at = "starting" => d = c
    BY <1>4 DEF StartThread, CoreInv, OneDeployAtATime, Requesting
  <2>5. \A r \in RunId : exec'[r].pc = IF r = caller[c].run THEN "begin" ELSE "none"
    BY <1>0, <2>1, <2>2
  <2> QED
    BY ZenonT(60), <1>0, <2>1, <2>2, <2>3, <2>4, <2>5 DEF Alive
<1>5. ASSUME NEW r \in RunId, ThreadStep(r) \/ Raise(r) PROVE AttendedInv'
  <2>1. Alive(r) /\ caller' = caller /\ service' = service
    BY <1>5 DEF ThreadStep, Begin, Command, AppendStep, Finish, Release, Raise, Alive
  <2>2. \A s \in RunId : s # r => exec'[s] = exec[s] /\ exec[s].pc = "none"
    <3>1. \A s \in RunId : s # r => exec[s].pc = "none"
      BY <2>1 DEF CoreInv, OneDeployAtATime, Alive
    <3>2. \A s \in RunId : s # r => exec'[s] = exec[s]
      BY ZenonT(60), <1>0, <1>5 DEF ThreadStep, Begin, Command, AppendStep, Finish, Release, Raise
    <3> QED
      BY <3>1, <3>2
  <2>3. DOMAIN runs' = DOMAIN runs /\ \A s \in DOMAIN runs : s # r => runs'[s] = runs[s]
    BY <1>5, <2>1, ThreadRow
    DEF ThreadStep, Begin, Command, AppendStep, Finish, Release, Raise
  <2>4. CASE Begin(r) \/ Command(r) \/ AppendStep(r)
    <3>1. exec'[r].pc \in {"command", "append", "finish"}
      <4>1. CASE Begin(r)
        BY <1>0, <4>1 DEF Begin
      <4>2. CASE Command(r)
        BY <1>0, <4>2 DEF Command
      <4>3. CASE AppendStep(r)
        BY <1>0, <4>3 DEF AppendStep
      <4> QED
        BY <2>4, <4>1, <4>2, <4>3
    <3>2. UNCHANGED faulty
      BY <2>4 DEF Begin, Command, AppendStep
    <3> QED
      BY ZenonT(60), <1>0, <2>1, <2>2, <2>3, <3>1, <3>2 DEF Alive
  <2>5. CASE Finish(r)
    <3>1. exec'[r].pc = "release" /\ faulty' = faulty
      BY <1>0, <2>5 DEF Finish
    <3>2. runs'[r].status \in Ended
      BY ZenonT(60), <2>1, <2>5, ThreadRow DEF Finish, DeployRun, Ended, Outcome
    <3> QED
      BY ZenonT(60), <1>0, <2>1, <2>2, <2>3, <3>1, <3>2 DEF Alive
  <2>6. CASE Release(r)
    <3>1. exec'[r].pc = "none" /\ faulty' = faulty /\ runs' = runs /\ exec[r].pc = "release"
      BY <1>0, <2>6, IdleTypes DEF Release
    <3>2. ~faulty => runs[r].status \notin Active
      BY <3>1
    <3>3. \A s \in RunId : s # r /\ Attended(s) => Attended(s)'
      BY <2>1, <2>2 DEF Alive
    <3>4. \A s \in RunId : exec'[s].pc # "release"
      BY <2>2, <3>1
    <3> QED
      BY <1>0, <2>1, <3>1, <3>2, <3>3, <3>4
  <2>7. CASE Raise(r)
    <3>1. faulty' = TRUE
      BY <2>7 DEF Raise, Fault
    <3> QED
      BY <3>1
  <2> QED
    BY <1>5, <2>4, <2>5, <2>6, <2>7 DEF ThreadStep
<1>6. CASE Start \/ Push
  BY <1>6 DEF Start, Push, Alive
<1>7. CASE RecoverOrphans
  <2>1. \A r \in RunId : exec'[r].pc = "none"
    BY <1>0, <1>7 DEF RecoverOrphans, CoreInv, HolderFits, Alive
  <2>2. \A s \in DOMAIN runs' : runs'[s].status \notin Active
    BY <1>0, <1>7, InterruptRows DEF RecoverOrphans, CoreInv
  <2> QED
    BY <2>1, <2>2
<1>8. CASE Kill
  BY <1>8, IdleTypes DEF Kill
<1>9. CASE UNCHANGED vars
  BY <1>9 DEF vars, Alive
<1> QED
  BY <1>1, <1>2, <1>3, <1>4, <1>5, <1>6, <1>7, <1>8, <1>9
  DEF Next, CallerStep, CallerFault, Serve

\* As long as nothing has raised, a run that is not over is being worked on.
THEOREM NoRunIsForgotten == Spec => []ActiveRunsAttended
<1>1. Init => RowInv /\ AttendedInv
  BY IdleTypes DEF Init, RowInv, AttendedInv, ActiveRunsAttended, Attended
<1>2. AttendedInv => ActiveRunsAttended
  BY DEF AttendedInv
<1> QED
  BY <1>1, <1>2, CoreInit, CoreStep, RowStep, AttendedStep, PTL DEF Spec

-----------------------------------------------------------------------------
(* Success.  While its thread is alone, the steps that a run has done leave     *)
(* their parts at what is checked out, which the first step brought to the head *)
(* of the branch.  Versions only grow, so what a successful run has installed   *)
(* stays installed, by that run or by a later one.                              *)

\* The results of n successful steps.
Passed(n) == [k \in 1 .. n |-> "success"]

\* Run r has brought the parts of its first n steps up to date.
UpTo(r, n) ==
    \A k \in 1 .. 6 : k <= n =>
        /\ runs[r].wanted <= installed["checkout"]
        /\ installed[Parts[k]] = installed["checkout"]

Progress(r) ==
    /\ exec[r].pc = "begin" => exec[r].step = 1 /\ runs[r].steps = Passed(0)
    /\ exec[r].pc \in {"command", "append"} =>
         runs[r].steps = Passed(exec[r].step - 1) /\ UpTo(r, exec[r].step - 1)
    /\ exec[r].pc = "append" /\ exec[r].ok => UpTo(r, exec[r].step)
    /\ exec[r].pc = "finish" /\ exec[r].ok =>
         runs[r].steps = Passed(HealthCheck) /\ UpTo(r, HealthCheck)

Versions ==
    /\ \A p \in Part : installed[p] <= installed["checkout"]
    /\ installed["checkout"] <= branch
    /\ \A s \in DOMAIN runs : runs[s].wanted <= branch

SuccessInv ==
    /\ \A c \in Caller : caller[c].at = "starting" => runs[caller[c].run].steps = Passed(0)
    /\ \A r \in RunId : Progress(r)
    /\ Versions
    /\ SuccessIsInstalled

\* One more success in the list of results.
LEMMA OneMorePassed == ASSUME NEW n \in Nat PROVE Append(Passed(n), "success") = Passed(n + 1)
<1>1. \A m \in Nat : Passed(m) \in Seq(StepStatus) /\ Len(Passed(m)) = m
  <2> TAKE m \in Nat
  <2>1. Passed(m) \in [1 .. m -> StepStatus]
    BY DEF Passed, StepStatus
  <2> QED
    BY <2>1, SeqDef, LenProperties
<1>2. n + 1 \in Nat
  OBVIOUS
<1>3. /\ Append(Passed(n), "success") \in Seq(StepStatus) /\ Len(Append(Passed(n), "success")) = n + 1
      /\ \A i \in 1 .. n : Append(Passed(n), "success")[i] = Passed(n)[i]
      /\ Append(Passed(n), "success")[n + 1] = "success"
  <2>1. "success" \in StepStatus
    BY DEF StepStatus
  <2>2. Passed(n) \in Seq(StepStatus) /\ Len(Passed(n)) = n
    BY <1>1
  <2> QED
    BY <2>1, <2>2, AppendProperties
<1>4. \A i \in 1 .. n + 1 : Append(Passed(n), "success")[i] = Passed(n + 1)[i]
  <2> TAKE i \in 1 .. n + 1
  <2>1. CASE i = n + 1
    BY <1>3, <2>1, Zenon DEF Passed
  <2>2. CASE i # n + 1
    <3>1. i \in 1 .. n
      BY <2>2
    <3>2. Passed(n)[i] = "success" /\ Passed(n + 1)[i] = "success"
      BY <3>1, Zenon DEF Passed
    <3> QED
      BY <1>3, <3>1, <3>2
  <2> QED
    BY <2>1, <2>2
<1> QED
  BY <1>1, <1>2, <1>3, <1>4, SeqEqual

\* What a step installs is no older than what was there, and no newer than what
\* is checked out.
LEMMA StepInstalls ==
    ASSUME CoreInv, Versions, NEW k \in 1 .. 7
    PROVE  /\ \A p \in Part : installed[p] <= After(k)[p] /\ After(k)[p] <= After(k)["checkout"]
           /\ After(k)["checkout"] <= branch
           /\ k = 1 => After(k)["checkout"] = branch
           /\ k # 1 => /\ After(k)["checkout"] = installed["checkout"]
                       /\ k <= 6 => After(k)[Parts[k]] = installed["checkout"]
                       /\ \A j \in 1 .. 6 : installed[Parts[j]] = installed["checkout"]
                             => After(k)[Parts[j]] = installed["checkout"]
<1>1. /\ installed \in [Part -> Nat] /\ branch \in Nat
      /\ installed["checkout"] <= branch /\ \A p \in Part : installed[p] <= installed["checkout"]
  BY DEF CoreInv, TypeOK, Versions
<1>2. CASE k = 1
  <2>1. After(k) = [installed EXCEPT !["checkout"] = branch]
    BY <1>2, PartsOfSteps DEF After
  <2> QED
    BY <1>1, <1>2, <2>1, PartsOfSteps
<1>3. CASE k \in 2 .. 6
  <2>1. After(k) = [installed EXCEPT ![Parts[k]] = installed["checkout"]]
    <3>1. k # 1 /\ k # HealthCheck
      BY <1>3, PartsOfSteps
    <3> QED
      BY <3>1 DEF After
  <2> QED
    BY <1>1, <1>3, <2>1, PartsOfSteps
<1>4. CASE k = 7
  <2>1. After(k) = installed
    BY <1>4, PartsOfSteps DEF After
  <2> QED
    BY <1>1, <1>4, <2>1
<1> QED
  BY <1>2, <1>3, <1>4

\* Versions only grow, and rows that have ended stay: so a success stays one.
LEMMA SuccessStays ==
    ASSUME CoreInv, SuccessIsInstalled, installed' \in [Part -> Nat],
           \A p \in Part : installed[p] <= installed'[p],
           NEW s \in DOMAIN runs, runs'[s] = runs[s] \/ runs'[s].status # "success"
    PROVE  runs'[s].status = "success" =>
              /\ runs'[s].steps = [k \in 1 .. HealthCheck |-> "success"]
              /\ \A p \in Part : runs'[s].wanted <= installed'[p]
              /\ runs'[s].git_after # NoCommit =>
                    /\ runs'[s].wanted <= runs'[s].git_after
                    /\ \A p \in Part : runs'[s].git_after <= installed'[p]
<1> SUFFICES ASSUME runs'[s].status = "success"
             PROVE  /\ runs'[s].steps = [k \in 1 .. HealthCheck |-> "success"]
                    /\ \A p \in Part : runs'[s].wanted <= installed'[p]
                    /\ runs'[s].git_after # NoCommit =>
                          /\ runs'[s].wanted <= runs'[s].git_after
                          /\ \A p \in Part : runs'[s].git_after <= installed'[p]
  OBVIOUS
<1>1. runs'[s] = runs[s]
  OBVIOUS
<1>2. runs[s] \in DeployRun /\ installed \in [Part -> Nat]
  BY ElementOfSeq, LenProperties DEF CoreInv, TypeOK
<1>3. runs[s].wanted \in Nat /\ (runs[s].git_after # NoCommit => runs[s].git_after \in Nat)
  BY <1>2 DEF DeployRun
<1>4. /\ runs[s].steps = [k \in 1 .. HealthCheck |-> "success"]
      /\ \A p \in Part : runs[s].wanted <= installed[p]
      /\ runs[s].git_after # NoCommit =>
            /\ runs[s].wanted <= runs[s].git_after
            /\ \A p \in Part : runs[s].git_after <= installed[p]
  BY <1>1 DEF SuccessIsInstalled
<1>5. ASSUME NEW v \in Nat, \A p \in Part : v <= installed[p]
      PROVE  \A p \in Part : v <= installed'[p]
  BY <1>2, <1>5
<1> QED
  BY <1>1, <1>3, <1>4, <1>5

\* A command leaves the parts of the steps before it up to date, and when it
\* succeeds its own part too.
LEMMA CommandInstalls ==
    ASSUME CoreInv, SuccessInv, NEW r \in RunId, NEW k, k = exec[r].step,
           exec[r].pc = "command", UNCHANGED <<runs, branch>>,
           installed' \in {installed, After(k)}
    PROVE  /\ k \in 1 .. 7 /\ r \in DOMAIN runs
           /\ installed' \in [Part -> Nat] /\ \A p \in Part : installed[p] <= installed'[p]
           /\ Versions'
           /\ UpTo(r, k - 1)'
           /\ installed' = After(k) => UpTo(r, k)'
<1>1. k \in 1 .. 7 /\ r \in DOMAIN runs /\ UpTo(r, k - 1)
  BY PartsOfSteps DEF CoreInv, HolderFits, Alive, SuccessInv, Progress
<1>2. installed \in [Part -> Nat] /\ After(k) \in [Part -> Nat] /\ branch \in Nat
  BY <1>1, AfterTypes, PartsOfSteps DEF CoreInv, TypeOK
<1>3. runs[r].wanted <= branch /\ runs[r] \in DeployRun
  BY <1>1, ElementOfSeq, LenProperties DEF SuccessInv, Versions, CoreInv, TypeOK
<1>4. /\ \A p \in Part : installed[p] <= After(k)[p] /\ After(k)[p] <= After(k)["checkout"]
      /\ After(k)["checkout"] <= branch
      /\ k = 1 => After(k)["checkout"] = branch
      /\ k # 1 => /\ After(k)["checkout"] = installed["checkout"]
                  /\ k <= 6 => After(k)[Parts[k]] = installed["checkout"]
                  /\ \A j \in 1 .. 6 : installed[Parts[j]] = installed["checkout"]
                        => After(k)[Parts[j]] = installed["checkout"]
  BY <1>1, StepInstalls DEF SuccessInv
<1>5. installed' \in {installed, After(k)} /\ runs' = runs
  OBVIOUS
<1>6. installed' \in [Part -> Nat] /\ \A p \in Part : installed[p] <= installed'[p]
  BY <1>2, <1>4, <1>5
<1>7. Versions'
  BY <1>4, <1>5 DEF SuccessInv, Versions
<1>8. UpTo(r, k - 1)'
  <2>1. \A j \in 1 .. 6 : j <= k - 1 =>
          /\ k # 1 /\ runs[r].wanted <= installed["checkout"]
          /\ installed[Parts[j]] = installed["checkout"]
    BY <1>1 DEF UpTo
  <2> QED
    BY <1>4, <1>5, <2>1 DEF UpTo
<1>9. ASSUME installed' = After(k) PROVE UpTo(r, k)'
  <2> SUFFICES ASSUME NEW j \in 1 .. 6, j <= k
               PROVE  /\ runs[r].wanted <= installed'["checkout"]
                      /\ installed'[Parts[j]] = installed'["checkout"]
    BY <1>5 DEF UpTo
  <2>1. CASE k = 1
    BY <1>3, <1>4, <1>5, <1>9, <2>1, PartsOfSteps
  <2>2. CASE k # 1
    <3>1. runs[r].wanted <= installed["checkout"]
      BY <1>1, <2>2 DEF UpTo
    <3>2. j = k \/ installed[Parts[j]] = installed["checkout"]
      BY <1>1 DEF UpTo
    <3> QED
      BY <1>4, <1>9, <2>2, <3>1, <3>2
  <2> QED
    BY <2>1, <2>2
<1> QED
  BY <1>1, <1>6, <1>7, <1>8, <1>9

\* The first step of a deploy that changes what is installed is its git pull; a
\* run gets to success by way of all the others.
LEMMA SuccessStep == CoreInv /\ RowInv /\ SuccessInv /\ [Next]_vars => SuccessInv'
<1> SUFFICES ASSUME CoreInv, RowInv, SuccessInv, [Next]_vars PROVE SuccessInv'
  OBVIOUS
<1> USE DEF faultVars
<1>0. /\ \A r \in RunId : exec[r] \in [pc : {"none", "begin", "command", "append", "finish", "release"},
                                       step : 0 .. HealthCheck, ok : BOOLEAN]
      /\ exec = [r \in RunId |-> exec[r]] /\ caller = [c \in Caller |-> caller[c]]
      /\ \A c \in Caller : caller[c] \in [at : {"idle", "creating", "starting"}, run : 0 .. MaxRuns]
      /\ installed \in [Part -> Nat] /\ branch \in Nat /\ HealthCheck = 7
  BY PartsOfSteps DEF CoreInv, TypeOK
<1>1. \A s \in DOMAIN runs : runs[s] \in DeployRun
  BY ElementOfSeq, LenProperties DEF CoreInv, TypeOK
<1>2. \A s \in DOMAIN runs : s \in DOMAIN runs'
                             /\ (runs'[s] = runs[s] \/ runs[s].status \notin Ended)
  BY RowsStay
\* Steps that leave the rows, the threads and the installation alone.
<1>3. ASSUME UNCHANGED <<runs, exec, installed>>, branch' \in Nat, branch <= branch',
             \A c \in Caller : caller'[c].at = "starting" => caller'[c] = caller[c]
      PROVE  SuccessInv'
  <2>1. \A c \in Caller : caller'[c].at = "starting" => runs'[caller'[c].run].steps = Passed(0)
    BY <1>3 DEF SuccessInv
  <2>2. \A r \in RunId : Progress(r)'
    BY <1>3 DEF SuccessInv, Progress, UpTo
  <2>3. Versions'
    <3>1. installed["checkout"] \in Nat /\ \A s \in DOMAIN runs : runs[s].wanted \in Nat
      BY <1>0, <1>1, PartsOfSteps DEF DeployRun
    <3> QED
      BY <1>0, <1>3, <3>1 DEF SuccessInv, Versions
  <2>4. SuccessIsInstalled'
    BY <1>3 DEF SuccessInv, SuccessIsInstalled
  <2> QED
    BY <2>1, <2>2, <2>3, <2>4 DEF SuccessInv
\* An INSERT, or none, while no thread is at a deploy.
<1>4. ASSUME NEW c \in Caller, CreateRun(c) \/ CreateFault(c) PROVE SuccessInv'
  <2>1. \A r \in RunId : exec'[r].pc = "none"
    BY <1>4 DEF CreateRun, CreateFault, CoreInv, OneDeployAtATime, Requesting, Alive
  <2>2. installed' = installed /\ branch' = branch
    BY <1>4 DEF CreateRun, CreateFault
  <2>3. \/ runs' = runs
        \/ /\ DOMAIN runs' = DOMAIN runs \cup {Len(runs) + 1}
           /\ runs'[Len(runs) + 1] = NewRun
           /\ \A s \in DOMAIN runs : runs'[s] = runs[s]
    BY <1>4, AddRun DEF CreateRun, CreateFault, CoreInv
  <2>4. \A d \in Caller : caller'[d].at = "starting" =>
          caller'[d].run = Len(runs) + 1 /\ runs'[Len(runs) + 1] = NewRun
    <3>1. \A d \in Caller : d # c => caller[d].at = "idle"
      BY <1>0, <1>4 DEF CreateRun, CreateFault, CoreInv, OneDeployAtATime, Requesting
    <3>2. CASE CreateRun(c)
      BY <1>0, <3>1, <3>2, AddRun DEF CreateRun, CoreInv
    <3>3. CASE CreateFault(c)
      BY <1>0, <3>1, <3>3, IdleTypes DEF CreateFault
    <3> QED
      BY <1>4, <3>2, <3>3
  <2>5. NewRun.steps = Passed(0) /\ NewRun.status = "pending" /\ NewRun.wanted = branch
    <3>1. Passed(0) = <<>>
      BY DEF Passed
    <3> QED
      BY <3>1 DEF NewRun
  <2>6. \A r \in RunId : Progress(r)'
    BY <2>1 DEF Progress
  <2>7. Versions'
    BY <1>0, <2>2, <2>3, <2>5 DEF SuccessInv, Versions
  <2>8. SuccessIsInstalled'
    BY <2>2, <2>3, <2>5 DEF SuccessInv, SuccessIsInstalled
  <2> QED
    BY <2>4, <2>5, <2>6, <2>7, <2>8 DEF SuccessInv
<1>5. ASSUME NEW c \in Caller, StartThread(c) PROVE SuccessInv'
  <2>1. /\ UNCHANGED <<runs, installed, branch>> /\ caller[c].at = "starting"
        /\ caller' = [caller EXCEPT ![c] = IdleCaller]
        /\ exec' = [exec EXCEPT ![caller[c].run] = [pc |-> "begin", step |-> 1, ok |-> TRUE]]
    BY <1>5 DEF StartThread
  <2>2. \A d \in Caller : caller'[d].at = "idle"
    BY <1>0, <2>1, IdleTypes DEF CoreInv, OneDeployAtATime, Requesting
  <2>3. \A r \in RunId : exec[r].pc = "none"
    BY <2>1 DEF CoreInv, OneDeployAtATime, Requesting, Alive
  <2>4. \A r \in RunId : IF r = caller[c].run THEN exec'[r].pc = "begin" /\ exec'[r].step = 1
                         ELSE exec'[r].pc = "none"
    BY <1>0, <2>1, <2>3
  <2>5. runs'[caller[c].run].steps = Passed(0)
    BY <2>1 DEF SuccessInv
  <2>6. \A r \in RunId : Progress(r)'
    BY <2>4, <2>5 DEF Progress
  <2>7. Versions' /\ SuccessIsInstalled'
    BY <2>1 DEF SuccessInv, Versions, SuccessIsInstalled
  <2> QED
    BY <2>2, <2>6, <2>7 DEF SuccessInv
\* The thread of run r, the only one.
<1>6. ASSUME NEW r \in RunId, Alive(r), UNCHANGED <<caller, branch>>,
             \A s \in RunId : s # r => exec'[s] = exec[s],
             Progress(r)', Versions', SuccessIsInstalled'
      PROVE  SuccessInv'
  <2>1. \A d \in Caller : caller'[d].at # "starting"
    BY <1>6 DEF CoreInv, OneDeployAtATime, Requesting
  <2>2. \A s \in RunId : s # r => exec'[s].pc = "none"
    BY <1>6 DEF CoreInv, OneDeployAtATime, Alive
  <2>3. \A s \in RunId : Progress(s)'
    BY <1>6, <2>2 DEF Progress
  <2> QED
    BY <1>6, <2>1, <2>3 DEF SuccessInv
<1>7. ASSUME NEW r \in RunId, Begin(r) PROVE SuccessInv'
  <2>1. /\ Alive(r) /\ UNCHANGED <<caller, branch, installed>>
        /\ \A s \in RunId : s # r => exec'[s] = exec[s]
        /\ exec'[r].pc = "command" /\ exec'[r].step = exec[r].step /\ exec[r].pc = "begin"
    BY <1>0, <1>7 DEF Begin, Alive
  <2>2. /\ DOMAIN runs' = DOMAIN runs /\ r \in DOMAIN runs
        /\ \A s \in DOMAIN runs : s # r => runs'[s] = runs[s]
    BY <1>7, <2>1, ThreadRow DEF Begin
  <2>3. /\ runs'[r].status = "running" /\ runs'[r].steps = runs[r].steps
        /\ runs'[r].wanted = runs[r].wanted
    BY <1>1, <1>7, <2>2 DEF Begin, DeployRun
  <2>4. Progress(r)'
    <3>1. exec[r].step = 1 /\ runs[r].steps = Passed(0)
      BY <2>1 DEF SuccessInv, Progress
    <3>2. exec'[r].step - 1 = 0
      BY <2>1, <3>1
    <3>3. \A k \in 1 .. 6 : ~ (k <= 0)
      OBVIOUS
    <3> QED
      BY <2>1, <2>3, <3>1, <3>2, <3>3 DEF Progress, UpTo
  <2>5. Versions'
    BY <2>1, <2>2, <2>3 DEF SuccessInv, Versions
  <2>6. SuccessIsInstalled'
    BY ZenonT(60), <2>1, <2>2, <2>3 DEF SuccessInv, SuccessIsInstalled
  <2> QED
    BY <1>6, <2>1, <2>4, <2>5, <2>6
<1>8. ASSUME NEW r \in RunId, Command(r) PROVE SuccessInv'
  <2>0. PICK k \in 1 .. 7 : k = exec[r].step
    BY <1>0, <1>8 DEF Command, CoreInv, HolderFits, Alive
  <2>1. PICK ok \in BOOLEAN :
          /\ installed' \in {After(k)} \cup IF ok THEN {} ELSE {installed}
          /\ exec' = [exec EXCEPT ![r].ok = ok, ![r].pc = "append"]
    BY <1>8, <2>0 DEF Command
  <2>2. exec[r].pc = "command" /\ UNCHANGED <<runs, caller, branch>>
    BY <1>8 DEF Command
  <2>3. exec'[r].pc = "append" /\ exec'[r].step = k /\ (exec'[r].ok => installed' = After(k))
    <3>1. exec'[r].pc = "append" /\ exec'[r].step = k /\ exec'[r].ok = ok
      BY <1>0, <2>0, <2>1
    <3> QED
      BY <2>1, <3>1
  <2>4. \A s \in RunId : s # r => exec'[s] = exec[s]
    BY <1>0, <2>1
  <2>5. installed' \in {installed, After(k)}
    BY <2>1
  <2>6. /\ installed' \in [Part -> Nat] /\ \A p \in Part : installed[p] <= installed'[p]
        /\ Versions'
        /\ UpTo(r, k - 1)'
        /\ installed' = After(k) => UpTo(r, k)'
    BY <2>0, <2>2, <2>5, CommandInstalls
  <2>7. Progress(r)'
    BY <2>0, <2>2, <2>3, <2>6 DEF SuccessInv, Progress
  <2>8. SuccessIsInstalled'
    BY <2>2, <2>6, SuccessStays DEF SuccessInv, SuccessIsInstalled
  <2> QED
    BY <1>6, <2>2, <2>4, <2>6, <2>7, <2>8 DEF Alive
<1>9. ASSUME NEW r \in RunId, AppendStep(r) PROVE SuccessInv'
  <2>0. PICK k \in 1 .. 7 : k = exec[r].step
    BY <1>0, <1>9 DEF AppendStep, CoreInv, HolderFits, Alive
  <2>1. /\ Alive(r) /\ UNCHANGED <<caller, branch, installed>>
        /\ \A s \in RunId : s # r => exec'[s] = exec[s]
        /\ exec[r].pc = "append" /\ exec'[r].ok = exec[r].ok
    BY <1>0, <1>9 DEF AppendStep, Alive
  <2>2. /\ DOMAIN runs' = DOMAIN runs /\ r \in DOMAIN runs
        /\ \A s \in DOMAIN runs : s # r => runs'[s] = runs[s]
    BY <1>9, <2>1, ThreadRow DEF AppendStep
  <2>3. /\ runs'[r].status = runs[r].status /\ runs'[r].wanted = runs[r].wanted
        /\ runs'[r].steps = Append(runs[r].steps, Outcome(r))
    BY <1>1, <1>9, <2>2 DEF AppendStep, AppendedStep, DeployRun
  <2>4. runs[r].status = "running"
    BY <2>1 DEF RowInv
  <2>5. runs[r].steps = Passed(k - 1) /\ (exec[r].ok => UpTo(r, k))
    BY <2>0, <2>1 DEF SuccessInv, Progress
  <2>6. exec[r].ok => runs'[r].steps = Passed(k) /\ UpTo(r, k)'
    <3>1. Append(Passed(k - 1), "success") = Passed(k)
      <4>1. k - 1 \in Nat /\ (k - 1) + 1 = k
        OBVIOUS
      <4> QED
        BY <4>1, OneMorePassed
    <3> QED
      BY <2>1, <2>3, <2>5, <3>1 DEF UpTo, Outcome
  <2>7. \/ exec[r].ok /\ exec'[r].pc = "command" /\ exec'[r].step - 1 = k
        \/ exec'[r].pc = "finish" /\ (exec[r].ok => k = HealthCheck)
    <3>1. CASE exec[r].ok /\ exec[r].step < HealthCheck
      <4>1. exec'[r].pc = "command" /\ exec'[r].step = k + 1
        BY <1>0, <1>9, <2>0, <3>1 DEF AppendStep
      <4> QED
        BY <3>1, <4>1
    <3>2. CASE ~ (exec[r].ok /\ exec[r].step < HealthCheck)
      <4>1. exec'[r].pc = "finish"
        BY <1>0, <1>9, <3>2 DEF AppendStep
      <4> QED
        BY <1>0, <2>0, <3>2, <4>1
    <3> QED
      BY <3>1, <3>2
  <2>8. Progress(r)'
    BY <2>1, <2>6, <2>7 DEF Progress
  <2>9. Versions'
    BY <2>1, <2>2, <2>3 DEF SuccessInv, Versions
  <2>10. SuccessIsInstalled'
    BY <2>1, <2>2, <2>3, <2>4 DEF SuccessInv, SuccessIsInstalled
  <2> QED
    BY <1>6, <2>1, <2>8, <2>9, <2>10
<1>10. ASSUME NEW r \in RunId, Finish(r) PROVE SuccessInv'
  <2>1. /\ Alive(r) /\ UNCHANGED <<caller, branch, installed>>
        /\ \A s \in RunId : s # r => exec'[s] = exec[s]
        /\ exec[r].pc = "finish" /\ exec'[r].pc = "release"
    BY <1>0, <1>10 DEF Finish, Alive
  <2>2. /\ DOMAIN runs' = DOMAIN runs /\ r \in DOMAIN runs
        /\ \A s \in DOMAIN runs : s # r => runs'[s] = runs[s]
    BY <1>10, <2>1, ThreadRow DEF Finish
  <2>3. /\ runs'[r].status = Outcome(r) /\ runs'[r].wanted = runs[r].wanted
        /\ runs'[r].git_after \in {installed["checkout"], NoCommit}
        /\ runs'[r].steps = runs[r].steps
    BY <1>1, <1>10, <2>2 DEF Finish, GitSha, DeployRun
  <2>4. Progress(r)'
    BY <2>1 DEF Progress
  <2>5. Versions'
    BY <2>1, <2>2, <2>3 DEF SuccessInv, Versions
  <2>6. Outcome(r) = "success" =>
          /\ runs[r].steps = Passed(HealthCheck)
          /\ runs[r].wanted <= installed["checkout"]
          /\ \A p \in Part : runs[r].wanted <= installed[p] /\ installed["checkout"] <= installed[p]
    <3>1. SUFFICES ASSUME exec[r].ok
                   PROVE  /\ runs[r].steps = Passed(HealthCheck)
                          /\ runs[r].wanted <= installed["checkout"]
                          /\ \A p \in Part : runs[r].wanted <= installed[p]
                                             /\ installed["checkout"] <= installed[p]
      BY DEF Outcome
    <3>2. runs[r].steps = Passed(HealthCheck) /\ UpTo(r, HealthCheck)
      BY <2>1, <3>1 DEF SuccessInv, Progress
    <3>3. \A j \in 1 .. 6 : runs[r].wanted <= installed["checkout"]
                            /\ installed[Parts[j]] = installed["checkout"]
      BY <1>0, <3>2 DEF UpTo
    <3>4. \A p \in Part : installed[p] = installed["checkout"]
      BY <3>3, PartsOfSteps
    <3> QED
      BY <1>0, <3>2, <3>3, <3>4, PartsOfSteps
  <2>7. SuccessIsInstalled'
    <3>1. runs'[r].status = "success" =>
            /\ runs'[r].steps = [k \in 1 .. HealthCheck |-> "success"]
            /\ \A p \in Part : runs'[r].wanted <= installed'[p]
            /\ runs'[r].git_after # NoCommit =>
                  /\ runs'[r].wanted <= runs'[r].git_after
                  /\ \A p \in Part : runs'[r].git_after <= installed'[p]
      BY <2>1, <2>3, <2>6 DEF Passed
    <3>2. \A s \in DOMAIN runs : s # r => runs'[s] = runs[s]
      BY <2>2
    <3> QED
      BY <2>1, <2>2, <3>1, <3>2 DEF SuccessInv, SuccessIsInstalled
  <2> QED
    BY <1>6, <2>1, <2>4, <2>5, <2>7
<1>11. ASSUME NEW r \in RunId, Release(r) PROVE SuccessInv'
  <2>1. /\ Alive(r) /\ UNCHANGED <<runs, caller, branch, installed>>
        /\ \A s \in RunId : s # r => exec'[s] = exec[s]
        /\ exec'[r].pc = "none"
    BY <1>0, <1>11, IdleTypes DEF Release, Alive
  <2>2. Progress(r)' /\ Versions' /\ SuccessIsInstalled'
    BY <2>1 DEF SuccessInv, Progress, Versions, SuccessIsInstalled
  <2> QED
    BY <1>6, <2>1, <2>2
<1>12. ASSUME NEW r \in RunId, Raise(r) PROVE SuccessInv'
  <2>1. /\ Alive(r) /\ UNCHANGED <<runs, caller, branch>>
        /\ \A s \in RunId : s # r => exec'[s] = exec[s]
        /\ exec'[r].pc = "release"
    BY <1>0, <1>12 DEF Raise, Alive
  <2>2. Progress(r)'
    BY <2>1 DEF Progress
  <2>3. CASE installed' = installed
    BY <1>6, <2>1, <2>2, <2>3 DEF SuccessInv, Versions, SuccessIsInstalled
  <2>4. CASE exec[r].pc = "command" /\ installed' = After(exec[r].step)
    <3>1. PICK k \in 1 .. 7 : k = exec[r].step
      BY <1>0, <2>1 DEF CoreInv, HolderFits
    <3>2. /\ installed' \in [Part -> Nat] /\ \A p \in Part : installed[p] <= installed'[p]
          /\ Versions'
      BY <2>1, <2>4, <3>1, CommandInstalls
    <3>3. SuccessIsInstalled'
      BY <2>1, <3>2, SuccessStays DEF SuccessInv, SuccessIsInstalled
    <3> QED
      BY <1>6, <2>1, <2>2, <3>2, <3>3
  <2> QED
    BY <1>12, <2>3, <2>4 DEF Raise
<1>13. CASE RecoverOrphans
  <2>1. \A r \in RunId : exec'[r].pc = "none"
    BY <1>0, <1>13 DEF RecoverOrphans, CoreInv, HolderFits, Alive
  <2>2. \A c \in Caller : caller'[c].at = "idle"
    BY <1>0, <1>13 DEF RecoverOrphans, CoreInv, HolderFits, Requesting
  <2>3. installed' = installed /\ branch' = branch
    BY <1>13 DEF RecoverOrphans
  <2>4. DOMAIN runs' = DOMAIN runs /\ \A s \in DOMAIN runs :
          /\ runs'[s].wanted = runs[s].wanted
          /\ runs'[s] = runs[s] \/ runs'[s].status # "success"
    BY <1>13, InterruptRows DEF RecoverOrphans, CoreInv, Ended
  <2>5. Versions'
    BY <2>3, <2>4 DEF SuccessInv, Versions
  <2>6. SuccessIsInstalled'
    BY <2>3, <2>4 DEF SuccessInv, SuccessIsInstalled
  <2> QED
    BY <2>1, <2>2, <2>5, <2>6 DEF SuccessInv, Progress
<1>14. CASE Kill
  <2>1. (\A r \in RunId : exec'[r].pc = "none") /\ (\A c \in Caller : caller'[c].at = "idle")
    BY <1>14, IdleTypes DEF Kill
  <2>2. UNCHANGED <<runs, installed, branch>>
    BY <1>14 DEF Kill
  <2>3. Versions' /\ SuccessIsInstalled'
    BY <2>2 DEF SuccessInv, Versions, SuccessIsInstalled
  <2> QED
    BY <2>1, <2>3 DEF SuccessInv, Progress
<1>15. ASSUME NEW c \in Caller, Request(c) \/ ThreadFault(c) PROVE SuccessInv'
  <2>1. \A d \in Caller : caller'[d].at = "starting" => caller'[d] = caller[d]
    BY <1>0, <1>15, IdleTypes DEF Request, ThreadFault
  <2>2. UNCHANGED <<runs, exec, installed, branch>>
    BY <1>15 DEF Request, ThreadFault
  <2> QED
    BY <1>0, <1>3, <2>1, <2>2
<1>16. CASE Start \/ Push \/ UNCHANGED vars
  <2>1. UNCHANGED <<runs, exec, installed, caller>> /\ branch' \in Nat /\ branch <= branch'
    BY <1>0, <1>16 DEF Start, Push, vars
  <2> QED
    BY <1>3, <2>1
<1> QED
  BY <1>4, <1>5, <1>7, <1>8, <1>9, <1>10, <1>11, <1>12, <1>13, <1>14, <1>15, <1>16
  DEF Next, CallerStep, CallerFault, ThreadStep, Serve

\* What a successful run says it has deployed is installed.
THEOREM SuccessesAreInstalled == Spec => []SuccessIsInstalled
<1>1. Init => RowInv /\ SuccessInv
  <2> SUFFICES ASSUME Init PROVE RowInv /\ SuccessInv
    OBVIOUS
  <2>1. (\A r \in RunId : exec[r].pc = "none") /\ (\A c \in Caller : caller[c].at = "idle")
    BY IdleTypes DEF Init
  <2>2. DOMAIN runs = {}
    BY DEF Init
  <2>3. Versions
    BY <2>2, PartsOfSteps DEF Init, Versions
  <2> QED
    BY <2>1, <2>2, <2>3 DEF RowInv, SuccessInv, Progress, SuccessIsInstalled
<1>2. SuccessInv => SuccessIsInstalled
  BY DEF SuccessInv
<1> QED
  BY <1>1, <1>2, CoreInit, CoreStep, RowStep, SuccessStep, PTL DEF Spec
=============================================================================
