------------------------------ MODULE SyncProofs ------------------------------
(***************************************************************************)
(* Theorems about the job handlers, for every set of users and accounts    *)
(* and every cooldown of the bank that the sleep after a 429 outlasts.     *)
(***************************************************************************)
EXTENDS SyncService, FiniteSetTheorems, TLAPS

AtTarget == {"ask", "backoff", "commit"}

\* What a handler goes through: users, or accounts.
Kind == IF job.type = "sync_accounts" THEN User ELSE Account

\* The for loop goes through members of one kind.
LoopInv ==
    /\ todo \subseteq Kind
    /\ pc \in AtTarget => at \in Kind
    /\ pc = "backoff" => job.type = "sync_transactions"
    /\ pc = "ask" => tries < MaxTries
    /\ pc \notin AtTarget => tries = 0

\* Alone with its tokens, a handler makes at most two requests for an account,
\* and the bank is ready to answer the second before the sleep is over.
WaitInv ==
    ~meddled =>
        /\ skipped = {}
        /\ pc = "backoff" => tries = 1 /\ cool[job.type][Holder] <= pause
        /\ pc = "ask" /\ tries > 0 => cool[job.type][Holder] = 0

\* Where the data of t is: to be asked for, asked for, in the database, or given up.
Accounted(t) ==
    \/ t \in todo
    \/ pc \in AtTarget /\ t = at
    \/ Done(t)
    \/ t \in failed \cup skipped

\* Nothing that a handler was called for is lost on the way.
DataInv ==
    /\ \A u \in User : asOf[u] <= ops[u]
    /\ pc = "commit" => got >= asOf[Holder]
    /\ pc # "idle" => \A t \in Targets(job) : Accounted(t)
    /\ pc = "returned" => todo = {}

\* Whose round of the loop is over.
Finished == processed \cup failed \cup skipped

\* An account is visited once, and alone with its tokens a handler sleeps in a round
\* that a 429 began, after a statement that it stored, and at no other time.
SleepInv ==
    /\ IsFiniteSet(Finished)
    /\ todo \cap Finished = {}
    /\ pc \in AtTarget => at \notin todo \cup Finished
    /\ pause > 0 => pc \in {"backoff", "pacing"}
    /\ ~meddled /\ pc # "idle" =>
           slept + pause <= RateWait * (Cardinality(Finished) + IF tries > 0 THEN 1 ELSE 0)
                            + Pace * Cardinality(processed)

-----------------------------------------------------------------------------
\* A target is of the kind that the job goes through.
LEMMA TargetsAreOfKind ==
    ASSUME SyncAssumption, NEW j \in Job
    PROVE  /\ j.type = "sync_accounts" => Targets(j) \subseteq User
           /\ j.type # "sync_accounts" => Targets(j) \subseteq Account
BY DEF Targets, SyncAssumption

\* The token of a request is that of a user.
LEMMA HolderIsUser ==
    ASSUME SyncAssumption, TypeOK, LoopInv, pc \in AtTarget
    PROVE  Holder \in User /\ job.type \in Method
BY DEF Holder, SyncAssumption, TypeOK, LoopInv, Kind, Job, Method

\* Type correctness, with the bound on the requests of an account, is inductive.
THEOREM SyncTypes == Spec => [](TypeOK /\ LoopInv)
<1>. USE SyncAssumption
<1>1. Init => TypeOK /\ LoopInv
  <2>. SUFFICES ASSUME Init PROVE TypeOK /\ LoopInv
    OBVIOUS
  <2>1. job \in Job
    BY DEF Init, Job
  <2>2. cool \in [Method -> [User -> 0 .. Cooldown]]
    <3>1. [u \in User |-> 0] \in [User -> 0 .. Cooldown]
      BY DEF SyncAssumption
    <3>. QED
      BY <3>1 DEF Init
  <2>3. /\ ops \in [User -> Nat] /\ asOf \in [User -> Nat]
        /\ rows \in [Account -> Nat] /\ stmts \in [Account -> Nat]
    BY DEF Init
  <2>4. TypeOK
    <3>1. /\ pc = "idle" /\ at = Everyone /\ tries = 0 /\ got = 0 /\ pause = 0
          /\ todo = {} /\ processed = {} /\ failed = {} /\ skipped = {}
      BY DEF Init, Nowhere
    <3>2. meddled \in BOOLEAN /\ slept \in Nat
      BY DEF Init
    <3>. QED
      BY <2>1, <2>2, <2>3, <3>1, <3>2 DEF TypeOK, Nowhere, MaxTries
  <2>5. LoopInv
    BY DEF Init, LoopInv, AtTarget, Kind
  <2>. QED
    BY <2>4, <2>5
<1>2. TypeOK /\ LoopInv /\ [Next]_vars => (TypeOK /\ LoopInv)'
  <2>. SUFFICES ASSUME TypeOK, LoopInv, [Next]_vars
                PROVE  TypeOK' /\ LoopInv'
    OBVIOUS
  <2>1. ASSUME NEW j \in Job, Call(j)
        PROVE  TypeOK' /\ LoopInv'
    BY <2>1, TargetsAreOfKind
    DEF Call, TypeOK, LoopInv, Kind, AtTarget, bankVars, dbVars
  <2>2. CASE Visit
    BY <2>2 DEF Visit, TypeOK, LoopInv, Kind, AtTarget, MaxTries,
                bankVars, dbVars, resVars, histVars
  <2>3. CASE Return
    BY <2>3 DEF Return, TypeOK, LoopInv, Kind, AtTarget, bankVars, dbVars, resVars, histVars
  <2>4. CASE Granted
    BY <2>4, HolderIsUser
    DEF Granted, TypeOK, LoopInv, Kind, AtTarget, SyncAssumption, dbVars, resVars, histVars
  <2>5. CASE Refused
    BY <2>5 DEF Refused, Continue, Leave, TypeOK, LoopInv, Kind, AtTarget, Nowhere, MaxTries,
                bankVars, dbVars, histVars
  <2>6. CASE RateLimited
    BY <2>6 DEF RateLimited, TypeOK, LoopInv, Kind, AtTarget, MaxTries, SyncAssumption,
                bankVars, dbVars, resVars, histVars
  <2>7. CASE BackoffEnds
    BY <2>7 DEF BackoffEnds, Continue, Leave, TypeOK, LoopInv, Kind, AtTarget, Nowhere, MaxTries,
                bankVars, dbVars, histVars
  <2>8. CASE UpsertAccounts
    BY <2>8 DEF UpsertAccounts, Continue, Leave, TypeOK, LoopInv, Kind, AtTarget, Nowhere, MaxTries,
                bankVars, histVars
  <2>9. CASE MergeStatement
    BY <2>9 DEF MergeStatement, Leave, TypeOK, LoopInv, Kind, AtTarget, Nowhere, MaxTries,
                SyncAssumption, bankVars, histVars
  <2>15. CASE PaceEnds
    BY <2>15 DEF PaceEnds, TypeOK, LoopInv, Kind, AtTarget, bankVars, dbVars, resVars, histVars
  <2>10. CASE Abort
    BY <2>10 DEF Abort, TypeOK, LoopInv, Kind, AtTarget, Nowhere, MaxTries,
                 bankVars, dbVars
  <2>11. ASSUME NEW u \in User, Operate(u)
         PROVE  TypeOK' /\ LoopInv'
    BY <2>11 DEF Operate, TypeOK, LoopInv, Kind, AtTarget, dbVars, resVars, histVars
  <2>12. ASSUME NEW m \in Method, NEW u \in User, OtherRequest(m, u)
         PROVE  TypeOK' /\ LoopInv'
    BY <2>12 DEF OtherRequest, TypeOK, LoopInv, Kind, AtTarget, SyncAssumption, dbVars, resVars
  <2>13. CASE Tick
    <3>1. cool' \in [Method -> [User -> 0 .. Cooldown]]
      <4>1. \A n \in 0 .. Cooldown : Pred(n) \in 0 .. Cooldown
        BY DEF Pred, SyncAssumption
      <4>2. \A m \in Method : [u \in User |-> Pred(cool[m][u])] \in [User -> 0 .. Cooldown]
        BY <4>1 DEF TypeOK
      <4>. QED
        BY <2>13, <4>2 DEF Tick
    <3>2. pause' \in Nat
      BY <2>13 DEF Tick, Pred, TypeOK
    <3>. QED
      BY <2>13, <3>1, <3>2 DEF Tick, TypeOK, LoopInv, Kind, AtTarget, dbVars, resVars, histVars
  <2>14. CASE UNCHANGED vars
    BY <2>14 DEF vars, TypeOK, LoopInv, Kind, AtTarget, bankVars, dbVars, resVars, histVars
  <2>. QED
    BY <2>1, <2>2, <2>3, <2>4, <2>5, <2>6, <2>7, <2>8, <2>9, <2>10, <2>11, <2>12,
       <2>13, <2>14, <2>15 DEF Next, Handler, Answer, SyncAssumption
<1>. QED
  BY <1>1, <1>2, PTL DEF Spec

-----------------------------------------------------------------------------
\* The sleep after a 429 outlasts the cooldown: the waits are inductive.
LEMMA WaitStep ==
    ASSUME SyncAssumption, TypeOK, LoopInv, WaitInv, [Next]_vars
    PROVE  WaitInv'
<1>1. ASSUME NEW j \in Job, Call(j)
      PROVE  WaitInv'
  BY <1>1 DEF Call, WaitInv
<1>2. CASE Visit
  BY <1>2 DEF Visit, LoopInv, WaitInv, AtTarget, resVars, histVars
<1>3. CASE Return
  BY <1>3 DEF Return, WaitInv, resVars, histVars
<1>4. CASE Granted
  BY <1>4 DEF Granted, WaitInv, resVars, histVars
<1>5. CASE Refused
  BY <1>5 DEF Refused, Continue, WaitInv, histVars
<1>6. CASE RateLimited
  <2>1. tries = 0 \/ meddled
    BY <1>6, HolderIsUser DEF RateLimited, TypeOK, LoopInv, WaitInv, AtTarget, MaxTries
  <2>2. cool[job.type][Holder] <= RateWait
    BY HolderIsUser, <1>6 DEF RateLimited, TypeOK, SyncAssumption, AtTarget
  <2>3. Holder' = Holder /\ cool' = cool /\ job' = job
    BY <1>6 DEF RateLimited, Holder, bankVars
  <2>. QED
    BY <1>6, <2>1, <2>2, <2>3 DEF RateLimited, WaitInv, resVars, histVars
<1>7. CASE BackoffEnds
  <2>1. CASE meddled
    BY <1>7, <2>1 DEF BackoffEnds, WaitInv, histVars
  <2>2. CASE ~meddled
    <3>1. tries = 1 /\ cool[job.type][Holder] <= 0 /\ skipped = {}
      BY <1>7, <2>2 DEF BackoffEnds, WaitInv
    <3>2. cool[job.type][Holder] = 0
      BY <3>1, <1>7, HolderIsUser DEF BackoffEnds, TypeOK, AtTarget, SyncAssumption
    <3>3. pc' = "ask" /\ skipped' = {} /\ cool' = cool /\ Holder' = Holder /\ job' = job
      BY <1>7, <3>1 DEF BackoffEnds, MaxTries, Holder, bankVars
    <3>. QED
      BY <3>2, <3>3 DEF WaitInv
  <2>. QED
    BY <2>1, <2>2
<1>8. CASE UpsertAccounts
  BY <1>8 DEF UpsertAccounts, Continue, WaitInv, histVars
<1>9. CASE MergeStatement
  BY <1>9 DEF MergeStatement, WaitInv, histVars
<1>15. CASE PaceEnds
  BY <1>15 DEF PaceEnds, WaitInv, resVars, histVars
<1>10. CASE Abort
  BY <1>10 DEF Abort, WaitInv
<1>11. ASSUME NEW u \in User, Operate(u)
       PROVE  WaitInv'
  BY <1>11 DEF Operate, WaitInv, Holder, resVars, histVars
<1>12. ASSUME NEW m \in Method, NEW u \in User, OtherRequest(m, u)
       PROVE  WaitInv'
  BY <1>12 DEF OtherRequest, WaitInv
<1>13. CASE Tick
  <2>1. /\ Holder' = Holder /\ job' = job /\ pc' = pc /\ tries' = tries
        /\ skipped' = skipped /\ meddled' = meddled
    BY <1>13 DEF Tick, Holder, resVars, histVars
  <2>2. CASE pc \in AtTarget
    <3>1. Holder \in User /\ job.type \in Method
      BY <2>2, HolderIsUser
    <3>2. cool'[job.type][Holder] = Pred(cool[job.type][Holder])
      BY <1>13, <3>1 DEF Tick
    <3>3. cool[job.type][Holder] \in Nat /\ pause \in Nat
      BY <3>1 DEF TypeOK, SyncAssumption
    <3>4. pause' = Pred(pause)
      BY <1>13 DEF Tick
    <3>. QED
      BY <2>1, <3>2, <3>3, <3>4 DEF WaitInv, Pred
  <2>3. CASE pc \notin AtTarget
    BY <2>1, <2>3 DEF WaitInv, AtTarget
  <2>. QED
    BY <2>2, <2>3
<1>14. CASE UNCHANGED vars
  BY <1>14 DEF vars, WaitInv, Holder, bankVars, resVars, histVars
<1>. QED
  BY <1>1, <1>2, <1>3, <1>4, <1>5, <1>6, <1>7, <1>8, <1>9, <1>10, <1>11, <1>12,
     <1>13, <1>14, <1>15 DEF Next, Handler, Answer, SyncAssumption

\* The waits of sync_transactions are long enough: no account is left out of a
\* call during which no other program uses the tokens.
THEOREM NothingIsSkippedAlone == Spec => []NothingSkippedAlone
<1>. USE SyncAssumption
<1>1. Init => WaitInv
  BY DEF Init, WaitInv
<1>2. TypeOK /\ LoopInv /\ WaitInv /\ [Next]_vars => WaitInv'
  BY WaitStep
<1>3. WaitInv => NothingSkippedAlone
  BY DEF WaitInv, NothingSkippedAlone
<1>. QED
  BY <1>1, <1>2, <1>3, SyncTypes, PTL DEF Spec

-----------------------------------------------------------------------------
\* A round of the loop that ends with its target accounted for keeps all others so.
LEMMA RoundEnds ==
    ASSUME SyncAssumption, TypeOK, LoopInv, DataInv, pc \in AtTarget,
           Leave, pc' \in {"loop", "pacing"},
           NEW x, x = at, Done(x)' \/ x \in failed' \cup skipped',
           job' = job, todo' = todo, asOf' = asOf,
           \A t \in Targets(job) : Done(t) => Done(t)',
           failed \cup skipped \subseteq failed' \cup skipped',
           \A u \in User : asOf'[u] <= ops'[u],
           Targets(job)' = Targets(job)
    PROVE  DataInv'
<1>1. ASSUME NEW t \in Targets(job)
      PROVE  Accounted(t)'
  <2>1. Accounted(t)
    BY DEF DataInv, AtTarget
  <2>2. CASE t \in todo
    BY <2>2 DEF Accounted
  <2>3. CASE t = at
    BY <2>3 DEF Accounted
  <2>4. CASE Done(t)
    BY <2>4 DEF Accounted
  <2>5. CASE t \in failed \cup skipped
    BY <2>5 DEF Accounted
  <2>. QED
    BY <2>1, <2>2, <2>3, <2>4, <2>5 DEF Accounted
<1>. QED
  BY <1>1 DEF DataInv

\* A step within a round, or outside any, that takes nothing away.
LEMMA StepKeeps ==
    ASSUME DataInv, job' = job, todo' = todo, rows' = rows, stmts' = stmts, asOf' = asOf,
           processed' = processed, failed' = failed, skipped' = skipped,
           pc \in AtTarget => pc' \in AtTarget /\ at' = at,
           pc = "idle" => pc' = "idle",
           NEW t \in Targets(job)', pc' # "idle"
    PROVE  Accounted(t)'
<1>1. Targets(job)' = Targets(job)
  BY DEF Targets
<1>2. Accounted(t)
  BY <1>1 DEF DataInv
<1>3. Done(t)' <=> Done(t)
  BY DEF Done
<1>. QED
  BY <1>2, <1>3 DEF Accounted

LEMMA DataStep ==
    ASSUME SyncAssumption, TypeOK, LoopInv, DataInv, [Next]_vars
    PROVE  DataInv'
<1>1. ASSUME NEW j \in Job, Call(j)
      PROVE  DataInv'
  <2>1. Targets(j)' = Targets(j)
    BY <1>1 DEF Call, Targets, dbVars
  <2>2. \A u \in User : asOf'[u] <= ops'[u]
    BY <1>1 DEF Call, bankVars, TypeOK
  <2>3. j.user = Stranger => Targets(j) = {}
    BY DEF Targets, Job, SyncAssumption
  <2>. QED
    BY <1>1, <2>1, <2>2, <2>3 DEF Call, DataInv, Accounted
<1>2. CASE Visit
  <2>1. Targets(job)' = Targets(job) /\ \A t : Done(t)' <=> Done(t)
    BY <1>2 DEF Visit, Targets, Done, dbVars, histVars, resVars
  <2>2. \A t \in Targets(job) : Accounted(t)'
    BY <1>2, <2>1 DEF Visit, DataInv, Accounted, AtTarget, resVars
  <2>. QED
    BY <1>2, <2>1, <2>2 DEF Visit, DataInv, bankVars, histVars
<1>3. CASE Return
  <2>1. ASSUME NEW t \in Targets(job)', pc' # "idle"
        PROVE  Accounted(t)'
    BY <1>3, <2>1, StepKeeps DEF Return, AtTarget, dbVars, resVars, histVars
  <2>. QED
    BY <1>3, <2>1 DEF Return, DataInv, bankVars, histVars
<1>4. CASE Granted
  <2>1. ASSUME NEW t \in Targets(job)', pc' # "idle"
        PROVE  Accounted(t)'
    BY <1>4, <2>1, StepKeeps DEF Granted, AtTarget, dbVars, resVars, histVars
  <2>2. got' >= asOf'[Holder']
    <3>1. Holder \in User /\ Holder' = Holder
      BY <1>4, HolderIsUser DEF Granted, Holder, AtTarget
    <3>. QED
      BY <1>4, <3>1 DEF Granted, DataInv, TypeOK, histVars
  <2>. QED
    BY <1>4, <2>1, <2>2 DEF Granted, DataInv, histVars
<1>5. CASE Refused
  <2>. PICK x : x = at
    OBVIOUS
  <2>1. Targets(job)' = Targets(job) /\ \A t : Done(t)' <=> Done(t)
    BY <1>5 DEF Refused, Targets, Done, dbVars, histVars
  <2>. QED
    BY <1>5, <2>1, RoundEnds DEF Refused, Continue, DataInv, AtTarget, bankVars, histVars
<1>6. CASE RateLimited
  <2>1. ASSUME NEW t \in Targets(job)', pc' # "idle"
        PROVE  Accounted(t)'
    BY <1>6, <2>1, StepKeeps DEF RateLimited, AtTarget, dbVars, resVars, histVars
  <2>. QED
    BY <1>6, <2>1 DEF RateLimited, DataInv, bankVars, histVars
<1>7. CASE BackoffEnds
  <2>. PICK x : x = at
    OBVIOUS
  <2>1. Targets(job)' = Targets(job) /\ \A t : Done(t)' <=> Done(t)
    BY <1>7 DEF BackoffEnds, Targets, Done, dbVars, histVars
  <2>2. CASE tries < MaxTries
    <3>1. ASSUME NEW t \in Targets(job)', pc' # "idle"
          PROVE  Accounted(t)'
      BY <1>7, <2>2, <3>1, StepKeeps DEF BackoffEnds, AtTarget, dbVars, histVars
    <3>. QED
      BY <1>7, <2>2, <3>1 DEF BackoffEnds, DataInv, bankVars, histVars
  <2>3. CASE ~(tries < MaxTries)
    BY <1>7, <2>1, <2>3, RoundEnds DEF BackoffEnds, Continue, DataInv, AtTarget, bankVars, histVars
  <2>. QED
    BY <2>2, <2>3
<1>8. CASE UpsertAccounts
  <2>. PICK x : x = at
    OBVIOUS
  <2>1. at \in User /\ Holder = at
    BY <1>8 DEF UpsertAccounts, LoopInv, Kind, Holder, AtTarget
  <2>2. got >= asOf[at]
    BY <1>8, <2>1 DEF UpsertAccounts, DataInv
  <2>3. Done(x)'
    BY <1>8, <2>2 DEF UpsertAccounts, Done, histVars
  <2>4. \A t \in Targets(job) : Done(t) => Done(t)'
    BY <1>8, <2>2 DEF UpsertAccounts, Done, histVars
  <2>5. Targets(job)' = Targets(job)
    BY <1>8 DEF UpsertAccounts, Targets
  <2>. QED
    BY <1>8, <2>3, <2>4, <2>5, RoundEnds
    DEF UpsertAccounts, Continue, DataInv, AtTarget, bankVars, histVars
<1>9. CASE MergeStatement
  <2>. PICK x : x = at
    OBVIOUS
  <2>1. x \in Account /\ Holder = Owner[x]
    BY <1>9 DEF MergeStatement, LoopInv, Kind, Holder, AtTarget
  <2>2. /\ stmts'[x] = (IF got > stmts[x] THEN got ELSE stmts[x])
        /\ \A a \in Account : a # x => stmts'[a] = stmts[a]
    BY <1>9, <2>1 DEF MergeStatement, TypeOK
  <2>3. got >= asOf[Owner[x]]
    BY <1>9, <2>1 DEF MergeStatement, DataInv
  <2>4. got \in Nat /\ asOf[Owner[x]] \in Nat /\ stmts[x] \in Nat
    BY <2>1 DEF TypeOK, SyncAssumption
  <2>5. stmts'[x] >= asOf[Owner[x]]
    BY <2>2, <2>3, <2>4
  <2>6. Done(x)'
    BY <1>9, <2>5 DEF MergeStatement, Done, histVars
  <2>7. Targets(job)' = Targets(job) /\ Targets(job) \subseteq Account
    BY <1>9 DEF MergeStatement, Targets
  <2>8. \A t \in Targets(job) : Done(t) => Done(t)'
    BY <1>9, <2>2, <2>6, <2>7 DEF MergeStatement, Done, histVars
  <2>. QED
    BY <1>9, <2>6, <2>7, <2>8, RoundEnds DEF MergeStatement, DataInv, AtTarget, bankVars, histVars
<1>15. CASE PaceEnds
  <2>1. ASSUME NEW t \in Targets(job)', pc' # "idle"
        PROVE  Accounted(t)'
    BY <1>15, <2>1, StepKeeps DEF PaceEnds, AtTarget, dbVars, resVars, histVars
  <2>. QED
    BY <1>15, <2>1 DEF PaceEnds, DataInv, bankVars, histVars
<1>10. CASE Abort
  BY <1>10 DEF Abort, DataInv, bankVars
<1>11. ASSUME NEW u \in User, Operate(u)
       PROVE  DataInv'
  <2>1. ASSUME NEW t \in Targets(job)', pc' # "idle"
        PROVE  Accounted(t)'
    BY <1>11, <2>1, StepKeeps DEF Operate, dbVars, resVars, histVars
  <2>2. \A v \in User : asOf'[v] <= ops'[v]
    BY <1>11 DEF Operate, DataInv, TypeOK, histVars
  <2>3. Holder' = Holder /\ (Done(at)' <=> Done(at))
    BY <1>11 DEF Operate, Holder, Done, dbVars, histVars, resVars
  <2>. QED
    BY <1>11, <2>1, <2>2, <2>3 DEF Operate, DataInv, histVars
<1>12. ASSUME NEW m \in Method, NEW u \in User, OtherRequest(m, u)
       PROVE  DataInv'
  <2>1. ASSUME NEW t \in Targets(job)', pc' # "idle"
        PROVE  Accounted(t)'
    BY <1>12, <2>1, StepKeeps DEF OtherRequest, dbVars, resVars
  <2>2. Holder' = Holder /\ (Done(at)' <=> Done(at))
    BY <1>12 DEF OtherRequest, Holder, Done, dbVars, resVars
  <2>. QED
    BY <1>12, <2>1, <2>2 DEF OtherRequest, DataInv
<1>13. CASE Tick
  <2>1. ASSUME NEW t \in Targets(job)', pc' # "idle"
        PROVE  Accounted(t)'
    BY <1>13, <2>1, StepKeeps DEF Tick, dbVars, resVars, histVars
  <2>2. Holder' = Holder /\ (Done(at)' <=> Done(at))
    BY <1>13 DEF Tick, Holder, Done, dbVars, histVars, resVars
  <2>. QED
    BY <1>13, <2>1, <2>2 DEF Tick, DataInv, histVars
<1>14. CASE UNCHANGED vars
  <2>1. ASSUME NEW t \in Targets(job)', pc' # "idle"
        PROVE  Accounted(t)'
    BY <1>14, <2>1, StepKeeps DEF vars, dbVars, resVars, histVars
  <2>2. Holder' = Holder /\ (Done(at)' <=> Done(at))
    BY <1>14 DEF vars, Holder, Done, dbVars, histVars, resVars
  <2>. QED
    BY <1>14, <2>1, <2>2 DEF vars, DataInv, bankVars, histVars
<1>. QED
  BY <1>1, <1>2, <1>3, <1>4, <1>5, <1>6, <1>7, <1>8, <1>9, <1>10, <1>11, <1>12,
     <1>13, <1>14, <1>15 DEF Next, Handler, Answer, SyncAssumption

\* A handler that returns has brought the data of all that it was called for up to
\* the moment of the call, but for those it notes as refused and leaves out.
THEOREM ResultsAreComplete == Spec => []ResultIsComplete
<1>. USE SyncAssumption
<1>1. Init => DataInv
  BY DEF Init, DataInv
<1>2. TypeOK /\ LoopInv /\ DataInv /\ [Next]_vars => DataInv'
  BY DataStep
<1>3. DataInv => ResultIsComplete
  BY DEF DataInv, ResultIsComplete, Accounted, AtTarget
<1>. QED
  BY <1>1, <1>2, <1>3, SyncTypes, PTL DEF Spec

-----------------------------------------------------------------------------
LEMMA OneRoundMore ==
    ASSUME NEW n \in Nat, NEW w \in Nat
    PROVE  w * n \in Nat /\ w * (n + 1) = w * n + w
OBVIOUS

\* The end of a round adds one to those that are finished, whatever was slept in it,
\* and one to those that are stored if a sleep is to follow.
LEMMA RoundEndsSleep ==
    ASSUME SyncAssumption, TypeOK, SleepInv, pc \in AtTarget,
           Leave, pc' \in {"loop", "pacing"}, pause' > 0 => pc' = "pacing",
           Finished' = Finished \cup {at}, todo' = todo,
           pause = 0, slept' = slept, meddled' = meddled,
           \/ processed' = processed /\ pause' = 0
           \/ processed' = processed \cup {at} /\ pause' \in {0, Pace}
    PROVE  SleepInv'
<1>1. /\ IsFiniteSet(Finished') /\ Cardinality(Finished) \in Nat
      /\ Cardinality(Finished') = Cardinality(Finished) + 1
  BY FS_AddElement, FS_CardinalityType DEF SleepInv
<1>2. /\ Cardinality(processed) \in Nat /\ Cardinality(processed') \in Nat
      /\ pause' + Pace * Cardinality(processed) <= Pace * Cardinality(processed')
  <2>1. IsFiniteSet(processed) /\ at \notin processed
    <3>1. processed \in SUBSET Finished
      BY DEF Finished
    <3>. QED
      BY <3>1, FS_Subset DEF SleepInv
  <2>2. /\ Cardinality(processed) \in Nat
        /\ Cardinality(processed \cup {at}) = Cardinality(processed) + 1
    BY <2>1, FS_AddElement, FS_CardinalityType
  <2>3. /\ Pace * Cardinality(processed) \in Nat /\ Pace \in Nat
        /\ Pace * (Cardinality(processed) + 1) = Pace * Cardinality(processed) + Pace
    BY <2>2, OneRoundMore DEF SyncAssumption
  <2>4. CASE processed' = processed /\ pause' = 0
    BY <2>2, <2>3, <2>4
  <2>5. CASE processed' = processed \cup {at} /\ pause' \in {0, Pace}
    <3>1. Cardinality(processed') = Cardinality(processed) + 1
      BY <2>2, <2>5
    <3>. QED
      BY <2>2, <2>3, <2>5, <3>1
  <2>. QED
    BY <2>4, <2>5
<1>3. ASSUME ~meddled
      PROVE  slept' + pause' <= RateWait * Cardinality(Finished') + Pace * Cardinality(processed')
  <2>1. slept <= RateWait * (Cardinality(Finished) + IF tries > 0 THEN 1 ELSE 0)
                 + Pace * Cardinality(processed)
    BY <1>3 DEF SleepInv, AtTarget, TypeOK
  <2>2. /\ RateWait * Cardinality(Finished) \in Nat /\ RateWait \in Nat /\ slept \in Nat
        /\ RateWait * (Cardinality(Finished) + 1) = RateWait * Cardinality(Finished) + RateWait
        /\ Pace * Cardinality(processed) \in Nat /\ Pace * Cardinality(processed') \in Nat
        /\ pause' \in Nat
    BY <1>1, <1>2, OneRoundMore DEF SyncAssumption, TypeOK
  <2>3. slept <= RateWait * Cardinality(Finished') + Pace * Cardinality(processed)
    BY <1>1, <2>1, <2>2
  <2>. QED
    BY <1>1, <1>2, <2>2, <2>3
<1>4. todo' \cap Finished' = {} /\ pc' \notin AtTarget /\ tries' = 0
  BY DEF SleepInv, Leave, AtTarget
<1>. QED
  BY <1>1, <1>3, <1>4 DEF SleepInv

LEMMA SleepStep ==
    ASSUME SyncAssumption, TypeOK, LoopInv, WaitInv, SleepInv, [Next]_vars
    PROVE  SleepInv'
<1>1. ASSUME NEW j \in Job, Call(j)
      PROVE  SleepInv'
  <2>1. Finished' = {} /\ processed' = {} /\ pause' = 0 /\ slept' = 0 /\ tries' = 0
    BY <1>1 DEF Call, Finished, SleepInv, LoopInv, AtTarget, TypeOK
  <2>2. IsFiniteSet(Finished') /\ Cardinality(Finished') = 0 /\ Cardinality(processed') = 0
    BY <2>1, FS_EmptySet
  <2>3. pc' \notin AtTarget
    BY <1>1 DEF Call, AtTarget
  <2>. QED
    BY <2>1, <2>2, <2>3 DEF SleepInv, SyncAssumption
<1>2. CASE Visit
  <2>1. Finished' = Finished /\ processed' = processed /\ pc # "idle"
    BY <1>2 DEF Visit, Finished, resVars
  <2>2. pause = 0
    BY <1>2 DEF Visit, SleepInv, TypeOK
  <2>. QED
    BY <1>2, <2>1, <2>2 DEF Visit, SleepInv, AtTarget, histVars
<1>3. CASE Return
  <2>1. Finished' = Finished /\ processed' = processed
    BY <1>3 DEF Return, Finished, resVars
  <2>. QED
    BY <1>3, <2>1 DEF Return, SleepInv, AtTarget, histVars
<1>4. CASE Granted
  <2>1. Finished' = Finished /\ processed' = processed
    BY <1>4 DEF Granted, Finished, resVars
  <2>. QED
    BY <1>4, <2>1 DEF Granted, SleepInv, AtTarget, histVars
<1>5. CASE Refused
  <2>1. Finished' = Finished \cup {at} /\ pc \in AtTarget
    BY <1>5 DEF Refused, Finished, AtTarget
  <2>2. pause = 0 /\ pause' = 0
    BY <1>5 DEF Refused, SleepInv, TypeOK
  <2>. QED
    BY <1>5, <2>1, <2>2, RoundEndsSleep DEF Refused, Continue, histVars
<1>6. CASE RateLimited
  <2>1. Finished' = Finished /\ processed' = processed
    BY <1>6 DEF RateLimited, Finished, resVars
  <2>2. ASSUME ~meddled
        PROVE  slept' + pause' <= RateWait * (Cardinality(Finished) + 1)
                                  + Pace * Cardinality(processed)
    <3>1. tries = 0
      BY <1>6, <2>2, HolderIsUser DEF RateLimited, TypeOK, LoopInv, WaitInv, AtTarget, MaxTries
    <3>2. pause = 0 /\ slept' = slept /\ pause' = RateWait
      BY <1>6 DEF RateLimited, SleepInv, TypeOK, histVars
    <3>3. Cardinality(Finished) \in Nat /\ Cardinality(processed) \in Nat
      <4>1. processed \in SUBSET Finished
        BY DEF Finished
      <4>. QED
        BY <4>1, FS_CardinalityType, FS_Subset DEF SleepInv
    <3>4. slept <= RateWait * Cardinality(Finished) + Pace * Cardinality(processed)
      BY <1>6, <2>2, <3>1, <3>2, <3>3 DEF RateLimited, SleepInv, TypeOK
    <3>5. /\ RateWait * Cardinality(Finished) \in Nat /\ RateWait \in Nat /\ slept \in Nat
          /\ RateWait * (Cardinality(Finished) + 1) = RateWait * Cardinality(Finished) + RateWait
          /\ Pace * Cardinality(processed) \in Nat
      BY <3>3, OneRoundMore DEF SyncAssumption, TypeOK
    <3>. QED
      BY <3>2, <3>4, <3>5
  <2>3. tries' > 0 /\ meddled' = meddled
    BY <1>6 DEF RateLimited, TypeOK, MaxTries, histVars
  <2>. QED
    BY <1>6, <2>1, <2>2, <2>3 DEF RateLimited, SleepInv, AtTarget
<1>7. CASE BackoffEnds
  <2>1. CASE tries < MaxTries
    <3>1. Finished' = Finished /\ processed' = processed
      BY <1>7, <2>1 DEF BackoffEnds, Finished
    <3>. QED
      BY <1>7, <2>1, <3>1 DEF BackoffEnds, SleepInv, AtTarget, histVars
  <2>2. CASE ~(tries < MaxTries)
    BY <1>7, <2>2, RoundEndsSleep DEF BackoffEnds, Continue, Finished, AtTarget, histVars
  <2>. QED
    BY <2>1, <2>2
<1>8. CASE UpsertAccounts
  <2>1. Finished' = Finished \cup {at} /\ pc \in AtTarget
    BY <1>8 DEF UpsertAccounts, Finished, AtTarget
  <2>2. pause = 0 /\ pause' = 0
    BY <1>8 DEF UpsertAccounts, SleepInv, TypeOK
  <2>. QED
    BY <1>8, <2>1, <2>2, RoundEndsSleep DEF UpsertAccounts, Continue, histVars
<1>9. CASE MergeStatement
  <2>1. Finished' = Finished \cup {at} /\ pc \in AtTarget
    BY <1>9 DEF MergeStatement, Finished, AtTarget
  <2>2. pause = 0 /\ pause' = Pace
    BY <1>9 DEF MergeStatement, SleepInv, TypeOK
  <2>. QED
    BY <1>9, <2>1, <2>2, RoundEndsSleep DEF MergeStatement, histVars
<1>15. CASE PaceEnds
  <2>1. Finished' = Finished /\ processed' = processed
    BY <1>15 DEF PaceEnds, Finished, resVars
  <2>. QED
    BY <1>15, <2>1 DEF PaceEnds, SleepInv, AtTarget, histVars
<1>10. CASE Abort
  <2>1. Finished' = {} /\ IsFiniteSet(Finished')
    BY <1>10, FS_EmptySet DEF Abort, Finished
  <2>. QED
    BY <1>10, <2>1 DEF Abort, SleepInv, AtTarget
<1>11. ASSUME NEW u \in User, Operate(u)
       PROVE  SleepInv'
  <2>1. Finished' = Finished /\ processed' = processed
    BY <1>11 DEF Operate, Finished, resVars
  <2>. QED
    BY <1>11, <2>1 DEF Operate, SleepInv, histVars
<1>12. ASSUME NEW m \in Method, NEW u \in User, OtherRequest(m, u)
       PROVE  SleepInv'
  <2>1. Finished' = Finished /\ processed' = processed
    BY <1>12 DEF OtherRequest, Finished, resVars
  <2>. QED
    BY <1>12, <2>1 DEF OtherRequest, SleepInv
<1>13. CASE Tick
  <2>1. Finished' = Finished /\ processed' = processed
    BY <1>13 DEF Tick, Finished, resVars
  <2>2. ~meddled => slept' + pause' = slept + pause
    BY <1>13 DEF Tick, Pred, TypeOK
  <2>3. pause' > 0 => pause > 0
    BY <1>13 DEF Tick, Pred, TypeOK
  <2>. QED
    BY <1>13, <2>1, <2>2, <2>3 DEF Tick, SleepInv
<1>14. CASE UNCHANGED vars
  <2>1. Finished' = Finished /\ processed' = processed
    BY <1>14 DEF vars, Finished, resVars
  <2>. QED
    BY <1>14, <2>1 DEF vars, SleepInv, histVars
<1>. QED
  BY <1>1, <1>2, <1>3, <1>4, <1>5, <1>6, <1>7, <1>8, <1>9, <1>10, <1>11, <1>12,
     <1>13, <1>14, <1>15 DEF Next, Handler, Answer, SyncAssumption

\* The time that a call sleeps, alone with its tokens, is bounded by RateWait for each
\* account it has visited, however many 429 it met, and Pace for each it has stored.
THEOREM SleepsAreBounded == Spec => []SleepBounded
<1>. USE SyncAssumption
<1>1. Init => WaitInv /\ SleepInv
  BY FS_EmptySet DEF Init, WaitInv, SleepInv, Finished, AtTarget
<1>2. TypeOK /\ LoopInv /\ WaitInv /\ SleepInv /\ [Next]_vars => WaitInv' /\ SleepInv'
  BY WaitStep, SleepStep
<1>3. TypeOK /\ LoopInv /\ SleepInv => SleepBounded
  <2>. SUFFICES ASSUME TypeOK, LoopInv, SleepInv, ~meddled, pc # "idle"
                PROVE  slept + pause <= RateWait * Cardinality(Visited)
                                        + Pace * Cardinality(processed)
    BY DEF SleepBounded
  <2>1. /\ IsFiniteSet(Finished) /\ Cardinality(Finished) \in Nat
        /\ IsFiniteSet(Finished \cup {at})
        /\ at \notin Finished => Cardinality(Finished \cup {at}) = Cardinality(Finished) + 1
    BY FS_CardinalityType, FS_AddElement DEF SleepInv
  <2>2. Visited = Finished \cup {at} \/ (Visited = Finished /\ at = Nowhere)
    BY DEF Visited, Finished
  <2>3. tries > 0 => at \notin Finished /\ at # Nowhere
    BY DEF SleepInv, LoopInv, Kind, Nowhere, SyncAssumption, TypeOK
  <2>4. /\ IsFiniteSet(Visited)
        /\ Cardinality(Visited) \in Nat
        /\ Cardinality(Visited) >= Cardinality(Finished) + IF tries > 0 THEN 1 ELSE 0
    <3>1. IsFiniteSet(Visited) /\ Cardinality(Visited) \in Nat
      BY <2>1, <2>2, FS_CardinalityType
    <3>2. Cardinality(Finished) <= Cardinality(Visited)
      <4>1. Finished \in SUBSET Visited
        BY DEF Visited, Finished
      <4>. QED
        BY <3>1, <4>1, FS_Subset
    <3>3. CASE tries > 0
      <4>1. Visited = Finished \cup {at} /\ at \notin Finished
        BY <3>3, <2>2, <2>3
      <4>. QED
        BY <3>3, <4>1, <2>1
    <3>4. CASE ~(tries > 0)
      BY <3>1, <3>2, <3>4, <2>1
    <3>. QED
      BY <3>1, <3>3, <3>4
  <2>5. slept + pause <= RateWait * (Cardinality(Finished) + IF tries > 0 THEN 1 ELSE 0)
                         + Pace * Cardinality(processed)
    BY DEF SleepInv
  <2>6. ASSUME NEW k \in Nat, NEW n \in Nat, k <= n PROVE RateWait * k <= RateWait * n
    BY <2>6 DEF SyncAssumption
  <2>7. /\ Cardinality(Finished) + (IF tries > 0 THEN 1 ELSE 0) \in Nat
        /\ RateWait * (Cardinality(Finished) + IF tries > 0 THEN 1 ELSE 0) \in Nat
        /\ RateWait * Cardinality(Visited) \in Nat
        /\ slept + pause \in Nat
    BY <2>1, <2>4, OneRoundMore DEF SyncAssumption, TypeOK
  <2>8. Pace * Cardinality(processed) \in Nat
    <3>1. processed \in SUBSET Finished
      BY DEF Finished
    <3>2. Cardinality(processed) \in Nat
      BY <3>1, <2>1, FS_Subset, FS_CardinalityType
    <3>. QED
      BY <3>2, OneRoundMore DEF SyncAssumption
  <2>. QED
    BY <2>4, <2>5, <2>6, <2>7, <2>8
<1>. QED
  BY <1>1, <1>2, <1>3, SyncTypes, PTL DEF Spec
=============================================================================
