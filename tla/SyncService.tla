----------------------------- MODULE SyncService -----------------------------
(***************************************************************************)
(* The job handlers (src/jobs, src/services/sync_service.py): what one     *)
(* call of sync_accounts or sync_transactions asks of Monobank, what it    *)
(* commits and what it answers, while the bank goes on working, refuses or *)
(* limits the rate of requests, and the worker dies or calls again.        *)
(*                                                                         *)
(* A user's data at the bank is a number: the operations made so far.  A   *)
(* row of account, and the transactions of an account, are the number that *)
(* the answer they were taken from had; 0: there is none.                  *)
(***************************************************************************)
EXTENDS Naturals, FiniteSets

CONSTANTS
    User,           \* the rows of user
    Account,        \* the cards and jars at the bank
    Owner,          \* of each account
    Active,         \* users with active = TRUE
    Token,          \* users whose mono_token is not empty
    Everyone,       \* the user_id None of a payload
    Stranger,       \* a user_id that no row has
    Cooldown,       \* ticks for which the bank answers 429 after a request
    RateWait,       \* ticks slept after a 429 (60 s)
    Pace,           \* ticks slept after a statement is stored (1 s)
    MaxOps          \* bound: operations of a user

ASSUME SyncAssumption ==
    /\ Owner \in [Account -> User]
    /\ Active \subseteq User /\ Token \subseteq User
    /\ User \cap Account = {}
    /\ Everyone \notin User \cup Account /\ Stranger \notin User \cup {Everyone}
    /\ Cooldown \in Nat /\ RateWait \in Nat /\ Cooldown <= RateWait
    /\ Pace \in Nat
    /\ MaxOps \in Nat

VARIABLES
    ops,            \* the bank: operations of each user, from 1 on
    cool,           \* the bank: ticks until it answers this kind of request again
    rows,           \* account: per account, 0 if there is no row
    stmts,          \* transaction: per account, 0 if there are none
    pc,             \* where the handler stands
    job,            \* the task it was called for
    todo,           \* what the for loop has still to visit
    at,             \* what it visits
    tries,          \* range(2): requests made for it
    got,            \* the operations in the answer
    pause,          \* ticks of time.sleep left
    processed, failed, skipped,     \* visited: committed; in errors; neither
    asOf,           \* ops when the handler was called: what to_time bounds
    meddled,        \* another program used a token since then (history)
    slept           \* ticks of time.sleep in this call, 0 once meddled (history)

bankVars == <<ops, cool>>
dbVars   == <<rows, stmts>>
resVars  == <<processed, failed, skipped>>
histVars == <<asOf, meddled, slept>>
vars == <<bankVars, dbVars, pc, job, todo, at, tries, got, pause, resVars, histVars>>

Method == {"sync_accounts", "sync_transactions"}

\* A task.  A sync of accounts is always for everyone.
Job == [type : {"sync_accounts"}, user : {Everyone}]
       \cup [type : {"sync_transactions"}, user : User \cup {Everyone, Stranger}]

\* The two requests of each account: for _ in range(2).
MaxTries == 2

Nowhere == Everyone

Init ==
    /\ ops = [u \in User |-> 1]
    /\ cool = [m \in Method |-> [u \in User |-> 0]]
    /\ rows = [a \in Account |-> 0] /\ stmts = [a \in Account |-> 0]
    /\ pc = "idle"
    /\ job = [type |-> "sync_accounts", user |-> Everyone]
    /\ todo = {} /\ at = Nowhere /\ tries = 0 /\ got = 0 /\ pause = 0
    /\ processed = {} /\ failed = {} /\ skipped = {}
    /\ asOf = ops /\ meddled = FALSE /\ slept = 0

-----------------------------------------------------------------------------
(* The handlers. *)

\* The users, or the account rows, that a handler goes through: those with a
\* token, and for accounts only active users.
Targets(j) ==
    IF j.type = "sync_accounts" THEN Active \cap Token
    ELSE {a \in Account : /\ rows[a] > 0
                          /\ j.user \in {Everyone, Owner[a]}
                          /\ Owner[a] \in Token}

\* The worker calls a handler, for a new task or once more for an old one.  For a
\* stranger it returns an error at once.
Call(j) ==
    /\ pc \in {"idle", "returned"}
    /\ job' = j /\ todo' = Targets(j)
    /\ processed' = {} /\ failed' = {} /\ skipped' = {}
    /\ asOf' = ops /\ meddled' = FALSE /\ slept' = 0
    /\ pc' = IF j.user = Stranger THEN "returned" ELSE "loop"
    /\ UNCHANGED <<bankVars, dbVars, at, tries, got, pause>>

\* The user or account is done with.
Leave == at' = Nowhere /\ tries' = 0 /\ got' = 0

\* continue, or the end of the body: the next round of the for loop.
Continue == pc' = "loop" /\ Leave

\* The next user or account, in an order that the SELECT leaves open.
Visit ==
    /\ pc = "loop"
    /\ \E t \in todo : at' = t /\ todo' = todo \ {t}
    /\ pc' = "ask"
    /\ UNCHANGED <<bankVars, dbVars, job, tries, got, pause, resVars, histVars>>

\* The result of the task.
Return ==
    /\ pc = "loop" /\ todo = {}
    /\ pc' = "returned"
    /\ UNCHANGED <<bankVars, dbVars, job, todo, at, tries, got, pause, resVars, histVars>>

\* The user whose token the request carries.
Holder == IF job.type = "sync_accounts" THEN at ELSE Owner[at]

\* An answer 200: the accounts as they are now, or the operations up to to_time,
\* which was read from the clock when the handler was called.
Granted ==
    /\ pc = "ask"
    /\ cool[job.type][Holder] = 0
    /\ got' = IF job.type = "sync_accounts" THEN ops[Holder] ELSE asOf[Holder]
    /\ cool' = [cool EXCEPT ![job.type][Holder] = Cooldown]
    /\ pc' = "commit"
    /\ UNCHANGED <<ops, dbVars, job, todo, at, tries, pause, resVars, histVars>>

\* Mutant: the break leaves the loop over the accounts.
RefusedLeaving ==
    /\ pc = "ask"
    /\ failed' = failed \cup {at}
    /\ todo' = {}
    /\ Continue
    /\ UNCHANGED <<bankVars, dbVars, job, pause, processed, skipped, histVars>>

\* Mutant: an error answer is retried like a 429.
RefusedRetrying ==
    /\ pc = "ask"
    /\ tries' = tries + 1
    /\ pause' = RateWait
    /\ pc' = "backoff"
    /\ UNCHANGED <<bankVars, dbVars, job, todo, at, got, resVars, histVars>>

\* An error answer (for accounts a 429 as well): noted in errors, and on.
Refused ==
    /\ pc = "ask"
    /\ failed' = failed \cup {at}
    /\ Continue
    /\ UNCHANGED <<bankVars, dbVars, job, todo, pause, processed, skipped, histVars>>

\* Mutant: a request that was limited is not counted.
RateLimitedUncounted ==
    /\ pc = "ask" /\ job.type = "sync_transactions"
    /\ cool[job.type][Holder] > 0
    /\ UNCHANGED tries
    /\ pause' = RateWait
    /\ pc' = "backoff"
    /\ UNCHANGED <<bankVars, dbVars, job, todo, at, got, resVars, histVars>>

\* An answer 429 to a request for transactions.
RateLimited ==
    /\ pc = "ask" /\ job.type = "sync_transactions"
    /\ cool[job.type][Holder] > 0
    /\ tries' = tries + 1
    /\ pause' = RateWait
    /\ pc' = "backoff"
    /\ UNCHANGED <<bankVars, dbVars, job, todo, at, got, resVars, histVars>>

\* Mutants: one request too many for each account, and one too few.
BackoffEndsLate ==
    /\ pc = "backoff" /\ pause = 0
    /\ IF tries <= MaxTries
       THEN pc' = "ask" /\ UNCHANGED <<at, tries, got, skipped>>
       ELSE Continue /\ skipped' = skipped \cup {at}
    /\ UNCHANGED <<bankVars, dbVars, job, todo, pause, processed, failed, histVars>>
BackoffEndsEarly ==
    /\ pc = "backoff" /\ pause = 0
    /\ Continue /\ skipped' = skipped \cup {at}
    /\ UNCHANGED <<bankVars, dbVars, job, todo, pause, processed, failed, histVars>>

\* The sleep is over: one more request, or the account is left out.
BackoffEnds ==
    /\ pc = "backoff" /\ pause = 0
    /\ IF tries < MaxTries
       THEN pc' = "ask" /\ UNCHANGED <<at, tries, got, skipped>>
       ELSE Continue /\ skipped' = skipped \cup {at}
    /\ UNCHANGED <<bankVars, dbVars, job, todo, pause, processed, failed, histVars>>

\* _upsert_account for all accounts of the user, and the commit.
UpsertAccounts ==
    /\ pc = "commit" /\ job.type = "sync_accounts"
    /\ rows' = [a \in Account |-> IF Owner[a] = at THEN got ELSE rows[a]]
    /\ processed' = processed \cup {at}
    /\ Continue
    /\ UNCHANGED <<bankVars, stmts, job, todo, pause, failed, skipped, histVars>>

\* session.merge of the transactions of the account, the commit, and time.sleep(1).
MergeStatement ==
    /\ pc = "commit" /\ job.type = "sync_transactions"
    /\ stmts' = [stmts EXCEPT ![at] = IF got > @ THEN got ELSE @]
    /\ processed' = processed \cup {at}
    /\ pause' = Pace
    /\ Leave /\ pc' = "pacing"
    /\ UNCHANGED <<bankVars, rows, job, todo, failed, skipped, histVars>>

PaceEnds ==
    /\ pc = "pacing" /\ pause = 0
    /\ pc' = "loop"
    /\ UNCHANGED <<bankVars, dbVars, job, todo, at, tries, got, pause, resVars, histVars>>

Busy == pc \notin {"idle", "returned"}

\* The handler raises (the network, an answer it cannot read, the database) or
\* the worker dies.  What was not committed is gone.
Abort ==
    /\ Busy
    /\ pc' = "idle"
    /\ todo' = {} /\ at' = Nowhere /\ tries' = 0 /\ got' = 0 /\ pause' = 0
    /\ processed' = {} /\ failed' = {} /\ skipped' = {} /\ slept' = 0
    /\ UNCHANGED <<bankVars, dbVars, job, asOf, meddled>>

-----------------------------------------------------------------------------
(* The bank and the clock. *)

Operate(u) ==
    /\ ops[u] < MaxOps
    /\ ops' = [ops EXCEPT ![u] = @ + 1]
    /\ UNCHANGED <<cool, dbVars, pc, job, todo, at, tries, got, pause, resVars, histVars>>

\* Another program makes a request with the token of u.
OtherRequest(m, u) ==
    /\ cool[m][u] = 0
    /\ cool' = [cool EXCEPT ![m][u] = Cooldown]
    /\ meddled' = TRUE /\ slept' = 0
    /\ UNCHANGED <<ops, dbVars, pc, job, todo, at, tries, got, pause, resVars, asOf>>

Pred(n) == IF n = 0 THEN 0 ELSE n - 1

Tick ==
    /\ pause > 0 \/ \E m \in Method : \E u \in User : cool[m][u] > 0
    /\ pause' = Pred(pause)
    /\ slept' = IF pause > 0 /\ ~meddled THEN slept + 1 ELSE slept
    /\ cool' = [m \in Method |-> [u \in User |-> Pred(cool[m][u])]]
    /\ UNCHANGED <<ops, dbVars, pc, job, todo, at, tries, got, resVars, asOf, meddled>>

-----------------------------------------------------------------------------
Answer == Granted \/ Refused \/ RateLimited

Handler ==
    \/ Visit \/ Return \/ Answer
    \/ BackoffEnds \/ UpsertAccounts \/ MergeStatement \/ PaceEnds

Next ==
    \/ \E j \in Job : Call(j)
    \/ Handler \/ Abort
    \/ \E a \in Account : Operate(Owner[a])
    \/ \E m \in Method : \E u \in Token : OtherRequest(m, u)
    \/ Tick

Spec == Init /\ [][Next]_vars

\* The handler is code that runs, its requests have a timeout, and time passes.
\* Which answer the bank gives is left open.
FairSpec == Spec /\ WF_vars(Handler) /\ WF_vars(Tick)

-----------------------------------------------------------------------------
(* Properties. *)

\* Every variable has its type.
TypeOK ==
    /\ ops \in [User -> Nat]
    /\ cool \in [Method -> [User -> 0 .. Cooldown]]
    /\ rows \in [Account -> Nat] /\ stmts \in [Account -> Nat]
    /\ pc \in {"idle", "returned", "loop", "ask", "backoff", "commit", "pacing"}
    /\ job \in Job
    /\ todo \subseteq User \cup Account
    /\ at \in User \cup Account \cup {Nowhere}
    /\ tries \in 0 .. MaxTries /\ got \in Nat /\ pause \in Nat
    /\ processed \subseteq User \cup Account
    /\ failed \subseteq User \cup Account
    /\ skipped \subseteq User \cup Account
    /\ asOf \in [User -> Nat] /\ meddled \in BOOLEAN /\ slept \in Nat

\* t is counted as processed, and its data in the database is that of the call or
\* newer.
Done(t) ==
    /\ t \in processed
    /\ IF job.type = "sync_accounts"
       THEN \A a \in Account : Owner[a] = t => rows[a] >= asOf[t]
       ELSE stmts[t] >= asOf[Owner[t]]

\* When a handler returns, each user or account that it was to go through is counted
\* and has its data in the database, as new as the call or newer, or is in errors or
\* left out, whatever earlier calls that were cut off had done or not done.
ResultIsComplete ==
    pc = "returned" => \A t \in Targets(job) : Done(t) \/ t \in failed \cup skipped

\* The waits are long enough: as long as no other program uses the tokens, the
\* second request for an account is never limited, and no account is left out,
\* whatever was asked before this call.  (The first one of the next account comes
\* too early; the sleep after its 429 outlasts the cooldown.)
NothingSkippedAlone == ~meddled => skipped = {}

\* Those whose round in the for loop has begun.
Visited == processed \cup failed \cup skipped \cup ({at} \ {Nowhere})

\* As long as no other program uses the tokens, a handler sleeps RateWait at most for
\* each account that it visits, and Pace for each that it has stored, whatever is
\* answered.  (The time that the requests take, each up to its own timeout, is not
\* sleep and comes on top.)
SleepBounded ==
    ~meddled /\ pc # "idle" =>
        slept + pause <= RateWait * Cardinality(Visited) + Pace * Cardinality(processed)

\* Every call of a handler ends, however often the bank limits it.
CallsEnd == Busy ~> ~Busy

-----------------------------------------------------------------------------
\* worker.py, run_one: HTTP errors are retried.  So a call that returns, which
\* the worker records as a success, has met none that it did not overcome.
HttpErrorsAreRetried == pc = "returned" => failed \cup skipped = {}
=============================================================================
