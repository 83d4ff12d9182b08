-------------------------- MODULE DeployDashboard --------------------------
(***************************************************************************)
(* The page that shows deploys (src/deploy/static/index.html), one browser *)
(* tab against the runs of the service, which behave as DeployLifecycle    *)
(* says.  The page asks for the current run every two seconds until it has *)
(* ended.  The service reads a run after the question was asked and before *)
(* the answer arrives, and answers may fail or overtake each other.        *)
(***************************************************************************)
EXTENDS Naturals, Sequences, SequencesExt

CONSTANTS
    Results,        \* of runs, of which the page tells none apart
    MaxRuns,        \* bound: runs
    MaxPolls,       \* bound: questions about a run in flight
    MaxFailures     \* bound: answers that fail

\* What the service has read of a row before it does.
Unread == "unread"

ASSUME DashboardAssumption ==
    /\ Unread \notin Results
    /\ MaxRuns \in Nat /\ MaxPolls \in Nat /\ MaxFailures \in Nat

RunId == 1 .. MaxRuns
Null  == 0

VARIABLES
    status,         \* the rows of the service
    page,           \* "loading" until the first refresh is over, then "ready"
    currentId,      \* the run to show, or Null
    polling,        \* pollTimer is set
    polls,          \* questions about a run in flight, in the order of asking
    refreshing,     \* the rows have been asked for, and have not arrived yet
    accepted,       \* the run that the deploy button has made, until the 202 arrives
    panel,          \* what the page shows: a run, and its status
    listed,         \* rows of the history
    overtaken,      \* questions were answered out of order, or too late (history)
    failures        \* failed answers so far

server == INSTANCE DeployLifecycle
Active == server!Active

callVars == <<polls, refreshing, accepted>>
viewVars == <<currentId, polling, panel, listed>>
vars == <<status, page, callVars, viewVars, overtaken, failures>>

\* GET /deploys/{run}, of pollCurrent or of the initial load, and what the service
\* has read.
Question(run, load) == [run |-> run, load |-> load, read |-> Unread]

Hidden == [run |-> Null, status |-> Unread]

Init ==
    /\ server!Init
    /\ page = "loading"
    /\ currentId = Null /\ polling = FALSE
    /\ polls = <<>> /\ refreshing = FALSE /\ accepted = Null
    /\ panel = Hidden /\ listed = 0
    /\ overtaken = FALSE /\ failures = 0

Room(qs) == Len(qs) < MaxPolls

-----------------------------------------------------------------------------
(* The service. *)

\* A run of somebody else, or progress of one.
Serve ==
    /\ server!Next /\ Len(status') <= MaxRuns
    /\ UNCHANGED <<page, callVars, viewVars, overtaken, failures>>

\* get_deploy.  Out of order, if an older question is still to be read.
Read(i) ==
    /\ polls[i].read = Unread
    /\ polls' = [polls EXCEPT ![i].read = status[polls[i].run]]
    /\ overtaken' = (overtaken \/ \E j \in 1 .. i - 1 : polls[j].read = Unread)
    /\ UNCHANGED <<status, page, refreshing, accepted, viewVars, failures>>

-----------------------------------------------------------------------------
(* The page. *)

\* Asks for the rows.  Answers of several refreshes count as one: a late one could
\* only make the history older again.
Refresh == refreshing' = TRUE

\* Polls run r at once and on every tick, when qs are in flight already.
StartPolling(r, qs) ==
    /\ Room(qs)
    /\ polling' = TRUE
    /\ polls' = Append(qs, Question(r, FALSE))
    /\ Refresh

\* The rows arrive, the first n runs.
Listed(n) ==
    /\ listed' = n
    /\ currentId' = IF currentId = Null /\ n > 0 THEN n ELSE currentId

\* A refresh is answered, with the rows of some earlier moment.
ListAnswered ==
    /\ refreshing /\ refreshing' = FALSE
    /\ \E n \in listed .. Len(status) : Listed(n)
    /\ UNCHANGED <<status, page, polls, accepted, polling, panel, overtaken, failures>>

Fail == failures < MaxFailures /\ failures' = failures + 1

ListFails ==
    /\ refreshing /\ refreshing' = FALSE
    /\ Fail
    /\ UNCHANGED <<status, page, polls, accepted, viewVars, overtaken>>

\* The initial load goes on to ask for the current run, if there is one.
AskLoaded ==
    /\ page = "loading" /\ page' = "ready"
    /\ IF currentId' = Null THEN UNCHANGED polls
       ELSE Room(polls) /\ polls' = Append(polls, Question(currentId', TRUE))
    /\ UNCHANGED <<status, refreshing, accepted, polling, panel, overtaken>>

\* await refresh().  The page may have been opened at any time before.
FirstListAnswered ==
    /\ \E n \in 0 .. Len(status) : Listed(n)
    /\ AskLoaded
    /\ UNCHANGED failures

FirstListFails ==
    /\ UNCHANGED <<listed, currentId>>
    /\ AskLoaded
    /\ Fail

\* The timer: pollCurrent.
Tick ==
    /\ polling /\ Room(polls)
    /\ polls' = Append(polls, Question(currentId, FALSE))
    /\ UNCHANGED <<status, page, refreshing, accepted, viewVars, overtaken, failures>>

\* renderCurrent.  The answer is out of order if an older question is still open,
\* or if the page has meanwhile turned to another run.
Render(i) ==
    /\ polls[i].read # Unread
    /\ panel' = [run |-> polls[i].run, status |-> polls[i].read]
    /\ overtaken' = (overtaken \/ i # 1 \/ polls[i].run # currentId)
    /\ UNCHANGED <<status, page, accepted, currentId, listed, failures>>

\* Mutant: a run that has not begun is not active.
PollAnsweredRunningOnly(i) ==
    /\ ~polls[i].load
    /\ Render(i)
    /\ polls' = RemoveAt(polls, i)
    /\ IF polls[i].read = "running" THEN UNCHANGED <<polling, refreshing>>
       ELSE polling' = FALSE /\ Refresh

\* pollCurrent is answered.
PollAnswered(i) ==
    /\ ~polls[i].load
    /\ Render(i)
    /\ polls' = RemoveAt(polls, i)
    /\ IF polls[i].read \in Active THEN UNCHANGED <<polling, refreshing>>
       ELSE polling' = FALSE /\ Refresh

\* The initial load is answered.
LoadAnswered(i) ==
    /\ polls[i].load
    /\ Render(i)
    /\ IF polls[i].read \in Active THEN StartPolling(currentId, RemoveAt(polls, i))
       ELSE polls' = RemoveAt(polls, i) /\ UNCHANGED <<polling, refreshing>>

\* Mutant: a failed answer ends the polling.
QuestionFailsStopping(i) ==
    /\ Fail
    /\ polls' = RemoveAt(polls, i)
    /\ polling' = FALSE
    /\ UNCHANGED <<status, page, refreshing, accepted, currentId, panel, listed, overtaken>>

\* A question about a run fails, or is answered with an error.
QuestionFails(i) ==
    /\ Fail
    /\ polls' = RemoveAt(polls, i)
    /\ UNCHANGED <<status, page, refreshing, accepted, viewVars, overtaken>>

\* The user opens a run of the history.
Open(r) ==
    /\ r <= listed
    /\ currentId' = r
    /\ StartPolling(r, polls)
    /\ UNCHANGED <<status, page, accepted, panel, listed, overtaken, failures>>

\* triggerDeploy, up to the answer of the service: a new run.  The button is disabled
\* until the answer has arrived.
Trigger ==
    /\ accepted = Null
    /\ Len(status) < MaxRuns /\ server!Accept
    /\ accepted' = Len(status')
    /\ UNCHANGED <<page, polls, refreshing, viewVars, overtaken, failures>>

\* Mutant: the answer is not made the current run.
TriggerAcceptedUnset ==
    /\ accepted # Null
    /\ StartPolling(currentId, polls)
    /\ accepted' = Null
    /\ UNCHANGED <<status, page, currentId, panel, listed, overtaken, failures>>

TriggerAccepted ==
    /\ accepted # Null
    /\ currentId' = accepted
    /\ StartPolling(accepted, polls)
    /\ accepted' = Null
    /\ UNCHANGED <<status, page, panel, listed, overtaken, failures>>

\* The answer 409.
TriggerRefused ==
    /\ accepted = Null
    /\ Refresh
    /\ UNCHANGED <<status, page, polls, accepted, viewVars, overtaken, failures>>

\* The answer is lost.
TriggerFails ==
    /\ accepted # Null
    /\ Fail
    /\ accepted' = Null
    /\ UNCHANGED <<status, page, polls, refreshing, viewVars, overtaken>>

-----------------------------------------------------------------------------
Answer == \E i \in DOMAIN polls : PollAnswered(i) \/ LoadAnswered(i)
ReadSome == \E i \in DOMAIN polls : Read(i)
FirstList == FirstListAnswered \/ FirstListFails

Next ==
    \/ Serve \/ ReadSome
    \/ FirstList \/ ListAnswered \/ ListFails
    \/ Tick \/ Answer
    \/ \E i \in DOMAIN polls : QuestionFails(i)
    \/ \E r \in RunId : Open(r)
    \/ Trigger \/ TriggerAccepted \/ TriggerRefused \/ TriggerFails

Spec == Init /\ [][Next]_vars

\* The timer ticks, and the service and the network answer in the end.
FairSpec == Spec /\ WF_vars(Tick) /\ WF_vars(ReadSome) /\ WF_vars(Answer)

-----------------------------------------------------------------------------
(* Properties. *)

\* Every variable has its type.
TypeOK ==
    /\ status \in Seq(server!Status) /\ Len(status) <= MaxRuns
    /\ page \in {"loading", "ready"}
    /\ currentId \in 0 .. Len(status) /\ listed \in 0 .. Len(status)
    /\ polling \in BOOLEAN /\ overtaken \in BOOLEAN
    /\ polls \in Seq([run : 1 .. Len(status), load : BOOLEAN, read : server!Status \cup {Unread}])
    /\ Len(polls) <= MaxPolls
    /\ refreshing \in BOOLEAN /\ accepted \in 0 .. Len(status)
    /\ panel \in [run : 0 .. Len(status), status : server!Status \cup {Unread}]
    /\ failures \in Nat

\* The page shows a run and expects nothing more: no timer and no answer on its way.
Quiet == panel # Hidden /\ ~polling /\ polls = <<>>

ShowsEnd == panel.run = currentId /\ panel.status = status[currentId] /\ panel.status \notin Active

\* As long as no answer has come out of order, the page comes to rest only on the
\* end of the run it is to show, whichever answers failed.
RestsOnTheEnd == Quiet /\ ~overtaken => ShowsEnd

\* A page that polls a run comes to show its end, unless answers come out of order
\* or the user turns to another run.
EndIsShown ==
    \A r \in RunId :
        polling /\ currentId = r /\ r \in DOMAIN status /\ status[r] \notin Active
            ~> overtaken \/ currentId # r \/ ShowsEnd

-----------------------------------------------------------------------------
\* runner.py: results are written to the row "so the UI can poll progress", and
\* README: a deploy is "tracked in a small dashboard".  So a page that shows runs
\* does not come to rest while its current run is active.
RestsOnEnded == Quiet => status[currentId] \notin Active
=============================================================================
