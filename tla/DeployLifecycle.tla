-------------------------- MODULE DeployLifecycle --------------------------
(***************************************************************************)
(* What the deploy service promises to whoever reads its runs, whatever    *)
(* fails and whenever it is restarted: a list that only grows, in which    *)
(* only the newest run goes forward, from pending to running to a result.  *)
(* A restart interrupts every run that has not ended, the newest and those *)
(* that a failure left behind, and an end is for good.                     *)
(***************************************************************************)
EXTENDS Naturals, Sequences

CONSTANT Results    \* how a run that is not interrupted ends
VARIABLE status     \* of each run, in order of id

Active  == {"pending", "running"}
Status  == Active \cup Results \cup {"interrupted"}

Init == status = <<>>

Accept == status' = Append(status, "pending")

\* The newest run goes from one status to the next.
Advance(from, to) ==
    /\ status # <<>> /\ status[Len(status)] = from
    /\ status' = [status EXCEPT ![Len(status)] = to]

Begin == Advance("pending", "running")
End   == \E o \in Results : Advance("running", o)

Interrupt ==
    status' = [r \in DOMAIN status |->
                 IF status[r] \in Active THEN "interrupted" ELSE status[r]]

Next == Accept \/ Begin \/ End \/ Interrupt

Spec == Init /\ [][Next]_status
=============================================================================
