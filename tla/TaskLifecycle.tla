---------------------------- MODULE TaskLifecycle ----------------------------
(***************************************************************************)
(* What the task queue promises, whoever asks and whatever crashes: a list *)
(* of tasks that only grows, worked on one at a time.  A task ends once,   *)
(* in success only after work that was done since it was started and not   *)
(* interrupted; work that a crash interrupts counts for nothing and the    *)
(* task starts over.                                                       *)
(***************************************************************************)
EXTENDS Naturals, Sequences

VARIABLES
    status,     \* of each task, in order of arrival
    worked      \* work has been done on the running task since it was started

Init == worked = FALSE /\ status \in Seq({"pending"})

Running == {i \in DOMAIN status : status[i] = "running"}

Arrive == status' = Append(status, "pending") /\ UNCHANGED worked

Start ==
    /\ Running = {}
    /\ \E i \in DOMAIN status :
         status[i] = "pending" /\ status' = [status EXCEPT ![i] = "running"]
    /\ worked' = FALSE

Work == Running # {} /\ worked' = TRUE /\ UNCHANGED status

Succeed ==
    /\ worked
    /\ \E i \in Running : status' = [status EXCEPT ![i] = "success"]
    /\ worked' = FALSE

GiveUp ==
    /\ \E i \in Running : status' = [status EXCEPT ![i] = "error"]
    /\ worked' = FALSE

\* A crash: the work is lost at once, the task goes back a while later.
Interrupt == worked' = FALSE /\ UNCHANGED status

GoBack ==
    /\ ~worked
    /\ \E i \in Running : status' = [status EXCEPT ![i] = "pending"]
    /\ UNCHANGED worked

Next == Arrive \/ Start \/ Work \/ Succeed \/ GiveUp \/ Interrupt \/ GoBack

Spec == Init /\ [][Next]_<<status, worked>>
=============================================================================
