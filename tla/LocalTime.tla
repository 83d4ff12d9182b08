----------------------------- MODULE LocalTime -----------------------------
(***************************************************************************)
(* The clock arithmetic of src/scheduler.py: an instant (UTC) read in the  *)
(* configured time zone, and a wall-clock time of day converted back to an *)
(* instant.  The zone has one transition (a change to or from daylight     *)
(* saving time), which is all that a run of a few days can meet; a zone    *)
(* without one has OffsetBefore = OffsetAfter.  Conversion follows the     *)
(* rules of zoneinfo (PEP 495), including its answers for wall times that  *)
(* occur twice (the fold) or never (the gap).                              *)
(***************************************************************************)
EXTENDS Integers

CONSTANTS
    DayLength,      \* ticks in a day of the wall clock
    Transition,     \* the instant at which the zone changes its offset
    OffsetBefore,   \* wall clock minus UTC before the transition
    OffsetAfter     \* wall clock minus UTC from the transition on

ASSUME LocalTimeAssumption ==
    /\ DayLength \in Nat \ {0}
    /\ Transition \in Nat
    /\ OffsetBefore \in Nat /\ OffsetAfter \in Nat

\* datetime.now(tz): the wall clock at instant u, its day and its time of day.
Wall(u) == u + (IF u < Transition THEN OffsetBefore ELSE OffsetAfter)
LocalDay(u)  == Wall(u) \div DayLength
TimeOfDay(u) == Wall(u) % DayLength

\* now.fold: u is the second pass over a wall time that occurs twice.
Fold(u) ==
    IF u >= Transition /\ u - Transition < OffsetBefore - OffsetAfter THEN 1 ELSE 0

\* tz.utcoffset(wall).  The transition is placed on the wall clock at the end
\* of the gap or of the fold, or, with fold = 1, at its beginning.
WallOffset(wall, fold) ==
    LET earlier == IF OffsetBefore < OffsetAfter THEN OffsetBefore ELSE OffsetAfter
        later   == IF OffsetBefore < OffsetAfter THEN OffsetAfter ELSE OffsetBefore
        seam    == Transition + (IF fold = 1 THEN earlier ELSE later)
    IN  IF wall < seam THEN OffsetBefore ELSE OffsetAfter

\* if now.time() < job.scheduled_time: continue
Due(time, u) == TimeOfDay(u) >= time

\* now.replace(hour=..., minute=...): a time of day on the local day of u.
Today(time, u) == LocalDay(u) * DayLength + time

\* Mutant: today's scheduled time taken for an instant without conversion.
ScheduledSinceNaive(time, u) == Today(time, u)

\* scheduled_since: today's scheduled time as an instant.  The wall time keeps
\* the fold of now.
ScheduledSince(time, u) == Today(time, u) - WallOffset(Today(time, u), Fold(u))
=============================================================================
