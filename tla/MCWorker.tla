------------------------------ MODULE MCWorker ------------------------------
(* Instances of Worker for TLC. *)
EXTENDS Worker

CONSTANTS c1, c2

accounts     == [type |-> "sync_accounts", payload |-> "none"]
transactions == [type |-> "sync_transactions", payload |-> "none"]
badDays      == [type |-> "sync_transactions", payload |-> "bad_days"]
oldType      == [type |-> "sync_jars", payload |-> "none"]

MCItem == {accounts, transactions, badDays, oldType}
MCRegistry == {"sync_accounts", "sync_transactions"}
MCMalformed == {badDays}

NoJobs == <<>>
TwoJobs == <<[type |-> "sync_accounts", time |-> 0], [type |-> "sync_transactions", time |-> 2]>>

\* A job in the hour that a change to daylight saving time skips.
GapJob == <<[type |-> "sync_accounts", time |-> 3]>>

OneRequest  == {accounts}
NothingLeft == <<>>

\* Tasks of an earlier release: of a type that is gone, and with a payload that the
\* handler rejects.
OldTasks    == <<oldType, badDays>>
=============================================================================
