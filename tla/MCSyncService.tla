---------------------------- MODULE MCSyncService ----------------------------
(* The instance of SyncService for TLC. *)
EXTENDS SyncService

CONSTANTS u1, u2, card, jar

\* Two accounts that share a token; the other user has none.
MCOwner == [a \in Account |-> u1]
=============================================================================
