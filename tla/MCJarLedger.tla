---------------------------- MODULE MCJarLedger ----------------------------
(* Instances of JarLedger for TLC. *)
EXTENDS JarLedger

CONSTANT j1

\* A month of one day, one of two days, and one of one day.
MCFirstDay == <<0, 1, 3, 4>>
MCAmount == {2, -1}
=============================================================================
