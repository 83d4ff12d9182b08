--------------------------- MODULE MCDeployRunner ---------------------------
(* The instance of DeployRunner for TLC. *)
EXTENDS DeployRunner

CONSTANTS c1, c2
=============================================================================
