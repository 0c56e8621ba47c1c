---------------------------- MODULE MCDashboard ----------------------------
(* Small instances of Dashboard. *)
EXTENDS Dashboard

CONSTANT k1

\* By the number of agents.
Runs == <<2, 1>>
Cleanups == <<2, 0>>
=============================================================================
