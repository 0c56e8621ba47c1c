----------------------------- MODULE MCA2ACall ------------------------------
(* Small instances of A2ACall. *)
EXTENDS A2ACall

CONSTANTS c1, c2, p1, p2
=============================================================================
