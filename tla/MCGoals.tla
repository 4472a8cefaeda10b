------------------------------ MODULE MCGoals ------------------------------
(* Goals on small instances: one request of the user, two turns. *)
EXTENDS Goals
=============================================================================
