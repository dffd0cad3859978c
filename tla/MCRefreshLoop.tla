---------------------------- MODULE MCRefreshLoop ----------------------------
(* RefreshLoop on small instances: a project with all the sizings, and perhaps one with none. *)
EXTENDS RefreshLoop

CONSTANTS p1

OneProject == [s \in Sizings |-> p1]
=============================================================================
