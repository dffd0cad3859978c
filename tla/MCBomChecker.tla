---------------------------- MODULE MCBomChecker ----------------------------
(* BomChecker on a small instance. *)
EXTENDS BomChecker
=============================================================================
