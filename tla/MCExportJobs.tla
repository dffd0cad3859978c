---------------------------- MODULE MCExportJobs ----------------------------
(* ExportJobs on a small instance: who owns which row. *)
EXTENDS ExportJobs, TLC

CONSTANTS u1

OneOwner  == [j \in Jobs |-> u1]

\* Neither the processes nor the sweeps are told apart (safety runs only).
Alike == Permutations(Workers) \cup Permutations(Sweepers)
=============================================================================
