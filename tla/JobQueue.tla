------------------------------ MODULE JobQueue ------------------------------
(***************************************************************************)
(* What a background queue of this program promises, whoever drains it:    *)
(* rows are taken in the order they were queued, an outcome is final, mail *)
(* only ever repeats an outcome, and a row that is deleted does not come   *)
(* back.  ExportJobs implements it with threads, claims and sweeps;        *)
(* BomChecker is built on it.                                              *)
(***************************************************************************)
EXTENDS Integers, FiniteSets

CONSTANT Jobs    \* the rows the table may ever hold

VARIABLES
    status,      \* "unborn" before the insert, "gone" after the delete
    serial,      \* the row's place in ORDER BY created_at
    told         \* what the owner has been told by mail

queueVars == <<status, serial, told>>

Outcomes == {"done", "failed"}
Verdict  == [done |-> "ready", failed |-> "failed"]

QueueInit ==
    /\ status = [j \in Jobs |-> "unborn"]
    /\ serial = [j \in Jobs |-> 0]
    /\ told = [j \in Jobs |-> {}]

\* A request inserts a row behind all the others.
Submit(j) ==
    /\ status[j] = "unborn"
    /\ status' = [status EXCEPT ![j] = "queued"]
    /\ serial' = [serial EXCEPT ![j] = Cardinality({k \in Jobs : status[k] # "unborn"})]
    /\ UNCHANGED told

\* The oldest queued row is taken.
Start(j) ==
    /\ status[j] = "queued"
    /\ \A k \in Jobs : status[k] = "queued" => serial[j] <= serial[k]
    /\ status' = [status EXCEPT ![j] = "running"]
    /\ UNCHANGED <<serial, told>>

Settle(j, outcome) ==
    /\ status[j] = "running"
    /\ status' = [status EXCEPT ![j] = outcome]
    /\ UNCHANGED <<serial, told>>

\* The mail that repeats the outcome.
Tell(j) ==
    /\ status[j] \in Outcomes
    /\ told' = [told EXCEPT ![j] = @ \cup {Verdict[status[j]]}]
    /\ UNCHANGED <<status, serial>>

\* Rows are deleted, by age or with their account.
Withdraw(gone) ==
    /\ status' = [j \in Jobs |-> IF j \in gone THEN "gone" ELSE status[j]]
    /\ UNCHANGED <<serial, told>>

QueueNext ==
    \/ \E j \in Jobs : Submit(j) \/ Start(j) \/ Tell(j)
    \/ \E j \in Jobs, outcome \in Outcomes : Settle(j, outcome)
    \/ \E gone \in SUBSET {j \in Jobs : status[j] # "unborn"} : Withdraw(gone)

QueueSpec == QueueInit /\ [][QueueNext]_queueVars

=============================================================================
