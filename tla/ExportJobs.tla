----------------------------- MODULE ExportJobs -----------------------------
(***************************************************************************)
(* The bundle-export queue: the export_jobs table, the drain thread every  *)
(* gunicorn process runs (app/export_worker.py), the routes that queue a   *)
(* job and hand its file over (app/projects.py), and the two places that   *)
(* delete rows: the retention sweep and the account cascade (app/auth.py). *)
(*                                                                         *)
(* Time is a tick.  Ages saturate one past the bound the code compares     *)
(* them with, so a behaviour may run forever over finitely many states.    *)
(***************************************************************************)
EXTENDS Integers, FiniteSets

CONSTANTS
    Jobs,          \* the rows the table may ever hold
    Users,         \* the accounts that queue them
    Owner,         \* the account (and project owner) each row belongs to
    Workers,       \* the drain threads, one per gunicorn process
    NoWorker,      \* claimed_by IS NULL
    NoJob,         \* the thread holds no job
    Sweepers,      \* who may run the retention purge: maybe_purge and the daily
                   \* maintenance take different advisory locks, so both may at a time
    ClaimTimeout,  \* CLAIM_TIMEOUT in ticks
    MaxBuild,      \* the longest a thread stays on one piece of work, in ticks
    Ttl,           \* EXPORT_ARTIFACT_TTL in ticks
    AgeOut,        \* the two days after which an unfinished row is swept
    MaxCrashes     \* how many times a process dies

ASSUME ExportAssumption ==
    /\ Owner \in [Jobs -> Users]
    /\ NoWorker \notin Workers
    /\ NoJob \notin Jobs
    /\ IsFiniteSet(Jobs)
    /\ ClaimTimeout \in Nat /\ MaxBuild \in Nat
    /\ Ttl \in Nat /\ AgeOut \in Nat /\ MaxCrashes \in Nat

VARIABLES
    status,     \* status of the row; "unborn" before the insert, "gone" after the delete
    holder,     \* claimed_by
    claimAge,   \* ticks since claimed_at, counted while the row is running
    rowAge,     \* ticks since created_at
    serial,     \* the row's place in ORDER BY created_at
    left,       \* ticks until expires_at, NoExpiry while it is NULL
    hasPath,    \* artifact_path IS NOT NULL
    file,       \* the artifact on disk; "partial" while it is being written
    mailed,     \* what the owner has been told by mail
    accounts,   \* the accounts that still exist
    pc,         \* where each drain thread is
    doing,      \* the job the thread is running
    stuck,      \* the rows requeue_abandoned_jobs has read and not yet written
    spent,      \* ticks since the thread woke or claimed
    sweep,      \* where each sweep is
    victims,    \* the rows a sweep has read
    unlinks,    \* those of them that carried a path when they were read
    crashes

rowVars   == <<status, holder, claimAge, rowAge, serial, left, hasPath>>
workVars  == <<pc, doing, stuck, spent>>
sweepVars == <<sweep, victims, unlinks>>
vars == <<rowVars, file, mailed, accounts, workVars, sweepVars, crashes>>

NoExpiry == -1
Live     == {"queued", "running", "done", "failed"}
Exists(j) == status[j] \in Live

\* A thread is on job j from its claim until its outcome is committed.
Working == {"resolve", "build", "write", "record", "fail"}
Builds(w, j) == pc[w] \in Working /\ doing[w] = j

Bump(n, bound) == IF n > bound THEN n ELSE n + 1

-----------------------------------------------------------------------------
Init ==
    /\ status = [j \in Jobs |-> "unborn"]
    /\ holder = [j \in Jobs |-> NoWorker]
    /\ claimAge = [j \in Jobs |-> 0]
    /\ rowAge = [j \in Jobs |-> 0]
    /\ serial = [j \in Jobs |-> 0]
    /\ left = [j \in Jobs |-> NoExpiry]
    /\ hasPath = [j \in Jobs |-> FALSE]
    /\ file = [j \in Jobs |-> "absent"]
    /\ mailed = [j \in Jobs |-> {}]
    /\ accounts = Users
    /\ pc = [w \in Workers |-> "sleep"]
    /\ doing = [w \in Workers |-> NoJob]
    /\ stuck = [w \in Workers |-> {}]
    /\ spent = [w \in Workers |-> 0]
    /\ sweep = [p \in Sweepers |-> "idle"]
    /\ victims = [p \in Sweepers |-> {}]
    /\ unlinks = [p \in Sweepers |-> {}]
    /\ crashes = 0

\* POST /api/projects/<id>/export with a valid selection and notify_email set.
QueueExport(j) ==
    /\ status[j] = "unborn"
    /\ Owner[j] \in accounts
    /\ status' = [status EXCEPT ![j] = "queued"]
    /\ serial' = [serial EXCEPT ![j] = Cardinality({k \in Jobs : status[k] # "unborn"})]
    /\ UNCHANGED <<holder, claimAge, rowAge, left, hasPath, file, mailed,
                   accounts, workVars, sweepVars, crashes>>

-----------------------------------------------------------------------------
(* The drain thread. *)

\* Mutants of LooksAbandoned: the age is not looked at; nothing is ever requeued.
LooksAbandonedAtAnyAge(j) == status[j] = "running" /\ holder[j] # NoWorker
LooksAbandonedNever(j) == FALSE

LooksAbandoned(j) ==
    /\ status[j] = "running"
    /\ holder[j] # NoWorker
    /\ claimAge[j] > ClaimTimeout

\* The first half of requeue_abandoned_jobs: the SELECT of the stale claims.
Wake(w) ==
    /\ pc[w] = "sleep"
    /\ stuck' = [stuck EXCEPT ![w] = {j \in Jobs : LooksAbandoned(j)}]
    /\ pc' = [pc EXCEPT ![w] = IF stuck'[w] = {} THEN "claim" ELSE "requeue"]
    /\ spent' = [spent EXCEPT ![w] = 0]
    /\ UNCHANGED <<rowVars, file, mailed, accounts, doing, sweepVars, crashes>>

\* Its second half: an UPDATE by primary key, with no condition on the row's
\* present status.  A row deleted meanwhile fails the flush and the cycle.
Requeue(w) ==
    /\ pc[w] = "requeue"
    /\ \/ /\ \A j \in stuck[w] : Exists(j)
          /\ status' = [j \in Jobs |-> IF j \in stuck[w] THEN "queued" ELSE status[j]]
          /\ holder' = [j \in Jobs |-> IF j \in stuck[w] THEN NoWorker ELSE holder[j]]
          /\ claimAge' = [j \in Jobs |-> IF j \in stuck[w] THEN 0 ELSE claimAge[j]]
          /\ pc' = [pc EXCEPT ![w] = "claim"]
       \/ /\ \E j \in stuck[w] : ~Exists(j)
          /\ pc' = [pc EXCEPT ![w] = "sleep"]
          /\ UNCHANGED <<status, holder, claimAge>>
    /\ stuck' = [stuck EXCEPT ![w] = {}]
    /\ UNCHANGED <<rowAge, serial, left, hasPath, file, mailed, accounts,
                   doing, spent, sweepVars, crashes>>

\* Mutants of Claimable: a running row may be taken again; a failed one is retried.
ClaimableWhileRunning(j) == status[j] \in {"queued", "running"}
ClaimableAfterFailure(j) == status[j] \in {"queued", "failed"}

Claimable(j) == status[j] = "queued"

\* claim_next_job: one UPDATE takes the oldest queued row.
Claim(w) ==
    /\ pc[w] = "claim"
    /\ \E j \in Jobs :
          /\ Claimable(j)
          /\ \A k \in Jobs : Claimable(k) => serial[j] <= serial[k]
          /\ status' = [status EXCEPT ![j] = "running"]
          /\ holder' = [holder EXCEPT ![j] = w]
          /\ claimAge' = [claimAge EXCEPT ![j] = 0]
          /\ doing' = [doing EXCEPT ![w] = j]
    /\ pc' = [pc EXCEPT ![w] = "resolve"]
    /\ spent' = [spent EXCEPT ![w] = 0]
    /\ UNCHANGED <<rowAge, serial, left, hasPath, file, mailed, accounts,
                   stuck, sweepVars, crashes>>

\* Nothing queued: the inner loop ends and the thread sleeps until its next poll.
Drained(w) ==
    /\ pc[w] = "claim"
    /\ \A j \in Jobs : ~Claimable(j)
    /\ pc' = [pc EXCEPT ![w] = "sleep"]
    /\ spent' = [spent EXCEPT ![w] = 0]
    /\ UNCHANGED <<rowVars, file, mailed, accounts, doing, stuck, sweepVars, crashes>>

\* sections_for found something to render and the progress commit went through.
Resolve(w) ==
    /\ pc[w] = "resolve"
    /\ Exists(doing[w])
    /\ pc' = [pc EXCEPT ![w] = "build"]
    /\ UNCHANGED <<rowVars, file, mailed, accounts, doing, stuck, spent, sweepVars, crashes>>

\* build_artifact has the document and opens the job's own path for writing.
OpenArtifact(w) ==
    /\ pc[w] = "build"
    /\ file' = [file EXCEPT ![doing[w]] = "partial"]
    /\ pc' = [pc EXCEPT ![w] = "write"]
    /\ UNCHANGED <<rowVars, mailed, accounts, doing, stuck, spent, sweepVars, crashes>>

\* The write completes; a sweep may have unlinked the path under the open handle.
CloseArtifact(w) ==
    /\ pc[w] = "write"
    /\ file' = IF \/ file[doing[w]] = "absent"
                  \/ \E v \in Workers \ {w} : pc[v] = "write" /\ doing[v] = doing[w]
               THEN file
               ELSE [file EXCEPT ![doing[w]] = "whole"]
    /\ pc' = [pc EXCEPT ![w] = "record"]
    /\ UNCHANGED <<rowVars, mailed, accounts, doing, stuck, spent, sweepVars, crashes>>

\* Mutant of LifeOnDisk: the deadline is set a tick late.
LifeOnDiskTooLong == Ttl + 1

LifeOnDisk == Ttl

\* The success commit of run_job; claimed_by is neither checked nor cleared.
RecordDone(w) ==
    /\ pc[w] = "record"
    /\ Exists(doing[w])
    /\ status' = [status EXCEPT ![doing[w]] = "done"]
    /\ hasPath' = [hasPath EXCEPT ![doing[w]] = TRUE]
    /\ left' = [left EXCEPT ![doing[w]] = LifeOnDisk]
    /\ pc' = [pc EXCEPT ![w] = "notify"]
    /\ UNCHANGED <<holder, claimAge, rowAge, serial, file, mailed, accounts,
                   doing, stuck, spent, sweepVars, crashes>>

\* No exportable section, a snapshot with a missing field, no PDF converter, a
\* full disk: whatever is raised before the success commit.
BuildRaises(w) ==
    /\ pc[w] \in {"resolve", "build", "write"}
    /\ pc' = [pc EXCEPT ![w] = "fail"]
    /\ UNCHANGED <<rowVars, file, mailed, accounts, doing, stuck, spent, sweepVars, crashes>>

RecordFailed(w) ==
    /\ pc[w] = "fail"
    /\ Exists(doing[w])
    /\ status' = [status EXCEPT ![doing[w]] = "failed"]
    /\ pc' = [pc EXCEPT ![w] = "notify"]
    /\ UNCHANGED <<holder, claimAge, rowAge, serial, left, hasPath, file, mailed,
                   accounts, doing, stuck, spent, sweepVars, crashes>>

\* _notify reads the row again: "ready" when it is done, "failed" otherwise.
Notify(w) ==
    /\ pc[w] = "notify"
    /\ Exists(doing[w])
    /\ mailed' = [mailed EXCEPT ![doing[w]] = @ \cup
                    {IF status[doing[w]] = "done" THEN "ready" ELSE "failed"}]
    /\ pc' = [pc EXCEPT ![w] = "claim"]
    /\ doing' = [doing EXCEPT ![w] = NoJob]
    /\ UNCHANGED <<rowVars, file, accounts, stuck, spent, sweepVars, crashes>>

\* The row was deleted under the thread: its commit matches no row, the handler's
\* own commit fails the same way, and the exception ends the cycle.
RowVanished(w) ==
    /\ pc[w] \in {"resolve", "build", "record", "fail", "notify"}
    /\ ~Exists(doing[w])
    /\ pc' = [pc EXCEPT ![w] = "sleep"]
    /\ doing' = [doing EXCEPT ![w] = NoJob]
    /\ spent' = [spent EXCEPT ![w] = 0]
    /\ UNCHANGED <<rowVars, file, mailed, accounts, stuck, sweepVars, crashes>>

\* The process is recycled, killed or restarted; its daemon thread dies with it
\* and a fresh process starts polling.
Crash(w) ==
    /\ pc[w] # "sleep"
    /\ crashes < MaxCrashes
    /\ crashes' = crashes + 1
    /\ pc' = [pc EXCEPT ![w] = "sleep"]
    /\ doing' = [doing EXCEPT ![w] = NoJob]
    /\ stuck' = [stuck EXCEPT ![w] = {}]
    /\ spent' = [spent EXCEPT ![w] = 0]
    /\ UNCHANGED <<rowVars, file, mailed, accounts, sweepVars>>

-----------------------------------------------------------------------------
(* Deleting rows. *)

Expired(j) == left[j] = 0

\* Mutant of Sweepable: filtering on expires_at alone.
SweepableByDeadlineOnly(j) == Exists(j) /\ Expired(j)

\* A finished row carries a deadline; a failed or abandoned one never gets one and
\* is aged out on created_at.
Sweepable(j) ==
    /\ Exists(j)
    /\ Expired(j) \/ (status[j] # "done" /\ rowAge[j] > AgeOut)

\* The SELECT of _purge_expired_exports.
SweepSelect(p) ==
    LET found == {j \in Jobs : Sweepable(j)} IN
    /\ sweep[p] = "idle"
    /\ found # {}
    /\ victims' = [victims EXCEPT ![p] = found]
    /\ unlinks' = [unlinks EXCEPT ![p] = {j \in found : hasPath[j]}]
    /\ sweep' = [sweep EXCEPT ![p] = "selected"]
    /\ UNCHANGED <<rowVars, file, mailed, accounts, workVars, crashes>>

\* os.remove of every path that was on a row when it was read.
SweepUnlink(p) ==
    /\ sweep[p] = "selected"
    /\ file' = [j \in Jobs |-> IF j \in unlinks[p] THEN "absent" ELSE file[j]]
    /\ sweep' = [sweep EXCEPT ![p] = "unlinked"]
    /\ UNCHANGED <<rowVars, mailed, accounts, workVars, victims, unlinks, crashes>>

\* The sweep is over, for the day or for good.
SweepEnds(p) ==
    /\ sweep' = [sweep EXCEPT ![p] = "idle"]
    /\ victims' = [victims EXCEPT ![p] = {}]
    /\ unlinks' = [unlinks EXCEPT ![p] = {}]

\* Mutant of SweepDelete: the files are removed and the rows kept.
SweepKeepsRows(p) ==
    /\ sweep[p] = "unlinked"
    /\ SweepEnds(p)
    /\ UNCHANGED <<rowVars, file, mailed, accounts, workVars, crashes>>

\* The commit that deletes the rows, by primary key; one that is gone already is only
\* warned about.
SweepDelete(p) ==
    /\ sweep[p] = "unlinked"
    /\ status' = [j \in Jobs |-> IF j \in victims[p] THEN "gone" ELSE status[j]]
    /\ SweepEnds(p)
    /\ UNCHANGED <<holder, claimAge, rowAge, serial, left, hasPath, file,
                   mailed, accounts, workVars, crashes>>

SweepCrash(p) ==
    /\ sweep[p] # "idle"
    /\ crashes < MaxCrashes
    /\ crashes' = crashes + 1
    /\ SweepEnds(p)
    /\ UNCHANGED <<rowVars, file, mailed, accounts, workVars>>

\* _delete_user_cascade: the account's rows go, the files they name stay.
DeleteAccount(u) ==
    /\ u \in accounts
    /\ accounts' = accounts \ {u}
    /\ status' = [j \in Jobs |-> IF Owner[j] = u /\ Exists(j) THEN "gone" ELSE status[j]]
    /\ UNCHANGED <<holder, claimAge, rowAge, serial, left, hasPath, file, mailed,
                   workVars, sweepVars, crashes>>

-----------------------------------------------------------------------------
\* Time passes, unless some thread has used up the longest time it may take.
Tick ==
    /\ \A w \in Workers : pc[w] # "sleep" => spent[w] < MaxBuild
    /\ spent' = [w \in Workers |-> IF pc[w] = "sleep" THEN 0 ELSE spent[w] + 1]
    /\ claimAge' = [j \in Jobs |-> IF status[j] = "running"
                                   THEN Bump(claimAge[j], ClaimTimeout) ELSE claimAge[j]]
    /\ rowAge' = [j \in Jobs |-> IF Exists(j) THEN Bump(rowAge[j], AgeOut) ELSE rowAge[j]]
    /\ left' = [j \in Jobs |-> IF Exists(j) /\ left[j] > 0 THEN left[j] - 1 ELSE left[j]]
    /\ UNCHANGED <<status, holder, serial, hasPath, file, mailed, accounts,
                   pc, doing, stuck, sweepVars, crashes>>

Work(w) ==
    \/ Wake(w) \/ Requeue(w) \/ Claim(w) \/ Drained(w)
    \/ Resolve(w) \/ OpenArtifact(w) \/ CloseArtifact(w) \/ RecordDone(w)
    \/ BuildRaises(w) \/ RecordFailed(w) \/ Notify(w) \/ RowVanished(w)

Sweeping(p) == SweepSelect(p) \/ SweepUnlink(p) \/ SweepDelete(p)

Next ==
    \/ \E j \in Jobs : QueueExport(j)
    \/ \E w \in Workers : Work(w) \/ Crash(w)
    \/ \E p \in Sweepers : Sweeping(p) \/ SweepCrash(p)
    \/ \E u \in Users : DeleteAccount(u)
    \/ Tick

Spec == Init /\ [][Next]_vars

\* The poll loop of every process keeps running and time does not stop.  Nobody
\* has to queue anything, delete an account or crash.
DrainFairness == WF_vars(Tick) /\ \A w \in Workers : WF_vars(Work(w))

\* The queue must recover without the sweep's help, so the sweep may stay away...
RecoverySpec == Spec /\ DrainFairness

\* ...but where rows must not pile up, it runs every day.
SweepsRunDaily == WF_vars(\E p \in Sweepers : Sweeping(p))

-----------------------------------------------------------------------------
TypeOK ==
    /\ status \in [Jobs -> {"unborn", "gone"} \cup Live]
    /\ holder \in [Jobs -> Workers \cup {NoWorker}]
    /\ claimAge \in [Jobs -> 0..(ClaimTimeout + 1)]
    /\ rowAge \in [Jobs -> 0..(AgeOut + 1)]
    /\ serial \in [Jobs -> Nat]
    /\ left \in [Jobs -> {NoExpiry} \cup 0..Ttl]
    /\ hasPath \in [Jobs -> BOOLEAN]
    /\ file \in [Jobs -> {"absent", "partial", "whole"}]
    /\ mailed \in [Jobs -> SUBSET {"ready", "failed"}]
    /\ accounts \subseteq Users
    /\ pc \in [Workers -> {"sleep", "requeue", "claim", "notify"} \cup Working]
    /\ doing \in [Workers -> Jobs \cup {NoJob}]
    /\ \A w \in Workers : pc[w] \in Working \cup {"notify"} => doing[w] \in Jobs
    /\ stuck \in [Workers -> SUBSET Jobs]
    /\ spent \in [Workers -> 0..MaxBuild]
    /\ sweep \in [Sweepers -> {"idle", "selected", "unlinked"}]
    /\ victims \in [Sweepers -> SUBSET Jobs]
    /\ unlinks \in [Sweepers -> SUBSET Jobs]
    /\ crashes \in 0..MaxCrashes

\* A thread that is still building a job never has its claim read as abandoned:
\* CLAIM_TIMEOUT is longer than a build, and every claim restarts the clock
\* ("a long PDF render must not be reclaimed while it is still running").
LiveBuildNeverLooksAbandoned ==
    \A w \in Workers, j \in Jobs : Builds(w, j) => ~LooksAbandoned(j)

\* Two threads never build one job at a time: the reason the claim is a single
\* UPDATE ("without it, three processes would build the same bundle at once").
OneBuilderPerJob ==
    \A v, w \in Workers, j \in Jobs : Builds(v, j) /\ Builds(w, j) => v = w

\* What the download route would hand over in this state.
Offered(j) == status[j] = "done" /\ hasPath[j] /\ ~Expired(j) /\ file[j] # "absent"

\* The download route never serves a file some thread is still writing.
ServedFileIsWhole == \A j \in Jobs : Offered(j) => file[j] = "whole"

\* A row that says "done" always has its file, except inside a sweep that is
\* about to delete the row ("a row pointing at a file that no longer exists is
\* worse than no row").
DoneRowHasItsFile ==
    \A j \in Jobs : status[j] = "done" /\ file[j] = "absent" =>
        \E p \in Sweepers : sweep[p] = "unlinked" /\ j \in victims[p]

\* The mail agrees with the row: nobody is told of a failure while the job is
\* queued, running or done, nor of a bundle they cannot download.
MailTellsTheOutcome ==
    [][\A j \in Jobs : \A verdict \in mailed'[j] \ mailed[j] :
          \/ verdict = "ready" /\ status[j] = "done" /\ file[j] # "partial"
          \/ verdict = "failed" /\ status[j] = "failed"]_vars

\* An outcome is final: a finished job is never put back in the queue, rebuilt or
\* given the other outcome; only a deletion follows.
OutcomeIsFinal ==
    [][\A j \in Jobs : status[j] \in {"done", "failed"} =>
          status'[j] \in {status[j], "gone"}]_vars

\* A queued job is settled in the end, whatever process dies while holding it.
QueuedJobSettles ==
    \A j \in Jobs : status[j] = "queued" ~> status[j] \in {"done", "failed", "gone"}

\* A job whose claimer died comes back ("a job whose claimer dies must come
\* back"): no row stays running for ever.
AbandonedJobComesBack == \A j \in Jobs : status[j] = "running" ~> status[j] # "running"

\* The queue keeps the promise of JobQueue: first come, first served; an outcome
\* never changes; mail repeats it; a deleted row never comes back.
Promise == INSTANCE JobQueue WITH told <- mailed
KeepsThePromise == Promise!QueueSpec

\* Rows do not accumulate: while the sweep runs every day, each one is deleted in the
\* end, whatever state a crash, another sweep or the cascade left its job in.
RowsAreSwept == SweepsRunDaily => \A j \in Jobs : Exists(j) ~> status[j] = "gone"

=============================================================================
