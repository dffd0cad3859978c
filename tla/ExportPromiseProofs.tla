------------------------ MODULE ExportPromiseProofs -------------------------
(***************************************************************************)
(* What TLAPS proves of the export queue as its owners see it: the mail,   *)
(* the file behind a finished row, and that the whole keeps the promise of *)
(* JobQueue.  The premises are those of ExportJobsProofs: no process dies  *)
(* and no build outlasts CLAIM_TIMEOUT.                                    *)
(***************************************************************************)
EXTENDS ExportJobsProofs

(* How a status may change: what each action does to it, once and for all. *)

Deletes(gone) ==
    /\ \A j \in gone : status[j] # "unborn"
    /\ status' = [j \in Jobs |-> IF j \in gone THEN "gone" ELSE status[j]]

VictimsAreBorn == \A p \in Sweepers : \A j \in victims[p] : status[j] # "unborn"

LEMMA QuietSteps ==
    ASSUME ExclusiveInv, NEW w \in Workers,
           \/ Wake(w) \/ Requeue(w) \/ Drained(w) \/ Resolve(w) \/ OpenArtifact(w)
           \/ CloseArtifact(w) \/ BuildRaises(w) \/ RowVanished(w) \/ Crash(w)
    PROVE  UNCHANGED <<status, serial, mailed, hasPath>>
BY DEF Wake, Requeue, Drained, Resolve, OpenArtifact, CloseArtifact, BuildRaises,
       RowVanished, Crash, rowVars, ExclusiveInv, NothingRequeued

LEMMA SettlingStep ==
    ASSUME ExclusiveInv, NEW w \in Workers, RecordDone(w) \/ RecordFailed(w)
    PROVE  /\ doing[w] \in Jobs /\ Builds(w, doing[w]) /\ status[doing[w]] = "running"
           /\ \E outcome \in {"done", "failed"} : status' = [status EXCEPT ![doing[w]] = outcome]
           /\ UNCHANGED <<serial, mailed, doing>>
<1>1. doing[w] \in Jobs /\ Builds(w, doing[w])
    BY DEF RecordDone, RecordFailed, ExclusiveInv, TypeOK, Builds, Working
<1>2. status[doing[w]] = "running"
    BY <1>1 DEF ExclusiveInv, BuilderHoldsTheClaim, RecordDone, RecordFailed, Exists, Live
<1> QED BY <1>1, <1>2 DEF RecordDone, RecordFailed

LEMMA DeletingSteps ==
    ASSUME ExclusiveInv, VictimsAreBorn,
           \/ \E p \in Sweepers : SweepDelete(p)
           \/ \E u \in Users : DeleteAccount(u)
    PROVE  /\ \E gone \in SUBSET Jobs : Deletes(gone)
           /\ UNCHANGED <<serial, mailed, hasPath>>
<1>1. ASSUME NEW p \in Sweepers, SweepDelete(p) PROVE \E gone \in SUBSET Jobs : Deletes(gone)
    <2>1. Deletes(victims[p]) /\ victims[p] \in SUBSET Jobs
        BY <1>1 DEF SweepDelete, Deletes, VictimsAreBorn, ExclusiveInv, TypeOK
    <2> QED BY <2>1
<1>2. ASSUME NEW u \in Users, DeleteAccount(u) PROVE \E gone \in SUBSET Jobs : Deletes(gone)
    <2> DEFINE gone == {j \in Jobs : Owner[j] = u /\ Exists(j)}
    <2>1. \A j \in gone : status[j] # "unborn"
        BY DEF Exists, Live
    <2>2. status' = [j \in Jobs |-> IF j \in gone THEN "gone" ELSE status[j]]
        BY <1>2 DEF DeleteAccount
    <2> HIDE DEF gone
    <2>3. gone \in SUBSET Jobs
        BY DEF gone
    <2> QED BY <2>1, <2>2, <2>3 DEF Deletes
<1> QED BY <1>1, <1>2 DEF SweepDelete, DeleteAccount

LEMMA OtherSteps ==
    ASSUME \/ \E p \in Sweepers : SweepSelect(p) \/ SweepUnlink(p) \/ SweepCrash(p)
           \/ Tick \/ UNCHANGED vars
    PROVE  UNCHANGED <<status, serial, mailed, hasPath, pc, doing>>
BY DEF SweepSelect, SweepUnlink, SweepCrash, Tick, vars, rowVars, workVars

\* A row that exists or existed is never new again.
LEMMA BornStays ==
    ASSUME ExclusiveInv, VictimsAreBorn, [Next]_vars, NEW i \in Jobs, status[i] # "unborn"
    PROVE  status'[i] # "unborn"
<1>1. ASSUME NEW j \in Jobs, QueueExport(j) PROVE status'[i] # "unborn"
    BY <1>1 DEF QueueExport, ExclusiveInv, TypeOK
<1>2. ASSUME NEW w \in Workers, Claim(w) PROVE status'[i] # "unborn"
    BY <1>2 DEF Claim, ExclusiveInv, TypeOK
<1>3. ASSUME NEW w \in Workers, RecordDone(w) \/ RecordFailed(w) PROVE status'[i] # "unborn"
    BY <1>3, SettlingStep DEF ExclusiveInv, TypeOK
<1>4. ASSUME NEW w \in Workers, Notify(w) PROVE status'[i] # "unborn"
    BY <1>4 DEF Notify, rowVars
<1> QED BY <1>1, <1>2, <1>3, <1>4, QuietSteps, DeletingSteps, OtherSteps
        DEF Next, Work, Sweeping, Deletes

LEMMA VictimsStep ==
    ASSUME ExclusiveInv, VictimsAreBorn, [Next]_vars
    PROVE  VictimsAreBorn'
<1> SUFFICES ASSUME NEW p \in Sweepers, NEW i \in victims'[p]
             PROVE  status'[i] # "unborn"
    BY DEF VictimsAreBorn
<1>1. CASE \E q \in Sweepers : SweepSelect(q)
    <2>1. PICK q \in Sweepers : SweepSelect(q)
        BY <1>1
    <2>2. i \in victims[p] \/ i \in {j \in Jobs : Sweepable(j)}
        BY <2>1 DEF SweepSelect, ExclusiveInv, TypeOK
    <2>3. status[i] # "unborn"
        BY <2>2 DEF VictimsAreBorn, Sweepable, Exists, Live
    <2> QED BY <2>1, <2>3 DEF SweepSelect, rowVars
<1>2. CASE ~ \E q \in Sweepers : SweepSelect(q)
    <2>1. i \in victims[p] /\ i \in Jobs
        <3>1. victims'[p] \subseteq victims[p]
            <4>1. ASSUME NEW w \in Workers, Work(w) \/ Crash(w) PROVE victims' = victims
                BY <4>1 DEF Work, Wake, Requeue, Claim, Drained, Resolve, OpenArtifact,
                   CloseArtifact, RecordDone, BuildRaises, RecordFailed, Notify,
                   RowVanished, Crash, sweepVars
            <4>2. ASSUME NEW q \in Sweepers, Sweeping(q) \/ SweepCrash(q)
                  PROVE  victims'[p] \subseteq victims[p]
                BY <1>2, <4>2 DEF Sweeping, SweepUnlink, SweepDelete, SweepCrash, SweepEnds,
                   ExclusiveInv, TypeOK
            <4>3. ASSUME \/ Tick \/ UNCHANGED vars
                         \/ \E j \in Jobs : QueueExport(j)
                         \/ \E u \in Users : DeleteAccount(u)
                  PROVE  victims' = victims
                BY <4>3 DEF Tick, vars, QueueExport, DeleteAccount, sweepVars
            <4> QED BY <4>1, <4>2, <4>3 DEF Next
        <3> QED BY <3>1 DEF ExclusiveInv, TypeOK
    <2> QED BY <2>1, BornStays DEF VictimsAreBorn
<1> QED BY <1>1, <1>2


\* A settled row keeps its outcome until it is deleted, and a deleted one stays so.
LEMMA SettledStays ==
    ASSUME ExclusiveInv, VictimsAreBorn, [Next]_vars, NEW i \in Jobs,
           status[i] \in {"done", "failed", "gone"}
    PROVE  status'[i] \in {status[i], "gone"}
<1>1. ASSUME NEW j \in Jobs, QueueExport(j) PROVE status'[i] = status[i]
    BY <1>1 DEF QueueExport, ExclusiveInv, TypeOK
<1>2. ASSUME NEW w \in Workers, Claim(w) PROVE status'[i] = status[i]
    BY <1>2 DEF Claim, Claimable, ExclusiveInv, TypeOK
<1>3. ASSUME NEW w \in Workers, RecordDone(w) \/ RecordFailed(w) PROVE status'[i] = status[i]
    BY <1>3, SettlingStep DEF ExclusiveInv, TypeOK
<1>4. ASSUME NEW w \in Workers, Notify(w) PROVE status'[i] = status[i]
    BY <1>4 DEF Notify, rowVars
<1> QED BY <1>1, <1>2, <1>3, <1>4, QuietSteps, DeletingSteps, OtherSteps
        DEF Next, Work, Sweeping, Deletes

-----------------------------------------------------------------------------
(* A thread that is about to send mail has settled its job.                 *)

NotifiedIsSettled ==
    \A w \in Workers : pc[w] = "notify" => status[doing[w]] \in {"done", "failed", "gone"}

MailInv == FileInv /\ VictimsAreBorn /\ NotifiedIsSettled

LEMMA NotifiedStep ==
    ASSUME ExclusiveInv, VictimsAreBorn, NotifiedIsSettled, [Next]_vars
    PROVE  NotifiedIsSettled'
<1> SUFFICES ASSUME NEW v \in Workers, pc'[v] = "notify"
             PROVE  status'[doing'[v]] \in {"done", "failed", "gone"}
    BY DEF NotifiedIsSettled
<1>1. ASSUME pc[v] = "notify", doing'[v] = doing[v]
      PROVE  status'[doing'[v]] \in {"done", "failed", "gone"}
    BY <1>1, SettledStays DEF NotifiedIsSettled, ExclusiveInv, TypeOK
<1>2. ASSUME RecordDone(v) \/ RecordFailed(v)
      PROVE  status'[doing'[v]] \in {"done", "failed", "gone"}
    BY <1>2, SettlingStep DEF ExclusiveInv, TypeOK
<1>3. CASE ~(RecordDone(v) \/ RecordFailed(v))
    <2>1. ASSUME NEW w \in Workers, Work(w) \/ Crash(w)
          PROVE  pc[v] = "notify" /\ doing'[v] = doing[v]
        BY <1>3, <2>1 DEF Work, Wake, Requeue, Claim, Drained, Resolve, OpenArtifact,
           CloseArtifact, RecordDone, BuildRaises, RecordFailed, Notify, RowVanished, Crash,
           ExclusiveInv, TypeOK
    <2>2. ASSUME \/ \E p \in Sweepers : Sweeping(p) \/ SweepCrash(p)
                 \/ Tick \/ UNCHANGED vars
                 \/ \E j \in Jobs : QueueExport(j)
                 \/ \E u \in Users : DeleteAccount(u)
          PROVE  pc[v] = "notify" /\ doing'[v] = doing[v]
        BY <2>2 DEF Sweeping, SweepSelect, SweepUnlink, SweepDelete, SweepCrash, Tick, vars,
           workVars, QueueExport, DeleteAccount
    <2> QED BY <1>1, <2>1, <2>2 DEF Next
<1> QED BY <1>2, <1>3

LEMMA MailInit == Init => MailInv
BY ExclusiveInit
   DEF Init, MailInv, FileInv, HalfWrittenIsNotDone, ClosedBeforeRecorded,
       VictimsAreBorn, NotifiedIsSettled

LEMMA MailStep ==
    ASSUME MaxBuild <= ClaimTimeout, MaxCrashes = 0
    PROVE  MailInv /\ [Next]_vars => MailInv'
BY ExclusiveStep, HalfWrittenStep, ClosedStep, VictimsStep, NotifiedStep DEF MailInv, FileInv

Told(j, verdict) ==
    \/ verdict = "ready" /\ status[j] = "done" /\ file[j] # "partial"
    \/ verdict = "failed" /\ status[j] = "failed"

LEMMA MailIsTrue ==
    ASSUME MailInv, [Next]_vars, NEW j \in Jobs, NEW verdict \in mailed'[j] \ mailed[j]
    PROVE  Told(j, verdict)
<1>1. PICK w \in Workers : Notify(w)
    <2>1. ASSUME NEW w \in Workers, RecordDone(w) \/ RecordFailed(w) \/ Claim(w)
          PROVE  mailed' = mailed
        BY <2>1 DEF RecordDone, RecordFailed, Claim
    <2>2. ASSUME NEW i \in Jobs, QueueExport(i) PROVE mailed' = mailed
        BY <2>2 DEF QueueExport
    <2> QED BY <2>1, <2>2, QuietSteps, DeletingSteps, OtherSteps
            DEF MailInv, FileInv, Next, Work, Sweeping
<1>2. /\ doing[w] = j
      /\ verdict = IF status[j] = "done" THEN "ready" ELSE "failed"
    BY <1>1 DEF Notify, MailInv, FileInv, ExclusiveInv, TypeOK
<1>3. status[j] \in {"done", "failed"}
    BY <1>1, <1>2 DEF Notify, MailInv, NotifiedIsSettled, Exists, Live
<1> QED BY <1>2, <1>3 DEF Told, MailInv, FileInv, HalfWrittenIsNotDone

\* The mail agrees with the row for every number of jobs, threads and accounts: "ready" is
\* only sent of a bundle that is finished and whole, "failed" only of a job that failed.
THEOREM MailIsHonest ==
    ASSUME MaxBuild <= ClaimTimeout, MaxCrashes = 0
    PROVE  Spec => MailTellsTheOutcome
<1>1. Init => MailInv
    BY MailInit
<1>2. MailInv /\ [Next]_vars => MailInv'
    BY MailStep
<1>3. MailInv /\ [Next]_vars =>
        [\A j \in Jobs : \A verdict \in mailed'[j] \ mailed[j] :
            \/ verdict = "ready" /\ status[j] = "done" /\ file[j] # "partial"
            \/ verdict = "failed" /\ status[j] = "failed"]_vars
    BY MailIsTrue DEF Told
<1> QED BY <1>1, <1>2, <1>3, PTL DEF Spec, MailTellsTheOutcome

-----------------------------------------------------------------------------
(* A finished row has its file.  Only a row with a path gives its file to a *)
(* sweep, only a finished job has a path, and what a builder wrote is still *)
(* there when it records its success.                                       *)

PathMeansDone == \A j \in Jobs : hasPath[j] => status[j] \in {"done", "gone"}

UnlinksAreVictims ==
    \A p \in Sweepers : \A j \in unlinks[p] : j \in victims[p] /\ hasPath[j]

BuiltIsThere ==
    \A w \in Workers :
        pc[w] \in {"write", "record"} /\ status[doing[w]] = "running" =>
            file[doing[w]] # "absent"

ShelfInv ==
    /\ ExclusiveInv
    /\ VictimsAreBorn
    /\ PathMeansDone
    /\ UnlinksAreVictims
    /\ BuiltIsThere
    /\ DoneRowHasItsFile

LEMMA ShelfInit == Init => ShelfInv
BY ExclusiveInit
   DEF Init, ShelfInv, VictimsAreBorn, PathMeansDone, UnlinksAreVictims, BuiltIsThere,
       DoneRowHasItsFile

LEMMA PathStep ==
    ASSUME ShelfInv, [Next]_vars
    PROVE  PathMeansDone'
<1> SUFFICES ASSUME NEW i \in Jobs, hasPath'[i] PROVE status'[i] \in {"done", "gone"}
    BY DEF PathMeansDone
<1>1. CASE \E w \in Workers : RecordDone(w) /\ doing[w] = i
    BY <1>1 DEF RecordDone, ShelfInv, ExclusiveInv, TypeOK
<1>2. CASE ~ \E w \in Workers : RecordDone(w) /\ doing[w] = i
    <2>1. hasPath[i]
        <3>1. ASSUME NEW w \in Workers, RecordDone(w) PROVE hasPath[i]
            BY <1>2, <3>1 DEF RecordDone, ShelfInv, ExclusiveInv, TypeOK
        <3>2. ASSUME NEW w \in Workers, Claim(w) \/ RecordFailed(w) \/ Notify(w)
              PROVE  hasPath[i]
            BY <3>2 DEF Claim, RecordFailed, Notify, rowVars
        <3>3. ASSUME NEW j \in Jobs, QueueExport(j) PROVE hasPath[i]
            BY <3>3 DEF QueueExport
        <3> QED BY <3>1, <3>2, <3>3, QuietSteps, DeletingSteps, OtherSteps
                DEF ShelfInv, Next, Work, Sweeping
    <2> QED BY <2>1, SettledStays DEF ShelfInv, PathMeansDone
<1> QED BY <1>1, <1>2

LEMMA UnlinksStep ==
    ASSUME ShelfInv, [Next]_vars
    PROVE  UnlinksAreVictims'
<1> SUFFICES ASSUME NEW p \in Sweepers, NEW i \in unlinks'[p]
             PROVE  i \in victims'[p] /\ hasPath'[i]
    BY DEF UnlinksAreVictims
<1> USE DEF ShelfInv, ExclusiveInv, TypeOK
<1>1. ASSUME NEW q \in Sweepers, SweepSelect(q) PROVE i \in victims'[p] /\ hasPath'[i]
    BY <1>1 DEF SweepSelect, rowVars, UnlinksAreVictims
<1>2. ASSUME NEW q \in Sweepers, SweepUnlink(q) \/ SweepDelete(q) \/ SweepCrash(q)
      PROVE  i \in victims'[p] /\ hasPath'[i]
    BY <1>2 DEF SweepUnlink, SweepDelete, SweepCrash, SweepEnds, rowVars, UnlinksAreVictims
<1>3. ASSUME NEW w \in Workers, Work(w) \/ Crash(w) PROVE i \in victims'[p] /\ hasPath'[i]
    <2>1. i \in Jobs /\ i \in victims'[p] /\ hasPath[i]
        BY <1>3 DEF Work, Wake, Requeue, Claim, Drained, Resolve, OpenArtifact,
           CloseArtifact, RecordDone, BuildRaises, RecordFailed, Notify, RowVanished, Crash,
           sweepVars, UnlinksAreVictims
    <2>2. hasPath' = hasPath \/ hasPath' = [hasPath EXCEPT ![doing[w]] = TRUE]
        BY <1>3 DEF Work, Wake, Requeue, Claim, Drained, Resolve, OpenArtifact,
           CloseArtifact, RecordDone, BuildRaises, RecordFailed, Notify, RowVanished, Crash,
           rowVars
    <2> QED BY <2>1, <2>2
<1>4. ASSUME \/ Tick \/ UNCHANGED vars
             \/ \E j \in Jobs : QueueExport(j)
             \/ \E u \in Users : DeleteAccount(u)
      PROVE  i \in victims'[p] /\ hasPath'[i]
    BY <1>4 DEF Tick, vars, rowVars, sweepVars, QueueExport, DeleteAccount, UnlinksAreVictims
<1> QED BY <1>1, <1>2, <1>3, <1>4 DEF Next, Sweeping

\* The files a step takes away are those of the rows a sweep read with a path.
LEMMA FileStep ==
    ASSUME ShelfInv, [Next]_vars, NEW i \in Jobs, file[i] # "absent", file'[i] = "absent"
    PROVE  \E p \in Sweepers : SweepUnlink(p) /\ i \in unlinks[p]
<1> USE DEF ShelfInv, ExclusiveInv, TypeOK
<1>1. ASSUME NEW w \in Workers, Work(w) \/ Crash(w) PROVE FALSE
    BY <1>1 DEF Work, Wake, Requeue, Claim, Drained, Resolve, OpenArtifact, CloseArtifact,
       RecordDone, BuildRaises, RecordFailed, Notify, RowVanished, Crash
<1>2. ASSUME \/ \E p \in Sweepers : SweepSelect(p) \/ SweepDelete(p) \/ SweepCrash(p)
             \/ Tick \/ UNCHANGED vars
             \/ \E j \in Jobs : QueueExport(j)
             \/ \E u \in Users : DeleteAccount(u)
      PROVE  FALSE
    BY <1>2 DEF SweepSelect, SweepDelete, SweepCrash, Tick, vars, QueueExport, DeleteAccount
<1>3. PICK p \in Sweepers : SweepUnlink(p)
    BY <1>1, <1>2 DEF Next, Sweeping
<1> QED BY <1>3 DEF SweepUnlink

LEMMA BuiltStep ==
    ASSUME ShelfInv, [Next]_vars
    PROVE  BuiltIsThere'
<1> SUFFICES ASSUME NEW v \in Workers, pc'[v] \in {"write", "record"},
                    status'[doing'[v]] = "running"
             PROVE  file'[doing'[v]] # "absent"
    BY DEF BuiltIsThere
<1> USE DEF ShelfInv, ExclusiveInv, TypeOK
<1>1. CASE OpenArtifact(v)
    BY <1>1 DEF OpenArtifact, Working
<1>2. CASE ~OpenArtifact(v)
    <2>1. pc[v] \in {"write", "record"} /\ doing'[v] = doing[v] /\ doing[v] \in Jobs
        <3>1. ASSUME NEW w \in Workers, Work(w) \/ Crash(w)
              PROVE  pc[v] \in {"write", "record"} /\ doing'[v] = doing[v]
            BY <1>2, <3>1 DEF Work, Wake, Requeue, Claim, Drained, Resolve, OpenArtifact,
               CloseArtifact, RecordDone, BuildRaises, RecordFailed, Notify, RowVanished, Crash
        <3>2. ASSUME \/ \E p \in Sweepers : Sweeping(p) \/ SweepCrash(p)
                     \/ Tick \/ UNCHANGED vars
                     \/ \E j \in Jobs : QueueExport(j)
                     \/ \E u \in Users : DeleteAccount(u)
              PROVE  pc[v] \in {"write", "record"} /\ doing'[v] = doing[v]
            BY <3>2 DEF Sweeping, SweepSelect, SweepUnlink, SweepDelete, SweepCrash, Tick,
               vars, workVars, QueueExport, DeleteAccount
        <3>3. pc[v] \in {"write", "record"} => doing[v] \in Jobs
            BY DEF Working
        <3> QED BY <3>1, <3>2, <3>3 DEF Next
    <2> DEFINE i == doing[v]
    <2>2. status[i] = "running"
        <3>1. Builds(v, i)
            BY <2>1 DEF Builds, Working
        <3>2. status[i] \in {"running", "gone"}
            BY <2>1, <3>1 DEF BuilderHoldsTheClaim
        <3> QED BY <2>1, <3>2, SettledStays
    <2>3. file[i] # "absent" /\ ~hasPath[i]
        BY <2>1, <2>2 DEF BuiltIsThere, PathMeansDone
    <2>4. \A p \in Sweepers : i \notin unlinks[p]
        BY <2>3 DEF UnlinksAreVictims
    <2> QED BY <2>1, <2>3, <2>4, FileStep
<1> QED BY <1>1, <1>2

LEMMA ShelfStep ==
    ASSUME MaxCrashes = 0, ShelfInv, [Next]_vars
    PROVE  DoneRowHasItsFile'
<1> SUFFICES ASSUME NEW i \in Jobs, status'[i] = "done", file'[i] = "absent"
             PROVE  \E p \in Sweepers : sweep'[p] = "unlinked" /\ i \in victims'[p]
    BY DEF DoneRowHasItsFile
<1> USE ExportAssumption DEF ShelfInv, ExclusiveInv, TypeOK
\* The file goes in this step: the sweep that takes it has the row among its victims.
<1>1. CASE file[i] # "absent"
    <2>1. PICK p \in Sweepers : SweepUnlink(p) /\ i \in unlinks[p]
        BY <1>1, FileStep
    <2>2. i \in victims[p]
        BY <2>1 DEF UnlinksAreVictims
    <2>3. sweep'[p] = "unlinked" /\ i \in victims'[p]
        BY <2>1, <2>2 DEF SweepUnlink
    <2> QED BY <2>3
\* Or it was gone before: then the row was finished before, and its sweep is not over.
<1>2. CASE file[i] = "absent"
    <2>1. ASSUME status[i] # "done" PROVE FALSE
        <3>1. PICK w \in Workers : RecordDone(w) /\ doing[w] = i
            <4>1. ASSUME NEW w \in Workers, Claim(w) \/ RecordFailed(w) \/ Notify(w) PROVE FALSE
                BY <2>1, <4>1 DEF Claim, RecordFailed, Notify, rowVars
            <4>2. ASSUME NEW j \in Jobs, QueueExport(j) PROVE FALSE
                BY <2>1, <4>2 DEF QueueExport
            <4>3. ASSUME NEW w \in Workers, RecordDone(w), doing[w] # i PROVE FALSE
                BY <2>1, <4>3 DEF RecordDone
            <4> QED BY <2>1, <4>1, <4>2, <4>3, QuietSteps, DeletingSteps, OtherSteps
                    DEF Next, Work, Sweeping, Deletes
        <3>2. pc[w] = "record" /\ status[doing[w]] = "running" /\ file' = file
            BY <3>1, SettlingStep DEF RecordDone
        <3> QED BY <1>2, <3>1, <3>2 DEF BuiltIsThere
    <2>2. PICK p \in Sweepers : sweep[p] = "unlinked" /\ i \in victims[p]
        BY <1>2, <2>1 DEF DoneRowHasItsFile
    <2>3. ~SweepDelete(p)
        BY <2>2 DEF SweepDelete
    <2>4. sweep'[p] = "unlinked" /\ i \in victims'[p]
        <3>1. ASSUME NEW q \in Sweepers, Sweeping(q) \/ SweepCrash(q)
              PROVE  sweep'[p] = "unlinked" /\ i \in victims'[p]
            BY <2>2, <2>3, <3>1 DEF Sweeping, SweepSelect, SweepUnlink, SweepDelete,
               SweepCrash, SweepEnds
        <3>2. ASSUME NEW w \in Workers, Work(w) \/ Crash(w) PROVE UNCHANGED sweepVars
            BY <3>2 DEF Work, Wake, Requeue, Claim, Drained, Resolve, OpenArtifact,
               CloseArtifact, RecordDone, BuildRaises, RecordFailed, Notify, RowVanished,
               Crash
        <3>3. ASSUME \/ Tick \/ UNCHANGED vars
                     \/ \E j \in Jobs : QueueExport(j)
                     \/ \E u \in Users : DeleteAccount(u)
              PROVE  UNCHANGED sweepVars
            BY <3>3 DEF Tick, vars, QueueExport, DeleteAccount
        <3> QED BY <2>2, <3>1, <3>2, <3>3 DEF Next, sweepVars
    <2> QED BY <2>2, <2>4
<1> QED BY <1>1, <1>2

\* A row that says "done" has its file, for every number of jobs, threads and sweeps, unless
\* a sweep has just removed the file and is about to delete the row.
THEOREM DoneHasFile ==
    ASSUME MaxBuild <= ClaimTimeout, MaxCrashes = 0
    PROVE  Spec => []DoneRowHasItsFile
<1>1. Init => ShelfInv
    BY ShelfInit
<1>2. ShelfInv /\ [Next]_vars => ShelfInv'
    BY ExclusiveStep, VictimsStep, PathStep, UnlinksStep, BuiltStep, ShelfStep DEF ShelfInv
<1>3. ShelfInv => DoneRowHasItsFile
    BY DEF ShelfInv
<1> QED BY <1>1, <1>2, <1>3, PTL DEF Spec

-----------------------------------------------------------------------------
(* The refinement: every step of the threads, the sweeps and the accounts   *)
(* is one step of JobQueue or none.                                         *)

LEMMA PromiseStep ==
    ASSUME MailInv, [Next]_vars
    PROVE  [Promise!QueueNext]_(Promise!queueVars)
<1> USE DEF MailInv, FileInv
<1>1. ASSUME NEW j \in Jobs, QueueExport(j) PROVE Promise!Submit(j)
    BY <1>1 DEF QueueExport, Promise!Submit, Cardinality, Promise!Cardinality
<1>2. ASSUME NEW w \in Workers, Claim(w) PROVE \E j \in Jobs : Promise!Start(j)
    BY <1>2 DEF Claim, Claimable, Promise!Start
<1>3. ASSUME NEW w \in Workers, RecordDone(w) \/ RecordFailed(w)
      PROVE  \E j \in Jobs, outcome \in Promise!Outcomes : Promise!Settle(j, outcome)
    BY <1>3, SettlingStep DEF Promise!Settle, Promise!Outcomes
<1>4. ASSUME NEW w \in Workers, Notify(w) PROVE \E j \in Jobs : Promise!Tell(j)
    <2>1. doing[w] \in Jobs /\ status[doing[w]] \in {"done", "failed"}
        BY <1>4 DEF Notify, NotifiedIsSettled, Exists, Live, ExclusiveInv, TypeOK
    <2>2. Promise!Verdict[status[doing[w]]] = IF status[doing[w]] = "done" THEN "ready" ELSE "failed"
        BY <2>1 DEF Promise!Verdict
    <2>3. Promise!Tell(doing[w])
        BY <1>4, <2>1, <2>2 DEF Notify, rowVars, Promise!Tell, Promise!Outcomes
    <2> QED BY <2>1, <2>3
<1>5. ASSUME \/ \E p \in Sweepers : SweepDelete(p)
             \/ \E u \in Users : DeleteAccount(u)
      PROVE  \E gone \in SUBSET {j \in Jobs : status[j] # "unborn"} : Promise!Withdraw(gone)
    <2>1. PICK gone \in SUBSET Jobs : Deletes(gone)
        BY <1>5, DeletingSteps
    <2>2. gone \in SUBSET {j \in Jobs : status[j] # "unborn"}
        BY <2>1 DEF Deletes
    <2>3. Promise!Withdraw(gone)
        BY <1>5, <2>1, DeletingSteps DEF Deletes, Promise!Withdraw
    <2> QED BY <2>2, <2>3
<1>6. ASSUME UNCHANGED <<status, serial, mailed>> PROVE UNCHANGED Promise!queueVars
    BY <1>6 DEF Promise!queueVars
<1>7. CASE Promise!QueueNext
    BY <1>7
<1>8. CASE ~Promise!QueueNext
    <2>1. /\ ~ \E j \in Jobs : QueueExport(j)
          /\ ~ \E w \in Workers : Claim(w) \/ RecordDone(w) \/ RecordFailed(w) \/ Notify(w)
          /\ ~ \E p \in Sweepers : SweepDelete(p)
          /\ ~ \E u \in Users : DeleteAccount(u)
        BY <1>1, <1>2, <1>3, <1>4, <1>5, <1>8 DEF Promise!QueueNext
    <2> QED BY <1>6, <2>1, QuietSteps, OtherSteps DEF Next, Work, Sweeping
<1> QED BY <1>7, <1>8

\* The drain threads keep the queue's promise: whatever the number of processes, rows are
\* taken first come, first served, an outcome is final, mail repeats it and a deleted row
\* never comes back.
THEOREM QueueKeepsItsPromise ==
    ASSUME MaxBuild <= ClaimTimeout, MaxCrashes = 0
    PROVE  Spec => KeepsThePromise
<1>1. Init => MailInv /\ Promise!QueueInit
    BY MailInit DEF Init, Promise!QueueInit
<1>2. MailInv /\ [Next]_vars => MailInv'
    BY MailStep
<1>3. MailInv /\ [Next]_vars => [Promise!QueueNext]_(Promise!queueVars)
    BY PromiseStep
<1> QED BY <1>1, <1>2, <1>3, PTL DEF Spec, KeepsThePromise, Promise!QueueSpec

=============================================================================
