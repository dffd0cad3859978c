-------------------------- MODULE ExportJobsProofs --------------------------
(***************************************************************************)
(* What TLAPS proves of ExportJobs for every number of jobs, threads,      *)
(* crashes and every duration.                                             *)
(***************************************************************************)
EXTENDS ExportJobs, FiniteSetTheorems, TLAPS

LEMMA SerialType ==
    ASSUME IsFiniteSet(Jobs)
    PROVE  Cardinality({k \in Jobs : status[k] # "unborn"}) \in Nat
BY FS_Subset, FS_CardinalityType

-----------------------------------------------------------------------------
(* Type correctness. *)

LEMMA TypeInit == Init => TypeOK
BY ExportAssumption DEF Init, TypeOK, Live, Working, NoExpiry

LEMMA TypeStep == TypeOK /\ [Next]_vars => TypeOK'
<1> SUFFICES ASSUME TypeOK, [Next]_vars PROVE TypeOK'
    OBVIOUS
<1> USE ExportAssumption
<1>1. ASSUME NEW j \in Jobs, QueueExport(j) PROVE TypeOK'
    <2>1. serial' \in [Jobs -> Nat]
        BY <1>1, SerialType DEF QueueExport, TypeOK
    <2> QED BY <1>1, <2>1 DEF QueueExport, TypeOK, workVars, sweepVars, Live
<1>2. ASSUME NEW w \in Workers, Wake(w) PROVE TypeOK'
    BY <1>2 DEF Wake, TypeOK, rowVars, sweepVars, Working
<1>3. ASSUME NEW w \in Workers, Requeue(w) PROVE TypeOK'
    BY <1>3 DEF Requeue, TypeOK, rowVars, sweepVars, Working, Live
<1>4. ASSUME NEW w \in Workers, Claim(w) PROVE TypeOK'
    BY <1>4 DEF Claim, TypeOK, rowVars, sweepVars, Working, Live
<1>5. ASSUME NEW w \in Workers, Drained(w) PROVE TypeOK'
    BY <1>5 DEF Drained, TypeOK, rowVars, sweepVars, Working
<1>6. ASSUME NEW w \in Workers, Resolve(w) PROVE TypeOK'
    BY <1>6 DEF Resolve, TypeOK, rowVars, sweepVars, Working
<1>7. ASSUME NEW w \in Workers, OpenArtifact(w) PROVE TypeOK'
    BY <1>7 DEF OpenArtifact, TypeOK, rowVars, sweepVars, Working
<1>8. ASSUME NEW w \in Workers, CloseArtifact(w) PROVE TypeOK'
    BY <1>8 DEF CloseArtifact, TypeOK, rowVars, sweepVars, Working
<1>9. ASSUME NEW w \in Workers, RecordDone(w) PROVE TypeOK'
    BY <1>9 DEF RecordDone, TypeOK, rowVars, sweepVars, Working, Live, LifeOnDisk
<1>10. ASSUME NEW w \in Workers, BuildRaises(w) PROVE TypeOK'
    BY <1>10 DEF BuildRaises, TypeOK, rowVars, sweepVars, Working
<1>11. ASSUME NEW w \in Workers, RecordFailed(w) PROVE TypeOK'
    BY <1>11 DEF RecordFailed, TypeOK, rowVars, sweepVars, Working, Live
<1>12. ASSUME NEW w \in Workers, Notify(w) PROVE TypeOK'
    BY <1>12 DEF Notify, TypeOK, rowVars, sweepVars, Working
<1>13. ASSUME NEW w \in Workers, RowVanished(w) PROVE TypeOK'
    BY <1>13 DEF RowVanished, TypeOK, rowVars, sweepVars, Working
<1>14. ASSUME NEW w \in Workers, Crash(w) PROVE TypeOK'
    BY <1>14 DEF Crash, TypeOK, rowVars, sweepVars, Working
<1>15. ASSUME NEW p \in Sweepers, Sweeping(p) \/ SweepCrash(p) PROVE TypeOK'
    <2>1. ASSUME SweepSelect(p) PROVE TypeOK'
        <3> DEFINE found == {j \in Jobs : Sweepable(j)}
        <3> HIDE DEF found
        <3>1. found \in SUBSET Jobs /\ {j \in found : hasPath[j]} \in SUBSET Jobs
            BY DEF found
        <3>2. /\ victims' = [victims EXCEPT ![p] = found]
              /\ unlinks' = [unlinks EXCEPT ![p] = {j \in found : hasPath[j]}]
            BY <2>1 DEF SweepSelect, found
        <3> QED BY <2>1, <3>1, <3>2 DEF SweepSelect, TypeOK, rowVars, workVars
    <2>2. ASSUME SweepUnlink(p) PROVE TypeOK'
        BY <2>2 DEF SweepUnlink, TypeOK, rowVars, workVars
    <2>3. ASSUME SweepDelete(p) \/ SweepCrash(p) PROVE TypeOK'
        BY <2>3 DEF SweepDelete, SweepCrash, SweepEnds, TypeOK, rowVars, workVars, Live
    <2> QED BY <1>15, <2>1, <2>2, <2>3 DEF Sweeping
<1>16. ASSUME NEW u \in Users, DeleteAccount(u) PROVE TypeOK'
    BY <1>16 DEF DeleteAccount, TypeOK, workVars, sweepVars, Live
<1>17. ASSUME Tick PROVE TypeOK'
    BY <1>17 DEF Tick, TypeOK, sweepVars, Bump, NoExpiry
<1>18. CASE UNCHANGED vars
    BY <1>18 DEF vars, rowVars, workVars, sweepVars, TypeOK
<1> QED
    BY <1>1, <1>2, <1>3, <1>4, <1>5, <1>6, <1>7, <1>8, <1>9, <1>10, <1>11, <1>12,
       <1>13, <1>14, <1>15, <1>16, <1>17, <1>18 DEF Next, Work

\* Every variable keeps its type, whatever the threads, the sweep and the accounts do.
THEOREM TypeCorrect == Spec => []TypeOK
BY TypeInit, TypeStep, PTL DEF Spec

-----------------------------------------------------------------------------
(* A live build is never read as abandoned.                                 *)
(* The claim of a running row is never older than any of its builders: a    *)
(* thread starts its own clock with its claim, later claims only make the   *)
(* row younger, and both clocks advance with the same tick.                 *)

ClaimIsYoung ==
    \A w \in Workers, j \in Jobs :
        Builds(w, j) /\ status[j] = "running" => claimAge[j] <= spent[w]

LEMMA YoungInit == Init => ClaimIsYoung
BY DEF Init, ClaimIsYoung, Builds, Working

LEMMA YoungStep == TypeOK /\ ClaimIsYoung /\ [Next]_vars => ClaimIsYoung'
<1> SUFFICES ASSUME TypeOK, ClaimIsYoung, [Next]_vars,
                    NEW v \in Workers, NEW i \in Jobs,
                    Builds(v, i)', status'[i] = "running"
             PROVE  claimAge'[i] <= spent'[v]
    BY DEF ClaimIsYoung
<1> USE ExportAssumption DEF Builds, Working
<1>1. ASSUME NEW j \in Jobs, QueueExport(j) PROVE claimAge'[i] <= spent'[v]
    BY <1>1 DEF QueueExport, TypeOK, workVars, ClaimIsYoung
<1>2. ASSUME NEW w \in Workers, Wake(w) PROVE claimAge'[i] <= spent'[v]
    BY <1>2 DEF Wake, TypeOK, rowVars, ClaimIsYoung
<1>3. ASSUME NEW w \in Workers, Requeue(w) PROVE claimAge'[i] <= spent'[v]
    BY <1>3 DEF Requeue, TypeOK, ClaimIsYoung
<1>4. ASSUME NEW w \in Workers, Claim(w) PROVE claimAge'[i] <= spent'[v]
    <2>1. PICK j \in Jobs : /\ status' = [status EXCEPT ![j] = "running"]
                            /\ claimAge' = [claimAge EXCEPT ![j] = 0]
                            /\ doing' = [doing EXCEPT ![w] = j]
        BY <1>4 DEF Claim
    <2>2. CASE i = j
        <3>1. claimAge'[i] = 0 BY <2>1, <2>2 DEF TypeOK
        <3>2. spent'[v] \in Nat BY <1>4 DEF Claim, TypeOK
        <3> QED BY <3>1, <3>2
    <2>3. CASE i # j
        BY <1>4, <2>1, <2>3 DEF Claim, TypeOK, ClaimIsYoung
    <2> QED BY <2>2, <2>3
<1>5. ASSUME NEW w \in Workers,
             Drained(w) \/ Resolve(w) \/ OpenArtifact(w) \/ CloseArtifact(w)
             \/ BuildRaises(w) \/ Notify(w) \/ RowVanished(w) \/ Crash(w)
      PROVE  claimAge'[i] <= spent'[v]
    BY <1>5 DEF Drained, Resolve, OpenArtifact, CloseArtifact, BuildRaises, Notify,
                RowVanished, Crash, TypeOK, rowVars, ClaimIsYoung
<1>6. ASSUME NEW w \in Workers, RecordDone(w) \/ RecordFailed(w)
      PROVE  claimAge'[i] <= spent'[v]
    BY <1>6 DEF RecordDone, RecordFailed, TypeOK, ClaimIsYoung
<1>7. ASSUME NEW p \in Sweepers, Sweeping(p) \/ SweepCrash(p)
      PROVE  claimAge'[i] <= spent'[v]
    BY <1>7 DEF Sweeping, SweepSelect, SweepUnlink, SweepDelete, SweepCrash, SweepEnds,
                TypeOK, rowVars, workVars, ClaimIsYoung
<1>8. ASSUME NEW u \in Users, DeleteAccount(u) PROVE claimAge'[i] <= spent'[v]
    BY <1>8 DEF DeleteAccount, TypeOK, workVars, ClaimIsYoung
<1>9. ASSUME Tick PROVE claimAge'[i] <= spent'[v]
    <2>1. claimAge[i] <= spent[v]
        BY <1>9 DEF Tick, ClaimIsYoung
    <2>2. claimAge'[i] = Bump(claimAge[i], ClaimTimeout) /\ spent'[v] = spent[v] + 1
        BY <1>9 DEF Tick
    <2> QED BY <2>1, <2>2 DEF Bump, TypeOK
<1>10. CASE UNCHANGED vars
    BY <1>10 DEF vars, rowVars, workVars, ClaimIsYoung
<1> QED
    BY <1>1, <1>2, <1>3, <1>4, <1>5, <1>6, <1>7, <1>8, <1>9, <1>10 DEF Next, Work

LEMMA YoungEnough ==
    ASSUME MaxBuild <= ClaimTimeout
    PROVE  TypeOK /\ ClaimIsYoung => LiveBuildNeverLooksAbandoned
<1> SUFFICES ASSUME TypeOK, ClaimIsYoung, NEW w \in Workers, NEW j \in Jobs,
                    Builds(w, j), LooksAbandoned(j)
             PROVE  FALSE
    BY DEF LiveBuildNeverLooksAbandoned
<1>1. claimAge[j] <= spent[w] /\ claimAge[j] > ClaimTimeout
    BY DEF ClaimIsYoung, LooksAbandoned
<1>2. claimAge[j] \in Nat /\ spent[w] \in Nat /\ spent[w] <= MaxBuild
    BY ExportAssumption DEF TypeOK
<1> QED BY <1>1, <1>2, ExportAssumption

\* As long as no build outlasts CLAIM_TIMEOUT, requeue_abandoned_jobs never reads the
\* claim of a thread that is still building, for any number of processes and crashes.
THEOREM LiveClaimsAreSafe ==
    ASSUME MaxBuild <= ClaimTimeout
    PROVE  Spec => []LiveBuildNeverLooksAbandoned
<1>1. Init => TypeOK /\ ClaimIsYoung
    BY TypeInit, YoungInit
<1>2. TypeOK /\ ClaimIsYoung /\ [Next]_vars => (TypeOK /\ ClaimIsYoung)'
    BY TypeStep, YoungStep
<1>3. TypeOK /\ ClaimIsYoung => LiveBuildNeverLooksAbandoned
    BY YoungEnough
<1> QED BY <1>1, <1>2, <1>3, PTL DEF Spec

-----------------------------------------------------------------------------
(* While no process dies, no job is ever built twice at a time.             *)
(* Every running row is in the hands of the one thread that claimed it, so  *)
(* nothing looks abandoned, no thread has anything to requeue, and a row is *)
(* only claimed out of the queue.                                           *)

NothingRequeued ==
    \A w \in Workers : stuck[w] = {} /\ pc[w] # "requeue"

BuilderHoldsTheClaim ==
    \A w \in Workers, j \in Jobs :
        Builds(w, j) => holder[j] = w /\ status[j] \in {"running", "gone"}

RunningRowHasABuilder ==
    \A j \in Jobs : status[j] = "running" => \E w \in Workers : Builds(w, j)

ExclusiveInv ==
    /\ TypeOK
    /\ ClaimIsYoung
    /\ NothingRequeued
    /\ BuilderHoldsTheClaim
    /\ RunningRowHasABuilder

LEMMA ExclusiveInit == Init => ExclusiveInv
BY TypeInit, YoungInit
   DEF Init, ExclusiveInv, NothingRequeued, BuilderHoldsTheClaim,
       RunningRowHasABuilder, Builds, Working

LEMMA NothingLooksAbandoned ==
    ASSUME MaxBuild <= ClaimTimeout, ExclusiveInv
    PROVE  \A j \in Jobs : ~LooksAbandoned(j)
BY YoungEnough DEF ExclusiveInv, LiveBuildNeverLooksAbandoned, LooksAbandoned,
                   RunningRowHasABuilder

LEMMA NothingRequeuedStep ==
    ASSUME MaxBuild <= ClaimTimeout, ExclusiveInv, [Next]_vars
    PROVE  NothingRequeued'
<1> USE DEF NothingRequeued
<1>1. ASSUME NEW w \in Workers, Wake(w) PROVE NothingRequeued'
    <2>1. {j \in Jobs : LooksAbandoned(j)} = {}
        BY NothingLooksAbandoned
    <2> QED BY <1>1, <2>1 DEF Wake, ExclusiveInv, TypeOK
<1>2. ASSUME NEW w \in Workers, Requeue(w) PROVE NothingRequeued'
    BY <1>2 DEF Requeue, ExclusiveInv
<1>3. ASSUME NEW w \in Workers,
             \/ Claim(w) \/ Drained(w) \/ Resolve(w) \/ OpenArtifact(w) \/ CloseArtifact(w)
             \/ RecordDone(w) \/ BuildRaises(w) \/ RecordFailed(w) \/ Notify(w)
             \/ RowVanished(w) \/ Crash(w)
      PROVE  NothingRequeued'
    BY <1>3 DEF Claim, Drained, Resolve, OpenArtifact, CloseArtifact, RecordDone,
                BuildRaises, RecordFailed, Notify, RowVanished, Crash, ExclusiveInv, TypeOK
<1>4. ASSUME \/ \E p \in Sweepers : Sweeping(p) \/ SweepCrash(p)
             \/ Tick \/ UNCHANGED vars
             \/ \E j \in Jobs : QueueExport(j)
             \/ \E u \in Users : DeleteAccount(u)
      PROVE  NothingRequeued'
    BY <1>4 DEF Sweeping, SweepSelect, SweepUnlink, SweepDelete, SweepCrash, SweepEnds,
                Tick, vars, QueueExport, DeleteAccount, workVars, ExclusiveInv
<1> QED BY <1>1, <1>2, <1>3, <1>4 DEF Next, Work

LEMMA HoldsTheClaimStep ==
    ASSUME ExclusiveInv, [Next]_vars
    PROVE  BuilderHoldsTheClaim'
<1> SUFFICES ASSUME NEW v \in Workers, NEW i \in Jobs, Builds(v, i)'
             PROVE  holder'[i] = v /\ status'[i] \in {"running", "gone"}
    BY DEF BuilderHoldsTheClaim
<1> USE DEF Builds, Working
<1> DEFINE Goal == holder'[i] = v /\ status'[i] \in {"running", "gone"}
<1>1. ASSUME NEW j \in Jobs, QueueExport(j) PROVE Goal
    BY <1>1 DEF QueueExport, workVars, ExclusiveInv, TypeOK, BuilderHoldsTheClaim
<1>2. ASSUME NEW w \in Workers, Requeue(w) PROVE Goal
    BY <1>2 DEF Requeue, ExclusiveInv, NothingRequeued
<1>3. ASSUME NEW w \in Workers, Claim(w) PROVE Goal
    <2>1. PICK j \in Jobs : /\ status[j] = "queued"
                            /\ status' = [status EXCEPT ![j] = "running"]
                            /\ holder' = [holder EXCEPT ![j] = w]
                            /\ doing' = [doing EXCEPT ![w] = j]
        BY <1>3 DEF Claim, Claimable
    <2>2. CASE v = w
        BY <2>1, <2>2 DEF ExclusiveInv, TypeOK
    <2>3. CASE v # w
        <3>1. Builds(v, i)
            BY <1>3, <2>1, <2>3 DEF Claim, ExclusiveInv, TypeOK
        <3>2. i # j
            BY <2>1, <3>1 DEF ExclusiveInv, BuilderHoldsTheClaim
        <3> QED BY <2>1, <3>1, <3>2 DEF ExclusiveInv, TypeOK, BuilderHoldsTheClaim
    <2> QED BY <2>2, <2>3
<1>4. ASSUME NEW w \in Workers,
             \/ Wake(w) \/ Drained(w) \/ Resolve(w) \/ OpenArtifact(w) \/ CloseArtifact(w)
             \/ BuildRaises(w) \/ Notify(w) \/ RowVanished(w) \/ Crash(w)
      PROVE  Goal
    BY <1>4 DEF Wake, Drained, Resolve, OpenArtifact, CloseArtifact, BuildRaises, Notify,
                RowVanished, Crash, rowVars, ExclusiveInv, TypeOK, BuilderHoldsTheClaim
<1>5. ASSUME NEW w \in Workers, RecordDone(w) \/ RecordFailed(w) PROVE Goal
    <2>1. v # w /\ Builds(v, i) /\ Builds(w, doing[w])
        BY <1>5 DEF RecordDone, RecordFailed, ExclusiveInv, TypeOK
    <2>2. doing[w] # i
        BY <2>1 DEF ExclusiveInv, BuilderHoldsTheClaim
    <2> QED BY <1>5, <2>1, <2>2
            DEF RecordDone, RecordFailed, ExclusiveInv, TypeOK, BuilderHoldsTheClaim
<1>6. ASSUME \/ \E p \in Sweepers : Sweeping(p) \/ SweepCrash(p)
             \/ Tick \/ UNCHANGED vars
             \/ \E u \in Users : DeleteAccount(u)
      PROVE  Goal
    BY <1>6 DEF Sweeping, SweepSelect, SweepUnlink, SweepDelete, SweepCrash, SweepEnds,
                Tick, vars, DeleteAccount, rowVars, workVars, ExclusiveInv, TypeOK,
                BuilderHoldsTheClaim
<1> QED BY <1>1, <1>2, <1>3, <1>4, <1>5, <1>6 DEF Next, Work

LEMMA HasABuilderStep ==
    ASSUME MaxCrashes = 0, ExclusiveInv, [Next]_vars
    PROVE  RunningRowHasABuilder'
<1> SUFFICES ASSUME NEW i \in Jobs, status'[i] = "running"
             PROVE  \E w \in Workers : Builds(w, i)'
    BY DEF RunningRowHasABuilder
<1> USE ExportAssumption DEF Builds, Working
<1>1. ASSUME NEW w \in Workers, Claim(w) PROVE \E v \in Workers : Builds(v, i)'
    <2>1. PICK j \in Jobs : /\ status' = [status EXCEPT ![j] = "running"]
                            /\ doing' = [doing EXCEPT ![w] = j]
        BY <1>1 DEF Claim
    <2>2. CASE i = j
        <3>1. Builds(w, i)' BY <1>1, <2>1, <2>2 DEF Claim, ExclusiveInv, TypeOK
        <3> QED BY <3>1
    <2>3. CASE i # j
        <3>1. PICK v \in Workers : Builds(v, i)
            BY <2>1, <2>3 DEF ExclusiveInv, TypeOK, RunningRowHasABuilder
        <3>2. v # w BY <1>1, <3>1 DEF Claim
        <3>3. Builds(v, i)'
            BY <1>1, <2>1, <3>1, <3>2 DEF Claim, ExclusiveInv, TypeOK
        <3> QED BY <3>3
    <2> QED BY <2>2, <2>3
<1>2. ASSUME ~ \E w \in Workers : Claim(w) PROVE \E v \in Workers : Builds(v, i)'
    <2>1. status[i] = "running"
        <3>1. ASSUME NEW w \in Workers, Work(w) PROVE status[i] = "running"
            BY <1>2, <3>1 DEF Work, Wake, Requeue, Drained, Resolve, OpenArtifact,
               CloseArtifact, RecordDone, BuildRaises, RecordFailed, Notify, RowVanished,
               rowVars, ExclusiveInv, TypeOK
        <3>2. ASSUME NEW p \in Sweepers, Sweeping(p) \/ SweepCrash(p)
              PROVE  status[i] = "running"
            BY <3>2 DEF Sweeping, SweepSelect, SweepUnlink, SweepDelete, SweepCrash, SweepEnds,
               rowVars, ExclusiveInv, TypeOK
        <3>3. ASSUME \/ Tick \/ UNCHANGED vars
                     \/ \E j \in Jobs : QueueExport(j)
                     \/ \E u \in Users : DeleteAccount(u)
                     \/ \E w \in Workers : Crash(w)
              PROVE  status[i] = "running"
            BY <3>3 DEF Tick, vars, rowVars, QueueExport, DeleteAccount, Crash,
               ExclusiveInv, TypeOK
        <3> QED BY <3>1, <3>2, <3>3 DEF Next
    <2>2. PICK v \in Workers : Builds(v, i)
        BY <2>1 DEF ExclusiveInv, RunningRowHasABuilder
    <2>3. ASSUME NEW w \in Workers, Work(w) PROVE Builds(v, i)'
        <3>1. CASE w # v
            BY <1>2, <2>2, <2>3, <3>1 DEF Work, Wake, Requeue, Drained, Resolve,
               OpenArtifact, CloseArtifact, RecordDone, BuildRaises, RecordFailed, Notify,
               RowVanished, ExclusiveInv, TypeOK
        <3>2. CASE w = v
            <4>1. ~RowVanished(v)
                BY <2>1, <2>2 DEF RowVanished, Exists, Live
            <4>2. ~RecordDone(v) /\ ~RecordFailed(v)
                BY <2>2 DEF RecordDone, RecordFailed, ExclusiveInv, TypeOK
            <4> QED BY <1>2, <2>2, <2>3, <3>2, <4>1, <4>2 DEF Work, Wake, Requeue, Drained,
                Resolve, OpenArtifact, CloseArtifact, BuildRaises, Notify,
                ExclusiveInv, TypeOK
        <3> QED BY <3>1, <3>2
    <2>4. ASSUME \/ \E p \in Sweepers : Sweeping(p) \/ SweepCrash(p)
                 \/ Tick \/ UNCHANGED vars
                 \/ \E j \in Jobs : QueueExport(j)
                 \/ \E u \in Users : DeleteAccount(u)
          PROVE  Builds(v, i)'
        BY <2>2, <2>4 DEF Sweeping, SweepSelect, SweepUnlink, SweepDelete, SweepCrash, SweepEnds,
                Tick, vars, workVars, QueueExport, DeleteAccount
    <2>5. ~ \E w \in Workers : Crash(w)
        BY DEF Crash, ExclusiveInv, TypeOK
    <2> QED BY <2>3, <2>4, <2>5, <2>2 DEF Next
<1> QED BY <1>1, <1>2

LEMMA ExclusiveStep ==
    ASSUME MaxBuild <= ClaimTimeout, MaxCrashes = 0
    PROVE  ExclusiveInv /\ [Next]_vars => ExclusiveInv'
BY TypeStep, YoungStep, NothingRequeuedStep, HoldsTheClaimStep, HasABuilderStep
   DEF ExclusiveInv

LEMMA OneBuilder == ExclusiveInv => OneBuilderPerJob
BY DEF ExclusiveInv, BuilderHoldsTheClaim, OneBuilderPerJob

\* With builds shorter than CLAIM_TIMEOUT and no process dying, the atomic claim keeps
\* any number of processes from ever building one job at the same time.
THEOREM NoDoubleBuildWithoutCrash ==
    ASSUME MaxBuild <= ClaimTimeout, MaxCrashes = 0
    PROVE  Spec => []OneBuilderPerJob
<1>1. Init => ExclusiveInv
    BY ExclusiveInit
<1>2. ExclusiveInv /\ [Next]_vars => ExclusiveInv'
    BY ExclusiveStep
<1>3. ExclusiveInv => OneBuilderPerJob
    BY OneBuilder
<1> QED BY <1>1, <1>2, <1>3, PTL DEF Spec

-----------------------------------------------------------------------------
(* Under the same premise an outcome is final: a status only changes to an  *)
(* outcome in the hands of the job's builder, whose row is running, and     *)
(* only a requeue or a claim could take it back.                            *)

LEMMA FinalStep ==
    ASSUME ExclusiveInv, [Next]_vars, NEW i \in Jobs, status[i] \in {"done", "failed"}
    PROVE  status'[i] \in {status[i], "gone"}
<1>1. ASSUME NEW j \in Jobs, QueueExport(j) PROVE status'[i] = status[i]
    BY <1>1 DEF QueueExport, ExclusiveInv, TypeOK
<1>2. ASSUME NEW w \in Workers, Requeue(w) PROVE status'[i] = status[i]
    BY <1>2 DEF Requeue, ExclusiveInv, NothingRequeued
<1>3. ASSUME NEW w \in Workers, Claim(w) PROVE status'[i] = status[i]
    BY <1>3 DEF Claim, Claimable, ExclusiveInv, TypeOK
<1>4. ASSUME NEW w \in Workers,
             \/ Wake(w) \/ Drained(w) \/ Resolve(w) \/ OpenArtifact(w) \/ CloseArtifact(w)
             \/ BuildRaises(w) \/ Notify(w) \/ RowVanished(w) \/ Crash(w)
      PROVE  status'[i] = status[i]
    BY <1>4 DEF Wake, Drained, Resolve, OpenArtifact, CloseArtifact, BuildRaises, Notify,
                RowVanished, Crash, rowVars
<1>5. ASSUME NEW w \in Workers, RecordDone(w) \/ RecordFailed(w)
      PROVE  status'[i] = status[i]
    <2>1. doing[w] \in Jobs /\ Builds(w, doing[w])
        BY <1>5 DEF RecordDone, RecordFailed, ExclusiveInv, TypeOK, Builds, Working
    <2>2. doing[w] # i
        BY <2>1 DEF ExclusiveInv, BuilderHoldsTheClaim
    <2> QED BY <1>5, <2>2 DEF RecordDone, RecordFailed, ExclusiveInv, TypeOK
<1>6. ASSUME \/ \E p \in Sweepers : Sweeping(p) \/ SweepCrash(p)
             \/ Tick \/ UNCHANGED vars
             \/ \E u \in Users : DeleteAccount(u)
      PROVE  status'[i] \in {status[i], "gone"}
    BY <1>6 DEF Sweeping, SweepSelect, SweepUnlink, SweepDelete, SweepCrash, Tick, vars,
                DeleteAccount, rowVars, ExclusiveInv, TypeOK
<1> QED BY <1>1, <1>2, <1>3, <1>4, <1>5, <1>6 DEF Next, Work

\* A job that is done or failed never changes its outcome: nothing puts it back in the
\* queue or builds it again, however many processes share the table.
THEOREM OutcomeStays ==
    ASSUME MaxBuild <= ClaimTimeout, MaxCrashes = 0
    PROVE  Spec => OutcomeIsFinal
<1>1. Init => ExclusiveInv
    BY ExclusiveInit
<1>2. ExclusiveInv /\ [Next]_vars => ExclusiveInv'
    BY ExclusiveStep
<1>3. ExclusiveInv /\ [Next]_vars =>
        [\A j \in Jobs : status[j] \in {"done", "failed"} =>
            status'[j] \in {status[j], "gone"}]_vars
    BY FinalStep
<1> QED BY <1>1, <1>2, <1>3, PTL DEF Spec, OutcomeIsFinal

-----------------------------------------------------------------------------
(* And the file of a finished job is whole: a file is only half written     *)
(* while its one builder is at it or has failed, and a builder only records *)
(* a success with its file closed.                                          *)

HalfWrittenIsNotDone == \A j \in Jobs : file[j] = "partial" => status[j] # "done"

ClosedBeforeRecorded ==
    \A w \in Workers : pc[w] = "record" => file[doing[w]] # "partial"

FileInv == ExclusiveInv /\ HalfWrittenIsNotDone /\ ClosedBeforeRecorded

LEMMA HalfWrittenStep ==
    ASSUME FileInv, [Next]_vars
    PROVE  HalfWrittenIsNotDone'
<1> SUFFICES ASSUME NEW i \in Jobs, file'[i] = "partial", status'[i] = "done"
             PROVE  FALSE
    BY DEF HalfWrittenIsNotDone
<1>1. ASSUME NEW w \in Workers, RecordDone(w) PROVE FALSE
    <2>1. file[i] = "partial" /\ doing[w] # i
        BY <1>1 DEF RecordDone, FileInv, ClosedBeforeRecorded
    <2>2. status[i] = "done"
        BY <1>1, <2>1 DEF RecordDone, FileInv, ExclusiveInv, TypeOK
    <2> QED BY <2>1, <2>2 DEF FileInv, HalfWrittenIsNotDone
<1>2. ASSUME NEW w \in Workers, OpenArtifact(w) PROVE FALSE
    <2>1. Builds(w, doing[w]) /\ doing[w] \in Jobs /\ status[i] = "done"
        BY <1>2 DEF OpenArtifact, rowVars, FileInv, ExclusiveInv, TypeOK, Builds, Working
    <2>2. doing[w] # i
        BY <2>1 DEF FileInv, ExclusiveInv, BuilderHoldsTheClaim
    <2>3. file[i] = "partial"
        BY <1>2, <2>2 DEF OpenArtifact, FileInv, ExclusiveInv, TypeOK
    <2> QED BY <2>1, <2>3 DEF FileInv, HalfWrittenIsNotDone
<1>3. ASSUME ~ \E w \in Workers : RecordDone(w) \/ OpenArtifact(w) PROVE FALSE
    <2>1. status[i] = "done" /\ file[i] = "partial"
        <3>1. ASSUME NEW w \in Workers, Work(w) \/ Crash(w)
              PROVE  status[i] = "done" /\ file[i] = "partial"
            BY <1>3, <3>1 DEF Work, Wake, Requeue, Claim, Drained, Resolve, CloseArtifact,
               BuildRaises, RecordFailed, Notify, RowVanished, Crash, rowVars,
               FileInv, ExclusiveInv, TypeOK
        <3>2. ASSUME \/ \E p \in Sweepers : Sweeping(p) \/ SweepCrash(p)
                     \/ Tick \/ UNCHANGED vars
                     \/ \E j \in Jobs : QueueExport(j)
                     \/ \E u \in Users : DeleteAccount(u)
              PROVE  status[i] = "done" /\ file[i] = "partial"
            BY <3>2 DEF Sweeping, SweepSelect, SweepUnlink, SweepDelete, SweepCrash, Tick,
               vars, rowVars, QueueExport, DeleteAccount, FileInv, ExclusiveInv, TypeOK
        <3> QED BY <3>1, <3>2 DEF Next
    <2> QED BY <2>1 DEF FileInv, HalfWrittenIsNotDone
<1> QED BY <1>1, <1>2, <1>3

LEMMA ClosedStep ==
    ASSUME FileInv, [Next]_vars
    PROVE  ClosedBeforeRecorded'
<1> SUFFICES ASSUME NEW v \in Workers, pc'[v] = "record"
             PROVE  file'[doing'[v]] # "partial"
    BY DEF ClosedBeforeRecorded
<1> USE DEF FileInv, ExclusiveInv, TypeOK
<1>1. ASSUME NEW w \in Workers, OpenArtifact(w) PROVE file'[doing'[v]] # "partial"
    <2>1. v # w /\ pc[v] = "record" /\ doing' = doing
        BY <1>1 DEF OpenArtifact
    <2>2. Builds(v, doing[v]) /\ Builds(w, doing[w]) /\ doing[v] \in Jobs
        BY <1>1, <2>1 DEF OpenArtifact, Builds, Working
    <2>3. doing[v] # doing[w]
        BY <2>1, <2>2, OneBuilder DEF OneBuilderPerJob
    <2> QED BY <1>1, <2>1, <2>2, <2>3 DEF OpenArtifact, ClosedBeforeRecorded
<1>2. ASSUME NEW w \in Workers, CloseArtifact(w) PROVE file'[doing'[v]] # "partial"
    <2>1. CASE v = w
        <3>1. doing[w] \in Jobs /\ Builds(w, doing[w])
            BY <1>2 DEF CloseArtifact, Builds, Working
        <3>2. ~ \E u \in Workers \ {w} : pc[u] = "write" /\ doing[u] = doing[w]
            BY <3>1, OneBuilder DEF OneBuilderPerJob, Builds, Working
        <3> QED BY <1>2, <2>1, <3>1, <3>2 DEF CloseArtifact
    <2>2. CASE v # w
        BY <1>2, <2>2 DEF CloseArtifact, ClosedBeforeRecorded, Working
    <2> QED BY <2>1, <2>2
<1>3. ASSUME NEW w \in Workers,
             \/ Wake(w) \/ Requeue(w) \/ Claim(w) \/ Drained(w) \/ Resolve(w)
             \/ RecordDone(w) \/ BuildRaises(w) \/ RecordFailed(w) \/ Notify(w)
             \/ RowVanished(w) \/ Crash(w)
      PROVE  file'[doing'[v]] # "partial"
    BY <1>3 DEF Wake, Requeue, Claim, Drained, Resolve, RecordDone, BuildRaises,
                RecordFailed, Notify, RowVanished, Crash, ClosedBeforeRecorded
<1>4. ASSUME \/ \E p \in Sweepers : Sweeping(p) \/ SweepCrash(p)
             \/ Tick \/ UNCHANGED vars
             \/ \E j \in Jobs : QueueExport(j)
             \/ \E u \in Users : DeleteAccount(u)
      PROVE  file'[doing'[v]] # "partial"
    <2>1. pc[v] = "record" /\ doing' = doing
        BY <1>4 DEF Sweeping, SweepSelect, SweepUnlink, SweepDelete, SweepCrash, Tick, vars,
                    workVars, QueueExport, DeleteAccount
    <2>2. doing[v] \in Jobs /\ file[doing[v]] # "partial"
        BY <2>1 DEF ClosedBeforeRecorded, Working
    <2>3. file'[doing[v]] \in {file[doing[v]], "absent"}
        <3>1. CASE \E p \in Sweepers : SweepUnlink(p)
            BY <2>2, <3>1 DEF SweepUnlink
        <3>2. CASE ~ \E p \in Sweepers : SweepUnlink(p)
            <4>1. file' = file
                BY <1>4, <3>2 DEF Sweeping, SweepSelect, SweepDelete, SweepCrash, Tick, vars,
                            QueueExport, DeleteAccount
            <4> QED BY <4>1
        <3> QED BY <3>1, <3>2
    <2> QED BY <2>1, <2>2, <2>3
<1> QED BY <1>1, <1>2, <1>3, <1>4 DEF Next, Work

\* The download route never serves a half-written file: every bundle on offer was closed
\* before its row said "done", and nobody opens it again.
THEOREM ServedWhole ==
    ASSUME MaxBuild <= ClaimTimeout, MaxCrashes = 0
    PROVE  Spec => []ServedFileIsWhole
<1>1. Init => FileInv
    BY ExclusiveInit
       DEF FileInv, Init, HalfWrittenIsNotDone, ClosedBeforeRecorded
<1>2. FileInv /\ [Next]_vars => FileInv'
    BY ExclusiveStep, HalfWrittenStep, ClosedStep DEF FileInv
<1>3. FileInv => ServedFileIsWhole
    BY DEF FileInv, HalfWrittenIsNotDone, ServedFileIsWhole, Offered, ExclusiveInv, TypeOK
<1> QED BY <1>1, <1>2, <1>3, PTL DEF Spec

=============================================================================
