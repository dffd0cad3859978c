-------------------------- MODULE BomCheckerProofs --------------------------
(***************************************************************************)
(* What TLAPS proves of BomChecker for every set of files, jobs and checks *)
(* and every number of requests under way.                                 *)
(***************************************************************************)
EXTENDS BomChecker, TLAPS

MadeChecks == {c \in Checks : checkFile[c] # None}

-----------------------------------------------------------------------------
(* The inductive invariant: TypeOK, and that every message on the wire       *)
(* names files that can be picked, jobs that there are and checks that have  *)
(* been made; the page writes down what it finds there.                      *)

Requests(made) ==
    {Run(f) : f \in Files} \cup {Poll(j) : j \in Jobs} \cup {Share(f) : f \in Files}
    \cup {Get(c, "open") : c \in made} \cup {Get(c, "wait") : c \in made}
    \cup {Recheck(c) : c \in made} \cup {Delete(c) : c \in made}

ListOK(m, made) ==
    /\ m = [kind |-> "list", checks |-> m.checks, jobs |-> m.jobs, close |-> m.close]
    /\ m.checks # None => m.checks \subseteq made
    /\ m.jobs # None => DOMAIN m.jobs \subseteq Jobs

AnswerOK(m, made) ==
    /\ m.to \in Requests(made)
    /\ m.to.kind = "run" /\ m.ok =>
           IF "check" \in DOMAIN m.item THEN m.item.check \in made ELSE m.item.job \in Jobs
    /\ m.to.kind = "poll" /\ m.ok /\ m.item.phase = "done" => m.item.check \in made

MessageOK(m, made) ==
    \/ m \in Requests(made)
    \/ m.kind = "list" /\ ListOK(m, made)
    \/ m.kind = "answer" /\ AnswerOK(m, made)

WireOK(wire, made) == \A m \in wire : MessageOK(m, made)

JobsOK ==
    /\ status \in [Jobs -> {"unborn", "queued", "running", "done", "failed"}]
    /\ \A j \in Jobs : status[j] # "unborn" => jobFile[j] # None

BomInv ==
    /\ TypeOK /\ JobsOK
    /\ WireOK(net, MadeChecks)
    /\ listed.checks \subseteq MadeChecks

-----------------------------------------------------------------------------
(* What can be read off a message of each kind.                              *)

LEMMA RequestFacts ==
    ASSUME NEW made, NEW m \in Requests(made)
    PROVE  /\ m.kind \notin {"answer", "list"}
           /\ m.kind = "run" => m.file \in Files
           /\ m.kind = "poll" => m.job \in Jobs
           /\ m.kind \in {"get", "recheck", "delete"} => m.check \in made
BY DEF Requests, Run, Poll, Share, Get, Recheck, Delete

LEMMA MessageFacts ==
    ASSUME NEW m, NEW made, MessageOK(m, made)
    PROVE  /\ m.kind = "list" => ListOK(m, made)
           /\ m.kind = "answer" => AnswerOK(m, made)
           /\ m.kind \notin {"answer", "list"} => m \in Requests(made)
BY RequestFacts DEF MessageOK

\* Once a check is made it stays made, so that what is on the wire stays right.
LEMMA WireGrows ==
    ASSUME NEW wire, NEW made, WireOK(wire, made), NEW more, made \subseteq more,
           NEW added, WireOK(added, more), NEW after, after \subseteq wire \cup added
    PROVE  WireOK(after, more)
<1>1. Requests(made) \subseteq Requests(more)
    BY DEF Requests
<1>2. ASSUME NEW m, MessageOK(m, made) PROVE MessageOK(m, more)
    BY <1>1, <1>2 DEF MessageOK, ListOK, AnswerOK
<1> QED BY <1>2 DEF WireOK

LEMMA SentIsOK ==
    ASSUME NEW made
    PROVE  /\ MessageOK(List(TRUE), made) /\ MessageOK(List(FALSE), made)
           /\ \A f \in Files : MessageOK(Run(f), made) /\ MessageOK(Share(f), made)
           /\ \A j \in Jobs : MessageOK(Poll(j), made)
           /\ \A c \in made :
                 /\ MessageOK(Get(c, "open"), made) /\ MessageOK(Get(c, "wait"), made)
                 /\ MessageOK(Recheck(c), made) /\ MessageOK(Delete(c), made)
<1>1. ListOK(List(TRUE), made) /\ ListOK(List(FALSE), made)
    BY DEF ListOK, List
<1>2. List(TRUE).kind = "list" /\ List(FALSE).kind = "list"
    BY DEF List
<1> QED BY <1>1, <1>2 DEF MessageOK, Requests

-----------------------------------------------------------------------------
LEMMA InitBom == Init => BomInv
<1> SUFFICES ASSUME Init PROVE BomInv
    OBVIOUS
<1>1. status = [j \in Jobs |-> "unborn"]
    BY DEF Init, Queue!QueueInit
<1>2. listed.checks = {} /\ DOMAIN listed.jobs = {}
    BY DEF Init
<1>3. \A j \in Jobs : status[j] # "done"
    BY <1>1
<1>4. 0 \in 0..MaxLosses
    BY BomAssumption
<1>5. TypeOK
    BY <1>2, <1>3, <1>4 DEF Init, TypeOK
<1> QED BY <1>1, <1>5 DEF Init, BomInv, JobsOK, WireOK

-----------------------------------------------------------------------------
(* The server.                                                               *)

\* Reading a file makes one check more; the others keep their file.
LEMMA CheckIsMade ==
    ASSUME BomInv, NEW c \in Checks, NEW f \in Files, NextCheck(c), MakeCheck(c, f)
    PROVE  /\ checkFile' \in [Checks -> Files \cup {None}]
           /\ checkFile'[c] = f /\ MadeChecks' = MadeChecks \cup {c}
           /\ \A d \in MadeChecks : checkFile'[d] = checkFile[d]
<1>1. checkFile \in [Checks -> Files \cup {None}] /\ checkFile[c] = None
    BY DEF BomInv, TypeOK, NextCheck
<1>2. checkFile' = [checkFile EXCEPT ![c] = f]
    BY DEF MakeCheck
<1>3. f # None
    BY BomAssumption
<1> QED BY <1>1, <1>2, <1>3 DEF MadeChecks

\* What a step of the server owes the invariant: the rows it changed are in order.
ServerOK ==
    /\ jobFile' \in [Jobs -> Files \cup {None}]
    /\ jobCheck' \in [Jobs -> Checks \cup {None}]
    /\ checkFile' \in [Checks -> Files \cup {None}]
    /\ MadeChecks \subseteq MadeChecks' /\ deleted' \subseteq MadeChecks'
    /\ \A j \in Jobs :
          status'[j] = "done" => jobCheck'[j] # None /\ checkFile'[jobCheck'[j]] = jobFile'[j]
    /\ JobsOK'

LEMMA ServerKeeps ==
    ASSUME BomInv, ServerOK, UNCHANGED <<modal, list>>, losses' \in 0..MaxLosses
    PROVE  TypeOK' /\ JobsOK' /\ (listed.checks \subseteq MadeChecks)'
<1> USE DEF modal, list, held, result, wait
<1>1. {current', shown'} \subseteq MadeChecks' \cup {None}
    BY DEF BomInv, TypeOK, ServerOK, MadeChecks
<1>2. TypeOK'
    BY <1>1 DEF BomInv, TypeOK, ServerOK, MadeChecks
<1>3. listed'.checks \subseteq MadeChecks'
    BY DEF BomInv, ServerOK
<1> QED BY <1>2, <1>3 DEF ServerOK

LEMMA DoneHasCheck ==
    ASSUME BomInv, NEW j \in Jobs, status[j] = "done"
    PROVE  jobCheck[j] \in MadeChecks
BY DEF BomInv, TypeOK, JobsOK, MadeChecks

\* Where the rows stay as they are, or only checks go.
LEMMA ServerStill ==
    ASSUME BomInv, UNCHANGED <<status, jobFile, jobCheck, checkFile>>,
           deleted' \subseteq MadeChecks
    PROVE  ServerOK
BY DEF BomInv, TypeOK, JobsOK, ServerOK, MadeChecks

LEMMA ReplyKeeps ==
    ASSUME BomInv, ServerOK, NEW m \in net, NEW ok, NEW item, Reply(m, ok, item),
           MessageOK(Answer(m, ok, item), MadeChecks')
    PROVE  WireOK(net', MadeChecks')
<1>1. net' \subseteq net \cup {Answer(m, ok, item)}
    BY DEF Reply
<1>2. WireOK({Answer(m, ok, item)}, MadeChecks')
    BY DEF WireOK
<1>3. WireOK(net, MadeChecks) /\ MadeChecks \subseteq MadeChecks'
    BY DEF BomInv, ServerOK
<1> QED BY <1>1, <1>2, <1>3, WireGrows

LEMMA ServeRunKeeps ==
    ASSUME BomInv, NEW m \in net, ServeRun(m)
    PROVE  ServerOK /\ WireOK(net', MadeChecks')
<1>1. m \in Requests(MadeChecks) /\ m.kind = "run" /\ m.file \in Files
    BY MessageFacts, RequestFacts DEF BomInv, WireOK, ServeRun
<1>2. CASE CheckAtOnce(m)
    <2>1. PICK c \in Checks : /\ NextCheck(c) /\ MakeCheck(c, m.file)
                              /\ Reply(m, TRUE, [check |-> c])
        BY <1>2 DEF CheckAtOnce
    <2>2. /\ checkFile' \in [Checks -> Files \cup {None}]
          /\ MadeChecks' = MadeChecks \cup {c}
          /\ \A d \in MadeChecks : checkFile'[d] = checkFile[d]
        BY <1>1, <2>1, CheckIsMade
    <2>3. UNCHANGED <<status, jobFile, jobCheck, deleted>>
        BY <1>2 DEF CheckAtOnce
    <2>4. ServerOK
        BY <2>2, <2>3, DoneHasCheck DEF BomInv, TypeOK, JobsOK, ServerOK, MadeChecks
    <2>5. MessageOK(Answer(m, TRUE, [check |-> c]), MadeChecks')
        BY <1>1, <2>2 DEF MessageOK, AnswerOK, Answer, Requests
    <2> QED BY <2>1, <2>4, <2>5, ReplyKeeps
<1>3. CASE HandToAgent(m)
    <2>1. UNCHANGED <<jobCheck, checkFile, deleted>>
        BY <1>3 DEF HandToAgent
    <2>2. MadeChecks' = MadeChecks
        BY <2>1 DEF MadeChecks
    <2>3. ASSUME NEW j \in Jobs PROVE MessageOK(Answer(m, TRUE, [job |-> j]), MadeChecks')
        BY <1>1, <2>2 DEF MessageOK, AnswerOK, Answer, Requests
    <2>4. CASE \E j \in JobsFor(m.file) :
                  Reply(m, TRUE, [job |-> j]) /\ UNCHANGED <<status, serial, jobFile>>
        <3>1. PICK j \in JobsFor(m.file) :
                  Reply(m, TRUE, [job |-> j]) /\ UNCHANGED <<status, serial, jobFile>>
            BY <2>4
        <3>2. j \in Jobs
            BY DEF JobsFor
        <3>3. ServerOK
            BY <2>1, <3>1, ServerStill DEF BomInv, TypeOK, MadeChecks
        <3> QED BY <2>3, <3>1, <3>2, <3>3, ReplyKeeps
    <2>5. CASE \E j \in Jobs : /\ Queue!Submit(j)
                               /\ jobFile' = [jobFile EXCEPT ![j] = m.file]
                               /\ Reply(m, TRUE, [job |-> j])
        <3>1. PICK j \in Jobs : /\ Queue!Submit(j)
                                /\ jobFile' = [jobFile EXCEPT ![j] = m.file]
                                /\ Reply(m, TRUE, [job |-> j])
            BY <2>5
        <3>2. status[j] = "unborn" /\ status' = [status EXCEPT ![j] = "queued"]
            BY <3>1 DEF Queue!Submit
        <3>3. m.file # None
            BY <1>1, BomAssumption
        <3>4. JobsOK'
            BY <1>1, <3>1, <3>2, <3>3 DEF BomInv, TypeOK, JobsOK
        <3>5. \A k \in Jobs : status'[k] = "done" => status[k] = "done" /\ jobFile'[k] = jobFile[k]
            BY <3>1, <3>2 DEF BomInv, TypeOK, JobsOK
        <3>6. ServerOK
            BY <1>1, <2>1, <2>2, <3>1, <3>4, <3>5 DEF BomInv, TypeOK, ServerOK, MadeChecks
        <3> QED BY <2>3, <3>1, <3>6, ReplyKeeps
    <2> QED BY <1>3, <2>4, <2>5 DEF HandToAgent
<1>4. CASE Refuse(m)
    <2>1. ServerOK /\ MadeChecks' = MadeChecks
        BY <1>4, ServerStill DEF Refuse, server, BomInv, TypeOK, MadeChecks
    <2>2. PICK item \in {[why |-> "retainable"], [why |-> "limit"]} : Reply(m, FALSE, item)
        BY <1>4 DEF Refuse
    <2>4. MessageOK(Answer(m, FALSE, item), MadeChecks')
        BY <1>1, <2>1 DEF MessageOK, AnswerOK, Answer
    <2> QED BY <2>1, <2>2, <2>4, ReplyKeeps
<1> QED BY <1>2, <1>3, <1>4 DEF ServeRun

LEMMA ServeOtherKeeps ==
    ASSUME BomInv, NEW m \in net,
           ServePoll(m) \/ ServeCheck(m) \/ ServeDelete(m) \/ ServeShare(m)
    PROVE  ServerOK /\ WireOK(net', MadeChecks')
<1>1. m \in Requests(MadeChecks)
    BY MessageFacts DEF BomInv, WireOK, ServePoll, ServeCheck, ServeDelete, ServeShare
<1>2. UNCHANGED <<status, jobFile, jobCheck, checkFile>>
    BY DEF ServePoll, ServeCheck, ServeDelete, ServeShare, server
<1>3. MadeChecks' = MadeChecks
    BY <1>2 DEF MadeChecks
<1>5. deleted' \subseteq MadeChecks
    <2>1. deleted \subseteq MadeChecks
        BY DEF BomInv, TypeOK, MadeChecks
    <2>2. CASE ServeDelete(m)
        BY <1>1, <2>1, <2>2, RequestFacts DEF ServeDelete
    <2>3. CASE ServePoll(m) \/ ServeCheck(m) \/ ServeShare(m)
        BY <2>1, <2>3 DEF ServePoll, ServeCheck, ServeShare, server
    <2> QED BY <2>2, <2>3
<1>6. ServerOK
    BY <1>2, <1>5, ServerStill
<1>7. CASE ServePoll(m)
    <2> PICK item : item = [phase |-> Phase(m.job), check |-> jobCheck[m.job]]
        OBVIOUS
    <2>1. m.kind = "poll" /\ m.job \in Jobs /\ Reply(m, TRUE, item)
        BY <1>1, <1>7, RequestFacts DEF ServePoll
    <2>2. item.phase = "done" => item.check \in MadeChecks
        BY <2>1, DoneHasCheck DEF Phase
    <2>3. MessageOK(Answer(m, TRUE, item), MadeChecks')
        BY <1>1, <1>3, <2>1, <2>2 DEF MessageOK, AnswerOK, Answer
    <2> QED BY <1>6, <2>1, <2>3, ReplyKeeps
<1>8. CASE ServeCheck(m) \/ ServeDelete(m) \/ ServeShare(m)
    <2>1. PICK ok \in BOOLEAN, item \in {[why |-> "check"], [why |-> "deleted"], [why |-> "kept"]} :
              Reply(m, ok, item)
        BY <1>8 DEF ServeCheck, ServeDelete, ServeShare
    <2>2. m.kind \notin {"run", "poll"}
        BY <1>8 DEF ServeCheck, ServeDelete, ServeShare
    <2>3. MessageOK(Answer(m, ok, item), MadeChecks')
        BY <1>1, <1>3, <2>2 DEF MessageOK, AnswerOK, Answer
    <2> QED BY <1>6, <2>1, <2>3, ReplyKeeps
<1> QED BY <1>7, <1>8

LEMMA ServeKeeps ==
    ASSUME BomInv, NEW k, Serve(k)
    PROVE  BomInv'
<1>1. PICK m \in net : \/ ServeRun(m) \/ ServePoll(m) \/ ServeCheck(m)
                       \/ ServeDelete(m) \/ ServeShare(m)
    BY DEF Serve
<1>2. ServerOK /\ WireOK(net', MadeChecks')
    BY <1>1, ServeRunKeeps, ServeOtherKeeps
<1>3. UNCHANGED <<modal, list>> /\ losses' \in 0..MaxLosses
    BY DEF Serve, BomInv, TypeOK
<1> QED BY <1>2, <1>3, ServerKeeps DEF BomInv

\* Where the server stands still, what is sent and what the page writes down are judged
\* by the checks there already are.
LEMMA ServerIdle ==
    ASSUME BomInv, UNCHANGED server
    PROVE  ServerOK /\ MadeChecks' = MadeChecks
<1>1. UNCHANGED <<status, jobFile, jobCheck, checkFile, deleted>>
    BY DEF server
<1>2. deleted' \subseteq MadeChecks
    BY <1>1 DEF BomInv, TypeOK, MadeChecks
<1> QED BY <1>1, <1>2, ServerStill DEF MadeChecks

LEMMA ListPartKeeps ==
    ASSUME BomInv, NEW m \in net, m.kind = "list",
           NEW n \in {[m EXCEPT !.checks = LiveChecks], [m EXCEPT !.checks = {}],
                      [m EXCEPT !.jobs = [j \in ListedJobs |-> Phase(j)]],
                      [m EXCEPT !.jobs = <<>>]},
           net' = (net \ {m}) \cup {n}
    PROVE  WireOK(net', MadeChecks)
<1>1. ListOK(m, MadeChecks)
    BY MessageFacts DEF BomInv, WireOK
<1>2. LiveChecks \subseteq MadeChecks /\ ListedJobs \subseteq Jobs
    BY DEF LiveChecks, MadeChecks, ListedJobs
<1>3. DOMAIN <<>> = {} /\ DOMAIN [j \in ListedJobs |-> Phase(j)] = ListedJobs
    OBVIOUS
<1>4. n.kind = "list" /\ ListOK(n, MadeChecks)
    <2>1. PICK mc, mj, mx : /\ m = [kind |-> "list", checks |-> mc, jobs |-> mj, close |-> mx]
                            /\ mc # None => mc \subseteq MadeChecks
                            /\ mj # None => DOMAIN mj \subseteq Jobs
        BY <1>1 DEF ListOK
    <2>2. CASE n \in {[m EXCEPT !.checks = LiveChecks], [m EXCEPT !.checks = {}]}
        <3>1. PICK S \in {LiveChecks, {}} :
                  n = [kind |-> "list", checks |-> S, jobs |-> mj, close |-> mx]
            BY <2>1, <2>2
        <3> QED BY <1>2, <2>1, <3>1 DEF ListOK
    <2>3. CASE n \in {[m EXCEPT !.jobs = [j \in ListedJobs |-> Phase(j)]],
                      [m EXCEPT !.jobs = <<>>]}
        <3>1. PICK r : /\ n = [kind |-> "list", checks |-> mc, jobs |-> r, close |-> mx]
                       /\ DOMAIN r \subseteq Jobs
            BY <1>2, <1>3, <2>1, <2>3
        <3> QED BY <1>2, <2>1, <3>1 DEF ListOK
    <2> QED BY <2>2, <2>3
<1>5. WireOK({n}, MadeChecks)
    BY <1>4 DEF WireOK, MessageOK
<1> QED BY <1>5, WireGrows DEF BomInv

LEMMA ListServed ==
    ASSUME BomInv, ServeChecks \/ ServeJobs
    PROVE  BomInv'
<1>1. PICK m \in net : /\ m.kind = "list"
                       /\ \E n \in {[m EXCEPT !.checks = LiveChecks],
                                    [m EXCEPT !.jobs = [j \in ListedJobs |-> Phase(j)]]} :
                              net' = (net \ {m}) \cup {n}
    BY DEF ServeChecks, ServeJobs
<1>2. UNCHANGED <<server, modal, list, losses>>
    BY DEF ServeChecks, ServeJobs
<1>3. WireOK(net', MadeChecks)
    BY <1>1, ListPartKeeps
<1>4. ServerOK /\ MadeChecks' = MadeChecks /\ losses' \in 0..MaxLosses
    BY <1>2, ServerIdle DEF BomInv, TypeOK
<1> QED BY <1>2, <1>3, <1>4, ServerKeeps DEF BomInv

LEMMA LoseKeeps ==
    ASSUME BomInv, Lose
    PROVE  BomInv'
<1>1. UNCHANGED <<server, modal, list>>
    BY DEF Lose
<1>2. ServerOK /\ MadeChecks' = MadeChecks
    BY <1>1, ServerIdle
<1>3. losses' \in 0..MaxLosses
    BY BomAssumption DEF Lose, BomInv, TypeOK
<1>4. PICK m \in net :
          \/ m.kind \notin {"answer", "list"} /\ Reply(m, FALSE, [why |-> "lost"])
          \/ /\ m.kind = "list"
             /\ \E n \in {[m EXCEPT !.checks = {}], [m EXCEPT !.jobs = <<>>]} :
                    net' = (net \ {m}) \cup {n}
    BY DEF Lose
<1>5. CASE m.kind \notin {"answer", "list"} /\ Reply(m, FALSE, [why |-> "lost"])
    <2>1. m \in Requests(MadeChecks)
        BY <1>5, MessageFacts DEF BomInv, WireOK
    <2>2. MessageOK(Answer(m, FALSE, [why |-> "lost"]), MadeChecks')
        BY <1>2, <2>1 DEF MessageOK, AnswerOK, Answer
    <2>3. WireOK(net', MadeChecks')
        BY <1>2, <1>5, <2>2, ReplyKeeps
    <2> QED BY <1>1, <1>2, <1>3, <2>3, ServerKeeps DEF BomInv
<1>6. CASE /\ m.kind = "list"
           /\ \E n \in {[m EXCEPT !.checks = {}], [m EXCEPT !.jobs = <<>>]} :
                  net' = (net \ {m}) \cup {n}
    <2>1. WireOK(net', MadeChecks)
        BY <1>6, ListPartKeeps
    <2> QED BY <1>1, <1>2, <1>3, <2>1, ServerKeeps DEF BomInv
<1> QED BY <1>4, <1>5, <1>6

LEMMA NothingSent ==
    ASSUME BomInv, ServerOK, UNCHANGED <<modal, list, net, losses>>
    PROVE  BomInv'
<1>1. WireOK(net, MadeChecks) /\ WireOK({}, MadeChecks') /\ net' \subseteq net \cup {}
    BY DEF BomInv, WireOK
<1>2. MadeChecks \subseteq MadeChecks'
    BY DEF ServerOK
<1>3. WireOK(net', MadeChecks')
    BY <1>1, <1>2, WireGrows
<1>4. losses' \in 0..MaxLosses
    BY DEF BomInv, TypeOK
<1> QED BY <1>3, <1>4, ServerKeeps DEF BomInv

LEMMA WorkerKeeps ==
    ASSUME BomInv, NEW j \in Jobs, Worker(j)
    PROVE  BomInv'
<1>1. UNCHANGED <<jobFile, deleted, modal, list, net, losses>>
    BY DEF Worker, StartReading, FinishReading
<1>2. deleted \subseteq MadeChecks
    BY DEF BomInv, TypeOK, MadeChecks
<1>3. CASE StartReading(j)
    <2>1. status[j] = "queued" /\ status' = [status EXCEPT ![j] = "running"]
        BY <1>3 DEF StartReading, Queue!Start
    <2>2. UNCHANGED <<jobCheck, checkFile>>
        BY <1>3 DEF StartReading
    <2>3. JobsOK' /\ \A k \in Jobs : status'[k] = "done" => status[k] = "done"
        BY <1>1, <2>1 DEF BomInv, JobsOK
    <2>4. ServerOK
        BY <1>1, <1>2, <2>2, <2>3 DEF BomInv, TypeOK, ServerOK, MadeChecks
    <2> QED BY <1>1, <2>4, NothingSent
<1>4. CASE FinishReading(j)
    <2>1. PICK outcome \in {"done", "failed"} :
              status[j] = "running" /\ status' = [status EXCEPT ![j] = outcome]
        BY <1>4 DEF FinishReading, Queue!Settle
    <2>2. JobsOK' /\ jobFile[j] \in Files
        BY <1>1, <2>1 DEF BomInv, TypeOK, JobsOK
    <2>3. CASE Queue!Settle(j, "failed") /\ UNCHANGED <<checkFile, jobCheck>>
        <3>1. \A k \in Jobs : status'[k] = "done" => status[k] = "done"
            BY <2>3 DEF Queue!Settle, BomInv, JobsOK
        <3>2. ServerOK
            BY <1>1, <1>2, <2>2, <2>3, <3>1 DEF BomInv, TypeOK, ServerOK, MadeChecks
        <3> QED BY <1>1, <3>2, NothingSent
    <2>4. ASSUME NEW c \in Checks, NextCheck(c), MakeCheck(c, jobFile[j]),
                 jobCheck' = [jobCheck EXCEPT ![j] = c]
          PROVE  BomInv'
        <3>1. /\ checkFile' \in [Checks -> Files \cup {None}]
              /\ checkFile'[c] = jobFile[j] /\ MadeChecks' = MadeChecks \cup {c}
              /\ \A d \in MadeChecks : checkFile'[d] = checkFile[d]
            BY <2>2, <2>4, CheckIsMade
        <3>2. jobCheck' \in [Jobs -> Checks \cup {None}] /\ c # None
            BY <2>4, BomAssumption DEF BomInv, TypeOK
        <3>3. ASSUME NEW k \in Jobs, status'[k] = "done"
              PROVE  jobCheck'[k] # None /\ checkFile'[jobCheck'[k]] = jobFile'[k]
            <4>1. CASE k = j
                BY <1>1, <2>4, <3>1, <3>2, <4>1 DEF BomInv, TypeOK
            <4>2. CASE k # j
                <5>1. status[k] = "done" /\ jobCheck'[k] = jobCheck[k]
                    BY <2>1, <2>4, <3>3, <4>2 DEF BomInv, TypeOK, JobsOK
                <5>2. jobCheck[k] \in MadeChecks /\ checkFile[jobCheck[k]] = jobFile[k]
                    BY <5>1, DoneHasCheck DEF BomInv, TypeOK
                <5> QED BY <1>1, <3>1, <5>1, <5>2 DEF BomInv, TypeOK
            <4> QED BY <4>1, <4>2
        <3>4. ServerOK
            BY <1>1, <1>2, <2>2, <3>1, <3>2, <3>3 DEF BomInv, TypeOK, ServerOK
        <3> QED BY <1>1, <3>4, NothingSent
    <2> QED BY <1>4, <2>3, <2>4 DEF FinishReading
<1> QED BY <1>3, <1>4 DEF Worker

-----------------------------------------------------------------------------
(* The page.                                                                 *)

\* What a step of the page owes the invariant: it writes down what it was told.
PageOK ==
    /\ open' \in BOOLEAN /\ step' \in {"upload", "agent", "result"}
    /\ file' \in Files \cup {None} /\ uploaded' \in Checks \cup {None}
    /\ {current', shown'} \subseteq MadeChecks \cup {None}
    /\ jobId' \in Jobs \cup {None} /\ armed' \subseteq {"held", "lost"}
    /\ busy' \in BOOLEAN /\ offer' \in BOOLEAN
    /\ listed'.checks \subseteq MadeChecks /\ DOMAIN listed'.jobs \subseteq Jobs

LEMMA PageKeeps ==
    ASSUME BomInv, PageOK, UNCHANGED <<server, losses>>,
           NEW sent, WireOK(sent, MadeChecks), net' \subseteq net \cup sent
    PROVE  BomInv'
<1>1. UNCHANGED <<status, jobFile, jobCheck, checkFile, deleted, losses>>
    BY DEF server
<1>2. MadeChecks' = MadeChecks /\ MadeChecks \subseteq Checks
    BY <1>1 DEF MadeChecks
<1>3. WireOK(net', MadeChecks')
    BY <1>2, WireGrows DEF BomInv
<1>4. JobsOK'
    BY <1>1 DEF BomInv, JobsOK
<1>5. TypeOK'
    BY <1>1, <1>2 DEF BomInv, TypeOK, PageOK, MadeChecks
<1> QED BY <1>2, <1>3, <1>4, <1>5 DEF BomInv, PageOK

LEMMA ShownFacts ==
    ASSUME BomInv
    PROVE  /\ {current, shown} \subseteq MadeChecks \cup {None}
           /\ open \in BOOLEAN /\ step \in {"upload", "agent", "result"}
           /\ file \in Files \cup {None} /\ uploaded \in Checks \cup {None}
           /\ jobId \in Jobs \cup {None} /\ armed \subseteq {"held", "lost"}
           /\ busy \in BOOLEAN /\ offer \in BOOLEAN
           /\ listed.checks \subseteq MadeChecks /\ DOMAIN listed.jobs \subseteq Jobs
BY DEF BomInv, TypeOK, MadeChecks

\* The messages a handler of the page sends, if any, are right.
LEMMA OneSent ==
    ASSUME NEW m, NEW made, MessageOK(m, made)
    PROVE  WireOK({m}, made) /\ WireOK({}, made)
BY DEF WireOK

LEMMA UserKeeps ==
    ASSUME BomInv, User
    PROVE  BomInv'
<1> USE DEF modal, list, held, result, wait, StopPolling
<1>1. WireOK({}, MadeChecks) /\ WireOK({List(FALSE)}, MadeChecks)
    BY SentIsOK, OneSent
<1>2. CASE OpenChecker \/ CloseChecker \/ Back \/ (\E f \in Files : AcceptFile(f)) \/ LeaveProject
    <2>1. PageOK /\ net' \subseteq net \cup {} /\ UNCHANGED <<server, losses>>
        BY <1>2, ShownFacts
           DEF PageOK, OpenChecker, CloseChecker, Back, AcceptFile, LeaveProject
    <2> QED BY <1>1, <2>1, PageKeeps
<1>3. CASE RunCheck
    <2>1. PageOK /\ net' \subseteq net \cup {Run(file)} /\ UNCHANGED <<server, losses>>
        BY <1>3, ShownFacts DEF PageOK, RunCheck
    <2>2. WireOK({Run(file)}, MadeChecks)
        BY <1>3, ShownFacts, SentIsOK, OneSent DEF RunCheck
    <2> QED BY <2>1, <2>2, PageKeeps
<1>4. CASE \E c \in Checks : OpenResult(c)
    <2>1. PICK c \in Checks : OpenResult(c)
        BY <1>4
    <2>2. PageOK /\ net' \subseteq net \cup {Get(c, "open")} /\ UNCHANGED <<server, losses>>
        BY <2>1, ShownFacts DEF PageOK, OpenResult
    <2>3. WireOK({Get(c, "open")}, MadeChecks)
        BY <2>1, ShownFacts, SentIsOK, OneSent DEF OpenResult
    <2> QED BY <2>2, <2>3, PageKeeps
<1>5. CASE PressRecheck \/ PressDelete
    <2>1. PICK m \in {Recheck(current), Delete(current)} :
              PageOK /\ net' \subseteq net \cup {m} /\ UNCHANGED <<server, losses>>
        BY <1>5, ShownFacts DEF PageOK, PressRecheck, PressDelete, ActOnCurrent
    <2>2. WireOK({m}, MadeChecks)
        BY <1>5, ShownFacts, SentIsOK, OneSent DEF PressRecheck, PressDelete, ActOnCurrent
    <2> QED BY <2>1, <2>2, PageKeeps
<1>6. CASE PressShare
    <2>1. PageOK /\ net' \subseteq net \cup {Share(file)} /\ UNCHANGED <<server, losses>>
        BY <1>6, ShownFacts DEF PageOK, PressShare
    <2>2. WireOK({Share(file)}, MadeChecks)
        BY <1>6, ShownFacts, SentIsOK, OneSent DEF PressShare
    <2> QED BY <2>1, <2>2, PageKeeps
<1>7. CASE ReturnToProject
    <2>1. PageOK /\ net' \subseteq net \cup {List(FALSE)} /\ UNCHANGED <<server, losses>>
        BY <1>7, ShownFacts DEF PageOK, ReturnToProject
    <2> QED BY <1>1, <2>1, PageKeeps
<1> QED BY <1>2, <1>3, <1>4, <1>5, <1>6, <1>7 DEF User

LEMMA AnswerKeeps ==
    ASSUME BomInv, NEW m \in net, m.kind = "answer",
           \/ AnswerRun(m) \/ AnswerPoll(m) \/ AnswerGet(m)
           \/ AnswerRecheck(m) \/ AnswerDelete(m) \/ AnswerShare(m)
    PROVE  BomInv'
<1> USE DEF list, held, result, wait, StopPolling, Handled
<1>1. AnswerOK(m, MadeChecks)
    BY MessageFacts DEF BomInv, WireOK
<1>2. m.to \in Requests(MadeChecks)
    BY <1>1 DEF AnswerOK
<1>3. /\ WireOK({}, MadeChecks) /\ WireOK({List(FALSE)}, MadeChecks)
      /\ WireOK({List(TRUE)}, MadeChecks)
    BY SentIsOK, OneSent
<1>4. MadeChecks \subseteq Checks
    BY DEF MadeChecks
<1>5. CASE AnswerRun(m)
    <2>1. UNCHANGED <<server, losses>> /\ net' \subseteq net \cup {List(FALSE)}
        BY <1>5 DEF AnswerRun, RunRefused, RunChecked, RunQueued
    <2>2. CASE RunRefused(m)
        BY <1>3, <1>5, <2>1, <2>2, ShownFacts, PageKeeps DEF PageOK, AnswerRun, RunRefused
    <2>3. CASE m.ok /\ "check" \in DOMAIN m.item /\ RunChecked(m)
        <3>1. m.item.check \in MadeChecks
            BY <1>1, <1>5, <2>3 DEF AnswerOK, AnswerRun
        <3>2. PageOK
            BY <1>4, <1>5, <2>3, <3>1, ShownFacts DEF PageOK, AnswerRun, RunChecked, ShowCheck
        <3> QED BY <1>3, <2>1, <3>2, PageKeeps
    <2>4. CASE m.ok /\ "check" \notin DOMAIN m.item /\ RunQueued(m)
        <3>1. m.item.job \in Jobs
            BY <1>1, <1>5, <2>4 DEF AnswerOK, AnswerRun
        <3>2. PageOK
            BY <1>5, <2>4, <3>1, ShownFacts DEF PageOK, AnswerRun, RunQueued
        <3> QED BY <1>3, <2>1, <3>2, PageKeeps
    <2> QED BY <1>5, <2>2, <2>3, <2>4 DEF AnswerRun
<1>6. CASE AnswerPoll(m)
    <2>1. UNCHANGED <<server, open, busy, list, losses>>
        BY <1>6 DEF AnswerPoll
    <2>2. CASE Handled(m, {}) /\ UNCHANGED <<step, held, result, wait, offer>>
        <3>1. PageOK
            BY <2>1, <2>2, ShownFacts DEF PageOK
        <3> QED BY <1>3, <2>1, <2>2, <3>1, PageKeeps
    <2>3. CASE m.ok /\ m.item.phase = "done" /\ ReadingDone(m)
        <3>1. m.item.check \in MadeChecks
            BY <1>1, <1>6, <2>3 DEF AnswerOK, AnswerPoll
        <3>2. WireOK({Get(m.item.check, "wait")}, MadeChecks)
            BY <3>1, SentIsOK, OneSent
        <3>3. PageOK /\ net' \subseteq net \cup {Get(m.item.check, "wait")}
            BY <2>1, <2>3, ShownFacts DEF PageOK, ReadingDone
        <3> QED BY <2>1, <3>2, <3>3, PageKeeps
    <2>4. CASE ReadingFailed(m)
        <3>1. offer' \in BOOLEAN
            BY <2>4 DEF ReadingFailed
        <3>2. net' \subseteq net \cup {List(FALSE)}
            BY <2>4 DEF ReadingFailed
        <3>3. PageOK
            BY <2>1, <2>4, <3>1, ShownFacts DEF PageOK, ReadingFailed
        <3> QED BY <1>3, <2>1, <3>2, <3>3, PageKeeps
    <2>5. CASE KeepPolling(m)
        <3>1. PageOK /\ net' \subseteq net \cup {}
            BY <2>1, <2>5, ShownFacts DEF PageOK, KeepPolling, ArmTimer
        <3> QED BY <1>3, <2>1, <3>1, PageKeeps
    <2> QED BY <1>6, <2>2, <2>3, <2>4, <2>5 DEF AnswerPoll
<1>7. CASE AnswerGet(m)
    <2>1. UNCHANGED <<server, losses>> /\ net' \subseteq net \cup {List(FALSE)}
        BY <1>7 DEF AnswerGet
    <2>2. m.to.check \in MadeChecks
        BY <1>2, <1>7, RequestFacts DEF AnswerGet
    <2>3. PageOK
        BY <1>4, <1>7, <2>2, ShownFacts DEF PageOK, AnswerGet, ShowCheck
    <2> QED BY <1>3, <2>1, <2>3, PageKeeps
<1>8. CASE AnswerRecheck(m)
    <2>1. UNCHANGED <<server, losses>> /\ net' \subseteq net \cup {List(FALSE)}
        BY <1>8 DEF AnswerRecheck
    <2>2. m.to.check \in MadeChecks
        BY <1>2, <1>8, RequestFacts DEF AnswerRecheck
    <2>3. PageOK
        BY <1>8, <2>2, ShownFacts DEF PageOK, AnswerRecheck, Rendered
    <2> QED BY <1>3, <2>1, <2>3, PageKeeps
<1>9. CASE AnswerDelete(m)
    <2>1. PageOK /\ UNCHANGED <<server, losses>> /\ net' \subseteq net \cup {List(TRUE)}
        BY <1>9, ShownFacts DEF PageOK, AnswerDelete
    <2> QED BY <1>3, <2>1, PageKeeps
<1>10. CASE AnswerShare(m)
    <2>1. PageOK /\ UNCHANGED <<server, losses>> /\ net' \subseteq net \cup {}
        BY <1>10, ShownFacts DEF PageOK, AnswerShare
    <2> QED BY <1>3, <2>1, PageKeeps
<1> QED BY <1>5, <1>6, <1>7, <1>8, <1>9, <1>10

LEMMA TimersAndListKeep ==
    ASSUME BomInv,
           ListArrives \/ ListTimerFires \/ \E t \in {"held", "lost"} : PollTimerFires(t)
    PROVE  BomInv'
<1> USE DEF modal, list, held, result, wait, StopPolling, Handled
<1>1. WireOK({}, MadeChecks) /\ WireOK({List(FALSE)}, MadeChecks)
    BY SentIsOK, OneSent
<1>2. CASE ListArrives
    <2>1. PICK m \in net :
              /\ m.kind = "list" /\ m.checks # None /\ m.jobs # None
              /\ listed' = [checks |-> m.checks, jobs |-> m.jobs]
              /\ net' = net \ {m}
              /\ IF m.close
                 THEN open' = FALSE /\ current' = None /\ shown' = None /\ busy' = FALSE
                      /\ StopPolling
                 ELSE UNCHANGED <<open, result, busy, wait>>
              /\ UNCHANGED <<server, step, held, offer, visible, losses>>
        BY <1>2 DEF ListArrives
    <2>2. m.checks \subseteq MadeChecks /\ DOMAIN m.jobs \subseteq Jobs
        BY <2>1, MessageFacts DEF BomInv, WireOK, ListOK
    <2>3. PageOK
        BY <2>1, <2>2, ShownFacts DEF PageOK
    <2> QED BY <1>1, <2>1, <2>3, PageKeeps
<1>3. CASE ListTimerFires
    <2>1. PageOK /\ UNCHANGED <<server, losses>> /\ net' \subseteq net \cup {List(FALSE)}
        BY <1>3, ShownFacts DEF PageOK, ListTimerFires
    <2> QED BY <1>1, <2>1, PageKeeps
<1>4. CASE \E t \in {"held", "lost"} : PollTimerFires(t)
    <2>1. PageOK /\ UNCHANGED <<server, losses>>
        BY <1>4, ShownFacts DEF PageOK, PollTimerFires
    <2>2. CASE jobId = None
        <3>1. {jobId} \ {None} = {}
            BY <2>2
        <3>2. {Poll(jobId) : j \in {jobId} \ {None}} = {}
            BY <3>1
        <3>3. net' \subseteq net \cup {}
            BY <1>4, <3>2 DEF PollTimerFires
        <3> QED BY <1>1, <2>1, <3>3, PageKeeps
    <2>3. CASE jobId # None
        <3>1. WireOK({Poll(jobId)}, MadeChecks)
            BY <2>3, ShownFacts, SentIsOK, OneSent
        <3>2. net' \subseteq net \cup {Poll(jobId)}
            BY <1>4 DEF PollTimerFires
        <3> QED BY <2>1, <3>1, <3>2, PageKeeps
    <2> QED BY <2>2, <2>3
<1> QED BY <1>2, <1>3, <1>4

-----------------------------------------------------------------------------
LEMMA BomStep == BomInv /\ [Next]_vars => BomInv'
<1> SUFFICES ASSUME BomInv, [Next]_vars PROVE BomInv'
    OBVIOUS
<1>1. CASE UNCHANGED vars
    <2>1. UNCHANGED <<server, modal, list, net, losses>>
        BY <1>1 DEF vars
    <2> QED BY <2>1, ServerIdle, NothingSent
<1>2. ASSUME NEW k \in Kinds, HandleAnswer(k) PROVE BomInv'
    BY <1>2, AnswerKeeps DEF HandleAnswer
<1> QED BY <1>1, <1>2, UserKeeps, LoseKeeps, ListServed, TimersAndListKeep, ServeKeeps,
           WorkerKeeps DEF Next

\* What the page keeps of jobs and checks is of jobs and checks there are, and a job
\* that is done names the check it made of its own file: no answer, however late, makes
\* the page hold a check the server never made.
THEOREM BomTypeCorrect == Spec => []TypeOK
<1>1. BomInv => TypeOK
    BY DEF BomInv
<1> QED BY <1>1, InitBom, BomStep, PTL DEF Spec

-----------------------------------------------------------------------------
(* The other two invariants are inductive as they stand: they rest on the    *)
(* kind of each message only.                                                *)

PolledOnWire(wire, j) == \E m \in wire : Request(m) = Poll(j)

\* A message that is no poll of the job awaited may go, and one may take the place of
\* another that stands for the same request.
LEMMA PollStays ==
    ASSUME NEW j, PolledOnWire(net, j), NEW m \in net, net \ {m} \subseteq net',
           \/ Request(m) # Poll(j)
           \/ \E n \in net' : Request(n) = Request(m)
    PROVE  PolledOnWire(net', j)
BY DEF PolledOnWire

LEMMA ReplyKeepsPoll ==
    ASSUME NEW j, PolledOnWire(net, j), NEW m \in net, m.kind # "answer",
           NEW ok, NEW item, Reply(m, ok, item)
    PROVE  PolledOnWire(net', j)
<1>1. Request(Answer(m, ok, item)) = m /\ Request(m) = m
    BY DEF Request, Answer
<1>2. Answer(m, ok, item) \in net' /\ net \ {m} \subseteq net'
    BY DEF Reply
<1> QED BY <1>1, <1>2, PollStays

LEMMA HandledKeepsPoll ==
    ASSUME NEW j, PolledOnWire(net, j), NEW m \in net, NEW sent, Handled(m, sent),
           Request(m) # Poll(j)
    PROVE  PolledOnWire(net', j)
BY PollStays DEF Handled

LEMMA PollKind == \A j : Poll(j).kind = "poll" /\ Poll(j).job = j
BY DEF Poll

\* The requests that are served, and those whose answer is handled, one kind at a time.
LEMMA ServedKeepsPoll ==
    ASSUME NEW j, PolledOnWire(net, j), NEW k \in Kinds, Serve(k)
    PROVE  PolledOnWire(net', j)
<1>1. PICK m \in net : /\ m.kind = k
                       /\ \/ ServeRun(m) \/ ServePoll(m) \/ ServeCheck(m)
                          \/ ServeDelete(m) \/ ServeShare(m)
    BY DEF Serve
<1>2. \E ok, item : Reply(m, ok, item)
    BY <1>1 DEF ServeRun, CheckAtOnce, HandToAgent, Refuse, ServePoll, ServeCheck,
                ServeDelete, ServeShare
<1> QED BY <1>1, <1>2, ReplyKeepsPoll DEF Kinds

LEMMA PartKeepsPoll ==
    ASSUME NEW j, PolledOnWire(net, j), NEW m \in net, m.kind = "list",
           net \ {m} \subseteq net'
    PROVE  PolledOnWire(net', j)
<1>1. Request(m) # Poll(j)
    BY PollKind DEF Request
<1> QED BY <1>1, PollStays

LEMMA PollingStep == PollingIsAlive /\ [Next]_vars => PollingIsAlive'
<1> SUFFICES ASSUME PollingIsAlive, [Next]_vars, jobId' # None, armed' = {}
             PROVE  PolledOnWire(net', jobId')
    BY DEF PollingIsAlive, PolledOnWire
<1> USE DEF server, modal, list, wait, StopPolling
<1>1. ASSUME UNCHANGED wait PROVE PolledOnWire(net, jobId)
    BY <1>1 DEF PollingIsAlive, PolledOnWire
<1>2. ASSUME UNCHANGED wait, net \subseteq net' PROVE PolledOnWire(net', jobId')
    BY <1>1, <1>2 DEF PolledOnWire
<1>3. CASE UNCHANGED vars
    BY <1>2, <1>3 DEF vars
<1>4. CASE User
    BY <1>2, <1>4 DEF User, OpenChecker, CloseChecker, Back, RunCheck, AcceptFile, OpenResult,
        PressRecheck, PressDelete, ActOnCurrent, PressShare, LeaveProject, ReturnToProject
<1>5. CASE Lose
    <2>1. PICK m \in net :
              \/ m.kind \notin {"answer", "list"} /\ Reply(m, FALSE, [why |-> "lost"])
              \/ m.kind = "list" /\ net \ {m} \subseteq net'
        BY <1>5 DEF Lose
    <2>2. UNCHANGED wait
        BY <1>5 DEF Lose
    <2> QED BY <1>1, <2>1, <2>2, ReplyKeepsPoll, PartKeepsPoll
<1>6. CASE ServeChecks \/ ServeJobs
    <2>1. PICK m \in net : m.kind = "list" /\ net \ {m} \subseteq net'
        BY <1>6 DEF ServeChecks, ServeJobs
    <2>2. UNCHANGED wait
        BY <1>6 DEF ServeChecks, ServeJobs
    <2> QED BY <1>1, <2>1, <2>2, PartKeepsPoll
<1>7. CASE ListArrives
    <2>1. PICK m \in net : m.kind = "list" /\ net \ {m} \subseteq net' /\ UNCHANGED wait
        BY <1>7 DEF ListArrives, Handled
    <2> QED BY <1>1, <2>1, PartKeepsPoll
<1>8. CASE ListTimerFires
    BY <1>2, <1>8 DEF ListTimerFires
<1>9. ASSUME NEW k \in Kinds, Serve(k) PROVE PolledOnWire(net', jobId')
    BY <1>1, <1>9, ServedKeepsPoll DEF Serve
<1>10. ASSUME NEW m \in net, m.kind = "answer",
              \/ AnswerRun(m) \/ AnswerPoll(m) \/ AnswerGet(m)
              \/ AnswerRecheck(m) \/ AnswerDelete(m) \/ AnswerShare(m)
       PROVE  PolledOnWire(net', jobId')
    <2>1. Request(m) = m.to
        BY <1>10 DEF Request
    <2>2. ASSUME m.to.kind # "poll", UNCHANGED wait, NEW sent, Handled(m, sent)
          PROVE  PolledOnWire(net', jobId')
        BY <1>1, <2>1, <2>2, PollKind, HandledKeepsPoll
    <2>3. CASE AnswerRun(m)
        BY <2>2, <2>3 DEF AnswerRun, RunRefused, RunChecked, RunQueued
    <2>4. CASE AnswerPoll(m)
        <3>1. CASE jobId # m.to.job /\ Handled(m, {}) /\ UNCHANGED wait
            BY <1>1, <2>1, <3>1, PollKind, HandledKeepsPoll
        <3>2. CASE ReadingDone(m) \/ ReadingFailed(m)
            BY <3>2 DEF ReadingDone, ReadingFailed
        <3>3. CASE KeepPolling(m)
            BY <3>3 DEF KeepPolling, ArmTimer
        <3> QED BY <2>4, <3>1, <3>2, <3>3 DEF AnswerPoll
    <2>5. CASE AnswerGet(m)
        BY <2>2, <2>5 DEF AnswerGet
    <2>6. CASE AnswerRecheck(m)
        BY <2>2, <2>6 DEF AnswerRecheck
    <2>7. CASE AnswerDelete(m)
        BY <2>2, <2>7 DEF AnswerDelete
    <2>8. CASE AnswerShare(m)
        BY <2>2, <2>8 DEF AnswerShare
    <2> QED BY <1>10, <2>3, <2>4, <2>5, <2>6, <2>7, <2>8
<1>11. ASSUME NEW k \in Kinds, HandleAnswer(k) PROVE PolledOnWire(net', jobId')
    BY <1>10, <1>11 DEF HandleAnswer
<1>12. ASSUME NEW t \in {"held", "lost"}, PollTimerFires(t) PROVE PolledOnWire(net', jobId')
    <2>1. jobId' = jobId /\ Poll(jobId) \in net'
        BY <1>12 DEF PollTimerFires
    <2>2. Request(Poll(jobId)) = Poll(jobId)
        BY PollKind DEF Request
    <2> QED BY <2>1, <2>2 DEF PolledOnWire
<1>13. ASSUME NEW j \in Jobs, Worker(j) PROVE PolledOnWire(net', jobId')
    BY <1>2, <1>13 DEF Worker, StartReading, FinishReading
<1> QED BY <1>3, <1>4, <1>5, <1>6, <1>7, <1>8, <1>9, <1>11, <1>12, <1>13 DEF Next

\* While the page waits for a job, a timer is armed or a poll of that job is on its way,
\* for every number of losses and whatever timers stopPolling could no longer clear.
THEOREM PollingNeverStops == Spec => []PollingIsAlive
<1>1. Init => PollingIsAlive
    BY DEF Init, PollingIsAlive
<1> QED BY <1>1, PollingStep, PTL DEF Spec

LEMMA ShownStep == ActsOnWhatIsShown /\ [Next]_vars => ActsOnWhatIsShown'
<1> SUFFICES ASSUME ActsOnWhatIsShown, [Next]_vars PROVE ActsOnWhatIsShown'
    OBVIOUS
<1> USE DEF server, modal, list, result, ActsOnWhatIsShown
<1>1. CASE UNCHANGED vars
    BY <1>1 DEF vars
<1>2. CASE User
    BY <1>2 DEF User, OpenChecker, CloseChecker, Back, RunCheck, AcceptFile, OpenResult,
        PressRecheck, PressDelete, ActOnCurrent, PressShare, LeaveProject, ReturnToProject
<1>3. CASE Lose \/ ServeChecks \/ ServeJobs \/ ListTimerFires
    BY <1>3 DEF Lose, ServeChecks, ServeJobs, ListTimerFires
<1>4. CASE ListArrives
    BY <1>4 DEF ListArrives
<1>5. ASSUME NEW k \in Kinds, Serve(k) PROVE ActsOnWhatIsShown'
    BY <1>5 DEF Serve
<1>6. ASSUME NEW k \in Kinds, HandleAnswer(k) PROVE ActsOnWhatIsShown'
    <2>1. PICK m \in net : \/ AnswerRun(m) \/ AnswerPoll(m) \/ AnswerGet(m)
                           \/ AnswerRecheck(m) \/ AnswerDelete(m) \/ AnswerShare(m)
        BY <1>6 DEF HandleAnswer
    <2>2. CASE AnswerRun(m)
        BY <2>2 DEF AnswerRun, RunRefused, RunChecked, RunQueued, ShowCheck
    <2>3. CASE AnswerPoll(m)
        BY <2>3 DEF AnswerPoll, ReadingDone, ReadingFailed, KeepPolling
    <2>4. CASE AnswerGet(m)
        BY <2>4 DEF AnswerGet, ShowCheck
    <2>5. CASE AnswerRecheck(m) \/ AnswerDelete(m) \/ AnswerShare(m)
        BY <2>5 DEF AnswerRecheck, Rendered, AnswerDelete, AnswerShare
    <2> QED BY <2>1, <2>2, <2>3, <2>4, <2>5
<1>7. ASSUME NEW t \in {"held", "lost"}, PollTimerFires(t) PROVE ActsOnWhatIsShown'
    BY <1>7 DEF PollTimerFires
<1>8. ASSUME NEW j \in Jobs, Worker(j) PROVE ActsOnWhatIsShown'
    BY <1>8 DEF Worker, StartReading, FinishReading
<1> QED BY <1>1, <1>2, <1>3, <1>4, <1>5, <1>6, <1>7, <1>8 DEF Next

\* Re-check and Delete never act on another check than the one on the screen, however
\* many answers to earlier requests come in, in whatever order.
THEOREM ButtonsActOnTheScreen == Spec => []ActsOnWhatIsShown
<1>1. Init => ActsOnWhatIsShown
    BY DEF Init, ActsOnWhatIsShown
<1> QED BY <1>1, ShownStep, PTL DEF Spec
=============================================================================
