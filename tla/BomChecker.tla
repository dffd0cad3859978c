----------------------------- MODULE BomChecker -----------------------------
(***************************************************************************)
(* The BOM checker of the project page (static/js/bom.js): one modal, one  *)
(* list of checks, the requests they send (app/bom_routes.py), and behind  *)
(* them the agent's job queue (app/bom/agent_worker.py), of which only the *)
(* promise of JobQueue is used.                                            *)
(*                                                                         *)
(* A request is a record in `net` until its answer is handled; the server  *)
(* replaces it by the answer, and answers are handled in any order.  Two   *)
(* requests that are alike in every field count as one.                    *)
(***************************************************************************)
EXTENDS Integers, FiniteSets

CONSTANTS
    Files,       \* the files a user may pick
    Known,       \* those a parser reads with enough certainty; the others need the agent
    Shareable,   \* the files shareable() accepts
    Jobs,        \* the agent jobs there may ever be
    Checks,      \* the checks there may ever be, 1..n in the order they are made
    None,        \* null
    MaxLosses,   \* how many requests fail on the way
    Patience,    \* the user acts while fewer than this many requests are out,
    ListPatience \* and fewer than this many list requests

ASSUME BomAssumption ==
    /\ Known \subseteq Files /\ Shareable \subseteq Files
    /\ Checks \subseteq Nat
    /\ None \notin Files \cup Jobs \cup Checks
    /\ MaxLosses \in Nat /\ Patience \in Nat /\ ListPatience \in Nat

VARIABLES
    status, serial,      \* the jobs, as JobQueue has them
    jobFile, jobCheck,   \* what a job reads and the check it made
    checkFile, deleted,  \* the checks (None: not made yet) and those deleted
    open, step,          \* the modal: showing or not, and its step
    file,                \* bomState.file
    uploaded,            \* bomState.uploadedCheckId
    current,             \* bomState.current
    shown,               \* the check the result step has rendered
    jobId,               \* bomState.jobId
    armed,               \* poll timers: the one pollTimer holds, and any it has lost
    busy,                \* bomState.busy
    offer,               \* the sharing offer shows
    visible,             \* the project view is the screen
    listed,              \* bomState.checks and bomState.jobs
    listTimer,           \* bomState.listTimer is armed
    net, losses

server == <<status, serial, jobFile, jobCheck, checkFile, deleted>>
wait   == <<jobId, armed>>
held   == <<file, uploaded>>
result == <<current, shown>>
modal  == <<open, step, held, result, wait, busy, offer>>
list   == <<visible, listed, listTimer>>
vars == <<server, modal, list, net, losses>>

Queue == INSTANCE JobQueue WITH told <- [j \in Jobs |-> {}]

\* What the page makes of a job's status.
Phase(j) == IF status[j] \in {"queued", "running"} THEN "reading" ELSE status[j]

\* What goes over the wire.
Run(f)      == [kind |-> "run", file |-> f]
Poll(j)     == [kind |-> "poll", job |-> j]
Get(c, why) == [kind |-> "get", check |-> c, why |-> why]
Recheck(c)  == [kind |-> "recheck", check |-> c]
Delete(c)   == [kind |-> "delete", check |-> c]
Share(f)    == [kind |-> "share", file |-> f]
Answer(m, ok, item) == [kind |-> "answer", to |-> m, ok |-> ok, item |-> item]

\* The list comes in two parts, one request each; None until the server answers.
List(close) == [kind |-> "list", checks |-> None, jobs |-> None, close |-> close]

BusyKinds == {"run", "recheck", "delete", "share"}
Request(m) == IF m.kind = "answer" THEN m.to ELSE m

\* withBusy() keeps the buttons disabled until its own request is back, also after
\* the modal was closed and opened again, which clears bomState.busy.
ButtonsEnabled == \A m \in net : Request(m).kind \notin BusyKinds

-----------------------------------------------------------------------------
Init ==
    /\ Queue!QueueInit
    /\ jobFile = [j \in Jobs |-> None] /\ jobCheck = [j \in Jobs |-> None]
    /\ checkFile = [c \in Checks |-> None] /\ deleted = {}
    /\ open = FALSE /\ step = "upload" /\ file = None /\ uploaded = None
    /\ current = None /\ shown = None /\ jobId = None /\ armed = {}
    /\ busy = FALSE /\ offer = FALSE
    /\ visible = TRUE /\ listed = [checks |-> {}, jobs |-> <<>>] /\ listTimer = FALSE
    /\ net = {} /\ losses = 0

-----------------------------------------------------------------------------
(* The server. *)

\* Checks are made in the order of their numbers.
NextCheck(c) ==
    /\ checkFile[c] = None
    /\ \A d \in Checks : checkFile[d] = None => c <= d

\* Mutant of MakeCheck: the outcome is committed without its check.
MakeNoCheck(c, f) == UNCHANGED checkFile

MakeCheck(c, f) == checkFile' = [checkFile EXCEPT ![c] = f]

Readings(f) == {c \in Checks : f \notin Known /\ checkFile[c] = f}
JobsFor(f)  == {j \in Jobs : jobFile[j] = f /\ Phase(j) = "reading"}
Reply(m, ok, item) == net' = (net \ {m}) \cup {Answer(m, ok, item)}

\* create_check: a parser reads the file, or an earlier reading of it is used again.
CheckAtOnce(m) ==
    /\ m.file \in Known \/ Readings(m.file) # {}
    /\ \E c \in Checks :
          /\ NextCheck(c)
          /\ MakeCheck(c, m.file)
          /\ Reply(m, TRUE, [check |-> c])
    /\ UNCHANGED <<status, serial, jobFile, jobCheck, deleted>>

\* _agent_path: the file is being read already, or joins the queue.
HandToAgent(m) ==
    /\ m.file \notin Known /\ Readings(m.file) = {}
    /\ \/ \E j \in JobsFor(m.file) :
             Reply(m, TRUE, [job |-> j]) /\ UNCHANGED <<status, serial, jobFile>>
       \/ /\ JobsFor(m.file) = {}
          /\ \E j \in Jobs :
                /\ Queue!Submit(j)
                /\ jobFile' = [jobFile EXCEPT ![j] = m.file]
                /\ Reply(m, TRUE, [job |-> j])
    /\ UNCHANGED <<jobCheck, checkFile, deleted>>

\* _refuse_unrecognised when the agent is not available, or a limit reached (that one
\* is not retainable).
Refuse(m) ==
    /\ \/ m.file \notin Known /\ Reply(m, FALSE, [why |-> "retainable"])
       \/ /\ (\A c \in Checks : checkFile[c] # None) \/ (\A j \in Jobs : jobFile[j] # None)
          /\ Reply(m, FALSE, [why |-> "limit"])
    /\ UNCHANGED server

ServeRun(m) == m.kind = "run" /\ (CheckAtOnce(m) \/ HandToAgent(m) \/ Refuse(m))

ServePoll(m) ==
    /\ m.kind = "poll"
    /\ Reply(m, TRUE, [phase |-> Phase(m.job), check |-> jobCheck[m.job]])
    /\ UNCHANGED server

ServeCheck(m) ==
    /\ m.kind \in {"get", "recheck"}
    /\ Reply(m, m.check \notin deleted, [why |-> "check"])
    /\ UNCHANGED server

ServeDelete(m) ==
    /\ m.kind = "delete"
    /\ deleted' = deleted \cup {m.check}
    /\ Reply(m, m.check \notin deleted, [why |-> "deleted"])
    /\ UNCHANGED <<status, serial, jobFile, jobCheck, checkFile>>

ServeShare(m) ==
    /\ m.kind = "share"
    /\ Reply(m, TRUE, [why |-> "kept"])
    /\ UNCHANGED server

\* list_checks and list_agent_jobs: two requests, served in any order.
LiveChecks == {c \in Checks : checkFile[c] # None /\ c \notin deleted}
ListedJobs == {j \in Jobs : Phase(j) \in {"reading", "failed"}}

ServeChecks ==
    /\ \E m \in net :
          /\ m.kind = "list" /\ m.checks = None
          /\ net' = (net \ {m}) \cup {[m EXCEPT !.checks = LiveChecks]}
    /\ UNCHANGED <<server, modal, list, losses>>

ServeJobs ==
    /\ \E m \in net :
          /\ m.kind = "list" /\ m.jobs = None
          /\ net' = (net \ {m}) \cup {[m EXCEPT !.jobs = [j \in ListedJobs |-> Phase(j)]]}
    /\ UNCHANGED <<server, modal, list, losses>>

Serve(k) ==
    /\ \E m \in net : /\ m.kind = k
                      /\ \/ ServeRun(m) \/ ServePoll(m) \/ ServeCheck(m)
                         \/ ServeDelete(m) \/ ServeShare(m)
    /\ UNCHANGED <<modal, list, losses>>

\* A request or its answer is lost: fetchJson answers status 0.
Lose ==
    /\ losses < MaxLosses
    /\ losses' = losses + 1
    /\ \E m \in net :
          \/ m.kind \notin {"answer", "list"} /\ Reply(m, FALSE, [why |-> "lost"])
          \/ m.kind = "list" /\ m.checks = None
             /\ net' = (net \ {m}) \cup {[m EXCEPT !.checks = {}]}
          \/ m.kind = "list" /\ m.jobs = None
             /\ net' = (net \ {m}) \cup {[m EXCEPT !.jobs = <<>>]}
    /\ UNCHANGED <<server, modal, list>>

\* run_agent_job: the check and the outcome are one commit.
StartReading(j) ==
    /\ Queue!Start(j)
    /\ UNCHANGED <<jobFile, jobCheck, checkFile, deleted, modal, list, net, losses>>

FinishReading(j) ==
    /\ \/ /\ Queue!Settle(j, "done")
          /\ \E c \in Checks : /\ NextCheck(c)
                               /\ MakeCheck(c, jobFile[j])
                               /\ jobCheck' = [jobCheck EXCEPT ![j] = c]
       \/ Queue!Settle(j, "failed") /\ UNCHANGED <<checkFile, jobCheck>>
    /\ UNCHANGED <<jobFile, deleted, modal, list, net, losses>>

-----------------------------------------------------------------------------
(* The waiting timer. *)

\* setTimeout overwrites pollTimer: a timer it still held can no longer be cleared.
ArmTimer == armed' = {"held"} \cup {"lost" : t \in armed}

\* stopPolling, alone or before the next wait.
StopPolling == jobId' = None /\ armed' = armed \ {"held"}

PollTimerFires(t) ==
    /\ t \in armed
    /\ armed' = armed \ {t}
    /\ net' = net \cup {Poll(jobId) : j \in {jobId} \ {None}}
    /\ UNCHANGED <<server, open, step, held, result, jobId, busy, offer, list, losses>>

-----------------------------------------------------------------------------
(* What the user does. *)

\* openBomChecker with resetUploadForm.
OpenChecker ==
    /\ visible /\ ~open
    /\ open' = TRUE /\ step' = "upload" /\ current' = None /\ busy' = FALSE
    /\ file' = None /\ uploaded' = None /\ offer' = FALSE /\ shown' = None
    /\ StopPolling
    /\ UNCHANGED <<server, list, net, losses>>

CloseChecker ==
    /\ open
    /\ open' = FALSE /\ current' = None /\ shown' = None /\ busy' = FALSE
    /\ StopPolling
    /\ UNCHANGED <<server, step, held, offer, list, net, losses>>

\* bomBack: the job, if there is one, carries on.
Back ==
    /\ open /\ step \in {"result", "agent"}
    /\ step' = "upload" /\ current' = None /\ shown' = None /\ file' = None
    /\ uploaded' = None /\ offer' = FALSE
    /\ StopPolling
    /\ UNCHANGED <<server, open, busy, list, net, losses>>

\* acceptFile; the drop area takes no pointer while the modal is busy.
AcceptFile(f) ==
    /\ open /\ step = "upload" /\ ~busy
    /\ file' = f /\ uploaded' = None /\ offer' = FALSE
    /\ UNCHANGED <<server, open, step, result, wait, busy, list, net, losses>>

RunCheck ==
    /\ open /\ step = "upload" /\ file # None /\ ~busy /\ ButtonsEnabled
    /\ busy' = TRUE /\ offer' = FALSE
    /\ net' = net \cup {Run(file)}
    /\ UNCHANGED <<server, open, step, held, result, wait, list, losses>>

OpenResult(c) ==
    /\ visible /\ ~open /\ ~busy /\ c \in listed.checks
    /\ open' = TRUE /\ step' = "result" /\ shown' = None /\ offer' = FALSE
    /\ StopPolling
    /\ net' = net \cup {Get(c, "open")}
    /\ UNCHANGED <<server, held, current, busy, list, losses>>

\* bomRecheck and bomDelete act on bomState.current.
ActOnCurrent(send) ==
    /\ open /\ step = "result" /\ current # None /\ ~busy /\ ButtonsEnabled
    /\ busy' = TRUE /\ net' = net \cup {send}
    /\ UNCHANGED <<server, open, step, held, result, wait, list, losses>>

PressRecheck == ActOnCurrent(Recheck(current)) /\ offer' = FALSE
PressDelete  == ActOnCurrent(Delete(current)) /\ UNCHANGED offer

\* bomShareRejected: the press is the consent.
PressShare ==
    /\ open /\ offer /\ file # None /\ ~busy
    /\ busy' = TRUE /\ net' = net \cup {Share(file)}
    /\ UNCHANGED <<server, open, step, held, result, wait, offer, list, losses>>

LeaveProject ==
    /\ visible /\ ~open
    /\ visible' = FALSE
    /\ UNCHANGED <<server, modal, listed, listTimer, net, losses>>

\* openProject ends in renderProject and so in loadBomChecks.
ReturnToProject ==
    /\ ~visible
    /\ visible' = TRUE
    /\ net' = net \cup {List(FALSE)}
    /\ UNCHANGED <<server, modal, listed, listTimer, losses>>

-----------------------------------------------------------------------------
(* Answers.  `rest` is what else is sent in the same handler. *)

Handled(m, rest) == net' = (net \ {m}) \cup rest

\* showCheck: the offer is made only for the check of the file the page still holds.
ShowCheck(c, upl) ==
    /\ current' = c /\ shown' = c /\ step' = "result" /\ uploaded' = upl
    /\ offer' = (checkFile[c] \notin Known /\ upl = c /\ file \in Shareable)
    /\ UNCHANGED file

RunChecked(m) ==
    /\ ShowCheck(m.item.check, m.item.check)
    /\ Handled(m, {List(FALSE)})
    /\ UNCHANGED wait

RunQueued(m) ==
    /\ jobId' = m.item.job
    /\ armed' = {"held"} \cup (armed \ {"held"})
    /\ step' = "agent" /\ offer' = FALSE
    /\ Handled(m, {List(FALSE)})
    /\ UNCHANGED <<held, result>>

RunRefused(m) ==
    /\ offer' = (offer \/ (m.item.why = "retainable" /\ file \in Shareable))
    /\ Handled(m, {})
    /\ UNCHANGED <<step, held, result, wait>>

AnswerRun(m) ==
    /\ m.to.kind = "run"
    /\ busy' = FALSE
    /\ IF ~m.ok THEN RunRefused(m)
       ELSE IF "check" \in DOMAIN m.item THEN RunChecked(m) ELSE RunQueued(m)
    /\ UNCHANGED <<server, open, list, losses>>

\* Mutant of KeepPolling: a poll that is lost is not repeated.
KeepPollingIfOk(m) ==
    /\ IF m.ok THEN ArmTimer ELSE UNCHANGED armed
    /\ UNCHANGED <<step, held, result, jobId, offer>>
    /\ Handled(m, {})

KeepPolling(m) ==
    /\ ArmTimer
    /\ UNCHANGED <<step, held, result, jobId, offer>>
    /\ Handled(m, {})

ReadingDone(m) ==
    /\ StopPolling
    /\ Handled(m, {Get(m.item.check, "wait")})
    /\ UNCHANGED <<step, held, result, offer>>

ReadingFailed(m) ==
    /\ StopPolling
    /\ step' = "upload"
    /\ offer' = (file \in Shareable)
    /\ Handled(m, {List(FALSE)})
    /\ UNCHANGED <<held, result>>

AnswerPoll(m) ==
    /\ m.to.kind = "poll"
    /\ IF jobId # m.to.job
       THEN Handled(m, {}) /\ UNCHANGED <<step, held, result, wait, offer>>
       ELSE IF m.ok /\ m.item.phase = "done" THEN ReadingDone(m)
       ELSE IF m.ok /\ m.item.phase = "failed" THEN ReadingFailed(m)
       ELSE KeepPolling(m)
    /\ UNCHANGED <<server, open, busy, list, losses>>

\* The check a wait ended with, or the one opened from the list.  Neither answer
\* looks at what the user has done meanwhile.
AnswerGet(m) ==
    /\ m.to.kind = "get"
    /\ Handled(m, {List(FALSE) : w \in {m.to.why} \cap {"wait"}})
    /\ IF m.ok
       THEN ShowCheck(m.to.check, IF m.to.why = "wait" THEN m.to.check ELSE uploaded)
       ELSE /\ shown' = IF m.to.why = "open" THEN None ELSE shown
            /\ UNCHANGED <<step, held, current, offer>>
    /\ UNCHANGED <<server, open, wait, busy, list, losses>>

\* Mutant of Rendered: the new result is drawn and bomState.current left as it was.
RenderedOnly(c) == shown' = c /\ UNCHANGED current

Rendered(c) == current' = c /\ shown' = c

AnswerRecheck(m) ==
    /\ m.to.kind = "recheck"
    /\ busy' = FALSE
    /\ IF m.ok THEN Rendered(m.to.check) /\ Handled(m, {List(FALSE)})
               ELSE UNCHANGED result /\ Handled(m, {})
    /\ UNCHANGED <<server, open, step, held, wait, offer, list, losses>>

\* The modal closes when the list is back.
AnswerDelete(m) ==
    /\ m.to.kind = "delete"
    /\ busy' = FALSE
    /\ IF m.ok THEN current' = None /\ Handled(m, {List(TRUE)})
               ELSE UNCHANGED current /\ Handled(m, {})
    /\ UNCHANGED <<server, open, step, held, shown, wait, offer, list, losses>>

AnswerShare(m) ==
    /\ m.to.kind = "share"
    /\ busy' = FALSE
    /\ offer' = (offer /\ ~m.ok)
    /\ Handled(m, {})
    /\ UNCHANGED <<server, open, step, held, result, wait, list, losses>>

HandleAnswer(k) ==
    \E m \in net :
        /\ m.kind = "answer" /\ m.to.kind = k
        /\ \/ AnswerRun(m) \/ AnswerPoll(m) \/ AnswerGet(m)
           \/ AnswerRecheck(m) \/ AnswerDelete(m) \/ AnswerShare(m)

\* Mutant of Refreshing: the timer is set for a job that is new to the list only.
RefreshingOnce(jobs) ==
    \E j \in DOMAIN jobs : jobs[j] = "reading" /\ j \notin DOMAIN listed.jobs

Refreshing(jobs) == \E j \in DOMAIN jobs : jobs[j] = "reading"

\* loadBomChecks once both parts are back, and scheduleListRefresh.
ListArrives ==
    \E m \in net :
        /\ m.kind = "list" /\ m.checks # None /\ m.jobs # None
        /\ listed' = [checks |-> m.checks, jobs |-> m.jobs]
        /\ listTimer' = Refreshing(m.jobs)
        /\ Handled(m, {})
        /\ IF m.close
           THEN open' = FALSE /\ current' = None /\ shown' = None /\ busy' = FALSE
                /\ StopPolling
           ELSE UNCHANGED <<open, result, busy, wait>>
        /\ UNCHANGED <<server, step, held, offer, visible, losses>>

ListTimerFires ==
    /\ listTimer
    /\ listTimer' = FALSE
    /\ net' = net \cup {List(FALSE) : v \in {visible} \cap {TRUE}}
    /\ UNCHANGED <<server, modal, visible, listed, losses>>

-----------------------------------------------------------------------------
User ==
    /\ Cardinality({m \in net : m.kind # "list"}) < Patience
    /\ Cardinality({m \in net : m.kind = "list"}) < ListPatience
    /\ \/ OpenChecker \/ CloseChecker \/ Back \/ RunCheck
       \/ \E f \in Files : AcceptFile(f)
       \/ \E c \in Checks : OpenResult(c)
       \/ PressRecheck \/ PressDelete \/ PressShare
       \/ LeaveProject \/ ReturnToProject

Kinds == {"run", "poll", "get", "recheck", "delete", "share"}
Worker(j) == StartReading(j) \/ FinishReading(j)

Next ==
    \/ User \/ Lose \/ ServeChecks \/ ServeJobs \/ ListArrives \/ ListTimerFires
    \/ \E k \in Kinds : Serve(k) \/ HandleAnswer(k)
    \/ \E t \in {"held", "lost"} : PollTimerFires(t)
    \/ \E j \in Jobs : Worker(j)

Spec == Init /\ [][Next]_vars

\* Requests are answered, answers are handled, timers go off and the queue is
\* drained.  The user does not have to do anything.
LiveSpec ==
    /\ Spec
    /\ \A k \in {"run", "poll", "get"} : WF_vars(Serve(k)) /\ WF_vars(HandleAnswer(k))
    /\ WF_vars(ServeChecks) /\ WF_vars(ServeJobs) /\ WF_vars(ListArrives)
    /\ WF_vars(ListTimerFires)
    /\ \A t \in {"held", "lost"} : WF_vars(PollTimerFires(t))
    /\ \A j \in Jobs : WF_vars(Worker(j))

-----------------------------------------------------------------------------
TypeOK ==
    /\ jobFile \in [Jobs -> Files \cup {None}]
    /\ jobCheck \in [Jobs -> Checks \cup {None}]
    /\ checkFile \in [Checks -> Files \cup {None}]
    /\ deleted \subseteq {c \in Checks : checkFile[c] # None}
    /\ open \in BOOLEAN /\ step \in {"upload", "agent", "result"}
    /\ file \in Files \cup {None} /\ uploaded \in Checks \cup {None}
    /\ {current, shown} \subseteq {c \in Checks : checkFile[c] # None} \cup {None}
    /\ jobId \in Jobs \cup {None} /\ armed \subseteq {"held", "lost"}
    /\ busy \in BOOLEAN /\ offer \in BOOLEAN
    /\ \A j \in Jobs : status[j] = "done" => jobCheck[j] # None /\ checkFile[jobCheck[j]] = jobFile[j]
    /\ listed.checks \subseteq Checks /\ DOMAIN listed.jobs \subseteq Jobs
    /\ losses \in 0..MaxLosses

\* While the modal waits for a job its polling goes on, whatever polls are lost and
\* however often the user goes back and comes back to the same job: a timer is armed or
\* a poll is on its way.
PollingIsAlive ==
    jobId # None => armed # {} \/ \E m \in net : Request(m) = Poll(jobId)

\* Re-check and Delete act on the check the user is looking at, also when answers to
\* requests made before the modal was closed arrive after it was opened again.
ActsOnWhatIsShown ==
    open /\ step = "result" /\ current # None /\ shown # None => current = shown

\* The wait for the agent comes to an end, unless the request for the finished check
\* itself is lost: nothing asks for that one again.
Stranded == jobId = None /\ \A m \in net : Request(m).kind # "get"
WaitEnds == open /\ step = "agent" ~> ~open \/ step # "agent" \/ Stranded

ListedAsRead(j) == j \in DOMAIN listed.jobs /\ listed.jobs[j] = "reading"

\* A file does not stay listed as being read for ever once the agent is done with it.
ReadingRowsGo ==
    \A j \in Jobs : ListedAsRead(j) ~> ~ListedAsRead(j) \/ ~visible
=============================================================================
