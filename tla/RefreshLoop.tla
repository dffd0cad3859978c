----------------------------- MODULE RefreshLoop -----------------------------
(***************************************************************************)
(* The background refresh of a project screen (app/static/js/projects.js). *)
(*                                                                         *)
(* Opening a project queues its stale sizings; each is recalculated in a   *)
(* hidden iframe, a few at a time, that stores its result and posts a      *)
(* message.  A new run supersedes the one in flight.  What a frame does    *)
(* inside is ResultCache's business: here it reports, or never does.       *)
(*                                                                         *)
(* JavaScript runs one task at a time, so the body of a callback is a      *)
(* step, the promise reactions it triggers included.                       *)
(***************************************************************************)
EXTENDS Integers, Sequences, FiniteSets

CONSTANTS
    Sizings,          \* the rows a refresh takes: no DR target, none to re-import
    Projects,
    ProjectOf,        \* the project of each sizing
    RefreshParallel,  \* REFRESH_PARALLEL
    None,             \* no entry
    MaxAsks           \* how often the user opens or force-refreshes a project

ASSUME RefreshAssumption ==
    /\ Sizings \subseteq Nat /\ IsFiniteSet(Sizings)
    /\ ProjectOf \in [Sizings -> Projects]
    /\ RefreshParallel \in Nat \ {0}
    /\ MaxAsks \in Nat

\* A call of refreshOne, its iframe, its timer and its promise.
Calls == [run : Nat, sizing : Sizings]

ASSUME NoneIsNoCall == None \notin Calls

VARIABLES
    stale,       \* the server's answer: no current result is stored
    screen,      \* body.view-project, or elsewhere (a sizing, the list of projects)
    project,     \* currentProject
    fetches,     \* the openProject calls that wait for their answer
    asks,        \* ghost: the projects the user has opened or force-refreshed, in order
    runId, runProject,             \* refreshRunId, refreshProjectId
    targets,     \* the sizings of the run; refreshTotal is how many they are
    queue, active, done, failed,   \* refreshQueue, refreshActive, refreshDone, refreshFailed
    pending,     \* refreshPending: by sizing, the call whose entry it holds
    waiting,     \* the calls whose promise is not resolved
    frames,      \* the calls whose iframe is in the document
    reported,    \* those of them that have nothing more to say
    timers,      \* the armed timeouts, oldest first: all have the same delay
    mail         \* the messages posted and not yet handled

pageVars  == <<screen, project, fetches, asks>>
runVars   == <<runId, runProject, targets, queue, active, done, failed>>
frameVars == <<pending, waiting, frames, timers>>
vars == <<stale, pageVars, runVars, frameVars, reported, mail>>

SizingsOf(p) == {s \in Sizings : ProjectOf[s] = p}
StaleOf(p) == {s \in SizingsOf(p) : stale[s]}

\* The rows of a project come in one order.
InOrder(S) ==
    CHOOSE q \in [1..Cardinality(S) -> S] : \A i, j \in DOMAIN q : i < j => q[i] < q[j]

Underway == queue # <<>> \/ active > 0

Init ==
    /\ stale \in [Sizings -> BOOLEAN]
    /\ screen = "elsewhere"
    /\ project = None
    /\ fetches = {}
    /\ asks = <<>>
    /\ runId = 0 /\ runProject = None /\ targets = {}
    /\ queue = <<>> /\ active = 0 /\ done = 0 /\ failed = 0
    /\ pending = [s \in Sizings |-> None]
    /\ waiting = {} /\ frames = {} /\ reported = {}
    /\ timers = <<>>
    /\ mail = {}

-----------------------------------------------------------------------------
(* Starting frames. *)

\* Mutant of Room: one frame too many.
RoomForOneMore(a) == RefreshParallel - a + 1

Room(a) == RefreshParallel - a

\* Mutant of Armed: a frame gets no timeout.
NeverArmed(calls) == <<>>

Armed(calls) == calls

\* The while loop of pump, on a queue q with a frames at work, for run r; kept is what is
\* left of the entries, promises, frames and timers of before.
Pump(r, q, a, kept) ==
    LET n     == IF Room(a) < Len(q) THEN Room(a) ELSE Len(q)
        calls == [i \in 1..n |-> [run |-> r, sizing |-> q[i]]]
        begun == {calls[i] : i \in 1..n}
    IN  /\ queue' = SubSeq(q, n + 1, Len(q))
        /\ active' = a + n
        /\ pending' = [s \in Sizings |-> IF \E c \in begun : c.sizing = s
                                         THEN [run |-> r, sizing |-> s]
                                         ELSE kept.pending[s]]
        /\ waiting' = kept.waiting \cup begun
        /\ frames' = kept.frames \cup begun
        /\ timers' = kept.timers \o Armed(calls)

Now == [pending |-> pending, waiting |-> waiting, frames |-> frames, timers |-> timers]

\* refreshStaleSizings with the rows S: nothing to do, or a new run that supersedes
\* whatever is in flight, whose frames stay where they are.
StartRun(p, S) ==
    IF S = {} THEN UNCHANGED <<runVars, frameVars>>
    ELSE /\ runId' = runId + 1
         /\ runProject' = p
         /\ targets' = S
         /\ done' = 0 /\ failed' = 0
         /\ Pump(runId + 1, InOrder(S), 0, Now)

-----------------------------------------------------------------------------
(* The user and the page. *)

MayAsk(p) ==
    /\ Len(asks) < MaxAsks
    /\ asks' = Append(asks, p)

\* openProject up to its await: by the user, or after one of the many edits that end in it.
OpenProject(p) ==
    /\ MayAsk(p)
    /\ fetches' = fetches \cup
            {[project |-> p, rows |-> StaleOf(p), reload |-> FALSE, no |-> Len(asks)]}
    /\ UNCHANGED <<stale, screen, project, runVars, frameVars, reported, mail>>

\* Its rest: the project is shown and, unless suppressed, the rows the answer has as stale
\* are refreshed.  The server answered at some time since it was asked.
FetchLands(f) ==
    /\ f \in fetches
    /\ fetches' = fetches \ {f}
    /\ project' = f.project
    /\ screen' = "project"
    /\ IF f.reload THEN UNCHANGED <<runVars, frameVars>>
       ELSE \E S \in SUBSET f.rows : StaleOf(f.project) \subseteq S /\ StartRun(f.project, S)
    /\ UNCHANGED <<stale, asks, reported, mail>>

\* The project cannot be had: back to the list.
FetchFails(f) ==
    /\ f \in fetches
    /\ fetches' = fetches \ {f}
    /\ screen' = "elsewhere"
    /\ UNCHANGED <<stale, project, asks, runVars, frameVars, reported, mail>>

\* refreshProjectNow
ForceRefresh ==
    /\ screen = "project"
    /\ MayAsk(project)
    /\ StartRun(project, SizingsOf(project))
    /\ UNCHANGED <<stale, screen, project, fetches, reported, mail>>

\* A sizing or the list of projects is shown; the refresh goes on.
LeaveProject ==
    /\ screen = "project"
    /\ screen' = "elsewhere"
    /\ UNCHANGED <<stale, project, fetches, asks, runVars, frameVars, reported, mail>>

-----------------------------------------------------------------------------
(* The frames. *)

\* A frame has stored its result, or failed to, and says so.
FrameReports(c, ok) ==
    /\ c \in frames \ reported
    /\ reported' = reported \cup {c}
    /\ stale' = IF ok THEN [stale EXCEPT ![c.sizing] = FALSE] ELSE stale
    /\ mail' = mail \cup {[call |-> c, ok |-> ok]}
    /\ UNCHANGED <<pageVars, runVars, frameVars>>

\* Mutant of ReloadOf: the reload refreshes in turn.
LoudReloadOf(p) ==
    [project |-> p, rows |-> StaleOf(p), reload |-> FALSE, no |-> Len(asks)]

ReloadOf(p) == [project |-> p, rows |-> {}, reload |-> TRUE, no |-> runId]

\* renderRefreshProgress(true): the project is fetched again if the user is still on it.
AtTheEnd ==
    fetches' = IF queue' = <<>> /\ active' = 0 /\ screen = "project" /\ project = runProject
               THEN fetches \cup {ReloadOf(project)} ELSE fetches

\* Mutant of Counts: the promise of a superseded run is counted too.
CountsAlways(c) == TRUE

Counts(c) == c.run = runId

\* clearTimeout of call e's timer, if it is still armed; a call arms one.
Cancelled(armed, e) ==
    IF \E i \in DOMAIN armed : armed[i] = e
    THEN LET k == CHOOSE i \in DOMAIN armed : armed[i] = e
         IN  SubSeq(armed, 1, k - 1) \o SubSeq(armed, k + 1, Len(armed))
    ELSE armed

\* finish(ok) of call c: whatever entry its sizing has is removed, with that entry's frame
\* and timer; c's own promise is resolved; a call of the current run makes room.
Finish(c, ok, armed) ==
    LET e    == pending[c.sizing]
        kept == [pending |-> [pending EXCEPT ![c.sizing] = None],
                 waiting |-> waiting \ {c},
                 frames  |-> frames \ {e},
                 timers  |-> Cancelled(armed, e)]
    IN  IF Counts(c)
        THEN /\ done' = done + 1
             /\ failed' = IF ok THEN failed ELSE failed + 1
             /\ Pump(runId, queue, active - 1, kept)
             /\ AtTheEnd
             /\ UNCHANGED <<runId, runProject, targets>>
        ELSE /\ pending' = kept.pending /\ waiting' = kept.waiting
             /\ frames' = kept.frames /\ timers' = kept.timers
             /\ UNCHANGED <<runVars, fetches>>

\* The message listener goes by the sizing: the entry there may be of a later run.
Deliver(m) ==
    LET e == pending[m.call.sizing] IN
    /\ m \in mail
    /\ mail' = mail \ {m}
    /\ IF e = None THEN UNCHANGED <<runVars, frameVars, fetches>>
       ELSE Finish(e, m.ok, timers)
    /\ UNCHANGED <<stale, screen, project, asks, reported>>

\* Mutant of TimedOut: a timeout passes for a success.
TimedOutWell == TRUE

TimedOut == FALSE

\* REFRESH_TIMEOUT_MS after a call began.
TimerFires ==
    LET c == Head(timers) IN
    /\ timers # <<>>
    /\ IF pending[c.sizing] = None
       THEN timers' = Tail(timers) /\ UNCHANGED <<runVars, pending, waiting, frames, fetches>>
       ELSE Finish(c, TimedOut, Tail(timers))
    /\ UNCHANGED <<stale, screen, project, asks, reported, mail>>

-----------------------------------------------------------------------------
User ==
    \/ \E p \in Projects : OpenProject(p)
    \/ ForceRefresh
    \/ LeaveProject

Page ==
    \/ \E f \in fetches : FetchLands(f)
    \/ \E f \in fetches : FetchFails(f)
    \/ \E c \in frames, ok \in BOOLEAN : FrameReports(c, ok)
    \/ \E m \in mail : Deliver(m)
    \/ TimerFires

Next == User \/ Page

Spec == Init /\ [][Next]_vars

\* The event loop gets to every message and every timeout.  A frame may hang for good.
EventLoop == WF_vars(TimerFires) /\ WF_vars(\E m \in mail : Deliver(m))

LoopSpec == Spec /\ EventLoop

-----------------------------------------------------------------------------
TypeOK ==
    /\ stale \in [Sizings -> BOOLEAN]
    /\ screen \in {"project", "elsewhere"}
    /\ project \in Projects \cup {None}
    /\ fetches \subseteq [project : Projects, rows : SUBSET Sizings, reload : BOOLEAN, no : Nat]
    /\ asks \in Seq(Projects)
    /\ runId \in Nat
    /\ runProject \in Projects \cup {None}
    /\ targets \subseteq Sizings
    /\ queue \in Seq(Sizings)
    /\ active \in 0..RefreshParallel
    /\ done \in Nat
    /\ failed \in 0..done
    /\ pending \in [Sizings -> Calls \cup {None}]
    /\ \A s \in Sizings : pending[s] # None => pending[s].sizing = s
    /\ waiting \subseteq Calls /\ frames \subseteq Calls /\ reported \subseteq Calls
    /\ timers \in Seq(Calls)
    /\ mail \subseteq [call : Calls, ok : BOOLEAN]

\* The counters speak of the current run only, whatever frames of earlier ones still
\* report or time out ("a second run would otherwise corrupt the first one's progress"):
\* those at work are its unresolved calls, and the progress bar adds up.
CountersBelongToTheRun ==
    /\ active = Cardinality({c \in waiting : c.run = runId})
    /\ done + active + Len(queue) = Cardinality(targets)

\* A run that ends and reports no failure has left every row it took with a current
\* result, even where a frame of an earlier run did the work ("Say so rather than leave
\* rows sitting on 'Not sized'").
SilentEndIsFresh ==
    runId > 0 /\ ~Underway /\ failed = 0 => \A s \in targets : ~stale[s]

\* No run begins that nobody asked for: the reload at the end of a run does not start the
\* next ("or the reload would start the loop again and never settle").
RunsAreAskedFor == runId <= Len(asks)

\* A frame at work on a sizing that a later run refreshes again: refreshPending has only
\* one entry for the two calls.
Overlapped == \E c \in frames : pending[c.sizing] # c

\* A run comes to its end whichever of its frames hang, report late, fail or are
\* superseded, as long as no two frames are at work on one sizing.
RunEndsUnlessOverlapped == Underway ~> (~Underway \/ Overlapped)

\* The same without the condition, as the comment has it ("a refresh that never reports
\* back must not wedge the queue").
RefreshEnds == Underway ~> ~Underway
=============================================================================
