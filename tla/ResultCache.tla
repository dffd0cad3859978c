----------------------------- MODULE ResultCache -----------------------------
(***************************************************************************)
(* The stored result of a sizing and its validity fingerprint.             *)
(*                                                                         *)
(* A browser opens a sizing, fetches its inbound replication reserve, has  *)
(* the server calculate, and stores the outcome; the server fingerprints   *)
(* what it stores (app/projects.py, app/auth.py, app/fingerprint.py) and   *)
(* later calls the result fresh while the fingerprint still matches.       *)
(*                                                                         *)
(* Two kinds of client: a window, in which somebody edits and saves, and   *)
(* a refresh frame, a hidden iframe that recalculates one stale sizing and *)
(* goes away.  Every request and every answer is a step of its own.        *)
(*                                                                         *)
(* Payloads, settings and catalog states are members of small sets, equal  *)
(* exactly when their digests are; an edit may restore an earlier value.   *)
(***************************************************************************)
EXTENDS Integers, FiniteSets

CONSTANTS
    Sizings,       \* ids of the sizings of one project
    DrTargets,     \* those without a workload, sized from what replicates into them
    Payloads,      \* the inputs of a sizing
    ReadsCatalog,  \* the payloads whose result reads catalog rows (refs of mode "appliance")
    Settings,      \* engine version and tunables
    Catalogs,      \* values of the catalog rows the refs resolve to
    Terms,         \* compute_pct, storage_pct and mode of a replication link
    Windows,       \* browser windows
    Frames,        \* refresh frames
    None,          \* NULL
    MaxChanges,    \* edits, saves and administrator's changes in a behaviour
    MaxFaults      \* lost answers and abandoned frames in a behaviour

Clients == Windows \cup Frames

Links == [target : Sizings, terms : Terms]

Reserves == SUBSET [source : Sizings, demand : Payloads, terms : Terms]

Requests == [sizing : Sizings, inputs : Payloads, reserve : Reserves]

Results == [payload : Payloads, reserve : Reserves, settings : Settings,
            catalog : Catalogs \cup {None}, edition : Nat]

Stamps == [settings : Settings, clock : Nat, catalog : Catalogs \cup {None},
           inbound : SUBSET [place : Nat, digest : Payloads \cup {None}, terms : Terms]]

ASSUME CacheAssumption ==
    /\ Sizings \subseteq Nat /\ IsFiniteSet(Sizings) /\ DrTargets \subseteq Sizings
    /\ Windows \cap Frames = {}
    /\ None \notin Links /\ None \notin Results /\ None \notin Stamps
    /\ MaxChanges \in Nat /\ MaxFaults \in Nat

VARIABLES
    payload,      \* the saved inputs
    digest,       \* payload_digest; None on a DR target that was never saved
    deleted,      \* is_deleted
    link,         \* the replication link out of a sizing: None, or target and terms
    result,       \* result_snapshot: None, or what it was calculated from
    fingerprint,  \* result_fingerprint: what the hash was taken over
    overtaken,    \* ghost: settings or catalog changed between calculating and storing
    settings,     \* the engine and the tunables now
    catalog,      \* the catalog now
    clock,        \* auth_last_purge_at, a row of the tunables' own table
    edition,      \* ghost: how often settings or catalog have been changed
    screen,       \* what each client has open, and how far it is
    shown,        \* lastRecommendations and lastSummary of each client, by mode
    asked,        \* the calculations each client is waiting for
    changes, faults

sizingVars == <<payload, digest, deleted, link>>
cacheVars  == <<result, fingerprint, overtaken>>
globalVars == <<settings, catalog, clock, edition>>
clientVars == <<screen, shown, asked>>
vars == <<sizingVars, cacheVars, globalVars, clientVars, changes, faults>>

-----------------------------------------------------------------------------
(* What a result is calculated from. *)

Inbound(t) == {s \in Sizings : link[s] # None /\ link[s].target = t}

\* _source_cluster_parts: the source's stored result first, its payload otherwise.
Demand(s) == IF result[s] # None THEN result[s].payload ELSE payload[s]

\* _dr_inbound_reserve: every link in, except from a deleted source.
Reserve(t) ==
    {[source |-> s, demand |-> Demand(s), terms |-> link[s].terms] :
        s \in {r \in Inbound(t) : ~deleted[r]}}

\* The catalog as far as a calculation of p reads it.
CatalogRead(p) == IF p \in ReadsCatalog THEN catalog ELSE None

\* What a request q makes the server calculate now; /dr-recommend works the reserve out
\* itself, /api/recommend is handed the one the client fetched.
Calculated(q) ==
    [payload  |-> q.inputs,
     reserve  |-> IF q.sizing \in DrTargets THEN Reserve(q.sizing) ELSE q.reserve,
     settings |-> settings,
     catalog  |-> CatalogRead(q.inputs),
     edition  |-> edition]

-----------------------------------------------------------------------------
(* The fingerprint. *)

\* Mutant of InboundDigest: what the sources stored last is folded in.
InboundDigestOfResults(t) ==
    {[place |-> Cardinality({r \in Inbound(t) : r < s}), digest |-> result[s],
      terms |-> link[s].terms] : s \in Inbound(t)}

\* inbound_replication_digest: a list ordered by source id of each source's payload
\* digest (a deleted source's too) and the terms of its link.
InboundDigest(t) ==
    {[place |-> Cardinality({r \in Inbound(t) : r < s}), digest |-> digest[s],
      terms |-> link[s].terms] : s \in Inbound(t)}

\* Mutant of Fingerprint: the catalog rows are left out.
FingerprintNoCatalog(s, r) ==
    [settings |-> settings, clock |-> clock, catalog |-> None, inbound |-> InboundDigest(s)]

\* fingerprint_snapshot of result r: over the engine, every row of the tunables' table,
\* the catalog rows its refs name and the links into s, all as they are when it is taken.
Fingerprint(s, r) ==
    [settings |-> settings, clock |-> clock, catalog |-> CatalogRead(r.payload),
     inbound |-> InboundDigest(s)]

\* Mutants of Stamp: nothing is recorded for a sizing nothing replicates into; the links
\* are forgotten.
StampTargetsOnly(s, r) == IF Inbound(s) = {} THEN None ELSE Fingerprint(s, r)
StampWithoutLinks(s, r) == [Fingerprint(s, r) EXCEPT !.inbound = {}]

\* What store_sizing_result records.
Stamp(s, r) == Fingerprint(s, r)

\* result_state: "fresh" as against "stale" and "none".
Fresh(s) == result[s] # None /\ fingerprint[s] = Fingerprint(s, result[s])

-----------------------------------------------------------------------------
Away == [pc |-> "idle", sizing |-> None, inputs |-> None, reserve |-> {}, taken |-> None]

Opened(s, pc) ==
    [pc |-> pc, sizing |-> s, inputs |-> payload[s], reserve |-> {}, taken |-> None]

NothingShown == [dr |-> None, import |-> None]

\* A project as it is first filled: linked, and not sized.
Init ==
    /\ payload \in [Sizings -> Payloads]
    /\ digest = [s \in Sizings |-> IF s \in DrTargets THEN None ELSE payload[s]]
    /\ deleted = [s \in Sizings |-> FALSE]
    /\ link \in [Sizings -> Links \cup {None}]
    /\ \A s \in Sizings : link[s] # None => s \notin DrTargets /\ link[s].target # s
    /\ result = [s \in Sizings |-> None]
    /\ fingerprint = [s \in Sizings |-> None]
    /\ overtaken = [s \in Sizings |-> FALSE]
    /\ settings \in Settings
    /\ catalog \in Catalogs
    /\ clock = 0
    /\ edition = 0
    /\ screen = [c \in Clients |-> Away]
    /\ shown = [c \in Clients |-> NothingShown]
    /\ asked = [c \in Clients |-> {}]
    /\ changes = 0
    /\ faults = 0

Change ==
    /\ changes < MaxChanges
    /\ changes' = changes + 1
    /\ UNCHANGED faults

Fault ==
    /\ faults < MaxFaults
    /\ faults' = faults + 1
    /\ UNCHANGED changes

Routine == UNCHANGED <<changes, faults>>

-----------------------------------------------------------------------------
(* The administrator: tunables (or a new release's engine) and catalog rows; and a
   login, which may run the retention purge. *)

ChangeSettings ==
    /\ Change
    /\ settings' \in Settings \ {settings}
    /\ edition' = edition + 1
    /\ UNCHANGED <<sizingVars, cacheVars, catalog, clock, clientVars>>

ChangeCatalog ==
    /\ Change
    /\ catalog' \in Catalogs \ {catalog}
    /\ edition' = edition + 1
    /\ UNCHANGED <<sizingVars, cacheVars, settings, clock, clientVars>>

\* maybe_purge at a login, a day after the last: the purge's clock moves on.
PurgeAtLogin ==
    /\ Change
    /\ clock' = clock + 1
    /\ UNCHANGED <<sizingVars, cacheVars, settings, catalog, edition, clientVars>>

-----------------------------------------------------------------------------
(* The project: links and deletion.  A DR target is never a source here. *)

\* set_replication_link: one target per source; mutual links are allowed.
SetLink(s, t, terms) ==
    /\ Change
    /\ ~deleted[s] /\ ~deleted[t]
    /\ s # t /\ s \notin DrTargets
    /\ link' = [link EXCEPT ![s] = [target |-> t, terms |-> terms]]
    /\ UNCHANGED <<payload, digest, deleted, cacheVars, globalVars, clientVars>>

ClearLink(s) ==
    /\ Change
    /\ ~deleted[s] /\ link[s] # None
    /\ link' = [link EXCEPT ![s] = None]
    /\ UNCHANGED <<payload, digest, deleted, cacheVars, globalVars, clientVars>>

\* delete_config: refused while a live sizing replicates into s; its own link out stays.
DeleteSizing(s) ==
    /\ Change
    /\ ~deleted[s]
    /\ \A r \in Inbound(s) : deleted[r]
    /\ deleted' = [deleted EXCEPT ![s] = TRUE]
    /\ UNCHANGED <<payload, digest, link, cacheVars, globalVars, clientVars>>

-----------------------------------------------------------------------------
(* A client: open, restore, recalculate. *)

Request(s, p, reserve) == [sizing |-> s, inputs |-> p, reserve |-> reserve]

\* GET /api/configs/<id>.  A frame is made for a sizing that is not a DR target, stale
\* or, when the user forces it, any (refreshStaleSizings).  A window on a DR target asks
\* for its sizes at once (enterDrTarget), the previous one's still in lastRecommendations.
OpenSizing(c, s) ==
    /\ screen[c].pc = "idle" /\ ~deleted[s]
    /\ c \in Frames => s \notin DrTargets
    /\ \/ /\ s \in DrTargets
          /\ screen' = [screen EXCEPT ![c] = Opened(s, "ready")]
          /\ asked' = [asked EXCEPT ![c] = @ \cup {Request(s, payload[s], {})}]
       \/ /\ s \notin DrTargets
          /\ screen' = [screen EXCEPT ![c] = Opened(s, "opened")]
          /\ UNCHANGED asked
    /\ Routine
    /\ UNCHANGED <<sizingVars, cacheVars, globalVars, shown>>

\* restoreSizingState with the reserve that came back: a recalculation is asked for, and
\* nothing is shown until it is answered.
Restore(c, reserve) ==
    /\ screen[c].pc = "opened"
    /\ screen' = [screen EXCEPT ![c].pc = "ready", ![c].reserve = reserve]
    /\ asked' = [asked EXCEPT ![c] =
            @ \cup {Request(screen[c].sizing, screen[c].inputs, reserve)}]
    /\ UNCHANGED <<sizingVars, cacheVars, globalVars, shown>>

\* GET /api/sizings/<id>/inbound-reserve; a sizing deleted meanwhile has none (404).
FetchReserve(c) ==
    /\ Restore(c, IF deleted[screen[c].sizing] THEN {} ELSE Reserve(screen[c].sizing))
    /\ Routine

\* setInboundReserve(inb.ok ? inb.data : null)
FetchReserveFails(c) == Restore(c, {}) /\ Fault

\* What is shown of an imported sizing counts while one is on the screen: the next
\* restore clears it.
Showing(c) ==
    screen[c].pc \in {"ready", "saved"} /\ screen[c].sizing \notin DrTargets

\* An answer lands, in any order and whatever has been opened since.  Sizing a DR target
\* when nothing replicates into it yields no recommendation.
Answer(c, q) ==
    /\ q \in asked[c]
    /\ asked' = [asked EXCEPT ![c] = @ \ {q}]
    /\ \/ /\ q.sizing \in DrTargets
          /\ shown' = [shown EXCEPT ![c].dr =
                IF Reserve(q.sizing) = {} THEN None ELSE Calculated(q)]
       \/ /\ q.sizing \notin DrTargets /\ Showing(c)
          /\ shown' = [shown EXCEPT ![c].import = Calculated(q)]
       \/ /\ q.sizing \notin DrTargets /\ ~Showing(c)
          /\ UNCHANGED shown
    /\ Routine
    /\ UNCHANGED <<sizingVars, cacheVars, globalVars, screen>>

\* A recalculation fails: what was shown stays.
LoseAnswer(c, q) ==
    /\ q \in asked[c]
    /\ Fault
    /\ asked' = [asked EXCEPT ![c] = @ \ {q}]
    /\ UNCHANGED <<sizingVars, cacheVars, globalVars, screen, shown>>

-----------------------------------------------------------------------------
(* A window: edit, save, store, leave. *)

\* A control changes and recalcRecommendations (or sizeDrTarget) is called, also while a
\* save is on its way.
Edit(c, p) ==
    /\ c \in Windows /\ screen[c].pc \in {"ready", "saved"}
    /\ p # screen[c].inputs
    /\ Change
    /\ screen' = [screen EXCEPT ![c].inputs = p]
    /\ asked' = [asked EXCEPT ![c] =
            @ \cup {Request(screen[c].sizing, p, screen[c].reserve)}]
    /\ UNCHANGED <<sizingVars, cacheVars, globalVars, shown>>

\* saveDrTarget takes what it will store off the screen before it saves.
Taken(c) == IF screen[c].sizing \in DrTargets THEN shown[c].dr ELSE None

\* Mutant of Save: the digest is not kept in step.
SaveWithoutDigest(c) ==
    LET s == screen[c].sizing IN
    /\ c \in Windows /\ screen[c].pc = "ready"
    /\ s \in DrTargets => shown[c].dr # None
    /\ ~deleted[s]
    /\ Change
    /\ payload' = [payload EXCEPT ![s] = screen[c].inputs]
    /\ screen' = [screen EXCEPT ![c].pc = "saved", ![c].taken = Taken(c)]
    /\ UNCHANGED <<digest, deleted, link, cacheVars, globalVars, shown, asked>>

\* update_config: the inputs and their digest; the stored result is left as it is.
\* saveDrTarget wants something on the screen, the other save only inputs.
Save(c) ==
    LET s == screen[c].sizing IN
    /\ c \in Windows /\ screen[c].pc = "ready"
    /\ s \in DrTargets => shown[c].dr # None
    /\ ~deleted[s]
    /\ Change
    /\ payload' = [payload EXCEPT ![s] = screen[c].inputs]
    /\ digest' = [digest EXCEPT ![s] = screen[c].inputs]
    /\ screen' = [screen EXCEPT ![c].pc = "saved", ![c].taken = Taken(c)]
    /\ UNCHANGED <<deleted, link, cacheVars, globalVars, shown, asked>>

\* What a client has to store: for a DR target what it took, otherwise what is on the
\* screen by now (buildResultSnapshot).
Outcome(c) ==
    IF screen[c].sizing \in DrTargets THEN screen[c].taken ELSE shown[c].import

\* A window that has saved, or a frame that has something to report.
Sending(c) ==
    /\ screen[c].pc = IF c \in Windows THEN "saved" ELSE "ready"
    /\ Outcome(c) # None

\* Back to the project: answers on their way still land.
GoBack(c) ==
    /\ screen' = [screen EXCEPT ![c] = Away]
    /\ shown' = [shown EXCEPT ![c].import = None]
    /\ UNCHANGED asked

\* A frame is destroyed with all it held.
Vanish(c) ==
    /\ screen' = [screen EXCEPT ![c] = Away]
    /\ shown' = [shown EXCEPT ![c] = NothingShown]
    /\ asked' = [asked EXCEPT ![c] = {}]

\* The window stays on an imported sizing and goes back from a DR target.
Sent(c) ==
    \/ /\ c \in Windows /\ screen[c].sizing \notin DrTargets
       /\ screen' = [screen EXCEPT ![c].pc = "ready"]
       /\ UNCHANGED <<shown, asked>>
    \/ c \in Windows /\ screen[c].sizing \in DrTargets /\ GoBack(c)
    \/ c \in Frames /\ Vanish(c)

\* PUT /api/sizings/<id>/result: whatever has happened since it was calculated.
StoreResult(c) ==
    LET s == screen[c].sizing
        r == Outcome(c)
    IN  /\ Sending(c) /\ ~deleted[s]
        /\ result' = [result EXCEPT ![s] = r]
        /\ fingerprint' = [fingerprint EXCEPT ![s] = Stamp(s, r)]
        /\ overtaken' = [overtaken EXCEPT ![s] = r.edition # edition]
        /\ Sent(c)
        /\ Routine
        /\ UNCHANGED <<sizingVars, globalVars>>

\* The sizing was deleted: 404.
StoreRefused(c) ==
    /\ Sending(c) /\ deleted[screen[c].sizing]
    /\ Sent(c)
    /\ Routine
    /\ UNCHANGED <<sizingVars, cacheVars, globalVars>>

\* The request fails; storing is best-effort.
StoreFails(c) ==
    /\ Sending(c)
    /\ Sent(c)
    /\ Fault
    /\ UNCHANGED <<sizingVars, cacheVars, globalVars>>

\* buildResultSnapshot found nothing on the screen: the save stands alone.
StoreNothing(c) ==
    /\ c \in Windows /\ screen[c].pc = "saved" /\ Outcome(c) = None
    /\ screen' = [screen EXCEPT ![c].pc = "ready"]
    /\ Routine
    /\ UNCHANGED <<sizingVars, cacheVars, globalVars, shown, asked>>

Leave(c) ==
    /\ c \in Windows /\ screen[c].pc # "idle"
    /\ GoBack(c)
    /\ Routine
    /\ UNCHANGED <<sizingVars, cacheVars, globalVars>>

\* A frame goes away without having reported.
GiveUp(c) ==
    /\ c \in Frames /\ screen[c].pc # "idle"
    /\ Vanish(c)
    /\ UNCHANGED <<sizingVars, cacheVars, globalVars>>

\* Its answer was lost: no result after 20 s, and it says so.
ReportNoResult(c) ==
    /\ screen[c].pc = "ready" /\ asked[c] = {} /\ Outcome(c) = None
    /\ GiveUp(c)
    /\ Routine

\* REFRESH_TIMEOUT_MS is over while it is still at work, or the page is gone.
AbandonFrame(c) == GiveUp(c) /\ Fault

-----------------------------------------------------------------------------
Administration ==
    \/ ChangeSettings
    \/ ChangeCatalog
    \/ PurgeAtLogin
    \/ \E s, t \in Sizings, terms \in Terms : SetLink(s, t, terms)
    \/ \E s \in Sizings : ClearLink(s)
    \/ \E s \in Sizings : DeleteSizing(s)

ClientStep(c) ==
    \/ \E s \in Sizings : OpenSizing(c, s)
    \/ FetchReserve(c)
    \/ FetchReserveFails(c)
    \/ \E q \in asked[c] : Answer(c, q)
    \/ \E q \in asked[c] : LoseAnswer(c, q)
    \/ \E p \in Payloads : Edit(c, p)
    \/ Save(c)
    \/ StoreResult(c)
    \/ StoreRefused(c)
    \/ StoreFails(c)
    \/ StoreNothing(c)
    \/ Leave(c)
    \/ ReportNoResult(c)
    \/ AbandonFrame(c)

Next == Administration \/ \E c \in Clients : ClientStep(c)

Spec == Init /\ [][Next]_vars

\* The refresh loop takes every stale sizing off its queue in turn (strong fairness of
\* making a frame for it), and a frame gets on with its requests.
RefreshFairness ==
    /\ \A s \in Sizings : SF_vars(\E c \in Frames : OpenSizing(c, s))
    /\ \A c \in Frames :
        /\ WF_vars(FetchReserve(c))
        /\ WF_vars(\E q \in asked[c] : Answer(c, q))
        /\ WF_vars(StoreResult(c) \/ StoreRefused(c) \/ ReportNoResult(c))

RefreshSpec == Spec /\ RefreshFairness

-----------------------------------------------------------------------------
(* Properties. *)

Screens == [pc : {"opened", "ready", "saved"}, sizing : Sizings,
            inputs : Payloads, reserve : Reserves, taken : Results \cup {None}]

Shows == [dr : Results \cup {None}, import : Results \cup {None}]

\* Every variable has its type; a result is never stored without the fingerprint that
\* lets it be checked later (store_sizing_result's refusal), nor a client anywhere
\* without a sizing.
TypeOK ==
    /\ payload \in [Sizings -> Payloads]
    /\ digest \in [Sizings -> Payloads \cup {None}]
    /\ deleted \in [Sizings -> BOOLEAN]
    /\ link \in [Sizings -> Links \cup {None}]
    /\ result \in [Sizings -> Results \cup {None}]
    /\ fingerprint \in [Sizings -> Stamps \cup {None}]
    /\ \A s \in Sizings : (result[s] = None) = (fingerprint[s] = None)
    /\ overtaken \in [Sizings -> BOOLEAN]
    /\ settings \in Settings
    /\ catalog \in Catalogs
    /\ clock \in Nat
    /\ edition \in Nat
    /\ screen \in [Clients -> Screens \cup {Away}]
    /\ shown \in [Clients -> Shows]
    /\ asked \in [Clients -> SUBSET Requests]
    /\ changes \in 0..MaxChanges
    /\ faults \in 0..MaxFaults

\* A result called fresh was calculated with the engine, the tunables and the catalog
\* rows of today, unless these changed between its calculation and its storing: neither
\* an edit that is undone, nor an answer that lands late, nor a failed refresh lets an
\* outdated number pass for current (fingerprint.py).
HonestUnlessOvertaken ==
    \A s \in Sizings : Fresh(s) /\ ~overtaken[s] =>
        /\ result[s].settings = settings
        /\ result[s].catalog = CatalogRead(result[s].payload)

\* What the target t is told about the inputs it depends on.
Watched(t) == [s \in Inbound(t) |-> <<payload[s], link[s].terms>>]

\* Whatever changes a source's saved inputs, the terms of a link or which sizings
\* replicate in, a result stored for the target before is no longer called fresh
\* (inbound_replication_digest, update_config).
InputChangesReachTheTarget ==
    [][\A t \in Sizings :
          Fresh(t) /\ result'[t] = result[t] /\ Watched(t)' # Watched(t) => ~Fresh(t)']_vars

\* Storing a result makes no other sizing stale: two sizings that replicate to each
\* other do not invalidate each other for ever (set_replication_link: "well-defined
\* rather than circular").
StoringNeverStalesOthers ==
    [][\A c \in Clients : StoreResult(c) =>
          \A t \in Sizings \ {screen[c].sizing} : Fresh(t)' = Fresh(t)]_vars

\* Once nobody changes anything and requests get through, the refresh loop comes to an
\* end with every live sizing current; it leaves DR targets alone (refreshStaleSizings).
RefreshSettles ==
    <>[](\A s \in Sizings \ DrTargets : deleted[s] \/ Fresh(s))

=============================================================================
