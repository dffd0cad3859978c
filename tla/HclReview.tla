------------------------------ MODULE HclReview ------------------------------
(***************************************************************************)
(* The hardware compatibility list and the queue that guards it            *)
(* (bom/hcl_sync.py, hcl_admin_routes.py, bom/preview.py).  A scrape of    *)
(* the vendor's site, or an imported snapshot, changes nothing by itself:  *)
(* its differences with the catalog become pending rows, a newer run       *)
(* retires the rows it does not confirm, and an administrator approves or  *)
(* rejects what is left, in any order.  Parts may also be accepted ahead   *)
(* of publication: the site does not list those, and no run may retract    *)
(* them.                                                                   *)
(*                                                                         *)
(* A snapshot holds, of each platform, its page: which parts it lists and  *)
(* which of them it marks "TCE certified"; and the description of each     *)
(* part.  A partial snapshot misses pages.  What a row would write follows *)
(* from the snapshot its run stored, so a row carries no payload.  A run's *)
(* build is one transaction and is taken as one step.  Devices and the     *)
(* platforms' own fields are diffed and applied like the description and   *)
(* are left out, and so are platforms accepted ahead of publication.       *)
(***************************************************************************)
EXTENDS Integers, SequencesExt, FiniteSetsExt

CONSTANTS
    Components, Platforms,  \* numbered in the order of their keys, parts first
    Texts,                  \* descriptions
    None,
    Sites,                  \* what the site may publish: complete snapshots
    MaxRuns,
    MaxDetours              \* of time-outs, crashes, failed builds, rejections, rows
                            \* approved again, acceptances and withdrawals, together

Marks    == {"no", "plain", "tce"}
Pages    == [Components -> Marks]
Snapshots == [page : [Platforms -> Pages \cup {None}],
              text : [Components -> Texts], complete : BOOLEAN]

ASSUME ReviewAssumption ==
    /\ Components \cup Platforms \subseteq Nat /\ IsFiniteSet(Components \cup Platforms)
    /\ \A c \in Components, p \in Platforms : c < p
    /\ Sites \subseteq Snapshots /\ \A s \in Sites : s.complete
    /\ Texts # {} /\ None \notin Pages /\ MaxRuns \in Nat /\ MaxDetours \in Nat

VARIABLES
    comp,    \* HclComponent
    plat,    \* HclPlatform.status
    link,    \* HclPlatformComponent
    rows,    \* HclPendingChange, the superseded ones left out
    runs,    \* HclScrapeRun and, while its thread runs, where that is
    builds,  \* history: the runs built, in that order
    base,    \* history: the last run built, while it was complete and only its
             \* own rows were approved since; else 0
    again,   \* history: a row that had been decided was approved
    detours

catalog == <<comp, plat, link>>
vars    == <<catalog, rows, runs, builds, base, again, detours>>

Status == {"none", "active", "delisted"}
Origin == {"scrape", "preview"}
Kinds  == {"add", "relist", "update", "delist"}
Fields == {"", "description", "tce", "components"}

Lists(snap, p, c) == snap.page[p] # None /\ snap.page[p][c] # "no"
Marked(snap, p, c) == snap.page[p] # None /\ snap.page[p][c] = "tce"
Paged(snap)       == {p \in Platforms : snap.page[p] # None}
Found(snap)       == {c \in Components : \E p \in Platforms : Lists(snap, p, c)}
TceOf(snap, c)    == \E p \in Platforms : Marked(snap, p, c)

Linked(p, c) == link[p][c].status = "active"

-----------------------------------------------------------------------------
(* diff_snapshot *)

\* Mutant of ImmuneToDelist: an accepted part is delisted for being absent.
NeverImmune(x) == FALSE
ImmuneToDelist(x) == x.origin = "preview"

PlatformDiff(snap) ==
    {[ent |-> p, kind |-> IF plat[p] = "none" THEN "add" ELSE "relist", field |-> ""] :
        p \in {q \in Paged(snap) : plat[q] # "active"}}
    \cup {[ent |-> p, kind |-> "update", field |-> "components"] :
        p \in {q \in Paged(snap) : plat[q] = "active" /\ \E c \in Components :
            IF Lists(snap, q, c) THEN ~Linked(q, c) \/ link[q][c].tce # Marked(snap, q, c)
            ELSE Linked(q, c) /\ ~ImmuneToDelist(link[q][c])}}
    \cup {[ent |-> p, kind |-> "delist", field |-> ""] :
        p \in {q \in Platforms \ Paged(snap) : snap.complete /\ plat[q] = "active"}}

ComponentDiff(snap) ==
    {[ent |-> c, kind |-> IF comp[c].status = "none" THEN "add" ELSE "relist", field |-> ""] :
        c \in {d \in Found(snap) : comp[d].status # "active"}}
    \cup {[ent |-> c, kind |-> "update", field |-> "description"] :
        c \in {d \in Found(snap) : comp[d].status = "active" /\ comp[d].text # snap.text[d]}}
    \cup {[ent |-> c, kind |-> "update", field |-> "tce"] :
        c \in {d \in Found(snap) : comp[d].status = "active" /\ comp[d].tce # TceOf(snap, d)}}
    \cup {[ent |-> c, kind |-> "delist", field |-> ""] :
        c \in {d \in Components \ Found(snap) : snap.complete /\ comp[d].status = "active"
                                                /\ ~ImmuneToDelist(comp[d])}}

Diff(snap) == PlatformDiff(snap) \cup ComponentDiff(snap)

\* Mutant of Unconfirmed: a partial run retires nothing but what it found anew.
UnconfirmedIfReproduced(r, x) ==
    \E d \in Diff(runs[r].snap) : x.ent = d.ent /\ x.kind = d.kind /\ x.field = d.field
\* supersede_stale, which covers what record_changes supersedes.
Unconfirmed(r, x) ==
    runs[r].snap.complete \/ x.ent \in Paged(runs[r].snap) \cup Found(runs[r].snap)

\* touch_seen: a complete snapshot publishes what it lists.
Published(x, listed) == [x EXCEPT !.origin = IF listed /\ x.status = "active" THEN "scrape" ELSE @]

-----------------------------------------------------------------------------
(* apply_change, on a catalog with its queue d = [comp, plat, link, rows]. *)

\* Mutant of Ensured: the row keeps the kind of the change for its status.
EnsuredAsRelisted(x, text, tce, origin) ==
    IF x.status = "active" THEN x
    ELSE [status |-> "relist", text |-> text, tce |-> x.tce \/ tce, origin |-> origin]
Ensured(x, text, tce, origin) ==
    IF x.status = "active" THEN [x EXCEPT !.tce = @ \/ tce]
    ELSE [status |-> "active", text |-> text, tce |-> x.tce \/ tce, origin |-> origin]

AutoApproved(x, d, listed) ==
    IF /\ x.status = "pending" /\ x.ent \in listed
       /\ x.kind = (CASE d.comp[x.ent].status = "none" -> "add"
                      [] d.comp[x.ent].status = "delisted" -> "relist"
                      [] OTHER -> "")
    THEN [x EXCEPT !.status = "approved"] ELSE x

\* Mutant of Retired: a list is only ever added to.
RetiredNever(x) == x
Retired(x) ==
    IF x.status = "active" /\ x.origin # "preview" THEN [x EXCEPT !.status = "delisted"] ELSE x

SyncLinks(d, p, snap) ==
    LET listed == {c \in Components : Lists(snap, p, c)}
        Synced(c) == IF c \notin listed THEN Retired(d.link[p][c])
                     ELSE [status |-> "active", tce |-> Marked(snap, p, c),
                           origin |-> d.link[p][c].origin]
    IN  [comp |-> [c \in Components |->
                      IF c \notin listed THEN d.comp[c]
                      ELSE Ensured(d.comp[c], snap.text[c], Marked(snap, p, c), "scrape")],
         plat |-> d.plat,
         link |-> [d.link EXCEPT ![p] = [c \in Components |-> Synced(c)]],
         rows |-> {AutoApproved(x, d, listed) : x \in d.rows}]

ApplyPlatform(d, x, snap) ==
    CASE x.kind \in {"add", "relist"} -> [SyncLinks(d, x.ent, snap) EXCEPT !.plat[x.ent] = "active"]
      [] x.kind = "update" -> SyncLinks(d, x.ent, snap)
      [] x.kind = "delist" ->
            [d EXCEPT !.plat[x.ent] = "delisted",
                      !.link[x.ent] = [c \in Components |->
                          IF @[c].status = "active" THEN [@[c] EXCEPT !.status = "delisted"] ELSE @[c]]]

\* The flag of a part that one platform lists is the flag of that link.
FlagSoleLink(d, c, tce) ==
    LET on == {p \in Platforms : d.link[p][c].status = "active"}
    IN  [p \in Platforms |-> IF on = {p} THEN [d.link[p] EXCEPT ![c].tce = tce] ELSE d.link[p]]

ApplyComponent(d, x, snap) ==
    LET c == x.ent
        was == d.comp[c]
    IN  CASE x.kind \in {"add", "relist"} ->
                [d EXCEPT !.comp[c] =
                    [Ensured(was, snap.text[c], TceOf(snap, c), "scrape") EXCEPT !.text = snap.text[c]]]
          [] x.kind = "delist" -> [d EXCEPT !.comp[c].status = "delisted"]
          [] x.field = "description" -> [d EXCEPT !.comp[c].text = snap.text[c]]
          [] x.field = "tce" -> [d EXCEPT !.comp[c].tce = TceOf(snap, c),
                                          !.link = FlagSoleLink(d, c, TceOf(snap, c))]

Apply(d, x) ==
    IF x.ent \in Platforms THEN ApplyPlatform(d, x, runs[x.run].snap)
    ELSE ApplyComponent(d, x, runs[x.run].snap)

Approved(d, x) ==
    LET after == Apply(d, x)
    IN  [after EXCEPT !.rows = (@ \ {x}) \cup {[x EXCEPT !.status = "approved"]}]

Now == [comp |-> comp, plat |-> plat, link |-> link, rows |-> rows]
Becomes(d) == comp' = d.comp /\ plat' = d.plat /\ link' = d.link /\ rows' = d.rows

-----------------------------------------------------------------------------
(* Runs. *)

Detour == detours < MaxDetours /\ detours' = detours + 1

Live(r)   == runs[r].status \in {"queued", "running"}
NoSnap    == [page |-> [p \in Platforms |-> None],
              text |-> [c \in Components |-> CHOOSE t \in Texts : TRUE], complete |-> FALSE]
NewRun(status, pc, snap) == [status |-> status, pc |-> pc, snap |-> snap]

Empty ==
    /\ comp = [c \in Components |-> [status |-> "none", text |-> CHOOSE t \in Texts : TRUE,
                                     tce |-> FALSE, origin |-> "scrape"]]
    /\ plat = [p \in Platforms |-> "none"]
    /\ link = [p \in Platforms |-> [c \in Components |->
                  [status |-> "none", tce |-> FALSE, origin |-> "scrape"]]]

\* The catalog of an earlier publication, all of whose rows were approved.
Mirroring(s) ==
    /\ comp = [c \in Components |->
                 [status |-> IF c \in Found(s) THEN "active" ELSE "none",
                  text |-> s.text[c], tce |-> TceOf(s, c), origin |-> "scrape"]]
    /\ plat = [p \in Platforms |-> IF p \in Paged(s) THEN "active" ELSE "none"]
    /\ link = [p \in Platforms |-> [c \in Components |->
                 [status |-> IF Lists(s, p, c) THEN "active" ELSE "none",
                  tce |-> Marked(s, p, c), origin |-> "scrape"]]]

Init ==
    /\ Empty \/ \E s \in Sites : Mirroring(s)
    /\ rows = {} /\ runs = <<>> /\ builds = <<>> /\ base = 0 /\ again = FALSE /\ detours = 0

\* POST /scrape.
StartScrape ==
    /\ Len(runs) < MaxRuns
    /\ \A r \in DOMAIN runs : ~Live(r)
    /\ runs' = Append(runs, NewRun("queued", "start", NoSnap))
    /\ UNCHANGED <<catalog, rows, builds, base, again, detours>>

\* A poll of the status, or the next start, finds the run older than two hours.
TimeOut(r) ==
    /\ Live(r)
    /\ runs' = [runs EXCEPT ![r].status = "failed"]
    /\ Detour
    /\ UNCHANGED <<catalog, rows, builds, base, again>>

ThreadStarts(r) ==
    /\ runs[r].pc = "start"
    /\ runs' = [runs EXCEPT ![r].status = "running", ![r].pc = "fetch"]
    /\ UNCHANGED <<catalog, rows, builds, base, again, detours>>

\* What a scrape may bring back: pages that cannot be fetched are left out, and the
\* listing or the device table may be all that is missing.
Partial(s, lost) ==
    [s EXCEPT !.complete = FALSE,
              !.page = [p \in Platforms |-> IF p \in lost THEN None ELSE @[p]]]
Scraped == Sites \cup {Partial(s, lost) : s \in Sites, lost \in SUBSET Platforms}

Fetch(r) ==
    /\ runs[r].pc = "fetch"
    /\ \E s \in Scraped : runs' = [runs EXCEPT ![r].snap = s, ![r].pc = "check"]
    /\ UNCHANGED <<catalog, rows, builds, base, again, detours>>

\* A run that was declared timed out meanwhile drops what it read.
Check(r) ==
    /\ runs[r].pc = "check"
    /\ runs' = [runs EXCEPT ![r].pc = IF runs[r].status = "running" THEN "build" ELSE "end"]
    /\ UNCHANGED <<catalog, rows, builds, base, again, detours>>

Build(r) ==
    LET snap == runs[r].snap IN
    /\ runs[r].pc = "build"
    /\ rows' = {x \in rows : x.status = "pending" => ~Unconfirmed(r, x)}
               \cup {[run |-> r, ent |-> d.ent, kind |-> d.kind, field |-> d.field,
                      status |-> "pending"] : d \in Diff(snap)}
    /\ comp' = [c \in Components |-> Published(comp[c], snap.complete /\ c \in Found(snap))]
    /\ link' = [p \in Platforms |-> [c \in Components |->
                   Published(link[p][c], snap.complete /\ plat[p] = "active" /\ Lists(snap, p, c))]]
    /\ runs' = [runs EXCEPT ![r].status = "succeeded", ![r].pc = "end"]
    /\ builds' = Append(builds, r)
    /\ base' = IF snap.complete THEN r ELSE 0
    /\ UNCHANGED <<plat, again, detours>>

BuildFails(r) ==
    /\ runs[r].pc = "build"
    /\ runs' = [runs EXCEPT ![r].status = "failed", ![r].pc = "end"]
    /\ Detour
    /\ UNCHANGED <<catalog, rows, builds, base, again>>

\* POST /import-snapshot does not ask whether a scrape is running.
ImportSnapshot ==
    /\ Len(runs) < MaxRuns
    /\ \E s \in Scraped : runs' = Append(runs, NewRun("running", "build", s))
    /\ UNCHANGED <<catalog, rows, builds, base, again, detours>>

\* Threads and requests die with the process; their runs stay as they are.
Crash ==
    /\ \E r \in DOMAIN runs : runs[r].pc # "end"
    /\ runs' = [r \in DOMAIN runs |-> [runs[r] EXCEPT !.pc = "end"]]
    /\ Detour
    /\ UNCHANGED <<catalog, rows, builds, base, again>>

-----------------------------------------------------------------------------
(* Decisions. *)

Approve(x) ==
    /\ Becomes(Approved(Now, x))
    /\ base' = IF x.status = "pending" /\ x.run = base THEN base ELSE 0
    /\ again' = (again \/ x.status # "pending")
    /\ IF x.status = "pending" THEN UNCHANGED detours ELSE Detour
    /\ UNCHANGED <<runs, builds>>

Reject(x) ==
    /\ x.status # "approved"
    /\ rows' = (rows \ {x}) \cup {[x EXCEPT !.status = "rejected"]}
    /\ Detour
    /\ UNCHANGED <<catalog, runs, builds, base, again>>

\* Rows in the order of entity and field; what an earlier one decided is passed over.
Before(x, y) ==
    \/ x.ent < y.ent
    \/ x.ent = y.ent /\ x.field = "description" /\ y.field = "tce"
    \/ x.ent = y.ent /\ x.field = y.field /\ x.run < y.run
ApprovePending(d, x) == IF x \in d.rows /\ x.status = "pending" THEN Approved(d, x) ELSE d

\* The catalog and its queue after the first `last` rows of the order.
Processed(order, last) ==
    LET after[n \in 0..last] == IF n = 0 THEN Now ELSE ApprovePending(after[n - 1], order[n])
    IN  after[last]

ApproveAll ==
    LET pending == {x \in rows : x.status = "pending"} IN
    /\ pending # {}
    /\ Becomes(Processed(SetToSortSeq(pending, Before), Cardinality(pending)))
    /\ base' = IF \A x \in pending : x.run = base THEN base ELSE 0
    /\ UNCHANGED <<runs, builds, again, detours>>

RejectAll ==
    /\ \E x \in rows : x.status = "pending"
    /\ rows' = {[x EXCEPT !.status = IF @ = "pending" THEN "rejected" ELSE @] : x \in rows}
    /\ Detour
    /\ UNCHANGED <<catalog, runs, builds, base, again>>

\* accept_parts: a part, as a BOM describes it, for the platforms the check identified.
AcceptPart(c, ps, text) ==
    /\ \A p \in ps : plat[p] = "active"
    /\ comp[c].status # "active" \/ \E p \in ps : ~Linked(p, c)
    /\ comp' = [comp EXCEPT ![c] = Ensured(@, text, FALSE, "preview")]
    /\ link' = [p \in Platforms |->
                   IF p \in ps /\ ~Linked(p, c)
                   THEN [link[p] EXCEPT ![c].status = "active", ![c].origin = "preview"]
                   ELSE link[p]]
    /\ base' = 0
    /\ Detour
    /\ UNCHANGED <<plat, rows, runs, builds, again>>

Withdraw(c) ==
    /\ comp[c].status = "active" /\ comp[c].origin = "preview"
    /\ comp' = [comp EXCEPT ![c].status = "delisted"]
    /\ link' = [p \in Platforms |->
                   IF Linked(p, c) THEN [link[p] EXCEPT ![c].status = "delisted"] ELSE link[p]]
    /\ base' = 0
    /\ Detour
    /\ UNCHANGED <<plat, rows, runs, builds, again>>

Thread(r) == ThreadStarts(r) \/ Fetch(r) \/ Check(r) \/ Build(r) \/ BuildFails(r)

Next ==
    \/ StartScrape \/ ImportSnapshot \/ Crash
    \/ \E r \in DOMAIN runs : TimeOut(r) \/ Thread(r)
    \/ \E x \in rows : Approve(x) \/ Reject(x)
    \/ ApproveAll \/ RejectAll
    \/ \E c \in Components : Withdraw(c)
    \/ \E c \in Components, ps \in SUBSET Platforms, t \in Texts : AcceptPart(c, ps, t)

Spec == Init /\ [][Next]_vars

-----------------------------------------------------------------------------
(* Properties. *)

TypeOK ==
    /\ comp \in [Components -> [status : Status, text : Texts, tce : BOOLEAN, origin : Origin]]
    /\ plat \in [Platforms -> Status]
    /\ link \in [Platforms -> [Components -> [status : Status, tce : BOOLEAN, origin : Origin]]]
    /\ rows \subseteq [run : DOMAIN runs, ent : Components \cup Platforms, kind : Kinds,
                       field : Fields, status : {"pending", "approved", "rejected"}]
    /\ runs \in Seq([status : {"queued", "running", "succeeded", "failed"},
                     pc : {"start", "fetch", "check", "build", "end"}, snap : Snapshots])
    /\ builds \in Seq(DOMAIN runs) /\ base \in {0} \cup DOMAIN runs /\ again \in BOOLEAN /\ detours \in 0..MaxDetours

\* Every row of the last, complete, run was approved and nothing else was done.
AllApproved == base # 0 /\ \A x \in rows : x.run = base => x.status = "approved"

\* The rows of a complete run may be approved in any order, one by one or together,
\* and the catalog then lists what the site lists, described as the site describes
\* it, and beside that only what was accepted ahead of publication.  A decided row
\* approved again is the exception: it may link parts to a platform delisted since,
\* and later runs look only at the platforms that are offered.
ApprovalMirrorsTheSite ==
    AllApproved /\ ~again =>
        LET s == runs[base].snap IN
        /\ \A p \in Platforms :
             /\ plat[p] = "active" <=> p \in Paged(s)
             /\ \A c \in Components :
                  IF Lists(s, p, c) THEN Linked(p, c)
                  ELSE Linked(p, c) => link[p][c].origin = "preview"
        /\ \A c \in Components :
             IF c \in Found(s) THEN comp[c].status = "active" /\ comp[c].text = s.text[c]
             ELSE comp[c].status = "active" => comp[c].origin = "preview"

\* A row still on offer is from the last run that looked at its entity: approving
\* what the queue shows never brings back what a newer run no longer found.
PendingIsFromTheLatestLook ==
    \A x \in rows : x.status = "pending" =>
        \A n \in DOMAIN builds :
            (\E k \in 1..(n - 1) : builds[k] = x.run) =>
                LET s == runs[builds[n]].snap
                IN  ~s.complete /\ x.ent \notin Paged(s) \cup Found(s)

\* A part accepted ahead of publication is not retracted by what a run finds: no row
\* on offer would delist it, nor its link to a platform that stays.
PreviewIsImmune ==
    ~again =>
        \A x \in rows : x.status = "pending" =>
            LET after == Apply(Now, x) IN
            /\ \A c \in Components : comp[c].status = "active" /\ comp[c].origin = "preview" =>
                   after.comp[c].status = "active"
            /\ \A p \in Platforms, c \in Components :
                   Linked(p, c) /\ link[p][c].origin = "preview" /\ after.plat[p] # "delisted" =>
                       after.link[p][c].status = "active"

\* The TCE badge of every listed part is the page's, once the rows of a complete run
\* are approved ("the link must follow, or platform_components()/enrich keep showing
\* the stale badge").
BadgesFollowTheSite ==
    AllApproved => \A p \in Platforms, c \in Components :
        Lists(runs[base].snap, p, c) => link[p][c].tce = Marked(runs[base].snap, p, c)
=============================================================================
