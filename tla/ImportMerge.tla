----------------------------- MODULE ImportMerge -----------------------------
(***************************************************************************)
(* Assessment files become the VM list of the sizing on the screen: one    *)
(* file read alone, several merged, or files appended to what is there     *)
(* (static/js/app.js, uploadFile to _applyAppend).  The merge dialog sends *)
(* every change of its choices to /api/import-merge, which is stateless;   *)
(* "Create" saves every target cluster but one as a sizing of its own and  *)
(* puts that one on the screen.                                            *)
(*                                                                         *)
(* A VM is an entity read from a file.  Files are numbered in the order    *)
(* they were collected.  Hosts, their performance and datastores follow    *)
(* the VMs of their cluster and are left out.  References to a VM are what *)
(* the code uses: its place in the file sent, and its index in importVms.  *)
(***************************************************************************)
EXTENDS Integers, SequencesExt, FiniteSetsExt

CONSTANTS
    Files,      \* 1..n
    Content,    \* the entities of each file, in its order
    Cluster,    \* the cluster of each entity, by file
    Names,      \* what the user may call a target
    Skip,       \* MERGE_SKIP
    Both,       \* keep every copy
    None,
    MaxUploads, \* uploads the user starts
    MaxChoices, \* requests to merge
    MaxEdits    \* exclusions and added VMs

Entities == UNION {ToSet(Content[f]) : f \in Files}

ASSUME MergeAssumption ==
    /\ Files \subseteq Nat \ {0} /\ IsFiniteSet(Files) /\ Content \in [Files -> Seq(Entities)]
    /\ \A f \in Files : IsInjective(Content[f])
    /\ Cluster \in [Files -> [Entities -> Names]] /\ Skip \notin Names /\ {Both, None} \cap Files = {}

VARIABLES
    vms,      \* importVms
    added,    \* vmAdded: rows the user put in
    touched,  \* rows excluded or edited: vmExclusions and vmConfig
    summary,  \* the VMs originalImportSummary was built from
    sources,  \* lastImportSources
    site,     \* the cluster name of this sizing's rows
    edition,  \* how often importVms was replaced
    uploads,  \* uploads whose files are still being read
    started, edits,
    dialog,   \* pendingMerge, or NoDialog
    showing,  \* the dialog is open
    seq,      \* mergeSeq
    net,      \* requests to /api/import-merge
    job,      \* createPerClusterSizings, while it runs
    mixed     \* an append was applied to another list than it was made for

screen == <<vms, added, touched, summary, sources, site, edition, mixed>>
form   == <<dialog, showing, seq, net>>
intake == <<uploads, started>>
vars   == <<screen, intake, edits, form, job>>

NoDialog  == [id |-> None]

Vm(f, e)  == [src |-> f, ent |-> e]
\* Rows or their indices, and references, in their order.
Ascending(S) == CHOOSE q \in [1..Cardinality(S) -> S] :
                    \A i, k \in DOMAIN q : i < k => q[i] < q[k]
Over(fn, other) == [k \in DOMAIN fn \cup DOMAIN other |->
                        IF k \in DOMAIN fn THEN fn[k] ELSE other[k]]
Rows(f)   == [n \in DOMAIN Content[f] |-> Vm(f, Content[f][n])]

-----------------------------------------------------------------------------
(* /api/import-merge.  `data` are the files sent: a sequence of entities each. *)

RefsIn(data)     == UNION {{f} \X (1..Len(data[f])) : f \in DOMAIN data}
EntOf(data, r)   == data[r[1]][r[2]]
GroupOf(data, r) == <<r[1], Cluster[r[1]][EntOf(data, r)]>>
Copies(data, e)  == {r \in RefsIn(data) : EntOf(data, r) = e}
Earlier(r, s)    == r[1] < s[1] \/ (r[1] = s[1] /\ r[2] < s[2])
InOrder(refs)    == CHOOSE q \in [1..Cardinality(refs) -> refs] :
                        \A i, k \in DOMAIN q : i < k => Earlier(q[i], q[k])
First(refs)      == CHOOSE r \in refs : \A s \in refs \ {r} : Earlier(r, s)

\* Mutant of Newest: the oldest copy.
Oldest(srcs) == Min(srcs)
Newest(srcs) == Max(srcs)

Merge(data, resolutions, mapping) ==
    LET overlaps == {e \in Entities : Cardinality(Copies(data, e)) > 1}
        choice   == [e \in overlaps |->
                        IF e \in DOMAIN resolutions THEN resolutions[e]
                        ELSE Newest({r[1] : r \in Copies(data, e)})]
        kept     == {r \in RefsIn(data) :
                        EntOf(data, r) \in overlaps => choice[EntOf(data, r)] \in {r[1], Both}}
        groups   == {GroupOf(data, r) : r \in RefsIn(data)}
        target   == [g \in groups |-> IF g \in DOMAIN mapping THEN mapping[g] ELSE g[2]]
    IN [choice |-> choice, target |-> target,
        cut    |-> [t \in {target[GroupOf(data, r)] : r \in kept} \ {Skip} |->
                       {r \in kept : target[GroupOf(data, r)] = t}]]

-----------------------------------------------------------------------------
Init ==
    /\ vms = <<>> /\ added = {} /\ touched = {} /\ summary = {} /\ sources = {}
    /\ site = None /\ edition = 0 /\ uploads = {} /\ started = 0 /\ edits = 0
    /\ dialog = NoDialog /\ showing = FALSE /\ seq = 0 /\ net = {} /\ job = None
    /\ mixed = FALSE

\* finishImport.
FinishImport(list, name) ==
    /\ vms' = list /\ added' = {} /\ touched' = {}
    /\ summary' = ToSet(list) /\ sources' = {list[i].src : i \in DOMAIN list}
    /\ site' = name /\ edition' = edition + 1 /\ mixed' = FALSE

-----------------------------------------------------------------------------
(* What the user does to the rows. *)

AddVm(e) ==
    /\ sources # {} /\ edits < MaxEdits
    /\ vms' = Append(vms, Vm(None, e)) /\ added' = added \cup {Len(vms) + 1}
    /\ edits' = edits + 1
    /\ UNCHANGED <<touched, summary, sources, site, edition, mixed, intake, form, job>>

Touch(i) ==
    /\ i \in DOMAIN vms \ touched /\ edits < MaxEdits
    /\ touched' = touched \cup {i} /\ edits' = edits + 1
    /\ UNCHANGED <<vms, added, summary, sources, site, edition, mixed, intake, form, job>>

-----------------------------------------------------------------------------
(* Uploads. *)

\* _existingDatasets: the files of this sizing as they stand, where each row is in
\* importVms, and a mapping that sends them back to this sizing.
RowsOf(f) == Ascending({i \in DOMAIN vms \ added : vms[i].src = f})

Existing ==
    LET data == [f \in sources |-> [n \in DOMAIN RowsOf(f) |-> vms[RowsOf(f)[n]].ent]]
    IN [data |-> data,
        refs |-> [r \in RefsIn(data) |-> RowsOf(r[1])[r[2]]],
        mapping |-> [g \in {GroupOf(data, r) : r \in RefsIn(data)} |-> site]]

Nothing == [data |-> <<>>, refs |-> <<>>, mapping |-> <<>>]

StartUpload(files, append) ==
    /\ started < MaxUploads /\ started' = started + 1
    /\ append => sources # {}
    /\ uploads' = uploads \cup
         {[id |-> started', append |-> append, left |-> files, data |-> <<>>, edition |-> edition,
           existing |-> IF append THEN Existing ELSE Nothing,
           alone |-> ~append /\ Cardinality(files) = 1]}
    /\ UNCHANGED <<screen, edits, form, job>>

\* One file is read; a file the sizing has already is left out, as a bad one is.
FileRead(u) ==
    /\ u.left # {} /\ ~u.alone
    /\ LET f == Min(u.left)
           read == IF f \in DOMAIN u.existing.data THEN {} ELSE {f}
       IN \E good \in {{}, read} :
             uploads' = (uploads \ {u}) \cup
                 {[u EXCEPT !.left = @ \ {f},
                            !.data = [g \in DOMAIN @ \cup good |-> Content[g]]]}
    /\ UNCHANGED <<screen, started, edits, form, job>>

-----------------------------------------------------------------------------
(* The dialog. *)

\* Mutant of Latest: answers to requests that were superseded are shown too.
AnyAnswer(m) == TRUE

\* The answer to the latest request only.
Latest(m) == m.seq = seq

\* refreshMerge; the first one opens the dialog.
Refresh(d, first) ==
    /\ seq < MaxChoices /\ seq' = seq + 1
    /\ dialog' = d
    /\ net' = net \cup {[seq |-> seq', data |-> d.data, first |-> first,
                         resolutions |-> d.resolutions, mapping |-> d.mapping]}

OpenDialog(u, data, old) ==
    /\ Refresh([id |-> u.id, data |-> data, refs |-> old.refs, resolutions |-> <<>>,
                mapping |-> old.mapping, result |-> None, new |-> DOMAIN data \ DOMAIN old.data,
                append |-> u.append, edition |-> u.edition, chosen |-> FALSE], TRUE)
    /\ UNCHANGED showing

\* The end of uploadFiles.
AllRead(u) ==
    /\ u.left = {} /\ uploads' = uploads \ {u}
    /\ IF DOMAIN u.data = {} THEN UNCHANGED form
       ELSE OpenDialog(u, Over(u.existing.data, u.data), u.existing)
    /\ UNCHANGED <<screen, started, edits, job>>

\* uploadFile: a file of one cluster is the import; one of several goes to the dialog.
ReadAlone(u) ==
    /\ u.alone /\ uploads' = uploads \ {u}
    /\ LET f == Min(u.left)
           clusters == {Cluster[f][e] : e \in ToSet(Content[f])}
       IN \/ UNCHANGED <<screen, form>>
          \/ /\ Cardinality(clusters) = 1
             /\ \E c \in clusters : FinishImport(Rows(f), c)
             /\ UNCHANGED form
          \/ /\ Cardinality(clusters) > 1
             /\ OpenDialog(u, [g \in {f} |-> Content[g]], Nothing) /\ UNCHANGED screen
    /\ UNCHANGED <<started, edits, job>>

\* The answer: shown, or the dialog closes with an error.
MergeAnswered(m) ==
    /\ net' = net \ {m}
    /\ \/ ~Latest(m) /\ UNCHANGED <<dialog, showing>>
       \/ Latest(m) /\ showing' = FALSE /\ UNCHANGED dialog
       \/ Latest(m) /\ dialog = NoDialog /\ UNCHANGED <<dialog, showing>>
       \/ /\ Latest(m) /\ dialog # NoDialog
          /\ dialog' = [dialog EXCEPT !.result = Merge(m.data, m.resolutions, m.mapping)]
          /\ showing' = (showing \/ m.first)
    /\ UNCHANGED <<screen, intake, edits, seq, job>>

\* The choices of the form.  Every one of them asks the server again.
Choose(resolutions, mapping) ==
    /\ showing /\ dialog # NoDialog /\ dialog.result # None
    /\ Refresh([dialog EXCEPT !.resolutions = resolutions, !.mapping = mapping,
                               !.chosen = TRUE], FALSE)
    /\ UNCHANGED <<showing, screen, intake, edits, job>>

\* New or changed entries of a map kept as a function.
Put(fn, keys, v) == Over([k \in keys |-> v], fn)

Overlaps  == DOMAIN dialog.result.choice
TargetOf  == dialog.result.target
OnTarget(t) == {g \in DOMAIN TargetOf : TargetOf[g] = t}

OnOverlapChoice(e, c) ==
    /\ c \in {r[1] : r \in Copies(dialog.data, e)} \cup {Both}
    /\ Choose(Put(dialog.resolutions, {e}, c), dialog.mapping)

KeepNewest ==
    Choose(Over([e \in Overlaps |-> Newest({r[1] : r \in Copies(dialog.data, e)})],
                dialog.resolutions), dialog.mapping)

KeepBothVms == Choose(Put(dialog.resolutions, Overlaps, Both), dialog.mapping)

OnMergeTargetChange(g, t) == Choose(dialog.resolutions, Put(dialog.mapping, {g}, t))

RenameMergeTarget(t, name) ==
    t # name /\ Choose(dialog.resolutions, Put(dialog.mapping, OnTarget(t), name))

AllSeparate == Choose(dialog.resolutions, [g \in OnTarget(Skip) |-> Skip])

AllInOne ==
    \E t \in DOMAIN dialog.result.cut :
        Choose(dialog.resolutions, Put(dialog.mapping, DOMAIN TargetOf \ OnTarget(Skip), t))

MakeChoice ==
    /\ showing /\ dialog # NoDialog /\ dialog.result # None
    /\ \/ \E e \in Overlaps : \E c \in Files \cup {Both} : OnOverlapChoice(e, c)
       \/ KeepNewest \/ KeepBothVms \/ AllSeparate \/ AllInOne
       \/ \E g \in DOMAIN TargetOf, t \in Names \cup {Skip} : OnMergeTargetChange(g, t)
       \/ \E t \in DOMAIN dialog.result.cut, name \in Names : RenameMergeTarget(t, name)

\* The dialog's own close button leaves pendingMerge as it is.
CloseDialog ==
    /\ showing /\ showing' = FALSE
    /\ UNCHANGED <<screen, intake, edits, dialog, seq, net, job>>

-----------------------------------------------------------------------------
(* Create. *)

\* Mutant of Replacements: also by a copy that went to another target.
ReplacementsAnywhere(cut) ==
    LET lost == {e \in Overlaps : dialog.result.choice[e] # Both}
        win(e) == First({r \in Copies(dialog.data, e) : r[1] = dialog.result.choice[e]})
        mine(e) == Copies(dialog.data, e) \cap DOMAIN dialog.refs
        moved == {e \in lost : win(e) \notin DOMAIN dialog.refs /\ mine(e) # {}}
    IN [i \in {dialog.refs[First(mine(e))] : e \in moved} |->
           win(CHOOSE e \in moved : dialog.refs[First(mine(e))] = i)]

\* Where an old row that lost to another file's copy goes: that copy takes its place.
Replacements(cut) ==
    LET d    == dialog
        lost == {e \in Overlaps : d.result.choice[e] # Both}
        win(e) == First({r \in Copies(d.data, e) : r[1] = d.result.choice[e]})
        mine(e) == Copies(d.data, e) \cap DOMAIN d.refs
        moved == {e \in lost : win(e) \notin DOMAIN d.refs /\ mine(e) # {} /\ win(e) \in cut}
    IN [i \in {d.refs[First(mine(e))] : e \in moved} |->
           win(CHOOSE e \in moved : d.refs[First(mine(e))] = i)]

\* Mutant of Remapped: the index-keyed sets are left as they are.
RemappedNot(kept, set) == set

\* mapSet: the new indices of the rows kept.
Remapped(kept, set) == {n \in DOMAIN kept : kept[n] \in set}

\* _applyAppend: the rows kept stay in order, new ones go to the end.
ApplyAppend(j) ==
    LET d       == dialog
        place   == Replacements(j.cut)
        refOf(i) == {r \in DOMAIN d.refs : d.refs[r] = i}
        stays(i) == \/ vms[i].src \notin DOMAIN d.data \/ i \in added
                    \/ refOf(i) \cap j.cut # {} \/ i \in DOMAIN place
        kept    == Ascending({i \in DOMAIN vms : stays(i)})
        copy(r) == Vm(r[1], EntOf(j.data, r))
        fresh   == InOrder(j.cut \ (DOMAIN d.refs \cup {place[i] : i \in DOMAIN place}))
        row(i)  == IF /\ i \in DOMAIN place /\ refOf(i) \cap j.cut = {}
                      /\ i \notin added /\ vms[i].src \in DOMAIN d.data
                   THEN copy(place[i]) ELSE vms[i]
    IN /\ vms' = [n \in DOMAIN kept |-> row(kept[n])] \o [n \in DOMAIN fresh |-> copy(fresh[n])]
       /\ added' = Remapped(kept, added) /\ touched' = Remapped(kept, touched)
       /\ summary' = {copy(r) : r \in j.cut} /\ sources' = {r[1] : r \in j.cut}
       /\ site' = j.home /\ edition' = edition + 1

\* The list, the dialog and its result are still those the references are of.
InTime(j) == /\ dialog.id = j.id /\ dialog.result = j.result
             /\ dialog.edition = edition

\* What is left to do once the other targets are saved.
Finish(j) ==
    /\ job' = None /\ showing' = FALSE
    /\ IF j.home = None
       THEN dialog' = NoDialog /\ UNCHANGED screen
       ELSE IF ~j.append
       THEN /\ FinishImport([n \in DOMAIN InOrder(j.cut) |->
                    LET r == InOrder(j.cut)[n] IN Vm(r[1], EntOf(j.data, r))], j.home)
            /\ dialog' = NoDialog
       ELSE IF dialog.result = None      \* replaced meanwhile: the handler throws
       THEN UNCHANGED <<screen, dialog>>
       ELSE ApplyAppend(j) /\ mixed' = (mixed \/ ~InTime(j)) /\ dialog' = NoDialog

\* The target that stays on this screen: with an append the first that holds rows of
\* this sizing (any of them here), else the only one.
Homes ==
    LET cut  == dialog.result.cut
        mine == {t \in DOMAIN cut : cut[t] \cap DOMAIN dialog.refs # {}}
    IN IF dialog.append THEN (IF mine # {} THEN mine ELSE DOMAIN cut)
       ELSE IF Cardinality(DOMAIN cut) = 1 THEN DOMAIN cut ELSE {None}

CreatePerClusterSizings ==
    /\ showing /\ job = None /\ dialog # NoDialog /\ dialog.result # None
    /\ DOMAIN dialog.result.cut # {}
    /\ \E home \in Homes :
          LET others == DOMAIN dialog.result.cut \ {home}
              j == [id |-> dialog.id, append |-> dialog.append, data |-> dialog.data,
                    result |-> dialog.result, home |-> home, left |-> others,
                    cut |-> IF home = None THEN {} ELSE dialog.result.cut[home]]
          IN IF others = {} THEN Finish(j)
             ELSE job' = j /\ UNCHANGED <<screen, dialog, showing>>
    /\ UNCHANGED <<intake, edits, seq, net>>

\* One target is saved as a sizing, or the rest is given up.
SaveAnswered ==
    /\ job # None
    /\ \/ \E t \in job.left :
            IF job.left = {t} THEN Finish(job)
            ELSE /\ job' = [job EXCEPT !.left = @ \ {t}]
                 /\ UNCHANGED <<screen, dialog, showing>>
       \/ job' = None /\ showing' = FALSE /\ UNCHANGED <<screen, dialog>>
    /\ UNCHANGED <<intake, edits, seq, net>>

-----------------------------------------------------------------------------
\* Behind the open dialog the page takes no input.
User ==
    \/ /\ ~showing
       /\ \/ \E e \in Entities : AddVm(e)
          \/ \E i \in DOMAIN vms : Touch(i)
          \/ \E files \in (SUBSET Files) \ {{}}, append \in BOOLEAN : StartUpload(files, append)
    \/ MakeChoice \/ CloseDialog \/ CreatePerClusterSizings

Reading == \E u \in uploads : FileRead(u) \/ AllRead(u) \/ ReadAlone(u)
Answered == \E m \in net : MergeAnswered(m)

Next == User \/ Reading \/ Answered \/ SaveAnswered
Spec == Init /\ [][Next]_vars

-----------------------------------------------------------------------------
TypeOK ==
    /\ \A i \in DOMAIN vms : vms[i].ent \in Entities /\ (vms[i].src = None <=> i \in added)
    /\ added \cup touched \subseteq DOMAIN vms /\ sources \subseteq Files
    /\ site \in Names \cup {None} /\ {edition, seq, started, edits} \subseteq Nat
    /\ job # None => showing \in BOOLEAN /\ dialog # NoDialog /\ job.left # {}
    /\ showing => dialog # NoDialog

\* The dialog shows what the server made of the choices on the form, unless a request
\* for them is out: whatever order the answers come in.
DialogIsCurrent ==
    showing /\ (\A m \in net : m.seq # seq) =>
        dialog.result = Merge(dialog.data, dialog.resolutions, dialog.mapping)

\* The numbers are of the rows: the summary was built from exactly the imported rows of
\* the list, each once, as long as no append was applied to another list than it read.
SummaryIsOfTheRows ==
    ~mixed =>
        /\ summary = {vms[i] : i \in DOMAIN vms \ added}
        /\ Len(vms) = Cardinality(summary) + Cardinality(added)

\* An append by a dialog that is still the one Create was pressed in, on the list it
\* read: to rows that are all of a file the sizing has.
AppendInTime ==
    /\ edition' = edition + 1 /\ dialog # NoDialog /\ dialog' = NoDialog
    /\ dialog.edition = edition /\ ~mixed
    /\ IF job = None THEN dialog.append ELSE job.append /\ InTime(job)

Alone(list, i) == \A k \in DOMAIN list \ {i} : list[k].ent # list[i].ent

\* Row k of the new list is row i of the old one, or the copy of another file that won.
SameVm(i, k) ==
    /\ Alone(vms, i) /\ Alone(vms', k) /\ vms[i].ent = vms'[k].ent
    /\ \/ vms[i].src = vms'[k].src
       \/ vms[i].ent \in Overlaps /\ dialog.result.choice[vms[i].ent] # Both

\* "Existing VMs keep their index (so exclusions and edits stay)": an append keeps them
\* with their VM also when rows are dropped or another file's copy takes a row's place,
\* and puts them on no other.
EditsFollowTheVm ==
    [][AppendInTime =>
          /\ \A i \in DOMAIN vms, k \in DOMAIN vms' :
                SameVm(i, k) => (i \in touched <=> k \in touched')
          /\ \A k \in touched' : \E i \in touched : vms[i].ent = vms'[k].ent]_vars

=============================================================================
