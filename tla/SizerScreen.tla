---------------------------- MODULE SizerScreen ----------------------------
(***************************************************************************)
(* One browser tab with the sizer: which sizing is on the screen, and      *)
(* which row a save writes (static/js/projects.js, auth.js, app.js).       *)
(*                                                                         *)
(* The page keeps the inputs of each page of the sizer (`form`), the       *)
(* sizing it has loaded (`loaded`), and what it takes for saved (`clean`)  *)
(* in variables of their own, and brings them up to date in handlers that  *)
(* wait for the server and for the user's answers in between.  Buttons are *)
(* behind a dialog while one is shown; the browser's Back, Forward and     *)
(* Reload are not.                                                         *)
(*                                                                         *)
(* Inputs are a number that tells them apart and the sizing they are of.   *)
(* One project; of its pages the sizer has an import and an appliance one, *)
(* the other two being like either.  Results, which a save stores as well, *)
(* are the subject of ResultCache.  Flows alike in every field count as    *)
(* one.                                                                    *)
(***************************************************************************)
EXTENDS Integers, FiniteSets

CONSTANTS
    Sizings,    \* the rows there may ever be, 1..n in the order they are made
    Saved,      \* those that exist already ...
    Page,       \* ... and the page of the inputs each holds
    Targets,    \* the DR targets among them
    New,        \* the sizing of inputs that were never saved
    None,
    MaxEdits,                       \* inputs made
    MaxOpens, MaxFetches, MaxSaves  \* openings, project fetches, saves at a time

Pages == {"import", "appliance", "dr"}

Inputs    == [of : Sizings \cup {New}, no : 0..MaxEdits, page : Pages]
Addresses == [at : {"home", "project", "sizer"}, sizing : Sizings \cup {None}]

ASSUME ScreenAssumption ==
    /\ Sizings \subseteq Nat /\ Saved \subseteq Sizings /\ Page \in [Saved -> Pages]
    /\ Targets = {s \in Saved : Page[s] = "dr"}
    /\ New \notin Sizings /\ {MaxEdits, MaxOpens, MaxFetches, MaxSaves} \subseteq Nat
    /\ None \notin Sizings /\ None \notin Pages /\ None \notin Inputs /\ None \notin Addresses

Home      == [at |-> "home", sizing |-> None]
Project   == [at |-> "project", sizing |-> None]
Blank     == [at |-> "sizer", sizing |-> None]    \* the project's, but for new=1
At(s)     == [at |-> "sizer", sizing |-> s]

VARIABLES
    rows,      \* the inputs each row holds; None: no such row
    screen,    \* what is shown: "boot" until the first decision
    address,   \* location
    visited,   \* the sizings in this document's history; home and project always are
    project,   \* currentProject is set
    mode,      \* currentMode
    form,      \* the inputs on each page
    loaded,    \* loadedConfig.id
    target,    \* drTargetConfig.id
    clean,     \* _cleanSnapshotJSON
    opens,     \* openSizing, while it runs
    fetches,   \* openProject, while it runs: whether it adds to the history
    booting,   \* the address bootFromUrl is fetching the project of
    saves,     \* saveCurrentSizing, while it runs
    leaving,   \* the leave dialog shows: the page asked for
    edits,
    late,      \* history: inputs changed while the last save to end was under way,
               \* or its answer was lost
    crossed,   \* history: a save ran beside an opening, a page switch or another save,
               \* or a page was taken over while an opening had shown its page but not
               \* its inputs
    bled       \* history: a page was turned to that held another sizing's inputs, or
               \* from that of a DR target

place == <<screen, address, visited, project>>
sizer == <<mode, form, loaded, target, clean>>
flows == <<opens, fetches, booting, saves, leaving>>
ghosts == <<late, crossed, bled>>
vars  == <<rows, place, sizer, flows, edits, ghosts>>

Exists(s) == rows[s] # None

\* captureSizingState: the inputs on the page shown.
Capture == form[mode]

\* hasUnsavedWork.
Unsaved == mode # "dr" /\ form[mode] # None /\ clean # Capture

\* No dialog covers the buttons.
Free == leaving = None /\ \A f \in saves : f.pc \notin {"choice", "name"}

-----------------------------------------------------------------------------
(* The page and its history. *)

Empty == [m \in Pages |-> None]

\* pushScreen.
Push(a, push) ==
    IF push THEN address' = a /\ visited' = (visited \cup {a.sizing}) \ {None}
    ELSE UNCHANGED <<address, visited>>

\* A document is loaded: DOMContentLoaded, and updateGate once the user is known.
Boot(a, m) ==
    /\ address' = a /\ visited' = {a.sizing} \ {None} /\ project' = FALSE
    /\ mode' = m /\ form' = Empty /\ loaded' = None /\ target' = None /\ clean' = None
    /\ opens' = {} /\ fetches' = {} /\ saves' = {} /\ leaving' = None
    /\ IF a = Home THEN screen' = "home" /\ booting' = None
                   ELSE screen' = "boot" /\ booting' = a

Init ==
    /\ rows = [s \in Sizings |-> IF s \in Saved THEN [of |-> s, no |-> 0, page |-> Page[s]] ELSE None]
    /\ screen = "home" /\ address = Home /\ visited = {} /\ project = FALSE
    /\ mode = "appliance" /\ form = Empty /\ loaded = None /\ target = None /\ clean = None
    /\ opens = {} /\ fetches = {} /\ booting = None /\ saves = {} /\ leaving = None
    /\ edits = 0 /\ late = FALSE /\ crossed = FALSE /\ bled = FALSE

\* What is being fetched when a sizing is opened.
Opening(s, push) == [sizing |-> s, push |-> push, pc |-> "config", inputs |-> None]
Begin(s, push)   ==
    /\ Cardinality(opens) < MaxOpens /\ opens' = opens \cup {Opening(s, push)}
    /\ crossed' = (crossed \/ saves # {})

\* bootFromUrl.
BootArrives ==
    /\ booting # None /\ booting' = None
    /\ project' = TRUE
    /\ IF booting.at = "project"
       THEN screen' = "project" /\ UNCHANGED <<address, visited, opens, crossed>>
       ELSE IF booting.sizing # None
       THEN Begin(booting.sizing, FALSE) /\ UNCHANGED <<screen, address, visited>>
       ELSE screen' = "sizer" /\ UNCHANGED <<address, visited, opens, crossed>>
    /\ UNCHANGED <<rows, sizer, fetches, saves, leaving, edits, late, bled>>

BootFails ==
    /\ booting # None /\ booting' = None
    /\ screen' = "home" /\ Push(Home, TRUE)
    /\ UNCHANGED <<rows, project, sizer, opens, fetches, saves, leaving, edits, ghosts>>

\* An address loaded again: that of a blank sizer has become its project's.
Again == IF address = Blank /\ booting = None THEN Project ELSE address

\* Browser reload, and the links that load a new document: New sizing, Quick sizing.
Reload ==
    /\ Boot(Again, "appliance")
    /\ UNCHANGED <<rows, edits, ghosts>>

NewSizing ==
    /\ screen \in {"home", "project"} /\ Free
    /\ Boot(Blank, "appliance")
    /\ UNCHANGED <<rows, edits, ghosts>>

\* openProjectsHome.
ShowHome(push) == Push(Home, push) /\ screen' = "home"

BackToProjects ==
    /\ screen = "project" /\ Free
    /\ project' = FALSE /\ ShowHome(TRUE)
    /\ UNCHANGED <<rows, sizer, flows, edits, ghosts>>

OpenProject(push) ==
    /\ Cardinality(fetches) < MaxFetches
    /\ fetches' = fetches \cup {push}

ClickProject ==
    /\ screen = "home" /\ Free
    /\ OpenProject(TRUE)
    /\ UNCHANGED <<rows, place, sizer, opens, booting, saves, leaving, edits, ghosts>>

\* backToProject.
Return == IF project THEN OpenProject(TRUE) /\ UNCHANGED <<screen, address, visited>>
          ELSE ShowHome(TRUE) /\ UNCHANGED fetches

BackToProject ==
    /\ screen = "sizer" /\ Free
    /\ Return
    /\ UNCHANGED <<rows, project, sizer, opens, booting, saves, leaving, edits, ghosts>>

ProjectArrives(push) ==
    /\ push \in fetches /\ fetches' = fetches \ {push}
    /\ \/ project' = TRUE /\ Push(Project, push) /\ screen' = "project"
       \/ ShowHome(TRUE) /\ UNCHANGED project
    /\ UNCHANGED <<rows, sizer, opens, booting, saves, leaving, edits, ghosts>>

\* popstate: Back and Forward, also behind a dialog.
Popstate(a) ==
    /\ a # address /\ address' = a
    /\ IF a.sizing # None
       THEN Begin(a.sizing, FALSE) /\ UNCHANGED <<screen, fetches>>
       ELSE IF a.at = "home"
       THEN screen' = "home" /\ UNCHANGED <<opens, fetches, crossed>>
       ELSE OpenProject(FALSE) /\ UNCHANGED <<screen, opens, crossed>>
    /\ UNCHANGED <<rows, visited, project, sizer, booting, saves, leaving, edits, late, bled>>

-----------------------------------------------------------------------------
(* Opening a sizing. *)

ClickSizing(s) ==
    /\ screen = "project" /\ Free /\ Exists(s)
    /\ Begin(s, TRUE)
    /\ UNCHANGED <<rows, place, sizer, fetches, booting, saves, leaving, edits, late, bled>>

ServeConfig(o) ==
    /\ o.pc = "config" /\ Exists(o.sizing)
    /\ opens' = (opens \ {o}) \cup {[o EXCEPT !.pc = "served", !.inputs = rows[o.sizing]]}
    /\ UNCHANGED <<rows, place, sizer, fetches, booting, saves, leaving, edits, ghosts>>

\* Another opening has shown its page but not its inputs.
Crosses(o) == \E p \in opens \ {o} : p.pc = "models"

\* The sizing is known: the screen turns to it, and a DR target is all there.
ConfigArrives(o) ==
    /\ o.pc = "served"
    /\ Push(At(o.sizing), o.push) /\ screen' = "sizer"
    /\ IF o.sizing \in Targets
       THEN /\ opens' = opens \ {o}
            /\ mode' = "dr" /\ form' = [form EXCEPT !["dr"] = [o.inputs EXCEPT !.page = "dr"]]
            /\ loaded' = o.sizing /\ target' = o.sizing
            /\ crossed' = (crossed \/ Crosses(o))
            /\ UNCHANGED clean
       ELSE /\ opens' = (opens \ {o}) \cup {[o EXCEPT !.pc = "reserve"]}
            /\ UNCHANGED <<sizer, crossed>>
    /\ UNCHANGED <<rows, project, fetches, booting, saves, leaving, edits, late, bled>>

OpenFails(o) ==
    /\ o.pc \in {"config", "served"} /\ opens' = opens \ {o}
    /\ UNCHANGED <<rows, place, sizer, fetches, booting, saves, leaving, edits, ghosts>>

\* setLoadedConfig and markSizingClean, after restoreSizingState.
HandOver(o, m) ==
    /\ form' = [form EXCEPT ![o.inputs.page] = o.inputs]
    /\ loaded' = o.sizing /\ clean' = form'[m] /\ late' = FALSE
    /\ opens' = opens \ {o}

\* The reserve is there, or it failed: an import is restored at once, an appliance
\* shows its page and fetches the models first.
ReserveArrives(o) ==
    /\ o.pc = "reserve"
    /\ mode' = o.inputs.page
    /\ crossed' = (crossed \/ Crosses(o))
    /\ IF mode' = "import" THEN HandOver(o, mode')
       ELSE /\ opens' = (opens \ {o}) \cup {[o EXCEPT !.pc = "models"]}
            /\ UNCHANGED <<form, loaded, clean, late>>
    /\ UNCHANGED <<rows, place, target, fetches, booting, saves, leaving, edits, bled>>

ModelsArrive(o) ==
    /\ o.pc = "models"
    /\ HandOver(o, mode)
    /\ crossed' = (crossed \/ Crosses(o) \/ mode # o.inputs.page)
    /\ UNCHANGED <<rows, place, mode, target, fetches, booting, saves, leaving, edits, bled>>

Open(o) == ServeConfig(o) \/ ConfigArrives(o) \/ OpenFails(o) \/ ReserveArrives(o) \/ ModelsArrive(o)

-----------------------------------------------------------------------------
(* Inputs, and the pages of the sizer. *)

Owner == IF loaded = None THEN New ELSE loaded

\* Something is entered on the page shown: into what is there, or in its place.
Edit ==
    /\ screen = "sizer" /\ Free /\ edits < MaxEdits /\ edits' = edits + 1
    /\ \E of \in {Owner} \cup (IF form[mode] = None THEN {} ELSE {form[mode].of}) :
          form' = [form EXCEPT ![mode] = [of |-> of, no |-> edits', page |-> mode]]
    /\ mode = "dr" => form[mode] # None
    /\ UNCHANGED <<rows, place, mode, loaded, target, clean, flows, ghosts>>

\* requestSwitchMode: without unsaved work the page is shown as it is.
SwitchMode(m) ==
    /\ screen = "sizer" /\ Free /\ m \in Pages \ {mode, "dr"}
    /\ IF Unsaved THEN leaving' = m /\ UNCHANGED <<mode, crossed, bled>>
       ELSE /\ mode' = m /\ UNCHANGED leaving
            /\ crossed' = (crossed \/ saves # {})
            /\ bled' = (bled \/ mode = "dr" \/ (form[m] # None /\ form[m].of # Owner))
    /\ UNCHANGED <<rows, place, form, loaded, target, clean, opens, fetches, booting, saves, edits, late>>

\* ... and with it, once the user agreed, a clean document on that page.
StartOver(m) == Boot(IF project THEN Blank ELSE Again, m)

StayHere ==
    /\ leaving # None /\ leaving' = None
    /\ UNCHANGED <<rows, place, sizer, opens, fetches, booting, saves, edits, ghosts>>

Discard ==
    /\ leaving # None
    /\ StartOver(leaving)
    /\ UNCHANGED <<rows, edits, ghosts>>

-----------------------------------------------------------------------------
(* Saving. *)

\* The inputs are taken before anything is asked.
StartSave(then) ==
    /\ form[mode] # None /\ Cardinality(saves) < MaxSaves
    /\ saves' = saves \cup
         {[inputs |-> form[mode], then |-> then,
           row |-> IF mode = "dr" THEN target ELSE None,
           pc |-> IF mode = "dr" THEN "put" ELSE IF loaded # None THEN "choice" ELSE "name"]}
    /\ crossed' = (crossed \/ saves # {} \/ opens # {})

\* Save, and "Save & close".
PressSave ==
    /\ screen = "sizer" /\ Free
    /\ \E then \in {"stay", "project"} : StartSave(then)
    /\ UNCHANGED <<rows, place, sizer, opens, fetches, booting, leaving, edits, late, bled>>

SaveAndLeave ==
    /\ leaving # None /\ leaving' = None
    /\ StartSave(leaving)
    /\ UNCHANGED <<rows, place, sizer, opens, fetches, booting, edits, late, bled>>

Becomes(f, g) == saves' = (saves \ {f}) \cup {g}
Ends(f)       == saves' = saves \ {f}

\* The user answers; an update goes to the sizing that is loaded by now.
Answered(f) ==
    /\ \/ f.pc = "choice" /\ Becomes(f, [f EXCEPT !.pc = "put", !.row = loaded])
       \/ f.pc = "choice" /\ Becomes(f, [f EXCEPT !.pc = "name"])
       \/ f.pc = "name" /\ Becomes(f, [f EXCEPT !.pc = "post"])
       \/ f.pc \in {"choice", "name"} /\ Ends(f)
    /\ UNCHANGED <<rows, place, sizer, opens, fetches, booting, leaving, edits, ghosts>>

\* Mutant of Made: the answer names a row that was not committed.
MadeLater(s, inputs) == UNCHANGED rows

\* A row for inputs that were saved as new.
Made(s, inputs) == rows' = [rows EXCEPT ![s] = [inputs EXCEPT !.of = s]]

\* The server writes the row, or makes one.
Served(f) ==
    /\ \/ f.pc = "put" /\ rows' = [rows EXCEPT ![f.row] = f.inputs]
          /\ Becomes(f, [f EXCEPT !.pc = "written"])
       \/ f.pc = "post" /\ \E s \in Sizings :
            /\ ~Exists(s) /\ \A t \in Sizings : ~Exists(t) => s <= t
            /\ Made(s, f.inputs)
            /\ Becomes(f, [f EXCEPT !.pc = "made", !.row = s])
    /\ UNCHANGED <<place, sizer, opens, fetches, booting, leaving, edits, ghosts>>

\* Mutant of SaveFails: what was not saved is marked clean all the same.
SaveFailsClean(f) ==
    /\ f.pc \in {"put", "post", "written", "made"} /\ Ends(f)
    /\ late' = (late \/ f.pc \in {"written", "made"}) /\ clean' = Capture
    /\ UNCHANGED <<rows, place, mode, form, loaded, target, opens, fetches, booting>>
    /\ UNCHANGED <<leaving, edits, crossed, bled>>

\* Refused, or the request or its answer is lost.
SaveFails(f) ==
    /\ f.pc \in {"put", "post", "written", "made"} /\ Ends(f)
    /\ late' = (late \/ f.pc \in {"written", "made"})
    /\ UNCHANGED <<rows, place, sizer, opens, fetches, booting, leaving, edits, crossed, bled>>

\* Mutant of Loaded: a sizing that was just made does not become the one that is loaded.
LoadedIfUpdated(f) == IF f.pc = "written" /\ f.inputs.page # "dr" THEN f.row ELSE loaded

\* The sizing loaded once a save of f is answered.
Loaded(f) == IF f.inputs.page = "dr" THEN loaded ELSE f.row

\* The saved sizing is the one loaded; its result goes after it.
SaveAnswered(f) ==
    /\ f.pc \in {"written", "made"}
    /\ Becomes(f, [f EXCEPT !.pc = "result"])
    /\ loaded' = Loaded(f)
    /\ form' = IF f.pc = "made" /\ form[f.inputs.page] # None /\ form[f.inputs.page].of = f.inputs.of
               THEN [form EXCEPT ![f.inputs.page].of = f.row] ELSE form
    /\ UNCHANGED <<rows, place, mode, target, clean, opens, fetches, booting, leaving, edits, ghosts>>

\* markSizingClean, and what the save was for.
SaveEnds(f) ==
    /\ f.pc = "result"
    /\ IF f.then \in Pages THEN StartOver(f.then) /\ UNCHANGED late
       ELSE /\ Ends(f)
            /\ IF f.inputs.page = "dr" THEN UNCHANGED <<clean, late>>
               ELSE clean' = Capture /\ late' = (Capture = None \/ Capture.no # f.inputs.no)
            /\ IF f.inputs.page = "dr" \/ (f.then = "project" /\ project) THEN Return
               ELSE UNCHANGED <<screen, address, visited, fetches>>
            /\ UNCHANGED <<project, mode, form, loaded, target, opens, booting, leaving>>
    /\ UNCHANGED <<rows, edits, crossed, bled>>

Save(f) == Answered(f) \/ Served(f) \/ SaveFails(f) \/ SaveAnswered(f) \/ SaveEnds(f)

-----------------------------------------------------------------------------
Browser == Reload \/ \E a \in {Home, Project} \cup {At(s) : s \in visited} : Popstate(a)
Clicks  ==
    \/ NewSizing \/ BackToProjects \/ ClickProject \/ BackToProject \/ Edit
    \/ StayHere \/ Discard \/ SaveAndLeave \/ PressSave
    \/ \E s \in Sizings : ClickSizing(s)
    \/ \E m \in Pages : SwitchMode(m)
Network ==
    \/ BootArrives \/ BootFails
    \/ \E push \in BOOLEAN : ProjectArrives(push)
    \/ \E o \in opens : Open(o)
    \/ \E f \in saves : Save(f)

Next == Browser \/ Clicks \/ Network
Spec == Init /\ [][Next]_vars

-----------------------------------------------------------------------------
TypeOK ==
    /\ rows \in [Sizings -> Inputs \cup {None}]
    /\ screen \in {"boot", "home", "project", "sizer"}
    /\ address \in Addresses /\ visited \subseteq Sizings /\ project \in BOOLEAN
    /\ mode \in Pages /\ \A m \in Pages : form[m] \in {i \in Inputs : i.page = m} \cup {None}
    /\ {loaded, target} \subseteq {s \in Sizings : Exists(s)} \cup {None}
    /\ clean \in Inputs \cup {None}
    /\ \A o \in opens : o.pc \in {"served", "reserve", "models"} => o.inputs \in Inputs
    /\ \A f \in saves : f.inputs \in Inputs /\ (f.pc \in {"put", "written", "made", "result"} => Exists(f.row))
    /\ fetches \subseteq BOOLEAN /\ leaving \in Pages \cup {None} /\ booting \in Addresses \cup {None}

\* A row holds inputs entered for it: no save writes one sizing's inputs over another.
EachRowKeepsItsInputs == \A s \in Sizings : Exists(s) => rows[s].of = s

\* ... as long as no two handlers crossed and no page was shown with what another
\* sizing had left there: failed and lost saves, saves that make a new sizing, questions
\* cancelled, openings that overtake each other, reloads and history included.
RowsKeepTheirInputs == ~crossed /\ ~bled => EachRowKeepsItsInputs

\* A page switch that does not ask loses nothing ("the last saved (or freshly loaded)
\* state"): what is on the page is in its row, unless entered during the save
\* or the answer of a save was lost.
SilenceMeansSaved ==
    (~crossed /\ ~bled /\ ~late /\ mode # "dr" /\ form[mode] # None /\ ~Unsaved)
        => form[mode].of # New /\ rows[form[mode].of] = form[mode]
=============================================================================
