------------------------- MODULE SizerScreenProofs -------------------------
(***************************************************************************)
(* What TLAPS proves of SizerScreen for every set of sizings, and every    *)
(* number of edits, openings, fetches and saves under way.                 *)
(***************************************************************************)
EXTENDS SizerScreen, TLAPS

-----------------------------------------------------------------------------
(* What holds whatever crosses: types, closer than TypeOK has them.          *)

\* Inputs that have been entered; their numbers tell a new one from all the others.
Entered(n) == {i \in Inputs : i.no <= n}

Held(rs) == {s \in Sizings : rs[s] # None}

OpenOK(o, held, n) ==
    /\ o \in [sizing : Sizings, push : BOOLEAN, pc : {"config", "served", "reserve", "models"},
              inputs : Entered(n) \cup {None}]
    /\ o.pc # "config" => /\ o.sizing \in held /\ o.inputs \in Entered(n)
                          /\ o.inputs.page = "dr" => o.sizing \in Targets
    /\ o.pc \in {"reserve", "models"} => o.sizing \notin Targets

OpensOK(os, held, n) == \A o \in os : OpenOK(o, held, n)

Saves == [inputs : Inputs, then : {"stay", "project", "import", "appliance"},
          row : Sizings \cup {None},
          pc : {"choice", "name", "put", "post", "written", "made", "result"}]

SaveOK(f, held, n, lastLoaded) ==
    /\ f \in Saves /\ f.inputs \in Entered(n)
    /\ f.pc \in {"put", "written", "made", "result"} => f.row \in held
    /\ f.inputs.page = "dr" => f.row \in Targets /\ f.pc \in {"put", "written", "result"}
    /\ f.pc = "choice" => lastLoaded # None

SavesOK(fs, held, n, lastLoaded) == \A f \in fs : SaveOK(f, held, n, lastLoaded)

RowsOK ==
    /\ rows \in [Sizings -> Entered(edits) \cup {None}]
    /\ Saved \subseteq Held(rows)
    /\ \A s \in Held(rows) : rows[s].page = "dr" => s \in Targets

SizerOK ==
    /\ mode \in Pages /\ form \in [Pages -> Entered(edits) \cup {None}]
    /\ \A m \in Pages : form[m] # None => form[m].page = m
    /\ loaded \in Held(rows) \cup {None} /\ target \in Targets \cup {None}
    /\ mode = "dr" => target # None
    /\ clean \in Entered(edits) \cup {None}

PlaceOK ==
    /\ screen \in {"boot", "home", "project", "sizer"}
    /\ address \in Addresses /\ visited \subseteq Sizings /\ project \in BOOLEAN
    /\ fetches \subseteq BOOLEAN /\ leaving \in {"import", "appliance", None}
    /\ booting \in Addresses \cup {None}
    /\ {late, crossed, bled} \subseteq BOOLEAN

TypeInv ==
    /\ RowsOK /\ SizerOK /\ PlaceOK /\ edits \in 0..MaxEdits
    /\ OpensOK(opens, Held(rows), edits)
    /\ SavesOK(saves, Held(rows), edits, loaded)

-----------------------------------------------------------------------------
(* What holds while nothing has crossed or bled.                             *)

\* Saves run alone, and one opening at most has shown its page without its inputs.
OneAtATime ==
    /\ saves # {} => opens = {}
    /\ \A f, g \in saves : f = g
    /\ \A o, p \in opens : o.pc = "models" /\ p.pc = "models" => o = p

OpensAreCurrent == \A o \in opens : o.pc # "config" => o.inputs = rows[o.sizing]

Settled == \A o \in opens : o.pc # "models"

\* What the page shows is of the sizing it has loaded.
ScreenIsOfOne ==
    /\ mode = "dr" => loaded \in Targets /\ target = loaded
    /\ Settled /\ mode # "dr" => loaded \notin Targets
    /\ Settled /\ form[mode] # None => form[mode].of = Owner

\* A save is of the page shown, and writes the row of the sizing loaded or a new one.
SaveIsOfTheScreen(f) ==
    /\ f.inputs.page = mode
    /\ f.pc \in {"choice", "name", "post", "put", "written", "made"} => f.inputs.of = Owner
    /\ f.pc \in {"put", "written", "result"} => f.row = loaded
    /\ f.pc = "written" => rows[f.row] = f.inputs
    /\ f.pc = "made" => f.row \notin Targets /\ (clean # None => clean.of # f.row)
    /\ f.pc \in {"made", "result"} => rows[f.row] = [f.inputs EXCEPT !.of = f.row]
    /\ clean = f.inputs \/ form[mode] # clean

ScreenInv ==
    /\ OneAtATime /\ OpensAreCurrent /\ EachRowKeepsItsInputs /\ ScreenIsOfOne
    /\ \A f \in saves : SaveIsOfTheScreen(f)
    /\ clean # None => clean.of \in Held(rows) \ Targets

\* What is taken for saved is in its row, unless a save has just written that row again:
\* then the page holds something newer.
CleanIsSaved ==
    clean # None => \/ rows[clean.of] = clean
                    \/ \E f \in saves : /\ f.pc \in {"written", "result"} /\ f.row = clean.of
                                        /\ form[mode] # clean

Clear == ~crossed /\ ~bled

SizerInv ==
    /\ TypeInv
    /\ Clear => ScreenInv
    /\ Clear /\ ~late => CleanIsSaved

-----------------------------------------------------------------------------
LEMMA ConstantFacts ==
    /\ Targets \subseteq Sizings /\ Saved \subseteq Sizings /\ Targets \subseteq Saved
    /\ None \notin Sizings /\ None \notin Pages /\ None \notin Inputs /\ None \notin Addresses
    /\ New \notin Sizings /\ MaxEdits \in Nat
BY ScreenAssumption

LEMMA AddressFacts ==
    /\ Home \in Addresses /\ Project \in Addresses /\ Blank \in Addresses
    /\ \A s \in Sizings : At(s) \in Addresses
    /\ \A a \in Addresses : a.sizing \in Sizings \cup {None}
BY DEF Addresses, Home, Project, Blank, At

\* Rows only come, numbers only grow: what was right of an opening or a save stays so.
LEMMA NumbersGrow ==
    ASSUME NEW n \in Int, NEW n2 \in Int, n <= n2
    PROVE  Entered(n) \subseteq Entered(n2)
<1> SUFFICES ASSUME NEW i \in Entered(n) PROVE i.no <= n2
    BY DEF Entered
<1>1. i \in Inputs /\ i.no <= n
    BY DEF Entered
<1>2. i.no \in 0..MaxEdits
    BY <1>1 DEF Inputs
<1> QED BY <1>1, <1>2, ConstantFacts

LEMMA OpensGrow ==
    ASSUME NEW held, NEW held2, held \subseteq held2,
           NEW n \in Int, NEW n2 \in Int, n <= n2,
           NEW os, OpensOK(os, held, n), NEW added, OpensOK(added, held2, n2),
           NEW after, after \subseteq os \cup added
    PROVE  OpensOK(after, held2, n2)
<1>1. ASSUME NEW o, OpenOK(o, held, n) PROVE OpenOK(o, held2, n2)
    BY <1>1, NumbersGrow DEF OpenOK
<1> QED BY <1>1 DEF OpensOK

LEMMA SavesGrow ==
    ASSUME NEW held, NEW held2, held \subseteq held2,
           NEW n \in Int, NEW n2 \in Int, n <= n2,
           NEW ld, NEW ld2, ld # None => ld2 # None,
           NEW fs, SavesOK(fs, held, n, ld), NEW added, SavesOK(added, held2, n2, ld2),
           NEW after, after \subseteq fs \cup added
    PROVE  SavesOK(after, held2, n2, ld2)
<1>1. ASSUME NEW f, SaveOK(f, held, n, ld) PROVE SaveOK(f, held2, n2, ld2)
    BY <1>1, NumbersGrow DEF SaveOK
<1> QED BY <1>1 DEF SavesOK

LEMMA InitType == Init => TypeInv
<1> SUFFICES ASSUME Init PROVE TypeInv
    OBVIOUS
<1> USE DEF Init
<1>1. edits \in 0..MaxEdits
    BY ConstantFacts
<1>2. \A s \in Saved : [of |-> s, no |-> 0, page |-> Page[s]] \in Entered(0)
    BY ScreenAssumption, ConstantFacts DEF Entered, Inputs
<1>3. Held(rows) = Saved
    BY <1>2, ConstantFacts DEF Held, Entered
<1>4. RowsOK
    BY <1>2, <1>3, ScreenAssumption DEF RowsOK
<1>5. SizerOK
    BY DEF SizerOK, Empty, Pages
<1>6. PlaceOK
    BY AddressFacts DEF PlaceOK
<1> QED BY <1>1, <1>4, <1>5, <1>6 DEF TypeInv, OpensOK, SavesOK

\* A document is loaded.
LEMMA BootType ==
    ASSUME TypeInv, UNCHANGED <<rows, edits, ghosts>>,
           NEW a \in Addresses, NEW m \in {"import", "appliance"}, Boot(a, m)
    PROVE  TypeInv'
<1>1. RowsOK' /\ edits' \in 0..MaxEdits
    BY DEF TypeInv, RowsOK
<1>2. SizerOK'
    BY DEF SizerOK, Boot, Empty, Pages
<1>3. PlaceOK'
    BY AddressFacts DEF PlaceOK, Boot, TypeInv, ghosts
<1>4. opens' = {} /\ saves' = {}
    BY DEF Boot
<1> QED BY <1>1, <1>2, <1>3, <1>4 DEF TypeInv, OpensOK, SavesOK

\* Steps that write no row and enter nothing.
LEMMA ScreenType ==
    ASSUME TypeInv, PlaceOK', SizerOK', UNCHANGED <<rows, edits>>, loaded # None => loaded' # None,
           NEW os, OpensOK(os, Held(rows), edits), opens' \subseteq opens \cup os,
           NEW fs, SavesOK(fs, Held(rows), edits, loaded'), saves' \subseteq saves \cup fs
    PROVE  TypeInv'
<1>1. RowsOK' /\ edits' \in 0..MaxEdits /\ Held(rows') = Held(rows)
    BY DEF TypeInv, RowsOK
<1>2. edits \in Int
    BY ConstantFacts DEF TypeInv
<1>3. OpensOK(opens', Held(rows'), edits')
    BY <1>1, <1>2, OpensGrow DEF TypeInv
<1>4. SavesOK(saves', Held(rows'), edits', loaded')
    BY <1>1, <1>2, SavesGrow DEF TypeInv
<1> QED BY <1>1, <1>3, <1>4 DEF TypeInv

\* Steps that leave the pages and their inputs alone as well.
LEMMA NavigationType ==
    ASSUME TypeInv, PlaceOK', UNCHANGED <<rows, sizer, edits>>,
           NEW os, OpensOK(os, Held(rows), edits), opens' \subseteq opens \cup os,
           NEW fs, SavesOK(fs, Held(rows), edits, loaded), saves' \subseteq saves \cup fs
    PROVE  TypeInv'
<1>1. UNCHANGED <<mode, form, loaded, target, clean>>
    BY DEF sizer
<1>2. SizerOK'
    BY <1>1 DEF TypeInv, SizerOK
<1> QED BY <1>1, <1>2, ScreenType

LEMMA NoFlows ==
    ASSUME NEW held, NEW n, NEW ld
    PROVE  OpensOK({}, held, n) /\ SavesOK({}, held, n, ld)
BY DEF OpensOK, SavesOK

LEMMA BeginType ==
    ASSUME NEW s \in Sizings, NEW push \in BOOLEAN
    PROVE  OpensOK({Opening(s, push)}, Held(rows), edits)
BY DEF OpensOK, OpenOK, Opening

LEMMA PushType ==
    ASSUME TypeInv, NEW a \in Addresses, NEW push \in BOOLEAN, Push(a, push)
    PROVE  address' \in Addresses /\ visited' \subseteq Sizings
BY AddressFacts DEF TypeInv, PlaceOK, Push

LEMMA HistoryType ==
    ASSUME TypeInv,
           \/ BootArrives \/ BootFails \/ BackToProjects \/ ClickProject \/ BackToProject
           \/ StayHere
           \/ \E push \in BOOLEAN : ProjectArrives(push)
           \/ \E a \in {Home, Project} \cup {At(s) : s \in visited} : Popstate(a)
           \/ \E s \in Sizings : ClickSizing(s)
    PROVE  TypeInv'
<1> USE NoFlows
<1>1. address \in Addresses /\ visited \subseteq Sizings /\ booting \in Addresses \cup {None}
    BY DEF TypeInv, PlaceOK
<1>2. ASSUME NEW s \in Sizings, NEW push \in BOOLEAN, Begin(s, push)
      PROVE  /\ opens' \subseteq opens \cup {Opening(s, push)} /\ crossed' \in BOOLEAN
             /\ OpensOK({Opening(s, push)}, Held(rows), edits)
    BY <1>2, BeginType DEF Begin
<1>3. CASE BootArrives
    <2>1. CASE booting.at # "project" /\ booting.sizing # None
        <3>1. booting.sizing \in Sizings /\ Begin(booting.sizing, FALSE)
            BY <1>1, <1>3, <2>1, AddressFacts DEF BootArrives
        <3>2. PlaceOK'
            BY <1>2, <1>3, <2>1, <3>1 DEF TypeInv, PlaceOK, BootArrives
        <3> QED BY <1>2, <1>3, <3>1, <3>2, NavigationType DEF BootArrives
    <2>2. CASE booting.at = "project" \/ booting.sizing = None
        <3>1. PlaceOK'
            BY <1>1, <1>3, <2>2 DEF TypeInv, PlaceOK, BootArrives
        <3>2. opens' \subseteq opens \cup {}
            BY <1>3, <2>2 DEF BootArrives
        <3> QED BY <1>3, <3>1, <3>2, NavigationType DEF BootArrives
    <2> QED BY <2>1, <2>2
<1>4. CASE BootFails \/ BackToProjects \/ ClickProject \/ BackToProject \/ StayHere
           \/ \E push \in BOOLEAN : ProjectArrives(push)
    <2>1. UNCHANGED <<rows, sizer, edits>> /\ opens' \subseteq opens \cup {}
        BY <1>4 DEF BootFails, BackToProjects, ClickProject, BackToProject, StayHere,
                    ProjectArrives, flows
    <2>2. saves' \subseteq saves \cup {}
        BY <1>4 DEF BootFails, BackToProjects, ClickProject, BackToProject, StayHere,
                    ProjectArrives, flows
    <2>3. address' \in Addresses /\ visited' \subseteq Sizings
        BY <1>1, <1>4, AddressFacts, PushType
           DEF BootFails, BackToProjects, ClickProject, BackToProject, StayHere,
               ProjectArrives, ShowHome, Return, place
    <2>4. PlaceOK'
        BY <1>4, <2>3 DEF TypeInv, PlaceOK, place, flows, ghosts, BootFails, BackToProjects,
               ClickProject, BackToProject, StayHere, ProjectArrives, ShowHome, Return, OpenProject
    <2> QED BY <2>1, <2>2, <2>4, NavigationType
<1>5. ASSUME NEW a \in {Home, Project} \cup {At(s) : s \in visited}, Popstate(a) PROVE TypeInv'
    <2>1. a \in Addresses
        BY <1>1, AddressFacts
    <2>2. CASE a.sizing # None
        <3>1. a.sizing \in Sizings /\ Begin(a.sizing, FALSE)
            BY <1>5, <2>1, <2>2, AddressFacts DEF Popstate
        <3>2. PlaceOK'
            BY <1>2, <1>5, <2>1, <2>2, <3>1 DEF TypeInv, PlaceOK, Popstate
        <3> QED BY <1>2, <1>5, <3>1, <3>2, NavigationType DEF Popstate
    <2>3. CASE a.sizing = None
        <3>1. fetches' \subseteq BOOLEAN /\ screen' \in {screen, "home"} /\ UNCHANGED crossed
            <4>1. fetches \subseteq BOOLEAN
                BY DEF TypeInv, PlaceOK
            <4>2. CASE a.at = "home"
                BY <1>5, <2>3, <4>1, <4>2 DEF Popstate
            <4>3. CASE a.at # "home"
                <5>1. fetches' = fetches \cup {FALSE}
                    BY <1>5, <2>3, <4>3 DEF Popstate, OpenProject
                <5>2. UNCHANGED <<screen, crossed>>
                    BY <1>5, <2>3, <4>3 DEF Popstate
                <5> QED BY <4>1, <5>1, <5>2
            <4> QED BY <4>2, <4>3
        <3>2. PlaceOK'
            BY <1>5, <2>1, <3>1 DEF TypeInv, PlaceOK, Popstate
        <3>3. opens' \subseteq opens \cup {}
            BY <1>5, <2>3 DEF Popstate
        <3> QED BY <1>5, <3>2, <3>3, NavigationType DEF Popstate
    <2> QED BY <2>2, <2>3
<1>6. ASSUME NEW s \in Sizings, ClickSizing(s) PROVE TypeInv'
    <2>1. Begin(s, TRUE)
        BY <1>6 DEF ClickSizing
    <2>2. PlaceOK'
        BY <1>2, <1>6, <2>1 DEF TypeInv, PlaceOK, ClickSizing, place
    <2> QED BY <1>2, <1>6, <2>1, <2>2, NavigationType DEF ClickSizing
<1> QED BY <1>3, <1>4, <1>5, <1>6

LEMMA DocumentType ==
    ASSUME TypeInv, Reload \/ NewSizing \/ Discard
    PROVE  TypeInv'
<1>1. Again \in Addresses /\ Blank \in Addresses
    BY AddressFacts DEF TypeInv, PlaceOK, Again
<1>2. UNCHANGED <<rows, edits, ghosts>>
    BY DEF Reload, NewSizing, Discard
<1>3. CASE Reload \/ NewSizing
    BY <1>1, <1>2, <1>3, BootType DEF Reload, NewSizing
<1>4. CASE Discard
    <2>1. leaving \in {"import", "appliance"} /\ StartOver(leaving)
        BY <1>4 DEF Discard, TypeInv, PlaceOK
    <2> QED BY <1>1, <1>2, <2>1, BootType DEF StartOver
<1> QED BY <1>3, <1>4

LEMMA HandOverType ==
    ASSUME TypeInv, NEW o \in opens, o.pc \in {"reserve", "models"},
           NEW m \in Pages, HandOver(o, m), mode' = m, UNCHANGED <<rows, edits, target>>,
           m # "dr" \/ mode = "dr"
    PROVE  SizerOK' /\ late' = FALSE /\ opens' \subseteq opens \cup {} /\ loaded' # None
<1>1. OpenOK(o, Held(rows), edits)
    BY DEF TypeInv, OpensOK
<1>2. /\ o.sizing \in Held(rows) /\ o.inputs \in Entered(edits) /\ o.inputs.page \in Pages
      /\ o.sizing # None
    BY <1>1, ConstantFacts DEF OpenOK, Entered, Inputs, Held
<1>3. form' = [form EXCEPT ![o.inputs.page] = o.inputs]
    BY DEF HandOver
<1>4. /\ form' \in [Pages -> Entered(edits) \cup {None}]
      /\ \A n \in Pages : form'[n] # None => form'[n].page = n
    BY <1>2, <1>3 DEF TypeInv, SizerOK
<1>5. Held(rows') = Held(rows) /\ edits' = edits
    BY DEF Held
<1>6. clean' \in Entered(edits) \cup {None}
    BY <1>4 DEF HandOver
<1>7. SizerOK'
    BY <1>2, <1>4, <1>5, <1>6 DEF SizerOK, HandOver, TypeInv
<1> QED BY <1>2, <1>7 DEF HandOver

LEMMA OpenType ==
    ASSUME TypeInv, NEW o \in opens, Open(o)
    PROVE  TypeInv'
<1> USE NoFlows
<1>1. OpenOK(o, Held(rows), edits)
    BY DEF TypeInv, OpensOK
<1>2. {Crosses(o), FALSE, TRUE} \subseteq BOOLEAN
    BY DEF Crosses
<1>3. UNCHANGED <<rows, edits, saves>>
    BY DEF Open, ServeConfig, ConfigArrives, OpenFails, ReserveArrives, ModelsArrive
<1>4. CASE ServeConfig(o)
    <2> DEFINE n == [o EXCEPT !.pc = "served", !.inputs = rows[o.sizing]]
    <2>1. o.sizing \in Held(rows)
        BY <1>1, <1>4 DEF ServeConfig, Exists, OpenOK, Held
    <2>2. rows[o.sizing] \in Entered(edits) /\ (rows[o.sizing].page = "dr" => o.sizing \in Targets)
        BY <2>1 DEF Held, TypeInv, RowsOK
    <2>3. n = [sizing |-> o.sizing, push |-> o.push, pc |-> "served", inputs |-> rows[o.sizing]]
        <3>1. [o EXCEPT !.pc = "served"] =
                  [sizing |-> o.sizing, push |-> o.push, pc |-> "served", inputs |-> o.inputs]
            BY <1>1 DEF OpenOK
        <3>2. ASSUME NEW r, NEW i, r = [sizing |-> o.sizing, push |-> o.push, pc |-> "served",
                                        inputs |-> o.inputs]
              PROVE  [r EXCEPT !.inputs = i] = [sizing |-> o.sizing, push |-> o.push,
                                                pc |-> "served", inputs |-> i]
            BY <3>2
        <3>3. n = [[o EXCEPT !.pc = "served"] EXCEPT !.inputs = rows[o.sizing]]
            OBVIOUS
        <3> QED BY <3>1, <3>2, <3>3
    <2>4. OpensOK({n}, Held(rows), edits)
        BY <1>1, <2>1, <2>2, <2>3 DEF OpensOK, OpenOK
    <2>5. PlaceOK'
        BY <1>4 DEF TypeInv, PlaceOK, ServeConfig, place, ghosts
    <2> QED BY <1>3, <1>4, <2>4, <2>5, NavigationType DEF ServeConfig
<1>5. CASE OpenFails(o)
    <2>1. PlaceOK'
        BY <1>5 DEF TypeInv, PlaceOK, OpenFails, place, ghosts
    <2>2. opens' \subseteq opens \cup {}
        BY <1>5 DEF OpenFails
    <2> QED BY <1>3, <1>5, <2>1, <2>2, NavigationType DEF OpenFails
<1>6. CASE ConfigArrives(o)
    <2>1. address' \in Addresses /\ visited' \subseteq Sizings
        BY <1>1, <1>6, AddressFacts, PushType DEF OpenOK, ConfigArrives
    <2>2. CASE o.sizing \in Targets
        <3>1. PlaceOK'
            BY <1>2, <1>6, <2>1, <2>2 DEF TypeInv, PlaceOK, ConfigArrives
        <3>2. o.sizing \in Held(rows) /\ o.inputs \in Entered(edits) /\ o.sizing # None
            BY <1>1, <1>6, ConstantFacts DEF OpenOK, ConfigArrives, Held
        <3>3. [o.inputs EXCEPT !.page = "dr"] \in Entered(edits)
              /\ [o.inputs EXCEPT !.page = "dr"].page = "dr"
            BY <3>2 DEF Entered, Inputs, Pages
        <3>4. Held(rows') = Held(rows)
            BY <1>3
        <3>5. SizerOK'
            BY <1>3, <1>6, <2>2, <3>2, <3>3, <3>4, ConstantFacts
               DEF TypeInv, SizerOK, ConfigArrives, Pages
        <3>6. opens' \subseteq opens \cup {} /\ loaded' # None
            BY <1>6, <2>2, <3>2 DEF ConfigArrives
        <3> QED BY <1>3, <3>1, <3>5, <3>6, ScreenType
    <2>3. CASE o.sizing \notin Targets
        <3> DEFINE n == [o EXCEPT !.pc = "reserve"]
        <3>1. PlaceOK'
            BY <1>6, <2>1, <2>3 DEF TypeInv, PlaceOK, ConfigArrives
        <3>2. n = [sizing |-> o.sizing, push |-> o.push, pc |-> "reserve", inputs |-> o.inputs]
            BY <1>1 DEF OpenOK
        <3>3. o.pc = "served"
            BY <1>6 DEF ConfigArrives
        <3>4. OpensOK({n}, Held(rows), edits)
            BY <1>1, <2>3, <3>2, <3>3 DEF OpensOK, OpenOK
        <3>5. opens' \subseteq opens \cup {n} /\ UNCHANGED sizer
            BY <1>6, <2>3 DEF ConfigArrives
        <3> QED BY <1>3, <3>1, <3>4, <3>5, NavigationType
    <2> QED BY <2>2, <2>3
<1>7. CASE ReserveArrives(o)
    <2>1. /\ o.inputs \in Entered(edits) /\ o.inputs.page \in Pages /\ o.inputs.page # "dr"
          /\ o.sizing \in Held(rows) /\ o.sizing \notin Targets
        BY <1>1, <1>7 DEF OpenOK, ReserveArrives, Entered, Inputs
    <2>2. mode' = o.inputs.page /\ crossed' \in BOOLEAN /\ UNCHANGED target
        BY <1>2, <1>7 DEF ReserveArrives, TypeInv, PlaceOK
    <2>3. CASE mode' = "import"
        <3>1. HandOver(o, mode')
            BY <1>7, <2>3 DEF ReserveArrives
        <3>2. SizerOK' /\ late' = FALSE /\ opens' \subseteq opens \cup {} /\ loaded' # None
            BY <1>3, <1>7, <2>1, <2>2, <3>1, HandOverType DEF ReserveArrives
        <3>3. PlaceOK'
            BY <1>7, <2>2, <3>2 DEF TypeInv, PlaceOK, ReserveArrives, place
        <3> QED BY <1>3, <3>2, <3>3, ScreenType
    <2>4. CASE mode' # "import"
        <3> DEFINE n == [o EXCEPT !.pc = "models"]
        <3>1. n = [sizing |-> o.sizing, push |-> o.push, pc |-> "models", inputs |-> o.inputs]
            BY <1>1 DEF OpenOK
        <3>2. OpensOK({n}, Held(rows), edits)
            BY <1>1, <2>1, <3>1 DEF OpensOK, OpenOK
        <3>3. opens' \subseteq opens \cup {n} /\ UNCHANGED <<form, loaded, clean, late>>
            BY <1>7, <2>4 DEF ReserveArrives
        <3>4. PlaceOK'
            BY <1>7, <2>2, <3>3 DEF TypeInv, PlaceOK, ReserveArrives, place
        <3>5. SizerOK'
            BY <1>3, <2>1, <2>2, <3>3 DEF TypeInv, SizerOK
        <3> QED BY <1>3, <3>2, <3>3, <3>4, <3>5, ScreenType
    <2> QED BY <2>3, <2>4
<1>8. CASE ModelsArrive(o)
    <2>1. mode' = mode /\ mode \in Pages /\ UNCHANGED target /\ o.pc = "models"
        BY <1>8 DEF ModelsArrive, TypeInv, SizerOK
    <2>2. HandOver(o, mode) /\ crossed' \in BOOLEAN
        BY <1>2, <1>8 DEF ModelsArrive, TypeInv, PlaceOK
    <2>3. SizerOK' /\ late' = FALSE /\ opens' \subseteq opens \cup {} /\ loaded' # None
        BY <1>3, <2>1, <2>2, HandOverType
    <2>4. PlaceOK'
        BY <1>8, <2>2, <2>3 DEF TypeInv, PlaceOK, ModelsArrive, place
    <2> QED BY <1>3, <2>3, <2>4, ScreenType
<1> QED BY <1>4, <1>5, <1>6, <1>7, <1>8 DEF Open

LEMMA EditType ==
    ASSUME TypeInv, Edit
    PROVE  TypeInv'
<1>1. edits \in 0..MaxEdits /\ edits < MaxEdits /\ edits' = edits + 1
    BY DEF Edit, TypeInv
<1>2. /\ edits \in Int /\ edits' \in Int /\ edits <= edits' /\ edits' \in 0..MaxEdits
      /\ edits' <= edits'
    BY <1>1, ConstantFacts
<1>3. Entered(edits) \subseteq Entered(edits')
    BY <1>2, NumbersGrow
<1>4. UNCHANGED <<rows, screen, address, visited, project, mode, loaded, target, clean,
                  opens, fetches, booting, saves, leaving, late, crossed, bled>>
    BY DEF Edit, place, flows, ghosts
<1>5. RowsOK' /\ Held(rows') = Held(rows)
    BY <1>3, <1>4 DEF TypeInv, RowsOK
<1>6. PlaceOK'
    BY <1>4 DEF TypeInv, PlaceOK
<1>7. PICK of : /\ of \in {Owner} \cup (IF form[mode] = None THEN {} ELSE {form[mode].of})
                /\ form' = [form EXCEPT ![mode] = [of |-> of, no |-> edits', page |-> mode]]
    BY DEF Edit
<1>8. mode \in Pages /\ form \in [Pages -> Entered(edits) \cup {None}] /\ loaded \in Sizings \cup {None}
    BY DEF TypeInv, SizerOK, Held
<1>9. of \in Sizings \cup {New}
    BY <1>7, <1>8, ConstantFacts DEF Owner, Entered, Inputs
<1>10. [of |-> of, no |-> edits', page |-> mode] \in Entered(edits')
    BY <1>2, <1>8, <1>9 DEF Entered, Inputs
<1>11. form' \in [Pages -> Entered(edits') \cup {None}]
    BY <1>3, <1>7, <1>8, <1>10
<1>12. \A m \in Pages : form'[m] # None => form'[m].page = m
    BY <1>7, <1>8 DEF TypeInv, SizerOK
<1>13. SizerOK'
    BY <1>3, <1>4, <1>5, <1>11, <1>12 DEF TypeInv, SizerOK
<1>14. OpensOK(opens', Held(rows'), edits')
    BY <1>2, <1>4, <1>5, OpensGrow, NoFlows DEF TypeInv
<1>15. SavesOK(saves', Held(rows'), edits', loaded')
    BY <1>2, <1>4, <1>5, SavesGrow, NoFlows DEF TypeInv
<1> QED BY <1>2, <1>5, <1>6, <1>13, <1>14, <1>15 DEF TypeInv

LEMMA SwitchType ==
    ASSUME TypeInv, NEW m \in Pages, SwitchMode(m)
    PROVE  TypeInv'
<1> USE NoFlows
<1>1. m \in {"import", "appliance"} /\ UNCHANGED <<rows, edits, form, loaded, target, clean, opens, saves>>
    BY DEF SwitchMode, Pages
<1>2. mode' \in {mode, m} /\ leaving' \in {leaving, m} /\ crossed' \in BOOLEAN /\ bled' \in BOOLEAN
    BY DEF SwitchMode, TypeInv, PlaceOK
<1>3. SizerOK'
    BY <1>1, <1>2 DEF TypeInv, SizerOK
<1>4. PlaceOK'
    BY <1>1, <1>2 DEF SwitchMode, TypeInv, PlaceOK, place
<1>5. opens' \subseteq opens \cup {} /\ saves' \subseteq saves \cup {}
    BY <1>1
<1> QED BY <1>1, <1>3, <1>4, <1>5, ScreenType

LEMMA StartSaveType ==
    ASSUME TypeInv, NEW then \in {"stay", "project", "import", "appliance"}, StartSave(then)
    PROVE  /\ crossed' \in BOOLEAN
           /\ \E f : SavesOK({f}, Held(rows), edits, loaded) /\ saves' \subseteq saves \cup {f}
<1> DEFINE f == [inputs |-> form[mode], then |-> then,
                 row |-> IF mode = "dr" THEN target ELSE None,
                 pc |-> IF mode = "dr" THEN "put" ELSE IF loaded # None THEN "choice" ELSE "name"]
<1>1. saves' \subseteq saves \cup {f} /\ crossed' \in BOOLEAN
    BY DEF StartSave, TypeInv, PlaceOK
<1>2. form[mode] \in Entered(edits) /\ form[mode].page = mode
    BY DEF StartSave, TypeInv, SizerOK
<1>3. mode = "dr" => target \in Targets /\ target \in Held(rows) /\ target \in Sizings
    BY ConstantFacts DEF TypeInv, SizerOK, RowsOK
<1>4. SaveOK(f, Held(rows), edits, loaded)
    <2>1. CASE mode = "dr"
        <3>1. f = [inputs |-> form[mode], then |-> then, row |-> target, pc |-> "put"]
            BY <2>1
        <3> HIDE DEF f
        <3> QED BY <1>2, <1>3, <2>1, <3>1 DEF SaveOK, Saves, Entered
    <2>2. CASE mode # "dr"
        <3>1. PICK pc \in {"choice", "name"} :
                  /\ f = [inputs |-> form[mode], then |-> then, row |-> None, pc |-> pc]
                  /\ pc = "choice" => loaded # None
            BY <2>2
        <3> HIDE DEF f
        <3> QED BY <1>2, <2>2, <3>1 DEF SaveOK, Saves, Entered
    <2> QED BY <2>1, <2>2
<1>5. SavesOK({f}, Held(rows), edits, loaded)
    BY <1>4 DEF SavesOK
<1> HIDE DEF f
<1> QED BY <1>1, <1>5

LEMMA PressType ==
    ASSUME TypeInv, PressSave \/ SaveAndLeave
    PROVE  TypeInv'
<1>1. PICK then \in {"stay", "project", "import", "appliance"} : StartSave(then)
    BY DEF PressSave, SaveAndLeave, TypeInv, PlaceOK
<1>2. PICK f : SavesOK({f}, Held(rows), edits, loaded) /\ saves' \subseteq saves \cup {f}
    BY <1>1, StartSaveType
<1>3. crossed' \in BOOLEAN
    BY <1>1, StartSaveType
<1>4. UNCHANGED <<rows, sizer, edits>> /\ opens' \subseteq opens \cup {}
    BY DEF PressSave, SaveAndLeave
<1>5. PlaceOK'
    BY <1>3 DEF TypeInv, PlaceOK, PressSave, SaveAndLeave, place
<1> QED BY <1>2, <1>4, <1>5, NavigationType, NoFlows

\* The same save, further on.
SaveAt(f, pc, row) == [inputs |-> f.inputs, then |-> f.then, row |-> row, pc |-> pc]

LEMMA SaveGoesOn ==
    ASSUME NEW f \in Saves, NEW pc
    PROVE  [f EXCEPT !.pc = pc] = SaveAt(f, pc, f.row)
BY DEF Saves, SaveAt

LEMMA SaveGetsRow ==
    ASSUME NEW f \in Saves, NEW pc, NEW row
    PROVE  [f EXCEPT !.pc = pc, !.row = row] = SaveAt(f, pc, row)
<1> DEFINE g == [f EXCEPT !.pc = pc, !.row = row]
           Thens == {"stay", "project", "import", "appliance"}
<1>1. g \in [inputs : Inputs, then : Thens, row : {row}, pc : {pc}]
    BY DEF Saves
<1>2. g.inputs = f.inputs /\ g.then = f.then /\ g.row = row /\ g.pc = pc
    BY DEF Saves
<1> HIDE DEF g
<1>3. g = SaveAt(f, pc, row)
    BY <1>1, <1>2 DEF SaveAt
<1> QED BY <1>3 DEF g

LEMMA SaveFlowType ==
    ASSUME TypeInv, NEW f \in saves, Answered(f) \/ SaveFails(f) \/ SaveAnswered(f)
    PROVE  TypeInv'
<1> USE NoFlows
<1>1. SaveOK(f, Held(rows), edits, loaded)
    BY DEF TypeInv, SavesOK
<1>2. opens' \subseteq opens \cup {} /\ UNCHANGED <<rows, edits>>
    BY DEF Answered, SaveFails, SaveAnswered
<1>3. CASE Answered(f)
    <2>1. PlaceOK'
        BY <1>3 DEF TypeInv, PlaceOK, Answered, place, ghosts
    <2>2. UNCHANGED sizer
        BY <1>3 DEF Answered
    <2>3. CASE f.pc \in {"choice", "name"} /\ Ends(f)
        <3>1. saves' \subseteq saves \cup {}
            BY <2>3 DEF Ends
        <3> QED BY <1>2, <2>1, <2>2, <3>1, NavigationType
    <2>4. CASE f.pc = "choice" /\ Becomes(f, [f EXCEPT !.pc = "put", !.row = loaded])
        <3>1. saves' \subseteq saves \cup {SaveAt(f, "put", loaded)}
            <4>1. [f EXCEPT !.pc = "put", !.row = loaded] = SaveAt(f, "put", loaded)
                BY <1>1, SaveGetsRow DEF SaveOK
            <4> QED BY <2>4, <4>1 DEF Becomes
        <3>2. f.inputs.page # "dr" /\ loaded \in Held(rows) /\ loaded \in Sizings
            BY <1>1, <2>4 DEF SaveOK, TypeInv, SizerOK, Held
        <3>3. SavesOK({SaveAt(f, "put", loaded)}, Held(rows), edits, loaded)
            BY <1>1, <3>2 DEF SavesOK, SaveOK, SaveAt, Saves
        <3> QED BY <1>2, <2>1, <2>2, <3>1, <3>3, NavigationType
    <2>5. CASE \E pc \in {"name", "post"} : f.pc \in {"choice", "name"} /\ Becomes(f, [f EXCEPT !.pc = pc])
        <3>1. PICK pc \in {"name", "post"} :
                  f.pc \in {"choice", "name"} /\ Becomes(f, [f EXCEPT !.pc = pc])
            BY <2>5
        <3>2. saves' \subseteq saves \cup {SaveAt(f, pc, f.row)}
            <4>1. [f EXCEPT !.pc = pc] = SaveAt(f, pc, f.row)
                BY <1>1, SaveGoesOn DEF SaveOK
            <4> QED BY <3>1, <4>1 DEF Becomes
        <3>3. f.inputs.page # "dr"
            BY <1>1, <3>1 DEF SaveOK
        <3>4. SavesOK({SaveAt(f, pc, f.row)}, Held(rows), edits, loaded)
            BY <1>1, <3>3 DEF SavesOK, SaveOK, SaveAt, Saves
        <3> QED BY <1>2, <2>1, <2>2, <3>2, <3>4, NavigationType
    <2> QED BY <1>3, <2>3, <2>4, <2>5 DEF Answered
<1>4. CASE SaveFails(f)
    <2>1. late' \in BOOLEAN /\ saves' \subseteq saves \cup {} /\ UNCHANGED sizer
        BY <1>4 DEF SaveFails, Ends, TypeInv, PlaceOK
    <2>2. PlaceOK'
        BY <1>4, <2>1 DEF TypeInv, PlaceOK, SaveFails, place
    <2> QED BY <1>2, <2>1, <2>2, NavigationType
<1>5. CASE SaveAnswered(f)
    <2>1. PlaceOK' /\ UNCHANGED <<mode, target, clean>>
        BY <1>5 DEF TypeInv, PlaceOK, SaveAnswered, place, ghosts
    <2>2. f.row \in Held(rows) /\ f.row # None /\ f.row \in Sizings
        BY <1>1, <1>5, ConstantFacts DEF SaveOK, SaveAnswered, Held
    <2>3. loaded' \in Held(rows) \cup {None} /\ (loaded # None => loaded' # None)
        BY <1>5, <2>2 DEF SaveAnswered, Loaded, TypeInv, SizerOK
    <2>4. saves' \subseteq saves \cup {SaveAt(f, "result", f.row)}
        <3>1. [f EXCEPT !.pc = "result"] = SaveAt(f, "result", f.row)
            BY <1>1, SaveGoesOn DEF SaveOK
        <3> QED BY <1>5, <3>1 DEF SaveAnswered, Becomes
    <2>5. SavesOK({SaveAt(f, "result", f.row)}, Held(rows), edits, loaded')
        BY <1>1, <2>2 DEF SavesOK, SaveOK, SaveAt, Saves
    <2>6. /\ form' \in [Pages -> Entered(edits) \cup {None}]
          /\ \A m \in Pages : form'[m] # None => form'[m].page = m
        <3>1. CASE form' = form
            BY <3>1 DEF TypeInv, SizerOK
        <3>2. CASE /\ form[f.inputs.page] # None
                   /\ form' = [form EXCEPT ![f.inputs.page].of = f.row]
            <4>1. f.inputs.page \in Pages
                BY <1>1 DEF SaveOK, Entered, Inputs
            <4>2. [form[f.inputs.page] EXCEPT !.of = f.row] \in Entered(edits)
                  /\ [form[f.inputs.page] EXCEPT !.of = f.row].page = f.inputs.page
                BY <2>2, <3>2, <4>1 DEF TypeInv, SizerOK, Entered, Inputs
            <4> QED BY <3>2, <4>1, <4>2 DEF TypeInv, SizerOK
        <3> QED BY <1>5, <3>1, <3>2 DEF SaveAnswered
    <2>7. Held(rows') = Held(rows) /\ edits' = edits
        BY <1>2
    <2>8. SizerOK'
        BY <2>1, <2>3, <2>6, <2>7 DEF TypeInv, SizerOK
    <2> QED BY <1>2, <2>1, <2>3, <2>4, <2>5, <2>8, ScreenType
<1> QED BY <1>3, <1>4, <1>5

LEMMA ServedType ==
    ASSUME TypeInv, NEW f \in saves, Served(f)
    PROVE  TypeInv'
<1>1. SaveOK(f, Held(rows), edits, loaded)
    BY DEF TypeInv, SavesOK
<1>2. UNCHANGED <<screen, address, visited, project, mode, form, loaded, target, clean, opens,
                  fetches, booting, leaving, edits, late, crossed, bled>>
    BY DEF Served, place, sizer, ghosts
<1> DEFINE Writes(s, i, pc) ==
        /\ rows' = [rows EXCEPT ![s] = i] /\ Becomes(f, SaveAt(f, pc, s))
        /\ i.page = f.inputs.page /\ (i.page = "dr" => s \in Targets)
        /\ f.inputs.page = "dr" => pc = "written"
<1>3. PICK s \in Sizings, i \in Entered(edits), pc \in {"written", "made"} : Writes(s, i, pc)
    <2>1. f.inputs \in Entered(edits)
        BY <1>1 DEF SaveOK
    <2>2. CASE f.pc = "put" /\ rows' = [rows EXCEPT ![f.row] = f.inputs]
               /\ Becomes(f, [f EXCEPT !.pc = "written"])
        <3>1. [f EXCEPT !.pc = "written"] = SaveAt(f, "written", f.row)
            BY <1>1, SaveGoesOn DEF SaveOK
        <3>2. f.row \in Sizings /\ (f.inputs.page = "dr" => f.row \in Targets)
            BY <1>1, <2>2 DEF SaveOK, Held
        <3>3. Writes(f.row, f.inputs, "written")
            BY <2>2, <3>1, <3>2
        <3> QED BY <2>1, <3>2, <3>3
    <2>3. ASSUME f.pc = "post", NEW s \in Sizings, Made(s, f.inputs),
                 Becomes(f, [f EXCEPT !.pc = "made", !.row = s])
          PROVE  \E i \in Entered(edits) : Writes(s, i, "made")
        <3>1. [f EXCEPT !.pc = "made", !.row = s] = SaveAt(f, "made", s)
            BY <1>1, SaveGetsRow DEF SaveOK
        <3>2. f.inputs.page # "dr"
            BY <1>1, <2>3 DEF SaveOK
        <3>3. [f.inputs EXCEPT !.of = s] \in Entered(edits)
              /\ [f.inputs EXCEPT !.of = s].page = f.inputs.page
            BY <2>1 DEF Entered, Inputs
        <3>4. Writes(s, [f.inputs EXCEPT !.of = s], "made")
            BY <2>3, <3>1, <3>2, <3>3 DEF Made
        <3> QED BY <3>3, <3>4
    <2> HIDE DEF Writes
    <2> QED BY <2>2, <2>3 DEF Served
<1>4. rows \in [Sizings -> Entered(edits) \cup {None}] /\ i # None
    BY ConstantFacts DEF TypeInv, RowsOK, Entered
<1>5. Held(rows') = Held(rows) \cup {s}
    BY <1>3, <1>4 DEF Held
<1>6. \A t \in Held(rows') : rows'[t].page = "dr" => t \in Targets
    BY <1>3, <1>4, <1>5 DEF TypeInv, RowsOK, Held
<1>7. RowsOK'
    BY <1>2, <1>3, <1>4, <1>5, <1>6 DEF TypeInv, RowsOK
<1>8. SizerOK' /\ PlaceOK'
    BY <1>2, <1>5 DEF TypeInv, SizerOK, PlaceOK
<1>9. edits \in Int /\ edits' = edits
    BY <1>2, ConstantFacts DEF TypeInv
<1>10. OpensOK(opens', Held(rows'), edits')
    BY <1>2, <1>5, <1>9, OpensGrow, NoFlows DEF TypeInv
<1>11. SaveOK(SaveAt(f, pc, s), Held(rows'), edits', loaded')
    BY <1>1, <1>2, <1>3, <1>5 DEF SaveOK, SaveAt, Saves
<1>12. SavesOK(saves', Held(rows'), edits', loaded')
    <2>1. saves' \subseteq saves \cup {SaveAt(f, pc, s)}
        BY <1>3 DEF Becomes
    <2>2. SavesOK({SaveAt(f, pc, s)}, Held(rows'), edits', loaded')
        BY <1>11 DEF SavesOK
    <2>3. SavesOK(saves, Held(rows), edits, loaded) /\ loaded' = loaded
        BY <1>2 DEF TypeInv
    <2> QED BY <1>5, <1>9, <2>1, <2>2, <2>3, SavesGrow
<1> QED BY <1>2, <1>7, <1>8, <1>10, <1>12 DEF TypeInv

LEMMA SaveEndsType ==
    ASSUME TypeInv, NEW f \in saves, SaveEnds(f)
    PROVE  TypeInv'
<1> USE NoFlows
<1>1. SaveOK(f, Held(rows), edits, loaded)
    BY DEF TypeInv, SavesOK
<1>2. CASE f.then \in Pages
    <2>1. f.then \in {"import", "appliance"}
        BY <1>1, <1>2 DEF SaveOK, Saves, Pages
    <2>2. Again \in Addresses /\ Blank \in Addresses
        BY AddressFacts DEF TypeInv, PlaceOK, Again
    <2>3. StartOver(f.then) /\ UNCHANGED <<rows, edits, ghosts>>
        BY <1>2 DEF SaveEnds, ghosts
    <2> QED BY <2>1, <2>2, <2>3, BootType DEF StartOver
<1>3. CASE f.then \notin Pages
    <2>1. UNCHANGED <<rows, edits, project, mode, form, loaded, target, opens, booting, leaving,
                      crossed, bled>> /\ Ends(f)
        BY <1>3 DEF SaveEnds
    <2>2. clean' \in {clean, form[mode]} /\ late' \in BOOLEAN
        BY <1>3 DEF SaveEnds, Capture, TypeInv, PlaceOK
    <2>3. SizerOK'
        BY <2>1, <2>2 DEF TypeInv, SizerOK
    <2>4. Return \/ UNCHANGED <<screen, address, visited, fetches>>
        BY <1>3 DEF SaveEnds
    <2>5. PlaceOK'
        BY <2>1, <2>2, <2>4, PushType, AddressFacts
           DEF TypeInv, PlaceOK, Return, OpenProject, ShowHome
    <2>6. saves' \subseteq saves \cup {} /\ opens' \subseteq opens \cup {}
        BY <2>1 DEF Ends
    <2> QED BY <2>1, <2>3, <2>5, <2>6, ScreenType
<1> QED BY <1>2, <1>3

LEMMA TypeStep == TypeInv /\ [Next]_vars => TypeInv'
<1> SUFFICES ASSUME TypeInv, [Next]_vars PROVE TypeInv'
    OBVIOUS
<1>1. CASE UNCHANGED vars
    <2>1. PlaceOK'
        BY <1>1 DEF vars, place, flows, ghosts, TypeInv, PlaceOK
    <2>2. UNCHANGED <<rows, sizer, edits>> /\ opens' \subseteq opens \cup {} /\ saves' \subseteq saves \cup {}
        BY <1>1 DEF vars, flows
    <2> QED BY <2>1, <2>2, NavigationType, NoFlows
<1>2. CASE Browser
    BY <1>2, HistoryType, DocumentType DEF Browser
<1>3. CASE Clicks
    BY <1>3, HistoryType, DocumentType, EditType, PressType, SwitchType DEF Clicks
<1>4. CASE Network
    BY <1>4, HistoryType, OpenType, SaveFlowType, ServedType, SaveEndsType DEF Network, Save
<1> QED BY <1>1, <1>2, <1>3, <1>4 DEF Next

LEMMA TypeInvTypes == TypeInv => TypeOK
<1> SUFFICES ASSUME TypeInv PROVE TypeOK
    OBVIOUS
<1>1. Entered(edits) \subseteq Inputs
    BY DEF Entered
<1>2. rows \in [Sizings -> Inputs \cup {None}]
    BY <1>1 DEF TypeInv, RowsOK
<1>3. \A m \in Pages : form[m] \in {i \in Inputs : i.page = m} \cup {None}
    BY <1>1 DEF TypeInv, SizerOK
<1>4. {loaded, target} \subseteq {s \in Sizings : Exists(s)} \cup {None}
    BY ConstantFacts DEF TypeInv, SizerOK, RowsOK, Held, Exists
<1>5. \A o \in opens : o.pc \in {"served", "reserve", "models"} => o.inputs \in Inputs
    BY <1>1 DEF TypeInv, OpensOK, OpenOK
<1>6. \A f \in saves : /\ f.inputs \in Inputs
                       /\ f.pc \in {"put", "written", "made", "result"} => Exists(f.row)
    BY <1>1 DEF TypeInv, SavesOK, SaveOK, Held, Exists
<1>7. mode \in Pages /\ clean \in Inputs \cup {None}
    BY <1>1 DEF TypeInv, SizerOK
<1>8. leaving \in Pages \cup {None}
    BY DEF TypeInv, PlaceOK, Pages
<1> QED BY <1>2, <1>3, <1>4, <1>5, <1>6, <1>7, <1>8 DEF TypeOK, TypeInv, PlaceOK

\* Types, whatever crosses: the sizing loaded, the DR target and the row of every save
\* that is on its way or answered exist, and no page holds the inputs of another page.
THEOREM SizerTypeCorrect == Spec => []TypeOK
<1> QED BY InitType, TypeStep, TypeInvTypes, PTL DEF Spec

-----------------------------------------------------------------------------
(* Nothing that has crossed or bled is forgotten, so that a step that ends   *)
(* in a clear state began in one.                                            *)

LEMMA ClearBefore ==
    ASSUME TypeInv, [Next]_vars, Clear'
    PROVE  Clear
<1> USE DEF Clear
<1>1. CASE UNCHANGED vars
    BY <1>1 DEF vars, ghosts
<1>2. CASE Browser
    <2>1. CASE Reload
        BY <2>1 DEF Reload, ghosts
    <2>2. ASSUME NEW a, Popstate(a) PROVE Clear
        BY <2>2 DEF Popstate, Begin
    <2> QED BY <1>2, <2>1, <2>2 DEF Browser
<1>3. CASE Clicks
    BY <1>3 DEF Clicks, NewSizing, BackToProjects, ClickProject, BackToProject, Edit, StayHere,
        Discard, SaveAndLeave, PressSave, StartSave, ClickSizing, Begin, SwitchMode, ghosts
<1>4. CASE Network
    <2>1. CASE BootArrives
        BY <2>1 DEF BootArrives, Begin
    <2>2. CASE BootFails
        BY <2>2 DEF BootFails, ghosts
    <2>3. ASSUME NEW push \in BOOLEAN, ProjectArrives(push) PROVE Clear
        BY <2>3 DEF ProjectArrives, ghosts
    <2>4. ASSUME NEW o, Open(o) PROVE Clear
        <3>1. CASE ServeConfig(o) \/ OpenFails(o)
            BY <3>1 DEF ServeConfig, OpenFails, ghosts
        <3>2. CASE ConfigArrives(o)
            BY <3>2 DEF ConfigArrives
        <3>3. CASE ReserveArrives(o)
            BY <3>3 DEF ReserveArrives
        <3>4. CASE ModelsArrive(o)
            BY <3>4 DEF ModelsArrive
        <3> QED BY <2>4, <3>1, <3>2, <3>3, <3>4 DEF Open
    <2>5. ASSUME NEW f, Save(f) PROVE Clear
        <3>1. UNCHANGED <<crossed, bled>>
            BY <2>5 DEF Save, Answered, Served, SaveFails, SaveAnswered, SaveEnds, ghosts
        <3> QED BY <3>1
    <2> QED BY <1>4, <2>1, <2>2, <2>3, <2>4, <2>5 DEF Network
<1> QED BY <1>1, <1>2, <1>3, <1>4 DEF Next

\* What is to be shown of a step from one clear state to another.
Before == TypeInv /\ ScreenInv /\ (~late => CleanIsSaved)
After  == (ScreenInv /\ (~late => CleanIsSaved))'

LEMMA BootScreen ==
    ASSUME Before, UNCHANGED <<rows, ghosts>>,
           NEW a \in Addresses, NEW m \in {"import", "appliance"}, Boot(a, m)
    PROVE  After
<1>1. /\ opens' = {} /\ saves' = {} /\ mode' = m /\ loaded' = None /\ clean' = None
      /\ \A n \in Pages : form'[n] = None
    BY DEF Boot, Empty
<1>2. OneAtATime' /\ OpensAreCurrent'
    BY <1>1 DEF OneAtATime, OpensAreCurrent
<1>3. EachRowKeepsItsInputs'
    BY DEF Before, ScreenInv, EachRowKeepsItsInputs, Exists
<1>4. ScreenIsOfOne'
    BY <1>1, ConstantFacts DEF ScreenIsOfOne, Pages
<1> QED BY <1>1, <1>2, <1>3, <1>4 DEF After, ScreenInv, CleanIsSaved

\* Steps that change nothing but the place and what is being fetched.
LEMMA PlaceScreen ==
    ASSUME Before, UNCHANGED <<rows, sizer, saves, late>>,
           \A o \in opens' : \/ o \in opens
                             \/ /\ saves = {} /\ o.pc # "models"
                                /\ o.pc # "config" => o.inputs = rows[o.sizing],
           \A o \in opens : o.pc = "models" => o \in opens'
    PROVE  After
<1>1. UNCHANGED <<mode, form, loaded, target, clean>>
    BY DEF sizer
<1>2. OneAtATime' /\ OpensAreCurrent'
    BY DEF Before, ScreenInv, OneAtATime, OpensAreCurrent
<1>3. EachRowKeepsItsInputs'
    BY DEF Before, ScreenInv, EachRowKeepsItsInputs, Exists
<1>4. Settled' => Settled
    BY DEF Settled
<1>5. ScreenIsOfOne'
    BY <1>1, <1>4 DEF Before, ScreenInv, ScreenIsOfOne, Owner
<1>6. ASSUME NEW f \in saves' PROVE SaveIsOfTheScreen(f)'
    BY <1>1 DEF Before, ScreenInv, SaveIsOfTheScreen, Owner
<1>7. (clean # None => clean.of \in Held(rows) \ Targets)'
    BY <1>1 DEF Before, ScreenInv
<1>8. (~late => CleanIsSaved)'
    BY <1>1 DEF Before, CleanIsSaved
<1> QED BY <1>2, <1>3, <1>5, <1>6, <1>7, <1>8 DEF After, ScreenInv

LEMMA BeginScreen ==
    ASSUME Before, Clear', UNCHANGED <<rows, sizer, saves, late>>,
           NEW s \in Sizings, NEW push \in BOOLEAN, Begin(s, push)
    PROVE  After
<1>1. opens' = opens \cup {Opening(s, push)} /\ saves = {}
    BY DEF Begin, Clear
<1>2. Opening(s, push).pc = "config"
    BY DEF Opening
<1> QED BY <1>1, <1>2, PlaceScreen

LEMMA HistoryScreen ==
    ASSUME Before, Clear',
           \/ BootArrives \/ BootFails \/ BackToProjects \/ ClickProject \/ BackToProject
           \/ StayHere
           \/ \E push \in BOOLEAN : ProjectArrives(push)
           \/ \E a \in {Home, Project} \cup {At(s) : s \in visited} : Popstate(a)
           \/ \E s \in Sizings : ClickSizing(s)
    PROVE  After
<1>1. address \in Addresses /\ visited \subseteq Sizings /\ booting \in Addresses \cup {None}
    BY DEF Before, TypeInv, PlaceOK
<1>2. UNCHANGED <<rows, sizer, saves, late>>
    BY DEF BootArrives, BootFails, BackToProjects, ClickProject, BackToProject, StayHere,
           ProjectArrives, Popstate, ClickSizing, flows, ghosts
<1>3. CASE opens' = opens
    BY <1>2, <1>3, PlaceScreen
<1>4. CASE BootArrives /\ opens' # opens
    <2>1. booting.sizing \in Sizings /\ Begin(booting.sizing, FALSE)
        BY <1>1, <1>4, AddressFacts DEF BootArrives
    <2> QED BY <1>2, <2>1, BeginScreen
<1>5. ASSUME NEW a \in {Home, Project} \cup {At(s) : s \in visited}, Popstate(a), opens' # opens
      PROVE  After
    <2>1. a.sizing \in Sizings /\ Begin(a.sizing, FALSE)
        BY <1>1, <1>5, AddressFacts DEF Popstate
    <2> QED BY <1>2, <2>1, BeginScreen
<1>6. ASSUME NEW s \in Sizings, ClickSizing(s) PROVE After
    BY <1>2, <1>6, BeginScreen DEF ClickSizing
<1> QED BY <1>3, <1>4, <1>5, <1>6
           DEF BootFails, BackToProjects, ClickProject, BackToProject, StayHere, ProjectArrives, flows

LEMMA DocumentScreen ==
    ASSUME Before, Reload \/ NewSizing \/ Discard
    PROVE  After
<1>1. Again \in Addresses /\ Blank \in Addresses
    BY AddressFacts DEF Before, TypeInv, PlaceOK, Again
<1>2. UNCHANGED <<rows, ghosts>>
    BY DEF Reload, NewSizing, Discard
<1>3. CASE Reload \/ NewSizing
    BY <1>1, <1>2, <1>3, BootScreen DEF Reload, NewSizing
<1>4. CASE Discard
    <2>1. leaving \in {"import", "appliance"} /\ StartOver(leaving)
        BY <1>4 DEF Discard, Before, TypeInv, PlaceOK
    <2> QED BY <1>1, <1>2, <2>1, BootScreen DEF StartOver
<1> QED BY <1>3, <1>4

LEMMA OpeningFacts ==
    ASSUME Before, NEW o \in opens
    PROVE  /\ saves = {} /\ OpenOK(o, Held(rows), edits)
           /\ o.pc # "config" => /\ o.inputs = rows[o.sizing] /\ o.inputs.of = o.sizing
                                 /\ o.sizing \in Held(rows) /\ o.sizing # None
                                 /\ o.inputs \in Entered(edits) /\ o.inputs # None
<1>1. saves = {} /\ OpenOK(o, Held(rows), edits)
    BY DEF Before, ScreenInv, OneAtATime, TypeInv, OpensOK
<1>2. ASSUME o.pc # "config" PROVE o.sizing \in Held(rows) /\ o.inputs \in Entered(edits)
    BY <1>1, <1>2 DEF OpenOK
<1>3. ASSUME o.pc # "config" PROVE o.inputs = rows[o.sizing]
    BY <1>3 DEF Before, ScreenInv, OpensAreCurrent
<1>4. \A s \in Held(rows) : rows[s].of = s /\ s # None
    BY ConstantFacts DEF Before, ScreenInv, EachRowKeepsItsInputs, Exists, Held
<1>5. None \notin Entered(edits)
    BY ConstantFacts DEF Entered
<1> QED BY <1>1, <1>2, <1>3, <1>4, <1>5

LEMMA HandOverScreen ==
    ASSUME Before, NEW o \in opens, o.pc \in {"reserve", "models"}, HandOver(o, mode'),
           mode' = o.inputs.page, UNCHANGED <<rows, saves, target>>
    PROVE  After
<1>1. /\ saves = {} /\ o.inputs = rows[o.sizing] /\ o.inputs.of = o.sizing
      /\ o.sizing \in Held(rows) /\ o.sizing # None /\ o.inputs # None
      /\ o.sizing \notin Targets /\ mode' \in Pages /\ mode' # "dr"
    BY OpeningFacts DEF OpenOK, Entered, Inputs
<1>2. form \in [Pages -> Entered(edits) \cup {None}]
    BY DEF Before, TypeInv, SizerOK
<1>3. form' = [form EXCEPT ![mode'] = o.inputs] /\ clean' = form'[mode'] /\ loaded' = o.sizing
      /\ opens' = opens \ {o}
    BY DEF HandOver
<1>4. form'[mode'] = o.inputs /\ clean' = o.inputs
    BY <1>1, <1>2, <1>3
<1>5. OneAtATime' /\ OpensAreCurrent'
    BY <1>1, <1>3 DEF Before, ScreenInv, OneAtATime, OpensAreCurrent
<1>6. EachRowKeepsItsInputs'
    BY DEF Before, ScreenInv, EachRowKeepsItsInputs, Exists
<1>7. ScreenIsOfOne'
    BY <1>1, <1>3, <1>4 DEF ScreenIsOfOne, Owner
<1>8. clean'.of \in Held(rows') \ Targets /\ rows'[clean'.of] = clean'
    BY <1>1, <1>4
<1>9. saves' = {}
    BY <1>1
<1> QED BY <1>5, <1>6, <1>7, <1>8, <1>9 DEF After, ScreenInv, CleanIsSaved

LEMMA OpenScreen ==
    ASSUME Before, Clear', NEW o \in opens, Open(o)
    PROVE  After
<1>1. saves = {} /\ OpenOK(o, Held(rows), edits)
    BY OpeningFacts
<1>2. UNCHANGED <<rows, saves, edits>>
    BY DEF Open, ServeConfig, ConfigArrives, OpenFails, ReserveArrives, ModelsArrive
<1>3. CASE ServeConfig(o)
    <2> DEFINE n == [o EXCEPT !.pc = "served", !.inputs = rows[o.sizing]]
    <2>1. n.pc = "served" /\ n.inputs = rows[n.sizing]
        BY <1>1 DEF OpenOK
    <2>2. UNCHANGED <<sizer, late>> /\ opens' = (opens \ {o}) \cup {n} /\ o.pc = "config"
        BY <1>3 DEF ServeConfig, ghosts
    <2> HIDE DEF n
    <2> QED BY <1>1, <1>2, <2>1, <2>2, PlaceScreen
<1>4. CASE OpenFails(o)
    <2>1. UNCHANGED <<sizer, late>> /\ opens' = opens \ {o} /\ o.pc # "models"
        BY <1>4 DEF OpenFails, ghosts
    <2> QED BY <1>2, <2>1, PlaceScreen
<1>5. CASE ConfigArrives(o)
    <2>1. CASE o.sizing \notin Targets
        <3> DEFINE n == [o EXCEPT !.pc = "reserve"]
        <3>1. n.pc = "reserve" /\ n.inputs = rows[n.sizing]
            BY <1>1, <1>5, OpeningFacts DEF OpenOK, ConfigArrives
        <3>2. UNCHANGED <<sizer, late>> /\ opens' = (opens \ {o}) \cup {n} /\ o.pc = "served"
            BY <1>5, <2>1 DEF ConfigArrives
        <3> HIDE DEF n
        <3> QED BY <1>1, <1>2, <3>1, <3>2, PlaceScreen
    <2>2. CASE o.sizing \in Targets
        <3>1. o.pc = "served" /\ o.inputs.of = o.sizing /\ o.sizing # None /\ o.inputs \in Inputs
            BY <1>5, OpeningFacts DEF ConfigArrives, Entered
        <3>2. /\ opens' = opens \ {o} /\ mode' = "dr" /\ loaded' = o.sizing /\ target' = o.sizing
              /\ form' = [form EXCEPT !["dr"] = [o.inputs EXCEPT !.page = "dr"]]
              /\ UNCHANGED <<clean, late>>
            BY <1>5, <2>2 DEF ConfigArrives
        <3>3. form'["dr"] = [o.inputs EXCEPT !.page = "dr"]
            BY <3>2 DEF Before, TypeInv, SizerOK, Pages
        <3>4. form'["dr"].of = o.sizing
            BY <3>1, <3>3 DEF Inputs
        <3>5. OneAtATime' /\ OpensAreCurrent'
            BY <1>1, <1>2, <3>2 DEF Before, ScreenInv, OneAtATime, OpensAreCurrent
        <3>6. EachRowKeepsItsInputs'
            BY <1>2 DEF Before, ScreenInv, EachRowKeepsItsInputs, Exists
        <3>7. ScreenIsOfOne'
            BY <2>2, <3>1, <3>2, <3>4 DEF ScreenIsOfOne, Owner
        <3>8. (clean # None => clean.of \in Held(rows) \ Targets)' /\ (~late => CleanIsSaved)'
            BY <1>1, <1>2, <3>2 DEF Before, ScreenInv, CleanIsSaved
        <3> QED BY <1>1, <1>2, <3>5, <3>6, <3>7, <3>8 DEF After, ScreenInv
    <2> QED BY <2>1, <2>2
<1>6. CASE ReserveArrives(o)
    <2>1. o.pc = "reserve" /\ mode' = o.inputs.page /\ UNCHANGED target /\ ~Crosses(o)
        BY <1>6 DEF ReserveArrives, Clear
    <2>2. CASE mode' = "import"
        BY <1>2, <1>6, <2>1, <2>2, HandOverScreen DEF ReserveArrives
    <2>3. CASE mode' # "import"
        <3> DEFINE n == [o EXCEPT !.pc = "models"]
        <3>1. n.pc = "models" /\ n.inputs = rows[n.sizing]
            BY <1>1, <2>1, OpeningFacts DEF OpenOK
        <3>2. opens' = (opens \ {o}) \cup {n} /\ UNCHANGED <<form, loaded, clean, late>>
            BY <1>6, <2>3 DEF ReserveArrives
        <3> HIDE DEF n
        <3>3. \A p \in opens \ {o} : p.pc # "models"
            BY <2>1 DEF Crosses
        <3>4. OneAtATime' /\ OpensAreCurrent'
            BY <1>1, <1>2, <3>1, <3>2, <3>3 DEF Before, ScreenInv, OneAtATime, OpensAreCurrent
        <3>5. EachRowKeepsItsInputs'
            BY <1>2 DEF Before, ScreenInv, EachRowKeepsItsInputs, Exists
        <3>6. ~Settled' /\ mode' # "dr"
            BY <1>1, <2>1, <3>1, <3>2 DEF Settled, OpenOK
        <3>7. ScreenIsOfOne'
            BY <3>6 DEF ScreenIsOfOne
        <3>8. (clean # None => clean.of \in Held(rows) \ Targets)' /\ (~late => CleanIsSaved)'
            BY <1>1, <1>2, <3>2 DEF Before, ScreenInv, CleanIsSaved
        <3> QED BY <1>1, <1>2, <3>4, <3>5, <3>7, <3>8 DEF After, ScreenInv
    <2> QED BY <2>2, <2>3
<1>7. CASE ModelsArrive(o)
    <2>1. o.pc = "models" /\ mode' = mode /\ UNCHANGED target /\ mode = o.inputs.page
        BY <1>7 DEF ModelsArrive, Clear
    <2>2. HandOver(o, mode')
        BY <1>7, <2>1 DEF ModelsArrive
    <2> QED BY <1>2, <2>1, <2>2, HandOverScreen
<1> QED BY <1>3, <1>4, <1>5, <1>6, <1>7 DEF Open

LEMMA EditScreen ==
    ASSUME Before, TypeInv', Edit
    PROVE  After
<1>1. UNCHANGED <<rows, mode, loaded, target, clean, opens, saves, late>>
    BY DEF Edit, flows, ghosts
<1>2. PICK of : /\ of \in {Owner} \cup (IF form[mode] = None THEN {} ELSE {form[mode].of})
                /\ form' = [form EXCEPT ![mode] = [of |-> of, no |-> edits', page |-> mode]]
    BY DEF Edit
<1>3. form'[mode] = [of |-> of, no |-> edits', page |-> mode] /\ form'[mode] \in Inputs
    <2>1. form'[mode] = [of |-> of, no |-> edits', page |-> mode]
        BY <1>2 DEF Before, TypeInv, SizerOK
    <2>2. form'[mode] \in Entered(edits') \cup {None}
        BY <1>1 DEF TypeInv, SizerOK
    <2>3. [of |-> of, no |-> edits', page |-> mode].page \in Pages
        BY DEF Before, TypeInv, SizerOK
    <2>4. edits' \in 0..MaxEdits
        BY DEF TypeInv
    <2>5. of \in Sizings \cup {New}
        BY <1>2, ConstantFacts DEF Before, TypeInv, SizerOK, Owner, Entered, Inputs, Held
    <2> QED BY <2>1, <2>3, <2>4, <2>5 DEF Inputs
<1>4. form'[mode] # clean
    <2>1. edits \in Int /\ edits' = edits + 1
        BY ConstantFacts DEF Edit, Before, TypeInv
    <2>2. clean # None => clean.no <= edits
        BY DEF Before, TypeInv, SizerOK, Entered
    <2>3. form'[mode].no = edits + 1 /\ form'[mode] # None
        BY <1>3, <2>1, ConstantFacts
    <2> QED BY <2>1, <2>2, <2>3
<1>5. OneAtATime' /\ OpensAreCurrent' /\ EachRowKeepsItsInputs'
    BY <1>1 DEF Before, ScreenInv, OneAtATime, OpensAreCurrent, EachRowKeepsItsInputs, Exists
<1>6. ScreenIsOfOne'
    BY <1>1, <1>2, <1>3 DEF Before, ScreenInv, ScreenIsOfOne, Settled, Owner
<1>7. ASSUME NEW f \in saves' PROVE SaveIsOfTheScreen(f)'
    BY <1>1, <1>4 DEF Before, ScreenInv, SaveIsOfTheScreen, Owner
<1>8. (clean # None => clean.of \in Held(rows) \ Targets)'
    BY <1>1 DEF Before, ScreenInv
<1>9. (~late => CleanIsSaved)'
    BY <1>1, <1>4 DEF Before, CleanIsSaved
<1> QED BY <1>5, <1>6, <1>7, <1>8, <1>9 DEF After, ScreenInv

LEMMA SwitchScreen ==
    ASSUME Before, Clear', NEW m \in Pages, SwitchMode(m)
    PROVE  After
<1>1. UNCHANGED <<rows, form, loaded, target, clean, opens, saves, late>> /\ m # "dr"
    BY DEF SwitchMode
<1>2. \/ mode' = mode
      \/ /\ mode' = m /\ saves = {} /\ mode # "dr"
         /\ form[m] # None => form[m].of = Owner
    BY DEF SwitchMode, Clear
<1>3. OneAtATime' /\ OpensAreCurrent' /\ EachRowKeepsItsInputs'
    BY <1>1 DEF Before, ScreenInv, OneAtATime, OpensAreCurrent, EachRowKeepsItsInputs, Exists
<1>4. ScreenIsOfOne'
    BY <1>1, <1>2 DEF Before, ScreenInv, ScreenIsOfOne, Settled, Owner
<1>5. ASSUME NEW f \in saves' PROVE SaveIsOfTheScreen(f)'
    BY <1>1, <1>2 DEF Before, ScreenInv, SaveIsOfTheScreen, Owner
<1>6. (clean # None => clean.of \in Held(rows) \ Targets)'
    BY <1>1 DEF Before, ScreenInv
<1>7. (~late => CleanIsSaved)'
    BY <1>1, <1>2 DEF Before, CleanIsSaved
<1> QED BY <1>3, <1>4, <1>5, <1>6, <1>7 DEF After, ScreenInv

LEMMA PressScreen ==
    ASSUME Before, Clear', PressSave \/ SaveAndLeave
    PROVE  After
<1>1. PICK then : StartSave(then)
    BY DEF PressSave, SaveAndLeave
<1>2. saves = {} /\ opens = {} /\ form[mode] # None
    BY <1>1 DEF StartSave, Clear
<1>3. PICK f : saves' = {f} /\ f.inputs = form[mode] /\ f.row = (IF mode = "dr" THEN target ELSE None)
               /\ f.pc = (IF mode = "dr" THEN "put" ELSE IF loaded # None THEN "choice" ELSE "name")
    <2> DEFINE g == [inputs |-> form[mode], then |-> then,
                     row |-> IF mode = "dr" THEN target ELSE None,
                     pc |-> IF mode = "dr" THEN "put" ELSE IF loaded # None THEN "choice" ELSE "name"]
    <2>1. saves' = {g}
        BY <1>1, <1>2 DEF StartSave
    <2>2. /\ g.inputs = form[mode] /\ g.row = (IF mode = "dr" THEN target ELSE None)
          /\ g.pc = (IF mode = "dr" THEN "put" ELSE IF loaded # None THEN "choice" ELSE "name")
        OBVIOUS
    <2> HIDE DEF g
    <2> QED BY <2>1, <2>2
<1>4. UNCHANGED <<rows, mode, form, loaded, target, clean, opens, late>>
    BY DEF PressSave, SaveAndLeave, sizer
<1>5. form[mode].page = mode
    BY <1>2 DEF Before, TypeInv, SizerOK
<1>6. OneAtATime' /\ OpensAreCurrent' /\ EachRowKeepsItsInputs'
    BY <1>2, <1>3, <1>4
       DEF Before, ScreenInv, OneAtATime, OpensAreCurrent, EachRowKeepsItsInputs, Exists
<1>7. ScreenIsOfOne'
    BY <1>4 DEF Before, ScreenInv, ScreenIsOfOne, Settled, Owner
<1>8. form[mode].of = Owner /\ (mode = "dr" => target = loaded)
    BY <1>2 DEF Before, ScreenInv, ScreenIsOfOne, Settled
<1>9. SaveIsOfTheScreen(f)'
    BY <1>3, <1>4, <1>5, <1>8 DEF SaveIsOfTheScreen, Owner
<1>10. (clean # None => clean.of \in Held(rows) \ Targets)'
    BY <1>4 DEF Before, ScreenInv
<1>11. (~late => CleanIsSaved)'
    BY <1>2, <1>4 DEF Before, CleanIsSaved
<1> QED BY <1>3, <1>6, <1>7, <1>9, <1>10, <1>11 DEF After, ScreenInv

-----------------------------------------------------------------------------
(* A save that runs runs alone.                                              *)

LEMMA SaveFacts ==
    ASSUME Before, NEW f \in saves
    PROVE  /\ saves = {f} /\ opens = {} /\ SaveOK(f, Held(rows), edits, loaded)
           /\ SaveIsOfTheScreen(f) /\ Settled
BY DEF Before, ScreenInv, OneAtATime, TypeInv, SavesOK, Settled

\* A save that goes on with the rows and the page as they are.
LEMMA SaveScreen ==
    ASSUME Before, NEW f \in saves, UNCHANGED <<rows, sizer, opens, late>>,
           NEW fs, saves' = fs, \A g, h \in fs : g = h,
           \A g \in fs : SaveIsOfTheScreen(g),
           ~late => clean = None \/ rows[clean.of] = clean
    PROVE  After
<1>1. UNCHANGED <<mode, form, loaded, target, clean>> /\ opens = {}
    BY SaveFacts DEF sizer
<1>2. OneAtATime' /\ OpensAreCurrent' /\ EachRowKeepsItsInputs'
    BY <1>1 DEF Before, ScreenInv, OneAtATime, OpensAreCurrent, EachRowKeepsItsInputs, Exists
<1>3. ScreenIsOfOne'
    BY <1>1 DEF Before, ScreenInv, ScreenIsOfOne, Settled, Owner
<1>4. ASSUME NEW g \in saves' PROVE SaveIsOfTheScreen(g)'
    BY <1>1 DEF SaveIsOfTheScreen, Owner
<1>5. (clean # None => clean.of \in Held(rows) \ Targets)'
    BY <1>1 DEF Before, ScreenInv
<1>6. (~late => CleanIsSaved)'
    BY <1>1 DEF CleanIsSaved
<1> QED BY <1>2, <1>3, <1>4, <1>5, <1>6 DEF After, ScreenInv

\* Before a row is written, what is taken for saved is in its row.
LEMMA UnwrittenIsSaved ==
    ASSUME Before, NEW f \in saves, f.pc \notin {"written", "result"}, ~late
    PROVE  clean = None \/ rows[clean.of] = clean
BY SaveFacts DEF Before, CleanIsSaved

LEMMA AnsweredScreen ==
    ASSUME Before, NEW f \in saves, Answered(f)
    PROVE  After
<1>1. /\ saves = {f} /\ SaveOK(f, Held(rows), edits, loaded) /\ SaveIsOfTheScreen(f)
      /\ f \in Saves
    BY SaveFacts DEF SaveOK
<1>2. UNCHANGED <<rows, sizer, opens, late>> /\ f.pc \in {"choice", "name"}
    BY DEF Answered, ghosts
<1>3. ~late => clean = None \/ rows[clean.of] = clean
    BY <1>2, UnwrittenIsSaved
<1>4. CASE f.pc \in {"choice", "name"} /\ Ends(f)
    <2>1. saves' = {}
        BY <1>1, <1>4 DEF Ends
    <2> QED BY <1>2, <1>3, <2>1, SaveScreen
<1>5. CASE f.pc = "choice" /\ Becomes(f, [f EXCEPT !.pc = "put", !.row = loaded])
    <2>1. [f EXCEPT !.pc = "put", !.row = loaded] = SaveAt(f, "put", loaded)
        BY <1>1, SaveGetsRow
    <2>2. saves' = {SaveAt(f, "put", loaded)}
        BY <1>1, <1>5, <2>1 DEF Becomes
    <2>3. SaveIsOfTheScreen(SaveAt(f, "put", loaded))
        BY <1>1, <1>5 DEF SaveIsOfTheScreen, SaveAt
    <2> QED BY <1>2, <1>3, <2>2, <2>3, SaveScreen
<1>6. ASSUME NEW pc \in {"name", "post"}, Becomes(f, [f EXCEPT !.pc = pc]) PROVE After
    <2>1. [f EXCEPT !.pc = pc] = SaveAt(f, pc, f.row)
        BY <1>1, SaveGoesOn
    <2>2. saves' = {SaveAt(f, pc, f.row)}
        BY <1>1, <1>6, <2>1 DEF Becomes
    <2>3. SaveIsOfTheScreen(SaveAt(f, pc, f.row))
        BY <1>1, <1>2 DEF SaveIsOfTheScreen, SaveAt
    <2> QED BY <1>2, <1>3, <2>2, <2>3, SaveScreen
<1> QED BY <1>4, <1>5, <1>6 DEF Answered

\* The row written, or made, and the answer under way.
LEMMA ServedScreen ==
    ASSUME Before, NEW f \in saves, Served(f)
    PROVE  After
<1>1. /\ saves = {f} /\ opens = {} /\ SaveOK(f, Held(rows), edits, loaded)
      /\ SaveIsOfTheScreen(f) /\ f \in Saves /\ f.inputs \in Inputs
    BY SaveFacts DEF SaveOK, Saves
<1>2. UNCHANGED <<mode, form, loaded, target, clean, opens, late>>
    BY DEF Served, sizer, ghosts
<1>3. f.pc \in {"put", "post"}
    BY DEF Served
<1>4. ~late => clean = None \/ rows[clean.of] = clean
    BY <1>3, UnwrittenIsSaved
<1>5. PICK s \in Sizings, i \in Inputs, pc \in {"written", "made"} :
          /\ rows' = [rows EXCEPT ![s] = i] /\ saves' = {SaveAt(f, pc, s)} /\ i.of = s
          /\ f.inputs.of = Owner
          /\ pc = "written" => f.row = s /\ s = loaded /\ i = f.inputs
          /\ pc = "made" => s \notin Held(rows) /\ i = [f.inputs EXCEPT !.of = s]
    <2>1. CASE f.pc = "put" /\ rows' = [rows EXCEPT ![f.row] = f.inputs]
               /\ Becomes(f, [f EXCEPT !.pc = "written"])
        <3>1. [f EXCEPT !.pc = "written"] = SaveAt(f, "written", f.row)
            BY <1>1, SaveGoesOn
        <3>2. f.row \in Sizings /\ f.row = loaded
            BY <1>1, <2>1 DEF SaveOK, SaveIsOfTheScreen, Held
        <3>3. f.inputs.of = Owner /\ Owner = f.row
            BY <1>1, <2>1, <3>2, ConstantFacts DEF SaveIsOfTheScreen, Owner
        <3>4. saves' = {SaveAt(f, "written", f.row)}
            BY <1>1, <2>1, <3>1 DEF Becomes
        <3> QED BY <1>1, <2>1, <3>2, <3>3, <3>4
    <2>2. CASE f.pc = "post" /\ \E s \in Sizings :
                  /\ ~Exists(s) /\ Made(s, f.inputs)
                  /\ Becomes(f, [f EXCEPT !.pc = "made", !.row = s])
        <3>1. PICK s \in Sizings : /\ ~Exists(s) /\ Made(s, f.inputs)
                                   /\ Becomes(f, [f EXCEPT !.pc = "made", !.row = s])
            BY <2>2
        <3>2. [f EXCEPT !.pc = "made", !.row = s] = SaveAt(f, "made", s)
            BY <1>1, SaveGetsRow
        <3>3. saves' = {SaveAt(f, "made", s)}
            BY <1>1, <3>1, <3>2 DEF Becomes
        <3>4. [f.inputs EXCEPT !.of = s] \in Inputs /\ [f.inputs EXCEPT !.of = s].of = s
            BY <1>1 DEF Inputs
        <3>5. f.inputs.of = Owner /\ s \notin Held(rows)
            BY <1>1, <2>2, <3>1 DEF SaveIsOfTheScreen, Exists, Held
        <3> QED BY <3>1, <3>3, <3>4, <3>5 DEF Made
    <2> QED BY <2>1, <2>2 DEF Served
<1>6. rows \in [Sizings -> Entered(edits) \cup {None}] /\ i # None
    BY ConstantFacts DEF Before, TypeInv, RowsOK
<1>7. rows'[s] = i /\ \A t \in Sizings \ {s} : rows'[t] = rows[t]
    BY <1>5, <1>6
<1>8. Held(rows') = Held(rows) \cup {s}
    BY <1>6, <1>7 DEF Held
<1>9. EachRowKeepsItsInputs'
    BY <1>5, <1>7 DEF Before, ScreenInv, EachRowKeepsItsInputs, Exists
<1>10. clean # None => clean.of \in Held(rows) \ Targets
    BY DEF Before, ScreenInv
<1>11. pc = "made" => s \notin Targets /\ (clean # None => clean.of # s)
    BY <1>5, <1>10, ConstantFacts DEF Before, TypeInv, RowsOK
<1>12. SaveIsOfTheScreen(SaveAt(f, pc, s))'
    BY <1>1, <1>2, <1>3, <1>5, <1>7, <1>11 DEF SaveIsOfTheScreen, SaveAt, Owner
<1>13. OneAtATime' /\ OpensAreCurrent'
    BY <1>1, <1>2, <1>5 DEF OneAtATime, OpensAreCurrent
<1>14. ScreenIsOfOne'
    BY <1>2 DEF Before, ScreenInv, ScreenIsOfOne, Settled, Owner
<1>15. (clean # None => clean.of \in Held(rows) \ Targets)'
    BY <1>2, <1>8, <1>10
<1>16. ASSUME ~late' PROVE CleanIsSaved'
    <2>1. CASE clean = None \/ clean.of # s
        BY <1>2, <1>4, <1>7, <1>10, <1>16, <2>1 DEF CleanIsSaved, Held
    <2>2. CASE clean # None /\ clean.of = s
        <3>1. pc = "written" /\ i = f.inputs
            BY <1>5, <1>11, <2>2
        <3>2. clean = f.inputs \/ form[mode] # clean
            BY <1>1 DEF SaveIsOfTheScreen
        <3>3. SaveAt(f, pc, s).pc = "written" /\ SaveAt(f, pc, s).row = s
            BY <3>1 DEF SaveAt
        <3> QED BY <1>2, <1>5, <1>7, <2>2, <3>1, <3>2, <3>3 DEF CleanIsSaved
    <2> QED BY <2>1, <2>2
<1>17. \A g \in saves' : g = SaveAt(f, pc, s)
    BY <1>5
<1> QED BY <1>9, <1>12, <1>13, <1>14, <1>15, <1>16, <1>17 DEF After, ScreenInv

\* Without an answer nothing is known of the row any more, unless it was not written.
LEMMA SaveFailsScreen ==
    ASSUME Before, NEW f \in saves, SaveFails(f)
    PROVE  After
<1>1. saves = {f} /\ opens = {}
    BY SaveFacts
<1>2. saves' = {} /\ UNCHANGED <<rows, mode, form, loaded, target, clean, opens>>
    BY <1>1 DEF SaveFails, Ends, sizer
<1>3. ~late' => ~late /\ f.pc \in {"put", "post"}
    BY DEF SaveFails
<1>4. ~late' => clean = None \/ rows[clean.of] = clean
    BY <1>3, UnwrittenIsSaved
<1>5. OneAtATime' /\ OpensAreCurrent' /\ EachRowKeepsItsInputs'
    BY <1>1, <1>2 DEF Before, ScreenInv, OneAtATime, OpensAreCurrent, EachRowKeepsItsInputs, Exists
<1>6. ScreenIsOfOne'
    BY <1>2 DEF Before, ScreenInv, ScreenIsOfOne, Settled, Owner
<1>7. (clean # None => clean.of \in Held(rows) \ Targets)'
    BY <1>2 DEF Before, ScreenInv
<1>8. (~late => CleanIsSaved)'
    BY <1>2, <1>4 DEF CleanIsSaved
<1> QED BY <1>2, <1>5, <1>6, <1>7, <1>8 DEF After, ScreenInv

\* The row that was made becomes the sizing loaded, and the page becomes its inputs.
LEMMA SaveAnsweredScreen ==
    ASSUME Before, NEW f \in saves, SaveAnswered(f)
    PROVE  After
<1>1. /\ saves = {f} /\ opens = {} /\ SaveOK(f, Held(rows), edits, loaded)
      /\ SaveIsOfTheScreen(f) /\ f \in Saves /\ f.inputs \in Inputs /\ Settled
    BY SaveFacts DEF SaveOK, Saves
<1>2. UNCHANGED <<rows, mode, target, clean, opens, late>>
    BY DEF SaveAnswered, ghosts
<1> DEFINE g == SaveAt(f, "result", f.row)
<1>3. saves' = {g}
    <2>1. [f EXCEPT !.pc = "result"] = SaveAt(f, "result", f.row)
        BY <1>1, SaveGoesOn
    <2> QED BY <1>1, <2>1 DEF SaveAnswered, Becomes
<1>4. f.pc \in {"written", "made"} /\ f.row \in Held(rows) /\ f.row \in Sizings /\ f.row # None
    BY <1>1, ConstantFacts DEF SaveAnswered, SaveOK, Held
<1>5. f.inputs.page = mode /\ f.inputs.of = Owner /\ mode \in Pages
    BY <1>1, <1>4 DEF SaveIsOfTheScreen, Before, TypeInv, SizerOK
<1>6. loaded' = f.row
    BY <1>1, <1>4, <1>5 DEF SaveAnswered, Loaded, SaveIsOfTheScreen, SaveOK
<1>7. rows[f.row] = [f.inputs EXCEPT !.of = f.row]
    <2>1. CASE f.pc = "made"
        BY <1>1, <2>1 DEF SaveIsOfTheScreen
    <2>2. CASE f.pc = "written"
        <3>1. rows[f.row] = f.inputs /\ rows[f.row].of = f.row
            BY <1>1, <1>4, <2>2
               DEF SaveIsOfTheScreen, Before, ScreenInv, EachRowKeepsItsInputs, Exists, Held
        <3>2. f.inputs = [f.inputs EXCEPT !.of = f.inputs.of]
            BY <1>1 DEF Inputs
        <3> QED BY <3>1, <3>2
    <2> QED BY <1>4, <2>1, <2>2
<1>8. form'[mode] # None => form'[mode].of = f.row
    <2>1. form[mode] # None => form[mode].of = f.inputs.of /\ form[mode] \in Inputs
        BY <1>1, <1>5 DEF Before, ScreenInv, ScreenIsOfOne, TypeInv, SizerOK, Entered
    <2>2. CASE f.pc = "made"
        <3>1. CASE form[mode] # None
            <4>1. form' = [form EXCEPT ![mode].of = f.row]
                BY <1>5, <2>1, <2>2, <3>1 DEF SaveAnswered
            <4>2. form'[mode] = [form[mode] EXCEPT !.of = f.row]
                BY <1>5, <4>1 DEF Before, TypeInv, SizerOK
            <4> QED BY <2>1, <3>1, <4>2 DEF Inputs
        <3>2. CASE form[mode] = None
            BY <1>5, <3>2 DEF SaveAnswered
        <3> QED BY <3>1, <3>2
    <2>3. CASE f.pc = "written"
        <3>1. loaded = f.row /\ Owner = f.row
            BY <1>1, <1>4, <2>3 DEF SaveIsOfTheScreen, Owner
        <3> QED BY <1>5, <2>1, <2>3, <3>1 DEF SaveAnswered
    <2> QED BY <1>4, <2>2, <2>3
<1>9. \/ f.pc = "written" /\ form' = form
      \/ f.pc = "made" /\ (form'[mode] # None => form'[mode] # clean) /\ (form'[mode] = None => form[mode] = None)
    <2>1. CASE f.pc = "made"
        <3>1. clean # None => clean.of # f.row
            BY <1>1, <2>1 DEF SaveIsOfTheScreen
        <3>2. form'[mode] = None => form[mode] = None
            <4>1. CASE form' = form
                BY <4>1
            <4>2. CASE form[mode] # None /\ form' = [form EXCEPT ![mode].of = f.row]
                <5>1. form'[mode] = [form[mode] EXCEPT !.of = f.row] /\ form[mode] \in Inputs
                    BY <1>5, <4>2 DEF Before, TypeInv, SizerOK, Entered
                <5>2. [form[mode] EXCEPT !.of = f.row] \in Inputs
                    BY <1>4, <5>1 DEF Inputs
                <5> QED BY <5>1, <5>2, ConstantFacts
            <4> QED BY <1>5, <4>1, <4>2 DEF SaveAnswered
        <3> QED BY <1>8, <2>1, <3>1, <3>2
    <2>2. CASE f.pc = "written"
        BY <2>2 DEF SaveAnswered
    <2> QED BY <1>4, <2>1, <2>2
<1>10. clean = f.inputs \/ form[mode] # clean
    BY <1>1 DEF SaveIsOfTheScreen
<1>11. f.pc = "made" => f.row \notin Targets /\ f.inputs.page # "dr"
    BY <1>1 DEF SaveIsOfTheScreen, SaveOK
<1>12. ScreenIsOfOne'
    <2>1. mode' = "dr" => loaded' \in Targets /\ target' = loaded'
        BY <1>1, <1>2, <1>4, <1>5, <1>6, <1>11
           DEF Before, ScreenInv, ScreenIsOfOne, SaveIsOfTheScreen
    <2>2. mode' # "dr" => loaded' \notin Targets
        BY <1>1, <1>2, <1>4, <1>6, <1>11 DEF Before, ScreenInv, ScreenIsOfOne, SaveIsOfTheScreen
    <2>3. form'[mode'] # None => form'[mode'].of = Owner'
        BY <1>2, <1>4, <1>6, <1>8 DEF Owner
    <2> QED BY <2>1, <2>2, <2>3 DEF ScreenIsOfOne
<1>13. SaveIsOfTheScreen(g)'
    <2>1. g.inputs = f.inputs /\ g.row = f.row /\ g.pc = "result"
        BY DEF SaveAt
    <2>2. clean = f.inputs \/ form'[mode] # clean
        <3>1. CASE clean = None
            BY <1>1, <1>9, <1>10, <3>1
        <3>2. CASE clean # None
            BY <1>9, <1>10, <3>2
        <3> QED BY <3>1, <3>2
    <2> HIDE DEF g
    <2> QED BY <1>2, <1>5, <1>6, <1>7, <2>1, <2>2 DEF SaveIsOfTheScreen
<1>14. OneAtATime' /\ OpensAreCurrent' /\ EachRowKeepsItsInputs'
    BY <1>1, <1>2, <1>3
       DEF Before, ScreenInv, OneAtATime, OpensAreCurrent, EachRowKeepsItsInputs, Exists
<1>15. (clean # None => clean.of \in Held(rows) \ Targets)'
    BY <1>2 DEF Before, ScreenInv
<1>16. ASSUME ~late' PROVE CleanIsSaved'
    <2>1. CASE clean = None \/ rows[clean.of] = clean
        BY <1>2, <2>1 DEF CleanIsSaved
    <2>2. CASE clean # None /\ rows[clean.of] # clean
        <3>1. f.pc = "written" /\ f.row = clean.of /\ form[mode] # clean
            BY <1>1, <1>2, <1>4, <1>16, <2>2, UnwrittenIsSaved DEF Before, CleanIsSaved
        <3>2. g.pc = "result" /\ g.row = f.row
            BY DEF SaveAt
        <3> HIDE DEF g
        <3> QED BY <1>2, <1>3, <1>9, <3>1, <3>2 DEF CleanIsSaved
    <2> QED BY <2>1, <2>2
<1> HIDE DEF g
<1> QED BY <1>3, <1>12, <1>13, <1>14, <1>15, <1>16 DEF After, ScreenInv

\* The save is over: what is on the page counts as saved, and is, or was entered meanwhile.
LEMMA SaveEndsScreen ==
    ASSUME Before, NEW f \in saves, SaveEnds(f)
    PROVE  After
<1>1. /\ saves = {f} /\ opens = {} /\ SaveOK(f, Held(rows), edits, loaded)
      /\ SaveIsOfTheScreen(f) /\ f.inputs \in Inputs /\ Settled /\ f.pc = "result"
    BY SaveFacts DEF SaveOK, Saves, SaveEnds
<1>2. CASE f.then \in Pages
    <2>1. f.then \in {"import", "appliance"}
        BY <1>1, <1>2 DEF SaveOK, Saves, Pages
    <2>2. Again \in Addresses /\ Blank \in Addresses
        BY AddressFacts DEF Before, TypeInv, PlaceOK, Again
    <2>3. StartOver(f.then) /\ UNCHANGED <<rows, ghosts>>
        BY <1>2 DEF SaveEnds, ghosts
    <2> QED BY <2>1, <2>2, <2>3, BootScreen DEF StartOver
<1>3. CASE f.then \notin Pages
    <2>1. UNCHANGED <<rows, mode, form, loaded, target, opens>> /\ saves' = {}
        BY <1>1, <1>3 DEF SaveEnds, Ends
    <2>2. OneAtATime' /\ OpensAreCurrent' /\ EachRowKeepsItsInputs'
        BY <1>1, <2>1 DEF Before, ScreenInv, OneAtATime, OpensAreCurrent, EachRowKeepsItsInputs, Exists
    <2>3. ScreenIsOfOne'
        BY <2>1 DEF Before, ScreenInv, ScreenIsOfOne, Settled, Owner
    <2>4. /\ f.row = loaded /\ f.row \in Held(rows) /\ f.inputs.page = mode
          /\ rows[f.row] = [f.inputs EXCEPT !.of = f.row]
        BY <1>1 DEF SaveIsOfTheScreen, SaveOK
    <2>5. (clean # None => clean.of \in Held(rows) \ Targets)' /\ (~late => CleanIsSaved)'
        <3>1. CASE mode = "dr"
            <4>1. UNCHANGED <<clean, late>> /\ f.row \in Targets
                BY <1>1, <1>3, <2>4, <3>1 DEF SaveEnds, SaveOK
            <4>2. clean # None => clean.of \in Held(rows) \ Targets
                BY DEF Before, ScreenInv
            <4>3. ~late => clean = None \/ rows[clean.of] = clean
                BY <1>1, <4>1, <4>2 DEF Before, CleanIsSaved
            <4> QED BY <2>1, <4>1, <4>2, <4>3 DEF CleanIsSaved
        <3>2. CASE mode # "dr"
            <4>1. clean' = form[mode] /\ late' = (form[mode] = None \/ form[mode].no # f.inputs.no)
                BY <1>3, <2>4, <3>2 DEF SaveEnds, Capture
            <4>2. form[mode] # None => /\ form[mode].of = f.row /\ f.row \notin Targets
                                       /\ form[mode] \in Inputs /\ form[mode].page = mode
                <5>1. f.row # None /\ Owner = f.row
                    BY <2>4, ConstantFacts DEF Held, Owner
                <5>2. mode \in Pages /\ form \in [Pages -> Entered(edits) \cup {None}]
                      /\ \A m \in Pages : form[m] # None => form[m].page = m
                    BY DEF Before, TypeInv, SizerOK
                <5>3. (form[mode] # None => form[mode].of = Owner) /\ loaded \notin Targets
                    BY <1>1, <3>2 DEF Before, ScreenInv, ScreenIsOfOne
                <5> QED BY <2>4, <5>1, <5>2, <5>3 DEF Entered
            <4>3. ASSUME form[mode] # None, form[mode].no = f.inputs.no
                  PROVE  form[mode] = rows[f.row]
                <5>1. form[mode] = [of |-> form[mode].of, no |-> form[mode].no, page |-> form[mode].page]
                    BY <4>2, <4>3 DEF Inputs
                <5>2. [f.inputs EXCEPT !.of = f.row] =
                          [of |-> f.row, no |-> f.inputs.no, page |-> f.inputs.page]
                    BY <1>1 DEF Inputs
                <5> QED BY <2>4, <4>2, <4>3, <5>1, <5>2
            <4> QED BY <2>1, <2>4, <4>1, <4>2, <4>3 DEF CleanIsSaved
        <3> QED BY <3>1, <3>2
    <2> QED BY <2>1, <2>2, <2>3, <2>5 DEF After, ScreenInv
<1> QED BY <1>2, <1>3

LEMMA StutterScreen ==
    ASSUME Before, UNCHANGED vars
    PROVE  After
<1>1. UNCHANGED <<rows, sizer, saves, late>> /\ opens' = opens
    BY DEF vars, flows, ghosts
<1> QED BY <1>1, PlaceScreen

-----------------------------------------------------------------------------
(* The invariant, and the two properties.                                    *)

LEMMA InitSizer == Init => SizerInv
<1> SUFFICES ASSUME Init PROVE SizerInv
    OBVIOUS
<1>1. TypeInv
    BY InitType
<1>2. opens = {} /\ saves = {} /\ clean = None /\ loaded = None /\ mode = "appliance"
      /\ form["appliance"] = None
    BY DEF Init, Empty, Pages
<1>3. EachRowKeepsItsInputs
    BY DEF Init, EachRowKeepsItsInputs, Exists
<1>4. ScreenIsOfOne
    BY <1>2, ConstantFacts DEF ScreenIsOfOne
<1>5. OneAtATime /\ OpensAreCurrent
    BY <1>2 DEF OneAtATime, OpensAreCurrent
<1> QED BY <1>1, <1>2, <1>3, <1>4, <1>5 DEF SizerInv, ScreenInv, CleanIsSaved

LEMMA ClearStep ==
    ASSUME Before, TypeInv', Clear', [Next]_vars
    PROVE  After
<1>1. CASE UNCHANGED vars
    BY <1>1, StutterScreen
<1>2. CASE Browser
    BY <1>2, HistoryScreen, DocumentScreen DEF Browser
<1>3. CASE Clicks
    BY <1>3, HistoryScreen, DocumentScreen, EditScreen, PressScreen, SwitchScreen DEF Clicks
<1>4. CASE Network
    BY <1>4, HistoryScreen, OpenScreen, AnsweredScreen, ServedScreen, SaveFailsScreen,
       SaveAnsweredScreen, SaveEndsScreen DEF Network, Save
<1> QED BY <1>1, <1>2, <1>3, <1>4 DEF Next

LEMMA SizerStep == SizerInv /\ [Next]_vars => SizerInv'
<1> SUFFICES ASSUME SizerInv, [Next]_vars PROVE SizerInv'
    OBVIOUS
<1>1. TypeInv /\ TypeInv'
    BY TypeStep DEF SizerInv
<1>2. ASSUME Clear' PROVE ScreenInv' /\ (~late => CleanIsSaved)'
    <2>1. Clear
        BY <1>1, <1>2, ClearBefore
    <2>2. Before
        BY <1>1, <2>1 DEF SizerInv, Before
    <2>3. After
        BY <1>1, <1>2, <2>2, ClearStep
    <2> QED BY <2>3 DEF After
<1> QED BY <1>1, <1>2 DEF SizerInv

LEMMA SizerInvHolds == Spec => []SizerInv
<1> QED BY InitSizer, SizerStep, PTL DEF Spec

\* As long as no two handlers have crossed and no page was turned to that another sizing
\* had left its inputs on, no save writes one sizing's inputs into another's row.
THEOREM RowsAreKept == Spec => []RowsKeepTheirInputs
<1>1. SizerInv => RowsKeepTheirInputs
    BY DEF SizerInv, Clear, ScreenInv, RowsKeepTheirInputs
<1> QED BY <1>1, SizerInvHolds, PTL

\* Then, too, a page that would be left without a question is in its row, unless it was
\* entered while a save was under way or the answer of a save was lost.
THEOREM SilenceIsSafe == Spec => []SilenceMeansSaved
<1>1. ASSUME SizerInv PROVE SilenceMeansSaved
    <2> SUFFICES ASSUME Clear, ~late, mode # "dr", form[mode] # None, ~Unsaved
                 PROVE  form[mode].of # New /\ rows[form[mode].of] = form[mode]
        BY DEF SilenceMeansSaved, Clear
    <2>1. clean = form[mode]
        BY DEF Unsaved, Capture
    <2>2. clean.of \in Held(rows)
        BY <1>1, <2>1 DEF SizerInv, ScreenInv
    <2>3. rows[clean.of] = clean
        BY <1>1, <2>1 DEF SizerInv, CleanIsSaved
    <2> QED BY <2>1, <2>2, <2>3, ConstantFacts DEF Held
<1> QED BY <1>1, SizerInvHolds, PTL

=============================================================================
