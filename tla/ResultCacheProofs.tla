-------------------------- MODULE ResultCacheProofs --------------------------
(***************************************************************************)
(* What TLAPS proves of ResultCache for every project, every number of     *)
(* windows and frames and every number of changes and faults.              *)
(***************************************************************************)
EXTENDS ResultCache, FiniteSetTheorems, TLAPS

-----------------------------------------------------------------------------
(* What the operators return. *)

LEMMA ReserveType ==
    ASSUME TypeOK, NEW t \in Sizings
    PROVE  Reserve(t) \in Reserves
BY DEF TypeOK, Reserve, Inbound, Demand, Reserves, Results, Links

LEMMA CatalogReadType ==
    ASSUME TypeOK, NEW p
    PROVE  CatalogRead(p) \in Catalogs \cup {None}
BY DEF TypeOK, CatalogRead

LEMMA InboundDigestType ==
    ASSUME TypeOK, NEW t \in Sizings
    PROVE  InboundDigest(t) \in
             SUBSET [place : Nat, digest : Payloads \cup {None}, terms : Terms]
<1>1. ASSUME NEW s \in Sizings
      PROVE  Cardinality({r \in Inbound(t) : r < s}) \in Nat
    <2>1. {r \in Inbound(t) : r < s} \subseteq Sizings
        BY DEF Inbound
    <2> QED BY <2>1, CacheAssumption, FS_Subset, FS_CardinalityType
<1>2. ASSUME NEW s \in Inbound(t)
      PROVE  s \in Sizings /\ digest[s] \in Payloads \cup {None} /\ link[s].terms \in Terms
    BY DEF TypeOK, Inbound, Links
<1>3. ASSUME NEW s \in Inbound(t)
      PROVE  [place |-> Cardinality({r \in Inbound(t) : r < s}), digest |-> digest[s],
              terms |-> link[s].terms]
               \in [place : Nat, digest : Payloads \cup {None}, terms : Terms]
    BY <1>1, <1>2
<1> HIDE DEF Inbound
<1> QED BY <1>3 DEF InboundDigest

LEMMA CalculatedType ==
    ASSUME TypeOK, NEW q \in Requests
    PROVE  Calculated(q) \in Results
<1>1. q.sizing \in Sizings /\ q.inputs \in Payloads /\ q.reserve \in Reserves
    BY DEF Requests
<1>2. CatalogRead(q.inputs) \in Catalogs \cup {None}
    BY CatalogReadType
<1>3. Reserve(q.sizing) \in Reserves
    BY <1>1, ReserveType
<1> QED BY <1>1, <1>2, <1>3 DEF Calculated, Results, TypeOK

LEMMA StampType ==
    ASSUME TypeOK, NEW s \in Sizings, NEW r \in Results
    PROVE  Stamp(s, r) \in Stamps
BY InboundDigestType, CatalogReadType DEF Stamp, Fingerprint, Stamps, TypeOK

\* Whoever sends a result has a sizing open and a result to send.
LEMMA SendingType ==
    ASSUME TypeOK, NEW c \in Clients, Sending(c)
    PROVE  screen[c] \in Screens /\ screen[c].sizing \in Sizings /\ Outcome(c) \in Results
<1>1. screen[c].pc # "idle"
    BY DEF Sending
<1>2. screen[c] \in Screens
    BY <1>1 DEF TypeOK, Away
<1>3. shown[c] \in Shows
    BY DEF TypeOK
<1> QED BY <1>2, <1>3 DEF Sending, Outcome, Screens, Shows

-----------------------------------------------------------------------------
(* Type correctness. *)

LEMMA TypeInit == Init => TypeOK
BY CacheAssumption
   DEF Init, TypeOK, Away, NothingShown, Screens, Shows, Requests

\* The steps that touch neither the screens nor the stored results.
LEMMA TypeOfAdministration ==
    ASSUME TypeOK, Administration PROVE TypeOK'
<1> USE CacheAssumption DEF Change, TypeOK, sizingVars, cacheVars, globalVars, clientVars
<1>1. CASE ChangeSettings
    BY <1>1 DEF ChangeSettings
<1>2. CASE ChangeCatalog
    BY <1>2 DEF ChangeCatalog
<1>3. ASSUME NEW s \in Sizings, NEW t \in Sizings, NEW terms \in Terms, SetLink(s, t, terms)
      PROVE  TypeOK'
    BY <1>3 DEF SetLink, Links
<1>4. ASSUME NEW s \in Sizings, ClearLink(s) PROVE TypeOK'
    BY <1>4 DEF ClearLink
<1>5. ASSUME NEW s \in Sizings, DeleteSizing(s) PROVE TypeOK'
    BY <1>5 DEF DeleteSizing
<1>6. CASE PurgeAtLogin
    BY <1>6 DEF PurgeAtLogin
<1> QED BY <1>1, <1>2, <1>3, <1>4, <1>5, <1>6 DEF Administration

LEMMA TypeOfOpen ==
    ASSUME TypeOK, NEW c \in Clients, NEW s \in Sizings, OpenSizing(c, s) PROVE TypeOK'
<1>1. payload[s] \in Payloads /\ {} \in Reserves
    BY DEF TypeOK, Reserves
<1>2. ASSUME NEW pc \in {"opened", "ready"}
      PROVE  Opened(s, pc) \in Screens
    BY <1>1 DEF Opened, Screens
<1>3. screen' \in [Clients -> Screens \cup {Away}]
    BY <1>2 DEF OpenSizing, TypeOK
<1>4. Request(s, payload[s], {}) \in Requests
    BY <1>1 DEF Request, Requests
<1>5. asked' \in [Clients -> SUBSET Requests]
    BY <1>4 DEF OpenSizing, TypeOK
<1> QED
    BY <1>3, <1>5 DEF OpenSizing, TypeOK, Routine, sizingVars, cacheVars, globalVars

LEMMA TypeOfRestore ==
    ASSUME TypeOK, NEW c \in Clients, NEW reserve \in Reserves, Restore(c, reserve),
           Routine \/ Fault
    PROVE  TypeOK'
<1>1. screen[c] \in Screens
    BY DEF Restore, TypeOK, Away
<1>2. screen' \in [Clients -> Screens \cup {Away}]
    BY <1>1 DEF Restore, TypeOK, Screens
<1>3. Request(screen[c].sizing, screen[c].inputs, reserve) \in Requests
    BY <1>1 DEF Request, Requests, Screens
<1>4. asked' \in [Clients -> SUBSET Requests]
    BY <1>3 DEF Restore, TypeOK
<1>5. changes' \in 0..MaxChanges /\ faults' \in 0..MaxFaults
    BY CacheAssumption DEF Routine, Fault, TypeOK
<1> QED
    BY <1>2, <1>4, <1>5 DEF Restore, TypeOK, sizingVars, cacheVars, globalVars

LEMMA TypeOfFetch ==
    ASSUME TypeOK, NEW c \in Clients, FetchReserve(c) \/ FetchReserveFails(c)
    PROVE  TypeOK'
<1>1. screen[c].sizing \in Sizings
    BY DEF FetchReserve, FetchReserveFails, Restore, TypeOK, Away, Screens
<1>2. Reserve(screen[c].sizing) \in Reserves /\ {} \in Reserves
    BY <1>1, ReserveType DEF Reserves
<1>3. CASE FetchReserve(c)
    BY <1>2, <1>3, TypeOfRestore DEF FetchReserve
<1>4. CASE FetchReserveFails(c)
    BY <1>2, <1>4, TypeOfRestore DEF FetchReserveFails
<1> QED BY <1>3, <1>4

LEMMA TypeOfAnswer ==
    ASSUME TypeOK, NEW c \in Clients, NEW q \in asked[c], Answer(c, q) \/ LoseAnswer(c, q)
    PROVE  TypeOK'
<1>1. q \in Requests
    BY DEF TypeOK
<1>2. Calculated(q) \in Results
    BY <1>1, CalculatedType
<1>3. shown[c] \in Shows
    BY DEF TypeOK
<1>4. shown' \in [Clients -> Shows]
    BY <1>2, <1>3 DEF Answer, LoseAnswer, TypeOK, Shows
<1>5. asked' \in [Clients -> SUBSET Requests]
    BY DEF Answer, LoseAnswer, TypeOK
<1>6. changes' \in 0..MaxChanges /\ faults' \in 0..MaxFaults
    BY CacheAssumption DEF Answer, LoseAnswer, Routine, Fault, TypeOK
<1> QED
    BY <1>4, <1>5, <1>6 DEF Answer, LoseAnswer, TypeOK, sizingVars, cacheVars, globalVars

LEMMA TypeOfSave ==
    ASSUME TypeOK, NEW c \in Clients, NEW p \in Payloads, Edit(c, p) \/ Save(c)
    PROVE  TypeOK'
<1>1. screen[c] \in Screens
    BY DEF Edit, Save, TypeOK, Away
<1>2. changes' \in 0..MaxChanges /\ faults' \in 0..MaxFaults
    BY CacheAssumption DEF Edit, Save, Change, TypeOK
<1>3. CASE Edit(c, p)
    <2>1. Request(screen[c].sizing, p, screen[c].reserve) \in Requests
        BY <1>1 DEF Request, Requests, Screens
    <2>2. asked' \in [Clients -> SUBSET Requests]
        BY <1>3, <2>1 DEF Edit, TypeOK
    <2>3. screen' \in [Clients -> Screens \cup {Away}]
        BY <1>1, <1>3 DEF Edit, TypeOK, Screens
    <2> QED
        BY <1>2, <1>3, <2>2, <2>3 DEF Edit, TypeOK, sizingVars, cacheVars, globalVars
<1>4. CASE Save(c)
    <2>1. screen' \in [Clients -> Screens \cup {Away}]
        BY <1>1, <1>4 DEF Save, Taken, TypeOK, Screens, Shows
    <2>2. /\ payload' \in [Sizings -> Payloads]
          /\ digest' \in [Sizings -> Payloads \cup {None}]
        BY <1>1, <1>4 DEF Save, TypeOK, Screens
    <2> QED
        BY <1>2, <1>4, <2>1, <2>2 DEF Save, TypeOK, cacheVars, globalVars
<1> QED BY <1>3, <1>4

\* Whatever became of a request to store, the client is in a proper state after it.
LEMMA TypeOfSent ==
    ASSUME TypeOK, NEW c \in Clients, Sending(c), Sent(c)
    PROVE  /\ screen' \in [Clients -> Screens \cup {Away}]
           /\ shown' \in [Clients -> Shows]
           /\ asked' \in [Clients -> SUBSET Requests]
<1>1. screen[c] \in Screens
    BY SendingType
<1>2. NothingShown \in Shows
    BY DEF NothingShown, Shows
<1>3. CASE GoBack(c) \/ Vanish(c)
    <2>1. screen' \in [Clients -> Screens \cup {Away}]
        BY <1>3 DEF GoBack, Vanish, TypeOK
    <2>2. shown' \in [Clients -> Shows]
        <3>1. shown[c] \in Shows
            BY DEF TypeOK
        <3>2. [shown[c] EXCEPT !.import = None] \in Shows
            BY <3>1 DEF Shows
        <3> QED BY <1>2, <1>3, <3>2 DEF GoBack, Vanish, TypeOK
    <2>3. asked' \in [Clients -> SUBSET Requests]
        BY <1>3 DEF GoBack, Vanish, TypeOK
    <2> QED BY <2>1, <2>2, <2>3
<1>4. CASE screen' = [screen EXCEPT ![c].pc = "ready"] /\ UNCHANGED <<shown, asked>>
    BY <1>1, <1>4 DEF TypeOK, Screens
<1> QED BY <1>3, <1>4 DEF Sent

LEMMA TypeOfStore ==
    ASSUME TypeOK, NEW c \in Clients,
           StoreResult(c) \/ StoreRefused(c) \/ StoreFails(c)
    PROVE  TypeOK'
<1>1. Sending(c) /\ Sent(c)
    BY DEF StoreResult, StoreRefused, StoreFails
<1>2. /\ screen' \in [Clients -> Screens \cup {Away}]
      /\ shown' \in [Clients -> Shows]
      /\ asked' \in [Clients -> SUBSET Requests]
    BY <1>1, TypeOfSent
<1>3. changes' \in 0..MaxChanges /\ faults' \in 0..MaxFaults
    BY CacheAssumption DEF StoreResult, StoreRefused, StoreFails, Routine, Fault, TypeOK
<1>4. CASE StoreResult(c)
    <2>1. screen[c].sizing \in Sizings /\ Outcome(c) \in Results
        BY <1>1, SendingType
    <2>2. Stamp(screen[c].sizing, Outcome(c)) \in Stamps
        BY <2>1, StampType
    <2>3. /\ result' \in [Sizings -> Results \cup {None}]
          /\ fingerprint' \in [Sizings -> Stamps \cup {None}]
          /\ overtaken' \in [Sizings -> BOOLEAN]
        BY <1>4, <2>1, <2>2 DEF StoreResult, TypeOK
    <2>4. \A s \in Sizings : (result'[s] = None) = (fingerprint'[s] = None)
        BY <1>4, <2>1, <2>2, CacheAssumption DEF StoreResult, TypeOK
    <2> QED
        BY <1>2, <1>3, <1>4, <2>3, <2>4 DEF StoreResult, TypeOK, sizingVars, globalVars
<1>5. CASE StoreRefused(c) \/ StoreFails(c)
    BY <1>2, <1>3, <1>5
       DEF StoreRefused, StoreFails, TypeOK, sizingVars, cacheVars, globalVars
<1> QED BY <1>4, <1>5

LEMMA TypeOfLeaving ==
    ASSUME TypeOK, NEW c \in Clients,
           StoreNothing(c) \/ Leave(c) \/ ReportNoResult(c) \/ AbandonFrame(c)
    PROVE  TypeOK'
<1>1. changes' \in 0..MaxChanges /\ faults' \in 0..MaxFaults
    BY CacheAssumption
       DEF StoreNothing, Leave, ReportNoResult, AbandonFrame, GiveUp, Routine, Fault, TypeOK
<1>2. shown[c] \in Shows /\ NothingShown \in Shows
    BY DEF TypeOK, NothingShown, Shows
<1>3. CASE StoreNothing(c)
    <2>1. screen[c] \in Screens
        BY <1>3 DEF StoreNothing, TypeOK, Away
    <2>2. screen' \in [Clients -> Screens \cup {Away}]
        BY <1>3, <2>1 DEF StoreNothing, TypeOK, Screens
    <2> QED
        BY <1>1, <1>3, <2>2 DEF StoreNothing, TypeOK, sizingVars, cacheVars, globalVars
<1>4. CASE Leave(c)
    <2>1. shown' \in [Clients -> Shows]
        BY <1>2, <1>4 DEF Leave, GoBack, TypeOK, Shows
    <2> QED
        BY <1>1, <1>4, <2>1 DEF Leave, GoBack, TypeOK, sizingVars, cacheVars, globalVars
<1>5. CASE ReportNoResult(c) \/ AbandonFrame(c)
    BY <1>1, <1>2, <1>5
       DEF ReportNoResult, AbandonFrame, GiveUp, Vanish, TypeOK, sizingVars, cacheVars, globalVars
<1> QED BY <1>3, <1>4, <1>5

LEMMA TypeStep == TypeOK /\ [Next]_vars => TypeOK'
<1> SUFFICES ASSUME TypeOK, [Next]_vars PROVE TypeOK'
    OBVIOUS
<1>1. CASE Administration
    BY <1>1, TypeOfAdministration
<1>2. ASSUME NEW c \in Clients, ClientStep(c) PROVE TypeOK'
    <2>1. ASSUME NEW s \in Sizings, OpenSizing(c, s) PROVE TypeOK'
        BY <2>1, TypeOfOpen
    <2>2. ASSUME FetchReserve(c) \/ FetchReserveFails(c) PROVE TypeOK'
        BY <2>2, TypeOfFetch
    <2>3. ASSUME NEW q \in asked[c], Answer(c, q) \/ LoseAnswer(c, q) PROVE TypeOK'
        BY <2>3, TypeOfAnswer
    <2>4. ASSUME NEW p \in Payloads, Edit(c, p) PROVE TypeOK'
        BY <2>4, TypeOfSave
    <2>5. ASSUME Save(c) PROVE TypeOK'
        <3>1. PICK p \in Payloads : TRUE
            BY <2>5 DEF Save, TypeOK, Away, Screens
        <3> QED BY <2>5, <3>1, TypeOfSave
    <2>6. ASSUME StoreResult(c) \/ StoreRefused(c) \/ StoreFails(c) PROVE TypeOK'
        BY <2>6, TypeOfStore
    <2>7. ASSUME StoreNothing(c) \/ Leave(c) \/ ReportNoResult(c) \/ AbandonFrame(c)
          PROVE  TypeOK'
        BY <2>7, TypeOfLeaving
    <2> QED BY <1>2, <2>1, <2>2, <2>3, <2>4, <2>5, <2>6, <2>7 DEF ClientStep
<1>3. CASE UNCHANGED vars
    BY <1>3 DEF vars, sizingVars, cacheVars, globalVars, clientVars, TypeOK
<1> QED BY <1>1, <1>2, <1>3 DEF Next

\* Every variable keeps its type, and a stored result its fingerprint
\* (store_sizing_result).
THEOREM TypeCorrect == Spec => []TypeOK
BY TypeInit, TypeStep, PTL DEF Spec

-----------------------------------------------------------------------------
(* Freshness. *)

\* What makes HonestUnlessOvertaken inductive: a result some client holds that is of this
\* edition was calculated with what settings and catalog are now, and a stored one that
\* was not overtaken with what its fingerprint records.
Held(c) == {shown[c].dr, shown[c].import, screen[c].taken}

OfItsEdition(r) ==
    r # None => /\ r.edition <= edition
                /\ r.edition = edition =>
                      r.settings = settings /\ r.catalog = CatalogRead(r.payload)

HeldIsOfItsEdition == \A c \in Clients : \A r \in Held(c) : OfItsEdition(r)

StoredMatchesStamp ==
    \A s \in Sizings : result[s] # None /\ ~overtaken[s] =>
        /\ result[s].settings = fingerprint[s].settings
        /\ result[s].catalog = fingerprint[s].catalog

FreshInv == TypeOK /\ HeldIsOfItsEdition /\ StoredMatchesStamp

LEMMA FreshInit == Init => FreshInv
BY TypeInit
   DEF Init, FreshInv, HeldIsOfItsEdition, Held, OfItsEdition, StoredMatchesStamp,
       NothingShown, Away

LEMMA HeldType ==
    ASSUME TypeOK, NEW c \in Clients, NEW r \in Held(c), r # None
    PROVE  r \in Results
<1>1. shown[c] \in Shows /\ (screen[c] \in Screens \/ screen[c] = Away)
    BY DEF TypeOK
<1>2. screen[c].taken \in Results \cup {None}
    BY <1>1 DEF Screens, Away
<1> QED BY <1>1, <1>2 DEF Held, Shows

\* A step of the administrator leaves what clients hold alone, and an older edition can
\* never again be the current one.
LEMMA EditionOfAdministration ==
    ASSUME FreshInv, Administration PROVE HeldIsOfItsEdition'
<1>1. UNCHANGED <<shown, screen>>
    BY DEF Administration, ChangeSettings, ChangeCatalog, PurgeAtLogin, SetLink, ClearLink,
           DeleteSizing, clientVars
<1>2. ASSUME NEW c \in Clients PROVE Held(c)' = Held(c)
    BY <1>1 DEF Held
<1>3. CASE edition' = edition + 1
    <2>1. ASSUME NEW c \in Clients, NEW r \in Held(c), r # None
          PROVE  r.edition <= edition' /\ r.edition # edition'
        <3>1. r.edition \in Nat /\ edition \in Nat
            BY <2>1, HeldType DEF Results, FreshInv, TypeOK
        <3>2. r.edition <= edition
            BY <2>1 DEF FreshInv, HeldIsOfItsEdition, OfItsEdition
        <3> QED BY <1>3, <3>1, <3>2
    <2> QED BY <1>2, <2>1, Zenon DEF HeldIsOfItsEdition, OfItsEdition
<1>4. CASE UNCHANGED <<settings, catalog, edition>>
    BY <1>2, <1>4 DEF FreshInv, HeldIsOfItsEdition, OfItsEdition, CatalogRead
<1> QED
    BY <1>3, <1>4
       DEF globalVars, Administration, ChangeSettings, ChangeCatalog, PurgeAtLogin, SetLink,
           ClearLink, DeleteSizing

\* A client shows what it showed, nothing, or what the server calculates now...
LEMMA ShownOfClient ==
    ASSUME TypeOK, NEW c \in Clients, ClientStep(c),
           NEW d \in Clients, NEW m \in {"dr", "import"}
    PROVE  \/ shown'[d][m] \in {shown[d][m], None}
           \/ \E q \in asked[c] : shown'[d][m] = Calculated(q)
<1>1. shown \in [Clients -> Shows]
    BY DEF TypeOK
<1>2. ASSUME NEW q \in asked[c], Answer(c, q)
      PROVE  shown'[d][m] \in {shown[d][m], None, Calculated(q)}
    BY <1>1, <1>2 DEF Answer, Shows
<1>3. ASSUME shown' = [shown EXCEPT ![c] = NothingShown]
      PROVE  shown'[d][m] \in {shown[d][m], None}
    BY <1>1, <1>3 DEF NothingShown
<1>4. ASSUME shown' = [shown EXCEPT ![c].import = None]
      PROVE  shown'[d][m] \in {shown[d][m], None}
    BY <1>1, <1>4 DEF Shows
<1>5. CASE \/ UNCHANGED shown
           \/ shown' = [shown EXCEPT ![c] = NothingShown]
           \/ shown' = [shown EXCEPT ![c].import = None]
    BY <1>3, <1>4, <1>5
<1>6. CASE \E q \in asked[c] : Answer(c, q)
    BY <1>2, <1>6
<1> QED
    BY <1>5, <1>6
       DEF ClientStep, OpenSizing, FetchReserve, FetchReserveFails, Restore, LoseAnswer,
           Edit, Save, StoreResult, StoreRefused, StoreFails, Sent, GoBack, Vanish,
           StoreNothing, Leave, ReportNoResult, AbandonFrame, GiveUp

\* ...and takes with it what it took, nothing, or what it shows.
LEMMA TakenOfClient ==
    ASSUME TypeOK, NEW c \in Clients, ClientStep(c), NEW d \in Clients
    PROVE  screen'[d].taken \in {screen[d].taken, shown[d].dr, None}
<1>1. screen \in [Clients -> Screens \cup {Away}] /\ shown \in [Clients -> Shows]
    BY DEF TypeOK
<1>2. screen[d] \in Screens \/ screen[d] = Away
    BY <1>1
<1>3. CASE Save(c)
    BY <1>1, <1>2, <1>3 DEF Save, Taken, Screens, Away
<1>4. CASE screen' = [screen EXCEPT ![c] = Away]
    BY <1>1, <1>2, <1>4 DEF Away
<1>5. ASSUME NEW s \in Sizings, OpenSizing(c, s)
      PROVE  screen'[d].taken \in {screen[d].taken, None}
    BY <1>1, <1>2, <1>5 DEF OpenSizing, Opened
<1>6. ASSUME NEW reserve, Restore(c, reserve)
      PROVE  screen'[d].taken = screen[d].taken
    BY <1>1, <1>2, <1>6 DEF Restore, Screens, Away
<1>7. ASSUME NEW p, screen' = [screen EXCEPT ![c].inputs = p]
      PROVE  screen'[d].taken = screen[d].taken
    BY <1>1, <1>2, <1>7 DEF Screens, Away
<1>8. CASE screen' = [screen EXCEPT ![c].pc = "ready"]
    BY <1>1, <1>2, <1>8 DEF Screens, Away
<1>9. CASE UNCHANGED screen
    BY <1>9
<1>10. ASSUME NEW p \in Payloads, Edit(c, p)
       PROVE  screen'[d].taken = screen[d].taken
    BY <1>7, <1>10 DEF Edit
<1>11. CASE FetchReserve(c) \/ FetchReserveFails(c)
    BY <1>6, <1>11 DEF FetchReserve, FetchReserveFails
<1>12. CASE \/ StoreResult(c) \/ StoreRefused(c) \/ StoreFails(c) \/ StoreNothing(c)
            \/ Leave(c) \/ ReportNoResult(c) \/ AbandonFrame(c)
    BY <1>4, <1>8, <1>12
       DEF StoreResult, StoreRefused, StoreFails, Sent, GoBack, Vanish, StoreNothing,
           Leave, ReportNoResult, AbandonFrame, GiveUp
<1>13. CASE \E q \in asked[c] : Answer(c, q) \/ LoseAnswer(c, q)
    BY <1>9, <1>13 DEF Answer, LoseAnswer
<1> QED
    BY <1>3, <1>5, <1>10, <1>11, <1>12, <1>13 DEF ClientStep

LEMMA EditionOfClient ==
    ASSUME FreshInv, NEW c \in Clients, ClientStep(c) PROVE HeldIsOfItsEdition'
<1>1. UNCHANGED globalVars
    BY DEF ClientStep, OpenSizing, FetchReserve, FetchReserveFails, Restore, Answer,
           LoseAnswer, Edit, Save, StoreResult, StoreRefused, StoreFails, StoreNothing,
           Leave, ReportNoResult, AbandonFrame, GiveUp
<1>2. edition \in Nat /\ TypeOK
    BY DEF FreshInv, TypeOK
<1>3. ASSUME NEW r, OfItsEdition(r) PROVE OfItsEdition(r)'
    BY <1>1, <1>3 DEF OfItsEdition, CatalogRead, globalVars
<1>4. OfItsEdition(None)
    BY DEF OfItsEdition
<1>5. ASSUME NEW q PROVE OfItsEdition(Calculated(q))
    BY <1>2 DEF OfItsEdition, Calculated
<1> SUFFICES ASSUME NEW d \in Clients, NEW r \in Held(d)' PROVE OfItsEdition(r)
    BY <1>3 DEF HeldIsOfItsEdition
<1>6. \A e \in Held(d) : OfItsEdition(e)
    BY DEF FreshInv, HeldIsOfItsEdition
<1>7. shown[d].dr \in Held(d) /\ shown[d].import \in Held(d) /\ screen[d].taken \in Held(d)
    BY DEF Held
<1>8. OfItsEdition(shown'[d].dr)
    <2>1. "dr" \in {"dr", "import"} OBVIOUS
    <2>2. \/ shown'[d]["dr"] \in {shown[d]["dr"], None}
          \/ \E q \in asked[c] : shown'[d]["dr"] = Calculated(q)
        BY <1>2, <2>1, ShownOfClient
    <2> QED BY <1>4, <1>5, <1>6, <1>7, <2>2
<1>9. OfItsEdition(shown'[d].import)
    <2>1. "import" \in {"dr", "import"} OBVIOUS
    <2>2. \/ shown'[d]["import"] \in {shown[d]["import"], None}
          \/ \E q \in asked[c] : shown'[d]["import"] = Calculated(q)
        BY <1>2, <2>1, ShownOfClient
    <2> QED BY <1>4, <1>5, <1>6, <1>7, <2>2
<1>10. OfItsEdition(screen'[d].taken)
    BY <1>2, <1>4, <1>6, <1>7, TakenOfClient
<1> QED BY <1>8, <1>9, <1>10 DEF Held

\* Only StoreResult writes a result, its fingerprint and whether it was overtaken.
LEMMA StampStep ==
    ASSUME FreshInv, NEW c \in Clients, StoreResult(c) PROVE StoredMatchesStamp'
<1> DEFINE t == screen[c].sizing
           r == Outcome(c)
<1>1. Sending(c) /\ TypeOK
    BY DEF StoreResult, FreshInv
<1>2. t \in Sizings /\ r \in Results /\ r # None
    BY <1>1, SendingType DEF Sending
<1>3. r.edition = edition => r.settings = settings /\ r.catalog = CatalogRead(r.payload)
    <2>1. r \in Held(c)
        BY DEF Outcome, Held
    <2> QED BY <1>2, <2>1 DEF FreshInv, HeldIsOfItsEdition, OfItsEdition
<1>4. Stamp(t, r).settings = settings /\ Stamp(t, r).catalog = CatalogRead(r.payload)
    BY DEF Stamp, Fingerprint
<1> SUFFICES ASSUME NEW s \in Sizings, result'[s] # None, ~overtaken'[s]
             PROVE  /\ result'[s].settings = fingerprint'[s].settings
                    /\ result'[s].catalog = fingerprint'[s].catalog
    BY DEF StoredMatchesStamp
<1>5. CASE s = t
    <2>1. result'[s] = r /\ fingerprint'[s] = Stamp(t, r) /\ r.edition = edition
        BY <1>1, <1>2, <1>5 DEF StoreResult, TypeOK
    <2> QED BY <1>3, <1>4, <2>1
<1>6. CASE s # t
    BY <1>1, <1>6 DEF StoreResult, TypeOK, FreshInv, StoredMatchesStamp
<1> QED BY <1>5, <1>6

LEMMA FreshStep == FreshInv /\ [Next]_vars => FreshInv'
<1> SUFFICES ASSUME FreshInv, [Next]_vars PROVE FreshInv'
    OBVIOUS
<1>1. TypeOK'
    BY TypeStep DEF FreshInv
<1>2. HeldIsOfItsEdition'
    <2>1. CASE UNCHANGED vars
        BY <2>1 DEF vars, clientVars, globalVars, FreshInv, HeldIsOfItsEdition, Held,
                    OfItsEdition, CatalogRead
    <2> QED BY <2>1, EditionOfAdministration, EditionOfClient DEF Next
<1>3. StoredMatchesStamp'
    <2>1. CASE UNCHANGED cacheVars
        BY <2>1 DEF cacheVars, FreshInv, StoredMatchesStamp
    <2>2. CASE \E c \in Clients : StoreResult(c)
        BY <2>2, StampStep
    <2> QED
        BY <2>1, <2>2
           DEF Next, Administration, ChangeSettings, ChangeCatalog, PurgeAtLogin,
               SetLink, ClearLink, DeleteSizing, ClientStep, OpenSizing, FetchReserve,
               FetchReserveFails,
               Restore, Answer, LoseAnswer, Edit, Save, StoreRefused, StoreFails,
               StoreNothing, Leave, ReportNoResult, AbandonFrame, GiveUp, vars
<1> QED BY <1>1, <1>2, <1>3 DEF FreshInv

LEMMA FreshInvIsHonest == FreshInv => HonestUnlessOvertaken
BY DEF FreshInv, StoredMatchesStamp, HonestUnlessOvertaken, Fresh, Fingerprint

\* Whatever the sizings, clients, changes and faults: a result that is called fresh and
\* was not overtaken while it was stored was calculated with the settings and the catalog
\* of now (fingerprint.py).
THEOREM FreshIsHonest == Spec => []HonestUnlessOvertaken
<1>1. Spec => []FreshInv
    BY FreshInit, FreshStep, PTL DEF Spec
<1> QED BY <1>1, FreshInvIsHonest, PTL

-----------------------------------------------------------------------------
(* Storing. *)

LEMMA StoreLeavesOthers ==
    ASSUME TypeOK, NEW c \in Clients, StoreResult(c),
           NEW t \in Sizings \ {screen[c].sizing}
    PROVE  Fresh(t)' = Fresh(t)
<1>1. UNCHANGED <<sizingVars, globalVars>>
    BY DEF StoreResult
<1>2. result'[t] = result[t] /\ fingerprint'[t] = fingerprint[t]
    BY DEF StoreResult, TypeOK
<1>3. Inbound(t)' = Inbound(t)
    BY <1>1 DEF Inbound, sizingVars
<1>4. InboundDigest(t)' = InboundDigest(t)
    BY <1>1, <1>3 DEF InboundDigest, sizingVars
<1>5. Fingerprint(t, result[t])' = Fingerprint(t, result[t])
    BY <1>1, <1>2, <1>4 DEF Fingerprint, CatalogRead, globalVars
<1> QED BY <1>2, <1>5 DEF Fresh

\* Storing the result of one sizing changes whether another is fresh in no project,
\* however its sizings replicate to each other (set_replication_link).
THEOREM StoringIsLocal == Spec => StoringNeverStalesOthers
<1>1. TypeOK /\ [Next]_vars =>
        [\A c \in Clients : StoreResult(c) =>
            \A t \in Sizings \ {screen[c].sizing} : Fresh(t)' = Fresh(t)]_vars
    BY StoreLeavesOthers
<1> QED BY <1>1, TypeCorrect, PTL DEF Spec, StoringNeverStalesOthers

-----------------------------------------------------------------------------
(* What a target is told of its sources: the list in the fingerprint is a    *)
(* set of records that name their place in it and no source, so two of them  *)
(* may be equal although the sources are not; not within one step, though.   *)

Place(S, s) == Cardinality({r \in S : r < s})

\* The list over the sources S, with their digests d and links l.
Listed(S, d, l) == {[place |-> Place(S, s), digest |-> d[s], terms |-> l[s].terms] : s \in S}

LEMMA DigestIsListed ==
    ASSUME NEW t
    PROVE  InboundDigest(t) = Listed(Inbound(t), digest, link)
BY DEF InboundDigest, Listed, Place

LEMMA PlacesDiffer ==
    ASSUME NEW S \in SUBSET Sizings, NEW s \in S, NEW u \in S, Place(S, s) = Place(S, u)
    PROVE  s = u
<1>1. ASSUME NEW a \in S, NEW b \in S, a < b PROVE Place(S, a) # Place(S, b)
    <2> DEFINE A == {r \in S : r < a}
               B == {r \in S : r < b}
    <2>1. S \subseteq Nat /\ IsFiniteSet(S)
        BY CacheAssumption, FS_Subset
    <2>2. IsFiniteSet(A) /\ IsFiniteSet(B)
        BY <2>1, FS_Subset
    <2>3. a \notin A /\ A \cup {a} \subseteq B
        <3>1. a \in Nat /\ b \in Nat /\ \A r \in S : r \in Nat
            BY <2>1
        <3>2. ~(a < a) /\ \A r \in S : r < a => r < b
            BY <1>1, <3>1
        <3> QED BY <1>1, <3>2
    <2>4. Cardinality(A \cup {a}) = Cardinality(A) + 1 /\ IsFiniteSet(A \cup {a})
        BY <2>2, <2>3, FS_AddElement
    <2>5. Cardinality(A \cup {a}) <= Cardinality(B)
        BY <2>2, <2>3, FS_Subset
    <2>6. Cardinality(A) \in Nat /\ Cardinality(B) \in Nat
        BY <2>2, FS_CardinalityType
    <2>7. Cardinality(A) # Cardinality(B)
        BY <2>4, <2>5, <2>6
    <2> QED BY <2>7 DEF Place
<1>2. s \in Nat /\ u \in Nat
    BY CacheAssumption
<1> QED BY <1>1, <1>2

LEMMA ListSize ==
    ASSUME NEW S \in SUBSET Sizings, NEW d, NEW l
    PROVE  IsFiniteSet(S) /\ Cardinality(Listed(S, d, l)) = Cardinality(S)
<1> DEFINE Entry(s) == [place |-> Place(S, s), digest |-> d[s], terms |-> l[s].terms]
           f == [s \in S |-> Entry(s)]
<1>1. IsFiniteSet(S)
    BY CacheAssumption, FS_Subset
<1>2. Listed(S, d, l) = {Entry(s) : s \in S}
    BY DEF Listed
<1>3. f \in Surjection(S, Listed(S, d, l))
    <2> HIDE DEF Entry
    <2> QED BY <1>2 DEF Surjection
<1>4. \A s, u \in S : Entry(s) = Entry(u) => s = u
    BY PlacesDiffer
<1>5. f \in Injection(S, Listed(S, d, l))
    <2>1. f \in [S -> Listed(S, d, l)] /\ \A s \in S : f[s] = Entry(s)
        <3> HIDE DEF Entry
        <3> QED BY <1>2
    <2> HIDE DEF f, Entry
    <2>2. ASSUME NEW s \in S, NEW u \in S, f[s] = f[u] PROVE s = u
        <3>1. Entry(s) = Entry(u)
            BY <2>1, <2>2
        <3> QED BY <1>4, <3>1
    <2> QED BY <2>1, <2>2 DEF Injection, IsInjective
<1> HIDE DEF f
<1> QED BY <1>1, <1>3, <1>5, FS_Surjection

LEMMA ListTellsTheEntry ==
    ASSUME NEW S \in SUBSET Sizings, NEW d, NEW l, NEW d2, NEW l2,
           Listed(S, d, l) = Listed(S, d2, l2), NEW s \in S
    PROVE  d2[s] = d[s] /\ l2[s].terms = l[s].terms
<1> DEFINE e == [place |-> Place(S, s), digest |-> d2[s], terms |-> l2[s].terms]
<1>1. e \in Listed(S, d, l)
    BY DEF Listed
<1>2. PICK u \in S : e = [place |-> Place(S, u), digest |-> d[u], terms |-> l[u].terms]
    BY <1>1 DEF Listed
<1>3. u = s
    BY <1>2, PlacesDiffer
<1> QED BY <1>2, <1>3

\* Adding or taking away one source changes the length of the list.
LEMMA ListTellsTheSources ==
    ASSUME NEW S \in SUBSET Sizings, NEW S2 \in SUBSET Sizings, NEW d, NEW l, NEW d2, NEW l2,
           Listed(S, d, l) = Listed(S2, d2, l2),
           NEW s \in Sizings, S \ {s} = S2 \ {s}
    PROVE  S2 = S
<1>1. /\ IsFiniteSet(S) /\ IsFiniteSet(S2) /\ Cardinality(S) = Cardinality(S2)
      /\ Cardinality(S) \in Nat
    BY ListSize, FS_CardinalityType
<1>2. ASSUME s \in S, s \notin S2 PROVE FALSE
    <2>1. S = S2 \cup {s}
        BY <1>2
    <2> QED BY <1>1, <1>2, <2>1, FS_AddElement
<1>3. ASSUME s \notin S, s \in S2 PROVE FALSE
    <2>1. S2 = S \cup {s}
        BY <1>3
    <2> QED BY <1>1, <1>3, <2>1, FS_AddElement
<1> QED BY <1>2, <1>3

-----------------------------------------------------------------------------
(* A change of the inputs reaches the target.                                *)

\* What a source is: never a DR target, and its digest is that of what is saved.
SourcesAreDigested ==
    /\ \A s \in Sizings : link[s] # None => s \notin DrTargets
    /\ \A s \in Sizings \ DrTargets : digest[s] = payload[s]

LinkInv == TypeOK /\ SourcesAreDigested

LEMMA LinkInit == Init => LinkInv
BY TypeInit DEF LinkInv, SourcesAreDigested, Init

\* Only these change what a target is told: one source's inputs, or its link.
LEMMA WatchedStep ==
    ASSUME LinkInv, [Next]_vars
    PROVE  \/ UNCHANGED <<payload, digest, link>>
           \/ /\ UNCHANGED <<cacheVars, digest, payload>>
              /\ \E s \in Sizings \ DrTargets, i \in Links : link' = [link EXCEPT ![s] = i]
           \/ /\ UNCHANGED <<cacheVars, digest, payload>>
              /\ \E s \in Sizings : link' = [link EXCEPT ![s] = None]
           \/ /\ UNCHANGED <<cacheVars, link>>
              /\ \E s \in Sizings, p \in Payloads :
                    payload' = [payload EXCEPT ![s] = p] /\ digest' = [digest EXCEPT ![s] = p]
<1>1. CASE Next /\ UNCHANGED <<payload, digest, link>>
    BY <1>1
<1>2. ASSUME NEW s \in Sizings, NEW t \in Sizings, NEW terms \in Terms, SetLink(s, t, terms)
      PROVE  /\ UNCHANGED <<cacheVars, digest, payload>> /\ s \in Sizings \ DrTargets
             /\ link' = [link EXCEPT ![s] = [target |-> t, terms |-> terms]]
             /\ [target |-> t, terms |-> terms] \in Links
    BY <1>2 DEF SetLink, Links
<1>3. ASSUME NEW s \in Sizings, ClearLink(s)
      PROVE  UNCHANGED <<cacheVars, digest, payload>> /\ link' = [link EXCEPT ![s] = None]
    BY <1>3 DEF ClearLink
<1>4. ASSUME NEW c \in Clients, Save(c)
      PROVE  /\ UNCHANGED <<cacheVars, link>>
             /\ \E s \in Sizings, p \in Payloads :
                   payload' = [payload EXCEPT ![s] = p] /\ digest' = [digest EXCEPT ![s] = p]
    <2>1. screen[c] \in Screens
        BY <1>4 DEF Save, LinkInv, TypeOK, Away
    <2> QED BY <1>4, <2>1 DEF Save, Screens
<1>5. ASSUME NEW c \in Clients, ClientStep(c), ~Save(c) PROVE UNCHANGED <<payload, digest, link>>
    BY <1>5 DEF ClientStep, OpenSizing, FetchReserve, FetchReserveFails, Restore, Answer,
        LoseAnswer, Edit, StoreResult, StoreRefused, StoreFails, StoreNothing, Leave,
        ReportNoResult, AbandonFrame, GiveUp, sizingVars
<1>6. CASE ChangeSettings \/ ChangeCatalog \/ PurgeAtLogin \/ \E s \in Sizings : DeleteSizing(s)
    BY <1>6 DEF ChangeSettings, ChangeCatalog, PurgeAtLogin, DeleteSizing, sizingVars
<1>7. CASE UNCHANGED vars
    BY <1>7 DEF vars, sizingVars
<1>8. CASE Administration
    BY <1>2, <1>3, <1>6, <1>8 DEF Administration
<1> QED BY <1>4, <1>5, <1>7, <1>8 DEF Next

LEMMA LinkStep == LinkInv /\ [Next]_vars => LinkInv'
<1> SUFFICES ASSUME LinkInv, [Next]_vars PROVE LinkInv'
    OBVIOUS
<1>1. TypeOK /\ TypeOK'
    BY TypeStep DEF LinkInv
<1>2. SourcesAreDigested'
    BY <1>1, WatchedStep DEF LinkInv, SourcesAreDigested, TypeOK
<1> QED BY <1>1, <1>2 DEF LinkInv

LEMMA ChangeIsNoticed ==
    ASSUME LinkInv, [Next]_vars, NEW t \in Sizings, Fresh(t), Fresh(t)'
    PROVE  result'[t] = result[t] => Watched(t)' = Watched(t)
<1>1. TypeOK /\ SourcesAreDigested /\ TypeOK' /\ SourcesAreDigested'
    BY LinkStep DEF LinkInv
<1>2. CASE UNCHANGED <<payload, digest, link>>
    BY <1>2 DEF Watched, Inbound
<1>3. ASSUME UNCHANGED cacheVars, NEW s \in Sizings,
             \A u \in Sizings \ {s} : /\ link'[u] = link[u] /\ payload'[u] = payload[u]
      PROVE  Watched(t)' = Watched(t)
    <2>1. fingerprint'[t].inbound = fingerprint[t].inbound
        BY <1>3 DEF cacheVars
    <2>2. InboundDigest(t)' = InboundDigest(t)
        BY <2>1 DEF Fresh, Fingerprint
    <2>3. PICK S, S2 : S = Inbound(t) /\ S2 = Inbound(t)'
        OBVIOUS
    <2>4. S \in SUBSET Sizings /\ S2 \in SUBSET Sizings
        BY <2>3 DEF Inbound
    <2>5. Listed(S, digest, link) = Listed(S2, digest', link')
        BY <2>2, <2>3, DigestIsListed DEF InboundDigest, Listed, Place
    <2>6. S \ {s} = S2 \ {s}
        BY <1>3, <2>3 DEF Inbound
    <2>7. S2 = S
        BY <2>4, <2>5, <2>6, ListTellsTheSources
    <2>8. \A u \in S : digest'[u] = digest[u] /\ link'[u].terms = link[u].terms
        BY <2>4, <2>5, <2>7, ListTellsTheEntry
    <2>9. \A u \in S : payload'[u] = payload[u]
        <3>1. \A u \in S : digest[u] = payload[u]
            BY <1>1, <2>3, <2>4 DEF SourcesAreDigested, Inbound
        <3>2. \A u \in S : digest'[u] = payload'[u]
            BY <1>1, <2>3, <2>4, <2>7 DEF SourcesAreDigested, Inbound
        <3> QED BY <2>8, <3>1, <3>2
    <2>10. Watched(t) = [u \in S |-> <<payload[u], link[u].terms>>]
        BY <2>3 DEF Watched
    <2>11. Watched(t)' = [u \in S |-> <<payload'[u], link'[u].terms>>]
        BY <2>3, <2>7 DEF Watched
    <2> QED BY <2>8, <2>9, <2>10, <2>11
<1>4. \/ UNCHANGED <<payload, digest, link>>
      \/ /\ UNCHANGED cacheVars
         /\ \E s \in Sizings : \A u \in Sizings \ {s} :
                link'[u] = link[u] /\ payload'[u] = payload[u]
    BY <1>1, WatchedStep DEF TypeOK
<1> QED BY <1>2, <1>3, <1>4

\* A target's result that was stored before a source's saved inputs, its link or the set
\* of sources changed is not called fresh after it, although the list in the fingerprint
\* names no source (inbound_replication_digest).
THEOREM ChangesReachTheTarget == Spec => InputChangesReachTheTarget
<1>1. Spec => []LinkInv
    BY LinkInit, LinkStep, PTL DEF Spec
<1>2. LinkInv /\ [Next]_vars =>
        [\A t \in Sizings :
            Fresh(t) /\ result'[t] = result[t] /\ Watched(t)' # Watched(t) => ~Fresh(t)']_vars
    BY ChangeIsNoticed
<1> QED BY <1>1, <1>2, PTL DEF Spec, InputChangesReachTheTarget
=============================================================================
