--------------------------- MODULE HclReviewProofs ---------------------------
(***************************************************************************)
(* Theorems of HclReview: whatever scrapes, imports, time-outs, crashes,   *)
(* decisions, acceptances and withdrawals come in whatever order, what the *)
(* queue offers is from the last look at its entity, offers nothing that   *)
(* would retract a part accepted ahead of publication, and, once approved, *)
(* has brought the catalog to what the site lists.                         *)
(*                                                                         *)
(* First what one approval does to a catalog, then the invariant and what  *)
(* approvals keep of it, a whole batch of them by its least counterexample,*)
(* then one lemma for each step, and the theorems last.                    *)
(***************************************************************************)
EXTENDS HclReview, TLAPS, FiniteSetTheorems, WellFoundedInduction

Parts == [status : Status, text : Texts, tce : BOOLEAN, origin : Origin]
Edges == [status : Status, tce : BOOLEAN, origin : Origin]
RowRecords(rs) == [run : DOMAIN rs, ent : Components \cup Platforms, kind : Kinds,
                   field : Fields, status : {"pending", "approved", "rejected"}]

\* A catalog with its queue.
Catalogs(rs) == [comp : [Components -> Parts], plat : [Platforms -> Status],
                 link : [Platforms -> [Components -> Edges]], rows : SUBSET RowRecords(rs)]

\* The same row, whatever was decided.
SameRow(y, z) == y.run = z.run /\ y.ent = z.ent /\ y.kind = z.kind /\ y.field = z.field

-----------------------------------------------------------------------------
(* The operators that apply_change is made of. *)

LEMMA EntitiesDiffer == \A c \in Components, p \in Platforms : c # p
BY ReviewAssumption

LEMMA SnapTypes ==
    ASSUME NEW s \in Snapshots
    PROVE  /\ \A p \in Platforms, c \in Components :
                 /\ Lists(s, p, c) \in BOOLEAN /\ Marked(s, p, c) \in BOOLEAN
                 /\ Lists(s, p, c) => p \in Paged(s) /\ c \in Found(s)
           /\ \A c \in Components : s.text[c] \in Texts /\ TceOf(s, c) \in BOOLEAN
           /\ s.complete \in BOOLEAN
BY DEF Snapshots, Lists, Marked, Paged, Found, TceOf

LEMMA EnsuredIs ==
    ASSUME NEW x \in Parts, NEW text \in Texts, NEW tce \in BOOLEAN, NEW origin \in Origin
    PROVE  LET y == Ensured(x, text, tce, origin) IN
           /\ y \in Parts /\ y.status = "active"
           /\ x.status = "active" => y.text = x.text /\ y.origin = x.origin
           /\ x.status # "active" => y.text = text /\ y.origin = origin
BY DEF Ensured, Parts, Status

LEMMA RetiredIs ==
    ASSUME NEW x \in Edges
    PROVE  LET y == Retired(x) IN
           /\ y \in Edges /\ y.origin = x.origin
           /\ y.status = "active" <=> x.status = "active" /\ x.origin = "preview"
BY DEF Retired, Edges, Status

LEMMA AutoApprovedIs ==
    ASSUME NEW rs, NEW d \in Catalogs(rs), NEW listed \in SUBSET Components, NEW x \in d.rows
    PROVE  LET y == AutoApproved(x, d, listed) IN
           /\ y \in RowRecords(rs) /\ SameRow(y, x)
           /\ \/ y = x
              \/ /\ x.status = "pending" /\ y.status = "approved"
                 /\ x.ent \in listed /\ d.comp[x.ent].status # "active"
<1>1. x \in RowRecords(rs) /\ d.comp \in [Components -> Parts]
  BY DEF Catalogs
<1>2. CASE AutoApproved(x, d, listed) = x
  BY <1>1, <1>2 DEF SameRow
<1>3. CASE AutoApproved(x, d, listed) # x
  <2>1. /\ AutoApproved(x, d, listed) = [x EXCEPT !.status = "approved"]
        /\ x.status = "pending" /\ x.ent \in listed
        /\ x.kind = (CASE d.comp[x.ent].status = "none" -> "add"
                      [] d.comp[x.ent].status = "delisted" -> "relist"
                      [] OTHER -> "")
    BY <1>3 DEF AutoApproved
  <2>2. x.kind # ""
    BY <1>1 DEF RowRecords, Kinds
  <2>3. d.comp[x.ent].status # "active"
    BY <2>1, <2>2
  <2>4. [x EXCEPT !.status = "approved"] \in RowRecords(rs) /\ SameRow([x EXCEPT !.status = "approved"], x)
        /\ [x EXCEPT !.status = "approved"].status = "approved"
    BY <1>1 DEF RowRecords, SameRow
  <2> QED BY <2>1, <2>3, <2>4
<1> QED BY <1>2, <1>3

\* What approving a platform's list of parts does.
Synced(rs, d, e, p, s) ==
    /\ e \in Catalogs(rs)
    /\ \A c \in Components : Lists(s, p, c) =>
          /\ e.comp[c].status = "active"
          /\ d.comp[c].status = "active" => e.comp[c].text = d.comp[c].text /\ e.comp[c].origin = d.comp[c].origin
          /\ d.comp[c].status # "active" => e.comp[c].text = s.text[c] /\ e.comp[c].origin = "scrape"
          /\ e.link[p][c].status = "active" /\ e.link[p][c].origin = d.link[p][c].origin
    /\ \A c \in Components : ~Lists(s, p, c) =>
          /\ e.comp[c] = d.comp[c]
          /\ e.link[p][c].origin = d.link[p][c].origin
          /\ e.link[p][c].status = "active" <=> d.link[p][c].status = "active" /\ d.link[p][c].origin = "preview"
    /\ \A q \in Platforms \ {p} : e.link[q] = d.link[q]
    /\ \A y \in e.rows : y \in d.rows \/ (y.status = "approved" /\ \E z \in d.rows : SameRow(y, z))
    /\ \A z \in d.rows : z \in e.rows \/
          (z.status = "pending" /\ z.ent \in Components /\ Lists(s, p, z.ent) /\ d.comp[z.ent].status # "active")

LEMMA SyncLinksIs ==
    ASSUME NEW rs, NEW d \in Catalogs(rs), NEW p \in Platforms, NEW s \in Snapshots
    PROVE  Synced(rs, d, SyncLinks(d, p, s), p, s) /\ SyncLinks(d, p, s).plat = d.plat
<1> DEFINE listed == {c \in Components : Lists(s, p, c)}
           edge(c) == IF c \notin listed THEN Retired(d.link[p][c])
                      ELSE [status |-> "active", tce |-> Marked(s, p, c), origin |-> d.link[p][c].origin]
           part(c) == IF c \notin listed THEN d.comp[c]
                      ELSE Ensured(d.comp[c], s.text[c], Marked(s, p, c), "scrape")
           e == [comp |-> [c \in Components |-> part(c)], plat |-> d.plat,
                 link |-> [d.link EXCEPT ![p] = [c \in Components |-> edge(c)]],
                 rows |-> {AutoApproved(x, d, listed) : x \in d.rows}]
<1>1. SyncLinks(d, p, s) = e
  BY DEF SyncLinks
<1>2. /\ d.comp \in [Components -> Parts] /\ d.plat \in [Platforms -> Status]
      /\ d.link \in [Platforms -> [Components -> Edges]] /\ d.rows \subseteq RowRecords(rs)
  BY DEF Catalogs
<1>3. \A c \in Components :
        /\ Lists(s, p, c) \in BOOLEAN /\ Marked(s, p, c) \in BOOLEAN /\ s.text[c] \in Texts
        /\ d.comp[c] \in Parts /\ d.link[p][c] \in Edges
  BY <1>2, SnapTypes
<1>4. ASSUME NEW c \in Components, Lists(s, p, c)
      PROVE  /\ part(c) \in Parts /\ part(c).status = "active"
             /\ d.comp[c].status = "active" => part(c).text = d.comp[c].text /\ part(c).origin = d.comp[c].origin
             /\ d.comp[c].status # "active" => part(c).text = s.text[c] /\ part(c).origin = "scrape"
             /\ edge(c) \in Edges /\ edge(c).status = "active" /\ edge(c).origin = d.link[p][c].origin
  <2>1. part(c) = Ensured(d.comp[c], s.text[c], Marked(s, p, c), "scrape")
    BY <1>4
  <2>2. edge(c) = [status |-> "active", tce |-> Marked(s, p, c), origin |-> d.link[p][c].origin]
    BY <1>4
  <2>3. "scrape" \in Origin
    BY DEF Origin
  <2>4. /\ part(c) \in Parts /\ part(c).status = "active"
        /\ d.comp[c].status = "active" => part(c).text = d.comp[c].text /\ part(c).origin = d.comp[c].origin
        /\ d.comp[c].status # "active" => part(c).text = s.text[c] /\ part(c).origin = "scrape"
    <3> HIDE DEF part
    <3> QED BY <1>3, <2>1, <2>3, EnsuredIs
  <2>5. edge(c) \in Edges /\ edge(c).status = "active" /\ edge(c).origin = d.link[p][c].origin
    <3> HIDE DEF edge
    <3> QED BY <1>3, <2>2 DEF Edges, Status
  <2> QED BY <2>4, <2>5
<1>5. ASSUME NEW c \in Components, ~Lists(s, p, c)
      PROVE  /\ part(c) = d.comp[c] /\ edge(c) \in Edges /\ edge(c).origin = d.link[p][c].origin
             /\ edge(c).status = "active" <=> d.link[p][c].status = "active" /\ d.link[p][c].origin = "preview"
  <2>1. part(c) = d.comp[c] /\ edge(c) = Retired(d.link[p][c])
    BY <1>5
  <2> HIDE DEF part, edge
  <2> QED BY <1>3, <2>1, RetiredIs
<1> HIDE DEF part, edge
<1>6. \A c \in Components : part(c) \in Parts /\ edge(c) \in Edges
  BY <1>3, <1>4, <1>5
<1>7. listed \in SUBSET Components
  OBVIOUS
<1>8. \A x \in d.rows : LET y == AutoApproved(x, d, listed) IN
           /\ y \in RowRecords(rs) /\ SameRow(y, x)
           /\ \/ y = x
              \/ /\ x.status = "pending" /\ y.status = "approved"
                 /\ x.ent \in listed /\ d.comp[x.ent].status # "active"
  <2> HIDE DEF listed
  <2> QED BY <1>7, AutoApprovedIs
<1>9. /\ e.comp = [c \in Components |-> part(c)] /\ e.plat = d.plat
      /\ e.link = [d.link EXCEPT ![p] = [c \in Components |-> edge(c)]]
      /\ e.rows = {AutoApproved(x, d, listed) : x \in d.rows}
  OBVIOUS
<1>10. e = [comp |-> e.comp, plat |-> e.plat, link |-> e.link, rows |-> e.rows]
  BY <1>9
<1> HIDE DEF e
<1>11. e.rows \in SUBSET RowRecords(rs)
  BY <1>8, <1>9
<1>12. e.comp \in [Components -> Parts] /\ e.link \in [Platforms -> [Components -> Edges]]
  BY <1>2, <1>6, <1>9
<1>13. e \in Catalogs(rs)
  BY <1>2, <1>9, <1>10, <1>11, <1>12 DEF Catalogs
<1>14. \A c \in Components : e.comp[c] = part(c) /\ e.link[p][c] = edge(c)
  BY <1>2, <1>9
<1>15. \A q \in Platforms \ {p} : e.link[q] = d.link[q]
  BY <1>2, <1>9
<1>16. \A y \in e.rows : y \in d.rows \/ (y.status = "approved" /\ \E z \in d.rows : SameRow(y, z))
  BY <1>8, <1>9
<1>17. \A z \in d.rows : z \in e.rows \/
          (z.status = "pending" /\ z.ent \in Components /\ Lists(s, p, z.ent) /\ d.comp[z.ent].status # "active")
  <2>1. SUFFICES ASSUME NEW z \in d.rows
                 PROVE  z \in e.rows \/ (z.status = "pending" /\ z.ent \in listed /\ d.comp[z.ent].status # "active")
    OBVIOUS
  <2>2. AutoApproved(z, d, listed) \in e.rows
    BY <1>9
  <2> HIDE DEF listed
  <2> QED BY <2>2, <1>8
<1> HIDE DEF listed
<1>18. Synced(rs, d, e, p, s) /\ e.plat = d.plat
  BY <1>4, <1>5, <1>9, <1>13, <1>14, <1>15, <1>16, <1>17 DEF Synced
<1> QED BY <1>1, <1>18

\* What run s may have found of the entity of the row x.
Shape(x, s) ==
    /\ x.ent \in Platforms =>
          \/ x.kind \in {"add", "relist"} /\ x.field = "" /\ x.ent \in Paged(s)
          \/ x.kind = "update" /\ x.field = "components" /\ x.ent \in Paged(s)
          \/ x.kind = "delist" /\ x.field = "" /\ s.complete /\ x.ent \notin Paged(s)
    /\ x.ent \in Components =>
          \/ x.kind \in {"add", "relist"} /\ x.field = "" /\ x.ent \in Found(s)
          \/ x.kind = "update" /\ x.field \in {"description", "tce"} /\ x.ent \in Found(s)
          \/ x.kind = "delist" /\ x.field = "" /\ s.complete /\ x.ent \notin Found(s)

LEMMA ListRowIs ==
    ASSUME NEW d \in Catalogs(runs), NEW x, x.ent \in Platforms, x.kind \in {"add", "relist", "update"},
           NEW s \in Snapshots
    PROVE  LET e == ApplyPlatform(d, x, s) IN
           /\ Synced(runs, d, e, x.ent, s)
           /\ e.plat = IF x.kind = "update" THEN d.plat ELSE [d.plat EXCEPT ![x.ent] = "active"]
<1> DEFINE f == SyncLinks(d, x.ent, s)
<1>1. Synced(runs, d, f, x.ent, s) /\ f.plat = d.plat
  BY SyncLinksIs
<1>2. CASE x.kind = "update"
  BY <1>1, <1>2 DEF ApplyPlatform
<1>3. CASE x.kind # "update"
  <2> DEFINE e == [f EXCEPT !.plat[x.ent] = "active"]
  <2>1. ApplyPlatform(d, x, s) = e
    BY <1>3 DEF ApplyPlatform
  <2> HIDE DEF f
  <2>2. f \in Catalogs(runs)
    BY <1>1 DEF Synced
  <2>3. /\ e \in Catalogs(runs) /\ e.comp = f.comp /\ e.link = f.link /\ e.rows = f.rows
        /\ e.plat = [f.plat EXCEPT ![x.ent] = "active"]
    BY <2>2 DEF Catalogs, Status
  <2> HIDE DEF e
  <2>4. Synced(runs, d, e, x.ent, s)
    BY <1>1, <2>3 DEF Synced
  <2> QED BY <1>1, <1>3, <2>1, <2>3, <2>4
<1> QED BY <1>2, <1>3

LEMMA DelistRowIs ==
    ASSUME NEW d \in Catalogs(runs), NEW x, x.ent \in Platforms, x.kind = "delist", NEW s
    PROVE  LET e == ApplyPlatform(d, x, s) IN
           /\ e \in Catalogs(runs) /\ e.comp = d.comp /\ e.rows = d.rows
           /\ e.plat = [d.plat EXCEPT ![x.ent] = "delisted"]
           /\ \A c \in Components : e.link[x.ent][c].status # "active"
           /\ \A q \in Platforms \ {x.ent} : e.link[q] = d.link[q]
<1> DEFINE off == [c \in Components |->
                      IF d.link[x.ent][c].status = "active"
                      THEN [d.link[x.ent][c] EXCEPT !.status = "delisted"] ELSE d.link[x.ent][c]]
           e == [d EXCEPT !.plat[x.ent] = "delisted", !.link[x.ent] = off]
<1>1. ApplyPlatform(d, x, s) = e
  BY DEF ApplyPlatform
<1>2. d.link[x.ent] \in [Components -> Edges]
  BY DEF Catalogs
<1>3. off \in [Components -> Edges] /\ \A c \in Components : off[c].status # "active"
  BY <1>2 DEF Edges, Status
<1> HIDE DEF off
<1>4. /\ e \in Catalogs(runs) /\ e.comp = d.comp /\ e.rows = d.rows
      /\ e.plat = [d.plat EXCEPT ![x.ent] = "delisted"] /\ e.link = [d.link EXCEPT ![x.ent] = off]
  BY <1>3 DEF Catalogs, Status
<1> HIDE DEF e
<1> QED BY <1>1, <1>3, <1>4 DEF Catalogs

\* What approving a row of the part c does.
PartIs(d, e, x, s) ==
    LET c == x.ent IN
    /\ e \in Catalogs(runs) /\ e.plat = d.plat /\ e.rows = d.rows
    /\ \A p \in Platforms, k \in Components :
          e.link[p][k].status = d.link[p][k].status /\ e.link[p][k].origin = d.link[p][k].origin
    /\ \A k \in Components \ {c} : e.comp[k] = d.comp[k]
    /\ x.kind \in {"add", "relist"} =>
          /\ e.comp[c].status = "active" /\ e.comp[c].text = s.text[c]
          /\ d.comp[c].status = "active" => e.comp[c].origin = d.comp[c].origin
    /\ x.kind = "delist" => e.comp[c].status = "delisted"
    /\ x.kind = "update" =>
          /\ e.comp[c].status = d.comp[c].status /\ e.comp[c].origin = d.comp[c].origin
          /\ e.comp[c].text = IF x.field = "description" THEN s.text[c] ELSE d.comp[c].text

LEMMA FlagIs ==
    ASSUME NEW d \in Catalogs(runs), NEW c \in Components, NEW tce \in BOOLEAN
    PROVE  LET f == FlagSoleLink(d, c, tce) IN
           /\ f \in [Platforms -> [Components -> Edges]]
           /\ \A p \in Platforms, k \in Components :
                 f[p][k].status = d.link[p][k].status /\ f[p][k].origin = d.link[p][k].origin
<1> DEFINE flag(p) == [d.link[p] EXCEPT ![c].tce = tce]
           f == FlagSoleLink(d, c, tce)
<1>1. d.link \in [Platforms -> [Components -> Edges]]
  BY DEF Catalogs
<1>2. ASSUME NEW p \in Platforms
      PROVE  /\ flag(p) \in [Components -> Edges]
             /\ \A k \in Components : /\ flag(p)[k].status = d.link[p][k].status
                                     /\ flag(p)[k].origin = d.link[p][k].origin
  <2>1. d.link[p] \in [Components -> Edges]
    BY <1>1
  <2> DEFINE z == [d.link[p][c] EXCEPT !.tce = tce]
  <2>2. z \in Edges /\ z.status = d.link[p][c].status /\ z.origin = d.link[p][c].origin
    BY <2>1 DEF Edges
  <2>3. flag(p) = [d.link[p] EXCEPT ![c] = z]
    OBVIOUS
  <2> HIDE DEF z, flag
  <2> QED BY <2>1, <2>2, <2>3
<1>3. /\ f = [p \in Platforms |-> f[p]]
      /\ \A p \in Platforms : f[p] = flag(p) \/ f[p] = d.link[p]
  BY DEF FlagSoleLink
<1> HIDE DEF f, flag
<1>4. \A p \in Platforms : f[p] \in [Components -> Edges]
  BY <1>1, <1>2, <1>3
<1>5. f \in [Platforms -> [Components -> Edges]]
  BY <1>3, <1>4
<1> QED BY <1>2, <1>3, <1>5 DEF f

LEMMA PartRowIs ==
    ASSUME NEW d \in Catalogs(runs), NEW x, x.ent \in Components, x.kind \in Kinds,
           IF x.kind = "update" THEN x.field \in {"description", "tce"} ELSE x.field = "",
           NEW s \in Snapshots
    PROVE  PartIs(d, ApplyComponent(d, x, s), x, s)
<1> DEFINE c == x.ent
           e == ApplyComponent(d, x, s)
<1>0. d.comp \in [Components -> Parts] /\ d.comp[c] \in Parts /\ s.text[c] \in Texts /\ TceOf(s, c) \in BOOLEAN
      /\ c \in Components
  BY SnapTypes DEF Catalogs
<1>1. CASE x.kind \in {"add", "relist"}
  <2> DEFINE y == Ensured(d.comp[c], s.text[c], TceOf(s, c), "scrape")
             z == [y EXCEPT !.text = s.text[c]]
  <2>1. e = [d EXCEPT !.comp[c] = z]
    BY <1>1 DEF ApplyComponent
  <2>2. y \in Parts /\ y.status = "active" /\ (d.comp[c].status = "active" => y.origin = d.comp[c].origin)
    <3>1. "scrape" \in Origin
      BY DEF Origin
    <3> QED BY <1>0, <3>1, EnsuredIs
  <2> HIDE DEF y
  <2>3. z \in Parts /\ z.status = "active" /\ z.text = s.text[c] /\ z.origin = y.origin
    BY <1>0, <2>2 DEF Parts
  <2> HIDE DEF z, e
  <2>4. /\ e \in Catalogs(runs) /\ e.plat = d.plat /\ e.rows = d.rows /\ e.link = d.link
        /\ e.comp = [d.comp EXCEPT ![c] = z]
    BY <2>1, <2>3 DEF Catalogs
  <2>5. e.comp[c] = z /\ \A k \in Components \ {c} : e.comp[k] = d.comp[k]
    BY <1>0, <2>4
  <2>6. PartIs(d, e, x, s)
    BY <1>1, <2>2, <2>3, <2>4, <2>5 DEF PartIs
  <2> QED BY <2>6 DEF e
<1>2. CASE x.kind = "delist"
  <2>1. e = [d EXCEPT !.comp[c].status = "delisted"]
    BY <1>2 DEF ApplyComponent
  <2> DEFINE z == [d.comp[c] EXCEPT !.status = "delisted"]
  <2>2. z \in Parts /\ z.status = "delisted"
    BY <1>0 DEF Parts, Status
  <2>3. e = [d EXCEPT !.comp[c] = z]
    BY <2>1
  <2> HIDE DEF z, e
  <2>4. /\ e \in Catalogs(runs) /\ e.plat = d.plat /\ e.rows = d.rows /\ e.link = d.link
        /\ e.comp = [d.comp EXCEPT ![c] = z]
    BY <2>3, <2>2 DEF Catalogs
  <2>5. e.comp[c] = z /\ \A k \in Components \ {c} : e.comp[k] = d.comp[k]
    BY <1>0, <2>4
  <2>6. PartIs(d, e, x, s)
    BY <1>2, <2>2, <2>4, <2>5 DEF PartIs
  <2> QED BY <2>6 DEF e
<1>3. CASE x.kind = "update" /\ x.field = "description"
  <2> DEFINE z == [d.comp[c] EXCEPT !.text = s.text[c]]
  <2>1. e = [d EXCEPT !.comp[c].text = s.text[c]]
    BY <1>3 DEF ApplyComponent
  <2>2. z \in Parts /\ z.status = d.comp[c].status /\ z.origin = d.comp[c].origin /\ z.text = s.text[c]
    BY <1>0 DEF Parts
  <2>3. e = [d EXCEPT !.comp[c] = z]
    BY <2>1
  <2> HIDE DEF z, e
  <2>4. /\ e \in Catalogs(runs) /\ e.plat = d.plat /\ e.rows = d.rows /\ e.link = d.link
        /\ e.comp = [d.comp EXCEPT ![c] = z]
    BY <2>3, <2>2 DEF Catalogs
  <2>5. e.comp[c] = z /\ \A k \in Components \ {c} : e.comp[k] = d.comp[k]
    BY <1>0, <2>4
  <2>6. PartIs(d, e, x, s)
    BY <1>3, <2>2, <2>4, <2>5 DEF PartIs
  <2> QED BY <2>6 DEF e
<1>4. CASE x.kind = "update" /\ x.field = "tce"
  <2> DEFINE z == [d.comp[c] EXCEPT !.tce = TceOf(s, c)]
             flagged == FlagSoleLink(d, c, TceOf(s, c))
  <2>1. e = [d EXCEPT !.comp[c].tce = TceOf(s, c), !.link = flagged]
    BY <1>4 DEF ApplyComponent
  <2>2. z \in Parts /\ z.status = d.comp[c].status /\ z.origin = d.comp[c].origin /\ z.text = d.comp[c].text
    BY <1>0 DEF Parts
  <2>3. /\ flagged \in [Platforms -> [Components -> Edges]]
        /\ \A p \in Platforms, k \in Components :
              flagged[p][k].status = d.link[p][k].status /\ flagged[p][k].origin = d.link[p][k].origin
    <3> HIDE DEF flagged
    <3>1. TceOf(s, c) \in BOOLEAN /\ c \in Components
      BY <1>0
    <3> QED BY <3>1, FlagIs DEF flagged
  <2>4. e = [d EXCEPT !.comp[c] = z, !.link = flagged]
    BY <2>1
  <2> HIDE DEF z, e, flagged
  <2>5. /\ e \in Catalogs(runs) /\ e.plat = d.plat /\ e.rows = d.rows /\ e.link = flagged
        /\ e.comp = [d.comp EXCEPT ![c] = z]
    BY <2>4, <2>2, <2>3 DEF Catalogs
  <2>6. e.comp[c] = z /\ \A k \in Components \ {c} : e.comp[k] = d.comp[k]
    BY <1>0, <2>5
  <2>7. PartIs(d, e, x, s)
    BY <1>4, <2>2, <2>3, <2>5, <2>6 DEF PartIs
  <2> QED BY <2>7 DEF e
<1> QED BY <1>1, <1>2, <1>3, <1>4 DEF Kinds

-----------------------------------------------------------------------------
(* The invariant, of a catalog with its queue d, the runs rs, the runs built bs   *)
(* and, of these, the last one b while the catalog follows it.                    *)

RunRecords == [status : {"queued", "running", "succeeded", "failed"},
               pc : {"start", "fetch", "check", "build", "end"}, snap : Snapshots]

\* The rows on offer.
Pending(d) == {x \in d.rows : x.status = "pending"}

\* A row is of a run that was built, and of the kind that run's snapshot asks for.
RowsInv(d, rs, bs) ==
    \A x \in d.rows : Shape(x, rs[x.run].snap) /\ \E n \in DOMAIN bs : bs[n] = x.run

\* A row on offer is from the last run that looked at its entity.
LookInv(d, rs, bs) ==
    \A x \in Pending(d) : \A n \in DOMAIN bs : (\E k \in 1..(n - 1) : bs[k] = x.run) =>
        ~rs[bs[n]].snap.complete /\ x.ent \notin Paged(rs[bs[n]].snap) \cup Found(rs[bs[n]].snap)

\* A run is built once; the one that the catalog follows was built last.
BuildsInv(rs, bs, b) ==
    /\ \A n \in DOMAIN bs : rs[bs[n]].pc = "end"
    /\ b # 0 => Len(bs) # 0 /\ b = bs[Len(bs)] /\ rs[b].snap.complete

\* What is on offer was made for what is there.
OfferInv(d) ==
    /\ \A x \in Pending(d) : x.kind = "delist" /\ x.ent \in Components =>
           d.comp[x.ent].status = "active" /\ d.comp[x.ent].origin = "scrape"
    /\ \A x \in Pending(d) : x.kind = "update" /\ x.ent \in Platforms => d.plat[x.ent] = "active"
    /\ \A p \in Platforms : d.plat[p] # "active" =>
           \A c \in Components : d.link[p][c].status # "active"

\* A row of run b for the entity e waits, or was rejected; one of its badge aside.
Open(d, b, e) ==
    \E x \in d.rows : x.run = b /\ x.ent = e /\ x.status # "approved" /\ x.field # "tce"

\* Whatever of the snapshot s of run b is not in the catalog is among its rows.
PlatMirrors(d, s, p) ==
    /\ d.plat[p] = "active" <=> p \in Paged(s)
    /\ \A c \in Components :
          d.link[p][c].status = "active" <=> Lists(s, p, c)
             \/ (d.link[p][c].status = "active" /\ d.link[p][c].origin = "preview")
PartMirrors(d, s, c) ==
    IF c \in Found(s) THEN d.comp[c].status = "active" /\ d.comp[c].text = s.text[c]
    ELSE d.comp[c].status = "active" => d.comp[c].origin = "preview"
\* An approved row has done its work, and no row on offer can undo it.
MirrorInv(d, s, b) ==
    /\ \A c \in Components : Open(d, b, c) \/ PartMirrors(d, s, c)
    /\ \A p \in Platforms : Open(d, b, p) \/ PlatMirrors(d, s, p)
    /\ \A x \in Pending(d) : x.run = b /\ x.kind = "update" /\ x.ent \in Components =>
           d.comp[x.ent].status = "active"

ReviewInv(d, rs, bs, b, ag) ==
    /\ RowsInv(d, rs, bs) /\ LookInv(d, rs, bs) /\ BuildsInv(rs, bs, b)
    /\ ~ag => OfferInv(d)
    /\ ~ag /\ b # 0 => MirrorInv(d, rs[b].snap, b)

-----------------------------------------------------------------------------
(* What the rows on offer have in common. *)

LEMMA SameRowEqual ==
    ASSUME NEW rs, NEW x \in RowRecords(rs), NEW y \in RowRecords(rs), SameRow(x, y),
           x.status = y.status
    PROVE  x = y
BY DEF RowRecords, SameRow

\* Rows on offer for one entity are of one run.
LEMMA OneRunOffers ==
    ASSUME NEW rs \in Seq(RunRecords), NEW bs \in Seq(DOMAIN rs), NEW d \in Catalogs(rs),
           RowsInv(d, rs, bs), LookInv(d, rs, bs),
           NEW x \in Pending(d), NEW y \in Pending(d), x.ent = y.ent
    PROVE  x.run = y.run
<1>1. x \in d.rows /\ y \in d.rows
  BY DEF Pending
<1>2. PICK i \in DOMAIN bs : bs[i] = x.run
  BY <1>1 DEF RowsInv
<1>3. PICK j \in DOMAIN bs : bs[j] = y.run
  BY <1>1 DEF RowsInv
<1>4. i \in 1..Len(bs) /\ j \in 1..Len(bs)
  OBVIOUS
<1>5. ASSUME NEW u \in Pending(d)
      PROVE  rs[u.run].snap.complete \/ u.ent \in Paged(rs[u.run].snap) \cup Found(rs[u.run].snap)
  <2>1. u \in d.rows /\ u.ent \in Components \cup Platforms
    BY DEF Pending, Catalogs, RowRecords
  <2>2. Shape(u, rs[u.run].snap)
    BY <2>1 DEF RowsInv
  <2> QED BY <2>1, <2>2 DEF Shape
<1>6. CASE i < j
  <2>1. i \in 1..(j - 1)
    BY <1>4, <1>6
  <2> QED BY <1>2, <1>3, <1>5, <2>1 DEF LookInv
<1>7. CASE j < i
  <2>1. j \in 1..(i - 1)
    BY <1>4, <1>7
  <2> QED BY <1>2, <1>3, <1>5, <2>1 DEF LookInv
<1> QED BY <1>2, <1>3, <1>4, <1>6, <1>7

\* While the catalog follows a complete run, all that is on offer is of that run.
LEMMA OffersAreOfTheBase ==
    ASSUME NEW rs \in Seq(RunRecords), NEW bs \in Seq(DOMAIN rs), NEW d \in Catalogs(rs),
           RowsInv(d, rs, bs), LookInv(d, rs, bs), NEW b, BuildsInv(rs, bs, b), b # 0,
           NEW x \in Pending(d)
    PROVE  x.run = b
<1>1. x \in d.rows
  BY DEF Pending
<1>2. PICK n \in DOMAIN bs : bs[n] = x.run
  BY <1>1 DEF RowsInv
<1>3. Len(bs) # 0 /\ b = bs[Len(bs)] /\ rs[b].snap.complete
  BY DEF BuildsInv
<1>4. n \in 1..Len(bs) /\ Len(bs) \in DOMAIN bs
  BY <1>3
<1>5. CASE n < Len(bs)
  <2>1. n \in 1..(Len(bs) - 1)
    BY <1>4, <1>5
  <2> QED BY <1>2, <1>3, <1>4, <2>1 DEF LookInv
<1> QED BY <1>2, <1>3, <1>4, <1>5

-----------------------------------------------------------------------------
(* One approval. *)

\* What approving the row x, of a run with snapshot s, leaves of the queue.
RowsAfter(d, e, x, s) ==
    /\ \A y \in e.rows : (y \in d.rows /\ y # x)
                         \/ (y.status = "approved" /\ \E z \in d.rows : SameRow(y, z))
    /\ \A z \in d.rows \ {x} : z \in e.rows \/
          /\ x.ent \in Platforms /\ z.status = "pending" /\ z.ent \in Components
          /\ Lists(s, x.ent, z.ent) /\ d.comp[z.ent].status # "active"

\* The row x, of snapshot s, is applied to d and gives the catalog of a.
Applied(d, a, x, s) ==
    \/ /\ x.ent \in Platforms /\ x.kind \in {"add", "relist", "update"} /\ Synced(runs, d, a, x.ent, s)
       /\ a.plat = IF x.kind = "update" THEN d.plat ELSE [d.plat EXCEPT ![x.ent] = "active"]
    \/ /\ x.ent \in Platforms /\ x.kind = "delist"
       /\ a \in Catalogs(runs) /\ a.comp = d.comp /\ a.rows = d.rows
       /\ a.plat = [d.plat EXCEPT ![x.ent] = "delisted"]
       /\ \A c \in Components : a.link[x.ent][c].status # "active"
       /\ \A q \in Platforms \ {x.ent} : a.link[q] = d.link[q]
    \/ x.ent \in Components /\ PartIs(d, a, x, s)

LEMMA ApplyIs ==
    ASSUME NEW d \in Catalogs(runs), NEW x \in d.rows, runs \in Seq(RunRecords),
           Shape(x, runs[x.run].snap)
    PROVE  Applied(d, Apply(d, x), x, runs[x.run].snap)
<1> DEFINE s == runs[x.run].snap
<1>1. x \in RowRecords(runs)
  BY DEF Catalogs
<1>2. s \in Snapshots
  <2>1. x.run \in DOMAIN runs
    BY <1>1 DEF RowRecords
  <2>2. runs[x.run] \in RunRecords
    BY <2>1
  <2> QED BY <2>2 DEF RunRecords
<1>3. x.kind \in Kinds /\ x.ent \in Components \cup Platforms
  BY <1>1 DEF RowRecords
<1> HIDE DEF s
<1>4. CASE x.ent \in Platforms /\ x.kind # "delist"
  <2>1. Apply(d, x) = ApplyPlatform(d, x, s)
    BY <1>4 DEF Apply, s
  <2>2. x.kind \in {"add", "relist", "update"}
    BY <1>3, <1>4 DEF Kinds
  <2>3. Applied(d, Apply(d, x), x, s)
    BY <1>2, <1>4, <2>1, <2>2, ListRowIs DEF Applied
  <2> QED BY <2>3 DEF s
<1>5. CASE x.ent \in Platforms /\ x.kind = "delist"
  <2>1. Apply(d, x) = ApplyPlatform(d, x, s)
    BY <1>5 DEF Apply, s
  <2>2. Applied(d, Apply(d, x), x, s)
    BY <1>5, <2>1, DelistRowIs DEF Applied
  <2> QED BY <2>2 DEF s
<1>6. CASE x.ent \in Components
  <2>1. x.ent \notin Platforms
    BY <1>6, EntitiesDiffer
  <2>2. Apply(d, x) = ApplyComponent(d, x, s)
    BY <2>1 DEF Apply, s
  <2>3. IF x.kind = "update" THEN x.field \in {"description", "tce"} ELSE x.field = ""
    BY <1>6 DEF Shape
  <2>4. PartIs(d, Apply(d, x), x, s)
    BY <1>2, <1>3, <1>6, <2>2, <2>3, PartRowIs
  <2>5. Applied(d, Apply(d, x), x, s)
    BY <1>6, <2>4 DEF Applied
  <2> QED BY <2>5 DEF s
<1> QED BY <1>3, <1>4, <1>5, <1>6

LEMMA ApprovedIs ==
    ASSUME NEW d \in Catalogs(runs), NEW x \in d.rows, runs \in Seq(RunRecords),
           Shape(x, runs[x.run].snap)
    PROVE  LET s == runs[x.run].snap
               e == Approved(d, x)
           IN  /\ e \in Catalogs(runs) /\ RowsAfter(d, e, x, s)
               /\ \E a : /\ e.comp = a.comp /\ e.plat = a.plat /\ e.link = a.link
                         /\ Applied(d, a, x, s)
<1> DEFINE s == runs[x.run].snap
           a == Apply(d, x)
           y == [x EXCEPT !.status = "approved"]
           e == [a EXCEPT !.rows = (@ \ {x}) \cup {y}]
<1>1. Approved(d, x) = e
  BY DEF Approved
<1>2. Applied(d, a, x, s)
  BY ApplyIs
<1>3. x \in RowRecords(runs)
  BY DEF Catalogs
<1>4. y \in RowRecords(runs) /\ y.status = "approved" /\ SameRow(y, x)
  BY <1>3 DEF RowRecords, SameRow
<1> HIDE DEF a, y, s
<1>5. a \in Catalogs(runs)
  BY <1>2 DEF Applied, Synced, PartIs
<1>6. e \in Catalogs(runs) /\ e.comp = a.comp /\ e.plat = a.plat /\ e.link = a.link
      /\ e.rows = (a.rows \ {x}) \cup {y}
  BY <1>4, <1>5 DEF Catalogs
<1> HIDE DEF e
<1>7. \A u \in a.rows : u \in d.rows \/ (u.status = "approved" /\ \E z \in d.rows : SameRow(u, z))
  BY <1>2 DEF Applied, Synced, PartIs
<1>8. \A z \in d.rows : z \in a.rows \/
          /\ x.ent \in Platforms /\ z.status = "pending" /\ z.ent \in Components
          /\ Lists(s, x.ent, z.ent) /\ d.comp[z.ent].status # "active"
  BY <1>2 DEF Applied, Synced, PartIs
<1>9. RowsAfter(d, e, x, s)
  BY <1>4, <1>6, <1>7, <1>8 DEF RowsAfter
<1> QED BY <1>1, <1>2, <1>6, <1>9 DEF s

\* The rows on offer afterwards were on offer before, but for the one approved.
LEMMA OffersShrink ==
    ASSUME NEW d \in Catalogs(runs), NEW e \in Catalogs(runs), NEW x, NEW s, RowsAfter(d, e, x, s),
           NEW y \in Pending(e)
    PROVE  y \in Pending(d) /\ y # x
BY DEF RowsAfter, Pending

LEMMA QueueKept ==
    ASSUME NEW d \in Catalogs(runs), NEW e \in Catalogs(runs), NEW x, NEW s, RowsAfter(d, e, x, s),
           RowsInv(d, runs, builds), LookInv(d, runs, builds)
    PROVE  RowsInv(e, runs, builds) /\ LookInv(e, runs, builds)
<1>1. ASSUME NEW y \in e.rows
      PROVE  Shape(y, runs[y.run].snap) /\ \E n \in DOMAIN builds : builds[n] = y.run
  <2>1. PICK z \in d.rows : SameRow(y, z)
    BY DEF RowsAfter, SameRow
  <2>2. Shape(z, runs[z.run].snap) /\ \E n \in DOMAIN builds : builds[n] = z.run
    BY DEF RowsInv
  <2> QED BY <2>1, <2>2 DEF SameRow, Shape
<1>2. \A y \in Pending(e) : y \in Pending(d)
  BY OffersShrink
<1> QED BY <1>1, <1>2 DEF RowsInv, LookInv

\* Approving a row on offer leaves the others made for what is there.
LEMMA OffersKept ==
    ASSUME NEW d \in Catalogs(runs), NEW x \in Pending(d), runs \in Seq(RunRecords),
           builds \in Seq(DOMAIN runs),
           RowsInv(d, runs, builds), LookInv(d, runs, builds), OfferInv(d),
           NEW e \in Catalogs(runs), NEW a, NEW s, s = runs[x.run].snap, RowsAfter(d, e, x, s),
           e.comp = a.comp, e.plat = a.plat, e.link = a.link, Applied(d, a, x, s)
    PROVE  OfferInv(e)
<1>0. x \in d.rows /\ x \in RowRecords(runs) /\ x.status = "pending" /\ Shape(x, s)
  BY DEF Pending, Catalogs, RowsInv
<1>1. ASSUME NEW y \in Pending(e)
      PROVE  /\ y \in Pending(d) /\ y # x /\ y \in RowRecords(runs) /\ y.status = "pending"
             /\ y.ent = x.ent => Shape(y, s) /\ y.run = x.run
  <2>1. y \in Pending(d) /\ y # x
    BY OffersShrink
  <2>2. y \in RowRecords(runs) /\ y.status = "pending" /\ Shape(y, runs[y.run].snap)
    BY <2>1 DEF Pending, Catalogs, RowsInv
  <2>3. y.ent = x.ent => y.run = x.run
    BY <2>1, OneRunOffers
  <2> QED BY <2>1, <2>2, <2>3
<1>2. d.comp \in [Components -> Parts] /\ d.plat \in [Platforms -> Status]
  BY DEF Catalogs
<1>3. ASSUME NEW y \in Pending(e), y.kind = "delist", y.ent \in Components
      PROVE  e.comp[y.ent].status = "active" /\ e.comp[y.ent].origin = "scrape"
  <2> DEFINE c == y.ent
  <2>1. d.comp[c].status = "active" /\ d.comp[c].origin = "scrape"
    BY <1>1, <1>3 DEF OfferInv
  <2>2. CASE x.ent \in Platforms /\ Synced(runs, d, a, x.ent, s)
    BY <1>3, <2>1, <2>2 DEF Synced
  <2>3. CASE x.ent \in Platforms /\ a.comp = d.comp
    BY <1>3, <2>1, <2>3
  <2>4. CASE x.ent \in Components /\ PartIs(d, a, x, s) /\ x.ent # c
    BY <1>3, <2>1, <2>4 DEF PartIs
  <2>5. CASE x.ent \in Components /\ x.ent = c
    <3>1. Shape(y, s) /\ y.run = x.run
      BY <1>1, <2>5
    <3>2. c \notin Found(s) /\ y.field = ""
      BY <1>3, <3>1 DEF Shape
    <3>3. x.kind = "delist" /\ x.field = ""
      BY <1>0, <2>5, <3>2 DEF Shape
    <3>4. SameRow(x, y) /\ x.status = y.status
      BY <1>0, <1>1, <1>3, <2>5, <3>1, <3>2, <3>3 DEF SameRow
    <3> QED BY <1>0, <1>1, <3>4, SameRowEqual
  <2> QED BY <2>2, <2>3, <2>4, <2>5 DEF Applied
<1>4. ASSUME NEW y \in Pending(e), y.kind = "update", y.ent \in Platforms
      PROVE  e.plat[y.ent] = "active"
  <2>1. d.plat[y.ent] = "active"
    BY <1>1, <1>4 DEF OfferInv
  <2>2. CASE a.plat = d.plat \/ a.plat = [d.plat EXCEPT ![x.ent] = "active"]
    BY <1>2, <1>4, <2>1, <2>2
  <2>3. CASE x.ent \in Platforms /\ x.kind = "delist" /\ a.plat = [d.plat EXCEPT ![x.ent] = "delisted"]
    <3>1. y.ent # x.ent
      BY <1>0, <1>1, <1>4, <2>3 DEF Shape
    <3> QED BY <1>2, <1>4, <2>1, <2>3, <3>1
  <2> QED BY <2>2, <2>3 DEF Applied, PartIs
<1>5. ASSUME NEW p \in Platforms, e.plat[p] # "active", NEW c \in Components
      PROVE  e.link[p][c].status # "active"
  <2>1. d.plat[p] # "active" => d.link[p][c].status # "active"
    BY DEF OfferInv
  <2>2. CASE /\ x.ent \in Platforms /\ x.kind \in {"add", "relist", "update"} /\ Synced(runs, d, a, x.ent, s)
             /\ a.plat = IF x.kind = "update" THEN d.plat ELSE [d.plat EXCEPT ![x.ent] = "active"]
    <3>1. x.kind = "update" => d.plat[x.ent] = "active"
      BY <1>0, <2>2 DEF OfferInv
    <3>2. p # x.ent /\ d.plat[p] # "active"
      BY <1>2, <1>5, <2>2, <3>1
    <3>3. a.link[p] = d.link[p]
      BY <2>2, <3>2 DEF Synced
    <3> QED BY <2>1, <3>2, <3>3
  <2>3. CASE /\ x.ent \in Platforms
             /\ a.plat = [d.plat EXCEPT ![x.ent] = "delisted"]
             /\ \A k \in Components : a.link[x.ent][k].status # "active"
             /\ \A q \in Platforms \ {x.ent} : a.link[q] = d.link[q]
    BY <1>2, <1>5, <2>1, <2>3
  <2>4. CASE PartIs(d, a, x, s)
    BY <1>5, <2>1, <2>4 DEF PartIs
  <2> QED BY <2>2, <2>3, <2>4 DEF Applied
<1> QED BY <1>3, <1>4, <1>5 DEF OfferInv

LEMMA OpenStays ==
    ASSUME NEW d \in Catalogs(runs), NEW e \in Catalogs(runs), NEW x, NEW s, RowsAfter(d, e, x, s),
           NEW b, NEW k, Open(d, b, k), x.field # "tce" => x.ent # k,
           x.ent \in Platforms /\ k \in Components /\ Lists(s, x.ent, k) => d.comp[k].status = "active"
    PROVE  Open(e, b, k)
<1>1. PICK z \in d.rows : z.run = b /\ z.ent = k /\ z.status # "approved" /\ z.field # "tce"
  BY DEF Open
<1>2. z # x
  BY <1>1
<1>3. z \in e.rows
  BY <1>1, <1>2 DEF RowsAfter
<1> QED BY <1>1, <1>3 DEF Open

\* Approving a row of the run the catalog follows brings it nearer to the site.
LEMMA MirrorKept ==
    ASSUME NEW d \in Catalogs(runs), NEW x \in Pending(d), runs \in Seq(RunRecords),
           builds \in Seq(DOMAIN runs),
           RowsInv(d, runs, builds), LookInv(d, runs, builds),
           OfferInv(d), MirrorInv(d, runs[x.run].snap, x.run),
           NEW e \in Catalogs(runs), NEW a, NEW s \in Snapshots, s = runs[x.run].snap,
           RowsAfter(d, e, x, s),
           e.comp = a.comp, e.plat = a.plat, e.link = a.link, Applied(d, a, x, s)
    PROVE  MirrorInv(e, s, x.run)
<1> DEFINE b == x.run
<1>0. x \in d.rows /\ x \in RowRecords(runs) /\ x.status = "pending" /\ Shape(x, s)
  BY DEF Pending, Catalogs, RowsInv
<1>1. d.comp \in [Components -> Parts] /\ d.plat \in [Platforms -> Status]
      /\ d.link \in [Platforms -> [Components -> Edges]]
  BY DEF Catalogs
<1>2. MirrorInv(d, s, b)
  OBVIOUS
<1>3. ASSUME NEW c \in Components PROVE Open(e, b, c) \/ PartMirrors(e, s, c)
  <2>1. Open(d, b, c) \/ PartMirrors(d, s, c)
    BY <1>2 DEF MirrorInv
  <2>2. CASE x.ent \in Platforms /\ Synced(runs, d, a, x.ent, s)
    <3>1. x.ent # c
      BY <2>2, EntitiesDiffer
    <3>2. CASE Lists(s, x.ent, c) /\ d.comp[c].status # "active"
      <4>1. c \in Found(s)
        BY <2>2, <3>2, SnapTypes
      <4> QED BY <2>2, <3>2, <4>1 DEF Synced, PartMirrors
    <3>3. CASE ~(Lists(s, x.ent, c) /\ d.comp[c].status # "active") /\ Open(d, b, c)
      BY <3>1, <3>3, OpenStays
    <3>4. CASE ~(Lists(s, x.ent, c) /\ d.comp[c].status # "active") /\ PartMirrors(d, s, c)
      <4>1. /\ e.comp[c].status = d.comp[c].status /\ e.comp[c].text = d.comp[c].text
            /\ e.comp[c].origin = d.comp[c].origin
        <5>1. CASE Lists(s, x.ent, c)
          BY <2>2, <3>4, <5>1 DEF Synced
        <5>2. CASE ~Lists(s, x.ent, c)
          BY <2>2, <5>2 DEF Synced
        <5> QED BY <5>1, <5>2
      <4> QED BY <3>4, <4>1 DEF PartMirrors
    <3> QED BY <2>1, <3>2, <3>3, <3>4
  <2>3. CASE x.ent \in Platforms /\ x.kind = "delist" /\ a.comp = d.comp
    <3>1. x.ent # c
      BY <2>3, EntitiesDiffer
    <3>2. ~Lists(s, x.ent, c)
      BY <1>0, <2>3, SnapTypes DEF Shape
    <3>3. Open(d, b, c) => Open(e, b, c)
      BY <3>1, <3>2, OpenStays
    <3> QED BY <2>1, <2>3, <3>3 DEF PartMirrors
  <2>4. CASE x.ent \in Components /\ PartIs(d, a, x, s) /\ x.ent # c
    <3>1. x.ent \notin Platforms
      BY <2>4, EntitiesDiffer
    <3>2. Open(d, b, c) => Open(e, b, c)
      BY <2>4, <3>1, OpenStays
    <3>3. e.comp[c] = d.comp[c]
      BY <2>4 DEF PartIs
    <3> QED BY <2>1, <3>2, <3>3 DEF PartMirrors
  <2>5. CASE x.ent = c /\ PartIs(d, a, x, s)
    <3>1. x.ent \notin Platforms
      BY <2>5, EntitiesDiffer
    <3>2. CASE x.kind \in {"add", "relist"}
      BY <1>0, <2>5, <3>2 DEF PartIs, Shape, PartMirrors
    <3>3. CASE x.kind = "delist"
      BY <1>0, <2>5, <3>3 DEF PartIs, Shape, PartMirrors
    <3>4. CASE x.kind = "update" /\ x.field = "description"
      <4>1. d.comp[c].status = "active"
        BY <1>2, <2>5, <3>4 DEF MirrorInv
      <4> QED BY <1>0, <2>5, <3>4, <4>1 DEF PartIs, Shape, PartMirrors
    <3>5. CASE x.kind = "update" /\ x.field = "tce"
      <4>1. Open(d, b, c) => Open(e, b, c)
        BY <3>1, <3>5, OpenStays
      <4>2. /\ e.comp[c].status = d.comp[c].status /\ e.comp[c].text = d.comp[c].text
            /\ e.comp[c].origin = d.comp[c].origin
        BY <2>5, <3>5 DEF PartIs
      <4> QED BY <2>1, <4>1, <4>2 DEF PartMirrors
    <3> QED BY <1>0, <2>5, <3>2, <3>3, <3>4, <3>5 DEF Shape
  <2> QED BY <2>2, <2>3, <2>4, <2>5 DEF Applied
<1>4. ASSUME NEW p \in Platforms PROVE Open(e, b, p) \/ PlatMirrors(e, s, p)
  <2>1. Open(d, b, p) \/ PlatMirrors(d, s, p)
    BY <1>2 DEF MirrorInv
  <2>2. p \notin Components
    BY EntitiesDiffer
  <2>3. CASE x.ent # p
    <3>1. Open(d, b, p) => Open(e, b, p)
      BY <2>2, <2>3, OpenStays
    <3>2. a.plat[p] = d.plat[p]
      BY <1>1, <2>3 DEF Applied, PartIs
    <3>3. \A c \in Components : a.link[p][c].status = d.link[p][c].status
                                /\ a.link[p][c].origin = d.link[p][c].origin
      BY <2>3 DEF Applied, PartIs, Synced
    <3> QED BY <2>1, <3>1, <3>2, <3>3 DEF PlatMirrors
  <2>4. CASE /\ x.ent = p /\ x.kind \in {"add", "relist", "update"} /\ Synced(runs, d, a, x.ent, s)
             /\ a.plat = IF x.kind = "update" THEN d.plat ELSE [d.plat EXCEPT ![x.ent] = "active"]
    <3>1. \A c \in Components : a.link[p][c].status = "active" <=> Lists(s, p, c)
                 \/ (a.link[p][c].status = "active" /\ a.link[p][c].origin = "preview")
      BY <2>4 DEF Synced
    <3>2. p \in Paged(s)
      BY <1>0, <2>4 DEF Shape
    <3>3. CASE x.kind # "update"
      BY <1>1, <2>4, <3>1, <3>2, <3>3 DEF PlatMirrors
    <3>4. CASE x.kind = "update"
      <4>1. d.plat[p] = "active"
        BY <2>4, <3>4 DEF OfferInv
      <4> QED BY <2>4, <3>1, <3>2, <3>4, <4>1 DEF PlatMirrors
    <3> QED BY <3>3, <3>4
  <2>5. CASE /\ x.ent = p /\ x.kind = "delist" /\ a.plat = [d.plat EXCEPT ![x.ent] = "delisted"]
             /\ \A c \in Components : a.link[x.ent][c].status # "active"
    <3>1. p \notin Paged(s)
      BY <1>0, <2>5 DEF Shape
    <3>2. \A c \in Components : ~Lists(s, p, c)
      BY <3>1, SnapTypes
    <3> QED BY <1>1, <2>5, <3>1, <3>2 DEF PlatMirrors
  <2> QED BY <2>2, <2>3, <2>4, <2>5 DEF Applied
<1>5. ASSUME NEW y \in Pending(e), y.run = b, y.kind = "update", y.ent \in Components
      PROVE  e.comp[y.ent].status = "active"
  <2>1. y \in Pending(d)
    BY OffersShrink
  <2>2. d.comp[y.ent].status = "active"
    BY <1>2, <1>5, <2>1 DEF MirrorInv
  <2>3. Shape(y, s)
    BY <1>5, <2>1 DEF Pending, RowsInv
  <2>4. CASE x.ent \in Platforms /\ Synced(runs, d, a, x.ent, s)
    BY <1>5, <2>2, <2>4 DEF Synced
  <2>5. CASE a.comp = d.comp
    BY <2>2, <2>5
  <2>6. CASE x.ent \in Components /\ PartIs(d, a, x, s)
    <3>1. x.ent = y.ent => x.kind # "delist"
      BY <1>0, <1>5, <2>3 DEF Shape
    <3>2. x.kind \in Kinds
      BY <1>0 DEF RowRecords
    <3> QED BY <1>5, <2>2, <2>6, <3>1, <3>2 DEF PartIs, Kinds
  <2> QED BY <2>4, <2>5, <2>6 DEF Applied
<1> QED BY <1>3, <1>4, <1>5 DEF MirrorInv

LEMMA BaseGivenUp ==
    ASSUME NEW d, NEW rs, NEW bs, NEW b, NEW ag, ReviewInv(d, rs, bs, b, ag)
    PROVE  ReviewInv(d, rs, bs, 0, ag) /\ ReviewInv(d, rs, bs, 0, TRUE)
BY DEF ReviewInv, BuildsInv

\* Approving any row keeps the queue's own invariant.
LEMMA ApprovedKeepsQueue ==
    ASSUME runs \in Seq(RunRecords), builds \in Seq(DOMAIN runs), NEW d \in Catalogs(runs),
           NEW b, NEW ag, ReviewInv(d, runs, builds, b, ag), NEW x \in d.rows
    PROVE  Approved(d, x) \in Catalogs(runs) /\ ReviewInv(Approved(d, x), runs, builds, 0, TRUE)
<1> DEFINE e == Approved(d, x)
           s == runs[x.run].snap
<1>1. Shape(x, s) /\ RowsInv(d, runs, builds) /\ LookInv(d, runs, builds) /\ BuildsInv(runs, builds, b)
  BY DEF ReviewInv, RowsInv
<1>2. e \in Catalogs(runs) /\ RowsAfter(d, e, x, s)
  BY <1>1, ApprovedIs
<1> HIDE DEF e, s
<1>3. RowsInv(e, runs, builds) /\ LookInv(e, runs, builds)
  BY <1>1, <1>2, QueueKept
<1>4. ReviewInv(e, runs, builds, 0, TRUE)
  BY <1>1, <1>3 DEF ReviewInv, BuildsInv
<1> QED BY <1>2, <1>4 DEF e

\* Approving a row on offer keeps the whole invariant.
LEMMA ApprovedKeeps ==
    ASSUME runs \in Seq(RunRecords), builds \in Seq(DOMAIN runs), NEW d \in Catalogs(runs),
           NEW b, NEW ag \in BOOLEAN, ReviewInv(d, runs, builds, b, ag), NEW x \in Pending(d)
    PROVE  Approved(d, x) \in Catalogs(runs) /\ ReviewInv(Approved(d, x), runs, builds, b, ag)
<1> DEFINE e == Approved(d, x)
           s == runs[x.run].snap
<1>1. /\ RowsInv(d, runs, builds) /\ LookInv(d, runs, builds) /\ BuildsInv(runs, builds, b)
      /\ ~ag => OfferInv(d)
      /\ ~ag /\ b # 0 => MirrorInv(d, runs[b].snap, b)
  BY DEF ReviewInv
<1>2. x \in d.rows /\ x \in RowRecords(runs) /\ Shape(x, s)
  BY <1>1 DEF RowsInv, Pending, Catalogs
<1>3. s \in Snapshots
  <2>1. x.run \in DOMAIN runs
    BY <1>2 DEF RowRecords
  <2>2. runs[x.run] \in RunRecords
    BY <2>1
  <2> QED BY <2>2 DEF RunRecords
<1>4. /\ e \in Catalogs(runs) /\ RowsAfter(d, e, x, s)
      /\ \E a : e.comp = a.comp /\ e.plat = a.plat /\ e.link = a.link /\ Applied(d, a, x, s)
  BY <1>2, ApprovedIs
<1>5. PICK a : e.comp = a.comp /\ e.plat = a.plat /\ e.link = a.link /\ Applied(d, a, x, s)
  BY <1>4
<1>6. s = runs[x.run].snap /\ e = Approved(d, x)
  OBVIOUS
<1> HIDE DEF e, s
<1>7. RowsInv(e, runs, builds) /\ LookInv(e, runs, builds)
  BY <1>1, <1>4, QueueKept
<1>8. ~ag => OfferInv(e)
  BY <1>1, <1>4, <1>5, <1>6, OffersKept
<1>9. ASSUME ~ag, b # 0 PROVE MirrorInv(e, runs[b].snap, b)
  <2>1. x.run = b
    BY <1>1, <1>9, OffersAreOfTheBase
  <2>2. MirrorInv(d, runs[x.run].snap, x.run) /\ OfferInv(d)
    BY <1>1, <1>9, <2>1
  <2>3. MirrorInv(e, s, x.run)
    BY <1>1, <1>3, <1>4, <1>5, <1>6, <2>2, MirrorKept
  <2> QED BY <1>6, <2>1, <2>3
<1>10. ReviewInv(e, runs, builds, b, ag)
  BY <1>1, <1>7, <1>8, <1>9 DEF ReviewInv
<1> QED BY <1>4, <1>6, <1>10

LEMMA RunsMove ==
    ASSUME NEW rs \in Seq(RunRecords), NEW rs2 \in Seq(RunRecords), NEW bs \in Seq(DOMAIN rs),
           NEW d \in Catalogs(rs), NEW b, NEW ag, ReviewInv(d, rs, bs, b, ag),
           \A r \in DOMAIN rs : r \in DOMAIN rs2 /\
               (rs[r].pc = "end" => rs2[r].pc = "end" /\ rs2[r].snap = rs[r].snap)
    PROVE  d \in Catalogs(rs2) /\ bs \in Seq(DOMAIN rs2) /\ ReviewInv(d, rs2, bs, b, ag)
<1>1. \A n \in DOMAIN bs : bs[n] \in DOMAIN rs
  OBVIOUS
<1>2. d \in Catalogs(rs2)
  BY DEF Catalogs, RowRecords
<1>3. bs \in Seq(DOMAIN rs2)
  OBVIOUS
<1>4. \A n \in DOMAIN bs : rs[bs[n]].pc = "end" /\ rs2[bs[n]].pc = "end" /\ rs2[bs[n]].snap = rs[bs[n]].snap
  BY <1>1 DEF ReviewInv, BuildsInv
<1>5. RowsInv(d, rs2, bs)
  BY <1>4 DEF ReviewInv, RowsInv
<1>6. LookInv(d, rs2, bs)
  BY <1>4 DEF ReviewInv, LookInv
<1>7. b # 0 => rs2[b].snap = rs[b].snap
  <2>1. b # 0 => Len(bs) \in DOMAIN bs /\ b = bs[Len(bs)]
    BY DEF ReviewInv, BuildsInv
  <2> QED BY <1>4, <2>1
<1>8. BuildsInv(rs2, bs, b)
  BY <1>4, <1>7 DEF ReviewInv, BuildsInv
<1> QED BY <1>2, <1>3, <1>5, <1>6, <1>7, <1>8 DEF ReviewInv

-----------------------------------------------------------------------------
(* A batch of decisions. *)

\* The rows are finitely many.
LEMMA RowsAreFinite ==
    ASSUME NEW n \in Nat, NEW rs, DOMAIN rs = 1..n, NEW d \in Catalogs(rs)
    PROVE  IsFiniteSet(d.rows)
<1> DEFINE Ent == Components \cup Platforms
           Stat == {"pending", "approved", "rejected"}
           T1 == (1..n) \X Ent
           T2 == T1 \X Kinds
           T3 == T2 \X Fields
           T4 == T3 \X Stat
           f == [t \in T4 |-> [run |-> t[1][1][1][1], ent |-> t[1][1][1][2], kind |-> t[1][1][2],
                               field |-> t[1][2], status |-> t[2]]]
<1>1. IsFiniteSet(1..n)
  BY FS_Interval
<1>2. IsFiniteSet(Ent)
  BY ReviewAssumption
<1>3. IsFiniteSet(Kinds) /\ IsFiniteSet(Fields) /\ IsFiniteSet(Stat)
  <2>1. \A x : IsFiniteSet({x})
    BY FS_Singleton
  <2>2. \A x, y : IsFiniteSet({x, y})
    <3>1. ASSUME NEW x, NEW y PROVE IsFiniteSet({x, y})
      <4> DEFINE S == {x}
                 T == {y}
      <4>1. IsFiniteSet(S) /\ IsFiniteSet(T)
        BY <2>1
      <4>2. {x, y} = S \cup T
        OBVIOUS
      <4> HIDE DEF S, T
      <4>3. IsFiniteSet(S \cup T)
        BY <4>1, FS_Union
      <4> QED BY <4>2, <4>3
    <3> QED BY <3>1
  <2>3. IsFiniteSet({"add", "relist"} \cup {"update", "delist"})
    BY <2>2, FS_Union
  <2>4. IsFiniteSet({"", "description"} \cup {"tce", "components"})
    BY <2>2, FS_Union
  <2>5. IsFiniteSet({"pending"} \cup {"approved", "rejected"})
    BY <2>1, <2>2, FS_Union
  <2>6. /\ Kinds = {"add", "relist"} \cup {"update", "delist"}
        /\ Fields = {"", "description"} \cup {"tce", "components"}
        /\ Stat = {"pending"} \cup {"approved", "rejected"}
    BY DEF Kinds, Fields
  <2> QED BY <2>3, <2>4, <2>5, <2>6
<1> HIDE DEF Ent, Stat
<1>4. IsFiniteSet(T1) /\ IsFiniteSet(T1 \X Kinds)
  <2>1. IsFiniteSet(T1)
    BY <1>1, <1>2, FS_Product
  <2> HIDE DEF T1
  <2> QED BY <1>3, <2>1, FS_Product
<1>5. IsFiniteSet(T4)
  <2> HIDE DEF T1
  <2>1. IsFiniteSet(T2)
    BY <1>4
  <2> HIDE DEF T2
  <2>2. IsFiniteSet(T3)
    BY <1>3, <2>1, FS_Product
  <2> HIDE DEF T3
  <2> QED BY <1>3, <2>2, FS_Product
<1>6. f \in Surjection(T4, RowRecords(rs))
  <2>1. ASSUME NEW t \in T4 PROVE f[t] \in RowRecords(rs)
    BY DEF RowRecords, Ent, Stat
  <2>2. ASSUME NEW x \in RowRecords(rs) PROVE \E t \in T4 : f[t] = x
    <3> DEFINE t == <<<<<<<<x.run, x.ent>>, x.kind>>, x.field>>, x.status>>
    <3>1. t \in T4
      BY DEF RowRecords, Ent, Stat
    <3>2. f[t] = [run |-> x.run, ent |-> x.ent, kind |-> x.kind, field |-> x.field, status |-> x.status]
      BY <3>1
    <3>3. x = [run |-> x.run, ent |-> x.ent, kind |-> x.kind, field |-> x.field, status |-> x.status]
      BY DEF RowRecords
    <3> HIDE DEF t, f, T4
    <3> QED BY <3>1, <3>2, <3>3
  <2>3. f = [t \in T4 |-> f[t]]
    OBVIOUS
  <2> HIDE DEF f, T4
  <2> QED BY <2>1, <2>2, <2>3 DEF Surjection
<1> HIDE DEF f, T4
<1>7. IsFiniteSet(RowRecords(rs))
  BY <1>5, <1>6, FS_Surjection
<1>8. d.rows \in SUBSET RowRecords(rs)
  BY DEF Catalogs
<1> QED BY <1>7, <1>8, FS_Subset

\* A property that fails of a number fails of a least one.
LEMMA LeastNumber ==
    ASSUME NEW T, T \subseteq Nat, T # {}
    PROVE  \E k \in T : \A m \in T : k <= m
<1> DEFINE Less == {ss \in Nat \X Nat : ss[1] < ss[2]}
<1>1. IsWellFoundedOn(Less, Nat)
  BY NatLessThanWellFounded DEF OpToRel
<1> HIDE DEF Less
<1>2. PICK k \in T : \A m \in T : ~(<<m, k>> \in Less)
  BY <1>1, WFMin
<1>3. ASSUME NEW m \in T PROVE k <= m
  <2>1. m \in Nat /\ k \in Nat /\ <<m, k>> \in Nat \X Nat
    OBVIOUS
  <2>2. <<m, k>>[1] = m /\ <<m, k>>[2] = k
    OBVIOUS
  <2>3. <<m, k>> \notin Less
    BY <1>2
  <2>4. ~(m < k)
    BY <2>1, <2>2, <2>3 DEF Less
  <2> QED BY <2>1, <2>4
<1> QED BY <1>3

\* What every single decision keeps, the decisions of a whole batch keep.
LEMMA ProcessedStays ==
    ASSUME NEW I, Now \in I, \A e \in I : \A x : ApprovePending(e, x) \in I,
           NEW order, NEW last \in Nat
    PROVE  Processed(order, last) \in I
<1> DEFINE Step(f, n) == IF n = 0 THEN Now ELSE ApprovePending(f[n - 1], order[n])
           Fills(f, m) == f = [n \in 0..m |-> Step(f, n)]
<1>1. ASSUME NEW f, NEW m \in Nat, Fills(f, m) PROVE \A n \in 0..m : f[n] \in I
  <2> DEFINE Out == {n \in 0..m : f[n] \notin I}
  <2>1. SUFFICES ASSUME Out # {} PROVE FALSE
    OBVIOUS
  <2>0. Out \subseteq Nat
    OBVIOUS
  <2>2. PICK k \in Out : \A n \in Out : k <= n
    <3> HIDE DEF Out
    <3> QED BY <2>0, <2>1, LeastNumber
  <2>3. k \in 0..m /\ f[k] = Step(f, k) /\ f[k] \notin I
    BY <1>1
  <2>4. k # 0
    BY <2>3
  <2>5. k - 1 \in 0..m /\ k - 1 \notin Out
    BY <2>2, <2>3, <2>4
  <2>6. f[k - 1] \in I
    BY <2>5
  <2>7. f[k] = ApprovePending(f[k - 1], order[k])
    BY <2>3, <2>4
  <2> QED BY <2>3, <2>6, <2>7
<1>2. \A m \in Nat : \E f : Fills(f, m)
  <2> DEFINE Never == {m \in Nat : ~\E f : Fills(f, m)}
  <2>1. SUFFICES ASSUME Never # {} PROVE FALSE
    OBVIOUS
  <2>2. PICK k \in Never : \A n \in Never : k <= n
    BY <2>1, LeastNumber
  <2>3. k # 0
    <3> DEFINE g == [n \in 0..0 |-> Now]
    <3>1. Fills(g, 0)
      OBVIOUS
    <3> QED BY <3>1
  <2>4. k - 1 \in Nat /\ k - 1 \notin Never
    <3>1. k \in Nat
      OBVIOUS
    <3> HIDE DEF Never
    <3> QED BY <3>1, <2>2, <2>3
  <2>5. PICK f : Fills(f, k - 1)
    BY <2>4
  <2> DEFINE g == [n \in 0..k |-> IF n = k THEN ApprovePending(f[k - 1], order[k]) ELSE f[n]]
  <2>6. \A n \in 0..k : g[n] = Step(g, n)
    <3> SUFFICES ASSUME NEW n \in 0..k PROVE g[n] = Step(g, n)
      OBVIOUS
    <3>1. CASE n = k
      BY <3>1, <2>3, <2>4
    <3>2. CASE n # k
      <4>1. n \in 0..(k - 1) /\ f[n] = Step(f, n) /\ g[n] = f[n]
        BY <3>2, <2>5
      <4>2. n # 0 => g[n - 1] = f[n - 1]
        BY <3>2
      <4> QED BY <4>1, <4>2
    <3> QED BY <3>1, <3>2
  <2>7. g = [n \in 0..k |-> g[n]]
    OBVIOUS
  <2> HIDE DEF g
  <2>8. Fills(g, k)
    BY <2>6, <2>7
  <2> QED BY <2>8
<1> DEFINE after == CHOOSE f : Fills(f, last)
<1>3. Fills(after, last)
  BY <1>2
<1>4. Processed(order, last) = after[last]
  BY DEF Processed
<1> HIDE DEF after
<1> QED BY <1>1, <1>3, <1>4

-----------------------------------------------------------------------------
(* The steps. *)

Types(d, rs, bs, b, ag, n) ==
    /\ d \in Catalogs(rs) /\ rs \in Seq(RunRecords) /\ bs \in Seq(DOMAIN rs)
    /\ b \in {0} \cup DOMAIN rs /\ ag \in BOOLEAN /\ n \in 0..MaxDetours

LEMMA TypesAre == TypeOK <=> Types(Now, runs, builds, base, again, detours)
BY DEF TypeOK, Types, Now, Catalogs, RowRecords, Parts, Edges, RunRecords

LEMMA TypesNext == TypeOK' <=> Types(Now', runs', builds', base', again', detours')
BY DEF TypeOK, Types, Now, Catalogs, RowRecords, Parts, Edges, RunRecords

Inv == Types(Now, runs, builds, base, again, detours) /\ ReviewInv(Now, runs, builds, base, again)

LEMMA DetourTypes == ASSUME Inv, Detour PROVE detours' \in 0..MaxDetours
BY ReviewAssumption DEF Inv, Types, Detour

\* A step of a run that builds nothing.
LEMMA RunStep ==
    ASSUME Inv, UNCHANGED <<catalog, rows, builds, base, again>>,
           detours' \in 0..MaxDetours, runs' \in Seq(RunRecords),
           \A r \in DOMAIN runs : r \in DOMAIN runs' /\
               (runs[r].pc = "end" => runs'[r].pc = "end" /\ runs'[r].snap = runs[r].snap)
    PROVE  Inv'
<1>1. Now' = Now /\ builds' = builds /\ base' = base /\ again' = again
  BY DEF Now, catalog
<1>2. Types(Now, runs, builds, base, again, detours) /\ ReviewInv(Now, runs, builds, base, again)
  BY DEF Inv
<1>3. Now \in Catalogs(runs') /\ builds \in Seq(DOMAIN runs') /\ ReviewInv(Now, runs', builds, base, again)
  BY <1>2, RunsMove DEF Types
<1>4. base \in {0} \cup DOMAIN runs'
  BY <1>2 DEF Types
<1>5. Types(Now', runs', builds', base', again', detours')
  BY <1>1, <1>2, <1>3, <1>4 DEF Types
<1> QED BY <1>1, <1>3, <1>5 DEF Inv

LEMMA NewRunStep ==
    ASSUME Inv, NEW run \in RunRecords, runs' = Append(runs, run),
           UNCHANGED <<catalog, rows, builds, base, again, detours>>
    PROVE  Inv'
<1>1. runs \in Seq(RunRecords) /\ detours \in 0..MaxDetours
  BY DEF Inv, Types
<1>2. runs' \in Seq(RunRecords)
  BY <1>1
<1>3. \A r \in DOMAIN runs : r \in DOMAIN runs' /\ runs'[r] = runs[r]
  BY <1>1
<1> QED BY <1>1, <1>2, <1>3, RunStep

LEMMA RunMoves ==
    ASSUME Inv, NEW r \in DOMAIN runs, NEW run \in RunRecords, runs[r].pc # "end" \/ 
               (run.pc = "end" /\ run.snap = runs[r].snap),
           runs' = [runs EXCEPT ![r] = run],
           UNCHANGED <<catalog, rows, builds, base, again>>, detours' \in 0..MaxDetours
    PROVE  Inv'
<1>1. runs \in Seq(RunRecords)
  BY DEF Inv, Types
<1>2. runs' \in Seq(RunRecords)
  BY <1>1
<1>3. \A q \in DOMAIN runs : q \in DOMAIN runs' /\
               (runs[q].pc = "end" => runs'[q].pc = "end" /\ runs'[q].snap = runs[q].snap)
  BY <1>1
<1> QED BY <1>2, <1>3, RunStep

LEMMA SnapsAre ==
    /\ NoSnap \in Snapshots
    /\ Scraped \subseteq Snapshots
<1>1. (CHOOSE t \in Texts : TRUE) \in Texts
  BY ReviewAssumption
<1>2. NoSnap \in Snapshots
  BY <1>1 DEF NoSnap, Snapshots
<1>3. Sites \subseteq Snapshots
  BY ReviewAssumption
<1>4. ASSUME NEW s \in Sites, NEW lost \in SUBSET Platforms PROVE Partial(s, lost) \in Snapshots
  <2> DEFINE pages == [p \in Platforms |-> IF p \in lost THEN None ELSE s.page[p]]
             t == [s EXCEPT !.complete = FALSE, !.page = pages]
  <2>1. s \in Snapshots
    BY <1>3
  <2>2. pages \in [Platforms -> Pages \cup {None}]
    BY <2>1 DEF Snapshots
  <2>3. Partial(s, lost) = t
    BY DEF Partial
  <2> HIDE DEF pages
  <2>4. t \in Snapshots
    BY <2>1, <2>2 DEF Snapshots
  <2> QED BY <2>3, <2>4
<1> QED BY <1>2, <1>3, <1>4 DEF Scraped

LEMMA RunsKeep ==
    ASSUME Inv, StartScrape \/ ImportSnapshot \/ Crash
    PROVE  Inv'
<1>1. runs \in Seq(RunRecords) /\ detours \in 0..MaxDetours
  BY DEF Inv, Types
<1>2. CASE StartScrape
  <2>1. NewRun("queued", "start", NoSnap) \in RunRecords
    BY SnapsAre DEF NewRun, RunRecords
  <2> QED BY <1>2, <2>1, NewRunStep DEF StartScrape
<1>3. CASE ImportSnapshot
  <2>1. PICK s \in Scraped : runs' = Append(runs, NewRun("running", "build", s))
    BY <1>3 DEF ImportSnapshot
  <2>2. NewRun("running", "build", s) \in RunRecords
    BY SnapsAre DEF NewRun, RunRecords
  <2> QED BY <1>3, <2>1, <2>2, NewRunStep DEF ImportSnapshot
<1>4. CASE Crash
  <2>1. runs' = [r \in DOMAIN runs |-> [runs[r] EXCEPT !.pc = "end"]]
    BY <1>4 DEF Crash
  <2>2. ASSUME NEW r \in DOMAIN runs
        PROVE  /\ [runs[r] EXCEPT !.pc = "end"] \in RunRecords
               /\ [runs[r] EXCEPT !.pc = "end"].pc = "end"
               /\ [runs[r] EXCEPT !.pc = "end"].snap = runs[r].snap
    <3>1. runs[r] \in RunRecords
      BY <1>1
    <3> QED BY <3>1 DEF RunRecords
  <2>3. runs' \in Seq(RunRecords)
    BY <1>1, <2>1, <2>2
  <2>4. \A r \in DOMAIN runs : r \in DOMAIN runs' /\
               (runs[r].pc = "end" => runs'[r].pc = "end" /\ runs'[r].snap = runs[r].snap)
    BY <1>1, <2>1, <2>2
  <2> QED BY <1>4, <2>3, <2>4, RunStep, DetourTypes DEF Crash
<1> QED BY <1>2, <1>3, <1>4

LEMMA ThreadKeeps ==
    ASSUME Inv, NEW r \in DOMAIN runs,
           TimeOut(r) \/ ThreadStarts(r) \/ Fetch(r) \/ Check(r) \/ BuildFails(r)
    PROVE  Inv'
<1>1. runs \in Seq(RunRecords) /\ runs[r] \in RunRecords /\ detours \in 0..MaxDetours
  BY DEF Inv, Types
<1>2. CASE TimeOut(r)
  <2> DEFINE run == [runs[r] EXCEPT !.status = "failed"]
  <2>1. run \in RunRecords /\ run.pc = runs[r].pc /\ run.snap = runs[r].snap
    BY <1>1 DEF RunRecords
  <2>2. runs' = [runs EXCEPT ![r] = run]
    BY <1>2 DEF TimeOut
  <2> HIDE DEF run
  <2> QED BY <1>2, <2>1, <2>2, RunMoves, DetourTypes DEF TimeOut
<1>3. CASE ThreadStarts(r)
  <2> DEFINE run == [runs[r] EXCEPT !.status = "running", !.pc = "fetch"]
  <2>1. run \in RunRecords
    BY <1>1 DEF RunRecords
  <2>2. runs' = [runs EXCEPT ![r] = run]
    BY <1>3 DEF ThreadStarts
  <2> HIDE DEF run
  <2> QED BY <1>1, <1>3, <2>1, <2>2, RunMoves DEF ThreadStarts
<1>4. CASE Fetch(r)
  <2>1. PICK s \in Scraped : runs' = [runs EXCEPT ![r].snap = s, ![r].pc = "check"]
    BY <1>4 DEF Fetch
  <2> DEFINE run == [runs[r] EXCEPT !.snap = s, !.pc = "check"]
  <2>2. run \in RunRecords
    BY <1>1, SnapsAre DEF RunRecords
  <2>3. runs' = [runs EXCEPT ![r] = run]
    BY <2>1
  <2> HIDE DEF run
  <2> QED BY <1>1, <1>4, <2>2, <2>3, RunMoves DEF Fetch
<1>5. CASE Check(r)
  <2> DEFINE pc == IF runs[r].status = "running" THEN "build" ELSE "end"
             run == [runs[r] EXCEPT !.pc = pc]
  <2>1. run \in RunRecords
    BY <1>1 DEF RunRecords
  <2>2. runs' = [runs EXCEPT ![r] = run]
    BY <1>5 DEF Check
  <2> HIDE DEF run
  <2> QED BY <1>1, <1>5, <2>1, <2>2, RunMoves DEF Check
<1>6. CASE BuildFails(r)
  <2> DEFINE run == [runs[r] EXCEPT !.status = "failed", !.pc = "end"]
  <2>1. run \in RunRecords
    BY <1>1 DEF RunRecords
  <2>2. runs' = [runs EXCEPT ![r] = run]
    BY <1>6 DEF BuildFails
  <2> HIDE DEF run
  <2> QED BY <1>6, <2>1, <2>2, RunMoves, DetourTypes DEF BuildFails
<1> QED BY <1>2, <1>3, <1>4, <1>5, <1>6

LEMMA BecomesIs ==
    ASSUME NEW rs, NEW e \in Catalogs(rs), Becomes(e)
    PROVE  Now' = e
BY DEF Becomes, Now, Catalogs

\* A decision: the runs stay.
LEMMA DecisionStep ==
    ASSUME Inv, NEW e \in Catalogs(runs), Now' = e, UNCHANGED <<runs, builds>>,
           base' \in {0, base}, again' \in BOOLEAN, detours' \in 0..MaxDetours,
           ReviewInv(e, runs, builds, base', again')
    PROVE  Inv'
<1>1. Types(Now, runs, builds, base, again, detours)
  BY DEF Inv
<1>2. Types(Now', runs', builds', base', again', detours')
  BY <1>1 DEF Types
<1>3. ReviewInv(Now', runs', builds', base', again')
  OBVIOUS
<1> QED BY <1>2, <1>3 DEF Inv

LEMMA ApproveKeeps == ASSUME Inv, NEW x \in rows, Approve(x) PROVE Inv'
<1> DEFINE e == Approved(Now, x)
<1>1. /\ Now \in Catalogs(runs) /\ runs \in Seq(RunRecords) /\ builds \in Seq(DOMAIN runs)
      /\ again \in BOOLEAN /\ detours \in 0..MaxDetours /\ x \in Now.rows
      /\ ReviewInv(Now, runs, builds, base, again)
  BY DEF Inv, Types, Now
<1>2. Becomes(e) /\ UNCHANGED <<runs, builds>> /\ detours' \in 0..MaxDetours
  BY <1>1, DetourTypes DEF Approve
<1>3. CASE x.status = "pending"
  <2>1. x \in Pending(Now)
    BY <1>1, <1>3 DEF Pending
  <2>2. e \in Catalogs(runs) /\ ReviewInv(e, runs, builds, base, again)
    BY <1>1, <2>1, ApprovedKeeps
  <2>3. base' \in {0, base} /\ again' = again
    BY <1>1, <1>3 DEF Approve
  <2> HIDE DEF e
  <2>4. ReviewInv(e, runs, builds, base', again')
    BY <2>2, <2>3, BaseGivenUp
  <2> QED BY <1>1, <1>2, <2>2, <2>3, <2>4, BecomesIs, DecisionStep
<1>4. CASE x.status # "pending"
  <2>1. e \in Catalogs(runs) /\ ReviewInv(e, runs, builds, 0, TRUE)
    BY <1>1, ApprovedKeepsQueue
  <2>2. base' = 0 /\ again' = TRUE
    BY <1>4 DEF Approve
  <2> HIDE DEF e
  <2> QED BY <1>1, <1>2, <2>1, <2>2, BecomesIs, DecisionStep
<1> QED BY <1>3, <1>4

LEMMA ApproveAllKeeps == ASSUME Inv, ApproveAll PROVE Inv'
<1> DEFINE pending == {x \in rows : x.status = "pending"}
           last == Cardinality(pending)
           order == SetToSortSeq(pending, Before)
           e == Processed(order, last)
           I == {d \in Catalogs(runs) : ReviewInv(d, runs, builds, base, again)}
<1>1. /\ Now \in Catalogs(runs) /\ runs \in Seq(RunRecords) /\ builds \in Seq(DOMAIN runs)
      /\ again \in BOOLEAN /\ detours \in 0..MaxDetours
      /\ ReviewInv(Now, runs, builds, base, again)
  BY DEF Inv, Types, Now
<1>2. last \in Nat
  <2>1. IsFiniteSet(Now.rows)
    BY <1>1, RowsAreFinite
  <2>2. pending \in SUBSET Now.rows
    BY DEF Now
  <2> HIDE DEF pending
  <2> QED BY <2>1, <2>2, FS_Subset, FS_CardinalityType
<1>3. ASSUME NEW d \in I, NEW x PROVE ApprovePending(d, x) \in I
  <2>1. d \in Catalogs(runs) /\ ReviewInv(d, runs, builds, base, again)
    OBVIOUS
  <2>2. CASE x \in d.rows /\ x.status = "pending"
    <3>1. x \in Pending(d)
      BY <2>2 DEF Pending
    <3>2. Approved(d, x) \in Catalogs(runs) /\ ReviewInv(Approved(d, x), runs, builds, base, again)
      BY <1>1, <2>1, <3>1, ApprovedKeeps
    <3>3. ApprovePending(d, x) = Approved(d, x)
      BY <2>2 DEF ApprovePending
    <3> QED BY <3>2, <3>3
  <2>3. CASE ~(x \in d.rows /\ x.status = "pending")
    BY <2>3 DEF ApprovePending
  <2> QED BY <2>2, <2>3
<1>4. Now \in I
  BY <1>1
<1>5. Becomes(e) /\ base' \in {0, base} /\ UNCHANGED <<runs, builds, again, detours>>
  BY DEF ApproveAll
<1> HIDE DEF I, last, order
<1>6. e \in I
  BY <1>2, <1>3, <1>4, ProcessedStays
<1> HIDE DEF e
<1>7. e \in Catalogs(runs) /\ ReviewInv(e, runs, builds, base, again)
  BY <1>6 DEF I
<1>8. ReviewInv(e, runs, builds, base', again')
  BY <1>5, <1>7, BaseGivenUp
<1> QED BY <1>1, <1>5, <1>7, <1>8, BecomesIs, DecisionStep

\* Rejecting decides rows and touches nothing else; what was open stays open.
LEMMA RejectedKeeps ==
    ASSUME NEW rs, NEW bs, NEW b, NEW ag, NEW d \in Catalogs(rs), NEW e \in Catalogs(rs),
           ReviewInv(d, rs, bs, b, ag), e.comp = d.comp, e.plat = d.plat, e.link = d.link,
           \A y \in e.rows : y \in d.rows \/ (y.status = "rejected" /\ \E z \in d.rows : SameRow(y, z)),
           \A z \in d.rows : z \in e.rows \/ \E y \in e.rows : SameRow(y, z) /\ y.status = "rejected"
    PROVE  ReviewInv(e, rs, bs, b, ag)
<1>1. ASSUME NEW y \in e.rows
      PROVE  Shape(y, rs[y.run].snap) /\ \E n \in DOMAIN bs : bs[n] = y.run
  <2>1. PICK z \in d.rows : SameRow(y, z)
    BY DEF SameRow
  <2>2. Shape(z, rs[z.run].snap) /\ \E n \in DOMAIN bs : bs[n] = z.run
    BY DEF ReviewInv, RowsInv
  <2> QED BY <2>1, <2>2 DEF SameRow, Shape
<1>2. \A y \in Pending(e) : y \in Pending(d)
  BY DEF Pending
<1>3. RowsInv(e, rs, bs) /\ LookInv(e, rs, bs)
  BY <1>1, <1>2 DEF RowsInv, LookInv, ReviewInv
<1>4. OfferInv(d) => OfferInv(e)
  BY <1>2 DEF OfferInv
<1>5. ASSUME NEW k, Open(d, b, k) PROVE Open(e, b, k)
  BY <1>5 DEF Open, SameRow
<1>6. ASSUME NEW s, MirrorInv(d, s, b) PROVE MirrorInv(e, s, b)
  BY <1>2, <1>5, <1>6 DEF MirrorInv, PartMirrors, PlatMirrors
<1> QED BY <1>3, <1>4, <1>6 DEF ReviewInv

LEMMA RejectKeeps ==
    ASSUME Inv, RejectAll \/ \E x \in rows : Reject(x)
    PROVE  Inv'
<1>1. /\ Now \in Catalogs(runs) /\ ReviewInv(Now, runs, builds, base, again)
      /\ base \in {0, base} /\ again \in BOOLEAN /\ detours' \in 0..MaxDetours
      /\ UNCHANGED <<catalog, runs, builds, base, again>>
  BY DetourTypes DEF Inv, Types, Reject, RejectAll
<1>2. /\ Now.comp = comp /\ Now.plat = plat /\ Now.link = link /\ Now.rows = rows
      /\ Now' = [comp |-> comp, plat |-> plat, link |-> link, rows |-> rows']
  BY <1>1 DEF Now, catalog
<1>3. /\ rows' \subseteq RowRecords(runs)
      /\ \A y \in rows' : y \in rows \/ (y.status = "rejected" /\ \E z \in rows : SameRow(y, z))
      /\ \A z \in rows : z \in rows' \/ \E y \in rows' : SameRow(y, z) /\ y.status = "rejected"
  <2>1. \A x \in rows : x \in RowRecords(runs)
    BY <1>1, <1>2 DEF Catalogs
  <2>2. ASSUME NEW x \in rows
        PROVE  LET y == [x EXCEPT !.status = "rejected"] IN
               y \in RowRecords(runs) /\ y.status = "rejected" /\ SameRow(y, x)
    BY <2>1 DEF RowRecords, SameRow
  <2>3. CASE RejectAll
    <3> DEFINE new(x) == [x EXCEPT !.status = IF @ = "pending" THEN "rejected" ELSE @]
    <3>1. ASSUME NEW x \in rows
          PROVE  new(x) = x \/ new(x) = [x EXCEPT !.status = "rejected"]
      <4>1. CASE x.status = "pending"
        BY <4>1
      <4>2. CASE x.status # "pending"
        BY <2>1, <4>2 DEF RowRecords
      <4> QED BY <4>1, <4>2
    <3>2. rows' = {new(x) : x \in rows}
      BY <2>3 DEF RejectAll
    <3> HIDE DEF new
    <3>3. \A x \in rows : new(x) \in RowRecords(runs) /\
              (new(x) = x \/ (new(x).status = "rejected" /\ SameRow(new(x), x)))
      BY <2>1, <2>2, <3>1
    <3> QED BY <3>2, <3>3
  <2>4. CASE \E x \in rows : Reject(x)
    <3>1. PICK x \in rows : rows' = (rows \ {x}) \cup {[x EXCEPT !.status = "rejected"]}
      BY <2>4 DEF Reject
    <3> DEFINE y == [x EXCEPT !.status = "rejected"]
    <3>2. y \in RowRecords(runs) /\ y.status = "rejected" /\ SameRow(y, x)
      BY <2>2
    <3>3. rows' = (rows \ {x}) \cup {y}
      BY <3>1
    <3> HIDE DEF y
    <3> QED BY <2>1, <3>2, <3>3
  <2> QED BY <2>3, <2>4
<1> DEFINE e == [comp |-> comp, plat |-> plat, link |-> link, rows |-> rows']
<1>4. e \in Catalogs(runs)
  BY <1>1, <1>2, <1>3 DEF Catalogs
<1>5. e.comp = comp /\ e.plat = plat /\ e.link = link /\ e.rows = rows' /\ Now' = e
  BY <1>2
<1> HIDE DEF e
<1>6. ReviewInv(e, runs, builds, base, again)
  BY <1>1, <1>2, <1>3, <1>4, <1>5, RejectedKeeps
<1> QED BY <1>1, <1>4, <1>5, <1>6, DecisionStep

\* What the administrator does to the catalog by hand leaves the queue.
LEMMA ByHand ==
    ASSUME Inv, NEW e \in Catalogs(runs), Now' = e, e.rows = Now.rows,
           UNCHANGED <<runs, builds, again>>, base' = 0, detours' \in 0..MaxDetours,
           OfferInv(Now) => OfferInv(e)
    PROVE  Inv'
<1>1. ReviewInv(Now, runs, builds, base, again) /\ again \in BOOLEAN
  BY DEF Inv, Types
<1>2. RowsInv(e, runs, builds) /\ LookInv(e, runs, builds)
  BY <1>1 DEF ReviewInv, RowsInv, LookInv, Pending
<1>3. ReviewInv(e, runs, builds, 0, again)
  BY <1>1, <1>2 DEF ReviewInv, BuildsInv
<1> QED BY <1>1, <1>3, DecisionStep

LEMMA AcceptPartKeeps ==
    ASSUME Inv, NEW c \in Components, NEW ps \in SUBSET Platforms, NEW text \in Texts,
           AcceptPart(c, ps, text)
    PROVE  Inv'
<1> DEFINE y == Ensured(comp[c], text, FALSE, "preview")
           edges(p) == IF p \in ps /\ ~Linked(p, c)
                       THEN [link[p] EXCEPT ![c].status = "active", ![c].origin = "preview"]
                       ELSE link[p]
           e == [comp |-> comp', plat |-> plat, link |-> link', rows |-> rows]
<1>1. /\ Now \in Catalogs(runs) /\ Now.comp = comp /\ Now.plat = plat /\ Now.link = link /\ Now.rows = rows
      /\ comp \in [Components -> Parts] /\ plat \in [Platforms -> Status]
      /\ link \in [Platforms -> [Components -> Edges]] /\ rows \in SUBSET RowRecords(runs)
  BY DEF Inv, Types, Now, Catalogs
<1>2. /\ \A p \in ps : plat[p] = "active"
      /\ comp' = [comp EXCEPT ![c] = y] /\ link' = [p \in Platforms |-> edges(p)]
      /\ UNCHANGED <<plat, rows, runs, builds, again>> /\ base' = 0 /\ detours' \in 0..MaxDetours
  BY DetourTypes DEF AcceptPart
<1>3. y \in Parts /\ (comp[c].status = "active" => y.status = "active" /\ y.origin = comp[c].origin)
  <2>1. comp[c] \in Parts /\ FALSE \in BOOLEAN /\ "preview" \in Origin
    BY <1>1 DEF Origin
  <2>2. /\ Ensured(comp[c], text, FALSE, "preview") \in Parts
        /\ Ensured(comp[c], text, FALSE, "preview").status = "active"
        /\ comp[c].status = "active" => Ensured(comp[c], text, FALSE, "preview").origin = comp[c].origin
    BY <2>1, EnsuredIs
  <2> QED BY <2>2
<1>4. ASSUME NEW p \in Platforms
      PROVE  /\ edges(p) \in [Components -> Edges]
             /\ p \notin ps => edges(p) = link[p]
  <2> DEFINE z == [link[p][c] EXCEPT !.status = "active", !.origin = "preview"]
  <2>1. link[p] \in [Components -> Edges]
    BY <1>1
  <2>2. z \in Edges
    BY <2>1 DEF Edges, Status, Origin
  <2>3. edges(p) = IF p \in ps /\ ~Linked(p, c) THEN [link[p] EXCEPT ![c] = z] ELSE link[p]
    OBVIOUS
  <2> HIDE DEF z, edges
  <2> QED BY <2>1, <2>2, <2>3
<1> HIDE DEF y, edges
<1>5. e \in Catalogs(runs) /\ Now' = e
  BY <1>1, <1>2, <1>3, <1>4 DEF Catalogs, Now
<1>6. e.comp = comp' /\ e.plat = plat /\ e.link = link' /\ e.rows = rows
  OBVIOUS
<1> HIDE DEF e
<1>7. OfferInv(Now) => OfferInv(e)
  <2> SUFFICES ASSUME OfferInv(Now) PROVE OfferInv(e)
    OBVIOUS
  <2>0. Pending(e) = Pending(Now)
    BY <1>1, <1>6 DEF Pending
  <2>1. ASSUME NEW x \in Pending(e), x.kind = "delist", x.ent \in Components
        PROVE  e.comp[x.ent].status = "active" /\ e.comp[x.ent].origin = "scrape"
    <3>1. comp[x.ent].status = "active" /\ comp[x.ent].origin = "scrape"
      BY <1>1, <2>0, <2>1 DEF OfferInv
    <3> QED BY <1>1, <1>2, <1>3, <1>6, <2>1, <3>1
  <2>2. ASSUME NEW x \in Pending(e), x.kind = "update", x.ent \in Platforms
        PROVE  e.plat[x.ent] = "active"
    BY <1>1, <1>6, <2>0, <2>2 DEF OfferInv
  <2>3. ASSUME NEW p \in Platforms, e.plat[p] # "active", NEW k \in Components
        PROVE  e.link[p][k].status # "active"
    <3>1. p \notin ps /\ link[p][k].status # "active"
      BY <1>1, <1>2, <1>6, <2>3 DEF OfferInv
    <3> QED BY <1>2, <1>4, <1>6, <3>1
  <2> QED BY <2>1, <2>2, <2>3 DEF OfferInv
<1> QED BY <1>1, <1>2, <1>5, <1>6, <1>7, ByHand

LEMMA WithdrawKeeps ==
    ASSUME Inv, NEW c \in Components, Withdraw(c)
    PROVE  Inv'
<1> DEFINE y == [comp[c] EXCEPT !.status = "delisted"]
           edges(p) == IF Linked(p, c) THEN [link[p] EXCEPT ![c].status = "delisted"] ELSE link[p]
           e == [comp |-> comp', plat |-> plat, link |-> link', rows |-> rows]
<1>1. /\ Now \in Catalogs(runs) /\ Now.comp = comp /\ Now.plat = plat /\ Now.link = link /\ Now.rows = rows
      /\ comp \in [Components -> Parts] /\ plat \in [Platforms -> Status]
      /\ link \in [Platforms -> [Components -> Edges]] /\ rows \in SUBSET RowRecords(runs)
  BY DEF Inv, Types, Now, Catalogs
<1>2. /\ comp[c].origin = "preview"
      /\ comp' = [comp EXCEPT ![c] = y] /\ link' = [p \in Platforms |-> edges(p)]
      /\ UNCHANGED <<plat, rows, runs, builds, again>> /\ base' = 0 /\ detours' \in 0..MaxDetours
  BY DetourTypes DEF Withdraw
<1>3. y \in Parts
  BY <1>1 DEF Parts, Status
<1>4. ASSUME NEW p \in Platforms
      PROVE  /\ edges(p) \in [Components -> Edges]
             /\ \A k \in Components : link[p][k].status # "active" => edges(p)[k].status # "active"
  <2> DEFINE z == [link[p][c] EXCEPT !.status = "delisted"]
  <2>1. link[p] \in [Components -> Edges]
    BY <1>1
  <2>2. z \in Edges /\ z.status # "active"
    BY <2>1 DEF Edges, Status
  <2>3. edges(p) = IF Linked(p, c) THEN [link[p] EXCEPT ![c] = z] ELSE link[p]
    OBVIOUS
  <2> HIDE DEF z, edges
  <2> QED BY <2>1, <2>2, <2>3
<1> HIDE DEF y, edges
<1>5. e \in Catalogs(runs) /\ Now' = e
  BY <1>1, <1>2, <1>3, <1>4 DEF Catalogs, Now
<1>6. e.comp = comp' /\ e.plat = plat /\ e.link = link' /\ e.rows = rows
  OBVIOUS
<1> HIDE DEF e
<1>7. OfferInv(Now) => OfferInv(e)
  <2> SUFFICES ASSUME OfferInv(Now) PROVE OfferInv(e)
    OBVIOUS
  <2>0. Pending(e) = Pending(Now)
    BY <1>1, <1>6 DEF Pending
  <2>1. ASSUME NEW x \in Pending(e), x.kind = "delist", x.ent \in Components
        PROVE  e.comp[x.ent].status = "active" /\ e.comp[x.ent].origin = "scrape"
    <3>1. comp[x.ent].status = "active" /\ comp[x.ent].origin = "scrape"
      BY <1>1, <2>0, <2>1 DEF OfferInv
    <3> QED BY <1>1, <1>2, <1>6, <2>1, <3>1
  <2>2. ASSUME NEW x \in Pending(e), x.kind = "update", x.ent \in Platforms
        PROVE  e.plat[x.ent] = "active"
    BY <1>1, <1>6, <2>0, <2>2 DEF OfferInv
  <2>3. ASSUME NEW p \in Platforms, e.plat[p] # "active", NEW k \in Components
        PROVE  e.link[p][k].status # "active"
    <3>1. link[p][k].status # "active"
      BY <1>1, <1>6, <2>3 DEF OfferInv
    <3> QED BY <1>2, <1>4, <1>6, <3>1
  <2> QED BY <2>1, <2>2, <2>3 DEF OfferInv
<1> QED BY <1>1, <1>2, <1>5, <1>6, <1>7, ByHand

-----------------------------------------------------------------------------
(* A run's build. *)

LEMMA DiffIs ==
    ASSUME Now \in Catalogs(runs), NEW s \in Snapshots, NEW x \in Diff(s)
    PROVE  /\ x.ent \in Components \cup Platforms /\ x.kind \in Kinds /\ x.field \in Fields
           /\ Shape(x, s)
           /\ x.kind = "update" /\ x.ent \in Platforms => plat[x.ent] = "active"
           /\ x.kind = "update" /\ x.ent \in Components => comp[x.ent].status = "active"
           /\ x.kind = "delist" /\ x.ent \in Components =>
                 comp[x.ent].status = "active" /\ comp[x.ent].origin = "scrape"
<1>1. CASE x \in PlatformDiff(s)
  <2>1. \/ \E p \in Paged(s) :
              x = [ent |-> p, kind |-> IF plat[p] = "none" THEN "add" ELSE "relist", field |-> ""]
        \/ \E p \in Paged(s) :
              plat[p] = "active" /\ x = [ent |-> p, kind |-> "update", field |-> "components"]
        \/ \E p \in Platforms \ Paged(s) :
              s.complete /\ x = [ent |-> p, kind |-> "delist", field |-> ""]
    <3>1. CASE x \in {[ent |-> p, kind |-> IF plat[p] = "none" THEN "add" ELSE "relist", field |-> ""] :
                         p \in {q \in Paged(s) : plat[q] # "active"}}
      BY <3>1
    <3>2. CASE x \in {[ent |-> p, kind |-> "update", field |-> "components"] :
        p \in {q \in Paged(s) : plat[q] = "active" /\ \E c \in Components :
            IF Lists(s, q, c) THEN ~Linked(q, c) \/ link[q][c].tce # Marked(s, q, c)
            ELSE Linked(q, c) /\ ~ImmuneToDelist(link[q][c])}}
      BY <3>2
    <3>3. CASE x \in {[ent |-> p, kind |-> "delist", field |-> ""] :
                         p \in {q \in Platforms \ Paged(s) : s.complete /\ plat[q] = "active"}}
      BY <3>3
    <3> QED BY <1>1, <3>1, <3>2, <3>3, Zenon DEF PlatformDiff
  <2>2. \E p \in Platforms : /\ x.ent = p
          /\ \/ p \in Paged(s) /\ x.kind \in {"add", "relist"} /\ x.field = ""
             \/ p \in Paged(s) /\ plat[p] = "active" /\ x.kind = "update" /\ x.field = "components"
             \/ p \notin Paged(s) /\ s.complete /\ x.kind = "delist" /\ x.field = ""
    <3>0. Paged(s) \subseteq Platforms
      BY DEF Paged
    <3>1. CASE \E p \in Paged(s) :
              x = [ent |-> p, kind |-> IF plat[p] = "none" THEN "add" ELSE "relist", field |-> ""]
      <4>1. PICK p \in Paged(s) :
              x = [ent |-> p, kind |-> IF plat[p] = "none" THEN "add" ELSE "relist", field |-> ""]
        BY <3>1
      <4>2. x.ent = p /\ x.kind \in {"add", "relist"} /\ x.field = ""
        BY <4>1
      <4> QED BY <3>0, <4>2
    <3>2. CASE \E p \in Paged(s) :
              plat[p] = "active" /\ x = [ent |-> p, kind |-> "update", field |-> "components"]
      BY <3>0, <3>2
    <3>3. CASE \E p \in Platforms \ Paged(s) :
              s.complete /\ x = [ent |-> p, kind |-> "delist", field |-> ""]
      <4>1. PICK p \in Platforms \ Paged(s) :
              s.complete /\ x = [ent |-> p, kind |-> "delist", field |-> ""]
        BY <3>3
      <4>2. x.ent = p /\ x.kind = "delist" /\ x.field = ""
        BY <4>1
      <4> QED BY <4>1, <4>2
    <3> QED BY <2>1, <3>1, <3>2, <3>3
  <2> QED BY <2>2, EntitiesDiffer DEF Shape, Kinds, Fields
<1>2. CASE x \in ComponentDiff(s)
  <2>0. \/ \E c \in Found(s) : x = [ent |-> c, field |-> "",
              kind |-> IF comp[c].status = "none" THEN "add" ELSE "relist"]
        \/ \E c \in Found(s), f \in {"description", "tce"} :
              comp[c].status = "active" /\ x = [ent |-> c, kind |-> "update", field |-> f]
        \/ \E c \in Components \ Found(s) :
              /\ s.complete /\ comp[c].status = "active" /\ ~ImmuneToDelist(comp[c])
              /\ x = [ent |-> c, kind |-> "delist", field |-> ""]
    <3>1. CASE x \in {[ent |-> c, kind |-> IF comp[c].status = "none" THEN "add" ELSE "relist",
                        field |-> ""] : c \in {d \in Found(s) : comp[d].status # "active"}}
      BY <3>1
    <3>2. CASE x \in {[ent |-> c, kind |-> "update", field |-> "description"] : c \in
                  {d \in Found(s) : comp[d].status = "active" /\ comp[d].text # s.text[d]}}
      BY <3>2
    <3>3. CASE x \in {[ent |-> c, kind |-> "update", field |-> "tce"] : c \in
                  {d \in Found(s) : comp[d].status = "active" /\ comp[d].tce # TceOf(s, d)}}
      BY <3>3
    <3>4. CASE x \in {[ent |-> c, kind |-> "delist", field |-> ""] : c \in
                  {d \in Components \ Found(s) : s.complete /\ comp[d].status = "active"
                                                  /\ ~ImmuneToDelist(comp[d])}}
      BY <3>4
    <3> QED BY <1>2, <3>1, <3>2, <3>3, <3>4, Zenon DEF ComponentDiff
  <2>1. \E c \in Components : /\ x.ent = c
          /\ \/ c \in Found(s) /\ x.kind \in {"add", "relist"} /\ x.field = ""
             \/ /\ c \in Found(s) /\ comp[c].status = "active" /\ x.kind = "update"
                /\ x.field \in {"description", "tce"}
             \/ /\ c \notin Found(s) /\ s.complete /\ x.kind = "delist" /\ x.field = ""
                /\ comp[c].status = "active" /\ comp[c].origin # "preview"
    <3>0. Found(s) \subseteq Components
      BY DEF Found
    <3>1. CASE \E c \in Found(s) : x = [ent |-> c, field |-> "",
              kind |-> IF comp[c].status = "none" THEN "add" ELSE "relist"]
      <4>1. PICK c \in Found(s) : x = [ent |-> c, field |-> "",
              kind |-> IF comp[c].status = "none" THEN "add" ELSE "relist"]
        BY <3>1
      <4>2. x.ent = c /\ x.kind \in {"add", "relist"} /\ x.field = ""
        BY <4>1
      <4> QED BY <3>0, <4>2
    <3>2. CASE \E c \in Found(s), f \in {"description", "tce"} :
              comp[c].status = "active" /\ x = [ent |-> c, kind |-> "update", field |-> f]
      BY <3>0, <3>2
    <3>3. CASE \E c \in Components \ Found(s) :
              /\ s.complete /\ comp[c].status = "active" /\ ~ImmuneToDelist(comp[c])
              /\ x = [ent |-> c, kind |-> "delist", field |-> ""]
      <4>1. PICK c \in Components \ Found(s) :
              /\ s.complete /\ comp[c].status = "active" /\ ~ImmuneToDelist(comp[c])
              /\ x = [ent |-> c, kind |-> "delist", field |-> ""]
        BY <3>3
      <4>2. x.ent = c /\ x.kind = "delist" /\ x.field = ""
        BY <4>1
      <4> QED BY <4>1, <4>2 DEF ImmuneToDelist
    <3> QED BY <2>0, <3>1, <3>2, <3>3
  <2>2. \A c \in Components : comp[c].origin \in {"scrape", "preview"}
    BY DEF Now, Catalogs, Parts, Origin
  <2> QED BY <2>1, <2>2, EntitiesDiffer DEF Shape, Kinds, Fields
<1> QED BY <1>1, <1>2 DEF Diff

\* What a complete snapshot has otherwise than the catalog is among its differences.
LEMMA DiffHas ==
    ASSUME Now \in Catalogs(runs), NEW s \in Snapshots, s.complete
    PROVE  /\ \A c \in Components : PartMirrors(Now, s, c)
                                    \/ \E x \in Diff(s) : x.ent = c /\ x.field # "tce"
           /\ OfferInv(Now) => \A p \in Platforms : PlatMirrors(Now, s, p)
                                    \/ \E x \in Diff(s) : x.ent = p /\ x.field # "tce"
<1>1. Now.comp = comp /\ Now.plat = plat /\ Now.link = link
  BY DEF Now
<1>2. ASSUME NEW c \in Components, ~PartMirrors(Now, s, c)
      PROVE  \E x \in Diff(s) : x.ent = c /\ x.field # "tce"
  <2>1. CASE c \in Found(s) /\ comp[c].status # "active"
    <3> DEFINE x == [ent |-> c, kind |-> IF comp[c].status = "none" THEN "add" ELSE "relist",
                     field |-> ""]
    <3>1. x \in ComponentDiff(s)
      BY <2>1 DEF ComponentDiff
    <3>2. x \in Diff(s) /\ x.ent = c /\ x.field # "tce"
      BY <3>1 DEF Diff
    <3> HIDE DEF x
    <3> QED BY <3>2
  <2>2. CASE c \in Found(s) /\ comp[c].status = "active"
    <3> DEFINE x == [ent |-> c, kind |-> "update", field |-> "description"]
    <3>1. comp[c].text # s.text[c]
      BY <1>1, <1>2, <2>2 DEF PartMirrors
    <3>2. x \in ComponentDiff(s)
      BY <2>2, <3>1 DEF ComponentDiff
    <3>3. x \in Diff(s) /\ x.ent = c /\ x.field # "tce"
      BY <3>2 DEF Diff
    <3> HIDE DEF x
    <3> QED BY <3>3
  <2>3. CASE c \notin Found(s)
    <3> DEFINE x == [ent |-> c, kind |-> "delist", field |-> ""]
    <3>1. comp[c].status = "active" /\ comp[c].origin # "preview"
      BY <1>1, <1>2, <2>3 DEF PartMirrors
    <3>2. x \in ComponentDiff(s)
      BY <2>3, <3>1 DEF ComponentDiff, ImmuneToDelist
    <3>3. x \in Diff(s) /\ x.ent = c /\ x.field # "tce"
      BY <3>2 DEF Diff
    <3> HIDE DEF x
    <3> QED BY <3>3
  <2> QED BY <2>1, <2>2, <2>3
<1>3. ASSUME OfferInv(Now), NEW p \in Platforms, ~PlatMirrors(Now, s, p)
      PROVE  \E x \in Diff(s) : x.ent = p /\ x.field # "tce"
  <2>1. CASE p \in Paged(s) /\ plat[p] # "active"
    <3> DEFINE x == [ent |-> p, kind |-> IF plat[p] = "none" THEN "add" ELSE "relist", field |-> ""]
    <3>1. x \in PlatformDiff(s)
      BY <2>1 DEF PlatformDiff
    <3>2. x \in Diff(s) /\ x.ent = p /\ x.field # "tce"
      BY <3>1 DEF Diff
    <3> HIDE DEF x
    <3> QED BY <3>2
  <2>2. CASE p \in Paged(s) /\ plat[p] = "active"
    <3> DEFINE x == [ent |-> p, kind |-> "update", field |-> "components"]
    <3>1. PICK c \in Components : ~(link[p][c].status = "active" <=> Lists(s, p, c)
                 \/ (link[p][c].status = "active" /\ link[p][c].origin = "preview"))
      BY <1>1, <1>3, <2>2 DEF PlatMirrors
    <3>2. IF Lists(s, p, c) THEN ~Linked(p, c) \/ link[p][c].tce # Marked(s, p, c)
            ELSE Linked(p, c) /\ ~ImmuneToDelist(link[p][c])
      BY <3>1 DEF Linked, ImmuneToDelist
    <3>3. x \in PlatformDiff(s)
      BY <2>2, <3>2 DEF PlatformDiff
    <3>4. x \in Diff(s) /\ x.ent = p /\ x.field # "tce"
      BY <3>3 DEF Diff
    <3> HIDE DEF x
    <3> QED BY <3>4
  <2>3. CASE p \notin Paged(s) /\ plat[p] = "active"
    <3> DEFINE x == [ent |-> p, kind |-> "delist", field |-> ""]
    <3>1. x \in PlatformDiff(s)
      BY <2>3 DEF PlatformDiff
    <3>2. x \in Diff(s) /\ x.ent = p /\ x.field # "tce"
      BY <3>1 DEF Diff
    <3> HIDE DEF x
    <3> QED BY <3>2
  <2>4. CASE p \notin Paged(s) /\ plat[p] # "active"
    <3>1. \A c \in Components : link[p][c].status # "active"
      BY <1>1, <1>3, <2>4 DEF OfferInv
    <3>2. \A c \in Components : ~Lists(s, p, c)
      BY <2>4, SnapTypes
    <3> QED BY <1>1, <1>3, <2>4, <3>1, <3>2 DEF PlatMirrors
  <2> QED BY <2>1, <2>2, <2>3, <2>4
<1> QED BY <1>2, <1>3

LEMMA PublishedPart ==
    ASSUME NEW x \in Parts, NEW y, NEW listed, y = Published(x, listed)
    PROVE  /\ y \in Parts /\ y.text = x.text /\ y.status = x.status
           /\ y.origin = x.origin \/ (y.origin = "scrape" /\ listed)
BY DEF Published, Parts, Origin

LEMMA PublishedEdge ==
    ASSUME NEW x \in Edges, NEW y, NEW listed, y = Published(x, listed)
    PROVE  /\ y \in Edges /\ y.status = x.status
           /\ y.origin = x.origin \/ (y.origin = "scrape" /\ listed)
BY DEF Published, Edges, Origin

\* The queue after a build: what the run does not retire, and what it found.
LEMMA QueueBuilt ==
    ASSUME NEW rs \in Seq(RunRecords), NEW bs \in Seq(DOMAIN rs), NEW r \in DOMAIN rs,
           NEW d \in Catalogs(rs), NEW e \in Catalogs(rs),
           RowsInv(d, rs, bs), LookInv(d, rs, bs), \A n \in DOMAIN bs : bs[n] # r,
           NEW s, s = rs[r].snap,
           \A y \in e.rows :
               \/ /\ y \in d.rows
                  /\ y.status = "pending" => ~s.complete /\ y.ent \notin Paged(s) \cup Found(s)
               \/ y.run = r /\ Shape(y, s)
    PROVE  RowsInv(e, rs, Append(bs, r)) /\ LookInv(e, rs, Append(bs, r))
<1> DEFINE bs2 == Append(bs, r)
<1>1. /\ bs2 \in Seq(DOMAIN rs) /\ Len(bs2) = Len(bs) + 1 /\ bs2[Len(bs) + 1] = r
      /\ \A n \in DOMAIN bs : bs2[n] = bs[n]
      /\ DOMAIN bs = 1..Len(bs) /\ DOMAIN bs2 = 1..(Len(bs) + 1) /\ Len(bs) \in Nat
  OBVIOUS
<1> HIDE DEF bs2
<1>2. ASSUME NEW y \in e.rows
      PROVE  Shape(y, rs[y.run].snap) /\ \E n \in DOMAIN bs2 : bs2[n] = y.run
  <2>1. CASE y \in d.rows
    <3>1. Shape(y, rs[y.run].snap) /\ \E n \in DOMAIN bs : bs[n] = y.run
      BY <2>1 DEF RowsInv
    <3> QED BY <1>1, <3>1
  <2>2. CASE y.run = r /\ Shape(y, s)
    <3>1. Len(bs) + 1 \in DOMAIN bs2
      BY <1>1
    <3> QED BY <1>1, <2>2, <3>1
  <2> QED BY <2>1, <2>2
<1>3. ASSUME NEW y \in Pending(e), NEW n \in DOMAIN bs2, NEW k \in 1..(n - 1), bs2[k] = y.run
      PROVE  ~rs[bs2[n]].snap.complete
             /\ y.ent \notin Paged(rs[bs2[n]].snap) \cup Found(rs[bs2[n]].snap)
  <2>0. n \in Nat /\ n <= Len(bs) + 1 /\ k \in Int /\ k >= 1 /\ k <= n - 1
    BY <1>1, <1>3
  <2>1. k \in DOMAIN bs /\ bs[k] = y.run /\ y.run # r
    <3>1. k \in DOMAIN bs
      BY <1>1, <2>0
    <3> QED BY <1>1, <1>3, <3>1
  <2>2. /\ y \in d.rows /\ y.status = "pending"
        /\ ~s.complete /\ y.ent \notin Paged(s) \cup Found(s)
    BY <2>1 DEF Pending
  <2>3. CASE n \in DOMAIN bs
    <3>1. bs2[n] = bs[n] /\ y \in Pending(d)
      BY <1>1, <2>2, <2>3 DEF Pending
    <3> QED BY <2>1, <2>3, <3>1 DEF LookInv
  <2>4. CASE n = Len(bs) + 1
    BY <1>1, <2>2, <2>4
  <2> QED BY <1>1, <2>3, <2>4
<1>4. RowsInv(e, rs, bs2)
  BY <1>2 DEF RowsInv
<1>5. LookInv(e, rs, bs2)
  BY <1>3 DEF LookInv
<1> QED BY <1>4, <1>5 DEF bs2

LEMMA BuildKeeps == ASSUME Inv, NEW r \in DOMAIN runs, Build(r) PROVE Inv'
<1> DEFINE s == runs[r].snap
           run == [runs[r] EXCEPT !.status = "succeeded", !.pc = "end"]
           made == {[run |-> r, ent |-> x.ent, kind |-> x.kind, field |-> x.field,
                     status |-> "pending"] : x \in Diff(s)}
           e == [comp |-> comp', plat |-> plat, link |-> link', rows |-> rows']
<1>1. /\ Now \in Catalogs(runs) /\ runs \in Seq(RunRecords) /\ builds \in Seq(DOMAIN runs)
      /\ again \in BOOLEAN /\ detours \in 0..MaxDetours
      /\ ReviewInv(Now, runs, builds, base, again)
      /\ Now.comp = comp /\ Now.plat = plat /\ Now.link = link /\ Now.rows = rows
      /\ comp \in [Components -> Parts] /\ plat \in [Platforms -> Status]
      /\ link \in [Platforms -> [Components -> Edges]] /\ rows \in SUBSET RowRecords(runs)
  BY DEF Inv, Types, Now, Catalogs
<1>2. /\ runs[r].pc = "build"
      /\ rows' = {x \in rows : x.status = "pending" => ~Unconfirmed(r, x)} \cup made
      /\ comp' = [c \in Components |-> Published(comp[c], s.complete /\ c \in Found(s))]
      /\ link' = [p \in Platforms |-> [c \in Components |->
                     Published(link[p][c], s.complete /\ plat[p] = "active" /\ Lists(s, p, c))]]
      /\ runs' = [runs EXCEPT ![r] = run]
      /\ builds' = Append(builds, r)
      /\ base' = IF s.complete THEN r ELSE 0
      /\ UNCHANGED <<plat, again, detours>>
  BY DEF Build
<1>3. runs[r] \in RunRecords
  BY <1>1
<1>4. run \in RunRecords /\ run.pc = "end" /\ run.snap = s /\ s \in Snapshots
  BY <1>3 DEF RunRecords
<1> HIDE DEF run
<1>5. /\ runs' \in Seq(RunRecords) /\ DOMAIN runs' = DOMAIN runs
      /\ \A q \in DOMAIN runs : q \in DOMAIN runs' /\ runs'[q].snap = runs[q].snap
               /\ (runs[q].pc = "end" => runs'[q].pc = "end")
      /\ runs'[r].pc = "end" /\ runs'[r].snap = s
  BY <1>1, <1>2, <1>4
<1>6. /\ Now \in Catalogs(runs') /\ builds \in Seq(DOMAIN runs')
      /\ ReviewInv(Now, runs', builds, base, again)
  BY <1>1, <1>5, RunsMove
<1>7. \A n \in DOMAIN builds : builds[n] # r
  <2>1. \A n \in DOMAIN builds : runs[builds[n]].pc = "end"
    BY <1>1 DEF ReviewInv, BuildsInv
  <2> QED BY <1>2, <2>1
<1> HIDE DEF s
<1>8. \A x \in Diff(s) :
        /\ x.ent \in Components \cup Platforms /\ x.kind \in Kinds /\ x.field \in Fields
        /\ Shape(x, s)
        /\ x.kind = "update" /\ x.ent \in Platforms => plat[x.ent] = "active"
        /\ x.kind = "update" /\ x.ent \in Components => comp[x.ent].status = "active"
        /\ x.kind = "delist" /\ x.ent \in Components =>
              comp[x.ent].status = "active" /\ comp[x.ent].origin = "scrape"
  BY <1>1, <1>4, DiffIs
<1>9. ASSUME NEW y \in made
      PROVE  /\ y \in RowRecords(runs') /\ y.run = r /\ y.status = "pending" /\ Shape(y, s)
             /\ y.kind = "update" /\ y.ent \in Platforms => plat[y.ent] = "active"
             /\ y.kind = "update" /\ y.ent \in Components => comp[y.ent].status = "active"
             /\ y.kind = "delist" /\ y.ent \in Components =>
                   comp[y.ent].status = "active" /\ comp[y.ent].origin = "scrape"
  <2>1. PICK x \in Diff(s) : y = [run |-> r, ent |-> x.ent, kind |-> x.kind, field |-> x.field,
                                  status |-> "pending"]
    OBVIOUS
  <2>2. y.run = r /\ y.ent = x.ent /\ y.kind = x.kind /\ y.field = x.field /\ y.status = "pending"
    BY <2>1
  <2>3. y \in RowRecords(runs')
    BY <1>5, <1>8, <2>1 DEF RowRecords
  <2>4. Shape(y, s)
    BY <1>8, <2>2 DEF Shape
  <2> QED BY <1>8, <2>2, <2>3, <2>4
<1>10. ASSUME NEW x \in Diff(s) PROVE \E y \in made : y.ent = x.ent /\ y.field = x.field
  <2> DEFINE y == [run |-> r, ent |-> x.ent, kind |-> x.kind, field |-> x.field,
                   status |-> "pending"]
  <2>1. y \in made /\ y.ent = x.ent /\ y.field = x.field
    OBVIOUS
  <2> HIDE DEF y, made
  <2> QED BY <2>1
<1> HIDE DEF made
<1>11. ASSUME NEW y \in rows'
       PROVE  \/ /\ y \in rows
                 /\ y.status = "pending" => ~s.complete /\ y.ent \notin Paged(s) \cup Found(s)
              \/ y \in made
  BY <1>2 DEF Unconfirmed, s
<1>12. rows' \subseteq RowRecords(runs')
  <2>1. RowRecords(runs) = RowRecords(runs')
    BY <1>5 DEF RowRecords
  <2> QED BY <1>1, <1>9, <1>11, <2>1
<1>13. ASSUME NEW c \in Components
       PROVE  /\ comp'[c] \in Parts /\ comp'[c].status = comp[c].status /\ comp'[c].text = comp[c].text
              /\ comp'[c].origin = comp[c].origin
                 \/ (comp'[c].origin = "scrape" /\ s.complete /\ c \in Found(s))
  <2> DEFINE listed == s.complete /\ c \in Found(s)
  <2>1. comp[c] \in Parts
    BY <1>1
  <2>2. comp'[c] = Published(comp[c], listed)
    BY <1>2
  <2> HIDE DEF listed
  <2>3. /\ comp'[c] \in Parts /\ comp'[c].status = comp[c].status /\ comp'[c].text = comp[c].text
        /\ comp'[c].origin = comp[c].origin \/ (comp'[c].origin = "scrape" /\ listed)
    BY <2>1, <2>2, PublishedPart
  <2> QED BY <2>3 DEF listed
<1>14. ASSUME NEW p \in Platforms, NEW c \in Components
       PROVE  /\ link'[p][c] \in Edges /\ link'[p][c].status = link[p][c].status
              /\ link'[p][c].origin = link[p][c].origin
                 \/ (link'[p][c].origin = "scrape" /\ Lists(s, p, c))
  <2> DEFINE listed == s.complete /\ plat[p] = "active" /\ Lists(s, p, c)
  <2>1. link[p][c] \in Edges
    BY <1>1
  <2>2. link'[p][c] = Published(link[p][c], listed)
    BY <1>2
  <2> HIDE DEF listed
  <2>3. /\ link'[p][c] \in Edges /\ link'[p][c].status = link[p][c].status
        /\ link'[p][c].origin = link[p][c].origin \/ (link'[p][c].origin = "scrape" /\ listed)
    BY <2>1, <2>2, PublishedEdge
  <2> QED BY <2>3 DEF listed
<1>15. comp' \in [Components -> Parts] /\ link' \in [Platforms -> [Components -> Edges]]
  BY <1>2, <1>13, <1>14
<1>16. e \in Catalogs(runs') /\ Now' = e
  BY <1>1, <1>2, <1>12, <1>15 DEF Catalogs, Now
<1>17. e.comp = comp' /\ e.plat = plat /\ e.link = link' /\ e.rows = rows'
  OBVIOUS
<1> HIDE DEF e
<1>18. RowsInv(e, runs', builds') /\ LookInv(e, runs', builds')
  <2>1. RowsInv(Now, runs', builds) /\ LookInv(Now, runs', builds)
    BY <1>6 DEF ReviewInv
  <2>2. \A y \in e.rows :
               \/ /\ y \in Now.rows
                  /\ y.status = "pending" => ~s.complete /\ y.ent \notin Paged(s) \cup Found(s)
               \/ y.run = r /\ Shape(y, s)
    BY <1>1, <1>9, <1>11, <1>17
  <2>3. r \in DOMAIN runs' /\ s = runs'[r].snap
    BY <1>5
  <2>4. RowsInv(e, runs', Append(builds, r)) /\ LookInv(e, runs', Append(builds, r))
    BY <1>5, <1>6, <1>7, <1>16, <2>1, <2>2, <2>3, QueueBuilt
  <2> QED BY <1>2, <2>4
<1>19. BuildsInv(runs', builds', base')
  <2>1. \A n \in DOMAIN builds : runs'[builds[n]].pc = "end"
    BY <1>6 DEF ReviewInv, BuildsInv
  <2>2. /\ Len(builds') = Len(builds) + 1 /\ builds'[Len(builds) + 1] = r
        /\ \A n \in DOMAIN builds' : (n \in DOMAIN builds /\ builds'[n] = builds[n]) \/ builds'[n] = r
    BY <1>1, <1>2
  <2>3. Len(builds) \in Nat
    BY <1>1
  <2> QED BY <1>2, <1>5, <2>1, <2>2, <2>3 DEF BuildsInv
<1>20. ASSUME ~again PROVE OfferInv(e)
  <2>1. OfferInv(Now)
    BY <1>1, <1>20 DEF ReviewInv
  <2>2. ASSUME NEW y \in Pending(e) PROVE y \in Pending(Now) \/ y \in made
    BY <1>1, <1>11, <1>17 DEF Pending
  <2>3. ASSUME NEW y \in Pending(e), y.kind = "delist", y.ent \in Components
        PROVE  e.comp[y.ent].status = "active" /\ e.comp[y.ent].origin = "scrape"
    <3>1. comp[y.ent].status = "active" /\ comp[y.ent].origin = "scrape"
      BY <1>1, <1>9, <2>1, <2>2, <2>3 DEF OfferInv
    <3> QED BY <1>13, <1>17, <2>3, <3>1
  <2>4. ASSUME NEW y \in Pending(e), y.kind = "update", y.ent \in Platforms
        PROVE  e.plat[y.ent] = "active"
    BY <1>1, <1>9, <1>17, <2>1, <2>2, <2>4 DEF OfferInv
  <2>5. ASSUME NEW p \in Platforms, e.plat[p] # "active", NEW c \in Components
        PROVE  e.link[p][c].status # "active"
    BY <1>1, <1>14, <1>17, <2>1, <2>5 DEF OfferInv
  <2> QED BY <2>3, <2>4, <2>5 DEF OfferInv
<1>21. ASSUME ~again, s.complete PROVE MirrorInv(e, s, r)
  <2>1. OfferInv(Now)
    BY <1>1, <1>21 DEF ReviewInv
  <2>2. ASSUME NEW x \in Diff(s), x.field # "tce" PROVE Open(e, r, x.ent)
    <3>1. PICK y \in made : y.ent = x.ent /\ y.field = x.field
      BY <1>10
    <3>2. y \in e.rows /\ y.run = r /\ y.status = "pending"
      BY <1>2, <1>9, <1>17, <3>1
    <3> QED BY <2>2, <3>1, <3>2 DEF Open
  <2>3. ASSUME NEW c \in Components PROVE Open(e, r, c) \/ PartMirrors(e, s, c)
    <3>1. PartMirrors(Now, s, c) \/ \E x \in Diff(s) : x.ent = c /\ x.field # "tce"
      BY <1>1, <1>4, <1>21, DiffHas
    <3>2. PartMirrors(Now, s, c) => PartMirrors(e, s, c)
      BY <1>1, <1>13, <1>17 DEF PartMirrors
    <3> QED BY <2>2, <3>1, <3>2
  <2>4. ASSUME NEW p \in Platforms PROVE Open(e, r, p) \/ PlatMirrors(e, s, p)
    <3>1. PlatMirrors(Now, s, p) \/ \E x \in Diff(s) : x.ent = p /\ x.field # "tce"
      BY <1>1, <1>4, <1>21, <2>1, DiffHas
    <3>2. PlatMirrors(Now, s, p) => PlatMirrors(e, s, p)
      BY <1>1, <1>14, <1>17 DEF PlatMirrors
    <3> QED BY <2>2, <3>1, <3>2
  <2>5. ASSUME NEW y \in Pending(e), y.run = r, y.kind = "update", y.ent \in Components
        PROVE  e.comp[y.ent].status = "active"
    <3>1. y \in made
      BY <1>11, <1>17, <1>21, <2>5 DEF Pending
    <3> QED BY <1>9, <1>13, <1>17, <2>5, <3>1
  <2> QED BY <2>3, <2>4, <2>5 DEF MirrorInv
<1>22. ReviewInv(e, runs', builds', base', again')
  BY <1>2, <1>5, <1>18, <1>19, <1>20, <1>21 DEF ReviewInv
<1>23. builds' \in Seq(DOMAIN runs') /\ base' \in {0} \cup DOMAIN runs'
  BY <1>1, <1>2, <1>5
<1>24. Types(Now', runs', builds', base', again', detours')
  BY <1>1, <1>2, <1>5, <1>16, <1>23 DEF Types
<1> QED BY <1>16, <1>22, <1>24 DEF Inv

-----------------------------------------------------------------------------
(* The theorems. *)

LEMMA InitInv == Init => Inv
<1> SUFFICES ASSUME Init PROVE Inv
  OBVIOUS
<1>1. /\ rows = {} /\ runs = <<>> /\ builds = <<>> /\ base = 0 /\ again = FALSE /\ detours = 0
  BY DEF Init
<1>2. /\ comp \in [Components -> Parts] /\ plat \in [Platforms -> Status]
      /\ link \in [Platforms -> [Components -> Edges]]
      /\ \A p \in Platforms : plat[p] # "active" => \A c \in Components : link[p][c].status # "active"
  <2>1. CASE Empty
    <3>1. (CHOOSE t \in Texts : TRUE) \in Texts
      BY ReviewAssumption
    <3> QED BY <2>1, <3>1 DEF Empty, Parts, Edges, Status, Origin
  <2>2. CASE \E s \in Sites : Mirroring(s)
    <3>1. PICK s \in Sites : Mirroring(s)
      BY <2>2
    <3>2. s \in Snapshots
      BY ReviewAssumption
    <3>3. /\ \A c \in Components : s.text[c] \in Texts /\ TceOf(s, c) \in BOOLEAN
          /\ \A p \in Platforms, c \in Components :
                Marked(s, p, c) \in BOOLEAN /\ (Lists(s, p, c) => p \in Paged(s))
      BY <3>2, SnapTypes
    <3> QED BY <3>1, <3>3 DEF Mirroring, Parts, Edges, Status, Origin
  <2> QED BY <2>1, <2>2 DEF Init
<1>3. Now.comp = comp /\ Now.plat = plat /\ Now.link = link /\ Now.rows = {}
  BY <1>1 DEF Now
<1>4. Now \in Catalogs(runs)
  BY <1>1, <1>2 DEF Now, Catalogs
<1>5. Types(Now, runs, builds, base, again, detours)
  <2>1. runs \in Seq(RunRecords) /\ builds \in Seq(DOMAIN runs)
    BY <1>1
  <2>2. MaxDetours \in Nat
    BY ReviewAssumption
  <2>3. base \in {0} \cup DOMAIN runs /\ detours \in 0..MaxDetours
    BY <1>1, <2>2
  <2>4. again \in BOOLEAN
    BY <1>1
  <2> QED BY <1>4, <2>1, <2>3, <2>4 DEF Types
<1>6. ReviewInv(Now, runs, builds, base, again)
  BY <1>1, <1>2, <1>3 DEF ReviewInv, RowsInv, LookInv, BuildsInv, OfferInv, Pending
<1> QED BY <1>5, <1>6 DEF Inv

LEMMA NextInv == Inv /\ [Next]_vars => Inv'
<1> SUFFICES ASSUME Inv, [Next]_vars PROVE Inv'
  OBVIOUS
<1>1. CASE StartScrape \/ ImportSnapshot \/ Crash
  BY <1>1, RunsKeep
<1>2. CASE \E r \in DOMAIN runs : TimeOut(r) \/ Thread(r)
  BY <1>2, ThreadKeeps, BuildKeeps DEF Thread
<1>3. CASE \E x \in rows : Approve(x) \/ Reject(x)
  BY <1>3, ApproveKeeps, RejectKeeps
<1>4. CASE ApproveAll \/ RejectAll
  BY <1>4, ApproveAllKeeps, RejectKeeps
<1>5. CASE \E c \in Components : Withdraw(c)
  BY <1>5, WithdrawKeeps
<1>6. CASE \E c \in Components, ps \in SUBSET Platforms, t \in Texts : AcceptPart(c, ps, t)
  BY <1>6, AcceptPartKeeps
<1>7. CASE UNCHANGED vars
  BY <1>7 DEF vars, catalog, Inv, Types, ReviewInv, Now
<1> QED BY <1>1, <1>2, <1>3, <1>4, <1>5, <1>6, <1>7 DEF Next

LEMMA InvAlways == Spec => []Inv
BY InitInv, NextInv, PTL DEF Spec

\* Every row is of a recorded run and a known entity, and the catalog's and the runs'
\* columns hold what the models declare, through every decision and every build.
THEOREM HclTypeCorrect == Spec => []TypeOK
<1>1. Inv => TypeOK
  BY TypesAre DEF Inv
<1> QED BY <1>1, InvAlways, PTL

\* A row still on offer is from the last run that looked at its entity: record_changes
\* and supersede_stale together leave nothing that a newer run did not confirm, also
\* when runs are built in another order than they were started.
THEOREM OffersAreUpToDate == Spec => []PendingIsFromTheLatestLook
<1>1. Inv => PendingIsFromTheLatestLook
  BY DEF Inv, ReviewInv, LookInv, PendingIsFromTheLatestLook, Pending, Now
<1> QED BY <1>1, InvAlways, PTL

\* No row on offer would delist a part accepted ahead of publication, nor its link to a
\* platform that stays (diff_snapshot, _sync_components and touch_seen agree on whose
\* part it is), as long as no decided row was approved again.
THEOREM AcceptedPartsStay == Spec => []PreviewIsImmune
<1>1. Inv => PreviewIsImmune
  <2> SUFFICES ASSUME Inv, ~again, NEW x \in rows, x.status = "pending"
               PROVE  LET after == Apply(Now, x) IN
            /\ \A c \in Components : comp[c].status = "active" /\ comp[c].origin = "preview" =>
                   after.comp[c].status = "active"
            /\ \A p \in Platforms, c \in Components :
                   Linked(p, c) /\ link[p][c].origin = "preview" /\ after.plat[p] # "delisted" =>
                       after.link[p][c].status = "active"
    BY DEF PreviewIsImmune
  <2> DEFINE after == Apply(Now, x)
             s == runs[x.run].snap
  <2>1. /\ Now \in Catalogs(runs) /\ runs \in Seq(RunRecords) /\ x \in Pending(Now)
        /\ RowsInv(Now, runs, builds) /\ OfferInv(Now)
        /\ Now.comp = comp /\ Now.plat = plat /\ Now.link = link /\ Now.rows = rows
    BY DEF Inv, Types, ReviewInv, Now, Pending
  <2>2. x \in Now.rows /\ Shape(x, s) /\ x \in RowRecords(runs)
    BY <2>1 DEF RowsInv, Catalogs
  <2>3. Applied(Now, after, x, s)
    BY <2>1, <2>2, ApplyIs
  <2>4. x.kind \in Kinds /\ (x.kind = "delist" /\ x.ent \in Components => comp[x.ent].origin = "scrape")
    BY <2>1, <2>2 DEF RowRecords, OfferInv
  <2>5. plat \in [Platforms -> Status]
    BY <2>1 DEF Catalogs
  <2> HIDE DEF after, s
  <2>6. ASSUME NEW c \in Components, comp[c].status = "active", comp[c].origin = "preview"
        PROVE  after.comp[c].status = "active"
    <3>1. CASE Synced(runs, Now, after, x.ent, s)
      BY <2>1, <2>6, <3>1 DEF Synced
    <3>2. CASE after.comp = Now.comp
      BY <2>1, <2>6, <3>2
    <3>3. CASE x.ent \in Components /\ PartIs(Now, after, x, s)
      BY <2>1, <2>4, <2>6, <3>3 DEF PartIs, Kinds
    <3> QED BY <2>3, <3>1, <3>2, <3>3 DEF Applied
  <2>7. ASSUME NEW p \in Platforms, NEW c \in Components, Linked(p, c),
               link[p][c].origin = "preview", after.plat[p] # "delisted"
        PROVE  after.link[p][c].status = "active"
    <3>0. link[p][c].status = "active"
      BY <2>7 DEF Linked
    <3>1. CASE Synced(runs, Now, after, x.ent, s)
      <4>1. CASE p = x.ent
        BY <2>1, <2>7, <3>0, <3>1, <4>1 DEF Synced
      <4>2. CASE p # x.ent
        BY <2>1, <2>7, <3>0, <3>1, <4>2 DEF Synced
      <4> QED BY <4>1, <4>2
    <3>2. CASE /\ x.ent \in Platforms /\ after.plat = [Now.plat EXCEPT ![x.ent] = "delisted"]
               /\ \A q \in Platforms \ {x.ent} : after.link[q] = Now.link[q]
      BY <2>1, <2>5, <2>7, <3>0, <3>2
    <3>3. CASE PartIs(Now, after, x, s)
      BY <2>1, <2>7, <3>0, <3>3 DEF PartIs
    <3> QED BY <2>3, <3>1, <3>2, <3>3 DEF Applied
  <2> QED BY <2>6, <2>7 DEF after
<1> QED BY <1>1, InvAlways, PTL

\* Once the rows of the last complete run are all approved, in whatever order and one by
\* one or in a batch, the catalog lists and describes what the site does, and beside it
\* only what was accepted ahead of publication, as long as no decided row was approved
\* again (apply_change, process_changes).
THEOREM ApprovedMirrors == Spec => []ApprovalMirrorsTheSite
<1>1. Inv => ApprovalMirrorsTheSite
  <2> SUFFICES ASSUME Inv, AllApproved, ~again PROVE ApprovalMirrorsTheSite
    BY DEF ApprovalMirrorsTheSite
  <2> DEFINE s == runs[base].snap
  <2>1. MirrorInv(Now, s, base) /\ Now.comp = comp /\ Now.plat = plat /\ Now.link = link /\ Now.rows = rows
    BY DEF Inv, ReviewInv, AllApproved, Now
  <2> HIDE DEF s
  <2>2. \A k : ~Open(Now, base, k)
    BY <2>1 DEF AllApproved, Open
  <2>3. \A c \in Components : PartMirrors(Now, s, c)
    BY <2>1, <2>2 DEF MirrorInv
  <2>4. \A p \in Platforms : PlatMirrors(Now, s, p)
    BY <2>1, <2>2 DEF MirrorInv
  <2>5. ASSUME NEW p \in Platforms
        PROVE  /\ plat[p] = "active" <=> p \in Paged(s)
               /\ \A c \in Components :
                    IF Lists(s, p, c) THEN Linked(p, c)
                    ELSE Linked(p, c) => link[p][c].origin = "preview"
    BY <2>1, <2>4 DEF PlatMirrors, Linked
  <2>6. ASSUME NEW c \in Components
        PROVE  IF c \in Found(s) THEN comp[c].status = "active" /\ comp[c].text = s.text[c]
               ELSE comp[c].status = "active" => comp[c].origin = "preview"
    BY <2>1, <2>3 DEF PartMirrors
  <2> QED BY <2>5, <2>6 DEF ApprovalMirrorsTheSite, s
<1> QED BY <1>1, InvAlways, PTL
=============================================================================
