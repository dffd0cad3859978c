-------------------------- MODULE ImportMergeProofs --------------------------
(***************************************************************************)
(* Theorems of ImportMerge, for any files, uploads, choices and edits.     *)
(* The merge dialog shows what the server made of the choices on the form, *)
(* whatever order its answers come in (what Merge computes plays no part   *)
(* in it); the summary is of the rows; an append made for the list on the  *)
(* screen keeps every edit with its VM.                                    *)
(***************************************************************************)
EXTENDS ImportMerge, FiniteSetTheorems, NaturalsInduction, TLAPS

\* A dialog is a record of these fields.
Dialog(d) ==
    d = [id |-> d.id, data |-> d.data, refs |-> d.refs, resolutions |-> d.resolutions,
         mapping |-> d.mapping, result |-> d.result, new |-> d.new, append |-> d.append,
         edition |-> d.edition, chosen |-> d.chosen]

\* The request m asks for what the form of the dialog d says.
AsksFor(m, d) ==
    m.data = d.data /\ m.resolutions = d.resolutions /\ m.mapping = d.mapping

HasItsAnswer(d) == d.result = Merge(d.data, d.resolutions, d.mapping)

\* Requests are numbered up to seq; the one numbered seq, while it is out, is of the
\* form as it stands; when it is not, an open dialog has its answer.
FormInv(d, shown, n, out) ==
    /\ n \in Nat
    /\ \A m \in out : m.seq \in Nat /\ m.seq <= n
    /\ shown => d # NoDialog
    /\ d # NoDialog => Dialog(d)
    /\ d # NoDialog => \A m \in out : m.seq = n => AsksFor(m, d)
    /\ shown => (\E m \in out : m.seq = n) \/ HasItsAnswer(d)

CurrentInv == FormInv(dialog, showing, seq, net)

-----------------------------------------------------------------------------
LEMMA DialogIsThere == ASSUME NEW d, Dialog(d) PROVE d # NoDialog
BY DEF Dialog, NoDialog

\* A new request is of the form as it stands from then on.
LEMMA RefreshKeeps ==
    ASSUME NEW d, NEW first, CurrentInv, Dialog(d), Refresh(d, first), UNCHANGED showing
    PROVE  CurrentInv'
<1> DEFINE m0 == [seq |-> seq + 1, data |-> d.data, first |-> first,
                  resolutions |-> d.resolutions, mapping |-> d.mapping]
<1>1. seq \in Nat /\ seq' = seq + 1 /\ dialog' = d /\ net' = net \cup {m0}
  BY DEF CurrentInv, FormInv, Refresh
<1>2. m0.seq = seq + 1 /\ AsksFor(m0, d)
  BY DEF AsksFor
<1>3. \A m \in net : m.seq \in Nat /\ m.seq <= seq
  BY DEF CurrentInv, FormInv
<1> HIDE DEF m0
<1>4. \A m \in net' : m.seq \in Nat /\ m.seq <= seq'
  BY <1>1, <1>2, <1>3
<1>5. \A m \in net' : m.seq = seq' => AsksFor(m, dialog')
  BY <1>1, <1>2, <1>3
<1>6. \E m \in net' : m.seq = seq'
  BY <1>1, <1>2
<1>7. dialog' # NoDialog
  BY <1>1, DialogIsThere
<1> QED BY <1>1, <1>4, <1>5, <1>6, <1>7 DEF CurrentInv, FormInv

LEMMA DialogEdited ==
    ASSUME NEW d, Dialog(d), NEW x, NEW y
    PROVE  Dialog([d EXCEPT !.resolutions = x, !.mapping = y, !.chosen = TRUE])
<1> DEFINE g == [d EXCEPT !.resolutions = x, !.mapping = y, !.chosen = TRUE]
           Records == [id : {d.id}, data : {d.data}, refs : {d.refs},
                       resolutions : {d.resolutions, x}, mapping : {d.mapping, y},
                       result : {d.result}, new : {d.new}, append : {d.append},
                       edition : {d.edition}, chosen : {d.chosen, TRUE}]
<1>1. d \in Records
  BY DEF Dialog
<1>2. g \in Records
  BY <1>1
<1> HIDE DEF g
<1>3. Dialog(g)
  BY <1>2 DEF Dialog
<1> QED BY <1>3 DEF g

LEMMA ChooseKeeps ==
    ASSUME NEW resolutions, NEW mapping, CurrentInv, Choose(resolutions, mapping)
    PROVE  CurrentInv'
<1> DEFINE d == [dialog EXCEPT !.resolutions = resolutions, !.mapping = mapping,
                               !.chosen = TRUE]
<1>1. Refresh(d, FALSE) /\ UNCHANGED showing /\ dialog # NoDialog
  BY DEF Choose
<1>2. Dialog(dialog)
  BY <1>1 DEF CurrentInv, FormInv
<1>3. Dialog(d)
  BY <1>2, DialogEdited
<1> QED BY <1>1, <1>3, RefreshKeeps

LEMMA OpenDialogKeeps ==
    ASSUME NEW u, NEW data, NEW old, CurrentInv, OpenDialog(u, data, old)
    PROVE  CurrentInv'
<1> DEFINE d == [id |-> u.id, data |-> data, refs |-> old.refs, resolutions |-> <<>>,
                 mapping |-> old.mapping, result |-> None, new |-> DOMAIN data \ DOMAIN old.data,
                 append |-> u.append, edition |-> u.edition, chosen |-> FALSE]
<1>1. Refresh(d, TRUE) /\ UNCHANGED showing
  BY DEF OpenDialog
<1>2. Dialog(d)
  BY DEF Dialog
<1> QED BY <1>1, <1>2, RefreshKeeps

\* The answer that counts is the answer to the form as it stands; the others change
\* nothing.
LEMMA AnswerKeeps ==
    ASSUME NEW m \in net, CurrentInv, MergeAnswered(m)
    PROVE  CurrentInv'
<1>1. net' = net \ {m} /\ seq' = seq
  BY DEF MergeAnswered
<1>2. \A k \in net' : k.seq \in Nat /\ k.seq <= seq'
  BY <1>1 DEF CurrentInv, FormInv
<1>3. CASE ~Latest(m) /\ UNCHANGED <<dialog, showing>>
  <2>1. UNCHANGED <<dialog, showing>>
    BY <1>3
  <2>2. \A k \in net : k.seq = seq => k \in net'
    BY <1>1, <1>3 DEF Latest
  <2> QED BY <1>1, <1>2, <2>1, <2>2 DEF CurrentInv, FormInv
<1>4. CASE Latest(m) /\ showing' = FALSE /\ UNCHANGED dialog
  BY <1>1, <1>2, <1>4 DEF CurrentInv, FormInv
<1>5. CASE Latest(m) /\ dialog = NoDialog /\ UNCHANGED <<dialog, showing>>
  BY <1>1, <1>2, <1>5 DEF CurrentInv, FormInv
<1>6. CASE /\ Latest(m) /\ dialog # NoDialog
           /\ dialog' = [dialog EXCEPT !.result = Merge(m.data, m.resolutions, m.mapping)]
  <2>1. Dialog(dialog) /\ AsksFor(m, dialog)
    BY <1>6 DEF CurrentInv, FormInv, Latest
  <2> DEFINE answer == Merge(m.data, m.resolutions, m.mapping)
  <2> HIDE DEF answer
  <2>2. dialog' = [dialog EXCEPT !.result = answer]
    BY <1>6 DEF answer
  <2>3. /\ Dialog(dialog') /\ dialog'.result = answer /\ dialog'.data = dialog.data
        /\ dialog'.resolutions = dialog.resolutions /\ dialog'.mapping = dialog.mapping
    BY <2>1, <2>2 DEF Dialog
  <2>4. answer = Merge(dialog'.data, dialog'.resolutions, dialog'.mapping)
    BY <2>1, <2>3 DEF answer, AsksFor
  <2>5. \A k \in net' : k.seq = seq' => AsksFor(k, dialog')
    BY <1>1, <1>6, <2>3 DEF CurrentInv, FormInv, AsksFor
  <2>6. dialog' # NoDialog
    BY <2>3, DialogIsThere
  <2> QED BY <1>1, <1>2, <2>3, <2>4, <2>5, <2>6 DEF CurrentInv, FormInv, HasItsAnswer
<1> QED BY <1>3, <1>4, <1>5, <1>6, Zenon DEF MergeAnswered

\* What else changes the dialog closes it.
LEMMA ClosedKeeps ==
    ASSUME CurrentInv, UNCHANGED <<seq, net>>, showing' = FALSE,
           dialog' \in {dialog, NoDialog}
    PROVE  CurrentInv'
BY DEF CurrentInv, FormInv

LEMMA FinishCloses ==
    ASSUME NEW j, Finish(j)
    PROVE  showing' = FALSE /\ dialog' \in {dialog, NoDialog}
BY DEF Finish

LEMMA UnchangedKeeps ==
    ASSUME CurrentInv, UNCHANGED form
    PROVE  CurrentInv'
BY DEF CurrentInv, form

LEMMA UserKeeps == ASSUME CurrentInv, User PROVE CurrentInv'
<1>1. CASE \E e \in Entities : AddVm(e)
  BY <1>1, UnchangedKeeps DEF AddVm
<1>2. CASE \E i \in DOMAIN vms : Touch(i)
  BY <1>2, UnchangedKeeps DEF Touch
<1>3. CASE \E files \in (SUBSET Files) \ {{}}, append \in BOOLEAN : StartUpload(files, append)
  BY <1>3, UnchangedKeeps DEF StartUpload
<1>4. CASE MakeChoice
  <2>1. \E resolutions, mapping : Choose(resolutions, mapping)
    BY <1>4 DEF MakeChoice, OnOverlapChoice, KeepNewest, KeepBothVms, AllSeparate, AllInOne,
                OnMergeTargetChange, RenameMergeTarget
  <2> QED BY <2>1, ChooseKeeps
<1>5. CASE CloseDialog
  BY <1>5, ClosedKeeps DEF CloseDialog
<1>6. CASE CreatePerClusterSizings
  <2>1. UNCHANGED <<seq, net>>
    BY <1>6 DEF CreatePerClusterSizings
  <2>2. (\E j : Finish(j)) \/ UNCHANGED <<dialog, showing>>
    BY <1>6 DEF CreatePerClusterSizings
  <2> QED BY <2>1, <2>2, FinishCloses, ClosedKeeps, UnchangedKeeps DEF form
<1> QED BY <1>1, <1>2, <1>3, <1>4, <1>5, <1>6 DEF User

LEMMA ReadingKeeps ==
    ASSUME NEW u \in uploads, CurrentInv, FileRead(u) \/ AllRead(u) \/ ReadAlone(u)
    PROVE  CurrentInv'
<1>1. CASE FileRead(u)
  BY <1>1, UnchangedKeeps DEF FileRead
<1>2. CASE AllRead(u)
  BY <1>2, UnchangedKeeps, OpenDialogKeeps DEF AllRead
<1>3. CASE ReadAlone(u)
  <2>1. UNCHANGED form \/ \E data, old : OpenDialog(u, data, old)
    BY <1>3 DEF ReadAlone
  <2> QED BY <2>1, UnchangedKeeps, OpenDialogKeeps
<1> QED BY <1>1, <1>2, <1>3

LEMMA SaveKeeps == ASSUME CurrentInv, SaveAnswered PROVE CurrentInv'
<1>1. UNCHANGED <<seq, net>>
  BY DEF SaveAnswered
<1>2. \/ \E j : Finish(j)
      \/ UNCHANGED <<dialog, showing>>
      \/ showing' = FALSE /\ UNCHANGED dialog
  BY DEF SaveAnswered
<1> QED BY <1>1, <1>2, FinishCloses, ClosedKeeps, UnchangedKeeps DEF form

LEMMA CurrentNext == ASSUME CurrentInv, [Next]_vars PROVE CurrentInv'
<1>1. CASE User
  BY <1>1, UserKeeps
<1>2. CASE Reading
  BY <1>2, ReadingKeeps DEF Reading
<1>3. CASE Answered
  BY <1>3, AnswerKeeps DEF Answered
<1>4. CASE SaveAnswered
  BY <1>4, SaveKeeps
<1>5. CASE UNCHANGED vars
  BY <1>5, UnchangedKeeps DEF vars
<1> QED BY <1>1, <1>2, <1>3, <1>4, <1>5 DEF Next

LEMMA CurrentAlways == Spec => []CurrentInv
<1>1. Init => CurrentInv
  BY DEF Init, CurrentInv, FormInv
<1>2. CurrentInv /\ [Next]_vars => CurrentInv'
  BY CurrentNext
<1> QED BY <1>1, <1>2, PTL DEF Spec

\* The open dialog shows what the server made of the choices on the form, unless the
\* request for them is out (refreshMerge and its mergeSeq): for any files, any number of
\* uploads, choices and answers, in any order.
THEOREM DialogShowsTheForm == Spec => []DialogIsCurrent
<1>1. CurrentInv => DialogIsCurrent
  BY DEF CurrentInv, FormInv, HasItsAnswer, DialogIsCurrent
<1> QED BY <1>1, CurrentAlways, PTL

-----------------------------------------------------------------------------
(* Lists of rows and of references.  A set with least elements, if finite,   *)
(* can be listed in its order: a smallest counterexample would lose its      *)
(* least element and be a smaller one.                                       *)

LEMMA LeastNumber ==
    ASSUME NEW T \in SUBSET Nat, T # {}
    PROVE  \E m \in T : \A n \in T : m <= n
<1>1. \E m \in T : \A n \in T : <<n, m>> \notin OpToRel(<, Nat)
  BY NatLessThanWellFounded, WFMin
<1>2. \A n, m \in Nat : n < m => <<n, m>> \in OpToRel(<, Nat)
  BY SMT DEF OpToRel
<1>3. PICK m \in T : \A n \in T : <<n, m>> \notin OpToRel(<, Nat)
  BY <1>1
<1>4. \A n \in T : ~(n < m)
  BY <1>2, <1>3
<1>5. \A n \in T : m <= n
  BY <1>4
<1> QED BY <1>5

\* Every nonempty set of these has one that comes before all others.
HaveLeast(S, Less) ==
    \A T \in SUBSET S : T # {} => \E m \in T : \A k \in T \ {m} : <<m, k>> \in Less

InLine(q, Less) == \A i, k \in DOMAIN q : i < k => <<q[i], q[k]>> \in Less

LEMMA OrderExists ==
    ASSUME NEW S, IsFiniteSet(S), NEW Less, HaveLeast(S, Less)
    PROVE  \E q \in [1..Cardinality(S) -> S] : InLine(q, Less)
<1> DEFINE Bad == {n \in Nat : \E U \in SUBSET S :
                        /\ IsFiniteSet(U) /\ Cardinality(U) = n
                        /\ ~ \E q \in [1..Cardinality(U) -> U] : InLine(q, Less)}
<1> SUFFICES ASSUME Bad # {} PROVE FALSE
  BY FS_CardinalityType
<1>1. PICK n \in Bad : \A k \in Bad : n <= k
  BY LeastNumber
<1>2. PICK U \in SUBSET S : /\ IsFiniteSet(U) /\ Cardinality(U) = n
                            /\ ~ \E q \in [1..Cardinality(U) -> U] : InLine(q, Less)
  BY <1>1
<1>3. CASE U = {}
  <2>1. Cardinality(U) = 0
    BY <1>3, FS_EmptySet
  <2>2. [i \in 1..0 |-> 0] \in [1..0 -> U] /\ InLine([i \in 1..0 |-> 0], Less)
    BY <1>3 DEF InLine
  <2> QED BY <1>2, <2>1, <2>2
<1>4. CASE U # {}
  <2>1. PICK m \in U : \A k \in U \ {m} : <<m, k>> \in Less
    BY <1>4 DEF HaveLeast
  <2> DEFINE V == U \ {m}
  <2>2. IsFiniteSet(V) /\ Cardinality(V) = n - 1 /\ n - 1 \in Nat
    <3>1. IsFiniteSet(V) /\ Cardinality(V) = Cardinality(U) - 1
      BY <1>2, <2>1, FS_RemoveElement
    <3>2. Cardinality(V) \in Nat
      BY <3>1, FS_CardinalityType
    <3> QED BY <1>2, <3>1, <3>2
  <2>3. n - 1 \notin Bad
    BY <1>1, <2>2
  <2>4. PICK q \in [1..(n - 1) -> V] : InLine(q, Less)
    BY <2>2, <2>3
  <2> DEFINE r == [i \in 1..n |-> IF i = 1 THEN m ELSE q[i - 1]]
  <2>5. \A i \in 1..n : i # 1 => i - 1 \in 1..(n - 1)
    BY <1>1
  <2>6. r \in [1..n -> U]
    BY <2>1, <2>4, <2>5
  <2>7. InLine(r, Less)
    <3> SUFFICES ASSUME NEW i \in 1..n, NEW j \in 1..n, i < j PROVE <<r[i], r[j]>> \in Less
      BY DEF InLine
    <3>1. r[j] = q[j - 1] /\ j - 1 \in 1..(n - 1) /\ q[j - 1] \in V
      BY <1>1, <2>4
    <3>2. CASE i = 1
      BY <2>1, <3>1, <3>2
    <3>3. CASE i # 1
      <4>1. r[i] = q[i - 1] /\ i - 1 \in 1..(n - 1) /\ i - 1 < j - 1
        BY <1>1, <3>3
      <4> QED BY <2>4, <3>1, <4>1 DEF InLine
    <3> QED BY <3>2, <3>3
  <2> QED BY <1>2, <2>6, <2>7
<1> QED BY <1>3, <1>4

\* A list of the elements of a set, each once.
Listing(q, S) ==
    /\ q \in Seq(S)
    /\ \A i, k \in DOMAIN q : q[i] = q[k] => i = k
    /\ \A s \in S : \E i \in DOMAIN q : q[i] = s

LEMMA InLineLists ==
    ASSUME NEW S, IsFiniteSet(S), NEW Less, \A s \in S : <<s, s>> \notin Less,
           NEW q \in [1..Cardinality(S) -> S], InLine(q, Less)
    PROVE  Listing(q, S)
<1> DEFINE n == Cardinality(S)
<1>1. n \in Nat
  BY FS_CardinalityType
<1>2. q \in Seq(S) /\ DOMAIN q = 1..n
  BY <1>1
<1>3. \A i, k \in 1..n : q[i] = q[k] => i = k
  <2> SUFFICES ASSUME NEW i \in 1..n, NEW k \in 1..n, q[i] = q[k], i # k PROVE FALSE
    OBVIOUS
  <2>1. i < k \/ k < i
    BY <1>1
  <2>2. <<q[i], q[i]>> \in Less
    BY <2>1 DEF InLine
  <2> QED BY <2>2
<1>4. Cardinality(1..n) = n /\ IsFiniteSet(1..n)
  BY <1>1, FS_Interval
<1>5. q \in Injection(1..n, S)
  BY <1>3 DEF Injection, IsInjective
<1>6. q \in Surjection(1..n, S)
  BY <1>4, <1>5, FS_Injection
<1>7. \A s \in S : \E i \in 1..n : q[i] = s
  BY <1>6 DEF Surjection
<1> QED BY <1>2, <1>3, <1>7 DEF Listing

LEMMA AscendingLists ==
    ASSUME NEW S \in SUBSET Nat, IsFiniteSet(S)
    PROVE  Listing(Ascending(S), S)
<1> DEFINE Less == {p \in Nat \X Nat : p[1] < p[2]}
<1>1. HaveLeast(S, Less)
  <2> SUFFICES ASSUME NEW T \in SUBSET S, T # {}
               PROVE  \E m \in T : \A k \in T \ {m} : <<m, k>> \in Less
    BY DEF HaveLeast
  <2>1. PICK m \in T : \A k \in T : m <= k
    BY LeastNumber
  <2>2. \A k \in T \ {m} : m \in Nat /\ k \in Nat /\ m < k
    BY <2>1
  <2> QED BY <2>1, <2>2
<1>2. \A a, b \in Nat : <<a, b>> \in Less <=> a < b
  OBVIOUS
<1> HIDE DEF Less
<1>3. \E q \in [1..Cardinality(S) -> S] : InLine(q, Less)
  BY <1>1, OrderExists
<1>4. \A q \in [1..Cardinality(S) -> S] :
         InLine(q, Less) <=> \A i, k \in DOMAIN q : i < k => q[i] < q[k]
  <2> SUFFICES ASSUME NEW q \in [1..Cardinality(S) -> S]
               PROVE  InLine(q, Less) <=> \A i, k \in DOMAIN q : i < k => q[i] < q[k]
    OBVIOUS
  <2>1. \A i \in DOMAIN q : q[i] \in Nat
    OBVIOUS
  <2> QED BY <1>2, <2>1 DEF InLine
<1>5. Ascending(S) \in [1..Cardinality(S) -> S] /\ InLine(Ascending(S), Less)
  BY <1>3, <1>4 DEF Ascending
<1>6. \A s \in S : <<s, s>> \notin Less
  BY <1>2
<1> QED BY <1>5, <1>6, InLineLists

\* Of a set of references the first comes before the others.
LEMMA FirstComesFirst ==
    ASSUME NEW T \in SUBSET (Nat \X Nat), T # {}
    PROVE  \E m \in T : \A s \in T \ {m} : Earlier(m, s)
<1> DEFINE Fs == {r[1] : r \in T}
<1>1. Fs \in SUBSET Nat /\ Fs # {}
  OBVIOUS
<1>2. PICK f \in Fs : \A g \in Fs : f <= g
  BY <1>1, LeastNumber
<1> DEFINE Ns == {r[2] : r \in {s \in T : s[1] = f}}
<1>3. Ns \in SUBSET Nat /\ Ns # {}
  BY <1>2
<1>4. PICK n \in Ns : \A k \in Ns : n <= k
  <2> HIDE DEF Ns
  <2> QED BY <1>3, LeastNumber
<1>5. PICK m \in T : m[1] = f /\ m[2] = n
  BY <1>4
<1>6. ASSUME NEW s \in T \ {m} PROVE Earlier(m, s)
  <2>1. s[1] \in Nat /\ s[2] \in Nat /\ m[1] \in Nat /\ m[2] \in Nat
    OBVIOUS
  <2>2. s = <<s[1], s[2]>> /\ m = <<m[1], m[2]>>
    OBVIOUS
  <2>3. s[1] # m[1] \/ s[2] # m[2]
    BY <2>2, <1>6
  <2>4. f <= s[1]
    BY <1>2
  <2>5. s[1] = f => s[2] \in Ns
    OBVIOUS
  <2>6. s[1] = f => n <= s[2]
    BY <2>5, <1>4
  <2> HIDE DEF Ns, Fs
  <2> QED BY <1>5, <2>1, <2>3, <2>4, <2>6 DEF Earlier
<1> QED BY <1>5, <1>6

LEMMA FirstIsOne ==
    ASSUME NEW T \in SUBSET (Nat \X Nat), T # {}
    PROVE  First(T) \in T
<1>1. \E m \in T : \A s \in T \ {m} : Earlier(m, s)
  BY FirstComesFirst
<1> QED BY <1>1 DEF First

LEMMA InOrderLists ==
    ASSUME NEW S \in SUBSET (Nat \X Nat), IsFiniteSet(S)
    PROVE  Listing(InOrder(S), S)
<1> DEFINE Less == {p \in (Nat \X Nat) \X (Nat \X Nat) : Earlier(p[1], p[2])}
<1>2. \A a, b \in Nat \X Nat : <<a, b>> \in Less <=> Earlier(a, b)
  OBVIOUS
<1> HIDE DEF Less
<1>1. HaveLeast(S, Less)
  <2> SUFFICES ASSUME NEW T \in SUBSET S, T # {}
               PROVE  \E m \in T : \A k \in T \ {m} : <<m, k>> \in Less
    BY DEF HaveLeast
  <2>1. PICK m \in T : \A k \in T \ {m} : Earlier(m, k)
    BY FirstComesFirst
  <2> QED BY <1>2, <2>1
<1>3. \E q \in [1..Cardinality(S) -> S] : InLine(q, Less)
  BY <1>1, OrderExists
<1>4. \A q \in [1..Cardinality(S) -> S] :
         InLine(q, Less) <=> \A i, k \in DOMAIN q : i < k => Earlier(q[i], q[k])
  <2> SUFFICES ASSUME NEW q \in [1..Cardinality(S) -> S]
               PROVE  InLine(q, Less) <=> \A i, k \in DOMAIN q : i < k => Earlier(q[i], q[k])
    OBVIOUS
  <2>1. \A i \in DOMAIN q : q[i] \in Nat \X Nat
    OBVIOUS
  <2> QED BY <1>2, <2>1 DEF InLine
<1>5. InOrder(S) \in [1..Cardinality(S) -> S] /\ InLine(InOrder(S), Less)
  BY <1>3, <1>4 DEF InOrder
<1>6. \A s \in S : <<s, s>> \notin Less
  <2>1. \A s \in Nat \X Nat : ~Earlier(s, s)
    BY DEF Earlier
  <2> QED BY <1>2, <2>1
<1> QED BY <1>5, <1>6, InLineLists

LEMMA MinIsOne ==
    ASSUME NEW T \in SUBSET Nat, T # {}
    PROVE  Min(T) \in T
<1>1. \E m \in T : \A n \in T : m <= n
  BY LeastNumber
<1> QED BY <1>1 DEF Min

\* Every nonempty finite set of numbers has a greatest: otherwise "the next one" would
\* be an injection into the set that misses its least element.
LEMMA NewestIsOne ==
    ASSUME NEW T \in SUBSET Nat, IsFiniteSet(T), T # {}
    PROVE  Newest(T) \in T
<1>1. \E m \in T : \A n \in T : m >= n
  <2> SUFFICES ASSUME \A m \in T : \E n \in T : m < n PROVE FALSE
    OBVIOUS
  <2> DEFINE Above(m) == {n \in T : m < n}
             next == [m \in T |-> CHOOSE n \in Above(m) : \A k \in Above(m) : n <= k]
  <2>1. ASSUME NEW m \in T
        PROVE  next[m] \in T /\ m < next[m] /\ \A k \in T : m < k => next[m] <= k
    <3>1. Above(m) \in SUBSET Nat /\ Above(m) # {}
      OBVIOUS
    <3>2. \E n \in Above(m) : \A k \in Above(m) : n <= k
      BY <3>1, LeastNumber
    <3>3. next[m] \in Above(m) /\ \A k \in Above(m) : next[m] <= k
      BY <3>2
    <3> QED BY <3>3
  <2>2. next \in [T -> T]
    BY <2>1
  <2> HIDE DEF next
  <2>3. \A a, b \in T : a < b => next[a] # next[b]
    <3> SUFFICES ASSUME NEW a \in T, NEW b \in T, a < b PROVE next[a] # next[b]
      OBVIOUS
    <3>1. next[a] <= b /\ b < next[b] /\ next[a] \in Nat /\ next[b] \in Nat
      BY <2>1
    <3> QED BY <3>1
  <2>4. \A a, b \in T : next[a] = next[b] => a = b
    <3>1. \A a, b \in T : a < b \/ b < a \/ a = b
      OBVIOUS
    <3> QED BY <2>3, <3>1
  <2>5. next \in Injection(T, T)
    BY <2>2, <2>4 DEF Injection, IsInjective
  <2>6. next \in Surjection(T, T)
    BY <2>5, FS_Injection
  <2>7. PICK m \in T : \A n \in T : m <= n
    BY LeastNumber
  <2>8. PICK k \in T : next[k] = m
    BY <2>6 DEF Surjection
  <2>9. k < m /\ m <= k
    BY <2>1, <2>7, <2>8
  <2> QED BY <2>9
<1> QED BY <1>1 DEF Newest, Max

-----------------------------------------------------------------------------
(* Files and the references into them.                                       *)

\* Files as they are sent: the entities of each in an order.
IsData(data) ==
    DOMAIN data \subseteq Files /\ \A f \in DOMAIN data : data[f] \in Seq(Entities)

\* No file has a VM twice.
Apart(data) == \A f \in DOMAIN data : IsInjective(data[f])

Owners(data, e) == {r[1] : r \in Copies(data, e)}

LEMMA RefsHave ==
    ASSUME NEW data, IsData(data)
    PROVE  /\ RefsIn(data) \in SUBSET (Nat \X Nat)
           /\ \A r \in RefsIn(data) : /\ r[1] \in DOMAIN data /\ r[1] \in Files /\ r[1] \in Nat
                                      /\ r[2] \in DOMAIN data[r[1]] /\ r = <<r[1], r[2]>>
                                      /\ EntOf(data, r) \in Entities
           /\ \A f \in DOMAIN data : \A n \in DOMAIN data[f] : <<f, n>> \in RefsIn(data)
<1>1. \A f \in DOMAIN data : /\ f \in Files /\ f \in Nat /\ data[f] \in Seq(Entities)
                             /\ DOMAIN data[f] = 1..Len(data[f]) /\ Len(data[f]) \in Nat
  BY MergeAssumption DEF IsData
<1>2. ASSUME NEW r \in RefsIn(data)
      PROVE  /\ r \in Nat \X Nat
             /\ r[1] \in DOMAIN data /\ r[2] \in DOMAIN data[r[1]] /\ r = <<r[1], r[2]>>
             /\ EntOf(data, r) \in Entities
  <2>1. PICK f \in DOMAIN data : r \in {f} \X (1..Len(data[f]))
    BY DEF RefsIn
  <2>2. r[1] = f /\ r[2] \in 1..Len(data[f]) /\ r = <<r[1], r[2]>>
    BY <2>1
  <2>3. r[2] \in DOMAIN data[f] /\ f \in Nat /\ r[2] \in Nat /\ data[f] \in Seq(Entities)
    BY <1>1, <2>2
  <2>4. data[f][r[2]] \in Entities
    BY <2>3
  <2> QED BY <2>2, <2>3, <2>4 DEF EntOf
<1>3. ASSUME NEW f \in DOMAIN data, NEW n \in DOMAIN data[f] PROVE <<f, n>> \in RefsIn(data)
  <2>1. <<f, n>> \in {f} \X (1..Len(data[f]))
    BY <1>1
  <2> QED BY <2>1 DEF RefsIn
<1> QED BY <1>1, <1>2, <1>3

LEMMA RefsAreFinite ==
    ASSUME NEW data, IsData(data)
    PROVE  IsFiniteSet(RefsIn(data))
<1> DEFINE Of(f) == {f} \X (1..Len(data[f]))
           P == {Of(f) : f \in DOMAIN data}
           of == [f \in DOMAIN data |-> Of(f)]
<1>1. IsFiniteSet(DOMAIN data)
  BY MergeAssumption, FS_Subset DEF IsData
<1>2. of \in Surjection(DOMAIN data, P)
  BY DEF Surjection
<1>3. ASSUME NEW f \in DOMAIN data PROVE IsFiniteSet(Of(f))
  <2>1. Len(data[f]) \in Nat
    BY DEF IsData
  <2>2. IsFiniteSet({f})
    BY FS_Singleton
  <2>3. IsFiniteSet(1..Len(data[f]))
    BY <2>1, FS_Interval
  <2>4. IsFiniteSet({f} \X (1..Len(data[f])))
    BY <2>2, <2>3, FS_Product
  <2> QED BY <2>4
<1>4. \A T \in P : IsFiniteSet(T)
  BY <1>3
<1> HIDE DEF of
<1>5. IsFiniteSet(P)
  BY <1>1, <1>2, FS_Surjection
<1>6. IsFiniteSet(UNION P)
  <2> HIDE DEF P
  <2> QED BY <1>4, <1>5, FS_UNION
<1> QED BY <1>6 DEF RefsIn

\* A VM is once in a file.
LEMMA OneCopyAFile ==
    ASSUME NEW data, IsData(data), Apart(data),
           NEW r \in RefsIn(data), NEW s \in RefsIn(data),
           r[1] = s[1], EntOf(data, r) = EntOf(data, s)
    PROVE  r = s
<1>1. r[2] \in DOMAIN data[r[1]] /\ s[2] \in DOMAIN data[r[1]] /\ r[1] \in DOMAIN data
  BY RefsHave
<1>2. data[r[1]][r[2]] = data[r[1]][s[2]]
  BY DEF EntOf
<1>3. IsInjective(data[r[1]])
  BY <1>1 DEF Apart
<1>4. r[2] = s[2]
  BY <1>1, <1>2, <1>3 DEF IsInjective
<1> QED BY <1>4, RefsHave

FromFiles(data) == \A f \in DOMAIN data : data[f] = Content[f]

LEMMA FilesAreData ==
    ASSUME NEW data, DOMAIN data \subseteq Files, FromFiles(data)
    PROVE  IsData(data) /\ Apart(data)
BY MergeAssumption DEF IsData, Apart, FromFiles

LEMMA OwnersAreFiles ==
    ASSUME NEW data, IsData(data), NEW e
    PROVE  /\ Owners(data, e) \in SUBSET Files /\ Owners(data, e) \in SUBSET Nat
           /\ IsFiniteSet(Owners(data, e))
           /\ Copies(data, e) # {} => Newest({r[1] : r \in Copies(data, e)}) \in Owners(data, e)
<1>1. Owners(data, e) \in SUBSET Files
  BY RefsHave DEF Owners, Copies
<1>2. Owners(data, e) \in SUBSET Nat /\ IsFiniteSet(Owners(data, e))
  BY <1>1, MergeAssumption, FS_Subset
<1>3. Copies(data, e) # {} => Owners(data, e) # {}
  BY DEF Owners
<1>4. Copies(data, e) # {} => Newest(Owners(data, e)) \in Owners(data, e)
  BY <1>2, <1>3, NewestIsOne
<1> QED BY <1>1, <1>2, <1>4 DEF Owners

-----------------------------------------------------------------------------
(* What the server makes of the choices.                                     *)

IsChoice(data, choice) ==
    \A e \in DOMAIN choice : choice[e] \in Owners(data, e) \cup {Both}

IsMapping(mapping) == \A g \in DOMAIN mapping : mapping[g] \in Names \cup {Skip}

\* Of a VM in several files a target has the copy of the choice.
IsCut(cut, choice, data) ==
    /\ cut \in SUBSET RefsIn(data)
    /\ \A r \in cut : EntOf(data, r) \in DOMAIN choice => choice[EntOf(data, r)] \in {r[1], Both}

IsResult(R, data) ==
    /\ IsChoice(data, R.choice)
    /\ \A e \in DOMAIN R.choice : Copies(data, e) # {}
    /\ \A e : \A r, s \in Copies(data, e) : r # s => e \in DOMAIN R.choice
    /\ IsMapping(R.target)
    /\ DOMAIN R.cut \subseteq Names
    /\ \A t \in DOMAIN R.cut : IsCut(R.cut[t], R.choice, data)

LEMMA SeveralCopies ==
    ASSUME NEW C, IsFiniteSet(C)
    PROVE  /\ Cardinality(C) > 1 => C # {}
           /\ \A r, s \in C : r # s => Cardinality(C) > 1
<1>1. Cardinality(C) > 1 => C # {}
  BY FS_EmptySet
<1>2. ASSUME NEW r \in C, NEW s \in C, r # s PROVE Cardinality(C) > 1
  <2>1. Cardinality(C) \in Nat
    BY FS_CardinalityType
  <2>2. Cardinality(C) # 0
    BY FS_EmptySet
  <2>3. Cardinality(C) # 1
    BY <1>2, FS_Singleton
  <2> QED BY <2>1, <2>2, <2>3
<1> QED BY <1>1, <1>2

LEMMA MergeGives ==
    ASSUME NEW data, NEW resolutions, NEW mapping,
           IsData(data), IsChoice(data, resolutions), IsMapping(mapping)
    PROVE  IsResult(Merge(data, resolutions, mapping), data)
<1> DEFINE overlaps == {e \in Entities : Cardinality(Copies(data, e)) > 1}
           choice   == [e \in overlaps |->
                           IF e \in DOMAIN resolutions THEN resolutions[e]
                           ELSE Newest({r[1] : r \in Copies(data, e)})]
           kept     == {r \in RefsIn(data) :
                           EntOf(data, r) \in overlaps => choice[EntOf(data, r)] \in {r[1], Both}}
           groups   == {GroupOf(data, r) : r \in RefsIn(data)}
           target   == [g \in groups |-> IF g \in DOMAIN mapping THEN mapping[g] ELSE g[2]]
           cut      == [t \in {target[GroupOf(data, r)] : r \in kept} \ {Skip} |->
                           {r \in kept : target[GroupOf(data, r)] = t}]
           R        == Merge(data, resolutions, mapping)
<1>1. R = [choice |-> choice, target |-> target, cut |-> cut]
  BY DEF Merge
<1>2. R.choice = choice /\ R.target = target /\ R.cut = cut
  BY <1>1
<1> HIDE DEF R
<1>3. ASSUME NEW e PROVE /\ Cardinality(Copies(data, e)) > 1 => Copies(data, e) # {}
                         /\ \A r, s \in Copies(data, e) : r # s => Cardinality(Copies(data, e)) > 1
  <2>1. IsFiniteSet(RefsIn(data)) /\ Copies(data, e) \in SUBSET RefsIn(data)
    BY RefsAreFinite DEF Copies
  <2>2. IsFiniteSet(Copies(data, e))
    BY <2>1, FS_Subset
  <2> QED BY <2>2, SeveralCopies
<1>4. ASSUME NEW e \in overlaps PROVE choice[e] \in Owners(data, e) \cup {Both}
  <2>1. CASE e \in DOMAIN resolutions
    BY <2>1 DEF IsChoice
  <2>2. CASE e \notin DOMAIN resolutions
    BY <1>3, <2>2, OwnersAreFiles
  <2> QED BY <2>1, <2>2
<1>5. \A e \in overlaps : Copies(data, e) # {}
  BY <1>3
<1>6. ASSUME NEW e, NEW r \in Copies(data, e), NEW s \in Copies(data, e), r # s
      PROVE  e \in overlaps
  <2>1. e \in Entities
    BY RefsHave DEF Copies
  <2> QED BY <1>3, <1>6, <2>1
<1>7. ASSUME NEW r \in RefsIn(data) PROVE target[GroupOf(data, r)] \in Names \cup {Skip}
  <2>1. GroupOf(data, r) \in groups
    OBVIOUS
  <2>2. GroupOf(data, r)[2] \in Names
    <3>1. r[1] \in Files /\ EntOf(data, r) \in Entities
      BY RefsHave
    <3>2. Cluster[r[1]][EntOf(data, r)] \in Names
      BY <3>1, MergeAssumption
    <3> QED BY <3>2 DEF GroupOf
  <2>3. \A g \in DOMAIN mapping : mapping[g] \in Names \cup {Skip}
    BY DEF IsMapping
  <2>4. CASE GroupOf(data, r) \in DOMAIN mapping
    BY <2>1, <2>3, <2>4
  <2>5. CASE GroupOf(data, r) \notin DOMAIN mapping
    BY <2>1, <2>2, <2>5
  <2> QED BY <2>4, <2>5
<1>8. \A g \in groups : target[g] \in Names \cup {Skip}
  BY <1>7
<1>9. DOMAIN cut \subseteq Names
  BY <1>7
<1>10. \A t \in DOMAIN cut : IsCut(cut[t], choice, data)
  BY DEF IsCut
<1> HIDE DEF cut, kept, target
<1>11. IsChoice(data, choice)
  BY <1>4 DEF IsChoice
<1>12. DOMAIN choice = overlaps
  OBVIOUS
<1>13. IsMapping(target)
  BY <1>8 DEF IsMapping, target
<1> HIDE DEF choice, overlaps
<1> QED BY <1>2, <1>5, <1>6, <1>9, <1>10, <1>11, <1>12, <1>13 DEF IsResult, R

-----------------------------------------------------------------------------
(* The rows, and what was made for them.                                     *)

AllRows == [src : Files \cup {None}, ent : Entities]

\* A row is of a file unless the user put it in; a sizing of files has a name.
ScreenInv ==
    /\ vms \in Seq(AllRows)
    /\ added \in SUBSET DOMAIN vms /\ touched \in SUBSET DOMAIN vms
    /\ \A i \in DOMAIN vms : vms[i].src = None <=> i \in added
    /\ sources \in SUBSET Files /\ site \in Names \cup {None}
    /\ sources # {} => site \in Names
    /\ edition \in Nat /\ started \in Nat /\ edits \in Nat /\ showing \in BOOLEAN

\* The imported rows are VMs of the sources, each once, and the summary is of them.
ListInv ==
    /\ \A i \in DOMAIN vms \ added : vms[i].src \in sources
    /\ \A i, k \in DOMAIN vms \ added : vms[i] = vms[k] => i = k
    /\ summary = {vms[i] : i \in DOMAIN vms \ added}

\* The references are of the rows: one for each, and each to its own.
RefsInv(data, refs, list, put, srcs) ==
    /\ srcs \subseteq DOMAIN data
    /\ \A f \in DOMAIN data \ srcs : data[f] = Content[f]
    /\ DOMAIN refs = {r \in RefsIn(data) : r[1] \in srcs}
    /\ \A r \in DOMAIN refs : /\ refs[r] \in DOMAIN list \ put
                              /\ list[refs[r]] = Vm(r[1], EntOf(data, r))
    /\ \A i \in DOMAIN list \ put : \E r \in DOMAIN refs : refs[r] = i
    /\ \A r, s \in DOMAIN refs : refs[r] = refs[s] => r = s

Upload(u) ==
    u = [id |-> u.id, append |-> u.append, left |-> u.left, data |-> u.data,
         edition |-> u.edition, existing |-> u.existing, alone |-> u.alone]

UploadInv(u, n, ed) ==
    /\ Upload(u)
    /\ u.id \in Nat /\ u.id <= n /\ u.edition \in Nat /\ u.edition <= ed
    /\ u.append \in BOOLEAN /\ u.left \in SUBSET Files /\ (u.alone => u.left # {} /\ ~u.append)
    /\ DOMAIN u.data \subseteq Files /\ FromFiles(u.data)
    /\ IsData(u.existing.data) /\ IsMapping(u.existing.mapping)
    /\ ~u.append => u.existing = Nothing

DialogInv(d, n, ed) ==
    /\ Dialog(d)
    /\ d.id \in Nat /\ d.id <= n /\ d.edition \in Nat /\ d.edition <= ed
    /\ d.append \in BOOLEAN /\ IsData(d.data)
    /\ IsChoice(d.data, d.resolutions) /\ IsMapping(d.mapping)
    /\ d.result # None => IsResult(d.result, d.data)
    /\ ~d.append => FromFiles(d.data)

\* What is left of Create has what the dialog had, unless another one took its place.
JobInv(j, d, n) ==
    /\ j = [id |-> j.id, append |-> j.append, data |-> j.data, result |-> j.result,
            home |-> j.home, left |-> j.left, cut |-> j.cut]
    /\ j.id \in Nat /\ j.id <= n /\ j.append \in BOOLEAN
    /\ IsData(j.data) /\ (~j.append => FromFiles(j.data))
    /\ IsCut(j.cut, j.result.choice, j.data) /\ j.home \in Names \cup {None}
    /\ d.id = j.id => d.data = j.data /\ d.append = j.append

UploadsInv ==
    /\ \A u \in uploads : UploadInv(u, started, edition)
    /\ \A u, v \in uploads : u.id = v.id => u = v
    /\ ~mixed => \A u \in uploads : u.append /\ u.edition = edition =>
                     RefsInv(u.existing.data, u.existing.refs, vms, added, sources)

OpenInv ==
    dialog # NoDialog =>
        /\ DialogInv(dialog, started, edition)
        /\ \A u \in uploads : u.id # dialog.id
        /\ ~mixed /\ dialog.append /\ dialog.edition = edition =>
               RefsInv(dialog.data, dialog.refs, vms, added, sources)

CreateInv ==
    job # None =>
        /\ JobInv(job, dialog, started) /\ job.left # {} /\ dialog # NoDialog
        /\ \A u \in uploads : u.id # job.id

MergeInv ==
    ScreenInv /\ (~mixed => ListInv) /\ UploadsInv /\ OpenInv /\ CreateInv /\ CurrentInv

-----------------------------------------------------------------------------
(* What a new list, a new dialog and new rows keep.                          *)

\* A new list makes what was read from the old one out of date.
LEMMA ListReplaced ==
    ASSUME MergeInv, CurrentInv', ScreenInv', ~mixed' => ListInv',
           edition' = edition + 1, started' = started, uploads' \in SUBSET uploads,
           \/ dialog' = NoDialog /\ job' = None
           \/ UNCHANGED <<dialog, job>>
           \/ UNCHANGED dialog /\ job' = None
    PROVE  MergeInv'
<1>1. /\ edition \in Nat /\ edition < edition'
      /\ \A n \in Nat : n <= edition => n <= edition' /\ n # edition'
  BY DEF MergeInv, ScreenInv
<1>2. ASSUME NEW u \in uploads' PROVE UploadInv(u, started', edition') /\ u.edition # edition'
  BY <1>1 DEF MergeInv, UploadsInv, UploadInv
<1>3. UploadsInv'
  BY <1>2 DEF MergeInv, UploadsInv
<1>4. OpenInv'
  BY <1>1 DEF MergeInv, OpenInv, DialogInv
<1>5. CreateInv'
  BY DEF MergeInv, CreateInv
<1> QED BY <1>3, <1>4, <1>5 DEF MergeInv

\* The screen stays, and so does or goes what was read from it.
LEMMA ListStays ==
    ASSUME MergeInv, CurrentInv', UNCHANGED <<screen, started>>, edits' \in Nat,
           showing' \in BOOLEAN, uploads' \in SUBSET uploads,
           \/ dialog' = NoDialog /\ job' = None
           \/ UNCHANGED <<dialog, job>>
           \/ UNCHANGED dialog /\ job' = None
    PROVE  MergeInv'
<1>1. ScreenInv' /\ (~mixed' => ListInv')
  BY DEF MergeInv, ScreenInv, ListInv, screen
<1>2. UploadsInv'
  BY DEF MergeInv, UploadsInv, screen
<1>3. OpenInv'
  BY DEF MergeInv, OpenInv, screen
<1>4. CreateInv'
  BY DEF MergeInv, CreateInv
<1> QED BY <1>1, <1>2, <1>3, <1>4 DEF MergeInv

\* Another dialog, or the same one with other choices or another result.
LEMMA DialogStays ==
    ASSUME MergeInv, CurrentInv', UNCHANGED <<screen, started, edits, job>>,
           showing' \in BOOLEAN, uploads' \in SUBSET uploads,
           DialogInv(dialog', started, edition), \A u \in uploads' : u.id # dialog'.id,
           ~mixed /\ dialog'.append /\ dialog'.edition = edition =>
               RefsInv(dialog'.data, dialog'.refs, vms, added, sources),
           job # None => \/ dialog'.id # job.id
                         \/ /\ dialog'.id = dialog.id /\ dialog'.data = dialog.data
                            /\ dialog'.append = dialog.append
    PROVE  MergeInv'
<1>1. ScreenInv' /\ (~mixed' => ListInv')
  BY DEF MergeInv, ScreenInv, ListInv, screen
<1>2. UploadsInv'
  BY DEF MergeInv, UploadsInv, screen
<1>3. OpenInv'
  BY DEF OpenInv, screen
<1>4. CreateInv'
  <2> SUFFICES ASSUME job' # None PROVE CreateInv'
    BY DEF CreateInv
  <2>1. JobInv(job, dialog, started) /\ job.left # {} /\ \A u \in uploads : u.id # job.id
    BY DEF MergeInv, CreateInv
  <2>2. JobInv(job, dialog', started)
    BY <2>1 DEF JobInv
  <2>3. dialog' # NoDialog
    BY DialogIsThere DEF DialogInv
  <2> QED BY <2>1, <2>2, <2>3 DEF CreateInv
<1> QED BY <1>1, <1>2, <1>3, <1>4 DEF MergeInv

-----------------------------------------------------------------------------
(* The actions.                                                              *)

LEMMA AddVmKeeps ==
    ASSUME MergeInv, CurrentInv', NEW e \in Entities, AddVm(e)
    PROVE  MergeInv'
<1>1. /\ vms' = Append(vms, Vm(None, e)) /\ added' = added \cup {Len(vms) + 1}
      /\ edits' = edits + 1 /\ edits \in Nat
      /\ UNCHANGED <<touched, summary, sources, site, edition, mixed>>
      /\ UNCHANGED <<uploads, started, dialog, showing, job>>
  BY DEF AddVm, intake, form, MergeInv, ScreenInv
<1>2. /\ vms \in Seq(AllRows) /\ Vm(None, e) \in AllRows /\ Vm(None, e).src = None
      /\ Len(vms) \in Nat /\ DOMAIN vms = 1..Len(vms)
  BY DEF MergeInv, ScreenInv, AllRows, Vm
<1>3. /\ vms' \in Seq(AllRows) /\ DOMAIN vms' = DOMAIN vms \cup {Len(vms) + 1}
      /\ \A i \in DOMAIN vms : vms'[i] = vms[i]
      /\ vms'[Len(vms) + 1].src = None /\ Len(vms) + 1 \notin DOMAIN vms
  BY <1>1, <1>2
<1>4. DOMAIN vms' \ added' = DOMAIN vms \ added
  BY <1>1, <1>3
<1>5. ScreenInv'
  <2>1. \A i \in DOMAIN vms' : vms'[i].src = None <=> i \in added'
    BY <1>1, <1>3 DEF MergeInv, ScreenInv
  <2>2. added' \in SUBSET DOMAIN vms' /\ touched' \in SUBSET DOMAIN vms'
    BY <1>1, <1>3 DEF MergeInv, ScreenInv
  <2> QED BY <1>1, <1>3, <2>1, <2>2 DEF MergeInv, ScreenInv
<1>6. ~mixed' => ListInv'
  <2>1. {vms'[i] : i \in DOMAIN vms' \ added'} = {vms[i] : i \in DOMAIN vms \ added}
    BY <1>3, <1>4
  <2> QED BY <1>1, <1>3, <1>4, <2>1 DEF MergeInv, ListInv
<1>7. ASSUME NEW data, NEW refs, RefsInv(data, refs, vms, added, sources)
      PROVE  RefsInv(data, refs, vms', added', sources')
  BY <1>1, <1>3, <1>4, <1>7 DEF RefsInv
<1>8. UploadsInv'
  BY <1>1, <1>7 DEF MergeInv, UploadsInv
<1>9. OpenInv'
  BY <1>1, <1>7 DEF MergeInv, OpenInv
<1>10. CreateInv'
  BY <1>1 DEF MergeInv, CreateInv
<1> QED BY <1>5, <1>6, <1>8, <1>9, <1>10 DEF MergeInv

LEMMA TouchKeeps ==
    ASSUME MergeInv, CurrentInv', NEW i \in DOMAIN vms, Touch(i)
    PROVE  MergeInv'
<1>1. /\ touched' = touched \cup {i} /\ edits' = edits + 1
      /\ UNCHANGED <<vms, added, summary, sources, site, edition, mixed>>
      /\ UNCHANGED <<uploads, started, dialog, showing, job>>
  BY DEF Touch, intake, form
<1>2. ScreenInv'
  BY <1>1 DEF MergeInv, ScreenInv
<1>3. ~mixed' => ListInv'
  BY <1>1 DEF MergeInv, ListInv
<1>4. UploadsInv'
  BY <1>1 DEF MergeInv, UploadsInv
<1>5. OpenInv'
  BY <1>1 DEF MergeInv, OpenInv
<1>6. CreateInv'
  BY <1>1 DEF MergeInv, CreateInv
<1> QED BY <1>2, <1>3, <1>4, <1>5, <1>6 DEF MergeInv

\* What is sent of a sizing, and the references into it, are of its rows.
LEMMA ExistingIsOfTheRows ==
    ASSUME ScreenInv
    PROVE  /\ IsData(Existing.data) /\ (sources # {} => IsMapping(Existing.mapping))
           /\ ListInv => RefsInv(Existing.data, Existing.refs, vms, added, sources)
<1> DEFINE data == [f \in sources |-> [n \in DOMAIN RowsOf(f) |-> vms[RowsOf(f)[n]].ent]]
           refs == [r \in RefsIn(data) |-> RowsOf(r[1])[r[2]]]
           Of(f) == {i \in DOMAIN vms \ added : vms[i].src = f}
<1>1. Existing.data = data /\ Existing.refs = refs
      /\ Existing.mapping = [g \in {GroupOf(data, r) : r \in RefsIn(data)} |-> site]
  BY DEF Existing
<1>2. vms \in Seq(AllRows) /\ DOMAIN vms = 1..Len(vms) /\ Len(vms) \in Nat
  BY DEF ScreenInv
<1>3. ASSUME NEW f PROVE Listing(RowsOf(f), Of(f))
  <2>1. IsFiniteSet(DOMAIN vms) /\ Of(f) \in SUBSET DOMAIN vms /\ Of(f) \in SUBSET Nat
    BY <1>2, FS_Interval
  <2>2. IsFiniteSet(Of(f))
    BY <2>1, FS_Subset
  <2> QED BY <2>1, <2>2, AscendingLists DEF RowsOf
<1>4. ASSUME NEW f PROVE /\ DOMAIN RowsOf(f) = 1..Len(RowsOf(f)) /\ Len(RowsOf(f)) \in Nat
                         /\ \A n \in DOMAIN RowsOf(f) : RowsOf(f)[n] \in Of(f)
                         /\ \A n, m \in DOMAIN RowsOf(f) : RowsOf(f)[n] = RowsOf(f)[m] => n = m
                         /\ \A i \in Of(f) : \E n \in DOMAIN RowsOf(f) : RowsOf(f)[n] = i
  <2> DEFINE q == RowsOf(f)
             S == Of(f)
  <2>1. Listing(q, S)
    BY <1>3
  <2> HIDE DEF q, S
  <2>2. q \in Seq(S)
    BY <2>1 DEF Listing
  <2>3. DOMAIN q = 1..Len(q) /\ Len(q) \in Nat /\ \A n \in DOMAIN q : q[n] \in S
    BY <2>2
  <2>4. /\ \A n, m \in DOMAIN q : q[n] = q[m] => n = m
        /\ \A i \in S : \E n \in DOMAIN q : q[n] = i
    BY <2>1 DEF Listing
  <2> QED BY <2>3, <2>4 DEF q, S
<1>5. ASSUME NEW i \in DOMAIN vms
      PROVE  vms[i].ent \in Entities /\ vms[i] = Vm(vms[i].src, vms[i].ent)
  <2>1. vms[i] \in AllRows
    BY <1>2
  <2>2. vms[i] = [src |-> vms[i].src, ent |-> vms[i].ent] /\ vms[i].ent \in Entities
    BY <2>1 DEF AllRows
  <2> QED BY <2>2 DEF Vm
<1>6. IsData(data)
  <2>1. ASSUME NEW f \in sources PROVE data[f] \in Seq(Entities)
    BY <1>4, <1>5
  <2> QED BY <2>1 DEF IsData, ScreenInv
<1>7. sources # {} => IsMapping([g \in {GroupOf(data, r) : r \in RefsIn(data)} |-> site])
  BY DEF IsMapping, ScreenInv
<1>8. ASSUME NEW r \in RefsIn(data)
      PROVE  /\ r[1] \in sources /\ r[2] \in DOMAIN RowsOf(r[1]) /\ r = <<r[1], r[2]>>
             /\ refs[r] = RowsOf(r[1])[r[2]] /\ refs[r] \in Of(r[1])
             /\ vms[refs[r]].ent = EntOf(data, r)
  <2>1. r[1] \in DOMAIN data /\ r[2] \in DOMAIN data[r[1]] /\ r = <<r[1], r[2]>>
    <3> HIDE DEF data
    <3> QED BY <1>6, RefsHave
  <2>2. r[1] \in sources /\ r[2] \in DOMAIN RowsOf(r[1])
    BY <2>1
  <2>3. refs[r] = RowsOf(r[1])[r[2]]
    OBVIOUS
  <2>4. EntOf(data, r) = vms[RowsOf(r[1])[r[2]]].ent
    BY <2>2 DEF EntOf
  <2> QED BY <1>4, <2>1, <2>2, <2>3, <2>4
<1>9. \A f \in sources : \A n \in DOMAIN RowsOf(f) : /\ <<f, n>> \in RefsIn(data)
                                                     /\ refs[<<f, n>>] = RowsOf(f)[n]
  <2> SUFFICES ASSUME NEW f \in sources, NEW n \in DOMAIN RowsOf(f)
               PROVE  <<f, n>> \in RefsIn(data) /\ refs[<<f, n>>] = RowsOf(f)[n]
    OBVIOUS
  <2>1. f \in DOMAIN data /\ n \in DOMAIN data[f]
    OBVIOUS
  <2>2. <<f, n>> \in RefsIn(data)
    <3> HIDE DEF data
    <3> QED BY <1>6, <2>1, RefsHave
  <2> QED BY <2>2
<1>10. DOMAIN data = sources /\ DOMAIN refs = RefsIn(data)
  OBVIOUS
<1> HIDE DEF data, refs
<1>11. ASSUME ListInv PROVE RefsInv(data, refs, vms, added, sources)
  <2>1. \A r \in DOMAIN refs : /\ refs[r] \in DOMAIN vms \ added
                               /\ vms[refs[r]] = Vm(r[1], EntOf(data, r))
    BY <1>5, <1>8, <1>10
  <2>2. \A i \in DOMAIN vms \ added : \E r \in DOMAIN refs : refs[r] = i
    <3> SUFFICES ASSUME NEW i \in DOMAIN vms \ added PROVE \E r \in DOMAIN refs : refs[r] = i
      OBVIOUS
    <3>1. vms[i].src \in sources /\ i \in Of(vms[i].src)
      BY <1>11 DEF ListInv
    <3>2. PICK n \in DOMAIN RowsOf(vms[i].src) : RowsOf(vms[i].src)[n] = i
      BY <3>1, <1>4
    <3> QED BY <1>9, <1>10, <3>1, <3>2
  <2>3. \A r, s \in DOMAIN refs : refs[r] = refs[s] => r = s
    <3> SUFFICES ASSUME NEW r \in RefsIn(data), NEW s \in RefsIn(data), refs[r] = refs[s]
                 PROVE  r = s
      BY <1>10
    <3>1. r[1] = s[1]
      BY <1>8
    <3> QED BY <1>4, <1>8, <3>1
  <2>4. DOMAIN refs = {r \in RefsIn(data) : r[1] \in sources}
    BY <1>8, <1>10
  <2> QED BY <1>10, <2>1, <2>2, <2>3, <2>4 DEF RefsInv
<1> QED BY <1>1, <1>6, <1>7, <1>11

LEMMA NothingIsKnown ==
    /\ DOMAIN Nothing.data = {} /\ IsData(Nothing.data) /\ IsMapping(Nothing.mapping)
<1>1. Nothing.data = <<>> /\ Nothing.mapping = <<>> /\ DOMAIN <<>> = {}
  BY DEF Nothing
<1> QED BY <1>1 DEF IsData, IsMapping

LEMMA StartUploadKeeps ==
    ASSUME MergeInv, CurrentInv', NEW files \in (SUBSET Files) \ {{}}, NEW append \in BOOLEAN,
           StartUpload(files, append)
    PROVE  MergeInv'
<1> DEFINE w == [id |-> started', append |-> append, left |-> files, data |-> <<>>,
                 edition |-> edition, existing |-> IF append THEN Existing ELSE Nothing,
                 alone |-> ~append /\ Cardinality(files) = 1]
<1>1. /\ started' = started + 1 /\ started \in Nat /\ (append => sources # {})
      /\ uploads' = uploads \cup {w}
      /\ UNCHANGED <<vms, added, touched, summary, sources, site, edition, mixed>>
      /\ UNCHANGED <<edits, dialog, showing, job>>
  BY DEF StartUpload, screen, form, MergeInv, ScreenInv
<1>2. /\ w.id = started' /\ w.append = append /\ w.left = files /\ w.data = <<>>
      /\ w.edition = edition /\ w.existing = (IF append THEN Existing ELSE Nothing)
      /\ w.alone = (~append /\ Cardinality(files) = 1) /\ Upload(w)
  BY DEF Upload
<1> HIDE DEF w
<1>3. ScreenInv
  BY DEF MergeInv
<1>4. UploadInv(w, started', edition')
  <2>1. IsData(w.existing.data) /\ IsMapping(w.existing.mapping)
    BY <1>1, <1>2, <1>3, ExistingIsOfTheRows, NothingIsKnown
  <2>2. DOMAIN w.data \subseteq Files /\ FromFiles(w.data)
    <3>1. DOMAIN w.data = {}
      BY <1>2
    <3> QED BY <3>1 DEF FromFiles
  <2>3. w.alone => w.left # {} /\ ~w.append
    BY <1>2
  <2>4. w.id \in Nat /\ w.id <= started'
    BY <1>1, <1>2
  <2>5. w.edition \in Nat /\ w.edition <= edition'
    <3>1. edition \in Nat /\ edition <= edition
      BY <1>3 DEF ScreenInv
    <3> QED BY <1>1, <1>2, <3>1
  <2>6. w.append \in BOOLEAN /\ w.left \in SUBSET Files
    BY <1>2
  <2>7. ~w.append => w.existing = Nothing
    BY <1>2
  <2> QED BY <1>2, <2>1, <2>2, <2>3, <2>4, <2>5, <2>6, <2>7 DEF UploadInv
<1>5. ~mixed /\ w.append => RefsInv(w.existing.data, w.existing.refs, vms, added, sources)
  BY <1>2, <1>3, ExistingIsOfTheRows DEF MergeInv
<1>6. \A n \in Nat : n <= started => n <= started' /\ n # started'
  BY <1>1
<1>7. \A u \in uploads : UploadInv(u, started', edition') /\ u.id # started'
  BY <1>1, <1>6 DEF MergeInv, UploadsInv, UploadInv
<1>8. UploadsInv'
  <2>1. \A u \in uploads' : UploadInv(u, started', edition')
    BY <1>1, <1>4, <1>7
  <2>2. \A u, v \in uploads' : u.id = v.id => u = v
    BY <1>1, <1>2, <1>7 DEF MergeInv, UploadsInv
  <2>3. ~mixed' => \A u \in uploads' : u.append /\ u.edition = edition' =>
                       RefsInv(u.existing.data, u.existing.refs, vms', added', sources')
    BY <1>1, <1>5 DEF MergeInv, UploadsInv
  <2> QED BY <2>1, <2>2, <2>3 DEF UploadsInv
<1>9. OpenInv'
  <2> SUFFICES ASSUME dialog # NoDialog PROVE OpenInv'
    BY <1>1 DEF OpenInv
  <2>1. DialogInv(dialog, started', edition') /\ dialog.id # started'
    BY <1>1, <1>6 DEF MergeInv, OpenInv, DialogInv
  <2> QED BY <1>1, <1>2, <2>1 DEF MergeInv, OpenInv
<1>10. CreateInv'
  <2> SUFFICES ASSUME job # None PROVE CreateInv'
    BY <1>1 DEF CreateInv
  <2>1. JobInv(job, dialog, started') /\ job.id # started'
    BY <1>1, <1>6 DEF MergeInv, CreateInv, JobInv
  <2> QED BY <1>1, <1>2, <2>1 DEF MergeInv, CreateInv
<1>11. ScreenInv'
  BY <1>1, <1>3 DEF ScreenInv
<1>12. ~mixed' => ListInv'
  BY <1>1 DEF MergeInv, ListInv
<1> QED BY <1>8, <1>9, <1>10, <1>11, <1>12 DEF MergeInv

\* One more file is read.
LEMMA FileReadKeeps ==
    ASSUME MergeInv, CurrentInv', NEW u \in uploads, FileRead(u)
    PROVE  MergeInv'
<1> DEFINE f == Min(u.left)
           read == IF f \in DOMAIN u.existing.data THEN {} ELSE {f}
           After(good) == [u EXCEPT !.left = @ \ {f},
                                    !.data = [g \in DOMAIN @ \cup good |-> Content[g]]]
<1>1. PICK good \in {{}, read} : uploads' = (uploads \ {u}) \cup {After(good)}
  BY DEF FileRead
<1>2. UNCHANGED <<screen, started, edits, form, job>> /\ u.left # {} /\ ~u.alone
  BY DEF FileRead
<1>3. UploadInv(u, started, edition)
  BY DEF MergeInv, UploadsInv
<1>4. f \in Files
  <2>1. u.left \in SUBSET Files /\ u.left \in SUBSET Nat
    BY <1>3, MergeAssumption DEF UploadInv
  <2> QED BY <1>2, <2>1, MinIsOne
<1> DEFINE w == After(good)
           files == [g \in DOMAIN u.data \cup good |-> Content[g]]
<1>5. good \subseteq Files
  BY <1>4
<1>6. w = [u EXCEPT !.left = u.left \ {f}, !.data = files]
  OBVIOUS
<1> HIDE DEF w, files, f
<1>7. /\ w.id = u.id /\ w.append = u.append /\ w.left = u.left \ {f} /\ w.data = files
      /\ w.edition = u.edition /\ w.existing = u.existing /\ w.alone = u.alone /\ Upload(w)
  <2>1. w = [id |-> u.id, append |-> u.append, left |-> u.left \ {f}, data |-> files,
             edition |-> u.edition, existing |-> u.existing, alone |-> u.alone]
    BY <1>3, <1>6 DEF UploadInv, Upload
  <2> QED BY <2>1 DEF Upload
<1>8. DOMAIN files \subseteq Files /\ FromFiles(files)
  <2>1. DOMAIN files = DOMAIN u.data \cup good /\ \A g \in DOMAIN files : files[g] = Content[g]
    BY DEF files
  <2> QED BY <1>3, <1>5, <2>1 DEF UploadInv, FromFiles
<1>9. UploadInv(w, started, edition)
  BY <1>2, <1>3, <1>7, <1>8 DEF UploadInv
<1>10. uploads' = (uploads \ {u}) \cup {w}
  BY <1>1 DEF w
<1>11. UNCHANGED <<vms, added, touched, summary, sources, site, edition, mixed, dialog, showing>>
  BY <1>2 DEF screen, form
<1>12. UploadsInv'
  <2>1. \A v \in uploads' : UploadInv(v, started', edition')
    BY <1>2, <1>9, <1>10, <1>11 DEF MergeInv, UploadsInv
  <2>2. \A v, x \in uploads' : v.id = x.id => v = x
    BY <1>7, <1>10 DEF MergeInv, UploadsInv
  <2>3. ~mixed' => \A v \in uploads' : v.append /\ v.edition = edition' =>
                       RefsInv(v.existing.data, v.existing.refs, vms', added', sources')
    BY <1>7, <1>10, <1>11 DEF MergeInv, UploadsInv
  <2> QED BY <2>1, <2>2, <2>3 DEF UploadsInv
<1>13. ScreenInv' /\ (~mixed' => ListInv')
  BY <1>2, <1>11 DEF MergeInv, ScreenInv, ListInv
<1>14. OpenInv'
  BY <1>2, <1>7, <1>10, <1>11 DEF MergeInv, OpenInv
<1>15. CreateInv'
  BY <1>2, <1>7, <1>10, <1>11 DEF MergeInv, CreateInv
<1> QED BY <1>12, <1>13, <1>14, <1>15 DEF MergeInv

\* The dialog of an upload: of its files and those the sizing had when it was started.
LEMMA OpenDialogIsSound ==
    ASSUME MergeInv, CurrentInv', NEW u \in uploads, NEW data, NEW old,
           uploads' = uploads \ {u}, UNCHANGED <<screen, started, edits, job>>,
           OpenDialog(u, data, old), IsData(data), IsMapping(old.mapping),
           ~u.append => FromFiles(data),
           ~mixed /\ u.append /\ u.edition = edition =>
               RefsInv(data, old.refs, vms, added, sources)
    PROVE  MergeInv'
<1> DEFINE d == [id |-> u.id, data |-> data, refs |-> old.refs, resolutions |-> <<>>,
                 mapping |-> old.mapping, result |-> None, new |-> DOMAIN data \ DOMAIN old.data,
                 append |-> u.append, edition |-> u.edition, chosen |-> FALSE]
<1>1. dialog' = d /\ UNCHANGED showing
  BY DEF OpenDialog, Refresh
<1>2. /\ d.id = u.id /\ d.data = data /\ d.refs = old.refs /\ d.resolutions = <<>>
      /\ d.mapping = old.mapping /\ d.result = None /\ d.append = u.append
      /\ d.edition = u.edition /\ Dialog(d)
  BY DEF Dialog
<1> HIDE DEF d
<1>3. UploadInv(u, started, edition) /\ \A v \in uploads' : v.id # u.id
  BY DEF MergeInv, UploadsInv
<1>4. IsChoice(data, <<>>)
  <2>1. DOMAIN <<>> = {}
    OBVIOUS
  <2> QED BY <2>1 DEF IsChoice
<1>5. DialogInv(d, started, edition)
  BY <1>2, <1>3, <1>4 DEF DialogInv, UploadInv
<1>6. job # None => d.id # job.id
  BY <1>2 DEF MergeInv, CreateInv
<1>7. showing' \in BOOLEAN
  BY <1>1 DEF MergeInv, ScreenInv
<1> QED BY <1>1, <1>2, <1>3, <1>5, <1>6, <1>7, DialogStays

LEMMA AllReadKeeps ==
    ASSUME MergeInv, CurrentInv', NEW u \in uploads, AllRead(u)
    PROVE  MergeInv'
<1>1. uploads' = uploads \ {u} /\ UNCHANGED <<screen, started, edits, job>>
  BY DEF AllRead
<1>2. UploadInv(u, started, edition)
  BY DEF MergeInv, UploadsInv
<1>3. CASE UNCHANGED form
  <2>1. showing' \in BOOLEAN /\ edits' \in Nat /\ UNCHANGED <<dialog, job>>
    BY <1>1, <1>3 DEF form, MergeInv, ScreenInv
  <2> QED BY <1>1, <2>1, ListStays
<1>4. CASE OpenDialog(u, Over(u.existing.data, u.data), u.existing)
  <2> DEFINE old == u.existing.data
             data == Over(old, u.data)
  <2>1. /\ DOMAIN data = DOMAIN old \cup DOMAIN u.data
        /\ \A g \in DOMAIN old : data[g] = old[g]
        /\ \A g \in DOMAIN data \ DOMAIN old : data[g] = Content[g]
    BY <1>2 DEF Over, UploadInv, FromFiles
  <2>2. IsData(old) /\ DOMAIN u.data \subseteq Files
    BY <1>2 DEF UploadInv
  <2> HIDE DEF data
  <2>3. IsData(data)
    <3>1. \A g \in Files : Content[g] \in Seq(Entities)
      BY MergeAssumption
    <3> QED BY <2>1, <2>2, <3>1 DEF IsData
  <2>4. ~u.append => FromFiles(data)
    <3> SUFFICES ASSUME ~u.append PROVE FromFiles(data)
      OBVIOUS
    <3>1. DOMAIN old = {}
      BY <1>2, NothingIsKnown DEF UploadInv
    <3> QED BY <2>1, <3>1 DEF FromFiles
  <2>5. ASSUME RefsInv(old, u.existing.refs, vms, added, sources)
        PROVE  RefsInv(data, u.existing.refs, vms, added, sources)
    <3>1. sources \subseteq DOMAIN old
      BY <2>5 DEF RefsInv
    <3>2. \A r \in RefsIn(data) : r[1] \in sources => r \in RefsIn(old)
      <4> SUFFICES ASSUME NEW r \in RefsIn(data), r[1] \in sources PROVE r \in RefsIn(old)
        OBVIOUS
      <4>1. r = <<r[1], r[2]>> /\ r[2] \in DOMAIN data[r[1]]
        BY <2>3, RefsHave
      <4>2. r[1] \in DOMAIN old /\ r[2] \in DOMAIN old[r[1]]
        BY <2>1, <3>1, <4>1
      <4> QED BY <2>2, <4>1, <4>2, RefsHave
    <3>3. \A r \in RefsIn(old) : /\ r \in RefsIn(data)
                                 /\ EntOf(data, r) = EntOf(old, r)
      <4> SUFFICES ASSUME NEW r \in RefsIn(old)
                   PROVE  r \in RefsIn(data) /\ EntOf(data, r) = EntOf(old, r)
        OBVIOUS
      <4>1. r = <<r[1], r[2]>> /\ r[1] \in DOMAIN old /\ r[2] \in DOMAIN old[r[1]]
        BY <2>2, RefsHave
      <4>2. r[1] \in DOMAIN data /\ data[r[1]] = old[r[1]]
        BY <2>1, <4>1
      <4> QED BY <2>3, <4>1, <4>2, RefsHave DEF EntOf
    <3>4. {r \in RefsIn(data) : r[1] \in sources} = {r \in RefsIn(old) : r[1] \in sources}
      BY <3>2, <3>3
    <3>5. \A g \in DOMAIN data \ sources : data[g] = Content[g]
      BY <2>1, <2>5 DEF RefsInv
    <3> QED BY <2>1, <2>5, <3>1, <3>3, <3>4, <3>5 DEF RefsInv
  <2>6. ~mixed /\ u.append /\ u.edition = edition =>
            RefsInv(data, u.existing.refs, vms, added, sources)
    BY <2>5 DEF MergeInv, UploadsInv
  <2>7. IsMapping(u.existing.mapping) /\ OpenDialog(u, data, u.existing)
    BY <1>2, <1>4 DEF UploadInv, data
  <2> QED BY <1>1, <2>3, <2>4, <2>6, <2>7, OpenDialogIsSound
<1> QED BY <1>3, <1>4 DEF AllRead

-----------------------------------------------------------------------------
(* A new list of rows.                                                       *)

Copy(data, r) == Vm(r[1], EntOf(data, r))

LEMMA CopyHas ==
    ASSUME NEW data, IsData(data), NEW r \in RefsIn(data)
    PROVE  /\ Copy(data, r) \in AllRows /\ Copy(data, r).src = r[1] /\ r[1] \in Files
           /\ Copy(data, r).src # None /\ Copy(data, r).ent = EntOf(data, r)
<1>1. r[1] \in Files /\ EntOf(data, r) \in Entities
  BY RefsHave
<1>2. None \notin Files
  BY MergeAssumption
<1> QED BY <1>1, <1>2 DEF Copy, Vm, AllRows

LEMMA CopiesDiffer ==
    ASSUME NEW data, IsData(data), Apart(data), NEW r \in RefsIn(data), NEW s \in RefsIn(data),
           Copy(data, r) = Copy(data, s)
    PROVE  r = s
<1>1. r[1] = s[1] /\ EntOf(data, r) = EntOf(data, s)
  BY CopyHas
<1> QED BY <1>1, OneCopyAFile

\* The import of one file: its VMs are the list, and nothing else is.
LEMMA ImportIsSound ==
    ASSUME ScreenInv, NEW list \in Seq(AllRows), \A i \in DOMAIN list : list[i].src # None,
           \A i, k \in DOMAIN list : list[i] = list[k] => i = k,
           NEW name \in Names, FinishImport(list, name),
           started' \in Nat, edits' \in Nat, showing' \in BOOLEAN
    PROVE  ScreenInv' /\ ListInv' /\ edition' = edition + 1
<1>1. /\ vms' = list /\ added' = {} /\ touched' = {} /\ site' = name /\ edition' = edition + 1
      /\ summary' = ToSet(list) /\ sources' = {list[i].src : i \in DOMAIN list}
  BY DEF FinishImport
<1>2. \A i \in DOMAIN list : list[i] \in AllRows
  OBVIOUS
<1>3. sources' \in SUBSET Files
  <2>1. \A i \in DOMAIN list : list[i].src \in Files
    BY <1>2 DEF AllRows
  <2> QED BY <1>1, <2>1
<1>4. ScreenInv'
  BY <1>1, <1>3 DEF ScreenInv
<1>5. ListInv'
  BY <1>1 DEF ListInv, ToSet
<1> QED BY <1>1, <1>4, <1>5

LEMMA ReadAloneKeeps ==
    ASSUME MergeInv, CurrentInv', NEW u \in uploads, ReadAlone(u)
    PROVE  MergeInv'
<1> DEFINE f == Min(u.left)
<1>1. uploads' = uploads \ {u} /\ UNCHANGED <<started, edits, job>> /\ u.alone
  BY DEF ReadAlone
<1>2. UploadInv(u, started, edition)
  BY DEF MergeInv, UploadsInv
<1>3. f \in Files
  <2>1. u.left \in SUBSET Files /\ u.left \in SUBSET Nat /\ u.left # {}
    BY <1>1, <1>2, MergeAssumption DEF UploadInv
  <2> QED BY <2>1, MinIsOne
<1> HIDE DEF f
<1>4. ScreenInv /\ started' \in Nat /\ edits' \in Nat
  BY <1>1 DEF MergeInv, ScreenInv
<1>5. CASE UNCHANGED <<screen, form>>
  <2>1. showing' \in BOOLEAN /\ UNCHANGED <<dialog, job>>
    BY <1>1, <1>4, <1>5 DEF form, ScreenInv
  <2> QED BY <1>1, <1>4, <1>5, <2>1, ListStays
<1>6. CASE UNCHANGED form /\ \E c \in {Cluster[f][e] : e \in ToSet(Content[f])} :
                                 FinishImport(Rows(f), c)
  <2>1. PICK e \in ToSet(Content[f]) : FinishImport(Rows(f), Cluster[f][e])
    BY <1>6
  <2>2. /\ Content[f] \in Seq(Entities) /\ IsInjective(Content[f])
        /\ DOMAIN Content[f] = 1..Len(Content[f]) /\ Len(Content[f]) \in Nat
    BY <1>3, MergeAssumption
  <2>3. Cluster[f][e] \in Names
    <3>1. e \in Entities
      BY <2>2 DEF ToSet
    <3> QED BY <1>3, <3>1, MergeAssumption
  <2>4. \A n \in DOMAIN Content[f] : Vm(f, Content[f][n]) \in AllRows
    BY <1>3, <2>2 DEF Vm, AllRows
  <2>5. Rows(f) \in Seq(AllRows) /\ DOMAIN Rows(f) = DOMAIN Content[f]
    BY <2>2, <2>4 DEF Rows
  <2>6. \A i \in DOMAIN Rows(f) : Rows(f)[i].src # None /\ Rows(f)[i].ent = Content[f][i]
    BY <1>3, MergeAssumption DEF Rows, Vm
  <2>7. \A i, k \in DOMAIN Rows(f) : Rows(f)[i] = Rows(f)[k] => i = k
    BY <2>2, <2>5, <2>6 DEF IsInjective
  <2>8. showing' \in BOOLEAN /\ UNCHANGED <<dialog, job>>
    BY <1>1, <1>4, <1>6 DEF form, ScreenInv
  <2>9. ScreenInv' /\ ListInv' /\ edition' = edition + 1
    BY <1>4, <2>1, <2>3, <2>5, <2>6, <2>7, <2>8, ImportIsSound
  <2> QED BY <1>1, <2>8, <2>9, ListReplaced
<1>7. CASE OpenDialog(u, [g \in {f} |-> Content[g]], Nothing) /\ UNCHANGED screen
  <2> DEFINE data == [g \in {f} |-> Content[g]]
  <2>1. FromFiles(data) /\ IsData(data)
    <3>1. DOMAIN data \subseteq Files /\ FromFiles(data)
      BY <1>3 DEF FromFiles
    <3> HIDE DEF data
    <3> QED BY <3>1, FilesAreData
  <2>2. ~u.append
    BY <1>1, <1>2 DEF UploadInv
  <2> HIDE DEF data
  <2>3. OpenDialog(u, data, Nothing)
    BY <1>7 DEF data
  <2> QED BY <1>1, <1>7, <2>1, <2>2, <2>3, NothingIsKnown, OpenDialogIsSound
<1> QED BY <1>5, <1>6, <1>7 DEF ReadAlone, f

-----------------------------------------------------------------------------
(* The dialog in use.                                                        *)

LEMMA AnswerIsSound ==
    ASSUME MergeInv, CurrentInv', NEW m \in net, MergeAnswered(m)
    PROVE  MergeInv'
<1>1. UNCHANGED <<screen, started, edits, job>> /\ uploads' = uploads
  BY DEF MergeAnswered, intake
<1>2. showing \in BOOLEAN /\ edits' \in Nat
  BY <1>1 DEF MergeInv, ScreenInv
<1>3. CASE UNCHANGED dialog /\ showing' \in BOOLEAN
  BY <1>1, <1>2, <1>3, ListStays
<1>4. CASE /\ Latest(m) /\ dialog # NoDialog
           /\ dialog' = [dialog EXCEPT !.result = Merge(m.data, m.resolutions, m.mapping)]
           /\ showing' = (showing \/ m.first)
  <2>1. DialogInv(dialog, started, edition) /\ AsksFor(m, dialog)
    BY <1>4 DEF MergeInv, OpenInv, CurrentInv, FormInv, Latest
  <2> DEFINE answer == Merge(m.data, m.resolutions, m.mapping)
  <2>2. IsResult(answer, dialog.data)
    BY <2>1, MergeGives DEF AsksFor, DialogInv
  <2> HIDE DEF answer
  <2>3. dialog' = [dialog EXCEPT !.result = answer]
    BY <1>4 DEF answer
  <2>4. /\ dialog'.id = dialog.id /\ dialog'.data = dialog.data /\ dialog'.refs = dialog.refs
        /\ dialog'.resolutions = dialog.resolutions /\ dialog'.mapping = dialog.mapping
        /\ dialog'.result = answer /\ dialog'.append = dialog.append
        /\ dialog'.edition = dialog.edition /\ Dialog(dialog')
    BY <2>1, <2>3 DEF DialogInv, Dialog
  <2>5. DialogInv(dialog', started, edition)
    BY <2>1, <2>2, <2>4 DEF DialogInv
  <2>6. showing' \in BOOLEAN
    BY <1>4
  <2>7. \A u \in uploads' : u.id # dialog'.id
    BY <1>1, <1>4, <2>4 DEF MergeInv, OpenInv
  <2>8. ~mixed /\ dialog'.append /\ dialog'.edition = edition =>
            RefsInv(dialog'.data, dialog'.refs, vms, added, sources)
    BY <1>4, <2>4 DEF MergeInv, OpenInv
  <2> QED BY <1>1, <2>4, <2>5, <2>6, <2>7, <2>8, DialogStays
<1> QED BY <1>2, <1>3, <1>4, Zenon DEF MergeAnswered

LEMMA ChoiceIsSound ==
    ASSUME MergeInv, CurrentInv', NEW resolutions, NEW mapping, Choose(resolutions, mapping),
           IsChoice(dialog.data, resolutions), IsMapping(mapping)
    PROVE  MergeInv'
<1>1. /\ UNCHANGED <<showing, screen, edits, job>> /\ started' = started /\ uploads' = uploads
      /\ dialog # NoDialog
      /\ dialog' = [dialog EXCEPT !.resolutions = resolutions, !.mapping = mapping,
                                  !.chosen = TRUE]
  BY DEF Choose, Refresh, intake
<1>2. DialogInv(dialog, started, edition)
  BY <1>1 DEF MergeInv, OpenInv
<1>3. /\ dialog'.id = dialog.id /\ dialog'.data = dialog.data /\ dialog'.refs = dialog.refs
      /\ dialog'.resolutions = resolutions /\ dialog'.mapping = mapping
      /\ dialog'.result = dialog.result /\ dialog'.append = dialog.append
      /\ dialog'.edition = dialog.edition
  BY <1>1, <1>2 DEF DialogInv, Dialog
<1>4. Dialog(dialog')
  BY <1>1, DialogIsThere DEF Choose, CurrentInv, FormInv, Refresh
<1>5. DialogInv(dialog', started, edition)
  BY <1>2, <1>3, <1>4 DEF DialogInv
<1>6. showing' \in BOOLEAN
  BY <1>1 DEF MergeInv, ScreenInv
<1>7. \A u \in uploads' : u.id # dialog'.id
  BY <1>1, <1>3 DEF MergeInv, OpenInv
<1>8. ~mixed /\ dialog'.append /\ dialog'.edition = edition =>
          RefsInv(dialog'.data, dialog'.refs, vms, added, sources)
  BY <1>1, <1>3 DEF MergeInv, OpenInv
<1> QED BY <1>1, <1>3, <1>5, <1>6, <1>7, <1>8, DialogStays

LEMMA PutHas ==
    ASSUME NEW fn, NEW keys, NEW v, NEW k \in DOMAIN Put(fn, keys, v)
    PROVE  /\ k \in keys \/ k \in DOMAIN fn
           /\ Put(fn, keys, v)[k] = IF k \in keys THEN v ELSE fn[k]
BY DEF Put, Over

LEMMA MakeChoiceKeeps ==
    ASSUME MergeInv, CurrentInv', MakeChoice
    PROVE  MergeInv'
<1>1. DialogInv(dialog, started, edition) /\ IsResult(dialog.result, dialog.data)
  BY DEF MakeChoice, MergeInv, OpenInv, DialogInv
<1>2. /\ IsData(dialog.data) /\ IsChoice(dialog.data, dialog.resolutions)
      /\ IsMapping(dialog.mapping)
  BY <1>1 DEF DialogInv
<1>3. ASSUME NEW fn, IsMapping(fn), NEW keys, NEW v \in Names \cup {Skip}
      PROVE  IsMapping(Put(fn, keys, v))
  BY <1>3, PutHas DEF IsMapping
<1>4. ASSUME NEW e \in Overlaps, NEW c \in Files \cup {Both}, OnOverlapChoice(e, c)
      PROVE  MergeInv'
  <2> DEFINE res == Put(dialog.resolutions, {e}, c)
  <2>1. c \in Owners(dialog.data, e) \cup {Both} /\ Choose(res, dialog.mapping)
    BY <1>4 DEF OnOverlapChoice, Owners
  <2>2. IsChoice(dialog.data, res)
    BY <1>2, <2>1, PutHas DEF IsChoice
  <2> QED BY <1>2, <2>1, <2>2, ChoiceIsSound
<1>5. ASSUME KeepNewest PROVE MergeInv'
  <2> DEFINE newest == [e \in Overlaps |-> Newest({r[1] : r \in Copies(dialog.data, e)})]
             res == Over(newest, dialog.resolutions)
  <2>1. Choose(res, dialog.mapping)
    BY <1>5 DEF KeepNewest
  <2>2. \A e \in Overlaps : newest[e] \in Owners(dialog.data, e)
    BY <1>1, <1>2, OwnersAreFiles DEF IsResult, Overlaps
  <2>3. DOMAIN newest = Overlaps
    OBVIOUS
  <2> HIDE DEF newest
  <2>4. IsChoice(dialog.data, res)
    BY <1>2, <2>2, <2>3 DEF IsChoice, Over
  <2> QED BY <1>2, <2>1, <2>4, ChoiceIsSound
<1>6. ASSUME KeepBothVms PROVE MergeInv'
  <2> DEFINE res == Put(dialog.resolutions, Overlaps, Both)
  <2>1. IsChoice(dialog.data, res)
    BY <1>2, PutHas DEF IsChoice
  <2> QED BY <1>2, <1>6, <2>1, ChoiceIsSound DEF KeepBothVms
<1>7. ASSUME AllSeparate PROVE MergeInv'
  <2>1. IsMapping([g \in OnTarget(Skip) |-> Skip])
    BY DEF IsMapping
  <2> QED BY <1>2, <1>7, <2>1, ChoiceIsSound DEF AllSeparate
<1>8. ASSUME AllInOne PROVE MergeInv'
  <2>1. PICK t \in DOMAIN dialog.result.cut :
           Choose(dialog.resolutions, Put(dialog.mapping, DOMAIN TargetOf \ OnTarget(Skip), t))
    BY <1>8 DEF AllInOne
  <2>2. t \in Names
    BY <1>1 DEF IsResult
  <2> QED BY <1>2, <1>3, <2>1, <2>2, ChoiceIsSound
<1>9. ASSUME NEW g \in DOMAIN TargetOf, NEW t \in Names \cup {Skip}, OnMergeTargetChange(g, t)
      PROVE  MergeInv'
  BY <1>2, <1>3, <1>9, ChoiceIsSound DEF OnMergeTargetChange
<1>10. ASSUME NEW t \in DOMAIN dialog.result.cut, NEW name \in Names, RenameMergeTarget(t, name)
       PROVE  MergeInv'
  BY <1>2, <1>3, <1>10, ChoiceIsSound DEF RenameMergeTarget
<1> QED BY <1>4, <1>5, <1>6, <1>7, <1>8, <1>9, <1>10 DEF MakeChoice

LEMMA CloseDialogKeeps ==
    ASSUME MergeInv, CurrentInv', CloseDialog
    PROVE  MergeInv'
<1>1. /\ UNCHANGED <<screen, started, dialog, job>> /\ edits' \in Nat /\ showing' \in BOOLEAN
      /\ uploads' = uploads
  BY DEF CloseDialog, intake, MergeInv, ScreenInv
<1> QED BY <1>1, ListStays

-----------------------------------------------------------------------------
(* An append.  The rows that stay are a list, those that come are a list.    *)

Mine(e) == Copies(dialog.data, e) \cap DOMAIN dialog.refs
Win(e)  == First({r \in Copies(dialog.data, e) : r[1] = dialog.result.choice[e]})
Moved(cut) == {e \in Overlaps : /\ dialog.result.choice[e] # Both
                                /\ Win(e) \notin DOMAIN dialog.refs /\ Mine(e) # {}
                                /\ Win(e) \in cut}
Held(i) == {r \in DOMAIN dialog.refs : dialog.refs[r] = i}

Stays(cut) == {i \in DOMAIN vms : \/ vms[i].src \notin DOMAIN dialog.data \/ i \in added
                                  \/ Held(i) \cap cut # {} \/ i \in DOMAIN Replacements(cut)}
Swapped(cut, i) == /\ i \in DOMAIN Replacements(cut) /\ Held(i) \cap cut = {}
                   /\ i \notin added /\ vms[i].src \in DOMAIN dialog.data
Row(j, i) == IF Swapped(j.cut, i) THEN Copy(j.data, Replacements(j.cut)[i]) ELSE vms[i]
Comes(cut) == cut \ (DOMAIN dialog.refs \cup
                     {Replacements(cut)[i] : i \in DOMAIN Replacements(cut)})

LEMMA ReplacementsAre ==
    ASSUME NEW cut
    PROVE  /\ DOMAIN Replacements(cut) = {dialog.refs[First(Mine(e))] : e \in Moved(cut)}
           /\ \A i \in DOMAIN Replacements(cut) : \E e \in Moved(cut) :
                 i = dialog.refs[First(Mine(e))] /\ Replacements(cut)[i] = Win(e)
<1> DEFINE at(e) == dialog.refs[First(Mine(e))]
<1>1. Replacements(cut) =
         [i \in {at(e) : e \in Moved(cut)} |-> Win(CHOOSE e \in Moved(cut) : at(e) = i)]
  BY DEF Replacements, Moved, Mine, Win
<1>2. ASSUME NEW i \in {at(e) : e \in Moved(cut)}
      PROVE  \E e \in Moved(cut) : i = at(e) /\ Replacements(cut)[i] = Win(e)
  <2> DEFINE e == CHOOSE x \in Moved(cut) : at(x) = i
  <2>1. \E x \in Moved(cut) : at(x) = i
    BY <1>2
  <2>2. e \in Moved(cut) /\ at(e) = i
    <3> HIDE DEF at
    <3> QED BY <2>1
  <2>3. Replacements(cut)[i] = Win(e)
    BY <1>1
  <2> QED BY <2>2, <2>3
<1>3. DOMAIN Replacements(cut) = {at(e) : e \in Moved(cut)}
  BY <1>1
<1> QED BY <1>2, <1>3

\* What ApplyAppend does, by those two lists.
Appends(j, kept, fresh) ==
    /\ Listing(kept, Stays(j.cut)) /\ Listing(fresh, Comes(j.cut))
    /\ Len(kept) \in Nat /\ DOMAIN kept = 1..Len(kept)
    /\ Len(fresh) \in Nat /\ DOMAIN fresh = 1..Len(fresh)
    /\ DOMAIN vms' = 1..(Len(kept) + Len(fresh)) /\ vms' \in Seq(AllRows)
    /\ \A n \in DOMAIN kept : n \in DOMAIN vms' /\ vms'[n] = Row(j, kept[n])
    /\ \A m \in DOMAIN fresh : /\ Len(kept) + m \in DOMAIN vms' \ DOMAIN kept
                               /\ vms'[Len(kept) + m] = Copy(j.data, fresh[m])
    /\ \A n \in DOMAIN vms' \ DOMAIN kept : \E m \in DOMAIN fresh : n = Len(kept) + m
    /\ added' = {n \in DOMAIN kept : kept[n] \in added}
    /\ touched' = {n \in DOMAIN kept : kept[n] \in touched}
    /\ summary' = {Copy(j.data, r) : r \in j.cut} /\ sources' = {r[1] : r \in j.cut}
    /\ site' = j.home /\ edition' = edition + 1

LEMMA ListingHas ==
    ASSUME NEW q, NEW S, Listing(q, S)
    PROVE  /\ Len(q) \in Nat /\ DOMAIN q = 1..Len(q)
           /\ \A n \in DOMAIN q : q[n] \in S
           /\ \A n, m \in DOMAIN q : q[n] = q[m] => n = m
           /\ \A s \in S : \E n \in DOMAIN q : q[n] = s
<1>1. q \in Seq(S)
  BY DEF Listing
<1>2. Len(q) \in Nat /\ DOMAIN q = 1..Len(q) /\ \A n \in DOMAIN q : q[n] \in S
  BY <1>1
<1> QED BY <1>2 DEF Listing

LEMMA RowIs ==
    ASSUME ScreenInv, NEW j, IsData(j.data), j.cut \in SUBSET RefsIn(j.data), NEW i \in DOMAIN vms
    PROVE  Row(j, i) \in AllRows /\ (Row(j, i).src = None <=> i \in added)
<1>1. CASE Swapped(j.cut, i)
  <2>1. i \notin added /\ i \in DOMAIN Replacements(j.cut)
    BY <1>1 DEF Swapped
  <2>2. Replacements(j.cut)[i] \in RefsIn(j.data)
    <3>1. PICK e \in Moved(j.cut) : Replacements(j.cut)[i] = Win(e)
      BY <2>1, ReplacementsAre
    <3> QED BY <3>1 DEF Moved
  <2>3. Row(j, i) = Copy(j.data, Replacements(j.cut)[i])
    BY <1>1 DEF Row
  <2> QED BY <2>1, <2>2, <2>3, CopyHas
<1>2. CASE ~Swapped(j.cut, i)
  <2>1. vms \in Seq(AllRows)
    BY DEF ScreenInv
  <2>2. Row(j, i) = vms[i] /\ vms[i] \in AllRows
    BY <1>2, <2>1 DEF Row
  <2> QED BY <2>2 DEF ScreenInv
<1> QED BY <1>1, <1>2

LEMMA ApplyAppendIs ==
    ASSUME ScreenInv, NEW j, IsData(j.data), j.cut \in SUBSET RefsIn(j.data), ApplyAppend(j)
    PROVE  \E kept, fresh : Appends(j, kept, fresh)
<1> DEFINE kept  == Ascending(Stays(j.cut))
           fresh == InOrder(Comes(j.cut))
           one   == [n \in DOMAIN kept |-> Row(j, kept[n])]
           two   == [n \in DOMAIN fresh |-> Copy(j.data, fresh[n])]
<1>1. /\ vms' = one \o two
      /\ added' = {n \in DOMAIN kept : kept[n] \in added}
      /\ touched' = {n \in DOMAIN kept : kept[n] \in touched}
      /\ summary' = {Copy(j.data, r) : r \in j.cut} /\ sources' = {r[1] : r \in j.cut}
      /\ site' = j.home /\ edition' = edition + 1
  BY DEF ApplyAppend, Remapped, Stays, Comes, Row, Swapped, Copy, Held
<1>2. Listing(kept, Stays(j.cut))
  <2>1. vms \in Seq(AllRows)
    BY DEF ScreenInv
  <2>2. Len(vms) \in Nat /\ DOMAIN vms = 1..Len(vms)
    BY <2>1
  <2>3. Stays(j.cut) \in SUBSET DOMAIN vms
    BY DEF Stays
  <2>4. IsFiniteSet(DOMAIN vms) /\ Stays(j.cut) \in SUBSET Nat
    BY <2>2, <2>3, FS_Interval
  <2>5. IsFiniteSet(Stays(j.cut))
    BY <2>3, <2>4, FS_Subset
  <2> QED BY <2>4, <2>5, AscendingLists
<1>3. Listing(fresh, Comes(j.cut))
  <2>1. Comes(j.cut) \in SUBSET RefsIn(j.data) /\ IsFiniteSet(RefsIn(j.data))
    BY RefsAreFinite DEF Comes
  <2>2. Comes(j.cut) \in SUBSET (Nat \X Nat) /\ IsFiniteSet(Comes(j.cut))
    BY <2>1, RefsHave, FS_Subset
  <2> QED BY <2>2, InOrderLists
<1> HIDE DEF kept, fresh
<1>4. /\ Len(kept) \in Nat /\ DOMAIN kept = 1..Len(kept)
      /\ \A n \in DOMAIN kept : kept[n] \in DOMAIN vms
  BY <1>2, ListingHas DEF Stays
<1>5. /\ Len(fresh) \in Nat /\ DOMAIN fresh = 1..Len(fresh)
      /\ \A m \in DOMAIN fresh : fresh[m] \in RefsIn(j.data)
  BY <1>3, ListingHas DEF Comes
<1>6. /\ one \in Seq(AllRows) /\ Len(one) = Len(kept)
      /\ \A n \in DOMAIN kept : one[n] = Row(j, kept[n])
  BY <1>4, RowIs
<1>7. /\ two \in Seq(AllRows) /\ Len(two) = Len(fresh)
      /\ \A m \in DOMAIN fresh : two[m] = Copy(j.data, fresh[m])
  BY <1>5, CopyHas
<1> HIDE DEF one, two
<1>8. /\ vms' \in Seq(AllRows) /\ DOMAIN vms' = 1..(Len(kept) + Len(fresh))
      /\ \A n \in DOMAIN kept : n \in DOMAIN vms' /\ vms'[n] = one[n]
  <2>1. vms' \in Seq(AllRows) /\ Len(vms') = Len(kept) + Len(fresh)
    <3>1. one \o two \in Seq(AllRows) /\ Len(one \o two) = Len(one) + Len(two)
      BY <1>6, <1>7
    <3> QED BY <1>1, <1>6, <1>7, <3>1
  <2>2. DOMAIN vms' = 1..(Len(kept) + Len(fresh))
    BY <2>1
  <2>3. \A n \in DOMAIN kept : n \in 1..(Len(one) + Len(two)) /\ n <= Len(one)
    BY <1>4, <1>5, <1>6, <1>7
  <2>4. \A n \in 1..(Len(one) + Len(two)) : n <= Len(one) => (one \o two)[n] = one[n]
    BY <1>6, <1>7
  <2> QED BY <1>1, <1>6, <1>7, <2>1, <2>2, <2>3, <2>4
<1>9. \A m \in DOMAIN fresh : /\ Len(kept) + m \in DOMAIN vms' \ DOMAIN kept
                              /\ vms'[Len(kept) + m] = two[m]
  BY <1>1, <1>4, <1>5, <1>6, <1>7, <1>8
<1>10. \A n \in DOMAIN vms' \ DOMAIN kept : \E m \in DOMAIN fresh : n = Len(kept) + m
  <2> SUFFICES ASSUME NEW n \in DOMAIN vms' \ DOMAIN kept
               PROVE  \E m \in DOMAIN fresh : n = Len(kept) + m
    OBVIOUS
  <2>1. n - Len(kept) \in DOMAIN fresh /\ n = Len(kept) + (n - Len(kept))
    BY <1>4, <1>5, <1>8
  <2> QED BY <2>1
<1>11. Appends(j, kept, fresh)
  BY <1>1, <1>2, <1>3, <1>4, <1>5, <1>6, <1>7, <1>8, <1>9, <1>10 DEF Appends
<1> QED BY <1>11

\* Whatever list it is applied to, the rows are rows.
LEMMA AppendIsTyped ==
    ASSUME ScreenInv, NEW j, IsData(j.data), j.cut \in SUBSET RefsIn(j.data), j.home \in Names,
           ApplyAppend(j), started' \in Nat, edits' \in Nat, showing' \in BOOLEAN
    PROVE  ScreenInv' /\ edition' = edition + 1
<1>1. PICK kept, fresh : Appends(j, kept, fresh)
  BY ApplyAppendIs
<1>2. \A n \in DOMAIN kept : kept[n] \in DOMAIN vms
  BY <1>1, ListingHas DEF Appends, Stays
<1>3. \A m \in DOMAIN fresh : fresh[m] \in RefsIn(j.data)
  BY <1>1, ListingHas DEF Appends, Comes
<1>4. ASSUME NEW n \in DOMAIN vms' PROVE vms'[n].src = None <=> n \in added'
  <2>1. CASE n \in DOMAIN kept
    BY <1>1, <1>2, <2>1, RowIs DEF Appends
  <2>2. CASE n \notin DOMAIN kept
    <3>1. PICK m \in DOMAIN fresh : n = Len(kept) + m
      BY <1>1, <2>2 DEF Appends
    <3>2. vms'[n] = Copy(j.data, fresh[m]) /\ n \notin added'
      BY <1>1, <2>2, <3>1 DEF Appends
    <3> QED BY <1>3, <3>2, CopyHas
  <2> QED BY <2>1, <2>2
<1>5. added' \in SUBSET DOMAIN vms' /\ touched' \in SUBSET DOMAIN vms'
  BY <1>1 DEF Appends
<1>6. sources' \in SUBSET Files
  BY <1>1, RefsHave DEF Appends
<1> QED BY <1>1, <1>4, <1>5, <1>6 DEF Appends, ScreenInv

-----------------------------------------------------------------------------
(* An append to the list its references are of.                              *)

OfTheList(j) ==
    /\ ScreenInv /\ ListInv
    /\ IsData(dialog.data) /\ IsResult(dialog.result, dialog.data)
    /\ RefsInv(dialog.data, dialog.refs, vms, added, sources)
    /\ j.data = dialog.data /\ IsCut(j.cut, dialog.result.choice, dialog.data)

\* What was sent has no VM twice in a file: neither the rows nor the new files do.
LEMMA SentIsApart ==
    ASSUME ListInv, NEW data, NEW refs, IsData(data), RefsInv(data, refs, vms, added, sources)
    PROVE  Apart(data)
<1> SUFFICES ASSUME NEW f \in DOMAIN data PROVE IsInjective(data[f])
  BY DEF Apart
<1>1. CASE f \notin sources
  BY <1>1, MergeAssumption DEF RefsInv, IsData
<1>2. CASE f \in sources
  <2> SUFFICES ASSUME NEW n \in DOMAIN data[f], NEW m \in DOMAIN data[f], data[f][n] = data[f][m]
               PROVE  n = m
    BY DEF IsInjective
  <2> DEFINE r == <<f, n>>
             s == <<f, m>>
  <2>1. r \in RefsIn(data) /\ s \in RefsIn(data)
    BY RefsHave
  <2>2. r[1] = f /\ s[1] = f /\ r[2] = n /\ s[2] = m
    OBVIOUS
  <2>3. EntOf(data, r) = EntOf(data, s)
    BY <2>2 DEF EntOf
  <2> HIDE DEF r, s
  <2>4. r \in DOMAIN refs /\ s \in DOMAIN refs
    BY <1>2, <2>1, <2>2 DEF RefsInv
  <2>5. /\ refs[r] \in DOMAIN vms \ added /\ refs[s] \in DOMAIN vms \ added
        /\ vms[refs[r]] = vms[refs[s]]
    BY <2>2, <2>3, <2>4 DEF RefsInv
  <2>6. refs[r] = refs[s]
    BY <2>5 DEF ListInv
  <2>7. r = s
    BY <2>4, <2>6 DEF RefsInv
  <2> QED BY <2>2, <2>7
<1> QED BY <1>1, <1>2

\* An imported row has one reference, to the VM it is; an added one has none.
LEMMA EachHasItsOwn ==
    ASSUME NEW j, OfTheList(j), NEW i \in DOMAIN vms
    PROVE  /\ i \notin added => \E r \in DOMAIN dialog.refs :
                 /\ dialog.refs[r] = i /\ Held(i) = {r} /\ vms[i] = Copy(dialog.data, r)
                 /\ r \in RefsIn(dialog.data)
           /\ i \in added => Held(i) = {}
<1>1. RefsInv(dialog.data, dialog.refs, vms, added, sources)
  BY DEF OfTheList
<1>2. ASSUME i \notin added
      PROVE  \E r \in DOMAIN dialog.refs :
                 /\ dialog.refs[r] = i /\ Held(i) = {r} /\ vms[i] = Copy(dialog.data, r)
                 /\ r \in RefsIn(dialog.data)
  <2>1. PICK r \in DOMAIN dialog.refs : dialog.refs[r] = i
    BY <1>1, <1>2 DEF RefsInv
  <2>2. Held(i) = {r}
    BY <1>1, <2>1 DEF Held, RefsInv
  <2>3. vms[i] = Copy(dialog.data, r) /\ r \in RefsIn(dialog.data)
    BY <1>1, <2>1 DEF RefsInv, Copy
  <2> QED BY <2>1, <2>2, <2>3
<1>3. i \in added => Held(i) = {}
  BY <1>1 DEF Held, RefsInv
<1> QED BY <1>2, <1>3

\* A row whose place is taken is of the VM that takes it, which is of a new file; its
\* own copy is in no target.
LEMMA PlaceHas ==
    ASSUME NEW j, OfTheList(j), NEW i \in DOMAIN Replacements(j.cut)
    PROVE  LET p == Replacements(j.cut)[i]
               e == EntOf(dialog.data, p)
           IN  /\ i \in DOMAIN vms \ added /\ Held(i) \cap j.cut = {}
               /\ p \in j.cut /\ p \notin DOMAIN dialog.refs
               /\ vms[i].ent = e /\ i = dialog.refs[First(Mine(e))]
<1> DEFINE p == Replacements(j.cut)[i]
           D == dialog.data
           choice == dialog.result.choice
<1>1. PICK e \in Moved(j.cut) : i = dialog.refs[First(Mine(e))] /\ p = Win(e)
  BY ReplacementsAre
<1>2. /\ IsData(D) /\ IsResult(dialog.result, D) /\ IsCut(j.cut, choice, D)
      /\ RefsInv(D, dialog.refs, vms, added, sources)
  BY DEF OfTheList
<1>3. /\ e \in DOMAIN choice /\ choice[e] # Both /\ Win(e) \notin DOMAIN dialog.refs
      /\ Mine(e) # {} /\ Win(e) \in j.cut
  BY DEF Moved, Overlaps
<1> DEFINE own == First(Mine(e))
<1>4. own \in Mine(e)
  <2>1. Mine(e) \in SUBSET (Nat \X Nat)
    BY <1>2, RefsHave DEF Mine, Copies
  <2> QED BY <1>3, <2>1, FirstIsOne
<1>5. Win(e) \in Copies(D, e) /\ Win(e)[1] = choice[e]
  <2> DEFINE W == {r \in Copies(D, e) : r[1] = choice[e]}
  <2>1. W # {}
    <3>1. choice[e] \in Owners(D, e)
      BY <1>2, <1>3 DEF IsResult, IsChoice
    <3> QED BY <3>1 DEF Owners
  <2>2. W \in SUBSET (Nat \X Nat)
    BY <1>2, RefsHave DEF Copies
  <2>3. First(W) \in W
    <3> HIDE DEF W
    <3> QED BY <2>1, <2>2, FirstIsOne
  <2> QED BY <2>3 DEF Win
<1> HIDE DEF own, p
<1>6. own \in DOMAIN dialog.refs /\ own \in RefsIn(D) /\ EntOf(D, own) = e
  BY <1>4 DEF Mine, Copies
<1>7. i \in DOMAIN vms \ added /\ vms[i] = Copy(D, own) /\ dialog.refs[own] = i
  BY <1>1, <1>2, <1>6 DEF RefsInv, Copy, own
<1>8. vms[i].ent = e /\ EntOf(D, p) = e
  BY <1>1, <1>2, <1>5, <1>6, <1>7, CopyHas DEF Copies
<1>9. own \notin j.cut
  <2> SUFFICES ASSUME own \in j.cut PROVE FALSE
    OBVIOUS
  <2>1. choice[e] = own[1]
    BY <1>2, <1>3, <1>6 DEF IsCut
  <2>2. own[1] \in sources
    BY <1>2, <1>6 DEF RefsInv
  <2>3. Win(e) \in RefsIn(D)
    BY <1>5 DEF Copies
  <2>4. Win(e) \in DOMAIN dialog.refs
    BY <1>2, <1>5, <2>1, <2>2, <2>3 DEF RefsInv
  <2> QED BY <1>3, <2>4
<1>10. Held(i) = {own}
  BY <1>2, <1>6, <1>7 DEF Held, RefsInv
<1>11. p \in j.cut /\ p \notin DOMAIN dialog.refs
  BY <1>1, <1>3
<1>12. i = dialog.refs[First(Mine(EntOf(D, p)))]
  BY <1>1, <1>8
<1> QED BY <1>7, <1>8, <1>9, <1>10, <1>11, <1>12 DEF p

\* A row that stays and is not added is the copy of one reference of the target: its
\* own, or the one whose place it is.
LEMMA StayingIs ==
    ASSUME NEW j, OfTheList(j), NEW i \in Stays(j.cut), i \notin added
    PROVE  \E r \in j.cut :
              /\ Row(j, i) = Copy(j.data, r)
              /\ r \in DOMAIN dialog.refs => dialog.refs[r] = i
              /\ r \notin DOMAIN dialog.refs =>
                    i \in DOMAIN Replacements(j.cut) /\ Replacements(j.cut)[i] = r
<1>1. i \in DOMAIN vms /\ j.data = dialog.data
  BY DEF Stays, OfTheList
<1>2. PICK own \in DOMAIN dialog.refs :
         /\ dialog.refs[own] = i /\ Held(i) = {own} /\ vms[i] = Copy(dialog.data, own)
         /\ own \in RefsIn(dialog.data)
  BY <1>1, EachHasItsOwn
<1>3. vms[i].src \in DOMAIN dialog.data
  BY <1>1 DEF OfTheList, ListInv, RefsInv
<1>4. CASE i \in DOMAIN Replacements(j.cut)
  <2> DEFINE p == Replacements(j.cut)[i]
  <2>1. p \in j.cut /\ p \notin DOMAIN dialog.refs /\ Held(i) \cap j.cut = {}
    BY <1>4, PlaceHas
  <2>2. Row(j, i) = Copy(j.data, p)
    BY <1>3, <1>4, <2>1 DEF Row, Swapped
  <2> QED BY <1>4, <2>1, <2>2
<1>5. CASE i \notin DOMAIN Replacements(j.cut)
  <2>1. own \in j.cut
    BY <1>2, <1>3, <1>5 DEF Stays
  <2>2. Row(j, i) = Copy(j.data, own)
    BY <1>1, <1>2, <1>5 DEF Row, Swapped
  <2> QED BY <1>2, <2>1, <2>2
<1> QED BY <1>4, <1>5

\* A row that stays is of the VM it was.
LEMMA RowKeepsItsVm ==
    ASSUME NEW j, OfTheList(j), NEW i \in DOMAIN vms
    PROVE  Row(j, i).ent = vms[i].ent
<1>1. CASE Swapped(j.cut, i)
  <2> DEFINE p == Replacements(j.cut)[i]
  <2>1. i \in DOMAIN Replacements(j.cut) /\ Row(j, i) = Copy(j.data, p)
    BY <1>1 DEF Row, Swapped
  <2>2. p \in j.cut /\ vms[i].ent = EntOf(dialog.data, p)
    BY <2>1, PlaceHas
  <2>3. p \in RefsIn(j.data) /\ IsData(j.data) /\ j.data = dialog.data
    BY <2>2 DEF OfTheList, IsCut
  <2> HIDE DEF p
  <2> QED BY <2>1, <2>2, <2>3, CopyHas
<1>2. CASE ~Swapped(j.cut, i)
  BY <1>2 DEF Row
<1> QED BY <1>1, <1>2

\* The new list: what is not added is the copies of the target's references, each once.
LEMMA AppendListsTheTarget ==
    ASSUME NEW j, OfTheList(j), NEW kept, NEW fresh, Appends(j, kept, fresh)
    PROVE  ListInv'
<1> DEFINE D == j.data
           cut == j.cut
           refs == dialog.refs
           place == Replacements(cut)
<1>1. IsData(D) /\ Apart(D) /\ cut \in SUBSET RefsIn(D) /\ D = dialog.data
  BY SentIsApart DEF OfTheList, IsCut
<1>2. \A n \in DOMAIN kept : kept[n] \in Stays(cut)
  BY ListingHas DEF Appends
<1>3. \A m \in DOMAIN fresh : /\ fresh[m] \in cut /\ fresh[m] \notin DOMAIN refs
                              /\ \A i \in DOMAIN place : place[i] # fresh[m]
  BY ListingHas DEF Appends, Comes
<1>4. \A r, s \in cut : Copy(D, r) = Copy(D, s) => r = s
  BY <1>1, CopiesDiffer
<1> DEFINE Old(n, r) == /\ n \in DOMAIN kept /\ kept[n] \notin added
                        /\ r \in DOMAIN refs => refs[r] = kept[n]
                        /\ r \notin DOMAIN refs => kept[n] \in DOMAIN place /\ place[kept[n]] = r
           New(n, r) == \E m \in DOMAIN fresh : n = Len(kept) + m /\ r = fresh[m]
<1>5. ASSUME NEW n \in DOMAIN vms' \ added'
      PROVE  \E r \in cut : vms'[n] = Copy(D, r) /\ (Old(n, r) \/ New(n, r))
  <2>1. CASE n \in DOMAIN kept
    <3>1. kept[n] \notin added /\ kept[n] \in Stays(cut) /\ vms'[n] = Row(j, kept[n])
      BY <1>2, <1>5, <2>1 DEF Appends
    <3>2. \E r \in cut : /\ Row(j, kept[n]) = Copy(D, r)
                         /\ r \in DOMAIN refs => refs[r] = kept[n]
                         /\ r \notin DOMAIN refs => kept[n] \in DOMAIN place /\ place[kept[n]] = r
      BY <3>1, StayingIs
    <3> QED BY <2>1, <3>1, <3>2
  <2>2. CASE n \notin DOMAIN kept
    <3>1. PICK m \in DOMAIN fresh : n = Len(kept) + m
      BY <1>5, <2>2 DEF Appends
    <3>2. vms'[n] = Copy(D, fresh[m]) /\ fresh[m] \in cut
      BY <1>3, <3>1 DEF Appends
    <3> QED BY <3>1, <3>2
  <2> QED BY <2>1, <2>2
<1>6. \A i, k \in DOMAIN place : place[i] = place[k] => i = k
  BY PlaceHas
<1>7. ASSUME NEW n, NEW k, NEW r \in cut, Old(n, r) \/ New(n, r), Old(k, r) \/ New(k, r)
      PROVE  n = k
  <2>1. \A a, b \in DOMAIN kept : kept[a] = kept[b] => a = b
    BY ListingHas DEF Appends
  <2>2. \A a, b \in DOMAIN fresh : fresh[a] = fresh[b] => a = b
    BY ListingHas DEF Appends
  <2>3. Old(n, r) => ~New(k, r)
    BY <1>3
  <2>4. Old(k, r) => ~New(n, r)
    BY <1>3
  <2>5. Old(n, r) /\ Old(k, r) => n = k
    BY <1>6, <2>1
  <2>6. New(n, r) /\ New(k, r) => n = k
    BY <2>2
  <2> QED BY <1>7, <2>3, <2>4, <2>5, <2>6
<1>8. ASSUME NEW r \in cut PROVE \E n \in DOMAIN vms' \ added' : vms'[n] = Copy(D, r)
  <2>1. \A i \in Stays(cut) : \E n \in DOMAIN kept : kept[n] = i
    BY ListingHas DEF Appends
  <2>2. \A s \in Comes(cut) : \E m \in DOMAIN fresh : fresh[m] = s
    BY ListingHas DEF Appends
  <2>3. CASE r \in DOMAIN refs
    <3> DEFINE i == refs[r]
    <3>1. i \in DOMAIN vms \ added /\ vms[i] = Copy(D, r) /\ r \in Held(i)
      BY <1>1, <2>3 DEF OfTheList, RefsInv, Copy, Held
    <3>2. i \in Stays(cut)
      BY <3>1 DEF Stays
    <3>3. i \notin DOMAIN place
      BY <3>1, PlaceHas
    <3>4. Row(j, i) = Copy(D, r)
      BY <3>1, <3>3 DEF Row, Swapped
    <3> HIDE DEF i
    <3>5. PICK n \in DOMAIN kept : kept[n] = i
      BY <2>1, <3>2
    <3> QED BY <3>1, <3>4, <3>5 DEF Appends
  <2>4. CASE \E i \in DOMAIN place : place[i] = r
    <3>1. PICK i \in DOMAIN place : place[i] = r
      BY <2>4
    <3>2. i \in DOMAIN vms \ added /\ Held(i) \cap cut = {}
      BY <3>1, PlaceHas
    <3>3. i \in Stays(cut) /\ vms[i].src \in DOMAIN dialog.data
      BY <3>1, <3>2 DEF Stays, OfTheList, ListInv, RefsInv
    <3>4. Row(j, i) = Copy(D, r)
      BY <3>1, <3>2, <3>3 DEF Row, Swapped
    <3>5. PICK n \in DOMAIN kept : kept[n] = i
      BY <2>1, <3>3
    <3> QED BY <3>2, <3>4, <3>5 DEF Appends
  <2>5. CASE r \notin DOMAIN refs /\ \A i \in DOMAIN place : place[i] # r
    <3>1. r \in Comes(cut)
      BY <2>5 DEF Comes
    <3>2. PICK m \in DOMAIN fresh : fresh[m] = r
      BY <2>2, <3>1
    <3> QED BY <3>2 DEF Appends
  <2> QED BY <2>3, <2>4, <2>5
<1> HIDE DEF Old, New, place, refs
<1>9. summary' = {Copy(D, r) : r \in cut} /\ sources' = {r[1] : r \in cut}
  BY DEF Appends
<1> HIDE DEF cut, D
<1>10. \A n \in DOMAIN vms' \ added' : vms'[n].src \in sources'
  <2> SUFFICES ASSUME NEW n \in DOMAIN vms' \ added' PROVE vms'[n].src \in sources'
    OBVIOUS
  <2>1. PICK r \in cut : vms'[n] = Copy(D, r)
    BY <1>5
  <2>2. vms'[n].src = r[1]
    BY <1>1, <2>1, CopyHas
  <2> QED BY <1>9, <2>2
<1>11. \A n, k \in DOMAIN vms' \ added' : vms'[n] = vms'[k] => n = k
  BY <1>4, <1>5, <1>7
<1>12. summary' = {vms'[n] : n \in DOMAIN vms' \ added'}
  BY <1>5, <1>8, <1>9
<1> QED BY <1>10, <1>11, <1>12 DEF ListInv

\* The row that a row is after the append, if any is.
LEMMA SameRow ==
    ASSUME NEW j, OfTheList(j), NEW kept, NEW fresh, Appends(j, kept, fresh),
           NEW i \in DOMAIN vms, NEW k \in DOMAIN vms', SameVm(i, k)
    PROVE  k \in DOMAIN kept /\ kept[k] = i
<1> DEFINE D == dialog.data
           choice == dialog.result.choice
           e == vms[i].ent
<1>1. /\ \A x \in DOMAIN vms : vms[x].ent = e => x = i
      /\ \A x \in DOMAIN vms' : vms'[x].ent = e => x = k
      /\ vms'[k].ent = e
      /\ vms[i].src = vms'[k].src \/ (e \in DOMAIN choice /\ choice[e] # Both)
  BY DEF SameVm, Alone, Overlaps
<1>2. \A n \in DOMAIN kept : /\ kept[n] \in DOMAIN vms /\ n \in DOMAIN vms'
                             /\ vms'[n].ent = vms[kept[n]].ent
  <2> SUFFICES ASSUME NEW n \in DOMAIN kept
               PROVE  /\ kept[n] \in DOMAIN vms /\ n \in DOMAIN vms'
                      /\ vms'[n].ent = vms[kept[n]].ent
    OBVIOUS
  <2>1. kept[n] \in DOMAIN vms
    BY ListingHas DEF Appends, Stays
  <2> QED BY <2>1, RowKeepsItsVm DEF Appends
<1>3. \A x \in Stays(j.cut) : \E n \in DOMAIN kept : kept[n] = x
  BY ListingHas DEF Appends
<1>4. i \in Stays(j.cut) => k \in DOMAIN kept /\ kept[k] = i
  BY <1>1, <1>2, <1>3
<1>5. k \in DOMAIN kept => kept[k] = i
  BY <1>1, <1>2
<1>6. ASSUME k \notin DOMAIN kept, i \notin Stays(j.cut) PROVE FALSE
  <2>1. PICK m \in DOMAIN fresh : k = Len(kept) + m
    BY <1>6 DEF Appends
  <2> DEFINE s == fresh[m]
  <2>2. s \in j.cut /\ s \notin DOMAIN dialog.refs /\ vms'[k] = Copy(D, s)
    BY <2>1, ListingHas DEF Appends, Comes, OfTheList
  <2>3. /\ IsData(D) /\ IsResult(dialog.result, D) /\ IsCut(j.cut, choice, D) /\ Apart(D)
        /\ RefsInv(D, dialog.refs, vms, added, sources)
    BY SentIsApart DEF OfTheList
  <2> HIDE DEF s
  <2>4. s \in RefsIn(D) /\ EntOf(D, s) = e /\ vms'[k].src = s[1] /\ s[1] \notin sources
    <3>1. s \in RefsIn(D)
      BY <2>2, <2>3 DEF IsCut
    <3>2. s[1] \notin sources
      BY <2>2, <2>3, <3>1 DEF RefsInv
    <3> QED BY <1>1, <2>2, <2>3, <3>1, <3>2, CopyHas
  <2>5. i \notin added
    BY <1>6 DEF Stays
  <2>6. vms[i].src \in sources
    BY <2>5 DEF OfTheList, ListInv
  <2>7. e \in DOMAIN choice /\ choice[e] # Both
    BY <1>1, <2>4, <2>6
  <2>8. choice[e] = s[1]
    BY <2>2, <2>3, <2>4, <2>7 DEF IsCut
  <2>9. Win(e) = s
    <3> DEFINE W == {r \in Copies(D, e) : r[1] = choice[e]}
    <3>1. s \in W
      BY <2>4, <2>8 DEF Copies
    <3>2. W \in SUBSET RefsIn(D) /\ \A r \in W : EntOf(D, r) = e /\ r[1] = s[1]
      BY <2>8 DEF Copies
    <3>3. Win(e) = First(W)
      BY DEF Win
    <3> HIDE DEF W
    <3>4. First(W) \in W
      BY <2>3, <3>1, <3>2, RefsHave, FirstIsOne
    <3> QED BY <2>3, <2>4, <3>2, <3>3, <3>4, OneCopyAFile
  <2>10. PICK own \in DOMAIN dialog.refs :
            vms[i] = Copy(D, own) /\ own \in RefsIn(D)
    BY <2>5, EachHasItsOwn
  <2>11. own \in Mine(e)
    BY <2>3, <2>10, CopyHas DEF Mine, Copies
  <2>12. e \in Moved(j.cut)
    BY <2>2, <2>7, <2>9, <2>11 DEF Moved, Overlaps
  <2> DEFINE place == dialog.refs[First(Mine(e))]
  <2>13. place \in DOMAIN vms /\ vms[place].ent = e
    <3>1. Mine(e) \in SUBSET (Nat \X Nat)
      BY <2>3, RefsHave DEF Mine, Copies
    <3>2. First(Mine(e)) \in Mine(e)
      BY <2>11, <3>1, FirstIsOne
    <3>3. /\ First(Mine(e)) \in DOMAIN dialog.refs /\ First(Mine(e)) \in RefsIn(D)
          /\ EntOf(D, First(Mine(e))) = e
      BY <3>2 DEF Mine, Copies
    <3>4. place \in DOMAIN vms /\ vms[place] = Copy(D, First(Mine(e)))
      BY <2>3, <3>3 DEF RefsInv, Copy
    <3> QED BY <2>3, <3>3, <3>4, CopyHas
  <2>14. place \in DOMAIN Replacements(j.cut)
    BY <2>12, ReplacementsAre
  <2>15. place = i
    BY <1>1, <2>13
  <2> QED BY <1>6, <2>14, <2>15 DEF Stays
<1> QED BY <1>4, <1>5, <1>6

LEMMA EditsStayWithTheirVm ==
    ASSUME NEW j, OfTheList(j), NEW kept, NEW fresh, Appends(j, kept, fresh)
    PROVE  /\ \A i \in DOMAIN vms, k \in DOMAIN vms' :
                 SameVm(i, k) => (i \in touched <=> k \in touched')
           /\ \A k \in touched' : \E i \in touched : vms[i].ent = vms'[k].ent
<1>1. touched' = {n \in DOMAIN kept : kept[n] \in touched}
  BY DEF Appends
<1>2. ASSUME NEW i \in DOMAIN vms, NEW k \in DOMAIN vms', SameVm(i, k)
      PROVE  i \in touched <=> k \in touched'
  BY <1>1, <1>2, SameRow
<1>3. ASSUME NEW k \in touched' PROVE \E i \in touched : vms[i].ent = vms'[k].ent
  <2>1. k \in DOMAIN kept /\ kept[k] \in touched
    BY <1>1
  <2>2. kept[k] \in DOMAIN vms
    BY <2>1, ListingHas DEF Appends, Stays
  <2>3. vms'[k] = Row(j, kept[k])
    BY <2>1 DEF Appends
  <2> QED BY <2>1, <2>2, <2>3, RowKeepsItsVm
<1> QED BY <1>2, <1>3

-----------------------------------------------------------------------------
(* Create.                                                                   *)

\* In time, what the dialog has is of the list.
LEMMA InTimeOfTheList ==
    ASSUME MergeInv, ~mixed, dialog # NoDialog, dialog.result # None,
           NEW j, JobInv(j, dialog, started), j.append, InTime(j)
    PROVE  OfTheList(j)
<1>1. /\ dialog.id = j.id /\ dialog.result = j.result /\ dialog.edition = edition
      /\ dialog.data = j.data /\ dialog.append = j.append
  BY DEF InTime, JobInv
<1>2. DialogInv(dialog, started, edition) /\ RefsInv(dialog.data, dialog.refs, vms, added, sources)
  BY <1>1 DEF MergeInv, OpenInv
<1> QED BY <1>1, <1>2 DEF OfTheList, MergeInv, DialogInv, JobInv

LEMMA FinishKeeps ==
    ASSUME MergeInv, CurrentInv', dialog # NoDialog, NEW j, JobInv(j, dialog, started), Finish(j),
           UNCHANGED <<intake, edits>>
    PROVE  MergeInv'
<1>1. /\ uploads' = uploads /\ started' = started /\ edits' = edits /\ job' = None
      /\ showing' = FALSE
  BY DEF Finish, intake
<1>2. ScreenInv /\ started' \in Nat /\ edits' \in Nat /\ showing' \in BOOLEAN
  BY <1>1 DEF MergeInv, ScreenInv
<1>3. IsData(j.data) /\ j.cut \in SUBSET RefsIn(j.data) /\ j.home \in Names \cup {None}
  BY DEF JobInv, IsCut
<1>4. CASE UNCHANGED screen /\ dialog' \in {dialog, NoDialog}
  BY <1>1, <1>2, <1>4, ListStays
<1>5. CASE /\ j.home # None /\ ~j.append /\ dialog' = NoDialog
           /\ FinishImport([n \in DOMAIN InOrder(j.cut) |->
                  LET r == InOrder(j.cut)[n] IN Vm(r[1], EntOf(j.data, r))], j.home)
  <2> DEFINE q == InOrder(j.cut)
             list == [n \in DOMAIN q |-> Copy(j.data, q[n])]
  <2>1. FinishImport(list, j.home)
    BY <1>5 DEF Copy
  <2>2. Apart(j.data)
    BY <1>3, <1>5, FilesAreData DEF JobInv, IsData
  <2>3. Listing(q, j.cut)
    <3>1. IsFiniteSet(j.cut) /\ j.cut \in SUBSET (Nat \X Nat)
      BY <1>3, RefsAreFinite, RefsHave, FS_Subset
    <3> QED BY <3>1, InOrderLists
  <2> HIDE DEF q
  <2>4. /\ Len(q) \in Nat /\ DOMAIN q = 1..Len(q) /\ \A n \in DOMAIN q : q[n] \in RefsIn(j.data)
        /\ \A n, m \in DOMAIN q : q[n] = q[m] => n = m
    BY <1>3, <2>3, ListingHas
  <2>5. list \in Seq(AllRows) /\ DOMAIN list = DOMAIN q
    BY <1>3, <2>4, CopyHas
  <2>6. \A n \in DOMAIN q : list[n] = Copy(j.data, q[n])
    OBVIOUS
  <2> HIDE DEF list
  <2>7. \A n \in DOMAIN list : list[n].src # None
    BY <1>3, <2>4, <2>5, <2>6, CopyHas
  <2>8. \A n, m \in DOMAIN list : list[n] = list[m] => n = m
    BY <1>3, <2>2, <2>4, <2>5, <2>6, CopiesDiffer
  <2>9. ScreenInv' /\ ListInv' /\ edition' = edition + 1
    BY <1>2, <1>3, <1>5, <2>1, <2>5, <2>7, <2>8, ImportIsSound
  <2> QED BY <1>1, <1>5, <2>9, ListReplaced
<1>6. CASE /\ j.home # None /\ j.append /\ dialog.result # None
           /\ ApplyAppend(j) /\ mixed' = (mixed \/ ~InTime(j)) /\ dialog' = NoDialog
  <2>1. ScreenInv' /\ edition' = edition + 1
    BY <1>2, <1>3, <1>6, AppendIsTyped
  <2>2. ASSUME ~mixed' PROVE ListInv'
    <3>1. OfTheList(j)
      BY <1>6, <2>2, InTimeOfTheList
    <3>2. \E kept, fresh : Appends(j, kept, fresh)
      BY <1>2, <1>3, <1>6, ApplyAppendIs
    <3> QED BY <3>1, <3>2, AppendListsTheTarget
  <2> QED BY <1>1, <1>6, <2>1, <2>2, ListReplaced
<1> QED BY <1>4, <1>5, <1>6 DEF Finish

\* What Create starts with.
LEMMA HomesAre ==
    ASSUME NEW home \in Homes
    PROVE  home = None \/ home \in DOMAIN dialog.result.cut
BY DEF Homes

LEMMA CreateStarts ==
    ASSUME MergeInv, CreatePerClusterSizings
    PROVE  \E j : /\ JobInv(j, dialog, started) /\ j.id = dialog.id /\ j.result = dialog.result
                  /\ j.append = dialog.append
                  /\ \/ Finish(j)
                     \/ job' = j /\ j.left # {} /\ UNCHANGED <<screen, dialog, showing>>
<1>1. PICK home \in Homes :
        LET others == DOMAIN dialog.result.cut \ {home}
            j == [id |-> dialog.id, append |-> dialog.append, data |-> dialog.data,
                  result |-> dialog.result, home |-> home, left |-> others,
                  cut |-> IF home = None THEN {} ELSE dialog.result.cut[home]]
        IN IF others = {} THEN Finish(j)
           ELSE job' = j /\ UNCHANGED <<screen, dialog, showing>>
  BY DEF CreatePerClusterSizings
<1> DEFINE others == DOMAIN dialog.result.cut \ {home}
           j == [id |-> dialog.id, append |-> dialog.append, data |-> dialog.data,
                 result |-> dialog.result, home |-> home, left |-> others,
                 cut |-> IF home = None THEN {} ELSE dialog.result.cut[home]]
<1>2. IF others = {} THEN Finish(j) ELSE job' = j /\ UNCHANGED <<screen, dialog, showing>>
  BY <1>1
<1>3. DialogInv(dialog, started, edition) /\ IsResult(dialog.result, dialog.data)
  BY DEF CreatePerClusterSizings, MergeInv, OpenInv, DialogInv
<1>4. /\ j.id = dialog.id /\ j.append = dialog.append /\ j.data = dialog.data
      /\ j.result = dialog.result /\ j.home = home /\ j.left = others
      /\ j.cut = (IF home = None THEN {} ELSE dialog.result.cut[home])
      /\ j = [id |-> j.id, append |-> j.append, data |-> j.data, result |-> j.result,
              home |-> j.home, left |-> j.left, cut |-> j.cut]
  OBVIOUS
<1> HIDE DEF j
<1>5. IsCut(j.cut, j.result.choice, j.data) /\ j.home \in Names \cup {None}
  BY <1>3, <1>4, HomesAre DEF IsResult, IsCut
<1>6. JobInv(j, dialog, started)
  BY <1>3, <1>4, <1>5 DEF JobInv, DialogInv
<1> QED BY <1>2, <1>4, <1>6

LEMMA CreateKeeps ==
    ASSUME MergeInv, CurrentInv', CreatePerClusterSizings
    PROVE  MergeInv'
<1>1. UNCHANGED <<intake, edits>> /\ dialog # NoDialog
  BY DEF CreatePerClusterSizings
<1>2. PICK j : /\ JobInv(j, dialog, started) /\ j.id = dialog.id
               /\ \/ Finish(j)
                  \/ job' = j /\ j.left # {} /\ UNCHANGED <<screen, dialog, showing>>
  BY CreateStarts
<1>3. CASE Finish(j)
  BY <1>1, <1>2, <1>3, FinishKeeps
<1>4. CASE job' = j /\ j.left # {} /\ UNCHANGED <<screen, dialog, showing>>
  <2>1. UNCHANGED <<uploads, started, edits, dialog, showing>>
    BY <1>1, <1>4 DEF intake
  <2>2. ScreenInv' /\ (~mixed' => ListInv')
    BY <1>4, <2>1 DEF MergeInv, ScreenInv, ListInv, screen
  <2>3. UploadsInv'
    BY <1>4, <2>1 DEF MergeInv, UploadsInv, screen
  <2>4. OpenInv'
    BY <1>4, <2>1 DEF MergeInv, OpenInv, screen
  <2>5. CreateInv'
    BY <1>1, <1>2, <1>4, <2>1 DEF MergeInv, OpenInv, CreateInv
  <2> QED BY <2>2, <2>3, <2>4, <2>5 DEF MergeInv
<1> QED BY <1>2, <1>3, <1>4

LEMMA SaveAnsweredKeeps ==
    ASSUME MergeInv, CurrentInv', SaveAnswered
    PROVE  MergeInv'
<1>1. UNCHANGED <<intake, edits>> /\ job # None
  BY DEF SaveAnswered
<1>2. /\ JobInv(job, dialog, started) /\ dialog # NoDialog
      /\ \A u \in uploads : u.id # job.id
  BY <1>1 DEF MergeInv, CreateInv
<1>3. CASE Finish(job)
  BY <1>1, <1>2, <1>3, FinishKeeps
<1>4. ASSUME NEW t \in job.left, job.left # {t}, job' = [job EXCEPT !.left = job.left \ {t}],
             UNCHANGED <<screen, dialog, showing>>
      PROVE  MergeInv'
  <2>1. UNCHANGED <<uploads, started, edits, dialog, showing>>
    BY <1>1, <1>4 DEF intake
  <2>2. ScreenInv' /\ (~mixed' => ListInv')
    BY <1>4, <2>1 DEF MergeInv, ScreenInv, ListInv, screen
  <2>3. UploadsInv'
    BY <1>4, <2>1 DEF MergeInv, UploadsInv, screen
  <2>4. OpenInv'
    BY <1>4, <2>1 DEF MergeInv, OpenInv, screen
  <2>5. job' = [id |-> job.id, append |-> job.append, data |-> job.data, result |-> job.result,
                home |-> job.home, left |-> job.left \ {t}, cut |-> job.cut]
    BY <1>2, <1>4 DEF JobInv
  <2>6. /\ job'.id = job.id /\ job'.append = job.append /\ job'.data = job.data
        /\ job'.result = job.result /\ job'.home = job.home /\ job'.left = job.left \ {t}
        /\ job'.cut = job.cut
    BY <2>5
  <2>7. JobInv(job', dialog, started)
    BY <1>2, <2>5, <2>6 DEF JobInv
  <2>8. job'.left # {}
    BY <1>4, <2>6
  <2>9. CreateInv'
    BY <1>2, <2>1, <2>6, <2>7, <2>8 DEF CreateInv
  <2> QED BY <2>2, <2>3, <2>4, <2>9 DEF MergeInv
<1>5. CASE job' = None /\ showing' = FALSE /\ UNCHANGED <<screen, dialog>>
  <2>1. /\ UNCHANGED <<started, dialog>> /\ uploads' = uploads /\ edits' \in Nat
        /\ showing' \in BOOLEAN
    BY <1>1, <1>5 DEF intake, MergeInv, ScreenInv
  <2> QED BY <1>5, <2>1, ListStays
<1> QED BY <1>3, <1>4, <1>5 DEF SaveAnswered

-----------------------------------------------------------------------------
(* Every step.                                                               *)

LEMMA MergeNext == ASSUME MergeInv, [Next]_vars PROVE MergeInv'
<1>1. CurrentInv'
  BY CurrentNext DEF MergeInv
<1>2. CASE User
  <2>1. ASSUME NEW e \in Entities, AddVm(e) PROVE MergeInv'
    BY <1>1, <2>1, AddVmKeeps
  <2>2. ASSUME NEW i \in DOMAIN vms, Touch(i) PROVE MergeInv'
    BY <1>1, <2>2, TouchKeeps
  <2>3. ASSUME NEW files \in (SUBSET Files) \ {{}}, NEW append \in BOOLEAN,
               StartUpload(files, append)
        PROVE  MergeInv'
    BY <1>1, <2>3, StartUploadKeeps
  <2>4. ASSUME MakeChoice PROVE MergeInv'
    BY <1>1, <2>4, MakeChoiceKeeps
  <2>5. ASSUME CloseDialog PROVE MergeInv'
    BY <1>1, <2>5, CloseDialogKeeps
  <2>6. ASSUME CreatePerClusterSizings PROVE MergeInv'
    BY <1>1, <2>6, CreateKeeps
  <2> QED BY <1>2, <2>1, <2>2, <2>3, <2>4, <2>5, <2>6 DEF User
<1>3. CASE Reading
  BY <1>1, <1>3, FileReadKeeps, AllReadKeeps, ReadAloneKeeps DEF Reading
<1>4. CASE Answered
  BY <1>1, <1>4, AnswerIsSound DEF Answered
<1>5. CASE SaveAnswered
  BY <1>1, <1>5, SaveAnsweredKeeps
<1>6. CASE UNCHANGED vars
  <2>1. /\ UNCHANGED <<screen, started, dialog, job>> /\ edits' \in Nat /\ showing' \in BOOLEAN
        /\ uploads' = uploads
    BY <1>6 DEF vars, intake, form, MergeInv, ScreenInv
  <2> QED BY <1>1, <2>1, ListStays
<1> QED BY <1>2, <1>3, <1>4, <1>5, <1>6 DEF Next

LEMMA MergeInit == ASSUME Init PROVE MergeInv
<1>1. /\ vms = <<>> /\ added = {} /\ touched = {} /\ summary = {} /\ sources = {}
      /\ site = None /\ edition = 0 /\ uploads = {} /\ started = 0 /\ edits = 0
      /\ dialog = NoDialog /\ showing = FALSE /\ seq = 0 /\ net = {} /\ job = None
  BY DEF Init
<1>2. vms \in Seq(AllRows) /\ DOMAIN vms = {}
  BY <1>1
<1>3. ScreenInv
  BY <1>1, <1>2 DEF ScreenInv
<1>4. ListInv
  BY <1>1, <1>2 DEF ListInv
<1>5. UploadsInv /\ OpenInv /\ CreateInv
  BY <1>1 DEF UploadsInv, OpenInv, CreateInv
<1>6. CurrentInv
  BY <1>1 DEF CurrentInv, FormInv
<1> QED BY <1>3, <1>4, <1>5, <1>6 DEF MergeInv

LEMMA MergeAlways == Spec => []MergeInv
<1>1. Init => MergeInv
  BY MergeInit
<1>2. MergeInv /\ [Next]_vars => MergeInv'
  BY MergeNext
<1> QED BY <1>1, <1>2, PTL DEF Spec

\* Every row is a VM of a file or one the user put in, whichever the sets say, edits are
\* of rows that are there, and a dialog is there while it shows or is carried out.
THEOREM ImportTypeCorrect == Spec => []TypeOK
<1>1. MergeInv => TypeOK
  <2> SUFFICES ASSUME MergeInv PROVE TypeOK
    OBVIOUS
  <2>1. ScreenInv /\ CreateInv /\ seq \in Nat /\ (showing => dialog # NoDialog)
    BY DEF MergeInv, CurrentInv, FormInv
  <2>2. \A i \in DOMAIN vms : vms[i].ent \in Entities /\ (vms[i].src = None <=> i \in added)
    <3>1. vms \in Seq(AllRows)
      BY <2>1 DEF ScreenInv
    <3>2. \A i \in DOMAIN vms : vms[i] \in AllRows
      BY <3>1
    <3> QED BY <2>1, <3>2 DEF AllRows, ScreenInv
  <2>3. {edition, seq, started, edits} \subseteq Nat
    BY <2>1 DEF ScreenInv
  <2>4. added \cup touched \subseteq DOMAIN vms /\ sources \subseteq Files
        /\ site \in Names \cup {None}
    BY <2>1 DEF ScreenInv
  <2>5. job # None => showing \in BOOLEAN /\ dialog # NoDialog /\ job.left # {}
    BY <2>1 DEF ScreenInv, CreateInv
  <2> QED BY <2>1, <2>2, <2>3, <2>4, <2>5 DEF TypeOK
<1> QED BY <1>1, MergeAlways, PTL

\* The rows are as many as the VMs of the summary and the added ones.
LEMMA RowsAreCounted ==
    ASSUME ScreenInv, ListInv
    PROVE  Len(vms) = Cardinality(summary) + Cardinality(added)
<1> DEFINE I == DOMAIN vms \ added
           f == [i \in I |-> vms[i]]
<1>1. vms \in Seq(AllRows) /\ added \in SUBSET DOMAIN vms
  BY DEF ScreenInv
<1>2. Len(vms) \in Nat /\ DOMAIN vms = 1..Len(vms)
  BY <1>1
<1>3. IsFiniteSet(DOMAIN vms) /\ Cardinality(DOMAIN vms) = Len(vms)
  <2> DEFINE n == Len(vms)
  <2>1. n \in Nat
    BY <1>2
  <2> HIDE DEF n
  <2>2. IsFiniteSet(1..n) /\ Cardinality(1..n) = n
    BY <2>1, FS_Interval
  <2> QED BY <1>2, <2>2 DEF n
<1>4. /\ IsFiniteSet(I) /\ Cardinality(I) = Cardinality(DOMAIN vms) - Cardinality(added)
      /\ Cardinality(added) \in Nat /\ Cardinality(I) \in Nat
  <2>1. DOMAIN vms \cap added = added
    BY <1>1
  <2>2. IsFiniteSet(added)
    BY <1>1, <1>3, FS_Subset
  <2>3. IsFiniteSet(I) /\ Cardinality(I) = Cardinality(DOMAIN vms) - Cardinality(added)
    BY <1>3, <2>1, FS_Difference
  <2> QED BY <2>2, <2>3, FS_CardinalityType
<1>5. f \in Surjection(I, summary)
  BY DEF Surjection, ListInv
<1>6. f \in Injection(I, summary)
  <2>1. f \in [I -> summary]
    BY DEF ListInv
  <2>2. \A i, k \in I : f[i] = f[k] => i = k
    BY DEF ListInv
  <2> QED BY <2>1, <2>2 DEF Injection, IsInjective
<1> HIDE DEF f, I
<1>7. Cardinality(summary) = Cardinality(I)
  BY <1>4, <1>5, <1>6, FS_Surjection
<1> QED BY <1>2, <1>3, <1>4, <1>7

\* finishImport and _applyAppend: the summary is of the imported rows of the list, each
\* once, for any files, uploads, edits and choices, while every append was applied to the
\* list its references were made for.
THEOREM SummaryOfTheList == Spec => []SummaryIsOfTheRows
<1>1. MergeInv => SummaryIsOfTheRows
  <2> SUFFICES ASSUME MergeInv, ~mixed PROVE SummaryIsOfTheRows
    BY DEF SummaryIsOfTheRows
  <2>1. ScreenInv /\ ListInv
    BY DEF MergeInv
  <2>2. Len(vms) = Cardinality(summary) + Cardinality(added)
    BY <2>1, RowsAreCounted
  <2> QED BY <2>1, <2>2 DEF SummaryIsOfTheRows, ListInv
<1> QED BY <1>1, MergeAlways, PTL

\* Only the end of Create appends in time.
LEMMA OnlyCreateAppends ==
    ASSUME MergeInv, [Next]_vars, AppendInTime
    PROVE  \E j : Finish(j) /\ JobInv(j, dialog, started) /\ j.append /\ InTime(j)
<1>1. /\ edition' # edition /\ dialog' # dialog /\ dialog # NoDialog /\ dialog.edition = edition
      /\ (IF job = None THEN dialog.append ELSE job.append /\ InTime(job))
  BY DEF AppendInTime, MergeInv, ScreenInv
<1>2. CASE User
  <2>1. ~(\E e \in Entities : AddVm(e)) /\ ~(\E i \in DOMAIN vms : Touch(i))
    BY <1>1 DEF AddVm, Touch, form
  <2>2. ~(\E files \in (SUBSET Files) \ {{}}, append \in BOOLEAN : StartUpload(files, append))
    BY <1>1 DEF StartUpload, form
  <2>3. ~MakeChoice
    <3>1. MakeChoice => \E resolutions, mapping : Choose(resolutions, mapping)
      BY DEF MakeChoice, OnOverlapChoice, KeepNewest, KeepBothVms, AllSeparate, AllInOne,
             OnMergeTargetChange, RenameMergeTarget
    <3> QED BY <1>1, <3>1 DEF Choose, screen
  <2>4. ~CloseDialog
    BY <1>1 DEF CloseDialog
  <2>5. CreatePerClusterSizings
    BY <1>2, <2>1, <2>2, <2>3, <2>4 DEF User
  <2>6. PICK j : /\ JobInv(j, dialog, started) /\ j.id = dialog.id /\ j.result = dialog.result
                 /\ j.append = dialog.append
                 /\ \/ Finish(j)
                    \/ job' = j /\ j.left # {} /\ UNCHANGED <<screen, dialog, showing>>
    BY <2>5, CreateStarts
  <2>7. job = None
    BY <2>5 DEF CreatePerClusterSizings
  <2> QED BY <1>1, <2>6, <2>7 DEF InTime
<1>3. CASE Reading
  <2>1. PICK u \in uploads : FileRead(u) \/ AllRead(u) \/ ReadAlone(u)
    BY <1>3 DEF Reading
  <2>2. ~FileRead(u) /\ ~AllRead(u)
    BY <1>1 DEF FileRead, AllRead, screen, form
  <2>3. ~ReadAlone(u)
    BY <1>1 DEF ReadAlone, screen, form
  <2> QED BY <2>1, <2>2, <2>3
<1>4. CASE Answered
  BY <1>1, <1>4 DEF Answered, MergeAnswered, screen
<1>5. CASE SaveAnswered
  <2>1. job # None /\ Finish(job)
    BY <1>1, <1>5 DEF SaveAnswered
  <2> QED BY <1>1, <2>1 DEF MergeInv, CreateInv
<1>6. CASE UNCHANGED vars
  BY <1>1, <1>6 DEF vars, screen
<1> QED BY <1>2, <1>3, <1>4, <1>5, <1>6 DEF Next

\* _applyAppend: an append to the list its references are of keeps every exclusion and
\* edit with its VM and puts it on no other, whatever rows are dropped, taken over by
\* another file's copy, or added meanwhile.
THEOREM EditsStay == Spec => EditsFollowTheVm
<1> DEFINE Follow == /\ \A i \in DOMAIN vms, k \in DOMAIN vms' :
                           SameVm(i, k) => (i \in touched <=> k \in touched')
                     /\ \A k \in touched' : \E i \in touched : vms[i].ent = vms'[k].ent
<1>1. MergeInv /\ [Next]_vars => [AppendInTime => Follow]_vars
  <2> SUFFICES ASSUME MergeInv, [Next]_vars, AppendInTime PROVE Follow
    OBVIOUS
  <2>1. PICK j : Finish(j) /\ JobInv(j, dialog, started) /\ j.append /\ InTime(j)
    BY OnlyCreateAppends
  <2>2. edition' # edition /\ dialog' # dialog /\ dialog # NoDialog /\ ~mixed
    BY DEF AppendInTime, MergeInv, ScreenInv
  <2>3. ApplyAppend(j) /\ dialog.result # None
    BY <2>1, <2>2 DEF Finish, screen
  <2>4. OfTheList(j)
    BY <2>1, <2>2, <2>3, InTimeOfTheList
  <2>5. PICK kept, fresh : Appends(j, kept, fresh)
    BY <2>1, <2>3, ApplyAppendIs DEF MergeInv, JobInv, IsCut
  <2> QED BY <2>4, <2>5, EditsStayWithTheirVm
<1>2. Spec => [][AppendInTime => Follow]_vars
  <2> HIDE DEF Follow
  <2> QED BY <1>1, MergeAlways, PTL DEF Spec
<1> QED BY <1>2 DEF EditsFollowTheVm

=============================================================================
