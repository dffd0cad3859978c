-------------------------- MODULE RefreshLoopProofs --------------------------
(***************************************************************************)
(* What TLAPS proves of RefreshLoop for every number of sizings, projects, *)
(* frames at a time and requests.                                          *)
(***************************************************************************)
EXTENDS RefreshLoop, FiniteSetTheorems, SequenceTheorems, TLAPS

-----------------------------------------------------------------------------
(* The rows of a run do come in an order: every finite set of numbers can   *)
(* be listed in ascending order.  A smallest counterexample would lose its  *)
(* least element and be a smaller one.                                      *)

Lists(S) == [1..Cardinality(S) -> S]
Ascending(q) == \A i, j \in DOMAIN q : i < j => q[i] < q[j]

LEMMA LeastNumber ==
    ASSUME NEW T \in SUBSET Nat, T # {}
    PROVE  \E m \in T : \A n \in T : m <= n
<1>1. \E m \in T : \A n \in T : <<n, m>> \notin OpToRel(<, Nat)
    BY NatLessThanWellFounded, WFMin
<1>2. \A n, m \in Nat : n < m => <<n, m>> \in OpToRel(<, Nat)
    BY SMT DEF OpToRel
<1>3. PICK m \in T : \A n \in T : <<n, m>> \notin OpToRel(<, Nat)
    BY <1>1
<1>4. \A n \in T : ~(n < m)
    BY <1>2, <1>3
<1>5. \A n \in T : m <= n
    BY <1>4
<1> QED BY <1>5

LEMMA OrderExists ==
    ASSUME NEW S \in SUBSET Nat, IsFiniteSet(S)
    PROVE  \E q \in Lists(S) : Ascending(q)
<1> DEFINE Bad == {n \in Nat : \E U \in SUBSET Nat :
                        /\ IsFiniteSet(U) /\ Cardinality(U) = n
                        /\ ~ \E q \in Lists(U) : Ascending(q)}
<1> SUFFICES ASSUME Bad # {} PROVE FALSE
    BY FS_CardinalityType
<1>1. PICK n \in Bad : \A k \in Bad : n <= k
    BY LeastNumber
<1>2. PICK U \in SUBSET Nat : /\ IsFiniteSet(U) /\ Cardinality(U) = n
                              /\ ~ \E q \in Lists(U) : Ascending(q)
    BY <1>1
<1>3. CASE U = {}
    <2>1. Cardinality(U) = 0
        BY <1>3, FS_EmptySet
    <2>2. [i \in 1..0 |-> 0] \in Lists(U) /\ Ascending([i \in 1..0 |-> 0])
        BY <1>3, <2>1 DEF Lists, Ascending
    <2> QED BY <1>2, <2>2
<1>4. CASE U # {}
    <2>1. PICK m \in U : \A k \in U : m <= k
        BY <1>4, LeastNumber
    <2> DEFINE V == U \ {m}
    <2>2. IsFiniteSet(V) /\ Cardinality(V) = n - 1 /\ n - 1 \in Nat
        <3>1. IsFiniteSet(V) /\ Cardinality(V) = Cardinality(U) - 1
            BY <1>2, <2>1, FS_RemoveElement
        <3>2. Cardinality(V) \in Nat
            BY <3>1, FS_CardinalityType
        <3> QED BY <1>2, <3>1, <3>2
    <2>3. n - 1 \notin Bad
        BY <1>1, <2>2
    <2>4. PICK q \in Lists(V) : Ascending(q)
        BY <2>2, <2>3
    <2> DEFINE r == [i \in 1..n |-> IF i = 1 THEN m ELSE q[i - 1]]
    <2>5. DOMAIN q = 1..(n - 1) /\ \A i \in 1..(n - 1) : q[i] \in U /\ q[i] \in Nat /\ q[i] > m
        <3>1. q \in [1..(n - 1) -> V]
            BY <2>2 DEF Lists
        <3>2. \A k \in V : k \in U /\ k \in Nat /\ k > m
            BY <2>1
        <3> QED BY <3>1, <3>2
    <2>6. r \in Lists(U)
        <3>1. \A i \in 1..n : i # 1 => i - 1 \in 1..(n - 1)
            BY <1>1
        <3>2. r \in [1..n -> U]
            BY <2>1, <2>5, <3>1
        <3> QED BY <1>2, <3>2 DEF Lists
    <2>7. Ascending(r)
        <3> SUFFICES ASSUME NEW i \in 1..n, NEW j \in 1..n, i < j PROVE r[i] < r[j]
            BY DEF Ascending
        <3>1. r[j] = q[j - 1] /\ j - 1 \in 1..(n - 1)
            BY <1>1
        <3>2. CASE i = 1
            BY <2>1, <2>5, <3>1, <3>2
        <3>3. CASE i # 1
            <4>1. r[i] = q[i - 1] /\ i - 1 \in 1..(n - 1) /\ i - 1 < j - 1
                BY <1>1, <3>3
            <4> QED BY <2>4, <2>5, <3>1, <4>1 DEF Ascending
        <3> QED BY <3>2, <3>3
    <2> QED BY <1>2, <2>6, <2>7
<1> QED BY <1>3, <1>4


Distinct(q) == \A i, j \in 1..Len(q) : q[i] = q[j] => i = j

LEMMA RowsInOrder ==
    ASSUME NEW S \in SUBSET Sizings
    PROVE  /\ IsFiniteSet(S) /\ Cardinality(S) \in Nat
           /\ InOrder(S) \in Seq(Sizings) /\ Len(InOrder(S)) = Cardinality(S)
           /\ Distinct(InOrder(S))
           /\ \A s \in S : \E i \in 1..Len(InOrder(S)) : InOrder(S)[i] = s
<1> DEFINE q == InOrder(S)
           n == Cardinality(S)
<1>1. IsFiniteSet(S) /\ n \in Nat /\ S \in SUBSET Nat
    BY RefreshAssumption, FS_Subset, FS_CardinalityType
<1>2. q \in [1..n -> S] /\ \A i, j \in DOMAIN q : i < j => q[i] < q[j]
    BY <1>1, OrderExists DEF InOrder, Lists, Ascending
<1> HIDE DEF q, n
<1>3. q \in Seq(S) /\ Len(q) = n
    BY <1>1, <1>2
<1>4. q \in Seq(Sizings)
    BY <1>3, SeqMonotonic
<1>5. \A i, j \in 1..n : q[i] = q[j] => i = j
    <2>1. ASSUME NEW i \in 1..n, NEW j \in 1..n, i < j PROVE q[i] # q[j]
        <3>1. q[i] \in Nat /\ q[j] \in Nat
            BY <1>1, <1>2
        <3>2. q[i] < q[j]
            BY <1>2, <2>1
        <3> QED BY <3>1, <3>2
    <2> QED BY <1>1, <2>1
<1>6. q \in Injection(1..n, S)
    BY <1>2, <1>5 DEF Injection, IsInjective
<1>7. Cardinality(1..n) = Cardinality(S)
    <2>1. Cardinality(1..n) = n
        BY <1>1, FS_Interval
    <2> QED BY <2>1 DEF n
<1>8. q \in Surjection(1..n, S)
    BY <1>1, <1>6, <1>7, FS_Injection
<1>9. \A s \in S : \E i \in 1..n : q[i] = s
    BY <1>8 DEF Surjection
<1> QED BY <1>1, <1>3, <1>4, <1>5, <1>9 DEF q, n, Distinct

-----------------------------------------------------------------------------
(* Sequences: one timer cancelled, some timers more.                        *)

LEMMA CancelledFacts ==
    ASSUME NEW q \in Seq(Calls), Distinct(q), NEW e
    PROVE  /\ Cancelled(q, e) \in Seq(Calls) /\ Distinct(Cancelled(q, e))
           /\ \A i \in 1..Len(Cancelled(q, e)) :
                 \E j \in 1..Len(q) : q[j] = Cancelled(q, e)[i] /\ q[j] # e
<1> DEFINE k == CHOOSE i \in DOMAIN q : q[i] = e
           head == SubSeq(q, 1, k - 1)
           tail == SubSeq(q, k + 1, Len(q))
           c == head \o tail
<1>1. CASE \A i \in 1..Len(q) : q[i] # e
    <2>1. Cancelled(q, e) = q
        BY <1>1 DEF Cancelled
    <2> QED BY <1>1, <2>1
<1>2. CASE \E i \in 1..Len(q) : q[i] = e
    <2>1. k \in 1..Len(q) /\ q[k] = e
        BY <1>2
    <2>2. Cancelled(q, e) = c
        <3>1. \E i \in DOMAIN q : q[i] = e
            BY <1>2
        <3> QED BY <3>1 DEF Cancelled
    <2> HIDE DEF k
    <2> DEFINE l == Len(q)
    <2>0. l \in Nat /\ DOMAIN q = 1..l /\ (\A i \in 1..l : q[i] \in Calls) /\ k \in 1..l
        BY <2>1
    <2> HIDE DEF l
    <2>3. head \in Seq(Calls) /\ Len(head) = k - 1 /\ \A i \in 1..(k - 1) : head[i] = q[i]
        BY <2>0, SubSeqProperties
    <2>4. /\ tail \in Seq(Calls) /\ Len(tail) = Len(q) - k
          /\ \A i \in 1..(Len(q) - k) : tail[i] = q[k + i]
        <3>1. \A i \in (k + 1)..l : q[i] \in Calls
            BY <2>0
        <3>2. SubSeq(q, k + 1, l) \in Seq(Calls) /\ Len(SubSeq(q, k + 1, l)) = l - k
            BY <2>0, <3>1, SubSeqProperties
        <3>3. \A i \in 1..(l - k) : SubSeq(q, k + 1, l)[i] = q[k + i]
            BY <2>0
        <3> QED BY <3>2, <3>3 DEF l
    <2> HIDE DEF head, tail
    <2>5. /\ c \in Seq(Calls) /\ Len(c) = Len(q) - 1
          /\ \A i \in 1..(Len(q) - 1) : c[i] = IF i < k THEN q[i] ELSE q[i + 1]
        <3>1. Len(c) = (k - 1) + (Len(q) - k) /\ c \in Seq(Calls)
            <4>1. c \in Seq(Calls) /\ Len(c) = Len(head) + Len(tail)
                BY <2>3, <2>4, ConcatProperties
            <4> HIDE DEF c
            <4> QED BY <2>3, <2>4, <4>1
        <3>2. \A i \in 1..Len(c) : c[i] = IF i <= k - 1 THEN head[i] ELSE tail[i - (k - 1)]
            <4>1. \A i \in 1..(Len(head) + Len(tail)) :
                     c[i] = IF i <= Len(head) THEN head[i] ELSE tail[i - Len(head)]
                BY <2>3, <2>4, ConcatProperties
            <4> HIDE DEF c
            <4> QED BY <2>3, <2>4, <3>1, <4>1
        <3>3. Len(q) \in Nat /\ k \in 1..Len(q)
            BY <2>1
        <3> HIDE DEF c
        <3>4. ASSUME NEW i \in 1..(Len(q) - 1)
              PROVE  c[i] = IF i < k THEN q[i] ELSE q[i + 1]
            <4>1. CASE i < k
                BY <2>3, <3>1, <3>2, <3>3, <4>1
            <4>2. CASE ~(i < k)
                <5>1. c[i] = tail[i - (k - 1)] /\ i - (k - 1) \in 1..(Len(q) - k)
                    BY <3>1, <3>2, <3>3, <4>2
                <5>2. k + (i - (k - 1)) = i + 1
                    BY <3>3
                <5> QED BY <2>4, <4>2, <5>1, <5>2
            <4> QED BY <4>1, <4>2
        <3> QED BY <3>1, <3>3, <3>4
    <2> HIDE DEF c
    <2>6. Distinct(c)
        BY <2>1, <2>5 DEF Distinct
    <2>7. ASSUME NEW i \in 1..Len(c) PROVE \E j \in 1..Len(q) : q[j] = c[i] /\ q[j] # e
        <3>1. CASE i < k
            BY <2>1, <2>5, <3>1 DEF Distinct
        <3>2. CASE ~(i < k)
            <4>1. i + 1 \in 1..Len(q) /\ i + 1 # k
                BY <2>1, <2>5, <3>2
            <4> QED BY <2>1, <2>5, <3>2, <4>1 DEF Distinct
        <3> QED BY <3>1, <3>2
    <2> QED BY <2>2, <2>5, <2>6, <2>7
<1> QED BY <1>1, <1>2

LEMMA JoinedFacts ==
    ASSUME NEW s \in Seq(Calls), NEW t \in Seq(Calls), Distinct(s), Distinct(t),
           \A i \in 1..Len(s), j \in 1..Len(t) : s[i] # t[j]
    PROVE  /\ s \o t \in Seq(Calls) /\ Distinct(s \o t)
           /\ \A i \in 1..Len(s \o t) : \/ \E j \in 1..Len(s) : (s \o t)[i] = s[j]
                                        \/ \E j \in 1..Len(t) : (s \o t)[i] = t[j]
<1> DEFINE c == s \o t
<1>1. /\ c \in Seq(Calls) /\ Len(c) = Len(s) + Len(t)
      /\ \A i \in 1..(Len(s) + Len(t)) : c[i] = IF i <= Len(s) THEN s[i] ELSE t[i - Len(s)]
    BY ConcatProperties
<1> HIDE DEF c
<1>2. Len(s) \in Nat /\ Len(t) \in Nat
    OBVIOUS
<1>3. \A i \in 1..Len(c) : i > Len(s) => i - Len(s) \in 1..Len(t)
    BY <1>1, <1>2
<1>4. Distinct(c)
    <2> SUFFICES ASSUME NEW i \in 1..Len(c), NEW j \in 1..Len(c), c[i] = c[j] PROVE i = j
        BY DEF Distinct
    <2>1. CASE i <= Len(s) /\ j <= Len(s)
        BY <1>1, <1>2, <2>1 DEF Distinct
    <2>2. CASE i > Len(s) /\ j > Len(s)
        <3>1. t[i - Len(s)] = t[j - Len(s)]
            BY <1>1, <1>2, <2>2
        <3>2. i - Len(s) = j - Len(s)
            BY <1>3, <2>2, <3>1 DEF Distinct
        <3> QED BY <1>2, <3>2
    <2>3. CASE i <= Len(s) /\ j > Len(s)
        BY <1>1, <1>2, <1>3, <2>3
    <2>4. CASE i > Len(s) /\ j <= Len(s)
        BY <1>1, <1>2, <1>3, <2>4
    <2> QED BY <1>2, <2>1, <2>2, <2>3, <2>4
<1>5. \A i \in 1..Len(c) : \/ \E j \in 1..Len(s) : c[i] = s[j]
                           \/ \E j \in 1..Len(t) : c[i] = t[j]
    BY <1>1, <1>2, <1>3
<1> QED BY <1>1, <1>4, <1>5 DEF c

-----------------------------------------------------------------------------
(* The books of a run: entries and timers belong to unresolved calls, each  *)
(* call has at most one timer, and no queued sizing has a call of the run.  *)

Call(r, s) == [run |-> r, sizing |-> s]
Mine(r, W) == {c \in W : c.run = r}

Books(r, q, P, W, T) ==
    /\ r \in Nat
    /\ q \in Seq(Sizings) /\ Distinct(q)
    /\ P \in [Sizings -> Calls \cup {None}]
    /\ \A s \in Sizings : P[s] # None => P[s].sizing = s /\ P[s] \in W
    /\ W \in SUBSET Calls /\ IsFiniteSet(W)
    /\ \A c \in W : c.run <= r
    /\ T \in Seq(Calls) /\ Distinct(T)
    /\ \A i \in 1..Len(T) : T[i] \in W
    /\ \A i \in 1..Len(q) : Call(r, q[i]) \notin W

CallsOf(r, q, n) == [i \in 1..n |-> Call(r, q[i])]
BegunBy(r, q, n) == {CallsOf(r, q, n)[i] : i \in 1..n}

\* The first n calls of a queue without duplicates are n calls.
LEMMA BegunFacts ==
    ASSUME NEW r \in Nat, NEW q \in Seq(Sizings), Distinct(q), NEW n \in 0..Len(q)
    PROVE  /\ CallsOf(r, q, n) \in Seq(Calls) /\ Len(CallsOf(r, q, n)) = n
           /\ Distinct(CallsOf(r, q, n))
           /\ BegunBy(r, q, n) \in SUBSET Calls /\ IsFiniteSet(BegunBy(r, q, n))
           /\ Cardinality(BegunBy(r, q, n)) = n
           /\ \A c \in BegunBy(r, q, n) : c.run = r
<1> DEFINE calls == CallsOf(r, q, n)
           begun == BegunBy(r, q, n)
<1>0. calls = [i \in 1..n |-> Call(r, q[i])] /\ begun = {calls[i] : i \in 1..n}
    BY DEF CallsOf, BegunBy
<1> HIDE DEF calls, begun
<1>1. n \in Nat /\ \A i \in 1..n : calls[i] = Call(r, q[i]) /\ q[i] \in Sizings /\ calls[i] \in Calls
    BY <1>0 DEF Call, Calls
<1>2. calls \in [1..n -> Calls]
    BY <1>0, <1>1
<1>3. calls \in Seq(Calls) /\ Len(calls) = n
    BY <1>1, <1>2
<1>4. \A i, j \in 1..n : calls[i] = calls[j] => i = j
    <2>1. \A i, j \in 1..n : Call(r, q[i]) = Call(r, q[j]) => q[i] = q[j]
        BY DEF Call
    <2> QED BY <1>1, <2>1 DEF Distinct
<1>5. calls \in Bijection(1..n, begun)
    BY <1>0, <1>1, <1>2, <1>4 DEF Bijection, Injection, Surjection, IsInjective
<1>6. IsFiniteSet(begun) /\ Cardinality(begun) = n
    <2>1. ExistsBijection(1..n, begun)
        BY <1>5 DEF ExistsBijection
    <2>2. IsFiniteSet(begun)
        BY <1>1, <2>1, FS_NatBijection
    <2> QED BY <1>1, <2>1, <2>2, FS_CountingElements
<1>7. \A c \in begun : c.run = r /\ c \in Calls
    BY <1>0, <1>1 DEF Call
<1> QED BY <1>3, <1>4, <1>6, <1>7 DEF Distinct, calls, begun

LEMMA PumpFacts ==
    ASSUME NEW r, NEW q, NEW a \in 0..RefreshParallel, NEW kept,
           Books(r, q, kept.pending, kept.waiting, kept.timers),
           kept.frames \in SUBSET Calls,
           a = Cardinality(Mine(r, kept.waiting)),
           Pump(r, q, a, kept)
    PROVE  /\ Books(r, queue', pending', waiting', timers')
           /\ frames' \in SUBSET Calls
           /\ active' = Cardinality(Mine(r, waiting')) /\ active' \in 0..RefreshParallel
           /\ active' + Len(queue') = a + Len(q)
           /\ kept.waiting \subseteq waiting'
           /\ \A i \in 1..Len(q) : \/ \E j \in 1..Len(queue') : queue'[j] = q[i]
                                   \/ Call(r, q[i]) \in waiting'
<1> DEFINE n == IF Room(a) < Len(q) THEN Room(a) ELSE Len(q)
           calls == CallsOf(r, q, n)
           begun == BegunBy(r, q, n)
<1>1. r \in Nat /\ q \in Seq(Sizings) /\ Distinct(q) /\ Len(q) \in Nat /\ a \in Nat
    BY RefreshAssumption DEF Books
<1>2. n \in 0..Len(q) /\ n \in 0..(RefreshParallel - a)
    BY <1>1, RefreshAssumption DEF Room
<1>3. /\ queue' = SubSeq(q, n + 1, Len(q))
      /\ active' = a + n
      /\ pending' = [s \in Sizings |-> IF \E c \in begun : c.sizing = s
                                       THEN Call(r, s) ELSE kept.pending[s]]
      /\ waiting' = kept.waiting \cup begun
      /\ frames' = kept.frames \cup begun
      /\ timers' = kept.timers \o calls
    BY DEF Pump, Armed, Call, CallsOf, BegunBy
<1> HIDE DEF n
<1>4. \A i \in 1..n : calls[i] = Call(r, q[i]) /\ calls[i] \in begun
    BY DEF CallsOf, BegunBy
<1>5. \A c \in begun : \E i \in 1..n : c = Call(r, q[i])
    BY DEF CallsOf, BegunBy
<1>6. /\ calls \in Seq(Calls) /\ Len(calls) = n /\ Distinct(calls)
      /\ begun \in SUBSET Calls /\ IsFiniteSet(begun) /\ Cardinality(begun) = n
      /\ \A c \in begun : c.run = r
    BY <1>1, <1>2, BegunFacts
<1> HIDE DEF calls, begun
<1>7. /\ queue' \in Seq(Sizings) /\ Len(queue') = Len(q) - n
      /\ \A i \in 1..(Len(q) - n) : queue'[i] = q[n + i]
    <2>1. \A i \in (n + 1)..Len(q) : q[i] \in Sizings
        BY <1>1, <1>2
    <2>2. queue' \in Seq(Sizings) /\ Len(queue') = Len(q) - n
        BY <1>1, <1>2, <1>3, <2>1, SubSeqProperties
    <2>3. \A i \in 1..(Len(q) - n) : queue'[i] = q[n + i]
        BY <1>1, <1>2, <1>3
    <2> QED BY <2>2, <2>3
<1>8. Distinct(queue') /\ \A i \in 1..Len(queue') : \A j \in 1..n : queue'[i] # q[j]
    <2>1. \A i \in 1..Len(queue') : n + i \in 1..Len(q) /\ queue'[i] = q[n + i]
        BY <1>1, <1>2, <1>7
    <2>2. Distinct(queue')
        <3> SUFFICES ASSUME NEW i \in 1..Len(queue'), NEW j \in 1..Len(queue'),
                            queue'[i] = queue'[j]
                     PROVE  i = j
            BY DEF Distinct
        <3>1. n + i = n + j
            BY <1>1, <2>1 DEF Distinct
        <3> QED BY <1>2, <3>1
    <2>3. ASSUME NEW i \in 1..Len(queue'), NEW j \in 1..n, queue'[i] = q[j] PROVE FALSE
        <3>1. n + i = j
            BY <1>1, <1>2, <2>1, <2>3 DEF Distinct
        <3> QED BY <1>1, <1>2, <3>1
    <2> QED BY <2>2, <2>3
<1>9. waiting' \in SUBSET Calls /\ IsFiniteSet(waiting') /\ \A c \in waiting' : c.run <= r
    <2>1. kept.waiting \in SUBSET Calls /\ IsFiniteSet(kept.waiting)
          /\ \A c \in kept.waiting : c.run <= r
        BY DEF Books
    <2>2. IsFiniteSet(waiting')
        BY <1>3, <1>6, <2>1, FS_Union
    <2>3. \A c \in begun : c.run <= r
        BY <1>1, <1>6
    <2> QED BY <1>3, <1>6, <2>1, <2>2, <2>3
<1>10. \A c \in begun : c \notin kept.waiting
    BY <1>2, <1>5 DEF Books
<1>11. \A i \in 1..Len(queue') : Call(r, queue'[i]) \notin waiting'
    <2> SUFFICES ASSUME NEW i \in 1..Len(queue'), Call(r, queue'[i]) \in waiting' PROVE FALSE
        OBVIOUS
    <2>1. n + i \in 1..Len(q) /\ queue'[i] = q[n + i]
        BY <1>1, <1>2, <1>7
    <2>2. Call(r, queue'[i]) \notin kept.waiting
        BY <2>1 DEF Books
    <2>3. PICK j \in 1..n : Call(r, queue'[i]) = Call(r, q[j])
        BY <1>3, <1>5, <2>2
    <2> QED BY <1>8, <2>3 DEF Call
<1>12. pending' \in [Sizings -> Calls \cup {None}]
    BY <1>1, <1>3 DEF Books, Call, Calls
<1>13. \A s \in Sizings : pending'[s] # None => pending'[s].sizing = s /\ pending'[s] \in waiting'
    <2> SUFFICES ASSUME NEW s \in Sizings, pending'[s] # None
                 PROVE  pending'[s].sizing = s /\ pending'[s] \in waiting'
        OBVIOUS
    <2>1. CASE \E c \in begun : c.sizing = s
        <3>1. PICK c \in begun : c.sizing = s
            BY <2>1
        <3>2. PICK i \in 1..n : c = Call(r, q[i])
            BY <1>5
        <3>3. c = Call(r, s)
            BY <3>1, <3>2 DEF Call
        <3> QED BY <1>3, <2>1, <3>1, <3>3
    <2>2. CASE ~ \E c \in begun : c.sizing = s
        BY <1>3, <2>2 DEF Books
    <2> QED BY <2>1, <2>2
<1>14. timers' \in Seq(Calls) /\ Distinct(timers') /\ \A i \in 1..Len(timers') : timers'[i] \in waiting'
    <2>1. kept.timers \in Seq(Calls) /\ Distinct(kept.timers)
          /\ \A i \in 1..Len(kept.timers) : kept.timers[i] \in kept.waiting
        BY DEF Books
    <2>2. \A i \in 1..Len(kept.timers), j \in 1..Len(calls) : kept.timers[i] # calls[j]
        BY <1>4, <1>6, <1>10, <2>1
    <2>3. /\ kept.timers \o calls \in Seq(Calls) /\ Distinct(kept.timers \o calls)
          /\ \A i \in 1..Len(kept.timers \o calls) :
                \/ \E j \in 1..Len(kept.timers) : (kept.timers \o calls)[i] = kept.timers[j]
                \/ \E j \in 1..Len(calls) : (kept.timers \o calls)[i] = calls[j]
        BY <1>6, <2>1, <2>2, JoinedFacts
    <2> QED BY <1>3, <1>4, <1>6, <2>1, <2>3
<1>15. active' = Cardinality(Mine(r, waiting'))
    <2>1. Mine(r, waiting') = Mine(r, kept.waiting) \cup begun
        BY <1>3, <1>6 DEF Mine
    <2>2. Mine(r, kept.waiting) \cap begun = {}
        BY <1>10 DEF Mine
    <2>3. IsFiniteSet(Mine(r, kept.waiting))
        BY FS_Subset DEF Mine, Books
    <2>4. Cardinality(Mine(r, waiting')) = a + n - Cardinality({})
        BY <1>6, <2>1, <2>2, <2>3, FS_Union
    <2> QED BY <1>1, <1>2, <1>3, <2>4, FS_EmptySet
<1>16. active' \in 0..RefreshParallel /\ active' + Len(queue') = a + Len(q)
    BY <1>1, <1>2, <1>3, <1>7, RefreshAssumption
<1>17. \A i \in 1..Len(q) : \/ \E j \in 1..Len(queue') : queue'[j] = q[i]
                            \/ Call(r, q[i]) \in waiting'
    <2> SUFFICES ASSUME NEW i \in 1..Len(q)
                 PROVE  \/ \E j \in 1..Len(queue') : queue'[j] = q[i]
                        \/ Call(r, q[i]) \in waiting'
        OBVIOUS
    <2>1. CASE i <= n
        <3>1. i \in 1..n
            BY <1>1, <1>2, <2>1
        <3> QED BY <1>3, <1>4, <3>1
    <2>2. CASE i > n
        <3>1. i - n \in 1..Len(queue') /\ queue'[i - n] = q[i]
            BY <1>1, <1>2, <1>7, <2>2
        <3> QED BY <3>1
    <2> QED BY <1>1, <1>2, <2>1, <2>2
<1>18. Books(r, queue', pending', waiting', timers')
    BY <1>1, <1>7, <1>8, <1>9, <1>11, <1>12, <1>13, <1>14 DEF Books
<1> QED BY <1>3, <1>6, <1>15, <1>16, <1>17, <1>18

-----------------------------------------------------------------------------
(* The invariant of the loop.                                               *)

LoopInv ==
    /\ Books(runId, queue, pending, waiting, timers)
    /\ frames \in SUBSET Calls
    /\ targets \in SUBSET Sizings
    /\ active = Cardinality(Mine(runId, waiting)) /\ active \in 0..RefreshParallel
    /\ done \in Nat /\ failed \in 0..done
    /\ done + active + Len(queue) = Cardinality(targets)

\* What a sizing of the run still has coming.
Covered(s) ==
    \/ \E j \in 1..Len(queue) : queue[j] = s
    \/ Call(runId, s) \in waiting

LEMMA OneMoreDone ==
    ASSUME Len(queue) \in Nat, Len(queue') \in Nat, done \in Nat, active \in Nat,
           active' \in Nat, active' + Len(queue') = active - 1 + Len(queue)
    PROVE  (done + 1) + active' + Len(queue') = done + active + Len(queue)
OBVIOUS

LEMMA FinishFacts ==
    ASSUME LoopInv, NEW c \in waiting, NEW ok \in BOOLEAN,
           NEW armed \in Seq(Calls), Distinct(armed),
           \A i \in 1..Len(armed) : armed[i] \in waiting,
           c # pending[c.sizing] => \A i \in 1..Len(armed) : armed[i] # c,
           Finish(c, ok, armed)
    PROVE  /\ LoopInv'
           /\ UNCHANGED <<runId, runProject, targets>>
           /\ \A s \in targets : Covered(s) => Covered(s)' \/ c = Call(runId, s)
           /\ failed' = 0 => failed = 0 /\ (c.run = runId => ok)
<1> DEFINE e == pending[c.sizing]
           kept == [pending |-> [pending EXCEPT ![c.sizing] = None],
                    waiting |-> waiting \ {c},
                    frames  |-> frames \ {e},
                    timers  |-> Cancelled(armed, e)]
<1>1. c \in Calls /\ c.sizing \in Sizings /\ c.run \in Nat /\ runId \in Nat
    BY DEF LoopInv, Books, Calls
<1>2. /\ kept.pending = [pending EXCEPT ![c.sizing] = None]
      /\ kept.waiting = waiting \ {c}
      /\ kept.frames \in SUBSET Calls
      /\ kept.timers = Cancelled(armed, e)
    BY DEF LoopInv
<1>3. /\ Cancelled(armed, e) \in Seq(Calls) /\ Distinct(Cancelled(armed, e))
      /\ \A i \in 1..Len(Cancelled(armed, e)) :
            \E j \in 1..Len(armed) : armed[j] = Cancelled(armed, e)[i] /\ armed[j] # e
    BY CancelledFacts
<1>4. IF Counts(c)
      THEN /\ done' = done + 1
           /\ failed' = IF ok THEN failed ELSE failed + 1
           /\ Pump(runId, queue, active - 1, kept)
           /\ UNCHANGED <<runId, runProject, targets>>
      ELSE /\ pending' = kept.pending /\ waiting' = kept.waiting
           /\ frames' = kept.frames /\ timers' = kept.timers
           /\ UNCHANGED runVars
    BY DEF Finish
<1> HIDE DEF kept
<1>5. Books(runId, queue, kept.pending, kept.waiting, kept.timers)
    <2>1. kept.waiting \in SUBSET Calls /\ IsFiniteSet(kept.waiting)
          /\ \A k \in kept.waiting : k.run <= runId
        BY <1>2, FS_RemoveElement DEF LoopInv, Books
    <2>2. kept.pending \in [Sizings -> Calls \cup {None}]
        BY <1>2 DEF LoopInv, Books
    <2>3. ASSUME NEW s \in Sizings, kept.pending[s] # None
          PROVE  kept.pending[s].sizing = s /\ kept.pending[s] \in kept.waiting
        <3>1. s # c.sizing /\ kept.pending[s] = pending[s]
            BY <1>1, <1>2, <2>3 DEF LoopInv, Books
        <3> QED BY <1>2, <2>3, <3>1 DEF LoopInv, Books
    <2>4. \A i \in 1..Len(kept.timers) : kept.timers[i] \in kept.waiting
        BY <1>2, <1>3
    <2>5. \A i \in 1..Len(queue) : Call(runId, queue[i]) \notin kept.waiting
        BY <1>2 DEF LoopInv, Books
    <2> QED BY <1>2, <1>3, <2>1, <2>2, <2>3, <2>4, <2>5 DEF LoopInv, Books
<1>6. IsFiniteSet(Mine(runId, waiting))
    BY FS_Subset DEF Mine, LoopInv, Books
<1>7. CASE Counts(c)
    <2>1. c \in Mine(runId, waiting) /\ Mine(runId, kept.waiting) = Mine(runId, waiting) \ {c}
        BY <1>2, <1>7 DEF Counts, Mine
    <2>2. Cardinality(Mine(runId, kept.waiting)) = active - 1
        <3>1. active = Cardinality(Mine(runId, waiting))
            BY DEF LoopInv
        <3> DEFINE W == Mine(runId, waiting)
        <3>2. IsFiniteSet(W) /\ c \in W
            BY <1>6, <2>1
        <3> HIDE DEF W
        <3>3. Cardinality(W \ {c}) = Cardinality(W) - 1
            BY <3>2, FS_RemoveElement
        <3> QED BY <2>1, <3>1, <3>3 DEF W
    <2>3. active - 1 \in Nat
        <3>1. IsFiniteSet(Mine(runId, kept.waiting))
            BY <1>6, <2>1, FS_RemoveElement
        <3> QED BY <2>2, <3>1, FS_CardinalityType
    <2>4. active - 1 \in 0..RefreshParallel
        BY <2>3, RefreshAssumption DEF LoopInv
    <2>5. /\ Books(runId, queue', pending', waiting', timers')
          /\ frames' \in SUBSET Calls
          /\ active' = Cardinality(Mine(runId, waiting')) /\ active' \in 0..RefreshParallel
          /\ active' + Len(queue') = active - 1 + Len(queue)
          /\ kept.waiting \subseteq waiting'
          /\ \A i \in 1..Len(queue) : \/ \E j \in 1..Len(queue') : queue'[j] = queue[i]
                                      \/ Call(runId, queue[i]) \in waiting'
        BY <1>2, <1>4, <1>5, <1>7, <2>2, <2>4, PumpFacts
    <2>6. /\ runId' = runId /\ runProject' = runProject /\ targets' = targets
          /\ done' = done + 1 /\ failed' = IF ok THEN failed ELSE failed + 1
        BY <1>4, <1>7
    <2>7. done' \in Nat /\ failed' \in 0..done' /\ (failed' = 0 => failed = 0 /\ ok)
        BY <2>6 DEF LoopInv
    <2>8. done' + active' + Len(queue') = Cardinality(targets')
        <3>1. Len(queue) \in Nat /\ Len(queue') \in Nat
            BY <2>5 DEF LoopInv, Books
        <3>2. done + active + Len(queue) = Cardinality(targets) /\ done \in Nat
            BY DEF LoopInv
        <3>3. active' \in Nat /\ active \in Nat
            BY <2>5, RefreshAssumption DEF LoopInv
        <3>4. active' + Len(queue') = active - 1 + Len(queue) /\ done' = done + 1
            BY <2>5, <2>6
        <3>5. (done + 1) + active' + Len(queue') = done + active + Len(queue)
            BY <3>1, <3>2, <3>3, <3>4, OneMoreDone
        <3> QED BY <2>6, <3>2, <3>5
    <2>9. LoopInv'
        BY <2>5, <2>6, <2>7, <2>8 DEF LoopInv
    <2>10. \A s \in targets : Covered(s) => Covered(s)' \/ c = Call(runId, s)
        BY <1>2, <2>5, <2>6 DEF Covered
    <2> QED BY <2>6, <2>7, <2>9, <2>10
<1>8. CASE ~Counts(c)
    <2>1. /\ pending' = kept.pending /\ waiting' = kept.waiting
          /\ frames' = kept.frames /\ timers' = kept.timers
          /\ UNCHANGED <<runId, runProject, targets, queue, active, done, failed>>
        BY <1>4, <1>8 DEF runVars
    <2>2. Mine(runId, waiting') = Mine(runId, waiting)
        BY <1>2, <1>8, <2>1 DEF Counts, Mine
    <2>3. LoopInv'
        BY <1>2, <1>5, <2>1, <2>2 DEF LoopInv
    <2>4. \A s \in targets : Covered(s) => Covered(s)'
        BY <1>2, <1>8, <2>1 DEF Covered, Counts, Call
    <2> QED BY <1>8, <2>1, <2>3, <2>4 DEF Counts
<1> QED BY <1>7, <1>8

LEMMA StartFacts ==
    ASSUME LoopInv, NEW p, NEW S \in SUBSET Sizings, StartRun(p, S)
    PROVE  /\ LoopInv'
           /\ runId' \in {runId, runId + 1}
           /\ \/ UNCHANGED <<runVars, frameVars>>
              \/ failed' = 0 /\ targets' = S /\ runProject' = p /\ \A s \in S : Covered(s)'
<1>1. CASE S = {}
    <2>1. UNCHANGED <<runVars, frameVars>>
        BY <1>1 DEF StartRun
    <2> QED BY <2>1 DEF runVars, frameVars, LoopInv
<1>2. CASE S # {}
    <2> DEFINE q == InOrder(S)
               r == runId + 1
               kept == Now
    <2>1. /\ runId' = r /\ runProject' = p /\ targets' = S /\ done' = 0 /\ failed' = 0
          /\ Pump(r, q, 0, kept)
        BY <1>2 DEF StartRun
    <2>2. /\ kept.pending = pending /\ kept.waiting = waiting
          /\ kept.frames = frames /\ kept.timers = timers
        BY DEF Now
    <2> HIDE DEF kept
    <2>3. /\ q \in Seq(Sizings) /\ Len(q) = Cardinality(S) /\ Distinct(q)
          /\ Cardinality(S) \in Nat
          /\ \A s \in S : \E i \in 1..Len(q) : q[i] = s
        BY RowsInOrder
    <2> HIDE DEF q
    <2>4. r \in Nat /\ \A c \in waiting : c.run < r
        BY DEF LoopInv, Books, Calls
    <2>5. Books(r, q, pending, waiting, timers)
        BY <2>3, <2>4 DEF LoopInv, Books, Call, Calls
    <2>6. Mine(r, waiting) = {}
        BY <2>4 DEF Mine, LoopInv, Books
    <2>7. 0 = Cardinality(Mine(r, waiting)) /\ 0 \in 0..RefreshParallel
        BY <2>6, FS_EmptySet, RefreshAssumption
    <2> HIDE DEF r
    <2>8. /\ Books(r, queue', pending', waiting', timers')
          /\ frames' \in SUBSET Calls
          /\ active' = Cardinality(Mine(r, waiting')) /\ active' \in 0..RefreshParallel
          /\ active' + Len(queue') = 0 + Len(q)
          /\ \A i \in 1..Len(q) : \/ \E j \in 1..Len(queue') : queue'[j] = q[i]
                                  \/ Call(r, q[i]) \in waiting'
        BY <2>1, <2>2, <2>5, <2>7, PumpFacts DEF LoopInv
    <2>9. LoopInv'
        <3>1. Len(queue') \in Nat /\ active' \in Nat
            BY <2>8 DEF Books
        <3> QED BY <2>1, <2>3, <2>8, <3>1 DEF LoopInv
    <2>10. \A s \in S : Covered(s)'
        BY <2>1, <2>3, <2>8 DEF Covered
    <2> QED BY <2>1, <2>9, <2>10 DEF r
<1> QED BY <1>1, <1>2

-----------------------------------------------------------------------------
(* The page around the loop.                                                *)

Fetches == [project : Projects, rows : SUBSET Sizings, reload : BOOLEAN, no : Nat]

PageInv ==
    /\ stale \in [Sizings -> BOOLEAN]
    /\ screen \in {"project", "elsewhere"}
    /\ project \in Projects \cup {None}
    /\ screen = "project" => project \in Projects
    /\ fetches \subseteq Fetches
    /\ asks \in Seq(Projects)
    /\ runProject \in Projects \cup {None}
    /\ reported \subseteq Calls
    /\ mail \subseteq [call : Calls, ok : BOOLEAN]

\* The oldest timer is that of an unresolved call; the others are not its.
LEMMA OldestTimer ==
    ASSUME LoopInv, timers # <<>>
    PROVE  /\ Head(timers) \in waiting
           /\ Tail(timers) \in Seq(Calls) /\ Distinct(Tail(timers))
           /\ \A i \in 1..Len(Tail(timers)) : /\ Tail(timers)[i] \in waiting
                                              /\ Tail(timers)[i] # Head(timers)
<1>1. /\ timers \in Seq(Calls) /\ Distinct(timers) /\ Len(timers) \in Nat \ {0}
      /\ \A i \in 1..Len(timers) : timers[i] \in waiting
    BY EmptySeq DEF LoopInv, Books
<1>2. Head(timers) = timers[1] /\ 1 \in 1..Len(timers)
    BY <1>1
<1>3. /\ Tail(timers) \in Seq(Calls) /\ Len(Tail(timers)) = Len(timers) - 1
      /\ \A i \in 1..Len(Tail(timers)) : Tail(timers)[i] = timers[i + 1]
    BY <1>1, HeadTailProperties
<1>4. \A i \in 1..Len(Tail(timers)) : i + 1 \in 1..Len(timers) /\ i + 1 # 1
    BY <1>1, <1>3
<1>5. Distinct(Tail(timers))
    <2> SUFFICES ASSUME NEW i \in 1..Len(Tail(timers)), NEW j \in 1..Len(Tail(timers)),
                        Tail(timers)[i] = Tail(timers)[j]
                 PROVE  i = j
        BY DEF Distinct
    <2>1. i + 1 = j + 1
        BY <1>1, <1>3, <1>4 DEF Distinct
    <2> QED BY <2>1
<1> QED BY <1>1, <1>2, <1>3, <1>4, <1>5 DEF Distinct

\* A message resolves the call whose entry its sizing has.
LEMMA Delivered ==
    ASSUME LoopInv, PageInv, NEW m \in mail, pending[m.call.sizing] # None
    PROVE  LET e == pending[m.call.sizing]
           IN  /\ e \in waiting /\ e.sizing = m.call.sizing /\ pending[e.sizing] = e
               /\ m.ok \in BOOLEAN /\ m.call.sizing \in Sizings
               /\ timers \in Seq(Calls) /\ Distinct(timers)
               /\ \A i \in 1..Len(timers) : timers[i] \in waiting
BY DEF LoopInv, PageInv, Books, Calls

LEMMA LoopStep ==
    ASSUME LoopInv, PageInv, [Next]_vars
    PROVE  LoopInv'
<1>1. ASSUME UNCHANGED <<runVars, frameVars>> PROVE LoopInv'
    BY <1>1 DEF runVars, frameVars, LoopInv
<1>2. ASSUME NEW f \in fetches, FetchLands(f) PROVE LoopInv'
    <2>1. CASE f.reload
        BY <1>1, <1>2, <2>1 DEF FetchLands
    <2>2. CASE ~f.reload
        <3>1. PICK S \in SUBSET f.rows : StartRun(f.project, S)
            BY <1>2, <2>2 DEF FetchLands
        <3>2. S \in SUBSET Sizings
            BY DEF PageInv, Fetches
        <3> QED BY <3>1, <3>2, StartFacts
    <2> QED BY <2>1, <2>2
<1>3. ASSUME ForceRefresh PROVE LoopInv'
    <2>1. SizingsOf(project) \in SUBSET Sizings
        BY DEF SizingsOf
    <2> QED BY <1>3, <2>1, StartFacts DEF ForceRefresh
<1>4. ASSUME NEW m \in mail, Deliver(m) PROVE LoopInv'
    <2>1. CASE pending[m.call.sizing] = None
        BY <1>1, <1>4, <2>1 DEF Deliver
    <2>2. CASE pending[m.call.sizing] # None
        <3>1. Finish(pending[m.call.sizing], m.ok, timers)
            BY <1>4, <2>2 DEF Deliver
        <3> QED BY <2>2, <3>1, Delivered, FinishFacts
    <2> QED BY <2>1, <2>2
<1>5. ASSUME TimerFires PROVE LoopInv'
    <2>1. CASE pending[Head(timers).sizing] = None
        <3>1. /\ timers # <<>> /\ timers' = Tail(timers)
              /\ UNCHANGED <<runVars, pending, waiting, frames>>
            BY <1>5, <2>1 DEF TimerFires
        <3> QED BY <3>1, OldestTimer DEF LoopInv, Books, runVars
    <2>2. CASE pending[Head(timers).sizing] # None
        <3>1. timers # <<>> /\ Finish(Head(timers), FALSE, Tail(timers))
            BY <1>5, <2>2 DEF TimerFires, TimedOut
        <3> QED BY <3>1, OldestTimer, FinishFacts
    <2> QED BY <2>1, <2>2
<1>6. ASSUME \/ \E p \in Projects : OpenProject(p)
             \/ \E f \in fetches : FetchFails(f)
             \/ \E c \in frames, ok \in BOOLEAN : FrameReports(c, ok)
             \/ LeaveProject
             \/ UNCHANGED vars
      PROVE  LoopInv'
    BY <1>1, <1>6 DEF OpenProject, FetchFails, FrameReports, LeaveProject, vars
<1> QED BY <1>2, <1>3, <1>4, <1>5, <1>6 DEF Next, User, Page

\* What the end of a call may ask of the server: the project again, without a refresh.
LEMMA Reloads ==
    ASSUME LoopInv, PageInv, NEW c, NEW ok, NEW armed, Finish(c, ok, armed)
    PROVE  /\ runId' = runId /\ runProject' = runProject
           /\ \/ fetches' = fetches
              \/ \E f \in Fetches : f.reload /\ fetches' = fetches \cup {f}
<1>1. CASE Counts(c)
    <2>1. runId' = runId /\ runProject' = runProject /\ AtTheEnd
        BY <1>1 DEF Finish
    <2>2. screen = "project" => ReloadOf(project) \in Fetches /\ ReloadOf(project).reload
        BY DEF PageInv, ReloadOf, Fetches, LoopInv, Books
    <2> QED BY <2>1, <2>2 DEF AtTheEnd
<1>2. CASE ~Counts(c)
    BY <1>2 DEF Finish, runVars
<1> QED BY <1>1, <1>2

\* The four ways a step may touch the requests that wait and the number of runs.
Asked(F) == {f \in F : ~f.reload}

FetchMoves ==
    \/ fetches' = fetches /\ asks' = asks /\ runId' = runId
    \/ \E f \in Fetches : f.reload /\ fetches' = fetches \cup {f} /\ asks' = asks /\ runId' = runId
    \/ \E f \in fetches : /\ fetches' = fetches \ {f} /\ asks' = asks
                          /\ runId' \in {runId, runId + 1} /\ (f.reload => runId' = runId)
    \/ \E f \in Fetches, p \in Projects : /\ fetches' \in {fetches, fetches \cup {f}}
                                          /\ asks' = Append(asks, p)
                                          /\ runId' \in {runId, runId + 1}
                                          /\ fetches' # fetches => runId' = runId

LEMMA PageStep ==
    ASSUME LoopInv, PageInv, [Next]_vars
    PROVE  PageInv' /\ FetchMoves
<1>1. ASSUME NEW p \in Projects, OpenProject(p) PROVE PageInv' /\ FetchMoves
    <2> DEFINE f == [project |-> p, rows |-> StaleOf(p), reload |-> FALSE, no |-> Len(asks)]
    <2>1. f \in Fetches
        BY DEF Fetches, StaleOf, SizingsOf, PageInv
    <2>2. fetches' = fetches \cup {f} /\ asks' = Append(asks, p) /\ runId' = runId
          /\ runProject' = runProject
        BY <1>1 DEF OpenProject, MayAsk, runVars
    <2>3. asks' \in Seq(Projects)
        BY <2>2, AppendProperties DEF PageInv
    <2> HIDE DEF f
    <2>4. PageInv'
        BY <1>1, <2>1, <2>2, <2>3 DEF OpenProject, PageInv
    <2>5. FetchMoves
        BY <2>1, <2>2 DEF FetchMoves
    <2> QED BY <2>4, <2>5
<1>2. ASSUME NEW f \in fetches, FetchLands(f) PROVE PageInv' /\ FetchMoves
    <2>1. f \in Fetches /\ f.project \in Projects
        BY DEF PageInv, Fetches
    <2>2. /\ fetches' = fetches \ {f} /\ project' = f.project /\ screen' = "project"
          /\ UNCHANGED <<stale, asks, reported, mail>>
        BY <1>2 DEF FetchLands
    <2>3. CASE f.reload
        <3>1. UNCHANGED <<runId, runProject>>
            BY <1>2, <2>3 DEF FetchLands, runVars
        <3> QED BY <2>1, <2>2, <3>1 DEF PageInv, FetchMoves
    <2>4. CASE ~f.reload
        <3>1. PICK S \in SUBSET f.rows : StartRun(f.project, S)
            BY <1>2, <2>4 DEF FetchLands
        <3>2. S \in SUBSET Sizings
            BY <2>1 DEF Fetches
        <3>3. runId' \in {runId, runId + 1} /\ runProject' \in {runProject, f.project}
            BY <3>1, <3>2, StartFacts DEF runVars
        <3> QED BY <2>1, <2>2, <2>4, <3>3 DEF PageInv, FetchMoves
    <2> QED BY <2>3, <2>4
<1>3. ASSUME NEW f \in fetches, FetchFails(f) PROVE PageInv' /\ FetchMoves
    BY <1>3 DEF FetchFails, PageInv, FetchMoves, runVars
<1>4. ASSUME ForceRefresh PROVE PageInv' /\ FetchMoves
    <2>1. project \in Projects /\ asks' = Append(asks, project)
        BY <1>4 DEF ForceRefresh, MayAsk, PageInv
    <2>2. SizingsOf(project) \in SUBSET Sizings
        BY DEF SizingsOf
    <2>3. runId' \in {runId, runId + 1} /\ runProject' \in {runProject, project}
        BY <1>4, <2>2, StartFacts DEF ForceRefresh, runVars
    <2>4. asks' \in Seq(Projects)
        BY <2>1, AppendProperties DEF PageInv
    <2>5. PageInv'
        BY <1>4, <2>1, <2>3, <2>4 DEF ForceRefresh, PageInv
    <2>6. [project |-> project, rows |-> {}, reload |-> FALSE, no |-> 0] \in Fetches
        BY <2>1 DEF Fetches
    <2>7. FetchMoves
        BY <1>4, <2>1, <2>3, <2>6 DEF ForceRefresh, FetchMoves
    <2> QED BY <2>5, <2>7
<1>5. ASSUME NEW m \in mail, Deliver(m) PROVE PageInv' /\ FetchMoves
    <2>1. /\ mail' = mail \ {m}
          /\ UNCHANGED <<stale, screen, project, asks, reported>>
        BY <1>5 DEF Deliver
    <2>2. /\ runId' = runId /\ runProject' = runProject
          /\ \/ fetches' = fetches
             \/ \E f \in Fetches : f.reload /\ fetches' = fetches \cup {f}
        BY <1>5, Reloads DEF Deliver, runVars
    <2>3. PageInv'
        BY <2>1, <2>2 DEF PageInv
    <2> QED BY <2>1, <2>2, <2>3 DEF FetchMoves
<1>6. ASSUME TimerFires PROVE PageInv' /\ FetchMoves
    <2>1. UNCHANGED <<stale, screen, project, asks, reported, mail>>
        BY <1>6 DEF TimerFires
    <2>2. /\ runId' = runId /\ runProject' = runProject
          /\ \/ fetches' = fetches
             \/ \E f \in Fetches : f.reload /\ fetches' = fetches \cup {f}
        BY <1>6, Reloads DEF TimerFires, runVars
    <2>3. PageInv'
        BY <2>1, <2>2 DEF PageInv
    <2> QED BY <2>1, <2>2, <2>3 DEF FetchMoves
<1>7. ASSUME NEW c \in frames, NEW ok \in BOOLEAN, FrameReports(c, ok)
      PROVE  PageInv' /\ FetchMoves
    <2>1. c \in Calls /\ c.sizing \in Sizings
        BY DEF LoopInv, Calls
    <2>2. UNCHANGED <<screen, project, fetches, asks, runId, runProject>>
        BY <1>7 DEF FrameReports, pageVars, runVars
    <2>3. stale' \in [Sizings -> BOOLEAN] /\ reported' \subseteq Calls
          /\ mail' \subseteq [call : Calls, ok : BOOLEAN]
        BY <1>7, <2>1 DEF FrameReports, PageInv
    <2> QED BY <2>2, <2>3 DEF PageInv, FetchMoves
<1>8. ASSUME LeaveProject \/ UNCHANGED vars PROVE PageInv' /\ FetchMoves
    BY <1>8 DEF LeaveProject, vars, pageVars, runVars, PageInv, FetchMoves
<1> QED BY <1>1, <1>2, <1>3, <1>4, <1>5, <1>6, <1>7, <1>8 DEF Next, User, Page

-----------------------------------------------------------------------------
(* A run takes a request: one that still waits for its answer, or the one   *)
(* just made.                                                               *)

AskInv ==
    /\ IsFiniteSet(fetches)
    /\ runId + Cardinality(Asked(fetches)) <= Len(asks)

LEMMA AskStep ==
    ASSUME LoopInv, PageInv, AskInv, [Next]_vars
    PROVE  AskInv'
<1> DEFINE A == Asked(fetches)
<1>1. IsFiniteSet(fetches) /\ IsFiniteSet(A) /\ Cardinality(A) \in Nat
    BY FS_Subset, FS_CardinalityType DEF AskInv, Asked
<1>2. runId \in Nat /\ Len(asks) \in Nat /\ runId + Cardinality(A) <= Len(asks)
    BY DEF AskInv, LoopInv, Books, PageInv
<1>3. \A f : IsFiniteSet(fetches \cup {f}) /\ IsFiniteSet(fetches \ {f})
    BY <1>1, FS_AddElement, FS_RemoveElement
<1>4. CASE fetches' = fetches /\ asks' = asks /\ runId' = runId
    BY <1>4 DEF AskInv, Asked
<1>5. ASSUME NEW f \in Fetches, f.reload, fetches' = fetches \cup {f}, asks' = asks,
             runId' = runId
      PROVE  AskInv'
    <2>1. Asked(fetches') = A
        BY <1>5 DEF Asked
    <2> QED BY <1>2, <1>3, <1>5, <2>1 DEF AskInv
<1>6. ASSUME NEW f \in fetches, fetches' = fetches \ {f}, asks' = asks,
             runId' \in {runId, runId + 1}, f.reload => runId' = runId
      PROVE  AskInv'
    <2>1. Asked(fetches') = A \ {f} /\ (f \in A <=> ~f.reload)
        BY <1>6 DEF Asked
    <2> HIDE DEF A
    <2>2. Cardinality(A \ {f}) = IF f \in A THEN Cardinality(A) - 1 ELSE Cardinality(A)
        BY <1>1, FS_RemoveElement
    <2>3. runId' + Cardinality(A \ {f}) <= Len(asks)
        BY <1>1, <1>2, <1>6, <2>1, <2>2
    <2> QED BY <1>3, <1>6, <2>1, <2>3 DEF AskInv
<1>7. ASSUME NEW f \in Fetches, NEW p \in Projects, fetches' \in {fetches, fetches \cup {f}},
             asks' = Append(asks, p), runId' \in {runId, runId + 1},
             fetches' # fetches => runId' = runId
      PROVE  AskInv'
    <2>1. Len(asks') = Len(asks) + 1
        BY <1>7, AppendProperties DEF PageInv
    <2>2. CASE fetches' = fetches
        BY <1>1, <1>2, <1>7, <2>1, <2>2 DEF AskInv
    <2>3. CASE fetches' # fetches
        <3>1. Asked(fetches') \in SUBSET (A \cup {f})
            BY <1>7 DEF Asked
        <3> HIDE DEF A
        <3>2. IsFiniteSet(A \cup {f}) /\ Cardinality(A \cup {f}) <= Cardinality(A) + 1
              /\ Cardinality(A \cup {f}) \in Nat
            <4>1. IsFiniteSet(A \cup {f}) /\ Cardinality(A \cup {f}) =
                    IF f \in A THEN Cardinality(A) ELSE Cardinality(A) + 1
                BY <1>1, FS_AddElement
            <4> QED BY <1>1, <4>1
        <3>3. Cardinality(Asked(fetches')) <= Cardinality(A \cup {f})
              /\ Cardinality(Asked(fetches')) \in Nat
            BY <3>1, <3>2, FS_Subset, FS_CardinalityType
        <3>4. runId' + Cardinality(Asked(fetches')) <= Len(asks')
            BY <1>1, <1>2, <1>7, <2>1, <2>3, <3>2, <3>3
        <3> QED BY <1>3, <1>7, <3>4 DEF AskInv
    <2> QED BY <2>2, <2>3
<1> QED BY <1>4, <1>5, <1>6, <1>7, PageStep DEF FetchMoves

-----------------------------------------------------------------------------
(* Nothing of a run is forgotten: without a failure, each of its sizings is *)
(* fresh, still queued or with a call that will count.                      *)

FreshInv ==
    /\ \A m \in mail : m.ok => ~stale[m.call.sizing]
    /\ failed = 0 => \A s \in targets : ~stale[s] \/ Covered(s)

LEMMA FreshStep ==
    ASSUME LoopInv, PageInv, FreshInv, [Next]_vars
    PROVE  FreshInv'
<1>1. ASSUME UNCHANGED <<runVars, frameVars>>, mail' = mail, stale' = stale PROVE FreshInv'
    BY <1>1 DEF runVars, frameVars, FreshInv, Covered
<1>2. ASSUME NEW p, NEW S \in SUBSET Sizings, StartRun(p, S), mail' = mail, stale' = stale
      PROVE  FreshInv'
    BY <1>1, <1>2, StartFacts DEF FreshInv
<1>3. ASSUME NEW c \in waiting, NEW ok \in BOOLEAN, stale' = stale, mail' \subseteq mail,
             UNCHANGED <<targets, runId>>, c.run = runId /\ ok => ~stale[c.sizing],
             \A s \in targets : Covered(s) => Covered(s)' \/ c = Call(runId, s),
             failed' = 0 => failed = 0 /\ (c.run = runId => ok)
      PROVE  FreshInv'
    <2>1. ASSUME failed' = 0, NEW s \in targets PROVE ~stale[s] \/ Covered(s)'
        <3>1. CASE c = Call(runId, s)
            BY <1>3, <2>1, <3>1 DEF Call
        <3>2. CASE c # Call(runId, s)
            BY <1>3, <2>1, <3>2 DEF FreshInv
        <3> QED BY <3>1, <3>2
    <2>2. \A m \in mail' : m.ok => ~stale'[m.call.sizing]
        BY <1>3 DEF FreshInv
    <2> QED BY <1>3, <2>1, <2>2 DEF FreshInv
<1>4. ASSUME NEW f \in fetches, FetchLands(f) PROVE FreshInv'
    <2>1. CASE f.reload
        BY <1>1, <1>4, <2>1 DEF FetchLands
    <2>2. CASE ~f.reload
        <3>1. PICK S \in SUBSET f.rows : StartRun(f.project, S)
            BY <1>4, <2>2 DEF FetchLands
        <3>2. S \in SUBSET Sizings
            BY DEF PageInv, Fetches
        <3> QED BY <1>2, <1>4, <3>1, <3>2 DEF FetchLands
    <2> QED BY <2>1, <2>2
<1>5. ASSUME ForceRefresh PROVE FreshInv'
    <2>1. SizingsOf(project) \in SUBSET Sizings
        BY DEF SizingsOf
    <2> QED BY <1>2, <1>5, <2>1 DEF ForceRefresh
<1>6. ASSUME NEW m \in mail, Deliver(m) PROVE FreshInv'
    <2> DEFINE e == pending[m.call.sizing]
    <2>1. mail' \subseteq mail /\ stale' = stale
        BY <1>6 DEF Deliver
    <2>2. CASE e = None
        <3>1. UNCHANGED <<runVars, frameVars>>
            BY <1>6, <2>2 DEF Deliver
        <3> QED BY <2>1, <3>1 DEF runVars, frameVars, FreshInv, Covered
    <2>3. CASE e # None
        <3>1. Finish(e, m.ok, timers)
            BY <1>6, <2>3 DEF Deliver
        <3>2. /\ e \in waiting /\ e.sizing = m.call.sizing /\ pending[e.sizing] = e
              /\ m.ok \in BOOLEAN
              /\ timers \in Seq(Calls) /\ Distinct(timers)
              /\ \A i \in 1..Len(timers) : timers[i] \in waiting
            BY <2>3, Delivered
        <3>3. m.ok => ~stale[e.sizing]
            BY <3>2 DEF FreshInv
        <3> HIDE DEF e
        <3>4. /\ UNCHANGED <<targets, runId>>
              /\ \A s \in targets : Covered(s) => Covered(s)' \/ e = Call(runId, s)
              /\ failed' = 0 => failed = 0 /\ (e.run = runId => m.ok)
            BY <3>1, <3>2, FinishFacts
        <3> QED BY <1>3, <2>1, <3>2, <3>3, <3>4
    <2> QED BY <2>2, <2>3
<1>7. ASSUME TimerFires PROVE FreshInv'
    <2> DEFINE c == Head(timers)
    <2>1. mail' = mail /\ stale' = stale /\ timers # <<>>
        BY <1>7 DEF TimerFires
    <2>2. CASE pending[c.sizing] = None
        <3>1. UNCHANGED <<runVars, pending, waiting, frames>>
            BY <1>7, <2>2 DEF TimerFires
        <3> QED BY <2>1, <3>1 DEF runVars, FreshInv, Covered
    <2>3. CASE pending[c.sizing] # None
        <3>1. Finish(c, FALSE, Tail(timers))
            BY <1>7, <2>3 DEF TimerFires, TimedOut
        <3>2. /\ c \in waiting
              /\ Tail(timers) \in Seq(Calls) /\ Distinct(Tail(timers))
              /\ \A i \in 1..Len(Tail(timers)) : /\ Tail(timers)[i] \in waiting
                                                 /\ Tail(timers)[i] # c
            BY <2>1, OldestTimer
        <3> HIDE DEF c
        <3>3. /\ UNCHANGED <<targets, runId>>
              /\ \A s \in targets : Covered(s) => Covered(s)' \/ c = Call(runId, s)
              /\ failed' = 0 => failed = 0 /\ (c.run = runId => FALSE)
            BY <3>1, <3>2, FinishFacts
        <3> QED BY <1>3, <2>1, <3>2, <3>3
    <2> QED BY <2>2, <2>3
<1>8. ASSUME NEW c \in frames, NEW ok \in BOOLEAN, FrameReports(c, ok) PROVE FreshInv'
    <2>1. c \in Calls /\ c.sizing \in Sizings
        BY DEF LoopInv, Calls
    <2>2. /\ stale' = IF ok THEN [stale EXCEPT ![c.sizing] = FALSE] ELSE stale
          /\ mail' = mail \cup {[call |-> c, ok |-> ok]}
          /\ UNCHANGED <<runVars, frameVars>>
        BY <1>8 DEF FrameReports
    <2>3. \A s \in Sizings : stale'[s] => stale[s]
        BY <2>1, <2>2 DEF PageInv
    <2>4. ok => ~stale'[c.sizing]
        BY <2>1, <2>2 DEF PageInv
    <2>5. \A m \in mail' : m.ok => ~stale'[m.call.sizing]
        <3> SUFFICES ASSUME NEW m \in mail', m.ok PROVE ~stale'[m.call.sizing]
            OBVIOUS
        <3>1. CASE m \in mail
            <4>1. m.call.sizing \in Sizings
                BY <3>1 DEF PageInv, Calls
            <4> QED BY <2>3, <3>1, <4>1 DEF FreshInv
        <3>2. CASE m = [call |-> c, ok |-> ok]
            BY <2>4, <3>2
        <3> QED BY <2>2, <3>1, <3>2
    <2>6. \A s \in targets : s \in Sizings
        BY DEF LoopInv
    <2> QED BY <2>2, <2>3, <2>5, <2>6 DEF runVars, frameVars, FreshInv, Covered
<1>9. ASSUME \/ \E p \in Projects : OpenProject(p)
             \/ \E f \in fetches : FetchFails(f)
             \/ LeaveProject
             \/ UNCHANGED vars
      PROVE  FreshInv'
    BY <1>1, <1>9 DEF OpenProject, FetchFails, LeaveProject, vars
<1> QED BY <1>4, <1>5, <1>6, <1>7, <1>8, <1>9 DEF Next, User, Page

-----------------------------------------------------------------------------
(* The theorems.                                                            *)

RefreshInv == LoopInv /\ PageInv /\ AskInv /\ FreshInv

LEMMA RefreshInit == Init => RefreshInv
<1> SUFFICES ASSUME Init PROVE RefreshInv
    OBVIOUS
<1>1. Cardinality({}) = 0 /\ IsFiniteSet({})
    BY FS_EmptySet
<1>2. Mine(0, {}) = {} /\ Asked({}) = {}
    BY DEF Mine, Asked
<1>3. Books(runId, queue, pending, waiting, timers)
    BY <1>1 DEF Init, Books, Distinct
<1>4. LoopInv
    <2>1. Mine(runId, waiting) = {} /\ targets = {}
        BY <1>2 DEF Init
    <2>2. active = 0 /\ done = 0 /\ failed = 0 /\ Len(queue) = 0 /\ frames = {}
        BY DEF Init
    <2>3. Cardinality(Mine(runId, waiting)) = 0 /\ Cardinality(targets) = 0
        BY <1>1, <2>1
    <2> QED BY <1>3, <2>1, <2>2, <2>3, RefreshAssumption DEF LoopInv
<1>5. PageInv
    BY DEF Init, PageInv
<1>6. AskInv
    <2>1. fetches = {} /\ Asked(fetches) = {} /\ runId = 0 /\ Len(asks) = 0
        BY <1>2 DEF Init
    <2>2. Cardinality(Asked(fetches)) = 0 /\ IsFiniteSet(fetches)
        BY <1>1, <2>1
    <2> QED BY <2>1, <2>2 DEF AskInv
<1>7. FreshInv
    BY DEF Init, FreshInv
<1> QED BY <1>4, <1>5, <1>6, <1>7 DEF RefreshInv

LEMMA RefreshStep == RefreshInv /\ [Next]_vars => RefreshInv'
<1> SUFFICES ASSUME LoopInv, PageInv, AskInv, FreshInv, [Next]_vars PROVE RefreshInv'
    BY DEF RefreshInv
<1>1. LoopInv' /\ PageInv'
    BY LoopStep, PageStep
<1>2. AskInv' /\ FreshInv'
    BY AskStep, FreshStep
<1> QED BY <1>1, <1>2 DEF RefreshInv

\* Every variable keeps its type, and never more than RefreshParallel frames are counted
\* as at work, whatever runs supersede each other.
THEOREM LoopTypeCorrect == Spec => []TypeOK
<1>1. RefreshInv => TypeOK
    BY DEF RefreshInv, LoopInv, PageInv, Books, TypeOK, Fetches
<1> QED BY <1>1, RefreshInit, RefreshStep, PTL DEF Spec

\* The progress of a run is its own: a frame of an earlier run, late, failed or timed out,
\* never changes what the bar says of the current one.
THEOREM ProgressAddsUp == Spec => []CountersBelongToTheRun
<1>1. RefreshInv => CountersBelongToTheRun
    BY DEF RefreshInv, LoopInv, CountersBelongToTheRun, Mine
<1> QED BY <1>1, RefreshInit, RefreshStep, PTL DEF Spec

\* When a run has ended without reporting a failure, every sizing it took has a current
\* result: none was dropped between the queue, the frames and the counters.
THEOREM SilenceMeansFresh == Spec => []SilentEndIsFresh
<1>1. RefreshInv => SilentEndIsFresh
    <2> SUFFICES ASSUME RefreshInv, queue = <<>>, active = 0, failed = 0, NEW s \in targets
                 PROVE  ~stale[s]
        BY DEF SilentEndIsFresh, Underway, RefreshInv, LoopInv
    <2>1. ~ \E j \in 1..Len(queue) : queue[j] = s
        OBVIOUS
    <2>2. IsFiniteSet(Mine(runId, waiting))
        BY FS_Subset DEF Mine, RefreshInv, LoopInv, Books
    <2>3. Mine(runId, waiting) = {}
        BY <2>2, FS_EmptySet DEF RefreshInv, LoopInv
    <2>4. ~Covered(s)
        BY <2>1, <2>3 DEF Covered, Mine, Call
    <2> QED BY <2>4 DEF RefreshInv, FreshInv
<1> QED BY <1>1, RefreshInit, RefreshStep, PTL DEF Spec

\* The page never refreshes by itself: there are at most as many runs as the user opened
\* or force-refreshed projects, so the reload that ends a run cannot start another.
THEOREM EveryRunWasAskedFor == Spec => []RunsAreAskedFor
<1>1. RefreshInv => RunsAreAskedFor
    <2> SUFFICES ASSUME RefreshInv PROVE runId <= Len(asks)
        BY DEF RunsAreAskedFor
    <2>1. Cardinality(Asked(fetches)) \in Nat
        BY FS_Subset, FS_CardinalityType DEF RefreshInv, AskInv, Asked
    <2>2. runId \in Nat /\ Len(asks) \in Nat /\ runId + Cardinality(Asked(fetches)) <= Len(asks)
        BY DEF RefreshInv, LoopInv, PageInv, AskInv, Books
    <2> QED BY <2>1, <2>2
<1> QED BY <1>1, RefreshInit, RefreshStep, PTL DEF Spec

=============================================================================
