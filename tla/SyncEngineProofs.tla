-------------------------- MODULE SyncEngineProofs --------------------------
(***************************************************************************)
(* SyncEngine under every interleaving of its actions, for every finite    *)
(* set of documents and queries, every limit of lookups and every setting. *)
(* First the tables of limbo resolutions: what a fold of references over   *)
(* the documents of all views leaves behind, so that the tables agree with *)
(* the views. Then the data: what the cache, the targets and the pending   *)
(* writes have of the backend's documents, what the views show of the      *)
(* cache, and from both that a synced view is exact and that a new one     *)
(* misses only what is stale. FullInv is the inductive invariant.          *)
(***************************************************************************)
EXTENDS SyncEngine, SequenceTheorems, FiniteSetTheorems, WellFoundedInduction, TLAPS

-----------------------------------------------------------------------------
(* The tables of limbo resolutions *)

LimboRecord == [refs : SUBSET (Keys \X Queries), active : SUBSET Keys,
                queue : Seq(Keys), answered : SUBSET Keys]

\* The keys that are looked up or wait for it.
Tracked(l) == l.active \cup Range(l.queue)

\* A key is looked up or waits, once, and no more keys are looked up than allowed.
Loose(l) ==
  /\ l \in LimboRecord /\ l.answered \subseteq l.active
  /\ l.active \cap Range(l.queue) = {} /\ IsInjective(l.queue)
  /\ Cardinality(l.active) <= MaxLimbo

\* A key waits only when the limit is reached.
Limited(l) == Loose(l) /\ (l.queue # <<>> => Cardinality(l.active) = MaxLimbo)

\* Sets of keys are finite.
LEMMA KeysFinite ==
  ASSUME NEW S \in SUBSET Keys
  PROVE  IsFiniteSet(S) /\ Cardinality(S) \in Nat
BY FiniteAssumption, FS_Subset, FS_CardinalityType

\* The lesser of two numbers.
LEMMA MinOfTwo ==
  ASSUME NEW a \in Nat, NEW b \in Nat
  PROVE  Min({a, b}) = IF a <= b THEN a ELSE b
<1> DEFINE c == IF a <= b THEN a ELSE b
<1>1. c \in {a, b} /\ \A y \in {a, b} : c <= y
  OBVIOUS
<1>2. \A x \in {a, b} : (\A y \in {a, b} : x <= y) => x = c
  OBVIOUS
<1> QED BY <1>1, <1>2 DEF Min

\* The first n elements of a sequence without repetitions, and the others.
LEMMA SplitQueue ==
  ASSUME NEW s \in Seq(Keys), IsInjective(s), NEW n \in 0..Len(s)
  PROVE  LET f == SubSeq(s, 1, n)
             r == SubSeq(s, n + 1, Len(s))
         IN  /\ f \in Seq(Keys) /\ r \in Seq(Keys) /\ IsInjective(r)
             /\ Range(f) \cup Range(r) = Range(s) /\ Range(f) \cap Range(r) = {}
             /\ Range(f) \subseteq Keys /\ Cardinality(Range(f)) = n
             /\ Len(r) = Len(s) - n
<1> DEFINE f == SubSeq(s, 1, n)
           r == SubSeq(s, n + 1, Len(s))
<1>1. f \in Seq(Keys) /\ Len(f) = n /\ \A i \in 1..n : f[i] = s[i]
  OBVIOUS
<1>2. r \in Seq(Keys) /\ Len(r) = Len(s) - n /\ \A i \in 1..(Len(s) - n) : r[i] = s[n + i]
  OBVIOUS
<1>3. DOMAIN f = 1..n /\ DOMAIN r = 1..(Len(s) - n) /\ DOMAIN s = 1..Len(s) /\ Len(s) \in Nat
      /\ \A i \in 1..Len(s) : s[i] \in Keys
  BY <1>1, <1>2
<1>4. \A i, j \in 1..Len(s) : s[i] = s[j] => i = j
  BY <1>3 DEF IsInjective
<1> HIDE DEF f, r
<1>5. IsInjective(r)
  <2> SUFFICES ASSUME NEW i \in 1..(Len(s) - n), NEW j \in 1..(Len(s) - n), r[i] = r[j]
               PROVE  i = j
    BY <1>3 DEF IsInjective
  <2>1. n + i \in 1..Len(s) /\ n + j \in 1..Len(s) /\ s[n + i] = s[n + j]
    BY <1>2, <1>3
  <2>2. n + i = n + j
    BY <1>4, <2>1
  <2> QED BY <2>2
<1>6. ASSUME NEW x
      PROVE  /\ x \in Range(f) <=> \E i \in 1..n : x = s[i]
             /\ x \in Range(r) <=> \E i \in (n + 1)..Len(s) : x = s[i]
  <2>1. x \in Range(f) <=> \E i \in 1..n : x = f[i]
    BY <1>3 DEF Range
  <2>2. x \in Range(r) <=> \E i \in 1..(Len(s) - n) : x = r[i]
    BY <1>3 DEF Range
  <2>3. ASSUME NEW i \in (n + 1)..Len(s)
        PROVE  i - n \in 1..(Len(s) - n) /\ r[i - n] = s[i]
    <3>1. i - n \in 1..(Len(s) - n) /\ n + (i - n) = i
      BY <1>3
    <3> QED BY <1>2, <3>1
  <2>4. ASSUME NEW i \in 1..(Len(s) - n)
        PROVE  n + i \in (n + 1)..Len(s) /\ r[i] = s[n + i]
    BY <1>2, <1>3
  <2> QED BY <1>1, <2>1, <2>2, <2>3, <2>4
<1>7. ASSUME NEW x
      PROVE  x \in Range(s) <=> \E i \in 1..Len(s) : x = s[i]
  BY <1>3 DEF Range
<1>8. \A i \in 1..Len(s) : i \in 1..n \/ i \in (n + 1)..Len(s)
  BY <1>3
<1>9. 1..n \subseteq 1..Len(s) /\ (n + 1)..Len(s) \subseteq 1..Len(s)
  BY <1>3
<1>10. Range(f) \cup Range(r) = Range(s)
  BY <1>6, <1>7, <1>8, <1>9
<1>11. Range(f) \cap Range(r) = {}
  <2> SUFFICES ASSUME NEW i \in 1..n, NEW j \in (n + 1)..Len(s), s[i] = s[j]
               PROVE  FALSE
    BY <1>6
  <2>1. i = j
    BY <1>4, <1>9
  <2> QED BY <2>1
<1>12. Cardinality(Range(f)) = n
  <2> DEFINE g == [i \in 1..n |-> s[i]]
  <2>1. g \in Bijection(1..n, Range(f))
    <3>1. \A i \in 1..n : s[i] \in Range(f)
      BY <1>6
    <3>2. \A x \in Range(f) : \E i \in 1..n : g[i] = x
      BY <1>6
    <3>3. \A i, j \in 1..n : g[i] = g[j] => i = j
      BY <1>4, <1>9
    <3> QED BY <3>1, <3>2, <3>3 DEF Bijection, Injection, Surjection, IsInjective
  <2>2. ExistsBijection(1..n, Range(f))
    BY <2>1 DEF ExistsBijection
  <2>3. IsFiniteSet(1..n) /\ Cardinality(1..n) = n
    BY FS_Interval
  <2> QED BY <2>2, <2>3, FS_Bijection
<1>13. Range(f) \subseteq Keys
  BY <1>3, <1>6, <1>9
<1> QED BY <1>1, <1>2, <1>5, <1>10, <1>11, <1>12, <1>13 DEF f, r

\* PumpEnqueuedLimboResolutions starts lookups until the limit is reached or no key
\* waits, and loses no key.
LEMMA PumpFills ==
  ASSUME NEW l, Loose(l)
  PROVE  LET m == PumpEnqueuedLimboResolutions(l)
         IN  Limited(m) /\ m.refs = l.refs /\ m.answered = l.answered /\ Tracked(m) = Tracked(l)
<1> DEFINE c == Cardinality(l.active)
           n == Min({Len(l.queue), MaxLimbo - c})
           f == SubSeq(l.queue, 1, n)
           r == SubSeq(l.queue, n + 1, Len(l.queue))
           m == PumpEnqueuedLimboResolutions(l)
<1>1. /\ l \in LimboRecord /\ l.answered \subseteq l.active
      /\ l.active \cap Range(l.queue) = {} /\ IsInjective(l.queue) /\ c <= MaxLimbo
  BY DEF Loose
<1>2. /\ l.refs \in SUBSET (Keys \X Queries) /\ l.active \in SUBSET Keys
      /\ l.queue \in Seq(Keys) /\ l.answered \in SUBSET Keys
  BY <1>1 DEF LimboRecord
<1>3. c \in Nat /\ IsFiniteSet(l.active) /\ MaxLimbo \in Nat /\ Len(l.queue) \in Nat
  BY <1>2, KeysFinite, MaxLimboAssumption
<1>4. MaxLimbo - c \in Nat
  BY <1>1, <1>3
<1>5. /\ n \in 0..Len(l.queue) /\ n <= MaxLimbo - c
      /\ n = Len(l.queue) \/ n = MaxLimbo - c
  BY <1>3, <1>4, MinOfTwo
<1>6. m = [l EXCEPT !.active = @ \cup Range(f), !.queue = r]
  BY DEF PumpEnqueuedLimboResolutions
<1> HIDE DEF n, m
<1>7. /\ f \in Seq(Keys) /\ r \in Seq(Keys) /\ IsInjective(r)
      /\ Range(f) \cup Range(r) = Range(l.queue) /\ Range(f) \cap Range(r) = {}
      /\ Range(f) \subseteq Keys /\ Cardinality(Range(f)) = n /\ Len(r) = Len(l.queue) - n
  BY <1>1, <1>2, <1>5, SplitQueue
<1> HIDE DEF f, r
<1>8. /\ m.refs = l.refs /\ m.answered = l.answered /\ m.queue = r
      /\ m.active = l.active \cup Range(f) /\ m \in LimboRecord
  BY <1>1, <1>2, <1>6, <1>7 DEF LimboRecord
<1>9. Cardinality(m.active) = c + n
  <2>1. IsFiniteSet(Range(f))
    BY <1>7, KeysFinite
  <2>2. l.active \cap Range(f) = {}
    BY <1>1, <1>7
  <2>3. Cardinality(l.active \cup Range(f))
          = c + Cardinality(Range(f)) - Cardinality(l.active \cap Range(f))
    BY <1>3, <2>1, FS_Union
  <2>4. Cardinality(l.active \cap Range(f)) = 0
    BY <2>2, FS_EmptySet
  <2>5. n \in Nat
    BY <1>3, <1>5
  <2> HIDE DEF c
  <2> QED BY <1>3, <1>7, <1>8, <2>3, <2>4, <2>5
<1>10. Cardinality(m.active) <= MaxLimbo
  BY <1>3, <1>5, <1>9
<1>11. m.queue # <<>> => Cardinality(m.active) = MaxLimbo
  <2>1. CASE n = Len(l.queue)
    <3>1. Len(r) = 0
      BY <1>3, <1>7, <2>1
    <3> QED BY <1>7, <1>8, <3>1
  <2>2. CASE n = MaxLimbo - c
    BY <1>3, <1>9, <2>2
  <2> QED BY <1>5, <2>1, <2>2
<1>12. m.answered \subseteq m.active /\ m.active \cap Range(m.queue) = {} /\ IsInjective(m.queue)
  BY <1>1, <1>7, <1>8
<1>13. Tracked(m) = Tracked(l)
  BY <1>7, <1>8 DEF Tracked
<1> QED BY <1>8, <1>10, <1>11, <1>12, <1>13 DEF Limited, Loose, m

\* The elements of a sequence after the first n.
LEMMA AfterPrefix ==
  ASSUME NEW s \in Seq(Keys), NEW n \in 0..Len(s)
  PROVE  LET r == SubSeq(s, n + 1, Len(s))
         IN  r \in Seq(Keys) /\ Len(r) = Len(s) - n /\ \A i \in 1..(Len(s) - n) : r[i] = s[n + i]
OBVIOUS

\* A key taken out of a queue without repetitions.
LEMMA KeyRemoved ==
  ASSUME NEW s \in Seq(Keys), IsInjective(s), NEW k
  PROVE  LET r == RemoveFirst(s, k)
         IN  r \in Seq(Keys) /\ IsInjective(r) /\ Range(r) = Range(s) \ {k}
<1>1. DOMAIN s = 1..Len(s) /\ Len(s) \in Nat /\ \A i \in 1..Len(s) : s[i] \in Keys
  OBVIOUS
<1>2. \A i, j \in 1..Len(s) : s[i] = s[j] => i = j
  BY <1>1 DEF IsInjective
<1>3. CASE ~\E i \in 1..Len(s) : s[i] = k
  BY <1>1, <1>3 DEF RemoveFirst, Range
<1>4. CASE \E i \in 1..Len(s) : s[i] = k
  <2>1. PICK i \in 1..Len(s) : s[i] = k
    BY <1>4
  <2> DEFINE I == {j \in 1..Len(s) : s[j] = k}
             f == SubSeq(s, 1, i - 1)
             g == SubSeq(s, i + 1, Len(s))
  <2>2. I = {i}
    BY <1>2, <2>1
  <2>3. Min({i}) = i
    BY MinOfTwo DEF Min
  <2>4. SelectInSeq(s, LAMBDA v : v = k) = i
    BY <2>2, <2>3 DEF SelectInSeq
  <2>5. RemoveFirst(s, k) = f \o g
    BY <1>4, <2>4 DEF RemoveFirst, RemoveAt
  <2>6. i - 1 \in 0..Len(s) /\ i \in Nat /\ i + 1 \in 1..(Len(s) + 1)
    BY <1>1
  <2>7. f \in Seq(Keys) /\ Len(f) = i - 1 /\ \A j \in 1..(i - 1) : f[j] = s[j]
    BY <1>1, <2>6
  <2>8. g \in Seq(Keys) /\ Len(g) = Len(s) - i /\ \A j \in 1..(Len(s) - i) : g[j] = s[i + j]
    <3>1. i \in 0..Len(s)
      BY <1>1
    <3> QED BY <3>1, AfterPrefix
  <2> DEFINE r == f \o g
  <2> HIDE DEF f, g
  <2>9. r \in Seq(Keys) /\ Len(r) = Len(s) - 1
    <3>1. r \in Seq(Keys) /\ Len(r) = Len(f) + Len(g)
      BY <2>7, <2>8, ConcatProperties
    <3>2. (i - 1) + (Len(s) - i) = Len(s) - 1
      BY <1>1, <2>6
    <3> QED BY <2>7, <2>8, <3>1, <3>2
  <2>10. \A j \in 1..(Len(s) - 1) : r[j] = IF j < i THEN s[j] ELSE s[j + 1]
    <3> SUFFICES ASSUME NEW j \in 1..(Len(s) - 1)
                 PROVE  r[j] = IF j < i THEN s[j] ELSE s[j + 1]
      OBVIOUS
    <3>1. CASE j < i
      <4>1. j \in 1..(i - 1)
        BY <3>1, <2>6
      <4>2. j \in 1..Len(f) /\ r[j] = f[j]
        BY <2>7, <2>8, <4>1
      <4> QED BY <2>7, <3>1, <4>1, <4>2
    <3>2. CASE ~(j < i)
      <4>1. j - (i - 1) \in 1..(Len(s) - i) /\ i + (j - (i - 1)) = j + 1
        BY <1>1, <2>6, <3>2
      <4>2. r[j] = g[j - (i - 1)]
        <5>1. Len(f) < j /\ j <= Len(f) + Len(g) /\ j - Len(f) = j - (i - 1)
          BY <1>1, <2>6, <2>7, <2>8, <3>2
        <5> QED BY <2>7, <2>8, <5>1
      <4>3. g[j - (i - 1)] = s[i + (j - (i - 1))]
        BY <2>8, <4>1
      <4> QED BY <3>2, <4>1, <4>2, <4>3
    <3> QED BY <3>1, <3>2
  <2> HIDE DEF r
  <2>11. DOMAIN r = 1..(Len(s) - 1)
    BY <1>1, <2>1, <2>9
  <2>12. IsInjective(r)
    <3> SUFFICES ASSUME NEW a \in 1..(Len(s) - 1), NEW b \in 1..(Len(s) - 1), r[a] = r[b]
                 PROVE  a = b
      BY <2>11 DEF IsInjective
    <3> DEFINE at(j) == IF j < i THEN j ELSE j + 1
    <3>1. r[a] = s[at(a)] /\ r[b] = s[at(b)]
      BY <2>10
    <3>2. at(a) \in 1..Len(s) /\ at(b) \in 1..Len(s)
      BY <1>1, <2>6
    <3>3. at(a) = at(b)
      BY <1>2, <3>1, <3>2
    <3> QED BY <2>6, <3>3
  <2>13. ASSUME NEW x
         PROVE  x \in Range(r) <=> x \in Range(s) /\ x # k
    <3>1. x \in Range(r) <=> \E j \in 1..(Len(s) - 1) : x = r[j]
      BY <2>11 DEF Range
    <3>2. x \in Range(s) <=> \E j \in 1..Len(s) : x = s[j]
      BY <1>1 DEF Range
    <3>3. ASSUME NEW j \in 1..(Len(s) - 1), x = r[j]
          PROVE  x # k /\ \E jj \in 1..Len(s) : x = s[jj]
      <4>1. CASE j < i
        <5>1. j \in 1..Len(s) /\ j # i /\ x = s[j]
          BY <1>1, <2>6, <2>10, <3>3, <4>1
        <5> QED BY <1>2, <2>1, <5>1
      <4>2. CASE ~(j < i)
        <5>1. j + 1 \in 1..Len(s) /\ j + 1 # i /\ x = s[j + 1]
          BY <1>1, <2>6, <2>10, <3>3, <4>2
        <5> QED BY <1>2, <2>1, <5>1
      <4> QED BY <4>1, <4>2
    <3>4. ASSUME NEW j \in 1..Len(s), x = s[j], x # k
          PROVE  \E jj \in 1..(Len(s) - 1) : x = r[jj]
      <4>1. CASE j < i
        <5>1. j \in 1..(Len(s) - 1) /\ r[j] = s[j]
          BY <1>1, <2>6, <2>10, <4>1, <2>1
        <5> QED BY <3>4, <5>1
      <4>2. CASE i < j
        <5>1. j - 1 \in 1..(Len(s) - 1) /\ ~(j - 1 < i) /\ (j - 1) + 1 = j
          BY <1>1, <2>6, <4>2, <2>1
        <5>2. r[j - 1] = s[(j - 1) + 1]
          BY <2>10, <5>1
        <5> QED BY <3>4, <5>1, <5>2
      <4>3. CASE i = j
        BY <2>1, <3>4, <4>3
      <4> QED BY <2>6, <4>1, <4>2, <4>3
    <3> QED BY <3>1, <3>2, <3>3, <3>4
  <2>14. Range(r) = Range(s) \ {k}
    BY <2>13
  <2> QED BY <2>5, <2>9, <2>12, <2>14 DEF r
<1> QED BY <1>3, <1>4

\* TrackLimboChange: the key is tracked, besides those that were.
LEMMA TrackEffect ==
  ASSUME NEW l, Limited(l), NEW k \in Keys
  PROVE  LET m == TrackLimboChange(l, k)
         IN  Limited(m) /\ m.refs = l.refs /\ Tracked(m) = Tracked(l) \cup {k}
<1>1. CASE k \in Tracked(l)
  BY <1>1 DEF TrackLimboChange, Tracked
<1>2. CASE k \notin Tracked(l)
  <2> DEFINE a == [l EXCEPT !.queue = Append(@, k)]
             n == Len(l.queue)
  <2>1. TrackLimboChange(l, k) = PumpEnqueuedLimboResolutions(a)
    BY <1>2 DEF TrackLimboChange, Tracked
  <2>2. l \in LimboRecord /\ l.queue \in Seq(Keys) /\ IsInjective(l.queue) /\ n \in Nat
    BY DEF Limited, Loose, LimboRecord
  <2>3. /\ a.refs = l.refs /\ a.active = l.active /\ a.answered = l.answered
        /\ a.queue = Append(l.queue, k) /\ a \in LimboRecord
    <3>1. Append(l.queue, k) \in Seq(Keys)
      BY <2>2
    <3> QED BY <2>2, <3>1 DEF LimboRecord
  <2>4. DOMAIN a.queue = 1..(n + 1) /\ DOMAIN l.queue = 1..n /\ a.queue[n + 1] = k
        /\ \A i \in 1..n : a.queue[i] = l.queue[i] /\ l.queue[i] \in Range(l.queue)
    BY <2>2, <2>3 DEF Range
  <2>5. Range(a.queue) = Range(l.queue) \cup {k}
    <3>1. \A x : x \in Range(a.queue) <=> \E i \in 1..(n + 1) : x = a.queue[i]
      BY <2>4 DEF Range
    <3>2. \A x : x \in Range(l.queue) <=> \E i \in 1..n : x = l.queue[i]
      BY <2>4 DEF Range
    <3>3. \A i \in 1..(n + 1) : i \in 1..n \/ i = n + 1
      BY <2>2
    <3>4. n + 1 \in 1..(n + 1) /\ 1..n \subseteq 1..(n + 1)
      BY <2>2
    <3> QED BY <2>4, <3>1, <3>2, <3>3, <3>4
  <2>6. IsInjective(a.queue)
    <3> SUFFICES ASSUME NEW i \in 1..(n + 1), NEW j \in 1..(n + 1), a.queue[i] = a.queue[j]
                 PROVE  i = j
      BY <2>4 DEF IsInjective
    <3>1. k \notin Range(l.queue)
      BY <1>2 DEF Tracked
    <3>2. i \in 1..n \/ i = n + 1
      BY <2>2
    <3>3. j \in 1..n \/ j = n + 1
      BY <2>2
    <3> QED BY <2>2, <2>4, <3>1, <3>2, <3>3 DEF IsInjective
  <2>7. Loose(a)
    BY <1>2, <2>3, <2>5, <2>6 DEF Limited, Loose, Tracked
  <2>8. Tracked(a) = Tracked(l) \cup {k}
    BY <2>3, <2>5 DEF Tracked
  <2> QED BY <2>1, <2>3, <2>7, <2>8, PumpFills
<1> QED BY <1>1, <1>2

\* RemoveLimboTarget: the key is tracked no more, the others still are.
LEMMA RemoveEffect ==
  ASSUME NEW l, Limited(l), NEW k
  PROVE  LET m == RemoveLimboTarget(l, k)
         IN  Limited(m) /\ m.refs = l.refs /\ Tracked(m) = Tracked(l) \ {k}
<1> DEFINE u == [l EXCEPT !.queue = RemoveFirst(@, k)]
           e == [u EXCEPT !.active = @ \ {k}, !.answered = @ \ {k}]
<1>1. /\ l \in LimboRecord /\ l.queue \in Seq(Keys) /\ IsInjective(l.queue)
      /\ l.answered \subseteq l.active /\ l.active \cap Range(l.queue) = {}
      /\ Cardinality(l.active) <= MaxLimbo /\ l.active \in SUBSET Keys
      /\ l.answered \in SUBSET Keys /\ l.refs \in SUBSET (Keys \X Queries)
      /\ l.queue # <<>> => Cardinality(l.active) = MaxLimbo
  BY DEF Limited, Loose, LimboRecord
<1>2. /\ RemoveFirst(l.queue, k) \in Seq(Keys) /\ IsInjective(RemoveFirst(l.queue, k))
      /\ Range(RemoveFirst(l.queue, k)) = Range(l.queue) \ {k}
  BY <1>1, KeyRemoved
<1>3. /\ u.refs = l.refs /\ u.active = l.active /\ u.answered = l.answered
      /\ u.queue = RemoveFirst(l.queue, k) /\ u \in LimboRecord
  BY <1>1, <1>2 DEF LimboRecord
<1>4. CASE k \notin l.active
  <2>1. RemoveLimboTarget(l, k) = u
    BY <1>4 DEF RemoveLimboTarget
  <2>2. u.queue # <<>> => l.queue # <<>>
    <3>1. ASSUME l.queue = <<>> PROVE RemoveFirst(l.queue, k) = <<>>
      <4>1. ~\E i \in 1..Len(l.queue) : l.queue[i] = k
        BY <3>1
      <4> QED BY <3>1, <4>1 DEF RemoveFirst
    <3> QED BY <1>3, <3>1
  <2>3. Tracked(u) = Tracked(l) \ {k}
    BY <1>2, <1>3, <1>4 DEF Tracked
  <2>4. Limited(u)
    BY <1>1, <1>2, <1>3, <2>2 DEF Limited, Loose
  <2> HIDE DEF u
  <2> QED BY <1>3, <2>1, <2>3, <2>4
<1>5. CASE k \in l.active
  <2>1. RemoveLimboTarget(l, k) = PumpEnqueuedLimboResolutions(e)
    BY <1>5 DEF RemoveLimboTarget
  <2>2. /\ e.refs = l.refs /\ e.active = l.active \ {k} /\ e.answered = l.answered \ {k}
        /\ e.queue = u.queue /\ e \in LimboRecord
    BY <1>1, <1>3 DEF LimboRecord
  <2> HIDE DEF u, e
  <2>3. Cardinality(e.active) <= MaxLimbo
    <3>1. IsFiniteSet(l.active) /\ Cardinality(l.active) \in Nat
      BY <1>1, KeysFinite
    <3>2. Cardinality(l.active \ {k}) = Cardinality(l.active) - 1
      BY <1>5, <3>1, FS_RemoveElement
    <3> QED BY <1>1, <2>2, <3>1, <3>2, MaxLimboAssumption
  <2>4. Loose(e)
    BY <1>1, <1>2, <1>3, <2>2, <2>3 DEF Loose
  <2>5. Tracked(e) = Tracked(l) \ {k}
    BY <1>1, <1>2, <1>3, <2>2 DEF Tracked
  <2> QED BY <2>1, <2>2, <2>4, <2>5, PumpFills
<1> QED BY <1>4, <1>5

\* RemoveReference: a key is tracked no more once no view has it in limbo.
LEMMA RemoveReferenceEffect ==
  ASSUME NEW l, Limited(l), NEW k \in Keys, NEW q \in Queries
  PROVE  LET m == RemoveReference(l, k, q)
         IN  /\ Limited(m) /\ m.refs = l.refs \ {<<k, q>>}
             /\ Tracked(m) = {j \in Tracked(l) : j # k \/ Referenced(m, k)}
<1> DEFINE r == [l EXCEPT !.refs = @ \ {<<k, q>>}]
           m == RemoveReference(l, k, q)
<1>1. /\ r.refs = l.refs \ {<<k, q>>} /\ r.active = l.active /\ r.queue = l.queue
      /\ r.answered = l.answered /\ r \in LimboRecord
  BY DEF Limited, Loose, LimboRecord
<1>2. Limited(r) /\ Tracked(r) = Tracked(l)
  BY <1>1 DEF Limited, Loose, Tracked
<1>3. m = IF Referenced(r, k) THEN r ELSE RemoveLimboTarget(r, k)
  BY DEF RemoveReference
<1> HIDE DEF r, m
<1>4. CASE Referenced(r, k)
  BY <1>1, <1>2, <1>3, <1>4 DEF m
<1>5. CASE ~Referenced(r, k)
  <2>1. Limited(m) /\ m.refs = r.refs /\ Tracked(m) = Tracked(l) \ {k}
    BY <1>2, <1>3, <1>5, RemoveEffect
  <2>2. ~Referenced(m, k)
    BY <1>5, <2>1 DEF Referenced
  <2> QED BY <1>1, <2>1, <2>2 DEF m
<1> QED BY <1>4, <1>5

\* AddReference: the key is tracked.
LEMMA AddReferenceEffect ==
  ASSUME NEW l, Limited(l), NEW k \in Keys, NEW q \in Queries
  PROVE  LET m == AddReference(l, k, q)
         IN  /\ Limited(m) /\ m.refs = l.refs \cup {<<k, q>>}
             /\ Tracked(m) = Tracked(l) \cup {k}
<1> DEFINE r == [l EXCEPT !.refs = @ \cup {<<k, q>>}]
<1>1. /\ r.refs = l.refs \cup {<<k, q>>} /\ r.active = l.active /\ r.queue = l.queue
      /\ r.answered = l.answered /\ r \in LimboRecord
  BY DEF Limited, Loose, LimboRecord
<1>2. Limited(r) /\ Tracked(r) = Tracked(l)
  BY <1>1 DEF Limited, Loose, Tracked
<1>3. AddReference(l, k, q) = TrackLimboChange(r, k)
  BY DEF AddReference
<1> HIDE DEF r
<1> QED BY <1>1, <1>2, <1>3, TrackEffect

-----------------------------------------------------------------------------
(* Folds over finite sets *)

\* Naturals are well-founded.
LEMMA LeastNat ==
  ASSUME NEW T, T \subseteq Nat, T # {}
  PROVE  \E n \in T : \A m \in T : ~(m < n)
<1>1. IsWellFoundedOn({ss \in Nat \X Nat : ss[1] < ss[2]}, Nat)
  BY NatLessThanWellFounded DEF OpToRel
<1>2. PICK n \in T : \A m \in T : ~(<<m, n>> \in {ss \in Nat \X Nat : ss[1] < ss[2]})
  BY <1>1, WFMin
<1> QED BY <1>2

First(s) == CHOOSE x \in s : TRUE
Rest(s)  == s \ {First(s)}

\* A set without one of its elements has one element less.
LEMMA RestIsSmaller ==
  ASSUME NEW s, IsFiniteSet(s), s # {}
  PROVE  /\ First(s) \in s /\ Rest(s) \subseteq s
         /\ Cardinality(Rest(s)) \in Nat /\ Cardinality(s) \in Nat
         /\ Cardinality(Rest(s)) = Cardinality(s) - 1
BY FS_RemoveElement, FS_CardinalityType DEF First, Rest

\* Some parts of a finite set, of which one without its first element is none.
LEMMA SmallestPart ==
  ASSUME NEW D, IsFiniteSet(D), NEW Bad, Bad \subseteq SUBSET D, Bad # {}
  PROVE  \E s \in Bad : s # {} => Rest(s) \notin Bad
<1> DEFINE N == {Cardinality(s) : s \in Bad}
<1>1. \A s \in Bad : IsFiniteSet(s) /\ Cardinality(s) \in Nat
  BY FS_Subset, FS_CardinalityType
<1>2. N \subseteq Nat /\ N # {}
  BY <1>1
<1> HIDE DEF N
<1>3. PICK n \in N : \A m \in N : ~(m < n)
  BY <1>2, LeastNat
<1>4. PICK s \in Bad : n = Cardinality(s)
  BY <1>3 DEF N
<1>5. ASSUME s # {}, Rest(s) \in Bad
      PROVE  FALSE
  <2>1. Cardinality(Rest(s)) \in N
    BY <1>5 DEF N
  <2>2. Cardinality(Rest(s)) = Cardinality(s) - 1 /\ Cardinality(s) \in Nat
    BY <1>1, <1>5, RestIsSmaller
  <2>3. Cardinality(Rest(s)) < n
    BY <1>4, <2>2
  <2> QED BY <1>3, <2>1, <2>3
<1> QED BY <1>4, <1>5

Small(D, n) == {s \in SUBSET D : Cardinality(s) <= n}

IsFold(g, op, base, S) ==
  \A s \in S : g[s] = IF s = {} THEN base ELSE op[First(s)][g[Rest(s)]]

\* A function of the parts of a set that takes one element after the other exists,
\* for the parts of every size.
LEMMA FoldsExist ==
  ASSUME NEW D, IsFiniteSet(D), NEW op, NEW base
  PROVE  \A n \in Nat : \E g : IsFold(g, op, base, Small(D, n))
<1> DEFINE Missing == {n \in Nat : ~\E g : IsFold(g, op, base, Small(D, n))}
<1> SUFFICES ASSUME Missing # {} PROVE FALSE
  OBVIOUS
<1>1. PICK n \in Missing : \A m \in Missing : ~(m < n)
  <2>1. Missing \subseteq Nat
    OBVIOUS
  <2> HIDE DEF Missing
  <2> QED BY <2>1, LeastNat
<1>2. \A s \in SUBSET D : IsFiniteSet(s) /\ Cardinality(s) \in Nat
  BY FS_Subset, FS_CardinalityType
<1>3. CASE n = 0
  <2> DEFINE g == [s \in Small(D, n) |-> base]
  <2>1. \A s \in Small(D, n) : s = {}
    BY <1>2, <1>3, FS_EmptySet DEF Small
  <2>2. IsFold(g, op, base, Small(D, n))
    BY <2>1 DEF IsFold
  <2> QED BY <2>2
<1>4. CASE n # 0
  <2>1. n - 1 \in Nat /\ n - 1 \notin Missing
    BY <1>1, <1>4
  <2>2. PICK h : IsFold(h, op, base, Small(D, n - 1))
    BY <2>1
  <2> DEFINE g == [s \in Small(D, n) |-> IF s = {} THEN base ELSE op[First(s)][h[Rest(s)]]]
  <2>3. ASSUME NEW s \in Small(D, n), s # {}
        PROVE  Rest(s) \in Small(D, n - 1)
    <3>1. Cardinality(Rest(s)) <= n - 1 /\ Rest(s) \subseteq s
      BY <1>2, <2>3, RestIsSmaller DEF Small
    <3> QED BY <1>2, <2>3, <3>1 DEF Small
  <2>4. ASSUME NEW s \in Small(D, n - 1)
        PROVE  s \in Small(D, n) /\ g[s] = h[s]
    <3>1. s \in Small(D, n)
      BY <1>2, <2>1, <2>4 DEF Small
    <3>2. h[s] = IF s = {} THEN base ELSE op[First(s)][h[Rest(s)]]
      BY <2>2 DEF IsFold
    <3> QED BY <3>1, <3>2
  <2>5. IsFold(g, op, base, Small(D, n))
    <3> SUFFICES ASSUME NEW s \in Small(D, n)
                 PROVE  g[s] = IF s = {} THEN base ELSE op[First(s)][g[Rest(s)]]
      BY DEF IsFold
    <3>1. CASE s = {}
      BY <3>1
    <3>2. CASE s # {}
      <4>1. g[s] = op[First(s)][h[Rest(s)]]
        BY <3>2
      <4>2. g[Rest(s)] = h[Rest(s)]
        BY <2>3, <2>4, <3>2
      <4> QED BY <3>2, <4>1, <4>2
    <3> QED BY <3>1, <3>2
  <2> QED BY <2>5
<1> QED BY <1>3, <1>4

FoldOf(g, op, base, D) ==
  g = [s \in SUBSET D |-> IF s = {} THEN base ELSE op[First(s)][g[Rest(s)]]]

Keeps(D, op, good) ==
  \A s \in SUBSET D : \A x \in s : \A m \in good[s \ {x}] : op[x][m] \in good[s]

\* What holds at first, and after each element if it held before, holds at the end.
LEMMA FoldKeeps ==
  ASSUME NEW D, IsFiniteSet(D), NEW op, NEW base, NEW good, base \in good[{}],
         Keeps(D, op, good)
  PROVE  \E g : FoldOf(g, op, base, D) /\ \A s \in SUBSET D : g[s] \in good[s]
<1>1. Cardinality(D) \in Nat
  BY FS_CardinalityType
<1>2. Small(D, Cardinality(D)) = SUBSET D
  BY FS_Subset, FS_CardinalityType DEF Small
<1>3. PICK h : IsFold(h, op, base, SUBSET D)
  <2>1. \A n \in Nat : \E h : IsFold(h, op, base, Small(D, n))
    BY FoldsExist
  <2>2. \E h : IsFold(h, op, base, Small(D, Cardinality(D)))
    BY <1>1, <2>1
  <2> QED BY <1>2, <2>2
<1> DEFINE g == [s \in SUBSET D |-> h[s]]
<1>4. ASSUME NEW s \in SUBSET D, s # {}
      PROVE  First(s) \in s /\ Rest(s) \in SUBSET D
  BY <1>4 DEF First, Rest
<1>5. \A s \in SUBSET D : g[s] = IF s = {} THEN base ELSE op[First(s)][g[Rest(s)]]
  BY <1>3, <1>4 DEF IsFold
<1>6. FoldOf(g, op, base, D)
  BY <1>5 DEF FoldOf
<1> HIDE DEF g
<1> DEFINE Bad == {s \in SUBSET D : g[s] \notin good[s]}
<1>7. Bad = {}
  <2> SUFFICES ASSUME Bad # {} PROVE FALSE
    OBVIOUS
  <2>1. Bad \subseteq SUBSET D
    OBVIOUS
  <2>2. PICK s \in Bad : s # {} => Rest(s) \notin Bad
    <3> HIDE DEF Bad
    <3> QED BY <2>1, SmallestPart
  <2>3. CASE s = {}
    BY <1>5, <2>2, <2>3
  <2>4. CASE s # {}
    <3>1. First(s) \in s /\ Rest(s) \in SUBSET D /\ g[Rest(s)] \in good[Rest(s)]
      BY <1>4, <2>2, <2>4
    <3>2. Rest(s) = s \ {First(s)}
      BY DEF Rest
    <3>3. op[First(s)][g[Rest(s)]] \in good[s]
      BY <3>1, <3>2 DEF Keeps
    <3> QED BY <1>5, <2>2, <2>4, <3>3
  <2> QED BY <2>3, <2>4
<1> QED BY <1>6, <1>7

\* Two folds that agree in every step are the same.
LEMMA FoldsAgree ==
  ASSUME NEW D, IsFiniteSet(D), NEW f, NEW g,
         \A s \in SUBSET D : s = {} \/ f[Rest(s)] = g[Rest(s)] => f[s] = g[s]
  PROVE  f[D] = g[D]
<1> DEFINE Bad == {s \in SUBSET D : f[s] # g[s]}
<1>1. Bad = {}
  <2> SUFFICES ASSUME Bad # {} PROVE FALSE
    OBVIOUS
  <2>1. Bad \subseteq SUBSET D
    OBVIOUS
  <2>2. PICK s \in Bad : s # {} => Rest(s) \notin Bad
    <3> HIDE DEF Bad
    <3> QED BY <2>1, SmallestPart
  <2>3. s # {} => Rest(s) \in SUBSET D
    BY <2>2 DEF Rest
  <2> QED BY <2>2, <2>3
<1> QED BY <1>1

RemoveAll(l, R, q) == FoldSet(LAMBDA k, m : RemoveReference(m, k, q), l, R)
AddAll(l, R, q)    == FoldSet(LAMBDA k, m : AddReference(m, k, q), l, R)
EndAll(l, R)       == FoldSet(LAMBDA k, m : RemoveLimboTarget(m, k), l, R)

\* Removing the references of one view to some keys.
LEMMA RemovalsEffect ==
  ASSUME NEW l, Limited(l), NEW R \in SUBSET Keys, NEW q \in Queries
  PROVE  LET m == RemoveAll(l, R, q)
         IN  /\ Limited(m) /\ m.refs = l.refs \ (R \X {q})
             /\ \A j : j \in Tracked(m) <=> j \in Tracked(l) /\ (j \notin R \/ Referenced(m, j))
<1> DEFINE op == [x \in R |-> [m \in LimboRecord |-> RemoveReference(m, x, q)]]
           Good(s) == {m \in LimboRecord :
                         /\ Limited(m) /\ m.refs = l.refs \ (s \X {q})
                         /\ Tracked(m) = {j \in Tracked(l) : j \notin s \/ Referenced(m, j)}}
           good == [s \in SUBSET R |-> Good(s)]
           F(g) == [s \in SUBSET R |-> IF s = {} THEN l
                                       ELSE RemoveReference(g[Rest(s)], First(s), q)]
           iter == CHOOSE g : g = F(g)
<1>1. IsFiniteSet(R)
  BY KeysFinite
<1>2. RemoveAll(l, R, q) = iter[R]
  BY DEF RemoveAll, FoldSet, MapThenFoldSet, First, Rest
<1>3. l \in good[{}]
  <2>1. l \in LimboRecord
    BY DEF Limited, Loose
  <2>2. l.refs \ ({} \X {q}) = l.refs
    OBVIOUS
  <2>3. l \in Good({})
    BY <2>1, <2>2
  <2> QED BY <2>3
<1>4. ASSUME NEW s \in SUBSET R, NEW x \in s, NEW m \in good[s \ {x}]
      PROVE  op[x][m] \in good[s]
  <2>1. /\ m \in LimboRecord /\ Limited(m) /\ m.refs = l.refs \ ((s \ {x}) \X {q})
        /\ Tracked(m) = {j \in Tracked(l) : j \notin s \ {x} \/ Referenced(m, j)}
    BY <1>4
  <2> DEFINE n == RemoveReference(m, x, q)
  <2>2. /\ Limited(n) /\ n.refs = m.refs \ {<<x, q>>}
        /\ Tracked(n) = {j \in Tracked(m) : j # x \/ Referenced(n, x)}
    BY <2>1, RemoveReferenceEffect
  <2>3. op[x][m] = n
    BY <2>1
  <2> HIDE DEF n
  <2>4. n.refs = l.refs \ (s \X {q})
    BY <2>1, <2>2
  <2>5. \A j : j # x => (Referenced(n, j) <=> Referenced(m, j))
    BY <2>2 DEF Referenced
  <2>6. Tracked(n) = {j \in Tracked(l) : j \notin s \/ Referenced(n, j)}
    <3>1. Referenced(n, x) => Referenced(m, x)
      BY <2>2 DEF Referenced
    <3> QED BY <2>1, <2>2, <2>5, <3>1
  <2>7. n \in LimboRecord
    BY <2>2 DEF Limited, Loose
  <2>8. n \in Good(s)
    BY <2>2, <2>4, <2>6, <2>7
  <2> QED BY <2>3, <2>8
<1> HIDE DEF op, good
<1>14. Keeps(R, op, good)
  BY <1>4 DEF Keeps
<1>5. PICK g : FoldOf(g, op, l, R) /\ \A s \in SUBSET R : g[s] \in good[s]
  BY <1>1, <1>3, <1>14, FoldKeeps
<1>6. \A s \in SUBSET R : good[s] = Good(s)
  BY DEF good
<1>7. ASSUME NEW s \in SUBSET R, s # {}
      PROVE  /\ First(s) \in R /\ Rest(s) \in SUBSET R
             /\ g[s] = RemoveReference(g[Rest(s)], First(s), q)
  <2>1. First(s) \in R /\ Rest(s) \in SUBSET R
    BY <1>7 DEF First, Rest
  <2>2. g[Rest(s)] \in LimboRecord
    BY <1>5, <1>6, <2>1
  <2>3. g[s] = op[First(s)][g[Rest(s)]]
    BY <1>5, <1>7 DEF FoldOf
  <2> QED BY <2>1, <2>2, <2>3 DEF op
<1>8. g[{}] = l /\ DOMAIN g = SUBSET R
  BY <1>5 DEF FoldOf
<1>9. g = F(g)
  <2>1. \A s \in SUBSET R : g[s] = F(g)[s]
    BY <1>7, <1>8
  <2>2. g = [s \in SUBSET R |-> g[s]]
    BY <1>5 DEF FoldOf
  <2> QED BY <2>1, <2>2
<1>10. iter = F(iter)
  BY <1>9
<1> HIDE DEF iter
<1>11. \A s \in SUBSET R : s = {} \/ iter[Rest(s)] = g[Rest(s)] => iter[s] = g[s]
  BY <1>7, <1>8, <1>10
<1>12. iter[R] = g[R]
  BY <1>1, <1>11, FoldsAgree
<1>13. g[R] \in Good(R)
  BY <1>5, <1>6
<1> QED BY <1>2, <1>12, <1>13

\* Adding references of one view to some keys.
LEMMA AdditionsEffect ==
  ASSUME NEW l, Limited(l), NEW R \in SUBSET Keys, NEW q \in Queries
  PROVE  LET m == AddAll(l, R, q)
         IN  Limited(m) /\ m.refs = l.refs \cup (R \X {q}) /\ Tracked(m) = Tracked(l) \cup R
<1> DEFINE op == [x \in R |-> [m \in LimboRecord |-> AddReference(m, x, q)]]
           Good(s) == {m \in LimboRecord :
                         /\ Limited(m) /\ m.refs = l.refs \cup (s \X {q})
                         /\ Tracked(m) = Tracked(l) \cup s}
           good == [s \in SUBSET R |-> Good(s)]
           F(g) == [s \in SUBSET R |-> IF s = {} THEN l
                                       ELSE AddReference(g[Rest(s)], First(s), q)]
           iter == CHOOSE g : g = F(g)
<1>1. IsFiniteSet(R)
  BY KeysFinite
<1>2. AddAll(l, R, q) = iter[R]
  BY DEF AddAll, FoldSet, MapThenFoldSet, First, Rest
<1>3. l \in good[{}]
  <2>1. l \in LimboRecord
    BY DEF Limited, Loose
  <2>2. l.refs \cup ({} \X {q}) = l.refs
    OBVIOUS
  <2>3. l \in Good({})
    BY <2>1, <2>2
  <2> QED BY <2>3
<1>4. ASSUME NEW s \in SUBSET R, NEW x \in s, NEW m \in good[s \ {x}]
      PROVE  op[x][m] \in good[s]
  <2>1. /\ m \in LimboRecord /\ Limited(m) /\ m.refs = l.refs \cup ((s \ {x}) \X {q})
        /\ Tracked(m) = Tracked(l) \cup (s \ {x})
    BY <1>4
  <2> DEFINE n == AddReference(m, x, q)
  <2>2. /\ Limited(n) /\ n.refs = m.refs \cup {<<x, q>>} /\ Tracked(n) = Tracked(m) \cup {x}
    BY <2>1, AddReferenceEffect
  <2>3. op[x][m] = n
    BY <2>1
  <2> HIDE DEF n
  <2>4. n.refs = l.refs \cup (s \X {q})
    BY <2>1, <2>2
  <2>5. n \in LimboRecord
    BY <2>2 DEF Limited, Loose
  <2>6. n \in Good(s)
    BY <2>1, <2>2, <2>4, <2>5
  <2> QED BY <2>3, <2>6
<1> HIDE DEF op, good
<1>14. Keeps(R, op, good)
  BY <1>4 DEF Keeps
<1>5. PICK g : FoldOf(g, op, l, R) /\ \A s \in SUBSET R : g[s] \in good[s]
  BY <1>1, <1>3, <1>14, FoldKeeps
<1>6. \A s \in SUBSET R : good[s] = Good(s)
  BY DEF good
<1>7. ASSUME NEW s \in SUBSET R, s # {}
      PROVE  /\ First(s) \in R /\ Rest(s) \in SUBSET R
             /\ g[s] = AddReference(g[Rest(s)], First(s), q)
  <2>1. First(s) \in R /\ Rest(s) \in SUBSET R
    BY <1>7 DEF First, Rest
  <2>2. g[Rest(s)] \in LimboRecord
    BY <1>5, <1>6, <2>1
  <2>3. g[s] = op[First(s)][g[Rest(s)]]
    BY <1>5, <1>7 DEF FoldOf
  <2> QED BY <2>1, <2>2, <2>3 DEF op
<1>8. g[{}] = l /\ DOMAIN g = SUBSET R
  BY <1>5 DEF FoldOf
<1>9. g = F(g)
  <2>1. \A s \in SUBSET R : g[s] = F(g)[s]
    BY <1>7, <1>8
  <2>2. g = [s \in SUBSET R |-> g[s]]
    BY <1>5 DEF FoldOf
  <2> QED BY <2>1, <2>2
<1>10. iter = F(iter)
  BY <1>9
<1> HIDE DEF iter
<1>11. \A s \in SUBSET R : s = {} \/ iter[Rest(s)] = g[Rest(s)] => iter[s] = g[s]
  BY <1>7, <1>8, <1>10
<1>12. iter[R] = g[R]
  BY <1>1, <1>11, FoldsAgree
<1>13. g[R] \in Good(R)
  BY <1>5, <1>6
<1> QED BY <1>2, <1>12, <1>13


\* Ending what is tracked of some keys.
LEMMA EndingsEffect ==
  ASSUME NEW l, Limited(l), NEW R \in SUBSET Keys
  PROVE  LET m == EndAll(l, R)
         IN  Limited(m) /\ m.refs = l.refs /\ Tracked(m) = Tracked(l) \ R
<1> DEFINE op == [x \in R |-> [m \in LimboRecord |-> RemoveLimboTarget(m, x)]]
           Good(s) == {m \in LimboRecord :
                         Limited(m) /\ m.refs = l.refs /\ Tracked(m) = Tracked(l) \ s}
           good == [s \in SUBSET R |-> Good(s)]
           F(g) == [s \in SUBSET R |-> IF s = {} THEN l
                                       ELSE RemoveLimboTarget(g[Rest(s)], First(s))]
           iter == CHOOSE g : g = F(g)
<1>1. IsFiniteSet(R)
  BY KeysFinite
<1>2. EndAll(l, R) = iter[R]
  BY DEF EndAll, FoldSet, MapThenFoldSet, First, Rest
<1>3. l \in good[{}]
  <2>1. l \in LimboRecord
    BY DEF Limited, Loose
  <2>2. l \in Good({})
    BY <2>1
  <2> QED BY <2>2
<1>4. ASSUME NEW s \in SUBSET R, NEW x \in s, NEW m \in good[s \ {x}]
      PROVE  op[x][m] \in good[s]
  <2>1. m \in LimboRecord /\ Limited(m) /\ m.refs = l.refs /\ Tracked(m) = Tracked(l) \ (s \ {x})
    BY <1>4
  <2> DEFINE n == RemoveLimboTarget(m, x)
  <2>2. Limited(n) /\ n.refs = m.refs /\ Tracked(n) = Tracked(m) \ {x}
    BY <2>1, RemoveEffect
  <2>3. op[x][m] = n
    BY <2>1
  <2> HIDE DEF n
  <2>4. n \in LimboRecord
    BY <2>2 DEF Limited, Loose
  <2>5. n \in Good(s)
    BY <2>1, <2>2, <2>4
  <2> QED BY <2>3, <2>5
<1> HIDE DEF op, good
<1>14. Keeps(R, op, good)
  BY <1>4 DEF Keeps
<1>5. PICK g : FoldOf(g, op, l, R) /\ \A s \in SUBSET R : g[s] \in good[s]
  BY <1>1, <1>3, <1>14, FoldKeeps
<1>6. \A s \in SUBSET R : good[s] = Good(s)
  BY DEF good
<1>7. ASSUME NEW s \in SUBSET R, s # {}
      PROVE  /\ First(s) \in R /\ Rest(s) \in SUBSET R
             /\ g[s] = RemoveLimboTarget(g[Rest(s)], First(s))
  <2>1. First(s) \in R /\ Rest(s) \in SUBSET R
    BY <1>7 DEF First, Rest
  <2>2. g[Rest(s)] \in LimboRecord
    BY <1>5, <1>6, <2>1
  <2>3. g[s] = op[First(s)][g[Rest(s)]]
    BY <1>5, <1>7 DEF FoldOf
  <2> QED BY <2>1, <2>2, <2>3 DEF op
<1>8. g[{}] = l /\ DOMAIN g = SUBSET R
  BY <1>5 DEF FoldOf
<1>9. g = F(g)
  <2>1. \A s \in SUBSET R : g[s] = F(g)[s]
    BY <1>7, <1>8
  <2>2. g = [s \in SUBSET R |-> g[s]]
    BY <1>5 DEF FoldOf
  <2> QED BY <2>1, <2>2
<1>10. iter = F(iter)
  BY <1>9
<1> HIDE DEF iter
<1>11. \A s \in SUBSET R : s = {} \/ iter[Rest(s)] = g[Rest(s)] => iter[s] = g[s]
  BY <1>7, <1>8, <1>10
<1>12. iter[R] = g[R]
  BY <1>1, <1>11, FoldsAgree
<1>13. g[R] \in Good(R)
  BY <1>5, <1>6
<1> QED BY <1>2, <1>12, <1>13


\* What is tracked, and still in limbo for some view afterwards, is still tracked.
Kept(l, m) == \A k \in Tracked(l) : Referenced(m, k) => k \in Tracked(m)

\* Only what is in limbo for some view is tracked.
Tidy(l) == Limited(l) /\ \A k \in Tracked(l) : Referenced(l, k)

\* UpdateTrackedLimboDocuments: the references of the view are those to its new
\* limbo documents, of which those it did not have are tracked.
LEMMA UpdateEffect ==
  ASSUME NEW l, Tidy(l), NEW q \in Queries, NEW old \in SUBSET Keys, NEW new \in SUBSET Keys
  PROVE  LET m == UpdateTrackedLimboDocuments(l, q, old, new)
         IN  /\ Tidy(m) /\ Kept(l, m) /\ new \ old \subseteq Tracked(m)
             /\ \A k, p : <<k, p>> \in m.refs <=>
                  IF p = q THEN k \in new \ old \/ (<<k, p>> \in l.refs /\ k \notin old \ new)
                  ELSE <<k, p>> \in l.refs
<1> DEFINE r == RemoveAll(l, old \ new, q)
           m == AddAll(r, new \ old, q)
<1>1. UpdateTrackedLimboDocuments(l, q, old, new) = m
  BY DEF UpdateTrackedLimboDocuments, RemoveAll, AddAll
<1>2. /\ Limited(r) /\ r.refs = l.refs \ ((old \ new) \X {q})
      /\ \A j : j \in Tracked(r) <=>
                j \in Tracked(l) /\ (j \notin old \ new \/ Referenced(r, j))
  <2>1. Limited(l) /\ old \ new \in SUBSET Keys
    BY DEF Tidy
  <2> QED BY <2>1, RemovalsEffect
<1> HIDE DEF r
<1>3. /\ Limited(m) /\ m.refs = r.refs \cup ((new \ old) \X {q})
      /\ Tracked(m) = Tracked(r) \cup (new \ old)
  BY <1>2, AdditionsEffect
<1> HIDE DEF m
<1>4. \A k \in Tracked(m) : Referenced(m, k)
  <2>1. ASSUME NEW k \in Tracked(r)
        PROVE  Referenced(r, k)
    <3>1. CASE k \in old \ new
      BY <1>2, <2>1, <3>1
    <3>2. CASE k \notin old \ new
      BY <1>2, <2>1, <3>2 DEF Tidy, Referenced
    <3> QED BY <3>1, <3>2
  <2>2. \A k : Referenced(r, k) => Referenced(m, k)
    BY <1>3 DEF Referenced
  <2>3. \A k \in new \ old : Referenced(m, k)
    BY <1>3 DEF Referenced
  <2> QED BY <1>3, <2>1, <2>2, <2>3
<1>5. ASSUME NEW k \in Tracked(l), Referenced(m, k)
      PROVE  k \in Tracked(m)
  <2>1. CASE k \in new \ old
    BY <1>3, <2>1
  <2>2. CASE k \notin new \ old
    <3>1. Referenced(r, k)
      BY <1>3, <1>5, <2>2 DEF Referenced
    <3> QED BY <1>2, <1>3, <3>1
  <2> QED BY <2>1, <2>2
<1>6. \A k, p : <<k, p>> \in m.refs <=>
         IF p = q THEN k \in new \ old \/ (<<k, p>> \in l.refs /\ k \notin old \ new)
         ELSE <<k, p>> \in l.refs
  BY <1>2, <1>3
<1> QED BY <1>1, <1>3, <1>4, <1>5, <1>6 DEF Tidy, Kept

-----------------------------------------------------------------------------
(* Views *)

IsView(v) ==
  /\ v \in [on : BOOLEAN, docs : {v.docs}, current : BOOLEAN, limbo : SUBSET Keys,
            sync : SyncStates]
  /\ DOMAIN v.docs \subseteq Keys

\* A query that is not listened to, and one that just is, are views with nothing in limbo.
LEMMA NewViewsAreViews ==
  IsView(NoView) /\ NoView.limbo = {} /\ ~NoView.on /\ IsView(NewView) /\ NewView.limbo = {}
<1>1. /\ NoView \in [on : BOOLEAN, docs : {<<>>}, current : BOOLEAN, limbo : SUBSET Keys,
                     sync : SyncStates]
      /\ NoView.docs = <<>> /\ NoView.limbo = {} /\ NoView.on = FALSE
  BY DEF NoView, SyncStates
<1>2. /\ NewView \in [on : BOOLEAN, docs : {<<>>}, current : BOOLEAN, limbo : SUBSET Keys,
                      sync : SyncStates]
      /\ NewView.docs = <<>> /\ NewView.limbo = NoView.limbo
  BY <1>1 DEF NewView
<1>3. DOMAIN <<>> = {}
  OBVIOUS
<1> QED BY <1>1, <1>2, <1>3 DEF IsView

\* ApplyChanges recomputes the documents in limbo only of a view that is in sync.
LEMMA ApplyChangesEffect ==
  ASSUME NEW v, IsView(v), NEW docs, DOMAIN docs \subseteq Keys, NEW current \in BOOLEAN,
         NEW keys, NEW reset \in BOOLEAN
  PROVE  LET w == ApplyChanges(v, docs, current, keys, reset)
         IN  /\ IsView(w) /\ w.on = v.on /\ w.current = current /\ w.docs = docs
             /\ reset \/ ~current => w.limbo = v.limbo
             /\ ~reset /\ current =>
                  \A k : k \in w.limbo <=> k \in DOMAIN docs /\ ShouldBeInLimbo(docs, keys, k)
             /\ w.sync = "synced" => current /\ w.limbo = {}
<1> DEFINE u == [v EXCEPT !.docs = docs, !.current = current]
           l == IF reset THEN v.limbo ELSE UpdateLimboDocuments(u, keys)
           s == IF l = {} /\ current /\ ~reset THEN "synced" ELSE "local"
           w == ApplyChanges(v, docs, current, keys, reset)
<1>1. w = [u EXCEPT !.limbo = l, !.sync = s]
  BY DEF ApplyChanges
<1>2. /\ u \in [on : BOOLEAN, docs : {docs}, current : BOOLEAN, limbo : SUBSET Keys,
           sync : SyncStates]
      /\ u.docs = docs /\ u.current = current /\ u.limbo = v.limbo /\ u.on = v.on
  BY DEF IsView
<1>3. l = IF reset \/ ~current THEN v.limbo
          ELSE {k \in DOMAIN docs : ShouldBeInLimbo(docs, keys, k)}
  BY <1>2 DEF UpdateLimboDocuments
<1>4. l \subseteq Keys
  BY <1>3 DEF IsView
<1>5. s \in SyncStates /\ (s = "synced" => current /\ l = {})
  BY DEF SyncStates
<1> HIDE DEF l, s, u
<1>6. w \in [on : BOOLEAN, docs : {docs}, current : BOOLEAN, limbo : SUBSET Keys, sync : SyncStates]
  BY <1>1, <1>2, <1>4, <1>5
<1>7. w.on = v.on /\ w.docs = docs /\ w.current = current /\ w.limbo = l /\ w.sync = s
  BY <1>1, <1>2
<1> HIDE DEF w
<1>8. IsView(w)
  BY <1>6, <1>7 DEF IsView
<1> QED BY <1>3, <1>7, <1>8, <1>5 DEF w

\* The references that the views ask for.
Refs(v) == {kq \in Keys \X Queries : kq[1] \in v[kq[2]].limbo}

ViewsOK ==
  /\ views = [q \in Queries |-> views[q]]
  /\ \A q \in Queries : IsView(views[q]) /\ (~views[q].on => views[q].limbo = {})

\* The tables of limbo resolutions agree with each other and with the views.
TablesInv ==
  ViewsOK /\ cache = [k \in Keys |-> cache[k]] /\ Tidy(limbo) /\ limbo.refs = Refs(views)

\* Everything in limbo is tracked.
LookupInv == \A q \in Queries : views[q].limbo \subseteq Tracked(limbo)

TrackAll(l, new) ==
  FoldSet(LAMBDA q, m : UpdateTrackedLimboDocuments(m, q, views[q].limbo, new[q].limbo),
          l, Listening)

\* The limbo documents of all views that changed.
LEMMA TrackAllEffect ==
  ASSUME NEW l, Tidy(l), l.refs = Refs(views), NEW new,
         \A q \in Queries : views[q].limbo \subseteq Keys /\ new[q].limbo \subseteq Keys,
         \A q \in Queries \ Listening : new[q].limbo = views[q].limbo
  PROVE  LET m == TrackAll(l, new)
         IN  /\ Tidy(m) /\ m.refs = Refs(new) /\ Kept(l, m)
             /\ \A q \in Queries : new[q].limbo \ views[q].limbo \subseteq Tracked(m)
<1> DEFINE R == Listening
           Upd(m, q) == UpdateTrackedLimboDocuments(m, q, views[q].limbo, new[q].limbo)
           op == [x \in R |-> [m \in LimboRecord |-> Upd(m, x)]]
           At(s, q) == IF q \in s THEN new[q].limbo ELSE views[q].limbo
           Good(s) == {m \in LimboRecord :
                         /\ Tidy(m) /\ Kept(l, m)
                         /\ \A k \in Keys, q \in Queries : <<k, q>> \in m.refs <=> k \in At(s, q)
                         /\ \A q \in s : new[q].limbo \ views[q].limbo \subseteq Tracked(m)}
           good == [s \in SUBSET R |-> Good(s)]
           F(g) == [s \in SUBSET R |-> IF s = {} THEN l ELSE Upd(g[Rest(s)], First(s))]
           iter == CHOOSE g : g = F(g)
<1>1. IsFiniteSet(R) /\ R \subseteq Queries
  BY FiniteAssumption, FS_Subset DEF Listening
<1>2. TrackAll(l, new) = iter[R]
  BY DEF TrackAll, FoldSet, MapThenFoldSet, First, Rest
<1>3. l \in good[{}]
  <2>1. l \in LimboRecord
    BY DEF Tidy, Limited, Loose
  <2>2. \A k \in Keys, q \in Queries : <<k, q>> \in l.refs <=> k \in At({}, q)
    BY DEF Refs
  <2>3. Kept(l, l)
    BY DEF Kept
  <2>4. l \in Good({})
    BY <2>1, <2>2, <2>3
  <2> QED BY <2>4
<1>4. ASSUME NEW s \in SUBSET R, NEW x \in s, NEW m \in good[s \ {x}]
      PROVE  op[x][m] \in good[s]
  <2> DEFINE t == s \ {x}
             old == views[x].limbo
             now == new[x].limbo
             n == Upd(m, x)
  <2>1. /\ m \in LimboRecord /\ Tidy(m) /\ Kept(l, m)
        /\ \A k \in Keys, q \in Queries : <<k, q>> \in m.refs <=> k \in At(t, q)
        /\ \A q \in t : new[q].limbo \ views[q].limbo \subseteq Tracked(m)
    BY <1>4
  <2>2. x \in Queries /\ old \in SUBSET Keys /\ now \in SUBSET Keys
    BY <1>1
  <2>3. /\ Tidy(n) /\ Kept(m, n) /\ now \ old \subseteq Tracked(n)
        /\ \A k, p : <<k, p>> \in n.refs <=>
             IF p = x THEN k \in now \ old \/ (<<k, p>> \in m.refs /\ k \notin old \ now)
             ELSE <<k, p>> \in m.refs
    <3>1. Tidy(m)
      BY <2>1
    <3> HIDE DEF old, now, good, op, iter
    <3>2. n = UpdateTrackedLimboDocuments(m, x, old, now)
      BY DEF old, now
    <3> HIDE DEF n
    <3>3. Tidy(UpdateTrackedLimboDocuments(m, x, old, now))
      BY <2>2, <3>1, UpdateEffect
    <3>4. Kept(m, UpdateTrackedLimboDocuments(m, x, old, now))
      BY <2>2, <3>1, UpdateEffect
    <3>5. now \ old \subseteq Tracked(UpdateTrackedLimboDocuments(m, x, old, now))
      BY <2>2, <3>1, UpdateEffect
    <3>6. \A k, p : <<k, p>> \in UpdateTrackedLimboDocuments(m, x, old, now).refs <=>
             IF p = x THEN k \in now \ old \/ (<<k, p>> \in m.refs /\ k \notin old \ now)
             ELSE <<k, p>> \in m.refs
      BY <2>2, <3>1, UpdateEffect
    <3> QED BY <3>2, <3>3, <3>4, <3>5, <3>6
  <2>4. op[x][m] = n
    BY <2>1
  <2> HIDE DEF n
  <2>5. n \in LimboRecord
    BY <2>3 DEF Tidy, Limited, Loose
  <2>6. ASSUME NEW k \in Keys, NEW q \in Queries
        PROVE  <<k, q>> \in n.refs <=> k \in At(s, q)
    <3>1. <<k, q>> \in m.refs <=> k \in At(t, q)
      BY <2>1
    <3>2. CASE q = x
      BY <2>3, <3>1, <3>2
    <3>3. CASE q # x
      BY <2>3, <3>1, <3>3
    <3> QED BY <3>2, <3>3
  <2>7. \A k \in Keys, q \in Queries : k \in At(s, q) => Referenced(n, k)
    BY <2>6 DEF Referenced
  <2>8. ASSUME NEW k \in Tracked(l), Referenced(n, k)
        PROVE  k \in Tracked(n)
    <3>1. CASE Referenced(m, k)
      BY <2>1, <2>3, <2>8, <3>1 DEF Kept
    <3>2. CASE ~Referenced(m, k)
      <4>1. k \in now \ old
        BY <2>3, <2>8, <3>2 DEF Referenced
      <4> QED BY <2>3, <4>1
    <3> QED BY <3>1, <3>2
  <2>9. ASSUME NEW q \in s, NEW k \in new[q].limbo \ views[q].limbo
        PROVE  k \in Tracked(n)
    <3>1. CASE q = x
      BY <2>3, <2>9, <3>1
    <3>2. CASE q # x
      <4>1. k \in Tracked(m) /\ q \in Queries /\ k \in Keys
        BY <1>1, <2>1, <2>9, <3>2
      <4>2. Referenced(n, k)
        BY <2>7, <2>9, <4>1
      <4> QED BY <2>3, <4>1, <4>2 DEF Kept
    <3> QED BY <3>1, <3>2
  <2>10. n \in Good(s)
    BY <2>3, <2>5, <2>6, <2>8, <2>9 DEF Kept
  <2> QED BY <2>4, <2>10
<1> HIDE DEF op, good
<1>14. Keeps(R, op, good)
  BY <1>4 DEF Keeps
<1>5. PICK g : FoldOf(g, op, l, R) /\ \A s \in SUBSET R : g[s] \in good[s]
  BY <1>1, <1>3, <1>14, FoldKeeps
<1>6. \A s \in SUBSET R : good[s] = Good(s)
  BY DEF good
<1>7. ASSUME NEW s \in SUBSET R, s # {}
      PROVE  /\ First(s) \in R /\ Rest(s) \in SUBSET R
             /\ g[s] = Upd(g[Rest(s)], First(s))
  <2>1. First(s) \in R /\ Rest(s) \in SUBSET R
    BY <1>7 DEF First, Rest
  <2>2. g[Rest(s)] \in LimboRecord
    BY <1>5, <1>6, <2>1
  <2>3. g[s] = op[First(s)][g[Rest(s)]]
    BY <1>5, <1>7 DEF FoldOf
  <2> QED BY <2>1, <2>2, <2>3 DEF op
<1>8. g[{}] = l /\ DOMAIN g = SUBSET R
  BY <1>5 DEF FoldOf
<1>9. g = F(g)
  <2>1. \A s \in SUBSET R : g[s] = F(g)[s]
    BY <1>7, <1>8
  <2>2. g = [s \in SUBSET R |-> g[s]]
    BY <1>5 DEF FoldOf
  <2> QED BY <2>1, <2>2
<1>10. iter = F(iter)
  BY <1>9
<1> HIDE DEF iter
<1>11. \A s \in SUBSET R : s = {} \/ iter[Rest(s)] = g[Rest(s)] => iter[s] = g[s]
  <2> TAKE s \in SUBSET R
  <2> HIDE DEF Upd
  <2>1. iter[s] = IF s = {} THEN l ELSE Upd(iter[Rest(s)], First(s))
    BY <1>10
  <2>2. g[s] = IF s = {} THEN l ELSE Upd(g[Rest(s)], First(s))
    BY <1>7, <1>8
  <2> QED BY <2>1, <2>2
<1>12. iter[R] = g[R]
  BY <1>1, <1>11, FoldsAgree
<1>13. g[R] \in Good(R)
  BY <1>5, <1>6
<1> DEFINE m == TrackAll(l, new)
<1>15. /\ m \in LimboRecord /\ Tidy(m) /\ Kept(l, m)
       /\ \A k \in Keys, q \in Queries : <<k, q>> \in m.refs <=> k \in At(R, q)
       /\ \A q \in R : new[q].limbo \ views[q].limbo \subseteq Tracked(m)
  BY <1>2, <1>12, <1>13
<1> HIDE DEF m
<1>16. \A q \in Queries : At(R, q) = new[q].limbo
  OBVIOUS
<1>17. m.refs \subseteq Keys \X Queries
  BY <1>15 DEF LimboRecord
<1>18. m.refs = Refs(new)
  <2>1. ASSUME NEW k \in Keys, NEW q \in Queries
        PROVE  <<k, q>> \in m.refs <=> <<k, q>> \in Refs(new)
    BY <1>15, <1>16 DEF Refs
  <2>2. Refs(new) \subseteq Keys \X Queries
    BY DEF Refs
  <2>3. \A z \in Keys \X Queries : z \in m.refs <=> z \in Refs(new)
    <3> SUFFICES ASSUME NEW z \in Keys \X Queries PROVE z \in m.refs <=> z \in Refs(new)
      OBVIOUS
    <3>1. PICK k \in Keys, q \in Queries : z = <<k, q>>
      OBVIOUS
    <3> QED BY <2>1, <3>1
  <2> HIDE DEF m
  <2> QED BY <1>17, <2>2, <2>3
<1>19. \A q \in Queries \ R : new[q].limbo \ views[q].limbo = {}
  OBVIOUS
<1> QED BY <1>15, <1>18, <1>19 DEF m

-----------------------------------------------------------------------------
(* The steps *)

\* Emit: all views are refreshed, and their limbo documents tracked.
LEMMA EmitEffect ==
  ASSUME TablesInv, NEW docs, docs = [k \in Keys |-> docs[k]], NEW pending, NEW tgts, NEW change,
         NEW l, Tidy(l), l.refs = limbo.refs, Emit(docs, pending, tgts, change, l)
  PROVE  /\ TablesInv' /\ Kept(l, limbo')
         /\ \A q \in Queries : views'[q].limbo \ views[q].limbo \subseteq Tracked(limbo')
         /\ \A q \in Queries : views'[q] = IF views[q].on
              THEN Refresh(q, LocalView(docs, pending), tgts, change) ELSE views[q]
<1> DEFINE local == LocalView(docs, pending)
           new   == Refreshed(local, tgts, change)
<1>1. cache' = docs /\ views' = new /\ limbo' = TrackAll(l, new)
  <2>1. PICK n \in {new} :
          /\ cache' = docs /\ views' = n
          /\ limbo' = FoldSet(LAMBDA q, m : UpdateTrackedLimboDocuments(
                                              m, q, views[q].limbo, n[q].limbo), l, Listening)
    BY DEF Emit
  <2>2. limbo' = TrackAll(l, n)
    BY <2>1 DEF TrackAll
  <2>3. n = new
    OBVIOUS
  <2> HIDE DEF new
  <2> QED BY <2>1, <2>2, <2>3
<1>2. new = [q \in Queries |-> IF views[q].on THEN Refresh(q, local, tgts, change) ELSE views[q]]
  BY DEF Refreshed
<1>3. ASSUME NEW q \in Queries
      PROVE  /\ IsView(new[q]) /\ new[q].on = views[q].on
             /\ ~views[q].on => new[q] = views[q]
  <2>1. CASE views[q].on
    <3> DEFINE ds == ComputeDocumentChanges(views[q].docs, Matching(q, local), local)
               cu == IF change[q] = "none" THEN views[q].current ELSE change[q] = "current"
               re == change[q] = "reset"
    <3>1. DOMAIN ds \subseteq Keys
      BY DEF ComputeDocumentChanges, Matching
    <3>2. cu \in BOOLEAN /\ re \in BOOLEAN /\ IsView(views[q])
      BY DEF TablesInv, ViewsOK, IsView
    <3>3. new[q] = ApplyChanges(views[q], ds, cu, tgts[q].keys, re)
      BY <1>2, <2>1 DEF Refresh
    <3> HIDE DEF ds, cu, re, new
    <3>4. IsView(new[q]) /\ new[q].on = views[q].on
      BY <3>1, <3>2, <3>3, ApplyChangesEffect
    <3> QED BY <2>1, <3>4
  <2>2. CASE ~views[q].on
    BY <1>2, <2>2 DEF TablesInv, ViewsOK
  <2> QED BY <2>1, <2>2
<1>4. \A q \in Queries : views[q].limbo \subseteq Keys /\ new[q].limbo \subseteq Keys
  BY <1>3 DEF TablesInv, ViewsOK, IsView
<1>5. \A q \in Queries \ Listening : new[q].limbo = views[q].limbo
  BY <1>3 DEF Listening
<1>6. l.refs = Refs(views)
  BY DEF TablesInv
<1>7. new = [q \in Queries |-> new[q]]
  BY <1>2
<1> HIDE DEF new
<1>8. /\ Tidy(limbo') /\ limbo'.refs = Refs(new) /\ Kept(l, limbo')
      /\ \A q \in Queries : new[q].limbo \ views[q].limbo \subseteq Tracked(limbo')
  BY <1>1, <1>4, <1>5, <1>6, TrackAllEffect
<1>9. ViewsOK'
  BY <1>1, <1>3, <1>7 DEF ViewsOK, TablesInv
<1>10. TablesInv'
  BY <1>1, <1>8, <1>9 DEF TablesInv
<1> QED BY <1>1, <1>2, <1>8, <1>10

\* After Emit everything in limbo is tracked, if it was before and nothing that is
\* still in limbo was ended.
LEMMA EmitLookups ==
  ASSUME TablesInv', LookupInv, NEW l, Kept(l, limbo'),
         \A q \in Queries : views'[q].limbo \ views[q].limbo \subseteq Tracked(limbo'),
         \A q \in Queries : \A k \in views'[q].limbo : k \in Tracked(limbo) => k \in Tracked(l)
  PROVE  LookupInv'
<1> SUFFICES ASSUME NEW q \in Queries, NEW k \in views'[q].limbo
             PROVE  k \in Tracked(limbo')
  BY DEF LookupInv
<1>1. CASE k \notin views[q].limbo
  BY <1>1
<1>2. CASE k \in views[q].limbo
  <2>1. k \in Tracked(l)
    BY <1>2 DEF LookupInv
  <2>2. k \in Keys /\ limbo'.refs = Refs(views')
    BY DEF TablesInv, ViewsOK, IsView
  <2>3. <<k, q>> \in limbo'.refs
    BY <2>2 DEF Refs
  <2> QED BY <2>1, <2>3 DEF Kept, Referenced
<1> QED BY <1>1, <1>2

\* The new view of a listener has no limbo documents, as it is not in sync.
LEMMA ListenKeeps ==
  ASSUME TablesInv, NEW q \in Queries, Listen(q)
  PROVE  TablesInv' /\ (LookupInv => LookupInv')
<1> DEFINE local == LocalView(cache, writes)
           ds    == ComputeDocumentChanges(<<>>, ExecuteQuery(q, cache, writes), local)
           v     == ApplyChanges(NewView, ds, FALSE, targets[q].keys, FALSE)
<1>1. /\ ~views[q].on /\ views' = [views EXCEPT ![q] = v] /\ limbo' = limbo /\ cache' = cache
  BY DEF Listen, store
<1>2. IsView(NewView) /\ NewView.limbo = {}
  BY NewViewsAreViews
<1>3. DOMAIN ds \subseteq Keys
  BY DEF ComputeDocumentChanges, ExecuteQuery, Matching
<1> HIDE DEF ds
<1>4. IsView(v) /\ v.limbo = {}
  <2>1. PICK c \in BOOLEAN : c = FALSE
    OBVIOUS
  <2>2. v = ApplyChanges(NewView, ds, c, targets[q].keys, c)
    BY <2>1
  <2> HIDE DEF v
  <2>3. IsView(v) /\ (c \/ ~c => v.limbo = NewView.limbo)
    BY <1>2, <1>3, <2>1, <2>2, ApplyChangesEffect
  <2> QED BY <1>2, <2>3
<1> HIDE DEF v
<1>5. views = [p \in Queries |-> views[p]] /\ views[q].limbo = {}
  BY <1>1 DEF TablesInv, ViewsOK
<1>6. \A p \in Queries : views'[p] = IF p = q THEN v ELSE views[p]
  BY <1>1, <1>5
<1>7. ViewsOK'
  <2>1. views' = [p \in Queries |-> views'[p]]
    BY <1>1, <1>5
  <2> QED BY <1>4, <1>6, <2>1 DEF ViewsOK, TablesInv
<1>8. \A p \in Queries : views'[p].limbo = views[p].limbo
  BY <1>4, <1>5, <1>6
<1>9. Refs(views') = Refs(views)
  BY <1>8 DEF Refs
<1> QED BY <1>1, <1>7, <1>8, <1>9 DEF TablesInv, LookupInv

\* RemoveAndCleanupTarget ends the lookups of what is in limbo for no other view.
LEMMA RemoveTargetKeeps ==
  ASSUME TablesInv, NEW q \in Queries, RemoveTarget(q)
  PROVE  TablesInv' /\ (LookupInv => LookupInv')
<1> DEFINE keys == {k \in Keys : <<k, q>> \in limbo.refs}
           u    == [limbo EXCEPT !.refs = @ \ (keys \X {q})]
           last == {k \in keys : ~Referenced(u, k)}
<1>1. /\ views' = [views EXCEPT ![q] = NoView] /\ limbo' = EndAll(u, last) /\ cache' = cache
  BY DEF RemoveTarget, store, EndAll
<1>2. /\ Tidy(limbo) /\ limbo \in LimboRecord /\ limbo.refs = Refs(views)
      /\ limbo.refs \subseteq Keys \X Queries /\ views = [p \in Queries |-> views[p]]
  BY DEF TablesInv, Tidy, Limited, Loose, LimboRecord, ViewsOK
<1>3. /\ u.refs = limbo.refs \ (keys \X {q}) /\ u.active = limbo.active /\ u.queue = limbo.queue
      /\ u.answered = limbo.answered /\ u \in LimboRecord
  BY <1>2 DEF LimboRecord
<1>4. Limited(u) /\ Tracked(u) = Tracked(limbo)
  BY <1>2, <1>3 DEF Tidy, Limited, Loose, Tracked
<1> HIDE DEF u
<1>5. last \in SUBSET Keys
  OBVIOUS
<1>6. \A k \in last : ~Referenced(u, k)
  OBVIOUS
<1>7. \A k \in Keys : Referenced(limbo, k) /\ ~Referenced(u, k) => k \in last
  <2> SUFFICES ASSUME NEW k \in Keys, Referenced(limbo, k), ~Referenced(u, k)
               PROVE  k \in keys
    OBVIOUS
  <2>1. PICK p \in Queries : <<k, p>> \in limbo.refs
    BY DEF Referenced
  <2>2. <<k, p>> \notin u.refs
    BY DEF Referenced
  <2> QED BY <1>3, <2>1, <2>2
<1>8. \A k \in Keys, p \in Queries : <<k, p>> \in u.refs <=> p # q /\ <<k, p>> \in limbo.refs
  BY <1>3
<1> HIDE DEF last, keys
<1>9. Limited(limbo') /\ limbo'.refs = u.refs /\ Tracked(limbo') = Tracked(limbo) \ last
  BY <1>1, <1>4, <1>5, EndingsEffect
<1>10. \A k : Referenced(limbo', k) <=> Referenced(u, k)
  BY <1>9 DEF Referenced
<1>11. Tidy(limbo')
  <2>1. ASSUME NEW k \in Tracked(limbo')
        PROVE  Referenced(limbo', k)
    <3>1. k \in Tracked(limbo) /\ k \notin last /\ Referenced(limbo, k)
      BY <1>2, <1>9, <2>1 DEF Tidy
    <3>2. k \in Keys
      BY <1>2, <3>1 DEF Referenced
    <3> QED BY <1>7, <1>10, <3>1, <3>2
  <2> QED BY <1>9, <2>1 DEF Tidy
<1>12. NoView.limbo = {} /\ ~NoView.on /\ IsView(NoView)
  BY NewViewsAreViews
<1>13. \A p \in Queries : views'[p] = IF p = q THEN NoView ELSE views[p]
  BY <1>1, <1>2
<1>14. ViewsOK'
  <2>1. views' = [p \in Queries |-> views'[p]]
    BY <1>1, <1>2
  <2> QED BY <1>12, <1>13, <2>1 DEF ViewsOK, TablesInv
<1>15. limbo'.refs = Refs(views')
  <2>1. ASSUME NEW z \in Keys \X Queries
        PROVE  z \in limbo'.refs <=> z \in Refs(views')
    <3>1. PICK k \in Keys, p \in Queries : z = <<k, p>>
      OBVIOUS
    <3>2. <<k, p>> \in limbo'.refs <=> p # q /\ k \in views[p].limbo
      BY <1>2, <1>8, <1>9 DEF Refs
    <3>3. <<k, p>> \in Refs(views') <=> k \in views'[p].limbo
      BY DEF Refs
    <3> QED BY <1>12, <1>13, <3>1, <3>2, <3>3
  <2>2. limbo'.refs \subseteq Keys \X Queries /\ Refs(views') \subseteq Keys \X Queries
    BY <1>2, <1>3, <1>9 DEF Refs
  <2> QED BY <2>1, <2>2
<1>16. TablesInv'
  BY <1>1, <1>11, <1>14, <1>15 DEF TablesInv
<1>17. ASSUME LookupInv PROVE LookupInv'
  <2> SUFFICES ASSUME NEW p \in Queries, NEW k \in views'[p].limbo
               PROVE  k \in Tracked(limbo')
    BY DEF LookupInv
  <2>1. k \in Keys /\ <<k, p>> \in limbo'.refs
    BY <1>14, <1>15 DEF ViewsOK, IsView, Refs
  <2>2. k \notin last
    BY <1>6, <1>10, <2>1 DEF Referenced
  <2>3. k \in Tracked(limbo)
    BY <1>12, <1>13, <1>17 DEF LookupInv
  <2> QED BY <1>9, <2>2, <2>3
<1> QED BY <1>16, <1>17

\* The steps that refresh the views and leave the lookups to Emit.
LEMMA EmitKeeps ==
  ASSUME TablesInv, NEW docs, docs = [k \in Keys |-> docs[k]], NEW pending, NEW tgts, NEW change,
         Emit(docs, pending, tgts, change, limbo)
  PROVE  TablesInv' /\ (LookupInv => LookupInv')
<1>1. Tidy(limbo)
  BY DEF TablesInv
<1>2. /\ TablesInv' /\ Kept(limbo, limbo')
      /\ \A q \in Queries : views'[q].limbo \ views[q].limbo \subseteq Tracked(limbo')
  BY <1>1, EmitEffect
<1> QED BY <1>2, EmitLookups

\* WriteMutations: the written documents show under the new overlay.
LEMMA WriteKeeps ==
  ASSUME TablesInv, NEW k \in Keys, NEW c \in Contents, Write(k, c)
  PROVE  TablesInv' /\ (LookupInv => LookupInv')
<1>1. cache = [j \in Keys |-> cache[j]]
  BY DEF TablesInv
<1> QED BY <1>1, EmitKeeps DEF Write

\* HandleSuccessfulWrite: the acknowledged document replaces the overlay.
LEMMA SuccessfulWriteKeeps ==
  ASSUME TablesInv, NEW k \in Keys, HandleSuccessfulWrite(k)
  PROVE  TablesInv' /\ (LookupInv => LookupInv')
<1> DEFINE docs == [cache EXCEPT ![k] = Acknowledge(@, writes[k])]
<1>1. docs = [j \in Keys |-> docs[j]]
  BY DEF TablesInv
<1>2. Emit(docs, [writes EXCEPT ![k] = NoWrite], targets, NoChange, limbo)
  BY DEF HandleSuccessfulWrite
<1> HIDE DEF docs
<1> QED BY <1>1, <1>2, EmitKeeps

\* HandleRejectedWrite: the overlay is gone.
LEMMA RejectedWriteKeeps ==
  ASSUME TablesInv, NEW k \in Keys, HandleRejectedWrite(k)
  PROVE  TablesInv' /\ (LookupInv => LookupInv')
<1>1. cache = [j \in Keys |-> cache[j]]
  BY DEF TablesInv
<1> QED BY <1>1, EmitKeeps DEF HandleRejectedWrite

\* A target pending a reset: its view keeps its limbo documents.
LEMMA TargetMismatchKeeps ==
  ASSUME TablesInv, NEW q \in Queries, TargetMismatch(q)
  PROVE  TablesInv' /\ (LookupInv => LookupInv')
<1>1. cache = [j \in Keys |-> cache[j]]
  BY DEF TablesInv
<1> QED BY <1>1, EmitKeeps DEF TargetMismatch

\* The answers that a snapshot brings change nothing else about the lookups.
LEMMA AnswersEffect ==
  ASSUME Tidy(limbo), NEW keys, keys \subseteq limbo.active
  PROVE  LET l == [limbo EXCEPT !.answered = keys]
         IN  Tidy(l) /\ l.refs = limbo.refs /\ Tracked(l) = Tracked(limbo)
<1> DEFINE l == [limbo EXCEPT !.answered = keys]
<1>1. limbo \in LimboRecord
  BY DEF Tidy, Limited, Loose
<1>2. /\ l.refs = limbo.refs /\ l.active = limbo.active /\ l.queue = limbo.queue
      /\ l.answered = keys /\ l \in LimboRecord
  BY <1>1 DEF LimboRecord
<1> HIDE DEF l
<1>3. Tracked(l) = Tracked(limbo)
  BY <1>2 DEF Tracked
<1>4. Limited(l)
  BY <1>2 DEF Tidy, Limited, Loose
<1>5. \A k : Referenced(l, k) <=> Referenced(limbo, k)
  BY <1>2 DEF Referenced
<1> QED BY <1>2, <1>3, <1>4, <1>5 DEF Tidy, l

\* ApplyRemoteEvent: the lookups that were answered stay tracked.
LEMMA SnapshotKeeps ==
  ASSUME TablesInv, Snapshot
  PROVE  TablesInv' /\ (LookupInv => LookupInv')
<1>1. PICK qs \in SUBSET (Listening \ caughtUp), keys \in SUBSET (limbo.active \ limbo.answered),
           stale \in SUBSET Queries, told \in SUBSET Keys : ApplyRemoteEvent(qs, keys, stale, told)
  <2>1. Listening \subseteq Queries
    BY DEF Listening
  <2> QED BY <2>1 DEF Snapshot
<1>2. Tidy(limbo) /\ limbo.answered \subseteq limbo.active
  BY DEF TablesInv, Tidy, Limited, Loose
<1> DEFINE docs == Populate(cache, told)
           a == limbo.answered \cup keys
           l == [limbo EXCEPT !.answered = a]
<1>3. PICK tgts, change : Emit(docs, writes, tgts, change, l)
  BY <1>1 DEF ApplyRemoteEvent
<1>4. docs = [k \in Keys |-> docs[k]]
  BY DEF Populate
<1>5. a \subseteq limbo.active
  BY <1>2
<1> HIDE DEF docs, a
<1>6. Tidy(l) /\ l.refs = limbo.refs /\ Tracked(l) = Tracked(limbo)
  BY <1>2, <1>5, AnswersEffect
<1> HIDE DEF l
<1>7. /\ TablesInv' /\ Kept(l, limbo')
      /\ \A q \in Queries : views'[q].limbo \ views[q].limbo \subseteq Tracked(limbo')
  BY <1>3, <1>4, <1>6, EmitEffect
<1> QED BY <1>6, <1>7, EmitLookups

\* A broken connection forgets which lookups were answered, no lookup.
LEMMA DisconnectKeeps ==
  ASSUME TablesInv, Disconnect
  PROVE  TablesInv' /\ (LookupInv => LookupInv')
<1>1. /\ limbo' = [limbo EXCEPT !.answered = {}] /\ views' = views /\ cache' = cache
      /\ Tidy(limbo) /\ {} \subseteq limbo.active
  BY DEF Disconnect, TablesInv, store
<1>2. Tidy(limbo') /\ limbo'.refs = limbo.refs /\ Tracked(limbo') = Tracked(limbo)
  BY <1>1, AnswersEffect
<1> QED BY <1>1, <1>2 DEF TablesInv, ViewsOK, LookupInv

\* HandleOfflineState leaves the limbo documents of a view alone.
LEMMA OfflineKeeps ==
  ASSUME TablesInv, HandleOfflineState
  PROVE  TablesInv' /\ (LookupInv => LookupInv')
<1>1. /\ views' = [q \in Queries |-> IF views[q].on THEN ApplyOffline(views[q]) ELSE views[q]]
      /\ limbo' = limbo /\ cache' = cache
  BY DEF HandleOfflineState, store
<1>2. ASSUME NEW q \in Queries
      PROVE  IsView(views'[q]) /\ views'[q].on = views[q].on /\ views'[q].limbo = views[q].limbo
  <2> DEFINE v == views[q]
  <2>1. IsView(v) /\ DOMAIN v.docs \subseteq Keys
    BY DEF TablesInv, ViewsOK, IsView
  <2>2. PICK c \in BOOLEAN : c = FALSE
    OBVIOUS
  <2>3. /\ IsView(ApplyChanges(v, v.docs, c, {}, c))
        /\ ApplyChanges(v, v.docs, c, {}, c).on = v.on
        /\ c \/ ~c => ApplyChanges(v, v.docs, c, {}, c).limbo = v.limbo
    BY <2>1, <2>2, ApplyChangesEffect
  <2>4. views'[q] = v \/ views'[q] = ApplyChanges(v, v.docs, c, {}, c)
    BY <1>1, <2>2 DEF ApplyOffline
  <2> QED BY <2>1, <2>3, <2>4
<1>3. ViewsOK'
  BY <1>1, <1>2 DEF ViewsOK, TablesInv
<1>4. Refs(views') = Refs(views)
  BY <1>2 DEF Refs
<1> QED BY <1>1, <1>2, <1>3, <1>4 DEF TablesInv, LookupInv

\* A lookup that is rejected while its view is in sync: the document is purged, and is
\* then in limbo for no view.
InSync(k) == \A q \in Queries : k \in views[q].limbo => views[q].current

\* A purged document is in limbo for no view in sync: it shows only if a pending write says so.
LEMMA PurgedIsNotInLimbo ==
  ASSUME TablesInv, NEW k \in Keys, InSync(k), NEW q \in Queries,
         views'[q] = IF views[q].on
           THEN Refresh(q, LocalView(Purge(cache, k), writes), targets, NoChange) ELSE views[q]
  PROVE  k \notin views'[q].limbo
<1> DEFINE local == LocalView(Purge(cache, k), writes)
           v  == views[q]
           ds == ComputeDocumentChanges(v.docs, Matching(q, local), local)
<1>1. IsView(v) /\ v.current \in BOOLEAN /\ (~v.on => v.limbo = {})
  BY DEF TablesInv, ViewsOK, IsView
<1>2. Purge(cache, k)[k] = NoDocument
  BY DEF TablesInv, Purge
<1>3. local[k] = Local(Purge(cache, k), writes, k)
  BY DEF LocalView
<1>4. q \in local[k].content => local[k].from = "local"
  BY <1>2, <1>3 DEF Local, NoDocument
<1>5. k \in DOMAIN ds => ds[k].local
  <2> SUFFICES ASSUME k \in DOMAIN ds PROVE ds[k].local
    OBVIOUS
  <2>1. k \in Matching(q, local)
    BY DEF ComputeDocumentChanges
  <2>2. local[k].from = "local"
    BY <1>4, <2>1 DEF Matching
  <2>3. ~ShouldWaitForSyncedDocument(v.docs[k], local[k])
    BY <2>2 DEF ShouldWaitForSyncedDocument
  <2>4. ds[k] = Shown(local[k])
    BY <2>1, <2>3 DEF ComputeDocumentChanges
  <2>5. (local[k].from = "local") = TRUE
    BY <2>2
  <2>6. ds[k] = [content |-> local[k].content, local |-> TRUE]
    BY <2>4, <2>5 DEF Shown
  <2> QED BY <2>6
<1>6. DOMAIN ds \subseteq Keys
  BY DEF ComputeDocumentChanges, Matching
<1>7. CASE ~v.on
  BY <1>1, <1>7
<1>8. CASE v.on
  <2>1. PICK r \in BOOLEAN : r = FALSE
    OBVIOUS
  <2>2. views'[q] = ApplyChanges(v, ds, v.current, targets[q].keys, r)
    BY <1>8, <2>1 DEF Refresh, NoChange
  <2> HIDE DEF ds, v
  <2>3. /\ r \/ ~v.current => views'[q].limbo = v.limbo
        /\ ~r /\ v.current => \A j : j \in views'[q].limbo <=>
                j \in DOMAIN ds /\ ShouldBeInLimbo(ds, targets[q].keys, j)
    BY <1>1, <1>6, <2>2, ApplyChangesEffect
  <2>4. CASE ~v.current
    BY <2>3, <2>4 DEF InSync, v
  <2>5. CASE v.current
    BY <1>5, <2>1, <2>3, <2>5 DEF ShouldBeInLimbo
  <2> QED BY <2>4, <2>5
<1> QED BY <1>7, <1>8

\* HandleRejectedListen of a lookup: it ends, and the next key in the queue takes its place.
LEMMA RejectedLookupKeeps ==
  ASSUME TablesInv, NEW k \in Keys, RejectedLookup(k)
  PROVE  TablesInv' /\ (LookupInv /\ InSync(k) => LookupInv')
<1> DEFINE e == [limbo EXCEPT !.active = @ \ {k}, !.answered = @ \ {k}]
           l == PumpEnqueuedLimboResolutions(e)
           docs == Purge(cache, k)
<1>1. k \in limbo.active /\ Emit(docs, writes, targets, NoChange, l)
  BY DEF RejectedLookup
<1>2. /\ Tidy(limbo) /\ limbo \in LimboRecord /\ limbo.active \in SUBSET Keys
      /\ limbo.answered \subseteq limbo.active /\ limbo.active \cap Range(limbo.queue) = {}
      /\ IsInjective(limbo.queue) /\ Cardinality(limbo.active) <= MaxLimbo
  BY DEF TablesInv, Tidy, Limited, Loose, LimboRecord
<1>3. /\ e.refs = limbo.refs /\ e.active = limbo.active \ {k} /\ e.queue = limbo.queue
      /\ e.answered = limbo.answered \ {k} /\ e \in LimboRecord
  BY <1>2 DEF LimboRecord
<1> HIDE DEF e
<1>4. Cardinality(e.active) <= MaxLimbo
  <2>1. IsFiniteSet(limbo.active) /\ Cardinality(limbo.active) \in Nat
    BY <1>2, KeysFinite
  <2>2. Cardinality(limbo.active \ {k}) = Cardinality(limbo.active) - 1
    BY <1>1, <2>1, FS_RemoveElement
  <2> QED BY <1>2, <1>3, <2>1, <2>2, MaxLimboAssumption
<1>5. Loose(e)
  BY <1>2, <1>3, <1>4 DEF Loose
<1>6. Tracked(e) = Tracked(limbo) \ {k}
  BY <1>1, <1>2, <1>3 DEF Tracked
<1>7. Limited(l) /\ l.refs = limbo.refs /\ Tracked(l) = Tracked(limbo) \ {k}
  BY <1>3, <1>5, <1>6, PumpFills
<1>8. docs = [j \in Keys |-> docs[j]]
  BY DEF TablesInv, Purge
<1> HIDE DEF l
<1>9. Tidy(l)
  <2>1. \A j : Referenced(l, j) <=> Referenced(limbo, j)
    BY <1>7 DEF Referenced
  <2> QED BY <1>2, <1>7, <2>1 DEF Tidy
<1>10. /\ TablesInv' /\ Kept(l, limbo')
       /\ \A q \in Queries : views'[q].limbo \ views[q].limbo \subseteq Tracked(limbo')
       /\ \A q \in Queries : views'[q] = IF views[q].on
            THEN Refresh(q, LocalView(docs, writes), targets, NoChange) ELSE views[q]
  <2> HIDE DEF docs
  <2> QED BY <1>1, <1>7, <1>8, <1>9, EmitEffect
<1>11. ASSUME LookupInv, InSync(k) PROVE LookupInv'
  <2>1. \A q \in Queries : k \notin views'[q].limbo
    BY <1>10, <1>11, PurgedIsNotInLimbo
  <2> QED BY <1>7, <1>10, <1>11, <2>1, EmitLookups
<1> QED BY <1>10, <1>11

-----------------------------------------------------------------------------
(* The invariant, and what it implies *)

\* Every step keeps the tables; what is in limbo stays tracked unless a lookup is rejected while
\* a view that is not in sync has the document in limbo.
LEMMA TablesStep ==
  ASSUME TablesInv, [Next]_vars
  PROVE  /\ TablesInv'
         /\ LookupInv /\ (\A k \in Keys : RejectedLookup(k) => InSync(k)) => LookupInv'
<1> DEFINE Kind == TablesInv' /\ (LookupInv => LookupInv')
<1>1. ASSUME NEW q \in Queries, Listen(q) \/ StopListening(q) \/ RejectedListen(q)
                                \/ TargetMismatch(q)
      PROVE  Kind
  BY <1>1, ListenKeeps, RemoveTargetKeeps, TargetMismatchKeeps DEF StopListening, RejectedListen
<1>2. ASSUME NEW k \in Keys, HandleSuccessfulWrite(k) \/ HandleRejectedWrite(k)
      PROVE  Kind
  BY <1>2, SuccessfulWriteKeeps, RejectedWriteKeeps
<1>3. ASSUME NEW k \in Keys, NEW c \in Contents, Write(k, c)
      PROVE  Kind
  BY <1>3, WriteKeeps
<1>4. ASSUME Snapshot \/ Disconnect \/ HandleOfflineState
      PROVE  Kind
  BY <1>4, SnapshotKeeps, DisconnectKeeps, OfflineKeeps
<1>5. ASSUME UNCHANGED <<cache, views, limbo>>
      PROVE  Kind
  BY <1>5 DEF TablesInv, ViewsOK, LookupInv
<1>6. ASSUME NEW k \in Keys, RejectedLookup(k)
      PROVE  TablesInv' /\ (LookupInv /\ InSync(k) => LookupInv')
  BY <1>6, RejectedLookupKeeps
<1>7. ASSUME \/ \E k \in Keys : Commit(k)
             \/ \E k \in Keys, c \in Contents : Change(k, c)
             \/ Reconnect \/ UNCHANGED vars
      PROVE  UNCHANGED <<cache, views, limbo>>
  BY <1>7 DEF Commit, Change, Reconnect, vars, store
<1> QED BY <1>1, <1>2, <1>3, <1>4, <1>5, <1>6, <1>7 DEF Next

\* Nothing is listened to and nothing is in limbo.
LEMMA InitTables ==
  ASSUME Init
  PROVE  TablesInv /\ LookupInv
<1>1. /\ cache = [k \in Keys |-> NoDocument] /\ views = [q \in Queries |-> NoView]
      /\ limbo = NoLimbo
  BY DEF Init
<1>2. IsView(NoView) /\ NoView.limbo = {}
  BY NewViewsAreViews
<1>3. ViewsOK
  BY <1>1, <1>2 DEF ViewsOK
<1>4. /\ NoLimbo.refs = {} /\ NoLimbo.active = {} /\ NoLimbo.queue = <<>> /\ NoLimbo.answered = {}
      /\ NoLimbo \in LimboRecord
  BY DEF NoLimbo, LimboRecord
<1>5. Tidy(NoLimbo) /\ Tracked(NoLimbo) = {}
  <2>1. Range(<<>>) = {} /\ IsInjective(<<>>)
    BY DEF Range, IsInjective
  <2>2. Cardinality({}) <= MaxLimbo
    BY FS_EmptySet, MaxLimboAssumption
  <2> QED BY <1>4, <2>1, <2>2 DEF Tidy, Limited, Loose, Tracked
<1>6. Refs(views) = {}
  BY <1>1, <1>2 DEF Refs
<1> QED BY <1>1, <1>2, <1>3, <1>4, <1>5, <1>6 DEF TablesInv, LookupInv

\* The tables of limbo resolutions agree, but for what may be missing among the lookups.
TablesOfLimboAgree ==
  /\ limbo.refs = {kq \in Keys \X Queries : kq[1] \in views[kq[2]].limbo}
  /\ limbo.active \cap Range(limbo.queue) = {} /\ IsInjective(limbo.queue)
  /\ Cardinality(limbo.active) <= MaxLimbo
  /\ limbo.queue # <<>> => Cardinality(limbo.active) = MaxLimbo
  /\ \A k \in limbo.active \cup Range(limbo.queue) : Referenced(limbo, k)

\* What the invariant says of the tables.
LEMMA TablesAgreeThen ==
  ASSUME TablesInv
  PROVE  TablesOfLimboAgree
BY DEF TablesInv, Tidy, Limited, Loose, Refs, Tracked, TablesOfLimboAgree

\* limbo_document_refs_ has what the views have in limbo, no more than the limit is
\* looked up, no key waits without need or twice, and nothing is looked up for no view.
THEOREM LimboTablesAgree == Spec => []TablesOfLimboAgree
<1>1. Init => TablesInv
  BY InitTables
<1>2. TablesInv /\ [Next]_vars => TablesInv'
  BY TablesStep
<1>3. TablesInv => TablesOfLimboAgree
  BY TablesAgreeThen
<1> QED BY <1>1, <1>2, <1>3, PTL DEF Spec

\* HandleRejectedListen: the lookup of a document is rejected only while the views that
\* have it in limbo are in sync, and so compute their limbo documents anew.
LookupsEndInSync == [][\A k \in Keys : RejectedLookup(k) => InSync(k)]_vars

\* TrackLimboChange, PumpEnqueuedLimboResolutions and RemoveLimboTarget: every limbo
\* document of a view in sync is looked up or waits for a lookup to end.
THEOREM LimboDocumentsAreTracked == Spec /\ LookupsEndInSync => []LimboIsTracked
<1>1. Init => TablesInv /\ LookupInv
  BY InitTables
<1>2. /\ TablesInv /\ LookupInv /\ [Next]_vars
      /\ [\A k \in Keys : RejectedLookup(k) => InSync(k)]_vars
      => TablesInv' /\ LookupInv'
  <2> SUFFICES ASSUME TablesInv, LookupInv, [Next]_vars,
                      [\A k \in Keys : RejectedLookup(k) => InSync(k)]_vars
               PROVE  TablesInv' /\ LookupInv'
    OBVIOUS
  <2>1. CASE UNCHANGED vars
    BY <2>1 DEF vars, store, TablesInv, ViewsOK, LookupInv
  <2>2. CASE \A k \in Keys : RejectedLookup(k) => InSync(k)
    BY <2>2, TablesStep
  <2> QED BY <2>1, <2>2
<1>3. TablesInv /\ LookupInv => LimboIsTracked
  <2> SUFFICES ASSUME TablesInv, LookupInv PROVE LimboIsTracked
    OBVIOUS
  <2>1. LimboIsLookedUp
    BY DEF LookupInv, LimboIsLookedUp, Listening, Tracked
  <2> QED BY <2>1, TablesAgreeThen DEF TablesOfLimboAgree, LimboIsTracked
<1> QED BY <1>1, <1>2, <1>3, PTL DEF Spec, LookupsEndInSync

-----------------------------------------------------------------------------
(* The backend, the caches and the pending writes *)

\* What was written or read at the version that the backend has is what it has; a target
\* of a version at which a document was what it is now has the document if it matches.
Data(sv, ck, ca, wr, tg) ==
  /\ ck \in Nat
  /\ sv \in [Keys -> [content : Contents, version : 1..ck]]
  /\ ca \in [Keys -> [content : Contents, version : 0..ck, committed : BOOLEAN,
                      readTime : 0..ck]]
  /\ wr \in [Keys -> [state : {"none", "sent", "applied"}, content : Contents, version : 0..ck]]
  /\ tg \in [Queries -> [keys : SUBSET Keys, version : 0..ck, limboFree : 0..ck]]
  /\ \A k \in Keys :
       /\ ca[k].version <= sv[k].version /\ ca[k].version <= ca[k].readTime
       /\ ca[k].version = sv[k].version => ca[k].content = sv[k].content
       /\ wr[k].state = "none" => wr[k] = NoWrite
       /\ wr[k].state = "applied" =>
            /\ wr[k].version <= sv[k].version
            /\ wr[k].version = sv[k].version => wr[k].content = sv[k].content
  /\ \A q \in Queries :
       /\ tg[q].limboFree <= tg[q].version
       /\ \A k \in Keys : sv[k].version <= tg[q].version =>
                            (k \in tg[q].keys <=> q \in sv[k].content)

DataInv == Data(server, clock, cache, writes, targets)

-----------------------------------------------------------------------------
(* What the views show *)

\* A view in sync shows the documents that match, and those that the backend does not
\* report are in limbo; a document is shown as local only as long as it is not from Watch.
Fits(v, q, local, keys) ==
  /\ v.current => /\ DOMAIN v.docs = Matching(q, local)
                  /\ \A k \in DOMAIN v.docs : k \in keys \/ v.docs[k].local \/ k \in v.limbo
  /\ \A k \in DOMAIN v.docs : v.docs[k].local => local[k].from # "watch"
  /\ v.sync = "synced" => v.current /\ v.limbo = {}

ViewInv ==
  \A q \in Queries : views[q].on => Fits(views[q], q, LocalView(cache, writes), targets[q].keys)

\* A document is shown as it is, or as a local one that the backend acknowledged.
LEMMA ChangesFit ==
  ASSUME NEW docs, NEW results, NEW local, NEW k \in DOMAIN ComputeDocumentChanges(docs, results, local),
         ComputeDocumentChanges(docs, results, local)[k].local
  PROVE  local[k].from # "watch"
<1> DEFINE d == ComputeDocumentChanges(docs, results, local)[k]
<1>1. CASE k \in DOMAIN docs /\ ShouldWaitForSyncedDocument(docs[k], local[k])
  BY <1>1 DEF ShouldWaitForSyncedDocument
<1>2. CASE ~(k \in DOMAIN docs /\ ShouldWaitForSyncedDocument(docs[k], local[k]))
  <2>1. d = Shown(local[k])
    BY <1>2 DEF ComputeDocumentChanges
  <2>2. CASE local[k].from # "local"
    <3>1. (local[k].from = "local") = FALSE
      BY <2>2
    <3>2. d = [content |-> local[k].content, local |-> FALSE]
      BY <2>1, <3>1 DEF Shown
    <3>3. d.local
      OBVIOUS
    <3> HIDE DEF d
    <3> QED BY <3>2, <3>3
  <2> QED BY <2>2
<1> QED BY <1>1, <1>2

\* A refreshed view fits what it was computed from, whatever it was before.
LEMMA RefreshFits ==
  ASSUME ViewsOK, NEW q \in Queries, views[q].on, NEW docs, NEW pending, NEW tgts, NEW change
  PROVE  Fits(Refresh(q, LocalView(docs, pending), tgts, change), q,
              LocalView(docs, pending), tgts[q].keys)
<1> DEFINE local == LocalView(docs, pending)
           ds == ComputeDocumentChanges(views[q].docs, Matching(q, local), local)
           cu == IF change[q] = "none" THEN views[q].current ELSE change[q] = "current"
           re == change[q] = "reset"
           v == Refresh(q, local, tgts, change)
<1>1. DOMAIN ds = Matching(q, local) /\ Matching(q, local) \subseteq Keys
  BY DEF ComputeDocumentChanges, Matching
<1>2. cu \in BOOLEAN /\ re \in BOOLEAN /\ IsView(views[q]) /\ (cu => ~re)
  BY DEF ViewsOK, IsView
<1>3. v = ApplyChanges(views[q], ds, cu, tgts[q].keys, re)
  BY DEF Refresh
<1>4. \A k \in DOMAIN ds : ds[k].local => local[k].from # "watch"
  BY ChangesFit
<1> HIDE DEF ds, cu, re, v, local
<1>5. /\ v.current = cu /\ v.docs = ds
      /\ ~re /\ cu => \A k : k \in v.limbo <=> k \in DOMAIN ds /\ ShouldBeInLimbo(ds, tgts[q].keys, k)
      /\ v.sync = "synced" => cu /\ v.limbo = {}
  BY <1>1, <1>2, <1>3, ApplyChangesEffect
<1>6. Fits(v, q, local, tgts[q].keys)
  BY <1>1, <1>2, <1>4, <1>5 DEF Fits, ShouldBeInLimbo
<1> QED BY <1>6 DEF v, local

\* Emit takes the caches over; it may set the limbo-free version of a target.
LEMMA EmitData ==
  ASSUME ViewsOK, NEW docs, NEW pending, NEW tgts, NEW change, NEW l,
         Emit(docs, pending, tgts, change, l), Data(server, clock, docs, pending, tgts),
         UNCHANGED <<server, clock>>
  PROVE  /\ DataInv' /\ ViewInv' /\ cache' = docs /\ writes' = pending
         /\ \A q \in Queries : targets'[q].keys = tgts[q].keys
<1>1. PICK new : /\ cache' = docs /\ writes' = pending
                 /\ targets' = [q \in Queries |-> NotifyLocalView(tgts[q], views[q], new[q])]
  BY DEF Emit
<1>2. clock \in Nat /\ tgts \in [Queries -> [keys : SUBSET Keys, version : 0..clock, limboFree : 0..clock]]
  BY DEF Data
<1>3. ASSUME NEW q \in Queries
      PROVE  /\ targets'[q] \in [keys : SUBSET Keys, version : 0..clock, limboFree : 0..clock]
             /\ targets'[q].keys = tgts[q].keys /\ targets'[q].version = tgts[q].version
             /\ targets'[q].limboFree <= targets'[q].version
  <2>1. targets'[q] = tgts[q] \/ targets'[q] = [tgts[q] EXCEPT !.limboFree = tgts[q].version]
    BY <1>1 DEF NotifyLocalView
  <2>2. tgts[q].limboFree <= tgts[q].version
    BY DEF Data
  <2>3. tgts[q] \in [keys : SUBSET Keys, version : 0..clock, limboFree : 0..clock]
    BY <1>2
  <2>4. tgts[q].version \in Int
    BY <1>2, <2>3
  <2> QED BY <2>1, <2>2, <2>3, <2>4
<1>4. targets' \in [Queries -> [keys : SUBSET Keys, version : 0..clock, limboFree : 0..clock]]
  BY <1>1, <1>3
<1>5. DataInv'
  <2>1. DataInv' <=> Data(server, clock, docs, pending, targets')
    BY <1>1 DEF DataInv, Data
  <2>2. \A q \in Queries :
          /\ targets'[q].limboFree <= targets'[q].version
          /\ \A k \in Keys : server[k].version <= targets'[q].version =>
                               (k \in targets'[q].keys <=> q \in server[k].content)
    BY <1>3 DEF Data
  <2>3. Data(server, clock, docs, pending, targets')
    BY <1>4, <2>2 DEF Data
  <2> QED BY <2>1, <2>3
<1>6. ViewInv'
  <2>1. views' = Refreshed(LocalView(docs, pending), tgts, change)
    BY DEF Emit
  <2>2. ASSUME NEW q \in Queries, views'[q].on
        PROVE  Fits(views'[q], q, LocalView(docs, pending), tgts[q].keys)
    <3>1. views'[q] = IF views[q].on THEN Refresh(q, LocalView(docs, pending), tgts, change)
                      ELSE views[q]
      BY <2>1 DEF Refreshed
    <3>2. views[q].on
      BY <2>2, <3>1
    <3> QED BY <3>1, <3>2, RefreshFits
  <2> QED BY <1>1, <1>3, <2>2 DEF ViewInv
<1> QED BY <1>1, <1>3, <1>5, <1>6

\* WriteMutations: the new write has no version yet.
LEMMA WriteData ==
  ASSUME DataInv, ViewsOK, NEW k \in Keys, NEW c \in Contents, Write(k, c)
  PROVE  DataInv' /\ ViewInv' /\ cache' = cache /\ \A q \in Queries : targets'[q].keys = targets[q].keys
<1> DEFINE w == [writes EXCEPT ![k] = [state |-> "sent", content |-> c, version |-> 0]]
<1>1. Emit(cache, w, targets, NoChange, limbo) /\ UNCHANGED <<server, clock>>
  BY DEF Write
<1>2. /\ clock \in Nat
      /\ writes \in [Keys -> [state : {"none", "sent", "applied"}, content : Contents, version : 0..clock]]
  BY DEF DataInv, Data
<1>3. [state |-> "sent", content |-> c, version |-> 0]
        \in [state : {"none", "sent", "applied"}, content : Contents, version : 0..clock]
  BY <1>2
<1>4. /\ w \in [Keys -> [state : {"none", "sent", "applied"}, content : Contents, version : 0..clock]]
      /\ \A j \in Keys : w[j] = writes[j] \/ w[j].state = "sent"
  BY <1>2, <1>3
<1> HIDE DEF w
<1>5. Data(server, clock, cache, w, targets)
  <2>1. "sent" # "none" /\ "sent" # "applied"
    OBVIOUS
  <2> QED BY <1>4, <2>1 DEF DataInv, Data
<1> QED BY <1>1, <1>5, EmitData

\* A write that is gone.
LEMMA NoWriteData ==
  ASSUME NEW docs, Data(server, clock, docs, writes, targets), NEW k \in Keys
  PROVE  Data(server, clock, docs, [writes EXCEPT ![k] = NoWrite], targets)
<1> DEFINE w == [writes EXCEPT ![k] = NoWrite]
<1>1. /\ clock \in Nat
      /\ writes \in [Keys -> [state : {"none", "sent", "applied"}, content : Contents, version : 0..clock]]
  BY DEF Data
<1>2. /\ NoWrite \in [state : {"none", "sent", "applied"}, content : Contents, version : 0..clock]
      /\ NoWrite.state = "none"
  BY <1>1 DEF NoWrite, Contents
<1>3. /\ w \in [Keys -> [state : {"none", "sent", "applied"}, content : Contents, version : 0..clock]]
      /\ \A j \in Keys : w[j] = writes[j] \/ w[j] = NoWrite
  BY <1>1, <1>2
<1> HIDE DEF w
<1>4. "none" # "applied"
  OBVIOUS
<1>5. Data(server, clock, docs, w, targets)
  BY <1>2, <1>3, <1>4 DEF Data
<1> QED BY <1>5 DEF w

\* HandleRejectedWrite leaves the cache alone.
LEMMA RejectedWriteData ==
  ASSUME DataInv, ViewsOK, NEW k \in Keys, HandleRejectedWrite(k)
  PROVE  DataInv' /\ ViewInv' /\ cache' = cache /\ \A q \in Queries : targets'[q].keys = targets[q].keys
<1>1. /\ Emit(cache, [writes EXCEPT ![k] = NoWrite], targets, NoChange, limbo)
      /\ UNCHANGED <<server, clock>>
  BY DEF HandleRejectedWrite
<1>2. Data(server, clock, cache, [writes EXCEPT ![k] = NoWrite], targets)
  BY NoWriteData DEF DataInv
<1> QED BY <1>1, <1>2, EmitData

\* An acknowledged document has the content and version of its write, if it is no older.
LEMMA SuccessfulWriteData ==
  ASSUME DataInv, ViewsOK, NEW k \in Keys, HandleSuccessfulWrite(k)
  PROVE  /\ DataInv' /\ ViewInv' /\ \A q \in Queries : targets'[q].keys = targets[q].keys
         /\ \A j \in Keys : cache'[j] = cache[j] \/ cache'[j].committed
<1> DEFINE a == Acknowledge(cache[k], writes[k])
           d == [cache EXCEPT ![k] = a]
<1>1. /\ Emit(d, [writes EXCEPT ![k] = NoWrite], targets, NoChange, limbo)
      /\ UNCHANGED <<server, clock>> /\ writes[k].state = "applied"
  BY DEF HandleSuccessfulWrite
<1>2. /\ clock \in Nat
      /\ cache \in [Keys -> [content : Contents, version : 0..clock, committed : BOOLEAN,
                             readTime : 0..clock]]
      /\ writes[k] \in [state : {"none", "sent", "applied"}, content : Contents, version : 0..clock]
      /\ writes[k].version <= server[k].version
      /\ writes[k].version = server[k].version => writes[k].content = server[k].content
  BY <1>1 DEF DataInv, Data
<1>3. a = cache[k] \/ a = [content |-> writes[k].content, version |-> writes[k].version,
                           committed |-> TRUE, readTime |-> writes[k].version]
  BY DEF Acknowledge
<1>4. /\ a \in [content : Contents, version : 0..clock, committed : BOOLEAN, readTime : 0..clock]
      /\ a = cache[k] \/ /\ a.committed /\ a.version <= server[k].version /\ a.version <= a.readTime
                         /\ a.version = server[k].version => a.content = server[k].content
  <2>1. /\ cache[k] \in [content : Contents, version : 0..clock, committed : BOOLEAN,
                          readTime : 0..clock]
        /\ writes[k].content \in Contents /\ writes[k].version \in 0..clock
    BY <1>2
  <2>2. CASE a = cache[k]
    BY <2>1, <2>2
  <2>3. CASE a = [content |-> writes[k].content, version |-> writes[k].version,
                  committed |-> TRUE, readTime |-> writes[k].version]
    <3>1. /\ a.content = writes[k].content /\ a.version = writes[k].version
          /\ a.committed = TRUE /\ a.readTime = writes[k].version
      BY <2>3
    <3>2. a \in [content : Contents, version : 0..clock, committed : BOOLEAN,
                 readTime : 0..clock]
      BY <2>1, <2>3
    <3> HIDE DEF a
    <3>3. a.version <= a.readTime
      BY <2>1, <3>1
    <3> QED BY <1>2, <3>1, <3>2, <3>3
  <2> QED BY <1>3, <2>2, <2>3
<1> HIDE DEF a
<1>5. /\ d \in [Keys -> [content : Contents, version : 0..clock, committed : BOOLEAN,
                         readTime : 0..clock]]
      /\ \A j \in Keys : d[j] = cache[j] \/ (j = k /\ d[j] = a)
  BY <1>2, <1>4
<1> HIDE DEF d
<1>6. \A j \in Keys :
        /\ d[j].version <= server[j].version /\ d[j].version <= d[j].readTime
        /\ d[j].version = server[j].version => d[j].content = server[j].content
  BY <1>4, <1>5 DEF DataInv, Data
<1>7. Data(server, clock, d, writes, targets)
  BY <1>5, <1>6 DEF DataInv, Data
<1>8. Data(server, clock, d, [writes EXCEPT ![k] = NoWrite], targets)
  BY <1>7, NoWriteData
<1>9. DataInv' /\ ViewInv' /\ cache' = d /\ \A q \in Queries : targets'[q].keys = targets[q].keys
  BY <1>1, <1>8, EmitData
<1> QED BY <1>4, <1>5, <1>9

\* The purged document is older than any of the backend.
LEMMA RejectedLookupData ==
  ASSUME DataInv, ViewsOK, NEW k \in Keys, RejectedLookup(k)
  PROVE  /\ DataInv' /\ ViewInv' /\ \A q \in Queries : targets'[q].keys = targets[q].keys
         /\ \A j \in Keys : cache'[j] = cache[j] \/ (j = k /\ seen[j].content = {})
<1> DEFINE d == Purge(cache, k)
<1>1. PICK l : /\ Emit(d, writes, targets, NoChange, l) /\ UNCHANGED <<server, clock>>
               /\ seen[k].content = {}
  BY DEF RejectedLookup
<1>2. /\ clock \in Nat
      /\ cache \in [Keys -> [content : Contents, version : 0..clock, committed : BOOLEAN,
                             readTime : 0..clock]]
      /\ server \in [Keys -> [content : Contents, version : 1..clock]]
  BY DEF DataInv, Data
<1>3. /\ NoDocument \in [content : Contents, version : 0..clock, committed : BOOLEAN,
                         readTime : 0..clock]
      /\ NoDocument.version = 0 /\ NoDocument.readTime = 0
  BY <1>2 DEF NoDocument, Contents
<1>4. /\ d \in [Keys -> [content : Contents, version : 0..clock, committed : BOOLEAN,
                         readTime : 0..clock]]
      /\ \A j \in Keys : d[j] = cache[j] \/ (j = k /\ d[j] = NoDocument)
  BY <1>2, <1>3 DEF Purge
<1> HIDE DEF d
<1>5. \A j \in Keys : server[j].version \in 1..clock
  BY <1>2
<1>6. \A j \in Keys :
        /\ d[j].version <= server[j].version /\ d[j].version <= d[j].readTime
        /\ d[j].version = server[j].version => d[j].content = server[j].content
  BY <1>2, <1>3, <1>4, <1>5 DEF DataInv, Data
<1>7. Data(server, clock, d, writes, targets)
  BY <1>4, <1>6 DEF DataInv, Data
<1>8. DataInv' /\ ViewInv' /\ cache' = d /\ \A q \in Queries : targets'[q].keys = targets[q].keys
  BY <1>1, <1>7, EmitData
<1> QED BY <1>1, <1>4, <1>8

\* What Watch tells of a document: the cache has what the backend has.
LEMMA PopulateData ==
  ASSUME DataInv, NEW told
  PROVE  /\ Data(server, clock, Populate(cache, told), writes, targets)
         /\ \A k \in told \cap Keys : Populate(cache, told)[k].content = server[k].content
<1> DEFINE d == Populate(cache, told)
           r(k) == [content |-> server[k].content, version |-> server[k].version,
                    committed |-> FALSE, readTime |-> clock]
<1>1. /\ clock \in Nat
      /\ cache \in [Keys -> [content : Contents, version : 0..clock, committed : BOOLEAN,
                             readTime : 0..clock]]
      /\ server \in [Keys -> [content : Contents, version : 1..clock]]
  BY DEF DataInv, Data
<1>2. d = [k \in Keys |-> IF k \in told /\ IsUpdate(cache[k], server[k].version)
                          THEN r(k) ELSE cache[k]]
  BY DEF Populate
<1>3. ASSUME NEW k \in Keys
      PROVE  /\ d[k] \in [content : Contents, version : 0..clock, committed : BOOLEAN,
                          readTime : 0..clock]
             /\ d[k].version <= server[k].version /\ d[k].version <= d[k].readTime
             /\ d[k].version = server[k].version => d[k].content = server[k].content
             /\ k \in told => d[k].content = server[k].content
  <2>1. /\ cache[k] \in [content : Contents, version : 0..clock, committed : BOOLEAN,
                         readTime : 0..clock]
        /\ server[k].content \in Contents /\ server[k].version \in 1..clock
        /\ cache[k].version <= server[k].version /\ cache[k].version <= cache[k].readTime
        /\ cache[k].version = server[k].version => cache[k].content = server[k].content
    BY <1>1 DEF DataInv, Data
  <2>2. CASE k \in told /\ IsUpdate(cache[k], server[k].version)
    <3>1. d[k] = r(k)
      BY <1>2, <2>2
    <3>2. /\ r(k).content = server[k].content /\ r(k).version = server[k].version
          /\ r(k).readTime = clock
      OBVIOUS
    <3>3. r(k) \in [content : Contents, version : 0..clock, committed : BOOLEAN,
                    readTime : 0..clock]
      BY <1>1, <2>1
    <3> HIDE DEF r, d
    <3> QED BY <1>1, <2>1, <3>1, <3>2, <3>3
  <2>3. CASE ~(k \in told /\ IsUpdate(cache[k], server[k].version))
    <3>1. d[k] = cache[k]
      BY <1>2, <2>3
    <3>2. k \in told => cache[k].version = server[k].version
      BY <2>1, <2>3 DEF IsUpdate
    <3> HIDE DEF r, d
    <3> QED BY <2>1, <3>1, <3>2
  <2> QED BY <2>2, <2>3
<1>4. d \in [Keys -> [content : Contents, version : 0..clock, committed : BOOLEAN,
                      readTime : 0..clock]]
  BY <1>2, <1>3
<1> HIDE DEF d
<1>5. Data(server, clock, d, writes, targets)
  BY <1>3, <1>4 DEF DataInv, Data
<1> QED BY <1>3, <1>5 DEF d

-----------------------------------------------------------------------------
(* The latest snapshot *)

\* A target that the backend keeps up to date has the keys of the latest snapshot, and the
\* cache has these documents as they were, unless the client has written them.
SeenInv ==
  /\ caughtUp \subseteq Queries
  /\ \A q \in caughtUp : targets[q].keys = {k \in Keys : q \in seen[k].content}
  /\ \A q \in caughtUp, k \in Keys :
       q \in seen[k].content => cache[k].committed \/ cache[k].content = seen[k].content

\* ApplyRemoteEvent: the targets brought up to date have the keys, and the cache the documents,
\* that the backend has at this version.
LEMMA SnapshotData ==
  ASSUME DataInv, SeenInv, ViewsOK, NEW qs \in SUBSET Queries, NEW keys, NEW stale, NEW told,
         ApplyRemoteEvent(qs, keys, stale, told)
  PROVE  DataInv' /\ SeenInv' /\ ViewInv'
<1> DEFINE now == caughtUp \cup qs
           d == Populate(cache, told)
           t == [q \in Queries |-> IF q \in now
                                   THEN [targets[q] EXCEPT !.keys = KeysAfter(q), !.version = clock]
                                   ELSE targets[q]]
<1>1. PICK change, l : Emit(d, writes, t, change, l)
  BY DEF ApplyRemoteEvent
<1>2. /\ \A q \in now : ReportedKeys(q) \subseteq told
      /\ caughtUp' = now /\ seen' = server /\ UNCHANGED <<server, clock>>
  <2>1. UNION {ReportedKeys(q) : q \in now} \subseteq told
    BY DEF ApplyRemoteEvent
  <2>2. \A q \in now : ReportedKeys(q) \in {ReportedKeys(p) : p \in now}
    OBVIOUS
  <2> QED BY <2>1, <2>2 DEF ApplyRemoteEvent
<1>3. /\ clock \in Nat
      /\ server \in [Keys -> [content : Contents, version : 1..clock]]
      /\ targets \in [Queries -> [keys : SUBSET Keys, version : 0..clock, limboFree : 0..clock]]
  BY DEF DataInv, Data
<1>4. ASSUME NEW q \in Queries
      PROVE  /\ t[q] \in [keys : SUBSET Keys, version : 0..clock, limboFree : 0..clock]
             /\ t[q].limboFree <= t[q].version
             /\ \A k \in Keys : server[k].version <= t[q].version =>
                                  (k \in t[q].keys <=> q \in server[k].content)
             /\ q \in now => t[q].keys = {k \in Keys : q \in server[k].content}
  <2>1. /\ targets[q] \in [keys : SUBSET Keys, version : 0..clock, limboFree : 0..clock]
        /\ targets[q].limboFree <= targets[q].version
        /\ \A k \in Keys : server[k].version <= targets[q].version =>
                             (k \in targets[q].keys <=> q \in server[k].content)
    BY <1>3 DEF DataInv, Data
  <2>2. CASE q \in now
    <3>1. KeysAfter(q) = {k \in Keys : q \in server[k].content}
      BY DEF KeysAfter, ReportedKeys
    <3>2. t[q] = [targets[q] EXCEPT !.keys = KeysAfter(q), !.version = clock]
      BY <2>2
    <3> HIDE DEF t
    <3>3. t[q].keys = KeysAfter(q) /\ t[q].version = clock /\ t[q].limboFree = targets[q].limboFree
      BY <2>1, <3>2
    <3>4. t[q] \in [keys : SUBSET Keys, version : 0..clock, limboFree : 0..clock]
      <4>1. KeysAfter(q) \in SUBSET Keys /\ clock \in 0..clock
        BY <1>3, <3>1
      <4> QED BY <2>1, <3>2, <4>1
    <3> QED BY <1>3, <2>1, <3>1, <3>3, <3>4
  <2>3. CASE q \notin now
    BY <2>1, <2>3
  <2> QED BY <2>2, <2>3
<1>5. t \in [Queries -> [keys : SUBSET Keys, version : 0..clock, limboFree : 0..clock]]
  BY <1>4
<1>6. /\ Data(server, clock, d, writes, targets)
      /\ \A k \in told \cap Keys : d[k].content = server[k].content
  BY PopulateData
<1>7. now \subseteq Queries
  BY DEF SeenInv
<1> HIDE DEF d, t, now
<1>8. Data(server, clock, d, writes, t)
  BY <1>4, <1>5, <1>6 DEF Data
<1>9. /\ DataInv' /\ ViewInv' /\ cache' = d /\ \A q \in Queries : targets'[q].keys = t[q].keys
  BY <1>1, <1>2, <1>8, EmitData
<1>10. SeenInv'
  <2>1. \A q \in now : targets'[q].keys = {k \in Keys : q \in server[k].content}
    BY <1>4, <1>7, <1>9
  <2>2. ASSUME NEW q \in now, NEW k \in Keys, q \in server[k].content
        PROVE  d[k].content = server[k].content
    BY <1>2, <1>6, <2>2 DEF ReportedKeys
  <2> QED BY <1>2, <1>7, <1>9, <2>1, <2>2 DEF SeenInv
<1> QED BY <1>9, <1>10

\* A target that starts over.
LEMMA TargetMismatchData ==
  ASSUME DataInv, SeenInv, ViewsOK, NEW q \in Queries, TargetMismatch(q)
  PROVE  DataInv' /\ SeenInv' /\ ViewInv'
<1> DEFINE t == [targets EXCEPT ![q] = NoTarget]
<1>1. PICK change : /\ Emit(cache, writes, t, change, limbo)
                    /\ caughtUp' = caughtUp \ {q} /\ UNCHANGED <<server, clock, seen>>
  BY DEF TargetMismatch
<1>2. /\ clock \in Nat
      /\ server \in [Keys -> [content : Contents, version : 1..clock]]
      /\ targets \in [Queries -> [keys : SUBSET Keys, version : 0..clock, limboFree : 0..clock]]
  BY DEF DataInv, Data
<1>3. /\ NoTarget \in [keys : SUBSET Keys, version : 0..clock, limboFree : 0..clock]
      /\ NoTarget.version = 0 /\ NoTarget.limboFree = 0
  BY <1>2 DEF NoTarget
<1>4. /\ t \in [Queries -> [keys : SUBSET Keys, version : 0..clock, limboFree : 0..clock]]
      /\ \A p \in Queries : t[p] = IF p = q THEN NoTarget ELSE targets[p]
  BY <1>2, <1>3
<1> HIDE DEF t
<1>5. \A p \in Queries :
        /\ t[p].limboFree <= t[p].version
        /\ \A k \in Keys : server[k].version <= t[p].version =>
                             (k \in t[p].keys <=> p \in server[k].content)
  <2>1. \A k \in Keys : server[k].version \in 1..clock
    BY <1>2
  <2> QED BY <1>3, <1>4, <2>1 DEF DataInv, Data
<1>6. Data(server, clock, cache, writes, t)
  BY <1>4, <1>5 DEF DataInv, Data
<1>7. /\ DataInv' /\ ViewInv' /\ cache' = cache /\ \A p \in Queries : targets'[p].keys = t[p].keys
  BY <1>1, <1>6, EmitData
<1> QED BY <1>1, <1>4, <1>7 DEF SeenInv

-----------------------------------------------------------------------------
(* The backend *)

\* The backend has a new version of a document: every copy and every target is older.
LEMMA StoreData ==
  ASSUME DataInv, NEW k \in Keys, NEW c \in Contents, Store(k, c)
  PROVE  /\ clock' \in Nat /\ clock' = clock + 1
         /\ server' \in [Keys -> [content : Contents, version : 1..clock']]
         /\ \A j \in Keys : /\ server[j].version <= server'[j].version
                            /\ server'[j] = server[j] \/ server'[j].version = clock'
         /\ server'[k] = [content |-> c, version |-> clock']
         /\ cache \in [Keys -> [content : Contents, version : 0..clock', committed : BOOLEAN,
                                readTime : 0..clock']]
         /\ writes \in [Keys -> [state : {"none", "sent", "applied"}, content : Contents,
                                 version : 0..clock']]
         /\ targets \in [Queries -> [keys : SUBSET Keys, version : 0..clock', limboFree : 0..clock']]
<1> DEFINE s == [content |-> c, version |-> clock + 1]
<1>1. clock' = clock + 1 /\ server' = [server EXCEPT ![k] = s]
  BY DEF Store
<1>2. /\ clock \in Nat
      /\ server \in [Keys -> [content : Contents, version : 1..clock]]
      /\ cache \in [Keys -> [content : Contents, version : 0..clock, committed : BOOLEAN,
                             readTime : 0..clock]]
      /\ writes \in [Keys -> [state : {"none", "sent", "applied"}, content : Contents,
                              version : 0..clock]]
      /\ targets \in [Queries -> [keys : SUBSET Keys, version : 0..clock, limboFree : 0..clock]]
  BY DEF DataInv, Data
<1>3. clock' \in Nat /\ 0..clock \subseteq 0..clock' /\ 1..clock \subseteq 1..clock'
  BY <1>1, <1>2
<1>4. /\ cache \in [Keys -> [content : Contents, version : 0..clock', committed : BOOLEAN,
                             readTime : 0..clock']]
      /\ targets \in [Queries -> [keys : SUBSET Keys, version : 0..clock', limboFree : 0..clock']]
  BY <1>2, <1>3
<1>5. writes \in [Keys -> [state : {"none", "sent", "applied"}, content : Contents,
                           version : 0..clock']]
  BY <1>2, <1>3
<1>6. /\ s \in [content : Contents, version : 1..clock'] /\ s.version = clock'
  BY <1>1, <1>2
<1> HIDE DEF s
<1>7. ASSUME NEW j \in Keys
      PROVE  /\ server'[j] \in [content : Contents, version : 1..clock']
             /\ server[j].version <= server'[j].version
             /\ server'[j] = server[j] \/ server'[j].version = clock'
  <2>1. server[j].version \in 1..clock /\ server[j] \in [content : Contents, version : 1..clock']
    BY <1>2, <1>3
  <2>2. server'[j] = server[j] \/ server'[j] = s
    BY <1>1, <1>2
  <2> QED BY <1>2, <1>1, <1>6, <2>1, <2>2
<1>8. server' \in [Keys -> [content : Contents, version : 1..clock']]
  BY <1>1, <1>2, <1>7
<1>9. server'[k] = s
  BY <1>1, <1>2
<1> QED BY <1>1, <1>3, <1>4, <1>5, <1>7, <1>8, <1>9 DEF s

\* What does not depend on the writes.
LEMMA StoreKeepsCopies ==
  ASSUME DataInv, NEW k \in Keys, NEW c \in Contents, Store(k, c)
  PROVE  /\ \A j \in Keys :
              /\ cache[j].version <= server'[j].version /\ cache[j].version <= cache[j].readTime
              /\ cache[j].version = server'[j].version => cache[j].content = server'[j].content
         /\ \A q \in Queries :
              /\ targets[q].limboFree <= targets[q].version
              /\ \A j \in Keys : server'[j].version <= targets[q].version =>
                                   (j \in targets[q].keys <=> q \in server'[j].content)
<1>1. /\ clock' = clock + 1
      /\ \A j \in Keys : server'[j] = server[j] \/ server'[j].version = clock'
  BY StoreData
<1>2. /\ clock \in Nat
      /\ \A j \in Keys : cache[j].version \in 0..clock
      /\ \A q \in Queries : targets[q].version \in 0..clock
  BY DEF DataInv, Data
<1>3. ASSUME NEW j \in Keys
      PROVE  /\ cache[j].version <= server'[j].version /\ cache[j].version <= cache[j].readTime
             /\ cache[j].version = server'[j].version => cache[j].content = server'[j].content
  BY <1>1, <1>2 DEF DataInv, Data
<1>4. ASSUME NEW q \in Queries
      PROVE  /\ targets[q].limboFree <= targets[q].version
             /\ \A j \in Keys : server'[j].version <= targets[q].version =>
                                  (j \in targets[q].keys <=> q \in server'[j].content)
  BY <1>1, <1>2 DEF DataInv, Data
<1> QED BY <1>3, <1>4

\* Another client changes a document.
LEMMA ChangeData ==
  ASSUME DataInv, NEW k \in Keys, NEW c \in Contents, Change(k, c)
  PROVE  DataInv'
<1>1. Store(k, c) /\ cache' = cache /\ writes' = writes /\ targets' = targets
  BY DEF Change, store
<1>2. ASSUME NEW j \in Keys
      PROVE  /\ writes[j].state = "none" => writes[j] = NoWrite
             /\ writes[j].state = "applied" =>
                  /\ writes[j].version <= server'[j].version
                  /\ writes[j].version = server'[j].version => writes[j].content = server'[j].content
  <2>1. /\ clock \in Nat /\ server[j].version \in 1..clock /\ writes[j].version \in 0..clock
        /\ writes[j].state = "none" => writes[j] = NoWrite
        /\ writes[j].state = "applied" =>
             /\ writes[j].version <= server[j].version
             /\ writes[j].version = server[j].version => writes[j].content = server[j].content
    BY DEF DataInv, Data
  <2>2. clock' = clock + 1 /\ (server'[j] = server[j] \/ server'[j].version = clock')
    BY <1>1, StoreData
  <2> QED BY <2>1, <2>2
<1> QED BY <1>1, <1>2, StoreData, StoreKeepsCopies DEF DataInv, Data

\* The backend applies a write at its next version.
LEMMA CommitData ==
  ASSUME DataInv, NEW k \in Keys, Commit(k)
  PROVE  DataInv'
<1> DEFINE W == [state : {"none", "sent", "applied"}, content : Contents, version : 0..clock']
           a == [writes[k] EXCEPT !.state = "applied", !.version = clock + 1]
<1>1. /\ Store(k, writes[k].content) /\ cache' = cache /\ targets' = targets
      /\ writes' = [writes EXCEPT ![k].state = "applied", ![k].version = clock + 1]
  BY DEF Commit
<1>2. writes[k].content \in Contents
  BY DEF DataInv, Data
<1>3. /\ clock' = clock + 1 /\ clock \in Nat /\ writes \in [Keys -> W]
      /\ server'[k] = [content |-> writes[k].content, version |-> clock']
      /\ \A j \in Keys : server'[j] = server[j] \/ server'[j].version = clock'
  BY <1>1, <1>2, StoreData DEF DataInv, Data
<1>4. writes[k] \in W
  BY <1>3
<1>5. /\ a \in W /\ a.state = "applied" /\ a.version = clock' /\ a.content = writes[k].content
  <2>1. clock + 1 \in 0..clock' /\ "applied" \in {"none", "sent", "applied"}
    BY <1>3
  <2>2. a = [state |-> "applied", content |-> writes[k].content, version |-> clock + 1]
    <3> DEFINE b == [writes[k] EXCEPT !.state = "applied"]
    <3>1. b = [state |-> "applied", content |-> writes[k].content, version |-> writes[k].version]
      BY <1>4
    <3>2. a = [b EXCEPT !.version = clock + 1]
      OBVIOUS
    <3> HIDE DEF a, b
    <3> QED BY <3>1, <3>2
  <2> HIDE DEF a
  <2> QED BY <1>2, <1>3, <2>1, <2>2
<1>6. \A j \in Keys : writes'[j] = IF j = k THEN a ELSE writes[j]
  BY <1>1, <1>3
<1>7. writes' \in [Keys -> W]
  BY <1>1, <1>3, <1>5, <1>6
<1> HIDE DEF a
<1>8. ASSUME NEW j \in Keys
      PROVE  /\ writes'[j].state = "none" => writes'[j] = NoWrite
             /\ writes'[j].state = "applied" =>
                  /\ writes'[j].version <= server'[j].version
                  /\ writes'[j].version = server'[j].version => writes'[j].content = server'[j].content
  <2>1. CASE j = k
    <3>1. server'[k].version = clock' /\ server'[k].content = writes[k].content
      BY <1>3
    <3>2. "applied" # "none"
      OBVIOUS
    <3> QED BY <1>3, <1>5, <1>6, <2>1, <3>1, <3>2
  <2>2. CASE j # k
    <3>1. /\ server[j].version \in 1..clock /\ writes[j].version \in 0..clock
          /\ writes[j].state = "none" => writes[j] = NoWrite
          /\ writes[j].state = "applied" =>
               /\ writes[j].version <= server[j].version
               /\ writes[j].version = server[j].version => writes[j].content = server[j].content
      BY DEF DataInv, Data
    <3>2. writes'[j] = writes[j]
      BY <1>6, <2>2
    <3> QED BY <1>3, <3>1, <3>2
  <2> QED BY <2>1, <2>2
<1>9. /\ clock' \in Nat
      /\ server' \in [Keys -> [content : Contents, version : 1..clock']]
      /\ cache \in [Keys -> [content : Contents, version : 0..clock', committed : BOOLEAN,
                             readTime : 0..clock']]
      /\ targets \in [Queries -> [keys : SUBSET Keys, version : 0..clock', limboFree : 0..clock']]
  BY <1>1, <1>2, StoreData
<1> QED BY <1>1, <1>2, <1>7, <1>8, <1>9, StoreKeepsCopies DEF DataInv, Data

-----------------------------------------------------------------------------
(* The steps that change views alone *)

\* Listen: a new view is not in sync, and shows a write as long as it is pending.
LEMMA ListenFits ==
  ASSUME ViewsOK, ViewInv, NEW q \in Queries, Listen(q)
  PROVE  ViewInv'
<1> DEFINE local == LocalView(cache, writes)
           ds    == ComputeDocumentChanges(<<>>, ExecuteQuery(q, cache, writes), local)
           v     == ApplyChanges(NewView, ds, FALSE, targets[q].keys, FALSE)
<1>1. /\ views' = [views EXCEPT ![q] = v]
      /\ cache' = cache /\ writes' = writes /\ targets' = targets
  BY DEF Listen, store
<1>2. DOMAIN ds \subseteq Keys
  BY DEF ComputeDocumentChanges, ExecuteQuery, Matching
<1>3. \A k \in DOMAIN ds : ds[k].local => local[k].from # "watch"
  BY ChangesFit
<1> HIDE DEF ds, local
<1>4. v.current = FALSE /\ v.docs = ds /\ v.sync # "synced"
  <2>1. PICK c \in BOOLEAN : c = FALSE
    OBVIOUS
  <2>2. v = ApplyChanges(NewView, ds, c, targets[q].keys, c)
    BY <2>1
  <2> HIDE DEF v
  <2>3. v.current = c /\ v.docs = ds /\ (v.sync = "synced" => c)
    BY <1>2, <2>1, <2>2, NewViewsAreViews, ApplyChangesEffect
  <2> QED BY <2>1, <2>3
<1> HIDE DEF v
<1>5. Fits(v, q, local, targets[q].keys)
  BY <1>3, <1>4 DEF Fits
<1>6. \A p \in Queries : views'[p] = IF p = q THEN v ELSE views[p]
  BY <1>1 DEF ViewsOK
<1>7. ASSUME NEW p \in Queries, views'[p].on
      PROVE  Fits(views'[p], p, LocalView(cache, writes), targets[p].keys)
  BY <1>5, <1>6, <1>7 DEF ViewInv, local
<1> QED BY <1>1, <1>7 DEF ViewInv

\* RemoveAndCleanupTarget: the view is gone.
LEMMA RemoveTargetFits ==
  ASSUME ViewsOK, ViewInv, NEW q \in Queries, RemoveTarget(q)
  PROVE  ViewInv'
<1>1. /\ views' = [views EXCEPT ![q] = NoView]
      /\ cache' = cache /\ writes' = writes /\ targets' = targets
  BY DEF RemoveTarget, store
<1>2. \A p \in Queries : views'[p] = IF p = q THEN NoView ELSE views[p]
  BY <1>1 DEF ViewsOK
<1>3. \A p \in Queries : views'[p].on => views'[p] = views[p]
  BY <1>2, NewViewsAreViews
<1> QED BY <1>1, <1>3 DEF ViewInv

\* HandleOfflineState: the view is not in sync, and shows what it showed.
LEMMA OfflineFits ==
  ASSUME ViewsOK, ViewInv, HandleOfflineState
  PROVE  ViewInv'
<1>1. /\ views' = [q \in Queries |-> IF views[q].on THEN ApplyOffline(views[q]) ELSE views[q]]
      /\ cache' = cache /\ writes' = writes /\ targets' = targets
  BY DEF HandleOfflineState, store
<1>2. ASSUME NEW q \in Queries, views'[q].on
      PROVE  Fits(views'[q], q, LocalView(cache, writes), targets[q].keys)
  <2> DEFINE v == views[q]
             local == LocalView(cache, writes)
  <2>1. IsView(v) /\ DOMAIN v.docs \subseteq Keys
    BY DEF ViewsOK, IsView
  <2>2. PICK c \in BOOLEAN : c = FALSE
    OBVIOUS
  <2> DEFINE w == ApplyChanges(v, v.docs, c, {}, c)
  <2>3. w.on = v.on /\ w.docs = v.docs /\ w.current = c /\ (w.sync = "synced" => c)
    BY <2>1, <2>2, ApplyChangesEffect
  <2>4. views'[q] = v \/ views'[q] = w
    BY <1>1, <2>2 DEF ApplyOffline
  <2> HIDE DEF w, v, local
  <2>5. v.on
    BY <1>2, <2>3, <2>4
  <2>6. Fits(v, q, local, targets[q].keys)
    BY <2>5 DEF ViewInv, v, local
  <2>7. Fits(w, q, local, targets[q].keys)
    BY <2>2, <2>3, <2>6 DEF Fits
  <2> QED BY <2>4, <2>6, <2>7 DEF v, local
<1> QED BY <1>1, <1>2 DEF ViewInv

\* The backend commits a write: the client sees its document as before.
LEMMA CommitFits ==
  ASSUME DataInv, ViewInv, NEW k \in Keys, Commit(k)
  PROVE  ViewInv'
<1> DEFINE S == [state : {"none", "sent", "applied"}, content : Contents, version : 0..clock]
           a == [writes[k] EXCEPT !.state = "applied", !.version = clock + 1]
<1>1. /\ cache' = cache /\ targets' = targets /\ views' = views /\ writes[k].state = "sent"
      /\ writes' = [writes EXCEPT ![k].state = "applied", ![k].version = clock + 1]
  BY DEF Commit
<1>2. writes \in [Keys -> S] /\ writes[k] \in S
  BY DEF DataInv, Data
<1>3. a.state = "applied" /\ a.content = writes[k].content
  BY <1>2
<1>4. \A j \in Keys : writes'[j] = IF j = k THEN a ELSE writes[j]
  BY <1>1, <1>2
<1> HIDE DEF a
<1>5. ASSUME NEW j \in Keys
      PROVE  Local(cache, writes', j) = Local(cache, writes, j)
  <2>1. "applied" # "none" /\ "sent" # "none"
    OBVIOUS
  <2>2. /\ writes'[j].state # "none" <=> writes[j].state # "none"
        /\ writes'[j].content = writes[j].content
    BY <1>1, <1>3, <1>4, <2>1
  <2> QED BY <2>2 DEF Local
<1>6. LocalView(cache, writes') = LocalView(cache, writes)
  BY <1>5 DEF LocalView
<1> QED BY <1>1, <1>6 DEF ViewInv

-----------------------------------------------------------------------------
(* The invariant of the data *)

FullInv == TablesInv /\ DataInv /\ SeenInv /\ ViewInv

\* The writes of the user and their answers: the cache changes only by acknowledged documents.
LEMMA WritesStep ==
  ASSUME FullInv, NEW k \in Keys,
         \/ \E c \in Contents : Write(k, c)
         \/ HandleRejectedWrite(k) \/ HandleSuccessfulWrite(k)
  PROVE  DataInv' /\ SeenInv' /\ ViewInv'
<1>1. DataInv /\ ViewsOK /\ SeenInv
  BY DEF FullInv, TablesInv
<1>2. /\ DataInv' /\ ViewInv' /\ \A q \in Queries : targets'[q].keys = targets[q].keys
      /\ \A j \in Keys : cache'[j] = cache[j] \/ cache'[j].committed
  BY <1>1, WriteData, RejectedWriteData, SuccessfulWriteData
<1>3. UNCHANGED <<seen, caughtUp>>
  BY DEF Write, HandleRejectedWrite, HandleSuccessfulWrite
<1>4. SeenInv'
  <2>1. ASSUME NEW q \in caughtUp
        PROVE  targets'[q].keys = {j \in Keys : q \in seen[j].content}
    BY <1>1, <1>2 DEF SeenInv
  <2>2. ASSUME NEW q \in caughtUp, NEW j \in Keys, q \in seen[j].content
        PROVE  cache'[j].committed \/ cache'[j].content = seen[j].content
    BY <1>1, <1>2, <2>2 DEF SeenInv
  <2> QED BY <1>1, <1>3, <2>1, <2>2 DEF SeenInv
<1> QED BY <1>2, <1>4

\* A rejected lookup purges a document that no listened query returns.
LEMMA RejectedLookupStep ==
  ASSUME FullInv, NEW k \in Keys, RejectedLookup(k)
  PROVE  DataInv' /\ SeenInv' /\ ViewInv'
<1>1. DataInv /\ ViewsOK /\ SeenInv
  BY DEF FullInv, TablesInv
<1>2. /\ DataInv' /\ ViewInv' /\ \A q \in Queries : targets'[q].keys = targets[q].keys
      /\ \A j \in Keys : cache'[j] = cache[j] \/ (j = k /\ seen[j].content = {})
  BY <1>1, RejectedLookupData
<1>3. UNCHANGED <<seen, caughtUp>>
  BY DEF RejectedLookup
<1>4. SeenInv'
  <2>1. ASSUME NEW q \in caughtUp
        PROVE  targets'[q].keys = {j \in Keys : q \in seen[j].content}
    BY <1>1, <1>2 DEF SeenInv
  <2>2. ASSUME NEW q \in caughtUp, NEW j \in Keys, q \in seen[j].content
        PROVE  cache'[j].committed \/ cache'[j].content = seen[j].content
    BY <1>1, <1>2, <2>2 DEF SeenInv
  <2> QED BY <1>1, <1>3, <2>1, <2>2 DEF SeenInv
<1> QED BY <1>2, <1>4

\* The steps that leave the caches alone.
LEMMA UserStep ==
  ASSUME FullInv,
         \/ \E q \in Queries : Listen(q) \/ StopListening(q) \/ RejectedListen(q)
         \/ HandleOfflineState
  PROVE  DataInv' /\ SeenInv' /\ ViewInv'
<1>1. DataInv /\ ViewsOK /\ SeenInv /\ ViewInv
  BY DEF FullInv, TablesInv
<1>2. UNCHANGED <<server, clock, cache, writes, targets, seen>> /\ caughtUp' \subseteq caughtUp
  BY DEF Listen, StopListening, RejectedListen, RemoveTarget, HandleOfflineState, store
<1>3. ViewInv'
  BY <1>1, ListenFits, RemoveTargetFits, OfflineFits DEF StopListening, RejectedListen
<1> QED BY <1>1, <1>2, <1>3 DEF DataInv, SeenInv

\* The connection and the backend: the client reads nothing yet.
LEMMA ConnectionStep ==
  ASSUME FullInv,
         \/ \E k \in Keys : Commit(k) \/ \E c \in Contents : Change(k, c)
         \/ Disconnect \/ Reconnect \/ UNCHANGED vars
  PROVE  DataInv' /\ SeenInv' /\ ViewInv'
<1>1. DataInv /\ ViewsOK /\ SeenInv /\ ViewInv
  BY DEF FullInv, TablesInv
<1>2. UNCHANGED <<cache, targets, seen, views>> /\ caughtUp' \subseteq caughtUp
  BY DEF Commit, Change, Disconnect, Reconnect, vars, store
<1>3. SeenInv'
  BY <1>1, <1>2 DEF SeenInv
<1>4. ASSUME NEW k \in Keys, Commit(k) PROVE DataInv' /\ ViewInv'
  BY <1>1, <1>4, CommitData, CommitFits
<1>5. ASSUME NEW k \in Keys, NEW c \in Contents, Change(k, c) PROVE DataInv' /\ ViewInv'
  <2>1. writes' = writes
    BY <1>5 DEF Change, store
  <2> QED BY <1>1, <1>2, <1>5, <2>1, ChangeData DEF ViewInv
<1>6. ASSUME Disconnect \/ Reconnect \/ UNCHANGED vars PROVE DataInv' /\ ViewInv'
  BY <1>1, <1>6 DEF Disconnect, Reconnect, vars, store, DataInv, ViewInv
<1> QED BY <1>3, <1>4, <1>5, <1>6

\* Every step keeps the invariant.
LEMMA FullStep ==
  ASSUME FullInv, [Next]_vars
  PROVE  FullInv'
<1>1. TablesInv'
  BY TablesStep DEF FullInv
<1>2. DataInv /\ ViewsOK /\ SeenInv
  BY DEF FullInv, TablesInv
<1>3. ASSUME NEW q \in Queries, TargetMismatch(q) PROVE DataInv' /\ SeenInv' /\ ViewInv'
  BY <1>2, <1>3, TargetMismatchData
<1>4. ASSUME Snapshot PROVE DataInv' /\ SeenInv' /\ ViewInv'
  <2>1. PICK qs \in SUBSET (Listening \ caughtUp), keys \in SUBSET (limbo.active \ limbo.answered) :
          \E stale \in SUBSET (Listening \ (caughtUp \cup qs)), told \in SUBSET Keys :
            ApplyRemoteEvent(qs, keys, stale, told)
    BY <1>4 DEF Snapshot
  <2>2. qs \in SUBSET Queries
    BY DEF Listening
  <2> QED BY <1>2, <2>1, <2>2, SnapshotData
<1>5. DataInv' /\ SeenInv' /\ ViewInv'
  BY <1>3, <1>4, WritesStep, RejectedLookupStep, UserStep, ConnectionStep DEF Next
<1> QED BY <1>1, <1>5 DEF FullInv

\* The invariant holds before anything is read.
LEMMA InitFull ==
  ASSUME Init
  PROVE  FullInv
<1> DEFINE D == [content : Contents, version : 0..1, committed : BOOLEAN, readTime : 0..1]
           W == [state : {"none", "sent", "applied"}, content : Contents, version : 0..1]
           T == [keys : SUBSET Keys, version : 0..1, limboFree : 0..1]
<1>1. /\ clock = 1 /\ caughtUp = {}
      /\ cache = [k \in Keys |-> NoDocument] /\ writes = [k \in Keys |-> NoWrite]
      /\ targets = [q \in Queries |-> NoTarget] /\ views = [q \in Queries |-> NoView]
  BY DEF Init
<1>2. PICK s \in Settings : server = [k \in Keys |-> [content |-> s.contents[k], version |-> 1]]
  BY DEF Init
<1>3. /\ server \in [Keys -> [content : Contents, version : 1..1]]
      /\ \A k \in Keys : server[k].version = 1
  BY <1>2, SettingsAssumption
<1>4. NoDocument \in D /\ NoDocument.version = 0 /\ NoDocument.readTime = 0
  BY DEF NoDocument, Contents
<1>5. NoWrite \in W /\ NoWrite.state = "none"
  BY DEF NoWrite, Contents
<1>6. NoTarget \in T /\ NoTarget.version = 0 /\ NoTarget.limboFree = 0
  BY DEF NoTarget
<1>7. /\ cache \in [Keys -> D] /\ \A k \in Keys : cache[k] = NoDocument
      /\ writes \in [Keys -> W] /\ \A k \in Keys : writes[k] = NoWrite
      /\ targets \in [Queries -> T] /\ \A q \in Queries : targets[q] = NoTarget
  BY <1>1, <1>4, <1>5, <1>6
<1>8. \A k \in Keys :
        /\ cache[k].version <= server[k].version /\ cache[k].version <= cache[k].readTime
        /\ cache[k].version # server[k].version
  BY <1>3, <1>4, <1>7
<1>9. \A q \in Queries : /\ targets[q].limboFree <= targets[q].version
                         /\ \A k \in Keys : ~(server[k].version <= targets[q].version)
  BY <1>3, <1>6, <1>7
<1>10. \A k \in Keys : writes[k] = NoWrite /\ writes[k].state # "applied"
  BY <1>5, <1>7
<1>11. DataInv
  BY <1>1, <1>3, <1>7, <1>8, <1>9, <1>10 DEF DataInv, Data
<1>12. SeenInv
  BY <1>1 DEF SeenInv
<1>13. ViewInv
  BY <1>1, NewViewsAreViews DEF ViewInv
<1> QED BY <1>11, <1>12, <1>13, InitTables DEF FullInv

\* The inductive invariant of the sync engine.
LEMMA FullInvHolds == Spec => []FullInv
<1>1. Init => FullInv
  BY InitFull
<1>2. FullInv /\ [Next]_vars => FullInv'
  BY FullStep
<1> QED BY <1>1, <1>2, PTL DEF Spec

-----------------------------------------------------------------------------
(* What follows *)

\* Every variable keeps its type: the views show documents, no version exceeds the clock of the
\* backend, and only running lookups are answered.
THEOREM SyncEngineTypes == Spec => []TypeOK
<1>1. FullInv => TypeOK
  <2> SUFFICES ASSUME FullInv PROVE TypeOK
    OBVIOUS
  <2>1. /\ server \in [Keys -> [content : Contents, version : 1..clock]]
        /\ cache \in [Keys -> [content : Contents, version : 0..clock,
                               committed : BOOLEAN, readTime : 0..clock]]
        /\ writes \in [Keys -> [state : {"none", "sent", "applied"}, content : Contents,
                                version : 0..clock]]
        /\ targets \in [Queries -> [keys : SUBSET Keys, version : 0..clock,
                                    limboFree : 0..clock]]
    BY DEF FullInv, DataInv, Data
  <2>2. \A q \in Queries :
          /\ DOMAIN views[q].docs \subseteq Keys
          /\ views[q].limbo \subseteq Keys /\ views[q].sync \in SyncStates
    BY DEF FullInv, TablesInv, ViewsOK, IsView
  <2>3. limbo.refs \subseteq Keys \X Queries /\ limbo.answered \subseteq limbo.active
    BY DEF FullInv, TablesInv, Refs, Tidy, Limited, Loose
  <2>4. caughtUp \subseteq Queries
    BY DEF FullInv, SeenInv
  <2> QED BY <2>1, <2>2, <2>3, <2>4 DEF TypeOK
<1> QED BY <1>1, FullInvHolds, PTL

\* ApplyRemoteEvent, PopulateDocumentChanges and View: a view that tells its listeners that it
\* is synced shows what the backend reported, whatever other targets, acknowledgements and
\* rejected lookups did to the cache.
THEOREM SyncedViewsAreExact == Spec => []SyncedIsExact
<1>1. FullInv => SyncedIsExact
  <2> SUFFICES ASSUME FullInv, NEW q \in Listening \cap caughtUp, views[q].sync = "synced",
                      NEW k \in Keys, writes[k] = NoWrite, ~cache[k].committed
               PROVE  k \in DOMAIN views[q].docs <=> q \in seen[k].content
    BY DEF SyncedIsExact
  <2> DEFINE v == views[q]
             local == LocalView(cache, writes)
  <2>1. q \in Queries /\ v.on /\ q \in caughtUp
    BY DEF Listening
  <2>2. Fits(v, q, local, targets[q].keys)
    BY <2>1 DEF FullInv, ViewInv
  <2>3. /\ v.limbo = {} /\ DOMAIN v.docs = Matching(q, local)
        /\ \A j \in DOMAIN v.docs : j \in targets[q].keys \/ v.docs[j].local
        /\ \A j \in DOMAIN v.docs : v.docs[j].local => local[j].from # "watch"
    BY <2>2 DEF Fits
  <2>4. targets[q].keys = {j \in Keys : q \in seen[j].content}
    BY <2>1 DEF FullInv, SeenInv
  <2>5. local[k].content = cache[k].content /\ local[k].from = "watch"
    <3>1. NoWrite.state = "none"
      BY DEF NoWrite
    <3> QED BY <3>1 DEF LocalView, Local
  <2>6. q \in seen[k].content => cache[k].content = seen[k].content
    BY <2>1 DEF FullInv, SeenInv
  <2> HIDE DEF v, local
  <2>7. k \in DOMAIN v.docs => q \in seen[k].content
    BY <2>3, <2>4, <2>5
  <2>8. q \in seen[k].content => k \in DOMAIN v.docs
    BY <2>3, <2>5, <2>6 DEF Matching
  <2> QED BY <2>7, <2>8 DEF v
<1> QED BY <1>1, FullInvHolds, PTL

\* A target turns a view on only in Listen.
LEMMA OnlyListenTurnsOn ==
  ASSUME ViewsOK, [Next]_vars, NEW q \in Queries, ~views[q].on, views'[q].on
  PROVE  Listen(q)
<1>1. ASSUME NEW docs, NEW pending, NEW tgts, NEW change, NEW l, Emit(docs, pending, tgts, change, l)
      PROVE  FALSE
  <2>1. views' = Refreshed(LocalView(docs, pending), tgts, change)
    BY <1>1 DEF Emit
  <2> QED BY <2>1 DEF Refreshed
<1>2. ASSUME NEW p \in Queries, Listen(p)
      PROVE  p = q
  <2>1. PICK v : views' = [views EXCEPT ![p] = v]
    BY <1>2 DEF Listen
  <2> QED BY <2>1 DEF ViewsOK
<1>3. ASSUME NEW p \in Queries, RemoveTarget(p)
      PROVE  FALSE
  <2>1. views' = [views EXCEPT ![p] = NoView]
    BY <1>3 DEF RemoveTarget
  <2>2. views'[q] = views[q] \/ views'[q] = NoView
    BY <2>1 DEF ViewsOK
  <2> QED BY <2>2, NewViewsAreViews
<1>4. ASSUME NEW p \in Queries, TargetMismatch(p) PROVE FALSE
  BY <1>1, <1>4 DEF TargetMismatch
<1>5. ASSUME NEW k \in Keys, \/ HandleSuccessfulWrite(k) \/ HandleRejectedWrite(k)
                             \/ RejectedLookup(k) \/ \E c \in Contents : Write(k, c)
      PROVE  FALSE
  BY <1>1, <1>5 DEF HandleSuccessfulWrite, HandleRejectedWrite, RejectedLookup, Write
<1>6. ASSUME Snapshot PROVE FALSE
  BY <1>1, <1>6 DEF Snapshot, ApplyRemoteEvent
<1>7. ASSUME HandleOfflineState PROVE FALSE
  BY <1>7 DEF HandleOfflineState
<1>8. ASSUME views' = views PROVE FALSE
  BY <1>8
<1>9. ASSUME \/ \E k \in Keys : Commit(k)
             \/ \E k \in Keys, c \in Contents : Change(k, c)
             \/ Disconnect \/ Reconnect \/ UNCHANGED vars
      PROVE  views' = views
  BY <1>9 DEF Commit, Change, Disconnect, Reconnect, vars
<1> QED BY <1>2, <1>3, <1>4, <1>5, <1>6, <1>7, <1>8, <1>9 DEF Next, StopListening, RejectedListen

\* What ExecuteQuery leaves out of the first view is older than what the backend has.
LEMMA ListenMisses ==
  ASSUME FullInv, NEW q \in Queries, Listen(q),
         NEW k \in Matching(q, LocalView(cache, writes)) \ DOMAIN views'[q].docs
  PROVE  writes[k] = NoWrite /\ server[k].version > cache[k].version
<1> DEFINE local == LocalView(cache, writes)
           results == ExecuteQuery(q, cache, writes)
           ds == ComputeDocumentChanges(<<>>, results, local)
           v  == ApplyChanges(NewView, ds, FALSE, targets[q].keys, FALSE)
<1>1. views'[q] = v
  <2>1. views' = [views EXCEPT ![q] = v]
    BY DEF Listen
  <2> HIDE DEF v
  <2> QED BY <2>1 DEF FullInv, TablesInv, ViewsOK
<1>2. DOMAIN ds = results /\ results \subseteq Keys
  BY DEF ComputeDocumentChanges, ExecuteQuery, Matching
<1> HIDE DEF ds
<1>3. v.docs = ds
  <2>1. PICK c \in BOOLEAN : c = FALSE
    OBVIOUS
  <2>2. v = ApplyChanges(NewView, ds, c, targets[q].keys, c)
    BY <2>1
  <2> HIDE DEF v
  <2> QED BY <1>2, <2>1, <2>2, NewViewsAreViews, ApplyChangesEffect
<1> HIDE DEF v
<1>4. k \in Keys /\ q \in local[k].content /\ k \notin results
  BY <1>1, <1>2, <1>3 DEF Matching
<1>5. /\ k \notin targets[q].keys /\ ~(cache[k].readTime > targets[q].limboFree)
      /\ ~(writes[k].state # "none")
  BY <1>4 DEF ExecuteQuery, Matching
<1>6. local[k].content = cache[k].content
  BY <1>4, <1>5 DEF LocalView, Local
<1>7. /\ clock \in Nat
      /\ cache[k].version \in 0..clock /\ cache[k].readTime \in 0..clock
      /\ server[k].version \in 1..clock
      /\ targets[q].version \in 0..clock /\ targets[q].limboFree \in 0..clock
      /\ targets[q].limboFree <= targets[q].version
  BY <1>4 DEF FullInv, DataInv, Data
<1>8. /\ cache[k].version <= server[k].version /\ cache[k].version <= cache[k].readTime
      /\ cache[k].version = server[k].version => cache[k].content = server[k].content
      /\ writes[k].state = "none" => writes[k] = NoWrite
      /\ server[k].version <= targets[q].version =>
           (k \in targets[q].keys <=> q \in server[k].content)
  BY <1>4 DEF FullInv, DataInv, Data
<1> QED BY <1>4, <1>5, <1>6, <1>7, <1>8

\* QueryEngine and NotifyLocalViewChanges: reading only what the backend reported, what was read
\* since the limbo-free version and the overlays loses no document that is up to date.
THEOREM ListensMissOnlyStale == Spec => ListenMissesOnlyStale
<1>1. FullInv /\ [Next]_vars =>
        [\A q \in Queries : ~views[q].on /\ views'[q].on =>
           \A k \in Matching(q, LocalView(cache, writes)) \ DOMAIN views'[q].docs :
             writes[k] = NoWrite /\ server[k].version > cache[k].version]_vars
  <2> SUFFICES ASSUME FullInv, [Next]_vars, NEW q \in Queries, ~views[q].on, views'[q].on,
                      NEW k \in Matching(q, LocalView(cache, writes)) \ DOMAIN views'[q].docs
               PROVE  writes[k] = NoWrite /\ server[k].version > cache[k].version
    OBVIOUS
  <2>1. Listen(q)
    BY OnlyListenTurnsOn DEF FullInv, TablesInv
  <2> QED BY <2>1, ListenMisses
<1> QED BY <1>1, FullInvHolds, PTL DEF Spec, ListenMissesOnlyStale

=============================================================================
