---------------------------- MODULE OverlayProofs ----------------------------
(***************************************************************************)
(* Theorems about Overlays, for every set of fields, all settings and any  *)
(* number of batches, versions and answers: no overlay outlives the        *)
(* batches it includes; the saved mutation gives the view that a replay of *)
(* the pending batches gives; when nothing is pending and Watch has caught *)
(* up, reads give what the backend has; and while one client alone writes, *)
(* answers and Watch change nothing that the user reads.                   *)
(*                                                                         *)
(* A replay is a fold over the queue, of folds over the mutations of each  *)
(* batch: both are unrolled into traces, and what is proved of a replay    *)
(* are relations between the views of two documents that each step of the  *)
(* traces keeps.                                                           *)
(***************************************************************************)
EXTENDS Overlays, WellFoundedInduction, TLAPS

-----------------------------------------------------------------------------
(* No overlay outlives the batches it includes *)

\* The mutation queue is a sequence.
QueueIsSequence == \E S : queue \in Seq(S)

\* There is a batch for the backend's answer to be about.
AnsweredBatchIsPending == reply.state # "none" => queue # <<>>

IInv == QueueIsSequence /\ AnsweredBatchIsPending /\ OverlaysArePending

\* o belongs to a batch of q.
BelongsTo(o, q) == HasOverlay(o) => \E i \in DOMAIN q : q[i].id = o.batch

\* An overlay that Mutation::CalculateOverlayMutation finds is saved under the
\* batch it is computed for.
LEMMA CalculatedForBatch ==
  ASSUME NEW view, NEW id,
         HasOverlay(CalculateOverlayMutation(view, id))
  PROVE  CalculateOverlayMutation(view, id).batch = id
BY DEF HasOverlay, CalculateOverlayMutation

\* RecalculateAndSaveOverlays saves an overlay for a pending batch, or leaves one.
LEMMA RecalculatedBelongs ==
  ASSUME NEW o, NEW doc, NEW S, NEW q \in Seq(S), BelongsTo(o, q),
         RecalculateAndSaveOverlays(o, doc, q)
  PROVE  BelongsTo(overlay', q)
<1> DEFINE new == IF q = <<>> THEN NoOverlay ELSE Recalculated(doc, q)
<1>1. overlay' = IF HasOverlay(new) THEN new ELSE o
  BY DEF RecalculateAndSaveOverlays
<1>2. CASE ~HasOverlay(new)
  BY <1>1, <1>2
<1>3. CASE HasOverlay(new)
  <2>1. q # <<>>
    BY <1>3 DEF HasOverlay
  <2>2. new = CalculateOverlayMutation(Replayed(doc, q), Last(q).id)
    BY <2>1 DEF Recalculated
  <2>3. new.batch = Last(q).id
    BY <1>3, <2>2, CalculatedForBatch
  <2>4. Len(q) \in DOMAIN q /\ q[Len(q)].id = new.batch
    BY <2>1, <2>3 DEF Last
  <2> QED
    BY <1>1, <1>3, <2>4 DEF BelongsTo
<1> QED
  BY <1>2, <1>3

\* MemoryDocumentOverlayCache::RemoveOverlaysForBatchId: without the overlay of
\* the first batch, what is left belongs to the other batches.
LEMMA RemovedBelongs ==
  ASSUME NEW S, NEW q \in Seq(S), q # <<>>, NEW o, BelongsTo(o, q)
  PROVE  BelongsTo(RemoveOverlaysForBatchId(o, Head(q).id), Tail(q))
<1>1. CASE o.batch = Head(q).id
  BY <1>1 DEF RemoveOverlaysForBatchId, BelongsTo, HasOverlay
<1>2. CASE o.batch # Head(q).id
  <2>1. RemoveOverlaysForBatchId(o, Head(q).id) = o
    BY <1>2 DEF RemoveOverlaysForBatchId
  <2> SUFFICES ASSUME HasOverlay(o)
               PROVE  \E i \in DOMAIN Tail(q) : Tail(q)[i].id = o.batch
    BY <2>1 DEF BelongsTo
  <2>2. PICK i \in DOMAIN q : q[i].id = o.batch
    BY DEF BelongsTo
  <2>3. i # 1 /\ i \in 1..Len(q)
    BY <1>2, <2>2
  <2>4. i - 1 \in DOMAIN Tail(q) /\ Tail(q)[i - 1] = q[i]
    BY <2>3
  <2> QED
    BY <2>2, <2>4
<1> QED
  BY <1>1, <1>2

\* The three facts hold before the first write.
LEMMA InitInv == Init => IInv
<1> SUFFICES ASSUME Init PROVE IInv
  OBVIOUS
<1>1. queue \in Seq({})
  BY DEF Init
<1> QED
  BY <1>1 DEF Init, IInv, QueueIsSequence, AnsweredBatchIsPending,
              OverlaysArePending, HasOverlay, NoReply

\* LocalStore::WriteLocally: the new overlay is saved for the new batch, or the
\* old one stays with the batches it belongs to.
LEMMA WritePreserves ==
  ASSUME IInv, NEW mutations, WriteLocally(mutations)
  PROVE  IInv'
<1>1. PICK S : queue \in Seq(S)
  BY DEF IInv, QueueIsSequence
<1> DEFINE view  == Overlayed(remote, overlay)
           batch == [id |-> lastId + 1,
                     base |-> FlattenSeq([i \in DOMAIN mutations |->
                                ExtractTransformBaseValue(mutations[i], view.doc)]),
                     mutations |-> mutations]
           new   == CalculateOverlayMutation(ApplyBatch(batch, view), batch.id)
<1>2. /\ queue' = Append(queue, batch)
      /\ overlay' = IF HasOverlay(new) THEN new ELSE overlay
      /\ reply' = reply
  BY DEF WriteLocally
<1> HIDE DEF view
<1>3. batch.id = lastId + 1
  OBVIOUS
<1> HIDE DEF batch
<1>4. HasOverlay(new) => new.batch = batch.id
  BY CalculatedForBatch
<1> HIDE DEF new
<1>5. queue' \in Seq(S \cup {batch})
  BY <1>1, <1>2
<1>6. queue' # <<>> /\ DOMAIN queue' = 1..(Len(queue) + 1) /\ queue'[Len(queue) + 1] = batch
  BY <1>1, <1>2
<1>7. ASSUME NEW i \in DOMAIN queue
      PROVE  i \in DOMAIN queue' /\ queue'[i] = queue[i]
  BY <1>1, <1>2, <1>7
<1>8. OverlaysArePending'
  <2>1. CASE HasOverlay(new)
    <3>1. overlay' = new /\ queue'[Len(queue) + 1].id = new.batch
      BY <1>2, <1>4, <1>6, <2>1
    <3>2. Len(queue) + 1 \in DOMAIN queue'
      BY <1>1, <1>6
    <3> QED
      BY <3>1, <3>2 DEF OverlaysArePending
  <2>2. CASE ~HasOverlay(new)
    <3>1. overlay' = overlay
      BY <1>2, <2>2
    <3> QED
      BY <1>7, <3>1 DEF IInv, OverlaysArePending, HasOverlay
  <2> QED
    BY <2>1, <2>2
<1> QED
  BY <1>5, <1>6, <1>8 DEF IInv, QueueIsSequence, AnsweredBatchIsPending

\* LocalStore::AcknowledgeBatch and RejectBatch: the first batch goes, with the
\* overlay that was saved for it.
LEMMA RemovalPreserves ==
  ASSUME IInv, reply.state # "none", queue' = Tail(queue), reply' = NoReply,
         NEW doc,
         RecalculateAndSaveOverlays(
           RemoveOverlaysForBatchId(overlay, Head(queue).id), doc, queue')
  PROVE  IInv'
<1>1. PICK S : queue \in Seq(S)
  BY DEF IInv, QueueIsSequence
<1>2. queue # <<>>
  BY DEF IInv, AnsweredBatchIsPending
<1>3. queue' \in Seq(S)
  BY <1>1, <1>2
<1>4. BelongsTo(overlay, queue)
  BY DEF IInv, OverlaysArePending, BelongsTo
<1>5. BelongsTo(RemoveOverlaysForBatchId(overlay, Head(queue).id), queue')
  BY <1>1, <1>2, <1>4, RemovedBelongs
<1>6. BelongsTo(overlay', queue')
  BY <1>3, <1>5, RecalculatedBelongs
<1> QED
  BY <1>3, <1>6 DEF IInv, QueueIsSequence, AnsweredBatchIsPending,
                    OverlaysArePending, BelongsTo, HasOverlay, NoReply

\* LocalDocumentsView::ComputeViews saves an overlay for the last pending batch.
LEMMA RemoteEventPreserves ==
  ASSUME IInv, NEW v, ApplyRemoteEvent(v)
  PROVE  IInv'
<1>1. PICK S : queue \in Seq(S)
  BY DEF IInv, QueueIsSequence
<1>2. queue' = queue /\ reply' = reply
  BY DEF ApplyRemoteEvent
<1>3. BelongsTo(overlay, queue)
  BY DEF IInv, OverlaysArePending, BelongsTo
<1>4. \/ overlay' = overlay
      \/ \E doc : RecalculateAndSaveOverlays(overlay, doc, queue)
  BY DEF ApplyRemoteEvent
<1>5. BelongsTo(overlay', queue)
  BY <1>1, <1>3, <1>4, RecalculatedBelongs
<1> QED
  BY <1>2, <1>5 DEF IInv, QueueIsSequence, AnsweredBatchIsPending,
                    OverlaysArePending, BelongsTo, HasOverlay

\* The backend answers a batch that is pending, and changes no overlay.
LEMMA BackendPreserves ==
  ASSUME IInv, Commit \/ Refuse \/ \E doc \in setting.others : Change(doc)
  PROVE  IInv'
<1>1. queue' = queue /\ overlay' = overlay
  BY DEF Commit, Refuse, Change
<1>2. AnsweredBatchIsPending'
  BY <1>1 DEF IInv, AnsweredBatchIsPending, Commit, Refuse, Change
<1> QED
  BY <1>1, <1>2 DEF IInv, QueueIsSequence, OverlaysArePending, HasOverlay

\* Every step keeps the three facts.
LEMMA NextInv == IInv /\ [Next]_vars => IInv'
<1> SUFFICES ASSUME IInv, [Next]_vars PROVE IInv'
  OBVIOUS
<1>1. CASE \E mutations \in setting.writes : WriteLocally(mutations)
  BY <1>1, WritePreserves
<1>2. CASE \E v \in DOMAIN history : ApplyRemoteEvent(v)
  BY <1>2, RemoteEventPreserves
<1>3. CASE AcknowledgeBatch
  BY <1>3, RemovalPreserves DEF AcknowledgeBatch
<1>4. CASE RejectBatch
  BY <1>4, RemovalPreserves DEF RejectBatch
<1>5. CASE Commit \/ Refuse \/ \E doc \in setting.others : Change(doc)
  BY <1>5, BackendPreserves
<1>6. CASE UNCHANGED vars
  BY <1>6 DEF IInv, QueueIsSequence, AnsweredBatchIsPending, OverlaysArePending,
              HasOverlay, vars
<1> QED
  BY <1>1, <1>2, <1>3, <1>4, <1>5, <1>6 DEF Next

\* An overlay belongs to a batch that is pending: LocalStore removes, saves and
\* leaves overlays so that none outlives the last batch it includes.
THEOREM OverlaysStayPending == Spec => []OverlaysArePending
<1>1. Init => IInv
  BY InitInv
<1>2. IInv /\ [Next]_vars => IInv'
  BY NextInv
<1>3. IInv => OverlaysArePending
  BY DEF IInv
<1> QED
  BY <1>1, <1>2, <1>3, PTL DEF Spec

-----------------------------------------------------------------------------
(* Folds over sequences *)

\* Naturals are well-founded.
LEMMA LeastNat ==
  ASSUME NEW T, T \subseteq Nat, T # {}
  PROVE  \E n \in T : \A m \in T : ~(m < n)
<1>1. IsWellFoundedOn({ss \in Nat \X Nat : ss[1] < ss[2]}, Nat)
  BY NatLessThanWellFounded DEF OpToRel
<1>2. PICK n \in T : \A m \in T : ~(<<m, n>> \in {ss \in Nat \X Nat : ss[1] < ss[2]})
  BY <1>1, WFMin
<1> QED BY <1>2

\* What holds at 0, and at each number after one where it holds, holds up to n.
LEMMA Reaches ==
  ASSUME NEW n \in Nat, NEW G, 0 \in G, \A i \in 1..n : i - 1 \in G => i \in G
  PROVE  \A i \in 0..n : i \in G
<1> DEFINE Missing == {i \in 0..n : i \notin G}
<1> SUFFICES ASSUME Missing # {} PROVE FALSE
  OBVIOUS
<1>1. PICK i \in Missing : \A j \in Missing : ~(j < i)
  <2>1. Missing \subseteq Nat
    OBVIOUS
  <2> HIDE DEF Missing
  <2> QED BY <2>1, LeastNat
<1>2. i \in 1..n /\ i - 1 \in 0..n /\ i - 1 < i
  BY <1>1
<1>3. i - 1 \in G
  BY <1>1, <1>2
<1> QED BY <1>1, <1>2, <1>3

\* A part of 1..n that is not empty has a largest element.
LEMMA Largest ==
  ASSUME NEW n \in Nat, NEW s \in SUBSET (1..n), s # {}
  PROVE  Max(s) \in s /\ \A x \in s : x <= Max(s)
<1> DEFINE T == {n - x : x \in s}
<1>1. T \subseteq Nat /\ T # {}
  <2>1. \A x \in s : n - x \in Nat
    OBVIOUS
  <2> QED BY <2>1
<1> HIDE DEF T
<1>2. PICK t \in T : \A u \in T : ~(u < t)
  BY <1>1, LeastNat
<1>3. PICK x \in s : t = n - x
  BY <1>2 DEF T
<1>4. ASSUME NEW y \in s
      PROVE  x >= y
  <2>1. n - y \in T
    BY DEF T
  <2> QED BY <1>2, <1>3, <2>1
<1>5. \E m \in s : \A y \in s : m >= y
  BY <1>4
<1>6. Max(s) \in s /\ \A y \in s : Max(s) >= y
  BY <1>5 DEF Max
<1> QED BY <1>6

\* The largest element of the first i numbers is the last.
LEMMA LastOfFirst ==
  ASSUME NEW n \in Nat, NEW i \in 1..n
  PROVE  /\ 1..i \in SUBSET (1..n) /\ 1..i # {}
         /\ Max(1..i) = i /\ (1..i) \ {Max(1..i)} = 1..(i - 1)
<1>1. 1..i \in SUBSET (1..n) /\ i \in 1..i /\ 1..i # {}
  OBVIOUS
<1>2. Max(1..i) \in 1..i /\ i <= Max(1..i)
  BY <1>1, Largest
<1>3. Max(1..i) = i
  BY <1>2
<1> QED BY <1>1, <1>3

IsFold(h, op, base, n) ==
  \A s \in SUBSET (1..n) :
    h[s] = IF s = {} THEN base ELSE op[Max(s)][h[s \ {Max(s)}]]

\* A function of the parts of 1..n that takes the largest element last exists.
LEMMA FoldExists ==
  ASSUME NEW n \in Nat, NEW V, NEW base \in V, NEW op \in [1..n -> [V -> V]]
  PROVE  \E h \in [SUBSET (1..n) -> V] : IsFold(h, op, base, n)
<1> DEFINE G == {k \in 0..n : \E h \in [SUBSET (1..k) -> V] : IsFold(h, op, base, k)}
<1>1. 0 \in G
  <2> DEFINE h == [s \in SUBSET (1..0) |-> base]
  <2>1. h \in [SUBSET (1..0) -> V]
    OBVIOUS
  <2>2. \A s \in SUBSET (1..0) : s = {}
    OBVIOUS
  <2>3. IsFold(h, op, base, 0)
    BY <2>2 DEF IsFold
  <2> QED BY <2>1, <2>3
<1>2. ASSUME NEW k \in 1..n, k - 1 \in G
      PROVE  k \in G
  <2>1. PICK f \in [SUBSET (1..(k - 1)) -> V] : IsFold(f, op, base, k - 1)
    BY <1>2
  <2> DEFINE h == [s \in SUBSET (1..k) |->
                     IF k \in s THEN op[k][f[s \ {k}]] ELSE f[s]]
  <2>2. ASSUME NEW s \in SUBSET (1..k)
        PROVE  /\ k \in s => s \ {k} \in SUBSET (1..(k - 1))
               /\ k \notin s => s \in SUBSET (1..(k - 1))
    <3>1. \A x \in 1..k : x # k => x \in 1..(k - 1)
      OBVIOUS
    <3> QED BY <3>1
  <2>3. h \in [SUBSET (1..k) -> V]
    <3>1. ASSUME NEW s \in SUBSET (1..k)
          PROVE  h[s] \in V
      <4>1. CASE k \in s
        <5>1. f[s \ {k}] \in V
          BY <2>2, <4>1
        <5>2. op[k] \in [V -> V]
          OBVIOUS
        <5> QED BY <4>1, <5>1, <5>2
      <4>2. CASE k \notin s
        BY <2>2, <4>2
      <4> QED BY <4>1, <4>2
    <3> QED BY <3>1
  <2>4. IsFold(h, op, base, k)
    <3> SUFFICES ASSUME NEW s \in SUBSET (1..k)
                 PROVE  h[s] = IF s = {} THEN base ELSE op[Max(s)][h[s \ {Max(s)}]]
      BY DEF IsFold
    <3>1. CASE k \in s
      <4>1. Max(s) = k
        <5>1. k \in Nat
          OBVIOUS
        <5>2. Max(s) \in s /\ k <= Max(s)
          BY <3>1, <5>1, Largest
        <5>3. Max(s) \in 1..k
          BY <5>2
        <5> HIDE DEF h
        <5> QED BY <5>2, <5>3
      <4>2. s \ {k} \in SUBSET (1..k) /\ k \notin s \ {k}
        OBVIOUS
      <4>3. h[s \ {k}] = f[s \ {k}]
        BY <4>2
      <4> QED BY <3>1, <4>1, <4>3
    <3>2. CASE k \notin s
      <4>1. s \in SUBSET (1..(k - 1))
        BY <2>2, <3>2
      <4>2. f[s] = IF s = {} THEN base ELSE op[Max(s)][f[s \ {Max(s)}]]
        BY <2>1, <4>1 DEF IsFold
      <4>3. h[s \ {Max(s)}] = f[s \ {Max(s)}]
        BY <3>2
      <4> QED BY <3>2, <4>2, <4>3
    <3> QED BY <3>1, <3>2
  <2> HIDE DEF h
  <2> QED BY <2>3, <2>4
<1>3. n \in G
  <2> HIDE DEF G
  <2>1. \A i \in 0..n : i \in G
    BY <1>1, <1>2, Reaches
  <2> QED BY <2>1
<1> QED BY <1>3

\* The values after each element of a sequence.
Trace(g, op, base, seq) ==
  g[0] = base /\ \A i \in 1..Len(seq) : g[i] = op[seq[i]][g[i - 1]]

\* Two traces from the same value are the same.
LEMMA TracesAgree ==
  ASSUME NEW S, NEW seq \in Seq(S), NEW op, NEW base, NEW f, NEW g,
         Trace(f, op, base, seq), Trace(g, op, base, seq)
  PROVE  \A i \in 0..Len(seq) : f[i] = g[i]
<1> DEFINE G == {i \in 0..Len(seq) : f[i] = g[i]}
<1>1. Len(seq) \in Nat /\ 0 \in G
  BY DEF Trace
<1>2. \A i \in 1..Len(seq) : i - 1 \in G => i \in G
  BY DEF Trace
<1>3. \A i \in 0..Len(seq) : i \in G
  <2> HIDE DEF G
  <2> QED BY <1>1, <1>2, Reaches
<1> QED BY <1>3

TakesEach(iter, op, V, n) ==
  \A i \in 1..n : iter[1..(i - 1)] \in V => iter[1..i] = op[i][iter[1..(i - 1)]]

EndsAs(r, op, base, V, n) ==
  \E g \in [0..n -> V] :
    /\ g[0] = base /\ \A i \in 1..n : g[i] = op[i][g[i - 1]]
    /\ r = g[n]

\* The values of a fold on the first 0, 1, ... n elements are a trace.
LEMMA PartsGiveTrace ==
  ASSUME NEW n \in Nat, NEW V, NEW base \in V, NEW op \in [1..n -> [V -> V]],
         NEW iter, iter[{}] = base, TakesEach(iter, op, V, n)
  PROVE  EndsAs(iter[1..n], op, base, V, n)
<1> DEFINE G == {i \in 0..n : iter[1..i] \in V}
           g == [i \in 0..n |-> iter[1..i]]
<1>1. 1..0 = {} /\ 0 \in G
  OBVIOUS
<1>2. ASSUME NEW i \in 1..n, i - 1 \in G
      PROVE  i \in G
  <2>1. iter[1..i] = op[i][iter[1..(i - 1)]] /\ op[i] \in [V -> V]
    BY <1>2 DEF TakesEach
  <2> QED BY <1>2, <2>1
<1>3. \A i \in 0..n : i \in G
  <2> HIDE DEF G
  <2> QED BY <1>1, <1>2, Reaches
<1>4. g \in [0..n -> V] /\ g[0] = base /\ iter[1..n] = g[n]
  BY <1>1, <1>3
<1>5. ASSUME NEW i \in 1..n
      PROVE  g[i] = op[i][g[i - 1]]
  <2>1. i \in 0..n /\ i - 1 \in 0..n
    OBVIOUS
  <2> QED BY <1>3, <2>1 DEF TakesEach
<1> QED BY <1>4, <1>5 DEF EndsAs

-----------------------------------------------------------------------------
(* Documents, views and batches *)

\* MutableDocument: a document that does not exist has no fields.
Docs ==
  {d \in [type : Types, data : Data, version : Nat, state : States] :
     d.type # "found" => d.data = NoData}

Masks == {k \in [full : BOOLEAN, fields : SUBSET Fields] : k.full => k.fields = {}}
Views == [doc : Docs, mask : Masks]

\* The base of each field that a batch increments comes first.
HasBase(b, m) == m.inc = {} \/ \E k \in DOMAIN b.base : m.inc \subseteq b.base[k].mask

Batches ==
  {b \in [id : Nat \ {0}, base : Seq(Mutations), mutations : Seq(Mutations)] :
     /\ b.mutations # <<>>
     /\ \A k \in DOMAIN b.base :
          b.base[k].type = "patch" /\ b.base[k].inc = {} /\ b.base[k].mustExist
     /\ \A i \in DOMAIN b.mutations : HasBase(b, b.mutations[i])}

\* The mutations that a batch makes of the local view.
Steps(b) == b.base \o b.mutations

LocalStep == [m \in Mutations |-> [v \in Views |-> ApplyToLocalView(m, v)]]

\* The fields of a patched document.
LEMMA PatchedData ==
  ASSUME NEW m \in Mutations, NEW data \in Data
  PROVE  Patched(m, data) \in Data
BY DEF Patched, Mutations, Data

\* A mutation of a view gives a view.
LEMMA ApplyKeepsViews ==
  ASSUME NEW m \in Mutations, NEW v \in Views
  PROVE  ApplyToLocalView(m, v) \in Views
<1>1. /\ v.doc \in Docs /\ v.mask \in Masks /\ v.doc.data \in Data
      /\ Patched(m, v.doc.data) \in Data /\ m.data \in Data
  BY PatchedData DEF Views, Docs, Mutations
<1>2. Document("found", Patched(m, v.doc.data), 0, "local") \in Docs
  BY <1>1 DEF Document, Docs, Types, States
<1>3. m.type # "patch" =>
        Document(IF m.type = "set" THEN "found" ELSE "none", m.data, 0, "local") \in Docs
  BY <1>1 DEF Document, Docs, Types, States, Mutations
<1>4. NoMask \in Masks /\ Mask(v.mask.fields \cup m.mask \cup m.inc) \in Masks
  BY <1>1 DEF Masks, NoMask, Mask, Mutations
<1> QED BY <1>1, <1>2, <1>3, <1>4 DEF ApplyToLocalView, Views

\* MutationBatch::ApplyToLocalView: the view after each mutation of a batch.
LEMMA BatchTrace ==
  ASSUME NEW b \in Batches, NEW w \in Views
  PROVE  \E g \in [0..Len(Steps(b)) -> Views] :
           /\ Trace(g, LocalStep, w, Steps(b))
           /\ ApplyBatch(b, w) = g[Len(Steps(b))]
<1> DEFINE n    == Len(Steps(b))
           op   == [i \in 1..n |-> LocalStep[Steps(b)[i]]]
           F(h) == [s \in SUBSET DOMAIN Steps(b) |->
                      IF s = {} THEN w
                      ELSE ApplyToLocalView(Steps(b)[Max(s)], h[s \ {Max(s)}])]
           iter == CHOOSE h : h = F(h)
<1>1. /\ n \in Nat /\ DOMAIN Steps(b) = 1..n /\ \A i \in 1..n : Steps(b)[i] \in Mutations
      /\ w \in Views
  BY DEF Batches, Steps
<1>2. \A m \in Mutations, v \in Views :
        /\ LocalStep[m][v] = ApplyToLocalView(m, v)
        /\ ApplyToLocalView(m, v) \in Views
  BY ApplyKeepsViews DEF LocalStep
<1>3. op \in [1..n -> [Views -> Views]]
  <2>1. ASSUME NEW m \in Mutations
        PROVE  LocalStep[m] \in [Views -> Views]
    BY ApplyKeepsViews DEF LocalStep
  <2> QED BY <1>1, <2>1
<1>4. ApplyBatch(b, w) = iter[DOMAIN Steps(b)]
  BY DEF ApplyBatch, Steps, FoldLeft, MapThenFoldSet
<1>5. PICK h \in [SUBSET (1..n) -> Views] : IsFold(h, op, w, n)
  <2> HIDE DEF n, op
  <2> QED BY <1>1, <1>3, FoldExists
<1>6. h = F(h)
  <2>1. ASSUME NEW s \in SUBSET (1..n), s # {}
        PROVE  h[s] = ApplyToLocalView(Steps(b)[Max(s)], h[s \ {Max(s)}])
    <3>1. Max(s) \in 1..n /\ s \ {Max(s)} \in SUBSET (1..n)
      <4> HIDE DEF n
      <4> QED BY <1>1, <2>1, Largest
    <3>2. h[s] = op[Max(s)][h[s \ {Max(s)}]]
      BY <1>5, <2>1 DEF IsFold
    <3>3. h[s \ {Max(s)}] \in Views /\ Steps(b)[Max(s)] \in Mutations
      BY <1>1, <3>1
    <3> QED BY <1>2, <3>1, <3>2, <3>3
  <2>2. h[{}] = w
    BY <1>5 DEF IsFold
  <2>3. \A s \in SUBSET (1..n) : h[s] = F(h)[s]
    BY <1>1, <2>1, <2>2
  <2> QED BY <1>1, <2>3
<1>7. iter = F(iter)
  BY <1>6
<1>8. iter[{}] = w
  BY <1>7
<1>9. ASSUME NEW i \in 1..n, iter[1..(i - 1)] \in Views
      PROVE  iter[1..i] = op[i][iter[1..(i - 1)]]
  <2>1. /\ 1..i \in SUBSET (1..n) /\ 1..i # {}
        /\ Max(1..i) = i /\ (1..i) \ {Max(1..i)} = 1..(i - 1)
    <3> HIDE DEF n
    <3> QED BY <1>1, LastOfFirst
  <2>2. iter[1..i] = ApplyToLocalView(Steps(b)[i], iter[1..(i - 1)])
    BY <1>1, <1>7, <2>1
  <2>3. Steps(b)[i] \in Mutations
    BY <1>1
  <2> QED BY <1>2, <1>9, <2>2, <2>3
<1>10. TakesEach(iter, op, Views, n)
  BY <1>9 DEF TakesEach
<1>11. EndsAs(iter[1..n], op, w, Views, n)
  <2> HIDE DEF n, op, iter
  <2> QED BY <1>1, <1>3, <1>8, <1>10, PartsGiveTrace
<1>12. ASSUME NEW g \in [0..n -> Views], g[0] = w,
              \A i \in 1..n : g[i] = op[i][g[i - 1]]
       PROVE  Trace(g, LocalStep, w, Steps(b))
  BY <1>12 DEF Trace
<1> QED BY <1>1, <1>4, <1>11, <1>12 DEF EndsAs

\* A batch makes a view of a view.
LEMMA BatchKeepsViews ==
  ASSUME NEW b \in Batches, NEW v \in Views
  PROVE  ApplyBatch(b, v) \in Views
<1>1. Steps(b) \in Seq(Mutations)
  BY DEF Batches, Steps
<1> QED BY <1>1, BatchTrace

BatchStep == [b \in Batches |-> [v \in Views |-> ApplyBatch(b, v)]]

\* The view of a document without local mutations.
Unmodified(d) == [doc |-> d, mask |-> Mask({})]

LEMMA UnmodifiedIsView ==
  ASSUME NEW d \in Docs
  PROVE  Unmodified(d) \in Views
BY DEF Unmodified, Views, Masks, Mask

\* A replay of the queue: the view after each batch.
LEMMA QueueTrace ==
  ASSUME NEW q \in Seq(Batches), NEW d \in Docs
  PROVE  \E g \in [0..Len(q) -> Views] :
           /\ Trace(g, BatchStep, Unmodified(d), q)
           /\ Replayed(d, q) = g[Len(q)]
<1> DEFINE n    == Len(q)
           op   == [i \in 1..n |-> BatchStep[q[i]]]
           F(h) == [s \in SUBSET DOMAIN q |->
                      IF s = {} THEN Unmodified(d)
                      ELSE ApplyBatch(q[Max(s)], h[s \ {Max(s)}])]
           iter == CHOOSE h : h = F(h)
<1>1. /\ n \in Nat /\ DOMAIN q = 1..n /\ \A i \in 1..n : q[i] \in Batches
      /\ Unmodified(d) \in Views
  BY UnmodifiedIsView
<1>2. \A m \in Batches, v \in Views :
        /\ BatchStep[m][v] = ApplyBatch(m, v)
        /\ ApplyBatch(m, v) \in Views
  BY BatchKeepsViews DEF BatchStep
<1>3. op \in [1..n -> [Views -> Views]]
  <2>1. ASSUME NEW m \in Batches
        PROVE  BatchStep[m] \in [Views -> Views]
    BY BatchKeepsViews DEF BatchStep
  <2> QED BY <1>1, <2>1
<1>4. Replayed(d, q) = iter[DOMAIN q]
  BY DEF Replayed, Unmodified, FoldLeft, MapThenFoldSet
<1>5. PICK h \in [SUBSET (1..n) -> Views] : IsFold(h, op, Unmodified(d), n)
  <2> HIDE DEF n, op
  <2> QED BY <1>1, <1>3, FoldExists
<1>6. h = F(h)
  <2>1. ASSUME NEW s \in SUBSET (1..n), s # {}
        PROVE  h[s] = ApplyBatch(q[Max(s)], h[s \ {Max(s)}])
    <3>1. Max(s) \in 1..n /\ s \ {Max(s)} \in SUBSET (1..n)
      <4> HIDE DEF n
      <4> QED BY <1>1, <2>1, Largest
    <3>2. h[s] = op[Max(s)][h[s \ {Max(s)}]]
      BY <1>5, <2>1 DEF IsFold
    <3>3. h[s \ {Max(s)}] \in Views /\ q[Max(s)] \in Batches
      BY <1>1, <3>1
    <3> QED BY <1>2, <3>1, <3>2, <3>3
  <2>2. h[{}] = Unmodified(d)
    BY <1>5 DEF IsFold
  <2>3. \A s \in SUBSET (1..n) : h[s] = F(h)[s]
    BY <1>1, <2>1, <2>2
  <2> QED BY <1>1, <2>3
<1>7. iter = F(iter)
  BY <1>6
<1>8. iter[{}] = Unmodified(d)
  BY <1>7
<1>9. ASSUME NEW i \in 1..n, iter[1..(i - 1)] \in Views
      PROVE  iter[1..i] = op[i][iter[1..(i - 1)]]
  <2>1. /\ 1..i \in SUBSET (1..n) /\ 1..i # {}
        /\ Max(1..i) = i /\ (1..i) \ {Max(1..i)} = 1..(i - 1)
    <3> HIDE DEF n
    <3> QED BY <1>1, LastOfFirst
  <2>2. iter[1..i] = ApplyBatch(q[i], iter[1..(i - 1)])
    BY <1>1, <1>7, <2>1
  <2>3. q[i] \in Batches
    BY <1>1
  <2> QED BY <1>2, <1>9, <2>2, <2>3
<1>10. TakesEach(iter, op, Views, n)
  BY <1>9 DEF TakesEach
<1>11. EndsAs(iter[1..n], op, Unmodified(d), Views, n)
  <2> HIDE DEF n, op, iter
  <2> QED BY <1>1, <1>3, <1>8, <1>10, PartsGiveTrace
<1>12. ASSUME NEW g \in [0..n -> Views], g[0] = Unmodified(d),
              \A i \in 1..n : g[i] = op[i][g[i - 1]]
       PROVE  Trace(g, BatchStep, Unmodified(d), q)
  BY <1>12 DEF Trace
<1> QED BY <1>1, <1>4, <1>11, <1>12 DEF EndsAs

\* A document after none or some of the mutations that an answer acknowledges.
Answered(d, answer) ==
  {d} \cup {e \in Docs : e.state = "committed" /\ e.version = answer.version}

Answers == [state : {"none", "acknowledged", "refused"}, version : Nat, data : Data]

RemoteStep(d, answer) ==
  [m \in Mutations |-> [e \in Answered(d, answer) |-> ApplyToRemoteDocument(m, e, answer)]]

\* An acknowledged mutation makes a document of the version of the answer.
LEMMA RemoteKeeps ==
  ASSUME NEW answer \in Answers, NEW d \in Docs, NEW m \in Mutations,
         NEW e \in Answered(d, answer)
  PROVE  ApplyToRemoteDocument(m, e, answer) \in Answered(d, answer)
<1>1. /\ e \in Docs /\ e.data \in Data /\ Patched(m, e.data) \in Data /\ m.data \in Data
      /\ answer.data \in Data /\ answer.version \in Nat /\ NoData \in Data
  BY PatchedData DEF Answered, Docs, Mutations, Answers, Data, NoData
<1>2. [f \in Fields |-> IF f \in m.inc THEN answer.data[f] ELSE Patched(m, e.data)[f]] \in Data
  BY <1>1 DEF Data
<1>3. CASE m.type = "patch"
  BY <1>1, <1>2, <1>3
     DEF ApplyToRemoteDocument, Document, Answered, Docs, Types, States
<1>4. CASE m.type # "patch"
  BY <1>1, <1>4
     DEF ApplyToRemoteDocument, Document, Answered, Docs, Types, States, Mutations
<1> QED BY <1>3, <1>4

\* The document after each mutation that an answer acknowledges.
LEMMA RemoteTrace ==
  ASSUME NEW b \in Batches, NEW answer \in Answers, NEW d \in Docs,
         d.version < answer.version
  PROVE  \E g \in [0..Len(b.mutations) -> Answered(d, answer)] :
           /\ Trace(g, RemoteStep(d, answer), d, b.mutations)
           /\ ApplyBatchResult(d, b, answer) = g[Len(b.mutations)]
<1> DEFINE n    == Len(b.mutations)
           op   == [i \in 1..n |-> RemoteStep(d, answer)[b.mutations[i]]]
           F(h) == [s \in SUBSET DOMAIN b.mutations |->
                      IF s = {} THEN d
                      ELSE ApplyToRemoteDocument(b.mutations[Max(s)], h[s \ {Max(s)}], answer)]
           iter == CHOOSE h : h = F(h)
<1>1. /\ n \in Nat /\ DOMAIN b.mutations = 1..n /\ \A i \in 1..n : b.mutations[i] \in Mutations
      /\ d \in Answered(d, answer)
  BY DEF Batches, Answered
<1>2. \A m \in Mutations, v \in Answered(d, answer) :
        /\ RemoteStep(d, answer)[m][v] = ApplyToRemoteDocument(m, v, answer)
        /\ ApplyToRemoteDocument(m, v, answer) \in Answered(d, answer)
  BY RemoteKeeps DEF RemoteStep
<1>3. op \in [1..n -> [Answered(d, answer) -> Answered(d, answer)]]
  <2>1. ASSUME NEW m \in Mutations
        PROVE  RemoteStep(d, answer)[m] \in [Answered(d, answer) -> Answered(d, answer)]
    BY RemoteKeeps DEF RemoteStep
  <2> QED BY <1>1, <2>1
<1>4. ApplyBatchResult(d, b, answer) = iter[DOMAIN b.mutations]
  BY DEF ApplyBatchResult, FoldLeft, MapThenFoldSet
<1>5. PICK h \in [SUBSET (1..n) -> Answered(d, answer)] : IsFold(h, op, d, n)
  <2> HIDE DEF n, op
  <2> QED BY <1>1, <1>3, FoldExists
<1>6. h = F(h)
  <2>1. ASSUME NEW s \in SUBSET (1..n), s # {}
        PROVE  h[s] = ApplyToRemoteDocument(b.mutations[Max(s)], h[s \ {Max(s)}], answer)
    <3>1. Max(s) \in 1..n /\ s \ {Max(s)} \in SUBSET (1..n)
      <4> HIDE DEF n
      <4> QED BY <1>1, <2>1, Largest
    <3>2. h[s] = op[Max(s)][h[s \ {Max(s)}]]
      BY <1>5, <2>1 DEF IsFold
    <3>3. h[s \ {Max(s)}] \in Answered(d, answer) /\ b.mutations[Max(s)] \in Mutations
      BY <1>1, <3>1
    <3> QED BY <1>2, <3>1, <3>2, <3>3
  <2>2. h[{}] = d
    BY <1>5 DEF IsFold
  <2>3. \A s \in SUBSET (1..n) : h[s] = F(h)[s]
    BY <1>1, <2>1, <2>2
  <2> QED BY <1>1, <2>3
<1>7. iter = F(iter)
  BY <1>6
<1>8. iter[{}] = d
  BY <1>7
<1>9. ASSUME NEW i \in 1..n, iter[1..(i - 1)] \in Answered(d, answer)
      PROVE  iter[1..i] = op[i][iter[1..(i - 1)]]
  <2>1. /\ 1..i \in SUBSET (1..n) /\ 1..i # {}
        /\ Max(1..i) = i /\ (1..i) \ {Max(1..i)} = 1..(i - 1)
    <3> HIDE DEF n
    <3> QED BY <1>1, LastOfFirst
  <2>2. iter[1..i] = ApplyToRemoteDocument(b.mutations[i], iter[1..(i - 1)], answer)
    BY <1>1, <1>7, <2>1
  <2>3. b.mutations[i] \in Mutations
    BY <1>1
  <2> QED BY <1>2, <1>9, <2>2, <2>3
<1>10. TakesEach(iter, op, Answered(d, answer), n)
  BY <1>9 DEF TakesEach
<1>11. EndsAs(iter[1..n], op, d, Answered(d, answer), n)
  <2> HIDE DEF n, op, iter
  <2> QED BY <1>1, <1>3, <1>8, <1>10, PartsGiveTrace
<1>12. ASSUME NEW g \in [0..n -> Answered(d, answer)], g[0] = d,
              \A i \in 1..n : g[i] = op[i][g[i - 1]]
       PROVE  Trace(g, RemoteStep(d, answer), d, b.mutations)
  BY <1>12 DEF Trace
<1> QED BY <1>1, <1>4, <1>11, <1>12 DEF EndsAs

\* LocalStore::ApplyBatchResult: the document stays, or is one that the answer's
\* version committed.
LEMMA ResultIsAnswered ==
  ASSUME NEW b \in Batches, NEW d \in Docs, NEW answer \in Answers
  PROVE  /\ ApplyBatchResult(d, b, answer) \in Answered(d, answer)
         /\ d.version >= answer.version => ApplyBatchResult(d, b, answer) = d
<1>1. d.version \in Nat /\ answer.version \in Nat
  BY DEF Docs, Answers
<1>2. d \in Answered(d, answer)
  BY DEF Answered
<1>3. CASE d.version < answer.version
  <2>1. Len(b.mutations) \in 0..Len(b.mutations)
    BY DEF Batches
  <2> QED BY <1>1, <1>3, <2>1, RemoteTrace
<1>4. CASE ~(d.version < answer.version)
  BY <1>1, <1>2, <1>4 DEF ApplyBatchResult
<1> QED BY <1>1, <1>3, <1>4

-----------------------------------------------------------------------------
(* The backend's outcome of a batch *)

Outcomes ==
  {r \in [ok : BOOLEAN, type : {"found", "none"}, data : Data] :
     r.type = "none" => r.data = NoData}

CommitOne(r, m) ==
  IF r.ok /\ IsValidFor(m, r)
  THEN [ok   |-> TRUE,
        type |-> IF m.type = "delete" THEN "none" ELSE "found",
        data |-> IF m.type = "patch" THEN Patched(m, r.data) ELSE m.data]
  ELSE [r EXCEPT !.ok = FALSE]

\* The current version, before the first mutation of a batch.
NotCommitted == [ok |-> TRUE, type |-> Current.type, data |-> Current.data]

CommitStep == [m \in Mutations |-> [r \in Outcomes |-> CommitOne(r, m)]]

LEMMA CommitKeeps ==
  ASSUME NEW r \in Outcomes, NEW m \in Mutations
  PROVE  CommitOne(r, m) \in Outcomes
<1>1. r.data \in Data /\ Patched(m, r.data) \in Data /\ m.data \in Data
  BY PatchedData DEF Outcomes, Mutations
<1>2. CASE r.ok /\ IsValidFor(m, r)
  BY <1>1, <1>2 DEF CommitOne, Outcomes, Mutations
<1>3. CASE ~(r.ok /\ IsValidFor(m, r))
  BY <1>3 DEF CommitOne, Outcomes
<1> QED BY <1>2, <1>3

\* The outcome after each mutation of a batch.
LEMMA CommitTrace ==
  ASSUME NEW b \in Batches, Current \in Versions
  PROVE  \E g \in [0..Len(b.mutations) -> Outcomes] :
           /\ Trace(g, CommitStep, NotCommitted, b.mutations)
           /\ Committed(b) = g[Len(b.mutations)]
<1> DEFINE n    == Len(b.mutations)
           op   == [i \in 1..n |-> CommitStep[b.mutations[i]]]
           F(h) == [s \in SUBSET DOMAIN b.mutations |->
                      IF s = {} THEN NotCommitted
                      ELSE CommitOne(h[s \ {Max(s)}], b.mutations[Max(s)])]
           iter == CHOOSE h : h = F(h)
<1>1. /\ n \in Nat /\ DOMAIN b.mutations = 1..n /\ \A i \in 1..n : b.mutations[i] \in Mutations
      /\ NotCommitted \in Outcomes
  BY DEF Batches, Outcomes, Versions, NotCommitted
<1>2. \A m \in Mutations, v \in Outcomes :
        /\ CommitStep[m][v] = CommitOne(v, m)
        /\ CommitOne(v, m) \in Outcomes
  BY CommitKeeps DEF CommitStep
<1>3. op \in [1..n -> [Outcomes -> Outcomes]]
  <2>1. ASSUME NEW m \in Mutations
        PROVE  CommitStep[m] \in [Outcomes -> Outcomes]
    BY CommitKeeps DEF CommitStep
  <2> QED BY <1>1, <2>1
<1>4. Committed(b) = iter[DOMAIN b.mutations]
  BY DEF Committed, CommitOne, NotCommitted, FoldLeft, MapThenFoldSet
<1>5. PICK h \in [SUBSET (1..n) -> Outcomes] : IsFold(h, op, NotCommitted, n)
  <2> HIDE DEF n, op
  <2> QED BY <1>1, <1>3, FoldExists
<1>6. h = F(h)
  <2>1. ASSUME NEW s \in SUBSET (1..n), s # {}
        PROVE  h[s] = CommitOne(h[s \ {Max(s)}], b.mutations[Max(s)])
    <3>1. Max(s) \in 1..n /\ s \ {Max(s)} \in SUBSET (1..n)
      <4> HIDE DEF n
      <4> QED BY <1>1, <2>1, Largest
    <3>2. h[s] = op[Max(s)][h[s \ {Max(s)}]]
      BY <1>5, <2>1 DEF IsFold
    <3>3. h[s \ {Max(s)}] \in Outcomes /\ b.mutations[Max(s)] \in Mutations
      BY <1>1, <3>1
    <3> QED BY <1>2, <3>1, <3>2, <3>3
  <2>2. h[{}] = NotCommitted
    BY <1>5 DEF IsFold
  <2>3. \A s \in SUBSET (1..n) : h[s] = F(h)[s]
    BY <1>1, <2>1, <2>2
  <2> QED BY <1>1, <2>3
<1>7. iter = F(iter)
  BY <1>6
<1>8. iter[{}] = NotCommitted
  BY <1>7
<1>9. ASSUME NEW i \in 1..n, iter[1..(i - 1)] \in Outcomes
      PROVE  iter[1..i] = op[i][iter[1..(i - 1)]]
  <2>1. /\ 1..i \in SUBSET (1..n) /\ 1..i # {}
        /\ Max(1..i) = i /\ (1..i) \ {Max(1..i)} = 1..(i - 1)
    <3> HIDE DEF n
    <3> QED BY <1>1, LastOfFirst
  <2>2. iter[1..i] = CommitOne(iter[1..(i - 1)], b.mutations[i])
    BY <1>1, <1>7, <2>1
  <2>3. b.mutations[i] \in Mutations
    BY <1>1
  <2> QED BY <1>2, <1>9, <2>2, <2>3
<1>10. TakesEach(iter, op, Outcomes, n)
  BY <1>9 DEF TakesEach
<1>11. EndsAs(iter[1..n], op, NotCommitted, Outcomes, n)
  <2> HIDE DEF n, op, iter
  <2> QED BY <1>1, <1>3, <1>8, <1>10, PartsGiveTrace
<1>12. ASSUME NEW g \in [0..n -> Outcomes], g[0] = NotCommitted,
              \A i \in 1..n : g[i] = op[i][g[i - 1]]
       PROVE  Trace(g, CommitStep, NotCommitted, b.mutations)
  BY <1>12 DEF Trace
<1> QED BY <1>1, <1>4, <1>11, <1>12 DEF EndsAs

\* A batch has an outcome.
LEMMA CommittedIsOutcome ==
  ASSUME NEW b \in Batches, Current \in Versions
  PROVE  Committed(b) \in Outcomes
<1>1. Len(b.mutations) \in 0..Len(b.mutations)
  BY DEF Batches
<1> QED BY <1>1, CommitTrace

-----------------------------------------------------------------------------
(* The batch of a write *)

\* s holds the elements of the first i of the sequences.
Holds(s, seqs, i, M) ==
  /\ s \in Seq(M)
  /\ \A x \in 1..i : \A j \in DOMAIN seqs[x] : \E k \in DOMAIN s : s[k] = seqs[x][j]

\* FlattenSeq is a sequence of the elements of all the sequences.
LEMMA Flattened ==
  ASSUME NEW M, NEW seqs \in Seq(Seq(M))
  PROVE  Holds(FlattenSeq(seqs), seqs, Len(seqs), M)
<1> DEFINE n       == Len(seqs)
           op      == [i \in 1..n |-> [s \in Seq(M) |-> s \o seqs[i]]]
           F(f)    == [i \in 1..n |-> IF i = 1 THEN seqs[i] ELSE f[i - 1] \o seqs[i]]
           flatten == CHOOSE f : f = F(f)
<1>1. /\ n \in Nat /\ \A i \in 1..n : seqs[i] \in Seq(M)
      /\ <<>> \in Seq(M)
  OBVIOUS
<1>2. CASE n = 0
  <2>1. FlattenSeq(seqs) = <<>> /\ 1..0 = {}
    BY <1>2 DEF FlattenSeq
  <2> QED BY <1>1, <1>2, <2>1 DEF Holds
<1>3. CASE n # 0
  <2>1. FlattenSeq(seqs) = flatten[n]
    BY <1>3 DEF FlattenSeq
  <2>2. op \in [1..n -> [Seq(M) -> Seq(M)]]
    BY <1>1
  <2>3. PICK h \in [SUBSET (1..n) -> Seq(M)] : IsFold(h, op, <<>>, n)
    <3> HIDE DEF n, op
    <3> QED BY <1>1, <2>2, FoldExists
  <2> DEFINE f == [i \in 1..n |-> h[1..i]]
  <2>4. ASSUME NEW i \in 1..n
        PROVE  f[i] = F(f)[i]
    <3>1. /\ 1..i \in SUBSET (1..n) /\ 1..i # {}
          /\ Max(1..i) = i /\ (1..i) \ {Max(1..i)} = 1..(i - 1)
      <4> HIDE DEF n
      <4> QED BY <1>1, LastOfFirst
    <3>2. h[1..i] = op[i][h[1..(i - 1)]]
      BY <2>3, <3>1 DEF IsFold
    <3>3. 1..(i - 1) \in SUBSET (1..n) /\ h[1..(i - 1)] \in Seq(M)
      <4> HIDE DEF n, F, op, f
      <4>1. 1..(i - 1) \in SUBSET (1..n)
        BY <1>1
      <4> QED BY <4>1
    <3>4. h[1..i] = h[1..(i - 1)] \o seqs[i]
      BY <3>2, <3>3
    <3>5. CASE i = 1
      <4>1. h[{}] = <<>>
        <5> HIDE DEF n, F, op, f
        <5> QED BY <2>3 DEF IsFold
      <4>2. i - 1 = 0 /\ 1..0 = {}
        BY <3>5
      <4>3. h[1..1] = <<>> \o seqs[1]
        <5> HIDE DEF n, F, op, f
        <5> QED BY <3>4, <3>5, <4>1, <4>2
      <4> QED BY <1>1, <3>5, <4>3
    <3>6. CASE i # 1
      <4>1. i - 1 \in 1..n
        BY <3>6
      <4> QED BY <3>4, <3>6, <4>1
    <3> QED BY <3>5, <3>6
  <2>5. f = F(f)
    BY <2>4
  <2>6. flatten = F(flatten)
    <3> HIDE DEF f
    <3> QED BY <2>5
  <2> HIDE DEF flatten
  <2>7. /\ flatten[1] = seqs[1]
        /\ \A i \in 2..n : flatten[i] = flatten[i - 1] \o seqs[i]
    <3>1. 1 \in 1..n /\ \A i \in 2..n : i \in 1..n /\ i # 1
      <4> HIDE DEF n
      <4> QED BY <1>1, <1>3
    <3> QED BY <2>6, <3>1
  <2> DEFINE G == {i \in 0..n : i = 0 \/ Holds(flatten[i], seqs, i, M)}
  <2>8. ASSUME NEW i \in 1..n, i - 1 \in G
        PROVE  i \in G
    <3>1. CASE i = 1
      <4>1. Holds(flatten[1], seqs, 1, M)
        BY <1>1, <2>7 DEF Holds
      <4> QED BY <3>1, <4>1
    <3>2. CASE i # 1
      <4> DEFINE s == flatten[i - 1]
      <4>1. /\ i \in 2..n /\ s \in Seq(M)
            /\ \A x \in 1..(i - 1) : \A j \in DOMAIN seqs[x] :
                 \E k \in DOMAIN s : s[k] = seqs[x][j]
        BY <2>8, <3>2 DEF Holds
      <4> HIDE DEF s
      <4> DEFINE t == s \o seqs[i]
      <4>2. flatten[i] = t
        BY <2>7, <4>1 DEF s
      <4>3. /\ t \in Seq(M) /\ DOMAIN t = 1..(Len(s) + Len(seqs[i]))
            /\ \A k \in DOMAIN s : k \in DOMAIN t /\ t[k] = s[k]
            /\ \A j \in DOMAIN seqs[i] :
                 Len(s) + j \in DOMAIN t /\ t[Len(s) + j] = seqs[i][j]
        BY <1>1, <4>1
      <4> HIDE DEF t
      <4>4. ASSUME NEW x \in 1..i, NEW j \in DOMAIN seqs[x]
            PROVE  \E k \in DOMAIN t : t[k] = seqs[x][j]
        <5>1. CASE x = i
          BY <4>3, <4>4, <5>1
        <5>2. CASE x # i
          <6>1. x \in 1..(i - 1)
            BY <5>2
          <6> QED BY <4>1, <4>3, <4>4, <6>1
        <5> QED BY <5>1, <5>2
      <4>5. Holds(flatten[i], seqs, i, M)
        BY <4>2, <4>3, <4>4 DEF Holds
      <4> QED BY <4>5
    <3> QED BY <3>1, <3>2
  <2>9. n \in G
    <3>1. 0 \in G
      BY <1>1
    <3> HIDE DEF G
    <3>2. \A i \in 0..n : i \in G
      <4> HIDE DEF n
      <4> QED BY <1>1, <2>8, <3>1, Reaches
    <3> QED BY <1>1, <3>2
  <2> QED BY <1>3, <2>1, <2>9
<1> QED BY <1>2, <1>3

\* The base states that are taken from a document.
Bases(doc) ==
  {m \in Mutations : m.type = "patch" /\ m.inc = {} /\ m.mustExist /\ m.data = doc.data}

BatchFor(mutations, doc, id) ==
  [id |-> id,
   base |-> FlattenSeq([i \in DOMAIN mutations |->
              ExtractTransformBaseValue(mutations[i], doc)]),
   mutations |-> mutations]

\* LocalStore::WriteLocally makes a batch with a base for each increment.
LEMMA WriteMakesBatch ==
  ASSUME NEW mutations \in Seq(Mutations) \ {<<>>}, NEW doc \in Docs, NEW id \in Nat \ {0}
  PROVE  LET b == BatchFor(mutations, doc, id)
         IN  b \in Batches /\ \A k \in DOMAIN b.base : b.base[k].data = doc.data
<1> DEFINE seqs == [i \in DOMAIN mutations |->
                      ExtractTransformBaseValue(mutations[i], doc)]
           base == FlattenSeq(seqs)
<1>1. ASSUME NEW m \in Mutations
      PROVE  /\ ExtractTransformBaseValue(m, doc) \in Seq(Bases(doc))
             /\ m.inc # {} => /\ DOMAIN ExtractTransformBaseValue(m, doc) = {1}
                              /\ ExtractTransformBaseValue(m, doc)[1].mask = m.inc
  <2>1. Update(doc.data, m.inc) \in Bases(doc) /\ Update(doc.data, m.inc).mask = m.inc
    BY DEF Update, Mutation, Bases, Mutations, Docs
  <2>2. CASE m.inc = {}
    BY <2>2 DEF ExtractTransformBaseValue
  <2>3. CASE m.inc # {}
    <3>1. ExtractTransformBaseValue(m, doc) = <<Update(doc.data, m.inc)>>
      BY <2>3 DEF ExtractTransformBaseValue
    <3> HIDE DEF ExtractTransformBaseValue
    <3> QED BY <2>1, <3>1
  <2> QED BY <2>2, <2>3
<1>2. DOMAIN mutations = 1..Len(mutations) /\ \A i \in DOMAIN mutations : mutations[i] \in Mutations
  OBVIOUS
<1>3. /\ seqs \in Seq(Seq(Bases(doc))) /\ Len(seqs) = Len(mutations)
      /\ \A i \in DOMAIN mutations : seqs[i] = ExtractTransformBaseValue(mutations[i], doc)
  BY <1>1, <1>2
<1> HIDE DEF seqs
<1>4. Holds(base, seqs, Len(mutations), Bases(doc))
  BY <1>3, Flattened
<1> HIDE DEF base
<1>5. base \in Seq(Bases(doc)) /\ base \in Seq(Mutations)
  BY <1>4 DEF Holds, Bases
<1>6. BatchFor(mutations, doc, id) = [id |-> id, base |-> base, mutations |-> mutations]
  BY DEF BatchFor, base, seqs
<1> DEFINE b == [id |-> id, base |-> base, mutations |-> mutations]
<1>7. ASSUME NEW i \in DOMAIN mutations, mutations[i].inc # {}
      PROVE  \E k \in DOMAIN base : mutations[i].inc \subseteq base[k].mask
  <2>1. 1 \in DOMAIN seqs[i] /\ seqs[i][1].mask = mutations[i].inc
    BY <1>1, <1>2, <1>3, <1>7
  <2>2. PICK k \in DOMAIN base : base[k] = seqs[i][1]
    BY <1>2, <1>4, <2>1 DEF Holds
  <2> QED BY <2>1, <2>2
<1>8. \A k \in DOMAIN base : /\ base[k].type = "patch" /\ base[k].inc = {}
                             /\ base[k].mustExist /\ base[k].data = doc.data
  BY <1>5 DEF Bases
<1>9. b \in Batches
  BY <1>5, <1>7, <1>8 DEF Batches, HasBase
<1> QED BY <1>6, <1>8, <1>9

-----------------------------------------------------------------------------
(* Relations between the views of two documents that the same mutations keep *)

KeptByMutations(R) ==
  \A m \in Mutations, p \in R :
    <<ApplyToLocalView(m, p[1]), ApplyToLocalView(m, p[2])>> \in R

KeptByBatches(R) ==
  \A b \in Batches, p \in R : <<ApplyBatch(b, p[1]), ApplyBatch(b, p[2])>> \in R

\* What each mutation keeps, a batch keeps.
LEMMA BatchKeepsRelation ==
  ASSUME NEW R \in SUBSET (Views \X Views), KeptByMutations(R)
  PROVE  KeptByBatches(R)
<1> SUFFICES ASSUME NEW b \in Batches, NEW p \in R
             PROVE  <<ApplyBatch(b, p[1]), ApplyBatch(b, p[2])>> \in R
  BY DEF KeptByBatches
<1> DEFINE s == Steps(b)
           n == Len(s)
<1>1. /\ s \in Seq(Mutations) /\ n \in Nat /\ p[1] \in Views /\ p[2] \in Views
      /\ p = <<p[1], p[2]>>
  BY DEF Batches, Steps
<1>2. PICK f \in [0..n -> Views] : Trace(f, LocalStep, p[1], s) /\ ApplyBatch(b, p[1]) = f[n]
  BY <1>1, BatchTrace
<1>3. PICK g \in [0..n -> Views] : Trace(g, LocalStep, p[2], s) /\ ApplyBatch(b, p[2]) = g[n]
  BY <1>1, BatchTrace
<1> DEFINE G == {i \in 0..n : <<f[i], g[i]>> \in R}
<1>4. 0 \in G
  <2>1. f[0] = p[1] /\ g[0] = p[2]
    BY <1>2, <1>3 DEF Trace
  <2>2. <<f[0], g[0]>> \in R
    BY <1>1, <2>1
  <2> QED BY <1>1, <2>2
<1>5. ASSUME NEW i \in 1..n, i - 1 \in G
      PROVE  i \in G
  <2>1. s[i] \in Mutations /\ f[i - 1] \in Views /\ g[i - 1] \in Views
    BY <1>1, <1>5
  <2>2. f[i] = ApplyToLocalView(s[i], f[i - 1]) /\ g[i] = ApplyToLocalView(s[i], g[i - 1])
    BY <1>2, <1>3, <2>1 DEF Trace, LocalStep
  <2>3. <<f[i - 1], g[i - 1]>> \in R
    BY <1>5
  <2>4. <<f[i], g[i]>> \in R
    BY <2>1, <2>2, <2>3 DEF KeptByMutations
  <2> QED BY <2>4
<1>6. n \in G
  <2> HIDE DEF G, n
  <2>1. \A i \in 0..n : i \in G
    BY <1>1, <1>4, <1>5, Reaches
  <2> QED BY <1>1, <2>1
<1> QED BY <1>2, <1>3, <1>6

\* What each batch keeps, a replay of the queue keeps.
LEMMA ReplayKeepsRelation ==
  ASSUME NEW R \in SUBSET (Views \X Views), KeptByBatches(R),
         NEW d \in Docs, NEW e \in Docs, <<Unmodified(d), Unmodified(e)>> \in R,
         NEW q \in Seq(Batches)
  PROVE  <<Replayed(d, q), Replayed(e, q)>> \in R
<1> DEFINE n == Len(q)
<1>1. n \in Nat
  OBVIOUS
<1>2. PICK f \in [0..n -> Views] :
        Trace(f, BatchStep, Unmodified(d), q) /\ Replayed(d, q) = f[n]
  BY QueueTrace
<1>3. PICK g \in [0..n -> Views] :
        Trace(g, BatchStep, Unmodified(e), q) /\ Replayed(e, q) = g[n]
  BY QueueTrace
<1> DEFINE G == {i \in 0..n : <<f[i], g[i]>> \in R}
<1>4. 0 \in G
  BY <1>1, <1>2, <1>3 DEF Trace
<1>5. ASSUME NEW i \in 1..n, i - 1 \in G
      PROVE  i \in G
  <2>1. q[i] \in Batches /\ f[i - 1] \in Views /\ g[i - 1] \in Views
    BY <1>5
  <2>2. f[i] = ApplyBatch(q[i], f[i - 1]) /\ g[i] = ApplyBatch(q[i], g[i - 1])
    BY <1>2, <1>3, <2>1 DEF Trace, BatchStep
  <2>3. <<f[i - 1], g[i - 1]>> \in R
    BY <1>5
  <2>4. <<f[i], g[i]>> \in R
    BY <2>1, <2>2, <2>3 DEF KeptByBatches
  <2> QED BY <2>4
<1>6. n \in G
  <2> HIDE DEF G, n
  <2>1. \A i \in 0..n : i \in G
    BY <1>1, <1>4, <1>5, Reaches
  <2> QED BY <1>1, <2>1
<1> QED BY <1>2, <1>3, <1>6

\* A replay of no batch leaves the document.
LEMMA ReplayOfNothing ==
  ASSUME NEW d \in Docs
  PROVE  Replayed(d, <<>>) = Unmodified(d)
<1>1. <<>> \in Seq(Batches) /\ Len(<<>>) = 0
  OBVIOUS
<1>2. PICK g \in [0..Len(<<>>) -> Views] :
        Trace(g, BatchStep, Unmodified(d), <<>>) /\ Replayed(d, <<>>) = g[Len(<<>>)]
  BY <1>1, QueueTrace
<1>3. g[0] = Unmodified(d)
  BY <1>2 DEF Trace
<1> QED BY <1>1, <1>2, <1>3

\* One more batch is applied to the replay of the others.
LEMMA ReplayAppend ==
  ASSUME NEW q \in Seq(Batches), NEW b \in Batches, NEW d \in Docs
  PROVE  Replayed(d, Append(q, b)) = ApplyBatch(b, Replayed(d, q))
<1> DEFINE n == Len(q)
           r == Append(q, b)
<1>1. /\ n \in Nat /\ r \in Seq(Batches) /\ Len(r) = n + 1 /\ r[n + 1] = b
      /\ \A i \in 1..n : r[i] = q[i]
  OBVIOUS
<1> HIDE DEF r
<1>2. PICK f \in [0..n -> Views] :
        Trace(f, BatchStep, Unmodified(d), q) /\ Replayed(d, q) = f[n]
  BY QueueTrace
<1>3. PICK g \in [0..(n + 1) -> Views] :
        Trace(g, BatchStep, Unmodified(d), r) /\ Replayed(d, r) = g[n + 1]
  BY <1>1, QueueTrace
<1>4. Trace(g, BatchStep, Unmodified(d), q)
  <2>1. \A i \in 1..n : i \in 1..(n + 1)
    BY <1>1
  <2> QED BY <1>1, <1>3, <2>1 DEF Trace
<1>5. g[n] = f[n]
  <2>1. n \in 0..n
    BY <1>1
  <2> QED BY <1>2, <1>4, <2>1, TracesAgree
<1>6. g[n + 1] = BatchStep[b][g[n]]
  <2>1. n + 1 \in 1..Len(r) /\ n + 1 - 1 = n
    BY <1>1
  <2> QED BY <1>1, <1>3, <2>1 DEF Trace
<1>7. g[n] \in Views
  BY <1>1
<1> QED BY <1>2, <1>3, <1>5, <1>6, <1>7 DEF r, BatchStep

-----------------------------------------------------------------------------
(* What a replay leads to *)

\* A view that mutations of document d lead to: of the whole document once one
\* of them has no mask, and otherwise of fields of a document that exists.
ReachedFrom(d) ==
  {v \in Views :
     /\ v.doc.state # "local" => v = Unmodified(d)
     /\ v.doc.state = "local" => v.doc.version = 0 /\ v.doc.type \in {"found", "none"}
     /\ v.mask.full => v.doc.state = "local"
     /\ v.doc.state = "local" /\ ~v.mask.full =>
          /\ v.doc.type = "found"
          /\ \A f \in Fields : f \notin v.mask.fields => v.doc.data[f] = d.data[f]}

LEMMA ApplyKeepsReached ==
  ASSUME NEW d \in Docs, d.state # "local", NEW m \in Mutations, NEW v \in ReachedFrom(d)
  PROVE  ApplyToLocalView(m, v) \in ReachedFrom(d)
<1>1. ApplyToLocalView(m, v) \in Views /\ v \in Views
  BY ApplyKeepsViews DEF ReachedFrom
<1>2. CASE ~IsValidFor(m, v.doc)
  BY <1>2 DEF ApplyToLocalView
<1>3. CASE IsValidFor(m, v.doc) /\ m.type # "patch"
  BY <1>1, <1>3 DEF ApplyToLocalView, ReachedFrom, Document, NoMask
<1>4. CASE IsValidFor(m, v.doc) /\ m.type = "patch" /\ v.mask.full
  BY <1>1, <1>4 DEF ApplyToLocalView, ReachedFrom, Document, NoMask
<1>5. CASE IsValidFor(m, v.doc) /\ m.type = "patch" /\ ~v.mask.full
  <2> DEFINE w == ApplyToLocalView(m, v)
  <2>1. /\ w.doc = Document("found", Patched(m, v.doc.data), 0, "local")
        /\ w.mask = Mask(v.mask.fields \cup m.mask \cup m.inc)
    BY <1>5 DEF ApplyToLocalView
  <2>2. /\ w.doc.state = "local" /\ w.doc.version = 0 /\ w.doc.type = "found"
        /\ ~w.mask.full /\ w.mask.fields = v.mask.fields \cup m.mask \cup m.inc
        /\ w.doc.data = Patched(m, v.doc.data)
    BY <2>1 DEF Document, Mask
  <2>3. ASSUME NEW f \in Fields, f \notin w.mask.fields
        PROVE  w.doc.data[f] = d.data[f]
    <3>1. w.doc.data[f] = v.doc.data[f] /\ f \notin v.mask.fields
      BY <2>2, <2>3 DEF Patched
    <3> QED BY <1>5, <3>1 DEF ReachedFrom, Unmodified
  <2> HIDE DEF w
  <2>4. w \in Views
    BY <1>1 DEF w
  <2>5. w \in ReachedFrom(d)
    BY <2>2, <2>3, <2>4 DEF ReachedFrom
  <2> QED BY <2>5 DEF w
<1> QED BY <1>2, <1>3, <1>4, <1>5

Diagonal(d) == {<<v, v>> : v \in ReachedFrom(d)}

LEMMA DiagonalIsKept ==
  ASSUME NEW d \in Docs, d.state # "local"
  PROVE  /\ Diagonal(d) \in SUBSET (Views \X Views)
         /\ KeptByBatches(Diagonal(d))
<1>1. Diagonal(d) \in SUBSET (Views \X Views)
  BY DEF Diagonal, ReachedFrom
<1>2. KeptByMutations(Diagonal(d))
  BY ApplyKeepsReached DEF Diagonal, KeptByMutations
<1> QED BY <1>1, <1>2, BatchKeepsRelation

\* A batch, and a replay of the queue, lead to such a view.
LEMMA ReplayReaches ==
  ASSUME NEW d \in Docs, d.state # "local", NEW q \in Seq(Batches)
  PROVE  Replayed(d, q) \in ReachedFrom(d)
<1>1. Unmodified(d) \in ReachedFrom(d)
  BY UnmodifiedIsView DEF ReachedFrom, Unmodified, Mask
<1>2. <<Replayed(d, q), Replayed(d, q)>> \in Diagonal(d)
  BY <1>1, DiagonalIsKept, ReplayKeepsRelation DEF Diagonal
<1> QED BY <1>2 DEF Diagonal

LEMMA BatchReaches ==
  ASSUME NEW d \in Docs, d.state # "local", NEW b \in Batches, NEW v \in ReachedFrom(d)
  PROVE  ApplyBatch(b, v) \in ReachedFrom(d)
<1>1. <<v, v>> \in Diagonal(d)
  BY DEF Diagonal
<1>2. <<ApplyBatch(b, v), ApplyBatch(b, v)>> \in Diagonal(d)
  BY <1>1, DiagonalIsKept DEF KeptByBatches
<1> QED BY <1>2 DEF Diagonal

-----------------------------------------------------------------------------
(* The overlay stands for the mutations *)

\* What Mutation::CalculateOverlayMutation saves: no increment, no precondition.
SavedOverlays ==
  {o \in [batch : Nat, mutation : Mutations] :
     HasOverlay(o) => o.mutation.inc = {} /\ ~o.mutation.mustExist}

\* The overlay that is calculated from a view of a document gives that view of it.
LEMMA CalculatedStandsForView ==
  ASSUME NEW d \in Docs, d.state # "local", NEW v \in ReachedFrom(d), NEW id \in Nat \ {0}
  PROVE  LET o == CalculateOverlayMutation(v, id)
         IN  o \in SavedOverlays /\ Overlayed(d, o) = v
             /\ (HasOverlay(o) <=> v.doc.state = "local")
<1> DEFINE o == CalculateOverlayMutation(v, id)
<1>1. /\ v \in Views /\ v.doc \in Docs /\ v.mask \in Masks /\ v.doc.data \in Data
      /\ v = [doc |-> v.doc, mask |-> v.mask] /\ NoData \in Data
      /\ v.doc = Document(v.doc.type, v.doc.data, v.doc.version, v.doc.state)
      /\ v.mask = [full |-> v.mask.full, fields |-> v.mask.fields]
  BY DEF ReachedFrom, Views, Docs, Masks, Document, Data, NoData
<1>2. CASE v.doc.state # "local"
  <2>1. o = NoOverlay /\ v = Unmodified(d)
    BY <1>2 DEF CalculateOverlayMutation, ReachedFrom
  <2>2. o \in SavedOverlays /\ ~HasOverlay(o)
    BY <1>1, <2>1 DEF SavedOverlays, HasOverlay, NoOverlay, Delete, Mutation, Mutations
  <2> QED BY <1>2, <2>1, <2>2 DEF Overlayed, Unmodified
<1>3. CASE v.doc.state = "local" /\ v.mask.full
  <2> DEFINE m == IF v.doc.type = "none" THEN Delete ELSE Set(v.doc.data)
  <2>1. o = [batch |-> id, mutation |-> m]
    BY <1>3 DEF CalculateOverlayMutation
  <2>2. /\ v.doc.version = 0 /\ v.doc.type \in {"found", "none"}
        /\ v.doc.type = "none" => v.doc.data = NoData
    BY <1>1, <1>3 DEF ReachedFrom, Docs
  <2>3. /\ m \in Mutations /\ m.inc = {} /\ ~m.mustExist /\ m.type # "patch"
        /\ m.data = v.doc.data /\ (m.type = "set" <=> v.doc.type = "found")
    BY <1>1, <2>2 DEF Delete, Set, Mutation, Mutations
  <2> HIDE DEF m
  <2>4. HasOverlay(o) /\ o \in SavedOverlays
    BY <2>1, <2>3 DEF HasOverlay, NoOverlay, SavedOverlays
  <2>5. v.mask = NoMask
    BY <1>1, <1>3 DEF Masks, NoMask
  <2>6. Document(IF m.type = "set" THEN "found" ELSE "none", m.data, 0, "local") = v.doc
    BY <1>1, <1>3, <2>2, <2>3
  <2>7. ApplyToLocalView(m, [doc |-> d, mask |-> NoMask]).doc = v.doc
    BY <2>3, <2>6 DEF ApplyToLocalView, IsValidFor
  <2>8. Overlayed(d, o) = [doc |-> v.doc, mask |-> v.mask]
    BY <2>1, <2>3, <2>4, <2>5, <2>7 DEF Overlayed
  <2> QED BY <1>1, <1>3, <2>4, <2>8
<1>4. CASE v.doc.state = "local" /\ ~v.mask.full
  <2> DEFINE m == Merge(v.doc.data, v.mask.fields)
  <2>1. o = [batch |-> id, mutation |-> m]
    BY <1>4 DEF CalculateOverlayMutation
  <2>2. /\ v.doc.version = 0 /\ v.doc.type = "found"
        /\ \A f \in Fields : f \notin v.mask.fields => v.doc.data[f] = d.data[f]
    BY <1>4 DEF ReachedFrom
  <2>3. /\ m \in Mutations /\ m.inc = {} /\ ~m.mustExist /\ m.type = "patch"
        /\ m.data = v.doc.data /\ m.mask = v.mask.fields
    BY <1>1 DEF Merge, Mutation, Mutations, Masks
  <2> HIDE DEF m
  <2>4. HasOverlay(o) /\ o \in SavedOverlays
    BY <2>1, <2>3 DEF HasOverlay, NoOverlay, SavedOverlays
  <2>5. v.mask = Mask(m.mask)
    BY <1>1, <1>4, <2>3 DEF Mask
  <2>6. Patched(m, d.data) = v.doc.data
    <3>1. \A f \in Fields : Patched(m, d.data)[f] = v.doc.data[f]
      BY <2>2, <2>3 DEF Patched
    <3>2. Patched(m, d.data) = [f \in Fields |-> Patched(m, d.data)[f]]
      BY DEF Patched
    <3>3. v.doc.data = [f \in Fields |-> v.doc.data[f]]
      BY <1>1 DEF Data
    <3> HIDE DEF Patched
    <3> QED BY <3>1, <3>2, <3>3
  <2>7. ApplyToLocalView(m, [doc |-> d, mask |-> NoMask]).doc = v.doc
    BY <1>1, <1>4, <2>2, <2>3, <2>6 DEF ApplyToLocalView, IsValidFor
  <2>8. Overlayed(d, o) = [doc |-> v.doc, mask |-> v.mask]
    BY <2>1, <2>3, <2>4, <2>5, <2>7 DEF Overlayed
  <2> QED BY <1>1, <1>4, <2>4, <2>8
<1> QED BY <1>2, <1>3, <1>4

-----------------------------------------------------------------------------
(* The remote document changes and the overlay is kept *)

\* Views of which none or both are of the whole document, and then the same.
AlikeOnceWhole ==
  {p \in Views \X Views :
     (p[1].mask.full <=> p[2].mask.full) /\ (p[1].mask.full => p[1] = p[2])}

\* A mutation without a mask gives the same view of every document.
LEMMA AlikeOnceWholeIsKept == KeptByBatches(AlikeOnceWhole)
<1>1. ASSUME NEW m \in Mutations, NEW p \in AlikeOnceWhole
      PROVE  <<ApplyToLocalView(m, p[1]), ApplyToLocalView(m, p[2])>> \in AlikeOnceWhole
  <2> DEFINE v == p[1]
             w == p[2]
             x == ApplyToLocalView(m, v)
             y == ApplyToLocalView(m, w)
  <2>1. /\ v \in Views /\ w \in Views /\ (v.mask.full <=> w.mask.full)
        /\ (v.mask.full => v = w)
    BY DEF AlikeOnceWhole
  <2> HIDE DEF v, w
  <2>2. x \in Views /\ y \in Views
    BY <2>1, ApplyKeepsViews
  <2>3. CASE v.mask.full
    <3>1. x = y
      BY <2>1, <2>3
    <3> QED BY <2>2, <3>1 DEF AlikeOnceWhole, v, w
  <2>4. CASE ~v.mask.full /\ m.type = "patch"
    <3>1. ~x.mask.full /\ ~y.mask.full
      BY <2>1, <2>4 DEF ApplyToLocalView, Mask
    <3> QED BY <2>2, <3>1 DEF AlikeOnceWhole, v, w
  <2>5. CASE m.type # "patch"
    <3>1. x = y
      BY <2>5 DEF ApplyToLocalView, Mutations, IsValidFor
    <3> QED BY <2>2, <3>1 DEF AlikeOnceWhole, v, w
  <2> QED BY <2>3, <2>4, <2>5
<1>2. KeptByMutations(AlikeOnceWhole) /\ AlikeOnceWhole \in SUBSET (Views \X Views)
  BY <1>1 DEF KeptByMutations, AlikeOnceWhole
<1> QED BY <1>2, BatchKeepsRelation

\* Views of two documents that do not exist: the same once a mutation applies.
AlikeWhereMissing(d, e) ==
  {p \in Views \X Views : p[1] = p[2] \/ (p[1] = Unmodified(d) /\ p[2] = Unmodified(e))}

\* A mutation gives the same view of all documents that do not exist.
LEMMA AlikeWhereMissingIsKept ==
  ASSUME NEW d \in Docs, NEW e \in Docs, d.type # "found", e.type # "found"
  PROVE  KeptByBatches(AlikeWhereMissing(d, e))
<1> DEFINE R == AlikeWhereMissing(d, e)
<1>1. ASSUME NEW m \in Mutations, NEW p \in R
      PROVE  <<ApplyToLocalView(m, p[1]), ApplyToLocalView(m, p[2])>> \in R
  <2>1. /\ p[1] \in Views /\ p[2] \in Views
        /\ ApplyToLocalView(m, p[1]) \in Views /\ ApplyToLocalView(m, p[2]) \in Views
    BY ApplyKeepsViews DEF AlikeWhereMissing
  <2>2. CASE p[1] = p[2]
    <3>1. ApplyToLocalView(m, p[1]) = ApplyToLocalView(m, p[2])
      BY <2>2
    <3> QED BY <2>1, <3>1 DEF AlikeWhereMissing
  <2>3. CASE p[1] = Unmodified(d) /\ p[2] = Unmodified(e)
    <3>1. /\ p[1].doc = d /\ p[2].doc = e /\ p[1].mask = p[2].mask
          /\ d.data = NoData /\ e.data = NoData
      BY <2>3 DEF Unmodified, Docs
    <3>2. CASE m.mustExist
      <4>1. ApplyToLocalView(m, p[1]) = p[1] /\ ApplyToLocalView(m, p[2]) = p[2]
        BY <3>1, <3>2 DEF ApplyToLocalView, IsValidFor
      <4> QED BY <2>1, <2>3, <4>1 DEF AlikeWhereMissing
    <3>3. CASE ~m.mustExist
      <4>1. ApplyToLocalView(m, p[1]) = ApplyToLocalView(m, p[2])
        BY <3>1, <3>3 DEF ApplyToLocalView, IsValidFor
      <4> QED BY <2>1, <4>1 DEF AlikeWhereMissing
    <3> QED BY <3>2, <3>3 DEF Mutations
  <2> QED BY <2>2, <2>3 DEF AlikeWhereMissing
<1>2. KeptByMutations(R) /\ R \in SUBSET (Views \X Views)
  BY <1>1 DEF KeptByMutations, AlikeWhereMissing
<1> QED BY <1>2, BatchKeepsRelation

\* Views of two documents that exist: the same in the fields that mutations
\* changed, and in all of them once a mutation had no mask.
AlikeWhereMasked ==
  {p \in Views \X Views :
     \/ p[1].mask.full /\ p[1] = p[2]
     \/ /\ ~p[1].mask.full /\ p[1].mask = p[2].mask
        /\ p[1].doc.type = "found" /\ p[2].doc.type = "found"
        /\ (p[1].doc.state = "local" <=> p[2].doc.state = "local")
        /\ \A f \in p[1].mask.fields : p[1].doc.data[f] = p[2].doc.data[f]}

\* The view is the same for a mutation's fields f of the two documents.
Covers(v, fields) == v.mask.full \/ fields \subseteq v.mask.fields

\* A mutation that increments only fields that were changed before.
LEMMA ApplyKeepsAlike ==
  ASSUME NEW m \in Mutations, NEW v, NEW w, <<v, w>> \in AlikeWhereMasked,
         Covers(v, m.inc)
  PROVE  /\ <<ApplyToLocalView(m, v), ApplyToLocalView(m, w)>> \in AlikeWhereMasked
         /\ \A s : Covers(v, s) => Covers(ApplyToLocalView(m, v), s)
         /\ m.type = "patch" => Covers(ApplyToLocalView(m, v), m.mask)
<1> DEFINE x == ApplyToLocalView(m, v)
           y == ApplyToLocalView(m, w)
<1>1. v \in Views /\ w \in Views /\ x \in Views /\ y \in Views
  BY ApplyKeepsViews DEF AlikeWhereMasked
<1>2. CASE v.mask.full
  <2>1. x = y /\ x.mask.full
    BY <1>2 DEF AlikeWhereMasked, ApplyToLocalView, NoMask
  <2> QED BY <1>1, <2>1 DEF AlikeWhereMasked, Covers
<1>3. CASE m.type # "patch"
  <2>1. x = y /\ x.mask.full
    BY <1>3 DEF ApplyToLocalView, NoMask, Mutations, IsValidFor
  <2> HIDE DEF x, y
  <2>2. <<x, y>> \in AlikeWhereMasked
    BY <1>1, <2>1 DEF AlikeWhereMasked
  <2>3. \A s : Covers(x, s)
    BY <2>1 DEF Covers
  <2> QED BY <1>3, <2>2, <2>3 DEF x, y
<1>4. CASE ~v.mask.full /\ m.type = "patch"
  <2>1. /\ v.mask = w.mask /\ v.doc.type = "found" /\ w.doc.type = "found"
        /\ \A f \in v.mask.fields : v.doc.data[f] = w.doc.data[f]
        /\ m.inc \subseteq v.mask.fields /\ m.mask \subseteq Fields
        /\ v.mask.fields \subseteq Fields
    BY <1>1, <1>4 DEF AlikeWhereMasked, Covers, Mutations, Views, Masks
  <2> DEFINE s == v.mask.fields \cup m.mask \cup m.inc
  <2>2. /\ x.mask = Mask(s) /\ y.mask = Mask(s)
        /\ x.doc = Document("found", Patched(m, v.doc.data), 0, "local")
        /\ y.doc = Document("found", Patched(m, w.doc.data), 0, "local")
    BY <1>4, <2>1 DEF ApplyToLocalView, IsValidFor
  <2>3. \A f \in s : Patched(m, v.doc.data)[f] = Patched(m, w.doc.data)[f]
    BY <2>1 DEF Patched
  <2> HIDE DEF x, y
  <2>4. /\ ~x.mask.full /\ x.mask = y.mask /\ x.mask.fields = s
        /\ x.doc.type = "found" /\ y.doc.type = "found"
        /\ x.doc.state = "local" /\ y.doc.state = "local"
        /\ x.doc.data = Patched(m, v.doc.data) /\ y.doc.data = Patched(m, w.doc.data)
    BY <2>2 DEF Mask, Document
  <2>5. <<x, y>> \in AlikeWhereMasked
    BY <1>1, <2>3, <2>4 DEF AlikeWhereMasked
  <2>6. \A t : Covers(v, t) => Covers(x, t)
    BY <1>4, <2>4 DEF Covers
  <2>7. Covers(x, m.mask)
    BY <2>4 DEF Covers
  <2> QED BY <2>5, <2>6, <2>7 DEF x, y
<1> QED BY <1>2, <1>3, <1>4

\* A batch sets the base of what it increments first.
LEMMA AlikeWhereMaskedIsKept == KeptByBatches(AlikeWhereMasked)
<1> SUFFICES ASSUME NEW b \in Batches, NEW p \in AlikeWhereMasked
             PROVE  <<ApplyBatch(b, p[1]), ApplyBatch(b, p[2])>> \in AlikeWhereMasked
  BY DEF KeptByBatches
<1> DEFINE s == Steps(b)
           n == Len(s)
           l == Len(b.base)
<1>1. /\ s \in Seq(Mutations) /\ n \in Nat /\ p[1] \in Views /\ p[2] \in Views
      /\ p = <<p[1], p[2]>>
  BY DEF Batches, Steps, AlikeWhereMasked
<1>2. /\ l \in Nat /\ l <= n /\ DOMAIN b.base = 1..l
      /\ \A i \in 1..l : /\ s[i] = b.base[i]
                         /\ b.base[i].type = "patch" /\ b.base[i].inc = {}
      /\ \A i \in (l + 1)..n : HasBase(b, s[i])
  <2>1. b.base \in Seq(Mutations) /\ b.mutations \in Seq(Mutations)
    BY DEF Batches
  <2>2. /\ l \in Nat /\ n = l + Len(b.mutations) /\ Len(b.mutations) \in Nat
        /\ \A i \in 1..l : s[i] = b.base[i]
        /\ \A i \in (l + 1)..n : i - l \in DOMAIN b.mutations /\ s[i] = b.mutations[i - l]
    <3> DEFINE c == b.base
               d == b.mutations
    <3>1. c \in Seq(Mutations) /\ d \in Seq(Mutations) /\ s = c \o d
      BY <2>1 DEF Steps
    <3> HIDE DEF c, d, s
    <3>2. Len(s) = Len(c) + Len(d) /\ Len(c) \in Nat /\ Len(d) \in Nat
      BY <3>1
    <3>3. \A i \in 1..Len(c) : s[i] = c[i]
      BY <3>1
    <3>4. \A i \in (Len(c) + 1)..Len(s) : i - Len(c) \in DOMAIN d /\ s[i] = d[i - Len(c)]
      <4> SUFFICES ASSUME NEW i \in (Len(c) + 1)..Len(s)
                   PROVE  i - Len(c) \in DOMAIN d /\ s[i] = d[i - Len(c)]
        OBVIOUS
      <4>1. i \in 1..(Len(c) + Len(d)) /\ i > Len(c) /\ i - Len(c) \in 1..Len(d)
        BY <3>2
      <4> QED BY <3>1, <3>2, <4>1
    <3> QED BY <3>2, <3>3, <3>4 DEF c, d, n, l
  <2> HIDE DEF s, n, l
  <2>3. DOMAIN b.base = 1..l
    BY <2>1 DEF l
  <2> QED BY <2>2, <2>3 DEF Batches
<1>3. PICK f \in [0..n -> Views] : Trace(f, LocalStep, p[1], s) /\ ApplyBatch(b, p[1]) = f[n]
  BY <1>1, BatchTrace
<1>4. PICK g \in [0..n -> Views] : Trace(g, LocalStep, p[2], s) /\ ApplyBatch(b, p[2]) = g[n]
  BY <1>1, BatchTrace
<1> DEFINE Covered(i) == \A k \in 1..l : k <= i => Covers(f[i], b.base[k].mask)
           G == {i \in 0..n : <<f[i], g[i]>> \in AlikeWhereMasked /\ Covered(i)}
<1>5. 0 \in G
  <2>1. f[0] = p[1] /\ g[0] = p[2]
    BY <1>3, <1>4 DEF Trace
  <2>2. <<f[0], g[0]>> \in AlikeWhereMasked
    BY <1>1, <2>1
  <2>3. Covered(0)
    BY <1>2
  <2> QED BY <1>1, <2>2, <2>3
<1> HIDE DEF s, n, l
<1>6. ASSUME NEW i \in 1..n, i - 1 \in G
      PROVE  i \in G
  <2>1. s[i] \in Mutations /\ f[i - 1] \in Views /\ g[i - 1] \in Views
    BY <1>1, <1>6 DEF n
  <2>2. f[i] = ApplyToLocalView(s[i], f[i - 1]) /\ g[i] = ApplyToLocalView(s[i], g[i - 1])
    BY <1>3, <1>4, <2>1 DEF Trace, LocalStep, n
  <2>3. <<f[i - 1], g[i - 1]>> \in AlikeWhereMasked /\ Covered(i - 1)
    BY <1>6
  <2>4. Covers(f[i - 1], s[i].inc)
    <3>1. CASE s[i].inc = {}
      BY <3>1 DEF Covers
    <3>2. CASE s[i].inc # {}
      <4>1. i \in (l + 1)..n
        BY <1>1, <1>2, <3>2
      <4>2. PICK k \in 1..l : s[i].inc \subseteq b.base[k].mask
        BY <1>2, <3>2, <4>1 DEF HasBase
      <4>3. k <= i - 1
        BY <1>1, <1>2, <4>1, <4>2
      <4>4. Covers(f[i - 1], b.base[k].mask)
        BY <2>3, <4>3
      <4> QED BY <4>2, <4>4 DEF Covers
    <3> QED BY <3>1, <3>2
  <2>5. /\ <<f[i], g[i]>> \in AlikeWhereMasked
        /\ \A t : Covers(f[i - 1], t) => Covers(f[i], t)
        /\ s[i].type = "patch" => Covers(f[i], s[i].mask)
    BY <2>1, <2>2, <2>3, <2>4, ApplyKeepsAlike
  <2>6. ASSUME NEW k \in 1..l, k <= i
        PROVE  Covers(f[i], b.base[k].mask)
    <3>1. CASE k = i
      BY <1>2, <2>5, <3>1
    <3>2. CASE k # i
      <4>1. k <= i - 1
        BY <1>2, <2>6, <3>2
      <4> QED BY <2>3, <2>5, <4>1
    <3> QED BY <3>1, <3>2
  <2> QED BY <1>1, <2>5, <2>6
<1>7. n \in G
  <2> HIDE DEF G
  <2>1. \A i \in 0..n : i \in G
    BY <1>1, <1>5, <1>6, Reaches
  <2> QED BY <1>1, <2>1
<1> QED BY <1>3, <1>4, <1>7

\* LocalDocumentsView::ComputeViews: where the overlay is not calculated again
\* it stands for the replay on the new document as it did on the old one.
LEMMA KeptOverlayStandsForReplay ==
  ASSUME NEW d \in Docs, d.state # "local", NEW e \in Docs, e.state # "local",
         NEW o \in SavedOverlays, NEW q \in Seq(Batches),
         Overlayed(d, o) = Replayed(d, q),
         ~IsRecalculated(o, (e.type = "found") # (d.type = "found"))
  PROVE  Overlayed(e, o) = Replayed(e, q)
<1> DEFINE v == Replayed(d, q)
           w == Replayed(e, q)
<1>1. v \in ReachedFrom(d) /\ w \in ReachedFrom(e)
  BY ReplayReaches
<1>2. Unmodified(d) \in Views /\ Unmodified(e) \in Views
  BY UnmodifiedIsView
<1> HIDE DEF v, w
<1>3. /\ v \in Views /\ w \in Views /\ v = Overlayed(d, o)
      /\ v = [doc |-> v.doc, mask |-> v.mask] /\ w = [doc |-> w.doc, mask |-> w.mask]
  BY <1>1 DEF v, ReachedFrom, Views
<1>4. CASE HasOverlay(o) /\ o.mutation.type # "patch"
  <2>1. <<Unmodified(d), Unmodified(e)>> \in AlikeOnceWhole
    BY <1>2 DEF AlikeOnceWhole, Unmodified, Mask
  <2>2. <<v, w>> \in AlikeOnceWhole
    <3>1. AlikeOnceWhole \in SUBSET (Views \X Views)
      BY DEF AlikeOnceWhole
    <3> QED BY <2>1, <3>1, AlikeOnceWholeIsKept, ReplayKeepsRelation DEF v, w
  <2>3. Overlayed(e, o) = Overlayed(d, o) /\ Overlayed(d, o).mask.full
    BY <1>4 DEF Overlayed, ApplyToLocalView, SavedOverlays, Mutations, IsValidFor, NoMask
  <2>4. v = w
    BY <1>3, <2>2, <2>3 DEF AlikeOnceWhole
  <2> QED BY <1>3, <2>3, <2>4 DEF w
<1>5. CASE ~HasOverlay(o) \/ o.mutation.type = "patch"
  <2>1. e.type = "found" <=> d.type = "found"
    BY <1>5 DEF IsRecalculated
  <2>2. ASSUME v.doc.state = "local" <=> w.doc.state = "local", ~HasOverlay(o)
        PROVE  Overlayed(e, o) = w
    <3>1. v = Unmodified(d) /\ Overlayed(e, o) = Unmodified(e)
      BY <1>3, <2>2 DEF Overlayed, Unmodified
    <3>2. v.doc.state # "local"
      BY <3>1 DEF Unmodified
    <3> QED BY <1>1, <2>2, <3>1, <3>2 DEF ReachedFrom
  <2>3. ASSUME HasOverlay(o), v.doc.state = "local", w.doc.state = "local",
               w.doc.type = "found", v.mask = w.mask,
               \A f \in v.mask.fields : v.doc.data[f] = w.doc.data[f]
        PROVE  Overlayed(e, o) = w
    <3> DEFINE m == o.mutation
    <3>1. m \in Mutations /\ m.type = "patch" /\ m.inc = {} /\ ~m.mustExist
      BY <1>5, <2>3 DEF SavedOverlays
    <3> HIDE DEF m
    <3>2. /\ Overlayed(d, o).mask = Mask(m.mask) /\ Overlayed(e, o).mask = Mask(m.mask)
          /\ Overlayed(d, o).doc = Document("found", Patched(m, d.data), 0, "local")
          /\ Overlayed(e, o).doc = Document("found", Patched(m, e.data), 0, "local")
          /\ Overlayed(e, o) = [doc |-> Overlayed(e, o).doc, mask |-> Overlayed(e, o).mask]
      BY <2>3, <3>1 DEF Overlayed, ApplyToLocalView, IsValidFor, m
    <3>3. /\ v.mask = Mask(m.mask) /\ ~w.mask.full /\ w.mask.fields = m.mask
          /\ v.doc.data = Patched(m, d.data)
      BY <1>3, <2>3, <3>2 DEF Mask, Document
    <3>4. /\ w.doc.version = 0
          /\ \A f \in Fields : f \notin m.mask => w.doc.data[f] = e.data[f]
          /\ w.doc = Document("found", w.doc.data, 0, "local")
          /\ w.doc.data \in Data
      BY <1>1, <1>3, <2>3, <3>3 DEF ReachedFrom, Views, Docs, Document
    <3>5. \A f \in Fields : Patched(m, e.data)[f] = w.doc.data[f]
      BY <2>3, <3>1, <3>3, <3>4 DEF Patched
    <3>6. Patched(m, e.data) = w.doc.data
      <4>1. Patched(m, e.data) = [f \in Fields |-> Patched(m, e.data)[f]]
        BY DEF Patched
      <4>2. w.doc.data = [f \in Fields |-> w.doc.data[f]]
        BY <3>4 DEF Data
      <4> HIDE DEF Patched
      <4> QED BY <3>5, <4>1, <4>2
    <3> QED BY <1>3, <2>3, <3>2, <3>3, <3>4, <3>6
  <2>4. HasOverlay(o) => v.doc.state = "local"
    BY <1>3, <1>5 DEF Overlayed, ApplyToLocalView, IsValidFor, SavedOverlays, Document
  <2>5. CASE d.type = "found"
    <3>1. <<Unmodified(d), Unmodified(e)>> \in AlikeWhereMasked
      BY <1>2, <2>1, <2>5 DEF AlikeWhereMasked, Unmodified, Mask
    <3>2. AlikeWhereMasked \in SUBSET (Views \X Views)
      BY DEF AlikeWhereMasked
    <3>3. <<v, w>> \in AlikeWhereMasked
      BY <3>1, <3>2, AlikeWhereMaskedIsKept, ReplayKeepsRelation DEF v, w
    <3>4. ~v.mask.full
      BY <1>3, <1>5 DEF Overlayed, Mask
    <3>5. /\ v.mask = w.mask /\ w.doc.type = "found"
          /\ (v.doc.state = "local" <=> w.doc.state = "local")
          /\ \A f \in v.mask.fields : v.doc.data[f] = w.doc.data[f]
      BY <3>3, <3>4 DEF AlikeWhereMasked
    <3> QED BY <2>2, <2>3, <2>4, <3>5 DEF w
  <2>6. CASE d.type # "found"
    <3>1. <<Unmodified(d), Unmodified(e)>> \in AlikeWhereMissing(d, e)
      BY <1>2 DEF AlikeWhereMissing
    <3>2. AlikeWhereMissing(d, e) \in SUBSET (Views \X Views)
      BY DEF AlikeWhereMissing
    <3>3. <<v, w>> \in AlikeWhereMissing(d, e)
      BY <2>1, <2>6, <3>1, <3>2, AlikeWhereMissingIsKept, ReplayKeepsRelation DEF v, w
    <3>4. v = w \/ (v = Unmodified(d) /\ w = Unmodified(e))
      BY <3>3 DEF AlikeWhereMissing
    <3>5. v.doc.state = "local" <=> w.doc.state = "local"
      BY <3>4 DEF Unmodified
    <3>6. v.doc.state = "local" => v = w
      BY <3>4 DEF Unmodified
    <3>7. HasOverlay(o) => v.doc.type = "found"
      BY <1>3, <1>5 DEF Overlayed, ApplyToLocalView, IsValidFor, SavedOverlays, Document
    <3> QED BY <2>2, <2>3, <2>4, <3>5, <3>6, <3>7 DEF w
  <2> QED BY <2>5, <2>6
<1> QED BY <1>4, <1>5

-----------------------------------------------------------------------------
(* What holds of the views, and of what the client has of the backend *)

WellTyped ==
  /\ history \in Seq(Versions) /\ Len(history) >= 1
  /\ remote \in Docs /\ remote.state # "local"
  /\ queue \in Seq(Batches)
  /\ overlay \in SavedOverlays
  /\ reply \in Answers /\ (reply.state # "none" => queue # <<>>)
  /\ lastId \in Nat
  /\ setting \in AllSettings

\* The cached document is the latest that Watch sent, or one that a later
\* version of the backend's acknowledged.
FollowsWatch ==
  /\ watched \in 0..Len(history) /\ remote.version \in 0..Len(history)
  /\ reply.state = "acknowledged" => reply.version \in 1..Len(history)
  /\ IF watched = 0 THEN remote = Invalid \/ (remote.state = "committed" /\ remote.version > 0)
     ELSE \/ remote = Document(history[watched].type, history[watched].data, watched, "synced")
          \/ remote.state = "committed" /\ remote.version > watched

\* The overlay stands for a replay of the queue on the cached document.
StandsForReplay == ~outdated => Overlayed(remote, overlay) = Replayed(remote, queue)

ViewsInv == WellTyped /\ FollowsWatch /\ StandsForReplay

\* An overlay gives a view that mutations of the document may lead to.
LEMMA OverlayedIsReached ==
  ASSUME NEW d \in Docs, d.state # "local", NEW o \in SavedOverlays
  PROVE  /\ Overlayed(d, o) \in ReachedFrom(d)
         /\ ~HasOverlay(o) => Overlayed(d, o) = Unmodified(d)
         /\ HasOverlay(o) => Overlayed(d, o).doc.state = "local"
<1> DEFINE m == o.mutation
           v == ApplyToLocalView(m, [doc |-> d, mask |-> NoMask])
<1>1. CASE ~HasOverlay(o)
  <2>1. Overlayed(d, o) = Unmodified(d)
    BY <1>1 DEF Overlayed, Unmodified
  <2> QED BY <1>1, <2>1, UnmodifiedIsView DEF ReachedFrom, Unmodified, Mask
<1>2. CASE HasOverlay(o)
  <2>1. m \in Mutations /\ m.inc = {} /\ ~m.mustExist
    BY <1>2 DEF SavedOverlays
  <2> HIDE DEF m
  <2>2. [doc |-> d, mask |-> NoMask] \in Views
    BY DEF Views, Masks, NoMask
  <2>3. v \in Views /\ v.doc \in Docs
    BY <2>1, <2>2, ApplyKeepsViews DEF Views
  <2>4. CASE m.type = "patch"
    <3>1. /\ Overlayed(d, o) = [doc |-> v.doc, mask |-> Mask(m.mask)]
          /\ v.doc = Document("found", Patched(m, d.data), 0, "local")
      BY <1>2, <2>1, <2>4 DEF Overlayed, ApplyToLocalView, IsValidFor, m
    <3>2. \A f \in Fields : f \notin m.mask => Patched(m, d.data)[f] = d.data[f]
      BY <2>1 DEF Patched
    <3>3. Mask(m.mask) \in Masks
      BY <2>1 DEF Mask, Masks, Mutations
    <3>4. Overlayed(d, o) \in Views
      BY <2>3, <3>1, <3>3 DEF Views
    <3>5. /\ Overlayed(d, o).doc = Document("found", Patched(m, d.data), 0, "local")
          /\ Overlayed(d, o).mask.fields = m.mask /\ ~Overlayed(d, o).mask.full
      BY <3>1 DEF Mask
    <3> QED BY <1>2, <3>2, <3>4, <3>5 DEF ReachedFrom, Document
  <2>5. CASE m.type # "patch"
    <3>1. /\ Overlayed(d, o) = [doc |-> v.doc, mask |-> NoMask]
          /\ v.doc = Document(IF m.type = "set" THEN "found" ELSE "none", m.data, 0, "local")
      BY <1>2, <2>1, <2>5 DEF Overlayed, ApplyToLocalView, IsValidFor, m
    <3>2. NoMask \in Masks /\ NoMask.full
      BY DEF NoMask, Masks
    <3>3. Overlayed(d, o) \in Views
      BY <2>3, <3>1, <3>2 DEF Views
    <3> QED BY <1>2, <3>1, <3>2, <3>3 DEF ReachedFrom, Document
  <2> QED BY <2>4, <2>5
<1> QED BY <1>1, <1>2

LocalPairs == {p \in Views \X Views : p[1].doc.state = "local"}

\* What is mutated locally stays so.
LEMMA LocalStaysLocal ==
  ASSUME NEW b \in Batches, NEW v \in Views, v.doc.state = "local"
  PROVE  ApplyBatch(b, v).doc.state = "local"
<1>1. KeptByMutations(LocalPairs)
  <2>1. ASSUME NEW m \in Mutations, NEW w \in Views
        PROVE  /\ ApplyToLocalView(m, w) \in Views
               /\ w.doc.state = "local" => ApplyToLocalView(m, w).doc.state = "local"
    BY ApplyKeepsViews DEF ApplyToLocalView, Document
  <2> QED BY <2>1 DEF KeptByMutations, LocalPairs
<1>2. LocalPairs \in SUBSET (Views \X Views) /\ <<v, v>> \in LocalPairs
  BY DEF LocalPairs
<1>3. <<ApplyBatch(b, v), ApplyBatch(b, v)>> \in LocalPairs
  BY <1>1, <1>2, BatchKeepsRelation DEF KeptByBatches
<1> QED BY <1>3 DEF LocalPairs

\* LocalDocumentsView::RecalculateAndSaveOverlays: the saved overlay stands for
\* the replay, and so does none where there was none.
LEMMA RecalculatedStands ==
  ASSUME NEW d \in Docs, d.state # "local", NEW o \in SavedOverlays,
         NEW q \in Seq(Batches), RecalculateAndSaveOverlays(o, d, q)
  PROVE  /\ overlay' \in SavedOverlays
         /\ ~outdated' => Overlayed(d, overlay') = Replayed(d, q)
<1> DEFINE new == IF q = <<>> THEN NoOverlay ELSE Recalculated(d, q)
<1>1. /\ overlay' = (IF HasOverlay(new) THEN new ELSE o)
      /\ outdated' = (HasOverlay(o) /\ ~HasOverlay(new))
  BY DEF RecalculateAndSaveOverlays
<1>2. CASE q = <<>>
  <2>1. ~HasOverlay(new)
    BY <1>2 DEF HasOverlay
  <2>2. Replayed(d, q) = Unmodified(d)
    BY <1>2, ReplayOfNothing
  <2> QED BY <1>1, <2>1, <2>2, OverlayedIsReached
<1>3. CASE q # <<>>
  <2> DEFINE v == Replayed(d, q)
  <2>1. v \in ReachedFrom(d)
    BY ReplayReaches
  <2>2. Last(q).id \in Nat \ {0}
    <3>1. Last(q) \in Batches
      BY <1>3 DEF Last
    <3> QED BY <3>1 DEF Batches
  <2>3. new = CalculateOverlayMutation(v, Last(q).id)
    BY <1>3 DEF Recalculated
  <2> HIDE DEF v, new
  <2>4. /\ new \in SavedOverlays /\ Overlayed(d, new) = v
        /\ HasOverlay(new) <=> v.doc.state = "local"
    BY <2>1, <2>2, <2>3, CalculatedStandsForView
  <2>5. ~HasOverlay(new) => v = Unmodified(d)
    BY <2>1, <2>4 DEF ReachedFrom
  <2> QED BY <1>1, <2>4, <2>5, OverlayedIsReached DEF v
<1> QED BY <1>2, <1>3

\* MemoryDocumentOverlayCache::RemoveOverlaysForBatchId.
LEMMA RemovedIsSaved ==
  ASSUME NEW o \in SavedOverlays, NEW id
  PROVE  RemoveOverlaysForBatchId(o, id) \in SavedOverlays
<1>1. NoOverlay \in SavedOverlays
  BY DEF NoOverlay, SavedOverlays, HasOverlay, Delete, Mutation, Mutations, Data, NoData
<1> QED BY <1>1 DEF RemoveOverlaysForBatchId

LEMMA InitViews == Init => ViewsInv
<1> SUFFICES ASSUME Init PROVE ViewsInv
  OBVIOUS
<1>1. PICK s \in Settings :
        /\ setting = s /\ history = <<s.start>>
        /\ watched = IF s.cached THEN 1 ELSE 0
        /\ remote = IF s.cached THEN Document(s.start.type, s.start.data, 1, "synced")
                    ELSE Invalid
  BY DEF Init
<1>2. /\ queue = <<>> /\ overlay = NoOverlay /\ reply = NoReply /\ lastId = 0
  BY DEF Init
<1>3. s \in AllSettings /\ s.start \in Versions
  BY SettingsAssumption DEF AllSettings
<1>4. history \in Seq(Versions) /\ Len(history) = 1 /\ history[1] = s.start
  BY <1>1, <1>3
<1>5. NoData \in Data
  BY DEF Data, NoData
<1>6. remote \in Docs /\ remote.state # "local"
  BY <1>1, <1>3, <1>5 DEF Docs, Document, Invalid, Versions, Types, States
<1>7. overlay \in SavedOverlays /\ ~HasOverlay(overlay)
  BY <1>2, <1>5 DEF NoOverlay, SavedOverlays, HasOverlay, Delete, Mutation, Mutations
<1>8. reply \in Answers /\ reply.state = "none"
  BY <1>2, <1>5 DEF NoReply, Answers
<1>9. WellTyped
  BY <1>1, <1>2, <1>3, <1>4, <1>6, <1>7, <1>8 DEF WellTyped
<1>10. FollowsWatch
  BY <1>1, <1>4, <1>8 DEF FollowsWatch, Document, Invalid
<1>11. StandsForReplay
  BY <1>2, <1>6, <1>7, OverlayedIsReached, ReplayOfNothing DEF StandsForReplay
<1> QED BY <1>9, <1>10, <1>11 DEF ViewsInv

\* LocalStore::WriteLocally: the overlay of the view after the batch.
LEMMA WriteKeepsViews ==
  ASSUME ViewsInv, NEW mutations \in setting.writes, WriteLocally(mutations)
  PROVE  ViewsInv'
<1> DEFINE view == Overlayed(remote, overlay)
           b    == BatchFor(mutations, view.doc, lastId + 1)
           w    == ApplyBatch(b, view)
           new  == CalculateOverlayMutation(w, b.id)
<1>1. /\ lastId' = b.id /\ queue' = Append(queue, b)
      /\ overlay' = (IF HasOverlay(new) THEN new ELSE overlay)
      /\ UNCHANGED <<history, watched, remote, reply, foreign, outdated, setting>>
  BY DEF WriteLocally, BatchFor
<1>2. /\ remote \in Docs /\ remote.state # "local" /\ overlay \in SavedOverlays
      /\ lastId + 1 \in Nat \ {0} /\ queue \in Seq(Batches)
      /\ mutations \in Seq(Mutations) \ {<<>>}
  BY DEF ViewsInv, WellTyped, AllSettings
<1>3. b.id = lastId + 1
  BY DEF BatchFor
<1>4. view \in ReachedFrom(remote) /\ view \in Views /\ view.doc \in Docs
  BY <1>2, OverlayedIsReached DEF ReachedFrom, Views
<1> HIDE DEF view
<1>5. b \in Batches
  BY <1>2, <1>4, WriteMakesBatch
<1> HIDE DEF b
<1>6. w \in ReachedFrom(remote)
  BY <1>2, <1>4, <1>5, BatchReaches
<1>7. view.doc.state = "local" => w.doc.state = "local"
  BY <1>4, <1>5, LocalStaysLocal
<1> HIDE DEF w
<1>8. /\ new \in SavedOverlays /\ Overlayed(remote, new) = w
      /\ HasOverlay(new) <=> w.doc.state = "local"
  BY <1>2, <1>3, <1>6, CalculatedStandsForView
<1> HIDE DEF new
<1>9. WellTyped'
  <2>1. queue' \in Seq(Batches) /\ queue' # <<>> /\ overlay' \in SavedOverlays
        /\ lastId' \in Nat
    BY <1>1, <1>2, <1>3, <1>5, <1>8
  <2> QED BY <1>1, <2>1 DEF ViewsInv, WellTyped
<1>10. FollowsWatch'
  BY <1>1 DEF ViewsInv, FollowsWatch
<1>11. ASSUME ~outdated
       PROVE  Overlayed(remote, overlay') = Replayed(remote, queue')
  <2>1. Replayed(remote, queue') = w
    BY <1>1, <1>2, <1>5, <1>11, ReplayAppend DEF ViewsInv, StandsForReplay, view, w
  <2>2. CASE HasOverlay(new)
    BY <1>1, <1>8, <2>1, <2>2
  <2>3. CASE ~HasOverlay(new)
    <3>1. w = Unmodified(remote) /\ view.doc.state # "local"
      BY <1>6, <1>7, <1>8, <2>3 DEF ReachedFrom
    <3>2. ~HasOverlay(overlay)
      BY <1>2, <3>1, OverlayedIsReached DEF view
    <3> QED BY <1>1, <1>2, <2>1, <2>3, <3>1, <3>2, OverlayedIsReached
  <2> QED BY <2>2, <2>3
<1>12. StandsForReplay'
  BY <1>1, <1>11 DEF StandsForReplay
<1> QED BY <1>9, <1>10, <1>12 DEF ViewsInv

\* LocalStore::AcknowledgeBatch: the document becomes one of the version that
\* the backend acknowledged, which Watch has not sent if it is newer.
LEMMA AcknowledgeKeepsViews ==
  ASSUME ViewsInv, AcknowledgeBatch
  PROVE  ViewsInv'
<1> DEFINE o == RemoveOverlaysForBatchId(overlay, Head(queue).id)
<1>1. /\ reply.state = "acknowledged" /\ remote' = ApplyBatchResult(remote, Head(queue), reply)
      /\ queue' = Tail(queue) /\ RecalculateAndSaveOverlays(o, remote', queue')
      /\ reply' = NoReply /\ UNCHANGED <<history, watched, lastId, foreign, setting>>
  BY DEF AcknowledgeBatch
<1>2. /\ remote \in Docs /\ remote.state # "local" /\ overlay \in SavedOverlays
      /\ queue \in Seq(Batches) /\ queue # <<>> /\ reply \in Answers
      /\ reply.version \in 1..Len(history) /\ watched \in 0..Len(history)
      /\ Len(history) \in Nat
  BY <1>1 DEF ViewsInv, WellTyped, FollowsWatch
<1>3. Head(queue) \in Batches /\ queue' \in Seq(Batches)
  BY <1>1, <1>2
<1>4. /\ remote' \in Answered(remote, reply)
      /\ remote.version >= reply.version => remote' = remote
  BY <1>1, <1>2, <1>3, ResultIsAnswered
<1>5. remote' \in Docs /\ remote'.state # "local"
  BY <1>2, <1>4 DEF Answered
<1>6. o \in SavedOverlays
  BY <1>2, RemovedIsSaved
<1> HIDE DEF o
<1>7. /\ overlay' \in SavedOverlays
      /\ ~outdated' => Overlayed(remote', overlay') = Replayed(remote', queue')
  BY <1>1, <1>3, <1>5, <1>6, RecalculatedStands
<1>8. reply' \in Answers /\ reply'.state = "none"
  BY <1>1 DEF NoReply, Answers, Data, NoData
<1>9. WellTyped'
  BY <1>1, <1>3, <1>5, <1>7, <1>8 DEF ViewsInv, WellTyped
<1>10. FollowsWatch'
  <2>1. CASE remote' = remote
    BY <1>1, <1>8, <2>1 DEF ViewsInv, FollowsWatch
  <2>2. CASE remote' # remote
    <3>1. /\ remote'.state = "committed" /\ remote'.version = reply.version
          /\ ~(remote.version >= reply.version)
      BY <1>4, <2>2 DEF Answered
    <3>2. remote.version \in Nat /\ remote.version < reply.version
      BY <1>2, <3>1 DEF Docs
    <3>3. watched = 0 \/ remote.version >= watched
      BY <1>2, <3>2 DEF ViewsInv, FollowsWatch, Document
    <3>4. remote'.version > watched
      BY <1>2, <3>1, <3>2, <3>3
    <3> QED BY <1>1, <1>2, <1>8, <3>1, <3>4 DEF FollowsWatch
  <2> QED BY <2>1, <2>2
<1>11. StandsForReplay'
  BY <1>7 DEF StandsForReplay
<1> QED BY <1>9, <1>10, <1>11 DEF ViewsInv

\* LocalStore::RejectBatch: the document stays.
LEMMA RejectKeepsViews ==
  ASSUME ViewsInv, RejectBatch
  PROVE  ViewsInv'
<1> DEFINE o == RemoveOverlaysForBatchId(overlay, Head(queue).id)
<1>1. /\ reply.state = "refused" /\ queue' = Tail(queue)
      /\ RecalculateAndSaveOverlays(o, remote, queue')
      /\ reply' = NoReply /\ UNCHANGED <<history, watched, remote, lastId, foreign, setting>>
  BY DEF RejectBatch
<1>2. /\ remote \in Docs /\ remote.state # "local" /\ overlay \in SavedOverlays
      /\ queue \in Seq(Batches) /\ queue # <<>>
  BY <1>1 DEF ViewsInv, WellTyped
<1>3. queue' \in Seq(Batches)
  BY <1>1, <1>2
<1>4. o \in SavedOverlays
  BY <1>2, RemovedIsSaved
<1> HIDE DEF o
<1>5. /\ overlay' \in SavedOverlays
      /\ ~outdated' => Overlayed(remote, overlay') = Replayed(remote, queue')
  BY <1>1, <1>2, <1>3, <1>4, RecalculatedStands
<1>6. reply' \in Answers /\ reply'.state = "none"
  BY <1>1 DEF NoReply, Answers, Data, NoData
<1>7. WellTyped'
  BY <1>1, <1>3, <1>5, <1>6 DEF ViewsInv, WellTyped
<1>8. FollowsWatch'
  BY <1>1, <1>6 DEF ViewsInv, FollowsWatch
<1>9. StandsForReplay'
  BY <1>1, <1>5 DEF StandsForReplay
<1> QED BY <1>7, <1>8, <1>9 DEF ViewsInv

\* LocalStore::ApplyRemoteEvent: the overlay is calculated again, or stands for
\* the replay on the new version as it did on the old one.
LEMMA RemoteEventKeepsViews ==
  ASSUME ViewsInv, NEW v \in DOMAIN history, ApplyRemoteEvent(v)
  PROVE  ViewsInv'
<1> DEFINE new == Document(history[v].type, history[v].data, v, "synced")
           ec  == (new.type = "found") # (remote.type = "found")
<1>1. /\ v \in (watched + 1)..Len(history) /\ watched' = v
      /\ remote' = (IF IsUpdate(new, remote) THEN new ELSE remote)
      /\ IF IsUpdate(new, remote) /\ IsRecalculated(overlay, ec)
         THEN RecalculateAndSaveOverlays(overlay, new, queue)
         ELSE UNCHANGED <<overlay, outdated>>
      /\ UNCHANGED <<history, queue, reply, lastId, foreign, setting>>
  BY DEF ApplyRemoteEvent
<1>2. /\ remote \in Docs /\ remote.state # "local" /\ overlay \in SavedOverlays
      /\ queue \in Seq(Batches) /\ history \in Seq(Versions) /\ history[v] \in Versions
      /\ watched \in 0..Len(history) /\ Len(history) \in Nat
      /\ v \in Nat /\ v >= 1 /\ v > watched
  BY <1>1 DEF ViewsInv, WellTyped, FollowsWatch
<1>3. /\ new \in Docs /\ new.state = "synced" /\ new.type \in {"found", "none"}
      /\ new.version = v
  BY <1>2 DEF Document, Docs, Versions, Types, States
<1>4. CASE ~IsUpdate(new, remote)
  <2>1. remote' = remote /\ UNCHANGED <<overlay, outdated>>
    BY <1>1, <1>4
  <2>2. WellTyped' /\ StandsForReplay'
    BY <1>1, <2>1 DEF ViewsInv, WellTyped, StandsForReplay
  <2>3. /\ remote.type # "invalid" /\ remote.version \in Nat
        /\ ~(v > remote.version) /\ (v = remote.version => remote.state # "committed")
    BY <1>2, <1>3, <1>4 DEF IsUpdate, Docs
  <2>4. remote.state = "committed" /\ remote.version > v
    <3>1. CASE watched = 0
      <4>1. remote.state = "committed"
        BY <2>3, <3>1 DEF ViewsInv, FollowsWatch, Invalid, Document
      <4> QED BY <1>2, <2>3, <4>1
    <3>2. CASE watched # 0
      <4>1. \/ remote.version = watched
            \/ remote.state = "committed"
        BY <3>2 DEF ViewsInv, FollowsWatch, Document
      <4> QED BY <1>2, <2>3, <4>1
    <3> QED BY <3>1, <3>2
  <2>5. FollowsWatch'
    <3>1. watched' # 0 /\ watched' \in 0..Len(history)
      BY <1>1, <1>2
    <3> QED BY <1>1, <2>1, <2>4, <3>1 DEF ViewsInv, FollowsWatch
  <2> QED BY <2>2, <2>5 DEF ViewsInv
<1>5. CASE IsUpdate(new, remote)
  <2>1. remote' = new
    BY <1>1, <1>5
  <2>2. FollowsWatch'
    <3>1. watched' # 0 /\ watched' \in 0..Len(history)
      BY <1>1, <1>2
    <3>2. remote'.version \in 0..Len(history)
      BY <1>1, <1>2, <1>3, <2>1
    <3> QED BY <1>1, <2>1, <3>1, <3>2 DEF ViewsInv, FollowsWatch
  <2> HIDE DEF new
  <2>3. /\ overlay' \in SavedOverlays
        /\ ~outdated' => Overlayed(new, overlay') = Replayed(new, queue)
    <3>1. CASE IsRecalculated(overlay, ec)
      BY <1>1, <1>2, <1>3, <1>5, <3>1, RecalculatedStands
    <3>2. CASE ~IsRecalculated(overlay, ec)
      <4>1. overlay' = overlay /\ outdated' = outdated
        BY <1>1, <3>2
      <4>2. ASSUME ~outdated
            PROVE  Overlayed(new, overlay) = Replayed(new, queue)
        BY <1>2, <1>3, <3>2, <4>2, KeptOverlayStandsForReplay DEF ViewsInv, StandsForReplay
      <4> QED BY <1>2, <4>1, <4>2
    <3> QED BY <3>1, <3>2
  <2>4. WellTyped'
    BY <1>1, <1>3, <2>1, <2>3 DEF ViewsInv, WellTyped
  <2>5. StandsForReplay'
    BY <1>1, <2>1, <2>3 DEF StandsForReplay
  <2> QED BY <2>2, <2>4, <2>5 DEF ViewsInv
<1> QED BY <1>4, <1>5

\* A new version of the backend's leaves the others as they are.
LEMMA StoreKeepsViews ==
  ASSUME ViewsInv, NEW t, NEW data, [type |-> t, data |-> data] \in Versions,
         Store(t, data), UNCHANGED <<watched, remote, queue, overlay, lastId, outdated>>,
         setting' \in AllSettings,
         reply' \in Answers, reply'.state # "none" => queue # <<>>,
         reply'.state = "acknowledged" => reply'.version \in 1..(Len(history) + 1)
  PROVE  ViewsInv'
<1>1. /\ history \in Seq(Versions) /\ watched \in 0..Len(history)
      /\ history' = Append(history, [type |-> t, data |-> data])
  BY DEF ViewsInv, WellTyped, FollowsWatch, Store
<1>2. /\ history' \in Seq(Versions) /\ Len(history') = Len(history) + 1
      /\ Len(history) \in Nat
      /\ \A i \in 1..Len(history) : history'[i] = history[i]
  BY <1>1
<1>3. WellTyped'
  BY <1>2 DEF ViewsInv, WellTyped
<1>4. FollowsWatch'
  <2>1. watched = 0 \/ history'[watched] = history[watched]
    BY <1>1, <1>2
  <2>2. watched \in 0..(Len(history) + 1)
    BY <1>1, <1>2
  <2> QED BY <1>2, <2>1, <2>2 DEF ViewsInv, FollowsWatch
<1>5. StandsForReplay'
  BY DEF ViewsInv, StandsForReplay
<1> QED BY <1>3, <1>4, <1>5 DEF ViewsInv

\* The backend commits or refuses the first batch, or another client writes.
LEMMA BackendKeepsViews ==
  ASSUME ViewsInv, Commit \/ Refuse \/ \E doc \in setting.others : Change(doc)
  PROVE  ViewsInv'
<1>1. /\ history \in Seq(Versions) /\ Len(history) \in Nat /\ Len(history) >= 1
      /\ queue \in Seq(Batches) /\ reply \in Answers /\ setting \in AllSettings
      /\ reply.state # "none" => queue # <<>>
      /\ reply.state = "acknowledged" => reply.version \in 1..Len(history)
  BY DEF ViewsInv, WellTyped, FollowsWatch
<1>2. Current \in Versions
  BY <1>1 DEF Current, Last
<1>3. CASE Commit
  <2> DEFINE r == Committed(Head(queue))
  <2>1. /\ queue # <<>> /\ r.ok /\ Store(r.type, r.data)
        /\ reply' = [state |-> "acknowledged", version |-> Len(history) + 1, data |-> r.data]
        /\ UNCHANGED <<watched, remote, queue, overlay, lastId, foreign, outdated, setting>>
    BY <1>3 DEF Commit
  <2>2. r \in Outcomes
    BY <1>1, <1>2, <2>1, CommittedIsOutcome
  <2> HIDE DEF r
  <2>3. [type |-> r.type, data |-> r.data] \in Versions /\ r.data \in Data
    BY <2>2 DEF Outcomes, Versions
  <2>4. reply' \in Answers /\ reply'.version \in 1..(Len(history) + 1)
    BY <1>1, <2>1, <2>3 DEF Answers
  <2> QED BY <1>1, <2>1, <2>3, <2>4, StoreKeepsViews
<1>4. CASE Refuse
  <2>1. /\ queue # <<>> /\ reply' = [NoReply EXCEPT !.state = "refused"]
        /\ UNCHANGED <<history, watched, remote, queue, overlay, lastId, outdated>>
        /\ setting' = setting \/ (setting.refusals > 0
                                   /\ setting' = [setting EXCEPT !.refusals = @ - 1])
    BY <1>4 DEF Refuse
  <2>2. setting' \in AllSettings
    <3>1. CASE setting' = setting
      BY <1>1, <3>1
    <3>2. CASE setting.refusals > 0 /\ setting' = [setting EXCEPT !.refusals = @ - 1]
      <4>1. setting.refusals \in Nat /\ setting.refusals - 1 \in Nat
        BY <1>1, <3>2 DEF AllSettings
      <4> QED BY <1>1, <3>2, <4>1 DEF AllSettings
    <3> QED BY <2>1, <3>1, <3>2
  <2>3. reply' \in Answers /\ reply'.state = "refused"
    BY <2>1 DEF NoReply, Answers, Data, NoData
  <2>4. WellTyped'
    BY <2>1, <2>2, <2>3 DEF ViewsInv, WellTyped
  <2>5. FollowsWatch' /\ StandsForReplay'
    BY <2>1, <2>3 DEF ViewsInv, FollowsWatch, StandsForReplay
  <2> QED BY <2>4, <2>5 DEF ViewsInv
<1>5. CASE \E doc \in setting.others : Change(doc)
  <2>1. PICK doc \in setting.others : Change(doc)
    BY <1>5
  <2>2. /\ setting.changes > 0 /\ setting' = [setting EXCEPT !.changes = @ - 1]
        /\ Store(doc.type, doc.data)
        /\ UNCHANGED <<watched, remote, queue, overlay, reply, lastId, outdated>>
    BY <2>1 DEF Change
  <2>3. setting' \in AllSettings
    <3>1. setting.changes \in Nat /\ setting.changes - 1 \in Nat
      BY <1>1, <2>2 DEF AllSettings
    <3> QED BY <1>1, <2>2, <3>1 DEF AllSettings
  <2>4. [type |-> doc.type, data |-> doc.data] \in Versions
    BY <1>1, <2>1 DEF AllSettings, Versions
  <2>5. reply.state = "acknowledged" => reply.version \in 1..(Len(history) + 1)
    BY <1>1
  <2> QED BY <1>1, <2>2, <2>3, <2>4, <2>5, StoreKeepsViews
<1> QED BY <1>3, <1>4, <1>5

\* Every step keeps them.
LEMMA NextViews == ViewsInv /\ [Next]_vars => ViewsInv'
<1> SUFFICES ASSUME ViewsInv, [Next]_vars PROVE ViewsInv'
  OBVIOUS
<1>1. CASE \E mutations \in setting.writes : WriteLocally(mutations)
  BY <1>1, WriteKeepsViews
<1>2. CASE \E v \in DOMAIN history : ApplyRemoteEvent(v)
  BY <1>2, RemoteEventKeepsViews
<1>3. CASE AcknowledgeBatch
  BY <1>3, AcknowledgeKeepsViews
<1>4. CASE RejectBatch
  BY <1>4, RejectKeepsViews
<1>5. CASE Commit \/ Refuse \/ \E doc \in setting.others : Change(doc)
  BY <1>5, BackendKeepsViews
<1>6. CASE UNCHANGED vars
  BY <1>6 DEF ViewsInv, WellTyped, FollowsWatch, StandsForReplay, vars
<1> QED BY <1>1, <1>2, <1>3, <1>4, <1>5, <1>6 DEF Next

\* Reads apply the overlay to the document, or to none if it needs none.
LEMMA ReadIsOverlayed ==
  ASSUME WellTyped
  PROVE  LocalView = Overlayed(remote, overlay).doc
<1>1. overlay \in SavedOverlays
  BY DEF WellTyped
<1> QED
  BY <1>1 DEF LocalView, GetBaseDocument, Overlayed, ApplyToLocalView, IsValidFor,
              SavedOverlays, Mutations

\* What the saved mutation gives and what a replay of the pending batches gives
\* are the same document, after any sequence of writes, answers, refusals and
\* remote changes, until a recalculation leaves an outdated overlay.
THEOREM ViewsAreReplayed == Spec => []ViewIsReplayed
<1>1. Init => ViewsInv
  BY InitViews
<1>2. ViewsInv /\ [Next]_vars => ViewsInv'
  BY NextViews
<1>3. ViewsInv => ViewIsReplayed
  BY ReadIsOverlayed DEF ViewsInv, StandsForReplay, ViewIsReplayed, Same
<1> QED
  BY <1>1, <1>2, <1>3, PTL DEF Spec

\* When nothing is pending and Watch has caught up, reads give what the backend
\* has: with the batches the overlay went, and the cached document is the last
\* version, since none that is newer can have been acknowledged.
THEOREM SettledViewsAreServer == Spec => []SettledIsServer
<1>1. Init => ViewsInv
  BY InitViews
<1>2. ViewsInv /\ [Next]_vars => ViewsInv'
  BY NextViews
<1>3. ASSUME ViewsInv, OverlaysArePending
      PROVE  SettledIsServer
  <2> SUFFICES ASSUME queue = <<>>, watched = Len(history)
               PROVE  LocalView.type = Current.type /\ LocalView.data = Current.data
    BY DEF SettledIsServer
  <2>1. ~HasOverlay(overlay)
    BY <1>3 DEF OverlaysArePending
  <2>2. LocalView = remote
    BY <1>3, <2>1, ReadIsOverlayed DEF ViewsInv, Overlayed
  <2>3. /\ watched # 0 /\ reply.state = "none" /\ remote \in Docs
        /\ Len(history) \in Nat
    BY <1>3 DEF ViewsInv, WellTyped
  <2>4. remote = Document(history[watched].type, history[watched].data, watched, "synced")
    BY <1>3, <2>3 DEF ViewsInv, FollowsWatch
  <2> QED BY <2>2, <2>4 DEF Current, Last, Document
<1> QED
  BY <1>1, <1>2, <1>3, OverlaysStayPending, PTL DEF Spec

-----------------------------------------------------------------------------
(* Documents with the same contents *)

Alike(d, e) == d.type = e.type /\ d.data = e.data

\* A version of the backend's as a document.
DocOf(version) == Document(version.type, version.data, 0, "synced")

LEMMA DocOfVersion ==
  ASSUME NEW version \in Versions
  PROVE  /\ DocOf(version) \in Docs /\ DocOf(version).state # "local"
         /\ Alike(DocOf(version), version)
BY DEF DocOf, Document, Docs, Versions, Types, States, Alike

AlikePairs == {p \in Views \X Views : Alike(p[1].doc, p[2].doc)}

\* The contents of a view decide those of the view after a batch.
LEMMA AlikePairsAreKept ==
  AlikePairs \in SUBSET (Views \X Views) /\ KeptByBatches(AlikePairs)
<1>1. ASSUME NEW m \in Mutations, NEW p \in AlikePairs
      PROVE  <<ApplyToLocalView(m, p[1]), ApplyToLocalView(m, p[2])>> \in AlikePairs
  <2>1. /\ p[1] \in Views /\ p[2] \in Views
        /\ p[1].doc.type = p[2].doc.type /\ p[1].doc.data = p[2].doc.data
        /\ ApplyToLocalView(m, p[1]) \in Views /\ ApplyToLocalView(m, p[2]) \in Views
    BY ApplyKeepsViews DEF AlikePairs, Alike
  <2>2. Alike(ApplyToLocalView(m, p[1]).doc, ApplyToLocalView(m, p[2]).doc)
    BY <2>1 DEF Alike, ApplyToLocalView, IsValidFor, Document
  <2> QED BY <2>1, <2>2 DEF AlikePairs
<1>2. KeptByMutations(AlikePairs) /\ AlikePairs \in SUBSET (Views \X Views)
  BY <1>1 DEF KeptByMutations, AlikePairs
<1> QED BY <1>2, BatchKeepsRelation

LEMMA AlikeBatches ==
  ASSUME NEW b \in Batches, NEW v \in Views, NEW w \in Views, Alike(v.doc, w.doc)
  PROVE  Alike(ApplyBatch(b, v).doc, ApplyBatch(b, w).doc)
<1>1. <<v, w>> \in AlikePairs
  BY DEF AlikePairs
<1>2. <<ApplyBatch(b, v), ApplyBatch(b, w)>> \in AlikePairs
  BY <1>1, AlikePairsAreKept DEF KeptByBatches
<1> QED BY <1>2 DEF AlikePairs

LEMMA AlikeReplays ==
  ASSUME NEW q \in Seq(Batches), NEW d \in Docs, NEW e \in Docs, Alike(d, e)
  PROVE  Alike(Replayed(d, q).doc, Replayed(e, q).doc)
<1>1. <<Unmodified(d), Unmodified(e)>> \in AlikePairs
  BY UnmodifiedIsView DEF AlikePairs, Unmodified
<1>2. <<Replayed(d, q), Replayed(e, q)>> \in AlikePairs
  BY <1>1, AlikePairsAreKept, ReplayKeepsRelation
<1> QED BY <1>2 DEF AlikePairs

\* A replay of a queue from a document that its first batch led to.
LEMMA AlikeTails ==
  ASSUME NEW q \in Seq(Batches), q # <<>>, NEW d \in Docs, NEW e \in Docs,
         Alike(ApplyBatch(Head(q), Unmodified(d)).doc, e),
         NEW f \in [0..Len(q) -> Views], Trace(f, BatchStep, Unmodified(d), q),
         NEW g \in [0..Len(Tail(q)) -> Views], Trace(g, BatchStep, Unmodified(e), Tail(q))
  PROVE  \A i \in 0..Len(Tail(q)) : Alike(f[i + 1].doc, g[i].doc)
<1> DEFINE t == Tail(q)
           n == Len(t)
           G == {i \in 0..n : Alike(f[i + 1].doc, g[i].doc)}
<1>1. /\ t \in Seq(Batches) /\ n \in Nat /\ Len(q) = n + 1 /\ Head(q) = q[1] /\ q[1] \in Batches
      /\ \A i \in 1..n : t[i] = q[i + 1] /\ t[i] \in Batches
  OBVIOUS
<1> HIDE DEF t, n
<1>2. 0 \in G
  <2>1. f[0] = Unmodified(d) /\ f[1] = BatchStep[q[1]][f[0]] /\ g[0] = Unmodified(e)
    <3>1. 1 \in 1..Len(q) /\ 1 - 1 = 0
      BY <1>1
    <3> QED BY <3>1 DEF Trace
  <2>2. f[1] = ApplyBatch(q[1], Unmodified(d))
    BY <1>1, <2>1, UnmodifiedIsView DEF BatchStep
  <2> QED BY <1>1, <2>1, <2>2 DEF Unmodified
<1>3. ASSUME NEW i \in 1..n, i - 1 \in G
      PROVE  i \in G
  <2>1. i \in 1..Len(q) /\ i + 1 \in 1..Len(q) /\ i \in 1..Len(t) /\ i - 1 \in 0..n
    BY <1>1 DEF n
  <2>2. f[i] \in Views /\ g[i - 1] \in Views /\ Alike(f[i].doc, g[i - 1].doc)
    <3>1. i - 1 \in 0..Len(Tail(q)) /\ i \in 0..Len(q) /\ i - 1 + 1 = i
      BY <2>1 DEF n, t
    <3> QED BY <1>3, <3>1
  <2>3. f[i + 1] = BatchStep[q[i + 1]][f[i]]
    <3>1. i + 1 - 1 = i
      OBVIOUS
    <3> QED BY <2>1, <3>1 DEF Trace
  <2>4. g[i] = BatchStep[t[i]][g[i - 1]]
    BY <2>1 DEF Trace, t
  <2>5. f[i + 1] = ApplyBatch(t[i], f[i]) /\ g[i] = ApplyBatch(t[i], g[i - 1])
    BY <1>1, <2>2, <2>3, <2>4 DEF BatchStep
  <2>6. Alike(f[i + 1].doc, g[i].doc)
    BY <1>1, <2>2, <2>5, AlikeBatches
  <2> QED BY <2>1, <2>6
<1>4. \A i \in 0..n : i \in G
  <2> HIDE DEF G
  <2> QED BY <1>1, <1>2, <1>3, Reaches
<1> QED BY <1>4 DEF n, t

\* A document that exists is changed by any mutation.
LEMMA FoundIsMutated ==
  ASSUME NEW d \in Docs, d.type = "found", NEW q \in Seq(Batches), q # <<>>
  PROVE  Replayed(d, q).doc.state = "local"
<1> DEFINE n == Len(q)
<1>1. PICK g \in [0..n -> Views] :
        Trace(g, BatchStep, Unmodified(d), q) /\ Replayed(d, q) = g[n]
  BY QueueTrace
<1>2. n \in Nat /\ n >= 1 /\ q[1] \in Batches
  OBVIOUS
<1>3. g[1] = ApplyBatch(q[1], Unmodified(d))
  <2>1. 1 \in 1..n /\ 1 - 1 = 0
    BY <1>2
  <2> QED BY <1>1, <1>2, <2>1, UnmodifiedIsView DEF Trace, BatchStep
<1>4. g[1].doc.state = "local"
  <2> DEFINE s == Steps(q[1])
             k == Len(s)
  <2>1. /\ s \in Seq(Mutations) /\ k \in Nat /\ k >= 1
        /\ \A i \in 1..k : s[i] \in Mutations
    <3> DEFINE c == q[1].base
               m == q[1].mutations
    <3>1. c \in Seq(Mutations) /\ m \in Seq(Mutations) /\ m # <<>> /\ s = c \o m
      BY <1>2 DEF Steps, Batches
    <3> HIDE DEF c, m, s
    <3>2. Len(s) = Len(c) + Len(m) /\ Len(c) \in Nat /\ Len(m) \in Nat /\ Len(m) # 0
      BY <3>1
    <3>3. s \in Seq(Mutations)
      BY <3>1
    <3> QED BY <3>2, <3>3
  <2>2. PICK f \in [0..k -> Views] :
          Trace(f, LocalStep, Unmodified(d), s) /\ g[1] = f[k]
    BY <1>2, <1>3, BatchTrace, UnmodifiedIsView
  <2> HIDE DEF k, s
  <2> DEFINE G == {i \in 0..k : i = 0 \/ f[i].doc.state = "local"}
  <2>3. 0 \in G
    BY <2>1
  <2>4. ASSUME NEW i \in 1..k, i - 1 \in G
        PROVE  i \in G
    <3>1. s[i] \in Mutations /\ f[i - 1] \in Views
      <4>1. i - 1 \in 0..k
        BY <2>1
      <4> QED BY <2>1, <4>1
    <3>2. f[i] = ApplyToLocalView(s[i], f[i - 1])
      BY <2>2, <3>1 DEF Trace, LocalStep, k
    <3>3. CASE i = 1
      <4>1. f[0] = Unmodified(d)
        BY <2>2 DEF Trace
      <4>2. f[i - 1].doc.type = "found"
        BY <3>3, <4>1 DEF Unmodified
      <4> QED BY <3>2, <4>2 DEF ApplyToLocalView, IsValidFor, Document
    <3>4. CASE i # 1
      <4>1. f[i - 1].doc.state = "local"
        BY <2>4, <3>4
      <4> QED BY <3>2, <4>1 DEF ApplyToLocalView, Document
    <3> QED BY <3>3, <3>4
  <2>5. \A i \in 0..k : i \in G
    <3> HIDE DEF G
    <3> QED BY <2>1, <2>3, <2>4, Reaches
  <2> QED BY <2>1, <2>2, <2>5
<1> DEFINE H == {i \in 0..n : i = 0 \/ g[i].doc.state = "local"}
<1>5. ASSUME NEW i \in 1..n, i - 1 \in H
      PROVE  i \in H
  <2>1. q[i] \in Batches /\ g[i - 1] \in Views
    OBVIOUS
  <2>2. g[i] = ApplyBatch(q[i], g[i - 1])
    BY <1>1, <2>1 DEF Trace, BatchStep
  <2> QED BY <1>4, <1>5, <2>1, <2>2, LocalStaysLocal
<1>6. \A i \in 0..n : i \in H
  <2>1. 0 \in H
    BY <1>2
  <2> HIDE DEF H, n
  <2> QED BY <1>2, <1>5, <2>1, Reaches
<1> QED BY <1>1, <1>2, <1>6

-----------------------------------------------------------------------------
(* The local view of a batch and the outcome at the backend *)

\* The base comes first, then the mutations.
LEMMA StepsOfBatch ==
  ASSUME NEW b \in Batches
  PROVE  /\ Steps(b) \in Seq(Mutations) /\ Len(b.base) \in Nat /\ Len(b.mutations) \in Nat
         /\ Len(b.mutations) >= 1 /\ Len(Steps(b)) = Len(b.base) + Len(b.mutations)
         /\ \A i \in 1..Len(b.base) : Steps(b)[i] = b.base[i] /\ b.base[i] \in Mutations
         /\ \A i \in 1..Len(b.mutations) :
              Steps(b)[Len(b.base) + i] = b.mutations[i] /\ b.mutations[i] \in Mutations
<1> DEFINE c == b.base
           d == b.mutations
           s == Steps(b)
<1>1. c \in Seq(Mutations) /\ d \in Seq(Mutations) /\ d # <<>> /\ s = c \o d
  BY DEF Batches, Steps
<1> HIDE DEF c, d, s
<1>2. /\ s \in Seq(Mutations) /\ Len(c) \in Nat /\ Len(d) \in Nat /\ Len(d) # 0
      /\ Len(s) = Len(c) + Len(d)
  BY <1>1
<1>3. \A i \in 1..Len(c) : s[i] = c[i] /\ c[i] \in Mutations
  BY <1>1
<1>4. ASSUME NEW i \in 1..Len(d)
      PROVE  s[Len(c) + i] = d[i] /\ d[i] \in Mutations
  <2>1. Len(c) + i \in 1..(Len(c) + Len(d)) /\ Len(c) + i > Len(c) /\ Len(c) + i - Len(c) = i
    BY <1>2
  <2> QED BY <1>1, <1>2, <2>1
<1>5. Len(d) >= 1
  BY <1>2
<1> QED BY <1>1, <1>2, <1>3, <1>4, <1>5 DEF c, d, s

\* The base states of a batch are the fields of a document.
BasesAre(b, data) ==
  \A k \in DOMAIN b.base : \A x \in b.base[k].mask : b.base[k].data[x] = data[x]

InBase(b, x) == \E k \in DOMAIN b.base : x \in b.base[k].mask

\* After the base states of a document in a view of that document, or of another
\* that exists.
LEMMA AfterBase ==
  ASSUME NEW b \in Batches, NEW d \in Docs, NEW data \in Data, BasesAre(b, data),
         d.type = "found" \/ d.data = data,
         NEW f \in [0..Len(Steps(b)) -> Views], Trace(f, LocalStep, Unmodified(d), Steps(b))
  PROVE  /\ f[Len(b.base)].doc.type = d.type
         /\ \A x \in Fields :
              \/ f[Len(b.base)].doc.data[x] = data[x]
              \/ f[Len(b.base)].doc.data[x] = d.data[x] /\ ~InBase(b, x)
<1> DEFINE s == Steps(b)
           l == Len(b.base)
           n == Len(s)
           Reset(i, x) == \E k \in 1..i : x \in b.base[k].mask
           G == {i \in 0..l : /\ f[i].doc.type = d.type
                              /\ \A x \in Fields :
                                   \/ f[i].doc.data[x] = data[x]
                                   \/ f[i].doc.data[x] = d.data[x] /\ ~Reset(i, x)}
<1>1. /\ l \in Nat /\ n \in Nat /\ l <= n /\ DOMAIN b.base = 1..l
      /\ \A i \in 1..l : /\ s[i] = b.base[i] /\ s[i] \in Mutations /\ b.base[i].type = "patch"
                         /\ b.base[i].inc = {} /\ b.base[i].mustExist
      /\ \A i \in 1..l : \A x \in b.base[i].mask : b.base[i].data[x] = data[x]
  <2>1. b.base \in Seq(Mutations)
    BY DEF Batches
  <2>2. DOMAIN b.base = 1..l
    BY <2>1
  <2>3. /\ l \in Nat /\ n \in Nat /\ l <= n
        /\ \A i \in 1..l : s[i] = b.base[i] /\ s[i] \in Mutations
    BY StepsOfBatch
  <2>4. \A i \in 1..l : b.base[i].type = "patch" /\ b.base[i].inc = {} /\ b.base[i].mustExist
    BY <2>2 DEF Batches
  <2>5. \A i \in 1..l : \A x \in b.base[i].mask : b.base[i].data[x] = data[x]
    BY <2>2 DEF BasesAre
  <2> QED BY <2>2, <2>3, <2>4, <2>5
<1>2. f[0] = Unmodified(d) /\ \A i \in 1..n : f[i] = LocalStep[s[i]][f[i - 1]]
  BY DEF Trace
<1> HIDE DEF s, n, l
<1>3. 0 \in G
  <2>1. \A x : ~Reset(0, x)
    OBVIOUS
  <2> QED BY <1>1, <1>2, <2>1 DEF Unmodified
<1>4. ASSUME NEW i \in 1..l, i - 1 \in G
      PROVE  i \in G
  <2> DEFINE v == f[i - 1]
             m == b.base[i]
  <2>1. /\ v \in Views /\ i \in 1..n /\ m \in Mutations /\ m.type = "patch" /\ m.inc = {}
        /\ m.mustExist /\ \A x \in m.mask : m.data[x] = data[x]
    <3>1. i \in 1..n /\ i - 1 \in 0..n
      BY <1>1
    <3> QED BY <1>1, <3>1 DEF n, s
  <2>2. f[i] = ApplyToLocalView(m, v)
    BY <1>1, <1>2, <2>1 DEF LocalStep
  <2>3. /\ v.doc.type = d.type
        /\ \A x \in Fields : \/ v.doc.data[x] = data[x]
                             \/ v.doc.data[x] = d.data[x] /\ ~Reset(i - 1, x)
    BY <1>4
  <2>4. \A x : Reset(i, x) => Reset(i - 1, x) \/ x \in m.mask
    <3>1. \A k \in 1..i : k = i \/ k \in 1..(i - 1)
      OBVIOUS
    <3> QED BY <3>1
  <2> HIDE DEF v, m
  <2>5. CASE d.type # "found"
    <3>1. f[i] = v
      BY <2>1, <2>2, <2>3, <2>5 DEF ApplyToLocalView, IsValidFor
    <3> QED BY <2>3, <2>5, <3>1
  <2>6. CASE d.type = "found"
    <3>1. f[i].doc = Document("found", Patched(m, v.doc.data), 0, "local")
      BY <2>1, <2>2, <2>3, <2>6 DEF ApplyToLocalView, IsValidFor
    <3>2. ASSUME NEW x \in Fields
          PROVE  \/ f[i].doc.data[x] = data[x]
                 \/ f[i].doc.data[x] = d.data[x] /\ ~Reset(i, x)
      <4>1. f[i].doc.data[x] = IF x \in m.mask THEN m.data[x] ELSE v.doc.data[x]
        BY <2>1, <3>1 DEF Document, Patched
      <4>2. CASE x \in m.mask
        BY <2>1, <4>1, <4>2
      <4>3. CASE x \notin m.mask
        BY <2>3, <2>4, <4>1, <4>3
      <4> QED BY <4>2, <4>3
    <3>3. f[i].doc.type = "found"
      BY <3>1 DEF Document
    <3> QED BY <2>6, <3>2, <3>3
  <2> QED BY <2>5, <2>6
<1>5. l \in G
  <2> HIDE DEF G
  <2>1. \A i \in 0..l : i \in G
    BY <1>1, <1>3, <1>4, Reaches
  <2> QED BY <1>1, <2>1
<1> QED BY <1>1, <1>5 DEF l, InBase

CommitsEach(c, b, n) ==
  \A i \in 1..n :
    LET m == b.mutations[i]
    IN  c[i].ok => /\ c[i - 1].ok /\ IsValidFor(m, c[i - 1])
                   /\ c[i].type = IF m.type = "delete" THEN "none" ELSE "found"
                   /\ c[i].data = IF m.type = "patch" THEN Patched(m, c[i - 1].data)
                                  ELSE m.data

\* A batch is committed if every mutation of it is valid where it is applied.
LEMMA EachIsCommitted ==
  ASSUME NEW b \in Batches, Current \in Versions
  PROVE  LET n == Len(b.mutations)
         IN  \E c \in [0..n -> Outcomes] :
               /\ c[0].type = Current.type /\ c[0].data = Current.data
               /\ CommitsEach(c, b, n) /\ Committed(b) = c[n]
<1> DEFINE n == Len(b.mutations)
<1>1. PICK c \in [0..n -> Outcomes] :
        Trace(c, CommitStep, NotCommitted, b.mutations) /\ Committed(b) = c[n]
  BY CommitTrace
<1>2. n \in Nat /\ \A i \in 1..n : b.mutations[i] \in Mutations
  BY StepsOfBatch
<1>3. c[0] = NotCommitted /\ \A i \in 1..n : c[i] = CommitStep[b.mutations[i]][c[i - 1]]
  BY <1>1 DEF Trace
<1> HIDE DEF n
<1>4. ASSUME NEW i \in 1..n, c[i].ok
      PROVE  LET m == b.mutations[i]
             IN  /\ c[i - 1].ok /\ IsValidFor(m, c[i - 1])
                 /\ c[i].type = IF m.type = "delete" THEN "none" ELSE "found"
                 /\ c[i].data = IF m.type = "patch" THEN Patched(m, c[i - 1].data)
                                ELSE m.data
  <2> DEFINE m == b.mutations[i]
             r == c[i - 1]
  <2>1. m \in Mutations /\ r \in Outcomes
    BY <1>2
  <2>2. c[i] = CommitOne(r, m)
    BY <1>3, <2>1 DEF CommitStep
  <2>3. r.ok /\ IsValidFor(m, r)
    <3>1. ~(r.ok /\ IsValidFor(m, r)) => ~CommitOne(r, m).ok
      BY <2>1 DEF CommitOne, Outcomes
    <3> QED BY <1>4, <2>2, <3>1
  <2> HIDE DEF m, r
  <2>4. c[i] = [ok   |-> TRUE,
                type |-> IF m.type = "delete" THEN "none" ELSE "found",
                data |-> IF m.type = "patch" THEN Patched(m, r.data) ELSE m.data]
    BY <2>2, <2>3 DEF CommitOne
  <2> QED BY <2>3, <2>4 DEF m, r
<1> QED BY <1>1, <1>3, <1>4 DEF CommitsEach, NotCommitted, n

\* What the user sees of a batch, on the document the backend has, is what the
\* backend makes of it.
LEMMA CommitsWhatIsSeen ==
  ASSUME NEW b \in Batches, Current \in Versions, BasesAre(b, Current.data),
         Committed(b).ok
  PROVE  Alike(ApplyBatch(b, Unmodified(DocOf(Current))).doc, Committed(b))
<1> DEFINE n == Len(b.mutations)
           l == Len(b.base)
           s == Steps(b)
           d == DocOf(Current)
<1>1. /\ n \in Nat /\ l \in Nat /\ n >= 1 /\ Len(s) = l + n
      /\ \A i \in 1..n : s[l + i] = b.mutations[i] /\ b.mutations[i] \in Mutations
  BY StepsOfBatch
<1>2. d \in Docs /\ d.data = Current.data /\ d.type = Current.type /\ Current.data \in Data
  BY DocOfVersion DEF Alike, Versions
<1> HIDE DEF d
<1>3. l \in 0..(l + n) /\ \A i \in 1..n : l + i \in 1..(l + n)
  <2> HIDE DEF n, l, s
  <2> QED BY <1>1
<1>4. PICK f \in [0..Len(s) -> Views] :
        Trace(f, LocalStep, Unmodified(d), s) /\ ApplyBatch(b, Unmodified(d)) = f[Len(s)]
  BY <1>2, BatchTrace, UnmodifiedIsView
<1>5. PICK c \in [0..n -> Outcomes] :
        /\ c[0].type = Current.type /\ c[0].data = Current.data
        /\ CommitsEach(c, b, n) /\ Committed(b) = c[n]
  BY EachIsCommitted
<1>6. Alike(f[l].doc, c[0])
  <2>1. f[l].doc.type = d.type /\ \A x \in Fields : f[l].doc.data[x] = Current.data[x]
    BY <1>2, <1>4, AfterBase
  <2>2. f[l].doc.data \in Data
    <3>1. l \in 0..Len(s)
      BY <1>1, <1>3
    <3>2. f[l] \in Views
      BY <3>1
    <3> QED BY <3>2 DEF Views, Docs
  <2>3. f[l].doc.data = Current.data
    BY <1>2, <2>1, <2>2 DEF Data
  <2> QED BY <1>2, <1>5, <2>1, <2>3 DEF Alike
<1>7. \A i \in 1..n : f[l + i] = LocalStep[b.mutations[i]][f[l + i - 1]]
  <2> SUFFICES ASSUME NEW i \in 1..n
               PROVE  f[l + i] = LocalStep[b.mutations[i]][f[l + i - 1]]
    OBVIOUS
  <2>1. l + i \in 1..Len(s)
    BY <1>1, <1>3
  <2>2. f[l + i] = LocalStep[s[l + i]][f[l + i - 1]]
    BY <1>4, <2>1 DEF Trace
  <2> QED BY <1>1, <2>2
<1> HIDE DEF n, l, s
<1> DEFINE G == {i \in 0..n : c[i].ok => Alike(f[l + i].doc, c[i])}
<1>8. 0 \in G
  BY <1>1, <1>6
<1>9. ASSUME NEW i \in 1..n, i - 1 \in G
      PROVE  i \in G
  <2> SUFFICES ASSUME c[i].ok
               PROVE  Alike(f[l + i].doc, c[i])
    OBVIOUS
  <2> DEFINE m == b.mutations[i]
             v == f[l + i - 1]
             r == c[i - 1]
  <2>1. m \in Mutations /\ v \in Views /\ r \in Outcomes
    <3>1. l + i - 1 \in 0..Len(s) /\ i - 1 \in 0..n
      BY <1>1
    <3> QED BY <1>1, <3>1
  <2>2. /\ r.ok /\ IsValidFor(m, r)
        /\ c[i].type = IF m.type = "delete" THEN "none" ELSE "found"
        /\ c[i].data = IF m.type = "patch" THEN Patched(m, r.data) ELSE m.data
    BY <1>5 DEF CommitsEach
  <2>3. Alike(v.doc, r)
    <3>1. l + (i - 1) = l + i - 1
      BY <1>1
    <3> QED BY <1>9, <2>2, <3>1
  <2>4. f[l + i] = ApplyToLocalView(m, v)
    BY <1>7, <2>1 DEF LocalStep
  <2> HIDE DEF m, v, r
  <2> QED BY <2>1, <2>2, <2>3, <2>4
          DEF Alike, ApplyToLocalView, IsValidFor, Document, Mutations
<1>10. n \in G
  <2> HIDE DEF G
  <2>1. \A i \in 0..n : i \in G
    BY <1>1, <1>8, <1>9, Reaches
  <2> QED BY <1>1, <2>1
<1> QED BY <1>1, <1>4, <1>5, <1>10 DEF d

WholePairs == {p \in Views \X Views : p[1].mask.full}

\* A view of the whole document stays one.
LEMMA WholeStaysWhole ==
  ASSUME NEW b \in Batches, NEW v \in Views, v.mask.full
  PROVE  ApplyBatch(b, v).mask.full
<1>1. KeptByMutations(WholePairs)
  <2>1. ASSUME NEW m \in Mutations, NEW w \in Views
        PROVE  /\ ApplyToLocalView(m, w) \in Views
               /\ w.mask.full => ApplyToLocalView(m, w).mask.full
    BY ApplyKeepsViews DEF ApplyToLocalView, NoMask
  <2> QED BY <2>1 DEF KeptByMutations, WholePairs
<1>2. WholePairs \in SUBSET (Views \X Views) /\ <<v, v>> \in WholePairs
  BY DEF WholePairs
<1>3. <<ApplyBatch(b, v), ApplyBatch(b, v)>> \in WholePairs
  BY <1>1, <1>2, BatchKeepsRelation DEF KeptByBatches
<1> QED BY <1>3 DEF WholePairs

\* A batch that the backend has committed, applied to the outcome once more,
\* leaves it: an increment counts from the base that the batch sets first.
LEMMA CommittedAppliesOnce ==
  ASSUME NEW b \in Batches, Current \in Versions, BasesAre(b, Current.data),
         Committed(b).ok
  PROVE  Alike(ApplyBatch(b, Unmodified(DocOf(Committed(b)))).doc, Committed(b))
<1> DEFINE n == Len(b.mutations)
           l == Len(b.base)
           s == Steps(b)
           d == DocOf(Current)
           e == DocOf(Committed(b))
<1>1. /\ n \in Nat /\ l \in Nat /\ n >= 1 /\ Len(s) = l + n
      /\ \A i \in 1..n : s[l + i] = b.mutations[i] /\ b.mutations[i] \in Mutations
  BY StepsOfBatch
<1>2. d \in Docs /\ d.data = Current.data /\ d.type = Current.type /\ Current.data \in Data
      /\ d.state # "local"
  BY DocOfVersion DEF Alike, Versions
<1>3. Committed(b) \in Outcomes
  BY CommittedIsOutcome
<1>4. e \in Docs /\ e.data = Committed(b).data /\ e.type = Committed(b).type
      /\ e = Document(e.type, e.data, 0, "synced") /\ d = Document(d.type, d.data, 0, "synced")
  BY <1>3 DEF DocOf, Document, Docs, Outcomes, Types, States
<1> HIDE DEF d, e
<1>5. PICK f \in [0..Len(s) -> Views] :
        Trace(f, LocalStep, Unmodified(d), s) /\ ApplyBatch(b, Unmodified(d)) = f[Len(s)]
  BY <1>2, BatchTrace, UnmodifiedIsView
<1>6. PICK g \in [0..Len(s) -> Views] :
        Trace(g, LocalStep, Unmodified(e), s) /\ ApplyBatch(b, Unmodified(e)) = g[Len(s)]
  BY <1>4, BatchTrace, UnmodifiedIsView
<1> DEFINE v == ApplyBatch(b, Unmodified(d))
           w == ApplyBatch(b, Unmodified(e))
<1>7. v \in Views /\ w \in Views /\ Alike(v.doc, Committed(b))
  BY <1>2, <1>4, UnmodifiedIsView, BatchKeepsViews, CommitsWhatIsSeen DEF d
<1> SUFFICES Alike(w.doc, Committed(b))
  BY DEF e
<1>8. CASE v.mask.full
  <2>1. <<Unmodified(d), Unmodified(e)>> \in AlikeOnceWhole
    BY <1>2, <1>4, UnmodifiedIsView DEF AlikeOnceWhole, Unmodified, Mask
  <2>2. <<v, w>> \in AlikeOnceWhole
    BY <2>1, AlikeOnceWholeIsKept DEF KeptByBatches
  <2>3. v = w
    BY <1>8, <2>2 DEF AlikeOnceWhole
  <2> QED BY <1>7, <2>3
<1>9. CASE v.doc.state # "local"
  <2>1. Unmodified(d) \in ReachedFrom(d)
    BY <1>2, UnmodifiedIsView DEF ReachedFrom, Unmodified, Mask
  <2>2. v \in ReachedFrom(d)
    BY <1>2, <2>1, BatchReaches
  <2>3. v.doc = d
    BY <1>9, <2>2 DEF ReachedFrom, Unmodified
  <2>4. d = e
    BY <1>4, <1>7, <2>3 DEF Alike
  <2> QED BY <1>7, <2>4
<1>10. CASE ~v.mask.full /\ v.doc.state = "local"
  <2>1. e.type = "found"
    <3>1. Unmodified(d) \in ReachedFrom(d)
      BY <1>2, UnmodifiedIsView DEF ReachedFrom, Unmodified, Mask
    <3>2. v \in ReachedFrom(d)
      BY <1>2, <3>1, BatchReaches
    <3> QED BY <1>4, <1>7, <1>10, <3>2 DEF ReachedFrom, Alike
  <2>2. \A i \in 1..n : /\ f[l + i] = LocalStep[b.mutations[i]][f[l + i - 1]]
                        /\ g[l + i] = LocalStep[b.mutations[i]][g[l + i - 1]]
                        /\ f[l + i - 1] \in Views /\ g[l + i - 1] \in Views
    <3> SUFFICES ASSUME NEW i \in 1..n
                 PROVE  /\ f[l + i] = LocalStep[b.mutations[i]][f[l + i - 1]]
                        /\ g[l + i] = LocalStep[b.mutations[i]][g[l + i - 1]]
                        /\ f[l + i - 1] \in Views /\ g[l + i - 1] \in Views
      OBVIOUS
    <3>1. l + i \in 1..(l + n) /\ l + i - 1 \in 0..(l + n)
      <4> HIDE DEF n, l, s
      <4> QED BY <1>1
    <3>2. l + i \in 1..Len(s) /\ l + i - 1 \in 0..Len(s)
      BY <1>1, <3>1
    <3>3. /\ f[l + i] = LocalStep[s[l + i]][f[l + i - 1]]
          /\ g[l + i] = LocalStep[s[l + i]][g[l + i - 1]]
      BY <1>5, <1>6, <3>2 DEF Trace
    <3> QED BY <1>1, <3>2, <3>3
  <2>3. PICK c \in [0..n -> Outcomes] :
          /\ c[0].type = Current.type /\ c[0].data = Current.data
          /\ CommitsEach(c, b, n) /\ Committed(b) = c[n]
    BY EachIsCommitted
  <2>4. /\ f[l].doc.type = d.type
        /\ \A x \in Fields : f[l].doc.data[x] = d.data[x]
    <3>1. BasesAre(b, d.data) /\ d.data \in Data
      BY <1>2
    <3> QED BY <1>2, <1>5, <3>1, AfterBase
  <2>5. /\ g[l].doc.type = "found"
        /\ \A x \in Fields : \/ g[l].doc.data[x] = d.data[x]
                             \/ g[l].doc.data[x] = e.data[x] /\ ~InBase(b, x)
    <3>1. BasesAre(b, d.data) /\ d.data \in Data
      BY <1>2
    <3>2. e \in Docs /\ (e.type = "found" \/ e.data = d.data)
      BY <1>4, <2>1
    <3>3. /\ g[Len(b.base)].doc.type = e.type
          /\ \A x \in Fields :
               \/ g[Len(b.base)].doc.data[x] = d.data[x]
               \/ g[Len(b.base)].doc.data[x] = e.data[x] /\ ~InBase(b, x)
      BY <1>6, <3>1, <3>2, AfterBase
    <3> QED BY <2>1, <3>3
  <2>6. \A i \in 1..n : \A x \in b.mutations[i].inc : InBase(b, x)
    <3>1. /\ b.mutations \in Seq(Mutations)
          /\ \A i \in DOMAIN b.mutations : HasBase(b, b.mutations[i])
      BY DEF Batches
    <3>2. DOMAIN b.mutations = 1..n
      BY <3>1
    <3> QED BY <3>1, <3>2 DEF HasBase, InBase
  \* What the outcome decides of the two views, as long as all is valid.
  <2> DEFINE Near(x, y) ==
               /\ y.doc.type = "found"
               /\ \A z \in Fields : \/ y.doc.data[z] = x.doc.data[z]
                                    \/ y.doc.data[z] = e.data[z] /\ ~InBase(b, z)
             G == {i \in 0..n : c[i].ok =>
                     /\ Alike(f[l + i].doc, c[i])
                     /\ f[l + i].mask.full \/ Near(f[l + i], g[l + i])}
  <2> HIDE DEF n, l, s
  <2>7. 0 \in G
    <3>1. Near(f[l], g[l])
      BY <2>4, <2>5
    <3>2. f[l].doc.data = Current.data
      <4>1. f[l].doc.data \in Data
        <5>1. 1 \in 1..n /\ l + 1 - 1 = l
          BY <1>1
        <5> QED BY <2>2, <5>1 DEF Views, Docs
      <4> QED BY <1>2, <2>4, <4>1 DEF Data
    <3>3. Alike(f[l].doc, c[0]) /\ l + 0 = l /\ 0 \in 0..n
      BY <1>1, <1>2, <2>3, <2>4, <3>2 DEF Alike
    <3> HIDE DEF Near
    <3> QED BY <3>1, <3>3
  <2>8. ASSUME NEW i \in 1..n, i - 1 \in G
        PROVE  i \in G
    <3> SUFFICES ASSUME c[i].ok
                 PROVE  /\ Alike(f[l + i].doc, c[i])
                        /\ f[l + i].mask.full \/ Near(f[l + i], g[l + i])
      OBVIOUS
    <3> DEFINE m == b.mutations[i]
               x == f[l + i - 1]
               y == g[l + i - 1]
               r == c[i - 1]
    <3>1. m \in Mutations /\ x \in Views /\ y \in Views
      BY <1>1, <2>2
    <3>2. /\ r.ok /\ IsValidFor(m, r)
          /\ c[i].type = IF m.type = "delete" THEN "none" ELSE "found"
          /\ c[i].data = IF m.type = "patch" THEN Patched(m, r.data) ELSE m.data
      BY <2>3 DEF CommitsEach
    <3>3. Alike(x.doc, r) /\ (x.mask.full \/ Near(x, y))
      <4>1. l + (i - 1) = l + i - 1
        BY <1>1
      <4> HIDE DEF Near
      <4> QED BY <2>8, <3>2, <4>1
    <3>4. f[l + i] = ApplyToLocalView(m, x) /\ g[l + i] = ApplyToLocalView(m, y)
      BY <2>2, <3>1 DEF LocalStep
    <3>5. \A z \in m.inc : InBase(b, z)
      BY <2>6
    <3> HIDE DEF m, x, y, r
    <3>6. Alike(f[l + i].doc, c[i])
      BY <3>1, <3>2, <3>3, <3>4
         DEF Alike, ApplyToLocalView, IsValidFor, Document, Mutations
    <3>7. CASE m.type # "patch" \/ x.mask.full
      <4>1. f[l + i].mask.full
        BY <3>1, <3>2, <3>3, <3>4, <3>7
           DEF Alike, ApplyToLocalView, IsValidFor, NoMask, Mutations
      <4> QED BY <3>6, <4>1
    <3>8. CASE m.type = "patch" /\ ~x.mask.full
      <4>1. Near(x, y)
        BY <3>3, <3>8
      <4>2. /\ f[l + i].doc = Document("found", Patched(m, x.doc.data), 0, "local")
            /\ g[l + i].doc = Document("found", Patched(m, y.doc.data), 0, "local")
        BY <3>2, <3>3, <3>4, <3>8, <4>1 DEF Alike, ApplyToLocalView, IsValidFor
      <4>3. ASSUME NEW z \in Fields
            PROVE  \/ g[l + i].doc.data[z] = f[l + i].doc.data[z]
                   \/ g[l + i].doc.data[z] = e.data[z] /\ ~InBase(b, z)
        BY <3>5, <4>1, <4>2 DEF Document, Patched
      <4>4. g[l + i].doc.type = "found"
        BY <4>2 DEF Document
      <4> QED BY <3>6, <4>3, <4>4
    <3> QED BY <3>7, <3>8
  <2>9. n \in G
    <3> HIDE DEF G
    <3>1. \A i \in 0..n : i \in G
      BY <1>1, <2>7, <2>8, Reaches
    <3> QED BY <1>1, <3>1
  <2>10. Near(v, w)
    <3>1. v = f[l + n] /\ w = g[l + n] /\ c[n].ok
      BY <1>1, <1>5, <1>6, <2>3
    <3> HIDE DEF Near, v, w
    <3> QED BY <1>10, <2>9, <3>1
  <2>11. \A z \in Fields : w.doc.data[z] = e.data[z]
    BY <1>4, <1>7, <2>10 DEF Alike
  <2>12. w.doc.data = e.data
    <3>1. w.doc.data \in Data /\ e.data \in Data
      BY <1>4, <1>7 DEF Views, Docs
    <3> QED BY <2>11, <3>1 DEF Data
  <2> QED BY <1>4, <2>1, <2>10, <2>12 DEF Alike
<1> QED BY <1>8, <1>9, <1>10

\* LocalStore::ApplyBatchResult: the acknowledged batch makes of the version that
\* it was committed on what the backend made of it.
LEMMA AnswerMakesOutcome ==
  ASSUME NEW b \in Batches, Current \in Versions, Committed(b).ok,
         NEW answer \in Answers, answer.data = Committed(b).data,
         NEW d \in Docs, Alike(d, Current), d.version < answer.version
  PROVE  /\ Alike(ApplyBatchResult(d, b, answer), Committed(b))
         /\ ApplyBatchResult(d, b, answer).version = answer.version
<1> DEFINE n == Len(b.mutations)
           A == Answered(d, answer)
<1>1. n \in Nat /\ n >= 1 /\ \A i \in 1..n : b.mutations[i] \in Mutations
  BY StepsOfBatch
<1>2. PICK c \in [0..n -> Outcomes] :
        /\ c[0].type = Current.type /\ c[0].data = Current.data
        /\ CommitsEach(c, b, n) /\ Committed(b) = c[n]
  BY EachIsCommitted
<1>3. PICK r \in [0..n -> A] :
        Trace(r, RemoteStep(d, answer), d, b.mutations) /\ ApplyBatchResult(d, b, answer) = r[n]
  BY RemoteTrace
<1>4. r[0] = d /\ \A i \in 1..n : r[i] = RemoteStep(d, answer)[b.mutations[i]][r[i - 1]]
  BY <1>3 DEF Trace
<1> HIDE DEF n
<1> DEFINE Near(e, o) == e.type = o.type /\ \A x \in Fields : \/ e.data[x] = o.data[x]
                                                              \/ e.data[x] = answer.data[x]
           G == {i \in 0..n : c[i].ok =>
                   Near(r[i], c[i]) /\ (i = 0 \/ r[i].version = answer.version)}
<1>5. 0 \in G
  BY <1>1, <1>2, <1>4 DEF Alike
<1>6. ASSUME NEW i \in 1..n, i - 1 \in G
      PROVE  i \in G
  <2> SUFFICES ASSUME c[i].ok
               PROVE  Near(r[i], c[i]) /\ r[i].version = answer.version
    OBVIOUS
  <2> DEFINE m == b.mutations[i]
             e == r[i - 1]
             o == c[i - 1]
  <2>1. m \in Mutations /\ e \in A /\ o \in Outcomes /\ e \in Docs
    BY <1>1 DEF Answered
  <2>2. /\ o.ok /\ IsValidFor(m, o)
        /\ c[i].type = IF m.type = "delete" THEN "none" ELSE "found"
        /\ c[i].data = IF m.type = "patch" THEN Patched(m, o.data) ELSE m.data
    BY <1>2 DEF CommitsEach
  <2>3. Near(e, o)
    BY <1>6, <2>2
  <2>4. r[i] = ApplyToRemoteDocument(m, e, answer)
    BY <1>4, <2>1 DEF RemoteStep
  <2> HIDE DEF m, e, o
  <2>5. CASE m.type # "patch"
    BY <2>1, <2>2, <2>4, <2>5 DEF ApplyToRemoteDocument, Document, Mutations
  <2>6. CASE m.type = "patch"
    <3>1. /\ r[i].type = "found" /\ r[i].version = answer.version
          /\ r[i].data = [x \in Fields |-> IF x \in m.inc THEN answer.data[x]
                                           ELSE Patched(m, e.data)[x]]
      BY <2>2, <2>3, <2>4, <2>6 DEF ApplyToRemoteDocument, IsValidFor, Document
    <3>2. ASSUME NEW x \in Fields
          PROVE  r[i].data[x] = c[i].data[x] \/ r[i].data[x] = answer.data[x]
      BY <2>2, <2>3, <2>6, <3>1 DEF Patched
    <3> QED BY <2>2, <2>6, <3>1, <3>2
  <2> QED BY <2>5, <2>6
<1>7. n \in G
  <2> HIDE DEF G
  <2>1. \A i \in 0..n : i \in G
    BY <1>1, <1>5, <1>6, Reaches
  <2> QED BY <1>1, <2>1
<1>8. /\ r[n].type = Committed(b).type /\ r[n].version = answer.version
      /\ \A x \in Fields : r[n].data[x] = Committed(b).data[x]
  BY <1>1, <1>2, <1>7
<1>9. r[n].data = Committed(b).data
  <2>1. r[n] \in Docs /\ Committed(b) \in Outcomes
    BY <1>1, CommittedIsOutcome DEF Answered
  <2>2. r[n].data \in Data /\ Committed(b).data \in Data
    BY <2>1 DEF Docs, Outcomes
  <2> QED BY <1>8, <2>2 DEF Data
<1> QED BY <1>3, <1>8, <1>9 DEF Alike, n

\* A replay goes on from what the first batch leads to.
LEMMA ReplayOfTail ==
  ASSUME NEW q \in Seq(Batches), q # <<>>, NEW d \in Docs, NEW e \in Docs,
         Alike(ApplyBatch(Head(q), Unmodified(d)).doc, e)
  PROVE  Alike(Replayed(d, q).doc, Replayed(e, Tail(q)).doc)
<1> DEFINE n == Len(Tail(q))
<1>1. Tail(q) \in Seq(Batches) /\ n \in Nat /\ Len(q) = n + 1
  OBVIOUS
<1>2. PICK f \in [0..Len(q) -> Views] :
        Trace(f, BatchStep, Unmodified(d), q) /\ Replayed(d, q) = f[Len(q)]
  BY QueueTrace
<1>3. PICK g \in [0..n -> Views] :
        Trace(g, BatchStep, Unmodified(e), Tail(q)) /\ Replayed(e, Tail(q)) = g[n]
  BY <1>1, QueueTrace
<1>4. \A i \in 0..n : Alike(f[i + 1].doc, g[i].doc)
  BY <1>2, <1>3, AlikeTails
<1> QED BY <1>1, <1>2, <1>3, <1>4

\* Each batch sets, as base states, the fields of what the batches before it
\* make of a document.
BasesFollow(q, d) ==
  \E g \in [0..Len(q) -> Views] :
    /\ Trace(g, BatchStep, Unmodified(d), q) /\ Replayed(d, q) = g[Len(q)]
    /\ \A i \in 1..Len(q) : BasesAre(q[i], g[i - 1].doc.data)

LEMMA BasesFollowHead ==
  ASSUME NEW q \in Seq(Batches), q # <<>>, NEW d \in Docs, BasesFollow(q, d)
  PROVE  BasesAre(Head(q), d.data)
<1>1. PICK g \in [0..Len(q) -> Views] :
        /\ Trace(g, BatchStep, Unmodified(d), q)
        /\ \A i \in 1..Len(q) : BasesAre(q[i], g[i - 1].doc.data)
  BY DEF BasesFollow
<1>2. 1 \in 1..Len(q) /\ 1 - 1 = 0 /\ Head(q) = q[1]
  OBVIOUS
<1>3. g[0] = Unmodified(d)
  BY <1>1 DEF Trace
<1> QED BY <1>1, <1>2, <1>3 DEF Unmodified

LEMMA BasesFollowTail ==
  ASSUME NEW q \in Seq(Batches), q # <<>>, NEW d \in Docs, NEW e \in Docs,
         Alike(ApplyBatch(Head(q), Unmodified(d)).doc, e), BasesFollow(q, d)
  PROVE  BasesFollow(Tail(q), e)
<1> DEFINE t == Tail(q)
           n == Len(t)
<1>1. t \in Seq(Batches) /\ n \in Nat /\ Len(q) = n + 1 /\ \A i \in 1..n : t[i] = q[i + 1]
  OBVIOUS
<1>2. PICK f \in [0..Len(q) -> Views] :
        /\ Trace(f, BatchStep, Unmodified(d), q)
        /\ \A i \in 1..Len(q) : BasesAre(q[i], f[i - 1].doc.data)
  BY DEF BasesFollow
<1>3. PICK g \in [0..n -> Views] :
        Trace(g, BatchStep, Unmodified(e), t) /\ Replayed(e, t) = g[n]
  BY <1>1, QueueTrace
<1>4. \A i \in 0..n : Alike(f[i + 1].doc, g[i].doc)
  BY <1>2, <1>3, AlikeTails
<1>5. ASSUME NEW i \in 1..n
      PROVE  BasesAre(t[i], g[i - 1].doc.data)
  <2>1. i + 1 \in 1..Len(q) /\ i - 1 \in 0..n /\ i + 1 - 1 = i /\ i - 1 + 1 = i
    BY <1>1
  <2>2. BasesAre(q[i + 1], f[i].doc.data)
    BY <1>2, <2>1
  <2>3. f[i].doc.data = g[i - 1].doc.data
    BY <1>4, <2>1 DEF Alike
  <2> QED BY <1>1, <2>2, <2>3
<1> QED BY <1>3, <1>5 DEF BasesFollow

\* A new batch takes its base states from the view that it is written on.
LEMMA BasesFollowWrite ==
  ASSUME NEW q \in Seq(Batches), NEW b \in Batches, NEW d \in Docs,
         BasesFollow(q, d), BasesAre(b, Replayed(d, q).doc.data)
  PROVE  BasesFollow(Append(q, b), d)
<1> DEFINE n == Len(q)
           r == Append(q, b)
<1>1. /\ n \in Nat /\ r \in Seq(Batches) /\ Len(r) = n + 1 /\ r[n + 1] = b
      /\ \A i \in 1..n : r[i] = q[i]
  OBVIOUS
<1> HIDE DEF r
<1>2. PICK f \in [0..n -> Views] :
        /\ Trace(f, BatchStep, Unmodified(d), q) /\ Replayed(d, q) = f[n]
        /\ \A i \in 1..n : BasesAre(q[i], f[i - 1].doc.data)
  BY DEF BasesFollow
<1>3. PICK g \in [0..Len(r) -> Views] :
        Trace(g, BatchStep, Unmodified(d), r) /\ Replayed(d, r) = g[Len(r)]
  BY <1>1, QueueTrace
<1>4. Trace(g, BatchStep, Unmodified(d), q)
  <2>1. \A i \in 1..n : i \in 1..(n + 1)
    BY <1>1
  <2> QED BY <1>1, <1>3, <2>1 DEF Trace
<1>5. \A i \in 0..n : g[i] = f[i]
  BY <1>2, <1>4, TracesAgree
<1>6. ASSUME NEW i \in 1..Len(r)
      PROVE  BasesAre(r[i], g[i - 1].doc.data)
  <2>1. i - 1 \in 0..n
    BY <1>1
  <2>2. CASE i = n + 1
    <3>1. g[i - 1] = f[n]
      BY <1>1, <1>5, <2>1, <2>2
    <3> QED BY <1>1, <1>2, <2>2, <3>1
  <2>3. CASE i # n + 1
    <3>1. i \in 1..n
      BY <1>1, <2>3
    <3> QED BY <1>1, <1>2, <1>5, <2>1, <3>1
  <2> QED BY <2>2, <2>3
<1> QED BY <1>3, <1>6 DEF BasesFollow, r

-----------------------------------------------------------------------------
(* While this client alone writes *)

\* The version that the first batch was or will be committed on.
BaseVersion == IF reply.state = "acknowledged" THEN history[Len(history) - 1] ELSE Current

\* The pending batches on that version: what the user keeps seeing.
Seen == Replayed(DocOf(BaseVersion), queue).doc

\* The cached document is the last version, or the one before it while the answer
\* to the batch that made the last one is under way.
KnowsBackend ==
  \/ remote.version = Len(history) /\ Alike(remote, Current)
  \/ /\ reply.state = "acknowledged" /\ remote.version = Len(history) - 1
     /\ Alike(remote, BaseVersion)

\* The first batch makes the last version of the one before it, and leaves the
\* last version; so does the answer to it.
AnswersFirst ==
  /\ Len(history) >= 2 /\ reply.version = Len(history)
  /\ Alike(ApplyBatch(Head(queue), Unmodified(DocOf(BaseVersion))).doc, Current)
  /\ Alike(ApplyBatch(Head(queue), Unmodified(DocOf(Current))).doc, Current)
  /\ \A d \in Docs :
       Alike(d, BaseVersion) /\ d.version < reply.version =>
         LET r == ApplyBatchResult(d, Head(queue), reply)
         IN  Alike(r, Current) /\ r.version = reply.version

\* An outdated overlay is one of the whole document.
OutdatedIsSeen ==
  outdated => /\ HasOverlay(overlay) /\ overlay.mutation.type # "patch"
              /\ Alike(Overlayed(remote, overlay).doc, Seen)

Alone ==
  /\ reply.state # "refused"
  /\ KnowsBackend
  /\ reply.state = "acknowledged" => AnswersFirst
  /\ BasesFollow(queue, DocOf(BaseVersion))
  /\ OutdatedIsSeen

AloneInv == ~foreign => Alone

LEMMA VersionsOfBackend ==
  ASSUME ViewsInv, Alone
  PROVE  /\ Current \in Versions /\ BaseVersion \in Versions
         /\ DocOf(Current) \in Docs /\ Alike(DocOf(Current), Current)
         /\ DocOf(BaseVersion) \in Docs /\ Alike(DocOf(BaseVersion), BaseVersion)
<1>1. history \in Seq(Versions) /\ Len(history) \in Nat /\ Len(history) >= 1
  BY DEF ViewsInv, WellTyped
<1>2. Current \in Versions
  BY <1>1 DEF Current, Last
<1>3. BaseVersion \in Versions
  <2>1. CASE reply.state = "acknowledged"
    <3>1. Len(history) - 1 \in 1..Len(history)
      BY <1>1, <2>1 DEF Alone, AnswersFirst
    <3> QED BY <1>1, <2>1, <3>1 DEF BaseVersion
  <2>2. CASE reply.state # "acknowledged"
    BY <1>2, <2>2 DEF BaseVersion
  <2> QED BY <2>1, <2>2
<1> QED BY <1>2, <1>3, DocOfVersion

\* A replay of the first batch on what it made shows what it makes.
LEMMA ReplayOfLast ==
  ASSUME ViewsInv, Alone, reply.state = "acknowledged"
  PROVE  Alike(Replayed(DocOf(Current), queue).doc, Seen)
<1>1. /\ DocOf(Current) \in Docs /\ Alike(DocOf(Current), Current)
      /\ DocOf(BaseVersion) \in Docs /\ queue \in Seq(Batches) /\ queue # <<>>
  BY VersionsOfBackend DEF ViewsInv, WellTyped
<1>2. /\ Alike(ApplyBatch(Head(queue), Unmodified(DocOf(BaseVersion))).doc, DocOf(Current))
      /\ Alike(ApplyBatch(Head(queue), Unmodified(DocOf(Current))).doc, DocOf(Current))
  BY <1>1 DEF Alone, AnswersFirst, Alike
<1>3. /\ Alike(Replayed(DocOf(Current), queue).doc, Replayed(DocOf(Current), Tail(queue)).doc)
      /\ Alike(Seen, Replayed(DocOf(Current), Tail(queue)).doc)
  BY <1>1, <1>2, ReplayOfTail DEF Seen
<1> QED BY <1>3 DEF Alike

\* The pending batches on the cached document.
LEMMA ReplayIsSeen ==
  ASSUME ViewsInv, Alone, NEW d \in Docs,
         \/ Alike(d, BaseVersion)
         \/ reply.state = "acknowledged" /\ Alike(d, Current)
  PROVE  Alike(Replayed(d, queue).doc, Seen)
<1>1. /\ DocOf(Current) \in Docs /\ Alike(DocOf(Current), Current)
      /\ DocOf(BaseVersion) \in Docs /\ Alike(DocOf(BaseVersion), BaseVersion)
      /\ queue \in Seq(Batches)
  BY VersionsOfBackend DEF ViewsInv, WellTyped
<1>2. CASE Alike(d, BaseVersion)
  <2>1. Alike(d, DocOf(BaseVersion))
    BY <1>1, <1>2 DEF Alike
  <2> QED BY <1>1, <2>1, AlikeReplays DEF Seen
<1>3. CASE reply.state = "acknowledged" /\ Alike(d, Current)
  <2>1. Alike(d, DocOf(Current))
    BY <1>1, <1>3 DEF Alike
  <2>2. Alike(Replayed(d, queue).doc, Replayed(DocOf(Current), queue).doc)
    BY <1>1, <2>1, AlikeReplays
  <2> QED BY <1>3, <2>2, ReplayOfLast DEF Alike
<1> QED BY <1>2, <1>3

\* What the user sees.
LEMMA OverlayedIsSeen ==
  ASSUME ViewsInv, Alone
  PROVE  Alike(Overlayed(remote, overlay).doc, Seen)
<1>1. CASE outdated
  BY <1>1 DEF Alone, OutdatedIsSeen
<1>2. CASE ~outdated
  <2>1. \/ Alike(remote, BaseVersion)
        \/ reply.state = "acknowledged" /\ Alike(remote, Current)
    BY DEF Alone, KnowsBackend, BaseVersion
  <2>2. Alike(Replayed(remote, queue).doc, Seen)
    BY <2>1, ReplayIsSeen DEF ViewsInv, WellTyped
  <2> QED BY <1>2, <2>2 DEF ViewsInv, StandsForReplay
<1> QED BY <1>1, <1>2

\* An overlay of the whole document gives the same view of every document.
LEMMA WholeOverlayed ==
  ASSUME NEW o \in SavedOverlays, HasOverlay(o), o.mutation.type # "patch",
         NEW d \in Docs, NEW e \in Docs
  PROVE  Overlayed(d, o).doc = Overlayed(e, o).doc /\ Overlayed(d, o).mask.full
BY DEF Overlayed, ApplyToLocalView, IsValidFor, SavedOverlays, NoMask

\* LocalDocumentsView::RecalculateAndSaveOverlays leaves an overlay only where no
\* document is cached, and there only one of the whole document: one of fields
\* would show a document that the batches do not make.
LEMMA OutdatedIsWhole ==
  ASSUME NEW d \in Docs, d.state # "local", NEW e \in Docs, e.state # "local",
         NEW o \in SavedOverlays, NEW q \in Seq(Batches), NEW seen,
         RecalculateAndSaveOverlays(o, d, q), outdated', q # <<>>,
         Alike(Replayed(d, q).doc, seen), Alike(Overlayed(e, o).doc, seen)
  PROVE  /\ overlay' = o /\ HasOverlay(o) /\ o.mutation.type # "patch"
         /\ Alike(Overlayed(d, o).doc, seen)
<1> DEFINE v == Replayed(d, q)
           new == Recalculated(d, q)
<1>1. overlay' = o /\ HasOverlay(o) /\ ~HasOverlay(new)
  BY DEF RecalculateAndSaveOverlays
<1>2. v \in ReachedFrom(d)
  BY ReplayReaches
<1>3. Last(q).id \in Nat \ {0}
  <2>1. Last(q) \in Batches
    BY DEF Last
  <2> QED BY <2>1 DEF Batches
<1>4. new = CalculateOverlayMutation(v, Last(q).id)
  BY DEF Recalculated
<1> HIDE DEF v, new
<1>5. v.doc.state # "local"
  BY <1>1, <1>2, <1>3, <1>4, CalculatedStandsForView
<1>6. d.type # "found"
  BY <1>5, FoundIsMutated DEF v
<1>7. seen.type # "found"
  BY <1>2, <1>5, <1>6 DEF ReachedFrom, Unmodified, Alike, v
<1>8. o.mutation.type # "patch"
  <2> SUFFICES ASSUME o.mutation.type = "patch" PROVE FALSE
    OBVIOUS
  <2>1. Overlayed(e, o).doc.type = "found"
    BY <1>1 DEF Overlayed, ApplyToLocalView, IsValidFor, SavedOverlays, Document
  <2> QED BY <1>7, <2>1 DEF Alike
<1>9. Overlayed(d, o).doc = Overlayed(e, o).doc
  BY <1>1, <1>8, WholeOverlayed
<1> QED BY <1>1, <1>8, <1>9

LEMMA InitAlone == Init => AloneInv
<1> SUFFICES ASSUME Init, ~foreign PROVE Alone
  BY DEF AloneInv
<1>1. PICK s \in Settings :
        /\ history = <<s.start>> /\ foreign = ~s.cached
        /\ remote = IF s.cached THEN Document(s.start.type, s.start.data, 1, "synced")
                    ELSE Invalid
  BY DEF Init
<1>2. s \in AllSettings /\ s.start \in Versions
  BY SettingsAssumption DEF AllSettings
<1>3. remote = Document(s.start.type, s.start.data, 1, "synced")
  BY <1>1, <1>2 DEF AllSettings
<1>4. queue = <<>> /\ reply = NoReply /\ ~outdated
  BY DEF Init
<1>5. Len(history) = 1 /\ Current = s.start /\ reply.state = "none"
  BY <1>1, <1>4 DEF Current, Last, NoReply
<1>6. KnowsBackend
  BY <1>3, <1>5 DEF KnowsBackend, Document, Alike
<1>7. BasesFollow(queue, DocOf(BaseVersion))
  <2>1. DocOf(BaseVersion) \in Docs
    BY <1>2, <1>5, DocOfVersion DEF BaseVersion
  <2>2. queue \in Seq(Batches) /\ Len(queue) = 0
    BY <1>4
  <2>3. PICK g \in [0..Len(queue) -> Views] :
          /\ Trace(g, BatchStep, Unmodified(DocOf(BaseVersion)), queue)
          /\ Replayed(DocOf(BaseVersion), queue) = g[Len(queue)]
    BY <2>1, <2>2, QueueTrace
  <2> QED BY <2>2, <2>3 DEF BasesFollow
<1> QED BY <1>4, <1>5, <1>6, <1>7 DEF Alone, OutdatedIsSeen

\* LocalStore::WriteLocally: the base states are of the view that the user sees.
LEMMA WriteKeepsAlone ==
  ASSUME ViewsInv, Alone, NEW mutations \in setting.writes, WriteLocally(mutations)
  PROVE  Alone'
<1> DEFINE view == Overlayed(remote, overlay)
           b    == BatchFor(mutations, view.doc, lastId + 1)
           w    == ApplyBatch(b, view)
           new  == CalculateOverlayMutation(w, b.id)
           d    == DocOf(BaseVersion)
<1>1. /\ lastId' = b.id /\ queue' = Append(queue, b)
      /\ overlay' = (IF HasOverlay(new) THEN new ELSE overlay)
      /\ UNCHANGED <<history, watched, remote, reply, foreign, outdated, setting>>
  BY DEF WriteLocally, BatchFor
<1>2. /\ remote \in Docs /\ remote.state # "local" /\ overlay \in SavedOverlays
      /\ lastId + 1 \in Nat \ {0} /\ queue \in Seq(Batches)
      /\ mutations \in Seq(Mutations) \ {<<>>}
      /\ reply.state = "acknowledged" => queue # <<>>
  BY DEF ViewsInv, WellTyped, AllSettings
<1>3. /\ view \in ReachedFrom(remote) /\ view \in Views /\ view.doc \in Docs
      /\ Alike(view.doc, Seen)
      /\ HasOverlay(overlay) => view.doc.state = "local"
  BY <1>2, OverlayedIsReached, OverlayedIsSeen DEF ReachedFrom, Views
<1>4. outdated => view.mask.full /\ HasOverlay(overlay)
  BY <1>2, WholeOverlayed DEF Alone, OutdatedIsSeen
<1>5. d \in Docs
  BY VersionsOfBackend
<1>6. Current' = Current /\ BaseVersion' = BaseVersion
  BY <1>1 DEF Current, BaseVersion
<1> HIDE DEF view, d
<1>7. /\ b \in Batches /\ b.id = lastId + 1
      /\ \A k \in DOMAIN b.base : b.base[k].data = view.doc.data
  BY <1>2, <1>3, WriteMakesBatch DEF BatchFor
<1> HIDE DEF b
<1>8. w \in ReachedFrom(remote)
  BY <1>2, <1>3, <1>7, BatchReaches
<1>9. Seen = Replayed(d, queue).doc /\ Replayed(d, queue) \in Views
  <2>1. PICK g \in [0..Len(queue) -> Views] : Replayed(d, queue) = g[Len(queue)]
    BY <1>2, <1>5, QueueTrace
  <2>2. Len(queue) \in 0..Len(queue)
    BY <1>2
  <2> QED BY <2>1, <2>2 DEF Seen, d
<1>10. BasesFollow(queue', DocOf(BaseVersion)')
  <2>1. BasesAre(b, Replayed(d, queue).doc.data)
    BY <1>3, <1>7, <1>9 DEF BasesAre, Alike
  <2>2. BasesFollow(Append(queue, b), d)
    BY <1>2, <1>5, <1>7, <2>1, BasesFollowWrite DEF Alone, d
  <2> QED BY <1>1, <1>6, <2>2 DEF d
<1>11. KnowsBackend'
  BY <1>1, <1>6 DEF Alone, KnowsBackend
<1>12. ASSUME reply'.state = "acknowledged"
       PROVE  AnswersFirst'
  <2>1. Head(queue') = Head(queue)
    BY <1>1, <1>2, <1>12
  <2> QED BY <1>1, <1>6, <1>12, <2>1 DEF Alone, AnswersFirst
<1>13. ASSUME outdated'
       PROVE  /\ HasOverlay(overlay') /\ overlay'.mutation.type # "patch"
              /\ Alike(Overlayed(remote', overlay').doc, Seen')
  <2>1. w.doc.state = "local" /\ w.mask.full
    BY <1>1, <1>3, <1>4, <1>7, <1>13, LocalStaysLocal, WholeStaysWhole
  <2> HIDE DEF w
  <2>2. /\ overlay' = new /\ HasOverlay(new) /\ Overlayed(remote, new) = w
        /\ new.mutation.type # "patch"
    <3>1. HasOverlay(new) /\ Overlayed(remote, new) = w
      BY <1>2, <1>7, <1>8, <2>1, CalculatedStandsForView
    <3>2. new.mutation.type # "patch"
      BY <2>1 DEF CalculateOverlayMutation, Delete, Set, Mutation
    <3> QED BY <1>1, <3>1, <3>2
  <2>3. Seen' = ApplyBatch(b, Replayed(d, queue)).doc
    BY <1>1, <1>2, <1>5, <1>6, <1>7, ReplayAppend DEF Seen, d
  <2>4. Alike(w.doc, Seen')
    BY <1>3, <1>7, <1>9, <2>3, AlikeBatches DEF w
  <2> QED BY <1>1, <2>2, <2>4
<1> QED BY <1>1, <1>10, <1>11, <1>12, <1>13 DEF Alone, OutdatedIsSeen

\* The backend commits the first batch.
LEMMA CommitKeepsAlone ==
  ASSUME ViewsInv, Alone, Commit
  PROVE  Alone' /\ Seen' = Seen
<1> DEFINE b == Head(queue)
           r == Committed(b)
<1>1. /\ queue # <<>> /\ reply = NoReply /\ r.ok
      /\ history' = Append(history, [type |-> r.type, data |-> r.data])
      /\ reply' = [state |-> "acknowledged", version |-> Len(history) + 1, data |-> r.data]
      /\ UNCHANGED <<watched, remote, queue, overlay, lastId, foreign, outdated, setting>>
  BY DEF Commit, Store
<1>2. /\ history \in Seq(Versions) /\ Len(history) \in Nat /\ Len(history) >= 1
      /\ queue \in Seq(Batches) /\ b \in Batches /\ reply.state = "none"
  BY <1>1 DEF ViewsInv, WellTyped, NoReply
<1>3. Current \in Versions /\ BaseVersion = Current /\ r \in Outcomes
      /\ DocOf(Current) \in Docs /\ Alike(DocOf(Current), Current)
  BY <1>2, VersionsOfBackend, CommittedIsOutcome DEF BaseVersion
<1>4. BasesAre(b, Current.data)
  <2>1. BasesAre(b, DocOf(Current).data)
    BY <1>1, <1>2, <1>3, BasesFollowHead DEF Alone
  <2> QED BY <1>3, <2>1 DEF Alike
<1> HIDE DEF b, r
<1>5. /\ Len(history') = Len(history) + 1
      /\ history'[Len(history) + 1] = [type |-> r.type, data |-> r.data]
      /\ history'[Len(history)] = history[Len(history)]
  BY <1>1, <1>2
<1>6. Current' = [type |-> r.type, data |-> r.data] /\ BaseVersion' = Current
  BY <1>1, <1>2, <1>5 DEF Current, BaseVersion, Last
<1>7. Seen' = Seen
  BY <1>1, <1>3, <1>6 DEF Seen
<1>8. KnowsBackend'
  BY <1>1, <1>2, <1>3, <1>5, <1>6 DEF Alone, KnowsBackend, Alike
<1>9. AnswersFirst'
  <2>1. reply' \in Answers /\ reply'.version = Len(history) + 1 /\ reply'.data = r.data
    BY <1>1, <1>2, <1>3 DEF Answers, Outcomes
  <2>2. Alike(ApplyBatch(b, Unmodified(DocOf(Current))).doc, Current')
    BY <1>1, <1>2, <1>3, <1>4, <1>6, CommitsWhatIsSeen DEF Alike, r
  <2>3. Alike(ApplyBatch(b, Unmodified(DocOf(Current'))).doc, Current')
    <3>1. DocOf(Current') = DocOf(r)
      BY <1>6 DEF DocOf
    <3> QED BY <1>1, <1>2, <1>3, <1>4, <1>6, <3>1, CommittedAppliesOnce DEF Alike, r
  <2>4. ASSUME NEW d \in Docs, Alike(d, Current), d.version < reply'.version
        PROVE  LET e == ApplyBatchResult(d, b, reply')
               IN  Alike(e, Current') /\ e.version = reply'.version
    <3>1. /\ Alike(ApplyBatchResult(d, b, reply'), r)
          /\ ApplyBatchResult(d, b, reply').version = reply'.version
      BY <1>1, <1>2, <1>3, <2>1, <2>4, AnswerMakesOutcome DEF r
    <3> QED BY <1>6, <3>1 DEF Alike
  <2>5. Head(queue') = b
    BY <1>1 DEF b
  <2>6. \A d \in Docs : Alike(d, BaseVersion') /\ d.version < reply'.version =>
          LET e == ApplyBatchResult(d, Head(queue'), reply')
          IN  Alike(e, Current') /\ e.version = reply'.version
    BY <1>6, <2>4, <2>5
  <2> QED BY <1>2, <1>5, <1>6, <2>1, <2>2, <2>3, <2>5, <2>6 DEF AnswersFirst
<1> QED BY <1>1, <1>3, <1>6, <1>7, <1>8, <1>9 DEF Alone, OutdatedIsSeen

\* LocalStore::AcknowledgeBatch: the cached document becomes the last version, if
\* Watch was not there first, and the batch is no longer replayed.
LEMMA AcknowledgeKeepsAlone ==
  ASSUME ViewsInv, Alone, AcknowledgeBatch, OverlaysArePending'
  PROVE  Alone' /\ Alike(Seen, Seen')
<1> DEFINE b == Head(queue)
           o == RemoveOverlaysForBatchId(overlay, b.id)
<1>1. /\ reply.state = "acknowledged" /\ remote' = ApplyBatchResult(remote, b, reply)
      /\ queue' = Tail(queue) /\ RecalculateAndSaveOverlays(o, remote', queue')
      /\ reply' = NoReply /\ UNCHANGED <<history, watched, lastId, foreign, setting>>
  BY DEF AcknowledgeBatch
<1>2. /\ remote \in Docs /\ remote.state # "local" /\ overlay \in SavedOverlays
      /\ queue \in Seq(Batches) /\ queue # <<>> /\ b \in Batches /\ reply \in Answers
      /\ Len(history) \in Nat /\ queue' \in Seq(Batches)
  BY <1>1 DEF ViewsInv, WellTyped
<1>3. /\ reply.version = Len(history)
      /\ Alike(ApplyBatch(b, Unmodified(DocOf(BaseVersion))).doc, Current)
      /\ \A d \in Docs : Alike(d, BaseVersion) /\ d.version < reply.version =>
           LET r == ApplyBatchResult(d, b, reply)
           IN  Alike(r, Current) /\ r.version = reply.version
  BY <1>1 DEF Alone, AnswersFirst
<1>4. /\ DocOf(Current) \in Docs /\ Alike(DocOf(Current), Current)
      /\ DocOf(BaseVersion) \in Docs
  BY VersionsOfBackend
<1>5. /\ remote' \in Docs /\ remote'.state # "local"
      /\ remote.version >= reply.version => remote' = remote
  BY <1>1, <1>2, ResultIsAnswered DEF Answered
<1> HIDE DEF b
<1>6. remote'.version = Len(history) /\ Alike(remote', Current)
  <2>1. CASE remote.version = Len(history) /\ Alike(remote, Current)
    BY <1>2, <1>3, <1>5, <2>1
  <2>2. CASE remote.version = Len(history) - 1 /\ Alike(remote, BaseVersion)
    <3>1. remote.version < reply.version
      BY <1>2, <1>3, <2>2
    <3> QED BY <1>1, <1>2, <1>3, <2>2, <3>1
  <2> QED BY <2>1, <2>2 DEF Alone, KnowsBackend
<1>7. Current' = Current /\ BaseVersion' = Current /\ reply'.state = "none"
  BY <1>1 DEF Current, BaseVersion, NoReply
<1>8. Alike(ApplyBatch(b, Unmodified(DocOf(BaseVersion))).doc, DocOf(Current))
  BY <1>3, <1>4 DEF Alike
<1>9. Seen' = Replayed(DocOf(Current), queue').doc
  BY <1>7 DEF Seen
<1>10. Alike(Seen, Seen')
  BY <1>1, <1>2, <1>4, <1>8, <1>9, ReplayOfTail DEF Seen, b
<1>11. BasesFollow(queue', DocOf(BaseVersion'))
  BY <1>1, <1>2, <1>4, <1>7, <1>8, BasesFollowTail DEF Alone, b
<1>12. KnowsBackend'
  BY <1>1, <1>6, <1>7 DEF KnowsBackend
<1>13. ASSUME outdated'
       PROVE  /\ HasOverlay(overlay') /\ overlay'.mutation.type # "patch"
              /\ Alike(Overlayed(remote', overlay').doc, Seen')
  <2>1. HasOverlay(o) /\ overlay' = o
    BY <1>1, <1>13 DEF RecalculateAndSaveOverlays
  <2>2. o = overlay
    BY <2>1 DEF RemoveOverlaysForBatchId, HasOverlay
  <2> HIDE DEF o
  <2>3. queue' # <<>>
    BY <2>1 DEF OverlaysArePending
  <2>4. Alike(Overlayed(remote, o).doc, Seen')
    BY <1>10, <2>2, OverlayedIsSeen DEF Alike
  <2>5. Alike(Replayed(remote', queue').doc, Seen')
    <3>1. Alike(remote', DocOf(Current))
      BY <1>4, <1>6 DEF Alike
    <3> QED BY <1>2, <1>4, <1>5, <1>9, <3>1, AlikeReplays
  <2> QED
    BY <1>1, <1>2, <1>5, <1>13, <2>1, <2>2, <2>3, <2>4, <2>5, OutdatedIsWhole
<1> QED BY <1>7, <1>10, <1>11, <1>12, <1>13 DEF Alone, OutdatedIsSeen

\* LocalStore::ApplyRemoteEvent: Watch sends what the client knows already, or the
\* version that its own batch made.
LEMMA RemoteEventKeepsAlone ==
  ASSUME ViewsInv, Alone, NEW v \in DOMAIN history, ApplyRemoteEvent(v), ViewsInv',
         OverlaysArePending
  PROVE  Alone' /\ Seen' = Seen
<1> DEFINE new == Document(history[v].type, history[v].data, v, "synced")
           ec  == (new.type = "found") # (remote.type = "found")
<1>1. /\ v \in (watched + 1)..Len(history) /\ watched' = v
      /\ remote' = (IF IsUpdate(new, remote) THEN new ELSE remote)
      /\ IF IsUpdate(new, remote) /\ IsRecalculated(overlay, ec)
         THEN RecalculateAndSaveOverlays(overlay, new, queue)
         ELSE UNCHANGED <<overlay, outdated>>
      /\ UNCHANGED <<history, queue, reply, lastId, foreign, setting>>
  BY DEF ApplyRemoteEvent
<1>2. /\ remote \in Docs /\ remote.state # "local" /\ overlay \in SavedOverlays
      /\ remote' \in Docs /\ remote'.state # "local"
      /\ queue \in Seq(Batches) /\ Len(history) \in Nat /\ v \in 1..Len(history)
  BY <1>1 DEF ViewsInv, WellTyped
<1>3. Current \in Versions /\ BaseVersion \in Versions
  BY VersionsOfBackend
<1>4. Current' = Current /\ BaseVersion' = BaseVersion
  BY <1>1 DEF Current, BaseVersion
<1>5. Seen' = Seen
  BY <1>1, <1>4 DEF Seen
<1>6. KnowsBackend'
  <2> SUFFICES ASSUME IsUpdate(new, remote)
               PROVE  \/ new.version = Len(history) /\ Alike(new, Current)
                      \/ /\ reply.state = "acknowledged" /\ new.version = Len(history) - 1
                         /\ Alike(new, BaseVersion)
    BY <1>1, <1>4 DEF Alone, KnowsBackend
  <2>1. new.version = v /\ Alike(new, history[v])
    BY DEF Document, Alike
  <2>2. v >= remote.version
    <3>1. remote.type # "invalid"
      BY <1>3 DEF Alone, KnowsBackend, Alike, Versions
    <3> QED BY <1>2, <2>1, <3>1 DEF IsUpdate, Docs
  <2> HIDE DEF new
  <2>3. CASE v = Len(history)
    BY <2>1, <2>3 DEF Current, Last
  <2>4. CASE v # Len(history)
    <3>1. v = Len(history) - 1 /\ reply.state = "acknowledged"
      BY <1>2, <2>2, <2>4 DEF Alone, KnowsBackend
    <3> QED BY <2>1, <3>1 DEF BaseVersion
  <2> QED BY <2>3, <2>4
<1>7. ASSUME reply'.state = "acknowledged"
      PROVE  AnswersFirst'
  BY <1>1, <1>4, <1>7 DEF Alone, AnswersFirst
<1>8. BasesFollow(queue', DocOf(BaseVersion'))
  BY <1>1, <1>4 DEF Alone
<1>9. ASSUME outdated'
      PROVE  /\ HasOverlay(overlay') /\ overlay'.mutation.type # "patch"
             /\ Alike(Overlayed(remote', overlay').doc, Seen)
  <2>1. CASE UNCHANGED <<overlay, outdated>>
    <3>1. HasOverlay(overlay) /\ overlay.mutation.type # "patch"
      BY <1>9, <2>1 DEF Alone, OutdatedIsSeen
    <3>2. Overlayed(remote', overlay).doc = Overlayed(remote, overlay).doc
      BY <1>2, <3>1, WholeOverlayed
    <3> QED BY <2>1, <3>1, <3>2, OverlayedIsSeen
  <2>2. CASE IsUpdate(new, remote) /\ IsRecalculated(overlay, ec)
    <3>1. RecalculateAndSaveOverlays(overlay, remote', queue) /\ HasOverlay(overlay)
      BY <1>1, <1>9, <2>2 DEF RecalculateAndSaveOverlays
    <3>2. queue # <<>>
      BY <3>1 DEF OverlaysArePending
    <3>3. Alike(Overlayed(remote, overlay).doc, Seen)
      BY OverlayedIsSeen
    <3>4. Alike(Replayed(remote', queue).doc, Seen)
      <4>1. \/ Alike(remote', BaseVersion)
            \/ reply.state = "acknowledged" /\ Alike(remote', Current)
        BY <1>1, <1>4, <1>6 DEF KnowsBackend, BaseVersion
      <4> QED BY <1>2, <4>1, ReplayIsSeen
    <3> HIDE DEF new, ec
    <3> QED BY <1>2, <1>9, <3>1, <3>2, <3>3, <3>4, OutdatedIsWhole
  <2> QED BY <1>1, <2>1, <2>2
<1> QED BY <1>1, <1>5, <1>6, <1>7, <1>8, <1>9 DEF Alone, OutdatedIsSeen

LEMMA NextAlone ==
  ViewsInv /\ ViewsInv' /\ OverlaysArePending /\ OverlaysArePending' /\ AloneInv /\ [Next]_vars
    => AloneInv'
<1> SUFFICES ASSUME ViewsInv, ViewsInv', OverlaysArePending, OverlaysArePending', AloneInv,
                    [Next]_vars, ~foreign'
             PROVE  Alone'
  BY DEF AloneInv
<1>1. CASE \E mutations \in setting.writes : WriteLocally(mutations)
  BY <1>1, WriteKeepsAlone DEF WriteLocally, AloneInv
<1>2. CASE \E v \in DOMAIN history : ApplyRemoteEvent(v)
  BY <1>2, RemoteEventKeepsAlone DEF ApplyRemoteEvent, AloneInv
<1>3. CASE AcknowledgeBatch
  BY <1>3, AcknowledgeKeepsAlone DEF AcknowledgeBatch, AloneInv
<1>4. CASE RejectBatch
  BY <1>4 DEF RejectBatch, AloneInv, Alone
<1>5. CASE Commit
  BY <1>5, CommitKeepsAlone DEF Commit, AloneInv
<1>6. CASE Refuse \/ \E doc \in setting.others : Change(doc)
  BY <1>6 DEF Refuse, Change
<1>7. CASE UNCHANGED vars
  BY <1>7 DEF AloneInv, Alone, KnowsBackend, AnswersFirst, OutdatedIsSeen, Seen,
              BaseVersion, Current, vars
<1> QED BY <1>1, <1>2, <1>3, <1>4, <1>5, <1>6, <1>7 DEF Next

\* What the user reads while this client alone writes.
SeenIsRead == ~foreign => Alike(LocalView, Seen)

\* While this client alone writes, neither an acknowledgement nor Watch changes
\* what the user reads: before and after, it is what the pending batches make of
\* the version that the first of them was or will be committed on.
THEOREM ReadsDoNotFlicker == Spec => NoFlicker
<1>1. Init => ViewsInv
  BY InitViews
<1>2. ViewsInv /\ [Next]_vars => ViewsInv'
  BY NextViews
<1>3. Init => AloneInv
  BY InitAlone
<1>4. ViewsInv /\ ViewsInv' /\ OverlaysArePending /\ OverlaysArePending' /\ AloneInv
        /\ [Next]_vars => AloneInv'
  BY NextAlone
<1>5. ViewsInv /\ AloneInv => SeenIsRead
  BY OverlayedIsSeen, ReadIsOverlayed DEF ViewsInv, AloneInv, SeenIsRead
<1> DEFINE Reports == AcknowledgeBatch \/ \E v \in DOMAIN history : ApplyRemoteEvent(v)
<1>6. ASSUME ViewsInv, ViewsInv', OverlaysArePending, OverlaysArePending', AloneInv,
             SeenIsRead, SeenIsRead', Reports, ~foreign
      PROVE  LocalView.type = LocalView'.type /\ LocalView.data = LocalView'.data
  <2>1. Alone /\ ~foreign'
    BY <1>6 DEF AloneInv, AcknowledgeBatch, ApplyRemoteEvent
  <2>2. Alike(Seen, Seen')
    BY <1>6, <2>1, AcknowledgeKeepsAlone, RemoteEventKeepsAlone DEF Alike
  <2>3. Alike(LocalView, Seen) /\ Alike(LocalView', Seen')
    BY <1>6, <2>1 DEF SeenIsRead
  <2> QED BY <2>2, <2>3 DEF Alike
<1>7. ViewsInv /\ ViewsInv' /\ OverlaysArePending /\ OverlaysArePending' /\ AloneInv
        /\ SeenIsRead /\ SeenIsRead'
        => [Reports /\ ~foreign
            => (LocalView.type = LocalView'.type /\ LocalView.data = LocalView'.data)]_vars
  BY <1>6
<1> QED
  BY <1>1, <1>2, <1>3, <1>4, <1>5, <1>7, OverlaysStayPending, PTL DEF Spec, NoFlicker
=============================================================================
