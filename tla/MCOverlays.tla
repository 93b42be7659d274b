----------------------------- MODULE MCOverlays -----------------------------
(* Overlays for TLC: a counter field a and another field b.                 *)
EXTENDS Overlays

CONSTANTS a, b

D(x, y) == [f \in Fields |-> IF f = a THEN x ELSE y]

Missing     == [type |-> "none", data |-> NoData]
Found(x, y) == [type |-> "found", data |-> D(x, y)]

SetBoth  == <<Set(D(1, 1))>>
Rename   == <<Update(D(0, 2), {b})>>
MergeB   == <<Merge(D(0, 3), {b})>>
Count    == <<Increment(a)>>
CountNew == <<MergeIncrement(a)>>
Erase    == <<Delete>>
Twice    == <<Increment(a), Update(D(0, 4), {b}), Increment(a)>>
Replace  == <<Delete, MergeIncrement(a)>>

Setting(start, cached, writes, others, batches, changes, refusals) ==
  [start |-> start, cached |-> cached, writes |-> writes, others |-> others,
   batches |-> batches, changes |-> changes, refusals |-> refusals]

AllWrites == {SetBoth, Rename, MergeB, Count, CountNew, Erase, Twice, Replace}
Others    == {Missing, Found(7, 7)}

SmallSettings ==
  { \* This client alone, on a document that exists or does not.
    Setting(Found(5, 5), TRUE, AllWrites, {}, 4, 0, 0),
    Setting(Missing, TRUE, AllWrites, {}, 4, 0, 0),
    \* Another client changes and deletes the document; refusals.
    Setting(Found(5, 5), TRUE, {SetBoth, Rename, Count, Erase}, Others, 3, 2, 0),
    Setting(Missing, FALSE, {SetBoth, Rename, MergeB, Erase}, Others, 3, 1, 1),
    \* A document that is not cached yet.
    Setting(Found(5, 5), FALSE, {Rename, CountNew, Replace}, Others, 2, 1, 1) }

\* An update of a document that another client deletes.
StaleSettings == { Setting(Found(5, 5), TRUE, {Rename}, {Missing}, 2, 1, 0) }
=============================================================================
