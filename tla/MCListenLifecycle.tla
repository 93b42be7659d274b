------------------------- MODULE MCListenLifecycle --------------------------
(* ListenLifecycle for TLC: queries q1 and q2 share the target t1, as a       *)
(* limit query and its limit-to-last mirror do; q3 has a target of its own.   *)
(* The listeners r1..r4 are remote, c1 and c2 listen to the cache.            *)
EXTENDS ListenLifecycle

CONSTANTS q1, q2, q3, t1, t2, r1, r2, r3, r4, c1, c2

SharedTarget == [q \in Queries |-> IF q = q3 THEN t2 ELSE t1]
ListenedQuery ==
  [l \in Listeners |-> IF l = r3 THEN q2 ELSE IF l = r4 THEN q3 ELSE q1]

Remote(keeps) == [listeners |-> {r1, r2, r3, r4}, keeps |-> keeps, rejections |-> 2]
Mixed(keeps)  == [listeners |-> {r1, r2, c1, c2}, keeps |-> keeps, rejections |-> 0]

\* Remote listeners with rejections, and remote and cache listeners of one query
\* without; each with both kinds of garbage collection.
SoundSettings == {Remote(TRUE), Remote(FALSE), Mixed(TRUE), Mixed(FALSE)}

\* Remote and cache listeners on two queries that share a target.
MirrorSettings == {[listeners |-> {r1, c1, r3}, keeps |-> TRUE, rejections |-> 0]}

\* A remote and a cache listener of one query whose target is rejected.
RejectedSettings == {[listeners |-> {r1, c1}, keeps |-> TRUE, rejections |-> 1]}

\* The cache listener of one query and the remote listener of its mirror.
LeakSettings == {[listeners |-> {c1, r3}, keeps |-> TRUE, rejections |-> 0]}

\* A query that is downgraded to the cache, upgraded again and then rejected.
UpgradeSettings == {[listeners |-> {r1, c1, r2}, keeps |-> TRUE, rejections |-> 1]}
=============================================================================
