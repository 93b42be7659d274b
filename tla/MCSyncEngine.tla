---------------------------- MODULE MCSyncEngine ----------------------------
(* Views and limbo resolution for TLC: two documents, two queries.          *)
EXTENDS SyncEngine

CONSTANTS j, k, p, q

Setting(cj, ck, quiet, change, write, listen, break, reset, reject) ==
  [contents |-> [x \in Keys |-> IF x = j THEN cj ELSE ck], silent |-> quiet,
   change |-> change, write |-> write, listen |-> listen, break |-> break,
   reset |-> reset, reject |-> reject]

SmallSettings ==
  { \* Both documents leave both queries: the limit, two references, lookups.
    Setting({p, q}, {p, q}, TRUE, 2, 0, 2, 0, 0, 1),
    \* Other views bring documents; views stop and start again.
    Setting({p}, {p}, TRUE, 2, 0, 3, 0, 0, 0),
    \* Broken connections and resets.
    Setting({p, q}, {p}, TRUE, 1, 0, 2, 1, 1, 0),
    \* Writes, acknowledged before and after the snapshots that report them.
    Setting({p}, {}, FALSE, 1, 1, 2, 0, 0, 0),
    Setting({p}, {}, TRUE, 0, 1, 2, 1, 0, 1),
    Setting({p, q}, {p}, TRUE, 1, 1, 1, 0, 1, 0),
    Setting({p, q}, {}, TRUE, 0, 1, 1, 1, 0, 1) }

\* One document; a lookup is rejected while the connection comes back.
ForgottenSettings == { Setting({p, q}, {}, TRUE, 3, 0, 3, 1, 0, 1) }

\* One document, written by two clients, while the query is first listened to.
OvertakenSettings == { Setting({}, {}, FALSE, 1, 1, 1, 0, 0, 0) }
=============================================================================
