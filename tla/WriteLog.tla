------------------------------ MODULE WriteLog ------------------------------
(***************************************************************************)
(* What the client promises about writes: each user has a log of accepted  *)
(* write batches. Only its end grows and only its front is taken away,     *)
(* acknowledged once it is committed, or rejected. The backend commits the *)
(* batches in the order of the log.                                        *)
(***************************************************************************)
EXTENDS Naturals, Sequences, SequencesExt

CONSTANTS Users,     \* the users, each with a log of their own
          Batches    \* the batch ids

VARIABLES log,     \* the accepted and unresolved batches of each user
          done     \* those of them that the backend has committed

vars == <<log, done>>

Init == log = [u \in Users |-> <<>>] /\ done = [u \in Users |-> {}]

\* A batch is accepted under an id above those of the batches before it.
Accept(u, b) ==
  /\ \A i \in 1..Len(log[u]) : log[u][i] < b
  /\ log' = [log EXCEPT ![u] = Append(@, b)]
  /\ UNCHANGED done

\* The backend commits a batch only when it has committed all those before it.
Commit(u) ==
  \E i \in 1..Len(log[u]) :
    /\ \A j \in 1..(i - 1) : log[u][j] \in done[u]
    /\ done' = [done EXCEPT ![u] = @ \cup {log[u][i]}]
    /\ UNCHANGED log

Leave(u) ==
  /\ log[u] # <<>>
  /\ log' = [log EXCEPT ![u] = Tail(@)]
  /\ done' = [done EXCEPT ![u] = @ \ {Head(log[u])}]

Acknowledge(u) == log[u] # <<>> /\ Head(log[u]) \in done[u] /\ Leave(u)

\* Only the oldest batch may be rejected. Either it is not committed, and then none
\* behind it is, or it is, and the client did not learn that: it could not decode
\* the answer, or the batch was sent again and then refused.
Reject(u) ==
  /\ Leave(u)
  /\ \A i \in 2..Len(log[u]) : Head(log[u]) \notin done[u] => log[u][i] \notin done[u]

Next == \E u \in Users :
          \/ \E b \in Batches : Accept(u, b)
          \/ Commit(u) \/ Acknowledge(u) \/ Reject(u)

Spec == Init /\ [][Next]_vars
=============================================================================
