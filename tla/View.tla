-------------------------------- MODULE View --------------------------------
(***************************************************************************)
(* The view of one query without a limit: the documents it shows, whether  *)
(* the backend has reported all of its results (current), the documents in *)
(* limbo, which it shows although the backend does not report them, and    *)
(* what it tells its listeners (synced, or local: "from cache").           *)
(*                                                                         *)
(* What matters of a document's data is which queries it matches: that set *)
(* is its content. The empty content stands for a document that is         *)
(* missing, deleted, or matches none of the queries.                       *)
(***************************************************************************)
EXTENDS Integers, Sequences, SequencesExt, FiniteSetsExt, Functions

CONSTANTS
  Keys,     \* the documents
  Queries   \* the queries; each has a target of its own

ASSUME FiniteAssumption == IsFiniteSet(Keys) /\ IsFiniteSet(Queries)

Contents == SUBSET Queries

\* What the local store says of a document: its content under the pending
\* writes, and where that content comes from. "committed": a write that the
\* backend acknowledged but that Watch has not sent yet.
LocalDocuments == [content : Contents, from : {"watch", "committed", "local"}]

SyncStates == {"none", "local", "synced"}

NoView == [on |-> FALSE, docs |-> <<>>, current |-> FALSE, limbo |-> {}, sync |-> "none"]

NewView == [NoView EXCEPT !.on = TRUE]

\* A shown document has has_local_mutations set or not.
Shown(doc) == [content |-> doc.content, local |-> doc.from = "local"]

Matching(q, local) == {k \in Keys : q \in local[k].content}

\* A document that the backend acknowledged stays as it was written locally:
\* Watch will send it again.
ShouldWaitForSyncedDocument(old, doc) == old.local /\ doc.from = "committed"

\* results: the keys of the local documents that the query is known to match.
ComputeDocumentChanges(docs, results, local) ==
  [k \in results |->
     IF k \in DOMAIN docs /\ ShouldWaitForSyncedDocument(docs[k], local[k])
     THEN docs[k] ELSE Shown(local[k])]

ShouldBeInLimbo(docs, remoteKeys, k) == k \notin remoteKeys /\ ~docs[k].local

\* Only a view that is in sync with the backend can tell.
UpdateLimboDocuments(v, remoteKeys) ==
  IF v.current
  THEN {k \in DOMAIN v.docs : ShouldBeInLimbo(v.docs, remoteKeys, k)}
  ELSE v.limbo

\* ApplyChanges with the documents already computed and `current` already
\* taken from the target change. A pending reset changes no limbo document.
ApplyChanges(v, docs, current, remoteKeys, pendingReset) ==
  LET w     == [v EXCEPT !.docs = docs, !.current = current]
      limbo == IF pendingReset THEN v.limbo ELSE UpdateLimboDocuments(w, remoteKeys)
  IN  [w EXCEPT !.limbo = limbo,
                !.sync  = IF limbo = {} /\ current /\ ~pendingReset THEN "synced" ELSE "local"]

\* Whether the step raises a snapshot to the listeners.
Raises(v, w) == v.docs # w.docs \/ v.sync # w.sync

\* The keys the backend reports do not matter: a view that is not current keeps
\* its limbo documents.
ApplyOffline(v) ==
  IF v.current THEN ApplyChanges(v, v.docs, FALSE, {}, FALSE) ELSE v
=============================================================================
