----------------------- MODULE WatchChangeAggregator ------------------------
(***************************************************************************)
(* WatchChangeAggregator of remote/remote_event.cc, as operators on a      *)
(* record:                                                                 *)
(*                                                                         *)
(*   states   target_states_, for the targets it has an entry for:         *)
(*              pending   outstanding_responses_                           *)
(*              current   current_                                         *)
(*              changed   has_pending_changes_                             *)
(*              docs      document_changes_ ("none": no entry)             *)
(*              token     resume_token_                                    *)
(*   updates  pending_document_updates_ ("none": no entry)                 *)
(*   resets   pending_target_resets_                                       *)
(*                                                                         *)
(* The operators take the answers of the TargetMetadataProvider as m:      *)
(* m.listened, the keys of listen_targets_, and m.keys, the documents the  *)
(* view of each target has (GetRemoteKeysForTarget). A resume token stands *)
(* for the set of documents the backend has told about when it sends the   *)
(* token. pending_document_target_mappings_, which only says which         *)
(* documents belong to limbo targets alone, is left out.                   *)
(***************************************************************************)
EXTENDS Integers, FiniteSets, Functions

CONSTANTS
  Targets,     \* target ids
  Keys,        \* document keys
  DocTargets,  \* the targets that are a query for one document
  DocOf,       \* that document
  NoToken,     \* the empty resume token
  NoBloom      \* an existence filter without a usable bloom filter

ASSUME FiniteAssumption == IsFiniteSet(Targets) /\ IsFiniteSet(Keys)
ASSUME NoTokenAssumption == \A docs \in SUBSET Keys : NoToken # docs
ASSUME DocOfAssumption ==
  DocTargets \subseteq Targets /\ DocOf \in Injection(DocTargets, Keys)

ChangeTypes == {"none", "added", "modified", "removed"}
Updates     == {"none", "found", "deleted"}
Tokens      == (SUBSET Keys) \cup {NoToken}

TargetState ==
  [pending : Int, current : BOOLEAN, changed : BOOLEAN,
   docs : [Keys -> ChangeTypes], token : Tokens]

NewTargetState ==
  [pending |-> 0, current |-> FALSE, changed |-> TRUE,
   docs |-> [k \in Keys |-> "none"], token |-> NoToken]

NewAggregator ==
  [states |-> <<>>, updates |-> [k \in Keys |-> "none"], resets |-> {}]

-----------------------------------------------------------------------------
(* Entries of target_states_ *)

\* EnsureTargetState: operator[] of the map creates a missing entry.
StateOf(a, t) == IF t \in DOMAIN a.states THEN a.states[t] ELSE NewTargetState

SetState(a, t, s) ==
  [a EXCEPT !.states = [u \in DOMAIN @ \cup {t} |-> IF u = t THEN s ELSE @[u]]]

RemoveTarget(a, t) ==
  [a EXCEPT !.states = Restrict(@, DOMAIN @ \ {t})]

\* A target with unanswered requests is not active.
IsActiveTarget(a, m, t) == t \in m.listened /\ StateOf(a, t).pending = 0

UpdateResumeToken(s, token) ==
  IF token = NoToken THEN s ELSE [s EXCEPT !.changed = TRUE, !.token = token]

ClearPendingChanges(s) ==
  [s EXCEPT !.changed = FALSE, !.docs = [k \in Keys |-> "none"]]

\* n requests are sent for each of ts.
RecordPendingTargetRequests(a, ts, n) ==
  [a EXCEPT !.states = [t \in DOMAIN @ \cup ts |->
     IF t \in ts THEN [StateOf(a, t) EXCEPT !.pending = @ + n] ELSE @[t]]]

-----------------------------------------------------------------------------
(* Documents *)

AddDocumentToTarget(a, m, t, k) ==
  LET type == IF k \in m.keys[t] THEN "modified" ELSE "added"
      s    == [StateOf(a, t) EXCEPT !.changed = TRUE, !.docs[k] = type]
  IN  IF IsActiveTarget(a, m, t)
      THEN [SetState(a, t, s) EXCEPT !.updates[k] = "found"]
      ELSE a

\* A removal is recorded only for a document of the view: a document may enter
\* and leave the target between two snapshots. update is the deletion that came
\* with the removal, if one did.
RemoveDocumentFromTarget(a, m, t, k, update) ==
  LET type == IF k \in m.keys[t] THEN "removed" ELSE "none"
      s    == [StateOf(a, t) EXCEPT !.changed = TRUE, !.docs[k] = type]
  IN  IF IsActiveTarget(a, m, t)
      THEN [SetState(a, t, s) EXCEPT !.updates[k] = IF update = "none" THEN @ ELSE update]
      ELSE a

\* Mutant: the reset leaves the documents of the view in place.
ResetKeepsDocuments(a, m, t) == SetState(a, t, NewTargetState)

\* Every document of the view is to be removed, unless the backend sends it again.
ResetTarget(a, m, t) ==
  SetState(a, t, [NewTargetState EXCEPT
    !.docs = [k \in Keys |-> IF k \in m.keys[t] THEN "removed" ELSE "none"]])

-----------------------------------------------------------------------------
(* HandleTargetChange: one operator for each state of a WatchTargetChange *)

TargetAdded(a, t) ==
  LET s == [StateOf(a, t) EXCEPT !.pending = @ - 1]
  IN  SetState(a, t, IF s.pending = 0 THEN ClearPendingChanges(s) ELSE s)

\* Mutant: the ack of a removal drops the whole entry.
RemovedForgets(a, t) == RemoveTarget(a, t)

TargetRemoved(a, t) ==
  LET s == [StateOf(a, t) EXCEPT !.pending = @ - 1]
  IN  IF s.pending = 0 THEN RemoveTarget(a, t) ELSE SetState(a, t, s)

TargetCurrent(a, m, t, token) ==
  SetState(a, t,
    IF IsActiveTarget(a, m, t)
    THEN UpdateResumeToken([StateOf(a, t) EXCEPT !.changed = TRUE, !.current = TRUE], token)
    ELSE StateOf(a, t))

TargetReset(a, m, t) ==
  IF IsActiveTarget(a, m, t) THEN ResetTarget(a, m, t) ELSE SetState(a, t, StateOf(a, t))

\* NoChange without target ids: a token for every active target with an entry.
TargetsUnchanged(a, m, tokens) ==
  [a EXCEPT !.states = [t \in DOMAIN @ |->
     IF IsActiveTarget(a, m, t) THEN UpdateResumeToken(@[t], tokens[t]) ELSE @[t]]]

-----------------------------------------------------------------------------
(* Existence filters *)

With(s, type) == {k \in Keys : s.docs[k] = type}

GetCurrentDocumentCount(a, m, t) ==
  Cardinality(m.keys[t]) + Cardinality(With(StateOf(a, t), "added"))
                         - Cardinality(With(StateOf(a, t), "removed"))

\* The documents of the view that the bloom filter does not contain leave the
\* target.
FilterRemovedDocuments(a, m, t, bloom) ==
  SetState(a, t, [StateOf(a, t) EXCEPT
    !.changed = @ \/ m.keys[t] \ bloom # {},
    !.docs    = [k \in Keys |-> IF k \in m.keys[t] \ bloom THEN "removed" ELSE @[k]]])

\* Mutant: the filter is believed.
BloomTrusted(a, m, t, count, bloom) == TRUE

\* Returns whether the filter explains the difference in the counts.
BloomExplains(a, m, t, count, bloom) ==
  count = GetCurrentDocumentCount(a, m, t) - Cardinality(m.keys[t] \ bloom)

\* Mutant: a mismatch drops the documents but does not ask for them again.
MismatchWithoutRelisten(a, m, t, count, bloom) ==
  IF ~IsActiveTarget(a, m, t) \/ GetCurrentDocumentCount(a, m, t) = count THEN a
  ELSE ResetTarget(a, m, t)

HandleExistenceFilter(a, m, t, count, bloom) ==
  IF ~IsActiveTarget(a, m, t) THEN a
  ELSE IF t \in DocTargets
  THEN IF count = 0 THEN RemoveDocumentFromTarget(a, m, t, DocOf[t], "deleted") ELSE a
  ELSE IF GetCurrentDocumentCount(a, m, t) = count THEN SetState(a, t, StateOf(a, t))
  ELSE IF bloom # NoBloom /\ BloomExplains(a, m, t, count, bloom)
  THEN FilterRemovedDocuments(a, m, t, bloom)
  ELSE [ResetTarget(a, m, t) EXCEPT !.resets = @ \cup {t}]

-----------------------------------------------------------------------------
(* CreateRemoteEvent *)

\* Mutant: a document received since the last snapshot counts as missing.
MissingDespiteUpdate(a, m) ==
  {t \in DocTargets \cap DOMAIN a.states :
     /\ IsActiveTarget(a, m, t) /\ a.states[t].current /\ DocOf[t] \notin m.keys[t]}

\* The document targets that are current though nothing was ever received for
\* their document: it does not exist.
MissingDocuments(a, m) ==
  {t \in DocTargets \cap DOMAIN a.states :
     /\ IsActiveTarget(a, m, t) /\ a.states[t].current
     /\ a.updates[DocOf[t]] = "none" /\ DocOf[t] \notin m.keys[t]}

Synthesized(a, m) ==
  LET missing == MissingDocuments(a, m) IN
  [a EXCEPT
    !.states  = [t \in DOMAIN @ |->
                  IF t \in missing THEN [@[t] EXCEPT !.changed = TRUE, !.docs[DocOf[t]] = "none"]
                  ELSE @[t]],
    !.updates = [k \in Keys |-> IF \E t \in missing : DocOf[t] = k THEN "deleted" ELSE @[k]]]

ToTargetChange(s) ==
  [token |-> s.token, current |-> s.current, added |-> With(s, "added"),
   modified |-> With(s, "modified"), removed |-> With(s, "removed")]

Reported(a, m) ==
  {t \in DOMAIN a.states : IsActiveTarget(a, m, t) /\ a.states[t].changed}

CreateRemoteEvent(a, m) ==
  LET b == Synthesized(a, m)
  IN  [changes    |-> [t \in Reported(b, m) |-> ToTargetChange(b.states[t])],
       mismatches |-> b.resets,
       updates    |-> b.updates]

\* What CreateRemoteEvent leaves behind.
AfterRemoteEvent(a, m) ==
  LET b == Synthesized(a, m)
  IN  [states  |-> [t \in DOMAIN b.states |->
                     IF t \in Reported(b, m) THEN ClearPendingChanges(b.states[t]) ELSE b.states[t]],
       updates |-> [k \in Keys |-> "none"],
       resets  |-> {}]
=============================================================================
