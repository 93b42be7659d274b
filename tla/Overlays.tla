------------------------------ MODULE Overlays ------------------------------
(***************************************************************************)
(* The local view of a document: the version of the remote document cache, *)
(* the batches of local mutations that are pending, and the overlay, one   *)
(* saved mutation that stands for all of them, with the largest batch it   *)
(* includes. Reads apply the overlay; the batches are replayed only when   *)
(* the overlay has to be computed again.                                   *)
(*                                                                         *)
(* One document: overlays of different documents do not interact. A field  *)
(* holds a positive number, or 0 for a field that is missing. The backend  *)
(* (external) commits the batches in order; other clients change the       *)
(* document; Watch sends its versions in order and may skip some.          *)
(***************************************************************************)
EXTENDS Integers, Sequences, SequencesExt, FiniteSetsExt

CONSTANTS
  Fields,
  Settings    \* the settings to check: the document at the start and whether
              \* it is cached, what the user and the other clients may write,
              \* how many batches, changes and refusals there are

VARIABLES
  history,    \* the backend's versions of the document
  watched,    \* the latest version that Watch sent
  remote,     \* the remote document cache
  queue,      \* the mutation queue
  overlay,    \* the document overlay cache
  reply,      \* the backend's answer to the first batch
  lastId,     \* the batch id that was given last
  foreign,    \* whether this client does not know, or did not write alone,
              \* what the backend has
  outdated,   \* whether a recalculation found no overlay and left an old one
  setting     \* what may still happen

vars == <<history, watched, remote, queue, overlay, reply, lastId, foreign,
          outdated, setting>>

Data    == [Fields -> Nat]
NoData  == [f \in Fields |-> 0]
NoMask  == [full |-> TRUE, fields |-> {}]    \* a Set or a Delete: no mask
Mask(s) == [full |-> FALSE, fields |-> s]

Types  == {"invalid", "found", "none", "unknown"}
States == {"synced", "committed", "local"}

Document(type, data, version, state) ==
  [type |-> type, data |-> data, version |-> version, state |-> state]

Invalid == Document("invalid", NoData, 0, "synced")

Mutation(type, data, mask, inc, mustExist) ==
  [type |-> type, data |-> data, mask |-> mask, inc |-> inc, mustExist |-> mustExist]

Set(data)        == Mutation("set", data, {}, {}, FALSE)
Delete           == Mutation("delete", NoData, {}, {}, FALSE)
Merge(data, s)   == Mutation("patch", data, s, {}, FALSE)
Update(data, s)  == Mutation("patch", data, s, {}, TRUE)
Increment(f)     == Mutation("patch", NoData, {}, {f}, TRUE)
MergeIncrement(f) == Mutation("patch", NoData, {}, {f}, FALSE)

NoOverlay == [batch |-> 0, mutation |-> Delete]
NoReply   == [state |-> "none", version |-> 0, data |-> NoData]

\* Only a patch has a mask, increments and a precondition.
Mutations ==
  {m \in [type : {"set", "delete", "patch"}, data : Data, mask : SUBSET Fields,
          inc : SUBSET Fields, mustExist : BOOLEAN] :
     /\ m.type # "patch" => m.mask = {} /\ m.inc = {} /\ ~m.mustExist
     /\ m.type = "delete" => m.data = NoData}

\* What the backend has: a document that does not exist has no fields.
Versions ==
  {d \in [type : {"found", "none"}, data : Data] : d.type = "none" => d.data = NoData}

\* FirestoreClient::WriteMutations leaves out a batch without mutations.
AllSettings ==
  [start : Versions, cached : BOOLEAN, writes : SUBSET (Seq(Mutations) \ {<<>>}),
   others : SUBSET Versions, batches : Nat, changes : Nat, refusals : Nat]

ASSUME SettingsAssumption == Settings \subseteq AllSettings

-----------------------------------------------------------------------------
(* Mutations *)

IsValidFor(m, doc) == m.mustExist => doc.type = "found"

Patched(m, data) ==
  [f \in Fields |-> IF f \in m.inc THEN data[f] + 1
                    ELSE IF f \in m.mask THEN m.data[f] ELSE data[f]]

\* A view is a document and the mask of the fields that mutations changed.
ApplyToLocalView(m, view) ==
  IF ~IsValidFor(m, view.doc) THEN view
  ELSE IF m.type = "patch"
  THEN [doc  |-> Document("found", Patched(m, view.doc.data), 0, "local"),
        mask |-> IF view.mask.full THEN NoMask
                 ELSE Mask(view.mask.fields \cup m.mask \cup m.inc)]
  ELSE [doc  |-> Document(IF m.type = "set" THEN "found" ELSE "none", m.data, 0, "local"),
        mask |-> NoMask]

\* Mutant: an increment is applied to whatever the document holds.
NoBaseValue(m, doc) == <<>>

\* The base state of the fields that a mutation increments, for documents that
\* exist.
ExtractTransformBaseValue(m, doc) ==
  IF m.inc = {} THEN <<>> ELSE <<Update(doc.data, m.inc)>>

\* MutationBatch::ApplyToLocalView: the base state, then the mutations.
ApplyBatch(batch, view) ==
  FoldLeft(LAMBDA v, m : ApplyToLocalView(m, v), view, batch.base \o batch.mutations)

\* The overlay that stands for the mutations that led to the view, if any did.
CalculateOverlayMutation(view, id) ==
  IF view.doc.state # "local" THEN NoOverlay
  ELSE [batch |-> id,
        mutation |-> IF ~view.mask.full THEN Merge(view.doc.data, view.mask.fields)
                     ELSE IF view.doc.type = "none" THEN Delete ELSE Set(view.doc.data)]

-----------------------------------------------------------------------------
(* LocalDocumentsView *)

HasOverlay(o) == o # NoOverlay

\* The document and the mutated fields that reads see.
Overlayed(doc, o) ==
  IF ~HasOverlay(o) THEN [doc |-> doc, mask |-> Mask({})]
  ELSE [doc  |-> ApplyToLocalView(o.mutation, [doc |-> doc, mask |-> NoMask]).doc,
        mask |-> IF o.mutation.type = "patch" THEN Mask(o.mutation.mask) ELSE NoMask]

\* The base of an overlay that is not a patch is an invalid document.
GetBaseDocument(doc, o) ==
  IF ~HasOverlay(o) \/ o.mutation.type = "patch" THEN doc ELSE Invalid

LocalView == Overlayed(GetBaseDocument(remote, overlay), overlay).doc

\* GetDocument with the pending batches: the reference of what reads should see.
Replayed(doc, batches) ==
  FoldLeft(LAMBDA v, b : ApplyBatch(b, v), [doc |-> doc, mask |-> Mask({})], batches)

\* The overlay is saved for the last of the batches.
Recalculated(doc, batches) ==
  CalculateOverlayMutation(Replayed(doc, batches), Last(batches).id)

\* A recalculation that finds no overlay leaves the one that is there.
RecalculateAndSaveOverlays(o, doc, batches) ==
  LET new == IF batches = <<>> THEN NoOverlay ELSE Recalculated(doc, batches)
  IN  /\ overlay'  = IF HasOverlay(new) THEN new ELSE o
      /\ outdated' = (HasOverlay(o) /\ ~HasOverlay(new))

\* Mutant: a document without an overlay is left alone.
OnlyPatched(o, existenceChanged) == existenceChanged /\ HasOverlay(o) /\ o.mutation.type = "patch"

\* ComputeViews after a remote change of the document: a patch, or a mutation
\* that did not apply so far, may depend on its existence.
IsRecalculated(o, existenceChanged) ==
  existenceChanged /\ (~HasOverlay(o) \/ o.mutation.type = "patch")

\* Mutant: the overlay stays until another batch replaces it.
KeepOverlays(o, id) == o

RemoveOverlaysForBatchId(o, id) == IF o.batch = id THEN NoOverlay ELSE o

-----------------------------------------------------------------------------
(* LocalStore *)

Init ==
  /\ \E s \in Settings :
       /\ setting = s /\ history = <<s.start>>
       /\ watched = IF s.cached THEN 1 ELSE 0
       /\ remote = IF s.cached THEN Document(s.start.type, s.start.data, 1, "synced")
                   ELSE Invalid
       /\ foreign = ~s.cached
  /\ queue = <<>>
  /\ overlay = NoOverlay
  /\ reply = NoReply
  /\ lastId = 0
  /\ outdated = FALSE

WriteLocally(mutations) ==
  LET view  == Overlayed(remote, overlay)
      batch == [id |-> lastId + 1,
                base |-> FlattenSeq([i \in DOMAIN mutations |->
                           ExtractTransformBaseValue(mutations[i], view.doc)]),
                mutations |-> mutations]
      new   == CalculateOverlayMutation(ApplyBatch(batch, view), batch.id)
  IN  /\ lastId < setting.batches
      /\ lastId' = batch.id
      /\ queue' = Append(queue, batch)
      /\ overlay' = IF HasOverlay(new) THEN new ELSE overlay
      /\ UNCHANGED <<history, watched, remote, reply, foreign, outdated, setting>>

\* ApplyToRemoteDocument of each mutation; results: the backend's values of the
\* incremented fields. A patch of a document that is not known makes it unknown.
ApplyToRemoteDocument(m, doc, answer) ==
  IF m.type = "patch"
  THEN IF IsValidFor(m, doc)
       THEN Document("found", [f \in Fields |-> IF f \in m.inc THEN answer.data[f]
                                                ELSE Patched(m, doc.data)[f]],
                     answer.version, "committed")
       ELSE Document("unknown", NoData, answer.version, "committed")
  ELSE Document(IF m.type = "set" THEN "found" ELSE "none", m.data,
                answer.version, "committed")

ApplyBatchResult(doc, batch, answer) ==
  IF doc.version < answer.version
  THEN FoldLeft(LAMBDA d, m : ApplyToRemoteDocument(m, d, answer), doc, batch.mutations)
  ELSE doc

\* GetKeysWithTransformResults compares a size in the descriptor of the message,
\* which is 0, so that every key is recalculated, with a transform or without.
AcknowledgeBatch ==
  /\ reply.state = "acknowledged"
  /\ remote' = ApplyBatchResult(remote, Head(queue), reply)
  /\ queue' = Tail(queue)
  /\ RecalculateAndSaveOverlays(
       RemoveOverlaysForBatchId(overlay, Head(queue).id), remote', queue')
  /\ reply' = NoReply
  /\ UNCHANGED <<history, watched, lastId, foreign, setting>>

RejectBatch ==
  /\ reply.state = "refused"
  /\ queue' = Tail(queue)
  /\ RecalculateAndSaveOverlays(
       RemoveOverlaysForBatchId(overlay, Head(queue).id), remote, queue')
  /\ reply' = NoReply
  /\ UNCHANGED <<history, watched, remote, lastId, foreign, setting>>

\* Mutant: the version that was acknowledged is not sent again.
OnlyNewer(new, old) == old.type = "invalid" \/ new.version > old.version

IsUpdate(new, old) ==
  \/ old.type = "invalid"
  \/ new.version > old.version
  \/ new.version = old.version /\ old.state = "committed"

\* ApplyRemoteEvent with a version of the document.
ApplyRemoteEvent(v) ==
  LET new              == Document(history[v].type, history[v].data, v, "synced")
      existenceChanged == (new.type = "found") # (remote.type = "found")
  IN  /\ v \in (watched + 1)..Len(history)
      /\ watched' = v
      /\ remote' = IF IsUpdate(new, remote) THEN new ELSE remote
      /\ IF IsUpdate(new, remote) /\ IsRecalculated(overlay, existenceChanged)
         THEN RecalculateAndSaveOverlays(overlay, new, queue)
         ELSE UNCHANGED <<overlay, outdated>>
      /\ UNCHANGED <<history, queue, reply, lastId, foreign, setting>>

-----------------------------------------------------------------------------
(* The backend *)

Current == Last(history)

\* The outcome of a batch: each mutation on the outcome of the one before.
Committed(batch) ==
  FoldLeft(LAMBDA r, m :
             IF r.ok /\ IsValidFor(m, r)
             THEN [ok   |-> TRUE,
                   type |-> IF m.type = "delete" THEN "none" ELSE "found",
                   data |-> IF m.type = "patch" THEN Patched(m, r.data) ELSE m.data]
             ELSE [r EXCEPT !.ok = FALSE],
           [ok |-> TRUE, type |-> Current.type, data |-> Current.data], batch.mutations)

Store(type, data) == history' = Append(history, [type |-> type, data |-> data])

Commit ==
  LET result == Committed(Head(queue))
  IN  /\ queue # <<>> /\ reply = NoReply
      /\ result.ok
      /\ Store(result.type, result.data)
      /\ reply' = [state |-> "acknowledged", version |-> Len(history) + 1,
                   data |-> result.data]
      /\ UNCHANGED <<watched, remote, queue, overlay, lastId, foreign, outdated, setting>>

\* A precondition fails, or the backend does not allow it.
Refuse ==
  /\ queue # <<>> /\ reply = NoReply
  /\ \/ ~Committed(Head(queue)).ok /\ UNCHANGED setting
     \/ setting.refusals > 0 /\ setting' = [setting EXCEPT !.refusals = @ - 1]
  /\ reply' = [NoReply EXCEPT !.state = "refused"]
  /\ foreign' = TRUE
  /\ UNCHANGED <<history, watched, remote, queue, overlay, lastId, outdated>>

Change(doc) ==
  /\ setting.changes > 0 /\ setting' = [setting EXCEPT !.changes = @ - 1]
  /\ doc # Current
  /\ Store(doc.type, doc.data)
  /\ foreign' = TRUE
  /\ UNCHANGED <<watched, remote, queue, overlay, reply, lastId, outdated>>

Next ==
  \/ \E mutations \in setting.writes : WriteLocally(mutations)
  \/ \E doc \in setting.others : Change(doc)
  \/ \E v \in DOMAIN history : ApplyRemoteEvent(v)
  \/ AcknowledgeBatch \/ RejectBatch \/ Commit \/ Refuse

Spec == Init /\ [][Next]_vars

-----------------------------------------------------------------------------
(* Properties *)

\* An overlay belongs to a batch that is pending: none outlives the last batch
\* it includes, however batches, answers and remote changes interleave.
OverlaysArePending ==
  HasOverlay(overlay) => \E i \in DOMAIN queue : queue[i].id = overlay.batch

Same(d, e) ==
  /\ (d.type = "found") = (e.type = "found") /\ d.data = e.data
  /\ (d.state = "local") = (e.state = "local")

\* The saved mutation is as good as the batches it stands for: through it the
\* user reads what a replay of the pending batches on the cached document gives,
\* although Watch, acknowledgements and refusals change that document and the
\* queue and mostly leave the overlay as it is. It ends when a recalculation
\* leaves an outdated overlay (ExistsAsReplayed), until that one is removed.
ViewIsReplayed == ~outdated => Same(LocalView, Replayed(remote, queue).doc)

\* When nothing is pending and Watch has sent everything, the user reads what
\* the backend has: no overlay, guess or unknown document of an earlier
\* acknowledgement remains.
SettledIsServer ==
  queue = <<>> /\ watched = Len(history) =>
    (LocalView.type = "found") = (Current.type = "found") /\ LocalView.data = Current.data

\* While this client alone writes, on a document it has cached, neither the
\* acknowledgement of a batch nor Watch's report of it changes what the user
\* reads, in whichever order they arrive; an increment that the backend has
\* applied already is not counted twice.
NoFlicker ==
  [][(AcknowledgeBatch \/ \E v \in DOMAIN history : ApplyRemoteEvent(v))
       /\ ~foreign
     => (LocalView.type = LocalView'.type /\ LocalView.data = LocalView'.data)]_vars

\* "An overlay is a saved Mutation, that gives a local view of a document when
\* applied to the remote version of the document" (document_overlay_cache.h):
\* the document exists for reads when it does for a replay of the batches.
ExistsAsReplayed ==
  (LocalView.type = "found") = (Replayed(remote, queue).doc.type = "found")
=============================================================================
