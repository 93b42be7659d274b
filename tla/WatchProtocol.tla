--------------------------- MODULE WatchProtocol ----------------------------
(***************************************************************************)
(* The watch stream as a protocol: what RemoteStore and its aggregator do  *)
(* with the messages of a backend that answers requests in their order     *)
(* while documents are created and deleted.                                *)
(*                                                                         *)
(* The client keeps the documents and the resume token of a target it no   *)
(* longer listens to: LRU persistence gives the next listen to the same    *)
(* query the same target id, and the view then starts from both. (Under    *)
(* eager collection an id is listened to once, as where listens is 1.)     *)
(* Starting and stopping the stream is the subject of RemoteStore.tla.     *)
(*                                                                         *)
(* The backend is external. After a resume it may tell about deletions one *)
(* by one or with an existence filter.                                     *)
(***************************************************************************)
EXTENDS WatchChangeAggregator, Sequences, SequencesExt

CONSTANTS
  Match,           \* the documents that match a target, if they exist
  MaxInbox,        \* bound on the messages under way to the client
  Settings         \* the settings to check: what the environment may do

\* A setting names the targets the user listens to and the documents that come
\* and go; whether a bloom filter may contain documents that are gone; whether no
\* deletion or change is sent for a document of the resume token before the
\* existence filter; and bounds on the listens (of each target), the writes (that
\* create or delete a document), the changes (of a document), the breaks (of the
\* stream), and the rejections, resets, filters and stale snapshots sent.
ASSUME MatchAssumption ==
  /\ Match \in [Targets -> SUBSET Keys]
  /\ \A t \in DocTargets : Match[t] = {DocOf[t]}
ASSUME BoundAssumption ==
  /\ MaxInbox \in Nat
  /\ Settings \subseteq
       [targets : SUBSET Targets, docs : SUBSET Keys,
        falsePositives : BOOLEAN, filtersFirst : BOOLEAN,
        listens : Nat, writes : Nat, changes : Nat, breaks : Nat,
        rejections : Nat, resets : Nat, filters : Nat, stale : Nat]

VARIABLES
  listening,  \* the keys of listen_targets_
  keys,       \* the documents of each target: synced_documents_ of its view and
              \* the matching keys of the target cache
  token,      \* the resume token of each target, in memory and in the cache
  agg,        \* watch_change_aggregator_
  open,       \* the watch stream is open
  outbox,     \* requests under way to the backend
  inbox,      \* messages under way to the client
  store,      \* the documents that exist
  served,     \* the backend's targets: what it told about, and whether current
  news,       \* the backend sent something since its last fresh snapshot
  listens,    \* how often each target was listened to
  setting     \* one of Settings; its bounds are what is left of them

client   == <<listening, keys, token, agg>>
backend  == <<store, served, news>>
vars == <<listening, keys, token, agg, open, outbox, inbox, store, served, news, listens, setting>>

Metadata == [listened |-> listening, keys |-> keys]
Matching(t) == Match[t] \cap store

Spend(what) == setting[what] > 0 /\ setting' = [setting EXCEPT ![what] = @ - 1]

WatchRequest(t)   == [t |-> t, watch |-> TRUE,  token |-> token[t]]
RewatchRequest(t) == [t |-> t, watch |-> TRUE,  token |-> NoToken]
UnwatchRequest(t) == [t |-> t, watch |-> FALSE, token |-> NoToken]

-----------------------------------------------------------------------------
(* Calls of the sync engine *)

Listen(t) ==
  /\ t \in setting.targets \ listening /\ listens[t] < setting.listens
  /\ listens' = [listens EXCEPT ![t] = @ + 1]
  /\ listening' = listening \cup {t}
  /\ agg' = IF open THEN RecordPendingTargetRequests(agg, {t}, 1) ELSE agg
  /\ outbox' = IF open THEN Append(outbox, WatchRequest(t)) ELSE outbox
  /\ UNCHANGED <<keys, token, open, inbox, backend, setting>>

StopListening(t) ==
  /\ t \in listening
  /\ listening' = listening \ {t}
  /\ agg' = IF open THEN RecordPendingTargetRequests(agg, {t}, 1) ELSE agg
  /\ outbox' = IF open THEN Append(outbox, UnwatchRequest(t)) ELSE outbox
  /\ UNCHANGED <<keys, token, open, inbox, backend, listens, setting>>

-----------------------------------------------------------------------------
(* The stream *)

\* OnWatchStreamOpen. A document query has no mismatch that clears its token,
\* and the aggregator is the one StartWatchStream made.
OpenStream ==
  /\ ~open /\ listening # {}
  /\ open' = TRUE
  /\ agg' = RecordPendingTargetRequests(NewAggregator, listening, 1)
  /\ outbox' = SetToSeq({WatchRequest(t) : t \in listening})
  /\ UNCHANGED <<listening, keys, token, inbox, backend, listens, setting>>

\* OnWatchStreamClose, and what the backend does when its client is gone.
BreakStream ==
  /\ open /\ Spend("breaks")
  /\ open' = FALSE /\ agg' = NewAggregator
  /\ outbox' = <<>> /\ inbox' = <<>> /\ served' = <<>> /\ news' = FALSE
  /\ UNCHANGED <<listening, keys, token, store, listens>>

-----------------------------------------------------------------------------
(* OnWatchStreamChange: one action for each kind of message *)

Arrives(kind) == inbox # <<>> /\ Head(inbox).kind = kind /\ inbox' = Tail(inbox)

OnlyAggregates ==
  UNCHANGED <<listening, keys, token, open, outbox, backend, listens, setting>>

OnDocument ==
  LET m == Head(inbox) IN
  /\ \/ Arrives("found")   /\ agg' = AddDocumentToTarget(agg, Metadata, m.t, m.key)
     \/ Arrives("deleted") /\ agg' = RemoveDocumentFromTarget(agg, Metadata, m.t, m.key, "deleted")
  /\ OnlyAggregates

OnTargetChange ==
  LET m == Head(inbox) IN
  /\ \/ Arrives("added")   /\ agg' = TargetAdded(agg, m.t)
     \/ Arrives("removed") /\ agg' = TargetRemoved(agg, m.t)
     \/ Arrives("current") /\ agg' = TargetCurrent(agg, Metadata, m.t, m.token)
     \/ Arrives("reset")   /\ agg' = TargetReset(agg, Metadata, m.t)
  /\ OnlyAggregates

OnFilter ==
  LET m == Head(inbox) IN
  /\ Arrives("filter")
  /\ agg' = HandleExistenceFilter(agg, Metadata, m.t, m.count, m.bloom)
  /\ OnlyAggregates

\* ProcessTargetError: a target that was removed already is ignored.
OnRejection ==
  LET t == Head(inbox).t IN
  /\ Arrives("rejected")
  /\ listening' = listening \ {t}
  /\ agg' = IF t \in listening THEN RemoveTarget(agg, t) ELSE agg
  /\ UNCHANGED <<keys, token, open, outbox, backend, listens, setting>>

\* The aggregator after the token of a snapshot message.
WithTokens(m) ==
  TargetsUnchanged(agg, Metadata,
                   [t \in Targets |-> IF t \in DOMAIN m.view THEN m.view[t] ELSE NoToken])

\* RaiseWatchSnapshot raises this event for the message m.
Event(m) == CreateRemoteEvent(WithTokens(m), Metadata)

Mismatched(e) == e.mismatches \cap listening

\* The documents of t once the event has been applied.
KeysAfter(e, t) ==
  IF t \in DOMAIN e.changes /\ t \in listening
  THEN (keys[t] \ e.changes[t].removed) \cup e.changes[t].added
  ELSE keys[t]

\* Mutant: the token of a mismatched target survives.
TokenSurvives(e, t) ==
  IF t \in DOMAIN e.changes /\ t \in listening /\ e.changes[t].token # NoToken
  THEN e.changes[t].token
  ELSE token[t]

\* The token of t: none after a mismatch, else the one of the event, if any.
TokenAfter(e, t) ==
  IF t \in Mismatched(e) THEN NoToken
  ELSE IF t \in DOMAIN e.changes /\ t \in listening /\ e.changes[t].token # NoToken
  THEN e.changes[t].token
  ELSE token[t]

\* Mutant: the two requests are sent in the other order.
RewatchedFirst(e) ==
  LET ts == SetToSeq(Mismatched(e)) IN
  [i \in 1..2 * Len(ts) |-> IF i % 2 = 1 THEN RewatchRequest(ts[(i + 1) \div 2])
                            ELSE UnwatchRequest(ts[i \div 2])]

\* A mismatched target is unwatched and watched again at once, without a token.
Rewatched(e) ==
  LET ts == SetToSeq(Mismatched(e)) IN
  [i \in 1..2 * Len(ts) |-> IF i % 2 = 1 THEN UnwatchRequest(ts[(i + 1) \div 2])
                            ELSE RewatchRequest(ts[i \div 2])]

RaiseWatchSnapshot(m) ==
  LET e == Event(m)
  IN  /\ agg' = RecordPendingTargetRequests(AfterRemoteEvent(WithTokens(m), Metadata), Mismatched(e), 2)
      /\ outbox' = outbox \o Rewatched(e)
      /\ keys' = [t \in Targets |-> KeysAfter(e, t)]
      /\ token' = [t \in Targets |-> TokenAfter(e, t)]

\* NoChange for all targets with the version of a global snapshot, which is
\* raised unless it is older than the last one.
OnSnapshot ==
  LET m == Head(inbox) IN
  /\ Arrives("snapshot")
  /\ \/ m.fresh /\ RaiseWatchSnapshot(m)
     \/ ~m.fresh /\ agg' = WithTokens(m) /\ UNCHANGED <<outbox, keys, token>>
  /\ UNCHANGED <<listening, open, backend, listens, setting>>

Receive == OnDocument \/ OnTargetChange \/ OnFilter \/ OnRejection \/ OnSnapshot

-----------------------------------------------------------------------------
(* The backend (external) *)

Send(m) == Len(inbox) < MaxInbox /\ inbox' = Append(inbox, m) /\ news' = TRUE
ClientUnchanged == UNCHANGED <<client, open, listens>>

\* What the backend keeps about a target: the documents the client should have,
\* those of them it knows of from the resume token alone, and whether it called
\* the target current.
Resumed(docs) == [told |-> docs, resumed |-> docs, current |-> FALSE]

\* The next request is answered. Every removal is answered, also that of a
\* target the backend has rejected meanwhile.
Answer ==
  LET r == Head(outbox) IN
  /\ outbox # <<>> /\ outbox' = Tail(outbox)
  /\ Send([kind |-> IF r.watch THEN "added" ELSE "removed", t |-> r.t])
  /\ served' = IF r.watch
               THEN [t \in DOMAIN served \cup {r.t} |->
                       IF t = r.t THEN Resumed(IF r.token = NoToken THEN {} ELSE r.token)
                       ELSE served[t]]
               ELSE Restrict(served, DOMAIN served \ {r.t})
  /\ ClientUnchanged /\ UNCHANGED <<store, setting>>

\* The next request is a watch request, and the backend refuses it.
Refuse ==
  /\ outbox # <<>> /\ Head(outbox).watch /\ outbox' = Tail(outbox)
  /\ Spend("rejections") /\ Send([kind |-> "rejected", t |-> Head(outbox).t])
  /\ ClientUnchanged /\ UNCHANGED <<store, served>>

Drop(t) ==
  /\ t \in DOMAIN served
  /\ Spend("rejections") /\ Send([kind |-> "rejected", t |-> t])
  /\ served' = Restrict(served, DOMAIN served \ {t})
  /\ ClientUnchanged /\ UNCHANGED <<outbox, store>>

Tell(t, told, about, m) ==
  /\ Send(m)
  /\ served' = [served EXCEPT ![t].told = told, ![t].resumed = @ \ about]
  /\ ClientUnchanged /\ UNCHANGED <<outbox, store>>

TellFound(t, k) ==
  /\ t \in DOMAIN served /\ k \in Matching(t) \ served[t].told
  /\ Tell(t, served[t].told \cup {k}, {k}, [kind |-> "found", t |-> t, key |-> k])
  /\ UNCHANGED setting

MayTell(t, k) == setting.filtersFirst => k \notin served[t].resumed

\* A document the client has was modified.
TellModified(t, k) ==
  /\ t \in DOMAIN served /\ k \in Matching(t) \cap served[t].told /\ MayTell(t, k)
  /\ Spend("changes")
  /\ Tell(t, served[t].told, {k}, [kind |-> "found", t |-> t, key |-> k])

TellDeleted(t, k) ==
  /\ t \in DOMAIN served /\ k \in served[t].told \ Matching(t) /\ MayTell(t, k)
  /\ Tell(t, served[t].told \ {k}, {k}, [kind |-> "deleted", t |-> t, key |-> k])
  /\ UNCHANGED setting

\* Once every document that matches has been told about, an existence filter
\* stands for the deletions that happened while nobody watched. Its bloom filter
\* has the documents that did not change since the resume token, and perhaps
\* others.
BloomsFor(t) ==
  LET unchanged == served[t].resumed \cap store IN
  {NoBloom} \cup {unchanged \cup extra :
                    extra \in IF setting.falsePositives THEN SUBSET (Match[t] \ store) ELSE {{}}}

TellFilter(t) ==
  /\ t \in DOMAIN served /\ Matching(t) \subseteq served[t].told
  /\ served[t].told \ Matching(t) \subseteq served[t].resumed /\ Spend("filters")
  /\ \E bloom \in BloomsFor(t) :
       Tell(t, Matching(t), Keys, [kind |-> "filter", t |-> t,
                                   count |-> Cardinality(Matching(t)), bloom |-> bloom])

TellCurrent(t) ==
  /\ t \in DOMAIN served /\ ~served[t].current /\ served[t].told = Matching(t)
  /\ Send([kind |-> "current", t |-> t, token |-> served[t].told])
  /\ served' = [served EXCEPT ![t].current = TRUE]
  /\ ClientUnchanged /\ UNCHANGED <<outbox, store, setting>>

\* The backend starts over with a target.
TellReset(t) ==
  /\ t \in DOMAIN served /\ Spend("resets")
  /\ Send([kind |-> "reset", t |-> t])
  /\ served' = [served EXCEPT ![t] = Resumed({})]
  /\ ClientUnchanged /\ UNCHANGED <<outbox, store>>

\* A global snapshot: the whole stream is at a consistent state. It is stale when
\* the backend has not caught up with an earlier connection yet.
Snapshot(fresh) ==
  /\ news /\ Len(inbox) < MaxInbox
  /\ \A t \in DOMAIN served : served[t].told = Matching(t)
  /\ inbox' = Append(inbox, [kind |-> "snapshot", fresh |-> fresh,
                             view |-> [t \in DOMAIN served |-> served[t].told],
                             current |-> {t \in DOMAIN served : served[t].current}])
  /\ news' = ~fresh
  /\ ClientUnchanged /\ UNCHANGED <<outbox, store, served>>

StaleSnapshot == Snapshot(FALSE) /\ Spend("stale")
FreshSnapshot == Snapshot(TRUE) /\ UNCHANGED setting

\* Another client creates or deletes a document.
WriteDocument(k) ==
  /\ k \in setting.docs /\ Spend("writes")
  /\ store' = IF k \in store THEN store \ {k} ELSE store \cup {k}
  /\ UNCHANGED <<client, open, outbox, inbox, served, news, listens>>

Backend ==
  \/ Answer \/ Refuse \/ FreshSnapshot \/ StaleSnapshot
  \/ \E t \in Targets : \/ Drop(t) \/ TellFilter(t) \/ TellCurrent(t) \/ TellReset(t)
                        \/ \E k \in Keys : TellFound(t, k) \/ TellModified(t, k) \/ TellDeleted(t, k)

-----------------------------------------------------------------------------
(* The specification *)

Init ==
  /\ listening = {} /\ keys = [t \in Targets |-> {}]
  /\ token = [t \in Targets |-> NoToken] /\ agg = NewAggregator
  /\ open = FALSE /\ outbox = <<>> /\ inbox = <<>>
  /\ setting \in Settings
  /\ store \in SUBSET setting.docs /\ served = <<>> /\ news = FALSE
  /\ listens = [t \in Targets |-> 0]

Next ==
  \/ \E t \in Targets : Listen(t) \/ StopListening(t)
  \/ OpenStream \/ BreakStream \/ Receive \/ Backend
  \/ \E k \in Keys : WriteDocument(k)

Spec == Init /\ [][Next]_vars

FairSpec == Spec /\ WF_vars(OpenStream) /\ WF_vars(Receive) /\ WF_vars(Backend)

-----------------------------------------------------------------------------
(* Properties *)

\* The type invariant of the client's record of the watch protocol.
TypeOK ==
  /\ listening \subseteq Targets /\ keys \in [Targets -> SUBSET Keys]
  /\ token \in [Targets -> Tokens] /\ open \in BOOLEAN
  /\ DOMAIN agg.states \subseteq Targets
  /\ \A t \in DOMAIN agg.states : agg.states[t] \in TargetState
  /\ agg.updates \in [Keys -> Updates] /\ agg.resets \subseteq Targets

AnswersDue(t) ==
  Cardinality({i \in 1..Len(outbox) : outbox[i].t = t})
    + Cardinality({i \in 1..Len(inbox) : inbox[i].kind \in {"added", "removed"} /\ inbox[i].t = t})

IsRejected(t) == \E i \in 1..Len(inbox) : inbox[i].kind = "rejected" /\ inbox[i].t = t

\* outstanding_responses_ of a target the client listens to is exactly the
\* number of requests the backend has still to answer and of answers under way:
\* a target that lost count would be deaf for ever or believe old messages.
PendingCountsAnswers ==
  open => \A t \in listening :
            ~IsRejected(t) => StateOf(agg, t).pending = AnswersDue(t)

AllAnswered(t) == \A i \in 1..Len(outbox) : outbox[i].t # t

\* The last of the requests about t that are under way.
IsLast(i, t) == outbox[i].t = t /\ \A j \in (i + 1)..Len(outbox) : outbox[j].t # t

\* No listen is lost, or resumed from a state the client has left: of a target it
\* listens to, the last request under way watches it with the token the client has
\* of it now, and if none is under way the backend serves it, unless a rejection
\* is about to tell the client otherwise. Whatever was sent before, calls, the
\* unwatch and watch of a mismatch and the requests of a new stream follow one
\* another under the same id, and snapshots change the token meanwhile.
ListensAreServed ==
  open => \A t \in listening : ~IsRejected(t) =>
    /\ \A i \in 1..Len(outbox) : IsLast(i, t) => outbox[i] = WatchRequest(t)
    /\ AllAnswered(t) => t \in DOMAIN served

SnapshotArrives == Receive /\ Head(inbox).kind = "snapshot" /\ Head(inbox).fresh

\* RaiseWatchSnapshot: a target that the backend calls current with a snapshot
\* has, after that snapshot, exactly the documents the backend says it has,
\* whatever was removed, reset, filtered or re-listened on the way.
SnapshotsAreComplete ==
  [][SnapshotArrives =>
       LET m == Head(inbox) IN
       \A t \in listening \cap m.current :
         IsActiveTarget(agg, Metadata, t) /\ t \notin Mismatched(Event(m))
           => keys'[t] = m.view[t]]_vars

\* A resume token never promises documents that the client does not have, nor
\* hides documents it has: the backend sends only what changed since the token.
TokensMatchKeys == \A t \in Targets : token[t] # NoToken => keys[t] = token[t]

\* A remote event deletes a document (its own guess for a document query that
\* is current, or what it was told) only when no current target of the
\* snapshot contains that document.
DeletionsAreReal ==
  [][SnapshotArrives =>
       LET m == Head(inbox) IN
       \A t \in listening \cap m.current, k \in Keys :
         IsActiveTarget(agg, Metadata, t) /\ Event(m).updates[k] = "deleted"
           => k \notin m.view[t]]_vars

\* Once documents stop changing and the connection stays up, every target the
\* client listens to ends with the documents that match it: an existence filter
\* mismatch heals.
ListensConverge == <>[](\A t \in listening : keys[t] = Matching(t))

-----------------------------------------------------------------------------
(* What comments of the code say *)

\* remote_event.h says of current_ that the backend has sent all changes up to
\* the point at which the target was added.
CurrentIsFromTheBackend ==
  [][SnapshotArrives =>
       LET m == Head(inbox) IN
       \A t \in DOMAIN Event(m).changes : Event(m).changes[t].current => t \in m.current]_vars

\* remote_store.cc says that it waits for the ack to process any messages of a
\* target: so a listen is rejected only by the answer to its own request or by
\* a message that follows that answer. The error of an earlier listen, or of the
\* listen before a mismatch, also comes through.
RejectionsAreForThisListen ==
  [][Receive /\ Head(inbox).kind = "rejected" /\ Head(inbox).t \in listening =>
       \A i \in 1..Len(outbox) : ~(outbox[i].t = Head(inbox).t /\ outbox[i].watch)]_vars

\* FilterRemovedDocuments returns the number of documents it removed, so that a
\* filter that explains the difference leaves the right number of documents.
FilterLeavesItsCount ==
  [][Receive /\ Head(inbox).kind = "filter" =>
       LET m == Head(inbox) IN
       IsActiveTarget(agg, Metadata, m.t) /\ m.t \notin DocTargets /\ m.t \notin agg'.resets
         => GetCurrentDocumentCount(agg', Metadata, m.t) = m.count]_vars
=============================================================================
