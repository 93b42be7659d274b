----------------------------- MODULE SyncEngine -----------------------------
(***************************************************************************)
(* Views and limbo resolution: the sync engine, the part of the local      *)
(* store it reads and writes, and a backend that other clients change.     *)
(*                                                                         *)
(* A document is in limbo for a view that shows it when the backend, in    *)
(* sync with the view, does not report it. The engine then listens to the  *)
(* document itself; at most MaxLimbo of these listens run, the other keys  *)
(* are queued. A document may be in limbo for several views.               *)
(*                                                                         *)
(* The backend (external) answers with consistent snapshots: each brings   *)
(* some of the listened targets up to date, and never lets one it brought  *)
(* up to date fall behind. It sends the content of the documents that      *)
(* match; whether it sends that of a document that left a target is its    *)
(* choice. The write of a document replaces its content.                   *)
(***************************************************************************)
EXTENDS View

CONSTANTS
  MaxLimbo,   \* max_concurrent_limbo_resolutions
  Settings    \* the settings to check: the first contents of the documents,
              \* whether the backend may be silent about what left a target,
              \* and how often the clients change, write, listen, break the
              \* connection, reset a target and reject a lookup or a listen

ASSUME MaxLimboAssumption == MaxLimbo \in Nat \ {0}

Budgets == {"change", "write", "listen", "break", "reset", "reject"}

ASSUME SettingsAssumption ==
  \A s \in Settings : /\ s.contents \in [Keys -> Contents] /\ s.silent \in BOOLEAN
                      /\ \A b \in Budgets : s[b] \in Nat

VARIABLES
  server,     \* the backend: content and version of each document
  clock,      \* its latest version
  cache,      \* the remote document cache
  writes,     \* the pending write of each document
  targets,    \* the target cache: matching keys, version, limbo-free version
  views,      \* query_views_by_query_
  limbo,      \* limbo_document_refs_ and the tables of limbo resolutions
  seen,       \* the backend as it was at the latest snapshot
  caughtUp,   \* the targets that the backend brought up to date
  connected,  \* whether the watch stream is open
  silent,     \* whether the backend may be silent, see Settings
  budget      \* what may still happen, see Settings

store == <<cache, writes, targets>>
vars  == <<server, clock, cache, writes, targets, views, limbo, seen,
           caughtUp, connected, silent, budget>>

NoDocument == [content |-> {}, version |-> 0, committed |-> FALSE, readTime |-> 0]
NoWrite    == [state |-> "none", content |-> {}, version |-> 0]
NoTarget   == [keys |-> {}, version |-> 0, limboFree |-> 0]
NoLimbo    == [refs |-> {}, active |-> {}, queue |-> <<>>, answered |-> {}]

Init ==
  /\ \E s \in Settings :
       /\ server = [k \in Keys |-> [content |-> s.contents[k], version |-> 1]]
       /\ silent = s.silent
       /\ budget = [b \in Budgets |-> s[b]]
  /\ clock = 1
  /\ cache = [k \in Keys |-> NoDocument]
  /\ writes = [k \in Keys |-> NoWrite]
  /\ targets = [q \in Queries |-> NoTarget]
  /\ views = [q \in Queries |-> NoView]
  /\ limbo = NoLimbo
  /\ seen = [k \in Keys |-> [content |-> {}, version |-> 0]]
  /\ caughtUp = {}
  /\ connected = TRUE

Spend(b) == budget[b] > 0 /\ budget' = [budget EXCEPT ![b] = @ - 1]

TypeOK ==
  /\ server \in [Keys -> [content : Contents, version : 1..clock]]
  /\ cache \in [Keys -> [content : Contents, version : 0..clock,
                         committed : BOOLEAN, readTime : 0..clock]]
  /\ writes \in [Keys -> [state : {"none", "sent", "applied"}, content : Contents,
                          version : 0..clock]]
  /\ targets \in [Queries -> [keys : SUBSET Keys, version : 0..clock,
                              limboFree : 0..clock]]
  /\ \A q \in Queries :
       /\ DOMAIN views[q].docs \subseteq Keys
       /\ views[q].limbo \subseteq Keys /\ views[q].sync \in SyncStates
  /\ limbo.refs \subseteq Keys \X Queries /\ limbo.answered \subseteq limbo.active
  /\ caughtUp \subseteq Queries

-----------------------------------------------------------------------------
(* Limbo resolutions *)

Referenced(l, k) == \E q \in Queries : <<k, q>> \in l.refs

PumpEnqueuedLimboResolutions(l) ==
  LET n == Min({Len(l.queue), MaxLimbo - Cardinality(l.active)})
  IN  [l EXCEPT !.active = @ \cup Range(SubSeq(l.queue, 1, n)),
                !.queue  = SubSeq(@, n + 1, Len(@))]

TrackLimboChange(l, k) ==
  IF k \in l.active \cup Range(l.queue) THEN l
  ELSE PumpEnqueuedLimboResolutions([l EXCEPT !.queue = Append(@, k)])

\* Mutant: ending a listen starts none of the queued ones.
EndWithoutPump(l, k) ==
  [l EXCEPT !.queue = RemoveFirst(@, k),
            !.active = @ \ {k}, !.answered = @ \ {k}]

RemoveLimboTarget(l, k) ==
  LET unqueued == [l EXCEPT !.queue = RemoveFirst(@, k)]
  IN  IF k \notin l.active THEN unqueued
      ELSE PumpEnqueuedLimboResolutions(
             [unqueued EXCEPT !.active = @ \ {k}, !.answered = @ \ {k}])

AddReference(l, k, q) == TrackLimboChange([l EXCEPT !.refs = @ \cup {<<k, q>>}], k)

\* Mutant: a reference of another view does not keep the listen.
RemoveAnyReference(l, k, q) == RemoveLimboTarget([l EXCEPT !.refs = @ \ {<<k, q>>}], k)

RemoveReference(l, k, q) ==
  LET m == [l EXCEPT !.refs = @ \ {<<k, q>>}]
  IN  IF Referenced(m, k) THEN m ELSE RemoveLimboTarget(m, k)

\* The removed limbo documents first, then the added ones.
UpdateTrackedLimboDocuments(l, q, old, new) ==
  LET removed == FoldSet(LAMBDA k, m : RemoveReference(m, k, q), l, old \ new)
  IN  FoldSet(LAMBDA k, m : AddReference(m, k, q), removed, new \ old)

-----------------------------------------------------------------------------
(* The local store *)

Local(docs, pending, k) ==
  [content |-> IF pending[k].state # "none" THEN pending[k].content ELSE docs[k].content,
   from    |-> IF pending[k].state # "none" THEN "local"
               ELSE IF docs[k].committed THEN "committed" ELSE "watch"]

LocalView(docs, pending) == [k \in Keys |-> Local(docs, pending, k)]

IsUpdate(old, version) ==
  \/ old.version = 0
  \/ version > old.version
  \/ version = old.version /\ old.committed

\* PopulateDocumentChanges with the documents of a snapshot.
Populate(docs, told) ==
  [k \in Keys |->
     IF k \in told /\ IsUpdate(docs[k], server[k].version)
     THEN [content |-> server[k].content, version |-> server[k].version,
           committed |-> FALSE, readTime |-> clock]
     ELSE docs[k]]

\* Mutant: an acknowledged document keeps the read time it had.
AcknowledgeUnread(old, w) ==
  IF old.version < w.version
  THEN [content |-> w.content, version |-> w.version, committed |-> TRUE,
        readTime |-> old.readTime]
  ELSE old

\* ApplyBatchResult.
Acknowledge(old, w) ==
  IF old.version < w.version
  THEN [content |-> w.content, version |-> w.version, committed |-> TRUE,
        readTime |-> w.version]
  ELSE old

\* ExecuteQuery with the previous results: the keys the backend reported, what
\* was read since the last snapshot without limbo documents, and overlays.
ExecuteQuery(q, docs, pending) ==
  {k \in Matching(q, LocalView(docs, pending)) :
     \/ targets[q].limboFree = 0
     \/ k \in targets[q].keys
     \/ docs[k].readTime > targets[q].limboFree
     \/ pending[k].state # "none"}

-----------------------------------------------------------------------------
(* EmitNewSnapshotsAndNotifyLocalStore *)

Listening == {q \in Queries : views[q].on}

\* change[q]: the target change of q, "none", "current", "stale" (not current)
\* or "reset" (the target is pending a reset); tgts: the target cache after it.
Refresh(q, local, tgts, change) ==
  ApplyChanges(views[q],
               ComputeDocumentChanges(views[q].docs, Matching(q, local), local),
               IF change[q] = "none" THEN views[q].current ELSE change[q] = "current",
               tgts[q].keys, change[q] = "reset")

\* NotifyLocalViewChanges: a raised snapshot that is not from cache.
NotifyLocalView(t, old, new) ==
  IF Raises(old, new) /\ new.sync = "synced"
  THEN [t EXCEPT !.limboFree = t.version] ELSE t

Refreshed(local, tgts, change) ==
  [q \in Queries |-> IF views[q].on THEN Refresh(q, local, tgts, change) ELSE views[q]]

\* docs and pending are the caches after the change, l the limbo tables.
Emit(docs, pending, tgts, change, l) ==
  \E new \in {Refreshed(LocalView(docs, pending), tgts, change)} :
    /\ cache' = docs
    /\ writes' = pending
    /\ views' = new
    /\ limbo' = FoldSet(LAMBDA q, m : UpdateTrackedLimboDocuments(
                                        m, q, views[q].limbo, new[q].limbo),
                        l, Listening)
    /\ targets' = [q \in Queries |-> NotifyLocalView(tgts[q], views[q], new[q])]

NoChange == [q \in Queries |-> "none"]

-----------------------------------------------------------------------------
(* The user *)

Listen(q) ==
  LET local   == LocalView(cache, writes)
      results == ComputeDocumentChanges(<<>>, ExecuteQuery(q, cache, writes), local)
  IN  /\ ~views[q].on
      /\ Spend("listen")
      /\ views' = [views EXCEPT ![q] = ApplyChanges(NewView, results, FALSE,
                                                    targets[q].keys, FALSE)]
      /\ UNCHANGED <<server, clock, store, limbo, seen, caughtUp, connected, silent>>

\* RemoveAndCleanupTarget.
RemoveTarget(q) ==
  LET keys      == {k \in Keys : <<k, q>> \in limbo.refs}
      unlimboed == [limbo EXCEPT !.refs = @ \ (keys \X {q})]
      last      == {k \in keys : ~Referenced(unlimboed, k)}
  IN  /\ views[q].on
      /\ views' = [views EXCEPT ![q] = NoView]
      /\ limbo' = FoldSet(LAMBDA k, m : RemoveLimboTarget(m, k), unlimboed, last)
      /\ caughtUp' = caughtUp \ {q}
      /\ UNCHANGED <<server, clock, store, seen, connected, silent>>

StopListening(q) == RemoveTarget(q) /\ UNCHANGED budget

Write(k, c) ==
  /\ writes[k] = NoWrite
  /\ Spend("write")
  /\ Emit(cache, [writes EXCEPT ![k] = [state |-> "sent", content |-> c, version |-> 0]],
          targets, NoChange, limbo)
  /\ UNCHANGED <<server, clock, seen, caughtUp, connected, silent>>

-----------------------------------------------------------------------------
(* The answers of the backend: those to writes come on a stream of their own *)

HandleSuccessfulWrite(k) ==
  /\ writes[k].state = "applied"
  /\ Emit([cache EXCEPT ![k] = Acknowledge(@, writes[k])],
          [writes EXCEPT ![k] = NoWrite], targets, NoChange, limbo)
  /\ UNCHANGED <<server, clock, seen, caughtUp, connected, silent, budget>>

HandleRejectedWrite(k) ==
  /\ writes[k].state = "sent"
  /\ Spend("reject")
  /\ Emit(cache, [writes EXCEPT ![k] = NoWrite], targets, NoChange, limbo)
  /\ UNCHANGED <<server, clock, seen, caughtUp, connected, silent>>

RejectedListen(q) == connected /\ Spend("reject") /\ RemoveTarget(q)

\* The synthetic deletion of a rejected lookup purges the document.
Purge(docs, k) == [docs EXCEPT ![k] = NoDocument]

\* The backend refuses a lookup only when no listened query returns the document.
RejectedLookup(k) ==
  LET ended == PumpEnqueuedLimboResolutions(
                 [limbo EXCEPT !.active = @ \ {k}, !.answered = @ \ {k}])
  IN  /\ connected /\ k \in limbo.active
      /\ server[k].content = {} /\ seen[k].content = {}
      /\ Spend("reject")
      /\ Emit(Purge(cache, k), writes, targets, NoChange, ended)
      /\ UNCHANGED <<server, clock, seen, caughtUp, connected, silent>>

ReportedKeys(q) == {k \in Keys : q \in server[k].content}

\* Mutant: the keys that left a target stay its keys.
KeepRemoved(q) == targets[q].keys \cup ReportedKeys(q)

\* What the target cache holds for a target that a snapshot brought up to date.
KeysAfter(q) == ReportedKeys(q)

\* What the backend may tell besides the matches: what changed since the version
\* of a target that it knows.
Changed(qs) == {k \in Keys : \E q \in qs : /\ targets[q].version > 0
                                           /\ server[k].version > targets[q].version}

\* qs and keys are brought up to date; stale are the targets it only confirmed;
\* told are the documents whose content it sends.
ApplyRemoteEvent(qs, keys, stale, told) ==
  LET now  == caughtUp \cup qs
      must == UNION {ReportedKeys(q) : q \in now} \cup limbo.answered \cup keys
  IN  /\ connected
      /\ must \subseteq told /\ told \subseteq must \cup Changed(now)
      /\ ~silent => told = must \cup Changed(now)
      /\ caughtUp' = now
      /\ seen' = server
      /\ UNCHANGED <<server, clock, connected, silent, budget>>
      /\ Emit(Populate(cache, told), writes,
              [q \in Queries |->
                 IF q \in now
                 THEN [targets[q] EXCEPT !.keys = KeysAfter(q), !.version = clock]
                 ELSE targets[q]],
              [q \in Queries |-> IF q \in now THEN "current"
                                 ELSE IF q \in stale THEN "stale" ELSE "none"],
              [limbo EXCEPT !.answered = @ \cup keys])

Snapshot ==
  \E qs \in SUBSET (Listening \ caughtUp), keys \in SUBSET (limbo.active \ limbo.answered) :
    \E stale \in SUBSET (Listening \ (caughtUp \cup qs)), told \in SUBSET Keys :
      ApplyRemoteEvent(qs, keys, stale, told)

Behind ==
  \/ ~(Listening \subseteq caughtUp) \/ limbo.active # limbo.answered
  \/ seen # server

\* The snapshot that brings every target up to date.
CatchUp ==
  /\ connected /\ Behind
  /\ \E told \in SUBSET Keys :
       ApplyRemoteEvent(Listening \ caughtUp, limbo.active \ limbo.answered, {}, told)

\* An existence filter does not match: the target starts over.
TargetMismatch(q) ==
  /\ connected /\ q \in caughtUp
  /\ Spend("reset")
  /\ Emit(cache, writes, [targets EXCEPT ![q] = NoTarget],
          [NoChange EXCEPT ![q] = "reset"], limbo)
  /\ caughtUp' = caughtUp \ {q}
  /\ UNCHANGED <<server, clock, seen, connected, silent>>

Disconnect ==
  /\ connected /\ Spend("break")
  /\ connected' = FALSE
  /\ caughtUp' = {}
  /\ limbo' = [limbo EXCEPT !.answered = {}]
  /\ UNCHANGED <<server, clock, store, views, seen, silent>>

HandleOfflineState ==
  /\ ~connected
  /\ views' = [q \in Queries |-> IF views[q].on THEN ApplyOffline(views[q]) ELSE views[q]]
  /\ UNCHANGED <<server, clock, store, limbo, seen, caughtUp, connected, silent, budget>>

Reconnect ==
  /\ ~connected /\ connected' = TRUE
  /\ UNCHANGED <<server, clock, store, views, limbo, seen, caughtUp, silent, budget>>

-----------------------------------------------------------------------------
(* The backend *)

Store(k, c) == /\ clock' = clock + 1
               /\ server' = [server EXCEPT ![k] = [content |-> c, version |-> clock + 1]]

Change(k, c) ==
  /\ c # server[k].content /\ Spend("change") /\ Store(k, c)
  /\ UNCHANGED <<store, views, limbo, seen, caughtUp, connected, silent>>

Commit(k) ==
  /\ writes[k].state = "sent"
  /\ Store(k, writes[k].content)
  /\ writes' = [writes EXCEPT ![k].state = "applied", ![k].version = clock + 1]
  /\ UNCHANGED <<cache, targets, views, limbo, seen, caughtUp, connected, silent, budget>>

Next ==
  \/ \E q \in Queries : Listen(q) \/ StopListening(q) \/ RejectedListen(q)
                        \/ TargetMismatch(q)
  \/ \E k \in Keys : HandleSuccessfulWrite(k) \/ HandleRejectedWrite(k)
                     \/ RejectedLookup(k) \/ Commit(k)
  \/ \E k \in Keys, c \in Contents : Write(k, c) \/ Change(k, c)
  \/ Snapshot \/ Disconnect \/ HandleOfflineState \/ Reconnect

Spec == Init /\ [][Next]_vars

\* The stream is opened again (WatchConnection), the backend answers each
\* target and each write.
Fairness ==
  /\ WF_vars(Reconnect) /\ WF_vars(CatchUp)
  /\ WF_vars(\E k \in Keys : Commit(k) \/ HandleSuccessfulWrite(k))

FairSpec == Spec /\ Fairness

-----------------------------------------------------------------------------
(* Properties *)

\* Each document that a view in sync has in limbo is being looked up or queued.
LimboIsLookedUp ==
  \A q \in Listening : views[q].current =>
    views[q].limbo \subseteq limbo.active \cup Range(limbo.queue)

\* The tables of limbo resolutions agree with the views at every step: what is
\* in limbo for a view in sync is looked up or queued, nothing else is, and a
\* key waits only when the limit is reached.
LimboIsTracked ==
  /\ LimboIsLookedUp
  /\ limbo.refs = {kq \in Keys \X Queries : kq[1] \in views[kq[2]].limbo}
  /\ limbo.active \cap Range(limbo.queue) = {} /\ IsInjective(limbo.queue)
  /\ Cardinality(limbo.active) <= MaxLimbo
  /\ limbo.queue # <<>> => Cardinality(limbo.active) = MaxLimbo
  /\ \A k \in limbo.active \cup Range(limbo.queue) : Referenced(limbo, k)

\* A view that tells its listeners that it is synced, while the backend keeps
\* its target up to date, shows exactly the documents the backend reported in
\* the latest snapshot, apart from those that this client wrote: what other
\* targets, acknowledgements and rejections put into the cache, or took from
\* it, does not show.
SyncedIsExact ==
  \A q \in Listening \cap caughtUp : views[q].sync = "synced" =>
    \A k \in Keys : writes[k] = NoWrite /\ ~cache[k].committed =>
      (k \in DOMAIN views[q].docs <=> q \in seen[k].content)

\* A new listener misses no document that the cache has in the backend's latest
\* version, or with a pending write, although the query engine reads only the
\* keys the backend reported, what was read since the last snapshot without
\* limbo documents, and overlays.
ListenMissesOnlyStale ==
  [][\A q \in Queries : ~views[q].on /\ views'[q].on =>
       \A k \in Matching(q, LocalView(cache, writes)) \ DOMAIN views'[q].docs :
         writes[k] = NoWrite /\ server[k].version > cache[k].version]_vars

\* What a view shows of a document is right, or waits for Watch to send a
\* document that was written.
Right(q) ==
  /\ views[q].sync = "synced"
  /\ \A k \in Keys : \/ k \in DOMAIN views[q].docs <=> q \in server[k].content
                     \/ k \in DOMAIN views[q].docs /\ views[q].docs[k].local

\* When the clients come to rest, every view becomes synced and right: each
\* limbo document is resolved, through the limit, lookups that are rejected,
\* broken connections and target resets.
ViewsConverge == <>[](\A q \in Listening : Right(q))

\* No view shows a local write forever when nothing is pending: "Watch will send
\* us the same document again" (ShouldWaitForSyncedDocument).
WritesBecomeSynced ==
  <>[](\A q \in Listening, k \in Keys :
         k \in DOMAIN views[q].docs /\ views[q].docs[k].local => writes[k] # NoWrite)
=============================================================================
