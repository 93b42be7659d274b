-------------------------- MODULE ListenLifecycle ---------------------------
(***************************************************************************)
(* The life of a snapshot listener: FirestoreClient queues the calls of    *)
(* the user, the EventManager shares one view between the listeners of a   *)
(* query, the SyncEngine shares one target between the queries that map to *)
(* it, the LocalStore allocates and releases the targets, and the          *)
(* RemoteStore watches them until the backend rejects one.                 *)
(*                                                                         *)
(* The state of the last four is one record, because every operation of    *)
(* the worker queue runs through all of them:                              *)
(*                                                                         *)
(*   listeners  queries_ of the event manager: a query has an entry while  *)
(*              it has listeners                                           *)
(*   view       query_views_by_query_: the target id of a query's view     *)
(*   queries    queries_by_target_, without the order of its vectors; an   *)
(*              absent key and an empty vector are different things        *)
(*   cache      the persisted target cache, and nextId its id generator    *)
(*   active     the keys of target_data_by_target_ of the local store      *)
(*   watched    listen_targets_ of the remote store                        *)
(*   errors     history: the listeners whose OnError ran                   *)
(*   failed     the assertions that failed; the first one ends the process *)
(*                                                                         *)
(* Limbo targets are not in this module.                                   *)
(***************************************************************************)
EXTENDS Naturals, Sequences, Functions

CONSTANTS
  Queries,         \* the queries of the user
  Targets,         \* the targets they map to (Query::ToTarget)
  TargetOf,        \* that mapping: two queries may share a target
  Listeners,       \* the listeners the user may add
  QueryOf,         \* the query of a listener
  RemoteListeners, \* those that listen to the remote store, not to the cache
  MaxId,           \* bound on the target ids
  Settings         \* the settings to check; each has the listeners that the user
                   \* may add, whether a released target stays in the cache
                   \* (keeps: LRU) or not (eager), and how many targets the
                   \* backend may reject

ASSUME MappingAssumption ==
  /\ TargetOf \in [Queries -> Targets]
  /\ QueryOf \in [Listeners -> Queries]
  /\ RemoteListeners \subseteq Listeners
ASSUME SettingsAssumption ==
  /\ MaxId \in Nat
  /\ Settings \subseteq [listeners : SUBSET Listeners, keeps : BOOLEAN, rejections : Nat]

VARIABLES
  calls,        \* the worker queue: calls of the user that have not run
  added,        \* the listeners the user has added
  removed,      \* the registrations the user has removed
  client,       \* the record above
  setting       \* one of Settings; its rejections are those still to come

vars == <<calls, added, removed, client, setting>>

TargetIds == 1..MaxId
None      == 0

Assertions == {"already_listening", "no_view", "not_watched", "not_active",
               "no_queries", "empty_queries"}

NewClient ==
  [listeners |-> [q \in Queries |-> {}], view |-> [q \in Queries |-> None],
   queries |-> [id \in {} |-> {}], cache |-> [t \in Targets |-> None], nextId |-> 1,
   active |-> {}, watched |-> {}, errors |-> {}, failed |-> {}]

IsRemote(l) == l \in RemoteListeners

-----------------------------------------------------------------------------
(* HARD_ASSERT ends the process: what follows a failed one does not happen. *)

Fail(c, what) == [c EXCEPT !.failed = @ \cup {what}]

Has(c, id) == id \in DOMAIN c.queries

\* queries_by_target_[id] = qs, and queries_by_target_.erase(id).
SetQueries(c, id, qs) ==
  [c EXCEPT !.queries = [i \in DOMAIN @ \cup {id} |-> IF i = id THEN qs ELSE @[i]]]
DropQueries(c, id) == [c EXCEPT !.queries = Restrict(@, DOMAIN @ \ {id})]

-----------------------------------------------------------------------------
(* The local store *)

TargetId(c, q) ==
  IF c.cache[TargetOf[q]] # None THEN c.cache[TargetOf[q]] ELSE c.nextId

AllocateTarget(c, q) ==
  LET id == TargetId(c, q)
  IN  [c EXCEPT !.cache[TargetOf[q]] = id,
                !.nextId = IF id = @ THEN @ + 1 ELSE @,
                !.active = @ \cup {id}]

\* The reference delegate keeps the target for later (LRU) or drops it (eager).
ReleaseTarget(c, id) ==
  IF id \notin c.active THEN Fail(c, "not_active")
  ELSE [c EXCEPT !.active = @ \ {id},
                 !.cache  = [t \in Targets |->
                               IF @[t] = id /\ ~setting.keeps THEN None ELSE @[t]]]

-----------------------------------------------------------------------------
(* The remote store *)

Watch(c, id) == [c EXCEPT !.watched = @ \cup {id}]

Unwatch(c, id) ==
  IF id \notin c.watched THEN Fail(c, "not_watched")
  ELSE [c EXCEPT !.watched = @ \ {id}]

-----------------------------------------------------------------------------
(* The sync engine *)

\* The state of the new view is taken from the first query that shares the target.
EngineListen(c, q, remote) ==
  LET id == TargetId(c, q)
      a  == AllocateTarget(c, q)
      v  == SetQueries([a EXCEPT !.view[q] = id], id,
                       IF Has(a, id) THEN a.queries[id] \cup {q} ELSE {q})
  IN  IF c.view[q] # None THEN Fail(c, "already_listening")
      ELSE IF Has(a, id) /\ a.queries[id] = {} THEN Fail(a, "empty_queries")
      ELSE IF remote THEN Watch(v, id) ELSE v

ListenToRemoteStore(c, q) == Watch(AllocateTarget(c, q), TargetId(c, q))

\* Mutant: only the first query of the target is told.
CleanupFirstQuery(c, id, isError) ==
  LET hit == IF isError THEN c.listeners[CHOOSE q \in c.queries[id] : TRUE] ELSE {}
      d   == DropQueries(c, id)
  IN  IF ~Has(c, id) THEN Fail(c, "no_queries")
      ELSE [d EXCEPT !.view      = [q \in Queries |-> IF @[q] = id THEN None ELSE @[q]],
                     !.listeners = [q \in Queries |-> @[q] \ hit],
                     !.errors    = @ \cup hit]

\* queries_by_target_.at(id) needs the key. Each view of the target goes, with
\* its listeners if there is an error to report.
RemoveAndCleanupTarget(c, id, isError) ==
  LET gone == c.queries[id]
      hit  == IF isError THEN UNION {c.listeners[q] : q \in gone} ELSE {}
      d    == DropQueries(c, id)
  IN  IF ~Has(c, id) THEN Fail(c, "no_queries")
      ELSE [d EXCEPT !.view      = [q \in Queries |-> IF q \in gone THEN None ELSE @[q]],
                     !.listeners = [q \in Queries |-> @[q] \ hit],
                     !.errors    = @ \cup hit]

\* Mutant: a target goes with the first of its queries.
StopSharedTarget(c, q, lastListen, stopRemote) ==
  LET id == c.view[q]
      u  == IF stopRemote THEN Unwatch(c, id) ELSE c
      r  == ReleaseTarget([u EXCEPT !.view[q] = None], id)
  IN  IF r.failed # {} \/ ~lastListen THEN r
      ELSE RemoveAndCleanupTarget(r, id, FALSE)

StopListeningAndReleaseTarget(c, q, lastListen, stopRemote) ==
  LET id   == c.view[q]
      rest == IF Has(c, id) THEN c.queries[id] \ {q} ELSE {}
      v    == SetQueries([c EXCEPT !.view[q] = IF lastListen THEN None ELSE @], id, rest)
      u    == IF stopRemote THEN Unwatch(v, id) ELSE v
      r    == ReleaseTarget(u, id)
  IN  IF id = None THEN Fail(c, "no_view")
      ELSE IF rest # {} THEN v
      ELSE IF u.failed # {} \/ ~lastListen THEN u
      ELSE IF r.failed # {} THEN r
      ELSE RemoveAndCleanupTarget(r, id, FALSE)

HandleRejectedListen(c, id) ==
  LET r == ReleaseTarget(c, id)
  IN  IF r.failed # {} THEN r ELSE RemoveAndCleanupTarget(r, id, TRUE)

-----------------------------------------------------------------------------
(* The event manager *)

HasRemote(c, q) == \E l \in c.listeners[q] : IsRemote(l)

AddQueryListener(c, l) ==
  LET q == QueryOf[l]
      a == [c EXCEPT !.listeners[q] = @ \cup {l}]
  IN  IF c.listeners[q] = {} THEN EngineListen(a, q, IsRemote(l))
      ELSE IF ~HasRemote(c, q) /\ IsRemote(l) THEN ListenToRemoteStore(a, q)
      ELSE a

\* Mutant: the last remote listener does not end the watch.
RemoveWithoutDowngrade(c, l) ==
  LET q == QueryOf[l]
      r == [c EXCEPT !.listeners[q] = @ \ {l}]
  IN  IF c.listeners[q] # {} /\ r.listeners[q] = {}
      THEN StopListeningAndReleaseTarget(r, q, TRUE, IsRemote(l))
      ELSE r

\* Whether the listener was registered at all is not asked.
RemoveQueryListener(c, l) ==
  LET q == QueryOf[l]
      r == [c EXCEPT !.listeners[q] = @ \ {l}]
  IN  IF c.listeners[q] = {} THEN c
      ELSE IF r.listeners[q] = {}
      THEN StopListeningAndReleaseTarget(r, q, TRUE, IsRemote(l))
      ELSE IF ~HasRemote(r, q) /\ IsRemote(l)
      THEN StopListeningAndReleaseTarget(r, q, FALSE, TRUE)
      ELSE r

-----------------------------------------------------------------------------
(* The user *)

Init ==
  /\ calls = <<>>
  /\ added = {}
  /\ removed = {}
  /\ client = NewClient
  /\ setting \in Settings

AddListener(l) ==
  /\ l \in setting.listeners \ added
  /\ added' = added \cup {l}
  /\ calls' = Append(calls, [op |-> "add", listener |-> l])
  /\ UNCHANGED <<removed, client, setting>>

\* A registration holds its listener weakly: once the event manager has dropped
\* it, removing the registration does nothing.
IsAlive(l) ==
  \/ l \in client.listeners[QueryOf[l]]
  \/ \E i \in 1..Len(calls) : calls[i].listener = l

RemoveListener(l) ==
  /\ l \in added \ removed
  /\ removed' = removed \cup {l}
  /\ calls' = IF IsAlive(l)
              THEN Append(calls, [op |-> "remove", listener |-> l]) ELSE calls
  /\ UNCHANGED <<added, client, setting>>

-----------------------------------------------------------------------------
(* The worker queue *)

RunCall ==
  /\ calls # <<>>
  /\ calls' = Tail(calls)
  /\ LET l == Head(calls).listener
     IN  client' = IF Head(calls).op = "add" THEN AddQueryListener(client, l)
                   ELSE RemoveQueryListener(client, l)
  /\ UNCHANGED <<added, removed, setting>>

\* ProcessTargetError: the backend may reject any target that is being watched.
TargetError(id) ==
  /\ setting.rejections > 0
  /\ setting' = [setting EXCEPT !.rejections = @ - 1]
  /\ id \in client.watched
  /\ client' = HandleRejectedListen([client EXCEPT !.watched = @ \ {id}], id)
  /\ UNCHANGED <<calls, added, removed>>

\* Mutant: the collector does not ask which targets are live.
CollectAnyTarget(t) ==
  /\ setting.keeps
  /\ client.cache[t] # None
  /\ client' = [client EXCEPT !.cache[t] = None]
  /\ UNCHANGED <<calls, added, removed, setting>>

\* The LRU collector removes targets that are not active.
CollectTarget(t) ==
  /\ setting.keeps
  /\ client.cache[t] # None
  /\ client.cache[t] \notin client.active
  /\ client' = [client EXCEPT !.cache[t] = None]
  /\ UNCHANGED <<calls, added, removed, setting>>

UserCalls == \E l \in Listeners : AddListener(l) \/ RemoveListener(l)

Backend == \E id \in TargetIds : TargetError(id)

Next ==
  /\ client.failed = {}
  /\ \/ UserCalls
     \/ RunCall
     \/ Backend
     \/ \E t \in Targets : CollectTarget(t)

Spec == Init /\ [][Next]_vars
-----------------------------------------------------------------------------
(* Properties *)

TypeOK ==
  /\ calls \in Seq([op : {"add", "remove"}, listener : Listeners])
  /\ added \subseteq Listeners /\ removed \subseteq added
  /\ client.listeners \in [Queries -> SUBSET Listeners]
  /\ client.view \in [Queries -> TargetIds \cup {None}]
  /\ DOMAIN client.queries \subseteq TargetIds
  /\ \A id \in DOMAIN client.queries : client.queries[id] \subseteq Queries
  /\ client.cache \in [Targets -> TargetIds \cup {None}]
  /\ client.nextId \in 1..(MaxId + 1)
  /\ client.active \subseteq TargetIds /\ client.watched \subseteq TargetIds
  /\ client.errors \subseteq Listeners
  /\ client.failed \subseteq Assertions
  /\ setting.listeners \subseteq Listeners /\ setting.rejections \in Nat

\* No assertion on the path of a listener fails, and no vector or map of the
\* sync engine is read where it has no entry.
AssertsHold == client.failed = {}

\* Between two operations the tables of event manager, sync engine, local store
\* and remote store agree: a query has a view exactly while it has listeners; a
\* target is watched exactly while a remote listener needs it (remote_store.h:278:
\* "the user has explicitly called a 'listen' for"); and while all listeners are
\* remote, queries_by_target_ has the views of each target and the local store
\* holds the targets of the views. A query that is downgraded to the cache leaves
\* queries_by_target_.
TablesAgree ==
  client.failed = {} =>
    /\ \A q \in Queries : client.listeners[q] # {} <=> client.view[q] # None
    /\ client.watched =
         {client.view[q] : q \in {p \in Queries : HasRemote(client, p)}}
    /\ setting.listeners \subseteq RemoteListeners =>
         /\ \A id \in TargetIds :
              {q \in Queries : client.view[q] = id} =
                IF Has(client, id) THEN client.queries[id] ELSE {}
         /\ client.active = Range(client.view) \ {None}

\* A rejection by the backend reaches every listener of the target: none is left
\* with a view that will never change again.
RejectionIsReported ==
  [][\A id \in client.watched :
       setting' # setting /\ id \notin client'.watched =>
         \A q \in Queries : client.view[q] = id =>
           client.listeners[q] \subseteq client'.errors]_vars

\* The cached target of a listened query never changes its id, so that the
\* watch, the views and the resume token are about the same target.
IdsAreStable ==
  [][client'.failed = {} =>
       \A q \in Queries :
         client.view[q] # None /\ client'.view[q] # None =>
           /\ client'.view[q] = client.view[q]
           /\ client'.cache[TargetOf[q]] = client.view[q]]_vars

\* sync_engine.cc:140: "If there are already queries mapped to the target id,
\* create a synthesized target change to apply the sync state from those queries
\* to the new query": a target id with an entry has a query in it.
MappedTargetHasQuery == "empty_queries" \notin client.failed

\* remote_store.cc:175 asserts that the sync engine only stops to listen to targets
\* that are watched: "StopListening: target not currently watched".
StoppedTargetIsWatched == "not_watched" \notin client.failed
=============================================================================
