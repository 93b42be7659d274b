# Verification of the Firestore client core

TLA+ models, TLC runs and TLAPS proofs for the client core of Cloud Firestore in
`src/Firestore/core/src` (C++, shipped here for packaging as xcframeworks). The
repository's program logic is that core: how a client keeps two streams to its
backend alive, sends its writes exactly in order, watches queries, and stays right
when the network, the user or the process changes under it. Everything around it is
packaging, generated code, vendored code or wrappers.

Paths below are relative to `src/Firestore/core/src` unless they start with `src/`.

## 1. Inventory

Almost all of the core runs on one serial worker queue (`util/async_queue.cc`): a
call of the user, a timer, an answer of a credentials provider or an event of a gRPC
call is one operation on it. Concurrency is therefore the *order* of operations: any
operation can come between a request and its answer, between a close and the
callbacks already queued for it, between a call of the user and its execution.

| Component | State | Operations | Hard behaviour | What makes it correct |
|---|---|---|---|---|
| Stream (`remote/stream.cc`, `exponential_backoff.cc`) | state, close count, backoff delay, three timers | Start, credentials answer, Write, OnStreamRead, OnStreamFinish, MarkIdle, Stop, InhibitBackoff | late credential answers, timers that outlive their reason, a close callback that restarts the stream | assertions hold; retries back off; idle timers only on unused streams |
| OnlineStateTracker | state, failure count, timer | HandleWatchStreamStart, HandleWatchStreamFailure, UpdateState, timeout | the timer races messages, failures and restarts | Online only with an open stream; Unknown is temporary |
| RemoteStore, watch half (`remote/remote_store.cc`) | `listen_targets_`, network flag, aggregator | Listen, StopListening, stream callbacks, ProcessTargetError, RaiseWatchSnapshot, enable / disable / restart / shut down | stream callbacks re-enter the store; errors and messages of former listens | no target forgotten; snapshots are complete; tokens describe what is stored |
| RemoteStore, write half (+ `write_stream.cc`) | `write_pipeline_`, handshake, stream token | FillWritePipeline, AddToWritePipeline, handshake, mutation result, errors | answers without batch ids; restarts and user changes with writes in flight | the pipeline is the beginning of the queue; answers meet their batch |
| WatchChangeAggregator (`remote/remote_event.cc`) | per target: pending responses, changes, current, token; document updates; resets | HandleDocumentChange, HandleTargetChange, HandleExistenceFilter, CreateRemoteEvent | messages of an earlier listen, filters with false positives | each snapshot moves a target exactly to the backend's documents |
| Mutation queue (`local/*_mutation_queue.cc`) | batches by user, next id, stream token | add, acknowledge, reject, restart | ids after a restart | ordered, durable, no id with two meanings |
| SyncEngine, EventManager, target allocation | views, `queries_by_target_`, listeners, target cache | Listen, StopListening, HandleRejectedListen, AllocateTarget, ReleaseTarget | queries that share targets, remote and cache listeners of one query, removal racing rejection | maps agree; a watch lives exactly as long as it is needed |
| Limbo resolution (`core/sync_engine.cc`, `local/reference_set.cc`) | references per view, queue, active lookups | track, pump, answer, reject | a limit on concurrent lookups, keys in limbo for several views, rejected lookups | every document in limbo is looked up or queued, nothing else is |
| View (`core/view.cc`), QueryListener | documents, current, limbo documents, sync state | ComputeDocumentChanges, ApplyChanges | acknowledged writes that Watch has not sent, resets, lost connections | a synced view shows the backend's documents |
| Local documents and overlays (`local/local_documents_view.cc`, `local_store.cc`) | remote documents, mutation queue, overlays | WriteLocally, AcknowledgeBatch, RejectBatch, ApplyRemoteEvent | overlays saved once, while documents and queue move below them | a read is a replay of the pending batches; no flicker |
| Transactions (`core/transaction.cc`, `transaction_runner.cc`) | versions read, writes, attempts left | lookup, write, commit, retry | commits that conflict, answers that are lost, errors swallowed by the user's function | atomic read-modify-write |
| LRU collector | sequence numbers, orphans | collect | live targets | nothing live is collected |
| Worker queue (`util/async_queue.cc`, executors, `task.cc`) | mode, tasks with reference counts, schedule | enqueue, schedule, cancel, restrict, dispose | threads; cancellation against execution; disposal from two threads | cancelled means not run; nothing runs after disposal; disposal ends |
| gRPC streams (`remote/grpc_stream.cc`, `grpc_completion.cc`) | pending completions, buffered writes | start, write, finish, cancel | completions of a dead call, destruction inside a callback | no use after finish; messages in order; the owner learns the end once |
| FirestoreClient, credentials, bundles, index backfiller, persistence, serializers, utilities, public API, heartbeats, FirebaseCore | | | | see "Not modelled" |

How they interact: `FirestoreClient` puts calls on the worker queue. A listen goes
EventManager -> SyncEngine -> LocalStore (allocate a target) -> RemoteStore (watch it).
Messages of the watch stream go RemoteStore -> aggregator -> SyncEngine -> LocalStore ->
views -> EventManager. A write goes SyncEngine -> LocalStore (queue a batch) ->
RemoteStore (pipeline) -> write stream, and its answer goes back the same way.
Credentials, connectivity and timers enter at the streams and the RemoteStore. A view
that finds documents in limbo asks SyncEngine for a listen to each, which goes the way of
a listen and comes back as a remote event. A transaction goes past all of this: its
lookups and its commit are unary calls of the Datastore, run on the worker queue.

## 2. Modules

| Module | Models | State and actions |
|---|---|---|
| `Stream` | one stream, as operators on a record | `state`, `auth` (answers outstanding, with their close count), `closes`, `delay`, timers; `StartStream`, `Resume`, `Write`, `Stop`, `Close`, `MarkIdle`, ... |
| `OnlineStateTracker` | the tracker, as operators on a record | `UpdateState`, `HandleWatchStreamStart`, `HandleWatchStreamFailure`, `OnlineTimeout` |
| `WatchConnection` | watch half: who is watched and whether a stream is there | composes a stream, a tracker, `targets` and `aggregator` (null or not) |
| `WritePipeline` | write half | composes a stream, the pipeline, the handshake flag, the token, and the channel to the backend |
| `RemoteStore` | the system of both, with users, mutation queues, callbacks, restarts | one action for each operation of the worker queue, and two for the backend |
| `WriteLog` | abstract: what the client promises about writes | `Accept`, `Commit`, `Acknowledge`, `Reject` on one log per user |
| `ListenLifecycle` | user calls, EventManager, SyncEngine maps, target cache, watched set | `AddListener`, `RemoveListener`, `RunCall` (the whole path through four classes), `TargetError`, `CollectTarget` |
| `WatchChangeAggregator` | the aggregator, as operators on a record | `TargetAdded`, `TargetRemoved`, `HandleExistenceFilter`, `CreateRemoteEvent`, ... |
| `WatchProtocol` | requests, messages, snapshots and tokens against a backend | `Listen`, `StopListening`, `OpenStream`, `BreakStream`, `Receive` (one disjunct for each kind of message), `Backend` |
| `View` | one view, as operators on a record | `docs`, `current`, `limbo`, `sync`; `ComputeDocumentChanges`, `ApplyChanges`, ... |
| `SyncEngine` | views of all queries, target cache, document cache, limbo resolution, against a backend that other clients change | `Listen`, `StopListening`, `RejectedListen`, `Write`, `HandleSuccessfulWrite`, `HandleRejectedWrite`, `RejectedLookup`, `Snapshot`, `TargetMismatch`, `Disconnect`, `Reconnect`, ... |
| `Overlays` | one document: remote version, pending batches, saved overlay | `WriteLocally`, `AcknowledgeBatch`, `RejectBatch`, `ApplyRemoteEvent`; the backend and other clients |
| `Transactions` | transaction runners, their attempts, the backend | lookups, the user's program, `Commit`, answers, retries, failures, per client |
| `AtomicStore` | abstract: a transaction is one step on the store | `Apply`, `LoseAnswer`, `Succeed`, `Fail` |
| `AsyncQueue` | AsyncQueue, the libdispatch executor, tasks with reference counts, `FirestoreClient::Dispose` | one step per critical section of a thread |
| `GrpcStream` | one gRPC call: stream, buffered writer, completions, polling thread | the methods of the owner, completions on the worker, gRPC |
| `RemoteStoreProofs`, `WatchProofs`, `ListenProofs`, `SyncEngineProofs`, `OverlayProofs`, `TransactionProofs`, `GrpcStreamProofs`, `AsyncQueueProofs` | proofs, section 5 | |
| `MC*` | instances for TLC | |

An operation that runs through several objects at once (a close callback that updates
the tracker, drops the aggregator and starts the next stream) is one action: the
modules of the objects are written as operators from record to record, and the actions
of `RemoteStore`, `SyncEngine` and `ListenLifecycle` compose them in the order of the code. An
assertion that fails sets a flag (`ok`) or adds its name to `failed`. In
`ListenLifecycle` nothing follows a failed assertion, as the process ends.

Each module has definitions with the comment "Mutant:". They are what a plausible
mistake in the definition after them would look like; replacing the definition by one
makes TLC find the property it is meant for violated.

## 3. What is modelled, and on what assumptions

**Streams.** `Stream` keeps all states, the close count that makes late credential
answers void, the delay (as the number of doublings, capped by `MaxDelay`), and the
backoff, health and idle timers without their durations: a running timer may fire at
any moment. What the close of a call would still deliver is folded into the close: a
closed call delivers nothing (the observer's guard in `grpc_stream.cc`). The
invalidation of a token after UNAUTHENTICATED is not modelled.

**RemoteStore.** The backend never ends a stream with an OK status (that would trip the
assertion at `remote/remote_store.cc:246`, and the protocol gives it no reason to). Its
permanent error on an established write stream is the verdict on the first write it has not
answered: it is assumed that the errors gRPC makes of a broken connection are among those
that `remote/datastore.cc:452` calls transient. A response that cannot be decoded fails the
stream on the client's side (`remote/stream.cc:261`) with DataLoss, which is permanent as
well: after the handshake the head of the pipeline is dropped without a verdict of the
backend, perhaps after the backend has committed it (`ReadUndecodable`; `WatchUndecodable`
on the watch stream). `WriteLog` allows this: its `Reject` drops the oldest write, committed
or not. A stream token is the user whose stream got it. Ids of batches go on from what a
restart finds stored, as in `LevelDbMutationQueue::Start`. A restart keeps what is persisted
and drops the rest; an operation is atomic with respect to it, so that "the user is told of
the success before the acknowledgement is stored" is in the model only as one step.
Reactions of the sync engine to a removed target or a snapshot (limbo listens, rejected
listens) come as later `Listen` and `StopListening` calls. `MaxEvents` bounds calls,
failures and restarts; reactions to them are not bounded. `Shutdown` is the last call.

**ListenLifecycle.** The queue of calls of the user is explicit, because a rejection can
run between a call and its execution. A listener is added once. The target of a query is
a function, so that two queries (a limit query and its limit-to-last mirror) may share
one. Limbo targets are in `SyncEngine`. `None` is the absent entry. The vectors of
`queries_by_target_` are sets, as no property depends on their order; an empty one and an
absent one are different things, as they are in the code.

**WatchProtocol.** The backend is external; its contract is read from the comments of
`src/Firestore/Protos` (`TargetChange` in `firestore.proto`, `ExistenceFilter` in
`write.proto`) and from what `remote_event.cc` relies on: it answers requests in their
order, also an unwatch of a target it has rejected; it says CURRENT when it has told
about all documents; a global snapshot comes only when every target of the stream is
consistent; after a resume, deletions are told one by one or stood for by an existence
filter, which follows the documents that match and accounts only for documents that are
known from the resume token alone; the bloom filter has the documents that did not
change since that token, and perhaps others. A resume token is the set of documents that
the backend had told about; the tokens and keys in memory and in the target cache are
one (they are written in one transaction). Versions of documents are abstracted to fresh
and stale snapshots. A document message names one target. The map from documents to
targets that limbo and multi-target documents need
(`pending_document_target_mappings_`) is left out. `RemoteStore` covers when the stream
opens and closes, `WatchProtocol` covers what goes over it. The token that the details of a
CURRENT or a RESET message may carry (`remote/remote_event.cc:166`, `:191`) is left out; the
backend sends tokens with snapshots.

**SyncEngine and View.** What matters of a document is which queries it matches; that set
is its content. The backend brings some of the listened targets up to date with each
snapshot, in the way `WatchProtocol` shows that messages are turned into snapshots, and
may be silent about a document that left a target. The query engine reads the keys that
the backend reported for the target and what was read since the last snapshot without
limbo documents, as `QueryEngine::PerformQueryUsingRemoteKeys` does. One write at a time
is pending on a document and it replaces the content. Answers to writes come on a stream of
their own and do not ask whether the watch stream is connected. `Refresh` computes a view from
all cached documents, where the code passes those that changed (`core/sync_engine.cc:522`) and
keeps the others (`core/view.cc:181`). The bookkeeping of `document_received` of a limbo
lookup, with its assertions (`core/sync_engine.cc:321`), is left out. Views have no limit.

**Overlays.** One document, because overlays of different documents do not meet; fields
hold positive numbers. A batch has the mutations of the document in order; the values of
increments are fixed by a base mutation when they are written, as in
`LocalStore::WriteLocally`. `AcknowledgeBatch` always computes the overlay again:
`GetKeysWithTransformResults` (`local/local_store.cc:88`) compares a count in the field
descriptor. Refusals by the backend drop the first batch. Server timestamps and array
transforms are left out, so that `NoFlicker` says nothing of them: a server timestamp is read
as an estimate until Watch or the acknowledgement brings the value.

**Transactions.** A program of the user is a sequence of reads and writes; it writes one
more than the sum of what it read, so a stale read shows in the store. The backend checks
the preconditions and applies all writes or none. Requests may be refused, answers may be
lost, and the user's function may fail; the number of these is bounded by the setting, and
the number of attempts by the code.

**AsyncQueue.** A step is one critical section of one thread. libdispatch runs one task at
a time, in the order of the queue, and a timer not before it is due. The mutex of the
queue is explicit, as `Dispose` waits while it is held; the short ones of tasks and of the
executor are the granularity of steps. `MaxTasks` bounds calls and timers.

**GrpcStream.** The worker blocks half way in a method that waits for completions; what is
left of it is a list of steps. gRPC is external: it completes operations in any order it
may, fails those of a call that is over, and completes nothing twice. That the owner is told of
the end is bounded from above only (`finishes` is at most one): a call that the owner ends
itself is not reported to it.

## 4. Runs

Deadlock is not checked: a behaviour ends when its bound on calls and failures is used
up, and the program may really stop there.

| Run | Distinct states | What it shows |
|---|---|---|
| `core` | 891 327 | Both halves of the remote store, two settings. Two targets and one user, five calls or failures: no assertion of the watch half fails, `TargetsAreWatched`, `OnlineMeansOpen`, `BackoffBeforeRetry`; five are enough to listen, lose the connection, remove the target, disable, enable. Two users that write, six events, a pipeline of two: `WriteAssertsHold`, `WritesAreOnTheirWay`, `CallbacksAreQueued`, `ResolvedByItsResponse` (a response carries no batch id, so it must meet the right one, also when it cannot be decoded), and that the whole implements `WriteLog`; three writes, a user change, a failure and a restart fit in six events. |
| `live` | 57 016 | One target and two users, four events: under fairness every write resolves, and a client with a target goes online. |
| `listen` | 350 680 | Four settings: four remote listeners on three queries of two targets with two rejections, and two remote and two cache listeners of one query; each under the LRU and the eager collector. No assertion fails, the tables of four classes agree, ids are stable, a rejection reaches every listener. |
| `watch_protocol` | 2 177 652 | Six settings: a resume with a deletion, a filter, a reset and a stale snapshot; a second listen under the same id; a query and a document query on one document; a rejection over a reconnect; a rejection that crosses the second watch request of a mismatch; bloom filters with false positives. No listen is lost (`ListensAreServed`), snapshots are complete, tokens match the stored keys, pending responses count the answers due, deletions that the client guesses are real. |
| `watch_heal` | 13 380 | Under fair delivery every listen converges, also after an existence filter mismatch and a broken connection. |
| `sync_engine` | 156 946 | Seven settings of two queries and two documents with one lookup at a time: `LimboIsTracked` (views, references, queue and active lookups agree), `SyncedIsExact`, `ListenMissesOnlyStale`, and `ViewsConverge`: when clients rest, every view becomes synced and right. |
| `overlays` | 229 293 | Five settings of up to four batches of eight kinds, with changes by another client and refusals: `OverlaysArePending`, `ViewIsReplayed`, `SettledIsServer`, `NoFlicker`. |
| `transactions` | 308 730 | Four settings of three clients on two documents: write skew; a document created and deleted under a reader; updates of read, unread and just written documents; reads after writes and programs that write nothing. Reads are current at commit, the whole implements `AtomicStore`, every transaction ends. |
| `async_queue` | 39 014 | A caller and a client that is never disposed of, or disposed of twice (terminate, then destructor), three tasks: `RefsAreHolders`, `CancelledNeverStarts`, `DisposedIsQuiet`, `DisposeEnds`. Three tasks are a call, a timer that it cancels, and another one. |
| `grpc` | 42 311 | Three writes (one on the wire, two buffered), two reads, every end of a call at every moment: `CompletionsAreSafe`; `MessagesFlow` (messages in order, a read always under way, no buffered write left behind); `EveryCallEnds`. |
| `listen_stopped_twice` | violation | finding 1 |
| `stale_overlay` | violation | finding 2 |

The bounds are small because the hazards are about orders of steps and not about
numbers. Two targets let one be added while the other is in another phase; two documents
let a filter hide one behind another, or one lookup wait for another; two listens are
needed and enough for messages of an old listen to meet a new one. Pipelines, backoff
delays, lookups and attempts keep values below, at and above their limits. A module with
several settings starts in any of them, so one run checks them all. No symmetry reduction
is used.

**Fairness.** `RemoteStore`: weak fairness of the write reactions (the queue runs what it
was given, timers fire, a credentials provider answers, the backend answers writes), of
the timers of the watch stream, and of its credential answers. The backend is *not*
assumed to say anything on the watch stream, which is why finding 3 is a real behaviour;
`AnsweringSpec` adds that it does, for `GoesOnline`. Calls, failures and restarts are
never fair, and bounded, so that a liveness property says: once they stop.
`WatchProtocol`: the stream is opened again, messages are delivered, and the backend goes
on with what it has to say. `SyncEngine`: the stream is opened again, the backend brings
each target up to date and answers each write; it need not say anything twice.
`Transactions`: timers fire, the user's function returns and calls are answered (gRPC ends
every call, if with an error); failures are not fair. `AsyncQueue`: threads are scheduled
and mutexes handed out fairly, so a step that is enabled again and again is taken;
libdispatch runs what it was given. `GrpcStream`: worker and polling thread run, and gRPC
completes the operations of a call that is over; it need not ever complete one of a call
that goes on.

## 5. Proofs

For every value of the constants (sets of targets, users, clients, documents and fields,
all limits, all bounds, all settings):

| Module | Theorem | Says |
|---|---|---|
| `RemoteStoreProofs` | `WatchInvariant` | `Spec => []Inv` |
| | `OnlineOnlyWhenOpen` | `Spec => []OnlineMeansOpen` |
| | `NoTargetForgotten` | `Spec => []TargetsAreWatched` |
| | `NoWatchAssertFails` | `Spec => []WatchAssertsHold` |
| | `WriteInvariant` | `Spec => []WriteInv` |
| | `TypesHold` | `Spec => []TypeOK` |
| | `NoWriteAssertFails` | `Spec => []WriteAssertsHold` |
| | `NoWriteForgotten` | `Spec => []WritesAreOnTheirWay` |
| | `NoCallbackLeaks` | `Spec => []CallbacksAreQueued` |
| | `ResolvedOnlyByItsResponse` | `Spec => ResolvedByItsResponse` |
| | `WritePathImplementsLog` | `Spec => ImplementsWriteLog` |
| | `RetriesArePaced` | `Spec => BackoffBeforeRetry` |
| `WatchProofs` | `WatchProtocolTypes` | `Spec => []TypeOK` |
| | `PendingIsCounted` | `OnceOrNeverRejected /\ Spec => []PendingCountsAnswers` |
| | `TokensPromiseKeys` | `OnceOrNeverRejected /\ Spec /\ []FiltersAgree => []TokensMatchKeys` |
| | `SnapshotsCompleteTargets` | `OnceOrNeverRejected /\ Spec /\ []FiltersAgree => SnapshotsAreComplete` |
| | `ListensReachTheBackend` | `OnceOrNeverRejected /\ Spec => []ListensAreServed` |
| `OverlayProofs` | `OverlaysStayPending` | `Spec => []OverlaysArePending` |
| | `ViewsAreReplayed` | `Spec => []ViewIsReplayed` |
| | `SettledViewsAreServer` | `Spec => []SettledIsServer` |
| | `ReadsDoNotFlicker` | `Spec => NoFlicker` |
| `TransactionProofs` | `TransactionsReadCurrent` | `Spec => ReadsAreCurrent` |
| | `TransactionsAreAtomic` | `Spec => ImplementsAtomicStore` |
| `GrpcStreamProofs` | `CallbacksAreSafe` | `Spec => []CompletionsAreSafe` |
| | `MessagesKeepFlowing` | `Spec => []MessagesFlow` |
| `ListenProofs` | `NoListenAssertFails` | `Spec /\ Sound(setting) => []AssertsHold` |
| | `ListenTablesAgree` | `Spec /\ Sound(setting) => []TablesAgree` |
| | `RejectionsReachListeners` | `Spec /\ Sound(setting) => RejectionIsReported` |
| | `TargetIdsAreStable` | `Spec /\ Sound(setting) => IdsAreStable` |
| `SyncEngineProofs` | `SyncEngineTypes` | `Spec => []TypeOK` |
| | `LimboTablesAgree` | `Spec => []TablesOfLimboAgree` |
| | `LimboDocumentsAreTracked` | `Spec /\ LookupsEndInSync => []LimboIsTracked` |
| | `SyncedViewsAreExact` | `Spec => []SyncedIsExact` |
| | `ListensMissOnlyStale` | `Spec => ListenMissesOnlyStale` |
| `AsyncQueueProofs` | `CancelledTimersNeverStart` | `Spec => []CancelledNeverStarts` |
| | `TasksAreCounted` | `Spec /\ Single => []RefsAreHolders` |
| | `NothingRunsAfterDispose` | `Spec /\ Single => DisposedIsQuiet` |

Assumptions: the named assumptions on the constants of the modules, that is
`MaxDelay`, `MaxWatchStreamFailures`, `MaxPendingWrites`, `MaxAttempts` positive naturals,
`MaxEvents` a natural, `FirstUser` one of `Users`, each user with a stream token of their
own (`Tokens = Users`) that is not the empty token (`NoToken \notin Tokens`), the settings
of a run of their type, the programs of a setting sequences of reads and writes, the
threads of the worker queue (callers, disposers, the worker) disjoint; of the watch
protocol, finitely many targets and documents and an empty resume token that is not the
token of a set of documents; of the sync engine, finitely many documents and queries and
a limit of at least one lookup; and of overlays, mutations of which only patches have a mask,
increments or a precondition, batches of at least one mutation
(`FirestoreClient::WriteMutations` returns early without one, `core/firestore_client.cc:532`),
and documents without fields where they do not exist. The hypotheses that a theorem adds to
`Spec` (`Sound`, `Single`, `OnceOrNeverRejected`, `[]FiltersAgree`, `LookupsEndInSync`) leave
out settings and behaviours in which the code breaks the property; each is explained below.

**Watch half.** The properties are not inductive. That no assertion fails depends, among
others, on the state of a stream when its close callback restarts it and on when the
online state timer runs. The invariant `Inv` says of the watch record and the network flag:
the parts have their types and their own invariants (`GoodStream`: a timer runs only in
the state it belongs to, credential answers outstanding are of this or of a former
attempt, and so on; `GoodTracker`: the timer runs only while the state is Unknown, and
Online has no failures); with the network enabled, targets imply a started stream; a
started stream implies an enabled network and an aggregator; a running idle timer implies
no targets; Online implies an open stream; and the online state timer implies a started
stream. The proofs follow the composition of the modules: `RemoteStoreProofs` shows for each
operator of `Stream` that it keeps the stream's invariant and what state it leaves, then
the same for the tracker, and then for each operator of `WatchConnection` that it keeps
`WatchInv`; the actions then have one step each. Actions
of the write half leave the watch half alone (`WritesKeepWatch`).

**Write half.** A `WriteResponse` carries no batch id: the client resolves the first batch
of the pipeline, whatever the backend answered. That this is right rests on several pieces
of state in step with each other, which is what `WriteInv` says:

- the queue of a user ascends and lies below the next batch id; callbacks wait for queued
  batches; what the backend has committed is queued and closed under "before";
- the pipeline is the beginning of the queue, as long as there is room and the network is
  enabled (`Loaded`), and empty when the network is disabled;
- an open call owes an answer to the handshake before it is over and to each write of the
  pipeline, in order, after it (`InFlight`: the answers on the wire followed by the
  requests on the wire are that list), and a closed one owes nothing;
- what an answer on the wire acknowledges is committed; only the last answer may be a
  rejection, and never the one to the handshake;
- the stream has its invariant, as in the watch half, and with the network enabled a pipeline
  that is not empty has a started stream.

There is one lemma for each operator of `WritePipeline`, which says that it keeps these
relations, and then one per action. For the refinement most actions are `Quiet`: they change
no queue, commit nothing and remove no batch, so they are stuttering steps of `WriteLog`.
The others are `WriteMutations` (`Accept`), `BackendAnswer` (`Commit`, or a stutter for the
handshake), `ReadMutationResult` (`Acknowledge`), and `ReadRejection` and `ReadUndecodable`
(`Reject`, the latter also of a committed batch, or a stutter before the handshake).
`ResolvedByItsResponse` follows from `InFlight`: a response that is there to be read, or to
fail on, belongs to the head of the pipeline, which is the head of the queue. The types of
the watch half come from `WatchInvariant`.

**Watch stream.** `WatchProofs` follows requests and messages through both channels, for
any number of targets, documents, listens, reconnects and messages under way. It first
shows what each operator of the aggregator and each action changes, then three invariants.

- `CountInv` is behind `PendingIsCounted`. `outstanding_responses_` of a target is the
  number of its requests still on the wire and of its answers on the way back
  (`Counted`), for every target that is listened to or may be again; a target that was
  never listened to has left no trace anywhere (`Traces`), so that its count starts right;
  and nothing is under way on a closed stream (`Closed`). Requests are counted in
  sequences that are appended to, taken from and, when a stream opens, written anew for
  all targets at once; the lemmas on `Count` do this without an induction, by bijections
  between sets of positions.
- `WatchInv` is behind `TokensPromiseKeys` and `SnapshotsCompleteTargets`. Neither of them
  is inductive: a token is right because the view was right when the snapshot came, and the
  view is right because of all the messages taken since the stream opened. So for each
  target there is a list of what the backend had told about it after each message on the way
  (`Streams`): each message leads from one entry to the next, the last entry is what the
  backend has told by now, the first is what the aggregator shows of the target once no
  answers are outstanding, and as long as they are, the answer to the last request starts
  from the token it was sent with (`LastRequests`). The documents stored with a target are
  those of its token (`KeysAreTold`).
- `AllKept` is behind `ListensReachTheBackend`, and needs `CountInv` but no agreement of filters:
  of each target listened to, the last request under way asks for it with the token of now
  (`LastRequest`), and if there is none the backend serves it or its rejection is under way.
  The unwatch and watch requests of a mismatch come in pairs, so the last of them asks for the
  target again, without the token that the mismatch has dropped (`RewatchedLast`); a snapshot
  that changes a token finds no request for the target, as its answer is still counted; and a
  rejection that the client takes removes the target it is about.

`OnceOrNeverRejected` says that targets are listened to once or none is rejected: with a
second listen under an id that was rejected, the count of its answers can stay too high and
the error of the first listen ends the second (`OldErrorSettings`). All settings of the run
`watch_protocol` satisfy it. `FiltersAgree` says that an existence filter for a query has
the count the client has. It is needed: a filter that disagrees schedules a reset, after
which a document that arrives too early is kept although its token does not promise it
(finding 7, which violates `TokensMatchKeys` as well), and one that a bloom filter explains
can leave a wrong document (finding 6). What holds after such a filter in the settings of
the run is left to TLC. Filters for document queries, all resumes, removals, stale snapshots
and reconnects are in the theorems.

**Backoff.** A stream that is started while it is in the state Error goes through its
backoff; one that is in any other state must have no delay. So the invariant is `Rested`
of both streams: in the states Initial and Starting no delay is due. Every operator of
`Stream` keeps it, and each operator of the two halves either leaves the stream's state,
or restarts it from a state that is accounted for (`PacedWatch`, `PacedWrite`).

**Overlays.** An overlay is saved with the largest batch it includes. It could outlive that
batch in two ways: when a refusal or an acknowledgement removes a batch without its
overlay, and when a recalculation saves it under a batch that is gone. The invariant adds
to the property that the queue is a sequence and that the answer of the backend is for a
batch that is pending.

That the overlay stands for a replay of the queue (`StandsForReplay`) is inductive. The hard
step is a remote change after which the code keeps the overlay: the batches are then
replayed on another document, and the saved mutation, which knows nothing of them, must
still give the same as they do. `KeptOverlayStandsForReplay` shows it by three relations
between the views of the old and of the new document, each kept by every mutation or batch:

- neither document exists: the views are untouched or the same (`AlikeWhereMissing`);
- both exist: they agree in the fields that mutations changed (`AlikeWhereMasked`). An
  increment would break this if a batch did not first set the base of what it increments
  (`WriteMakesBatch`, `HasBase`), so this relation is kept by batches, not by mutations;
- the overlay is a set or a delete: the views are the same once a mutation without a mask was
  applied (`AlikeOnceWhole`), whether the document existed or not.

In the other case, existence changed below a patch, the code calculates the overlay again, and
`CalculatedStandsForView` shows that it is right: outside of the mask a view has the fields of
its document (`ReachedFrom`). Replays are folds over the queue of folds over batches;
`FoldExists` and `PartsGiveTrace` unroll such a fold into the list of its intermediate values,
by least counterexamples, as the library's induction theorems cannot be used. For
`SettledIsServer`, `FollowsWatch` says that the cached document is the last that Watch sent or
has a later version of the backend's.

For `NoFlicker` the invariant `Alone` names what the user keeps seeing while this client alone
writes (`Seen`): the pending batches on the version that the first of them was or will be
committed on. A commit leaves it, since both the version and the batch stay where they are; an
acknowledgement leaves it, since the batch goes and the version becomes what the batch made of
it; Watch has no part in it. That reads show it rests on three facts about a batch that the
backend commits on a version whose fields are the base states of the batch:

- what the user sees of the batch on that version is what the backend makes of it
  (`CommitsWhatIsSeen`);
- applied to the outcome once more, before its acknowledgement has arrived but after Watch's
  report of it has, the batch leaves the outcome (`CommittedAppliesOnce`): an increment counts
  from the base state, and a field that is neither in a base nor set by the batch keeps its
  value;
- the answer makes the outcome of the cached version (`AnswerMakesOutcome`).

That the base states are those fields (`BasesFollow`) is kept when a write takes them from the
view that the user sees, which is `Seen`. What is left are recalculations that find no overlay
and leave an old one: while this client alone writes, such an overlay is of the whole document
(`OutdatedIsWhole`) and still shows what the batches make; one of fields, the case of finding
2, needs another writer or a refusal.

**Transactions.** What a commit needs is that each document read is guarded by one of its
writes, by a precondition or a verification. That is true only of a commit under way, so
the invariant follows an attempt: while it runs, its versions and values are those of
documents as the backend had them, with equal versions meaning equal contents, and its
writes carry the precondition that `Transaction::GetPrecondition` gives for what was read
before; from `Commit` on (`AllGuarded`) every document read is written or verified.
The backend's check then makes the versions, and with them the contents, equal at the
commit.

The refinement of `AtomicStore` needs more: that the mutations of an attempt are what the
program computes from the values read (`Follows`: the mutations are those of the writes of
the program up to the present step, each with one more than the sum of the reads before
it), so that the writes of a commit are what the abstract transaction writes when it reads
the store at that instant (`Sent`); and that a result is reported only for the answer of
the last commit (`OutcomeOK`). A commit by the backend is `Apply`, a lost answer to it
`LoseAnswer`, the report `Succeed` or `Fail`, and everything else is a stutter.

**gRPC calls.** The property `failed = {}` covers all operators at once, so the invariant
relates the stream, the completion queue, the operations of gRPC and the steps that are left
of a blocking method: each completion of the stream is with gRPC or has arrived, once, and
what has arrived for no completion of the stream has no callback (`Tracked`, `Distinct`);
there is one read and one write (`OneEach`); the messages in the buffer are the last that
were written and the active write carries the one before them (`Flows`); a buffer that is
not empty has an active write (`Waits`); a call in use that has not failed has a read under
way, since each that completes issues the next (`Reading`, which the other parts do not
need); and `InPlan` says which steps the worker may still have and what holds before each,
as that a drain comes only after a cancellation and that none of the completions is left
behind it. How often the worker drains is an induction over the number of its completions;
it is done with the least number of a set, as the library's induction theorems cannot be
used.

**Listeners.** `Tidy` says how the tables of the four classes hang together: views are on
the cached id of their target and exist while there are listeners, the active targets and
the keys of `queries_by_target_` are those of the views, the queries of a target have their
views on it, and the watched ones are those with a remote listener; ids in the cache are
distinct and below the next one. The theorems are for the settings (`Sound`) in which all
listeners are remote, the default of the API, or in which no two queries share a target and
the backend rejects none. In the first, `queries_by_target_` is complete; in the second it
is not (a downgraded query leaves it), and the queue of calls enters the invariant: a
registration that is to be removed is one the event manager has or will have, and is
removed only once (`CallsOK`). In the settings outside of `Sound` the properties do not
hold: findings 1 and 4 and the variants below are such settings.

**Views and limbo.** `FullInv` has four parts, which hold for every finite set of documents
and queries, every limit of lookups, and any number of changes, writes, listens, breaks,
resets and rejections.

- `TablesInv`: the references of limbo documents are those of the views; a key is looked up or
  waits, once, for some view, and waits only when the limit is reached (`Tidy`). The code goes
  over the documents and views in the order of its containers, the model by `FoldSet`, which
  takes an arbitrary element; what such a fold does to the references and to the lookups that
  run is shown for whatever order it takes (`RemovalsEffect`, `AdditionsEffect`, `EndingsEffect`,
  `TrackAllEffect`). These are inductions over a finite set; they are done with the smallest
  part of the set that would break the claim (`SmallestPart`), as the library's induction
  theorems cannot be used.
- `DataInv`: a copy in the cache is no newer than the document of the backend and equal to it at the
  same version, its read time is no less than its version, and a target knows the matches
  among the documents that have not changed since its version.
- `SeenInv`: a target that the backend keeps up to date has the keys of the latest snapshot, and
  the cache has these documents as they were then, unless this client wrote them. A rejected
  lookup purges none of them, since the backend refuses a lookup only of a document that no
  query returns.
- `ViewInv`: a view in sync shows what matches in the caches, and what it shows beyond the keys of
  its target is in limbo or local; what it shows as local is local or waits for Watch.

`SyncedIsExact` follows from the last three: in a synced view nothing is in limbo, so what
it shows and was not written is a key of its target, hence was reported.
`ListenMissesOnlyStale` follows from `DataInv`: what `ExecuteQuery` leaves out was last read
before the limbo-free version of the target, so that if it were up to date the target would
have it. That every limbo document is tracked needs `LookupsEndInSync`: no lookup is
rejected while a view that has its document in limbo is not in sync. Such a rejection is
finding 8, in which the document is forgotten. The settings of the run `sync_engine` have
none: TLC finds no step in them that the hypothesis excludes.

**Worker queue.** The invariant `IInv` is for any number of threads and tasks, two disposals
at once included. It gives each task one owner: the executor, or one thread that creates,
cancels or drains it (`Owners`), so that its count is this owner and libdispatch (`Counts`).
Ids of timers are distinct and the schedule is the executor's timers by their id
(`Scheduled`), so that a cancellation takes out the task it means. A task that is in its
initial state is in the executor, is being inserted, or is about to be cancelled by a thread
that has taken it (`Starts`), so that a timer that is not found by its id has been cancelled,
unless the executor is disposed of. And once the termination has started, a task that runs
is still in the executor, or a disposer is going to wait for it (`Ending`); this rests on the
termination having cancelled all timers before it ends, so that no later task cancels itself.
From that follows that nothing runs when the disposal returns, provided that no other disposer
has taken tasks over: `Single` says that at most one thread calls `Dispose`, as often as it
likes. With two at once the first to return may leave tasks to the other, which are still
running; TLC finds `DisposedIsQuiet` and `RefsAreHolders` violated in the setting
`TwoDisposers`, as it does `DisposeEnds` (finding 11).

Only model-checked: all liveness (the prover has no way to reason about fairness and
ENABLED); and of `WatchProtocol` what follows a filter that disagrees, with `DeletionsAreReal`
and `FilterLeavesItsCount`, whose truth hangs on the settings (finding 6). No module with a
theorem has a RECURSIVE operator: folds are used where the code loops.

## 6. Findings

Where the code does something else than its own comments or assertions say. The first two
are runs; each of the others is shown by a configuration beside them, with the property it
violates: `tlc -config <cfg> <module>`.

| | Configuration | Violates | What happens |
|---|---|---|---|
| 1 | `MCListenStoppedTwice.cfg` | `StoppedTargetIsWatched` | `RemoveQueryListener` (`core/event_manager.cc:103`) does not ask whether the listener was there. Removing one that a rejection has already dropped, while a cache listener of the query is left, stops a watch that is gone, and the assertion at `remote/remote_store.cc:175` fails. |
| 2 | `MCOverlaysStale.cfg` | `ExistsAsReplayed` | When Watch reports the deletion of a document with a pending update, no overlay is found for it and the old one stays (`local/local_documents_view.cc:349`); it has no precondition, so the document is read with the updated fields alone. |
| 3 | `MCOnlineStateStuck.cfg` | `UnknownIsTemporary` | The online state stays Unknown for ever over a silent connection: `EnableNetwork` on a running stream, or the removal of the last target while the stream starts, cancels the timer (`remote/remote_store.cc:188`) and nothing starts it again. |
| 4 | `MCListenMirrorGone.cfg` | `MappedTargetHasQuery` | A query downgraded to the cache leaves `queries_by_target_`, but the empty vector stays; the next query of that target reads its first element (`core/sync_engine.cc:145`). |
| 5 | `MCWatchStaleCurrent.cfg` | `CurrentIsFromTheBackend` | The second listen of an id keeps `current_` of the first (`remote/remote_event.cc:156`; `remote/remote_event.h:165` says what it should imply). |
| 6 | `MCWatchFilterCount.cfg` | `FilterLeavesItsCount` | The bloom filter counts a document again whose removal is already pending (`remote/remote_event.cc:387`), which can hide another one that is gone. |
| 7 | `MCWatchHardReset.cfg` | `SnapshotsAreComplete` | A document that arrives between a filter mismatch and its snapshot survives the reset that should give a full update (`remote/remote_store.cc:349`). |
| 8 | `MCSyncEngineForgotten.cfg` | `LimboIsLookedUp` | A lookup that is rejected while the view is not current leaves its key in `limbo_documents_`, which is recomputed only when the view is current (`core/view.cc:451`). When it is current again the key is no new one (`core/view.cc:475`), so it is never looked up, and the view stays "from cache". |
| 9 | `MCSyncEngineOvertaken.cfg` | `WritesBecomeSynced` | `core/view.cc:319` ignores a change of a document that has lost its local mutation "as Watch will send us the same document again". When another client's later version has already arrived, Watch does not, and the view goes on to show the write as local. |
| 10 | `MCAsyncQueueCancel.cfg` | `CancelIsHeeded` | `util/executor.h:173` says that `Cancel` cancels an operation that has not run. The executor's `Dispose` empties its schedule before it cancels the tasks (`util/executor_libdispatch.mm:70`), so a `Cancel` in between finds nothing, and a timer that is due runs after it. |
| 11 | `MCAsyncQueueDispose.cfg` | `DisposeEnds` | Of two concurrent calls of `FirestoreClient::Dispose` one can wait for ever (`core/firestore_client.cc:300`): its task was enqueued, and then taken out by the other one's disposal of the executor, so that its signal is never set. |
| 12 | `MCRemoteStoreUnreadable.cfg` | `RejectedByTheBackend` | `remote/remote_store.cc:549` says of an error that rejects a write that "the request itself was the problem". A `WriteResponse` that the client cannot decode (`remote/write_stream.cc:133`, `:153`) closes the stream with DataLoss (`remote/stream.cc:261`), which is permanent (`remote/datastore.cc:477`): the write is dropped and reported as failed though the backend rejected nothing and may have committed it. |
| 13 | `MCWatchOldError.cfg` | `RejectionsAreForThisListen` | `ProcessTargetError` (`remote/remote_store.cc:270`) does not ask whether answers are due for the target: the error of a former listen of an id, or of the listen before a mismatch, ends the present one. |

Variants of the same causes, found with other settings of the MC modules:

- `LeakSettings`: `TablesAgree` fails when a query with a cache listener and its mirror
  with a remote one share a target (`core/sync_engine.cc:208` returns before the watch is
  stopped).
- `UpgradeSettings`: `RejectionIsReported` fails when a query was downgraded and upgraded
  again, as only `SyncEngine::Listen` enters it in `queries_by_target_`.
- `MirrorSettings`: `AssertsHold` fails also with the release of a target that is not
  active.
- `OldErrorSettings`, the setting of finding 13: `PendingCountsAnswers` fails as well, as no
  further answer comes for the listen that was refused; the count stays too high, and a later
  listen of the id hears nothing.
- `Crossed`, a setting of the run `watch_protocol`: `RejectionsAreForThisListen` fails also by
  the error of the listen before a mismatch.
- An open watch stream that loses its last target by `ProcessTargetError`, or opens after
  its last target was removed, is never marked idle (`remote/remote_store.cc:235`).

The passing runs therefore state some properties for the settings in which they hold: one
part of `TablesAgree` while all listeners are remote, `PendingCountsAnswers` and
`ListensAreServed` where ids are listened to once or not rejected, `FilterLeavesItsCount`
and `SnapshotsAreComplete` with at most one document written while a target is watched,
`LimboIsTracked` where no lookup is rejected around a broken connection, `ViewsConverge` up
to documents that a write left local, `ViewIsReplayed` until finding 2 has happened,
`DisposeEnds` for one disposing thread.

## 7. Not modelled

Each of these is also a component of `PROJECT.json` with its reason. Within reach and
planned: the LRU collector, limits and refills of views, what a `QueryListener` raises,
the life of `FirestoreClient` before its first credential, bundle loading, the index
backfiller, heartbeats, unary calls and streaming readers of gRPC. Not planned:
serializers, the data model, immutable collections and utilities (sequential data
structures that no property here tells apart), LevelDB and its migrations (a transaction
is atomic in all models), the executor on std threads (not built on the platforms of this
package), the public API and FirebaseCore (wrappers and configuration), generated and
vendored code. Most lines of the repository are of the second group: protocol buffers
and certificates as generated code alone are more than a third.

A crash between the notification of a successful write and the storing of its
acknowledgement (`core/sync_engine.cc:397`) is not split: what the repeated write then
does is decided by the backend, which recognises it by the stream token.

## 8. Plan

Done: the streams, the remote store, the proofs of both its halves; listeners and targets;
the watch protocol; views and limbo resolution; overlays, what a replay of them gives and
that reads do not flicker; transactions and that they implement their abstract store; the
worker queue and its proofs; gRPC calls and the proof of their safety; the proofs on
listeners, on the watch stream, and on views and limbo resolution.

Next:

1. `LruCollector`: sequence numbers, orphans and live targets, composed with the target
   cache of `ListenLifecycle`; `QueryListener` and limit queries on top of `View`, with a
   reference definition of a limited result.
2. `Overlays` for several documents with one mutation queue, composed with `WriteLog`.
3. `FirestoreClient` with credentials; bundle loading and its resumption; heartbeats.
4. Proofs: in `WatchProtocol`, what holds after an existence filter that disagrees.
