---------------------------- MODULE RemoteStore -----------------------------
(***************************************************************************)
(* The RemoteStore with its two streams, the OnlineStateTracker, and the   *)
(* write path of the SyncEngine and the LocalStore that it drives.         *)
(*                                                                         *)
(* Every action is one operation on the worker queue (AsyncQueue), which   *)
(* runs them one at a time: a call of the client, a timer, a credential    *)
(* answer, a gRPC event. The two Backend actions are the only ones outside *)
(* it. The listens of the sync engine enter as calls; the views behind     *)
(* them are not in this module.                                            *)
(***************************************************************************)
EXTENDS WatchConnection, WritePipeline

CONSTANTS
  Users,         \* the users that may sign in
  FirstUser,     \* the user at the first start
  MaxEvents,     \* bound on calls, failures and restarts in a behaviour
  Settings       \* the settings to check; each has the targets that may be
                 \* listened to, the users that may sign in, and how many
                 \* calls, failures and restarts there may be

ASSUME UsersAssumption == FirstUser \in Users /\ Tokens = Users
ASSUME SettingsAssumption ==
  /\ MaxEvents \in Nat
  /\ Settings \subseteq [targets : SUBSET Targets, users : SUBSET Users,
                         events : 0..MaxEvents]

VARIABLES
  net,           \* is_network_enabled_
  watch,         \* the watch half (WatchConnection)
  write,         \* the write half (WritePipeline)
  user,          \* current_user_ of the sync engine
  store,         \* persisted: the users' mutation queues and stream tokens
  nextBatch,     \* next_batch_id_ of the mutation queue
  callbacks,     \* mutation_callbacks_: batches with a callback, by user
  waits,         \* the keys of pending_writes_callbacks_
  committed,     \* history: the queued batches the backend has committed
  resolved,      \* history: the last batch taken off a queue, and how
  setting        \* one of Settings; its events are those still to come

remote == <<net, watch, write>>
engine == <<user, store, nextBatch, callbacks, waits>>
vars   == <<net, watch, write, user, store, nextBatch, callbacks, waits,
            committed, resolved, setting>>

Queue  == store.queues[user]

\* No batch has been resolved yet.
NotResolved == [user |-> FirstUser, batch |-> 0, how |-> "none"]

TypeOK ==
  /\ net \in BOOLEAN
  /\ watch \in WatchRecord
  /\ write \in WriteRecord
  /\ user \in Users
  /\ store \in [queues : [Users -> Seq(BatchIds)],
                tokens : [Users -> Tokens \cup {NoToken}], ok : BOOLEAN]
  /\ nextBatch \in BatchIds
  /\ callbacks \in [Users -> SUBSET BatchIds]
  /\ waits \in SUBSET BatchIds
  /\ committed \in [Users -> SUBSET BatchIds]
  /\ resolved \in [user : Users, batch : Nat, how : {"none", "acked"} \cup Statuses]
  /\ setting \in [targets : SUBSET Targets, users : SUBSET Users, events : 0..MaxEvents]

Init ==
  /\ net = TRUE
  /\ watch = NewWatch
  /\ write = NewWrite
  /\ user = FirstUser
  /\ store = [queues |-> [u \in Users |-> <<>>],
              tokens |-> [u \in Users |-> NoToken], ok |-> TRUE]
  /\ nextBatch = 1
  /\ callbacks = [u \in Users |-> {}]
  /\ waits = {}
  /\ committed = [u \in Users |-> {}]
  /\ resolved = NotResolved
  /\ setting \in Settings

\* Calls, failures and restarts are bounded; the reactions to them are not.
Event ==
  /\ setting.events > 0
  /\ setting' = [setting EXCEPT !.events = @ - 1]

-----------------------------------------------------------------------------
(* Listens *)

Listen(t) ==
  /\ Event
  /\ t \in setting.targets \ watch.targets
  /\ watch' = ListenTarget(watch, net, t)
  /\ UNCHANGED <<net, write, engine, committed, resolved>>

StopListening(t) ==
  /\ Event
  /\ t \in watch.targets
  /\ watch' = StopListeningTarget(watch, net, t)
  /\ UNCHANGED <<net, write, engine, committed, resolved>>

-----------------------------------------------------------------------------
(* Network, users and restarts *)

EnableNetwork ==
  /\ Event
  /\ net' = TRUE
  /\ watch' = EnableWatch(watch)
  /\ write' = EnableWrite(write, Queue, store.tokens[user])
  /\ UNCHANGED <<engine, committed, resolved>>

DisableNetwork ==
  /\ Event
  /\ net' = FALSE
  /\ watch' = DisableWatch(watch, "Offline")
  /\ write' = DisableWrite(write)
  /\ UNCHANGED <<engine, committed, resolved>>

\* The last call of a client: nothing follows but what was already scheduled.
Shutdown ==
  /\ setting.events > 0
  /\ setting' = [setting EXCEPT !.events = 0]
  /\ net' = FALSE
  /\ watch' = DisableWatch(watch, "Unknown")
  /\ write' = DisableWrite(write)
  /\ UNCHANGED <<engine, committed, resolved>>

\* The callback of the ConnectivityMonitor for a usable network.
ConnectivityChange ==
  /\ Event
  /\ net
  /\ watch' = RestartWatch(watch)
  /\ write' = RestartWrite(write, Queue, store.tokens[user])
  /\ UNCHANGED <<net, engine, committed, resolved>>

\* Mutant: the highest stored id is used again.
IdOfLast(queues) ==
  LET ids == UNION {Range(queues[u]) : u \in Users}
  IN  {n \in 1..(MaxEvents + 1) : /\ \A b \in ids : b <= n
                                  /\ n = 1 \/ n \in ids}

\* LevelDbMutationQueue::Start takes the id after the highest one that is still
\* stored, whoever wrote it. The result is a set with this one element.
IdAfter(queues) ==
  LET ids == UNION {Range(queues[u]) : u \in Users}
  IN  {n \in 1..(MaxEvents + 1) : /\ \A b \in ids : b < n
                                  /\ n = 1 \/ n - 1 \in ids}

CredentialChange(u) ==
  /\ Event
  /\ u \in setting.users
  /\ user' = u
  /\ IF u = user
     THEN UNCHANGED <<waits, nextBatch>>
     ELSE waits' = {} /\ nextBatch' \in IdAfter(store.queues)
  /\ IF net
     THEN /\ watch' = RestartWatch(watch)
          /\ write' = RestartWrite(write, store.queues[u], store.tokens[u])
     ELSE UNCHANGED <<watch, write>>
  /\ UNCHANGED <<net, store, callbacks, committed, resolved>>

\* The process dies and starts again: the mutation queues, their tokens and
\* nothing else survive.
Restart ==
  /\ Event
  /\ net' = TRUE
  /\ watch' = NewWatch
  /\ write' = EnableWrite(NewWrite, Queue, store.tokens[user])
  /\ nextBatch' \in IdAfter(store.queues)
  /\ callbacks' = [u \in Users |-> {}]
  /\ waits' = {}
  /\ UNCHANGED <<user, store, committed, resolved>>

-----------------------------------------------------------------------------
(* Writes *)

WriteMutations ==
  /\ Event
  /\ nextBatch' = nextBatch + 1
  /\ store' = [store EXCEPT !.queues[user] = Append(@, nextBatch)]
  /\ callbacks' = [callbacks EXCEPT ![user] = @ \cup {nextBatch}]
  /\ write' = FillWritePipeline(write, net, store'.queues[user])
  /\ UNCHANGED <<net, watch, user, waits, committed, resolved>>

\* With an empty queue the callback runs at once.
RegisterPendingWritesCallback ==
  /\ Event
  /\ waits' = IF Queue = <<>> THEN waits ELSE waits \cup {Last(Queue)}
  /\ UNCHANGED <<remote, user, store, nextBatch, callbacks, committed, resolved>>

\* Mutant: the callbacks of waitForPendingWrites are not triggered.
ResolveWithoutTrigger(b, how, queues) ==
  /\ callbacks' = [callbacks EXCEPT ![user] = @ \ {b}]
  /\ waits' = waits
  /\ store' = [queues EXCEPT !.queues[user] = Tail(@)]
  /\ committed' = [committed EXCEPT ![user] = @ \ {b}]
  /\ resolved' = [user |-> user, batch |-> b, how |-> how]

\* NotifyUser and TriggerPendingWriteCallbacks, and the batch leaves the queue:
\* HandleSuccessfulWrite and HandleRejectedWrite. The queue only gives up its
\* first batch.
Resolve(b, how, queues) ==
  /\ callbacks' = [callbacks EXCEPT ![user] = @ \ {b}]
  /\ waits' = waits \ {b}
  /\ store' = [queues EXCEPT !.queues[user] = Tail(@),
                             !.ok = @ /\ Queue # <<>> /\ Head(Queue) = b]
  /\ committed' = [committed EXCEPT ![user] = @ \ {b}]
  /\ resolved' = [user |-> user, batch |-> b, how |-> how]

\* The write stream closes with status: a permanent error of an established stream
\* rejects the head of the pipeline, and is what its callback is told; a failed
\* handshake may reset the stored token.
WriteStreamCloses(p, status) ==
  IF RejectsHead(p, status)
  THEN /\ Resolve(Head(p.pipeline), status, store)
       /\ write' = CloseWrite(p, net, store'.queues[user], status)
  ELSE /\ write' = CloseWrite(p, net, Queue, status)
       /\ store' = [store EXCEPT !.tokens[user] =
                      IF ResetsToken(p, status) THEN NoToken ELSE @]
       /\ UNCHANGED <<callbacks, waits, committed, resolved>>

-----------------------------------------------------------------------------
(* The write stream *)

WriteCredentialsArrive(n) ==
  /\ n \in write.stream.auth
  /\ write' = IF IsStale(write.stream, n)
              THEN [write EXCEPT !.stream.auth = @ \ {n}]
              ELSE WriteCredentials(write, n)
  /\ UNCHANGED <<net, watch, engine, committed, resolved, setting>>

WriteCredentialsFail(n) ==
  /\ Event
  /\ n \in write.stream.auth
  /\ ~IsStale(write.stream, n)
  /\ WriteStreamCloses([write EXCEPT !.stream.auth = @ \ {n}], "transient")
  /\ UNCHANGED <<net, watch, user, nextBatch>>

\* The backend reads the next message of the call, until it rejects a write.
BackendAccepts ==
  /\ write.requests # <<>>
  /\ \A i \in 1..Len(write.responses) : ~write.responses[i].rejected

BackendAnswer ==
  /\ BackendAccepts
  /\ LET m == Head(write.requests)
         r == [for |-> m, token |-> user, rejected |-> FALSE]
     IN  /\ write' = [write EXCEPT !.requests = Tail(@), !.responses = Append(@, r)]
         /\ committed' = [committed EXCEPT ![user] =
                            IF m = Handshake THEN @ ELSE @ \cup {m}]
  /\ UNCHANGED <<net, watch, engine, resolved, setting>>

BackendReject ==
  /\ Event
  /\ BackendAccepts
  /\ Head(write.requests) # Handshake
  /\ LET r == [for |-> Head(write.requests), token |-> user, rejected |-> TRUE]
     IN  write' = [write EXCEPT !.requests = Tail(@), !.responses = Append(@, r)]
  /\ UNCHANGED <<net, watch, engine, committed, resolved>>

\* The client takes the first response for the handshake, whatever it answers.
ReadHandshakeResponse ==
  /\ write.responses # <<>>
  /\ ~Head(write.responses).rejected
  /\ ~write.handshake
  /\ write' = OnWriteStreamHandshakeComplete(write)
  /\ store' = [store EXCEPT !.tokens[user] = write'.token]
  /\ UNCHANGED <<net, watch, user, nextBatch, callbacks, waits, committed,
                 resolved, setting>>

ReadMutationResult ==
  /\ write.responses # <<>>
  /\ ~Head(write.responses).rejected
  /\ write.handshake
  /\ LET p == PopResult(write)
     IN  /\ Resolve(Head(write.pipeline), "acked",
                    [store EXCEPT !.tokens[user] = p.token])
         /\ write' = FillWritePipeline(p, net, store'.queues[user])
  /\ UNCHANGED <<net, watch, user, nextBatch, setting>>

ReadRejection ==
  /\ write.responses # <<>>
  /\ Head(write.responses).rejected
  /\ WriteStreamCloses(write, "permanent")
  /\ UNCHANGED <<net, watch, user, nextBatch, setting>>

\* The client cannot decode the next response and closes the stream itself. The
\* response may be the acknowledgement of a write.
ReadUndecodable ==
  /\ Event
  /\ write.responses # <<>>
  /\ ~Head(write.responses).rejected
  /\ \E p \in Undecoded(write) : WriteStreamCloses(p, "dataloss")
  /\ UNCHANGED <<net, watch, user, nextBatch>>

\* gRPC ends the call. On an established stream a permanent error that comes from
\* there is the backend's verdict on a write (BackendReject).
WriteStreamError(status) ==
  /\ Event
  /\ IsOpen(write.stream)
  /\ write.handshake => status # "permanent"
  /\ WriteStreamCloses(write, status)
  /\ UNCHANGED <<net, watch, user, nextBatch>>

WriteBackoffElapsed ==
  /\ write.stream.waiting
  /\ write' = [write EXCEPT !.stream = BackoffElapsed(@)]
  /\ UNCHANGED <<net, watch, engine, committed, resolved, setting>>

WriteHealthElapsed ==
  /\ write.stream.health
  /\ write' = [write EXCEPT !.stream = HealthElapsed(@)]
  /\ UNCHANGED <<net, watch, engine, committed, resolved, setting>>

WriteIdleElapsed ==
  /\ write.stream.idle
  /\ WriteStreamCloses(write, "ok")
  /\ UNCHANGED <<net, watch, user, nextBatch, setting>>

-----------------------------------------------------------------------------
(* The watch stream and the online state *)

WatchCredentialsArrive(n) ==
  /\ n \in watch.stream.auth
  /\ watch' = WatchCredentials(watch, net, n, "ok")
  /\ UNCHANGED <<net, write, engine, committed, resolved, setting>>

WatchCredentialsFail(n) ==
  /\ Event
  /\ n \in watch.stream.auth
  /\ watch' = WatchCredentials(watch, net, n, "transient")
  /\ UNCHANGED <<net, write, engine, committed, resolved>>

WatchMessage ==
  /\ IsOpen(watch.stream)
  /\ watch' = MessageArrives(watch)
  /\ UNCHANGED <<net, write, engine, committed, resolved, setting>>

WatchTargetError(t) ==
  /\ Event
  /\ t \in setting.targets
  /\ IsOpen(watch.stream)
  /\ watch' = ProcessTargetError(MessageArrives(watch), t)
  /\ UNCHANGED <<net, write, engine, committed, resolved>>

WatchMismatch(t) ==
  /\ Event
  /\ t \in setting.targets
  /\ IsOpen(watch.stream)
  /\ watch' = ResetMismatch(MessageArrives(watch), t)
  /\ UNCHANGED <<net, write, engine, committed, resolved>>

WatchStreamError(status) ==
  /\ Event
  /\ IsOpen(watch.stream)
  /\ watch' = CloseWatch(watch, net, status)
  /\ UNCHANGED <<net, write, engine, committed, resolved>>

\* A message cannot be decoded, or what it says cannot: the stream has then been
\* called healthy.
WatchUndecodable ==
  /\ Event
  /\ IsOpen(watch.stream)
  /\ \E s \in {watch.stream, ResetBackoff(watch.stream)} :
       watch' = CloseWatch([watch EXCEPT !.stream = s], net, "dataloss")
  /\ UNCHANGED <<net, write, engine, committed, resolved>>

WatchBackoffElapsed ==
  /\ watch.stream.waiting
  /\ watch' = [watch EXCEPT !.stream = BackoffElapsed(@)]
  /\ UNCHANGED <<net, write, engine, committed, resolved, setting>>

WatchHealthElapsed ==
  /\ watch.stream.health
  /\ watch' = [watch EXCEPT !.stream = HealthElapsed(@)]
  /\ UNCHANGED <<net, write, engine, committed, resolved, setting>>

WatchIdleElapsed ==
  /\ watch.stream.idle
  /\ watch' = StopWatch(watch, net)
  /\ UNCHANGED <<net, write, engine, committed, resolved, setting>>

OnlineStateTimeout ==
  /\ watch.online.timer
  /\ watch' = [watch EXCEPT !.online = OnlineTimeout(@)]
  /\ UNCHANGED <<net, write, engine, committed, resolved, setting>>

-----------------------------------------------------------------------------

Calls ==
  \/ \E t \in Targets : Listen(t) \/ StopListening(t)
  \/ EnableNetwork \/ DisableNetwork \/ Shutdown
  \/ ConnectivityChange \/ Restart
  \/ \E u \in Users : CredentialChange(u)
  \/ WriteMutations \/ RegisterPendingWritesCallback

Failures ==
  \/ \E n \in write.stream.auth : WriteCredentialsFail(n)
  \/ \E n \in watch.stream.auth : WatchCredentialsFail(n)
  \/ BackendReject \/ ReadUndecodable \/ WatchUndecodable
  \/ \E status \in Errors : WriteStreamError(status) \/ WatchStreamError(status)
  \/ \E t \in Targets : WatchTargetError(t) \/ WatchMismatch(t)

WriteReactions ==
  \/ \E n \in write.stream.auth : WriteCredentialsArrive(n)
  \/ BackendAnswer
  \/ ReadHandshakeResponse \/ ReadMutationResult \/ ReadRejection
  \/ WriteBackoffElapsed \/ WriteHealthElapsed \/ WriteIdleElapsed

WatchTimers ==
  \/ WatchBackoffElapsed \/ WatchHealthElapsed \/ WatchIdleElapsed
  \/ OnlineStateTimeout

WatchReactions ==
  \/ \E n \in watch.stream.auth : WatchCredentialsArrive(n)
  \/ WatchMessage
  \/ WatchTimers

Next == Calls \/ Failures \/ WriteReactions \/ WatchReactions

Spec == Init /\ [][Next]_vars
-----------------------------------------------------------------------------
(* Fairness: the worker queue runs what it was given, timers fire, the       *)
(* credential providers answer and, for writes, the backend does. The        *)
(* backend need not say anything on the watch stream.                        *)

Fairness ==
  /\ WF_vars(WriteReactions)
  /\ WF_vars(WatchTimers)
  /\ WF_vars(\E n \in watch.stream.auth : WatchCredentialsArrive(n))

FairSpec == Spec /\ Fairness

\* The backend also answers on an open watch stream.
AnsweringSpec == FairSpec /\ WF_vars(WatchMessage)

-----------------------------------------------------------------------------
(* Safety *)

\* No HARD_ASSERT of the watch stream, of the online state tracker or of the
\* watch half of the remote store fails, and watch_change_aggregator_ is never
\* used while it is null, whatever the order of calls, timers and failures.
WatchAssertsHold == watch.ok /\ watch.stream.ok /\ watch.online.ok

\* No HARD_ASSERT of the write stream, of the write pipeline or of the mutation
\* queue fails, in particular the one that a resolved batch is the oldest one.
WriteAssertsHold == write.ok /\ write.stream.ok /\ store.ok

\* While the network is enabled no target is forgotten: the watch stream is
\* running or on its way (ShouldStartWatchStream after every change).
TargetsAreWatched == net => (watch.targets # {} => IsStarted(watch.stream))

\* The pipeline is the beginning of the current user's mutation queue, as much
\* of it as there is room for, or nothing without the network: no batch is
\* skipped, repeated, forgotten, or left over from another user. A queued write
\* has a write stream that is running or on its way (ShouldStartWriteStream,
\* FillWritePipeline after every change).
WritesAreOnTheirWay ==
  /\ net /\ Queue # <<>> => IsStarted(write.stream)
  /\ write.pipeline =
       SubSeq(Queue, 1, IF net THEN Min({Len(Queue), MaxPendingWrites}) ELSE 0)

\* The client only counts as Online while a watch stream is open: every path
\* that closes it also takes the state back (OnWatchStreamClose, DisableNetwork).
OnlineMeansOpen == watch.online.state = "Online" => IsOpen(watch.stream)

\* A user callback waits for a batch that is still queued, so none is leaked and
\* none can fire twice or be shadowed by a later batch of the same id; the same
\* for the callbacks of waitForPendingWrites.
CallbacksAreQueued ==
  /\ \A u \in Users : callbacks[u] \subseteq Range(store.queues[u])
  /\ waits \subseteq Range(Queue)

-----------------------------------------------------------------------------
(* Action properties *)

\* A batch leaves a mutation queue only as the current user's oldest, and only
\* with the first response of the call, which is the one to that very batch:
\* acknowledged after it was committed, rejected with the backend's error when the
\* response rejects it, or dropped with DataLoss when the client cannot decode what
\* it says. Responses carry no batch id: whatever comes, a restart of the stream, an
\* error of the call, another user, is credited to the head of the pipeline.
ResolvedByItsResponse ==
  [][\A u \in Users :
       Len(store'.queues[u]) < Len(store.queues[u]) =>
         LET b == Head(store.queues[u])
         IN  /\ resolved'.user = u /\ resolved'.batch = b
             /\ write.responses # <<>> /\ Head(write.responses).for = b
             /\ resolved'.how \in {"acked", "permanent", "dataloss"}
             /\ resolved'.how = "acked" => b \in committed[u]
             /\ resolved'.how = "permanent" <=> Head(write.responses).rejected]_vars

\* A stream that failed asks for credentials again only when its backoff timer
\* fires, unless no delay is due: it was reset by a restart of the network, by a
\* healthy answer or by the rejection of a write (InhibitBackoff). A backend that
\* reported RESOURCE_EXHAUSTED is never asked again at once.
Retries(s, t) == s.state \in {"Open", "Healthy", "Error", "Backoff"} /\ t.state = "Starting"

BackoffBeforeRetry ==
  [][/\ Retries(watch.stream, watch'.stream) =>
          watch.stream.waiting \/ watch'.stream.delay = 0
     /\ Retries(write.stream, write'.stream) =>
          write.stream.waiting \/ write'.stream.delay = 0]_vars

\* The write path implements the ordered, durable log of WriteLog: restarts,
\* lost connections and user changes neither lose, reorder nor duplicate an
\* accepted write, the backend commits in the order of the queue, and a write is
\* acknowledged only when it is committed. (That it was not committed when it is
\* rejected is not promised: see RejectedByTheBackend.)
Log == INSTANCE WriteLog WITH log <- store.queues, done <- committed,
                              Batches <- 1..MaxEvents

ImplementsWriteLog == Log!Spec

-----------------------------------------------------------------------------
(* Liveness *)

\* Once the network stays enabled and the user signed in, every queued write is
\* resolved, whatever failed before.
WritesResolve ==
  \A u \in Users : \A b \in 1..MaxEvents :
    (user = u /\ net /\ b \in Range(store.queues[u]))
      ~> (user # u \/ ~net \/ b \notin Range(store.queues[u]))

\* With a target to watch and an enabled network, the client reaches Online if
\* the backend answers.
GoesOnline ==
  (net /\ watch.targets # {})
    ~> (~net \/ watch.targets = {} \/ watch.online.state = "Online")

\* online_state_tracker.cc:48: "we have a timeout for OnlineState to reach Online
\* or Offline. If the timeout is reached, we transition to Offline rather than
\* waiting indefinitely."
UnknownIsTemporary ==
  (net /\ watch.targets # {} /\ watch.online.state = "Unknown")
    ~> (~net \/ watch.targets = {} \/ watch.online.state # "Unknown")

-----------------------------------------------------------------------------
(* What comments of the code say *)

\* remote_store.cc:549, on an error that rejects a write: "If this was a permanent
\* error, the request itself was the problem so it's not going to succeed if we
\* resend it." So a write is rejected only when the backend rejected it.
RejectedByTheBackend ==
  [][\A u \in Users :
       Len(store'.queues[u]) < Len(store.queues[u]) /\ resolved'.how # "acked" =>
         write.responses # <<>> /\ Head(write.responses).rejected]_vars
=============================================================================
