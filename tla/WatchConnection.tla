-------------------------- MODULE WatchConnection ---------------------------
(***************************************************************************)
(* The watch half of remote/remote_store.cc, as operators on a record:     *)
(*                                                                         *)
(*   stream      watch_stream_                                             *)
(*   online      online_state_tracker_                                     *)
(*   targets     the keys of listen_targets_                               *)
(*   aggregator  watch_change_aggregator_ is set                           *)
(*   ok          no HARD_ASSERT of the watch half has failed and the       *)
(*               aggregator was never used while null                      *)
(*                                                                         *)
(* net is is_network_enabled_, which CanUseNetwork returns.                *)
(***************************************************************************)
EXTENDS Stream, OnlineStateTracker

CONSTANT Targets       \* the target ids the sync engine may listen to

WatchRecord ==
  [stream : StreamRecord, online : TrackerRecord, targets : SUBSET Targets,
   aggregator : BOOLEAN, ok : BOOLEAN]

NewWatch ==
  [stream |-> NewStream, online |-> NewTracker, targets |-> {},
   aggregator |-> FALSE, ok |-> TRUE]

ShouldStartWatchStream(w, net) ==
  net /\ ~IsStarted(w.stream) /\ w.targets # {}

StartWatchStream(w, net) ==
  [w EXCEPT !.ok         = @ /\ ShouldStartWatchStream(w, net),
            !.aggregator = TRUE,
            !.stream     = StartStream(@),
            !.online     = HandleWatchStreamStart(@)]

\* SendWatchRequest and SendUnwatchRequest: both record the expected response
\* in the aggregator and write to the stream.
SendRequest(w) ==
  [w EXCEPT !.ok = @ /\ w.aggregator, !.stream = Write(@)]

-----------------------------------------------------------------------------
(* Callbacks of the stream *)

\* One watch request for each target.
OnWatchStreamOpen(w) == IF w.targets = {} THEN w ELSE SendRequest(w)

\* Mutant: the connection is not retried.
CloseWithoutRetry(w, net, status) ==
  [w EXCEPT !.aggregator = FALSE, !.online = UpdateState(@, "Unknown")]

\* Mutant: the online state is left alone when the stream is not needed.
CloseKeepsOnline(w, net, status) ==
  LET c == [w EXCEPT !.aggregator = FALSE]
  IN  IF ShouldStartWatchStream(c, net)
      THEN StartWatchStream([c EXCEPT !.online = HandleWatchStreamFailure(@)], net)
      ELSE c

OnWatchStreamClose(w, net, status) ==
  LET c == [w EXCEPT !.ok = @ /\ (status = "ok" => ~ShouldStartWatchStream(w, net)),
                     !.aggregator = FALSE]
  IN  IF ShouldStartWatchStream(c, net)
      THEN StartWatchStream([c EXCEPT !.online = HandleWatchStreamFailure(@)], net)
      ELSE [c EXCEPT !.online = UpdateState(@, "Unknown")]

\* Stream::Close with the notification of its last step.
CloseWatch(w, net, status) ==
  OnWatchStreamClose([w EXCEPT !.stream = CloseStream(@, status)], net, status)

\* A graceful stop is idempotent.
StopWatch(w, net) == IF IsStarted(w.stream) THEN CloseWatch(w, net, "ok") ELSE w

\* Credentials arrive for the attempt made under close count n.
WatchCredentials(w, net, n, status) ==
  LET s == [w.stream EXCEPT !.auth = @ \ {n}]
      v == [w EXCEPT !.stream = s]
  IN  IF IsStale(s, n) THEN v
      ELSE IF status = "ok"
      THEN OnWatchStreamOpen([v EXCEPT !.stream = ResumeStartWithCredentials(s)])
      ELSE CloseWatch(v, net, status)

\* What every message of the backend does first: a message on the stream
\* proves the connection healthy.
MessageArrives(w) ==
  [w EXCEPT !.ok     = @ /\ IsStarted(w.stream) /\ w.aggregator,
            !.stream = ResetBackoff(@),
            !.online = UpdateState(@, "Online")]

\* A target removed with a cause is dropped at once. The sync engine's reaction
\* (HandleRejectedListen) reaches the watch half only through Listen and
\* StopListening.
ProcessTargetError(w, t) == [w EXCEPT !.targets = @ \ {t}]

\* An existence filter mismatch found while a snapshot is raised: the target is
\* unwatched and watched again, unless it was removed meanwhile.
ResetMismatch(w, t) == IF t \in w.targets THEN SendRequest(SendRequest(w)) ELSE w

-----------------------------------------------------------------------------
(* Calls of the sync engine and of the rest of RemoteStore *)

ListenTarget(w, net, t) ==
  LET v == [w EXCEPT !.targets = @ \cup {t}]
  IN  IF t \in w.targets THEN w
      ELSE IF ShouldStartWatchStream(v, net) THEN StartWatchStream(v, net)
      ELSE IF IsOpen(v.stream) THEN SendRequest(v)
      ELSE v

StopListeningTarget(w, net, t) ==
  LET v == [w EXCEPT !.ok = @ /\ t \in w.targets, !.targets = @ \ {t}]
      u == IF IsOpen(v.stream) THEN SendRequest(v) ELSE v
  IN  IF u.targets # {} THEN u
      ELSE IF IsOpen(u.stream) THEN [u EXCEPT !.stream = MarkIdle(@)]
      ELSE IF net THEN [u EXCEPT !.online = UpdateState(@, "Unknown")]
      ELSE u

\* The watch part of EnableNetwork, which has just set is_network_enabled_.
EnableWatch(w) ==
  IF ShouldStartWatchStream(w, TRUE)
  THEN StartWatchStream(w, TRUE)
  ELSE [w EXCEPT !.online = UpdateState(@, "Unknown")]

\* The watch part of DisableNetworkInternal (the network is already disabled)
\* and the online state its caller sets: Offline for DisableNetwork, Unknown for
\* Shutdown and RestartNetwork.
DisableWatch(w, onlineState) ==
  [StopWatch(w, FALSE) EXCEPT !.aggregator = FALSE,
                              !.online = UpdateState(@, onlineState)]

RestartWatch(w) ==
  LET d == DisableWatch(w, "Unknown")
  IN  EnableWatch([d EXCEPT !.stream = InhibitBackoff(@)])
=============================================================================
