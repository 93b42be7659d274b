------------------------------- MODULE Stream -------------------------------
(***************************************************************************)
(* The state machine shared by the watch and the write stream              *)
(* (remote/stream.cc), as operators on a stream record:                    *)
(*                                                                         *)
(*   state    state_                                                       *)
(*   closes   close_count_                                                 *)
(*   auth     the close counts captured by credential requests whose       *)
(*            answer has not yet run on the worker queue                   *)
(*   grpc     grpc_stream_ is set                                          *)
(*   idle, health, waiting                                                 *)
(*            the idleness_timer_, health_check_ and backoff_ timers are   *)
(*            scheduled                                                    *)
(*   delay    the rung of the exponential backoff ladder (current_base_)   *)
(*   ok       no HARD_ASSERT of the stream has failed                      *)
(*                                                                         *)
(* Timers carry no duration: a scheduled one may fire at any later time.   *)
(***************************************************************************)
EXTENDS Naturals

CONSTANT MaxDelay      \* the top rung of the backoff ladder (kBackoffMaxDelay)

ASSUME MaxDelayAssumption == MaxDelay \in Nat \ {0}

StreamStates == {"Initial", "Starting", "Open", "Healthy", "Error", "Backoff"}

\* The classes of util::Status the streams tell apart: those that gRPC ends a call
\* with, and DataLoss, with which OnStreamRead itself closes the stream when it
\* cannot decode a message.
Errors   == {"transient", "aborted", "permanent", "exhausted"}
Statuses == Errors \cup {"dataloss", "ok"}

StreamRecord ==
  [state : StreamStates, closes : Nat, auth : SUBSET Nat, grpc : BOOLEAN,
   idle : BOOLEAN, health : BOOLEAN, waiting : BOOLEAN,
   delay : 0..MaxDelay, ok : BOOLEAN]

NewStream ==
  [state |-> "Initial", closes |-> 0, auth |-> {}, grpc |-> FALSE,
   idle |-> FALSE, health |-> FALSE, waiting |-> FALSE, delay |-> 0,
   ok |-> TRUE]

IsOpen(s)    == s.state \in {"Open", "Healthy"}
IsStarted(s) == s.state \in {"Starting", "Backoff"} \/ IsOpen(s)

-----------------------------------------------------------------------------
(* Starting *)

RequestCredentials(s) == [s EXCEPT !.auth = @ \cup {s.closes}]

BackoffAndTryRestarting(s) ==
  [s EXCEPT !.state   = "Backoff",
            !.waiting = TRUE,
            !.delay   = IF @ < MaxDelay THEN @ + 1 ELSE @,
            !.ok      = @ /\ s.state = "Error"]

\* Mutant: a stream in error is restarted at once.
StartWithoutBackoff(s) ==
  RequestCredentials([s EXCEPT !.state = "Starting",
                               !.ok    = @ /\ s.state \in {"Initial", "Error"}])

StartStream(s) ==
  IF s.state = "Error"
  THEN BackoffAndTryRestarting(s)
  ELSE RequestCredentials([s EXCEPT !.state = "Starting",
                                    !.ok    = @ /\ s.state = "Initial"])

\* The lambda given to BackoffAndRun.
BackoffElapsed(s) ==
  LET r == StartStream([s EXCEPT !.state = "Initial", !.waiting = FALSE])
  IN  [r EXCEPT !.ok = @ /\ s.state = "Backoff" /\ IsStarted(r)]

\* Streams can be stopped while they wait for their credentials: an answer
\* requested under an older close count is dropped.
IsStale(s, count) == s.closes # count

\* The tokens are good: the gRPC stream is created and started, which reports
\* OnStreamStart synchronously.
ResumeStartWithCredentials(s) ==
  [s EXCEPT !.ok     = @ /\ s.state = "Starting",
            !.grpc   = TRUE,
            !.state  = "Open",
            !.health = TRUE]

HealthElapsed(s) ==
  [s EXCEPT !.health = FALSE,
            !.state  = IF IsOpen(s) THEN "Healthy" ELSE @]

-----------------------------------------------------------------------------
(* Backoff, idleness, writes *)

InhibitBackoff(s) ==
  [s EXCEPT !.ok = @ /\ ~IsStarted(s), !.state = "Initial", !.delay = 0]

ResetBackoff(s) == [s EXCEPT !.delay = 0]

MarkIdle(s) == IF IsOpen(s) THEN [s EXCEPT !.idle = TRUE] ELSE s

\* Write cancels the idle check and hands the message to grpc_stream_.
Write(s) == [s EXCEPT !.idle = FALSE, !.ok = @ /\ IsOpen(s) /\ s.grpc]

-----------------------------------------------------------------------------
(* Stopping *)

\* Steps 1 to 7 of Close, without the notification of the listener, which the
\* owner of the stream adds. "ok" is a graceful stop.
CloseStream(s, status) ==
  [s EXCEPT !.ok      = @ /\ IsStarted(s),
            !.idle    = FALSE,
            !.waiting = FALSE,
            !.health  = FALSE,
            !.closes  = @ + 1,
            !.delay   = IF status = "ok" THEN 0
                        ELSE IF status = "exhausted" THEN MaxDelay ELSE @,
            !.grpc    = FALSE,
            !.state   = IF status = "ok" THEN "Initial" ELSE "Error"]
=============================================================================
